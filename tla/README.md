# Formal models of rs-console

rs-console is the private control plane of a VPN: an HTTP server with passkey
authentication for humans, an address and permission policy for VPN peers, and
a protocol that delivers this policy to gateways. This directory holds TLA+
models of it, TLC configurations that check them on small instances, and
proofs that TLAPS checks for every instance.

Paths are relative to the repository root (`auth/src/lib.rs` and so on).

## Inventory

| Component | State | Operations | Hard behaviour |
|---|---|---|---|
| Authentication service (`auth/src/lib.rs`) | none of its own; locals between store calls | setup, bootstrap and recovery registration, login, sessions, recovery, user approval, seeding, rotation | several store calls per operation, other requests commit in between |
| PostgreSQL store (`server/src/repository.rs`, `server/migrations/`) | users, passkeys, capabilities, ceremonies, sessions, recoveries, audit trail | one SQL transaction per method | row conditions re-checked in the transaction, expiry, invalidation of a user's authority, isolation level |
| HTTP handlers (`server/src/http.rs`) | none | authenticate (session, CSRF, role), then call the service | authentication and mutation are two transactions; clients retry, duplicate and delay requests |
| Commands (`server/src/main.rs`) | none | seed-operator, break-glass, rotate-auth-epoch | run concurrently with the server and with each other; the last is for a restored database |
| Server process (`server/src/main.rs`) | two listeners, a shutdown channel, a signal watcher | start, serve, drain | the start fails half-way, a signal comes early, the listeners drain at different times |
| WebAuthn engine (`server/src/webauthn.rs`) | the sign counter inside a passkey's public data | start and finish ceremonies | the counter is read, compared and written back without a lock; exclude lists grow old |
| VPN policy (`policy/src/vpn.rs`) | peers, generation | enroll, set_games, rotate_key, revoke | reuse of freed addresses, exhaustion of the pool, the generation as the name of a policy |
| Gateway contract (`policy/src/contract.rs`) | none | manifests, digests, deliveries, acknowledgements | an acknowledgement must bind gateway, generation and content |
| Gateway synchronisation (`api/src/lib.rs`) | desired and applied manifest per gateway | poll, acknowledge, set_desired | lost, duplicated and reordered messages; two lock acquisitions in one operation |

How they interact: handlers and commands call `AuthService`, which calls the
store; the only shared state is the database. `VpnPolicy::manifest` builds the
manifest that a publisher gives to `set_desired`; gateways poll and acknowledge
through `GatewaySyncService`. The two halves of the program do not call each
other, and no publisher or gateway is in the repository.

What makes each part correct:

* sessions: only a login that happened after the last invalidation of its user,
  with a passkey that is still live, is accepted;
* registration: a token registers one passkey, in the epoch it was issued in;
  a ceremony registers one, whoever finishes it; bootstrap, which needs no authentication, yields one operator passkey;
* recovery: a completed recovery has a passkey that is newer than its approval;
* store: methods that interleave statement by statement do what they do alone;
* restore: authority that a backup brings back dies with the rotation;
* browser: a tab acts only as the identity it was shown, and is not locked out
  by the other tabs;
* process: a shutdown reaches both listeners and cuts no accepted request, as far
  as signals are handled;
* policy: every reachable policy builds a manifest, a peer keeps its address,
  a generation names one policy;
* synchronisation: a record says what the gateway ran, a gateway comes to
  enforce the desired policy, and the record follows, as far as publishers store
  manifests in order.

## Modules

| Module | Models | Builds on |
|---|---|---|
| `AuthStore` | the tables and the methods of `PgAuthStore`, a transaction as one step | |
| `AuthService` | `AuthService`, the handlers and the commands, running concurrently | `AuthStore` |
| `AuthProofs` | proofs about the types and the capabilities of `AuthService` | `AuthService` |
| `SessionAuthority`, `TokenAuthority` | abstract: what authentication promises about sessions and about tokens | |
| `AuthRefinement` | `AuthService` implements both | `AuthService` |
| `AuthorityProofs` | proofs about sessions and recoveries, and that the service implements `SessionAuthority` and `TokenAuthority` | `AuthProofs`, `AuthRefinement` |
| `StoreTransactions` | the methods of `PgAuthStore` statement by statement in PostgreSQL; implements `SessionAuthority` | |
| `TransactionProofs` | proofs about statements, row locks and deadlocks, and that the commits implement `SessionAuthority` | `StoreTransactions` |
| `Restore` | backup, restore and `rotate-auth-epoch` around the service | `AuthService` |
| `RestoreProofs` | proofs that what a restore brings back is dead after the rotation | `Restore`, `AuthProofs` |
| `Recovery` | a user who lost every passkey, an operator, and lost responses | `AuthService` |
| `Passkeys` | the WebAuthn engine, authenticators and sign counters | `AuthService` |
| `PasskeyProofs` | proofs about sign counters, responses and exclude lists | `Passkeys`, `AuthorityProofs` |
| `Browser` | cookies, CSRF tokens, statuses and tabs around the handlers | `AuthService` |
| `BrowserProofs` | proofs about the tabs of `Browser` | `Browser` |
| `Server` | `serve`: start, two listeners, shutdown | |
| `ServerProofs` | proofs about `Server` | `Server` |
| `VpnPolicy` | `VpnPolicy` and the checks of `PeerManifest::new` | |
| `GatewaySync` | `GatewaySyncService` with its store, publishers, gateways and network | `VpnPolicy` |
| `GatewayContract` | a gateway's report field by field and the answer of `poll` | |
| `UtcTimestamp`, `CanonicalJson` | `valid_utc_timestamp` and `write_canonical_json`, with a reference for each | |
| `GatewayMessages` | what the synchronisation takes for granted of reports and timestamps | `GatewayContract`, `UtcTimestamp` |
| `GatewayProofs` | proofs about the policy, the synchronisation and its messages | `GatewaySync`, `GatewayMessages` |
| `MC...` | instances for TLC | |

Definitions named `X_Something` are mutants of `X` (see Runs).

### Authentication

A table is a function from identifiers to rows; an absent row has not been
inserted. A method that runs one SQL transaction is one action over the tables.
A method that fails rolls back, so failure is an action that is not enabled.
The conditions of `WHERE` clauses are operators (`CapabilityOpen`,
`CeremonyOpen`, `SessionValid`, `RegistrationCommits`).

A request that makes several store calls keeps what it has read in `task[p]`,
and each store call is a step: `SetupStart` reads a capability and
`SetupInsert` inserts the ceremony; `BootstrapStart`, `BootstrapOperator` and
`BootstrapInsert` are `start_operator_bootstrap`; `RegistrationFinish` and
`RegistrationCommit` are `finish_registration`; `LoginFinish` and
`LoginCommit` are `finish_authentication`; `OperatorRequest` is `operator()`,
followed by one of `ApproveRecovery`, `IssueRecoverySetup` and `ApproveUser`;
`Logout`/`LogoutCommit` and `SeedOperator`/`SeedCommit` likewise. Requests that
make a single store call are single steps. `Abort` ends a request at any point:
a check fails, the client goes away, the process stops.

Reads are merged with a neighbouring step only where this cannot be observed:
the user of a capability is read after the capability, but the row it names is
never deleted and its identity never changes; `finish_authentication` reads the
passkeys before the transaction that reads them again, and a passkey only goes
from absent to live to revoked; `seed_operator` and
`approve_user_and_issue_setup` look the user up before an insertion that the
primary key refuses for the same reason.

Time is a counter. A request's `now` is taken before its store call runs and
may be up to `MaxLag` older than `clock`; a request with a stack frame carries
its `now` along, however long it takes. `created_at` of a capability is the
database's clock.

Data abstraction: tokens and their hashes are the identifiers of their rows (a
client may present any token that exists, which includes every retry and
replay); CSRF tokens are numbered per session; a nullable timestamp is whether
it is set. `human_users.enabled` is left out because no statement clears it.
Fields marked (history) are not columns: they record a fact that properties
speak of, and no action reads them. `auth.epoch_rotated_all` is one audit row
that names no user; the model enters it under each user whose epoch it advanced.

`rotate_all_auth_epochs` has the constant `RotationDecodes`: whether sqlx decodes
the rows of `RETURNING 1`. As the code stands it does not (see Findings), and
the method rolls back unless there are no users, so `FALSE` is the code as it
is. The runs that are not about this set it to `TRUE`: this only adds
behaviour, and shows what holds once the statement is repaired.

### Abstract specifications

`SessionAuthority` has an epoch per user, passkeys and sessions: a session is
opened with a live passkey, and an invalidation ends every session of its users
in the step that advances their epochs and revokes the passkey. `TokenAuthority`
says the same of setup, recovery and break-glass tokens: a token is issued once,
pays for one passkey of its user at most, and an invalidation voids all tokens
of the user. `AuthRefinement` maps the tables to these: a session is usable
while its row is live and of its user's epoch, a token is spent if a passkey was
registered with it and void if it was consumed otherwise. Together they imply
that a usable session has a live passkey and that an operator has one open
break-glass window at most. `StoreTransactions` maps its committed rows to
`SessionAuthority` in the same way.

### Statements and locks

`StoreTransactions` runs the statements of up to three methods as PostgreSQL
does at READ COMMITTED. A statement takes a snapshot, visits the rows that match
its `WHERE` clause in any order, waits for a row that another transaction has
written, and evaluates the clause again on the version then committed. Joined
rows are not read again, so `session` compares with an epoch it saw before it
waited. The advisory lock of bootstrap, rollbacks, and the deadlock detector
are included. The arguments of a call are what the service would pass: rows that
it has read, of the user that they belong to (`Arguments`). Rows do not expire in
this module; the methods that only insert rows of their own are not repeated, nor
is `rotate_session_csrf`, which locks what `session` locks.

### Around the service

`Restore` takes a backup at any moment and restores it later, with requests in
flight throughout. The restored epochs may have been in use already, so a
request that read its epoch before the restore may agree with it again.

`Recovery` follows one user through request, approval, token, registration and
login. The token exists only in one response; a lost one is replaced by a new
request, whose approval invalidates what came before.

`Passkeys` adds what `public_data` holds. Two logins with one passkey may read
one counter and write theirs in either order, so the stored counter may go back.
Responses stay with the client and may be presented late and repeatedly.
An authenticator is registered twice by one user only in one epoch, with two
recovery tokens (`OneEpochPerAuthenticator`): two recoveries that were both
approved before a token was issued leave two open tokens, whose challenges do not
exclude each other's passkey. Bootstrap passes an empty exclude list, so the
property is about users who are not operators.

`Browser` gives every request a tab, a cookie and a CSRF token. A response may
arrive late or never, and its `Set-Cookie` then replaces what another tab
obtained. An eager tab is the application: it repeats a mutation, discovers the
session when it is refused, and logs in when it has none.

`Server` has the steps of `serve` in order, each of which may fail. A listener
queues connections from the moment it is bound. The signal handlers (`handled`)
are installed by a task that may run late, and either may fail to be installed:
without SIGINT's the task ends at once and shuts the server down (`WatchFails`),
without SIGTERM's it waits on. A signal without a handler kills the process
(`Kill`). A handler awaits the body that its client sends, and no timeout ends
this: an accepted connection is read until its client has sent everything
(`Send`) or goes away (`Leave`), and only then can it be answered.

### Policy and gateways

`VpnPolicy` is one action per method; an error or a change of nothing is an
action that is not enabled. The pool is `FirstHost .. LastHost` (2 to 254 in
the program, and `PeerManifest::new` accepts as many peers as that). The user
who owns a peer and the health policy are left out: no check reads them.

In `GatewaySync`, a publisher builds a manifest of the present policy with any
timestamp (`Build`) and stores it at any later time (`Publish`). `set_desired`
compares nothing, so of two publishers the one with the older manifest may store
last: what is desired goes back, and `poll` answers `GatewayAhead` to a gateway
that has moved on. The service keeps no record
of messages, so the network is modelled by what it can still produce: any
delivery ever made may arrive (`GatewayApply`), and a report or an
acknowledgement of anything the gateway ever ran may be presented. The gateway
is external; it is assumed to refuse a delivery that is not newer than what it
runs. `acknowledge` takes the lock of the desired manifests and then the lock
of the applied ones: `Acknowledge` and `RecordApplied`. The digest is assumed
injective; the delivery id, which holds 12 characters of it, is taken to be
shared by all manifests of one generation.

`GatewayContract` has reports as the wire can carry them: a list of interfaces
with repetitions, in any order. `UtcTimestamp` compares the calendar of
`valid_utc_timestamp` with one that counts days. `CanonicalJson` writes values as
sequences of tokens and compares with equality of JSON values. A string is one
token, as the quotes and escapes of `serde_json` delimit it; a number has a token
for each digit, so that only separators keep two of them apart.

## Runs

| Run | Checks | Shows |
|---|---|---|
| `auth_sessions` | `UsableSessionPostdatesInvalidation`, `ImplementsSessionAuthority` | a login that raced a recovery approval, a break-glass or a rotation leaves no accepted session |
| `auth_registration` | `TypeOK`, `OpenCapabilityIsCurrent`, `CapabilityRegistersOnce`, `CeremonyRegistersOnce`, `CompletedRecoveryHasFreshPasskey`, `RegistrationIsCurrent`, `ImplementsTokenAuthority` | tokens and ceremonies are single-use, and tokens die with their epoch |
| `auth_seed` | `AtMostOneOperator` (violated) | two concurrent `seed-operator` commands |
| `auth_window` | `OperatorRegistersWithinWindow` (violated) | bootstrap after a break-glass window has expired |
| `restore` | `RestoredAuthorityIsDead`, `RestoredTokensRegisterNothing` | from an empty database through seeding, bootstrap, backup and restore: nothing old survives a rotation that succeeds |
| `restore_rotation` | `RotationSucceeds` (violated) | the rotation as it is never succeeds |
| `tx` | `AuthenticatedSessionWasCurrent`, `EpochCountsInvalidations`, `OnlyRotationDeadlocks`, `CapabilityRegistersOnce`, `BootstrapIsExclusive`, `CommitsImplementSessionAuthority`, `InvalidationReachesOlderAuthority` | three methods interleaved statement by statement |
| `recovery` | `UserRecovers` | recovery in spite of losses and expiry |
| `passkeys` | `RefusedOnlyIfOvertaken`, `ResponseOpensOneSession`, `OneEpochPerAuthenticator` | concurrent logins and registrations |
| `browser` | `TabActsAsShown`, `EagerTabSucceeds` | several tabs, one cookie |
| `gateway` | `ManifestBuilds`, `NoAddressLeaks`, `AddressesAreStable`, `GenerationNamesPolicy`, `RecordedWasApplied`, `ConflictsAgreeOnPeers`, `PolicyConverges`, `RecordConverges`, `PollIgnoresListOrder`, `AcceptsExactlyInstants`, `TextIdentifiesValue` | from the policy to the gateway |
| `server` | `ShutdownAnswersAccepted`, `ShutdownCompletes` | start, signals and shutdown in every order, with clients that stall |

Scopes. Some runs would be too large with one set of bounds for all their
questions. Their MC module then has a variable `scope`, chosen at the start and
never changed, and restricts the steps of each scope to what its question needs:

* `auth_sessions`: *invalidation* has no passing of time, *expiry* has no
  recoveries, one login and one rotation;
* `passkeys`: *login* has concurrent logins with two passkeys of an operator,
  *registration* has a setup token, the tokens of two recoveries and one authenticator;
* `browser`: *tabs* has two tabs that do whatever they like, *retry* an eager tab
  and another tab of the same operator, and time;
* `gateway`: *policy* changes the policy for long and publishes nothing,
  *delivery* has a short history of one peer whose manifests are built and stored
  one at a time, *race* a shorter one with two publishers at once, *messages* takes
  no step and checks the functions on messages on all their sample inputs.

Bounds. Two requests in flight (`Task`) suffice for a race between a pair of
operations, and commands and single-call requests add further actors without a
slot. `auth_sessions` has an operator and a user, each with a passkey, two login
ceremonies, one break-glass and one recovery, and two epoch changes
(`MaxEpoch` 3), so that a login can straddle one or both; time runs to 4 with
an idle lifetime of 2, an absolute one of 3 and a lag of 1, so that every
expiry falls before, into and after a late request. `auth_registration` has two
capabilities and two ceremonies, so that one token can start two ceremonies and
a recovery can follow a setup, two recoveries of the same or of different users,
room for two new passkeys, and two finishes in flight that have read one ceremony;
it also starts from an empty database, where the
operator is seeded, bootstraps and logs in, without recoveries and ticks.
`restore` has one operator, two of every row and
one request in flight; the last epoch is kept for the rotation. `tx` has three
transactions, the least for both circles of waiting there are, over two
databases, each with a second user for a rotation to visit: an operator who is
signed in, and one who is enrolling. `recovery`
allows three faults, among them ticks; identifiers suffice for every retry they
can cause, and sessions do not expire. `passkeys` has three ceremonies and counters up to 3, so that one login
can be overtaken twice. `browser` has six requests of other tabs, losses and
failures in *tabs*, three with ticks in *retry*. In `gateway`, three peers and keys
share two addresses and eight generations, enough to fill the pool, empty it and
reuse it; three generations under two timestamps are delivered with two
acknowledgements in flight, and two generations suffice for two publishers that
store out of order; reports have up to three interfaces; the years are
one of each kind; JSON values are nested to two levels. `server` has three
connections to two listeners.

Symmetry is used for identifiers that differ by name only, in runs of safety
properties. Elsewhere identifiers, which are random in the program, are used in
a fixed order.

TLC checks for deadlock in `tx`, where the end of all transactions is a step of
its own; circles of waiting transactions, which PostgreSQL breaks, are the
subject of `OnlyRotationDeadlocks`. Elsewhere deadlock is not checked: with every identifier used up and the
clock at its bound nothing is left to do, and a server without requests may
rest.

Fairness. Nothing is assumed for safety. The liveness properties assume:

* `PolicyConverges`, `RecordConverges`: a gateway keeps polling with what it runs,
  applies what reaches it and repeats its acknowledgement; an acknowledgement
  that is being handled is handled to its end. Publishers may stop or go on, and
  store in any order: a gateway that runs a newer generation than the one desired
  (`Ahead`) is excepted, as `poll` gives it nothing.
  Polling alone does not repair a lost acknowledgement: the gateway has to
  repeat it.
* `RotationSucceeds`: the operator repeats the command. Where it succeeds at all, that
  assumption is the property, so only the run that refutes it has it.
* `UserRecovers`: user and operator each go on as long as something is left to do.
* `EagerTabSucceeds`: the server runs every request to its end and the eager tab
  goes on. One eager tab is assumed: two could replace each other's CSRF token
  for ever. It logs in as an operator.
* `ShutdownCompletes`: the runtime polls every task that can run, and a handler that
  has its whole request ends. Clients need not go on sending: that none of them
  stalls for ever is a premise of the property.

Each property is also tested against a mutant of a definition it depends on,
which must violate it.

## Findings

* `auth/src/lib.rs:714`: `seed_operator` checks `operator_exists` outside the
  transaction that inserts the operator. Two commands at the same time seed two
  operators; README.md:107 says that the command "refuses when any operator
  already exists".
* `auth/src/lib.rs:433`: when the break-glass window has expired unused, and the
  revoked passkey was the last one of any operator, `start_operator_bootstrap`
  falls through to `operator_without_credential`, which has no time limit.
  SECURITY.md:44 and README.md:88 speak of a window of at most 15 minutes.
* `server/src/repository.rs:509`: `rotate_all_auth_epochs` reads the rows of
  `RETURNING 1` as `i64`. PostgreSQL types the literal as INT4, which sqlx does not
  decode as `i64` (`ready` in the same file reads `SELECT 1` as `i32`): the
  rotation rolls back whenever there is a user, and README.md:130 asks for it
  after a restore. The version of sqlx and its rules are external to the model;
  `RotationDecodes` states them.

Observations that no document contradicts:

* a rotation, a break-glass and a login can wait for each other in a circle, and
  so can two rotations, which visit the users in whatever order PostgreSQL finds
  them; PostgreSQL fails one of them. No other methods can
  (`OnlyRotationDeadlocks`);
* a capability issued while an invalidation runs may survive it, as if it had
  been issued afterwards;
* `acknowledge` compares under one lock and records under another, so the record
  of a gateway may go back to an older generation until the next
  acknowledgement (`RecordConverges`);
* a generation published again with another timestamp is never recorded for a
  gateway that applied it before, but the gateway enforces the right peers
  (`ConflictsAgreeOnPeers`, `PolicyConverges`);
* publishers that store out of order leave an older manifest desired; gateways
  that run a newer one are answered `GatewayAhead` until a newer one still is stored;
* `issue_recovery_setup` leaves open what other approved recoveries of the user
  were issued, so that one approval round may yield two passkeys on one
  authenticator (`OneEpochPerAuthenticator`);
* a request that has passed `operator()` completes its mutation although the
  session is revoked meanwhile;
* a request whose timestamp is old when it commits moves the idle deadline of its
  session back by up to that age, or extends a session that fell idle meanwhile;
* when the handler for ctrl-c cannot be installed, the server shuts down; when the
  one for SIGTERM cannot, the server goes on, and a SIGTERM cuts what it has accepted;
* no request has a timeout: a client that stops sending its body holds the drain for
  ever, and once the handlers are installed a further SIGINT or SIGTERM does not
  end it either.

## Proofs

The first part of `GatewayProofs` proves, for every set of peers and keys and every pool,
`PolicyTypeOK` and the four properties of policies in the run `gateway`. The inductive invariant `PolicyInv` adds to
the types that no two peers share a key or an address; that the lowest free
address is free rests on the least element of a set of naturals (`MinIsLeast`).
`NoAddressLeaks` compares cardinalities through the injection from peers to
addresses. The assumptions are `HostAssumption` (the pool is an interval) and
`GenerationAssumption`.

`AuthProofs` proves, for every set of users, rows and concurrent requests,
every lifetime and every bound: `TypeOK`, `OpenCapabilityIsCurrent`,
`CapabilityRegistersOnce`, `CeremonyRegistersOnce` and the action property
`RegistrationIsCurrent`. None of them is inductive alone. `RegistrationInv` adds

* `PasskeysAreSpent`: the ceremony and the capability behind a passkey are
  consumed, which is why an open one cannot have registered a passkey yet;
* `LiveRowsHaveUsers`: what can still act belongs to a user that exists, so that
  creating a user cannot make an old capability stale or current by accident;
* `CeremonyServesCapability`: a ceremony acts for its capability's user, which
  connects the epoch of the capability to the epoch of the passkey's owner;
* `FrameAgrees`: what a request read before it was interrupted (the user and the
  capability of a ceremony to insert, the ceremony to finish) still holds.

There is one lemma for each transaction, saying that it preserves `TablesInv`,
and one for each step of a request. Two facts carry the argument across
interleavings: no transaction changes what an inserted ceremony or capability
is for (`RowsKeep`), and nothing consumed is opened again (`SpentStaysSpent`).
The assumptions are `NoneAssumption`, `ConfigAssumption` (lifetimes are
positive) and `InitialAssumption` (the initial database is consistent).

The first part of `AuthorityProofs` proves the properties of sessions, also for
every value of the constants: `UsableSessionPostdatesInvalidation`, and
`ImplementsSessionAuthority`, that every step of the service is a step of `SessionAuthority` or changes nothing it can see.
A usable session compares two epochs, the property speaks of invalidations, and
a login reads the epoch long before it inserts it. `SessionInv` therefore adds to
`RegistrationInv`

* `EpochCountsInvalidations`: `auth_epoch` is one more than the number of audited
  invalidations of the user, so that equal epochs mean an equal history;
* `SessionsAreCounted` and `FrameIsCounted`: a session, and the stack frame of a
  login before its transaction, carry the epoch of the count they read;
* `CeremoniesHaveUsers`: a registration ceremony was begun for a user that exists,
  so that creating a user never meets rows of its own.

The argument goes over transactions and not over handlers. `StepIsTransaction`
says that each of the steps of `Next` is one of the transactions of the store, with the
arguments the service passes to it, or leaves the tables alone; what concerns
tables only is then proved once for each transaction (`TransactionCounts`,
`SessionsStep`), and only what concerns stack frames is proved for each handler
(`StepFrames`). For the refinement, each transaction is a step of
`SessionAuthority`: a registration, a sign-in, a sign-out, an invalidation, or a
stutter; that a sign-in uses a live passkey of an enrolled user rests on
`SessionInv`.

The second part adds `CompletedRecoveryHasFreshPasskey` and
`ImplementsTokenAuthority`. Four lemmas say what no
transaction may do to a row once it is inserted (`CredentialHistory`,
`CeremonyHistory`, `CapabilityHistory`, `SessionHistory`). The invariant
`RegistrationTablesInv` adds that absent rows name nobody, so that no passkey or
token belongs to a user before it is inserted, and that no recovery comes from a future
epoch, which is what makes a passkey registered in the present one fresh. For `ImplementsTokenAuthority`, a token is
spent if a passkey names it and void if it was consumed otherwise: that an open
token is unspent is `PasskeysAreSpent` of `RegistrationInv`. `InitialAssumption` also says
that the initial rows are finitely many: the audit trail counts them from the start.

`PasskeyProofs` proves the three properties of `Passkeys` for every set of
authenticators and every bound on counters. Each step with the engine is a step
of the service (`PasskeysImplementService`), so the invariants above hold here as
well. Logins need `LoginInv`: a login in flight holds a response that was made for
its ceremony and, once verified, the counter of that response (`LoginsAreVerified`);
what opened a session is spent with its ceremony (`OpenedIsSpent`), which gives
`ResponseOpensOneSession` without looking at a counter; and a stored counter came
with a session (`StoredWasOpened`), which gives `RefusedOnlyIfOvertaken` although
writes of the counter are lost. Registrations need `AuthenticatorInv`, that follows
an exclude list from the read (`FramesArePrepared`) into the challenge
(`ListsMissOnlyCurrent`), to the authenticator (`CreatedObeysList`) and back: as
long as the token of a challenge is open, all that its list misses was registered
in the present epoch with another recovery token. That tokens open at the same time
are recovery tokens is `TokenTablesInv`: setup tokens belong to the first epoch of
a user and there is one, recovery tokens belong to later ones, and only operators
lose passkeys. The proof attempt first failed here for a good reason: one passkey
per authenticator and user is false, and with two recoveries TLC shows the behaviour in which
an authenticator is registered twice. `PasskeyAssumption` says that the enrolled
passkeys obeyed their lists too.

`RestoreProofs` proves `RestoredAuthorityIsDead` and `RestoredTokensRegisterNothing`
for every backup, restored at any moment, with any requests in flight.
`RegistrationInv` does not hold here: a request that read a row before the restore
may name a ceremony, a capability or a user that is no longer there, and the
restored epoch may be one that it read. `RestoreInv` keeps what a restore cannot
take away: the types of the tables and of the backup; that every row of either was
inserted once (`issued`), and that a registration or a login in flight names such a
ceremony (`FramesAreIssued`), whose identifier no later row gets. From the rotation
on, it adds that old sessions are revoked and old tokens consumed (`OldIsDead`), that
the ceremony of a login from before is not open (`EarlyLoginsFail`), and that a
registration whose ceremony is open names the token of that ceremony
(`RegistrationsAgree`). The lemmas named after the store's methods say that rows
only grow older (`RowsAge`): no method opens what is revoked or consumed. The
argument therefore does not compare epochs, which a restore makes meaningless, but
rests on the rotation consuming ceremonies and capabilities, and on random
identifiers: `IdentifierAssumption` says that tables share none, and `ServiceStep`
that none is drawn twice. `RotationSucceeds`, that the rotation happens at all, is
liveness and stays with TLC.

The second part of `GatewayProofs` proves `RecordedWasApplied` and `ConflictsAgreeOnPeers` for every
set of publishers and gateways and every policy, without assuming that anything is
delivered or stored in order. `SyncInv` speaks of every manifest that is drafted,
desired or delivered anywhere (`Known`): none is of a generation the policy has not reached, those of the
present one hold the present peers (`KnownIsPast`), and two of one generation hold
the same peers (`KnownAgree`), as a change of the peers advances the generation
past them all. It follows a manifest to the gateway (`RanWasDelivered`) and back (`PendingWasApplied`:
an acknowledgement in flight is of a manifest that ran). It rests on `PolicyInv`
and on `NothingAssumption`: that no manifest is a missing one.

Its third part is about messages. `PollIgnoresListOrder` holds for reports of any
length: a supported report has pairwise different interfaces, so that its first
entry for `wg-users` is its only one. `AcceptsExactlyInstants` holds for every
year (`AcceptsInstants`): the days that the reference counts before a year grow by
the length of the year that `leap_year` says, the days before a month by what
`days_in_month` says, and so a day number belongs to one date, which the function
accepts. Neither needs induction: the reference counts in closed form.

`ServerProofs` proves `ShutdownAnswersAccepted` for every set of listeners and
clients. `ServerInv` adds that no handler is installed and nothing is served before
the start has succeeded, that a listener with a request in hand has not drained, and
that requests are cut only by the end of the process. With both handlers installed
that end is an orderly one, after both listeners have drained.

`TransactionProofs` proves everything that the run `tx` checks, for every number
of transactions, calls and rows. The argument has five layers.

* `LockInv`: every uncommitted version is the update, by a statement of its
  transaction, of the version that is still committed (`WritesOK`), because no two
  transactions write one row (`LocksExclude`); the rows a statement has still to
  visit exist and match all of its clause that cannot change (`TodoOK`); and what a
  method fails without is locked once it has passed (`NeededAreLocked`). Rows only
  grow older (`Older`), so that no commit disturbs another transaction's part.
* `SweepInv`: a row that was open when an invalidation began is, for each of its
  sweeps that has started, written, closed, or still to be visited. With the locks
  this gives `EpochCountsInvalidations`, as the epoch is computed from the locked
  version, and `InvalidationReachesOlderAuthority`.
* `SessionInv`: the epoch that `session` compares with is not older than its call.
  This gives `AuthenticatedSessionWasCurrent`.
* `EnrolInv`: who counted no operator passkey still holds the advisory lock, and
  the capability of a passkey is consumed. This gives `CapabilityRegistersOnce` and
  `BootstrapIsExclusive`, two properties that single `WHERE` clauses do not give.
* `AuthorityInv`: no session is of an epoch that its user has not reached. With
  it every commit is one step of `SessionAuthority` or invisible to it
  (`CommitsImplementSessionAuthority`), and every other step is invisible.

`OnlyRotationDeadlocks` follows from these and from `HeldInv`, that the advisory
lock is held by a running registration. `Rank` numbers the statements in the order
in which the methods lock rows. A transaction that waits for one that waits itself
has the lower rank, unless one of the two is a rotation or both want a user that a
rotation has (`LockOrder`); a circle cannot go up for ever, so it has one of these
exceptions, and following it backwards leads to a second rotation, or to the
break-glass and the login. The first form of the property, that a rotation takes
part in every circle together with a break-glass and a login, was false: the
attempt to prove it led to two rotations over two users, which the instance of the
time, with one user, did not contain.

The assumptions are `RowAssumption` (finitely many rows and transactions, of
different names), `CallsAssumption` (the types of arguments) and
`DatabasesAssumption` (`Consistent`: references hold, tokens of passkeys are
consumed, nothing has been invalidated yet).

`BrowserProofs` proves `TabActsAsShown` for every number of tabs and users.
`TabInv` adds that a tab waits as long as its handler runs, so that its cookie and
CSRF token stay what the handler has seen, although another response may have
replaced the cookie of the browser since; and that an authenticated handler runs for
the user of that session, whose row keeps its user from its insertion on. It assumes
`InitialAssumption` of `AuthService`.

What TLC alone checks:

* liveness under fairness, which is out of the prover's reach: `UserRecovers`,
  `EagerTabSucceeds`, `PolicyConverges`, `RecordConverges`, `RotationSucceeds`,
  `ShutdownCompletes`;
* `TextIdentifiesValue`: `CanonicalJson` is recursive, and the statement for all
  values needs induction over them.

## Not modelled

WebAuthn cryptography and the JSON of its protocol, SHA-256 (taken to be
injective), routing and the split into a public and a private listener, CORS and
cache headers, health and capability documents, argument parsing and
confirmation phrases, the grammar of identifiers, keys and addresses, the layout
of a timestamp's text, configuration from the environment, packaging. None of
these keeps state; the parsers are character-level functions with unit tests.
The generation's limit of 2^64 is out of reach of any behaviour.

## Plan

Done: the modules and runs above, and a proof of every safety property that a run
checks, except `TextIdentifiesValue`. What could follow:

1. `rotate_session_csrf` and expiry in `StoreTransactions`;
2. handlers and commands beyond the store: routing between the two listeners and
   the confirmation of commands.
