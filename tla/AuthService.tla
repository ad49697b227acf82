----------------------------- MODULE AuthService -----------------------------
(***************************************************************************)
(* Human authentication as it runs: the AuthService of auth/src/lib.rs     *)
(* called by the handlers of server/src/http.rs and by the maintenance     *)
(* commands of server/src/main.rs, over the store of module AuthStore.     *)
(*                                                                         *)
(* Requests run concurrently.  A handler that makes several store calls    *)
(* keeps what the earlier ones returned in its stack frame, task[p], and   *)
(* any other request may commit in between.  A handler that makes a single *)
(* store call, or whose earlier reads are of immutable columns only, is    *)
(* one step.  A client may present every token, ceremony and identifier    *)
(* that exists, as often as it likes: duplicated, late and concurrent      *)
(* requests are ordinary behaviours.  Passkey cryptography is external: a  *)
(* response either verifies or the request aborts.                         *)
(***************************************************************************)
EXTENDS AuthStore

CONSTANTS
    Task,             \* requests and commands that can be in flight at once
    CeremonyTtl, CapabilityTtl, SessionIdleTtl, SessionAbsoluteTtl,  \* AuthConfig
    MaxWindow,        \* longest break-glass window (15 minutes)
    MaxLag,           \* bound: age of a request's timestamp when a one-step handler commits
    MaxTime,          \* bound on clock
    MaxEpoch,         \* bound on auth_epoch
    MaxCsrf,          \* bound on CSRF rotations of a session
    InitialOperators, \* users enrolled as operators before the run
    Enrolled,         \* the passkeys registered before the run: credential -> user
    SignedIn          \* the sessions open at the start: session -> credential

ASSUME ConfigAssumption ==
    /\ {CeremonyTtl, CapabilityTtl, SessionIdleTtl, SessionAbsoluteTtl} \subseteq Nat \ {0}
    /\ {MaxWindow, MaxLag, MaxTime, MaxEpoch, MaxCsrf} \subseteq Nat

ASSUME InitialAssumption ==
    /\ DOMAIN Enrolled \subseteq CredentialId
    /\ \A c \in DOMAIN Enrolled : Enrolled[c] \in UserId
    /\ DOMAIN SignedIn \subseteq SessionId
    /\ \A s \in DOMAIN SignedIn : SignedIn[s] \in DOMAIN Enrolled
    /\ InitialOperators \subseteq UserId
    /\ IsFiniteSet(DOMAIN Enrolled) /\ IsFiniteSet(DOMAIN SignedIn)

VARIABLES clock,      \* wall-clock time
          task        \* the stack frame of every request in flight

vars == <<users, credentials, capabilities, ceremonies, sessions, recoveries, audit, clock, task>>

-----------------------------------------------------------------------------
(* Stack frames.  pc names the store call that comes next.                 *)

Pc == {"idle",
       "setup_insert",         \* start_setup_registration: the capability was read
       "bootstrap_operator",   \* start_operator_bootstrap: there was no recovery window
       "bootstrap_insert",     \* start_operator_bootstrap: the operator was read
       "registration",         \* finish_registration: the ceremony was read
       "authentication",       \* finish_authentication: the ceremony and the user were read
       "operator",             \* an operator mutation: operator() returned
       "logout",               \* logout: authenticate_session returned
       "seed"}                 \* seed_operator: operator_exists returned false

Frame ==
    [pc         : Pc,
     now        : Nat,
     user       : UserId \cup {None},
     epoch      : Nat,
     capability : CapabilityId \cup {None},
     ceremony   : CeremonyId \cup {None},
     session    : SessionId \cup {None},
     began      : Nat]         \* (history) Invalidations(user) when finish_authentication read it

Idle == [pc |-> "idle", now |-> 0, user |-> None, epoch |-> 0, capability |-> None,
         ceremony |-> None, session |-> None, began |-> 0]

TypeOK ==
    /\ TablesTypeOK
    /\ clock \in Nat
    /\ task \in [Task -> Frame]

InitialUsers == {Enrolled[c] : c \in DOMAIN Enrolled}

(* A migrated database in which the users of Enrolled already registered a *)
(* passkey and those of SignedIn have a fresh session.                     *)
Init ==
    /\ users = [u \in UserId |->
                  IF u \in InitialUsers
                  THEN [role    |-> IF u \in InitialOperators THEN "operator" ELSE "user",
                        epoch   |-> 1, created |-> 0]
                  ELSE NoUser]
    /\ credentials = [c \in CredentialId |->
                  IF c \in DOMAIN Enrolled
                  THEN [status |-> "live", user |-> Enrolled[c], ceremony |-> None, epoch |-> 1]
                  ELSE NoCredential]
    /\ sessions = [s \in SessionId |->
                  IF s \in DOMAIN SignedIn
                  THEN [status |-> "live", user |-> Enrolled[SignedIn[s]], epoch |-> 1,
                        csrf |-> 0, idle |-> SessionIdleTtl, absolute |-> SessionAbsoluteTtl,
                        credential |-> SignedIn[s], began |-> 0]
                  ELSE NoSession]
    /\ capabilities = [k \in CapabilityId |-> NoCapability]
    /\ ceremonies = [m \in CeremonyId |-> NoCeremony]
    /\ recoveries = [r \in RecoveryId |-> NoRecovery]
    /\ audit = [e \in EventType |-> [u \in UserId |->
                  CASE e = "passkey.registered" ->
                         Cardinality({c \in DOMAIN Enrolled : Enrolled[c] = u})
                    [] e = "session.created" ->
                         Cardinality({s \in DOMAIN SignedIn : Enrolled[SignedIn[s]] = u})
                    [] e = "operator.seeded" /\ u \in InitialOperators \cap InitialUsers -> 1
                    [] e = "user.approved_with_setup" /\ u \in InitialUsers \ InitialOperators -> 1
                    [] OTHER -> 0]]
    /\ clock = 0
    /\ task = [p \in Task |-> Idle]

(* Utc::now() as a request took it before its store call was executed. *)
Now == {t \in 0 .. clock : t + MaxLag >= clock}

Continue(p, frame) == task[p].pc = "idle" /\ task' = [task EXCEPT ![p] = frame]
Return(p) == task' = [task EXCEPT ![p] = Idle]

-----------------------------------------------------------------------------
(* Passkey registration: setup, operator bootstrap and operator recovery.  *)

(* setup_start reads the capability, of the purpose the client names ... *)
SetupStart(p) ==
    \E k \in CapabilityId, purpose \in {"setup", "recovery_setup"}, now \in Now :
        /\ capabilities[k].purpose = purpose
        /\ CapabilityOpen(k, now)
        /\ Continue(p, [Idle EXCEPT !.pc = "setup_insert", !.now = now,
                                    !.user = capabilities[k].user, !.capability = k])
        /\ UNCHANGED <<tables, clock>>

SetupInsert_StoresPurpose(p) ==
    /\ task[p].pc = "setup_insert"
    /\ \E m \in CeremonyId :
          insert_ceremony(m, capabilities[task[p].capability].purpose, task[p].user,
                          task[p].capability, task[p].now + CeremonyTtl)
    /\ Return(p)
    /\ UNCHANGED clock

(* ... and then inserts the ceremony. *)
SetupInsert(p) ==
    /\ task[p].pc = "setup_insert"
    /\ \E m \in CeremonyId :
          insert_ceremony(m, "registration", task[p].user, task[p].capability,
                          task[p].now + CeremonyTtl)
    /\ Return(p)
    /\ UNCHANGED clock

(* operator_bootstrap_start looks for an open break-glass window ... *)
BootstrapStart(p) ==
    \E now \in Now :
        /\ IF OpenWindows(now) # {}
           THEN \E k \in operator_recovery_window(now) :
                   Continue(p, [Idle EXCEPT !.pc = "bootstrap_insert", !.now = now,
                                            !.user = capabilities[k].user, !.capability = k])
           ELSE Continue(p, [Idle EXCEPT !.pc = "bootstrap_operator", !.now = now])
        /\ UNCHANGED <<tables, clock>>

(* ... failing that, for an operator while no operator has a passkey ... *)
BootstrapOperator(p) ==
    /\ task[p].pc = "bootstrap_operator"
    /\ \E u \in operator_without_credential :
          task' = [task EXCEPT ![p].pc = "bootstrap_insert", ![p].user = u]
    /\ UNCHANGED <<tables, clock>>

(* ... and inserts a ceremony of the kind that this decided. *)
BootstrapInsert(p) ==
    /\ task[p].pc = "bootstrap_insert"
    /\ \E m \in CeremonyId :
          insert_ceremony(m,
              IF task[p].capability = None THEN "operator_bootstrap" ELSE "operator_recovery",
              task[p].user, task[p].capability, task[p].now + CeremonyTtl)
    /\ Return(p)
    /\ UNCHANGED clock

(* setup_finish and operator_bootstrap_finish read a ceremony of their own  *)
(* kinds; between them they accept every kind but a login's.                *)
RegistrationFinish(p) ==
    \E m \in CeremonyId, now \in Now :
        /\ ceremonies[m].kind # "authentication"
        /\ CeremonyOpen(m, now)
        /\ Continue(p, [Idle EXCEPT !.pc = "registration", !.now = now, !.ceremony = m,
                                    !.capability = ceremonies[m].capability])
        /\ UNCHANGED <<tables, clock>>

RegistrationCommit(p) ==
    /\ task[p].pc = "registration"
    /\ \E c \in CredentialId :
          complete_registration(task[p].ceremony, task[p].capability, c, task[p].now)
    /\ Return(p)
    /\ UNCHANGED clock

-----------------------------------------------------------------------------
(* Login and sessions.                                                     *)

LoginStart ==
    /\ \E m \in CeremonyId, now \in Now :
          insert_ceremony(m, "authentication", None, None, now + CeremonyTtl)
    /\ UNCHANGED <<clock, task>>

(* finish_authentication reads the ceremony and the user named by the       *)
(* response; the epoch it will write into the session is the one read here. *)
LoginFinish(p) ==
    \E m \in CeremonyId, u \in Users, now \in Now :
        /\ ceremonies[m].kind = "authentication"
        /\ CeremonyOpen(m, now)
        /\ Continue(p, [Idle EXCEPT !.pc = "authentication", !.now = now, !.ceremony = m,
                                    !.user = u, !.epoch = users[u].epoch,
                                    !.began = Invalidations(u)])
        /\ UNCHANGED <<tables, clock>>

(* The passkey is read after the user and read again by the transaction;    *)
(* passkeys only go from absent to live to revoked, so one read suffices.   *)
LoginCommit(p) ==
    /\ task[p].pc = "authentication"
    /\ \E c \in CredentialId, s \in SessionId :
          complete_authentication(task[p].ceremony, c, s,
              [status     |-> "live",
               user       |-> task[p].user,
               epoch      |-> task[p].epoch,
               csrf       |-> 0,
               idle       |-> task[p].now + SessionIdleTtl,
               absolute   |-> task[p].now + SessionAbsoluteTtl,
               credential |-> c,
               began      |-> task[p].began],
              task[p].now)
    /\ Return(p)
    /\ UNCHANGED clock

(* authenticate_session without a CSRF token: public_capabilities,          *)
(* operator_capabilities and pending_recoveries.                            *)
AuthenticateSession ==
    /\ \E s \in SessionId, now \in Now : session(s, now, now + SessionIdleTtl)
    /\ UNCHANGED <<clock, task>>

SessionDiscovery ==
    /\ \E s \in SessionId, now \in Now :
          /\ sessions[s].csrf < MaxCsrf
          /\ rotate_session_csrf(s, now, now + SessionIdleTtl)
    /\ UNCHANGED <<clock, task>>

(* authenticate_session with a CSRF token, one of those the session was     *)
(* ever given.  The session is extended before the token and the role are   *)
(* compared; a request that fails the comparison ends there.                *)
Authorize(p, s, csrf, now, allowed, frame) ==
    /\ task[p].pc = "idle"
    /\ session(s, now, now + SessionIdleTtl)
    /\ IF csrf = sessions[s].csrf /\ allowed THEN Continue(p, frame) ELSE UNCHANGED task
    /\ UNCHANGED clock

Logout(p) ==
    \E s \in SessionId, now \in Now : \E csrf \in 0 .. sessions[s].csrf :
        Authorize(p, s, csrf, now, TRUE, [Idle EXCEPT !.pc = "logout", !.session = s])

LogoutCommit(p) ==
    /\ task[p].pc = "logout"
    /\ delete_session(task[p].session)
    /\ Return(p)
    /\ UNCHANGED clock

-----------------------------------------------------------------------------
(* Operator mutations: operator() authenticates in one transaction, the     *)
(* mutation commits in another, with a timestamp of its own.                *)

OperatorRequest(p) ==
    \E s \in SessionId, now \in Now : \E csrf \in 0 .. sessions[s].csrf :
        Authorize(p, s, csrf, now, sessions[s].user \in Operators,
                  [Idle EXCEPT !.pc = "operator", !.user = sessions[s].user])

ApproveRecovery(p) ==
    /\ task[p].pc = "operator"
    /\ \E r \in RecoveryId :
          /\ approve_recovery(r)
          /\ users[recoveries[r].user].epoch < MaxEpoch
    /\ Return(p)
    /\ UNCHANGED clock

IssueRecoverySetup(p) ==
    /\ task[p].pc = "operator"
    /\ \E r \in RecoveryId, u \in UserId, k \in CapabilityId, now \in Now :
          issue_recovery_setup(r, k, u, now + CapabilityTtl, clock)
    /\ Return(p)
    /\ UNCHANGED clock

ApproveUser(p) ==
    /\ task[p].pc = "operator"
    /\ \E u \in UserId, k \in CapabilityId, now \in Now :
          approve_user_with_setup(u, k, now + CapabilityTtl, now, clock)
    /\ Return(p)
    /\ UNCHANGED clock

-----------------------------------------------------------------------------
(* Recovery requests and the maintenance commands.                         *)

RecoveryRequest ==
    /\ \E r \in RecoveryId, u \in UserId : create_recovery(r, u)
    /\ UNCHANGED <<clock, task>>

BreakGlass ==
    /\ \E c \in CredentialId, u \in UserId, k \in CapabilityId, now \in Now,
          window \in 1 .. MaxWindow :
          /\ users[u].epoch < MaxEpoch
          /\ break_glass(c, u, k, now + window, clock)
    /\ UNCHANGED <<clock, task>>

RotateAuthEpoch ==
    /\ \A u \in UserId : users[u].epoch < MaxEpoch
    /\ rotate_all_auth_epochs
    /\ UNCHANGED <<clock, task>>

SeedOperator(p) ==
    /\ ~operator_exists
    /\ \E now \in Now : Continue(p, [Idle EXCEPT !.pc = "seed", !.now = now])
    /\ UNCHANGED <<tables, clock>>

SeedCommit(p) ==
    /\ task[p].pc = "seed"
    /\ \E u \in UserId : insert_user(u, task[p].now)
    /\ Return(p)
    /\ UNCHANGED clock

-----------------------------------------------------------------------------

(* A request ends early: a check or a passkey verification fails, the       *)
(* client goes away, the database refuses, the process stops.               *)
Abort(p) ==
    /\ task[p].pc # "idle"
    /\ Return(p)
    /\ UNCHANGED <<tables, clock>>

Tick ==
    /\ clock < MaxTime
    /\ clock' = clock + 1
    /\ UNCHANGED <<tables, task>>

RequestStep(p) ==
    \/ SetupStart(p) \/ SetupInsert(p)
    \/ BootstrapStart(p) \/ BootstrapOperator(p) \/ BootstrapInsert(p)
    \/ RegistrationFinish(p) \/ RegistrationCommit(p)
    \/ LoginFinish(p) \/ LoginCommit(p)
    \/ Logout(p) \/ LogoutCommit(p)
    \/ OperatorRequest(p) \/ ApproveRecovery(p) \/ IssueRecoverySetup(p) \/ ApproveUser(p)
    \/ SeedOperator(p) \/ SeedCommit(p)
    \/ Abort(p)

Next ==
    \/ \E p \in Task : RequestStep(p)
    \/ LoginStart \/ AuthenticateSession \/ SessionDiscovery
    \/ RecoveryRequest \/ BreakGlass \/ RotateAuthEpoch
    \/ Tick

Spec == Init /\ [][Next]_vars

-----------------------------------------------------------------------------
(* Properties of sessions.                                                 *)

(* A session that the epoch comparison would still let in. *)
Usable(s) ==
    /\ sessions[s].status = "live"
    /\ sessions[s].epoch = users[sessions[s].user].epoch

(* finish_authentication reads the user, and so the epoch, in one statement *)
(* and inserts the session in a later transaction: a login that began       *)
(* before a recovery approval, a break-glass or a rotation never yields a   *)
(* session that is accepted after it.                                       *)
UsableSessionPostdatesInvalidation ==
    \A s \in SessionId : Usable(s) => sessions[s].began = Invalidations(sessions[s].user)

-----------------------------------------------------------------------------
(* Properties of registration and recovery.                                *)

(* Every epoch change consumes the capabilities issued before it: one that  *)
(* can still be redeemed was issued in its user's present epoch.            *)
OpenCapabilityIsCurrent ==
    \A k \in CapabilityId : capabilities[k].status = "open" =>
        capabilities[k].epoch = users[capabilities[k].user].epoch

(* A ceremony whose insertion was in flight while its capability was        *)
(* invalidated stays open, and must be worthless: a passkey registered by a *)
(* capability is registered in the epoch in which that capability was       *)
(* issued.                                                                  *)
RegistrationIsCurrent ==
    [][\A c \in CredentialId :
         (credentials[c].status = "absent" /\ credentials'[c].status = "live") =>
            LET k == ceremonies[credentials'[c].ceremony].capability IN
            k # None => capabilities[k].epoch = users[credentials'[c].user].epoch]_vars

(* The capability that registered c, if one did. *)
CapabilityOf(c) ==
    IF credentials[c].ceremony = None THEN None
    ELSE ceremonies[credentials[c].ceremony].capability

(* One setup or recovery token may start any number of ceremonies, finished *)
(* by any number of concurrent requests; it registers at most one passkey.  *)
CapabilityRegistersOnce ==
    \A c, d \in CredentialId :
        (c # d /\ CapabilityOf(c) # None) => CapabilityOf(c) # CapabilityOf(d)

(* Two finishes of one ceremony may both read it open: only the check that  *)
(* complete_registration repeats in its transaction keeps the second from   *)
(* registering, also when no capability stands behind the ceremony and a    *)
(* break-glass has meanwhile revoked the passkey of the first.              *)
CeremonyRegistersOnce ==
    \A c, d \in CredentialId :
        (c # d /\ credentials[c].ceremony # None) =>
            credentials[c].ceremony # credentials[d].ceremony

(* complete_registration completes every issued recovery of the user: each  *)
(* of them then has a passkey registered since its approval, by a           *)
(* capability that was not issued before it.                                *)
CompletedRecoveryHasFreshPasskey ==
    \A r \in RecoveryId : recoveries[r].stage = "completed" =>
        \E c \in CredentialId :
            /\ credentials[c].user = recoveries[r].user
            /\ credentials[c].epoch >= recoveries[r].epoch
            /\ CapabilityOf(c) # None =>
                  capabilities[CapabilityOf(c)].epoch >= recoveries[r].epoch

-----------------------------------------------------------------------------
(* Properties of the operator's bootstrap and of break-glass.              *)

(* README.md:107 says of seed-operator that "It refuses when any operator   *)
(* already exists": there is never a second operator.                       *)
AtMostOneOperator == Cardinality(Operators) <= 1

(* SECURITY.md:44 says of break-glass that it "has a maximum 15-minute      *)
(* registration window": once break-glass was used on an operator, the      *)
(* private bootstrap endpoint registers a passkey for that operator only on *)
(* a request made while such a window is open.                              *)
OperatorRegistersWithinWindow ==
    [][\A p \in Task :
         LET m == task[p].ceremony
             u == ceremonies[m].user
         IN  (/\ task[p].pc = "registration"
              /\ credentials' # credentials /\ task'[p] # task[p]
              /\ ceremonies[m].kind \in {"operator_bootstrap", "operator_recovery"}
              /\ audit["operator.break_glass_opened"][u] > 0)
             => \E k \in OpenWindows(task[p].now) : capabilities[k].user = u]_vars

-----------------------------------------------------------------------------
(* The inductive strengthening of the properties of registration.           *)

(* Rows that can still act refer to users that exist. *)
LiveRowsHaveUsers ==
    /\ \A k \in CapabilityId : capabilities[k].status = "open" => capabilities[k].user \in Users
    /\ \A r \in RecoveryId : recoveries[r].stage # "absent" => recoveries[r].user \in Users
    /\ \A m \in CeremonyId :
          (ceremonies[m].status # "absent" /\ ceremonies[m].kind # "authentication")
            => ceremonies[m].user \in UserId

(* A passkey was paid for with its ceremony and its capability. *)
PasskeysAreSpent ==
    \A c \in CredentialId :
        /\ credentials[c].ceremony # None =>
              ceremonies[credentials[c].ceremony].status = "consumed"
        /\ CapabilityOf(c) # None => capabilities[CapabilityOf(c)].status = "consumed"

TablesInv ==
    /\ TablesTypeOK
    /\ LiveRowsHaveUsers
    /\ OpenCapabilityIsCurrent
    /\ PasskeysAreSpent
    /\ CapabilityRegistersOnce
    /\ CeremonyRegistersOnce

(* A ceremony acts for the user its capability was issued to. *)
CeremonyServesCapability ==
    \A m \in CeremonyId :
        (ceremonies[m].status # "absent" /\ ceremonies[m].capability # None) =>
            /\ capabilities[ceremonies[m].capability].status # "absent"
            /\ capabilities[ceremonies[m].capability].user = ceremonies[m].user

(* What a request in flight remembers still agrees with the tables. *)
FrameAgrees(frame) ==
    /\ frame.pc \in {"setup_insert", "bootstrap_insert"} =>
          /\ frame.user \in UserId
          /\ frame.capability # None =>
                /\ capabilities[frame.capability].status # "absent"
                /\ capabilities[frame.capability].user = frame.user
    /\ frame.pc = "bootstrap_operator" => frame.capability = None
    /\ frame.pc = "registration" =>
          /\ frame.ceremony \in CeremonyId
          /\ ceremonies[frame.ceremony].status # "absent"
          /\ ceremonies[frame.ceremony].kind # "authentication"
          /\ ceremonies[frame.ceremony].capability = frame.capability
    /\ frame.pc = "authentication" => frame.user \in UserId /\ frame.ceremony \in CeremonyId
    /\ frame.pc = "logout" => frame.session \in SessionId

RegistrationInv ==
    /\ TypeOK
    /\ TablesInv
    /\ CeremonyServesCapability
    /\ \A p \in Task : FrameAgrees(task[p])

=============================================================================
