-------------------------- MODULE StoreTransactions --------------------------
(***************************************************************************)
(* The methods of PgAuthStore (server/src/repository.rs), statement by     *)
(* statement, as PostgreSQL runs them at its default isolation level READ  *)
(* COMMITTED.  AuthStore treats a method as one step; this module shows    *)
(* what that rests on when the statements of several methods interleave.   *)
(*                                                                         *)
(* A statement sees the rows committed when it starts and its own          *)
(* transaction's writes.  It visits the rows that match its WHERE clause   *)
(* in some order; a row written by another open transaction makes it wait, *)
(* and after the wait the WHERE clause is evaluated again on the version   *)
(* then committed.  Rows joined to the one being locked are not read       *)
(* again: session() compares the epoch with the one its statement saw      *)
(* first.  Inserts check foreign keys with a lock that does not conflict   *)
(* with the updates made here, so an INSERT never waits.                   *)
(*                                                                         *)
(* A rotation here succeeds; one that fails is a rollback like any other.  *)
(* Every row has not expired, and a method's audit event is its commit.    *)
(* approve_user_with_setup, insert_user and create_recovery only insert    *)
(* rows of their own, and are not repeated here.                           *)
(***************************************************************************)
EXTENDS Integers, FiniteSets, Sequences, SequencesExt

CONSTANTS Tx,          \* calls of store methods, each a transaction of its own
          Row,         \* the rows that may exist at the start
          Databases,   \* the databases to start from: functions from some rows to contents
          Calls,       \* what may be called, with which arguments
          Operators,   \* the users whose role is operator: no method changes it
          None

ASSUME RowAssumption ==
    /\ None \notin Row \cup Tx /\ Row \cap Tx = {}
    /\ IsFiniteSet(Row) /\ IsFiniteSet(Tx)

(* A transaction inserts at most one row; the row is named after it. *)
Key == Row \cup Tx

Table == {"users", "credentials", "capabilities", "ceremonies", "sessions", "recoveries"}

(* epoch is auth_epoch of a user and of a session; source is the ceremony's *)
(* capability_hash and, as history, what a credential was registered with   *)
(* and the credential a session was opened with.                            *)
RowType ==
    [table  : Table,
     status : {"absent", "open", "closed", "pending", "approved", "issued", "completed"},
     user   : Key \cup {None},
     epoch  : Nat,
     source : Key \cup {None}]

Absent == [table |-> "users", status |-> "absent", user |-> None, epoch |-> 0, source |-> None]

Method ==
    {"complete_registration", "complete_authentication", "session", "delete_session",
     "insert_ceremony", "approve_recovery", "issue_recovery_setup", "break_glass",
     "rotate_all_auth_epochs"}

(* source is a capability or a passkey. *)
ASSUME CallsAssumption ==
    Calls \subseteq [method : Method, user : Key \cup {None}, ceremony : Key \cup {None},
                     source : Key \cup {None}, session : Key \cup {None}, recovery : Key \cup {None}]

(* The rows that are ever in a table: no method modelled here adds a user. *)
InitiallyIn(table) == {r \in Row : \E rows \in Databases : r \in DOMAIN rows /\ rows[r].table = table}
UserRows == InitiallyIn("users")
CredentialRows == InitiallyIn("credentials") \cup Tx
SessionRows == InitiallyIn("sessions") \cup Tx

(* The databases are of the same users, who were never invalidated: their   *)
(* passkeys and sessions are live.  A passkey's token is consumed.          *)
Consistent(rows) ==
    /\ DOMAIN rows \subseteq Row /\ rows \in [DOMAIN rows -> RowType]
    /\ UserRows = {r \in DOMAIN rows : rows[r].table = "users"}
    /\ \A r \in DOMAIN rows :
          LET row == rows[r] IN
          /\ row.table \in {"users", "credentials", "sessions"} => row.status = "open"
          /\ row.table \in {"ceremonies", "capabilities"} => row.status \in {"open", "closed"}
          /\ row.table = "recoveries" => row.status \in {"pending", "approved", "issued", "completed"}
          /\ row.table \in {"users", "sessions"} => row.epoch = 1
          /\ row.table = "users" \/ row.user \in UserRows \/ (row.table = "ceremonies" /\ row.user = None)
          /\ row.table = "sessions" =>
                /\ row.source \in DOMAIN rows
                /\ rows[row.source].table = "credentials" /\ rows[row.source].user = row.user
          /\ row.table = "credentials" =>
                \/ row.source = None /\ row.user \in Operators
                \/ /\ row.source \in DOMAIN rows
                   /\ rows[row.source].table = "capabilities" /\ rows[row.source].status = "closed"
    /\ \A c, d \in DOMAIN rows :
          rows[c].table = "credentials" /\ rows[d].table = "credentials" /\ c # d
              => rows[c].source # rows[d].source

ASSUME DatabasesAssumption == \A rows \in Databases : Consistent(rows)

VARIABLES db,       \* the committed rows
          tx,       \* every transaction: its call, its progress, its uncommitted writes
          advisory  \* the holder of the advisory lock of operator bootstrap

vars == <<db, tx, advisory>>

(* call    the method and its arguments                                     *)
(* step    the statement it is at                                           *)
(* todo    the rows that statement has still to visit, <<>> between two     *)
(* hit     whether the statement has affected a row                         *)
(* seen    the epochs the statement's snapshot holds                        *)
(* before  (history) the rows open when the call began                      *)
Idle == [state |-> "idle", call |-> None, step |-> 1, todo |-> <<>>, hit |-> FALSE,
         running |-> FALSE, seen |-> [u \in {} |-> 0], writes |-> [r \in {} |-> Absent],
         epoch |-> 0, before |-> {}]

Open(rows) == {r \in Key : rows[r].status = "open"}

Init ==
    /\ \E rows \in Databases :
          db = [r \in Key |-> IF r \in DOMAIN rows THEN rows[r] ELSE Absent]
    /\ tx = [t \in Tx |-> Idle]
    /\ advisory = None

-----------------------------------------------------------------------------
(* The statements of the methods.                                          *)

invalidate_user_auth_KeepsCapabilities ==
    <<"advance_epoch", "revoke_sessions", "consume_ceremonies">>

invalidate_user_auth ==
    <<"advance_epoch", "revoke_sessions", "consume_ceremonies", "consume_capabilities">>

complete_registration_NoLock(capability) ==
    <<"use_ceremony">>
        \o (IF capability = None THEN <<"count_operator_credentials">> ELSE <<"use_capability">>)
        \o <<"insert", "complete_recoveries">>

(* The ceremony of an operator's bootstrap is the one without capability. *)
complete_registration(capability) ==
    <<"advisory_lock", "use_ceremony">>
        \o (IF capability = None THEN <<"count_operator_credentials">> ELSE <<"use_capability">>)
        \o <<"insert", "complete_recoveries">>

Statements(call) ==
    CASE call.method = "complete_registration"   -> complete_registration(call.source)
      [] call.method = "complete_authentication" -> <<"use_ceremony", "use_credential", "insert">>
      [] call.method = "session"                 -> <<"select_session", "extend_session">>
      [] call.method = "delete_session"          -> <<"revoke_session">>
      [] call.method = "insert_ceremony"         -> <<"insert">>
      [] call.method = "approve_recovery"        -> <<"approve">> \o invalidate_user_auth
      [] call.method = "issue_recovery_setup"    -> <<"issue", "insert">>
      [] call.method = "break_glass" ->
            <<"revoke_credential">> \o invalidate_user_auth \o <<"insert">>
      [] call.method = "rotate_all_auth_epochs"  -> invalidate_user_auth

(* call.user is None in a rotation, which has no condition on the user. *)
OfUser(call, user) == call.user = None \/ user = call.user

SelectSession_IgnoresEpoch(call, seen, r, row) == r = call.session /\ row.status = "open"

SelectSession_LocksUser(call, seen, r, row) ==
    \/ r = call.user
    \/ r = call.session /\ row.status = "open" /\ row.epoch = seen[row.user]

(* SELECT ... FOR UPDATE OF s locks the session and not the user. *)
SelectSession(call, seen, r, row) ==
    r = call.session /\ row.status = "open" /\ row.epoch = seen[row.user]

(* The WHERE clause of a statement, on a version of row r. *)
Where(statement, call, seen, r, row) ==
    CASE statement = "use_ceremony"      -> r = call.ceremony /\ row.status = "open"
      [] statement = "use_capability"    -> r = call.source /\ row.status = "open"
      [] statement = "use_credential"    -> r = call.source /\ row.status = "open"
      [] statement = "revoke_credential" -> r = call.source /\ row.status = "open"
      [] statement = "revoke_session"    -> r = call.session /\ row.status = "open"
      [] statement = "extend_session"    -> r = call.session
      [] statement = "select_session"    -> SelectSession(call, seen, r, row)
      [] statement = "approve"           -> r = call.recovery /\ row.status = "pending"
      [] statement = "issue"             -> r = call.recovery /\ row.status = "approved"
      [] statement = "advance_epoch" ->
            row.table = "users" /\ row.status = "open" /\ OfUser(call, r)
      [] statement = "revoke_sessions" ->
            row.table = "sessions" /\ row.status = "open" /\ OfUser(call, row.user)
      [] statement = "consume_ceremonies" ->
            row.table = "ceremonies" /\ row.status = "open" /\ OfUser(call, row.user)
      [] statement = "consume_capabilities" ->
            row.table = "capabilities" /\ row.status = "open" /\ OfUser(call, row.user)
      [] statement = "complete_recoveries" ->
            row.table = "recoveries" /\ row.status = "issued" /\ row.user = call.user
      [] OTHER -> FALSE

NextEpoch_Snapshot(t, u, row) == tx[t].seen[u] + 1

(* auth_epoch + 1 is computed from the version that was locked. *)
NextEpoch(t, u, row) == row.epoch + 1

(* The SET clause.  SELECT ... FOR UPDATE locks the row as it is; the       *)
(* expiry, the public data and last_used_at are not modelled here.          *)
Set(t, statement, r, row) ==
    CASE statement = "advance_epoch"       -> [row EXCEPT !.epoch = NextEpoch(t, r, row)]
      [] statement \in {"use_credential", "extend_session", "select_session"} -> row
      [] statement = "approve"             -> [row EXCEPT !.status = "approved"]
      [] statement = "issue"               -> [row EXCEPT !.status = "issued"]
      [] statement = "complete_recoveries" -> [row EXCEPT !.status = "completed"]
      [] OTHER                             -> [row EXCEPT !.status = "closed"]

MustAffect_IgnoresCapability ==
    {"use_ceremony", "use_credential", "revoke_credential", "select_session", "approve", "issue"}

MustAffect_IgnoresCredential ==
    {"use_ceremony", "use_capability", "revoke_credential", "select_session", "approve", "issue"}

(* The statements whose method fails unless they affect a row. *)
MustAffect ==
    {"use_ceremony", "use_capability", "use_credential", "revoke_credential",
     "select_session", "approve", "issue"}

InsertedTable ==
    [complete_registration |-> "credentials", complete_authentication |-> "sessions",
     insert_ceremony |-> "ceremonies", issue_recovery_setup |-> "capabilities",
     break_glass |-> "capabilities"]

(* The row an INSERT adds.  A session gets the epoch that the service read  *)
(* before the transaction, and keeps the passkey it was opened with.        *)
Inserted(t) ==
    LET call == tx[t].call IN
    [table  |-> InsertedTable[call.method], status |-> "open", user |-> call.user,
     epoch  |-> tx[t].epoch,
     source |-> IF call.method \in {"issue_recovery_setup", "break_glass"} THEN None
                ELSE call.source]

-----------------------------------------------------------------------------
(* How PostgreSQL runs them.                                               *)

IsRow(r, table) == db[r].table = table /\ db[r].status # "absent"

Active(t) == tx[t].state = "active"
Statement(t) == Statements(tx[t].call)[tx[t].step]
AtEnd(t) == tx[t].step > Len(Statements(tx[t].call))

(* The rows t sees: the committed ones under its own writes. *)
Sees(t) == [r \in Key |-> IF r \in DOMAIN tx[t].writes THEN tx[t].writes[r] ELSE db[r]]

Holder(r) == {t \in Tx : Active(t) /\ r \in DOMAIN tx[t].writes}

Write(writes, r, row) == [k \in DOMAIN writes \cup {r} |-> IF k = r THEN row ELSE writes[k]]

NextStep(frame) ==
    [frame EXCEPT !.step = frame.step + 1, !.running = FALSE, !.hit = FALSE, !.todo = <<>>,
                  !.seen = [u \in {} |-> 0]]

Ended(t, outcome) == [Idle EXCEPT !.state = outcome, !.call = tx[t].call]

(* pg_advisory_xact_lock is released when the transaction ends. *)
Release(t) == IF advisory = t THEN None ELSE advisory

(* Dropping the transaction rolls it back: its writes and locks vanish. *)
Rollback(t) ==
    /\ tx' = [tx EXCEPT ![t] = Ended(t, "failed")]
    /\ advisory' = Release(t)
    /\ UNCHANGED db

Owns(user, r, table) == r # None /\ IsRow(r, table) /\ db[r].user = user

(* The arguments are rows that the service has read or a client was shown:  *)
(* a capability is the ceremony's, and the user is the one they belong to.  *)
(* Only the ceremony of a login has no user.                                *)
Arguments(call) ==
    \/ call.method = "rotate_all_auth_epochs" /\ call.user = None
    \/ call.method = "insert_ceremony" /\ call.user = None /\ call.source = None
    \/ /\ call.user # None /\ IsRow(call.user, "users")
       /\ \/ /\ call.method \in {"complete_registration", "insert_ceremony"}
             /\ \/ call.source = None /\ call.user \in Operators
                \/ Owns(call.user, call.source, "capabilities")
             /\ call.method = "complete_registration" =>
                   /\ Owns(call.user, call.ceremony, "ceremonies")
                   /\ db[call.ceremony].source = call.source
          \/ /\ call.method = "complete_authentication"
             /\ Owns(None, call.ceremony, "ceremonies")
             /\ Owns(call.user, call.source, "credentials")
          \/ /\ call.method \in {"session", "delete_session"}
             /\ Owns(call.user, call.session, "sessions")
          \/ /\ call.method \in {"approve_recovery", "issue_recovery_setup"}
             /\ Owns(call.user, call.recovery, "recoveries")
          \/ /\ call.method = "break_glass" /\ call.user \in Operators
             /\ Owns(call.user, call.source, "credentials")

Begin(t, call) ==
    /\ tx[t].state = "idle"
    /\ Arguments(call)
    /\ tx' = [tx EXCEPT ![t] = [Idle EXCEPT !.state = "active", !.call = call,
                                   !.epoch = IF call.user = None THEN 0 ELSE db[call.user].epoch,
                                   !.before = Open(db)]]
    /\ UNCHANGED <<db, advisory>>

AdvisoryLock(t) ==
    /\ Active(t) /\ ~AtEnd(t) /\ Statement(t) = "advisory_lock"
    /\ advisory = None
    /\ advisory' = t
    /\ tx' = [tx EXCEPT ![t] = NextStep(tx[t])]
    /\ UNCHANGED db

(* The count of live operator passkeys is a read of its own snapshot. *)
CountOperatorCredentials(t) ==
    /\ Active(t) /\ ~AtEnd(t) /\ Statement(t) = "count_operator_credentials"
    /\ IF \E r \in Open(Sees(t)) : /\ Sees(t)[r].table = "credentials"
                                  /\ Sees(t)[r].user \in Operators
       THEN Rollback(t)
       ELSE tx' = [tx EXCEPT ![t] = NextStep(tx[t])] /\ UNCHANGED <<db, advisory>>

Insert(t) ==
    /\ Active(t) /\ ~AtEnd(t) /\ Statement(t) = "insert"
    /\ tx' = [tx EXCEPT ![t] =
                 NextStep([tx[t] EXCEPT !.writes = Write(tx[t].writes, t, Inserted(t))])]
    /\ UNCHANGED <<db, advisory>>

Control == {"advisory_lock", "count_operator_credentials", "insert"}

(* An UPDATE or SELECT FOR UPDATE takes its snapshot ... *)
TakeSnapshot(t) ==
    /\ Active(t) /\ ~AtEnd(t) /\ ~tx[t].running
    /\ Statement(t) \notin Control
    /\ LET seen == [u \in UserRows |-> Sees(t)[u].epoch]
           matching == {r \in Key : Where(Statement(t), tx[t].call, seen, r, Sees(t)[r])}
       IN  \E order \in SetToSeqs(matching) :
              tx' = [tx EXCEPT ![t].running = TRUE, ![t].todo = order, ![t].seen = seen]
    /\ UNCHANGED <<db, advisory>>

(* ... locks and writes the rows one by one, unless they have changed ... *)
VisitRow(t) ==
    /\ Active(t) /\ tx[t].todo # <<>>
    /\ LET r == Head(tx[t].todo)
           row == Sees(t)[r]
       IN  /\ Holder(r) \subseteq {t}
           /\ tx' = [tx EXCEPT ![t] =
                IF Where(Statement(t), tx[t].call, tx[t].seen, r, row)
                THEN [tx[t] EXCEPT !.todo = Tail(tx[t].todo), !.hit = TRUE,
                                   !.writes = Write(tx[t].writes, r, Set(t, Statement(t), r, row))]
                ELSE [tx[t] EXCEPT !.todo = Tail(tx[t].todo)]]
    /\ UNCHANGED <<db, advisory>>

(* ... and returns the number of rows to the method. *)
FinishStatement(t) ==
    /\ Active(t) /\ tx[t].running /\ tx[t].todo = <<>>
    /\ IF Statement(t) \in MustAffect /\ ~tx[t].hit
       THEN Rollback(t)
       ELSE tx' = [tx EXCEPT ![t] = NextStep(tx[t])] /\ UNCHANGED <<db, advisory>>

Commit(t) ==
    /\ Active(t) /\ AtEnd(t)
    /\ db' = Sees(t)
    /\ tx' = [tx EXCEPT ![t] = Ended(t, "committed")]
    /\ advisory' = Release(t)

(* The connection is lost, the client goes away or the server stops. *)
Abort(t) == Active(t) /\ Rollback(t)

(* The transaction that t waits for, if it waits. *)
WaitsFor(t) ==
    IF ~Active(t) \/ AtEnd(t) THEN {}
    ELSE IF Statement(t) = "advisory_lock" THEN {advisory} \ {None}
    ELSE IF tx[t].todo # <<>> THEN Holder(Head(tx[t].todo)) \ {t}
    ELSE {}

(* Transactions each of which waits for another of them. *)
WaitCycle(S) == S # {} /\ \A t \in S : WaitsFor(t) \cap S # {}

(* PostgreSQL's deadlock detector fails one of them. *)
DeadlockVictim(t) ==
    /\ \E S \in SUBSET Tx : t \in S /\ WaitCycle(S)
    /\ Rollback(t)

Step(t) ==
    \/ AdvisoryLock(t) \/ CountOperatorCredentials(t) \/ Insert(t)
    \/ TakeSnapshot(t) \/ VisitRow(t) \/ FinishStatement(t) \/ Commit(t)
    \/ DeadlockVictim(t)

Finished == (\A t \in Tx : tx[t].state \in {"committed", "failed"}) /\ UNCHANGED vars

Next ==
    \/ \E t \in Tx : (\E call \in Calls : Begin(t, call)) \/ Step(t) \/ Abort(t)
    \/ Finished

Spec == Init /\ [][Next]_vars

-----------------------------------------------------------------------------
(* Properties.                                                             *)

(* A call of session() that lets a request in found a session that was      *)
(* neither logged out nor of an earlier epoch when the call began, although *)
(* its statement may have waited for the row and compares with an epoch it  *)
(* read before the wait.                                                    *)
AuthenticatedSessionWasCurrent ==
    \A t \in Tx :
        (Active(t) /\ tx[t].call.method = "session" /\ tx[t].step > 1) =>
            /\ tx[t].call.session \in tx[t].before
            /\ db[tx[t].call.session].epoch >= tx[t].epoch

(* Two finishes with one setup token, over one or two ceremonies, never     *)
(* both commit: the advisory lock makes one wait until the other has ended, *)
(* and then the capability is no longer open.                               *)
CapabilityRegistersOnce ==
    \A c, d \in Key :
        (/\ c # d /\ {c, d} \subseteq Open(db)
         /\ db[c].table = "credentials" /\ db[d].table = "credentials"
         /\ db[c].source # None) => db[c].source # db[d].source

(* Two bootstrap ceremonies of an operator each count no passkey before the *)
(* other's insert is visible: only the advisory lock keeps one of them out. *)
BootstrapIsExclusive ==
    \A c, d \in Open(db) :
        (/\ db[c].table = "credentials" /\ db[d].table = "credentials"
         /\ db[c].source = None /\ db[d].source = None) => c = d

Invalidates(call, u) ==
    /\ call.method \in {"approve_recovery", "break_glass", "rotate_all_auth_epochs"}
    /\ call.user \in {u, None}

(* Concurrent invalidations of one user each advance the epoch: no update   *)
(* is lost, and one that rolls back leaves no trace.                        *)
EpochCountsInvalidations ==
    \A u \in UserRows :
        db[u].epoch = 1 + Cardinality({t \in Tx : /\ tx[t].state = "committed"
                                                 /\ Invalidates(tx[t].call, u)})

(* SECURITY.md says that recovery approval and epoch changes invalidate     *)
(* existing sessions, ceremonies and older capabilities: whatever was open  *)
(* before the invalidation began is closed once it commits, even if rows    *)
(* were held by other transactions.  A capability issued while it runs may  *)
(* survive, as if it had been issued afterwards.  Login ceremonies are      *)
(* outside this: they have no user, and no invalidation but a rotation      *)
(* closes them.                                                             *)
InvalidationReachesOlderAuthority ==
    [][\A t \in Tx :
         (Active(t) /\ tx'[t].state = "committed") =>
            \A r \in tx[t].before, u \in Key :
                (/\ Invalidates(tx[t].call, u)
                 /\ db[r].table \in {"sessions", "ceremonies", "capabilities"}
                 /\ db[r].user = u) => db'[r].status = "closed"]_vars

(* The lock order of the methods: only a rotation of every epoch can close  *)
(* a circle of waiting transactions, either with another rotation, that     *)
(* visits the users in another order, or with a break-glass that waits for  *)
(* the user and a login that waits for the passkey.                         *)
OnlyRotationDeadlocks ==
    \A S \in SUBSET Tx : WaitCycle(S) =>
        LET Callers(method) == {t \in S : tx[t].call.method = method}
            rotations == Callers("rotate_all_auth_epochs")
        IN  \/ \E t, other \in rotations : t # other
            \/ /\ rotations # {} /\ Callers("break_glass") # {}
               /\ Callers("complete_authentication") # {}

-----------------------------------------------------------------------------
(* The committed rows implement SessionAuthority: the several UPDATEs of an *)
(* invalidation take effect on sessions in one step.                        *)

UsableSession(s) == db[s].status = "open" /\ db[s].epoch = db[db[s].user].epoch

PasskeyOf(c) ==
    IF ~IsRow(c, "credentials") THEN [state |-> "none", user |-> None]
    ELSE [state |-> IF db[c].status = "open" THEN "live" ELSE "revoked", user |-> db[c].user]

LoginOf(s) ==
    IF ~IsRow(s, "sessions") THEN [state |-> "none", user |-> None, passkey |-> None]
    ELSE [state   |-> IF UsableSession(s) THEN "usable" ELSE "dead",
          user    |-> db[s].user,
          passkey |-> db[s].source]

EpochView == [u \in UserRows |-> db[u].epoch]
PasskeyView == [c \in CredentialRows |-> PasskeyOf(c)]
LoginView == [s \in SessionRows |-> LoginOf(s)]

Sessions == INSTANCE SessionAuthority
    WITH User <- UserRows, Passkey <- CredentialRows, Session <- SessionRows,
         epoch <- EpochView, passkey <- PasskeyView, login <- LoginView

(* A session is opened with a live passkey only, and recovery approval,     *)
(* break-glass and rotation end all sessions of their users at their        *)
(* commit, at READ COMMITTED as well as with atomic methods.                *)
CommitsImplementSessionAuthority == Sessions!Spec

=============================================================================
