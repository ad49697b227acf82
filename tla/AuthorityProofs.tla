--------------------------- MODULE AuthorityProofs ---------------------------
(***************************************************************************)
(* Proofs about the authority AuthService grants: the sessions (which are  *)
(* usable, and that the service implements SessionAuthority), and the      *)
(* passkeys, capabilities and recoveries (a completed recovery has a fresh *)
(* passkey, and the service implements TokenAuthority).                    *)
(*                                                                         *)
(* A step of the service is a transaction of the store, or leaves the      *)
(* tables alone: StepIsTransaction.  What concerns tables only is proved   *)
(* transaction by transaction, from what no transaction changes of a row   *)
(* once it is inserted.                                                    *)
(***************************************************************************)
EXTENDS AuthProofs, AuthRefinement

-----------------------------------------------------------------------------
(* The inductive invariant.                                                 *)

(* auth_epoch counts the invalidations of a user from 1. *)
EpochCountsInvalidations ==
    \A u \in UserId :
        IF u \in Users THEN users[u].epoch = Invalidations(u) + 1
                       ELSE users[u].epoch = 0 /\ Invalidations(u) = 0

(* A session belongs to a user that exists, and its epoch says how many     *)
(* invalidations had happened when its login read the user.                 *)
SessionsAreCounted ==
    \A s \in SessionId : sessions[s].status # "absent" =>
        sessions[s].user \in Users /\ sessions[s].epoch = sessions[s].began + 1

CeremoniesHaveUsers ==
    \A m \in CeremonyId :
        (ceremonies[m].status # "absent" /\ ceremonies[m].kind # "authentication")
            => ceremonies[m].user \in Users

(* The same of a request that is about to insert a ceremony or a session. *)
FrameIsCounted(frame) ==
    /\ frame.pc \in {"setup_insert", "bootstrap_insert", "authentication"} => frame.user \in Users
    /\ frame.pc = "authentication" => frame.epoch = frame.began + 1

SessionTablesInv ==
    /\ EpochCountsInvalidations
    /\ SessionsAreCounted
    /\ CeremoniesHaveUsers

SessionInv ==
    /\ RegistrationInv
    /\ SessionTablesInv
    /\ \A p \in Task : FrameIsCounted(task[p])

-----------------------------------------------------------------------------
(* What steps do to the tables.                                             *)

(* The expiry and the CSRF token of a live session are written, by a request *)
(* at whose timestamp it was not idle.                                       *)
SessionWrite(s) ==
    /\ \E now \in Now : sessions[s].idle > now
    /\ \A q \in SessionId : q # s => sessions'[q] = sessions[q]
    /\ sessions' \in [SessionId -> SessionRow]
    /\ sessions[s].status = "live" /\ sessions'[s].status = "live"
    /\ sessions'[s].user = sessions[s].user /\ sessions'[s].epoch = sessions[s].epoch
    /\ sessions'[s].credential = sessions[s].credential /\ sessions'[s].began = sessions[s].began
    /\ UNCHANGED <<users, credentials, capabilities, ceremonies, recoveries, audit>>

(* The transactions of the store, with what the service passes to them. *)
Transaction ==
    \/ UNCHANGED tables
    \/ \E u \in UserId, now \in Nat : insert_user(u, now)
    \/ \E u \in UserId, k \in CapabilityId, expires, now, time \in Nat :
          approve_user_with_setup(u, k, expires, now, time)
    \/ \E m \in CeremonyId, kind \in CeremonyKind, u \in UserId \cup {None},
          k \in CapabilityId \cup {None}, expires \in Nat :
          /\ kind # "authentication" => u \in Users
          /\ insert_ceremony(m, kind, u, k, expires)
    \/ \E m \in CeremonyId, c \in CredentialId, now \in Nat :
          /\ ceremonies[m].kind # "authentication"
          /\ complete_registration(m, ceremonies[m].capability, c, now)
    \/ \E m \in CeremonyId, c \in CredentialId, s \in SessionId, row \in SessionRow, now \in Nat :
          /\ row.status = "live" /\ row.user \in Users /\ row.credential = c
          /\ row.epoch = row.began + 1
          /\ complete_authentication(m, c, s, row, now)
    \/ \E s \in SessionId : SessionWrite(s)
    \/ \E s \in SessionId : delete_session(s)
    \/ \E r \in RecoveryId, u \in UserId : create_recovery(r, u)
    \/ \E r \in RecoveryId : approve_recovery(r)
    \/ \E r \in RecoveryId, u \in UserId, k \in CapabilityId, expires, time \in Nat :
          issue_recovery_setup(r, k, u, expires, time)
    \/ \E c \in CredentialId, u \in UserId, k \in CapabilityId, expires, time \in Nat :
          break_glass(c, u, k, expires, time)
    \/ rotate_all_auth_epochs

(* session and rotate_session_csrf write the expiry and the CSRF token of a *)
(* live session.                                                            *)
LEMMA ExtensionWrites ==
    ASSUME TablesTypeOK, NEW s \in SessionId, NEW now \in Now, NEW idle \in Nat,
           session(s, now, idle) \/ rotate_session_csrf(s, now, idle)
    PROVE  SessionWrite(s)
<1>1. BoundedIdle(s, idle) \in Nat
  BY DEF BoundedIdle, TablesTypeOK, SessionRow
<1>2. sessions' \in [SessionId -> SessionRow]
  <2>1. CASE session(s, now, idle)
    BY <1>1, <2>1 DEF session, TablesTypeOK, SessionRow
  <2>2. CASE rotate_session_csrf(s, now, idle)
    BY <1>1, <2>2 DEF rotate_session_csrf, TablesTypeOK, SessionRow
  <2> QED
    BY <2>1, <2>2
<1>3. sessions[s].status = "live" /\ sessions[s].idle > now
  BY DEF session, rotate_session_csrf, SessionValid
<1> QED
  BY <1>2, <1>3 DEF session, rotate_session_csrf, SessionWrite, TablesTypeOK, SessionRow

(* Every step of a request is a transaction or leaves the tables alone. *)
LEMMA RequestIsTransaction ==
    ASSUME SessionInv, NEW p \in Task, RequestStep(p)
    PROVE  Transaction
<1>0. /\ task[p] \in Frame /\ FrameIsCounted(task[p]) /\ FrameAgrees(task[p])
      /\ TypeOK /\ TablesTypeOK /\ clock \in Nat
  BY DEF SessionInv, RegistrationInv, TypeOK
<1>1. CASE \/ SetupStart(p) \/ BootstrapStart(p) \/ BootstrapOperator(p) \/ RegistrationFinish(p)
           \/ LoginFinish(p) \/ SeedOperator(p) \/ Abort(p)
  BY <1>1 DEF SetupStart, BootstrapStart, BootstrapOperator, RegistrationFinish, LoginFinish,
     SeedOperator, Abort, Transaction
<1>2. CASE SetupInsert(p)
  <2>1. /\ task[p].user \in UserId \cup {None} /\ task[p].user \in Users
        /\ task[p].capability \in CapabilityId \cup {None} /\ task[p].now + CeremonyTtl \in Nat
    BY <1>0, <1>2, ConfigAssumption DEF SetupInsert, Frame, FrameIsCounted
  <2> QED
    BY <1>2, <2>1 DEF SetupInsert, Transaction, CeremonyKind
<1>3. CASE BootstrapInsert(p)
  <2>1. /\ task[p].user \in UserId \cup {None} /\ task[p].user \in Users
        /\ task[p].capability \in CapabilityId \cup {None} /\ task[p].now + CeremonyTtl \in Nat
    BY <1>0, <1>3, ConfigAssumption DEF BootstrapInsert, Frame, FrameIsCounted
  <2>2. PICK kind \in CeremonyKind, m \in CeremonyId :
           insert_ceremony(m, kind, task[p].user, task[p].capability, task[p].now + CeremonyTtl)
    BY <1>3 DEF BootstrapInsert, CeremonyKind
  <2> QED
    BY <2>1, <2>2 DEF Transaction
<1>4. CASE RegistrationCommit(p)
  <2>1. /\ task[p].ceremony \in CeremonyId /\ task[p].now \in Nat
        /\ ceremonies[task[p].ceremony].kind # "authentication"
        /\ task[p].capability = ceremonies[task[p].ceremony].capability
    BY <1>0, <1>4 DEF RegistrationCommit, FrameAgrees, Frame
  <2> QED
    BY <1>4, <2>1 DEF RegistrationCommit, Transaction
<1>5. CASE LoginCommit(p)
  <2> DEFINE Row(c) == [status     |-> "live",
                        user       |-> task[p].user,
                        epoch      |-> task[p].epoch,
                        csrf       |-> 0,
                        idle       |-> task[p].now + SessionIdleTtl,
                        absolute   |-> task[p].now + SessionAbsoluteTtl,
                        credential |-> c,
                        began      |-> task[p].began]
  <2>0. PICK c \in CredentialId, s \in SessionId :
           complete_authentication(task[p].ceremony, c, s, Row(c), task[p].now)
    BY <1>5 DEF LoginCommit
  <2>1. PICK row : row = Row(c)
    OBVIOUS
  <2>2. /\ task[p].user \in Users /\ task[p].user \in UserId /\ task[p].ceremony \in CeremonyId
        /\ task[p].epoch = task[p].began + 1 /\ task[p].epoch \in Nat /\ task[p].began \in Nat
        /\ task[p].now \in Nat /\ task[p].now + SessionIdleTtl \in Nat
        /\ task[p].now + SessionAbsoluteTtl \in Nat
    BY <1>0, <1>5, ConfigAssumption DEF LoginCommit, FrameAgrees, FrameIsCounted, Frame
  <2>3. /\ row \in SessionRow /\ row.status = "live" /\ row.user \in Users /\ row.credential = c
        /\ row.epoch = row.began + 1
    BY <2>1, <2>2 DEF SessionRow
  <2> QED
    BY <2>0, <2>1, <2>2, <2>3 DEF Transaction
<1>6. CASE Logout(p) \/ OperatorRequest(p)
  <2>1. PICK s \in SessionId, now \in Now : session(s, now, now + SessionIdleTtl)
    BY <1>6 DEF Logout, OperatorRequest, Authorize
  <2> QED
    BY <1>0, <2>1, Timestamps, ExtensionWrites DEF Transaction
<1>7. CASE LogoutCommit(p)
  BY <1>0, <1>7 DEF LogoutCommit, FrameAgrees, Transaction
<1>8. CASE ApproveRecovery(p)
  BY <1>8 DEF ApproveRecovery, Transaction
<1>9. CASE IssueRecoverySetup(p)
  <2>1. PICK r \in RecoveryId, u \in UserId, k \in CapabilityId, now \in Now :
           issue_recovery_setup(r, k, u, now + CapabilityTtl, clock)
    BY <1>9 DEF IssueRecoverySetup
  <2> QED
    BY <1>0, <2>1, Timestamps DEF Transaction
<1>10. CASE ApproveUser(p)
  <2>1. PICK u \in UserId, k \in CapabilityId, now \in Now :
           approve_user_with_setup(u, k, now + CapabilityTtl, now, clock)
    BY <1>10 DEF ApproveUser
  <2> QED
    BY <1>0, <2>1, Timestamps DEF Transaction
<1>11. CASE SeedCommit(p)
  BY <1>0, <1>11 DEF SeedCommit, Frame, Transaction
<1> QED
  BY <1>1, <1>2, <1>3, <1>4, <1>5, <1>6, <1>7, <1>8, <1>9, <1>10, <1>11 DEF RequestStep

(* So is every other step of the service. *)
LEMMA StepIsTransaction ==
    ASSUME SessionInv, [Next]_vars
    PROVE  Transaction
<1>0. TypeOK /\ TablesTypeOK /\ clock \in Nat
  BY DEF SessionInv, RegistrationInv, TypeOK
<1>1. CASE \E p \in Task : RequestStep(p)
  BY <1>1, RequestIsTransaction
<1>2. CASE LoginStart
  <2>1. PICK m \in CeremonyId, now \in Now :
           insert_ceremony(m, "authentication", None, None, now + CeremonyTtl)
    BY <1>2 DEF LoginStart
  <2> QED
    BY <1>0, <2>1, Timestamps DEF Transaction, CeremonyKind
<1>3. CASE AuthenticateSession \/ SessionDiscovery
  <2>1. PICK s \in SessionId, now \in Now :
           \/ session(s, now, now + SessionIdleTtl)
           \/ rotate_session_csrf(s, now, now + SessionIdleTtl)
    BY <1>3 DEF AuthenticateSession, SessionDiscovery
  <2> QED
    BY <1>0, <2>1, Timestamps, ExtensionWrites DEF Transaction
<1>4. CASE RecoveryRequest
  BY <1>4 DEF RecoveryRequest, Transaction
<1>5. CASE BreakGlass
  <2>1. PICK c \in CredentialId, u \in UserId, k \in CapabilityId, now \in Now,
             window \in 1 .. MaxWindow : break_glass(c, u, k, now + window, clock)
    BY <1>5 DEF BreakGlass
  <2>2. now + window \in Nat
    BY <1>0, Timestamps
  <2> QED
    BY <1>0, <2>1, <2>2 DEF Transaction
<1>6. CASE RotateAuthEpoch
  BY <1>6 DEF RotateAuthEpoch, Transaction
<1>7. CASE Tick \/ UNCHANGED vars
  BY <1>7 DEF Tick, vars, tables, Transaction
<1> QED
  BY <1>1, <1>2, <1>3, <1>4, <1>5, <1>6, <1>7 DEF Next

-----------------------------------------------------------------------------
(* Every transaction preserves the invariant of the tables.                 *)

(* insert_audit counts one event, of one user. *)
LEMMA AuditCounts ==
    ASSUME TablesTypeOK, NEW event \in EventType, NEW u \in UserId, insert_audit(event, u)
    PROVE  \A e \in EventType, v \in UserId :
              audit'[e][v] = IF e = event /\ v = u THEN audit[e][v] + 1 ELSE audit[e][v]
  BY DEF TablesTypeOK, insert_audit

(* Counts of invalidations are natural numbers. *)
LEMMA InvalidationsType ==
    ASSUME TablesTypeOK, NEW u \in UserId
    PROVE  Invalidations(u) \in Nat
<1>1. \A e \in EventType : audit[e][u] \in Nat
  BY DEF TablesTypeOK
<1> QED
  BY <1>1 DEF Invalidations, EventType

(* An event of another kind leaves the number of invalidations alone. *)
LEMMA OtherEvent ==
    ASSUME TablesTypeOK, NEW event \in EventType, NEW u \in UserId, insert_audit(event, u),
           event \notin {"recovery.approved", "operator.break_glass_opened", "auth.epoch_rotated_all"}
    PROVE  \A v \in UserId : Invalidations(v)' = Invalidations(v)
  BY AuditCounts DEF Invalidations, EventType

(* An invalidation of one user is counted once. *)
LEMMA InvalidatingEvent ==
    ASSUME TablesTypeOK, NEW event \in {"recovery.approved", "operator.break_glass_opened"},
           NEW u \in UserId, insert_audit(event, u)
    PROVE  \A v \in UserId :
              Invalidations(v)' = IF v = u THEN Invalidations(v) + 1 ELSE Invalidations(v)
<1> SUFFICES ASSUME NEW v \in UserId
             PROVE  Invalidations(v)' = IF v = u THEN Invalidations(v) + 1 ELSE Invalidations(v)
  OBVIOUS
<1>1. /\ audit["recovery.approved"][v] \in Nat
      /\ audit["operator.break_glass_opened"][v] \in Nat
      /\ audit["auth.epoch_rotated_all"][v] \in Nat
  BY DEF TablesTypeOK, EventType
<1> QED
  BY <1>1, AuditCounts DEF Invalidations, EventType

(* A transaction that neither enrolls nor invalidates a user. *)
LEMMA QuietTransaction ==
    ASSUME TablesTypeOK, SessionTablesInv, UNCHANGED users,
           \A u \in UserId : Invalidations(u)' = Invalidations(u),
           SessionsAreCounted', CeremoniesHaveUsers'
    PROVE  SessionTablesInv' /\ Users' = Users
  BY DEF SessionTablesInv, EpochCountsInvalidations, Users

(* A transaction that enrolls a user and leaves sessions and ceremonies alone. *)
LEMMA EnrollingTransaction ==
    ASSUME TablesTypeOK, SessionTablesInv, NEW u \in UserId, users[u].role = "absent",
           NEW role \in {"user", "operator"}, NEW now,
           users' = [users EXCEPT ![u] = [role |-> role, epoch |-> 1, created |-> now]],
           \A v \in UserId : Invalidations(v)' = Invalidations(v),
           UNCHANGED <<sessions, ceremonies>>
    PROVE  SessionTablesInv' /\ Users' = Users \cup {u}
<1>1. Users' = Users \cup {u} /\ u \notin Users
  BY DEF Users, TablesTypeOK
<1>2. EpochCountsInvalidations'
  BY <1>1, InvalidationsType DEF SessionTablesInv, EpochCountsInvalidations, TablesTypeOK
<1>3. SessionsAreCounted' /\ CeremoniesHaveUsers'
  BY <1>1 DEF SessionTablesInv, SessionsAreCounted, CeremoniesHaveUsers
<1> QED
  BY <1>1, <1>2, <1>3 DEF SessionTablesInv

(* A transaction that invalidates the authentication of the users in U. *)
LEMMA InvalidatingTransaction ==
    ASSUME TablesTypeOK, SessionTablesInv, NEW U \in SUBSET Users,
           \A v \in UserId :
              /\ users'[v].role = users[v].role
              /\ users'[v].epoch = IF v \in U THEN users[v].epoch + 1 ELSE users[v].epoch
              /\ Invalidations(v)' = IF v \in U THEN Invalidations(v) + 1 ELSE Invalidations(v),
           \A s \in SessionId :
              /\ sessions'[s].status # "absent" => sessions[s].status # "absent"
              /\ sessions'[s].user = sessions[s].user
              /\ sessions'[s].epoch = sessions[s].epoch
              /\ sessions'[s].began = sessions[s].began,
           \A m \in CeremonyId :
              /\ ceremonies'[m].status # "absent" => ceremonies[m].status # "absent"
              /\ ceremonies'[m].kind = ceremonies[m].kind
              /\ ceremonies'[m].user = ceremonies[m].user
    PROVE  SessionTablesInv' /\ Users' = Users
<1>1. Users' = Users
  BY DEF Users
<1>2. EpochCountsInvalidations'
  BY <1>1, InvalidationsType DEF SessionTablesInv, EpochCountsInvalidations
<1>3. SessionsAreCounted' /\ CeremoniesHaveUsers'
  BY <1>1 DEF SessionTablesInv, SessionsAreCounted, CeremoniesHaveUsers
<1> QED
  BY <1>1, <1>2, <1>3 DEF SessionTablesInv

(* The UPDATE of auth_sessions in an invalidation changes a status only. *)
LEMMA RevokedSessions ==
    ASSUME TablesTypeOK, NEW u, NEW s \in SessionId
    PROVE  LET row == RevokeSessions(u)[s] IN
           /\ row.user = sessions[s].user /\ row.epoch = sessions[s].epoch
           /\ row.began = sessions[s].began /\ row.credential = sessions[s].credential
           /\ row.idle = sessions[s].idle
           /\ row.status = "absent" <=> sessions[s].status = "absent"
           /\ row.status = "live" <=> sessions[s].status = "live" /\ sessions[s].user # u
  BY DEF TablesTypeOK, RevokeSessions, SessionRow

(* What rotate_all_auth_epochs leaves of a row. *)
LEMMA RotatedRows ==
    ASSUME TablesTypeOK, rotate_all_auth_epochs
    PROVE  /\ \A u \in UserId :
                 /\ users'[u].role = users[u].role
                 /\ users'[u].epoch = IF u \in Users THEN users[u].epoch + 1 ELSE users[u].epoch
                 /\ Invalidations(u)' = IF u \in Users THEN Invalidations(u) + 1 ELSE Invalidations(u)
           /\ \A s \in SessionId :
                 /\ sessions'[s].user = sessions[s].user /\ sessions'[s].epoch = sessions[s].epoch
                 /\ sessions'[s].began = sessions[s].began
                 /\ sessions'[s].credential = sessions[s].credential
                 /\ sessions'[s].idle = sessions[s].idle
                 /\ sessions'[s].status = "absent" <=> sessions[s].status = "absent"
                 /\ sessions'[s].status # "live"
           /\ \A m \in CeremonyId :
                 /\ ceremonies'[m].kind = ceremonies[m].kind /\ ceremonies'[m].user = ceremonies[m].user
                 /\ ceremonies'[m].capability = ceremonies[m].capability
                 /\ ceremonies'[m].status = "absent" <=> ceremonies[m].status = "absent"
           /\ \A k \in CapabilityId :
                 /\ capabilities'[k].user = capabilities[k].user
                 /\ capabilities'[k].epoch = capabilities[k].epoch
                 /\ capabilities'[k].purpose = capabilities[k].purpose
                 /\ capabilities'[k].status = "absent" <=> capabilities[k].status = "absent"
                 /\ capabilities'[k].status # "open"
<1> USE DEF rotate_all_auth_epochs
<1>1. \A u \in UserId :
         /\ users'[u].role = users[u].role
         /\ users'[u].epoch = IF u \in Users THEN users[u].epoch + 1 ELSE users[u].epoch
  BY DEF TablesTypeOK, UserRow
<1>2. ASSUME NEW u \in UserId
      PROVE  Invalidations(u)' = IF u \in Users THEN Invalidations(u) + 1 ELSE Invalidations(u)
  <2>1. /\ audit["recovery.approved"][u] \in Nat
        /\ audit["operator.break_glass_opened"][u] \in Nat
        /\ audit["auth.epoch_rotated_all"][u] \in Nat
    BY DEF TablesTypeOK, EventType
  <2>2. /\ audit'["recovery.approved"][u] = audit["recovery.approved"][u]
        /\ audit'["operator.break_glass_opened"][u] = audit["operator.break_glass_opened"][u]
        /\ audit'["auth.epoch_rotated_all"][u] =
              IF u \in Users THEN audit["auth.epoch_rotated_all"][u] + 1
                             ELSE audit["auth.epoch_rotated_all"][u]
    BY DEF TablesTypeOK, EventType
  <2>3. CASE u \in Users
    BY <2>1, <2>2, <2>3 DEF Invalidations
  <2>4. CASE u \notin Users
    BY <2>2, <2>4 DEF Invalidations
  <2> QED
    BY <2>3, <2>4
<1>3. \A s \in SessionId :
         /\ sessions'[s].user = sessions[s].user /\ sessions'[s].epoch = sessions[s].epoch
         /\ sessions'[s].began = sessions[s].began
         /\ sessions'[s].credential = sessions[s].credential
         /\ sessions'[s].idle = sessions[s].idle
         /\ sessions'[s].status = "absent" <=> sessions[s].status = "absent"
         /\ sessions'[s].status # "live"
  BY DEF TablesTypeOK, SessionRow
<1>4. \A m \in CeremonyId :
         /\ ceremonies'[m].kind = ceremonies[m].kind /\ ceremonies'[m].user = ceremonies[m].user
         /\ ceremonies'[m].capability = ceremonies[m].capability
         /\ ceremonies'[m].status = "absent" <=> ceremonies[m].status = "absent"
  BY DEF TablesTypeOK, CeremonyRow
<1>5. \A k \in CapabilityId :
         /\ capabilities'[k].user = capabilities[k].user
         /\ capabilities'[k].epoch = capabilities[k].epoch
         /\ capabilities'[k].purpose = capabilities[k].purpose
         /\ capabilities'[k].status = "absent" <=> capabilities[k].status = "absent"
         /\ capabilities'[k].status # "open"
  BY DEF TablesTypeOK, CapabilityRow
<1> QED
  BY <1>1, <1>2, <1>3, <1>4, <1>5

(* The user a recovery or a break-glass is about exists, and only that user's *)
(* epoch advances.                                                            *)
LEMMA AdvancedUsers ==
    ASSUME TablesTypeOK, NEW u \in UserId
    PROVE  \A v \in UserId :
              /\ AdvanceEpoch(u)[v].role = users[v].role
              /\ AdvanceEpoch(u)[v].epoch = IF v = u THEN users[v].epoch + 1 ELSE users[v].epoch
  BY DEF TablesTypeOK, AdvanceEpoch, UserRow

(* Approving a recovery preserves SessionTablesInv. *)
LEMMA approve_recovery_Counts ==
    ASSUME TablesInv, SessionTablesInv, NEW r \in RecoveryId, approve_recovery(r)
    PROVE  SessionTablesInv' /\ Users' = Users
<1> DEFINE u == recoveries[r].user
<1>1. u \in Users /\ u \in UserId /\ TablesTypeOK
  BY DEF approve_recovery, TablesInv, LiveRowsHaveUsers, Users
<1>2. /\ users' = AdvanceEpoch(u) /\ sessions' = RevokeSessions(u)
      /\ ceremonies' = ConsumeCeremonies(u) /\ insert_audit("recovery.approved", u)
  BY DEF approve_recovery
<1>3. \A v \in UserId :
         /\ users'[v].role = users[v].role
         /\ users'[v].epoch = IF v \in {u} THEN users[v].epoch + 1 ELSE users[v].epoch
         /\ Invalidations(v)' = IF v \in {u} THEN Invalidations(v) + 1 ELSE Invalidations(v)
  BY <1>1, <1>2, AdvancedUsers, InvalidatingEvent DEF EventType
<1>4. {u} \in SUBSET Users
  BY <1>1
<1> HIDE DEF u
<1>5. \A s \in SessionId :
         /\ sessions'[s].status # "absent" => sessions[s].status # "absent"
         /\ sessions'[s].user = sessions[s].user /\ sessions'[s].epoch = sessions[s].epoch
         /\ sessions'[s].began = sessions[s].began
  BY <1>1, <1>2, RevokedSessions
<1>6. \A m \in CeremonyId :
         /\ ceremonies'[m].status # "absent" => ceremonies[m].status # "absent"
         /\ ceremonies'[m].kind = ceremonies[m].kind /\ ceremonies'[m].user = ceremonies[m].user
  BY <1>1, <1>2, ConsumedCeremonies
<1> QED
  BY <1>1, <1>3, <1>4, <1>5, <1>6, InvalidatingTransaction

(* Break-glass preserves SessionTablesInv. *)
LEMMA break_glass_Counts ==
    ASSUME TablesInv, SessionTablesInv, NEW c \in CredentialId, NEW u \in UserId,
           NEW k \in CapabilityId, NEW expires, NEW time, break_glass(c, u, k, expires, time)
    PROVE  SessionTablesInv' /\ Users' = Users
<1>1. u \in Users /\ TablesTypeOK
  BY DEF break_glass, TablesInv, LiveOperatorCredentials, CredentialsOf, Operators, Users
<1>2. /\ users' = AdvanceEpoch(u) /\ sessions' = RevokeSessions(u)
      /\ ceremonies' = ConsumeCeremonies(u) /\ insert_audit("operator.break_glass_opened", u)
  BY DEF break_glass
<1>3. \A v \in UserId :
         /\ users'[v].role = users[v].role
         /\ users'[v].epoch = IF v \in {u} THEN users[v].epoch + 1 ELSE users[v].epoch
         /\ Invalidations(v)' = IF v \in {u} THEN Invalidations(v) + 1 ELSE Invalidations(v)
  BY <1>1, <1>2, AdvancedUsers, InvalidatingEvent DEF EventType
<1>4. {u} \in SUBSET Users
  BY <1>1
<1>5. \A s \in SessionId :
         /\ sessions'[s].status # "absent" => sessions[s].status # "absent"
         /\ sessions'[s].user = sessions[s].user /\ sessions'[s].epoch = sessions[s].epoch
         /\ sessions'[s].began = sessions[s].began
  BY <1>1, <1>2, RevokedSessions
<1>6. \A m \in CeremonyId :
         /\ ceremonies'[m].status # "absent" => ceremonies[m].status # "absent"
         /\ ceremonies'[m].kind = ceremonies[m].kind /\ ceremonies'[m].user = ceremonies[m].user
  BY <1>1, <1>2, ConsumedCeremonies
<1> QED
  BY <1>1, <1>3, <1>4, <1>5, <1>6, InvalidatingTransaction

(* Every transaction preserves SessionTablesInv, and no user disappears. *)
LEMMA TransactionCounts ==
    ASSUME TablesInv, SessionTablesInv, Transaction
    PROVE  SessionTablesInv' /\ Users \subseteq Users'
<1>0. TablesTypeOK
  BY DEF TablesInv
<1>1. CASE UNCHANGED tables
  BY <1>1 DEF tables, SessionTablesInv, EpochCountsInvalidations, SessionsAreCounted,
     CeremoniesHaveUsers, Users, Invalidations
<1>2. ASSUME NEW u \in UserId, NEW now \in Nat, insert_user(u, now)
      PROVE  SessionTablesInv' /\ Users \subseteq Users'
  <2>1. \A v \in UserId : Invalidations(v)' = Invalidations(v)
    BY <1>0, <1>2, OtherEvent DEF insert_user, EventType
  <2> QED
    BY <1>0, <1>2, <2>1, EnrollingTransaction DEF insert_user
<1>3. ASSUME NEW u \in UserId, NEW k \in CapabilityId, NEW expires \in Nat, NEW now \in Nat,
             NEW time \in Nat, approve_user_with_setup(u, k, expires, now, time)
      PROVE  SessionTablesInv' /\ Users \subseteq Users'
  <2>1. \A v \in UserId : Invalidations(v)' = Invalidations(v)
    BY <1>0, <1>3, OtherEvent DEF approve_user_with_setup, EventType
  <2> QED
    BY <1>0, <1>3, <2>1, EnrollingTransaction DEF approve_user_with_setup
<1>4. ASSUME NEW m \in CeremonyId, NEW kind \in CeremonyKind, NEW u \in UserId \cup {None},
             NEW k \in CapabilityId \cup {None}, NEW expires \in Nat,
             kind # "authentication" => u \in Users, insert_ceremony(m, kind, u, k, expires)
      PROVE  SessionTablesInv' /\ Users \subseteq Users'
  <2>1. UNCHANGED <<users, sessions, audit>>
    BY <1>4 DEF insert_ceremony
  <2>2. CeremoniesHaveUsers'
    BY <1>0, <1>4 DEF insert_ceremony, SessionTablesInv, CeremoniesHaveUsers, TablesTypeOK, Users
  <2>3. SessionsAreCounted' /\ \A v \in UserId : Invalidations(v)' = Invalidations(v)
    BY <2>1 DEF SessionTablesInv, SessionsAreCounted, Users, Invalidations
  <2> QED
    BY <1>0, <2>1, <2>2, <2>3, QuietTransaction
<1>5. ASSUME NEW m \in CeremonyId, NEW c \in CredentialId, NEW now \in Nat,
             ceremonies[m].kind # "authentication",
             complete_registration(m, ceremonies[m].capability, c, now)
      PROVE  SessionTablesInv' /\ Users \subseteq Users'
  <2>1. UNCHANGED <<users, sessions>>
    BY <1>5 DEF complete_registration
  <2>2. ceremonies[m].status = "open" /\ ceremonies[m].user \in UserId
    BY <1>5 DEF complete_registration, RegistrationCommits, CeremonyOpen, TablesInv, LiveRowsHaveUsers
  <2>3. \A v \in UserId : Invalidations(v)' = Invalidations(v)
    BY <1>0, <1>5, <2>2, OtherEvent DEF complete_registration, EventType
  <2>4. CeremoniesHaveUsers'
    BY <1>0, <1>5, <2>1, <2>2
       DEF complete_registration, SessionTablesInv, CeremoniesHaveUsers, TablesTypeOK, CeremonyRow, Users
  <2>5. SessionsAreCounted'
    BY <2>1 DEF SessionTablesInv, SessionsAreCounted, Users
  <2> QED
    BY <1>0, <2>1, <2>3, <2>4, <2>5, QuietTransaction
<1>6. ASSUME NEW m \in CeremonyId, NEW c \in CredentialId, NEW s \in SessionId,
             NEW row \in SessionRow, NEW now \in Nat, row.user \in Users,
             row.epoch = row.began + 1, complete_authentication(m, c, s, row, now)
      PROVE  SessionTablesInv' /\ Users \subseteq Users'
  <2>1. UNCHANGED users /\ row.user \in UserId /\ ceremonies[m].kind = "authentication"
    BY <1>6 DEF complete_authentication, Users
  <2>2. \A v \in UserId : Invalidations(v)' = Invalidations(v)
    BY <1>0, <1>6, <2>1, OtherEvent DEF complete_authentication, EventType
  <2>3. CeremoniesHaveUsers'
    BY <1>0, <1>6, <2>1
       DEF complete_authentication, SessionTablesInv, CeremoniesHaveUsers, TablesTypeOK, CeremonyRow, Users
  <2>4. SessionsAreCounted'
    BY <1>0, <1>6, <2>1 DEF complete_authentication, SessionTablesInv, SessionsAreCounted, TablesTypeOK, Users
  <2> QED
    BY <1>0, <2>1, <2>2, <2>3, <2>4, QuietTransaction
<1>7. ASSUME NEW s \in SessionId, SessionWrite(s) \/ delete_session(s)
      PROVE  SessionTablesInv' /\ Users \subseteq Users'
  <2>1. UNCHANGED <<users, ceremonies, audit>>
    BY <1>7 DEF SessionWrite, delete_session
  <2>2. \A q \in SessionId :
           /\ sessions'[q].status # "absent" => sessions[q].status # "absent"
           /\ sessions'[q].user = sessions[q].user /\ sessions'[q].epoch = sessions[q].epoch
           /\ sessions'[q].began = sessions[q].began
    <3>1. CASE SessionWrite(s)
      BY <3>1 DEF SessionWrite
    <3>2. CASE delete_session(s)
      BY <1>0, <3>2 DEF delete_session, TablesTypeOK, SessionRow
    <3> QED
      BY <1>7, <3>1, <3>2
  <2>3. SessionsAreCounted'
    BY <2>1, <2>2 DEF SessionTablesInv, SessionsAreCounted, Users
  <2>4. CeremoniesHaveUsers' /\ \A v \in UserId : Invalidations(v)' = Invalidations(v)
    BY <2>1 DEF SessionTablesInv, CeremoniesHaveUsers, Users, Invalidations
  <2> QED
    BY <1>0, <2>1, <2>3, <2>4, QuietTransaction
<1>8. ASSUME NEW r \in RecoveryId, NEW u \in UserId, create_recovery(r, u)
      PROVE  SessionTablesInv' /\ Users \subseteq Users'
  BY <1>8 DEF create_recovery, SessionTablesInv, EpochCountsInvalidations, SessionsAreCounted,
     CeremoniesHaveUsers, Users, Invalidations
<1>9. ASSUME NEW r \in RecoveryId, NEW u \in UserId, NEW k \in CapabilityId, NEW expires \in Nat,
             NEW time \in Nat, issue_recovery_setup(r, k, u, expires, time)
      PROVE  SessionTablesInv' /\ Users \subseteq Users'
  <2>1. UNCHANGED <<users, sessions, ceremonies>>
    BY <1>9 DEF issue_recovery_setup
  <2>2. \A v \in UserId : Invalidations(v)' = Invalidations(v)
    BY <1>0, <1>9, OtherEvent DEF issue_recovery_setup, EventType
  <2>3. SessionsAreCounted' /\ CeremoniesHaveUsers'
    BY <2>1 DEF SessionTablesInv, SessionsAreCounted, CeremoniesHaveUsers, Users
  <2> QED
    BY <1>0, <2>1, <2>2, <2>3, QuietTransaction
<1>10. ASSUME NEW r \in RecoveryId, approve_recovery(r)
       PROVE  SessionTablesInv' /\ Users \subseteq Users'
  BY <1>10, approve_recovery_Counts
<1>11. ASSUME NEW c \in CredentialId, NEW u \in UserId, NEW k \in CapabilityId,
              NEW expires \in Nat, NEW time \in Nat, break_glass(c, u, k, expires, time)
       PROVE  SessionTablesInv' /\ Users \subseteq Users'
  BY <1>11, break_glass_Counts
<1>12. CASE rotate_all_auth_epochs
  BY <1>0, <1>12, RotatedRows, InvalidatingTransaction
<1> QED
  BY <1>1, <1>2, <1>3, <1>4, <1>5, <1>6, <1>7, <1>8, <1>9, <1>10, <1>11, <1>12 DEF Transaction

-----------------------------------------------------------------------------
(* Every step preserves what is said of requests in flight.                 *)

(* A step that leaves the frames alone. *)
LEMMA FramesStayCounted ==
    ASSUME \A p \in Task : FrameIsCounted(task[p]), Users \subseteq Users', UNCHANGED task
    PROVE  \A p \in Task : FrameIsCounted(task[p])'
  BY DEF FrameIsCounted

(* A step of the request p leaves it with a frame that satisfies FrameIsCounted. *)
LEMMA FramesChange ==
    ASSUME TypeOK, \A q \in Task : FrameIsCounted(task[q]), Users \subseteq Users',
           NEW p \in Task, NEW frame, task' = [task EXCEPT ![p] = frame],
           FrameIsCounted(frame)
    PROVE  \A q \in Task : FrameIsCounted(task[q])'
<1> SUFFICES ASSUME NEW q \in Task PROVE FrameIsCounted(task[q])'
  OBVIOUS
<1>1. CASE q = p
  BY <1>1 DEF FrameIsCounted, TypeOK
<1>2. CASE q # p
  BY <1>2 DEF FrameIsCounted, TypeOK
<1> QED
  BY <1>1, <1>2

(* Every step preserves FrameIsCounted. *)
LEMMA StepFrames ==
    ASSUME SessionInv, [Next]_vars, Users \subseteq Users'
    PROVE  \A q \in Task : FrameIsCounted(task[q])'
<1>0. /\ TypeOK /\ TablesTypeOK /\ clock \in Nat /\ TablesInv /\ SessionTablesInv
      /\ \A q \in Task : FrameIsCounted(task[q])
  BY DEF SessionInv, RegistrationInv, TypeOK
<1>1. CASE \/ LoginStart \/ AuthenticateSession \/ SessionDiscovery \/ RecoveryRequest
           \/ BreakGlass \/ RotateAuthEpoch \/ Tick \/ UNCHANGED vars
  <2>1. UNCHANGED task
    BY <1>1 DEF LoginStart, AuthenticateSession, SessionDiscovery, RecoveryRequest, BreakGlass,
       RotateAuthEpoch, Tick, vars
  <2> QED
    BY <1>0, <2>1, FramesStayCounted
<1>2. ASSUME NEW p \in Task, RequestStep(p)
      PROVE  \A q \in Task : FrameIsCounted(task[q])'
  <2>1. CASE \/ SetupInsert(p) \/ BootstrapInsert(p) \/ RegistrationCommit(p) \/ LoginCommit(p)
             \/ LogoutCommit(p) \/ ApproveRecovery(p) \/ IssueRecoverySetup(p) \/ ApproveUser(p)
             \/ SeedCommit(p) \/ Abort(p)
    <3>1. Return(p)
      BY <2>1 DEF SetupInsert, BootstrapInsert, RegistrationCommit, LoginCommit, LogoutCommit,
         ApproveRecovery, IssueRecoverySetup, ApproveUser, SeedCommit, Abort
    <3> QED
      BY <1>0, <3>1, FramesChange DEF Return, Idle, FrameIsCounted
  <2>2. CASE SetupStart(p)
    <3>1. PICK k \in CapabilityId, now \in Now :
             /\ CapabilityOpen(k, now)
             /\ Continue(p, [Idle EXCEPT !.pc = "setup_insert", !.now = now,
                                         !.user = capabilities[k].user, !.capability = k])
      BY <2>2 DEF SetupStart
    <3>2. capabilities[k].user \in Users
      BY <1>0, <3>1 DEF CapabilityOpen, TablesInv, LiveRowsHaveUsers
    <3> QED
      BY <1>0, <3>1, <3>2, FramesChange DEF Continue, Idle, FrameIsCounted
  <2>3. CASE BootstrapStart(p)
    <3>1. PICK now \in Now :
             \/ \E k \in operator_recovery_window(now) :
                   Continue(p, [Idle EXCEPT !.pc = "bootstrap_insert", !.now = now,
                                            !.user = capabilities[k].user, !.capability = k])
             \/ Continue(p, [Idle EXCEPT !.pc = "bootstrap_operator", !.now = now])
      BY <2>3 DEF BootstrapStart
    <3>2. ASSUME NEW k \in operator_recovery_window(now),
                 Continue(p, [Idle EXCEPT !.pc = "bootstrap_insert", !.now = now,
                                          !.user = capabilities[k].user, !.capability = k])
          PROVE  \A q \in Task : FrameIsCounted(task[q])'
      <4>1. capabilities[k].user \in Users
        BY DEF operator_recovery_window, OpenWindows, Operators, Users
      <4> QED
        BY <1>0, <3>2, <4>1, FramesChange DEF Continue, Idle, FrameIsCounted
    <3>3. CASE Continue(p, [Idle EXCEPT !.pc = "bootstrap_operator", !.now = now])
      BY <1>0, <3>3, FramesChange DEF Continue, Idle, FrameIsCounted
    <3> QED
      BY <3>1, <3>2, <3>3
  <2>4. CASE BootstrapOperator(p)
    <3>1. PICK u \in operator_without_credential :
             task' = [task EXCEPT ![p].pc = "bootstrap_insert", ![p].user = u]
      BY <2>4 DEF BootstrapOperator
    <3>2. u \in Users
      BY DEF operator_without_credential, Operators, Users
    <3> DEFINE frame == [task[p] EXCEPT !.pc = "bootstrap_insert", !.user = u]
    <3>3. task' = [task EXCEPT ![p] = frame] /\ FrameIsCounted(frame)
      BY <1>0, <3>1, <3>2 DEF TypeOK, Frame, FrameIsCounted
    <3> QED
      BY <1>0, <3>3, FramesChange
  <2>5. CASE LoginFinish(p)
    <3>1. PICK m \in CeremonyId, u \in Users, now \in Now :
             Continue(p, [Idle EXCEPT !.pc = "authentication", !.now = now, !.ceremony = m,
                                      !.user = u, !.epoch = users[u].epoch,
                                      !.began = Invalidations(u)])
      BY <2>5 DEF LoginFinish
    <3>2. users[u].epoch = Invalidations(u) + 1
      BY <1>0 DEF SessionTablesInv, EpochCountsInvalidations, Users
    <3> QED
      BY <1>0, <3>1, <3>2, FramesChange DEF Continue, Idle, FrameIsCounted
  <2>6. CASE RegistrationFinish(p)
    <3>1. PICK m \in CeremonyId, now \in Now :
             Continue(p, [Idle EXCEPT !.pc = "registration", !.now = now, !.ceremony = m,
                                      !.capability = ceremonies[m].capability])
      BY <2>6 DEF RegistrationFinish
    <3> QED
      BY <1>0, <3>1, FramesChange DEF Continue, Idle, FrameIsCounted
  <2>7. CASE SeedOperator(p)
    <3>1. PICK now \in Now : Continue(p, [Idle EXCEPT !.pc = "seed", !.now = now])
      BY <2>7 DEF SeedOperator
    <3> QED
      BY <1>0, <3>1, FramesChange DEF Continue, Idle, FrameIsCounted
  <2>8. CASE Logout(p)
    <3>1. PICK s \in SessionId :
             \/ UNCHANGED task
             \/ Continue(p, [Idle EXCEPT !.pc = "logout", !.session = s])
      BY <2>8 DEF Logout, Authorize
    <3> QED
      BY <1>0, <3>1, FramesChange, FramesStayCounted DEF Continue, Idle, FrameIsCounted
  <2>9. CASE OperatorRequest(p)
    <3>1. PICK s \in SessionId :
             \/ UNCHANGED task
             \/ Continue(p, [Idle EXCEPT !.pc = "operator", !.user = sessions[s].user])
      BY <2>9 DEF OperatorRequest, Authorize
    <3> QED
      BY <1>0, <3>1, FramesChange, FramesStayCounted DEF Continue, Idle, FrameIsCounted
  <2> QED
    BY <1>2, <2>1, <2>2, <2>3, <2>4, <2>5, <2>6, <2>7, <2>8, <2>9 DEF RequestStep
<1> QED
  BY <1>1, <1>2 DEF Next

-----------------------------------------------------------------------------
(* The invariant.                                                           *)

(* No invalidation precedes the run, and every session was opened after it. *)
LEMMA SessionInit == Init => SessionInv
<1> SUFFICES ASSUME Init PROVE SessionInv
  OBVIOUS
<1>1. Users = InitialUsers
  BY InitialAssumption DEF Init, Users, NoUser, InitialUsers
<1>2. \A u \in UserId : Invalidations(u) = 0
  BY DEF Init, Invalidations, EventType
<1>3. EpochCountsInvalidations
  BY <1>1, <1>2 DEF Init, EpochCountsInvalidations, NoUser
<1>4. SessionsAreCounted
  BY <1>1, InitialAssumption DEF Init, SessionsAreCounted, NoSession, InitialUsers
<1>5. CeremoniesHaveUsers
  BY DEF Init, CeremoniesHaveUsers, NoCeremony
<1>6. \A p \in Task : FrameIsCounted(task[p])
  BY DEF Init, FrameIsCounted, Idle
<1> QED
  BY <1>3, <1>4, <1>5, <1>6, InitInv DEF SessionInv, SessionTablesInv

(* Every step keeps the invariant of sessions. *)
LEMMA SessionNext == SessionInv /\ [Next]_vars => SessionInv'
<1> SUFFICES ASSUME SessionInv, [Next]_vars PROVE SessionInv'
  OBVIOUS
<1>1. RegistrationInv'
  BY NextInv DEF SessionInv
<1>2. SessionTablesInv' /\ Users \subseteq Users'
  BY StepIsTransaction, TransactionCounts DEF SessionInv, RegistrationInv
<1>3. \A p \in Task : FrameIsCounted(task[p])'
  BY <1>2, StepFrames
<1> QED
  BY <1>1, <1>2, <1>3 DEF SessionInv

(* auth_epoch is the number of invalidations of the user plus one; every    *)
(* session, and every login in flight, carries the number its login read.   *)
THEOREM SessionInvariant == Spec => []SessionInv
  BY SessionInit, SessionNext, PTL DEF Spec

(* A session that the epoch comparison of PgAuthStore::session accepts was  *)
(* opened by a login that began after the user's last recovery approval,    *)
(* break-glass or rotation, whatever ran between the login's read of the    *)
(* user and its commit.                                                     *)
THEOREM UsableSessionsPostdateInvalidation == Spec => []UsableSessionPostdatesInvalidation
<1>1. ASSUME SessionInv PROVE UsableSessionPostdatesInvalidation
  <2> SUFFICES ASSUME NEW s \in SessionId, Usable(s)
               PROVE  sessions[s].began = Invalidations(sessions[s].user)
    BY DEF UsableSessionPostdatesInvalidation
  <2>1. /\ sessions[s].user \in Users /\ sessions[s].user \in UserId
        /\ sessions[s].epoch = sessions[s].began + 1
        /\ sessions[s].epoch = users[sessions[s].user].epoch
        /\ sessions[s].began \in Nat /\ TablesTypeOK
    BY <1>1 DEF SessionInv, SessionTablesInv, SessionsAreCounted, Usable, Users, RegistrationInv,
       TypeOK, TablesTypeOK, SessionRow
  <2>2. users[sessions[s].user].epoch = Invalidations(sessions[s].user) + 1
    BY <1>1, <2>1 DEF SessionInv, SessionTablesInv, EpochCountsInvalidations
  <2> QED
    BY <2>1, <2>2, InvalidationsType
<1> QED
  BY <1>1, SessionInvariant, PTL

-----------------------------------------------------------------------------
(* The service implements SessionAuthority.                                 *)

(* The states of passkeys under the refinement mapping. *)
LEMMA PasskeyViews ==
    /\ PasskeyState["absent"] = "none"
    /\ PasskeyState["live"] = "live"
    /\ PasskeyState["revoked"] = "revoked"
  BY DEF PasskeyState

(* Users are enrolled in the abstract sense if they have a row. *)
LEMMA EnrolledAreUsers ==
    ASSUME TablesTypeOK, EpochCountsInvalidations
    PROVE  Sessions!EnrolledUsers = Users
<1>1. ASSUME NEW u \in UserId
      PROVE  EpochView[u] = users[u].epoch /\ (users[u].epoch > 0 <=> u \in Users)
  BY InvalidationsType DEF EpochView, EpochCountsInvalidations
<1> QED
  BY <1>1 DEF Sessions!EnrolledUsers, Users

(* A live passkey of a user is one in the abstract sense. *)
LEMMA LivePasskeysOf ==
    ASSUME NEW U, NEW c \in CredentialId
    PROVE  c \in Sessions!LivePasskeys(U) <=>
              PasskeyView[c].state = "live" /\ credentials[c].user \in U
  BY DEF Sessions!LivePasskeys, PasskeyView

(* A session's state depends on its row and on its user's epoch. *)
LEMMA StateKept ==
    ASSUME NEW s \in SessionId, sessions'[s].status = sessions[s].status,
           sessions'[s].user = sessions[s].user, sessions'[s].epoch = sessions[s].epoch,
           sessions[s].status = "live" =>
              users'[sessions[s].user].epoch = users[sessions[s].user].epoch
    PROVE  SessionState(s)' = SessionState(s)
  BY DEF SessionState, Usable

(* Transactions that only touch what SessionAuthority leaves out. *)
LEMMA SessionsStutter ==
    ASSUME UNCHANGED <<users, credentials>>,
           \A s \in SessionId :
              /\ sessions'[s].status = sessions[s].status /\ sessions'[s].user = sessions[s].user
              /\ sessions'[s].epoch = sessions[s].epoch
              /\ sessions'[s].credential = sessions[s].credential
    PROVE  UNCHANGED Sessions!authorityVars
<1>1. SessionView' = SessionView
  BY StateKept DEF SessionView
<1>2. EpochView' = EpochView /\ PasskeyView' = PasskeyView
  BY DEF EpochView, PasskeyView
<1> QED
  BY <1>1, <1>2 DEF Sessions!authorityVars

(* seed_operator and approve_user_with_setup enroll a user. *)
LEMMA SessionsEnroll ==
    ASSUME TablesTypeOK, SessionTablesInv, NEW u \in UserId, users[u].role = "absent",
           NEW role, NEW now,
           users' = [users EXCEPT ![u] = [role |-> role, epoch |-> 1, created |-> now]],
           UNCHANGED <<sessions, credentials>>
    PROVE  Sessions!Enroll(u)
<1>1. u \notin Sessions!EnrolledUsers
  BY EnrolledAreUsers DEF SessionTablesInv, Users
<1>2. EpochView' = [EpochView EXCEPT ![u] = 1]
  BY DEF EpochView, TablesTypeOK
<1>3. ASSUME NEW s \in SessionId PROVE SessionState(s)' = SessionState(s)
  <2>1. CASE sessions[s].status = "live"
    <3>1. sessions[s].user \in UserId /\ sessions[s].user # u
      BY <2>1 DEF SessionTablesInv, SessionsAreCounted, Users
    <3> QED
      BY <3>1, StateKept DEF TablesTypeOK
  <2>2. CASE sessions[s].status # "live"
    BY <2>2, StateKept
  <2> QED
    BY <2>1, <2>2
<1>4. SessionView' = SessionView /\ PasskeyView' = PasskeyView
  BY <1>3 DEF SessionView, PasskeyView
<1> QED
  BY <1>1, <1>2, <1>4 DEF Sessions!Enroll

(* complete_registration adds a live passkey of a user that exists. *)
LEMMA SessionsRegister ==
    ASSUME TablesInv, SessionTablesInv, NEW m \in CeremonyId, NEW k, NEW c \in CredentialId,
           NEW now, ceremonies[m].kind # "authentication", complete_registration(m, k, c, now)
    PROVE  ceremonies[m].user \in UserId /\ Sessions!Register(c, ceremonies[m].user)
<1> DEFINE u == ceremonies[m].user
<1>1. /\ credentials[c].status = "absent" /\ ceremonies[m].status = "open"
      /\ credentials' = [credentials EXCEPT ![c] = [status |-> "live", user |-> u, ceremony |-> m,
                                                       epoch |-> users[u].epoch]]
      /\ UNCHANGED <<users, sessions>>
  BY DEF complete_registration, RegistrationCommits, CeremonyOpen
<1>2. u \in Users /\ u \in UserId
  BY <1>1 DEF SessionTablesInv, CeremoniesHaveUsers, Users
<1>3. u \in Sessions!EnrolledUsers
  BY <1>2, EnrolledAreUsers DEF SessionTablesInv, TablesInv
<1>4. PasskeyView[c].state = "none"
  BY <1>1, PasskeyViews DEF PasskeyView
<1>5. PasskeyView' = [PasskeyView EXCEPT ![c] = [state |-> "live", user |-> u]]
  BY <1>1, PasskeyViews DEF PasskeyView, TablesInv, TablesTypeOK
<1>6. EpochView' = EpochView /\ SessionView' = SessionView
  BY <1>1, StateKept DEF EpochView, SessionView
<1> QED
  BY <1>2, <1>3, <1>4, <1>5, <1>6 DEF Sessions!Register

(* complete_authentication opens a session with a live passkey of its user. *)
LEMMA SessionsSignIn ==
    ASSUME TablesTypeOK, SessionTablesInv, NEW m \in CeremonyId, NEW c \in CredentialId,
           NEW s \in SessionId, NEW row \in SessionRow, NEW now,
           row.status = "live", row.user \in Users, row.credential = c,
           complete_authentication(m, c, s, row, now)
    PROVE  row.user \in UserId /\ Sessions!SignIn(s, c, row.user)
<1>1. /\ sessions[s].status = "absent" /\ sessions' = [sessions EXCEPT ![s] = row]
      /\ credentials[c].status = "live" /\ credentials[c].user = row.user
      /\ UNCHANGED <<users, credentials>>
  BY DEF complete_authentication, CredentialsOf
<1>2. SessionView[s].state = "none"
  BY <1>1 DEF SessionView, SessionState
<1>3. c \in Sessions!LivePasskeys({row.user})
  <2>1. PasskeyView[c].state = "live"
    BY <1>1, PasskeyViews DEF PasskeyView
  <2> QED
    BY <1>1, <2>1, LivePasskeysOf
<1>4. SessionState(s)' \in {"usable", "dead"}
  BY <1>1 DEF SessionState, TablesTypeOK
<1>5. ASSUME NEW q \in SessionId, q # s PROVE sessions'[q] = sessions[q] /\ SessionState(q)' = SessionState(q)
  BY <1>1, <1>5, StateKept DEF TablesTypeOK
<1>6. SessionView' = [SessionView EXCEPT ![s] = [state |-> SessionState(s)', user |-> row.user, passkey |-> c]]
  <2>1. sessions'[s] = row
    BY <1>1 DEF TablesTypeOK
  <2> QED
    BY <1>5, <2>1 DEF SessionView
<1>7. EpochView' = EpochView /\ PasskeyView' = PasskeyView
  BY <1>1 DEF EpochView, PasskeyView
<1>8. row.user \in UserId
  BY DEF Users
<1>9. \E state \in {"usable", "dead"} :
         SessionView' = [SessionView EXCEPT ![s] = [state |-> state, user |-> row.user, passkey |-> c]]
  BY <1>4, <1>6
<1> QED
  BY <1>2, <1>3, <1>7, <1>8, <1>9 DEF Sessions!SignIn

(* delete_session ends a usable session; one that an invalidation has ended *)
(* already stays ended.                                                     *)
LEMMA SessionsSignOut ==
    ASSUME TablesTypeOK, NEW s \in SessionId, delete_session(s)
    PROVE  Sessions!SignOut(s) \/ UNCHANGED Sessions!authorityVars
<1>1. EpochView' = EpochView /\ PasskeyView' = PasskeyView
  BY DEF EpochView, PasskeyView, delete_session
<1>2. ASSUME NEW q \in SessionId, q # s PROVE sessions'[q] = sessions[q] /\ SessionState(q)' = SessionState(q)
  BY <1>2, StateKept DEF delete_session, TablesTypeOK
<1>3. /\ sessions'[s].user = sessions[s].user /\ sessions'[s].credential = sessions[s].credential
      /\ sessions'[s].status = IF sessions[s].status = "live" THEN "revoked" ELSE sessions[s].status
  BY DEF delete_session, TablesTypeOK, SessionRow
<1>4. CASE Usable(s)
  <2>1. SessionState(s) = "usable" /\ SessionState(s)' = "dead"
    BY <1>3, <1>4 DEF SessionState, Usable
  <2>2. SessionView' = [SessionView EXCEPT ![s].state = "dead"]
    BY <1>2, <1>3, <2>1 DEF SessionView
  <2>3. SessionView[s].state = "usable"
    BY <2>1 DEF SessionView
  <2> QED
    BY <1>1, <2>2, <2>3 DEF Sessions!SignOut
<1>5. CASE ~Usable(s)
  <2>1. SessionState(s)' = SessionState(s)
    BY <1>3, <1>5 DEF SessionState, Usable
  <2>2. SessionView' = SessionView
    BY <1>2, <1>3, <2>1 DEF SessionView
  <2> QED
    BY <1>1, <2>2 DEF Sessions!authorityVars
<1> QED
  BY <1>4, <1>5

(* An invalidation of the users in U that revokes the passkeys in revoked. *)
LEMMA SessionsInvalidate ==
    ASSUME TablesTypeOK, SessionTablesInv, NEW U \in SUBSET Users, NEW revoked \in SUBSET CredentialId,
           \A v \in UserId :
              users'[v].epoch = IF v \in U THEN users[v].epoch + 1 ELSE users[v].epoch,
           \A s \in SessionId :
              /\ sessions'[s].user = sessions[s].user /\ sessions'[s].epoch = sessions[s].epoch
              /\ sessions'[s].credential = sessions[s].credential
              /\ sessions'[s].status = "absent" <=> sessions[s].status = "absent"
              /\ sessions'[s].status = "live" <=> sessions[s].status = "live" /\ sessions[s].user \notin U,
           \A c \in CredentialId :
              /\ credentials'[c].user = credentials[c].user
              /\ c \notin revoked => credentials'[c].status = credentials[c].status
              /\ c \in revoked => /\ credentials[c].status = "live" /\ credentials[c].user \in U
                                  /\ credentials'[c].status = "revoked"
    PROVE  Sessions!Next
<1>1. revoked \in SUBSET Sessions!LivePasskeys(U)
  <2>1. \A c \in revoked : PasskeyView[c].state = "live" /\ credentials[c].user \in U
    BY PasskeyViews DEF PasskeyView
  <2> QED
    BY <2>1, LivePasskeysOf
<1>2. U \in SUBSET Sessions!EnrolledUsers
  BY EnrolledAreUsers DEF SessionTablesInv
<1>3. EpochView' = [v \in UserId |-> IF v \in U THEN EpochView[v] + 1 ELSE EpochView[v]]
  BY DEF EpochView
<1>4. PasskeyView' = [c \in CredentialId |->
         IF c \in revoked THEN [PasskeyView[c] EXCEPT !.state = "revoked"] ELSE PasskeyView[c]]
  BY PasskeyViews DEF PasskeyView
<1>5. ASSUME NEW s \in SessionId
      PROVE  SessionState(s)' = IF SessionState(s) = "usable" /\ sessions[s].user \in U
                                THEN "dead" ELSE SessionState(s)
  <2>1. CASE sessions[s].status = "live" /\ sessions[s].user \in U
    BY <2>1 DEF SessionState, Usable
  <2>2. CASE sessions[s].status = "live" /\ sessions[s].user \notin U
    <3>1. sessions[s].user \in UserId
      BY <2>2 DEF SessionTablesInv, SessionsAreCounted, Users
    <3> QED
      BY <2>2, <3>1 DEF SessionState, Usable
  <2>3. CASE sessions[s].status # "live"
    BY <2>3 DEF SessionState, Usable
  <2> QED
    BY <2>1, <2>2, <2>3
<1>6. SessionView' = [s \in SessionId |->
         IF SessionView[s].state = "usable" /\ SessionView[s].user \in U
         THEN [SessionView[s] EXCEPT !.state = "dead"] ELSE SessionView[s]]
  BY <1>5 DEF SessionView
<1>7. Sessions!Invalidate(U, revoked)
  BY <1>1, <1>3, <1>4, <1>6 DEF Sessions!Invalidate
<1> QED
  BY <1>1, <1>2, <1>7 DEF Sessions!Next

(* Every transaction is a step of SessionAuthority. *)
LEMMA SessionsStep ==
    ASSUME TablesInv, SessionTablesInv, Transaction
    PROVE  Sessions!Next \/ UNCHANGED Sessions!authorityVars
<1>0. TablesTypeOK
  BY DEF TablesInv
<1>1. CASE \/ UNCHANGED tables
           \/ \E m \in CeremonyId, kind \in CeremonyKind, u \in UserId \cup {None},
                 k \in CapabilityId \cup {None}, expires \in Nat : insert_ceremony(m, kind, u, k, expires)
           \/ \E r \in RecoveryId, u \in UserId : create_recovery(r, u)
           \/ \E r \in RecoveryId, u \in UserId, k \in CapabilityId, expires, time \in Nat :
                 issue_recovery_setup(r, k, u, expires, time)
  <2>1. UNCHANGED <<users, credentials, sessions>>
    BY <1>1 DEF tables, insert_ceremony, create_recovery, issue_recovery_setup
  <2> QED
    BY <2>1, SessionsStutter
<1>2. ASSUME NEW s \in SessionId, SessionWrite(s)
      PROVE  UNCHANGED Sessions!authorityVars
  <2>1. \A q \in SessionId :
           /\ sessions'[q].status = sessions[q].status /\ sessions'[q].user = sessions[q].user
           /\ sessions'[q].epoch = sessions[q].epoch
           /\ sessions'[q].credential = sessions[q].credential
    BY <1>2 DEF SessionWrite
  <2> QED
    BY <1>2, <2>1, SessionsStutter DEF SessionWrite
<1>3. ASSUME NEW u \in UserId, NEW now \in Nat, insert_user(u, now)
      PROVE  Sessions!Next
  BY <1>0, <1>3, SessionsEnroll DEF insert_user, Sessions!Next
<1>4. ASSUME NEW u \in UserId, NEW k \in CapabilityId, NEW expires \in Nat, NEW now \in Nat,
             NEW time \in Nat, approve_user_with_setup(u, k, expires, now, time)
      PROVE  Sessions!Next
  BY <1>0, <1>4, SessionsEnroll DEF approve_user_with_setup, Sessions!Next
<1>5. ASSUME NEW m \in CeremonyId, NEW c \in CredentialId, NEW now \in Nat,
             ceremonies[m].kind # "authentication",
             complete_registration(m, ceremonies[m].capability, c, now)
      PROVE  Sessions!Next
  BY <1>5, SessionsRegister DEF Sessions!Next
<1>6. ASSUME NEW m \in CeremonyId, NEW c \in CredentialId, NEW s \in SessionId,
             NEW row \in SessionRow, NEW now \in Nat,
             row.status = "live", row.user \in Users, row.credential = c,
             complete_authentication(m, c, s, row, now)
      PROVE  Sessions!Next
  BY <1>0, <1>6, SessionsSignIn DEF Sessions!Next
<1>7. ASSUME NEW s \in SessionId, delete_session(s)
      PROVE  Sessions!Next \/ UNCHANGED Sessions!authorityVars
  BY <1>0, <1>7, SessionsSignOut DEF Sessions!Next
<1>8. ASSUME NEW r \in RecoveryId, approve_recovery(r)
      PROVE  Sessions!Next
  <2> DEFINE u == recoveries[r].user
             revoked == {}
  <2>1. u \in Users /\ u \in UserId
    BY <1>8 DEF approve_recovery, TablesInv, LiveRowsHaveUsers, Users
  <2>2. users' = AdvanceEpoch(u) /\ sessions' = RevokeSessions(u) /\ UNCHANGED credentials
    BY <1>8 DEF approve_recovery
  <2> HIDE DEF u
  <2>3. \A v \in UserId :
           users'[v].epoch = IF v \in {u} THEN users[v].epoch + 1 ELSE users[v].epoch
    BY <1>0, <2>1, <2>2, AdvancedUsers
  <2>4. \A s \in SessionId :
           /\ sessions'[s].user = sessions[s].user /\ sessions'[s].epoch = sessions[s].epoch
           /\ sessions'[s].credential = sessions[s].credential
           /\ sessions'[s].status = "absent" <=> sessions[s].status = "absent"
           /\ sessions'[s].status = "live" <=> sessions[s].status = "live" /\ sessions[s].user \notin {u}
    BY <1>0, <2>2, RevokedSessions
  <2>5. {u} \in SUBSET Users /\ revoked \in SUBSET CredentialId
    BY <2>1
  <2>6. \A c \in CredentialId :
           /\ credentials'[c].user = credentials[c].user
           /\ c \notin revoked => credentials'[c].status = credentials[c].status
           /\ c \in revoked => /\ credentials[c].status = "live" /\ credentials[c].user \in {u}
                          /\ credentials'[c].status = "revoked"
    BY <2>2
  <2> HIDE DEF revoked
  <2> QED
    BY <1>0, <2>3, <2>4, <2>5, <2>6, SessionsInvalidate
<1>9. ASSUME NEW c \in CredentialId, NEW u \in UserId, NEW k \in CapabilityId,
             NEW expires \in Nat, NEW time \in Nat, break_glass(c, u, k, expires, time)
      PROVE  Sessions!Next
  <2>1. /\ u \in Users /\ credentials[c].status = "live" /\ credentials[c].user = u
        /\ credentials' = [credentials EXCEPT ![c].status = "revoked"]
        /\ users' = AdvanceEpoch(u) /\ sessions' = RevokeSessions(u)
    BY <1>9 DEF break_glass, LiveOperatorCredentials, CredentialsOf, Operators, Users
  <2>2. \A v \in UserId :
           users'[v].epoch = IF v \in {u} THEN users[v].epoch + 1 ELSE users[v].epoch
    BY <1>0, <2>1, AdvancedUsers
  <2>3. \A s \in SessionId :
           /\ sessions'[s].user = sessions[s].user /\ sessions'[s].epoch = sessions[s].epoch
           /\ sessions'[s].credential = sessions[s].credential
           /\ sessions'[s].status = "absent" <=> sessions[s].status = "absent"
           /\ sessions'[s].status = "live" <=> sessions[s].status = "live" /\ sessions[s].user \notin {u}
    BY <1>0, <2>1, RevokedSessions
  <2>4. \A d \in CredentialId :
           /\ credentials'[d].user = credentials[d].user
           /\ d \notin {c} => credentials'[d].status = credentials[d].status
           /\ d \in {c} => /\ credentials[d].status = "live" /\ credentials[d].user \in {u}
                           /\ credentials'[d].status = "revoked"
    BY <1>0, <2>1 DEF TablesTypeOK, CredentialRow
  <2>5. {u} \in SUBSET Users /\ {c} \in SUBSET CredentialId
    BY <2>1
  <2> QED
    BY <1>0, <2>2, <2>3, <2>4, <2>5, SessionsInvalidate
<1>10. CASE rotate_all_auth_epochs
  <2> DEFINE revoked == {}
  <2>1. UNCHANGED credentials /\ Users \in SUBSET Users /\ revoked \in SUBSET CredentialId
    BY <1>10 DEF rotate_all_auth_epochs
  <2>2. \A v \in UserId :
           users'[v].epoch = IF v \in Users THEN users[v].epoch + 1 ELSE users[v].epoch
    BY <1>0, <1>10, RotatedRows
  <2>3. \A s \in SessionId : sessions[s].status = "live" => sessions[s].user \in Users
    BY DEF SessionTablesInv, SessionsAreCounted
  <2>4. \A s \in SessionId :
           /\ sessions'[s].user = sessions[s].user /\ sessions'[s].epoch = sessions[s].epoch
           /\ sessions'[s].credential = sessions[s].credential
           /\ sessions'[s].status = "absent" <=> sessions[s].status = "absent"
           /\ sessions'[s].status = "live" <=> sessions[s].status = "live" /\ sessions[s].user \notin Users
    BY <1>0, <1>10, <2>3, RotatedRows
  <2>5. \A c \in CredentialId :
           /\ credentials'[c].user = credentials[c].user
           /\ c \notin revoked => credentials'[c].status = credentials[c].status
           /\ c \in revoked => /\ credentials[c].status = "live" /\ credentials[c].user \in Users
                          /\ credentials'[c].status = "revoked"
    BY <2>1
  <2> HIDE DEF revoked
  <2> QED
    BY <1>0, <2>1, <2>2, <2>4, <2>5, SessionsInvalidate
<1> QED
  BY <1>1, <1>2, <1>3, <1>4, <1>5, <1>6, <1>7, <1>8, <1>9, <1>10 DEF Transaction

(* The passkeys and sessions of the initial state agree. *)
LEMMA SessionsInit == Init => Sessions!Init
<1> SUFFICES ASSUME Init PROVE Sessions!Init
  OBVIOUS
<1>1. \A u \in UserId : EpochView[u] \in {0, 1}
  BY DEF Init, EpochView, NoUser
<1>2. \A c \in CredentialId :
         /\ PasskeyView[c].state \in {"none", "live"}
         /\ c \in DOMAIN Enrolled => PasskeyView[c].state = "live" /\ credentials[c].user = Enrolled[c]
  BY PasskeyViews DEF Init, PasskeyView, NoCredential
<1>3. ASSUME NEW s \in SessionId
      PROVE  \/ SessionView[s].state = "none"
             \/ /\ SessionView[s].state = "usable"
                /\ SessionView[s].passkey \in Sessions!LivePasskeys({SessionView[s].user})
  <2>1. CASE s \in DOMAIN SignedIn
    <3>1. /\ sessions[s].status = "live" /\ sessions[s].user = Enrolled[SignedIn[s]]
          /\ sessions[s].epoch = 1 /\ sessions[s].credential = SignedIn[s]
      BY <2>1 DEF Init
    <3>2. SignedIn[s] \in DOMAIN Enrolled /\ SignedIn[s] \in CredentialId /\ Enrolled[SignedIn[s]] \in UserId
      BY <2>1, InitialAssumption
    <3>3. users[Enrolled[SignedIn[s]]].epoch = 1
      BY <3>2 DEF Init, InitialUsers
    <3>4. SessionView[s].state = "usable"
      BY <3>1, <3>3 DEF SessionView, SessionState, Usable
    <3>5. SignedIn[s] \in Sessions!LivePasskeys({Enrolled[SignedIn[s]]})
      BY <1>2, <3>2, LivePasskeysOf
    <3> QED
      BY <3>1, <3>4, <3>5 DEF SessionView
  <2>2. CASE s \notin DOMAIN SignedIn
    BY <2>2 DEF Init, SessionView, SessionState, NoSession
  <2> QED
    BY <2>1, <2>2
<1> QED
  BY <1>1, <1>2, <1>3 DEF Sessions!Init

(* However requests and commands interleave, AuthService implements         *)
(* SessionAuthority: recovery approval, break-glass and rotation end every  *)
(* session of their users in the step that advances the epoch, and no login *)
(* in flight or late request makes one usable again.                        *)
THEOREM SessionsImplementAuthority == Spec => ImplementsSessionAuthority
<1>1. SessionInv /\ [Next]_vars => [Sessions!Next]_Sessions!authorityVars
  BY StepIsTransaction, SessionsStep DEF SessionInv, RegistrationInv
<1> QED
  BY <1>1, SessionsInit, SessionInvariant, PTL DEF Spec, ImplementsSessionAuthority, Sessions!Spec

-----------------------------------------------------------------------------
(* What transactions keep of inserted rows.                                 *)

(* A passkey keeps its user, its ceremony and its epoch. *)
CredentialsKeep ==
    \A c \in CredentialId :
        /\ credentials[c].status # "absent" =>
              /\ credentials'[c].status # "absent" /\ credentials'[c].user = credentials[c].user
              /\ credentials'[c].ceremony = credentials[c].ceremony
              /\ credentials'[c].epoch = credentials[c].epoch
        /\ credentials'[c].status = "absent" => credentials'[c] = credentials[c]

(* A ceremony keeps its capability. *)
CeremoniesKeep ==
    \A m \in CeremonyId : ceremonies[m].status # "absent" =>
        ceremonies'[m].status # "absent" /\ ceremonies'[m].capability = ceremonies[m].capability

(* A capability keeps its user, its purpose and its epoch. *)
CapabilitiesKeep ==
    \A k \in CapabilityId :
        /\ capabilities[k].status # "absent" =>
              /\ capabilities'[k].status # "absent" /\ capabilities'[k].user = capabilities[k].user
              /\ capabilities'[k].purpose = capabilities[k].purpose
              /\ capabilities'[k].epoch = capabilities[k].epoch
        /\ capabilities'[k].status = "absent" => capabilities'[k] = capabilities[k]

(* A session keeps its user. *)
SessionsKeep ==
    \A s \in SessionId :
        /\ sessions[s].status # "absent" => sessions'[s].user = sessions[s].user
        /\ sessions'[s].status = "absent" => sessions'[s] = sessions[s]

(* Only complete_registration and break_glass write passkey_credentials. *)
LEMMA CredentialHistory ==
    ASSUME TablesTypeOK, Transaction
    PROVE  CredentialsKeep
<1>1. ASSUME NEW m \in CeremonyId, NEW c \in CredentialId, NEW now \in Nat,
             complete_registration(m, ceremonies[m].capability, c, now)
      PROVE  CredentialsKeep
  BY <1>1 DEF complete_registration, CredentialsKeep, TablesTypeOK
<1>2. ASSUME NEW c \in CredentialId, NEW u \in UserId, NEW k \in CapabilityId,
             NEW expires \in Nat, NEW time \in Nat, break_glass(c, u, k, expires, time)
      PROVE  CredentialsKeep
  BY <1>2 DEF break_glass, CredentialsKeep, TablesTypeOK, CredentialRow
<1>3. ASSUME UNCHANGED credentials
      PROVE  CredentialsKeep
  BY <1>3 DEF CredentialsKeep
<1> QED
  BY <1>1, <1>2, <1>3 DEF Transaction, tables, insert_user, approve_user_with_setup,
     insert_ceremony, complete_authentication, SessionWrite, delete_session, create_recovery,
     approve_recovery, issue_recovery_setup, rotate_all_auth_epochs

(* Every UPDATE of auth_ceremonies sets consumed_at only. *)
LEMMA CeremonyHistory ==
    ASSUME TablesTypeOK, Transaction
    PROVE  CeremoniesKeep
<1>1. ASSUME NEW m \in CeremonyId, ceremonies' = [ceremonies EXCEPT ![m].status = "consumed"]
      PROVE  CeremoniesKeep
  BY <1>1 DEF CeremoniesKeep, TablesTypeOK, CeremonyRow
<1>2. ASSUME NEW m \in CeremonyId, NEW kind \in CeremonyKind, NEW u \in UserId \cup {None},
             NEW k \in CapabilityId \cup {None}, NEW expires \in Nat,
             insert_ceremony(m, kind, u, k, expires)
      PROVE  CeremoniesKeep
  BY <1>2 DEF insert_ceremony, CeremoniesKeep, TablesTypeOK
<1>3. ASSUME RowsKeep
      PROVE  CeremoniesKeep
  BY <1>3 DEF RowsKeep, CeremoniesKeep
<1>4. ASSUME NEW r \in RecoveryId, approve_recovery(r)
      PROVE  RowsKeep
  BY <1>4, approve_recovery_Keeps
<1>5. ASSUME NEW c \in CredentialId, NEW u \in UserId, NEW k \in CapabilityId,
             NEW expires \in Nat, NEW time \in Nat, break_glass(c, u, k, expires, time)
      PROVE  RowsKeep
  BY <1>5, break_glass_Keeps
<1>6. CASE rotate_all_auth_epochs
  BY <1>3, <1>6, rotate_all_auth_epochs_Keeps
<1>7. ASSUME UNCHANGED ceremonies
      PROVE  CeremoniesKeep
  BY <1>7 DEF CeremoniesKeep
<1> QED
  BY <1>1, <1>2, <1>3, <1>4, <1>5, <1>6, <1>7 DEF Transaction, tables, insert_user,
     approve_user_with_setup, complete_registration, complete_authentication, SessionWrite,
     delete_session, create_recovery, issue_recovery_setup

(* An invalidation sets consumed_at of capabilities only. *)
LEMMA ConsumedCapabilityRows ==
    ASSUME TablesTypeOK, NEW u
    PROVE  \A k \in CapabilityId :
              /\ ConsumeCapabilities(u)[k].user = capabilities[k].user
              /\ ConsumeCapabilities(u)[k].purpose = capabilities[k].purpose
              /\ ConsumeCapabilities(u)[k].epoch = capabilities[k].epoch
              /\ ConsumeCapabilities(u)[k].status =
                    IF capabilities[k].user = u /\ capabilities[k].status = "open"
                    THEN "consumed" ELSE capabilities[k].status
              /\ capabilities[k].status = "absent" => ConsumeCapabilities(u)[k] = capabilities[k]
  BY DEF TablesTypeOK, ConsumeCapabilities, CapabilityRow

(* A capability row is inserted under a fresh identifier, and every UPDATE  *)
(* of auth_capabilities sets consumed_at only.                              *)
LEMMA CapabilityHistory ==
    ASSUME TablesTypeOK, Transaction
    PROVE  CapabilitiesKeep
<1>1. ASSUME NEW k \in CapabilityId, NEW row, NEW table, capabilities[k].status = "absent",
             table \in [CapabilityId -> CapabilityRow],
             \A j \in CapabilityId :
                /\ capabilities[j].status # "absent" =>
                      /\ table[j].status # "absent" /\ table[j].user = capabilities[j].user
                      /\ table[j].purpose = capabilities[j].purpose
                      /\ table[j].epoch = capabilities[j].epoch
                /\ table[j].status = "absent" => table[j] = capabilities[j],
             capabilities' = [table EXCEPT ![k] = row], row.status = "open"
      PROVE  CapabilitiesKeep
  BY <1>1 DEF CapabilitiesKeep
<1>2. ASSUME NEW u \in UserId, NEW k \in CapabilityId, NEW expires \in Nat, NEW now \in Nat,
             NEW time \in Nat, approve_user_with_setup(u, k, expires, now, time)
      PROVE  CapabilitiesKeep
  BY <1>1, <1>2 DEF approve_user_with_setup, InsertCapability, TablesTypeOK
<1>3. ASSUME NEW r \in RecoveryId, NEW u \in UserId, NEW k \in CapabilityId,
             NEW expires \in Nat, NEW time \in Nat, issue_recovery_setup(r, k, u, expires, time)
      PROVE  CapabilitiesKeep
  BY <1>1, <1>3 DEF issue_recovery_setup, InsertCapability, TablesTypeOK
<1>4. ASSUME NEW c \in CredentialId, NEW u \in UserId, NEW k \in CapabilityId,
             NEW expires \in Nat, NEW time \in Nat, break_glass(c, u, k, expires, time)
      PROVE  CapabilitiesKeep
  <2>1. ConsumeCapabilities(u) \in [CapabilityId -> CapabilityRow]
    BY InvalidationTypes
  <2>2. \A j \in CapabilityId :
           /\ capabilities[j].status # "absent" =>
                 /\ ConsumeCapabilities(u)[j].status # "absent"
                 /\ ConsumeCapabilities(u)[j].user = capabilities[j].user
                 /\ ConsumeCapabilities(u)[j].purpose = capabilities[j].purpose
                 /\ ConsumeCapabilities(u)[j].epoch = capabilities[j].epoch
           /\ ConsumeCapabilities(u)[j].status = "absent" => ConsumeCapabilities(u)[j] = capabilities[j]
    BY ConsumedCapabilityRows
  <2> DEFINE row == [status |-> "open", user |-> u, purpose |-> "operator_recovery",
                     expires |-> expires, created |-> time, epoch |-> users[u].epoch + 1]
             table == ConsumeCapabilities(u)
  <2>3. /\ capabilities[k].status = "absent" /\ row.status = "open"
        /\ capabilities' = [table EXCEPT ![k] = row]
    BY <1>4 DEF break_glass, InsertCapability
  <2> HIDE DEF row, table
  <2> QED
    BY <1>1, <2>1, <2>2, <2>3 DEF table
<1>5. ASSUME NEW r \in RecoveryId, approve_recovery(r)
      PROVE  CapabilitiesKeep
  BY <1>5, ConsumedCapabilityRows DEF approve_recovery, CapabilitiesKeep
<1>6. CASE rotate_all_auth_epochs
  BY <1>6 DEF rotate_all_auth_epochs, CapabilitiesKeep, TablesTypeOK, CapabilityRow
<1>7. ASSUME NEW m \in CeremonyId, NEW c \in CredentialId, NEW now \in Nat,
             complete_registration(m, ceremonies[m].capability, c, now)
      PROVE  CapabilitiesKeep
  <2> DEFINE k == ceremonies[m].capability
  <2>1. CASE k = None
    BY <1>7, <2>1 DEF complete_registration, CapabilitiesKeep
  <2>2. CASE k # None
    <3>1. k \in CapabilityId /\ capabilities' = [capabilities EXCEPT ![k].status = "consumed"]
      BY <1>7, <2>2 DEF complete_registration, TablesTypeOK, CeremonyRow
    <3> HIDE DEF k
    <3> QED
      BY <3>1 DEF CapabilitiesKeep, TablesTypeOK, CapabilityRow
  <2> QED
    BY <2>1, <2>2
<1>8. ASSUME UNCHANGED capabilities
      PROVE  CapabilitiesKeep
  BY <1>8 DEF CapabilitiesKeep
<1> QED
  BY <1>2, <1>3, <1>4, <1>5, <1>6, <1>7, <1>8 DEF Transaction, tables, insert_user,
     insert_ceremony, complete_authentication, SessionWrite, delete_session, create_recovery

(* Only complete_authentication inserts a session. *)
LEMMA SessionHistory ==
    ASSUME TablesTypeOK, Transaction
    PROVE  SessionsKeep
<1>1. ASSUME NEW r \in RecoveryId, approve_recovery(r)
      PROVE  SessionsKeep
  BY <1>1 DEF approve_recovery, RevokeSessions, SessionsKeep, TablesTypeOK, SessionRow
<1>2. ASSUME NEW c \in CredentialId, NEW u \in UserId, NEW k \in CapabilityId,
             NEW expires \in Nat, NEW time \in Nat, break_glass(c, u, k, expires, time)
      PROVE  SessionsKeep
  BY <1>2 DEF break_glass, RevokeSessions, SessionsKeep, TablesTypeOK, SessionRow
<1>3. CASE rotate_all_auth_epochs
  BY <1>3 DEF rotate_all_auth_epochs, SessionsKeep, TablesTypeOK, SessionRow
<1>4. ASSUME NEW s \in SessionId, SessionWrite(s)
      PROVE  SessionsKeep
  BY <1>4 DEF SessionWrite, SessionsKeep
<1>5. ASSUME NEW s \in SessionId, delete_session(s)
      PROVE  SessionsKeep
  BY <1>5 DEF delete_session, SessionsKeep, TablesTypeOK, SessionRow
<1>6. ASSUME NEW m \in CeremonyId, NEW c \in CredentialId, NEW s \in SessionId,
             NEW row \in SessionRow, NEW now \in Nat, row.status = "live",
             complete_authentication(m, c, s, row, now)
      PROVE  SessionsKeep
  BY <1>6 DEF complete_authentication, SessionsKeep, TablesTypeOK
<1>7. ASSUME UNCHANGED sessions
      PROVE  SessionsKeep
  BY <1>7 DEF SessionsKeep
<1> QED
  BY <1>1, <1>2, <1>3, <1>4, <1>5, <1>6, <1>7 DEF Transaction, tables, insert_user,
     approve_user_with_setup, insert_ceremony, complete_registration, create_recovery,
     issue_recovery_setup

-----------------------------------------------------------------------------
(* Recoveries.                                                              *)

(* Identifiers not in use refer to nothing. *)
AbsentRowsAreEmpty ==
    /\ \A c \in CredentialId : credentials[c].status = "absent" =>
          credentials[c].user = None /\ credentials[c].ceremony = None
    /\ \A k \in CapabilityId : capabilities[k].status = "absent" => capabilities[k].user = None
    /\ \A s \in SessionId : sessions[s].status = "absent" => sessions[s].user = None

(* The epoch that a recovery's approval established is not in the future. *)
RecoveriesAreCurrent ==
    \A r \in RecoveryId : recoveries[r].stage # "absent" =>
        recoveries[r].epoch <= users[recoveries[r].user].epoch

(* No transaction frees an identifier. *)
LEMMA AbsentRowsStayEmpty ==
    ASSUME TablesTypeOK, AbsentRowsAreEmpty, Transaction
    PROVE  AbsentRowsAreEmpty'
<1>1. CredentialsKeep /\ CapabilitiesKeep /\ SessionsKeep
  BY CredentialHistory, CapabilityHistory, SessionHistory
<1> QED
  BY <1>1 DEF AbsentRowsAreEmpty, CredentialsKeep, CapabilitiesKeep, SessionsKeep

(* auth_epoch never decreases. *)
LEMMA EpochsGrow ==
    ASSUME TablesInv, SessionTablesInv, Transaction, NEW v \in UserId
    PROVE  users[v].epoch <= users'[v].epoch
<1>0. TablesTypeOK /\ users[v].epoch \in Nat
  BY DEF TablesInv, TablesTypeOK, UserRow
<1>1. ASSUME NEW u \in UserId, NEW row, users[u].role = "absent", row.epoch = 1,
             users' = [users EXCEPT ![u] = row]
      PROVE  users[v].epoch <= users'[v].epoch
  <2>1. users[u].epoch = 0
    BY <1>1 DEF SessionTablesInv, EpochCountsInvalidations, Users
  <2> QED
    BY <1>0, <1>1, <2>1 DEF TablesTypeOK
<1>2. ASSUME NEW u \in UserId, NEW now \in Nat, insert_user(u, now)
      PROVE  users[v].epoch <= users'[v].epoch
  BY <1>1, <1>2 DEF insert_user
<1>3. ASSUME NEW u \in UserId, NEW k \in CapabilityId, NEW expires \in Nat, NEW now \in Nat,
             NEW time \in Nat, approve_user_with_setup(u, k, expires, now, time)
      PROVE  users[v].epoch <= users'[v].epoch
  BY <1>1, <1>3 DEF approve_user_with_setup
<1>4. ASSUME NEW r \in RecoveryId, approve_recovery(r)
      PROVE  users[v].epoch <= users'[v].epoch
  <2>1. recoveries[r].user \in UserId
    BY <1>4 DEF approve_recovery, TablesInv, LiveRowsHaveUsers, Users
  <2> QED
    BY <1>0, <1>4, <2>1, AdvancedUsers DEF approve_recovery
<1>5. ASSUME NEW c \in CredentialId, NEW u \in UserId, NEW k \in CapabilityId,
             NEW expires \in Nat, NEW time \in Nat, break_glass(c, u, k, expires, time)
      PROVE  users[v].epoch <= users'[v].epoch
  BY <1>0, <1>5, AdvancedUsers DEF break_glass
<1>6. CASE rotate_all_auth_epochs
  BY <1>0, <1>6, RotatedRows
<1>7. ASSUME UNCHANGED users
      PROVE  users[v].epoch <= users'[v].epoch
  BY <1>0, <1>7
<1> QED
  BY <1>2, <1>3, <1>4, <1>5, <1>6, <1>7 DEF Transaction, tables, insert_ceremony,
     complete_registration, complete_authentication, SessionWrite, delete_session,
     create_recovery, issue_recovery_setup

(* A recovery is inserted or approved, completed by a registration of its   *)
(* user, or keeps its user and epoch.                                       *)
LEMMA RecoveryHistory ==
    ASSUME TablesInv, Transaction, NEW r \in RecoveryId
    PROVE  \/ /\ recoveries'[r].user = recoveries[r].user
              /\ recoveries'[r].epoch = recoveries[r].epoch
              /\ recoveries'[r].stage # "absent" => recoveries[r].stage # "absent"
              /\ recoveries'[r].stage = "completed" => recoveries[r].stage = "completed"
           \/ /\ recoveries'[r].stage # "completed"
              /\ recoveries'[r].epoch <= users'[recoveries'[r].user].epoch
           \/ /\ recoveries[r].stage = "issued"
              /\ recoveries'[r].user = recoveries[r].user
              /\ recoveries'[r].epoch = recoveries[r].epoch
              /\ \E m \in CeremonyId, c \in CredentialId, now \in Nat :
                    /\ ceremonies[m].kind # "authentication"
                    /\ complete_registration(m, ceremonies[m].capability, c, now)
                    /\ ceremonies[m].user = recoveries[r].user
<1> DEFINE Same == /\ recoveries'[r].user = recoveries[r].user
                   /\ recoveries'[r].epoch = recoveries[r].epoch
                   /\ recoveries'[r].stage # "absent" => recoveries[r].stage # "absent"
                   /\ recoveries'[r].stage = "completed" => recoveries[r].stage = "completed"
           Current == /\ recoveries'[r].stage # "completed"
                      /\ recoveries'[r].epoch <= users'[recoveries'[r].user].epoch
<1>0. TablesTypeOK
  BY DEF TablesInv
<1>1. ASSUME NEW q \in RecoveryId, NEW u \in UserId, create_recovery(q, u)
      PROVE  Same \/ Current
  <2>1. users'[u].epoch \in Nat
    BY <1>0, <1>1 DEF create_recovery, TablesTypeOK, UserRow
  <2>2. recoveries' = [recoveries EXCEPT ![q] = [stage |-> "pending", user |-> u, epoch |-> 0]]
    BY <1>1 DEF create_recovery
  <2> QED
    BY <1>0, <2>1, <2>2 DEF TablesTypeOK
<1>2. ASSUME NEW q \in RecoveryId, approve_recovery(q)
      PROVE  Same \/ Current
  <2>1. /\ recoveries[q].user \in UserId /\ recoveries[q].stage = "pending"
        /\ users' = AdvanceEpoch(recoveries[q].user)
        /\ recoveries' = [recoveries EXCEPT ![q].stage = "approved",
                                            ![q].epoch = users[recoveries[q].user].epoch + 1]
    BY <1>2 DEF approve_recovery, TablesInv, LiveRowsHaveUsers, Users
  <2>2. /\ users'[recoveries[q].user].epoch = users[recoveries[q].user].epoch + 1
        /\ users[recoveries[q].user].epoch + 1 \in Nat
    BY <1>0, <2>1, AdvancedUsers DEF TablesTypeOK, UserRow
  <2>3. CASE r = q
    BY <1>0, <2>1, <2>2, <2>3 DEF TablesTypeOK, RecoveryRow
  <2>4. CASE r # q
    BY <1>0, <2>1, <2>4 DEF TablesTypeOK
  <2> QED
    BY <2>3, <2>4
<1>3. ASSUME NEW q \in RecoveryId, NEW u \in UserId, NEW k \in CapabilityId,
             NEW expires \in Nat, NEW time \in Nat, issue_recovery_setup(q, k, u, expires, time)
      PROVE  Same
  BY <1>0, <1>3 DEF issue_recovery_setup, TablesTypeOK, RecoveryRow
<1>4. ASSUME NEW m \in CeremonyId, NEW c \in CredentialId, NEW now \in Nat,
             ceremonies[m].kind # "authentication",
             complete_registration(m, ceremonies[m].capability, c, now)
      PROVE  \/ Same
             \/ /\ recoveries[r].stage = "issued"
                /\ recoveries'[r].user = recoveries[r].user
                /\ recoveries'[r].epoch = recoveries[r].epoch
                /\ ceremonies[m].user = recoveries[r].user
  <2>1. recoveries'[r] = IF recoveries[r].user = ceremonies[m].user /\ recoveries[r].stage = "issued"
                         THEN [recoveries[r] EXCEPT !.stage = "completed"] ELSE recoveries[r]
    BY <1>4 DEF complete_registration
  <2> QED
    BY <1>0, <2>1 DEF TablesTypeOK, RecoveryRow
<1>5. ASSUME UNCHANGED recoveries
      PROVE  Same
  BY <1>5
<1> HIDE DEF Same, Current
<1>6. \/ Same \/ Current
      \/ /\ recoveries[r].stage = "issued"
         /\ recoveries'[r].user = recoveries[r].user
         /\ recoveries'[r].epoch = recoveries[r].epoch
         /\ \E m \in CeremonyId, c \in CredentialId, now \in Nat :
               /\ ceremonies[m].kind # "authentication"
               /\ complete_registration(m, ceremonies[m].capability, c, now)
               /\ ceremonies[m].user = recoveries[r].user
  BY <1>1, <1>2, <1>3, <1>4, <1>5 DEF Transaction, tables, insert_user, approve_user_with_setup,
     insert_ceremony, complete_authentication, SessionWrite, delete_session, break_glass,
     rotate_all_auth_epochs
<1> QED
  BY <1>6 DEF Same, Current

(* Every transaction preserves RecoveriesAreCurrent. *)
LEMMA RecoveriesStayCurrent ==
    ASSUME TablesInv, SessionTablesInv, RecoveriesAreCurrent, Transaction, TablesTypeOK'
    PROVE  RecoveriesAreCurrent'
<1> SUFFICES ASSUME NEW r \in RecoveryId, recoveries'[r].stage # "absent"
             PROVE  recoveries'[r].epoch <= users'[recoveries'[r].user].epoch
  BY DEF RecoveriesAreCurrent
<1>1. ASSUME recoveries[r].stage # "absent", recoveries'[r].user = recoveries[r].user,
             recoveries'[r].epoch = recoveries[r].epoch
      PROVE  recoveries'[r].epoch <= users'[recoveries'[r].user].epoch
  <2>1. recoveries[r].user \in Users /\ recoveries[r].user \in UserId
    BY <1>1 DEF TablesInv, LiveRowsHaveUsers, Users
  <2>2. /\ recoveries[r].epoch <= users[recoveries[r].user].epoch
        /\ users[recoveries[r].user].epoch <= users'[recoveries[r].user].epoch
    BY <1>1, <2>1, EpochsGrow DEF RecoveriesAreCurrent
  <2>3. users'[recoveries[r].user].epoch \in Nat
    BY <2>1 DEF TablesTypeOK, UserRow
  <2> QED
    BY <1>1, <2>1, <2>2, <2>3 DEF TablesInv, TablesTypeOK, RecoveryRow, UserRow
<1> QED
  BY <1>1, RecoveryHistory

(* The capability that registered a passkey stays the same. *)
LEMMA CapabilityKept ==
    ASSUME TablesInv, Transaction, NEW c \in CredentialId, credentials[c].status # "absent"
    PROVE  CapabilityOf(c)' = CapabilityOf(c)
<1>1. /\ credentials'[c].ceremony = credentials[c].ceremony
      /\ credentials[c].ceremony \in CeremonyId \cup {None} /\ CeremoniesKeep
  BY CredentialHistory, CeremonyHistory DEF CredentialsKeep, TablesInv, TablesTypeOK, CredentialRow
<1> QED
  BY <1>1 DEF TablesInv, PasskeysAreSpent, CeremoniesKeep, CapabilityOf

(* A completed recovery keeps its passkey, and a registration that completes *)
(* recoveries is by a capability of the present epoch.                       *)
LEMMA RecoveriesStayFresh ==
    ASSUME TablesInv, SessionTablesInv, CeremonyServesCapability, AbsentRowsAreEmpty,
           RecoveriesAreCurrent, CompletedRecoveryHasFreshPasskey, Transaction
    PROVE  CompletedRecoveryHasFreshPasskey'
<1>0. TablesTypeOK
  BY DEF TablesInv
<1> SUFFICES ASSUME NEW r \in RecoveryId, recoveries'[r].stage = "completed"
             PROVE  \E c \in CredentialId :
                       /\ credentials'[c].user = recoveries'[r].user
                       /\ credentials'[c].epoch >= recoveries'[r].epoch
                       /\ CapabilityOf(c)' # None =>
                             capabilities'[CapabilityOf(c)'].epoch >= recoveries'[r].epoch
  BY DEF CompletedRecoveryHasFreshPasskey
<1>1. ASSUME recoveries[r].stage = "completed", recoveries'[r].user = recoveries[r].user,
             recoveries'[r].epoch = recoveries[r].epoch
      PROVE  \E c \in CredentialId :
                /\ credentials'[c].user = recoveries'[r].user
                /\ credentials'[c].epoch >= recoveries'[r].epoch
                /\ CapabilityOf(c)' # None =>
                      capabilities'[CapabilityOf(c)'].epoch >= recoveries'[r].epoch
  <2>1. PICK c \in CredentialId :
           /\ credentials[c].user = recoveries[r].user
           /\ credentials[c].epoch >= recoveries[r].epoch
           /\ CapabilityOf(c) # None => capabilities[CapabilityOf(c)].epoch >= recoveries[r].epoch
    BY <1>1 DEF CompletedRecoveryHasFreshPasskey
  <2>2. credentials[c].status # "absent"
    <3>1. recoveries[r].user \in UserId
      BY <1>1 DEF TablesInv, LiveRowsHaveUsers, Users
    <3> QED
      BY <2>1, <3>1, NoneAssumption DEF AbsentRowsAreEmpty
  <2>3. credentials'[c].user = credentials[c].user /\ credentials'[c].epoch = credentials[c].epoch
    BY <1>0, <2>2, CredentialHistory DEF CredentialsKeep
  <2>4. CapabilityOf(c)' = CapabilityOf(c)
    BY <2>2, CapabilityKept
  <2>5. CapabilityOf(c) # None =>
           capabilities'[CapabilityOf(c)].epoch = capabilities[CapabilityOf(c)].epoch
    <3>1. CapabilityOf(c) \in CapabilityId \cup {None}
      BY <1>0 DEF CapabilityOf, TablesTypeOK, CredentialRow, CeremonyRow
    <3>2. CapabilitiesKeep
      BY <1>0, CapabilityHistory
    <3> QED
      BY <3>1, <3>2 DEF CapabilitiesKeep, TablesInv, PasskeysAreSpent
  <2> QED
    BY <1>1, <2>1, <2>3, <2>4, <2>5
<1>2. ASSUME NEW m \in CeremonyId, NEW c \in CredentialId, NEW now \in Nat,
             ceremonies[m].kind # "authentication",
             complete_registration(m, ceremonies[m].capability, c, now),
             ceremonies[m].user = recoveries[r].user, recoveries[r].stage = "issued",
             recoveries'[r].user = recoveries[r].user, recoveries'[r].epoch = recoveries[r].epoch
      PROVE  \E d \in CredentialId :
                /\ credentials'[d].user = recoveries'[r].user
                /\ credentials'[d].epoch >= recoveries'[r].epoch
                /\ CapabilityOf(d)' # None =>
                      capabilities'[CapabilityOf(d)'].epoch >= recoveries'[r].epoch
  <2> DEFINE u == ceremonies[m].user
             k == ceremonies[m].capability
  <2>1. /\ credentials'[c].user = u /\ credentials'[c].epoch = users[u].epoch
        /\ credentials'[c].ceremony = m /\ ceremonies'[m].capability = k
        /\ ceremonies[m].status = "open"
    BY <1>0, <1>2 DEF complete_registration, RegistrationCommits, CeremonyOpen, TablesTypeOK, CeremonyRow
  <2>2. u \in UserId /\ recoveries[r].epoch <= users[u].epoch
    BY <1>2 DEF RecoveriesAreCurrent, TablesInv, LiveRowsHaveUsers, Users
  <2>3. recoveries[r].epoch \in Nat /\ users[u].epoch \in Nat
    BY <1>0, <2>2 DEF TablesTypeOK, RecoveryRow, UserRow
  <2>4. CapabilityOf(c)' = k
    BY <2>1, NoneAssumption DEF CapabilityOf
  <2>5. ASSUME k # None PROVE capabilities'[k].epoch = users[u].epoch
    <3>1. k \in CapabilityId
      BY <1>0, <2>5 DEF TablesTypeOK, CeremonyRow
    <3>2. capabilities[k].status = "open"
      BY <1>2, <2>5 DEF complete_registration, RegistrationCommits, CapabilityOpen
    <3>3. capabilities[k].user = u
      BY <2>1, <2>5 DEF CeremonyServesCapability
    <3>4. capabilities[k].epoch = users[u].epoch
      BY <3>1, <3>2, <3>3 DEF TablesInv, OpenCapabilityIsCurrent
    <3> QED
      BY <1>0, <3>1, <3>2, <3>4, CapabilityHistory DEF CapabilitiesKeep
  <2> QED
    BY <1>2, <2>1, <2>2, <2>3, <2>4, <2>5
<1> QED
  BY <1>1, <1>2, RecoveryHistory

-----------------------------------------------------------------------------
(* The invariant.                                                           *)

RegistrationTablesInv ==
    /\ AbsentRowsAreEmpty
    /\ RecoveriesAreCurrent
    /\ CompletedRecoveryHasFreshPasskey

(* In the initial tables nobody recovers. *)
LEMMA RegistrationTablesInit == Init => RegistrationTablesInv
<1> SUFFICES ASSUME Init PROVE RegistrationTablesInv
  OBVIOUS
<1>1. AbsentRowsAreEmpty
  BY DEF Init, AbsentRowsAreEmpty, NoCredential, NoCapability, NoSession
<1>2. RecoveriesAreCurrent /\ CompletedRecoveryHasFreshPasskey
  BY DEF Init, RecoveriesAreCurrent, CompletedRecoveryHasFreshPasskey, NoRecovery
<1> QED
  BY <1>1, <1>2 DEF RegistrationTablesInv

(* Every step preserves it. *)
LEMMA RegistrationTablesNext ==
    SessionInv /\ SessionInv' /\ RegistrationTablesInv /\ [Next]_vars => RegistrationTablesInv'
<1> SUFFICES ASSUME SessionInv, SessionInv', RegistrationTablesInv, [Next]_vars
             PROVE  RegistrationTablesInv'
  OBVIOUS
<1>1. /\ TablesInv /\ TablesTypeOK /\ TablesTypeOK' /\ SessionTablesInv /\ CeremonyServesCapability
      /\ Transaction
  BY StepIsTransaction DEF SessionInv, RegistrationInv, TypeOK
<1>2. AbsentRowsAreEmpty'
  BY <1>1, AbsentRowsStayEmpty DEF RegistrationTablesInv
<1>3. RecoveriesAreCurrent'
  BY <1>1, RecoveriesStayCurrent DEF RegistrationTablesInv
<1>4. CompletedRecoveryHasFreshPasskey'
  BY <1>1, RecoveriesStayFresh DEF RegistrationTablesInv
<1> QED
  BY <1>2, <1>3, <1>4 DEF RegistrationTablesInv

(* Identifiers not in use are empty, recoveries carry epochs that have been *)
(* reached, and a completed recovery has its passkey.                       *)
THEOREM RegistrationTablesInvariant == Spec => []RegistrationTablesInv
  BY RegistrationTablesInit, RegistrationTablesNext, SessionInvariant, PTL DEF Spec

(* A recovery that complete_registration marked completed has a passkey of  *)
(* its user registered since its approval, by a capability not issued       *)
(* before it: an open capability is current, and every row keeps its epoch. *)
THEOREM CompletedRecoveriesHaveFreshPasskeys == Spec => []CompletedRecoveryHasFreshPasskey
<1>1. RegistrationTablesInv => CompletedRecoveryHasFreshPasskey
  BY DEF RegistrationTablesInv
<1> QED
  BY <1>1, RegistrationTablesInvariant, PTL

-----------------------------------------------------------------------------
(* The service implements TokenAuthority.                                   *)

(* The transactions that insert and revoke passkeys. *)
Registration ==
    \E m \in CeremonyId, c \in CredentialId, now \in Nat :
        /\ ceremonies[m].kind # "authentication"
        /\ complete_registration(m, ceremonies[m].capability, c, now)

WindowOpening ==
    \E c \in CredentialId, u \in UserId, k \in CapabilityId, expires, time \in Nat :
        break_glass(c, u, k, expires, time)

(* Users are enrolled in the abstract sense if they have a row. *)
LEMMA TokenHolders ==
    ASSUME TablesTypeOK, EpochCountsInvalidations
    PROVE  Tokens!EnrolledUsers = Users
<1>1. ASSUME NEW u \in UserId
      PROVE  EpochView[u] = users[u].epoch /\ (users[u].epoch > 0 <=> u \in Users)
  BY InvalidationsType DEF EpochView, EpochCountsInvalidations
<1> QED
  BY <1>1 DEF Tokens!EnrolledUsers, Users

(* The open tokens of the abstract view are the open capabilities. *)
LEMMA OpenTokensOf ==
    ASSUME NEW U, NEW k \in CapabilityId
    PROVE  k \in Tokens!OpenTokens(U) <=>
              capabilities[k].status = "open" /\ capabilities[k].user \in U
  BY DEF Tokens!OpenTokens, TokenView, TokenState

(* No passkey was registered with an open capability or an unissued one. *)
LEMMA OpenIsUnspent ==
    ASSUME TablesInv, NEW c \in CredentialId, NEW k \in CapabilityId, CapabilityOf(c) = k
    PROVE  capabilities[k].status = "consumed"
  BY NoneAssumption DEF TablesInv, PasskeysAreSpent

(* Transactions that register no passkey keep what each was paid for with. *)
LEMMA TokenPasskeysKept ==
    ASSUME TablesInv, AbsentRowsAreEmpty, Transaction,
           \A c \in CredentialId : credentials[c].status = "absent" => credentials'[c] = credentials[c]
    PROVE  /\ \A c \in CredentialId : CapabilityOf(c)' = CapabilityOf(c)
           /\ TokenPasskeyView' = TokenPasskeyView
<1>1. CredentialsKeep
  BY CredentialHistory DEF TablesInv
<1>2. ASSUME NEW c \in CredentialId
      PROVE  /\ CapabilityOf(c)' = CapabilityOf(c) /\ credentials'[c].user = credentials[c].user
             /\ credentials'[c].status = "absent" <=> credentials[c].status = "absent"
  <2>1. CASE credentials[c].status # "absent"
    BY <1>1, <2>1, CapabilityKept DEF CredentialsKeep
  <2>2. CASE credentials[c].status = "absent"
    BY <2>2 DEF AbsentRowsAreEmpty, CapabilityOf
  <2> QED
    BY <2>1, <2>2
<1> QED
  BY <1>2 DEF TokenPasskeyView

(* Transactions that write no capability and register no passkey. *)
LEMMA TokensStay ==
    ASSUME UNCHANGED capabilities, \A c \in CredentialId : CapabilityOf(c)' = CapabilityOf(c)
    PROVE  TokenView' = TokenView
  BY DEF TokenView, TokenState

(* Enrolment of an operator. *)
LEMMA EpochsEnroll ==
    ASSUME TablesTypeOK, SessionTablesInv, NEW u \in UserId, users[u].role = "absent",
           NEW role, NEW now,
           users' = [users EXCEPT ![u] = [role |-> role, epoch |-> 1, created |-> now]]
    PROVE  u \notin Tokens!EnrolledUsers /\ EpochView' = [EpochView EXCEPT ![u] = 1]
<1>1. u \notin Tokens!EnrolledUsers
  BY TokenHolders DEF SessionTablesInv, Users
<1>2. EpochView' = [EpochView EXCEPT ![u] = 1]
  BY DEF EpochView, TablesTypeOK
<1> QED
  BY <1>1, <1>2

(* A capability inserted under a fresh identifier is an open token. *)
LEMMA TokenInserted ==
    ASSUME TablesInv, NEW k \in CapabilityId, NEW u, NEW row, row.status = "open", row.user = u,
           capabilities' = [capabilities EXCEPT ![k] = row],
           \A c \in CredentialId : CapabilityOf(c)' = CapabilityOf(c)
    PROVE  TokenView' = [TokenView EXCEPT ![k] = [state |-> "open", user |-> u]]
<1>1. TokenState(k)' = "open" /\ capabilities'[k].user = u
  BY DEF TokenState, TablesInv, TablesTypeOK
<1>2. ASSUME NEW j \in CapabilityId, j # k
      PROVE  TokenState(j)' = TokenState(j) /\ capabilities'[j].user = capabilities[j].user
  BY <1>2 DEF TokenState, TablesInv, TablesTypeOK
<1> QED
  BY <1>1, <1>2 DEF TokenView

(* An invalidation voids the open tokens of its users, the others stay. *)
LEMMA TokensVoided ==
    ASSUME TablesInv, NEW U, NEW j \in CapabilityId,
           \A c \in CredentialId : CapabilityOf(c)' = CapabilityOf(c),
           capabilities'[j].user = capabilities[j].user,
           capabilities'[j].status = IF capabilities[j].user \in U /\ capabilities[j].status = "open"
                                     THEN "consumed" ELSE capabilities[j].status
    PROVE  TokenView'[j] = Tokens!Voided(U)[j]
<1>1. CASE capabilities[j].user \in U /\ capabilities[j].status = "open"
  <2>1. \A c \in CredentialId : CapabilityOf(c) # j
    BY <1>1, OpenIsUnspent
  <2>2. TokenState(j) = "open" /\ TokenState(j)' = "void"
    BY <1>1, <2>1 DEF TokenState
  <2>3. j \in Tokens!OpenTokens(U)
    BY <1>1, OpenTokensOf
  <2> QED
    BY <2>2, <2>3 DEF TokenView, Tokens!Voided
<1>2. CASE ~(capabilities[j].user \in U /\ capabilities[j].status = "open")
  <2>1. TokenState(j)' = TokenState(j)
    BY <1>2 DEF TokenState
  <2>2. j \notin Tokens!OpenTokens(U)
    BY <1>2, OpenTokensOf
  <2> QED
    BY <2>1, <2>2 DEF TokenView, Tokens!Voided
<1> QED
  BY <1>1, <1>2

(* A registration redeems its capability, or is the operator's bootstrap. *)
LEMMA TokensRegister ==
    ASSUME TablesInv, SessionTablesInv, CeremonyServesCapability, AbsentRowsAreEmpty, Transaction,
           NEW m \in CeremonyId, NEW c \in CredentialId, NEW now \in Nat,
           NEW u, u = ceremonies[m].user, NEW k, k = ceremonies[m].capability,
           ceremonies[m].kind # "authentication", complete_registration(m, k, c, now)
    PROVE  Tokens!Next
<1>0. TablesTypeOK /\ k \in CapabilityId \cup {None}
  BY DEF TablesInv, TablesTypeOK, CeremonyRow
<1>1. /\ credentials[c].status = "absent" /\ credentials'[c].status = "live"
      /\ credentials'[c].user = u /\ credentials'[c].ceremony = m
      /\ ceremonies[m].status = "open" /\ ceremonies'[m].capability = k
      /\ \A d \in CredentialId : d # c => credentials'[d] = credentials[d]
      /\ UNCHANGED users
      /\ k # None => capabilities[k].status = "open"
      /\ capabilities' = IF k = None THEN capabilities ELSE [capabilities EXCEPT ![k].status = "consumed"]
  BY <1>0 DEF complete_registration, RegistrationCommits, CeremonyOpen, CapabilityOpen, TablesTypeOK, CeremonyRow
<1>2. u \in Users /\ u \in UserId /\ u \in Tokens!EnrolledUsers
  BY <1>0, <1>1, TokenHolders DEF SessionTablesInv, CeremoniesHaveUsers, Users
<1>3. CapabilityOf(c) = None /\ CapabilityOf(c)' = k
  BY <1>1, NoneAssumption DEF AbsentRowsAreEmpty, CapabilityOf
<1>4. ASSUME NEW d \in CredentialId, d # c
      PROVE  CapabilityOf(d)' = CapabilityOf(d) /\ credentials'[d] = credentials[d]
  <2>1. CASE credentials[d].status # "absent"
    BY <1>1, <1>4, <2>1, CapabilityKept
  <2>2. CASE credentials[d].status = "absent"
    BY <1>1, <1>4, <2>2 DEF AbsentRowsAreEmpty, CapabilityOf
  <2> QED
    BY <2>1, <2>2
<1>5. /\ TokenPasskeyView[c].state = "none"
      /\ TokenPasskeyView' = [TokenPasskeyView EXCEPT ![c] =
            [state |-> "registered", user |-> u, token |-> k]]
  BY <1>1, <1>3, <1>4 DEF TokenPasskeyView
<1>6. EpochView' = EpochView
  BY <1>1 DEF EpochView
<1>7. CASE k = None
  <2>1. \A j \in CapabilityId : j # None
    BY NoneAssumption
  <2>2. \A j \in CapabilityId : (\E d \in CredentialId : CapabilityOf(d)' = j)
                                   <=> (\E d \in CredentialId : CapabilityOf(d) = j)
    BY <1>3, <1>4, <1>7, <2>1
  <2>3. TokenView' = TokenView
    BY <1>1, <1>7, <2>2 DEF TokenView, TokenState
  <2>4. Tokens!Bootstrap(c, u)
    BY <1>2, <1>5, <1>6, <1>7, <2>3 DEF Tokens!Bootstrap
  <2> QED
    BY <1>2, <2>4 DEF Tokens!Next
<1>8. CASE k # None
  <2>1. /\ k \in CapabilityId /\ capabilities[k].status = "open" /\ capabilities[k].user = u
        /\ capabilities' = [capabilities EXCEPT ![k].status = "consumed"]
    BY <1>0, <1>1, <1>8 DEF CeremonyServesCapability
  <2>2. k \in Tokens!OpenTokens({u})
    BY <2>1, OpenTokensOf
  <2>3. TokenState(k)' = "spent" /\ capabilities'[k].user = capabilities[k].user
    BY <1>0, <1>3, <2>1 DEF TokenState, TablesTypeOK, CapabilityRow
  <2>4. ASSUME NEW j \in CapabilityId, j # k
        PROVE  TokenState(j)' = TokenState(j) /\ capabilities'[j].user = capabilities[j].user
    <3>1. capabilities'[j] = capabilities[j]
      BY <1>0, <2>1, <2>4 DEF TablesTypeOK
    <3>2. (\E d \in CredentialId : CapabilityOf(d)' = j) <=> (\E d \in CredentialId : CapabilityOf(d) = j)
      BY <1>3, <1>4, <2>4, NoneAssumption
    <3> QED
      BY <3>1, <3>2 DEF TokenState
  <2>5. TokenView' = [TokenView EXCEPT ![k].state = "spent"]
    BY <2>1, <2>3, <2>4 DEF TokenView
  <2>6. Tokens!Redeem(k, c, u)
    BY <1>5, <1>6, <2>2, <2>5 DEF Tokens!Redeem
  <2> QED
    BY <1>2, <2>1, <2>6 DEF Tokens!Next
<1> QED
  BY <1>7, <1>8

(* approve_recovery voids the tokens of its user. *)
LEMMA TokensApprove ==
    ASSUME TablesInv, SessionTablesInv, NEW r \in RecoveryId, approve_recovery(r),
           NEW u, u = recoveries[r].user,
           \A c \in CredentialId : CapabilityOf(c)' = CapabilityOf(c),
           TokenPasskeyView' = TokenPasskeyView
    PROVE  Tokens!Next
<1>0. TablesTypeOK /\ u \in Users /\ u \in UserId
  BY DEF TablesInv, approve_recovery, LiveRowsHaveUsers, Users
<1>1. users' = AdvanceEpoch(u) /\ capabilities' = ConsumeCapabilities(u)
  BY DEF approve_recovery
<1>2. EpochView' = Tokens!Advanced({u})
  <2>1. \A v \in UserId : users'[v].epoch = IF v \in {u} THEN users[v].epoch + 1 ELSE users[v].epoch
    BY <1>0, <1>1, AdvancedUsers
  <2> QED
    BY <2>1 DEF EpochView, Tokens!Advanced
<1>3. ASSUME NEW j \in CapabilityId
      PROVE  TokenView'[j] = Tokens!Voided({u})[j]
  <2>1. /\ capabilities'[j].user = capabilities[j].user
        /\ capabilities'[j].status = IF capabilities[j].user \in {u} /\ capabilities[j].status = "open"
                                     THEN "consumed" ELSE capabilities[j].status
    BY <1>0, <1>1, ConsumedCapabilityRows
  <2> QED
    BY <2>1, TokensVoided
<1>4. TokenView' = Tokens!Voided({u})
  BY <1>3 DEF TokenView, Tokens!Voided
<1>5. {u} \in SUBSET Tokens!EnrolledUsers
  BY <1>0, TokenHolders DEF SessionTablesInv
<1>6. Tokens!Invalidate({u})
  BY <1>2, <1>4 DEF Tokens!Invalidate
<1> QED
  BY <1>5, <1>6 DEF Tokens!Next

(* rotate_all_auth_epochs voids every token. *)
LEMMA TokensRotate ==
    ASSUME TablesInv, SessionTablesInv, rotate_all_auth_epochs,
           \A c \in CredentialId : CapabilityOf(c)' = CapabilityOf(c),
           TokenPasskeyView' = TokenPasskeyView, NEW U, U = Users
    PROVE  Tokens!Next
<1>0. TablesTypeOK
  BY DEF TablesInv
<1>1. EpochView' = Tokens!Advanced(U)
  <2>1. \A v \in UserId : users'[v].epoch = IF v \in U THEN users[v].epoch + 1 ELSE users[v].epoch
    BY <1>0, RotatedRows
  <2> QED
    BY <2>1 DEF EpochView, Tokens!Advanced
<1>2. ASSUME NEW j \in CapabilityId
      PROVE  TokenView'[j] = Tokens!Voided(U)[j]
  <2>1. /\ capabilities'[j].user = capabilities[j].user
        /\ capabilities'[j].status = IF capabilities[j].status = "open"
                                     THEN "consumed" ELSE capabilities[j].status
    BY <1>0 DEF rotate_all_auth_epochs, TablesTypeOK, CapabilityRow
  <2>2. capabilities[j].status = "open" => capabilities[j].user \in U
    BY DEF TablesInv, LiveRowsHaveUsers
  <2> QED
    BY <2>1, <2>2, TokensVoided
<1>3. TokenView' = Tokens!Voided(U)
  BY <1>2 DEF TokenView, Tokens!Voided
<1>4. U \in SUBSET Tokens!EnrolledUsers
  BY <1>0, TokenHolders DEF SessionTablesInv
<1>5. Tokens!Invalidate(U)
  BY <1>1, <1>3 DEF Tokens!Invalidate
<1> QED
  BY <1>4, <1>5 DEF Tokens!Next

(* break_glass voids the operator's tokens and issues the window's. *)
LEMMA TokensReissue ==
    ASSUME TablesInv, SessionTablesInv, NEW c \in CredentialId, NEW u \in UserId,
           NEW k \in CapabilityId, NEW expires \in Nat, NEW time \in Nat,
           break_glass(c, u, k, expires, time),
           \A d \in CredentialId : CapabilityOf(d)' = CapabilityOf(d),
           TokenPasskeyView' = TokenPasskeyView
    PROVE  Tokens!Next
<1>0. TablesTypeOK /\ u \in Users
  BY DEF TablesInv, break_glass, LiveOperatorCredentials, CredentialsOf, Operators, Users
<1>1. /\ users' = AdvanceEpoch(u) /\ capabilities[k].status = "absent"
      /\ capabilities' = [ConsumeCapabilities(u) EXCEPT ![k] =
            [status |-> "open", user |-> u, purpose |-> "operator_recovery",
             expires |-> expires, created |-> time, epoch |-> users[u].epoch + 1]]
  BY DEF break_glass, InsertCapability
<1>2. EpochView' = Tokens!Advanced({u})
  <2>1. \A v \in UserId : users'[v].epoch = IF v \in {u} THEN users[v].epoch + 1 ELSE users[v].epoch
    BY <1>0, <1>1, AdvancedUsers
  <2> QED
    BY <2>1 DEF EpochView, Tokens!Advanced
<1>3. TokenView[k].state = "unissued"
  BY <1>1 DEF TokenView, TokenState
<1>4. /\ capabilities'[k].status = "open" /\ capabilities'[k].user = u
      /\ \A j \in CapabilityId : j # k => capabilities'[j] = ConsumeCapabilities(u)[j]
  BY <1>0, <1>1, InvalidationTypes
<1>5. TokenView'[k] = [state |-> "open", user |-> u]
  BY <1>4 DEF TokenView, TokenState
<1>6. ASSUME NEW j \in CapabilityId, j # k
      PROVE  TokenView'[j] = Tokens!Voided({u})[j]
  <2>1. /\ capabilities'[j].user = capabilities[j].user
        /\ capabilities'[j].status = IF capabilities[j].user \in {u} /\ capabilities[j].status = "open"
                                     THEN "consumed" ELSE capabilities[j].status
    BY <1>0, <1>4, <1>6, ConsumedCapabilityRows
  <2> QED
    BY <2>1, TokensVoided
<1>7. TokenView' = [Tokens!Voided({u}) EXCEPT ![k] = [state |-> "open", user |-> u]]
  <2>1. /\ TokenView' = [j \in CapabilityId |-> TokenView'[j]]
        /\ Tokens!Voided({u}) = [j \in CapabilityId |-> Tokens!Voided({u})[j]]
    BY DEF TokenView, Tokens!Voided
  <2> QED
    BY <1>5, <1>6, <2>1
<1>8. u \in Tokens!EnrolledUsers
  BY <1>0, TokenHolders DEF SessionTablesInv
<1>9. Tokens!Reissue(k, u)
  BY <1>2, <1>3, <1>7, <1>8 DEF Tokens!Reissue
<1> QED
  BY <1>9 DEF Tokens!Next

(* Every transaction is a step of TokenAuthority. *)
LEMMA TokensStep ==
    ASSUME TablesInv, SessionTablesInv, CeremonyServesCapability, AbsentRowsAreEmpty, Transaction
    PROVE  Tokens!Next \/ UNCHANGED Tokens!tokenVars
<1>0. TablesTypeOK
  BY DEF TablesInv
<1>1. CASE Registration
  BY <1>1, TokensRegister DEF Registration
<1>2. CASE ~Registration
  <2>1. /\ \A c \in CredentialId : CapabilityOf(c)' = CapabilityOf(c)
        /\ TokenPasskeyView' = TokenPasskeyView
    <3>1. UNCHANGED credentials \/ WindowOpening
      BY <1>2 DEF Transaction, tables, Registration, WindowOpening, insert_user,
         approve_user_with_setup, insert_ceremony, complete_authentication, SessionWrite,
         delete_session, create_recovery, approve_recovery, issue_recovery_setup,
         rotate_all_auth_epochs
    <3>2. \A c \in CredentialId : credentials[c].status = "absent" => credentials'[c] = credentials[c]
      BY <1>0, <3>1 DEF WindowOpening, break_glass, LiveOperatorCredentials, CredentialsOf,
         TablesTypeOK, CredentialRow
    <3> QED
      BY <3>2, TokenPasskeysKept
  <2>2. ASSUME NEW u \in UserId, NEW now \in Nat, insert_user(u, now)
        PROVE  Tokens!Next
    <3>1. u \notin Tokens!EnrolledUsers /\ EpochView' = [EpochView EXCEPT ![u] = 1]
      BY <1>0, <2>2, EpochsEnroll DEF insert_user
    <3>2. TokenView' = TokenView
      BY <2>1, <2>2, TokensStay DEF insert_user
    <3>3. Tokens!Enroll(u)
      BY <2>1, <3>1, <3>2 DEF Tokens!Enroll
    <3> QED
      BY <3>3 DEF Tokens!Next
  <2>3. ASSUME NEW u \in UserId, NEW k \in CapabilityId, NEW expires \in Nat, NEW now \in Nat,
               NEW time \in Nat, approve_user_with_setup(u, k, expires, now, time)
        PROVE  Tokens!Next
    <3>1. u \notin Tokens!EnrolledUsers /\ EpochView' = [EpochView EXCEPT ![u] = 1]
      BY <1>0, <2>3, EpochsEnroll DEF approve_user_with_setup
    <3>2. TokenView' = [TokenView EXCEPT ![k] = [state |-> "open", user |-> u]]
      BY <2>1, <2>3, TokenInserted DEF approve_user_with_setup, InsertCapability
    <3>3. TokenView[k].state = "unissued"
      BY <2>3 DEF approve_user_with_setup, TokenView, TokenState
    <3>4. Tokens!EnrollWithToken(k, u)
      BY <2>1, <3>1, <3>2, <3>3 DEF Tokens!EnrollWithToken
    <3> QED
      BY <3>4 DEF Tokens!Next
  <2>4. ASSUME NEW r \in RecoveryId, NEW u \in UserId, NEW k \in CapabilityId,
               NEW expires \in Nat, NEW time \in Nat, issue_recovery_setup(r, k, u, expires, time)
        PROVE  Tokens!Next
    <3>1. u \in Users
      BY <2>4 DEF issue_recovery_setup, TablesInv, LiveRowsHaveUsers
    <3>2. u \in Tokens!EnrolledUsers /\ EpochView' = EpochView
      BY <1>0, <2>4, <3>1, TokenHolders DEF SessionTablesInv, issue_recovery_setup, EpochView
    <3>3. TokenView' = [TokenView EXCEPT ![k] = [state |-> "open", user |-> u]]
      BY <2>1, <2>4, TokenInserted DEF issue_recovery_setup, InsertCapability
    <3>4. TokenView[k].state = "unissued"
      BY <2>4 DEF issue_recovery_setup, TokenView, TokenState
    <3>5. Tokens!Issue(k, u)
      BY <2>1, <3>2, <3>3, <3>4 DEF Tokens!Issue
    <3> QED
      BY <3>5 DEF Tokens!Next
  <2>5. ASSUME NEW r \in RecoveryId, approve_recovery(r)
        PROVE  Tokens!Next
    BY <2>1, <2>5, TokensApprove
  <2>6. CASE WindowOpening
    BY <2>1, <2>6, TokensReissue DEF WindowOpening
  <2>7. CASE rotate_all_auth_epochs
    BY <2>1, <2>7, TokensRotate
  <2>8. CASE UNCHANGED <<users, capabilities>>
    <3>1. EpochView' = EpochView
      BY <2>8 DEF EpochView
    <3>2. TokenView' = TokenView
      BY <2>1, <2>8, TokensStay
    <3> QED
      BY <2>1, <3>1, <3>2 DEF Tokens!tokenVars
  <2> QED
    BY <1>2, <2>2, <2>3, <2>4, <2>5, <2>6, <2>7, <2>8 DEF Transaction, tables, Registration,
       WindowOpening, insert_ceremony, complete_authentication, SessionWrite, delete_session,
       create_recovery
<1> QED
  BY <1>1, <1>2

(* No token is issued before the run. *)
LEMMA TokensInit == Init => Tokens!Init
<1> SUFFICES ASSUME Init PROVE Tokens!Init
  OBVIOUS
<1>1. \A u \in UserId : EpochView[u] \in {0, 1}
  BY DEF Init, EpochView, NoUser
<1>2. \A k \in CapabilityId : TokenView[k].state = "unissued"
  BY DEF Init, TokenView, TokenState, NoCapability
<1>3. \A c \in CredentialId : credentials[c].ceremony = None
  BY DEF Init, NoCredential
<1>4. \A c \in CredentialId :
         TokenPasskeyView[c].state \in {"none", "registered"} /\ TokenPasskeyView[c].token = None
  BY <1>3 DEF TokenPasskeyView, CapabilityOf
<1> QED
  BY <1>1, <1>2, <1>4 DEF Tokens!Init

(* However requests and commands interleave, AuthService implements         *)
(* TokenAuthority: a setup, recovery or break-glass token pays for at most  *)
(* one passkey of its own user, and an invalidation voids all tokens of the *)
(* user in one step, whatever ceremonies they have started.                 *)
THEOREM TokensImplementAuthority == Spec => ImplementsTokenAuthority
<1>1. SessionInv /\ RegistrationTablesInv /\ [Next]_vars => [Tokens!Next]_Tokens!tokenVars
  BY StepIsTransaction, TokensStep DEF SessionInv, RegistrationInv, RegistrationTablesInv
<1> QED
  BY <1>1, TokensInit, SessionInvariant, RegistrationTablesInvariant, PTL
     DEF Spec, ImplementsTokenAuthority, Tokens!Spec

=============================================================================
