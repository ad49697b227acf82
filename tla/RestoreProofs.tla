---------------------------- MODULE RestoreProofs ----------------------------
(***************************************************************************)
(* Proofs about Restore.                                                   *)
(*                                                                         *)
(* A restore invalidates what requests in flight remember, so the          *)
(* invariant of AuthProofs does not hold here: a frame may name a row that *)
(* the restore removed, or a user.  What remains is that identifiers are   *)
(* never used twice and that rows only grow older between restores.        *)
(***************************************************************************)
EXTENDS Restore, AuthProofs

(* The types of the tables, as far as they do not depend on what requests   *)
(* in flight remember.                                                      *)
StoreTypes ==
    /\ users \in [UserId -> UserRow]
    /\ DOMAIN credentials = CredentialId
    /\ capabilities \in [CapabilityId -> CapabilityRow]
    /\ ceremonies \in [CeremonyId -> CeremonyRow]
    /\ sessions \in [SessionId -> SessionRow]
    /\ audit \in [EventType -> [UserId -> Nat]]

(* The same of the backed-up tables, whose rows all were inserted once. *)
BackupTypes ==
    backup # NoBackup =>
        /\ backup.users \in [UserId -> UserRow]
        /\ DOMAIN backup.credentials = CredentialId
        /\ backup.capabilities \in [CapabilityId -> CapabilityRow]
        /\ backup.ceremonies \in [CeremonyId -> CeremonyRow]
        /\ backup.sessions \in [SessionId -> SessionRow]
        /\ backup.audit \in [EventType -> [UserId -> Nat]]
        /\ \A s \in SessionId : backup.sessions[s].status # "absent" => s \in issued
        /\ \A m \in CeremonyId : backup.ceremonies[m].status # "absent" => m \in issued
        /\ \A k \in CapabilityId : backup.capabilities[k].status # "absent" => k \in issued
        /\ \A c \in CredentialId : backup.credentials[c].status # "absent" => c \in issued
        /\ \A r \in RecoveryId : backup.recoveries[r].stage # "absent" => r \in issued

(* A request that finishes a ceremony names one that was inserted once. *)
FrameIsIssued(frame) ==
    frame.pc \in {"registration", "authentication"} =>
        frame.ceremony \in CeremonyId /\ frame.ceremony \in issued

FramesAreIssued == \A p \in Task : FrameIsIssued(task[p])

(* Since the rotation, what is open was inserted after it: a login from     *)
(* before holds no open ceremony, and a registration that does names the    *)
(* capability of the ceremony.                                              *)
OldIsDead ==
    /\ \A s \in SessionId \cap old : sessions[s].status = "revoked"
    /\ \A k \in CapabilityId \cap old : capabilities[k].status = "consumed"

EarlyLoginsFail ==
    \A p \in early : task[p].pc = "authentication" => ceremonies[task[p].ceremony].status # "open"

RegistrationsAgree ==
    \A p \in Task :
        (task[p].pc = "registration" /\ ceremonies[task[p].ceremony].status = "open")
            => ceremonies[task[p].ceremony].capability = task[p].capability

RestoreInv ==
    /\ StoreTypes /\ BackupTypes
    /\ clock \in Nat
    /\ task \in [Task -> Frame]
    /\ Inserted \subseteq issued
    /\ FramesAreIssued
    /\ phase = "rotated" =>
          /\ None \notin old /\ early \subseteq InFlight
          /\ OldIsDead /\ EarlyLoginsFail /\ RegistrationsAgree

-----------------------------------------------------------------------------
(* What the methods of the store do to rows.                                *)

(* What is revoked or consumed stays so, and a ceremony keeps its capability. *)
RowsAge ==
    /\ \A s \in SessionId : sessions[s].status = "revoked" => sessions'[s].status = "revoked"
    /\ \A k \in CapabilityId : capabilities[k].status = "consumed" => capabilities'[k].status = "consumed"
    /\ \A m \in CeremonyId :
          /\ ceremonies[m].status = "consumed" => ceremonies'[m].status = "consumed"
          /\ ceremonies[m].status # "absent" => ceremonies'[m].capability = ceremonies[m].capability

Ages == StoreTypes' /\ RowsAge

(* The audit trail keeps its type, even for a user that is none. *)
LEMMA AuditStays ==
    ASSUME StoreTypes, NEW event \in EventType, NEW u, insert_audit(event, u)
    PROVE  audit' \in [EventType -> [UserId -> Nat]]
<1>1. CASE u \in UserId
  BY <1>1 DEF StoreTypes, insert_audit
<1>2. CASE u \notin UserId
  BY <1>2 DEF StoreTypes, insert_audit
<1> QED
  BY <1>1, <1>2

(* insert_user inserts no row that a restore is about. *)
LEMMA insert_user_Ages ==
    ASSUME StoreTypes, NEW u \in UserId, NEW now \in Nat, insert_user(u, now)
    PROVE  Ages
<1>1. audit' \in [EventType -> [UserId -> Nat]]
  BY AuditStays DEF insert_user, EventType
<1>2. users' \in [UserId -> UserRow]
  BY DEF insert_user, StoreTypes, UserRow
<1> QED
  BY <1>1, <1>2 DEF insert_user, StoreTypes, Ages, RowsAge

(* Inserting a capability, into a table that has only aged. *)
LEMMA InsertedCapabilityAges ==
    ASSUME StoreTypes, NEW table \in [CapabilityId -> CapabilityRow], NEW k \in CapabilityId,
           capabilities[k].status = "absent",
           \A j \in CapabilityId : capabilities[j].status = "consumed" => table[j].status = "consumed",
           NEW u \in UserId, NEW purpose \in CapabilityPurpose, NEW expires \in Nat,
           NEW time \in Nat, NEW epoch \in Nat,
           capabilities' = InsertCapability(table, k, u, purpose, expires, time, epoch)
    PROVE  /\ capabilities' \in [CapabilityId -> CapabilityRow]
           /\ \A j \in CapabilityId :
                 capabilities[j].status = "consumed" => capabilities'[j].status = "consumed"
<1>1. PICK row : row = [status |-> "open", user |-> u, purpose |-> purpose,
                        expires |-> expires, created |-> time, epoch |-> epoch]
  OBVIOUS
<1>2. row \in CapabilityRow
  BY <1>1 DEF CapabilityRow
<1>3. capabilities' = [table EXCEPT ![k] = row]
  BY <1>1 DEF InsertCapability
<1> QED
  BY <1>2, <1>3

(* approve_user_with_setup inserts a capability. *)
LEMMA approve_user_with_setup_Ages ==
    ASSUME StoreTypes, NEW u \in UserId, NEW k \in CapabilityId, NEW expires \in Nat,
           NEW now \in Nat, NEW time \in Nat, approve_user_with_setup(u, k, expires, now, time)
    PROVE  Ages
<1>1. audit' \in [EventType -> [UserId -> Nat]]
  BY AuditStays DEF approve_user_with_setup, EventType
<1>2. users' \in [UserId -> UserRow]
  BY DEF approve_user_with_setup, StoreTypes, UserRow
<1>3. /\ capabilities[k].status = "absent" /\ capabilities \in [CapabilityId -> CapabilityRow]
      /\ capabilities' = InsertCapability(capabilities, k, u, "setup", expires, time, 1)
      /\ "setup" \in CapabilityPurpose /\ 1 \in Nat
  BY DEF approve_user_with_setup, StoreTypes, CapabilityPurpose
<1>4. /\ capabilities' \in [CapabilityId -> CapabilityRow]
      /\ \A j \in CapabilityId :
            capabilities[j].status = "consumed" => capabilities'[j].status = "consumed"
  BY <1>3, InsertedCapabilityAges
<1> QED
  BY <1>1, <1>2, <1>4 DEF approve_user_with_setup, StoreTypes, Ages, RowsAge

(* issue_recovery_setup inserts a capability. *)
LEMMA issue_recovery_setup_Ages ==
    ASSUME StoreTypes, NEW r \in RecoveryId, NEW k \in CapabilityId, NEW u \in UserId,
           NEW expires \in Nat, NEW time \in Nat, issue_recovery_setup(r, k, u, expires, time)
    PROVE  Ages
<1>1. audit' \in [EventType -> [UserId -> Nat]]
  BY AuditStays DEF issue_recovery_setup, EventType
<1>2. users[u].epoch \in Nat
  BY DEF StoreTypes, UserRow
<1>3. /\ capabilities[k].status = "absent" /\ capabilities \in [CapabilityId -> CapabilityRow]
      /\ capabilities' = InsertCapability(capabilities, k, u, "recovery_setup", expires, time,
                                          users[u].epoch)
      /\ "recovery_setup" \in CapabilityPurpose
  BY DEF issue_recovery_setup, StoreTypes, CapabilityPurpose
<1>4. /\ capabilities' \in [CapabilityId -> CapabilityRow]
      /\ \A j \in CapabilityId :
            capabilities[j].status = "consumed" => capabilities'[j].status = "consumed"
  BY <1>2, <1>3, InsertedCapabilityAges
<1> QED
  BY <1>1, <1>4 DEF issue_recovery_setup, StoreTypes, Ages, RowsAge

(* insert_ceremony inserts a ceremony. *)
LEMMA insert_ceremony_Ages ==
    ASSUME StoreTypes, NEW m \in CeremonyId, NEW kind \in CeremonyKind,
           NEW u \in UserId \cup {None}, NEW k \in CapabilityId \cup {None}, NEW expires \in Nat,
           insert_ceremony(m, kind, u, k, expires)
    PROVE  Ages
<1>1. PICK row : row = [status |-> "open", kind |-> kind, user |-> u,
                        capability |-> k, expires |-> expires]
  OBVIOUS
<1>2. row \in CeremonyRow
  BY <1>1 DEF CeremonyRow
<1>3. ceremonies[m].status = "absent" /\ ceremonies' = [ceremonies EXCEPT ![m] = row]
  BY <1>1 DEF insert_ceremony
<1> QED
  BY <1>2, <1>3 DEF insert_ceremony, StoreTypes, Ages, RowsAge

(* Consuming a ceremony. *)
LEMMA ConsumedCeremonyAges ==
    ASSUME StoreTypes, NEW m, ceremonies' = [ceremonies EXCEPT ![m].status = "consumed"]
    PROVE  /\ ceremonies' \in [CeremonyId -> CeremonyRow]
           /\ \A n \in CeremonyId :
                 /\ ceremonies[n].status = "consumed" => ceremonies'[n].status = "consumed"
                 /\ ceremonies'[n].capability = ceremonies[n].capability
<1>1. CASE m \in CeremonyId
  BY <1>1 DEF StoreTypes, CeremonyRow
<1>2. CASE m \notin CeremonyId
  BY <1>2 DEF StoreTypes
<1> QED
  BY <1>1, <1>2

(* complete_registration inserts a passkey. *)
LEMMA complete_registration_Ages ==
    ASSUME StoreTypes, NEW m, NEW k \in CapabilityId \cup {None}, NEW c \in CredentialId,
           NEW now, complete_registration(m, k, c, now)
    PROVE  Ages
<1>1. audit' \in [EventType -> [UserId -> Nat]]
  BY AuditStays DEF complete_registration, EventType
<1>2. capabilities' = IF k = None THEN capabilities
                      ELSE [capabilities EXCEPT ![k].status = "consumed"]
  BY DEF complete_registration
<1>3. /\ capabilities' \in [CapabilityId -> CapabilityRow]
      /\ \A j \in CapabilityId :
            capabilities[j].status = "consumed" => capabilities'[j].status = "consumed"
  BY <1>2 DEF StoreTypes, CapabilityRow
<1>4. DOMAIN credentials' = CredentialId
  BY DEF complete_registration, StoreTypes
<1>5. ceremonies' = [ceremonies EXCEPT ![m].status = "consumed"] /\ UNCHANGED <<users, sessions>>
  BY DEF complete_registration
<1> QED
  BY <1>1, <1>3, <1>4, <1>5, ConsumedCeremonyAges DEF StoreTypes, Ages, RowsAge

(* complete_authentication inserts a session. *)
LEMMA complete_authentication_Ages ==
    ASSUME StoreTypes, NEW m, NEW c \in CredentialId, NEW s \in SessionId,
           NEW row \in SessionRow, NEW now, complete_authentication(m, c, s, row, now)
    PROVE  Ages
<1>1. audit' \in [EventType -> [UserId -> Nat]]
  BY AuditStays DEF complete_authentication, EventType
<1>2. /\ sessions' \in [SessionId -> SessionRow]
      /\ \A q \in SessionId : sessions[q].status = "revoked" => sessions'[q].status = "revoked"
  BY DEF complete_authentication, StoreTypes
<1>3. /\ ceremonies' = [ceremonies EXCEPT ![m].status = "consumed"]
      /\ UNCHANGED <<users, credentials, capabilities>>
  BY DEF complete_authentication
<1> QED
  BY <1>1, <1>2, <1>3, ConsumedCeremonyAges DEF StoreTypes, Ages, RowsAge

(* Reading a session extends it. *)
LEMMA session_Ages ==
    ASSUME StoreTypes, NEW s \in SessionId, NEW now, NEW idle \in Nat,
           session(s, now, idle) \/ rotate_session_csrf(s, now, idle)
    PROVE  Ages
<1>1. BoundedIdle(s, idle) \in Nat
  BY DEF BoundedIdle, StoreTypes, SessionRow
<1>2. CASE session(s, now, idle)
  BY <1>1, <1>2 DEF session, StoreTypes, SessionRow, Ages, RowsAge
<1>3. CASE rotate_session_csrf(s, now, idle)
  BY <1>1, <1>3 DEF rotate_session_csrf, StoreTypes, SessionRow, Ages, RowsAge
<1> QED
  BY <1>2, <1>3

(* delete_session revokes a session, if there is one. *)
LEMMA delete_session_Ages ==
    ASSUME StoreTypes, NEW s, delete_session(s)
    PROVE  Ages
<1>1. /\ sessions' \in [SessionId -> SessionRow]
      /\ \A q \in SessionId : sessions[q].status = "revoked" => sessions'[q].status = "revoked"
  <2>1. CASE s \in SessionId
    BY <2>1 DEF delete_session, StoreTypes, SessionRow
  <2>2. CASE s \notin SessionId
    BY <2>2 DEF delete_session, StoreTypes
  <2> QED
    BY <2>1, <2>2
<1> QED
  BY <1>1 DEF delete_session, StoreTypes, Ages, RowsAge

(* The UPDATEs of invalidate_user_auth. *)
LEMMA InvalidationAges ==
    ASSUME StoreTypes, NEW u
    PROVE  /\ AdvanceEpoch(u) \in [UserId -> UserRow]
           /\ RevokeSessions(u) \in [SessionId -> SessionRow]
           /\ \A s \in SessionId : sessions[s].status = "revoked" => RevokeSessions(u)[s].status = "revoked"
           /\ ConsumeCeremonies(u) \in [CeremonyId -> CeremonyRow]
           /\ \A m \in CeremonyId :
                 /\ ceremonies[m].status = "consumed" => ConsumeCeremonies(u)[m].status = "consumed"
                 /\ ConsumeCeremonies(u)[m].capability = ceremonies[m].capability
           /\ ConsumeCapabilities(u) \in [CapabilityId -> CapabilityRow]
           /\ \A k \in CapabilityId :
                 capabilities[k].status = "consumed" => ConsumeCapabilities(u)[k].status = "consumed"
<1>1. AdvanceEpoch(u) \in [UserId -> UserRow]
  <2>1. CASE u \in UserId
    BY <2>1 DEF AdvanceEpoch, StoreTypes, UserRow
  <2>2. CASE u \notin UserId
    BY <2>2 DEF AdvanceEpoch, StoreTypes
  <2> QED
    BY <2>1, <2>2
<1>2. /\ RevokeSessions(u) \in [SessionId -> SessionRow]
      /\ \A s \in SessionId : sessions[s].status = "revoked" => RevokeSessions(u)[s].status = "revoked"
  BY UpdatedRows DEF StoreTypes, RevokeSessions
<1>3. ConsumeCeremonies(u) \in [CeremonyId -> CeremonyRow]
  BY UpdatedRows DEF StoreTypes, ConsumeCeremonies
<1>4. \A m \in CeremonyId :
         /\ ceremonies[m].status = "consumed" => ConsumeCeremonies(u)[m].status = "consumed"
         /\ ConsumeCeremonies(u)[m].capability = ceremonies[m].capability
  BY DEF StoreTypes, ConsumeCeremonies, CeremonyRow
<1>5. /\ ConsumeCapabilities(u) \in [CapabilityId -> CapabilityRow]
      /\ \A k \in CapabilityId :
            capabilities[k].status = "consumed" => ConsumeCapabilities(u)[k].status = "consumed"
  BY UpdatedRows DEF StoreTypes, ConsumeCapabilities
<1> QED
  BY <1>1, <1>2, <1>3, <1>4, <1>5

(* approve_recovery invalidates. *)
LEMMA approve_recovery_Ages ==
    ASSUME StoreTypes, NEW r \in RecoveryId, approve_recovery(r)
    PROVE  Ages
<1>1. PICK u : u = recoveries[r].user
  OBVIOUS
<1>2. /\ users' = AdvanceEpoch(u) /\ sessions' = RevokeSessions(u)
      /\ ceremonies' = ConsumeCeremonies(u) /\ capabilities' = ConsumeCapabilities(u)
      /\ insert_audit("recovery.approved", u) /\ UNCHANGED credentials
  BY <1>1 DEF approve_recovery
<1>3. audit' \in [EventType -> [UserId -> Nat]]
  BY <1>2, AuditStays DEF EventType
<1> QED
  BY <1>2, <1>3, InvalidationAges DEF StoreTypes, Ages, RowsAge

(* break_glass invalidates and inserts a capability. *)
LEMMA break_glass_Ages ==
    ASSUME StoreTypes, NEW c \in CredentialId, NEW u \in UserId, NEW k \in CapabilityId,
           NEW expires \in Nat, NEW time \in Nat, break_glass(c, u, k, expires, time)
    PROVE  Ages
<1>1. /\ users' = AdvanceEpoch(u) /\ sessions' = RevokeSessions(u)
      /\ ceremonies' = ConsumeCeremonies(u)
      /\ insert_audit("operator.break_glass_opened", u)
      /\ credentials' = [credentials EXCEPT ![c].status = "revoked"]
  BY DEF break_glass
<1>2. audit' \in [EventType -> [UserId -> Nat]]
  BY <1>1, AuditStays DEF EventType
<1>3. /\ users[u].epoch + 1 \in Nat /\ "operator_recovery" \in CapabilityPurpose
      /\ capabilities[k].status = "absent"
      /\ capabilities' = InsertCapability(ConsumeCapabilities(u), k, u, "operator_recovery",
                                          expires, time, users[u].epoch + 1)
  BY DEF break_glass, StoreTypes, UserRow, CapabilityPurpose
<1>4. /\ capabilities' \in [CapabilityId -> CapabilityRow]
      /\ \A j \in CapabilityId :
            capabilities[j].status = "consumed" => capabilities'[j].status = "consumed"
  BY <1>3, InvalidationAges, InsertedCapabilityAges
<1>5. DOMAIN credentials' = CredentialId
  BY <1>1 DEF StoreTypes
<1> QED
  BY <1>1, <1>2, <1>4, <1>5, InvalidationAges DEF StoreTypes, Ages, RowsAge

(* rotate_all_auth_epochs leaves nothing live or open. *)
LEMMA rotate_all_auth_epochs_Ages ==
    ASSUME StoreTypes, rotate_all_auth_epochs
    PROVE  /\ Ages
           /\ \A s \in SessionId : sessions[s].status # "absent" => sessions'[s].status = "revoked"
           /\ \A k \in CapabilityId : capabilities[k].status # "absent" => capabilities'[k].status = "consumed"
           /\ \A m \in CeremonyId : ceremonies'[m].status # "open"
<1>1. users' \in [UserId -> UserRow]
  BY UpdatedRows DEF rotate_all_auth_epochs, StoreTypes
<1>2. /\ sessions' \in [SessionId -> SessionRow]
      /\ \A s \in SessionId : sessions[s].status # "absent" => sessions'[s].status = "revoked"
  BY UpdatedRows DEF rotate_all_auth_epochs, StoreTypes, SessionRow
<1>3. /\ ceremonies' \in [CeremonyId -> CeremonyRow]
      /\ \A m \in CeremonyId :
            /\ ceremonies'[m].status # "open"
            /\ ceremonies[m].status = "consumed" => ceremonies'[m].status = "consumed"
            /\ ceremonies'[m].capability = ceremonies[m].capability
  BY UpdatedRows DEF rotate_all_auth_epochs, StoreTypes, CeremonyRow
<1>4. /\ capabilities' \in [CapabilityId -> CapabilityRow]
      /\ \A k \in CapabilityId : capabilities[k].status # "absent" => capabilities'[k].status = "consumed"
  BY UpdatedRows DEF rotate_all_auth_epochs, StoreTypes, CapabilityRow
<1>5. audit' \in [EventType -> [UserId -> Nat]]
  BY DEF rotate_all_auth_epochs, StoreTypes, EventType
<1> QED
  BY <1>1, <1>2, <1>3, <1>4, <1>5 DEF rotate_all_auth_epochs, StoreTypes, Ages, RowsAge

-----------------------------------------------------------------------------
(* What the steps of the service do.                                        *)

StepTypes == StoreTypes /\ clock \in Nat /\ task \in [Task -> Frame]

(* Timestamps and deadlines are natural numbers. *)
LEMMA NowTypes ==
    ASSUME StepTypes, NEW now \in Now
    PROVE  /\ now \in Nat /\ now + CeremonyTtl \in Nat /\ now + CapabilityTtl \in Nat
           /\ now + SessionIdleTtl \in Nat /\ now + SessionAbsoluteTtl \in Nat
           /\ \A window \in 1 .. MaxWindow : now + window \in Nat
  BY ConfigAssumption DEF StepTypes, Now

(* A step that leaves the tables alone ages no row. *)
LEMMA UnchangedAges ==
    ASSUME StoreTypes, UNCHANGED tables
    PROVE  Ages
  BY DEF StoreTypes, Ages, RowsAge, tables

(* Every step of a request is one method of the store at most. *)
LEMMA RequestAges ==
    ASSUME StepTypes, NEW p \in Task, RequestStep(p)
    PROVE  Ages
<1>0. /\ task[p] \in Frame /\ StoreTypes /\ clock \in Nat
      /\ task[p].user \in UserId \cup {None} /\ task[p].epoch \in Nat /\ task[p].began \in Nat
      /\ task[p].capability \in CapabilityId \cup {None} /\ task[p].now \in Nat
      /\ task[p].now + CeremonyTtl \in Nat /\ task[p].now + SessionIdleTtl \in Nat
      /\ task[p].now + SessionAbsoluteTtl \in Nat
  BY ConfigAssumption DEF StepTypes, Frame
<1>1. CASE \/ SetupStart(p) \/ BootstrapStart(p) \/ BootstrapOperator(p) \/ RegistrationFinish(p)
           \/ LoginFinish(p) \/ SeedOperator(p) \/ Abort(p)
  BY <1>0, <1>1, UnchangedAges DEF SetupStart, BootstrapStart, BootstrapOperator,
     RegistrationFinish, LoginFinish, SeedOperator, Abort
<1>2. CASE SetupInsert(p)
  BY <1>0, <1>2, insert_ceremony_Ages DEF SetupInsert, CeremonyKind
<1>3. CASE BootstrapInsert(p)
  <2>1. PICK kind \in CeremonyKind, m \in CeremonyId :
           insert_ceremony(m, kind, task[p].user, task[p].capability, task[p].now + CeremonyTtl)
    BY <1>3 DEF BootstrapInsert, CeremonyKind
  <2> QED
    BY <1>0, <2>1, insert_ceremony_Ages
<1>4. CASE RegistrationCommit(p)
  BY <1>0, <1>4, complete_registration_Ages DEF RegistrationCommit
<1>5. CASE LoginCommit(p)
  <2>1. PICK c, s, row :
           /\ c \in CredentialId /\ s \in SessionId
           /\ row = [status     |-> "live",
                     user       |-> task[p].user,
                     epoch      |-> task[p].epoch,
                     csrf       |-> 0,
                     idle       |-> task[p].now + SessionIdleTtl,
                     absolute   |-> task[p].now + SessionAbsoluteTtl,
                     credential |-> c,
                     began      |-> task[p].began]
           /\ complete_authentication(task[p].ceremony, c, s, row, task[p].now)
    BY <1>5 DEF LoginCommit
  <2>2. row \in SessionRow
    BY <1>0, <2>1 DEF SessionRow
  <2> QED
    BY <1>0, <2>1, <2>2, complete_authentication_Ages
<1>6. CASE Logout(p) \/ OperatorRequest(p)
  <2>1. PICK s \in SessionId, now \in Now : session(s, now, now + SessionIdleTtl)
    BY <1>6 DEF Logout, OperatorRequest, Authorize
  <2> QED
    BY <1>0, <2>1, NowTypes, session_Ages
<1>7. CASE LogoutCommit(p)
  BY <1>0, <1>7, delete_session_Ages DEF LogoutCommit
<1>8. CASE ApproveRecovery(p)
  BY <1>0, <1>8, approve_recovery_Ages DEF ApproveRecovery
<1>9. CASE IssueRecoverySetup(p)
  <2>1. PICK r \in RecoveryId, u \in UserId, k \in CapabilityId, now \in Now :
           issue_recovery_setup(r, k, u, now + CapabilityTtl, clock)
    BY <1>9 DEF IssueRecoverySetup
  <2> QED
    BY <1>0, <2>1, NowTypes, issue_recovery_setup_Ages
<1>10. CASE ApproveUser(p)
  <2>1. PICK u \in UserId, k \in CapabilityId, now \in Now :
           approve_user_with_setup(u, k, now + CapabilityTtl, now, clock)
    BY <1>10 DEF ApproveUser
  <2> QED
    BY <1>0, <2>1, NowTypes, approve_user_with_setup_Ages
<1>11. CASE SeedCommit(p)
  BY <1>0, <1>11, insert_user_Ages DEF SeedCommit
<1> QED
  BY <1>1, <1>2, <1>3, <1>4, <1>5, <1>6, <1>7, <1>8, <1>9, <1>10, <1>11 DEF RequestStep

(* So is every other step of the service. *)
LEMMA StepAges ==
    ASSUME StepTypes, Next
    PROVE  Ages
<1>0. StoreTypes /\ clock \in Nat
  BY DEF StepTypes
<1>1. CASE \E p \in Task : RequestStep(p)
  BY <1>1, RequestAges
<1>2. CASE LoginStart
  <2>1. PICK m \in CeremonyId, now \in Now :
           insert_ceremony(m, "authentication", None, None, now + CeremonyTtl)
    BY <1>2 DEF LoginStart
  <2> QED
    BY <1>0, <2>1, NowTypes, insert_ceremony_Ages DEF CeremonyKind
<1>3. CASE AuthenticateSession \/ SessionDiscovery
  <2>1. PICK s \in SessionId, now \in Now :
           \/ session(s, now, now + SessionIdleTtl)
           \/ rotate_session_csrf(s, now, now + SessionIdleTtl)
    BY <1>3 DEF AuthenticateSession, SessionDiscovery
  <2> QED
    BY <1>0, <2>1, NowTypes, session_Ages
<1>4. CASE RecoveryRequest
  BY <1>0, <1>4 DEF RecoveryRequest, create_recovery, StoreTypes, Ages, RowsAge
<1>5. CASE BreakGlass
  <2>1. PICK c \in CredentialId, u \in UserId, k \in CapabilityId, now \in Now,
             window \in 1 .. MaxWindow : break_glass(c, u, k, now + window, clock)
    BY <1>5 DEF BreakGlass
  <2>2. now + window \in Nat
    BY NowTypes
  <2> QED
    BY <1>0, <2>1, <2>2, break_glass_Ages
<1>6. CASE RotateAuthEpoch
  BY <1>0, <1>6, rotate_all_auth_epochs_Ages DEF RotateAuthEpoch
<1>7. CASE Tick
  BY <1>0, <1>7, UnchangedAges DEF Tick
<1> QED
  BY <1>1, <1>2, <1>3, <1>4, <1>5, <1>6, <1>7 DEF Next

(* A request that comes to finish a ceremony was idle, and found it open. *)
Finishes(p, frame) ==
    frame.pc \in {"registration", "authentication"} =>
        /\ task[p].pc = "idle"
        /\ frame.ceremony \in CeremonyId
        /\ ceremonies[frame.ceremony].status = "open"
        /\ frame.pc = "registration" => ceremonies[frame.ceremony].capability = frame.capability
        /\ UNCHANGED ceremonies

(* The frames of requests after a step. *)
LEMMA StepContinues ==
    ASSUME StepTypes, Next
    PROVE  \/ UNCHANGED task
           \/ \E p \in Task, frame \in Frame :
                 task' = [task EXCEPT ![p] = frame] /\ Finishes(p, frame)
<1> DEFINE Goal == \/ UNCHANGED task
                   \/ \E p \in Task, frame \in Frame :
                         task' = [task EXCEPT ![p] = frame] /\ Finishes(p, frame)
<1>0. /\ StoreTypes /\ Idle \in Frame /\ Idle.pc = "idle"
  BY IdleFields DEF StepTypes, Idle
<1>1. ASSUME NEW p \in Task, SetupStart(p)
      PROVE  Goal
  <2>1. PICK k, now, frame :
           /\ k \in CapabilityId /\ now \in Now
           /\ frame = [Idle EXCEPT !.pc = "setup_insert", !.now = now,
                                   !.user = capabilities[k].user, !.capability = k]
           /\ task' = [task EXCEPT ![p] = frame]
    BY <1>1 DEF SetupStart, Continue
  <2>2. now \in Nat /\ capabilities[k].user \in UserId \cup {None}
    BY <1>0, <2>1, NowTypes DEF StoreTypes, CapabilityRow
  <2>3. frame \in Frame /\ frame.pc = "setup_insert"
    BY <1>0, <2>1, <2>2 DEF Frame, Idle, Pc
  <2> QED
    BY <2>1, <2>3 DEF Finishes
<1>2. ASSUME NEW p \in Task, BootstrapStart(p)
      PROVE  Goal
  <2>1. PICK frame, now :
           /\ now \in Now
           /\ \/ \E k \in CapabilityId :
                    frame = [Idle EXCEPT !.pc = "bootstrap_insert", !.now = now,
                                         !.user = capabilities[k].user, !.capability = k]
              \/ frame = [Idle EXCEPT !.pc = "bootstrap_operator", !.now = now]
           /\ task' = [task EXCEPT ![p] = frame]
    BY <1>2 DEF BootstrapStart, Continue, operator_recovery_window, OpenWindows
  <2>2. now \in Nat /\ \A k \in CapabilityId : capabilities[k].user \in UserId \cup {None}
    BY <1>0, <2>1, NowTypes DEF StoreTypes, CapabilityRow
  <2>3. frame \in Frame /\ frame.pc \in {"bootstrap_insert", "bootstrap_operator"}
    <3>1. CASE frame = [Idle EXCEPT !.pc = "bootstrap_operator", !.now = now]
      BY <1>0, <2>2, <3>1 DEF Frame, Idle, Pc
    <3>2. ASSUME NEW k \in CapabilityId,
                 frame = [Idle EXCEPT !.pc = "bootstrap_insert", !.now = now,
                                      !.user = capabilities[k].user, !.capability = k]
          PROVE  frame \in Frame /\ frame.pc = "bootstrap_insert"
      BY <1>0, <2>2, <3>2 DEF Frame, Idle, Pc
    <3> QED
      BY <2>1, <3>1, <3>2
  <2> QED
    BY <2>1, <2>3 DEF Finishes
<1>3. ASSUME NEW p \in Task, BootstrapOperator(p)
      PROVE  Goal
  <2>1. PICK u \in UserId : task' = [task EXCEPT ![p].pc = "bootstrap_insert", ![p].user = u]
    BY <1>3 DEF BootstrapOperator, operator_without_credential, Operators
  <2>2. PICK frame : frame = [task[p] EXCEPT !.pc = "bootstrap_insert", !.user = u]
    OBVIOUS
  <2>3. task[p] \in Frame
    BY DEF StepTypes
  <2>4. frame \in Frame /\ frame.pc = "bootstrap_insert"
    BY <2>2, <2>3 DEF Frame, Pc
  <2>5. task' = [task EXCEPT ![p] = frame]
    BY <2>1, <2>2, <2>3 DEF StepTypes, Frame
  <2> QED
    BY <2>4, <2>5 DEF Finishes
<1>4. ASSUME NEW p \in Task, RegistrationFinish(p)
      PROVE  Goal
  <2>1. PICK m, now, frame :
           /\ m \in CeremonyId /\ now \in Now
           /\ frame = [Idle EXCEPT !.pc = "registration", !.now = now, !.ceremony = m,
                                   !.capability = ceremonies[m].capability]
           /\ ceremonies[m].status = "open" /\ UNCHANGED ceremonies
           /\ task[p].pc = "idle" /\ task' = [task EXCEPT ![p] = frame]
    BY <1>4 DEF RegistrationFinish, Continue, CeremonyOpen, tables
  <2>2. now \in Nat /\ ceremonies[m].capability \in CapabilityId \cup {None}
    BY <1>0, <2>1, NowTypes DEF StoreTypes, CeremonyRow
  <2>3. frame \in Frame /\ frame.ceremony = m /\ frame.capability = ceremonies[m].capability
    BY <1>0, <2>1, <2>2 DEF Frame, Idle, Pc
  <2> QED
    BY <2>1, <2>3 DEF Finishes
<1>5. ASSUME NEW p \in Task, LoginFinish(p)
      PROVE  Goal
  <2>0. PICK m \in CeremonyId, u \in Users, now \in Now :
           /\ Continue(p, [Idle EXCEPT !.pc = "authentication", !.now = now, !.ceremony = m,
                                       !.user = u, !.epoch = users[u].epoch,
                                       !.began = Invalidations(u)])
           /\ ceremonies[m].status = "open" /\ UNCHANGED ceremonies
    BY <1>5 DEF LoginFinish, CeremonyOpen, tables
  <2>1. PICK frame :
           /\ frame = [Idle EXCEPT !.pc = "authentication", !.now = now, !.ceremony = m,
                                   !.user = u, !.epoch = users[u].epoch,
                                   !.began = Invalidations(u)]
           /\ task[p].pc = "idle" /\ task' = [task EXCEPT ![p] = frame]
    BY <2>0 DEF Continue
  <2>2. /\ now \in Nat /\ u \in UserId /\ users[u].epoch \in Nat
        /\ \A e \in EventType : audit[e][u] \in Nat
    BY <1>0, <2>1, NowTypes DEF StoreTypes, UserRow, Users
  <2>3. Invalidations(u) \in Nat
    BY <2>2 DEF Invalidations, EventType
  <2>4. frame \in Frame /\ frame.ceremony = m /\ frame.pc = "authentication"
    BY <1>0, <2>1, <2>2, <2>3 DEF Frame, Idle, Pc
  <2> QED
    BY <2>0, <2>1, <2>4 DEF Finishes
<1>6. ASSUME NEW p \in Task, Logout(p)
      PROVE  Goal
  <2>1. PICK s, frame :
           /\ s \in SessionId
           /\ frame = [Idle EXCEPT !.pc = "logout", !.session = s]
           /\ UNCHANGED task \/ task' = [task EXCEPT ![p] = frame]
    BY <1>6 DEF Logout, Authorize, Continue
  <2>2. frame \in Frame /\ frame.pc = "logout"
    BY <1>0, <2>1 DEF Frame, Idle, Pc
  <2> QED
    BY <2>1, <2>2 DEF Finishes
<1>7. ASSUME NEW p \in Task, OperatorRequest(p)
      PROVE  Goal
  <2>1. PICK s, frame :
           /\ s \in SessionId
           /\ frame = [Idle EXCEPT !.pc = "operator", !.user = sessions[s].user]
           /\ UNCHANGED task \/ task' = [task EXCEPT ![p] = frame]
    BY <1>7 DEF OperatorRequest, Authorize, Continue
  <2>2. sessions[s].user \in UserId \cup {None}
    BY <1>0, <2>1 DEF StoreTypes, SessionRow
  <2>3. frame \in Frame /\ frame.pc = "operator"
    BY <1>0, <2>1, <2>2 DEF Frame, Idle, Pc
  <2> QED
    BY <2>1, <2>3 DEF Finishes
<1>8. ASSUME NEW p \in Task, SeedOperator(p)
      PROVE  Goal
  <2>1. PICK now, frame :
           /\ now \in Now /\ frame = [Idle EXCEPT !.pc = "seed", !.now = now]
           /\ task' = [task EXCEPT ![p] = frame]
    BY <1>8 DEF SeedOperator, Continue
  <2>2. frame \in Frame /\ frame.pc = "seed"
    BY <1>0, <2>1, NowTypes DEF Frame, Idle, Pc
  <2> QED
    BY <2>1, <2>2 DEF Finishes
<1>9. ASSUME NEW p \in Task, Return(p)
      PROVE  Goal
  BY <1>0, <1>9 DEF Return, Finishes
<1> QED
  BY <1>1, <1>2, <1>3, <1>4, <1>5, <1>6, <1>7, <1>8, <1>9 DEF Next, RequestStep, SetupInsert,
     BootstrapInsert, RegistrationCommit, LoginCommit, LogoutCommit, ApproveRecovery,
     IssueRecoverySetup, ApproveUser, SeedCommit, Abort, LoginStart, AuthenticateSession,
     SessionDiscovery, RecoveryRequest, BreakGlass, RotateAuthEpoch, Tick

(* Only a login inserts a session, with a ceremony that is open. *)
LEMMA NewSession ==
    ASSUME StepTypes, Next, NEW s \in SessionId,
           sessions[s].status = "absent", sessions'[s].status # "absent"
    PROVE  \E p \in Task : LoginCommit(p)
<1>0. StoreTypes
  BY DEF StepTypes
<1>1. ASSUME NEW q \in SessionId, NEW now,
             \/ session(q, now, now + SessionIdleTtl)
             \/ rotate_session_csrf(q, now, now + SessionIdleTtl)
      PROVE  FALSE
  <2>1. sessions[q].status = "live" /\ \A t \in SessionId : t # q => sessions'[t] = sessions[t]
    BY <1>0, <1>1 DEF session, rotate_session_csrf, SessionValid, StoreTypes
  <2>2. sessions'[q].status = "live"
    BY <1>0, <1>1, <2>1 DEF session, rotate_session_csrf, StoreTypes, SessionRow
  <2> QED
    BY <2>1
<1>2. ASSUME NEW q, delete_session(q)
      PROVE  FALSE
  <2>1. CASE q \in SessionId
    BY <1>0, <1>2, <2>1 DEF delete_session, StoreTypes
  <2>2. CASE q \notin SessionId
    BY <1>0, <1>2, <2>2 DEF delete_session, StoreTypes
  <2> QED
    BY <2>1, <2>2
<1>3. ASSUME NEW u, sessions' = RevokeSessions(u)
      PROVE  FALSE
  BY <1>3 DEF RevokeSessions
<1>4. ASSUME rotate_all_auth_epochs
      PROVE  FALSE
  BY <1>4 DEF rotate_all_auth_epochs
<1>5. ~UNCHANGED sessions
  OBVIOUS
<1>6. ASSUME NEW p \in Task, RequestStep(p)
      PROVE  LoginCommit(p)
  BY <1>1, <1>2, <1>3, <1>5, <1>6 DEF RequestStep, SetupStart, SetupInsert, BootstrapStart,
     BootstrapOperator, BootstrapInsert, RegistrationFinish, RegistrationCommit, LoginFinish,
     Logout, LogoutCommit, OperatorRequest, ApproveRecovery, IssueRecoverySetup, ApproveUser,
     SeedOperator, SeedCommit, Abort, Authorize, tables, insert_ceremony, complete_registration,
     approve_recovery, issue_recovery_setup, approve_user_with_setup, insert_user
<1> QED
  BY <1>1, <1>3, <1>4, <1>5, <1>6 DEF Next, LoginStart, AuthenticateSession, SessionDiscovery,
     RecoveryRequest, BreakGlass, RotateAuthEpoch, Tick, tables, insert_ceremony,
     create_recovery, break_glass

(* Only a registration inserts a passkey, with a ceremony and a capability  *)
(* that are open.                                                           *)
LEMMA NewRegistration ==
    ASSUME StepTypes, Next, NEW c \in CredentialId,
           credentials[c].status = "absent", credentials'[c].status = "live"
    PROVE  \E p \in Task :
              /\ task[p].pc = "registration"
              /\ credentials'[c].ceremony = task[p].ceremony
              /\ ceremonies[task[p].ceremony].status = "open"
              /\ task[p].capability # None => capabilities[task[p].capability].status = "open"
<1>0. DOMAIN credentials = CredentialId
  BY DEF StepTypes, StoreTypes
<1>1. ASSUME NEW p \in Task, RegistrationCommit(p)
      PROVE  /\ task[p].pc = "registration"
             /\ credentials'[c].ceremony = task[p].ceremony
             /\ ceremonies[task[p].ceremony].status = "open"
             /\ task[p].capability # None => capabilities[task[p].capability].status = "open"
  <2>1. PICK d \in CredentialId :
           complete_registration(task[p].ceremony, task[p].capability, d, task[p].now)
    BY <1>1 DEF RegistrationCommit
  <2>2. PICK row : /\ row.ceremony = task[p].ceremony
                   /\ credentials' = [credentials EXCEPT ![d] = row]
    <3>1. PICK row : row = [status |-> "live", user |-> ceremonies[task[p].ceremony].user,
                            ceremony |-> task[p].ceremony,
                            epoch |-> users[ceremonies[task[p].ceremony].user].epoch]
      OBVIOUS
    <3> QED
      BY <2>1, <3>1 DEF complete_registration
  <2>3. d = c
    BY <1>0, <2>2
  <2> QED
    BY <1>0, <1>1, <2>1, <2>2, <2>3 DEF RegistrationCommit, complete_registration,
       RegistrationCommits, CeremonyOpen, CapabilityOpen
<1>2. ASSUME NEW d \in CredentialId, credentials' = [credentials EXCEPT ![d].status = "revoked"],
             d \in LiveOperatorCredentials
      PROVE  FALSE
  <2>1. credentials[d].status = "live"
    BY <1>2 DEF LiveOperatorCredentials, CredentialsOf
  <2> QED
    BY <1>0, <1>2, <2>1
<1>3. ~UNCHANGED credentials
  OBVIOUS
<1>4. ASSUME NEW p \in Task, RequestStep(p)
      PROVE  RegistrationCommit(p)
  BY <1>3, <1>4 DEF RequestStep, SetupStart, SetupInsert, BootstrapStart, BootstrapOperator,
     BootstrapInsert, RegistrationFinish, LoginFinish, LoginCommit, Logout, LogoutCommit,
     OperatorRequest, ApproveRecovery, IssueRecoverySetup, ApproveUser, SeedOperator, SeedCommit,
     Abort, Authorize, tables, insert_ceremony, complete_authentication, session,
     delete_session, approve_recovery, issue_recovery_setup, approve_user_with_setup, insert_user
<1>5. ~BreakGlass
  BY <1>2 DEF BreakGlass, break_glass
<1>6. \E p \in Task : RegistrationCommit(p)
  BY <1>3, <1>4, <1>5 DEF Next, LoginStart, AuthenticateSession, SessionDiscovery,
     RecoveryRequest, RotateAuthEpoch, Tick, tables, insert_ceremony, session,
     rotate_session_csrf, create_recovery, rotate_all_auth_epochs
<1> QED
  BY <1>1, <1>6

-----------------------------------------------------------------------------
(* The invariant.                                                           *)

(* Identifiers are of one table. *)
LEMMA InsertedRows ==
    /\ \A s \in SessionId : s \in Inserted <=> sessions[s].status # "absent"
    /\ \A k \in CapabilityId : k \in Inserted <=> capabilities[k].status # "absent"
    /\ \A m \in CeremonyId : m \in Inserted <=> ceremonies[m].status # "absent"
    /\ None \notin Inserted
  BY IdentifierAssumption, NoneAssumption DEF Inserted

(* The frames keep their types, and the identifiers they name were issued. *)
LEMMA FramesStayIssued ==
    ASSUME StepTypes, Inserted \subseteq issued, FramesAreIssued, Next,
           issued \subseteq issued'
    PROVE  task' \in [Task -> Frame] /\ FramesAreIssued'
<1>1. ASSUME NEW p \in Task, NEW frame \in Frame, task' = [task EXCEPT ![p] = frame],
             Finishes(p, frame)
      PROVE  task' \in [Task -> Frame] /\ FramesAreIssued'
  <2>1. FrameIsIssued(frame)'
    BY <1>1, InsertedRows DEF Finishes, FrameIsIssued
  <2> QED
    BY <1>1, <2>1 DEF FramesAreIssued, FrameIsIssued, StepTypes
<1>2. CASE UNCHANGED task
  BY <1>2 DEF FramesAreIssued, FrameIsIssued, StepTypes
<1> QED
  BY <1>1, <1>2, StepContinues

(* After the rotation, a step of the service opens nothing that was there   *)
(* before it.                                                               *)
LEMMA RotatedServiceStep ==
    ASSUME RestoreInv, ServiceStep, phase = "rotated"
    PROVE  /\ None \notin old' /\ early' \subseteq InFlight'
           /\ OldIsDead' /\ EarlyLoginsFail' /\ RegistrationsAgree'
<1>0. /\ StepTypes /\ Next /\ task \in [Task -> Frame] /\ Inserted \subseteq issued
      /\ FramesAreIssued /\ None \notin old /\ early \subseteq InFlight
      /\ OldIsDead /\ EarlyLoginsFail /\ RegistrationsAgree
  BY DEF RestoreInv, StepTypes, ServiceStep
<1>1. RowsAge /\ StoreTypes /\ StoreTypes'
  BY <1>0, StepAges DEF Ages, StepTypes
<1>2. early' \subseteq early /\ early' \subseteq InFlight'
  BY <1>0 DEF ServiceStep, InFlight
<1>3. ASSUME NEW m \in CeremonyId, m \in issued, ceremonies'[m].status = "open"
      PROVE  ceremonies[m].status = "open" /\ ceremonies'[m].capability = ceremonies[m].capability
  <2>1. ceremonies[m].status # "absent"
    BY <1>3, InsertedRows, IdentifierAssumption DEF ServiceStep, Inserted
  <2>2. ceremonies[m].status # "consumed"
    BY <1>1, <1>3 DEF RowsAge
  <2> QED
    BY <1>1, <2>1, <2>2 DEF RowsAge, StoreTypes, CeremonyRow
<1>4. \/ UNCHANGED task
      \/ \E p \in Task, frame \in Frame : task' = [task EXCEPT ![p] = frame] /\ Finishes(p, frame)
  BY <1>0, StepContinues
<1>5. old' = old
  <2>1. ASSUME NEW q \in early, task'[q] # task[q],
               NEW s \in SessionId, s \in Inserted', s \notin Inserted
        PROVE  FALSE
    <3>1. sessions[s].status = "absent" /\ sessions'[s].status # "absent"
      BY <2>1, IdentifierAssumption DEF Inserted
    <3>2. PICK p \in Task : LoginCommit(p)
      BY <1>0, <3>1, NewSession
    <3>3. /\ task[p].pc = "authentication" /\ ceremonies[task[p].ceremony].status = "open"
          /\ task' = [task EXCEPT ![p] = Idle]
      BY <3>2 DEF LoginCommit, complete_authentication, CeremonyOpen, Return
    <3>4. q = p
      BY <1>0, <2>1, <3>3 DEF InFlight
    <3> QED
      BY <1>0, <2>1, <3>3, <3>4 DEF EarlyLoginsFail
  <2> QED
    BY <2>1 DEF ServiceStep
<1>6. OldIsDead'
  BY <1>0, <1>1, <1>5 DEF OldIsDead, RowsAge
<1>7. EarlyLoginsFail'
  <2> SUFFICES ASSUME NEW p \in early', task'[p].pc = "authentication",
                      ceremonies'[task'[p].ceremony].status = "open"
               PROVE  FALSE
    BY DEF EarlyLoginsFail
  <2>1. p \in early /\ p \in Task /\ task[p].pc # "idle"
    BY <1>0, <1>2 DEF InFlight
  <2>2. task'[p] = task[p]
    BY <1>0, <1>4, <2>1 DEF Finishes
  <2>3. task[p].ceremony \in CeremonyId /\ task[p].ceremony \in issued
    BY <1>0, <2>1, <2>2 DEF FramesAreIssued, FrameIsIssued
  <2> QED
    BY <1>0, <1>3, <2>1, <2>2, <2>3 DEF EarlyLoginsFail
<1>8. RegistrationsAgree'
  <2> SUFFICES ASSUME NEW p \in Task, task'[p].pc = "registration",
                      ceremonies'[task'[p].ceremony].status = "open"
               PROVE  ceremonies'[task'[p].ceremony].capability = task'[p].capability
    BY DEF RegistrationsAgree
  <2>1. CASE task'[p] = task[p]
    <3>1. task[p].ceremony \in CeremonyId /\ task[p].ceremony \in issued
      BY <1>0, <2>1 DEF FramesAreIssued, FrameIsIssued
    <3> QED
      BY <1>0, <1>3, <2>1, <3>1 DEF RegistrationsAgree
  <2>2. CASE task'[p] # task[p]
    BY <1>0, <1>4, <2>2 DEF Finishes
  <2> QED
    BY <2>1, <2>2
<1> QED
  BY <1>0, <1>2, <1>5, <1>6, <1>7, <1>8

(* A step of the service keeps the invariant. *)
LEMMA ServiceStepKeeps ==
    ASSUME RestoreInv, ServiceStep
    PROVE  RestoreInv'
<1>1. StepTypes /\ Next /\ Inserted \subseteq issued /\ FramesAreIssued /\ issued \subseteq issued'
  BY DEF RestoreInv, StepTypes, ServiceStep
<1>2. StoreTypes' /\ task' \in [Task -> Frame] /\ FramesAreIssued'
  BY <1>1, StepAges, FramesStayIssued DEF Ages
<1>3. clock' \in Nat
  <2>1. clock' \in {clock, clock + 1}
    BY <1>1 DEF Next, RequestStep, SetupStart, SetupInsert, BootstrapStart, BootstrapOperator,
       BootstrapInsert, RegistrationFinish, RegistrationCommit, LoginFinish, LoginCommit, Logout,
       LogoutCommit, OperatorRequest, ApproveRecovery, IssueRecoverySetup, ApproveUser,
       SeedOperator, SeedCommit, Abort, Authorize, LoginStart, AuthenticateSession,
       SessionDiscovery, RecoveryRequest, BreakGlass, RotateAuthEpoch, Tick
  <2> QED
    BY <1>1, <2>1 DEF StepTypes
<1>4. Inserted' \subseteq issued' /\ phase' = phase /\ backup' = backup /\ BackupTypes
  BY DEF RestoreInv, ServiceStep
<1>5. BackupTypes'
  BY <1>1, <1>4 DEF BackupTypes
<1> QED
  BY <1>2, <1>3, <1>4, <1>5, RotatedServiceStep DEF RestoreInv

(* The rotation after a restore kills what it finds. *)
LEMMA RotationKeeps ==
    ASSUME RestoreInv, RotateRestored
    PROVE  RestoreInv'
<1>0. /\ StoreTypes /\ rotate_all_auth_epochs /\ UNCHANGED <<clock, task, backup, issued>>
      /\ old' = Inserted /\ early' = InFlight
  BY DEF RestoreInv, RotateRestored, RotateAuthEpoch
<1>1. /\ StoreTypes'
      /\ \A s \in SessionId : sessions[s].status # "absent" => sessions'[s].status = "revoked"
      /\ \A k \in CapabilityId : capabilities[k].status # "absent" => capabilities'[k].status = "consumed"
      /\ \A m \in CeremonyId : ceremonies'[m].status # "open"
  BY <1>0, rotate_all_auth_epochs_Ages DEF Ages
<1>2. Inserted' = Inserted
  <2>1. /\ \A s \in SessionId : sessions'[s].status = "absent" <=> sessions[s].status = "absent"
        /\ \A k \in CapabilityId : capabilities'[k].status = "absent" <=> capabilities[k].status = "absent"
        /\ \A m \in CeremonyId : ceremonies'[m].status = "absent" <=> ceremonies[m].status = "absent"
        /\ UNCHANGED <<credentials, recoveries>>
    BY <1>0 DEF rotate_all_auth_epochs, StoreTypes, SessionRow, CapabilityRow, CeremonyRow
  <2> QED
    BY <2>1 DEF Inserted
<1>3. OldIsDead' /\ None \notin old'
  BY <1>0, <1>1, InsertedRows DEF OldIsDead
<1>4. FramesAreIssued' /\ FramesAreIssued
  BY <1>0 DEF RestoreInv, FramesAreIssued, FrameIsIssued
<1>5. EarlyLoginsFail' /\ RegistrationsAgree' /\ early' \subseteq InFlight'
  BY <1>0, <1>1, <1>4 DEF EarlyLoginsFail, RegistrationsAgree, InFlight, FramesAreIssued, FrameIsIssued
<1> QED
  BY <1>0, <1>1, <1>2, <1>3, <1>4, <1>5 DEF RestoreInv, BackupTypes

(* A backup is of tables that have their types. *)
LEMMA BackupKeeps ==
    ASSUME RestoreInv, Backup
    PROVE  RestoreInv'
<1>1. BackupTypes'
  <2>1. /\ backup'.users = users /\ backup'.credentials = credentials
        /\ backup'.capabilities = capabilities /\ backup'.ceremonies = ceremonies
        /\ backup'.sessions = sessions /\ backup'.recoveries = recoveries
        /\ backup'.audit = audit /\ issued' = issued
    BY DEF Backup
  <2>2. StoreTypes /\ Inserted \subseteq issued
    BY DEF RestoreInv
  <2> QED
    BY <2>1, <2>2 DEF BackupTypes, StoreTypes, Inserted
<1>2. UNCHANGED <<vars, phase, issued, old, early>>
  BY DEF Backup
<1>3. UNCHANGED <<users, credentials, capabilities, ceremonies, sessions, recoveries, audit,
                  clock, task, phase, issued, old, early>>
  BY <1>2 DEF vars, tables
<1> QED
  BY <1>1, <1>3 DEF RestoreInv, StoreTypes, Inserted, InFlight, FramesAreIssued, FrameIsIssued,
     OldIsDead, EarlyLoginsFail, RegistrationsAgree

(* A restore brings back rows that were inserted once. *)
LEMMA RestoreBackupKeeps ==
    ASSUME RestoreInv, RestoreBackup
    PROVE  RestoreInv'
<1>1. /\ BackupTypes /\ backup # NoBackup /\ phase' = "restored"
      /\ UNCHANGED <<clock, task, backup, issued>>
      /\ users' = backup.users /\ credentials' = backup.credentials
      /\ capabilities' = backup.capabilities /\ ceremonies' = backup.ceremonies
      /\ sessions' = backup.sessions /\ recoveries' = backup.recoveries
      /\ audit' = backup.audit
  BY DEF RestoreInv, RestoreBackup
<1>2. StoreTypes' /\ Inserted' \subseteq issued'
  BY <1>1 DEF BackupTypes, StoreTypes, Inserted
<1>3. BackupTypes' /\ FramesAreIssued'
  BY <1>1 DEF RestoreInv, BackupTypes, FramesAreIssued, FrameIsIssued
<1> QED
  BY <1>1, <1>2, <1>3 DEF RestoreInv

(* The invariant holds at first. *)
LEMMA RestoreInitially ==
    ASSUME RestoreInit
    PROVE  RestoreInv
<1>1. Init /\ backup = NoBackup /\ phase = "normal" /\ issued = Inserted
  BY DEF RestoreInit
<1>2. TypeOK
  BY <1>1, InitInv DEF RegistrationInv
<1>3. StoreTypes /\ clock \in Nat /\ task \in [Task -> Frame]
  BY <1>2 DEF TypeOK, TablesTypeOK, StoreTypes
<1>4. \A p \in Task : task[p] = Idle
  BY <1>1, Zenon DEF Init
<1>5. FramesAreIssued
  BY <1>4 DEF FramesAreIssued, FrameIsIssued, Idle
<1> QED
  BY <1>1, <1>3, <1>5 DEF RestoreInv, BackupTypes

(* The invariant holds: identifiers are of rows inserted once and, since    *)
(* the rotation, what came before it is revoked or consumed.                *)
THEOREM RestoreInvariant == RestoreSpec => []RestoreInv
<1>1. RestoreInit => RestoreInv
  BY RestoreInitially
<1>2. RestoreInv /\ [RestoreNext]_restoreVars => RestoreInv'
  <2>1. CASE UNCHANGED restoreVars
    <3>1. UNCHANGED <<users, credentials, capabilities, ceremonies, sessions, recoveries, audit,
                      clock, task, backup, phase, issued, old, early>>
      BY <2>1 DEF restoreVars, vars, tables
    <3> QED
      BY <3>1 DEF RestoreInv, StoreTypes, BackupTypes, Inserted, InFlight, FramesAreIssued,
         FrameIsIssued, OldIsDead, EarlyLoginsFail, RegistrationsAgree
  <2> QED
    BY <2>1, ServiceStepKeeps, BackupKeeps, RestoreBackupKeeps, RotationKeeps DEF RestoreNext
<1> QED
  BY <1>1, <1>2, PTL DEF RestoreSpec

(* After a restore and rotate-auth-epoch no session and no token of the     *)
(* restored tables is accepted, nor a session that a login in flight since  *)
(* before the rotation obtains.                                             *)
THEOREM RestoredAuthorityDies == RestoreSpec => []RestoredAuthorityIsDead
<1>1. RestoreInv => RestoredAuthorityIsDead
  BY DEF RestoreInv, OldIsDead, RestoredAuthorityIsDead, Usable
<1> QED
  BY <1>1, RestoreInvariant, PTL

(* After a restore and rotate-auth-epoch no passkey is registered with a    *)
(* setup or recovery token of the restored tables.                          *)
THEOREM RestoredTokensAreSpent == RestoreSpec => RestoredTokensRegisterNothing
<1>1. ASSUME RestoreInv, RestoreNext, phase = "rotated", NEW c \in CredentialId,
             credentials[c].status = "absent", credentials'[c].status = "live"
      PROVE  ceremonies[credentials'[c].ceremony].capability \notin old
  <2>1. ServiceStep
    BY <1>1 DEF RestoreNext, Backup, RestoreBackup, RotateRestored, vars, tables
  <2>2. StepTypes /\ Next /\ FramesAreIssued /\ None \notin old /\ OldIsDead /\ RegistrationsAgree
    BY <1>1, <2>1 DEF RestoreInv, StepTypes, ServiceStep
  <2>3. PICK p \in Task :
           /\ task[p].pc = "registration"
           /\ credentials'[c].ceremony = task[p].ceremony
           /\ ceremonies[task[p].ceremony].status = "open"
           /\ task[p].capability # None => capabilities[task[p].capability].status = "open"
    BY <1>1, <2>2, NewRegistration
  <2>4. ceremonies[task[p].ceremony].capability = task[p].capability
    BY <2>2, <2>3 DEF RegistrationsAgree
  <2>5. task[p].capability \in CapabilityId \cup {None}
    BY <2>2 DEF StepTypes, Frame
  <2> QED
    BY <2>2, <2>3, <2>4, <2>5 DEF OldIsDead
<1>2. RestoreInv /\ [RestoreNext]_restoreVars =>
         [phase = "rotated" =>
            \A c \in CredentialId :
               (credentials[c].status = "absent" /\ credentials'[c].status = "live") =>
                   ceremonies[credentials'[c].ceremony].capability \notin old]_restoreVars
  BY <1>1
<1> QED
  BY <1>2, RestoreInvariant, PTL DEF RestoreSpec, RestoredTokensRegisterNothing

=============================================================================
