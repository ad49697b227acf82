------------------------------ MODULE AuthProofs ------------------------------
(***************************************************************************)
(* Proofs about AuthService, for every set of users, rows and concurrent   *)
(* requests, every configuration of lifetimes and every bound.             *)
(*                                                                         *)
(* The invariant RegistrationInv is preserved by every transaction of the  *)
(* store (one lemma for each) and by every step of a request.              *)
(***************************************************************************)
EXTENDS AuthService, FiniteSetTheorems, TLAPS

-----------------------------------------------------------------------------
(* Types of updated rows.                                                  *)

(* The single-column UPDATEs of the store keep a row in its type. *)
LEMMA UpdatedRows ==
    /\ \A row \in SessionRow : [row EXCEPT !.status = "revoked"] \in SessionRow
    /\ \A row \in CeremonyRow : [row EXCEPT !.status = "consumed"] \in CeremonyRow
    /\ \A row \in CapabilityRow : [row EXCEPT !.status = "consumed"] \in CapabilityRow
    /\ \A row \in RecoveryRow : [row EXCEPT !.stage = "completed"] \in RecoveryRow
    /\ \A row \in UserRow : [row EXCEPT !.epoch = @ + 1] \in UserRow
<1>1. \A row \in SessionRow : [row EXCEPT !.status = "revoked"] \in SessionRow
  BY DEF SessionRow
<1>2. \A row \in CeremonyRow : [row EXCEPT !.status = "consumed"] \in CeremonyRow
  BY DEF CeremonyRow
<1>3. \A row \in CapabilityRow : [row EXCEPT !.status = "consumed"] \in CapabilityRow
  BY DEF CapabilityRow
<1>4. \A row \in RecoveryRow : [row EXCEPT !.stage = "completed"] \in RecoveryRow
  BY DEF RecoveryRow
<1>5. \A row \in UserRow : [row EXCEPT !.epoch = @ + 1] \in UserRow
  BY DEF UserRow
<1> QED
  BY <1>1, <1>2, <1>3, <1>4, <1>5

(* The UPDATEs of invalidate_user_auth keep the three tables in their types. *)
LEMMA InvalidationTypes ==
    ASSUME TablesTypeOK, NEW u
    PROVE  /\ RevokeSessions(u) \in [SessionId -> SessionRow]
           /\ ConsumeCeremonies(u) \in [CeremonyId -> CeremonyRow]
           /\ ConsumeCapabilities(u) \in [CapabilityId -> CapabilityRow]
<1>1. RevokeSessions(u) \in [SessionId -> SessionRow]
  BY UpdatedRows DEF TablesTypeOK, RevokeSessions
<1>2. ConsumeCeremonies(u) \in [CeremonyId -> CeremonyRow]
  BY UpdatedRows DEF TablesTypeOK, ConsumeCeremonies
<1>3. ConsumeCapabilities(u) \in [CapabilityId -> CapabilityRow]
  BY UpdatedRows DEF TablesTypeOK, ConsumeCapabilities
<1> QED
  BY <1>1, <1>2, <1>3

(* insert_audit keeps the audit counts natural. *)
LEMMA AuditType ==
    ASSUME TablesTypeOK, NEW event \in EventType, NEW u, insert_audit(event, u)
    PROVE  audit' \in [EventType -> [UserId -> Nat]]
<1>1. CASE u \in UserId
  BY <1>1 DEF TablesTypeOK, insert_audit
<1>2. CASE u \notin UserId
  BY <1>2 DEF TablesTypeOK, insert_audit
<1> QED
  BY <1>1, <1>2

-----------------------------------------------------------------------------
(* Every transaction preserves the invariant of the tables.                *)

(* The transaction of seed_operator preserves TablesInv. *)
LEMMA insert_user_Inv ==
    ASSUME TablesInv, NEW u \in UserId, NEW now \in Nat, insert_user(u, now)
    PROVE  TablesInv'
<1>1. TablesTypeOK'
  BY DEF insert_user, insert_audit, TablesInv, TablesTypeOK, UserRow, EventType
<1>2. LiveRowsHaveUsers'
  BY DEF insert_user, TablesInv, LiveRowsHaveUsers, Users, TablesTypeOK
<1>3. OpenCapabilityIsCurrent'
  BY DEF insert_user, TablesInv, LiveRowsHaveUsers, OpenCapabilityIsCurrent, Users, TablesTypeOK
<1>4. PasskeysAreSpent' /\ CapabilityRegistersOnce' /\ CeremonyRegistersOnce'
  BY DEF insert_user, TablesInv, PasskeysAreSpent, CapabilityRegistersOnce,
         CeremonyRegistersOnce, CapabilityOf
<1> QED
  BY <1>1, <1>2, <1>3, <1>4 DEF TablesInv

(* Approving a user, with its setup capability, preserves TablesInv. *)
LEMMA approve_user_with_setup_Inv ==
    ASSUME TablesInv, NEW u \in UserId, NEW k \in CapabilityId, NEW expires \in Nat,
           NEW now \in Nat, NEW time \in Nat,
           approve_user_with_setup(u, k, expires, now, time)
    PROVE  TablesInv'
<1> USE DEF approve_user_with_setup, InsertCapability
<1>1. TablesTypeOK'
  BY DEF insert_audit, TablesInv, TablesTypeOK, UserRow, EventType, CapabilityRow, CapabilityPurpose
<1>2. LiveRowsHaveUsers'
  BY DEF TablesInv, LiveRowsHaveUsers, Users, TablesTypeOK
<1>3. OpenCapabilityIsCurrent'
  BY DEF TablesInv, LiveRowsHaveUsers, OpenCapabilityIsCurrent, Users, TablesTypeOK
<1>4. PasskeysAreSpent' /\ CapabilityRegistersOnce' /\ CeremonyRegistersOnce'
  BY DEF TablesInv, PasskeysAreSpent, CapabilityRegistersOnce,
         CeremonyRegistersOnce, CapabilityOf, TablesTypeOK, CredentialRow, CeremonyRow
<1> QED
  BY <1>1, <1>2, <1>3, <1>4 DEF TablesInv

(* Committing a registration preserves TablesInv: its ceremony and its *)
(* capability were open, so no earlier passkey stems from them.        *)
LEMMA complete_registration_Inv ==
    ASSUME TablesInv, NEW m \in CeremonyId, NEW c \in CredentialId, NEW now \in Nat,
           ceremonies[m].kind # "authentication",
           complete_registration(m, ceremonies[m].capability, c, now)
    PROVE  TablesInv'
<1> DEFINE k == ceremonies[m].capability
           u == ceremonies[m].user
<1> USE DEF complete_registration
<1>0. /\ u \in UserId /\ k \in CapabilityId \cup {None}
      /\ ceremonies[m].status = "open"
      /\ k # None => capabilities[k].status = "open"
  BY DEF RegistrationCommits, CeremonyOpen, CapabilityOpen, TablesInv, LiveRowsHaveUsers,
         TablesTypeOK, CeremonyRow
<1>1. TablesTypeOK'
  <2> USE DEF TablesInv, TablesTypeOK
  <2>1. credentials' \in [CredentialId -> CredentialRow]
    BY <1>0 DEF CredentialRow, UserRow
  <2>2. capabilities' \in [CapabilityId -> CapabilityRow]
    BY <1>0 DEF CapabilityRow
  <2>3. ceremonies' \in [CeremonyId -> CeremonyRow]
    BY <1>0 DEF CeremonyRow
  <2>4. recoveries' \in [RecoveryId -> RecoveryRow]
    <3>1. \A r \in RecoveryId : recoveries[r] \in RecoveryRow
      OBVIOUS
    <3>2. \A r \in RecoveryId : [recoveries[r] EXCEPT !.stage = "completed"] \in RecoveryRow
      BY <3>1, UpdatedRows
    <3> QED
      BY <3>1, <3>2, Zenon
  <2>5. audit' \in [EventType -> [UserId -> Nat]]
    BY AuditType DEF EventType
  <2> QED
    BY <2>1, <2>2, <2>3, <2>4, <2>5
<1>2. LiveRowsHaveUsers'
  BY <1>0 DEF TablesInv, LiveRowsHaveUsers, Users, TablesTypeOK
<1>3. OpenCapabilityIsCurrent'
  BY <1>0 DEF TablesInv, OpenCapabilityIsCurrent, TablesTypeOK
<1>4. PasskeysAreSpent'
  BY <1>0 DEF TablesInv, PasskeysAreSpent, CapabilityOf, TablesTypeOK, CredentialRow, CeremonyRow
<1>5. CapabilityRegistersOnce' /\ CeremonyRegistersOnce'
  BY <1>0 DEF TablesInv, PasskeysAreSpent, CapabilityRegistersOnce,
         CeremonyRegistersOnce, CapabilityOf, TablesTypeOK, CredentialRow, CeremonyRow
<1> QED
  BY <1>1, <1>2, <1>3, <1>4, <1>5 DEF TablesInv

(* Inserting a ceremony under a fresh identifier preserves TablesInv. *)
LEMMA insert_ceremony_Inv ==
    ASSUME TablesInv, NEW m \in CeremonyId, NEW kind \in CeremonyKind,
           NEW u \in UserId \cup {None}, NEW k \in CapabilityId \cup {None}, NEW expires \in Nat,
           kind # "authentication" => u \in UserId,
           insert_ceremony(m, kind, u, k, expires)
    PROVE  TablesInv'
<1> USE DEF insert_ceremony
<1>1. TablesTypeOK'
  <2>1. [status |-> "open", kind |-> kind, user |-> u, capability |-> k, expires |-> expires]
           \in CeremonyRow
    BY DEF CeremonyRow
  <2> QED
    BY <2>1 DEF TablesInv, TablesTypeOK
<1>2. LiveRowsHaveUsers'
  BY DEF TablesInv, LiveRowsHaveUsers, Users, TablesTypeOK
<1>3. OpenCapabilityIsCurrent'
  BY DEF TablesInv, OpenCapabilityIsCurrent
<1>4. \A c \in CredentialId :
        /\ credentials'[c] = credentials[c]
        /\ credentials[c].ceremony # m
        /\ CapabilityOf(c)' = CapabilityOf(c)
  <2>1. \A c \in CredentialId : credentials[c].ceremony # m
    BY NoneAssumption DEF TablesInv, PasskeysAreSpent
  <2> QED
    BY <2>1 DEF TablesInv, TablesTypeOK, CapabilityOf, CredentialRow
<1>5. PasskeysAreSpent' /\ CapabilityRegistersOnce' /\ CeremonyRegistersOnce'
  BY <1>4 DEF TablesInv, PasskeysAreSpent, CapabilityRegistersOnce,
         CeremonyRegistersOnce, TablesTypeOK, CredentialRow
<1> QED
  BY <1>1, <1>2, <1>3, <1>5 DEF TablesInv

(* Committing a login preserves TablesInv. *)
LEMMA complete_authentication_Inv ==
    ASSUME TablesInv, NEW m \in CeremonyId, NEW c \in CredentialId, NEW s \in SessionId,
           NEW row \in SessionRow, NEW now \in Nat,
           complete_authentication(m, c, s, row, now)
    PROVE  TablesInv'
<1> USE DEF complete_authentication
<1>1. TablesTypeOK'
  <2> USE DEF TablesInv, TablesTypeOK
  <2>1. ceremonies' \in [CeremonyId -> CeremonyRow]
    BY DEF CeremonyRow
  <2>2. sessions' \in [SessionId -> SessionRow]
    OBVIOUS
  <2>3. audit' \in [EventType -> [UserId -> Nat]]
    BY AuditType DEF EventType
  <2> QED
    BY <2>1, <2>2, <2>3
<1>2. LiveRowsHaveUsers'
  BY DEF TablesInv, LiveRowsHaveUsers, Users, TablesTypeOK
<1>3. OpenCapabilityIsCurrent'
  BY DEF TablesInv, OpenCapabilityIsCurrent
<1>4. \A n \in CeremonyId :
        /\ ceremonies[n].status = "consumed" => ceremonies'[n].status = "consumed"
        /\ ceremonies'[n].capability = ceremonies[n].capability
  BY DEF TablesInv, TablesTypeOK, CeremonyRow
<1>5. PasskeysAreSpent' /\ CapabilityRegistersOnce' /\ CeremonyRegistersOnce'
  BY <1>4 DEF TablesInv, PasskeysAreSpent, CapabilityRegistersOnce,
         CeremonyRegistersOnce, CapabilityOf, TablesTypeOK, CredentialRow
<1> QED
  BY <1>1, <1>2, <1>3, <1>5 DEF TablesInv

(* session, rotate_session_csrf and delete_session write sessions only. *)
LEMMA SessionTable_Inv ==
    ASSUME TablesInv, sessions' \in [SessionId -> SessionRow],
           UNCHANGED <<users, credentials, capabilities, ceremonies, recoveries, audit>>
    PROVE  TablesInv'
  BY DEF TablesInv, TablesTypeOK, LiveRowsHaveUsers, Users, OpenCapabilityIsCurrent,
         PasskeysAreSpent, CapabilityRegistersOnce, CeremonyRegistersOnce, CapabilityOf

(* Extending a session preserves TablesInv. *)
LEMMA session_Inv ==
    ASSUME TablesInv, NEW s \in SessionId, NEW now \in Nat, NEW idle \in Nat,
           session(s, now, idle)
    PROVE  TablesInv'
<1>1. BoundedIdle(s, idle) \in Nat
  BY DEF BoundedIdle, TablesInv, TablesTypeOK, SessionRow
<1>2. sessions' \in [SessionId -> SessionRow]
  BY <1>1 DEF session, TablesInv, TablesTypeOK, SessionRow
<1> QED
  BY <1>2, SessionTable_Inv DEF session

(* Replacing a session's CSRF token preserves TablesInv. *)
LEMMA rotate_session_csrf_Inv ==
    ASSUME TablesInv, NEW s \in SessionId, NEW now \in Nat, NEW idle \in Nat,
           rotate_session_csrf(s, now, idle)
    PROVE  TablesInv'
<1>1. BoundedIdle(s, idle) \in Nat
  BY DEF BoundedIdle, TablesInv, TablesTypeOK, SessionRow
<1>2. sessions' \in [SessionId -> SessionRow]
  BY <1>1 DEF rotate_session_csrf, TablesInv, TablesTypeOK, SessionRow
<1> QED
  BY <1>2, SessionTable_Inv DEF rotate_session_csrf

(* Logging out preserves TablesInv. *)
LEMMA delete_session_Inv ==
    ASSUME TablesInv, NEW s \in SessionId, delete_session(s)
    PROVE  TablesInv'
<1>1. sessions' \in [SessionId -> SessionRow]
  BY DEF delete_session, TablesInv, TablesTypeOK, SessionRow
<1> QED
  BY <1>1, SessionTable_Inv DEF delete_session

(* Requesting a recovery preserves TablesInv. *)
LEMMA create_recovery_Inv ==
    ASSUME TablesInv, NEW r \in RecoveryId, NEW u \in UserId, create_recovery(r, u)
    PROVE  TablesInv'
<1> USE DEF create_recovery
<1>1. TablesTypeOK'
  BY DEF TablesInv, TablesTypeOK, RecoveryRow
<1>2. LiveRowsHaveUsers'
  BY DEF TablesInv, LiveRowsHaveUsers, Users, TablesTypeOK
<1>3. OpenCapabilityIsCurrent' /\ PasskeysAreSpent' /\ CapabilityRegistersOnce' /\ CeremonyRegistersOnce'
  BY DEF TablesInv, OpenCapabilityIsCurrent, PasskeysAreSpent, CapabilityRegistersOnce,
         CeremonyRegistersOnce, CapabilityOf
<1> QED
  BY <1>1, <1>2, <1>3 DEF TablesInv

(* What the UPDATEs of an invalidation leave of a row. *)
LEMMA ConsumedCapabilities ==
    ASSUME TablesTypeOK, NEW u, NEW k \in CapabilityId
    PROVE  LET row == ConsumeCapabilities(u)[k] IN
           /\ row.user = capabilities[k].user /\ row.epoch = capabilities[k].epoch
           /\ row.status = "open" => capabilities[k].status = "open" /\ capabilities[k].user # u
           /\ capabilities[k].status = "absent" => row.status = "absent"
           /\ capabilities[k].status = "consumed" => row.status = "consumed"
  BY DEF TablesTypeOK, ConsumeCapabilities, CapabilityRow

(* The UPDATE of auth_ceremonies in an invalidation changes a status only. *)
LEMMA ConsumedCeremonies ==
    ASSUME TablesTypeOK, NEW u, NEW m \in CeremonyId
    PROVE  LET row == ConsumeCeremonies(u)[m] IN
           /\ row.kind = ceremonies[m].kind /\ row.user = ceremonies[m].user
           /\ row.capability = ceremonies[m].capability
           /\ ceremonies[m].status = "absent" <=> row.status = "absent"
           /\ ceremonies[m].status = "consumed" => row.status = "consumed"
  BY DEF TablesTypeOK, ConsumeCeremonies, CeremonyRow

(* Passkeys stay paid for when no passkey changes but its status, no         *)
(* ceremony its capability, and nothing that is consumed is opened again.    *)
LEMMA SpentStaysSpent ==
    ASSUME TablesInv,
           \A c \in CredentialId : credentials'[c].ceremony = credentials[c].ceremony,
           \A m \in CeremonyId :
              /\ ceremonies'[m].capability = ceremonies[m].capability
              /\ ceremonies[m].status = "consumed" => ceremonies'[m].status = "consumed",
           \A k \in CapabilityId :
              capabilities[k].status = "consumed" => capabilities'[k].status = "consumed"
    PROVE  PasskeysAreSpent' /\ CapabilityRegistersOnce' /\ CeremonyRegistersOnce'
<1>1. \A c \in CredentialId :
         /\ credentials[c].ceremony \in CeremonyId \cup {None}
         /\ CapabilityOf(c)' = CapabilityOf(c)
         /\ CapabilityOf(c) \in CapabilityId \cup {None}
  BY DEF TablesInv, TablesTypeOK, CapabilityOf, CredentialRow, CeremonyRow
<1>2. PasskeysAreSpent'
  BY <1>1 DEF TablesInv, PasskeysAreSpent
<1>3. CapabilityRegistersOnce'
  BY <1>1 DEF TablesInv, CapabilityRegistersOnce
<1>4. CeremonyRegistersOnce'
  BY <1>1 DEF TablesInv, CeremonyRegistersOnce
<1> QED
  BY <1>2, <1>3, <1>4

(* The UPDATE of auth_epoch keeps human_users in its type. *)
LEMMA AdvancedEpoch ==
    ASSUME TablesTypeOK, NEW u \in UserId
    PROVE  AdvanceEpoch(u) \in [UserId -> UserRow]
<1>1. users[u] \in UserRow /\ users \in [UserId -> UserRow]
  BY DEF TablesTypeOK
<1>2. [users[u] EXCEPT !.epoch = @ + 1] \in UserRow
  BY <1>1, UpdatedRows
<1>3. AdvanceEpoch(u) = [users EXCEPT ![u] = [users[u] EXCEPT !.epoch = @ + 1]]
  BY <1>1 DEF AdvanceEpoch
<1> QED
  BY <1>1, <1>2, <1>3

(* Approving a recovery preserves TablesInv: the capabilities of the epoch *)
(* it ends are consumed in the same transaction.                           *)
LEMMA approve_recovery_Inv ==
    ASSUME TablesInv, NEW r \in RecoveryId, approve_recovery(r)
    PROVE  TablesInv'
<1> DEFINE u == recoveries[r].user
<1> USE DEF approve_recovery
<1>0. u \in Users /\ u \in UserId /\ TablesTypeOK
  BY DEF TablesInv, LiveRowsHaveUsers, Users
<1>1. TablesTypeOK'
  <2>1. users' \in [UserId -> UserRow]
    BY <1>0, AdvancedEpoch
  <2>2. recoveries' \in [RecoveryId -> RecoveryRow]
    <3>1. users[u].epoch + 1 \in Nat /\ recoveries[r] \in RecoveryRow
      BY <1>0 DEF TablesTypeOK, UserRow
    <3>2. [recoveries[r] EXCEPT !.stage = "approved", !.epoch = users[u].epoch + 1] \in RecoveryRow
      BY <3>1 DEF RecoveryRow
    <3>3. recoveries' = [recoveries EXCEPT ![r] =
             [recoveries[r] EXCEPT !.stage = "approved", !.epoch = users[u].epoch + 1]]
      BY <1>0 DEF TablesTypeOK
    <3> QED
      BY <1>0, <3>2, <3>3 DEF TablesTypeOK
  <2>3. audit' \in [EventType -> [UserId -> Nat]]
    BY <1>0, AuditType DEF EventType
  <2> QED
    BY <2>1, <2>2, <2>3, <1>0, InvalidationTypes DEF TablesTypeOK
<1>2. Users' = Users /\ \A v \in UserId : v # u => users'[v] = users[v]
  BY <1>0 DEF TablesTypeOK, AdvanceEpoch, Users, UserRow
<1>3. LiveRowsHaveUsers'
  <2>1. \A k \in CapabilityId : capabilities'[k].status = "open" => capabilities'[k].user \in Users
    BY <1>0, ConsumedCapabilities DEF TablesInv, LiveRowsHaveUsers
  <2>2. \A q \in RecoveryId : recoveries'[q].stage # "absent" => recoveries'[q].user \in Users
    BY <1>0 DEF TablesInv, LiveRowsHaveUsers, TablesTypeOK, RecoveryRow
  <2>3. \A m \in CeremonyId :
           (ceremonies'[m].status # "absent" /\ ceremonies'[m].kind # "authentication")
              => ceremonies'[m].user \in UserId
    BY <1>0, ConsumedCeremonies DEF TablesInv, LiveRowsHaveUsers
  <2> QED
    BY <1>2, <2>1, <2>2, <2>3 DEF LiveRowsHaveUsers
<1>4. OpenCapabilityIsCurrent'
  BY <1>0, <1>2, ConsumedCapabilities DEF TablesInv, OpenCapabilityIsCurrent, LiveRowsHaveUsers, Users
<1>5. PasskeysAreSpent' /\ CapabilityRegistersOnce' /\ CeremonyRegistersOnce'
  BY <1>0, SpentStaysSpent, ConsumedCapabilities, ConsumedCeremonies
<1> QED
  BY <1>1, <1>3, <1>4, <1>5 DEF TablesInv

(* Issuing a recovery's setup capability preserves TablesInv. *)
LEMMA issue_recovery_setup_Inv ==
    ASSUME TablesInv, NEW r \in RecoveryId, NEW k \in CapabilityId, NEW u \in UserId,
           NEW expires \in Nat, NEW time \in Nat,
           issue_recovery_setup(r, k, u, expires, time)
    PROVE  TablesInv'
<1> USE DEF issue_recovery_setup, InsertCapability
<1>0. u \in Users /\ TablesTypeOK
  BY DEF TablesInv, LiveRowsHaveUsers
<1>1. TablesTypeOK'
  <2>1. capabilities' \in [CapabilityId -> CapabilityRow]
    BY <1>0 DEF TablesTypeOK, CapabilityRow, CapabilityPurpose, UserRow
  <2>2. recoveries' \in [RecoveryId -> RecoveryRow]
    BY <1>0 DEF TablesTypeOK, RecoveryRow
  <2>3. audit' \in [EventType -> [UserId -> Nat]]
    BY <1>0, AuditType DEF EventType
  <2> QED
    BY <2>1, <2>2, <2>3, <1>0 DEF TablesTypeOK
<1>2. LiveRowsHaveUsers'
  BY <1>0 DEF TablesInv, LiveRowsHaveUsers, Users, TablesTypeOK
<1>3. OpenCapabilityIsCurrent'
  BY <1>0 DEF TablesInv, OpenCapabilityIsCurrent, TablesTypeOK
<1>4. \A j \in CapabilityId : capabilities[j].status = "consumed" => capabilities'[j].status = "consumed"
  BY <1>0 DEF TablesTypeOK
<1>5. PasskeysAreSpent' /\ CapabilityRegistersOnce' /\ CeremonyRegistersOnce'
  BY <1>4, SpentStaysSpent
<1> QED
  BY <1>1, <1>2, <1>3, <1>5 DEF TablesInv

(* Break-glass preserves TablesInv: the window it opens belongs to the epoch *)
(* it establishes.                                                           *)
LEMMA break_glass_Inv ==
    ASSUME TablesInv, NEW c \in CredentialId, NEW u \in UserId, NEW k \in CapabilityId,
           NEW expires \in Nat, NEW time \in Nat,
           break_glass(c, u, k, expires, time)
    PROVE  TablesInv'
<1> USE DEF break_glass
<1> DEFINE opened == [status |-> "open", user |-> u, purpose |-> "operator_recovery",
                      expires |-> expires, created |-> time, epoch |-> users[u].epoch + 1]
<1>0. u \in Users /\ TablesTypeOK
  BY DEF TablesInv, LiveOperatorCredentials, CredentialsOf, Operators, Users
<1>1. opened \in CapabilityRow
  BY <1>0 DEF TablesTypeOK, CapabilityRow, CapabilityPurpose, UserRow
<1>2. /\ ConsumeCapabilities(u) \in [CapabilityId -> CapabilityRow]
      /\ capabilities' = [ConsumeCapabilities(u) EXCEPT ![k] = opened]
  BY <1>0, InvalidationTypes DEF InsertCapability
<1>3. TablesTypeOK'
  <2>1. users' \in [UserId -> UserRow]
    BY <1>0, AdvancedEpoch
  <2>2. credentials' \in [CredentialId -> CredentialRow]
    BY <1>0 DEF TablesTypeOK, CredentialRow
  <2>3. audit' \in [EventType -> [UserId -> Nat]]
    BY <1>0, AuditType DEF EventType
  <2>4. capabilities' \in [CapabilityId -> CapabilityRow]
    BY <1>1, <1>2
  <2> QED
    BY <2>1, <2>2, <2>3, <2>4, <1>0, InvalidationTypes DEF TablesTypeOK
<1>4. /\ Users' = Users
      /\ users'[u].epoch = users[u].epoch + 1
      /\ \A v \in UserId : v # u => users'[v] = users[v]
  BY <1>0 DEF TablesTypeOK, AdvanceEpoch, Users, UserRow
<1>5. /\ capabilities'[k] = opened
      /\ \A j \in CapabilityId : j # k => capabilities'[j] = ConsumeCapabilities(u)[j]
  BY <1>2
<1>6. LiveRowsHaveUsers'
  <2>1. \A j \in CapabilityId : capabilities'[j].status = "open" => capabilities'[j].user \in Users
    BY <1>0, <1>5, ConsumedCapabilities DEF TablesInv, LiveRowsHaveUsers
  <2>2. \A m \in CeremonyId :
           (ceremonies'[m].status # "absent" /\ ceremonies'[m].kind # "authentication")
              => ceremonies'[m].user \in UserId
    BY <1>0, ConsumedCeremonies DEF TablesInv, LiveRowsHaveUsers
  <2> QED
    BY <1>4, <2>1, <2>2 DEF LiveRowsHaveUsers, TablesInv
<1>7. OpenCapabilityIsCurrent'
  <2>1. ASSUME NEW j \in CapabilityId, capabilities'[j].status = "open"
        PROVE  capabilities'[j].epoch = users'[capabilities'[j].user].epoch
    <3>1. CASE j = k
      BY <3>1, <1>4, <1>5
    <3>2. CASE j # k
      BY <2>1, <3>2, <1>0, <1>4, <1>5, ConsumedCapabilities
         DEF TablesInv, OpenCapabilityIsCurrent, LiveRowsHaveUsers, Users
    <3> QED
      BY <3>1, <3>2
  <2> QED
    BY <2>1 DEF OpenCapabilityIsCurrent
<1>8. \A d \in CredentialId : credentials'[d].ceremony = credentials[d].ceremony
  BY <1>0 DEF TablesTypeOK, CredentialRow
<1>9. PasskeysAreSpent' /\ CapabilityRegistersOnce' /\ CeremonyRegistersOnce'
  BY <1>0, <1>5, <1>8, SpentStaysSpent, ConsumedCapabilities, ConsumedCeremonies
<1> QED
  BY <1>3, <1>6, <1>7, <1>9 DEF TablesInv

(* Rotating every epoch preserves TablesInv: no capability stays open. *)
LEMMA rotate_all_auth_epochs_Inv ==
    ASSUME TablesInv, rotate_all_auth_epochs
    PROVE  TablesInv'
<1> USE DEF rotate_all_auth_epochs
<1>0. TablesTypeOK
  BY DEF TablesInv
<1>1. TablesTypeOK'
  <2>1. users' \in [UserId -> UserRow]
    BY <1>0, UpdatedRows DEF TablesTypeOK
  <2>2. sessions' \in [SessionId -> SessionRow]
    BY <1>0, UpdatedRows DEF TablesTypeOK
  <2>3. ceremonies' \in [CeremonyId -> CeremonyRow]
    BY <1>0, UpdatedRows DEF TablesTypeOK
  <2>4. capabilities' \in [CapabilityId -> CapabilityRow]
    BY <1>0, UpdatedRows DEF TablesTypeOK
  <2>5. audit' \in [EventType -> [UserId -> Nat]]
    <3> DEFINE e == "auth.epoch_rotated_all"
               counts == [u \in UserId |-> IF u \in Users THEN audit[e][u] + 1 ELSE audit[e][u]]
    <3>1. \A u \in UserId : audit[e][u] \in Nat
      BY <1>0 DEF TablesTypeOK, EventType
    <3>2. counts \in [UserId -> Nat]
      BY <3>1
    <3>3. audit' = [audit EXCEPT ![e] = counts]
      OBVIOUS
    <3> QED
      BY <1>0, <3>2, <3>3 DEF TablesTypeOK
  <2> QED
    BY <2>1, <2>2, <2>3, <2>4, <2>5, <1>0 DEF TablesTypeOK
<1>2. Users' = Users
  BY <1>0 DEF TablesTypeOK, Users, UserRow
<1>3. \A k \in CapabilityId :
         /\ capabilities'[k].status # "open"
         /\ capabilities[k].status = "consumed" => capabilities'[k].status = "consumed"
  BY <1>0 DEF TablesTypeOK, CapabilityRow
<1>4. \A m \in CeremonyId :
         /\ ceremonies'[m].kind = ceremonies[m].kind /\ ceremonies'[m].user = ceremonies[m].user
         /\ ceremonies'[m].capability = ceremonies[m].capability
         /\ ceremonies[m].status = "absent" <=> ceremonies'[m].status = "absent"
         /\ ceremonies[m].status = "consumed" => ceremonies'[m].status = "consumed"
  BY <1>0 DEF TablesTypeOK, CeremonyRow
<1>5. LiveRowsHaveUsers'
  BY <1>2, <1>3, <1>4 DEF TablesInv, LiveRowsHaveUsers
<1>6. OpenCapabilityIsCurrent'
  BY <1>3 DEF OpenCapabilityIsCurrent
<1>7. PasskeysAreSpent' /\ CapabilityRegistersOnce' /\ CeremonyRegistersOnce'
  BY <1>3, <1>4, SpentStaysSpent
<1> QED
  BY <1>1, <1>5, <1>6, <1>7 DEF TablesInv

-----------------------------------------------------------------------------
(* No transaction changes what an inserted ceremony or capability is for.   *)

RowsKeep ==
    /\ \A m \in CeremonyId : ceremonies[m].status # "absent" =>
          /\ ceremonies'[m].status # "absent"
          /\ ceremonies'[m].kind = ceremonies[m].kind
          /\ ceremonies'[m].user = ceremonies[m].user
          /\ ceremonies'[m].capability = ceremonies[m].capability
    /\ \A k \in CapabilityId : capabilities[k].status # "absent" =>
          /\ capabilities'[k].status # "absent"
          /\ capabilities'[k].user = capabilities[k].user

NoNewCeremony ==
    \A m \in CeremonyId : ceremonies[m].status = "absent" => ceremonies'[m].status = "absent"

(* A transaction that inserts no ceremony leaves each with its capability's *)
(* user.                                                                    *)
LEMMA ServesCapability ==
    ASSUME TablesTypeOK, CeremonyServesCapability, RowsKeep, NoNewCeremony
    PROVE  CeremonyServesCapability'
<1>1. \A m \in CeremonyId : ceremonies[m].capability \in CapabilityId \cup {None}
  BY DEF TablesTypeOK, CeremonyRow
<1> QED
  BY <1>1 DEF CeremonyServesCapability, RowsKeep, NoNewCeremony

(* A transaction that writes neither table keeps their rows. *)
LEMMA UnchangedRows ==
    ASSUME UNCHANGED <<ceremonies, capabilities>>
    PROVE  RowsKeep /\ NoNewCeremony
  BY DEF RowsKeep, NoNewCeremony

(* Inserting a capability under a fresh identifier keeps the other rows. *)
LEMMA InsertedCapability ==
    ASSUME TablesTypeOK, UNCHANGED ceremonies,
           NEW k \in CapabilityId, capabilities[k].status = "absent",
           \A j \in CapabilityId : j # k => capabilities'[j] = capabilities[j]
    PROVE  RowsKeep /\ NoNewCeremony
  BY DEF RowsKeep, NoNewCeremony

(* Consuming a ceremony and a capability keeps what they are for. *)
LEMMA ConsumedCeremony ==
    ASSUME TablesTypeOK, NEW m \in CeremonyId, ceremonies[m].status = "open",
           ceremonies' = [ceremonies EXCEPT ![m].status = "consumed"],
           NEW k,
           capabilities' = IF k = None THEN capabilities
                           ELSE [capabilities EXCEPT ![k].status = "consumed"]
    PROVE  RowsKeep /\ NoNewCeremony
<1>1. \A n \in CeremonyId :
         /\ ceremonies'[n].kind = ceremonies[n].kind /\ ceremonies'[n].user = ceremonies[n].user
         /\ ceremonies'[n].capability = ceremonies[n].capability
         /\ ceremonies[n].status = "absent" <=> ceremonies'[n].status = "absent"
  BY DEF TablesTypeOK, CeremonyRow
<1>2. \A j \in CapabilityId :
         /\ capabilities'[j].user = capabilities[j].user
         /\ capabilities[j].status # "absent" => capabilities'[j].status # "absent"
  BY DEF TablesTypeOK, CapabilityRow
<1> QED
  BY <1>1, <1>2 DEF RowsKeep, NoNewCeremony

(* approve_recovery keeps what ceremonies and capabilities are for. *)
LEMMA approve_recovery_Keeps ==
    ASSUME TablesTypeOK, NEW r \in RecoveryId, approve_recovery(r)
    PROVE  RowsKeep /\ NoNewCeremony
<1> DEFINE u == recoveries[r].user
<1>1. ceremonies' = ConsumeCeremonies(u) /\ capabilities' = ConsumeCapabilities(u)
  BY DEF approve_recovery
<1>2. \A k \in CapabilityId :
         /\ capabilities'[k].user = capabilities[k].user
         /\ capabilities[k].status # "absent" => capabilities'[k].status # "absent"
  BY <1>1 DEF TablesTypeOK, ConsumeCapabilities, CapabilityRow
<1> QED
  BY <1>1, <1>2, ConsumedCeremonies DEF RowsKeep, NoNewCeremony

(* break_glass keeps what ceremonies and capabilities are for. *)
LEMMA break_glass_Keeps ==
    ASSUME TablesTypeOK, NEW c \in CredentialId, NEW u \in UserId, NEW k \in CapabilityId,
           NEW expires, NEW time, break_glass(c, u, k, expires, time)
    PROVE  RowsKeep /\ NoNewCeremony
<1>1. ceremonies' = ConsumeCeremonies(u) /\ capabilities[k].status = "absent"
  BY DEF break_glass
<1>2. \A j \in CapabilityId : j # k => capabilities'[j] = ConsumeCapabilities(u)[j]
  BY InvalidationTypes DEF break_glass, InsertCapability
<1>3. \A j \in CapabilityId :
         /\ ConsumeCapabilities(u)[j].user = capabilities[j].user
         /\ capabilities[j].status # "absent" => ConsumeCapabilities(u)[j].status # "absent"
  BY DEF TablesTypeOK, ConsumeCapabilities, CapabilityRow
<1> QED
  BY <1>1, <1>2, <1>3, ConsumedCeremonies DEF RowsKeep, NoNewCeremony

(* rotate_all_auth_epochs keeps what ceremonies and capabilities are for. *)
LEMMA rotate_all_auth_epochs_Keeps ==
    ASSUME TablesTypeOK, rotate_all_auth_epochs
    PROVE  RowsKeep /\ NoNewCeremony
<1>1. \A m \in CeremonyId :
         /\ ceremonies'[m].kind = ceremonies[m].kind /\ ceremonies'[m].user = ceremonies[m].user
         /\ ceremonies'[m].capability = ceremonies[m].capability
         /\ ceremonies[m].status = "absent" <=> ceremonies'[m].status = "absent"
  BY DEF rotate_all_auth_epochs, TablesTypeOK, CeremonyRow
<1>2. \A k \in CapabilityId :
         /\ capabilities'[k].user = capabilities[k].user
         /\ capabilities[k].status # "absent" => capabilities'[k].status # "absent"
  BY DEF rotate_all_auth_epochs, TablesTypeOK, CapabilityRow
<1> QED
  BY <1>1, <1>2 DEF RowsKeep, NoNewCeremony

-----------------------------------------------------------------------------
(* Stack frames.                                                            *)

(* What a request has read stays true when rows are kept. *)
LEMMA FrameStays ==
    ASSUME NEW frame \in Frame, FrameAgrees(frame), RowsKeep
    PROVE  FrameAgrees(frame)'
  BY DEF FrameAgrees, RowsKeep, Frame

(* A step of no request: the frames stay as they are. *)
LEMMA UnchangedTask ==
    ASSUME RegistrationInv, UNCHANGED <<clock, task>>, RowsKeep, CeremonyServesCapability', TablesInv'
    PROVE  RegistrationInv'
<1>1. TypeOK'
  BY DEF RegistrationInv, TypeOK, TablesInv
<1>2. ASSUME NEW p \in Task PROVE FrameAgrees(task[p])'
  <2>1. task[p] \in Frame /\ FrameAgrees(task[p])
    BY DEF RegistrationInv, TypeOK
  <2> QED
    BY <2>1, FrameStays DEF FrameAgrees
<1> QED
  BY <1>1, <1>2 DEF RegistrationInv

(* One request's frame changes, to one that agrees with the new tables. *)
LEMMA ChangedTask ==
    ASSUME RegistrationInv, NEW p \in Task, NEW frame \in Frame,
           task' = [task EXCEPT ![p] = frame], UNCHANGED clock,
           FrameAgrees(frame)', RowsKeep, CeremonyServesCapability', TablesInv'
    PROVE  RegistrationInv'
<1>1. TypeOK'
  BY DEF RegistrationInv, TypeOK, TablesInv
<1>2. ASSUME NEW q \in Task PROVE FrameAgrees(task[q])'
  <2>0. task \in [Task -> Frame]
    BY DEF RegistrationInv, TypeOK
  <2>1. CASE q = p
    BY <2>0, <2>1 DEF FrameAgrees
  <2>2. CASE q # p
    <3>1. task[q] \in Frame /\ FrameAgrees(task[q]) /\ task'[q] = task[q]
      BY <2>0, <2>2 DEF RegistrationInv
    <3> QED
      BY <3>1, FrameStays DEF FrameAgrees
  <2> QED
    BY <2>1, <2>2
<1> QED
  BY <1>1, <1>2 DEF RegistrationInv

(* A request that returns leaves an idle frame. *)
LEMMA ReturnedTask ==
    ASSUME RegistrationInv, NEW p \in Task, Return(p), UNCHANGED clock,
           RowsKeep, CeremonyServesCapability', TablesInv'
    PROVE  RegistrationInv'
<1>1. Idle \in Frame /\ Idle.pc = "idle"
  BY DEF Idle, Frame, Pc
<1>2. FrameAgrees(Idle)'
  BY DEF FrameAgrees, Idle
<1> QED
  BY <1>1, <1>2, ChangedTask DEF Return

(* A step that only reads preserves every fact about the tables. *)
LEMMA UnchangedTables ==
    ASSUME RegistrationInv, UNCHANGED tables
    PROVE  TablesInv' /\ CeremonyServesCapability' /\ RowsKeep
<1>1. UNCHANGED <<users, credentials, capabilities, ceremonies, sessions, recoveries, audit>>
  BY DEF tables
<1>2. TablesInv'
  BY <1>1, SessionTable_Inv DEF RegistrationInv, TablesInv, TablesTypeOK
<1> QED
  BY <1>1, <1>2, UnchangedRows, ServesCapability DEF RegistrationInv, TablesInv

-----------------------------------------------------------------------------
(* Every step of a request preserves the invariant.                         *)

(* Timestamps, and expiries computed from them, are natural numbers. *)
LEMMA Timestamps ==
    ASSUME TypeOK, NEW now \in Now
    PROVE  /\ now \in Nat /\ now + CeremonyTtl \in Nat /\ now + CapabilityTtl \in Nat
           /\ now + SessionIdleTtl \in Nat /\ now + SessionAbsoluteTtl \in Nat
           /\ \A window \in 1 .. MaxWindow : now + window \in Nat
  BY ConfigAssumption DEF TypeOK, Now

(* The frame of an idle request. *)
LEMMA IdleFields ==
    /\ Idle \in Frame
    /\ Idle.user = None /\ Idle.capability = None /\ Idle.ceremony = None /\ Idle.session = None
  BY DEF Idle, Frame, Pc

(* start_setup_registration, its read. *)
LEMMA SetupStartStep ==
    ASSUME RegistrationInv, NEW p \in Task, SetupStart(p)
    PROVE  RegistrationInv'
<1>1. PICK k \in CapabilityId, now \in Now :
         /\ CapabilityOpen(k, now)
         /\ Continue(p, [Idle EXCEPT !.pc = "setup_insert", !.now = now,
                                     !.user = capabilities[k].user, !.capability = k])
         /\ UNCHANGED <<tables, clock>>
  BY DEF SetupStart
<1>0. PICK frame : frame = [Idle EXCEPT !.pc = "setup_insert", !.now = now,
                                       !.user = capabilities[k].user, !.capability = k]
  OBVIOUS
<1>2. capabilities[k].status = "open" /\ capabilities[k].user \in UserId /\ now \in Nat
  BY <1>1, Timestamps
     DEF CapabilityOpen, RegistrationInv, TablesInv, LiveRowsHaveUsers, Users
<1>3. frame \in Frame
  BY <1>0, <1>2 DEF Frame, Pc, Idle
<1>4. FrameAgrees(frame)'
  BY <1>0, <1>1, <1>2 DEF FrameAgrees, Idle, tables
<1> QED
  BY <1>0, <1>1, <1>3, <1>4, UnchangedTables, ChangedTask DEF Continue

(* The insertion of a registration ceremony after the read that decided it. *)
LEMMA InsertStep ==
    ASSUME RegistrationInv, NEW p \in Task,
           task[p].pc \in {"setup_insert", "bootstrap_insert"},
           NEW m \in CeremonyId, NEW kind \in CeremonyKind,
           insert_ceremony(m, kind, task[p].user, task[p].capability, task[p].now + CeremonyTtl),
           Return(p), UNCHANGED clock
    PROVE  RegistrationInv'
<1>1. task[p] \in Frame /\ FrameAgrees(task[p])
  BY DEF RegistrationInv, TypeOK
<1>2. /\ task[p].user \in UserId /\ task[p].capability \in CapabilityId \cup {None}
      /\ task[p].now + CeremonyTtl \in Nat
  BY <1>1, ConfigAssumption DEF FrameAgrees, Frame
<1>3. TablesInv'
  BY <1>2, insert_ceremony_Inv DEF RegistrationInv
<1>4. RowsKeep
  BY DEF insert_ceremony, RowsKeep, RegistrationInv, TablesInv, TablesTypeOK
<1>5. CeremonyServesCapability'
  BY <1>1, <1>2 DEF insert_ceremony, CeremonyServesCapability, FrameAgrees,
     RegistrationInv, TablesInv, TablesTypeOK
<1> QED
  BY <1>3, <1>4, <1>5, ReturnedTask

(* start_setup_registration, its insertion. *)
LEMMA SetupInsertStep ==
    ASSUME RegistrationInv, NEW p \in Task, SetupInsert(p)
    PROVE  RegistrationInv'
  BY InsertStep DEF SetupInsert, CeremonyKind

(* start_operator_bootstrap, the search for a recovery window. *)
LEMMA BootstrapStartStep ==
    ASSUME RegistrationInv, NEW p \in Task, BootstrapStart(p)
    PROVE  RegistrationInv'
<1>1. PICK now \in Now :
         /\ IF OpenWindows(now) # {}
            THEN \E k \in operator_recovery_window(now) :
                    Continue(p, [Idle EXCEPT !.pc = "bootstrap_insert", !.now = now,
                                             !.user = capabilities[k].user, !.capability = k])
            ELSE Continue(p, [Idle EXCEPT !.pc = "bootstrap_operator", !.now = now])
         /\ UNCHANGED <<tables, clock>>
  BY DEF BootstrapStart
<1>2. now \in Nat
  BY Timestamps DEF RegistrationInv
<1>3. CASE OpenWindows(now) # {}
  <2>1. PICK k \in operator_recovery_window(now) :
           Continue(p, [Idle EXCEPT !.pc = "bootstrap_insert", !.now = now,
                                    !.user = capabilities[k].user, !.capability = k])
    BY <1>1, <1>3
  <2>0. PICK frame : frame = [Idle EXCEPT !.pc = "bootstrap_insert", !.now = now,
                                         !.user = capabilities[k].user, !.capability = k]
    OBVIOUS
  <2>2. /\ k \in CapabilityId /\ capabilities[k].status = "open"
        /\ capabilities[k].user \in UserId
    BY DEF operator_recovery_window, OpenWindows, CapabilityOpen, Operators
  <2>3. frame \in Frame
    BY <1>2, <2>0, <2>2 DEF Frame, Pc, Idle
  <2>4. FrameAgrees(frame)'
    BY <1>1, <2>0, <2>2 DEF FrameAgrees, Idle, tables
  <2> QED
    BY <1>1, <2>0, <2>1, <2>3, <2>4, UnchangedTables, ChangedTask DEF Continue
<1>4. CASE OpenWindows(now) = {}
  <2> DEFINE frame == [Idle EXCEPT !.pc = "bootstrap_operator", !.now = now]
  <2>1. Continue(p, frame)
    BY <1>1, <1>4
  <2>2. frame \in Frame /\ FrameAgrees(frame)'
    BY <1>2 DEF Frame, Pc, Idle, FrameAgrees
  <2> HIDE DEF frame
  <2> QED
    BY <1>1, <2>1, <2>2, UnchangedTables, ChangedTask DEF Continue
<1> QED
  BY <1>3, <1>4

(* start_operator_bootstrap, the search for an operator without passkey. *)
LEMMA BootstrapOperatorStep ==
    ASSUME RegistrationInv, NEW p \in Task, BootstrapOperator(p)
    PROVE  RegistrationInv'
<1>1. PICK u \in operator_without_credential :
         task' = [task EXCEPT ![p].pc = "bootstrap_insert", ![p].user = u]
  BY DEF BootstrapOperator
<1>0. PICK frame : frame = [task[p] EXCEPT !.pc = "bootstrap_insert", !.user = u]
  OBVIOUS
<1>2. u \in UserId
  BY DEF operator_without_credential, Operators
<1>3. task[p] \in Frame /\ task \in [Task -> Frame]
  BY DEF RegistrationInv, TypeOK
<1>4. frame \in Frame /\ task' = [task EXCEPT ![p] = frame]
  BY <1>0, <1>1, <1>2, <1>3 DEF Frame, Pc
<1>5. FrameAgrees(frame)'
  <2>1. task[p].capability = None
    BY DEF BootstrapOperator, RegistrationInv, FrameAgrees
  <2>2. frame.pc = "bootstrap_insert" /\ frame.user = u /\ frame.capability = None
    BY <1>0, <1>3, <2>1 DEF Frame
  <2> QED
    BY <1>2, <2>2 DEF FrameAgrees
<1> QED
  BY <1>4, <1>5, UnchangedTables, ChangedTask DEF BootstrapOperator

(* start_operator_bootstrap, its insertion. *)
LEMMA BootstrapInsertStep ==
    ASSUME RegistrationInv, NEW p \in Task, BootstrapInsert(p)
    PROVE  RegistrationInv'
<1>1. (IF task[p].capability = None THEN "operator_bootstrap" ELSE "operator_recovery") \in CeremonyKind
  BY DEF CeremonyKind
<1> QED
  BY <1>1, InsertStep DEF BootstrapInsert

(* finish_registration, its read. *)
LEMMA RegistrationFinishStep ==
    ASSUME RegistrationInv, NEW p \in Task, RegistrationFinish(p)
    PROVE  RegistrationInv'
<1>1. PICK m \in CeremonyId, now \in Now :
         /\ ceremonies[m].kind # "authentication"
         /\ CeremonyOpen(m, now)
         /\ Continue(p, [Idle EXCEPT !.pc = "registration", !.now = now, !.ceremony = m,
                                     !.capability = ceremonies[m].capability])
         /\ UNCHANGED <<tables, clock>>
  BY DEF RegistrationFinish
<1>0. PICK frame : frame = [Idle EXCEPT !.pc = "registration", !.now = now, !.ceremony = m,
                                       !.capability = ceremonies[m].capability]
  OBVIOUS
<1>2. /\ ceremonies[m].status = "open" /\ now \in Nat
      /\ ceremonies[m].capability \in CapabilityId \cup {None}
  BY <1>1, Timestamps
     DEF CeremonyOpen, RegistrationInv, TypeOK, TablesTypeOK, CeremonyRow
<1>3. frame \in Frame
  BY <1>0, <1>2 DEF Frame, Pc, Idle
<1>4. FrameAgrees(frame)'
  BY <1>0, <1>1, <1>2 DEF FrameAgrees, Idle, tables
<1> QED
  BY <1>0, <1>1, <1>3, <1>4, UnchangedTables, ChangedTask DEF Continue

(* finish_registration, its transaction. *)
LEMMA RegistrationCommitStep ==
    ASSUME RegistrationInv, NEW p \in Task, RegistrationCommit(p)
    PROVE  RegistrationInv'
<1> DEFINE m == task[p].ceremony
<1>1. task[p] \in Frame /\ FrameAgrees(task[p]) /\ task[p].pc = "registration"
  BY DEF RegistrationInv, TypeOK, RegistrationCommit
<1>2. /\ m \in CeremonyId /\ task[p].now \in Nat
      /\ ceremonies[m].kind # "authentication"
      /\ ceremonies[m].capability = task[p].capability
  BY <1>1 DEF FrameAgrees, Frame
<1>3. PICK c \in CredentialId :
         complete_registration(m, ceremonies[m].capability, c, task[p].now)
  BY <1>2 DEF RegistrationCommit
<1>4. TablesInv'
  BY <1>2, <1>3, complete_registration_Inv DEF RegistrationInv
<1>5. RowsKeep /\ NoNewCeremony
  BY <1>2, <1>3, ConsumedCeremony
     DEF complete_registration, RegistrationCommits, CeremonyOpen, RegistrationInv, TypeOK
<1>6. CeremonyServesCapability'
  BY <1>5, ServesCapability DEF RegistrationInv, TypeOK
<1> QED
  BY <1>4, <1>5, <1>6, ReturnedTask DEF RegistrationCommit

(* finish_authentication, its reads. *)
LEMMA LoginFinishStep ==
    ASSUME RegistrationInv, NEW p \in Task, LoginFinish(p)
    PROVE  RegistrationInv'
<1>1. PICK m \in CeremonyId, u \in Users, now \in Now :
         /\ Continue(p, [Idle EXCEPT !.pc = "authentication", !.now = now, !.ceremony = m,
                                     !.user = u, !.epoch = users[u].epoch,
                                     !.began = Invalidations(u)])
         /\ UNCHANGED <<tables, clock>>
  BY DEF LoginFinish
<1>0. PICK frame : frame = [Idle EXCEPT !.pc = "authentication", !.now = now, !.ceremony = m,
                                       !.user = u, !.epoch = users[u].epoch,
                                       !.began = Invalidations(u)]
  OBVIOUS
<1>2. u \in UserId /\ users[u].epoch \in Nat /\ now \in Nat
  BY Timestamps DEF Users, RegistrationInv, TypeOK, TablesTypeOK, UserRow
<1>3. Invalidations(u) \in Nat
  BY <1>2 DEF Invalidations, RegistrationInv, TypeOK, TablesTypeOK, EventType
<1>4. frame \in Frame
  BY <1>0, <1>2, <1>3 DEF Frame, Pc, Idle
<1>5. FrameAgrees(frame)'
  BY <1>0, <1>2 DEF FrameAgrees, Idle
<1> QED
  BY <1>0, <1>1, <1>4, <1>5, UnchangedTables, ChangedTask DEF Continue

(* finish_authentication, its transaction. *)
LEMMA LoginCommitStep ==
    ASSUME RegistrationInv, NEW p \in Task, LoginCommit(p)
    PROVE  RegistrationInv'
<1> DEFINE Row(c) == [status     |-> "live",
                      user       |-> task[p].user,
                      epoch      |-> task[p].epoch,
                      csrf       |-> 0,
                      idle       |-> task[p].now + SessionIdleTtl,
                      absolute   |-> task[p].now + SessionAbsoluteTtl,
                      credential |-> c,
                      began      |-> task[p].began]
<1>1. task[p] \in Frame /\ FrameAgrees(task[p]) /\ task[p].pc = "authentication"
  BY DEF RegistrationInv, TypeOK, LoginCommit
<1>2. /\ task[p].ceremony \in CeremonyId /\ task[p].user \in UserId
      /\ task[p].now \in Nat /\ task[p].epoch \in Nat /\ task[p].began \in Nat
  BY <1>1 DEF FrameAgrees, Frame
<1>3. PICK c \in CredentialId, s \in SessionId :
         complete_authentication(task[p].ceremony, c, s, Row(c), task[p].now)
  BY DEF LoginCommit
<1>4. Row(c) \in SessionRow
  BY <1>2, ConfigAssumption DEF SessionRow
<1> HIDE DEF Row
<1>5. TablesInv'
  BY <1>2, <1>3, <1>4, complete_authentication_Inv DEF RegistrationInv
<1>6. RowsKeep /\ NoNewCeremony
  BY <1>2, <1>3, ConsumedCeremony
     DEF complete_authentication, CeremonyOpen, RegistrationInv, TypeOK
<1>7. CeremonyServesCapability'
  BY <1>6, ServesCapability DEF RegistrationInv, TypeOK
<1> QED
  BY <1>5, <1>6, <1>7, ReturnedTask DEF LoginCommit

(* A step whose transaction leaves ceremonies and capabilities alone. *)
LEMMA OtherTables ==
    ASSUME RegistrationInv, UNCHANGED <<ceremonies, capabilities>>
    PROVE  RowsKeep /\ CeremonyServesCapability'
  BY UnchangedRows, ServesCapability DEF RegistrationInv, TypeOK

(* authenticate_session with a CSRF token. *)
LEMMA AuthorizeStep ==
    ASSUME RegistrationInv, NEW p \in Task, NEW s \in SessionId, NEW csrf, NEW now \in Now,
           NEW allowed, NEW frame \in Frame,
           frame.pc \in {"logout", "operator"}, frame.pc = "logout" => frame.session \in SessionId,
           Authorize(p, s, csrf, now, allowed, frame)
    PROVE  RegistrationInv'
<1>1. now \in Nat /\ now + SessionIdleTtl \in Nat
  BY Timestamps DEF RegistrationInv
<1>2. TablesInv'
  BY <1>1, session_Inv DEF Authorize, RegistrationInv
<1>3. RowsKeep /\ CeremonyServesCapability'
  BY OtherTables DEF Authorize, session
<1>4. CASE UNCHANGED task
  BY <1>2, <1>3, <1>4, UnchangedTask DEF Authorize
<1>5. CASE Continue(p, frame)
  <2>1. FrameAgrees(frame)'
    BY DEF FrameAgrees
  <2> QED
    BY <1>2, <1>3, <1>5, <2>1, ChangedTask DEF Authorize, Continue
<1> QED
  BY <1>4, <1>5 DEF Authorize

(* logout, its authentication. *)
LEMMA LogoutStep ==
    ASSUME RegistrationInv, NEW p \in Task, Logout(p)
    PROVE  RegistrationInv'
<1>1. PICK s \in SessionId, now \in Now : \E csrf \in 0 .. sessions[s].csrf :
         Authorize(p, s, csrf, now, TRUE, [Idle EXCEPT !.pc = "logout", !.session = s])
  BY DEF Logout
<1>2. PICK frame : frame = [Idle EXCEPT !.pc = "logout", !.session = s]
  OBVIOUS
<1>3. frame \in Frame /\ frame.pc = "logout" /\ frame.session = s
  BY <1>2 DEF Frame, Pc, Idle
<1> QED
  BY <1>1, <1>2, <1>3, AuthorizeStep

(* logout, its transaction. *)
LEMMA LogoutCommitStep ==
    ASSUME RegistrationInv, NEW p \in Task, LogoutCommit(p)
    PROVE  RegistrationInv'
<1>1. task[p].session \in SessionId
  BY DEF RegistrationInv, FrameAgrees, LogoutCommit
<1>2. TablesInv'
  BY <1>1, delete_session_Inv DEF RegistrationInv, LogoutCommit
<1>3. RowsKeep /\ CeremonyServesCapability'
  BY OtherTables DEF LogoutCommit, delete_session
<1> QED
  BY <1>2, <1>3, ReturnedTask DEF LogoutCommit

(* operator(). *)
LEMMA OperatorRequestStep ==
    ASSUME RegistrationInv, NEW p \in Task, OperatorRequest(p)
    PROVE  RegistrationInv'
<1>1. PICK s \in SessionId, now \in Now : \E csrf \in 0 .. sessions[s].csrf :
         Authorize(p, s, csrf, now, sessions[s].user \in Operators,
                   [Idle EXCEPT !.pc = "operator", !.user = sessions[s].user])
  BY DEF OperatorRequest
<1>2. PICK frame : frame = [Idle EXCEPT !.pc = "operator", !.user = sessions[s].user]
  OBVIOUS
<1>3. sessions[s].user \in UserId \cup {None}
  BY DEF RegistrationInv, TypeOK, TablesTypeOK, SessionRow
<1>4. frame \in Frame /\ frame.pc = "operator"
  BY <1>2, <1>3 DEF Frame, Pc, Idle
<1>5. PICK allowed : allowed = (sessions[s].user \in Operators)
  OBVIOUS
<1> QED
  BY <1>1, <1>2, <1>4, <1>5, AuthorizeStep

(* The handler approve_recovery. *)
LEMMA ApproveRecoveryStep ==
    ASSUME RegistrationInv, NEW p \in Task, ApproveRecovery(p)
    PROVE  RegistrationInv'
<1>1. PICK r \in RecoveryId : approve_recovery(r)
  BY DEF ApproveRecovery
<1>2. TablesInv' /\ RowsKeep /\ NoNewCeremony
  BY <1>1, approve_recovery_Inv, approve_recovery_Keeps DEF RegistrationInv, TypeOK
<1>3. CeremonyServesCapability'
  BY <1>2, ServesCapability DEF RegistrationInv, TypeOK
<1> QED
  BY <1>2, <1>3, ReturnedTask DEF ApproveRecovery

(* The handler issue_recovery_setup. *)
LEMMA IssueRecoverySetupStep ==
    ASSUME RegistrationInv, NEW p \in Task, IssueRecoverySetup(p)
    PROVE  RegistrationInv'
<1>1. PICK r \in RecoveryId, u \in UserId, k \in CapabilityId, now \in Now :
         issue_recovery_setup(r, k, u, now + CapabilityTtl, clock)
  BY DEF IssueRecoverySetup
<1>2. now + CapabilityTtl \in Nat /\ clock \in Nat
  BY Timestamps DEF RegistrationInv, TypeOK
<1>3. TablesInv'
  BY <1>1, <1>2, issue_recovery_setup_Inv DEF RegistrationInv
<1>4. /\ UNCHANGED ceremonies /\ capabilities[k].status = "absent"
      /\ \A j \in CapabilityId : j # k => capabilities'[j] = capabilities[j]
  BY <1>1 DEF issue_recovery_setup, InsertCapability, RegistrationInv, TypeOK, TablesTypeOK
<1>5. RowsKeep /\ CeremonyServesCapability'
  BY <1>4, InsertedCapability, ServesCapability DEF RegistrationInv, TypeOK
<1> QED
  BY <1>3, <1>5, ReturnedTask DEF IssueRecoverySetup

(* The handler approve_user. *)
LEMMA ApproveUserStep ==
    ASSUME RegistrationInv, NEW p \in Task, ApproveUser(p)
    PROVE  RegistrationInv'
<1>1. PICK u \in UserId, k \in CapabilityId, now \in Now :
         approve_user_with_setup(u, k, now + CapabilityTtl, now, clock)
  BY DEF ApproveUser
<1>2. now \in Nat /\ now + CapabilityTtl \in Nat /\ clock \in Nat
  BY Timestamps DEF RegistrationInv, TypeOK
<1>3. TablesInv'
  BY <1>1, <1>2, approve_user_with_setup_Inv DEF RegistrationInv
<1>4. /\ UNCHANGED ceremonies /\ capabilities[k].status = "absent"
      /\ \A j \in CapabilityId : j # k => capabilities'[j] = capabilities[j]
  BY <1>1 DEF approve_user_with_setup, InsertCapability, RegistrationInv, TypeOK, TablesTypeOK
<1>5. RowsKeep /\ CeremonyServesCapability'
  BY <1>4, InsertedCapability, ServesCapability DEF RegistrationInv, TypeOK
<1> QED
  BY <1>3, <1>5, ReturnedTask DEF ApproveUser

(* seed_operator, its check. *)
LEMMA SeedOperatorStep ==
    ASSUME RegistrationInv, NEW p \in Task, SeedOperator(p)
    PROVE  RegistrationInv'
<1>1. PICK now \in Now : Continue(p, [Idle EXCEPT !.pc = "seed", !.now = now])
  BY DEF SeedOperator
<1>2. PICK frame : frame = [Idle EXCEPT !.pc = "seed", !.now = now]
  OBVIOUS
<1>3. now \in Nat
  BY Timestamps DEF RegistrationInv
<1>4. frame \in Frame /\ FrameAgrees(frame)'
  BY <1>2, <1>3 DEF Frame, Pc, Idle, FrameAgrees
<1> QED
  BY <1>1, <1>2, <1>4, UnchangedTables, ChangedTask DEF Continue, SeedOperator

(* seed_operator, its insertion. *)
LEMMA SeedCommitStep ==
    ASSUME RegistrationInv, NEW p \in Task, SeedCommit(p)
    PROVE  RegistrationInv'
<1>1. PICK u \in UserId : insert_user(u, task[p].now)
  BY DEF SeedCommit
<1>2. task[p].now \in Nat
  BY DEF RegistrationInv, TypeOK, Frame
<1>3. TablesInv'
  BY <1>1, <1>2, insert_user_Inv DEF RegistrationInv
<1>4. RowsKeep /\ CeremonyServesCapability'
  BY <1>1, OtherTables DEF insert_user
<1> QED
  BY <1>3, <1>4, ReturnedTask DEF SeedCommit

(* A request that ends early. *)
LEMMA AbortStep ==
    ASSUME RegistrationInv, NEW p \in Task, Abort(p)
    PROVE  RegistrationInv'
  BY UnchangedTables, ReturnedTask DEF Abort

(* Every step of a request in flight preserves RegistrationInv. *)
LEMMA RequestPreserves ==
    ASSUME RegistrationInv, NEW p \in Task, RequestStep(p)
    PROVE  RegistrationInv'
  BY SetupStartStep, SetupInsertStep, BootstrapStartStep, BootstrapOperatorStep,
     BootstrapInsertStep, RegistrationFinishStep, RegistrationCommitStep, LoginFinishStep,
     LoginCommitStep, LogoutStep, LogoutCommitStep, OperatorRequestStep, ApproveRecoveryStep,
     IssueRecoverySetupStep, ApproveUserStep, SeedOperatorStep, SeedCommitStep, AbortStep
  DEF RequestStep

-----------------------------------------------------------------------------
(* Every step that needs no stack frame preserves the invariant.            *)

(* start_authentication. *)
LEMMA LoginStartStep ==
    ASSUME RegistrationInv, LoginStart
    PROVE  RegistrationInv'
<1>1. PICK m \in CeremonyId, now \in Now :
         insert_ceremony(m, "authentication", None, None, now + CeremonyTtl)
  BY DEF LoginStart
<1>2. now + CeremonyTtl \in Nat
  BY Timestamps DEF RegistrationInv
<1>3. TablesInv'
  BY <1>1, <1>2, insert_ceremony_Inv DEF RegistrationInv, CeremonyKind
<1>4. RowsKeep
  BY <1>1 DEF insert_ceremony, RowsKeep, RegistrationInv, TypeOK, TablesTypeOK
<1>5. CeremonyServesCapability'
  BY <1>1 DEF insert_ceremony, CeremonyServesCapability, RegistrationInv, TypeOK, TablesTypeOK
<1> QED
  BY <1>3, <1>4, <1>5, UnchangedTask DEF LoginStart

(* Session reads and session discovery. *)
LEMMA SessionSteps ==
    ASSUME RegistrationInv, AuthenticateSession \/ SessionDiscovery
    PROVE  RegistrationInv'
<1>1. PICK s \in SessionId, now \in Now :
         \/ session(s, now, now + SessionIdleTtl)
         \/ rotate_session_csrf(s, now, now + SessionIdleTtl)
  BY DEF AuthenticateSession, SessionDiscovery
<1>2. now \in Nat /\ now + SessionIdleTtl \in Nat
  BY Timestamps DEF RegistrationInv
<1>3. TablesInv'
  BY <1>1, <1>2, session_Inv, rotate_session_csrf_Inv DEF RegistrationInv
<1>4. RowsKeep /\ CeremonyServesCapability'
  BY <1>1, OtherTables DEF session, rotate_session_csrf
<1> QED
  BY <1>3, <1>4, UnchangedTask DEF AuthenticateSession, SessionDiscovery

(* request_recovery. *)
LEMMA RecoveryRequestStep ==
    ASSUME RegistrationInv, RecoveryRequest
    PROVE  RegistrationInv'
<1>1. PICK r \in RecoveryId, u \in UserId : create_recovery(r, u)
  BY DEF RecoveryRequest
<1>2. TablesInv'
  BY <1>1, create_recovery_Inv DEF RegistrationInv
<1>3. RowsKeep /\ CeremonyServesCapability'
  BY <1>1, OtherTables DEF create_recovery
<1> QED
  BY <1>2, <1>3, UnchangedTask DEF RecoveryRequest

(* The break-glass command. *)
LEMMA BreakGlassStep ==
    ASSUME RegistrationInv, BreakGlass
    PROVE  RegistrationInv'
<1>1. PICK c \in CredentialId, u \in UserId, k \in CapabilityId, now \in Now,
           window \in 1 .. MaxWindow : break_glass(c, u, k, now + window, clock)
  BY DEF BreakGlass
<1>2. now + window \in Nat /\ clock \in Nat
  BY Timestamps DEF RegistrationInv, TypeOK
<1>3. TablesInv' /\ RowsKeep /\ NoNewCeremony
  BY <1>1, <1>2, break_glass_Inv, break_glass_Keeps DEF RegistrationInv, TypeOK
<1>4. CeremonyServesCapability'
  BY <1>3, ServesCapability DEF RegistrationInv, TypeOK
<1> QED
  BY <1>3, <1>4, UnchangedTask DEF BreakGlass

(* The rotate-auth-epoch command. *)
LEMMA RotateAuthEpochStep ==
    ASSUME RegistrationInv, RotateAuthEpoch
    PROVE  RegistrationInv'
<1>1. TablesInv' /\ RowsKeep /\ NoNewCeremony
  BY rotate_all_auth_epochs_Inv, rotate_all_auth_epochs_Keeps
     DEF RotateAuthEpoch, RegistrationInv, TypeOK
<1>2. CeremonyServesCapability'
  BY <1>1, ServesCapability DEF RegistrationInv, TypeOK
<1> QED
  BY <1>1, <1>2, UnchangedTask DEF RotateAuthEpoch

(* The passage of time. *)
LEMMA TickStep ==
    ASSUME RegistrationInv, Tick
    PROVE  RegistrationInv'
<1>1. TablesInv' /\ CeremonyServesCapability' /\ RowsKeep
  BY UnchangedTables DEF Tick
<1>2. TypeOK'
  BY <1>1 DEF Tick, TablesInv, RegistrationInv, TypeOK
<1>3. \A p \in Task : FrameAgrees(task[p])'
  BY DEF Tick, tables, RegistrationInv, FrameAgrees
<1> QED
  BY <1>1, <1>2, <1>3 DEF RegistrationInv

-----------------------------------------------------------------------------
(* The theorems.                                                            *)

(* The initial database, with nobody in flight, satisfies RegistrationInv. *)
LEMMA InitInv == Init => RegistrationInv
<1> SUFFICES ASSUME Init PROVE RegistrationInv
  OBVIOUS
<1> USE DEF Init
<1>1. TablesTypeOK
  <2>1. users \in [UserId -> UserRow]
    BY DEF NoUser, UserRow
  <2>2. credentials \in [CredentialId -> CredentialRow]
    BY InitialAssumption DEF NoCredential, CredentialRow
  <2>3. sessions \in [SessionId -> SessionRow]
    BY InitialAssumption, ConfigAssumption DEF NoSession, SessionRow
  <2>4. capabilities \in [CapabilityId -> CapabilityRow]
    BY DEF NoCapability, CapabilityRow, CapabilityPurpose
  <2>5. ceremonies \in [CeremonyId -> CeremonyRow]
    BY DEF NoCeremony, CeremonyRow, CeremonyKind
  <2>6. recoveries \in [RecoveryId -> RecoveryRow]
    BY DEF NoRecovery, RecoveryRow
  <2>7. audit \in [EventType -> [UserId -> Nat]]
    <3>1. \A u \in UserId :
             /\ Cardinality({c \in DOMAIN Enrolled : Enrolled[c] = u}) \in Nat
             /\ Cardinality({s \in DOMAIN SignedIn : Enrolled[SignedIn[s]] = u}) \in Nat
      BY InitialAssumption, FS_Subset, FS_CardinalityType
    <3> QED
      BY <3>1
  <2> QED
    BY <2>1, <2>2, <2>3, <2>4, <2>5, <2>6, <2>7 DEF TablesTypeOK
<1>2. clock \in Nat /\ task \in [Task -> Frame]
  BY IdleFields
<1>3. LiveRowsHaveUsers /\ OpenCapabilityIsCurrent
  BY DEF LiveRowsHaveUsers, OpenCapabilityIsCurrent, NoCapability, NoCeremony, NoRecovery
<1>4. PasskeysAreSpent /\ CapabilityRegistersOnce /\ CeremonyRegistersOnce
  <2>1. \A c \in CredentialId : credentials[c].ceremony = None
    BY DEF NoCredential
  <2> QED
    BY <2>1 DEF PasskeysAreSpent, CapabilityRegistersOnce, CeremonyRegistersOnce, CapabilityOf
<1>5. CeremonyServesCapability
  BY DEF CeremonyServesCapability, NoCeremony
<1>6. \A p \in Task : FrameAgrees(task[p])
  BY DEF FrameAgrees, Idle
<1> QED
  BY <1>1, <1>2, <1>3, <1>4, <1>5, <1>6 DEF RegistrationInv, TypeOK, TablesInv

(* Every step of the specification preserves RegistrationInv. *)
LEMMA NextInv == RegistrationInv /\ [Next]_vars => RegistrationInv'
<1> SUFFICES ASSUME RegistrationInv, [Next]_vars PROVE RegistrationInv'
  OBVIOUS
<1>1. CASE \E p \in Task : RequestStep(p)
  BY <1>1, RequestPreserves
<1>2. CASE LoginStart \/ AuthenticateSession \/ SessionDiscovery
  BY <1>2, LoginStartStep, SessionSteps
<1>3. CASE RecoveryRequest \/ BreakGlass \/ RotateAuthEpoch
  BY <1>3, RecoveryRequestStep, BreakGlassStep, RotateAuthEpochStep
<1>4. CASE Tick
  BY <1>4, TickStep
<1>5. CASE UNCHANGED vars
  <2>1. UNCHANGED tables /\ UNCHANGED <<clock, task>>
    BY <1>5 DEF vars, tables
  <2> QED
    BY <2>1, UnchangedTables, UnchangedTask
<1> QED
  BY <1>1, <1>2, <1>3, <1>4, <1>5 DEF Next

(* The tables, the clock and the stack frames always hold values of their   *)
(* columns' and locals' types, and what a request in flight has read still  *)
(* agrees with the tables when it writes.                                   *)
THEOREM RegistrationInvariant == Spec => []RegistrationInv
  BY InitInv, NextInv, PTL DEF Spec

(* Every table, the clock and every stack frame stay in their types, in *)
(* every interleaving of requests and commands.                         *)
THEOREM AuthTypeCorrect == Spec => []TypeOK
<1>1. RegistrationInv => TypeOK
  BY DEF RegistrationInv
<1> QED
  BY <1>1, RegistrationInvariant, PTL

(* invalidate_user_auth, break_glass and rotate_all_auth_epochs leave no    *)
(* capability open that was issued before them.                             *)
THEOREM OpenCapabilitiesAreCurrent == Spec => []OpenCapabilityIsCurrent
<1>1. RegistrationInv => OpenCapabilityIsCurrent
  BY DEF RegistrationInv, TablesInv
<1> QED
  BY <1>1, RegistrationInvariant, PTL

(* complete_registration never redeems a setup or recovery token twice,     *)
(* whatever number of requests present it concurrently.                     *)
THEOREM CapabilitiesRegisterOnce == Spec => []CapabilityRegistersOnce
<1>1. RegistrationInv => CapabilityRegistersOnce
  BY DEF RegistrationInv, TablesInv
<1> QED
  BY <1>1, RegistrationInvariant, PTL

(* complete_registration never finishes a ceremony twice. *)
THEOREM CeremoniesRegisterOnce == Spec => []CeremonyRegistersOnce
<1>1. RegistrationInv => CeremonyRegistersOnce
  BY DEF RegistrationInv, TablesInv
<1> QED
  BY <1>1, RegistrationInvariant, PTL

(* Only the commit of a registration adds a passkey. *)
LEMMA OnlyRegistrationAdds ==
    ASSUME TypeOK, [Next]_vars, NEW c \in CredentialId,
           credentials[c].status = "absent", credentials'[c].status = "live"
    PROVE  \E p \in Task : RegistrationCommit(p)
<1>1. ASSUME NEW p \in Task, RequestStep(p), ~RegistrationCommit(p)
      PROVE  credentials' = credentials
  BY <1>1 DEF RequestStep, tables, SetupStart, SetupInsert, BootstrapStart, BootstrapOperator,
     BootstrapInsert, RegistrationFinish, LoginFinish, LoginCommit, Logout, LogoutCommit,
     OperatorRequest, Authorize, session, ApproveRecovery, IssueRecoverySetup, ApproveUser,
     SeedOperator, SeedCommit, Abort, insert_ceremony, complete_authentication, delete_session,
     approve_recovery, issue_recovery_setup, approve_user_with_setup, insert_user
<1>2. ASSUME LoginStart \/ AuthenticateSession \/ SessionDiscovery \/ RecoveryRequest
             \/ RotateAuthEpoch \/ Tick \/ UNCHANGED vars
      PROVE  credentials' = credentials
  BY <1>2 DEF LoginStart, AuthenticateSession, SessionDiscovery, RecoveryRequest, RotateAuthEpoch,
     Tick, vars, tables, insert_ceremony, session, rotate_session_csrf, create_recovery,
     rotate_all_auth_epochs
<1>3. ASSUME BreakGlass
      PROVE  credentials'[c].status # "live" \/ credentials'[c] = credentials[c]
  BY <1>3 DEF BreakGlass, break_glass, TypeOK, TablesTypeOK, CredentialRow
<1> QED
  BY <1>1, <1>2, <1>3 DEF Next

(* A registration commits only in the epoch in which its capability was     *)
(* issued: RegistrationCommits checks the capability again inside the       *)
(* transaction, an open capability is a current one, and the ceremony acts  *)
(* for the capability's user.                                               *)
THEOREM RegistrationsAreCurrent == Spec => RegistrationIsCurrent
<1>1. ASSUME RegistrationInv, [Next]_vars
      PROVE  \A c \in CredentialId :
               (credentials[c].status = "absent" /\ credentials'[c].status = "live") =>
                  LET k == ceremonies[credentials'[c].ceremony].capability IN
                  k # None => capabilities[k].epoch = users[credentials'[c].user].epoch
  <2> SUFFICES ASSUME NEW c \in CredentialId,
                      credentials[c].status = "absent", credentials'[c].status = "live"
               PROVE  LET k == ceremonies[credentials'[c].ceremony].capability IN
                      k # None => capabilities[k].epoch = users[credentials'[c].user].epoch
    OBVIOUS
  <2>1. PICK p \in Task : RegistrationCommit(p)
    BY <1>1, OnlyRegistrationAdds DEF RegistrationInv
  <2> DEFINE m == task[p].ceremony
             k == task[p].capability
  <2>2. /\ m \in CeremonyId /\ ceremonies[m].status # "absent"
        /\ ceremonies[m].capability = k
    BY <1>1, <2>1 DEF RegistrationInv, FrameAgrees, RegistrationCommit
  <2>3. PICK d \in CredentialId : complete_registration(m, k, d, task[p].now)
    BY <2>1 DEF RegistrationCommit
  <2>4. c = d /\ credentials'[c].ceremony = m /\ credentials'[c].user = ceremonies[m].user
    BY <1>1, <2>3 DEF complete_registration, RegistrationInv, TypeOK, TablesTypeOK
  <2>5. ASSUME k # None PROVE capabilities[k].epoch = users[ceremonies[m].user].epoch
    <3>1. k \in CapabilityId
      BY <1>1, <2>2, <2>5 DEF RegistrationInv, TypeOK, TablesTypeOK, CeremonyRow
    <3>2. capabilities[k].status = "open"
      BY <2>3, <2>5 DEF complete_registration, RegistrationCommits, CapabilityOpen
    <3>3. capabilities[k].user = ceremonies[m].user
      BY <1>1, <2>2, <2>5 DEF RegistrationInv, CeremonyServesCapability
    <3> QED
      BY <1>1, <3>1, <3>2, <3>3 DEF RegistrationInv, TablesInv, OpenCapabilityIsCurrent
  <2> QED
    BY <2>2, <2>4, <2>5
<1> QED
  BY <1>1, RegistrationInvariant, PTL DEF Spec, RegistrationIsCurrent

=============================================================================
