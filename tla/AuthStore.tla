------------------------------ MODULE AuthStore ------------------------------
(***************************************************************************)
(* The PostgreSQL store behind human authentication: the tables of         *)
(* server/migrations/0001_human_auth.sql and the methods of PgAuthStore in *)
(* server/src/repository.rs, which implement the trait AuthStore of        *)
(* auth/src/lib.rs.                                                        *)
(*                                                                         *)
(* A table is a function from its identifiers to rows; an identifier whose *)
(* row is "absent" has not been inserted.  A method that runs one SQL      *)
(* transaction is one action over the tables: an early return drops the    *)
(* transaction, which rolls it back, so a method that fails is a method    *)
(* that is not enabled.  Methods that only read are state functions.       *)
(*                                                                         *)
(* A nullable timestamp (revoked_at, consumed_at, approved_at, ...) is     *)
(* modelled by whether it is set.  Fields marked (history) are not columns:*)
(* they remember a fact about the insertion that the properties speak of   *)
(* and no action reads them.  human_users.enabled is left out: every row   *)
(* is inserted with TRUE and no statement of the program clears it.        *)
(*                                                                         *)
(* Definitions named X_Something are mutants of X: plausible bugs that the *)
(* properties are tested against.  Nothing else uses them.                 *)
(***************************************************************************)
EXTENDS Integers, FiniteSets

CONSTANTS UserId, CredentialId, CapabilityId, CeremonyId, SessionId, RecoveryId,
          None,         \* SQL NULL in an identifier column
          RotationDecodes \* whether sqlx decodes the rows of RETURNING 1 as i64

ASSUME NoneAssumption ==
    None \notin UserId \cup CapabilityId \cup CeremonyId \cup CredentialId

ASSUME RotationAssumption == RotationDecodes \in BOOLEAN

VARIABLES users,        \* human_users
          credentials,  \* passkey_credentials
          capabilities, \* auth_capabilities
          ceremonies,   \* auth_ceremonies
          sessions,     \* auth_sessions
          recoveries,   \* recovery_requests
          audit         \* auth_audit_events

tables == <<users, credentials, capabilities, ceremonies, sessions, recoveries, audit>>

-----------------------------------------------------------------------------
(* Row types.                                                              *)

UserRow == [role : {"absent", "user", "operator"}, epoch : Nat, created : Nat]

CredentialRow ==
    [status   : {"absent", "live", "revoked"},
     user     : UserId \cup {None},
     ceremony : CeremonyId \cup {None},  \* (history) the ceremony that registered it
     epoch    : Nat]                     \* (history) the user's epoch when it was registered

CapabilityPurpose == {"setup", "recovery_setup", "operator_recovery"}

CapabilityRow ==
    [status  : {"absent", "open", "consumed"},
     user    : UserId \cup {None},
     purpose : CapabilityPurpose,
     expires : Nat,
     created : Nat,
     epoch   : Nat]                      \* (history) the user's epoch when it was issued

CeremonyKind == {"registration", "authentication", "operator_bootstrap", "operator_recovery"}

CeremonyRow ==
    [status     : {"absent", "open", "consumed"},
     kind       : CeremonyKind,
     user       : UserId \cup {None},
     capability : CapabilityId \cup {None},
     expires    : Nat]

SessionRow ==
    [status     : {"absent", "live", "revoked"},
     user       : UserId \cup {None},
     epoch      : Nat,
     csrf       : Nat,                   \* how many times csrf_hash has been replaced
     idle       : Nat,
     absolute   : Nat,
     credential : CredentialId \cup {None}, \* (history) the passkey that opened it
     began      : Nat]                   \* (history) invalidations seen when the login read the user

(* approved_at, setup_issued_at and completed_at are set in this order only *)
(* (the WHERE clauses of the three UPDATEs), so the columns are one stage.  *)
RecoveryRow ==
    [stage : {"absent", "pending", "approved", "issued", "completed"},
     user  : UserId \cup {None},
     epoch : Nat]                        \* (history) the epoch its approval established

EventType ==
    {"operator.seeded", "user.approved_with_setup", "passkey.registered",
     "session.created", "recovery.approved", "recovery.setup_issued",
     "operator.break_glass_opened", "auth.epoch_rotated_all"}

NoUser       == [role |-> "absent", epoch |-> 0, created |-> 0]
NoCredential == [status |-> "absent", user |-> None, ceremony |-> None, epoch |-> 0]
NoCapability == [status |-> "absent", user |-> None, purpose |-> "setup",
                 expires |-> 0, created |-> 0, epoch |-> 0]
NoCeremony   == [status |-> "absent", kind |-> "registration", user |-> None,
                 capability |-> None, expires |-> 0]
NoSession    == [status |-> "absent", user |-> None, epoch |-> 0, csrf |-> 0, idle |-> 0,
                 absolute |-> 0, credential |-> None, began |-> 0]
NoRecovery   == [stage |-> "absent", user |-> None, epoch |-> 0]

TablesTypeOK ==
    /\ users \in [UserId -> UserRow]
    /\ credentials \in [CredentialId -> CredentialRow]
    /\ capabilities \in [CapabilityId -> CapabilityRow]
    /\ ceremonies \in [CeremonyId -> CeremonyRow]
    /\ sessions \in [SessionId -> SessionRow]
    /\ recoveries \in [RecoveryId -> RecoveryRow]
    /\ audit \in [EventType -> [UserId -> Nat]]

-----------------------------------------------------------------------------
(* Reads and the conditions of WHERE clauses.                              *)

Users     == {u \in UserId : users[u].role # "absent"}
Operators == {u \in UserId : users[u].role = "operator"}

operator_exists == Operators # {}

CredentialsOf(u) == {c \in CredentialId : credentials[c].status = "live" /\ credentials[c].user = u}

LiveOperatorCredentials == UNION {CredentialsOf(u) : u \in Operators}

(* The earliest created operator, provided no operator has a live passkey. *)
operator_without_credential ==
    {u \in Operators : /\ LiveOperatorCredentials = {}
                       /\ \A v \in Operators : users[u].created <= users[v].created}

CapabilityOpen_IgnoresConsumption(k, now) ==
    capabilities[k].status # "absent" /\ capabilities[k].expires > now

CapabilityOpen(k, now) == capabilities[k].status = "open" /\ capabilities[k].expires > now

OpenWindows(now) ==
    {k \in CapabilityId : /\ capabilities[k].purpose = "operator_recovery"
                          /\ CapabilityOpen(k, now)
                          /\ capabilities[k].user \in Operators}

(* The latest created break-glass capability that is still open. *)
operator_recovery_window(now) ==
    {k \in OpenWindows(now) :
        \A j \in OpenWindows(now) : capabilities[j].created <= capabilities[k].created}

CeremonyOpen_IgnoresConsumption(m, now) ==
    ceremonies[m].status # "absent" /\ ceremonies[m].expires > now

CeremonyOpen(m, now) == ceremonies[m].status = "open" /\ ceremonies[m].expires > now

SessionValid(s, now) ==
    /\ sessions[s].status = "live"
    /\ sessions[s].idle > now
    /\ sessions[s].absolute > now
    /\ sessions[s].epoch = users[sessions[s].user].epoch

(* How often u's authentication has been invalidated, by the audit trail. *)
Invalidations(u) ==
    audit["recovery.approved"][u] + audit["operator.break_glass_opened"][u]
        + audit["auth.epoch_rotated_all"][u]

-----------------------------------------------------------------------------
(* Writes shared by several methods.                                       *)

insert_audit(event, u) == audit' = [audit EXCEPT ![event][u] = @ + 1]

InsertCapability(table, k, u, purpose, expires, clock, epoch) ==
    [table EXCEPT ![k] =
        [status |-> "open", user |-> u, purpose |-> purpose,
         expires |-> expires, created |-> clock, epoch |-> epoch]]

AdvanceEpoch_Forgotten(u) == users

ConsumeCapabilities_Forgotten(u) == capabilities

(* The four UPDATEs of invalidate_user_auth.  A login ceremony belongs to   *)
(* no user, so the one on auth_ceremonies does not reach it.                *)
AdvanceEpoch(u) == [users EXCEPT ![u].epoch = @ + 1]

RevokeSessions(u) ==
    [s \in SessionId |->
        IF sessions[s].user = u /\ sessions[s].status = "live"
        THEN [sessions[s] EXCEPT !.status = "revoked"] ELSE sessions[s]]

ConsumeCeremonies(u) ==
    [m \in CeremonyId |->
        IF ceremonies[m].user = u /\ ceremonies[m].status = "open"
        THEN [ceremonies[m] EXCEPT !.status = "consumed"] ELSE ceremonies[m]]

ConsumeCapabilities(u) ==
    [k \in CapabilityId |->
        IF capabilities[k].user = u /\ capabilities[k].status = "open"
        THEN [capabilities[k] EXCEPT !.status = "consumed"] ELSE capabilities[k]]

-----------------------------------------------------------------------------
(* The methods that change the database, one transaction each.  clock is    *)
(* PostgreSQL's now(), the default of created_at; now is the caller's       *)
(* timestamp.                                                               *)

insert_user(u, now) ==
    /\ users[u].role = "absent"
    /\ users' = [users EXCEPT ![u] = [role |-> "operator", epoch |-> 1, created |-> now]]
    /\ insert_audit("operator.seeded", u)
    /\ UNCHANGED <<credentials, capabilities, ceremonies, sessions, recoveries>>

approve_user_with_setup(u, k, expires, now, clock) ==
    /\ users[u].role = "absent"
    /\ capabilities[k].status = "absent"
    /\ users' = [users EXCEPT ![u] = [role |-> "user", epoch |-> 1, created |-> now]]
    /\ capabilities' = InsertCapability(capabilities, k, u, "setup", expires, clock, 1)
    /\ insert_audit("user.approved_with_setup", u)
    /\ UNCHANGED <<credentials, ceremonies, sessions, recoveries>>

rotate_all_auth_epochs_KeepsCeremonies ==
    /\ RotationDecodes \/ Users = {}
    /\ users' = [u \in UserId |-> IF u \in Users THEN [users[u] EXCEPT !.epoch = @ + 1]
                                                ELSE users[u]]
    /\ sessions' = [s \in SessionId |->
                       IF sessions[s].status = "live"
                       THEN [sessions[s] EXCEPT !.status = "revoked"] ELSE sessions[s]]
    /\ capabilities' = [k \in CapabilityId |->
                       IF capabilities[k].status = "open"
                       THEN [capabilities[k] EXCEPT !.status = "consumed"] ELSE capabilities[k]]
    /\ audit' = [audit EXCEPT !["auth.epoch_rotated_all"] =
                       [u \in UserId |-> IF u \in Users THEN @[u] + 1 ELSE @[u]]]
    /\ UNCHANGED <<credentials, ceremonies, recoveries>>

rotate_all_auth_epochs_KeepsCapabilities ==
    /\ RotationDecodes \/ Users = {}
    /\ users' = [u \in UserId |-> IF u \in Users THEN [users[u] EXCEPT !.epoch = @ + 1]
                                                ELSE users[u]]
    /\ sessions' = [s \in SessionId |->
                       IF sessions[s].status = "live"
                       THEN [sessions[s] EXCEPT !.status = "revoked"] ELSE sessions[s]]
    /\ ceremonies' = [m \in CeremonyId |->
                       IF ceremonies[m].status = "open"
                       THEN [ceremonies[m] EXCEPT !.status = "consumed"] ELSE ceremonies[m]]
    /\ audit' = [audit EXCEPT !["auth.epoch_rotated_all"] =
                       [u \in UserId |-> IF u \in Users THEN @[u] + 1 ELSE @[u]]]
    /\ UNCHANGED <<credentials, capabilities, recoveries>>

(* The audit event of a rotation names no user; it is entered here under    *)
(* every user whose epoch the rotation advanced.  The literal of RETURNING 1 *)
(* is an int4, which sqlx does not decode as the i64 the method asks for:   *)
(* with RotationDecodes FALSE the method rolls back unless no row returns.  *)
rotate_all_auth_epochs ==
    /\ RotationDecodes \/ Users = {}
    /\ users' = [u \in UserId |-> IF u \in Users THEN [users[u] EXCEPT !.epoch = @ + 1]
                                                ELSE users[u]]
    /\ sessions' = [s \in SessionId |->
                       IF sessions[s].status = "live"
                       THEN [sessions[s] EXCEPT !.status = "revoked"] ELSE sessions[s]]
    /\ ceremonies' = [m \in CeremonyId |->
                       IF ceremonies[m].status = "open"
                       THEN [ceremonies[m] EXCEPT !.status = "consumed"] ELSE ceremonies[m]]
    /\ capabilities' = [k \in CapabilityId |->
                       IF capabilities[k].status = "open"
                       THEN [capabilities[k] EXCEPT !.status = "consumed"] ELSE capabilities[k]]
    /\ audit' = [audit EXCEPT !["auth.epoch_rotated_all"] =
                       [u \in UserId |-> IF u \in Users THEN @[u] + 1 ELSE @[u]]]
    /\ UNCHANGED <<credentials, recoveries>>

insert_ceremony(m, kind, u, k, expires) ==
    /\ ceremonies[m].status = "absent"
    /\ ceremonies' = [ceremonies EXCEPT ![m] =
                        [status |-> "open", kind |-> kind, user |-> u,
                         capability |-> k, expires |-> expires]]
    /\ UNCHANGED <<users, credentials, capabilities, sessions, recoveries, audit>>

RegistrationCommits_TrustsCeremony(m, k, now) ==
    /\ CeremonyOpen(m, now)
    /\ ceremonies[m].kind = "operator_bootstrap" => LiveOperatorCredentials = {}

RegistrationCommits_IgnoresCeremony(m, k, now) ==
    /\ ceremonies[m].kind = "operator_bootstrap" => LiveOperatorCredentials = {}
    /\ k # None => CapabilityOpen(k, now)

(* The conditions under which complete_registration does not roll back. *)
RegistrationCommits(m, k, now) ==
    /\ CeremonyOpen(m, now)
    /\ ceremonies[m].kind = "operator_bootstrap" => LiveOperatorCredentials = {}
    /\ k # None => CapabilityOpen(k, now)

complete_registration(m, k, c, now) ==
    LET u == ceremonies[m].user IN
    /\ RegistrationCommits(m, k, now)
    /\ credentials[c].status = "absent"
    /\ ceremonies' = [ceremonies EXCEPT ![m].status = "consumed"]
    /\ capabilities' = IF k = None THEN capabilities
                       ELSE [capabilities EXCEPT ![k].status = "consumed"]
    /\ credentials' = [credentials EXCEPT ![c] = [status |-> "live", user |-> u, ceremony |-> m,
                                                      epoch |-> users[u].epoch]]
    /\ recoveries' = [r \in RecoveryId |->
                        IF recoveries[r].user = u /\ recoveries[r].stage = "issued"
                        THEN [recoveries[r] EXCEPT !.stage = "completed"] ELSE recoveries[r]]
    /\ insert_audit("passkey.registered", u)
    /\ UNCHANGED <<users, sessions>>

(* row is the SessionRecord that the service built from what it read. *)
complete_authentication(m, c, s, row, now) ==
    /\ ceremonies[m].kind = "authentication"
    /\ CeremonyOpen(m, now)
    /\ c \in CredentialsOf(row.user)
    /\ sessions[s].status = "absent"
    /\ ceremonies' = [ceremonies EXCEPT ![m].status = "consumed"]
    /\ sessions' = [sessions EXCEPT ![s] = row]
    /\ insert_audit("session.created", row.user)
    /\ UNCHANGED <<users, credentials, capabilities, recoveries>>

BoundedIdle(s, idle) == IF idle < sessions[s].absolute THEN idle ELSE sessions[s].absolute

session(s, now, idle) ==
    /\ SessionValid(s, now)
    /\ sessions' = [sessions EXCEPT ![s].idle = BoundedIdle(s, idle)]
    /\ UNCHANGED <<users, credentials, capabilities, ceremonies, recoveries, audit>>

rotate_session_csrf(s, now, idle) ==
    /\ SessionValid(s, now)
    /\ sessions' = [sessions EXCEPT ![s].idle = BoundedIdle(s, idle), ![s].csrf = @ + 1]
    /\ UNCHANGED <<users, credentials, capabilities, ceremonies, recoveries, audit>>

delete_session(s) ==
    /\ sessions' = IF sessions[s].status = "live"
                   THEN [sessions EXCEPT ![s].status = "revoked"] ELSE sessions
    /\ UNCHANGED <<users, credentials, capabilities, ceremonies, recoveries, audit>>

create_recovery_OnePerUser(r, u) ==
    /\ recoveries[r].stage = "absent"
    /\ u \in Users
    /\ \A q \in RecoveryId : recoveries[q].user = u => recoveries[q].stage = "completed"
    /\ recoveries' = [recoveries EXCEPT ![r] = [stage |-> "pending", user |-> u, epoch |-> 0]]
    /\ UNCHANGED <<users, credentials, capabilities, ceremonies, sessions, audit>>

(* The foreign key refuses an unknown user, the unique index             *)
(* one_pending_recovery_per_user a second pending request.               *)
create_recovery(r, u) ==
    /\ recoveries[r].stage = "absent"
    /\ u \in Users
    /\ \A q \in RecoveryId : ~(recoveries[q].stage = "pending" /\ recoveries[q].user = u)
    /\ recoveries' = [recoveries EXCEPT ![r] = [stage |-> "pending", user |-> u, epoch |-> 0]]
    /\ UNCHANGED <<users, credentials, capabilities, ceremonies, sessions, audit>>

approve_recovery(r) ==
    LET u == recoveries[r].user IN
    /\ recoveries[r].stage = "pending"
    /\ recoveries' = [recoveries EXCEPT ![r].stage = "approved", ![r].epoch = users[u].epoch + 1]
    /\ users' = AdvanceEpoch(u)
    /\ sessions' = RevokeSessions(u)
    /\ ceremonies' = ConsumeCeremonies(u)
    /\ capabilities' = ConsumeCapabilities(u)
    /\ insert_audit("recovery.approved", u)
    /\ UNCHANGED credentials

issue_recovery_setup(r, k, u, expires, clock) ==
    /\ recoveries[r].stage = "approved"
    /\ recoveries[r].user = u
    /\ capabilities[k].status = "absent"
    /\ recoveries' = [recoveries EXCEPT ![r].stage = "issued"]
    /\ capabilities' = InsertCapability(capabilities, k, u, "recovery_setup",
                                        expires, clock, users[u].epoch)
    /\ insert_audit("recovery.setup_issued", u)
    /\ UNCHANGED <<users, credentials, ceremonies, sessions>>

break_glass_KeepsSessions(c, u, k, expires, clock) ==
    /\ c \in LiveOperatorCredentials
    /\ credentials[c].user = u
    /\ capabilities[k].status = "absent"
    /\ credentials' = [credentials EXCEPT ![c].status = "revoked"]
    /\ capabilities' = InsertCapability(ConsumeCapabilities(u), k, u, "operator_recovery",
                                        expires, clock, users[u].epoch)
    /\ insert_audit("operator.break_glass_opened", u)
    /\ UNCHANGED <<users, sessions, ceremonies, recoveries>>

break_glass(c, u, k, expires, clock) ==
    /\ c \in LiveOperatorCredentials
    /\ credentials[c].user = u
    /\ capabilities[k].status = "absent"
    /\ credentials' = [credentials EXCEPT ![c].status = "revoked"]
    /\ users' = AdvanceEpoch(u)
    /\ sessions' = RevokeSessions(u)
    /\ ceremonies' = ConsumeCeremonies(u)
    /\ capabilities' = InsertCapability(ConsumeCapabilities(u), k, u, "operator_recovery",
                                        expires, clock, users[u].epoch + 1)
    /\ insert_audit("operator.break_glass_opened", u)
    /\ UNCHANGED recoveries

=============================================================================
