------------------------------- MODULE Restore -------------------------------
(***************************************************************************)
(* Backup and restore of the database behind AuthService.  README.md asks  *)
(* for rotate-auth-epoch after a PostgreSQL restore, "so restored sessions,*)
(* ceremonies, and setup/recovery capabilities fail closed".  A restore    *)
(* brings back rows that were revoked or consumed after the backup, and    *)
(* auth_epoch with them: the rotation may then reach an epoch that already *)
(* was in use, and that a request in flight has read.  Backup and restore  *)
(* are the operator's doing and external; requests may be in flight        *)
(* meanwhile.                                                              *)
(***************************************************************************)
EXTENDS AuthService

CONSTANT NoBackup

(* Identifiers are random: no two rows of different tables share one. *)
ASSUME IdentifierAssumption ==
    /\ None \notin SessionId \cup RecoveryId
    /\ SessionId \cap (CapabilityId \cup CeremonyId \cup CredentialId \cup RecoveryId) = {}
    /\ CapabilityId \cap (CeremonyId \cup CredentialId \cup RecoveryId) = {}
    /\ CeremonyId \cap (CredentialId \cup RecoveryId) = {}

VARIABLES backup,  \* the tables as they were backed up
          phase,   \* "normal", "restored" until the rotation, then "rotated"
          issued,  \* (history) identifiers of all rows ever inserted: they are random
          old,     \* (history) rows from before the rotation, and sessions of early requests
          early    \* (history) requests that began before the rotation

restoreVars == <<vars, backup, phase, issued, old, early>>

(* The rows of the tables a restore is about. *)
Inserted ==
    {s \in SessionId : sessions[s].status # "absent"}
        \cup {m \in CeremonyId : ceremonies[m].status # "absent"}
        \cup {k \in CapabilityId : capabilities[k].status # "absent"}
        \cup {c \in CredentialId : credentials[c].status # "absent"}
        \cup {r \in RecoveryId : recoveries[r].stage # "absent"}

InFlight == {p \in Task : task[p].pc # "idle"}

RestoreInit ==
    /\ Init
    /\ backup = NoBackup /\ phase = "normal"
    /\ issued = Inserted /\ old = {} /\ early = {}

(* A step of the service.  The epoch's bound leaves room for the rotation. *)
ServiceStep ==
    /\ Next
    /\ phase # "rotated" => \A u \in UserId : users'[u].epoch < MaxEpoch
    /\ (Inserted' \ Inserted) \cap issued = {}
    /\ issued' = issued \cup Inserted'
    /\ old' = IF \E p \in early : task'[p] # task[p]
              THEN old \cup ((Inserted' \ Inserted) \cap SessionId) ELSE old
    /\ early' = {p \in early : task'[p].pc # "idle"}
    /\ UNCHANGED <<backup, phase>>

Backup ==
    /\ backup = NoBackup
    /\ backup' = [users |-> users, credentials |-> credentials, capabilities |-> capabilities,
                  ceremonies |-> ceremonies, sessions |-> sessions, recoveries |-> recoveries,
                  audit |-> audit]
    /\ UNCHANGED <<vars, phase, issued, old, early>>

RestoreBackup ==
    /\ backup # NoBackup /\ phase = "normal"
    /\ users' = backup.users
    /\ credentials' = backup.credentials
    /\ capabilities' = backup.capabilities
    /\ ceremonies' = backup.ceremonies
    /\ sessions' = backup.sessions
    /\ recoveries' = backup.recoveries
    /\ audit' = backup.audit
    /\ phase' = "restored"
    /\ UNCHANGED <<clock, task, backup, issued, old, early>>

(* The operator runs rotate-auth-epoch on the restored database. *)
RotateRestored ==
    /\ phase = "restored"
    /\ RotateAuthEpoch
    /\ phase' = "rotated"
    /\ old' = Inserted
    /\ early' = InFlight
    /\ UNCHANGED <<backup, issued>>

RestoreNext == ServiceStep \/ Backup \/ RestoreBackup \/ RotateRestored

(* The operator repeats the command until it succeeds. *)
RestoreSpec ==
    RestoreInit /\ [][RestoreNext]_restoreVars /\ WF_restoreVars(RotateRestored)

-----------------------------------------------------------------------------

(* After the rotation no session, setup token or recovery token that the    *)
(* restore brought back is accepted, and no session that a login in flight  *)
(* since before the rotation obtains: although the rotated epoch may be the *)
(* one that login read before the restore, the ceremony it holds is         *)
(* consumed.                                                                *)
RestoredAuthorityIsDead ==
    phase = "rotated" =>
        /\ \A s \in SessionId \cap old : ~Usable(s)
        /\ \A k \in CapabilityId \cap old : capabilities[k].status # "open"

(* No passkey is registered after the rotation with a token from before. *)
RestoredTokensRegisterNothing ==
    [][phase = "rotated" =>
         \A c \in CredentialId :
            (credentials[c].status = "absent" /\ credentials'[c].status = "live") =>
                ceremonies[credentials'[c].ceremony].capability \notin old]_restoreVars

(* The restored rows do fail closed in the end: rotate-auth-epoch succeeds  *)
(* on a restored database.                                                  *)
RotationSucceeds == phase = "restored" ~> phase = "rotated"

=============================================================================
