------------------------------ MODULE Recovery ------------------------------
(***************************************************************************)
(* One user's recovery from the user's point of view.  A user who has lost *)
(* every passkey asks for recovery, an operator approves it and issues a   *)
(* setup token, the user registers a fresh passkey with the token and logs *)
(* in.  Each of these is a request of AuthService.  It may fail, and the   *)
(* response that carries a token or a registration's challenge may be      *)
(* lost: the setup token exists only in the response that issues it, and   *)
(* setup_issued_at keeps it from being issued again.  A login's response   *)
(* is taken to arrive: the user has signed in once the session exists.     *)
(*                                                                         *)
(* The user's browser and the operator's console are external.  They are   *)
(* the obvious clients: each makes one request at a time, goes on with     *)
(* what the responses carried, forgets a ceremony or a token that the      *)
(* server refuses, and starts again from what is left.                     *)
(***************************************************************************)
EXTENDS AuthService

CONSTANTS Owner,        \* the user who lost every passkey
          Browser,      \* the request the user has in flight
          Console,      \* the request the operator has in flight
          MaxFaults     \* bound: lost responses, aborted requests, ticks, impatience

ASSUME RecoveryAssumption ==
    Owner \in UserId /\ {Browser, Console} \subseteq Task /\ MaxFaults \in Nat

VARIABLES held,         \* the setup token the user was handed
          opened,       \* the ceremony the browser has a challenge of
          faults        \* how many faults have happened

clientVars == <<held, opened, faults>>
recoveryVars == <<vars, clientVars>>

RecoveryInit == Init /\ held = None /\ opened = None /\ faults = 0

(* Identifiers are random: which unused one is taken makes no difference.  *)
Unused(ids, used) == CHOOSE id \in ids : id \notin used

NextCeremony == Unused(CeremonyId, {m \in CeremonyId : ceremonies[m].status # "absent"})
NextCapability == Unused(CapabilityId, {k \in CapabilityId : capabilities[k].status # "absent"})
NextRecovery == Unused(RecoveryId, {r \in RecoveryId : recoveries[r].stage # "absent"})
NextSession == Unused(SessionId, {s \in SessionId : sessions[s].status # "absent"})
NextCredential == Unused(CredentialId, {c \in CredentialId : credentials[c].status # "absent"})

FreshPasskeys == CredentialsOf(Owner) \ DOMAIN Enrolled

SignedInAgain ==
    \E s \in SessionId : /\ sessions[s].user = Owner
                         /\ sessions[s].credential \in FreshPasskeys
                         /\ Usable(s)

(* A request of the user's that has not been answered by a setup token. *)
Underway ==
    \E r \in RecoveryId : recoveries[r].user = Owner /\ recoveries[r].stage \in {"pending", "approved"}

Fault == faults < MaxFaults /\ faults' = faults + 1

-----------------------------------------------------------------------------
(* The user.                                                               *)

Asks ==
    /\ RecoveryRequest
    /\ recoveries'[NextRecovery].user = Owner
    /\ UNCHANGED <<held, opened>>

UserAsks ==
    /\ FreshPasskeys = {} /\ held = None /\ ~Underway
    /\ Asks
    /\ UNCHANGED faults

UserStartsSetup ==
    /\ FreshPasskeys = {} /\ held # None /\ opened = None
    /\ SetupStart(Browser)
    /\ task'[Browser].capability = held
    /\ UNCHANGED clientVars

InsertsSetup == SetupInsert(Browser) /\ ceremonies'[NextCeremony].status = "open"

UserGetsChallenge ==
    /\ InsertsSetup
    /\ opened' = NextCeremony
    /\ UNCHANGED <<held, faults>>

UserRegisters ==
    /\ RegistrationFinish(Browser) /\ task'[Browser].ceremony = opened
    /\ UNCHANGED clientVars

(* Whether or not the response arrives, the authenticator has the passkey. *)
UserRegistered ==
    /\ RegistrationCommit(Browser) /\ credentials'[NextCredential].status = "live"
    /\ held' = None /\ opened' = None
    /\ UNCHANGED faults

UserStartsLogin ==
    /\ FreshPasskeys # {} /\ ~SignedInAgain /\ opened = None /\ task[Browser].pc = "idle"
    /\ LoginStart /\ ceremonies'[NextCeremony].status = "open"
    /\ opened' = NextCeremony
    /\ UNCHANGED <<held, faults>>

UserLogsIn ==
    /\ LoginFinish(Browser)
    /\ task'[Browser].ceremony = opened /\ task'[Browser].user = Owner
    /\ UNCHANGED clientVars

UserLoggedIn ==
    /\ LoginCommit(Browser)
    /\ sessions'[NextSession].credential \in FreshPasskeys
    /\ opened' = None
    /\ UNCHANGED <<held, faults>>

(* A request is refused because of what was consumed since it was made.     *)
UserIsRefused ==
    /\ \/ /\ task[Browser].pc = "registration"
          /\ ~RegistrationCommits(task[Browser].ceremony, task[Browser].capability, task[Browser].now)
       \/ /\ task[Browser].pc = "authentication"
          /\ ~CeremonyOpen(task[Browser].ceremony, task[Browser].now)
    /\ Abort(Browser)
    /\ opened' = None
    /\ UNCHANGED <<held, faults>>

(* ... or at once, because it is expired or consumed when it is presented.  *)
UserForgets ==
    /\ task[Browser].pc = "idle"
    /\ \/ /\ opened # None /\ ~CeremonyOpen(opened, clock)
          /\ opened' = None /\ UNCHANGED held
       \/ /\ opened = None /\ held # None /\ ~CapabilityOpen(held, clock)
          /\ held' = None /\ UNCHANGED opened
    /\ UNCHANGED <<vars, faults>>

UserStep ==
    \/ UserAsks \/ UserStartsSetup \/ UserGetsChallenge \/ UserRegisters \/ UserRegistered
    \/ UserStartsLogin \/ UserLogsIn \/ UserLoggedIn \/ UserIsRefused \/ UserForgets

-----------------------------------------------------------------------------
(* The operator, who works through the list of pending_recoveries.         *)

OperatorActs == Underway /\ OperatorRequest(Console) /\ UNCHANGED clientVars

OperatorApproves == ApproveRecovery(Console) /\ UNCHANGED clientVars

Issues == IssueRecoverySetup(Console) /\ capabilities'[NextCapability].status = "open"

(* The operator passes the token on to the user. *)
OperatorIssues ==
    /\ Issues
    /\ held' = NextCapability
    /\ UNCHANGED <<opened, faults>>

OperatorStep == OperatorActs \/ OperatorApproves \/ OperatorIssues

-----------------------------------------------------------------------------
(* What goes wrong, at most MaxFaults times.                               *)

LoseToken == Issues /\ UNCHANGED <<held, opened>> /\ Fault

LoseChallenge == InsertsSetup /\ UNCHANGED <<held, opened>> /\ Fault

LoseRequest == \E p \in Task : Abort(p) /\ UNCHANGED <<held, opened>> /\ Fault

AskTooEarly == Asks /\ Fault

TimePasses == Tick /\ UNCHANGED <<held, opened>> /\ Fault

RecoveryNext ==
    \/ UserStep \/ OperatorStep
    \/ LoseToken \/ LoseChallenge \/ LoseRequest \/ AskTooEarly \/ TimePasses

(* Both people go on trying; faults need not happen. *)
RecoverySpec ==
    /\ RecoveryInit /\ [][RecoveryNext]_recoveryVars
    /\ WF_recoveryVars(UserStep) /\ WF_recoveryVars(OperatorStep)

-----------------------------------------------------------------------------

(* A user who lost every passkey ends up signed in with a fresh one for good:*)
(* although a setup token is issued once per request and its response may   *)
(* be lost, although tokens and ceremonies expire and every further         *)
(* approval invalidates the tokens and the sessions of the one before.      *)
UserRecovers == <>[]SignedInAgain

=============================================================================
