------------------------------ MODULE Passkeys ------------------------------
(***************************************************************************)
(* What AuthService leaves out of a passkey: the WebAuthn engine of        *)
(* server/src/webauthn.rs and the authenticators it talks to.              *)
(*                                                                         *)
(* public_data holds the passkey's sign counter.  finish_authentication    *)
(* reads it with the other passkeys of the user, has the engine compare it *)
(* with the counter of the response, and writes it back in a later         *)
(* transaction without comparing again: concurrent logins with one passkey *)
(* may write it in any order.  start_registration puts the user's passkeys *)
(* into the challenge's exclude list, which is as old as the challenge     *)
(* when the authenticator obeys it.                                        *)
(*                                                                         *)
(* Signatures are what only the authenticator of a passkey can make.       *)
(* Responses stay with the client, who may present one late or repeatedly. *)
(***************************************************************************)
EXTENDS AuthService

CONSTANTS Authenticator,
          Keeper,       \* the authenticator of every enrolled passkey
          Counting,     \* the passkeys that have a sign counter; others report 0
          MaxCounter    \* bound on sign counters

(* The enrolled passkeys obeyed the exclude lists of their challenges. *)
ASSUME PasskeyAssumption ==
    /\ Keeper \in [DOMAIN Enrolled -> Authenticator]
    /\ Counting \subseteq CredentialId
    /\ MaxCounter \in Nat
    /\ \A c, d \in DOMAIN Enrolled :
          (c # d /\ Enrolled[c] = Enrolled[d] /\ Enrolled[c] \notin InitialOperators)
            => Keeper[c] # Keeper[d]

VARIABLES home,      \* the authenticator that holds a passkey's private key
          counter,   \* the sign counter in the authenticator
          stored,    \* the sign counter in passkey_credentials.public_data
          excluded,  \* the exclude list of a ceremony's challenge
          created,   \* the registration responses made
          signed,    \* the authentication responses made
          verifying, \* what a request has read or verified since its stack frame began
          opened     \* (history) the response a session was opened with

engineVars == <<home, counter, stored, excluded, created, signed, verifying, opened>>
passkeyVars == <<vars, engineVars>>

NoResponse == [ceremony |-> None, credential |-> None, counter |-> 0]

Nothing == [read |-> FALSE, exclude |-> {}, authenticator |-> None,
            response |-> NoResponse, updated |-> 0]

PasskeyInit ==
    /\ Init
    /\ home = [c \in CredentialId |-> IF c \in DOMAIN Enrolled THEN Keeper[c] ELSE None]
    /\ counter = [c \in CredentialId |-> 0]
    /\ stored = [c \in CredentialId |-> 0]
    /\ excluded = [m \in CeremonyId |-> {}]
    /\ created = {} /\ signed = {}
    /\ verifying = [p \in Task |-> Nothing]
    /\ opened = [s \in SessionId |-> NoResponse]

Note(p, entry) == verifying' = [verifying EXCEPT ![p] = entry]

-----------------------------------------------------------------------------
(* Registration.                                                           *)

StartSetup(p) ==
    /\ SetupStart(p)
    /\ UNCHANGED engineVars

ReadExcluded_None(p) ==
    /\ task[p].pc = "setup_insert" /\ ~verifying[p].read
    /\ Note(p, [Nothing EXCEPT !.read = TRUE])
    /\ UNCHANGED <<vars, home, counter, stored, excluded, created, signed, opened>>

(* credentials_for_user, and start_registration of the engine. *)
ReadExcluded(p) ==
    /\ task[p].pc = "setup_insert" /\ ~verifying[p].read
    /\ Note(p, [Nothing EXCEPT !.read = TRUE, !.exclude = CredentialsOf(task[p].user)])
    /\ UNCHANGED <<vars, home, counter, stored, excluded, created, signed, opened>>

InsertSetup(p) ==
    /\ verifying[p].read
    /\ SetupInsert(p)
    /\ excluded' = [m \in CeremonyId |-> IF ceremonies'[m] # ceremonies[m]
                                         THEN verifying[p].exclude ELSE excluded[m]]
    /\ Note(p, Nothing)
    /\ UNCHANGED <<home, counter, stored, created, signed, opened>>

(* An authenticator makes a passkey unless it holds an excluded one. *)
CreatePasskey(m, a) ==
    /\ ceremonies[m].status # "absent" /\ ceremonies[m].kind = "registration"
    /\ \A c \in excluded[m] : home[c] # a
    /\ created' = created \cup {[ceremony |-> m, authenticator |-> a]}
    /\ UNCHANGED <<vars, home, counter, stored, excluded, signed, verifying, opened>>

FinishRegistration(p) ==
    \E response \in created :
        /\ RegistrationFinish(p) /\ task'[p].ceremony = response.ceremony
        /\ Note(p, [Nothing EXCEPT !.authenticator = response.authenticator])
        /\ UNCHANGED <<home, counter, stored, excluded, created, signed, opened>>

CommitRegistration(p) ==
    /\ RegistrationCommit(p)
    /\ home' = [c \in CredentialId |-> IF credentials'[c] # credentials[c]
                                       THEN verifying[p].authenticator ELSE home[c]]
    /\ Note(p, Nothing)
    /\ UNCHANGED <<counter, stored, excluded, created, signed, opened>>

-----------------------------------------------------------------------------
(* Login.                                                                  *)

StartLogin == LoginStart /\ UNCHANGED engineVars

Sign(m, c) ==
    /\ ceremonies[m].status # "absent" /\ ceremonies[m].kind = "authentication"
    /\ home[c] # None
    /\ c \in Counting => counter[c] < MaxCounter
    /\ counter' = IF c \in Counting THEN [counter EXCEPT ![c] = @ + 1] ELSE counter
    /\ signed' = signed \cup {[ceremony |-> m, credential |-> c, counter |-> counter'[c]]}
    /\ UNCHANGED <<vars, home, stored, excluded, created, verifying, opened>>

(* The ceremony is read, and the user by the handle in the response. *)
FinishLogin(p) ==
    \E response \in signed :
        /\ LoginFinish(p)
        /\ task'[p].ceremony = response.ceremony
        /\ task'[p].user = credentials[response.credential].user
        /\ Note(p, [Nothing EXCEPT !.response = response])
        /\ UNCHANGED <<home, counter, stored, excluded, created, signed, opened>>

(* The library refuses a counter that did not grow, unless neither counts.  *)
Accepts(old, reported) == reported > old \/ (old = 0 /\ reported = 0)

UpdatedCounter(old, reported) == IF reported > old THEN reported ELSE old

VerifyLogin_Stores(p) ==
    LET response == verifying[p].response
        c == response.credential
        updated == UpdatedCounter(stored[c], response.counter)
    IN  /\ task[p].pc = "authentication" /\ ~verifying[p].read
        /\ c \in CredentialsOf(task[p].user)
        /\ Accepts(stored[c], response.counter)
        /\ stored' = [stored EXCEPT ![c] = updated]
        /\ Note(p, [verifying[p] EXCEPT !.read = TRUE, !.updated = updated])
        /\ UNCHANGED <<vars, home, counter, excluded, created, signed, opened>>

(* credentials_for_user, and finish_authentication of the engine. *)
VerifyLogin(p) ==
    LET response == verifying[p].response
        c == response.credential
    IN  /\ task[p].pc = "authentication" /\ ~verifying[p].read
        /\ c \in CredentialsOf(task[p].user)
        /\ Accepts(stored[c], response.counter)
        /\ Note(p, [verifying[p] EXCEPT !.read = TRUE,
                                        !.updated = UpdatedCounter(stored[c], response.counter)])
        /\ UNCHANGED <<vars, home, counter, stored, excluded, created, signed, opened>>

CommitLogin(p) ==
    LET c == verifying[p].response.credential IN
    /\ verifying[p].read
    /\ LoginCommit(p)
    /\ \E s \in SessionId :
          /\ sessions'[s] # sessions[s] /\ sessions'[s].credential = c
          /\ opened' = [opened EXCEPT ![s] = verifying[p].response]
    /\ stored' = [stored EXCEPT ![c] = verifying[p].updated]
    /\ Note(p, Nothing)
    /\ UNCHANGED <<home, counter, excluded, created, signed>>

-----------------------------------------------------------------------------

(* Refusals end a request, here as in AuthService. *)
EndEarly(p) ==
    /\ Abort(p)
    /\ Note(p, Nothing)
    /\ UNCHANGED <<home, counter, stored, excluded, created, signed, opened>>

(* Recovery, approval of users and break-glass do not touch the engine. *)
Elsewhere ==
    /\ \/ RecoveryRequest \/ BreakGlass \/ Tick
       \/ \E p \in Task : \/ OperatorRequest(p) \/ ApproveRecovery(p)
                          \/ IssueRecoverySetup(p) \/ ApproveUser(p)
    /\ UNCHANGED engineVars

PasskeyNext ==
    \/ \E p \in Task :
          \/ StartSetup(p) \/ ReadExcluded(p) \/ InsertSetup(p)
          \/ FinishRegistration(p) \/ CommitRegistration(p)
          \/ FinishLogin(p) \/ VerifyLogin(p) \/ CommitLogin(p)
          \/ EndEarly(p)
    \/ \E m \in CeremonyId, a \in Authenticator : CreatePasskey(m, a)
    \/ \E m \in CeremonyId, c \in CredentialId : Sign(m, c)
    \/ StartLogin \/ Elsewhere

PasskeySpec == PasskeyInit /\ [][PasskeyNext]_passkeyVars

-----------------------------------------------------------------------------

(* A response whose counter the engine would refuse has been overtaken: a   *)
(* login with a later response of the same passkey has succeeded.  However  *)
(* concurrent logins overwrite the stored counter, the owner's next         *)
(* response is accepted.                                                    *)
RefusedOnlyIfOvertaken ==
    \A response \in signed :
        LET c == response.credential IN
        ~Accepts(stored[c], response.counter) =>
            \E s \in SessionId : opened[s].credential = c /\ opened[s].counter >= response.counter

(* Since the stored counter may be set back by a login that read it early,  *)
(* it is no protection against a response presented twice: the ceremony is, *)
(* and each opens one session at most.                                      *)
ResponseOpensOneSession ==
    \A s, t \in SessionId :
        (s # t /\ opened[s] # NoResponse) => opened[s].ceremony # opened[t].ceremony

(* c was registered with a recovery token. *)
RegisteredByRecovery(c) ==
    CapabilityOf(c) # None /\ capabilities[CapabilityOf(c)].purpose = "recovery_setup"

(* The exclude list of a challenge is old when it is obeyed, and several    *)
(* challenges may be answered at once: but what the list misses was         *)
(* registered with the same token, or after a token that a later approval   *)
(* has made worthless, or with another recovery token of the same epoch.    *)
(* Only so a user registers an authenticator twice: issue_recovery_setup    *)
(* leaves the tokens alone that were issued for other approved recoveries.  *)
OneEpochPerAuthenticator ==
    \A c, d \in CredentialId :
        (/\ c # d /\ home[c] # None /\ home[c] = home[d]
         /\ credentials[c].user = credentials[d].user
         /\ credentials[c].user \notin Operators)
        => /\ credentials[c].epoch = credentials[d].epoch
           /\ RegisteredByRecovery(c) /\ RegisteredByRecovery(d)

=============================================================================
