--------------------------- MODULE SessionAuthority ---------------------------
(***************************************************************************)
(* What human authentication promises about sessions: a session is opened  *)
(* with a passkey that is live, and invalidating a user's authentication   *)
(* ends every session of that user in the very step in which the epoch     *)
(* advances and a passkey of the user is revoked.  A session that ended    *)
(* never becomes usable again.  How epochs, rows and requests bring this   *)
(* about is left to the modules that implement this one.  Expiry only      *)
(* takes authority away and is left out.                                   *)
(***************************************************************************)
EXTENDS Naturals

CONSTANTS User, Passkey, Session

VARIABLES epoch,      \* how often each user's authentication was invalidated, 0 before enrolment
          passkey,    \* state and owner of each passkey
          login       \* state of each session, its user and the passkey that opened it

authorityVars == <<epoch, passkey, login>>

EnrolledUsers == {u \in User : epoch[u] > 0}

LivePasskeys(U) == {c \in Passkey : passkey[c].state = "live" /\ passkey[c].user \in U}

Init ==
    /\ \A u \in User : epoch[u] \in {0, 1}
    /\ \A c \in Passkey : passkey[c].state \in {"none", "live"}
    /\ \A s \in Session :
          \/ login[s].state = "none"
          \/ /\ login[s].state = "usable"
             /\ login[s].passkey \in LivePasskeys({login[s].user})

Enroll(u) ==
    /\ u \notin EnrolledUsers
    /\ epoch' = [epoch EXCEPT ![u] = 1]
    /\ UNCHANGED <<passkey, login>>

Register(c, u) ==
    /\ passkey[c].state = "none"
    /\ u \in EnrolledUsers
    /\ passkey' = [passkey EXCEPT ![c] = [state |-> "live", user |-> u]]
    /\ UNCHANGED <<epoch, login>>

(* A login that lost a race with an invalidation opens a session that is    *)
(* dead from the start.                                                     *)
SignIn(s, c, u) ==
    /\ login[s].state = "none"
    /\ c \in LivePasskeys({u})
    /\ \E state \in {"usable", "dead"} :
          login' = [login EXCEPT ![s] = [state |-> state, user |-> u, passkey |-> c]]
    /\ UNCHANGED <<epoch, passkey>>

SignOut(s) ==
    /\ login[s].state = "usable"
    /\ login' = [login EXCEPT ![s].state = "dead"]
    /\ UNCHANGED <<epoch, passkey>>

(* The authentication of the users in U is invalidated and the passkeys in  *)
(* revoked are revoked, in one step.                                        *)
Invalidate(U, revoked) ==
    /\ revoked \subseteq LivePasskeys(U)
    /\ epoch' = [u \in User |-> IF u \in U THEN epoch[u] + 1 ELSE epoch[u]]
    /\ passkey' = [c \in Passkey |->
          IF c \in revoked THEN [passkey[c] EXCEPT !.state = "revoked"] ELSE passkey[c]]
    /\ login' = [s \in Session |->
          IF login[s].state = "usable" /\ login[s].user \in U
          THEN [login[s] EXCEPT !.state = "dead"] ELSE login[s]]

Next ==
    \/ \E u \in User : Enroll(u)
    \/ \E c \in Passkey, u \in User : Register(c, u)
    \/ \E s \in Session, c \in Passkey, u \in User : SignIn(s, c, u)
    \/ \E s \in Session : SignOut(s)
    \/ \E U \in SUBSET EnrolledUsers : \E revoked \in SUBSET LivePasskeys(U) : Invalidate(U, revoked)

Spec == Init /\ [][Next]_authorityVars

=============================================================================
