---------------------------- MODULE TokenAuthority ----------------------------
(***************************************************************************)
(* What human authentication promises about setup, recovery and            *)
(* break-glass capabilities: a token is issued once, pays for at most one  *)
(* passkey of its user, and invalidating a user's authentication voids     *)
(* every token of that user in one step.  A token that is spent or void    *)
(* stays so.  Expiry only takes authority away and is left out.            *)
(***************************************************************************)
EXTENDS Naturals

CONSTANTS User, Token, Passkey, None

VARIABLES epoch,      \* how often each user's authentication was invalidated, 0 before enrolment
          token,      \* state and user of each token
          passkey     \* the passkeys registered, and the token each was paid for with

tokenVars == <<epoch, token, passkey>>

EnrolledUsers == {u \in User : epoch[u] > 0}

OpenTokens(U) == {k \in Token : token[k].state = "open" /\ token[k].user \in U}

Init ==
    /\ \A u \in User : epoch[u] \in {0, 1}
    /\ \A k \in Token : token[k].state = "unissued"
    /\ \A c \in Passkey : passkey[c].state \in {"none", "registered"} /\ passkey[c].token = None

Enroll(u) ==
    /\ u \notin EnrolledUsers
    /\ epoch' = [epoch EXCEPT ![u] = 1]
    /\ UNCHANGED <<token, passkey>>

(* A user is approved and given a setup token in one step. *)
EnrollWithToken(k, u) ==
    /\ u \notin EnrolledUsers
    /\ token[k].state = "unissued"
    /\ epoch' = [epoch EXCEPT ![u] = 1]
    /\ token' = [token EXCEPT ![k] = [state |-> "open", user |-> u]]
    /\ UNCHANGED passkey

Issue(k, u) ==
    /\ u \in EnrolledUsers
    /\ token[k].state = "unissued"
    /\ token' = [token EXCEPT ![k] = [state |-> "open", user |-> u]]
    /\ UNCHANGED <<epoch, passkey>>

Redeem(k, c, u) ==
    /\ k \in OpenTokens({u})
    /\ passkey[c].state = "none"
    /\ token' = [token EXCEPT ![k].state = "spent"]
    /\ passkey' = [passkey EXCEPT ![c] = [state |-> "registered", user |-> u, token |-> k]]
    /\ UNCHANGED epoch

(* The operator's bootstrap registers a passkey without a token. *)
Bootstrap(c, u) ==
    /\ u \in EnrolledUsers
    /\ passkey[c].state = "none"
    /\ passkey' = [passkey EXCEPT ![c] = [state |-> "registered", user |-> u, token |-> None]]
    /\ UNCHANGED <<epoch, token>>

Advanced(U) == [u \in User |-> IF u \in U THEN epoch[u] + 1 ELSE epoch[u]]

Voided(U) ==
    [k \in Token |-> IF k \in OpenTokens(U) THEN [token[k] EXCEPT !.state = "void"] ELSE token[k]]

Invalidate(U) ==
    /\ epoch' = Advanced(U)
    /\ token' = Voided(U)
    /\ UNCHANGED passkey

(* Break-glass invalidates a user and opens that user's registration window. *)
Reissue(k, u) ==
    /\ u \in EnrolledUsers
    /\ token[k].state = "unissued"
    /\ epoch' = Advanced({u})
    /\ token' = [Voided({u}) EXCEPT ![k] = [state |-> "open", user |-> u]]
    /\ UNCHANGED passkey

Next ==
    \/ \E u \in User : Enroll(u)
    \/ \E k \in Token, u \in User : EnrollWithToken(k, u) \/ Issue(k, u) \/ Reissue(k, u)
    \/ \E k \in Token, c \in Passkey, u \in User : Redeem(k, c, u)
    \/ \E c \in Passkey, u \in User : Bootstrap(c, u)
    \/ \E U \in SUBSET EnrolledUsers : Invalidate(U)

Spec == Init /\ [][Next]_tokenVars

=============================================================================
