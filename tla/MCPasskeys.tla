------------------------------ MODULE MCPasskeys ------------------------------
(* A small instance of Passkeys for TLC, in two scopes with bounds of their *)
(* own: concurrent logins of an operator with two passkeys and break-glass, *)
(* or registrations of a user with one token after the other.               *)
EXTENDS Passkeys, Sequences, TLC

CONSTANTS op1, u1, a1, a2, c1, c2, c3, c4, k1, k2, k3, m1, m2, m3, s1, s2, s3, r1, r2, p1, p2

(* The operator has two passkeys and a session. *)
OperatorEnrolled == c1 :> op1 @@ c2 :> op1
OperatorKept == c1 :> a1 @@ c2 :> a2
OperatorSignedIn == s1 :> c1

(* Identifiers are random, so it makes no difference which unused one a row *)
(* gets: they are used in this order.                                       *)
CeremonyOrder == <<m1, m2, m3>>
CapabilityOrder == <<k1, k2, k3>>
CredentialOrder == <<c3, c4>>
SessionOrder == <<s2, s3>>

InOrder(order, table) ==
    \A i \in 1 .. Len(order) - 1 :
        table[order[i + 1]].status # "absent" => table[order[i]].status # "absent"

UsedInOrder ==
    /\ InOrder(CeremonyOrder, ceremonies) /\ InOrder(CapabilityOrder, capabilities)
    /\ InOrder(CredentialOrder, credentials) /\ InOrder(SessionOrder, sessions)

VARIABLE scope

MCInit == PasskeyInit /\ scope \in {"login", "registration"}

MCNext ==
    /\ PasskeyNext
    /\ UsedInOrder'
    /\ scope = "login" =>
          /\ recoveries' = recoveries /\ clock' = clock
          /\ \A p \in Task : task'[p].pc # "operator"
          /\ Cardinality({response \in signed' : response.credential = c2}) <= 1
    /\ scope = "registration" =>
          /\ signed' = {} /\ \A response \in created' : response.authenticator = a1
          /\ \A m \in CeremonyId : ceremonies'[m].kind # "authentication"
          /\ \A k \in CapabilityId : capabilities'[k].purpose # "operator_recovery"
    /\ UNCHANGED scope

MCSpec == MCInit /\ [][MCNext]_<<passkeyVars, scope>>

TaskSymmetry == Permutations({p1, p2})

=============================================================================
