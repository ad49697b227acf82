-------------------------------- MODULE MCAuth --------------------------------
(* Small instances of AuthService for TLC.                                  *)
EXTENDS AuthRefinement, TLC

CONSTANTS op1, op2, u1, c1, c2, c3, k1, k2, k3, m1, m2, m3, s1, s2, s3, r1, r2, p1, p2

(* An empty database, as after the first migration. *)
NobodyEnrolled == [c \in {} |-> None]
NobodySignedIn == [s \in {} |-> None]

(* An operator and a user, each with a passkey; the operator is signed in. *)
BothEnrolled == c1 :> op1 @@ c2 :> u1
OperatorSignedIn == s1 :> c1

(* Only the operator is enrolled. *)
OperatorEnrolled == c1 :> op1

(* Registration starts from the operator's database, or from an empty one   *)
(* in which recovery is left out; the other one has no session discovery.   *)
Empty == INSTANCE AuthService
    WITH InitialOperators <- {}, Enrolled <- NobodyEnrolled, SignedIn <- NobodySignedIn

RegistrationRunSpec == (Init \/ Empty!Init) /\ [][Next]_vars

EmptyAtFirst ==
    \A c \in CredentialId : credentials[c].status # "absent" => credentials[c].ceremony # None

RegistrationRunBounds ==
    IF EmptyAtFirst THEN recoveries' = recoveries /\ clock' = clock
    ELSE \A s \in SessionId : sessions'[s].csrf = sessions[s].csrf

TaskSymmetry == Permutations({p1, p2})
SessionRunSymmetry == TaskSymmetry \cup Permutations({m1, m2})
RegistrationRunSymmetry ==
    TaskSymmetry \cup Permutations({m1, m2}) \cup Permutations({k1, k2}) \cup Permutations({c2, c3})

=============================================================================
