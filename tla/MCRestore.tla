------------------------------- MODULE MCRestore -------------------------------
(* Small instances of Restore for TLC.                                      *)
EXTENDS Restore, TLC

CONSTANTS op1, c1, c2, k1, k2, m1, m2, s1, s2, r1, p1

(* A migrated database without rows: seeding and bootstrap come first. *)
NobodyEnrolled == [c \in {} |-> None]
NobodySignedIn == [s \in {} |-> None]

(* An operator with a passkey and a session. *)
OperatorEnrolled == c1 :> op1
OperatorSignedIn == s1 :> c1

=============================================================================
