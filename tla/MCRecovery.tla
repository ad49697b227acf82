------------------------------ MODULE MCRecovery ------------------------------
(* A small instance of Recovery for TLC.                                    *)
EXTENDS Recovery, TLC

CONSTANTS op1, u1, c1, c2, c3, s1

(* The operator is signed in; the user's old passkey is lost, not revoked. *)
BothEnrolled == c1 :> op1 @@ c2 :> u1
OperatorSignedIn == s1 :> c1

=============================================================================
