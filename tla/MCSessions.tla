------------------------------ MODULE MCSessions ------------------------------
(* A small instance of AuthService about sessions for TLC, in two scopes    *)
(* with bounds of their own: sessions under recovery approvals, break-glass *)
(* and rotations while the clock stands still, or sessions as time passes,  *)
(* with no recovery and one login.                                          *)
EXTENDS MCAuth

VARIABLE scope

MCInit == Init /\ scope \in {"invalidation", "expiry"}

MCNext ==
    /\ Next
    /\ scope = "invalidation" => clock' = clock
    /\ scope = "expiry" =>
          /\ recoveries' = recoveries /\ capabilities' = capabilities
          /\ Cardinality({m \in CeremonyId : ceremonies'[m].status # "absent"}) <= 1
          /\ \A u \in UserId : users'[u].epoch <= 2
    /\ UNCHANGED scope

MCSpec == MCInit /\ [][MCNext]_<<vars, scope>>

=============================================================================
