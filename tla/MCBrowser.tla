------------------------------- MODULE MCBrowser -------------------------------
(* A small instance of Browser for TLC, in two scopes with bounds of their  *)
(* own: two tabs do whatever they like as an operator and a user, or an     *)
(* eager tab of an operator pursues its mutation next to one other tab of   *)
(* that operator, while time passes.                                        *)
EXTENDS Browser, TLC

CONSTANTS op1, u1, u2, c1, c2, s1, t1, t2, t3,
          MaxRetryTrouble   \* bound on the trouble in the scope of the eager tab

(* An operator and a user share the browser; the operator is signed in. *)
BothEnrolled == c1 :> op1 @@ c2 :> u1
OperatorSignedIn == s1 :> c1

VARIABLE scope

MCInit == BrowserInit /\ scope = IF tab[t1].done THEN "tabs" ELSE "retry"

MCNext ==
    /\ BrowserNext
    /\ scope = "tabs" => clock' = clock
    /\ scope = "retry" =>
          /\ trouble' <= MaxRetryTrouble
          /\ tab'[t3] = tab[t3]
          /\ \A t \in Task : task'[t].user \in {op1, None}
    /\ UNCHANGED scope

MCSpec ==
    /\ MCInit /\ [][MCNext]_<<browserVars, scope>>
    /\ BrowserFairness

=============================================================================
