------------------------------ MODULE MCGateway ------------------------------
(* A small instance of GatewaySync for TLC, with the functions on messages  *)
(* that it takes for granted.  Each of four scopes has bounds of its own:   *)
(* the policy changes for long and nothing is published, a short history of *)
(* one peer is delivered, two publishers race over a shorter one, or        *)
(* nothing happens and the functions are checked on all their sample inputs.*)
EXTENDS GatewaySync, GatewayMessages, CanonicalJson

CONSTANTS Guest, GuestKey,          \* the peer that is delivered, and its key
          MaxDelivered, MaxRaced    \* bounds on the generations of the two scopes that deliver

MCInit == Init /\ scope \in {"policy", "delivery", "race", "messages"}

OneDraft == \A u, w \in Publisher : u # w => Nothing \in {draft[u], draft[w]}

MCNext ==
    /\ scope # "messages"
    /\ Next
    /\ scope = "policy" => syncVars' = syncVars
    /\ scope # "policy" => \A p \in DOMAIN peers' : p = Guest /\ peers'[p].public_key = GuestKey
    /\ scope = "delivery" => generation' <= MaxDelivered /\ OneDraft'
    /\ scope = "race" => generation' <= MaxRaced
    /\ UNCHANGED scope

MCSpec == MCInit /\ [][MCNext]_<<vars, scope>> /\ Fairness

-----------------------------------------------------------------------------

(* Two values have one text exactly if they are the same value: no choice   *)
(* of strings, numbers and nesting makes the separators ambiguous, and the  *)
(* order in which an object keeps its entries makes no difference.  So a    *)
(* digest binds the whole manifest, and console and gateway agree on it.    *)
TextIdentifiesValue ==
    scope = "messages" =>
        \A a, b \in Value : write_canonical_json(a) = write_canonical_json(b) <=> Same(a, b)

=============================================================================
