----------------------------- MODULE GatewaySync -----------------------------
(***************************************************************************)
(* Delivery of the VPN policy to gateways: the GatewaySyncService and its  *)
(* InMemoryGatewayStateStore (api/src/lib.rs), with the manifests, reports,*)
(* deliveries and acknowledgements of policy/src/contract.rs, over the     *)
(* policy of module VpnPolicy.                                             *)
(*                                                                         *)
(* Publishers, gateways and the network are external.  A publisher builds  *)
(* a manifest of the policy and stores it later, when the policy may have  *)
(* changed and another publisher may have stored a newer one: set_desired  *)
(* compares nothing.  A gateway runs a manifest it was delivered, never    *)
(* one older than the one it runs, reports what it runs and acknowledges   *)
(* what it applied.  Messages may be lost, duplicated, delayed and         *)
(* reordered: a delivery that was ever made can still arrive, and so can a *)
(* report or an acknowledgement of anything the gateway ever ran.          *)
(*                                                                         *)
(* Definitions named X_Something are mutants of X.                         *)
(***************************************************************************)
EXTENDS VpnPolicy

CONSTANTS GatewayId,
          GeneratedAt,    \* timestamps a manifest may carry
          Publisher,      \* callers of set_desired
          AckTask,        \* acknowledgements the service can be handling at once
          Nothing         \* no manifest

(* What a manifest may hold; schema version and interface are constants, and *)
(* a peer is sent without its owner.                                        *)
PeerManifests ==
    [generation   : 1 .. MaxGeneration,
     generated_at : GeneratedAt,
     peers        : UNION {[D -> VpnPeer] : D \in SUBSET PeerId}]

ASSUME NothingAssumption == Nothing \notin PeerManifests

VARIABLES draft,          \* external: the manifest each publisher has built and not yet stored
          desired,        \* store: the manifest each gateway should run
          applied,        \* store: the manifest each gateway is recorded to have applied
          pending,        \* acknowledge(): matched the desired manifest, not yet recorded
          delivered,      \* external: the deliveries ever made to each gateway
          running,        \* external: the manifest each gateway runs
          ran             \* external: every manifest each gateway has run

syncVars == <<draft, desired, applied, pending, delivered, running, ran>>
vars == <<peers, generation, draft, desired, applied, pending, delivered, running, ran>>

(* The manifest of the present policy. *)
PeerManifest(at) == [generation |-> generation, generated_at |-> at, peers |-> peers]

(* SHA-256 of the canonical JSON of every field, taken to be injective. *)
Digest(manifest) == <<manifest.generation, manifest.generated_at, manifest.peers>>

Init ==
    /\ PolicyInit
    /\ draft = [u \in Publisher |-> Nothing]
    /\ desired = [g \in GatewayId |-> Nothing]
    /\ applied = [g \in GatewayId |-> Nothing]
    /\ pending = [t \in AckTask |-> Nothing]
    /\ delivered = [g \in GatewayId |-> {}]
    /\ running = [g \in GatewayId |-> Nothing]
    /\ ran = [g \in GatewayId |-> {}]

-----------------------------------------------------------------------------

(* manifest() of the policy as it is.  The timestamp is the caller's, and   *)
(* nothing prevents one generation from being built with two.               *)
Build(u) ==
    /\ draft[u] = Nothing
    /\ ManifestAccepts(peers)
    /\ \E at \in GeneratedAt : draft' = [draft EXCEPT ![u] = PeerManifest(at)]
    /\ UNCHANGED <<policyVars, desired, applied, pending, delivered, running, ran>>

(* set_desired: whatever was stored is replaced. *)
Publish(u, g) ==
    /\ draft[u] # Nothing
    /\ desired' = [desired EXCEPT ![g] = draft[u]]
    /\ draft' = [draft EXCEPT ![u] = Nothing]
    /\ UNCHANGED <<policyVars, applied, pending, delivered, running, ran>>

NeedsDelivery_OffByOne(g, report) ==
    /\ desired[g] # Nothing
    /\ report # Nothing => report.generation + 1 < desired[g].generation

(* poll: whether a report of what g ran is answered by a delivery.  A       *)
(* report from the future or one that conflicts with the desired digest is  *)
(* refused, one that agrees with it needs none.                             *)
NeedsDelivery(g, report) ==
    /\ desired[g] # Nothing
    /\ report # Nothing => report.generation < desired[g].generation

Poll(g) ==
    /\ \E report \in ran[g] \cup {Nothing} : NeedsDelivery(g, report)
    /\ delivered' = [delivered EXCEPT ![g] = @ \cup {desired[g]}]
    /\ UNCHANGED <<policyVars, draft, desired, applied, pending, running, ran>>

(* The delivery id holds the generation and 12 characters of the digest:    *)
(* two manifests of one generation may share it, and here they always do.   *)
DeliveryId(manifest) == manifest.generation

AcknowledgementMatches_ByDeliveryId(g, ack) ==
    /\ desired[g] # Nothing
    /\ DeliveryId(ack) = DeliveryId(desired[g])
    /\ ack.generation = desired[g].generation

AcknowledgementMatches_PresentPolicy(g, ack) ==
    /\ desired[g] # Nothing
    /\ ack.generation = generation
    /\ Digest(ack) = Digest(desired[g])

(* The delivery that acknowledge() compares with is built from the manifest *)
(* desired at this moment; ack is one the gateway sent for a manifest it ran.*)
AcknowledgementMatches(g, ack) ==
    /\ desired[g] # Nothing
    /\ DeliveryId(ack) = DeliveryId(desired[g])
    /\ ack.generation = desired[g].generation
    /\ Digest(ack) = Digest(desired[g])

(* acknowledge: the desired manifest is read and compared under one lock ... *)
Acknowledge(t) ==
    /\ pending[t] = Nothing
    /\ \E g \in GatewayId : \E ack \in ran[g] :
          /\ AcknowledgementMatches(g, ack)
          /\ pending' = [pending EXCEPT ![t] = [gateway |-> g, manifest |-> desired[g]]]
    /\ UNCHANGED <<policyVars, draft, desired, applied, delivered, running, ran>>

(* ... and recorded under another. *)
RecordApplied(t) ==
    /\ pending[t] # Nothing
    /\ applied' = [applied EXCEPT ![pending[t].gateway] = pending[t].manifest]
    /\ pending' = [pending EXCEPT ![t] = Nothing]
    /\ UNCHANGED <<policyVars, draft, desired, delivered, running, ran>>

(* External: a delivery reaches the gateway, which applies it unless it is  *)
(* older than what it runs, or conflicts with it.                           *)
GatewayApply(g) ==
    /\ \E x \in delivered[g] :
          /\ running[g] # Nothing => running[g].generation < x.generation
          /\ running' = [running EXCEPT ![g] = x]
          /\ ran' = [ran EXCEPT ![g] = @ \cup {x}]
    /\ UNCHANGED <<policyVars, draft, desired, applied, pending, delivered>>

Next ==
    \/ PolicyNext /\ UNCHANGED syncVars
    \/ \E u \in Publisher : Build(u) \/ \E g \in GatewayId : Publish(u, g)
    \/ \E g \in GatewayId : Poll(g) \/ GatewayApply(g)
    \/ \E t \in AckTask : Acknowledge(t) \/ RecordApplied(t)

Spec == Init /\ [][Next]_vars

(* External: the gateway polls with what it runs at the moment. *)
PollCurrent(g) == NeedsDelivery(g, running[g]) /\ Poll(g)

(* A gateway keeps polling with its present state, applies what reaches it  *)
(* and repeats its acknowledgement; of the messages it repeats, one gets    *)
(* through.  An acknowledgement that the service has begun to handle is     *)
(* handled to the end.  Publishers and the policy may stop at any time.     *)
Fairness ==
    /\ \A g \in GatewayId : WF_vars(PollCurrent(g)) /\ WF_vars(GatewayApply(g))
    /\ \A t \in AckTask : WF_vars(Acknowledge(t)) /\ WF_vars(RecordApplied(t))

FairSpec == Spec /\ Fairness

-----------------------------------------------------------------------------

(* The console records a manifest for a gateway only if that gateway did    *)
(* apply exactly this manifest: an acknowledgement binds gateway,           *)
(* generation and digest, however late it comes and whatever was published  *)
(* in the meantime.                                                         *)
RecordedWasApplied ==
    \A g \in GatewayId : applied[g] # Nothing => applied[g] \in ran[g]

(* poll refuses, with AppliedConflict, to deliver to a gateway that reports *)
(* the desired generation with another digest.  That leaves no gateway with *)
(* other peers than desired: whenever each of the two manifests was built,  *)
(* and in whatever order publishers stored and gateways applied, manifests  *)
(* of one generation hold the same peers.                                   *)
ConflictsAgreeOnPeers ==
    \A g \in GatewayId : desired[g] # Nothing =>
        \A x \in ran[g] : x.generation = desired[g].generation => x.peers = desired[g].peers

Enforces(g) ==
    running[g] # Nothing /\ running[g].generation = desired[g].generation
                         /\ running[g].peers = desired[g].peers

(* poll answers GatewayAhead: a manifest was stored after a newer one had   *)
(* reached the gateway.                                                     *)
Ahead(g) == running[g] # Nothing /\ running[g].generation > desired[g].generation

(* SECURITY.md:15 says that "peer membership and permissions converge as    *)
(* one complete generation": a gateway that keeps polling comes to enforce  *)
(* the desired peers, whatever was lost or reordered, unless publishers     *)
(* stored out of order and it runs a newer generation already.  This holds  *)
(* even when a generation is published again with another timestamp and     *)
(* poll answers AppliedConflict.                                            *)
PolicyConverges == \A g \in GatewayId : desired[g] # Nothing ~> (Enforces(g) \/ Ahead(g))

(* The desired generation was delivered with another timestamp than the one *)
(* desired now: a gateway that applied it is answered AppliedConflict, and  *)
(* cannot acknowledge what is desired.                                      *)
Republished(g) ==
    \E x \in delivered[g] : x.generation = desired[g].generation /\ x # desired[g]

(* The record catches up as well, with the same exception and but for a     *)
(* generation delivered with two timestamps: the manifest desired for a     *)
(* gateway is recorded as applied, late acknowledgements of others          *)
(* notwithstanding.                                                         *)
RecordConverges ==
    \A g \in GatewayId :
        desired[g] # Nothing ~> (applied[g] = desired[g] \/ Ahead(g) \/ Republished(g))

=============================================================================
