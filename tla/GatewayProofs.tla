---------------------------- MODULE GatewayProofs ----------------------------
(***************************************************************************)
(* Proofs about the path from the policy to the gateway: VpnPolicy, then   *)
(* GatewaySync on top of it, the answers of GatewayContract and the        *)
(* calendar of UtcTimestamp.  They hold for every set of peers, keys,      *)
(* gateways and concurrent acknowledgements, every address pool, every     *)
(* bound on generations and every year.                                    *)
(***************************************************************************)
EXTENDS GatewaySync, GatewayMessages, FiniteSetTheorems, WellFoundedInduction, TLAPS

-----------------------------------------------------------------------------
(* The policy.                                                              *)

(* A nonempty set of naturals has a least element, which Min returns. *)
LEMMA MinIsLeast ==
    ASSUME NEW S \in SUBSET Nat, S # {}
    PROVE  Min(S) \in S /\ \A y \in S : Min(S) <= y
<1> DEFINE R == OpToRel(<, Nat)
<1>1. IsWellFoundedOn(R, Nat)
  BY NatLessThanWellFounded
<1> HIDE DEF R
<1>2. PICK x \in S : \A y \in S : <<y, x>> \notin R
  BY <1>1, WFMin
<1>3. \A y \in S : ~(y < x)
  BY <1>2 DEF R, OpToRel
<1>4. \A y \in S : x <= y
  BY <1>3
<1> QED
  BY <1>4 DEF Min

(* What enrolment hands out is an address of the pool that no peer has. *)
LEMMA AllocateAddressIsFree ==
    ASSUME FreeAddresses # {}
    PROVE  allocate_address \in FreeAddresses
<1>1. FreeAddresses \in SUBSET Nat
  BY HostAssumption DEF FreeAddresses, OverlayAddress
<1> QED
  BY <1>1, MinIsLeast DEF allocate_address

(* A function all of whose values lie in T is a function into T. *)
LEMMA FunctionType ==
    ASSUME NEW f, NEW D, NEW T, f = [x \in D |-> f[x]], \A x \in D : f[x] \in T
    PROVE  f \in [DOMAIN f -> T] /\ DOMAIN f = D
  OBVIOUS

(* The conjunct of ManifestBuilds that is inductive with the types. *)
UniquePeers ==
    \A p, q \in DOMAIN peers : p # q =>
        peers[p].public_key # peers[q].public_key /\ peers[p].address # peers[q].address

PolicyInv == PolicyTypeOK /\ UniquePeers

(* The empty policy satisfies PolicyInv. *)
LEMMA PolicyInvInit == PolicyInit => PolicyInv
  BY GenerationAssumption DEF PolicyInit, PolicyInv, PolicyTypeOK, UniquePeers

(* Enrolment, permission changes, key rotation and revocation preserve PolicyInv. *)
LEMMA PolicyInvNext == PolicyInv /\ [PolicyNext]_policyVars => PolicyInv'
<1> SUFFICES ASSUME PolicyInv, [PolicyNext]_policyVars PROVE PolicyInv'
  OBVIOUS
<1> USE DEF PolicyInv, PolicyTypeOK
<1>1. ASSUME NEW p \in PeerId, NEW key \in PublicKey, NEW games \in BOOLEAN, enroll(p, key, games)
      PROVE  PolicyInv'
  <2> DEFINE row == [public_key |-> key, address |-> allocate_address, games |-> games]
  <2>1. allocate_address \in OverlayAddress /\ \A q \in DOMAIN peers : peers[q].address # allocate_address
    BY <1>1, AllocateAddressIsFree DEF enroll, FreeAddresses, UsedAddresses
  <2>2. row \in VpnPeer
    BY <2>1 DEF VpnPeer
  <2> HIDE DEF row
  <2>3. /\ DOMAIN peers' = DOMAIN peers \cup {p}
        /\ \A q \in DOMAIN peers' : peers'[q] = IF q = p THEN row ELSE peers[q]
        /\ peers' = [q \in DOMAIN peers' |-> peers'[q]]
    BY <1>1 DEF enroll, row
  <2>4. PolicyTypeOK'
    <3>1. \A q \in DOMAIN peers \cup {p} : peers'[q] \in VpnPeer
      BY <2>2, <2>3
    <3>2. peers' = [q \in DOMAIN peers \cup {p} |-> peers'[q]]
      BY <2>3
    <3>3. peers' \in [DOMAIN peers' -> VpnPeer]
      BY <3>1, <3>2, FunctionType
    <3>4. DOMAIN peers' \subseteq PeerId /\ generation' \in 1 .. MaxGeneration
      BY <1>1, <2>3, GenerationAssumption DEF enroll, NextGeneration
    <3> QED
      BY <3>3, <3>4
  <2>5. UniquePeers'
    BY <1>1, <2>1, <2>3 DEF enroll, UniquePeers, row
  <2> QED
    BY <2>4, <2>5
<1>2. ASSUME NEW p \in PeerId, NEW enabled \in BOOLEAN, set_games(p, enabled)
      PROVE  PolicyInv'
  <2>1. PolicyTypeOK'
    <3>1. \A q \in DOMAIN peers : peers'[q] \in VpnPeer
      BY <1>2 DEF set_games, VpnPeer
    <3>2. peers' = [q \in DOMAIN peers |-> peers'[q]]
      BY <1>2 DEF set_games
    <3>3. DOMAIN peers' \subseteq PeerId /\ peers' \in [DOMAIN peers' -> VpnPeer]
      BY <3>1, <3>2, FunctionType
    <3>4. generation' \in 1 .. MaxGeneration
      BY <1>2, GenerationAssumption DEF set_games, NextGeneration
    <3> QED
      BY <3>3, <3>4
  <2>2. UniquePeers'
    BY <1>2 DEF set_games, UniquePeers, VpnPeer
  <2> QED
    BY <2>1, <2>2
<1>3. ASSUME NEW p \in PeerId, NEW key \in PublicKey, rotate_key(p, key)
      PROVE  PolicyInv'
  <2>1. PolicyTypeOK'
    <3>1. \A q \in DOMAIN peers : peers'[q] \in VpnPeer
      BY <1>3 DEF rotate_key, VpnPeer
    <3>2. peers' = [q \in DOMAIN peers |-> peers'[q]]
      BY <1>3 DEF rotate_key
    <3>3. DOMAIN peers' \subseteq PeerId /\ peers' \in [DOMAIN peers' -> VpnPeer]
      BY <3>1, <3>2, FunctionType
    <3>4. generation' \in 1 .. MaxGeneration
      BY <1>3, GenerationAssumption DEF rotate_key, NextGeneration
    <3> QED
      BY <3>3, <3>4
  <2>2. UniquePeers'
    BY <1>3 DEF rotate_key, UniquePeers, VpnPeer
  <2> QED
    BY <2>1, <2>2
<1>4. ASSUME NEW p \in PeerId, revoke(p)
      PROVE  PolicyInv'
  <2>1. PolicyTypeOK'
    <3>1. \A q \in DOMAIN peers \ {p} : peers'[q] \in VpnPeer
      BY <1>4 DEF revoke, VpnPeer
    <3>2. peers' = [q \in DOMAIN peers \ {p} |-> peers'[q]]
      BY <1>4 DEF revoke
    <3>3. DOMAIN peers' \subseteq PeerId /\ peers' \in [DOMAIN peers' -> VpnPeer]
      BY <3>1, <3>2, FunctionType
    <3>4. generation' \in 1 .. MaxGeneration
      BY <1>4, GenerationAssumption DEF revoke, NextGeneration
    <3> QED
      BY <3>3, <3>4
  <2>2. UniquePeers'
    BY <1>4 DEF revoke, UniquePeers
  <2> QED
    BY <2>1, <2>2
<1>5. CASE UNCHANGED policyVars
  BY <1>5 DEF policyVars, UniquePeers
<1> QED
  BY <1>1, <1>2, <1>3, <1>4, <1>5 DEF PolicyNext

(* The assignment of addresses to peers, as a function. *)
AddressOf == [p \in DOMAIN peers |-> peers[p].address]

(* Under PolicyInv, peers inject into the addresses they use. *)
LEMMA AddressOfIsInjective ==
    ASSUME PolicyInv
    PROVE  AddressOf \in Injection(DOMAIN peers, OverlayAddress)
<1>1. AddressOf \in [DOMAIN peers -> OverlayAddress]
  BY DEF AddressOf, PolicyInv, PolicyTypeOK, VpnPeer
<1>2. IsInjective(AddressOf)
  BY DEF AddressOf, PolicyInv, UniquePeers, IsInjective
<1> QED
  BY <1>1, <1>2 DEF Injection

(* The pool is finite and has PoolSize addresses. *)
LEMMA PoolIsFinite ==
    IsFiniteSet(OverlayAddress) /\ Cardinality(OverlayAddress) = PoolSize
<1>1. CASE FirstHost > LastHost
  BY <1>1, HostAssumption, FS_Interval DEF OverlayAddress, PoolSize
<1>2. CASE ~(FirstHost > LastHost)
  BY <1>2, HostAssumption, FS_Interval DEF OverlayAddress, PoolSize
<1> QED
  BY <1>1, <1>2

(* PolicyInv makes PeerManifest::new succeed and leaves no address unaccounted for. *)
LEMMA PolicyInvImplies == PolicyInv => ManifestBuilds /\ NoAddressLeaks
<1> SUFFICES ASSUME PolicyInv PROVE ManifestBuilds /\ NoAddressLeaks
  OBVIOUS
<1>1. /\ Cardinality(DOMAIN peers) <= PoolSize
      /\ Cardinality(DOMAIN peers) = PoolSize <=>
            AddressOf \in Surjection(DOMAIN peers, OverlayAddress)
  BY AddressOfIsInjective, PoolIsFinite, FS_Injection
<1>2. ManifestBuilds
  BY <1>1 DEF ManifestBuilds, ManifestAccepts, PolicyInv, UniquePeers
<1>3. ASSUME FreeAddresses = {}
      PROVE  AddressOf \in Surjection(DOMAIN peers, OverlayAddress)
  <2>1. AddressOf \in [DOMAIN peers -> OverlayAddress]
    BY AddressOfIsInjective DEF Injection
  <2>2. \A a \in OverlayAddress : \E p \in DOMAIN peers : AddressOf[p] = a
    BY <1>3 DEF FreeAddresses, UsedAddresses, AddressOf
  <2> QED
    BY <2>1, <2>2 DEF Surjection
<1> QED
  BY <1>1, <1>2, <1>3 DEF NoAddressLeaks

(* Every policy the operations can reach is well typed: addresses come from *)
(* the pool and the generation is positive.                                 *)
THEOREM PolicyTypeCorrect == PolicySpec => []PolicyTypeOK
<1>1. PolicySpec => []PolicyInv
  BY PolicyInvInit, PolicyInvNext, PTL DEF PolicySpec
<1> QED
  BY <1>1, PTL DEF PolicyInv

(* manifest() never fails on a policy built by enroll, set_games,           *)
(* rotate_key and revoke: no two peers share a key or an address and the    *)
(* limit on peers is kept.                                                  *)
THEOREM ManifestAlwaysBuilds == PolicySpec => []ManifestBuilds
<1>1. PolicySpec => []PolicyInv
  BY PolicyInvInit, PolicyInvNext, PTL DEF PolicySpec
<1> QED
  BY <1>1, PolicyInvImplies, PTL

(* enroll answers AddressPoolExhausted only when every address has a peer.  *)
THEOREM PoolNeverLeaks == PolicySpec => []NoAddressLeaks
<1>1. PolicySpec => []PolicyInv
  BY PolicyInvInit, PolicyInvNext, PTL DEF PolicySpec
<1> QED
  BY <1>1, PolicyInvImplies, PTL

(* A step of the policy never moves a peer to another address. *)
LEMMA StepKeepsAddresses ==
    ASSUME PolicyInv, [PolicyNext]_policyVars
    PROVE  \A p \in DOMAIN peers \cap DOMAIN peers' : peers'[p].address = peers[p].address
<1> USE DEF PolicyInv, PolicyTypeOK
<1>1. ASSUME NEW p \in PeerId, NEW key \in PublicKey, NEW games \in BOOLEAN, enroll(p, key, games)
      PROVE  \A q \in DOMAIN peers : peers'[q] = peers[q]
  BY <1>1 DEF enroll
<1>2. ASSUME NEW p \in PeerId, NEW enabled \in BOOLEAN, set_games(p, enabled)
      PROVE  \A q \in DOMAIN peers : peers'[q].address = peers[q].address
  BY <1>2 DEF set_games, VpnPeer
<1>3. ASSUME NEW p \in PeerId, NEW key \in PublicKey, rotate_key(p, key)
      PROVE  \A q \in DOMAIN peers : peers'[q].address = peers[q].address
  BY <1>3 DEF rotate_key, VpnPeer
<1>4. ASSUME NEW p \in PeerId, revoke(p)
      PROVE  \A q \in DOMAIN peers' : peers'[q] = peers[q]
  BY <1>4 DEF revoke
<1>5. CASE UNCHANGED policyVars
  BY <1>5 DEF policyVars
<1> QED
  BY <1>1, <1>2, <1>3, <1>4, <1>5 DEF PolicyNext

(* An enrolled peer keeps its address, whatever happens to the others. *)
THEOREM AddressesNeverMove == PolicySpec => AddressesAreStable
<1>1. PolicySpec => []PolicyInv
  BY PolicyInvInit, PolicyInvNext, PTL DEF PolicySpec
<1>2. PolicyInv /\ [PolicyNext]_policyVars =>
        [\A p \in DOMAIN peers \cap DOMAIN peers' : peers'[p].address = peers[p].address]_policyVars
  BY StepKeepsAddresses
<1> QED
  BY <1>1, <1>2, PTL DEF PolicySpec, AddressesAreStable

(* A step changes the peers exactly when it advances the generation. *)
LEMMA StepAdvancesGeneration ==
    ASSUME PolicyInv, [PolicyNext]_policyVars
    PROVE  (peers' # peers <=> generation' # generation) /\ generation' >= generation
<1> USE DEF PolicyInv, PolicyTypeOK
<1>0. generation \in Nat
  BY GenerationAssumption
<1>1. ASSUME NEW p \in PeerId, NEW key \in PublicKey, NEW games \in BOOLEAN, enroll(p, key, games)
      PROVE  peers' # peers /\ generation' = generation + 1
  BY <1>1 DEF enroll, NextGeneration
<1>2. ASSUME NEW p \in PeerId, NEW enabled \in BOOLEAN, set_games(p, enabled)
      PROVE  peers' # peers /\ generation' = generation + 1
  <2>1. peers'[p].games = enabled
    BY <1>2 DEF set_games, VpnPeer
  <2> QED
    BY <1>2, <2>1 DEF set_games, NextGeneration
<1>3. ASSUME NEW p \in PeerId, NEW key \in PublicKey, rotate_key(p, key)
      PROVE  peers' # peers /\ generation' = generation + 1
  <2>1. peers'[p].public_key = key
    BY <1>3 DEF rotate_key, VpnPeer
  <2> QED
    BY <1>3, <2>1 DEF rotate_key, NextGeneration
<1>4. ASSUME NEW p \in PeerId, revoke(p)
      PROVE  peers' # peers /\ generation' = generation + 1
  BY <1>4 DEF revoke, NextGeneration
<1>5. CASE UNCHANGED policyVars
  BY <1>0, <1>5 DEF policyVars
<1> QED
  BY <1>0, <1>1, <1>2, <1>3, <1>4, <1>5 DEF PolicyNext

(* A generation names one policy: nothing changes under the same            *)
(* generation and no generation is spent on a change of nothing.            *)
THEOREM GenerationsNamePolicies == PolicySpec => GenerationNamesPolicy
<1>1. PolicySpec => []PolicyInv
  BY PolicyInvInit, PolicyInvNext, PTL DEF PolicySpec
<1>2. PolicyInv /\ [PolicyNext]_policyVars =>
        [(peers' # peers <=> generation' # generation) /\ generation' >= generation]_policyVars
  BY StepAdvancesGeneration
<1> QED
  BY <1>1, <1>2, PTL DEF PolicySpec, GenerationNamesPolicy

-----------------------------------------------------------------------------
(* Synchronisation: the inductive invariant.                                *)

SyncTypeOK ==
    /\ draft \in [Publisher -> PeerManifests \cup {Nothing}]
    /\ desired \in [GatewayId -> PeerManifests \cup {Nothing}]
    /\ applied \in [GatewayId -> PeerManifests \cup {Nothing}]
    /\ pending \in [AckTask -> [gateway : GatewayId, manifest : PeerManifests] \cup {Nothing}]
    /\ delivered \in [GatewayId -> SUBSET PeerManifests]
    /\ running \in [GatewayId -> PeerManifests \cup {Nothing}]
    /\ ran \in [GatewayId -> SUBSET PeerManifests]

(* The manifests that publishers, the store and the network hold. *)
Known ==
    {x \in PeerManifests :
        \/ \E u \in Publisher : x = draft[u]
        \/ \E g \in GatewayId : x = desired[g] \/ x \in delivered[g]}

(* None is of a generation the policy has not reached, and those of the      *)
(* present one hold the present peers.                                      *)
KnownIsPast ==
    \A x \in Known : x.generation <= generation /\ (x.generation = generation => x.peers = peers)

(* Two of one generation hold the same peers. *)
KnownAgree == \A x, y \in Known : x.generation = y.generation => x.peers = y.peers

RanWasDelivered == \A g \in GatewayId : ran[g] \subseteq delivered[g]

(* An acknowledgement matched and not yet recorded is of what the gateway ran. *)
PendingWasApplied ==
    \A t \in AckTask : pending[t] # Nothing => pending[t].manifest \in ran[pending[t].gateway]

SyncInv ==
    /\ PolicyInv
    /\ SyncTypeOK
    /\ KnownIsPast
    /\ KnownAgree
    /\ RanWasDelivered
    /\ PendingWasApplied
    /\ RecordedWasApplied

-----------------------------------------------------------------------------

(* The manifest of a policy is one. *)
LEMMA PeerManifestType ==
    ASSUME PolicyInv, NEW at \in GeneratedAt
    PROVE  PeerManifest(at) \in PeerManifests /\ PeerManifest(at) # Nothing
<1>1. peers \in UNION {[D -> VpnPeer] : D \in SUBSET PeerId}
  BY DEF PolicyInv, PolicyTypeOK
<1>2. generation \in 1 .. MaxGeneration
  BY DEF PolicyInv, PolicyTypeOK
<1> QED
  BY <1>1, <1>2, NothingAssumption DEF PeerManifest, PeerManifests

(* Generations are natural numbers. *)
LEMMA Generations ==
    ASSUME PolicyInv
    PROVE  generation \in Nat /\ \A x \in PeerManifests : x.generation \in Nat /\ x # Nothing
  BY GenerationAssumption, NothingAssumption DEF PolicyInv, PolicyTypeOK, PeerManifests

(* The digest identifies a manifest. *)
LEMMA DigestIdentifies ==
    ASSUME NEW x \in PeerManifests, NEW y \in PeerManifests, Digest(x) = Digest(y)
    PROVE  x = y
  BY DEF Digest, PeerManifests

(* Nothing was published: SyncInv holds of the empty policy. *)
LEMMA SyncInvInit == Init => SyncInv
<1> SUFFICES ASSUME Init PROVE SyncInv
  OBVIOUS
<1>1. Known = {}
  BY NothingAssumption DEF Init, Known
<1> QED
  BY <1>1, PolicyInvInit DEF Init, SyncInv, SyncTypeOK, KnownIsPast, KnownAgree, RanWasDelivered,
     PendingWasApplied, RecordedWasApplied

(* A change of the policy advances the generation past every manifest. *)
LEMMA PolicyStep ==
    ASSUME SyncInv, PolicyNext, UNCHANGED syncVars
    PROVE  SyncInv'
<1>1. PolicyInv' /\ generation' >= generation /\ (peers' # peers <=> generation' # generation)
  BY PolicyInvNext, StepAdvancesGeneration DEF SyncInv
<1>2. generation \in Nat /\ generation' \in Nat /\ \A x \in Known : x.generation \in Nat
  BY <1>1, Generations, GenerationAssumption DEF SyncInv, PolicyInv, PolicyTypeOK, Known
<1>3. Known' = Known
  BY DEF Known, syncVars
<1>4. KnownIsPast'
  BY <1>1, <1>2, <1>3 DEF SyncInv, KnownIsPast
<1> QED
  BY <1>1, <1>3, <1>4 DEF syncVars, SyncInv, SyncTypeOK, KnownAgree, RanWasDelivered,
     PendingWasApplied, RecordedWasApplied

(* A step that makes no manifest but those of the present policy keeps the   *)
(* manifests in agreement.                                                   *)
LEMMA NewManifests ==
    ASSUME SyncInv, UNCHANGED policyVars,
           \A x \in Known' : x \in Known \/ (x.generation = generation /\ x.peers = peers)
    PROVE  PolicyInv' /\ KnownIsPast' /\ KnownAgree'
<1>1. PolicyInv'
  BY DEF SyncInv, policyVars, PolicyInv, PolicyTypeOK, UniquePeers
<1>2. generation \in Nat
  BY Generations DEF SyncInv
<1>3. KnownIsPast'
  BY <1>2 DEF SyncInv, KnownIsPast, policyVars
<1>4. KnownAgree'
  BY DEF SyncInv, KnownIsPast, KnownAgree
<1> QED
  BY <1>1, <1>3, <1>4

(* manifest() builds from the present policy. *)
LEMMA BuildStep ==
    ASSUME SyncInv, NEW u \in Publisher, Build(u)
    PROVE  SyncInv'
<1>1. PICK at \in GeneratedAt : draft' = [draft EXCEPT ![u] = PeerManifest(at)]
  BY DEF Build
<1>2. UNCHANGED <<policyVars, desired, applied, pending, delivered, running, ran>>
  BY DEF Build
<1>3. /\ PeerManifest(at) \in PeerManifests
      /\ PeerManifest(at).generation = generation /\ PeerManifest(at).peers = peers
  BY PeerManifestType DEF SyncInv, PeerManifest
<1>4. \A x \in Known' : x \in Known \/ (x.generation = generation /\ x.peers = peers)
  BY <1>1, <1>2, <1>3 DEF Known, SyncInv, SyncTypeOK
<1>5. SyncTypeOK'
  BY <1>1, <1>2, <1>3 DEF SyncInv, SyncTypeOK
<1> QED
  BY <1>2, <1>4, <1>5, NewManifests
     DEF SyncInv, RanWasDelivered, PendingWasApplied, RecordedWasApplied

(* set_desired stores what a publisher built, however long ago. *)
LEMMA PublishStep ==
    ASSUME SyncInv, NEW u \in Publisher, NEW g \in GatewayId, Publish(u, g)
    PROVE  SyncInv'
<1>1. /\ draft[u] \in PeerManifests
      /\ desired' = [desired EXCEPT ![g] = draft[u]] /\ draft' = [draft EXCEPT ![u] = Nothing]
      /\ UNCHANGED <<policyVars, applied, pending, delivered, running, ran>>
  BY DEF Publish, SyncInv, SyncTypeOK
<1>2. \A x \in Known' : x \in Known
  BY <1>1, NothingAssumption DEF Known, SyncInv, SyncTypeOK
<1>3. SyncTypeOK'
  BY <1>1 DEF SyncInv, SyncTypeOK
<1> QED
  BY <1>1, <1>2, <1>3, NewManifests
     DEF SyncInv, RanWasDelivered, PendingWasApplied, RecordedWasApplied

(* poll delivers what is desired. *)
LEMMA PollStep ==
    ASSUME SyncInv, NEW g \in GatewayId, Poll(g)
    PROVE  SyncInv'
<1>1. /\ desired[g] # Nothing /\ desired[g] \in PeerManifests
      /\ delivered' = [delivered EXCEPT ![g] = @ \cup {desired[g]}]
      /\ UNCHANGED <<policyVars, draft, desired, applied, pending, running, ran>>
  BY DEF Poll, NeedsDelivery, SyncInv, SyncTypeOK
<1>2. \A x \in Known' : x \in Known
  BY <1>1 DEF Known, SyncInv, SyncTypeOK
<1>3. SyncTypeOK'
  BY <1>1 DEF SyncInv, SyncTypeOK
<1>4. RanWasDelivered'
  BY <1>1 DEF SyncInv, SyncTypeOK, RanWasDelivered
<1> QED
  BY <1>1, <1>2, <1>3, <1>4, NewManifests DEF SyncInv, PendingWasApplied, RecordedWasApplied

(* acknowledge, its comparison: the manifest it keeps is the one the gateway *)
(* names, which it ran.                                                      *)
LEMMA AcknowledgeStep ==
    ASSUME SyncInv, NEW t \in AckTask, Acknowledge(t)
    PROVE  SyncInv'
<1>0. PICK g \in GatewayId : \E ack \in ran[g] :
         /\ AcknowledgementMatches(g, ack)
         /\ pending' = [pending EXCEPT ![t] = [gateway |-> g, manifest |-> desired[g]]]
  BY DEF Acknowledge
<1>1. PICK ack \in ran[g] :
         /\ AcknowledgementMatches(g, ack)
         /\ pending' = [pending EXCEPT ![t] = [gateway |-> g, manifest |-> desired[g]]]
  BY <1>0
<1>2. UNCHANGED <<policyVars, draft, desired, applied, delivered, running, ran>>
  BY DEF Acknowledge
<1>3. desired[g] \in PeerManifests /\ desired[g] = ack
  BY <1>1, DigestIdentifies DEF AcknowledgementMatches, SyncInv, SyncTypeOK
<1>4. SyncTypeOK'
  BY <1>1, <1>2, <1>3 DEF SyncInv, SyncTypeOK
<1>5. PendingWasApplied'
  BY <1>1, <1>2, <1>3 DEF SyncInv, SyncTypeOK, PendingWasApplied
<1>6. Known' = Known
  BY <1>2 DEF Known
<1> QED
  BY <1>2, <1>4, <1>5, <1>6, NewManifests DEF SyncInv, RanWasDelivered, RecordedWasApplied

(* acknowledge, its record. *)
LEMMA RecordAppliedStep ==
    ASSUME SyncInv, NEW t \in AckTask, RecordApplied(t)
    PROVE  SyncInv'
<1> DEFINE g == pending[t].gateway
<1>1. /\ pending[t] # Nothing /\ g \in GatewayId
      /\ pending[t].manifest \in PeerManifests /\ pending[t].manifest \in ran[g]
  BY DEF RecordApplied, SyncInv, SyncTypeOK, PendingWasApplied
<1>2. /\ applied' = [applied EXCEPT ![g] = pending[t].manifest]
      /\ pending' = [pending EXCEPT ![t] = Nothing]
      /\ UNCHANGED <<policyVars, draft, desired, delivered, running, ran>>
  BY DEF RecordApplied
<1>3. SyncTypeOK'
  BY <1>1, <1>2 DEF SyncInv, SyncTypeOK
<1>4. PendingWasApplied'
  BY <1>1, <1>2 DEF SyncInv, SyncTypeOK, PendingWasApplied
<1>5. RecordedWasApplied'
  BY <1>1, <1>2 DEF SyncInv, SyncTypeOK, RecordedWasApplied
<1>6. Known' = Known
  BY <1>2 DEF Known
<1> QED
  BY <1>2, <1>3, <1>4, <1>5, <1>6, NewManifests DEF SyncInv, RanWasDelivered

(* A gateway runs what reached it. *)
LEMMA GatewayApplyStep ==
    ASSUME SyncInv, NEW g \in GatewayId, GatewayApply(g)
    PROVE  SyncInv'
<1>1. PICK x \in delivered[g] :
         /\ running' = [running EXCEPT ![g] = x]
         /\ ran' = [ran EXCEPT ![g] = @ \cup {x}]
  BY DEF GatewayApply
<1>2. x \in PeerManifests /\ UNCHANGED <<policyVars, draft, desired, applied, pending, delivered>>
  BY DEF GatewayApply, SyncInv, SyncTypeOK
<1>3. SyncTypeOK'
  BY <1>1, <1>2 DEF SyncInv, SyncTypeOK
<1>4. \A h \in GatewayId : ran[h] \subseteq ran'[h] /\ ran'[h] \subseteq delivered[h]
  BY <1>1 DEF SyncInv, SyncTypeOK, RanWasDelivered
<1>5. PendingWasApplied' /\ RecordedWasApplied'
  BY <1>2, <1>4 DEF SyncInv, SyncTypeOK, PendingWasApplied, RecordedWasApplied
<1>6. Known' = Known
  BY <1>2 DEF Known
<1> QED
  BY <1>2, <1>3, <1>4, <1>5, <1>6, NewManifests DEF SyncInv, RanWasDelivered

(* Every step of the policy, the service and the gateways preserves SyncInv. *)
LEMMA SyncInvNext == SyncInv /\ [Next]_vars => SyncInv'
<1> SUFFICES ASSUME SyncInv, [Next]_vars PROVE SyncInv'
  OBVIOUS
<1>1. CASE UNCHANGED vars
  <2>1. Known' = Known
    BY <1>1 DEF vars, Known
  <2> QED
    BY <1>1, <2>1, NewManifests DEF vars, policyVars, SyncInv, SyncTypeOK, RanWasDelivered,
       PendingWasApplied, RecordedWasApplied
<1> QED
  BY <1>1, PolicyStep, BuildStep, PublishStep, PollStep, AcknowledgeStep, RecordAppliedStep, GatewayApplyStep
     DEF Next

-----------------------------------------------------------------------------

(* Types, and the agreement of all manifests of one generation, from the     *)
(* drafts through the desired manifest and the deliveries to what a gateway  *)
(* has run.                                                                  *)
THEOREM SyncInvariant == Spec => []SyncInv
  BY SyncInvInit, SyncInvNext, PTL DEF Spec

(* Whatever is lost, repeated, reordered or published in the meantime, what *)
(* record_applied stores for a gateway is a manifest that gateway ran.      *)
THEOREM RecordsWereApplied == Spec => []RecordedWasApplied
<1>1. SyncInv => RecordedWasApplied
  BY DEF SyncInv
<1> QED
  BY <1>1, SyncInvariant, PTL

(* poll may leave a gateway that reports the desired generation with another *)
(* digest as it is: that gateway ran the desired peers, in whatever order    *)
(* any number of publishers stored what they had built.                      *)
THEOREM ConflictsAgree == Spec => []ConflictsAgreeOnPeers
<1>1. SyncInv => ConflictsAgreeOnPeers
  <2> SUFFICES ASSUME SyncInv, NEW g \in GatewayId, desired[g] # Nothing, NEW x \in ran[g],
                      x.generation = desired[g].generation
               PROVE  x.peers = desired[g].peers
    BY DEF ConflictsAgreeOnPeers
  <2>1. x \in Known /\ desired[g] \in Known
    BY DEF SyncInv, SyncTypeOK, RanWasDelivered, Known
  <2> QED
    BY <2>1 DEF SyncInv, KnownAgree
<1> QED
  BY <1>1, SyncInvariant, PTL

-----------------------------------------------------------------------------
(* The answers to reports.                                                  *)

(* A report and its reverse have the same entries, and are both supported   *)
(* or both not.                                                             *)
LEMMA Reversed ==
    ASSUME NEW r, NEW n \in Nat, NEW S, r.applied \in [1 .. n -> S], NEW q,
           q.schema_version = r.schema_version, q.applied = Reverse(r.applied)
    PROVE  is_supported(q) = is_supported(r)
<1>1. Len(r.applied) = n /\ DOMAIN r.applied = 1 .. n
  OBVIOUS
<1>2. DOMAIN q.applied = 1 .. n /\ Len(q.applied) = n
  BY <1>1 DEF Reverse
<1>3. \A i \in 1 .. n : n - i + 1 \in 1 .. n /\ q.applied[i] = r.applied[n - i + 1]
  BY <1>1 DEF Reverse
<1>4. {q.applied[i].interface : i \in 1 .. n} = {r.applied[i].interface : i \in 1 .. n}
  <2>1. \A i \in 1 .. n : \E j \in 1 .. n : r.applied[i] = q.applied[j]
    <3> SUFFICES ASSUME NEW i \in 1 .. n
                 PROVE  \E j \in 1 .. n : r.applied[i] = q.applied[j]
      OBVIOUS
    <3>1. n - i + 1 \in 1 .. n /\ n - (n - i + 1) + 1 = i
      OBVIOUS
    <3> QED
      BY <1>3, <3>1
  <2>2. \A i \in 1 .. n : \E j \in 1 .. n : q.applied[i] = r.applied[j]
    BY <1>3
  <2>3. ASSUME NEW x
        PROVE  x \in {q.applied[i].interface : i \in 1 .. n} <=> x \in {r.applied[i].interface : i \in 1 .. n}
    <3>1. x \in {q.applied[i].interface : i \in 1 .. n} <=> \E i \in 1 .. n : x = q.applied[i].interface
      BY Zenon
    <3>2. x \in {r.applied[i].interface : i \in 1 .. n} <=> \E i \in 1 .. n : x = r.applied[i].interface
      BY Zenon
    <3>3. (\E i \in 1 .. n : x = q.applied[i].interface) => \E i \in 1 .. n : x = r.applied[i].interface
      BY <2>2, Zenon
    <3>4. (\E i \in 1 .. n : x = r.applied[i].interface) => \E i \in 1 .. n : x = q.applied[i].interface
      BY <2>1, Zenon
    <3> QED
      BY <3>1, <3>2, <3>3, <3>4
  <2> QED
    BY <2>3
<1> QED
  BY <1>1, <1>2, <1>4 DEF is_supported

(* A supported report has one entry for wg-users at most. *)
LEMMA OneEntry ==
    ASSUME NEW r, NEW n \in Nat, NEW S, r.applied \in [1 .. n -> S], is_supported(r),
           NEW i \in UsersEntries(r)
    PROVE  wg_users(r) = r.applied[i]
<1>1. Len(r.applied) = n /\ DOMAIN r.applied = 1 .. n
  OBVIOUS
<1>2. n <= 2 /\ Cardinality({r.applied[k].interface : k \in 1 .. n}) = n
  BY <1>1 DEF is_supported
<1>3. ASSUME NEW j \in UsersEntries(r)
      PROVE  j = i
  <2> SUFFICES ASSUME j # i
               PROVE  FALSE
    OBVIOUS
  <2>1. i \in 1 .. n /\ j \in 1 .. n /\ n = 2
    BY <1>1, <1>2, <1>3 DEF UsersEntries
  <2>2. \A k \in 1 .. n : r.applied[k].interface = "wg-users"
    BY <1>3, <2>1 DEF UsersEntries
  <2>3. {r.applied[k].interface : k \in 1 .. n} = {"wg-users"}
    BY <2>1, <2>2
  <2>4. Cardinality({"wg-users"}) = 1
    BY FS_Singleton
  <2> QED
    BY <1>2, <2>1, <2>3, <2>4
<1>4. UsersEntries(r) = {i} /\ i \in Nat
  BY <1>1, <1>3 DEF UsersEntries
<1>5. Min({i}) = i
  BY <1>4, MinIsLeast
<1> QED
  BY <1>4, <1>5 DEF wg_users

(* The answer to a report does not depend on the order of its interfaces,   *)
(* however many generations, digests and interfaces there are.              *)
THEOREM PollIgnoresOrder == PollIgnoresListOrder
<1> SUFFICES ASSUME NEW manifest \in Manifest, NEW r \in Report
             PROVE  poll(manifest, r) = poll(manifest, [r EXCEPT !.applied = Reverse(r.applied)])
  BY DEF PollIgnoresListOrder
<1>1. PICK q : q = [r EXCEPT !.applied = Reverse(r.applied)]
  OBVIOUS
<1>2. q.schema_version = r.schema_version /\ q.applied = Reverse(r.applied)
  BY <1>1 DEF Report
<1>3. PICK n \in Nat : r.applied \in [1 .. n -> AppliedInterface]
  BY ContractAssumption DEF Report, SeqOf
<1>4. q.applied \in [1 .. n -> AppliedInterface]
  BY <1>2, <1>3 DEF Reverse
<1>5. is_supported(q) = is_supported(r)
  BY <1>2, <1>3, Reversed
<1>6. /\ DOMAIN r.applied = 1 .. n /\ DOMAIN q.applied = 1 .. n
      /\ \A i \in 1 .. n : n - i + 1 \in 1 .. n /\ q.applied[i] = r.applied[n - i + 1]
  BY <1>2, <1>3 DEF Reverse
<1>7. CASE ~is_supported(r)
  BY <1>1, <1>5, <1>7 DEF poll
<1>8. CASE is_supported(r) /\ UsersEntries(r) = {}
  <2>1. UsersEntries(q) = {}
    BY <1>8, <1>6 DEF UsersEntries
  <2> QED
    BY <1>1, <1>5, <1>8, <2>1 DEF poll
<1>9. ASSUME is_supported(r), NEW i \in UsersEntries(r)
      PROVE  poll(manifest, r) = poll(manifest, q)
  <2>1. i \in 1 .. n /\ n - i + 1 \in 1 .. n /\ n - (n - i + 1) + 1 = i
    BY <1>6 DEF UsersEntries
  <2>2. q.applied[n - i + 1] = r.applied[i] /\ n - i + 1 \in UsersEntries(q)
    BY <1>9, <1>6, <2>1 DEF UsersEntries
  <2>3. wg_users(q) = wg_users(r)
    BY <1>3, <1>4, <1>5, <1>9, <2>2, OneEntry
  <2> QED
    BY <1>5, <1>9, <2>2, <2>3 DEF poll
<1> QED
  BY <1>1, <1>7, <1>8, <1>9

-----------------------------------------------------------------------------
(* The calendar of timestamps.                                              *)

(* What a year adds to the count of days before it. *)
LEMMA Years ==
    ASSUME NEW y \in Int
    PROVE  /\ DaysBefore(y) \in Int
           /\ DaysBefore(y + 1) = DaysBefore(y) + IF leap_year(y + 1) THEN 366 ELSE 365
<1>1. (y + 1) \div 4 = y \div 4 + IF (y + 1) % 4 = 0 THEN 1 ELSE 0
  OBVIOUS
<1>2. (y + 1) \div 100 = y \div 100 + IF (y + 1) % 100 = 0 THEN 1 ELSE 0
  OBVIOUS
<1>3. (y + 1) \div 400 = y \div 400 + IF (y + 1) % 400 = 0 THEN 1 ELSE 0
  OBVIOUS
<1>4. (y + 1) % 400 = 0 => (y + 1) % 100 = 0
  OBVIOUS
<1>5. (y + 1) % 100 = 0 => (y + 1) % 4 = 0
  OBVIOUS
<1> QED
  BY <1>1, <1>2, <1>3, <1>4, <1>5 DEF DaysBefore, leap_year

(* The days before each month, counted from March. *)
LEMMA Months ==
    /\ DaysToMonth(0) = 0 /\ DaysToMonth(1) = 31 /\ DaysToMonth(2) = 61 /\ DaysToMonth(3) = 92
    /\ DaysToMonth(4) = 122 /\ DaysToMonth(5) = 153 /\ DaysToMonth(6) = 184 /\ DaysToMonth(7) = 214
    /\ DaysToMonth(8) = 245 /\ DaysToMonth(9) = 275 /\ DaysToMonth(10) = 306 /\ DaysToMonth(11) = 337
  BY DEF DaysToMonth

(* The year and the month as the calendar counts them. *)
YearOf(year, month) == IF month <= 2 THEN year - 1 ELSE year
MonthOf(month) == IF month <= 2 THEN month + 9 ELSE month - 3

(* The lengths of the months, as the code's cases list them. *)
LEMMA MonthLengths ==
    ASSUME NEW year \in Int, NEW month \in 1 .. 12
    PROVE  /\ days_in_month(year, month) =
                 IF month \in {1, 3, 5, 7, 8, 10, 12} THEN 31
                 ELSE IF month \in {4, 6, 9, 11} THEN 30
                 ELSE IF leap_year(year) THEN 29 ELSE 28
<1>1. CASE month \in {1, 3, 5, 7, 8, 10, 12}
  <2>1. month \notin {4, 6, 9, 11} /\ month # 2
    BY <1>1
  <2> QED
    BY <1>1, <2>1, Zenon DEF days_in_month
<1>2. CASE month \in {4, 6, 9, 11}
  <2>1. month \notin {1, 3, 5, 7, 8, 10, 12} /\ month # 2
    BY <1>2
  <2> QED
    BY <1>2, <2>1, Zenon DEF days_in_month
<1>3. CASE month = 2
  <2>1. month \notin {1, 3, 5, 7, 8, 10, 12} /\ month \notin {4, 6, 9, 11}
    BY <1>3
  <2> QED
    BY <1>3, <2>1, Zenon DEF days_in_month
<1> QED
  BY <1>1, <1>2, <1>3

(* A month ends where the next one begins, and the twelfth with its year. *)
LEMMA MonthEnds ==
    ASSUME NEW year \in Int, NEW month \in 1 .. 12
    PROVE  LET y == YearOf(year, month)
               m == MonthOf(month)
           IN  /\ y \in Int /\ m \in 0 .. 11 /\ DaysToMonth(m) \in 0 .. 337
               /\ m < 11 => DaysToMonth(m) + days_in_month(year, month) = DaysToMonth(m + 1)
               /\ m < 11 => DaysBefore(y) + DaysToMonth(m + 1) <= DaysBefore(y + 1)
               /\ m = 11 => DaysBefore(y) + DaysToMonth(m) + days_in_month(year, month) = DaysBefore(y + 1)
<1> DEFINE y == YearOf(year, month)
           m == MonthOf(month)
<1>1. y \in Int /\ m \in 0 .. 11 /\ (m = 11 => month = 2 /\ y + 1 = year)
  BY DEF YearOf, MonthOf
<1>2. m < 11 => DaysToMonth(m) + days_in_month(year, month) = DaysToMonth(m + 1)
  BY Months, MonthLengths DEF MonthOf
<1>3. DaysBefore(y) \in Int /\ DaysBefore(y + 1) = DaysBefore(y) + IF leap_year(y + 1) THEN 366 ELSE 365
  BY <1>1, Years
<1>4. m \in 0 .. 11 => DaysToMonth(m) \in 0 .. 337 /\ (m < 11 => DaysToMonth(m + 1) <= 337)
  BY Months
<1>5. m = 11 => DaysToMonth(m) = 337 /\ days_in_month(year, month) = IF leap_year(year) THEN 29 ELSE 28
  BY <1>1, Months, MonthLengths
<1> HIDE DEF y, m
<1>6. m < 11 => DaysToMonth(m + 1) \in Int
  BY <1>1 DEF DaysToMonth
<1>7. m < 11 => DaysBefore(y) + DaysToMonth(m + 1) <= DaysBefore(y + 1)
  BY <1>1, <1>3, <1>4, <1>6
<1>8. m = 11 => DaysBefore(y) + DaysToMonth(m) + days_in_month(year, month) = DaysBefore(y + 1)
  BY <1>1, <1>3, <1>5
<1> QED
  BY <1>1, <1>2, <1>4, <1>7, <1>8 DEF y, m

(* A date exists exactly if its month does and has that day. *)
LEMMA Dates ==
    ASSUME NEW year \in Int, NEW month \in Int, NEW day \in Int
    PROVE  IsDateOf(DayNumber(year, month, day), year, month, day) <=>
             month \in 1 .. 12 /\ day \in 1 .. days_in_month(year, month)
<1> DEFINE y == YearOf(year, month)
           m == MonthOf(month)
           n == DayNumber(year, month, day)
           length == days_in_month(year, month)
<1>1. n = DaysBefore(y) + DaysToMonth(m) + day - 1
  BY DEF DayNumber, YearOf, MonthOf
<1>2. ASSUME month \in 1 .. 12
      PROVE  /\ y \in Int /\ m \in 0 .. 11 /\ y \in {year - 1, year, year + 1}
             /\ month = (IF m < 10 THEN m + 3 ELSE m - 9) /\ year = (IF m < 10 THEN y ELSE y + 1)
             /\ DaysBefore(y) \in Int /\ DaysBefore(y + 1) \in Int /\ DaysToMonth(m) \in 0 .. 337
             /\ length \in Int
             /\ m < 11 => DaysToMonth(m) + length = DaysToMonth(m + 1)
             /\ m < 11 => DaysBefore(y) + DaysToMonth(m + 1) <= DaysBefore(y + 1)
             /\ m = 11 => DaysBefore(y) + DaysToMonth(m) + length = DaysBefore(y + 1)
  <2>1. /\ y \in Int /\ m \in 0 .. 11 /\ y \in {year - 1, year, year + 1}
        /\ month = (IF m < 10 THEN m + 3 ELSE m - 9) /\ year = (IF m < 10 THEN y ELSE y + 1)
    BY <1>2 DEF YearOf, MonthOf
  <2>2. DaysBefore(y) \in Int /\ DaysBefore(y + 1) \in Int /\ length \in Int
    BY <1>2, <2>1, MonthLengths, Years
  <2> QED
    BY <1>2, <2>1, <2>2, MonthEnds
<1>3. ASSUME NEW k \in Int, NEW j \in 0 .. 11,
             month = (IF j < 10 THEN j + 3 ELSE j - 9), year = (IF j < 10 THEN k ELSE k + 1)
      PROVE  month \in 1 .. 12 /\ k = y /\ j = m
  BY <1>3 DEF YearOf, MonthOf
<1> HIDE DEF y, m, n, length
<1>4. ASSUME month \in 1 .. 12, day \in 1 .. length
      PROVE  IsDateOf(n, year, month, day)
  <2>1. m < 11 => DaysToMonth(m + 1) \in Int
    BY <1>2, <1>4 DEF DaysToMonth
  <2>2. /\ DaysBefore(y) <= n /\ n < DaysBefore(y + 1)
        /\ DaysToMonth(m) <= n - DaysBefore(y) /\ (m < 11 => n - DaysBefore(y) < DaysToMonth(m + 1))
        /\ day = n - DaysBefore(y) - DaysToMonth(m) + 1
    BY <1>1, <1>2, <1>4, <2>1
  <2> QED
    BY <1>2, <1>4, <2>2 DEF IsDateOf
<1>5. ASSUME IsDateOf(n, year, month, day)
      PROVE  month \in 1 .. 12 /\ day \in 1 .. length
  <2>1. PICK k \in {year - 1, year, year + 1}, j \in 0 .. 11 :
           /\ n < DaysBefore(k + 1) /\ DaysToMonth(j) <= n - DaysBefore(k)
           /\ j < 11 => n - DaysBefore(k) < DaysToMonth(j + 1)
           /\ month = IF j < 10 THEN j + 3 ELSE j - 9
           /\ year = IF j < 10 THEN k ELSE k + 1
    BY <1>5 DEF IsDateOf
  <2>2. month \in 1 .. 12 /\ k = y /\ j = m
    BY <1>3, <2>1
  <2> QED
    BY <1>1, <1>2, <2>1, <2>2
<1> QED
  BY <1>4, <1>5 DEF n, length

(* valid_utc_timestamp accepts exactly the instants of the calendar that    *)
(* counts days, in every year, and not only in those the run samples.       *)
THEOREM AcceptsInstants ==
    \A t \in [year : Nat, month : Nat, day : Nat, hour : Nat, minute : Nat, second : Nat] :
        valid_utc_timestamp(t) <=> IsInstant(t)
<1> SUFFICES ASSUME NEW t \in [year : Nat, month : Nat, day : Nat,
                               hour : Nat, minute : Nat, second : Nat]
             PROVE  valid_utc_timestamp(t) <=> IsInstant(t)
  OBVIOUS
<1>1. IsDateOf(DayNumber(t.year, t.month, t.day), t.year, t.month, t.day) <=>
        t.month \in 1 .. 12 /\ t.day \in 1 .. days_in_month(t.year, t.month)
  BY Dates
<1>2. t.hour <= 23 /\ t.minute <= 59 /\ t.second <= 59 <=>
        3600 * t.hour + 60 * t.minute + t.second < 86400 /\ t.minute < 60 /\ t.second < 60
  OBVIOUS
<1> QED
  BY <1>1, <1>2 DEF valid_utc_timestamp, IsInstant

(* The sample of the run, for every set of years. *)
THEOREM AcceptsInstantsOnly == AcceptsExactlyInstants
<1>1. \A t \in Timestamps :
         t \in [year : Nat, month : Nat, day : Nat, hour : Nat, minute : Nat, second : Nat]
  <2>1. \A y \in Year : y \in Nat
    BY YearAssumption
  <2> QED
    BY <2>1 DEF Timestamps
<1> QED
  BY <1>1, AcceptsInstants DEF AcceptsExactlyInstants

=============================================================================
