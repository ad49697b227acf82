------------------------------ MODULE VpnPolicy ------------------------------
(***************************************************************************)
(* The VPN policy of policy/src/vpn.rs: which peers are enrolled, with     *)
(* which WireGuard key and overlay address, and the generation that every  *)
(* change advances; and the check that a manifest of policy/src/contract.rs*)
(* makes of the peers it is built from.                                    *)
(*                                                                         *)
(* An operation that returns an error, or that finds nothing to change,    *)
(* leaves the policy as it is: it is an action that is not enabled.        *)
(* Definitions named X_Something are mutants of X.                         *)
(***************************************************************************)
EXTENDS Integers, FiniteSets, FiniteSetsExt

CONSTANTS PeerId, PublicKey,
          FirstHost, LastHost,  \* usable host octets, 2 and 254 in the program
          MaxGeneration         \* bound; the program's u64 counter panics past 2^64 - 1

ASSUME HostAssumption == FirstHost \in Nat /\ LastHost \in Nat /\ FirstHost <= LastHost + 1
ASSUME GenerationAssumption == MaxGeneration \in Nat \ {0}

VARIABLES peers,      \* BTreeMap<PeerId, VpnPeer>
          generation

policyVars == <<peers, generation>>

OverlayAddress == FirstHost .. LastHost

VpnPeer == [public_key : PublicKey, address : OverlayAddress, games : BOOLEAN]

PolicyTypeOK ==
    /\ DOMAIN peers \subseteq PeerId
    /\ peers \in [DOMAIN peers -> VpnPeer]
    /\ generation \in 1 .. MaxGeneration

PolicyInit ==
    /\ peers = [p \in {} |-> {}]
    /\ generation = 1

-----------------------------------------------------------------------------

UsedAddresses == {peers[p].address : p \in DOMAIN peers}

(* Counting up from the highest address in use instead of looking for a gap. *)
FreeAddresses_AboveHighest == {a \in OverlayAddress : \A b \in UsedAddresses : a > b}

FreeAddresses == OverlayAddress \ UsedAddresses

(* The lowest free host; enroll fails when there is none. *)
allocate_address == Min(FreeAddresses)

NextGeneration == generation < MaxGeneration /\ generation' = generation + 1

enroll(p, key, games) ==
    /\ p \notin DOMAIN peers
    /\ \A q \in DOMAIN peers : peers[q].public_key # key
    /\ FreeAddresses # {}
    /\ peers' = [q \in DOMAIN peers \cup {p} |->
                   IF q = p THEN [public_key |-> key, address |-> allocate_address, games |-> games]
                            ELSE peers[q]]
    /\ NextGeneration

set_games_KeepsGeneration(p, enabled) ==
    /\ p \in DOMAIN peers
    /\ peers[p].games # enabled
    /\ peers' = [peers EXCEPT ![p].games = enabled]
    /\ UNCHANGED generation

set_games(p, enabled) ==
    /\ p \in DOMAIN peers
    /\ peers[p].games # enabled
    /\ peers' = [peers EXCEPT ![p].games = enabled]
    /\ NextGeneration

rotate_key_AllowsDuplicate(p, key) ==
    /\ p \in DOMAIN peers
    /\ peers[p].public_key # key
    /\ peers' = [peers EXCEPT ![p].public_key = key]
    /\ NextGeneration

rotate_key(p, key) ==
    /\ \A q \in DOMAIN peers : q # p => peers[q].public_key # key
    /\ p \in DOMAIN peers
    /\ peers[p].public_key # key
    /\ peers' = [peers EXCEPT ![p].public_key = key]
    /\ NextGeneration

revoke_Compacts(p) ==
    /\ p \in DOMAIN peers
    /\ peers' = [q \in DOMAIN peers \ {p} |->
                   [peers[q] EXCEPT !.address = IF @ > peers[p].address THEN @ - 1 ELSE @]]
    /\ NextGeneration

revoke(p) ==
    /\ p \in DOMAIN peers
    /\ peers' = [q \in DOMAIN peers \ {p} |-> peers[q]]
    /\ NextGeneration

PolicyNext ==
    \/ \E p \in PeerId, key \in PublicKey, games \in BOOLEAN : enroll(p, key, games)
    \/ \E p \in PeerId, enabled \in BOOLEAN : set_games(p, enabled)
    \/ \E p \in PeerId, key \in PublicKey : rotate_key(p, key)
    \/ \E p \in PeerId : revoke(p)

PolicySpec == PolicyInit /\ [][PolicyNext]_policyVars

-----------------------------------------------------------------------------
(* PeerManifest::new accepts a collection of peers (a sequence in the       *)
(* program; only its elements matter to the checks).                        *)

PoolSize == LastHost - FirstHost + 1

ManifestAccepts(ps) ==
    /\ Cardinality(DOMAIN ps) <= PoolSize
    /\ \A p, q \in DOMAIN ps : p # q =>
          ps[p].public_key # ps[q].public_key /\ ps[p].address # ps[q].address

(* Whatever sequence of enrolments, rotations and revocations led here, the *)
(* policy can be turned into a manifest: no two peers share a key or an     *)
(* address, and there are no more than the manifest's limit.                *)
ManifestBuilds == ManifestAccepts(peers)

(* A peer keeps its address for as long as it is enrolled, although         *)
(* addresses freed by revocations are handed out again.                     *)
AddressesAreStable ==
    [][\A p \in DOMAIN peers \cap DOMAIN peers' : peers'[p].address = peers[p].address]_policyVars

(* Enrolment is refused for lack of addresses only when as many peers are   *)
(* enrolled as there are addresses: revocations leak none.                  *)
NoAddressLeaks == FreeAddresses = {} => Cardinality(DOMAIN peers) = PoolSize

(* A generation names one policy: the peers never change under the same     *)
(* generation, generations only grow, and one that grew changed something.  *)
GenerationNamesPolicy ==
    [][(peers' # peers <=> generation' # generation) /\ generation' >= generation]_policyVars

=============================================================================
