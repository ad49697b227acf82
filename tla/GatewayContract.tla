--------------------------- MODULE GatewayContract ---------------------------
(***************************************************************************)
(* The reports of gateways, field by field (policy/src/contract.rs), and   *)
(* how poll of api/src/lib.rs answers them.  GatewaySync takes a report to *)
(* be the manifest of wg-users; here it is what the wire can carry: a list *)
(* of interfaces with repetitions in any order.                            *)
(***************************************************************************)
EXTENDS Integers, Sequences, FiniteSets, SequencesExt

CONSTANTS Generation,
          ManifestDigest,
          MaxList      \* bound on the interfaces in a report

ASSUME ContractAssumption == Generation \subseteq Nat /\ MaxList \in Nat

SCHEMA_VERSION == 1

(* A manifest is told by its generation and its digest. *)
Manifest == [generation : Generation, digest : ManifestDigest]

AppliedInterface == [interface : {"wg-users", "wg-nodes", "other"}, generation : Generation,
                     manifest_digest : ManifestDigest]

(* Reports of one or two interfaces in any order, or of more than there are; *)
(* the digest of an interface other than wg-users is never looked at.       *)
Report ==
    LET ignored == CHOOSE d \in ManifestDigest : TRUE IN
    [schema_version : {1, 2},
     applied : SeqOf({a \in AppliedInterface :
                        a.interface # "wg-users" => a.manifest_digest = ignored}, MaxList)]

-----------------------------------------------------------------------------

is_supported_AllowsRepetition(r) ==
    /\ r.schema_version = SCHEMA_VERSION
    /\ Len(r.applied) <= 2
    /\ \A i \in DOMAIN r.applied : r.applied[i].interface \in {"wg-users", "wg-nodes"}

is_supported(r) ==
    LET interfaces == {r.applied[i].interface : i \in DOMAIN r.applied} IN
    /\ r.schema_version = SCHEMA_VERSION
    /\ Len(r.applied) <= 2
    /\ Cardinality(interfaces) = Len(r.applied)
    /\ interfaces \subseteq {"wg-users", "wg-nodes"}

UsersEntries(r) == {i \in DOMAIN r.applied : r.applied[i].interface = "wg-users"}

(* The first entry for wg-users, if there is one. *)
wg_users(r) == r.applied[Min(UsersEntries(r))]

poll(desired, r) ==
    LET users == wg_users(r) IN
    IF ~is_supported(r) THEN "InvalidReport"
    ELSE IF UsersEntries(r) = {} \/ users.generation < desired.generation THEN "Delivery"
    ELSE IF users.generation > desired.generation THEN "GatewayAhead"
    ELSE IF users.manifest_digest = desired.digest THEN "None"
    ELSE "AppliedConflict"

=============================================================================
