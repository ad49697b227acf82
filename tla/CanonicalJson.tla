---------------------------- MODULE CanonicalJson ----------------------------
(***************************************************************************)
(* The canonical text of a manifest: write_canonical_json of               *)
(* policy/src/contract.rs.  Console and gateway must compute one digest    *)
(* for one manifest, in whatever order its fields are kept, and two        *)
(* digests for two; SHA-256 is external, so this is about the text.        *)
(*                                                                         *)
(* A value is a pair of its type and its content; an object holds its      *)
(* entries in the order its map iterates.  A text is a sequence of tokens: *)
(* a string, with the quotes and escapes of serde_json, is one, and a      *)
(* number is as many as it has digits, so that two of them can run         *)
(* together.                                                               *)
(***************************************************************************)
EXTENDS Naturals, Sequences, SequencesExt

CONSTANT MaxLength      \* bound: elements of an array, entries of an object

ASSUME JsonAssumption == MaxLength \in Nat

(* The keys an object may have, in their order. *)
KeyName == <<"k1", "k2">>

(* Values up to a depth of two. *)
Small ==
    {<<"null", <<>>>>, <<"true", <<>>>>, <<"string", <<"k1">>>>, <<"string", <<"x">>>>}
        \cup {"number"} \X {<<"1">>, <<"2">>, <<"1", "2">>}

Entries(values) == {o \in SeqOf((DOMAIN KeyName) \X values, MaxLength) :
                       \A i, j \in DOMAIN o : i # j => o[i][1] # o[j][1]}

Container(values) == ({"array"} \X SeqOf(values, MaxLength)) \cup ({"object"} \X Entries(values))

Value ==
    Small \cup {<<"false", <<>>>>} \cup Container(Small)
        \cup {"array"} \X {<<x>> : x \in Container({<<"number", <<"1">>>>})}

-----------------------------------------------------------------------------

Separated_Nothing(texts) == FlattenSeq(texts)

(* The elements of an array or an object, with a comma before all but the first. *)
Separated(texts) ==
    FlattenSeq([i \in DOMAIN texts |-> IF i > 1 THEN <<",">> \o texts[i] ELSE texts[i]])

SortedKeys(entries) == SortSeq(entries, LAMBDA a, b : a[1] < b[1])

RECURSIVE write_canonical_json(_)

write_canonical_json(value) ==
    LET type == value[1]
        content == value[2]
        sorted == SortedKeys(content)
    IN  CASE type \in {"null", "true", "false"} -> <<type>>
          [] type \in {"number", "string"} -> content
          [] type = "array" ->
                <<"[">> \o Separated([i \in DOMAIN content |-> write_canonical_json(content[i])]) \o <<"]">>
          [] type = "object" ->
                <<"{">>
                  \o Separated([i \in DOMAIN sorted |->
                                   <<KeyName[sorted[i][1]], ":">> \o write_canonical_json(sorted[i][2])])
                  \o <<"}">>

-----------------------------------------------------------------------------

RECURSIVE Same(_, _)

(* Two values are the same if they are equal as JSON: objects as maps. *)
Same(a, b) ==
    /\ a[1] = b[1]
    /\ a[1] \in {"number", "string"} => a[2] = b[2]
    /\ a[1] = "array" => Len(a[2]) = Len(b[2]) /\ \A i \in DOMAIN a[2] : Same(a[2][i], b[2][i])
    /\ a[1] = "object" =>
          /\ Len(a[2]) = Len(b[2])
          /\ \A i \in DOMAIN a[2] : \E j \in DOMAIN b[2] :
                a[2][i][1] = b[2][j][1] /\ Same(a[2][i][2], b[2][j][2])

=============================================================================
