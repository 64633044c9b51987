----------------------- MODULE validate_permutations -----------------------
(***************************************************************************)
(* algo/validate_permutations.hpp, and the sorted lookup of                *)
(* system/TStaticLookup.hpp.                                               *)
(*                                                                         *)
(* A validator reads the values of a sequence, modulo 2^bits for its       *)
(* internal type.  "narrow" says that this type is narrower than int: the  *)
(* differences are then those of int, and may be negative.  The values     *)
(* extracted by validate_extracted_permutation() are never narrow.         *)
(***************************************************************************)
EXTENDS Integers, Sequences, FiniteSets, SequencesExt

Less(a, b, type) == IF type.narrow THEN a - b ELSE (a - b) % 2^type.bits

\* How many values are in the lower half.
Population(values, lo, width, type) ==
    Cardinality({i \in DOMAIN values : Less(values[i], lo, type) < width})

RECURSIVE Descend(_, _, _, _, _), Traverse(_, _, _)

\* Down the left spine of a range, whose upper halves are deferred.
Descend(values, lo, hi, deferred, type) ==
    IF hi - lo <= 1 THEN Traverse(values, deferred, type)
    ELSE LET width == (hi - lo) \div 2
             mid == lo + width
         IN IF Population(values, lo, width, type) # width THEN "invalid"
            ELSE IF hi - mid <= 1 THEN Descend(values, lo, mid, deferred, type)
            ELSE IF Len(deferred) = type.bits THEN "overrun"
            ELSE Descend(values, lo, mid, Append(deferred, <<mid, hi>>), type)

Traverse(values, deferred, type) ==
    IF deferred = << >> THEN "valid"
    ELSE Descend(values, Last(deferred)[1], Last(deferred)[2], Front(deferred), type)

Checked(values, base, type) ==
    IF \E i \in DOMAIN values : Less(values[i], base, type) >= Len(values) THEN "invalid"
    ELSE Traverse(values, << <<base, base + Len(values)>> >>, type)

validate_extracted_permutation(values, base, bits) ==
    IF values = << >> THEN "valid"
    ELSE IF base > 2^bits - 1 - Len(values) THEN "invalid"
    ELSE Checked(values, base, [narrow |-> FALSE, bits |-> bits])

validate_raw_permutation(values, base, type) ==
    LET maximum == 2^(type.bits - 1)
    IN IF values = << >> THEN "valid"
       ELSE IF Len(values) > maximum \/ base >= maximum \/ Len(values) > maximum - base THEN "invalid"
       ELSE Checked([i \in DOMAIN values |-> values[i] % 2^type.bits], base, type)

----------------------------------------------------------------------------
(* CStaticLookup: entries in the order of their keys, which are unique *)

RECURSIVE Between(_, _, _, _)
Between(lookup, key, lower, upper) ==
    IF lower >= upper THEN [found |-> FALSE, index |-> lower]
    ELSE LET pivot == lower + (upper - lower) \div 2
             at == lookup[pivot + 1].key
         IN IF key = at THEN [found |-> TRUE, index |-> pivot]
            ELSE IF key < at THEN Between(lookup, key, lower, pivot)
            ELSE Between(lookup, key, pivot + 1, upper)

find_index(lookup, key) == Between(lookup, key, 0, Len(lookup))

\* add() of a key and a value, and find(), which gives the values found.
AddEntry(lookup, entry) ==
    LET at == find_index(lookup, entry.key)
    IN IF at.found THEN lookup ELSE InsertAt(lookup, at.index + 1, entry)
FindValue(lookup, key) ==
    LET at == find_index(lookup, key) IN IF at.found THEN {lookup[at.index + 1].value} ELSE {}

----------------------------------------------------------------------------
(* What the functions are to compute *)

Expected(values, base) == base .. base + Len(values) - 1

\* The validator of raw values tells the permutations from all other lists,
\* given that the values expected fit into its value domain.
RawValidated(values, base, type) ==
    base + Len(values) <= 2^(type.bits - 1) =>
        validate_raw_permutation(values, base, type) =
            IF Expected(values, base) = {values[i] : i \in DOMAIN values} THEN "valid" ELSE "invalid"

\* The validators accept exactly the permutations, and the stack of deferred
\* ranges has room enough.  With an internal type narrower than int a value
\* below the base is in range, and the lower values are counted again in a
\* deferred range, of which there is one as soon as there are three values:
\* such lists are left out, and the run narrow_permutation is about them.
PermutationsAgree(values, base, bits) ==
    LET complete == Expected(values, base) = {values[i] : i \in DOMAIN values}
        least == Len(values) <= 2 /\ \A i \in DOMAIN values : values[i] >= base
    IN /\ base + Len(values) < 2^bits =>
             validate_extracted_permutation(values, base, bits) = IF complete THEN "valid" ELSE "invalid"
       /\ \A narrow \in BOOLEAN :
             ~ narrow \/ least => RawValidated(values, base, [narrow |-> narrow, bits |-> bits])

\* The lookup finds, for a key, the first value it was given, and nothing for
\* any other key.
LookupAgrees(keys) ==
    LET Entry(k, i) == [key |-> k, value |-> i]
        lookup == FoldLeft(AddEntry, << >>, [i \in DOMAIN keys |-> Entry(keys[i], i)])
    IN /\ \A k \in 0 .. 9 :
             FindValue(lookup, k) =
                {i \in DOMAIN keys : keys[i] = k /\ \A j \in 1 .. i - 1 : keys[j] # k}
       /\ Len(lookup) = Cardinality({keys[i] : i \in DOMAIN keys})
=============================================================================
