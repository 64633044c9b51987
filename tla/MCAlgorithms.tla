---------------------------- MODULE MCAlgorithms ----------------------------
(***************************************************************************)
(* The pure algorithms over bounded inputs.  A behaviour picks an          *)
(* algorithm and a group of inputs, and then one of them; a property       *)
(* speaks of the algorithms it has a meaning for.  The inputs are those at *)
(* which carries, shifts, thresholds, packets and tables begin and end.    *)
(***************************************************************************)
EXTENDS Integers, Sequences, FiniteSets

CONSTANTS
    PacketLimit, TableLimit,    \* of tga, scaled down from 128 and 256,
    SideLimit,                  \* and from 65535
    HilbertLevels,              \* of the curves followed from end to end
    LongestList,                \* of values that may be a permutation
    LongestRow                  \* of an image with a single row

Codes == INSTANCE SpatialCodes
Ids == INSTANCE system_ids
Halves == INSTANCE fp16data_t
Validators == INSTANCE validate_permutations
Images == INSTANCE tga WITH Opaque <- 1
Policies == INSTANCE GrowthPolicies

VARIABLES
    algorithm,                  \* the algorithm, or "none"
    group,                      \* a part of its inputs
    input                       \* one of them, or << >>
algorithm_vars == <<algorithm, group, input>>

Near(n) == {m \in n - 2 .. n + 2 : m >= 0}
Lists(S, n) == [1 .. n -> S]
Options(src) == [src : {src}, allow_clut : BOOLEAN, allow_rle : BOOLEAN, vflip : BOOLEAN]

\* Four colours, of which the last is translucent.
Colours == {<<0, 0, 0, 1>>, <<1, 0, 0, 1>>, <<0, 1, 1, 1>>, <<1, 0, 0, 0>>}

Groups ==
    [bits |-> 0 .. 31, growth |-> 0 .. 31, morton |-> 0 .. 15, hilbert |-> 1 .. HilbertLevels, auto |-> 0 .. 29,
     id |-> 0 .. 8, half |-> 0 .. 63, integer |-> 0 .. 16, float |-> 0 .. 255,
     permutation |-> 0 .. LongestList, lookup |-> 0 .. LongestList,
     row |-> 1 .. LongestRow, rows |-> {"AutoTrue32", "RGBA", "RGB", "R", "A"}]

Inputs(k, g) ==
    CASE k = "bits" ->
           {[width |-> 32, word |-> {g, i}] : i \in g .. 31}
             \cup {[width |-> 32, word |-> (0 .. 31) \ {g}], [width |-> 32, word |-> {}]}
             \cup {[width |-> 64, word |-> u] : u \in {{g}, {g, g + 32}, {g + 32}, {g, 63}, (0 .. 63) \ {g, 63 - g}}}
      [] k = "growth" ->
           {Policies!Word(8 * g + i) : i \in 0 .. 7}
             \cup {{g} \cup u : u \in SUBSET {i \in {0, g - 3, g - 2, g - 1} : i >= 0}}
             \cup {(0 .. g) \ {i} : i \in {0, g - 1, g}}
      [] k = "morton" -> {<<{g}, u, v>> : u, v \in {{}, 0 .. 15, {0, 4, 9}, {g}, {3, 15}}}
      [] k = "hilbert" -> 0 .. 8^g - 1
      [] k = "auto" -> {{g}, 0 .. g} \cup {{g, i} : i \in {j \in {0, g - 3, g - 2, g - 1} : j >= 0}}
      [] k = "id" -> (8 * g .. 8 * g + 7) \X {1, 63, 64, 1023}
      [] k = "half" -> {1024 * g + m : m \in Near(0) \cup Near(512) \cup 1020 .. 1023 \cup 255 .. 257}
      [] k = "integer" -> UNION {{-n, n} : n \in UNION {Near(m * 2^g) : m \in {1, 2047, 2049, 3071}} \cup Near(65519)}
      [] k = "float" ->
           UNION {Near(g * 2^23 + m) :
                    m \in {0, 4096, 8192, 12288, 2^22, 2^23 - 8192, 2^23 - 4096, 2^23 - 4}}
      [] k = "permutation" -> Lists(0 .. LongestList + 1, g) \X (0 .. 2)
      [] k = "lookup" -> Lists(0 .. 4, g)
      [] k = "row" -> {<<r>> : r \in Lists(0 .. 1, g)} \X Options("Gray")
                        \cup {[v \in 1 .. g |-> <<v % 2>>]} \X Options("Gray")
                        \cup IF g > 6 THEN {}
                             ELSE {<<r>> : r \in Lists(Colours \ {<<0, 1, 1, 1>>}, g)} \X Options("AutoTrue32")
      [] OTHER -> {<<r, s>> : r, s \in Lists(Colours, 2)} \X Options(g)

AlgorithmsIdle == algorithm = "none" /\ group = 0 /\ input = << >>
AlgorithmsInit == algorithm \in DOMAIN Groups /\ group \in Groups[algorithm] /\ input = << >>

AlgorithmsNext ==
    /\ input = << >>
    /\ \E i \in Inputs(algorithm, group) : input' = <<i>>
    /\ UNCHANGED <<algorithm, group>>

AlgorithmsSpec == AlgorithmsInit /\ [][AlgorithmsNext]_algorithm_vars

----------------------------------------------------------------------------
(* Properties *)

(***************************************************************************)
(* What is converted or searched comes out as its values say.  bit_ops     *)
(* finds the bits that are there at either width, Morton codes interleave, *)
(* a Hilbert curve passes through neighbours and back, ids decode to what  *)
(* was encoded, half floats are the nearest ones, ties up.  Growth gives   *)
(* more than was asked for, never less for a larger request.  The          *)
(* permutation validators accept the permutations and nothing else, though *)
(* they count only lower halves and put ranges off on a stack of fixed     *)
(* size; the sorted lookup keeps the first value of each key, in whatever  *)
(* order the keys arrive.  The inputs for which the code computes          *)
(* something else are left out, and named, in SpatialCodes, system_ids,    *)
(* fp16data_t and validate_permutations; the three properties that follow  *)
(* are about the last two.                                                 *)
(*                                                                         *)
(* encode() fills exactly the buffer it sized in a pass of its own, never  *)
(* one larger than the plain form, and decode() gives the image back: for  *)
(* every source, with tables and packets or without, flipped or not.       *)
(***************************************************************************)
AlgorithmsAgree ==
    input # << >> =>
        LET i == input[1]
        IN CASE algorithm = "bits" -> Codes!BitsAgree(i.word, i.width)
             [] algorithm = "growth" -> Policies!GrowthAgrees(i)
             [] algorithm = "morton" -> Codes!MortonAgrees(i[1], i[2], i[3])
             [] algorithm = "hilbert" -> Codes!HilbertAgrees(i, group)
             [] algorithm = "auto" -> Codes!AutoAgrees2d(i) /\ Codes!AutoAgrees3d(i)
             [] algorithm = "id" -> Ids!IdsAgree(i[1], i[2])
             [] algorithm = "half" -> Halves!HalfAgrees(i)
             [] algorithm = "integer" -> \A clamp \in BOOLEAN : Halves!IntegerAgrees(i, clamp)
             [] algorithm = "float" -> \A clamp, negative \in BOOLEAN : Halves!FloatAgrees(negative, i, clamp)
             [] algorithm = "permutation" -> Validators!PermutationsAgree(i[1], i[2], 5)
             [] algorithm = "lookup" -> Validators!LookupAgrees(i)
             [] OTHER -> Images!RoundTrip(i[1], i[2])

(***************************************************************************)
(* "Conversions that truncate bits use: floor(signed_value + 0.5 * ULP)"   *)
(* (fp16data_t.hpp:21) and "NaN (preserve payload/sign as far as           *)
(* possible)" (fp16data_t.cpp:201, :231): a NaN becomes a NaN of its sign, *)
(* and any other float the half this gives, through denormals, carries and *)
(* overflow.                                                               *)
(***************************************************************************)
FloatsAsDocumented ==
    input # << >> /\ algorithm = "float" =>
        \A clamp, negative \in BOOLEAN :
            IF Halves!IsNaN(input[1]) THEN Halves!StaysNaN(negative, input[1], clamp)
            ELSE Halves!RoundsHalfUp(negative, input[1], clamp)

(***************************************************************************)
(* "Validates that a raw value array contains every value in [base_value,  *)
(* base_value + count) exactly once" (validate_permutations.hpp:22-24),    *)
(* with any unsigned internal type, also one narrower than int, in which   *)
(* differences are not taken modulo its width.                             *)
(***************************************************************************)
RawPermutationsValidated ==
    input # << >> /\ algorithm = "permutation" =>
        \A narrow \in BOOLEAN :
            Validators!RawValidated(input[1][1], input[1][2], [narrow |-> narrow, bits |-> 5])
=============================================================================
