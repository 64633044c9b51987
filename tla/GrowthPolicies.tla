--------------------------- MODULE GrowthPolicies ---------------------------
(***************************************************************************)
(* The growth and alignment policies of memory/memory_allocation.hpp, on   *)
(* words of 64 bits as BitOps has them.                                    *)
(***************************************************************************)
EXTENDS BitOps

k_max_elements == {31}

Less(u, v) == \E i \in v \ u : \A j \in u \ v : j < i
Least(u, v) == IF Less(v, u) THEN v ELSE u
Greatest(u, v) == IF Less(u, v) THEN v ELSE u
Sum64(u, v) == Plus(u, v, 64)

base_growth_curve(required) ==
    IF ~Less(required, k_max_elements) THEN k_max_elements
    ELSE IF Less(required, {1}) THEN {1}
    ELSE LET base == hi_bit_mask(required, 64)
             step == ShiftRight(base, 1)
             uneven == required \cap Minus(step, {0}, 64) # {}
             half == IF uneven THEN ShiftRight(step, 1) ELSE step
             doublings == (IF uneven /\ required \cap step # {} THEN 1 ELSE 0)
                            + (IF required \cap half # {} THEN 1 ELSE 0)
         IN Least(Sum64(base, ShiftLeft(step, doublings, 64)), k_max_elements)

base_stepped_growth(required, pow2_stepping) ==
    LET below == Minus(pow2_stepping, {0}, 64)
    IN Sum64(required, Sum64(ShiftRight(pow2_stepping, 1), below)) \cap Not(below, 64)

capped_growth_rate_curve(required, pow2_stepping) ==
    Least(base_growth_curve(required), base_stepped_growth(required, pow2_stepping))

\* The rate of buffers is their least capacity, 4096; the 65536 that are
\* declared for it are used nowhere.
buffer_growth_policy(required) == Greatest(capped_growth_rate_curve(required, {12}), {12})
vector_growth_policy(required) == Greatest(capped_growth_rate_curve(required, {10}), {5})
default_growth_policy(required) == Greatest(base_growth_curve(required), {5})

byte_alignment_policy(align) == Greatest(reduce_alignment_to_pow2(align, 64), {3})

----------------------------------------------------------------------------
(* What the policies are to compute *)

\* The classes of the curve are 2^k and 3 * 2^(k-1), and a request goes to the
\* first whose midpoint with the class below is above it.
CurveAgrees(required) ==
    LET k == hi_bit_index(required, 64)
        Class == IF Less(required, {k, k - 2}) THEN {k, k - 1}
                 ELSE IF Less(required, {k, k - 1, k - 2}) THEN {k + 1}
                 ELSE {k, k + 1}
    IN k >= 2 => base_growth_curve(required) = Least(Class, k_max_elements)

\* Below the limit of a domain a policy always gives more than was asked for;
\* a larger request never gets less; and where the rate is capped, capacities
\* that follow each other are at most the rate apart.
PolicyAgrees(Policy(_), required, rate) ==
    LET next == Sum64(required, {0})
    IN /\ Less(required, k_max_elements) => Less(required, Policy(required))
       /\ ~Less(Policy(next), Policy(required))
       /\ ~Less(k_max_elements, Policy(required))
       /\ rate # {} => ~Less(Sum64(Policy(required), rate), Policy(next))

GrowthAgrees(required) ==
    /\ CurveAgrees(required)
    /\ PolicyAgrees(buffer_growth_policy, required, {12})
    /\ PolicyAgrees(vector_growth_policy, required, {10})
    /\ PolicyAgrees(default_growth_policy, required, {})
    /\ LET align == byte_alignment_policy(required)
       IN Cardinality(align) = 1 /\ ~Less(align, {3})
=============================================================================
