------------------------------- MODULE BitOps -------------------------------
(***************************************************************************)
(* bit_utils/bit_ops.hpp.  An unsigned word is the set of its one bits, so *)
(* a shift moves the members, a mask is an intersection, and what is       *)
(* shifted or carried beyond the width is lost.  Every operator is given   *)
(* the width of its word, which stands for the two overloads of the        *)
(* function; bit counts and indices are numbers.                           *)
(***************************************************************************)
EXTENDS Integers, FiniteSets, FiniteSetsExt, SequencesExt

(* The machine's operations *)

Bits(w) == 0 .. w - 1

\* The word of a number below 2^31, and back.
Word(n) == {i \in 0 .. 30 : (n \div 2^i) % 2 = 1}
Number(u) == MapThenSumSet(LAMBDA i : 2^i, u)

\* A word written in hexadecimal digits, the highest first.
Hex(digits) ==
    {i \in 0 .. 4 * Len(digits) - 1 :
        i % 4 \in Word(digits[Len(digits) - i \div 4])}

ShiftLeft(u, k, w) == {i + k : i \in u} \cap Bits(w)
ShiftRight(u, k) == {i - k : i \in {j \in u : j >= k}}
Xor(u, v) == (u \ v) \cup (v \ u)
Not(u, w) == Bits(w) \ u

RECURSIVE Plus(_, _, _)
Plus(u, v, w) == IF v = {} THEN u ELSE Plus(Xor(u, v), ShiftLeft(u \cap v, 1, w), w)
Minus(u, v, w) == Plus(u, Plus(Not(v, w), {0}, w), w)
Times(u, v, w) == FoldSet(LAMBDA b, sum : Plus(ShiftLeft(u, b, w), sum, w), {}, v)

\* The powers of two below the width, downwards from half of it.
Halves(w) == LET n == CHOOSE k \in 0 .. w : 2^k = w IN [k \in 1 .. n |-> 2^(n - k)]

\* Every second group of k bits, from the lowest: 0x00ff00ff for k = 8.
Alternate(k, w) == {i \in Bits(w) : (i \div k) % 2 = 0}

----------------------------------------------------------------------------
(* Signs: sign_bit(), sign_flag(), sign_value() and sign_3way() *)

sign_bit(u, w) == Number(ShiftRight(u, w - 1) \cap {0})
sign_flag(u, w) == -sign_bit(u, w)
sign_value(u, w) == 1 - Number(ShiftRight(u, w - 2) \cap {1})
sign_3way(u, w) == (IF u # {} /\ sign_bit(u, w) = 0 THEN 1 ELSE 0) - sign_bit(u, w)

(* Bits and counts *)

smear(u, w) == FoldLeft(LAMBDA s, k : s \cup ShiftRight(s, k), u, Halves(w))

bit_width(u, w) ==
    LET Add(n, k) == n + Number(ShiftRight(Not(Minus(ShiftRight(u, n + k), {0}, w), w), k) \cap Word(k))
        n == FoldLeft(Add, 0, Halves(w))
    IN n + Number(ShiftRight(u, n))

spread_to_even_bits(u, w) ==
    FoldLeft(LAMBDA s, k : (ShiftLeft(s, k, w) \cup s) \cap Alternate(k, w),
             u \cap Bits(w \div 2), Tail(Halves(w)))
pack_from_even_bits(u, w) ==
    FoldLeft(LAMBDA s, k : (ShiftRight(s, k) \cup s) \cap Alternate(2 * k, w),
             u \cap Alternate(1, w), Reverse(Tail(Halves(w))))
spread_to_odd_bits(u, w) == ShiftLeft(spread_to_even_bits(u, w), 1, w)
pack_from_odd_bits(u, w) == pack_from_even_bits(ShiftRight(u, 1), w)

hi_bit_mask(u, w) == LET s == smear(u, w) IN Xor(s, ShiftRight(s, 1))
lo_bit_mask(u, w) == u \cap Not(Minus(u, {0}, w), w)
hi_bit_index(u, w) == bit_width(u, w) - 1
lo_bit_index(u, w) == hi_bit_index(lo_bit_mask(u, w), w)

parity(u, w) ==
    LET s == FoldLeft(LAMBDA v, k : Xor(v, ShiftRight(v, k)), u, SelectSeq(Halves(w), LAMBDA k : k >= 4))
    IN Number(ShiftRight(Hex(<<6, 9, 9, 6>>), Number(s \cap Bits(4))) \cap {0})

count_set_bits(u, w) ==
    LET pairs == Minus(u, ShiftRight(u, 1) \cap Alternate(1, w), w)
        fours == Plus(pairs \cap Alternate(2, w), ShiftRight(pairs, 2) \cap Alternate(2, w), w)
        eights == Plus(fours, ShiftRight(fours, 4), w) \cap Alternate(4, w)
    IN Number(ShiftRight(Times(eights, {i \in Bits(w) : i % 8 = 0}, w), w - 8))

(* Powers of two and alignment *)

is_pow2_or_zero(u, w) == u \cap Minus(u, {0}, w) = {}
is_pow2(u, w) == u # {} /\ is_pow2_or_zero(u, w)
round_up_to_pow2_or_zero(u, w) == Plus(smear(Minus(u, {0}, w), w), {0}, w)
round_up_to_pow2(u, w) == IF u # {} THEN round_up_to_pow2_or_zero(u, w) ELSE {0}
round_up_to_pow2_multiple(u, pow2, w) ==
    LET below == Minus(pow2, {0}, w) IN Plus(u, below, w) \cap Not(below, w)
next_multiple_of_pow2(u, pow2, w) == Plus(u, pow2, w) \cap Not(Minus(pow2, {0}, w), w)
reduce_alignment_to_pow2(u, w) ==
    IF is_pow2(u, w) \/ u = {} THEN u \cup (IF u = {} THEN {0} ELSE {}) ELSE lo_bit_mask(u, w)
highest_common_alignment(a, b, w) ==
    LET low == lo_bit_mask(a \cup b, w) IN IF low = {} THEN {0} ELSE low

(* Reversal: reverse_8() and so on are the lowest n bits of the word *)

reverse(u, n) ==
    FoldLeft(LAMBDA r, k : (ShiftLeft(r, k, n) \ Alternate(k, n)) \cup ShiftRight(r \ Alternate(k, n), k),
             u \cap Bits(n), Halves(n))
reverse_low_bits(u, bit_count, w) ==
    IF bit_count = 0 THEN u
    ELSE IF bit_count > w - 1 THEN reverse(u, w)
    ELSE (u \cap ShiftLeft(Bits(w), bit_count, w)) \cup ShiftRight(reverse(u, w), w - bit_count)

(* Numbers below 2^31 stand for the words of these *)

range_in_bounds(offset, length, total) == offset <= total /\ length <= total - offset

RECURSIVE highest_common_factor(_, _)
highest_common_factor(a, b) == IF b = 0 THEN a ELSE highest_common_factor(b, a % b)

(* Gray code *)

gray_encode(u) == Xor(u, ShiftRight(u, 1))

RECURSIVE Decoded(_, _)
Decoded(u, check) ==
    IF ShiftRight(check, 1) = {} THEN u
    ELSE Decoded(Xor(u, ShiftRight(check, 1)), ShiftRight(check, 1))
gray_decode(u) == Decoded(u, u)

----------------------------------------------------------------------------
(* What the functions are to compute *)

\* The masks, indices, counts, roundings and reversals of a word are those of
\* its set of bits: nothing is lost to a carry or a shift at any width.
BitsAgree(u, w) ==
    LET top == IF u = {} THEN -1 ELSE Max(u)
        low == IF u = {} THEN -1 ELSE Min(u)
        Single(i) == IF i < 0 THEN {} ELSE {i}
        rounded == IF u \subseteq {top} THEN top ELSE top + 1
    IN /\ smear(u, w) = 0 .. top
       /\ bit_width(u, w) = top + 1
       /\ hi_bit_mask(u, w) = Single(top) /\ lo_bit_mask(u, w) = Single(low)
       /\ hi_bit_index(u, w) = top /\ lo_bit_index(u, w) = low
       /\ count_set_bits(u, w) = Cardinality(u)
       /\ parity(u, w) = Cardinality(u) % 2
       /\ is_pow2(u, w) <=> Cardinality(u) = 1
       /\ is_pow2_or_zero(u, w) <=> Cardinality(u) <= 1
       /\ round_up_to_pow2(u, w) = (IF u = {} THEN {0} ELSE {rounded} \cap Bits(w))
       /\ round_up_to_pow2_or_zero(u, w) = (IF u = {} THEN {} ELSE {rounded} \cap Bits(w))
       /\ reduce_alignment_to_pow2(u, w) = (IF u = {} THEN {0} ELSE {low})
       /\ highest_common_alignment(u, ShiftLeft(u, 1, w), w) = (IF u = {} THEN {0} ELSE {low})
       /\ sign_bit(u, w) = -sign_flag(u, w) /\ sign_value(u, w) = 1 - 2 * sign_bit(u, w)
       /\ sign_3way(u, w) = (IF w - 1 \in u THEN -1 ELSE IF u = {} THEN 0 ELSE 1)
       /\ LET spread == spread_to_even_bits(u, w)
          IN /\ spread = {2 * i : i \in u \cap Bits(w \div 2)}
             /\ pack_from_even_bits(spread, w) = u \cap Bits(w \div 2)
             /\ pack_from_odd_bits(spread_to_odd_bits(u, w), w) = u \cap Bits(w \div 2)
       /\ \A n \in {8, 16, 32, w} : reverse(u, n) = {n - 1 - i : i \in u \cap Bits(n)}
       /\ \A n \in {0, 1, 13, w - 1, w} :
             reverse_low_bits(u, n, w) = (u \ Bits(n)) \cup {n - 1 - i : i \in u \cap Bits(n)}
       /\ \A k \in {0, 3, w - 1} :
             LET up == round_up_to_pow2_multiple(u, {k}, w)
                 next == next_multiple_of_pow2(u, {k}, w)
                 whole == u \ Bits(k)
             IN /\ up = (IF u = whole THEN u ELSE Plus(whole, {k}, w))
                /\ next = Plus(whole, {k}, w)
       /\ gray_decode(gray_encode(u)) = u
=============================================================================
