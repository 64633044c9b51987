----------------------------- MODULE fp16data_t -----------------------------
(***************************************************************************)
(* types/fp16data_t: half-precision numbers as 16 bits, converted from and *)
(* to single precision and integers.  A number stands for the bits; a      *)
(* float is its sign and its other 31 bits.                                *)
(***************************************************************************)
EXTENDS Integers, SequencesExt

Sign(negative) == IF negative THEN 32768 ELSE 0
LargestFinite == 31743                              \* 0x7bff
Infinity == 31744                                   \* 0x7c00
Overflowed(clampToFinite) == IF clampToFinite THEN LargestFinite ELSE Infinity

----------------------------------------------------------------------------
(* set() from an integer, whose magnitude is shifted up to 16 bits *)

Normalised(n, exp) ==
    LET Shifted(r, k) == IF r.ui >= 2^(16 - k) THEN [r EXCEPT !.exp = @ + k] ELSE [r EXCEPT !.ui = @ * 2^k]
    IN FoldLeft(Shifted, [ui |-> n, exp |-> exp], <<8, 4, 2, 1>>)

SetMagnitude(n, half) ==
    LET up == Normalised(n, 15)
        carried == up.ui + half
        r == IF carried > 65535 THEN [ui |-> carried \div 2, exp |-> up.exp + 1]
                                ELSE [ui |-> carried, exp |-> up.exp]
    IN (r.exp * 1024) + ((r.ui \div 32) % 1024)

set_uint32(u, clampToFinite) ==
    IF u = 0 THEN 0
    ELSE IF u > 65519 THEN Overflowed(clampToFinite)
    ELSE SetMagnitude(u, 16)

\* Mutant: a negative tie is rounded away from zero, as a positive one is.
set_int32_away(i, clampToFinite) ==
    IF i >= 0 THEN set_uint32(i, clampToFinite)
    ELSE 32768 + (IF i < -65520 THEN Overflowed(clampToFinite) ELSE SetMagnitude(-i, 16))

set_int32(i, clampToFinite) ==
    IF i >= 0 THEN set_uint32(i, clampToFinite)
    ELSE 32768 + (IF i < -65520 THEN Overflowed(clampToFinite) ELSE SetMagnitude(-i, 15))

(* set() from a float: the thresholds and addends of the two signs differ  *)
(* by one, so that ties go up.                                             *)

set_float(negative, ui, clampToFinite) ==
    LET tie == IF negative THEN 1 ELSE 0
        exp == ui \div 2^23
        man == ui % 2^23
    IN Sign(negative) +
       IF ui >= 1199566848 + tie                    \* 0x477ff000
         THEN IF ui <= 2139095040                   \* 0x7f800000
                THEN Overflowed(clampToFinite)
                ELSE Infinity + ((ui \div 2^13) % 1024)
       ELSE IF ui < 855638016 + tie THEN 0          \* 0x33000000
       ELSE IF ui >= 947904512 + tie                \* 0x387fe000
         THEN (ui - 939524096 + 4096 - tie) \div 2^13
       ELSE (man + 2^(125 - exp) + 2^23 - tie) \div 2^(126 - exp)

----------------------------------------------------------------------------
(* The operators *)

Magnitude(bits) == bits % 32768
IsNegative(bits) == bits >= 32768

to_uint32(bits, greatest) ==
    IF bits < 14336 \/ bits > Infinity THEN 0
    ELSE IF bits = Infinity THEN greatest
    ELSE (((bits % 1024) + 1024) * 2^(bits \div 1024 - 14) + 1024) \div 2048

to_int32(bits, least, greatest) ==
    IF ~ IsNegative(bits) THEN to_uint32(bits, greatest)
    ELSE IF bits <= 47104 \/ bits > 64512 THEN 0    \* 0xb800, 0xfc00
    ELSE IF bits = 64512 THEN least
    ELSE -((((bits % 1024) + 1024) * 2^(Magnitude(bits) \div 1024 - 14) + 1023) \div 2048)

\* The bits of the float without its sign, which is that of the half.
to_float(bits) ==
    LET m == Magnitude(bits)
        up == Normalised(m % 1024, 103)
    IN IF m >= Infinity THEN 2139095040 + (m % 1024) * 2^13
       ELSE IF m >= 1024 THEN 939524096 + m * 2^13
       ELSE IF m = 0 THEN 0
       ELSE (up.exp * 2^23) + ((up.ui * 2^8) % 2^23)

asSortable(bits) == IF IsNegative(bits) THEN 65535 - bits ELSE bits + 32768

----------------------------------------------------------------------------
(* What the functions are to compute *)

\* n / 2^d rounded: floor(signed value + 1/2).
Rounded(n, d, negative) == IF d <= 0 THEN n * 2^(-d) ELSE (n + 2^(d - 1) - (IF negative THEN 1 ELSE 0)) \div 2^d
Saturated(bits, clampToFinite) == IF bits >= Infinity THEN Overflowed(clampToFinite) ELSE bits
HighestBit(n) == CHOOSE b \in 0 .. 30 : 2^b <= n /\ n < 2^(b + 1)

\* An integer becomes the half its value rounds to.
IntegerAgrees(i, clampToFinite) ==
    LET negative == i < 0
        n == IF negative THEN -i ELSE i
        b == HighestBit(n)
        expected == IF i = 0 THEN 0 ELSE (b + 14) * 1024 + Rounded(n, b - 10, negative)
    IN /\ set_int32(i, clampToFinite) = Sign(negative) + Saturated(expected, clampToFinite)
       /\ ~ negative => set_uint32(i, clampToFinite) = set_int32(i, clampToFinite)

IsNaN(ui) == ui > 2139095040                         \* 0x7f800000

\* The half that the value of a float rounds to.
Nearest(negative, ui, clampToFinite) ==
    LET exp == ui \div 2^23
        man == 2^23 + (ui % 2^23)
        expected ==
            CASE exp >= 113 -> (exp - 113) * 1024 + Rounded(man, 13, negative)
              [] exp \in 102 .. 112 -> Rounded(man, 126 - exp, negative)
              [] OTHER -> 0
    IN Sign(negative) + Saturated(expected, clampToFinite)

RoundsHalfUp(negative, ui, clampToFinite) ==
    set_float(negative, ui, clampToFinite) = Nearest(negative, ui, clampToFinite)

StaysNaN(negative, ui, clampToFinite) ==
    LET bits == set_float(negative, ui, clampToFinite)
    IN Magnitude(bits) > Infinity /\ IsNegative(bits) = negative

\* The floats just below 2^-14 to which that is the nearest half: set() takes
\* them for normalised.
TakenForNormalised(negative, ui) ==
    LET tie == IF negative THEN 1 ELSE 0 IN ui \in 947904512 + tie .. 947908607 + tie

\* A NaN whose payload is in the bits the half has no room for.
PayloadLost(ui) == ui \in 2139095041 .. 2139103231

\* A float becomes the half its value rounds to and a NaN a NaN.  The inputs
\* for which the code gives something else are left out; the run half_of_float
\* is about them.
FloatAgrees(negative, ui, clampToFinite) ==
    /\ ~ IsNaN(ui) /\ ~ TakenForNormalised(negative, ui) => RoundsHalfUp(negative, ui, clampToFinite)
    /\ IsNaN(ui) /\ ~ PayloadLost(ui) => StaysNaN(negative, ui, clampToFinite)

\* A half goes to a float and back unchanged, to the integer it rounds to, and
\* the sortable keys are in the order of the values.
HalfAgrees(bits) ==
    LET negative == IsNegative(bits)
        m == Magnitude(bits)
        exp == m \div 1024
        n == Rounded((m % 1024) + 1024, 25 - exp, negative)
    IN /\ set_float(negative, to_float(bits), FALSE) = bits
       /\ m < Infinity =>
             /\ to_int32(bits, -1, 1) = (IF exp < 14 THEN 0 ELSE IF negative THEN -n ELSE n)
             /\ set_float(negative, to_float(bits), TRUE) = bits
             /\ negative \/ bits = 0 \/ to_float(bits - 1) < to_float(bits)
       /\ m < 32767 => (asSortable(bits) < asSortable(bits + 1)) = ~ negative
       /\ asSortable(Sign(TRUE)) < asSortable(0)
=============================================================================
