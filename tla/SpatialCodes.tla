---------------------------- MODULE SpatialCodes ----------------------------
(***************************************************************************)
(* bit_utils/spatial_codes.hpp: Morton codes, which interleave the bits of *)
(* coordinates, and their transforms into Hilbert codes and back, on words *)
(* of 32 bits.  The Gray code of that file is the one of bit_ops.hpp.      *)
(***************************************************************************)
EXTENDS BitOps

And(u, mask) == u \cap mask
Left(u, k) == ShiftLeft(u, k, 32)

\* u |= u << k; u &= mask, and the same with a shift to the right, in turn.
Spread(u, steps) == FoldLeft(LAMBDA s, t : And(s \cup Left(s, t[1]), t[2]), u, steps)
Gather(u, steps) == FoldLeft(LAMBDA s, t : And(s \cup ShiftRight(s, t[1]), t[2]), u, steps)

\* u *= factor; u &= mask, in turn.
Scatter(u, steps) == FoldLeft(LAMBDA s, t : And(Times(s, t[1], 32), t[2]), u, steps)

(* 2d, 5 bits per channel *)

Scatter2d == <<<<Hex(<<0,1,0,4,1,0,4,1>>), Hex(<<1,0,2,0,4,0,8,1>>)>>,
               <<Hex(<<0,0,1,0,8,4,2,1>>), Hex(<<1,5,5,0,0,0,0,0>>)>>>>

morton_encode_2d_5bit(x, y) ==
    LET Scattered(u) == Scatter(And(u, Bits(5)), Scatter2d)
    IN ShiftRight(Scattered(x), 20) \cup ShiftRight(Scattered(y), 19)

morton_decode_x_2d_5bit(morton) ==
    Gather(And(morton, Hex(<<1,5,5>>)),
           <<<<1, Hex(<<1,3,3>>)>>, <<2, Hex(<<1,0,15>>)>>, <<4, Bits(5)>>>>)
morton_decode_y_2d_5bit(morton) == morton_decode_x_2d_5bit(ShiftRight(morton, 1))

(* 2d, 16 bits per channel *)

morton_encode_2d_16bit(x, y) ==
    LET Spreaded(u) == Spread(And(u, Bits(16)), [k \in 1 .. 4 |-> <<2^(4 - k), Alternate(2^(4 - k), 32)>>])
    IN Spreaded(x) \cup Left(Spreaded(y), 1)

morton_decode_x_2d_16bit(morton) ==
    Gather(And(morton, Alternate(1, 32)), [k \in 1 .. 4 |-> <<2^(k - 1), Alternate(2^k, 32)>>])
morton_decode_y_2d_16bit(morton) == morton_decode_x_2d_16bit(ShiftRight(morton, 1))

(* 3d, 5 bits per channel *)

Scatter3d == <<<<Hex(<<0,1,0,4,1,0,4,1>>), Hex(<<1,0,2,0,4,0,8,1>>)>>,
               <<Hex(<<0,0,0,1,1,1,1,1>>), Hex(<<1,2,4,9,0,0,0,0>>)>>>>

morton_encode_3d_5bit(x, y, z) ==
    LET Scattered(u) == Scatter(And(u, Bits(5)), Scatter3d)
    IN ShiftRight(Scattered(x), 16) \cup ShiftRight(Scattered(y), 15) \cup ShiftRight(Scattered(z), 14)

morton_decode_x_3d_5bit(morton) ==
    Gather(And(morton, Hex(<<1,2,4,9>>)),
           <<<<2, Hex(<<1,0,12,3>>)>>, <<4, Hex(<<1,0,0,15>>)>>, <<8, Bits(5)>>>>)
morton_decode_y_3d_5bit(morton) == morton_decode_x_3d_5bit(ShiftRight(morton, 1))
morton_decode_z_3d_5bit(morton) == morton_decode_x_3d_5bit(ShiftRight(morton, 2))

(* 3d, 10 bits per channel *)

morton_encode_3d_10bit(x, y, z) ==
    LET Spreaded(u) == Spread(And(u, Bits(10)),
            <<<<16, Hex(<<0,3,0,0,0,0,15,15>>)>>, <<8, Hex(<<0,3,0,0,15,0,0,15>>)>>,
              <<4, Hex(<<0,3,0,12,3,0,12,3>>)>>, <<2, Hex(<<0,9,2,4,9,2,4,9>>)>>>>)
    IN Spreaded(x) \cup Left(Spreaded(y), 1) \cup Left(Spreaded(z), 2)

morton_decode_x_3d_10bit(morton) ==
    Gather(And(morton, Hex(<<0,9,2,4,9,2,4,9>>)),
           <<<<2, Hex(<<0,3,0,12,3,0,12,3>>)>>, <<4, Hex(<<0,3,0,0,15,0,0,15>>)>>,
             <<8, Hex(<<0,3,0,0,0,0,15,15>>)>>, <<16, Bits(10)>>>>)
morton_decode_y_3d_10bit(morton) == morton_decode_x_3d_10bit(ShiftRight(morton, 1))
morton_decode_z_3d_10bit(morton) == morton_decode_x_3d_10bit(ShiftRight(morton, 2))

----------------------------------------------------------------------------
(* Hilbert transforms, 2d: pairs of bits from the top, each looked up in a *)
(* table of four that the pair found then turns.                           *)

Pair(u, block) == Number(And(ShiftRight(u, block), Bits(2)))

RECURSIVE Turned2d(_, _, _, _, _)
Turned2d(code, block, remap, toHilbert, index) ==
    IF block = 0 THEN index
    ELSE LET given == Pair(code, block - 2)
             found == Pair(remap, 2 * given)
             turned == IF toHilbert THEN ShiftRight(Hex(<<8,2,0,0,0,0,2,8>>), 8 * found)
                                    ELSE ShiftRight(Hex(<<3,3,0,0,0,0,12,12>>), 8 * given)
         IN Turned2d(code, block - 2, Xor(remap, turned), toHilbert, Plus(Left(index, 2), Word(found), 32))

Turned2dFrom(code, block, toHilbert) == Turned2d(code, block, Hex(<<11, 4>>), toHilbert, {})

morton_to_hilbert_2d(morton, levels) == Turned2dFrom(morton, 2 * levels, TRUE)

hilbert_to_morton_2d(hilbert, levels) == Turned2dFrom(hilbert, 2 * levels, FALSE)

\* ((0u - (u >> at)) >> k) & k: k where there is a bit above, for k up to 16.
Above(u, at, k) == Number(And(ShiftRight(Minus({}, ShiftRight(u, at), 32), k), Word(k)))

\* The number of bits that the 2d auto transforms go through: two or a
\* multiple of four, plus two; 36 for a code of 2^30 and more.
Block2d(u) ==
    LET b == 2 + FoldLeft(LAMBDA n, k : n + Above(u, n + k, k), 0, <<16, 8, 4>>)
    IN Number(Word(b + Above(u, b, 2)) \cup {1}) + 2

morton_to_hilbert_2d_auto(morton) ==
    Turned2dFrom(morton, Block2d(morton), TRUE)
hilbert_to_morton_2d_auto(hilbert) ==
    Turned2dFrom(hilbert, Block2d(hilbert), FALSE)

(* Hilbert transforms, 3d: triples of bits from the top, each rotated and  *)
(* reflected as the triples before it say.                                 *)

Triple(u, block) == And(ShiftRight(u, block), Bits(3))
Rotated(u, k) == Triple(u \cup ShiftLeft(u, 3, 6), k)

RECURSIVE Turned3d(_, _, _, _, _, _)
Turned3d(index, block, hcode, shift, signs, toHilbert) ==
    IF block = 0 THEN index
    ELSE LET at == 4 * Number(hcode)
             m == Pair(Hex(<<2,0,2,1,2,0,2,1>>), at)
             s == Pair(Hex(<<4, 9>>), 4 - shift - (IF toHilbert THEN m ELSE -m))
             g == And(Xor(ShiftRight(signs \cup Left(signs, 3), m),
                          ShiftRight(Hex(<<5,3,5,6,0,3,0,0>>), at)), Bits(3))
             old == Triple(index, block - 3)
             new == IF toHilbert THEN Xor(Rotated(old, s), g) ELSE Rotated(Xor(old, g), s)
         IN Turned3d(Xor(index, Left(Xor(old, new), block - 3)), block - 3,
                     IF toHilbert THEN new ELSE old, s, g, toHilbert)

Turned3dFrom(index, block, toHilbert) ==
    Turned3d(index, block, Triple(index, block), 0, {}, toHilbert)

ThirdBits == Hex(<<9,2,4,9,2,4,9,2>>)
ClosedUp(u) ==
    LET half == Xor(u, And(ShiftRight(u, 1), ThirdBits)) IN Xor(half, ShiftRight(And(half, ThirdBits), 1))
OpenedUp(u) ==
    LET half == Xor(u, ShiftRight(And(u, ThirdBits), 1)) IN Xor(half, And(ShiftRight(half, 1), ThirdBits))

morton_to_hilbert_3d(morton, levels) ==
    ClosedUp(IF levels > 1 THEN Turned3dFrom(morton, 3 * levels - 3, TRUE) ELSE morton)
hilbert_to_morton_3d(hilbert, levels) ==
    IF levels > 1 THEN Turned3dFrom(OpenedUp(hilbert), 3 * levels - 3, FALSE) ELSE OpenedUp(hilbert)

\* Where the 3d auto transforms start: at the index of the highest bit over
\* nine, rounded up, times nine, less three.  For a code of 1 that is -3.
Block3d(u) ==
    LET b == FoldLeft(LAMBDA n, k : n + Above(u, n + k, k), 0, <<16, 8, 4, 2>>)
    IN 9 * ((b + Number(ShiftRight(u, b + 1)) + 8) \div 9) - 3

morton_to_hilbert_3d_auto(morton) ==
    ClosedUp(IF morton # {} THEN Turned3dFrom(morton, Block3d(morton), TRUE) ELSE morton)
hilbert_to_morton_3d_auto(hilbert) ==
    LET index == OpenedUp(hilbert)
    IN IF index # {} THEN Turned3dFrom(index, Block3d(index), FALSE) ELSE index

----------------------------------------------------------------------------
(* What the functions are to compute *)

Interleaved(channels) ==
    LET n == Len(channels) IN UNION {{n * i + c - 1 : i \in channels[c]} : c \in 1 .. n}

\* Encoding interleaves the channels, decoding takes them apart again.
MortonAgrees(x, y, z) ==
    /\ LET m == morton_encode_2d_16bit(x, y)
       IN /\ m = Interleaved(<<x \cap Bits(16), y \cap Bits(16)>>)
          /\ morton_decode_x_2d_16bit(m) = x \cap Bits(16)
          /\ morton_decode_y_2d_16bit(m) = y \cap Bits(16)
    /\ LET m == morton_encode_2d_5bit(x, y)
       IN /\ m = Interleaved(<<x \cap Bits(5), y \cap Bits(5)>>)
          /\ morton_decode_x_2d_5bit(m) = x \cap Bits(5)
          /\ morton_decode_y_2d_5bit(m) = y \cap Bits(5)
    /\ LET m == morton_encode_3d_10bit(x, y, z)
       IN /\ m = Interleaved(<<x \cap Bits(10), y \cap Bits(10), z \cap Bits(10)>>)
          /\ morton_decode_x_3d_10bit(m) = x \cap Bits(10)
          /\ morton_decode_y_3d_10bit(m) = y \cap Bits(10)
          /\ morton_decode_z_3d_10bit(m) = z \cap Bits(10)
    /\ LET m == morton_encode_3d_5bit(x, y, z)
       IN /\ m = Interleaved(<<x \cap Bits(5), y \cap Bits(5), z \cap Bits(5)>>)
          /\ morton_decode_x_3d_5bit(m) = x \cap Bits(5)
          /\ morton_decode_y_3d_5bit(m) = y \cap Bits(5)
          /\ morton_decode_z_3d_5bit(m) = z \cap Bits(5)

Distance(p, q) ==
    LET Apart(u, v) == IF Number(u) > Number(v) THEN Number(u) - Number(v) ELSE Number(v) - Number(u)
    IN FoldLeft(LAMBDA sum, c : sum + Apart(p[c], q[c]), 0, [c \in 1 .. Len(p) |-> c])

Place2d(h, levels) ==
    LET m == hilbert_to_morton_2d(Word(h), levels)
    IN <<morton_decode_x_2d_16bit(m), morton_decode_y_2d_16bit(m)>>
Place3d(h, levels) ==
    LET m == hilbert_to_morton_3d(Word(h), levels)
    IN <<morton_decode_x_3d_10bit(m), morton_decode_y_3d_10bit(m), morton_decode_z_3d_10bit(m)>>

\* The transforms are each other's inverses, and neighbours on the Hilbert
\* curve are neighbours in space: the curve never jumps.
HilbertAgrees(h, levels) ==
    /\ h < 4^levels =>
          /\ morton_to_hilbert_2d(hilbert_to_morton_2d(Word(h), levels), levels) = Word(h)
          /\ h > 0 => Distance(Place2d(h - 1, levels), Place2d(h, levels)) = 1
    /\ h < 8^levels =>
          /\ morton_to_hilbert_3d(hilbert_to_morton_3d(Word(h), levels), levels) = Word(h)
          /\ h > 0 => Distance(Place3d(h - 1, levels), Place3d(h, levels)) = 1

\* "auto infers levels": a code of less than 30 bits that went there in 2d
\* comes back.
AutoAgrees2d(u) == hilbert_to_morton_2d_auto(morton_to_hilbert_2d_auto(u)) = u

\* In 3d the levels come in threes: nine bits, eighteen, twenty-seven.  A code
\* whose highest bit is the first of the next nine gets the levels of the bits
\* below it; the code 1 and those of more than 28 bits get a shift that is not
\* defined.  For any other code the levels are enough, in both directions.
AutoAgrees3d(u) ==
    LET top == IF u = {} THEN 0 ELSE Max(u)
        levels == 3 * ((top + 8) \div 9)
    IN top \in 1 .. 26 /\ top % 9 # 0 =>
          /\ morton_to_hilbert_3d_auto(u) = morton_to_hilbert_3d(u, levels)
          /\ hilbert_to_morton_3d_auto(ClosedUp(u)) = hilbert_to_morton_3d(ClosedUp(u), levels)
          /\ OpenedUp(ClosedUp(u)) = u
=============================================================================
