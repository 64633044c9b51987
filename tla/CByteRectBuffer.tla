-------------------------- MODULE CByteRectBuffer --------------------------
(***************************************************************************)
(* CByteRectBuffer and the rectangular views of ByteBuffers.hpp: rows of   *)
(* bytes whose starts are a pitch apart, the pitch being the width rounded *)
(* up to the alignment.  A buffer is a record of its block and metadata; a *)
(* view of one has an offset into the block as well.                       *)
(***************************************************************************)
EXTENDS MemoryTokens

NoRect == [block |-> << >>, pitch |-> 0, width |-> 0, count |-> 0, align |-> 0]

\* range_ok() and is_ready()
is_ready(r) == /\ r.block # << >>
               /\ r.pitch \in 1 .. Limit
               /\ r.width \in 1 .. r.pitch
               /\ r.count \in 1 .. Limit \div r.pitch

\* norm_align(): the power of two that divides it, 1 for none.
norm_align(a) ==
    IF a = 0 THEN 1 ELSE CHOOSE p \in {2^k : k \in 0 .. a} : a % p = 0 /\ a % (2 * p) # 0
offset_align(align, offset) == IF offset = 0 THEN norm_align(align)
                               ELSE Least(norm_align(align), norm_align(offset))
RoundUp(n, pow2) == ((n + pow2 - 1) \div pow2) * pow2

\* Rows of bytes copied from one block to another, each followed by zeros.
CopiedRows(dst, pitch, src, at, src_pitch, width, zero_width, count) ==
    [k \in DOMAIN dst |->
       LET y == (k - 1) \div pitch
           x == (k - 1) % pitch
       IN IF y >= count \/ x >= width + zero_width THEN dst[k]
          ELSE IF x < width THEN src[at + (y * src_pitch) + x + 1] ELSE Zero]

\* The bytes of a new block, given those of the old one.
Reallocated(r, pitch, width, count, zero) ==
    LET rows == Least(count, r.count)
        one == width = pitch /\ width = r.width /\ pitch = r.pitch
        copy == Least(width, r.width)
        old == IF one THEN Write(Block(pitch * count), 0, Slice(r.block, 0, pitch * rows))
               ELSE CopiedRows(Block(pitch * count), pitch, r.block, 0, r.pitch, copy,
                               IF zero THEN pitch - copy ELSE 0, rows)
    IN IF ~is_ready(r) THEN Fill(pitch * count, IF zero THEN Zero ELSE Unset)
       ELSE IF zero /\ count > r.count
       THEN Write(old, pitch * r.count, Fill(pitch * (count - r.count), Zero))
       ELSE old

reallocate(r, width, count, align, zero, memory) ==
    LET use == norm_align(IF align # 0 THEN align ELSE r.align)
        pitch == RoundUp(width, use)
        new == [block |-> Reallocated(r, pitch, width, count, zero),
                pitch |-> pitch, width |-> width, count |-> count, align |-> use]
        same == use <= r.align /\ <<pitch, width, count>> = <<r.pitch, r.width, r.count>>
    IN IF width = 0 /\ count = 0 THEN Done(NoRect)
       ELSE IF width \notin 1 .. Limit \/ count \notin 1 .. Limit \div pitch THEN Refused(r)
       ELSE IF same THEN Done(r)
       ELSE IF memory THEN Done(new) ELSE Refused(r)

allocate(r, width, count, align, zero, memory) ==
    LET g == reallocate(r, width, count, align, FALSE, memory)
    IN IF g.ok /\ zero THEN Done([g.is EXCEPT !.block = Fill(Len(@), Zero)]) ELSE g

\* The view of a whole buffer, and a part of a view: nothing unless it is within.
View(r) == [block |-> r.block, at |-> 0, pitch |-> r.pitch, width |-> r.width,
            count |-> r.count, align |-> r.align]
NoView == View(NoRect)

subview(v, x, y, width, height) ==
    LET offset == x + (y * v.pitch)
    IN IF /\ is_ready(v)
          /\ width > 0 /\ Greatest(x, width - 1) < v.width /\ x <= v.width - width
          /\ height > 0 /\ Greatest(y, height - 1) < v.count /\ y <= v.count - height
       THEN [v EXCEPT !.at = @ + offset, !.width = width, !.count = height,
                      !.align = offset_align(@, offset)]
       ELSE NoView

construct_and_copy_from(r, v, memory) ==
    LET pitch == RoundUp(v.width, v.align)
        copy == IF v.width = pitch /\ pitch = v.pitch
                THEN Slice(v.block, v.at, pitch * v.count)
                ELSE CopiedRows(Block(pitch * v.count), pitch, v.block, v.at, v.pitch,
                                v.width, pitch - v.width, v.count)
    IN IF v = NoView THEN Done(NoRect)
       ELSE IF memory THEN Done([block |-> copy, pitch |-> pitch, width |-> v.width,
                                 count |-> v.count, align |-> v.align])
       ELSE Refused(r)

\* zero_fill() of a buffer's visible bytes
zero_fill(r) ==
    [r EXCEPT !.block =
       IF r.width = r.pitch THEN Fill(Len(@), Zero)
       ELSE [k \in DOMAIN @ |-> IF (k - 1) % r.pitch < r.width THEN Zero ELSE @[k]]]

----------------------------------------------------------------------------
Byte(v, x, y) == v.block[v.at + (y * v.pitch) + x + 1]

\* A caller's image: every visible byte has a value of its own.
Painted(r) ==
    [r EXCEPT !.block = [k \in DOMAIN @ |-> IF (k - 1) % r.pitch < r.width THEN k ELSE @[k]]]

Sides == 0 .. 3
Aligns == {0, 1, 2, 4, 6}

Reallocations(r) ==
    {reallocate(r, w, h, a, z, m) : w, h \in Sides, a \in Aligns, z, m \in BOOLEAN}
Subviews(v) == {subview(v, x, y, w, h) : x, y, w, h \in Sides}

Steps(r) ==
    {zero_fill(r)}
      \cup {Painted(g.is) : g \in
              Reallocations(r)
                \cup {allocate(r, w, h, a, z, m) : w, h \in Sides, a \in Aligns, z, m \in BOOLEAN}
                \cup {construct_and_copy_from(r, v, m) : v \in Subviews(View(r)), m \in BOOLEAN}}

\* What reallocation keeps and zeroes; what views show; what a copy has.
RectAgrees(r) ==
    /\ r = NoRect \/ (is_ready(r) /\ Len(r.block) = r.pitch * r.count /\ r.pitch % r.align = 0)
    /\ \A w, h \in Sides, a \in Aligns, zero, m \in BOOLEAN :
          LET g == reallocate(r, w, h, a, zero, m)
              n == g.is
          IN IF ~g.ok THEN n = r
             ELSE \A y \in 0 .. n.count - 1, x \in 0 .. n.pitch - 1 :
                    IF x < Least(w, r.width) /\ y < r.count
                    THEN Byte(View(n), x, y) = Byte(View(r), x, y)
                    ELSE (zero /\ n # r) => Byte(View(n), x, y) = Zero
    /\ \A x, y, w, h \in Sides :
          LET v == subview(View(r), x, y, w, h)
              within == w > 0 /\ h > 0 /\ x + w <= r.width /\ y + h <= r.count
              c == construct_and_copy_from(r, v, TRUE).is
          IN /\ is_ready(v) <=> within
             /\ is_ready(v) =>
                  /\ v.at % v.align = 0 /\ is_ready(c) /\ c.pitch % c.align = 0
                  /\ \A i \in 0 .. w - 1, j \in 0 .. h - 1 :
                        /\ Byte(v, i, j) = Byte(View(r), x + i, y + j)
                        /\ Byte(View(c), i, j) = Byte(v, i, j)
                        /\ Byte(View(zero_fill(c)), i, j) = Zero
=============================================================================
