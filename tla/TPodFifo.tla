------------------------------ MODULE TPodFifo ------------------------------
(***************************************************************************)
(* TPodFifo of TPodFifo.hpp: elements in one block, from the read index    *)
(* on, with at most one wrap.  An operation is an operator from a FIFO to  *)
(* the outcomes the operation can have; where memory is copied onto        *)
(* itself there may be more than one.                                      *)
(*                                                                         *)
(* pop_front(count), without a destination, is not modelled: it names a    *)
(* variable that does not exist and cannot be instantiated.                *)
(***************************************************************************)
EXTENDS MemoryTokens

NoFifo == [block |-> << >>, size |-> 0, read_index |-> 0]

Capacity(f) == Len(f.block)
is_ready(f) == /\ f.block # << >>
               /\ f.size <= Capacity(f)
               /\ f.read_index < Capacity(f)

\* The logical contents, in order.
Contents(f) == [i \in 1 .. f.size |-> f.block[((f.read_index + i - 1) % Capacity(f)) + 1]]

\* The elements before the end of the block, read from or written to first.
TailSize(f, index) == Capacity(f) - index
Wrapped(f) == f.size > TailSize(f, f.read_index)

push_back(f, items) ==
    LET check == f.read_index + f.size
        write_index == IF check >= Capacity(f) THEN check - Capacity(f) ELSE check
        tail == Least(TailSize(f, write_index), Len(items))
        back == Write(f.block, write_index, SubSeq(items, 1, tail))
    IN IF ~is_ready(f) \/ Len(items) > Capacity(f) - f.size THEN Refused(f)
       ELSE Done([f EXCEPT !.block = Write(back, 0, SubSeq(items, tail + 1, Len(items))),
                           !.size = @ + Len(items)])

\* The items that are popped, and the FIFO without them.
pop_front(f, count) ==
    LET tail == TailSize(f, f.read_index)
        head == count - tail
        items == IF count <= tail THEN Slice(f.block, f.read_index, count)
                 ELSE Slice(f.block, f.read_index, tail) \o Slice(f.block, 0, head)
        read_index == IF count < tail THEN f.read_index + count ELSE Greatest(head, 0)
    IN IF ~is_ready(f) \/ count > f.size THEN [ok |-> FALSE, is |-> f, items |-> << >>]
       ELSE IF count = 0 THEN [ok |-> TRUE, is |-> f, items |-> << >>]
       ELSE [ok |-> TRUE, items |-> items,
             is |-> [f EXCEPT !.size = @ - count, !.read_index = read_index]]

\* pack() into the block itself.  When the contents wrap, the head is moved
\* up first, by a memcpy() where the code takes the ranges to be apart.
PackedInPlace(f) ==
    LET tail == TailSize(f, f.read_index)
        head == f.size - tail
        apart == f.size + tail <= Capacity(f)
        headMoved == IF apart THEN memcpy(f.block, tail, 0, head)
                     ELSE {memmove(f.block, tail, f.block, 0, head)}
        blocks ==
            IF f.size = 0 THEN {f.block}
            ELSE IF ~Wrapped(f)
            THEN IF f.read_index >= f.size THEN memcpy(f.block, 0, f.read_index, f.size)
                 ELSE {memmove(f.block, 0, f.block, f.read_index, f.size)}
            ELSE UNION {IF apart THEN memcpy(b, 0, f.read_index, tail)
                        ELSE {memmove(b, 0, b, f.read_index, tail)} : b \in headMoved}
    IN {[f EXCEPT !.block = b, !.read_index = 0] : b \in blocks}

\* pack() into a new block.
PackedInto(f, block) ==
    LET tail == Least(TailSize(f, f.read_index), f.size)
        headMoved == memmove(block, tail, f.block, 0, f.size - tail)
    IN [block |-> memmove(headMoved, 0, f.block, f.read_index, tail),
        size |-> f.size, read_index |-> 0]

pack(f) == IF is_ready(f) THEN PackedInPlace(f) ELSE {f}

allocate(f, capacity, memory) ==
    IF capacity = Capacity(f) THEN Done([f EXCEPT !.size = 0, !.read_index = 0])
    ELSE IF capacity <= Limit /\ (capacity = 0 \/ memory)
    THEN Done([NoFifo EXCEPT !.block = Block(capacity)])
    ELSE Refused(f)

reallocate(f, capacity, memory) ==
    IF capacity < f.size \/ capacity > Limit THEN {Refused(f)}
    ELSE IF capacity = Capacity(f) THEN {Done(g) : g \in PackedInPlace(f)}
    ELSE IF capacity = 0 \/ memory THEN {Done(PackedInto(f, Block(capacity)))}
    ELSE {Refused(f)}

reserve(f, minimum, memory) ==
    IF minimum > Limit THEN {Refused(f)}
    ELSE IF minimum > Capacity(f)
    THEN reallocate(f, Greatest(Growth(minimum), Capacity(f)), memory)
    ELSE {Done(f)}

ensure_free(f, extra, memory) ==
    IF extra <= Limit - f.size THEN reserve(f, f.size + extra, memory) ELSE {Refused(f)}

shrink_to_fit(f, memory) ==
    IF f.size = 0 THEN {Done(NoFifo)} ELSE reallocate(f, f.size, memory)

\* deallocate(), and what a move leaves behind
deallocate(f) == NoFifo

----------------------------------------------------------------------------
\* What a FIFO can become, pushing lists of items.
Steps(f, lists) ==
    {push_back(f, items).is : items \in lists}
      \cup {pop_front(f, n).is : n \in 0 .. Limit} \cup pack(f) \cup {deallocate(f)}
      \cup UNION {{allocate(f, n, m).is} \cup
                  {g.is : g \in reallocate(f, n, m) \cup reserve(f, n, m)
                                  \cup ensure_free(f, n, m) \cup shrink_to_fit(f, m)} :
                    n \in 0 .. Limit + 1, m \in BOOLEAN}

\* In-place packing is right unless the contents wrap and either the head is
\* moved over the tail, or copied over itself.
PacksInPlace(f) ==
    Wrapped(f) => /\ f.size <= f.read_index
                  /\ f.size <= 2 * TailSize(f, f.read_index)

Sound(f) == f = NoFifo \/ is_ready(f)

\* A request that is refused leaves the FIFO alone; one that is not changes
\* the list of its contents as it says.
Keeps(f, g) == Sound(g.is) /\ (g.ok \/ g.is = f) /\ Contents(g.is) = Contents(f)

FifoAgrees(f, lists) ==
    /\ Sound(f)
    /\ \A items \in lists :
          LET g == push_back(f, items)
          IN IF g.ok THEN Sound(g.is) /\ Contents(g.is) = Contents(f) \o items
             ELSE g.is = f /\ (f = NoFifo \/ f.size + Len(items) > Capacity(f))
    /\ \A n \in 0 .. Limit :
          LET g == pop_front(f, n)
          IN IF g.ok THEN Sound(g.is) /\ g.items \o Contents(g.is) = Contents(f) /\ Len(g.items) = n
             ELSE g.is = f /\ (f = NoFifo \/ n > f.size)
    /\ \A n \in 0 .. Limit + 1, m \in BOOLEAN :
          LET c == reallocate(f, n, m)
              d == IF f.size # 0 THEN shrink_to_fit(f, m) ELSE {}
              r == reserve(f, n, m)
              e == ensure_free(f, n, m)
          IN /\ PacksInPlace(f) => \A g \in c \cup d : Keeps(f, g) /\ (g.ok => g.is.read_index = 0)
             /\ \A g \in r \cup e : Keeps(f, g)
             /\ \A g \in e : g.ok => Capacity(g.is) >= f.size + n
    /\ PacksInPlace(f) => \A g \in pack(f) : Keeps(f, Done(g)) /\ g.read_index = 0

\* What pack() promises, whatever shape the contents have: at least one of the
\* outcomes the copies can have keeps them.
PackKeepsOrder(f) == \E g \in pack(f) : Contents(g) = Contents(f)
=============================================================================
