----------------------------- MODULE TPodVector -----------------------------
(***************************************************************************)
(* TPodVector of TPodVector.hpp.  An operation is an operator from a       *)
(* vector to the outcome it has, given the memory for a new block or not.  *)
(* The block may be longer than the capacity: CMemoryToken::reallocate()   *)
(* is told the elements that survive, not the capacity there was, and when *)
(* they are as many as the new capacity it takes nothing to have changed.  *)
(*                                                                         *)
(* Items are never part of the vector's own block (is_internal_ptr()).     *)
(***************************************************************************)
EXTENDS MemoryTokens, FiniteSets

NoVector == [block |-> << >>, size |-> 0, capacity |-> 0]

is_ready(v) == v.block # << >> /\ v.size <= v.capacity /\ v.capacity \in 1 .. Limit
is_valid(v) == v = NoVector \/ is_ready(v)

Contents(v) == Slice(v.block, 0, v.size)
First(v, n) == SubSeq(Contents(v), 1, Least(n, v.size))
From(v, i) == SubSeq(Contents(v), i + 1, v.size)

allocate(v, capacity, memory) ==
    IF capacity = v.capacity THEN Done([v EXCEPT !.size = 0])
    ELSE IF capacity <= Limit /\ (capacity = 0 \/ memory)
    THEN Done([block |-> Block(capacity), size |-> 0, capacity |-> capacity])
    ELSE Refused(v)

\* reallocate() of the token, which keeps the first `kept' elements.
TokenReallocated(block, kept, capacity) ==
    IF capacity = 0 THEN << >>
    ELSE IF kept = capacity THEN block
    ELSE Write(Block(capacity), 0, Slice(block, 0, kept))

reallocate(v, size, capacity, memory) ==
    LET kept == Least(v.size, size)
        block == IF capacity = v.capacity THEN v.block
                 ELSE TokenReallocated(v.block, kept, capacity)
        needs == capacity \notin {0, v.capacity, kept}
    IN IF size > capacity \/ capacity > Limit \/ (needs /\ ~memory) THEN Refused(v)
       ELSE Done([block |-> Write(block, v.size, Fill(size - kept, Zero)),
                  size |-> size, capacity |-> capacity])

resize(v, size, memory) ==
    IF size > Limit THEN Refused(v)
    ELSE reallocate(v, size, IF size > v.capacity THEN Growth(size) ELSE v.capacity, memory)

reserve(v, minimum, memory) ==
    IF minimum > Limit THEN Refused(v)
    ELSE reallocate(v, v.size, Greatest(Growth(minimum), v.capacity), memory)

ensure_free(v, extra, memory) ==
    IF extra <= Limit - v.size THEN reserve(v, v.size + extra, memory) ELSE Refused(v)

shrink_to_fit(v, memory) ==
    IF v.size = 0 THEN Done(NoVector) ELSE reallocate(v, v.size, v.size, memory)

set_size(v, size) == IF size <= v.capacity THEN Done([v EXCEPT !.size = size]) ELSE Refused(v)

\* push_back(), push_back_zeroed() and push_back_uninit() of given, zeroed and
\* unwritten items.
push_back(v, items, memory) ==
    LET free == ensure_free(v, Len(items), memory)
        w == free.is
    IN IF items = << >> THEN Done(v)
       ELSE IF ~free.ok THEN Refused(v)
       ELSE Done([w EXCEPT !.block = Write(@, v.size, items), !.size = @ + Len(items)])

push_back_uninit(v, count, memory) ==
    LET free == ensure_free(v, count, memory)
    IN IF count # 0 /\ free.ok THEN Done([free.is EXCEPT !.size = @ + count]) ELSE Refused(v)

push_back_zeroed(v, count, memory) ==
    LET g == push_back_uninit(v, count, memory)
    IN IF g.ok THEN Done([g.is EXCEPT !.block = Write(@, v.size, Fill(count, Zero))]) ELSE g

\* The items that fit.
try_push_back(v, items, memory) ==
    push_back(v, SubSeq(items, 1, Least(Len(items), v.capacity - v.size)), memory)

\* The popped items: from the back, or in their order.
pop_back(v, count) ==
    IF count <= v.size
    THEN [ok |-> TRUE, is |-> [v EXCEPT !.size = @ - count],
          items |-> [i \in 1 .. count |-> v.block[v.size + 1 - i]]]
    ELSE [ok |-> FALSE, is |-> v, items |-> << >>]

pop_back_preserve_order(v, count) ==
    LET g == pop_back(v, count)
    IN [g EXCEPT !.items = IF g.ok THEN Slice(v.block, v.size - count, count) ELSE @]

try_pop_back(v, count) == pop_back(v, Least(count, v.size))

\* Mutant for ContentsKept: the elements are moved by a copy that starts below.
OpenedForwards(v, index, count) == Forwards(v.block, index + count, index, v.size - index)

\* The elements from an index on moved up by count.
Opened(v, index, count) ==
    memmove(v.block, index + count, v.block, index, v.size - index)

insert(v, index, items, memory) ==
    LET free == ensure_free(v, Len(items), memory)
    IN IF index > v.size THEN Refused(v)
       ELSE IF items = << >> THEN Done(v)
       ELSE IF ~free.ok THEN Refused(v)
       ELSE Done([free.is EXCEPT !.block = Write(Opened(free.is, index, Len(items)), index, items),
                                 !.size = @ + Len(items)])

insert_uninit(v, index, count, memory) ==
    LET free == ensure_free(v, count, memory)
    IN IF index > v.size \/ count = 0 \/ ~free.ok THEN Refused(v)
       ELSE Done([free.is EXCEPT !.block = Opened(free.is, index, count), !.size = @ + count])

insert_zeroed(v, index, count, memory) ==
    LET g == insert_uninit(v, index, count, memory)
    IN IF g.ok THEN Done([g.is EXCEPT !.block = Write(@, index, Fill(count, Zero))]) ELSE g

erase(v, index, count) ==
    IF index > v.size \/ count > v.size - index THEN Refused(v)
    ELSE Done([v EXCEPT !.block = memmove(@, index, @, index + count, v.size - count - index),
                        !.size = @ - count])

\* The elements in the way go to the end, those that are erased are replaced by
\* the last ones.
swap_insert(v, index, items, memory) ==
    LET free == ensure_free(v, Len(items), memory)
        w == free.is
        moved == memmove(w.block, w.size, w.block, index, Least(Len(items), w.size - index))
    IN IF index > v.size THEN Refused(v)
       ELSE IF items = << >> THEN Done(v)
       ELSE IF ~free.ok THEN Refused(v)
       ELSE Done([w EXCEPT !.block = Write(moved, index, items), !.size = @ + Len(items)])

swap_erase(v, index, count) ==
    LET tail == Least(count, v.size - count - index)
    IN IF index > v.size \/ count > v.size - index THEN Refused(v)
       ELSE Done([v EXCEPT !.block = memmove(@, index, @, v.size - tail, tail), !.size = @ - count])

----------------------------------------------------------------------------
\* The outcomes of the operations with items, those with a count, and those
\* with an index as well.
WithItems(v, items, m) == {push_back(v, items, m), try_push_back(v, items, m)}
WithCount(v, n, m) ==
    {push_back_uninit(v, n, m), push_back_zeroed(v, n, m), allocate(v, n, m), resize(v, n, m),
     reserve(v, n, m), ensure_free(v, n, m), set_size(v, n), shrink_to_fit(v, m)}
      \cup {reallocate(v, k, n, m) : k \in 0 .. Limit + 1}
WithIndex(v, i, n, m) ==
    {insert_uninit(v, i, n, m), insert_zeroed(v, i, n, m), erase(v, i, n), swap_erase(v, i, n)}

\* What a vector can become, given lists of items.
Outcomes(v, lists) ==
    LET counts == 0 .. Limit + 1
    IN (UNION {WithItems(v, s, m) : s \in lists, m \in BOOLEAN})
         \cup (UNION {WithCount(v, n, m) : n \in counts, m \in BOOLEAN})
         \cup (UNION {WithIndex(v, i, n, m) : i, n \in counts, m \in BOOLEAN})
         \cup {insert(v, i, s, m) : i \in counts, s \in lists, m \in BOOLEAN}
         \cup {swap_insert(v, i, s, m) : i \in counts, s \in lists, m \in BOOLEAN}

Steps(v, lists) ==
    {NoVector} \cup {pop_back(v, n).is : n \in 0 .. Limit + 1} \cup {g.is : g \in Outcomes(v, lists)}

\* A request that is refused leaves the vector alone, and one that is not makes
\* the list of its contents the given one.
Becomes(v, g, list) ==
    IF g.ok THEN is_valid(g.is) /\ Contents(g.is) = list ELSE g.is = v

\* The same elements, each as often, in any order.
SameElements(s, t) ==
    LET times(list, x) == Cardinality({k \in DOMAIN list : list[k] = x})
    IN Len(s) = Len(t) /\ \A i \in DOMAIN s : times(s, s[i]) = times(t, s[i])

VectorAgrees(v, lists) ==
    LET counts == 0 .. Limit + 1
        zeros(n) == Fill(n, Zero)
    IN /\ is_valid(v) /\ v.capacity <= Len(v.block)
       /\ \A m \in BOOLEAN, s \in lists :
             /\ Becomes(v, push_back(v, s, m), Contents(v) \o s)
             /\ Becomes(v, try_push_back(v, s, m), Contents(v) \o
                           SubSeq(s, 1, Least(Len(s), v.capacity - v.size)))
       /\ \A i \in 0 .. v.size, m \in BOOLEAN, s \in lists :
             /\ Becomes(v, insert(v, i, s, m), First(v, i) \o s \o From(v, i))
             /\ LET g == swap_insert(v, i, s, m)
                    list == Contents(g.is)
                IN IF ~g.ok THEN g.is = v
                   ELSE Len(s) <= v.size - i \/ i = v.size =>
                          /\ SameElements(list, Contents(v) \o s)
                          /\ SubSeq(list, 1, i + Len(s)) = First(v, i) \o s
       /\ \A n \in counts, m \in BOOLEAN :
             /\ Becomes(v, push_back_zeroed(v, n, m), Contents(v) \o zeros(n))
             /\ Becomes(v, allocate(v, n, m), << >>)
             /\ Becomes(v, resize(v, n, m), First(v, n) \o zeros(n - v.size))
             /\ \A g \in {reserve(v, n, m), ensure_free(v, n, m), shrink_to_fit(v, m)} :
                   Becomes(v, g, Contents(v))
             /\ \A k \in counts :
                   Becomes(v, reallocate(v, k, n, m), First(v, k) \o zeros(k - v.size))
       /\ \A i \in 0 .. v.size, n \in 1 .. Limit, m \in BOOLEAN :
             /\ Becomes(v, insert_zeroed(v, i, n, m), First(v, i) \o zeros(n) \o From(v, i))
             /\ Becomes(v, erase(v, i, n), First(v, i) \o From(v, i + n))
             /\ LET g == swap_erase(v, i, n)
                    list == Contents(g.is)
                IN IF ~g.ok THEN g.is = v
                   ELSE /\ SameElements(list, First(v, i) \o From(v, i + n))
                        /\ \A k \in 1 .. Len(list) : k \in i + 1 .. i + n \/ list[k] = Contents(v)[k]
       /\ \A n \in counts :
             LET g == pop_back(v, n)
                 h == pop_back_preserve_order(v, n)
             IN /\ g.ok <=> n <= v.size
                /\ g.ok => /\ Contents(g.is) \o h.items = Contents(v)
                           /\ \A i \in 1 .. n : g.items[i] = h.items[n + 1 - i]
=============================================================================
