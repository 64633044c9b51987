--------------------------- MODULE TUnorderedSlots ---------------------------
(***************************************************************************)
(* TUnorderedSlots of TUnorderedSlots.hpp: slot metadata in an array, the  *)
(* loose and the empty slots each a circular, doubly linked list through   *)
(* it, with the payload of a derived class that moves it as                *)
(* TPodUnorderedSlots and TUnorderedCollection do.                         *)
(*                                                                         *)
(* An operation is a step, but for pack(), which calls the derived class   *)
(* between its moves and is a step per call.  A call that is refused       *)
(* because of the lock, a missing array or a bad argument changes nothing  *)
(* and is no step.                                                         *)
(***************************************************************************)
EXTENDS Integers, Sequences, FiniteSets, FiniteSetsExt, Functions

CONSTANTS
    Limit,              \* k_capacity_limit, at least 1
    Payloads,              \* payloads
    None                \* no payload

VARIABLES
    index,              \* the metadata
    lock,               \* m_lock
    source, target,     \* the loop of private_compact()
    payload             \* the derived class's payload, slot by slot

vars == <<index, lock, source, target, payload>>

ASSUME UnorderedAssumption == Limit \in Nat \ {0} /\ None \notin Payloads

Category == {"loose", "empty"}
Slots(n) == 0 .. n - 1

----------------------------------------------------------------------------
(* Lists.  A slot's links name the slots before and after it in its list.  *)

After(S, i) == IF i = Max(S) THEN Min(S) ELSE Min({j \in S : j > i})
Before(S, i) == IF i = Min(S) THEN Max(S) ELSE Max({j \in S : j < i})

\* The links of a circular list of the slots in S, in ascending order.
Chained(meta, S, state) ==
    [i \in DOMAIN meta \cup S |->
       IF i \in S THEN [prev |-> Before(S, i), next |-> After(S, i), state |-> state]
       ELSE meta[i]]

HeadOf(S) == IF S = {} THEN -1 ELSE Min(S)

\* combine_lists()
Combined(meta, head1, head2) ==
    IF head1 = -1 \/ head2 = -1 THEN meta
    ELSE LET tail1 == meta[head1].prev
             tail2 == meta[head2].prev
         IN [meta EXCEPT ![head1].prev = tail2, ![tail1].next = head2,
                         ![head2].prev = tail1, ![tail2].next = head1]

CombinedHead(head1, head2) == IF head1 = -1 THEN head2 ELSE head1

\* remove_from_loose() and remove_from_empty(); alone, a slot is linked to itself.
Unlinked(meta, i) ==
    [meta EXCEPT ![meta[i].prev].next = meta[i].next, ![meta[i].next].prev = meta[i].prev]

\* Mutant: the slot before the head takes its place.
TailWithout(meta, head, i, left) ==
    IF head # i THEN head ELSE IF left = 0 THEN -1 ELSE meta[i].prev

HeadWithout(meta, head, i, left) ==
    IF head # i THEN head ELSE IF left = 0 THEN -1 ELSE meta[i].next

\* attach_to_loose() and attach_to_empty(): between the tail and the head.
Linked(meta, i, head, state) ==
    IF head = -1 THEN [meta EXCEPT ![i] = [prev |-> i, next |-> i, state |-> state]]
    ELSE [meta EXCEPT ![i] = [prev |-> meta[head].prev, next |-> head, state |-> state],
                      ![meta[head].prev].next = i, ![head].prev = i]

\* move_to_loose_list() and move_to_empty_list()
Moved(t, i, from, to) ==
    LET left == t.count[from] - 1 IN
    [t EXCEPT !.count[from] = left, !.count[to] = @ + 1,
              !.head[from] = HeadWithout(t.meta, @, i, left), !.head[to] = i,
              !.meta = Linked(Unlinked(@, i), i, t.head[to], to)]

Of(t, state) == {i \in DOMAIN t.meta : t.meta[i].state = state}

----------------------------------------------------------------------------
(* The domain *)

Uninitialised ==
    [capacity |-> 0, peak_usage |-> 0, peak_index |-> -1, high_index |-> -1,
     count |-> [c \in Category |-> 0], head |-> [c \in Category |-> -1],
     meta |-> << >>]

Init ==
    /\ index = Uninitialised
    /\ lock = "none" /\ source = 0 /\ target = 0
    /\ payload = [i \in Slots(Limit) |-> None]

Ready == lock = "none" /\ index.capacity # 0

\* All slots empty and in order; that of a cleared domain is the same.
Fresh(n) ==
    [Uninitialised EXCEPT !.capacity = n, !.count["empty"] = n, !.head["empty"] = 0,
                          !.meta = Chained(<< >>, Slots(n), "empty")]

\* What private_resize() makes of a domain, given the memory.
Grown(t, n) ==
    LET new == t.capacity .. n - 1
        meta == Chained(t.meta, new, "empty")
    IN [t EXCEPT !.capacity = n, !.count["empty"] = @ + n - t.capacity,
                 !.head["empty"] = CombinedHead(@, HeadOf(new)),
                 !.meta = Combined(meta, t.head["empty"], HeadOf(new))]

Truncated(meta, n) == [i \in Slots(n) |-> meta[i]]

Shrunk(t, n) ==
    LET left == Of(t, "empty") \cap Slots(n) IN
    [t EXCEPT !.capacity = n, !.count["empty"] = n - t.count["loose"],
              !.head["empty"] = HeadOf(left),
              !.meta = Chained(Truncated(@, n), left, "empty")]

minimum_safe_capacity == index.high_index + 1

----------------------------------------------------------------------------
(* Operations *)

\* initialise(), and safe_resize() before it.
Initialise(n) ==
    /\ lock = "none"
    /\ index' = Fresh(n)
    /\ payload' = [i \in Slots(Limit) |-> None]
    /\ UNCHANGED <<lock, source, target>>

Clear ==
    /\ Ready
    /\ index' = Fresh(index.capacity)
    /\ payload' = [i \in Slots(Limit) |-> None]
    /\ UNCHANGED <<lock, source, target>>

\* shutdown(), and initialise() when there is no memory.
Shutdown ==
    /\ Ready
    /\ index' = Uninitialised
    /\ payload' = [i \in Slots(Limit) |-> None]
    /\ UNCHANGED <<lock, source, target>>

\* safe_resize(), and reserve_empty() for more slots than are empty: the
\* derived class answers with any capacity that is enough.
Grow(n) ==
    /\ Ready /\ n > index.capacity
    /\ index' = Grown(index, n)
    /\ UNCHANGED <<lock, source, target, payload>>

\* safe_resize() and shrink_to_fit()
Shrink(n) ==
    /\ Ready /\ n < index.capacity /\ n >= minimum_safe_capacity
    /\ index' = Shrunk(index, n)
    /\ UNCHANGED <<lock, source, target, payload>>

Largest(a, b) == IF a < b THEN b ELSE a

\* The end of private_acquire()
Acquired(t, i) ==
    LET moved == Moved(t, i, "empty", "loose") IN
    [moved EXCEPT !.peak_usage = Largest(@, moved.count["loose"]),
                  !.high_index = Largest(@, i),
                  !.peak_index = IF t.high_index < i THEN Largest(@, i) ELSE @]

\* acquire() and reserve_and_acquire() of a slot of the domain, or of -1, which
\* is the head of the empty list.
Acquire(i, item) ==
    /\ Ready /\ i \in Of(index, "empty")
    /\ item \notin Range(payload)
    /\ index' = Acquired(index, i)
    /\ payload' = [payload EXCEPT ![i] = item]
    /\ UNCHANGED <<lock, source, target>>

\* reserve_and_acquire() of a slot beyond the domain, or of -1 when it is full.
ReserveAndAcquire(n, i, item) ==
    /\ Ready /\ n > index.capacity
    /\ item \notin Range(payload)
    /\ \/ i \in index.capacity .. n - 1
       \/ index.head["empty"] = -1 /\ i = index.capacity
    /\ index' = Acquired(Grown(index, n), i)
    /\ payload' = [payload EXCEPT ![i] = item]
    /\ UNCHANGED <<lock, source, target>>

\* The highest index after the erasure of i scans down from the old one.
HighUnscanned(t, i) ==          \* mutant: taken to be the one below
    IF t.high_index # i THEN t.high_index
    ELSE IF t.count["loose"] = 0 THEN -1
    ELSE i - 1

HighWithout(t, i) ==
    IF t.high_index # i THEN t.high_index
    ELSE IF t.count["loose"] = 0 THEN -1
    ELSE Max({j \in Of(t, "loose") : j < i})

Erase(i) ==
    /\ Ready /\ i \in Of(index, "loose")
    /\ LET moved == Moved(index, i, "loose", "empty") IN
       index' = [moved EXCEPT !.high_index = HighWithout(moved, i)]
    /\ payload' = [payload EXCEPT ![i] = None]
    /\ UNCHANGED <<lock, source, target>>

----------------------------------------------------------------------------
(* pack(): slots are visited in ascending order, the lists made afterwards *)

PackBegins ==
    /\ Ready /\ index.count["loose"] # 0
    /\ lock' = "on_move_payload" /\ source' = 0 /\ target' = 0
    /\ UNCHANGED <<index, payload>>

Packing == lock = "on_move_payload" /\ target < index.count["loose"]

\* A slot that is empty, or in its place.
PackPasses ==
    /\ Packing
    /\ \/ index.meta[source].state # "loose" /\ UNCHANGED target
       \/ index.meta[source].state = "loose" /\ source = target /\ target' = target + 1
    /\ source' = source + 1
    /\ UNCHANGED <<index, lock, payload>>

\* on_move_payload() trades the two payloads.
PackMoves ==
    /\ Packing /\ index.meta[source].state = "loose" /\ source # target
    /\ payload' = [payload EXCEPT ![target] = payload[source], ![source] = payload[target]]
    /\ source' = source + 1 /\ target' = target + 1
    /\ UNCHANGED <<index, lock>>

Packed(t) ==
    LET low == Slots(t.count["loose"])
        high == Slots(t.capacity) \ low
    IN [t EXCEPT !.head = [c \in Category |-> HeadOf(IF c = "loose" THEN low ELSE high)],
                 !.meta = Chained(Chained(@, low, "loose"), high, "empty"),
                 !.high_index = t.count["loose"] - 1]

PackEnds ==
    /\ lock = "on_move_payload" /\ target = index.count["loose"]
    /\ index' = Packed(index)
    /\ lock' = "none" /\ source' = 0 /\ target' = 0
    /\ UNCHANGED payload

----------------------------------------------------------------------------
(* Rebuilding a list *)

RebuildLoose ==
    /\ Ready /\ index.count["loose"] # 0
    /\ LET slots == Of(index, "loose") \cap 0 .. index.high_index IN
       index' = [index EXCEPT !.head["loose"] = HeadOf(slots),
                              !.meta = Chained(@, slots, "loose")]
    /\ UNCHANGED <<lock, source, target, payload>>

\* Below the highest loose slot by state, above it by range.
RebuildEmpty ==
    /\ Ready /\ index.count["empty"] # 0
    /\ LET low == Of(index, "empty") \cap 0 .. index.high_index
           high == index.high_index + 1 .. index.capacity - 1
           meta == Chained(Chained(index.meta, low, "empty"), high, "empty")
       IN index' = [index EXCEPT !.head["empty"] = CombinedHead(HeadOf(low), HeadOf(high)),
                                 !.meta = Combined(meta, HeadOf(low), HeadOf(high))]
    /\ UNCHANGED <<lock, source, target, payload>>
----------------------------------------------------------------------------
(* Queries *)

\* A list as the traversal functions read it: from the head, by the next links.
Listed(t, c) ==
    LET slot[k \in 1 .. t.count[c]] ==
            IF k = 1 THEN t.head[c] ELSE t.meta[slot[k - 1]].next
    IN slot

\* first_loose() and next_loose(), last_loose() and prev_loose()
End(t, dir) == IF t.head["loose"] = -1 THEN -1
               ELSE IF dir = "next" THEN t.head["loose"] ELSE t.meta[t.head["loose"]].prev
Step(t, i, dir) ==
    IF dir = "next" THEN IF t.meta[i].next = t.head["loose"] THEN -1 ELSE t.meta[i].next
    ELSE IF i = t.head["loose"] THEN -1 ELSE t.meta[i].prev

\* visit_loose(), visit_empty() and visit_all()
Visited(t, categories) ==
    (IF "loose" \in categories THEN Listed(t, "loose") ELSE <<>>)
      \o (IF "empty" \in categories THEN Listed(t, "empty") ELSE <<>>)

\* Ranks count the loose slots by index, not along their list.
convert_to_rank_index(t, i) ==
    IF t.meta[i].state = "loose" THEN Cardinality({j \in Of(t, "loose") : j < i}) ELSE -1

locate_by_rank_index(t, rank) ==
    IF rank \notin 0 .. t.count["loose"] - 1 THEN -1
    ELSE LET slot[k \in 0 .. rank] ==
                Min({j \in Of(t, "loose") : k = 0 \/ j > slot[k - 1]})
         IN slot[rank]

\* Mutant: the map of slots to ranks is read where that of ranks is meant.
build_rank_map_swapped(t) ==
    LET low == {i \in Of(t, "loose") : i <= t.high_index}
        Below(i) == Cardinality({j \in low : j < i})
    IN [i \in Slots(t.capacity) |->
          [rank_to_slot |-> IF i \in low THEN Below(i) ELSE -1,
           slot_to_rank |-> IF i < Cardinality(low) THEN CHOOSE j \in low : Below(j) = i ELSE -1]]

\* It covers the slots up to the highest loose one.
build_rank_map(t) ==
    LET low == {i \in Of(t, "loose") : i <= t.high_index}
        Below(i) == Cardinality({j \in low : j < i})
    IN [i \in Slots(t.capacity) |->
          [rank_to_slot |-> IF i < Cardinality(low) THEN CHOOSE j \in low : Below(j) = i ELSE -1,
           slot_to_rank |-> IF i \in low THEN Below(i) ELSE -1]]

----------------------------------------------------------------------------
(* Integrity, as private_integrity_check() has it *)

HeadersAgree(t) ==
    /\ t.capacity \in 1 .. Limit
    /\ t.count["loose"] + t.count["empty"] = t.capacity
    /\ \A c \in Category :
          t.head[c] \in -1 .. t.capacity - 1 /\ (t.head[c] = -1 <=> t.count[c] = 0)
    /\ t.high_index >= -1
    /\ IF t.high_index = -1 THEN t.count["loose"] = 0 ELSE t.high_index + 1 >= t.count["loose"]
    /\ t.peak_index >= -1 /\ t.peak_usage <= t.peak_index + 1

ListAgrees(t, c) ==
    LET list == Listed(t, c) IN
    /\ Cardinality(Of(t, c)) = t.count[c]
    /\ \A k \in DOMAIN list :
          LET next == t.meta[list[k]].next IN
          /\ t.meta[list[k]].state = c
          /\ t.meta[next].prev = list[k]
          /\ (next = t.head[c]) <=> (k = t.count[c])

private_integrity_check(t) ==
    IF DOMAIN t.meta = {} THEN t = Uninitialised
    ELSE /\ HeadersAgree(t)
         /\ \A i \in Slots(t.capacity) :
               /\ t.meta[i].state \in Category
               /\ {t.meta[i].prev, t.meta[i].next} \subseteq Slots(t.capacity)
         /\ \A c \in Category : ListAgrees(t, c)

----------------------------------------------------------------------------

Next ==
    \/ \E n \in 1 .. Limit :
         \/ Initialise(n)
         \/ Grow(n)
         \/ Shrink(n)
         \/ \E i \in Slots(n), item \in Payloads : ReserveAndAcquire(n, i, item)
    \/ Clear
    \/ Shutdown
    \/ \E i \in Slots(Limit) :
         \/ Erase(i)
         \/ \E item \in Payloads : Acquire(i, item)
    \/ PackBegins
    \/ PackPasses
    \/ PackMoves
    \/ PackEnds
    \/ RebuildLoose
    \/ RebuildEmpty

Spec == Init /\ [][Next]_vars

----------------------------------------------------------------------------
(* Properties *)

\* The metadata passes its own check, and high_index is what m_high_index's
\* comment says, the highest occupied slot, which the check leaves out.
IntegrityHolds ==
    lock = "none" =>
        /\ private_integrity_check(index)
        /\ index.high_index = Max(Of(index, "loose") \cup {-1})

\* A traversal of the loose slots, up to the step that ends it.
Reached(dir) ==
    LET slot[k \in 1 .. index.count["loose"] + 1] ==
            IF k = 1 THEN End(index, dir)
            ELSE IF slot[k - 1] = -1 THEN -1 ELSE Step(index, slot[k - 1], dir)
    IN slot

\* The traversal of the loose slots ends, both ways, at the same slots in opposite
\* order, which visit_all() visits before the empty ones; rank conversions and the
\* rank map agree with each other and with the index order.
QueriesAgree ==
    lock = "none" =>
      LET n == index.count["loose"]
          forward == Reached("next")
          back == Reached("prev")
          map == build_rank_map(index)
      IN /\ {forward[k] : k \in 1 .. n} = Of(index, "loose") /\ forward[n + 1] = -1
         /\ back[n + 1] = -1
         /\ \A k \in 1 .. n :
               back[k] = forward[n + 1 - k] /\ Visited(index, Category)[k] = forward[k]
         /\ Range(Visited(index, {"empty"})) = Of(index, "empty")
         /\ \A k \in Slots(index.capacity) :
               /\ map[k].rank_to_slot = locate_by_rank_index(index, k)
               /\ map[k].slot_to_rank = convert_to_rank_index(index, k)
               /\ k < n => convert_to_rank_index(index, map[k].rank_to_slot) = k

(***************************************************************************)
(* Whenever no operation is under way the links and the headers fit each   *)
(* other: the metadata passes private_integrity_check(), high_index, on    *)
(* which a shrink and build_rank_map() rely, is the highest loose slot,    *)
(* and traversals both ways, visits, rank conversions and the rank map     *)
(* tell of the same slots, though the list may have any order.             *)
(***************************************************************************)
SlotsAgree == IntegrityHolds /\ QueriesAgree

\* The payload of a loose slot; pack() has moved that of the lowest ranks.
Rank(i) == Cardinality({j \in Of(index, "loose") : j < i})

PayloadOf(i) ==
    IF lock = "on_move_payload" /\ Rank(i) < target THEN payload[Rank(i)] ELSE payload[i]

Abstract ==
    INSTANCE SlotLists WITH
        loose <- Listed(index, "loose"),
        empty <- Listed(index, "empty"),
        content <- [i \in Of(index, "loose") |-> PayloadOf(i)]

(***************************************************************************)
(* The linked metadata behaves as two sequences of slots and a payload for *)
(* each loose one: an operation changes the order or the payload of no     *)
(* slot but those it is about, and pack() keeps every payload, by rank,    *)
(* though its moves overtake one another in one array.                     *)
(***************************************************************************)
ImplementsSlotLists == Abstract!Spec
=============================================================================
