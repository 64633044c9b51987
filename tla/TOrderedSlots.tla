---------------------------- MODULE TOrderedSlots ----------------------------
(***************************************************************************)
(* TOrderedSlots of TOrderedSlots.hpp: slot metadata in one array, through *)
(* which run the lexed slots' balanced tree and the circular lists of the  *)
(* loose and of the empty slots (previous is child 0, next is child 1).    *)
(* The derived class's payload is modelled as TPodOrderedSlots and         *)
(* TOrderedCollection keep it: a copy per move, -1 their temporary slot.   *)
(*                                                                         *)
(* An operation is a step: the virtual calls in the middle of one cannot   *)
(* get past the lock.  A call that is refused changes nothing and is no    *)
(* step.  Where the caller has to write the key first, that write is part  *)
(* of the step.                                                            *)
(***************************************************************************)
EXTENDS Integers, Sequences, FiniteSets, FiniteSetsExt, SequencesExt

CONSTANTS
    Limit,              \* k_capacity_limit, at least 1
    KeyOf,              \* payloads, and the key of each
    None                \* no payload

Items == DOMAIN KeyOf

VARIABLES
    index,              \* the metadata
    lock,               \* m_lock
    payload             \* the derived class's payload, slot by slot

vars == <<index, lock, payload>>

INSTANCE AvlTree WITH tree <- index, Nodes <- Limit

Lists == {"loose", "empty"}
Slots(n) == 0 .. n - 1
NoPayload == [i \in Slots(Limit) |-> None]

----------------------------------------------------------------------------
(* Lists *)

\* A circular list of the slots of a sequence, in its order.
Chained(meta, seq, state) ==
    LET n == Len(seq)
        at == [i \in Range(seq) |-> CHOOSE k \in 1 .. n : seq[k] = i]
    IN [i \in DOMAIN meta \cup Range(seq) |->
          IF i \notin Range(seq) THEN meta[i]
          ELSE Slot(-1, seq[IF at[i] = 1 THEN n ELSE at[i] - 1], seq[(at[i] % n) + 1], state)]

FirstOf(seq) == IF seq = <<>> THEN -1 ELSE seq[1]

\* The slots of a range, and those of it in one state, in ascending order.
RangeOf(lower, upper) == [k \in 1 .. upper - lower + 1 |-> lower + k - 1]
OfState(meta, lower, upper, state) ==
    SelectSeq(RangeOf(lower, upper), LAMBDA i : meta[i].state = state)

\* combine_lists()
Combined(meta, head1, head2) ==
    IF head1 = -1 \/ head2 = -1 THEN meta
    ELSE LET tail1 == meta[head1].child[0]
             tail2 == meta[head2].child[0]
         IN [meta EXCEPT ![head1].child[0] = tail2, ![tail1].child[1] = head2,
                         ![head2].child[0] = tail1, ![tail2].child[1] = head1]

CombinedHead(head1, head2) == IF head1 = -1 THEN head2 ELSE head1

\* attach_to_loose() and attach_to_empty(): between the tail and the head.
Linked(t, i, list) ==
    LET head == t.head[list]
        tail == t.meta[head].child[0]
        u == [t EXCEPT !.head[list] = i, !.count[list] = @ + 1]
    IN IF head = -1 THEN [u EXCEPT !.meta[i] = Slot(-1, i, i, list)]
       ELSE [u EXCEPT !.meta[i] = Slot(-1, tail, head, list),
                      !.meta[tail].child[1] = i, !.meta[head].child[0] = i]

\* remove_from_loose() and remove_from_empty()
Unlinked(t, i, list) ==
    LET s == t.meta[i].child IN
    [t EXCEPT !.count[list] = @ - 1,
              !.head[list] = IF @ # i THEN @ ELSE IF t.count[list] = 1 THEN -1 ELSE s[1],
              !.meta[s[0]].child[1] = s[1], !.meta[s[1]].child[0] = s[0]]

\* The slots of a list, from its head by the next links.
Listed(t, list) ==
    LET slot[k \in 1 .. t.count[list]] ==
            IF k = 1 THEN t.head[list] ELSE t.meta[slot[k - 1]].child[1]
    IN slot

----------------------------------------------------------------------------
(* The domain *)

Uninitialised ==
    [capacity |-> 0, peak_usage |-> 0, peak_index |-> -1, high_index |-> -1,
     lexed |-> 0, root |-> -1, count |-> [l \in Lists |-> 0],
     head |-> [l \in Lists |-> -1], meta |-> << >>]

Init == index = Uninitialised /\ lock = "none" /\ payload = NoPayload

Ready == lock = "none" /\ index.capacity # 0

\* All slots empty, in order.
Fresh(n) ==
    [Uninitialised EXCEPT !.capacity = n, !.count["empty"] = n, !.head["empty"] = 0,
                          !.meta = Chained(<< >>, RangeOf(0, n - 1), "empty")]

Grown(t, n) ==
    LET new == RangeOf(t.capacity, n - 1)
        meta == Chained(t.meta, new, "empty")
    IN [t EXCEPT !.capacity = n, !.count["empty"] = @ + n - t.capacity,
                 !.head["empty"] = CombinedHead(@, FirstOf(new)),
                 !.meta = Combined(meta, t.head["empty"], FirstOf(new))]

Shrunk(t, n) ==
    LET left == OfState(t.meta, 0, n - 1, "empty")
        kept == [i \in Slots(n) |-> t.meta[i]]
    IN [t EXCEPT !.capacity = n, !.count["empty"] = n - t.lexed - t.count["loose"],
                 !.head["empty"] = FirstOf(left),
                 !.meta = Chained(kept, left, "empty")]

Occupied(t) == {i \in DOMAIN t.meta : t.meta[i].state \in {"lexed", "loose"}}

\* on_compare_keys(): how a key compares with that of each occupied slot.
Order(t, p, key) == [w \in Occupied(t) |-> key - KeyOf[p[w]]]

\* move_to_lexed_tree(), with the key that is staged or the slot's own.
ToLexed(t, p, i, key) ==
    LET u == Unlinked(t, i, t.meta[i].state) IN
    avl_insert([u EXCEPT !.lexed = @ + 1], i, Order(t, p, key))

\* move_to_loose_list() and move_to_empty_list()
ToList(t, i, list) ==
    LET u == IF t.meta[i].state = "lexed" THEN avl_remove([t EXCEPT !.lexed = @ - 1], i)
             ELSE Unlinked(t, i, t.meta[i].state)
    IN Linked(u, i, list)

----------------------------------------------------------------------------
(* Queries *)

\* Mutant: the slot itself, found first, hides its equals.
DuplicateNotFirst(t, order, i) == Locate(t, order, "first_equal") \notin {-1, i}

\* private_has_duplicate_key_in_lexed(): the first match may be the slot itself.
DuplicateInLexed(t, order, i) ==
    LET first == Locate(t, order, "first_equal")
        next == Neighbour(t, first, 1)
    IN first >= 0 /\ (first = i => next >= 0 /\ order[next] = 0)

DuplicateInLoose(t, order, i) ==
    \E j \in Range(Listed(t, "loose")) \ {i} : order[j] = 0

HasDuplicate(t, order, i) == DuplicateInLexed(t, order, i) \/ DuplicateInLoose(t, order, i)

\* Ranks walk the tree, then the loose list, then the empty one.
Ranked(t) == InOrder(t) \o Listed(t, "loose") \o Listed(t, "empty")

\* visit_lexed(), visit_loose(), visit_empty(), visit_occupied() and visit_all():
\* each slot with its rank.
Visited(t, states) ==
    LET Part(state, from, list) ==
            IF state \notin states THEN <<>>
            ELSE [k \in DOMAIN list |-> [slot |-> list[k], rank |-> from + k - 1]]
    IN Part("lexed", 0, InOrder(t)) \o Part("loose", t.lexed, Listed(t, "loose"))
         \o Part("empty", t.lexed + t.count["loose"], Listed(t, "empty"))

build_rank_map(t) ==
    LET list == Ranked(t) IN
    [i \in Slots(t.capacity) |->
       [rank_to_slot |-> list[i + 1],
        slot_to_rank |-> (CHOOSE k \in DOMAIN list : list[k] = i) - 1]]

RECURSIVE StepsBack(_, _)
StepsBack(t, i) == IF i < 0 THEN -1 ELSE 1 + StepsBack(t, Neighbour(t, i, 0))

RECURSIVE StepsTo(_, _, _)
StepsTo(t, i, j) == IF i = j THEN 0 ELSE 1 + StepsTo(t, t.meta[i].child[1], j)

convert_to_rank_index(t, i) ==
    CASE t.meta[i].state = "lexed" -> StepsBack(t, i)
      [] t.meta[i].state = "loose" -> t.lexed + StepsTo(t, t.head["loose"], i)
      [] t.meta[i].state = "empty" ->
           t.lexed + t.count["loose"] + StepsTo(t, t.head["empty"], i)

RECURSIVE Walk(_, _, _, _)
Walk(t, i, side, n) == IF n = 0 THEN i ELSE Walk(t, t.meta[i].child[side], side, n - 1)

RECURSIVE TreeWalk(_, _, _, _)
TreeWalk(t, i, side, n) ==
    IF n = 0 THEN i ELSE TreeWalk(t, Neighbour(t, i, side), side, n - 1)

\* A list is walked from its head either way; halving both sides of the test
\* for the tree keeps that walk from ever starting at the last slot.
locate_by_rank_index(t, rank) ==
    LET Along(list, n) ==
            IF n > t.count[list] \div 2 THEN Walk(t, t.head[list], 0, t.count[list] - n)
            ELSE Walk(t, t.head[list], 1, n)
        loose == rank - t.lexed
        empty == loose - t.count["loose"]
    IN CASE rank < t.lexed ->
              IF rank \div 2 > t.lexed \div 2
              THEN TreeWalk(t, EndOf(t, 1), 0, t.lexed - rank - 1)
              ELSE TreeWalk(t, EndOf(t, 0), 1, rank)
         [] loose >= 0 /\ loose < t.count["loose"] -> Along("loose", loose)
         [] empty >= 0 /\ empty < t.count["empty"] -> Along("empty", empty)
         [] OTHER -> -1

RECURSIVE Levels(_)
Levels(n) == IF n = 0 THEN 0 ELSE 1 + Levels(n \div 2)

\* build_balanced_subtree() of the slots lower to upper
RECURSIVE Balanced(_, _, _, _)
Balanced(t, lower, upper, p) ==
    IF lower > upper THEN t
    ELSE LET split == (lower + upper) \div 2
             Top(l, u) == IF l > u THEN -1 ELSE (l + u) \div 2
             u == [t EXCEPT !.meta[split] =
                      [Slot(p, Top(lower, split - 1), Top(split + 1, upper), "lexed")
                         EXCEPT !.bf = Levels(upper - split) - Levels(split - lower)]]
         IN Balanced(Balanced(u, lower, split - 1, split), split + 1, upper, split)

----------------------------------------------------------------------------
(* Integrity, as private_integrity_check() has it *)

HeadersAgree(t) ==
    LET Fits(head, count) == head \in -1 .. t.capacity - 1 /\ (head = -1 <=> count = 0) IN
    /\ t.capacity \in 1 .. Limit
    /\ t.lexed + t.count["loose"] + t.count["empty"] = t.capacity
    /\ Fits(t.root, t.lexed)
    /\ \A l \in Lists : Fits(t.head[l], t.count[l])
    /\ t.high_index >= -1
    /\ IF t.high_index = -1 THEN t.lexed + t.count["loose"] = 0
       ELSE t.high_index + 1 >= t.lexed + t.count["loose"]
    /\ t.peak_index >= -1 /\ t.peak_usage <= t.peak_index + 1

Of(t, state) == {i \in DOMAIN t.meta : t.meta[i].state = state}

SlotAgrees(t, i) ==
    LET slot == t.meta[i]
        near == {slot.parent, slot.child[0], slot.child[1]} \ {-1}
    IN \/ /\ slot.state = "lexed"
          /\ slot.parent = -1 => t.root = i
          /\ i \notin near /\ near \subseteq Of(t, "lexed")
          /\ slot.parent # -1 => /\ slot.parent \notin {slot.child[0], slot.child[1]}
                                 /\ \E s \in 0 .. 1 : t.meta[slot.parent].child[s] = i
          /\ slot.child[0] = slot.child[1] => slot.child[0] = -1 /\ slot.bf = 0
          /\ \A s \in 0 .. 1 :
                IF slot.child[s] = -1 THEN slot.child[1 - s] # -1 => slot.bf = -Weight(s)
                ELSE t.meta[slot.child[s]].parent = i
          /\ slot.bf \in -1 .. 1
       \/ /\ slot.state \in Lists
          /\ slot.parent = -1 /\ slot.bf = 0
          /\ {slot.child[0], slot.child[1]} \subseteq Slots(t.capacity)

ListAgrees(t, list) ==
    LET seq == Listed(t, list) IN
    /\ Cardinality(Of(t, list)) = t.count[list]
    /\ \A k \in DOMAIN seq :
         /\ t.meta[seq[k]].state = list
         /\ t.meta[t.meta[seq[k]].child[1]].child[0] = seq[k]
         /\ (t.meta[seq[k]].child[1] = t.head[list]) <=> (k = t.count[list])

RECURSIVE Deepest(_, _)
Deepest(t, i) == IF i < 0 THEN -1 ELSE 1 + Max({Deepest(t, t.meta[i].child[s]) : s \in 0 .. 1})

\* The tour's depth is capped, and it leaves the root's own balance unchecked.
TreeAgrees(t) ==
    LET levels == Levels(t.lexed) IN
    /\ Cardinality(Of(t, "lexed")) = t.lexed
    /\ t.lexed # 0 =>
         /\ t.meta[t.root].parent = -1
         /\ Deepest(t, t.root) < levels + levels \div 2
         /\ Len(InOrder(t)) = t.lexed
         /\ \A i \in Of(t, "lexed") \ {t.root} :
               t.meta[i].bf = Height(t, t.meta[i].child[1]) - Height(t, t.meta[i].child[0])

private_integrity_check(t) ==
    IF DOMAIN t.meta = {} THEN t = Uninitialised
    ELSE /\ HeadersAgree(t)
         /\ \A i \in Slots(t.capacity) : SlotAgrees(t, i)
         /\ \A l \in Lists : ListAgrees(t, l)
         /\ TreeAgrees(t)

----------------------------------------------------------------------------
(* The domain's operations *)

\* initialise(), and safe_resize() before it.
Initialise(n) ==
    /\ lock = "none"
    /\ index' = Fresh(n) /\ payload' = NoPayload
    /\ UNCHANGED lock

Clear ==
    /\ Ready
    /\ index' = Fresh(index.capacity) /\ payload' = NoPayload
    /\ UNCHANGED lock

\* shutdown(), and initialise() when there is no memory.
Shutdown ==
    /\ Ready
    /\ index' = Uninitialised /\ payload' = NoPayload
    /\ UNCHANGED lock

\* safe_resize(), and reserve_empty(): the derived class answers with any
\* capacity that is enough.
Grow(n) ==
    /\ Ready /\ n > index.capacity
    /\ index' = Grown(index, n)
    /\ UNCHANGED <<lock, payload>>

\* safe_resize() and shrink_to_fit()
Shrink(n) ==
    /\ Ready /\ n < index.capacity /\ n >= index.high_index + 1
    /\ index' = Shrunk(index, n)
    /\ UNCHANGED <<lock, payload>>

----------------------------------------------------------------------------
(* Slots and their categories *)

Larger(a, b) == IF a < b THEN b ELSE a

\* The end of private_acquire()
Noted(t, i) ==
    [t EXCEPT !.peak_usage = Larger(@, t.lexed + t.count["loose"]),
              !.high_index = Larger(@, i),
              !.peak_index = IF t.high_index < i THEN Larger(@, i) ELSE @]

Acquired(t, i, item, lex) ==
    Noted(IF lex THEN ToLexed(t, payload, i, KeyOf[item]) ELSE ToList(t, i, "loose"), i)

\* A payload in the given slot; each is in at most one.
Put(i, item) ==
    /\ item \notin Range([payload EXCEPT ![i] = None])
    /\ payload' = [payload EXCEPT ![i] = item]

Unique(i, item) == ~ HasDuplicate(index, Order(index, payload, KeyOf[item]), i)

\* acquire() and reserve_and_acquire() of an empty slot, or of -1, the head of
\* the empty list.
Acquire(i, item, lex, unique) ==
    /\ Ready /\ i \in Of(index, "empty")
    /\ unique => Unique(i, item)
    /\ index' = Acquired(index, i, item, lex)
    /\ Put(i, item)
    /\ UNCHANGED lock

\* reserve_and_acquire() of a slot beyond the domain, or of -1 when it is full.
ReserveAndAcquire(n, i, item, lex, unique) ==
    /\ Ready /\ n > index.capacity
    /\ unique => Unique(i, item)
    /\ \/ i \in index.capacity .. n - 1
       \/ index.head["empty"] = -1 /\ i = index.capacity
    /\ index' = Acquired(Grown(index, n), i, item, lex)
    /\ Put(i, item)
    /\ UNCHANGED lock

\* The highest index after an erasure scans down from the old one.
HighWithout(t, i) ==
    IF t.high_index # i THEN t.high_index
    ELSE IF t.lexed + t.count["loose"] = 0 THEN -1
    ELSE Max({j \in Occupied(t) : j < i})

Erase(i) ==
    /\ Ready /\ i \in Occupied(index)
    /\ LET moved == ToList(index, i, "empty") IN
       index' = [moved EXCEPT !.high_index = HighWithout(moved, i)]
    /\ payload' = [payload EXCEPT ![i] = None]
    /\ UNCHANGED lock

Lex(i) ==
    /\ Ready /\ i \in Of(index, "loose")
    /\ index' = ToLexed(index, payload, i, KeyOf[payload[i]])
    /\ UNCHANGED <<lock, payload>>

Unlex(i) ==
    /\ Ready /\ i \in Of(index, "lexed")
    /\ index' = ToList(index, i, "loose")
    /\ UNCHANGED <<lock, payload>>

\* The caller has changed the slot's payload.
Relex(i, item) ==
    /\ Ready /\ i \in Of(index, "lexed")
    /\ Put(i, item)
    /\ LET u == avl_remove(index, i) IN
       index' = avl_insert(u, i, Order(u, payload', KeyOf[item]))
    /\ UNCHANGED lock

----------------------------------------------------------------------------
(* All slots of a category *)

\* The slots of a list are inserted one after the other.
InsertAll(t, seq, p) ==
    FoldLeft(LAMBDA u, i : avl_insert(u, i, Order(t, p, KeyOf[p[i]])), t, seq)

LexAll ==
    /\ Ready /\ index.count["loose"] # 0
    /\ index' = [InsertAll(index, Listed(index, "loose"), payload)
                   EXCEPT !.lexed = @ + index.count["loose"],
                          !.count["loose"] = 0, !.head["loose"] = -1]
    /\ UNCHANGED <<lock, payload>>

\* lexed_to_list()
TreeToList(t, state) == [t EXCEPT !.meta = Chained(@, InOrder(t), state), !.root = -1]

UnlexAll ==
    /\ Ready /\ index.lexed # 0
    /\ LET u == TreeToList(index, "loose")
           first == EndOf(index, 0)
       IN index' = [u EXCEPT !.lexed = 0, !.count["loose"] = @ + index.lexed,
                             !.head["loose"] = CombinedHead(@, first),
                             !.meta = Combined(@, u.head["loose"], first)]
    /\ UNCHANGED <<lock, payload>>

\* The caller has traded the payload of two slots, or of none.
RelexAll(i, j) ==
    /\ Ready /\ {i, j} \subseteq Of(index, "lexed")
    /\ payload' = [payload EXCEPT ![i] = payload[j], ![j] = payload[i]]
    /\ index' = InsertAll(TreeToList(index, "lexed"), InOrder(index), payload')
    /\ UNCHANGED lock

\* lex_all() takes the lock before it finds that no slot is loose, and
\* relex_all() before it finds that none is lexed; then they return.
LockIsLeft ==
    /\ Ready
    /\ index.count["loose"] = 0 \/ index.lexed = 0
    /\ lock' = "on_compare_keys"
    /\ UNCHANGED <<index, payload>>

----------------------------------------------------------------------------
(* sort_and_pack() *)

RECURSIVE Cycle(_, _, _)
Cycle(rank, start, i) ==
    IF rank[i] = start THEN <<i>> ELSE <<i>> \o Cycle(rank, start, rank[i])

Move(p, from, to) == [p EXCEPT ![to] = p[from]]

\* on_move_payload() for one cycle: its last payload is kept in -1 meanwhile.
Turned(p, cycle) ==
    LET n == Len(cycle)
        saved == Move(p, cycle[n], -1)
        Step(q, k) == Move(q, cycle[n - k], cycle[n - k + 1])
    IN IF n = 1 THEN p ELSE Move(FoldLeft(Step, saved, RangeOf(1, n - 1)), -1, cycle[1])

RECURSIVE Resolved(_, _, _)
Resolved(p, rank, list) ==
    IF list = <<>> THEN p
    ELSE LET cycle == Cycle(rank, list[1], list[1]) IN
         Resolved(Turned(p, cycle), rank, SelectSeq(list, LAMBDA i : i \notin Range(cycle)))

\* Payload by rank: in place, cycle by cycle, or in one pass to other storage.
Packed(p, list, external) ==
    LET rank == [i \in Range(list) |-> (CHOOSE k \in DOMAIN list : list[k] = i) - 1]
        all == Resolved([i \in -1 .. Limit - 1 |-> IF i < 0 THEN None ELSE p[i]], rank, list)
    IN [i \in Slots(Limit) |->
          IF i >= Len(list) THEN p[i] ELSE IF external THEN p[list[i + 1]] ELSE all[i]]

SortAndPack(external) ==
    /\ Ready
    /\ payload' = Packed(payload, Ranked(index), external)
    /\ LET lexed == index.lexed
           occupied == lexed + index.count["loose"]
           loose == RangeOf(lexed, occupied - 1)
           empty == RangeOf(occupied, index.capacity - 1)
           tree == Balanced([index EXCEPT !.root = IF lexed = 0 THEN -1 ELSE (lexed - 1) \div 2],
                            0, lexed - 1, -1)
       IN index' = [tree EXCEPT !.meta = Chained(Chained(@, loose, "loose"), empty, "empty"),
                                !.head = [l \in Lists |-> FirstOf(IF l = "loose" THEN loose ELSE empty)],
                                !.high_index = occupied - 1]
    /\ UNCHANGED lock

RebuildLoose ==
    /\ Ready /\ index.count["loose"] # 0
    /\ LET list == OfState(index.meta, 0, index.high_index, "loose") IN
       index' = [index EXCEPT !.head["loose"] = FirstOf(list),
                              !.meta = Chained(@, list, "loose")]
    /\ UNCHANGED <<lock, payload>>

\* Below the highest occupied slot by state, above it by range.
RebuildEmpty ==
    /\ Ready /\ index.count["empty"] # 0
    /\ LET low == OfState(index.meta, 0, index.high_index, "empty")
           high == RangeOf(index.high_index + 1, index.capacity - 1)
           meta == Chained(Chained(index.meta, low, "empty"), high, "empty")
       IN index' = [index EXCEPT !.head["empty"] = CombinedHead(FirstOf(low), FirstOf(high)),
                                 !.meta = Combined(meta, FirstOf(low), FirstOf(high))]
    /\ UNCHANGED <<lock, payload>>

Next ==
    \/ \E n \in 1 .. Limit :
         \/ Initialise(n) \/ Grow(n) \/ Shrink(n)
         \/ \E i \in Slots(n), item \in Items, lex, unique \in BOOLEAN :
              ReserveAndAcquire(n, i, item, lex, unique)
    \/ Clear \/ Shutdown
    \/ \E i \in Slots(Limit), item \in Items :
         \/ \E lex, unique \in BOOLEAN : Acquire(i, item, lex, unique)
         \/ Relex(i, item)
    \/ \E i \in Slots(Limit) : Erase(i) \/ Lex(i) \/ Unlex(i)
    \/ LexAll \/ UnlexAll \/ LockIsLeft
    \/ \E i, j \in Slots(Limit) : RelexAll(i, j)
    \/ \E external \in BOOLEAN : SortAndPack(external)
    \/ RebuildLoose \/ RebuildEmpty

Spec == Init /\ [][Next]_vars

----------------------------------------------------------------------------
(* Properties *)

LexOrder == [i \in Of(index, "lexed") |-> Order(index, payload, KeyOf[payload[i]])]

(***************************************************************************)
(* After every operation the metadata passes the code's own checks,        *)
(* private_integrity_check() and private_validate_subtree() with the order *)
(* of the keys: the tree is an AVL tree whose stored balances are true,    *)
(* the lists are whole, and between them they hold every slot once; and    *)
(* high_index is the highest occupied slot, which the check does not       *)
(* demand and a shrink relies on.                                          *)
(***************************************************************************)
IntegrityHolds ==
    /\ private_integrity_check(index)
    /\ index.lexed # 0 => ValidSubtree(index, LexOrder, 0)
    /\ index.high_index = Max(Occupied(index) \cup {-1})

\* The answers a search may give, by what it is asked for.
Matches(kind, key) ==
    LET list == InOrder(index)
        Key(k) == KeyOf[payload[list[k]]]
        At(S, pick) == IF S = {} THEN {-1} ELSE {list[pick]}
        equal == {k \in DOMAIN list : Key(k) = key}
        below == {k \in DOMAIN list : Key(k) < key}
        above == {k \in DOMAIN list : Key(k) > key}
    IN CASE kind = "any_equal" -> IF equal = {} THEN {-1} ELSE {list[k] : k \in equal}
         [] kind = "first_equal" -> At(equal, Min(equal))
         [] kind = "last_equal" -> At(equal, Max(equal))
         [] kind = "first_greater" -> At(above, Min(above))
         [] kind = "first_greater_equal" -> At(above \cup equal, Min(above \cup equal))
         [] kind = "last_less" -> At(below, Max(below))
         [] kind = "last_less_equal" -> At(below \cup equal, Max(below \cup equal))

(***************************************************************************)
(* The searches and bounds of the tree, the duplicate tests and both       *)
(* directions of rank conversion give what the order of the slots implies, *)
(* whatever shape rotations have left the tree in and wherever equal keys  *)
(* have come to lie in it.                                                 *)
(***************************************************************************)
QueriesAgree ==
    /\ \A key \in {KeyOf[item] : item \in Items} :
         LET order == Order(index, payload, key) IN
         /\ \A kind \in {"any_equal", "first_equal", "last_equal", "first_greater",
                         "first_greater_equal", "last_less", "last_less_equal"} :
               Locate(index, order, kind) \in Matches(kind, key)
         /\ \A i \in Occupied(index) \cup {-1} :
               index.lexed # 0 =>
                 (HasDuplicate(index, order, i) <=>
                    \E j \in Occupied(index) \ {i} : KeyOf[payload[j]] = key)
    /\ LET map == build_rank_map(index) IN
       \A k \in Slots(index.capacity) :
         /\ locate_by_rank_index(index, k) = map[k].rank_to_slot
         /\ convert_to_rank_index(index, k) = map[k].slot_to_rank
    /\ \A states \in SUBSET {"lexed", "loose", "empty"} :
         LET visits == Visited(index, states) IN
         /\ {v.slot : v \in Range(visits)} = UNION {Of(index, state) : state \in states}
         /\ \A v \in Range(visits) : v.rank = convert_to_rank_index(index, v.slot)
    /\ locate_by_rank_index(index, index.capacity) = -1

Abstract ==
    INSTANCE OrderedSlotLists WITH
        lexed <- InOrder(index),
        loose <- Listed(index, "loose"),
        empty <- Listed(index, "empty"),
        content <- [i \in Occupied(index) |-> payload[i]]

(***************************************************************************)
(* Tree, lists and payload behave as three sequences of slots and a        *)
(* payload for each: lexing is stable, no operation disturbs the order or  *)
(* the payload of slots it is not about, and sort_and_pack() brings every  *)
(* payload to its rank though its moves overwrite one another.             *)
(***************************************************************************)
ImplementsOrderedSlotLists == Abstract!Spec
=============================================================================
