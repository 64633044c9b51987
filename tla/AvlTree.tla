------------------------------ MODULE AvlTree -------------------------------
(***************************************************************************)
(* The balanced tree of TOrderedSlots.hpp, embedded in the slots' metadata *)
(* by index.  t.meta maps a slot to its parent, its two children, its      *)
(* balance factor and its state, t.root is the root, and -1 is no slot.    *)
(* Side 0 is the left and side 1 the right.                                *)
(*                                                                         *)
(* A comparison of keys is a function from slots to the relationship of    *)
(* the key at hand with the slot's: negative, zero or positive.            *)
(*                                                                         *)
(* A walk along the links is a recursive function of the slots it may come *)
(* to, and a loop that also changes them one of the number of its turns,   *)
(* of which it has no more than there are slots.                           *)
(*                                                                         *)
(* The last part is the tree alone: a set of slots whose keys are their    *)
(* numbers, into which and out of which they go one at a time.             *)
(***************************************************************************)
EXTENDS Integers, Sequences, FiniteSets

CONSTANT Nodes              \* slots of the tree on its own

ASSUME NodesAssumption == Nodes \in Nat

VARIABLE tree               \* the tree on its own

Slot(parent, left, right, state) ==
    [parent |-> parent, child |-> [s \in 0 .. 1 |-> IF s = 0 THEN left ELSE right],
     bf |-> 0, state |-> state]

\* The balance a side stands for, and the side a child is on.
Weight(side) == 2 * side - 1
SideOf(t, p, i) == IF p >= 0 /\ t.meta[p].child[1] = i THEN 1 ELSE 0

WithParent(t, i, p) == [t EXCEPT !.meta[i].parent = p]
WithChild(t, p, side, c) == [t EXCEPT !.meta[p].child[side] = c]
WithRoot(t, c) == [t EXCEPT !.root = c]
SetBalance(t, i, b) == [t EXCEPT !.meta[i].bf = b]
SetSlot(t, i, slot) == [t EXCEPT !.meta[i] = slot]

Attach(t, p, side, c) ==
    LET u == WithChild(t, p, side, c) IN IF c < 0 THEN u ELSE WithParent(u, c, p)

\* Slot c takes the place of i under i's parent p.
Replace(t, p, i, c) ==
    IF p < 0 THEN WithRoot(t, c) ELSE WithChild(t, p, SideOf(t, p, i), c)

----------------------------------------------------------------------------
(* Traversal *)

Lexed(t) == {i \in DOMAIN t.meta : t.meta[i].state = "lexed"}

Extreme(t, i, side) ==
    LET last[j \in Lexed(t)] ==
            LET c == t.meta[j].child[side] IN IF c < 0 THEN j ELSE last[c]
    IN last[i]

Climb(t, i, side) ==
    LET turn[j \in Lexed(t)] ==
            LET p == t.meta[j].parent
            IN IF p < 0 \/ t.meta[p].child[1 - side] = j THEN p ELSE turn[p]
    IN turn[i]

\* private_next_lexed() for side 1, private_prev_lexed() for side 0
Neighbour(t, i, side) ==
    LET c == t.meta[i].child[side] IN
    IF c < 0 THEN Climb(t, i, side) ELSE Extreme(t, c, 1 - side)

\* first_lexed() and last_lexed()
EndOf(t, side) == IF t.root < 0 THEN -1 ELSE Extreme(t, t.root, side)

InOrder(t) ==
    LET from[i \in Lexed(t) \cup {-1}] ==
            IF i < 0 THEN <<>> ELSE <<i>> \o from[Neighbour(t, i, 1)]
    IN from[EndOf(t, 0)]

----------------------------------------------------------------------------
(* Rotation *)

SingleRotate(t, i, heavy) ==
    LET p == t.meta[i].parent
        c == t.meta[i].child[heavy]
        u == Attach(Attach(t, i, heavy, t.meta[c].child[1 - heavy]), c, 1 - heavy, i)
    IN Replace(WithParent(u, c, p), p, i, c)

\* Mutant: two single rotations that leave the balance factors alone.
RotateTwice(t, i, heavy) ==
    LET c == t.meta[i].child[heavy]
        g == t.meta[c].child[1 - heavy]
    IN SetBalance(SetBalance(SetBalance(
         SingleRotate(SingleRotate(t, c, 1 - heavy), i, heavy), g, 0), i, 0), c, 0)

DoubleRotate(t, i, heavy) ==
    LET light == 1 - heavy
        p == t.meta[i].parent
        c == t.meta[i].child[heavy]
        g == t.meta[c].child[light]
        lean == t.meta[g].bf
        below == Attach(Attach(t, c, light, t.meta[g].child[heavy]),
                        i, heavy, t.meta[g].child[light])
        above == Attach(Attach(below, g, heavy, c), g, light, i)
        u == Replace(WithParent(above, g, p), p, i, g)
    IN SetBalance(SetBalance(SetBalance(u, g, 0),
                             i, IF lean = Weight(heavy) THEN -lean ELSE 0),
                  c, IF lean = -Weight(heavy) THEN -lean ELSE 0)

----------------------------------------------------------------------------
(* Insertion *)

\* Mutant: equal keys lie to the left.
BottomLeft(t, order, w) ==
    LET free[j \in Lexed(t)] ==
            LET side == IF order[j] > 0 THEN 1 ELSE 0
                c == t.meta[j].child[side]
            IN IF c < 0 THEN [slot |-> j, side |-> side] ELSE free[c]
    IN free[w]

\* Where the search for a key ends: equal keys lie to the right.
Bottom(t, order, w) ==
    LET free[j \in Lexed(t)] ==
            LET side == IF order[j] >= 0 THEN 1 ELSE 0
                c == t.meta[j].child[side]
            IN IF c < 0 THEN [slot |-> j, side |-> side] ELSE free[c]
    IN free[w]

\* A turn of either loop that restores the balance leaves it with a tree, the
\* slot to go on with, -1 to stop, and the weight of its side that has changed.
Turn(t, w, delta) == [tree |-> t, slot |-> w, delta |-> delta]
Done(t) == Turn(t, -1, 0)
Above(t, i) == Turn(t, t.meta[i].parent, Weight(SideOf(t, t.meta[i].parent, i)))

\* The subtree on one side of w has grown by one level.
Taller(t, w, delta) ==
    LET b == t.meta[w].bf + delta
        heavy == IF b > 0 THEN 1 ELSE 0
        c == t.meta[w].child[heavy]
    IN IF b = delta THEN Above(SetBalance(t, w, b), w)
       ELSE IF b = 0 THEN Done(SetBalance(t, w, 0))
       ELSE IF t.meta[c].bf = Weight(heavy)
            THEN Done(SetBalance(SetBalance(SingleRotate(t, w, heavy), w, 0), c, 0))
            ELSE Done(DoubleRotate(t, w, heavy))

Raised(t, w, delta) ==
    LET after[k \in 0 .. Cardinality(DOMAIN t.meta)] ==
            IF k = 0 THEN Turn(t, w, delta)
            ELSE LET s == after[k - 1]
                 IN IF s.slot < 0 THEN s ELSE Taller(s.tree, s.slot, s.delta)
    IN after[Cardinality(DOMAIN t.meta)].tree

avl_insert(t, i, order) ==
    LET u == SetSlot(t, i, Slot(-1, -1, -1, "lexed"))
        place == Bottom(u, order, t.root)
    IN IF t.root < 0 THEN WithRoot(u, i)
       ELSE Raised(Attach(u, place.slot, place.side, i), place.slot, Weight(place.side))

----------------------------------------------------------------------------
(* Removal *)

\* A rotation has brought c to the top: the loop ends if the height was kept.
Risen(t, c, kept) == IF kept THEN Done(t) ELSE Above(t, c)
RisenTwice(t, g) == Risen(t, g, t.meta[g].bf # 0)

\* The subtree on one side of w has lost a level.
Shorter(t, w, delta) ==
    LET b == t.meta[w].bf - delta
        heavy == IF b > 0 THEN 1 ELSE 0
        c == t.meta[w].child[heavy]
        g == t.meta[c].child[1 - heavy]
        lean == t.meta[c].bf
        rest == Weight(heavy) - lean
        once == SetBalance(SetBalance(SingleRotate(t, w, heavy), w, rest), c, -rest)
        twice == DoubleRotate(t, w, heavy)
    IN IF b = 0 THEN Above(SetBalance(t, w, 0), w)
       ELSE IF b \in {-1, 1} THEN Done(SetBalance(t, w, b))
       ELSE IF lean \in {0, Weight(heavy)} THEN Risen(once, c, lean = 0)
       ELSE RisenTwice(twice, g)

Lowered(t, w, delta) ==
    LET after[k \in 0 .. Cardinality(DOMAIN t.meta)] ==
            IF k = 0 THEN Turn(t, w, delta)
            ELSE LET s == after[k - 1]
                 IN IF s.slot < 0 THEN s ELSE Shorter(s.tree, s.slot, s.delta)
    IN after[Cardinality(DOMAIN t.meta)].tree

\* A slot with two children gives its place to its successor.
Supplanted(t, i) ==
    LET p == t.meta[i].parent
        s == Extreme(t, t.meta[i].child[1], 0)
        q == t.meta[s].parent
        moved == IF q = i THEN t
                 ELSE Attach(Attach(t, q, 0, t.meta[s].child[1]), s, 1, t.meta[i].child[1])
        u == Replace(Attach(moved, s, 0, t.meta[i].child[0]), p, i, s)
        v == SetBalance(WithParent(u, s, p), s, t.meta[i].bf)
    IN Lowered(v, IF q = i THEN s ELSE q, Weight(IF q = i THEN 1 ELSE 0))

\* Another is replaced by its only child, or by nothing.
Bypassed(t, i) ==
    LET p == t.meta[i].parent
        side == SideOf(t, p, i)
        c == t.meta[i].child[IF t.meta[i].child[0] >= 0 THEN 0 ELSE 1]
        u == Replace(t, p, i, c)
    IN Lowered(IF c < 0 THEN u ELSE WithParent(u, c, p), p, Weight(side))

avl_remove(t, i) ==
    LET u == IF \A s \in 0 .. 1 : t.meta[i].child[s] >= 0 THEN Supplanted(t, i)
             ELSE Bypassed(t, i)
    IN SetSlot(u, i, Slot(-1, -1, -1, "unassigned"))

----------------------------------------------------------------------------
(* Search and diagnosis *)

\* The seven searches: turn right when Right holds, and keep the last slot
\* at which Found held.
Search(t, order, kind, w) ==
    LET right == [r \in Int |->
                    IF kind \in {"first_equal", "first_greater_equal", "last_less"}
                    THEN r > 0 ELSE r >= 0]
        found == [r \in Int |->
                    CASE kind \in {"first_equal", "last_equal", "any_equal"} -> r = 0
                      [] kind = "first_greater" -> r < 0
                      [] kind = "first_greater_equal" -> r <= 0
                      [] kind = "last_less" -> r > 0
                      [] kind = "last_less_equal" -> r >= 0]
        answer[j \in Lexed(t)] ==
            LET c == t.meta[j].child[IF right[order[j]] THEN 1 ELSE 0]
                deeper == IF c < 0 \/ (kind = "any_equal" /\ found[order[j]]) THEN -1
                          ELSE answer[c]
            IN IF deeper >= 0 THEN deeper ELSE IF found[order[j]] THEN j ELSE -1
    IN answer[w]

Locate(t, order, kind) == IF t.root < 0 THEN -1 ELSE Search(t, order, kind, t.root)

\* subtree_height()
Height(t, i) ==
    LET height[j \in Lexed(t)] ==
            LET left == t.meta[j].child[0]
                right == t.meta[j].child[1]
                l == IF left < 0 THEN 0 ELSE height[left]
                r == IF right < 0 THEN 0 ELSE height[right]
            IN (IF l < r THEN r ELSE l) + 1
    IN IF i < 0 THEN 0 ELSE height[i]

\* private_validate_subtree(), with the order of neighbours: bias is 0 when
\* equal keys are allowed and 1 when not.
ValidSubtree(t, order, bias) ==
    LET list == InOrder(t) IN
    /\ \A k \in DOMAIN list :
          LET i == list[k]
              slot == t.meta[i]
          IN /\ slot.state = "lexed" /\ slot.bf \in -1 .. 1
             /\ \A s \in 0 .. 1 : slot.child[s] >= 0 => t.meta[slot.child[s]].parent = i
             /\ slot.bf = Height(t, slot.child[1]) - Height(t, slot.child[0])
    /\ \A k \in 1 .. Len(list) - 1 :
          LET i == list[k]
              j == list[k + 1]
          IN Neighbour(t, j, 0) = i /\ order[j][i] >= bias /\ order[i][j] <= -bias
----------------------------------------------------------------------------
(* The tree on its own *)

\* The slots compare by their numbers.
Numbers(i) == [j \in 0 .. Nodes - 1 |-> i - j]

TreeInit ==
    tree = [root |-> -1, meta |-> [i \in 0 .. Nodes - 1 |-> Slot(-1, -1, -1, "unassigned")]]

TreeInsert(i) == i \notin Lexed(tree) /\ tree' = avl_insert(tree, i, Numbers(i))
TreeRemove(i) == i \in Lexed(tree) /\ tree' = avl_remove(tree, i)

TreeNext == \E i \in 0 .. Nodes - 1 : TreeInsert(i) \/ TreeRemove(i)

TreeSpec == TreeInit /\ [][TreeNext]_tree

(***************************************************************************)
(* However many rotations a tree has been through, the walk in order comes *)
(* to every slot that was inserted and not removed since, once and in the  *)
(* order of the keys, forwards and back; and the tree passes               *)
(* private_validate_subtree(): the links between parent and child agree,   *)
(* and every stored balance is the difference of the true heights and      *)
(* none is above one.                                                      *)
(***************************************************************************)
BalancedInOrder ==
    /\ Len(InOrder(tree)) = Cardinality(Lexed(tree))
    /\ Lexed(tree) # {} => ValidSubtree(tree, [i \in Lexed(tree) |-> Numbers(i)], 1)
=============================================================================
