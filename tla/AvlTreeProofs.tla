--------------------------- MODULE AvlTreeProofs ----------------------------
(***************************************************************************)
(* Theorems about AvlTree, for every number of slots and every order of    *)
(* the keys: avl_insert() and avl_remove() take a balanced search tree to  *)
(* a balanced search tree, with one slot more or less, and the walks of    *)
(* the index find neighbours, ends, heights and the order.                 *)
(*                                                                         *)
(* A tree is sound when there are limits for its subtrees and heights for  *)
(* its slots that fit links and balances at every slot: a local condition, *)
(* so that a step is checked where it changes something.  Where the code   *)
(* loops, a subtree has one level more or less than the balances above it  *)
(* count, and a turn of the loop moves that one slot up.                   *)
(***************************************************************************)
EXTENDS AvlTree, FiniteSetTheorems, WellFoundedInduction, TLAPS

----------------------------------------------------------------------------
(* The setters *)

\* The sides of a slot, its four links and what it is in, for every array of slots.
Sides == 0 .. 1
Kid(t, j, s) == t.meta[j].child[s]
Par(t, j) == t.meta[j].parent
Bal(t, j) == t.meta[j].bf
State(t, j) == t.meta[j].state

States == {"lexed", "loose", "unassigned", "empty"}
SlotType == [parent : Int, child : [Sides -> Int], bf : Int, state : States]
\* Arrays of the slots of D with a root, sound or not.
Trees(D) == [root : Int, meta : [D -> SlotType]]

\* What of a tree a change leaves alone.
SameParents(D, t, u) == \A j \in D : Par(u, j) = Par(t, j)
SameKids(D, t, u) == \A j \in D, s \in Sides : Kid(u, j, s) = Kid(t, j, s)
SameBalances(D, t, u) == \A j \in D : Bal(u, j) = Bal(t, j)
SameStates(D, t, u) == \A j \in D : State(u, j) = State(t, j)

\* What one changes.
ParentSet(D, t, u, i, p) == \A j \in D : Par(u, j) = IF j = i THEN p ELSE Par(t, j)
ChildSet(D, t, u, p, side, c) ==
    \A j \in D, s \in Sides : Kid(u, j, s) = IF j = p /\ s = side THEN c ELSE Kid(t, j, s)
BalanceSet(D, t, u, i, b) == \A j \in D : Bal(u, j) = IF j = i THEN b ELSE Bal(t, j)

\* A slot is set whole.
LEMMA SlotChanged ==
    ASSUME NEW D, NEW t \in Trees(D), NEW i \in D, NEW n \in SlotType
    PROVE  LET u == SetSlot(t, i, n) IN
           u \in Trees(D) /\ u.root = t.root /\ \A j \in D : u.meta[j] = IF j = i THEN n ELSE t.meta[j]
BY DEF SetSlot, Trees

\* What each setter of the index changes, and that it changes nothing else.
LEMMA ParentIs ==
    ASSUME NEW D, NEW t \in Trees(D), NEW p \in Int, NEW i \in D
    PROVE  LET u == WithParent(t, i, p) IN
           /\ u \in Trees(D) /\ u.root = t.root /\ ParentSet(D, t, u, i, p)
           /\ SameKids(D, t, u) /\ SameBalances(D, t, u) /\ SameStates(D, t, u)
<1>. DEFINE m == t.meta[i]
            n == [m EXCEPT !.parent = p]
            f == [t.meta EXCEPT ![i] = n]
            u == [t EXCEPT !.meta = f]
<1>1. WithParent(t, i, p) = u
  BY Zenon DEF WithParent
<1>2. m \in SlotType
  BY DEF Trees
<1>. HIDE DEF m
<1>3. n \in SlotType /\ n.parent = p /\ n.child = m.child /\ n.bf = m.bf /\ n.state = m.state
  BY <1>2 DEF SlotType
<1>. HIDE DEF n
<1>4. f \in [D -> SlotType] /\ \A j \in D : f[j] = IF j = i THEN n ELSE t.meta[j]
  BY <1>3 DEF Trees
<1>. HIDE DEF f
<1>5. u \in Trees(D) /\ u.root = t.root /\ u.meta = f
  BY <1>4 DEF Trees
<1>. HIDE DEF u
<1>. QED
  BY <1>1, <1>3, <1>4, <1>5 DEF Kid, Par, Bal, State, m, ParentSet,
     SameKids, SameBalances, SameStates

\* A balance is set.
LEMMA BalanceIs ==
    ASSUME NEW D, NEW t \in Trees(D), NEW b \in Int, NEW i \in D
    PROVE  LET u == SetBalance(t, i, b) IN
           /\ u \in Trees(D) /\ u.root = t.root /\ BalanceSet(D, t, u, i, b)
           /\ SameParents(D, t, u) /\ SameKids(D, t, u) /\ SameStates(D, t, u)
<1>. DEFINE m == t.meta[i]
            n == [m EXCEPT !.bf = b]
            f == [t.meta EXCEPT ![i] = n]
            u == [t EXCEPT !.meta = f]
<1>1. SetBalance(t, i, b) = u
  BY Zenon DEF SetBalance
<1>2. m \in SlotType
  BY DEF Trees
<1>. HIDE DEF m
<1>3. n \in SlotType /\ n.parent = m.parent /\ n.child = m.child /\ n.bf = b /\ n.state = m.state
  BY <1>2 DEF SlotType
<1>. HIDE DEF n
<1>4. f \in [D -> SlotType] /\ \A j \in D : f[j] = IF j = i THEN n ELSE t.meta[j]
  BY <1>3 DEF Trees
<1>. HIDE DEF f
<1>5. u \in Trees(D) /\ u.root = t.root /\ u.meta = f
  BY <1>4 DEF Trees
<1>. HIDE DEF u
<1>. QED
  BY <1>1, <1>3, <1>4, <1>5 DEF Kid, Par, Bal, State, m, BalanceSet,
     SameParents, SameKids, SameStates

\* A child is set.
LEMMA ChildIs ==
    ASSUME NEW D, NEW t \in Trees(D), NEW p \in D, NEW side \in Sides, NEW c \in Int
    PROVE  LET u == WithChild(t, p, side, c) IN
           /\ u \in Trees(D) /\ u.root = t.root /\ ChildSet(D, t, u, p, side, c)
           /\ SameParents(D, t, u) /\ SameBalances(D, t, u) /\ SameStates(D, t, u)
<1>. DEFINE m == t.meta[p]
            e == [m.child EXCEPT ![side] = c]
            n == [m EXCEPT !.child = e]
            f == [t.meta EXCEPT ![p] = n]
            u == [t EXCEPT !.meta = f]
<1>1. WithChild(t, p, side, c) = u
  BY Zenon DEF WithChild
<1>2. m \in SlotType
  BY DEF Trees
<1>6. e \in [Sides -> Int] /\ \A s \in Sides : e[s] = IF s = side THEN c ELSE m.child[s]
  BY <1>2 DEF SlotType
<1>. HIDE DEF e
<1>. HIDE DEF m
<1>3. n \in SlotType /\ n.parent = m.parent /\ n.child = e /\ n.bf = m.bf /\ n.state = m.state
  BY <1>2, <1>6 DEF SlotType
<1>. HIDE DEF n
<1>4. f \in [D -> SlotType] /\ \A j \in D : f[j] = IF j = p THEN n ELSE t.meta[j]
  BY <1>3 DEF Trees
<1>. HIDE DEF f
<1>5. u \in Trees(D) /\ u.root = t.root /\ u.meta = f
  BY <1>4 DEF Trees
<1>. HIDE DEF u
<1>. QED
  BY <1>1, <1>3, <1>4, <1>5, <1>6 DEF Kid, Par, Bal, State, m, ChildSet,
     SameParents, SameBalances, SameStates

\* The root is set.
LEMMA RootIs ==
    ASSUME NEW D, NEW t \in Trees(D), NEW c \in Int
    PROVE  LET u == WithRoot(t, c) IN
           /\ u \in Trees(D) /\ u.root = c /\ SameParents(D, t, u) /\ SameKids(D, t, u)
           /\ SameBalances(D, t, u) /\ SameStates(D, t, u)
<1>. DEFINE u == [t EXCEPT !.root = c]
<1>1. WithRoot(t, c) = u
  BY Zenon DEF WithRoot
<1>2. u \in Trees(D) /\ u.root = c /\ u.meta = t.meta
  BY DEF Trees
<1>. HIDE DEF u
<1>. QED
  BY <1>1, <1>2 DEF Kid, Par, Bal, State, SameParents, SameKids, SameBalances, SameStates

\* Attaching sets a child, and its parent when there is a child.
LEMMA AttachIs ==
    ASSUME NEW D, D \subseteq Nat, NEW t \in Trees(D), NEW p \in D, NEW side \in Sides,
           NEW c \in D \cup {-1}
    PROVE  LET u == Attach(t, p, side, c) IN
           /\ u \in Trees(D) /\ u.root = t.root
           /\ ParentSet(D, t, u, c, p) /\ ChildSet(D, t, u, p, side, c)
           /\ SameBalances(D, t, u) /\ SameStates(D, t, u)
<1>. DEFINE u == WithChild(t, p, side, c)
            v == WithParent(u, c, p)
<1>0. c \in Int /\ p \in Int
  OBVIOUS
<1>1. /\ u \in Trees(D) /\ u.root = t.root /\ ChildSet(D, t, u, p, side, c)
      /\ SameParents(D, t, u) /\ SameBalances(D, t, u) /\ SameStates(D, t, u)
  BY <1>0, ChildIs, Zenon
<1>2. Attach(t, p, side, c) = IF c < 0 THEN u ELSE v
  BY DEF Attach
<1>. HIDE DEF u
<1>3. c \in D => /\ v \in Trees(D) /\ v.root = u.root /\ ParentSet(D, u, v, c, p)
                 /\ SameKids(D, u, v) /\ SameBalances(D, u, v) /\ SameStates(D, u, v)
  BY <1>0, <1>1, ParentIs, ZenonT(30)
<1>. HIDE DEF v
<1>4. CASE c = -1
  <2>1. Attach(t, p, side, c) = u
    BY <1>2, <1>4
  <2>2. ParentSet(D, t, u, c, p)
    BY <1>1, <1>4 DEF ParentSet, SameParents
  <2>. QED
    BY <1>1, <2>1, <2>2, Zenon
<1>5. CASE c \in D
  <2>1. Attach(t, p, side, c) = v
    BY <1>2, <1>5
  <2>2. /\ ParentSet(D, t, v, c, p) /\ ChildSet(D, t, v, p, side, c)
        /\ SameBalances(D, t, v) /\ SameStates(D, t, v)
    BY <1>1, <1>3, <1>5 DEF ParentSet, ChildSet, SameParents, SameKids, SameBalances, SameStates
  <2>. QED
    BY <1>1, <1>3, <1>5, <2>1, <2>2
<1>. QED
  BY <1>4, <1>5, Zenon

\* The side of its parent a slot is on.
LEMMA SideOfIs ==
    ASSUME NEW t, NEW p \in Int, NEW i
    PROVE  SideOf(t, p, i) = (IF p >= 0 /\ Kid(t, p, 1) = i THEN 1 ELSE 0) /\ SideOf(t, p, i) \in Sides
BY DEF SideOf, Kid, Sides

\* Another slot becomes the child of the parent, or the root.
LEMMA ReplaceIs ==
    ASSUME NEW D, D \subseteq Nat, NEW t \in Trees(D), NEW p \in D \cup {-1}, NEW i \in D,
           NEW c \in D \cup {-1}
    PROVE  LET u == Replace(t, p, i, c) IN
           /\ u \in Trees(D) /\ u.root = (IF p = -1 THEN c ELSE t.root)
           /\ ChildSet(D, t, u, p, SideOf(t, p, i), c)
           /\ SameParents(D, t, u) /\ SameBalances(D, t, u) /\ SameStates(D, t, u)
<1>. DEFINE side == SideOf(t, p, i)
            v == WithRoot(t, c)
            u == WithChild(t, p, side, c)
<1>0. c \in Int /\ p \in Int /\ side \in Sides
  <2>1. c \in Int /\ p \in Int
    OBVIOUS
  <2>. QED
    BY <2>1, SideOfIs
<1>1. Replace(t, p, i, c) = IF p < 0 THEN v ELSE u
  BY DEF Replace
<1>. HIDE DEF side
<1>2. CASE p = -1
  <2>1. /\ v \in Trees(D) /\ v.root = c /\ SameParents(D, t, v) /\ SameKids(D, t, v)
        /\ SameBalances(D, t, v) /\ SameStates(D, t, v)
    BY <1>0, RootIs, Zenon
  <2>. HIDE DEF v
  <2>2. ChildSet(D, t, v, p, side, c)
    BY <1>2, <2>1 DEF ChildSet, SameKids
  <2>3. Replace(t, p, i, c) = v
    BY <1>1, <1>2
  <2>. QED
    BY <1>2, <2>1, <2>2, <2>3 DEF side
<1>3. CASE p \in D
  <2>1. /\ u \in Trees(D) /\ u.root = t.root /\ ChildSet(D, t, u, p, side, c)
        /\ SameParents(D, t, u) /\ SameBalances(D, t, u) /\ SameStates(D, t, u)
    BY <1>0, <1>3, ChildIs, Zenon
  <2>. HIDE DEF u
  <2>2. Replace(t, p, i, c) = u
    BY <1>1, <1>3
  <2>. QED
    BY <1>3, <2>1, <2>2 DEF side
<1>. QED
  BY <1>2, <1>3, Zenon

\* What attaching does, as one fact.
Attached(D, t, u, p, side, c) ==
    /\ u \in Trees(D) /\ u.root = t.root
    /\ ParentSet(D, t, u, c, p) /\ ChildSet(D, t, u, p, side, c)
    /\ SameBalances(D, t, u) /\ SameStates(D, t, u)

\* Attach() does that.
LEMMA Attaching ==
    ASSUME NEW D, D \subseteq Nat, NEW t \in Trees(D), NEW p \in D, NEW side \in Sides,
           NEW c \in D \cup {-1}
    PROVE  Attached(D, t, Attach(t, p, side, c), p, side, c)
BY AttachIs, Zenon DEF Attached

\* Links are integers.
LEMMA LinkType ==
    ASSUME NEW D, NEW t \in Trees(D), NEW j \in D
    PROVE  Par(t, j) \in Int /\ Bal(t, j) \in Int /\ \A s \in Sides : Kid(t, j, s) \in Int
BY DEF Trees, SlotType, Kid, Par, Bal, Sides

----------------------------------------------------------------------------
(* Rotations, and the links of a search tree *)

\* Slots and -1 are integers.
LEMMA IndexType ==
    ASSUME NEW D, D \subseteq Nat
    PROVE  \A x \in D \cup {-1} : x \in Int
OBVIOUS

\* A single rotation at i, whose child c on the heavy side takes its place.
Rotated(D, t, u, i, heavy) ==
    LET p == Par(t, i)
        c == Kid(t, i, heavy)
        g == Kid(t, c, 1 - heavy)
    IN /\ u.root = (IF p = -1 THEN c ELSE t.root)
       /\ \A j \in D : Par(u, j) = IF j = c THEN p ELSE IF j = i THEN c
                                   ELSE IF j = g THEN i ELSE Par(t, j)
       /\ \A j \in D, s \in Sides :
             Kid(u, j, s) = IF j = i /\ s = heavy THEN g
                            ELSE IF j = c /\ s = 1 - heavy THEN i
                            ELSE IF j = p /\ s = SideOf(t, p, i) THEN c ELSE Kid(t, j, s)

\* The slots a rotation is about are slots, and not the same.
Rotates(D, t, i, heavy) ==
    LET p == Par(t, i)
        c == Kid(t, i, heavy)
        g == Kid(t, c, 1 - heavy)
    IN /\ i \in D /\ c \in D /\ g \in D \cup {-1} /\ p \in D \cup {-1}
       /\ i # c /\ g # c /\ g # i /\ p # i /\ p # c /\ (p = g => p = -1)

\* A single rotation does to the links what Rotated says.
LEMMA SingleRotateIs ==
    ASSUME NEW D, D \subseteq Nat, NEW t \in Trees(D), NEW i, NEW heavy \in Sides,
           Rotates(D, t, i, heavy)
    PROVE  LET u == SingleRotate(t, i, heavy) IN
           u \in Trees(D) /\ Rotated(D, t, u, i, heavy) /\ SameBalances(D, t, u) /\ SameStates(D, t, u)
<1>. DEFINE light == 1 - heavy
            p == Par(t, i)
            c == Kid(t, i, heavy)
            g == Kid(t, c, light)
            side == SideOf(t, p, i)
            a == Attach(t, i, heavy, g)
            b == Attach(a, c, light, i)
            v == WithParent(b, c, p)
            u == Replace(v, p, i, c)
<1>0. /\ i \in D /\ c \in D /\ g \in D \cup {-1} /\ p \in D \cup {-1} /\ p \in Int
      /\ i # c /\ g # c /\ g # i /\ p # i /\ p # c /\ (p = g => p = -1)
      /\ light \in Sides /\ light # heavy
  <2>1. /\ i \in D /\ c \in D /\ g \in D \cup {-1} /\ p \in D \cup {-1}
        /\ i # c /\ g # c /\ g # i /\ p # i /\ p # c /\ (p = g => p = -1)
    BY Zenon DEF Rotates
  <2>2. light \in Sides /\ light # heavy
    BY DEF Sides
  <2>3. p \in Int
    BY <2>1, IndexType, Zenon
  <2>. QED
    BY <2>1, <2>2, <2>3, Zenon
<1>1. SingleRotate(t, i, heavy) = u
  BY DEF SingleRotate, Par, Kid
<1>. HIDE DEF p, c, g, light
<1>2. /\ a \in Trees(D) /\ a.root = t.root
      /\ ParentSet(D, t, a, g, i) /\ ChildSet(D, t, a, i, heavy, g)
      /\ SameBalances(D, t, a) /\ SameStates(D, t, a)
  BY <1>0, AttachIs, Zenon
<1>. HIDE DEF a
<1>3. /\ b \in Trees(D) /\ b.root = a.root
      /\ ParentSet(D, a, b, i, c) /\ ChildSet(D, a, b, c, light, i)
      /\ SameBalances(D, a, b) /\ SameStates(D, a, b)
  <2>1. i \in D \cup {-1}
    BY <1>0
  <2>. QED
    BY <2>1, <1>0, <1>2, AttachIs, Zenon
<1>. HIDE DEF b
<1>4. /\ v \in Trees(D) /\ v.root = b.root
      /\ ParentSet(D, b, v, c, p) /\ SameKids(D, b, v)
      /\ SameBalances(D, b, v) /\ SameStates(D, b, v)
  BY <1>0, <1>3, ParentIs, ZenonT(30)
<1>. HIDE DEF v
<1>5. /\ u \in Trees(D) /\ u.root = (IF p = -1 THEN c ELSE v.root)
      /\ ChildSet(D, v, u, p, SideOf(v, p, i), c)
      /\ SameParents(D, v, u) /\ SameBalances(D, v, u) /\ SameStates(D, v, u)
  <2>1. c \in D \cup {-1}
    BY <1>0
  <2>. QED
    BY <2>1, <1>0, <1>4, ReplaceIs, Zenon
<1>. HIDE DEF u
<1>6. \A j \in D \ {i, c}, s \in Sides : Kid(v, j, s) = Kid(t, j, s)
  BY <1>2, <1>3, <1>4 DEF ChildSet, SameKids
<1>7. p \in D => SideOf(v, p, i) = side
  <2>1. 1 \in Sides
    BY DEF Sides
  <2>. QED
    BY <1>0, <1>6, <2>1, SideOfIs
<1>. HIDE DEF side
<1>8. \A j \in D, s \in Sides :
        Kid(u, j, s) = IF j = i /\ s = heavy THEN g
                       ELSE IF j = c /\ s = light THEN i
                       ELSE IF j = p /\ s = side THEN c ELSE Kid(t, j, s)
  <2>. SUFFICES ASSUME NEW j \in D, NEW s \in Sides
                PROVE  Kid(u, j, s) = IF j = i /\ s = heavy THEN g
                          ELSE IF j = c /\ s = light THEN i
                          ELSE IF j = p /\ s = side THEN c ELSE Kid(t, j, s)
    OBVIOUS
  <2>1. Kid(a, j, s) = IF j = i /\ s = heavy THEN g ELSE Kid(t, j, s)
    BY <1>2 DEF ChildSet
  <2>2. Kid(b, j, s) = IF j = c /\ s = light THEN i ELSE Kid(a, j, s)
    BY <1>3 DEF ChildSet
  <2>3. Kid(v, j, s) = Kid(b, j, s)
    BY <1>4 DEF SameKids
  <2>4. Kid(u, j, s) = IF j = p /\ s = side THEN c ELSE Kid(v, j, s)
    BY <1>5, <1>7 DEF ChildSet
  <2>. QED
    BY <2>1, <2>2, <2>3, <2>4, <1>0
<1>9. \A j \in D : Par(u, j) = IF j = c THEN p ELSE IF j = i THEN c
                               ELSE IF j = g THEN i ELSE Par(t, j)
  <2>. SUFFICES ASSUME NEW j \in D
                PROVE  Par(u, j) = IF j = c THEN p ELSE IF j = i THEN c
                               ELSE IF j = g THEN i ELSE Par(t, j)
    OBVIOUS
  <2>1. Par(a, j) = IF j = g THEN i ELSE Par(t, j)
    BY <1>2 DEF ParentSet
  <2>2. Par(b, j) = IF j = i THEN c ELSE Par(a, j)
    BY <1>3 DEF ParentSet
  <2>3. Par(v, j) = IF j = c THEN p ELSE Par(b, j)
    BY <1>4 DEF ParentSet
  <2>4. Par(u, j) = Par(v, j)
    BY <1>5 DEF SameParents
  <2>. QED
    BY <2>1, <2>2, <2>3, <2>4, <1>0
<1>10. u.root = (IF p = -1 THEN c ELSE t.root)
  BY <1>2, <1>3, <1>4, <1>5
<1>11. Rotated(D, t, u, i, heavy)
  BY <1>8, <1>9, <1>10 DEF Rotated, p, c, g, light, side
<1>12. SameBalances(D, t, u) /\ SameStates(D, t, u)
  BY <1>2, <1>3, <1>4, <1>5 DEF SameBalances, SameStates
<1>. QED
  BY <1>1, <1>5, <1>11, <1>12

\* A place strictly between two others, in either order.
Between(a, x, b) == (a < x /\ x < b) \/ (b < x /\ x < a)

\* On side s of slot j is nothing, and no slot would belong there, or a subtree,
\* whose slots lie between j and the bound of j on that side.
Below(t, S, at, lim, j, s) ==
    LET c == Kid(t, j, s) IN
    \/ c = -1 /\ \A x \in S : ~ Between(at[j], at[x], lim[j][s])
    \/ c \in S /\ Par(t, c) = j /\ lim[c][s] = lim[j][s] /\ lim[c][1 - s] = at[j]

\* A slot is the root, or a child of its parent.
Hung(t, S, j) ==
    \/ Par(t, j) = -1 /\ t.root = j
    \/ Par(t, j) \in S /\ \E s \in Sides : Kid(t, Par(t, j), s) = j

\* The place of a slot is within its limits.
Inside(at, lim, j) == lim[j][0] < at[j] /\ at[j] < lim[j][1]

\* The root is limited by the bounds of the tree.
Rooted(t, S, lim, low, high) ==
    \/ S = {} /\ t.root = -1
    \/ t.root \in S /\ Par(t, t.root) = -1 /\ lim[t.root][0] = low /\ lim[t.root][1] = high

\* The limits of the subtree of each slot: the places just outside it.
Limits(D) == [D -> [Sides -> Int]]

\* Slots of an array in the tree, each with a place of its own within bounds.
Places(D, S, at, low, high) ==
    /\ D \subseteq Nat /\ S \subseteq D /\ at \in [D -> Int] /\ low \in Int /\ high \in Int
    /\ \A x \in S : low < at[x] /\ at[x] < high
    /\ \A x, y \in S : at[x] = at[y] => x = y

\* The links are those of a search tree of the slots of S, with limits lim.
Linked(D, S, at, low, high, t, lim) ==
    /\ t \in Trees(D) /\ lim \in Limits(D)
    /\ Rooted(t, S, lim, low, high)
    /\ \A j \in S : Hung(t, S, j) /\ Inside(at, lim, j) /\ \A s \in Sides : Below(t, S, at, lim, j, s)

\* A side is one of the two.
LEMMA SidesAre ==
    ASSUME NEW s \in Sides
    PROVE  1 - s \in Sides /\ 1 - s # s /\ 1 - (1 - s) = s /\ \A r \in Sides : r = s \/ r = 1 - s
BY DEF Sides

\* Facts every slot of the tree has.
LEMMA ValuesAre ==
    ASSUME NEW D, NEW S, NEW at, NEW low, NEW high, NEW t, NEW lim,
           Places(D, S, at, low, high), Linked(D, S, at, low, high, t, lim), NEW j \in S
    PROVE  /\ j \in D /\ j \in Nat /\ j # -1 /\ at[j] \in Int
           /\ \A s \in Sides : lim[j][s] \in Int
           /\ \A s \in Sides : lim[j][s] # at[j] /\ lim[j][s] # lim[j][1 - s]
BY DEF Places, Linked, Limits, Inside, Sides

\* A child is a slot of the tree, limited by its parent, or there is none.
LEMMA KidsAre ==
    ASSUME NEW D, NEW S, NEW at, NEW low, NEW high, NEW t, NEW lim,
           Places(D, S, at, low, high), Linked(D, S, at, low, high, t, lim),
           NEW j \in S, NEW s \in Sides, NEW c, c = Kid(t, j, s)
    PROVE  /\ c \in S \cup {-1}
           /\ c = -1 => \A x \in S : ~ Between(at[j], at[x], lim[j][s])
           /\ c # -1 => c \in S /\ Par(t, c) = j /\ lim[c][s] = lim[j][s] /\ lim[c][1 - s] = at[j]
           /\ c # j
<1>1. Below(t, S, at, lim, j, s)
  BY DEF Linked
<1>2. /\ c \in S \cup {-1}
      /\ c = -1 => \A x \in S : ~ Between(at[j], at[x], lim[j][s])
      /\ c # -1 => c \in S /\ Par(t, c) = j /\ lim[c][s] = lim[j][s] /\ lim[c][1 - s] = at[j]
  BY <1>1, ValuesAre DEF Below
<1>3. c # j
  BY <1>2, ValuesAre, SidesAre
<1>. QED
  BY <1>2, <1>3

\* The two children of a slot are not the same.
LEMMA TwoKids ==
    ASSUME NEW D, NEW S, NEW at, NEW low, NEW high, NEW t, NEW lim,
           Places(D, S, at, low, high), Linked(D, S, at, low, high, t, lim),
           NEW j \in S, NEW s \in Sides, Kid(t, j, s) # -1
    PROVE  Kid(t, j, 1 - s) # Kid(t, j, s)
<1>. DEFINE c == Kid(t, j, s)
            r == 1 - s
<1>0. r \in Sides /\ r # s /\ 1 - r = s
  BY SidesAre
<1>. HIDE DEF c, r
<1>1. c \in S /\ lim[c][s] = lim[j][s] /\ lim[c][r] = at[j]
  BY KidsAre DEF c, r
<1>2. SUFFICES ASSUME Kid(t, j, r) = c PROVE FALSE
  BY DEF c, r
<1>3. lim[c][r] = lim[j][r]
  BY <1>0, <1>1, <1>2, KidsAre, ValuesAre
<1>4. lim[j][r] # at[j]
  BY <1>0, ValuesAre
<1>. QED
  BY <1>1, <1>3, <1>4

\* What a parent has of its child.
LEMMA AboveIs ==
    ASSUME NEW D, NEW S, NEW at, NEW low, NEW high, NEW t, NEW lim,
           Places(D, S, at, low, high), Linked(D, S, at, low, high, t, lim),
           NEW j \in S, NEW p, p = Par(t, j), p # -1, NEW side, side = SideOf(t, p, j)
    PROVE  /\ p \in S /\ p # j /\ side \in Sides /\ Kid(t, p, side) = j /\ Kid(t, p, 1 - side) # j
           /\ lim[j][side] = lim[p][side] /\ lim[j][1 - side] = at[p]
           /\ \A s \in Sides : Kid(t, p, s) = j => s = side
           /\ \A s \in Sides : Kid(t, j, s) # p
<1>1. Hung(t, S, j)
  BY DEF Linked
<1>2. p \in S /\ \E s \in Sides : Kid(t, p, s) = j
  BY <1>1 DEF Hung
<1>3. PICK s \in Sides : Kid(t, p, s) = j
  BY <1>2
<1>0. j \in Nat /\ p \in Nat /\ j # -1
  BY <1>2, ValuesAre
<1>4. Kid(t, p, 1 - s) # j
  BY <1>0, <1>2, <1>3, TwoKids
<1>5. side = s
  BY <1>0, <1>2, <1>3, <1>4, SideOfIs DEF Sides
<1>6. lim[j][s] = lim[p][s] /\ lim[j][1 - s] = at[p] /\ p # j
  BY <1>0, <1>2, <1>3, KidsAre
<1>7. \A r \in Sides : Kid(t, p, r) = j => r = side
  BY <1>4, <1>5, SidesAre
<1>8. ASSUME NEW r \in Sides, Kid(t, j, r) = p
      PROVE  FALSE
  <2>1. lim[p][r] = lim[j][r] /\ lim[p][1 - r] = at[j]
    BY <1>0, <1>8, KidsAre
  <2>2. Inside(at, lim, j) /\ Inside(at, lim, p) /\ at[j] \in Int /\ at[p] \in Int
    BY <1>2, ValuesAre DEF Linked
  <2>. QED
    BY <1>2, <1>6, <2>1, <2>2, ValuesAre DEF Inside, Sides
<1>. QED
  BY <1>2, <1>3, <1>4, <1>5, <1>6, <1>7, <1>8

\* The slots a rotation is about, as the tree has them.
LEMMA RotatesIs ==
    ASSUME NEW D, NEW S, NEW at, NEW low, NEW high, NEW t, NEW lim,
           Places(D, S, at, low, high), Linked(D, S, at, low, high, t, lim),
           NEW i \in S, NEW heavy \in Sides, Kid(t, i, heavy) # -1
    PROVE  Rotates(D, t, i, heavy)
<1>. DEFINE light == 1 - heavy
            p == Par(t, i)
            c == Kid(t, i, heavy)
            g == Kid(t, c, light)
<1>1. light \in Sides
  BY SidesAre
<1>. HIDE DEF light
<1>2. c \in S /\ Par(t, c) = i /\ i # c
  BY KidsAre
<1>. HIDE DEF c
<1>3. g \in S \cup {-1} /\ g # c /\ g # i
  BY <1>1, <1>2, AboveIs, KidsAre, ValuesAre
<1>4. g # -1 => Par(t, g) = c
  BY <1>1, <1>2, KidsAre
<1>. HIDE DEF g
<1>5. p # -1 => p \in S /\ p # i /\ p # c
  BY AboveIs DEF p, c
<1>6. (p = g => p = -1)
  <2>. SUFFICES ASSUME p = g, p # -1 PROVE FALSE
    OBVIOUS
  <2>1. Par(t, p) = c /\ p \in S
    BY <1>4, <1>5
  <2>2. /\ lim[c][heavy] = lim[i][heavy] /\ lim[c][light] = at[i]
        /\ lim[p][light] = lim[c][light] /\ lim[p][heavy] = at[c]
    BY <1>1, <1>2, KidsAre, SidesAre DEF c, g, light
  <2>3. \E s \in Sides : lim[i][s] = lim[p][s] /\ lim[i][1 - s] = at[p]
    BY AboveIs DEF p
  <2>. QED
    BY <1>1, <1>2, <2>1, <2>2, <2>3, SidesAre, ValuesAre DEF light
<1>. QED
  BY <1>1, <1>2, <1>3, <1>5, <1>6, ValuesAre DEF Rotates, p, c, g, light

\* The limits after a rotation: c has those of i, and i is limited by c.
TurnedLimits(D, at, lim, i, c, heavy) ==
    [j \in D |-> [s \in Sides |-> IF j = c /\ s = 1 - heavy THEN lim[i][s]
                                  ELSE IF j = i /\ s = heavy THEN at[c] ELSE lim[j][s]]]

\* What these are, slot by slot.
LEMMA TurnedLimitsAre ==
    ASSUME NEW D, NEW at \in [D -> Int], NEW lim \in Limits(D), NEW i \in D, NEW c \in D,
           NEW heavy \in Sides, i # c
    PROVE  LET new == TurnedLimits(D, at, lim, i, c, heavy) IN
           /\ new \in Limits(D)
           /\ new[c][1 - heavy] = lim[i][1 - heavy] /\ new[c][heavy] = lim[c][heavy]
           /\ new[i][heavy] = at[c] /\ new[i][1 - heavy] = lim[i][1 - heavy]
           /\ \A j \in D \ {i, c}, s \in Sides : new[j][s] = lim[j][s]
<1>. DEFINE Row(j) == [s \in Sides |-> IF j = c /\ s = 1 - heavy THEN lim[i][s]
                                  ELSE IF j = i /\ s = heavy THEN at[c] ELSE lim[j][s]]
            new == [j \in D |-> Row(j)]
<1>1. ASSUME NEW j \in D
      PROVE  Row(j) \in [Sides -> Int]
  BY <1>1 DEF Limits
<1>2. new \in Limits(D)
  <2>. HIDE DEF Row
  <2>. QED
    BY <1>1 DEF Limits
<1>3. \A j \in D : new[j] = Row(j)
  OBVIOUS
<1>4. 1 - heavy \in Sides /\ 1 - heavy # heavy
  BY SidesAre
<1>5. Row(c)[1 - heavy] = lim[i][1 - heavy] /\ Row(c)[heavy] = lim[c][heavy]
  BY <1>4
<1>6. Row(i)[heavy] = at[c] /\ Row(i)[1 - heavy] = lim[i][1 - heavy]
  BY <1>4
<1>7. \A j \in D \ {i, c}, s \in Sides : Row(j)[s] = lim[j][s]
  OBVIOUS
<1>8. TurnedLimits(D, at, lim, i, c, heavy) = new
  BY Zenon DEF TurnedLimits
<1>. HIDE DEF new, Row
<1>. QED
  BY <1>2, <1>3, <1>5, <1>6, <1>7, <1>8

\* What is below a slot is as it was where neither its child has changed nor
\* the limits of the two, nor the child's parent.
LEMMA BelowSame ==
    ASSUME NEW S, NEW at, NEW lim, NEW new, NEW t, NEW u, NEW j, NEW s, NEW c,
           -1 \notin S, c = Kid(t, j, s), Kid(u, j, s) = c, new[j][s] = lim[j][s],
           c # -1 => Par(u, c) = Par(t, c) /\ new[c][s] = lim[c][s] /\ new[c][1 - s] = lim[c][1 - s],
           Below(t, S, at, lim, j, s)
    PROVE  Below(u, S, at, new, j, s)
BY DEF Below

\* A single rotation leaves a search tree of the same slots.
LEMMA RotatedLinks ==
    ASSUME NEW D, NEW S, NEW at, NEW low, NEW high, NEW t, NEW lim,
           Places(D, S, at, low, high), Linked(D, S, at, low, high, t, lim),
           NEW i \in S, NEW heavy \in Sides, Kid(t, i, heavy) # -1,
           NEW u \in Trees(D), Rotated(D, t, u, i, heavy)
    PROVE  Linked(D, S, at, low, high, u, TurnedLimits(D, at, lim, i, Kid(t, i, heavy), heavy))
<1>. DEFINE light == 1 - heavy
            p == Par(t, i)
            c == Kid(t, i, heavy)
            g == Kid(t, c, light)
            side == SideOf(t, p, i)
            new == TurnedLimits(D, at, lim, i, c, heavy)
<1>1. light \in Sides /\ light # heavy /\ heavy = 1 - light /\ \A r \in Sides : r = heavy \/ r = light
  BY SidesAre
<1>2. /\ i \in D /\ c \in D /\ g \in D \cup {-1} /\ p \in D \cup {-1}
      /\ i # c /\ g # c /\ g # i /\ p # i /\ p # c /\ (p = g => p = -1)
  <2>1. Rotates(D, t, i, heavy)
    BY RotatesIs
  <2>. QED
    BY <2>1, Zenon DEF Rotates
<1>3. /\ u.root = (IF p = -1 THEN c ELSE t.root)
      /\ \A j \in D : Par(u, j) = IF j = c THEN p ELSE IF j = i THEN c
                                   ELSE IF j = g THEN i ELSE Par(t, j)
      /\ \A j \in D, s \in Sides :
             Kid(u, j, s) = IF j = i /\ s = heavy THEN g
                            ELSE IF j = c /\ s = light THEN i
                            ELSE IF j = p /\ s = side THEN c ELSE Kid(t, j, s)
  BY Zenon DEF Rotated
<1>4. /\ new \in Limits(D)
      /\ new[c][light] = lim[i][light] /\ new[c][heavy] = lim[c][heavy]
      /\ new[i][heavy] = at[c] /\ new[i][light] = lim[i][light]
      /\ \A j \in D \ {i, c}, s \in Sides : new[j][s] = lim[j][s]
  <2>1. at \in [D -> Int] /\ lim \in Limits(D)
    BY DEF Places, Linked
  <2>. HIDE DEF p, c, g
  <2>2. i \in D /\ c \in D /\ i # c
    BY <1>2
  <2>. QED
    BY SMTT(30), <2>1, <2>2, TurnedLimitsAre
<1>5. /\ c \in S /\ Par(t, c) = i /\ lim[c][heavy] = lim[i][heavy] /\ lim[c][light] = at[i]
  BY KidsAre
<1>. HIDE DEF new, c, light
<1>6. /\ g \in S \cup {-1}
      /\ g = -1 => \A x \in S : ~ Between(at[c], at[x], lim[c][light])
      /\ g # -1 => g \in S /\ Par(t, g) = c /\ lim[g][light] = lim[c][light] /\ lim[g][heavy] = at[c]
  BY <1>1, <1>5, KidsAre
<1>. HIDE DEF g
<1>7. p # -1 => /\ p \in S /\ side \in Sides /\ Kid(t, p, side) = i
                /\ lim[i][side] = lim[p][side] /\ lim[i][1 - side] = at[p]
                /\ \A s \in Sides : Kid(t, p, s) = i => s = side
                /\ \A s \in Sides : Kid(t, i, s) # p
  BY AboveIs
<1>8. \A j \in S : Hung(t, S, j) /\ Inside(at, lim, j) /\ \A s \in Sides : Below(t, S, at, lim, j, s)
  BY DEF Linked
<1>9. \A j \in S : j \in D /\ j # -1
  BY ValuesAre
<1>. HIDE DEF p, side
<1>10. /\ Kid(u, i, heavy) = g /\ Kid(u, i, light) = Kid(t, i, light)
       /\ Kid(u, c, light) = i /\ Kid(u, c, heavy) = Kid(t, c, heavy)
       /\ p # -1 => Kid(u, p, side) = c
       /\ \A j \in S \ {i, c}, s \in Sides : (j # p \/ s # side) => Kid(u, j, s) = Kid(t, j, s)
  BY <1>1, <1>2, <1>3, <1>7, <1>9
<1>11. /\ Par(u, c) = p /\ Par(u, i) = c /\ (g # -1 => Par(u, g) = i)
       /\ \A j \in S \ {i, c, g} : Par(u, j) = Par(t, j)
  BY <1>2, <1>3, <1>9
<1>12. ASSUME NEW j \in S
       PROVE  Inside(at, new, j)
  <2>1. Inside(at, lim, i) /\ Inside(at, lim, c) /\ Inside(at, lim, j)
    BY <1>5, <1>8
  <2>2. \A x \in {i, c, j} : at[x] \in Int /\ lim[x][0] \in Int /\ lim[x][1] \in Int
    BY <1>5, ValuesAre DEF Sides
  <2>3. (heavy = 0 /\ light = 1) \/ (heavy = 1 /\ light = 0)
    BY DEF Sides, light
  <2>. QED
    BY <1>2, <1>4, <1>5, <1>9, <2>1, <2>2, <2>3 DEF Inside, Sides
<1>13. ASSUME NEW j \in S
       PROVE  Hung(u, S, j)
  <2>1. CASE j = c
    <3>1. CASE p = -1
      BY <1>3, <1>11, <2>1, <3>1 DEF Hung
    <3>2. CASE p # -1
      BY <1>7, <1>10, <1>11, <2>1, <3>2 DEF Hung
    <3>. QED
      BY <3>1, <3>2
  <2>2. CASE j = i
    BY <1>1, <1>5, <1>10, <1>11, <2>2 DEF Hung
  <2>3. CASE j = g
    BY <1>1, <1>9, <1>10, <1>11, <2>3 DEF Hung
  <2>4. CASE j \notin {c, i, g}
    <3>1. Par(u, j) = Par(t, j) /\ Hung(t, S, j)
      BY <1>8, <1>11, <2>4
    <3>2. CASE Par(t, j) = -1
      <4>1. t.root = j
        BY <3>1, <3>2, <1>9 DEF Hung
      <4>2. p # -1
        <5>1. Hung(t, S, i)
          BY <1>8
        <5>. QED
          BY <2>4, <4>1, <5>1, <1>9 DEF Hung, p
      <4>. QED
        BY <1>3, <3>1, <3>2, <4>1, <4>2 DEF Hung
    <3>3. CASE Par(t, j) # -1
      <4>1. PICK s \in Sides : Kid(t, Par(t, j), s) = j
        BY <3>1, <3>3 DEF Hung
      <4>2. Par(t, j) \in S
        BY <3>1, <3>3 DEF Hung
      <4>3. Kid(u, Par(t, j), s) = j
        <5>1. CASE Par(t, j) = i
          <6>1. s = light
            BY <1>1, <2>4, <4>1, <5>1 DEF c
          <6>. QED
            BY <1>10, <4>1, <5>1, <6>1
        <5>2. CASE Par(t, j) = c
          <6>1. s = heavy
            BY <1>1, <2>4, <4>1, <5>2 DEF g
          <6>. QED
            BY <1>10, <4>1, <5>2, <6>1
        <5>3. CASE Par(t, j) \notin {i, c}
          <6>1. Par(t, j) # p \/ s # side
            BY <1>7, <1>9, <2>4, <4>1, <4>2
          <6>. QED
            BY <1>10, <4>1, <4>2, <5>3, <6>1
        <5>. QED
          BY <5>1, <5>2, <5>3
      <4>. QED
        BY <3>1, <3>3, <4>2, <4>3 DEF Hung
    <3>. QED
      BY <3>2, <3>3
  <2>. QED
    BY <2>1, <2>2, <2>3, <2>4
<1>14. ASSUME NEW j \in S, NEW s \in Sides
       PROVE  Below(u, S, at, new, j, s)
  <2>1. CASE j = i /\ s = heavy
    <3>1. CASE g = -1
      <4>1. \A x \in S : ~ Between(at[i], at[x], new[i][heavy])
        BY <1>4, <1>5, <1>6, <3>1 DEF Between
      <4>. QED
        BY <1>10, <2>1, <3>1, <4>1 DEF Below
    <3>2. CASE g # -1
      <4>1. new[g][heavy] = at[c] /\ new[g][light] = at[i]
        BY <1>1, <1>2, <1>4, <1>5, <1>6, <1>9, <3>2
      <4>. QED
        BY <1>1, <1>4, <1>6, <1>10, <1>11, <2>1, <3>2, <4>1 DEF Below
    <3>. QED
      BY <3>1, <3>2
  <2>2. CASE j = c /\ s = light
    BY <1>1, <1>4, <1>5, <1>10, <1>11, <2>2 DEF Below
  <2>3. CASE p # -1 /\ j = p /\ s = side
    <3>1. new[c][s] = new[p][s] /\ new[c][1 - s] = at[p]
      BY <1>1, <1>2, <1>4, <1>5, <1>7, <1>9, <2>3, SidesAre
    <3>. QED
      BY <1>5, <1>10, <1>11, <2>3, <3>1 DEF Below
  <2>4. CASE /\ ~ (j = i /\ s = heavy) /\ ~ (j = c /\ s = light)
             /\ ~ (p # -1 /\ j = p /\ s = side)
    <3>. DEFINE k == Kid(t, j, s)
    <3>1. /\ k \in S \cup {-1} /\ (k # -1 => k \in S /\ Par(t, k) = j /\ lim[k][s] = lim[j][s]) /\ k # j
      BY KidsAre
    <3>2. k # -1 => \A r \in Sides : Kid(t, j, r) = k => r = s
      <4>1. k # -1 => Kid(t, j, 1 - s) # k
        BY TwoKids
      <4>. QED
        BY <4>1, SidesAre
    <3>. HIDE DEF k
    <3>3. k # -1 => k \notin {i, c, g}
      <4>1. k = c => j = i
        BY <1>5, <1>9, <3>1
      <4>2. k = g /\ g # -1 => j = c
        BY <1>6, <3>1
      <4>3. k = i => j = p
        BY <1>9, <3>1 DEF p
      <4>4. k = c => s = heavy
        BY <1>1, <1>9, <4>1, <1>5, <3>2 DEF c
      <4>5. k = g /\ g # -1 => s = light
        BY <1>1, <4>2, <3>2 DEF g
      <4>6. k = i => s = side
        BY <1>7, <1>9, <4>3 DEF k
      <4>. QED
        BY <2>4, <1>9, <4>1, <4>2, <4>3, <4>4, <4>5, <4>6
    <3>4. Kid(u, j, s) = k
      BY <1>1, <1>9, <1>10, <2>4 DEF k
    <3>5. new[j][s] = lim[j][s]
      BY <1>1, <1>4, <1>9, <2>4
    <3>6. k # -1 => Par(u, k) = Par(t, k) /\ new[k][s] = lim[k][s] /\ new[k][1 - s] = lim[k][1 - s]
      BY <1>4, <1>9, <1>11, <3>1, <3>3, SidesAre
    <3>7. Below(t, S, at, lim, j, s)
      BY <1>8
    <3>. QED
      BY <1>9, <3>4, <3>5, <3>6, <3>7, BelowSame DEF k
  <2>. QED
    BY <2>1, <2>2, <2>3, <2>4
<1>15. Rooted(u, S, new, low, high)
  <2>1. Rooted(t, S, lim, low, high) /\ Hung(t, S, i)
    BY <1>8 DEF Linked
  <2>2. t.root \in S /\ Par(t, t.root) = -1 /\ lim[t.root][0] = low /\ lim[t.root][1] = high
    BY <2>1 DEF Rooted
  <2>3. CASE p = -1
    <3>1. t.root = i /\ u.root = c /\ Par(u, c) = -1
      BY <1>3, <1>9, <1>11, <2>1, <2>3 DEF Hung, p
    <3>2. (heavy = 0 /\ light = 1) \/ (heavy = 1 /\ light = 0)
      BY DEF Sides, light
    <3>3. new[c][0] = low /\ new[c][1] = high
      BY <1>4, <1>5, <2>2, <3>1, <3>2
    <3>. QED
      BY <1>5, <3>1, <3>3 DEF Rooted
  <2>4. CASE p # -1
    <3>1. u.root = t.root /\ t.root # i /\ t.root # c /\ t.root # g
      BY <1>3, <1>5, <1>6, <1>9, <2>2, <2>4 DEF p
    <3>2. Par(u, t.root) = -1
      BY <1>11, <2>2, <3>1
    <3>3. new[t.root][0] = low /\ new[t.root][1] = high
      BY <1>4, <1>9, <2>2, <3>1 DEF Sides
    <3>. QED
      BY <2>2, <3>1, <3>2, <3>3 DEF Rooted
  <2>. QED
    BY <2>3, <2>4
<1>. QED
  BY <1>4, <1>12, <1>13, <1>14, <1>15 DEF Linked, new, c

\* A double rotation at i: g, the child of i's child c on the light side, takes
\* the place of i, with i and c for children, and its own go to them.
Doubled(D, t, u, i, heavy) ==
    LET light == 1 - heavy
        p == Par(t, i)
        c == Kid(t, i, heavy)
        g == Kid(t, c, light)
    IN /\ u.root = (IF p = -1 THEN g ELSE t.root)
       /\ \A j \in D : Par(u, j) = IF j = g THEN p ELSE IF j \in {i, c} THEN g
                                   ELSE IF j = Kid(t, g, heavy) THEN c
                                   ELSE IF j = Kid(t, g, light) THEN i ELSE Par(t, j)
       /\ \A j \in D, s \in Sides :
             Kid(u, j, s) = IF j = i /\ s = heavy THEN Kid(t, g, light)
                            ELSE IF j = c /\ s = light THEN Kid(t, g, heavy)
                            ELSE IF j = g THEN (IF s = heavy THEN c ELSE i)
                            ELSE IF j = p /\ s = SideOf(t, p, i) THEN g ELSE Kid(t, j, s)

\* The balances it leaves, of g, of i and of c.
Righted(D, t, u, i, heavy) ==
    LET c == Kid(t, i, heavy)
        g == Kid(t, c, 1 - heavy)
        lean == Bal(t, g)
    IN \A j \in D : Bal(u, j) = IF j = c THEN (IF lean = -Weight(heavy) THEN -lean ELSE 0)
                                ELSE IF j = i THEN (IF lean = Weight(heavy) THEN -lean ELSE 0)
                                ELSE IF j = g THEN 0 ELSE Bal(t, j)

\* The slots a double rotation is about are slots, and not the same.
DoubleRotates(D, t, i, heavy) ==
    LET p == Par(t, i)
        c == Kid(t, i, heavy)
        g == Kid(t, c, 1 - heavy)
    IN /\ i \in D /\ c \in D /\ g \in D /\ p \in D \cup {-1}
       /\ Kid(t, g, 0) \in D \cup {-1} /\ Kid(t, g, 1) \in D \cup {-1}
       /\ Kid(t, g, 0) \notin {i, c, g} /\ Kid(t, g, 1) \notin {i, c, g}
       /\ Kid(t, g, 0) # -1 => Kid(t, g, 0) # Kid(t, g, 1)
       /\ i # c /\ g # c /\ g # i /\ p # i /\ p # c /\ p # g

\* A double rotation does to links and balances what the two predicates say.
LEMMA DoubleRotateIs ==
    ASSUME NEW D, D \subseteq Nat, NEW t \in Trees(D), NEW i, NEW heavy \in Sides,
           DoubleRotates(D, t, i, heavy)
    PROVE  LET u == DoubleRotate(t, i, heavy) IN
           /\ u \in Trees(D) /\ Doubled(D, t, u, i, heavy) /\ Righted(D, t, u, i, heavy)
           /\ SameStates(D, t, u)
<1>. DEFINE light == 1 - heavy
            p == Par(t, i)
            c == Kid(t, i, heavy)
            g == Kid(t, c, light)
            x == Kid(t, g, heavy)
            y == Kid(t, g, light)
            lean == Bal(t, g)
            side == SideOf(t, p, i)
            a == Attach(t, c, light, x)
            b == Attach(a, i, heavy, y)
            d == Attach(b, g, heavy, c)
            e == Attach(d, g, light, i)
            f == WithParent(e, g, p)
            h == Replace(f, p, i, g)
            ofi == IF lean = Weight(heavy) THEN -lean ELSE 0
            ofc == IF lean = -Weight(heavy) THEN -lean ELSE 0
            k == SetBalance(h, g, 0)
            l == SetBalance(k, i, ofi)
            u == SetBalance(l, c, ofc)
<1>1. DoubleRotate(t, i, heavy) = u
  BY Zenon DEF DoubleRotate, Par, Kid, Bal
<1>2. /\ light \in Sides /\ light # heavy
      /\ (heavy = 0 /\ light = 1) \/ (heavy = 1 /\ light = 0)
  BY DEF Sides
<1>3. /\ i \in D /\ c \in D /\ g \in D /\ p \in D \cup {-1}
      /\ i # c /\ g # c /\ g # i /\ p # i /\ p # c /\ p # g
  BY Zenon DEF DoubleRotates
<1>4. /\ x \in D \cup {-1} /\ y \in D \cup {-1} /\ x \notin {i, c, g} /\ y \notin {i, c, g}
      /\ x # -1 => x # y
  <2>. HIDE DEF g, light
  <2>1. /\ Kid(t, g, 0) \in D \cup {-1} /\ Kid(t, g, 1) \in D \cup {-1}
        /\ Kid(t, g, 0) \notin {i, c, g} /\ Kid(t, g, 1) \notin {i, c, g}
        /\ Kid(t, g, 0) # -1 => Kid(t, g, 0) # Kid(t, g, 1)
    BY Zenon DEF DoubleRotates, g, light
  <2>. QED
    BY <1>2, <2>1
<1>5. p \in Int /\ c \in D \cup {-1} /\ i \in D \cup {-1} /\ g \in D \cup {-1}
  BY <1>3, IndexType, Zenon
<1>6. lean \in Int
  BY <1>3, LinkType
<1>. HIDE DEF p, c, g, light, x, y, lean
<1>7. ofi \in Int /\ ofc \in Int
  BY <1>6
<1>. HIDE DEF ofi, ofc
<1>a0. Attached(D, t, a, c, light, x)
  <2>1. c \in D /\ light \in Sides /\ x \in D \cup {-1}
    BY <1>2, <1>3, <1>4
  <2>. QED
    BY <2>1, Attaching
<1>a. /\ a \in Trees(D) /\ a.root = t.root
      /\ ParentSet(D, t, a, x, c) /\ ChildSet(D, t, a, c, light, x)
      /\ SameBalances(D, t, a) /\ SameStates(D, t, a)
  BY <1>a0, Zenon DEF Attached
<1>. HIDE DEF a
<1>b0. Attached(D, a, b, i, heavy, y)
  <2>1. i \in D /\ heavy \in Sides /\ y \in D \cup {-1}
    BY <1>2, <1>3, <1>4
  <2>. QED
    BY <2>1, <1>a, Attaching
<1>b. /\ b \in Trees(D) /\ b.root = a.root
      /\ ParentSet(D, a, b, y, i) /\ ChildSet(D, a, b, i, heavy, y)
      /\ SameBalances(D, a, b) /\ SameStates(D, a, b)
  BY <1>b0, Zenon DEF Attached
<1>. HIDE DEF b
<1>d0. Attached(D, b, d, g, heavy, c)
  <2>1. g \in D /\ heavy \in Sides /\ c \in D \cup {-1}
    BY <1>2, <1>3, <1>5
  <2>. QED
    BY <2>1, <1>b, Attaching
<1>d. /\ d \in Trees(D) /\ d.root = b.root
      /\ ParentSet(D, b, d, c, g) /\ ChildSet(D, b, d, g, heavy, c)
      /\ SameBalances(D, b, d) /\ SameStates(D, b, d)
  BY <1>d0, Zenon DEF Attached
<1>. HIDE DEF d
<1>e0. Attached(D, d, e, g, light, i)
  <2>1. g \in D /\ light \in Sides /\ i \in D \cup {-1}
    BY <1>2, <1>3, <1>5
  <2>. QED
    BY <2>1, <1>d, Attaching
<1>e. /\ e \in Trees(D) /\ e.root = d.root
      /\ ParentSet(D, d, e, i, g) /\ ChildSet(D, d, e, g, light, i)
      /\ SameBalances(D, d, e) /\ SameStates(D, d, e)
  BY <1>e0, Zenon DEF Attached
<1>. HIDE DEF e
<1>f. /\ f \in Trees(D) /\ f.root = e.root /\ ParentSet(D, e, f, g, p) /\ SameKids(D, e, f)
      /\ SameBalances(D, e, f) /\ SameStates(D, e, f)
  <2>1. g \in D /\ p \in Int
    BY <1>3, <1>5
  <2>. QED
    BY <2>1, <1>e, ParentIs, ZenonT(40)
<1>. HIDE DEF f
<1>h. /\ h \in Trees(D) /\ h.root = (IF p = -1 THEN g ELSE f.root)
      /\ ChildSet(D, f, h, p, SideOf(f, p, i), g)
      /\ SameParents(D, f, h) /\ SameBalances(D, f, h) /\ SameStates(D, f, h)
  BY <1>3, <1>5, <1>f, ReplaceIs, Zenon
<1>. HIDE DEF h
<1>k. /\ k \in Trees(D) /\ k.root = h.root /\ BalanceSet(D, h, k, g, 0)
      /\ SameParents(D, h, k) /\ SameKids(D, h, k) /\ SameStates(D, h, k)
  <2>1. 0 \in Int
    OBVIOUS
  <2>. QED
    BY <2>1, <1>3, <1>h, BalanceIs, Zenon
<1>. HIDE DEF k
<1>l. /\ l \in Trees(D) /\ l.root = k.root /\ BalanceSet(D, k, l, i, ofi)
      /\ SameParents(D, k, l) /\ SameKids(D, k, l) /\ SameStates(D, k, l)
  BY <1>7, <1>3, <1>k, BalanceIs, Zenon
<1>. HIDE DEF l
<1>u. /\ u \in Trees(D) /\ u.root = l.root /\ BalanceSet(D, l, u, c, ofc)
      /\ SameParents(D, l, u) /\ SameKids(D, l, u) /\ SameStates(D, l, u)
  BY <1>7, <1>3, <1>l, BalanceIs, Zenon
<1>. HIDE DEF u
<1>8. \A j \in D \ {i, c, g}, s \in Sides : Kid(f, j, s) = Kid(t, j, s)
  BY <1>a, <1>b, <1>d, <1>e, <1>f DEF ChildSet, SameKids
<1>9. p \in D => SideOf(f, p, i) = side
  <2>1. 1 \in Sides
    BY DEF Sides
  <2>. QED
    BY <1>3, <1>5, <1>8, <2>1, SideOfIs
<1>. HIDE DEF side
<1>10. \A j \in D, s \in Sides :
         Kid(u, j, s) = IF j = i /\ s = heavy THEN y
                        ELSE IF j = c /\ s = light THEN x
                        ELSE IF j = g THEN (IF s = heavy THEN c ELSE i)
                        ELSE IF j = p /\ s = side THEN g ELSE Kid(t, j, s)
  <2>. SUFFICES ASSUME NEW j \in D, NEW s \in Sides
                PROVE  Kid(u, j, s) = IF j = i /\ s = heavy THEN y
                        ELSE IF j = c /\ s = light THEN x
                        ELSE IF j = g THEN (IF s = heavy THEN c ELSE i)
                        ELSE IF j = p /\ s = side THEN g ELSE Kid(t, j, s)
    OBVIOUS
  <2>1. Kid(a, j, s) = IF j = c /\ s = light THEN x ELSE Kid(t, j, s)
    BY <1>a DEF ChildSet
  <2>2. Kid(b, j, s) = IF j = i /\ s = heavy THEN y ELSE Kid(a, j, s)
    BY <1>b DEF ChildSet
  <2>3. Kid(d, j, s) = IF j = g /\ s = heavy THEN c ELSE Kid(b, j, s)
    BY <1>d DEF ChildSet
  <2>4. Kid(e, j, s) = IF j = g /\ s = light THEN i ELSE Kid(d, j, s)
    BY <1>e DEF ChildSet
  <2>5. Kid(f, j, s) = Kid(e, j, s)
    BY <1>f DEF SameKids
  <2>6. Kid(h, j, s) = IF j = p /\ s = side THEN g ELSE Kid(f, j, s)
    BY <1>h, <1>9 DEF ChildSet
  <2>7. Kid(u, j, s) = Kid(h, j, s)
    BY <1>k, <1>l, <1>u DEF SameKids
  <2>8. s = heavy \/ s = light
    BY <1>2 DEF Sides
  <2>. QED
    BY <1>2, <1>3, <2>1, <2>2, <2>3, <2>4, <2>5, <2>6, <2>7, <2>8
<1>11. \A j \in D : Par(u, j) = IF j = g THEN p ELSE IF j \in {i, c} THEN g
                                ELSE IF j = x THEN c
                                ELSE IF j = y THEN i ELSE Par(t, j)
  <2>. SUFFICES ASSUME NEW j \in D
                PROVE  Par(u, j) = IF j = g THEN p ELSE IF j \in {i, c} THEN g
                                ELSE IF j = x THEN c
                                ELSE IF j = y THEN i ELSE Par(t, j)
    OBVIOUS
  <2>1. Par(a, j) = IF j = x THEN c ELSE Par(t, j)
    BY <1>a DEF ParentSet
  <2>2. Par(b, j) = IF j = y THEN i ELSE Par(a, j)
    BY <1>b DEF ParentSet
  <2>3. Par(d, j) = IF j = c THEN g ELSE Par(b, j)
    BY <1>d DEF ParentSet
  <2>4. Par(e, j) = IF j = i THEN g ELSE Par(d, j)
    BY <1>e DEF ParentSet
  <2>5. Par(f, j) = IF j = g THEN p ELSE Par(e, j)
    BY <1>f DEF ParentSet
  <2>6. Par(u, j) = Par(f, j)
    BY <1>h, <1>k, <1>l, <1>u DEF SameParents
  <2>7. j # -1
    OBVIOUS
  <2>. QED
    BY <1>3, <1>4, <2>1, <2>2, <2>3, <2>4, <2>5, <2>6, <2>7
<1>12. u.root = (IF p = -1 THEN g ELSE t.root)
  BY <1>a, <1>b, <1>d, <1>e, <1>f, <1>h, <1>k, <1>l, <1>u
<1>13. Doubled(D, t, u, i, heavy)
  BY <1>10, <1>11, <1>12, Zenon DEF Doubled, p, c, g, light, side, x, y
<1>14. \A j \in D : Bal(u, j) = IF j = c THEN ofc ELSE IF j = i THEN ofi ELSE IF j = g THEN 0 ELSE Bal(t, j)
  <2>. SUFFICES ASSUME NEW j \in D
                PROVE  Bal(u, j) = IF j = c THEN ofc ELSE IF j = i THEN ofi ELSE IF j = g THEN 0 ELSE Bal(t, j)
    OBVIOUS
  <2>1. Bal(h, j) = Bal(t, j)
    BY <1>a, <1>b, <1>d, <1>e, <1>f, <1>h DEF SameBalances
  <2>2. Bal(k, j) = IF j = g THEN 0 ELSE Bal(h, j)
    BY <1>k DEF BalanceSet
  <2>3. Bal(l, j) = IF j = i THEN ofi ELSE Bal(k, j)
    BY <1>l DEF BalanceSet
  <2>4. Bal(u, j) = IF j = c THEN ofc ELSE Bal(l, j)
    BY <1>u DEF BalanceSet
  <2>. QED
    BY <1>3, <2>1, <2>2, <2>3, <2>4
<1>15. Righted(D, t, u, i, heavy)
  BY <1>14, Zenon DEF Righted, c, g, light, lean, ofi, ofc
<1>16. SameStates(D, t, u)
  <2>. SUFFICES ASSUME NEW j \in D PROVE State(u, j) = State(t, j)
    BY DEF SameStates
  <2>. QED
    BY <1>a, <1>b, <1>d, <1>e, <1>f, <1>h, <1>k, <1>l, <1>u DEF SameStates
<1>. QED
  BY <1>1, <1>u, <1>13, <1>15, <1>16, Zenon

\* The slots a double rotation is about, as the tree has them.
LEMMA DoubleRotatesIs ==
    ASSUME NEW D, NEW S, NEW at, NEW low, NEW high, NEW t, NEW lim,
           Places(D, S, at, low, high), Linked(D, S, at, low, high, t, lim),
           NEW i \in S, NEW heavy \in Sides, NEW c, NEW g, c = Kid(t, i, heavy), c # -1,
           g = Kid(t, c, 1 - heavy), g # -1
    PROVE  DoubleRotates(D, t, i, heavy) /\ Rotates(D, t, i, heavy) /\ c \in S /\ g \in S
<1>1. 1 - heavy \in Sides
  BY SidesAre
<1>2. c \in S /\ Par(t, c) = i
  BY KidsAre
<1>3. g \in S /\ Par(t, g) = c
  BY <1>1, <1>2, KidsAre
<1>4. Rotates(D, t, i, heavy)
  BY RotatesIs
<1>5. /\ i \in D /\ c \in D /\ g \in D \cup {-1} /\ Par(t, i) \in D \cup {-1}
      /\ i # c /\ g # c /\ g # i /\ Par(t, i) # i /\ Par(t, i) # c /\ (Par(t, i) = g => Par(t, i) = -1)
  BY <1>4, Zenon DEF Rotates
<1>6. g \in D /\ Par(t, i) # g /\ g # -1
  BY <1>3, <1>5, ValuesAre
<1>7. \A s \in Sides : /\ Kid(t, g, s) \in S \cup {-1} /\ Kid(t, g, s) # g
                       /\ Kid(t, g, s) # -1 => Par(t, Kid(t, g, s)) = g
  BY <1>3, KidsAre
<1>8. \A s \in Sides : /\ Kid(t, g, s) \in D \cup {-1} /\ Kid(t, g, s) \notin {i, c, g}
  <2>. SUFFICES ASSUME NEW s \in Sides
                PROVE  Kid(t, g, s) \in D \cup {-1} /\ Kid(t, g, s) \notin {i, c, g}
    OBVIOUS
  <2>1. Kid(t, g, s) \in D \cup {-1}
    BY <1>7, ValuesAre
  <2>2. i # -1 /\ c # -1
    BY <1>2, ValuesAre
  <2>. QED
    BY <1>2, <1>5, <1>6, <1>7, <2>1, <2>2
<1>9. Kid(t, g, 0) # -1 => Kid(t, g, 0) # Kid(t, g, 1)
  <2>1. 0 \in Sides /\ 1 - 0 = 1
    BY DEF Sides
  <2>. QED
    BY <1>3, <2>1, TwoKids
<1>10. 0 \in Sides /\ 1 \in Sides
  BY DEF Sides
<1>. QED
  BY <1>2, <1>3, <1>4, <1>5, <1>6, <1>8, <1>9, <1>10, Zenon DEF DoubleRotates

\* Rotated() with its slots named.
LEMMA RotatedIs ==
    ASSUME NEW D, NEW t, NEW u, NEW i, NEW heavy, NEW light, NEW p, NEW c, NEW g, NEW side,
           light = 1 - heavy, p = Par(t, i), c = Kid(t, i, heavy), g = Kid(t, c, light),
           side = SideOf(t, p, i)
    PROVE  Rotated(D, t, u, i, heavy) <=>
             /\ u.root = (IF p = -1 THEN c ELSE t.root)
             /\ \A j \in D : Par(u, j) = IF j = c THEN p ELSE IF j = i THEN c
                                         ELSE IF j = g THEN i ELSE Par(t, j)
             /\ \A j \in D, s \in Sides :
                   Kid(u, j, s) = IF j = i /\ s = heavy THEN g
                                  ELSE IF j = c /\ s = light THEN i
                                  ELSE IF j = p /\ s = side THEN c ELSE Kid(t, j, s)
BY DEF Rotated

\* A double rotation links the slots as two single ones do.
LEMMA DoubledTwice ==
    ASSUME NEW D, NEW S, NEW at, NEW low, NEW high, NEW t, NEW lim,
           Places(D, S, at, low, high), Linked(D, S, at, low, high, t, lim),
           NEW i \in S, NEW heavy \in Sides, NEW c, NEW g, c = Kid(t, i, heavy), c # -1,
           g = Kid(t, c, 1 - heavy), g # -1,
           NEW u, Doubled(D, t, u, i, heavy), NEW v, Rotated(D, t, v, c, 1 - heavy)
    PROVE  Kid(v, i, heavy) = g /\ Rotated(D, v, u, i, heavy)
<1>. DEFINE light == 1 - heavy
            p == Par(t, i)
            x == Kid(t, g, heavy)
            y == Kid(t, g, light)
            side == SideOf(t, p, i)
<1>1. light \in Sides /\ light # heavy /\ heavy = 1 - light /\ \A r \in Sides : r = heavy \/ r = light
  BY SidesAre
<1>2. c \in S /\ g \in S /\ i \in D /\ c \in D /\ g \in D /\ i # -1
  BY DoubleRotatesIs, ValuesAre
<1>3. Par(t, c) = i
  BY KidsAre
<1>4. SideOf(t, i, c) = heavy
  BY <1>2, <1>3, AboveIs
<1>5. /\ i # c /\ g # c /\ g # i /\ p # i /\ p # c /\ p # g
      /\ x \notin {i, c, g} /\ y \notin {i, c, g} /\ (x # -1 => x # y)
  <2>1. DoubleRotates(D, t, i, heavy)
    BY DoubleRotatesIs
  <2>2. /\ i # c /\ g # c /\ g # i /\ p # i /\ p # c /\ p # g
        /\ Kid(t, g, 0) \notin {i, c, g} /\ Kid(t, g, 1) \notin {i, c, g}
        /\ (Kid(t, g, 0) # -1 => Kid(t, g, 0) # Kid(t, g, 1))
    BY <2>1, Zenon DEF DoubleRotates
  <2>3. (heavy = 0 /\ light = 1) \/ (heavy = 1 /\ light = 0)
    BY DEF Sides
  <2>. QED
    BY <2>2, <2>3
<1>6. /\ u.root = (IF p = -1 THEN g ELSE t.root)
      /\ \A j \in D : Par(u, j) = IF j = g THEN p ELSE IF j \in {i, c} THEN g
                                   ELSE IF j = x THEN c
                                   ELSE IF j = y THEN i ELSE Par(t, j)
      /\ \A j \in D, s \in Sides :
             Kid(u, j, s) = IF j = i /\ s = heavy THEN y
                            ELSE IF j = c /\ s = light THEN x
                            ELSE IF j = g THEN (IF s = heavy THEN c ELSE i)
                            ELSE IF j = p /\ s = side THEN g ELSE Kid(t, j, s)
  BY Zenon DEF Doubled
<1>7. /\ v.root = t.root
      /\ \A j \in D : Par(v, j) = IF j = g THEN i ELSE IF j = c THEN g
                                   ELSE IF j = x THEN c ELSE Par(t, j)
      /\ \A j \in D, s \in Sides :
             Kid(v, j, s) = IF j = c /\ s = light THEN x
                            ELSE IF j = g /\ s = heavy THEN c
                            ELSE IF j = i /\ s = heavy THEN g ELSE Kid(t, j, s)
  <2>1. 1 - light = heavy
    BY <1>1
  <2>2. /\ v.root = (IF i = -1 THEN g ELSE t.root)
        /\ \A j \in D : Par(v, j) = IF j = g THEN i ELSE IF j = c THEN g
                                   ELSE IF j = x THEN c ELSE Par(t, j)
        /\ \A j \in D, s \in Sides :
             Kid(v, j, s) = IF j = c /\ s = light THEN x
                            ELSE IF j = g /\ s = heavy THEN c
                            ELSE IF j = i /\ s = SideOf(t, i, c) THEN g ELSE Kid(t, j, s)
    <3>. HIDE DEF x
    <3>1. x = Kid(t, g, heavy)
      BY DEF x
    <3>. QED
      BY <1>3, <2>1, <3>1, RotatedIs
  <2>. QED
    BY <1>2, <1>4, <2>2
<1>8. p # -1 => p \in S /\ p \in D /\ side \in Sides
  BY AboveIs, ValuesAre
<1>. HIDE DEF light, p, x, y, side
<1>9. Kid(v, i, heavy) = g
  BY <1>2, <1>5, <1>7
<1>10. Kid(v, g, light) = y
  BY <1>1, <1>2, <1>5, <1>7 DEF y
<1>11. Par(v, i) = p
  BY <1>2, <1>5, <1>7 DEF p
<1>12. p # -1 => SideOf(v, p, i) = side
  <2>. SUFFICES ASSUME p # -1 PROVE SideOf(v, p, i) = side
    OBVIOUS
  <2>1. p \in Nat
    BY <1>8, ValuesAre
  <2>2. Kid(v, p, 1) = Kid(t, p, 1)
    BY <1>5, <1>7, <1>8 DEF Sides
  <2>. QED
    BY <2>1, <2>2, SideOfIs DEF side
<1>13. \A j \in D : j # -1
  BY DEF Places
<1>14. \A j \in D : Par(u, j) = IF j = g THEN p ELSE IF j = i THEN g
                                ELSE IF j = y THEN i ELSE Par(v, j)
  BY <1>2, <1>5, <1>6, <1>7, <1>13
<1>15. \A j \in D, s \in Sides :
         Kid(u, j, s) = IF j = i /\ s = heavy THEN y
                        ELSE IF j = g /\ s = light THEN i
                        ELSE IF j = p /\ s = SideOf(v, p, i) THEN g ELSE Kid(v, j, s)
  BY <1>1, <1>2, <1>5, <1>6, <1>7, <1>8, <1>12, <1>13
<1>16. u.root = (IF p = -1 THEN g ELSE v.root)
  BY <1>6, <1>7
<1>17. light = 1 - heavy
  BY DEF light
<1>. QED
  BY <1>9, <1>10, <1>11, <1>14, <1>15, <1>16, <1>17, RotatedIs

\* The limits of slots that keep theirs.
SameLimits(S, lim, new) == \A j \in S, s \in Sides : new[j][s] = lim[j][s]

\* A rotation, single or double, leaves a search tree and the limits of the rest.
LEMMA SingleLinks ==
    ASSUME NEW D, NEW S, NEW at, NEW low, NEW high, NEW t, NEW lim,
           Places(D, S, at, low, high), Linked(D, S, at, low, high, t, lim),
           NEW i \in S, NEW heavy \in Sides, NEW c, c = Kid(t, i, heavy), c # -1,
           NEW u \in Trees(D), Rotated(D, t, u, i, heavy)
    PROVE  \E new : Linked(D, S, at, low, high, u, new) /\ SameLimits(S \ {i, c}, lim, new)
<1>. DEFINE new == TurnedLimits(D, at, lim, i, c, heavy)
<1>1. Linked(D, S, at, low, high, u, new)
  BY RotatedLinks
<1>2. c \in S /\ i # c /\ i \in D /\ c \in D
  BY KidsAre, ValuesAre
<1>3. at \in [D -> Int] /\ lim \in Limits(D) /\ S \subseteq D
  BY DEF Places, Linked
<1>4. \A j \in D \ {i, c}, s \in Sides : new[j][s] = lim[j][s]
  BY SMTT(30), <1>2, <1>3, TurnedLimitsAre
<1>. HIDE DEF new
<1>5. SameLimits(S \ {i, c}, lim, new)
  BY <1>3, <1>4 DEF SameLimits
<1>. QED
  BY <1>1, <1>5

\* The same of a double rotation.
LEMMA DoubleLinks ==
    ASSUME NEW D, NEW S, NEW at, NEW low, NEW high, NEW t, NEW lim,
           Places(D, S, at, low, high), Linked(D, S, at, low, high, t, lim),
           NEW i \in S, NEW heavy \in Sides, NEW c, NEW g, c = Kid(t, i, heavy), c # -1,
           g = Kid(t, c, 1 - heavy), g # -1,
           NEW u \in Trees(D), Doubled(D, t, u, i, heavy)
    PROVE  \E new : Linked(D, S, at, low, high, u, new) /\ SameLimits(S \ {i, c, g}, lim, new)
<1>. DEFINE light == 1 - heavy
            v == SingleRotate(t, c, light)
<1>1. c \in S /\ g \in S /\ light \in Sides
  BY DoubleRotatesIs, SidesAre
<1>2. Rotates(D, t, c, light)
  BY <1>1, RotatesIs
<1>3. v \in Trees(D) /\ Rotated(D, t, v, c, light)
  <2>1. D \subseteq Nat /\ t \in Trees(D)
    BY DEF Places, Linked
  <2>. QED
    BY <1>1, <1>2, <2>1, SingleRotateIs
<1>. HIDE DEF v, light
<1>4. PICK mid : Linked(D, S, at, low, high, v, mid) /\ SameLimits(S \ {c, g}, lim, mid)
  BY <1>1, <1>3, SingleLinks DEF light
<1>5. Kid(v, i, heavy) = g /\ Rotated(D, v, u, i, heavy)
  BY <1>3, DoubledTwice DEF light
<1>6. PICK new : Linked(D, S, at, low, high, u, new) /\ SameLimits(S \ {i, g}, mid, new)
  BY <1>1, <1>4, <1>5, SingleLinks
<1>7. SameLimits(S \ {i, c, g}, lim, new)
  BY <1>4, <1>6 DEF SameLimits
<1>. QED
  BY <1>6, <1>7

----------------------------------------------------------------------------
(* Balances *)

\* The greater height.
Higher(a, b) == IF a < b THEN b ELSE a

\* A slot of balance b and height n, with x levels on side s and y on the other.
Stands(b, n, s, x, y) ==
    x \in Nat /\ y \in Nat /\ x - y \in -1 .. 1 /\ b = Weight(s) * (x - y) /\ n = 1 + Higher(x, y)

\* The height of the subtree on a side.
Level(t, h, j, s) == IF Kid(t, j, s) = -1 THEN 0 ELSE h[Kid(t, j, s)]

\* The levels the balances count below j: the subtree on one side of w has
\* d more than they count.
Counted(t, h, w, side, d, j, s) == Level(t, h, j, s) - (IF j = w /\ s = side THEN d ELSE 0)

\* A height for each slot.
Heights(D) == [D -> Nat]

\* The balances are those of the heights h, but for the d levels at w.
Weighed(D, S, t, h, w, side, d) ==
    /\ h \in Heights(D)
    /\ \A j \in S, s \in Sides :
          Stands(Bal(t, j), h[j], s, Counted(t, h, w, side, d, j, s), Counted(t, h, w, side, d, j, 1 - s))

\* The balance seen from the other side.
LEMMA OtherSide ==
    ASSUME NEW b, NEW n, NEW s \in Sides, NEW x, NEW y, Stands(b, n, s, x, y)
    PROVE  Stands(b, n, 1 - s, y, x) /\ b \in -1 .. 1 /\ n \in Nat /\ n > 0
BY DEF Stands, Higher, Weight, Sides

\* The slots of C stand anew, and to the others nothing has changed.
Reweighs(S, t, h, w, side, d, u, n, p, ps, e, C) ==
    /\ \A j \in S \ C : Bal(u, j) = Bal(t, j) /\ n[j] = h[j]
    /\ \A j \in S \ C, s \in Sides :
          Counted(u, n, p, ps, e, j, s) = Counted(t, h, w, side, d, j, s)
    /\ \A j \in C : \E s \in Sides :
          Stands(Bal(u, j), n[j], s, Counted(u, n, p, ps, e, j, s), Counted(u, n, p, ps, e, j, 1 - s))

\* Then the balances are right for the new tree.
LEMMA Reweighed ==
    ASSUME NEW D, NEW S, NEW t, NEW h, NEW w, NEW side, NEW d, Weighed(D, S, t, h, w, side, d),
           NEW u, NEW n \in Heights(D), NEW p, NEW ps, NEW e, NEW C,
           Reweighs(S, t, h, w, side, d, u, n, p, ps, e, C)
    PROVE  Weighed(D, S, u, n, p, ps, e)
<1>. SUFFICES ASSUME NEW j \in S, NEW s \in Sides
              PROVE  Stands(Bal(u, j), n[j], s, Counted(u, n, p, ps, e, j, s), Counted(u, n, p, ps, e, j, 1 - s))
  BY Zenon DEF Weighed
<1>0. 1 - s \in Sides
  BY SidesAre
<1>1. CASE j \notin C
  <2>1. Stands(Bal(t, j), h[j], s, Counted(t, h, w, side, d, j, s), Counted(t, h, w, side, d, j, 1 - s))
    BY Zenon DEF Weighed
  <2>2. /\ Bal(u, j) = Bal(t, j) /\ n[j] = h[j]
        /\ Counted(u, n, p, ps, e, j, s) = Counted(t, h, w, side, d, j, s)
        /\ Counted(u, n, p, ps, e, j, 1 - s) = Counted(t, h, w, side, d, j, 1 - s)
    BY <1>0, <1>1, Zenon DEF Reweighs
  <2>. QED
    BY <2>1, <2>2
<1>2. CASE j \in C
  <2>1. PICK r \in Sides :
          Stands(Bal(u, j), n[j], r, Counted(u, n, p, ps, e, j, r), Counted(u, n, p, ps, e, j, 1 - r))
    BY <1>2, Zenon DEF Reweighs
  <2>2. Stands(Bal(u, j), n[j], 1 - r, Counted(u, n, p, ps, e, j, 1 - r), Counted(u, n, p, ps, e, j, r))
    BY <2>1, OtherSide
  <2>3. s = r \/ (s = 1 - r /\ 1 - s = r)
    BY DEF Sides
  <2>. QED
    BY <2>1, <2>2, <2>3
<1>. QED
  BY <1>1, <1>2

\* The balances after a single rotation, from those of the two slots.
LEMMA SingleWeighs ==
    ASSUME NEW D, NEW S, NEW at, NEW low, NEW high, NEW t, NEW lim,
           Places(D, S, at, low, high), Linked(D, S, at, low, high, t, lim),
           NEW i \in S, NEW heavy \in Sides, NEW c, c = Kid(t, i, heavy), c # -1,
           NEW light, light = 1 - heavy,
           NEW h, NEW side, NEW d, Weighed(D, S, t, h, i, side, d),
           NEW u, Rotated(D, t, u, i, heavy), \A j \in S \ {i, c} : Bal(u, j) = Bal(t, j),
           NEW a \in Nat, NEW b \in Nat, NEW e \in Int, h[i] = b - e,
           Stands(Bal(u, i), a, heavy, Level(t, h, c, light), Level(t, h, i, light)),
           Stands(Bal(u, c), b, heavy, Level(t, h, c, heavy), a)
    PROVE  Weighed(D, S, u, [h EXCEPT ![i] = a, ![c] = b], Par(t, i), SideOf(t, Par(t, i), i), e)
<1>. DEFINE p == Par(t, i)
            g == Kid(t, c, light)
            ps == SideOf(t, p, i)
            n == [h EXCEPT ![i] = a, ![c] = b]
<1>1. light \in Sides /\ light # heavy /\ heavy = 1 - light /\ \A r \in Sides : r = heavy \/ r = light
  BY SidesAre
<1>2. /\ u.root = (IF p = -1 THEN c ELSE t.root)
      /\ \A j \in D, s \in Sides :
            Kid(u, j, s) = IF j = i /\ s = heavy THEN g
                           ELSE IF j = c /\ s = light THEN i
                           ELSE IF j = p /\ s = ps THEN c ELSE Kid(t, j, s)
  BY RotatedIs
<1>3. c \in S /\ Par(t, c) = i
  BY KidsAre
<1>4. /\ i \in D /\ c \in D /\ i # c /\ g # c /\ g # i /\ p # i /\ p # c
  <2>1. Rotates(D, t, i, heavy)
    BY RotatesIs
  <2>. QED
    BY <2>1, Zenon DEF Rotates
<1>5. h \in Heights(D)
  BY DEF Weighed
<1>6. n \in Heights(D) /\ n[i] = a /\ n[c] = b /\ \A j \in D \ {i, c} : n[j] = h[j]
  BY <1>4, <1>5 DEF Heights
<1>7. \A j \in S : j \in D /\ j # -1 /\ h[j] \in Nat
  BY <1>5, ValuesAre DEF Heights
<1>8. p # -1 => p \in S /\ ps \in Sides /\ Kid(t, p, ps) = i
  BY AboveIs
<1>9. g \in S \cup {-1} /\ (g # -1 => Par(t, g) = c)
  BY <1>1, <1>3, KidsAre
<1>. HIDE DEF p, g, ps, n
<1>10. ASSUME NEW j \in S \ {i, c}, NEW s \in Sides
       PROVE  Counted(u, n, p, ps, e, j, s) = Counted(t, h, i, side, d, j, s)
  <2>. DEFINE k == Kid(t, j, s)
  <2>1. k \in S \cup {-1} /\ (k # -1 => Par(t, k) = j)
    BY KidsAre
  <2>2. CASE j = p /\ s = ps
    <3>1. Kid(u, j, s) = c /\ k = i
      BY <1>2, <1>4, <1>7, <1>8, <2>2
    <3>2. Counted(u, n, p, ps, e, j, s) = b - e
      BY <1>6, <1>7, <1>3, <2>2, <3>1 DEF Counted, Level
    <3>3. Counted(t, h, i, side, d, j, s) = h[i] - 0
      BY <1>7, <2>2, <3>1 DEF Counted, Level
    <3>4. h[i] - 0 = h[i]
      BY <1>7
    <3>. QED
      BY <3>2, <3>3, <3>4
  <2>3. CASE ~ (j = p /\ s = ps)
    <3>1. Kid(u, j, s) = k
      BY <1>2, <1>7, <2>3
    <3>2. k # c
      BY <1>3, <1>7, <2>1
    <3>3. k # i
      <4>. SUFFICES ASSUME k = i PROVE FALSE
        OBVIOUS
      <4>1. p = j
        BY <1>7, <2>1 DEF p
      <4>2. s = ps
        BY <1>7, <4>1, AboveIs DEF ps, p
      <4>. QED
        BY <2>3, <4>1, <4>2
    <3>4. k # -1 => n[k] = h[k]
      BY <1>6, <1>7, <2>1, <3>2, <3>3
    <3>5. Level(u, n, j, s) = Level(t, h, j, s)
      BY <3>1, <3>4 DEF Level
    <3>. QED
      BY <2>3, <3>5 DEF Counted
  <2>. QED
    BY <2>2, <2>3
<1>11. ASSUME NEW s \in Sides
       PROVE  /\ Counted(u, n, p, ps, e, i, s) = Level(u, n, i, s)
              /\ Counted(u, n, p, ps, e, c, s) = Level(u, n, c, s)
  <2>1. Kid(u, i, s) \in S \cup {-1} /\ Kid(u, c, s) \in S \cup {-1}
    <3>1. Kid(t, i, s) \in S \cup {-1} /\ Kid(t, c, s) \in S \cup {-1}
      BY <1>3, KidsAre
    <3>. QED
      BY <1>2, <1>3, <1>4, <1>9, <3>1
  <2>2. Level(u, n, i, s) \in Nat /\ Level(u, n, c, s) \in Nat
    BY <1>6, <1>7, <2>1 DEF Level, Heights
  <2>. QED
    BY <1>4, <2>2 DEF Counted
<1>12. Stands(Bal(u, i), n[i], heavy, Counted(u, n, p, ps, e, i, heavy), Counted(u, n, p, ps, e, i, light))
  <2>1. Kid(u, i, heavy) = g /\ Kid(u, i, light) = Kid(t, i, light)
    BY <1>1, <1>2, <1>4
  <2>2. Level(u, n, i, heavy) = Level(t, h, c, light)
    BY <1>4, <1>6, <1>7, <1>9, <2>1 DEF Level, g
  <2>3. Kid(t, i, light) \in S \cup {-1} /\ Kid(t, i, light) # i /\ Kid(t, i, light) # c
    BY <1>1, KidsAre, TwoKids
  <2>4. Level(u, n, i, light) = Level(t, h, i, light)
    BY <1>6, <1>7, <2>1, <2>3 DEF Level
  <2>. QED
    BY <1>1, <1>6, <1>11, <2>2, <2>4
<1>13. Stands(Bal(u, c), n[c], heavy, Counted(u, n, p, ps, e, c, heavy), Counted(u, n, p, ps, e, c, light))
  <2>1. Kid(u, c, light) = i /\ Kid(u, c, heavy) = Kid(t, c, heavy)
    BY <1>1, <1>2, <1>4
  <2>2. Level(u, n, c, light) = a
    BY <1>6, <1>7, <2>1 DEF Level
  <2>3. Kid(t, c, heavy) \in S \cup {-1} /\ Kid(t, c, heavy) # i /\ Kid(t, c, heavy) # c
    BY <1>1, <1>3, <1>4, KidsAre, AboveIs, <1>7
  <2>4. Level(u, n, c, heavy) = Level(t, h, c, heavy)
    BY <1>6, <1>7, <2>1, <2>3 DEF Level
  <2>. QED
    BY <1>1, <1>6, <1>11, <2>2, <2>4
<1>14. \A j \in {i, c} : \E s \in Sides :
         Stands(Bal(u, j), n[j], s, Counted(u, n, p, ps, e, j, s), Counted(u, n, p, ps, e, j, 1 - s))
  BY <1>12, <1>13
<1>15. Weighed(D, S, u, n, p, ps, e)
  <2>1. Reweighs(S, t, h, i, side, d, u, n, p, ps, e, {i, c})
    <3>1. \A j \in S \ {i, c} : Bal(u, j) = Bal(t, j) /\ n[j] = h[j]
      BY <1>6, <1>7
    <3>. QED
      BY <1>10, <1>14, <3>1, Zenon DEF Reweighs
  <2>2. n \in Heights(D)
    BY <1>6
  <2>. QED
    BY <2>1, <2>2, Reweighed, Zenon
<1>. QED
  BY <1>15 DEF n, p, ps

\* Doubled() with its slots named.
LEMMA DoubledIs ==
    ASSUME NEW D, NEW t, NEW u, NEW i, NEW heavy, NEW light, NEW p, NEW c, NEW g, NEW side,
           light = 1 - heavy, p = Par(t, i), c = Kid(t, i, heavy), g = Kid(t, c, light),
           side = SideOf(t, p, i), Doubled(D, t, u, i, heavy)
    PROVE  /\ u.root = (IF p = -1 THEN g ELSE t.root)
           /\ \A j \in D : Par(u, j) = IF j = g THEN p ELSE IF j \in {i, c} THEN g
                                       ELSE IF j = Kid(t, g, heavy) THEN c
                                       ELSE IF j = Kid(t, g, light) THEN i ELSE Par(t, j)
           /\ \A j \in D, s \in Sides :
                 Kid(u, j, s) = IF j = i /\ s = heavy THEN Kid(t, g, light)
                                ELSE IF j = c /\ s = light THEN Kid(t, g, heavy)
                                ELSE IF j = g THEN (IF s = heavy THEN c ELSE i)
                                ELSE IF j = p /\ s = side THEN g ELSE Kid(t, j, s)
BY DEF Doubled

\* The balances after a double rotation, from those of the three slots.
LEMMA DoubleWeighs ==
    ASSUME NEW D, NEW S, NEW at, NEW low, NEW high, NEW t, NEW lim,
           Places(D, S, at, low, high), Linked(D, S, at, low, high, t, lim),
           NEW i \in S, NEW heavy \in Sides, NEW c, c = Kid(t, i, heavy), c # -1,
           NEW light, light = 1 - heavy, NEW g, g = Kid(t, c, light), g # -1,
           NEW h, NEW side, NEW d, Weighed(D, S, t, h, i, side, d),
           NEW u, Doubled(D, t, u, i, heavy), \A j \in S \ {i, c, g} : Bal(u, j) = Bal(t, j),
           NEW a \in Nat, NEW b \in Nat, NEW m \in Nat, NEW e \in Int, h[i] = m - e,
           Stands(Bal(u, i), a, heavy, Level(t, h, g, light), Level(t, h, i, light)),
           Stands(Bal(u, c), b, heavy, Level(t, h, c, heavy), Level(t, h, g, heavy)),
           Stands(Bal(u, g), m, heavy, b, a)
    PROVE  Weighed(D, S, u, [h EXCEPT ![i] = a, ![c] = b, ![g] = m], Par(t, i),
                   SideOf(t, Par(t, i), i), e)
<1>. DEFINE p == Par(t, i)
            x == Kid(t, g, heavy)
            y == Kid(t, g, light)
            ps == SideOf(t, p, i)
            n == [h EXCEPT ![i] = a, ![c] = b, ![g] = m]
<1>1. light \in Sides /\ light # heavy /\ heavy = 1 - light /\ \A r \in Sides : r = heavy \/ r = light
  BY SidesAre
<1>2. /\ \A j \in D, s \in Sides :
            Kid(u, j, s) = IF j = i /\ s = heavy THEN y
                           ELSE IF j = c /\ s = light THEN x
                           ELSE IF j = g THEN (IF s = heavy THEN c ELSE i)
                           ELSE IF j = p /\ s = ps THEN g ELSE Kid(t, j, s)
  BY DoubledIs
<1>3. c \in S /\ g \in S /\ Par(t, c) = i /\ DoubleRotates(D, t, i, heavy)
  BY KidsAre, DoubleRotatesIs
<1>33. Par(t, g) = c
  BY <1>1, <1>3, KidsAre
<1>4. /\ i \in D /\ c \in D /\ g \in D /\ i # c /\ g # c /\ g # i /\ p # i /\ p # c /\ p # g
      /\ x \notin {i, c, g} /\ y \notin {i, c, g}
  <2>1. /\ i \in D /\ c \in D /\ g \in D
        /\ i # c /\ g # c /\ g # i /\ p # i /\ p # c /\ p # g
        /\ Kid(t, g, 0) \notin {i, c, g} /\ Kid(t, g, 1) \notin {i, c, g}
    BY <1>3, Zenon DEF DoubleRotates
  <2>. QED
    BY <1>1, <2>1 DEF Sides
<1>5. h \in Heights(D)
  BY DEF Weighed
<1>6. n \in Heights(D) /\ n[i] = a /\ n[c] = b /\ n[g] = m /\ \A j \in D \ {i, c, g} : n[j] = h[j]
  BY <1>4, <1>5 DEF Heights
<1>7. \A j \in S : j \in D /\ j # -1 /\ h[j] \in Nat
  BY <1>5, ValuesAre DEF Heights
<1>8. p # -1 => p \in S /\ ps \in Sides /\ Kid(t, p, ps) = i
  BY AboveIs
<1>9. x \in S \cup {-1} /\ y \in S \cup {-1}
  BY <1>1, <1>3, KidsAre
<1>. HIDE DEF p, x, y, ps, n
<1>10. ASSUME NEW j \in S \ {i, c, g}, NEW s \in Sides
       PROVE  Counted(u, n, p, ps, e, j, s) = Counted(t, h, i, side, d, j, s)
  <2>. DEFINE k == Kid(t, j, s)
  <2>1. k \in S \cup {-1} /\ (k # -1 => Par(t, k) = j)
    BY KidsAre
  <2>2. CASE j = p /\ s = ps
    <3>1. Kid(u, j, s) = g /\ k = i
      BY <1>2, <1>4, <1>7, <1>8, <2>2
    <3>2. Counted(u, n, p, ps, e, j, s) = m - e
      BY <1>6, <1>7, <1>3, <2>2, <3>1 DEF Counted, Level
    <3>3. Counted(t, h, i, side, d, j, s) = h[i] - 0
      BY <1>7, <2>2, <3>1 DEF Counted, Level
    <3>4. h[i] - 0 = h[i]
      BY <1>7
    <3>. QED
      BY <3>2, <3>3, <3>4
  <2>3. CASE ~ (j = p /\ s = ps)
    <3>1. Kid(u, j, s) = k
      BY <1>2, <1>7, <2>3
    <3>2. k # c /\ k # g
      BY <1>3, <1>33, <1>7, <2>1
    <3>3. k # i
      <4>. SUFFICES ASSUME k = i PROVE FALSE
        OBVIOUS
      <4>1. p = j
        BY <1>7, <2>1 DEF p
      <4>2. s = ps
        BY <1>7, <4>1, AboveIs DEF ps, p
      <4>. QED
        BY <2>3, <4>1, <4>2
    <3>4. k # -1 => n[k] = h[k]
      BY <1>6, <1>7, <2>1, <3>2, <3>3
    <3>5. Level(u, n, j, s) = Level(t, h, j, s)
      BY <3>1, <3>4 DEF Level
    <3>. QED
      BY <2>3, <3>5 DEF Counted
  <2>. QED
    BY <2>2, <2>3
<1>11. ASSUME NEW j \in {i, c, g}, NEW s \in Sides
       PROVE  Counted(u, n, p, ps, e, j, s) = Level(u, n, j, s)
  <2>1. Kid(u, j, s) \in S \cup {-1}
    <3>1. Kid(t, j, s) \in S \cup {-1}
      BY <1>3, KidsAre
    <3>. QED
      BY <1>2, <1>3, <1>4, <1>9, <3>1
  <2>2. Level(u, n, j, s) \in Nat
    BY <1>6, <1>7, <2>1 DEF Level, Heights
  <2>. QED
    BY <1>4, <2>2 DEF Counted
<1>12. Stands(Bal(u, i), n[i], heavy, Counted(u, n, p, ps, e, i, heavy), Counted(u, n, p, ps, e, i, light))
  <2>1. Kid(u, i, heavy) = y /\ Kid(u, i, light) = Kid(t, i, light)
    BY <1>1, <1>2, <1>4
  <2>2. Level(u, n, i, heavy) = Level(t, h, g, light)
    BY <1>4, <1>6, <1>7, <1>9, <2>1 DEF Level, y
  <2>3. Kid(t, i, light) \in S \cup {-1} /\ Kid(t, i, light) # i /\ Kid(t, i, light) # c
    BY <1>1, KidsAre, TwoKids
  <2>5. Kid(t, i, light) # g
    BY <1>1, <1>3, <1>33, <1>4, <1>7, KidsAre
  <2>4. Level(u, n, i, light) = Level(t, h, i, light)
    BY <1>6, <1>7, <2>1, <2>3, <2>5 DEF Level
  <2>. QED
    BY <1>1, <1>6, <1>11, <2>2, <2>4
<1>13. Stands(Bal(u, c), n[c], heavy, Counted(u, n, p, ps, e, c, heavy), Counted(u, n, p, ps, e, c, light))
  <2>1. Kid(u, c, light) = x /\ Kid(u, c, heavy) = Kid(t, c, heavy)
    BY <1>1, <1>2, <1>4
  <2>2. Level(u, n, c, light) = Level(t, h, g, heavy)
    BY <1>4, <1>6, <1>7, <1>9, <2>1 DEF Level, x
  <2>3. Kid(t, c, heavy) \in S \cup {-1} /\ Kid(t, c, heavy) # i /\ Kid(t, c, heavy) # c
    BY <1>1, <1>3, <1>4, KidsAre, AboveIs, <1>7
  <2>5. Kid(t, c, heavy) # g
    BY <1>1, <1>3, <1>7, TwoKids
  <2>4. Level(u, n, c, heavy) = Level(t, h, c, heavy)
    BY <1>6, <1>7, <2>1, <2>3, <2>5 DEF Level
  <2>. QED
    BY <1>1, <1>6, <1>11, <2>2, <2>4
<1>14. Stands(Bal(u, g), n[g], heavy, Counted(u, n, p, ps, e, g, heavy), Counted(u, n, p, ps, e, g, light))
  <2>1. Kid(u, g, light) = i /\ Kid(u, g, heavy) = c
    BY <1>1, <1>2, <1>4
  <2>2. Level(u, n, g, light) = a /\ Level(u, n, g, heavy) = b
    BY <1>3, <1>6, <1>7, <2>1 DEF Level
  <2>. QED
    BY <1>1, <1>6, <1>11, <2>2
<1>15. \A j \in {i, c, g} : \E s \in Sides :
         Stands(Bal(u, j), n[j], s, Counted(u, n, p, ps, e, j, s), Counted(u, n, p, ps, e, j, 1 - s))
  BY <1>12, <1>13, <1>14
<1>16. Weighed(D, S, u, n, p, ps, e)
  <2>1. Reweighs(S, t, h, i, side, d, u, n, p, ps, e, {i, c, g})
    <3>1. \A j \in S \ {i, c, g} : Bal(u, j) = Bal(t, j) /\ n[j] = h[j]
      BY <1>6, <1>7
    <3>. QED
      BY <1>10, <1>15, <3>1, Zenon DEF Reweighs
  <2>2. n \in Heights(D)
    BY <1>6
  <2>. QED
    BY <2>1, <2>2, Reweighed, Zenon
<1>. QED
  BY <1>16 DEF n, p, ps

\* The links are right in a tree with the same ones.
LEMMA SameLinks ==
    ASSUME NEW D, NEW S, NEW at, NEW low, NEW high, NEW t, NEW lim,
           Places(D, S, at, low, high), Linked(D, S, at, low, high, t, lim),
           NEW u \in Trees(D), u.root = t.root, SameParents(D, t, u), SameKids(D, t, u)
    PROVE  Linked(D, S, at, low, high, u, lim)
<1>1. /\ S \subseteq D
      /\ lim \in Limits(D) /\ Rooted(t, S, lim, low, high)
      /\ \A j \in S : Hung(t, S, j) /\ Inside(at, lim, j) /\ \A s \in Sides : Below(t, S, at, lim, j, s)
  BY DEF Places, Linked
<1>2. \A j \in S : Par(u, j) = Par(t, j) /\ \A s \in Sides : Kid(u, j, s) = Kid(t, j, s)
  BY <1>1 DEF SameParents, SameKids
<1>3. Rooted(u, S, lim, low, high)
  BY <1>1, <1>2 DEF Rooted
<1>4. ASSUME NEW j \in S
      PROVE  Hung(u, S, j) /\ \A s \in Sides : Below(u, S, at, lim, j, s)
  <2>1. Hung(t, S, j) /\ \A s \in Sides : Below(t, S, at, lim, j, s)
    BY <1>1
  <2>2. Hung(u, S, j)
    BY <1>2, <2>1 DEF Hung
  <2>3. ASSUME NEW s \in Sides PROVE Below(u, S, at, lim, j, s)
    <3>1. Below(t, S, at, lim, j, s) /\ Kid(u, j, s) = Kid(t, j, s)
      BY <1>2, <2>1
    <3>. QED
      BY <1>2, <3>1 DEF Below
  <2>. QED
    BY <2>2, <2>3
<1>. QED
  BY <1>1, <1>3, <1>4 DEF Linked

\* So is a rotation, followed by changes of balances.
LEMMA RotatedSame ==
    ASSUME NEW D, NEW t, NEW u, NEW v, NEW i, NEW heavy, Rotated(D, t, u, i, heavy),
           v.root = u.root, SameParents(D, u, v), SameKids(D, u, v)
    PROVE  Rotated(D, t, v, i, heavy)
BY DEF Rotated, SameParents, SameKids

\* No levels missing is the same at any slot.
LEMMA NoHole ==
    ASSUME NEW D, NEW S, NEW t, NEW h, NEW p, NEW side, NEW d, NEW e, -1 \notin S,
           Weighed(D, S, t, h, p, side, 0) \/ Weighed(D, S, t, h, -1, side, d),
           \A j \in S, s \in Sides : Kid(t, j, s) \in S \cup {-1}, S \subseteq D
    PROVE  Weighed(D, S, t, h, -1, side, e) /\ Weighed(D, S, t, h, p, side, 0)
<1>1. h \in Heights(D)
  BY DEF Weighed
<1>2. \A j \in S, s \in Sides : Level(t, h, j, s) \in Nat
  BY <1>1 DEF Heights, Level
<1>3. \A j \in S, s \in Sides :
        /\ Counted(t, h, p, side, 0, j, s) = Level(t, h, j, s)
        /\ Counted(t, h, -1, side, d, j, s) = Level(t, h, j, s)
        /\ Counted(t, h, -1, side, e, j, s) = Level(t, h, j, s)
  BY <1>2 DEF Counted
<1>4. \A j \in S, s \in Sides :
        Stands(Bal(t, j), h[j], s, Level(t, h, j, s), Level(t, h, j, 1 - s))
  <2>. SUFFICES ASSUME NEW j \in S, NEW s \in Sides
                PROVE  Stands(Bal(t, j), h[j], s, Level(t, h, j, s), Level(t, h, j, 1 - s))
    OBVIOUS
  <2>1. 1 - s \in Sides
    BY SidesAre
  <2>2. CASE Weighed(D, S, t, h, p, side, 0)
    <3>1. Stands(Bal(t, j), h[j], s, Counted(t, h, p, side, 0, j, s), Counted(t, h, p, side, 0, j, 1 - s))
      BY <2>2, Zenon DEF Weighed
    <3>. QED
      BY <1>3, <2>1, <3>1
  <2>3. CASE Weighed(D, S, t, h, -1, side, d)
    <3>1. Stands(Bal(t, j), h[j], s, Counted(t, h, -1, side, d, j, s), Counted(t, h, -1, side, d, j, 1 - s))
      BY <2>3, Zenon DEF Weighed
    <3>. QED
      BY <1>3, <2>1, <3>1
  <2>. QED
    BY <2>2, <2>3
<1>5. ASSUME NEW j \in S, NEW s \in Sides
      PROVE  /\ Stands(Bal(t, j), h[j], s, Counted(t, h, p, side, 0, j, s), Counted(t, h, p, side, 0, j, 1 - s))
             /\ Stands(Bal(t, j), h[j], s, Counted(t, h, -1, side, e, j, s), Counted(t, h, -1, side, e, j, 1 - s))
  BY <1>3, <1>4, SidesAre
<1>. QED
  BY <1>1, <1>5, Zenon DEF Weighed

\* The slot c has the place of w in u, and the subtree there e levels more than
\* the balances above it count.
Replaced(D, S, at, low, high, t, lim, w, u, c, e) ==
    \E new, n :
       /\ Linked(D, S, at, low, high, u, new)
       /\ \A s \in Sides : Par(t, w) # -1 => new[Par(t, w)][s] = lim[Par(t, w)][s]
       /\ Weighed(D, S, u, n, Par(t, w), SideOf(t, Par(t, w), w), e)
       /\ SameStates(D, t, u)
       /\ Par(u, c) = Par(t, w) /\ c \in S
       /\ Par(t, w) # -1 => SideOf(u, Par(t, w), c) = SideOf(t, Par(t, w), w)
       /\ e = 1 => Bal(u, c) # 0

\* A slot in the place of another is on its side.
LEMMA Placed ==
    ASSUME NEW D, NEW S, NEW at, NEW low, NEW high, NEW t, NEW lim,
           Places(D, S, at, low, high), Linked(D, S, at, low, high, t, lim), NEW w \in S,
           NEW u, NEW new, Linked(D, S, at, low, high, u, new), NEW c \in S,
           Par(u, c) = Par(t, w),
           Par(t, w) # -1 => Kid(u, Par(t, w), SideOf(t, Par(t, w), w)) = c
    PROVE  Par(t, w) # -1 => SideOf(u, Par(t, w), c) = SideOf(t, Par(t, w), w)
<1>. SUFFICES ASSUME Par(t, w) # -1
              PROVE  SideOf(u, Par(t, w), c) = SideOf(t, Par(t, w), w)
  OBVIOUS
<1>1. SideOf(t, Par(t, w), w) \in Sides
  BY AboveIs
<1>. QED
  BY <1>1, AboveIs

\* A balance is set.
LEMMA Settled ==
    ASSUME NEW D, NEW S, NEW at, NEW low, NEW high, NEW t, NEW lim,
           Places(D, S, at, low, high), Linked(D, S, at, low, high, t, lim), NEW w \in S,
           NEW h, NEW side \in Sides, NEW d, Weighed(D, S, t, h, w, side, d),
           NEW b \in Int, NEW a \in Nat, NEW e \in Int, h[w] = a - e,
           Stands(b, a, side, Level(t, h, w, side), Level(t, h, w, 1 - side)), e = 1 => b # 0
    PROVE  Replaced(D, S, at, low, high, t, lim, w, SetBalance(t, w, b), w, e)
<1>. DEFINE u == SetBalance(t, w, b)
            n == [h EXCEPT ![w] = a]
            p == Par(t, w)
            ps == SideOf(t, p, w)
<1>1. \A j \in S : j \in D /\ j # -1
  BY ValuesAre
<1>2. /\ u \in Trees(D) /\ u.root = t.root /\ BalanceSet(D, t, u, w, b)
      /\ SameParents(D, t, u) /\ SameKids(D, t, u) /\ SameStates(D, t, u)
  <2>1. t \in Trees(D) /\ w \in D
    BY <1>1 DEF Linked
  <2>. QED
    BY <2>1, BalanceIs, Zenon
<1>. HIDE DEF u
<1>3. Linked(D, S, at, low, high, u, lim)
  BY <1>2, SameLinks
<1>4. h \in Heights(D)
  BY DEF Weighed
<1>5. n \in Heights(D) /\ n[w] = a /\ \A j \in D \ {w} : n[j] = h[j]
  BY <1>1, <1>4 DEF Heights
<1>6. p # -1 => p \in S /\ ps \in Sides /\ p # w /\ Kid(t, p, ps) = w
  BY AboveIs
<1>. HIDE DEF n, p, ps
<1>7. \A j \in S : /\ Bal(u, j) = IF j = w THEN b ELSE Bal(t, j)
                   /\ Par(u, j) = Par(t, j) /\ \A s \in Sides : Kid(u, j, s) = Kid(t, j, s)
  BY <1>1, <1>2 DEF BalanceSet, SameParents, SameKids
<1>8. \A j \in S, s \in Sides : Kid(t, j, s) \in S \cup {-1} /\ Kid(t, j, s) # j
                                /\ (Kid(t, j, s) # -1 => Par(t, Kid(t, j, s)) = j)
  BY KidsAre
<1>9. \A j \in S : h[j] \in Nat /\ n[j] \in Nat
  BY <1>1, <1>4, <1>5 DEF Heights
<1>10. ASSUME NEW j \in S \ {w}, NEW s \in Sides
       PROVE  Counted(u, n, p, ps, e, j, s) = Counted(t, h, w, side, d, j, s)
  <2>. DEFINE k == Kid(t, j, s)
  <2>1. k \in S \cup {-1} /\ Kid(u, j, s) = k /\ (k # -1 => Par(t, k) = j)
    BY <1>7, <1>8
  <2>2. CASE j = p /\ s = ps
    <3>1. k = w
      BY <1>1, <1>6, <2>2
    <3>2. Counted(u, n, p, ps, e, j, s) = a - e
      BY <1>1, <1>5, <2>1, <2>2, <3>1 DEF Counted, Level
    <3>3. Counted(t, h, w, side, d, j, s) = h[w] - 0
      BY <1>1, <2>2, <3>1 DEF Counted, Level
    <3>4. h[w] - 0 = h[w]
      BY <1>9
    <3>. QED
      BY <3>2, <3>3, <3>4
  <2>3. CASE ~ (j = p /\ s = ps)
    <3>1. k # w
      <4>. SUFFICES ASSUME k = w PROVE FALSE
        OBVIOUS
      <4>1. p = j
        BY <1>1, <2>1 DEF p
      <4>2. s = ps
        BY <1>1, <4>1, AboveIs DEF ps, p
      <4>. QED
        BY <2>3, <4>1, <4>2
    <3>2. k # -1 => n[k] = h[k]
      BY <1>1, <1>5, <2>1, <3>1
    <3>3. Level(u, n, j, s) = Level(t, h, j, s)
      BY <2>1, <3>2 DEF Level
    <3>. QED
      BY <2>3, <3>3 DEF Counted
  <2>. QED
    BY <2>2, <2>3
<1>11. ASSUME NEW s \in Sides
       PROVE  Counted(u, n, p, ps, e, w, s) = Level(t, h, w, s)
  <2>1. Kid(u, w, s) = Kid(t, w, s) /\ Kid(t, w, s) \in S \cup {-1} /\ Kid(t, w, s) # w
    BY <1>7, <1>8
  <2>2. Level(u, n, w, s) = Level(t, h, w, s) /\ Level(t, h, w, s) \in Nat
    BY <1>1, <1>5, <1>9, <2>1 DEF Level
  <2>. QED
    BY <1>1, <1>6, <2>2 DEF Counted
<1>12. Stands(Bal(u, w), n[w], side, Counted(u, n, p, ps, e, w, side), Counted(u, n, p, ps, e, w, 1 - side))
  BY <1>5, <1>7, <1>11, <1>1, SidesAre
<1>13. Weighed(D, S, u, n, p, ps, e)
  <2>1. Reweighs(S, t, h, w, side, d, u, n, p, ps, e, {w})
    <3>1. \A j \in S \ {w} : Bal(u, j) = Bal(t, j) /\ n[j] = h[j]
      BY <1>1, <1>5, <1>7
    <3>2. \A j \in {w} : \E s \in Sides :
             Stands(Bal(u, j), n[j], s, Counted(u, n, p, ps, e, j, s), Counted(u, n, p, ps, e, j, 1 - s))
      BY <1>12
    <3>. QED
      BY <1>10, <3>1, <3>2, Zenon DEF Reweighs
  <2>2. n \in Heights(D)
    BY <1>5
  <2>. QED
    BY <2>1, <2>2, Reweighed, Zenon
<1>14. Par(u, w) = p /\ (p # -1 => SideOf(u, p, w) = ps)
  <2>1. Par(u, w) = p
    BY <1>7 DEF p
  <2>2. p # -1 => Kid(u, p, ps) = w
    BY <1>6, <1>7
  <2>. QED
    BY <1>3, <2>1, <2>2, Placed DEF p, ps
<1>15. e = 1 => Bal(u, w) # 0
  BY <1>7
<1>16. /\ Linked(D, S, at, low, high, u, lim)
       /\ \A s \in Sides : p # -1 => lim[p][s] = lim[p][s]
       /\ Weighed(D, S, u, n, p, ps, e)
       /\ SameStates(D, t, u) /\ Par(u, w) = p /\ w \in S
       /\ p # -1 => SideOf(u, p, w) = ps
       /\ e = 1 => Bal(u, w) # 0
  BY <1>2, <1>3, <1>13, <1>14, <1>15
<1>. QED
  BY <1>16, Zenon DEF Replaced, u, p, ps

\* A single rotation, and the balances set after it.
LEMMA Once ==
    ASSUME NEW D, NEW S, NEW at, NEW low, NEW high, NEW t, NEW lim,
           Places(D, S, at, low, high), Linked(D, S, at, low, high, t, lim), NEW w \in S,
           NEW h, NEW side, NEW d, Weighed(D, S, t, h, w, side, d),
           NEW heavy \in Sides, NEW c, c = Kid(t, w, heavy), c # -1,
           NEW light, light = 1 - heavy,
           NEW bw \in Int, NEW bc \in Int, NEW a \in Nat, NEW b \in Nat, NEW e \in Int, h[w] = b - e,
           Stands(bw, a, heavy, Level(t, h, c, light), Level(t, h, w, light)),
           Stands(bc, b, heavy, Level(t, h, c, heavy), a), e = 1 => bc # 0
    PROVE  Replaced(D, S, at, low, high, t, lim, w,
                    SetBalance(SetBalance(SingleRotate(t, w, heavy), w, bw), c, bc), c, e)
<1>. DEFINE r == SingleRotate(t, w, heavy)
            v == SetBalance(r, w, bw)
            u == SetBalance(v, c, bc)
            n == [h EXCEPT ![w] = a, ![c] = b]
            p == Par(t, w)
            ps == SideOf(t, p, w)
<1>1. \A j \in S : j \in D /\ j # -1
  BY ValuesAre
<1>2. c \in S /\ c # w /\ Rotates(D, t, w, heavy)
  BY KidsAre, RotatesIs
<1>3. r \in Trees(D) /\ Rotated(D, t, r, w, heavy) /\ SameBalances(D, t, r) /\ SameStates(D, t, r)
  <2>1. D \subseteq Nat /\ t \in Trees(D)
    BY DEF Places, Linked
  <2>. QED
    BY <1>2, <2>1, SingleRotateIs
<1>. HIDE DEF r
<1>4. /\ v \in Trees(D) /\ v.root = r.root /\ BalanceSet(D, r, v, w, bw)
      /\ SameParents(D, r, v) /\ SameKids(D, r, v) /\ SameStates(D, r, v)
  BY <1>1, <1>3, BalanceIs, Zenon
<1>. HIDE DEF v
<1>5. /\ u \in Trees(D) /\ u.root = v.root /\ BalanceSet(D, v, u, c, bc)
      /\ SameParents(D, v, u) /\ SameKids(D, v, u) /\ SameStates(D, v, u)
  BY <1>1, <1>2, <1>4, BalanceIs, Zenon
<1>. HIDE DEF u
<1>6. SameStates(D, t, u)
  BY <1>3, <1>4, <1>5 DEF SameStates
<1>7. Rotated(D, t, u, w, heavy)
  <2>1. u.root = r.root
    BY <1>4, <1>5
  <2>2. SameParents(D, r, u) /\ SameKids(D, r, u)
    BY <1>4, <1>5 DEF SameParents, SameKids
  <2>. QED
    BY <1>3, <2>1, <2>2, RotatedSame, Zenon
<1>8. \A j \in D : Bal(u, j) = IF j = c THEN bc ELSE IF j = w THEN bw ELSE Bal(t, j)
  BY <1>3, <1>4, <1>5 DEF BalanceSet, SameBalances
<1>9. PICK new : Linked(D, S, at, low, high, u, new) /\ SameLimits(S \ {w, c}, lim, new)
  BY <1>5, <1>7, SingleLinks
<1>10. Weighed(D, S, u, n, p, ps, e)
  <2>1. \A j \in S \ {w, c} : Bal(u, j) = Bal(t, j)
    BY <1>1, <1>8
  <2>2. Bal(u, w) = bw /\ Bal(u, c) = bc
    BY <1>1, <1>2, <1>8
  <2>. QED
    BY <1>7, <2>1, <2>2, SingleWeighs
<1>11. p # -1 => p \in S /\ ps \in Sides /\ p # w /\ p # c
  <2>1. p # -1 => p \in S /\ ps \in Sides /\ p # w
    BY AboveIs
  <2>2. p # c
    BY <1>2, Zenon DEF Rotates
  <2>. QED
    BY <2>1, <2>2
<1>12. Par(u, c) = p /\ (p # -1 => Kid(u, p, ps) = c)
  <2>1. /\ \A j \in D : Par(u, j) = IF j = c THEN p ELSE IF j = w THEN c
                                    ELSE IF j = Kid(t, c, light) THEN w ELSE Par(t, j)
        /\ \A j \in D, s \in Sides :
             Kid(u, j, s) = IF j = w /\ s = heavy THEN Kid(t, c, light)
                            ELSE IF j = c /\ s = light THEN w
                            ELSE IF j = p /\ s = ps THEN c ELSE Kid(t, j, s)
    BY <1>7, RotatedIs
  <2>. QED
    BY <1>1, <1>2, <1>11, <2>1
<1>13. p # -1 => SideOf(u, p, c) = ps
  BY <1>2, <1>9, <1>12, Placed DEF p, ps
<1>14. \A s \in Sides : p # -1 => new[p][s] = lim[p][s]
  BY <1>9, <1>11 DEF SameLimits
<1>15. e = 1 => Bal(u, c) # 0
  BY <1>1, <1>2, <1>8
<1>. HIDE DEF n, p, ps
<1>16. /\ Linked(D, S, at, low, high, u, new)
       /\ \A s \in Sides : p # -1 => new[p][s] = lim[p][s]
       /\ Weighed(D, S, u, n, p, ps, e)
       /\ SameStates(D, t, u) /\ Par(u, c) = p /\ c \in S
       /\ p # -1 => SideOf(u, p, c) = ps
       /\ e = 1 => Bal(u, c) # 0
  BY <1>2, <1>6, <1>9, <1>10, <1>12, <1>13, <1>14, <1>15, Zenon
<1>. QED
  BY <1>16, Zenon DEF Replaced, u, v, r, p, ps

\* A double rotation, with the balances it sets.
LEMMA Twice ==
    ASSUME NEW D, NEW S, NEW at, NEW low, NEW high, NEW t, NEW lim,
           Places(D, S, at, low, high), Linked(D, S, at, low, high, t, lim), NEW w \in S,
           NEW h, NEW side, NEW d, Weighed(D, S, t, h, w, side, d),
           NEW heavy \in Sides, NEW c, c = Kid(t, w, heavy), c # -1,
           NEW light, light = 1 - heavy, NEW g, g = Kid(t, c, light), g # -1,
           NEW a \in Nat, NEW b \in Nat, NEW m \in Nat, NEW e \in Int, e # 1, h[w] = m - e,
           Stands(IF Bal(t, g) = Weight(heavy) THEN -Bal(t, g) ELSE 0, a,
                  heavy, Level(t, h, g, light), Level(t, h, w, light)),
           Stands(IF Bal(t, g) = -Weight(heavy) THEN -Bal(t, g) ELSE 0, b,
                  heavy, Level(t, h, c, heavy), Level(t, h, g, heavy)),
           Stands(0, m, heavy, b, a)
    PROVE  /\ Replaced(D, S, at, low, high, t, lim, w, DoubleRotate(t, w, heavy), g, e)
           /\ Bal(DoubleRotate(t, w, heavy), g) = 0
<1>. DEFINE u == DoubleRotate(t, w, heavy)
            n == [h EXCEPT ![w] = a, ![c] = b, ![g] = m]
            p == Par(t, w)
            ps == SideOf(t, p, w)
<1>1. \A j \in S : j \in D /\ j # -1
  BY ValuesAre
<1>2. c \in S /\ g \in S /\ DoubleRotates(D, t, w, heavy)
  BY DoubleRotatesIs
<1>22. w # c /\ g # c /\ g # w /\ p # w /\ p # c /\ p # g
  BY <1>2, Zenon DEF DoubleRotates
<1>3. u \in Trees(D) /\ Doubled(D, t, u, w, heavy) /\ Righted(D, t, u, w, heavy) /\ SameStates(D, t, u)
  <2>1. D \subseteq Nat /\ t \in Trees(D)
    BY DEF Places, Linked
  <2>. QED
    BY <1>2, <2>1, DoubleRotateIs
<1>. HIDE DEF u
<1>8. \A j \in D : Bal(u, j) = IF j = c THEN (IF Bal(t, g) = -Weight(heavy) THEN -Bal(t, g) ELSE 0)
                    ELSE IF j = w THEN (IF Bal(t, g) = Weight(heavy) THEN -Bal(t, g) ELSE 0)
                    ELSE IF j = g THEN 0 ELSE Bal(t, j)
  BY <1>3 DEF Righted
<1>9. PICK new : Linked(D, S, at, low, high, u, new) /\ SameLimits(S \ {w, c, g}, lim, new)
  BY <1>3, DoubleLinks
<1>77. Bal(u, g) = 0
  BY <1>1, <1>2, <1>22, <1>8
<1>10. Weighed(D, S, u, n, p, ps, e)
  <2>1. \A j \in S \ {w, c, g} : Bal(u, j) = Bal(t, j)
    BY <1>1, <1>8
  <2>2. /\ Bal(u, w) = IF Bal(t, g) = Weight(heavy) THEN -Bal(t, g) ELSE 0
        /\ Bal(u, c) = IF Bal(t, g) = -Weight(heavy) THEN -Bal(t, g) ELSE 0
    BY <1>1, <1>2, <1>22, <1>8
  <2>3. /\ Stands(Bal(u, w), a, heavy, Level(t, h, g, light), Level(t, h, w, light))
        /\ Stands(Bal(u, c), b, heavy, Level(t, h, c, heavy), Level(t, h, g, heavy))
        /\ Stands(Bal(u, g), m, heavy, b, a)
    BY <1>77, <2>2
  <2>. QED
    BY <1>3, <2>1, <2>3, DoubleWeighs
<1>11. p # -1 => p \in S /\ ps \in Sides
  BY AboveIs
<1>12. Par(u, g) = p /\ (p # -1 => Kid(u, p, ps) = g)
  <2>1. /\ \A j \in D : Par(u, j) = IF j = g THEN p ELSE IF j \in {w, c} THEN g
                                       ELSE IF j = Kid(t, g, heavy) THEN c
                                       ELSE IF j = Kid(t, g, light) THEN w ELSE Par(t, j)
        /\ \A j \in D, s \in Sides :
                 Kid(u, j, s) = IF j = w /\ s = heavy THEN Kid(t, g, light)
                                ELSE IF j = c /\ s = light THEN Kid(t, g, heavy)
                                ELSE IF j = g THEN (IF s = heavy THEN c ELSE w)
                                ELSE IF j = p /\ s = ps THEN g ELSE Kid(t, j, s)
    BY <1>3, DoubledIs
  <2>. QED
    BY <1>1, <1>2, <1>22, <1>11, <2>1
<1>13. p # -1 => SideOf(u, p, g) = ps
  BY <1>2, <1>9, <1>12, Placed DEF p, ps
<1>14. \A s \in Sides : p # -1 => new[p][s] = lim[p][s]
  BY <1>9, <1>11, <1>22 DEF SameLimits
<1>. HIDE DEF n, p, ps
<1>16. /\ Linked(D, S, at, low, high, u, new)
       /\ \A s \in Sides : p # -1 => new[p][s] = lim[p][s]
       /\ Weighed(D, S, u, n, p, ps, e)
       /\ SameStates(D, t, u) /\ Par(u, g) = p /\ g \in S
       /\ p # -1 => SideOf(u, p, g) = ps
       /\ e = 1 => Bal(u, g) # 0
  BY <1>2, <1>3, <1>9, <1>10, <1>12, <1>13, <1>14, Zenon
<1>. QED
  BY <1>16, <1>77, Zenon DEF Replaced, u, p, ps

----------------------------------------------------------------------------
(* The turns of the two loops *)

\* A side has grown where the slot was even: it leans there, and has grown too.
LEMMA GrowsEven ==
    ASSUME NEW s \in Sides, NEW x \in Nat, NEW y, NEW n, Stands(0, n, s, x - 1, y)
    PROVE  Stands(Weight(s), x + 1, s, x, y) /\ n = x
<1>1. CASE s = 0
  BY <1>1 DEF Stands, Higher, Weight
<1>2. CASE s = 1
  BY <1>2 DEF Stands, Higher, Weight
<1>. QED
  BY <1>1, <1>2 DEF Sides

\* It was light there: it is even now.
LEMMA GrowsLight ==
    ASSUME NEW s \in Sides, NEW x \in Nat, NEW y, NEW n, Stands(-Weight(s), n, s, x - 1, y)
    PROVE  Stands(0, x + 1, s, x, y) /\ n = x + 1
<1>1. CASE s = 0
  BY <1>1 DEF Stands, Higher, Weight
<1>2. CASE s = 1
  BY <1>2 DEF Stands, Higher, Weight
<1>. QED
  BY <1>1, <1>2 DEF Sides

\* It was heavy there: now by two levels.
LEMMA GrowsHeavy ==
    ASSUME NEW s \in Sides, NEW x \in Nat, NEW y, NEW n, Stands(Weight(s), n, s, x - 1, y)
    PROVE  y \in Nat /\ x = y + 2 /\ n = x
<1>1. CASE s = 0
  BY <1>1 DEF Stands, Higher, Weight
<1>2. CASE s = 1
  BY <1>2 DEF Stands, Higher, Weight
<1>. QED
  BY <1>1, <1>2 DEF Sides

\* Its child is heavy on the same side: one rotation.
LEMMA GrowsOnce ==
    ASSUME NEW s \in Sides, NEW y \in Nat, NEW k, NEW l, Stands(Weight(s), y + 2, s, k, l)
    PROVE  Stands(0, y + 1, s, l, y) /\ Stands(0, y + 2, s, k, y + 1)
<1>1. CASE s = 0
  BY <1>1 DEF Stands, Higher, Weight
<1>2. CASE s = 1
  BY <1>2 DEF Stands, Higher, Weight
<1>. QED
  BY <1>1, <1>2 DEF Sides

\* Its child is heavy on the other side: two rotations.
LEMMA GrowsTwice ==
    ASSUME NEW s \in Sides, NEW y \in Nat, NEW b, b # 0, b # Weight(s), NEW k, NEW l, Stands(b, y + 2, s, k, l)
    PROVE  l = y + 1 /\ k = y
<1>1. CASE s = 0
  BY <1>1 DEF Stands, Higher, Weight
<1>2. CASE s = 1
  BY <1>2 DEF Stands, Higher, Weight
<1>. QED
  BY <1>1, <1>2 DEF Sides

\* The balances a double rotation sets are right.
LEMMA Righting ==
    ASSUME NEW s \in Sides, NEW y \in Nat, NEW lean, NEW k, NEW l, Stands(lean, y + 1, s, k, l)
    PROVE  /\ Stands(IF lean = Weight(s) THEN -lean ELSE 0, y + 1, s, l, y)
           /\ Stands(IF lean = -Weight(s) THEN -lean ELSE 0, y + 1, s, y, k)
           /\ Stands(0, y + 2, s, y + 1, y + 1)
<1>1. CASE s = 0
  BY <1>1 DEF Stands, Higher, Weight
<1>2. CASE s = 1
  BY <1>2 DEF Stands, Higher, Weight
<1>. QED
  BY <1>1, <1>2 DEF Sides
\* The subtree on a side has grown to one that leans, or is a single slot.
Grown(t, h, w, side) ==
    Kid(t, w, side) # -1 /\ (Bal(t, Kid(t, w, side)) # 0 \/ h[Kid(t, w, side)] = 1)

\* What a turn of a loop is to do to a tree that has e levels more on one
\* side of w than are counted: to leave the loop with all counted, or with the
\* same above w.
Turned(D, S, at, low, high, t, lim, w, e, r) ==
    \E new, n, side :
       /\ Linked(D, S, at, low, high, r.tree, new)
       /\ Weighed(D, S, r.tree, n, r.slot, side, e)
       /\ SameStates(D, t, r.tree)
       /\ r.slot = -1 \/ /\ r.slot = Par(t, w) /\ r.slot \in S /\ side \in Sides
                         /\ r.delta = Weight(side)
                         /\ \A s \in Sides : new[r.slot][s] = lim[r.slot][s]
                         /\ e = 1 => Grown(r.tree, n, r.slot, side)

\* The loop is left with the balances right.
LEMMA DoneTurn ==
    ASSUME NEW D, NEW S, NEW at, NEW low, NEW high, NEW t, NEW lim,
           Places(D, S, at, low, high), NEW w \in S, NEW u, NEW c,
           Replaced(D, S, at, low, high, t, lim, w, u, c, 0), NEW e
    PROVE  Turned(D, S, at, low, high, t, lim, w, e, Done(u))
<1>1. PICK new, n :
         /\ Linked(D, S, at, low, high, u, new)
         /\ Weighed(D, S, u, n, Par(t, w), SideOf(t, Par(t, w), w), 0)
         /\ SameStates(D, t, u)
  BY Zenon DEF Replaced
<1>2. -1 \notin S /\ S \subseteq D
  BY DEF Places
<1>3. \A j \in S, s \in Sides : Kid(u, j, s) \in S \cup {-1}
  BY <1>1, KidsAre
<1>4. Weighed(D, S, u, n, -1, SideOf(t, Par(t, w), w), e)
  BY <1>1, <1>2, <1>3, NoHole
<1>5. Done(u).tree = u /\ Done(u).slot = -1
  BY DEF Done, Turn
<1>. QED
  BY <1>1, <1>4, <1>5, Zenon DEF Turned

\* The loop goes on one slot higher.
LEMMA AboveTurn ==
    ASSUME NEW D, NEW S, NEW at, NEW low, NEW high, NEW t, NEW lim,
           Places(D, S, at, low, high), Linked(D, S, at, low, high, t, lim), NEW w \in S,
           NEW u, NEW c, NEW e, Replaced(D, S, at, low, high, t, lim, w, u, c, e)
    PROVE  Turned(D, S, at, low, high, t, lim, w, e, Above(u, c))
<1>. DEFINE p == Par(t, w)
            ps == SideOf(t, p, w)
<1>1. PICK new, n :
         /\ Linked(D, S, at, low, high, u, new)
         /\ \A s \in Sides : p # -1 => new[p][s] = lim[p][s]
         /\ Weighed(D, S, u, n, p, ps, e)
         /\ SameStates(D, t, u)
         /\ Par(u, c) = p /\ c \in S
         /\ p # -1 => SideOf(u, p, c) = ps
         /\ e = 1 => Bal(u, c) # 0
  BY Zenon DEF Replaced
<1>2. p # -1 => p \in S /\ ps \in Sides
  BY AboveIs
<1>3. p # -1 => Kid(u, p, ps) = c
  BY <1>1, AboveIs
<1>4. /\ Above(u, c).tree = u /\ Above(u, c).slot = p
      /\ Above(u, c).delta = Weight(SideOf(u, p, c))
  BY <1>1 DEF Above, Turn, Par
<1>. HIDE DEF p, ps
<1>5. c # -1
  BY <1>1, ValuesAre
<1>6. p # -1 => (e = 1 => Grown(u, n, p, ps))
  BY <1>1, <1>3, <1>5 DEF Grown
<1>. DEFINE r == Above(u, c)
<1>7. r.slot = -1 \/ /\ r.slot = Par(t, w) /\ r.slot \in S /\ ps \in Sides
                     /\ r.delta = Weight(ps)
                     /\ \A s \in Sides : new[r.slot][s] = lim[r.slot][s]
                     /\ e = 1 => Grown(r.tree, n, r.slot, ps)
  BY <1>1, <1>2, <1>4, <1>6 DEF p
<1>8. /\ Linked(D, S, at, low, high, r.tree, new)
      /\ Weighed(D, S, r.tree, n, r.slot, ps, e)
      /\ SameStates(D, t, r.tree)
  BY <1>1, <1>4
<1>. HIDE DEF r
<1>9. Turned(D, S, at, low, high, t, lim, w, e, r)
  BY <1>7, <1>8, Zenon DEF Turned
<1>. QED
  BY <1>9 DEF r

\* A subtree that has grown.
LEMMA TallerTurn ==
    ASSUME NEW D, NEW S, NEW at, NEW low, NEW high, NEW t, NEW lim,
           Places(D, S, at, low, high), Linked(D, S, at, low, high, t, lim), NEW w \in S,
           NEW h, NEW side \in Sides, Weighed(D, S, t, h, w, side, 1), Grown(t, h, w, side),
           NEW delta, delta = Weight(side)
    PROVE  Turned(D, S, at, low, high, t, lim, w, 1, Taller(t, w, delta))
<1>. DEFINE light == 1 - side
            c == Kid(t, w, side)
            g == Kid(t, c, light)
            x == Level(t, h, w, side)
            y == Level(t, h, w, light)
            b == Bal(t, w) + delta
            heavy == IF b > 0 THEN 1 ELSE 0
            v == SetBalance(t, w, b)
            once == SetBalance(SetBalance(SingleRotate(t, w, heavy), w, 0), Kid(t, w, heavy), 0)
<1>1. light \in Sides /\ light # side /\ side = 1 - light /\ \A r \in Sides : r = side \/ r = light
  BY SidesAre
<1>2. (side = 0 /\ light = 1 /\ delta = -1) \/ (side = 1 /\ light = 0 /\ delta = 1)
  BY DEF Sides, Weight
<1>3. Taller(t, w, delta) =
        IF b = delta THEN Above(v, w)
        ELSE IF b = 0 THEN Done(SetBalance(t, w, 0))
        ELSE IF Bal(t, Kid(t, w, heavy)) = Weight(heavy) THEN Done(once)
        ELSE Done(DoubleRotate(t, w, heavy))
  BY Zenon DEF Taller, Bal, Kid
<1>4. h \in Heights(D) /\ \A j \in S : j \in D /\ j # -1
  BY ValuesAre DEF Weighed
<1>. HIDE DEF light
<1>5. c \in S /\ c # w
  BY KidsAre DEF Grown
<1>6. x = h[c] /\ x \in Nat /\ y \in Nat
  <2>1. Kid(t, w, light) \in S \cup {-1}
    BY <1>1, KidsAre
  <2>. QED
    BY <1>4, <1>5, <2>1 DEF Level, Heights
<1>7. Stands(Bal(t, w), h[w], side, x - 1, y)
  <2>1. Stands(Bal(t, w), h[w], side, Counted(t, h, w, side, 1, w, side), Counted(t, h, w, side, 1, w, light))
    BY Zenon DEF Weighed, light
  <2>2. Counted(t, h, w, side, 1, w, side) = x - 1 /\ Counted(t, h, w, side, 1, w, light) = y
    BY <1>1, <1>6 DEF Counted
  <2>. QED
    BY <2>1, <2>2
<1>8. \A s \in Sides : Counted(t, h, w, side, 1, c, s) = Level(t, h, c, s) - 0
  BY <1>5 DEF Counted
<1>9. Stands(Bal(t, c), h[c], side, Level(t, h, c, side), Level(t, h, c, light))
  <2>1. Stands(Bal(t, c), h[c], side, Counted(t, h, w, side, 1, c, side), Counted(t, h, w, side, 1, c, light))
    BY <1>5, Zenon DEF Weighed, light
  <2>2. Level(t, h, c, side) \in Nat /\ Level(t, h, c, light) \in Nat
    <3>1. Kid(t, c, side) \in S \cup {-1} /\ Kid(t, c, light) \in S \cup {-1}
      BY <1>1, <1>5, KidsAre
    <3>. QED
      BY <1>4, <3>1 DEF Level, Heights
  <2>. QED
    BY <1>1, <1>8, <2>1, <2>2
<1>10. Bal(t, c) # 0 \/ x = 1
  BY <1>6 DEF Grown
<1>12. CASE Bal(t, w) = 0
  <2>1. b = delta /\ b \in Int /\ b # 0
    BY <1>2, <1>12
  <2>2. Stands(b, x + 1, side, x, y) /\ h[w] = (x + 1) - 1
    <3>1. Stands(delta, x + 1, side, x, y) /\ h[w] = x
      BY <1>6, <1>7, <1>12, GrowsEven
    <3>. QED
      BY <1>6, <2>1, <3>1
  <2>3. x + 1 \in Nat /\ 1 \in Int
    BY <1>6
  <2>. HIDE DEF b, x, y
  <2>4. Replaced(D, S, at, low, high, t, lim, w, v, w, 1)
    BY <2>1, <2>2, <2>3, Settled DEF light, x, y
  <2>5. Taller(t, w, delta) = Above(v, w)
    BY <1>3, <2>1
  <2>. QED
    BY <2>4, <2>5, AboveTurn
<1>13. CASE Bal(t, w) = -delta
  <2>1. b = 0 /\ b # delta
    BY <1>2, <1>13
  <2>2. Stands(0, x + 1, side, x, y) /\ h[w] = (x + 1) - 0
    <3>1. Stands(0, x + 1, side, x, y) /\ h[w] = x + 1
      BY <1>6, <1>7, <1>13, GrowsLight
    <3>. QED
      BY <1>6, <3>1
  <2>3. x + 1 \in Nat /\ 0 \in Int
    BY <1>6
  <2>. HIDE DEF x, y
  <2>4. Replaced(D, S, at, low, high, t, lim, w, SetBalance(t, w, 0), w, 0)
    BY <2>2, <2>3, Settled DEF light, x, y
  <2>5. Taller(t, w, delta) = Done(SetBalance(t, w, 0))
    BY <1>3, <2>1
  <2>. QED
    BY <2>4, <2>5, DoneTurn
<1>14. CASE Bal(t, w) = delta
  <2>1. b # delta /\ b # 0 /\ heavy = side
    BY <1>2, <1>14
  <2>2. x = y + 2 /\ h[w] = x
    BY <1>6, <1>7, <1>14, GrowsHeavy
  <2>3. Bal(t, c) # 0
    BY <1>6, <1>10, <2>2
  <2>. HIDE DEF b, heavy
  <2>4. CASE Bal(t, c) = Weight(side)
    <3>1. /\ Stands(0, y + 1, side, Level(t, h, c, light), y)
          /\ Stands(0, y + 2, side, Level(t, h, c, side), y + 1)
      <4>1. Stands(Weight(side), y + 2, side, Level(t, h, c, side), Level(t, h, c, light))
        BY <1>6, <1>9, <2>2, <2>4
      <4>. QED
        BY <1>6, <4>1, GrowsOnce
    <3>2. y + 1 \in Nat /\ y + 2 \in Nat /\ 0 \in Int /\ h[w] = (y + 2) - 0
      BY <1>6, <2>2
    <3>. DEFINE one == SetBalance(SetBalance(SingleRotate(t, w, side), w, 0), c, 0)
    <3>3. Replaced(D, S, at, low, high, t, lim, w, one, c, 0)
      <4>. HIDE DEF c, x
      <4>1. c = Kid(t, w, side) /\ c # -1 /\ light = 1 - side
        BY <1>4, <1>5 DEF c, light
      <4>. QED
        BY <3>1, <3>2, <4>1, Once
    <3>4. Taller(t, w, delta) = Done(one)
      BY <1>3, <2>1, <2>4
    <3>. QED
      BY <3>3, <3>4, DoneTurn
  <2>5. CASE Bal(t, c) # Weight(side)
    <3>. DEFINE lean == Bal(t, g)
                gx == Level(t, h, g, side)
                gy == Level(t, h, g, light)
                bw == IF lean = Weight(side) THEN -lean ELSE 0
                bc == IF lean = -Weight(side) THEN -lean ELSE 0
    <3>1. Level(t, h, c, light) = y + 1 /\ Level(t, h, c, side) = y
      <4>1. Stands(Bal(t, c), y + 2, side, Level(t, h, c, side), Level(t, h, c, light))
        BY <1>6, <1>9, <2>2
      <4>. QED
        BY <1>6, <2>3, <2>5, <4>1, GrowsTwice
    <3>2. g # -1
      BY <1>6, <3>1 DEF Level
    <3>3. g \in S /\ g # w /\ h[g] = y + 1
      <4>1. g \in S
        BY <1>1, <1>5, <3>2, KidsAre
      <4>2. g # w
        BY <1>4, <1>5, <1>1, AboveIs, KidsAre
      <4>. QED
        BY <3>1, <3>2, <4>1, <4>2 DEF Level
    <3>4. Stands(lean, h[g], side, gx, gy)
      <4>1. Stands(lean, h[g], side, Counted(t, h, w, side, 1, g, side), Counted(t, h, w, side, 1, g, light))
        BY <3>3, Zenon DEF Weighed, light
      <4>2. \A s \in Sides : Counted(t, h, w, side, 1, g, s) = Level(t, h, g, s) - 0
        BY <3>3 DEF Counted
      <4>3. gx \in Nat /\ gy \in Nat
        <5>1. Kid(t, g, side) \in S \cup {-1} /\ Kid(t, g, light) \in S \cup {-1}
          BY <1>1, <3>3, KidsAre
        <5>. QED
          BY <1>4, <5>1 DEF Level, Heights
      <4>. QED
        BY <1>1, <4>1, <4>2, <4>3
    <3>5. /\ Stands(bw, y + 1, side, gy, y) /\ Stands(bc, y + 1, side, y, gx)
          /\ Stands(0, y + 2, side, y + 1, y + 1)
      <4>. HIDE DEF lean, gx, gy, y, g
      <4>. QED
        BY <1>6, <3>3, <3>4, Righting
    <3>6. y + 1 \in Nat /\ y + 2 \in Nat /\ 0 \in Int /\ 0 # 1 /\ h[w] = (y + 2) - 0
      BY <1>6, <2>2
    <3>7. Replaced(D, S, at, low, high, t, lim, w, DoubleRotate(t, w, side), g, 0)
      <4>. HIDE DEF c, x, g
      <4>1. c = Kid(t, w, side) /\ c # -1 /\ light = 1 - side /\ g = Kid(t, c, light) /\ g # -1
        BY <1>4, <1>5, <3>2 DEF c, light, g
      <4>. QED
        BY <3>1, <3>5, <3>6, <4>1, Twice
    <3>8. Taller(t, w, delta) = Done(DoubleRotate(t, w, side))
      BY <1>3, <2>1, <2>5
    <3>. QED
      BY <3>7, <3>8, DoneTurn
  <2>. QED
    BY <2>4, <2>5
<1>15. Bal(t, w) \in {0, delta, -delta}
  <2>1. Bal(t, w) \in -1 .. 1
    BY <1>7, OtherSide
  <2>. QED
    BY <1>2, <2>1
<1>. QED
  BY <1>12, <1>13, <1>14, <1>15

\* A side has lost a level where the slot was heavy: it is even now, and lower.
LEMMA ShrinksHeavy ==
    ASSUME NEW s \in Sides, NEW x \in Nat, NEW y, NEW n, Stands(Weight(s), n, s, x + 1, y)
    PROVE  Stands(0, x + 1, s, x, y) /\ n = x + 2
<1>1. CASE s = 0
  BY <1>1 DEF Stands, Higher, Weight
<1>2. CASE s = 1
  BY <1>2 DEF Stands, Higher, Weight
<1>. QED
  BY <1>1, <1>2 DEF Sides

\* It was even: it is light there, and no lower.
LEMMA ShrinksEven ==
    ASSUME NEW s \in Sides, NEW x \in Nat, NEW y, NEW n, Stands(0, n, s, x + 1, y)
    PROVE  Stands(-Weight(s), x + 2, s, x, y) /\ n = x + 2
<1>1. CASE s = 0
  BY <1>1 DEF Stands, Higher, Weight
<1>2. CASE s = 1
  BY <1>2 DEF Stands, Higher, Weight
<1>. QED
  BY <1>1, <1>2 DEF Sides

\* It was light there: now by two levels.
LEMMA ShrinksLight ==
    ASSUME NEW s \in Sides, NEW x \in Nat, NEW y, NEW n, Stands(-Weight(s), n, s, x + 1, y)
    PROVE  y = x + 2 /\ n = x + 3
<1>1. CASE s = 0
  BY <1>1 DEF Stands, Higher, Weight
<1>2. CASE s = 1
  BY <1>2 DEF Stands, Higher, Weight
<1>. QED
  BY <1>1, <1>2 DEF Sides

\* The child on the other side is even: one rotation, and no lower.
LEMMA ShrinksOnce ==
    ASSUME NEW s \in Sides, NEW x \in Nat, NEW k, NEW l, Stands(0, x + 2, s, k, l)
    PROVE  Stands(Weight(s), x + 2, s, l, x) /\ Stands(-Weight(s), x + 3, s, k, x + 2)
<1>1. CASE s = 0
  BY <1>1 DEF Stands, Higher, Weight
<1>2. CASE s = 1
  BY <1>2 DEF Stands, Higher, Weight
<1>. QED
  BY <1>1, <1>2 DEF Sides

\* The child is heavy on its own side: one rotation, and lower.
LEMMA ShrinksOnceMore ==
    ASSUME NEW s \in Sides, NEW x \in Nat, NEW k, NEW l, Stands(Weight(s), x + 2, s, k, l)
    PROVE  Stands(0, x + 1, s, l, x) /\ Stands(0, x + 2, s, k, x + 1)
<1>1. CASE s = 0
  BY <1>1 DEF Stands, Higher, Weight
<1>2. CASE s = 1
  BY <1>2 DEF Stands, Higher, Weight
<1>. QED
  BY <1>1, <1>2 DEF Sides

\* A subtree that has lost a level.
LEMMA ShorterTurn ==
    ASSUME NEW D, NEW S, NEW at, NEW low, NEW high, NEW t, NEW lim,
           Places(D, S, at, low, high), Linked(D, S, at, low, high, t, lim), NEW w \in S,
           NEW h, NEW side \in Sides, Weighed(D, S, t, h, w, side, -1),
           NEW delta, delta = Weight(side)
    PROVE  Turned(D, S, at, low, high, t, lim, w, -1, Shorter(t, w, delta))
<1>. DEFINE other == 1 - side
            c == Kid(t, w, other)
            g == Kid(t, c, side)
            x == Level(t, h, w, side)
            y == Level(t, h, w, other)
            b == Bal(t, w) - delta
            heavy == IF b > 0 THEN 1 ELSE 0
            lean == Bal(t, Kid(t, w, heavy))
            rest == Weight(heavy) - lean
            once == SetBalance(SetBalance(SingleRotate(t, w, heavy), w, rest), Kid(t, w, heavy), -rest)
            twice == DoubleRotate(t, w, heavy)
            below == Kid(t, Kid(t, w, heavy), 1 - heavy)
<1>1. other \in Sides /\ other # side /\ side = 1 - other /\ \A r \in Sides : r = side \/ r = other
  BY SidesAre
<1>2. (side = 0 /\ other = 1 /\ delta = -1) \/ (side = 1 /\ other = 0 /\ delta = 1)
  BY DEF Sides, Weight
<1>3. Shorter(t, w, delta) =
        IF b = 0 THEN Above(SetBalance(t, w, 0), w)
        ELSE IF b \in {-1, 1} THEN Done(SetBalance(t, w, b))
        ELSE IF lean \in {0, Weight(heavy)}
               THEN IF lean = 0 THEN Done(once) ELSE Above(once, Kid(t, w, heavy))
        ELSE IF Bal(twice, below) # 0 THEN Done(twice) ELSE Above(twice, below)
  BY Zenon DEF Shorter, Risen, RisenTwice, Bal, Kid
<1>4. h \in Heights(D) /\ \A j \in S : j \in D /\ j # -1
  BY ValuesAre DEF Weighed
<1>. HIDE DEF other
<1>5. \A j \in S, s \in Sides : Kid(t, j, s) \in S \cup {-1} /\ Level(t, h, j, s) \in Nat
  <2>. SUFFICES ASSUME NEW j \in S, NEW s \in Sides
                PROVE  Kid(t, j, s) \in S \cup {-1} /\ Level(t, h, j, s) \in Nat
    OBVIOUS
  <2>1. Kid(t, j, s) \in S \cup {-1}
    BY KidsAre
  <2>. QED
    BY <1>4, <2>1 DEF Level, Heights
<1>6. x \in Nat /\ y \in Nat
  BY <1>1, <1>5
<1>7. Stands(Bal(t, w), h[w], side, x + 1, y)
  <2>1. Stands(Bal(t, w), h[w], side, Counted(t, h, w, side, -1, w, side), Counted(t, h, w, side, -1, w, other))
    BY Zenon DEF Weighed, other
  <2>2. Counted(t, h, w, side, -1, w, side) = x + 1 /\ Counted(t, h, w, side, -1, w, other) = y
    BY <1>1, <1>6 DEF Counted
  <2>. QED
    BY <2>1, <2>2
<1>8. \A j \in S \ {w} : Stands(Bal(t, j), h[j], other, Level(t, h, j, other), Level(t, h, j, side))
  <2>. SUFFICES ASSUME NEW j \in S \ {w}
                PROVE  Stands(Bal(t, j), h[j], other, Level(t, h, j, other), Level(t, h, j, side))
    OBVIOUS
  <2>1. Stands(Bal(t, j), h[j], side, Counted(t, h, w, side, -1, j, side), Counted(t, h, w, side, -1, j, other))
    BY Zenon DEF Weighed, other
  <2>2. \A s \in Sides : Counted(t, h, w, side, -1, j, s) = Level(t, h, j, s)
    BY <1>5 DEF Counted
  <2>. QED
    BY <1>1, <2>1, <2>2, OtherSide DEF other
<1>12. CASE Bal(t, w) = delta
  <2>1. b = 0
    BY <1>2, <1>12
  <2>2. Stands(0, x + 1, side, x, y) /\ h[w] = (x + 1) - (-1)
    <3>1. Stands(0, x + 1, side, x, y) /\ h[w] = x + 2
      BY <1>6, <1>7, <1>12, ShrinksHeavy
    <3>. QED
      BY <1>6, <3>1
  <2>3. x + 1 \in Nat /\ 0 \in Int /\ -1 \in Int /\ -1 # 1
    BY <1>6
  <2>. HIDE DEF b, x, y
  <2>4. Replaced(D, S, at, low, high, t, lim, w, SetBalance(t, w, 0), w, -1)
    BY <2>2, <2>3, Settled DEF other, x, y
  <2>5. Shorter(t, w, delta) = Above(SetBalance(t, w, 0), w)
    BY <1>3, <2>1
  <2>. QED
    BY <2>4, <2>5, AboveTurn
<1>13. CASE Bal(t, w) = 0
  <2>1. b # 0 /\ b \in {-1, 1} /\ b \in Int /\ b = -Weight(side)
    BY <1>2, <1>13
  <2>2. Stands(b, x + 2, side, x, y) /\ h[w] = (x + 2) - 0
    <3>1. Stands(-Weight(side), x + 2, side, x, y) /\ h[w] = x + 2
      BY <1>6, <1>7, <1>13, ShrinksEven
    <3>. QED
      BY <1>6, <2>1, <3>1
  <2>3. x + 2 \in Nat /\ 0 \in Int /\ 0 # 1
    BY <1>6
  <2>. HIDE DEF b, x, y
  <2>4. Replaced(D, S, at, low, high, t, lim, w, SetBalance(t, w, b), w, 0)
    BY <2>1, <2>2, <2>3, Settled DEF other, x, y
  <2>5. Shorter(t, w, delta) = Done(SetBalance(t, w, b))
    BY <1>3, <2>1
  <2>. QED
    BY <2>4, <2>5, DoneTurn
<1>14. CASE Bal(t, w) = -delta
  <2>1. b # 0 /\ b \notin {-1, 1} /\ heavy = other
    BY <1>2, <1>14
  <2>2. y = x + 2 /\ h[w] = x + 3
    BY <1>6, <1>7, <1>14, ShrinksLight
  <2>3. c # -1 /\ c \in S /\ c # w /\ h[c] = x + 2
    <3>1. c # -1
      BY <1>6, <2>2 DEF Level
    <3>2. c \in S /\ c # w
      BY <1>1, <3>1, KidsAre
    <3>. QED
      BY <2>2, <3>1, <3>2 DEF Level
  <2>4. lean = Bal(t, c) /\ rest = Weight(other) - Bal(t, c) /\ below = g
    <3>1. 1 - heavy = side
      BY <1>1, <2>1
    <3>. QED
      BY <2>1, <3>1
  <2>. HIDE DEF b, heavy, lean, rest, below
  <2>5. Stands(Bal(t, c), x + 2, other, Level(t, h, c, other), Level(t, h, c, side))
    BY <1>8, <2>3
  <2>66. Bal(t, c) \in Int /\ Weight(other) \in Int
    <3>1. Bal(t, c) \in -1 .. 1
      BY <1>1, <2>5, OtherSide
    <3>. QED
      BY <1>1, <3>1 DEF Weight, Sides
  <2>6. rest \in Int /\ -rest \in Int
    BY <2>4, <2>66
  <2>. DEFINE one == SetBalance(SetBalance(SingleRotate(t, w, other), w, rest), c, -rest)
  <2>7. once = one
    BY <2>1
  <2>8. x + 1 \in Nat /\ x + 2 \in Nat /\ x + 3 \in Nat /\ 0 \in Int /\ 0 # 1 /\ -1 \in Int /\ -1 # 1
        /\ h[w] = (x + 3) - 0 /\ h[w] = (x + 2) - (-1)
    BY <1>6, <2>2
  <2>9. c = Kid(t, w, other) /\ side = 1 - other
    BY <1>1
  <2>10. CASE Bal(t, c) = 0
    <3>1. /\ Stands(rest, x + 2, other, Level(t, h, c, side), y - 2)
          /\ Stands(-rest, x + 3, other, Level(t, h, c, other), x + 2)
      <4>1. /\ Stands(0, x + 2, other, Level(t, h, c, other), Level(t, h, c, side))
            /\ rest = Weight(other) /\ -rest = -Weight(other)
        BY <2>4, <2>5, <2>10, <2>66
      <4>2. y - 2 = x
        BY <1>6, <2>2
      <4>. HIDE DEF x, y
      <4>. QED
        BY <1>1, <1>6, <4>1, <4>2, ShrinksOnce
    <3>2. Level(t, h, w, side) = y - 2
      BY <1>6, <2>2
    <3>3. Replaced(D, S, at, low, high, t, lim, w, one, c, 0)
      <4>. HIDE DEF c, x, y
      <4>. QED
        BY <1>1, <2>3, <2>6, <2>8, <2>9, <3>1, <3>2, Once
    <3>4. Shorter(t, w, delta) = Done(one)
      BY <1>3, <2>1, <2>4, <2>7, <2>10
    <3>. QED
      BY <3>3, <3>4, DoneTurn
  <2>11. CASE Bal(t, c) = Weight(other)
    <3>1. /\ Stands(rest, x + 1, other, Level(t, h, c, side), x)
          /\ Stands(-rest, x + 2, other, Level(t, h, c, other), x + 1)
      <4>1. /\ Stands(Weight(other), x + 2, other, Level(t, h, c, other), Level(t, h, c, side))
            /\ rest = 0 /\ -rest = 0
        BY <2>4, <2>5, <2>11, <2>66
      <4>. HIDE DEF x, y
      <4>. QED
        BY <1>1, <1>6, <4>1, ShrinksOnceMore
    <3>3. Replaced(D, S, at, low, high, t, lim, w, one, c, -1)
      <4>. HIDE DEF c
      <4>. QED
        BY <1>1, <2>3, <2>6, <2>8, <2>9, <3>1, Once
    <3>4. Shorter(t, w, delta) = Above(one, c)
      <4>1. Bal(t, c) # 0
        BY <1>1, <2>11 DEF Weight, Sides
      <4>. QED
        BY <1>3, <2>1, <2>4, <2>7, <2>11, <4>1
    <3>. QED
      BY <3>3, <3>4, AboveTurn
  <2>12. CASE Bal(t, c) # 0 /\ Bal(t, c) # Weight(other)
    <3>. DEFINE gl == Bal(t, g)
                gx == Level(t, h, g, other)
                gy == Level(t, h, g, side)
                bw == IF gl = Weight(other) THEN -gl ELSE 0
                bc == IF gl = -Weight(other) THEN -gl ELSE 0
                two == DoubleRotate(t, w, other)
    <3>1. Level(t, h, c, side) = x + 1 /\ Level(t, h, c, other) = x
      <4>. HIDE DEF x
      <4>. QED
        BY <1>1, <1>6, <2>5, <2>12, GrowsTwice
    <3>2. g # -1
      BY <1>6, <3>1 DEF Level
    <3>3. g \in S /\ g # w /\ h[g] = x + 1
      <4>1. g \in S
        BY <1>1, <2>3, <3>2, KidsAre
      <4>2. g # w
        BY <1>4, <1>1, <2>3, AboveIs, KidsAre
      <4>. QED
        BY <3>1, <3>2, <4>1, <4>2 DEF Level
    <3>4. Stands(gl, x + 1, other, gx, gy)
      BY <1>8, <3>3
    <3>5. /\ Stands(bw, x + 1, other, gy, x) /\ Stands(bc, x + 1, other, x, gx)
          /\ Stands(0, x + 2, other, x + 1, x + 1)
      <4>. HIDE DEF gl, gx, gy, x, g
      <4>. QED
        BY <1>1, <1>6, <3>4, Righting
    <3>7. Replaced(D, S, at, low, high, t, lim, w, two, g, -1) /\ Bal(two, g) = 0
      <4>. HIDE DEF c, g
      <4>1. c # -1 /\ g = Kid(t, c, side) /\ g # -1
        BY <2>3, <3>2 DEF g
      <4>. QED
        BY <1>1, <2>8, <2>9, <3>1, <3>5, <4>1, Twice
    <3>8. Shorter(t, w, delta) = Above(two, g)
      BY <1>3, <2>1, <2>4, <2>12, <3>7
    <3>. QED
      BY <3>7, <3>8, AboveTurn
  <2>. QED
    BY <2>10, <2>11, <2>12
<1>15. Bal(t, w) \in {0, delta, -delta}
  <2>1. Bal(t, w) \in -1 .. 1
    BY <1>7, OtherSide
  <2>. QED
    BY <1>2, <2>1
<1>. QED
  BY <1>12, <1>13, <1>14, <1>15

----------------------------------------------------------------------------
(* The loops *)

\* A set of numbers has a least one.
LEMMA Smallest ==
    ASSUME NEW S \in SUBSET Nat, S # {}
    PROVE  \E k \in S : \A j \in S : k <= j
<1>. DEFINE less == {p \in Nat \X Nat : p[1] < p[2]}
<1>1. IsWellFoundedOn(less, Nat)
  BY NatLessThanWellFounded DEF OpToRel
<1>. HIDE DEF less
<1>2. PICK k \in S : \A j \in S : ~ (<<j, k>> \in less)
  BY <1>1, WFMin
<1>3. \A j \in S : k <= j
  <2>. SUFFICES ASSUME NEW j \in S PROVE k <= j
    OBVIOUS
  <2>1. k \in Nat /\ j \in Nat /\ ~ (<<j, k>> \in less)
    BY <1>2
  <2>2. ~ (j < k)
    BY <2>1 DEF less
  <2>. QED
    BY <2>1, <2>2
<1>. QED
  BY <1>3

\* What holds at first, and from each turn to the next.
LEMMA Counting ==
    ASSUME NEW N \in Nat, NEW good, 0 \in good, \A k \in 0 .. N - 1 : k \in good => k + 1 \in good
    PROVE  \A k \in 0 .. N : k \in good
<1>. DEFINE bad == {k \in 0 .. N : k \notin good}
<1>. SUFFICES ASSUME bad # {} PROVE FALSE
  OBVIOUS
<1>1. bad \in SUBSET Nat
  OBVIOUS
<1>2. PICK k \in bad : \A j \in bad : k <= j
  BY <1>1, Smallest
<1>3. k # 0 /\ k \in 1 .. N /\ k \notin good
  BY <1>2
<1>4. k - 1 \in 0 .. N - 1 /\ k - 1 \notin bad
  BY <1>2, <1>3
<1>5. k - 1 \in good /\ (k - 1) + 1 = k
  BY <1>3, <1>4
<1>. QED
  BY <1>3, <1>4, <1>5

\* A loop, up with e levels more.
Onward(e, r) ==
    IF r.slot < 0 THEN r
    ELSE IF e = 1 THEN Taller(r.tree, r.slot, r.delta) ELSE Shorter(r.tree, r.slot, r.delta)

\* The turns of a loop that starts at w.
Runs(f, e, t, w, delta, n) ==
    f = [k \in 0 .. n |-> IF k = 0 THEN Turn(t, w, delta) ELSE Onward(e, f[k - 1])]

\* There are such turns, as many as wanted.
LEMMA RunsOn ==
    ASSUME NEW e, NEW t, NEW w, NEW delta, NEW N \in Nat
    PROVE  \E f : Runs(f, e, t, w, delta, N)
<1>. DEFINE good == {n \in 0 .. N : \E f : Runs(f, e, t, w, delta, n)}
<1>1. 0 \in good
  <2>. DEFINE f == [k \in 0 .. 0 |-> Turn(t, w, delta)]
  <2>1. f = [k \in 0 .. 0 |-> IF k = 0 THEN Turn(t, w, delta) ELSE Onward(e, f[k - 1])]
    OBVIOUS
  <2>2. Runs(f, e, t, w, delta, 0)
    BY <2>1, Zenon DEF Runs
  <2>. QED
    BY <2>2
<1>2. ASSUME NEW n \in 0 .. N - 1, n \in good
      PROVE  n + 1 \in good
  <2>1. PICK f : f = [k \in 0 .. n |-> IF k = 0 THEN Turn(t, w, delta) ELSE Onward(e, f[k - 1])]
    BY <1>2 DEF Runs
  <2>. DEFINE g == [k \in 0 .. n + 1 |-> IF k = n + 1 THEN Onward(e, f[n]) ELSE f[k]]
              G(k) == IF k = 0 THEN Turn(t, w, delta) ELSE Onward(e, g[k - 1])
  <2>2. ASSUME NEW k \in 0 .. n + 1
        PROVE  g[k] = G(k)
    <3>1. CASE k = n + 1
      <4>1. k - 1 = n /\ k # 0 /\ n \in 0 .. n + 1 /\ n # n + 1
        BY <3>1
      <4>2. g[n] = f[n] /\ g[k] = Onward(e, f[n])
        BY <3>1, <4>1, Zenon
      <4>. QED
        BY <4>1, <4>2, Zenon
    <3>2. CASE k # n + 1
      <4>1. k \in 0 .. n /\ (k # 0 => k - 1 \in 0 .. n + 1 /\ k - 1 # n + 1)
        BY <3>2
      <4>2. g[k] = f[k] /\ (k # 0 => g[k - 1] = f[k - 1])
        BY <3>2, <4>1, Zenon
      <4>3. f[k] = IF k = 0 THEN Turn(t, w, delta) ELSE Onward(e, f[k - 1])
        BY <2>1, <4>1, Zenon
      <4>. QED
        BY <4>2, <4>3, Zenon
    <3>. QED
      BY <3>1, <3>2
  <2>3. g = [k \in 0 .. n + 1 |-> G(k)]
    <3>1. g = [k \in 0 .. n + 1 |-> g[k]]
      BY Zenon
    <3>. HIDE DEF g, G
    <3>. QED
      BY <2>2, <3>1
  <2>4. Runs(g, e, t, w, delta, n + 1)
    BY <2>3, Zenon DEF Runs
  <2>. HIDE DEF g
  <2>. QED
    BY <2>4
<1>. HIDE DEF good
<1>3. N \in good
  BY <1>1, <1>2, Counting
<1>. QED
  BY <1>3 DEF good

\* The loop of avl_insert().
LEMMA RaisedRuns ==
    ASSUME NEW t, NEW w, NEW delta, NEW N \in Nat, N = Cardinality(DOMAIN t.meta)
    PROVE  \E f : Runs(f, 1, t, w, delta, N) /\ Raised(t, w, delta) = f[N].tree
<1>. DEFINE Following(r) == IF r.slot < 0 THEN r ELSE Taller(r.tree, r.slot, r.delta)
            P(g) == g = [k \in 0 .. N |-> IF k = 0 THEN Turn(t, w, delta) ELSE Following(g[k - 1])]
            f == CHOOSE g : P(g)
<1>1. Raised(t, w, delta) = f[N].tree
  BY Zenon DEF Raised
<1>2. \A r : Following(r) = Onward(1, r)
  BY DEF Onward
<1>. HIDE DEF Following
<1>3. \A g : P(g) <=> Runs(g, 1, t, w, delta, N)
  BY <1>2 DEF Runs
<1>4. \E g : P(g)
  BY <1>3, RunsOn
<1>. HIDE DEF P
<1>5. P(f)
  BY <1>4, Zenon
<1>. QED
  BY <1>1, <1>3, <1>5, Zenon

\* The loop of avl_remove().
LEMMA LoweredRuns ==
    ASSUME NEW t, NEW w, NEW delta, NEW N \in Nat, N = Cardinality(DOMAIN t.meta)
    PROVE  \E f : Runs(f, -1, t, w, delta, N) /\ Lowered(t, w, delta) = f[N].tree
<1>. DEFINE Following(r) == IF r.slot < 0 THEN r ELSE Shorter(r.tree, r.slot, r.delta)
            P(g) == g = [k \in 0 .. N |-> IF k = 0 THEN Turn(t, w, delta) ELSE Following(g[k - 1])]
            f == CHOOSE g : P(g)
<1>1. Lowered(t, w, delta) = f[N].tree
  BY Zenon DEF Lowered
<1>2. \A r : Following(r) = Onward(-1, r)
  BY DEF Onward
<1>. HIDE DEF Following
<1>3. \A g : P(g) <=> Runs(g, -1, t, w, delta, N)
  BY <1>2 DEF Runs
<1>4. \E g : P(g)
  BY <1>3, RunsOn
<1>. HIDE DEF P
<1>5. P(f)
  BY <1>4, Zenon
<1>. QED
  BY <1>1, <1>3, <1>5, Zenon

\* The slots within the limits of one.
Span(S, at, lim, w) == {x \in S : lim[w][0] < at[x] /\ at[x] < lim[w][1]}

\* More slots are within the limits of the parent.
LEMMA SpanGrows ==
    ASSUME NEW D, NEW S, NEW at, NEW low, NEW high, NEW t, NEW lim,
           Places(D, S, at, low, high), Linked(D, S, at, low, high, t, lim), IsFiniteSet(D),
           NEW w \in S, NEW p, p = Par(t, w), p # -1
    PROVE  Cardinality(Span(S, at, lim, w)) < Cardinality(Span(S, at, lim, p))
<1>. DEFINE side == SideOf(t, p, w)
            A == Span(S, at, lim, w)
            B == Span(S, at, lim, p)
<1>1. /\ p \in S /\ side \in Sides
      /\ lim[w][side] = lim[p][side] /\ lim[w][1 - side] = at[p]
  BY AboveIs
<1>. HIDE DEF side
<1>2. Inside(at, lim, p) /\ Inside(at, lim, w)
  BY <1>1 DEF Linked
<1>3. /\ \A x \in S : at[x] \in Int
      /\ \A s \in Sides : lim[p][s] \in Int /\ lim[w][s] \in Int
  BY <1>1, ValuesAre
<1>4. (side = 0 /\ 1 - side = 1) \/ (side = 1 /\ 1 - side = 0)
  BY <1>1 DEF Sides
<1>5. A \subseteq B /\ p \in B /\ p \notin A
  BY <1>1, <1>2, <1>3, <1>4 DEF Span, Inside, Sides
<1>6. IsFiniteSet(B)
  <2>1. B \subseteq D
    BY DEF Span, Places
  <2>. QED
    BY <2>1, FS_Subset
<1>. HIDE DEF A, B
<1>7. IsFiniteSet(A) /\ Cardinality(A) <= Cardinality(B) /\ (Cardinality(A) = Cardinality(B) => A = B)
  BY <1>5, <1>6, FS_Subset
<1>8. Cardinality(A) \in Nat /\ Cardinality(B) \in Nat
  BY <1>6, <1>7, FS_CardinalityType
<1>. QED
  BY <1>5, <1>7, <1>8 DEF A, B

\* After k turns.
Carries(D, S, at, low, high, t, e, k, r) ==
    \E new, n, side :
       /\ Linked(D, S, at, low, high, r.tree, new)
       /\ Weighed(D, S, r.tree, n, r.slot, side, e)
       /\ SameStates(D, t, r.tree)
       /\ r.slot = -1 \/ /\ r.slot \in S /\ side \in Sides /\ r.delta = Weight(side)
                         /\ e = 1 => Grown(r.tree, n, r.slot, side)
                         /\ Cardinality(Span(S, at, new, r.slot)) > k

\* Another turn of the loop.
LEMMA Carried ==
    ASSUME NEW D, NEW S, NEW at, NEW low, NEW high, Places(D, S, at, low, high), IsFiniteSet(D),
           NEW t, NEW e \in {-1, 1}, NEW k \in Nat, NEW r,
           Carries(D, S, at, low, high, t, e, k, r)
    PROVE  Carries(D, S, at, low, high, t, e, k + 1, Onward(e, r))
<1>1. PICK new, n, side :
         /\ Linked(D, S, at, low, high, r.tree, new)
         /\ Weighed(D, S, r.tree, n, r.slot, side, e)
         /\ SameStates(D, t, r.tree)
         /\ r.slot = -1 \/ /\ r.slot \in S /\ side \in Sides /\ r.delta = Weight(side)
                           /\ e = 1 => Grown(r.tree, n, r.slot, side)
                           /\ Cardinality(Span(S, at, new, r.slot)) > k
  BY Zenon DEF Carries
<1>2. CASE r.slot = -1
  <2>1. Onward(e, r) = r
    BY <1>2 DEF Onward
  <2>2. Carries(D, S, at, low, high, t, e, k + 1, r)
    BY <1>1, <1>2, Zenon DEF Carries
  <2>. QED
    BY <2>1, <2>2
<1>3. CASE r.slot # -1
  <2>. DEFINE q == Onward(e, r)
              w == r.slot
  <2>0. w \in S /\ w \in Nat
    BY <1>1, <1>3, ValuesAre
  <2>1. Turned(D, S, at, low, high, r.tree, new, w, e, q)
    <3>1. CASE e = 1
      <4>1. q = Taller(r.tree, w, r.delta)
        BY <2>0, <3>1 DEF Onward
      <4>. QED
        BY <1>1, <1>3, <3>1, <4>1, TallerTurn
    <3>2. CASE e = -1
      <4>1. q = Shorter(r.tree, w, r.delta)
        BY <2>0, <3>2 DEF Onward
      <4>. QED
        BY <1>1, <1>3, <3>2, <4>1, ShorterTurn
    <3>. QED
      BY <3>1, <3>2
  <2>. HIDE DEF q
  <2>2. PICK lim, m, ps :
         /\ Linked(D, S, at, low, high, q.tree, lim)
         /\ Weighed(D, S, q.tree, m, q.slot, ps, e)
         /\ SameStates(D, r.tree, q.tree)
         /\ q.slot = -1 \/ /\ q.slot = Par(r.tree, w) /\ q.slot \in S /\ ps \in Sides
                           /\ q.delta = Weight(ps)
                           /\ \A s \in Sides : lim[q.slot][s] = new[q.slot][s]
                           /\ e = 1 => Grown(q.tree, m, q.slot, ps)
    BY <2>1, Zenon DEF Turned
  <2>3. SameStates(D, t, q.tree)
    BY <1>1, <2>2 DEF SameStates
  <2>4. q.slot # -1 => Cardinality(Span(S, at, lim, q.slot)) > k + 1
    <3>. SUFFICES ASSUME q.slot # -1 PROVE Cardinality(Span(S, at, lim, q.slot)) > k + 1
      OBVIOUS
    <3>1. Span(S, at, lim, q.slot) = Span(S, at, new, q.slot)
      BY <2>2 DEF Span, Sides
    <3>2. Cardinality(Span(S, at, new, w)) < Cardinality(Span(S, at, new, q.slot))
      BY <1>1, <2>0, <2>2, SpanGrows
    <3>3. Cardinality(Span(S, at, new, w)) \in Nat /\ Cardinality(Span(S, at, new, q.slot)) \in Nat
      <4>1. Span(S, at, new, w) \subseteq D /\ Span(S, at, new, q.slot) \subseteq D
        BY DEF Span, Places
      <4>. QED
        BY <4>1, FS_Subset, FS_CardinalityType
    <3>4. Cardinality(Span(S, at, new, w)) > k
      BY <1>1, <1>3
    <3>. HIDE DEF w
    <3>. QED
      BY <3>1, <3>2, <3>3, <3>4
  <2>5. Carries(D, S, at, low, high, t, e, k + 1, q)
    BY <2>2, <2>3, <2>4, Zenon DEF Carries
  <2>. QED
    BY <2>5 DEF q
<1>. QED
  BY <1>2, <1>3

\* A tree with its links and balances right.
Whole(D, S, at, low, high, t) ==
    \E lim, h : Linked(D, S, at, low, high, t, lim) /\ Weighed(D, S, t, h, -1, 0, 0)

\* The loop ends in a sound tree, having taken a turn for every slot at most.
LEMMA RunsWhole ==
    ASSUME NEW D, NEW S, NEW at, NEW low, NEW high, Places(D, S, at, low, high), IsFiniteSet(D),
           NEW t, NEW lim, Linked(D, S, at, low, high, t, lim),
           NEW e \in {-1, 1}, NEW w, NEW side, NEW h, Weighed(D, S, t, h, w, side, e), NEW delta,
           w = -1 \/ (w \in S /\ side \in Sides /\ delta = Weight(side) /\ (e = 1 => Grown(t, h, w, side))),
           NEW N, N = Cardinality(D), NEW f, Runs(f, e, t, w, delta, N)
    PROVE  Whole(D, S, at, low, high, f[N].tree) /\ SameStates(D, t, f[N].tree)
<1>0. N \in Nat
  BY FS_CardinalityType
<1>1. /\ f[0] = Turn(t, w, delta)
      /\ \A k \in 0 .. N - 1 : f[k + 1] = Onward(e, f[k])
  <2>1. \A k \in 0 .. N : f[k] = IF k = 0 THEN Turn(t, w, delta) ELSE Onward(e, f[k - 1])
    BY Zenon DEF Runs
  <2>2. \A k \in 0 .. N - 1 : k + 1 \in 0 .. N /\ k + 1 # 0 /\ (k + 1) - 1 = k
    BY <1>0
  <2>3. 0 \in 0 .. N
    BY <1>0
  <2>4. f[0] = Turn(t, w, delta)
    BY <2>1, <2>3, Zenon
  <2>5. ASSUME NEW k \in 0 .. N - 1
        PROVE  f[k + 1] = Onward(e, f[k])
    BY <2>1, <2>2, Zenon
  <2>. QED
    BY <2>4, <2>5
<1>. DEFINE good == {k \in Nat : Carries(D, S, at, low, high, t, e, k, f[k])}
<1>2. 0 \in good
  <2>1. f[0].tree = t /\ f[0].slot = w /\ f[0].delta = delta
    BY <1>1 DEF Turn
  <2>2. SameStates(D, t, t)
    BY DEF SameStates
  <2>3. w # -1 => Cardinality(Span(S, at, lim, w)) > 0
    <3>. SUFFICES ASSUME w # -1 PROVE Cardinality(Span(S, at, lim, w)) > 0
      OBVIOUS
    <3>1. w \in Span(S, at, lim, w)
      BY DEF Span, Linked, Inside
    <3>2. IsFiniteSet(Span(S, at, lim, w))
      <4>1. Span(S, at, lim, w) \subseteq D
        BY DEF Span, Places
      <4>. QED
        BY <4>1, FS_Subset
    <3>. QED
      BY <3>1, <3>2, FS_EmptySet, FS_CardinalityType
  <2>4. Carries(D, S, at, low, high, t, e, 0, f[0])
    <3>1. Linked(D, S, at, low, high, f[0].tree, lim) /\ Weighed(D, S, f[0].tree, h, f[0].slot, side, e)
          /\ SameStates(D, t, f[0].tree)
      BY <2>1, <2>2
    <3>2. f[0].slot = -1 \/ /\ f[0].slot \in S /\ side \in Sides /\ f[0].delta = Weight(side)
                            /\ e = 1 => Grown(f[0].tree, h, f[0].slot, side)
                            /\ Cardinality(Span(S, at, lim, f[0].slot)) > 0
      BY <2>1, <2>3
    <3>. QED
      BY <3>1, <3>2, Zenon DEF Carries
  <2>. QED
    BY <2>4
<1>3. ASSUME NEW k \in 0 .. N - 1, k \in good
      PROVE  k + 1 \in good
  BY <1>1, <1>3, Carried
<1>. HIDE DEF good
<1>4. N \in good
  BY <1>0, <1>2, <1>3, Counting
<1>5. Carries(D, S, at, low, high, t, e, N, f[N])
  BY <1>4 DEF good
<1>. DEFINE r == f[N]
<1>6. PICK new, n, ps :
         /\ Linked(D, S, at, low, high, r.tree, new)
         /\ Weighed(D, S, r.tree, n, r.slot, ps, e)
         /\ SameStates(D, t, r.tree)
         /\ r.slot = -1 \/ (r.slot \in S /\ Cardinality(Span(S, at, new, r.slot)) > N)
  BY <1>5, Zenon DEF Carries
<1>7. r.slot = -1
  <2>1. Span(S, at, new, r.slot) \subseteq D
    BY DEF Span, Places
  <2>2. Cardinality(Span(S, at, new, r.slot)) <= N /\ Cardinality(Span(S, at, new, r.slot)) \in Nat
    BY <2>1, FS_Subset, FS_CardinalityType
  <2>. QED
    BY <1>0, <1>6, <2>2
<1>8. Weighed(D, S, r.tree, n, -1, 0, 0)
  <2>1. -1 \notin S /\ S \subseteq D
    BY DEF Places
  <2>2. \A j \in S, s \in Sides : Kid(r.tree, j, s) \in S \cup {-1}
    BY <1>6, KidsAre
  <2>3. Weighed(D, S, r.tree, n, -1, ps, 0)
    BY <1>6, <1>7, <2>1, <2>2, NoHole
  <2>4. \A j \in S : j # -1
    BY <2>1
  <2>. QED
    BY <2>3, <2>4 DEF Weighed, Counted
<1>. HIDE DEF r
<1>9. Whole(D, S, at, low, high, r.tree)
  BY <1>6, <1>8, Zenon DEF Whole
<1>. QED
  BY <1>6, <1>9 DEF r

----------------------------------------------------------------------------
(* Walks in the tree, and insertion *)

\* How many slots there are in a subtree.
Rank(S, at, lim, j) == Cardinality(Span(S, at, lim, j))

\* It is a number of slots.
LEMMA RankIs ==
    ASSUME NEW D, NEW S, NEW at, NEW low, NEW high, Places(D, S, at, low, high), IsFiniteSet(D),
           NEW lim, NEW j, NEW N, N = Cardinality(D)
    PROVE  Rank(S, at, lim, j) \in 0 .. N /\ N \in Nat
<1>1. Span(S, at, lim, j) \subseteq D
  BY DEF Span, Places
<1>2. Cardinality(Span(S, at, lim, j)) <= N /\ Cardinality(Span(S, at, lim, j)) \in Nat /\ N \in Nat
  BY <1>1, FS_Subset, FS_CardinalityType
<1>. QED
  BY <1>2 DEF Rank

\* What holds of a slot when it holds of its parent.
LEMMA Upward ==
    ASSUME NEW D, NEW S, NEW at, NEW low, NEW high, NEW t, NEW lim,
           Places(D, S, at, low, high), Linked(D, S, at, low, high, t, lim), IsFiniteSet(D),
           NEW good, \A j \in S : (Par(t, j) = -1 \/ Par(t, j) \in good) => j \in good
    PROVE  \A j \in S : j \in good
<1>. DEFINE bad == {j \in S : j \notin good}
            N == Cardinality(D)
            ranks == {N - Rank(S, at, lim, j) : j \in bad}
<1>. SUFFICES ASSUME bad # {} PROVE FALSE
  OBVIOUS
<1>1. \A j \in S : Rank(S, at, lim, j) \in 0 .. N /\ N \in Nat
  BY RankIs
<1>. HIDE DEF N
<1>2. ranks \in SUBSET Nat /\ ranks # {}
  BY <1>1
<1>3. PICK r \in ranks : \A q \in ranks : r <= q
  BY <1>2, Smallest
<1>4. PICK j \in bad : r = N - Rank(S, at, lim, j)
  BY <1>3
<1>5. Par(t, j) # -1 /\ Par(t, j) \notin good
  BY <1>4
<1>6. Par(t, j) \in S
  BY <1>5, AboveIs
<1>7. N - Rank(S, at, lim, Par(t, j)) \in ranks
  BY <1>5, <1>6
<1>8. Rank(S, at, lim, j) < Rank(S, at, lim, Par(t, j))
  BY <1>4, <1>5, SpanGrows DEF Rank
<1>9. /\ r <= N - Rank(S, at, lim, Par(t, j)) /\ N \in Nat
      /\ Rank(S, at, lim, j) \in Nat /\ Rank(S, at, lim, Par(t, j)) \in Nat
  <2>1. j \in S
    BY <1>4
  <2>. QED
    BY <1>1, <1>3, <1>6, <1>7, <2>1
<1>. QED
  BY <1>4, <1>8, <1>9

\* What holds of a slot when it holds of its children.
LEMMA Downward ==
    ASSUME NEW D, NEW S, NEW at, NEW low, NEW high, NEW t, NEW lim,
           Places(D, S, at, low, high), Linked(D, S, at, low, high, t, lim), IsFiniteSet(D),
           NEW good,
           \A j \in S : (\A s \in Sides : Kid(t, j, s) = -1 \/ Kid(t, j, s) \in good) => j \in good
    PROVE  \A j \in S : j \in good
<1>. DEFINE bad == {j \in S : j \notin good}
            N == Cardinality(D)
            ranks == {Rank(S, at, lim, j) : j \in bad}
<1>. SUFFICES ASSUME bad # {} PROVE FALSE
  OBVIOUS
<1>1. \A j \in S : Rank(S, at, lim, j) \in 0 .. N /\ N \in Nat
  BY RankIs
<1>. HIDE DEF N
<1>2. ranks \in SUBSET Nat /\ ranks # {}
  BY <1>1
<1>3. PICK r \in ranks : \A q \in ranks : r <= q
  BY <1>2, Smallest
<1>4. PICK j \in bad : r = Rank(S, at, lim, j)
  BY <1>3
<1>5. PICK s \in Sides : Kid(t, j, s) # -1 /\ Kid(t, j, s) \notin good
  BY <1>4
<1>6. Kid(t, j, s) \in S /\ Par(t, Kid(t, j, s)) = j
  BY <1>4, <1>5, KidsAre
<1>7. Rank(S, at, lim, Kid(t, j, s)) \in ranks
  BY <1>5, <1>6
<1>8. Rank(S, at, lim, Kid(t, j, s)) < Rank(S, at, lim, j)
  <2>1. j # -1
    BY <1>4, ValuesAre
  <2>. QED
    BY <1>6, <2>1, SpanGrows DEF Rank
<1>. QED
  BY <1>1, <1>3, <1>4, <1>6, <1>7, <1>8

\* A walk that comes nearer its end with each step has one.
Walked(f, X, end, val, nx) == f = [j \in X |-> IF j \in end THEN val[j] ELSE f[nx[j]]]

LEMMA Walks ==
    ASSUME NEW X, NEW end, NEW val, NEW nx, NEW m, NEW M \in Nat,
           \A j \in X : m[j] \in Nat /\ m[j] < M,
           \A j \in X \ end : nx[j] \in X /\ m[nx[j]] < m[j]
    PROVE  \E f : Walked(f, X, end, val, nx)
<1>. DEFINE Part(n) == {j \in X : m[j] < n}
            good == {n \in 0 .. M : \E f : Walked(f, Part(n), end, val, nx)}
<1>1. 0 \in good
  <2>. DEFINE f == [j \in {} |-> 0]
  <2>1. Part(0) = {}
    OBVIOUS
  <2>2. f = [j \in Part(0) |-> IF j \in end THEN val[j] ELSE f[nx[j]]]
    BY <2>1
  <2>3. Walked(f, Part(0), end, val, nx)
    BY <2>2, Zenon DEF Walked
  <2>4. 0 \in 0 .. M
    OBVIOUS
  <2>. HIDE DEF f, Part
  <2>. QED
    BY <2>3, <2>4
<1>2. ASSUME NEW n \in 0 .. M - 1, n \in good
      PROVE  n + 1 \in good
  <2>1. PICK f : f = [j \in Part(n) |-> IF j \in end THEN val[j] ELSE f[nx[j]]]
    BY <1>2 DEF Walked
  <2>. DEFINE g == [j \in Part(n + 1) |-> IF j \in Part(n) THEN f[j]
                                          ELSE IF j \in end THEN val[j] ELSE f[nx[j]]]
              G(j) == IF j \in end THEN val[j] ELSE g[nx[j]]
  <2>2. ASSUME NEW j \in Part(n + 1)
        PROVE  g[j] = G(j)
    <3>1. j \notin end => nx[j] \in Part(n) /\ nx[j] \in Part(n + 1)
      <4>. SUFFICES ASSUME j \notin end PROVE nx[j] \in Part(n) /\ nx[j] \in Part(n + 1)
        OBVIOUS
      <4>1. j \in X /\ m[j] < n + 1 /\ nx[j] \in X /\ m[nx[j]] < m[j]
        OBVIOUS
      <4>2. m[j] \in Nat /\ m[nx[j]] \in Nat
        BY <4>1
      <4>. QED
        BY <4>1, <4>2
    <3>2. g[j] = IF j \in end THEN val[j] ELSE f[nx[j]]
      <4>1. CASE j \in Part(n)
        <5>1. f[j] = IF j \in end THEN val[j] ELSE f[nx[j]]
          BY <2>1, <4>1, Zenon
        <5>. QED
          BY <4>1, <5>1, Zenon
      <4>2. CASE j \notin Part(n)
        BY <4>2, Zenon
      <4>. QED
        BY <4>1, <4>2
    <3>3. j \notin end => g[nx[j]] = f[nx[j]]
      BY <3>1, Zenon
    <3>. QED
      BY <3>2, <3>3, Zenon
  <2>3. g = [j \in Part(n + 1) |-> G(j)]
    <3>1. g = [j \in Part(n + 1) |-> g[j]]
      BY Zenon
    <3>. HIDE DEF g, G, Part
    <3>. QED
      BY <2>2, <3>1
  <2>4. Walked(g, Part(n + 1), end, val, nx)
    BY <2>3, Zenon DEF Walked
  <2>. HIDE DEF g, Part
  <2>. QED
    BY <2>4
<1>3. Part(M) = X
  OBVIOUS
<1>4. M \in good
  <2>. HIDE DEF good
  <2>. QED
    BY <1>1, <1>2, Counting
<1>. HIDE DEF Part
<1>. QED
  BY <1>3, <1>4

\* A limit is a bound of the tree, or a slot with something on this side of it.
LEMMA Bounded ==
    ASSUME NEW D, NEW S, NEW at, NEW low, NEW high, NEW t, NEW lim,
           Places(D, S, at, low, high), Linked(D, S, at, low, high, t, lim), IsFiniteSet(D)
    PROVE  \A j \in S, s \in Sides :
              \/ lim[j][s] = IF s = 0 THEN low ELSE high
              \/ \E y \in S : lim[j][s] = at[y] /\ Kid(t, y, 1 - s) # -1
<1>. DEFINE Is(j, s) == \/ lim[j][s] = IF s = 0 THEN low ELSE high
                        \/ \E y \in S : lim[j][s] = at[y] /\ Kid(t, y, 1 - s) # -1
            good == {j \in S : \A s \in Sides : Is(j, s)}
<1>1. ASSUME NEW j \in S, Par(t, j) = -1 \/ Par(t, j) \in good
      PROVE  j \in good
  <2>1. CASE Par(t, j) = -1
    <3>1. t.root = j
      <4>1. Hung(t, S, j)
        BY DEF Linked
      <4>. QED
        BY <2>1, <4>1 DEF Hung, Places
    <3>2. lim[j][0] = low /\ lim[j][1] = high
      BY <3>1 DEF Linked, Rooted
    <3>. QED
      BY <3>2 DEF Sides
  <2>2. CASE Par(t, j) # -1
    <3>. DEFINE p == Par(t, j)
                side == SideOf(t, p, j)
    <3>1. /\ p \in S /\ side \in Sides /\ Kid(t, p, side) = j
          /\ lim[j][side] = lim[p][side] /\ lim[j][1 - side] = at[p]
      BY <2>2, AboveIs
    <3>2. p \in good
      BY <1>1, <2>2
    <3>3. j # -1
      BY ValuesAre
    <3>. HIDE DEF p, side
    <3>4. Is(p, side) /\ (\A s \in Sides : s = side \/ s = 1 - side) /\ 1 - (1 - side) = side
      BY <3>1, <3>2, SidesAre
    <3>5. Is(j, side)
      BY <3>1, <3>4
    <3>6. Is(j, 1 - side)
      BY <3>1, <3>3, <3>4
    <3>. HIDE DEF Is
    <3>. QED
      BY <3>4, <3>5, <3>6
  <2>. QED
    BY <2>1, <2>2
<1>. HIDE DEF good
<1>2. \A j \in S : j \in good
  BY <1>1, Upward
<1>. QED
  BY <1>2 DEF good

\* The free place for a slot is the only one.
LEMMA NoFacingGaps ==
    ASSUME NEW D, NEW S, NEW at, NEW low, NEW high, NEW t, NEW lim, NEW i \in D \ S,
           Places(D, S \cup {i}, at, low, high), Linked(D, S, at, low, high, t, lim), IsFiniteSet(D),
           NEW j \in S, NEW k \in S, Kid(t, j, 1) = -1, Kid(t, k, 0) = -1,
           Between(at[j], at[i], lim[j][1]), Between(at[k], at[i], lim[k][0])
    PROVE  FALSE
<1>1. Places(D, S, at, low, high)
  BY DEF Places
<1>2. 0 \in Sides /\ 1 \in Sides
  BY DEF Sides
<1>3. /\ \A x \in S : ~ Between(at[j], at[x], lim[j][1])
      /\ \A x \in S : ~ Between(at[k], at[x], lim[k][0])
  BY <1>1, <1>2, KidsAre
<1>4. /\ Inside(at, lim, j) /\ Inside(at, lim, k) /\ at[j] \in Int /\ at[k] \in Int /\ at[i] \in Int
      /\ lim[j][1] \in Int /\ lim[k][0] \in Int
  <2>1. at[i] \in Int
    BY DEF Places
  <2>2. Inside(at, lim, j) /\ Inside(at, lim, k)
    BY DEF Linked
  <2>. QED
    BY <1>1, <1>2, <2>1, <2>2, ValuesAre
<1>5. /\ at[j] < at[i] /\ at[i] < lim[j][1] /\ lim[k][0] < at[i] /\ at[i] < at[k]
  BY <1>4 DEF Between, Inside
<1>6. lim[j][1] <= at[k]
  BY <1>3, <1>4, <1>5 DEF Between
<1>7. lim[j][1] # high
  BY <1>4, <1>6 DEF Places
<1>8. PICK y \in S : lim[j][1] = at[y] /\ Kid(t, y, 0) # -1
  <2>1. \/ lim[j][1] = high
        \/ \E y \in S : lim[j][1] = at[y] /\ Kid(t, y, 1 - 1) # -1
    BY <1>1, <1>2, Bounded
  <2>. QED
    BY <1>7, <2>1
<1>9. at[y] = at[k]
  BY <1>3, <1>4, <1>5, <1>6, <1>8 DEF Between
<1>10. y = k
  BY <1>1, <1>9 DEF Places
<1>. QED
  BY <1>8, <1>10

\* A place with nothing there that the new slot belongs in is the only one.
LEMMA OneGap ==
    ASSUME NEW D, NEW S, NEW at, NEW low, NEW high, NEW t, NEW lim, NEW i \in D \ S,
           Places(D, S \cup {i}, at, low, high), Linked(D, S, at, low, high, t, lim), IsFiniteSet(D),
           NEW j \in S, NEW k \in S, NEW s \in Sides, NEW r \in Sides,
           Kid(t, j, s) = -1, Kid(t, k, r) = -1,
           Between(at[j], at[i], lim[j][s]), Between(at[k], at[i], lim[k][r])
    PROVE  j = k /\ s = r
<1>1. Places(D, S, at, low, high)
  BY DEF Places
<1>2. s = r
  <2>1. CASE s = 0 /\ r = 1
    BY <2>1, NoFacingGaps
  <2>2. CASE s = 1 /\ r = 0
    BY <2>2, NoFacingGaps
  <2>. QED
    BY <2>1, <2>2 DEF Sides
<1>3. /\ \A x \in S : ~ Between(at[j], at[x], lim[j][s])
      /\ \A x \in S : ~ Between(at[k], at[x], lim[k][r])
  BY <1>1, KidsAre
<1>4. /\ Inside(at, lim, j) /\ Inside(at, lim, k) /\ at[j] \in Int /\ at[k] \in Int /\ at[i] \in Int
      /\ \A q \in Sides : lim[j][q] \in Int /\ lim[k][q] \in Int
  <2>1. at[i] \in Int
    BY DEF Places
  <2>2. Inside(at, lim, j) /\ Inside(at, lim, k)
    BY DEF Linked
  <2>. QED
    BY <1>1, <2>1, <2>2, ValuesAre
<1>5. at[j] = at[k]
  <2>1. CASE s = 0
    BY <1>2, <1>3, <1>4, <2>1 DEF Between, Inside, Sides
  <2>2. CASE s = 1
    BY <1>2, <1>3, <1>4, <2>2 DEF Between, Inside, Sides
  <2>. QED
    BY <2>1, <2>2 DEF Sides
<1>. QED
  BY <1>1, <1>2, <1>5 DEF Places

\* A slot hung in its free place makes a search tree with the others.
LEMMA LeafLinks ==
    ASSUME NEW D, NEW S, NEW at, NEW low, NEW high, NEW t, NEW lim, NEW i \in D \ S,
           Places(D, S \cup {i}, at, low, high), Linked(D, S, at, low, high, t, lim), IsFiniteSet(D),
           NEW j \in S, NEW s \in Sides, Kid(t, j, s) = -1, Between(at[j], at[i], lim[j][s]),
           Kid(t, i, 0) = -1, Kid(t, i, 1) = -1,
           NEW u, Attached(D, t, u, j, s, i)
    PROVE  \E new : Linked(D, S \cup {i}, at, low, high, u, new)
<1>. DEFINE row == [r \in Sides |-> IF r = s THEN lim[j][s] ELSE at[j]]
            new == [lim EXCEPT ![i] = row]
            T == S \cup {i}
<1>1. Places(D, S, at, low, high)
  BY DEF Places
<1>2. \A k \in S : k \in D /\ k # -1 /\ k # i
  BY <1>1, ValuesAre
<1>22. i \in D /\ i # -1
  BY DEF Places
<1>3. 1 - s \in Sides /\ 1 - s # s /\ \A r \in Sides : r = s \/ r = 1 - s
  BY SidesAre
<1>4. /\ at[j] \in Int /\ at[i] \in Int /\ \A r \in Sides : lim[j][r] \in Int
  <2>1. at[i] \in Int
    BY DEF Places
  <2>. QED
    BY <1>1, <2>1, ValuesAre
<1>5. new \in Limits(D) /\ new[i] = row /\ \A k \in D \ {i} : new[k] = lim[k]
  <2>1. row \in [Sides -> Int]
    BY <1>4
  <2>2. lim \in Limits(D)
    BY DEF Linked
  <2>. HIDE DEF row
  <2>. QED
    BY <2>1, <2>2 DEF Limits
<1>6. new[i][s] = lim[j][s] /\ new[i][1 - s] = at[j]
  BY <1>3, <1>5
<1>. HIDE DEF new, row
<1>7. /\ u \in Trees(D) /\ u.root = t.root
      /\ \A k \in D : Par(u, k) = IF k = i THEN j ELSE Par(t, k)
      /\ \A k \in D, r \in Sides : Kid(u, k, r) = IF k = j /\ r = s THEN i ELSE Kid(t, k, r)
  BY DEF Attached, ParentSet, ChildSet
<1>8. /\ Rooted(t, S, lim, low, high)
      /\ \A k \in S : Hung(t, S, k) /\ Inside(at, lim, k) /\ \A r \in Sides : Below(t, S, at, lim, k, r)
  BY DEF Linked
<1>9. Rooted(u, T, new, low, high)
  BY <1>2, <1>5, <1>7, <1>8 DEF Rooted
<1>10. ASSUME NEW k \in S
       PROVE  Hung(u, T, k) /\ Inside(at, new, k)
  <2>1. Par(u, k) = Par(t, k) /\ Hung(t, S, k) /\ Inside(at, lim, k)
    BY <1>2, <1>7, <1>8
  <2>2. Inside(at, new, k)
    BY <1>2, <1>5, <2>1 DEF Inside
  <2>3. CASE Par(t, k) = -1
    BY <1>7, <2>1, <2>2, <2>3, <1>1 DEF Hung, Places
  <2>4. CASE Par(t, k) # -1
    <3>1. PICK r \in Sides : Kid(t, Par(t, k), r) = k
      BY <2>1, <2>4 DEF Hung
    <3>2. Par(t, k) \in S
      BY <2>1, <2>4 DEF Hung
    <3>3. Kid(u, Par(t, k), r) = k
      BY <1>2, <1>7, <3>1, <3>2
    <3>. QED
      BY <2>1, <2>2, <3>2, <3>3 DEF Hung
  <2>. QED
    BY <2>3, <2>4
<1>11. Hung(u, T, i) /\ Inside(at, new, i)
  <2>1. Par(u, i) = j /\ Kid(u, j, s) = i
    BY <1>2, <1>7, <1>22
  <2>2. (s = 0 /\ 1 - s = 1) \/ (s = 1 /\ 1 - s = 0)
    BY DEF Sides
  <2>3. Inside(at, lim, j)
    BY <1>8
  <2>4. Inside(at, new, i)
    BY <1>4, <1>6, <2>2, <2>3 DEF Inside, Between, Sides
  <2>. QED
    BY <2>1, <2>4 DEF Hung
<1>12. ASSUME NEW r \in Sides
       PROVE  Below(u, T, at, new, i, r)
  <2>1. Kid(u, i, r) = -1
    BY <1>2, <1>7, <1>22 DEF Sides
  <2>2. \A x \in S : ~ Between(at[j], at[x], lim[j][s]) /\ at[x] \in Int
    BY <1>1, KidsAre, ValuesAre
  <2>3. \A x \in T : ~ Between(at[i], at[x], new[i][r])
    BY <1>3, <1>4, <1>6, <2>2 DEF Between
  <2>. QED
    BY <2>1, <2>3 DEF Below
<1>13. ASSUME NEW k \in S, NEW r \in Sides
       PROVE  Below(u, T, at, new, k, r)
  <2>. DEFINE c == Kid(t, k, r)
  <2>1. /\ c \in S \cup {-1}
        /\ c = -1 => \A x \in S : ~ Between(at[k], at[x], lim[k][r])
        /\ c # -1 => c \in S /\ Par(t, c) = k /\ lim[c][r] = lim[k][r] /\ lim[c][1 - r] = at[k]
    BY <1>1, KidsAre
  <2>2. CASE k = j /\ r = s
    <3>1. Kid(u, k, r) = i /\ Par(u, i) = k /\ new[i][r] = new[k][r] /\ new[i][1 - r] = at[k]
      BY <1>2, <1>5, <1>6, <1>7, <1>22, <2>2
    <3>. QED
      BY <3>1 DEF Below
  <2>3. CASE ~ (k = j /\ r = s)
    <3>1. Kid(u, k, r) = c
      BY <1>2, <1>7, <2>3
    <3>2. CASE c = -1
      <4>1. ~ Between(at[k], at[i], lim[k][r])
        BY <2>3, <3>2, OneGap
      <4>2. \A x \in T : ~ Between(at[k], at[x], new[k][r])
        BY <1>2, <1>5, <2>1, <3>2, <4>1
      <4>. QED
        BY <3>1, <3>2, <4>2 DEF Below
    <3>3. CASE c # -1
      BY <1>2, <1>5, <1>7, <2>1, <3>1, <3>3 DEF Below
    <3>. QED
      BY <3>2, <3>3
  <2>. QED
    BY <2>2, <2>3
<1>14. Linked(D, T, at, low, high, u, new)
  BY <1>5, <1>7, <1>9, <1>10, <1>11, <1>12, <1>13 DEF Linked
<1>. QED
  BY <1>14

\* And the balances miss the one level it adds.
LEMMA LeafWeighs ==
    ASSUME NEW D, NEW S, NEW at, NEW low, NEW high, NEW t, NEW lim, NEW i \in D \ S,
           Places(D, S \cup {i}, at, low, high), Linked(D, S, at, low, high, t, lim),
           NEW j \in S, NEW s \in Sides, Kid(t, j, s) = -1,
           Kid(t, i, 0) = -1, Kid(t, i, 1) = -1, Bal(t, i) = 0,
           NEW u, Attached(D, t, u, j, s, i), NEW h, Weighed(D, S, t, h, -1, 0, 0)
    PROVE  \E n : Weighed(D, S \cup {i}, u, n, j, s, 1) /\ Grown(u, n, j, s)
<1>. DEFINE n == [h EXCEPT ![i] = 1]
            T == S \cup {i}
<1>1. Places(D, S, at, low, high)
  BY DEF Places
<1>2. \A k \in S : k \in D /\ k # -1 /\ k # i
  BY <1>1, ValuesAre
<1>22. i \in D /\ i # -1
  BY DEF Places
<1>3. h \in Heights(D)
  BY DEF Weighed
<1>4. n \in Heights(D) /\ n[i] = 1 /\ \A k \in D \ {i} : n[k] = h[k]
  BY <1>3 DEF Heights
<1>. HIDE DEF n
<1>5. /\ \A k \in D, r \in Sides : Kid(u, k, r) = IF k = j /\ r = s THEN i ELSE Kid(t, k, r)
      /\ \A k \in D : Bal(u, k) = Bal(t, k)
  BY DEF Attached, ChildSet, SameBalances
<1>6. ASSUME NEW k \in S, NEW r \in Sides
      PROVE  Counted(u, n, j, s, 1, k, r) = Counted(t, h, -1, 0, 0, k, r)
  <2>1. Kid(t, k, r) \in S \cup {-1}
    BY <1>1, KidsAre
  <2>2. CASE k = j /\ r = s
    <3>1. Kid(u, k, r) = i /\ Kid(t, k, r) = -1
      BY <1>2, <1>5, <2>2
    <3>. QED
      BY <1>2, <1>22, <1>4, <2>2, <3>1 DEF Counted, Level
  <2>3. CASE ~ (k = j /\ r = s)
    <3>1. Kid(u, k, r) = Kid(t, k, r)
      BY <1>2, <1>5, <2>3
    <3>2. Level(u, n, k, r) = Level(t, h, k, r)
      BY <1>2, <1>4, <2>1, <3>1 DEF Level
    <3>. QED
      BY <1>2, <2>3, <3>2 DEF Counted
  <2>. QED
    BY <2>2, <2>3
<1>7. ASSUME NEW k \in T, NEW r \in Sides
      PROVE  Stands(Bal(u, k), n[k], r, Counted(u, n, j, s, 1, k, r), Counted(u, n, j, s, 1, k, 1 - r))
  <2>1. CASE k \in S
    <3>1. Stands(Bal(t, k), h[k], r, Counted(t, h, -1, 0, 0, k, r), Counted(t, h, -1, 0, 0, k, 1 - r))
      BY <2>1, Zenon DEF Weighed
    <3>2. Bal(u, k) = Bal(t, k) /\ n[k] = h[k] /\ 1 - r \in Sides
      BY <1>2, <1>4, <1>5, <2>1, SidesAre
    <3>. QED
      BY <1>6, <2>1, <3>1, <3>2
  <2>2. CASE k = i
    <3>1. \A q \in Sides : Kid(u, i, q) = -1
      BY <1>2, <1>22, <1>5 DEF Sides
    <3>2. \A q \in Sides : Counted(u, n, j, s, 1, i, q) = 0
      BY <1>2, <3>1 DEF Counted, Level
    <3>3. Bal(u, i) = 0 /\ n[i] = 1 /\ 1 - r \in Sides
      BY <1>4, <1>5, <1>22, SidesAre
    <3>4. Stands(0, 1, r, 0, 0)
      BY DEF Stands, Higher, Weight, Sides
    <3>. QED
      BY <2>2, <3>2, <3>3, <3>4
  <2>. QED
    BY <2>1, <2>2
<1>8. Weighed(D, T, u, n, j, s, 1)
  BY <1>4, <1>7, Zenon DEF Weighed
<1>9. Grown(u, n, j, s)
  <2>1. Kid(u, j, s) = i
    BY <1>2, <1>5
  <2>. QED
    BY <1>22, <1>4, <2>1 DEF Grown
<1>. QED
  BY <1>8, <1>9

\* The slots in the tree are those of state lexed.
LEMMA LexedIs ==
    ASSUME NEW D, NEW t \in Trees(D)
    PROVE  Lexed(t) = {j \in D : State(t, j) = "lexed"} /\ DOMAIN t.meta = D
BY DEF Lexed, Trees, State

\* The same slots are in the tree when the states are.
LEMMA SameLexed ==
    ASSUME NEW D, NEW t \in Trees(D), NEW u \in Trees(D), SameStates(D, t, u)
    PROVE  Lexed(u) = Lexed(t)
BY LexedIs DEF SameStates

\* The measure of a walk down.
LEMMA Descends ==
    ASSUME NEW D, NEW S, NEW at, NEW low, NEW high, NEW t, NEW lim,
           Places(D, S, at, low, high), Linked(D, S, at, low, high, t, lim), IsFiniteSet(D)
    PROVE  \E m : /\ \A j \in S : m[j] \in Nat /\ m[j] < Cardinality(D) + 1
                  /\ \A j \in S, s \in Sides : Kid(t, j, s) # -1 => m[Kid(t, j, s)] < m[j]
                  /\ Cardinality(D) + 1 \in Nat
<1>. DEFINE m == [j \in S |-> Rank(S, at, lim, j)]
            N == Cardinality(D)
<1>1. \A j \in S : Rank(S, at, lim, j) \in 0 .. N /\ N \in Nat
  BY RankIs
<1>2. \A j \in S : m[j] \in Nat /\ m[j] < N + 1
  BY <1>1
<1>3. ASSUME NEW j \in S, NEW s \in Sides, Kid(t, j, s) # -1
      PROVE  m[Kid(t, j, s)] < m[j]
  <2>1. Kid(t, j, s) \in S /\ Par(t, Kid(t, j, s)) = j /\ j # -1
    BY <1>3, KidsAre, ValuesAre
  <2>2. Rank(S, at, lim, Kid(t, j, s)) < Rank(S, at, lim, j)
    BY <2>1, SpanGrows DEF Rank
  <2>. QED
    BY <2>1, <2>2
<1>4. N \in Nat
  BY FS_CardinalityType
<1>. HIDE DEF m, N
<1>. QED
  BY <1>2, <1>3, <1>4 DEF N

\* Where a new slot is to hang.
FreePlace(S, at, t, lim, i, place) ==
    /\ place.slot \in S /\ place.side \in Sides /\ Kid(t, place.slot, place.side) = -1
    /\ Between(at[place.slot], at[i], lim[place.slot][place.side])

\* The search of avl_insert() ends at the free place of the new slot.
LEMMA BottomIs ==
    ASSUME NEW D, NEW S, NEW at, NEW low, NEW high, NEW t, NEW lim, NEW i \in D \ S,
           Places(D, S \cup {i}, at, low, high), Linked(D, S, at, low, high, t, lim), IsFiniteSet(D),
           Lexed(t) = S \cup {i}, \A s \in Sides : Kid(t, i, s) = -1,
           NEW order, \A j \in S : order[j] >= 0 <=> at[j] < at[i], S # {}
    PROVE  FreePlace(S, at, t, lim, i, Bottom(t, order, t.root))
<1>. DEFINE X == S \cup {i}
            Right(j) == IF order[j] >= 0 THEN 1 ELSE 0
            nx == [j \in X |-> Kid(t, j, Right(j))]
            end == {j \in X : nx[j] < 0}
            val == [j \in X |-> [slot |-> j, side |-> Right(j)]]
            P(g) == g = [j \in X |-> IF Kid(t, j, Right(j)) < 0 THEN [slot |-> j, side |-> Right(j)]
                                     ELSE g[Kid(t, j, Right(j))]]
            f == CHOOSE g : P(g)
<1>1. Bottom(t, order, t.root) = f[t.root]
  BY Zenon DEF Bottom, Kid
<1>2. \A j \in X : Right(j) \in Sides
  BY DEF Sides
<1>. HIDE DEF Right
<1>3. \A g : P(g) <=> Walked(g, X, end, val, nx)
  BY DEF Walked
<1>4. Places(D, S, at, low, high)
  BY DEF Places
<1>5. /\ \A j \in S : nx[j] \in S \cup {-1} /\ j \in Nat /\ j # i
      /\ nx[i] = -1
  BY <1>2, <1>4, KidsAre, ValuesAre
<1>6. \E g : P(g)
  <2>1. PICK m : /\ \A j \in S : m[j] \in Nat /\ m[j] < Cardinality(D) + 1
                 /\ \A j \in S, s \in Sides : Kid(t, j, s) # -1 => m[Kid(t, j, s)] < m[j]
                 /\ Cardinality(D) + 1 \in Nat
    BY <1>4, Descends
  <2>. DEFINE k == [j \in X |-> IF j = i THEN 0 ELSE m[j]]
              M == Cardinality(D) + 1
  <2>3. \A j \in X : k[j] \in Nat /\ k[j] < M
    BY <2>1
  <2>4. \A j \in X \ end : nx[j] \in X /\ k[nx[j]] < k[j]
    <3>. SUFFICES ASSUME NEW j \in X \ end PROVE nx[j] \in X /\ k[nx[j]] < k[j]
      OBVIOUS
    <3>1. j \in S /\ nx[j] \in S
      BY <1>5
    <3>2. m[nx[j]] < m[j]
      BY <1>2, <1>5, <2>1, <3>1
    <3>. QED
      BY <1>5, <3>1, <3>2
  <2>. HIDE DEF k, M, nx, end, X, val
  <2>5. \E g : Walked(g, X, end, val, nx)
    <3>1. M \in Nat
      BY <2>1 DEF M
    <3>. QED
      BY <2>3, <2>4, <3>1, Walks
  <2>. QED
    BY <1>3, <2>5
<1>7. P(f)
  <2>. HIDE DEF P
  <2>. QED
    BY <1>6, Zenon
<1>8. \A j \in S : f[j] = IF nx[j] = -1 THEN [slot |-> j, side |-> Right(j)] ELSE f[nx[j]]
  <2>. SUFFICES ASSUME NEW j \in S
                PROVE  f[j] = IF nx[j] = -1 THEN [slot |-> j, side |-> Right(j)] ELSE f[nx[j]]
    OBVIOUS
  <2>1. f[j] = IF Kid(t, j, Right(j)) < 0 THEN [slot |-> j, side |-> Right(j)]
               ELSE f[Kid(t, j, Right(j))]
    <3>. HIDE DEF f
    <3>. QED
      BY <1>7, Zenon
  <2>2. nx[j] = Kid(t, j, Right(j))
    OBVIOUS
  <2>3. nx[j] < 0 <=> nx[j] = -1
    BY <1>5
  <2>. QED
    BY <2>1, <2>2, <2>3
<1>9. \A j \in S : nx[j] = Kid(t, j, Right(j))
  OBVIOUS
<1>. HIDE DEF f, nx, end, val, P
<1>. DEFINE Good(j) == Inside(at, lim, j) /\ lim[j][0] < at[i] /\ at[i] < lim[j][1]
                        => FreePlace(S, at, t, lim, i, f[j])
            good == {j \in S : Good(j)}
<1>10. ASSUME NEW j \in S, \A s \in Sides : Kid(t, j, s) = -1 \/ Kid(t, j, s) \in good
       PROVE  j \in good
  <2>. SUFFICES ASSUME lim[j][0] < at[i], at[i] < lim[j][1]
                PROVE  FreePlace(S, at, t, lim, i, f[j])
    OBVIOUS
  <2>. DEFINE s == Right(j)
              c == Kid(t, j, s)
  <2>1. at[j] \in Int /\ at[i] \in Int /\ at[i] # at[j] /\ lim[j][0] \in Int /\ lim[j][1] \in Int
    <3>1. at[j] \in Int /\ at[i] \in Int
      BY DEF Places
    <3>2. at[i] # at[j]
      BY <1>5 DEF Places
    <3>3. \A r \in Sides : lim[j][r] \in Int
      BY <1>4, ValuesAre
    <3>. QED
      BY <3>1, <3>2, <3>3 DEF Sides
  <2>2. Between(at[j], at[i], lim[j][s])
    BY <2>1 DEF Between, Right
  <2>3. s \in Sides
    BY <1>2
  <2>4. CASE c = -1
    <3>1. f[j] = [slot |-> j, side |-> s]
      BY <1>8, <1>9, <2>4
    <3>2. f[j].slot = j /\ f[j].side = s
      BY <3>1
    <3>. QED
      BY <2>2, <2>3, <2>4, <3>2 DEF FreePlace
  <2>5. CASE c # -1
    <3>1. c \in S /\ lim[c][s] = lim[j][s] /\ lim[c][1 - s] = at[j]
      BY <1>4, <2>3, <2>5, KidsAre
    <3>2. f[j] = f[c]
      BY <1>8, <1>9, <2>5
    <3>3. Good(c)
      BY <1>10, <2>3, <2>5
    <3>4. Inside(at, lim, c)
      BY <3>1 DEF Linked
    <3>5. lim[c][0] < at[i] /\ at[i] < lim[c][1]
      <4>1. CASE order[j] >= 0
        <5>1. s = 1 /\ at[j] < at[i]
          BY <4>1 DEF Right
        <5>. QED
          BY <3>1, <5>1
      <4>2. CASE ~ (order[j] >= 0)
        <5>1. s = 0 /\ at[i] < at[j]
          BY <4>2, <2>1 DEF Right
        <5>. QED
          BY <3>1, <5>1
      <4>. QED
        BY <4>1, <4>2
    <3>. HIDE DEF c
    <3>. QED
      BY <3>2, <3>3, <3>4, <3>5
  <2>. QED
    BY <2>4, <2>5
<1>. HIDE DEF good
<1>11. \A j \in S : j \in good
  BY <1>4, <1>10, Downward
<1>12. t.root \in S /\ lim[t.root][0] = low /\ lim[t.root][1] = high
  BY DEF Linked, Rooted
<1>13. Good(t.root)
  BY <1>11, <1>12 DEF good
<1>14. low < at[i] /\ at[i] < high /\ Inside(at, lim, t.root)
  BY <1>12 DEF Places, Linked
<1>. QED
  BY <1>1, <1>12, <1>13, <1>14

\* The two trees are the same on S.
SameOn(S, t, u) ==
    /\ u.root = t.root
    /\ \A j \in S : Par(u, j) = Par(t, j) /\ Bal(u, j) = Bal(t, j)
    /\ \A j \in S, s \in Sides : Kid(u, j, s) = Kid(t, j, s)

\* Then one is sound when the other is.
LEMMA SameWhole ==
    ASSUME NEW D, NEW S, NEW at, NEW low, NEW high, NEW t, NEW u \in Trees(D), SameOn(S, t, u)
    PROVE  /\ \A lim : Linked(D, S, at, low, high, t, lim) => Linked(D, S, at, low, high, u, lim)
           /\ \A h, w, side, d : Weighed(D, S, t, h, w, side, d) => Weighed(D, S, u, h, w, side, d)
           /\ Whole(D, S, at, low, high, t) => Whole(D, S, at, low, high, u)
<1>1. ASSUME NEW lim, Linked(D, S, at, low, high, t, lim)
      PROVE  Linked(D, S, at, low, high, u, lim)
  <2>1. /\ lim \in Limits(D) /\ Rooted(t, S, lim, low, high)
        /\ \A j \in S : Hung(t, S, j) /\ Inside(at, lim, j) /\ \A s \in Sides : Below(t, S, at, lim, j, s)
    BY <1>1 DEF Linked
  <2>2. Rooted(u, S, lim, low, high)
    BY <2>1 DEF Rooted, SameOn
  <2>3. ASSUME NEW j \in S
        PROVE  Hung(u, S, j) /\ \A s \in Sides : Below(u, S, at, lim, j, s)
    <3>1. Hung(t, S, j) /\ \A s \in Sides : Below(t, S, at, lim, j, s)
      BY <2>1
    <3>2. Hung(u, S, j)
      BY <3>1 DEF Hung, SameOn
    <3>3. ASSUME NEW s \in Sides PROVE Below(u, S, at, lim, j, s)
      <4>1. Below(t, S, at, lim, j, s) /\ Kid(u, j, s) = Kid(t, j, s)
        BY <3>1 DEF SameOn
      <4>. QED
        BY <4>1 DEF Below, SameOn
    <3>. QED
      BY <3>2, <3>3
  <2>. QED
    BY <2>1, <2>2, <2>3 DEF Linked
<1>2. ASSUME NEW h, NEW w, NEW side, NEW d, Weighed(D, S, t, h, w, side, d)
      PROVE  Weighed(D, S, u, h, w, side, d)
  <2>1. ASSUME NEW j \in S, NEW s \in Sides
        PROVE  Stands(Bal(u, j), h[j], s, Counted(u, h, w, side, d, j, s), Counted(u, h, w, side, d, j, 1 - s))
    <3>1. Stands(Bal(t, j), h[j], s, Counted(t, h, w, side, d, j, s), Counted(t, h, w, side, d, j, 1 - s))
      BY <1>2, Zenon DEF Weighed
    <3>2. \A r \in Sides : Counted(u, h, w, side, d, j, r) = Counted(t, h, w, side, d, j, r)
      BY DEF Counted, Level, SameOn
    <3>3. Bal(u, j) = Bal(t, j) /\ 1 - s \in Sides
      BY SidesAre DEF SameOn
    <3>. QED
      BY <3>1, <3>2, <3>3
  <2>. QED
    BY <1>2, <2>1, Zenon DEF Weighed
<1>3. ASSUME Whole(D, S, at, low, high, t)
      PROVE  Whole(D, S, at, low, high, u)
  BY <1>1, <1>2, <1>3, Zenon DEF Whole
<1>. QED
  BY <1>1, <1>2, <1>3, Zenon

\* A slot with nothing about it.
Bare(t, i) == Par(t, i) = -1 /\ Kid(t, i, 0) = -1 /\ Kid(t, i, 1) = -1 /\ Bal(t, i) = 0

\* A slot is taken in or given up: the tree of the others is as it was.
LEMMA SlotIs ==
    ASSUME NEW D, NEW t \in Trees(D), NEW i \in D, NEW state \in States, NEW S, S \subseteq D, i \notin S,
           NEW u, u = SetSlot(t, i, Slot(-1, -1, -1, state))
    PROVE  /\ u \in Trees(D) /\ SameOn(S, t, u) /\ Bare(u, i)
           /\ Lexed(u) = IF state = "lexed" THEN Lexed(t) \cup {i} ELSE Lexed(t) \ {i}
<1>. DEFINE n == Slot(-1, -1, -1, state)
            f == [s \in 0 .. 1 |-> IF s = 0 THEN -1 ELSE -1]
<1>0. n = [parent |-> -1, child |-> f, bf |-> 0, state |-> state]
  BY Zenon DEF Slot
<1>00. f \in [Sides -> Int] /\ f[0] = -1 /\ f[1] = -1
  BY DEF Sides
<1>. HIDE DEF f
<1>1. n \in SlotType
  BY <1>0, <1>00 DEF SlotType
<1>2. n.parent = -1 /\ n.child = f /\ n.bf = 0 /\ n.state = state
  BY <1>0
<1>. HIDE DEF n
<1>3. u \in Trees(D) /\ u.root = t.root /\ \A j \in D : u.meta[j] = IF j = i THEN n ELSE t.meta[j]
  <2>1. u = SetSlot(t, i, n)
    BY Zenon DEF n
  <2>. QED
    BY <1>1, <2>1, SlotChanged
<1>4. SameOn(S, t, u)
  BY <1>3 DEF SameOn, Par, Bal, Kid
<1>5. Bare(u, i)
  BY <1>00, <1>2, <1>3 DEF Bare, Par, Bal, Kid
<1>6. \A j \in D : State(u, j) = IF j = i THEN state ELSE State(t, j)
  BY <1>2, <1>3 DEF State
<1>7. Lexed(u) = IF state = "lexed" THEN Lexed(t) \cup {i} ELSE Lexed(t) \ {i}
  BY <1>3, <1>6, LexedIs
<1>. QED
  BY <1>3, <1>4, <1>5, <1>7

\* The first slot.
LEMMA FirstWhole ==
    ASSUME NEW D, NEW at, NEW low, NEW high, NEW i \in D, Places(D, {i}, at, low, high),
           NEW t \in Trees(D), t.root = i, Bare(t, i)
    PROVE  Whole(D, {i}, at, low, high, t)
<1>. DEFINE row == [s \in Sides |-> IF s = 0 THEN low ELSE high]
            lim == [j \in D |-> row]
            h == [j \in D |-> 1]
<1>1. row \in [Sides -> Int] /\ row[0] = low /\ row[1] = high
  BY DEF Sides, Places
<1>. HIDE DEF row
<1>2. lim \in Limits(D) /\ lim[i] = row
  BY <1>1 DEF Limits
<1>. HIDE DEF lim
<1>3. h \in Heights(D) /\ h[i] = 1
  BY DEF Heights
<1>. HIDE DEF h
<1>4. low < at[i] /\ at[i] < high /\ at[i] \in Int /\ i # -1
  BY DEF Places
<1>5. Rooted(t, {i}, lim, low, high) /\ Hung(t, {i}, i) /\ Inside(at, lim, i)
  BY <1>1, <1>2, <1>4 DEF Rooted, Hung, Inside, Bare
<1>6. ASSUME NEW s \in Sides
      PROVE  Kid(t, i, s) = -1 /\ Below(t, {i}, at, lim, i, s)
  <2>1. Kid(t, i, s) = -1
    BY DEF Sides, Bare
  <2>2. ~ Between(at[i], at[i], lim[i][s])
    BY <1>1, <1>2, <1>4 DEF Between
  <2>. QED
    BY <2>1, <2>2 DEF Below
<1>7. Linked(D, {i}, at, low, high, t, lim)
  BY <1>2, <1>5, <1>6 DEF Linked
<1>8. ASSUME NEW s \in Sides
      PROVE  Stands(Bal(t, i), h[i], s, Counted(t, h, -1, 0, 0, i, s), Counted(t, h, -1, 0, 0, i, 1 - s))
  <2>1. 1 - s \in Sides
    BY SidesAre
  <2>2. \A r \in Sides : Counted(t, h, -1, 0, 0, i, r) = 0
    BY <1>4, <1>6 DEF Counted, Level
  <2>3. Stands(0, 1, s, 0, 0)
    BY DEF Stands, Higher, Weight, Sides
  <2>. QED
    BY <1>3, <2>1, <2>2, <2>3 DEF Bare
<1>9. Weighed(D, {i}, t, h, -1, 0, 0)
  BY <1>3, <1>8 DEF Weighed
<1>. QED
  BY <1>7, <1>9 DEF Whole

\* The comparison of a key with those in the tree.
Orders(S, at, i, order) == \A j \in S : order[j] >= 0 <=> at[j] < at[i]

\* A tree of the slots of S.
Remade(D, S, at, low, high, t) == t \in Trees(D) /\ Lexed(t) = S /\ Whole(D, S, at, low, high, t)

\* avl_insert() puts a new slot in a sound tree and leaves a sound tree, whatever
\* the order of the keys.
LEMMA InsertIs ==
    ASSUME NEW D, NEW S, NEW at, NEW low, NEW high, NEW i \in D \ S,
           Places(D, S \cup {i}, at, low, high), IsFiniteSet(D),
           NEW t \in Trees(D), Lexed(t) = S, Whole(D, S, at, low, high, t),
           NEW order, Orders(S, at, i, order)
    PROVE  Remade(D, S \cup {i}, at, low, high, avl_insert(t, i, order))
<1>. DEFINE u == SetSlot(t, i, Slot(-1, -1, -1, "lexed"))
            place == Bottom(u, order, t.root)
            a == Attach(u, place.slot, place.side, i)
            delta == Weight(place.side)
            T == S \cup {i}
<1>1. avl_insert(t, i, order) =
        IF t.root < 0 THEN WithRoot(u, i) ELSE Raised(a, place.slot, delta)
  BY Zenon DEF avl_insert
<1>2. Places(D, S, at, low, high) /\ S \subseteq D /\ i \in D /\ i \notin S
  BY DEF Places
<1>3. u \in Trees(D) /\ SameOn(S, t, u) /\ Bare(u, i) /\ Lexed(u) = S \cup {i}
  <2>1. "lexed" \in States
    BY DEF States
  <2>. QED
    BY <1>2, <2>1, SlotIs
<1>. HIDE DEF u
<1>4. PICK lim, h : Linked(D, S, at, low, high, t, lim) /\ Weighed(D, S, t, h, -1, 0, 0)
  BY Zenon DEF Whole
<1>5. Linked(D, S, at, low, high, u, lim) /\ Weighed(D, S, u, h, -1, 0, 0) /\ u.root = t.root
  BY <1>3, <1>4, SameWhole DEF SameOn
<1>6. CASE t.root < 0
  <2>. DEFINE v == WithRoot(u, i)
  <2>1. S = {}
    <3>1. t.root \in S => t.root \in Nat
      BY <1>4, ValuesAre, <1>2
    <3>. QED
      BY <1>4, <1>6, <3>1 DEF Linked, Rooted
  <2>2. /\ v \in Trees(D) /\ v.root = i /\ SameParents(D, u, v) /\ SameKids(D, u, v)
        /\ SameBalances(D, u, v) /\ SameStates(D, u, v)
    <3>1. i \in Int
      BY <1>2 DEF Places
    <3>. QED
      BY <1>3, <3>1, RootIs, Zenon
  <2>. HIDE DEF v
  <2>3. Bare(v, i)
    BY <1>2, <1>3, <2>2 DEF Bare, SameParents, SameKids, SameBalances, Sides
  <2>4. S \cup {i} = {i} /\ Places(D, {i}, at, low, high)
    BY <2>1
  <2>5. Whole(D, {i}, at, low, high, v)
    BY <1>2, <2>2, <2>3, <2>4, FirstWhole
  <2>6. Lexed(v) = S \cup {i}
    BY <1>3, <2>2, SameLexed
  <2>7. avl_insert(t, i, order) = v
    BY <1>1, <1>6 DEF v
  <2>. QED
    BY <2>2, <2>4, <2>5, <2>6, <2>7 DEF Remade
<1>7. CASE ~ (t.root < 0)
  <2>1. S # {}
    BY <1>4, <1>7 DEF Linked, Rooted
  <2>2. \A s \in Sides : Kid(u, i, s) = -1
    BY <1>3 DEF Bare, Sides
  <2>3. FreePlace(S, at, u, lim, i, place)
    <3>1. \A j \in S : order[j] >= 0 <=> at[j] < at[i]
      BY Zenon DEF Orders
    <3>. QED
      BY <1>2, <1>3, <1>5, <2>1, <2>2, <3>1, BottomIs
  <2>. HIDE DEF place
  <2>4. Attached(D, u, a, place.slot, place.side, i)
    <3>1. D \subseteq Nat /\ place.slot \in D /\ place.side \in Sides /\ i \in D \cup {-1}
      BY <1>2, <2>3 DEF FreePlace, Places
    <3>. QED
      BY <1>3, <3>1, Attaching
  <2>. HIDE DEF a
  <2>. DEFINE j == place.slot
              s == place.side
  <2>5. /\ j \in S /\ s \in Sides /\ Kid(u, j, s) = -1 /\ Between(at[j], at[i], lim[j][s])
        /\ Kid(u, i, 0) = -1 /\ Kid(u, i, 1) = -1 /\ Bal(u, i) = 0
    BY <1>3, <2>3 DEF FreePlace, Bare
  <2>55. Attached(D, u, a, j, s, i) /\ delta = Weight(s)
    BY <2>4
  <2>. HIDE DEF j, s, delta
  <2>6. PICK new : Linked(D, T, at, low, high, a, new)
    BY <1>5, <2>5, <2>55, LeafLinks
  <2>7. PICK n : Weighed(D, T, a, n, j, s, 1) /\ Grown(a, n, j, s)
    BY <1>5, <2>5, <2>55, LeafWeighs
  <2>8. a \in Trees(D) /\ SameStates(D, u, a)
    BY <2>4 DEF Attached
  <2>. DEFINE N == Cardinality(D)
              r == Raised(a, j, delta)
  <2>9. PICK f : Runs(f, 1, a, j, delta, N) /\ r = f[N].tree
    <3>1. N \in Nat /\ N = Cardinality(DOMAIN a.meta)
      BY <2>8, LexedIs, FS_CardinalityType
    <3>. QED
      BY <3>1, RaisedRuns
  <2>10. Whole(D, T, at, low, high, f[N].tree) /\ SameStates(D, a, f[N].tree)
    <3>1. j \in T /\ 1 \in {-1, 1} /\ Places(D, T, at, low, high)
      BY <2>5
    <3>2. N = Cardinality(D)
      OBVIOUS
    <3>. HIDE DEF N, T
    <3>3. j = -1 \/ (j \in T /\ s \in Sides /\ delta = Weight(s) /\ (1 = 1 => Grown(a, n, j, s)))
      BY <2>5, <2>55, <2>7, <3>1
    <3>. QED
      BY <2>6, <2>7, <2>9, <3>1, <3>2, <3>3, RunsWhole
  <2>11. Whole(D, T, at, low, high, r) /\ SameStates(D, a, r)
    BY <2>9, <2>10
  <2>. HIDE DEF r
  <2>12. r \in Trees(D)
    BY <2>11 DEF Whole, Linked
  <2>13. Lexed(r) = S \cup {i}
    <3>1. Lexed(a) = Lexed(u)
      BY <1>3, <2>8, SameLexed
    <3>2. Lexed(r) = Lexed(a)
      BY <2>8, <2>11, <2>12, SameLexed
    <3>. QED
      BY <1>3, <3>1, <3>2
  <2>14. avl_insert(t, i, order) = r
    BY <1>1, <1>7 DEF r, j, s
  <2>. QED
    BY <2>11, <2>12, <2>13, <2>14 DEF Remade
<1>. QED
  BY <1>6, <1>7

----------------------------------------------------------------------------
(* Removal of a slot with at most one child *)

\* Slot i, with nothing on one side, gives its place to what is on the other.
Passed(S, t, u, i, c) ==
    /\ u.root = (IF t.root = i THEN c ELSE t.root)
    /\ \A j \in S \ {i} :
          /\ Par(u, j) = (IF j = c THEN Par(t, i) ELSE Par(t, j))
          /\ Bal(u, j) = Bal(t, j)
          /\ \A r \in Sides : Kid(u, j, r) = IF Kid(t, j, r) = i THEN c ELSE Kid(t, j, r)

\* The limits without i, which was one on the side of what was below it.
PassedLimits(D, at, lim, i) ==
    [j \in D |-> [r \in Sides |-> IF lim[j][r] = at[i] THEN lim[i][r] ELSE lim[j][r]]]

\* Without i the others are a search tree.
LEMMA PassedLinks ==
    ASSUME NEW D, NEW S, NEW at, NEW low, NEW high, NEW t, NEW lim,
           Places(D, S, at, low, high), Linked(D, S, at, low, high, t, lim), IsFiniteSet(D),
           NEW i \in S, NEW s \in Sides, NEW o, o = 1 - s, Kid(t, i, o) = -1,
           NEW c, c = Kid(t, i, s), NEW u \in Trees(D), Passed(S, t, u, i, c)
    PROVE  Linked(D, S \ {i}, at, low, high, u, PassedLimits(D, at, lim, i))
<1>. DEFINE new == PassedLimits(D, at, lim, i)
            T == S \ {i}
            p == Par(t, i)
            side == SideOf(t, p, i)
<1>1. o \in Sides /\ o # s /\ s = 1 - o /\ \A r \in Sides : r = s \/ r = o
  BY SidesAre
<1>2. \A j \in S : /\ j \in D /\ j # -1 /\ at[j] \in Int
                   /\ \A r \in Sides : lim[j][r] \in Int /\ lim[j][r] # at[j]
                   /\ low < at[j] /\ at[j] < high
  BY ValuesAre DEF Places
<1>3. /\ lim \in Limits(D) /\ Rooted(t, S, lim, low, high)
      /\ \A j \in S : Hung(t, S, j) /\ Inside(at, lim, j)
  BY DEF Linked
<1>4. \A j \in S, r \in Sides :
        /\ Kid(t, j, r) \in S \cup {-1} /\ Kid(t, j, r) # j
        /\ Kid(t, j, r) = -1 => \A x \in S : ~ Between(at[j], at[x], lim[j][r])
        /\ Kid(t, j, r) # -1 => /\ Par(t, Kid(t, j, r)) = j /\ lim[Kid(t, j, r)][r] = lim[j][r]
                                /\ lim[Kid(t, j, r)][1 - r] = at[j]
  BY KidsAre
<1>5. p # -1 => /\ p \in S /\ p # i /\ side \in Sides /\ Kid(t, p, side) = i
                /\ lim[i][side] = lim[p][side] /\ lim[i][1 - side] = at[p]
                /\ \A r \in Sides : Kid(t, p, r) = i => r = side
  BY AboveIs
<1>6. \A j \in S : lim[j][s] # at[i]
  <2>. SUFFICES ASSUME NEW j \in S, lim[j][s] = at[i] PROVE FALSE
    OBVIOUS
  <2>1. \/ lim[j][s] = IF s = 0 THEN low ELSE high
        \/ \E y \in S : lim[j][s] = at[y] /\ Kid(t, y, o) # -1
    BY Bounded
  <2>2. lim[j][s] # low /\ lim[j][s] # high
    BY <1>2
  <2>3. PICK y \in S : lim[j][s] = at[y] /\ Kid(t, y, o) # -1
    BY <2>1, <2>2
  <2>4. y = i
    BY <2>3 DEF Places
  <2>. QED
    BY <2>3, <2>4
<1>7. new \in Limits(D) /\ \A j \in S, r \in Sides :
        new[j][r] = IF lim[j][r] = at[i] THEN lim[i][r] ELSE lim[j][r]
  <2>. DEFINE Row(j) == [r \in Sides |-> IF lim[j][r] = at[i] THEN lim[i][r] ELSE lim[j][r]]
  <2>1. ASSUME NEW j \in D PROVE Row(j) \in [Sides -> Int]
    BY <1>2, <1>3 DEF Limits
  <2>2. new = [j \in D |-> Row(j)]
    BY Zenon DEF PassedLimits
  <2>3. \A j \in D, r \in Sides : Row(j)[r] = IF lim[j][r] = at[i] THEN lim[i][r] ELSE lim[j][r]
    OBVIOUS
  <2>. HIDE DEF Row, new
  <2>4. new \in Limits(D) /\ \A j \in D : new[j] = Row(j)
    BY <2>1, <2>2 DEF Limits
  <2>. QED
    BY <1>2, <2>3, <2>4
<1>. HIDE DEF new
<1>8. \A j \in S : new[j][s] = lim[j][s] /\ new[j][o] = IF lim[j][o] = at[i] THEN lim[i][o] ELSE lim[j][o]
  BY <1>1, <1>6, <1>7
<1>9. c # -1 => /\ c \in T /\ Par(t, c) = i /\ new[c][s] = lim[i][s] /\ new[c][o] = lim[i][o]
  BY <1>1, <1>2, <1>4, <1>8
<1>. HIDE DEF p, side
<1>10. ASSUME NEW j \in T
       PROVE  Inside(at, new, j)
  <2>1. Inside(at, lim, j) /\ Inside(at, lim, i)
    BY <1>3
  <2>2. CASE s = 0 /\ o = 1
    BY <1>1, <1>2, <1>8, <2>1, <2>2 DEF Inside, Sides
  <2>3. CASE s = 1 /\ o = 0
    BY <1>1, <1>2, <1>8, <2>1, <2>3 DEF Inside, Sides
  <2>. QED
    BY <1>1, <2>2, <2>3 DEF Sides
<1>11. ASSUME NEW j \in T
       PROVE  Hung(u, T, j)
  <2>1. Hung(t, S, j)
    BY <1>3
  <2>2. CASE j = c
    <3>1. Par(u, j) = p
      BY <2>2 DEF Passed, p
    <3>2. CASE p = -1
      <4>1. t.root = i
        BY <1>2, <1>3, <3>2 DEF Hung, p
      <4>. QED
        BY <2>2, <3>1, <3>2, <4>1 DEF Hung, Passed
    <3>3. CASE p # -1
      <4>1. Kid(u, p, side) = j
        BY <1>5, <2>2, <3>3 DEF Passed
      <4>. QED
        BY <1>5, <3>1, <3>3, <4>1 DEF Hung
    <3>. QED
      BY <3>2, <3>3
  <2>3. CASE j # c
    <3>1. Par(u, j) = Par(t, j)
      BY <2>3 DEF Passed
    <3>2. CASE Par(t, j) = -1
      BY <1>2, <2>1, <3>1, <3>2 DEF Hung, Passed
    <3>3. CASE Par(t, j) # -1
      <4>1. PICK r \in Sides : Kid(t, Par(t, j), r) = j
        BY <2>1, <3>3 DEF Hung
      <4>2. Par(t, j) \in S
        BY <2>1, <3>3 DEF Hung
      <4>3. Par(t, j) # i
        BY <1>1, <1>2, <2>3, <4>1
      <4>4. Kid(u, Par(t, j), r) = j
        BY <4>1, <4>2, <4>3 DEF Passed
      <4>. QED
        BY <3>1, <4>2, <4>3, <4>4 DEF Hung
    <3>. QED
      BY <3>2, <3>3
  <2>. QED
    BY <2>2, <2>3
<1>12. Rooted(u, T, new, low, high)
  <2>1. t.root \in S /\ Par(t, t.root) = -1 /\ lim[t.root][0] = low /\ lim[t.root][1] = high
    BY <1>3 DEF Rooted
  <2>2. CASE t.root # i
    <3>1. u.root = t.root /\ t.root \in T /\ t.root # c
      BY <1>2, <1>9, <2>1, <2>2 DEF Passed
    <3>2. Par(u, t.root) = -1
      BY <2>1, <3>1 DEF Passed
    <3>3. new[t.root][0] = low /\ new[t.root][1] = high
      BY <1>2, <1>7, <2>1 DEF Sides
    <3>. QED
      BY <3>1, <3>2, <3>3 DEF Rooted
  <2>3. CASE t.root = i /\ c # -1
    <3>1. u.root = c /\ Par(u, c) = -1
      BY <1>9, <2>1, <2>3 DEF Passed
    <3>2. new[c][0] = low /\ new[c][1] = high
      BY <1>1, <1>9, <2>1, <2>3 DEF Sides
    <3>. QED
      BY <1>9, <2>3, <3>1, <3>2 DEF Rooted
  <2>4. CASE t.root = i /\ c = -1
    <3>1. T = {}
      <4>. SUFFICES ASSUME NEW x \in T PROVE FALSE
        OBVIOUS
      <4>1. \A r \in Sides : ~ Between(at[i], at[x], lim[i][r])
        BY <1>1, <1>4, <2>4
      <4>2. at[x] # at[i]
        BY DEF Places
      <4>3. ~ Between(at[i], at[x], low) /\ ~ Between(at[i], at[x], high)
        BY <2>1, <2>4, <4>1 DEF Sides
      <4>. QED
        BY <1>2, <4>2, <4>3 DEF Between
    <3>. QED
      BY <2>4, <3>1 DEF Rooted, Passed
  <2>. QED
    BY <2>2, <2>3, <2>4
<1>13. ASSUME NEW j \in T, NEW r \in Sides
       PROVE  Below(u, T, at, new, j, r)
  <2>. DEFINE k == Kid(t, j, r)
  <2>1. CASE k = i
    <3>1. j = p /\ p # -1
      BY <1>2, <1>4, <2>1 DEF p
    <3>2. r = side /\ Kid(u, j, r) = c
      BY <1>5, <2>1, <3>1 DEF Passed
    <3>3. lim[i][r] = lim[j][r] /\ lim[i][1 - r] = at[j]
      BY <1>5, <3>1, <3>2
    <3>4. CASE c = -1
      <4>1. \A x \in S, q \in Sides : ~ Between(at[i], at[x], lim[i][q])
        BY ZenonT(40), <1>1, <1>4, <3>4
      <4>2. \A x \in T : ~ Between(at[j], at[x], lim[j][r])
        <5>. SUFFICES ASSUME NEW x \in T, Between(at[j], at[x], lim[j][r]) PROVE FALSE
          OBVIOUS
        <5>1. at[x] # at[i]
          BY DEF Places
        <5>2. ~ Between(at[i], at[x], lim[j][r]) /\ ~ Between(at[i], at[x], at[j])
          BY <3>3, <4>1, SidesAre
        <5>3. Inside(at, lim, i)
          BY <1>3
        <5>. QED
          BY <1>2, <5>1, <5>2 DEF Between
      <4>3. new[j][r] = lim[j][r]
        <5>1. lim[j][r] # at[i]
          BY <1>2, <3>3
        <5>. QED
          BY <1>7, <5>1
      <4>. QED
        BY <3>2, <3>4, <4>2, <4>3 DEF Below
    <3>5. CASE c # -1
      <4>1. Par(u, c) = j
        BY <1>9, <3>1, <3>5 DEF Passed, p
      <4>2. new[j][r] = lim[i][r]
        <5>1. lim[j][r] # at[i]
          BY <1>2, <3>3
        <5>. QED
          BY <1>7, <3>3, <5>1
      <4>3. \A q \in Sides : new[c][q] = lim[i][q]
        BY <1>1, <1>9, <3>5
      <4>. QED
        BY <1>9, <3>2, <3>3, <3>5, <4>1, <4>2, <4>3, SidesAre DEF Below
    <3>. QED
      BY <3>4, <3>5
  <2>2. CASE k # i
    <3>1. Kid(u, j, r) = k
      BY <2>2 DEF Passed
    <3>2. CASE k = -1
      <4>1. \A x \in S : ~ Between(at[j], at[x], lim[j][r])
        BY <1>4, <3>2
      <4>2. \A x \in T : ~ Between(at[j], at[x], new[j][r])
        <5>1. CASE lim[j][r] # at[i]
          BY <1>7, <4>1, <5>1
        <5>2. CASE lim[j][r] = at[i]
          <6>1. r = o
            BY <1>1, <1>6, <5>2
          <6>2. \A x \in S : ~ Between(at[i], at[x], lim[i][o])
            BY <1>1, <1>4
          <6>3. new[j][r] = lim[i][o]
            BY <1>8, <5>2, <6>1
          <6>4. \A x \in T : at[x] # at[i]
            BY DEF Places
          <6>. QED
            BY <1>1, <1>2, <4>1, <5>2, <6>2, <6>3, <6>4 DEF Between
        <5>. QED
          BY <5>1, <5>2
      <4>. QED
        BY <3>1, <3>2, <4>2 DEF Below
    <3>3. CASE k # -1
      <4>1. k \in T /\ Par(t, k) = j /\ lim[k][r] = lim[j][r] /\ lim[k][1 - r] = at[j]
        BY <1>4, <2>2, <3>3
      <4>2. k # c
        BY <1>2, <1>9, <4>1
      <4>3. Par(u, k) = j
        BY <4>1, <4>2 DEF Passed
      <4>4. new[k][r] = new[j][r]
        BY <1>7, <4>1
      <4>5. new[k][1 - r] = at[j]
        <5>1. at[j] # at[i]
          BY DEF Places
        <5>. QED
          BY <1>7, <4>1, <5>1, SidesAre
      <4>. QED
        BY <3>1, <4>1, <4>3, <4>4, <4>5 DEF Below
    <3>. QED
      BY <3>2, <3>3
  <2>. QED
    BY <2>1, <2>2
<1>. QED
  BY <1>7, <1>10, <1>11, <1>12, <1>13 DEF Linked, new

\* And the balances miss the level taken away.
LEMMA PassedWeighs ==
    ASSUME NEW D, NEW S, NEW at, NEW low, NEW high, NEW t, NEW lim,
           Places(D, S, at, low, high), Linked(D, S, at, low, high, t, lim),
           NEW i \in S, NEW s \in Sides, NEW o, o = 1 - s, Kid(t, i, o) = -1,
           NEW c, c = Kid(t, i, s), NEW u, Passed(S, t, u, i, c),
           NEW h, Weighed(D, S, t, h, -1, 0, 0)
    PROVE  Weighed(D, S \ {i}, u, h, Par(t, i), SideOf(t, Par(t, i), i), -1)
<1>. DEFINE p == Par(t, i)
            side == SideOf(t, p, i)
<1>1. o \in Sides /\ o # s /\ s = 1 - o /\ \A r \in Sides : r = s \/ r = o
  BY SidesAre
<1>2. \A j \in S : j \in D /\ j # -1
  BY ValuesAre
<1>3. h \in Heights(D)
  BY DEF Weighed
<1>4. \A j \in S : h[j] \in Nat
  BY <1>2, <1>3 DEF Heights
<1>5. p # -1 => /\ p \in S /\ p # i /\ side \in Sides /\ Kid(t, p, side) = i
                /\ \A r \in Sides : Kid(t, p, r) = i => r = side
  BY AboveIs
<1>6. \A j \in S, r \in Sides : Kid(t, j, r) \in S \cup {-1} /\ (Kid(t, j, r) # -1 => Par(t, Kid(t, j, r)) = j)
  BY KidsAre
<1>7. \A j \in S, r \in Sides : Counted(t, h, -1, 0, 0, j, r) = Level(t, h, j, r) /\ Level(t, h, j, r) \in Nat
  BY <1>2, <1>4, <1>6 DEF Counted, Level
<1>8. h[i] = 1 + Level(t, h, i, s)
  <2>1. Stands(Bal(t, i), h[i], s, Level(t, h, i, s), Level(t, h, i, o))
    <3>1. Stands(Bal(t, i), h[i], s, Counted(t, h, -1, 0, 0, i, s), Counted(t, h, -1, 0, 0, i, 1 - s))
      BY Zenon DEF Weighed
    <3>. QED
      BY <1>1, <1>7, <3>1
  <2>2. Level(t, h, i, o) = 0
    BY DEF Level
  <2>. QED
    BY <1>7, <2>1, <2>2 DEF Stands, Higher
<1>. HIDE DEF p, side
<1>9. ASSUME NEW j \in S \ {i}, NEW r \in Sides
      PROVE  Counted(u, h, p, side, -1, j, r) = Counted(t, h, -1, 0, 0, j, r)
  <2>1. CASE Kid(t, j, r) = i
    <3>1. j = p /\ p # -1
      BY <1>2, <1>6, <2>1 DEF p
    <3>2. r = side /\ Kid(u, j, r) = c
      BY <1>5, <2>1, <3>1 DEF Passed
    <3>3. Level(u, h, j, r) = Level(t, h, i, s)
      BY <3>2 DEF Level
    <3>4. Level(t, h, j, r) = h[i]
      BY <1>2, <2>1 DEF Level
    <3>5. Counted(u, h, p, side, -1, j, r) = Level(u, h, j, r) - (-1)
      BY <3>1, <3>2 DEF Counted
    <3>. QED
      BY <1>7, <1>8, <3>3, <3>4, <3>5
  <2>2. CASE Kid(t, j, r) # i
    <3>1. Kid(u, j, r) = Kid(t, j, r)
      BY <2>2 DEF Passed
    <3>2. ~ (j = p /\ r = side)
      BY <1>2, <1>5, <2>2
    <3>3. Level(u, h, j, r) = Level(t, h, j, r)
      BY <3>1 DEF Level
    <3>4. Counted(u, h, p, side, -1, j, r) = Level(u, h, j, r) - 0
      BY <3>2 DEF Counted
    <3>. QED
      BY <1>7, <3>3, <3>4
  <2>. QED
    BY <2>1, <2>2
<1>10. ASSUME NEW j \in S \ {i}, NEW r \in Sides
       PROVE  Stands(Bal(u, j), h[j], r, Counted(u, h, p, side, -1, j, r), Counted(u, h, p, side, -1, j, 1 - r))
  <2>1. Stands(Bal(t, j), h[j], r, Counted(t, h, -1, 0, 0, j, r), Counted(t, h, -1, 0, 0, j, 1 - r))
    BY Zenon DEF Weighed
  <2>2. Bal(u, j) = Bal(t, j) /\ 1 - r \in Sides
    BY SidesAre DEF Passed
  <2>. QED
    BY <1>9, <2>1, <2>2
<1>11. Weighed(D, S \ {i}, u, h, p, side, -1)
  BY <1>3, <1>10, Zenon DEF Weighed
<1>. QED
  BY <1>11 DEF p, side

\* The loop of avl_remove() ends in a sound tree.
LEMMA LoweredWhole ==
    ASSUME NEW D, NEW S, NEW at, NEW low, NEW high, Places(D, S, at, low, high), IsFiniteSet(D),
           NEW t, NEW lim, Linked(D, S, at, low, high, t, lim),
           NEW w, NEW side, NEW h, Weighed(D, S, t, h, w, side, -1),
           NEW delta, w = -1 \/ (w \in S /\ side \in Sides /\ delta = Weight(side))
    PROVE  LET r == Lowered(t, w, delta) IN
           Whole(D, S, at, low, high, r) /\ r \in Trees(D) /\ SameStates(D, t, r)
<1>. DEFINE N == Cardinality(D)
            r == Lowered(t, w, delta)
<1>1. t \in Trees(D)
  BY DEF Linked
<1>2. PICK f : Runs(f, -1, t, w, delta, N) /\ r = f[N].tree
  <2>1. N \in Nat /\ N = Cardinality(DOMAIN t.meta)
    BY <1>1, LexedIs, FS_CardinalityType
  <2>. QED
    BY <2>1, LoweredRuns
<1>3. Whole(D, S, at, low, high, f[N].tree) /\ SameStates(D, t, f[N].tree)
  <2>1. -1 \in {-1, 1} /\ N = Cardinality(D)
    OBVIOUS
  <2>2. w = -1 \/ (w \in S /\ side \in Sides /\ delta = Weight(side) /\ (-1 = 1 => Grown(t, h, w, side)))
    OBVIOUS
  <2>. HIDE DEF N
  <2>. QED
    BY <1>2, <2>1, <2>2, RunsWhole
<1>4. Whole(D, S, at, low, high, r) /\ SameStates(D, t, r)
  BY <1>2, <1>3
<1>. HIDE DEF r
<1>5. r \in Trees(D)
  BY <1>4 DEF Whole, Linked
<1>. QED
  BY <1>4, <1>5 DEF r

\* The root is the slot without a parent.
LEMMA RootIsHung ==
    ASSUME NEW D, NEW S, NEW at, NEW low, NEW high, NEW t, NEW lim,
           Places(D, S, at, low, high), Linked(D, S, at, low, high, t, lim), NEW i \in S
    PROVE  (Par(t, i) = -1 <=> t.root = i) /\ Par(t, i) \in S \cup {-1}
<1>1. Hung(t, S, i) /\ Rooted(t, S, lim, low, high) /\ i # -1
  BY ValuesAre DEF Linked
<1>2. -1 \notin S
  BY ValuesAre
<1>. QED
  BY <1>1, <1>2 DEF Hung, Rooted

\* A slot with at most one child is taken out of a sound tree.
LEMMA BypassedIs ==
    ASSUME NEW D, NEW S, NEW at, NEW low, NEW high, Places(D, S, at, low, high), IsFiniteSet(D),
           NEW t, Whole(D, S, at, low, high, t), NEW i \in S, \E o \in Sides : Kid(t, i, o) = -1
    PROVE  LET r == Bypassed(t, i) IN
           Whole(D, S \ {i}, at, low, high, r) /\ r \in Trees(D) /\ SameStates(D, t, r)
<1>. DEFINE p == Par(t, i)
            side == SideOf(t, p, i)
            s == IF Kid(t, i, 0) >= 0 THEN 0 ELSE 1
            o == 1 - s
            c == Kid(t, i, s)
            u == Replace(t, p, i, c)
            v == IF c < 0 THEN u ELSE WithParent(u, c, p)
            T == S \ {i}
<1>1. Bypassed(t, i) = Lowered(v, p, Weight(side))
  BY Zenon DEF Bypassed, Par, Kid
<1>2. PICK lim, h : Linked(D, S, at, low, high, t, lim) /\ Weighed(D, S, t, h, -1, 0, 0)
  BY Zenon DEF Whole
<1>3. S \subseteq D /\ D \subseteq Nat /\ i \in D /\ i # -1
  BY DEF Places
<1>4. \A r \in Sides : Kid(t, i, r) \in S \cup {-1}
  BY <1>2, KidsAre
<1>5. s \in Sides /\ Kid(t, i, o) = -1 /\ o = 1 - s
  <2>1. 0 \in Sides /\ 1 \in Sides /\ \A x \in Sides : x = 0 \/ x = 1
    BY DEF Sides
  <2>0. \A x \in S \cup {-1} : x = -1 \/ x >= 0
    BY <1>3
  <2>2. \A r \in Sides : Kid(t, i, r) = -1 \/ Kid(t, i, r) >= 0
    BY <1>4, <2>0, Zenon
  <2>3. CASE Kid(t, i, 0) >= 0
    <3>1. s = 0 /\ o = 1 /\ Kid(t, i, 0) # -1
      BY <2>3
    <3>. QED
      BY <2>1, <3>1
  <2>4. CASE ~ (Kid(t, i, 0) >= 0)
    <3>1. s = 1 /\ o = 0 /\ Kid(t, i, 0) = -1
      BY <2>1, <2>2, <2>4
    <3>. QED
      BY <2>1, <3>1
  <2>. QED
    BY <2>3, <2>4
<1>50. c = Kid(t, i, s) /\ p = Par(t, i)
  OBVIOUS
<1>. HIDE DEF s, o
<1>6. c \in S \cup {-1} /\ (c # -1 => Par(t, c) = i) /\ c # i /\ c \in D \cup {-1}
  <2>1. c \in S \cup {-1} /\ (c # -1 => Par(t, c) = i) /\ c # i
    BY <1>2, <1>5, KidsAre
  <2>. QED
    BY <1>3, <2>1
<1>7. p \in S \cup {-1} /\ p \in D \cup {-1} /\ (p = -1 <=> t.root = i)
  <2>1. p \in S \cup {-1} /\ (p = -1 <=> t.root = i)
    BY <1>2, RootIsHung
  <2>. QED
    BY <1>3, <2>1
<1>8. p # -1 => /\ p \in S /\ p # i /\ side \in Sides /\ Kid(t, p, side) = i
                /\ \A r \in Sides : Kid(t, p, r) = i => r = side
  BY <1>2, AboveIs
<1>9. t \in Trees(D)
  BY <1>2 DEF Linked
<1>10. c = Kid(t, i, s) /\ p = Par(t, i) /\ side = SideOf(t, p, i)
  OBVIOUS
<1>. HIDE DEF c, p, side
<1>11. /\ u \in Trees(D) /\ u.root = (IF p = -1 THEN c ELSE t.root)
       /\ ChildSet(D, t, u, p, side, c)
       /\ SameParents(D, t, u) /\ SameBalances(D, t, u) /\ SameStates(D, t, u)
  <2>. DEFINE w == Replace(t, p, i, c)
  <2>1. /\ w \in Trees(D) /\ w.root = (IF p = -1 THEN c ELSE t.root)
        /\ ChildSet(D, t, w, p, SideOf(t, p, i), c)
        /\ SameParents(D, t, w) /\ SameBalances(D, t, w) /\ SameStates(D, t, w)
    BY <1>3, <1>6, <1>7, <1>9, ReplaceIs
  <2>. QED
    BY <1>10, <2>1
<1>. HIDE DEF u
<1>12. /\ v \in Trees(D) /\ v.root = u.root /\ SameKids(D, u, v)
       /\ SameBalances(D, u, v) /\ SameStates(D, u, v)
       /\ \A j \in D : Par(v, j) = IF j = c THEN p ELSE Par(u, j)
  <2>1. CASE c = -1
    <3>1. v = u
      BY <2>1
    <3>2. \A j \in D : j # c
      BY <1>3, <2>1
    <3>. QED
      BY <1>11, <3>1, <3>2 DEF SameKids, SameBalances, SameStates
  <2>2. CASE c \in D
    <3>1. v = WithParent(u, c, p) /\ p \in Int
      BY <1>3, <1>7, <2>2
    <3>2. /\ v.root = u.root /\ ParentSet(D, u, v, c, p) /\ v \in Trees(D)
          /\ SameKids(D, u, v) /\ SameBalances(D, u, v) /\ SameStates(D, u, v)
      BY <1>11, <2>2, <3>1, ParentIs, ZenonT(30)
    <3>. QED
      BY <3>2 DEF ParentSet
  <2>. QED
    BY <1>6, <2>1, <2>2
<1>. HIDE DEF v
<1>13. \A j \in S, r \in Sides : Kid(t, j, r) = i => j = p /\ p # -1
  BY <1>2, <1>3, <1>10, KidsAre, ValuesAre
<1>14. Passed(S, t, v, i, c)
  <2>1. v.root = (IF t.root = i THEN c ELSE t.root)
    BY <1>7, <1>11, <1>12
  <2>2. ASSUME NEW j \in S \ {i}
        PROVE  /\ Par(v, j) = (IF j = c THEN Par(t, i) ELSE Par(t, j))
               /\ Bal(v, j) = Bal(t, j)
               /\ \A r \in Sides : Kid(v, j, r) = IF Kid(t, j, r) = i THEN c ELSE Kid(t, j, r)
    <3>1. j \in D
      BY <1>3
    <3>2. Par(v, j) = (IF j = c THEN Par(t, i) ELSE Par(t, j)) /\ Bal(v, j) = Bal(t, j)
      BY <1>10, <1>11, <1>12, <3>1 DEF SameParents, SameBalances
    <3>3. ASSUME NEW r \in Sides
          PROVE  Kid(v, j, r) = IF Kid(t, j, r) = i THEN c ELSE Kid(t, j, r)
      <4>1. Kid(v, j, r) = IF j = p /\ r = side THEN c ELSE Kid(t, j, r)
        BY <1>11, <1>12, <3>1 DEF SameKids, ChildSet
      <4>2. Kid(t, j, r) = i <=> j = p /\ r = side
        BY <1>3, <1>8, <1>13, <3>1
      <4>. QED
        BY <4>1, <4>2
    <3>. QED
      BY <3>2, <3>3
  <2>. QED
    BY <2>1, <2>2, Zenon DEF Passed
<1>15. Linked(D, T, at, low, high, v, PassedLimits(D, at, lim, i))
  BY <1>2, <1>5, <1>10, <1>12, <1>14, PassedLinks
<1>16. Weighed(D, T, v, h, p, side, -1)
  BY <1>2, <1>5, <1>10, <1>14, PassedWeighs
<1>17. Places(D, T, at, low, high)
  BY DEF Places
<1>. DEFINE r == Lowered(v, p, Weight(side))
<1>18. Whole(D, T, at, low, high, r) /\ r \in Trees(D) /\ SameStates(D, v, r)
  <2>1. p = -1 \/ (p \in T /\ side \in Sides /\ Weight(side) = Weight(side))
    BY <1>7, <1>8
  <2>. HIDE DEF T
  <2>. QED
    BY <1>15, <1>16, <1>17, <2>1, LoweredWhole
<1>19. SameStates(D, t, r)
  BY <1>11, <1>12, <1>18 DEF SameStates
<1>. QED
  BY <1>1, <1>18, <1>19

----------------------------------------------------------------------------
(* Removal of a slot with two children *)

\* The slot at the end of a subtree.
EndsAt(S, t, lim, j, side, e) == e \in S /\ Kid(t, e, side) = -1 /\ lim[e][side] = lim[j][side]

\* Walking down one side ends there.
LEMMA ExtremeIs ==
    ASSUME NEW D, NEW S, NEW at, NEW low, NEW high, NEW t, NEW lim,
           Places(D, S, at, low, high), Linked(D, S, at, low, high, t, lim), IsFiniteSet(D),
           Lexed(t) = S, NEW i \in S, NEW side \in Sides
    PROVE  EndsAt(S, t, lim, i, side, Extreme(t, i, side))
<1>. DEFINE nx == [j \in S |-> Kid(t, j, side)]
            end == {j \in S : nx[j] < 0}
            val == [j \in S |-> j]
            P(g) == g = [j \in S |-> IF Kid(t, j, side) < 0 THEN j ELSE g[Kid(t, j, side)]]
            f == CHOOSE g : P(g)
<1>1. Extreme(t, i, side) = f[i]
  BY Zenon DEF Extreme, Kid
<1>2. \A g : P(g) <=> Walked(g, S, end, val, nx)
  BY DEF Walked
<1>3. \A j \in S : nx[j] = Kid(t, j, side) /\ nx[j] \in S \cup {-1} /\ j \in Nat
  BY KidsAre, ValuesAre
<1>4. \E g : P(g)
  <2>1. PICK m : /\ \A j \in S : m[j] \in Nat /\ m[j] < Cardinality(D) + 1
                 /\ \A j \in S, s \in Sides : Kid(t, j, s) # -1 => m[Kid(t, j, s)] < m[j]
                 /\ Cardinality(D) + 1 \in Nat
    BY Descends
  <2>2. \A j \in S \ end : nx[j] \in S /\ m[nx[j]] < m[j]
    BY <1>3, <2>1
  <2>. HIDE DEF nx, end, val
  <2>3. \E g : Walked(g, S, end, val, nx)
    BY <2>1, <2>2, Walks
  <2>. QED
    BY <1>2, <2>3
<1>5. P(f)
  <2>. HIDE DEF P
  <2>. QED
    BY <1>4, Zenon
<1>6. \A j \in S : f[j] = IF Kid(t, j, side) = -1 THEN j ELSE f[Kid(t, j, side)]
  <2>. SUFFICES ASSUME NEW j \in S
                PROVE  f[j] = IF Kid(t, j, side) = -1 THEN j ELSE f[Kid(t, j, side)]
    OBVIOUS
  <2>1. f[j] = IF Kid(t, j, side) < 0 THEN j ELSE f[Kid(t, j, side)]
    <3>. HIDE DEF f
    <3>. QED
      BY <1>5, Zenon
  <2>2. Kid(t, j, side) < 0 <=> Kid(t, j, side) = -1
    BY <1>3
  <2>. QED
    BY <2>1, <2>2
<1>. HIDE DEF f, nx, end, val, P
<1>. DEFINE good == {j \in S : EndsAt(S, t, lim, j, side, f[j])}
<1>7. ASSUME NEW j \in S, \A s \in Sides : Kid(t, j, s) = -1 \/ Kid(t, j, s) \in good
      PROVE  j \in good
  <2>1. CASE Kid(t, j, side) = -1
    BY <1>6, <2>1 DEF EndsAt
  <2>2. CASE Kid(t, j, side) # -1
    <3>1. EndsAt(S, t, lim, Kid(t, j, side), side, f[Kid(t, j, side)])
      BY <1>7, <2>2
    <3>2. lim[Kid(t, j, side)][side] = lim[j][side]
      BY <2>2, KidsAre
    <3>. QED
      BY <1>6, <2>2, <3>1, <3>2 DEF EndsAt
  <2>. QED
    BY <2>1, <2>2
<1>. HIDE DEF good
<1>8. i \in good
  BY <1>7, Downward
<1>. QED
  BY <1>1, <1>8 DEF good

\* The slot that takes the place of one with two children.
Successor(S, at, t, lim, i, s, q) ==
    /\ s \in S /\ q \in S /\ q = Par(t, s) /\ s # i /\ q # s /\ Kid(t, s, 0) = -1 /\ lim[s][0] = at[i]
    /\ at[i] < at[s] /\ \A x \in S : ~ Between(at[i], at[x], at[s])
    /\ IF q = i THEN Kid(t, i, 1) = s /\ SideOf(t, q, s) = 1
       ELSE Kid(t, q, 0) = s /\ SideOf(t, q, s) = 0

\* The leftmost slot on the right side is the next in order.
LEMMA SuccessorIs ==
    ASSUME NEW D, NEW S, NEW at, NEW low, NEW high, NEW t, NEW lim,
           Places(D, S, at, low, high), Linked(D, S, at, low, high, t, lim), IsFiniteSet(D),
           Lexed(t) = S, NEW i \in S, Kid(t, i, 1) # -1,
           NEW s, s = Extreme(t, Kid(t, i, 1), 0)
    PROVE  Successor(S, at, t, lim, i, s, Par(t, s))
<1>. DEFINE q == Par(t, s)
            side == SideOf(t, q, s)
<1>1. 0 \in Sides /\ 1 \in Sides
  BY DEF Sides
<1>2. Kid(t, i, 1) \in S /\ lim[Kid(t, i, 1)][0] = at[i]
  BY <1>1, KidsAre
<1>3. s \in S /\ Kid(t, s, 0) = -1 /\ lim[s][0] = at[i]
  BY <1>1, <1>2, ExtremeIs DEF EndsAt
<1>4. /\ \A x \in S : low < at[x] /\ at[x] \in Int /\ low \in Int /\ x # -1
      /\ \A x, y \in S : at[x] = at[y] => x = y
  BY ValuesAre DEF Places
<1>5. at[i] < at[s] /\ \A x \in S : ~ Between(at[i], at[x], at[s])
  <2>1. Inside(at, lim, s)
    BY <1>3 DEF Linked
  <2>2. \A x \in S : ~ Between(at[s], at[x], lim[s][0])
    BY <1>1, <1>3, KidsAre
  <2>. QED
    BY <1>3, <2>1, <2>2 DEF Inside, Between
<1>6. q # -1
  <2>. SUFFICES ASSUME q = -1 PROVE FALSE
    OBVIOUS
  <2>1. t.root = s
    BY <1>3, RootIsHung
  <2>2. lim[s][0] = low
    BY <1>3, <2>1 DEF Linked, Rooted
  <2>3. low < at[i] /\ at[i] \in Int /\ low \in Int
    BY <1>4
  <2>. QED
    BY <1>3, <2>2, <2>3
<1>7. /\ q \in S /\ q # s /\ side \in Sides /\ Kid(t, q, side) = s
      /\ lim[s][side] = lim[q][side] /\ lim[s][1 - side] = at[q]
  BY <1>3, <1>6, AboveIs
<1>8. lim[q][0] # at[q]
  BY <1>1, <1>7, ValuesAre
<1>. HIDE DEF side
<1>9. CASE side = 0
  BY <1>3, <1>4, <1>5, <1>7, <1>8, <1>9 DEF Successor, side
<1>10. CASE side = 1
  <2>1. q = i
    BY <1>3, <1>4, <1>7, <1>10
  <2>. QED
    BY <1>3, <1>4, <1>5, <1>7, <1>10, <2>1 DEF Successor, side
<1>. QED
  BY <1>7, <1>9, <1>10 DEF Sides

\* x, with s for i.
Instead(i, s, x) == IF x = i THEN s ELSE x

\* Slot s has all that i had.
Renamed(S, t, v, i, s) ==
    /\ v.root = Instead(i, s, t.root)
    /\ \A j \in S :
          /\ Par(v, Instead(i, s, j)) = Instead(i, s, Par(t, j))
          /\ Bal(v, Instead(i, s, j)) = Bal(t, j)
          /\ \A r \in Sides : Kid(v, Instead(i, s, j), r) = Instead(i, s, Kid(t, j, r))

\* Limits and heights go with the names.
RenamedLimits(D, at, lim, i, s) ==
    [k \in D |-> [r \in Sides |-> Instead(at[i], at[s], lim[Instead(s, i, k)][r])]]

RenamedHeights(D, h, i, s) == [k \in D |-> h[Instead(s, i, k)]]

\* The names of S are changed into those of T, one to one.
Renames(S, T, i, s) ==
    /\ \A j \in S : Instead(i, s, j) \in T /\ Instead(s, i, Instead(i, s, j)) = j
    /\ \A k \in T : \E j \in S : k = Instead(i, s, j)
    /\ \A j, k \in S : Instead(i, s, j) = Instead(i, s, k) => j = k
    /\ \A j \in S \cup {-1} : Instead(i, s, j) = -1 <=> j = -1

\* A slot not in the tree can take the name of one that is.
LEMMA Renaming ==
    ASSUME NEW S, NEW i \in S, NEW s, s \notin S, s # -1, -1 \notin S
    PROVE  Renames(S, (S \ {i}) \cup {s}, i, s)
<1>. DEFINE T == (S \ {i}) \cup {s}
<1>1. \A k \in T : \E j \in S : k = Instead(i, s, j)
  <2>. SUFFICES ASSUME NEW k \in T PROVE \E j \in S : k = Instead(i, s, j)
    OBVIOUS
  <2>1. k = s => k = Instead(i, s, i)
    BY DEF Instead
  <2>2. k # s => k \in S /\ k = Instead(i, s, k)
    BY DEF Instead
  <2>. QED
    BY <2>1, <2>2
<1>. QED
  BY <1>1 DEF Instead, Renames

\* Balances are as right under the new name.
LEMMA RenamedWeighs ==
    ASSUME NEW D, NEW S, S \subseteq D, D \subseteq Nat, NEW i \in S, NEW s \in D \ S,
           NEW t, \A j \in S, r \in Sides : Kid(t, j, r) \in S \cup {-1},
           NEW h, NEW w \in S \cup {-1}, NEW side, NEW d, Weighed(D, S, t, h, w, side, d),
           NEW v, Renamed(S, t, v, i, s)
    PROVE  Weighed(D, (S \ {i}) \cup {s}, v, RenamedHeights(D, h, i, s), Instead(i, s, w), side, d)
<1>. DEFINE T == (S \ {i}) \cup {s}
            n == RenamedHeights(D, h, i, s)
            e == Instead(i, s, w)
<1>1. /\ \A j \in S : Instead(i, s, j) \in T /\ Instead(s, i, Instead(i, s, j)) = j
      /\ \A k \in T : \E j \in S : k = Instead(i, s, j)
      /\ \A j, k \in S : Instead(i, s, j) = Instead(i, s, k) => j = k
      /\ \A j \in S \cup {-1} : Instead(i, s, j) = -1 <=> j = -1
  <2>1. s # -1 /\ -1 \notin S /\ s \notin S
    OBVIOUS
  <2>2. Renames(S, T, i, s)
    BY <2>1, Renaming
  <2>. HIDE DEF T
  <2>. QED
    BY <2>2, Zenon DEF Renames
<1>2. T \subseteq D
  OBVIOUS
<1>. HIDE DEF T
<1>3. h \in Heights(D)
  BY DEF Weighed
<1>4. n \in Heights(D) /\ \A j \in S : n[Instead(i, s, j)] = h[j]
  <2>1. ASSUME NEW k \in D PROVE h[Instead(s, i, k)] \in Nat
    BY <1>3 DEF Heights, Instead
  <2>2. n \in Heights(D) /\ \A k \in D : n[k] = h[Instead(s, i, k)]
    BY <2>1 DEF RenamedHeights, Heights
  <2>3. \A j \in S : Instead(i, s, j) \in D
    BY <1>1, <1>2
  <2>. QED
    BY <1>1, <2>2, <2>3
<1>. HIDE DEF n
<1>5. ASSUME NEW j \in S, NEW r \in Sides
      PROVE  Counted(v, n, e, side, d, Instead(i, s, j), r) = Counted(t, h, w, side, d, j, r)
  <2>. DEFINE k == Instead(i, s, j)
  <2>1. Kid(v, k, r) = Instead(i, s, Kid(t, j, r))
    BY DEF Renamed
  <2>2. Level(v, n, k, r) = Level(t, h, j, r)
    BY <1>1, <1>4, <2>1 DEF Level
  <2>3. k = e <=> j = w
    BY <1>1
  <2>. HIDE DEF k, e
  <2>4. Counted(v, n, e, side, d, k, r) = Counted(t, h, w, side, d, j, r)
    BY <2>2, <2>3 DEF Counted
  <2>. QED
    BY <2>4 DEF k
<1>6. ASSUME NEW k \in T, NEW r \in Sides
      PROVE  Stands(Bal(v, k), n[k], r, Counted(v, n, e, side, d, k, r), Counted(v, n, e, side, d, k, 1 - r))
  <2>1. PICK j \in S : k = Instead(i, s, j)
    BY <1>1
  <2>2. Stands(Bal(t, j), h[j], r, Counted(t, h, w, side, d, j, r), Counted(t, h, w, side, d, j, 1 - r))
    BY Zenon DEF Weighed
  <2>3. Bal(v, k) = Bal(t, j) /\ 1 - r \in Sides /\ n[k] = h[j]
    BY <1>4, <2>1, SidesAre DEF Renamed
  <2>4. /\ Counted(v, n, e, side, d, k, r) = Counted(t, h, w, side, d, j, r)
        /\ Counted(v, n, e, side, d, k, 1 - r) = Counted(t, h, w, side, d, j, 1 - r)
    BY <1>5, <2>1, <2>3
  <2>. QED
    BY <2>2, <2>3, <2>4
<1>7. Weighed(D, T, v, n, e, side, d)
  BY <1>4, <1>6, Zenon DEF Weighed
<1>. QED
  BY <1>7 DEF n, T

\* No value but a is at b, or between it and a.
Apart(V, a, b) ==
    /\ a \in Int /\ b \in Int
    /\ \A x \in V : x \in Int /\ (x = a \/ (x # b /\ (x < a <=> x < b)))

\* Then b can stand for a.
LEMMA InOrderStill ==
    ASSUME NEW V, NEW a, NEW b, Apart(V, a, b)
    PROVE  \A x, y \in V : /\ Instead(a, b, x) \in Int
                           /\ x < y <=> Instead(a, b, x) < Instead(a, b, y)
<1>. SUFFICES ASSUME NEW x \in V, NEW y \in V
              PROVE  Instead(a, b, x) \in Int /\ (x < y <=> Instead(a, b, x) < Instead(a, b, y))
  OBVIOUS
<1>1. /\ a \in Int /\ b \in Int /\ x \in Int /\ (x = a \/ (x # b /\ (x < a <=> x < b)))
      /\ y \in Int /\ (y = a \/ (y # b /\ (y < a <=> y < b)))
  BY DEF Apart
<1>. QED
  BY <1>1 DEF Instead

\* The places and bounds.
Values(S, at, low, high) == {low, high} \cup {at[x] : x \in S}

\* The links are as right under the new name, when no place lies between the two.
LEMMA RenamedLinks ==
    ASSUME NEW D, NEW S, NEW at, NEW low, NEW high, NEW s \in D \ S,
           Places(D, S \cup {s}, at, low, high), IsFiniteSet(D),
           NEW t, NEW lim, Linked(D, S, at, low, high, t, lim),
           NEW i \in S, Apart(Values(S, at, low, high), at[i], at[s]),
           NEW v \in Trees(D), Renamed(S, t, v, i, s)
    PROVE  Linked(D, (S \ {i}) \cup {s}, at, low, high, v, RenamedLimits(D, at, lim, i, s))
<1>. DEFINE T == (S \ {i}) \cup {s}
            new == RenamedLimits(D, at, lim, i, s)
            V == Values(S, at, low, high)
            To(x) == Instead(at[i], at[s], x)
            N(j) == Instead(i, s, j)
<1>0. Places(D, S, at, low, high)
  BY DEF Places
<1>1. /\ \A j \in S : N(j) \in T /\ Instead(s, i, N(j)) = j
      /\ \A k \in T : \E j \in S : k = N(j)
      /\ \A j, k \in S : N(j) = N(k) => j = k
      /\ \A j \in S \cup {-1} : N(j) = -1 <=> j = -1
  <2>1. s # -1 /\ -1 \notin S /\ s \notin S
    BY DEF Places
  <2>2. Renames(S, T, i, s)
    BY <2>1, Renaming
  <2>. HIDE DEF T
  <2>. QED
    BY <2>2, Zenon DEF Renames
<1>2. T \subseteq D
  BY DEF Places
<1>. HIDE DEF T
<1>3. \A x, y \in V : To(x) \in Int /\ (x < y <=> To(x) < To(y))
  BY InOrderStill
<1>4. \A x \in V : x \in Int
  BY DEF Apart
<1>5. low \in V /\ high \in V /\ (\A j \in S : at[j] \in V) /\ To(low) = low /\ To(high) = high
  <2>1. low # at[i] /\ high # at[i]
    BY DEF Places
  <2>. QED
    BY <2>1 DEF Values, Instead
<1>6. \A j \in S, r \in Sides : lim[j][r] \in V
  <2>. SUFFICES ASSUME NEW j \in S, NEW r \in Sides PROVE lim[j][r] \in V
    OBVIOUS
  <2>1. \/ lim[j][r] = IF r = 0 THEN low ELSE high
        \/ \E y \in S : lim[j][r] = at[y] /\ Kid(t, y, 1 - r) # -1
    BY <1>0, Bounded
  <2>. QED
    BY <1>5, <2>1
<1>7. \A j \in S : at[N(j)] = To(at[j])
  <2>. SUFFICES ASSUME NEW j \in S PROVE at[N(j)] = To(at[j])
    OBVIOUS
  <2>1. j # i => at[j] # at[i]
    BY DEF Places
  <2>. QED
    BY <2>1 DEF Instead
<1>8. new \in Limits(D) /\ \A j \in S, r \in Sides : new[N(j)][r] = To(lim[j][r])
  <2>. DEFINE Row(k) == [r \in Sides |-> To(lim[Instead(s, i, k)][r])]
  <2>1. ASSUME NEW k \in D PROVE Row(k) \in [Sides -> Int]
    <3>1. Instead(s, i, k) \in D /\ at[s] \in Int
      BY DEF Instead, Places
    <3>2. \A r \in Sides : lim[Instead(s, i, k)][r] \in Int
      BY <3>1 DEF Linked, Limits
    <3>. QED
      BY <3>1, <3>2 DEF Instead
  <2>2. new = [k \in D |-> Row(k)]
    BY Zenon DEF RenamedLimits
  <2>3. \A k \in D, r \in Sides : Row(k)[r] = To(lim[Instead(s, i, k)][r])
    OBVIOUS
  <2>. HIDE DEF Row, new, To, N
  <2>4. new \in Limits(D) /\ \A k \in D : new[k] = Row(k)
    BY <2>1, <2>2 DEF Limits
  <2>. QED
    BY <1>1, <1>2, <2>3, <2>4
<1>. HIDE DEF new, V
<1>9. ASSUME NEW x \in V, NEW y \in V, NEW z \in V
      PROVE  Between(To(x), To(y), To(z)) <=> Between(x, y, z)
  <2>. HIDE DEF To
  <2>. QED
    BY <1>3 DEF Between
<1>. HIDE DEF To
<1>10. /\ v.root = N(t.root)
       /\ \A j \in S : /\ Par(v, N(j)) = N(Par(t, j))
                       /\ \A r \in Sides : Kid(v, N(j), r) = N(Kid(t, j, r))
  BY Zenon DEF Renamed
<1>. HIDE DEF N
<1>11. Rooted(v, T, new, low, high)
  <2>1. t.root \in S /\ Par(t, t.root) = -1 /\ lim[t.root][0] = low /\ lim[t.root][1] = high
    BY DEF Linked, Rooted
  <2>2. new[N(t.root)][0] = low /\ new[N(t.root)][1] = high
    BY <1>5, <1>8, <2>1 DEF Sides
  <2>. QED
    BY <1>1, <1>10, <2>1, <2>2 DEF Rooted
<1>12. ASSUME NEW k \in T
       PROVE  Hung(v, T, k) /\ Inside(at, new, k) /\ \A r \in Sides : Below(v, T, at, new, k, r)
  <2>1. PICK j \in S : k = N(j)
    BY <1>1
  <2>2. Hung(t, S, j) /\ Inside(at, lim, j)
    BY DEF Linked
  <2>3. Hung(v, T, k)
    <3>1. CASE Par(t, j) = -1
      BY <1>1, <1>10, <2>1, <2>2, <3>1 DEF Hung
    <3>2. CASE Par(t, j) # -1
      <4>1. Par(t, j) \in S /\ \E r \in Sides : Kid(t, Par(t, j), r) = j
        BY <2>2, <3>2 DEF Hung
      <4>2. PICK r \in Sides : Kid(t, Par(t, j), r) = j
        BY <4>1
      <4>3. Par(v, k) = N(Par(t, j)) /\ Par(v, k) \in T
        BY <1>1, <1>10, <2>1, <4>1
      <4>4. Kid(v, Par(v, k), r) = k
        BY <1>10, <2>1, <4>1, <4>2, <4>3
      <4>. QED
        BY <4>3, <4>4 DEF Hung
    <3>. QED
      BY <3>1, <3>2
  <2>4. Inside(at, new, k)
    <3>1. 0 \in Sides /\ 1 \in Sides
      BY DEF Sides
    <3>2. lim[j][0] < at[j] /\ at[j] < lim[j][1]
      BY <2>2 DEF Inside
    <3>3. To(lim[j][0]) < To(at[j]) /\ To(at[j]) < To(lim[j][1])
      BY <1>3, <1>5, <1>6, <3>1, <3>2
    <3>. QED
      BY <1>7, <1>8, <2>1, <3>1, <3>3 DEF Inside
  <2>5. ASSUME NEW r \in Sides
        PROVE  Below(v, T, at, new, k, r)
    <3>. DEFINE c == Kid(t, j, r)
    <3>1. /\ c \in S \cup {-1}
          /\ c = -1 => \A x \in S : ~ Between(at[j], at[x], lim[j][r])
          /\ c # -1 => c \in S /\ Par(t, c) = j /\ lim[c][r] = lim[j][r] /\ lim[c][1 - r] = at[j]
      BY <1>0, KidsAre
    <3>2. Kid(v, k, r) = N(c)
      BY <1>10, <2>1
    <3>. HIDE DEF c
    <3>3. CASE c = -1
      <4>1. ASSUME NEW y \in T PROVE ~ Between(at[k], at[y], new[k][r])
        <5>1. PICK x \in S : y = N(x)
          BY <1>1
        <5>2. at[k] = To(at[j]) /\ at[y] = To(at[x]) /\ new[k][r] = To(lim[j][r])
          BY <1>7, <1>8, <2>1, <5>1
        <5>3. ~ Between(at[j], at[x], lim[j][r])
          BY <3>1, <3>3
        <5>4. at[j] \in V /\ at[x] \in V /\ lim[j][r] \in V
          BY <1>5, <1>6
        <5>. QED
          BY <1>9, <5>2, <5>3, <5>4
      <4>2. Kid(v, k, r) = -1
        BY <1>1, <3>2, <3>3
      <4>. QED
        BY <4>1, <4>2 DEF Below
    <3>4. CASE c # -1
      <4>1. c \in S /\ Par(t, c) = j /\ lim[c][r] = lim[j][r] /\ lim[c][1 - r] = at[j]
        BY <3>1, <3>4
      <4>2. N(c) \in T /\ Par(v, N(c)) = k
        BY <1>1, <1>10, <2>1, <4>1
      <4>3. new[N(c)][r] = new[k][r]
        BY <1>8, <2>1, <4>1
      <4>4. new[N(c)][1 - r] = at[k]
        BY <1>7, <1>8, <2>1, <4>1, SidesAre
      <4>. QED
        BY <3>2, <4>2, <4>3, <4>4 DEF Below
    <3>. QED
      BY <3>3, <3>4
  <2>. QED
    BY <2>3, <2>4, <2>5
<1>13. Linked(D, T, at, low, high, v, new)
  BY <1>8, <1>11, <1>12 DEF Linked
<1>. QED
  BY <1>13 DEF T, new

\* Slot s has come to the place of i, with a as its left child.
Crowned(D, m, v, s, p, side, a, b) ==
    /\ v \in Trees(D) /\ v.root = (IF p = -1 THEN s ELSE m.root) /\ SameStates(D, m, v)
    /\ \A j \in D : /\ Par(v, j) = (IF j = s THEN p ELSE IF j = a THEN s ELSE Par(m, j))
                    /\ Bal(v, j) = (IF j = s THEN b ELSE Bal(m, j))
    /\ \A j \in D, r \in Sides :
          Kid(v, j, r) = IF j = p /\ r = side THEN s ELSE IF j = s /\ r = 0 THEN a ELSE Kid(m, j, r)

\* The last steps of a removal that put the successor in the place of i.
LEMMA Crowning ==
    ASSUME NEW D, D \subseteq Nat, NEW m \in Trees(D), NEW i \in D, NEW s \in D, NEW a \in D,
           NEW p \in D \cup {-1}, p # s, NEW b \in Int,
           NEW v, v = SetBalance(WithParent(Replace(Attach(m, s, 0, a), p, i, s), s, p), s, b)
    PROVE  Crowned(D, m, v, s, p, SideOf(m, p, i), a, b)
<1>. DEFINE x == Attach(m, s, 0, a)
            u == Replace(x, p, i, s)
            y == WithParent(u, s, p)
            side == SideOf(m, p, i)
<1>0. 0 \in Sides /\ 1 \in Sides /\ p \in Int /\ a \in D \cup {-1} /\ s \in D \cup {-1} /\ s # -1
  BY DEF Sides
<1>1. Attached(D, m, x, s, 0, a)
  BY <1>0, Attaching
<1>. HIDE DEF x
<1>2. /\ x \in Trees(D) /\ x.root = m.root
      /\ \A j \in D : Par(x, j) = IF j = a THEN s ELSE Par(m, j)
      /\ \A j \in D, r \in Sides : Kid(x, j, r) = IF j = s /\ r = 0 THEN a ELSE Kid(m, j, r)
      /\ SameBalances(D, m, x) /\ SameStates(D, m, x)
  BY <1>1 DEF Attached, ParentSet, ChildSet
<1>3. SideOf(x, p, i) = side /\ side \in Sides
  <2>1. p \in D => Kid(x, p, 1) = Kid(m, p, 1)
    BY <1>0, <1>2
  <2>2. p >= 0 => p \in D
    OBVIOUS
  <2>. QED
    BY <1>0, <2>1, <2>2, SideOfIs
<1>. HIDE DEF side
<1>4. /\ u \in Trees(D) /\ u.root = (IF p = -1 THEN s ELSE x.root)
      /\ ChildSet(D, x, u, p, SideOf(x, p, i), s)
      /\ SameParents(D, x, u) /\ SameBalances(D, x, u) /\ SameStates(D, x, u)
  BY <1>0, <1>2, ReplaceIs
<1>. HIDE DEF u
<1>5. /\ y \in Trees(D) /\ y.root = u.root /\ ParentSet(D, u, y, s, p)
      /\ SameKids(D, u, y) /\ SameBalances(D, u, y) /\ SameStates(D, u, y)
  BY <1>0, <1>4, ParentIs
<1>6. v = SetBalance(y, s, b)
  BY DEF x, u, y
<1>. HIDE DEF y
<1>7. /\ v \in Trees(D) /\ v.root = y.root /\ BalanceSet(D, y, v, s, b)
      /\ SameParents(D, y, v) /\ SameKids(D, y, v) /\ SameStates(D, y, v)
  BY <1>5, <1>6, BalanceIs
<1>8. v \in Trees(D) /\ v.root = (IF p = -1 THEN s ELSE m.root) /\ SameStates(D, m, v)
  BY <1>2, <1>4, <1>5, <1>7 DEF SameStates
<1>9. ASSUME NEW j \in D
      PROVE  /\ Par(v, j) = (IF j = s THEN p ELSE IF j = a THEN s ELSE Par(m, j))
             /\ Bal(v, j) = (IF j = s THEN b ELSE Bal(m, j))
  <2>1. Par(v, j) = (IF j = s THEN p ELSE Par(u, j)) /\ Par(u, j) = Par(x, j)
    BY <1>4, <1>5, <1>7 DEF SameParents, ParentSet
  <2>2. Bal(v, j) = (IF j = s THEN b ELSE Bal(y, j)) /\ Bal(y, j) = Bal(m, j)
    BY <1>2, <1>4, <1>5, <1>7 DEF SameBalances, BalanceSet
  <2>. QED
    BY <1>2, <2>1, <2>2
<1>10. ASSUME NEW j \in D, NEW r \in Sides
       PROVE  Kid(v, j, r) = IF j = p /\ r = side THEN s ELSE IF j = s /\ r = 0 THEN a ELSE Kid(m, j, r)
  <2>1. Kid(v, j, r) = Kid(u, j, r)
    BY <1>5, <1>7 DEF SameKids
  <2>2. Kid(u, j, r) = IF j = p /\ r = side THEN s ELSE Kid(x, j, r)
    BY <1>3, <1>4 DEF ChildSet
  <2>. QED
    BY <1>2, <2>1, <2>2
<1>11. Crowned(D, m, v, s, p, side, a, b)
  BY <1>8, <1>9, <1>10, Zenon DEF Crowned
<1>. QED
  BY <1>11 DEF side

\* The links of a slot that gives way to its successor, and of the successor.
Around(S, t, i, s, q, p, side, a, b, z, ps) ==
    /\ i \in S /\ s \in S /\ q \in S /\ s # i /\ q # s /\ p \in S \cup {-1} /\ p # s /\ p # i
    /\ a \in S /\ b \in S /\ z \in S \cup {-1} /\ a # s /\ a # b /\ z # a /\ z # b /\ z # i /\ z # s /\ z # q
    /\ a # i /\ b # i
    /\ Kid(t, i, 0) = a /\ Kid(t, i, 1) = b /\ Kid(t, s, 1) = z /\ Kid(t, s, 0) = -1 /\ Kid(t, q, ps) = s
    /\ Par(t, i) = p /\ Par(t, s) = q /\ (z # -1 => Par(t, z) = s)
    /\ p # -1 => Kid(t, p, side) = i
    /\ t.root = i <=> p = -1
    /\ t.root # s
    /\ side \in Sides /\ ps = (IF q = i THEN 1 ELSE 0)
    /\ \A j \in S : Par(t, j) # -1 \/ j = t.root
    /\ \A j \in S : Par(t, j) = i <=> j = a \/ j = b
    /\ \A j \in S : Par(t, j) = s <=> j = z
    /\ \A j \in S, r \in Sides : Kid(t, j, r) = i => j = p /\ r = side
    /\ \A j \in S, r \in Sides : Kid(t, j, r) = s => j = q /\ r = ps

\* The links of i and its successor s, from those of the tree.
LEMMA AroundIs ==
    ASSUME NEW D, NEW S, NEW at, NEW low, NEW high, NEW t, NEW lim,
           Places(D, S, at, low, high), Linked(D, S, at, low, high, t, lim),
           NEW i \in S, Kid(t, i, 0) # -1, Kid(t, i, 1) # -1,
           NEW s, NEW q, Successor(S, at, t, lim, i, s, q)
    PROVE  Around(S, t, i, s, q, Par(t, i), SideOf(t, Par(t, i), i), Kid(t, i, 0), Kid(t, i, 1),
                  Kid(t, s, 1), SideOf(t, q, s))
<1>. DEFINE p == Par(t, i)
            side == SideOf(t, p, i)
            a == Kid(t, i, 0)
            b == Kid(t, i, 1)
            z == Kid(t, s, 1)
            ps == SideOf(t, q, s)
<1>1. 0 \in Sides /\ 1 \in Sides /\ 1 - 1 = 0 /\ 1 - 0 = 1 /\ \A r \in Sides : r = 0 \/ r = 1
  BY DEF Sides
<1>2. /\ s \in S /\ q \in S /\ q = Par(t, s) /\ s # i /\ q # s /\ Kid(t, s, 0) = -1
      /\ IF q = i THEN b = s /\ ps = 1 ELSE Kid(t, q, 0) = s /\ ps = 0
  BY DEF Successor
<1>3. \A j \in S, r \in Sides :
        /\ Kid(t, j, r) \in S \cup {-1} /\ Kid(t, j, r) # j
        /\ Kid(t, j, r) # -1 => Par(t, Kid(t, j, r)) = j
  BY KidsAre
<1>4. \A j \in S : j # -1 /\ Par(t, j) \in S \cup {-1} /\ (Par(t, j) = -1 <=> t.root = j)
  BY ValuesAre, RootIsHung
<1>5. \A j \in S : Par(t, j) # -1 =>
        /\ Par(t, j) # j /\ SideOf(t, Par(t, j), j) \in Sides /\ Kid(t, Par(t, j), SideOf(t, Par(t, j), j)) = j
        /\ \A r \in Sides : Kid(t, Par(t, j), r) = j => r = SideOf(t, Par(t, j), j)
        /\ \A r \in Sides : Kid(t, j, r) # Par(t, j)
  BY AboveIs
<1>6. a # b
  BY <1>1, TwoKids
<1>7. side \in Sides
  <2>0. \A x \in S \cup {-1} : x \in Int
    BY DEF Places
  <2>1. p \in Int
    BY <1>4, <2>0, Zenon
  <2>. QED
    BY <2>1, SideOfIs
<1>8. /\ a \in S /\ b \in S /\ Par(t, a) = i /\ Par(t, b) = i /\ a # i /\ b # i
      /\ z \in S \cup {-1} /\ (z # -1 => Par(t, z) = s) /\ z # s
  BY <1>1, <1>2, <1>3
<1>9. p \in S \cup {-1} /\ p # i /\ p # a /\ p # b /\ (t.root = i <=> p = -1) /\ t.root # s
  BY <1>1, <1>2, <1>4, <1>5, <1>8
<1>10. a # s
  BY <1>1, <1>2, <1>6, <1>8
<1>11. z # a /\ z # b
  BY <1>2, <1>4, <1>8
<1>12. p # s /\ z # i /\ z # q
  <2>1. z # q
    BY <1>1, <1>2, <1>4, <1>5
  <2>2. CASE q = i
    <3>1. p # s /\ z # i
      BY <1>2, <1>9, <2>1, <2>2
    <3>. QED
      BY <2>1, <3>1
  <2>3. CASE q # i
    <3>1. z # i
      <4>. SUFFICES ASSUME z = i PROVE FALSE
        OBVIOUS
      <4>1. lim[i][0] = at[s]
        BY <1>1, <1>2, KidsAre, ValuesAre
      <4>2. Inside(at, lim, i) /\ at[i] < at[s] /\ at[i] \in Int /\ at[s] \in Int
        BY <1>2, ValuesAre DEF Linked, Successor
      <4>. QED
        BY <4>1, <4>2 DEF Inside
    <3>2. p # s
      <4>. SUFFICES ASSUME p = s PROVE FALSE
        OBVIOUS
      <4>1. Kid(t, s, side) = i
        BY <1>2, <1>4, <1>5
      <4>2. side = 1
        BY <1>1, <1>2, <1>4, <1>7, <4>1
      <4>. QED
        BY <3>1, <4>1, <4>2
    <3>. QED
      BY <2>1, <3>1, <3>2
  <2>. QED
    BY <2>2, <2>3
<1>13. p # -1 => Kid(t, p, side) = i
  BY <1>5
<1>14. Kid(t, q, ps) = s /\ ps = (IF q = i THEN 1 ELSE 0)
  BY <1>2
<1>15. \A j \in S, r \in Sides : Kid(t, j, r) = i => j = p /\ r = side
  BY <1>3, <1>4, <1>5
<1>16. \A j \in S, r \in Sides : Kid(t, j, r) = s => j = q /\ r = ps
  BY <1>2, <1>3, <1>4, <1>5
<1>17. \A j \in S : Par(t, j) = i <=> j = a \/ j = b
  <2>. SUFFICES ASSUME NEW j \in S, Par(t, j) = i PROVE j = a \/ j = b
    BY <1>8
  <2>1. PICK r \in Sides : Kid(t, i, r) = j
    BY <1>4, <1>5
  <2>. QED
    BY <1>1, <2>1
<1>18. \A j \in S : Par(t, j) = s <=> j = z
  <2>. SUFFICES ASSUME NEW j \in S, Par(t, j) = s PROVE j = z
    BY <1>4, <1>8
  <2>1. PICK r \in Sides : Kid(t, s, r) = j
    BY <1>2, <1>4, <1>5
  <2>. QED
    BY <1>1, <1>2, <1>4, <2>1
<1>. HIDE DEF p, side, a, b, z, ps
<1>19. /\ Kid(t, i, 0) = a /\ Kid(t, i, 1) = b /\ Kid(t, s, 1) = z /\ Par(t, i) = p
  BY DEF a, b, z, p
<1>20. \A j \in S : Par(t, j) # -1 \/ j = t.root
  BY <1>4
<1>21. Around(S, t, i, s, q, p, side, a, b, z, ps)
  BY <1>2, <1>6, <1>7, <1>8, <1>9, <1>10, <1>11, <1>12, <1>13, <1>14, <1>15, <1>16, <1>17, <1>18, <1>19,
     <1>20, Zenon DEF Around
<1>. QED
  BY <1>21 DEF p, side, a, b, z, ps

\* What Supplanted() does to the links, once s has been taken out of its old
\* place, is to give s the place of i.
LEMMA SupplantedRenames ==
    ASSUME NEW D, NEW S, S \subseteq D, D \subseteq Nat, NEW t \in Trees(D),
           NEW i, NEW s, NEW q, NEW p, NEW side, NEW a, NEW b, NEW z, NEW ps,
           Around(S, t, i, s, q, p, side, a, b, z, ps),
           NEW m \in Trees(D), m.root = t.root, SameBalances(D, t, m),
           \A j \in D : Par(m, j) = IF q # i /\ j = b THEN s ELSE IF q # i /\ j = z THEN q ELSE Par(t, j),
           \A j \in D, r \in Sides :
              Kid(m, j, r) = IF q # i /\ j = s /\ r = 1 THEN b
                             ELSE IF q # i /\ j = q /\ r = 0 THEN z ELSE Kid(t, j, r),
           NEW v, Crowned(D, m, v, s, p, side, a, Bal(t, i)),
           NEW u, Attached(D, t, u, q, ps, z)
    PROVE  Passed(S, t, u, s, z) /\ Renamed(S \ {s}, u, v, i, s)
<1>0. 0 \in Sides /\ 1 \in Sides /\ 0 # 1 /\ \A r \in Sides : r = 0 \/ r = 1
  BY DEF Sides
<1>1. /\ i \in S /\ s \in S /\ q \in S /\ s # i /\ q # s /\ p \in S \cup {-1} /\ p # s /\ p # i
      /\ a \in S /\ b \in S /\ z \in S \cup {-1} /\ a # s /\ a # b /\ z # a /\ z # b /\ z # i /\ z # s /\ z # q
      /\ a # i /\ b # i
  BY DEF Around
<1>2. /\ Kid(t, i, 0) = a /\ Kid(t, i, 1) = b /\ Kid(t, s, 1) = z /\ Kid(t, s, 0) = -1 /\ Kid(t, q, ps) = s
      /\ Par(t, i) = p /\ Par(t, s) = q /\ (z # -1 => Par(t, z) = s)
      /\ p # -1 => Kid(t, p, side) = i
      /\ t.root = i <=> p = -1
      /\ t.root # s
      /\ side \in Sides /\ ps = (IF q = i THEN 1 ELSE 0)
  BY DEF Around
<1>3. /\ \A j \in S : Par(t, j) = i <=> j = a \/ j = b
      /\ \A j \in S : Par(t, j) = s <=> j = z
      /\ \A j \in S, r \in Sides : Kid(t, j, r) = i => j = p /\ r = side
      /\ \A j \in S, r \in Sides : Kid(t, j, r) = s => j = q /\ r = ps
  BY DEF Around
<1>4. \A j \in S : j \in D /\ j # -1
  OBVIOUS
<1>5. /\ u.root = t.root
      /\ \A j \in S : Par(u, j) = (IF j = z THEN q ELSE Par(t, j)) /\ Bal(u, j) = Bal(t, j)
      /\ \A j \in S, r \in Sides : Kid(u, j, r) = IF j = q /\ r = ps THEN z ELSE Kid(t, j, r)
  BY <1>4 DEF Attached, ParentSet, ChildSet, SameBalances
<1>6. Passed(S, t, u, s, z)
  <2>1. u.root = (IF t.root = s THEN z ELSE t.root)
    BY <1>2, <1>5
  <2>2. ASSUME NEW j \in S \ {s}
        PROVE  /\ Par(u, j) = (IF j = z THEN Par(t, s) ELSE Par(t, j))
               /\ Bal(u, j) = Bal(t, j)
               /\ \A r \in Sides : Kid(u, j, r) = IF Kid(t, j, r) = s THEN z ELSE Kid(t, j, r)
    <3>1. \A r \in Sides : Kid(u, j, r) = IF Kid(t, j, r) = s THEN z ELSE Kid(t, j, r)
      BY ZenonT(40), <1>2, <1>3, <1>5
    <3>. QED
      BY <1>2, <1>5, <3>1
  <2>. QED
    BY <2>1, <2>2, Zenon DEF Passed
<1>7. /\ v.root = (IF p = -1 THEN s ELSE t.root)
      /\ \A j \in S : /\ Par(v, j) = (IF j = s THEN p ELSE IF j = a THEN s ELSE Par(m, j))
                      /\ Bal(v, j) = (IF j = s THEN Bal(t, i) ELSE Bal(t, j))
  BY <1>4 DEF Crowned, SameBalances
<1>8. \A j \in S, r \in Sides :
         Kid(v, j, r) = IF j = p /\ r = side THEN s ELSE IF j = s /\ r = 0 THEN a ELSE Kid(m, j, r)
  BY <1>4 DEF Crowned
<1>9. \A j \in S : Par(m, j) = IF q # i /\ j = b THEN s ELSE IF q # i /\ j = z THEN q ELSE Par(t, j)
  BY <1>4
<1>10. \A j \in S, r \in Sides :
          Kid(m, j, r) = IF q # i /\ j = s /\ r = 1 THEN b
                         ELSE IF q # i /\ j = q /\ r = 0 THEN z ELSE Kid(t, j, r)
  BY <1>4
<1>11. v.root = Instead(i, s, u.root)
  BY <1>2, <1>5, <1>7 DEF Instead
<1>12. ASSUME NEW j \in S \ {s}
       PROVE  /\ Par(v, Instead(i, s, j)) = Instead(i, s, Par(u, j))
              /\ Bal(v, Instead(i, s, j)) = Bal(u, j)
              /\ \A r \in Sides : Kid(v, Instead(i, s, j), r) = Instead(i, s, Kid(u, j, r))
  <2>1. CASE j = i
    <3>1. Instead(i, s, j) = s
      BY <2>1 DEF Instead
    <3>2. Par(v, s) = p /\ Instead(i, s, Par(u, j)) = p
      BY <1>1, <1>2, <1>5, <1>7, <2>1 DEF Instead
    <3>3. Bal(v, s) = Bal(u, j)
      BY <1>1, <1>5, <1>7, <2>1
    <3>4. Kid(v, s, 0) = a /\ Instead(i, s, Kid(u, j, 0)) = a
      BY <1>0, <1>1, <1>2, <1>5, <1>8, <2>1 DEF Instead
    <3>5. Kid(v, s, 1) = Kid(m, s, 1)
      BY <1>0, <1>1, <1>8
    <3>6. Kid(m, s, 1) = Instead(i, s, Kid(u, j, 1))
      <4>1. CASE q = i
        BY <1>0, <1>1, <1>2, <1>5, <1>10, <2>1, <4>1 DEF Instead
      <4>2. CASE q # i
        BY <1>0, <1>1, <1>2, <1>5, <1>10, <2>1, <4>2 DEF Instead
      <4>. QED
        BY <4>1, <4>2
    <3>. QED
      BY <1>0, <3>1, <3>2, <3>3, <3>4, <3>5, <3>6
  <2>2. CASE j # i
    <3>1. Instead(i, s, j) = j /\ j \in S /\ j # s
      BY <2>2 DEF Instead
    <3>2. Par(v, j) = Instead(i, s, Par(u, j))
      <4>1. Par(v, j) = IF j = a THEN s ELSE Par(m, j)
        BY <1>7, <3>1
      <4>2. Par(m, j) = IF q # i /\ j = b THEN s ELSE IF q # i /\ j = z THEN q ELSE Par(t, j)
        BY <1>9
      <4>3. Par(u, j) = IF j = z THEN q ELSE Par(t, j)
        BY <1>5
      <4>4. (Par(t, j) = i <=> j = a \/ j = b) /\ (Par(t, j) = s <=> j = z) /\ (q = i => b = s)
        BY <1>2, <1>3
      <4>. QED
        BY <1>1, <3>1, <4>1, <4>2, <4>3, <4>4 DEF Instead
    <3>3. Bal(v, j) = Bal(u, j)
      BY <1>5, <1>7, <3>1
    <3>4. ASSUME NEW r \in Sides
          PROVE  Kid(v, j, r) = Instead(i, s, Kid(u, j, r))
      <4>1. Kid(v, j, r) = IF j = p /\ r = side THEN s ELSE Kid(m, j, r)
        BY <1>8, <3>1
      <4>2. Kid(m, j, r) = IF q # i /\ j = q /\ r = 0 THEN z ELSE Kid(t, j, r)
        BY <1>10, <3>1
      <4>3. Kid(u, j, r) = IF j = q /\ r = ps THEN z ELSE Kid(t, j, r)
        BY <1>5
      <4>4. /\ Kid(t, j, r) = i => j = p /\ r = side
            /\ j = p /\ r = side => Kid(t, j, r) = i
            /\ j = q /\ r = ps => Kid(t, j, r) = s
        BY <1>2, <1>3, <1>4, <3>1
      <4>. QED
        BY <1>1, <1>2, <2>2, <4>1, <4>2, <4>3, <4>4 DEF Instead
    <3>. QED
      BY <3>1, <3>2, <3>3, <3>4
  <2>. QED
    BY <2>1, <2>2
<1>13. Renamed(S \ {s}, u, v, i, s)
  BY <1>11, <1>12, Zenon DEF Renamed
<1>. QED
  BY <1>6, <1>13

\* A slot with two children is taken out of a sound tree.
LEMMA SupplantedIs ==
    ASSUME NEW D, NEW S, NEW at, NEW low, NEW high, Places(D, S, at, low, high), IsFiniteSet(D),
           NEW t, Whole(D, S, at, low, high, t), Lexed(t) = S,
           NEW i \in S, Kid(t, i, 0) # -1, Kid(t, i, 1) # -1
    PROVE  LET r == Supplanted(t, i) IN
           Whole(D, S \ {i}, at, low, high, r) /\ r \in Trees(D) /\ SameStates(D, t, r)
<1>. DEFINE s == Extreme(t, Kid(t, i, 1), 0)
            q == Par(t, s)
            p == Par(t, i)
            side == SideOf(t, p, i)
            a == Kid(t, i, 0)
            b == Kid(t, i, 1)
            z == Kid(t, s, 1)
            ps == SideOf(t, q, s)
            m1 == Attach(t, q, 0, z)
            m2 == Attach(m1, s, 1, b)
            m == IF q = i THEN t ELSE m2
            v == SetBalance(WithParent(Replace(Attach(m, s, 0, a), p, i, s), s, p), s, Bal(t, i))
            u == Attach(t, q, ps, z)
            T == S \ {i}
            R == S \ {s}
<1>1. Supplanted(t, i) = Lowered(v, IF q = i THEN s ELSE q, Weight(IF q = i THEN 1 ELSE 0))
  BY Zenon DEF Supplanted, Par, Kid, Bal
<1>2. PICK lim, h : Linked(D, S, at, low, high, t, lim) /\ Weighed(D, S, t, h, -1, 0, 0)
  BY Zenon DEF Whole
<1>3. S \subseteq D /\ D \subseteq Nat /\ t \in Trees(D)
  BY <1>2 DEF Places, Linked
<1>4. Successor(S, at, t, lim, i, s, q)
  BY <1>2, SuccessorIs
<1>. HIDE DEF s, q
<1>5. Around(S, t, i, s, q, p, side, a, b, z, ps)
  BY <1>2, <1>4, AroundIs
<1>6. 0 \in Sides /\ 1 \in Sides
  BY DEF Sides
<1>7. side = SideOf(t, p, i) /\ z = Kid(t, s, 1) /\ q = Par(t, s) /\ ps = SideOf(t, q, s)
  BY DEF q
<1>. HIDE DEF a, b, z, ps, p, side
<1>8. /\ s \in S /\ q \in S /\ s # i /\ q # s /\ p \in S \cup {-1} /\ p # s
      /\ a \in S /\ b \in S /\ z \in S \cup {-1} /\ z # b
      /\ ps = (IF q = i THEN 1 ELSE 0) /\ Kid(t, s, 0) = -1 /\ z = Kid(t, s, 1) /\ Par(t, s) = q
  BY <1>5 DEF Around
<1>9. s \in D /\ q \in D /\ i \in D /\ p \in D \cup {-1} /\ a \in D /\ b \in D \cup {-1} /\ z \in D \cup {-1}
  BY <1>3, <1>8
<1>10. /\ m \in Trees(D) /\ m.root = t.root /\ SameBalances(D, t, m) /\ SameStates(D, t, m)
       /\ \A j \in D : Par(m, j) = IF q # i /\ j = b THEN s ELSE IF q # i /\ j = z THEN q ELSE Par(t, j)
       /\ \A j \in D, r \in Sides :
             Kid(m, j, r) = IF q # i /\ j = s /\ r = 1 THEN b
                            ELSE IF q # i /\ j = q /\ r = 0 THEN z ELSE Kid(t, j, r)
  <2>1. CASE q = i
    BY <1>3, <2>1 DEF SameBalances, SameStates
  <2>2. CASE q # i
    <3>1. Attached(D, t, m1, q, 0, z)
      BY <1>3, <1>6, <1>9, Attaching
    <3>. HIDE DEF m1
    <3>2. m1 \in Trees(D)
      BY <3>1 DEF Attached
    <3>3. Attached(D, m1, m2, s, 1, b)
      BY <1>3, <1>6, <1>9, <3>2, Attaching
    <3>4. m = m2
      BY <2>2
    <3>. HIDE DEF m2, m
    <3>5. m \in Trees(D) /\ m.root = t.root /\ SameBalances(D, t, m) /\ SameStates(D, t, m)
      BY <3>1, <3>3, <3>4 DEF Attached, SameBalances, SameStates
    <3>6. \A j \in D : Par(m, j) = IF j = b THEN s ELSE IF j = z THEN q ELSE Par(t, j)
      BY <3>1, <3>3, <3>4 DEF Attached, ParentSet
    <3>7. \A j \in D, r \in Sides :
             Kid(m, j, r) = IF j = s /\ r = 1 THEN b ELSE IF j = q /\ r = 0 THEN z ELSE Kid(t, j, r)
      BY <3>1, <3>3, <3>4 DEF Attached, ChildSet
    <3>. QED
      BY <2>2, <3>5, <3>6, <3>7
  <2>. QED
    BY <2>1, <2>2
<1>. HIDE DEF m
<1>11. SideOf(m, p, i) = side
  <2>1. p \in Int /\ (p >= 0 => p \in D)
    BY <1>3, <1>9
  <2>2. p \in D => Kid(m, p, 1) = Kid(t, p, 1)
    BY <1>6, <1>8, <1>10
  <2>. QED
    BY <1>7, <2>1, <2>2, SideOfIs
<1>12. Crowned(D, m, v, s, p, side, a, Bal(t, i))
  <2>1. Bal(t, i) \in Int
    BY <1>3, <1>9, LinkType
  <2>2. Crowned(D, m, v, s, p, SideOf(m, p, i), a, Bal(t, i))
    BY <1>3, <1>8, <1>9, <1>10, <2>1, Crowning
  <2>. QED
    BY <1>11, <2>2
<1>. HIDE DEF v
<1>13. Attached(D, t, u, q, ps, z)
  <2>1. ps \in Sides
    BY <1>6, <1>8
  <2>. QED
    BY <1>3, <1>9, <2>1, Attaching
<1>. HIDE DEF u
<1>14. Passed(S, t, u, s, z) /\ Renamed(R, u, v, i, s)
  BY <1>3, <1>5, <1>10, <1>12, <1>13, SupplantedRenames
<1>15. v \in Trees(D) /\ u \in Trees(D) /\ SameStates(D, m, v)
  BY <1>12, <1>13 DEF Crowned, Attached
<1>. DEFINE new == PassedLimits(D, at, lim, s)
<1>16. Linked(D, R, at, low, high, u, new)
  <2>1. 0 = 1 - 1
    OBVIOUS
  <2>. HIDE DEF new, R
  <2>. QED
    BY <1>2, <1>6, <1>8, <1>14, <1>15, <2>1, PassedLinks DEF new, R
<1>17. Weighed(D, R, u, h, q, ps, -1)
  <2>1. 0 = 1 - 1
    OBVIOUS
  <2>2. Weighed(D, S \ {s}, u, h, Par(t, s), SideOf(t, Par(t, s), s), -1)
    BY <1>2, <1>6, <1>8, <1>14, <2>1, PassedWeighs
  <2>. QED
    BY <1>7, <2>2
<1>. HIDE DEF new
<1>18. i \in R /\ s \in D \ R /\ R \cup {s} = S /\ (R \ {i}) \cup {s} = T /\ R \subseteq D /\ q \in R
  BY <1>3, <1>8, <1>9
<1>19. Apart(Values(R, at, low, high), at[i], at[s])
  <2>1. \A x \in S : at[x] \in Int /\ low < at[x] /\ at[x] < high /\ low \in Int /\ high \in Int
    BY DEF Places
  <2>2. \A x, y \in S : at[x] = at[y] => x = y
    BY DEF Places
  <2>3. at[i] < at[s] /\ \A x \in S : ~ Between(at[i], at[x], at[s])
    BY <1>4 DEF Successor
  <2>4. ASSUME NEW x \in R
        PROVE  at[x] \in Int /\ (at[x] = at[i] \/ (at[x] # at[s] /\ (at[x] < at[i] <=> at[x] < at[s])))
    <3>1. x \in S /\ x # s /\ at[x] # at[s] /\ ~ Between(at[i], at[x], at[s])
      BY <1>8, <2>2, <2>3
    <3>. QED
      BY <1>8, <2>1, <2>3, <3>1 DEF Between
  <2>5. low < at[i] /\ low < at[s] /\ at[i] < high /\ at[s] < high /\ at[i] \in Int /\ at[s] \in Int
    BY <1>8, <2>1
  <2>6. low \in Int /\ high \in Int
    BY <1>8, <2>1
  <2>. HIDE DEF R
  <2>. QED
    BY <2>4, <2>5, <2>6 DEF Apart, Values
<1>. HIDE DEF R, T
<1>20. Places(D, R, at, low, high) /\ Places(D, T, at, low, high)
  BY DEF Places, R, T
<1>21. PICK lim2 : Linked(D, T, at, low, high, v, lim2)
  BY <1>14, <1>15, <1>16, <1>18, <1>19, RenamedLinks
<1>22. PICK n : Weighed(D, T, v, n, Instead(i, s, q), ps, -1)
  <2>1. \A j \in R, r \in Sides : Kid(u, j, r) \in R \cup {-1}
    BY <1>16, <1>20, KidsAre
  <2>2. q \in R \cup {-1}
    BY <1>18
  <2>. QED
    BY ZenonT(40), <1>3, <1>14, <1>17, <1>18, <2>1, <2>2, RenamedWeighs
<1>. DEFINE w == Instead(i, s, q)
            r == Lowered(v, w, Weight(ps))
<1>23. Supplanted(t, i) = r
  BY <1>1, <1>8 DEF Instead
<1>24. w \in T /\ ps \in Sides
  BY <1>6, <1>8 DEF Instead, T
<1>. HIDE DEF w
<1>25. Whole(D, T, at, low, high, r) /\ r \in Trees(D) /\ SameStates(D, v, r)
  <2>1. w = -1 \/ (w \in T /\ ps \in Sides /\ Weight(ps) = Weight(ps))
    BY <1>24
  <2>2. Weighed(D, T, v, n, w, ps, -1)
    BY <1>22 DEF w
  <2>. QED
    BY <1>20, <1>21, <2>1, <2>2, LoweredWhole
<1>26. SameStates(D, t, r)
  BY <1>10, <1>15, <1>25 DEF SameStates
<1>. QED
  BY <1>23, <1>25, <1>26 DEF T

\* avl_remove() takes a slot out of a sound tree and leaves a sound tree.
LEMMA RemoveIs ==
    ASSUME NEW D, NEW S, NEW at, NEW low, NEW high, Places(D, S, at, low, high), IsFiniteSet(D),
           NEW t, Whole(D, S, at, low, high, t), Lexed(t) = S, NEW i \in S
    PROVE  Remade(D, S \ {i}, at, low, high, avl_remove(t, i))
<1>. DEFINE u == IF \A s \in Sides : Kid(t, i, s) >= 0 THEN Supplanted(t, i) ELSE Bypassed(t, i)
            v == SetSlot(u, i, Slot(-1, -1, -1, "unassigned"))
            T == S \ {i}
<1>1. avl_remove(t, i) = v
  BY Zenon DEF avl_remove, Kid, Sides
<1>2. \A s \in Sides : Kid(t, i, s) = -1 \/ Kid(t, i, s) \in Nat
  <2>1. PICK lim, h : Linked(D, S, at, low, high, t, lim) /\ Weighed(D, S, t, h, -1, 0, 0)
    BY Zenon DEF Whole
  <2>2. \A s \in Sides : Kid(t, i, s) \in S \cup {-1}
    BY <2>1, KidsAre
  <2>3. S \subseteq Nat
    BY DEF Places
  <2>. QED
    BY <2>2, <2>3
<1>3. t \in Trees(D)
  BY DEF Whole, Linked
<1>4. Whole(D, T, at, low, high, u) /\ u \in Trees(D) /\ SameStates(D, t, u)
  <2>1. CASE \A s \in Sides : Kid(t, i, s) >= 0
    <3>1. Kid(t, i, 0) # -1 /\ Kid(t, i, 1) # -1
      BY <2>1 DEF Sides
    <3>2. u = Supplanted(t, i)
      BY <2>1
    <3>. QED
      BY <3>1, <3>2, SupplantedIs
  <2>2. CASE ~ \A s \in Sides : Kid(t, i, s) >= 0
    <3>1. \E s \in Sides : Kid(t, i, s) = -1
      BY <1>2, <2>2
    <3>2. u = Bypassed(t, i)
      BY <2>2, Zenon
    <3>. QED
      BY <3>1, <3>2, BypassedIs
  <2>. QED
    BY <2>1, <2>2
<1>. HIDE DEF u
<1>5. Lexed(u) = S
  BY <1>3, <1>4, SameLexed
<1>6. /\ v \in Trees(D) /\ SameOn(T, u, v)
      /\ Lexed(v) = IF "unassigned" = "lexed" THEN Lexed(u) \cup {i} ELSE Lexed(u) \ {i}
  <2>1. "unassigned" \in States /\ i \in D /\ T \subseteq D /\ i \notin T
    BY DEF States, Places
  <2>. QED
    BY <1>4, <2>1, SlotIs
<1>. HIDE DEF v
<1>7. Whole(D, T, at, low, high, v)
  BY <1>4, <1>6, SameWhole
<1>. QED
  BY <1>1, <1>5, <1>6, <1>7 DEF Remade

----------------------------------------------------------------------------
(* Walks from slot to slot *)

\* The measure of a walk up.
LEMMA Ascends ==
    ASSUME NEW D, NEW S, NEW at, NEW low, NEW high, NEW t, NEW lim,
           Places(D, S, at, low, high), Linked(D, S, at, low, high, t, lim), IsFiniteSet(D)
    PROVE  \E m : /\ \A j \in S : m[j] \in Nat /\ m[j] < Cardinality(D) + 1
                  /\ \A j \in S : Par(t, j) # -1 => m[Par(t, j)] < m[j]
                  /\ Cardinality(D) + 1 \in Nat
<1>. DEFINE N == Cardinality(D)
            m == [j \in S |-> N - Rank(S, at, lim, j)]
<1>1. \A j \in S : Rank(S, at, lim, j) \in 0 .. N /\ N \in Nat
  BY RankIs
<1>4. N \in Nat
  BY FS_CardinalityType
<1>. HIDE DEF N
<1>2. \A j \in S : m[j] \in Nat /\ m[j] < N + 1
  BY <1>1
<1>3. ASSUME NEW j \in S, Par(t, j) # -1
      PROVE  m[Par(t, j)] < m[j]
  <2>1. Par(t, j) \in S
    BY <1>3, AboveIs
  <2>2. Rank(S, at, lim, j) < Rank(S, at, lim, Par(t, j))
    BY <1>3, SpanGrows DEF Rank
  <2>. QED
    BY <1>1, <2>1, <2>2
<1>. HIDE DEF m
<1>. QED
  BY <1>2, <1>3, <1>4 DEF N

\* The bound of the tree on a side.
Bound(side, low, high) == IF side = 0 THEN low ELSE high

\* The slot whose key is the limit of a subtree, or none at the bound of the tree.
LimitOf(S, at, low, high, lim, i, side, r) ==
    \/ r = -1 /\ lim[i][side] = Bound(side, low, high)
    \/ r \in S /\ lim[i][side] = at[r]

\* Walking up from a subtree ends at the slot that limits it.
LEMMA ClimbIs ==
    ASSUME NEW D, NEW S, NEW at, NEW low, NEW high, NEW t, NEW lim,
           Places(D, S, at, low, high), Linked(D, S, at, low, high, t, lim), IsFiniteSet(D),
           Lexed(t) = S, NEW i \in S, NEW side \in Sides
    PROVE  LimitOf(S, at, low, high, lim, i, side, Climb(t, i, side))
<1>. DEFINE End(j) == Par(t, j) < 0 \/ Kid(t, Par(t, j), 1 - side) = j
            nx == [j \in S |-> Par(t, j)]
            end == {j \in S : End(j)}
            val == [j \in S |-> Par(t, j)]
            P(g) == g = [j \in S |-> IF End(j) THEN Par(t, j) ELSE g[Par(t, j)]]
            f == CHOOSE g : P(g)
<1>1. Climb(t, i, side) = f[i]
  BY Zenon DEF Climb, Kid, Par
<1>2. \A g : P(g) <=> Walked(g, S, end, val, nx)
  <2>. HIDE DEF End
  <2>. QED
    BY DEF Walked
<1>3. \A j \in S : Par(t, j) \in S \cup {-1} /\ j \in Nat /\ (Par(t, j) = -1 <=> t.root = j)
  BY RootIsHung, ValuesAre
<1>33. \A j \in S : Par(t, j) < 0 <=> Par(t, j) = -1
  BY <1>3
<1>4. \E g : P(g)
  <2>1. PICK m : /\ \A j \in S : m[j] \in Nat /\ m[j] < Cardinality(D) + 1
                 /\ \A j \in S : Par(t, j) # -1 => m[Par(t, j)] < m[j]
                 /\ Cardinality(D) + 1 \in Nat
    BY Ascends
  <2>2. \A j \in S \ end : nx[j] \in S /\ m[nx[j]] < m[j]
    BY <1>3, <1>33, <2>1
  <2>. HIDE DEF nx, end, val
  <2>3. \E g : Walked(g, S, end, val, nx)
    BY <2>1, <2>2, Walks
  <2>. QED
    BY <1>2, <2>3
<1>5. P(f)
  <2>. HIDE DEF P
  <2>. QED
    BY <1>4, Zenon
<1>6. \A j \in S : f[j] = IF End(j) THEN Par(t, j) ELSE f[Par(t, j)]
  <2>. SUFFICES ASSUME NEW j \in S
                PROVE  f[j] = IF End(j) THEN Par(t, j) ELSE f[Par(t, j)]
    OBVIOUS
  <2>. HIDE DEF f, End
  <2>. QED
    BY <1>5, Zenon
<1>. HIDE DEF f, nx, end, val, P
<1>. DEFINE good == {j \in S : LimitOf(S, at, low, high, lim, j, side, f[j])}
<1>7. ASSUME NEW j \in S, Par(t, j) = -1 \/ Par(t, j) \in good
      PROVE  j \in good
  <2>. DEFINE p == Par(t, j)
  <2>1. CASE p = -1
    <3>1. f[j] = -1
      BY <1>6, <2>1
    <3>2. lim[j][0] = low /\ lim[j][1] = high
      BY <1>3, <2>1 DEF Linked, Rooted
    <3>. QED
      BY <3>1, <3>2 DEF LimitOf, Bound, Sides
  <2>2. CASE p # -1
    <3>1. /\ p \in S /\ SideOf(t, p, j) \in Sides
          /\ Kid(t, p, SideOf(t, p, j)) = j /\ \A s \in Sides : Kid(t, p, s) = j => s = SideOf(t, p, j)
          /\ lim[j][SideOf(t, p, j)] = lim[p][SideOf(t, p, j)] /\ lim[j][1 - SideOf(t, p, j)] = at[p]
      BY <2>2, AboveIs
    <3>2. CASE SideOf(t, p, j) = side
      <4>1. ~ End(j)
        BY <1>33, <2>2, <3>1, <3>2, SidesAre
      <4>2. f[j] = f[p]
        BY <1>6, <4>1
      <4>. QED
        BY <1>7, <2>2, <3>1, <3>2, <4>2 DEF LimitOf
    <3>3. CASE SideOf(t, p, j) # side
      <4>1. SideOf(t, p, j) = 1 - side /\ side = 1 - SideOf(t, p, j)
        BY <3>1, <3>3, SidesAre
      <4>2. f[j] = p
        BY <1>6, <3>1, <4>1
      <4>. QED
        BY <3>1, <4>1, <4>2 DEF LimitOf
    <3>. QED
      BY <3>2, <3>3
  <2>. QED
    BY <2>1, <2>2
<1>. HIDE DEF good
<1>8. i \in good
  BY <1>7, Upward
<1>. QED
  BY <1>1, <1>8 DEF good

\* b is on a side of a.
Beyond(a, b, side) == IF side = 1 THEN a < b ELSE b < a

\* The next slot on a side in the order of the keys, or none.
Adjacent(S, at, i, side, r) ==
    \/ r = -1 /\ \A x \in S : ~ Beyond(at[i], at[x], side)
    \/ r \in S /\ Beyond(at[i], at[r], side) /\ \A x \in S : ~ Between(at[i], at[x], at[r])

\* Stepping to a neighbour reaches the next slot in order.
LEMMA NeighbourIs ==
    ASSUME NEW D, NEW S, NEW at, NEW low, NEW high, NEW t, NEW lim,
           Places(D, S, at, low, high), Linked(D, S, at, low, high, t, lim), IsFiniteSet(D),
           Lexed(t) = S, NEW i \in S, NEW side \in Sides
    PROVE  Adjacent(S, at, i, side, Neighbour(t, i, side))
<1>. DEFINE c == Kid(t, i, side)
            e == Extreme(t, c, 1 - side)
            r == Climb(t, i, side)
<1>1. Neighbour(t, i, side) = IF c < 0 THEN r ELSE e
  BY DEF Neighbour, Kid
<1>2. /\ c \in S \cup {-1}
      /\ c = -1 => \A x \in S : ~ Between(at[i], at[x], lim[i][side])
      /\ c # -1 => c \in S /\ Par(t, c) = i /\ lim[c][side] = lim[i][side] /\ lim[c][1 - side] = at[i]
  BY KidsAre
<1>3. \A x \in S : at[x] \in Int /\ low < at[x] /\ at[x] < high /\ x \in Nat /\ Inside(at, lim, x)
  BY ValuesAre DEF Places, Linked
<1>4. side = 0 \/ side = 1
  BY DEF Sides
<1>. HIDE DEF c
<1>5. CASE c = -1
  <2>1. LimitOf(S, at, low, high, lim, i, side, r)
    BY ClimbIs
  <2>. HIDE DEF r
  <2>2. CASE r = -1 /\ lim[i][side] = Bound(side, low, high)
    <3>1. \A x \in S : ~ Between(at[i], at[x], Bound(side, low, high))
      BY <1>2, <1>5, <2>2
    <3>2. \A x \in S : ~ Beyond(at[i], at[x], side)
      BY <1>3, <1>4, <3>1 DEF Between, Beyond, Bound
    <3>. QED
      BY <1>1, <1>5, <2>2, <3>2 DEF Adjacent
  <2>3. CASE r \in S /\ lim[i][side] = at[r]
    <3>1. \A x \in S : ~ Between(at[i], at[x], at[r])
      BY <1>2, <1>5, <2>3
    <3>2. Beyond(at[i], at[r], side)
      BY <1>3, <1>4, <2>3 DEF Beyond, Inside
    <3>. QED
      BY <1>1, <1>5, <2>3, <3>1, <3>2 DEF Adjacent
  <2>. QED
    BY <2>1, <2>2, <2>3 DEF LimitOf
<1>6. CASE c # -1
  <2>0. 1 - side \in Sides /\ 1 - (1 - side) = side
    BY SidesAre
  <2>1. EndsAt(S, t, lim, c, 1 - side, e)
    BY <1>2, <1>6, <2>0, ExtremeIs
  <2>. HIDE DEF e
  <2>2. e \in S /\ Kid(t, e, 1 - side) = -1 /\ lim[e][1 - side] = at[i]
    BY <1>2, <1>6, <2>1 DEF EndsAt
  <2>3. \A x \in S : ~ Between(at[e], at[x], at[i])
    BY <2>0, <2>2, KidsAre
  <2>4. Beyond(at[i], at[e], side)
    BY <1>3, <1>4, <2>2 DEF Beyond, Inside
  <2>5. c \in Nat
    BY <1>2, <1>3, <1>6
  <2>6. \A x \in S : ~ Between(at[i], at[x], at[e])
    BY <1>3, <2>2, <2>3 DEF Between
  <2>. QED
    BY <1>1, <2>2, <2>4, <2>5, <2>6 DEF Adjacent
<1>. QED
  BY <1>5, <1>6

\* The first and the last slot in the order of the keys.
LEMMA EndOfIs ==
    ASSUME NEW D, NEW S, NEW at, NEW low, NEW high, NEW t, NEW lim,
           Places(D, S, at, low, high), Linked(D, S, at, low, high, t, lim), IsFiniteSet(D),
           Lexed(t) = S, NEW side \in Sides
    PROVE  LET e == EndOf(t, side) IN
           \/ S = {} /\ e = -1
           \/ e \in S /\ \A x \in S : ~ Beyond(at[e], at[x], side)
<1>. DEFINE e == Extreme(t, t.root, side)
<1>1. EndOf(t, side) = IF t.root < 0 THEN -1 ELSE e
  BY DEF EndOf
<1>2. \A x \in S : at[x] \in Int /\ low < at[x] /\ at[x] < high /\ x \in Nat
  BY ValuesAre DEF Places
<1>3. Rooted(t, S, lim, low, high)
  BY DEF Linked
<1>4. CASE S = {} /\ t.root = -1
  BY <1>1, <1>4
<1>5. CASE t.root \in S /\ lim[t.root][0] = low /\ lim[t.root][1] = high
  <2>1. EndsAt(S, t, lim, t.root, side, e)
    BY <1>5, ExtremeIs
  <2>2. EndOf(t, side) = e
    BY <1>1, <1>2, <1>5
  <2>. HIDE DEF e
  <2>3. e \in S /\ Kid(t, e, side) = -1 /\ lim[e][side] = Bound(side, low, high)
    BY <1>5, <2>1 DEF EndsAt, Bound, Sides
  <2>4. \A x \in S : ~ Between(at[e], at[x], Bound(side, low, high))
    BY <2>3, KidsAre
  <2>5. \A x \in S : ~ Beyond(at[e], at[x], side)
    BY <1>2, <2>3, <2>4 DEF Between, Beyond, Bound, Sides
  <2>. QED
    BY <2>2, <2>3, <2>5
<1>. QED
  BY <1>3, <1>4, <1>5 DEF Rooted

\* The stored balances are those of the true heights.
LEMMA HeightIs ==
    ASSUME NEW D, NEW S, NEW at, NEW low, NEW high, NEW t, NEW lim,
           Places(D, S, at, low, high), Linked(D, S, at, low, high, t, lim), IsFiniteSet(D),
           NEW h, Weighed(D, S, t, h, -1, 0, 0), Lexed(t) = S
    PROVE  \A i \in S \cup {-1} : Height(t, i) = IF i = -1 THEN 0 ELSE h[i]
<1>. DEFINE L(g, j) == IF Kid(t, j, 0) < 0 THEN 0 ELSE g[Kid(t, j, 0)]
            R(g, j) == IF Kid(t, j, 1) < 0 THEN 0 ELSE g[Kid(t, j, 1)]
            P(g) == g = [j \in Lexed(t) |-> (IF L(g, j) < R(g, j) THEN R(g, j) ELSE L(g, j)) + 1]
            f == CHOOSE g : P(g)
            k == [j \in S |-> h[j]]
<1>1. ASSUME NEW i PROVE Height(t, i) = IF i < 0 THEN 0 ELSE f[i]
  BY Zenon DEF Height, Kid
<1>2. 0 \in Sides /\ 1 \in Sides
  BY DEF Sides
<1>3. \A j \in S : j \in Nat /\ \A s \in Sides : Kid(t, j, s) \in S \cup {-1}
  BY KidsAre, ValuesAre
<1>4. ASSUME NEW j \in S
      PROVE  /\ h[j] = (IF Level(t, h, j, 0) < Level(t, h, j, 1) THEN Level(t, h, j, 1) ELSE Level(t, h, j, 0)) + 1
             /\ Level(t, h, j, 0) \in Nat /\ Level(t, h, j, 1) \in Nat
  <2>1. Stands(Bal(t, j), h[j], 0, Counted(t, h, -1, 0, 0, j, 0), Counted(t, h, -1, 0, 0, j, 1 - 0))
    BY <1>2, Zenon DEF Weighed
  <2>2. \A s \in Sides : Counted(t, h, -1, 0, 0, j, s) = Level(t, h, j, s) /\ Level(t, h, j, s) \in Nat
    <3>1. h \in Heights(D) /\ S \subseteq D
      BY DEF Weighed, Places
    <3>2. \A x \in S : h[x] \in Nat
      BY <3>1 DEF Heights
    <3>. QED
      BY <1>3, <3>2 DEF Counted, Level
  <2>3. Stands(Bal(t, j), h[j], 0, Level(t, h, j, 0), Level(t, h, j, 1))
    BY <1>2, <2>1, <2>2
  <2>4. Level(t, h, j, 0) \in Nat /\ Level(t, h, j, 1) \in Nat
    BY <1>2, <2>2
  <2>. QED
    BY <2>3, <2>4 DEF Stands, Higher
<1>5. ASSUME NEW g, NEW j \in S, \A s \in Sides : Kid(t, j, s) = -1 \/ g[Kid(t, j, s)] = h[Kid(t, j, s)]
      PROVE  (IF L(g, j) < R(g, j) THEN R(g, j) ELSE L(g, j)) + 1 = h[j]
  <2>1. L(g, j) = Level(t, h, j, 0) /\ R(g, j) = Level(t, h, j, 1)
    BY <1>2, <1>3, <1>5 DEF Level
  <2>. HIDE DEF L, R
  <2>. QED
    BY <1>4, <2>1
<1>. HIDE DEF L, R
<1>6. P(k)
  <2>1. \A j \in S : (IF L(k, j) < R(k, j) THEN R(k, j) ELSE L(k, j)) + 1 = h[j]
    <3>1. \A j \in S : k[j] = h[j]
      OBVIOUS
    <3>. HIDE DEF k
    <3>. QED
      BY <1>3, <1>5, <3>1
  <2>2. k = [j \in S |-> h[j]]
    OBVIOUS
  <2>. HIDE DEF k
  <2>. QED
    BY <2>1, <2>2
<1>7. P(f)
  <2>. HIDE DEF P, k
  <2>. QED
    BY <1>6, Zenon
<1>8. \A j \in S : f[j] = (IF L(f, j) < R(f, j) THEN R(f, j) ELSE L(f, j)) + 1
  <2>. SUFFICES ASSUME NEW j \in S
                PROVE  f[j] = (IF L(f, j) < R(f, j) THEN R(f, j) ELSE L(f, j)) + 1
    OBVIOUS
  <2>. HIDE DEF f
  <2>. QED
    BY <1>7, Zenon
<1>. HIDE DEF f, P
<1>. DEFINE good == {j \in S : f[j] = h[j]}
<1>9. ASSUME NEW j \in S, \A s \in Sides : Kid(t, j, s) = -1 \/ Kid(t, j, s) \in good
      PROVE  j \in good
  BY <1>5, <1>8, <1>9
<1>. HIDE DEF good
<1>10. \A j \in S : j \in good
  BY <1>9, Downward
<1>11. \A j \in S : f[j] = h[j]
  BY <1>10 DEF good
<1>. QED
  BY <1>1, <1>3, <1>11

\* A list that goes on from slot to slot.
Listed(f, X, nx) == f = [j \in X \cup {-1} |-> IF j < 0 THEN <<>> ELSE <<j>> \o f[nx[j]]]

\* Slots that come nearer the end with each step make a list.
LEMMA Lists ==
    ASSUME NEW X, X \subseteq Nat, NEW nx, NEW m, NEW M \in Nat,
           \A j \in X : m[j] \in Nat /\ m[j] < M,
           \A j \in X : nx[j] = -1 \/ (nx[j] \in X /\ m[nx[j]] < m[j])
    PROVE  \E f : Listed(f, X, nx)
<1>. DEFINE Part(n) == {j \in X : m[j] < n}
            good == {n \in 0 .. M : \E f : Listed(f, Part(n), nx)}
<1>1. 0 \in good
  <2>. DEFINE f == [j \in {-1} |-> <<>>]
  <2>0. Part(0) = {}
    <3>. SUFFICES ASSUME NEW j \in Part(0) PROVE FALSE
      OBVIOUS
    <3>1. m[j] \in Nat
      OBVIOUS
    <3>. QED
      BY <3>1
  <2>1. Part(0) \cup {-1} = {-1}
    BY <2>0, Zenon
  <2>2. f = [j \in {-1} |-> IF j < 0 THEN <<>> ELSE <<j>> \o f[nx[j]]]
    OBVIOUS
  <2>3. Listed(f, Part(0), nx)
    BY <2>1, <2>2 DEF Listed
  <2>4. 0 \in 0 .. M
    OBVIOUS
  <2>. HIDE DEF f, Part
  <2>. QED
    BY <2>3, <2>4
<1>2. ASSUME NEW n \in 0 .. M - 1, n \in good
      PROVE  n + 1 \in good
  <2>. DEFINE A == Part(n) \cup {-1}
              B == Part(n + 1) \cup {-1}
  <2>1. PICK f : f = [j \in A |-> IF j < 0 THEN <<>> ELSE <<j>> \o f[nx[j]]]
    BY <1>2 DEF Listed
  <2>. DEFINE g == [j \in B |-> IF j \in A THEN f[j] ELSE <<j>> \o f[nx[j]]]
              G(j) == IF j < 0 THEN <<>> ELSE <<j>> \o g[nx[j]]
  <2>2. ASSUME NEW j \in B
        PROVE  g[j] = G(j)
    <3>1. ~ (j < 0) => nx[j] \in A /\ nx[j] \in B
      <4>. SUFFICES ASSUME ~ (j < 0) PROVE nx[j] \in A /\ nx[j] \in B
        OBVIOUS
      <4>1. j \in X /\ m[j] < n + 1 /\ (nx[j] = -1 \/ (nx[j] \in X /\ m[nx[j]] < m[j]))
        OBVIOUS
      <4>2. CASE nx[j] = -1
        BY <4>2
      <4>3. CASE nx[j] # -1
        <5>1. m[j] \in Nat /\ m[nx[j]] \in Nat
          BY <4>1, <4>3
        <5>. QED
          BY <4>1, <4>3, <5>1
      <4>. QED
        BY <4>2, <4>3
    <3>2. g[j] = IF j < 0 THEN <<>> ELSE <<j>> \o f[nx[j]]
      <4>1. CASE j \in A
        <5>1. f[j] = IF j < 0 THEN <<>> ELSE <<j>> \o f[nx[j]]
          BY <2>1, <4>1, Zenon
        <5>. QED
          BY <4>1, <5>1, Zenon
      <4>2. CASE j \notin A
        <5>1. ~ (j < 0)
          BY <4>2
        <5>2. g[j] = <<j>> \o f[nx[j]]
          BY <4>2, Zenon
        <5>. QED
          BY <5>1, <5>2, Zenon
      <4>. QED
        BY <4>1, <4>2
    <3>3. ~ (j < 0) => g[nx[j]] = f[nx[j]]
      BY <3>1, Zenon
    <3>. QED
      BY <3>2, <3>3, Zenon
  <2>3. g = [j \in B |-> G(j)]
    <3>1. g = [j \in B |-> g[j]]
      BY Zenon
    <3>. HIDE DEF g, G, A, B
    <3>. QED
      BY <2>2, <3>1
  <2>4. Listed(g, Part(n + 1), nx)
    BY <2>3, Zenon DEF Listed
  <2>. HIDE DEF g, Part
  <2>. QED
    BY <2>4
<1>3. Part(M) = X
  OBVIOUS
<1>4. M \in good
  <2>. HIDE DEF good
  <2>. QED
    BY <1>1, <1>2, Counting
<1>. HIDE DEF Part
<1>. QED
  BY <1>3, <1>4

\* A list with one more in front.
LEMMA Prepending ==
    ASSUME NEW S, NEW i \in S, NEW p \in Seq(S), NEW q, q = <<i>> \o p
    PROVE  /\ q \in Seq(S) /\ Len(q) = 1 + Len(p) /\ q[1] = i
           /\ \A k \in 1 .. Len(p) : q[k + 1] = p[k]
OBVIOUS

\* The slots from one on.
Rest(S, at, i) == {x \in S : at[x] >= at[i]}

\* There is one fewer from the next slot on.
LEMMA RestIs ==
    ASSUME NEW D, NEW S, NEW at, NEW low, NEW high, Places(D, S, at, low, high), IsFiniteSet(D),
           NEW i \in S, NEW r, Adjacent(S, at, i, 1, r)
    PROVE  /\ Cardinality(Rest(S, at, i)) \in Nat /\ Cardinality(Rest(S, at, i)) < Cardinality(D) + 1
           /\ r = -1 => Cardinality(Rest(S, at, i)) = 1
           /\ r # -1 => r \in S /\ Cardinality(Rest(S, at, i)) = Cardinality(Rest(S, at, r)) + 1
<1>1. S \subseteq D /\ \A x \in S : at[x] \in Int /\ x # -1
  BY DEF Places
<1>2. \A x, y \in S : at[x] = at[y] => x = y
  BY DEF Places
<1>3. IsFiniteSet(S)
  BY <1>1, FS_Subset
<1>4. \A x \in S : IsFiniteSet(Rest(S, at, x))
  BY <1>3, FS_Subset DEF Rest
<1>5. Cardinality(Rest(S, at, i)) \in Nat /\ Cardinality(Rest(S, at, i)) < Cardinality(D) + 1
  <2>1. Rest(S, at, i) \subseteq D
    BY <1>1 DEF Rest
  <2>2. Cardinality(Rest(S, at, i)) <= Cardinality(D) /\ Cardinality(D) \in Nat /\ Cardinality(Rest(S, at, i)) \in Nat
    BY <1>4, <2>1, FS_Subset, FS_CardinalityType
  <2>. QED
    BY <2>2
<1>6. CASE r = -1
  <2>1. \A x \in S : ~ (at[i] < at[x])
    BY <1>1, <1>6 DEF Adjacent, Beyond
  <2>2. Rest(S, at, i) = {i}
    BY <1>1, <1>2, <2>1 DEF Rest
  <2>3. Cardinality(Rest(S, at, i)) = 1
    BY <2>2, FS_Singleton
  <2>. QED
    BY <1>5, <1>6, <2>3
<1>7. CASE r # -1
  <2>1. r \in S /\ at[i] < at[r] /\ \A x \in S : ~ Between(at[i], at[x], at[r])
    BY <1>7 DEF Adjacent, Beyond
  <2>2. Rest(S, at, r) = Rest(S, at, i) \ {i}
    <3>1. ASSUME NEW x \in S
          PROVE  at[x] >= at[r] <=> (at[x] >= at[i] /\ x # i)
      <4>1. at[x] \in Int /\ at[i] \in Int /\ at[r] \in Int /\ ~ Between(at[i], at[x], at[r])
        BY <1>1, <2>1
      <4>2. x # i => at[x] # at[i]
        BY <1>2
      <4>. QED
        BY <2>1, <4>1, <4>2 DEF Between
    <3>. QED
      BY <3>1 DEF Rest
  <2>3. i \in Rest(S, at, i)
    BY <1>1 DEF Rest
  <2>4. Cardinality(Rest(S, at, r)) = Cardinality(Rest(S, at, i)) - 1
    BY <1>4, <2>2, <2>3, FS_RemoveElement
  <2>. QED
    BY <1>5, <1>7, <2>1, <2>4
<1>. QED
  BY <1>6, <1>7

\* What holds of a slot when it holds of the next.
LEMMA Backward ==
    ASSUME NEW D, NEW S, NEW at, NEW low, NEW high, Places(D, S, at, low, high), IsFiniteSet(D),
           NEW nx, \A i \in S : Adjacent(S, at, i, 1, nx[i]),
           NEW good, \A i \in S : (nx[i] = -1 \/ nx[i] \in good) => i \in good
    PROVE  \A i \in S : i \in good
<1>. DEFINE bad == {i \in S : i \notin good}
            sizes == {Cardinality(Rest(S, at, i)) : i \in bad}
<1>. SUFFICES ASSUME bad # {} PROVE FALSE
  OBVIOUS
<1>1. \A i \in S : /\ Cardinality(Rest(S, at, i)) \in Nat
                   /\ nx[i] # -1 => /\ nx[i] \in S
                                    /\ Cardinality(Rest(S, at, i)) = Cardinality(Rest(S, at, nx[i])) + 1
  BY RestIs
<1>2. sizes \in SUBSET Nat /\ sizes # {}
  BY <1>1
<1>3. PICK r \in sizes : \A q \in sizes : r <= q
  BY <1>2, Smallest
<1>4. PICK i \in bad : r = Cardinality(Rest(S, at, i))
  BY <1>3
<1>5. nx[i] # -1 /\ nx[i] \notin good /\ nx[i] \in S
  BY <1>1, <1>4
<1>6. Cardinality(Rest(S, at, nx[i])) \in sizes
  BY <1>5
<1>7. i \in S /\ r <= Cardinality(Rest(S, at, nx[i]))
  BY <1>3, <1>4, <1>6
<1>8. Cardinality(Rest(S, at, nx[i])) \in Nat /\ r = Cardinality(Rest(S, at, nx[i])) + 1
  BY <1>1, <1>4, <1>5, <1>7
<1>. QED
  BY <1>7, <1>8

\* A list of the slots from one on, each followed by the next.
Listing(S, at, i, q) ==
    /\ q \in Seq(S) /\ Len(q) = Cardinality(Rest(S, at, i)) /\ Len(q) >= 1 /\ q[1] = i
    /\ \A k \in 1 .. Len(q) - 1 : Adjacent(S, at, q[k], 1, q[k + 1])

\* Walking the tree from its first slot visits each slot once, in order.
LEMMA InOrderIs ==
    ASSUME NEW D, NEW S, NEW at, NEW low, NEW high, NEW t, NEW lim,
           Places(D, S, at, low, high), Linked(D, S, at, low, high, t, lim), IsFiniteSet(D),
           Lexed(t) = S
    PROVE  LET list == InOrder(t) IN
           /\ list \in Seq(S) /\ Len(list) = Cardinality(S)
           /\ \A k \in 1 .. Len(list) - 1 : Adjacent(S, at, list[k], 1, list[k + 1])
<1>. DEFINE P(g) == g = [i \in Lexed(t) \cup {-1} |->
                           IF i < 0 THEN <<>> ELSE <<i>> \o g[Neighbour(t, i, 1)]]
            f == CHOOSE g : P(g)
            nx == [i \in S |-> Neighbour(t, i, 1)]
            e == EndOf(t, 0)
<1>1. InOrder(t) = f[e]
  BY Zenon DEF InOrder
<1>2. S \subseteq Nat /\ \A i \in S : i \in Nat /\ i # -1 /\ ~ (i < 0)
  BY ValuesAre
<1>3. \A i \in S : nx[i] = Neighbour(t, i, 1) /\ Adjacent(S, at, i, 1, nx[i])
  <2>1. 1 \in Sides
    BY DEF Sides
  <2>. QED
    BY <2>1, NeighbourIs
<1>4. \A g : P(g) <=> Listed(g, S, nx)
  <2>. SUFFICES ASSUME NEW g PROVE P(g) <=> Listed(g, S, nx)
    OBVIOUS
  <2>1. \A i \in S \cup {-1} : (IF i < 0 THEN <<>> ELSE <<i>> \o g[Neighbour(t, i, 1)]) =
                               (IF i < 0 THEN <<>> ELSE <<i>> \o g[nx[i]])
    BY <1>3
  <2>. HIDE DEF nx
  <2>. QED
    BY <2>1 DEF Listed
<1>. HIDE DEF nx
<1>5. \E g : P(g)
  <2>. DEFINE m == [i \in S |-> Cardinality(Rest(S, at, i))]
              M == Cardinality(D) + 1
  <2>1. \A i \in S : /\ Cardinality(Rest(S, at, i)) \in Nat /\ Cardinality(Rest(S, at, i)) < M
                     /\ nx[i] # -1 => /\ nx[i] \in S
                                      /\ Cardinality(Rest(S, at, i)) = Cardinality(Rest(S, at, nx[i])) + 1
    BY <1>3, RestIs
  <2>2. \A i \in S : m[i] \in Nat /\ m[i] < M
    BY <2>1
  <2>3. \A i \in S : nx[i] = -1 \/ (nx[i] \in S /\ m[nx[i]] < m[i])
    <3>. HIDE DEF M
    <3>. QED
      BY <2>1
  <2>4. M \in Nat
    BY FS_CardinalityType
  <2>. HIDE DEF m, M
  <2>5. \E g : Listed(g, S, nx)
    BY <1>2, <2>2, <2>3, <2>4, Lists
  <2>. QED
    BY <1>4, <2>5
<1>6. P(f)
  <2>. HIDE DEF P
  <2>. QED
    BY <1>5, Zenon
<1>7. f[-1] = <<>> /\ \A i \in S : f[i] = <<i>> \o f[nx[i]]
  <2>1. Listed(f, S, nx)
    BY <1>4, <1>6
  <2>. HIDE DEF f
  <2>2. \A i \in S \cup {-1} : f[i] = IF i < 0 THEN <<>> ELSE <<i>> \o f[nx[i]]
    BY <2>1, Zenon DEF Listed
  <2>3. -1 \in S \cup {-1} /\ -1 < 0
    OBVIOUS
  <2>4. f[-1] = <<>>
    BY <2>2, <2>3, Zenon
  <2>5. \A i \in S : f[i] = <<i>> \o f[nx[i]]
    BY <1>2, <2>2, Zenon
  <2>. QED
    BY <2>4, <2>5
<1>. HIDE DEF f, P, e
<1>. DEFINE good == {i \in S : Listing(S, at, i, f[i])}
<1>8. ASSUME NEW i \in S, nx[i] = -1 \/ nx[i] \in good
      PROVE  i \in good
  <2>. DEFINE q == f[i]
              p == f[nx[i]]
  <2>1. Adjacent(S, at, i, 1, nx[i]) /\ q = <<i>> \o p
    BY <1>3, <1>7
  <2>2. CASE nx[i] = -1
    <3>1. p = <<>>
      BY <1>7, <2>2
    <3>2. q = <<i>>
      BY <2>1, <3>1
    <3>3. Cardinality(Rest(S, at, i)) = 1
      BY <2>1, <2>2, RestIs
    <3>. HIDE DEF q
    <3>4. Listing(S, at, i, q)
      BY <3>2, <3>3 DEF Listing
    <3>. QED
      BY <3>4 DEF q
  <2>3. CASE nx[i] # -1
    <3>1. Listing(S, at, nx[i], p)
      BY <1>8, <2>3
    <3>2. Cardinality(Rest(S, at, i)) = Cardinality(Rest(S, at, nx[i])) + 1
      BY <2>1, <2>3, RestIs
    <3>. HIDE DEF q, p
    <3>3. /\ p \in Seq(S) /\ Len(p) = Cardinality(Rest(S, at, nx[i])) /\ Len(p) >= 1 /\ p[1] = nx[i]
          /\ \A k \in 1 .. Len(p) - 1 : Adjacent(S, at, p[k], 1, p[k + 1])
      BY <3>1 DEF Listing
    <3>4. /\ q \in Seq(S) /\ Len(q) = 1 + Len(p) /\ q[1] = i
          /\ \A k \in 1 .. Len(p) : q[k + 1] = p[k]
      BY <2>1, <3>3, Prepending
    <3>5. Len(p) \in Nat
      BY <3>3
    <3>6. ASSUME NEW k \in 1 .. Len(q) - 1
          PROVE  Adjacent(S, at, q[k], 1, q[k + 1])
      <4>1. CASE k = 1
        <5>1. q[k] = i /\ q[k + 1] = nx[i]
          BY <3>3, <3>4, <3>5, <4>1
        <5>. QED
          BY <2>1, <5>1
      <4>2. CASE k # 1
        <5>1. k - 1 \in 1 .. Len(p) - 1 /\ k - 1 \in 1 .. Len(p) /\ k \in 1 .. Len(p) /\ (k - 1) + 1 = k
          BY <3>4, <3>5, <4>2
        <5>2. q[k] = p[k - 1] /\ q[k + 1] = p[k]
          BY <3>4, <5>1
        <5>3. Adjacent(S, at, p[k - 1], 1, p[k])
          BY <3>3, <5>1
        <5>. QED
          BY <5>2, <5>3
      <4>. QED
        BY <4>1, <4>2
    <3>7. Len(q) = Cardinality(Rest(S, at, i)) /\ Len(q) >= 1
      BY <3>2, <3>3, <3>4, <3>5
    <3>8. Listing(S, at, i, q)
      BY <3>4, <3>6, <3>7 DEF Listing
    <3>. QED
      BY <3>8 DEF q
  <2>. QED
    BY <2>2, <2>3
<1>. HIDE DEF good
<1>9. \A i \in S : i \in good
  BY <1>3, <1>8, Backward
<1>10. \/ S = {} /\ e = -1
       \/ e \in S /\ \A x \in S : ~ Beyond(at[e], at[x], 0)
  <2>1. 0 \in Sides
    BY DEF Sides
  <2>. QED
    BY <2>1, EndOfIs DEF e
<1>11. CASE S = {} /\ e = -1
  <2>1. InOrder(t) = <<>> /\ Cardinality(S) = 0
    BY <1>1, <1>7, <1>11, FS_EmptySet
  <2>. QED
    BY <2>1
<1>12. CASE e \in S /\ \A x \in S : ~ Beyond(at[e], at[x], 0)
  <2>1. Listing(S, at, e, InOrder(t))
    BY <1>1, <1>9, <1>12 DEF good
  <2>2. Rest(S, at, e) = S
    <3>1. \A x \in S : at[x] \in Int
      BY DEF Places
    <3>2. \A x \in S : ~ (at[x] < at[e])
      BY <1>12 DEF Beyond
    <3>. QED
      BY <1>12, <3>1, <3>2 DEF Rest
  <2>. QED
    BY <2>1, <2>2 DEF Listing
<1>. QED
  BY <1>10, <1>11, <1>12

----------------------------------------------------------------------------
(* Searches *)

Kinds == {"any_equal", "first_equal", "last_equal", "first_greater",
          "first_greater_equal", "last_less", "last_less_equal"}

\* The slots a search is for, by how the key compares with theirs.
Wanted(kind, r) ==
    CASE kind \in {"first_equal", "last_equal", "any_equal"} -> r = 0
      [] kind = "first_greater" -> r < 0
      [] kind = "first_greater_equal" -> r <= 0
      [] kind = "last_less" -> r > 0
      [] kind = "last_less_equal" -> r >= 0

\* The side from which a search wants the first of them.
From(kind) == IF kind \in {"first_equal", "first_greater", "first_greater_equal"} THEN 0 ELSE 1

\* Whether a search goes on to the right.
Onto(kind, r) ==
    IF kind \in {"first_equal", "first_greater_equal", "last_less"} THEN r > 0 ELSE r >= 0

\* The slots a search of a set of slots may come back with, and -1 when none is wanted.
Answers(S, at, order, kind, r) ==
    LET hits == {x \in S : Wanted(kind, order[x])} IN
    IF hits = {} THEN r = -1
    ELSE /\ r \in hits
         /\ kind # "any_equal" => \A x \in hits : x = r \/ Beyond(at[r], at[x], 1 - From(kind))

\* The key compares with the slots in their order.
Falls(S, at, order) ==
    /\ \A x \in S : order[x] \in Int
    /\ \A x, y \in S : at[x] < at[y] => order[y] <= order[x]

\* A search comes back with what it finds deeper down, or with its own.
Returned(f, X, end, val, nx) ==
    f = [j \in X |-> IF j \in end THEN val[j] ELSE IF f[nx[j]] >= 0 THEN f[nx[j]] ELSE val[j]]

\* Such a walk that comes nearer its end with each step has a result.
LEMMA Returns ==
    ASSUME NEW X, NEW end, NEW val, NEW nx, NEW m, NEW M \in Nat,
           \A j \in X : m[j] \in Nat /\ m[j] < M,
           \A j \in X \ end : nx[j] \in X /\ m[nx[j]] < m[j]
    PROVE  \E f : Returned(f, X, end, val, nx)
<1>. DEFINE Part(n) == {j \in X : m[j] < n}
            good == {n \in 0 .. M : \E f : Returned(f, Part(n), end, val, nx)}
            Back(f, j) == IF f[nx[j]] >= 0 THEN f[nx[j]] ELSE val[j]
<1>1. 0 \in good
  <2>. DEFINE f == [j \in {} |-> 0]
  <2>1. Part(0) = {}
    OBVIOUS
  <2>2. f = [j \in Part(0) |-> IF j \in end THEN val[j] ELSE Back(f, j)]
    BY <2>1
  <2>3. Returned(f, Part(0), end, val, nx)
    BY <2>2, Zenon DEF Returned
  <2>4. 0 \in 0 .. M
    OBVIOUS
  <2>. HIDE DEF f, Part
  <2>. QED
    BY <2>3, <2>4
<1>2. ASSUME NEW n \in 0 .. M - 1, n \in good
      PROVE  n + 1 \in good
  <2>1. PICK f : f = [j \in Part(n) |-> IF j \in end THEN val[j] ELSE Back(f, j)]
    BY <1>2 DEF Returned
  <2>. DEFINE g == [j \in Part(n + 1) |-> IF j \in Part(n) THEN f[j]
                                          ELSE IF j \in end THEN val[j] ELSE Back(f, j)]
              G(j) == IF j \in end THEN val[j] ELSE Back(g, j)
  <2>2. ASSUME NEW j \in Part(n + 1)
        PROVE  g[j] = G(j)
    <3>1. j \notin end => nx[j] \in Part(n) /\ nx[j] \in Part(n + 1)
      <4>. SUFFICES ASSUME j \notin end PROVE nx[j] \in Part(n) /\ nx[j] \in Part(n + 1)
        OBVIOUS
      <4>1. j \in X /\ m[j] < n + 1 /\ nx[j] \in X /\ m[nx[j]] < m[j]
        OBVIOUS
      <4>2. m[j] \in Nat /\ m[nx[j]] \in Nat
        BY <4>1
      <4>. QED
        BY <4>1, <4>2
    <3>2. g[j] = IF j \in end THEN val[j] ELSE Back(f, j)
      <4>. HIDE DEF Back
      <4>1. CASE j \in Part(n)
        <5>1. f[j] = IF j \in end THEN val[j] ELSE Back(f, j)
          BY <2>1, <4>1, Zenon
        <5>. QED
          BY <4>1, <5>1, Zenon
      <4>2. CASE j \notin Part(n)
        BY <4>2, Zenon
      <4>. QED
        BY <4>1, <4>2
    <3>3. j \notin end => g[nx[j]] = f[nx[j]]
      BY <3>1, Zenon
    <3>4. j \notin end => Back(g, j) = Back(f, j)
      <4>. HIDE DEF g, Part
      <4>. QED
        BY <3>3
    <3>. HIDE DEF Back, g, Part
    <3>. QED
      BY <3>2, <3>4, Zenon
  <2>3. g = [j \in Part(n + 1) |-> G(j)]
    <3>1. g = [j \in Part(n + 1) |-> g[j]]
      BY Zenon
    <3>. HIDE DEF g, G, Part
    <3>. QED
      BY <2>2, <3>1
  <2>4. Returned(g, Part(n + 1), end, val, nx)
    BY <2>3, Zenon DEF Returned
  <2>. HIDE DEF g, Part
  <2>. QED
    BY <2>4
<1>3. Part(M) = X
  OBVIOUS
<1>4. M \in good
  <2>. HIDE DEF good
  <2>. QED
    BY <1>1, <1>2, Counting
<1>. HIDE DEF Part
<1>. QED
  BY <1>3, <1>4

\* How a search turns: past a slot that is not wanted only where none on the other
\* side of it is, and at one that is towards the side it wants the first from.
LEMMA KindIs ==
    ASSUME NEW kind \in Kinds, NEW r \in Int, NEW q \in Int
    PROVE  LET goes == IF Onto(kind, r) THEN 1 ELSE 0 IN
           /\ ~ Wanted(kind, r) /\ (IF goes = 1 THEN r <= q ELSE q <= r) => ~ Wanted(kind, q)
           /\ kind # "any_equal" /\ Wanted(kind, r) => goes = From(kind)
<1>1. CASE kind = "any_equal"
  BY <1>1 DEF Onto, Wanted
<1>2. CASE kind = "first_equal"
  BY <1>2 DEF From, Onto, Wanted
<1>3. CASE kind = "last_equal"
  BY <1>3 DEF From, Onto, Wanted
<1>4. CASE kind = "first_greater"
  BY <1>4 DEF From, Onto, Wanted
<1>5. CASE kind = "first_greater_equal"
  BY <1>5 DEF From, Onto, Wanted
<1>6. CASE kind = "last_less"
  BY <1>6 DEF From, Onto, Wanted
<1>7. CASE kind = "last_less_equal"
  BY <1>7 DEF From, Onto, Wanted
<1>. QED
  BY <1>1, <1>2, <1>3, <1>4, <1>5, <1>6, <1>7 DEF Kinds

\* A slot's span is its children's and itself: what is on side s of it is in
\* the span of its child there.
LEMMA SpanIs ==
    ASSUME NEW D, NEW S, NEW at, NEW low, NEW high, NEW t, NEW lim,
           Places(D, S, at, low, high), Linked(D, S, at, low, high, t, lim),
           NEW j \in S, NEW s \in Sides, NEW x \in S
    PROVE  LET c == Kid(t, j, s) IN
           /\ j \in Span(S, at, lim, j)
           /\ x \in Span(S, at, lim, j) /\ Beyond(at[j], at[x], s)
                => c # -1 /\ x \in Span(S, at, lim, c)
           /\ c # -1 /\ x \in Span(S, at, lim, c)
                => x \in Span(S, at, lim, j) /\ Beyond(at[j], at[x], s)
<1>. DEFINE c == Kid(t, j, s)
<1>1. /\ c = -1 => ~ Between(at[j], at[x], lim[j][s])
      /\ c # -1 => c \in S /\ lim[c][s] = lim[j][s] /\ lim[c][1 - s] = at[j]
  BY KidsAre
<1>. HIDE DEF c
<1>2. /\ at[j] \in Int /\ at[x] \in Int /\ lim[j][0] \in Int /\ lim[j][1] \in Int
      /\ lim[j][0] < at[j] /\ at[j] < lim[j][1]
  <2>1. 0 \in Sides /\ 1 \in Sides
    BY DEF Sides
  <2>. QED
    BY <2>1, ValuesAre DEF Linked, Inside
<1>3. CASE s = 0
  BY <1>1, <1>2, <1>3 DEF Span, Between, Beyond, c
<1>4. CASE s = 1
  BY <1>1, <1>2, <1>4 DEF Span, Between, Beyond, c
<1>. QED
  BY <1>3, <1>4 DEF Sides

\* One step of a search: at slot j it goes on to its child c towards g, and comes back
\* with q from there.
LEMMA AnswersOnward ==
    ASSUME NEW D, NEW S, NEW at, NEW low, NEW high, NEW t, NEW lim,
           Places(D, S, at, low, high), Linked(D, S, at, low, high, t, lim),
           NEW order, Falls(S, at, order), NEW kind \in Kinds, NEW j \in S,
           NEW g, g = IF Onto(kind, order[j]) THEN 1 ELSE 0, NEW c, c = Kid(t, j, g),
           NEW q, c # -1 => Answers(Span(S, at, lim, c), at, order, kind, q), NEW own, NEW r,
           own = (IF Wanted(kind, order[j]) THEN j ELSE -1),
           r = (IF c < 0 \/ (kind = "any_equal" /\ Wanted(kind, order[j])) THEN own
                ELSE IF q >= 0 THEN q ELSE own)
    PROVE  Answers(Span(S, at, lim, j), at, order, kind, r)
<1>. DEFINE Hit(x) == Wanted(kind, order[x])
            e == 1 - g
            hits == {x \in Span(S, at, lim, j) : Hit(x)}
            down == {x \in Span(S, at, lim, c) : Hit(x)}
<1>1. g \in Sides /\ e \in Sides /\ ((g = 0 /\ e = 1) \/ (g = 1 /\ e = 0))
  BY DEF Sides
<1>2. c \in S \cup {-1} /\ \A x \in S : x \in Nat
  <2>1. c \in S \cup {-1}
    BY <1>1, KidsAre
  <2>. QED
    BY <2>1, ValuesAre
<1>3. /\ j \in Span(S, at, lim, j)
      /\ \A x \in S, s \in Sides : x \in Span(S, at, lim, j) /\ Beyond(at[j], at[x], s)
            => Kid(t, j, s) # -1 /\ x \in Span(S, at, lim, Kid(t, j, s))
      /\ \A x \in S, s \in Sides : Kid(t, j, s) # -1 /\ x \in Span(S, at, lim, Kid(t, j, s))
            => x \in Span(S, at, lim, j) /\ Beyond(at[j], at[x], s)
  <2>1. ASSUME NEW x \in S, NEW s \in Sides
        PROVE  /\ j \in Span(S, at, lim, j)
               /\ x \in Span(S, at, lim, j) /\ Beyond(at[j], at[x], s)
                    => Kid(t, j, s) # -1 /\ x \in Span(S, at, lim, Kid(t, j, s))
               /\ Kid(t, j, s) # -1 /\ x \in Span(S, at, lim, Kid(t, j, s))
                    => x \in Span(S, at, lim, j) /\ Beyond(at[j], at[x], s)
    BY SpanIs
  <2>. QED
    BY <1>1, <2>1
<1>4. \A x \in S : /\ at[x] \in Int
                   /\ x = j \/ Beyond(at[j], at[x], g) \/ Beyond(at[j], at[x], e)
  <2>1. \A x \in S : at[x] \in Int /\ (at[x] = at[j] => x = j)
    BY DEF Places
  <2>. HIDE DEF e
  <2>. QED
    BY <1>1, <2>1 DEF Beyond
<1>5. ASSUME ~ Hit(j), NEW x \in S, Beyond(at[j], at[x], e) PROVE ~ Hit(x)
  <2>1. order[j] \in Int /\ order[x] \in Int
    BY DEF Falls
  <2>2. IF g = 1 THEN order[j] <= order[x] ELSE order[x] <= order[j]
    <3>1. CASE g = 1
      <4>1. at[x] < at[j]
        BY <1>1, <1>5, <3>1 DEF Beyond
      <4>. QED
        BY <3>1, <4>1 DEF Falls
    <3>2. CASE g = 0
      <4>1. at[j] < at[x]
        BY <1>1, <1>5, <3>2 DEF Beyond
      <4>. QED
        BY <3>2, <4>1 DEF Falls
    <3>. QED
      BY <1>1, <3>1, <3>2
  <2>. QED
    BY <1>5, <2>1, <2>2, KindIs
<1>6. kind # "any_equal" /\ Hit(j) => g = From(kind) /\ e = 1 - From(kind)
  <2>1. order[j] \in Int
    BY DEF Falls
  <2>. QED
    BY <2>1, KindIs
<1>7. r = IF c = -1 \/ (kind = "any_equal" /\ Hit(j)) THEN own ELSE IF q >= 0 THEN q ELSE own
  BY <1>2
<1>8. own = IF Hit(j) THEN j ELSE -1
  OBVIOUS
<1>9. Span(S, at, lim, j) \subseteq S /\ (c # -1 => Span(S, at, lim, c) \subseteq S)
  BY DEF Span
<1>10. j \in hits <=> Hit(j)
  BY <1>3
<1>. HIDE DEF Hit
<1>11. c # -1 => \A x \in S : x \in Span(S, at, lim, c)
                   <=> x \in Span(S, at, lim, j) /\ Beyond(at[j], at[x], g)
  BY <1>1, <1>3
<1>12. CASE kind = "any_equal" /\ Hit(j)
  <2>1. r = j
    BY <1>7, <1>8, <1>12
  <2>. QED
    BY <1>10, <1>12, <2>1 DEF Answers, Hit
<1>13. CASE ~ Hit(j)
  <2>1. \A x \in hits : Beyond(at[j], at[x], g)
    BY <1>4, <1>5, <1>9, <1>13
  <2>2. CASE c = -1
    <3>1. hits = {}
      BY <1>1, <1>3, <1>9, <2>1, <2>2
    <3>2. r = -1
      BY <1>7, <1>8, <1>13, <2>2
    <3>. QED
      BY <3>1, <3>2 DEF Answers, Hit
  <2>3. CASE c # -1
    <3>1. hits = {x \in Span(S, at, lim, c) : Hit(x)}
      BY <1>9, <1>11, <2>1, <2>3
    <3>2. q = -1 \/ q \in Nat
      BY <1>2, <1>9, <2>3 DEF Answers
    <3>3. r = q
      BY <1>7, <1>8, <1>13, <2>3, <3>2
    <3>. QED
      BY <2>3, <3>1, <3>3 DEF Answers, Hit
  <2>. QED
    BY <2>2, <2>3
<1>14. CASE kind # "any_equal" /\ Hit(j)
  <2>1. CASE c = -1 \/ down = {}
    <3>1. r = j
      <4>1. c # -1 => q = -1
        BY <2>1 DEF Answers, Hit
      <4>. QED
        BY <1>7, <1>8, <1>14, <4>1
    <3>2. \A x \in hits : x = j \/ Beyond(at[j], at[x], e)
      BY <1>1, <1>3, <1>4, <1>9, <1>11, <2>1
    <3>. QED
      BY <1>6, <1>10, <1>14, <3>1, <3>2 DEF Answers, Hit
  <2>2. CASE c # -1 /\ down # {}
    <3>1. q \in down /\ \A x \in down : x = q \/ Beyond(at[q], at[x], e)
      BY <1>6, <1>14, <2>2 DEF Answers, Hit
    <3>2. q \in S /\ q \in hits /\ Beyond(at[j], at[q], g)
      BY <1>9, <1>11, <2>2, <3>1
    <3>3. r = q
      BY <1>2, <1>7, <1>8, <1>14, <2>2, <3>2
    <3>4. ASSUME NEW x \in hits PROVE x = q \/ Beyond(at[q], at[x], e)
      <4>1. CASE Beyond(at[j], at[x], g)
        BY <1>9, <1>11, <2>2, <3>1, <4>1
      <4>2. CASE x = j \/ Beyond(at[j], at[x], e)
        <5>1. at[x] \in Int /\ at[j] \in Int /\ at[q] \in Int
          BY <1>4, <1>9, <3>2
        <5>. HIDE DEF hits
        <5>. QED
          BY <1>1, <3>2, <4>2, <5>1 DEF Beyond
      <4>. QED
        BY <1>4, <1>9, <4>1, <4>2
    <3>. QED
      BY <1>6, <1>14, <3>2, <3>3, <3>4 DEF Answers, Hit
  <2>. QED
    BY <2>1, <2>2
<1>. QED
  BY <1>12, <1>13, <1>14

\* Search() comes back with what is wanted.
LEMMA LocateIs ==
    ASSUME NEW D, NEW S, NEW at, NEW low, NEW high, NEW t, NEW lim,
           Places(D, S, at, low, high), Linked(D, S, at, low, high, t, lim), IsFiniteSet(D),
           Lexed(t) = S, NEW order, Falls(S, at, order), NEW kind \in Kinds
    PROVE  Answers(S, at, order, kind, Locate(t, order, kind))
<1>. DEFINE Hit(j) == Wanted(kind, order[j])
            Goes(j) == IF Onto(kind, order[j]) THEN 1 ELSE 0
            nx == [j \in S |-> Kid(t, j, Goes(j))]
            end == {j \in S : nx[j] < 0 \/ (kind = "any_equal" /\ Hit(j))}
            val == [j \in S |-> IF Hit(j) THEN j ELSE -1]
            right == [r \in Int |-> Onto(kind, r)]
            found == [r \in Int |-> Wanted(kind, r)]
            Kid2(j) == t.meta[j].child[IF right[order[j]] THEN 1 ELSE 0]
            Deeper(g, j) == IF Kid2(j) < 0 \/ (kind = "any_equal" /\ found[order[j]]) THEN -1
                            ELSE g[Kid2(j)]
            P(g) == g = [j \in Lexed(t) |-> IF Deeper(g, j) >= 0 THEN Deeper(g, j)
                                            ELSE IF found[order[j]] THEN j ELSE -1]
            f == CHOOSE g : P(g)
<1>1. ASSUME NEW w PROVE Search(t, order, kind, w) = f[w]
  BY Zenon DEF Search, Onto, Wanted
<1>2. \A j \in S : order[j] \in Int /\ right[order[j]] = Onto(kind, order[j]) /\ found[order[j]] = Hit(j)
  BY DEF Falls
<1>. HIDE DEF right, found
<1>3. \A j \in S : nx[j] = Kid(t, j, Goes(j)) /\ Goes(j) \in Sides /\ val[j] = IF Hit(j) THEN j ELSE -1
  BY DEF Sides
<1>4. \A j \in S : nx[j] \in S \cup {-1} /\ j \in Nat
  BY <1>3, KidsAre, ValuesAre
<1>5. ASSUME NEW g, NEW j \in S
      PROVE  (IF Deeper(g, j) >= 0 THEN Deeper(g, j) ELSE IF found[order[j]] THEN j ELSE -1)
               = IF j \in end THEN val[j] ELSE IF g[nx[j]] >= 0 THEN g[nx[j]] ELSE val[j]
  <2>1. Kid2(j) = nx[j]
    BY <1>2 DEF Kid
  <2>2. val[j] = IF found[order[j]] THEN j ELSE -1
    BY <1>2, <1>3
  <2>3. Deeper(g, j) = IF j \in end THEN -1 ELSE g[nx[j]]
    BY <1>2, <2>1
  <2>. HIDE DEF Deeper, end, val, nx
  <2>. QED
    BY <2>2, <2>3
<1>6. \A g : P(g) <=> Returned(g, S, end, val, nx)
  <2>. SUFFICES ASSUME NEW g PROVE P(g) <=> Returned(g, S, end, val, nx)
    OBVIOUS
  <2>. HIDE DEF Deeper, end, val, nx
  <2>. QED
    BY <1>5 DEF Returned
<1>7. \E g : P(g)
  <2>1. PICK m : /\ \A j \in S : m[j] \in Nat /\ m[j] < Cardinality(D) + 1
                 /\ \A j \in S, s \in Sides : Kid(t, j, s) # -1 => m[Kid(t, j, s)] < m[j]
                 /\ Cardinality(D) + 1 \in Nat
    BY Descends
  <2>2. \A j \in S \ end : nx[j] \in S /\ m[nx[j]] < m[j]
    BY <1>3, <1>4, <2>1
  <2>. HIDE DEF nx, end, val, P
  <2>3. \E g : Returned(g, S, end, val, nx)
    BY <2>1, <2>2, Returns
  <2>. QED
    BY <1>6, <2>3
<1>8. Returned(f, S, end, val, nx)
  <2>1. P(f)
    <3>. HIDE DEF P
    <3>. QED
      BY <1>7, Zenon
  <2>. HIDE DEF P, f
  <2>. QED
    BY <1>6, <2>1
<1>. HIDE DEF f, P, Deeper
<1>9. \A j \in S : f[j] = IF j \in end THEN val[j] ELSE IF f[nx[j]] >= 0 THEN f[nx[j]] ELSE val[j]
  <2>. SUFFICES ASSUME NEW j \in S
                PROVE  f[j] = IF j \in end THEN val[j] ELSE IF f[nx[j]] >= 0 THEN f[nx[j]] ELSE val[j]
    OBVIOUS
  <2>. HIDE DEF end, val, nx
  <2>. QED
    BY <1>8, Zenon DEF Returned
<1>. DEFINE Good(j) == Answers(Span(S, at, lim, j), at, order, kind, f[j])
            good == {j \in S : Good(j)}
<1>10. ASSUME NEW j \in S, \A s \in Sides : Kid(t, j, s) = -1 \/ Kid(t, j, s) \in good
       PROVE  j \in good
  <2>1. Goes(j) = (IF Onto(kind, order[j]) THEN 1 ELSE 0) /\ Goes(j) \in Sides
    BY DEF Sides
  <2>2. nx[j] = Kid(t, j, Goes(j))
    BY <1>3
  <2>3. nx[j] # -1 => Answers(Span(S, at, lim, nx[j]), at, order, kind, f[nx[j]])
    <3>. HIDE DEF nx, Goes
    <3>. QED
      BY <1>10, <2>1, <2>2
  <2>4. val[j] = (IF Wanted(kind, order[j]) THEN j ELSE -1)
    BY <1>3
  <2>5. f[j] = (IF nx[j] < 0 \/ (kind = "any_equal" /\ Wanted(kind, order[j])) THEN val[j]
                ELSE IF f[nx[j]] >= 0 THEN f[nx[j]] ELSE val[j])
    <3>1. j \in end <=> nx[j] < 0 \/ (kind = "any_equal" /\ Wanted(kind, order[j]))
      OBVIOUS
    <3>. HIDE DEF nx, end, val
    <3>. QED
      BY <1>9, <3>1
  <2>. HIDE DEF nx, end, val, Goes, good
  <2>6. Answers(Span(S, at, lim, j), at, order, kind, f[j])
    BY <2>1, <2>2, <2>3, <2>4, <2>5, AnswersOnward
  <2>. QED
    BY <2>6 DEF good
<1>. HIDE DEF good
<1>11. \A j \in S : j \in good
  BY <1>10, Downward
<1>12. CASE S = {}
  <2>1. t.root = -1
    BY <1>12 DEF Linked, Rooted
  <2>2. Locate(t, order, kind) = -1
    BY <2>1 DEF Locate
  <2>. QED
    BY <1>12, <2>2 DEF Answers
<1>13. CASE S # {}
  <2>1. t.root \in S /\ lim[t.root][0] = low /\ lim[t.root][1] = high
    BY <1>13 DEF Linked, Rooted
  <2>2. Span(S, at, lim, t.root) = S
    BY <2>1 DEF Span, Places
  <2>3. Locate(t, order, kind) = f[t.root]
    <3>1. ~ (t.root < 0)
      BY <1>4, <2>1
    <3>. QED
      BY <1>1, <3>1 DEF Locate
  <2>. QED
    BY <1>11, <2>1, <2>2, <2>3 DEF good
<1>. QED
  BY <1>12, <1>13

----------------------------------------------------------------------------
(* The tree of the runs *)

\* The slots of the tree that is checked, each with its number for a key.
Slots == 0 .. Nodes - 1
Key == [i \in Slots |-> i]

\* The tree is sound: its links and its balances are those of a balanced
\* search tree of the slots in it.
Sound(t) == t \in Trees(Slots) /\ Whole(Slots, Lexed(t), Key, -1, Nodes, t)

\* These are slots with places.
LEMMA SlotsAre ==
    /\ IsFiniteSet(Slots)
    /\ \A t \in Trees(Slots) : Lexed(t) \subseteq Slots
    /\ \A S \in SUBSET Slots : Places(Slots, S, Key, -1, Nodes)
<1>1. Nodes \in Nat
  BY NodesAssumption
<1>2. IsFiniteSet(Slots)
  BY <1>1, FS_Interval DEF Slots
<1>3. ASSUME NEW t \in Trees(Slots)
      PROVE  Lexed(t) \subseteq Slots
  BY LexedIs
<1>4. ASSUME NEW S \in SUBSET Slots
      PROVE  Places(Slots, S, Key, -1, Nodes)
  BY <1>1 DEF Places, Slots, Key
<1>. QED
  BY <1>2, <1>3, <1>4

\* The empty tree is sound.
LEMMA SoundAtFirst ==
    ASSUME TreeInit
    PROVE  Sound(tree)
<1>. DEFINE n == Slot(-1, -1, -1, "unassigned")
            f == [s \in 0 .. 1 |-> IF s = 0 THEN -1 ELSE -1]
            mt == [i \in 0 .. Nodes - 1 |-> n]
<1>1. n = [parent |-> -1, child |-> f, bf |-> 0, state |-> "unassigned"]
  BY Zenon DEF Slot
<1>2. f \in [Sides -> Int]
  BY DEF Sides
<1>. HIDE DEF f
<1>3. n \in SlotType /\ n.state # "lexed"
  BY <1>1, <1>2 DEF SlotType, States
<1>. HIDE DEF n
<1>4. mt \in [Slots -> SlotType] /\ \A i \in Slots : mt[i].state # "lexed"
  BY <1>3 DEF Slots
<1>5. tree = [root |-> -1, meta |-> mt]
  BY Zenon DEF TreeInit, n
<1>. HIDE DEF mt
<1>6. tree \in Trees(Slots) /\ tree.root = -1 /\ Lexed(tree) = {}
  <2>1. tree \in Trees(Slots) /\ tree.root = -1 /\ tree.meta = mt
    BY <1>4, <1>5 DEF Trees
  <2>. QED
    BY <1>4, <2>1, LexedIs DEF State
<1>7. Whole(Slots, {}, Key, -1, Nodes, tree)
  <2>. DEFINE row == [s \in Sides |-> 0]
              lim == [j \in Slots |-> row]
              h == [j \in Slots |-> 0]
  <2>1. lim \in Limits(Slots) /\ h \in Heights(Slots)
    BY DEF Limits, Heights
  <2>. HIDE DEF lim, h
  <2>2. Linked(Slots, {}, Key, -1, Nodes, tree, lim)
    BY <1>6, <2>1 DEF Linked, Rooted
  <2>3. Weighed(Slots, {}, tree, h, -1, 0, 0)
    BY <2>1 DEF Weighed
  <2>. QED
    BY <2>2, <2>3 DEF Whole
<1>. QED
  BY <1>6, <1>7 DEF Sound

\* Numbers compare as their keys.
LEMMA NumbersAre ==
    ASSUME NEW i \in Slots, NEW j \in Slots
    PROVE  Numbers(i)[j] = i - j /\ Key[i] = i /\ Key[j] = j /\ i \in Int /\ j \in Int
BY NodesAssumption DEF Numbers, Slots, Key

\* An insertion leaves a sound tree with one slot more.
LEMMA InsertIsSound ==
    ASSUME NEW t, Sound(t), NEW i \in Slots, i \notin Lexed(t)
    PROVE  LET v == avl_insert(t, i, Numbers(i)) IN Sound(v) /\ Lexed(v) = Lexed(t) \cup {i}
<1>. DEFINE S == Lexed(t)
<1>1. t \in Trees(Slots) /\ Whole(Slots, S, Key, -1, Nodes, t)
  BY DEF Sound
<1>2. S \subseteq Slots /\ IsFiniteSet(Slots) /\ Places(Slots, S \cup {i}, Key, -1, Nodes) /\ i \in Slots \ S
  BY <1>1, SlotsAre
<1>3. Orders(S, Key, i, Numbers(i))
  <2>. SUFFICES ASSUME NEW j \in S PROVE Numbers(i)[j] >= 0 <=> Key[j] < Key[i]
    BY Zenon DEF Orders
  <2>1. Numbers(i)[j] = i - j /\ Key[i] = i /\ Key[j] = j /\ i \in Int /\ j \in Int
    BY <1>2, NumbersAre
  <2>2. i # j
    BY <1>2
  <2>. QED
    BY <2>1, <2>2
<1>4. Remade(Slots, S \cup {i}, Key, -1, Nodes, avl_insert(t, i, Numbers(i)))
  BY <1>1, <1>2, <1>3, InsertIs
<1>. QED
  BY <1>4 DEF Sound, Remade

\* A removal leaves a sound tree with one slot less.
LEMMA RemoveIsSound ==
    ASSUME NEW t, Sound(t), NEW i \in Lexed(t)
    PROVE  LET v == avl_remove(t, i) IN Sound(v) /\ Lexed(v) = Lexed(t) \ {i}
<1>. DEFINE S == Lexed(t)
<1>1. t \in Trees(Slots) /\ Whole(Slots, S, Key, -1, Nodes, t)
  BY DEF Sound
<1>2. IsFiniteSet(Slots) /\ Places(Slots, S, Key, -1, Nodes)
  BY <1>1, SlotsAre
<1>3. Remade(Slots, S \ {i}, Key, -1, Nodes, avl_remove(t, i))
  BY <1>1, <1>2, RemoveIs
<1>. QED
  BY <1>3 DEF Sound, Remade

\* What a sound tree is, in the words of the property the runs check.
LEMMA SoundIsBalanced ==
    ASSUME Sound(tree)
    PROVE  BalancedInOrder
<1>. DEFINE S == Lexed(tree)
            list == InOrder(tree)
            order == [i \in S |-> Numbers(i)]
<1>1. tree \in Trees(Slots) /\ Whole(Slots, S, Key, -1, Nodes, tree)
  BY DEF Sound
<1>2. IsFiniteSet(Slots) /\ Places(Slots, S, Key, -1, Nodes) /\ S \subseteq Slots
  BY <1>1, SlotsAre
<1>. HIDE DEF S
<1>3. PICK lim, h : /\ Linked(Slots, S, Key, -1, Nodes, tree, lim)
                    /\ Weighed(Slots, S, tree, h, -1, 0, 0)
  BY <1>1, Zenon DEF Whole
<1>4. /\ list \in Seq(S) /\ Len(list) = Cardinality(S)
      /\ \A k \in 1 .. Len(list) - 1 : Adjacent(S, Key, list[k], 1, list[k + 1])
  BY <1>2, <1>3, InOrderIs DEF S
<1>5. \A i, j \in S : order[i][j] = i - j /\ Key[i] = i /\ i \in Int
  <2>. SUFFICES ASSUME NEW i \in S, NEW j \in S PROVE order[i][j] = i - j /\ Key[i] = i /\ i \in Int
    OBVIOUS
  <2>1. order[i] = Numbers(i)
    OBVIOUS
  <2>. QED
    BY <1>2, <2>1, NumbersAre
<1>6. 0 \in Sides /\ 1 \in Sides /\ Sides = 0 .. 1
  BY DEF Sides
<1>7. ASSUME NEW i \in S
      PROVE  /\ tree.meta[i].state = "lexed" /\ tree.meta[i].bf \in -1 .. 1
             /\ \A s \in 0 .. 1 : tree.meta[i].child[s] >= 0 => tree.meta[tree.meta[i].child[s]].parent = i
             /\ tree.meta[i].bf = Height(tree, tree.meta[i].child[1]) - Height(tree, tree.meta[i].child[0])
  <2>1. \A s \in Sides : /\ Kid(tree, i, s) \in S \cup {-1}
                         /\ Kid(tree, i, s) # -1 => Par(tree, Kid(tree, i, s)) = i
    BY <1>2, <1>3, KidsAre
  <2>2. State(tree, i) = "lexed"
    BY <1>1, LexedIs DEF S
  <2>3. \A s \in Sides : Height(tree, Kid(tree, i, s)) = Level(tree, h, i, s)
    <3>1. \A j \in S \cup {-1} : Height(tree, j) = IF j = -1 THEN 0 ELSE h[j]
      BY <1>2, <1>3, HeightIs DEF S
    <3>. QED
      BY <2>1, <3>1 DEF Level
  <2>4. Stands(Bal(tree, i), h[i], 1, Level(tree, h, i, 1), Level(tree, h, i, 0))
    <3>1. Stands(Bal(tree, i), h[i], 1, Counted(tree, h, -1, 0, 0, i, 1), Counted(tree, h, -1, 0, 0, i, 1 - 1))
      BY <1>3, <1>6, Zenon DEF Weighed
    <3>2. \A s \in Sides : Counted(tree, h, -1, 0, 0, i, s) = Level(tree, h, i, s)
      <4>1. h \in Heights(Slots)
        BY <1>3 DEF Weighed
      <4>2. \A j \in S : h[j] \in Nat /\ j # -1
        BY <1>2, <4>1 DEF Heights, Slots
      <4>3. \A s \in Sides : Level(tree, h, i, s) \in Nat
        BY <2>1, <4>2 DEF Level
      <4>. QED
        BY <4>2, <4>3 DEF Counted
    <3>. QED
      BY <1>6, <3>1, <3>2
  <2>5. Bal(tree, i) \in -1 .. 1 /\ Bal(tree, i) = Level(tree, h, i, 1) - Level(tree, h, i, 0)
    BY <2>4 DEF Stands, Weight
  <2>6. \A s \in Sides : Kid(tree, i, s) >= 0 => Par(tree, Kid(tree, i, s)) = i
    BY <2>1
  <2>. QED
    BY <1>6, <2>2, <2>3, <2>5, <2>6 DEF Kid, Par, Bal, State
<1>8. ASSUME NEW i \in S, NEW j \in S, Adjacent(S, Key, i, 1, j)
      PROVE  Neighbour(tree, j, 0) = i /\ order[j][i] >= 1 /\ order[i][j] <= -1
  <2>1. i < j /\ \A x \in S : ~ Between(i, x, j)
    <3>1. j # -1
      BY <1>2 DEF Slots
    <3>. QED
      BY <1>5, <1>8, <3>1 DEF Adjacent, Beyond
  <2>2. Adjacent(S, Key, j, 0, Neighbour(tree, j, 0))
    BY <1>2, <1>3, <1>6, NeighbourIs DEF S
  <2>. DEFINE r == Neighbour(tree, j, 0)
  <2>3. Adjacent(S, Key, j, 0, r)
    BY <2>2
  <2>. HIDE DEF r, order
  <2>4. r \in S /\ r < j /\ \A x \in S : ~ Between(j, x, r)
    BY <1>5, <2>1, <2>3 DEF Adjacent, Beyond
  <2>5. ~ Between(i, r, j) /\ ~ Between(j, i, r) /\ i \in Int /\ j \in Int /\ r \in Int
    BY <1>5, <2>1, <2>4
  <2>6. r = i
    BY <2>1, <2>4, <2>5 DEF Between
  <2>. QED
    BY <1>5, <2>1, <2>6 DEF r
<1>. HIDE DEF list, order
<1>9. ASSUME NEW k \in DOMAIN list PROVE list[k] \in S
  BY <1>4
<1>10. ASSUME NEW k \in 1 .. Len(list) - 1
       PROVE  list[k] \in S /\ list[k + 1] \in S /\ Adjacent(S, Key, list[k], 1, list[k + 1])
  BY <1>4
<1>11. ValidSubtree(tree, order, 1)
  <2>1. ASSUME NEW k \in DOMAIN list
        PROVE  LET i == list[k]
                   slot == tree.meta[i]
               IN /\ slot.state = "lexed" /\ slot.bf \in -1 .. 1
                  /\ \A s \in 0 .. 1 : slot.child[s] >= 0 => tree.meta[slot.child[s]].parent = i
                  /\ slot.bf = Height(tree, slot.child[1]) - Height(tree, slot.child[0])
    BY <1>7, <1>9, Zenon
  <2>2. ASSUME NEW k \in 1 .. Len(list) - 1
        PROVE  LET i == list[k]
                   j == list[k + 1]
               IN Neighbour(tree, j, 0) = i /\ order[j][i] >= 1 /\ order[i][j] <= -1
    BY <1>8, <1>10, Zenon
  <2>. QED
    BY <2>1, <2>2, Zenon DEF ValidSubtree, list
<1>. QED
  BY <1>4, <1>11, Zenon DEF BalancedInOrder, list, order, S

\* A tree is sound at first, and after every insertion and removal.
THEOREM TreeSound == TreeSpec => []Sound(tree)
<1>1. TreeInit => Sound(tree)
  BY SoundAtFirst
<1>2. Sound(tree) /\ [TreeNext]_tree => Sound(tree)'
  <2>. SUFFICES ASSUME Sound(tree), [TreeNext]_tree PROVE Sound(tree')
    OBVIOUS
  <2>1. CASE TreeNext
    <3>1. PICK i \in Slots : TreeInsert(i) \/ TreeRemove(i)
      BY <2>1 DEF TreeNext, Slots
    <3>2. CASE TreeInsert(i)
      BY <3>2, InsertIsSound DEF TreeInsert
    <3>3. CASE TreeRemove(i)
      BY <3>3, RemoveIsSound DEF TreeRemove
    <3>. QED
      BY <3>1, <3>2, <3>3
  <2>2. CASE UNCHANGED tree
    BY <2>2
  <2>. QED
    BY <2>1, <2>2
<1>. QED
  BY <1>1, <1>2, PTL DEF TreeSpec

\* The index is always a balanced search tree: links that agree, true balances,
\* the order of the keys, and neighbours and ends where avl_insert() and
\* avl_remove() left them, however many slots come and go.
THEOREM TreeBalanced == TreeSpec => []BalancedInOrder
<1>1. Sound(tree) => BalancedInOrder
  BY SoundIsBalanced
<1>. QED
  BY <1>1, TreeSound, PTL

\* Whatever has come and gone, each of the seven searches comes back with what
\* it is for: when the key compares with the slots in their order, the first or
\* the last slot it asks for, any for "any_equal", and -1 only when there is none.
THEOREM SearchesAnswer ==
    TreeSpec => [](\A order : Falls(Lexed(tree), Key, order) =>
                      \A kind \in Kinds :
                         Answers(Lexed(tree), Key, order, kind, Locate(tree, order, kind)))
<1>1. ASSUME Sound(tree), NEW order, Falls(Lexed(tree), Key, order), NEW kind \in Kinds
      PROVE  Answers(Lexed(tree), Key, order, kind, Locate(tree, order, kind))
  <2>. DEFINE S == Lexed(tree)
  <2>1. tree \in Trees(Slots) /\ Whole(Slots, S, Key, -1, Nodes, tree)
    BY <1>1 DEF Sound
  <2>2. IsFiniteSet(Slots) /\ Places(Slots, S, Key, -1, Nodes)
    BY <2>1, SlotsAre
  <2>3. Falls(S, Key, order) /\ Lexed(tree) = S
    BY <1>1
  <2>. HIDE DEF S
  <2>4. PICK lim : Linked(Slots, S, Key, -1, Nodes, tree, lim)
    BY <2>1, Zenon DEF Whole
  <2>5. Answers(S, Key, order, kind, Locate(tree, order, kind))
    BY <2>2, <2>3, <2>4, LocateIs
  <2>. QED
    BY <2>3, <2>5
<1>2. Sound(tree) => \A order : Falls(Lexed(tree), Key, order) =>
                      \A kind \in Kinds :
                         Answers(Lexed(tree), Key, order, kind, Locate(tree, order, kind))
  BY <1>1, Zenon
<1>. QED
  BY <1>2, TreeSound, PTL

\* A slot enters a tree, or leaves it, and no other does.
Enters(t, u, i) == i \notin Lexed(t) /\ Lexed(u) = Lexed(t) \cup {i}
Leaves(t, u, i) == i \in Lexed(t) /\ Lexed(u) = Lexed(t) \ {i}

\* A step of the tree lets one slot in or one slot out: no rotation and no
\* exchange with a successor loses another slot or keeps the one that goes.
THEOREM OneSlotAtATime ==
    TreeSpec => [][\E i \in Slots : Enters(tree, tree', i) \/ Leaves(tree, tree', i)]_tree
<1>1. Sound(tree) /\ [TreeNext]_tree
        => [\E i \in Slots : Enters(tree, tree', i) \/ Leaves(tree, tree', i)]_tree
  <2>. SUFFICES ASSUME Sound(tree), TreeNext
                PROVE  \E i \in Slots : Enters(tree, tree', i) \/ Leaves(tree, tree', i)
    BY Zenon
  <2>1. PICK i \in Slots : TreeInsert(i) \/ TreeRemove(i)
    BY DEF TreeNext, Slots
  <2>2. CASE TreeInsert(i)
    <3>1. i \notin Lexed(tree) /\ tree' = avl_insert(tree, i, Numbers(i))
      BY <2>2 DEF TreeInsert
    <3>2. Lexed(tree') = Lexed(tree) \cup {i}
      BY <3>1, InsertIsSound
    <3>. QED
      BY <3>1, <3>2, Zenon DEF Enters
  <2>3. CASE TreeRemove(i)
    <3>1. i \in Lexed(tree) /\ tree' = avl_remove(tree, i)
      BY <2>3 DEF TreeRemove
    <3>2. Lexed(tree') = Lexed(tree) \ {i}
      BY <3>1, RemoveIsSound
    <3>. QED
      BY <3>1, <3>2, Zenon DEF Leaves
  <2>. QED
    BY <2>1, <2>2, <2>3
<1>. QED
  BY <1>1, TreeSound, PTL DEF TreeSpec
=============================================================================
