----------------------------- MODULE SlotLists ------------------------------
(***************************************************************************)
(* What an unordered slot index promises: every slot of the domain is in   *)
(* one of two sequences, the loose slots and the empty ones, each loose    *)
(* slot has its payload, and no operation touches the payload or the order *)
(* of slots it was not asked for.                                          *)
(***************************************************************************)
EXTENDS Naturals, Sequences, FiniteSets, Functions

CONSTANTS
    Limit,              \* the largest number of slots
    Payloads               \* payloads

VARIABLES
    loose, empty,       \* sequences of slots, in list order
    content             \* the payload of each loose slot

vars == <<loose, empty, content>>

\* Slots 0 .. n - 1 and the slots of a set, in ascending order: the k-th is the
\* one with k - 1 slots below it.
Slots(n) == 0 .. n - 1
Below(S, i) == Cardinality({j \in S : j < i})
Ascending(S) == [k \in 1 .. Cardinality(S) |-> CHOOSE i \in S : Below(S, i) = k - 1]

\* A sequence of slots that are all different, but for i.
Without(s, i) ==
    [k \in 1 .. Len(s) - 1 |-> IF \E j \in 1 .. k : s[j] = i THEN s[k + 1] ELSE s[k]]

Init == loose = <<>> /\ empty = <<>> /\ content = <<>>

Size == Len(loose) + Len(empty)

\* A new domain, or an emptied one.
Start(n) ==
    /\ loose' = <<>> /\ content' = <<>>
    /\ empty' = Ascending(Slots(n))

Grow(n) ==
    /\ empty' = empty \o Ascending(Slots(n) \ Slots(Size))
    /\ UNCHANGED <<loose, content>>

\* No loose slot is lost; the empty slots that are left are put in order.
Shrink(n) ==
    /\ \A i \in DOMAIN loose : loose[i] < n
    /\ empty' = Ascending(Slots(n) \ Range(loose))
    /\ UNCHANGED <<loose, content>>

Takes(i, item) ==
    /\ loose' = <<i>> \o loose
    /\ content' = [j \in DOMAIN content \cup {i} |-> IF j = i THEN item ELSE content[j]]

Acquire(i, item) ==
    /\ i \in Range(empty)
    /\ Takes(i, item)
    /\ empty' = Without(empty, i)

GrowAndAcquire(n, i, item) ==
    /\ i \in Slots(n) \ Slots(Size)
    /\ Takes(i, item)
    /\ empty' = Without(empty \o Ascending(Slots(n) \ Slots(Size)), i)

Erase(i) ==
    /\ i \in Range(loose)
    /\ loose' = Without(loose, i)
    /\ empty' = <<i>> \o empty
    /\ content' = [j \in DOMAIN content \ {i} |-> content[j]]

\* The payload moves down, by rank, to the lowest slots.
Pack ==
    LET old == Ascending(Range(loose)) IN
    /\ loose' = Ascending(Slots(Len(loose)))
    /\ empty' = Ascending(Slots(Size) \ Slots(Len(loose)))
    /\ content' = [i \in Slots(Len(loose)) |-> content[old[i + 1]]]

Rearrange ==
    /\ loose' \in {loose, Ascending(Range(loose))}
    /\ empty' \in {empty, Ascending(Range(empty))}
    /\ UNCHANGED content

Next ==
    \/ \E n \in 0 .. Limit : Start(n)
    \/ \E n \in Size + 1 .. Limit : Grow(n)
    \/ \E n \in 1 .. Size - 1 : Shrink(n)
    \/ \E i \in Slots(Limit), item \in Payloads :
         \/ Acquire(i, item)
         \/ \E n \in Size + 1 .. Limit : GrowAndAcquire(n, i, item)
    \/ \E i \in Slots(Limit) : Erase(i)
    \/ Pack
    \/ Rearrange

Spec == Init /\ [][Next]_vars
=============================================================================
