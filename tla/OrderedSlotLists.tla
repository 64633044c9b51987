-------------------------- MODULE OrderedSlotLists --------------------------
(***************************************************************************)
(* What an ordered slot index promises: every slot of the domain is in one *)
(* of three sequences.  The lexed slots are in the order of their keys,    *)
(* equal keys in the order in which they were lexed; the loose and the     *)
(* empty slots are in the order the operations leave them in.  No          *)
(* operation touches the payload or the order of slots it is not about.    *)
(***************************************************************************)
EXTENDS Integers, Sequences, FiniteSets, SequencesExt

CONSTANTS
    Limit,              \* the largest number of slots
    KeyOf               \* payloads, and the key of each

VARIABLES
    lexed, loose, empty,    \* sequences of slots
    content                 \* the payload of each slot that is not empty

vars == <<lexed, loose, empty, content>>

Items == DOMAIN KeyOf
Slots(n) == 0 .. n - 1
Ascending(S) == SetToSortSeq(S, <)
Occupied == Range(lexed) \cup Range(loose)
Size == Len(lexed) + Len(loose) + Len(empty)

Holding(i, item) ==
    [j \in DOMAIN content \cup {i} |-> IF j = i THEN item ELSE content[j]]

\* Slot i among sorted slots, behind those whose key is not greater.
Placed(list, i, p) ==
    LET before == {k \in DOMAIN list : KeyOf[p[list[k]]] <= KeyOf[p[i]]}
    IN InsertAt(list, Cardinality(before) + 1, i)

\* The slots of a list, placed one after the other.
PlacedAll(list, more, p) == FoldLeft(LAMBDA l, i : Placed(l, i, p), list, more)

Init == lexed = <<>> /\ loose = <<>> /\ empty = <<>> /\ content = <<>>

Start(n) ==
    /\ lexed' = <<>> /\ loose' = <<>> /\ content' = <<>>
    /\ empty' = Ascending(Slots(n))

Grow(n) ==
    /\ empty' = empty \o Ascending(Slots(n) \ Slots(Size))
    /\ UNCHANGED <<lexed, loose, content>>

Shrink(n) ==
    /\ Occupied \subseteq Slots(n)
    /\ empty' = Ascending(Slots(n) \ Occupied)
    /\ UNCHANGED <<lexed, loose, content>>

\* A slot of the domain, or of one grown to n slots.
Acquire ==
    \E n \in Size .. Limit :
      LET grown == empty \o Ascending(Slots(n) \ Slots(Size)) IN
      \E i \in Range(grown) :
        /\ empty' = Remove(grown, i)
        /\ \E item \in Items : content' = Holding(i, item)
        /\ \/ lexed' = Placed(lexed, i, content') /\ UNCHANGED loose
           \/ loose' = <<i>> \o loose /\ UNCHANGED lexed

Erase ==
    \E i \in Occupied :
      /\ empty' = <<i>> \o empty
      /\ lexed' = Remove(lexed, i) /\ loose' = Remove(loose, i)
      /\ content' = [j \in DOMAIN content \ {i} |-> content[j]]

Lex ==
    /\ UNCHANGED <<empty, content>>
    /\ \E i \in Range(loose) :
         loose' = Remove(loose, i) /\ lexed' = Placed(lexed, i, content)

Unlex ==
    /\ UNCHANGED <<empty, content>>
    /\ \E i \in Range(lexed) :
         loose' = <<i>> \o loose /\ lexed' = Remove(lexed, i)

\* A slot after its key was changed.
Relex ==
    /\ UNCHANGED <<loose, empty>>
    /\ \E i \in Range(lexed) :
         /\ \E item \in Items : content' = Holding(i, item)
         /\ lexed' = Placed(Remove(lexed, i), i, content')

LexAll ==
    /\ UNCHANGED <<empty, content>>
    /\ loose' = <<>> /\ lexed' = PlacedAll(lexed, loose, content)

UnlexAll ==
    /\ UNCHANGED <<empty, content>>
    /\ lexed' = <<>> /\ loose' = loose \o lexed

\* All of them after two keys were traded.
RelexAll ==
    /\ UNCHANGED <<loose, empty>>
    /\ \E i, j \in Range(lexed) :
         content' = [content EXCEPT ![i] = content[j], ![j] = content[i]]
    /\ lexed' = PlacedAll(<<>>, lexed, content')

\* The payload moves by rank: lexed, then loose, then nothing.
SortAndPack ==
    LET old == lexed \o loose
        At(from, n) == [k \in 1 .. n |-> from + k - 1]
    IN /\ lexed' = At(0, Len(lexed))
       /\ loose' = At(Len(lexed), Len(loose))
       /\ empty' = At(Len(old), Len(empty))
       /\ content' = [i \in Slots(Len(old)) |-> content[old[i + 1]]]

Rearrange ==
    /\ UNCHANGED <<lexed, content>>
    /\ loose' \in {loose, Ascending(Range(loose))}
    /\ empty' \in {empty, Ascending(Range(empty))}

Next ==
    \/ \E n \in 0 .. Limit : Start(n)
    \/ \E n \in Size + 1 .. Limit : Grow(n)
    \/ \E n \in 1 .. Size - 1 : Shrink(n)
    \/ Acquire \/ Erase
    \/ Lex \/ Unlex \/ Relex
    \/ LexAll \/ UnlexAll \/ RelexAll
    \/ SortAndPack \/ Rearrange

Spec == Init /\ [][Next]_vars
=============================================================================
