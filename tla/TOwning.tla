------------------------------ MODULE TOwning -------------------------------
(***************************************************************************)
(* threading::transports::TOwning<T> of TOwningTransport.hpp, with         *)
(* TInstance of TInstance.hpp for T: a ring whose slots are live objects   *)
(* that own something or nothing, into and out of which ownership moves.   *)
(*                                                                         *)
(* The two sides share the slots and one atomic count, and each has an     *)
(* index and an owner of its own.  post() and read() are split at their    *)
(* accesses to the count and at the move.  An object is its number in the  *)
(* order of construction.  The module is checked with the other stores.    *)
(***************************************************************************)
EXTENDS Integers, Sequences, FiniteSetsExt

CONSTANTS
    RingMinCapacity, RingMaxCapacity,   \* k_min_capacity, k_max_capacity
    RingCapacities,     \* initialise() is called with: powers of 2, or too large
    MaxObjects          \* bound: objects constructed

VARIABLES
    capacity,
    ring,                       \* m_ring
    readIndex, writeIndex,
    occupied,                   \* the atomic m_occupied_count
    ppc, offered,                \* post() in progress, and the producer's owner
    cpc, fetched,                \* read() in progress, and the consumer's owner
    destroyed,      \* history: how often each object was destroyed
    sent            \* history: objects posted and not yet read

sides == <<ppc, offered, cpc, fetched>>

ASSUME OwningAssumption ==
    /\ RingMinCapacity \in Nat \ {0} /\ RingMaxCapacity \in Nat
    /\ RingCapacities \subseteq Nat /\ MaxObjects \in Nat

owning_vars == <<capacity, ring, readIndex, writeIndex, occupied, sides, destroyed, sent>>

Nothing == 0                    \* what an empty or moved-from owner has
Owners == {offered, fetched} \cup {ring[s] : s \in DOMAIN ring}
Made == DOMAIN destroyed        \* 1 .. n, since n objects were constructed

\* ~T() of owners of these objects.
Destroyed(objects) == [o \in Made |-> destroyed[o] + IF o \in objects THEN 1 ELSE 0]

Masked(i) == i % capacity       \* i & (capacity - 1), capacity being a power of 2
Quiescent == ppc = "idle" /\ cpc = "idle"

OwningInit ==
    /\ capacity = 0 /\ ring = [s \in 0 .. -1 |-> Nothing]
    /\ readIndex = 0 /\ writeIndex = 0 /\ occupied = 0
    /\ ppc = "idle" /\ offered = Nothing /\ cpc = "idle" /\ fetched = Nothing
    /\ destroyed = << >> /\ sent = << >>

Emptied(cap) ==
    /\ Quiescent
    /\ capacity' = cap /\ ring' = [s \in 0 .. cap - 1 |-> Nothing]
    /\ readIndex' = 0 /\ writeIndex' = 0 /\ occupied' = 0
    /\ destroyed' = Destroyed({ring[s] : s \in DOMAIN ring})
    /\ sent' = << >>
    /\ UNCHANGED sides

\* A failed allocation leaves the instance as it was: no step.
initialise ==
    \E c \in RingCapacities :
        /\ c <= RingMaxCapacity /\ capacity = 0
        /\ Emptied(Max({c, RingMinCapacity}))

deallocate == capacity # 0 /\ Emptied(0)

----------------------------------------------------------------------------
(* post() and read() *)

\* writable_count() # 0; and the mutant that counts one slot too many.
WritableAndOne == occupied <= capacity
Writable == occupied < capacity

PostBegin ==
    /\ ppc = "idle" /\ offered # Nothing
    /\ capacity # 0 /\ Writable
    /\ ppc' = "move"
    /\ UNCHANGED <<capacity, ring, readIndex, writeIndex, occupied, offered, cpc, fetched, destroyed, sent>>

\* The slot's move assignment destroys what the slot owns.
PostMove ==
    /\ ppc = "move" /\ ppc' = "commit"
    /\ ring' = [ring EXCEPT ![writeIndex] = offered] /\ offered' = Nothing
    /\ destroyed' = Destroyed({ring[writeIndex]})
    /\ writeIndex' = Masked(writeIndex + 1)
    /\ sent' = Append(sent, offered)
    /\ UNCHANGED <<capacity, readIndex, occupied, cpc, fetched>>

PostCommit ==
    /\ ppc = "commit" /\ ppc' = "idle"
    /\ occupied' = occupied + 1
    /\ UNCHANGED <<capacity, ring, readIndex, writeIndex, offered, cpc, fetched, destroyed, sent>>

ReadBegin ==
    /\ cpc = "idle" /\ occupied > 0
    /\ cpc' = "move"
    /\ UNCHANGED <<capacity, ring, readIndex, writeIndex, occupied, ppc, offered, fetched, destroyed, sent>>

\* The destination's move assignment destroys what it owned.
ReadMove ==
    /\ cpc = "move" /\ cpc' = "commit"
    /\ fetched' = ring[readIndex] /\ ring' = [ring EXCEPT ![readIndex] = Nothing]
    /\ destroyed' = Destroyed({fetched})
    /\ readIndex' = Masked(readIndex + 1)
    /\ sent' = Tail(sent)
    /\ UNCHANGED <<capacity, writeIndex, occupied, ppc, offered>>

ReadCommit ==
    /\ cpc = "commit" /\ cpc' = "idle"
    /\ occupied' = occupied - 1
    /\ UNCHANGED <<capacity, ring, readIndex, writeIndex, ppc, offered, fetched, destroyed, sent>>

----------------------------------------------------------------------------
(* The owners outside the ring *)

\* Of the producer: a new object, in place of the one there was.  Without
\* memory for the first nothing changes.
emplace ==
    /\ ppc = "idle" /\ Len(destroyed) < MaxObjects
    /\ offered' = Len(destroyed) + 1
    /\ destroyed' = Append(Destroyed({offered}), 0)
    /\ UNCHANGED <<capacity, ring, readIndex, writeIndex, occupied, ppc, cpc, fetched, sent>>

\* Of the consumer.
reset ==
    /\ cpc = "idle" /\ fetched # Nothing
    /\ fetched' = Nothing /\ destroyed' = Destroyed({fetched})
    /\ UNCHANGED <<capacity, ring, readIndex, writeIndex, occupied, ppc, offered, cpc, sent>>

OwningNext ==
    \/ initialise \/ deallocate
    \/ PostBegin \/ PostMove \/ PostCommit
    \/ ReadBegin \/ ReadMove \/ ReadCommit
    \/ emplace \/ reset

OwningSpec == OwningInit /\ [][OwningNext]_owning_vars

----------------------------------------------------------------------------

\* Every object is owned at one place until it is destroyed, once; the slots
\* hold the objects that were posted, in order, and the others nothing; and the
\* two sides never move into and out of the same slot.
OwnedOnce ==
    /\ \A o \in Made :
          destroyed[o] + (IF offered = o THEN 1 ELSE 0) + (IF fetched = o THEN 1 ELSE 0)
            + Cardinality({s \in DOMAIN ring : ring[s] = o}) = 1
    /\ \A s \in DOMAIN ring :
          LET k == (s + capacity - readIndex) % capacity
          IN ring[s] = IF k < Len(sent) THEN sent[k + 1] ELSE Nothing
    /\ ppc = "move" /\ cpc = "move" => writeIndex # readIndex
=============================================================================
