------------------------ MODULE TUnorderedCollection ------------------------
(***************************************************************************)
(* TUnorderedCollection of TUnorderedCollection.hpp: as TOrderedCollection *)
(* has it, with the slots of TUnorderedSlots and no keys.  The slots'      *)
(* payload is the object a slot was acquired for, and pack() trades the    *)
(* slot data of two slots.                                                 *)
(***************************************************************************)
EXTENDS TUnorderedSlots, TStableStorage

CONSTANTS BufferSlots   \* slots_per_buffer

VARIABLES
    slot,               \* m_slots: a state and a storage index for each slot
    storage,            \* m_storage
    object              \* the object constructed at each address

ASSUME BufferAssumption == BufferSlots \in Nat \ {0}

collection_vars == <<index, lock, source, target, payload, slot, storage, object>>

NoObject == [a \in Slots(Limit) |-> None]

CollectionInit == Init /\ slot = << >> /\ storage = NoStorage /\ object = NoObject

Begin(n) ==
    /\ Initialise(n)
    /\ slot' = Appended(<< >>, n)
    /\ storage' = Initialised(BufferSlots, 1)
    /\ object' = Deconstructed(object, slot, Constructed(slot), None)

\* deallocate(), and initialise() when a part of it cannot be had.
Deallocate ==
    /\ Shutdown
    /\ slot' = << >> /\ storage' = NoStorage
    /\ object' = Deconstructed(object, slot, Constructed(slot), None)

Room(n, i) ==
    IF index.head["empty"] # -1 THEN n = index.capacity /\ i = index.head["empty"]
    ELSE n > index.capacity /\ i = index.capacity /\ DOMAIN slot \subseteq Slots(n)

Emplace(n, i, item) ==
    /\ Room(n, i)
    /\ Acquire(i, item) \/ ReserveAndAcquire(n, i, item)
    /\ LET data == Appended(slot, n)[i] IN
       /\ IF data.state = "Mapped" THEN UNCHANGED storage
          ELSE storage' \in map_index(storage, data.at)
       /\ index_ptr(storage', data.at) # -1
       /\ slot' = [Appended(slot, n) EXCEPT ![i].state = "Constructed"]
       /\ object' = [object EXCEPT ![data.at] = item]

\* The slot cannot be mapped, and is given up again.
EmplaceFails(n, i) ==
    /\ Ready /\ Room(n, i)
    /\ LET data == Appended(slot, n)[i]
           grown == IF n = index.capacity THEN index ELSE Grown(index, n)
           back == Moved(Acquired(grown, i), i, "loose", "empty")
       IN /\ data.state = "Unmapped"
          /\ storage' \in map_index(storage, data.at)
          /\ index_ptr(storage', data.at) = -1
          /\ index' = [back EXCEPT !.high_index = HighWithout(back, i)]
    /\ slot' = Appended(slot, n)
    /\ UNCHANGED <<lock, source, target, payload, object>>

\* on_reserve_empty() succeeds, and the base class finds no memory of its own.
GrowFails(n) ==
    /\ Ready /\ n > index.capacity /\ Room(n, index.capacity)
    /\ slot' = Appended(slot, n)
    /\ UNCHANGED <<index, lock, source, target, payload, storage, object>>

EraseObject(i) ==
    /\ i \in Constructed(slot)
    /\ Erase(i)
    /\ object' = Deconstructed(object, slot, {i}, None)
    /\ slot' = [slot EXCEPT ![i].state = "Mapped"]
    /\ UNCHANGED storage

\* Mutant: the slot data is copied over that of the target.
Overwritten(data, from, to) == [data EXCEPT ![to] = data[from]]

\* on_move_payload()
Traded(data, from, to) == [data EXCEPT ![to] = data[from], ![from] = data[to]]

Pack ==
    \/ (PackBegins \/ PackPasses \/ PackEnds) /\ UNCHANGED <<slot, storage, object>>
    \/ /\ PackMoves
       /\ slot' = Traded(slot, source, target)
       /\ UNCHANGED <<storage, object>>

CollectionNext ==
    \/ \E n \in 1 .. Limit :
         \/ Begin(n) \/ GrowFails(n)
         \/ \E i \in Slots(n) :
              \/ EmplaceFails(n, i)
              \/ \E item \in Payloads : Emplace(n, i, item)
    \/ \E i \in Slots(Limit) : EraseObject(i)
    \/ Deallocate \/ Pack

CollectionSpec == CollectionInit /\ [][CollectionNext]_collection_vars

----------------------------------------------------------------------------
(* Properties *)

(***************************************************************************)
(* Through growth, packing, erasure and memory that runs out half-way,     *)
(* exactly the slots with a constructed object have one, no address is     *)
(* shared and no object is out of reach.  Whenever a collection that is    *)
(* ready is not half-way through pack(), these are the loose slots, and    *)
(* each has the object that it was acquired for.                           *)
(***************************************************************************)
ObjectsKept ==
    /\ {a \in DOMAIN object : object[a] # None} = {slot[i].at : i \in Constructed(slot)}
    /\ lock = "none" /\ is_ready(storage) =>
         /\ SlotDataAgrees(storage, slot, Of(index, "loose"))
         /\ \A i \in Constructed(slot) : object[slot[i].at] = payload[i]
=============================================================================
