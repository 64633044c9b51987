------------------------- MODULE TOrderedCollection -------------------------
(***************************************************************************)
(* TOrderedCollection of TOrderedCollection.hpp: objects that stay at one  *)
(* address of a stable storage, and slots in order of their keys that know *)
(* the address.  The slots are TOrderedSlots, whose payload is the key; a  *)
(* slot keeps its storage index when it is erased, so that the next object *)
(* in it takes the same address.                                           *)
(***************************************************************************)
EXTENDS TOrderedSlots, TStableStorage

CONSTANTS BufferSlots   \* slots_per_buffer

VARIABLES
    slot,               \* m_slots: a state and a storage index for each slot
    storage,            \* m_storage
    object              \* the object constructed at each address

collection_vars == <<index, lock, payload, slot, storage, object>>

NoObject == [a \in Slots(Limit) |-> None]

CollectionInit == Init /\ slot = << >> /\ storage = NoStorage /\ object = NoObject

Begin(n) ==
    /\ Initialise(n)
    /\ slot' = Appended(<< >>, n)
    /\ storage' = Initialised(BufferSlots, 1)
    /\ object' = Deconstructed(object, slot, Constructed(slot), None)

\* deallocate(), and initialise() when a part of it cannot be had.
Deallocate ==
    /\ Shutdown
    /\ slot' = << >> /\ storage' = NoStorage
    /\ object' = Deconstructed(object, slot, Constructed(slot), None)

\* The slot that emplace() gets: the head of the empty list, or the first of a
\* domain that on_reserve_empty() has let grow.
Room(n, i) ==
    IF index.head["empty"] # -1 THEN n = index.capacity /\ i = index.head["empty"]
    ELSE n > index.capacity /\ i = index.capacity /\ DOMAIN slot \subseteq Slots(n)

Emplace(n, i, item) ==
    /\ Room(n, i)
    /\ Acquire(i, item, TRUE, TRUE) \/ ReserveAndAcquire(n, i, item, TRUE, TRUE)
    /\ LET data == Appended(slot, n)[i] IN
       /\ IF data.state = "Mapped" THEN UNCHANGED storage
          ELSE storage' \in map_index(storage, data.at)
       /\ index_ptr(storage', data.at) # -1
       /\ slot' = [Appended(slot, n) EXCEPT ![i].state = "Constructed"]
       /\ object' = [object EXCEPT ![data.at] = item]

\* The slot cannot be mapped, and is given up again.
EmplaceFails(n, i, item) ==
    /\ Ready /\ Room(n, i) /\ Unique(i, item)
    /\ LET data == Appended(slot, n)[i]
           grown == IF n = index.capacity THEN index ELSE Grown(index, n)
           back == ToList(Acquired(grown, i, item, TRUE), i, "empty")
       IN /\ data.state = "Unmapped"
          /\ storage' \in map_index(storage, data.at)
          /\ index_ptr(storage', data.at) = -1
          /\ index' = [back EXCEPT !.high_index = HighWithout(back, i)]
    /\ slot' = Appended(slot, n)
    /\ UNCHANGED <<lock, payload, object>>

\* on_reserve_empty() succeeds, and the base class finds no memory of its own.
GrowFails(n) ==
    /\ Ready /\ n > index.capacity /\ Room(n, index.capacity)
    /\ slot' = Appended(slot, n)
    /\ UNCHANGED <<index, lock, payload, storage, object>>

EraseObject(i) ==
    /\ i \in Constructed(slot)
    /\ Erase(i)
    /\ object' = Deconstructed(object, slot, {i}, None)
    /\ slot' = [slot EXCEPT ![i].state = "Mapped"]
    /\ UNCHANGED storage

\* on_move_payload() moves the slot data with the keys.
DataMoved(data, list) ==
    LET all == [i \in Slots(Limit) |-> IF i \in DOMAIN data THEN data[i] ELSE None]
        packed == Packed(all, list, FALSE)
    IN [i \in DOMAIN data |-> packed[i]]

Sort ==
    /\ SortAndPack(FALSE)
    /\ slot' = DataMoved(slot, Ranked(index))
    /\ UNCHANGED <<storage, object>>

CollectionNext ==
    \/ \E n \in 1 .. Limit :
         \/ Begin(n) \/ GrowFails(n)
         \/ \E i \in Slots(n), item \in Items : Emplace(n, i, item) \/ EmplaceFails(n, i, item)
    \/ \E i \in Slots(Limit) : EraseObject(i)
    \/ Deallocate \/ Sort

CollectionSpec == CollectionInit /\ [][CollectionNext]_collection_vars

----------------------------------------------------------------------------
(* Properties *)

(***************************************************************************)
(* Through growth, packing, erasure and memory that runs out half-way, the *)
(* collection passes its own check_integrity() where its arrays agree in   *)
(* size: exactly the lexed slots have an object, keys are unique, and no   *)
(* address is shared; each object is the one its slot's key was given for, *)
(* and none is left that no slot can reach.                                *)
(***************************************************************************)
ObjectsKept ==
    /\ SlotDataAgrees(storage, slot, Of(index, "lexed"))
    /\ index.lexed # 0 => ValidSubtree(index, LexOrder, 1)
    /\ \A i \in Constructed(slot) : object[slot[i].at] = payload[i]
    /\ {a \in DOMAIN object : object[a] # None} = {slot[i].at : i \in Constructed(slot)}
=============================================================================
