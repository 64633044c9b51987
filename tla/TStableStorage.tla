--------------------------- MODULE TStableStorage ---------------------------
(***************************************************************************)
(* TStableStorage of TStableStorage.hpp: objects at fixed addresses in     *)
(* buffers of equal size, found through a directory that is doubled when   *)
(* it is full.  An address is the index it was mapped from.  A storage is  *)
(* a record of the slots a buffer has, the directory's capacity and the    *)
(* number of buffers allocated.                                            *)
(***************************************************************************)
EXTENDS Integers, Sequences

NoStorage == [slots |-> 0, directory |-> 0, buffers |-> 0]

\* m_slot_capacity
SlotCapacity(storage) == storage.slots * storage.buffers

is_ready(storage) == storage.directory # 0

is_valid(storage) == is_ready(storage) => storage.buffers <= storage.directory

\* initialise() of a storage that is not in use
Initialised(slots, directory) == [slots |-> slots, directory |-> directory, buffers |-> 0]

index_ptr(storage, i) == IF i < SlotCapacity(storage) THEN i ELSE -1

\* The directory's capacity is doubled until there is room for n buffers.
DirectoryFor(storage, n) ==
    LET doubled[k \in 0 .. n] == IF k = 0 THEN storage.directory ELSE 2 * doubled[k - 1]
    IN doubled[CHOOSE k \in 0 .. n : n <= doubled[k] /\ (k = 0 \/ doubled[k - 1] < n)]

\* map_index() allocates the buffers up to the index's, one by one, and keeps
\* those it has got when the memory runs out.
map_index(storage, i) ==
    {[storage EXCEPT !.buffers = n, !.directory = DirectoryFor(storage, n)] :
        n \in storage.buffers .. (i \div storage.slots) + 1}
      \cup {storage}

----------------------------------------------------------------------------
(* The slot data of the collections that keep objects here: a state, and   *)
(* the address that goes with the slot.                                    *)

Unmapped(i) == [state |-> "Unmapped", at |-> i]

\* Slot data for n slots: those that are missing are appended unmapped.
Appended(slot, n) ==
    [i \in DOMAIN slot \cup 0 .. n - 1 |-> IF i \in DOMAIN slot THEN slot[i] ELSE Unmapped(i)]

Constructed(slot) == {i \in DOMAIN slot : slot[i].state = "Constructed"}

\* The objects once those of some slots are destroyed.
Deconstructed(object, slot, S, none) ==
    [a \in DOMAIN object |-> IF \E i \in S : slot[i].at = a THEN none ELSE object[a]]

\* check_integrity() of a collection whose occupied slots are given: a slot has
\* an object exactly when it is occupied, memory exactly when it ever had an
\* object, and addresses are not shared.
SlotDataAgrees(storage, slot, occupied) ==
    /\ is_valid(storage)
    /\ Constructed(slot) = occupied
    /\ {slot[i].at : i \in DOMAIN slot} = DOMAIN slot
    /\ \A i \in DOMAIN slot :
          slot[i].state # "Unmapped" => index_ptr(storage, slot[i].at) # -1
=============================================================================
