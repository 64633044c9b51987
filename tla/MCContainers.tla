---------------------------- MODULE MCContainers ----------------------------
(***************************************************************************)
(* The slot containers, checked side by side: a behaviour chooses one of   *)
(* them at the start and is one of its behaviours.  The unordered slots,   *)
(* alone and in a collection of objects, and the tree on its own have      *)
(* their variables and properties here, so that what is proved of them is  *)
(* what is checked; the other containers share theirs, and a property      *)
(* speaks of those it has a meaning for.                                   *)
(*                                                                         *)
(* The tree has slots enough for a removal to rotate more than once.       *)
(***************************************************************************)
EXTENDS TUnorderedCollection, AvlTree

CONSTANT Few            \* slots of an ordered collection

\* Payloads with keys, of which the first two are equal; and with unique keys.
Keys == <<1, 1, 2>>
UniqueKeys == <<1, 2, 3>>

VARIABLES
    container,                  \* the container of this behaviour, or "none"
    domain, guard, held,        \* its index, lock and payload, or keys
    entries, buffers, kept      \* its slot data, storage and objects

container_vars == <<domain, guard, held, entries, buffers, kept>>

Ordered ==
    INSTANCE TOrderedSlots WITH KeyOf <- Keys, index <- domain, lock <- guard, payload <- held
OrderedObjects ==
    INSTANCE TOrderedCollection WITH
        Limit <- Few, KeyOf <- UniqueKeys,
        index <- domain, lock <- guard, payload <- held,
        slot <- entries, storage <- buffers, object <- kept
NoObjects == entries = << >> /\ buffers = 0 /\ kept = << >>
NoDomain == domain = << >> /\ guard = "none" /\ held = << >> /\ NoObjects

ContainersIdle == container = "none" /\ CollectionInit /\ TreeInit /\ NoDomain

ContainersInit ==
    /\ CollectionInit /\ TreeInit
    /\ \/ container \in {"unordered", "unordered objects", "tree"} /\ NoDomain
       \/ container = "ordered" /\ Ordered!Init /\ NoObjects
       \/ container = "ordered objects" /\ OrderedObjects!CollectionInit

UnorderedNext ==
    \/ container = "unordered" /\ Next /\ UNCHANGED <<slot, storage, object>>
    \/ container = "unordered objects" /\ CollectionNext

OrderedNext ==
    \/ container = "ordered" /\ Ordered!Next /\ UNCHANGED <<entries, buffers, kept>>
    \/ container = "ordered objects" /\ OrderedObjects!CollectionNext

ContainersNext ==
    /\ UNCHANGED container
    /\ \/ UnorderedNext /\ UNCHANGED <<container_vars, tree>>
       \/ OrderedNext /\ UNCHANGED <<collection_vars, tree>>
       \/ container = "tree" /\ TreeNext /\ UNCHANGED <<collection_vars, container_vars>>

----------------------------------------------------------------------------
(* Properties, beside those of TUnorderedCollection and AvlTree *)

(***************************************************************************)
(* After every operation the metadata of ordered slots passes the code's   *)
(* own checks, private_integrity_check() and private_validate_subtree():   *)
(* the tree is an AVL tree in the order of its keys whose stored balances  *)
(* are true however many rotations it has been through, tree and lists     *)
(* hold between them every slot once, and high_index, which the check      *)
(* leaves out, is the highest occupied slot.  Searches, bounds, duplicate  *)
(* tests and rank conversions answer what the order of the slots implies,  *)
(* wherever equal keys have come to lie in the tree.                       *)
(*                                                                         *)
(* In a collection exactly the slots of the tree have an object, the one   *)
(* their key was given for, through growth, packing, erasure and memory    *)
(* that runs out half-way; no address is shared, no object out of reach.   *)
(***************************************************************************)
OrderedSlotsAgree ==
    CASE container = "ordered" -> Ordered!IntegrityHolds /\ Ordered!QueriesAgree
      [] container = "ordered objects" -> OrderedObjects!ObjectsKept
      [] OTHER -> TRUE

(***************************************************************************)
(* The tree, the lists and the payload of TOrderedSlots behave as three    *)
(* sequences of slots and a payload for each: lexing is stable, and        *)
(* sort_and_pack() brings every payload to its rank though its moves       *)
(* overwrite one another.                                                  *)
(***************************************************************************)
ImplementsOrderedSlotLists ==
    /\ container = "ordered" => Ordered!Abstract!Init
    /\ [][container = "ordered" => Ordered!Abstract!Next]_<<Ordered!Abstract!vars>>
=============================================================================
