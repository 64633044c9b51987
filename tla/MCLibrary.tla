----------------------------- MODULE MCLibrary -----------------------------
(***************************************************************************)
(* The parts of the engine that one thread uses alone - slot containers,   *)
(* stores and algorithms - and the ring of owners, checked together.  A    *)
(* behaviour is one of one of them, while the others stay idle.            *)
(***************************************************************************)
EXTENDS MCContainers, MCStorage, MCAlgorithms

ASSUME LibraryAssumption ==
    /\ {Few, FifoLimit, VectorLimit, SideLimit} \subseteq Nat \ {0}
    /\ PacketLimit \in {2^k : k \in 2 .. 7}

LibraryInit ==
    \/ ContainersInit /\ StorageIdle /\ AlgorithmsIdle
    \/ ContainersIdle /\ StorageInit /\ AlgorithmsIdle
    \/ ContainersIdle /\ StorageIdle /\ AlgorithmsInit

all_container_vars == <<container, collection_vars, container_vars, tree>>

LibraryNext ==
    \/ container # "none" /\ ContainersNext /\ UNCHANGED <<storage_vars, algorithm_vars>>
    \/ holder # "none" /\ StorageNext /\ UNCHANGED <<all_container_vars, algorithm_vars>>
    \/ algorithm # "none" /\ AlgorithmsNext /\ UNCHANGED <<all_container_vars, storage_vars>>

LibrarySpec == LibraryInit /\ [][LibraryNext]_<<all_container_vars, storage_vars, algorithm_vars>>
=============================================================================
