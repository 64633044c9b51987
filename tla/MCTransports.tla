---------------------------- MODULE MCTransports ----------------------------
(***************************************************************************)
(* The queue, the bulk transport and the ring on small instances, checked  *)
(* together.  They share no state: a behaviour is one of one of them,      *)
(* while the other two stay as they were made.                             *)
(***************************************************************************)
EXTENDS TQueue, TBulk, TRing

\* The first values of base_growth_curve() (memory_allocation.hpp), at least
\* the minimum capacity.
Growth == [n \in 0 .. 2 * KMaxCapacity |->
             Greatest(KMinCapacity, <<2, 2, 3, 4, 6, 8, 8, 12, 12>>[n + 1])]

\* The least power of 2 that is not below n.
RoundUp == [n \in 0 .. KMaxRingCapacity |->
             CHOOSE p \in 1 .. 2 * KMaxRingCapacity :
                 /\ \E k \in 0 .. n : p = 2 ^ k
                 /\ n <= p
                 /\ p < 2 * Greatest(n, 1)]

VARIABLE used   \* the transport this behaviour is about

transportVars == <<used, vars, bulkVars, ringVars>>

TransportsInit ==
    /\ used \in {"queue", "bulk", "ring"}
    /\ Init /\ BulkInit /\ RingInit

TransportsNext ==
    \/ used = "queue" /\ Next /\ UNCHANGED <<used, bulkVars, ringVars>>
    \/ used = "bulk" /\ BulkNext /\ UNCHANGED <<used, vars, ringVars>>
    \/ used = "ring" /\ RingNext /\ UNCHANGED <<used, vars, bulkVars>>

\* The fairness of the three.  In a queue or ring that is not used there is no
\* call that could begin or go on; a bulk transport is polled when it is used.
TransportsFairness ==
    /\ Fairness
    /\ WF_bulkVars(used = "bulk" /\ Consume)
    /\ RingFairness

TransportsSpec ==
    TransportsInit /\ [][TransportsNext]_transportVars /\ TransportsFairness
=============================================================================
