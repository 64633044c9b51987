---------------------------- MODULE BoundedFifo -----------------------------
(***************************************************************************)
(* What a fixed-capacity transport promises: a queue of at most capacity   *)
(* messages, appended to by one party and taken from by the other, several *)
(* at a time, none lost, repeated or reordered.  The messages are 1, 2, 3, *)
(* ... in the order of their posting; delivered is what the last read got. *)
(***************************************************************************)
EXTENDS Naturals, Sequences

VARIABLES queue, delivered, last, capacity

fvars == <<queue, delivered, last, capacity>>

Init == queue = <<>> /\ delivered = <<>> /\ last = 0 /\ capacity = 0

\* Set up or torn down; what was not read is gone.
Reset ==
    /\ queue' = <<>> /\ delivered' = <<>> /\ last' = 0
    /\ capacity' \in Nat

Post ==
    \E n \in 1 .. capacity - Len(queue) :
        /\ queue' = queue \o [i \in 1 .. n |-> last + i]
        /\ last' = last + n
        /\ UNCHANGED <<delivered, capacity>>

Read ==
    \E n \in 1 .. Len(queue) :
        /\ delivered' = SubSeq(queue, 1, n)
        /\ queue' = SubSeq(queue, n + 1, Len(queue))
        /\ UNCHANGED <<last, capacity>>

Next == Reset \/ Post \/ Read

Spec == Init /\ [][Next]_fvars
=============================================================================
