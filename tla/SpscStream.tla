----------------------------- MODULE SpscStream -----------------------------
(***************************************************************************)
(* What a single-producer single-consumer transport promises, whatever its *)
(* buffers: the messages 1, 2, 3, ... reach the consumer in that order,    *)
(* none twice.  Posted messages wait in pending; the consumer takes them   *)
(* over all at once and reads them from held.  A lossy stream may drop     *)
(* what waits in pending for the sake of a new posting, never what the     *)
(* consumer holds; a stream that is not lossy drops nothing.               *)
(***************************************************************************)
EXTENDS Naturals, Sequences

CONSTANT MaxBatch   \* the largest posting

VARIABLES held, pending, last, lossy

svars == <<held, pending, last, lossy>>

Batch(n) == [i \in 1 .. n |-> last + i]

Init == held = <<>> /\ pending = <<>> /\ last = 0 /\ lossy = FALSE

\* A stream is set up afresh, in either mode; unread messages are gone.
Reset ==
    /\ held' = <<>> /\ pending' = <<>> /\ last' = 0
    /\ lossy' \in BOOLEAN

Post ==
    \E n \in 1 .. MaxBatch :
        /\ pending' = pending \o Batch(n)
        /\ last' = last + n
        /\ UNCHANGED <<held, lossy>>

PostDiscarding ==
    \E n \in 1 .. MaxBatch :
        /\ lossy
        /\ pending' = Batch(n)
        /\ last' = last + n
        /\ UNCHANGED <<held, lossy>>

Accept ==
    /\ held = <<>>
    /\ held' = pending /\ pending' = <<>>
    /\ UNCHANGED <<last, lossy>>

Read ==
    \E n \in 1 .. Len(held) :
        /\ held' = SubSeq(held, n + 1, Len(held))
        /\ UNCHANGED <<pending, last, lossy>>

Next == Reset \/ Post \/ PostDiscarding \/ Accept \/ Read

Spec == Init /\ [][Next]_svars
=============================================================================
