------------------------------- MODULE TRing --------------------------------
(***************************************************************************)
(* threading::transports::TRing<T>: the fixed-capacity single-producer     *)
(* single-consumer ring of TRingTransport.hpp.                             *)
(*                                                                         *)
(* The two sides share the slots and one atomic count of occupied slots;   *)
(* each has an index of its own.  A post or read is split at its accesses  *)
(* to the count and at each of the two copies a wrapped batch takes.  A    *)
(* message is the number of its place in the stream of posted messages.    *)
(***************************************************************************)
EXTENDS Naturals, Sequences

CONSTANTS
    KMinRingCapacity,   \* k_min_capacity
    KMaxRingCapacity,   \* k_max_capacity
    RoundUpToPow2,      \* bit_ops::round_up_to_pow2(), as a function
    RingCapacities,     \* the capacities initialise() is called with
    MaxRingBatch,       \* bound: the largest count given to post() and read()
    MaxRingMessages     \* bound: messages posted between initialise and deallocate

ASSUME RingAssumption ==
    /\ KMinRingCapacity \in Nat \ {0}
    /\ KMaxRingCapacity \in Nat
    /\ KMinRingCapacity <= KMaxRingCapacity
    /\ RoundUpToPow2 \in [0 .. KMaxRingCapacity -> Nat]
    /\ RingCapacities \subseteq Nat
    /\ MaxRingBatch \in Nat
    /\ MaxRingMessages \in Nat

VARIABLES
    ringCapacity,
    slots,                      \* m_ring
    readSlot, writeSlot,        \* m_read_index, m_write_index
    occupied,                   \* the atomic m_occupied_count
    postAt, batch, copied,      \* post() in progress; copied by its first copy
    readAt, dst, wanted,        \* read() in progress
    ringPosted,     \* history: the last message posted
    ringTaken,      \* history: the last message read
    delivered       \* history: what the last read() returned

ringProducer == <<writeSlot, postAt, batch, copied, ringPosted>>
ringConsumer == <<readSlot, readAt, dst, wanted, ringTaken, delivered>>
ringVars == <<ringCapacity, slots, occupied, ringProducer, ringConsumer>>

Lesser(a, b) == IF a <= b THEN a ELSE b
Greater(a, b) == IF a >= b THEN a ELSE b

ConditionedRingCapacity(c) ==
    Greater(Lesser(RoundUpToPow2[c], KMaxRingCapacity), KMinRingCapacity)

\* Mutant: an index may come to stand behind the last slot.
MaskedLate(i) == i

\* i & (capacity - 1) for an i up to capacity, a power of 2.
Masked(i) == IF i = ringCapacity THEN 0 ELSE i

\* Mutant: one message too many is admitted.
WritableAndOne(count) == count <= (ringCapacity - occupied) + 1

\* Mutant: the last message in the ring cannot be read.
ReadableButOne(count) == count < occupied

\* count <= writable_count() and count <= readable_count().
Writable(count) == count <= ringCapacity - occupied
Readable(count) == count <= occupied

\* Mutant: the batch is copied from its start again.
CopiedInAgain(s0, k, n) == [s \in DOMAIN slots |->
    IF s \in s0 .. s0 + n - 1 THEN batch[s - s0 + 1] ELSE slots[s]]

\* The n messages of src from the k-th on are copied to the slots from s0 on.
CopiedIn(s0, k, n) == [s \in DOMAIN slots |->
    IF s \in s0 .. s0 + n - 1 THEN batch[s - s0 + k] ELSE slots[s]]

\* n messages copied out from slot s0 on.
CopiedOut(s0, n) == [i \in 1 .. n |-> slots[s0 + i - 1]]

----------------------------------------------------------------------------

RingQuiescent == postAt = "idle" /\ readAt = "idle"

Emptied(cap) ==
    /\ RingQuiescent
    /\ ringCapacity' = cap
    /\ slots' = [s \in 0 .. cap - 1 |-> 0]
    /\ readSlot' = 0 /\ writeSlot' = 0 /\ occupied' = 0
    /\ ringPosted' = 0 /\ ringTaken' = 0 /\ delivered' = <<>>
    /\ UNCHANGED <<postAt, batch, copied, readAt, dst, wanted>>

RingInit ==
    /\ ringCapacity = 0 /\ slots = [s \in 0 .. ringCapacity - 1 |-> 0]
    /\ readSlot = 0 /\ writeSlot = 0 /\ occupied = 0
    /\ postAt = "idle" /\ batch = <<>> /\ copied = 0
    /\ readAt = "idle" /\ dst = <<>> /\ wanted = 0
    /\ ringPosted = 0 /\ ringTaken = 0 /\ delivered = <<>>

\* A failed allocation leaves the instance as it was: no step.
initialise ==
    \E c \in RingCapacities :
        c <= KMaxRingCapacity /\ ringCapacity = 0 /\ Emptied(ConditionedRingCapacity(c))

deallocate == ringCapacity # 0 /\ Emptied(0)

----------------------------------------------------------------------------
(* post() *)

RingPostBegin(count) ==
    /\ postAt = "idle" /\ ringCapacity # 0
    /\ count >= 1 /\ Writable(count)
    /\ ringPosted + count <= MaxRingMessages
    /\ batch' = [i \in 1 .. count |-> ringPosted + i]
    /\ postAt' = "copy"
    /\ UNCHANGED <<ringCapacity, slots, occupied, writeSlot, copied, ringPosted,
                   ringConsumer>>

\* What fits behind the write index, and the index: behind the batch, or, when
\* the batch wraps, where the wrapped part of it will end.
RingPostCopy ==
    LET tail == ringCapacity - writeSlot
    IN  /\ postAt = "copy"
        /\ IF Len(batch) <= tail
           THEN /\ slots' = CopiedIn(writeSlot, 1, Len(batch))
                /\ writeSlot' = Masked(writeSlot + Len(batch))
                /\ postAt' = "commit" /\ copied' = copied
           ELSE /\ slots' = CopiedIn(writeSlot, 1, tail)
                /\ writeSlot' = Len(batch) - tail
                /\ postAt' = "wrap" /\ copied' = tail
        /\ UNCHANGED <<ringCapacity, occupied, batch, ringPosted, ringConsumer>>

RingPostWrap ==
    /\ postAt = "wrap"
    /\ slots' = CopiedIn(0, copied + 1, writeSlot)
    /\ postAt' = "commit" /\ copied' = 0
    /\ UNCHANGED <<ringCapacity, occupied, writeSlot, batch, ringPosted, ringConsumer>>

\* fetch_add
RingPostCommit ==
    /\ postAt = "commit"
    /\ occupied' = occupied + Len(batch)
    /\ ringPosted' = ringPosted + Len(batch)
    /\ postAt' = "idle" /\ batch' = <<>>
    /\ UNCHANGED <<ringCapacity, slots, writeSlot, copied, ringConsumer>>

----------------------------------------------------------------------------
(* read() *)

RingReadBegin(count) ==
    /\ readAt = "idle" /\ ringCapacity # 0
    /\ count >= 1 /\ Readable(count)
    /\ wanted' = count
    /\ readAt' = "copy"
    /\ UNCHANGED <<ringCapacity, slots, occupied, ringProducer, readSlot, dst,
                   ringTaken, delivered>>

RingReadCopy ==
    LET tail == ringCapacity - readSlot
    IN  /\ readAt = "copy"
        /\ IF wanted <= tail
           THEN /\ dst' = CopiedOut(readSlot, wanted)
                /\ readSlot' = Masked(readSlot + wanted)
                /\ readAt' = "commit"
           ELSE /\ dst' = CopiedOut(readSlot, tail)
                /\ readSlot' = wanted - tail
                /\ readAt' = "wrap"
        /\ UNCHANGED <<ringCapacity, slots, occupied, ringProducer, wanted,
                       ringTaken, delivered>>

RingReadWrap ==
    /\ readAt = "wrap"
    /\ dst' = dst \o CopiedOut(0, readSlot)
    /\ readAt' = "commit"
    /\ UNCHANGED <<ringCapacity, slots, occupied, ringProducer, readSlot, wanted,
                   ringTaken, delivered>>

\* fetch_sub
RingReadCommit ==
    /\ readAt = "commit"
    /\ occupied' = occupied - wanted
    /\ ringTaken' = ringTaken + wanted
    /\ delivered' = dst
    /\ readAt' = "idle" /\ dst' = <<>> /\ wanted' = 0
    /\ UNCHANGED <<ringCapacity, slots, ringProducer, readSlot>>

----------------------------------------------------------------------------

RingPost == \E count \in 1 .. MaxRingBatch : RingPostBegin(count)
RingPostContinues == RingPostCopy \/ RingPostWrap \/ RingPostCommit
RingRead == \E count \in 1 .. MaxRingBatch : RingReadBegin(count)
RingReadContinues == RingReadCopy \/ RingReadWrap \/ RingReadCommit

RingNext ==
    \/ initialise \/ deallocate
    \/ RingPost \/ RingPostContinues
    \/ RingRead \/ RingReadContinues

RingSpec == RingInit /\ [][RingNext]_ringVars

\* A call that was begun runs to its end, and the consumer goes on reading
\* single messages whatever other reads it tries.
RingFairness ==
    /\ WF_ringVars(RingPostContinues)
    /\ SF_ringVars(RingReadBegin(1))
    /\ WF_ringVars(RingReadContinues)

FairRingSpec == RingSpec /\ RingFairness
----------------------------------------------------------------------------
(* Properties *)

RingTypeOK ==
    /\ ringCapacity \in Nat
    /\ slots \in [0 .. ringCapacity - 1 -> Nat]
    /\ readSlot \in Nat /\ writeSlot \in Nat /\ occupied \in Nat
    /\ postAt \in {"idle", "copy", "wrap", "commit"}
    /\ batch \in Seq(Nat) /\ copied \in Nat
    /\ readAt \in {"idle", "copy", "wrap", "commit"}
    /\ dst \in Seq(Nat) /\ wanted \in Nat
    /\ ringPosted \in Nat /\ ringTaken \in Nat /\ delivered \in Seq(Nat)

\* The slots n messages take from slot s0 on.
Run(s0, n) == {s \in 0 .. ringCapacity - 1 :
    s \in s0 .. s0 + n - 1 \/ s + ringCapacity \in s0 .. s0 + n - 1}

\* The slot at i, going round; the slot i places before slot s.
Around(i) == IF i < ringCapacity THEN i ELSE i - ringCapacity
Before(s, i) == IF i <= s THEN s - i ELSE s + ringCapacity - i

\* Where the batch being posted and the batch being read start.
WriteStart ==
    IF postAt \in {"wrap", "commit"} THEN Before(writeSlot, Len(batch)) ELSE writeSlot
ReadStart ==
    IF readAt \in {"wrap", "commit"} THEN Before(readSlot, wanted) ELSE readSlot

\* The consumer never copies out of a slot the producer copies into, although
\* either sees of the other no more than the count.
NoSharedSlot ==
    postAt # "idle" /\ readAt # "idle" =>
        Run(WriteStart, Len(batch)) \cap Run(ReadStart, wanted) = {}

\* The occupied slots begin at the read index and end at the write index, hold
\* the messages not yet read in order, and leave room for a batch being posted.
RingAgreement ==
    /\ occupied <= ringCapacity
    /\ ringCapacity = 0 => RingQuiescent
    /\ ringCapacity # 0 => readSlot < ringCapacity /\ writeSlot < ringCapacity
    /\ ringPosted = ringTaken + occupied
    /\ wanted <= occupied /\ Len(batch) <= ringCapacity - occupied
    /\ WriteStart = Around(ReadStart + occupied)
    /\ \A i \in 0 .. occupied - 1 : slots[Around(ReadStart + i)] = ringTaken + i + 1

\* The ring is a FIFO of the capacity it was given.
Fifo == INSTANCE BoundedFifo
    WITH queue <- [i \in 1 .. occupied |-> slots[Around(ReadStart + i - 1)]],
         last <- ringPosted, capacity <- ringCapacity
ImplementsFifo == Fifo!Spec

\* A polling consumer reads every message.
EveryMessagePasses ==
    \A k \in 1 .. MaxRingMessages :
        (ringPosted >= k) ~> (ringTaken >= k \/ ringCapacity = 0)
=============================================================================
