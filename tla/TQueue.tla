------------------------------- MODULE TQueue -------------------------------
(***************************************************************************)
(* threading::transports::TQueue<T>: the triple-buffered single-producer   *)
(* single-consumer transport of TQueueTransport.hpp.                       *)
(*                                                                         *)
(* The producer accumulates messages in an output buffer and publishes it  *)
(* through one atomic word; the consumer takes the word only when it owns  *)
(* no buffer, and accepts what it finds only if the phase bit is the one   *)
(* it expects.  post() and refresh_readable_count()/read() are split at    *)
(* every access to the word and at every copy into or out of a buffer, so  *)
(* that the two threads interleave wherever the code lets them.            *)
(*                                                                         *)
(* A message is the number of its place in the stream of posted messages:  *)
(* the stream is 1, 2, 3, ... and order, loss and duplication can be read  *)
(* off the numbers.  A buffer is the sequence of its first size elements.  *)
(***************************************************************************)
EXTENDS Naturals, Sequences

CONSTANTS
    KMinCapacity,   \* k_min_capacity
    KMaxCapacity,   \* k_max_capacity
    VectorGrowth,   \* memory::vector_growth_policy(), as a function
    Capacities,     \* the capacities initialise_*() is called with
    MaxBatch,       \* bound: the largest count given to post() and read()
    MaxMessages     \* bound: messages posted between initialise and deallocate

ASSUME CapacityAssumption ==
    /\ KMinCapacity \in Nat \ {0}
    /\ KMaxCapacity \in Nat
    /\ KMinCapacity <= KMaxCapacity
    /\ Capacities \subseteq Nat
    /\ MaxBatch \in Nat
    /\ MaxMessages \in Nat

\* What the transport needs of the growth curve: it never recommends less
\* than what was asked for.
ASSUME GrowthAssumption ==
    /\ VectorGrowth \in [0 .. 2 * KMaxCapacity -> Nat]
    /\ \A n \in 0 .. 2 * KMaxCapacity : VectorGrowth[n] >= n

Buffers == 0 .. 2
Null == 3           \* k_null_buffer_index
DefaultWord == 4    \* k_default_staged_word

VARIABLES
    capacity, maxCapacity, allowDiscard,    \* configuration
    allocationFailed,                       \* the producer is poisoned
    bufCapacity, data,                      \* m_buffers[].capacity, contents
    postingPhase, output, staged, locked,   \* producer side
    readingPhase, reading, readIndex,       \* consumer side
    stagedWord,                             \* the atomic publication word
    ppc, src, discard,                      \* post() in progress
    cpc, want,                              \* read() or refresh in progress
    posted,         \* history: the last message that became visible
    taken           \* history: the last message read() returned

config == <<capacity, maxCapacity, allowDiscard>>
buffers == <<bufCapacity, data>>
roles == <<postingPhase, output, staged, locked>>
consumer == <<readingPhase, reading, readIndex>>
posting == <<ppc, src, discard>>
readCall == <<cpc, want>>
vars == <<config, allocationFailed, buffers, roles, consumer, stagedWord,
          posting, readCall, posted, taken>>

producerLocal == <<config, allocationFailed, buffers, roles, posting, posted>>
consumerLocal == <<consumer, readCall, taken>>

----------------------------------------------------------------------------
(* Encodings and policies *)

Least(a, b) == IF a <= b THEN a ELSE b
Greatest(a, b) == IF a >= b THEN a ELSE b

\* The publication word: index + 1 in the low two bits, the phase in bit 2.
\* A phase is FALSE or TRUE in the code, 0 or 1 here.
Word(b, phase) == b + 1 + 4 * phase
WordId(w) == w % 4
WordPhase(w) == w \div 4
Flipped(phase) == 1 - phase

\* Mutants: the phase is not looked at; the next phase is not the other one.
AcceptsAnyPhase(w) == WordId(w) # 0
NextReadingPhaseKept(w) == WordPhase(w)

\* What refresh_readable_count() makes of the word it took: it accepts a buffer
\* published with the phase it expects, and then expects the other phase.
Accepts(w) == WordId(w) # 0 /\ WordPhase(w) = readingPhase
NextReadingPhase(w) == Flipped(WordPhase(w))

IsPow2(n) == \E k \in 0 .. n : n = 2 ^ k

\* The capacity initialise_fixed() gives the three buffers.
ConditionedCapacity(c) ==
    Least(Greatest(IF IsPow2(c) THEN c ELSE VectorGrowth[c], KMinCapacity), KMaxCapacity)

\* The capacity growth aims at for n messages.
GrownFor(n) == Least(Greatest(VectorGrowth[n], capacity), maxCapacity)

\* Mutant: one message too many is accepted.
PolicyOffByOne(count, size) ==
    [accept |-> count <= maxCapacity - size + 1,
     target |-> GrownFor(size + count),
     discard |-> FALSE]

\* growth_and_discard_policy(): the capacity to work with, and whether the
\* producer's backlog is dropped to make room.
growth_and_discard_policy(count, size) ==
    IF count <= capacity - size
    THEN [accept |-> TRUE, target |-> capacity, discard |-> FALSE]
    ELSE IF count <= GrownFor(size + count) - size
    THEN [accept |-> TRUE, target |-> GrownFor(size + count), discard |-> FALSE]
    ELSE [accept |-> allowDiscard,
          target |-> IF allowDiscard /\ count > capacity THEN GrownFor(count) ELSE capacity,
          discard |-> allowDiscard]

current_readable_count == IF reading = Null THEN 0 ELSE Len(data[reading]) - readIndex

----------------------------------------------------------------------------
(* Setup and teardown: both roles are quiescent *)

Quiescent == ppc = "idle" /\ cpc = "idle"

CanonicalEmpty ==
    /\ capacity = 0 /\ maxCapacity = 0 /\ allowDiscard = FALSE
    /\ allocationFailed = FALSE
    /\ bufCapacity = [b \in Buffers |-> 0]
    /\ data = [b \in Buffers |-> <<>>]
    /\ postingPhase = 0 /\ output = 0 /\ staged = 1 /\ locked = 2
    /\ readingPhase = 0 /\ reading = Null /\ readIndex = 0
    /\ stagedWord = DefaultWord

Init ==
    /\ CanonicalEmpty
    /\ ppc = "idle" /\ src = <<>> /\ discard = FALSE
    /\ cpc = "idle" /\ want = 0
    /\ posted = 0 /\ taken = 0

\* Three empty buffers of one capacity, the roles and the word as they are in
\* the class definition.
SetUp(cap, maxCap, allow) ==
    /\ Quiescent
    /\ capacity' = cap /\ maxCapacity' = maxCap /\ allowDiscard' = allow
    /\ bufCapacity' = [b \in Buffers |-> cap]
    /\ data' = [b \in Buffers |-> <<>>]
    /\ postingPhase' = 0 /\ output' = 0 /\ staged' = 1 /\ locked' = 2
    /\ readingPhase' = 0 /\ reading' = Null /\ readIndex' = 0
    /\ stagedWord' = DefaultWord
    /\ UNCHANGED <<posting, readCall>>

\* When one of the three allocations fails, initialise deallocates and the
\* instance is canonically empty again: no step.
InitialiseFixed ==
    \E cap \in Capacities, allow \in BOOLEAN :
        /\ maxCapacity = 0
        /\ cap <= KMaxCapacity
        /\ SetUp(ConditionedCapacity(cap), ConditionedCapacity(cap), allow)
        /\ UNCHANGED <<allocationFailed, posted, taken>>

\* Matching capacities ask for no growth, a maximum of 0 for the largest.
GrowableMaximum(cap, maxCap) ==
    IF maxCap = cap THEN ConditionedCapacity(cap)
    ELSE IF maxCap = 0 THEN KMaxCapacity
    ELSE Greatest(maxCap, ConditionedCapacity(cap))

InitialiseGrowable ==
    \E cap \in Capacities, maxCap \in Capacities :
        /\ maxCapacity = 0
        /\ maxCap <= KMaxCapacity
        /\ cap <= KMaxCapacity
        /\ cap <= maxCap \/ maxCap = 0
        /\ SetUp(ConditionedCapacity(cap), GrowableMaximum(cap, maxCap), FALSE)
        /\ UNCHANGED <<allocationFailed, posted, taken>>

\* Unread messages go with the buffers: the stream starts over.
Deallocate ==
    /\ maxCapacity # 0
    /\ SetUp(0, 0, FALSE)
    /\ allocationFailed' = FALSE
    /\ posted' = 0 /\ taken' = 0

----------------------------------------------------------------------------
(* post() *)

Ready == maxCapacity # 0 /\ ~allocationFailed

\* What post() leaves behind when a reallocation fails.
Poison ==
    /\ allocationFailed' = TRUE
    /\ ppc' = "idle" /\ src' = <<>> /\ discard' = FALSE

\* Mutant: the new messages go to the start of the buffer.
AppendedAtStart(b) == [data EXCEPT ![b] = src]

\* Gives buffer b the working capacity; only a buffer that has another one is
\* reallocated, and only a reallocation can fail.
NeedsReallocation(b) == bufCapacity[b] # capacity
Conditioned(b) == [bufCapacity EXCEPT ![b] = capacity]

\* Buffer b with the new messages behind its own, or instead of them.
Appended(b) == [data EXCEPT ![b] = (IF discard THEN <<>> ELSE @) \o src]

\* The checks and the policy decision.  A rejected post() changes nothing.
PostBegin(count) ==
    LET policy == growth_and_discard_policy(count, Len(data[output]))
    IN  /\ ppc = "idle"
        /\ Ready
        /\ count \in 1 .. maxCapacity
        /\ posted + count <= MaxMessages
        /\ policy.accept
        /\ capacity' = policy.target
        /\ discard' = policy.discard
        /\ src' = [i \in 1 .. count |-> posted + i]
        /\ ppc' = "prepare"
        /\ UNCHANGED <<maxCapacity, allowDiscard, allocationFailed, buffers, roles,
                       consumerLocal, stagedWord, posted>>

\* The output buffer is grown if need be and takes the new messages.
PostPrepare ==
    /\ ppc = "prepare"
    /\ bufCapacity' = Conditioned(output)
    /\ data' = Appended(output)
    /\ ppc' = "publish"
    /\ UNCHANGED <<config, allocationFailed, roles, src, discard,
                   consumerLocal, stagedWord, posted>>

PostPrepareFails ==
    /\ ppc = "prepare"
    /\ NeedsReallocation(output)
    /\ Poison
    /\ UNCHANGED <<config, buffers, roles, consumerLocal, stagedWord, posted>>

\* The exchange.  A pending publication is replaced by one that holds its
\* messages and the new ones, so these are visible from here on.
PostPublish ==
    /\ ppc = "publish"
    /\ stagedWord' = Word(output, postingPhase)
    /\ IF stagedWord = 0
       THEN ppc' = "rebase" /\ posted' = posted
       ELSE ppc' = "extend" /\ posted' = posted + Len(src)
    /\ UNCHANGED <<config, allocationFailed, buffers, roles, src, discard,
                   consumerLocal>>

\* Still pending: the staged buffer, now withdrawn, takes the new messages too
\* and becomes the next output buffer.
PostExtend ==
    /\ ppc = "extend"
    /\ bufCapacity' = Conditioned(staged)
    /\ data' = Appended(staged)
    /\ output' = staged /\ staged' = output
    /\ ppc' = "idle" /\ src' = <<>> /\ discard' = FALSE
    /\ UNCHANGED <<config, allocationFailed, postingPhase, locked,
                   consumerLocal, stagedWord, posted>>

PostExtendFails ==
    /\ ppc = "extend"
    /\ NeedsReallocation(staged)
    /\ Poison
    /\ UNCHANGED <<config, buffers, roles, consumerLocal, stagedWord, posted>>

\* Already consumed: what was just published carries the old phase and is
\* ignored.  The phase flips and both free buffers restart from the new messages.
PostRebase ==
    /\ ppc = "rebase"
    /\ postingPhase' = Flipped(postingPhase)
    /\ bufCapacity' = Conditioned(locked)
    /\ data' = [data EXCEPT ![output] = src, ![locked] = src]
    /\ ppc' = "republish"
    /\ UNCHANGED <<config, allocationFailed, output, staged, locked, src, discard,
                   consumerLocal, stagedWord, posted>>

PostRebaseFails ==
    /\ ppc = "rebase"
    /\ NeedsReallocation(locked)
    /\ postingPhase' = Flipped(postingPhase)
    /\ Poison
    /\ UNCHANGED <<config, buffers, output, staged, locked,
                   consumerLocal, stagedWord, posted>>

\* The rebased buffer is published with the new phase.
PostRepublish ==
    /\ ppc = "republish"
    /\ stagedWord' = Word(locked, postingPhase)
    /\ locked' = staged /\ staged' = locked
    /\ posted' = posted + Len(src)
    /\ ppc' = "idle" /\ src' = <<>> /\ discard' = FALSE
    /\ UNCHANGED <<config, allocationFailed, buffers, postingPhase, output, consumerLocal>>

----------------------------------------------------------------------------
(* read() and refresh_readable_count() *)

\* read() of count messages; 0 stands for a call of refresh_readable_count(),
\* which goes the same way and copies nothing.  With no buffer owned, a look at
\* the word decides whether there is anything to exchange for.
ReadBegin(count) ==
    /\ cpc = "idle"
    /\ maxCapacity # 0
    /\ count \in 0 .. maxCapacity
    /\ \/ reading # Null /\ cpc' = "copy"
       \/ reading = Null /\ WordId(stagedWord) # 0 /\ cpc' = "exchange"
    /\ want' = count
    /\ UNCHANGED <<producerLocal, consumer, stagedWord, taken>>

\* The exchange; whatever has the wrong phase is swallowed.
ReadExchange ==
    /\ cpc = "exchange"
    /\ stagedWord' = 0
    /\ IF Accepts(stagedWord)
       THEN /\ readingPhase' = NextReadingPhase(stagedWord)
            /\ reading' = WordId(stagedWord) - 1
            /\ readIndex' = 0
            /\ cpc' = "copy" /\ want' = want
       ELSE /\ UNCHANGED consumer
            /\ cpc' = "idle" /\ want' = 0
    /\ UNCHANGED <<producerLocal, taken>>

\* All or nothing; an exhausted buffer is given up.
ReadCopy ==
    /\ cpc = "copy"
    /\ IF want = 0 \/ want > current_readable_count
       THEN UNCHANGED <<reading, readIndex, taken>>
       ELSE /\ taken' = data[reading][readIndex + want]
            /\ IF readIndex + want = Len(data[reading])
               THEN reading' = Null /\ readIndex' = 0
               ELSE reading' = reading /\ readIndex' = readIndex + want
    /\ cpc' = "idle" /\ want' = 0
    /\ UNCHANGED <<producerLocal, readingPhase, stagedWord>>

----------------------------------------------------------------------------

Post == \E count \in 1 .. MaxBatch : PostBegin(count)
PostContinues ==
    \/ PostPrepare \/ PostPrepareFails \/ PostPublish
    \/ PostExtend \/ PostExtendFails
    \/ PostRebase \/ PostRebaseFails \/ PostRepublish
Read == \E count \in 0 .. MaxBatch : ReadBegin(count)
ReadContinues == ReadExchange \/ ReadCopy

Next ==
    \/ InitialiseFixed \/ InitialiseGrowable \/ Deallocate
    \/ Post \/ PostContinues
    \/ Read \/ ReadContinues

Spec == Init /\ [][Next]_vars

\* A post() or read() that was begun runs to its end, and the consumer goes on
\* reading single messages, as CHostWorkerThread::main() does, whatever other
\* reads it tries in between.
Fairness ==
    /\ WF_vars(PostContinues)
    /\ SF_vars(ReadBegin(1))
    /\ WF_vars(ReadContinues)

FairSpec == Spec /\ Fairness
----------------------------------------------------------------------------
(* Properties *)

TypeOK ==
    /\ capacity \in Nat /\ maxCapacity \in Nat
    /\ allowDiscard \in BOOLEAN /\ allocationFailed \in BOOLEAN
    /\ bufCapacity \in [Buffers -> Nat]
    /\ data \in [Buffers -> Seq(Nat)]
    /\ postingPhase \in {0, 1} /\ readingPhase \in {0, 1}
    /\ output \in Buffers /\ staged \in Buffers /\ locked \in Buffers
    /\ reading \in Buffers \cup {Null} /\ readIndex \in Nat
    /\ stagedWord \in 0 .. 7
    /\ ppc \in {"idle", "prepare", "publish", "extend", "rebase", "republish"}
    /\ src \in Seq(Nat) /\ discard \in BOOLEAN
    /\ cpc \in {"idle", "exchange", "copy"} /\ want \in Nat
    /\ posted \in Nat /\ taken \in Nat

----------------------------------------------------------------------------

\* The buffers the next step of post() copies into.
WrittenByProducer ==
    CASE ppc = "prepare" -> {output}
      [] ppc = "extend" -> {staged}
      [] ppc = "rebase" -> {output, locked}
      [] OTHER -> {}

\* The producer never writes into the buffer the consumer has accepted, though
\* neither side can see the other's roles: no data race, no torn message.
NoSharedWrite == reading \notin WrittenByProducer

\* How the two private views fit together.  Fresh: nothing was ever published.
\* Published(b): buffer b waits in the word.  Accepted(b): the consumer took it,
\* and may have read it to the end.  Obsolete(p): the word still holds the
\* publication that PostPublish made too late, unless a reader swallowed it.
Fresh ==
    postingPhase = readingPhase /\ stagedWord = DefaultWord /\ reading = Null
Published(b) ==
    /\ postingPhase = readingPhase
    /\ stagedWord = Word(b, postingPhase)
    /\ reading \in {Null, locked}
Accepted(b) ==
    postingPhase # readingPhase /\ stagedWord = 0 /\ reading \in {Null, b}
Obsolete(phase) ==
    stagedWord \in {0, Word(output, phase)} /\ reading \in {Null, staged}

Settled == Fresh \/ Published(staged) \/ Accepted(staged)
Extending == Published(output) \/ Accepted(output)
Rebasing == postingPhase # readingPhase /\ Obsolete(postingPhase)
Republishing == postingPhase = readingPhase /\ Obsolete(Flipped(postingPhase))

RolesAgree ==
    /\ output # staged /\ output # locked /\ staged # locked
    /\ ppc \in {"prepare", "publish"} => Settled
    /\ ppc = "idle" => IF allocationFailed THEN Settled \/ Extending \/ Republishing
                                           ELSE Settled
    /\ ppc = "extend" => Extending
    /\ ppc = "rebase" => Rebasing
    /\ ppc = "republish" => Republishing
    /\ cpc = "exchange" => reading = Null /\ WordId(stagedWord) # 0
    /\ cpc = "copy" => reading # Null

\* Every buffer stays within its capacity and that within the working capacity.
CapacityInv ==
    /\ capacity <= maxCapacity /\ maxCapacity <= KMaxCapacity
    /\ maxCapacity = 0 => CanonicalEmpty /\ Quiescent
    /\ maxCapacity # 0 => \A b \in Buffers : bufCapacity[b] \in KMinCapacity .. capacity
    /\ \A b \in Buffers : Len(data[b]) <= bufCapacity[b]
    /\ allocationFailed => ppc = "idle"

\* The output and the staged buffer hold the same backlog between two posts, so
\* what fits into the one fits into the other.
BacklogInv ==
    /\ ppc = "idle" /\ ~allocationFailed => data[output] = data[staged]
    /\ ppc = "prepare" => data[output] = data[staged]
    /\ ppc \in {"publish", "extend", "rebase"} =>
           data[output] = (IF discard THEN <<>> ELSE data[staged]) \o src
    /\ ppc = "republish" => data[output] = src /\ data[locked] = src
    /\ ppc # "idle" => Len(src) \in 1 .. capacity
    /\ ppc \in {"prepare", "publish", "extend"} /\ ~discard =>
           Len(data[staged]) + Len(src) <= capacity

\* A published buffer is not empty, nor is what is left of an accepted one.
ReadableInv ==
    /\ \A b \in Buffers : stagedWord \in {Word(b, 0), Word(b, 1)} => data[b] # <<>>
    /\ reading # Null => readIndex < Len(data[reading])

BuffersFit == CapacityInv /\ BacklogInv /\ ReadableInv

Agreement == RolesAgree /\ BuffersFit

\* The messages in a published buffer the consumer would accept, and what is
\* left of the buffer it has accepted.
Pending ==
    IF Accepts(stagedWord) THEN data[WordId(stagedWord) - 1] ELSE <<>>
Held ==
    IF reading = Null THEN <<>>
    ELSE SubSeq(data[reading], readIndex + 1, Len(data[reading]))

\* The transport is a stream: every message is delivered once and in order,
\* and only discard drops any.
Stream == INSTANCE SpscStream
    WITH held <- Held, pending <- Pending, last <- posted, lossy <- allowDiscard
ImplementsStream == Stream!Spec

\* posting_is_valid() and reading_is_valid(), each evaluated by its own role
\* between two calls.
posting_is_valid ==
    IF maxCapacity = 0 THEN CanonicalEmpty
    ELSE /\ ~allocationFailed
         /\ capacity <= maxCapacity
         /\ \A b \in Buffers : /\ Len(data[b]) <= bufCapacity[b]
                               /\ bufCapacity[b] \in KMinCapacity .. capacity
         /\ {output, staged, locked} = Buffers
         /\ stagedWord < 8
reading_is_valid ==
    IF maxCapacity = 0 THEN CanonicalEmpty
    ELSE /\ reading # Null => /\ Len(data[reading]) <= bufCapacity[reading]
                              /\ KMinCapacity <= bufCapacity[reading]
                              /\ readIndex <= Len(data[reading])
         /\ stagedWord < 8

\* The two role-side validity checks never raise a false alarm, in whatever
\* state the other role is.
ValidityChecksHold ==
    /\ ppc = "idle" /\ ~allocationFailed => posting_is_valid
    /\ cpc = "idle" => reading_is_valid

\* A polling consumer reads every message that became visible, or one posted
\* after it, poisoned producer or not.
EveryMessageArrives ==
    \A k \in 1 .. MaxMessages : (posted >= k) ~> (taken >= k \/ maxCapacity = 0)

----------------------------------------------------------------------------
(* What the repository says and the code does not do *)

\* A post() fails if the queue "cannot accept the request": one whose messages
\* have all been read accepts one.
DrainedQueueAccepts ==
    Quiescent /\ Ready /\ taken = posted
        => growth_and_discard_policy(1, Len(data[output])).accept
=============================================================================
