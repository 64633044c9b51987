---------------------------- MODULE TQueueProofs ----------------------------
(***************************************************************************)
(* Theorems about TQueue, for every capacity, growth curve and batch size: *)
(* type correctness, the agreement of the two sides' private views, and    *)
(* what follows from it: the producer never writes into a buffer the       *)
(* consumer has accepted, and the validity checks never fail.  Then that   *)
(* TQueue implements SpscStream, for every number of messages.             *)
(***************************************************************************)
EXTENDS TQueue, TLAPS, SequenceTheorems

\* A buffer index and a phase are recovered from the word they are packed in.
LEMMA WordDecodes ==
    ASSUME NEW b \in Buffers, NEW phase \in {0, 1}
    PROVE  /\ Word(b, phase) \in 1 .. 7
           /\ Word(b, phase) # DefaultWord
           /\ WordId(Word(b, phase)) = b + 1
           /\ WordPhase(Word(b, phase)) = phase
           /\ WordId(Word(b, phase)) # 0
           /\ Word(b, phase) # 0
           /\ Word(b, phase) \in 0 .. 7
BY DEF Buffers, Word, DefaultWord, WordId, WordPhase

\* Neither the consumed word nor the initial one names a buffer.
LEMMA NoBufferWords == WordId(0) = 0 /\ WordId(DefaultWord) = 0
BY DEF WordId, DefaultWord

\* The capacity of initialise_fixed() is within the supported range.
LEMMA ConditionedRange ==
    ASSUME NEW cap \in Capacities, cap <= KMaxCapacity
    PROVE  ConditionedCapacity(cap) \in KMinCapacity .. KMaxCapacity
<1>1. cap \in 0 .. 2 * KMaxCapacity
  BY CapacityAssumption
<1>2. VectorGrowth[cap] \in Nat
  BY <1>1, GrowthAssumption
<1>. DEFINE c == IF IsPow2(cap) THEN cap ELSE VectorGrowth[cap]
<1>3. c \in Nat
  BY <1>1, <1>2
<1>. HIDE DEF c
<1>4. Least(Greatest(c, KMinCapacity), KMaxCapacity) \in KMinCapacity .. KMaxCapacity
  BY <1>3, CapacityAssumption DEF Least, Greatest
<1>. QED
  BY <1>4 DEF ConditionedCapacity, c

\* The growth target for n messages holds them, if the maximum capacity does.
LEMMA GrownRange ==
    ASSUME capacity \in Nat, maxCapacity \in Nat,
           capacity <= maxCapacity, maxCapacity <= KMaxCapacity,
           NEW n \in 0 .. 2 * KMaxCapacity
    PROVE  /\ GrownFor(n) \in capacity .. maxCapacity
           /\ n <= maxCapacity => n <= GrownFor(n)
<1>1. VectorGrowth[n] \in Nat /\ VectorGrowth[n] >= n
  BY GrowthAssumption
<1>. QED
  BY <1>1, CapacityAssumption DEF GrownFor, Least, Greatest

\* What the policy accepts fits into the capacity it sets, after the backlog or,
\* when it discards, without it.
LEMMA PolicyFits ==
    ASSUME capacity \in Nat, maxCapacity \in Nat, allowDiscard \in BOOLEAN,
           capacity <= maxCapacity, maxCapacity <= KMaxCapacity,
           NEW size \in 0 .. capacity, NEW count \in 1 .. maxCapacity,
           growth_and_discard_policy(count, size).accept
    PROVE  /\ growth_and_discard_policy(count, size).target \in capacity .. maxCapacity
           /\ growth_and_discard_policy(count, size).discard \in BOOLEAN
           /\ count <= growth_and_discard_policy(count, size).target
           /\ ~growth_and_discard_policy(count, size).discard =>
                  size + count <= growth_and_discard_policy(count, size).target
<1>1. size + count \in 0 .. 2 * KMaxCapacity /\ count \in 0 .. 2 * KMaxCapacity
  BY CapacityAssumption
<1>2. GrownFor(size + count) \in capacity .. maxCapacity
  BY <1>1, GrownRange
<1>3. GrownFor(count) \in capacity .. maxCapacity /\ count <= GrownFor(count)
  BY <1>1, GrownRange
<1>4. CASE count <= capacity - size
  BY <1>4, CapacityAssumption DEF growth_and_discard_policy
<1>5. CASE ~(count <= capacity - size) /\ count <= GrownFor(size + count) - size
  BY <1>2, <1>5, CapacityAssumption DEF growth_and_discard_policy
<1>6. CASE ~(count <= capacity - size) /\ ~(count <= GrownFor(size + count) - size)
  <2>1. growth_and_discard_policy(count, size)
          = [accept |-> allowDiscard,
             target |-> IF allowDiscard /\ count > capacity THEN GrownFor(count) ELSE capacity,
             discard |-> allowDiscard]
    BY <1>6 DEF growth_and_discard_policy
  <2>2. allowDiscard
    BY <2>1
  <2>. QED
    BY <1>3, <2>1, <2>2, CapacityAssumption
<1>. QED
  BY <1>4, <1>5, <1>6

----------------------------------------------------------------------------
(* The roles *)

\* The two sides' private views stay in agreement over every step.
LEMMA RolesStep ==
    ASSUME TypeOK, RolesAgree, CapacityInv, [Next]_vars
    PROVE  RolesAgree'
<1>. USE DEF TypeOK, RolesAgree, Settled, Extending, Rebasing, Republishing,
             Fresh, Published, Accepted, Obsolete, Flipped, Buffers, Null
<1>1. CASE UNCHANGED vars
  BY <1>1 DEF vars, config, buffers, roles, consumer, posting, readCall, WordId
<1>2. ASSUME NEW cap, NEW maxCap, NEW allow, SetUp(cap, maxCap, allow)
      PROVE  RolesAgree'
  <2>1. Fresh' /\ ppc' = "idle" /\ cpc' = "idle"
    BY <1>2 DEF SetUp, Quiescent, posting, readCall
  <2>2. output' = 0 /\ staged' = 1 /\ locked' = 2
    BY <1>2 DEF SetUp
  <2>. QED
    BY <2>1, <2>2
<1>3. ASSUME NEW count, PostBegin(count)
      PROVE  RolesAgree'
  BY <1>3 DEF PostBegin, Ready, roles, consumerLocal, consumer, readCall, WordId
<1>4. CASE PostPrepare
  BY <1>4 DEF PostPrepare, roles, consumerLocal, consumer, readCall
<1>5. CASE PostPrepareFails
  BY <1>5 DEF PostPrepareFails, Poison, roles, consumerLocal, consumer, readCall
<1>6. CASE PostPublish
  <2>1. /\ WordId(Word(output, postingPhase)) # 0
        /\ Word(staged, postingPhase) # 0
    <3>1. output \in Buffers /\ staged \in Buffers /\ postingPhase \in {0, 1}
      OBVIOUS
    <3>2. WordId(Word(output, postingPhase)) # 0
      BY <3>1, WordDecodes
    <3>3. Word(staged, postingPhase) # 0
      BY <3>1, WordDecodes
    <3>. QED
      BY <3>2, <3>3
  <2>2. CASE stagedWord = 0
    <3>1. Accepted(staged)
      BY <1>6, <2>1, <2>2 DEF PostPublish, DefaultWord
    <3>. QED
      BY <1>6, <2>1, <2>2, <3>1 DEF PostPublish, roles, consumerLocal, consumer, readCall
  <2>3. CASE stagedWord # 0
    <3>1. Fresh \/ Published(staged)
      BY <1>6, <2>3 DEF PostPublish
    <3>. QED
      BY <1>6, <2>1, <2>3, <3>1 DEF PostPublish, roles, consumerLocal, consumer, readCall
  <2>. QED
    BY <2>2, <2>3
<1>7. CASE PostExtend
  BY <1>7 DEF PostExtend, roles, consumerLocal, consumer, readCall
<1>8. CASE PostExtendFails
  BY <1>8 DEF PostExtendFails, Poison, roles, consumerLocal, consumer, readCall
<1>9. CASE PostRebase
  BY <1>9 DEF PostRebase, roles, consumerLocal, consumer, readCall
<1>10. CASE PostRebaseFails
  BY <1>10 DEF PostRebaseFails, Poison, roles, consumerLocal, consumer, readCall
<1>11. CASE PostRepublish
  <2>1. WordId(Word(locked, postingPhase)) # 0
    BY WordDecodes
  <2>. QED
    BY <1>11, <2>1, CapacityInv DEF CapacityInv, PostRepublish, roles, consumerLocal, consumer, readCall
<1>12. ASSUME NEW count, ReadBegin(count)
       PROVE  RolesAgree'
  BY <1>12 DEF ReadBegin, producerLocal, roles, posting, consumer
<1>13. CASE ReadExchange
  <2>1. ASSUME NEW b \in Buffers, stagedWord = Word(b, readingPhase)
        PROVE  /\ reading' = b /\ readingPhase' = Flipped(readingPhase)
               /\ stagedWord' = 0 /\ cpc' = "copy"
    <3>1. /\ WordId(stagedWord) = b + 1
          /\ WordPhase(stagedWord) = readingPhase
      BY <2>1, WordDecodes
    <3>2. Accepts(stagedWord) /\ NextReadingPhase(stagedWord) = Flipped(readingPhase)
      BY <3>1 DEF Accepts, NextReadingPhase
    <3>. QED
      BY <1>13, <3>1, <3>2 DEF ReadExchange
  <2>2. ASSUME NEW b \in Buffers, stagedWord = Word(b, Flipped(readingPhase))
        PROVE  /\ reading' = reading /\ readingPhase' = readingPhase
               /\ stagedWord' = 0 /\ cpc' = "idle"
    <3>0. Flipped(readingPhase) \in {0, 1}
      BY DEF Flipped
    <3>1. WordPhase(stagedWord) = Flipped(readingPhase)
      BY <2>2, <3>0, WordDecodes
    <3>2. ~Accepts(stagedWord)
      BY <3>1 DEF Accepts
    <3>. QED
      BY <1>13, <3>2 DEF ReadExchange, consumer
  <2>3. stagedWord # 0 /\ stagedWord # DefaultWord /\ reading = Null
    BY <1>13, NoBufferWords DEF ReadExchange
  <2>4. /\ ppc' = ppc /\ allocationFailed' = allocationFailed
        /\ postingPhase' = postingPhase
        /\ output' = output /\ staged' = staged /\ locked' = locked
    BY <1>13 DEF ReadExchange, producerLocal, roles, posting
  <2>5. Published(staged) => Accepted(staged)'
    BY <2>1, <2>4
  <2>6. Published(output) => Accepted(output)'
    BY <2>1, <2>4
  <2>7. Rebasing => Rebasing'
    BY <2>2, <2>3, <2>4, SMTT(30)
  <2>8. Republishing => Republishing'
    BY <2>2, <2>3, <2>4
  <2>9. (cpc' = "copy" => reading' # Null) /\ cpc' # "exchange"
    <3>1. WordId(stagedWord) - 1 \in 0 .. 2
      BY <1>13 DEF ReadExchange, WordId
    <3>. QED
      BY <1>13, <3>1 DEF ReadExchange
  <2>. QED
    BY <2>3, <2>4, <2>5, <2>6, <2>7, <2>8, <2>9
<1>14. CASE ReadCopy
  BY <1>14 DEF ReadCopy, producerLocal, roles, posting
<1>. QED
  BY <1>1, <1>2, <1>3, <1>4, <1>5, <1>6, <1>7, <1>8, <1>9, <1>10, <1>11, <1>12, <1>13,
     <1>14 DEF Next, InitialiseFixed, InitialiseGrowable, Deallocate, Post,
     PostContinues, Read, ReadContinues

----------------------------------------------------------------------------
(* The types *)

LEMMA TypeStep ==
    ASSUME TypeOK, RolesAgree, BuffersFit, [Next]_vars
    PROVE  TypeOK'
<1>. USE DEF TypeOK
<1>0. <<>> \in Seq(Nat)
  OBVIOUS
<1>1. CASE UNCHANGED vars
  BY <1>1 DEF vars, config, buffers, roles, consumer, posting, readCall
<1>2. ASSUME NEW cap \in Nat, NEW maxCap \in Nat, NEW allow \in BOOLEAN,
             SetUp(cap, maxCap, allow),
             allocationFailed' \in BOOLEAN,
             posted' \in Nat, taken' \in Nat
      PROVE  TypeOK'
  BY <1>2 DEF SetUp, posting, readCall, Buffers, Null, DefaultWord
<1>3. CASE InitialiseFixed
  <2>1. PICK cap \in Capacities, allow \in BOOLEAN :
          /\ cap <= KMaxCapacity
          /\ SetUp(ConditionedCapacity(cap), ConditionedCapacity(cap), allow)
    BY <1>3 DEF InitialiseFixed
  <2>2. ConditionedCapacity(cap) \in Nat
    BY <2>1, ConditionedRange, CapacityAssumption
  <2>. QED
    BY <1>2, <1>3, <2>1, <2>2 DEF InitialiseFixed
<1>4. CASE InitialiseGrowable
  <2>1. PICK cap \in Capacities, maxCap \in Capacities :
          /\ cap <= KMaxCapacity /\ maxCap <= KMaxCapacity
          /\ SetUp(ConditionedCapacity(cap), GrowableMaximum(cap, maxCap), FALSE)
    BY <1>4 DEF InitialiseGrowable
  <2>2. ConditionedCapacity(cap) \in Nat
    BY <2>1, ConditionedRange, CapacityAssumption
  <2>3. GrowableMaximum(cap, maxCap) \in Nat
    BY <2>1, <2>2, CapacityAssumption DEF GrowableMaximum, Greatest
  <2>. QED
    BY <1>2, <1>4, <2>1, <2>2, <2>3 DEF InitialiseGrowable
<1>5. CASE Deallocate
  <2>1. SetUp(0, 0, FALSE) /\ allocationFailed' = FALSE
    BY <1>5 DEF Deallocate
  <2>2. posted' = 0 /\ taken' = 0
    BY <1>5 DEF Deallocate
  <2>. QED
    BY <1>2, <2>1, <2>2
<1>6. ASSUME NEW count \in 1 .. MaxBatch, PostBegin(count)
      PROVE  TypeOK'
  <2>. DEFINE size == Len(data[output])
              policy == growth_and_discard_policy(count, size)
  <2>1. size \in 0 .. capacity /\ count \in 1 .. maxCapacity
    BY <1>6 DEF PostBegin, Ready, BuffersFit, CapacityInv
  <2>2. policy.target \in capacity .. maxCapacity /\ policy.discard \in BOOLEAN
    BY <1>6, <2>1, PolicyFits DEF PostBegin, BuffersFit, CapacityInv
  <2>3. [i \in 1 .. count |-> posted + i] \in Seq(Nat)
    BY <2>1
  <2>4. capacity' \in Nat /\ discard' \in BOOLEAN
    BY <1>6, <2>2 DEF PostBegin
  <2>5. src' \in Seq(Nat) /\ ppc' = "prepare"
    BY <1>6, <2>3 DEF PostBegin
  <2>6. /\ UNCHANGED <<maxCapacity, allowDiscard, allocationFailed, bufCapacity, data>>
        /\ UNCHANGED <<postingPhase, output, staged, locked, stagedWord, posted>>
        /\ UNCHANGED <<readingPhase, reading, readIndex, cpc, want, taken>>
    BY <1>6 DEF PostBegin, buffers, roles, consumerLocal, consumer, readCall
  <2>. HIDE DEF size, policy
  <2>. QED
    BY <2>4, <2>5, <2>6
<1>7. ASSUME NEW b \in Buffers
      PROVE  Conditioned(b) \in [Buffers -> Nat] /\ Appended(b) \in [Buffers -> Seq(Nat)]
  BY DEF Conditioned, Appended
<1>8. CASE PostPrepare
  BY <1>7, <1>8 DEF PostPrepare, config, roles, consumerLocal, consumer, readCall
<1>9. CASE PostPrepareFails
  BY <1>0, <1>9 DEF PostPrepareFails, Poison, config, buffers, roles, consumerLocal, consumer, readCall
<1>10. CASE PostPublish
  <2>1. stagedWord' \in 0 .. 7
    <3>1. stagedWord' = Word(output, postingPhase) /\ output \in Buffers /\ postingPhase \in {0, 1}
      BY <1>10 DEF PostPublish
    <3>. QED
      BY <3>1, WordDecodes
  <2>2. posted' \in Nat /\ ppc' \in {"rebase", "extend"}
    BY <1>10 DEF PostPublish
  <2>3. /\ UNCHANGED <<capacity, maxCapacity, allowDiscard, allocationFailed, bufCapacity, data>>
        /\ UNCHANGED <<postingPhase, output, staged, locked, src, discard>>
        /\ UNCHANGED <<readingPhase, reading, readIndex, cpc, want, taken>>
    BY <1>10 DEF PostPublish, config, buffers, roles, consumerLocal, consumer, readCall
  <2>. QED
    BY <2>1, <2>2, <2>3
<1>11. CASE PostExtend
  BY <1>0, <1>7, <1>11 DEF PostExtend, config, consumerLocal, consumer, readCall
<1>12. CASE PostExtendFails
  BY <1>0, <1>12 DEF PostExtendFails, Poison, config, buffers, roles, consumerLocal, consumer, readCall
<1>13. CASE PostRebase
  <2>1. [data EXCEPT ![output] = src, ![locked] = src] \in [Buffers -> Seq(Nat)]
    OBVIOUS
  <2>2. Flipped(postingPhase) \in {0, 1}
    BY DEF Flipped
  <2>. QED
    BY <1>7, <1>13, <2>1, <2>2 DEF PostRebase, config, consumerLocal, consumer, readCall
<1>14. CASE PostRebaseFails
  <2>1. Flipped(postingPhase) \in {0, 1}
    BY DEF Flipped
  <2>. QED
    BY <1>0, <1>14, <2>1 DEF PostRebaseFails, Poison, config, buffers, consumerLocal, consumer, readCall
<1>15. CASE PostRepublish
  <2>1. stagedWord' \in 0 .. 7
    <3>1. stagedWord' = Word(locked, postingPhase) /\ locked \in Buffers /\ postingPhase \in {0, 1}
      BY <1>15 DEF PostRepublish
    <3>. QED
      BY <3>1, WordDecodes
  <2>. QED
    BY <1>0, <1>15, <2>1, posted + Len(src) \in Nat DEF PostRepublish, config, buffers, consumerLocal, consumer, readCall
<1>16. ASSUME NEW count \in 0 .. MaxBatch, ReadBegin(count)
       PROVE  TypeOK'
  BY <1>16, CapacityAssumption
     DEF ReadBegin, producerLocal, config, buffers, roles, posting, consumer
<1>17. CASE ReadExchange
  <2>1. WordId(stagedWord) # 0 => WordId(stagedWord) - 1 \in Buffers
    BY DEF WordId, Buffers
  <2>2. NextReadingPhase(stagedWord) \in {0, 1}
    BY DEF NextReadingPhase, Flipped, WordPhase
  <2>3. /\ UNCHANGED <<capacity, maxCapacity, allowDiscard, allocationFailed, bufCapacity, data>>
        /\ UNCHANGED <<postingPhase, output, staged, locked, ppc, src, discard, posted, taken>>
        /\ stagedWord' = 0 /\ cpc' \in {"copy", "idle"}
    BY <1>17 DEF ReadExchange, producerLocal, config, buffers, roles, posting
  <2>4. readingPhase' \in {0, 1} /\ readIndex' \in Nat /\ want' \in Nat
    BY <1>17, <2>2, SMTT(30) DEF ReadExchange, consumer
  <2>5. reading' \in Buffers \cup {Null}
    BY <1>17, <2>1 DEF ReadExchange, Accepts, consumer
  <2>. QED
    BY <2>3, <2>4, <2>5
<1>18. CASE ReadCopy
  <2>1. reading \in Buffers
    BY <1>18 DEF ReadCopy, RolesAgree
  <2>2. current_readable_count = Len(data[reading]) - readIndex
    BY <2>1 DEF current_readable_count, Buffers, Null
  <2>3. want # 0 /\ want <= current_readable_count =>
          data[reading][readIndex + want] \in Nat
    BY <2>1, <2>2, SMTT(30)
  <2>4. taken' \in Nat
    <3>1. CASE want = 0 \/ want > current_readable_count
      BY <1>18, <3>1 DEF ReadCopy
    <3>2. CASE want # 0 /\ want <= current_readable_count
      <4>1. ~(want = 0 \/ want > current_readable_count)
        BY <2>1, <2>2, <3>2
      <4>2. taken' = data[reading][readIndex + want]
        BY <1>18, <4>1 DEF ReadCopy
      <4>. QED
        BY <2>3, <3>2, <4>2
    <3>. QED
      BY <2>1, <2>2, <3>1, <3>2
  <2>5. reading' \in Buffers \cup {Null} /\ readIndex' \in Nat
    BY <1>18, <2>1 DEF ReadCopy
  <2>. QED
    BY <1>18, <2>4, <2>5 DEF ReadCopy, producerLocal, config, buffers, roles, posting
<1>. QED
  BY <1>1, <1>3, <1>4, <1>5, <1>6, <1>8, <1>9, <1>10, <1>11, <1>12, <1>13, <1>14, <1>15,
     <1>16, <1>17, <1>18 DEF Next, Post, PostContinues, Read, ReadContinues

----------------------------------------------------------------------------
(* Capacities and contents *)

\* A step that leaves the configuration and the buffers alone and does not
\* begin a call on an uninitialised instance.
LEMMA CapacityStutter ==
    ASSUME CapacityInv, TypeOK, maxCapacity # 0,
           UNCHANGED <<capacity, maxCapacity, buffers>>,
           allocationFailed' => ppc' = "idle"
    PROVE  CapacityInv'
BY DEF CapacityInv, buffers

LEMMA CapacityStep ==
    ASSUME TypeOK, RolesAgree, BuffersFit, [Next]_vars
    PROVE  CapacityInv'
<1>. USE DEF BuffersFit
<1>0. /\ ppc # "idle" => maxCapacity # 0 /\ ~allocationFailed
      /\ maxCapacity # 0 => capacity \in KMinCapacity .. KMaxCapacity
  BY CapacityAssumption DEF TypeOK, CapacityInv, Quiescent, Buffers
<1>1. CASE UNCHANGED vars
  BY <1>1 DEF vars, config, buffers, roles, consumer, posting, readCall,
              CapacityInv, CanonicalEmpty, Quiescent
<1>2. ASSUME NEW cap \in KMinCapacity .. KMaxCapacity, NEW maxCap \in cap .. KMaxCapacity,
             NEW allow \in BOOLEAN, SetUp(cap, maxCap, allow)
      PROVE  CapacityInv'
  <2>1. maxCap # 0
    BY CapacityAssumption
  <2>2. \A b \in Buffers : bufCapacity'[b] = cap /\ Len(data'[b]) = 0
    BY <1>2 DEF SetUp
  <2>3. ppc' = "idle"
    BY <1>2 DEF SetUp, Quiescent, posting
  <2>. QED
    BY <1>2, <2>1, <2>2, <2>3, CapacityAssumption DEF SetUp, CapacityInv
<1>3. CASE InitialiseFixed
  <2>1. PICK cap \in Capacities, allow \in BOOLEAN :
          /\ cap <= KMaxCapacity
          /\ SetUp(ConditionedCapacity(cap), ConditionedCapacity(cap), allow)
    BY <1>3 DEF InitialiseFixed
  <2>2. ConditionedCapacity(cap) \in KMinCapacity .. KMaxCapacity
    BY <2>1, ConditionedRange
  <2>. QED
    BY <1>2, <2>1, <2>2, CapacityAssumption
<1>4. CASE InitialiseGrowable
  <2>1. PICK cap \in Capacities, maxCap \in Capacities :
          /\ cap <= KMaxCapacity /\ maxCap <= KMaxCapacity
          /\ SetUp(ConditionedCapacity(cap), GrowableMaximum(cap, maxCap), FALSE)
    BY <1>4 DEF InitialiseGrowable
  <2>2. ConditionedCapacity(cap) \in KMinCapacity .. KMaxCapacity
    BY <2>1, ConditionedRange
  <2>3. GrowableMaximum(cap, maxCap) \in ConditionedCapacity(cap) .. KMaxCapacity
    BY <2>1, <2>2, CapacityAssumption DEF GrowableMaximum, Greatest
  <2>. QED
    BY <1>2, <2>1, <2>2, <2>3
<1>5. CASE Deallocate
  <2>1. CanonicalEmpty' /\ Quiescent'
    BY <1>5 DEF Deallocate, SetUp, CanonicalEmpty, Quiescent, posting, readCall
  <2>2. \A b \in Buffers : bufCapacity'[b] = 0 /\ Len(data'[b]) = 0
    BY <1>5 DEF Deallocate, SetUp
  <2>. QED
    BY <1>5, <2>1, <2>2, CapacityAssumption DEF Deallocate, SetUp, CapacityInv, Quiescent
<1>6. ASSUME NEW count \in 1 .. MaxBatch, PostBegin(count)
      PROVE  CapacityInv'
  <2>. DEFINE size == Len(data[output])
              policy == growth_and_discard_policy(count, size)
  <2>1. size \in 0 .. capacity /\ count \in 1 .. maxCapacity /\ maxCapacity # 0
    BY <1>6 DEF PostBegin, Ready, TypeOK, CapacityInv
  <2>2. policy.target \in capacity .. maxCapacity
    BY <1>6, <2>1, PolicyFits DEF PostBegin, TypeOK, CapacityInv
  <2>3. /\ capacity' = policy.target /\ maxCapacity' = maxCapacity
        /\ UNCHANGED <<bufCapacity, data>> /\ allocationFailed' = allocationFailed
        /\ ~allocationFailed
    BY <1>6 DEF PostBegin, buffers, Ready
  <2>4. \A b \in Buffers : bufCapacity[b] \in KMinCapacity .. capacity'
    BY <2>1, <2>2, <2>3, CapacityAssumption DEF TypeOK, CapacityInv
  <2>. QED
    BY <2>1, <2>2, <2>3, <2>4, CapacityAssumption DEF TypeOK, CapacityInv
<1>7. ASSUME NEW b \in Buffers, maxCapacity # 0, ~allocationFailed',
             bufCapacity' = Conditioned(b), Len(data'[b]) <= capacity,
             \A c \in Buffers \ {b} : Len(data'[c]) <= bufCapacity[c],
             UNCHANGED <<capacity, maxCapacity>>
      PROVE  CapacityInv'
  <2>1. bufCapacity' = [bufCapacity EXCEPT ![b] = capacity]
    BY <1>7 DEF Conditioned
  <2>2. \A c \in Buffers : bufCapacity'[c] \in KMinCapacity .. capacity
    BY <1>0, <1>7, <2>1 DEF TypeOK, CapacityInv
  <2>3. \A c \in Buffers : Len(data'[c]) <= bufCapacity'[c]
    BY <1>7, <2>1 DEF TypeOK
  <2>. QED
    BY <1>7, <2>2, <2>3 DEF CapacityInv
<1>8. ASSUME NEW b \in Buffers, data' = Appended(b),
             Len(src) <= capacity, ~discard => Len(data[b]) + Len(src) <= capacity
      PROVE  /\ Len(data'[b]) <= capacity
             /\ \A c \in Buffers \ {b} : Len(data'[c]) <= bufCapacity[c]
  <2>1. Len(data'[b]) = IF discard THEN Len(src) ELSE Len(data[b]) + Len(src)
    BY <1>8 DEF Appended, TypeOK
  <2>2. \A c \in Buffers \ {b} : data'[c] = data[c]
    BY <1>8 DEF Appended, TypeOK
  <2>. QED
    BY <1>8, <2>1, <2>2 DEF CapacityInv
<1>9. CASE PostPrepare
  <2>1. maxCapacity # 0 /\ ~allocationFailed
    BY <1>0, <1>9 DEF PostPrepare
  <2>2. Len(src) <= capacity /\ (~discard => Len(data[output]) + Len(src) <= capacity)
    BY <1>9 DEF PostPrepare, BacklogInv, TypeOK
  <2>. QED
    BY <1>7, <1>8, <1>9, <2>1, <2>2 DEF PostPrepare, config, TypeOK
<1>10. CASE PostExtend
  <2>1. maxCapacity # 0 /\ ~allocationFailed
    BY <1>0, <1>10 DEF PostExtend
  <2>2. Len(src) <= capacity /\ (~discard => Len(data[staged]) + Len(src) <= capacity)
    BY <1>10 DEF PostExtend, BacklogInv, TypeOK
  <2>. QED
    BY <1>7, <1>8, <1>10, <2>1, <2>2 DEF PostExtend, config, TypeOK
<1>11. CASE PostRebase
  <2>1. maxCapacity # 0 /\ ~allocationFailed /\ Len(src) <= capacity
    BY <1>0, <1>11 DEF PostRebase, BacklogInv, TypeOK
  <2>2. output # locked /\ Len(src) <= Len(data[output])
    BY <1>11 DEF PostRebase, RolesAgree, BacklogInv, TypeOK
  <2>3. /\ data'[locked] = src /\ data'[output] = src
        /\ \A c \in Buffers \ {locked, output} : data'[c] = data[c]
    BY <1>11, <2>2 DEF PostRebase, TypeOK
  <2>4. \A c \in Buffers \ {locked} : Len(data'[c]) <= bufCapacity[c]
    <3>1. Len(data'[output]) <= bufCapacity[output]
      BY <2>2, <2>3 DEF CapacityInv, TypeOK
    <3>2. \A c \in Buffers \ {locked, output} : Len(data'[c]) <= bufCapacity[c]
      BY <2>3 DEF CapacityInv
    <3>. QED
      BY <3>1, <3>2
  <2>. QED
    BY <1>7, <1>11, <2>1, <2>3, <2>4 DEF PostRebase, config, TypeOK
<1>12. CASE \/ PostPrepareFails \/ PostPublish \/ PostExtendFails
            \/ PostRebaseFails \/ PostRepublish
  <2>1. UNCHANGED <<capacity, maxCapacity, buffers>>
    BY <1>12 DEF PostPrepareFails, PostPublish, PostExtendFails, PostRebaseFails,
                 PostRepublish, config
  <2>2. maxCapacity # 0 /\ (allocationFailed' => ppc' = "idle")
    BY <1>0, <1>12 DEF PostPrepareFails, PostPublish, PostExtendFails, PostRebaseFails,
                       PostRepublish, Poison
  <2>. QED
    BY <2>1, <2>2, CapacityStutter
<1>13. ASSUME NEW count, ReadBegin(count)
       PROVE  CapacityInv'
  BY <1>13, CapacityStutter
     DEF ReadBegin, producerLocal, config, posting, CapacityInv
<1>14. CASE ReadExchange \/ ReadCopy
  <2>1. maxCapacity # 0
    BY <1>14 DEF ReadExchange, ReadCopy, CapacityInv, Quiescent
  <2>. QED
    BY <1>14, <2>1, CapacityStutter
       DEF ReadExchange, ReadCopy, producerLocal, config, posting, CapacityInv
<1>. QED
  BY <1>1, <1>3, <1>4, <1>5, <1>6, <1>9, <1>10, <1>11, <1>12, <1>13, <1>14
     DEF Next, Post, PostContinues, Read, ReadContinues

----------------------------------------------------------------------------
(* Backlogs *)

LEMMA BacklogStep ==
    ASSUME TypeOK, RolesAgree, BuffersFit, [Next]_vars
    PROVE  BacklogInv'
<1>. USE DEF BuffersFit, BacklogInv
<1>1. ASSUME UNCHANGED <<capacity, data, output, staged, locked>>,
             UNCHANGED <<ppc, allocationFailed, src, discard>>
      PROVE  BacklogInv'
  BY <1>1
<1>2. CASE UNCHANGED vars
  BY <1>1, <1>2 DEF vars, config, buffers, roles, posting
<1>3. ASSUME NEW cap, NEW maxCap, NEW allow, SetUp(cap, maxCap, allow)
      PROVE  BacklogInv'
  <2>1. data'[0] = <<>> /\ data'[1] = <<>> /\ ppc' = "idle"
    BY <1>3 DEF SetUp, Quiescent, posting, Buffers
  <2>2. output' = 0 /\ staged' = 1
    BY <1>3 DEF SetUp
  <2>. QED
    BY <2>1, <2>2
<1>4. ASSUME NEW count \in 1 .. MaxBatch, PostBegin(count)
      PROVE  BacklogInv'
  <2>. DEFINE size == Len(data[output])
              policy == growth_and_discard_policy(count, size)
  <2>1. size \in 0 .. capacity /\ count \in 1 .. maxCapacity /\ maxCapacity # 0
    BY <1>4 DEF PostBegin, Ready, TypeOK, CapacityInv
  <2>2. /\ policy.target \in capacity .. maxCapacity
        /\ count <= policy.target
        /\ ~policy.discard => size + count <= policy.target
    BY <1>4, <2>1, PolicyFits DEF PostBegin, TypeOK, CapacityInv
  <2>3. src' = [i \in 1 .. count |-> posted + i] /\ ppc' = "prepare"
    BY <1>4 DEF PostBegin
  <2>4. Len(src') = count
    BY <2>1, <2>3
  <2>5. data[output] = data[staged]
    BY <1>4 DEF PostBegin, Ready
  <2>6. /\ capacity' = policy.target /\ discard' = policy.discard
        /\ UNCHANGED <<data, output, staged>>
    BY <1>4 DEF PostBegin, buffers, roles
  <2>. HIDE DEF policy
  <2>. QED
    BY <2>1, <2>2, <2>3, <2>4, <2>5, <2>6 DEF TypeOK
<1>5. CASE PostPrepare
  <2>1. output # staged /\ data[output] = data[staged]
    BY <1>5 DEF PostPrepare, RolesAgree
  <2>2. /\ data'[output] = (IF discard THEN <<>> ELSE data[staged]) \o src
        /\ data'[staged] = data[staged]
    BY <1>5, <2>1 DEF PostPrepare, Appended, TypeOK
  <2>3. /\ ppc = "prepare" /\ ppc' = "publish"
        /\ UNCHANGED <<capacity, output, staged, src, discard>>
    BY <1>5 DEF PostPrepare, config, roles
  <2>. QED
    BY <2>2, <2>3
<1>6. CASE PostPublish
  <2>1. /\ ppc = "publish" /\ ppc' \in {"extend", "rebase"}
        /\ UNCHANGED <<capacity, data, output, staged, src, discard>>
    BY <1>6 DEF PostPublish, config, buffers, roles
  <2>. QED
    BY <2>1
<1>7. CASE PostExtend
  <2>1. output # staged /\ data[output] = (IF discard THEN <<>> ELSE data[staged]) \o src
    BY <1>7 DEF PostExtend, RolesAgree
  <2>2. data'[staged] = data[output] /\ data'[output] = data[output]
    BY <1>7, <2>1 DEF PostExtend, Appended, TypeOK
  <2>3. ppc' = "idle" /\ output' = staged /\ staged' = output
    BY <1>7 DEF PostExtend
  <2>. QED
    BY <2>2, <2>3
<1>8. CASE PostRebase
  <2>1. data'[output] = src /\ data'[locked] = src
    BY <1>8 DEF PostRebase, TypeOK
  <2>2. /\ ppc = "rebase" /\ ppc' = "republish"
        /\ UNCHANGED <<capacity, output, locked, src>>
    BY <1>8 DEF PostRebase, config
  <2>. QED
    BY <2>1, <2>2
<1>9. CASE PostRepublish
  <2>1. ppc' = "idle" /\ staged' = locked /\ UNCHANGED <<output, data>>
    BY <1>9 DEF PostRepublish, buffers
  <2>2. data[output] = data[locked]
    BY <1>9 DEF PostRepublish
  <2>. QED
    BY <2>1, <2>2
<1>10. CASE PostPrepareFails \/ PostExtendFails \/ PostRebaseFails
  <2>1. ppc' = "idle" /\ allocationFailed'
    BY <1>10 DEF PostPrepareFails, PostExtendFails, PostRebaseFails, Poison
  <2>. QED
    BY <2>1
<1>11. CASE Read \/ ReadContinues
  <2>1. UNCHANGED producerLocal
    BY <1>11 DEF Read, ReadContinues, ReadBegin, ReadExchange, ReadCopy
  <2>. QED
    BY <1>1, <2>1 DEF producerLocal, config, buffers, roles, posting
<1>. QED
  BY <1>2, <1>3, <1>4, <1>5, <1>6, <1>7, <1>8, <1>9, <1>10, <1>11
     DEF Next, InitialiseFixed, InitialiseGrowable, Deallocate, Post, PostContinues

----------------------------------------------------------------------------
(* What the consumer reads *)

\* A step that changes no buffer the consumer owns and publishes nothing empty.
LEMMA ReadableKept ==
    ASSUME TypeOK, ReadableInv,
           UNCHANGED <<reading, readIndex, stagedWord>>,
           reading # Null => data'[reading] = data[reading],
           \A b \in Buffers : data[b] # <<>> => data'[b] # <<>>
    PROVE  ReadableInv'
BY DEF ReadableInv, Word

LEMMA ReadableStep ==
    ASSUME TypeOK, RolesAgree, BuffersFit, [Next]_vars
    PROVE  ReadableInv'
<1>. USE DEF BuffersFit
<1>1. CASE UNCHANGED vars
  BY <1>1, ReadableKept DEF vars, buffers, consumer
<1>2. ASSUME NEW cap, NEW maxCap, NEW allow, SetUp(cap, maxCap, allow)
      PROVE  ReadableInv'
  <2>1. stagedWord' = DefaultWord /\ reading' = Null
    BY <1>2 DEF SetUp
  <2>2. \A b \in Buffers : DefaultWord # Word(b, 0) /\ DefaultWord # Word(b, 1)
    BY WordDecodes
  <2>. QED
    BY <2>1, <2>2 DEF ReadableInv, Word
<1>3. ASSUME NEW count, PostBegin(count)
      PROVE  ReadableInv'
  BY <1>3, ReadableKept DEF PostBegin, buffers, consumerLocal, consumer
<1>4. ppc # "idle" => src # <<>>
  BY DEF BacklogInv, TypeOK
<1>5. ASSUME NEW b \in Buffers, data' = Appended(b), ppc # "idle", reading # b,
             UNCHANGED <<consumer, stagedWord>>
      PROVE  ReadableInv'
  <2>1. data'[b] # <<>> /\ \A c \in Buffers \ {b} : data'[c] = data[c]
    BY <1>4, <1>5 DEF Appended, TypeOK
  <2>. QED
    BY <1>5, <2>1, ReadableKept DEF consumer, TypeOK, Null
<1>6. CASE PostPrepare
  <2>1. reading # output
    BY <1>6 DEF PostPrepare, TypeOK, RolesAgree, Settled, Fresh, Published, Accepted,
                Buffers, Null
  <2>. QED
    BY <1>5, <1>6, <2>1 DEF PostPrepare, consumerLocal, TypeOK
<1>7. CASE PostExtend
  <2>1. reading # staged
    BY <1>7 DEF PostExtend, TypeOK, RolesAgree, Extending, Published, Accepted,
                Buffers, Null
  <2>. QED
    BY <1>5, <1>7, <2>1 DEF PostExtend, consumerLocal, TypeOK
<1>8. CASE PostRebase
  <2>1. reading \in {Null, staged} /\ output # staged /\ locked # staged
    BY <1>8 DEF PostRebase, RolesAgree, Rebasing, Obsolete
  <2>2. /\ data'[output] # <<>> /\ data'[locked] # <<>>
        /\ \A c \in Buffers \ {output, locked} : data'[c] = data[c]
    BY <1>4, <1>8 DEF PostRebase, TypeOK
  <2>. QED
    BY <1>8, <2>1, <2>2, ReadableKept DEF PostRebase, consumerLocal, consumer, TypeOK, Null
<1>9. ASSUME NEW b \in Buffers, NEW phase \in {0, 1}, data[b] # <<>>,
             stagedWord' = Word(b, phase), UNCHANGED <<buffers, consumer>>
      PROVE  ReadableInv'
  <2>1. \A c \in Buffers, p \in {0, 1} : Word(b, phase) = Word(c, p) => c = b
    BY DEF Word, Buffers
  <2>. QED
    BY <1>9, <2>1 DEF ReadableInv, buffers, consumer, Word
<1>10. CASE PostPublish
  <2>1. data[output] # <<>>
    <3>1. data[output] = (IF discard THEN <<>> ELSE data[staged]) \o src /\ src # <<>>
      BY <1>4, <1>10 DEF PostPublish, BacklogInv
    <3>. QED
      BY <3>1 DEF TypeOK
  <2>. QED
    BY <1>9, <1>10, <2>1 DEF PostPublish, consumerLocal, TypeOK
<1>11. CASE PostRepublish
  <2>1. data[locked] # <<>>
    BY <1>4, <1>11 DEF PostRepublish, BacklogInv
  <2>. QED
    BY <1>9, <1>11, <2>1 DEF PostRepublish, consumerLocal, TypeOK
<1>12. CASE PostPrepareFails \/ PostExtendFails \/ PostRebaseFails
  BY <1>12, ReadableKept DEF PostPrepareFails, PostExtendFails, PostRebaseFails,
                             buffers, consumerLocal, consumer
<1>13. ASSUME NEW count, ReadBegin(count)
       PROVE  ReadableInv'
  BY <1>13, ReadableKept DEF ReadBegin, producerLocal, buffers, consumer
<1>14. CASE ReadExchange
  <2>1. stagedWord' = 0 /\ UNCHANGED data /\ reading = Null
    BY <1>14 DEF ReadExchange, producerLocal, buffers, RolesAgree
  <2>2. \A b \in Buffers : Word(b, 0) # 0 /\ Word(b, 1) # 0
    BY WordDecodes
  <2>3. CASE Accepts(stagedWord)
    <3>. DEFINE b == WordId(stagedWord) - 1
    <3>1. b \in Buffers /\ stagedWord \in {Word(b, 0), Word(b, 1)}
      <4>1. stagedWord \in 0 .. 7 /\ stagedWord % 4 # 0
        BY <2>3 DEF Accepts, WordId, TypeOK
      <4>2. stagedWord \in {1, 2, 3, 5, 6, 7}
        BY <4>1
      <4>. QED
        BY <4>2 DEF WordId, Word, Buffers
    <3>2. reading' = b /\ readIndex' = 0
      BY <1>14, <2>3 DEF ReadExchange
    <3>3. data[b] # <<>>
      BY <3>1 DEF ReadableInv
    <3>4. 0 < Len(data[b])
      BY <3>1, <3>3 DEF TypeOK
    <3>. QED
      BY <2>1, <2>2, <3>2, <3>4 DEF ReadableInv, Word
  <2>4. CASE ~Accepts(stagedWord)
    BY <1>14, <2>1, <2>2, <2>4 DEF ReadExchange, consumer, ReadableInv, Word
  <2>. QED
    BY <2>3, <2>4
<1>15. CASE ReadCopy
  <2>1. stagedWord' = stagedWord /\ data' = data /\ reading \in Buffers
    BY <1>15 DEF ReadCopy, producerLocal, buffers, RolesAgree, TypeOK
  <2>2. current_readable_count = Len(data[reading]) - readIndex
    BY <2>1 DEF current_readable_count, Buffers, Null
  <2>3. reading' # Null => reading' = reading /\ readIndex' < Len(data[reading])
    BY <1>15, <2>1, <2>2 DEF ReadCopy, ReadableInv, TypeOK
  <2>. QED
    BY <2>1, <2>3 DEF ReadableInv, Word
<1>. QED
  BY <1>1, <1>2, <1>3, <1>6, <1>7, <1>8, <1>10, <1>11, <1>12, <1>13, <1>14, <1>15
     DEF Next, InitialiseFixed, InitialiseGrowable, Deallocate, Post, PostContinues,
         Read, ReadContinues

----------------------------------------------------------------------------
(* The theorems *)

IInv == TypeOK /\ Agreement

LEMMA InitInv == Init => IInv
<1>. SUFFICES ASSUME Init PROVE IInv
  OBVIOUS
<1>. USE DEF Init, CanonicalEmpty
<1>1. TypeOK
  <2>1. <<>> \in Seq(Nat)
    OBVIOUS
  <2>2. data \in [Buffers -> Seq(Nat)] /\ bufCapacity \in [Buffers -> Nat]
    BY <2>1
  <2>3. allowDiscard \in BOOLEAN /\ allocationFailed \in BOOLEAN /\ discard \in BOOLEAN
    OBVIOUS
  <2>. QED
    BY <2>1, <2>2, <2>3 DEF TypeOK, Buffers, Null, DefaultWord
<1>2. RolesAgree
  BY DEF RolesAgree, Settled, Fresh
<1>3. CapacityInv
  BY CapacityAssumption DEF CapacityInv, Quiescent
<1>4. BacklogInv
  BY DEF BacklogInv, Buffers
<1>5. ReadableInv
  BY WordDecodes DEF ReadableInv, Word
<1>. QED
  BY <1>1, <1>2, <1>3, <1>4, <1>5 DEF IInv, Agreement, BuffersFit

LEMMA Invariance == Spec => []IInv
<1>1. IInv /\ [Next]_vars => IInv'
  BY TypeStep, RolesStep, CapacityStep, BacklogStep, ReadableStep
     DEF IInv, Agreement, BuffersFit
<1>. QED
  BY InitInv, <1>1, PTL DEF Spec

\* Every variable keeps its type; the word never holds anything but the two
\* sentinels and the six publications.
THEOREM TypeCorrect == Spec => []TypeOK
BY Invariance, PTL DEF IInv

\* The private views of the two sides agree, and every buffer holds what its
\* role promises within its capacity.
THEOREM SidesAgree == Spec => []Agreement
BY Invariance, PTL DEF IInv

\* post() never copies into the buffer the consumer has accepted.
THEOREM NoOverlap == Spec => []NoSharedWrite
<1>1. IInv => NoSharedWrite
  <2>. SUFFICES ASSUME IInv PROVE reading \notin WrittenByProducer
    BY DEF NoSharedWrite
  <2>1. /\ output # staged /\ output # locked /\ staged # locked
        /\ output # Null /\ staged # Null /\ locked # Null
    <3>1. /\ output \in Buffers /\ staged \in Buffers /\ locked \in Buffers
          /\ RolesAgree
      BY DEF IInv, TypeOK, Agreement
    <3>. QED
      BY <3>1 DEF RolesAgree, Buffers, Null
  <2>2. CASE ppc = "prepare"
    <3>1. reading \in {Null, staged, locked}
      BY <2>2 DEF IInv, Agreement, RolesAgree, Settled, Fresh, Published, Accepted
    <3>. QED
      BY <2>1, <2>2, <3>1 DEF WrittenByProducer
  <2>3. CASE ppc = "extend"
    <3>1. reading \in {Null, output, locked}
      BY <2>3 DEF IInv, Agreement, RolesAgree, Extending, Published, Accepted
    <3>. QED
      BY <2>1, <2>3, <3>1 DEF WrittenByProducer
  <2>4. CASE ppc = "rebase"
    <3>1. reading \in {Null, staged}
      BY <2>4 DEF IInv, Agreement, RolesAgree, Rebasing, Obsolete
    <3>. QED
      BY <2>1, <2>4, <3>1 DEF WrittenByProducer
  <2>5. CASE ppc \notin {"prepare", "extend", "rebase"}
    BY <2>5 DEF WrittenByProducer
  <2>. QED
    BY <2>2, <2>3, <2>4, <2>5
<1>. QED
  BY Invariance, <1>1, PTL

\* posting_is_valid() and reading_is_valid() hold whenever their own side is
\* between two calls.
THEOREM ValidityHolds == Spec => []ValidityChecksHold
<1>1. IInv => ValidityChecksHold
  <2>. SUFFICES ASSUME IInv PROVE ValidityChecksHold
    OBVIOUS
  <2>. USE DEF IInv, Agreement, BuffersFit
  <2>1. CASE maxCapacity = 0
    BY <2>1 DEF ValidityChecksHold, posting_is_valid, reading_is_valid, CapacityInv
  <2>2. CASE maxCapacity # 0
    <3>1. ~allocationFailed => posting_is_valid
      <4>1. {output, staged, locked} = Buffers
        BY DEF TypeOK, RolesAgree, Buffers
      <4>. QED
        BY <2>2, <4>1 DEF posting_is_valid, CapacityInv, TypeOK
    <3>2. reading_is_valid
      BY <2>2, CapacityAssumption
         DEF reading_is_valid, CapacityInv, ReadableInv, TypeOK, Buffers, Null
    <3>. QED
      BY <3>1, <3>2 DEF ValidityChecksHold
  <2>. QED
    BY <2>1, <2>2
<1>. QED
  BY Invariance, <1>1, PTL

----------------------------------------------------------------------------
(* TQueue implements SpscStream: what is posted reaches the consumer once  *)
(* and in order, whichever way post() and read() interleave and whichever  *)
(* of post()'s reallocations fails.                                        *)

\* What post() has in hand: the next messages of the stream, and a discard that
\* was allowed.
InHand == ppc # "idle" =>
    /\ Len(src) <= MaxBatch
    /\ discard => allowDiscard
    /\ ppc # "extend" => src = [i \in 1 .. Len(src) |-> posted + i]

\* The stream has not begun before there are buffers, and until the first
\* publication there is no backlog.
Beginning ==
    /\ maxCapacity = 0 => posted = 0
    /\ stagedWord = DefaultWord => data[staged] = << >>

StreamInv == IInv /\ InHand /\ Beginning

----------------------------------------------------------------------------
(* The strengthened invariant *)

LEMMA StreamInit == Init => StreamInv
<1>1. Init => InHand /\ Beginning
  BY DEF Init, CanonicalEmpty, InHand, Beginning, Buffers
<1>. QED
  BY <1>1, InitInv DEF StreamInv

\* What the policy discards it was allowed to.
LEMMA DiscardAllowed ==
    ASSUME NEW count, NEW size, growth_and_discard_policy(count, size).accept
    PROVE  growth_and_discard_policy(count, size).discard => allowDiscard
BY DEF growth_and_discard_policy

LEMMA HandKept ==
    ASSUME StreamInv, UNCHANGED <<ppc, src, discard, posted, allowDiscard>>
    PROVE  InHand'
BY DEF StreamInv, InHand

LEMMA BeginningKept ==
    ASSUME StreamInv, ppc # "idle", maxCapacity' = maxCapacity,
           stagedWord' = DefaultWord => stagedWord = DefaultWord /\ data'[staged'] = data[staged]
    PROVE  Beginning'
BY DEF StreamInv, IInv, Agreement, BuffersFit, CapacityInv, Quiescent, Beginning

LEMMA SetUpStep ==
    ASSUME StreamInv, NEW cap, NEW maxCap, NEW allow, SetUp(cap, maxCap, allow),
           posted' = 0 \/ (maxCapacity = 0 /\ posted' = posted)
    PROVE  InHand' /\ Beginning'
<1>1. ppc' = "idle"
  BY DEF SetUp, Quiescent, posting
<1>2. posted' = 0
  BY DEF StreamInv, Beginning
<1>3. data'[staged'] = << >>
  BY DEF SetUp, Buffers
<1>. QED
  BY <1>1, <1>2, <1>3 DEF InHand, Beginning

LEMMA PostBeginStep ==
    ASSUME StreamInv, NEW count \in 1 .. MaxBatch, PostBegin(count)
    PROVE  InHand' /\ Beginning'
<1>1. /\ src' = [i \in 1 .. count |-> posted + i]
      /\ discard' => allowDiscard
      /\ UNCHANGED <<posted, allowDiscard, maxCapacity, data, staged, stagedWord>>
  BY DiscardAllowed DEF PostBegin, buffers, roles
<1>2. Len(src') = count
  <2>1. count \in Nat
    BY CapacityAssumption
  <2>. QED
    BY <1>1, <2>1, SMT
<1>3. InHand'
  BY <1>1, <1>2, CapacityAssumption DEF InHand
<1>4. Beginning'
  BY <1>1 DEF StreamInv, Beginning
<1>. QED
  BY <1>3, <1>4

\* The steps of post() after its decision.
LEMMA PostStep ==
    ASSUME StreamInv, PostContinues
    PROVE  InHand' /\ Beginning'
<1>. USE DEF StreamInv, IInv, Agreement
<1>0. /\ ppc # "idle" /\ maxCapacity' = maxCapacity /\ allowDiscard' = allowDiscard
  BY DEF PostContinues, PostPrepare, PostPrepareFails, PostPublish, PostExtend, PostExtendFails,
         PostRebase, PostRebaseFails, PostRepublish, config
<1>1. /\ output \in Buffers /\ staged \in Buffers /\ locked \in Buffers
      /\ output # staged /\ locked # staged
      /\ postingPhase \in {0, 1} /\ data \in [Buffers -> Seq(Nat)]
  BY DEF TypeOK, RolesAgree
<1>2. ASSUME ppc' = "idle" PROVE InHand'
  BY <1>2 DEF InHand
<1>3. CASE PostPrepare
  <2>1. InHand'
    BY <1>3 DEF PostPrepare, config, InHand
  <2>2. data'[staged'] = data[staged] /\ stagedWord' = stagedWord
    BY <1>1, <1>3 DEF PostPrepare, Appended, roles
  <2>. QED
    BY <1>0, <2>1, <2>2, BeginningKept
<1>4. CASE PostPublish
  <2>1. InHand'
    BY <1>4 DEF PostPublish, config, InHand
  <2>2. stagedWord' # DefaultWord
    BY <1>1, <1>4, WordDecodes DEF PostPublish
  <2>. QED
    BY <1>0, <2>1, <2>2, BeginningKept
<1>5. CASE PostExtend
  <2>1. stagedWord' # DefaultWord
    <3>1. Extending
      BY <1>5 DEF PostExtend, RolesAgree
    <3>. QED
      BY <1>1, <1>5, <3>1, WordDecodes
         DEF PostExtend, Extending, Published, Accepted, DefaultWord
  <2>. QED
    BY <1>0, <1>2, <1>5, <2>1, BeginningKept DEF PostExtend
<1>6. CASE PostPrepareFails \/ PostExtendFails \/ PostRebaseFails
  <2>1. ppc' = "idle" /\ UNCHANGED <<data, staged, stagedWord>>
    BY <1>6 DEF PostPrepareFails, PostExtendFails, PostRebaseFails, Poison, buffers, roles
  <2>. QED
    BY <1>0, <1>2, <2>1, BeginningKept
<1>7. CASE PostRebase
  <2>1. InHand'
    BY <1>7 DEF PostRebase, config, InHand
  <2>2. data'[staged'] = data[staged] /\ stagedWord' = stagedWord
    BY <1>1, <1>7 DEF PostRebase
  <2>. QED
    BY <1>0, <2>1, <2>2, BeginningKept
<1>8. CASE PostRepublish
  <2>1. stagedWord' # DefaultWord /\ ppc' = "idle"
    BY <1>1, <1>8, WordDecodes DEF PostRepublish
  <2>. QED
    BY <1>0, <1>2, <2>1, BeginningKept
<1>. QED
  BY <1>3, <1>4, <1>5, <1>6, <1>7, <1>8 DEF PostContinues

LEMMA ReadStep ==
    ASSUME StreamInv, Read \/ ReadContinues
    PROVE  InHand' /\ Beginning'
<1>1. /\ UNCHANGED <<producerLocal, maxCapacity, data, staged>>
      /\ stagedWord' \in {stagedWord, 0}
  BY DEF Read, ReadContinues, ReadBegin, ReadExchange, ReadCopy, producerLocal, config, buffers, roles
<1>. QED
  BY <1>1, HandKept DEF StreamInv, Beginning, producerLocal, posting, config, DefaultWord

LEMMA StreamStep == StreamInv /\ [Next]_vars => StreamInv'
<1>. SUFFICES ASSUME StreamInv, [Next]_vars PROVE StreamInv'
  OBVIOUS
<1>1. IInv'
  BY TypeStep, RolesStep, CapacityStep, BacklogStep, ReadableStep
     DEF StreamInv, IInv, Agreement, BuffersFit
<1>2. CASE InitialiseFixed \/ InitialiseGrowable \/ Deallocate
  BY <1>1, <1>2, SetUpStep DEF InitialiseFixed, InitialiseGrowable, Deallocate, StreamInv
<1>3. CASE Post
  BY <1>1, <1>3, PostBeginStep DEF Post, StreamInv
<1>4. CASE PostContinues
  BY <1>1, <1>4, PostStep DEF StreamInv
<1>5. CASE Read \/ ReadContinues
  BY <1>1, <1>5, ReadStep DEF StreamInv
<1>6. CASE UNCHANGED vars
  <2>1. InHand' /\ Beginning'
    BY <1>6, HandKept DEF vars, posting, config, buffers, roles, StreamInv, Beginning
  <2>. QED
    BY <1>1, <2>1 DEF StreamInv
<1>. QED
  BY <1>2, <1>3, <1>4, <1>5, <1>6 DEF Next

----------------------------------------------------------------------------
(* Refinement *)

LEMMA InitRefines == Init => Stream!Init
<1>. SUFFICES ASSUME Init PROVE Stream!Init
  OBVIOUS
<1>1. reading = Null /\ stagedWord = DefaultWord /\ posted = 0 /\ allowDiscard = FALSE
  BY DEF Init, CanonicalEmpty
<1>. QED
  BY <1>1, NoBufferWords DEF Stream!Init, Held, Pending, Accepts

\* Copies into buffers that neither wait nor are being read are no step of the
\* stream.
LEMMA CopyStutters ==
    ASSUME UNCHANGED <<consumer, stagedWord, posted, allowDiscard>>,
           reading # Null => data'[reading] = data[reading],
           Accepts(stagedWord) => data'[WordId(stagedWord) - 1] = data[WordId(stagedWord) - 1]
    PROVE  UNCHANGED Stream!svars
<1>1. Accepts(stagedWord)' = Accepts(stagedWord)
  BY DEF Accepts, consumer
<1>2. Held' = Held /\ Pending' = Pending
  BY <1>1 DEF Held, Pending, consumer
<1>. QED
  BY <1>2 DEF Stream!svars

\* Nothing waits in a word that names no buffer, or one of the other phase.
Unaccepted ==
    \/ stagedWord \in {0, DefaultWord}
    \/ \E b \in Buffers, phase \in {0, 1} : stagedWord = Word(b, phase) /\ phase # readingPhase

LEMMA NothingPending == Unaccepted => ~Accepts(stagedWord) /\ Pending = << >>
<1>. SUFFICES ASSUME Unaccepted PROVE ~Accepts(stagedWord) /\ Pending = << >>
  OBVIOUS
<1>1. ~Accepts(stagedWord)
  BY NoBufferWords, WordDecodes DEF Accepts, Unaccepted
<1>. QED
  BY <1>1 DEF Pending

\* What waits in a word of the phase expected.
LEMMA BufferPending ==
    \A b \in Buffers :
        readingPhase \in {0, 1} /\ stagedWord = Word(b, readingPhase)
            => Accepts(stagedWord) /\ WordId(stagedWord) - 1 = b /\ Pending = data[b]
<1>. SUFFICES ASSUME NEW b \in Buffers, readingPhase \in {0, 1}, stagedWord = Word(b, readingPhase)
              PROVE  Accepts(stagedWord) /\ WordId(stagedWord) - 1 = b /\ Pending = data[b]
  OBVIOUS
<1>1. WordId(stagedWord) = b + 1 /\ Accepts(stagedWord)
  BY WordDecodes DEF Accepts
<1>2. WordId(stagedWord) - 1 = b
  BY <1>1 DEF Buffers
<1>. QED
  BY <1>1, <1>2 DEF Pending

LEMMA SetUpRefines ==
    ASSUME StreamInv, NEW cap, NEW maxCap, NEW allow \in BOOLEAN, SetUp(cap, maxCap, allow),
           posted' = 0 \/ (maxCapacity = 0 /\ posted' = posted)
    PROVE  Stream!Next
<1>1. /\ allowDiscard' \in BOOLEAN /\ posted' = 0
      /\ reading' = Null /\ stagedWord' = DefaultWord
  BY DEF SetUp, StreamInv, Beginning
<1>2. (Unaccepted => ~Accepts(stagedWord) /\ Pending = << >>)'
  BY NothingPending, PTL
<1>3. Held' = << >> /\ Pending' = << >>
  BY <1>1, <1>2 DEF Unaccepted, Held
<1>. QED
  BY <1>1, <1>3 DEF Stream!Next, Stream!Reset

\* The next messages of the stream, as its own steps name them.
LEMMA SrcIsBatch ==
    ASSUME StreamInv, ppc \in {"publish", "republish"}
    PROVE  /\ Len(src) \in 1 .. MaxBatch
           /\ src = Stream!Batch(Len(src))
<1>1. Len(src) \in 1 .. capacity /\ capacity \in Nat
  BY DEF StreamInv, IInv, Agreement, BuffersFit, BacklogInv, TypeOK
<1>. QED
  BY <1>1, CapacityAssumption DEF StreamInv, InHand, Stream!Batch

\* The exchange that replaces a pending publication, or the first, posts; the
\* one that finds it consumed is not seen by the consumer.
LEMMA PublishRefines ==
    ASSUME StreamInv, PostPublish
    PROVE  [Stream!Next]_(Stream!svars)
<1>. USE DEF StreamInv, IInv, Agreement
<1>1. /\ ppc = "publish" /\ stagedWord' = Word(output, postingPhase)
      /\ UNCHANGED <<config, buffers, consumer, discard>>
      /\ posted' = IF stagedWord = 0 THEN posted ELSE posted + Len(src)
  BY DEF PostPublish, consumerLocal
<1>2. /\ output \in Buffers /\ staged \in Buffers
      /\ postingPhase \in {0, 1} /\ readingPhase \in {0, 1} /\ Settled
  BY <1>1 DEF TypeOK, RolesAgree
<1>3. Held' = Held
  BY <1>1 DEF Held, consumer, buffers
<1>4. (Unaccepted => ~Accepts(stagedWord) /\ Pending = << >>)'
  BY NothingPending, PTL
<1>5. (\A b \in Buffers :
          readingPhase \in {0, 1} /\ stagedWord = Word(b, readingPhase)
              => Accepts(stagedWord) /\ WordId(stagedWord) - 1 = b /\ Pending = data[b])'
  BY BufferPending, PTL
<1>6. CASE stagedWord = 0
  <2>1. postingPhase # readingPhase
    BY <1>2, <1>6, WordDecodes DEF Settled, Fresh, Published, Accepted, DefaultWord
  <2>2. Unaccepted /\ Unaccepted'
    BY <1>1, <1>2, <1>6, <2>1 DEF Unaccepted, consumer, Buffers
  <2>3. Pending = << >> /\ Pending' = << >>
    BY <1>4, <2>2, NothingPending
  <2>. QED
    BY <1>1, <1>3, <1>6, <2>3 DEF Stream!svars, config
<1>7. CASE stagedWord # 0
  <2>1. postingPhase = readingPhase /\ (stagedWord = DefaultWord \/ stagedWord = Word(staged, readingPhase))
    BY <1>2, <1>7 DEF Settled, Fresh, Published, Accepted
  <2>2. Pending = data[staged]
    <3>1. CASE stagedWord = DefaultWord
      BY <3>1, NothingPending DEF Unaccepted, Beginning
    <3>2. CASE stagedWord = Word(staged, readingPhase)
      BY <1>2, <3>2, BufferPending
    <3>. QED
      BY <2>1, <3>1, <3>2
  <2>3. Pending' = data[output]
    BY <1>1, <1>2, <1>5, <2>1 DEF consumer, buffers
  <2>4. data[output] = (IF discard THEN << >> ELSE data[staged]) \o src
    BY <1>1 DEF BuffersFit, BacklogInv
  <2>5. Len(src) \in 1 .. MaxBatch /\ src = Stream!Batch(Len(src)) /\ src \in Seq(Nat)
    BY <1>1, SrcIsBatch DEF TypeOK
  <2>6. CASE discard
    <3>1. Pending' = src
      BY <2>3, <2>4, <2>5, <2>6
    <3>2. allowDiscard
      BY <1>1, <2>6 DEF InHand
    <3>3. Stream!PostDiscarding
      BY <1>1, <1>3, <1>7, <2>5, <3>1, <3>2 DEF Stream!PostDiscarding, config
    <3>. QED
      BY <3>3 DEF Stream!Next
  <2>7. CASE ~discard
    <3>1. Pending' = Pending \o src
      BY <2>2, <2>3, <2>4, <2>7
    <3>2. Stream!Post
      BY <1>1, <1>3, <1>7, <2>5, <3>1 DEF Stream!Post, config
    <3>. QED
      BY <3>2 DEF Stream!Next
  <2>. QED
    BY <2>6, <2>7
<1>. QED
  BY <1>6, <1>7

\* The second exchange, with the new phase, posts.
LEMMA RepublishRefines ==
    ASSUME StreamInv, PostRepublish
    PROVE  Stream!Next
<1>. USE DEF StreamInv, IInv, Agreement
<1>1. /\ ppc = "republish" /\ stagedWord' = Word(locked, postingPhase)
      /\ posted' = posted + Len(src)
      /\ UNCHANGED <<config, buffers, consumer>>
  BY DEF PostRepublish, consumerLocal
<1>2. /\ output \in Buffers /\ locked \in Buffers
      /\ postingPhase \in {0, 1} /\ readingPhase = postingPhase
      /\ stagedWord \in {0, Word(output, Flipped(postingPhase))}
  BY <1>1 DEF TypeOK, RolesAgree, Republishing, Obsolete
<1>3. Pending = << >>
  <2>1. Flipped(postingPhase) \in {0, 1} /\ Flipped(postingPhase) # readingPhase
    BY <1>2 DEF Flipped
  <2>. QED
    BY <1>2, <2>1, NothingPending DEF Unaccepted
<1>4. Held' = Held
  BY <1>1 DEF Held, consumer, buffers
<1>5. (\A b \in Buffers :
          readingPhase \in {0, 1} /\ stagedWord = Word(b, readingPhase)
              => Accepts(stagedWord) /\ WordId(stagedWord) - 1 = b /\ Pending = data[b])'
  BY BufferPending, PTL
<1>6. Pending' = data[locked]
  BY <1>1, <1>2, <1>5 DEF consumer, buffers
<1>7. Pending' = << >> \o src /\ Len(src) \in 1 .. MaxBatch /\ src = Stream!Batch(Len(src))
  BY <1>1, <1>6, SrcIsBatch DEF BuffersFit, BacklogInv, TypeOK
<1>8. Stream!Post
  BY <1>1, <1>3, <1>4, <1>7 DEF Stream!Post, config
<1>. QED
  BY <1>8 DEF Stream!Next

\* post() copies into buffers the stream does not consist of.
LEMMA CopyRefines ==
    ASSUME StreamInv,
           PostPrepare \/ PostPrepareFails \/ PostExtend \/ PostExtendFails
             \/ PostRebase \/ PostRebaseFails
    PROVE  UNCHANGED Stream!svars
<1>. USE DEF StreamInv, IInv, Agreement
<1>1. UNCHANGED <<consumer, stagedWord, posted, allowDiscard>>
  BY DEF PostPrepare, PostPrepareFails, PostExtend, PostExtendFails, PostRebase,
         PostRebaseFails, config, consumerLocal
<1>2. /\ output \in Buffers /\ staged \in Buffers /\ locked \in Buffers
      /\ output # staged /\ output # locked /\ staged # locked
      /\ output # Null /\ staged # Null /\ locked # Null
      /\ postingPhase \in {0, 1} /\ readingPhase \in {0, 1} /\ data \in [Buffers -> Seq(Nat)]
  BY DEF TypeOK, RolesAgree, Buffers, Null
<1>3. CASE PostPrepareFails \/ PostExtendFails \/ PostRebaseFails
  <2>1. data' = data
    BY <1>3 DEF PostPrepareFails, PostExtendFails, PostRebaseFails, buffers
  <2>. QED
    BY <1>1, <2>1, CopyStutters
<1>4. CASE PostPrepare
  <2>1. Settled /\ \A b \in Buffers : b # output => data'[b] = data[b]
    BY <1>2, <1>4 DEF PostPrepare, Appended, RolesAgree
  <2>2. reading # Null => reading \in Buffers /\ reading # output
    BY <1>2, <2>1 DEF Settled, Fresh, Published, Accepted
  <2>3. Accepts(stagedWord) => WordId(stagedWord) - 1 = staged
    <3>1. \/ Unaccepted
          \/ stagedWord = Word(staged, readingPhase)
      BY <2>1 DEF Settled, Fresh, Published, Accepted, Unaccepted
    <3>. QED
      BY <1>2, <3>1, NothingPending, BufferPending
  <2>. QED
    BY <1>1, <1>2, <2>1, <2>2, <2>3, CopyStutters
<1>5. CASE PostExtend
  <2>1. Extending /\ \A b \in Buffers : b # staged => data'[b] = data[b]
    BY <1>2, <1>5 DEF PostExtend, Appended, RolesAgree
  <2>2. reading # Null => reading \in Buffers /\ reading # staged
    BY <1>2, <2>1 DEF Extending, Published, Accepted
  <2>3. Accepts(stagedWord) => WordId(stagedWord) - 1 = output
    <3>1. \/ Unaccepted
          \/ stagedWord = Word(output, readingPhase)
      BY <2>1 DEF Extending, Published, Accepted, Unaccepted
    <3>. QED
      BY <1>2, <3>1, NothingPending, BufferPending
  <2>. QED
    BY <1>1, <1>2, <2>1, <2>2, <2>3, CopyStutters
<1>6. CASE PostRebase
  <2>1. Rebasing /\ \A b \in Buffers : b = staged => data'[b] = data[b]
    BY <1>2, <1>6 DEF PostRebase, RolesAgree
  <2>2. reading # Null => reading = staged
    BY <2>1 DEF Rebasing, Obsolete
  <2>3. ~Accepts(stagedWord)
    BY <1>2, <2>1, NothingPending DEF Rebasing, Obsolete, Unaccepted
  <2>. QED
    BY <1>1, <1>2, <2>1, <2>2, <2>3, CopyStutters
<1>. QED
  BY <1>3, <1>4, <1>5, <1>6

\* The consumer's exchange takes over what waits, or swallows a word that
\* nothing waits in.
LEMMA ExchangeRefines ==
    ASSUME StreamInv, ReadExchange
    PROVE  [Stream!Next]_(Stream!svars)
<1>. USE DEF StreamInv, IInv, Agreement
<1>1. /\ cpc = "exchange" /\ stagedWord' = 0 /\ UNCHANGED <<data, posted, allowDiscard>>
  BY DEF ReadExchange, producerLocal, buffers, config
<1>2. reading = Null
  BY <1>1 DEF RolesAgree
<1>3. (Unaccepted => ~Accepts(stagedWord) /\ Pending = << >>)'
  BY NothingPending, PTL
<1>4. Pending' = << >> /\ Held = << >>
  BY <1>1, <1>2, <1>3 DEF Unaccepted, Held
<1>5. CASE Accepts(stagedWord)
  <2>1. reading' = WordId(stagedWord) - 1 /\ readIndex' = 0
    BY <1>5 DEF ReadExchange
  <2>2. WordId(stagedWord) - 1 \in Buffers
    BY <1>5 DEF Accepts, WordId, TypeOK, Buffers
  <2>3. data[WordId(stagedWord) - 1] \in Seq(Nat)
    BY <2>2 DEF TypeOK
  <2>4. Held' = data[WordId(stagedWord) - 1]
    <3>1. Held' = SubSeq(data[WordId(stagedWord) - 1], 1, Len(data[WordId(stagedWord) - 1]))
      BY <1>1, <2>1, <2>2 DEF Held, Buffers, Null
    <3>. QED
      BY <2>3, <3>1, SubSeqFull
  <2>5. Stream!Accept
    BY <1>1, <1>4, <1>5, <2>4 DEF Stream!Accept, Pending
  <2>. QED
    BY <2>5 DEF Stream!Next
<1>6. CASE ~Accepts(stagedWord)
  <2>1. Pending = << >> /\ Held' = Held
    BY <1>1, <1>6 DEF ReadExchange, Pending, Held, consumer
  <2>. QED
    BY <1>1, <1>4, <2>1 DEF Stream!svars
<1>. QED
  BY <1>5, <1>6

\* What is left of a sequence after n more of its elements.
LEMMA RestOfRest ==
    ASSUME NEW s \in Seq(Nat), NEW i \in Nat, i < Len(s), NEW n \in 1 .. Len(s) - i
    PROVE  /\ Len(SubSeq(s, i + 1, Len(s))) = Len(s) - i
           /\ SubSeq(SubSeq(s, i + 1, Len(s)), n + 1, Len(s) - i) = SubSeq(s, i + n + 1, Len(s))
<1>1. Len(s) \in Nat
  OBVIOUS
<1>2. /\ SubSeq(s, i + 1, Len(s)) \in Seq(Nat)
      /\ Len(SubSeq(s, i + 1, Len(s))) = Len(s) - i
  BY <1>1, SubSeqProperties
<1>3. CASE n < Len(s) - i
  <2>1. /\ i + 1 \in 1 .. Len(s) /\ Len(s) \in 1 .. Len(s)
        /\ n + 1 \in 1 .. Len(s) - (i + 1) + 1 /\ Len(s) - i \in 1 .. Len(s) - (i + 1) + 1
    BY <1>1, <1>3
  <2>2. SubSeq(SubSeq(s, i + 1, Len(s)), n + 1, Len(s) - i)
          = SubSeq(s, (i + 1) + (n + 1) - 1, (i + 1) + (Len(s) - i) - 1)
    BY <2>1, SubSeqOfSubSeq
  <2>3. (i + 1) + (n + 1) - 1 = i + n + 1 /\ (i + 1) + (Len(s) - i) - 1 = Len(s)
    BY <1>1
  <2>. QED
    BY <1>2, <2>2, <2>3
<1>4. CASE n = Len(s) - i
  <2>1. i + n + 1 > Len(s) /\ n + 1 > Len(s) - i
    BY <1>1, <1>4
  <2>2. SubSeq(s, i + n + 1, Len(s)) = << >>
    BY <1>1, <2>1, SubSeqEmpty
  <2>3. SubSeq(SubSeq(s, i + 1, Len(s)), n + 1, Len(s) - i) = << >>
    BY <1>1, <1>2, <2>1, SubSeqEmpty
  <2>. QED
    BY <1>2, <2>2, <2>3
<1>. QED
  BY <1>1, <1>3, <1>4

\* A read takes its messages off the front of what the consumer holds.
LEMMA CopyOutRefines ==
    ASSUME StreamInv, ReadCopy
    PROVE  [Stream!Next]_(Stream!svars)
<1>. USE DEF StreamInv, IInv, Agreement
<1>1. /\ cpc = "copy" /\ UNCHANGED <<data, posted, allowDiscard, stagedWord, readingPhase>>
  BY DEF ReadCopy, producerLocal, buffers, config
<1>2. reading # Null /\ reading \in Buffers /\ readIndex \in Nat /\ want \in Nat
  BY <1>1 DEF RolesAgree, TypeOK
<1>3. Pending' = Pending
  BY <1>1 DEF Pending, Accepts
<1>. DEFINE s == data[reading]
<1>4. s \in Seq(Nat) /\ Len(s) \in Nat /\ readIndex < Len(s)
  BY <1>2 DEF TypeOK, BuffersFit, ReadableInv
<1>5. Held = SubSeq(s, readIndex + 1, Len(s)) /\ current_readable_count = Len(s) - readIndex
  BY <1>2 DEF Held, current_readable_count
<1>6. CASE want = 0 \/ want > current_readable_count
  <2>1. Held' = Held
    BY <1>1, <1>6 DEF ReadCopy, Held
  <2>. QED
    BY <1>1, <1>3, <2>1 DEF Stream!svars
<1>7. CASE ~(want = 0 \/ want > current_readable_count)
  <2>1. want \in 1 .. Len(s) - readIndex
    BY <1>2, <1>4, <1>5, <1>7
  <2>2. /\ Len(Held) = Len(s) - readIndex
        /\ SubSeq(Held, want + 1, Len(Held)) = SubSeq(s, readIndex + want + 1, Len(s))
    BY <1>2, <1>4, <1>5, <2>1, RestOfRest
  <2>3. Held' = SubSeq(s, readIndex + want + 1, Len(s))
    <3>1. CASE readIndex + want = Len(s)
      <4>1. Held' = << >>
        BY <1>7, <3>1 DEF ReadCopy, Held
      <4>2. readIndex + want + 1 > Len(s)
        BY <1>2, <1>4, <3>1
      <4>. QED
        BY <1>2, <1>4, <4>1, <4>2, SubSeqEmpty
    <3>2. CASE readIndex + want # Len(s)
      BY <1>1, <1>2, <1>7, <3>2 DEF ReadCopy, Held
    <3>. QED
      BY <3>1, <3>2
  <2>4. Stream!Read
    BY <1>1, <1>3, <2>1, <2>2, <2>3 DEF Stream!Read
  <2>. QED
    BY <2>4 DEF Stream!Next
<1>. QED
  BY <1>6, <1>7

LEMMA StutterRefines ==
    ASSUME UNCHANGED <<consumer, stagedWord, posted, allowDiscard, data>>
    PROVE  UNCHANGED Stream!svars
BY CopyStutters

LEMMA StepRefines == StreamInv /\ [Next]_vars => [Stream!Next]_(Stream!svars)
<1>. SUFFICES ASSUME StreamInv, [Next]_vars PROVE [Stream!Next]_(Stream!svars)
  OBVIOUS
<1>1. CASE InitialiseFixed \/ InitialiseGrowable \/ Deallocate
  BY <1>1, SetUpRefines DEF InitialiseFixed, InitialiseGrowable, Deallocate
<1>2. CASE Post
  BY <1>2, StutterRefines DEF Post, PostBegin, config, buffers, consumerLocal
<1>3. CASE PostContinues
  BY <1>3, CopyRefines, PublishRefines, RepublishRefines DEF PostContinues
<1>4. CASE Read
  BY <1>4, StutterRefines DEF Read, ReadBegin, producerLocal, config, buffers
<1>5. CASE ReadContinues
  BY <1>5, ExchangeRefines, CopyOutRefines DEF ReadContinues
<1>6. CASE UNCHANGED vars
  BY <1>6, StutterRefines DEF vars, config, buffers
<1>. QED
  BY <1>1, <1>2, <1>3, <1>4, <1>5, <1>6 DEF Next

----------------------------------------------------------------------------

\* The triple buffer with its phase bit is a stream: every message that became
\* visible reaches the consumer once and in order, unless the transport was set
\* up to discard, and then what is dropped was never in the consumer's hands.
THEOREM QueueIsStream == Spec => ImplementsStream
<1>1. Spec => []StreamInv
  BY StreamInit, StreamStep, PTL DEF Spec
<1>. QED
  BY <1>1, InitRefines, StepRefines, PTL DEF Spec, ImplementsStream, Stream!Spec
=============================================================================
