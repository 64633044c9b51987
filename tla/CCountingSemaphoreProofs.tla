---------------------- MODULE CCountingSemaphoreProofs ----------------------
(***************************************************************************)
(* Proofs about CCountingSemaphore for any numbers of consumers and        *)
(* producers and any greatest count: no wake-up is lost.                   *)
(***************************************************************************)
EXTENDS CCountingSemaphore, FiniteSetTheorems, TLAPS

USE SemaphoreAssumption DEF Released

\* What the properties leave unsaid: where the controller's flag and the
\* history stand, and that only acquire() parks.
Unsaid ==
    /\ ctl \in {"waking", "woken"} => hasControl
    /\ count = Released => released = 0 /\ acquired = 0
    /\ \A c \in Consumers : cpc[c] = "asleep" => op[c] = "acquire"

IInv ==
    /\ TypeOK
    /\ SentinelMeansReleased
    /\ PermitsAccounted
    /\ NoLostWakeup
    /\ Unsaid

----------------------------------------------------------------------------
(* Counting consumers awake and wake-ups due *)

LEMMA Counts ==
    /\ IsFiniteSet(Looking) /\ Cardinality(Looking) \in Nat
    /\ IsFiniteSet(WakingOne) /\ Cardinality(WakingOne) \in Nat
<1>1. Looking \in SUBSET Consumers /\ WakingOne \in SUBSET Producers
  BY DEF Looking, WakingOne
<1>2. IsFiniteSet(Looking) /\ IsFiniteSet(WakingOne)
  BY <1>1, FS_Subset
<1>. QED
  BY <1>2, FS_CardinalityType

\* The bound survives a step that adds at most as many permits as it adds
\* consumers awake and wake-ups due.
LEMMA BoundKept ==
    ASSUME IInv, TypeOK', count # Released, count' # Released,
           Asleep' \subseteq Asleep, WakingAll \subseteq WakingAll',
           count' <= count,
           Looking \subseteq Looking', WakingOne \subseteq WakingOne',
           Looking' \in SUBSET Consumers, WakingOne' \in SUBSET Producers
    PROVE  NoLostWakeup'
<1>1. /\ IsFiniteSet(Looking') /\ IsFiniteSet(WakingOne')
  BY FS_Subset
<1>2. /\ Cardinality(Looking) <= Cardinality(Looking')
      /\ Cardinality(WakingOne) <= Cardinality(WakingOne')
  BY <1>1, FS_Subset
<1>3. /\ Cardinality(Looking') \in Nat /\ Cardinality(WakingOne') \in Nat
      /\ Cardinality(Looking) \in Nat /\ Cardinality(WakingOne) \in Nat
  BY <1>1, FS_CardinalityType, Counts
<1>4. count \in Nat /\ count' \in Nat
  BY DEF IInv, TypeOK
<1>. HIDE DEF Released
<1>. QED
  BY <1>2, <1>3, <1>4 DEF IInv, NoLostWakeup

\* After the sentinel nobody is parked unless the controller is about to wake.
LEMMA ReleasedKept ==
    ASSUME IInv, count = Released, count' = Released, ctl' = ctl,
           Asleep' \subseteq Asleep
    PROVE  NoLostWakeup'
BY DEF IInv, NoLostWakeup

\* A step that leaves the count and the controller alone, wakes or begins.
LEMMA StepKept ==
    ASSUME IInv, TypeOK', count' = count, ctl' = ctl,
           Asleep' \subseteq Asleep,
           count # Released => /\ Looking \subseteq Looking'
                               /\ WakingOne \subseteq WakingOne'
                               /\ WakingAll \subseteq WakingAll'
    PROVE  NoLostWakeup'
<1>1. Looking' \in SUBSET Consumers /\ WakingOne' \in SUBSET Producers
  BY DEF Looking, WakingOne
<1>2. count \in Nat
  BY DEF IInv, TypeOK
<1>3. CASE count = Released
  BY <1>3, ReleasedKept
<1>4. CASE count # Released
  BY <1>1, <1>2, <1>4, BoundKept
<1>. QED
  BY <1>3, <1>4

----------------------------------------------------------------------------

LEMMA InitInv == Init => IInv
<1>. SUFFICES ASSUME Init PROVE IInv
  OBVIOUS
<1>0. count \in 0 .. Released /\ 0 \in 0 .. Released
  BY DEF Init
<1>1. TypeOK
  <2>. HIDE DEF Released
  <2>. QED
    BY <1>0 DEF Init, TypeOK
<1>2. Asleep = {}
  BY DEF Init, Asleep
<1>. QED
  BY <1>1, <1>2 DEF Init, IInv, SentinelMeansReleased, PermitsAccounted, NoLostWakeup, Unsaid

LEMMA ControlStep ==
    ASSUME IInv, Control \/ ControlTaken \/ ControlReleased
    PROVE  IInv'
<1>0. count' \in 0 .. Released /\ released' \in Nat /\ acquired' \in Nat
  BY DEF IInv, TypeOK, Control, acquire_control, release_control, ControlTaken, ControlReleased
<1>a. hasControl' \in BOOLEAN
  BY DEF IInv, TypeOK, Control, acquire_control, release_control, ControlTaken, ControlReleased
<1>b. ctl' \in {"idle", "taking", "waking", "woken"}
  BY DEF IInv, TypeOK, Control, acquire_control, release_control, ControlTaken, ControlReleased
<1>c. UNCHANGED <<cpc, op, seen, ppc, n, pseen>>
  BY DEF Control, acquire_control, release_control, ControlTaken, ControlReleased,
         consumerVars, producerVars
<1>1. TypeOK'
  <2>. HIDE DEF Released
  <2>. QED
    BY <1>0, <1>a, <1>b, <1>c DEF IInv, TypeOK
<1>2. Unsaid' /\ PermitsAccounted'
  BY DEF IInv, TypeOK, Unsaid, PermitsAccounted, Control, acquire_control, release_control,
         ControlTaken, ControlReleased, consumerVars, producerVars
<1>3. SentinelMeansReleased'
  BY DEF IInv, TypeOK, Unsaid, SentinelMeansReleased, Control, acquire_control,
         release_control, ControlTaken, ControlReleased, consumerVars, producerVars
<1>4. /\ Asleep' = Asleep /\ Looking' = Looking
      /\ WakingOne' = WakingOne /\ WakingAll' = WakingAll
  BY DEF Asleep, Looking, WakingOne, WakingAll, Control, acquire_control, release_control,
         ControlTaken, ControlReleased, consumerVars, producerVars
<1>5. ASSUME acquire_control PROVE NoLostWakeup'
  BY <1>4, <1>5, Counts DEF NoLostWakeup, acquire_control
<1>6. ASSUME release_control PROVE NoLostWakeup'
  BY <1>6 DEF NoLostWakeup, release_control
<1>7. ASSUME ControlTaken PROVE NoLostWakeup'
  <2>1. count # Released /\ count' = count
    BY <1>7 DEF IInv, SentinelMeansReleased, ControlTaken
  <2>. QED
    BY <1>4, <2>1 DEF IInv, NoLostWakeup
<1>8. ASSUME ControlReleased PROVE NoLostWakeup'
  <2>1. count = Released /\ count' = count /\ ctl = "woken"
    BY <1>8 DEF IInv, SentinelMeansReleased, Unsaid, ControlReleased
  <2>. QED
    BY <1>4, <2>1 DEF IInv, NoLostWakeup
<1>9. NoLostWakeup'
  BY <1>5, <1>6, <1>7, <1>8 DEF Control
<1>. QED
  BY <1>1, <1>2, <1>3, <1>9 DEF IInv

LEMMA ReleaseControlWakesStep == IInv /\ ReleaseControlWakes => IInv'
<1>. SUFFICES ASSUME IInv, ReleaseControlWakes PROVE IInv'
  OBVIOUS
<1>1. TypeOK' /\ Unsaid' /\ SentinelMeansReleased' /\ PermitsAccounted'
  BY DEF IInv, TypeOK, Unsaid, SentinelMeansReleased, PermitsAccounted,
         ReleaseControlWakes, Woken, producerVars
<1>2. Asleep' = {}
  BY DEF IInv, TypeOK, ReleaseControlWakes, Woken, Freed, Asleep
<1>. QED
  BY <1>1, <1>2 DEF IInv, NoLostWakeup

\* The steps of a consumer that take nothing and park nobody.
LEMMA ConsumerStep ==
    ASSUME IInv, NEW c \in Consumers,
           \/ acquire(c) \/ try_acquire(c) \/ Load(c)
           \/ ReturnsFalse(c) \/ WakesSpuriously(c)
    PROVE  IInv'
<1>1. TypeOK'
  BY DEF IInv, TypeOK, acquire, try_acquire, Begin, Load, ReturnsFalse, Returns,
         WakesSpuriously, producerVars
<1>2. Unsaid' /\ SentinelMeansReleased' /\ PermitsAccounted'
  BY DEF IInv, TypeOK, Unsaid, SentinelMeansReleased, PermitsAccounted, acquire, try_acquire,
         Begin, Load, ReturnsFalse, Returns, WakesSpuriously, producerVars
<1>3. count' = count /\ ctl' = ctl /\ WakingOne' = WakingOne /\ WakingAll' = WakingAll
  BY DEF WakingOne, WakingAll, acquire, try_acquire, Begin, Load, ReturnsFalse, Returns,
         WakesSpuriously, producerVars
<1>4. Asleep' \subseteq Asleep
  BY DEF IInv, TypeOK, Asleep, acquire, try_acquire, Begin, Load, ReturnsFalse, Returns,
         WakesSpuriously
<1>5. ASSUME count # Released PROVE Looking \subseteq Looking'
  BY <1>5 DEF IInv, TypeOK, Looking, acquire, try_acquire, Begin, Load, ReturnsFalse, Returns,
         WakesSpuriously
<1>6. NoLostWakeup'
  BY <1>1, <1>3, <1>4, <1>5, StepKept
<1>. QED
  BY <1>1, <1>2, <1>6 DEF IInv

LEMMA WaitStep ==
    ASSUME IInv, NEW c \in Consumers, Wait(c)
    PROVE  IInv'
<1>1. TypeOK' /\ Unsaid' /\ SentinelMeansReleased' /\ PermitsAccounted'
  BY DEF IInv, TypeOK, Unsaid, SentinelMeansReleased, PermitsAccounted, Wait, producerVars
<1>2. /\ count' = count /\ ctl' = ctl
      /\ WakingOne' = WakingOne /\ WakingAll' = WakingAll
  BY DEF WakingOne, WakingAll, Wait, producerVars
<1>3. CASE Parks
  <2>1. count' = 0
    BY <1>2, <1>3 DEF Parks
  <2>2. Looking' \in SUBSET Consumers /\ WakingOne' \in SUBSET Producers
    BY DEF Looking, WakingOne
  <2>3. Cardinality(Looking') \in Nat /\ Cardinality(WakingOne') \in Nat
    BY <2>2, FS_Subset, FS_CardinalityType
  <2>4. NoLostWakeup'
    BY <2>1, <2>3 DEF NoLostWakeup
  <2>. QED
    BY <1>1, <2>4 DEF IInv
<1>4. CASE ~Parks
  <2>1. Asleep' \subseteq Asleep /\ Looking \subseteq Looking'
    BY <1>4 DEF IInv, TypeOK, Asleep, Looking, Wait
  <2>2. NoLostWakeup'
    BY <1>1, <1>2, <2>1, StepKept
  <2>. QED
    BY <1>1, <2>2 DEF IInv
<1>. QED
  BY <1>3, <1>4

LEMMA TakeStep ==
    ASSUME IInv, NEW c \in Consumers, Take(c)
    PROVE  IInv'
<1>1. TypeOK'
  BY DEF IInv, TypeOK, Take, Exchanges, Returns, producerVars
<1>2. Unsaid' /\ SentinelMeansReleased' /\ PermitsAccounted'
  BY DEF IInv, TypeOK, Unsaid, SentinelMeansReleased, PermitsAccounted, Take, Exchanges,
         Returns, producerVars
<1>3. ctl' = ctl /\ WakingOne' = WakingOne /\ WakingAll' = WakingAll
  BY DEF WakingOne, WakingAll, Take, producerVars
<1>4. Asleep' \subseteq Asleep
  BY DEF IInv, TypeOK, Asleep, Take, Returns
<1>5. CASE Exchanges(seen[c])
  <2>1. /\ count \in Nat /\ count # Released /\ count' = count - 1 /\ count' # Released
    BY <1>5 DEF IInv, TypeOK, Take, Exchanges
  <2>2. Looking' = Looking \ {c}
    BY <1>5 DEF IInv, TypeOK, Looking, Take, Returns
  <2>3. /\ Cardinality(Looking') >= Cardinality(Looking) - 1
        /\ Cardinality(Looking') \in Nat
    BY <2>2, Counts, FS_RemoveElement, FS_CardinalityType
  <2>4. NoLostWakeup'
    <3>. SUFFICES ASSUME Asleep' # {}, WakingAll' = {}
                  PROVE  count' <= Cardinality(Looking') + Cardinality(WakingOne')
      BY <2>1 DEF NoLostWakeup
    <3>1. count <= Cardinality(Looking) + Cardinality(WakingOne)
      BY <1>3, <1>4, <2>1 DEF IInv, NoLostWakeup
    <3>. QED
      BY <1>3, <2>1, <2>3, <3>1, Counts
  <2>. QED
    BY <1>1, <1>2, <2>4 DEF IInv
<1>6. CASE ~Exchanges(seen[c])
  <2>1. count' = count
    BY <1>6 DEF Take
  <2>2. ASSUME count # Released PROVE Looking \subseteq Looking'
    BY <1>6, <2>2 DEF IInv, TypeOK, Looking, Take
  <2>3. NoLostWakeup'
    BY <1>1, <1>3, <1>4, <2>1, <2>2, StepKept
  <2>. QED
    BY <1>1, <1>2, <2>3 DEF IInv
<1>. QED
  BY <1>5, <1>6

\* The steps of a producer that neither add a permit nor wake.
LEMMA ProducerStep ==
    ASSUME IInv, NEW p \in Producers,
           Release(p) \/ ReleaseLoads(p) \/ ReleaseFails(p)
    PROVE  IInv'
<1>1. TypeOK'
  BY DEF IInv, TypeOK, Release, release, ReleaseLoads, ReleaseFails, ReleaseReturns, consumerVars
<1>2. Unsaid' /\ SentinelMeansReleased' /\ PermitsAccounted'
  BY DEF IInv, TypeOK, Unsaid, SentinelMeansReleased, PermitsAccounted, Release, release,
         ReleaseLoads, ReleaseFails, ReleaseReturns, consumerVars
<1>3. count' = count /\ ctl' = ctl /\ Asleep' = Asleep /\ Looking' = Looking
  BY DEF Asleep, Looking, Release, release, ReleaseLoads, ReleaseFails, ReleaseReturns, consumerVars
<1>4. WakingOne \subseteq WakingOne' /\ WakingAll \subseteq WakingAll'
  BY DEF IInv, TypeOK, WakingOne, WakingAll, Release, release, ReleaseLoads, ReleaseFails,
         ReleaseReturns
<1>5. NoLostWakeup'
  BY <1>1, <1>3, <1>4, StepKept
<1>. QED
  BY <1>1, <1>2, <1>5 DEF IInv

LEMMA GiveStep ==
    ASSUME IInv, NEW p \in Producers, Give(p)
    PROVE  IInv'
<1>1. TypeOK'
  BY DEF IInv, TypeOK, Give, Exceeds, Exchanges, consumerVars
<1>2. Unsaid' /\ SentinelMeansReleased' /\ PermitsAccounted'
  BY DEF IInv, TypeOK, Unsaid, SentinelMeansReleased, PermitsAccounted, Give, Exceeds,
         Exchanges, consumerVars
<1>3. ctl' = ctl /\ Asleep' = Asleep /\ Looking' = Looking
  BY DEF Asleep, Looking, Give, consumerVars
<1>4. CASE Exchanges(pseen[p])
  <2>1. /\ count \in Nat /\ n[p] \in Nat /\ count # Released
        /\ count' = count + n[p] /\ count' # Released
    BY <1>4 DEF IInv, TypeOK, Give, Exceeds, Exchanges
  <2>2. CASE n[p] = 1
    <3>1. WakingOne' = WakingOne \cup {p} /\ p \notin WakingOne /\ WakingAll' = WakingAll
      BY <1>4, <2>2 DEF IInv, TypeOK, WakingOne, WakingAll, Give
    <3>2. Cardinality(WakingOne') = Cardinality(WakingOne) + 1
      BY <3>1, Counts, FS_AddElement
    <3>3. Asleep # {} => WakingAll # {} \/ count <= Cardinality(Looking) + Cardinality(WakingOne)
      BY <2>1 DEF IInv, NoLostWakeup
    <3>4. NoLostWakeup'
      BY <1>3, <2>1, <2>2, <3>1, <3>2, <3>3, Counts DEF NoLostWakeup
    <3>. QED
      BY <1>1, <1>2, <3>4 DEF IInv
  <2>3. CASE n[p] # 1
    <3>1. p \in WakingAll'
      BY <1>4, <2>3 DEF IInv, TypeOK, WakingAll, Give
    <3>2. NoLostWakeup'
      BY <2>1, <3>1 DEF NoLostWakeup
    <3>. QED
      BY <1>1, <1>2, <3>2 DEF IInv
  <2>. QED
    BY <2>2, <2>3
<1>5. CASE ~Exchanges(pseen[p])
  <2>1. count' = count /\ WakingOne' = WakingOne /\ WakingAll' = WakingAll
    BY <1>5 DEF WakingOne, WakingAll, Give
  <2>2. NoLostWakeup'
    BY <1>1, <1>3, <2>1, StepKept
  <2>. QED
    BY <1>1, <1>2, <2>2 DEF IInv
<1>. QED
  BY <1>4, <1>5

LEMMA WakeStep ==
    ASSUME IInv, NEW p \in Producers, Wake(p)
    PROVE  IInv'
<1>1. TypeOK'
  BY DEF IInv, TypeOK, Wake, Woken, WakesAll, ReleaseReturns
<1>2. Unsaid' /\ SentinelMeansReleased' /\ PermitsAccounted'
  BY DEF IInv, TypeOK, Unsaid, SentinelMeansReleased, PermitsAccounted, Wake, Woken, WakesAll,
         ReleaseReturns
<1>3. count' = count /\ ctl' = ctl
  BY DEF Wake
<1>4. CASE WakesAll(n[p]) \/ Asleep = {}
  <2>1. Asleep' = {}
    BY <1>4 DEF IInv, TypeOK, Asleep, Wake, Woken
  <2>. QED
    BY <1>1, <1>2, <2>1 DEF IInv, NoLostWakeup
<1>5. CASE ~(WakesAll(n[p]) \/ Asleep = {})
  <2>1. PICK c \in Asleep : cpc' = Woken({c})
    BY <1>5 DEF Wake
  <2>2. p \in WakingOne /\ WakingOne' = WakingOne \ {p} /\ WakingAll' = WakingAll
    BY <1>5 DEF IInv, TypeOK, WakingOne, WakingAll, WakesAll, Wake, ReleaseReturns
  <2>3. c \notin Looking /\ Looking' = Looking \cup {c}
    BY <2>1 DEF IInv, TypeOK, Unsaid, Looking, Asleep, Woken, Wake
  <2>4. /\ Cardinality(WakingOne') = Cardinality(WakingOne) - 1
        /\ Cardinality(Looking') = Cardinality(Looking) + 1
    BY <2>2, <2>3, Counts, FS_AddElement, FS_RemoveElement
  <2>5. Asleep' \subseteq Asleep
    BY <2>1 DEF IInv, TypeOK, Asleep, Woken
  <2>6. CASE count = Released
    BY <1>1, <1>2, <1>3, <2>5, <2>6, ReleasedKept DEF IInv
  <2>7. CASE count # Released
    <3>1. Asleep # {} => WakingAll # {} \/ count <= Cardinality(Looking) + Cardinality(WakingOne)
      BY <2>7 DEF IInv, NoLostWakeup
    <3>2. Cardinality(Looking') + Cardinality(WakingOne') = Cardinality(Looking) + Cardinality(WakingOne)
      BY <2>4, Counts
    <3>3. NoLostWakeup'
      BY <1>3, <2>1, <2>2, <2>7, <3>1, <3>2 DEF NoLostWakeup
    <3>. QED
      BY <1>1, <1>2, <3>3 DEF IInv
  <2>. QED
    BY <2>6, <2>7
<1>. QED
  BY <1>4, <1>5

LEMMA Step == IInv /\ [Next]_vars => IInv'
<1>. SUFFICES ASSUME IInv, [Next]_vars PROVE IInv'
  OBVIOUS
<1>1. CASE UNCHANGED vars
  BY <1>1 DEF vars, consumerVars, producerVars, IInv, TypeOK, SentinelMeansReleased,
     PermitsAccounted, NoLostWakeup, Unsaid, Asleep, Looking, WakingOne, WakingAll
<1>2. CASE Control \/ ControlContinues
  BY <1>2, ControlStep, ReleaseControlWakesStep DEF ControlContinues
<1>3. ASSUME NEW c \in Consumers, Acquire(c) \/ AcquireContinues(c) \/ WakesSpuriously(c)
      PROVE  IInv'
  BY <1>3, ConsumerStep, WaitStep, TakeStep DEF Acquire, AcquireContinues
<1>4. ASSUME NEW p \in Producers, Release(p) \/ ReleaseContinues(p)
      PROVE  IInv'
  BY <1>4, ProducerStep, GiveStep, WakeStep DEF ReleaseContinues
<1>. QED
  BY <1>1, <1>2, <1>3, <1>4 DEF Next

LEMMA Invariance == Spec => []IInv
BY InitInv, Step, PTL DEF Spec

\* Every variable keeps its type: the count never passes the sentinel.
THEOREM TypeCorrect == Spec => []TypeOK
BY Invariance, PTL DEF IInv

\* Releases never add up to the sentinel.
THEOREM SentinelTold == Spec => []SentinelMeansReleased
BY Invariance, PTL DEF IInv

\* No permit is lost and none is taken twice.
THEOREM PermitsKept == Spec => []PermitsAccounted
BY Invariance, PTL DEF IInv

\* No consumer is left parked beside a permit or after control was released.
THEOREM WakeupsKept == Spec => []NoLostWakeup
BY Invariance, PTL DEF IInv
=============================================================================
