---------------------------- MODULE LibraryProofs ---------------------------
(***************************************************************************)
(* Theorems about containers of the library.  TOwning, for every capacity  *)
(* and number of objects: an object has one owner, or was destroyed once.  *)
(* TUnorderedSlots, for every limit and set of payloads: the links of the  *)
(* metadata spell two sequences of slots, the component implements         *)
(* SlotLists with them, passes its own integrity check, and its queries    *)
(* agree with each other.  TUnorderedCollection, for every size of a       *)
(* buffer besides: exactly the loose slots have an object, the one they    *)
(* were acquired for, at an address of its own, and the slots behave as    *)
(* they do alone, though an acquisition may be taken back.                 *)
(*                                                                         *)
(* The lists are recursive functions that follow links, the capacities of  *)
(* a directory one that doubles.  What they compute is found without       *)
(* induction: of the places at which a traversal and the sequence differ,  *)
(* there would be a least one.                                             *)
(***************************************************************************)
EXTENDS TOwning, TUnorderedCollection, TLAPS, FiniteSetTheorems, SequenceTheorems

----------------------------------------------------------------------------
(* The ring of owners: each object has one owner and is destroyed once at most *)

\* Around a ring of c slots once at most.
LEMMA Wrap ==
    ASSUME NEW c \in Nat \ {0}, NEW x \in 0 .. 2 * c - 1
    PROVE  x % c = IF x < c THEN x ELSE x - c
<1>1. CASE x < c
  BY <1>1
<1>2. CASE x >= c
  <2>1. x = 1 * c + (x - c) /\ x - c \in 0 .. c - 1
    BY <1>2
  <2>. QED
    BY <1>2, <2>1
<1>. QED
  BY <1>1, <1>2

\* The index after i.
LEMMA WrapNext ==
    ASSUME NEW c \in Nat \ {0}, NEW i \in 0 .. c - 1
    PROVE  /\ (i + 1) % c = IF i + 1 < c THEN i + 1 ELSE i + 1 - c
           /\ (i + 1) % c \in 0 .. c - 1
<1>. DEFINE x == i + 1
<1>1. x \in 0 .. 2 * c - 1
  OBVIOUS
<1>2. x % c = IF x < c THEN x ELSE x - c
  BY <1>1, Wrap
<1>. QED
  BY <1>1, <1>2

\* The slots that hold an object, and how far a slot is ahead of the reader.
Holding(o) == {s \in DOMAIN ring : ring[s] = o}
Ahead(s) == (s + capacity - readIndex) % capacity

\* Where each part of the ring may be.
OwningTypeOK ==
    /\ capacity \in Nat
    /\ destroyed \in Seq(Nat)
    /\ ring \in [0 .. capacity - 1 -> 0 .. Len(destroyed)]
    /\ readIndex \in Nat /\ writeIndex \in Nat
    /\ capacity # 0 => readIndex < capacity
    /\ occupied \in Nat
    /\ ppc \in {"idle", "move", "commit"} /\ cpc \in {"idle", "move", "commit"}
    /\ offered \in 0 .. Len(destroyed) /\ fetched \in 0 .. Len(destroyed)
    /\ sent \in Seq(1 .. Len(destroyed))

\* The count against what was sent: each side has taken its step in the slots
\* before it says so.
CountAgrees ==
    /\ Len(sent) = occupied + (IF ppc = "commit" THEN 1 ELSE 0)
                            - (IF cpc = "commit" THEN 1 ELSE 0)
    /\ Len(sent) <= capacity /\ occupied <= capacity
    /\ ppc # "idle" => occupied < capacity
    /\ ppc = "move" => offered # Nothing
    /\ cpc # "idle" => occupied > 0
    /\ IF capacity = 0 THEN readIndex = 0 /\ writeIndex = 0
       ELSE writeIndex = readIndex + Len(sent) - IF readIndex + Len(sent) < capacity THEN 0 ELSE capacity

\* An object that was made is in one place, or was destroyed once.
OneOwner ==
    \A o \in Made :
        destroyed[o] + (IF offered = o THEN 1 ELSE 0) + (IF fetched = o THEN 1 ELSE 0)
          + Cardinality(Holding(o)) = 1

\* The slots from the reader on hold what was sent, and no other slot holds anything.
InOrder ==
    \A s \in DOMAIN ring :
        ring[s] = IF Ahead(s) < Len(sent) THEN sent[Ahead(s) + 1] ELSE Nothing

\* The inductive invariant.
OwningInv == OwningTypeOK /\ CountAgrees /\ OneOwner /\ InOrder

\* How far around the ring a slot is.
LEMMA AheadIs ==
    ASSUME capacity \in Nat \ {0}, readIndex \in 0 .. capacity - 1, NEW s \in 0 .. capacity - 1
    PROVE  /\ Ahead(s) = IF s >= readIndex THEN s - readIndex ELSE s + capacity - readIndex
           /\ Ahead(s) \in 0 .. capacity - 1
<1>. DEFINE x == s + capacity - readIndex
<1>1. x \in 0 .. 2 * capacity - 1 /\ (x < capacity <=> s < readIndex)
  OBVIOUS
<1>2. x % capacity = IF x < capacity THEN x ELSE x - capacity
  BY <1>1, Wrap
<1>. QED
  BY <1>1, <1>2 DEF Ahead

\* Where the writer is.
LEMMA WriterIs ==
    ASSUME OwningTypeOK, CountAgrees, capacity # 0
    PROVE  /\ readIndex \in 0 .. capacity - 1 /\ writeIndex \in 0 .. capacity - 1
           /\ writeIndex = IF readIndex + Len(sent) < capacity THEN readIndex + Len(sent)
                           ELSE readIndex + Len(sent) - capacity
           /\ Len(sent) < capacity => Ahead(writeIndex) = Len(sent)
<1>1. Len(sent) \in Nat /\ capacity \in Nat \ {0} /\ readIndex \in 0 .. capacity - 1
  BY DEF OwningTypeOK
<1>2. readIndex + Len(sent) \in 0 .. 2 * capacity - 1
  BY <1>1 DEF CountAgrees
<1>3. writeIndex = IF readIndex + Len(sent) < capacity THEN readIndex + Len(sent)
                   ELSE readIndex + Len(sent) - capacity
  BY <1>1, <1>2 DEF CountAgrees
<1>4. writeIndex \in 0 .. capacity - 1
  BY <1>1, <1>2, <1>3
<1>5. Ahead(writeIndex) = IF writeIndex >= readIndex THEN writeIndex - readIndex
                          ELSE writeIndex + capacity - readIndex
  BY <1>1, <1>4, AheadIs
<1>6. Len(sent) < capacity => Ahead(writeIndex) = Len(sent)
  BY <1>1, <1>3, <1>5
<1>. QED
  BY <1>1, <1>3, <1>4, <1>6

\* The slots that hold an object are finitely many, and differ where the ring does.
LEMMA HoldingFacts ==
    ASSUME NEW n \in Nat, DOMAIN ring = 0 .. n - 1, NEW o
    PROVE  /\ IsFiniteSet(Holding(o)) /\ Cardinality(Holding(o)) \in Nat
           /\ Cardinality(Holding(o)) = 0 <=> \A s \in DOMAIN ring : ring[s] # o
<1>1. IsFiniteSet(DOMAIN ring)
  BY FS_Interval
<1>2. Holding(o) \in SUBSET DOMAIN ring
  BY DEF Holding
<1>3. IsFiniteSet(Holding(o)) /\ Cardinality(Holding(o)) \in Nat
  BY <1>1, <1>2, FS_Subset, FS_CardinalityType
<1>4. Cardinality(Holding(o)) = 0 <=> Holding(o) = {}
  BY <1>3, FS_EmptySet
<1>. QED
  BY <1>3, <1>4 DEF Holding

\* An object is destroyed once more, or not.
LEMMA DestroyedFacts ==
    ASSUME destroyed \in Seq(Nat), NEW objects
    PROVE  /\ Destroyed(objects) \in Seq(Nat) /\ Len(Destroyed(objects)) = Len(destroyed)
           /\ \A o \in Made :
                 Destroyed(objects)[o] = destroyed[o] + IF o \in objects THEN 1 ELSE 0
           /\ Made = 1 .. Len(destroyed)
BY DEF Destroyed, Made

\* Nothing is there at first.
LEMMA OwningInitInv == OwningInit => OwningInv
<1>. SUFFICES ASSUME OwningInit PROVE OwningInv
  OBVIOUS
<1>1. << >> \in Seq(Nat) /\ << >> \in Seq(1 .. 0) /\ Len(<< >>) = 0 /\ Made = {}
  BY DEF OwningInit, Made
<1>. QED
  BY <1>1 DEF OwningInit, OwningInv, OwningTypeOK, CountAgrees, OneOwner, InOrder, Nothing

\* deallocate() and initialise() destroy what the slots held, and no more.
LEMMA EmptiedStep ==
    ASSUME OwningInv, NEW cap \in Nat, Emptied(cap)
    PROVE  OwningInv'
<1>. USE DEF OwningInv
<1>1. DOMAIN ring = 0 .. capacity - 1 /\ capacity \in Nat
  BY DEF OwningTypeOK
<1>2. /\ capacity' = cap /\ ring' = [s \in 0 .. cap - 1 |-> Nothing]
      /\ readIndex' = 0 /\ writeIndex' = 0 /\ occupied' = 0 /\ sent' = << >>
      /\ UNCHANGED <<ppc, offered, cpc, fetched>> /\ ppc = "idle" /\ cpc = "idle"
  BY DEF Emptied, sides, Quiescent
<1>. DEFINE objects == {ring[s] : s \in DOMAIN ring}
<1>3. destroyed' = Destroyed(objects)
  BY DEF Emptied
<1>. HIDE DEF objects
<1>4. /\ destroyed' \in Seq(Nat) /\ Len(destroyed') = Len(destroyed)
      /\ \A o \in Made : destroyed'[o] = destroyed[o] + IF o \in objects THEN 1 ELSE 0
      /\ Made' = Made /\ Made = 1 .. Len(destroyed)
  <2>1. destroyed \in Seq(Nat)
    BY DEF OwningTypeOK
  <2>2. Made' = DOMAIN destroyed'
    BY DEF Made
  <2>. QED
    BY <1>3, <2>1, <2>2, DestroyedFacts
<1>5. << >> \in Seq(1 .. Len(destroyed)) /\ Len(<< >>) = 0
  OBVIOUS
<1>6. OwningTypeOK'
  BY <1>2, <1>4, <1>5 DEF OwningTypeOK, Nothing
<1>7. CountAgrees'
  BY <1>2, <1>5 DEF CountAgrees
<1>8. OneOwner'
  <2>. SUFFICES ASSUME NEW o \in Made
       PROVE  destroyed'[o] + (IF offered = o THEN 1 ELSE 0) + (IF fetched = o THEN 1 ELSE 0)
                + Cardinality(Holding(o)') = 1
    BY <1>2, <1>4 DEF OneOwner
  <2>1. o # Nothing /\ destroyed[o] \in Nat
    BY <1>4 DEF Nothing, OwningTypeOK
  <2>2. Holding(o)' = {}
    BY <1>2, <2>1 DEF Holding
  <2>3. Cardinality(Holding(o)') = 0
    BY <2>2, FS_EmptySet
  <2>4. /\ Cardinality(Holding(o)) \in Nat
        /\ Cardinality(Holding(o)) = 0 <=> o \notin objects
    BY <1>1, HoldingFacts DEF objects
  <2>5. destroyed[o] + (IF offered = o THEN 1 ELSE 0) + (IF fetched = o THEN 1 ELSE 0)
          + Cardinality(Holding(o)) = 1
    BY DEF OneOwner
  <2>. HIDE DEF OwningInv
  <2>. QED
    BY <1>4, <2>1, <2>3, <2>4, <2>5
<1>9. InOrder'
  BY <1>2, <1>5 DEF InOrder
<1>. QED
  BY <1>6, <1>7, <1>8, <1>9

\* initialise() destroys what an earlier ring held.
LEMMA InitialiseStep == OwningInv /\ initialise => OwningInv'
<1>. SUFFICES ASSUME OwningInv, initialise PROVE OwningInv'
  OBVIOUS
<1>1. PICK c \in RingCapacities : Emptied(Max({c, RingMinCapacity}))
  BY DEF initialise
<1>2. c \in Nat /\ RingMinCapacity \in Nat
  BY OwningAssumption
<1>3. Max({c, RingMinCapacity}) \in Nat
  <2>1. \E x \in {c, RingMinCapacity} : \A y \in {c, RingMinCapacity} : x >= y
    BY <1>2
  <2>. QED
    BY <1>2, <2>1 DEF Max
<1>. QED
  BY <1>1, <1>3, EmptiedStep

\* deallocate() leaves no ring.
LEMMA DeallocateStep == OwningInv /\ deallocate => OwningInv'
BY EmptiedStep DEF deallocate

\* The steps of post().
LEMMA PostBeginStep == OwningInv /\ PostBegin => OwningInv'
<1>. SUFFICES ASSUME OwningInv, PostBegin PROVE OwningInv'
  OBVIOUS
<1>1. /\ UNCHANGED <<capacity, ring, readIndex, writeIndex, occupied, offered, cpc, fetched, destroyed, sent>>
      /\ ppc = "idle" /\ ppc' = "move" /\ offered # Nothing /\ occupied < capacity
  BY DEF PostBegin, Writable
<1>2. OwningTypeOK' /\ CountAgrees'
  BY <1>1 DEF OwningInv, OwningTypeOK, CountAgrees
<1>3. OneOwner' /\ InOrder'
  BY <1>1 DEF OwningInv, OneOwner, InOrder, Made, Holding, Ahead
<1>. QED
  BY <1>2, <1>3 DEF OwningInv

\* post() raises the count.
LEMMA PostCommitStep == OwningInv /\ PostCommit => OwningInv'
<1>. SUFFICES ASSUME OwningInv, PostCommit PROVE OwningInv'
  OBVIOUS
<1>1. /\ UNCHANGED <<capacity, ring, readIndex, writeIndex, offered, cpc, fetched, destroyed, sent>>
      /\ ppc = "commit" /\ ppc' = "idle" /\ occupied' = occupied + 1
  BY DEF PostCommit
<1>2. OwningTypeOK' /\ CountAgrees'
  <2>1. /\ Len(sent) \in Nat /\ occupied \in Nat /\ capacity \in Nat
        /\ ppc \in {"idle", "move", "commit"} /\ cpc \in {"idle", "move", "commit"}
    BY DEF OwningInv, OwningTypeOK
  <2>2. CountAgrees'
    BY <1>1, <2>1 DEF OwningInv, CountAgrees
  <2>3. occupied' \in Nat
    BY <1>1, <2>1 DEF OwningInv, CountAgrees
  <2>4. OwningTypeOK'
    BY <1>1, <2>3 DEF OwningInv, OwningTypeOK
  <2>. QED
    BY <2>2, <2>4
<1>3. OneOwner' /\ InOrder'
  BY <1>1 DEF OwningInv, OneOwner, InOrder, Made, Holding, Ahead
<1>. QED
  BY <1>2, <1>3 DEF OwningInv

\* The steps of read().
LEMMA ReadBeginStep == OwningInv /\ ReadBegin => OwningInv'
<1>. SUFFICES ASSUME OwningInv, ReadBegin PROVE OwningInv'
  OBVIOUS
<1>1. /\ UNCHANGED <<capacity, ring, readIndex, writeIndex, occupied, ppc, offered, fetched, destroyed, sent>>
      /\ cpc = "idle" /\ cpc' = "move" /\ occupied > 0
  BY DEF ReadBegin
<1>2. OwningTypeOK' /\ CountAgrees'
  BY <1>1 DEF OwningInv, OwningTypeOK, CountAgrees
<1>3. OneOwner' /\ InOrder'
  BY <1>1 DEF OwningInv, OneOwner, InOrder, Made, Holding, Ahead
<1>. QED
  BY <1>2, <1>3 DEF OwningInv

\* read() lowers the count.
LEMMA ReadCommitStep == OwningInv /\ ReadCommit => OwningInv'
<1>. SUFFICES ASSUME OwningInv, ReadCommit PROVE OwningInv'
  OBVIOUS
<1>1. /\ UNCHANGED <<capacity, ring, readIndex, writeIndex, ppc, offered, fetched, destroyed, sent>>
      /\ cpc = "commit" /\ cpc' = "idle" /\ occupied' = occupied - 1
  BY DEF ReadCommit
<1>2. OwningTypeOK' /\ CountAgrees'
  <2>1. /\ Len(sent) \in Nat /\ occupied \in Nat /\ capacity \in Nat
        /\ ppc \in {"idle", "move", "commit"} /\ cpc \in {"idle", "move", "commit"}
    BY DEF OwningInv, OwningTypeOK
  <2>2. CountAgrees'
    BY <1>1, <2>1 DEF OwningInv, CountAgrees
  <2>3. occupied' \in Nat
    BY <1>1, <2>1 DEF OwningInv, CountAgrees
  <2>4. OwningTypeOK'
    BY <1>1, <2>3 DEF OwningInv, OwningTypeOK
  <2>. QED
    BY <2>2, <2>4
<1>3. OneOwner' /\ InOrder'
  BY <1>1 DEF OwningInv, OneOwner, InOrder, Made, Holding, Ahead
<1>. QED
  BY <1>2, <1>3 DEF OwningInv

\* The object moves into a slot that held nothing.
LEMMA PostMoveStep == OwningInv /\ PostMove => OwningInv'
<1>. SUFFICES ASSUME OwningInv, PostMove PROVE OwningInv'
  OBVIOUS
<1>. DEFINE n == Len(sent)
<1>1. /\ UNCHANGED <<capacity, readIndex, occupied, cpc, fetched>>
      /\ ppc = "move" /\ ppc' = "commit"
      /\ ring' = [ring EXCEPT ![writeIndex] = offered] /\ offered' = Nothing
      /\ destroyed' = Destroyed({ring[writeIndex]})
      /\ writeIndex' = (writeIndex + 1) % capacity
      /\ sent' = Append(sent, offered)
  BY DEF PostMove, Masked
<1>2. /\ OwningTypeOK /\ CountAgrees /\ OneOwner /\ InOrder
      /\ capacity \in Nat \ {0} /\ n \in Nat /\ n < capacity
      /\ offered \in 1 .. Len(destroyed) /\ offered # Nothing
      /\ DOMAIN ring = 0 .. capacity - 1
  <2>1. OwningTypeOK /\ CountAgrees /\ OneOwner /\ InOrder
    BY DEF OwningInv
  <2>2. /\ n \in Nat /\ occupied \in Nat /\ capacity \in Nat /\ Len(destroyed) \in Nat
        /\ DOMAIN ring = 0 .. capacity - 1 /\ offered \in 0 .. Len(destroyed)
    BY <2>1 DEF OwningTypeOK
  <2>3. offered # Nothing /\ occupied < capacity /\ n <= occupied
    BY <1>1, <2>1, <2>2 DEF CountAgrees
  <2>. QED
    BY <2>1, <2>2, <2>3 DEF Nothing
<1>3. /\ readIndex \in 0 .. capacity - 1 /\ writeIndex \in 0 .. capacity - 1
      /\ writeIndex = IF readIndex + n < capacity THEN readIndex + n ELSE readIndex + n - capacity
      /\ Ahead(writeIndex) = n
  BY <1>2, WriterIs
<1>4. ring[writeIndex] = Nothing
  BY <1>2, <1>3 DEF InOrder
<1>5. /\ sent' \in Seq(1 .. Len(destroyed)) /\ Len(sent') = n + 1
      /\ \A i \in 1 .. n + 1 : sent'[i] = IF i <= n THEN sent[i] ELSE offered
  <2>1. sent \in Seq(1 .. Len(destroyed))
    BY <1>2 DEF OwningTypeOK
  <2>. QED
    BY <1>1, <1>2, <2>1, AppendProperties
<1>6. /\ Made = 1 .. Len(destroyed) /\ Made' = Made
      /\ destroyed' \in Seq(Nat) /\ Len(destroyed') = Len(destroyed)
      /\ \A o \in Made : destroyed'[o] = destroyed[o] /\ destroyed[o] \in Nat
  <2>1. destroyed \in Seq(Nat)
    BY <1>2 DEF OwningTypeOK
  <2>2. Made' = DOMAIN destroyed' /\ Made = 1 .. Len(destroyed)
    BY <2>1 DEF Made
  <2>3. /\ destroyed' \in Seq(Nat) /\ Len(destroyed') = Len(destroyed)
        /\ \A o \in Made : destroyed'[o] = destroyed[o] + IF o \in {Nothing} THEN 1 ELSE 0
    BY <1>1, <1>4, <2>1, DestroyedFacts
  <2>4. \A o \in Made : o # Nothing /\ destroyed[o] \in Nat
    BY <2>1, <2>2 DEF Nothing
  <2>. QED
    BY <2>2, <2>3, <2>4
<1>7. OwningTypeOK'
  <2>1. ring' \in [0 .. capacity - 1 -> 0 .. Len(destroyed)]
    BY <1>1, <1>2, <1>3 DEF OwningTypeOK
  <2>2. writeIndex' \in Nat
    <3>1. (writeIndex + 1) % capacity \in 0 .. capacity - 1
      BY <1>2, <1>3, WrapNext
    <3>. QED
      BY <1>1, <1>2, <3>1
  <2>. QED
    BY <1>1, <1>2, <1>5, <1>6, <2>1, <2>2, 0 \in 0 .. Len(destroyed) DEF OwningTypeOK, Nothing
<1>8. CountAgrees'
  <2>1. (writeIndex + 1) % capacity = IF writeIndex + 1 < capacity THEN writeIndex + 1
                                      ELSE writeIndex + 1 - capacity
    BY <1>2, <1>3, WrapNext
  <2>2. Len(sent') <= capacity
    BY <1>2, <1>5
  <2>. QED
    <3>1. occupied \in Nat /\ cpc \in {"idle", "move", "commit"}
      BY <1>2 DEF OwningTypeOK
    <3>2. writeIndex' = readIndex + Len(sent')
                         - IF readIndex + Len(sent') < capacity THEN 0 ELSE capacity
      BY <1>1, <1>2, <1>3, <1>5, <2>1, SMTT(30)
    <3>. QED
      BY <1>1, <1>2, <1>5, <2>2, <3>1, <3>2 DEF CountAgrees
<1>9. OneOwner'
  <2>. SUFFICES ASSUME NEW o \in Made
       PROVE  destroyed[o] + (IF Nothing = o THEN 1 ELSE 0) + (IF fetched = o THEN 1 ELSE 0)
                + Cardinality(Holding(o)') = 1
    BY <1>1, <1>6 DEF OneOwner
  <2>1. o # Nothing
    BY <1>6 DEF Nothing
  <2>2. destroyed[o] + (IF offered = o THEN 1 ELSE 0) + (IF fetched = o THEN 1 ELSE 0)
          + Cardinality(Holding(o)) = 1
    BY <1>2 DEF OneOwner
  <2>3. IsFiniteSet(Holding(o)) /\ Cardinality(Holding(o)) \in Nat
    BY <1>2, HoldingFacts
  <2>4. Cardinality(Holding(o)') = Cardinality(Holding(o)) + IF offered = o THEN 1 ELSE 0
    <3>1. CASE offered = o
      <4>1. Holding(o)' = Holding(o) \cup {writeIndex} /\ writeIndex \notin Holding(o)
        BY <1>1, <1>2, <1>3, <1>4, <2>1, <3>1 DEF Holding
      <4>. QED
        BY <2>3, <3>1, <4>1, FS_AddElement
    <3>2. CASE offered # o
      <4>1. Holding(o)' = Holding(o)
        BY <1>1, <1>2, <1>3, <1>4, <2>1, <3>2 DEF Holding
      <4>. QED
        BY <2>3, <3>2, <4>1
    <3>. QED
      BY <3>1, <3>2
  <2>. QED
    BY <1>6, <2>1, <2>2, <2>3, <2>4
<1>10. InOrder'
  <2>. SUFFICES ASSUME NEW s \in 0 .. capacity - 1
       PROVE  ring'[s] = IF Ahead(s) < n + 1 THEN sent'[Ahead(s) + 1] ELSE Nothing
    BY <1>1, <1>2, <1>5 DEF InOrder, Ahead
  <2>1. /\ Ahead(s) \in 0 .. capacity - 1
        /\ Ahead(s) = IF s >= readIndex THEN s - readIndex ELSE s + capacity - readIndex
    BY <1>2, <1>3, AheadIs
  <2>2. ring[s] = IF Ahead(s) < n THEN sent[Ahead(s) + 1] ELSE Nothing
    BY <1>2 DEF InOrder
  <2>3. CASE s = writeIndex
    BY <1>1, <1>2, <1>3, <1>5, <2>3
  <2>4. CASE s # writeIndex
    <3>1. Ahead(s) # n
      BY <1>2, <1>3, <2>1, <2>4
    <3>2. ring'[s] = ring[s]
      BY <1>1, <1>2, <2>4
    <3>3. Ahead(s) < n => sent'[Ahead(s) + 1] = sent[Ahead(s) + 1]
      BY <1>2, <1>5, <2>1, SMTT(30)
    <3>. QED
      BY <1>2, <2>1, <2>2, <3>1, <3>2, <3>3
  <2>. QED
    BY <2>3, <2>4
<1>. QED
  BY <1>7, <1>8, <1>9, <1>10 DEF OwningInv

\* The object moves out of its slot to the consumer, whose old one is destroyed.
LEMMA ReadMoveStep == OwningInv /\ ReadMove => OwningInv'
<1>. SUFFICES ASSUME OwningInv, ReadMove PROVE OwningInv'
  OBVIOUS
<1>. DEFINE n == Len(sent)
<1>1. /\ UNCHANGED <<capacity, writeIndex, occupied, ppc, offered>>
      /\ cpc = "move" /\ cpc' = "commit"
      /\ fetched' = ring[readIndex] /\ ring' = [ring EXCEPT ![readIndex] = Nothing]
      /\ destroyed' = Destroyed({fetched})
      /\ readIndex' = (readIndex + 1) % capacity
      /\ sent' = Tail(sent)
  BY DEF ReadMove, Masked
<1>2. /\ OwningTypeOK /\ CountAgrees /\ OneOwner /\ InOrder
      /\ capacity \in Nat \ {0} /\ n \in 1 .. capacity
      /\ readIndex \in 0 .. capacity - 1
      /\ DOMAIN ring = 0 .. capacity - 1
  <2>1. OwningTypeOK /\ CountAgrees /\ OneOwner /\ InOrder
    BY DEF OwningInv
  <2>2. /\ n \in Nat /\ occupied \in Nat /\ capacity \in Nat /\ readIndex \in Nat
        /\ DOMAIN ring = 0 .. capacity - 1 /\ (capacity # 0 => readIndex < capacity)
    BY <2>1 DEF OwningTypeOK
  <2>3. occupied > 0 /\ occupied <= capacity /\ n <= capacity /\ n >= occupied
    BY <1>1, <2>1, <2>2 DEF CountAgrees
  <2>. QED
    BY <2>1, <2>2, <2>3
<1>3. /\ sent \in Seq(1 .. Len(destroyed))
      /\ sent' \in Seq(1 .. Len(destroyed)) /\ Len(sent') = n - 1
      /\ \A i \in 1 .. n - 1 : sent'[i] = sent[i + 1]
  <2>1. sent \in Seq(1 .. Len(destroyed))
    BY <1>2 DEF OwningTypeOK
  <2>2. sent # << >>
    BY <1>2
  <2>. QED
    BY <1>1, <2>1, <2>2, HeadTailProperties
<1>4. ring[readIndex] = sent[1]
  <2>1. Ahead(readIndex) = 0
    BY <1>2, AheadIs
  <2>. QED
    BY <1>2, <2>1 DEF InOrder
<1>5. /\ Made = 1 .. Len(destroyed) /\ Made' = Made /\ Len(destroyed) \in Nat
      /\ destroyed' \in Seq(Nat) /\ Len(destroyed') = Len(destroyed)
      /\ \A o \in Made : /\ destroyed'[o] = destroyed[o] + IF o = fetched THEN 1 ELSE 0
                         /\ destroyed[o] \in Nat
  <2>1. destroyed \in Seq(Nat)
    BY <1>2 DEF OwningTypeOK
  <2>2. Made' = DOMAIN destroyed' /\ Made = 1 .. Len(destroyed)
    BY <2>1 DEF Made
  <2>3. /\ destroyed' \in Seq(Nat) /\ Len(destroyed') = Len(destroyed)
        /\ \A o \in Made : destroyed'[o] = destroyed[o] + IF o \in {fetched} THEN 1 ELSE 0
    BY <1>1, <2>1, DestroyedFacts
  <2>. QED
    BY <2>1, <2>2, <2>3
<1>6. (readIndex + 1) % capacity = IF readIndex + 1 < capacity THEN readIndex + 1
                                   ELSE readIndex + 1 - capacity
  BY <1>2, WrapNext
<1>7. readIndex' \in 0 .. capacity - 1
  BY <1>1, <1>2, <1>6
<1>8. OwningTypeOK'
  <2>1. ring' \in [0 .. capacity - 1 -> 0 .. Len(destroyed)]
    <3>1. Nothing \in 0 .. Len(destroyed)
      BY <1>5 DEF Nothing
    <3>. QED
      BY <1>1, <1>2, <3>1 DEF OwningTypeOK
  <2>2. fetched' \in 0 .. Len(destroyed)
    BY <1>1, <1>2 DEF OwningTypeOK
  <2>3. readIndex' \in Nat /\ readIndex' < capacity
    BY <1>2, <1>7
  <2>. QED
    BY <1>1, <1>2, <1>3, <1>5, <2>1, <2>2, <2>3 DEF OwningTypeOK
<1>9. CountAgrees'
  <2>1. occupied \in Nat /\ ppc \in {"idle", "move", "commit"}
    BY <1>2 DEF OwningTypeOK
  <2>2. writeIndex = readIndex + n - IF readIndex + n < capacity THEN 0 ELSE capacity
    BY <1>2 DEF CountAgrees
  <2>3. writeIndex = readIndex' + (n - 1) - IF readIndex' + (n - 1) < capacity THEN 0 ELSE capacity
    <3>. HIDE DEF n
    <3>1. CASE readIndex + 1 < capacity
      <4>1. readIndex' = readIndex + 1
        BY <1>1, <1>6, <3>1
      <4>. QED
        BY <1>2, <2>2, <4>1
    <3>2. CASE ~ (readIndex + 1 < capacity)
      <4>1. readIndex' = 0 /\ readIndex = capacity - 1
        BY <1>1, <1>2, <1>6, <3>2
      <4>. QED
        BY <1>2, <2>2, <4>1
    <3>. QED
      BY <3>1, <3>2
  <2>4. /\ n = occupied + (IF ppc = "commit" THEN 1 ELSE 0) /\ occupied <= capacity
        /\ (ppc # "idle" => occupied < capacity) /\ (ppc = "move" => offered # Nothing)
        /\ occupied > 0
    BY <1>1, <1>2, <2>1 DEF CountAgrees
  <2>5. /\ Len(sent') = occupied' + (IF ppc' = "commit" THEN 1 ELSE 0) - 1
        /\ Len(sent') <= capacity'
    <3>. HIDE DEF n
    <3>. QED
      BY <1>1, <1>2, <1>3, <2>1, <2>4
  <2>. QED
    BY <1>1, <1>2, <1>3, <2>1, <2>3, <2>4, <2>5 DEF CountAgrees
<1>10. OneOwner'
  <2>. SUFFICES ASSUME NEW o \in Made
       PROVE  destroyed'[o] + (IF offered = o THEN 1 ELSE 0) + (IF fetched' = o THEN 1 ELSE 0)
                + Cardinality(Holding(o)') = 1
    BY <1>1, <1>5 DEF OneOwner
  <2>1. o # Nothing
    BY <1>5 DEF Nothing
  <2>2. destroyed[o] + (IF offered = o THEN 1 ELSE 0) + (IF fetched = o THEN 1 ELSE 0)
          + Cardinality(Holding(o)) = 1
    BY <1>2 DEF OneOwner
  <2>3. IsFiniteSet(Holding(o)) /\ Cardinality(Holding(o)) \in Nat
    BY <1>2, HoldingFacts
  <2>4. Holding(o)' = Holding(o) \ {readIndex}
    BY <1>1, <1>2, <2>1 DEF Holding
  <2>5. readIndex \in Holding(o) <=> fetched' = o
    BY <1>1, <1>2 DEF Holding
  <2>6. Cardinality(Holding(o)') = Cardinality(Holding(o)) - IF fetched' = o THEN 1 ELSE 0
    BY <2>3, <2>4, <2>5, FS_RemoveElement
  <2>. QED
    BY <1>5, <2>2, <2>3, <2>6, SMTT(30)
<1>11. InOrder'
  <2>. SUFFICES ASSUME NEW s \in 0 .. capacity - 1
       PROVE  ring'[s] = IF Ahead(s)' < n - 1 THEN sent'[Ahead(s)' + 1] ELSE Nothing
    BY <1>1, <1>2, <1>3 DEF InOrder
  <2>1. /\ Ahead(s) \in 0 .. capacity - 1
        /\ Ahead(s) = IF s >= readIndex THEN s - readIndex ELSE s + capacity - readIndex
    BY <1>2, AheadIs
  <2>2. Ahead(s)' = IF s >= readIndex' THEN s - readIndex' ELSE s + capacity - readIndex'
    <3>. DEFINE r == readIndex'
                x == s + capacity - r
    <3>1. x \in 0 .. 2 * capacity - 1 /\ (x < capacity <=> s < r) /\ r \in 0 .. capacity - 1
      <4>1. r \in 0 .. capacity - 1 /\ capacity \in Nat
        BY <1>2, <1>7
      <4>. HIDE DEF r
      <4>. QED
        BY <4>1
    <3>2. x % capacity = IF x < capacity THEN x ELSE x - capacity
      BY <1>2, <3>1, Wrap
    <3>. QED
      BY <1>1, <1>2, <3>1, <3>2 DEF Ahead
  <2>3. ring[s] = IF Ahead(s) < n THEN sent[Ahead(s) + 1] ELSE Nothing
    BY <1>2 DEF InOrder
  <2>4. Ahead(s)' = IF s = readIndex THEN capacity - 1 ELSE Ahead(s) - 1
    BY <1>1, <1>2, <1>6, <2>1, <2>2, SMTT(30)
  <2>5. CASE s = readIndex
    BY <1>1, <1>2, <2>4, <2>5
  <2>6. CASE s # readIndex
    <3>1. ring'[s] = ring[s] /\ Ahead(s) \in 1 .. capacity - 1 /\ Ahead(s)' = Ahead(s) - 1
      BY <1>1, <1>2, <2>1, <2>4, <2>6
    <3>2. Ahead(s) < n => sent'[Ahead(s)] = sent[Ahead(s) + 1]
      <4>. DEFINE a == Ahead(s)
      <4>1. a \in Nat /\ a >= 1 /\ n \in Nat
        BY <1>2, <3>1
      <4>. HIDE DEF a, n
      <4>2. a < n => sent'[a] = sent[a + 1]
        BY <1>3, <4>1
      <4>. QED
        BY <4>2 DEF a
    <3>. QED
      BY <1>2, <2>3, <3>1, <3>2
  <2>. QED
    BY <2>5, <2>6
<1>. QED
  BY <1>8, <1>9, <1>10, <1>11 DEF OwningInv

\* A new object takes the place of the one the producer has.
LEMMA EmplaceStep == OwningInv /\ emplace => OwningInv'
<1>. SUFFICES ASSUME OwningInv, emplace PROVE OwningInv'
  OBVIOUS
<1>. DEFINE m == Len(destroyed)
<1>1. /\ UNCHANGED <<capacity, ring, readIndex, writeIndex, occupied, ppc, cpc, fetched, sent>>
      /\ ppc = "idle" /\ offered' = m + 1 /\ destroyed' = Append(Destroyed({offered}), 0)
  BY DEF emplace
<1>2. /\ OwningTypeOK /\ CountAgrees /\ OneOwner /\ InOrder
      /\ destroyed \in Seq(Nat) /\ m \in Nat /\ Made = 1 .. m
      /\ capacity \in Nat /\ DOMAIN ring = 0 .. capacity - 1
  BY DEF OwningInv, OwningTypeOK, Made
<1>3. /\ destroyed' \in Seq(Nat) /\ Len(destroyed') = m + 1 /\ Made' = 1 .. m + 1
      /\ destroyed'[m + 1] = 0
      /\ \A o \in Made : destroyed'[o] = destroyed[o] + IF o = offered THEN 1 ELSE 0
  <2>. DEFINE d == Destroyed({offered})
  <2>1. /\ d \in Seq(Nat) /\ Len(d) = m
        /\ \A o \in Made : d[o] = destroyed[o] + IF o \in {offered} THEN 1 ELSE 0
    BY <1>2, DestroyedFacts
  <2>. HIDE DEF d
  <2>2. /\ Append(d, 0) \in Seq(Nat) /\ Len(Append(d, 0)) = m + 1
        /\ Append(d, 0)[m + 1] = 0 /\ \A o \in 1 .. m : Append(d, 0)[o] = d[o]
    BY <1>2, <2>1, AppendProperties
  <2>3. destroyed' = Append(d, 0) /\ Made' = DOMAIN destroyed'
    BY <1>1 DEF d, Made
  <2>. QED
    BY <1>2, <2>1, <2>2, <2>3
<1>4. OwningTypeOK'
  <2>1. ring \in [0 .. capacity - 1 -> 0 .. m] /\ fetched \in 0 .. m /\ sent \in Seq(1 .. m)
    BY <1>2 DEF OwningTypeOK
  <2>2. sent \in Seq(1 .. m + 1)
    BY <1>2, <2>1, 1 .. m \subseteq 1 .. m + 1
  <2>3. ring \in [0 .. capacity - 1 -> 0 .. m + 1] /\ fetched \in 0 .. m + 1 /\ m + 1 \in 0 .. m + 1
    BY <1>2, <2>1
  <2>. QED
    BY <1>1, <1>2, <1>3, <2>2, <2>3 DEF OwningTypeOK
<1>5. CountAgrees' /\ InOrder'
  BY <1>1, <1>2 DEF CountAgrees, InOrder, Ahead
<1>6. OneOwner'
  <2>. SUFFICES ASSUME NEW o \in 1 .. m + 1
       PROVE  destroyed'[o] + (IF m + 1 = o THEN 1 ELSE 0) + (IF fetched = o THEN 1 ELSE 0)
                + Cardinality(Holding(o)) = 1
    BY <1>1, <1>3, ZenonT(60) DEF OneOwner, Holding
  <2>1. Cardinality(Holding(o)) \in Nat /\ (Cardinality(Holding(o)) = 0 <=> \A s \in DOMAIN ring : ring[s] # o)
    BY <1>2, HoldingFacts
  <2>2. CASE o = m + 1
    <3>1. fetched # o /\ \A s \in DOMAIN ring : ring[s] # o
      BY <1>2, <2>2 DEF OwningTypeOK
    <3>. QED
      BY <1>2, <1>3, <2>1, <2>2, <3>1
  <2>3. CASE o # m + 1
    <3>1. o \in Made /\ destroyed[o] \in Nat
      BY <1>2, <2>3
    <3>2. destroyed[o] + (IF offered = o THEN 1 ELSE 0) + (IF fetched = o THEN 1 ELSE 0)
            + Cardinality(Holding(o)) = 1
      BY <1>2, <3>1 DEF OneOwner
    <3>. QED
      BY <1>3, <2>1, <2>3, <3>1, <3>2
  <2>. QED
    BY <2>2, <2>3
<1>. QED
  BY <1>4, <1>5, <1>6 DEF OwningInv

\* The consumer destroys the object it has.
LEMMA ResetStep == OwningInv /\ reset => OwningInv'
<1>. SUFFICES ASSUME OwningInv, reset PROVE OwningInv'
  OBVIOUS
<1>1. /\ UNCHANGED <<capacity, ring, readIndex, writeIndex, occupied, ppc, offered, cpc, sent>>
      /\ fetched' = Nothing /\ fetched # Nothing /\ destroyed' = Destroyed({fetched})
  BY DEF reset
<1>2. /\ OwningTypeOK /\ CountAgrees /\ OneOwner /\ InOrder
      /\ destroyed \in Seq(Nat) /\ capacity \in Nat /\ DOMAIN ring = 0 .. capacity - 1
  BY DEF OwningInv, OwningTypeOK
<1>3. /\ destroyed' \in Seq(Nat) /\ Len(destroyed') = Len(destroyed)
      /\ Made = 1 .. Len(destroyed) /\ Made' = Made /\ Len(destroyed) \in Nat
      /\ \A o \in Made : destroyed'[o] = destroyed[o] + IF o \in {fetched} THEN 1 ELSE 0
  <2>1. Made' = DOMAIN destroyed'
    BY DEF Made
  <2>. QED
    BY <1>1, <1>2, <2>1, DestroyedFacts
<1>4. OwningTypeOK'
  <2>1. Nothing \in 0 .. Len(destroyed)
    BY <1>3 DEF Nothing
  <2>. QED
    BY <1>1, <1>2, <1>3, <2>1 DEF OwningTypeOK
<1>5. CountAgrees' /\ InOrder'
  BY <1>1, <1>2 DEF CountAgrees, InOrder, Ahead
<1>6. OneOwner'
  <2>. SUFFICES ASSUME NEW o \in Made
       PROVE  destroyed'[o] + (IF offered = o THEN 1 ELSE 0) + (IF Nothing = o THEN 1 ELSE 0)
                + Cardinality(Holding(o)) = 1
    <3>1. \A o : Holding(o)' = Holding(o)
      BY <1>1 DEF Holding
    <3>. QED
      BY <1>1, <1>3, <3>1 DEF OneOwner
  <2>1. Cardinality(Holding(o)) \in Nat
    BY <1>2, HoldingFacts
  <2>3. destroyed[o] \in Nat /\ o # Nothing
    BY <1>2, <1>3 DEF Nothing
  <2>2. destroyed[o] + (IF offered = o THEN 1 ELSE 0) + (IF fetched = o THEN 1 ELSE 0)
          + Cardinality(Holding(o)) = 1
    BY <1>2 DEF OneOwner
  <2>4. destroyed'[o] = destroyed[o] + IF fetched = o THEN 1 ELSE 0
    BY <1>3
  <2>5. Nothing # o
    BY <2>3
  <2>. QED
    BY <2>1, <2>2, <2>3, <2>4, <2>5
<1>. QED
  BY <1>4, <1>5, <1>6 DEF OwningInv

\* Every step of either side.
LEMMA OwningStep == OwningInv /\ [OwningNext]_owning_vars => OwningInv'
<1>. SUFFICES ASSUME OwningInv, [OwningNext]_owning_vars PROVE OwningInv'
  OBVIOUS
<1>1. CASE UNCHANGED owning_vars
  BY <1>1 DEF owning_vars, sides, OwningInv, OwningTypeOK, CountAgrees, OneOwner, InOrder,
              Made, Holding, Ahead
<1>2. CASE OwningNext
  BY <1>2, InitialiseStep, DeallocateStep, PostBeginStep, PostMoveStep, PostCommitStep,
     ReadBeginStep, ReadMoveStep, ReadCommitStep, EmplaceStep, ResetStep DEF OwningNext
<1>. QED
  BY <1>1, <1>2

\* What the ring of owners keeps, whatever it was made with.
THEOREM OwningInvariant == OwningSpec => []OwningInv
BY OwningInitInv, OwningStep, PTL DEF OwningSpec

\* OwnedOnce says it of post() and read().
LEMMA OwningInvOwnedOnce == OwningInv => OwnedOnce
<1>. SUFFICES ASSUME OwningInv PROVE OwnedOnce
  OBVIOUS
<1>1. OneOwner /\ InOrder /\ OwningTypeOK /\ CountAgrees
  BY DEF OwningInv
<1>2. ASSUME ppc = "move", cpc = "move" PROVE writeIndex # readIndex
  <2>1. /\ Len(sent) \in Nat /\ occupied \in Nat /\ capacity \in Nat
        /\ readIndex \in Nat
    BY <1>1 DEF OwningTypeOK
  <2>2. Len(sent) = occupied /\ occupied > 0 /\ occupied < capacity
    BY <1>1, <1>2, <2>1 DEF CountAgrees
  <2>. QED
    BY <1>1, <2>1, <2>2 DEF CountAgrees
<1>. QED
  BY <1>1, <1>2 DEF OwnedOnce, OneOwner, InOrder, Holding, Ahead

\* Each object has one owner and is destroyed once at most, after any number of
\* calls of post() and read() that run at the same time.
THEOREM OwningOwnedOnce == OwningSpec => []OwnedOnce
BY OwningInvariant, OwningInvOwnedOnce, PTL

----------------------------------------------------------------------------
(* Ascending sequences of slots *)

\* The slots of a sequence, one that has none twice, and one in ascending order.
Members(s) == {s[k] : k \in 1 .. Len(s)}
Distinct(s) == \A k, l \in 1 .. Len(s) : s[k] = s[l] => k = l
Rises(s) == \A k, l \in 1 .. Len(s) : k < l => s[k] < s[l]

\* A set of numbers has a smallest one.
LEMMA Smallest ==
    ASSUME NEW S \in SUBSET Nat, S # {}
    PROVE  \E k \in S : \A j \in S : k <= j
<1>. DEFINE less == {p \in Nat \X Nat : p[1] < p[2]}
<1>1. IsWellFoundedOn(less, Nat)
  BY NatLessThanWellFounded DEF OpToRel
<1>. HIDE DEF less
<1>2. PICK k \in S : \A j \in S : ~ (<<j, k>> \in less)
  BY <1>1, WFMin
<1>3. \A j \in S : k <= j
  <2>. SUFFICES ASSUME NEW j \in S PROVE k <= j
    OBVIOUS
  <2>1. k \in Nat /\ j \in Nat /\ ~ (<<j, k>> \in less)
    BY <1>2
  <2>2. ~ (j < k)
    BY <2>1 DEF less
  <2>. QED
    BY <2>1, <2>2
<1>. QED
  BY <1>3

\* What the abstract specification counts with.
LEMMA BelowIs ==
    ASSUME NEW S, NEW i
    PROVE  Abstract!Below(S, i) = Cardinality({j \in S : j < i})
<1>1. \A T : Abstract!Cardinality(T) = Cardinality(T)
  BY DEF Abstract!Cardinality, Cardinality
<1>. QED
  BY <1>1 DEF Abstract!Below

\* The abstract Ascending(), with the Cardinality of this module.
LEMMA AscendingDef ==
    ASSUME NEW S
    PROVE  Abstract!Ascending(S) =
              [k \in 1 .. Cardinality(S) |-> CHOOSE i \in S : Abstract!Below(S, i) = k - 1]
<1>1. Abstract!Cardinality(S) = Cardinality(S)
  BY DEF Abstract!Cardinality, Cardinality
<1>. QED
  BY <1>1 DEF Abstract!Ascending

\* How many places and slots there are.
LEMMA Intervals ==
    ASSUME NEW n \in Nat
    PROVE  /\ IsFiniteSet(1 .. n) /\ Cardinality(1 .. n) = n
           /\ IsFiniteSet(0 .. n - 1) /\ Cardinality(0 .. n - 1) = n
<1>1. IsFiniteSet(1 .. n) /\ Cardinality(1 .. n) = n
  BY FS_Interval
<1>2. IsFiniteSet(0 .. n - 1) /\ Cardinality(0 .. n - 1) = n
  <2>1. n - 1 \in Int /\ (0 > n - 1 <=> n = 0)
    OBVIOUS
  <2>. QED
    BY <2>1, FS_Interval
<1>. QED
  BY <1>1, <1>2

\* A sequence with no slot twice is as long as its slots are many.
LEMMA MembersCount ==
    ASSUME NEW s \in Seq(Nat), Distinct(s)
    PROVE  IsFiniteSet(Members(s)) /\ Cardinality(Members(s)) = Len(s)
<1>1. s \in Bijection(1 .. Len(s), Members(s))
  <2>1. s \in [1 .. Len(s) -> Members(s)] /\ DOMAIN s = 1 .. Len(s)
    BY DEF Members
  <2>2. IsInjective(s)
    BY <2>1 DEF Distinct, IsInjective
  <2>3. \A i \in Members(s) : \E k \in 1 .. Len(s) : s[k] = i
    BY DEF Members
  <2>. QED
    BY <2>1, <2>2, <2>3 DEF Bijection, Injection, Surjection
<1>2. IsFiniteSet(1 .. Len(s)) /\ Cardinality(1 .. Len(s)) = Len(s)
  <2>1. Len(s) \in Nat
    OBVIOUS
  <2>. QED
    BY <2>1, Intervals
<1>. QED
  BY <1>1, <1>2, FS_Bijection DEF ExistsBijection

\* A sequence that rises has nothing twice.
LEMMA RisesDistinct ==
    ASSUME NEW s \in Seq(Nat), Rises(s)
    PROVE  Distinct(s)
<1>. SUFFICES ASSUME NEW k \in 1 .. Len(s), NEW l \in 1 .. Len(s), s[k] = s[l], k # l PROVE FALSE
  BY DEF Distinct
<1>1. k \in Nat /\ l \in Nat /\ s[k] \in Nat /\ s[l] \in Nat
  OBVIOUS
<1>2. k < l \/ l < k
  BY <1>1
<1>. QED
  BY <1>1, <1>2 DEF Rises

\* Of a finite set of slots: how many are below another one.
LEMMA BelowFacts ==
    ASSUME NEW S \in SUBSET Nat, IsFiniteSet(S)
    PROVE  /\ \A i \in S : Abstract!Below(S, i) \in 0 .. Cardinality(S) - 1
           /\ \A i, j \in S : i < j => Abstract!Below(S, i) < Abstract!Below(S, j)
<1>. DEFINE Lower(i) == {j \in S : j < i}
<1>1. Cardinality(S) \in Nat
  BY FS_CardinalityType
<1>2. \A i \in Nat : IsFiniteSet(Lower(i)) /\ Cardinality(Lower(i)) \in Nat
  BY FS_Subset, FS_CardinalityType
<1>3. ASSUME NEW i \in S, NEW T \in SUBSET S, Lower(i) \cup {i} \subseteq T
      PROVE  Cardinality(Lower(i)) < Cardinality(T)
  <2>1. i \notin Lower(i) /\ Lower(i) \cup {i} \in SUBSET T
    BY <1>3
  <2>. HIDE DEF Lower
  <2>2. IsFiniteSet(T) /\ Cardinality(T) \in Nat
    BY FS_Subset, FS_CardinalityType
  <2>3. Cardinality(Lower(i) \cup {i}) = Cardinality(Lower(i)) + 1
    BY <1>2, <2>1, FS_AddElement
  <2>4. Cardinality(Lower(i) \cup {i}) <= Cardinality(T)
    BY <2>1, <2>2, FS_Subset
  <2>. QED
    BY <1>2, <2>2, <2>3, <2>4
<1>4. ASSUME NEW i \in S PROVE Abstract!Below(S, i) \in 0 .. Cardinality(S) - 1
  <2>1. Lower(i) \cup {i} \subseteq S
    OBVIOUS
  <2>2. Abstract!Below(S, i) = Cardinality(Lower(i))
    BY BelowIs
  <2>3. Cardinality(Lower(i)) < Cardinality(S) /\ Cardinality(Lower(i)) \in Nat
    BY <1>2, <1>3, <2>1
  <2>. HIDE DEF Lower
  <2>. QED
    BY <1>1, <2>2, <2>3
<1>5. ASSUME NEW i \in S, NEW j \in S, i < j PROVE Abstract!Below(S, i) < Abstract!Below(S, j)
  <2>1. Lower(i) \cup {i} \subseteq Lower(j) /\ Lower(j) \in SUBSET S
    <3>1. \A x \in S : x < i => x < j
      BY <1>5
    <3>. QED
      BY <1>5, <3>1
  <2>2. Abstract!Below(S, i) = Cardinality(Lower(i)) /\ Abstract!Below(S, j) = Cardinality(Lower(j))
    BY BelowIs
  <2>. HIDE DEF Lower
  <2>. QED
    BY <1>3, <2>1, <2>2
<1>. QED
  BY <1>4, <1>5

\* There is a slot of every rank.
LEMMA EveryRank ==
    ASSUME NEW S \in SUBSET Nat, IsFiniteSet(S), NEW r \in 0 .. Cardinality(S) - 1
    PROVE  \E i \in S : Abstract!Below(S, i) = r
<1>. DEFINE n == Cardinality(S)
            rank == [i \in S |-> Abstract!Below(S, i)]
<1>1. n \in Nat
  BY FS_CardinalityType
<1>2. /\ \A i \in S : rank[i] \in 0 .. n - 1
      /\ \A i, j \in S : i < j => rank[i] < rank[j]
  BY BelowFacts
<1>. HIDE DEF rank
<1>3. rank \in [S -> 0 .. n - 1]
  BY <1>2 DEF rank
<1>4. \A i, j \in S : rank[i] = rank[j] => i = j
  <2>. SUFFICES ASSUME NEW i \in S, NEW j \in S, rank[i] = rank[j], i # j PROVE FALSE
    OBVIOUS
  <2>1. i \in Nat /\ j \in Nat /\ rank[i] \in Nat
    BY <1>1, <1>2
  <2>2. i < j \/ j < i
    BY <2>1
  <2>. QED
    BY <1>2, <2>1, <2>2
<1>5. rank \in Injection(S, 0 .. n - 1)
  BY <1>3, <1>4 DEF Injection, IsInjective
<1>6. IsFiniteSet(0 .. n - 1) /\ Cardinality(0 .. n - 1) = n
  BY <1>1, FS_Interval
<1>7. rank \in Surjection(S, 0 .. n - 1)
  BY <1>5, <1>6, FS_Injection
<1>8. \E i \in S : rank[i] = r
  BY <1>7 DEF Surjection
<1>. QED
  BY <1>8 DEF rank

\* Ascending() lists every slot of a set once, in ascending order.
LEMMA AscendingFacts ==
    ASSUME NEW S \in SUBSET Nat, IsFiniteSet(S)
    PROVE  LET a == Abstract!Ascending(S) IN
           /\ a \in Seq(Nat) /\ Len(a) = Cardinality(S) /\ Cardinality(S) \in Nat
           /\ Members(a) = S /\ Rises(a) /\ Distinct(a)
           /\ \A k \in 1 .. Cardinality(S) : a[k] \in S /\ Abstract!Below(S, a[k]) = k - 1
<1>. DEFINE a == Abstract!Ascending(S)
            n == Cardinality(S)
<1>1. n \in Nat
  BY FS_CardinalityType
<1>2. a = [k \in 1 .. n |-> CHOOSE i \in S : Abstract!Below(S, i) = k - 1]
  BY AscendingDef
<1>3. ASSUME NEW k \in 1 .. n PROVE a[k] \in S /\ Abstract!Below(S, a[k]) = k - 1
  <2>1. k - 1 \in 0 .. n - 1
    BY <1>1
  <2>2. \E i \in S : Abstract!Below(S, i) = k - 1
    BY <2>1, EveryRank
  <2>3. a[k] = CHOOSE i \in S : Abstract!Below(S, i) = k - 1
    BY <1>2
  <2>. HIDE DEF a
  <2>. QED
    BY <2>2, <2>3
<1>. HIDE DEF a, n
<1>4. a \in Seq(Nat) /\ Len(a) = n /\ DOMAIN a = 1 .. n
  <2>1. DOMAIN a = 1 .. n
    BY <1>2
  <2>2. a \in [1 .. n -> Nat]
    BY <1>2, <1>3
  <2>. QED
    BY <1>1, <2>1, <2>2
<1>5. ASSUME NEW i \in S, NEW j \in S, Abstract!Below(S, i) = Abstract!Below(S, j)
      PROVE  i = j
  <2>1. i \in Nat /\ j \in Nat /\ Abstract!Below(S, i) \in Nat
    BY <1>1, BelowFacts DEF n
  <2>2. i < j \/ j < i \/ i = j
    BY <2>1
  <2>. QED
    BY <1>5, <2>1, <2>2, BelowFacts
<1>6. ASSUME NEW i \in S PROVE \E k \in 1 .. n : a[k] = i
  <2>. DEFINE k == Abstract!Below(S, i) + 1
  <2>1. Abstract!Below(S, i) \in 0 .. n - 1
    BY BelowFacts DEF n
  <2>2. k \in 1 .. n /\ k - 1 = Abstract!Below(S, i)
    BY <1>1, <2>1
  <2>. HIDE DEF k
  <2>. QED
    BY <1>3, <1>5, <2>2
<1>7. Members(a) = S
  BY <1>3, <1>4, <1>6 DEF Members
<1>8. ASSUME NEW k \in 1 .. n, NEW l \in 1 .. n, k < l PROVE a[k] < a[l]
  <2>1. a[k] \in Nat /\ a[l] \in Nat /\ k \in Nat /\ l \in Nat
    BY <1>1, <1>3, S \subseteq Nat, 1 .. n \subseteq Nat
  <2>2. Abstract!Below(S, a[k]) = k - 1 /\ Abstract!Below(S, a[l]) = l - 1
    BY <1>3
  <2>3. a[k] # a[l]
    BY <1>8, <2>1, <2>2
  <2>4. ~ (a[l] < a[k])
    <3>1. a[k] \in S /\ a[l] \in S
      BY <1>3
    <3>2. a[l] < a[k] => Abstract!Below(S, a[l]) < Abstract!Below(S, a[k])
      BY <3>1, BelowFacts
    <3>. QED
      BY <1>8, <2>1, <2>2, <3>2
  <2>. QED
    BY <2>1, <2>3, <2>4
<1>9. Rises(a)
  BY <1>4, <1>8 DEF Rises
<1>10. Distinct(a)
  BY <1>4, <1>9, RisesDistinct
<1>. QED
  BY <1>1, <1>3, <1>4, <1>7, <1>9, <1>10 DEF a, n

\* It is the only such sequence.
LEMMA AscendingIs ==
    ASSUME NEW s \in Seq(Nat), Rises(s)
    PROVE  Abstract!Ascending(Members(s)) = s
<1>. DEFINE S == Members(s)
            n == Len(s)
            a == Abstract!Ascending(S)
<1>1. Distinct(s)
  BY RisesDistinct
<1>2. S \in SUBSET Nat /\ IsFiniteSet(S) /\ Cardinality(S) = n /\ n \in Nat
  <2>1. S \in SUBSET Nat
    BY DEF Members
  <2>. QED
    BY <1>1, <2>1, MembersCount
<1>3. /\ a \in Seq(Nat) /\ Len(a) = n
      /\ \A k \in 1 .. n : a[k] \in S /\ Abstract!Below(S, a[k]) = k - 1
  BY <1>2, AscendingFacts
<1>4. ASSUME NEW k \in 1 .. n PROVE Abstract!Below(S, s[k]) = k - 1
  <2>. DEFINE f == [l \in 1 .. k - 1 |-> s[l]]
              T == {j \in S : j < s[k]}
  <2>1. \A l \in 1 .. n : s[l] \in S /\ s[l] \in Nat /\ (s[l] < s[k] <=> l < k)
    <3>. SUFFICES ASSUME NEW l \in 1 .. n PROVE s[l] \in S /\ s[l] \in Nat /\ (s[l] < s[k] <=> l < k)
      OBVIOUS
    <3>1. s[l] \in S /\ s[l] \in Nat /\ s[k] \in Nat /\ l \in Nat /\ k \in Nat
      <4>1. s[l] \in S
        BY DEF Members
      <4>. HIDE DEF S
      <4>. QED
        BY <1>2, <4>1
    <3>2. (l < k => s[l] < s[k]) /\ (k < l => s[k] < s[l])
      BY DEF Rises
    <3>. QED
      BY <3>1, <3>2
  <2>2. \A l \in 1 .. k - 1 : l \in 1 .. n /\ l < k
    BY <1>2
  <2>3. f \in Bijection(1 .. k - 1, T)
    <3>1. f \in [1 .. k - 1 -> T]
      BY <2>1, <2>2
    <3>2. \A x, y \in 1 .. k - 1 : f[x] = f[y] => x = y
      BY <1>1, <2>2 DEF Distinct
    <3>3. \A j \in T : \E l \in 1 .. k - 1 : f[l] = j
      <4>. SUFFICES ASSUME NEW j \in T PROVE \E l \in 1 .. k - 1 : f[l] = j
        OBVIOUS
      <4>1. PICK l \in 1 .. n : j = s[l]
        BY DEF Members
      <4>2. l \in 1 .. k - 1
        BY <1>2, <2>1, <4>1
      <4>. QED
        BY <4>1, <4>2
    <3>. QED
      BY <3>1, <3>2, <3>3 DEF Bijection, Injection, Surjection, IsInjective
  <2>. HIDE DEF f, T
  <2>4. Cardinality(1 .. k - 1) = k - 1 /\ IsFiniteSet(1 .. k - 1)
    <3>1. k - 1 \in Int /\ k - 1 >= 0
      BY <1>2
    <3>. QED
      BY <3>1, FS_Interval
  <2>5. Cardinality(T) = k - 1
    BY <2>3, <2>4, FS_Bijection DEF ExistsBijection
  <2>. QED
    BY <2>5, BelowIs DEF T
<1>5. ASSUME NEW k \in 1 .. n PROVE a[k] = s[k]
  <2>1. PICK l \in 1 .. n : a[k] = s[l]
    BY <1>3 DEF Members
  <2>2. l - 1 = k - 1
    BY <1>3, <1>4, <2>1
  <2>. QED
    BY <1>2, <2>1, <2>2
<1>. HIDE DEF a, S
<1>6. a = s
  BY <1>3, <1>5, SeqEqual
<1>. QED
  BY <1>6 DEF a, S

----------------------------------------------------------------------------
(* Linked lists as sequences: chaining, appending, linking and unlinking *)

\* Finite sets of numbers have these bounds.
LEMMA MinIs ==
    ASSUME NEW S, S \subseteq Int, NEW m \in S, \A j \in S : m <= j
    PROVE  Min(S) = m
<1>1. \E x \in S : \A y \in S : x <= y
  OBVIOUS
<1>2. Min(S) \in S /\ \A y \in S : Min(S) <= y
  BY <1>1 DEF Min
<1>3. Min(S) \in Int /\ m \in Int /\ Min(S) <= m /\ m <= Min(S)
  BY <1>2
<1>. QED
  BY <1>3

\* The largest.
LEMMA MaxIs ==
    ASSUME NEW S, S \subseteq Int, NEW m \in S, \A j \in S : j <= m
    PROVE  Max(S) = m
<1>1. \E x \in S : \A y \in S : x >= y
  OBVIOUS
<1>2. Max(S) \in S /\ \A y \in S : Max(S) >= y
  BY <1>1 DEF Max
<1>3. Max(S) \in Int /\ m \in Int /\ Max(S) <= m /\ m <= Max(S)
  BY <1>2
<1>. QED
  BY <1>3

\* The places after and before the k-th of n around a circle.
Succ(n, k) == IF k = n THEN 1 ELSE k + 1
Pred(n, k) == IF k = 1 THEN n ELSE k - 1

\* The links of an ascending list, as After() and Before() find them.
LEMMA AfterFacts ==
    ASSUME NEW a \in Seq(Nat), Rises(a), NEW k \in 1 .. Len(a)
    PROVE  /\ Min(Members(a)) = a[1] /\ Max(Members(a)) = a[Len(a)]
           /\ After(Members(a), a[k]) = a[Succ(Len(a), k)]
           /\ Before(Members(a), a[k]) = a[Pred(Len(a), k)]
<1>. DEFINE S == Members(a)
            n == Len(a)
<1>1. n \in Nat /\ n >= 1 /\ k \in Nat
  OBVIOUS
<1>2. \A l \in 1 .. n : a[l] \in Nat /\ a[l] \in S
  BY DEF Members
<1>3. \A j \in S : j \in Nat /\ \E l \in 1 .. n : j = a[l]
  BY DEF Members
<1>4. \A l, m \in 1 .. n : l \in Nat /\ m \in Nat /\ (l < m => a[l] < a[m])
  BY DEF Rises
<1>5. \A l, m \in 1 .. n : (a[l] < a[m] <=> l < m) /\ (a[l] <= a[m] <=> l <= m)
  <2>. SUFFICES ASSUME NEW l \in 1 .. n, NEW m \in 1 .. n
                PROVE  (a[l] < a[m] <=> l < m) /\ (a[l] <= a[m] <=> l <= m)
    OBVIOUS
  <2>1. l \in Nat /\ m \in Nat /\ a[l] \in Nat /\ a[m] \in Nat
    BY <1>2
  <2>2. (l < m => a[l] < a[m]) /\ (m < l => a[m] < a[l])
    BY <1>4
  <2>. QED
    BY <2>1, <2>2
<1>. HIDE DEF S
<1>6. Min(S) = a[1]
  <2>1. 1 \in 1 .. n
    BY <1>1
  <2>2. \A j \in S : a[1] <= j
    BY <1>1, <1>3, <1>5, <2>1
  <2>. QED
    BY <1>2, <1>3, <2>1, <2>2, MinIs
<1>7. Max(S) = a[n]
  <2>1. n \in 1 .. n
    BY <1>1
  <2>2. \A j \in S : j <= a[n]
    BY <1>1, <1>3, <1>5, <2>1
  <2>. QED
    BY <1>2, <1>3, <2>1, <2>2, MaxIs
<1>8. After(S, a[k]) = a[Succ(n, k)]
  <2>1. CASE k = n
    BY <1>6, <1>7, <2>1 DEF After, Succ
  <2>2. CASE k # n
    <3>. DEFINE T == {j \in S : j > a[k]}
    <3>1. k + 1 \in 1 .. n /\ n \in 1 .. n /\ k < n
      BY <1>1, <2>2
    <3>2. a[k] # Max(S)
      BY <1>2, <1>4, <1>7, <3>1
    <3>3. a[k + 1] \in T
      BY <1>2, <1>5, <3>1
    <3>4. ASSUME NEW j \in T PROVE a[k + 1] <= j
      <4>1. PICK l \in 1 .. n : j = a[l]
        BY <1>3
      <4>2. k < l
        BY <1>5, <4>1
      <4>3. k + 1 <= l
        BY <1>1, <4>2
      <4>. QED
        BY <1>5, <3>1, <4>1, <4>3
    <3>5. T \subseteq Int
      BY <1>3
    <3>. HIDE DEF T
    <3>6. Min(T) = a[k + 1]
      BY <3>3, <3>4, <3>5, MinIs
    <3>. QED
      BY <2>2, <3>2, <3>6 DEF After, Succ, T
  <2>. QED
    BY <2>1, <2>2
<1>9. Before(S, a[k]) = a[Pred(n, k)]
  <2>1. CASE k = 1
    BY <1>6, <1>7, <2>1 DEF Before, Pred
  <2>2. CASE k # 1
    <3>. DEFINE T == {j \in S : j < a[k]}
    <3>1. k - 1 \in 1 .. n /\ 1 \in 1 .. n /\ 1 < k
      BY <1>1, <2>2
    <3>2. a[k] # Min(S)
      BY <1>2, <1>4, <1>6, <3>1
    <3>3. a[k - 1] \in T
      BY <1>2, <1>5, <3>1
    <3>4. ASSUME NEW j \in T PROVE j <= a[k - 1]
      <4>1. PICK l \in 1 .. n : j = a[l]
        BY <1>3
      <4>2. l < k
        BY <1>5, <4>1
      <4>3. l <= k - 1
        BY <1>1, <4>2
      <4>. QED
        BY <1>5, <3>1, <4>1, <4>3
    <3>5. T \subseteq Int
      BY <1>3
    <3>. HIDE DEF T
    <3>6. Max(T) = a[k - 1]
      BY <3>3, <3>4, <3>5, MaxIs
    <3>. QED
      BY <2>2, <3>2, <3>6 DEF Before, Pred, T
  <2>. QED
    BY <2>1, <2>2
<1>. QED
  BY <1>6, <1>7, <1>8, <1>9 DEF S


\* A slot of the metadata.
Links == [prev : Nat, next : Nat, state : Category]

\* The slots of s are linked in its order, the last one to the first.
Ring(meta, s) ==
    /\ s \in Seq(Nat) /\ Distinct(s) /\ Members(s) \subseteq DOMAIN meta
    /\ \A k \in 1 .. Len(s) :
          /\ meta[s[k]].next = s[Succ(Len(s), k)]
          /\ meta[s[k]].prev = s[Pred(Len(s), k)]

\* The head of a list, -1 when it has none.
First(s) == IF Len(s) = 0 THEN -1 ELSE s[1]

\* A list is as it was when the slots of it are.
LEMMA RingKept ==
    ASSUME NEW meta, NEW other, NEW s, Ring(meta, s), Members(s) \subseteq DOMAIN other,
           \A i \in Members(s) : other[i] = meta[i]
    PROVE  Ring(other, s)
BY DEF Ring, Members

\* Chained() links the slots of S in ascending order and touches no other.
IsChained(D, meta, S, state) ==
    LET made == Chained(meta, S, state) IN
    /\ made \in [D \cup S -> Links]
    /\ \A i \in D \ S : made[i] = meta[i]
    /\ \A i \in S : made[i].state = state
    /\ Ring(made, Abstract!Ascending(S))
    /\ HeadOf(S) = First(Abstract!Ascending(S))

\* The constructor and the rebuilds make such a list.
LEMMA ChainedFacts ==
    ASSUME NEW D, NEW meta \in [D -> Links], NEW S \in SUBSET Nat, IsFiniteSet(S),
           NEW state \in Category
    PROVE  IsChained(D, meta, S, state)
<1>. SUFFICES LET made == Chained(meta, S, state) IN
              /\ made \in [D \cup S -> Links]
              /\ \A i \in D \ S : made[i] = meta[i]
              /\ \A i \in S : made[i].state = state
              /\ Ring(made, Abstract!Ascending(S))
              /\ HeadOf(S) = First(Abstract!Ascending(S))
  BY DEF IsChained
<1>. DEFINE made == Chained(meta, S, state)
            a == Abstract!Ascending(S)
            n == Len(a)
<1>1. /\ a \in Seq(Nat) /\ n = Cardinality(S) /\ n \in Nat /\ Members(a) = S
      /\ Rises(a) /\ Distinct(a)
  BY AscendingFacts
<1>. HIDE DEF a
<1>2. \A k \in 1 .. n : /\ After(S, a[k]) = a[Succ(n, k)] /\ Before(S, a[k]) = a[Pred(n, k)]
                        /\ a[Succ(n, k)] \in Nat /\ a[Pred(n, k)] \in Nat /\ a[k] \in S
  <2>. SUFFICES ASSUME NEW k \in 1 .. n
                PROVE  /\ After(S, a[k]) = a[Succ(n, k)] /\ Before(S, a[k]) = a[Pred(n, k)]
                       /\ a[Succ(n, k)] \in Nat /\ a[Pred(n, k)] \in Nat /\ a[k] \in S
    OBVIOUS
  <2>1. After(S, a[k]) = a[Succ(n, k)] /\ Before(S, a[k]) = a[Pred(n, k)]
    BY <1>1, AfterFacts
  <2>2. Succ(n, k) \in 1 .. n /\ Pred(n, k) \in 1 .. n
    BY <1>1 DEF Succ, Pred
  <2>3. \A l \in 1 .. n : a[l] \in Nat
    BY <1>1
  <2>4. a[k] \in S
    BY <1>1 DEF Members
  <2>. QED
    BY <2>1, <2>2, <2>3, <2>4
<1>3. made = [i \in D \cup S |->
                 IF i \in S THEN [prev |-> Before(S, i), next |-> After(S, i), state |-> state]
                 ELSE meta[i]]
  BY DEF Chained
<1>. HIDE DEF made
<1>4. \A i \in S : /\ made[i] \in Links
                   /\ made[i] = [prev |-> Before(S, i), next |-> After(S, i), state |-> state]
  <2>. SUFFICES ASSUME NEW i \in S
                PROVE  /\ made[i] \in Links
                       /\ made[i] = [prev |-> Before(S, i), next |-> After(S, i), state |-> state]
    OBVIOUS
  <2>1. PICK k \in 1 .. n : i = a[k]
    BY <1>1 DEF Members
  <2>2. Before(S, i) \in Nat /\ After(S, i) \in Nat
    BY <1>2, <2>1
  <2>3. made[i] = [prev |-> Before(S, i), next |-> After(S, i), state |-> state]
    BY <1>3
  <2>. QED
    BY <2>2, <2>3 DEF Links
<1>5. made \in [D \cup S -> Links] /\ \A i \in D \ S : made[i] = meta[i]
  BY <1>3, <1>4
<1>6. Ring(made, a)
  <2>1. Members(a) \subseteq DOMAIN made
    BY <1>1, <1>3
  <2>2. \A k \in 1 .. n : made[a[k]].next = a[Succ(n, k)] /\ made[a[k]].prev = a[Pred(n, k)]
    <3>. SUFFICES ASSUME NEW k \in 1 .. n
                  PROVE  made[a[k]].next = a[Succ(n, k)] /\ made[a[k]].prev = a[Pred(n, k)]
      OBVIOUS
    <3>1. made[a[k]] = [prev |-> Before(S, a[k]), next |-> After(S, a[k]), state |-> state]
      BY <1>2, <1>4
    <3>. QED
      BY <1>2, <3>1
  <2>. QED
    BY <1>1, <2>1, <2>2 DEF Ring
<1>7. HeadOf(S) = First(a)
  <2>1. CASE n = 0
    <3>1. S = {}
      BY <1>1, <2>1, FS_EmptySet
    <3>. QED
      BY <2>1, <3>1 DEF HeadOf, First
  <2>2. CASE n # 0
    <3>1. 1 \in 1 .. n
      BY <1>1, <2>2
    <3>2. Min(S) = a[1] /\ S # {}
      BY <1>1, <1>2, <3>1, AfterFacts
    <3>. QED
      BY <2>2, <3>2 DEF HeadOf, First
  <2>. QED
    BY <2>1, <2>2
<1>. QED
  BY <1>4, <1>5, <1>6, <1>7 DEF made, a

\* One link of one slot.
LEMMA PrevSet ==
    ASSUME NEW D, NEW meta \in [D -> Links], NEW a \in D, NEW x \in Nat
    PROVE  LET made == [meta EXCEPT ![a].prev = x] IN
           /\ made \in [D -> Links] /\ \A i \in D : i # a => made[i] = meta[i]
           /\ \A i \in D : /\ made[i].prev = IF i = a THEN x ELSE meta[i].prev
                           /\ made[i].next = meta[i].next /\ made[i].state = meta[i].state
BY DEF Links

\* The other link.
LEMMA NextSet ==
    ASSUME NEW D, NEW meta \in [D -> Links], NEW a \in D, NEW x \in Nat
    PROVE  LET made == [meta EXCEPT ![a].next = x] IN
           /\ made \in [D -> Links] /\ \A i \in D : i # a => made[i] = meta[i]
           /\ \A i \in D : /\ made[i].next = IF i = a THEN x ELSE meta[i].next
                           /\ made[i].prev = meta[i].prev /\ made[i].state = meta[i].state
BY DEF Links

\* What is known of a list: its places, and the links at its ends.
LEMMA RingFacts ==
    ASSUME NEW D \in SUBSET Nat, NEW meta \in [D -> Links], NEW s, Ring(meta, s)
    PROVE  /\ Len(s) \in Nat /\ \A k \in 1 .. Len(s) : s[k] \in D /\ s[k] \in Members(s)
           /\ \A k, l \in 1 .. Len(s) : s[k] = s[l] => k = l
           /\ \A k \in 1 .. Len(s) : Succ(Len(s), k) \in 1 .. Len(s) /\ Pred(Len(s), k) \in 1 .. Len(s)
           /\ \A k \in 1 .. Len(s) : /\ meta[s[k]].next = s[Succ(Len(s), k)]
                                     /\ meta[s[k]].prev = s[Pred(Len(s), k)]
<1>1. Len(s) \in Nat
  BY DEF Ring
<1>2. \A k \in 1 .. Len(s) : Succ(Len(s), k) \in 1 .. Len(s) /\ Pred(Len(s), k) \in 1 .. Len(s)
  BY <1>1 DEF Succ, Pred
<1>. QED
  BY <1>1, <1>2 DEF Ring, Distinct, Members

\* combine_lists() appends the second list to the first.
IsCombined(D, meta, s, u) ==
    LET made == Combined(meta, First(s), First(u)) IN
    /\ made \in [D -> Links] /\ Ring(made, s \o u)
    /\ Members(s \o u) = Members(s) \cup Members(u)
    /\ First(s \o u) = CombinedHead(First(s), First(u))
    /\ \A i \in D : made[i].state = meta[i].state
    /\ \A i \in D \ (Members(s) \cup Members(u)) : made[i] = meta[i]

\* Two lists without a common slot become one.
LEMMA CombinedFacts ==
    ASSUME NEW D \in SUBSET Nat, NEW meta \in [D -> Links], NEW s, NEW u,
           Ring(meta, s), Ring(meta, u), Members(s) \cap Members(u) = {}
    PROVE  IsCombined(D, meta, s, u)
<1>. SUFFICES LET made == Combined(meta, First(s), First(u)) IN
              /\ made \in [D -> Links] /\ Ring(made, s \o u)
              /\ Members(s \o u) = Members(s) \cup Members(u)
              /\ First(s \o u) = CombinedHead(First(s), First(u))
              /\ \A i \in D : made[i].state = meta[i].state
              /\ \A i \in D \ (Members(s) \cup Members(u)) : made[i] = meta[i]
  BY DEF IsCombined
<1>. DEFINE n == Len(s)
            m == Len(u)
            made == Combined(meta, First(s), First(u))
            w == s \o u
<1>1. /\ s \in Seq(Nat) /\ u \in Seq(Nat) /\ n \in Nat /\ m \in Nat
      /\ \A k \in 1 .. n : s[k] \in D /\ s[k] \in Members(s) /\ s[k] \in Nat
      /\ \A k \in 1 .. m : u[k] \in D /\ u[k] \in Members(u) /\ u[k] \in Nat
      /\ \A k \in 1 .. n : meta[s[k]].next = s[Succ(n, k)] /\ meta[s[k]].prev = s[Pred(n, k)]
      /\ \A k \in 1 .. m : meta[u[k]].next = u[Succ(m, k)] /\ meta[u[k]].prev = u[Pred(m, k)]
  BY RingFacts DEF Ring
<1>2. /\ w \in Seq(Nat) /\ Len(w) = n + m
      /\ \A k \in 1 .. n + m : w[k] = IF k <= n THEN s[k] ELSE u[k - n]
  BY <1>1, ConcatProperties
<1>. SUFFICES /\ made \in [D -> Links] /\ Ring(made, w)
              /\ Members(w) = Members(s) \cup Members(u)
              /\ First(w) = CombinedHead(First(s), First(u))
              /\ \A i \in D : made[i].state = meta[i].state
              /\ \A i \in D \ (Members(s) \cup Members(u)) : made[i] = meta[i]
  BY DEF made, w
<1>. HIDE DEF n, m, made, w
<1>3. First(s) # -1 <=> n # 0
  <2>1. n # 0 => 1 \in 1 .. n
    BY <1>1
  <2>. QED
    BY <1>1, <2>1 DEF First, n, m
<1>4. First(u) # -1 <=> m # 0
  <2>1. m # 0 => 1 \in 1 .. m
    BY <1>1
  <2>. QED
    BY <1>1, <2>1 DEF First, n, m
<1>5. CASE n = 0 \/ m = 0
  <2>1. made = meta
    BY <1>3, <1>4, <1>5 DEF Combined, made
  <2>2. n = 0 => w = u /\ Members(s) = {}
    <3>1. n = 0 => s = << >>
      BY <1>1 DEF n
    <3>. QED
      BY <1>1, <3>1, ConcatEmptySeq DEF Members, w
  <2>3. m = 0 => w = s /\ Members(u) = {}
    <3>1. m = 0 => u = << >>
      BY <1>1 DEF m
    <3>. QED
      BY <1>1, <3>1, ConcatEmptySeq DEF Members, w
  <2>4. First(w) = CombinedHead(First(s), First(u))
    BY <1>3, <1>4, <1>5, <2>2, <2>3 DEF CombinedHead
  <2>5. Ring(made, w) /\ Members(w) = Members(s) \cup Members(u)
    BY <1>5, <2>1, <2>2, <2>3
  <2>. QED
    BY <2>1, <2>4, <2>5
<1>6. CASE n # 0 /\ m # 0
  <2>1. /\ 1 \in 1 .. n /\ n \in 1 .. n /\ 1 \in 1 .. m /\ m \in 1 .. m
        /\ First(s) = s[1] /\ First(u) = u[1]
    BY <1>1, <1>6 DEF First, n, m
  <2>2. meta[s[1]].prev = s[n] /\ meta[u[1]].prev = u[m]
    BY <1>1, <2>1 DEF Pred
  <2>. DEFINE m1 == [meta EXCEPT ![s[1]].prev = u[m]]
              m2 == [m1 EXCEPT ![s[n]].next = u[1]]
              m3 == [m2 EXCEPT ![u[1]].prev = s[n]]
              m4 == [m3 EXCEPT ![u[m]].next = s[1]]
  <2>3. made = m4
    <3>1. First(s) # -1 /\ First(u) # -1
      BY <1>3, <1>4, <1>6
    <3>2. made = [meta EXCEPT ![s[1]].prev = u[m], ![s[n]].next = u[1],
                              ![u[1]].prev = s[n], ![u[m]].next = s[1]]
      BY <2>1, <2>2, <3>1 DEF Combined, made
    <3>. QED
      BY <3>2
  <2>15. /\ s[1] \in D /\ s[n] \in D /\ u[1] \in D /\ u[m] \in D
         /\ s[1] \in Nat /\ s[n] \in Nat /\ u[1] \in Nat /\ u[m] \in Nat
    BY <1>1, <2>1
  <2>4. /\ m1 \in [D -> Links] /\ \A i \in D : i # s[1] => m1[i] = meta[i]
        /\ \A i \in D : /\ m1[i].prev = IF i = s[1] THEN u[m] ELSE meta[i].prev
                        /\ m1[i].next = meta[i].next /\ m1[i].state = meta[i].state
    BY <2>15, PrevSet
  <2>. HIDE DEF m1
  <2>5. /\ m2 \in [D -> Links] /\ \A i \in D : i # s[n] => m2[i] = m1[i]
        /\ \A i \in D : /\ m2[i].next = IF i = s[n] THEN u[1] ELSE m1[i].next
                        /\ m2[i].prev = m1[i].prev /\ m2[i].state = m1[i].state
    BY <2>15, <2>4, NextSet
  <2>. HIDE DEF m2
  <2>6. /\ m3 \in [D -> Links] /\ \A i \in D : i # u[1] => m3[i] = m2[i]
        /\ \A i \in D : /\ m3[i].prev = IF i = u[1] THEN s[n] ELSE m2[i].prev
                        /\ m3[i].next = m2[i].next /\ m3[i].state = m2[i].state
    BY <2>15, <2>5, PrevSet
  <2>. HIDE DEF m3
  <2>7. /\ m4 \in [D -> Links] /\ \A i \in D : i # u[m] => m4[i] = m3[i]
        /\ \A i \in D : /\ m4[i].next = IF i = u[m] THEN s[1] ELSE m3[i].next
                        /\ m4[i].prev = m3[i].prev /\ m4[i].state = m3[i].state
    BY <2>15, <2>6, NextSet
  <2>. HIDE DEF m4
  <2>8. /\ made \in [D -> Links]
        /\ \A i \in D :
              /\ made[i].next = IF i = u[m] THEN s[1] ELSE IF i = s[n] THEN u[1] ELSE meta[i].next
              /\ made[i].prev = IF i = u[1] THEN s[n] ELSE IF i = s[1] THEN u[m] ELSE meta[i].prev
              /\ made[i].state = meta[i].state
    BY <2>3, <2>4, <2>5, <2>6, <2>7
  <2>9. \A i \in D \ (Members(s) \cup Members(u)) : made[i] = meta[i]
    <3>. SUFFICES ASSUME NEW i \in D \ (Members(s) \cup Members(u)) PROVE made[i] = meta[i]
      OBVIOUS
    <3>1. i # s[1] /\ i # s[n] /\ i # u[1] /\ i # u[m] /\ i \in D
      BY <1>1, <2>1
    <3>2. m1[i] = meta[i] /\ m2[i] = m1[i] /\ m3[i] = m2[i] /\ m4[i] = m3[i]
      BY <2>4, <2>5, <2>6, <2>7, <3>1
    <3>. QED
      BY <2>3, <3>2
  <2>10. Members(w) = Members(s) \cup Members(u)
    <3>1. \A k \in 1 .. n : k \in 1 .. n + m /\ w[k] = s[k]
      BY <1>1, <1>2
    <3>2. \A k \in 1 .. m : n + k \in 1 .. n + m /\ w[n + k] = u[k]
      <4>1. \A k \in 1 .. m : n + k \in 1 .. n + m /\ ~ n + k <= n /\ (n + k) - n = k
        BY <1>1
      <4>. QED
        BY <1>2, <4>1
    <3>3. \A k \in 1 .. n + m : k \in 1 .. n \/ k - n \in 1 .. m
      BY <1>1
    <3>. QED
      <4>1. Members(s) = {s[k] : k \in 1 .. n} /\ Members(u) = {u[k] : k \in 1 .. m}
        BY DEF Members, n, m
      <4>2. Members(w) = {w[k] : k \in 1 .. n + m}
        BY <1>2 DEF Members
      <4>3. \A k \in 1 .. n + m : (w[k] = s[k] /\ k \in 1 .. n) \/ (w[k] = u[k - n] /\ k - n \in 1 .. m)
        <5>. SUFFICES ASSUME NEW k \in 1 .. n + m
                      PROVE  (w[k] = s[k] /\ k \in 1 .. n) \/ (w[k] = u[k - n] /\ k - n \in 1 .. m)
          OBVIOUS
        <5>1. k <= n => k \in 1 .. n
          BY <1>1
        <5>2. ~ k <= n => k - n \in 1 .. m
          BY <1>1
        <5>. QED
          BY <1>2, <5>1, <5>2
      <4>. QED
        BY <3>1, <3>2, <4>1, <4>2, <4>3
  <2>11. Distinct(w)
    <3>. SUFFICES ASSUME NEW k \in 1 .. n + m, NEW l \in 1 .. n + m, w[k] = w[l] PROVE k = l
      BY <1>2 DEF Distinct
    <3>1. (k <= n => k \in 1 .. n) /\ (~ k <= n => k - n \in 1 .. m)
      BY <1>1
    <3>2. (l <= n => l \in 1 .. n) /\ (~ l <= n => l - n \in 1 .. m)
      BY <1>1
    <3>3. /\ \A x, y \in 1 .. n : s[x] = s[y] => x = y
          /\ \A x, y \in 1 .. m : u[x] = u[y] => x = y
          /\ \A x \in 1 .. n, y \in 1 .. m : s[x] # u[y]
      BY <1>1, RingFacts DEF n, m
    <3>4. k \in Int /\ l \in Int
      OBVIOUS
    <3>5. CASE k <= n /\ l <= n
      BY <1>2, <3>1, <3>2, <3>3, <3>5
    <3>6. CASE k <= n /\ ~ l <= n
      BY <1>2, <3>1, <3>2, <3>3, <3>6
    <3>7. CASE ~ k <= n /\ l <= n
      BY <1>2, <3>1, <3>2, <3>3, <3>7
    <3>8. CASE ~ k <= n /\ ~ l <= n
      <4>1. k - n = l - n
        BY <1>2, <3>1, <3>2, <3>3, <3>8
      <4>. QED
        BY <1>1, <3>4, <4>1
    <3>. QED
      BY <3>5, <3>6, <3>7, <3>8
  <2>12. ASSUME NEW k \in 1 .. n + m
         PROVE  made[w[k]].next = w[Succ(n + m, k)] /\ made[w[k]].prev = w[Pred(n + m, k)]
    <3>1. /\ \A x, y \in 1 .. n : s[x] = s[y] => x = y
          /\ \A x, y \in 1 .. m : u[x] = u[y] => x = y
          /\ \A x \in 1 .. n, y \in 1 .. m : s[x] # u[y]
      BY <1>1, RingFacts DEF n, m
    <3>2. CASE k <= n
      <4>1. k \in 1 .. n /\ w[k] = s[k] /\ k \in Nat
        BY <1>1, <1>2, <3>2
      <4>2. meta[s[k]].next = s[Succ(n, k)] /\ meta[s[k]].prev = s[Pred(n, k)]
        BY <1>1, <4>1
      <4>3. made[w[k]].next = IF k = n THEN u[1] ELSE s[k + 1]
        <5>1. s[k] # u[m] /\ (s[k] = s[n] <=> k = n) /\ s[k] \in D
          BY <1>1, <2>1, <3>1, <4>1
        <5>. QED
          BY <2>8, <4>1, <4>2, <5>1 DEF Succ
      <4>4. made[w[k]].prev = IF k = 1 THEN u[m] ELSE s[k - 1]
        <5>1. s[k] # u[1] /\ (s[k] = s[1] <=> k = 1) /\ s[k] \in D
          BY <1>1, <2>1, <3>1, <4>1
        <5>. QED
          BY <2>8, <4>1, <4>2, <5>1 DEF Pred
      <4>5. w[Succ(n + m, k)] = IF k = n THEN u[1] ELSE s[k + 1]
        <5>1. Succ(n + m, k) = k + 1 /\ k + 1 \in 1 .. n + m /\ (k = n <=> ~ k + 1 <= n)
          BY <1>1, <1>6, <4>1 DEF Succ
        <5>2. k = n => w[k + 1] = u[1]
          <6>1. k = n => (k + 1) - n = 1
            BY <1>1
          <6>. QED
            BY <1>2, <5>1, <6>1
        <5>. QED
          BY <1>2, <5>1, <5>2
      <4>6. w[Pred(n + m, k)] = IF k = 1 THEN u[m] ELSE s[k - 1]
        <5>1. CASE k = 1
          <6>1. Pred(n + m, k) = n + m /\ n + m \in 1 .. n + m /\ ~ n + m <= n /\ (n + m) - n = m
            BY <1>1, <1>6, <5>1 DEF Pred
          <6>. QED
            BY <1>2, <5>1, <6>1
        <5>2. CASE k # 1
          <6>1. Pred(n + m, k) = k - 1 /\ k - 1 \in 1 .. n + m /\ k - 1 <= n
            BY <1>1, <4>1, <5>2 DEF Pred
          <6>. QED
            BY <1>2, <5>2, <6>1
        <5>. QED
          BY <5>1, <5>2
      <4>. QED
        BY <4>3, <4>4, <4>5, <4>6
    <3>3. CASE ~ k <= n
      <4>. DEFINE j == k - n
      <4>1. j \in 1 .. m /\ w[k] = u[j] /\ j \in Nat /\ k = j + n
        BY <1>1, <1>2, <3>3
      <4>. HIDE DEF j
      <4>2. meta[u[j]].next = u[Succ(m, j)] /\ meta[u[j]].prev = u[Pred(m, j)]
        BY <1>1, <4>1
      <4>3. made[w[k]].next = IF j = m THEN s[1] ELSE u[j + 1]
        <5>1. s[n] # u[j] /\ (u[j] = u[m] <=> j = m) /\ u[j] \in D
          BY <1>1, <2>1, <3>1, <4>1
        <5>. QED
          BY <2>8, <4>1, <4>2, <5>1, ZenonT(60) DEF Succ
      <4>4. made[w[k]].prev = IF j = 1 THEN s[n] ELSE u[j - 1]
        <5>1. s[1] # u[j] /\ (u[j] = u[1] <=> j = 1) /\ u[j] \in D
          BY <1>1, <2>1, <3>1, <4>1
        <5>. QED
          BY <2>8, <4>1, <4>2, <5>1 DEF Pred
      <4>5. w[Succ(n + m, k)] = IF j = m THEN s[1] ELSE u[j + 1]
        <5>1. CASE j = m
          <6>1. Succ(n + m, k) = 1 /\ 1 \in 1 .. n + m /\ 1 <= n
            BY <1>1, <1>6, <4>1, <5>1 DEF Succ
          <6>. QED
            BY <1>2, <5>1, <6>1
        <5>2. CASE j # m
          <6>1. Succ(n + m, k) = k + 1 /\ k + 1 \in 1 .. n + m /\ ~ k + 1 <= n /\ (k + 1) - n = j + 1
            BY <1>1, <4>1, <5>2 DEF Succ
          <6>. QED
            BY <1>2, <5>2, <6>1
        <5>. QED
          BY <5>1, <5>2
      <4>6. w[Pred(n + m, k)] = IF j = 1 THEN s[n] ELSE u[j - 1]
        <5>1. Pred(n + m, k) = k - 1 /\ k - 1 \in 1 .. n + m /\ (j = 1 <=> k - 1 <= n)
              /\ (k - 1) - n = j - 1 /\ (j = 1 => k - 1 = n)
          BY <1>1, <1>6, <4>1 DEF Pred
        <5>. QED
          BY <1>2, <5>1
      <4>. QED
        BY <4>3, <4>4, <4>5, <4>6
    <3>. QED
      BY <3>2, <3>3
  <2>13. First(w) = CombinedHead(First(s), First(u))
    <3>1. 1 \in 1 .. n + m /\ 1 <= n /\ Len(w) # 0
      BY <1>1, <1>2, <1>6
    <3>2. w[1] = s[1]
      BY <1>2, <3>1
    <3>. QED
      BY <1>3, <1>6, <2>1, <3>1, <3>2 DEF First, CombinedHead
  <2>14. Ring(made, w)
    <3>1. Members(w) \subseteq DOMAIN made
      BY <1>1, <2>8, <2>10 DEF Ring
    <3>. QED
      BY <1>2, <2>11, <2>12, <3>1 DEF Ring
  <2>. QED
    BY <2>8, <2>9, <2>10, <2>13, <2>14
<1>. QED
  BY <1>1, <1>5, <1>6

\* A list of one slot.
LEMMA Alone ==
    ASSUME NEW i \in Nat
    PROVE  /\ <<i>> \in Seq(Nat) /\ Len(<<i>>) = 1 /\ <<i>>[1] = i /\ Members(<<i>>) = {i}
           /\ First(<<i>>) = i /\ Distinct(<<i>>) /\ Rises(<<i>>)
<1>1. <<i>> \in Seq(Nat) /\ Len(<<i>>) = 1 /\ <<i>>[1] = i
  OBVIOUS
<1>2. 1 .. 1 = {1}
  OBVIOUS
<1>3. Members(<<i>>) = {i}
  BY <1>1, <1>2 DEF Members
<1>. QED
  BY <1>1, <1>2, <1>3 DEF First, Distinct, Rises

\* attach_to_loose() and attach_to_empty() put a slot before the others.
IsLinked(D, meta, u, i, state) ==
    LET made == Linked(meta, i, First(u), state) IN
    /\ made \in [D -> Links] /\ Ring(made, <<i>> \o u)
    /\ Members(<<i>> \o u) = Members(u) \cup {i} /\ First(<<i>> \o u) = i
    /\ Len(<<i>> \o u) = Len(u) + 1
    /\ made[i].state = state /\ \A j \in D : j # i => made[j].state = meta[j].state
    /\ \A j \in D \ (Members(u) \cup {i}) : made[j] = meta[j]

\* A slot that was in no list is the first of this one.
LEMMA LinkedFacts ==
    ASSUME NEW D \in SUBSET Nat, NEW meta \in [D -> Links], NEW u, Ring(meta, u),
           NEW i \in D, i \notin Members(u), NEW state \in Category
    PROVE  IsLinked(D, meta, u, i, state)
<1>. SUFFICES LET made == Linked(meta, i, First(u), state) IN
              /\ made \in [D -> Links] /\ Ring(made, <<i>> \o u)
              /\ Members(<<i>> \o u) = Members(u) \cup {i} /\ First(<<i>> \o u) = i
              /\ Len(<<i>> \o u) = Len(u) + 1
              /\ made[i].state = state /\ \A j \in D : j # i => made[j].state = meta[j].state
              /\ \A j \in D \ (Members(u) \cup {i}) : made[j] = meta[j]
  BY DEF IsLinked
<1>. DEFINE alone == [prev |-> i, next |-> i, state |-> state]
            meta1 == [meta EXCEPT ![i] = alone]
            made == Linked(meta, i, First(u), state)
            w == <<i>> \o u
<1>1. alone \in Links /\ i \in Nat
  BY DEF Links
<1>2. meta1 \in [D -> Links] /\ meta1[i] = alone /\ \A j \in D : j # i => meta1[j] = meta[j]
  BY <1>1
<1>3. Ring(meta1, <<i>>)
  <2>1. 1 .. 1 = {1} /\ Members(<<i>>) \subseteq DOMAIN meta1
    BY <1>1, <1>2, Alone
  <2>. HIDE DEF meta1
  <2>2. meta1[i].next = i /\ meta1[i].prev = i
    BY <1>2
  <2>. QED
    BY <1>1, <2>1, <2>2, Alone DEF Ring, Succ, Pred
<1>4. Ring(meta1, u)
  <2>1. Members(u) \subseteq D
    BY DEF Ring
  <2>2. \A j \in Members(u) : meta1[j] = meta[j]
    BY <1>2, <2>1
  <2>. QED
    BY <1>2, <2>1, <2>2, RingKept
<1>5. Members(<<i>>) = {i} /\ First(<<i>>) = i
  BY <1>1, Alone
<1>6. /\ u \in Seq(Nat) /\ Len(u) \in Nat
      /\ \A k \in 1 .. Len(u) : u[k] \in D /\ u[k] \in Members(u)
      /\ \A k \in 1 .. Len(u) : meta[u[k]].prev = u[Pred(Len(u), k)]
  BY RingFacts DEF Ring
<1>7. made = Combined(meta1, i, First(u))
  <2>1. CASE Len(u) = 0
    BY <1>1, <2>1 DEF Combined, Linked, First
  <2>2. CASE Len(u) # 0
    <3>. DEFINE h == u[1]
                t == u[Len(u)]
    <3>1. /\ 1 \in 1 .. Len(u) /\ Len(u) \in 1 .. Len(u)
          /\ First(u) = h /\ h # -1 /\ h # i /\ t # i /\ h \in D /\ t \in D
      BY <1>6, <2>2 DEF First
    <3>2. meta[h].prev = t
      BY <1>6, <3>1 DEF Pred
    <3>3. meta1[h].prev = t /\ meta1[i].prev = i
      BY <1>2, <3>1, <3>2
    <3>. HIDE DEF h, t
    <3>4. made = [meta EXCEPT ![i] = [prev |-> t, next |-> h, state |-> state],
                              ![t].next = i, ![h].prev = i]
      BY <3>1, <3>2 DEF Linked
    <3>5. Combined(meta1, i, h) = [meta1 EXCEPT ![i].prev = t, ![i].next = h, ![h].prev = i, ![t].next = i]
      <4>. HIDE DEF meta1
      <4>. QED
        BY <1>1, <3>1, <3>3 DEF Combined
    <3>. HIDE DEF made
    <3>6. Combined(meta1, i, h) = [meta EXCEPT ![i] = [prev |-> t, next |-> h, state |-> state],
                                               ![t].next = i, ![h].prev = i]
      BY <3>1, <3>5 DEF Links
    <3>. QED
      BY <3>1, <3>4, <3>6
  <2>. QED
    BY <2>1, <2>2
<1>. HIDE DEF meta1, made, w
<1>8. /\ made \in [D -> Links] /\ Ring(made, w)
      /\ Members(w) = {i} \cup Members(u)
      /\ First(w) = CombinedHead(i, First(u))
      /\ \A j \in D : made[j].state = meta1[j].state
      /\ \A j \in D \ ({i} \cup Members(u)) : made[j] = meta1[j]
  <2>1. Members(<<i>>) \cap Members(u) = {}
    BY <1>5
  <2>. QED
    <3>1. IsCombined(D, meta1, <<i>>, u)
      BY <1>2, <1>3, <1>4, <2>1, CombinedFacts
    <3>. QED
      BY <1>5, <1>7, <3>1 DEF IsCombined, w
<1>9. First(w) = i
  BY <1>1, <1>8 DEF CombinedHead
<1>10. Len(w) = Len(u) + 1
  <2>1. Len(<<i>>) = 1 /\ <<i>> \in Seq(Nat)
    BY <1>1, Alone
  <2>. QED
    BY <1>6, <2>1, ConcatProperties DEF w
<1>11. made[i].state = state /\ \A j \in D : j # i => made[j].state = meta[j].state
  BY <1>2, <1>8
<1>12. \A j \in D \ (Members(u) \cup {i}) : made[j] = meta[j]
  BY <1>2, <1>8
<1>. QED
  BY <1>8, <1>9, <1>10, <1>11, <1>12 DEF made, w


\* The place in a list of n of what is k-th without the p-th, and its neighbours.
Skip(p, k) == IF p <= k THEN k + 1 ELSE k

\* What is skipped, and who becomes a neighbour of whom.
LEMMA SkipFacts ==
    ASSUME NEW n \in Nat, NEW p \in 1 .. n, NEW k \in 1 .. n - 1
    PROVE  /\ Skip(p, k) \in 1 .. n /\ Skip(p, k) # p
           /\ Succ(n - 1, k) \in 1 .. n - 1 /\ Pred(n - 1, k) \in 1 .. n - 1
           /\ Skip(p, Succ(n - 1, k)) =
                 IF Skip(p, k) = Pred(n, p) THEN Succ(n, p) ELSE Succ(n, Skip(p, k))
           /\ Skip(p, Pred(n - 1, k)) =
                 IF Skip(p, k) = Succ(n, p) THEN Pred(n, p) ELSE Pred(n, Skip(p, k))
BY DEF Skip, Succ, Pred

\* The sequence without its p-th slot.
IsWithout(s, p) ==
    LET v == Abstract!Without(s, s[p]) IN
    /\ v \in Seq(Nat) /\ Len(v) = Len(s) - 1 /\ Distinct(v)
    /\ \A k \in 1 .. Len(s) - 1 : v[k] = s[Skip(p, k)]
    /\ Members(v) = Members(s) \ {s[p]}

\* Without() leaves out one place and keeps the order.
LEMMA WithoutFacts ==
    ASSUME NEW s \in Seq(Nat), Distinct(s), NEW p \in 1 .. Len(s)
    PROVE  IsWithout(s, p)
<1>. SUFFICES LET v == Abstract!Without(s, s[p]) IN
              /\ v \in Seq(Nat) /\ Len(v) = Len(s) - 1 /\ Distinct(v)
              /\ \A k \in 1 .. Len(s) - 1 : v[k] = s[Skip(p, k)]
              /\ Members(v) = Members(s) \ {s[p]}
  BY DEF IsWithout
<1>. DEFINE v == Abstract!Without(s, s[p])
            n == Len(s)
<1>1. n \in Nat /\ n - 1 \in Nat /\ p \in Nat
  OBVIOUS
<1>2. v = [k \in 1 .. n - 1 |-> IF \E j \in 1 .. k : s[j] = s[p] THEN s[k + 1] ELSE s[k]]
  BY DEF Abstract!Without
<1>. HIDE DEF v
<1>3. ASSUME NEW k \in 1 .. n - 1 PROVE v[k] = s[Skip(p, k)] /\ v[k] \in Nat /\ Skip(p, k) \in 1 .. n
  <2>1. (\E j \in 1 .. k : s[j] = s[p]) <=> p <= k
    <3>1. \A j \in 1 .. k : j \in 1 .. n /\ (s[j] = s[p] => j = p)
      BY <1>1 DEF Distinct
    <3>2. p <= k => p \in 1 .. k
      BY <1>1
    <3>3. \A j \in 1 .. k : j <= k
      OBVIOUS
    <3>. QED
      BY <3>1, <3>2, <3>3
  <2>2. v[k] = s[Skip(p, k)]
    BY <1>2, <2>1 DEF Skip
  <2>3. Skip(p, k) \in 1 .. n
    BY <1>1, SkipFacts
  <2>. HIDE DEF n
  <2>. QED
    BY <2>2, <2>3 DEF n
<1>4. v \in Seq(Nat) /\ Len(v) = n - 1
  <2>1. v \in [1 .. n - 1 -> Nat]
    BY <1>2, <1>3
  <2>. QED
    BY <1>1, <2>1
<1>5. Distinct(v)
  <2>. SUFFICES ASSUME NEW k \in 1 .. n - 1, NEW l \in 1 .. n - 1, v[k] = v[l] PROVE k = l
    BY <1>4 DEF Distinct
  <2>1. Skip(p, k) = Skip(p, l)
    BY <1>3 DEF Distinct
  <2>2. k \in Nat /\ l \in Nat
    OBVIOUS
  <2>. QED
    BY <1>1, <2>1, <2>2 DEF Skip
<1>6. Members(v) = Members(s) \ {s[p]}
  <2>1. \A k \in 1 .. n - 1 : v[k] \in Members(s) \ {s[p]}
    <3>. SUFFICES ASSUME NEW k \in 1 .. n - 1 PROVE v[k] \in Members(s) \ {s[p]}
      OBVIOUS
    <3>1. Skip(p, k) \in 1 .. n /\ Skip(p, k) # p
      BY <1>1, SkipFacts
    <3>2. s[Skip(p, k)] # s[p] /\ s[Skip(p, k)] \in Members(s)
      BY <3>1 DEF Distinct, Members
    <3>. QED
      BY <1>3, <3>2
  <2>2. \A q \in 1 .. n : q # p => \E k \in 1 .. n - 1 : v[k] = s[q]
    <3>. SUFFICES ASSUME NEW q \in 1 .. n, q # p PROVE \E k \in 1 .. n - 1 : v[k] = s[q]
      OBVIOUS
    <3>. DEFINE k == IF q < p THEN q ELSE q - 1
    <3>1. k \in 1 .. n - 1 /\ Skip(p, k) = q
      BY <1>1 DEF Skip
    <3>. HIDE DEF k
    <3>. QED
      BY <1>3, <3>1
  <2>3. Members(v) = {v[k] : k \in 1 .. n - 1}
    BY <1>4 DEF Members
  <2>4. ASSUME NEW j \in Members(s) \ {s[p]} PROVE j \in Members(v)
    <3>1. PICK q \in 1 .. n : j = s[q]
      BY DEF Members
    <3>. QED
      BY <2>2, <2>3, <3>1
  <2>. QED
    BY <2>1, <2>3, <2>4
<1>. QED
  BY <1>3, <1>4, <1>5, <1>6 DEF v

\* remove_from_loose() and remove_from_empty()
IsUnlinked(D, meta, s, i) ==
    LET made == Unlinked(meta, i)
        v == Abstract!Without(s, i)
    IN /\ made \in [D -> Links] /\ Ring(made, v)
       /\ Members(v) = Members(s) \ {i} /\ Len(v) = Len(s) - 1
       /\ HeadWithout(meta, First(s), i, Len(s) - 1) = First(v)
       /\ \A j \in D : made[j].state = meta[j].state
       /\ \A j \in D \ Members(s) : made[j] = meta[j]

\* The neighbours of a slot that is taken out are linked to each other.
LEMMA UnlinkedFacts ==
    ASSUME NEW D \in SUBSET Nat, NEW meta \in [D -> Links], NEW s, Ring(meta, s),
           NEW i \in Members(s)
    PROVE  IsUnlinked(D, meta, s, i)
<1>. SUFFICES LET made == Unlinked(meta, i)
                  v == Abstract!Without(s, i)
              IN /\ made \in [D -> Links] /\ Ring(made, v)
                 /\ Members(v) = Members(s) \ {i} /\ Len(v) = Len(s) - 1
                 /\ HeadWithout(meta, First(s), i, Len(s) - 1) = First(v)
                 /\ \A j \in D : made[j].state = meta[j].state
                 /\ \A j \in D \ Members(s) : made[j] = meta[j]
  BY DEF IsUnlinked
<1>. DEFINE made == Unlinked(meta, i)
            v == Abstract!Without(s, i)
            n == Len(s)
<1>1. PICK p \in 1 .. n : i = s[p]
  BY DEF Members
<1>2. /\ s \in Seq(Nat) /\ n \in Nat /\ p \in Nat /\ n >= 1 /\ Distinct(s)
      /\ \A k \in 1 .. n : s[k] \in D /\ s[k] \in Members(s) /\ s[k] \in Nat
      /\ \A k, l \in 1 .. n : s[k] = s[l] => k = l
      /\ \A k \in 1 .. n : Succ(n, k) \in 1 .. n /\ Pred(n, k) \in 1 .. n
      /\ \A k \in 1 .. n : meta[s[k]].next = s[Succ(n, k)] /\ meta[s[k]].prev = s[Pred(n, k)]
  <2>1. s \in Seq(Nat) /\ Distinct(s)
    BY DEF Ring
  <2>2. n \in Nat /\ p \in Nat /\ n >= 1
    BY <2>1
  <2>3. \A k \in 1 .. n : s[k] \in Nat
    BY <2>1
  <2>4. \A k \in 1 .. n : s[k] \in D /\ s[k] \in Members(s)
    BY DEF Ring, Members
  <2>5. \A k, l \in 1 .. n : s[k] = s[l] => k = l
    BY DEF Ring, Distinct
  <2>6. \A k \in 1 .. n : Succ(n, k) \in 1 .. n /\ Pred(n, k) \in 1 .. n
    <3>. HIDE DEF n
    <3>. QED
      BY <2>2 DEF Succ, Pred
  <2>7. \A k \in 1 .. n : meta[s[k]].next = s[Succ(n, k)] /\ meta[s[k]].prev = s[Pred(n, k)]
    BY DEF Ring
  <2>. HIDE DEF n
  <2>. QED
    BY <2>1, <2>2, <2>3, <2>4, <2>5, <2>6, <2>7
<1>3. /\ v \in Seq(Nat) /\ Len(v) = n - 1 /\ Distinct(v) /\ Members(v) = Members(s) \ {i}
      /\ \A k \in 1 .. n - 1 : v[k] = s[Skip(p, k)]
  <2>1. IsWithout(s, p)
    BY <1>2, WithoutFacts
  <2>. QED
    BY <1>1, <2>1 DEF IsWithout
<1>. DEFINE before == s[Pred(n, p)]
            after == s[Succ(n, p)]
            m1 == [meta EXCEPT ![before].next = after]
            m2 == [m1 EXCEPT ![after].prev = before]
<1>4. /\ before \in D /\ after \in D /\ before \in Nat /\ after \in Nat
      /\ before \in Members(s) /\ after \in Members(s)
      /\ meta[i].next = after /\ meta[i].prev = before
  <2>. HIDE DEF n
  <2>1. Succ(n, p) \in 1 .. n /\ Pred(n, p) \in 1 .. n
    BY <1>2
  <2>. QED
    BY <1>1, <1>2, <2>1
<1>. SUFFICES /\ made \in [D -> Links] /\ Ring(made, v)
              /\ HeadWithout(meta, First(s), i, n - 1) = First(v)
              /\ \A j \in D : made[j].state = meta[j].state
              /\ \A j \in D \ Members(s) : made[j] = meta[j]
  BY <1>3
<1>5. made = m2
  <2>. HIDE DEF before, after
  <2>1. made = [meta EXCEPT ![before].next = after, ![after].prev = before]
    BY <1>4 DEF Unlinked
  <2>. QED
    BY <2>1
<1>. HIDE DEF made, v, n, before, after
<1>6. /\ m1 \in [D -> Links] /\ \A j \in D : j # before => m1[j] = meta[j]
      /\ \A j \in D : /\ m1[j].next = IF j = before THEN after ELSE meta[j].next
                      /\ m1[j].prev = meta[j].prev /\ m1[j].state = meta[j].state
  BY <1>4, NextSet
<1>. HIDE DEF m1
<1>7. /\ m2 \in [D -> Links] /\ \A j \in D : j # after => m2[j] = m1[j]
      /\ \A j \in D : /\ m2[j].prev = IF j = after THEN before ELSE m1[j].prev
                      /\ m2[j].next = m1[j].next /\ m2[j].state = m1[j].state
  BY <1>4, <1>6, PrevSet
<1>. HIDE DEF m2
<1>8. /\ made \in [D -> Links]
      /\ \A j \in D : /\ made[j].next = IF j = before THEN after ELSE meta[j].next
                      /\ made[j].prev = IF j = after THEN before ELSE meta[j].prev
                      /\ made[j].state = meta[j].state
      /\ \A j \in D \ Members(s) : made[j] = meta[j]
  BY <1>4, <1>5, <1>6, <1>7
<1>9. ASSUME NEW k \in 1 .. n - 1
      PROVE  made[v[k]].next = v[Succ(n - 1, k)] /\ made[v[k]].prev = v[Pred(n - 1, k)]
  <2>. DEFINE q == Skip(p, k)
  <2>1. /\ q \in 1 .. n /\ q # p
        /\ Succ(n - 1, k) \in 1 .. n - 1 /\ Pred(n - 1, k) \in 1 .. n - 1
        /\ Skip(p, Succ(n - 1, k)) = IF q = Pred(n, p) THEN Succ(n, p) ELSE Succ(n, q)
        /\ Skip(p, Pred(n - 1, k)) = IF q = Succ(n, p) THEN Pred(n, p) ELSE Pred(n, q)
    BY <1>2, SkipFacts, ZenonT(60)
  <2>2. v[k] = s[q]
    BY <1>3
  <2>. HIDE DEF q
  <2>3. /\ v[Succ(n - 1, k)] = s[IF q = Pred(n, p) THEN Succ(n, p) ELSE Succ(n, q)]
        /\ v[Pred(n - 1, k)] = s[IF q = Succ(n, p) THEN Pred(n, p) ELSE Pred(n, q)]
    BY <1>3, <2>1
  <2>4. s[q] \in D /\ (s[q] = before <=> q = Pred(n, p)) /\ (s[q] = after <=> q = Succ(n, p))
    BY <1>2, <2>1 DEF before, after
  <2>5. /\ made[s[q]].next = IF q = Pred(n, p) THEN after ELSE s[Succ(n, q)]
        /\ made[s[q]].prev = IF q = Succ(n, p) THEN before ELSE s[Pred(n, q)]
    BY <1>2, <1>8, <2>1, <2>4
  <2>. QED
    BY <2>2, <2>3, <2>5 DEF before, after
<1>10. Ring(made, v)
  <2>1. Members(v) \subseteq DOMAIN made
    <3>1. Members(s) \subseteq D
      BY DEF Ring
    <3>. QED
      BY <1>3, <1>8, <3>1
  <2>. QED
    BY <1>3, <1>9, <2>1 DEF Ring
<1>11. HeadWithout(meta, First(s), i, n - 1) = First(v)
  <2>1. First(s) = s[1] /\ 1 \in 1 .. n
    BY <1>2 DEF First, n
  <2>2. CASE p = 1
    <3>1. HeadWithout(meta, First(s), i, n - 1) = IF n - 1 = 0 THEN -1 ELSE after
      BY <1>1, <1>4, <2>1, <2>2 DEF HeadWithout
    <3>2. CASE n = 1
      BY <1>3, <3>1, <3>2 DEF First
    <3>3. CASE n # 1
      <4>1. 1 \in 1 .. n - 1 /\ n - 1 # 0 /\ Skip(p, 1) = 2 /\ Succ(n, p) = 2
        BY <1>2, <2>2, <3>3 DEF Skip, Succ
      <4>. QED
        BY <1>3, <3>1, <4>1 DEF First, after
    <3>. QED
      BY <3>2, <3>3
  <2>3. CASE p # 1
    <3>1. 1 \in 1 .. n - 1 /\ n - 1 # 0 /\ Skip(p, 1) = 1
      BY <1>2, <2>3 DEF Skip
    <3>2. s[1] # i
      BY <1>1, <1>2, <2>1, <2>3
    <3>. QED
      BY <1>3, <2>1, <3>1, <3>2 DEF First, HeadWithout
  <2>. QED
    BY <2>2, <2>3
<1>. QED
  BY <1>8, <1>10, <1>11

----------------------------------------------------------------------------
(* The two lists of a domain, and a slot that moves between them *)

\* The metadata of n slots.
Fields(n) ==
    [capacity : {n}, peak_usage : Nat, peak_index : Int, high_index : Int,
     count : [Category -> Int], head : [Category -> Int], meta : [Slots(n) -> Links]]

\* ... and of some number of slots.
Typed(t) == t \in Fields(t.capacity) /\ t.capacity \in Nat

\* The list of a category is s, and its header knows so.
IsList(t, c, s) ==
    /\ Ring(t.meta, s) /\ Members(s) = Of(t, c)
    /\ t.count[c] = Len(s) /\ t.head[c] = First(s)

\* The traversal of a list by its links finds its sequence.
LEMMA ListedIs ==
    ASSUME NEW t, NEW c, NEW s, IsList(t, c, s)
    PROVE  Listed(t, c) = s
<1>. DEFINE n == Len(s)
            m == t.meta
            h == t.head[c]
            Follows(f) == f = [k \in 1 .. n |-> IF k = 1 THEN h ELSE m[f[k - 1]].next]
<1>1. /\ n \in Nat /\ t.count[c] = n /\ s \in Seq(Nat) /\ s = [k \in 1 .. n |-> s[k]]
      /\ \A k \in 1 .. n : m[s[k]].next = s[Succ(n, k)]
  BY DEF IsList, Ring
<1>2. n # 0 => h = s[1]
  BY DEF IsList, First
<1>. HIDE DEF n, m, h
<1>3. \A k \in 1 .. n : s[k] = IF k = 1 THEN h ELSE m[s[k - 1]].next
  <2>. SUFFICES ASSUME NEW k \in 1 .. n PROVE s[k] = IF k = 1 THEN h ELSE m[s[k - 1]].next
    OBVIOUS
  <2>1. CASE k = 1
    BY <1>1, <1>2, <2>1
  <2>2. CASE k # 1
    <3>1. k - 1 \in 1 .. n /\ Succ(n, k - 1) = k
      BY <1>1, <2>2 DEF Succ
    <3>. QED
      BY <1>1, <2>2, <3>1
  <2>. QED
    BY <2>1, <2>2
<1>4. Follows(s)
  BY <1>1, <1>3
<1>5. Listed(t, c) = CHOOSE f : Follows(f)
  BY <1>1 DEF Listed, m, h
<1>6. Follows(Listed(t, c))
  BY <1>4, <1>5
<1>. DEFINE f == Listed(t, c)
<1>7. f = [k \in 1 .. n |-> IF k = 1 THEN h ELSE m[f[k - 1]].next]
  BY <1>6
<1>. HIDE DEF f
<1>8. \A k \in 1 .. n : f[k] = s[k]
  <2>. DEFINE S == {k \in 1 .. n : f[k] # s[k]}
  <2>1. CASE S = {}
    BY <2>1
  <2>2. CASE S # {}
    <3>1. S \in SUBSET Nat
      OBVIOUS
    <3>2. PICK k \in S : \A j \in S : k <= j
      <4>. HIDE DEF S
      <4>. QED
        BY <2>2, <3>1, Smallest
    <3>3. k \in 1 .. n /\ f[k] # s[k]
      BY <3>2
    <3>4. f[k] = IF k = 1 THEN h ELSE m[f[k - 1]].next
      BY <1>7, <3>3
    <3>5. k # 1
      BY <1>3, <3>3, <3>4
    <3>6. k - 1 \in 1 .. n /\ ~ k <= k - 1
      BY <1>1, <3>3, <3>5
    <3>7. f[k - 1] = s[k - 1]
      BY <3>2, <3>6
    <3>. QED
      BY <1>3, <3>3, <3>4, <3>5, <3>7
  <2>. QED
    BY <2>1, <2>2
<1>9. f = s
  BY <1>1, <1>7, <1>8
<1>. QED
  BY <1>9 DEF f

\* Nothing else of the domain changes when a slot goes from one list to another.
FieldsMoved(t, i, from, to) ==
    LET r == Moved(t, i, from, to)
        left == t.count[from] - 1
    IN /\ Typed(r)
       /\ r.capacity = t.capacity /\ r.peak_usage = t.peak_usage
       /\ r.peak_index = t.peak_index /\ r.high_index = t.high_index
       /\ r.count[from] = left /\ r.count[to] = t.count[to] + 1
       /\ r.head[from] = HeadWithout(t.meta, t.head[from], i, left) /\ r.head[to] = i
       /\ r.meta = Linked(Unlinked(t.meta, i), i, t.head[to], to)

\* The fields, one by one.
LEMMA MovedFields ==
    ASSUME NEW t, Typed(t), NEW i \in Int, NEW from \in Category, NEW to \in Category, from # to,
           Linked(Unlinked(t.meta, i), i, t.head[to], to) \in [Slots(t.capacity) -> Links],
           HeadWithout(t.meta, t.head[from], i, t.count[from] - 1) \in Int
    PROVE  FieldsMoved(t, i, from, to)
<1>. SUFFICES LET r == Moved(t, i, from, to)
                  left == t.count[from] - 1
              IN /\ Typed(r)
                 /\ r.capacity = t.capacity /\ r.peak_usage = t.peak_usage
                 /\ r.peak_index = t.peak_index /\ r.high_index = t.high_index
                 /\ r.count[from] = left /\ r.count[to] = t.count[to] + 1
                 /\ r.head[from] = HeadWithout(t.meta, t.head[from], i, left) /\ r.head[to] = i
                 /\ r.meta = Linked(Unlinked(t.meta, i), i, t.head[to], to)
  BY DEF FieldsMoved
<1>. DEFINE left == t.count[from] - 1
            m == Linked(Unlinked(t.meta, i), i, t.head[to], to)
            h == HeadWithout(t.meta, t.head[from], i, left)
            r == Moved(t, i, from, to)
<1>1. t \in Fields(t.capacity) /\ t.capacity \in Nat
  BY DEF Typed
<1>2. r = [t EXCEPT !.count = [t.count EXCEPT ![from] = left, ![to] = t.count[to] + 1],
                    !.head = [t.head EXCEPT ![from] = h, ![to] = i],
                    !.meta = m]
  BY <1>1 DEF Moved, Fields
<1>3. m \in [Slots(t.capacity) -> Links] /\ h \in Int
  OBVIOUS
<1>. DEFINE hd == [t.head EXCEPT ![from] = h, ![to] = i]
            ct == [t.count EXCEPT ![from] = left, ![to] = t.count[to] + 1]
<1>4. t.head \in [Category -> Int] /\ t.count \in [Category -> Int]
  BY <1>1 DEF Fields
<1>. HIDE DEF m, h
<1>5. hd \in [Category -> Int] /\ hd[from] = h /\ hd[to] = i
  BY <1>3, <1>4
<1>6. ct \in [Category -> Int] /\ ct[from] = left /\ ct[to] = t.count[to] + 1
  BY <1>4
<1>. HIDE DEF r, hd, ct
<1>7. r = [t EXCEPT !.count = ct, !.head = hd, !.meta = m]
  BY <1>2 DEF hd, ct
<1>8. /\ r \in Fields(t.capacity)
      /\ r.capacity = t.capacity /\ r.peak_usage = t.peak_usage
      /\ r.peak_index = t.peak_index /\ r.high_index = t.high_index
      /\ r.count = ct /\ r.head = hd /\ r.meta = m
  BY <1>1, <1>3, <1>5, <1>6, <1>7 DEF Fields
<1>. QED
  BY <1>1, <1>5, <1>6, <1>8 DEF Typed, r, m, h

\* The two lists of a domain.
Lists(t, loose, empty) == Typed(t) /\ IsList(t, "loose", loose) /\ IsList(t, "empty", empty)

\* An empty list.
LEMMA NoneListed ==
    ASSUME NEW meta
    PROVE  /\ Ring(meta, << >>) /\ Members(<< >>) = {} /\ First(<< >>) = -1
           /\ << >> \in Seq(Nat) /\ Len(<< >>) = 0 /\ Rises(<< >>)
BY DEF Ring, Members, First, Distinct, Rises

\* Every slot of the domain is in one of them.
LEMMA ListsFacts ==
    ASSUME NEW t, NEW loose, NEW empty, Lists(t, loose, empty)
    PROVE  /\ t.capacity \in Nat /\ Slots(t.capacity) \in SUBSET Nat
           /\ t.meta \in [Slots(t.capacity) -> Links]
           /\ Of(t, "loose") = Members(loose) /\ Of(t, "empty") = Members(empty)
           /\ Members(loose) \cup Members(empty) = Slots(t.capacity)
           /\ Members(loose) \cap Members(empty) = {}
           /\ IsFiniteSet(Members(loose)) /\ IsFiniteSet(Members(empty))
           /\ Cardinality(Members(loose)) = t.count["loose"] /\ t.count["loose"] = Len(loose)
           /\ Cardinality(Members(empty)) = t.count["empty"] /\ t.count["empty"] = Len(empty)
           /\ loose \in Seq(Nat) /\ empty \in Seq(Nat) /\ Len(loose) \in Nat /\ Len(empty) \in Nat
           /\ Distinct(loose) /\ Distinct(empty)
           /\ t.capacity = Len(loose) + Len(empty)
<1>1. t.capacity \in Nat /\ t.meta \in [Slots(t.capacity) -> Links]
  BY DEF Lists, Typed, Fields
<1>2. Slots(t.capacity) \in SUBSET Nat
  BY <1>1 DEF Slots
<1>3. /\ Of(t, "loose") = Members(loose) /\ Of(t, "empty") = Members(empty)
      /\ t.count["loose"] = Len(loose) /\ t.count["empty"] = Len(empty)
      /\ loose \in Seq(Nat) /\ empty \in Seq(Nat) /\ Distinct(loose) /\ Distinct(empty)
  BY DEF Lists, IsList, Ring
<1>4. \A i \in Slots(t.capacity) : t.meta[i].state \in {"loose", "empty"}
  BY <1>1 DEF Links, Category
<1>5. /\ Members(loose) \cup Members(empty) = Slots(t.capacity)
      /\ Members(loose) \cap Members(empty) = {}
  <2>1. Of(t, "loose") \cup Of(t, "empty") = Slots(t.capacity)
    BY <1>1, <1>4 DEF Of
  <2>2. Of(t, "loose") \cap Of(t, "empty") = {}
    BY DEF Of
  <2>. QED
    BY <1>3, <2>1, <2>2
<1>6. /\ IsFiniteSet(Members(loose)) /\ Cardinality(Members(loose)) = Len(loose)
      /\ IsFiniteSet(Members(empty)) /\ Cardinality(Members(empty)) = Len(empty)
  BY <1>3, MembersCount
<1>7. Len(loose) \in Nat /\ Len(empty) \in Nat
  BY <1>3
<1>8. t.capacity = Len(loose) + Len(empty)
  <2>1. Cardinality(Slots(t.capacity)) = t.capacity
    BY <1>1, Intervals DEF Slots
  <2>2. Cardinality(Members(loose) \cup Members(empty))
          = Cardinality(Members(loose)) + Cardinality(Members(empty))
            - Cardinality(Members(loose) \cap Members(empty))
    BY <1>6, FS_Union
  <2>3. Cardinality(Members(loose) \cap Members(empty)) = 0
    BY <1>5, FS_EmptySet
  <2>4. Cardinality(Slots(t.capacity)) = Len(loose) + Len(empty) - 0
    BY <1>5, <1>6, <2>2, <2>3, Zenon
  <2>. QED
    BY <1>7, <2>1, <2>4
<1>. QED
  BY <1>1, <1>2, <1>3, <1>5, <1>6, <1>7, <1>8

\* move_to_loose_list() and move_to_empty_list() take a slot out of one list and
\* put it first in the other.
IsMoved(t, i, from, to, s, u) ==
    LET r == Moved(t, i, from, to) IN
    /\ Typed(r) /\ IsList(r, from, Abstract!Without(s, i)) /\ IsList(r, to, <<i>> \o u)
    /\ r.capacity = t.capacity /\ r.peak_usage = t.peak_usage
    /\ r.peak_index = t.peak_index /\ r.high_index = t.high_index
    /\ Of(r, from) = Of(t, from) \ {i} /\ Of(r, to) = Of(t, to) \cup {i}
    /\ r.count[from] = t.count[from] - 1 /\ r.count[to] = t.count[to] + 1

\* The headers and the links agree after the move.
LEMMA MovedFacts ==
    ASSUME NEW t, Typed(t), NEW from \in Category, NEW to \in Category, from # to,
           NEW s, IsList(t, from, s), NEW u, IsList(t, to, u), NEW i \in Members(s)
    PROVE  IsMoved(t, i, from, to, s, u)
<1>. SUFFICES LET r == Moved(t, i, from, to) IN
              /\ Typed(r) /\ IsList(r, from, Abstract!Without(s, i)) /\ IsList(r, to, <<i>> \o u)
              /\ r.capacity = t.capacity /\ r.peak_usage = t.peak_usage
              /\ r.peak_index = t.peak_index /\ r.high_index = t.high_index
              /\ Of(r, from) = Of(t, from) \ {i} /\ Of(r, to) = Of(t, to) \cup {i}
              /\ r.count[from] = t.count[from] - 1 /\ r.count[to] = t.count[to] + 1
  BY DEF IsMoved
<1>. DEFINE D == Slots(t.capacity)
            m == t.meta
            v == Abstract!Without(s, i)
            w == <<i>> \o u
            m1 == Unlinked(m, i)
            m2 == Linked(m1, i, First(u), to)
            r == Moved(t, i, from, to)
<1>1. D \in SUBSET Nat /\ m \in [D -> Links]
  BY DEF Typed, Fields, Slots
<1>2. /\ Ring(m, s) /\ Members(s) = Of(t, from) /\ t.count[from] = Len(s) /\ t.head[from] = First(s)
      /\ Ring(m, u) /\ Members(u) = Of(t, to) /\ t.count[to] = Len(u) /\ t.head[to] = First(u)
  BY DEF IsList
<1>3. Members(s) \cap Members(u) = {} /\ Members(s) \subseteq D /\ Members(u) \subseteq D
  BY <1>1, <1>2 DEF Of
<1>. HIDE DEF D, m, v, w, m1, m2, r
<1>4. /\ m1 \in [D -> Links] /\ Ring(m1, v)
      /\ Members(v) = Members(s) \ {i} /\ Len(v) = Len(s) - 1
      /\ HeadWithout(m, First(s), i, Len(s) - 1) = First(v)
      /\ \A j \in D : m1[j].state = m[j].state
      /\ \A j \in D \ Members(s) : m1[j] = m[j]
  <2>1. IsUnlinked(D, m, s, i)
    BY <1>1, <1>2, UnlinkedFacts
  <2>. QED
    BY <2>1 DEF IsUnlinked, m1, v
<1>5. Ring(m1, u)
  <2>1. \A j \in Members(u) : m1[j] = m[j]
    BY <1>3, <1>4
  <2>2. Members(u) \subseteq DOMAIN m1
    BY <1>3, <1>4
  <2>. QED
    BY <1>2, <2>1, <2>2, RingKept
<1>6. /\ m2 \in [D -> Links] /\ Ring(m2, w)
      /\ Members(w) = Members(u) \cup {i} /\ First(w) = i /\ Len(w) = Len(u) + 1
      /\ m2[i].state = to /\ \A j \in D : j # i => m2[j].state = m1[j].state
      /\ \A j \in D \ (Members(u) \cup {i}) : m2[j] = m1[j]
  <2>1. i \in D /\ i \notin Members(u)
    BY <1>3
  <2>2. IsLinked(D, m1, u, i, to)
    BY <1>1, <1>4, <1>5, <2>1, LinkedFacts
  <2>. QED
    BY <2>2 DEF IsLinked, m2, w
<1>7. Ring(m2, v)
  <2>1. \A j \in Members(v) : m2[j] = m1[j]
    BY <1>3, <1>4, <1>6
  <2>2. Members(v) \subseteq DOMAIN m2
    BY <1>3, <1>4, <1>6
  <2>. QED
    BY <1>4, <2>1, <2>2, RingKept
<1>8. /\ Typed(r)
      /\ r.capacity = t.capacity /\ r.peak_usage = t.peak_usage
      /\ r.peak_index = t.peak_index /\ r.high_index = t.high_index
      /\ r.count[from] = t.count[from] - 1 /\ r.count[to] = t.count[to] + 1
      /\ r.head[from] = First(v) /\ r.head[to] = i /\ r.meta = m2
  <2>1. m2 = Linked(Unlinked(t.meta, i), i, t.head[to], to)
    BY <1>2 DEF m2, m1, m
  <2>2. HeadWithout(t.meta, t.head[from], i, t.count[from] - 1) = First(v)
    BY <1>2, <1>4 DEF m
  <2>3. First(v) \in Int /\ i \in Int
    <3>1. v \in Seq(Nat)
      BY <1>4 DEF Ring
    <3>2. Len(v) # 0 => v[1] \in Nat
      BY <3>1
    <3>3. First(v) \in Int
      BY <3>2 DEF First
    <3>4. i \in D
      BY <1>3
    <3>5. i \in Nat
      BY <1>1, <3>4
    <3>. QED
      BY <3>3, <3>5
  <2>4. Linked(Unlinked(t.meta, i), i, t.head[to], to) \in [Slots(t.capacity) -> Links]
    BY <1>6, <2>1 DEF D
  <2>5. FieldsMoved(t, i, from, to)
    BY <2>2, <2>3, <2>4, MovedFields
  <2>. QED
    BY <2>1, <2>2, <2>5 DEF FieldsMoved, r
<1>9. Of(r, from) = Of(t, from) \ {i} /\ Of(r, to) = Of(t, to) \cup {i}
  <2>1. DOMAIN m = D /\ DOMAIN m2 = D
    BY <1>1, <1>6
  <2>2. \A j \in D : m2[j].state = IF j = i THEN to ELSE m[j].state
    BY <1>4, <1>6
  <2>3. i \in D /\ m[i].state = from
    BY <1>2, <1>3 DEF Of, m
  <2>. QED
    BY <1>8, <2>1, <2>2, <2>3 DEF Of, m
<1>10. IsList(r, from, v)
  <2>. QED
    BY <1>2, <1>4, <1>7, <1>8, <1>9 DEF IsList
<1>11. IsList(r, to, w)
  <2>. QED
    BY <1>2, <1>6, <1>8, <1>9 DEF IsList
<1>. QED
  BY <1>8, <1>9, <1>10, <1>11 DEF r, v, w

\* A domain with every slot empty.
LEMMA FreshFacts ==
    ASSUME NEW n \in Nat \ {0}
    PROVE  /\ Lists(Fresh(n), << >>, Abstract!Ascending(Slots(n)))
           /\ Fresh(n).capacity = n /\ Fresh(n).peak_usage = 0 /\ Fresh(n).peak_index = -1
           /\ Fresh(n).high_index = -1
<1>. DEFINE S == Slots(n)
            a == Abstract!Ascending(S)
            m == Chained(<< >>, S, "empty")
            r == Fresh(n)
<1>1. S \in SUBSET Nat /\ IsFiniteSet(S) /\ Cardinality(S) = n
  BY Intervals DEF Slots
<1>2. << >> \in [{} -> Links] /\ "empty" \in Category /\ "loose" \in Category
  BY DEF Category
<1>3. /\ m \in [{} \cup S -> Links] /\ \A i \in S : m[i].state = "empty"
      /\ Ring(m, a) /\ HeadOf(S) = First(a)
  <2>. HIDE DEF S, a, m, r
  <2>1. IsChained({}, << >>, S, "empty")
    BY <1>1, <1>2, ChainedFacts
  <2>. QED
    BY <2>1 DEF IsChained, m, a
<1>4. Members(a) = S /\ Len(a) = n
  BY <1>1, AscendingFacts
<1>5. HeadOf(S) = 0
  <2>1. 0 \in S /\ \A j \in S : 0 <= j
    BY DEF Slots
  <2>2. Min(S) = 0
    BY <1>1, <2>1, MinIs
  <2>. QED
    BY <2>1, <2>2 DEF HeadOf
<1>. HIDE DEF m, a, S
<1>6. r = [capacity |-> n, peak_usage |-> 0, peak_index |-> -1, high_index |-> -1,
           count |-> [c \in Category |-> IF c = "empty" THEN n ELSE 0],
           head |-> [c \in Category |-> IF c = "empty" THEN 0 ELSE -1], meta |-> m]
  <2>. DEFINE ct == [c \in Category |-> 0]
              hd == [c \in Category |-> -1]
              u == [capacity |-> 0, peak_usage |-> 0, peak_index |-> -1, high_index |-> -1,
                    count |-> ct, head |-> hd, meta |-> << >>]
              ct1 == [ct EXCEPT !["empty"] = n]
              hd1 == [hd EXCEPT !["empty"] = 0]
  <2>1. Uninitialised = u
    BY DEF Uninitialised
  <2>2. ct1 = [c \in Category |-> IF c = "empty" THEN n ELSE 0]
    BY DEF Category
  <2>3. hd1 = [c \in Category |-> IF c = "empty" THEN 0 ELSE -1]
    BY DEF Category
  <2>4. r = [[[[Uninitialised EXCEPT !.capacity = n] EXCEPT !.count["empty"] = n]
                EXCEPT !.head["empty"] = 0] EXCEPT !.meta = m]
    BY DEF Fresh, m, S
  <2>. HIDE DEF r, ct, hd, ct1, hd1
  <2>5. [u EXCEPT !.capacity = n] =
          [capacity |-> n, peak_usage |-> 0, peak_index |-> -1, high_index |-> -1,
           count |-> ct, head |-> hd, meta |-> << >>]
    OBVIOUS
  <2>6. [[capacity |-> n, peak_usage |-> 0, peak_index |-> -1, high_index |-> -1,
          count |-> ct, head |-> hd, meta |-> << >>] EXCEPT !.count["empty"] = n] =
          [capacity |-> n, peak_usage |-> 0, peak_index |-> -1, high_index |-> -1,
           count |-> ct1, head |-> hd, meta |-> << >>]
    BY DEF ct1
  <2>7. [[capacity |-> n, peak_usage |-> 0, peak_index |-> -1, high_index |-> -1,
          count |-> ct1, head |-> hd, meta |-> << >>] EXCEPT !.head["empty"] = 0] =
          [capacity |-> n, peak_usage |-> 0, peak_index |-> -1, high_index |-> -1,
           count |-> ct1, head |-> hd1, meta |-> << >>]
    BY DEF hd1
  <2>. QED
    BY <2>1, <2>2, <2>3, <2>4, <2>5, <2>6, <2>7
<1>. HIDE DEF r
<1>7. /\ r.capacity = n /\ r.peak_usage = 0 /\ r.peak_index = -1 /\ r.high_index = -1
      /\ r.count["loose"] = 0 /\ r.count["empty"] = n
      /\ r.head["loose"] = -1 /\ r.head["empty"] = 0 /\ r.meta = m
  BY <1>2, <1>6
<1>8. Typed(r)
  <2>1. m \in [Slots(n) -> Links]
    BY <1>3 DEF S
  <2>. QED
    BY <1>6, <2>1 DEF Typed, Fields
<1>9. IsList(r, "loose", << >>)
  <2>1. Of(r, "loose") = {}
    BY <1>3, <1>7 DEF Of
  <2>. QED
    BY <1>7, <2>1, NoneListed DEF IsList
<1>10. IsList(r, "empty", a)
  <2>1. Of(r, "empty") = S
    BY <1>3, <1>7 DEF Of
  <2>. QED
    BY <1>3, <1>4, <1>5, <1>7, <2>1 DEF IsList
<1>. QED
  BY <1>7, <1>8, <1>9, <1>10 DEF Lists, r, a, S

----------------------------------------------------------------------------
(* Growing, shrinking, packing and sorting *)

\* The metadata, field by field.
Domain(n, usage, peak, high, ct, hd, m) ==
    [capacity |-> n, peak_usage |-> usage, peak_index |-> peak, high_index |-> high,
     count |-> ct, head |-> hd, meta |-> m]

\* Two sequences of slots that are linked and counted are the lists.
LEMMA Relisted ==
    ASSUME NEW n \in Nat, NEW usage \in Nat, NEW peak \in Int, NEW high \in Int,
           NEW ct \in [Category -> Int], NEW hd \in [Category -> Int], NEW m \in [Slots(n) -> Links],
           NEW u, NEW v, Ring(m, u), Ring(m, v),
           Members(u) \cup Members(v) = Slots(n),
           \A i \in Members(u) : m[i].state = "loose", \A i \in Members(v) : m[i].state = "empty",
           ct["loose"] = Len(u), ct["empty"] = Len(v), hd["loose"] = First(u), hd["empty"] = First(v)
    PROVE  Lists(Domain(n, usage, peak, high, ct, hd, m), u, v)
<1>. DEFINE r == Domain(n, usage, peak, high, ct, hd, m)
<1>1. /\ r.capacity = n /\ r.count = ct /\ r.head = hd /\ r.meta = m
      /\ r \in Fields(n)
  BY DEF Domain, Fields
<1>2. DOMAIN m = Slots(n) /\ "loose" # "empty"
  OBVIOUS
<1>. HIDE DEF r
<1>3. Of(r, "loose") = Members(u)
  BY <1>1, <1>2 DEF Of
<1>4. Of(r, "empty") = Members(v)
  BY <1>1, <1>2 DEF Of
<1>5. IsList(r, "loose", u) /\ IsList(r, "empty", v)
  BY <1>1, <1>3, <1>4 DEF IsList
<1>6. Typed(r)
  BY <1>1 DEF Typed
<1>. QED
  BY <1>5, <1>6 DEF Lists, r

\* The slots of an interval and how many they are.
LEMMA SlotsFacts ==
    ASSUME NEW c \in Nat, NEW n \in Nat, c <= n
    PROVE  /\ Slots(n) \ Slots(c) = c .. n - 1 /\ Slots(c) \cup (c .. n - 1) = Slots(n)
           /\ Slots(c) \cap (c .. n - 1) = {}
           /\ c .. n - 1 \in SUBSET Nat /\ Slots(c) \in SUBSET Nat
           /\ IsFiniteSet(c .. n - 1) /\ Cardinality(c .. n - 1) = n - c
           /\ IsFiniteSet(Slots(c)) /\ Cardinality(Slots(c)) = c
<1>1. IsFiniteSet(c .. n - 1) /\ Cardinality(c .. n - 1) = n - c
  <2>1. /\ IsFiniteSet(c .. n - 1)
        /\ Cardinality(c .. n - 1) = IF c > n - 1 THEN 0 ELSE (n - 1) - c + 1
    BY FS_Interval
  <2>. QED
    BY <2>1
<1>2. IsFiniteSet(Slots(c)) /\ Cardinality(Slots(c)) = c
  BY Intervals DEF Slots
<1>3. Slots(n) \ Slots(c) = c .. n - 1 /\ Slots(c) \cup (c .. n - 1) = Slots(n)
  BY DEF Slots
<1>4. Slots(c) \cap (c .. n - 1) = {} /\ c .. n - 1 \in SUBSET Nat /\ Slots(c) \in SUBSET Nat
  BY DEF Slots
<1>. QED
  BY <1>1, <1>2, <1>3, <1>4

\* private_resize(), growing: the new slots follow the empty ones, in order.
LEMMA GrownFacts ==
    ASSUME NEW t, NEW loose, NEW empty, Lists(t, loose, empty), NEW n \in Nat, n > t.capacity
    PROVE  /\ Lists(Grown(t, n), loose, empty \o Abstract!Ascending(Slots(n) \ Slots(t.capacity)))
           /\ Grown(t, n).capacity = n /\ Grown(t, n).peak_usage = t.peak_usage
           /\ Grown(t, n).peak_index = t.peak_index /\ Grown(t, n).high_index = t.high_index
<1>. DEFINE D == Slots(t.capacity)
            new == t.capacity .. n - 1
            a == Abstract!Ascending(new)
            m == t.meta
            m1 == Chained(m, new, "empty")
            m2 == Combined(m1, First(empty), First(a))
            w == empty \o a
            ct == [t.count EXCEPT !["empty"] = t.count["empty"] + n - t.capacity]
            hd == [t.head EXCEPT !["empty"] = First(w)]
            r == Grown(t, n)
<1>1. /\ t.capacity \in Nat /\ t.capacity <= n /\ D \in SUBSET Nat /\ m \in [D -> Links]
      /\ Members(loose) \cup Members(empty) = D /\ Members(loose) \cap Members(empty) = {}
      /\ Len(loose) \in Nat /\ Len(empty) \in Nat
  BY ListsFacts
<1>2. /\ Slots(n) \ D = new /\ D \cup new = Slots(n) /\ D \cap new = {}
      /\ new \in SUBSET Nat /\ IsFiniteSet(new) /\ Cardinality(new) = n - t.capacity
  BY <1>1, SlotsFacts
<1>3. /\ t \in Fields(t.capacity)
      /\ Ring(m, loose) /\ Members(loose) = Of(t, "loose")
      /\ t.count["loose"] = Len(loose) /\ t.head["loose"] = First(loose)
      /\ Ring(m, empty) /\ Members(empty) = Of(t, "empty")
      /\ t.count["empty"] = Len(empty) /\ t.head["empty"] = First(empty)
  BY DEF Lists, Typed, IsList
<1>4. Members(a) = new /\ Len(a) = n - t.capacity /\ a \in Seq(Nat)
  BY <1>2, AscendingFacts
<1>5. "empty" \in Category /\ "loose" \in Category /\ \A c \in Category : c = "empty" \/ c = "loose"
  BY DEF Category
<1>. HIDE DEF D, new, a, m, m1, m2, w, ct, hd, r
<1>6. /\ m1 \in [Slots(n) -> Links]
      /\ \A i \in D : m1[i] = m[i]
      /\ \A i \in new : m1[i].state = "empty"
      /\ Ring(m1, a) /\ HeadOf(new) = First(a)
  <2>1. IsChained(D, m, new, "empty")
    BY <1>1, <1>2, <1>5, ChainedFacts
  <2>2. D \ new = D
    BY <1>2
  <2>. QED
    BY <1>2, <2>1, <2>2 DEF IsChained, m1, a
<1>7. Ring(m1, empty) /\ Ring(m1, loose)
  <2>1. Members(empty) \subseteq DOMAIN m1 /\ Members(loose) \subseteq DOMAIN m1
    BY <1>1, <1>2, <1>6
  <2>2. /\ \A i \in Members(empty) : m1[i] = m[i]
        /\ \A i \in Members(loose) : m1[i] = m[i]
    BY <1>1, <1>6
  <2>. QED
    BY <1>3, <2>1, <2>2, RingKept
<1>8. /\ m2 \in [Slots(n) -> Links] /\ Ring(m2, w)
      /\ Members(w) = Members(empty) \cup new
      /\ First(w) = CombinedHead(First(empty), First(a))
      /\ \A i \in Slots(n) : m2[i].state = m1[i].state
      /\ \A i \in Slots(n) \ (Members(empty) \cup new) : m2[i] = m1[i]
  <2>1. Slots(n) \in SUBSET Nat
    BY <1>1, <1>2
  <2>2. Members(empty) \cap Members(a) = {}
    BY <1>1, <1>2, <1>4
  <2>3. IsCombined(Slots(n), m1, empty, a)
    BY <1>6, <1>7, <2>1, <2>2, CombinedFacts
  <2>. QED
    BY <1>4, <2>3 DEF IsCombined, m2, w
<1>9. Ring(m2, loose)
  <2>1. Members(loose) \subseteq DOMAIN m2
    BY <1>1, <1>2, <1>8
  <2>2. \A i \in Members(loose) : m2[i] = m1[i]
    BY <1>1, <1>2, <1>8
  <2>. QED
    BY <1>7, <2>1, <2>2, RingKept
<1>10. Len(w) = Len(empty) + (n - t.capacity) /\ w \in Seq(Nat)
  <2>1. empty \in Seq(Nat)
    BY <1>3 DEF Ring
  <2>. QED
    BY <1>4, <2>1, ConcatProperties DEF w
<1>11. /\ ct \in [Category -> Int] /\ ct["empty"] = Len(w) /\ ct["loose"] = Len(loose)
       /\ t.peak_usage \in Nat /\ t.peak_index \in Int /\ t.high_index \in Int
  BY <1>1, <1>3, <1>5, <1>10, SMTT(30) DEF Fields, ct
<1>12. First(w) \in Int
  <2>1. Len(w) # 0 => w[1] \in Nat
    BY <1>10
  <2>. QED
    BY <2>1 DEF First
<1>13. hd \in [Category -> Int] /\ hd["empty"] = First(w) /\ hd["loose"] = First(loose)
  BY <1>3, <1>5, <1>12 DEF Fields, hd
<1>14. r = Domain(n, t.peak_usage, t.peak_index, t.high_index, ct, hd, m2)
  <2>1. r = [t EXCEPT !.capacity = n, !.count["empty"] = @ + n - t.capacity,
                      !.head["empty"] = CombinedHead(@, HeadOf(new)),
                      !.meta = Combined(m1, t.head["empty"], HeadOf(new))]
    BY DEF Grown, r, m1, new, m
  <2>2. r = [t EXCEPT !.capacity = n, !.count = ct, !.head = hd, !.meta = m2]
    <3>1. CombinedHead(t.head["empty"], HeadOf(new)) = First(w)
      BY <1>3, <1>6, <1>8
    <3>2. Combined(m1, t.head["empty"], HeadOf(new)) = m2
      BY <1>3, <1>6 DEF m2
    <3>3. r = [t EXCEPT !.capacity = n,
                        !.count = [t.count EXCEPT !["empty"] = t.count["empty"] + n - t.capacity],
                        !.head = [t.head EXCEPT !["empty"] = CombinedHead(t.head["empty"], HeadOf(new))],
                        !.meta = Combined(m1, t.head["empty"], HeadOf(new))]
      BY <1>3, <2>1 DEF Fields
    <3>. QED
      BY <3>1, <3>2, <3>3 DEF ct, hd
  <2>. QED
    BY <1>3, <2>2 DEF Domain, Fields
<1>15. \A i \in Members(loose) : m2[i].state = "loose"
  BY <1>1, <1>2, <1>3, <1>6, <1>8 DEF Of, m
<1>16. \A i \in Members(w) : m2[i].state = "empty"
  BY <1>1, <1>2, <1>3, <1>6, <1>8 DEF Of, m
<1>17. Lists(r, loose, w)
  <2>1. Members(loose) \cup Members(w) = Slots(n)
    BY <1>1, <1>2, <1>8
  <2>. QED
    BY <1>8, <1>9, <1>11, <1>13, <1>14, <1>15, <1>16, <2>1, Relisted
<1>18. /\ r.capacity = n /\ r.peak_usage = t.peak_usage
       /\ r.peak_index = t.peak_index /\ r.high_index = t.high_index
  BY <1>14 DEF Domain
<1>. QED
  BY <1>2, <1>17, <1>18 DEF w, a, r, D

\* The numbers a list leaves out: how many they are.
LEMMA LeftFacts ==
    ASSUME NEW n \in Nat, NEW T \in SUBSET Slots(n), IsFiniteSet(T)
    PROVE  /\ IsFiniteSet(Slots(n) \ T) /\ Cardinality(Slots(n) \ T) = n - Cardinality(T)
           /\ Slots(n) \ T \in SUBSET Nat
<1>1. IsFiniteSet(Slots(n)) /\ Cardinality(Slots(n)) = n /\ Slots(n) \in SUBSET Nat
  BY SlotsFacts
<1>2. Slots(n) \cap T = T
  OBVIOUS
<1>3. IsFiniteSet(Slots(n) \ T) /\ Cardinality(Slots(n) \ T) = Cardinality(Slots(n)) - Cardinality(Slots(n) \cap T)
  BY <1>1, FS_Difference
<1>. QED
  BY <1>1, <1>2, <1>3

\* Fields that stay as they are in every domain.
LEMMA KeptFields ==
    ASSUME NEW t, NEW loose, NEW empty, Lists(t, loose, empty)
    PROVE  /\ t \in Fields(t.capacity) /\ t.capacity \in Nat
           /\ t.peak_usage \in Nat /\ t.peak_index \in Int /\ t.high_index \in Int
           /\ t.count \in [Category -> Int] /\ t.head \in [Category -> Int]
           /\ t.count["loose"] = Len(loose) /\ t.head["loose"] = First(loose)
           /\ t.count["empty"] = Len(empty) /\ t.head["empty"] = First(empty)
           /\ Ring(t.meta, loose) /\ Ring(t.meta, empty)
           /\ \A i \in Members(loose) : t.meta[i].state = "loose"
           /\ \A i \in Members(empty) : t.meta[i].state = "empty"
           /\ "loose" \in Category /\ "empty" \in Category
           /\ \A c \in Category : c = "empty" \/ c = "loose"
<1>1. t \in Fields(t.capacity) /\ t.capacity \in Nat
  BY DEF Lists, Typed
<1>2. /\ t.peak_usage \in Nat /\ t.peak_index \in Int /\ t.high_index \in Int
      /\ t.count \in [Category -> Int] /\ t.head \in [Category -> Int]
  BY <1>1 DEF Fields
<1>3. /\ t.count["loose"] = Len(loose) /\ t.head["loose"] = First(loose)
      /\ t.count["empty"] = Len(empty) /\ t.head["empty"] = First(empty)
      /\ Ring(t.meta, loose) /\ Ring(t.meta, empty)
      /\ Members(loose) = Of(t, "loose") /\ Members(empty) = Of(t, "empty")
  BY DEF Lists, IsList
<1>4. /\ \A i \in Members(loose) : t.meta[i].state = "loose"
      /\ \A i \in Members(empty) : t.meta[i].state = "empty"
  BY <1>3 DEF Of
<1>. QED
  BY <1>1, <1>2, <1>3, <1>4 DEF Category

\* The head of an ascending list, and its length.
LEMMA AscendingHead ==
    ASSUME NEW S \in SUBSET Nat, IsFiniteSet(S)
    PROVE  /\ First(Abstract!Ascending(S)) \in Int /\ Len(Abstract!Ascending(S)) = Cardinality(S)
           /\ Members(Abstract!Ascending(S)) = S /\ Cardinality(S) \in Nat
<1>. DEFINE a == Abstract!Ascending(S)
<1>1. a \in Seq(Nat) /\ Len(a) = Cardinality(S) /\ Members(a) = S /\ Cardinality(S) \in Nat
  BY AscendingFacts
<1>. HIDE DEF a
<1>2. Len(a) # 0 => a[1] \in Nat
  BY <1>1
<1>3. First(a) \in Int
  BY <1>2 DEF First
<1>. QED
  BY <1>1, <1>3 DEF a

\* private_resize(), shrinking: the empty slots that are left are put in order.
LEMMA ShrunkFacts ==
    ASSUME NEW t, NEW loose, NEW empty, Lists(t, loose, empty), NEW n \in Nat, n < t.capacity,
           \A i \in Members(loose) : i < n
    PROVE  /\ Lists(Shrunk(t, n), loose, Abstract!Ascending(Slots(n) \ Members(loose)))
           /\ Shrunk(t, n).capacity = n /\ Shrunk(t, n).peak_usage = t.peak_usage
           /\ Shrunk(t, n).peak_index = t.peak_index /\ Shrunk(t, n).high_index = t.high_index
<1>. DEFINE D == Slots(t.capacity)
            left == Of(t, "empty") \cap Slots(n)
            a == Abstract!Ascending(left)
            m == t.meta
            m0 == Truncated(m, n)
            m1 == Chained(m0, left, "empty")
            ct == [t.count EXCEPT !["empty"] = n - t.count["loose"]]
            hd == [t.head EXCEPT !["empty"] = First(a)]
            r == Shrunk(t, n)
<1>1. /\ t.capacity \in Nat /\ D \in SUBSET Nat /\ m \in [D -> Links]
      /\ Members(loose) \cup Members(empty) = D /\ Members(loose) \cap Members(empty) = {}
      /\ Len(loose) \in Nat /\ Len(empty) \in Nat /\ Of(t, "empty") = Members(empty)
      /\ IsFiniteSet(Members(loose)) /\ Cardinality(Members(loose)) = Len(loose)
  BY ListsFacts
<1>2. /\ t \in Fields(t.capacity) /\ Ring(m, loose)
      /\ t.peak_usage \in Nat /\ t.peak_index \in Int /\ t.high_index \in Int
      /\ t.count \in [Category -> Int] /\ t.head \in [Category -> Int]
      /\ t.count["loose"] = Len(loose) /\ t.head["loose"] = First(loose)
      /\ \A i \in Members(loose) : m[i].state = "loose"
      /\ "loose" \in Category /\ "empty" \in Category
  BY KeptFields
<1>3. Members(loose) \subseteq Slots(n) /\ Slots(n) \subseteq D
  BY <1>1 DEF Slots
<1>4. left = Slots(n) \ Members(loose)
  BY <1>1, <1>3
<1>5. /\ IsFiniteSet(left) /\ Cardinality(left) = n - Len(loose) /\ left \in SUBSET Nat
  BY <1>1, <1>3, <1>4, LeftFacts
<1>6. First(a) \in Int /\ Len(a) = n - Len(loose) /\ Members(a) = left
  BY <1>5, AscendingHead
<1>. HIDE DEF D, left, a, m, m0, m1, ct, hd, r
<1>7. m0 \in [Slots(n) -> Links] /\ \A i \in Slots(n) : m0[i] = m[i]
  BY <1>1, <1>3 DEF m0, Truncated
<1>8. /\ m1 \in [Slots(n) -> Links] /\ Ring(m1, a) /\ HeadOf(left) = First(a)
      /\ \A i \in Members(loose) : m1[i] = m0[i]
      /\ \A i \in left : m1[i].state = "empty"
  <2>1. IsChained(Slots(n), m0, left, "empty")
    BY <1>2, <1>5, <1>7, ChainedFacts
  <2>2. Slots(n) \cup left = Slots(n) /\ Members(loose) \subseteq Slots(n) \ left
    BY <1>3, <1>4
  <2>. QED
    BY <2>1, <2>2 DEF IsChained, m1, a
<1>9. Ring(m1, loose)
  <2>1. Members(loose) \subseteq DOMAIN m1
    BY <1>3, <1>8
  <2>2. \A i \in Members(loose) : m1[i] = m[i]
    BY <1>3, <1>7, <1>8
  <2>. QED
    BY <1>2, <2>1, <2>2, RingKept
<1>10. ct \in [Category -> Int] /\ ct["empty"] = Len(a) /\ ct["loose"] = Len(loose)
  BY <1>1, <1>2, <1>6 DEF ct
<1>11. hd \in [Category -> Int] /\ hd["empty"] = First(a) /\ hd["loose"] = First(loose)
  BY <1>2, <1>6 DEF hd
<1>12. r = Domain(n, t.peak_usage, t.peak_index, t.high_index, ct, hd, m1)
  <2>1. r = [t EXCEPT !.capacity = n, !.count = [t.count EXCEPT !["empty"] = n - t.count["loose"]],
                      !.head = [t.head EXCEPT !["empty"] = HeadOf(left)], !.meta = m1]
    BY <1>2 DEF Shrunk, Fields, r, m1, m0, m, left
  <2>2. r = [t EXCEPT !.capacity = n, !.count = ct, !.head = hd, !.meta = m1]
    BY <1>8, <2>1 DEF ct, hd
  <2>. QED
    BY <1>2, <2>2 DEF Domain, Fields
<1>13. Lists(r, loose, a)
  <2>1. Members(loose) \cup Members(a) = Slots(n)
    BY <1>3, <1>4, <1>6
  <2>2. \A i \in Members(loose) : m1[i].state = "loose"
    BY <1>2, <1>3, <1>7, <1>8
  <2>3. \A i \in Members(a) : m1[i].state = "empty"
    BY <1>6, <1>8
  <2>. QED
    BY <1>2, <1>8, <1>9, <1>10, <1>11, <1>12, <2>1, <2>2, <2>3, Relisted
<1>14. /\ r.capacity = n /\ r.peak_usage = t.peak_usage
       /\ r.peak_index = t.peak_index /\ r.high_index = t.high_index
  BY <1>12 DEF Domain
<1>. QED
  BY <1>4, <1>13, <1>14 DEF a, r


\* The end of pack(): the loose slots are the lowest, both lists in order.
LEMMA PackedFacts ==
    ASSUME NEW t, NEW loose, NEW empty, Lists(t, loose, empty)
    PROVE  /\ Lists(Packed(t), Abstract!Ascending(Slots(Len(loose))),
                    Abstract!Ascending(Slots(t.capacity) \ Slots(Len(loose))))
           /\ Packed(t).capacity = t.capacity /\ Packed(t).peak_usage = t.peak_usage
           /\ Packed(t).peak_index = t.peak_index /\ Packed(t).high_index = Len(loose) - 1
<1>. DEFINE D == Slots(t.capacity)
            n == Len(loose)
            low == Slots(n)
            high == D \ low
            a == Abstract!Ascending(low)
            b == Abstract!Ascending(high)
            m == t.meta
            m1 == Chained(m, low, "loose")
            m2 == Chained(m1, high, "empty")
            hd == [c \in Category |-> HeadOf(IF c = "loose" THEN low ELSE high)]
            r == Packed(t)
<1>1. /\ t.capacity \in Nat /\ D \in SUBSET Nat /\ m \in [D -> Links]
      /\ n \in Nat /\ Len(empty) \in Nat /\ t.capacity = n + Len(empty)
  BY ListsFacts
<1>2. /\ t \in Fields(t.capacity)
      /\ t.peak_usage \in Nat /\ t.peak_index \in Int /\ t.high_index \in Int
      /\ t.count \in [Category -> Int] /\ t.head \in [Category -> Int]
      /\ t.count["loose"] = n /\ t.count["empty"] = Len(empty)
      /\ "loose" \in Category /\ "empty" \in Category
      /\ \A c \in Category : c = "empty" \/ c = "loose"
  BY KeptFields
<1>. HIDE DEF n
<1>3. /\ low \in SUBSET Nat /\ IsFiniteSet(low) /\ Cardinality(low) = n /\ low \subseteq D
      /\ high \in SUBSET Nat /\ IsFiniteSet(high) /\ Cardinality(high) = Len(empty)
  <2>1. n <= t.capacity /\ t.capacity - n = Len(empty)
    BY <1>1
  <2>2. /\ D \ low = n .. t.capacity - 1 /\ low \cup (n .. t.capacity - 1) = D
        /\ n .. t.capacity - 1 \in SUBSET Nat /\ low \in SUBSET Nat
        /\ IsFiniteSet(n .. t.capacity - 1) /\ Cardinality(n .. t.capacity - 1) = t.capacity - n
        /\ IsFiniteSet(low) /\ Cardinality(low) = n
    BY <1>1, <2>1, SlotsFacts, ZenonT(60)
  <2>. HIDE DEF low, D
  <2>. QED
    BY <2>1, <2>2
<1>. HIDE DEF D, low, high, a, b, m, m1, m2, hd, r
<1>4. /\ First(a) \in Int /\ Len(a) = n /\ Members(a) = low
      /\ First(b) \in Int /\ Len(b) = Len(empty) /\ Members(b) = high
  BY <1>3, AscendingHead DEF a, b
<1>5. /\ m1 \in [D -> Links] /\ \A i \in low : m1[i].state = "loose"
      /\ Ring(m1, a) /\ HeadOf(low) = First(a)
  <2>1. IsChained(D, m, low, "loose")
    BY <1>1, <1>2, <1>3, ChainedFacts
  <2>2. D \cup low = D
    BY <1>3
  <2>. QED
    BY <2>1, <2>2 DEF IsChained, m1, a
<1>6. /\ m2 \in [D -> Links] /\ \A i \in high : m2[i].state = "empty"
      /\ Ring(m2, b) /\ HeadOf(high) = First(b) /\ \A i \in low : m2[i] = m1[i]
  <2>1. IsChained(D, m1, high, "empty")
    BY <1>2, <1>3, <1>5, ChainedFacts
  <2>2. D \cup high = D /\ low \subseteq D \ high
    BY <1>3 DEF high
  <2>. QED
    BY <2>1, <2>2 DEF IsChained, m2, b
<1>7. Ring(m2, a)
  <2>1. Members(a) \subseteq DOMAIN m2
    BY <1>3, <1>4, <1>6
  <2>2. \A i \in Members(a) : m2[i] = m1[i]
    BY <1>4, <1>6
  <2>. QED
    BY <1>5, <2>1, <2>2, RingKept
<1>8. hd \in [Category -> Int] /\ hd["loose"] = First(a) /\ hd["empty"] = First(b)
  <2>1. \A c \in Category : hd[c] = IF c = "loose" THEN First(a) ELSE First(b)
    BY <1>5, <1>6 DEF hd
  <2>2. hd = [c \in Category |-> hd[c]]
    BY DEF hd
  <2>. QED
    BY <1>2, <1>4, <2>1, <2>2
<1>9. r = Domain(t.capacity, t.peak_usage, t.peak_index, n - 1, t.count, hd, m2)
  <2>1. r = [t EXCEPT !.head = hd, !.meta = m2, !.high_index = n - 1]
    BY <1>2 DEF Packed, Fields, r, m2, m1, m, hd, high, low, D
  <2>. QED
    BY <1>2, <2>1 DEF Domain, Fields
<1>10. Lists(r, a, b)
  <2>1. Members(a) \cup Members(b) = Slots(t.capacity)
    BY <1>3, <1>4 DEF high, D
  <2>2. \A i \in Members(a) : m2[i].state = "loose"
    BY <1>4, <1>5, <1>6
  <2>3. \A i \in Members(b) : m2[i].state = "empty"
    BY <1>4, <1>6
  <2>4. n - 1 \in Int /\ m2 \in [Slots(t.capacity) -> Links]
    BY <1>1, <1>6 DEF D
  <2>5. t.count["loose"] = Len(a) /\ t.count["empty"] = Len(b)
    BY <1>2, <1>4
  <2>. QED
    BY <1>1, <1>2, <1>6, <1>7, <1>8, <1>9, <2>1, <2>2, <2>3, <2>4, <2>5, Relisted
<1>11. /\ r.capacity = t.capacity /\ r.peak_usage = t.peak_usage
       /\ r.peak_index = t.peak_index /\ r.high_index = n - 1
  BY <1>9 DEF Domain
<1>. QED
  BY <1>10, <1>11 DEF a, b, r, high, low, n, D

\* What the rebuilding of a list makes of a domain.
Rebuilt(t, c, head, meta) == [t EXCEPT !.head[c] = head, !.meta = meta]

\* rebuild_loose_list_in_index_order()
LEMMA LooseRebuilt ==
    ASSUME NEW t, NEW loose, NEW empty, Lists(t, loose, empty)
    PROVE  LET S == Members(loose)
               r == Rebuilt(t, "loose", HeadOf(S), Chained(t.meta, S, "loose"))
           IN /\ Lists(r, Abstract!Ascending(S), empty)
              /\ r.capacity = t.capacity /\ r.peak_usage = t.peak_usage
              /\ r.peak_index = t.peak_index /\ r.high_index = t.high_index
<1>. DEFINE D == Slots(t.capacity)
            S == Members(loose)
            a == Abstract!Ascending(S)
            m == t.meta
            m1 == Chained(m, S, "loose")
            hd == [t.head EXCEPT !["loose"] = First(a)]
            r == Rebuilt(t, "loose", HeadOf(S), m1)
<1>1. /\ D \in SUBSET Nat /\ m \in [D -> Links]
      /\ S \cup Members(empty) = D /\ S \cap Members(empty) = {}
      /\ S \in SUBSET Nat /\ S \subseteq D /\ IsFiniteSet(S) /\ Cardinality(S) = Len(loose)
  BY ListsFacts
<1>2. /\ t \in Fields(t.capacity) /\ t.capacity \in Nat /\ Ring(m, empty)
      /\ t.peak_usage \in Nat /\ t.peak_index \in Int /\ t.high_index \in Int
      /\ t.count \in [Category -> Int] /\ t.head \in [Category -> Int]
      /\ t.count["loose"] = Len(loose)
      /\ t.count["empty"] = Len(empty) /\ t.head["empty"] = First(empty)
      /\ \A i \in Members(empty) : m[i].state = "empty"
      /\ "loose" \in Category /\ "empty" \in Category
  BY KeptFields
<1>3. First(a) \in Int /\ Len(a) = Len(loose) /\ Members(a) = S
  BY <1>1, AscendingHead
<1>. HIDE DEF D, S, a, m, m1, hd, r
<1>4. /\ m1 \in [D -> Links] /\ Ring(m1, a) /\ HeadOf(S) = First(a)
      /\ \A i \in Members(empty) : m1[i] = m[i]
      /\ \A i \in S : m1[i].state = "loose"
  <2>1. IsChained(D, m, S, "loose")
    BY <1>1, <1>2, ChainedFacts
  <2>2. D \cup S = D /\ Members(empty) \subseteq D \ S
    BY <1>1
  <2>. QED
    BY <2>1, <2>2 DEF IsChained, m1, a
<1>5. Ring(m1, empty)
  <2>1. Members(empty) \subseteq DOMAIN m1
    BY <1>1, <1>4
  <2>. QED
    BY <1>2, <1>4, <2>1, RingKept
<1>6. hd \in [Category -> Int] /\ hd["loose"] = First(a) /\ hd["empty"] = First(empty)
  BY <1>2, <1>3 DEF hd
<1>7. r = Domain(t.capacity, t.peak_usage, t.peak_index, t.high_index, t.count, hd, m1)
  <2>1. r = [t EXCEPT !.head = [t.head EXCEPT !["loose"] = HeadOf(S)], !.meta = m1]
    BY <1>2 DEF Rebuilt, Fields, r
  <2>2. r = [t EXCEPT !.head = hd, !.meta = m1]
    BY <1>4, <2>1 DEF hd
  <2>. QED
    BY <1>2, <2>2 DEF Domain, Fields
<1>8. Lists(r, a, empty)
  <2>1. Members(a) \cup Members(empty) = Slots(t.capacity) /\ m1 \in [Slots(t.capacity) -> Links]
    BY <1>1, <1>3, <1>4 DEF D
  <2>2. \A i \in Members(a) : m1[i].state = "loose"
    BY <1>3, <1>4
  <2>3. \A i \in Members(empty) : m1[i].state = "empty"
    BY <1>2, <1>4
  <2>4. t.count["loose"] = Len(a)
    BY <1>2, <1>3
  <2>. QED
    BY <1>2, <1>4, <1>5, <1>6, <1>7, <2>1, <2>2, <2>3, <2>4, Relisted
<1>9. /\ r.capacity = t.capacity /\ r.peak_usage = t.peak_usage
      /\ r.peak_index = t.peak_index /\ r.high_index = t.high_index
  BY <1>7 DEF Domain
<1>. QED
  BY <1>8, <1>9 DEF a, r, S, m1, m

\* The slots below a bound in order, then those above it, are all in order.
LEMMA AscendingSplit ==
    ASSUME NEW S \in SUBSET Nat, NEW T \in SUBSET Nat, IsFiniteSet(S), IsFiniteSet(T),
           \A i \in S, j \in T : i < j
    PROVE  Abstract!Ascending(S) \o Abstract!Ascending(T) = Abstract!Ascending(S \cup T)
<1>. DEFINE a == Abstract!Ascending(S)
            b == Abstract!Ascending(T)
            w == a \o b
            n == Len(a)
            k == Len(b)
<1>1. /\ a \in Seq(Nat) /\ Members(a) = S /\ Rises(a)
      /\ b \in Seq(Nat) /\ Members(b) = T /\ Rises(b)
  BY AscendingFacts
<1>. HIDE DEF a, b, w
<1>2. n \in Nat /\ k \in Nat
  BY <1>1
<1>3. /\ w \in Seq(Nat) /\ Len(w) = n + k
      /\ \A q \in 1 .. n + k : w[q] = IF q <= n THEN a[q] ELSE b[q - n]
  BY <1>1, ConcatProperties DEF w
<1>4. /\ \A q \in 1 .. n : a[q] \in S
      /\ \A q \in 1 .. k : b[q] \in T
      /\ \A i \in S : \E q \in 1 .. n : a[q] = i
      /\ \A i \in T : \E q \in 1 .. k : b[q] = i
      /\ \A q, p \in 1 .. n : q < p => a[q] < a[p]
      /\ \A q, p \in 1 .. k : q < p => b[q] < b[p]
  BY <1>1 DEF Members, Rises
<1>. HIDE DEF n, k
<1>5. Members(w) = S \cup T
  <2>1. \A q \in 1 .. n + k : w[q] \in S \cup T
    <3>. SUFFICES ASSUME NEW q \in 1 .. n + k PROVE w[q] \in S \cup T
      OBVIOUS
    <3>1. q <= n => q \in 1 .. n
      BY <1>2
    <3>2. ~ q <= n => q - n \in 1 .. k
      BY <1>2
    <3>. QED
      BY <1>3, <1>4, <3>1, <3>2
  <2>2. \A i \in S : \E q \in 1 .. n + k : w[q] = i
    <3>1. \A q \in 1 .. n : q \in 1 .. n + k /\ q <= n
      BY <1>2
    <3>. QED
      BY <1>3, <1>4, <3>1
  <2>3. \A i \in T : \E q \in 1 .. n + k : w[q] = i
    <3>1. \A q \in 1 .. k : n + q \in 1 .. n + k /\ ~ n + q <= n /\ (n + q) - n = q
      BY <1>2
    <3>. QED
      BY <1>3, <1>4, <3>1
  <2>4. Members(w) = {w[q] : q \in 1 .. n + k}
    BY <1>3 DEF Members
  <2>. QED
    BY <2>1, <2>2, <2>3, <2>4
<1>6. Rises(w)
  <2>. SUFFICES ASSUME NEW q \in 1 .. n + k, NEW p \in 1 .. n + k, q < p PROVE w[q] < w[p]
    BY <1>3 DEF Rises
  <2>1. CASE p <= n
    <3>1. q \in 1 .. n /\ p \in 1 .. n /\ q <= n
      BY <1>2, <2>1
    <3>. QED
      BY <1>3, <1>4, <2>1, <3>1
  <2>2. CASE ~ p <= n /\ q <= n
    <3>1. q \in 1 .. n /\ p - n \in 1 .. k
      BY <1>2, <2>2
    <3>. QED
      BY <1>3, <1>4, <2>2, <3>1
  <2>3. CASE ~ q <= n
    <3>1. q - n \in 1 .. k /\ p - n \in 1 .. k /\ q - n < p - n /\ ~ p <= n
      BY <1>2, <2>3
    <3>. QED
      BY <1>3, <1>4, <2>3, <3>1
  <2>. QED
    BY <2>1, <2>2, <2>3
<1>7. Abstract!Ascending(Members(w)) = w
  BY <1>3, <1>6, AscendingIs
<1>. QED
  BY <1>5, <1>7 DEF w, a, b

\* rebuild_empty_list_in_index_order(), in the parts below and above a bound.
LEMMA EmptyRebuilt ==
    ASSUME NEW t, NEW loose, NEW empty, Lists(t, loose, empty), NEW low, NEW high,
           low \cup high = Members(empty), \A i \in low, j \in high : i < j
    PROVE  LET m2 == Chained(Chained(t.meta, low, "empty"), high, "empty")
               r == Rebuilt(t, "empty", CombinedHead(HeadOf(low), HeadOf(high)),
                            Combined(m2, HeadOf(low), HeadOf(high)))
           IN /\ Lists(r, loose, Abstract!Ascending(Members(empty)))
              /\ r.capacity = t.capacity /\ r.peak_usage = t.peak_usage
              /\ r.peak_index = t.peak_index /\ r.high_index = t.high_index
<1>. DEFINE D == Slots(t.capacity)
            S == Members(empty)
            a == Abstract!Ascending(low)
            b == Abstract!Ascending(high)
            w == Abstract!Ascending(S)
            m == t.meta
            m1 == Chained(m, low, "empty")
            m2 == Chained(m1, high, "empty")
            m3 == Combined(m2, First(a), First(b))
            hd == [t.head EXCEPT !["empty"] = First(w)]
            r == Rebuilt(t, "empty", CombinedHead(HeadOf(low), HeadOf(high)),
                         Combined(m2, HeadOf(low), HeadOf(high)))
<1>1. /\ D \in SUBSET Nat /\ m \in [D -> Links]
      /\ Members(loose) \cup S = D /\ Members(loose) \cap S = {}
      /\ S \in SUBSET Nat /\ S \subseteq D /\ IsFiniteSet(S) /\ Cardinality(S) = Len(empty)
  BY ListsFacts, SMTT(30)
<1>2. /\ t \in Fields(t.capacity) /\ t.capacity \in Nat /\ Ring(m, loose)
      /\ t.peak_usage \in Nat /\ t.peak_index \in Int /\ t.high_index \in Int
      /\ t.count \in [Category -> Int] /\ t.head \in [Category -> Int]
      /\ t.count["empty"] = Len(empty)
      /\ t.count["loose"] = Len(loose) /\ t.head["loose"] = First(loose)
      /\ \A i \in Members(loose) : m[i].state = "loose"
      /\ "loose" \in Category /\ "empty" \in Category
  BY KeptFields
<1>3. /\ low \in SUBSET Nat /\ high \in SUBSET Nat /\ low \subseteq D /\ high \subseteq D
      /\ low \cup high = S
  BY <1>1
<1>4. IsFiniteSet(low) /\ IsFiniteSet(high)
  BY <1>1, <1>3, FS_Subset
<1>5. low \cap high = {}
  <2>1. \A i \in low : i \in Nat
    BY <1>3
  <2>2. \A i \in low : i \notin high
    BY <2>1
  <2>. QED
    BY <2>2
<1>6. First(w) \in Int /\ Len(w) = Len(empty) /\ Members(w) = S
  BY <1>1, AscendingHead
<1>7. Members(a) = low /\ Members(b) = high
  BY <1>3, <1>4, AscendingHead
<1>8. w = a \o b
  BY <1>3, <1>4, AscendingSplit
<1>. HIDE DEF D, S, a, b, w, m, m1, m2, m3, hd, r
<1>9. /\ m1 \in [D -> Links] /\ Ring(m1, a) /\ HeadOf(low) = First(a)
      /\ \A i \in D \ low : m1[i] = m[i]
      /\ \A i \in low : m1[i].state = "empty"
  <2>1. IsChained(D, m, low, "empty")
    BY <1>1, <1>2, <1>3, <1>4, ChainedFacts
  <2>2. D \cup low = D
    BY <1>3
  <2>. QED
    BY <2>1, <2>2 DEF IsChained, m1, a
<1>10. /\ m2 \in [D -> Links] /\ Ring(m2, b) /\ HeadOf(high) = First(b)
       /\ \A i \in D \ high : m2[i] = m1[i]
       /\ \A i \in high : m2[i].state = "empty"
  <2>1. IsChained(D, m1, high, "empty")
    BY <1>2, <1>3, <1>4, <1>9, ChainedFacts
  <2>2. D \cup high = D
    BY <1>3
  <2>. QED
    BY <2>1, <2>2 DEF IsChained, m2, b
<1>11. Ring(m2, a)
  <2>1. Members(a) \subseteq DOMAIN m2
    BY <1>3, <1>7, <1>10
  <2>2. \A i \in Members(a) : m2[i] = m1[i]
    BY <1>3, <1>5, <1>7, <1>10
  <2>. QED
    BY <1>9, <2>1, <2>2, RingKept
<1>12. /\ m3 \in [D -> Links] /\ Ring(m3, w)
       /\ First(w) = CombinedHead(First(a), First(b))
       /\ \A i \in D : m3[i].state = m2[i].state
       /\ \A i \in D \ S : m3[i] = m2[i]
  <2>1. IsCombined(D, m2, a, b)
    BY <1>1, <1>5, <1>7, <1>10, <1>11, CombinedFacts
  <2>. QED
    BY <1>3, <1>7, <1>8, <2>1 DEF IsCombined, m3
<1>13. Ring(m3, loose) /\ \A i \in Members(loose) : m3[i] = m[i]
  <2>1. Members(loose) \subseteq DOMAIN m3
    BY <1>1, <1>12
  <2>2. \A i \in Members(loose) : m3[i] = m[i]
    BY <1>1, <1>3, <1>9, <1>10, <1>12
  <2>. QED
    BY <1>2, <2>1, <2>2, RingKept
<1>14. hd \in [Category -> Int] /\ hd["empty"] = First(w) /\ hd["loose"] = First(loose)
  BY <1>2, <1>6 DEF hd
<1>15. r = Domain(t.capacity, t.peak_usage, t.peak_index, t.high_index, t.count, hd, m3)
  <2>1. r = [t EXCEPT !.head = [t.head EXCEPT !["empty"] = CombinedHead(HeadOf(low), HeadOf(high))],
                      !.meta = Combined(m2, HeadOf(low), HeadOf(high))]
    BY <1>2 DEF Rebuilt, Fields, r
  <2>2. r = [t EXCEPT !.head = hd, !.meta = m3]
    BY <1>9, <1>10, <1>12, <2>1 DEF hd, m3
  <2>. QED
    BY <1>2, <2>2 DEF Domain, Fields
<1>16. Lists(r, loose, w)
  <2>1. Members(loose) \cup Members(w) = Slots(t.capacity) /\ m3 \in [Slots(t.capacity) -> Links]
    BY <1>1, <1>6, <1>12 DEF D
  <2>2. \A i \in Members(w) : m3[i].state = "empty"
    BY <1>3, <1>6, <1>9, <1>10, <1>12
  <2>3. \A i \in Members(loose) : m3[i].state = "loose"
    BY <1>2, <1>13
  <2>4. t.count["empty"] = Len(w)
    BY <1>2, <1>6
  <2>. QED
    BY <1>2, <1>12, <1>13, <1>14, <1>15, <2>1, <2>2, <2>3, <2>4, Relisted
<1>17. /\ r.capacity = t.capacity /\ r.peak_usage = t.peak_usage
       /\ r.peak_index = t.peak_index /\ r.high_index = t.high_index
  BY <1>15 DEF Domain
<1>. QED
  BY <1>16, <1>17 DEF w, S, r, m2, m1, m

----------------------------------------------------------------------------
(* The inductive invariant: the bounds *)

\* The ranks of pack()'s moves, and the slots they have reached.
PackFollows ==
    /\ lock = "none" \/ lock = "on_move_payload"
    /\ lock = "on_move_payload" =>
          /\ index.capacity # 0 /\ source \in 0 .. index.capacity
          /\ target = Cardinality({j \in Of(index, "loose") : j < source})

\* The bounds that the headers keep.
BoundsHold(t) ==
    /\ t.capacity \in 0 .. Limit /\ (t.capacity = 0 => t = Uninitialised)
    /\ -1 <= t.high_index /\ t.high_index <= t.peak_index /\ t.peak_usage <= t.peak_index + 1
    /\ t.high_index # -1 => t.high_index \in Of(t, "loose")
    /\ \A i \in Of(t, "loose") : i <= t.high_index

\* The inductive invariant: the links spell two lists, the headers and the bounds
\* agree with them, and pack() has moved the payloads of the slots it has passed.
SlotsInv ==
    /\ Lists(index, Listed(index, "loose"), Listed(index, "empty"))
    /\ BoundsHold(index)
    /\ PackFollows
    /\ payload \in [Slots(Limit) -> Payloads \cup {None}]

\* Lists with any witnesses are the lists a traversal finds.
LEMMA ListsFound ==
    ASSUME NEW t, NEW u, NEW v, Lists(t, u, v)
    PROVE  /\ Listed(t, "loose") = u /\ Listed(t, "empty") = v
           /\ Lists(t, Listed(t, "loose"), Listed(t, "empty"))
<1>1. IsList(t, "loose", u) /\ IsList(t, "empty", v)
  BY DEF Lists
<1>2. Listed(t, "loose") = u
  BY <1>1, ListedIs
<1>3. Listed(t, "empty") = v
  BY <1>1, ListedIs
<1>. QED
  BY <1>2, <1>3

\* The bounds, from the list of loose slots.
LEMMA BoundsFrom ==
    ASSUME NEW t, NEW u, NEW v, Lists(t, u, v), t.capacity \in 1 .. Limit,
           -1 <= t.high_index, t.high_index <= t.peak_index, t.peak_usage <= t.peak_index + 1,
           t.high_index # -1 => t.high_index \in Members(u),
           \A i \in Members(u) : i <= t.high_index
    PROVE  BoundsHold(t)
<1>1. Of(t, "loose") = Members(u)
  BY ListsFacts
<1>2. t.capacity \in 0 .. Limit /\ t.capacity # 0
  BY UnorderedAssumption
<1>. QED
  BY <1>1, <1>2 DEF BoundsHold

\* Slots up to a highest one are no more than that allows.
LEMMA CountBelow ==
    ASSUME NEW S \in SUBSET Nat, NEW high \in Int, -1 <= high, \A i \in S : i <= high
    PROVE  Cardinality(S) <= high + 1
<1>. DEFINE h == high + 1
<1>1. h \in Nat /\ S \subseteq 0 .. h - 1
  OBVIOUS
<1>. HIDE DEF h
<1>2. IsFiniteSet(0 .. h - 1) /\ Cardinality(0 .. h - 1) = h
  BY <1>1, Intervals
<1>3. Cardinality(S) <= h
  BY <1>1, <1>2, FS_Subset
<1>. QED
  BY <1>3 DEF h

\* The loose slots are no more than the highest of them allows.
LEMMA HighFacts ==
    ASSUME NEW t, NEW u, NEW v, Lists(t, u, v), BoundsHold(t)
    PROVE  /\ t.high_index \in Int /\ t.peak_index \in Int /\ t.peak_usage \in Nat
           /\ -1 <= t.high_index /\ t.high_index <= t.peak_index /\ t.peak_usage <= t.peak_index + 1
           /\ t.high_index # -1 => t.high_index \in Members(u)
           /\ \A i \in Members(u) : i <= t.high_index
           /\ Len(u) <= t.high_index + 1
           /\ t.capacity \in 0 .. Limit
<1>1. /\ Of(t, "loose") = Members(u) /\ Members(u) \subseteq Slots(t.capacity)
      /\ Slots(t.capacity) \in SUBSET Nat /\ Cardinality(Members(u)) = Len(u)
  BY ListsFacts
<1>2. t.high_index \in Int /\ t.peak_index \in Int /\ t.peak_usage \in Nat
  BY KeptFields
<1>3. /\ -1 <= t.high_index /\ t.high_index <= t.peak_index /\ t.peak_usage <= t.peak_index + 1
      /\ t.high_index # -1 => t.high_index \in Members(u)
      /\ \A i \in Members(u) : i <= t.high_index
      /\ t.capacity \in 0 .. Limit
  BY <1>1 DEF BoundsHold
<1>4. Len(u) <= t.high_index + 1
  <2>1. Members(u) \in SUBSET Nat
    BY <1>1
  <2>. QED
    BY <1>1, <1>2, <1>3, <2>1, CountBelow
<1>. QED
  BY <1>2, <1>3, <1>4


\* private_resize() upwards keeps the bounds.
LEMMA GrownBounds ==
    ASSUME NEW t, NEW u, NEW v, Lists(t, u, v), BoundsHold(t), NEW n \in 1 .. Limit, n > t.capacity
    PROVE  BoundsHold(Grown(t, n))
<1>1. n \in Nat
  OBVIOUS
<1>. DEFINE r == Grown(t, n)
            w == v \o Abstract!Ascending(Slots(n) \ Slots(t.capacity))
<1>2. /\ Lists(r, u, w) /\ r.capacity = n /\ r.peak_usage = t.peak_usage
      /\ r.peak_index = t.peak_index /\ r.high_index = t.high_index
  BY <1>1, GrownFacts
<1>. HIDE DEF r, w
<1>3. BoundsHold(r)
  BY <1>2, HighFacts, BoundsFrom
<1>. QED
  BY <1>3 DEF r

\* private_resize() downwards rebuilds the empty list below the new capacity.
LEMMA ShrunkBounds ==
    ASSUME NEW t, NEW u, NEW v, Lists(t, u, v), BoundsHold(t), NEW n \in 1 .. Limit, n < t.capacity,
           n >= t.high_index + 1
    PROVE  /\ BoundsHold(Shrunk(t, n)) /\ \A i \in Members(u) : i < n
           /\ Lists(Shrunk(t, n), u, Abstract!Ascending(Slots(n) \ Members(u)))
<1>1. n \in Nat
  OBVIOUS
<1>. DEFINE r == Shrunk(t, n)
            w == Abstract!Ascending(Slots(n) \ Members(u))
<1>2. \A i \in Members(u) : i < n
  <2>1. \A i \in Members(u) : i <= t.high_index /\ i \in Nat
    BY HighFacts, ListsFacts
  <2>2. t.high_index \in Int
    BY HighFacts
  <2>. QED
    BY <1>1, <2>1, <2>2
<1>3. /\ Lists(r, u, w) /\ r.capacity = n /\ r.peak_usage = t.peak_usage
      /\ r.peak_index = t.peak_index /\ r.high_index = t.high_index
  BY <1>1, <1>2, ShrunkFacts
<1>. HIDE DEF r, w
<1>4. BoundsHold(r)
  BY <1>3, HighFacts, BoundsFrom
<1>. QED
  BY <1>2, <1>3, <1>4 DEF r, w

\* private_acquire()
LEMMA AcquiredFacts ==
    ASSUME NEW t, NEW u, NEW v, Lists(t, u, v), BoundsHold(t), NEW i \in Members(v)
    PROVE  /\ Lists(Acquired(t, i), <<i>> \o u, Abstract!Without(v, i)) /\ BoundsHold(Acquired(t, i))
<1>. DEFINE moved == Moved(t, i, "empty", "loose")
            r == Acquired(t, i)
            x == <<i>> \o u
            w == Abstract!Without(v, i)
<1>1. Typed(t) /\ IsList(t, "loose", u) /\ IsList(t, "empty", v) /\ "loose" # "empty"
  BY DEF Lists
<1>2. "loose" \in Category /\ "empty" \in Category
  BY DEF Category
<1>3. IsMoved(t, i, "empty", "loose", v, u)
  BY <1>1, <1>2, MovedFacts
<1>. HIDE DEF moved, r, x, w
<1>4. /\ Typed(moved) /\ IsList(moved, "empty", w) /\ IsList(moved, "loose", x)
      /\ moved.capacity = t.capacity /\ moved.peak_usage = t.peak_usage
      /\ moved.peak_index = t.peak_index /\ moved.high_index = t.high_index
      /\ Of(moved, "loose") = Of(t, "loose") \cup {i}
      /\ moved.count["loose"] = t.count["loose"] + 1
  BY <1>3 DEF IsMoved, moved, x, w
<1>5. /\ Of(t, "loose") = Members(u) /\ t.count["loose"] = Len(u) /\ Len(u) \in Nat
      /\ i \in Slots(t.capacity) /\ i \in Nat /\ t.capacity \in Nat
      /\ Members(u) \in SUBSET Nat
  BY ListsFacts
<1>6. /\ t.high_index \in Int /\ t.peak_index \in Int /\ t.peak_usage \in Nat
      /\ -1 <= t.high_index /\ t.high_index <= t.peak_index /\ t.peak_usage <= t.peak_index + 1
      /\ t.high_index # -1 => t.high_index \in Members(u)
      /\ \A j \in Members(u) : j <= t.high_index
      /\ Len(u) <= t.high_index + 1
      /\ t.capacity \in 0 .. Limit
  BY HighFacts
<1>7. moved \in Fields(t.capacity)
  BY <1>4 DEF Typed
<1>8. /\ r \in Fields(t.capacity) /\ r.capacity = t.capacity
      /\ r.count = moved.count /\ r.head = moved.head /\ r.meta = moved.meta
      /\ r.peak_usage = Largest(t.peak_usage, Len(u) + 1)
      /\ r.high_index = Largest(t.high_index, i)
      /\ r.peak_index = IF t.high_index < i THEN Largest(t.peak_index, i) ELSE t.peak_index
  <2>. DEFINE usage == Largest(moved.peak_usage, moved.count["loose"])
              high == Largest(moved.high_index, i)
              peak == IF t.high_index < i THEN Largest(moved.peak_index, i) ELSE moved.peak_index
  <2>1. usage \in Nat /\ high \in Int /\ peak \in Int
    BY <1>4, <1>5, <1>6 DEF Largest
  <2>2. r = [moved EXCEPT !.peak_usage = usage, !.high_index = high, !.peak_index = peak]
    BY <1>7 DEF Acquired, r, moved, Fields
  <2>. HIDE DEF usage, high, peak
  <2>3. /\ r \in Fields(t.capacity) /\ r.capacity = moved.capacity
        /\ r.count = moved.count /\ r.head = moved.head /\ r.meta = moved.meta
        /\ r.peak_usage = usage /\ r.high_index = high /\ r.peak_index = peak
    BY <1>7, <2>1, <2>2 DEF Fields
  <2>. QED
    BY <1>4, <1>5, <2>3 DEF usage, high, peak
<1>9. Of(r, "loose") = Of(moved, "loose") /\ Of(r, "empty") = Of(moved, "empty")
  BY <1>8 DEF Of
<1>10. Lists(r, x, w)
  <2>1. IsList(r, "loose", x) /\ IsList(r, "empty", w)
    BY <1>4, <1>8, <1>9 DEF IsList
  <2>2. Typed(r)
    BY <1>5, <1>8 DEF Typed
  <2>. QED
    BY <2>1, <2>2 DEF Lists
<1>11. Members(x) = Members(u) \cup {i}
  BY <1>4, <1>5 DEF IsList
<1>12. t.capacity \in 1 .. Limit
  BY <1>5, <1>6 DEF Slots
<1>13. r.high_index = IF t.high_index < i THEN i ELSE t.high_index
  BY <1>5, <1>6, <1>8 DEF Largest
<1>14. r.high_index # -1 => r.high_index \in Members(x)
  BY <1>6, <1>11, <1>13
<1>15. \A j \in Members(x) : j <= r.high_index
  <2>1. \A j \in Members(u) : j \in Nat
    BY <1>5
  <2>. QED
    BY <1>5, <1>6, <1>11, <1>13, <2>1
<1>16. Len(u) + 1 <= r.high_index + 1
  <2>1. Members(x) \in SUBSET Nat /\ Cardinality(Members(x)) = Len(x)
    BY <1>10, ListsFacts
  <2>2. Len(x) = Len(u) + 1
    BY <1>4, <1>5 DEF IsList
  <2>3. r.high_index \in Int /\ -1 <= r.high_index
    BY <1>5, <1>6, <1>13
  <2>. QED
    BY <1>15, <2>1, <2>2, <2>3, CountBelow
<1>17. -1 <= r.high_index /\ r.high_index <= r.peak_index /\ r.peak_usage <= r.peak_index + 1
  <2>. DEFINE high == t.high_index
              peak == t.peak_index
              usage == t.peak_usage
              n == Len(u)
  <2>1. /\ high \in Int /\ peak \in Int /\ usage \in Nat /\ n \in Nat /\ i \in Nat
        /\ -1 <= high /\ high <= peak /\ usage <= peak + 1
    BY <1>5, <1>6
  <2>2. /\ r.peak_usage = Largest(usage, n + 1) /\ r.high_index = IF high < i THEN i ELSE high
        /\ r.peak_index = IF high < i THEN Largest(peak, i) ELSE peak
        /\ n + 1 <= r.high_index + 1
    BY <1>8, <1>13, <1>16
  <2>. HIDE DEF high, peak, usage, n
  <2>3. CASE high < i
    <3>1. r.high_index = i /\ i <= r.peak_index /\ peak <= r.peak_index /\ r.peak_index \in Int
      BY <2>1, <2>2, <2>3 DEF Largest
    <3>2. r.peak_usage <= r.peak_index + 1
      BY <2>1, <2>2, <2>3, <3>1 DEF Largest
    <3>. QED
      BY <2>1, <2>3, <3>1, <3>2
  <2>4. CASE ~ high < i
    <3>1. r.high_index = high /\ r.peak_index = peak
      BY <2>1, <2>2, <2>4
    <3>2. r.peak_usage <= r.peak_index + 1
      BY <2>1, <2>2, <2>4, <3>1 DEF Largest
    <3>. QED
      BY <2>1, <2>4, <3>1, <3>2
  <2>. QED
    BY <2>3, <2>4
<1>18. BoundsHold(r)
  BY <1>8, <1>10, <1>12, <1>14, <1>15, <1>17, BoundsFrom
<1>. QED
  BY <1>10, <1>18 DEF r, x, w

\* The highest slot of a set.
LEMMA Highest ==
    ASSUME NEW S \in SUBSET Nat, IsFiniteSet(S), S # {}
    PROVE  Max(S) \in S /\ \A j \in S : j <= Max(S)
<1>. DEFINE a == Abstract!Ascending(S)
            n == Len(a)
<1>1. a \in Seq(Nat) /\ Members(a) = S /\ Rises(a) /\ n \in Nat
  BY AscendingFacts
<1>. HIDE DEF a
<1>2. n # 0
  BY <1>1 DEF Members
<1>3. n \in 1 .. n
  BY <1>1, <1>2
<1>4. Max(S) = a[n]
  BY <1>1, <1>3, AfterFacts
<1>5. a[n] \in S
  BY <1>1, <1>3 DEF Members
<1>6. \A k \in 1 .. n : a[k] <= a[n]
  <2>. SUFFICES ASSUME NEW k \in 1 .. n PROVE a[k] <= a[n]
    OBVIOUS
  <2>1. a[k] \in Nat /\ a[n] \in Nat
    BY <1>1, <1>3
  <2>2. k # n => k < n
    BY <1>1
  <2>3. k # n => a[k] < a[n]
    BY <1>1, <1>3, <2>2 DEF Rises
  <2>. QED
    BY <2>1, <2>3
<1>7. \A j \in S : j <= a[n]
  BY <1>1, <1>6 DEF Members
<1>. QED
  BY <1>4, <1>5, <1>7

\* erase()
Erased(t, i) ==
    LET moved == Moved(t, i, "loose", "empty") IN
    [moved EXCEPT !.high_index = HighWithout(moved, i)]

\* erase(): the scan finds the highest of the slots that are left.
LEMMA ErasedFacts ==
    ASSUME NEW t, NEW u, NEW v, Lists(t, u, v), BoundsHold(t), NEW i \in Members(u)
    PROVE  Lists(Erased(t, i), Abstract!Without(u, i), <<i>> \o v) /\ BoundsHold(Erased(t, i))
<1>. DEFINE moved == Moved(t, i, "loose", "empty")
            r == Erased(t, i)
            x == <<i>> \o v
            w == Abstract!Without(u, i)
            S == Members(u) \ {i}
            high == HighWithout(moved, i)
<1>1. Typed(t) /\ IsList(t, "loose", u) /\ IsList(t, "empty", v) /\ "loose" # "empty"
  BY DEF Lists
<1>2. "loose" \in Category /\ "empty" \in Category
  BY DEF Category
<1>3. IsMoved(t, i, "loose", "empty", u, v)
  BY <1>1, <1>2, MovedFacts
<1>. HIDE DEF moved, r, x, w, S, high
<1>4. /\ Typed(moved) /\ IsList(moved, "loose", w) /\ IsList(moved, "empty", x)
      /\ moved.capacity = t.capacity /\ moved.peak_usage = t.peak_usage
      /\ moved.peak_index = t.peak_index /\ moved.high_index = t.high_index
      /\ Of(moved, "loose") = Of(t, "loose") \ {i}
      /\ moved.count["loose"] = t.count["loose"] - 1
  BY <1>3 DEF IsMoved, moved, x, w
<1>5. /\ Of(t, "loose") = Members(u) /\ t.count["loose"] = Len(u) /\ Len(u) \in Nat
      /\ i \in Slots(t.capacity) /\ i \in Nat /\ t.capacity \in Nat
      /\ Members(u) \in SUBSET Nat /\ IsFiniteSet(Members(u))
  BY ListsFacts
<1>6. /\ t.high_index \in Int /\ t.peak_index \in Int /\ t.peak_usage \in Nat
      /\ -1 <= t.high_index /\ t.high_index <= t.peak_index /\ t.peak_usage <= t.peak_index + 1
      /\ t.high_index # -1 => t.high_index \in Members(u)
      /\ \A j \in Members(u) : j <= t.high_index
      /\ t.capacity \in 0 .. Limit
  BY HighFacts
<1>7. moved \in Fields(t.capacity)
  BY <1>4 DEF Typed
<1>8. S = Members(w) /\ Of(moved, "loose") = S /\ S \in SUBSET Nat /\ IsFiniteSet(S)
  <2>1. Of(moved, "loose") = S /\ S \in SUBSET Nat
    BY <1>4, <1>5 DEF S
  <2>2. IsFiniteSet(S)
    BY <1>5, FS_Subset DEF S
  <2>. QED
    BY <1>4, <2>1, <2>2 DEF IsList
<1>9. /\ high \in Int /\ -1 <= high /\ high <= t.high_index
      /\ high # -1 => high \in S
      /\ \A j \in S : j <= high
  <2>1. CASE t.high_index # i
    <3>1. high = t.high_index
      BY <1>4, <2>1 DEF high, HighWithout
    <3>. QED
      BY <1>6, <2>1, <3>1 DEF S
  <2>2. CASE t.high_index = i /\ S = {}
    <3>1. moved.count["loose"] = 0
      <4>1. Len(w) = moved.count["loose"] /\ w \in Seq(Nat) /\ Members(w) = {}
        BY <1>4, <1>8, <2>2 DEF IsList, Ring
      <4>2. Len(w) \in Nat
        BY <4>1
      <4>3. Len(w) # 0 => 1 \in 1 .. Len(w)
        BY <4>2
      <4>4. Len(w) = 0
        BY <4>1, <4>3 DEF Members
      <4>. QED
        BY <4>1, <4>4
    <3>2. high = -1
      BY <1>4, <2>2, <3>1 DEF high, HighWithout
    <3>. QED
      BY <1>5, <2>2, <3>2
  <2>3. CASE t.high_index = i /\ S # {}
    <3>1. moved.count["loose"] # 0
      <4>1. Len(w) = moved.count["loose"] /\ w \in Seq(Nat) /\ Members(w) # {}
        BY <1>4, <1>8, <2>3 DEF IsList, Ring
      <4>2. Len(w) # 0
        BY <4>1 DEF Members
      <4>. QED
        BY <4>1, <4>2
    <3>2. {j \in Of(moved, "loose") : j < i} = S
      <4>1. \A j \in S : j \in Nat /\ j # i /\ j <= i
        BY <1>6, <1>8, <2>3 DEF S
      <4>2. \A j \in S : j < i
        BY <1>5, <4>1
      <4>. QED
        BY <1>8, <4>2
    <3>3. high = Max(S)
      BY <1>4, <2>3, <3>1, <3>2 DEF high, HighWithout
    <3>4. high \in S /\ \A j \in S : j <= high
      BY <1>8, <2>3, <3>3, Highest
    <3>5. high <= t.high_index /\ high \in Nat
      BY <1>6, <1>8, <3>4 DEF S
    <3>. QED
      BY <3>4, <3>5
  <2>. QED
    BY <2>1, <2>2, <2>3
<1>10. /\ r \in Fields(t.capacity) /\ r.capacity = t.capacity
       /\ r.count = moved.count /\ r.head = moved.head /\ r.meta = moved.meta
       /\ r.peak_usage = t.peak_usage /\ r.high_index = high /\ r.peak_index = t.peak_index
  <2>1. r = [moved EXCEPT !.high_index = high]
    BY DEF Erased, r, moved, high
  <2>2. /\ r \in Fields(t.capacity) /\ r.capacity = moved.capacity
        /\ r.count = moved.count /\ r.head = moved.head /\ r.meta = moved.meta
        /\ r.peak_usage = moved.peak_usage /\ r.high_index = high /\ r.peak_index = moved.peak_index
    BY <1>7, <1>9, <2>1 DEF Fields
  <2>. QED
    BY <1>4, <2>2
<1>11. Of(r, "loose") = Of(moved, "loose") /\ Of(r, "empty") = Of(moved, "empty")
  BY <1>10 DEF Of
<1>12. Lists(r, w, x)
  <2>1. IsList(r, "loose", w) /\ IsList(r, "empty", x)
    BY <1>4, <1>10, <1>11 DEF IsList
  <2>2. Typed(r)
    BY <1>5, <1>10 DEF Typed
  <2>. QED
    BY <2>1, <2>2 DEF Lists
<1>13. t.capacity \in 1 .. Limit
  BY <1>5, <1>6 DEF Slots
<1>14. r.high_index <= r.peak_index /\ r.peak_usage <= r.peak_index + 1
  BY <1>6, <1>9, <1>10
<1>15. BoundsHold(r)
  BY <1>8, <1>9, <1>10, <1>12, <1>13, <1>14, BoundsFrom
<1>. QED
  BY <1>12, <1>15 DEF r, x, w

\* pack() lowers high_index with the slots.
LEMMA PackedBounds ==
    ASSUME NEW t, NEW u, NEW v, Lists(t, u, v), BoundsHold(t), t.capacity # 0
    PROVE  BoundsHold(Packed(t))
<1>. DEFINE r == Packed(t)
            n == Len(u)
            a == Abstract!Ascending(Slots(n))
            b == Abstract!Ascending(Slots(t.capacity) \ Slots(n))
<1>1. /\ Lists(r, a, b) /\ r.capacity = t.capacity /\ r.peak_usage = t.peak_usage
      /\ r.peak_index = t.peak_index /\ r.high_index = n - 1
  BY PackedFacts
<1>2. n \in Nat
  BY ListsFacts
<1>3. Members(a) = Slots(n)
  <2>1. Slots(n) \in SUBSET Nat /\ IsFiniteSet(Slots(n))
    <3>. HIDE DEF n
    <3>. QED
      BY <1>2, Intervals DEF Slots
  <2>. QED
    BY <2>1, AscendingHead
<1>4. /\ t.high_index \in Int /\ t.peak_index \in Int /\ t.peak_usage \in Nat
      /\ -1 <= t.high_index /\ t.high_index <= t.peak_index /\ t.peak_usage <= t.peak_index + 1
      /\ n <= t.high_index + 1 /\ t.capacity \in 0 .. Limit
  BY HighFacts
<1>. HIDE DEF r, n, a, b
<1>5. /\ -1 <= r.high_index /\ r.high_index <= r.peak_index /\ r.peak_usage <= r.peak_index + 1
      /\ r.capacity \in 1 .. Limit
  BY <1>1, <1>2, <1>4
<1>6. r.high_index # -1 => r.high_index \in Members(a)
  BY <1>1, <1>2, <1>3 DEF Slots
<1>7. \A i \in Members(a) : i <= r.high_index
  BY <1>1, <1>2, <1>3 DEF Slots
<1>8. BoundsHold(r)
  BY <1>1, <1>5, <1>6, <1>7, BoundsFrom
<1>. QED
  BY <1>8 DEF r

\* clear() leaves every slot empty, in ascending order.
LEMMA FreshBounds ==
    ASSUME NEW n \in 1 .. Limit
    PROVE  Lists(Fresh(n), << >>, Abstract!Ascending(Slots(n))) /\ BoundsHold(Fresh(n))
<1>1. n \in Nat \ {0}
  OBVIOUS
<1>2. /\ Lists(Fresh(n), << >>, Abstract!Ascending(Slots(n)))
      /\ Fresh(n).capacity = n /\ Fresh(n).peak_usage = 0 /\ Fresh(n).peak_index = -1
      /\ Fresh(n).high_index = -1
  BY <1>1, FreshFacts
<1>3. Members(<< >>) = {}
  BY NoneListed
<1>4. BoundsHold(Fresh(n))
  BY <1>2, <1>3, BoundsFrom
<1>. QED
  BY <1>2, <1>4

\* set_empty() leaves no slots.
LEMMA UninitialisedFacts == Lists(Uninitialised, << >>, << >>) /\ BoundsHold(Uninitialised)
<1>. DEFINE t == Uninitialised
<1>1. /\ t.capacity = 0 /\ t.peak_usage = 0 /\ t.peak_index = -1 /\ t.high_index = -1
      /\ t.count = [c \in Category |-> 0] /\ t.head = [c \in Category |-> -1] /\ t.meta = << >>
  BY DEF Uninitialised
<1>2. << >> \in [Slots(0) -> Links] /\ Slots(0) = {}
  BY DEF Slots
<1>3. Typed(t)
  BY <1>2 DEF Typed, Fields, Uninitialised
<1>. HIDE DEF t
<1>4. Of(t, "loose") = {} /\ Of(t, "empty") = {}
  BY <1>1, <1>2 DEF Of
<1>5. t.count["loose"] = 0 /\ t.count["empty"] = 0 /\ t.head["loose"] = -1 /\ t.head["empty"] = -1
  BY <1>1 DEF Category
<1>6. IsList(t, "loose", << >>) /\ IsList(t, "empty", << >>)
  BY <1>1, <1>4, <1>5, NoneListed DEF IsList
<1>7. BoundsHold(t)
  <2>1. t = Uninitialised
    BY DEF t
  <2>. QED
    BY <1>1, <1>4, <2>1, UnorderedAssumption DEF BoundsHold
<1>. QED
  BY <1>3, <1>6, <1>7 DEF Lists, t

----------------------------------------------------------------------------
(* The operations of one step *)

\* What the invariant says of the lists as they are.
LEMMA InvFacts ==
    ASSUME SlotsInv
    PROVE  /\ Lists(index, Listed(index, "loose"), Listed(index, "empty")) /\ BoundsHold(index)
           /\ Of(index, "loose") = Members(Listed(index, "loose"))
           /\ Of(index, "empty") = Members(Listed(index, "empty"))
           /\ index.capacity \in 0 .. Limit /\ index.capacity \in Nat
           /\ index.capacity = Len(Listed(index, "loose")) + Len(Listed(index, "empty"))
           /\ index.count["loose"] = Len(Listed(index, "loose"))
           /\ index.count["empty"] = Len(Listed(index, "empty"))
           /\ payload \in [Slots(Limit) -> Payloads \cup {None}]
<1>1. Lists(index, Listed(index, "loose"), Listed(index, "empty")) /\ BoundsHold(index)
  BY DEF SlotsInv
<1>2. index.capacity \in 0 .. Limit
  BY <1>1 DEF BoundsHold
<1>. QED
  BY <1>1, <1>2, ListsFacts DEF SlotsInv

\* What has to be shown of a step that leaves pack() alone.
LEMMA InvAfter ==
    ASSUME NEW u, NEW v, Lists(index', u, v), BoundsHold(index'), lock' = "none",
           payload' \in [Slots(Limit) -> Payloads \cup {None}]
    PROVE  SlotsInv' /\ Listed(index, "loose")' = u /\ Listed(index, "empty")' = v
<1>1. Listed(index', "loose") = u /\ Listed(index', "empty") = v
  BY ListsFound
<1>2. Lists(index', Listed(index', "loose"), Listed(index', "empty"))
  BY <1>1
<1>3. PackFollows'
  BY DEF PackFollows
<1>. QED
  BY <1>1, <1>2, <1>3 DEF SlotsInv

\* The payload by slot, while pack() is not at work.
Content == [i \in Of(index, "loose") |-> PayloadOf(i)]

\* It is the payload itself then.
LEMMA ContentFacts ==
    /\ lock = "none" => Content = [i \in Of(index, "loose") |-> payload[i]]
    /\ lock' = "none" => Content' = [i \in Of(index', "loose") |-> payload'[i]]
BY DEF Content, PayloadOf

\* No slot is listed at first.
LEMMA NoContent ==
    ASSUME NEW f, NEW S, f = [i \in S |-> f[i]], S = {}
    PROVE  f = << >>
OBVIOUS

\* The constructor.
LEMMA SlotsInitInv == Init => SlotsInv /\ Abstract!Init
<1>. SUFFICES ASSUME Init PROVE SlotsInv /\ Abstract!Init
  OBVIOUS
<1>1. /\ index = Uninitialised /\ lock = "none"
      /\ payload = [i \in Slots(Limit) |-> None]
  BY DEF Init
<1>2. Lists(index, << >>, << >>) /\ BoundsHold(index)
  BY <1>1, UninitialisedFacts
<1>3. Listed(index, "loose") = << >> /\ Listed(index, "empty") = << >>
  BY <1>2, ListsFound
<1>4. SlotsInv
  BY <1>1, <1>2, <1>3 DEF SlotsInv, PackFollows
<1>5. Of(index, "loose") = {}
  BY <1>2, ListsFacts, NoneListed
<1>6. Content = << >>
  BY <1>5 DEF Content
<1>. QED
  BY <1>3, <1>4, <1>6 DEF Abstract!Init, Content

\* initialise() and clear().
LEMMA EmptiedDomain ==
    ASSUME SlotsInv, NEW n \in 1 .. Limit, index' = Fresh(n), lock' = "none",
           payload' = [i \in Slots(Limit) |-> None]
    PROVE  SlotsInv' /\ Abstract!Start(n)
<1>1. Lists(index', << >>, Abstract!Ascending(Slots(n))) /\ BoundsHold(index')
  BY FreshBounds
<1>2. /\ SlotsInv'
      /\ Listed(index, "loose")' = << >> /\ Listed(index, "empty")' = Abstract!Ascending(Slots(n))
  BY <1>1, InvAfter
<1>3. Of(index', "loose") = {}
  BY <1>1, ListsFacts, NoneListed
<1>4. Content' = << >>
  BY <1>3 DEF Content
<1>5. Abstract!Slots(n) = Slots(n)
  BY DEF Abstract!Slots, Slots
<1>. QED
  BY <1>2, <1>4, <1>5 DEF Abstract!Start, Content

\* shutdown()
LEMMA ShutdownStep == SlotsInv /\ Shutdown => SlotsInv' /\ Abstract!Start(0)
<1>. SUFFICES ASSUME SlotsInv, Shutdown PROVE SlotsInv' /\ Abstract!Start(0)
  OBVIOUS
<1>1. /\ index' = Uninitialised /\ lock' = "none"
      /\ payload' = [i \in Slots(Limit) |-> None]
  BY DEF Shutdown, Ready
<1>2. Lists(index', << >>, << >>) /\ BoundsHold(index')
  BY <1>1, UninitialisedFacts
<1>3. SlotsInv' /\ Listed(index, "loose")' = << >> /\ Listed(index, "empty")' = << >>
  BY <1>1, <1>2, InvAfter
<1>4. Of(index', "loose") = {}
  BY <1>2, ListsFacts, NoneListed
<1>5. Content' = << >>
  BY <1>4 DEF Content
<1>6. Abstract!Ascending(Abstract!Slots(0)) = << >>
  <2>1. Abstract!Slots(0) = Members(<< >>)
    BY NoneListed DEF Abstract!Slots
  <2>. QED
    BY <2>1, NoneListed, AscendingIs
<1>. QED
  BY <1>3, <1>5, <1>6 DEF Abstract!Start, Content

\* safe_resize() upwards, and reserve_empty().
LEMMA GrowStep ==
    ASSUME SlotsInv, NEW n \in 1 .. Limit, Grow(n)
    PROVE  SlotsInv' /\ n \in Abstract!Size + 1 .. Limit /\ Abstract!Grow(n)
<1>. DEFINE L == Listed(index, "loose")
            E == Listed(index, "empty")
            more == Abstract!Ascending(Slots(n) \ Slots(index.capacity))
<1>1. /\ lock = "none" /\ lock' = lock /\ payload' = payload
      /\ n > index.capacity /\ index' = Grown(index, n) /\ n \in Nat
  BY DEF Grow, Ready
<1>2. /\ Lists(index, L, E) /\ BoundsHold(index) /\ index.capacity \in Nat
      /\ index.capacity = Len(L) + Len(E) /\ Of(index, "loose") = Members(L)
      /\ payload \in [Slots(Limit) -> Payloads \cup {None}]
  BY InvFacts
<1>. HIDE DEF L, E, more
<1>3. Lists(index', L, E \o more)
  BY <1>1, <1>2, GrownFacts DEF more
<1>4. BoundsHold(index')
  BY <1>1, <1>2, GrownBounds
<1>5. SlotsInv' /\ Listed(index, "loose")' = L /\ Listed(index, "empty")' = E \o more
  BY <1>1, <1>2, <1>3, <1>4, InvAfter
<1>6. Of(index', "loose") = Of(index, "loose")
  BY <1>2, <1>3, ListsFacts
<1>7. Content' = Content
  BY <1>1, <1>6, ContentFacts
<1>8. Abstract!Size = index.capacity
  BY <1>2 DEF Abstract!Size, L, E
<1>9. more = Abstract!Ascending(Abstract!Slots(n) \ Abstract!Slots(Abstract!Size))
  BY <1>8 DEF more, Abstract!Slots, Slots
<1>10. Abstract!Grow(n)
  BY <1>5, <1>7, <1>9 DEF Abstract!Grow, Content, L, E
<1>11. n \in Abstract!Size + 1 .. Limit
  BY <1>1, <1>2, <1>8
<1>. QED
  BY <1>5, <1>10, <1>11

\* safe_resize() downwards, and shrink_to_fit().
LEMMA ShrinkStep ==
    ASSUME SlotsInv, NEW n \in 1 .. Limit, Shrink(n)
    PROVE  SlotsInv' /\ n \in 1 .. Abstract!Size - 1 /\ Abstract!Shrink(n)
<1>. DEFINE L == Listed(index, "loose")
            E == Listed(index, "empty")
            left == Abstract!Ascending(Slots(n) \ Members(L))
<1>1. /\ lock = "none" /\ lock' = lock /\ payload' = payload
      /\ n < index.capacity /\ index' = Shrunk(index, n) /\ n \in Nat /\ n >= index.high_index + 1
  BY DEF Shrink, Ready, minimum_safe_capacity
<1>2. /\ Lists(index, L, E) /\ BoundsHold(index) /\ index.capacity \in Nat
      /\ index.capacity = Len(L) + Len(E) /\ Of(index, "loose") = Members(L)
      /\ payload \in [Slots(Limit) -> Payloads \cup {None}]
  BY InvFacts
<1>. HIDE DEF L, E, left
<1>3. Lists(index', L, left) /\ BoundsHold(index') /\ \A i \in Members(L) : i < n
  BY <1>1, <1>2, ShrunkBounds DEF left
<1>4. SlotsInv' /\ Listed(index, "loose")' = L /\ Listed(index, "empty")' = left
  BY <1>1, <1>2, <1>3, InvAfter
<1>5. Of(index', "loose") = Of(index, "loose")
  BY <1>2, <1>3, ListsFacts
<1>6. Content' = Content
  BY <1>1, <1>5, ContentFacts
<1>7. L \in Seq(Nat) /\ Abstract!Range(L) = Members(L)
  <2>1. L \in Seq(Nat)
    BY <1>2, ListsFacts
  <2>. QED
    BY <2>1 DEF Abstract!Range, Members
<1>8. \A i \in DOMAIN L : L[i] < n
  BY <1>3, <1>7 DEF Members
<1>9. left = Abstract!Ascending(Abstract!Slots(n) \ Abstract!Range(L))
  BY <1>7 DEF left, Abstract!Slots, Slots
<1>10. Abstract!Shrink(n)
  BY <1>4, <1>6, <1>8, <1>9 DEF Abstract!Shrink, Content, L
<1>11. n \in 1 .. Abstract!Size - 1
  <2>1. Abstract!Size = index.capacity
    BY <1>2 DEF Abstract!Size, L, E
  <2>. QED
    BY <1>1, <1>2, <2>1
<1>. QED
  BY <1>4, <1>10, <1>11

\* A slot is taken from the front or the middle of the empty list of a domain,
\* grown for it or not.
LEMMA TakesStep ==
    ASSUME SlotsInv, NEW t, NEW E, Lists(t, Listed(index, "loose"), E), BoundsHold(t),
           NEW i \in Members(E), i \in Slots(Limit), NEW item \in Payloads,
           lock = "none", lock' = "none", index' = Acquired(t, i), payload' = [payload EXCEPT ![i] = item]
    PROVE  /\ SlotsInv' /\ Abstract!Takes(i, item)
           /\ Listed(index, "empty")' = Abstract!Without(E, i)
<1>. DEFINE L == Listed(index, "loose")
            x == <<i>> \o L
            w == Abstract!Without(E, i)
<1>1. /\ Of(index, "loose") = Members(L)
      /\ payload \in [Slots(Limit) -> Payloads \cup {None}]
  BY InvFacts
<1>2. payload' \in [Slots(Limit) -> Payloads \cup {None}]
  BY <1>1
<1>. HIDE DEF L, x, w
<1>3. Lists(index', x, w) /\ BoundsHold(index')
  BY AcquiredFacts DEF L, x, w
<1>4. SlotsInv' /\ Listed(index, "loose")' = x /\ Listed(index, "empty")' = w
  BY <1>2, <1>3, InvAfter
<1>5. L \in Seq(Nat) /\ i \in Nat /\ i \notin Members(L) /\ Ring(t.meta, L)
  BY ListsFacts, KeptFields DEF L
<1>6. Of(index', "loose") = Members(L) \cup {i}
  <2>1. Of(index', "loose") = Members(x)
    BY <1>3, ListsFacts
  <2>2. Members(x) = Members(<<i>>) \cup Members(L)
    <3>1. /\ <<i>> \in Seq(Nat) /\ Len(<<i>>) = 1 /\ <<i>>[1] = i /\ Len(L) \in Nat
          /\ x \in Seq(Nat) /\ Len(x) = Len(L) + 1
          /\ \A k \in 1 .. Len(L) + 1 : x[k] = IF k <= 1 THEN <<i>>[k] ELSE L[k - 1]
      BY <1>5, ConcatProperties DEF x
    <3>2. x[1] = i /\ 1 \in 1 .. Len(L) + 1
      BY <3>1
    <3>3. \A k \in 1 .. Len(L) : k + 1 \in 1 .. Len(L) + 1 /\ x[k + 1] = L[k]
      BY <3>1
    <3>4. \A k \in 1 .. Len(L) + 1 : k # 1 => k - 1 \in 1 .. Len(L) /\ x[k] = L[k - 1]
      BY <3>1
    <3>5. Members(x) = {x[k] : k \in 1 .. Len(L) + 1} /\ Members(<<i>>) = {i}
      BY <1>5, <3>1, Alone DEF Members
    <3>6. \A k \in 1 .. Len(L) + 1 : x[k] \in {i} \cup Members(L)
      BY <3>2, <3>4 DEF Members
    <3>7. \A j \in Members(L) : j \in Members(x)
      BY <3>3, <3>5 DEF Members
    <3>8. i \in Members(x)
      BY <3>2, <3>5
    <3>. QED
      BY <3>5, <3>6, <3>7, <3>8
  <2>3. Members(<<i>>) = {i}
    BY <1>5, Alone
  <2>. QED
    BY <2>1, <2>2, <2>3
<1>7. Content = [j \in Members(L) |-> payload[j]]
  BY <1>1, ContentFacts
<1>8. Content' = [j \in Members(L) \cup {i} |-> payload'[j]]
  BY <1>6, ContentFacts
<1>9. \A j \in Members(L) \cup {i} : payload'[j] = IF j = i THEN item ELSE payload[j]
  BY <1>1
<1>10. Content' = [j \in DOMAIN Content \cup {i} |-> IF j = i THEN item ELSE Content[j]]
  <2>1. DOMAIN Content = Members(L)
    BY <1>7
  <2>2. \A j \in Members(L) : Content[j] = payload[j]
    BY <1>7
  <2>. HIDE DEF Content
  <2>. QED
    BY <1>5, <1>8, <1>9, <2>1, <2>2
<1>11. Abstract!Takes(i, item)
  BY <1>4, <1>10 DEF Abstract!Takes, Content, L, x
<1>. QED
  BY <1>4, <1>11 DEF w

\* The range of a sequence of slots.
LEMMA RangeIs ==
    ASSUME NEW s \in Seq(Nat)
    PROVE  Abstract!Range(s) = Members(s)
BY DEF Abstract!Range, Members

\* acquire(), and reserve_and_acquire() of a slot of the domain.
LEMMA AcquireStep ==
    ASSUME SlotsInv, NEW i \in Slots(Limit), NEW item \in Payloads, Acquire(i, item)
    PROVE  SlotsInv' /\ Abstract!Acquire(i, item)
<1>. DEFINE L == Listed(index, "loose")
            E == Listed(index, "empty")
<1>1. /\ lock = "none" /\ lock' = "none" /\ i \in Of(index, "empty")
      /\ index' = Acquired(index, i) /\ payload' = [payload EXCEPT ![i] = item]
  BY DEF Acquire, Ready
<1>2. Lists(index, L, E) /\ BoundsHold(index) /\ Of(index, "empty") = Members(E)
  BY InvFacts
<1>3. E \in Seq(Nat)
  BY <1>2, ListsFacts
<1>4. SlotsInv' /\ Abstract!Takes(i, item) /\ Listed(index, "empty")' = Abstract!Without(E, i)
  BY <1>1, <1>2, TakesStep
<1>5. i \in Abstract!Range(E)
  BY <1>1, <1>2, <1>3, RangeIs
<1>. QED
  BY <1>4, <1>5 DEF Abstract!Acquire

\* reserve_and_acquire() that grows the domain first.
LEMMA ReserveAndAcquireStep ==
    ASSUME SlotsInv, NEW n \in 1 .. Limit, NEW i \in Slots(n), NEW item \in Payloads,
           ReserveAndAcquire(n, i, item)
    PROVE  /\ SlotsInv' /\ i \in Abstract!Slots(Limit) /\ n \in Abstract!Size + 1 .. Limit
           /\ Abstract!GrowAndAcquire(n, i, item)
<1>. DEFINE L == Listed(index, "loose")
            E == Listed(index, "empty")
            more == Abstract!Ascending(Slots(n) \ Slots(index.capacity))
            w == E \o more
<1>1. /\ lock = "none" /\ lock' = "none" /\ n > index.capacity /\ n \in Nat
      /\ i \in index.capacity .. n - 1 \/ i = index.capacity
      /\ index' = Acquired(Grown(index, n), i) /\ payload' = [payload EXCEPT ![i] = item]
  BY DEF ReserveAndAcquire, Ready
<1>2. /\ Lists(index, L, E) /\ BoundsHold(index) /\ index.capacity \in Nat
      /\ index.capacity = Len(L) + Len(E) /\ Limit \in Nat
  BY InvFacts, UnorderedAssumption
<1>. HIDE DEF L, E, more, w
<1>3. Lists(Grown(index, n), L, w) /\ BoundsHold(Grown(index, n))
  BY <1>1, <1>2, GrownFacts, GrownBounds DEF w, more
<1>4. i \in Slots(Limit) /\ i \in Slots(n) \ Slots(index.capacity)
  BY <1>1, <1>2 DEF Slots
<1>5. i \in Members(w)
  <2>1. Slots(n) \ Slots(index.capacity) \in SUBSET Nat /\ IsFiniteSet(Slots(n) \ Slots(index.capacity))
    <3>. DEFINE c == index.capacity
    <3>1. c \in Nat /\ n \in Nat /\ c <= n
      BY <1>1, <1>2
    <3>. HIDE DEF c
    <3>2. /\ Slots(n) \ Slots(c) = c .. n - 1
          /\ c .. n - 1 \in SUBSET Nat /\ IsFiniteSet(c .. n - 1)
      BY <3>1, SlotsFacts
    <3>. QED
      BY <3>2 DEF c
  <2>2. more \in Seq(Nat) /\ Members(more) = Slots(n) \ Slots(index.capacity)
    BY <2>1, AscendingFacts DEF more
  <2>3. E \in Seq(Nat)
    BY <1>2, ListsFacts
  <2>4. PICK k \in 1 .. Len(more) : more[k] = i
    BY <1>4, <2>2 DEF Members
  <2>5. Len(E) + k \in 1 .. Len(w) /\ w[Len(E) + k] = i
    BY <2>2, <2>3, <2>4, ConcatProperties DEF w
  <2>. QED
    BY <2>5 DEF Members
<1>6. SlotsInv' /\ Abstract!Takes(i, item) /\ Listed(index, "empty")' = Abstract!Without(w, i)
  BY <1>1, <1>3, <1>4, <1>5, TakesStep DEF L
<1>7. Abstract!Size = index.capacity
  BY <1>2 DEF Abstract!Size, L, E
<1>8. /\ Abstract!Slots(n) \ Abstract!Slots(Abstract!Size) = Slots(n) \ Slots(index.capacity)
      /\ i \in Abstract!Slots(Limit)
  BY <1>4, <1>7 DEF Abstract!Slots, Slots
<1>9. n \in Abstract!Size + 1 .. Limit
  BY <1>1, <1>2, <1>7
<1>. QED
  BY <1>4, <1>6, <1>8, <1>9 DEF Abstract!GrowAndAcquire, w, more, E

\* erase()
LEMMA EraseStep ==
    ASSUME SlotsInv, NEW i \in Slots(Limit), Erase(i)
    PROVE  SlotsInv' /\ Abstract!Erase(i)
<1>. DEFINE L == Listed(index, "loose")
            E == Listed(index, "empty")
            x == <<i>> \o E
            w == Abstract!Without(L, i)
<1>1. /\ lock = "none" /\ lock' = "none" /\ i \in Of(index, "loose")
      /\ index' = Erased(index, i) /\ payload' = [payload EXCEPT ![i] = None]
  BY DEF Erase, Ready, Erased
<1>2. /\ Lists(index, L, E) /\ BoundsHold(index) /\ Of(index, "loose") = Members(L)
      /\ payload \in [Slots(Limit) -> Payloads \cup {None}]
  BY InvFacts
<1>3. payload' \in [Slots(Limit) -> Payloads \cup {None}]
  BY <1>1, <1>2
<1>. HIDE DEF L, E, x, w
<1>4. Lists(index', w, x) /\ BoundsHold(index')
  BY <1>1, <1>2, ErasedFacts DEF w, x
<1>5. SlotsInv' /\ Listed(index, "loose")' = w /\ Listed(index, "empty")' = x
  BY <1>1, <1>3, <1>4, InvAfter
<1>6. L \in Seq(Nat) /\ Distinct(L)
  BY <1>2, ListsFacts
<1>7. Of(index', "loose") = Members(L) \ {i}
  <2>1. PICK p \in 1 .. Len(L) : L[p] = i
    BY <1>1, <1>2 DEF Members
  <2>2. IsWithout(L, p)
    BY <1>6, WithoutFacts
  <2>3. Members(w) = Members(L) \ {i}
    BY <2>1, <2>2 DEF IsWithout, w
  <2>4. Of(index', "loose") = Members(w)
    BY <1>4, ListsFacts
  <2>. QED
    BY <2>3, <2>4
<1>8. Content = [j \in Members(L) |-> payload[j]]
  BY <1>1, <1>2, ContentFacts
<1>9. Content' = [j \in Members(L) \ {i} |-> payload'[j]]
  BY <1>1, <1>7, ContentFacts
<1>10. \A j \in Members(L) \ {i} : payload'[j] = payload[j]
  BY <1>1, <1>2
<1>11. Content' = [j \in DOMAIN Content \ {i} |-> Content[j]]
  <2>1. DOMAIN Content = Members(L)
    BY <1>8
  <2>2. \A j \in Members(L) : Content[j] = payload[j]
    BY <1>8
  <2>. HIDE DEF Content
  <2>. QED
    BY <1>9, <1>10, <2>1, <2>2
<1>12. i \in Abstract!Range(L)
  BY <1>1, <1>2, <1>6, RangeIs
<1>. QED
  BY <1>5, <1>11, <1>12 DEF Abstract!Erase, Content, L, E, x, w

\* A list that is rebuilt is in order, the other one and every payload as they were.
LEMMA RebuiltStep ==
    ASSUME SlotsInv, NEW x, NEW w, Lists(index', x, w), lock = "none", lock' = "none",
           payload' = payload,
           Of(index', "loose") = Of(index, "loose"),
           index'.capacity = index.capacity, index'.peak_usage = index.peak_usage,
           index'.peak_index = index.peak_index, index'.high_index = index.high_index,
           index.capacity # 0,
           x \in {Listed(index, "loose"), Abstract!Ascending(Of(index, "loose"))},
           w \in {Listed(index, "empty"), Abstract!Ascending(Of(index, "empty"))}
    PROVE  SlotsInv' /\ Abstract!Rearrange
<1>. DEFINE L == Listed(index, "loose")
            E == Listed(index, "empty")
<1>1. /\ Lists(index, L, E) /\ BoundsHold(index)
      /\ Of(index, "loose") = Members(L) /\ Of(index, "empty") = Members(E)
      /\ payload \in [Slots(Limit) -> Payloads \cup {None}]
  BY InvFacts
<1>. HIDE DEF L, E
<1>2. Members(x) = Members(L)
  BY <1>1, ListsFacts
<1>3. BoundsHold(index')
  <2>1. index'.capacity \in 1 .. Limit
    BY <1>1 DEF BoundsHold
  <2>. QED
    BY <1>1, <1>2, <2>1, HighFacts, BoundsFrom
<1>4. SlotsInv' /\ Listed(index, "loose")' = x /\ Listed(index, "empty")' = w
  BY <1>1, <1>3, InvAfter
<1>5. Content' = Content
  BY ContentFacts
<1>6. Abstract!Range(L) = Of(index, "loose") /\ Abstract!Range(E) = Of(index, "empty")
  <2>1. L \in Seq(Nat) /\ E \in Seq(Nat)
    BY <1>1, ListsFacts
  <2>. QED
    BY <1>1, <2>1, RangeIs
<1>7. x \in {L, Abstract!Ascending(Abstract!Range(L))}
  BY <1>6 DEF L
<1>8. w \in {E, Abstract!Ascending(Abstract!Range(E))}
  BY <1>6 DEF E
<1>. QED
  BY <1>4, <1>5, <1>7, <1>8 DEF Abstract!Rearrange, Content, L, E

\* rebuild_loose_in_index_order()
LEMMA RebuildLooseStep == SlotsInv /\ RebuildLoose => SlotsInv' /\ Abstract!Rearrange
<1>. SUFFICES ASSUME SlotsInv, RebuildLoose PROVE SlotsInv' /\ Abstract!Rearrange
  OBVIOUS
<1>. DEFINE L == Listed(index, "loose")
            E == Listed(index, "empty")
            S == Members(L)
<1>1. /\ Lists(index, L, E) /\ BoundsHold(index) /\ Of(index, "loose") = S
  BY InvFacts
<1>. HIDE DEF L, E
<1>2. S \cap 0 .. index.high_index = S
  <2>1. \A i \in S : i \in Nat /\ i <= index.high_index
    BY <1>1, ListsFacts, HighFacts
  <2>2. index.high_index \in Int
    BY <1>1, HighFacts
  <2>. HIDE DEF S
  <2>3. \A i \in S : i \in 0 .. index.high_index
    BY <2>1, <2>2
  <2>. QED
    BY <2>3
<1>. HIDE DEF S
<1>3. /\ lock = "none" /\ lock' = "none" /\ payload' = payload /\ index.capacity # 0
      /\ index' = Rebuilt(index, "loose", HeadOf(S), Chained(index.meta, S, "loose"))
  BY <1>1, <1>2 DEF RebuildLoose, Ready, Rebuilt
<1>4. /\ Lists(index', Abstract!Ascending(S), E)
      /\ index'.capacity = index.capacity /\ index'.peak_usage = index.peak_usage
      /\ index'.peak_index = index.peak_index /\ index'.high_index = index.high_index
  BY <1>1, <1>3, LooseRebuilt DEF S
<1>5. Of(index', "loose") = S
  <2>1. S \in SUBSET Nat /\ IsFiniteSet(S)
    BY <1>1, ListsFacts DEF S
  <2>2. Members(Abstract!Ascending(S)) = S
    BY <2>1, AscendingHead
  <2>. QED
    BY <1>4, <2>2, ListsFacts
<1>. QED
  BY <1>1, <1>3, <1>4, <1>5, RebuiltStep DEF E

\* rebuild_empty_in_index_order()
LEMMA RebuildEmptyStep == SlotsInv /\ RebuildEmpty => SlotsInv' /\ Abstract!Rearrange
<1>. SUFFICES ASSUME SlotsInv, RebuildEmpty PROVE SlotsInv' /\ Abstract!Rearrange
  OBVIOUS
<1>. DEFINE L == Listed(index, "loose")
            E == Listed(index, "empty")
            S == Members(E)
            low == S \cap 0 .. index.high_index
            high == index.high_index + 1 .. index.capacity - 1
            m2 == Chained(Chained(index.meta, low, "empty"), high, "empty")
<1>1. /\ Lists(index, L, E) /\ BoundsHold(index) /\ Of(index, "empty") = S
      /\ Of(index, "loose") = Members(L) /\ index.capacity \in Nat
  BY InvFacts
<1>. HIDE DEF L, E
<1>2. /\ index.high_index \in Int /\ -1 <= index.high_index
      /\ S \in SUBSET Nat /\ Members(L) \cup S = 0 .. index.capacity - 1 /\ Members(L) \cap S = {}
      /\ \A i \in Members(L) : i <= index.high_index
  BY <1>1, ListsFacts, HighFacts DEF Slots
<1>. HIDE DEF S
<1>3. low \cup high = S
  <2>1. \A i \in S : i \in low \/ i \in high
    <3>. SUFFICES ASSUME NEW i \in S, i \notin low PROVE i \in high
      OBVIOUS
    <3>1. i \in 0 .. index.capacity - 1 /\ i \notin 0 .. index.high_index
      BY <1>2
    <3>. QED
      BY <1>1, <1>2, <3>1
  <2>2. \A i \in high : i \in S
    <3>. SUFFICES ASSUME NEW i \in high PROVE i \in S
      OBVIOUS
    <3>1. i \in 0 .. index.capacity - 1 /\ ~ i <= index.high_index
      BY <1>1, <1>2
    <3>. QED
      BY <1>2, <3>1
  <2>. QED
    BY <2>1, <2>2
<1>4. \A i \in low, j \in high : i < j
  BY <1>1, <1>2
<1>5. /\ lock = "none" /\ lock' = "none" /\ payload' = payload /\ index.capacity # 0
      /\ index' = Rebuilt(index, "empty", CombinedHead(HeadOf(low), HeadOf(high)),
                          Combined(m2, HeadOf(low), HeadOf(high)))
  BY <1>1 DEF RebuildEmpty, Ready, Rebuilt
<1>. HIDE DEF low, high
<1>6. /\ Lists(index', L, Abstract!Ascending(S))
      /\ index'.capacity = index.capacity /\ index'.peak_usage = index.peak_usage
      /\ index'.peak_index = index.peak_index /\ index'.high_index = index.high_index
  BY <1>1, <1>3, <1>4, <1>5, EmptyRebuilt DEF S
<1>7. Of(index', "loose") = Of(index, "loose")
  BY <1>1, <1>6, ListsFacts
<1>. QED
  BY <1>1, <1>5, <1>6, <1>7, RebuiltStep DEF L

----------------------------------------------------------------------------
(* pack() *)

\* The loose slots below i.
RankOf(t, i) == Cardinality({j \in Of(t, "loose") : j < i})

\* The ranks count up with the loose slots.
LEMMA RankFacts ==
    ASSUME NEW t, NEW u, NEW v, Lists(t, u, v)
    PROVE  /\ \A i \in Nat : RankOf(t, i) \in Nat /\ RankOf(t, i) <= i /\ RankOf(t, i) <= Len(u)
           /\ \A i \in Of(t, "loose") : RankOf(t, i + 1) = RankOf(t, i) + 1 /\ RankOf(t, i) < Len(u)
           /\ \A i \in Nat \ Of(t, "loose") : RankOf(t, i + 1) = RankOf(t, i)
           /\ \A i, j \in Of(t, "loose") : i < j => RankOf(t, i) < RankOf(t, j)
           /\ \A i \in Nat : i >= t.capacity => RankOf(t, i) = Len(u)
           /\ \A i \in Of(t, "loose") : RankOf(t, i) = Abstract!Below(Of(t, "loose"), i)
<1>. DEFINE S == Of(t, "loose")
            Lower(i) == {j \in S : j < i}
<1>1. /\ S \in SUBSET Nat /\ IsFiniteSet(S) /\ Cardinality(S) = Len(u) /\ Len(u) \in Nat
      /\ S \subseteq Slots(t.capacity) /\ t.capacity \in Nat
      /\ \A j \in S : j \in Nat
  <2>1. /\ S = Members(u) /\ IsFiniteSet(Members(u)) /\ Cardinality(Members(u)) = Len(u)
        /\ Members(u) \cup Members(v) = Slots(t.capacity) /\ Slots(t.capacity) \in SUBSET Nat
        /\ Len(u) \in Nat /\ t.capacity \in Nat
    BY ListsFacts
  <2>. HIDE DEF S
  <2>2. S \subseteq Slots(t.capacity) /\ S \in SUBSET Nat
    BY <2>1
  <2>. QED
    BY <2>1, <2>2
<1>. HIDE DEF S
<1>2. \A i : IsFiniteSet(Lower(i)) /\ Cardinality(Lower(i)) <= Len(u) /\ Cardinality(Lower(i)) \in Nat
  <2>. SUFFICES ASSUME NEW i
                PROVE  IsFiniteSet(Lower(i)) /\ Cardinality(Lower(i)) <= Len(u) /\ Cardinality(Lower(i)) \in Nat
    OBVIOUS
  <2>. DEFINE T == Lower(i)
  <2>1. T \subseteq S
    OBVIOUS
  <2>. HIDE DEF T
  <2>2. IsFiniteSet(T) /\ Cardinality(T) <= Len(u) /\ Cardinality(T) \in Nat
    BY <1>1, <2>1, FS_Subset, FS_CardinalityType
  <2>. QED
    BY <2>2 DEF T
<1>3. \A i : RankOf(t, i) = Cardinality(Lower(i))
  BY DEF RankOf, S
<1>4. ASSUME NEW i \in Nat PROVE RankOf(t, i) <= i
  <2>1. Lower(i) \subseteq 0 .. i - 1
    <3>. SUFFICES ASSUME NEW j \in S, j < i PROVE j \in 0 .. i - 1
      OBVIOUS
    <3>. QED
      BY <1>1
  <2>2. IsFiniteSet(0 .. i - 1) /\ Cardinality(0 .. i - 1) = i
    BY Intervals
  <2>3. Cardinality(Lower(i)) <= i
    <3>. DEFINE T == Lower(i)
                U == 0 .. i - 1
    <3>. HIDE DEF T, U
    <3>1. T \subseteq U /\ IsFiniteSet(U) /\ Cardinality(U) = i
      BY <2>1, <2>2 DEF T, U
    <3>2. Cardinality(T) <= i
      BY <3>1, FS_Subset
    <3>. QED
      BY <3>2 DEF T
  <2>. QED
    BY <1>3, <2>3
<1>5. ASSUME NEW i \in S
      PROVE  RankOf(t, i + 1) = RankOf(t, i) + 1 /\ RankOf(t, i) < Len(u)
  <2>. DEFINE T == Lower(i)
  <2>1. i \in Nat /\ Lower(i + 1) = T \cup {i} /\ i \notin T
    <3>1. i \in Nat /\ ~ i < i
      BY <1>1
    <3>2. \A j \in S : j < i + 1 <=> (j < i \/ j = i)
      BY <1>1
    <3>3. Lower(i + 1) = T \cup {i}
      BY <3>2
    <3>. QED
      BY <3>1, <3>3
  <2>2. IsFiniteSet(T) /\ Cardinality(Lower(i + 1)) <= Len(u)
    BY <1>2
  <2>3. RankOf(t, i) = Cardinality(T) /\ RankOf(t, i + 1) = Cardinality(T \cup {i})
    BY <1>3, <2>1
  <2>4. Cardinality(T \cup {i}) <= Len(u)
    BY <2>1, <2>2
  <2>. HIDE DEF T
  <2>5. Cardinality(T \cup {i}) = Cardinality(T) + 1 /\ Cardinality(T) \in Nat
    BY <2>1, <2>2, FS_AddElement, FS_CardinalityType
  <2>. QED
    BY <1>1, <2>3, <2>4, <2>5
<1>6. ASSUME NEW i \in Nat \ S PROVE RankOf(t, i + 1) = RankOf(t, i)
  <2>1. Lower(i + 1) = Lower(i)
    <3>1. \A j \in S : j < i + 1 <=> j < i
      BY <1>1
    <3>. QED
      BY <3>1
  <2>. QED
    BY <1>3, <2>1
<1>7. ASSUME NEW i \in S, NEW j \in S, i < j PROVE RankOf(t, i) < RankOf(t, j)
  <2>. DEFINE T == Lower(i + 1)
              U == Lower(j)
  <2>1. i \in Nat /\ j \in Nat
    BY <1>1
  <2>2. T \subseteq U
    <3>1. \A k \in S : k < i + 1 => k < j
      BY <1>1, <1>7, <2>1
    <3>. QED
      BY <3>1
  <2>3. IsFiniteSet(U) /\ IsFiniteSet(T)
    BY <1>2
  <2>4. RankOf(t, i + 1) = Cardinality(T) /\ RankOf(t, j) = Cardinality(U)
    BY <1>3
  <2>. HIDE DEF T, U
  <2>5. Cardinality(T) <= Cardinality(U) /\ Cardinality(T) \in Nat /\ Cardinality(U) \in Nat
    BY <2>2, <2>3, FS_Subset, FS_CardinalityType
  <2>6. RankOf(t, i + 1) = RankOf(t, i) + 1 /\ RankOf(t, i) \in Nat
    BY <1>2, <1>3, <1>5
  <2>. QED
    BY <2>4, <2>5, <2>6
<1>8. ASSUME NEW i \in Nat, i >= t.capacity PROVE RankOf(t, i) = Len(u)
  <2>1. Lower(i) = S
    <3>1. \A j \in S : j < i
      BY <1>1, <1>8 DEF Slots
    <3>. QED
      BY <3>1
  <2>. QED
    BY <1>1, <1>3, <2>1
<1>9. \A i \in S : RankOf(t, i) = Abstract!Below(S, i)
  BY <1>3, BelowIs
<1>10. \A i \in Nat : RankOf(t, i) \in Nat /\ RankOf(t, i) <= i /\ RankOf(t, i) <= Len(u)
  BY <1>2, <1>3, <1>4
<1>. QED
  BY <1>5, <1>6, <1>7, <1>8, <1>9, <1>10 DEF S

\* Ranks tell loose slots apart.
LEMMA RankInjective ==
    ASSUME NEW t, NEW u, NEW v, Lists(t, u, v)
    PROVE  \A i, j \in Of(t, "loose") : RankOf(t, i) = RankOf(t, j) => i = j
<1>. SUFFICES ASSUME NEW i \in Of(t, "loose"), NEW j \in Of(t, "loose"), i # j
              PROVE  RankOf(t, i) # RankOf(t, j)
  OBVIOUS
<1>1. i \in Nat /\ j \in Nat
  BY ListsFacts
<1>2. RankOf(t, i) \in Nat /\ RankOf(t, j) \in Nat
  BY <1>1, RankFacts
<1>3. CASE i < j
  BY <1>2, <1>3, RankFacts
<1>4. CASE j < i
  BY <1>2, <1>4, RankFacts
<1>. QED
  BY <1>1, <1>3, <1>4

\* What the invariant says while pack() is at work.
LEMMA PackFacts ==
    ASSUME SlotsInv, lock = "on_move_payload"
    PROVE  /\ source \in 0 .. index.capacity /\ source \in Nat /\ target \in Nat
           /\ target = RankOf(index, source) /\ target <= source
           /\ target <= index.count["loose"] /\ index.capacity # 0 /\ index.capacity \in Nat
           /\ index.count["loose"] \in Nat
           /\ target < index.count["loose"] => source < index.capacity
<1>. DEFINE L == Listed(index, "loose")
            E == Listed(index, "empty")
<1>1. /\ Lists(index, L, E) /\ index.capacity \in Nat /\ index.count["loose"] = Len(L)
  BY InvFacts
<1>. HIDE DEF L, E
<1>2. source \in 0 .. index.capacity /\ target = RankOf(index, source) /\ index.capacity # 0
  BY DEF SlotsInv, PackFollows, RankOf
<1>3. source \in Nat /\ Len(L) \in Nat
  BY <1>1, <1>2, ListsFacts
<1>4. target \in Nat /\ target <= source /\ target <= Len(L)
  BY <1>1, <1>2, <1>3, RankFacts
<1>5. target < Len(L) => source < index.capacity
  <2>1. source >= index.capacity => target = Len(L)
    BY <1>1, <1>2, <1>3, RankFacts
  <2>. QED
    BY <1>1, <1>3, <1>4, <2>1
<1>. QED
  BY <1>1, <1>2, <1>3, <1>4, <1>5

\* Where the payload of a slot is found, before a step and after it.
LEMMA PayloadIs ==
    /\ \A i : PayloadOf(i) = IF lock = "on_move_payload" /\ RankOf(index, i) < target
                             THEN payload[RankOf(index, i)] ELSE payload[i]
    /\ \A i : PayloadOf(i)' = IF lock' = "on_move_payload" /\ RankOf(index', i) < target'
                              THEN payload'[RankOf(index', i)] ELSE payload'[i]
BY DEF PayloadOf, Rank, RankOf

\* pack() takes the lock.
LEMMA PackBeginsStep == SlotsInv /\ PackBegins => SlotsInv' /\ UNCHANGED Abstract!vars
<1>. SUFFICES ASSUME SlotsInv, PackBegins PROVE SlotsInv' /\ UNCHANGED Abstract!vars
  OBVIOUS
<1>1. /\ lock = "none" /\ lock' = "on_move_payload" /\ index.capacity # 0 /\ source' = 0 /\ target' = 0
      /\ index' = index /\ payload' = payload
  BY DEF PackBegins, Ready
<1>2. Lists(index, Listed(index, "loose"), Listed(index, "empty")) /\ index.capacity \in Nat
  BY InvFacts
<1>3. RankOf(index, 0) = 0
  <2>1. RankOf(index, 0) \in Nat /\ RankOf(index, 0) <= 0
    BY <1>2, RankFacts
  <2>. QED
    BY <2>1
<1>4. PackFollows'
  <2>1. 0 \in 0 .. index'.capacity /\ index'.capacity # 0
    BY <1>1, <1>2
  <2>2. target' = Cardinality({j \in Of(index', "loose") : j < source'})
    BY <1>1, <1>3 DEF RankOf
  <2>. QED
    BY <1>1, <2>1, <2>2 DEF PackFollows
<1>5. SlotsInv'
  BY <1>1, <1>4 DEF SlotsInv
<1>6. \A i \in Of(index, "loose") : PayloadOf(i)' = PayloadOf(i)
  <2>. SUFFICES ASSUME NEW i \in Of(index, "loose") PROVE PayloadOf(i)' = PayloadOf(i)
    OBVIOUS
  <2>1. RankOf(index, i) \in Nat /\ ~ RankOf(index, i) < 0
    <3>1. i \in Nat
      BY <1>2, ListsFacts
    <3>2. RankOf(index, i) \in Nat
      BY <1>2, <3>1, RankFacts
    <3>. QED
      BY <3>2
  <2>. QED
    BY <1>1, <2>1, PayloadIs
<1>7. Content' = Content
  BY <1>1, <1>6 DEF Content
<1>. QED
  BY <1>1, <1>5, <1>7 DEF Abstract!vars, Content

\* A payload found in place, or a slot with none.
LEMMA PackPassesStep == SlotsInv /\ PackPasses => SlotsInv' /\ UNCHANGED Abstract!vars
<1>. SUFFICES ASSUME SlotsInv, PackPasses PROVE SlotsInv' /\ UNCHANGED Abstract!vars
  OBVIOUS
<1>1. /\ lock = "on_move_payload" /\ lock' = lock /\ target < index.count["loose"]
      /\ \/ index.meta[source].state # "loose" /\ target' = target
         \/ index.meta[source].state = "loose" /\ source = target /\ target' = target + 1
      /\ source' = source + 1 /\ index' = index /\ payload' = payload
  BY DEF PackPasses, Packing
<1>2. /\ Lists(index, Listed(index, "loose"), Listed(index, "empty")) /\ index.capacity \in Nat
  BY InvFacts
<1>3. /\ source \in Nat /\ target \in Nat /\ source < index.capacity
      /\ target = RankOf(index, source) /\ index.capacity # 0
  BY <1>1, PackFacts
<1>4. source \in Of(index, "loose") <=> index.meta[source].state = "loose"
  <2>1. DOMAIN index.meta = Slots(index.capacity)
    BY <1>2, ListsFacts
  <2>2. source \in Slots(index.capacity)
    BY <1>2, <1>3 DEF Slots
  <2>. QED
    BY <2>1, <2>2 DEF Of
<1>5. target' = RankOf(index, source + 1)
  BY <1>1, <1>2, <1>3, <1>4, RankFacts
<1>6. SlotsInv'
  <2>1. source' \in 0 .. index'.capacity
    BY <1>1, <1>2, <1>3
  <2>2. target' = Cardinality({j \in Of(index', "loose") : j < source'})
    BY <1>1, <1>5 DEF RankOf
  <2>. QED
    BY <1>1, <1>3, <2>1, <2>2 DEF SlotsInv, PackFollows
<1>7. \A i \in Of(index, "loose") : PayloadOf(i)' = PayloadOf(i)
  <2>. SUFFICES ASSUME NEW i \in Of(index, "loose") PROVE PayloadOf(i)' = PayloadOf(i)
    OBVIOUS
  <2>. DEFINE r == RankOf(index, i)
  <2>1. i \in Nat /\ r \in Nat
    <3>1. i \in Nat
      BY <1>2, ListsFacts
    <3>. QED
      BY <1>2, <3>1, RankFacts
  <2>2. CASE target' = target
    BY <1>1, <2>2, PayloadIs
  <2>3. CASE index.meta[source].state = "loose" /\ source = target /\ target' = target + 1
    <3>1. r = target => i = source
      BY <1>2, <1>3, <1>4, <2>3, RankInjective
    <3>. HIDE DEF r
    <3>2. r < target' <=> (r < target \/ r = target)
      BY <1>3, <2>1, <2>3
    <3>3. r = target => payload[r] = payload[i] /\ ~ r < target
      BY <1>3, <2>3, <3>1
    <3>. QED
      BY <1>1, <3>2, <3>3, PayloadIs DEF r
  <2>. QED
    BY <1>1, <2>2, <2>3
<1>8. Content' = Content
  BY <1>1, <1>7 DEF Content
<1>. QED
  BY <1>1, <1>6, <1>8 DEF Abstract!vars, Content

\* A payload that moves down is found at its rank afterwards, the others where they were.
LEMMA PackMovesStep == SlotsInv /\ PackMoves => SlotsInv' /\ UNCHANGED Abstract!vars
<1>. SUFFICES ASSUME SlotsInv, PackMoves PROVE SlotsInv' /\ UNCHANGED Abstract!vars
  OBVIOUS
<1>1. /\ lock = "on_move_payload" /\ lock' = lock /\ target < index.count["loose"]
      /\ index.meta[source].state = "loose" /\ source # target
      /\ payload' = [payload EXCEPT ![target] = payload[source], ![source] = payload[target]]
      /\ source' = source + 1 /\ target' = target + 1 /\ index' = index
  BY DEF PackMoves, Packing
<1>2. /\ Lists(index, Listed(index, "loose"), Listed(index, "empty")) /\ index.capacity \in Nat
      /\ index.capacity \in 0 .. Limit /\ payload \in [Slots(Limit) -> Payloads \cup {None}]
  BY InvFacts
<1>3. /\ source \in Nat /\ target \in Nat /\ source < index.capacity /\ target < source
      /\ target = RankOf(index, source) /\ index.capacity # 0
  <2>1. /\ source \in Nat /\ target \in Nat /\ source < index.capacity /\ target <= source
        /\ target = RankOf(index, source) /\ index.capacity # 0
    BY <1>1, PackFacts
  <2>. QED
    BY <1>1, <2>1
<1>4. source \in Of(index, "loose")
  <2>1. DOMAIN index.meta = Slots(index.capacity)
    BY <1>2, ListsFacts
  <2>2. source \in Slots(index.capacity)
    BY <1>2, <1>3 DEF Slots
  <2>. QED
    BY <1>1, <2>1, <2>2 DEF Of
<1>5. target' = RankOf(index, source + 1)
  BY <1>1, <1>2, <1>3, <1>4, RankFacts
<1>6. source \in Slots(Limit) /\ target \in Slots(Limit)
  BY <1>2, <1>3, UnorderedAssumption DEF Slots
<1>7. /\ payload' \in [Slots(Limit) -> Payloads \cup {None}]
      /\ payload'[target] = payload[source]
      /\ \A i \in Slots(Limit) : i # source /\ i # target => payload'[i] = payload[i]
  <2>1. payload[source] \in Payloads \cup {None} /\ payload[target] \in Payloads \cup {None}
    BY <1>2, <1>6
  <2>. QED
    BY <1>1, <1>2, <1>3, <1>6, <2>1
<1>8. SlotsInv'
  <2>1. source' \in 0 .. index'.capacity
    BY <1>1, <1>2, <1>3
  <2>2. target' = Cardinality({j \in Of(index', "loose") : j < source'})
    BY <1>1, <1>5 DEF RankOf
  <2>. QED
    BY <1>1, <1>3, <1>7, <2>1, <2>2 DEF SlotsInv, PackFollows
<1>9. \A i \in Of(index, "loose") : PayloadOf(i)' = PayloadOf(i)
  <2>. SUFFICES ASSUME NEW i \in Of(index, "loose") PROVE PayloadOf(i)' = PayloadOf(i)
    OBVIOUS
  <2>. DEFINE r == RankOf(index, i)
  <2>1. i \in Nat /\ r \in Nat /\ r <= i /\ i \in Slots(Limit)
    <3>1. i \in Slots(index.capacity) /\ i \in Nat
      BY <1>2, ListsFacts
    <3>2. i \in Slots(Limit)
      BY <1>2, <3>1, UnorderedAssumption DEF Slots
    <3>. QED
      BY <1>2, <3>1, <3>2, RankFacts
  <2>2. r = target => i = source
    BY <1>2, <1>3, <1>4, RankInjective
  <2>3. /\ i < source => r < target
        /\ source < i => target < r
    BY <1>2, <1>3, <1>4, RankFacts
  <2>4. PayloadOf(i) = IF r < target THEN payload[r] ELSE payload[i]
    BY <1>1, PayloadIs
  <2>5. PayloadOf(i)' = IF r < target + 1 THEN payload'[r] ELSE payload'[i]
    <3>1. RankOf(index', i) = r /\ lock' = "on_move_payload" /\ target' = target + 1
      BY <1>1
    <3>. HIDE DEF r
    <3>. QED
      BY <3>1, PayloadIs
  <2>9. i = source => r = target
    BY <1>3
  <2>. HIDE DEF r
  <2>6. CASE r < target
    <3>1. r \in Slots(Limit) /\ r # source /\ r # target /\ r < target + 1
      BY <1>3, <1>6, <2>1, <2>6, UnorderedAssumption DEF Slots
    <3>. QED
      BY <1>7, <2>4, <2>5, <2>6, <3>1
  <2>7. CASE r = target
    <3>1. i = source /\ r < target + 1 /\ ~ r < target
      BY <1>3, <2>2, <2>7
    <3>. QED
      BY <1>7, <2>4, <2>5, <2>7, <3>1
  <2>8. CASE target < r
    <3>1. i # source /\ i # target /\ ~ r < target /\ ~ r < target + 1
      BY <1>3, <2>1, <2>8, <2>9
    <3>. QED
      BY <1>7, <2>1, <2>4, <2>5, <3>1
  <2>. QED
    BY <1>3, <2>1, <2>6, <2>7, <2>8
<1>10. Content' = Content
  BY <1>1, <1>9 DEF Content
<1>. QED
  BY <1>1, <1>8, <1>10 DEF Abstract!vars, Content

\* pack() rewrites the metadata and releases the lock.
LEMMA PackEndsStep == SlotsInv /\ PackEnds => SlotsInv' /\ Abstract!Pack
<1>. SUFFICES ASSUME SlotsInv, PackEnds PROVE SlotsInv' /\ Abstract!Pack
  OBVIOUS
<1>. DEFINE L == Listed(index, "loose")
            E == Listed(index, "empty")
            n == Len(L)
            S == Of(index, "loose")
            old == Abstract!Ascending(S)
            a == Abstract!Ascending(Slots(n))
            b == Abstract!Ascending(Slots(index.capacity) \ Slots(n))
<1>1. /\ lock = "on_move_payload" /\ lock' = "none" /\ target = index.count["loose"]
      /\ index' = Packed(index) /\ payload' = payload
  BY DEF PackEnds
<1>2. /\ Lists(index, L, E) /\ BoundsHold(index) /\ S = Members(L) /\ index.count["loose"] = n
      /\ index.capacity = n + Len(E) /\ index.capacity \in Nat
      /\ payload \in [Slots(Limit) -> Payloads \cup {None}]
  BY InvFacts
<1>3. index.capacity # 0
  BY <1>1, PackFacts
<1>4. Lists(index', a, b)
  BY <1>1, <1>2, PackedFacts
<1>5. BoundsHold(index')
  BY <1>1, <1>2, <1>3, PackedBounds
<1>6. /\ n \in Nat /\ L \in Seq(Nat) /\ S \in SUBSET Nat /\ IsFiniteSet(S) /\ Cardinality(S) = n
  BY <1>2, ListsFacts
<1>. HIDE DEF L, E, n, a, b, old, S
<1>7. SlotsInv' /\ Listed(index, "loose")' = a /\ Listed(index, "empty")' = b
  BY <1>1, <1>2, <1>4, <1>5, InvAfter
<1>8. Of(index', "loose") = Slots(n)
  <2>1. Slots(n) \in SUBSET Nat /\ IsFiniteSet(Slots(n))
    BY <1>6, Intervals DEF Slots
  <2>2. Members(a) = Slots(n)
    BY <2>1, AscendingHead DEF a
  <2>. QED
    BY <1>4, <2>2, ListsFacts
<1>9. Content' = [i \in Slots(n) |-> payload[i]]
  BY <1>1, <1>8, ContentFacts
<1>10. \A i \in S : Content[i] = payload[RankOf(index, i)]
  <2>. SUFFICES ASSUME NEW i \in S PROVE Content[i] = payload[RankOf(index, i)]
    OBVIOUS
  <2>1. RankOf(index, i) < n
    BY <1>2, RankFacts DEF S, n
  <2>2. PayloadOf(i) = payload[RankOf(index, i)]
    BY <1>1, <1>2, <2>1, PayloadIs
  <2>. QED
    BY <2>2 DEF Content, S
<1>11. \A i \in Slots(n) : Content[old[i + 1]] = payload[i]
  <2>. SUFFICES ASSUME NEW i \in Slots(n) PROVE Content[old[i + 1]] = payload[i]
    OBVIOUS
  <2>1. i + 1 \in 1 .. Cardinality(S) /\ (i + 1) - 1 = i
    BY <1>6 DEF Slots
  <2>2. old[i + 1] \in S /\ Abstract!Below(S, old[i + 1]) = i
    BY <1>6, <2>1, AscendingFacts DEF old
  <2>3. RankOf(index, old[i + 1]) = i
    BY <1>2, <2>2, RankFacts DEF S
  <2>. QED
    BY <1>10, <2>2, <2>3
<1>12. Content' = [i \in Slots(n) |-> Content[old[i + 1]]]
  <2>. HIDE DEF Content
  <2>. QED
    BY <1>9, <1>11
<1>13. Abstract!Size = index.capacity
  BY <1>2 DEF Abstract!Size, n, L, E
<1>14. Abstract!Range(L) = S
  BY <1>2, <1>6, RangeIs
<1>15. \A k : Abstract!Slots(k) = Slots(k)
  BY DEF Abstract!Slots, Slots
<1>16. Abstract!Pack
  BY <1>7, <1>12, <1>13, <1>14, <1>15 DEF Abstract!Pack, Content, L, n, a, b, old
<1>. QED
  BY <1>7, <1>16

----------------------------------------------------------------------------
(* The theorems: the metadata implements two sequences *)

\* A step of the metadata is a step of the sequences, or none.
LEMMA SlotsStep == SlotsInv /\ [Next]_vars => SlotsInv' /\ [Abstract!Next]_(Abstract!vars)
<1>. SUFFICES ASSUME SlotsInv, [Next]_vars
              PROVE  SlotsInv' /\ [Abstract!Next]_(Abstract!vars)
  OBVIOUS
<1>. USE UnorderedAssumption
<1>0. Abstract!Slots(Limit) = Slots(Limit)
  BY DEF Abstract!Slots, Slots
<1>1. ASSUME NEW n \in 1 .. Limit, Initialise(n)
      PROVE  SlotsInv' /\ Abstract!Next
  <2>1. index' = Fresh(n) /\ lock' = "none" /\ payload' = [i \in Slots(Limit) |-> None]
    BY <1>1 DEF Initialise
  <2>2. SlotsInv' /\ Abstract!Start(n)
    BY <2>1, EmptiedDomain
  <2>. QED
    BY <2>2 DEF Abstract!Next
<1>2. ASSUME NEW n \in 1 .. Limit, Grow(n)
      PROVE  SlotsInv' /\ Abstract!Next
  BY <1>2, GrowStep DEF Abstract!Next
<1>3. ASSUME NEW n \in 1 .. Limit, Shrink(n)
      PROVE  SlotsInv' /\ Abstract!Next
  BY <1>3, ShrinkStep DEF Abstract!Next
<1>4. ASSUME NEW n \in 1 .. Limit, NEW i \in Slots(n), NEW item \in Payloads,
             ReserveAndAcquire(n, i, item)
      PROVE  SlotsInv' /\ Abstract!Next
  BY <1>4, ReserveAndAcquireStep DEF Abstract!Next
<1>5. CASE Clear
  <2>1. /\ index' = Fresh(index.capacity) /\ lock' = "none" /\ index.capacity # 0
        /\ payload' = [i \in Slots(Limit) |-> None]
    BY <1>5 DEF Clear, Ready
  <2>2. index.capacity \in 0 .. Limit
    BY InvFacts
  <2>3. index.capacity \in 1 .. Limit
    BY <2>1, <2>2
  <2>4. SlotsInv' /\ Abstract!Start(index.capacity)
    BY <2>1, <2>3, EmptiedDomain
  <2>. QED
    BY <2>2, <2>4 DEF Abstract!Next
<1>6. CASE Shutdown
  BY <1>6, ShutdownStep DEF Abstract!Next
<1>7. ASSUME NEW i \in Slots(Limit), Erase(i)
      PROVE  SlotsInv' /\ Abstract!Next
  BY <1>0, <1>7, EraseStep DEF Abstract!Next
<1>8. ASSUME NEW i \in Slots(Limit), NEW item \in Payloads, Acquire(i, item)
      PROVE  SlotsInv' /\ Abstract!Next
  BY <1>0, <1>8, AcquireStep DEF Abstract!Next
<1>9. CASE PackBegins
  BY <1>9, PackBeginsStep
<1>10. CASE PackPasses
  BY <1>10, PackPassesStep
<1>11. CASE PackMoves
  BY <1>11, PackMovesStep
<1>12. CASE PackEnds
  BY <1>12, PackEndsStep DEF Abstract!Next
<1>13. CASE RebuildLoose
  BY <1>13, RebuildLooseStep DEF Abstract!Next
<1>14. CASE RebuildEmpty
  BY <1>14, RebuildEmptyStep DEF Abstract!Next
<1>15. CASE UNCHANGED vars
  <2>1. /\ index' = index /\ lock' = lock /\ source' = source /\ target' = target
        /\ payload' = payload
    BY <1>15 DEF vars
  <2>2. SlotsInv'
    BY <2>1 DEF SlotsInv, PackFollows
  <2>3. \A i : PayloadOf(i)' = PayloadOf(i)
    BY <2>1 DEF PayloadOf, Rank
  <2>4. Content' = Content
    BY <2>1, <2>3 DEF Content
  <2>. QED
    BY <2>1, <2>2, <2>4 DEF Abstract!vars, Content
<1>. QED
  BY <1>1, <1>2, <1>3, <1>4, <1>5, <1>6, <1>7, <1>8, <1>9, <1>10, <1>11, <1>12, <1>13, <1>14, <1>15
     DEF Next

\* The invariant holds of every state.
THEOREM SlotsInvariant == Spec => []SlotsInv
<1>1. Init => SlotsInv
  BY SlotsInitInv
<1>2. SlotsInv /\ [Next]_vars => SlotsInv'
  BY SlotsStep
<1>. QED
  BY <1>1, <1>2, PTL DEF Spec

\* The metadata behaves as two sequences of slots and a payload for each loose one.
THEOREM SlotsAreLists == Spec => ImplementsSlotLists
<1>1. Init => SlotsInv /\ Abstract!Init
  BY SlotsInitInv
<1>2. SlotsInv /\ [Next]_vars => SlotsInv' /\ [Abstract!Next]_(Abstract!vars)
  BY SlotsStep
<1>. QED
  BY <1>1, <1>2, PTL DEF Spec, ImplementsSlotLists, Abstract!Spec

\* What private_integrity_check() asks of a list.
ListSound(D, t, c) ==
    /\ ListAgrees(t, c) /\ (t.head[c] = -1 <=> t.count[c] = 0) /\ t.head[c] \in {-1} \cup D
    /\ \A i \in Of(t, c) : {t.meta[i].prev, t.meta[i].next} \subseteq D

\* A list that is a ring passes.
LEMMA ListChecked ==
    ASSUME NEW D \in SUBSET Nat, NEW t, t.meta \in [D -> Links], NEW c, NEW s, IsList(t, c, s)
    PROVE  ListSound(D, t, c)
<1>. DEFINE n == Len(s)
<1>1. /\ Ring(t.meta, s) /\ Members(s) = Of(t, c) /\ t.count[c] = n
      /\ t.head[c] = First(s) /\ s \in Seq(Nat) /\ n \in Nat /\ DOMAIN s = 1 .. n
  BY DEF IsList, Ring
<1>2. Cardinality(Of(t, c)) = n
  BY <1>1, MembersCount DEF Ring
<1>3. /\ \A k \in 1 .. n : s[k] \in D /\ s[k] \in Members(s)
      /\ \A k, l \in 1 .. n : s[k] = s[l] => k = l
      /\ \A k \in 1 .. n : Succ(n, k) \in 1 .. n /\ Pred(n, k) \in 1 .. n
      /\ \A k \in 1 .. n : t.meta[s[k]].next = s[Succ(n, k)] /\ t.meta[s[k]].prev = s[Pred(n, k)]
  <2>1. \A k \in 1 .. n : s[k] \in D /\ s[k] \in Members(s)
    BY <1>1 DEF Ring, Members
  <2>2. \A k, l \in 1 .. n : s[k] = s[l] => k = l
    BY <1>1 DEF Ring, Distinct
  <2>3. \A k \in 1 .. n : t.meta[s[k]].next = s[Succ(n, k)] /\ t.meta[s[k]].prev = s[Pred(n, k)]
    BY <1>1 DEF Ring
  <2>. HIDE DEF n
  <2>4. \A k \in 1 .. n : Succ(n, k) \in 1 .. n /\ Pred(n, k) \in 1 .. n
    BY <1>1 DEF Succ, Pred
  <2>. QED
    BY <2>1, <2>2, <2>3, <2>4
<1>4. \A i \in Of(t, c) : t.meta[i].state = c /\ \E k \in 1 .. n : s[k] = i
  BY <1>1 DEF Of, Members
<1>5. n # 0 => 1 \in 1 .. n /\ First(s) = s[1]
  BY <1>1 DEF First
<1>6. n = 0 => First(s) = -1
  BY DEF First
<1>7. Listed(t, c) = s
  BY ListedIs
<1>. HIDE DEF n
<1>8. (t.head[c] = -1 <=> t.count[c] = 0) /\ t.head[c] \in {-1} \cup D
  <2>1. n # 0 => First(s) \in D
    BY <1>3, <1>5
  <2>. QED
    BY <1>1, <1>6, <2>1
<1>9. \A i \in Of(t, c) : t.meta[i].prev \in D /\ t.meta[i].next \in D
  <2>. SUFFICES ASSUME NEW k \in 1 .. n PROVE t.meta[s[k]].prev \in D /\ t.meta[s[k]].next \in D
    BY <1>4
  <2>. QED
    BY <1>3
<1>10. ASSUME NEW k \in 1 .. n
       PROVE  LET next == t.meta[s[k]].next IN
              /\ t.meta[s[k]].state = c /\ t.meta[next].prev = s[k]
              /\ (next = t.head[c]) <=> (k = t.count[c])
  <2>1. t.meta[s[k]].state = c
    BY <1>1, <1>3, <1>4
  <2>2. Succ(n, k) \in 1 .. n /\ t.meta[s[k]].next = s[Succ(n, k)]
    BY <1>3
  <2>3. Pred(n, Succ(n, k)) = k
    BY <1>1 DEF Succ, Pred
  <2>4. t.meta[s[Succ(n, k)]].prev = s[k]
    BY <1>3, <2>2, <2>3
  <2>5. 1 \in 1 .. n /\ t.head[c] = s[1]
    BY <1>1, <1>5
  <2>6. Succ(n, k) = 1 <=> k = n
    BY <1>1 DEF Succ
  <2>7. s[Succ(n, k)] = s[1] <=> k = n
    BY <1>3, <2>2, <2>5, <2>6
  <2>. QED
    BY <1>1, <2>1, <2>2, <2>4, <2>5, <2>7
<1>11. ListAgrees(t, c)
  BY <1>1, <1>2, <1>7, <1>10 DEF ListAgrees
<1>. QED
  BY <1>8, <1>9, <1>11 DEF ListSound

\* The metadata passes the code's own check whenever no operation is under way.
LEMMA InvIntegrity == SlotsInv => IntegrityHolds
<1>. SUFFICES ASSUME SlotsInv PROVE IntegrityHolds
  OBVIOUS
<1>. DEFINE t == index
            L == Listed(index, "loose")
            E == Listed(index, "empty")
            D == Slots(t.capacity)
<1>1. Lists(t, L, E) /\ BoundsHold(t)
  BY InvFacts
<1>2. /\ t.capacity \in Nat /\ D \in SUBSET Nat /\ t.meta \in [D -> Links]
      /\ Of(t, "loose") = Members(L) /\ Of(t, "empty") = Members(E)
      /\ Members(L) \cup Members(E) = D
      /\ Cardinality(Members(L)) = t.count["loose"] /\ t.count["loose"] = Len(L)
      /\ Cardinality(Members(E)) = t.count["empty"] /\ t.count["empty"] = Len(E)
      /\ L \in Seq(Nat) /\ E \in Seq(Nat) /\ Len(L) \in Nat /\ Len(E) \in Nat
      /\ t.capacity = Len(L) + Len(E)
  BY <1>1, ListsFacts
<1>3. /\ t.high_index \in Int /\ t.peak_index \in Int /\ t.peak_usage \in Nat
      /\ -1 <= t.high_index /\ t.high_index <= t.peak_index /\ t.peak_usage <= t.peak_index + 1
      /\ t.high_index # -1 => t.high_index \in Members(L)
      /\ \A i \in Members(L) : i <= t.high_index
      /\ Len(L) <= t.high_index + 1
      /\ t.capacity \in 0 .. Limit
  BY <1>1, HighFacts
<1>4. IsList(t, "loose", L) /\ IsList(t, "empty", E)
  BY <1>1 DEF Lists
<1>5. t.high_index = Max(Of(t, "loose") \cup {-1})
  <2>. DEFINE S == Members(L) \cup {-1}
  <2>1. S \subseteq Int /\ t.high_index \in S /\ \A j \in S : j <= t.high_index
    BY <1>2, <1>3
  <2>. HIDE DEF S
  <2>2. Max(S) = t.high_index
    BY <2>1, MaxIs
  <2>. QED
    BY <1>2, <2>2 DEF S
<1>6. \A c \in Category : \A s : IsList(t, c, s) => ListSound(D, t, c)
  <2>. HIDE DEF t, D
  <2>. QED
    BY <1>2, ListChecked
<1>7. "loose" \in Category /\ "empty" \in Category /\ \A c \in Category : c = "loose" \/ c = "empty"
  BY DEF Category
<1>8. /\ \A c \in Category : ListAgrees(t, c) /\ (t.head[c] = -1 <=> t.count[c] = 0)
      /\ \A c \in Category : t.head[c] \in {-1} \cup D
      /\ \A i \in D : {t.meta[i].prev, t.meta[i].next} \subseteq D
  <2>1. /\ ListAgrees(t, "loose") /\ (t.head["loose"] = -1 <=> t.count["loose"] = 0)
        /\ t.head["loose"] \in {-1} \cup D
        /\ \A i \in Of(t, "loose") : {t.meta[i].prev, t.meta[i].next} \subseteq D
    BY <1>4, <1>6, <1>7 DEF ListSound
  <2>2. /\ ListAgrees(t, "empty") /\ (t.head["empty"] = -1 <=> t.count["empty"] = 0)
        /\ t.head["empty"] \in {-1} \cup D
        /\ \A i \in Of(t, "empty") : {t.meta[i].prev, t.meta[i].next} \subseteq D
    BY <1>4, <1>6, <1>7 DEF ListSound
  <2>. QED
    BY <1>2, <1>7, <2>1, <2>2
<1>9. CASE t.capacity = 0
  <2>1. t = Uninitialised
    BY <1>1, <1>9 DEF BoundsHold
  <2>2. DOMAIN t.meta = {}
    BY <1>2, <1>9 DEF Slots
  <2>. QED
    BY <1>5, <2>1, <2>2 DEF IntegrityHolds, private_integrity_check
<1>10. CASE t.capacity # 0
  <2>. HIDE DEF t, L, E
  <2>1. DOMAIN t.meta # {}
    BY <1>2, <1>10 DEF Slots
  <2>2. \A i \in D : t.meta[i].state \in Category
    BY <1>2 DEF Links
  <2>3. HeadersAgree(t)
    <3>1. t.capacity \in 1 .. Limit /\ t.count["loose"] + t.count["empty"] = t.capacity
      BY <1>2, <1>3, <1>10
    <3>2. \A c \in Category : t.head[c] \in -1 .. t.capacity - 1 /\ (t.head[c] = -1 <=> t.count[c] = 0)
      <4>1. \A x \in {-1} \cup D : x \in -1 .. t.capacity - 1
        BY <1>2 DEF Slots
      <4>. HIDE DEF D
      <4>. QED
        BY <1>8, <4>1
    <3>3. IF t.high_index = -1 THEN t.count["loose"] = 0 ELSE t.high_index + 1 >= t.count["loose"]
      BY <1>2, <1>3
    <3>4. t.high_index >= -1 /\ t.peak_index >= -1 /\ t.peak_usage <= t.peak_index + 1
      BY <1>3
    <3>. QED
      BY <3>1, <3>2, <3>3, <3>4 DEF HeadersAgree
  <2>4. private_integrity_check(t)
    BY <1>8, <2>1, <2>2, <2>3 DEF private_integrity_check
  <2>. QED
    BY <1>5, <2>4 DEF IntegrityHolds, t
<1>. QED
  BY <1>9, <1>10

----------------------------------------------------------------------------
(* The queries *)

\* The loose slots in the order of a traversal, and the end of it.
Course(u, dir) ==
    [k \in 1 .. Len(u) + 1 |->
       IF k > Len(u) THEN -1 ELSE IF dir = "next" THEN u[k] ELSE u[Len(u) + 1 - k]]

\* What a traversal does at each slot of its course.
LEMMA CourseFacts ==
    ASSUME NEW t, NEW u, NEW v, Lists(t, u, v), NEW dir \in {"next", "prev"}, NEW k \in 1 .. Len(u) + 1
    PROVE  Course(u, dir)[k] = IF k = 1 THEN End(t, dir)
                               ELSE IF Course(u, dir)[k - 1] = -1 THEN -1
                               ELSE Step(t, Course(u, dir)[k - 1], dir)
<1>. DEFINE n == Len(u)
            c == Course(u, dir)
            m == t.meta
            h == t.head["loose"]
<1>1. /\ n \in Nat /\ h = First(u) /\ Ring(m, u) /\ u \in Seq(Nat)
      /\ m \in [Slots(t.capacity) -> Links] /\ Slots(t.capacity) \in SUBSET Nat
  BY ListsFacts, KeptFields
<1>2. /\ \A l \in 1 .. n : u[l] \in Nat
      /\ \A l \in 1 .. n : m[u[l]].next = u[Succ(n, l)] /\ m[u[l]].prev = u[Pred(n, l)]
      /\ \A l, p \in 1 .. n : u[l] = u[p] => l = p
  <2>1. \A l \in 1 .. n : u[l] \in Nat
    BY <1>1
  <2>2. \A l \in 1 .. n : m[u[l]].next = u[Succ(n, l)] /\ m[u[l]].prev = u[Pred(n, l)]
    BY <1>1 DEF Ring
  <2>3. \A l, p \in 1 .. n : u[l] = u[p] => l = p
    BY <1>1 DEF Ring, Distinct
  <2>. QED
    BY <2>1, <2>2, <2>3
<1>3. n # 0 => h = u[1]
  BY <1>1 DEF First
<1>4. n = 0 => h = -1
  BY <1>1 DEF First
<1>5. \A l \in 1 .. n + 1 : c[l] = IF l > n THEN -1 ELSE IF dir = "next" THEN u[l] ELSE u[n + 1 - l]
  BY DEF Course
<1>. HIDE DEF n, c, m, h
<1>. SUFFICES c[k] = IF k = 1 THEN End(t, dir) ELSE IF c[k - 1] = -1 THEN -1 ELSE Step(t, c[k - 1], dir)
  BY DEF c
<1>6. k \in 1 .. n + 1 /\ k \in Nat
  BY DEF n
<1>7. CASE k = 1
  <2>1. CASE n = 0
    BY <1>4, <1>5, <1>6, <1>7, <2>1 DEF End, h
  <2>2. CASE n # 0
    <3>1. 1 \in 1 .. n /\ Pred(n, 1) = n /\ h # -1 /\ n + 1 - 1 = n
      BY <1>1, <1>2, <1>3, <2>2 DEF Pred
    <3>2. End(t, dir) = IF dir = "next" THEN u[1] ELSE u[n]
      BY <1>2, <1>3, <2>2, <3>1 DEF End, h, m
    <3>3. c[1] = IF dir = "next" THEN u[1] ELSE u[n]
      <4>1. c[1] = IF 1 > n THEN -1 ELSE IF dir = "next" THEN u[1] ELSE u[n + 1 - 1]
        BY <1>5, <1>6, <1>7
      <4>2. ~ 1 > n
        BY <1>1, <2>2
      <4>. QED
        BY <3>1, <4>1, <4>2
    <3>. QED
      BY <1>7, <3>2, <3>3
  <2>. QED
    BY <2>1, <2>2
<1>8. CASE k # 1
  <2>. DEFINE p == IF dir = "next" THEN k - 1 ELSE n + 1 - (k - 1)
  <2>1. k - 1 \in 1 .. n + 1 /\ ~ k - 1 > n /\ p \in 1 .. n /\ n # 0 /\ 1 \in 1 .. n
    BY <1>1, <1>6, <1>8
  <2>2. c[k - 1] = u[p]
    BY <1>5, <2>1
  <2>3. u[p] \in Nat /\ u[p] # -1
    BY <1>2, <2>1
  <2>4. c[k] = IF k > n THEN -1 ELSE IF dir = "next" THEN u[k] ELSE u[n + 1 - k]
    BY <1>5, <1>6
  <2>5. CASE dir = "next"
    <3>1. p = k - 1
      BY <2>5
    <3>2. Succ(n, p) = IF k > n THEN 1 ELSE k
      BY <1>1, <1>6, <1>8, <3>1 DEF Succ
    <3>3. Succ(n, p) \in 1 .. n /\ (Succ(n, p) = 1 <=> k > n)
      BY <1>1, <1>6, <1>8, <2>1, <3>2
    <3>4. m[u[p]].next = h <=> k > n
      BY <1>2, <1>3, <2>1, <3>3, SMTT(30)
    <3>5. m[u[p]].next = IF k > n THEN u[1] ELSE u[k]
      BY <1>2, <2>1, <3>2
    <3>6. Step(t, u[p], dir) = IF m[u[p]].next = h THEN -1 ELSE m[u[p]].next
      BY <2>5 DEF Step, m, h
    <3>. HIDE DEF p
    <3>. QED
      BY <1>8, <2>2, <2>3, <2>4, <2>5, <3>4, <3>5, <3>6
  <2>6. CASE dir = "prev"
    <3>1. p = n + 1 - (k - 1)
      BY <2>6
    <3>2. p = 1 <=> k > n
      BY <1>1, <1>6, <3>1
    <3>3. ~ k > n => Pred(n, p) = n + 1 - k
      BY <1>1, <1>6, <3>1, <3>2 DEF Pred
    <3>4. u[p] = h <=> k > n
      BY <1>2, <1>3, <2>1, <3>2
    <3>5. ~ k > n => m[u[p]].prev = u[n + 1 - k]
      BY <1>2, <2>1, <3>3
    <3>6. Step(t, u[p], dir) = IF u[p] = h THEN -1 ELSE m[u[p]].prev
      BY <2>6 DEF Step, m, h
    <3>. HIDE DEF p
    <3>. QED
      BY <1>8, <2>2, <2>3, <2>4, <2>6, <3>4, <3>5, <3>6
  <2>. QED
    BY <2>5, <2>6
<1>. QED
  BY <1>7, <1>8

\* A traversal takes that course.
LEMMA ReachedIs ==
    ASSUME NEW u, NEW v, Lists(index, u, v), NEW dir \in {"next", "prev"}
    PROVE  Reached(dir) = Course(u, dir)
<1>. DEFINE n == Len(u) + 1
            c == Course(u, dir)
            Follows(f) == f = [k \in 1 .. n |->
                                 IF k = 1 THEN End(index, dir)
                                 ELSE IF f[k - 1] = -1 THEN -1 ELSE Step(index, f[k - 1], dir)]
            f == Reached(dir)
<1>1. index.count["loose"] + 1 = n /\ n \in Nat
  BY ListsFacts
<1>2. c = [k \in 1 .. n |-> c[k]]
  BY DEF Course
<1>3. \A k \in 1 .. n : c[k] = IF k = 1 THEN End(index, dir)
                               ELSE IF c[k - 1] = -1 THEN -1 ELSE Step(index, c[k - 1], dir)
  BY CourseFacts
<1>. HIDE DEF c, n
<1>4. Follows(c)
  BY <1>2, <1>3
<1>5. f = CHOOSE g : Follows(g)
  BY <1>1 DEF Reached
<1>. HIDE DEF Follows, f
<1>6. Follows(f)
  BY <1>4, <1>5
<1>. USE DEF Follows
<1>7. f = [k \in 1 .. n |-> IF k = 1 THEN End(index, dir)
                            ELSE IF f[k - 1] = -1 THEN -1 ELSE Step(index, f[k - 1], dir)]
  BY <1>6
<1>. HIDE DEF f
<1>8. \A k \in 1 .. n : f[k] = c[k]
  <2>. DEFINE S == {k \in 1 .. n : f[k] # c[k]}
  <2>1. CASE S = {}
    BY <2>1
  <2>2. CASE S # {}
    <3>1. S \in SUBSET Nat
      OBVIOUS
    <3>2. PICK k \in S : \A j \in S : k <= j
      <4>. HIDE DEF S
      <4>. QED
        BY <2>2, <3>1, Smallest
    <3>3. k \in 1 .. n /\ f[k] # c[k]
      BY <3>2
    <3>4. f[k] = IF k = 1 THEN End(index, dir)
                 ELSE IF f[k - 1] = -1 THEN -1 ELSE Step(index, f[k - 1], dir)
      BY <1>7, <3>3
    <3>5. k # 1
      BY <1>3, <3>3, <3>4
    <3>6. k - 1 \in 1 .. n /\ ~ k <= k - 1
      BY <1>1, <3>3, <3>5
    <3>7. f[k - 1] = c[k - 1]
      BY <3>2, <3>6
    <3>. QED
      BY <1>3, <3>3, <3>4, <3>5, <3>7
  <2>. QED
    BY <2>1, <2>2
<1>. QED
  BY <1>2, <1>7, <1>8 DEF f, c

\* locate_by_rank_index() finds the slot that many others are below.
LEMMA LocateIs ==
    ASSUME NEW t, NEW u, NEW v, Lists(t, u, v), NEW r \in 0 .. Len(u) - 1
    PROVE  locate_by_rank_index(t, r) = Abstract!Ascending(Of(t, "loose"))[r + 1]
<1>. DEFINE S == Of(t, "loose")
            a == Abstract!Ascending(S)
            n == Len(u)
            c == [k \in 0 .. r |-> a[k + 1]]
            Follows(f) == f = [k \in 0 .. r |-> Min({j \in S : k = 0 \/ j > f[k - 1]})]
            f == CHOOSE g : Follows(g)
<1>1. /\ S \in SUBSET Nat /\ IsFiniteSet(S) /\ Cardinality(S) = n /\ n \in Nat
      /\ t.count["loose"] = n
  BY ListsFacts
<1>. HIDE DEF S
<1>2. a \in Seq(Nat) /\ Len(a) = n /\ Members(a) = S /\ Rises(a)
  BY <1>1, AscendingFacts
<1>3. locate_by_rank_index(t, r) = f[r]
  BY <1>1 DEF locate_by_rank_index, S
<1>. HIDE DEF a, f
<1>4. /\ \A k \in 1 .. n : a[k] \in S /\ a[k] \in Nat
      /\ \A k, l \in 1 .. n : k < l => a[k] < a[l]
      /\ \A j \in S : \E k \in 1 .. n : j = a[k]
  BY <1>2 DEF Members, Rises
<1>. HIDE DEF n
<1>5. r \in Nat /\ \A k \in 0 .. r : k \in Nat /\ k + 1 \in 1 .. n
  BY <1>1 DEF n
<1>6. \A k \in 0 .. r : a[k + 1] = Min({j \in S : k = 0 \/ j > c[k - 1]})
  <2>. SUFFICES ASSUME NEW k \in 0 .. r PROVE a[k + 1] = Min({j \in S : k = 0 \/ j > c[k - 1]})
    OBVIOUS
  <2>1. k # 0 => k \in 1 .. n /\ c[k - 1] = a[k]
    <3>1. k # 0 => k - 1 \in 0 .. r /\ (k - 1) + 1 = k
      BY <1>5
    <3>2. k # 0 => k \in 1 .. n
      BY <1>1, <1>5
    <3>. QED
      BY <3>1, <3>2
  <2>. DEFINE T == {j \in S : k = 0 \/ j > c[k - 1]}
  <2>2. T \subseteq Int
    <3>1. \A j \in S : j \in Int
      BY <1>1
    <3>. QED
      BY <3>1
  <2>3. a[k + 1] \in T
    <3>1. k # 0 => a[k + 1] > c[k - 1]
      <4>1. k # 0 => a[k] < a[k + 1] /\ a[k] \in Nat /\ a[k + 1] \in Nat
        BY <1>4, <1>5, <2>1
      <4>. QED
        BY <2>1, <4>1
    <3>. QED
      BY <1>4, <1>5, <3>1
  <2>4. \A j \in T : a[k + 1] <= j
    <3>. SUFFICES ASSUME NEW j \in S, k = 0 \/ j > c[k - 1] PROVE a[k + 1] <= j
      OBVIOUS
    <3>1. PICK l \in 1 .. n : j = a[l]
      BY <1>4
    <3>2. ~ l < k + 1
      <4>1. SUFFICES ASSUME l < k + 1, k # 0 PROVE FALSE
        BY <1>5
      <4>2. a[l] > a[k]
        BY <2>1, <3>1, <4>1
      <4>3. l \in Nat /\ (l < k \/ l = k)
        BY <1>5, <4>1
      <4>4. a[l] \in Nat /\ a[k] \in Nat /\ (l < k => a[l] < a[k])
        BY <1>4, <2>1, <4>1
      <4>. QED
        BY <4>2, <4>3, <4>4
    <3>3. l \in Nat /\ (l = k + 1 \/ k + 1 < l)
      BY <1>5, <3>2
    <3>4. a[l] \in Nat /\ a[k + 1] \in Nat /\ (k + 1 < l => a[k + 1] < a[l])
      BY <1>4, <1>5
    <3>. QED
      BY <3>1, <3>3, <3>4
  <2>. HIDE DEF T
  <2>5. Min(T) = a[k + 1]
    BY <2>2, <2>3, <2>4, MinIs
  <2>. QED
    BY <2>5 DEF T
<1>7. c = [k \in 0 .. r |-> c[k]] /\ \A k \in 0 .. r : c[k] = a[k + 1]
  OBVIOUS
<1>. HIDE DEF c
<1>8. \A k \in 0 .. r : c[k] = Min({j \in S : k = 0 \/ j > c[k - 1]})
  BY <1>6, <1>7
<1>9. Follows(c)
  BY <1>7, <1>8
<1>10. Follows(f)
  BY <1>9 DEF f
<1>11. \A k \in 0 .. r : f[k] = Min({j \in S : k = 0 \/ j > f[k - 1]})
  BY <1>10
<1>12. \A k \in 0 .. r : f[k] = c[k]
  <2>. DEFINE B == {k \in 0 .. r : f[k] # c[k]}
  <2>1. CASE B = {}
    BY <2>1
  <2>2. CASE B # {}
    <3>1. B \in SUBSET Nat
      BY <1>5
    <3>2. PICK k \in B : \A j \in B : k <= j
      <4>. HIDE DEF B
      <4>. QED
        BY <2>2, <3>1, Smallest
    <3>3. k \in 0 .. r /\ f[k] # c[k]
      BY <3>2
    <3>4. k # 0
      <4>1. SUFFICES ASSUME k = 0 PROVE FALSE
        OBVIOUS
      <4>2. {j \in S : k = 0 \/ j > f[k - 1]} = {j \in S : k = 0 \/ j > c[k - 1]}
        BY <4>1
      <4>. QED
        BY <1>8, <1>11, <3>3, <4>2
    <3>5. k - 1 \in 0 .. r /\ ~ k <= k - 1
      BY <1>5, <3>3, <3>4
    <3>6. f[k - 1] = c[k - 1]
      BY <3>2, <3>5
    <3>. QED
      BY <1>8, <1>11, <3>3, <3>6
  <2>. QED
    BY <2>1, <2>2
<1>. QED
  BY <1>3, <1>5, <1>7, <1>12 DEF a, S

\* build_rank_map() has, both ways, what the two conversions answer.
LEMMA RankMapIs ==
    ASSUME NEW t, NEW u, NEW v, Lists(t, u, v), BoundsHold(t), NEW k \in Slots(t.capacity)
    PROVE  /\ build_rank_map(t)[k].rank_to_slot = locate_by_rank_index(t, k)
           /\ build_rank_map(t)[k].slot_to_rank = convert_to_rank_index(t, k)
           /\ k < Len(u) => convert_to_rank_index(t, build_rank_map(t)[k].rank_to_slot) = k
<1>. DEFINE S == Of(t, "loose")
            a == Abstract!Ascending(S)
            n == Len(u)
            R(i) == RankOf(t, i)
            b == build_rank_map(t)
            Up(i) == CHOOSE j \in S : R(j) = i
<1>1. /\ S \in SUBSET Nat /\ IsFiniteSet(S) /\ Cardinality(S) = n /\ n \in Nat
      /\ t.count["loose"] = n /\ t.meta \in [Slots(t.capacity) -> Links] /\ S = Members(u)
      /\ t.capacity \in Nat /\ Slots(t.capacity) \in SUBSET Nat
  BY ListsFacts
<1>2. {i \in S : i <= t.high_index} = S
  <2>1. \A i \in S : i <= t.high_index
    BY <1>1, HighFacts
  <2>. QED
    BY <2>1
<1>3. k \in Nat
  BY <1>1
<1>4. b = [i \in Slots(t.capacity) |->
             [rank_to_slot |-> IF i < Cardinality(S) THEN Up(i) ELSE -1,
              slot_to_rank |-> IF i \in S THEN R(i) ELSE -1]]
  BY <1>2 DEF build_rank_map, RankOf
<1>. HIDE DEF S, n, b, R, Up
<1>5. /\ b[k].rank_to_slot = IF k < n THEN Up(k) ELSE -1
      /\ b[k].slot_to_rank = IF k \in S THEN R(k) ELSE -1
  BY <1>1, <1>4
<1>6. \A i \in Slots(t.capacity) : convert_to_rank_index(t, i) = IF i \in S THEN R(i) ELSE -1
  BY <1>1 DEF convert_to_rank_index, R, RankOf, S, Of
<1>7. b[k].slot_to_rank = convert_to_rank_index(t, k)
  BY <1>5, <1>6
<1>8. CASE k < n
  <2>1. k \in 0 .. n - 1 /\ k + 1 \in 1 .. n /\ (k + 1) - 1 = k
    BY <1>1, <1>3, <1>8
  <2>2. locate_by_rank_index(t, k) = a[k + 1]
    BY <2>1, LocateIs DEF n, S
  <2>3. a[k + 1] \in S /\ Abstract!Below(S, a[k + 1]) = k
    BY <1>1, <2>1, AscendingFacts
  <2>. HIDE DEF a
  <2>4. R(a[k + 1]) = k
    BY <2>3, RankFacts DEF R, S
  <2>5. \A j \in S : R(j) = k => j = a[k + 1]
    BY <2>3, <2>4, RankInjective DEF R, S
  <2>6. b[k].rank_to_slot = a[k + 1]
    <3>1. Up(k) = a[k + 1]
      BY <2>3, <2>4, <2>5 DEF Up
    <3>. QED
      BY <1>5, <1>8, <3>1
  <2>7. convert_to_rank_index(t, a[k + 1]) = k
    <3>1. S \subseteq Slots(t.capacity)
      BY <1>1 DEF S, Of
    <3>. QED
      BY <1>6, <2>3, <2>4, <3>1
  <2>. QED
    BY <1>7, <2>2, <2>6, <2>7 DEF b
<1>9. CASE ~ k < n
  <2>1. locate_by_rank_index(t, k) = -1
    BY <1>1, <1>3, <1>9 DEF locate_by_rank_index
  <2>. QED
    BY <1>5, <1>7, <1>9, <2>1 DEF b, n
<1>. QED
  BY <1>8, <1>9

\* The two walks, the conversions and the rank map agree.
LEMMA InvQueries == SlotsInv => QueriesAgree
<1>. SUFFICES ASSUME SlotsInv PROVE QueriesAgree
  OBVIOUS
<1>. DEFINE L == Listed(index, "loose")
            E == Listed(index, "empty")
            n == Len(L)
            forward == Reached("next")
            back == Reached("prev")
            both == Visited(index, Category)
            map == build_rank_map(index)
<1>1. /\ Lists(index, L, E) /\ BoundsHold(index) /\ index.count["loose"] = n
      /\ Of(index, "loose") = Members(L) /\ Of(index, "empty") = Members(E)
  BY InvFacts
<1>2. n \in Nat /\ L \in Seq(Nat) /\ E \in Seq(Nat) /\ Len(E) \in Nat
  BY <1>1, ListsFacts
<1>3. both = L \o E
  BY DEF Visited, Category
<1>4. Visited(index, {"empty"}) = << >> \o E
  <2>1. "loose" \notin {"empty"} /\ "empty" \in {"empty"}
    OBVIOUS
  <2>. QED
    BY <2>1 DEF Visited
<1>5. forward = Course(L, "next") /\ back = Course(L, "prev")
  BY <1>1, ReachedIs
<1>. HIDE DEF L, E, forward, back, both
<1>6. /\ \A k \in 1 .. n : forward[k] = L[k] /\ back[k] = L[n + 1 - k]
      /\ forward[n + 1] = -1 /\ back[n + 1] = -1
  <2>1. /\ \A k \in 1 .. n + 1 : forward[k] = IF k > n THEN -1 ELSE L[k]
        /\ \A k \in 1 .. n + 1 : back[k] = IF k > n THEN -1 ELSE L[n + 1 - k]
    BY <1>5 DEF Course
  <2>2. /\ n + 1 \in 1 .. n + 1 /\ n + 1 > n
        /\ \A k \in 1 .. n : k \in 1 .. n + 1 /\ ~ k > n /\ n + 1 - k \in 1 .. n
    BY <1>2
  <2>. QED
    BY <2>1, <2>2
<1>7. {forward[k] : k \in 1 .. n} = Of(index, "loose")
  BY <1>1, <1>6 DEF Members
<1>8. \A k \in 1 .. n : back[k] = forward[n + 1 - k] /\ both[k] = forward[k]
  <2>. SUFFICES ASSUME NEW k \in 1 .. n PROVE back[k] = forward[n + 1 - k] /\ both[k] = forward[k]
    OBVIOUS
  <2>1. n + 1 - k \in 1 .. n
    BY <1>2
  <2>2. both[k] = L[k]
    BY <1>2, <1>3, ConcatProperties
  <2>. QED
    BY <1>6, <2>1, <2>2
<1>9. Range(Visited(index, {"empty"})) = Of(index, "empty")
  <2>1. Visited(index, {"empty"}) = E
    BY <1>2, <1>4, ConcatEmptySeq
  <2>. QED
    BY <1>1, <1>2, <2>1 DEF Range, Members
<1>10. \A k \in Slots(index.capacity) :
          /\ map[k].rank_to_slot = locate_by_rank_index(index, k)
          /\ map[k].slot_to_rank = convert_to_rank_index(index, k)
          /\ k < n => convert_to_rank_index(index, map[k].rank_to_slot) = k
  BY <1>1, RankMapIs
<1>. QED
  BY <1>1, <1>6, <1>7, <1>8, <1>9, <1>10 DEF QueriesAgree, forward, back, both

\* After every operation the metadata passes its own check, high_index is the
\* highest occupied slot, and traversals, visits, rank conversions and the rank
\* map agree.
THEOREM SlotsSound == Spec => []SlotsAgree
<1>1. SlotsInv => SlotsAgree
  BY InvIntegrity, InvQueries DEF SlotsAgree
<1>. QED
  BY <1>1, SlotsInvariant, PTL

----------------------------------------------------------------------------
(* Objects at fixed addresses: the storage and the slot data *)

\* What is known of a storage: the directory has room for its buffers.
StorageSound(st) ==
    st \in [slots : Nat, directory : Nat, buffers : Nat] /\ st.buffers <= st.directory

\* The capacities of a directory of d, doubled up to n times.
Doubles(f, d, n) == f = [k \in 0 .. n |-> IF k = 0 THEN d ELSE 2 * f[k - 1]]

\* There are such capacities, each larger than the number of doublings.
LEMMA DoublesExist ==
    ASSUME NEW d \in Nat \ {0}, NEW n \in Nat
    PROVE  \E f : Doubles(f, d, n)
<1>. DEFINE S == {m \in Nat : ~ \E f : Doubles(f, d, m)}
<1>1. CASE S = {}
  BY <1>1
<1>2. CASE S # {}
  <2>1. S \in SUBSET Nat
    OBVIOUS
  <2>2. PICK m \in S : \A j \in S : m <= j
    <3>. HIDE DEF S
    <3>. QED
      BY <1>2, <2>1, Smallest
  <2>3. m \in Nat /\ ~ \E f : Doubles(f, d, m)
    BY <2>2
  <2>4. CASE m = 0
    <3>. DEFINE f == [k \in 0 .. 0 |-> d]
    <3>1. Doubles(f, d, 0)
      BY DEF Doubles
    <3>. QED
      BY <2>3, <2>4, <3>1
  <2>5. CASE m # 0
    <3>1. m - 1 \in Nat /\ ~ m <= m - 1
      BY <2>3, <2>5
    <3>2. PICK g : Doubles(g, d, m - 1)
      BY <2>2, <3>1
    <3>. DEFINE f == [k \in 0 .. m |-> IF k = 0 THEN d ELSE 2 * g[k - 1]]
    <3>3. \A k \in 0 .. m - 1 : f[k] = g[k]
      <4>1. g = [k \in 0 .. m - 1 |-> IF k = 0 THEN d ELSE 2 * g[k - 1]]
        BY <3>2 DEF Doubles
      <4>2. \A k \in 0 .. m - 1 : k \in 0 .. m
        BY <2>3
      <4>. QED
        BY <4>1, <4>2
    <3>4. \A k \in 0 .. m : k # 0 => k - 1 \in 0 .. m - 1
      BY <2>3
    <3>5. Doubles(f, d, m)
      BY <3>3, <3>4 DEF Doubles
    <3>. QED
      BY <2>3, <3>5
  <2>. QED
    BY <2>4, <2>5
<1>. QED
  BY <1>1, <1>2

\* Each is larger than the number of doublings.
LEMMA DoublesGrow ==
    ASSUME NEW d \in Nat \ {0}, NEW n \in Nat, NEW f, Doubles(f, d, n), NEW k \in 0 .. n
    PROVE  f[k] \in Nat /\ f[k] > k
<1>. DEFINE S == {j \in 0 .. n : ~ (f[j] \in Nat /\ f[j] > j)}
<1>1. CASE S = {}
  BY <1>1
<1>2. CASE S # {}
  <2>1. S \in SUBSET Nat
    OBVIOUS
  <2>2. PICK m \in S : \A j \in S : m <= j
    <3>. HIDE DEF S
    <3>. QED
      BY <1>2, <2>1, Smallest
  <2>3. m \in 0 .. n /\ ~ (f[m] \in Nat /\ f[m] > m)
    BY <2>2
  <2>4. f[m] = IF m = 0 THEN d ELSE 2 * f[m - 1]
    BY <2>3 DEF Doubles
  <2>5. CASE m # 0
    <3>1. m - 1 \in 0 .. n /\ ~ m <= m - 1
      BY <2>3, <2>5
    <3>2. f[m - 1] \in Nat /\ f[m - 1] > m - 1
      BY <2>2, <3>1
    <3>. QED
      BY <2>3, <2>4, <2>5, <3>1, <3>2
  <2>. QED
    BY <2>3, <2>4, <2>5
<1>. QED
  BY <1>1, <1>2

\* The directory map_index() ends with has room for the buffers it was to have.
LEMMA DirectoryHasRoom ==
    ASSUME NEW st, st.directory \in Nat \ {0}, NEW n \in Nat
    PROVE  DirectoryFor(st, n) \in Nat \ {0} /\ n <= DirectoryFor(st, n)
<1>. DEFINE d == st.directory
            f == CHOOSE g : Doubles(g, d, n)
            Enough(k) == n <= f[k] /\ (k = 0 \/ f[k - 1] < n)
            found == CHOOSE k \in 0 .. n : Enough(k)
            S == {k \in 0 .. n : n <= f[k]}
<1>1. DirectoryFor(st, n) = f[found]
  BY DEF DirectoryFor, Doubles
<1>2. Doubles(f, d, n)
  BY DoublesExist
<1>. HIDE DEF f, d
<1>3. \A k \in 0 .. n : f[k] \in Nat /\ f[k] > k
  BY <1>2, DoublesGrow DEF d
<1>4. S \in SUBSET Nat /\ S # {}
  <2>1. n \in S
    BY <1>3
  <2>. QED
    BY <2>1
<1>5. PICK k \in S : \A j \in S : k <= j
  <2>. HIDE DEF S
  <2>. QED
    BY <1>4, Smallest
<1>6. k \in 0 .. n /\ Enough(k)
  <2>1. k \in 0 .. n /\ n <= f[k]
    BY <1>5
  <2>2. CASE k # 0
    <3>1. k - 1 \in 0 .. n /\ ~ k <= k - 1
      BY <2>1, <2>2
    <3>2. ~ n <= f[k - 1] /\ f[k - 1] \in Nat
      BY <1>3, <1>5, <3>1
    <3>. QED
      BY <2>1, <3>2
  <2>. QED
    BY <2>1, <2>2
<1>7. found \in 0 .. n /\ Enough(found)
  <2>. HIDE DEF Enough
  <2>. QED
    BY <1>6
<1>8. n <= f[found] /\ f[found] \in Nat /\ f[found] > found /\ found \in Nat
  BY <1>3, <1>7
<1>. HIDE DEF found
<1>. QED
  BY <1>1, <1>8

\* map_index() gives a storage more slots, or as many.
LEMMA MappedFacts ==
    ASSUME NEW st, StorageSound(st), st.slots # 0, st.directory # 0, NEW i,
           NEW made \in map_index(st, i)
    PROVE  /\ StorageSound(made) /\ made.slots = st.slots /\ made.directory # 0
           /\ SlotCapacity(st) \in Nat /\ SlotCapacity(made) \in Nat
           /\ SlotCapacity(st) <= SlotCapacity(made)
<1>1. /\ st \in [slots : Nat, directory : Nat, buffers : Nat]
      /\ st.slots \in Nat /\ st.directory \in Nat \ {0} /\ st.buffers \in Nat
  BY DEF StorageSound
<1>2. SlotCapacity(st) \in Nat
  BY <1>1 DEF SlotCapacity
<1>3. CASE made = st
  BY <1>2, <1>3
<1>4. CASE made # st
  <2>1. PICK n \in st.buffers .. (i \div st.slots) + 1 :
              made = [st EXCEPT !.buffers = n, !.directory = DirectoryFor(st, n)]
    BY <1>4 DEF map_index
  <2>2. n \in Nat /\ st.buffers <= n
    BY <1>1, <2>1
  <2>3. DirectoryFor(st, n) \in Nat \ {0} /\ n <= DirectoryFor(st, n)
    BY <1>1, <2>2, DirectoryHasRoom
  <2>4. /\ made \in [slots : Nat, directory : Nat, buffers : Nat]
        /\ made.slots = st.slots /\ made.directory = DirectoryFor(st, n) /\ made.buffers = n
    BY <1>1, <2>1, <2>2, <2>3
  <2>5. StorageSound(made)
    BY <2>3, <2>4 DEF StorageSound
  <2>6. SlotCapacity(made) = st.slots * n /\ st.slots * n \in Nat
    BY <1>1, <2>2, <2>4 DEF SlotCapacity
  <2>7. st.slots * st.buffers <= st.slots * n
    <3>. DEFINE s == st.slots
                b == st.buffers
    <3>1. s \in Nat /\ b \in Nat /\ n \in Nat /\ b <= n
      BY <1>1, <2>2
    <3>. HIDE DEF s, b
    <3>2. PICK x \in Nat : n = b + x
      <4>1. n - b \in Nat /\ n = b + (n - b)
        BY <3>1
      <4>. QED
        BY <4>1
    <3>3. s * n = s * b + s * x /\ s * b \in Nat /\ s * x \in Nat
      BY <3>1, <3>2
    <3>4. s * b <= s * n
      BY <3>3
    <3>. QED
      BY <3>4 DEF s, b
  <2>. QED
    BY <1>2, <2>3, <2>4, <2>5, <2>6, <2>7 DEF SlotCapacity
<1>. QED
  BY <1>3, <1>4

\* Slot data for m slots: a state, and an address of its own among as many.
IsData(data, m) ==
    /\ DOMAIN data = Slots(m)
    /\ \A i \in Slots(m) :
          data[i] \in [state : {"Unmapped", "Mapped", "Constructed"}, at : Slots(m)]
    /\ \A i, j \in Slots(m) : data[i].at = data[j].at => i = j
    /\ \A a \in Slots(m) : \E i \in Slots(m) : data[i].at = a

\* The slots that are live have their payload for object at their address, and no
\* other address has one; what was ever mapped still is.
Keeps(data, st, objects, items, live) ==
    /\ Constructed(data) = live
    /\ objects \in [Slots(Limit) -> Payloads \cup {None}]
    /\ \A i \in DOMAIN data :
          /\ data[i].state # "Unmapped" => data[i].at < SlotCapacity(st)
          /\ objects[data[i].at] = IF i \in live THEN items[i] ELSE None
    /\ \A a \in Slots(Limit) \ DOMAIN data : objects[a] = None
    /\ \A i \in live : items[i] \in Payloads

\* The live slots: pack() has brought the lowest of them to the front.
Live ==
    IF lock = "on_move_payload" THEN Slots(target) \cup {i \in Of(index, "loose") : i >= source}
    ELSE Of(index, "loose")

\* A domain that has slots has a storage.
StorageInUse == index.capacity # 0 => storage.slots # 0 /\ storage.directory # 0

\* The inductive invariant: the slot data may be longer than the domain, when the
\* domain got no memory to grow by.
CollectionInv ==
    /\ SlotsInv
    /\ StorageSound(storage) /\ StorageInUse
    /\ \E m \in 0 .. Limit : index.capacity <= m /\ IsData(slot, m)
    /\ Keeps(slot, storage, object, payload, Live)

\* Slot data that is appended is unmapped, at addresses beyond those there are.
LEMMA AppendedData ==
    ASSUME NEW data, NEW m \in 0 .. Limit, IsData(data, m), NEW n \in 1 .. Limit
    PROVE  LET more == Appended(data, n)
               size == IF m < n THEN n ELSE m
           IN /\ size \in 0 .. Limit /\ n <= size /\ IsData(more, size)
              /\ \A i \in Slots(m) : i \in Slots(size) /\ more[i] = data[i]
              /\ \A i \in Slots(size) \ Slots(m) : more[i] = Unmapped(i)
              /\ Constructed(more) = Constructed(data)
<1>. DEFINE more == Appended(data, n)
            size == IF m < n THEN n ELSE m
<1>1. m \in Nat /\ n \in Nat /\ size \in 0 .. Limit /\ n <= size /\ m <= size
  BY UnorderedAssumption
<1>2. Slots(m) \cup 0 .. n - 1 = Slots(size) /\ Slots(m) \subseteq Slots(size)
  BY <1>1 DEF Slots
<1>3. more = [i \in Slots(size) |-> IF i \in Slots(m) THEN data[i] ELSE Unmapped(i)]
  BY <1>2 DEF Appended, IsData
<1>4. /\ DOMAIN more = Slots(size)
      /\ \A i \in Slots(m) : i \in Slots(size) /\ more[i] = data[i]
      /\ \A i \in Slots(size) \ Slots(m) : more[i] = Unmapped(i)
  BY <1>2, <1>3
<1>. HIDE DEF more, size
<1>5. \A i \in Slots(m) : data[i].at \in Slots(m)
  BY DEF IsData
<1>6. \A i : Unmapped(i).at = i /\ Unmapped(i).state = "Unmapped"
  BY DEF Unmapped
<1>7. \A i \in Slots(size) :
        more[i] \in [state : {"Unmapped", "Mapped", "Constructed"}, at : Slots(size)]
  <2>. SUFFICES ASSUME NEW i \in Slots(size)
                PROVE  more[i] \in [state : {"Unmapped", "Mapped", "Constructed"}, at : Slots(size)]
    OBVIOUS
  <2>1. CASE i \in Slots(m)
    BY <1>2, <1>4, <2>1 DEF IsData
  <2>2. CASE i \notin Slots(m)
    BY <1>4, <2>2 DEF Unmapped
  <2>. QED
    BY <2>1, <2>2
<1>8. \A i, j \in Slots(size) : more[i].at = more[j].at => i = j
  BY <1>4, <1>5, <1>6 DEF IsData
<1>9. \A a \in Slots(size) : \E i \in Slots(size) : more[i].at = a
  <2>. SUFFICES ASSUME NEW a \in Slots(size) PROVE \E i \in Slots(size) : more[i].at = a
    OBVIOUS
  <2>1. CASE a \in Slots(m)
    <3>1. PICK i \in Slots(m) : data[i].at = a
      BY <2>1 DEF IsData
    <3>. QED
      BY <1>4, <3>1
  <2>2. CASE a \notin Slots(m)
    BY <1>4, <1>6, <2>2
  <2>. QED
    BY <2>1, <2>2
<1>10. IsData(more, size)
  BY <1>4, <1>7, <1>8, <1>9 DEF IsData
<1>11. Constructed(more) = Constructed(data)
  <2>1. DOMAIN data = Slots(m)
    BY DEF IsData
  <2>2. \A i : i \in Constructed(more) <=> i \in Constructed(data)
    BY <1>4, <1>6, <2>1 DEF Constructed
  <2>. QED
    BY <2>2
<1>. QED
  BY <1>1, <1>4, <1>10, <1>11 DEF more, size

\* Appending changes nothing for the objects there are, nor do more buffers.
LEMMA AppendedKeeps ==
    ASSUME NEW data, NEW m \in 0 .. Limit, IsData(data, m), NEW n \in 1 .. Limit,
           NEW st, NEW more, SlotCapacity(st) \in Nat, SlotCapacity(more) \in Nat,
           SlotCapacity(st) <= SlotCapacity(more),
           NEW objects, NEW items, NEW live, Keeps(data, st, objects, items, live)
    PROVE  Keeps(Appended(data, n), more, objects, items, live)
<1>. DEFINE longer == Appended(data, n)
            size == IF m < n THEN n ELSE m
<1>1. /\ size \in 0 .. Limit /\ n <= size /\ IsData(longer, size)
      /\ \A i \in Slots(m) : i \in Slots(size) /\ longer[i] = data[i]
      /\ \A i \in Slots(size) \ Slots(m) : longer[i] = Unmapped(i)
      /\ Constructed(longer) = Constructed(data)
  BY AppendedData
<1>. HIDE DEF longer, size
<1>2. DOMAIN data = Slots(m) /\ DOMAIN longer = Slots(size) /\ Slots(size) \subseteq Slots(Limit)
  BY <1>1, UnorderedAssumption DEF IsData, Slots
<1>3. Constructed(longer) = live /\ live \subseteq Slots(m)
  BY <1>1, <1>2 DEF Keeps, Constructed
<1>4. \A i \in Slots(m) : data[i].at \in Slots(m) /\ data[i].at \in Nat
  BY DEF IsData, Slots
<1>8. \A i : Unmapped(i).at = i /\ Unmapped(i).state = "Unmapped"
  BY DEF Unmapped
<1>5. \A i \in DOMAIN longer : longer[i].state # "Unmapped" => longer[i].at < SlotCapacity(more)
  <2>. SUFFICES ASSUME NEW i \in Slots(size), longer[i].state # "Unmapped"
                PROVE  longer[i].at < SlotCapacity(more)
    BY <1>2
  <2>1. i \in Slots(m)
    BY <1>1, <1>8
  <2>2. longer[i] = data[i] /\ data[i].at \in Nat /\ data[i].at < SlotCapacity(st)
    BY <1>1, <1>2, <1>4, <2>1 DEF Keeps
  <2>. QED
    BY <2>2
<1>6. \A i \in DOMAIN longer : objects[longer[i].at] = IF i \in live THEN items[i] ELSE None
  <2>. SUFFICES ASSUME NEW i \in Slots(size)
                PROVE  objects[longer[i].at] = IF i \in live THEN items[i] ELSE None
    BY <1>2
  <2>1. CASE i \in Slots(m)
    BY <1>1, <1>2, <2>1 DEF Keeps
  <2>2. CASE i \notin Slots(m)
    <3>1. longer[i].at = i
      BY <1>1, <1>8, <2>2
    <3>. QED
      BY <1>2, <1>3, <2>2, <3>1 DEF Keeps
  <2>. QED
    BY <2>1, <2>2
<1>7. \A a \in Slots(Limit) \ DOMAIN longer : objects[a] = None
  BY <1>1, <1>2 DEF Keeps
<1>. QED
  BY <1>3, <1>5, <1>6, <1>7 DEF Keeps, longer

\* An object is constructed at the address of a slot that has none.
LEMMA ConstructedKeeps ==
    ASSUME NEW data, NEW m \in 0 .. Limit, IsData(data, m), NEW st,
           NEW objects, NEW items, NEW live, Keeps(data, st, objects, items, live),
           NEW i \in Slots(m), i \notin live, data[i].at < SlotCapacity(st),
           items \in [Slots(Limit) -> Payloads \cup {None}], NEW item \in Payloads
    PROVE  /\ IsData([data EXCEPT ![i].state = "Constructed"], m)
           /\ Keeps([data EXCEPT ![i].state = "Constructed"], st,
                    [objects EXCEPT ![data[i].at] = item], [items EXCEPT ![i] = item], live \cup {i})
<1>. DEFINE d == [data EXCEPT ![i].state = "Constructed"]
            a == data[i].at
            o == [objects EXCEPT ![a] = item]
            p == [items EXCEPT ![i] = item]
<1>1. /\ DOMAIN data = Slots(m) /\ Slots(m) \subseteq Slots(Limit)
      /\ \A j \in Slots(m) :
            data[j] \in [state : {"Unmapped", "Mapped", "Constructed"}, at : Slots(m)]
  <2>1. Slots(m) \subseteq Slots(Limit)
    BY UnorderedAssumption DEF Slots
  <2>. QED
    BY <2>1 DEF IsData
<1>2. DOMAIN d = Slots(m)
  BY <1>1
<1>3. d[i] = [data[i] EXCEPT !.state = "Constructed"] /\ \A j \in Slots(m) \ {i} : d[j] = data[j]
  BY <1>1
<1>4. /\ d[i] \in [state : {"Unmapped", "Mapped", "Constructed"}, at : Slots(m)]
      /\ d[i].at = a /\ d[i].state = "Constructed"
  BY <1>1, <1>3
<1>. HIDE DEF d
<1>5. a \in Slots(m) /\ a \in Slots(Limit) /\ i \in Slots(Limit) /\ \A j \in Slots(m) \ {i} : data[j].at # a
  BY <1>1 DEF IsData
<1>6. \A j \in Slots(m) : d[j].at = data[j].at
  BY <1>3, <1>4
<1>7. IsData(d, m)
  <2>1. \A j \in Slots(m) :
          d[j] \in [state : {"Unmapped", "Mapped", "Constructed"}, at : Slots(m)]
    BY <1>1, <1>3, <1>4
  <2>2. /\ \A j, k \in Slots(m) : d[j].at = d[k].at => j = k
        /\ \A b \in Slots(m) : \E j \in Slots(m) : d[j].at = b
    BY <1>6 DEF IsData
  <2>. QED
    BY <1>2, <2>1, <2>2 DEF IsData
<1>8. o \in [Slots(Limit) -> Payloads \cup {None}] /\ o[a] = item
      /\ \A b \in Slots(Limit) \ {a} : o[b] = objects[b]
  BY <1>5 DEF Keeps
<1>9. p[i] = item /\ \A j \in Slots(Limit) \ {i} : p[j] = items[j]
  BY <1>5
<1>. HIDE DEF o, p, a
<1>10. live \subseteq Slots(m) /\ Constructed(d) = live \cup {i}
  <2>1. live = {j \in Slots(m) : data[j].state = "Constructed"}
    BY <1>1 DEF Keeps, Constructed
  <2>. QED
    BY <1>2, <1>3, <1>4, <2>1 DEF Constructed
<1>11. \A j \in DOMAIN d : /\ d[j].state # "Unmapped" => d[j].at < SlotCapacity(st)
                          /\ o[d[j].at] = IF j \in live \cup {i} THEN p[j] ELSE None
  <2>. SUFFICES ASSUME NEW j \in Slots(m)
                PROVE  /\ d[j].state # "Unmapped" => d[j].at < SlotCapacity(st)
                       /\ o[d[j].at] = IF j \in live \cup {i} THEN p[j] ELSE None
    BY <1>2
  <2>1. CASE j = i
    BY <1>4, <1>8, <1>9, <2>1 DEF a
  <2>2. CASE j # i
    <3>1. d[j] = data[j] /\ data[j].at # a /\ data[j].at \in Slots(Limit) /\ j \in Slots(Limit)
      BY <1>1, <1>3, <1>5, <2>2
    <3>2. /\ data[j].state # "Unmapped" => data[j].at < SlotCapacity(st)
          /\ objects[data[j].at] = IF j \in live THEN items[j] ELSE None
      BY <1>1 DEF Keeps
    <3>. QED
      BY <1>8, <1>9, <2>2, <3>1, <3>2
  <2>. QED
    BY <2>1, <2>2
<1>12. \A b \in Slots(Limit) \ DOMAIN d : o[b] = None
  BY <1>1, <1>2, <1>5, <1>8 DEF Keeps
<1>13. \A j \in live \cup {i} : p[j] \in Payloads
  BY <1>1, <1>9, <1>10 DEF Keeps
<1>14. Keeps(d, st, o, p, live \cup {i})
  BY <1>8, <1>10, <1>11, <1>12, <1>13 DEF Keeps
<1>. QED
  BY <1>7, <1>14 DEF d, o, p, a

\* The object of one slot is destroyed.
LEMMA ErasedKeeps ==
    ASSUME NEW data, NEW m \in 0 .. Limit, IsData(data, m), NEW st,
           NEW objects, NEW items, NEW live, Keeps(data, st, objects, items, live), NEW i \in live,
           items \in [Slots(Limit) -> Payloads \cup {None}]
    PROVE  /\ IsData([data EXCEPT ![i].state = "Mapped"], m)
           /\ Keeps([data EXCEPT ![i].state = "Mapped"], st, Deconstructed(objects, data, {i}, None),
                    [items EXCEPT ![i] = None], live \ {i})
<1>. DEFINE d == [data EXCEPT ![i].state = "Mapped"]
            a == data[i].at
            o == Deconstructed(objects, data, {i}, None)
            p == [items EXCEPT ![i] = None]
<1>1. /\ DOMAIN data = Slots(m) /\ Slots(m) \subseteq Slots(Limit)
      /\ \A j \in Slots(m) :
            data[j] \in [state : {"Unmapped", "Mapped", "Constructed"}, at : Slots(m)]
  <2>1. Slots(m) \subseteq Slots(Limit)
    BY UnorderedAssumption DEF Slots
  <2>. QED
    BY <2>1 DEF IsData
<1>2. live = {j \in Slots(m) : data[j].state = "Constructed"} /\ live \subseteq Slots(m)
  BY <1>1 DEF Keeps, Constructed
<1>3. i \in Slots(m) /\ data[i].state = "Constructed"
  BY <1>2
<1>4. DOMAIN d = Slots(m)
  BY <1>1
<1>5. d[i] = [data[i] EXCEPT !.state = "Mapped"] /\ \A j \in Slots(m) \ {i} : d[j] = data[j]
  BY <1>1, <1>3
<1>6. /\ d[i] \in [state : {"Unmapped", "Mapped", "Constructed"}, at : Slots(m)]
      /\ d[i].at = a /\ d[i].state = "Mapped"
  BY <1>1, <1>3, <1>5
<1>. HIDE DEF d
<1>7. a \in Slots(m) /\ a \in Slots(Limit) /\ i \in Slots(Limit) /\ \A j \in Slots(m) \ {i} : data[j].at # a
  BY <1>1, <1>3 DEF IsData
<1>8. \A j \in Slots(m) : d[j].at = data[j].at
  BY <1>5, <1>6
<1>9. IsData(d, m)
  <2>1. \A j \in Slots(m) :
          d[j] \in [state : {"Unmapped", "Mapped", "Constructed"}, at : Slots(m)]
    BY <1>1, <1>5, <1>6
  <2>2. /\ \A j, k \in Slots(m) : d[j].at = d[k].at => j = k
        /\ \A b \in Slots(m) : \E j \in Slots(m) : d[j].at = b
    BY <1>8 DEF IsData
  <2>. QED
    BY <1>4, <2>1, <2>2 DEF IsData
<1>10. objects \in [Slots(Limit) -> Payloads \cup {None}]
  BY DEF Keeps
<1>11. o = [b \in Slots(Limit) |-> IF a = b THEN None ELSE objects[b]]
  BY <1>10 DEF Deconstructed
<1>12. o \in [Slots(Limit) -> Payloads \cup {None}] /\ o[a] = None
       /\ \A b \in Slots(Limit) \ {a} : o[b] = objects[b]
  BY <1>7, <1>10, <1>11
<1>13. \A j \in Slots(Limit) \ {i} : p[j] = items[j]
  OBVIOUS
<1>. HIDE DEF o, p, a
<1>14. Constructed(d) = live \ {i}
  BY <1>2, <1>4, <1>5, <1>6 DEF Constructed
<1>15. \A j \in DOMAIN d : /\ d[j].state # "Unmapped" => d[j].at < SlotCapacity(st)
                          /\ o[d[j].at] = IF j \in live \ {i} THEN p[j] ELSE None
  <2>. SUFFICES ASSUME NEW j \in Slots(m)
                PROVE  /\ d[j].state # "Unmapped" => d[j].at < SlotCapacity(st)
                       /\ o[d[j].at] = IF j \in live \ {i} THEN p[j] ELSE None
    BY <1>4
  <2>0. /\ data[j].state # "Unmapped" => data[j].at < SlotCapacity(st)
        /\ objects[data[j].at] = IF j \in live THEN items[j] ELSE None
    BY <1>1 DEF Keeps
  <2>1. CASE j = i
    BY <1>3, <1>6, <1>12, <2>0, <2>1 DEF a
  <2>2. CASE j # i
    <3>1. d[j] = data[j] /\ data[j].at # a /\ data[j].at \in Slots(Limit) /\ j \in Slots(Limit)
      BY <1>1, <1>5, <1>7, <2>2
    <3>. QED
      BY <1>12, <1>13, <2>0, <2>2, <3>1
  <2>. QED
    BY <2>1, <2>2
<1>16. \A b \in Slots(Limit) \ DOMAIN d : o[b] = None
  BY <1>1, <1>4, <1>7, <1>12 DEF Keeps
<1>17. \A j \in live \ {i} : p[j] \in Payloads
  BY <1>1, <1>2, <1>13 DEF Keeps
<1>18. Keeps(d, st, o, p, live \ {i})
  BY <1>12, <1>14, <1>15, <1>16, <1>17 DEF Keeps
<1>. QED
  BY <1>9, <1>18 DEF d, o, p, a

\* on_move_payload() trades the slot data as pack() trades the payloads: the object
\* stays at its address and belongs to the other slot.
LEMMA TradedKeeps ==
    ASSUME NEW data, NEW m \in 0 .. Limit, IsData(data, m), NEW st,
           NEW objects, NEW items, NEW live, Keeps(data, st, objects, items, live),
           items \in [Slots(Limit) -> Payloads \cup {None}],
           NEW from \in live, NEW to \in Slots(m), to \notin live
    PROVE  /\ IsData(Traded(data, from, to), m)
           /\ Keeps(Traded(data, from, to), st, objects,
                    [items EXCEPT ![to] = items[from], ![from] = items[to]],
                    (live \ {from}) \cup {to})
<1>. DEFINE d == Traded(data, from, to)
            p == [items EXCEPT ![to] = items[from], ![from] = items[to]]
            new == (live \ {from}) \cup {to}
            Other(j) == IF j = from THEN to ELSE IF j = to THEN from ELSE j
<1>1. /\ DOMAIN data = Slots(m) /\ Slots(m) \subseteq Slots(Limit)
      /\ \A j \in Slots(m) :
            data[j] \in [state : {"Unmapped", "Mapped", "Constructed"}, at : Slots(m)]
  <2>1. Slots(m) \subseteq Slots(Limit)
    BY UnorderedAssumption DEF Slots
  <2>. QED
    BY <2>1 DEF IsData
<1>2. live = {j \in Slots(m) : data[j].state = "Constructed"} /\ live \subseteq Slots(m)
  BY <1>1 DEF Keeps, Constructed
<1>3. from \in Slots(m) /\ from # to /\ from \in Slots(Limit) /\ to \in Slots(Limit)
  BY <1>1, <1>2
<1>4. DOMAIN d = Slots(m) /\ \A j \in Slots(m) : d[j] = data[Other(j)]
  BY <1>1, <1>3 DEF Traded
<1>5. \A j \in Slots(Limit) : p[j] = items[Other(j)]
  BY <1>3
<1>6. /\ \A j \in Slots(m) : Other(j) \in Slots(m) /\ Other(Other(j)) = j
      /\ \A j \in Slots(m) : j \in new <=> Other(j) \in live
  BY <1>3
<1>. HIDE DEF d, p
<1>7. IsData(d, m)
  <2>1. \A j \in Slots(m) :
          d[j] \in [state : {"Unmapped", "Mapped", "Constructed"}, at : Slots(m)]
    BY <1>1, <1>4, <1>6
  <2>2. \A j, k \in Slots(m) : d[j].at = d[k].at => j = k
    <3>. HIDE DEF Other
    <3>. SUFFICES ASSUME NEW j \in Slots(m), NEW k \in Slots(m), d[j].at = d[k].at PROVE j = k
      OBVIOUS
    <3>1. data[Other(j)].at = data[Other(k)].at /\ Other(j) \in Slots(m) /\ Other(k) \in Slots(m)
      BY <1>4, <1>6
    <3>2. Other(j) = Other(k)
      BY <3>1 DEF IsData
    <3>. QED
      BY <1>6, <3>2
  <2>3. \A b \in Slots(m) : \E j \in Slots(m) : d[j].at = b
    <3>. HIDE DEF Other
    <3>. SUFFICES ASSUME NEW b \in Slots(m) PROVE \E j \in Slots(m) : d[j].at = b
      OBVIOUS
    <3>1. PICK k \in Slots(m) : data[k].at = b
      BY DEF IsData
    <3>2. Other(k) \in Slots(m) /\ d[Other(k)] = data[k]
      BY <1>4, <1>6
    <3>. QED
      BY <3>1, <3>2
  <2>. QED
    BY <1>4, <2>1, <2>2, <2>3 DEF IsData
<1>. HIDE DEF Other, new
<1>8. Constructed(d) = new
  <2>1. \A j \in Slots(m) : d[j].state = "Constructed" <=> j \in new
    BY <1>2, <1>4, <1>6
  <2>2. new \subseteq Slots(m)
    BY <1>2 DEF new
  <2>. QED
    BY <1>4, <2>1, <2>2 DEF Constructed
<1>9. \A j \in DOMAIN d : /\ d[j].state # "Unmapped" => d[j].at < SlotCapacity(st)
                         /\ objects[d[j].at] = IF j \in new THEN p[j] ELSE None
  <2>. SUFFICES ASSUME NEW j \in Slots(m)
                PROVE  /\ d[j].state # "Unmapped" => d[j].at < SlotCapacity(st)
                       /\ objects[d[j].at] = IF j \in new THEN p[j] ELSE None
    BY <1>4
  <2>. DEFINE k == Other(j)
  <2>1. k \in Slots(m) /\ d[j] = data[k] /\ (j \in new <=> k \in live) /\ p[j] = items[k]
    BY <1>1, <1>4, <1>5, <1>6
  <2>2. /\ data[k].state # "Unmapped" => data[k].at < SlotCapacity(st)
        /\ objects[data[k].at] = IF k \in live THEN items[k] ELSE None
    BY <1>1, <2>1 DEF Keeps
  <2>. QED
    BY <2>1, <2>2
<1>10. \A b \in Slots(Limit) \ DOMAIN d : objects[b] = None
  BY <1>1, <1>4 DEF Keeps
<1>11. \A j \in new : p[j] \in Payloads
  <2>. SUFFICES ASSUME NEW j \in new PROVE p[j] \in Payloads
    OBVIOUS
  <2>1. j \in Slots(m) /\ j \in Slots(Limit)
    BY <1>1, <1>2 DEF new
  <2>2. Other(j) \in live /\ p[j] = items[Other(j)]
    BY <1>5, <1>6, <2>1
  <2>. QED
    BY <2>2 DEF Keeps
<1>12. objects \in [Slots(Limit) -> Payloads \cup {None}]
  BY DEF Keeps
<1>13. Keeps(d, st, objects, p, new)
  BY <1>8, <1>9, <1>10, <1>11, <1>12 DEF Keeps
<1>. QED
  BY <1>7, <1>13 DEF d, p, new

\* deconstruct_payload() leaves no object.
LEMMA AllDestroyed ==
    ASSUME NEW data, NEW m \in 0 .. Limit, IsData(data, m), NEW st,
           NEW objects, NEW items, NEW live, Keeps(data, st, objects, items, live)
    PROVE  Deconstructed(objects, data, Constructed(data), None) = NoObject
<1>1. objects \in [Slots(Limit) -> Payloads \cup {None}] /\ DOMAIN data = Slots(m)
  BY DEF Keeps, IsData
<1>2. \A a \in Slots(Limit) :
        ~ (\E i \in Constructed(data) : data[i].at = a) => objects[a] = None
  <2>. SUFFICES ASSUME NEW a \in Slots(Limit), ~ \E i \in Constructed(data) : data[i].at = a
                PROVE  objects[a] = None
    OBVIOUS
  <2>1. CASE a \in Slots(m)
    <3>1. PICK i \in Slots(m) : data[i].at = a
      BY <2>1 DEF IsData
    <3>2. i \notin live
      BY <3>1 DEF Keeps
    <3>. QED
      BY <1>1, <3>1, <3>2 DEF Keeps
  <2>2. CASE a \notin Slots(m)
    BY <1>1, <2>2 DEF Keeps
  <2>. QED
    BY <2>1, <2>2
<1>. QED
  BY <1>1, <1>2 DEF Deconstructed, NoObject

\* No slot data, and no object.
LEMMA NothingKept ==
    ASSUME NEW st, NEW items
    PROVE  IsData(<< >>, 0) /\ Keeps(<< >>, st, NoObject, items, {})
<1>1. DOMAIN << >> = {} /\ Slots(0) = {}
  BY DEF Slots
<1>2. Constructed(<< >>) = {}
  BY <1>1 DEF Constructed
<1>. QED
  BY <1>1, <1>2 DEF IsData, Keeps, NoObject

----------------------------------------------------------------------------
(* The collection: its operations and its theorems *)

\* A slot before the others.
LEMMA MembersBefore ==
    ASSUME NEW u \in Seq(Nat), NEW i \in Nat
    PROVE  Members(<<i>> \o u) = Members(u) \cup {i} /\ Len(<<i>> \o u) = Len(u) + 1
<1>. DEFINE w == <<i>> \o u
<1>1. /\ Len(w) = Len(u) + 1 /\ Len(u) \in Nat /\ w[1] = i
      /\ \A k \in 1 .. Len(u) : w[k + 1] = u[k]
  OBVIOUS
<1>. HIDE DEF w
<1>2. ASSUME NEW x \in Members(w) PROVE x \in Members(u) \cup {i}
  <2>1. PICK k \in 1 .. Len(w) : w[k] = x
    BY DEF Members
  <2>2. CASE k = 1
    BY <1>1, <2>1, <2>2
  <2>3. CASE k # 1
    <3>1. k - 1 \in 1 .. Len(u) /\ (k - 1) + 1 = k
      BY <1>1, <2>1, <2>3
    <3>2. w[k] = u[k - 1]
      BY <1>1, <3>1
    <3>. QED
      BY <2>1, <3>1, <3>2 DEF Members
  <2>. QED
    BY <2>2, <2>3
<1>3. ASSUME NEW x \in Members(u) PROVE x \in Members(w)
  <2>1. PICK k \in 1 .. Len(u) : u[k] = x
    BY DEF Members
  <2>2. k + 1 \in 1 .. Len(w)
    BY <1>1
  <2>. QED
    BY <1>1, <2>1, <2>2 DEF Members
<1>4. i \in Members(w)
  <2>1. 1 \in 1 .. Len(w)
    BY <1>1
  <2>. QED
    BY <1>1, <2>1 DEF Members
<1>5. Members(w) = Members(u) \cup {i}
  BY <1>2, <1>3, <1>4
<1>. QED
  BY <1>1, <1>5 DEF w

\* What an acquisition, an erasure and growth do to the set of loose slots.
LEMMA AcquiredLoose ==
    ASSUME NEW t, NEW u, NEW v, Lists(t, u, v), BoundsHold(t), NEW i \in Members(v)
    PROVE  /\ Of(Acquired(t, i), "loose") = Of(t, "loose") \cup {i}
           /\ Acquired(t, i).capacity = t.capacity /\ i \notin Of(t, "loose") /\ i \in Slots(t.capacity)
<1>. DEFINE r == Acquired(t, i)
            w == Abstract!Without(v, i)
<1>1. Lists(r, <<i>> \o u, w)
  BY AcquiredFacts
<1>. HIDE DEF r
<1>2. /\ u \in Seq(Nat) /\ v \in Seq(Nat) /\ Distinct(v) /\ Len(u) \in Nat /\ Len(v) \in Nat
      /\ Of(t, "loose") = Members(u) /\ Members(u) \cup Members(v) = Slots(t.capacity)
      /\ Members(u) \cap Members(v) = {} /\ Slots(t.capacity) \in SUBSET Nat
      /\ t.capacity = Len(u) + Len(v)
  BY ListsFacts
<1>3. i \in Nat
  BY <1>2
<1>4. Members(<<i>> \o u) = Members(u) \cup {i} /\ Len(<<i>> \o u) = Len(u) + 1
  BY <1>2, <1>3, MembersBefore
<1>5. Of(r, "loose") = Members(<<i>> \o u) /\ r.capacity = Len(<<i>> \o u) + Len(w)
  BY <1>1, ListsFacts
<1>6. Len(w) = Len(v) - 1
  <2>1. PICK p \in 1 .. Len(v) : v[p] = i
    BY DEF Members
  <2>2. IsWithout(v, p)
    BY <1>2, WithoutFacts
  <2>. QED
    BY <2>1, <2>2 DEF IsWithout
<1>. HIDE DEF w
<1>. QED
  BY <1>2, <1>4, <1>5, <1>6 DEF r

\* An erasure takes one slot away.
LEMMA ErasedLoose ==
    ASSUME NEW t, NEW u, NEW v, Lists(t, u, v), BoundsHold(t), NEW i \in Members(u)
    PROVE  /\ Of(Erased(t, i), "loose") = Of(t, "loose") \ {i}
           /\ Erased(t, i).capacity = t.capacity
<1>. DEFINE r == Erased(t, i)
            w == Abstract!Without(u, i)
<1>1. Lists(r, w, <<i>> \o v)
  BY ErasedFacts
<1>. HIDE DEF r
<1>2. /\ u \in Seq(Nat) /\ v \in Seq(Nat) /\ Distinct(u) /\ Len(u) \in Nat /\ Len(v) \in Nat
      /\ Of(t, "loose") = Members(u) /\ Members(u) \cup Members(v) = Slots(t.capacity)
      /\ Slots(t.capacity) \in SUBSET Nat
      /\ t.capacity = Len(u) + Len(v)
  BY ListsFacts
<1>3. i \in Nat
  BY <1>2
<1>4. Len(<<i>> \o v) = Len(v) + 1
  BY <1>2, <1>3, MembersBefore
<1>5. Of(r, "loose") = Members(w) /\ r.capacity = Len(w) + Len(<<i>> \o v)
  BY <1>1, ListsFacts
<1>6. Len(w) = Len(u) - 1 /\ Members(w) = Members(u) \ {i}
  <2>1. PICK p \in 1 .. Len(u) : u[p] = i
    BY DEF Members
  <2>2. IsWithout(u, p)
    BY <1>2, WithoutFacts
  <2>. QED
    BY <2>1, <2>2 DEF IsWithout
<1>. HIDE DEF w
<1>. QED
  BY <1>2, <1>4, <1>5, <1>6 DEF r

\* Growth adds empty slots only.
LEMMA GrownLoose ==
    ASSUME NEW t, NEW u, NEW v, Lists(t, u, v), BoundsHold(t), NEW n \in 1 .. Limit, n > t.capacity
    PROVE  LET w == v \o Abstract!Ascending(Slots(n) \ Slots(t.capacity)) IN
           /\ Lists(Grown(t, n), u, w) /\ BoundsHold(Grown(t, n))
           /\ Grown(t, n).capacity = n /\ Of(Grown(t, n), "loose") = Of(t, "loose")
           /\ Members(w) = Slots(n) \ Of(t, "loose")
<1>. DEFINE w == v \o Abstract!Ascending(Slots(n) \ Slots(t.capacity))
            r == Grown(t, n)
<1>1. n \in Nat
  OBVIOUS
<1>2. Lists(r, u, w) /\ r.capacity = n /\ BoundsHold(r)
  BY <1>1, GrownFacts, GrownBounds
<1>. HIDE DEF w, r
<1>3. Of(t, "loose") = Members(u)
  BY ListsFacts
<1>4. /\ Of(r, "loose") = Members(u) /\ Members(u) \cup Members(w) = Slots(n)
      /\ Members(u) \cap Members(w) = {}
  BY <1>2, ListsFacts
<1>. QED
  BY <1>2, <1>3, <1>4 DEF w, r

\* What the invariant says between operations.
LEMMA CollectionFacts ==
    ASSUME CollectionInv
    PROVE  /\ SlotsInv /\ StorageSound(storage) /\ StorageInUse
           /\ Keeps(slot, storage, object, payload, Live)
           /\ lock = "none" => Live = Of(index, "loose")
           /\ lock' = "none" => Live' = Of(index', "loose")
           /\ index.capacity \in Nat /\ index.capacity \in 0 .. Limit
           /\ SlotCapacity(storage) \in Nat
           /\ payload \in [Slots(Limit) -> Payloads \cup {None}]
<1>1. SlotsInv /\ StorageSound(storage) /\ StorageInUse /\ Keeps(slot, storage, object, payload, Live)
  BY DEF CollectionInv
<1>2. /\ lock = "none" => Live = Of(index, "loose")
      /\ lock' = "none" => Live' = Of(index', "loose")
  BY DEF Live
<1>3. SlotCapacity(storage) \in Nat
  BY <1>1 DEF StorageSound, SlotCapacity
<1>. QED
  BY <1>1, <1>2, <1>3, InvFacts

\* Nothing is there at first.
LEMMA CollectionInitInv == CollectionInit => CollectionInv
<1>. SUFFICES ASSUME CollectionInit PROVE CollectionInv
  OBVIOUS
<1>1. Init /\ slot = << >> /\ storage = NoStorage /\ object = NoObject
  BY DEF CollectionInit
<1>2. SlotsInv
  BY <1>1, SlotsInitInv
<1>3. index = Uninitialised /\ index.capacity = 0 /\ lock = "none"
  BY <1>1 DEF Init, Uninitialised
<1>4. Live = {}
  <2>1. Of(index, "loose") = {}
    BY <1>3, UninitialisedFacts, ListsFacts, NoneListed
  <2>. QED
    BY <1>3, <2>1 DEF Live
<1>5. IsData(slot, 0) /\ Keeps(slot, storage, object, payload, Live)
  BY <1>1, <1>4, NothingKept
<1>6. StorageSound(storage) /\ StorageInUse
  BY <1>1, <1>3 DEF StorageSound, StorageInUse, NoStorage
<1>7. 0 \in 0 .. Limit /\ index.capacity <= 0
  BY <1>3, UnorderedAssumption
<1>. QED
  BY <1>2, <1>5, <1>6, <1>7 DEF CollectionInv

\* initialise() destroys what the collection held, and starts again.
LEMMA BeginStep ==
    ASSUME CollectionInv, NEW n \in 1 .. Limit, Begin(n)
    PROVE  CollectionInv'
<1>1. /\ lock = "none" /\ lock' = "none" /\ index' = Fresh(n)
      /\ payload' = [i \in Slots(Limit) |-> None]
      /\ slot' = Appended(<< >>, n) /\ storage' = Initialised(BufferSlots, 1)
      /\ object' = Deconstructed(object, slot, Constructed(slot), None)
  BY DEF Begin, Initialise
<1>2. PICK m \in 0 .. Limit : index.capacity <= m /\ IsData(slot, m)
  BY DEF CollectionInv
<1>3. object' = NoObject
  BY <1>1, <1>2, AllDestroyed, CollectionFacts
<1>4. SlotsInv'
  BY <1>1, EmptiedDomain, CollectionFacts
<1>5. index'.capacity = n /\ Of(index', "loose") = {}
  <2>1. Lists(index', << >>, Abstract!Ascending(Slots(n)))
    BY <1>1, FreshBounds
  <2>2. Of(index', "loose") = {}
    BY <2>1, ListsFacts, NoneListed
  <2>. QED
    BY <1>1, <2>2 DEF Fresh, Uninitialised
<1>6. Live' = {}
  BY <1>1, <1>5 DEF Live
<1>7. /\ 0 \in 0 .. Limit /\ n \in 0 .. Limit /\ ~ n <= 0 /\ n \in Nat
      /\ IsData(<< >>, 0) /\ Keeps(<< >>, storage', object', payload', {})
  BY <1>3, NothingKept, UnorderedAssumption
<1>8. IsData(slot', n)
  BY <1>1, <1>7, AppendedData
<1>9. StorageSound(storage') /\ StorageInUse' /\ SlotCapacity(storage') \in Nat
  BY <1>1, BufferAssumption DEF StorageSound, StorageInUse, SlotCapacity, Initialised
<1>10. Keeps(slot', storage', object', payload', {})
  <2>1. SlotCapacity(storage') <= SlotCapacity(storage')
    BY <1>9
  <2>. QED
    BY <1>1, <1>7, <1>9, <2>1, AppendedKeeps
<1>11. n <= n
  BY <1>7
<1>. QED
  BY <1>4, <1>5, <1>6, <1>7, <1>8, <1>9, <1>10, <1>11 DEF CollectionInv

\* deallocate() destroys what the collection held.
LEMMA DeallocateObjectsStep ==
    ASSUME CollectionInv, Deallocate
    PROVE  CollectionInv'
<1>1. /\ Shutdown /\ lock' = "none" /\ index' = Uninitialised
      /\ slot' = << >> /\ storage' = NoStorage
      /\ object' = Deconstructed(object, slot, Constructed(slot), None)
  BY DEF Deallocate, Shutdown, Ready
<1>2. PICK m \in 0 .. Limit : index.capacity <= m /\ IsData(slot, m)
  BY DEF CollectionInv
<1>3. object' = NoObject
  BY <1>1, <1>2, AllDestroyed, CollectionFacts
<1>4. SlotsInv'
  BY <1>1, ShutdownStep, CollectionFacts
<1>5. Live' = {} /\ index'.capacity = 0
  <2>1. Of(index', "loose") = {}
    BY <1>1, UninitialisedFacts, ListsFacts, NoneListed
  <2>. QED
    BY <1>1, <2>1 DEF Live, Uninitialised
<1>6. IsData(slot', 0) /\ Keeps(slot', storage', object', payload', Live')
  BY <1>1, <1>3, <1>5, NothingKept
<1>7. StorageSound(storage') /\ StorageInUse'
  BY <1>1, <1>5 DEF StorageSound, StorageInUse, NoStorage
<1>8. 0 \in 0 .. Limit /\ index'.capacity <= 0
  BY <1>5, UnorderedAssumption
<1>. QED
  BY <1>4, <1>6, <1>7, <1>8 DEF CollectionInv

\* The domain and the slot data a slot is taken of, grown when no slot is empty.
LEMMA RoomFacts ==
    ASSUME CollectionInv, lock = "none", index.capacity # 0,
           NEW n \in 1 .. Limit, NEW i \in Slots(n), Room(n, i)
    PROVE  LET t == IF n = index.capacity THEN index ELSE Grown(index, n) IN
           /\ \E u, v : Lists(t, u, v) /\ BoundsHold(t) /\ i \in Members(v)
           /\ Of(t, "loose") = Of(index, "loose") /\ t.capacity = n
<1>. DEFINE L == Listed(index, "loose")
            E == Listed(index, "empty")
            t == IF n = index.capacity THEN index ELSE Grown(index, n)
<1>1. /\ Lists(index, L, E) /\ BoundsHold(index) /\ index.capacity \in Nat
  BY InvFacts, CollectionFacts
<1>2. \/ index.head["empty"] # -1 /\ n = index.capacity /\ i = index.head["empty"]
      \/ n > index.capacity /\ i = index.capacity
  BY DEF Room
<1>. HIDE DEF L, E
<1>3. CASE index.head["empty"] # -1 /\ n = index.capacity /\ i = index.head["empty"]
  <2>1. index.head["empty"] = First(E) /\ E \in Seq(Nat)
    BY <1>1, ListsFacts DEF Lists, IsList
  <2>2. Len(E) # 0 /\ i = E[1]
    BY <1>3, <2>1 DEF First
  <2>3. 1 \in 1 .. Len(E)
    BY <2>1, <2>2
  <2>4. i \in Members(E)
    BY <2>2, <2>3 DEF Members
  <2>. QED
    BY <1>1, <1>3, <2>4
<1>4. CASE n > index.capacity /\ i = index.capacity
  <2>1. n # index.capacity
    BY <1>1, <1>4
  <2>. DEFINE w == E \o Abstract!Ascending(Slots(n) \ Slots(index.capacity))
  <2>2. /\ Lists(Grown(index, n), L, w) /\ BoundsHold(Grown(index, n))
        /\ Grown(index, n).capacity = n /\ Of(Grown(index, n), "loose") = Of(index, "loose")
        /\ Members(w) = Slots(n) \ Of(index, "loose")
    BY <1>1, <1>4, GrownLoose
  <2>. HIDE DEF w
  <2>3. i \notin Of(index, "loose")
    <3>1. i \notin Slots(index.capacity)
      BY <1>1, <1>4 DEF Slots
    <3>. QED
      BY <1>1, <3>1, ListsFacts
  <2>. QED
    BY <2>1, <2>2, <2>3
<1>. QED
  BY <1>2, <1>3, <1>4

\* emplace() and acquire(): a slot is mapped if it has to be, and its object made.
LEMMA EmplaceObjectStep ==
    ASSUME CollectionInv, NEW n \in 1 .. Limit, NEW i \in Slots(n), NEW item \in Payloads,
           Emplace(n, i, item)
    PROVE  CollectionInv'
<1>. DEFINE more == Appended(slot, n)
            data == more[i]
<1>1. /\ Acquire(i, item) \/ ReserveAndAcquire(n, i, item)
      /\ IF data.state = "Mapped" THEN storage' = storage ELSE storage' \in map_index(storage, data.at)
      /\ index_ptr(storage', data.at) # -1
      /\ slot' = [more EXCEPT ![i].state = "Constructed"]
      /\ object' = [object EXCEPT ![data.at] = item]
  BY DEF Emplace
<1>2. /\ lock = "none" /\ lock' = "none" /\ index.capacity # 0
      /\ payload' = [payload EXCEPT ![i] = item]
  BY <1>1 DEF Acquire, ReserveAndAcquire, Ready
<1>. HIDE DEF more, data
<1>3. /\ SlotsInv /\ StorageSound(storage) /\ Live = Of(index, "loose")
      /\ Live' = Of(index', "loose") /\ index.capacity \in Nat
      /\ payload \in [Slots(Limit) -> Payloads \cup {None}]
      /\ Keeps(slot, storage, object, payload, Live) /\ SlotCapacity(storage) \in Nat
      /\ storage.slots # 0 /\ storage.directory # 0
  BY <1>2, CollectionFacts DEF StorageInUse
<1>4. PICK m \in 0 .. Limit : index.capacity <= m /\ IsData(slot, m)
  BY DEF CollectionInv
<1>5. PICK size \in 0 .. Limit : /\ n <= size /\ m <= size /\ IsData(more, size)
                                 /\ Slots(n) \subseteq Slots(size)
  <2>1. /\ (IF m < n THEN n ELSE m) \in 0 .. Limit /\ n <= (IF m < n THEN n ELSE m)
        /\ IsData(more, IF m < n THEN n ELSE m)
    BY <1>4, AppendedData DEF more
  <2>2. m \in Nat /\ n \in Nat
    BY UnorderedAssumption
  <2>3. m <= (IF m < n THEN n ELSE m)
    BY <2>2
  <2>4. \A k \in 0 .. Limit : n <= k => Slots(n) \subseteq Slots(k)
    BY <2>2, UnorderedAssumption DEF Slots
  <2>. QED
    BY <2>1, <2>3, <2>4
<1>6. i \in Slots(size) /\ data.at \in Nat
  <2>1. i \in Slots(size)
    BY <1>5
  <2>2. data.at \in Slots(size)
    BY <1>5, <2>1 DEF IsData, data
  <2>. QED
    BY <2>1, <2>2 DEF Slots
<1>7. /\ StorageSound(storage') /\ storage'.slots # 0 /\ storage'.directory # 0
      /\ SlotCapacity(storage') \in Nat /\ SlotCapacity(storage) <= SlotCapacity(storage')
  <2>1. CASE storage' = storage
    BY <1>3, <2>1
  <2>2. CASE storage' \in map_index(storage, data.at)
    BY <1>3, <2>2, MappedFacts
  <2>. QED
    BY <1>1, <2>1, <2>2
<1>8. data.at < SlotCapacity(storage')
  BY <1>1 DEF index_ptr
<1>9. /\ Live' = Live \cup {i} /\ i \notin Live /\ index'.capacity <= size
      /\ SlotsInv'
  <2>. DEFINE L == Listed(index, "loose")
              E == Listed(index, "empty")
  <2>1. Lists(index, L, E) /\ BoundsHold(index) /\ Of(index, "empty") = Members(E)
    BY <1>3, InvFacts
  <2>. HIDE DEF L, E
  <2>2. CASE Acquire(i, item)
    <3>1. index' = Acquired(index, i) /\ i \in Members(E)
      BY <2>1, <2>2 DEF Acquire
    <3>2. /\ Of(index', "loose") = Of(index, "loose") \cup {i} /\ index'.capacity = index.capacity
          /\ i \notin Of(index, "loose")
      BY <2>1, <3>1, AcquiredLoose
    <3>3. index'.capacity <= size
      BY <1>3, <1>4, <1>5, <3>2
    <3>4. i \in Slots(Limit)
      BY <1>5, UnorderedAssumption DEF Slots
    <3>5. SlotsInv'
      BY <1>3, <2>2, <3>4, AcquireStep
    <3>. QED
      BY <1>3, <3>2, <3>3, <3>5
  <2>3. CASE ReserveAndAcquire(n, i, item)
    <3>1. /\ index' = Acquired(Grown(index, n), i) /\ n > index.capacity
          /\ i \in index.capacity .. n - 1 \/ i = index.capacity
      BY <2>3 DEF ReserveAndAcquire
    <3>. DEFINE w == E \o Abstract!Ascending(Slots(n) \ Slots(index.capacity))
    <3>2. /\ Lists(Grown(index, n), L, w) /\ BoundsHold(Grown(index, n))
          /\ Grown(index, n).capacity = n /\ Of(Grown(index, n), "loose") = Of(index, "loose")
          /\ Members(w) = Slots(n) \ Of(index, "loose")
      <4>1. n > index.capacity
        BY <3>1
      <4>2. Lists(index, L, E) /\ BoundsHold(index)
        BY <2>1
      <4>. QED
        BY <4>1, <4>2, GrownLoose
    <3>. HIDE DEF w
    <3>3. i \notin Of(index, "loose")
      <4>1. i \notin Slots(index.capacity)
        BY <1>3, <3>1 DEF Slots
      <4>. QED
        BY <2>1, <4>1, ListsFacts
    <3>4. i \in Members(w)
      BY <3>2, <3>3
    <3>5. Of(index', "loose") = Of(index, "loose") \cup {i} /\ index'.capacity = n
      BY <3>1, <3>2, <3>4, AcquiredLoose
    <3>6. SlotsInv'
      BY <1>3, <2>3, ReserveAndAcquireStep
    <3>. QED
      BY <1>3, <1>5, <3>3, <3>5, <3>6
  <2>. QED
    BY <1>1, <2>2, <2>3
<1>10. Keeps(more, storage', object, payload, Live)
  BY <1>3, <1>4, <1>7, AppendedKeeps DEF more
<1>11. IsData(slot', size) /\ Keeps(slot', storage', object', payload', Live \cup {i})
  <2>1. more[i].at < SlotCapacity(storage')
    BY <1>8 DEF data
  <2>2. slot' = [more EXCEPT ![i].state = "Constructed"] /\ object' = [object EXCEPT ![more[i].at] = item]
    BY <1>1 DEF data
  <2>3. /\ IsData([more EXCEPT ![i].state = "Constructed"], size)
        /\ Keeps([more EXCEPT ![i].state = "Constructed"], storage',
                 [object EXCEPT ![more[i].at] = item], [payload EXCEPT ![i] = item], Live \cup {i})
    BY <1>3, <1>5, <1>6, <1>9, <1>10, <2>1, ConstructedKeeps
  <2>. QED
    BY <1>2, <2>2, <2>3
<1>12. StorageInUse'
  BY <1>7 DEF StorageInUse
<1>. QED
  BY <1>7, <1>9, <1>11, <1>12 DEF CollectionInv

\* A slot that could not be mapped is empty again, and keeps nothing.
LEMMA EmplaceFailsStep ==
    ASSUME CollectionInv, NEW n \in 1 .. Limit, NEW i \in Slots(n), EmplaceFails(n, i)
    PROVE  CollectionInv'
<1>. DEFINE more == Appended(slot, n)
            t == IF n = index.capacity THEN index ELSE Grown(index, n)
            r == Acquired(t, i)
<1>1. /\ lock = "none" /\ lock' = "none" /\ index.capacity # 0 /\ Room(n, i)
      /\ storage' \in map_index(storage, more[i].at)
      /\ index' = Erased(r, i) /\ slot' = more /\ object' = object /\ payload' = payload
  BY DEF EmplaceFails, Ready, Erased
<1>. HIDE DEF more, t, r
<1>3. /\ SlotsInv /\ StorageSound(storage) /\ Live = Of(index, "loose")
      /\ Live' = Of(index', "loose") /\ index.capacity \in Nat
      /\ payload \in [Slots(Limit) -> Payloads \cup {None}]
      /\ Keeps(slot, storage, object, payload, Live) /\ SlotCapacity(storage) \in Nat
      /\ storage.slots # 0 /\ storage.directory # 0
  BY <1>1, CollectionFacts DEF StorageInUse
<1>4. PICK m \in 0 .. Limit : index.capacity <= m /\ IsData(slot, m)
  BY DEF CollectionInv
<1>5. /\ StorageSound(storage') /\ storage'.slots # 0 /\ storage'.directory # 0
      /\ SlotCapacity(storage') \in Nat /\ SlotCapacity(storage) <= SlotCapacity(storage')
  BY <1>1, <1>3, MappedFacts
<1>6. /\ \E u, v : Lists(t, u, v) /\ BoundsHold(t) /\ i \in Members(v)
      /\ Of(t, "loose") = Of(index, "loose") /\ t.capacity = n
  BY <1>1, RoomFacts DEF t
<1>7. PICK u, v : Lists(t, u, v) /\ BoundsHold(t) /\ i \in Members(v)
  BY <1>6
<1>. DEFINE x == <<i>> \o u
            w == Abstract!Without(v, i)
<1>8. /\ Lists(r, x, w) /\ BoundsHold(r)
      /\ Of(r, "loose") = Of(t, "loose") \cup {i} /\ r.capacity = n /\ i \notin Of(t, "loose")
  BY <1>6, <1>7, AcquiredFacts, AcquiredLoose DEF r
<1>. HIDE DEF x, w
<1>9. i \in Members(x)
  BY <1>8, ListsFacts
<1>10. /\ Lists(index', Abstract!Without(x, i), <<i>> \o w) /\ BoundsHold(index')
       /\ Of(index', "loose") = Of(r, "loose") \ {i} /\ index'.capacity = n
  BY <1>1, <1>8, <1>9, ErasedFacts, ErasedLoose
<1>11. SlotsInv'
  BY <1>1, <1>3, <1>10, InvAfter
<1>12. Live' = Live
  BY <1>3, <1>6, <1>8, <1>10
<1>13. Keeps(slot', storage', object', payload', Live')
  BY <1>1, <1>3, <1>4, <1>5, <1>12, AppendedKeeps DEF more
<1>14. \E size \in 0 .. Limit : n <= size /\ IsData(slot', size)
  BY <1>1, <1>4, AppendedData DEF more
<1>15. StorageInUse'
  BY <1>5 DEF StorageInUse
<1>. QED
  BY <1>5, <1>10, <1>11, <1>13, <1>14, <1>15 DEF CollectionInv

\* Slot data for which there was no metadata changes nothing.
LEMMA GrowFailsStep ==
    ASSUME CollectionInv, NEW n \in 1 .. Limit, GrowFails(n)
    PROVE  CollectionInv'
<1>1. /\ slot' = Appended(slot, n) /\ n > index.capacity
      /\ index' = index /\ lock' = lock /\ source' = source /\ target' = target
      /\ payload' = payload /\ storage' = storage /\ object' = object
  BY DEF GrowFails
<1>2. PICK m \in 0 .. Limit : index.capacity <= m /\ IsData(slot, m)
  BY DEF CollectionInv
<1>3. /\ SlotsInv /\ StorageSound(storage) /\ StorageInUse /\ index.capacity \in Nat
      /\ Keeps(slot, storage, object, payload, Live)
      /\ SlotCapacity(storage) \in Nat /\ SlotCapacity(storage) <= SlotCapacity(storage)
  <2>1. SlotCapacity(storage) \in Nat
    BY CollectionFacts
  <2>2. SlotCapacity(storage) <= SlotCapacity(storage)
    BY <2>1
  <2>. QED
    BY <2>1, <2>2, CollectionFacts
<1>4. SlotsInv' /\ Live' = Live
  BY <1>1, <1>3 DEF SlotsInv, PackFollows, Live
<1>5. Keeps(slot', storage', object', payload', Live')
  BY <1>1, <1>2, <1>3, <1>4, AppendedKeeps
<1>6. \E size \in 0 .. Limit : index'.capacity <= size /\ IsData(slot', size)
  <2>1. PICK size \in 0 .. Limit : n <= size /\ IsData(slot', size)
    BY <1>1, <1>2, AppendedData
  <2>2. index'.capacity <= size
    BY <1>1, <1>3, <2>1
  <2>. QED
    BY <2>1, <2>2
<1>. QED
  BY <1>1, <1>3, <1>4, <1>5, <1>6 DEF CollectionInv, StorageInUse

\* erase() destroys one object.
LEMMA EraseObjectStep ==
    ASSUME CollectionInv, NEW i \in Slots(Limit), EraseObject(i)
    PROVE  CollectionInv'
<1>1. /\ Erase(i) /\ lock = "none" /\ lock' = "none" /\ i \in Of(index, "loose")
      /\ index' = Erased(index, i) /\ payload' = [payload EXCEPT ![i] = None]
      /\ object' = Deconstructed(object, slot, {i}, None)
      /\ slot' = [slot EXCEPT ![i].state = "Mapped"] /\ storage' = storage
  BY DEF EraseObject, Erase, Ready, Erased
<1>2. PICK m \in 0 .. Limit : index.capacity <= m /\ IsData(slot, m)
  BY DEF CollectionInv
<1>3. /\ SlotsInv /\ StorageSound(storage) /\ StorageInUse
      /\ Live = Of(index, "loose") /\ Live' = Of(index', "loose")
      /\ Keeps(slot, storage, object, payload, Live)
      /\ payload \in [Slots(Limit) -> Payloads \cup {None}]
  BY <1>1, CollectionFacts
<1>4. SlotsInv'
  BY <1>1, <1>3, EraseStep
<1>5. Of(index', "loose") = Of(index, "loose") \ {i} /\ index'.capacity = index.capacity
  <2>1. /\ Lists(index, Listed(index, "loose"), Listed(index, "empty")) /\ BoundsHold(index)
        /\ i \in Members(Listed(index, "loose"))
    BY <1>1, <1>3, InvFacts
  <2>. QED
    BY <1>1, <2>1, ErasedLoose
<1>6. IsData(slot', m) /\ Keeps(slot', storage', object', payload', Live')
  <2>1. /\ IsData([slot EXCEPT ![i].state = "Mapped"], m)
        /\ Keeps([slot EXCEPT ![i].state = "Mapped"], storage, Deconstructed(object, slot, {i}, None),
                 [payload EXCEPT ![i] = None], Live \ {i})
    BY <1>1, <1>2, <1>3, ErasedKeeps
  <2>2. Live' = Live \ {i}
    BY <1>3, <1>5
  <2>. QED
    BY <1>1, <2>1, <2>2
<1>. QED
  BY <1>1, <1>2, <1>3, <1>4, <1>5, <1>6 DEF CollectionInv, StorageInUse

\* A slot that moves down gives its object to the slot at its rank.
LEMMA PackStep == CollectionInv /\ Pack => CollectionInv'
<1>. SUFFICES ASSUME CollectionInv, Pack PROVE CollectionInv'
  OBVIOUS
<1>. USE UnorderedAssumption
<1>. DEFINE S == Of(index, "loose")
            Rest(i) == {j \in S : j >= i}
<1>1. /\ SlotsInv /\ StorageSound(storage) /\ StorageInUse
      /\ Keeps(slot, storage, object, payload, Live)
      /\ payload \in [Slots(Limit) -> Payloads \cup {None}] /\ index.capacity \in Nat
  BY CollectionFacts
<1>2. PICK m \in 0 .. Limit : index.capacity <= m /\ IsData(slot, m)
  BY DEF CollectionInv
<1>3. /\ Lists(index, Listed(index, "loose"), Listed(index, "empty"))
      /\ S \in SUBSET Nat /\ IsFiniteSet(S) /\ Cardinality(S) = index.count["loose"]
      /\ S \subseteq Slots(index.capacity) /\ DOMAIN index.meta = Slots(index.capacity)
      /\ \A i \in S : i \in Nat
  <2>1. /\ Lists(index, Listed(index, "loose"), Listed(index, "empty"))
        /\ S = Members(Listed(index, "loose"))
    BY <1>1, InvFacts
  <2>2. /\ IsFiniteSet(S) /\ Cardinality(S) = index.count["loose"]
        /\ S \subseteq Slots(index.capacity) /\ DOMAIN index.meta = Slots(index.capacity)
        /\ Slots(index.capacity) \in SUBSET Nat
    BY <2>1, ListsFacts
  <2>. HIDE DEF S
  <2>3. S \in SUBSET Nat
    BY <2>2
  <2>. QED
    BY <2>1, <2>2, <2>3
<1>4. lock = "on_move_payload" => Live = Slots(target) \cup Rest(source)
  BY DEF Live
<1>5. lock' = "on_move_payload" /\ index' = index => Live' = Slots(target') \cup Rest(source')
  BY DEF Live
<1>6. \A i : i \in S <=> i \in Slots(index.capacity) /\ index.meta[i].state = "loose"
  BY <1>3 DEF Of
<1>. HIDE DEF S
<1>7. CASE PackBegins /\ UNCHANGED <<slot, storage, object>>
  <2>1. /\ lock = "none" /\ lock' = "on_move_payload" /\ source' = 0 /\ target' = 0
        /\ index' = index /\ payload' = payload /\ slot' = slot /\ storage' = storage /\ object' = object
    BY <1>7 DEF PackBegins, Ready
  <2>2. SlotsInv'
    BY <1>1, <1>7, PackBeginsStep
  <2>3. Live' = S /\ Live = S
    <3>0. \A j \in S : j >= 0
      BY <1>3
    <3>1. Slots(0) = {} /\ Rest(0) = S
      <4>1. Slots(0) = {}
        BY DEF Slots
      <4>2. Rest(0) = S
        BY <3>0
      <4>. QED
        BY <4>1, <4>2
    <3>2. Live' = Slots(0) \cup Rest(0)
      BY <1>5, <2>1
    <3>. QED
      BY <2>1, <3>1, <3>2 DEF Live, S
  <2>. QED
    BY <1>1, <1>2, <2>1, <2>2, <2>3 DEF CollectionInv, StorageInUse
<1>8. CASE PackPasses /\ UNCHANGED <<slot, storage, object>>
  <2>1. /\ lock = "on_move_payload" /\ lock' = lock /\ target < index.count["loose"]
        /\ \/ index.meta[source].state # "loose" /\ target' = target
           \/ index.meta[source].state = "loose" /\ source = target /\ target' = target + 1
        /\ source' = source + 1 /\ index' = index /\ payload' = payload
        /\ slot' = slot /\ storage' = storage /\ object' = object
    BY <1>8 DEF PackPasses, Packing
  <2>2. SlotsInv'
    BY <1>1, <1>8, PackPassesStep
  <2>3. source \in Nat /\ target \in Nat /\ source < index.capacity
    BY <1>1, <2>1, PackFacts
  <2>4. Live' = Live
    <3>1. Live = Slots(target) \cup Rest(source) /\ Live' = Slots(target') \cup Rest(source + 1)
      BY <1>4, <1>5, <2>1
    <3>2. source \in S <=> index.meta[source].state = "loose"
      BY <1>1, <1>6, <2>3 DEF Slots
    <3>3. CASE index.meta[source].state # "loose" /\ target' = target
      <4>1. \A j \in S : j >= source + 1 <=> j >= source
        BY <1>3, <2>3, <3>2, <3>3
      <4>2. Rest(source + 1) = Rest(source)
        BY <4>1
      <4>. QED
        BY <3>1, <3>3, <4>2
    <3>4. CASE index.meta[source].state = "loose" /\ source = target /\ target' = target + 1
      <4>1. \A j \in S : j >= source <=> (j >= source + 1 \/ j = source)
        BY <1>3, <2>3
      <4>2. Rest(source) = Rest(source + 1) \cup {source}
        BY <3>2, <3>4, <4>1
      <4>3. Slots(target + 1) = Slots(target) \cup {target}
        BY <2>3 DEF Slots
      <4>. QED
        BY <3>1, <3>4, <4>2, <4>3
    <3>. QED
      BY <2>1, <3>3, <3>4
  <2>. QED
    BY <1>1, <1>2, <2>1, <2>2, <2>4 DEF CollectionInv, StorageInUse
<1>9. CASE PackMoves /\ slot' = Traded(slot, source, target) /\ UNCHANGED <<storage, object>>
  <2>1. /\ lock = "on_move_payload" /\ lock' = lock /\ target < index.count["loose"]
        /\ index.meta[source].state = "loose" /\ source # target
        /\ payload' = [payload EXCEPT ![target] = payload[source], ![source] = payload[target]]
        /\ source' = source + 1 /\ target' = target + 1 /\ index' = index
        /\ slot' = Traded(slot, source, target) /\ storage' = storage /\ object' = object
    BY <1>9 DEF PackMoves, Packing
  <2>2. SlotsInv'
    BY <1>1, <1>9, PackMovesStep
  <2>3. source \in Nat /\ target \in Nat /\ source < index.capacity /\ target <= source
    BY <1>1, <2>1, PackFacts
  <2>4. target < source
    BY <2>1, <2>3
  <2>5. source \in S
    BY <1>1, <1>6, <2>1, <2>3 DEF Slots
  <2>6. Live = Slots(target) \cup Rest(source) /\ Live' = Slots(target + 1) \cup Rest(source + 1)
    BY <1>4, <1>5, <2>1
  <2>7. source \in Live /\ target \notin Live
    <3>1. source \in Rest(source)
      BY <2>3, <2>5
    <3>2. target \notin Rest(source) /\ target \notin Slots(target)
      BY <2>3, <2>4 DEF Slots
    <3>. QED
      BY <2>6, <3>1, <3>2
  <2>8. Live' = (Live \ {source}) \cup {target}
    <3>1. \A j \in S : j >= source + 1 <=> j >= source /\ j # source
      BY <1>3, <2>3
    <3>2. Rest(source + 1) = Rest(source) \ {source}
      BY <3>1
    <3>3. Slots(target + 1) = Slots(target) \cup {target} /\ source \notin Slots(target)
      BY <2>3, <2>4 DEF Slots
    <3>. QED
      BY <2>6, <3>2, <3>3
  <2>9. target \in Slots(m)
    BY <1>1, <1>2, <2>3, <2>4 DEF Slots
  <2>10. IsData(slot', m) /\ Keeps(slot', storage', object', payload', Live')
    <3>1. /\ IsData(Traded(slot, source, target), m)
          /\ Keeps(Traded(slot, source, target), storage, object,
                   [payload EXCEPT ![target] = payload[source], ![source] = payload[target]],
                   (Live \ {source}) \cup {target})
      BY <1>1, <1>2, <2>7, <2>9, TradedKeeps
    <3>. QED
      BY <2>1, <2>8, <3>1
  <2>. QED
    BY <1>1, <1>2, <2>1, <2>2, <2>10 DEF CollectionInv, StorageInUse
<1>10. CASE PackEnds /\ UNCHANGED <<slot, storage, object>>
  <2>1. /\ lock = "on_move_payload" /\ lock' = "none" /\ target = index.count["loose"]
        /\ index' = Packed(index) /\ payload' = payload
        /\ slot' = slot /\ storage' = storage /\ object' = object
    BY <1>10 DEF PackEnds
  <2>2. SlotsInv'
    BY <1>1, <1>10, PackEndsStep
  <2>3. source \in Nat /\ target = RankOf(index, source)
    BY <1>1, <2>1, PackFacts
  <2>4. Rest(source) = {}
    <3>. DEFINE T == {j \in S : j < source}
    <3>1. Cardinality(T) = Cardinality(S) /\ T \subseteq S
      BY <1>3, <2>1, <2>3 DEF RankOf, S
    <3>2. T = S
      <4>. HIDE DEF T
      <4>. QED
        BY <1>3, <3>1, FS_Subset
    <3>3. \A j \in S : ~ j >= source
      BY <1>3, <2>3, <3>2
    <3>. QED
      BY <3>3
  <2>5. Live = Slots(index.count["loose"])
    BY <1>4, <2>1, <2>4
  <2>6. Live' = Slots(index.count["loose"]) /\ index'.capacity = index.capacity
    <3>. DEFINE n == Len(Listed(index, "loose"))
                a == Abstract!Ascending(Slots(n))
                b == Abstract!Ascending(Slots(index.capacity) \ Slots(n))
    <3>1. Lists(index', a, b) /\ index'.capacity = index.capacity
      BY <1>3, <2>1, PackedFacts
    <3>2. n \in Nat /\ index.count["loose"] = n
      BY <1>3, ListsFacts
    <3>. HIDE DEF n
    <3>3. Slots(n) \in SUBSET Nat /\ IsFiniteSet(Slots(n))
      BY <3>2, Intervals DEF Slots
    <3>4. Members(a) = Slots(n)
      BY <3>3, AscendingHead
    <3>. HIDE DEF a, b
    <3>5. Of(index', "loose") = Slots(n)
      BY <3>1, <3>4, ListsFacts
    <3>. QED
      BY <2>1, <3>1, <3>2, <3>5 DEF Live
  <2>. QED
    BY <1>1, <1>2, <2>1, <2>2, <2>5, <2>6 DEF CollectionInv, StorageInUse
<1>. QED
  BY <1>7, <1>8, <1>9, <1>10 DEF Pack

\* Every operation keeps the invariant.
LEMMA CollectionStep ==
    ASSUME CollectionInv, [CollectionNext]_collection_vars
    PROVE  CollectionInv'
<1>1. CASE CollectionNext
  BY <1>1, BeginStep, GrowFailsStep, EmplaceFailsStep, EmplaceObjectStep, EraseObjectStep, DeallocateObjectsStep,
     PackStep DEF CollectionNext
<1>2. CASE UNCHANGED collection_vars
  BY <1>2 DEF collection_vars, CollectionInv, SlotsInv, PackFollows, Live, StorageInUse
<1>. QED
  BY <1>1, <1>2

\* What the invariant says of objects and addresses.
LEMMA InvObjectsKept == CollectionInv => ObjectsKept
<1>. SUFFICES ASSUME CollectionInv PROVE ObjectsKept
  OBVIOUS
<1>1. PICK m \in 0 .. Limit : index.capacity <= m /\ IsData(slot, m)
  BY DEF CollectionInv
<1>2. /\ StorageSound(storage) /\ Keeps(slot, storage, object, payload, Live)
      /\ lock = "none" => Live = Of(index, "loose")
      /\ SlotCapacity(storage) \in Nat
  BY CollectionFacts
<1>3. /\ DOMAIN slot = Slots(m) /\ Slots(m) \subseteq Slots(Limit)
      /\ \A i \in Slots(m) : slot[i].at \in Slots(m) /\ slot[i].at \in Nat
      /\ \A a \in Slots(m) : \E i \in Slots(m) : slot[i].at = a
  <2>1. \A i \in Slots(m) : slot[i].at \in Slots(m)
    BY <1>1 DEF IsData
  <2>2. Slots(m) \subseteq Slots(Limit) /\ \A a \in Slots(m) : a \in Nat
    BY UnorderedAssumption DEF Slots
  <2>. QED
    BY <1>1, <2>1, <2>2 DEF IsData
<1>4. /\ Constructed(slot) = Live /\ Live \subseteq Slots(m) /\ DOMAIN object = Slots(Limit)
      /\ \A i \in Slots(m) :
            /\ slot[i].state # "Unmapped" => slot[i].at < SlotCapacity(storage)
            /\ object[slot[i].at] = IF i \in Live THEN payload[i] ELSE None
      /\ \A a \in Slots(Limit) \ Slots(m) : object[a] = None
      /\ \A i \in Live : payload[i] \in Payloads /\ payload[i] # None
  BY <1>2, <1>3, UnorderedAssumption DEF Keeps, Constructed
<1>. HIDE DEF Live
<1>5. \A a \in Slots(Limit) : object[a] # None => \E i \in Live : slot[i].at = a
  <2>. SUFFICES ASSUME NEW a \in Slots(Limit), object[a] # None PROVE \E i \in Live : slot[i].at = a
    OBVIOUS
  <2>1. a \in Slots(m)
    BY <1>4
  <2>2. PICK i \in Slots(m) : slot[i].at = a
    BY <1>3, <2>1
  <2>. QED
    BY <1>4, <2>2
<1>6. \A i \in Live : slot[i].at \in Slots(Limit) /\ object[slot[i].at] # None
  BY <1>3, <1>4
<1>7. {a \in DOMAIN object : object[a] # None} = {slot[i].at : i \in Constructed(slot)}
  BY <1>4, <1>5, <1>6
<1>8. lock = "none" => SlotDataAgrees(storage, slot, Of(index, "loose"))
  <2>. SUFFICES ASSUME lock = "none" PROVE SlotDataAgrees(storage, slot, Of(index, "loose"))
    OBVIOUS
  <2>1. is_valid(storage)
    BY <1>2 DEF is_valid, StorageSound
  <2>2. {slot[i].at : i \in DOMAIN slot} = DOMAIN slot
    BY <1>3
  <2>3. \A i \in DOMAIN slot : slot[i].state # "Unmapped" => index_ptr(storage, slot[i].at) # -1
    <3>. SUFFICES ASSUME NEW i \in Slots(m), slot[i].state # "Unmapped"
                  PROVE  index_ptr(storage, slot[i].at) # -1
      BY <1>3
    <3>1. slot[i].at \in Nat /\ slot[i].at < SlotCapacity(storage)
      BY <1>3, <1>4
    <3>. QED
      BY <3>1 DEF index_ptr
  <2>. QED
    BY <1>2, <1>4, <2>1, <2>2, <2>3 DEF SlotDataAgrees
<1>9. \A i \in Constructed(slot) : object[slot[i].at] = payload[i]
  BY <1>4
<1>. QED
  BY <1>7, <1>8, <1>9 DEF ObjectsKept

\* Through any sequence of operations, those that fail for want of memory among
\* them, exactly the loose slots have an object, at addresses they do not share.
THEOREM CollectionObjectsKept == CollectionSpec => []ObjectsKept
<1>1. CollectionInit => CollectionInv
  BY CollectionInitInv
<1>2. CollectionInv /\ [CollectionNext]_collection_vars => CollectionInv'
  BY CollectionStep
<1>3. CollectionInv => ObjectsKept
  BY InvObjectsKept
<1>. QED
  BY <1>1, <1>2, <1>3, PTL DEF CollectionSpec

\* What is proved of the slots alone holds of those of a collection too, whose
\* operations take a slot back when there is no memory for its object.
THEOREM CollectionIndexSound == CollectionSpec => []SlotsAgree
<1>1. CollectionInit => CollectionInv
  BY CollectionInitInv
<1>2. CollectionInv /\ [CollectionNext]_collection_vars => CollectionInv'
  BY CollectionStep
<1>3. CollectionInv => SlotsAgree
  BY InvIntegrity, InvQueries DEF CollectionInv, SlotsAgree
<1>. QED
  BY <1>1, <1>2, <1>3, PTL DEF CollectionSpec

\* The first of a sequence is left out, or put back.
LEMMA WithoutFirst ==
    /\ \A u \in Seq(Nat), i \in Nat : Abstract!Without(<<i>> \o u, i) = u
    /\ \A u \in Seq(Nat) : Len(u) # 0 => <<u[1]>> \o Abstract!Without(u, u[1]) = u
<1>1. ASSUME NEW w \in Seq(Nat), Len(w) # 0
      PROVE  Abstract!Without(w, w[1]) = [k \in 1 .. Len(w) - 1 |-> w[k + 1]]
  <2>1. Len(w) \in Nat
    BY <1>1
  <2>2. \A k \in 1 .. Len(w) - 1 : \E j \in 1 .. k : w[j] = w[1]
    <3>1. \A k \in 1 .. Len(w) - 1 : 1 \in 1 .. k
      BY <2>1
    <3>. QED
      BY <3>1
  <2>. QED
    BY <2>2 DEF Abstract!Without
<1>2. ASSUME NEW u \in Seq(Nat), NEW i \in Nat
      PROVE  Abstract!Without(<<i>> \o u, i) = u
  <2>. DEFINE w == <<i>> \o u
  <2>1. /\ w \in Seq(Nat) /\ Len(w) = Len(u) + 1 /\ Len(u) \in Nat /\ w[1] = i
        /\ \A k \in 1 .. Len(u) : w[k + 1] = u[k]
    OBVIOUS
  <2>. HIDE DEF w
  <2>2. Abstract!Without(w, i) = [k \in 1 .. Len(u) |-> w[k + 1]]
    <3>1. Len(w) # 0 /\ Len(w) - 1 = Len(u)
      BY <2>1
    <3>. QED
      BY <1>1, <2>1, <3>1
  <2>3. u = [k \in 1 .. Len(u) |-> u[k]]
    OBVIOUS
  <2>4. Abstract!Without(w, i) = [k \in 1 .. Len(u) |-> u[k]]
    BY <2>1, <2>2
  <2>. QED
    BY <2>3, <2>4 DEF w
<1>3. ASSUME NEW u \in Seq(Nat), Len(u) # 0
      PROVE  <<u[1]>> \o Abstract!Without(u, u[1]) = u
  <2>. DEFINE w == [k \in 1 .. Len(u) - 1 |-> u[k + 1]]
  <2>1. Len(u) \in Nat /\ Len(u) - 1 \in Nat /\ u[1] \in Nat /\ \A k \in 1 .. Len(u) - 1 : u[k + 1] \in Nat
    BY <1>3
  <2>2. w \in Seq(Nat) /\ Len(w) = Len(u) - 1 /\ \A k \in 1 .. Len(u) - 1 : w[k] = u[k + 1]
    BY <2>1
  <2>3. Abstract!Without(u, u[1]) = w
    BY <1>1, <1>3
  <2>. HIDE DEF w
  <2>4. /\ <<u[1]>> \o w \in Seq(Nat) /\ Len(<<u[1]>> \o w) = Len(u) /\ (<<u[1]>> \o w)[1] = u[1]
        /\ \A k \in 1 .. Len(u) - 1 : (<<u[1]>> \o w)[k + 1] = w[k]
    BY <2>1, <2>2
  <2>5. \A k \in 1 .. Len(u) : (<<u[1]>> \o w)[k] = u[k]
    <3>. SUFFICES ASSUME NEW k \in 1 .. Len(u) PROVE (<<u[1]>> \o w)[k] = u[k]
      OBVIOUS
    <3>1. CASE k = 1
      BY <2>4, <3>1
    <3>2. CASE k # 1
      <4>1. k - 1 \in 1 .. Len(u) - 1 /\ (k - 1) + 1 = k
        BY <2>1, <3>2
      <4>. QED
        BY <2>2, <2>4, <4>1
    <3>. QED
      BY <3>1, <3>2
  <2>6. <<u[1]>> \o w = u
    <3>. DEFINE x == <<u[1]>> \o w
    <3>1. x \in Seq(Nat) /\ Len(x) = Len(u) /\ \A k \in 1 .. Len(u) : x[k] = u[k]
      BY <2>4, <2>5
    <3>. HIDE DEF x
    <3>2. x = [k \in 1 .. Len(u) |-> x[k]] /\ u = [k \in 1 .. Len(u) |-> u[k]]
      BY <3>1
    <3>3. x = u
      BY <3>1, <3>2
    <3>. QED
      BY <3>3 DEF x
  <2>. QED
    BY <2>3, <2>6
<1>. QED
  BY <1>2, <1>3

\* The slots that growth adds begin where the domain ended.
LEMMA GrowthBegins ==
    ASSUME NEW c \in Nat, NEW n \in Nat, c < n
    PROVE  LET a == Abstract!Ascending(Slots(n) \ Slots(c)) IN
           a \in Seq(Nat) /\ Len(a) # 0 /\ a[1] = c
<1>. DEFINE S == c .. n - 1
            a == Abstract!Ascending(S)
<1>1. Slots(n) \ Slots(c) = S /\ S \in SUBSET Nat /\ IsFiniteSet(S) /\ c \in S
  BY SlotsFacts
<1>2. a \in Seq(Nat) /\ Members(a) = S /\ Rises(a)
  <2>. HIDE DEF S
  <2>. QED
    BY <1>1, AscendingFacts
<1>. HIDE DEF a
<1>3. PICK k \in 1 .. Len(a) : a[k] = c
  BY <1>1, <1>2 DEF Members
<1>4. 1 \in 1 .. Len(a) /\ Len(a) # 0
  BY <1>2, <1>3
<1>5. a[1] \in Nat /\ a[1] >= c
  BY <1>2, <1>4 DEF Members
<1>6. k = 1
  <2>. SUFFICES ASSUME k # 1 PROVE FALSE
    OBVIOUS
  <2>1. 1 < k
    BY <1>2, <1>3
  <2>2. a[1] < a[k]
    BY <1>3, <1>4, <2>1, <1>2 DEF Rises
  <2>. QED
    BY <1>3, <1>5, <2>2
<1>. QED
  BY <1>1, <1>2, <1>3, <1>4, <1>6 DEF a

\* A slot that is acquired and erased at once leaves the lists as they were.
LEMMA TakenBack ==
    ASSUME NEW t, NEW u, NEW v, Lists(t, u, v), BoundsHold(t), Len(v) # 0
    PROVE  Lists(Erased(Acquired(t, v[1]), v[1]), u, v)
<1>. DEFINE i == v[1]
            r == Acquired(t, i)
            x == <<i>> \o u
            w == Abstract!Without(v, i)
<1>1. u \in Seq(Nat) /\ v \in Seq(Nat) /\ Len(v) \in Nat
  BY ListsFacts
<1>2. i \in Nat /\ i \in Members(v) /\ 1 \in 1 .. Len(v)
  <2>1. 1 \in 1 .. Len(v)
    BY <1>1
  <2>. QED
    BY <1>1, <2>1 DEF Members
<1>3. x = <<i>> \o u /\ i \in Members(x) /\ Abstract!Without(x, i) = u /\ <<i>> \o w = v
  BY <1>1, <1>2, MembersBefore, WithoutFirst
<1>4. Lists(r, x, w) /\ BoundsHold(r)
  BY <1>2, AcquiredFacts
<1>. HIDE DEF i, r, x, w
<1>5. Lists(Erased(r, i), Abstract!Without(x, i), <<i>> \o w)
  BY <1>3, <1>4, ErasedFacts
<1>. QED
  BY <1>3, <1>5 DEF i, r

\* An acquisition that is taken back changes the lists by the growth at most.
LEMMA EmplaceFailsLists ==
    ASSUME CollectionInv, NEW n \in 1 .. Limit, NEW i \in Slots(n), EmplaceFails(n, i)
    PROVE  [Abstract!Next]_(Abstract!vars)
<1>. DEFINE L == Listed(index, "loose")
            E == Listed(index, "empty")
            more == Abstract!Ascending(Slots(n) \ Slots(index.capacity))
            t == IF n = index.capacity THEN index ELSE Grown(index, n)
<1>1. /\ lock = "none" /\ lock' = "none" /\ index.capacity # 0 /\ Room(n, i)
      /\ index' = Erased(Acquired(t, i), i) /\ payload' = payload
  BY DEF EmplaceFails, Ready, Erased
<1>2. /\ Lists(index, L, E) /\ BoundsHold(index) /\ index.capacity \in Nat
      /\ index.capacity = Len(L) + Len(E) /\ Of(index, "loose") = Members(L)
  BY InvFacts, CollectionFacts
<1>. HIDE DEF L, E, more
<1>3. E \in Seq(Nat) /\ index.head["empty"] = First(E) /\ Len(E) \in Nat
  BY <1>2, ListsFacts DEF Lists, IsList
<1>4. ASSUME NEW u, NEW v, Lists(index', u, v), u = L
      PROVE  Listed(index, "loose")' = L /\ Listed(index, "empty")' = v /\ Content' = Content
  <2>1. Listed(index', "loose") = u /\ Listed(index', "empty") = v
    BY <1>4, ListsFound
  <2>2. Of(index', "loose") = Of(index, "loose")
    BY <1>2, <1>4, ListsFacts
  <2>3. Content' = Content
    BY <1>1, <2>2, ContentFacts
  <2>. QED
    BY <1>4, <2>1, <2>3
<1>5. CASE index.head["empty"] # -1
  <2>1. n = index.capacity /\ i = First(E) /\ t = index
    BY <1>1, <1>3, <1>5 DEF Room
  <2>2. Len(E) # 0 /\ i = E[1]
    BY <1>3, <1>5, <2>1 DEF First
  <2>3. Lists(index', L, E)
    BY <1>1, <1>2, <2>1, <2>2, TakenBack
  <2>4. Listed(index, "loose")' = L /\ Listed(index, "empty")' = E /\ Content' = Content
    BY <1>4, <2>3
  <2>. QED
    BY <2>4 DEF Abstract!vars, Content, L, E
<1>6. CASE index.head["empty"] = -1
  <2>1. n > index.capacity /\ i = index.capacity
    BY <1>1, <1>6 DEF Room
  <2>2. n # index.capacity /\ index.capacity < n /\ n \in Nat /\ t = Grown(index, n)
    BY <1>2, <2>1
  <2>3. more \in Seq(Nat) /\ Len(more) # 0 /\ more[1] = i
    BY <1>2, <2>1, <2>2, GrowthBegins DEF more
  <2>4. E = << >>
    <3>1. Len(E) # 0 => E[1] \in Nat
      BY <1>3
    <3>2. Len(E) = 0
      BY <1>3, <1>6, <3>1 DEF First
    <3>. QED
      BY <1>3, <3>2
  <2>5. E \o more = more
    BY <2>3, <2>4
  <2>6. Lists(t, L, more) /\ BoundsHold(t)
    <3>1. n > index.capacity
      BY <2>1
    <3>2. Lists(Grown(index, n), L, E \o more)
      BY <1>2, <2>2, <3>1, GrownFacts DEF more
    <3>3. BoundsHold(Grown(index, n))
      BY <1>2, <3>1, GrownBounds
    <3>. QED
      BY <2>2, <2>5, <3>2, <3>3
  <2>. HIDE DEF t
  <2>7. Lists(index', L, more)
    BY <1>1, <2>3, <2>6, TakenBack
  <2>8. Listed(index, "loose")' = L /\ Listed(index, "empty")' = E \o more /\ Content' = Content
    BY <1>4, <2>5, <2>7
  <2>9. Abstract!Size = index.capacity
    BY <1>2 DEF Abstract!Size, L, E
  <2>10. more = Abstract!Ascending(Abstract!Slots(n) \ Abstract!Slots(Abstract!Size))
    BY <2>9 DEF more, Abstract!Slots, Slots
  <2>11. Abstract!Grow(n)
    BY <2>8, <2>10 DEF Abstract!Grow, Content, L, E
  <2>12. n \in Abstract!Size + 1 .. Limit
    BY <1>2, <2>2, <2>9, UnorderedAssumption
  <2>. QED
    BY <2>11, <2>12 DEF Abstract!Next
<1>. QED
  BY <1>5, <1>6

\* The other operations are steps of the slots.
LEMMA CollectionListsStep ==
    ASSUME CollectionInv, [CollectionNext]_collection_vars
    PROVE  [Abstract!Next]_(Abstract!vars)
<1>. USE UnorderedAssumption
<1>0. SlotsInv /\ \A n \in 1 .. Limit : \A i \in Slots(n) : i \in Slots(Limit)
  BY CollectionFacts DEF Slots
<1>1. ASSUME NEW n \in 1 .. Limit, NEW i \in Slots(n), EmplaceFails(n, i)
      PROVE  [Abstract!Next]_(Abstract!vars)
  BY <1>1, EmplaceFailsLists
<1>2. CASE \A n \in 1 .. Limit : \A i \in Slots(n) : ~ EmplaceFails(n, i)
  <2>1. [Next]_vars
    <3>1. ASSUME NEW n \in 1 .. Limit, Begin(n) PROVE Next
      BY <3>1 DEF Begin, Next
    <3>2. ASSUME NEW n \in 1 .. Limit, GrowFails(n) PROVE UNCHANGED vars
      BY <3>2 DEF GrowFails, vars
    <3>3. ASSUME NEW n \in 1 .. Limit, NEW i \in Slots(n), NEW item \in Payloads, Emplace(n, i, item)
          PROVE  Next
      BY <1>0, <3>3 DEF Emplace, Next
    <3>4. ASSUME NEW i \in Slots(Limit), EraseObject(i) PROVE Next
      BY <3>4 DEF EraseObject, Next
    <3>5. CASE Deallocate
      BY <3>5 DEF Deallocate, Next
    <3>6. CASE Pack
      BY <3>6 DEF Pack, Next
    <3>7. CASE UNCHANGED collection_vars
      BY <3>7 DEF collection_vars, vars
    <3>. QED
      BY <1>2, <3>1, <3>2, <3>3, <3>4, <3>5, <3>6, <3>7 DEF CollectionNext
  <2>. QED
    BY <1>0, <2>1, SlotsStep
<1>. QED
  BY <1>1, <1>2

\* A collection behaves as the two sequences and the payloads do, too: an emplace()
\* that gets no memory for its object is no more than growth.
THEOREM CollectionSlotsAreLists == CollectionSpec => ImplementsSlotLists
<1>1. CollectionInit => CollectionInv /\ Abstract!Init
  BY CollectionInitInv, SlotsInitInv DEF CollectionInit
<1>2. CollectionInv /\ [CollectionNext]_collection_vars => CollectionInv' /\ [Abstract!Next]_(Abstract!vars)
  BY CollectionStep, CollectionListsStep
<1>. QED
  BY <1>1, <1>2, PTL DEF CollectionSpec, ImplementsSlotLists, Abstract!Spec

=============================================================================
