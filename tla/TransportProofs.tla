-------------------------- MODULE TransportProofs ---------------------------
(***************************************************************************)
(* Theorems about two transports.  TRing, for every capacity and batch     *)
(* size: the two sides agree on the slots, never meet in one, and together *)
(* are a bounded FIFO.  TBulk, for every number of modifications and       *)
(* publications: what it does promise of a payload, and for how long.      *)
(***************************************************************************)
EXTENDS TRing, TBulk, TLAPS, SequenceTheorems

\* n consecutive messages, the ones after t.
Messages(t, n) == [i \in 1 .. n |-> t + i]

LEMMA MessagesSeq ==
    ASSUME NEW t \in Nat, NEW n \in Nat
    PROVE  Messages(t, n) \in Seq(Nat) /\ Len(Messages(t, n)) = n
BY DEF Messages

LEMMA MessagesAppend ==
    ASSUME NEW t \in Nat, NEW a \in Nat, NEW b \in Nat
    PROVE  Messages(t, a) \o Messages(t + a, b) = Messages(t, a + b)
<1>0. t + a \in Nat /\ a + b \in Nat
  OBVIOUS
<1>1. /\ Messages(t, a) \in Seq(Nat) /\ Len(Messages(t, a)) = a
      /\ Messages(t + a, b) \in Seq(Nat) /\ Len(Messages(t + a, b)) = b
      /\ Messages(t, a + b) \in Seq(Nat) /\ Len(Messages(t, a + b)) = a + b
  BY <1>0, MessagesSeq
<1>. DEFINE s == Messages(t, a)
            u == Messages(t + a, b)
<1>2. /\ s \o u \in Seq(Nat) /\ Len(s \o u) = a + b
      /\ \A i \in 1 .. a + b : (s \o u)[i] = IF i <= a THEN s[i] ELSE u[i - a]
  <2>. HIDE DEF s, u
  <2>1. s \in Seq(Nat) /\ Len(s) = a /\ u \in Seq(Nat) /\ Len(u) = b
    BY <1>1 DEF s, u
  <2>. QED
    BY <2>1, ConcatProperties
<1>. HIDE DEF s, u
<1>3. ASSUME NEW i \in 1 .. a + b
      PROVE  (s \o u)[i] = Messages(t, a + b)[i]
  <2>1. CASE i <= a
    <3>1. (s \o u)[i] = s[i]
      BY <1>2, <2>1
    <3>. QED
      BY <2>1, <3>1 DEF Messages, s
  <2>2. CASE i > a
    <3>1. i - a \in 1 .. b /\ (s \o u)[i] = u[i - a]
      BY <1>2, <2>2
    <3>2. u[i - a] = (t + a) + (i - a)
      BY <3>1 DEF Messages, u
    <3>. QED
      BY <3>1, <3>2 DEF Messages
  <2>3. i <= a \/ i > a
    OBVIOUS
  <2>. QED
    BY <2>1, <2>2, <2>3, Zenon
<1>4. s \o u = Messages(t, a + b)
  BY <1>1, <1>2, <1>3, SeqEqual
<1>. QED
  BY <1>4 DEF s, u

LEMMA MessagesSplit ==
    ASSUME NEW t \in Nat, NEW n \in Nat, NEW a \in 0 .. n
    PROVE  /\ SubSeq(Messages(t, n), 1, a) = Messages(t, a)
           /\ SubSeq(Messages(t, n), a + 1, n) = Messages(t + a, n - a)
BY DEF Messages

----------------------------------------------------------------------------
(* The inductive invariant *)

\* What has been copied so far of the batches in progress.
InProgress ==
    /\ postAt = "idle" => batch = <<>>
    /\ postAt # "idle" => Len(batch) >= 1
    /\ readAt = "idle" <=> wanted = 0
    /\ batch = Messages(ringPosted, Len(batch))
    /\ postAt = "wrap" => /\ copied = ringCapacity - WriteStart
                       /\ writeSlot = Len(batch) - copied
                       /\ \A j \in 1 .. copied : slots[WriteStart + j - 1] = ringPosted + j
    /\ postAt = "commit" =>
           \A j \in 1 .. Len(batch) : slots[Around(WriteStart + j - 1)] = ringPosted + j
    /\ readAt = "wrap" => /\ readSlot = wanted - (ringCapacity - ReadStart)
                       /\ dst = Messages(ringTaken, ringCapacity - ReadStart)
    /\ readAt = "commit" => dst = Messages(ringTaken, wanted)

IInv == RingTypeOK /\ RingAgreement /\ InProgress

\* The capacity of initialise() is not 0.
LEMMA ConditionedPositive ==
    ASSUME NEW c \in RingCapacities, c <= KMaxRingCapacity
    PROVE  ConditionedRingCapacity(c) \in Nat \ {0}
<1>1. c \in 0 .. KMaxRingCapacity
  BY RingAssumption
<1>2. RoundUpToPow2[c] \in Nat
  BY <1>1, RingAssumption
<1>. QED
  BY <1>2, RingAssumption DEF ConditionedRingCapacity, Lesser, Greater

\* Moving an index over n slots, and back to where it came from.
LEMMA AroundBack ==
    ASSUME ringCapacity \in Nat, NEW i \in 0 .. ringCapacity - 1, NEW n \in 1 .. ringCapacity
    PROVE  /\ i + n <= ringCapacity => Before(Masked(i + n), n) = i
           /\ i + n > ringCapacity => Before(n - (ringCapacity - i), n) = i
           /\ Around(Before(i, n) + n) = i
           /\ Before(i, n) \in 0 .. ringCapacity - 1
           /\ Masked(i + n) \in Nat /\ (i + n <= ringCapacity => Masked(i + n) < ringCapacity)
BY DEF Before, Masked, Around

LEMMA InitInv == RingInit => IInv
<1>. SUFFICES ASSUME RingInit PROVE IInv
  OBVIOUS
<1>1. <<>> \in Seq(Nat) /\ Len(<<>>) = 0
  OBVIOUS
<1>2. RingTypeOK
  BY <1>1 DEF RingInit, RingTypeOK
<1>3. RingAgreement
  BY <1>1 DEF RingInit, RingAgreement, RingQuiescent, WriteStart, ReadStart, Around
<1>4. InProgress
  BY <1>1 DEF RingInit, InProgress, Messages
<1>. QED
  BY <1>2, <1>3, <1>4 DEF IInv

\* Setup and teardown.
LEMMA EmptiedStep ==
    ASSUME IInv, NEW cap \in Nat, Emptied(cap)
    PROVE  IInv'
<1>. USE DEF IInv
<1>1. /\ <<>> \in Seq(Nat) /\ Len(<<>>) = 0
      /\ batch = <<>> /\ wanted = 0
  BY DEF Emptied, RingQuiescent, InProgress
<1>2. RingTypeOK'
  BY <1>1 DEF Emptied, RingTypeOK
<1>3. RingAgreement'
  BY <1>1 DEF Emptied, RingAgreement, RingQuiescent, WriteStart, ReadStart, Around, RingTypeOK
<1>4. InProgress'
  BY <1>1 DEF Emptied, RingQuiescent, InProgress, Messages
<1>. QED
  BY <1>2, <1>3, <1>4

\* The steps of post().
LEMMA PostBeginStep ==
    ASSUME IInv, NEW count \in Nat, RingPostBegin(count)
    PROVE  IInv'
<1>. USE DEF IInv
<1>. HIDE DEF Messages
<1>1. batch' = Messages(ringPosted, count) /\ count >= 1 /\ count <= ringCapacity - occupied
  BY DEF RingPostBegin, Writable, Messages
<1>2. batch' \in Seq(Nat) /\ Len(batch') = count
  BY <1>1, MessagesSeq DEF RingTypeOK
<1>3. /\ postAt = "idle" /\ postAt' = "copy" /\ ringCapacity # 0
      /\ UNCHANGED <<ringCapacity, slots, occupied, writeSlot, copied, ringPosted>>
      /\ UNCHANGED <<readSlot, readAt, dst, wanted, ringTaken, delivered>>
  BY DEF RingPostBegin, ringConsumer
<1>4. RingTypeOK'
  BY <1>2, <1>3 DEF RingTypeOK
<1>5. WriteStart' = WriteStart /\ ReadStart' = ReadStart
  BY <1>3 DEF WriteStart, ReadStart, Before
<1>6. RingAgreement'
  BY <1>1, <1>2, <1>3, <1>5 DEF RingAgreement, Around, RingQuiescent, RingTypeOK
<1>7. batch' # <<>>
  BY <1>1, <1>2
<1>8. InProgress'
  BY <1>1, <1>2, <1>3, <1>5, <1>7 DEF InProgress
<1>. QED
  BY <1>4, <1>6, <1>8

\* What copying into the slots does.
LEMMA CopiedInSlots ==
    ASSUME RingTypeOK, batch = Messages(ringPosted, Len(batch)),
           NEW s0 \in Nat, NEW k \in Nat \ {0}, NEW n \in Nat,
           s0 + n <= ringCapacity, k + n <= Len(batch) + 1
    PROVE  /\ CopiedIn(s0, k, n) \in [0 .. ringCapacity - 1 -> Nat]
           /\ \A s \in 0 .. ringCapacity - 1 :
                 CopiedIn(s0, k, n)[s] = IF s \in s0 .. s0 + n - 1 THEN ringPosted + (s - s0 + k)
                                                                  ELSE slots[s]
<1>1. \A s \in s0 .. s0 + n - 1 : batch[s - s0 + k] = ringPosted + (s - s0 + k)
  <2>. SUFFICES ASSUME NEW s \in s0 .. s0 + n - 1
                PROVE  batch[s - s0 + k] = ringPosted + (s - s0 + k)
    OBVIOUS
  <2>1. s - s0 + k \in 1 .. Len(batch)
    BY DEF RingTypeOK
  <2>. QED
    BY <2>1 DEF Messages
<1>2. DOMAIN slots = 0 .. ringCapacity - 1
  BY DEF RingTypeOK
<1>3. ASSUME NEW s \in 0 .. ringCapacity - 1
      PROVE  CopiedIn(s0, k, n)[s] = IF s \in s0 .. s0 + n - 1 THEN ringPosted + (s - s0 + k)
                                                               ELSE slots[s]
  BY <1>1, <1>2 DEF CopiedIn
<1>4. ASSUME NEW s \in 0 .. ringCapacity - 1
      PROVE  CopiedIn(s0, k, n)[s] \in Nat
  <2>1. CASE s \in s0 .. s0 + n - 1
    <3>1. CopiedIn(s0, k, n)[s] = ringPosted + (s - s0 + k)
      BY <1>3, <2>1
    <3>. QED
      BY <2>1, <3>1 DEF RingTypeOK
  <2>2. CASE s \notin s0 .. s0 + n - 1
    BY <1>3, <2>2 DEF RingTypeOK
  <2>. QED
    BY <2>1, <2>2
<1>5. CopiedIn(s0, k, n) = [s \in 0 .. ringCapacity - 1 |-> CopiedIn(s0, k, n)[s]]
  BY <1>2 DEF CopiedIn
<1>. QED
  BY <1>3, <1>4, <1>5

LEMMA StartsInRange ==
    ASSUME RingTypeOK, RingAgreement, ringCapacity # 0
    PROVE  ReadStart \in 0 .. ringCapacity - 1 /\ WriteStart \in 0 .. ringCapacity - 1
<1>1. ReadStart \in 0 .. ringCapacity - 1
  <2>1. CASE readAt \in {"wrap", "commit"}
    BY <2>1 DEF ReadStart, Before, RingTypeOK, RingAgreement
  <2>2. CASE readAt \notin {"wrap", "commit"}
    BY <2>2 DEF ReadStart, RingTypeOK, RingAgreement
  <2>. QED
    BY <2>1, <2>2
<1>2. WriteStart = Around(ReadStart + occupied) /\ occupied \in 0 .. ringCapacity
  BY DEF RingAgreement, RingTypeOK
<1>. QED
  BY <1>1, <1>2 DEF Around, RingTypeOK

\* The slots a batch is posted to hold no unread message.
LEMMA UnreadApart ==
    ASSUME RingTypeOK, RingAgreement, ringCapacity # 0, NEW i \in 0 .. occupied - 1
    PROVE  /\ Around(ReadStart + i) \in 0 .. ringCapacity - 1
           /\ \A s \in WriteStart .. WriteStart + Len(batch) - 1 :
                 Around(ReadStart + i) # s /\ Around(ReadStart + i) + ringCapacity # s
<1>1. ReadStart \in 0 .. ringCapacity - 1
  BY StartsInRange
<1>2. WriteStart = Around(ReadStart + occupied) /\ Len(batch) <= ringCapacity - occupied
  BY DEF RingAgreement
<1>3. Len(batch) \in Nat /\ occupied \in 0 .. ringCapacity
  BY DEF RingTypeOK, RingAgreement
<1>. HIDE DEF ReadStart, WriteStart
<1>. QED
  BY <1>1, <1>2, <1>3 DEF Around, RingTypeOK

\* A step that moves neither batch nor count and keeps the unread messages.
LEMMA AgreementKept ==
    ASSUME RingAgreement, ringCapacity # 0, RingTypeOK, RingTypeOK',
           ReadStart \in Nat,
           UNCHANGED <<ringCapacity, occupied, ringPosted, ringTaken, wanted>>,
           Len(batch') = Len(batch), WriteStart' = WriteStart, ReadStart' = ReadStart,
           readSlot' < ringCapacity', writeSlot' < ringCapacity',
           \A i \in 0 .. occupied - 1 :
              slots'[Around(ReadStart + i)] = slots[Around(ReadStart + i)]
    PROVE  RingAgreement'
<1>. HIDE DEF ReadStart, WriteStart
<1>2. (Around(ReadStart + occupied))' = Around(ReadStart + occupied)
  BY DEF Around
<1>3. ASSUME NEW i \in 0 .. occupied' - 1
      PROVE  slots'[(IF ReadStart' + i < ringCapacity' THEN ReadStart' + i
                     ELSE ReadStart' + i - ringCapacity')] = ringTaken' + i + 1
  <2>1. i \in 0 .. occupied - 1
    BY <1>3
  <2>2. slots'[Around(ReadStart + i)] = ringTaken + i + 1
    BY <2>1 DEF RingAgreement
  <2>3. ringCapacity' = ringCapacity /\ ringTaken' = ringTaken /\ ReadStart' = ReadStart
    OBVIOUS
  <2>4. (IF ReadStart' + i < ringCapacity' THEN ReadStart' + i
         ELSE ReadStart' + i - ringCapacity') = Around(ReadStart + i)
    BY <2>3 DEF Around, RingTypeOK
  <2>5. slots'[Around(ReadStart + i)] = ringTaken' + i + 1
    BY <2>2, <2>3
  <2>. QED
    BY <2>4, <2>5
<1>. QED
  BY <1>2, <1>3 DEF RingAgreement, Around

LEMMA PostCopyStep ==
    ASSUME IInv, RingPostCopy
    PROVE  IInv'
<1>. USE DEF IInv
<1>. DEFINE tail == ringCapacity - writeSlot
<1>0. /\ postAt = "copy" /\ ringCapacity # 0 /\ WriteStart = writeSlot
      /\ batch = Messages(ringPosted, Len(batch))
      /\ ringPosted \in Nat
      /\ Len(batch) \in Nat
      /\ Len(batch) >= 1
  BY DEF RingPostCopy, RingAgreement, InProgress, RingQuiescent, WriteStart, RingTypeOK
<1>1. Len(batch) \in 1 .. ringCapacity - occupied /\ writeSlot \in 0 .. ringCapacity - 1
  BY <1>0 DEF RingAgreement, RingTypeOK
<1>2. /\ UNCHANGED <<ringCapacity, occupied, batch, ringPosted>>
      /\ UNCHANGED <<readSlot, readAt, dst, wanted, ringTaken, delivered>>
  BY DEF RingPostCopy, ringConsumer
<1>3. ReadStart' = ReadStart
  BY <1>2 DEF ReadStart, Before
<1>4. ASSUME WriteStart' = writeSlot, writeSlot' \in 0 .. ringCapacity - 1,
             postAt' \in {"wrap", "commit"}, copied' \in Nat,
             NEW m \in 0 .. Len(batch), writeSlot + m <= ringCapacity, slots' = CopiedIn(writeSlot, 1, m)
      PROVE  /\ RingTypeOK' /\ RingAgreement'
             /\ \A s \in writeSlot .. writeSlot + m - 1 : slots'[s] = ringPosted + (s - writeSlot + 1)
  <2>1. /\ slots' \in [0 .. ringCapacity - 1 -> Nat]
        /\ \A s \in 0 .. ringCapacity - 1 :
              slots'[s] = IF s \in writeSlot .. writeSlot + m - 1 THEN ringPosted + (s - writeSlot + 1) ELSE slots[s]
    <3>1. m \in Nat /\ 1 + m <= Len(batch) + 1 /\ writeSlot \in Nat /\ 1 \in Nat \ {0}
      BY <1>0, <1>1
    <3>2. RingTypeOK /\ batch = Messages(ringPosted, Len(batch)) /\ writeSlot + m <= ringCapacity
      BY <1>0, <1>4
    <3>3. /\ CopiedIn(writeSlot, 1, m) \in [0 .. ringCapacity - 1 -> Nat]
          /\ \A s \in 0 .. ringCapacity - 1 :
                CopiedIn(writeSlot, 1, m)[s] = IF s \in writeSlot .. writeSlot + m - 1
                                                THEN ringPosted + (s - writeSlot + 1) ELSE slots[s]
      BY <3>1, <3>2, CopiedInSlots
    <3>. QED
      BY <1>4, <3>3
  <2>2. \A i \in 0 .. occupied - 1 : slots'[Around(ReadStart + i)] = slots[Around(ReadStart + i)]
    BY <1>0, <1>1, <2>1, UnreadApart
  <2>3. RingTypeOK'
    BY <1>2, <1>4, <2>1 DEF RingTypeOK
  <2>4. RingAgreement'
    <3>1. readSlot' < ringCapacity' /\ writeSlot' < ringCapacity' /\ WriteStart' = WriteStart
      BY <1>0, <1>1, <1>2, <1>4 DEF RingAgreement, RingTypeOK
    <3>. QED
      BY <1>0, <1>2, <1>3, <2>2, <2>3, <3>1, StartsInRange, AgreementKept
  <2>5. \A s \in writeSlot .. writeSlot + m - 1 : slots'[s] = ringPosted + (s - writeSlot + 1)
    <3>. SUFFICES ASSUME NEW s \in writeSlot .. writeSlot + m - 1
                  PROVE  slots'[s] = ringPosted + (s - writeSlot + 1)
      OBVIOUS
    <3>1. s \in 0 .. ringCapacity - 1
      BY <1>1, <1>4 DEF RingTypeOK
    <3>. QED
      BY <2>1, <3>1
  <2>. QED
    BY <2>3, <2>4, <2>5
<1>5. CASE Len(batch) <= tail
  <2>1. /\ slots' = CopiedIn(writeSlot, 1, Len(batch))
        /\ writeSlot' = Masked(writeSlot + Len(batch))
        /\ postAt' = "commit" /\ copied' = copied /\ copied' \in Nat
    BY <1>5 DEF RingPostCopy, RingTypeOK
  <2>2. /\ WriteStart' = writeSlot
        /\ writeSlot' \in 0 .. ringCapacity - 1
        /\ writeSlot + Len(batch) <= ringCapacity
    BY <1>0, <1>1, <1>2, <1>5, <2>1, AroundBack DEF WriteStart, Before, Masked, RingTypeOK
  <2>3. /\ RingTypeOK'
        /\ RingAgreement'
        /\ \A s \in writeSlot .. writeSlot + Len(batch) - 1 : slots'[s] = ringPosted + (s - writeSlot + 1)
    BY <1>0, <1>1, <1>4, <2>1, <2>2
  <2>4. \A j \in 1 .. Len(batch) : slots'[Around(writeSlot + j - 1)] = ringPosted + j
    <3>. SUFFICES ASSUME NEW j \in 1 .. Len(batch) PROVE slots'[Around(writeSlot + j - 1)] = ringPosted + j
      OBVIOUS
    <3>1. /\ Around(writeSlot + j - 1) = writeSlot + j - 1
          /\ writeSlot + j - 1 \in writeSlot .. writeSlot + Len(batch) - 1
      BY <1>0, <1>1, <2>2 DEF Around, RingTypeOK
    <3>. QED
      BY <1>0, <1>1, <2>3, <3>1
  <2>5. InProgress'
    BY <1>0, <1>1, <1>2, <1>3, <2>1, <2>2, <2>4 DEF InProgress, Around
  <2>. QED
    BY <2>3, <2>5
<1>6. CASE Len(batch) > tail
  <2>1. /\ slots' = CopiedIn(writeSlot, 1, tail) /\ writeSlot' = Len(batch) - tail
        /\ postAt' = "wrap" /\ copied' = tail
    BY <1>0, <1>1, <1>6 DEF RingPostCopy, RingTypeOK
  <2>2. /\ WriteStart' = writeSlot
        /\ writeSlot' \in 0 .. ringCapacity - 1
        /\ writeSlot + tail = ringCapacity
        /\ tail \in 0 .. Len(batch) /\ tail \in Nat
    <3>1. ringCapacity \in Nat /\ occupied \in Nat /\ Len(batch) \in 1 .. ringCapacity
      BY <1>0, <1>1 DEF RingTypeOK
    <3>2. writeSlot + tail = ringCapacity /\ tail \in 0 .. Len(batch) /\ tail \in Nat
      BY <1>1, <1>6, <3>1
    <3>3. writeSlot' \in 0 .. ringCapacity - 1 /\ writeSlot' < Len(batch)
      BY <1>1, <1>6, <2>1, <3>1
    <3>4. WriteStart' = Before(writeSlot', Len(batch))
      BY <1>2, <2>1 DEF WriteStart, Before
    <3>5. Before(writeSlot', Len(batch)) = (Len(batch) - tail) + ringCapacity - Len(batch)
      BY <2>1, <3>1, <3>2, <3>3 DEF Before
    <3>6. (Len(batch) - tail) + ringCapacity - Len(batch) = writeSlot
      BY <1>1, <3>1
    <3>. QED
      BY <3>2, <3>3, <3>4, <3>5, <3>6
  <2>3. /\ RingTypeOK'
        /\ RingAgreement'
        /\ \A s \in writeSlot .. writeSlot + tail - 1 : slots'[s] = ringPosted + (s - writeSlot + 1)
    <3>1. writeSlot + tail <= ringCapacity /\ copied' \in Nat /\ postAt' \in {"wrap", "commit"}
      BY <1>1, <2>1, <2>2
    <3>. HIDE DEF tail
    <3>. QED
      BY <1>4, <2>1, <2>2, <3>1
  <2>4. \A j \in 1 .. tail : slots'[writeSlot + j - 1] = ringPosted + j
    <3>. SUFFICES ASSUME NEW j \in 1 .. tail PROVE slots'[writeSlot + j - 1] = ringPosted + j
      OBVIOUS
    <3>1. /\ writeSlot + j - 1 \in writeSlot .. writeSlot + tail - 1
          /\ ringPosted + ((writeSlot + j - 1) - writeSlot + 1) = ringPosted + j
      BY <1>0, <1>1, <2>2 DEF RingTypeOK
    <3>. QED
      BY <1>0, <1>1, <2>3, <3>1
  <2>5. InProgress'
    BY <1>0, <1>1, <1>2, <1>3, <2>1, <2>2, <2>4 DEF InProgress
  <2>. QED
    BY <2>3, <2>5
<1>. QED
  BY <1>1, <1>5, <1>6 DEF RingTypeOK

\* Going round in two moves.
LEMMA AroundTwice ==
    ASSUME ringCapacity \in Nat, NEW r \in 0 .. ringCapacity - 1, NEW a \in Nat, NEW b \in Nat,
           a + b <= ringCapacity
    PROVE  Around(Around(r + a) + b) = Around(r + (a + b))
BY DEF Around

LEMMA PostWrapStep ==
    ASSUME IInv, RingPostWrap
    PROVE  IInv'
<1>. USE DEF IInv
<1>1. /\ postAt = "wrap" /\ postAt' = "commit" /\ copied' = 0 /\ ringCapacity # 0
      /\ slots' = CopiedIn(0, copied + 1, writeSlot)
      /\ UNCHANGED <<ringCapacity, occupied, writeSlot, batch, ringPosted>>
      /\ UNCHANGED <<readSlot, readAt, dst, wanted, ringTaken, delivered>>
  BY DEF RingPostWrap, ringConsumer, RingAgreement, RingQuiescent
<1>0. /\ batch = Messages(ringPosted, Len(batch))
      /\ writeSlot = Len(batch) - copied /\ copied = ringCapacity - WriteStart
      /\ \A j \in 1 .. copied : slots[WriteStart + j - 1] = ringPosted + j
  BY <1>1 DEF InProgress
<1>2. /\ ringPosted \in Nat /\ Len(batch) \in Nat /\ copied \in Nat /\ ringCapacity \in Nat
      /\ occupied \in Nat /\ writeSlot \in 0 .. ringCapacity - 1 /\ Len(batch) <= ringCapacity
      /\ WriteStart \in 0 .. ringCapacity - 1
  <2>1. /\ ringPosted \in Nat /\ Len(batch) \in Nat /\ copied \in Nat /\ ringCapacity \in Nat
        /\ occupied \in Nat /\ writeSlot \in Nat
    BY DEF RingTypeOK
  <2>2. writeSlot < ringCapacity /\ Len(batch) <= ringCapacity - occupied
    BY <1>1 DEF RingAgreement
  <2>. QED
    BY <1>1, <2>1, <2>2, StartsInRange
<1>3. ReadStart' = ReadStart /\ WriteStart' = WriteStart
  BY <1>1 DEF ReadStart, WriteStart, Before
<1>4. /\ slots' \in [0 .. ringCapacity - 1 -> Nat]
      /\ \A s \in 0 .. ringCapacity - 1 :
            slots'[s] = IF s \in 0 .. writeSlot - 1 THEN ringPosted + (s + copied + 1)
                                                     ELSE slots[s]
  <2>1. RingTypeOK /\ copied + 1 \in Nat \ {0} /\ 0 \in Nat /\ 0 + writeSlot <= ringCapacity
        /\ copied + 1 + writeSlot <= Len(batch) + 1 /\ writeSlot \in Nat
    BY <1>0, <1>2
  <2>2. /\ CopiedIn(0, copied + 1, writeSlot) \in [0 .. ringCapacity - 1 -> Nat]
        /\ \A s \in 0 .. ringCapacity - 1 :
              CopiedIn(0, copied + 1, writeSlot)[s]
                = IF s \in 0 .. 0 + writeSlot - 1 THEN ringPosted + (s - 0 + (copied + 1))
                                                   ELSE slots[s]
    <3>1. batch = Messages(ringPosted, Len(batch)) /\ 0 \in Nat
      BY <1>0
    <3>. HIDE DEF IInv
    <3>. QED
      BY <2>1, <3>1, CopiedInSlots
  <2>. QED
    BY <1>1, <1>2, <2>2
<1>5. \A i \in 0 .. occupied - 1 : slots'[Around(ReadStart + i)] = slots[Around(ReadStart + i)]
  <2>. SUFFICES ASSUME NEW i \in 0 .. occupied - 1
                PROVE  slots'[Around(ReadStart + i)] = slots[Around(ReadStart + i)]
    OBVIOUS
  <2>1. /\ Around(ReadStart + i) \in 0 .. ringCapacity - 1
        /\ \A s \in WriteStart .. WriteStart + Len(batch) - 1 : Around(ReadStart + i) + ringCapacity # s
    BY <1>1, UnreadApart
  <2>2. Around(ReadStart + i) \notin 0 .. writeSlot - 1
    BY <1>0, <1>2, <2>1
  <2>. QED
    BY <1>4, <2>1, <2>2
<1>6. RingTypeOK'
  BY <1>1, <1>4 DEF RingTypeOK
<1>7. readSlot' < ringCapacity' /\ writeSlot' < ringCapacity'
  BY <1>1, <1>2 DEF RingAgreement
<1>8. RingAgreement'
  BY <1>1, <1>3, <1>5, <1>6, <1>7, StartsInRange, AgreementKept
<1>9. ASSUME NEW j \in 1 .. Len(batch)
      PROVE  slots'[Around(WriteStart + j - 1)] = ringPosted + j
  <2>1. CASE j <= copied
    <3>1. Around(WriteStart + j - 1) = WriteStart + j - 1
      BY <1>0, <1>2, <2>1 DEF Around
    <3>2. /\ WriteStart + j - 1 \in 0 .. ringCapacity - 1
          /\ WriteStart + j - 1 \notin 0 .. writeSlot - 1
      BY <1>0, <1>2, <2>1
    <3>3. slots[WriteStart + j - 1] = ringPosted + j
      <4>1. j \in 1 .. copied
        BY <1>2, <2>1
      <4>. QED
        BY <1>0, <4>1
    <3>. QED
      BY <1>4, <3>1, <3>2, <3>3
  <2>2. CASE j > copied
    <3>1. Around(WriteStart + j - 1) = j - copied - 1
      BY <1>0, <1>2, <2>2 DEF Around
    <3>2. j - copied - 1 \in 0 .. ringCapacity - 1 /\ j - copied - 1 \in 0 .. writeSlot - 1
      BY <1>0, <1>2, <2>2
    <3>3. slots'[j - copied - 1] = ringPosted + ((j - copied - 1) + copied + 1)
      BY <1>4, <3>2
    <3>. QED
      BY <1>2, <3>1, <3>3
  <2>. QED
    BY <1>2, <2>1, <2>2
<1>10. InProgress'
  <2>1. \A j \in 1 .. Len(batch) : (Around(WriteStart + j - 1))' = Around(WriteStart + j - 1)
    BY <1>1, <1>2, <1>3 DEF Around
  <2>2. \A j \in 1 .. Len(batch') : slots'[(Around(WriteStart + j - 1))'] = ringPosted' + j
    BY <1>1, <1>9, <2>1
  <2>. QED
    BY <1>0, <1>1, <1>3, <2>2 DEF InProgress
<1>. QED
  BY <1>6, <1>8, <1>10

LEMMA PostCommitStep ==
    ASSUME IInv, RingPostCommit
    PROVE  IInv'
<1>. USE DEF IInv
<1>1. /\ postAt = "commit" /\ postAt' = "idle" /\ batch' = <<>> /\ ringCapacity # 0
      /\ occupied' = occupied + Len(batch) /\ ringPosted' = ringPosted + Len(batch)
      /\ UNCHANGED <<ringCapacity, slots, writeSlot, copied>>
      /\ UNCHANGED <<readSlot, readAt, dst, wanted, ringTaken, delivered>>
  BY DEF RingPostCommit, ringConsumer, RingAgreement, RingQuiescent
<1>2. /\ Len(batch) \in 1 .. ringCapacity
      /\ ringCapacity \in Nat
      /\ ringPosted \in Nat
      /\ ringTaken \in Nat
      /\ occupied \in Nat /\ occupied + Len(batch) <= ringCapacity
      /\ writeSlot \in 0 .. ringCapacity - 1 /\ ReadStart \in 0 .. ringCapacity - 1
      /\ ringPosted = ringTaken + occupied
  <2>1. /\ ringPosted \in Nat /\ Len(batch) \in Nat /\ ringTaken \in Nat /\ ringCapacity \in Nat
        /\ occupied \in Nat /\ writeSlot \in Nat
    BY DEF RingTypeOK
  <2>2. /\ writeSlot < ringCapacity
        /\ Len(batch) <= ringCapacity - occupied
        /\ ringPosted = ringTaken + occupied
    BY <1>1 DEF RingAgreement
  <2>3. Len(batch) >= 1
    BY <1>1 DEF InProgress
  <2>. QED
    BY <1>1, <2>1, <2>2, <2>3, StartsInRange
<1>3. ReadStart' = ReadStart /\ WriteStart' = writeSlot /\ Len(batch') = 0
  BY <1>1 DEF ReadStart, WriteStart, Before
<1>4. WriteStart = Before(writeSlot, Len(batch)) /\ WriteStart = Around(ReadStart + occupied)
  BY <1>1 DEF WriteStart, RingAgreement
<1>5. writeSlot = Around(ReadStart + occupied')
  <2>1. Around(WriteStart + Len(batch)) = writeSlot
    BY <1>2, <1>4, AroundBack
  <2>2. Around(Around(ReadStart + occupied) + Len(batch)) = Around(ReadStart + (occupied + Len(batch)))
    BY <1>2 DEF Around
  <2>. QED
    BY <1>1, <1>4, <2>1, <2>2
<1>6. ASSUME NEW i \in 0 .. occupied' - 1
      PROVE  slots[Around(ReadStart + i)] = ringTaken + i + 1
  <2>1. CASE i < occupied
    <3>1. i \in 0 .. occupied - 1
      BY <1>1, <1>2, <2>1
    <3>. QED
      BY <3>1 DEF RingAgreement
  <2>2. CASE i >= occupied
    <3>. DEFINE j == i - occupied + 1
    <3>1. j \in 1 .. Len(batch)
      BY <1>1, <1>2, <2>2
    <3>2. Around(WriteStart + (j - 1)) = Around(ReadStart + i)
      <4>1. j - 1 \in Nat /\ occupied + (j - 1) <= ringCapacity /\ occupied + (j - 1) = i
        BY <1>1, <1>2, <2>2
      <4>. HIDE DEF j
      <4>. QED
        <5>1. Around(Around(ReadStart + occupied) + (j - 1)) = Around(ReadStart + (occupied + (j - 1)))
          <6>1. ringCapacity \in Nat /\ ReadStart \in 0 .. ringCapacity - 1 /\ occupied \in Nat
            BY <1>2
          <6>. QED
            BY <4>1, <6>1, AroundTwice
        <5>. QED
          BY <1>4, <4>1, <5>1
    <3>3. slots[Around(WriteStart + j - 1)] = ringPosted + j
      BY <1>1, <3>1 DEF InProgress
    <3>4. WriteStart + j - 1 = WriteStart + (j - 1)
      BY <1>1, <3>1, StartsInRange
    <3>5. ringPosted + j = ringTaken + i + 1
      BY <1>2
    <3>. QED
      BY <3>2, <3>3, <3>4, <3>5
  <2>. QED
    BY <1>1, <1>2, <2>1, <2>2
<1>7. RingTypeOK'
  BY <1>1, <1>2, <<>> \in Seq(Nat), SMTT(30) DEF RingTypeOK
<1>8. RingAgreement'
  <2>1. \A i \in Nat : (Around(ReadStart + i))' = Around(ReadStart + i')
    BY <1>1, <1>2, <1>3 DEF Around
  <2>2. (Around(ReadStart + occupied))' = Around(ReadStart + occupied')
    BY <1>1, <1>2, <1>3 DEF Around
  <2>3. ASSUME NEW i \in 0 .. occupied' - 1
        PROVE  slots'[(IF ReadStart' + i < ringCapacity' THEN ReadStart' + i
                       ELSE ReadStart' + i - ringCapacity')] = ringTaken' + i + 1
    BY <1>1, <1>2, <1>3, <1>6 DEF Around
  <2>4. /\ occupied' <= ringCapacity' /\ ringCapacity' # 0
        /\ readSlot' < ringCapacity' /\ writeSlot' < ringCapacity'
        /\ ringPosted' = ringTaken' + occupied'
        /\ wanted' <= occupied' /\ Len(batch') <= ringCapacity' - occupied'
    BY <1>1, <1>2, <1>3 DEF RingAgreement, RingTypeOK
  <2>5. WriteStart' = (Around(ReadStart + occupied))'
    BY <1>3, <1>5, <2>2
  <2>6. \A i \in 0 .. occupied' - 1 : slots'[(Around(ReadStart + i))'] = ringTaken' + i + 1
    BY <1>1, <1>2, <1>3, <2>3 DEF Around
  <2>. QED
    BY <2>4, <2>5, <2>6 DEF RingAgreement
<1>9. InProgress'
  <2>1. batch' = Messages(ringPosted', 0)
    BY <1>1 DEF Messages
  <2>. QED
    BY <1>1, <1>3, <2>1 DEF InProgress
<1>. QED
  BY <1>7, <1>8, <1>9

----------------------------------------------------------------------------
(* The steps of read() *)

\* A step of read() leaves what post() has done alone.
LEMMA PostedKept ==
    ASSUME InProgress,
           UNCHANGED <<ringCapacity, slots, occupied>>, UNCHANGED ringProducer
    PROVE  /\ WriteStart' = WriteStart
           /\ postAt' = "idle" => batch' = <<>>
           /\ postAt' # "idle" => Len(batch') >= 1
           /\ batch' = Messages(ringPosted', Len(batch'))
           /\ postAt' = "wrap" =>
                 /\ copied' = ringCapacity' - WriteStart'
                 /\ writeSlot' = Len(batch') - copied'
                 /\ \A j \in 1 .. copied' : slots'[WriteStart' + j - 1] = ringPosted' + j
           /\ postAt' = "commit" =>
                 \A j \in 1 .. Len(batch') : slots'[(Around(WriteStart + j - 1))'] = ringPosted' + j
<1>1. WriteStart' = WriteStart
  BY DEF ringProducer, WriteStart, Before
<1>2. \A j \in 1 .. Len(batch) : (Around(WriteStart + j - 1))' = Around(WriteStart + j - 1)
  BY <1>1 DEF Around
<1>. QED
  BY <1>1, <1>2 DEF ringProducer, InProgress

LEMMA ReadBeginStep ==
    ASSUME IInv, NEW count \in Nat, RingReadBegin(count)
    PROVE  IInv'
<1>. USE DEF IInv
<1>1. /\ readAt = "idle" /\ readAt' = "copy" /\ ringCapacity # 0 /\ wanted' = count
      /\ count >= 1 /\ count <= occupied
      /\ UNCHANGED <<ringCapacity, slots, occupied>> /\ UNCHANGED ringProducer
      /\ UNCHANGED <<readSlot, dst, ringTaken, delivered>>
  BY DEF RingReadBegin, Readable
<1>2. ReadStart' = ReadStart /\ WriteStart' = WriteStart
  BY <1>1, PostedKept DEF ReadStart
<1>3. RingTypeOK'
  BY <1>1 DEF RingTypeOK, ringProducer
<1>4. RingAgreement'
  <2>1. /\ UNCHANGED <<writeSlot, postAt, batch, copied, ringPosted>>
        /\ \A i \in Nat : (Around(ReadStart + i))' = Around(ReadStart + i)
        /\ (Around(ReadStart + occupied))' = Around(ReadStart + occupied)
    BY <1>1, <1>2 DEF ringProducer, Around
  <2>. QED
    BY <1>1, <1>2, <2>1 DEF RingAgreement, RingTypeOK
<1>5. InProgress'
  BY <1>1, PostedKept DEF InProgress
<1>. QED
  BY <1>3, <1>4, <1>5

\* What the consumer copies out, when the slots it copies hold what it wants.
LEMMA CopiedOutMessages ==
    ASSUME NEW s0 \in Nat, NEW n \in Nat, NEW t \in Nat,
           \A i \in 0 .. n - 1 : slots[s0 + i] = t + i + 1
    PROVE  CopiedOut(s0, n) = Messages(t, n)
<1>1. ASSUME NEW i \in 1 .. n
      PROVE  slots[s0 + i - 1] = t + i
  <2>1. i - 1 \in 0 .. n - 1 /\ s0 + i - 1 = s0 + (i - 1) /\ t + (i - 1) + 1 = t + i
    OBVIOUS
  <2>. QED
    BY <2>1
<1>. QED
  BY <1>1 DEF CopiedOut, Messages

LEMMA ReadCopyStep ==
    ASSUME IInv, RingReadCopy
    PROVE  IInv'
<1>. USE DEF IInv
<1>. DEFINE tail == ringCapacity - readSlot
<1>0. /\ readAt = "copy" /\ ringCapacity # 0 /\ ReadStart = readSlot
      /\ UNCHANGED <<ringCapacity, slots, occupied>> /\ UNCHANGED ringProducer
      /\ UNCHANGED <<wanted, ringTaken, delivered>>
  BY DEF RingReadCopy, RingAgreement, RingQuiescent, ReadStart
<1>1. /\ wanted \in 1 .. occupied /\ readSlot \in 0 .. ringCapacity - 1 /\ ringCapacity \in Nat
      /\ ringTaken \in Nat /\ occupied \in 0 .. ringCapacity
      /\ \A i \in 0 .. occupied - 1 : slots[Around(readSlot + i)] = ringTaken + i + 1
  <2>1. /\ wanted \in Nat
        /\ wanted # 0
        /\ readSlot \in Nat
        /\ ringCapacity \in Nat
        /\ ringTaken \in Nat
        /\ occupied \in Nat
    BY <1>0 DEF RingTypeOK, InProgress
  <2>2. wanted <= occupied /\ readSlot < ringCapacity /\ occupied <= ringCapacity
        /\ \A i \in 0 .. occupied - 1 : slots[Around(readSlot + i)] = ringTaken + i + 1
    BY <1>0 DEF RingAgreement
  <2>. QED
    BY <2>1, <2>2
<1>2. ASSUME NEW m \in Nat, m <= wanted, readSlot + m <= ringCapacity
      PROVE  CopiedOut(readSlot, m) = Messages(ringTaken, m)
  <2>1. ASSUME NEW i \in 0 .. m - 1
        PROVE  slots[readSlot + i] = ringTaken + i + 1
    <3>1. Around(readSlot + i) = readSlot + i /\ i \in 0 .. occupied - 1
      BY <1>1, <1>2 DEF Around
    <3>. QED
      BY <1>1, <3>1
  <2>. QED
    <3>1. /\ readSlot \in Nat
          /\ ringTaken \in Nat
          /\ \A i \in 0 .. m - 1 : slots[readSlot + i] = ringTaken + i + 1
      BY <1>1, <2>1
    <3>. QED
      BY <3>1, CopiedOutMessages
<1>3. ASSUME ReadStart' = readSlot, readSlot' \in 0 .. ringCapacity - 1,
             readAt' \in {"wrap", "commit"},
             NEW m \in Nat, dst' = Messages(ringTaken, m)
      PROVE  RingTypeOK' /\ RingAgreement'
  <2>1. UNCHANGED <<writeSlot, postAt, batch, copied, ringPosted>> /\ WriteStart' = WriteStart
    BY <1>0, PostedKept DEF ringProducer
  <2>2. dst' \in Seq(Nat)
    BY <1>1, <1>3, MessagesSeq
  <2>3. RingTypeOK'
    BY <1>0, <1>1, <1>3, <2>1, <2>2 DEF RingTypeOK
  <2>4. readSlot' < ringCapacity' /\ writeSlot' < ringCapacity'
    BY <1>0, <1>1, <1>3, <2>1 DEF RingAgreement
  <2>. QED
    BY <1>0, <1>1, <1>3, <2>1, <2>3, <2>4, AgreementKept
<1>4. CASE wanted <= tail
  <2>1. /\ dst' = CopiedOut(readSlot, wanted) /\ readSlot' = Masked(readSlot + wanted)
        /\ readAt' = "commit"
    BY <1>4 DEF RingReadCopy
  <2>2. /\ ReadStart' = readSlot
        /\ readSlot' \in 0 .. ringCapacity - 1
        /\ readSlot + wanted <= ringCapacity
    BY <1>0, <1>1, <1>4, <2>1 DEF ReadStart, Before, Masked
  <2>3. dst' = Messages(ringTaken, wanted) /\ wanted \in Nat
    BY <1>1, <1>2, <2>1, <2>2
  <2>4. RingTypeOK' /\ RingAgreement'
    BY <1>3, <2>1, <2>2, <2>3
  <2>5. InProgress'
    BY <1>0, <1>1, <2>1, <2>3, PostedKept DEF InProgress
  <2>. QED
    BY <2>4, <2>5
<1>5. CASE wanted > tail
  <2>1. /\ dst' = CopiedOut(readSlot, tail) /\ readSlot' = wanted - tail
        /\ readAt' = "wrap"
    BY <1>1, <1>5 DEF RingReadCopy
  <2>2. /\ ReadStart' = readSlot /\ readSlot' \in 0 .. ringCapacity - 1
        /\ readSlot + tail <= ringCapacity /\ tail \in Nat /\ tail <= wanted
    BY <1>0, <1>1, <1>5, <2>1 DEF ReadStart, Before
  <2>3. dst' = Messages(ringTaken, tail)
    BY <1>1, <1>2, <2>1, <2>2
  <2>4. RingTypeOK' /\ RingAgreement'
    BY <1>3, <2>1, <2>2, <2>3
  <2>5. InProgress'
    BY <1>0, <1>1, <2>1, <2>2, <2>3, PostedKept DEF InProgress
  <2>. QED
    BY <2>4, <2>5
<1>. QED
  BY <1>1, <1>4, <1>5

LEMMA ReadWrapStep ==
    ASSUME IInv, RingReadWrap
    PROVE  IInv'
<1>. USE DEF IInv
<1>. DEFINE tail == ringCapacity - ReadStart
<1>0. /\ readAt = "wrap" /\ readAt' = "commit" /\ ringCapacity # 0
      /\ dst' = dst \o CopiedOut(0, readSlot)
      /\ UNCHANGED <<ringCapacity, slots, occupied>> /\ UNCHANGED ringProducer
      /\ UNCHANGED <<readSlot, wanted, ringTaken, delivered>>
  BY DEF RingReadWrap, RingAgreement, RingQuiescent
<1>1. /\ wanted \in 1 .. occupied /\ readSlot \in 0 .. ringCapacity - 1 /\ ringCapacity \in Nat
      /\ ringTaken \in Nat /\ occupied \in 0 .. ringCapacity /\ ReadStart \in 0 .. ringCapacity - 1
      /\ \A i \in 0 .. occupied - 1 : slots[Around(ReadStart + i)] = ringTaken + i + 1
  <2>1. /\ wanted \in Nat
        /\ wanted # 0
        /\ readSlot \in Nat
        /\ ringCapacity \in Nat
        /\ ringTaken \in Nat
        /\ occupied \in Nat
    BY <1>0 DEF RingTypeOK, InProgress
  <2>2. wanted <= occupied /\ readSlot < ringCapacity /\ occupied <= ringCapacity
        /\ \A i \in 0 .. occupied - 1 : slots[Around(ReadStart + i)] = ringTaken + i + 1
    BY <1>0 DEF RingAgreement
  <2>. QED
    BY <1>0, <2>1, <2>2, StartsInRange
<1>2. readSlot = wanted - tail /\ dst = Messages(ringTaken, tail)
  BY <1>0 DEF InProgress
<1>3. ReadStart' = ReadStart /\ WriteStart' = WriteStart
      /\ UNCHANGED <<writeSlot, postAt, batch, copied, ringPosted>>
  BY <1>0, PostedKept DEF ReadStart, Before, ringProducer
<1>4. dst' = Messages(ringTaken, wanted)
  <2>1. ASSUME NEW i \in 0 .. readSlot - 1
        PROVE  slots[0 + i] = (ringTaken + tail) + i + 1
    <3>1. Around(ReadStart + (tail + i)) = 0 + i /\ tail + i \in 0 .. occupied - 1
      BY <1>1, <1>2 DEF Around
    <3>2. slots[Around(ReadStart + (tail + i))] = ringTaken + (tail + i) + 1
      BY <1>1, <3>1
    <3>. QED
      BY <1>1, <3>1, <3>2
  <2>2. CopiedOut(0, readSlot) = Messages(ringTaken + tail, readSlot)
    <3>1. 0 \in Nat /\ readSlot \in Nat /\ ringTaken + tail \in Nat
          /\ \A i \in 0 .. readSlot - 1 : slots[0 + i] = (ringTaken + tail) + i + 1
      BY <1>1, <2>1
    <3>. HIDE DEF tail
    <3>. QED
      BY <3>1, CopiedOutMessages
  <2>3. Messages(ringTaken, tail) \o Messages(ringTaken + tail, readSlot) = Messages(ringTaken, tail + readSlot)
    <3>1. ringTaken \in Nat /\ tail \in Nat /\ readSlot \in Nat
      BY <1>1
    <3>. HIDE DEF tail
    <3>. QED
      BY <3>1, MessagesAppend
  <2>4. tail + readSlot = wanted
    BY <1>1, <1>2
  <2>. HIDE DEF tail
  <2>. QED
    BY <1>0, <1>2, <2>2, <2>3, <2>4
<1>5. dst' \in Seq(Nat)
  <2>1. wanted \in Nat /\ ringTaken \in Nat
    BY <1>1
  <2>. QED
    BY <1>4, <2>1, MessagesSeq
<1>6. RingTypeOK'
  BY <1>0, <1>3, <1>5 DEF RingTypeOK
<1>7. readSlot' < ringCapacity' /\ writeSlot' < ringCapacity'
  BY <1>0, <1>1, <1>3 DEF RingAgreement
<1>8. RingAgreement'
  BY <1>0, <1>1, <1>3, <1>6, <1>7, AgreementKept
<1>9. InProgress'
  BY <1>0, <1>1, <1>4, PostedKept DEF InProgress
<1>. QED
  BY <1>6, <1>8, <1>9

LEMMA ReadCommitStep ==
    ASSUME IInv, RingReadCommit
    PROVE  IInv'
<1>. USE DEF IInv
<1>0. /\ readAt = "commit" /\ readAt' = "idle" /\ ringCapacity # 0
      /\ occupied' = occupied - wanted /\ ringTaken' = ringTaken + wanted
      /\ delivered' = dst /\ dst' = <<>> /\ wanted' = 0
      /\ UNCHANGED <<ringCapacity, slots, readSlot>> /\ UNCHANGED ringProducer
  BY DEF RingReadCommit, RingAgreement, RingQuiescent
<1>1. /\ wanted \in 1 .. occupied /\ readSlot \in 0 .. ringCapacity - 1 /\ ringCapacity \in Nat
      /\ ringTaken \in Nat /\ occupied \in 0 .. ringCapacity /\ ReadStart \in 0 .. ringCapacity - 1
      /\ \A i \in 0 .. occupied - 1 : slots[Around(ReadStart + i)] = ringTaken + i + 1
  <2>1. /\ wanted \in Nat
        /\ wanted # 0
        /\ readSlot \in Nat
        /\ ringCapacity \in Nat
        /\ ringTaken \in Nat
        /\ occupied \in Nat
    BY <1>0 DEF RingTypeOK, InProgress
  <2>2. wanted <= occupied /\ readSlot < ringCapacity /\ occupied <= ringCapacity
        /\ \A i \in 0 .. occupied - 1 : slots[Around(ReadStart + i)] = ringTaken + i + 1
    BY <1>0 DEF RingAgreement
  <2>. QED
    BY <1>0, <2>1, <2>2, StartsInRange
<1>2. /\ UNCHANGED <<writeSlot, postAt, batch, copied, ringPosted>>
      /\ WriteStart' = WriteStart /\ ReadStart' = readSlot
  BY <1>0 DEF ringProducer, WriteStart, ReadStart, Before
<1>3. ReadStart' = Around(ReadStart + wanted)
  <2>1. ReadStart = Before(readSlot, wanted)
    BY <1>0 DEF ReadStart
  <2>2. Around(Before(readSlot, wanted) + wanted) = readSlot
    BY <1>1 DEF Around, Before
  <2>. QED
    BY <1>2, <2>1, <2>2
<1>4. WriteStart' = (Around(ReadStart + occupied))'
  <2>1. WriteStart' = Around(ReadStart + occupied)
    BY <1>2 DEF RingAgreement
  <2>2. Around(Around(ReadStart + wanted) + occupied') = Around(ReadStart + occupied)
    BY <1>0, <1>1 DEF Around
  <2>3. (Around(ReadStart + occupied))' = Around(ReadStart' + occupied')
    BY <1>0, <1>1, <1>2 DEF Around
  <2>. QED
    BY <1>3, <2>1, <2>2, <2>3
<1>5. ASSUME NEW i \in 0 .. occupied' - 1
      PROVE  slots'[(Around(ReadStart + i))'] = ringTaken' + i + 1
  <2>1. (Around(ReadStart + i))' = Around(ReadStart + (wanted + i))
    <3>1. (Around(ReadStart + i))' = Around(ReadStart' + i)
      BY <1>0, <1>1, <1>2 DEF Around
    <3>2. Around(Around(ReadStart + wanted) + i) = Around(ReadStart + (wanted + i))
      BY <1>0, <1>1 DEF Around
    <3>. QED
      BY <1>3, <3>1, <3>2
  <2>2. wanted + i \in 0 .. occupied - 1
    BY <1>0, <1>1
  <2>3. slots[Around(ReadStart + (wanted + i))] = ringTaken + (wanted + i) + 1
    BY <1>1, <2>2
  <2>. QED
    BY <1>0, <1>1, <2>1, <2>3
<1>6. RingTypeOK'
  BY <1>0, <1>1, <1>2, <<>> \in Seq(Nat) DEF RingTypeOK
<1>7. RingAgreement'
  <2>1. /\ occupied' <= ringCapacity' /\ ringCapacity' # 0
        /\ readSlot' < ringCapacity' /\ writeSlot' < ringCapacity'
        /\ ringPosted' = ringTaken' + occupied'
        /\ wanted' <= occupied' /\ Len(batch') <= ringCapacity' - occupied'
    BY <1>0, <1>1, <1>2 DEF RingAgreement, RingTypeOK
  <2>. QED
    BY <1>4, <1>5, <2>1 DEF RingAgreement
<1>8. InProgress'
  <2>1. \A j \in 1 .. Len(batch) : (Around(WriteStart + j - 1))' = Around(WriteStart + j - 1)
    BY <1>0, <1>2 DEF Around
  <2>. QED
    BY <1>0, <1>2, <2>1 DEF InProgress
<1>. QED
  BY <1>6, <1>7, <1>8

----------------------------------------------------------------------------
(* The theorems *)

LEMMA Step ==
    ASSUME IInv, [RingNext]_ringVars
    PROVE  IInv'
<1>1. CASE UNCHANGED ringVars
  <2>. USE <1>1 DEF ringVars, ringProducer, ringConsumer
  <2>1. RingTypeOK'
    BY DEF IInv, RingTypeOK
  <2>2. RingAgreement'
    BY DEF IInv, RingAgreement, RingQuiescent, WriteStart, ReadStart, Before, Around
  <2>3. InProgress'
    BY DEF IInv, InProgress, WriteStart, ReadStart, Before, Around
  <2>. QED
    BY <2>1, <2>2, <2>3 DEF IInv
<1>2. CASE initialise
  <2>1. PICK c \in RingCapacities : c <= KMaxRingCapacity /\ Emptied(ConditionedRingCapacity(c))
    BY <1>2 DEF initialise
  <2>. QED
    BY <2>1, ConditionedPositive, EmptiedStep
<1>3. CASE deallocate
  BY <1>3, EmptiedStep DEF deallocate
<1>4. CASE RingPost
  BY <1>4, PostBeginStep, RingAssumption DEF RingPost
<1>5. CASE RingRead
  BY <1>5, ReadBeginStep, RingAssumption DEF RingRead
<1>. QED
  BY <1>1, <1>2, <1>3, <1>4, <1>5, PostCopyStep, PostWrapStep, PostCommitStep,
     ReadCopyStep, ReadWrapStep, ReadCommitStep DEF RingNext, RingPostContinues, RingReadContinues

LEMMA Invariance == RingSpec => []IInv
<1>1. IInv /\ [RingNext]_ringVars => IInv'
  BY Step
<1>. QED
  BY InitInv, <1>1, PTL DEF RingSpec

\* Every variable keeps its type.
THEOREM TypeCorrect == RingSpec => []RingTypeOK
BY Invariance, PTL DEF IInv

\* The two indices, the count and the slots always fit together.
THEOREM SidesAgree == RingSpec => []RingAgreement
BY Invariance, PTL DEF IInv

\* A slot is never copied into and out of at the same time.
THEOREM NoOverlap == RingSpec => []NoSharedSlot
<1>1. IInv => NoSharedSlot
  <2>. SUFFICES ASSUME IInv, postAt # "idle", readAt # "idle",
                       NEW s \in Run(WriteStart, Len(batch)) \cap Run(ReadStart, wanted)
                PROVE  FALSE
    BY DEF NoSharedSlot
  <2>1. /\ ringCapacity # 0 /\ ringCapacity \in Nat /\ occupied \in Nat
        /\ Len(batch) \in Nat /\ wanted \in Nat
        /\ WriteStart = Around(ReadStart + occupied)
        /\ wanted <= occupied /\ Len(batch) <= ringCapacity - occupied
    BY DEF IInv, RingTypeOK, RingAgreement, RingQuiescent
  <2>2. ReadStart \in 0 .. ringCapacity - 1
    BY <2>1, StartsInRange DEF IInv
  <2>. HIDE DEF WriteStart, ReadStart
  <2>. QED
    BY <2>1, <2>2 DEF Run, Around
<1>. QED
  BY Invariance, <1>1, PTL

----------------------------------------------------------------------------
(* The ring implements the FIFO *)

Queue == [i \in 1 .. occupied |-> slots[Around(ReadStart + i - 1)]]

\* Under the invariant the queue is the run of messages not read yet.
LEMMA QueueMessages == IInv => Queue = Messages(ringTaken, occupied)
<1>. SUFFICES ASSUME IInv PROVE Queue = Messages(ringTaken, occupied)
  OBVIOUS
<1>1. ASSUME NEW i \in 1 .. occupied
      PROVE  slots[Around(ReadStart + i - 1)] = ringTaken + i
  <2>1. ringCapacity # 0 /\ occupied \in Nat /\ ringTaken \in Nat
    BY DEF IInv, RingTypeOK, RingAgreement
  <2>2. ReadStart \in Nat
    BY <2>1, StartsInRange DEF IInv
  <2>3. i - 1 \in 0 .. occupied - 1 /\ ReadStart + (i - 1) = ReadStart + i - 1
    BY <2>1, <2>2
  <2>4. slots[Around(ReadStart + (i - 1))] = ringTaken + (i - 1) + 1
    BY <2>3 DEF IInv, RingAgreement
  <2>. QED
    BY <2>1, <2>3, <2>4
<1>. QED
  BY <1>1 DEF Queue, Messages

\* What a posting and a reading do to it.
LEMMA QueueGrows ==
    ASSUME IInv, IInv', UNCHANGED ringTaken,
           NEW n \in Nat, occupied' = occupied + n
    PROVE  Queue' = Queue \o Messages(ringPosted, n)
<1>1. ringTaken \in Nat /\ occupied \in Nat /\ ringPosted = ringTaken + occupied
  BY DEF IInv, RingTypeOK, RingAgreement
<1>2. (IInv => Queue = Messages(ringTaken, occupied))'
  BY QueueMessages, PTL
<1>3. Queue' = Messages(ringTaken, occupied + n)
  BY <1>2 DEF Messages
<1>4. Messages(ringTaken, occupied) \o Messages(ringTaken + occupied, n) = Messages(ringTaken, occupied + n)
  BY <1>1, MessagesAppend
<1>5. Queue = Messages(ringTaken, occupied)
  BY QueueMessages
<1>. QED
  BY <1>1, <1>3, <1>4, <1>5

LEMMA QueueShrinks ==
    ASSUME IInv, IInv', NEW n \in 0 .. occupied,
           ringTaken' = ringTaken + n, occupied' = occupied - n
    PROVE  /\ Len(Queue) = occupied
           /\ SubSeq(Queue, 1, n) = Messages(ringTaken, n)
           /\ Queue' = SubSeq(Queue, n + 1, Len(Queue))
<1>1. ringTaken \in Nat /\ occupied \in Nat
  BY DEF IInv, RingTypeOK
<1>2. (IInv => Queue = Messages(ringTaken, occupied))'
  BY QueueMessages, PTL
<1>3. Queue' = Messages(ringTaken + n, occupied - n)
  BY <1>2 DEF Messages
<1>4. Queue = Messages(ringTaken, occupied) /\ Len(Queue) = occupied
  BY <1>1, QueueMessages, MessagesSeq
<1>5. /\ SubSeq(Messages(ringTaken, occupied), 1, n) = Messages(ringTaken, n)
      /\ SubSeq(Messages(ringTaken, occupied), n + 1, occupied) = Messages(ringTaken + n, occupied - n)
  BY <1>1, MessagesSplit
<1>. QED
  BY <1>3, <1>4, <1>5

LEMMA StepRefines ==
    ASSUME IInv, IInv', [RingNext]_ringVars
    PROVE  [Fifo!Next]_(Fifo!fvars)
<1>. DEFINE fvars == <<Queue, delivered, ringPosted, ringCapacity>>
<1>1. UNCHANGED fvars => UNCHANGED Fifo!fvars
  BY DEF Fifo!fvars, Queue
<1>2. ASSUME UNCHANGED <<ringTaken, occupied, delivered, ringPosted, ringCapacity>>
      PROVE  UNCHANGED Fifo!fvars
  <2>1. (IInv => Queue = Messages(ringTaken, occupied))'
    BY QueueMessages, PTL
  <2>2. Queue' = Messages(ringTaken, occupied)
    BY <1>2, <2>1 DEF Messages
  <2>. QED
    BY <1>1, <1>2, <2>2, QueueMessages
<1>3. ASSUME NEW cap \in Nat, Emptied(cap)
      PROVE  Fifo!Next
  <2>1. /\ occupied' = 0 /\ delivered' = <<>> /\ ringPosted' = 0 /\ ringCapacity' \in Nat
    BY <1>3 DEF Emptied
  <2>. QED
    BY <2>1 DEF Fifo!Next, Fifo!Reset
<1>4. CASE RingPostCommit
  <2>1. /\ postAt = "commit"
        /\ occupied' = occupied + Len(batch)
        /\ ringPosted' = ringPosted + Len(batch)
        /\ UNCHANGED <<ringTaken, delivered, ringCapacity>>
    BY <1>4 DEF RingPostCommit, ringConsumer
  <2>2. Len(batch) \in Nat /\ Len(batch) \in 1 .. ringCapacity - occupied /\ occupied \in Nat
    BY <2>1 DEF IInv, RingTypeOK, RingAgreement, InProgress
  <2>3. Queue' = Queue \o Messages(ringPosted, Len(batch))
    BY <2>1, <2>2, QueueGrows
  <2>4. Len(Queue) = occupied
    BY <2>2, QueueMessages, MessagesSeq DEF IInv, RingTypeOK
  <2>5. Fifo!Post
    BY <2>1, <2>2, <2>3, <2>4 DEF Fifo!Post, Queue, Messages
  <2>. QED
    BY <2>5 DEF Fifo!Next
<1>5. CASE RingReadCommit
  <2>1. /\ readAt = "commit" /\ occupied' = occupied - wanted /\ ringTaken' = ringTaken + wanted
        /\ delivered' = dst /\ UNCHANGED <<ringPosted, ringCapacity>>
    BY <1>5 DEF RingReadCommit, ringProducer
  <2>2. wanted \in 1 .. occupied /\ dst = Messages(ringTaken, wanted)
    BY <2>1 DEF IInv, RingTypeOK, RingAgreement, InProgress
  <2>3. /\ Len(Queue) = occupied
        /\ SubSeq(Queue, 1, wanted) = dst
        /\ Queue' = SubSeq(Queue, wanted + 1, Len(Queue))
    BY <2>1, <2>2, QueueShrinks
  <2>4. Fifo!Read
    BY <2>1, <2>2, <2>3 DEF Fifo!Read, Queue
  <2>. QED
    BY <2>4 DEF Fifo!Next
<1>6. CASE initialise
  <2>1. PICK c \in RingCapacities : c <= KMaxRingCapacity /\ Emptied(ConditionedRingCapacity(c))
    BY <1>6 DEF initialise
  <2>. QED
    BY <1>3, <2>1, ConditionedPositive
<1>7. CASE deallocate
  BY <1>3, <1>7 DEF deallocate
<1>8. CASE RingPost \/ RingPostCopy \/ RingPostWrap
  BY <1>2, <1>8 DEF RingPost, RingPostBegin, RingPostCopy, RingPostWrap, ringConsumer
<1>9. CASE RingRead \/ RingReadCopy \/ RingReadWrap
  BY <1>2, <1>9 DEF RingRead, RingReadBegin, RingReadCopy, RingReadWrap, ringProducer
<1>10. CASE UNCHANGED ringVars
  BY <1>2, <1>10 DEF ringVars, ringProducer, ringConsumer
<1>. QED
  BY <1>4, <1>5, <1>6, <1>7, <1>8, <1>9, <1>10 DEF RingNext, RingPostContinues, RingReadContinues

\* The ring is a FIFO of its capacity: nothing is lost, repeated, reordered or
\* overwritten, whichever way the steps of the two sides interleave.
THEOREM RingIsFifo == RingSpec => ImplementsFifo
<1>1. RingInit => Fifo!Init
  BY DEF RingInit, Fifo!Init
<1>2. IInv /\ IInv' /\ [RingNext]_ringVars => [Fifo!Next]_(Fifo!fvars)
  BY StepRefines
<1>. QED
  BY <1>1, <1>2, Invariance, PTL DEF RingSpec, ImplementsFifo, Fifo!Spec

----------------------------------------------------------------------------
(* TBulk *)

\* The word and the payload held, related to the producer's roles.
RolesAgree ==
    /\ bulkOutput # bulkStaged
    /\ bulkWord \in {0, NullStagedWord, bulkStaged + 1}
    /\ bulkWord = bulkStaged + 1 => bulkData[bulkStaged] = content
    /\ acquired <= published
    /\ published # 0 => (bulkWord = 0 <=> acquired = published)
    /\ bulkWord = NullStagedWord => published = 0
    /\ ReturnIsTrue
    /\ held # NoPayload /\ acquired = published => held = bulkStaged /\ bulkData[bulkStaged] = content

BulkInv == BulkTypeOK /\ RolesAgree

LEMMA BulkInitInv == BulkInit => BulkInv
BY DEF BulkInit, BulkInv, BulkTypeOK, RolesAgree, ReturnIsTrue, Payloads, NoPayload, NullStagedWord

LEMMA BulkStep ==
    ASSUME BulkInv, [BulkNext]_bulkVars
    PROVE  BulkInv'
<1>. USE DEF BulkInv, BulkTypeOK, RolesAgree, Payloads, NoPayload, NullStagedWord
<1>1. CASE UNCHANGED bulkVars
  BY <1>1 DEF bulkVars, producerSide, ReturnIsTrue
<1>2. CASE Modify
  <2>1. /\ bulkData'[bulkStaged] = bulkData[bulkStaged]
        /\ bulkData' \in [Payloads -> Nat]
        /\ version' \in Nat
    BY <1>2 DEF Modify
  <2>. QED
    BY <1>2, <2>1 DEF Modify, ReturnIsTrue
<1>3. CASE publish
  <2>1. bulkOutput' = bulkStaged /\ bulkStaged' = bulkOutput /\ bulkLocked' \in Payloads
    BY <1>3 DEF publish, OutputAfter, LockedAfter
  <2>2. /\ bulkWord' = bulkStaged' + 1 /\ content' = bulkData'[bulkStaged'] /\ bulkData' = bulkData
        /\ published' = published + 1 /\ acquired' = acquired
        /\ returned' \in [said : BOOLEAN, true : BOOLEAN]
    BY <1>3, <2>1 DEF publish, ReportsAcquired
  <2>3. content' \in Nat /\ published' \in Nat /\ acquired' # published'
    BY <2>1, <2>2
  <2>4. UNCHANGED <<version, held, bpc>>
    BY <1>3 DEF publish
  <2>5. ReturnIsTrue'
    <3>1. returned'.said = (bulkWord = 0)
      BY <1>3 DEF publish, ReportsAcquired
    <3>2. returned'.true = (published # 0 /\ acquired = published)
      BY <1>3 DEF publish
    <3>. QED
      BY <2>2, <3>1, <3>2 DEF ReturnIsTrue
  <2>6. bulkWord' # 0 /\ published' # 0
    BY <2>1, <2>2
  <2>. QED
    BY <2>1, <2>2, <2>3, <2>4, <2>5, <2>6
<1>4. CASE Discard
  BY <1>4 DEF Discard, producerSide, ReturnIsTrue
<1>5. CASE Acquire
  <2>1. CASE BulkAccepts(bulkWord)
    <3>1. bulkWord = bulkStaged + 1
      BY <2>1 DEF BulkAccepts
    <3>2. held' = bulkStaged /\ acquired' = published
      BY <1>5, <2>1, <3>1 DEF Acquire, PayloadOf
    <3>. QED
      BY <1>5, <3>1, <3>2 DEF Acquire, producerSide, ReturnIsTrue
  <2>2. CASE ~BulkAccepts(bulkWord)
    <3>1. bulkWord \in {0, NullStagedWord}
      BY <2>2 DEF BulkAccepts
    <3>. QED
      BY <1>5, <2>2, <3>1 DEF Acquire, producerSide, ReturnIsTrue
  <2>. QED
    BY <2>1, <2>2
<1>. QED
  BY <1>1, <1>2, <1>3, <1>4, <1>5 DEF BulkNext, Produce, Consume

LEMMA BulkInvariance == BulkSpec => []BulkInv
<1>1. BulkInv /\ [BulkNext]_bulkVars => BulkInv'
  BY BulkStep
<1>. QED
  BY BulkInitInv, <1>1, PTL DEF BulkSpec

\* Every variable keeps its type.
THEOREM BulkTypeCorrect == BulkSpec => []BulkTypeOK
BY BulkInvariance, PTL DEF BulkInv

\* A publication waits unharmed until it is acquired or replaced.
THEOREM PublicationIntact == BulkSpec => []PublishedIntact
<1>1. BulkInv => PublishedIntact
  BY DEF BulkInv, BulkTypeOK, RolesAgree, PublishedIntact, BulkAccepts, PayloadOf, Payloads,
         NullStagedWord
<1>. QED
  BY BulkInvariance, <1>1, PTL

\* The result of publish() can be relied on from the second call on.
THEOREM ReturnCorrect == BulkSpec => []ReturnIsTrue
BY BulkInvariance, PTL DEF BulkInv, RolesAgree

\* The consumer's payload is safe until the producer publishes again.
THEOREM HeldIntact == BulkSpec => []HeldUntilNextPublish
<1>1. BulkInv => HeldUntilNextPublish
  BY DEF BulkInv, BulkTypeOK, RolesAgree, HeldUntilNextPublish, Payloads, NoPayload
<1>. QED
  BY BulkInvariance, <1>1, PTL
=============================================================================
