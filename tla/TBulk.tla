------------------------------- MODULE TBulk --------------------------------
(***************************************************************************)
(* threading::transports::TBulk<T>: the triple-buffered latest-state       *)
(* transport of TBulkTransport.hpp.  The producer fills the payload it     *)
(* owns and exchanges it into one atomic word; the consumer gives up the   *)
(* payload it holds and exchanges the word for 0.  A payload is the number *)
(* of the modification that filled it.                                     *)
(***************************************************************************)
EXTENDS Naturals

CONSTANTS
    MaxModifications,   \* bound: modifications of payloads
    MaxPublications     \* bound: calls of publish()

ASSUME BoundAssumption == MaxModifications \in Nat /\ MaxPublications \in Nat

Payloads == 0 .. 2
NoPayload == 3      \* k_null_payload_index
NullStagedWord == 4 \* k_null_staged_word

VARIABLES
    bulkData,                               \* m_data
    bulkOutput, bulkStaged, bulkLocked,     \* producer side
    held,                                   \* m_consumer_payload_index
    bulkWord,                               \* the atomic publication word
    bpc,                                    \* discard_and_acquire() in progress
    version,        \* history: the last modification
    published,      \* history: publications so far
    content,        \* history: the payload as it was last published
    acquired,       \* history: the publication last acquired
    returned        \* history: what the last publish() returned, and the truth

producerSide == <<bulkData, bulkOutput, bulkStaged, bulkLocked,
                  version, published, content, returned>>
bulkVars == <<producerSide, held, bulkWord, bpc, acquired>>

BulkInit ==
    /\ bulkData = [b \in Payloads |-> 0]
    /\ bulkOutput = 0 /\ bulkStaged = 1 /\ bulkLocked = 2
    /\ held = NoPayload
    /\ bulkWord = NullStagedWord
    /\ bpc = "idle"
    /\ version = 0 /\ published = 0 /\ content = 0 /\ acquired = 0
    /\ returned = [said |-> FALSE, true |-> FALSE]

\* Mutants: the producer keeps the payload it published; the branches trade
\* places; a replacement is reported as an acquisition.
OutputKept(received) == bulkOutput
OutputTraded(received) == IF received = 0 THEN bulkStaged ELSE bulkLocked
ReportsReplaced(received) == received # 0

\* What publish() makes of the word it took.  locked is assigned before output
\* is taken from it, so the producer gets the staged payload in both branches.
LockedAfter(received) == IF received = 0 THEN bulkStaged ELSE bulkLocked
OutputAfter(received) == IF received = 0 THEN LockedAfter(received) ELSE bulkStaged
ReportsAcquired(received) == received = 0

\* Mutant: a mask of 1.
AcceptsOdd(word) == word % 2 # 0

\* Words 1 .. 3 name a payload; 0 and the initial 4 do not.
BulkAccepts(word) == word % 4 # 0
PayloadOf(word) == word - 1

\* A caller fills the payload producer_data() returns.
Modify ==
    /\ version < MaxModifications
    /\ version' = version + 1
    /\ bulkData' = [bulkData EXCEPT ![bulkOutput] = version + 1]
    /\ UNCHANGED <<bulkOutput, bulkStaged, bulkLocked, published, content, returned,
                   held, bulkWord, bpc, acquired>>

publish ==
    /\ published < MaxPublications
    /\ bulkWord' = bulkOutput + 1
    /\ bulkOutput' = OutputAfter(bulkWord)
    /\ bulkLocked' = LockedAfter(bulkWord)
    /\ bulkStaged' = bulkOutput
    /\ published' = published + 1
    /\ content' = bulkData[bulkOutput]
    /\ returned' = [said |-> ReportsAcquired(bulkWord),
                    true |-> published # 0 /\ acquired = published]
    /\ UNCHANGED <<bulkData, version, held, bpc, acquired>>

\* discard_and_acquire(): the payload held so far is given up first ...
Discard ==
    /\ bpc = "idle"
    /\ held' = NoPayload
    /\ bpc' = "exchange"
    /\ UNCHANGED <<producerSide, bulkWord, acquired>>

\* ... and the word exchanged.
Acquire ==
    /\ bpc = "exchange"
    /\ bulkWord' = 0
    /\ IF BulkAccepts(bulkWord)
       THEN held' = PayloadOf(bulkWord) /\ acquired' = published
       ELSE UNCHANGED <<held, acquired>>
    /\ bpc' = "idle"
    /\ UNCHANGED producerSide

Produce == Modify \/ publish
Consume == Discard \/ Acquire

BulkNext == Produce \/ Consume

BulkSpec == BulkInit /\ [][BulkNext]_bulkVars

\* The consumer polls.
FairBulkSpec == BulkSpec /\ WF_bulkVars(Consume)
----------------------------------------------------------------------------
(* Properties *)

BulkTypeOK ==
    /\ bulkData \in [Payloads -> Nat]
    /\ bulkOutput \in Payloads /\ bulkStaged \in Payloads /\ bulkLocked \in Payloads
    /\ held \in Payloads \cup {NoPayload}
    /\ bulkWord \in 0 .. NullStagedWord
    /\ bpc \in {"idle", "exchange"}
    /\ version \in Nat /\ published \in Nat /\ content \in Nat /\ acquired \in Nat
    /\ returned \in [said : BOOLEAN, true : BOOLEAN]

\* What waits in the word is the last publication, as it was published: neither
\* publish() nor a later modification touches a payload before it is acquired.
PublishedIntact ==
    BulkAccepts(bulkWord) =>
        /\ PayloadOf(bulkWord) = bulkStaged
        /\ bulkData[bulkStaged] = content
        /\ bulkOutput # bulkStaged

\* An acquired payload is the last publication and stays as it was published
\* until the next publish(), which is where the promise ends.
HeldUntilNextPublish ==
    held # NoPayload /\ acquired = published =>
        bulkData[held] = content /\ held # bulkOutput

\* From the second publication on, publish() returns true exactly when the
\* publication before was acquired.
ReturnIsTrue == published > 1 => returned.said = returned.true

\* A polling consumer gets every publication that is not replaced.
LatestArrives ==
    \A k \in 1 .. MaxPublications : (published = k) ~> (acquired = k \/ published > k)

----------------------------------------------------------------------------
(* What the repository says and the code does not do *)

\* "There is no [...] overwrite of consumer-held data": the payload the producer
\* may modify is never the one the consumer holds.
NoOverwriteOfHeld == held # NoPayload => bulkOutput # held
=============================================================================
