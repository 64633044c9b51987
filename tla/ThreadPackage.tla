--------------------------- MODULE ThreadPackage ---------------------------
(***************************************************************************)
(* CThreadPackage, CThreadContext and CThreadResources of host.cpp: what   *)
(* the host and a thread of its own share, over threading::CWaitPredicate  *)
(* and threading::CThreadControlState, with the native wait word.          *)
(*                                                                         *)
(* Every operator is one access to shared state.  The two message queues   *)
(* are sequences (SpscStream: TQueue loses and reorders nothing), the ring *)
(* of owned objects a sequence of bounded length.  Module Host says who    *)
(* takes which step when.                                                  *)
(***************************************************************************)
EXTENDS Naturals, Sequences

CONSTANTS
    Packages,           \* the thread packages
    KMaxPredicateWord,  \* k_max_predicate_word
    KOwnedCapacity      \* the capacity of worker_owned_to_host_owned

ASSUME PackageAssumption ==
    KMaxPredicateWord \in Nat \ {0} /\ KOwnedCapacity \in Nat \ {0}

VARIABLES
    toWorker,           \* host_to_worker_msgs
    toHost,             \* worker_to_host_msgs
    owned,              \* worker_owned_to_host_owned
    word,               \* wait_predicate.m_word
    hasControl,         \* wait_predicate.m_has_control
    exitRequest,        \* control_state.m_exit_request
    runState,           \* control_state.m_state
    failure,            \* control_state.m_failure_code
    created,            \* created
    pc, epoch           \* the thread's place and its local epoch

queues == <<toWorker, toHost, owned>>
control == <<exitRequest, runState, failure>>
packageVars == <<queues, word, hasControl, control, created, pc, epoch>>

\* k_control_released_word
Released == KMaxPredicateWord + 1

PackageInit ==
    /\ toWorker = [p \in Packages |-> <<>>]
    /\ toHost = [p \in Packages |-> <<>>]
    /\ owned = [p \in Packages |-> <<>>]
    /\ word = [p \in Packages |-> Released]
    /\ hasControl = [p \in Packages |-> FALSE]
    /\ exitRequest = [p \in Packages |-> FALSE]
    /\ runState = [p \in Packages |-> "Empty"]
    /\ failure = [p \in Packages |-> 0]
    /\ created = [p \in Packages |-> FALSE]
    /\ pc = [p \in Packages |-> "none"]
    /\ epoch = [p \in Packages |-> 0]

GoesTo(p, place) == pc' = [pc EXCEPT ![p] = place]
Marks(p, state) == runState' = [runState EXCEPT ![p] = state]

----------------------------------------------------------------------------
(* CThreadControlState *)

\* Mutant: a thread that has begun its start-up counts as started.
IsPending(p) == runState[p] = "Pending"

\* is_starting()
IsStarting(p) == runState[p] \in {"Pending", "Startup"}

\* is_ready() and is_done()
IsReady(p) == runState[p] \in {"Running", "Waiting"}
IsDone(p) == runState[p] \in {"Exited", "Failed"}

----------------------------------------------------------------------------
(* The owner's side *)

\* startup() as far as the new thread: everything is private until then.
Creates(p) ==
    /\ word' = [word EXCEPT ![p] = 0]
    /\ hasControl' = [hasControl EXCEPT ![p] = TRUE]
    /\ Marks(p, "Pending")
    /\ created' = [created EXCEPT ![p] = TRUE]
    /\ GoesTo(p, "startup")
    /\ UNCHANGED <<queues, exitRequest, failure, epoch>>

\* A queue of at least 32 messages never has to grow for the few there are.
Sends(p, m) == toWorker' = [toWorker EXCEPT ![p] = Append(@, m)]

\* next_predicate_word()
NextWord(w) == IF w >= KMaxPredicateWord THEN 0 ELSE w + 1

\* increment() of poke_epoch_and_wake_one(); the owner is the only writer.
Pokes(p) == word' = [word EXCEPT ![p] = NextWord(@)]

\* Mutant: nobody is woken.
WokenNever(place) == place

\* wake_one_waiter_unchecked() and wake_all_waiters_unchecked(): one waiter at most.
Woken(place) == IF place = "asleep" THEN "load" ELSE place

Wakes(p) == pc' = [pc EXCEPT ![p] = Woken(@)]

\* shutdown(): request_exit() and release_control().
RequestsExit(p) == exitRequest' = [exitRequest EXCEPT ![p] = TRUE]
ReleasesWord(p) == word' = [word EXCEPT ![p] = Released]
DropsControl(p) == hasControl' = [hasControl EXCEPT ![p] = FALSE]

\* join_and_close(): its result, true when the thread was joined, is kept.
Joins(p) ==
    /\ pc[p] = "ended"
    /\ created' = [created EXCEPT ![p] = TRUE]

----------------------------------------------------------------------------
(* The thread's side: wait_for_new_epoch() *)

WaitMarks(p) ==
    /\ pc[p] = "wait"
    /\ Marks(p, "Waiting")
    /\ GoesTo(p, "load")
    /\ UNCHANGED <<queues, word, hasControl, exitRequest, failure, created, epoch>>

\* wait_until_not_equal() returns the first word that differs, and the
\* released word at once when it is asked to wait for a change of that.
WordReturned(p) == IF epoch[p] = Released THEN Released ELSE word[p]

WaitLoads(p) ==
    /\ pc[p] = "load"
    /\ IF epoch[p] # Released /\ word[p] = epoch[p]
       THEN GoesTo(p, "sleep") /\ UNCHANGED epoch
       ELSE epoch' = [epoch EXCEPT ![p] = WordReturned(p)] /\ GoesTo(p, "resume")
    /\ UNCHANGED <<queues, word, hasControl, control, created>>

\* Mutant: the wait parks its caller whatever the word holds by then.
ParksBlindly(p) == TRUE

\* wait_while_equal(m_word, value)
Parks(p) == word[p] = epoch[p]

WaitSleeps(p) ==
    /\ pc[p] = "sleep"
    /\ GoesTo(p, IF Parks(p) THEN "asleep" ELSE "load")
    /\ UNCHANGED <<queues, word, hasControl, control, created, epoch>>

WakesSpuriously(p) ==
    /\ pc[p] = "asleep"
    /\ GoesTo(p, "load")
    /\ UNCHANGED <<queues, word, hasControl, control, created, epoch>>

WaitResumes(p) ==
    /\ pc[p] = "resume"
    /\ Marks(p, "Running")
    /\ GoesTo(p, "top")
    /\ UNCHANGED <<queues, word, hasControl, exitRequest, failure, created, epoch>>

\* mark_exited(), whatever the state was, and the return from the entry point.
ThreadExits(p) ==
    /\ pc[p] = "exit"
    /\ Marks(p, "Exited")
    /\ GoesTo(p, "return")
    /\ UNCHANGED <<queues, word, hasControl, exitRequest, failure, created, epoch>>

ThreadEnds(p) ==
    /\ pc[p] = "return"
    /\ GoesTo(p, "ended")
    /\ UNCHANGED <<queues, word, hasControl, control, created, epoch>>

\* What a thread does without its entry point's help.
PackageStep(p) ==
    \/ WaitMarks(p) \/ WaitLoads(p) \/ WaitSleeps(p) \/ WaitResumes(p)
    \/ ThreadExits(p) \/ ThreadEnds(p)

----------------------------------------------------------------------------
(* The invariants of a package *)

Places ==
    {"none", "startup", "kick", "run", "top", "drain", "read", "serve", "decide",
     "wait", "load", "sleep", "asleep", "resume", "fail",
     "exit", "return", "ended"}

States == {"Empty", "Pending", "Startup", "Running", "Waiting", "Exited", "Failed"}

PackageTypeOK ==
    /\ word \in [Packages -> 0 .. Released]
    /\ hasControl \in [Packages -> BOOLEAN]
    /\ exitRequest \in [Packages -> BOOLEAN]
    /\ runState \in [Packages -> States]
    /\ failure \in [Packages -> 0 .. 2]
    /\ created \in [Packages -> BOOLEAN]
    /\ pc \in [Packages -> Places]
    /\ epoch \in [Packages -> 0 .. Released]
=============================================================================
