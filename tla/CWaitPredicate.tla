--------------------------- MODULE CWaitPredicate ---------------------------
(***************************************************************************)
(* threading::CWaitPredicate with its two ways to wait: the platform's     *)
(* wait word, and the parking gate of a build without one.                 *)
(*                                                                         *)
(* One thread holds control and modifies the word, as the parking gate     *)
(* requires; the waiters are other threads, each with a ticket of its own. *)
(* Every call is split at its accesses to the word, to the gate's state    *)
(* and to its locks, and at the wake-up.  A modification and the wake-up   *)
(* after it are separate steps, so the calls that do only the one or the   *)
(* other are halves of what is here.  The build, and the threads that wait *)
(* at all, are chosen in the initial state.                                *)
(***************************************************************************)
EXTENDS CParkingGate, FiniteSets

CONSTANTS
    Waiters,
    Controller,
    KMaxPredicateWord,  \* k_max_predicate_word
    AskedValues         \* bound: the values that are waited for

ASSUME PredicateAssumption ==
    /\ IsFiniteSet(Waiters) /\ Waiters # {}
    /\ Controller \notin Waiters
    /\ Nobody \notin Waiters \cup {Controller}
    /\ KMaxPredicateWord \in Nat
    /\ AskedValues \subseteq 0 .. KMaxPredicateWord

VARIABLES
    native,             \* MV_PLATFORM_HAS_NATIVE_WAIT_WORD
    present,            \* the waiters there are
    word,               \* m_word
    hasControl,         \* m_has_control
    cpc, arg, all,      \* the controller: its place, initial_value, whom it wakes
    wpc, call, seen,    \* per waiter: its place, its call and the word it saw
    ticket, pass        \* per waiter: m_state of its ticket, and its way through the gate

setup == <<native, present>>
controllerVars == <<hasControl, cpc, arg, all>>
waiterVars == <<wpc, call, seen, ticket, pass>>
vars == <<gateVars, setup, word, controllerVars, waiterVars>>

Values == 0 .. KMaxPredicateWord
Released == KMaxPredicateWord + 1       \* k_control_released_word
Calls == [until : {"equal", "not equal"}, value : AskedValues]

\* Mutant: the word counts on into the sentinel.
NextWithoutWrap(v) == v + 1

next_predicate_word(v) == IF v >= KMaxPredicateWord THEN 0 ELSE v + 1
previous_predicate_word(v) == IF v = 0 THEN KMaxPredicateWord ELSE v - 1

\* What a waiter waits for, and when it stops.
Holds(c, w) == IF c.until = "equal" THEN w = c.value ELSE w # c.value
Stops(c, w) == Holds(c, w) \/ w = Released

Asleep == {w \in Waiters : wpc[w] = "asleep"}

\* Mutant: the wait parks its caller whatever the word holds by then.
ParksBlindly(w) == TRUE

\* wait_while_equal(m_word, seen)
Parks(w) == word = seen[w]

\* Mutant: release_control() wakes one waiter.
FreedOne == IF Asleep = {} THEN {} ELSE {CHOOSE w \in Asleep : TRUE}

\* The waiters release_control() wakes.
Freed == Asleep

Woken(S) == [w \in Waiters |-> IF w \in S THEN "load" ELSE wpc[w]]

----------------------------------------------------------------------------

Init ==
    /\ GateInit
    /\ native \in BOOLEAN
    /\ present \in SUBSET Waiters \ {{}}
    /\ word = Released /\ hasControl = FALSE
    /\ cpc = "idle" /\ arg = 0 /\ all = FALSE
    /\ wpc = [w \in Waiters |-> "idle"]
    /\ call \in [Waiters -> {[until |-> "equal", value |-> 0]}]
    /\ seen = [w \in Waiters |-> 0]
    /\ ticket = [w \in Waiters |-> Unused]
    /\ pass = [w \in Waiters |-> Unused]

----------------------------------------------------------------------------
(* The controller: acquire_control() *)

acquire_control(v) ==
    /\ cpc = "idle" /\ ~hasControl /\ word = Released
    /\ arg' = v
    /\ cpc' = IF native THEN "store" ELSE "close"
    /\ UNCHANGED <<gateVars, setup, word, hasControl, all, waiterVars>>

CloseFirst ==
    /\ cpc = "close"
    /\ Locks(Controller, 0)
    /\ cpc' = "take"
    /\ UNCHANGED <<state, setup, word, hasControl, arg, all, waiterVars>>

TakeGate ==
    /\ cpc = "take"
    /\ state' = Taken
    /\ cpc' = "store"
    /\ UNCHANGED <<owner, setup, word, hasControl, arg, all, waiterVars>>

StoreInitial ==
    /\ cpc = "store"
    /\ word' = arg /\ hasControl' = TRUE
    /\ arg' = 0 /\ cpc' = "idle"
    /\ UNCHANGED <<gateVars, setup, all, waiterVars>>

(* release_control() *)

release_control ==
    /\ cpc = "idle" /\ hasControl
    /\ word' = Released
    /\ cpc' = IF native THEN "free" ELSE "give up"
    /\ UNCHANGED <<gateVars, setup, hasControl, arg, all, waiterVars>>

Free ==
    /\ cpc = "free"
    /\ wpc' = Woken(Freed)
    /\ hasControl' = FALSE /\ cpc' = "idle"
    /\ UNCHANGED <<gateVars, setup, word, arg, all, call, seen, ticket, pass>>

\* The phase is stored as 0; the lock to open is that of the state before.
GiveUpGate ==
    /\ cpc = "give up"
    /\ arg' = Opened(state)
    /\ state' = GivenUp
    /\ cpc' = "open last"
    /\ UNCHANGED <<owner, setup, word, hasControl, all, waiterVars>>

OpenLast ==
    /\ cpc = "open last"
    /\ Unlocks(Controller, arg)
    /\ arg' = 0 /\ hasControl' = FALSE /\ cpc' = "idle"
    /\ UNCHANGED <<state, setup, word, all, waiterVars>>

----------------------------------------------------------------------------
(* The controller: set(), increment() and decrement(), each with a wake-up. *)
(* One waiter is woken only where there is just one, as in host.cpp.        *)

Modify(new, wakesAll) ==
    /\ cpc = "idle" /\ hasControl /\ word # Released
    /\ wakesAll \/ Cardinality(present) = 1
    /\ word' = new /\ all' = wakesAll
    /\ cpc' = IF native THEN "wake" ELSE "cycle"
    /\ UNCHANGED <<gateVars, setup, hasControl, arg, waiterVars>>

set_and_wake(v, a) == Modify(v, a)
increment_and_wake(a) == Modify(next_predicate_word(word), a)
decrement_and_wake(a) == Modify(previous_predicate_word(word), a)

Wake ==
    /\ cpc = "wake"
    /\ IF all \/ Asleep = {}
       THEN wpc' = Woken(Asleep)
       ELSE \E w \in Asleep : wpc' = Woken({w})
    /\ all' = FALSE /\ cpc' = "idle"
    /\ UNCHANGED <<gateVars, setup, word, hasControl, arg, call, seen, ticket, pass>>

\* cycle_phase(): the open lock is closed, the phase published, the other opened.
CloseOpen ==
    /\ cpc = "cycle"
    /\ Locks(Controller, Other(state.phase))
    /\ cpc' = "publish"
    /\ UNCHANGED <<state, setup, word, hasControl, arg, all, waiterVars>>

PublishPhase ==
    /\ cpc = "publish"
    /\ arg' = Opened(state)
    /\ state' = Cycled
    /\ cpc' = "open"
    /\ UNCHANGED <<owner, setup, word, hasControl, all, waiterVars>>

OpenClosed ==
    /\ cpc = "open"
    /\ Unlocks(Controller, arg)
    /\ arg' = 0 /\ all' = FALSE /\ cpc' = "idle"
    /\ UNCHANGED <<state, setup, word, hasControl, waiterVars>>

----------------------------------------------------------------------------
(* A waiter: wait_until_equal() and wait_until_not_equal() *)

Goes(w, to) == wpc' = [wpc EXCEPT ![w] = to]

wait_until(w, c) ==
    /\ w \in present /\ wpc[w] = "idle"
    /\ call' = [call EXCEPT ![w] = c]
    /\ Goes(w, "load")
    /\ UNCHANGED <<gateVars, setup, word, controllerVars, seen, ticket, pass>>

\* The call returns, and its locals end with it, or waits on what it has seen.
Load(w) ==
    /\ wpc[w] = "load"
    /\ IF Stops(call[w], word)
       THEN /\ Goes(w, "idle")
            /\ call' = [call EXCEPT ![w] = [until |-> "equal", value |-> 0]]
            /\ seen' = [seen EXCEPT ![w] = 0]
       ELSE /\ Goes(w, IF native THEN "wait" ELSE "park")
            /\ seen' = [seen EXCEPT ![w] = IF native THEN word ELSE 0]
            /\ UNCHANGED call
    /\ UNCHANGED <<gateVars, setup, word, controllerVars, ticket, pass>>

Wait(w) ==
    /\ wpc[w] = "wait"
    /\ Goes(w, IF Parks(w) THEN "asleep" ELSE "load")
    /\ UNCHANGED <<gateVars, setup, word, controllerVars, call, seen, ticket, pass>>

WakesSpuriously(w) ==
    /\ wpc[w] = "asleep"
    /\ Goes(w, "load")
    /\ UNCHANGED <<gateVars, setup, word, controllerVars, call, seen, ticket, pass>>

park(w) ==
    /\ wpc[w] = "park"
    /\ IF PassesBy(ticket[w], state)
       THEN /\ ticket' = [ticket EXCEPT ![w] = state]
            /\ Goes(w, "load")
            /\ UNCHANGED pass
       ELSE /\ pass' = [pass EXCEPT ![w] = Passage(ticket[w], state)]
            /\ Goes(w, "enter")
            /\ UNCHANGED ticket
    /\ UNCHANGED <<gateVars, setup, word, controllerVars, call, seen>>

Enter(w) ==
    /\ wpc[w] = "enter"
    /\ Locks(w, pass[w].phase)
    /\ Goes(w, "leave")
    /\ UNCHANGED <<state, setup, word, controllerVars, call, seen, ticket, pass>>

Leave(w) ==
    /\ wpc[w] = "leave"
    /\ Unlocks(w, pass[w].phase)
    /\ ticket' = [ticket EXCEPT ![w] = TicketAfter(pass[w])]
    /\ pass' = [pass EXCEPT ![w] = Unused]
    /\ Goes(w, "load")
    /\ UNCHANGED <<state, setup, word, controllerVars, call, seen>>

----------------------------------------------------------------------------

Control ==
    \/ \E v \in Values : acquire_control(v)
    \/ release_control
    \/ \E a \in BOOLEAN :
          \/ \E v \in Values : set_and_wake(v, a)
          \/ increment_and_wake(a)
          \/ decrement_and_wake(a)
ControlContinues ==
    \/ CloseFirst \/ TakeGate \/ StoreInitial
    \/ Free \/ GiveUpGate \/ OpenLast
    \/ Wake \/ CloseOpen \/ PublishPhase \/ OpenClosed
WaitContinues(w) == Load(w) \/ Wait(w) \/ park(w) \/ Enter(w) \/ Leave(w)

Next ==
    \/ Control \/ ControlContinues
    \/ \E w \in Waiters :
          \/ \E c \in Calls : wait_until(w, c)
          \/ WaitContinues(w) \/ WakesSpuriously(w)

Spec == Init /\ [][Next]_vars

\* A running thread runs on, and a lock that stays free is got in the end.
\* Nothing makes anyone begin a call, and nothing but a wake-up makes a
\* sleeping waiter run.
Fairness ==
    /\ WF_vars(ControlContinues)
    /\ \A w \in Waiters : WF_vars(WaitContinues(w))

FairSpec == Spec /\ Fairness

----------------------------------------------------------------------------
(* Properties *)

\* No assertion of the predicate, its gate and the locks fails: a lock is
\* opened by the thread that closed it, ordinary modification never stores the
\* sentinel, and between two lifetimes the destructors find nothing held.
AssertionsHold ==
    /\ cpc \in {"open", "open last"} => owner[arg] = Controller
    /\ \A w \in Waiters : wpc[w] = "leave" => owner[pass[w].phase] = w
    /\ cpc = "idle" /\ hasControl => word # Released /\ (native \/ state.controlled)
    /\ cpc = "idle" /\ ~hasControl =>
          /\ word = Released /\ ~state.controlled
          /\ \A g \in Phases : owner[g] # Controller

\* Every waiter returns once control is released for good, parked or about to.
ReleaseFreesWaiters ==
    \A w \in Waiters :
        (word = Released /\ wpc[w] # "idle") ~> (word # Released \/ wpc[w] = "idle")

\* No waiter keeps the controller out of a lock for ever.
ControllerGetsThrough == cpc # "idle" ~> cpc = "idle"

\* With the wait word a waiter returns if what it waits for comes to stay.
NativeWaitsEnd ==
    \A w \in Waiters :
        (native /\ wpc[w] # "idle" /\ Holds(call[w], word))
            ~> (wpc[w] = "idle" \/ ~Holds(call[w], word))
=============================================================================
