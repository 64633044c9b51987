------------------------ MODULE CWaitPredicateProofs ------------------------
(***************************************************************************)
(* Proofs about CWaitPredicate, for any number of waiters and generations, *)
(* any width of the word and both builds.                                  *)
(***************************************************************************)
EXTENDS CWaitPredicate, TLAPS

USE GateAssumption, PredicateAssumption

ControllerPlaces ==
    {"idle", "close", "take", "store", "free", "give up", "open last",
     "wake", "cycle", "publish", "open"}
WaiterPlaces == {"idle", "load", "wait", "asleep", "park", "enter", "leave"}

TypeOK ==
    /\ state \in States
    /\ owner \in [Phases -> Waiters \cup {Controller, Nobody}]
    /\ native \in BOOLEAN /\ present \subseteq Waiters
    /\ word \in 0 .. Released
    /\ hasControl \in BOOLEAN
    /\ cpc \in ControllerPlaces /\ all \in BOOLEAN
    /\ arg \in Nat
    /\ wpc \in [Waiters -> WaiterPlaces]
    /\ call \in [Waiters -> [until : {"equal", "not equal"}, value : Nat]]
    /\ seen \in [Waiters -> Nat]
    /\ ticket \in [Waiters -> States] /\ pass \in [Waiters -> States]

\* Control is held, and the word holds a value, from one store to the other;
\* a build uses its own way to wait and never the other.
LifetimeFollows ==
    /\ cpc \in {"close", "take", "store"} => ~hasControl /\ word = Released /\ arg \in Values
    /\ cpc \in {"wake", "cycle", "publish", "open"} => hasControl /\ word # Released
    /\ cpc \in {"free", "give up", "open last"} => hasControl /\ word = Released
    /\ cpc = "idle" => (hasControl <=> word # Released)
    /\ native => cpc \in {"idle", "store", "free", "wake"}
    /\ ~native => cpc \notin {"free", "wake"}

\* The controller keeps the lock of the phase; it has both while it changes the
\* phase, and the one it is about to open is among them.
GateHeld == ~native =>
    /\ state.controlled <=> \/ cpc \in {"store", "cycle", "publish", "open", "give up"}
                            \/ cpc = "idle" /\ hasControl
    /\ cpc \in {"take", "store"} => owner[0] = Controller /\ owner[1] # Controller
    /\ cpc = "store" => state.phase = 0
    /\ cpc \in {"cycle", "give up"} \/ (cpc = "idle" /\ hasControl) =>
          owner[state.phase] = Controller /\ owner[Other(state.phase)] # Controller
    /\ cpc \in {"publish", "open"} => \A g \in Phases : owner[g] = Controller
    /\ cpc = "open" => arg = Other(state.phase)
    /\ cpc = "open last" =>
          arg \in Phases /\ owner[arg] = Controller /\ owner[Other(arg)] # Controller
    /\ cpc = "close" \/ (cpc = "idle" /\ ~hasControl) => \A g \in Phases : owner[g] # Controller

\* The gate of a build with a wait word is never touched.
GateUnused == native =>
    /\ state = Unused
    /\ \A g \in Phases : owner[g] = Nobody
    /\ \A w \in Waiters : wpc[w] \notin {"park", "enter", "leave"}

\* A parker has the lock that it is about to leave by.
PassageHeld == \A w \in Waiters : wpc[w] = "leave" => owner[pass[w].phase] = w

IInv == TypeOK /\ LifetimeFollows /\ GateHeld /\ GateUnused /\ PassageHeld

----------------------------------------------------------------------------
(* The locks and the states of the gate *)

People == Waiters \cup {Controller, Nobody}

LEMMA LockTyped ==
    ASSUME TypeOK, NEW t \in People, NEW g \in Phases, Locks(t, g)
    PROVE  /\ owner' \in [Phases -> People]
           /\ owner[g] = Nobody /\ owner'[g] = t
           /\ \A h \in Phases : h # g => owner'[h] = owner[h]
BY DEF TypeOK, Locks, People

LEMMA UnlockTyped ==
    ASSUME TypeOK, NEW t \in People, NEW g \in Phases, Unlocks(t, g)
    PROVE  /\ owner' \in [Phases -> People]
           /\ owner'[g] = IF owner[g] = t THEN Nobody ELSE owner[g]
           /\ \A h \in Phases : h # g => owner'[h] = owner[h]
BY DEF TypeOK, Unlocks, People

LEMMA StatesTyped ==
    /\ Unused \in States
    /\ \A s \in States :
          /\ s.phase \in Phases /\ Other(s.phase) \in Phases /\ Other(s.phase) # s.phase
          /\ Other(Other(s.phase)) = s.phase
          /\ [s EXCEPT !.phase = Other(@)] \in States
    /\ \A s, u \in States : Passage(s, u) \in States /\ TicketAfter(s) \in States
BY DEF Unused, States, Phases, Other, Passage, TicketAfter

LEMMA PhaseTyped ==
    ASSUME NEW s \in States
    PROVE  s.phase \in Phases /\ s.phase \in Nat /\ Other(s.phase) \in Phases
BY DEF States, Phases, Other

LEMMA WordTyped ==
    ASSUME TypeOK
    PROVE  word \in Nat /\ (word # Released => word \in Values)
<1>1. word \in 0 .. KMaxPredicateWord + 1 /\ KMaxPredicateWord \in Nat
  BY DEF TypeOK, Released
<1>. QED
  BY <1>1 DEF Values, Released

LEMMA GateTyped ==
    ASSUME TypeOK
    PROVE  /\ Taken \in States /\ Taken.controlled /\ Taken.phase = 0
           /\ GivenUp \in States /\ ~GivenUp.controlled
           /\ Cycled \in States /\ Cycled.phase = Other(state.phase)
           /\ Cycled.controlled = state.controlled
           /\ Opened(state) = state.phase
<1>1. state \in States
  BY DEF TypeOK
<1>2. (state.generation + 1) % Generations \in 0 .. Generations - 1
  BY <1>1 DEF States
<1>3. Taken \in States /\ Taken.controlled /\ Taken.phase = 0
  BY <1>2 DEF Taken, States, Phases
<1>4. GivenUp \in States /\ ~GivenUp.controlled
  <2>1. state.generation \in 0 .. Generations - 1
    BY <1>1 DEF States
  <2>. QED
    BY <2>1 DEF GivenUp, States, Phases
<1>5. /\ Cycled \in States /\ Cycled.phase = Other(state.phase)
      /\ Cycled.controlled = state.controlled
  BY <1>1 DEF Cycled, States, Phases, Other
<1>. QED
  BY <1>3, <1>4, <1>5 DEF Opened

----------------------------------------------------------------------------

LEMMA InitInv == Init => IInv
<1>. SUFFICES ASSUME Init PROVE IInv
  OBVIOUS
<1>1. state = Unused /\ owner = [g \in Phases |-> Nobody]
  BY DEF Init, GateInit
<1>2. TypeOK
  <2>1. state \in States /\ owner \in [Phases -> Waiters \cup {Controller, Nobody}]
    BY <1>1, StatesTyped
  <2>2. native \in BOOLEAN /\ present \subseteq Waiters /\ word \in 0 .. Released
    BY DEF Init, Released
  <2>3. call \in [Waiters -> [until : {"equal", "not equal"}, value : Nat]]
    <3>1. [until |-> "equal", value |-> 0] \in [until : {"equal", "not equal"}, value : Nat]
      OBVIOUS
    <3>. QED
      BY <3>1 DEF Init
  <2>4. ticket \in [Waiters -> States] /\ pass \in [Waiters -> States]
    BY StatesTyped DEF Init
  <2>. QED
    BY <2>1, <2>2, <2>3, <2>4 DEF Init, TypeOK, ControllerPlaces, WaiterPlaces
<1>3. ~Unused.controlled
  BY DEF Unused
<1>. QED
  BY <1>1, <1>2, <1>3 DEF Init, IInv, LifetimeFollows, GateHeld, GateUnused, PassageHeld

----------------------------------------------------------------------------
(* The controller *)

\* A lock that the controller closes or opens is no waiter's.
LEMMA PassageKept ==
    ASSUME IInv, UNCHANGED pass,
           \A w \in Waiters : wpc'[w] = "leave" => wpc[w] = "leave",
           \A g \in Phases : owner[g] \in Waiters => owner'[g] = owner[g]
    PROVE  PassageHeld'
<1>1. \A w \in Waiters : pass[w].phase \in Phases
  BY StatesTyped DEF IInv, TypeOK
<1>. QED
  BY <1>1 DEF IInv, PassageHeld

\* Steps that leave the gate's locks and the waiters alone.
LEMMA WordStep ==
    ASSUME IInv, UNCHANGED <<gateVars, setup, waiterVars>>, arg' \in Nat, all' \in BOOLEAN,
           word' \in 0 .. Released, hasControl' \in BOOLEAN, cpc' \in ControllerPlaces,
           LifetimeFollows', GateHeld'
    PROVE  IInv'
BY DEF IInv, TypeOK, GateUnused, PassageHeld, gateVars, setup, waiterVars

LEMMA TakeStep ==
    ASSUME IInv, (\E v \in Values : acquire_control(v)) \/ StoreInitial
    PROVE  IInv'
<1>1. UNCHANGED <<gateVars, setup, waiterVars>> /\ all' = all
  BY DEF acquire_control, StoreInitial
<1>2. CASE \E v \in Values : acquire_control(v)
  <2>1. /\ cpc = "idle" /\ ~hasControl /\ word = Released /\ arg' \in Nat
        /\ cpc' = IF native THEN "store" ELSE "close"
        /\ arg' \in Values /\ UNCHANGED <<word, hasControl>>
    BY <1>2 DEF acquire_control, Values
  <2>2. LifetimeFollows' /\ GateHeld'
    BY <1>1, <2>1 DEF IInv, TypeOK, LifetimeFollows, GateHeld, gateVars, setup
  <2>. QED
    BY <1>1, <2>1, <2>2, WordStep DEF IInv, TypeOK, ControllerPlaces
<1>3. CASE StoreInitial
  <2>1. cpc = "store" /\ word' = arg /\ hasControl' = TRUE /\ arg' = 0 /\ cpc' = "idle"
    BY <1>3 DEF StoreInitial
  <2>2. word' \in 0 .. Released /\ word' # Released
    BY <2>1 DEF IInv, LifetimeFollows, Values, Released
  <2>3. LifetimeFollows' /\ GateHeld'
    <3>1. LifetimeFollows'
      BY <1>1, <2>1, <2>2 DEF IInv, LifetimeFollows, setup
    <3>5. native' = native /\ state' = state /\ owner' = owner
      BY <1>1 DEF setup, gateVars
    <3>2. CASE native
      BY <3>5, <3>1, <3>2 DEF GateHeld
    <3>3. ASSUME ~native
          PROVE  /\ state.controlled /\ Other(state.phase) = 1
                 /\ owner[state.phase] = Controller /\ owner[Other(state.phase)] # Controller
      BY <2>1, <3>3 DEF IInv, GateHeld, Other
    <3>4. CASE ~native
      <4>1. state'.controlled /\ Other(state'.phase) = 1
            /\ owner'[state'.phase] = Controller /\ owner'[Other(state'.phase)] # Controller
        BY <3>5, <3>3, <3>4
      <4>. QED
        BY <2>1, <3>1, <4>1 DEF GateHeld
    <3>. QED
      BY <3>1, <3>2, <3>4
  <2>. QED
    BY <1>1, <2>1, <2>2, <2>3, WordStep DEF IInv, TypeOK, ControllerPlaces
<1>. QED
  BY <1>2, <1>3

\* The locks stay as they are, and waiters only wake up.
LEMMA StateStep ==
    ASSUME IInv, UNCHANGED <<owner, setup, call, seen, ticket, pass>>, state' \in States,
           arg' \in Nat, all' \in BOOLEAN,
           word' \in 0 .. Released, hasControl' \in BOOLEAN, cpc' \in ControllerPlaces,
           wpc' \in [Waiters -> WaiterPlaces],
           \A w \in Waiters : wpc'[w] \in {wpc[w], "load"},
           native => state' = state,
           LifetimeFollows', GateHeld'
    PROVE  IInv'
<1>1. PassageHeld'
  BY PassageKept
<1>2. GateUnused'
  BY DEF IInv, GateUnused, setup
<1>. QED
  BY <1>1, <1>2 DEF IInv, TypeOK, setup

\* The controller closes or opens the lock g.
LEMMA LockStep ==
    ASSUME IInv, ~native, UNCHANGED <<state, setup, word, waiterVars>>,
           NEW g \in Phases, Locks(Controller, g) \/ Unlocks(Controller, g),
           arg' \in Nat, all' \in BOOLEAN, hasControl' \in BOOLEAN, cpc' \in ControllerPlaces,
           LifetimeFollows', GateHeld'
    PROVE  IInv'
<1>1. TypeOK /\ Controller \in People
  BY DEF IInv, People
<1>2. owner' \in [Phases -> People] /\ \A h \in Phases : owner[h] \in Waiters => owner'[h] = owner[h]
  BY <1>1, LockTyped, UnlockTyped
<1>3. PassageHeld'
  BY <1>2, PassageKept DEF waiterVars
<1>4. TypeOK'
  BY <1>1, <1>2 DEF TypeOK, waiterVars, setup, People
<1>. QED
  BY <1>3, <1>4 DEF IInv, GateUnused, setup

LEMMA CloseStep == ASSUME IInv, CloseFirst PROVE IInv'
<1>1. /\ cpc = "close" /\ Locks(Controller, 0) /\ cpc' = "take"
      /\ UNCHANGED <<state, setup, word, hasControl, arg, all, waiterVars>>
  BY DEF CloseFirst
<1>2. TypeOK /\ ~native /\ Controller \in People /\ 0 \in Phases /\ 1 \in Phases
  BY <1>1 DEF IInv, LifetimeFollows, People, Phases
<1>3. owner'[0] = Controller /\ owner'[1] = owner[1]
  BY <1>1, <1>2, LockTyped
<1>4. LifetimeFollows'
  BY <1>1, <1>2 DEF IInv, LifetimeFollows, setup
<1>5. GateHeld'
  BY <1>1, <1>2, <1>3 DEF IInv, GateHeld, setup
<1>. QED
  BY <1>1, <1>2, <1>4, <1>5, LockStep DEF TypeOK, ControllerPlaces

LEMMA TakeGateStep == ASSUME IInv, TakeGate PROVE IInv'
<1>1. /\ cpc = "take" /\ state' = Taken /\ cpc' = "store"
      /\ UNCHANGED <<owner, setup, word, hasControl, arg, all, waiterVars>>
  BY DEF TakeGate
<1>2. TypeOK /\ ~native
  BY <1>1 DEF IInv, LifetimeFollows
<1>3. LifetimeFollows'
  BY <1>1, <1>2 DEF IInv, LifetimeFollows, setup
<1>4. GateHeld'
  BY <1>1, <1>2, GateTyped DEF IInv, GateHeld, setup
<1>. QED
  BY <1>1, <1>2, <1>3, <1>4, GateTyped, StateStep DEF TypeOK, ControllerPlaces, waiterVars

LEMMA ReleaseStep == ASSUME IInv, release_control PROVE IInv'
<1>1. /\ cpc = "idle" /\ hasControl /\ word' = Released
      /\ cpc' = IF native THEN "free" ELSE "give up"
      /\ UNCHANGED <<gateVars, setup, hasControl, arg, all, waiterVars>>
  BY DEF release_control
<1>2. Released \in 0 .. Released
  BY DEF Released
<1>3. LifetimeFollows' /\ GateHeld'
  BY <1>1 DEF IInv, TypeOK, LifetimeFollows, GateHeld, gateVars, setup
<1>. QED
  BY <1>1, <1>2, <1>3, WordStep DEF IInv, TypeOK, ControllerPlaces

\* A wake-up makes its waiters load the word again.
LEMMA WokenTyped ==
    ASSUME TypeOK, NEW S
    PROVE  /\ Woken(S) \in [Waiters -> WaiterPlaces]
           /\ \A w \in Waiters : Woken(S)[w] \in {wpc[w], "load"}
BY DEF TypeOK, Woken, WaiterPlaces

LEMMA WakeStep == ASSUME IInv, Free \/ Wake PROVE IInv'
<1>1. /\ cpc \in {"free", "wake"} /\ cpc' = "idle"
      /\ UNCHANGED <<gateVars, setup, word, arg, call, seen, ticket, pass>>
      /\ all' \in {all, FALSE}
      /\ hasControl' = IF cpc = "free" THEN FALSE ELSE hasControl
  BY DEF Free, Wake
<1>2. PICK S : wpc' = Woken(S)
  BY DEF Free, Wake
<1>3. TypeOK /\ native
  BY <1>1 DEF IInv, LifetimeFollows
<1>4. LifetimeFollows' /\ GateHeld'
  BY <1>1, <1>3 DEF IInv, TypeOK, LifetimeFollows, GateHeld, setup
<1>5. /\ wpc' \in [Waiters -> WaiterPlaces]
      /\ \A w \in Waiters : wpc'[w] \in {wpc[w], "load"}
  BY <1>2, <1>3, WokenTyped
<1>. QED
  BY <1>1, <1>3, <1>4, <1>5, StateStep DEF TypeOK, ControllerPlaces, gateVars

LEMMA GiveUpStep == ASSUME IInv, GiveUpGate PROVE IInv'
<1>1. /\ cpc = "give up" /\ arg' = state.phase /\ state' = GivenUp /\ cpc' = "open last"
      /\ UNCHANGED <<owner, setup, word, hasControl, all, waiterVars>>
  BY DEF GiveUpGate, Opened
<1>2. TypeOK /\ ~native /\ state \in States
  BY <1>1 DEF IInv, LifetimeFollows, TypeOK
<1>3. state.phase \in Phases /\ arg' \in Nat
  BY <1>1, <1>2, PhaseTyped
<1>4. LifetimeFollows'
  BY <1>1, <1>2 DEF IInv, LifetimeFollows, setup
<1>5. GateHeld'
  BY <1>1, <1>2, <1>3, GateTyped DEF IInv, GateHeld, setup
<1>. QED
  BY <1>1, <1>2, <1>3, <1>4, <1>5, GateTyped, StateStep DEF TypeOK, ControllerPlaces, waiterVars

LEMMA OpenLastStep == ASSUME IInv, OpenLast PROVE IInv'
<1>1. /\ cpc = "open last" /\ Unlocks(Controller, arg) /\ arg' = 0
      /\ hasControl' = FALSE /\ cpc' = "idle"
      /\ UNCHANGED <<state, setup, word, all, waiterVars>>
  BY DEF OpenLast
<1>2. TypeOK /\ ~native /\ Controller \in People /\ Nobody # Controller
  BY <1>1 DEF IInv, LifetimeFollows, People
<1>3. arg \in Phases /\ owner[arg] = Controller /\ owner[Other(arg)] # Controller
  BY <1>1, <1>2 DEF IInv, GateHeld
<1>4. owner'[arg] = Nobody /\ \A h \in Phases : h # arg => owner'[h] = owner[h]
  BY <1>1, <1>2, <1>3, UnlockTyped
<1>5. \A h \in Phases : h # arg => h = Other(arg)
  BY <1>3 DEF Phases, Other
<1>6. LifetimeFollows'
  BY <1>1, <1>2 DEF IInv, LifetimeFollows, setup
<1>7. GateHeld'
  BY <1>1, <1>2, <1>3, <1>4, <1>5 DEF IInv, GateHeld, setup
<1>. QED
  BY <1>1, <1>2, <1>3, <1>6, <1>7, LockStep DEF TypeOK, ControllerPlaces

LEMMA WordsTyped ==
    ASSUME NEW v \in Values
    PROVE  next_predicate_word(v) \in Values /\ previous_predicate_word(v) \in Values
BY DEF Values, next_predicate_word, previous_predicate_word

LEMMA ModifyStep == ASSUME IInv, NEW v \in Values, NEW a \in BOOLEAN, Modify(v, a) PROVE IInv'
<1>1. /\ cpc = "idle" /\ hasControl /\ word # Released /\ word' = v /\ all' = a
      /\ cpc' = IF native THEN "wake" ELSE "cycle"
      /\ UNCHANGED <<gateVars, setup, hasControl, arg, waiterVars>>
  BY DEF Modify
<1>2. v \in 0 .. Released /\ v # Released
  BY DEF Values, Released
<1>3. LifetimeFollows' /\ GateHeld'
  BY <1>1, <1>2 DEF IInv, TypeOK, LifetimeFollows, GateHeld, gateVars, setup
<1>. QED
  BY <1>1, <1>2, <1>3, WordStep DEF IInv, TypeOK, ControllerPlaces

LEMMA CloseOpenStep == ASSUME IInv, CloseOpen PROVE IInv'
<1>1. /\ cpc = "cycle" /\ Locks(Controller, Other(state.phase)) /\ cpc' = "publish"
      /\ UNCHANGED <<state, setup, word, hasControl, arg, all, waiterVars>>
  BY DEF CloseOpen
<1>2. TypeOK /\ ~native /\ Controller \in People /\ state \in States
  BY <1>1 DEF IInv, LifetimeFollows, People, TypeOK
<1>3. state.phase \in Phases /\ Other(state.phase) \in Phases
  BY <1>2, StatesTyped
<1>4. /\ owner'[Other(state.phase)] = Controller
      /\ \A h \in Phases : h # Other(state.phase) => owner'[h] = owner[h] /\ h = state.phase
  BY <1>1, <1>2, <1>3, LockTyped DEF Phases, Other
<1>5. owner[state.phase] = Controller
  BY <1>1, <1>2 DEF IInv, GateHeld
<1>6. LifetimeFollows'
  BY <1>1, <1>2 DEF IInv, LifetimeFollows, setup
<1>7. GateHeld'
  BY <1>1, <1>2, <1>4, <1>5 DEF IInv, GateHeld, setup
<1>. QED
  BY <1>1, <1>2, <1>3, <1>6, <1>7, LockStep DEF TypeOK, ControllerPlaces

LEMMA PublishStep == ASSUME IInv, PublishPhase PROVE IInv'
<1>1. /\ cpc = "publish" /\ arg' = state.phase /\ state' = Cycled /\ cpc' = "open"
      /\ UNCHANGED <<owner, setup, word, hasControl, all, waiterVars>>
  BY DEF PublishPhase, Opened
<1>2. TypeOK /\ ~native /\ state \in States
  BY <1>1 DEF IInv, LifetimeFollows, TypeOK
<1>3. state.phase \in Phases /\ arg' \in Nat /\ Other(Other(state.phase)) = state.phase
  BY <1>1, <1>2, PhaseTyped, StatesTyped
<1>4. LifetimeFollows'
  BY <1>1, <1>2 DEF IInv, LifetimeFollows, setup
<1>5. GateHeld'
  BY <1>1, <1>2, <1>3, GateTyped DEF IInv, GateHeld, setup
<1>. QED
  BY <1>1, <1>2, <1>3, <1>4, <1>5, GateTyped, StateStep DEF TypeOK, ControllerPlaces, waiterVars

LEMMA OpenStep == ASSUME IInv, OpenClosed PROVE IInv'
<1>1. /\ cpc = "open" /\ Unlocks(Controller, arg) /\ arg' = 0 /\ all' = FALSE /\ cpc' = "idle"
      /\ UNCHANGED <<state, setup, word, hasControl, waiterVars>>
  BY DEF OpenClosed
<1>2. TypeOK /\ ~native /\ Controller \in People /\ state \in States /\ Nobody # Controller
  BY <1>1 DEF IInv, LifetimeFollows, People, TypeOK
<1>3. /\ state.phase \in Phases /\ Other(state.phase) \in Phases
      /\ Other(state.phase) # state.phase /\ arg = Other(state.phase)
      /\ owner[arg] = Controller /\ owner[state.phase] = Controller
  BY <1>1, <1>2, StatesTyped DEF IInv, GateHeld
<1>4. owner'[arg] = Nobody /\ owner'[state.phase] = Controller
  BY <1>1, <1>2, <1>3, UnlockTyped
<1>5. hasControl /\ LifetimeFollows'
  BY <1>1, <1>2 DEF IInv, LifetimeFollows, setup
<1>6. GateHeld'
  BY <1>1, <1>2, <1>3, <1>4, <1>5 DEF IInv, GateHeld, setup
<1>. QED
  BY <1>1, <1>2, <1>3, <1>5, <1>6, LockStep DEF TypeOK, ControllerPlaces

----------------------------------------------------------------------------
(* The waiters *)

\* What a waiter does short of the locks.
LEMMA WaiterStep ==
    ASSUME IInv, NEW w \in Waiters, UNCHANGED <<gateVars, setup, word, controllerVars>>,
           NEW to \in WaiterPlaces \ {"leave"}, Goes(w, to),
           native => to \notin {"park", "enter"},
           call' \in [Waiters -> [until : {"equal", "not equal"}, value : Nat]],
           seen' \in [Waiters -> Nat],
           ticket' \in [Waiters -> States], pass' \in [Waiters -> States],
           \A u \in Waiters : u # w => pass'[u] = pass[u]
    PROVE  IInv'
<1>1. wpc' \in [Waiters -> WaiterPlaces] /\ wpc'[w] = to /\ \A u \in Waiters : u # w => wpc'[u] = wpc[u]
  BY DEF Goes, IInv, TypeOK
<1>2. TypeOK'
  BY <1>1 DEF IInv, TypeOK, gateVars, setup, controllerVars
<1>3. LifetimeFollows' /\ GateHeld'
  BY DEF IInv, LifetimeFollows, GateHeld, gateVars, setup, controllerVars
<1>4. GateUnused' /\ PassageHeld'
  BY <1>1 DEF IInv, GateUnused, PassageHeld, gateVars, setup
<1>. QED
  BY <1>2, <1>3, <1>4 DEF IInv

LEMMA WaitStep ==
    ASSUME IInv, NEW w \in Waiters,
           (\E c \in Calls : wait_until(w, c)) \/ Load(w) \/ Wait(w) \/ WakesSpuriously(w)
    PROVE  IInv'
<1>1. TypeOK
  BY DEF IInv
<1>2. CASE \E c \in Calls : wait_until(w, c)
  <2>1. PICK c \in Calls : wait_until(w, c)
    BY <1>2
  <2>2. c \in [until : {"equal", "not equal"}, value : Nat]
    <3>1. AskedValues \subseteq Nat
      OBVIOUS
    <3>. QED
      BY <3>1 DEF Calls
  <2>3. call' \in [Waiters -> [until : {"equal", "not equal"}, value : Nat]]
    BY <1>1, <2>1, <2>2 DEF wait_until, TypeOK
  <2>. QED
    BY <1>1, <2>1, <2>3, WaiterStep DEF wait_until, TypeOK, WaiterPlaces
<1>3. CASE Load(w)
  <2>1. PICK to \in {"idle", "wait", "park"} : Goes(w, to) /\ (native => to # "park")
    BY <1>1, <1>3 DEF Load, TypeOK
  <2>2. [until |-> "equal", value |-> 0] \in [until : {"equal", "not equal"}, value : Nat]
    OBVIOUS
  <2>3. call' \in [Waiters -> [until : {"equal", "not equal"}, value : Nat]]
    BY <1>1, <1>3, <2>2 DEF Load, TypeOK
  <2>4. seen' \in [Waiters -> Nat]
    <3>1. word \in Nat /\ 0 \in Nat
      BY <1>1, WordTyped
    <3>. QED
      BY <1>1, <1>3, <3>1 DEF Load, TypeOK
  <2>5. UNCHANGED <<gateVars, setup, word, controllerVars, ticket, pass>>
    BY <1>3 DEF Load
  <2>. QED
    BY <1>1, <2>1, <2>3, <2>4, <2>5, WaiterStep DEF TypeOK, WaiterPlaces
<1>4. CASE Wait(w) \/ WakesSpuriously(w)
  <2>1. PICK to \in {"asleep", "load"} : Goes(w, to)
    BY <1>4 DEF Wait, WakesSpuriously
  <2>2. UNCHANGED <<gateVars, setup, word, controllerVars, call, seen, ticket, pass>>
    BY <1>4 DEF Wait, WakesSpuriously
  <2>. QED
    BY <1>1, <2>1, <2>2, WaiterStep DEF TypeOK, WaiterPlaces
<1>. QED
  BY <1>2, <1>3, <1>4

LEMMA ParkStep == ASSUME IInv, NEW w \in Waiters, park(w) PROVE IInv'
<1>1. TypeOK
  BY DEF IInv
<1>2. /\ wpc[w] = "park"
      /\ UNCHANGED <<gateVars, setup, word, controllerVars, call, seen>>
  BY DEF park
<1>3. ~native
  BY <1>2 DEF IInv, GateUnused, TypeOK
<1>4. PICK to \in {"load", "enter"} : Goes(w, to)
  BY DEF park
<1>5. ticket' \in [Waiters -> States]
  BY <1>1 DEF park, TypeOK
<1>6. pass' \in [Waiters -> States] /\ \A u \in Waiters : u # w => pass'[u] = pass[u]
  <2>1. Passage(ticket[w], state) \in States
    BY <1>1, StatesTyped DEF TypeOK
  <2>2. pass \in [Waiters -> States]
    BY <1>1 DEF TypeOK
  <2>. QED
    <3>1. pass' = pass \/ pass' = [pass EXCEPT ![w] = Passage(ticket[w], state)]
      BY DEF park
    <3>. QED
      BY <2>1, <2>2, <3>1
<1>. QED
  BY <1>1, <1>2, <1>3, <1>4, <1>5, <1>6, WaiterStep DEF TypeOK, WaiterPlaces

\* A parker closes and opens the lock of its passage, which is then no one
\* else's: it takes none from the controller.
LEMMA PassStep == ASSUME IInv, NEW w \in Waiters, Enter(w) \/ Leave(w) PROVE IInv'
<1>1. /\ wpc[w] \in {"enter", "leave"}
      /\ UNCHANGED <<state, setup, word, controllerVars, call, seen>>
  BY DEF Enter, Leave
<1>2. TypeOK /\ ~native /\ w \in People /\ w # Controller /\ w # Nobody
  BY <1>1 DEF IInv, GateUnused, TypeOK, People
<1>3. pass[w] \in States /\ pass[w].phase \in Phases
  BY <1>2, StatesTyped DEF TypeOK
<1>4. /\ owner' \in [Phases -> People]
      /\ \A h \in Phases : owner[h] # owner'[h] => h = pass[w].phase
      /\ owner[pass[w].phase] # Controller /\ owner'[pass[w].phase] # Controller
      /\ owner[pass[w].phase] \in {Nobody, w}
  <2>1. CASE Enter(w)
    BY <1>2, <1>3, <2>1, LockTyped DEF Enter
  <2>2. CASE Leave(w)
    <3>1. owner[pass[w].phase] = w
      BY <2>2 DEF IInv, PassageHeld, Leave
    <3>. QED
      BY <1>2, <1>3, <2>2, <3>1, UnlockTyped DEF Leave
  <2>. QED
    BY <2>1, <2>2
<1>5. /\ wpc' \in [Waiters -> WaiterPlaces]
      /\ \A u \in Waiters : u # w => wpc'[u] = wpc[u] /\ pass'[u] = pass[u]
      /\ ticket' \in [Waiters -> States] /\ pass' \in [Waiters -> States]
  <2>1. TicketAfter(pass[w]) \in States /\ Unused \in States
    BY <1>3, StatesTyped
  <2>2. CASE Enter(w)
    BY <1>2, <2>2 DEF Enter, Goes, TypeOK, WaiterPlaces
  <2>3. CASE Leave(w)
    BY <1>2, <2>1, <2>3 DEF Leave, Goes, TypeOK, WaiterPlaces
  <2>. QED
    BY <2>2, <2>3
<1>6. TypeOK'
  BY <1>1, <1>2, <1>4, <1>5 DEF TypeOK, setup, controllerVars, People
<1>7. LifetimeFollows' /\ GateUnused'
  BY <1>1, <1>2 DEF IInv, LifetimeFollows, GateUnused, setup, controllerVars
<1>8. GateHeld'
  <2>1. \A h \in Phases : owner'[h] = Controller <=> owner[h] = Controller
    BY <1>4
  <2>2. state.phase \in Phases /\ Other(state.phase) \in Phases /\ 0 \in Phases /\ 1 \in Phases
    <3>1. state \in States /\ 0 \in Phases /\ 1 \in Phases
      <4>1. 0 \in Phases /\ 1 \in Phases
        BY DEF Phases
      <4>. QED
        BY <1>2, <4>1 DEF TypeOK
    <3>. QED
      BY <3>1, PhaseTyped
  <2>3. arg \in Phases => Other(arg) \in Phases
    BY DEF Phases, Other
  <2>. QED
    BY <1>1, <1>2, <2>1, <2>2, <2>3 DEF IInv, GateHeld, setup, controllerVars
<1>9. PassageHeld'
  <2>1. ASSUME NEW u \in Waiters, u # w, wpc'[u] = "leave"
        PROVE  owner'[pass'[u].phase] = u
    <3>1. owner[pass[u].phase] = u /\ pass'[u] = pass[u] /\ pass[u].phase \in Phases
      BY <1>2, <1>5, <2>1, StatesTyped DEF IInv, PassageHeld, TypeOK
    <3>. QED
      BY <1>2, <1>4, <2>1, <3>1
  <2>2. wpc'[w] = "leave" => owner'[pass'[w].phase] = w
    <3>1. CASE Enter(w)
      BY <1>2, <1>3, <3>1, LockTyped DEF Enter
    <3>2. CASE Leave(w)
      BY <1>2, <3>2 DEF Leave, Goes, TypeOK
    <3>. QED
      BY <3>1, <3>2
  <2>. QED
    BY <2>1, <2>2 DEF PassageHeld
<1>. QED
  BY <1>6, <1>7, <1>8, <1>9 DEF IInv

----------------------------------------------------------------------------

LEMMA StepInv == IInv /\ [Next]_vars => IInv'
<1>. SUFFICES ASSUME IInv, [Next]_vars PROVE IInv'
  OBVIOUS
<1>1. CASE Control
  <2>1. CASE \E v \in Values : acquire_control(v)
    BY <2>1, TakeStep
  <2>2. CASE release_control
    BY <2>2, ReleaseStep
  <2>3. ASSUME NEW a \in BOOLEAN,
               (\E v \in Values : set_and_wake(v, a)) \/ increment_and_wake(a) \/ decrement_and_wake(a)
        PROVE  IInv'
    <3>1. word # Released
      BY <2>3 DEF set_and_wake, increment_and_wake, decrement_and_wake, Modify
    <3>2. word \in Values
      BY <3>1, WordTyped DEF IInv
    <3>. QED
      BY <2>3, <3>2, WordsTyped, ModifyStep DEF set_and_wake, increment_and_wake, decrement_and_wake
  <2>. QED
    BY <1>1, <2>1, <2>2, <2>3 DEF Control
<1>2. CASE ControlContinues
  BY <1>2, CloseStep, TakeGateStep, TakeStep, WakeStep, GiveUpStep, OpenLastStep, CloseOpenStep,
     PublishStep, OpenStep DEF ControlContinues
<1>3. ASSUME NEW w \in Waiters,
             (\E c \in Calls : wait_until(w, c)) \/ WaitContinues(w) \/ WakesSpuriously(w)
      PROVE  IInv'
  BY <1>3, WaitStep, ParkStep, PassStep DEF WaitContinues
<1>4. CASE UNCHANGED vars
  BY <1>4 DEF vars, gateVars, setup, controllerVars, waiterVars, IInv, TypeOK, LifetimeFollows,
     GateHeld, GateUnused, PassageHeld
<1>. QED
  BY <1>1, <1>2, <1>3, <1>4 DEF Next

----------------------------------------------------------------------------
(* The theorems *)

\* IInv holds in every behaviour of a predicate, its gate and its waiters.
THEOREM Inductive == Spec => []IInv
BY InitInv, StepInv, PTL DEF Spec

\* The word never passes the sentinel, and the gate's state, its locks and
\* every ticket keep to their types.
THEOREM TypeCorrect == Spec => []TypeOK
<1>1. IInv => TypeOK
  BY DEF IInv
<1>. QED
  BY <1>1, Inductive, PTL

\* With one controller no assertion of the predicate, the gate and the locks
\* fails: each lock is opened by the thread that closed it, the sentinel is
\* stored by release_control() alone, and a lifetime ends with nothing held.
THEOREM NoAssertionFails == Spec => []AssertionsHold
<1>1. ASSUME IInv PROVE AssertionsHold
  <2>1. cpc \in {"open", "open last"} => owner[arg] = Controller
    <3>1. cpc \in {"open", "open last"} => ~native
      BY <1>1 DEF IInv, LifetimeFollows
    <3>2. Other(state.phase) \in Phases
      BY <1>1, StatesTyped DEF IInv, TypeOK
    <3>. QED
      BY <1>1, <3>1, <3>2 DEF IInv, GateHeld
  <2>2. \A w \in Waiters : wpc[w] = "leave" => owner[pass[w].phase] = w
    BY <1>1 DEF IInv, PassageHeld
  <2>3. cpc = "idle" /\ hasControl => word # Released /\ (native \/ state.controlled)
    BY <1>1 DEF IInv, LifetimeFollows, GateHeld
  <2>4. cpc = "idle" /\ ~hasControl =>
          word = Released /\ ~state.controlled /\ \A g \in Phases : owner[g] # Controller
    <3>1. CASE native
      BY <1>1, <3>1 DEF IInv, LifetimeFollows, GateUnused, Unused
    <3>2. CASE ~native
      BY <1>1, <3>2 DEF IInv, LifetimeFollows, GateHeld
    <3>. QED
      BY <1>1, <3>1, <3>2 DEF IInv, TypeOK
  <2>. QED
    BY <2>1, <2>2, <2>3, <2>4 DEF AssertionsHold
<1>2. IInv => AssertionsHold
  BY <1>1
<1>. QED
  BY <1>2, Inductive, PTL
=============================================================================
