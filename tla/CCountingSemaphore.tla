------------------------ MODULE CCountingSemaphore --------------------------
(***************************************************************************)
(* threading::CCountingSemaphore in the build with a native wait word      *)
(* (MV_PLATFORM_HAS_NATIVE_WAIT_WORD): CCountingSemaphore.cpp.             *)
(*                                                                         *)
(* Consumers call acquire() and try_acquire(), producers release(), and    *)
(* one controller takes and releases control.  Every call is split at its  *)
(* accesses to the atomic m_count, at the wake-up call and at its accesses *)
(* to the plain m_has_control, which a producer reads unsynchronised.  The *)
(* platform's wait word parks a caller only while the word still holds the *)
(* expected value, and may let it return at any time.                      *)
(***************************************************************************)
EXTENDS Naturals, FiniteSets

CONSTANTS
    Consumers,
    Producers,
    KMaxPermitCount,    \* k_max_permit_count
    ReleaseCounts,      \* the counts release() is called with
    MaxReleased         \* bound: releases are begun up to this many permits

ASSUME SemaphoreAssumption ==
    /\ IsFiniteSet(Consumers)
    /\ IsFiniteSet(Producers)
    /\ KMaxPermitCount \in Nat \ {0}
    /\ ReleaseCounts \subseteq Nat \ {0}
    /\ MaxReleased \in Nat

VARIABLES
    count,              \* m_count
    hasControl,         \* m_has_control
    ctl,                \* what the controller is doing
    cpc, op, seen,      \* per consumer: its place, its call and its seen
    ppc, n, pseen,      \* per producer: its place, release_count and seen
    released, acquired  \* history: permits added and taken under this control

consumerVars == <<cpc, op, seen>>
producerVars == <<ppc, n, pseen>>
vars == <<count, hasControl, ctl, consumerVars, producerVars, released, acquired>>

\* k_control_released_count
Released == KMaxPermitCount + 1

Asleep == {c \in Consumers : cpc[c] = "asleep"}

\* Mutant: the exchange is a plain store of the wanted value.
ExchangesAlways(s) == TRUE

\* compare_exchange_weak() finds what the caller has seen.
Exchanges(s) == count = s

\* Mutant: the bound takes in the sentinel.
ExceedsOffByOne(k, s) == k > Released - s

\* release_count > k_max_permit_count - seen
Exceeds(k, s) == k > KMaxPermitCount - s

\* Mutant: the wait parks its caller whatever the word holds by then.
ParksBlindly == TRUE

\* wait_while_equal(m_count, 0u)
Parks == count = 0

\* Mutant: one waiter is woken whatever the number of permits.
WakesAllNever(k) == FALSE

\* More than one permit wakes every waiter.
WakesAll(k) == k # 1

\* Mutant: no waiter is woken.
FreedNone == {}

\* The waiters release_control() wakes.
Freed == Asleep

Woken(S) == [c \in Consumers |-> IF c \in S THEN "load" ELSE cpc[c]]

----------------------------------------------------------------------------

Init ==
    /\ count = Released
    /\ hasControl = FALSE /\ ctl = "idle"
    /\ cpc = [c \in Consumers |-> "idle"]
    /\ op = [c \in Consumers |-> "acquire"]
    /\ seen = [c \in Consumers |-> 0]
    /\ ppc = [p \in Producers |-> "idle"]
    /\ n = [p \in Producers |-> 0]
    /\ pseen = [p \in Producers |-> 0]
    /\ released = 0 /\ acquired = 0

----------------------------------------------------------------------------
(* The controller: acquire_control() and release_control() *)

acquire_control ==
    /\ ctl = "idle" /\ ~hasControl /\ count = Released
    /\ count' = 0
    /\ ctl' = "taking"
    /\ UNCHANGED <<hasControl, consumerVars, producerVars, released, acquired>>

ControlTaken ==
    /\ ctl = "taking"
    /\ hasControl' = TRUE /\ ctl' = "idle"
    /\ UNCHANGED <<count, consumerVars, producerVars, released, acquired>>

release_control ==
    /\ ctl = "idle" /\ hasControl
    /\ count' = Released
    /\ ctl' = "waking"
    /\ released' = 0 /\ acquired' = 0
    /\ UNCHANGED <<hasControl, consumerVars, producerVars>>

ReleaseControlWakes ==
    /\ ctl = "waking"
    /\ cpc' = Woken(Freed)
    /\ ctl' = "woken"
    /\ UNCHANGED <<count, hasControl, op, seen, producerVars, released, acquired>>

ControlReleased ==
    /\ ctl = "woken"
    /\ hasControl' = FALSE /\ ctl' = "idle"
    /\ UNCHANGED <<count, consumerVars, producerVars, released, acquired>>

----------------------------------------------------------------------------
(* A consumer: acquire() and try_acquire() *)

Begin(c, call) ==
    /\ cpc[c] = "idle"
    /\ op' = [op EXCEPT ![c] = call]
    /\ cpc' = [cpc EXCEPT ![c] = "load"]
    /\ UNCHANGED <<count, hasControl, ctl, seen, producerVars, released, acquired>>

\* The locals of a call end with it.
Returns(c) ==
    /\ cpc' = [cpc EXCEPT ![c] = "idle"]
    /\ op' = [op EXCEPT ![c] = "acquire"]
    /\ seen' = [seen EXCEPT ![c] = 0]

acquire(c) == Begin(c, "acquire")
try_acquire(c) == Begin(c, "try_acquire")

Load(c) ==
    /\ cpc[c] = "load"
    /\ seen' = [seen EXCEPT ![c] = count]
    /\ cpc' = [cpc EXCEPT ![c] = "loop"]
    /\ UNCHANGED <<count, hasControl, ctl, op, producerVars, released, acquired>>

Wait(c) ==
    /\ cpc[c] = "loop" /\ seen[c] = 0 /\ op[c] = "acquire"
    /\ cpc' = [cpc EXCEPT ![c] = IF Parks THEN "asleep" ELSE "load"]
    /\ UNCHANGED <<count, hasControl, ctl, op, seen, producerVars, released, acquired>>

WakesSpuriously(c) ==
    /\ cpc[c] = "asleep"
    /\ cpc' = [cpc EXCEPT ![c] = "load"]
    /\ UNCHANGED <<count, hasControl, ctl, op, seen, producerVars, released, acquired>>

ReturnsFalse(c) ==
    /\ cpc[c] = "loop"
    /\ seen[c] = Released \/ (seen[c] = 0 /\ op[c] = "try_acquire")
    /\ Returns(c)
    /\ UNCHANGED <<count, hasControl, ctl, producerVars, released, acquired>>

\* A weak exchange that fails for no reason finds the count it had seen: no step.
Take(c) ==
    /\ cpc[c] = "loop" /\ seen[c] \notin {0, Released}
    /\ IF Exchanges(seen[c])
       THEN /\ count' = seen[c] - 1
            /\ acquired' = acquired + 1
            /\ Returns(c)
       ELSE /\ seen' = [seen EXCEPT ![c] = count]
            /\ UNCHANGED <<count, acquired, cpc, op>>
    /\ UNCHANGED <<hasControl, ctl, producerVars, released>>

----------------------------------------------------------------------------
(* A producer: release().  A count of 0 changes nothing. *)

release(p, k) ==
    /\ ppc[p] = "idle" /\ hasControl
    /\ released + k <= MaxReleased
    /\ n' = [n EXCEPT ![p] = k]
    /\ ppc' = [ppc EXCEPT ![p] = "load"]
    /\ UNCHANGED <<count, hasControl, ctl, consumerVars, pseen, released, acquired>>

ReleaseLoads(p) ==
    /\ ppc[p] = "load"
    /\ pseen' = [pseen EXCEPT ![p] = count]
    /\ ppc' = [ppc EXCEPT ![p] = "loop"]
    /\ UNCHANGED <<count, hasControl, ctl, consumerVars, n, released, acquired>>

ReleaseReturns(p) ==
    /\ ppc' = [ppc EXCEPT ![p] = "idle"]
    /\ n' = [n EXCEPT ![p] = 0]
    /\ pseen' = [pseen EXCEPT ![p] = 0]

ReleaseFails(p) ==
    /\ ppc[p] = "loop"
    /\ pseen[p] = Released \/ Exceeds(n[p], pseen[p])
    /\ ReleaseReturns(p)
    /\ UNCHANGED <<count, hasControl, ctl, consumerVars, released, acquired>>

Give(p) ==
    /\ ppc[p] = "loop"
    /\ pseen[p] # Released /\ ~Exceeds(n[p], pseen[p])
    /\ IF Exchanges(pseen[p])
       THEN /\ count' = pseen[p] + n[p]
            /\ released' = released + n[p]
            /\ ppc' = [ppc EXCEPT ![p] = "wake"]
            /\ UNCHANGED pseen
       ELSE /\ pseen' = [pseen EXCEPT ![p] = count]
            /\ UNCHANGED <<count, released, ppc>>
    /\ UNCHANGED <<hasControl, ctl, consumerVars, n, acquired>>

Wake(p) ==
    /\ ppc[p] = "wake"
    /\ IF WakesAll(n[p]) \/ Asleep = {}
       THEN cpc' = Woken(Asleep)
       ELSE \E c \in Asleep : cpc' = Woken({c})
    /\ ReleaseReturns(p)
    /\ UNCHANGED <<count, hasControl, ctl, op, seen, released, acquired>>

----------------------------------------------------------------------------

Control == acquire_control \/ release_control
ControlContinues == ControlTaken \/ ReleaseControlWakes \/ ControlReleased
Acquire(c) == acquire(c) \/ try_acquire(c)
AcquireContinues(c) == Load(c) \/ Wait(c) \/ ReturnsFalse(c) \/ Take(c)
Release(p) == \E k \in ReleaseCounts : release(p, k)
ReleaseContinues(p) == ReleaseLoads(p) \/ ReleaseFails(p) \/ Give(p) \/ Wake(p)

Next ==
    \/ Control \/ ControlContinues
    \/ \E c \in Consumers : Acquire(c) \/ AcquireContinues(c) \/ WakesSpuriously(c)
    \/ \E p \in Producers : Release(p) \/ ReleaseContinues(p)

Spec == Init /\ [][Next]_vars

\* A running thread runs on.  Nothing makes anyone begin a call, and nothing
\* but a wake-up makes a parked consumer run.
Fairness ==
    /\ WF_vars(ControlContinues)
    /\ \A c \in Consumers : WF_vars(AcquireContinues(c))
    /\ \A p \in Producers : WF_vars(ReleaseContinues(p))

FairSpec == Spec /\ Fairness

----------------------------------------------------------------------------
(* Properties *)

TypeOK ==
    /\ count \in 0 .. Released
    /\ hasControl \in BOOLEAN
    /\ ctl \in {"idle", "taking", "waking", "woken"}
    /\ cpc \in [Consumers -> {"idle", "load", "loop", "asleep"}]
    /\ op \in [Consumers -> {"acquire", "try_acquire"}]
    /\ seen \in [Consumers -> 0 .. Released]
    /\ ppc \in [Producers -> {"idle", "load", "loop", "wake"}]
    /\ n \in [Producers -> Nat]
    /\ pseen \in [Producers -> 0 .. Released]
    /\ released \in Nat /\ acquired \in Nat

\* The count shows the sentinel exactly while nobody holds control: releases
\* never add up to it, and an acquire() that returns false tells the truth.
SentinelMeansReleased ==
    count = Released <=> (IF hasControl THEN ctl \in {"waking", "woken"} ELSE ctl = "idle")

\* Every permit added under this control was taken once or is still there.
PermitsAccounted ==
    count # Released => count + acquired = released

\* The consumers that are about to look for a permit, and the wake-ups due.
Looking == {c \in Consumers :
    op[c] = "acquire" /\ (cpc[c] = "load" \/ (cpc[c] = "loop" /\ seen[c] # Released))}
WakingOne == {p \in Producers : ppc[p] = "wake" /\ n[p] = 1}
WakingAll == {p \in Producers : ppc[p] = "wake" /\ n[p] # 1}

\* Nobody is left parked beside a permit, or after control was released: there
\* is a consumer awake or a wake-up due for every permit.
NoLostWakeup ==
    Asleep # {} =>
        IF count = Released THEN ctl = "waking"
        ELSE WakingAll # {} \/ count <= Cardinality(Looking) + Cardinality(WakingOne)

\* Permits are taken as long as somebody waits for one.
PermitsReachWaiters ==
    (count \in 1 .. KMaxPermitCount /\ (Asleep \cup Looking) # {})
        ~> (count \in {0, Released} \/ (Asleep \cup Looking) = {})

\* Every acquire() returns once control is released for good.
ReleaseFreesWaiters ==
    \A c \in Consumers : (count = Released /\ cpc[c] # "idle") ~> (count # Released \/ cpc[c] = "idle")
=============================================================================
