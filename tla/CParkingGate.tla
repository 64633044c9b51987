---------------------------- MODULE CParkingGate ----------------------------
(***************************************************************************)
(* threading::CParkingGate: two exclusive locks, one of which the          *)
(* controller keeps, and a packed state of which every parker keeps a      *)
(* ticket.  The module has the gate's variables and the single accesses of *)
(* its calls; a client strings them together with its own.                 *)
(*                                                                         *)
(* A CExclusiveLock is its owner.  Its inner gate for the owner's id is    *)
(* tried only by a thread that holds the native lock, or that calls        *)
(* release(): while every release() is the owner's the try cannot fail,    *)
(* and that it is the owner's is a property of the clients.                *)
(***************************************************************************)
EXTENDS Naturals

CONSTANTS
    Generations,    \* bound: the generation wraps here, in the code at 2^30
    Nobody          \* the owner of a free lock

ASSUME GateAssumption == Generations \in Nat \ {0}

VARIABLES
    state,          \* m_state, unpacked
    owner           \* per lock of m_gates: the thread that holds it

gateVars == <<state, owner>>

Phases == 0 .. 1
States == [generation : 0 .. Generations - 1, controlled : BOOLEAN, phase : Phases]

\* The state of a new gate and of a new ticket.
Unused == [generation |-> 0, controlled |-> FALSE, phase |-> 0]

GateInit == state = Unused /\ owner = [g \in Phases |-> Nobody]

Other(phase) == 1 - phase

\* CExclusiveLock::acquire() blocks until the lock is free.
Locks(t, g) == owner[g] = Nobody /\ owner' = [owner EXCEPT ![g] = t]

\* CExclusiveLock::release() does nothing for a thread that is not the owner.
Unlocks(t, g) == owner' = [owner EXCEPT ![g] = IF @ = t THEN Nobody ELSE @]

\* What acquire_control(), release_control() and cycle_phase() store.
Taken == [generation |-> (state.generation + 1) % Generations, controlled |-> TRUE, phase |-> 0]
GivenUp == [generation |-> state.generation, controlled |-> FALSE, phase |-> 0]
Cycled == [state EXCEPT !.phase = Other(@)]

\* The lock that cycle_phase() and release_control() open at last.
Opened(s) == s.phase

\* park() does not park at a gate without a controller, nor with a ticket of
\* an earlier generation.
PassesBy(ticket, s) ==
    ~s.controlled \/ (ticket.controlled /\ ticket.generation # s.generation)

\* What a parker remembers on its way: the state it has seen, with the phase
\* it passes through.
Passage(ticket, s) == IF ticket.controlled THEN [s EXCEPT !.phase = ticket.phase] ELSE s

\* Mutant: the ticket is not flipped.
TicketUnflipped(passage) == passage

\* The ticket of a parker that has passed.
TicketAfter(passage) == [passage EXCEPT !.phase = Other(@)]
=============================================================================
