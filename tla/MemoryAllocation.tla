-------------------------- MODULE MemoryAllocation --------------------------
(***************************************************************************)
(* byte_allocate(), byte_deallocate() and set_allocator() of               *)
(* memory_allocation.cpp: allocations pass a gate which set_allocator()    *)
(* closes while it replaces the process' allocator.                        *)
(*                                                                         *)
(* Every access to an atomic is a step.  The setter's stores are release   *)
(* stores: on a processor that keeps them in a store buffer they reach     *)
(* memory in order but late, after loads that follow them in the code; an  *)
(* atomic read-modify-write empties the buffer.  buffered says whether the *)
(* processor is such a one (x86) or keeps a load behind the store (ARMv8). *)
(* The mutex of set_allocator() makes its callers one.                     *)
(***************************************************************************)
EXTENDS Naturals, Sequences, FiniteSets

CONSTANTS
    Threads,        \* callers of byte_allocate() and byte_deallocate()
    Allocators,
    Blocks,         \* bound: the memory the allocators have to give
    Null,           \* nullptr: no allocator, no block
    StoreBuffered   \* whether a processor lets a later load overtake a store

ASSUME AllocationAssumption ==
    /\ IsFiniteSet(Threads) /\ IsFiniteSet(Blocks)
    /\ Null \notin Allocators \cup Blocks
    /\ StoreBuffered \subseteq BOOLEAN

VARIABLES
    allocator,      \* s_allocator
    enabled,        \* s_allocation_is_enabled
    gateClosed,     \* s_allocator_gate_is_closed
    active,         \* s_active_calls
    live,           \* s_live_allocations
    spc, arg,       \* set_allocator() in progress and its argument
    buffered,       \* which of StoreBuffered the processor is
    buffer,         \* the setter's stores that have not reached memory
    pc, loaded,     \* per thread: its place and the allocator it loaded
    block,          \* per thread: the block it is to deallocate, or Null
    maker           \* per block: the allocator that gave it, or Null

setter == <<spc, arg>>
memory == <<allocator, gateClosed, buffered, buffer>>
locals == <<loaded, block>>
vars == <<enabled, active, live, setter, memory, pc, locals, maker>>

Allocated == {b \in Blocks : maker[b] # Null}

----------------------------------------------------------------------------
(* Stores of the setter *)

\* Memory after a store of val to loc has reached it.
Reaches(loc, val) ==
    IF loc = "gate" THEN gateClosed' = val /\ UNCHANGED allocator
                    ELSE allocator' = val /\ UNCHANGED gateClosed

Store(loc, val) ==
    /\ IF buffered
       THEN /\ buffer' = Append(buffer, [loc |-> loc, val |-> val])
            /\ UNCHANGED <<allocator, gateClosed>>
       ELSE Reaches(loc, val) /\ UNCHANGED buffer
    /\ UNCHANGED buffered

Drain ==
    /\ buffer # <<>>
    /\ Reaches(Head(buffer).loc, Head(buffer).val)
    /\ buffer' = Tail(buffer)
    /\ UNCHANGED <<buffered, enabled, active, live, setter, pc, locals, maker>>

----------------------------------------------------------------------------

Init ==
    /\ allocator = Null /\ enabled = TRUE /\ gateClosed = FALSE
    /\ active = 0 /\ live = 0
    /\ spc = "idle" /\ arg = Null
    /\ buffered \in StoreBuffered /\ buffer = <<>>
    /\ pc = [t \in Threads |-> "idle"]
    /\ loaded = [t \in Threads |-> Null]
    /\ block = [t \in Threads |-> Null]
    /\ maker = [b \in Blocks |-> Null]

\* Mutants: a live allocation, a running call does not hinder a replacement.
ReplaceableAlways == TRUE
QuietAlways == TRUE

\* s_live_allocations is 0, s_active_calls is 0.
Replaceable == live = 0
Quiet == active = 0

(* set_allocator() *)

set_allocator(a) ==
    /\ spc = "idle"
    /\ Store("gate", TRUE)
    /\ arg' = a
    /\ spc' = "wait"
    /\ UNCHANGED <<enabled, active, live, pc, locals, maker>>

SetterProceeds ==
    /\ spc = "wait" /\ Quiet
    /\ spc' = "decide"
    /\ UNCHANGED <<enabled, active, live, arg, memory, pc, locals, maker>>

SetterDecides ==
    /\ spc = "decide"
    /\ spc' = IF Replaceable THEN "replace" ELSE "open"
    /\ UNCHANGED <<enabled, active, live, arg, memory, pc, locals, maker>>

SetterReplaces ==
    /\ spc = "replace"
    /\ Store("allocator", arg)
    /\ spc' = "open"
    /\ UNCHANGED <<enabled, active, live, arg, pc, locals, maker>>

\* What the gate is set to in the end.
Reopened == FALSE

SetterOpens ==
    /\ spc = "open"
    /\ Store("gate", Reopened)
    /\ spc' = "unlock"
    /\ UNCHANGED <<enabled, active, live, arg, pc, locals, maker>>

\* Unlocking the mutex is a read-modify-write.
SetterReturns ==
    /\ spc = "unlock" /\ buffer = <<>>
    /\ spc' = "idle" /\ arg' = Null
    /\ UNCHANGED <<enabled, active, live, memory, pc, locals, maker>>

enable_allocation(e) ==
    /\ enabled' = e
    /\ UNCHANGED <<active, live, setter, memory, pc, locals, maker>>

----------------------------------------------------------------------------
(* byte_allocate() and byte_deallocate(), from CCallGuard() on *)

Goes(t, to) == pc' = [pc EXCEPT ![t] = to]

byte_allocate(t) ==
    /\ pc[t] = "idle"
    /\ Goes(t, "spin")
    /\ UNCHANGED <<enabled, active, live, setter, memory, locals, maker>>

\* A caller frees a block it has, once.
byte_deallocate(t) ==
    /\ pc[t] = "idle"
    /\ \E b \in Allocated :
        /\ \A u \in Threads : block[u] # b
        /\ block' = [block EXCEPT ![t] = b]
    /\ Goes(t, "spin")
    /\ UNCHANGED <<enabled, active, live, setter, memory, loaded, maker>>

GuardSees(t) ==
    /\ pc[t] = "spin" /\ ~gateClosed
    /\ Goes(t, "enter")
    /\ UNCHANGED <<enabled, active, live, setter, memory, locals, maker>>

GuardEnters(t) ==
    /\ pc[t] = "enter"
    /\ active' = active + 1
    /\ Goes(t, "check")
    /\ UNCHANGED <<enabled, live, setter, memory, locals, maker>>

\* Mutants: the gate is not looked at again; a call turned away stays counted.
TurnedAwayNever == FALSE
WithdrawnKept == active

\* The gate was closed in the meantime.
TurnedAway == gateClosed
Withdrawn == active - 1

GuardChecks(t) ==
    /\ pc[t] = "check"
    /\ Goes(t, IF TurnedAway THEN "withdraw"
               ELSE IF block[t] = Null THEN "enabled" ELSE "load")
    /\ UNCHANGED <<enabled, active, live, setter, memory, locals, maker>>

GuardWithdraws(t) ==
    /\ pc[t] = "withdraw"
    /\ active' = Withdrawn
    /\ Goes(t, "spin")
    /\ UNCHANGED <<enabled, live, setter, memory, locals, maker>>

ChecksEnabled(t) ==
    /\ pc[t] = "enabled"
    /\ Goes(t, IF enabled THEN "load" ELSE "leave")
    /\ UNCHANGED <<enabled, active, live, setter, memory, locals, maker>>

LoadsAllocator(t) ==
    /\ pc[t] = "load"
    /\ loaded' = [loaded EXCEPT ![t] = allocator]
    /\ Goes(t, IF block[t] = Null THEN "reserve" ELSE "free")
    /\ UNCHANGED <<enabled, active, live, setter, memory, block, maker>>

Reserves(t) ==
    /\ pc[t] = "reserve"
    /\ live' = live + 1
    /\ Goes(t, "allocate")
    /\ UNCHANGED <<enabled, active, setter, memory, locals, maker>>

\* The allocator gives a block or does not.
Allocates(t) ==
    /\ pc[t] = "allocate"
    /\ \/ /\ loaded[t] # Null
          /\ \E b \in Blocks \ Allocated : maker' = [maker EXCEPT ![b] = loaded[t]]
          /\ Goes(t, "leave")
       \/ /\ UNCHANGED maker
          /\ Goes(t, "unreserve")
    /\ UNCHANGED <<enabled, active, live, setter, memory, locals>>

\* Without an allocator the block is lost instead.
Frees(t) ==
    /\ pc[t] = "free"
    /\ maker' = [maker EXCEPT ![block[t]] = Null]
    /\ Goes(t, "unreserve")
    /\ UNCHANGED <<enabled, active, live, setter, memory, locals>>

\* Mutant: what a failed allocation reserved stays counted.
UnreservedKept(t) == IF block[t] = Null THEN live ELSE live - 1

\* After a failed allocation and after every deallocation.
Unreserved(t) == live - 1

Unreserves(t) ==
    /\ pc[t] = "unreserve"
    /\ live' = Unreserved(t)
    /\ Goes(t, "leave")
    /\ UNCHANGED <<enabled, active, setter, memory, locals, maker>>

Leaves(t) ==
    /\ pc[t] = "leave"
    /\ active' = active - 1
    /\ Goes(t, "idle")
    /\ loaded' = [loaded EXCEPT ![t] = Null]
    /\ block' = [block EXCEPT ![t] = Null]
    /\ UNCHANGED <<enabled, live, setter, memory, maker>>

----------------------------------------------------------------------------

SetterContinues == SetterProceeds \/ SetterDecides \/ SetterReplaces \/ SetterOpens \/ SetterReturns
Guarded(t) == GuardSees(t) \/ GuardEnters(t) \/ GuardChecks(t) \/ GuardWithdraws(t)
Dispatched(t) ==
    \/ ChecksEnabled(t) \/ LoadsAllocator(t) \/ Reserves(t) \/ Allocates(t)
    \/ Frees(t) \/ Unreserves(t) \/ Leaves(t)

Next ==
    \/ \E a \in Allocators \cup {Null} : set_allocator(a)
    \/ SetterContinues \/ Drain
    \/ \E e \in BOOLEAN : enable_allocation(e)
    \/ \E t \in Threads : byte_allocate(t) \/ byte_deallocate(t) \/ Guarded(t) \/ Dispatched(t)

Spec == Init /\ [][Next]_vars

\* Every call that was begun runs on.
Fairness ==
    /\ WF_vars(SetterContinues) /\ WF_vars(Drain)
    /\ \A t \in Threads : WF_vars(Guarded(t) \/ Dispatched(t))

FairSpec == Spec /\ Fairness

----------------------------------------------------------------------------
(* Properties *)

Places == {"idle", "spin", "enter", "check", "withdraw", "enabled", "load",
           "reserve", "allocate", "free", "unreserve", "leave"}

Stores == [loc : {"gate"}, val : BOOLEAN] \cup [loc : {"allocator"}, val : Allocators \cup {Null}]

TypeOK ==
    /\ allocator \in Allocators \cup {Null}
    /\ enabled \in BOOLEAN /\ gateClosed \in BOOLEAN
    /\ active \in Nat /\ live \in Nat
    /\ spc \in {"idle", "wait", "decide", "replace", "open", "unlock"}
    /\ arg \in Allocators \cup {Null}
    /\ buffered \in BOOLEAN /\ buffer \in Seq(Stores)
    /\ pc \in [Threads -> Places]
    /\ loaded \in [Threads -> Allocators \cup {Null}]
    /\ block \in [Threads -> Blocks \cup {Null}]
    /\ maker \in [Blocks -> Allocators \cup {Null}]

\* The calls counted as active, and the calls that have passed the guard.
Counted == {t \in Threads : pc[t] \notin {"idle", "spin", "enter"}}
Inside == {t \in Counted : pc[t] \notin {"check", "withdraw"}}

\* Where loads wait for stores, no call is inside while the setter decides and
\* replaces.
QuiescentPoint == ~buffered /\ spc \in {"decide", "replace"} => Inside = {}

\* There every block belongs to the allocator in place, which a call inside also
\* uses: what an allocator gave is never handed to another one to free.
BlocksAreCurrent == ~buffered =>
    /\ \A b \in Allocated : maker[b] = allocator
    /\ \A t \in Threads : pc[t] \in {"reserve", "allocate", "free"} => loaded[t] = allocator

\* The counter is the number of blocks and of reservations under way.
Reserved == {t \in Threads : pc[t] \in {"allocate", "unreserve"}}
LiveAccounts == live = Cardinality(Allocated) + Cardinality(Reserved)

\* set_allocator() gets its quiescent point and returns, whatever the calls do;
\* and every call gets through once the allocator is no longer being replaced.
NobodyKeptOut ==
    /\ (spc # "idle") ~> (spc = "idle")
    /\ <>[](spc = "idle") => \A t \in Threads : (pc[t] # "idle") ~> (pc[t] = "idle")

----------------------------------------------------------------------------
(* What the repository says and the code does not do *)

\* "Allocator replacement is rejected while this is non-zero."
RejectedWhileLive == [][allocator' # allocator => live = 0]_vars
=============================================================================
