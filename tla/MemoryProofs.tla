---------------------------- MODULE MemoryProofs ----------------------------
(***************************************************************************)
(* Theorems about memory.  MemoryAllocation, for any callers, allocators   *)
(* and blocks.  TPodFifo and TPodVector, for every limit and set of        *)
(* elements: through any sequence of requests a FIFO keeps the list it     *)
(* holds, and a vector has the one its operations make.                    *)
(***************************************************************************)
EXTENDS MemoryAllocation, TPodFifo, FiniteSetTheorems, SequenceTheorems,
        WellFoundedInduction, TLAPS

USE AllocationAssumption

\* s_active_calls counts the calls between their two changes of it.
CallsAccount == active = Cardinality(Counted)

\* A caller that deallocates has a block of its own, which is there until it
\* is freed; a caller that allocates has none.
BlocksHeld ==
    /\ \A t \in Threads : pc[t] \in {"idle", "enabled", "reserve", "allocate"} => block[t] = Null
    /\ \A t \in Threads : pc[t] = "free" => block[t] # Null
    /\ \A t \in Threads :
          block[t] # Null /\ pc[t] \notin {"unreserve", "leave"} => maker[block[t]] # Null
    /\ \A t, u \in Threads : block[t] = block[u] /\ block[t] # Null => t = u

\* Where loads wait for stores, the gate is closed while the setter waits and
\* decides, and nothing becomes live once it has decided to replace.
GateFollows == ~buffered =>
    /\ buffer = << >>
    /\ gateClosed <=> spc \in {"wait", "decide", "replace", "open"}
    /\ spc = "replace" => live = 0

IInv ==
    /\ TypeOK
    /\ CallsAccount
    /\ LiveAccounts
    /\ BlocksHeld
    /\ GateFollows
    /\ QuiescentPoint
    /\ BlocksAreCurrent

----------------------------------------------------------------------------
(* Counting *)

LEMMA OneMore ==
    ASSUME NEW S, IsFiniteSet(S), NEW x, x \notin S
    PROVE  Cardinality(S \cup {x}) = Cardinality(S) + 1
BY FS_AddElement

LEMMA OneLess ==
    ASSUME NEW S, IsFiniteSet(S), NEW x \in S
    PROVE  Cardinality(S \ {x}) = Cardinality(S) - 1
BY FS_RemoveElement

LEMMA AllFinite ==
    /\ IsFiniteSet(Counted) /\ Cardinality(Counted) \in Nat
    /\ IsFiniteSet(Reserved) /\ Cardinality(Reserved) \in Nat
    /\ IsFiniteSet(Allocated) /\ Cardinality(Allocated) \in Nat
<1>1. Counted \subseteq Threads /\ Reserved \subseteq Threads /\ Allocated \subseteq Blocks
  BY DEF Counted, Reserved, Allocated
<1>2. IsFiniteSet(Counted) /\ IsFiniteSet(Reserved) /\ IsFiniteSet(Allocated)
  BY <1>1, FS_Subset
<1>. QED
  BY <1>2, FS_CardinalityType

----------------------------------------------------------------------------

LEMMA InitInv == Init => IInv
<1>. SUFFICES ASSUME Init PROVE IInv
  OBVIOUS
<1>1. TypeOK
  <2>1. << >> \in Seq(Stores)
    OBVIOUS
  <2>2. buffered \in BOOLEAN
    BY DEF Init
  <2>. QED
    BY <2>1, <2>2 DEF Init, TypeOK, Places
<1>2. Counted = {} /\ Reserved = {} /\ Allocated = {}
  BY DEF Init, Counted, Reserved, Allocated
<1>3. Cardinality({}) = 0
  BY FS_EmptySet
<1>4. CallsAccount /\ LiveAccounts
  BY <1>2, <1>3 DEF Init, CallsAccount, LiveAccounts
<1>. QED
  BY <1>1, <1>2, <1>4 DEF Init, IInv, BlocksHeld, GateFollows, QuiescentPoint, Inside, BlocksAreCurrent

----------------------------------------------------------------------------
(* The setter and its processor *)

\* No step of the setter changes a caller or a count.
LEMMA SetterKeeps ==
    ASSUME IInv, UNCHANGED <<active, live, pc, locals, maker>>
    PROVE  /\ CallsAccount' /\ LiveAccounts' /\ BlocksHeld'
           /\ Inside' = Inside /\ Allocated' = Allocated
BY DEF IInv, CallsAccount, LiveAccounts, BlocksHeld, Counted, Reserved, Allocated, Inside, locals

\* What a store does to memory at once or later is well typed.
LEMMA StoreTyped ==
    ASSUME TypeOK, NEW loc, NEW val, [loc |-> loc, val |-> val] \in Stores, Store(loc, val)
    PROVE  /\ allocator' \in Allocators \cup {Null} /\ gateClosed' \in BOOLEAN
           /\ buffered' = buffered /\ buffer' \in Seq(Stores)
<1>1. \/ loc = "gate" /\ val \in BOOLEAN
      \/ loc = "allocator" /\ val \in Allocators \cup {Null}
  BY DEF Stores
<1>. QED
  BY <1>1 DEF Store, Reaches, TypeOK

LEMMA SetterStep ==
    ASSUME IInv,
           SetterContinues \/ (\E a \in Allocators \cup {Null} : set_allocator(a))
    PROVE  IInv'
<1>0. UNCHANGED <<active, live, pc, locals, maker, enabled>>
  BY DEF SetterContinues, SetterProceeds, SetterDecides, SetterReplaces, SetterOpens,
         SetterReturns, set_allocator
<1>1. /\ CallsAccount' /\ LiveAccounts' /\ BlocksHeld'
      /\ Inside' = Inside /\ Allocated' = Allocated
  BY <1>0, SetterKeeps
<1>2. ASSUME NEW a \in Allocators \cup {Null}, set_allocator(a) PROVE IInv'
  <2>1. [loc |-> "gate", val |-> TRUE] \in Stores
    BY DEF Stores
  <2>2. Store("gate", TRUE) /\ spc' = "wait" /\ arg' = a
    BY <1>2 DEF set_allocator
  <2>3. TypeOK'
    BY <1>0, <2>1, <2>2, StoreTyped DEF IInv, TypeOK, locals
  <2>4. ~buffered' => gateClosed' = TRUE /\ allocator' = allocator /\ buffer' = << >>
    BY <2>2 DEF IInv, GateFollows, Store, Reaches
  <2>5. buffered' = buffered
    BY <2>2 DEF Store
  <2>6. GateFollows' /\ QuiescentPoint'
    BY <2>2, <2>4 DEF GateFollows, QuiescentPoint
  <2>7. BlocksAreCurrent'
    BY <1>0, <1>1, <2>4, <2>5 DEF IInv, BlocksAreCurrent, locals
  <2>. QED
    BY <1>1, <2>3, <2>6, <2>7 DEF IInv
<1>3. ASSUME SetterProceeds PROVE IInv'
  <2>1. spc' = "decide" /\ active = 0 /\ spc = "wait" /\ arg' = arg /\ UNCHANGED memory
    BY <1>3 DEF SetterProceeds, Quiet
  <2>2. Counted = {}
    BY <2>1, AllFinite, FS_EmptySet DEF IInv, CallsAccount
  <2>3. Inside' = {}
    BY <1>1, <2>2 DEF Inside
  <2>4. TypeOK'
    BY <1>0, <2>1 DEF IInv, TypeOK, memory, locals
  <2>5. GateFollows' /\ QuiescentPoint'
    BY <2>1, <2>3 DEF IInv, GateFollows, QuiescentPoint, memory
  <2>6. BlocksAreCurrent'
    BY <1>0, <1>1, <2>1 DEF IInv, BlocksAreCurrent, memory, locals
  <2>. QED
    BY <1>1, <2>4, <2>5, <2>6 DEF IInv
<1>4. ASSUME SetterDecides PROVE IInv'
  <2>1. /\ spc = "decide" /\ arg' = arg /\ UNCHANGED memory
        /\ spc' = IF live = 0 THEN "replace" ELSE "open"
    BY <1>4 DEF SetterDecides, Replaceable
  <2>4. TypeOK'
    BY <1>0, <2>1 DEF IInv, TypeOK, memory, locals
  <2>5. GateFollows' /\ QuiescentPoint'
    BY <1>0, <1>1, <2>1 DEF IInv, GateFollows, QuiescentPoint, memory
  <2>6. BlocksAreCurrent'
    BY <1>0, <1>1, <2>1 DEF IInv, BlocksAreCurrent, memory, locals
  <2>. QED
    BY <1>1, <2>4, <2>5, <2>6 DEF IInv
<1>5. ASSUME SetterReplaces PROVE IInv'
  <2>1. spc = "replace" /\ spc' = "open" /\ arg' = arg /\ Store("allocator", arg)
    BY <1>5 DEF SetterReplaces
  <2>2. [loc |-> "allocator", val |-> arg] \in Stores
    BY DEF Stores, IInv, TypeOK
  <2>3. TypeOK'
    BY <1>0, <2>1, <2>2, StoreTyped DEF IInv, TypeOK, locals
  <2>4. buffered' = buffered
    BY <2>1 DEF Store
  <2>5. ~buffered' => gateClosed' = gateClosed /\ buffer' = << >>
    BY <2>1 DEF IInv, GateFollows, Store, Reaches
  <2>6. GateFollows' /\ QuiescentPoint'
    BY <2>1, <2>4, <2>5 DEF IInv, GateFollows, QuiescentPoint
  <2>7. ASSUME ~buffered PROVE Allocated = {} /\ Inside = {}
    <3>1. live = 0 /\ Inside = {}
      BY <2>1, <2>7 DEF IInv, GateFollows, QuiescentPoint
    <3>2. Cardinality(Allocated) = 0
      BY <3>1, AllFinite DEF IInv, LiveAccounts
    <3>. QED
      BY <3>1, <3>2, AllFinite, FS_EmptySet
  <2>8. \A t \in Threads : pc'[t] \in {"reserve", "allocate", "free"} => t \in Inside'
    BY DEF Inside, Counted
  <2>9. BlocksAreCurrent'
    BY <1>1, <2>4, <2>7, <2>8 DEF BlocksAreCurrent
  <2>. QED
    BY <1>1, <2>3, <2>6, <2>9 DEF IInv
<1>6. ASSUME SetterOpens PROVE IInv'
  <2>1. spc = "open" /\ spc' = "unlock" /\ arg' = arg /\ Store("gate", FALSE)
    BY <1>6 DEF SetterOpens, Reopened
  <2>2. [loc |-> "gate", val |-> FALSE] \in Stores
    BY DEF Stores
  <2>3. TypeOK'
    BY <1>0, <2>1, <2>2, StoreTyped DEF IInv, TypeOK, locals
  <2>4. ~buffered' => gateClosed' = FALSE /\ allocator' = allocator /\ buffer' = << >>
    BY <2>1 DEF IInv, GateFollows, Store, Reaches
  <2>5. buffered' = buffered
    BY <2>1 DEF Store
  <2>6. GateFollows' /\ QuiescentPoint'
    BY <2>1, <2>4 DEF GateFollows, QuiescentPoint
  <2>7. BlocksAreCurrent'
    BY <1>0, <1>1, <2>4, <2>5 DEF IInv, BlocksAreCurrent, locals
  <2>. QED
    BY <1>1, <2>3, <2>6, <2>7 DEF IInv
<1>7. ASSUME SetterReturns PROVE IInv'
  <2>1. spc = "unlock" /\ spc' = "idle" /\ arg' = Null /\ UNCHANGED memory
    BY <1>7 DEF SetterReturns
  <2>2. TypeOK'
    BY <1>0, <2>1 DEF IInv, TypeOK, memory, locals
  <2>3. GateFollows' /\ QuiescentPoint'
    BY <2>1 DEF IInv, GateFollows, QuiescentPoint, memory
  <2>4. BlocksAreCurrent'
    BY <1>0, <1>1, <2>1 DEF IInv, BlocksAreCurrent, memory, locals
  <2>. QED
    BY <1>1, <2>2, <2>3, <2>4 DEF IInv
<1>. QED
  BY <1>2, <1>3, <1>4, <1>5, <1>6, <1>7 DEF SetterContinues

LEMMA DrainStep == ASSUME IInv, Drain PROVE IInv'
<1>1. UNCHANGED <<active, live, pc, locals, maker, enabled, spc, arg, buffered>> /\ buffer # << >>
  BY DEF Drain, setter
<1>2. buffered
  BY <1>1 DEF IInv, GateFollows
<1>3. Head(buffer) \in Stores /\ buffer' \in Seq(Stores)
  BY <1>1 DEF Drain, IInv, TypeOK
<1>4. allocator' \in Allocators \cup {Null} /\ gateClosed' \in BOOLEAN
  BY <1>3 DEF Drain, Reaches, Stores, IInv, TypeOK
<1>5. TypeOK'
  BY <1>1, <1>3, <1>4 DEF IInv, TypeOK, locals
<1>6. GateFollows' /\ QuiescentPoint' /\ BlocksAreCurrent'
  BY <1>1, <1>2 DEF GateFollows, QuiescentPoint, BlocksAreCurrent
<1>. QED
  BY <1>1, <1>5, <1>6, SetterKeeps DEF IInv

LEMMA EnableStep == ASSUME IInv, NEW e \in BOOLEAN, enable_allocation(e) PROVE IInv'
<1>1. TypeOK'
  BY DEF enable_allocation, IInv, TypeOK, setter, memory, locals
<1>2. /\ CallsAccount' /\ LiveAccounts' /\ BlocksHeld'
      /\ Inside' = Inside /\ Allocated' = Allocated
  BY SetterKeeps DEF enable_allocation
<1>3. GateFollows' /\ QuiescentPoint' /\ BlocksAreCurrent'
  BY <1>2 DEF enable_allocation, IInv, GateFollows, QuiescentPoint, BlocksAreCurrent,
         setter, memory, locals
<1>. QED
  BY <1>1, <1>2, <1>3 DEF IInv

----------------------------------------------------------------------------
(* The callers *)

\* Where one caller's move takes it, and what becomes of the three sets.
LEMMA Moved ==
    ASSUME TypeOK, NEW t \in Threads, NEW to \in Places, Goes(t, to)
    PROVE  /\ pc' \in [Threads -> Places]
           /\ pc'[t] = to
           /\ \A u \in Threads : u # t => pc'[u] = pc[u]
           /\ Counted' = IF to \in {"idle", "spin", "enter"} THEN Counted \ {t} ELSE Counted \cup {t}
           /\ Reserved' = IF to \in {"allocate", "unreserve"} THEN Reserved \cup {t} ELSE Reserved \ {t}
           /\ Inside' = IF to \in {"idle", "spin", "enter", "check", "withdraw"}
                        THEN Inside \ {t} ELSE Inside \cup {t}
<1>1. /\ pc' \in [Threads -> Places] /\ pc'[t] = to
      /\ \A u \in Threads : u # t => pc'[u] = pc[u]
  BY DEF Goes, TypeOK
<1>. QED
  BY <1>1 DEF Counted, Reserved, Inside

\* A caller that neither gets in past a closed gate nor changes the counter
\* from outside leaves the setter its quiescent point.
LEMMA GateKeeps ==
    ASSUME IInv, NEW t \in Threads, UNCHANGED <<spc, memory>>,
           live' = live \/ t \in Inside,
           Inside' \subseteq Inside \cup {t},
           t \in Inside' => t \in Inside \/ ~gateClosed
    PROVE  GateFollows' /\ QuiescentPoint'
BY DEF IInv, GateFollows, QuiescentPoint, memory

\* A move within the counted places, or within the others, disturbs no count.
LEMMA CountsKeep ==
    ASSUME IInv, UNCHANGED <<active, live, maker>>, Counted' = Counted, Reserved' = Reserved
    PROVE  CallsAccount' /\ LiveAccounts'
BY DEF IInv, CallsAccount, LiveAccounts, Allocated

LEMMA CallStep ==
    ASSUME IInv, NEW t \in Threads, byte_allocate(t) \/ byte_deallocate(t)
    PROVE  IInv'
<1>1. /\ pc[t] = "idle" /\ Goes(t, "spin")
      /\ UNCHANGED <<enabled, active, live, spc, arg, memory, loaded, maker>>
  BY DEF byte_allocate, byte_deallocate, setter, locals
<1>2. \/ block' = block
      \/ \E b \in Allocated :
            (\A u \in Threads : block[u] # b) /\ block' = [block EXCEPT ![t] = b]
  BY DEF byte_allocate, byte_deallocate, locals
<1>3. TypeOK /\ BlocksHeld
  BY DEF IInv
<1>4. "spin" \in Places
  BY DEF Places
<1>5. TypeOK'
  BY <1>1, <1>2, <1>3, <1>4, Moved DEF TypeOK, memory, Allocated
<1>6. Counted' = Counted /\ Reserved' = Reserved /\ Inside' = Inside
  BY <1>1, <1>3, <1>4, Moved DEF Counted, Reserved, Inside
<1>7. CallsAccount' /\ LiveAccounts' /\ GateFollows' /\ QuiescentPoint'
  BY <1>1, <1>6, CountsKeep, GateKeeps
<1>8. pc'[t] = "spin" /\ \A u \in Threads : u # t => pc'[u] = pc[u]
  BY <1>1, <1>3, <1>4, Moved
<1>9. BlocksHeld'
  <2>1. CASE block' = block
    BY <1>1, <1>3, <1>8, <2>1 DEF BlocksHeld
  <2>2. ASSUME NEW b \in Allocated, \A u \in Threads : block[u] # b,
               block' = [block EXCEPT ![t] = b]
        PROVE  BlocksHeld'
    <3>1. block'[t] = b /\ \A u \in Threads : u # t => block'[u] = block[u]
      BY <1>3, <2>2 DEF TypeOK
    <3>2. b # Null /\ maker'[b] # Null
      BY <1>1 DEF Allocated
    <3>. QED
      BY <1>1, <1>3, <1>8, <2>2, <3>1, <3>2 DEF BlocksHeld
  <2>. QED
    BY <1>2, <2>1, <2>2
<1>10. BlocksAreCurrent'
  BY <1>1, <1>8 DEF IInv, BlocksAreCurrent, memory, Allocated
<1>. QED
  BY <1>5, <1>7, <1>9, <1>10 DEF IInv

LEMMA GuardStep == ASSUME IInv, NEW t \in Threads, Guarded(t) PROVE IInv'
<1>1. UNCHANGED <<enabled, live, spc, arg, memory, loaded, block, maker>>
  BY DEF Guarded, GuardSees, GuardEnters, GuardChecks, GuardWithdraws, setter, locals
<1>2. TypeOK /\ BlocksHeld /\ CallsAccount
  BY DEF IInv
<1>3. \A to \in Places : Goes(t, to) /\ active' \in Nat => TypeOK'
  BY <1>1, <1>2, Moved DEF TypeOK, memory
<1>4. ASSUME NEW to \in Places, Goes(t, to), to \notin {"reserve", "allocate", "free"},
             to \in {"idle", "enabled"} => block[t] = Null,
             pc[t] \notin {"unreserve", "leave"}
      PROVE  BlocksHeld' /\ BlocksAreCurrent'
  <2>1. pc'[t] = to /\ \A u \in Threads : u # t => pc'[u] = pc[u]
    BY <1>2, <1>4, Moved
  <2>2. BlocksHeld'
    BY <1>1, <1>2, <1>4, <2>1 DEF BlocksHeld
  <2>3. BlocksAreCurrent'
    BY <1>1, <1>4, <2>1 DEF IInv, BlocksAreCurrent, memory, Allocated
  <2>. QED
    BY <2>2, <2>3
<1>5. CASE GuardSees(t)
  <2>1. pc[t] = "spin" /\ Goes(t, "enter") /\ active' = active /\ "enter" \in Places
    BY <1>5 DEF GuardSees, Places
  <2>2. Counted' = Counted /\ Reserved' = Reserved /\ Inside' = Inside
    BY <1>2, <2>1, Moved DEF Counted, Reserved, Inside
  <2>3. CallsAccount' /\ LiveAccounts' /\ GateFollows' /\ QuiescentPoint'
    BY <1>1, <2>1, <2>2, CountsKeep, GateKeeps
  <2>4. TypeOK'
    BY <1>2, <1>3, <2>1 DEF TypeOK
  <2>. QED
    BY <1>4, <2>1, <2>3, <2>4 DEF IInv
<1>6. CASE GuardEnters(t)
  <2>1. pc[t] = "enter" /\ Goes(t, "check") /\ active' = active + 1 /\ "check" \in Places
    BY <1>6 DEF GuardEnters, Places
  <2>2. /\ t \notin Counted /\ Counted' = Counted \cup {t}
        /\ Reserved' = Reserved /\ Inside' = Inside
    BY <1>2, <2>1, Moved DEF Counted, Reserved, Inside
  <2>3. CallsAccount'
    BY <1>2, <2>1, <2>2, OneMore, AllFinite DEF CallsAccount
  <2>4. LiveAccounts' /\ GateFollows' /\ QuiescentPoint'
    BY <1>1, <2>2, GateKeeps DEF IInv, LiveAccounts, Allocated
  <2>5. TypeOK'
    BY <1>2, <1>3, <2>1 DEF TypeOK
  <2>. QED
    BY <1>4, <2>1, <2>3, <2>4, <2>5 DEF IInv
<1>7. CASE GuardChecks(t)
  <2>1. pc[t] = "check" /\ active' = active
    BY <1>7 DEF GuardChecks
  <2>2. PICK to \in {"withdraw", "enabled", "load"} :
            /\ Goes(t, to)
            /\ to # "withdraw" => ~gateClosed
            /\ to = "enabled" => block[t] = Null
    BY <1>7 DEF GuardChecks, TurnedAway
  <2>3. to \in Places
    BY DEF Places
  <2>4. /\ Counted' = Counted /\ Reserved' = Reserved
        /\ Inside' \subseteq Inside \cup {t} /\ (t \in Inside' => ~gateClosed)
    BY <1>2, <2>1, <2>2, <2>3, Moved DEF Counted, Reserved, Inside
  <2>5. CallsAccount' /\ LiveAccounts' /\ GateFollows' /\ QuiescentPoint'
    BY <1>1, <2>1, <2>4, CountsKeep, GateKeeps
  <2>6. TypeOK'
    BY <1>2, <1>3, <2>1, <2>2, <2>3 DEF TypeOK
  <2>. QED
    BY <1>4, <2>1, <2>2, <2>3, <2>5, <2>6 DEF IInv
<1>8. CASE GuardWithdraws(t)
  <2>1. pc[t] = "withdraw" /\ Goes(t, "spin") /\ active' = active - 1 /\ "spin" \in Places
    BY <1>8 DEF GuardWithdraws, Withdrawn, Places
  <2>2. /\ t \in Counted /\ Counted' = Counted \ {t}
        /\ Reserved' = Reserved /\ Inside' = Inside
    BY <1>2, <2>1, Moved DEF Counted, Reserved, Inside
  <2>3. CallsAccount' /\ active' \in Nat
    <3>1. Cardinality(Counted') = Cardinality(Counted) - 1 /\ Cardinality(Counted') \in Nat
      BY <2>2, OneLess, AllFinite, FS_Subset, FS_CardinalityType
    <3>. QED
      BY <1>2, <2>1, <3>1 DEF CallsAccount
  <2>4. LiveAccounts' /\ GateFollows' /\ QuiescentPoint'
    BY <1>1, <2>2, GateKeeps DEF IInv, LiveAccounts, Allocated
  <2>5. TypeOK'
    BY <1>3, <2>1, <2>3
  <2>. QED
    BY <1>4, <2>1, <2>3, <2>4, <2>5 DEF IInv
<1>. QED
  BY <1>5, <1>6, <1>7, <1>8 DEF Guarded

----------------------------------------------------------------------------
(* Inside the guard *)

LEMMA LookStep ==
    ASSUME IInv, NEW t \in Threads, ChecksEnabled(t) \/ LoadsAllocator(t)
    PROVE  IInv'
<1>1. UNCHANGED <<enabled, active, live, spc, arg, memory, block, maker>>
  BY DEF ChecksEnabled, LoadsAllocator, setter, locals
<1>2. TypeOK /\ BlocksHeld
  BY DEF IInv
<1>3. PICK to \in {"load", "leave", "reserve", "free"} :
        /\ Goes(t, to)
        /\ pc[t] \in {"enabled", "load"}
        /\ to \in {"reserve", "free"} => loaded' = [loaded EXCEPT ![t] = allocator]
        /\ to \in {"load", "leave"} => loaded' = loaded
        /\ to = "reserve" => block[t] = Null
        /\ to = "free" => block[t] # Null
  BY <1>1 DEF ChecksEnabled, LoadsAllocator, locals
<1>4. to \in Places
  BY DEF Places
<1>5. pc' \in [Threads -> Places] /\ pc'[t] = to /\ \A u \in Threads : u # t => pc'[u] = pc[u]
  BY <1>2, <1>3, <1>4, Moved
<1>6. loaded' \in [Threads -> Allocators \cup {Null}] /\ \A u \in Threads : u # t => loaded'[u] = loaded[u]
  BY <1>2, <1>3 DEF TypeOK
<1>7. TypeOK'
  BY <1>1, <1>2, <1>5, <1>6 DEF TypeOK, memory
<1>8. Counted' = Counted /\ Reserved' = Reserved /\ Inside' = Inside
  BY <1>2, <1>3, <1>4, Moved DEF Counted, Reserved, Inside
<1>9. CallsAccount' /\ LiveAccounts' /\ GateFollows' /\ QuiescentPoint'
  BY <1>1, <1>8, CountsKeep, GateKeeps
<1>10. BlocksHeld'
  BY <1>1, <1>2, <1>3, <1>5 DEF BlocksHeld
<1>11. BlocksAreCurrent'
  <2>1. to \in {"reserve", "free"} => loaded'[t] = allocator
    BY <1>2, <1>3 DEF TypeOK
  <2>. QED
    BY <1>1, <1>3, <1>5, <1>6, <2>1 DEF IInv, BlocksAreCurrent, memory, Allocated
<1>. QED
  BY <1>7, <1>9, <1>10, <1>11 DEF IInv

\* What the steps on the counter and the blocks have in common.
LEMMA InsideStep ==
    ASSUME IInv, NEW t \in Threads, t \in Inside, NEW to \in Places, Goes(t, to),
           to \notin {"idle", "spin", "enter", "check", "withdraw"},
           UNCHANGED <<active, spc, memory>>
    PROVE  CallsAccount' /\ GateFollows' /\ QuiescentPoint'
<1>1. Counted' = Counted /\ Inside' = Inside
  BY Moved DEF IInv, Counted, Inside
<1>. QED
  BY <1>1, GateKeeps DEF IInv, CallsAccount

LEMMA ReserveStep == ASSUME IInv, NEW t \in Threads, Reserves(t) PROVE IInv'
<1>1. /\ pc[t] = "reserve" /\ Goes(t, "allocate") /\ live' = live + 1
      /\ UNCHANGED <<enabled, active, spc, arg, memory, loaded, block, maker>>
  BY DEF Reserves, setter, locals
<1>2. TypeOK /\ BlocksHeld /\ LiveAccounts /\ "allocate" \in Places
  BY DEF IInv, Places
<1>3. t \in Inside /\ t \notin Reserved
  BY <1>1 DEF Inside, Counted, Reserved
<1>4. pc' \in [Threads -> Places] /\ pc'[t] = "allocate" /\ \A u \in Threads : u # t => pc'[u] = pc[u]
  BY <1>1, <1>2, Moved
<1>5. TypeOK'
  BY <1>1, <1>2, <1>4 DEF TypeOK, memory
<1>6. LiveAccounts'
  <2>1. Cardinality(Reserved') = Cardinality(Reserved) + 1
    BY <1>1, <1>2, <1>3, Moved, OneMore, AllFinite
  <2>2. Allocated' = Allocated
    BY <1>1 DEF Allocated
  <2>. QED
    BY <1>1, <1>2, <2>1, <2>2, AllFinite DEF LiveAccounts
<1>7. BlocksHeld'
  BY <1>1, <1>2, <1>4 DEF BlocksHeld
<1>8. BlocksAreCurrent'
  BY <1>1, <1>4 DEF IInv, BlocksAreCurrent, memory, Allocated
<1>. QED
  BY <1>1, <1>2, <1>3, <1>5, <1>6, <1>7, <1>8, InsideStep DEF IInv

LEMMA AllocateStep == ASSUME IInv, NEW t \in Threads, Allocates(t) PROVE IInv'
<1>1. /\ pc[t] = "allocate"
      /\ UNCHANGED <<enabled, active, live, spc, arg, memory, loaded, block>>
  BY DEF Allocates, setter, locals
<1>2. TypeOK /\ BlocksHeld /\ LiveAccounts /\ "leave" \in Places /\ "unreserve" \in Places
  BY DEF IInv, Places
<1>3. t \in Inside /\ t \in Reserved
  BY <1>1 DEF Inside, Counted, Reserved
<1>4. CASE maker' = maker /\ Goes(t, "unreserve")
  <2>1. pc' \in [Threads -> Places] /\ pc'[t] = "unreserve" /\ \A u \in Threads : u # t => pc'[u] = pc[u]
    BY <1>2, <1>4, Moved
  <2>2. TypeOK'
    BY <1>1, <1>2, <1>4, <2>1 DEF TypeOK, memory
  <2>3. Reserved' = Reserved /\ Allocated' = Allocated
    BY <1>2, <1>3, <1>4, Moved DEF Allocated
  <2>4. LiveAccounts' /\ BlocksHeld'
    BY <1>1, <1>2, <1>4, <2>1, <2>3 DEF LiveAccounts, BlocksHeld
  <2>5. BlocksAreCurrent'
    BY <1>1, <1>4, <2>1, <2>3 DEF IInv, BlocksAreCurrent, memory
  <2>. QED
    BY <1>1, <1>2, <1>3, <1>4, <2>2, <2>4, <2>5, InsideStep DEF IInv
<1>5. ASSUME NEW b \in Blocks \ Allocated, loaded[t] # Null,
             maker' = [maker EXCEPT ![b] = loaded[t]], Goes(t, "leave")
      PROVE  IInv'
  <2>1. pc' \in [Threads -> Places] /\ pc'[t] = "leave" /\ \A u \in Threads : u # t => pc'[u] = pc[u]
    BY <1>2, <1>5, Moved
  <2>2. maker' \in [Blocks -> Allocators \cup {Null}] /\ maker'[b] = loaded[t]
        /\ \A c \in Blocks : c # b => maker'[c] = maker[c]
    BY <1>2, <1>5 DEF TypeOK
  <2>3. TypeOK'
    BY <1>1, <1>2, <2>1, <2>2 DEF TypeOK, memory
  <2>4. LiveAccounts'
    <3>1. Cardinality(Reserved') = Cardinality(Reserved) - 1
      BY <1>2, <1>3, <1>5, Moved, OneLess, AllFinite
    <3>2. Allocated' = Allocated \cup {b}
      BY <1>5, <2>2 DEF Allocated
    <3>3. Cardinality(Allocated') = Cardinality(Allocated) + 1
      BY <3>2, OneMore, AllFinite
    <3>. QED
      BY <1>1, <1>2, <3>1, <3>3, AllFinite DEF LiveAccounts
  <2>5. BlocksHeld'
    <3>1. \A u \in Threads : block[u] # Null => block[u] \in Blocks
      BY <1>2 DEF TypeOK
    <3>2. \A c \in Blocks : maker[c] # Null => maker'[c] # Null
      BY <1>5, <2>2
    <3>. QED
      BY <1>1, <1>2, <2>1, <3>1, <3>2 DEF BlocksHeld
  <2>6. BlocksAreCurrent'
    <3>1. ~buffered => loaded[t] = allocator
      BY <1>1 DEF IInv, BlocksAreCurrent
    <3>. QED
      BY <1>1, <2>1, <2>2, <3>1 DEF IInv, BlocksAreCurrent, memory, Allocated
  <2>. QED
    BY <1>1, <1>2, <1>3, <1>5, <2>3, <2>4, <2>5, <2>6, InsideStep DEF IInv
<1>. QED
  BY <1>4, <1>5 DEF Allocates

LEMMA FreeStep == ASSUME IInv, NEW t \in Threads, Frees(t) PROVE IInv'
<1>1. /\ pc[t] = "free" /\ Goes(t, "unreserve")
      /\ maker' = [maker EXCEPT ![block[t]] = Null]
      /\ UNCHANGED <<enabled, active, live, spc, arg, memory, loaded, block>>
  BY DEF Frees, setter, locals
<1>2. TypeOK /\ BlocksHeld /\ LiveAccounts /\ "unreserve" \in Places
  BY DEF IInv, Places
<1>3. t \in Inside /\ t \notin Reserved
  BY <1>1 DEF Inside, Counted, Reserved
<1>4. block[t] # Null /\ block[t] \in Allocated
  BY <1>1, <1>2 DEF BlocksHeld, TypeOK, Allocated
<1>5. pc' \in [Threads -> Places] /\ pc'[t] = "unreserve" /\ \A u \in Threads : u # t => pc'[u] = pc[u]
  BY <1>1, <1>2, Moved
<1>6. maker' \in [Blocks -> Allocators \cup {Null}] /\ maker'[block[t]] = Null
      /\ \A c \in Blocks : c # block[t] => maker'[c] = maker[c]
  BY <1>1, <1>2, <1>4 DEF TypeOK, Allocated
<1>7. TypeOK'
  BY <1>1, <1>2, <1>5, <1>6 DEF TypeOK, memory
<1>8. LiveAccounts'
  <2>1. Cardinality(Reserved') = Cardinality(Reserved) + 1
    BY <1>1, <1>2, <1>3, Moved, OneMore, AllFinite
  <2>2. Allocated' = Allocated \ {block[t]}
    BY <1>6 DEF Allocated
  <2>3. Cardinality(Allocated') = Cardinality(Allocated) - 1
    BY <1>4, <2>2, OneLess, AllFinite
  <2>. QED
    BY <1>1, <1>2, <2>1, <2>3, AllFinite DEF LiveAccounts
<1>9. BlocksHeld'
  <2>1. \A u \in Threads : block[u] # Null => block[u] \in Blocks
    BY <1>2 DEF TypeOK
  <2>2. \A u \in Threads : u # t /\ block[u] # Null => maker'[block[u]] = maker[block[u]]
    BY <1>2, <1>6, <2>1 DEF BlocksHeld
  <2>. QED
    BY <1>1, <1>2, <1>5, <2>2 DEF BlocksHeld
<1>10. BlocksAreCurrent'
  BY <1>1, <1>5, <1>6 DEF IInv, BlocksAreCurrent, memory, Allocated
<1>. QED
  BY <1>1, <1>2, <1>3, <1>7, <1>8, <1>9, <1>10, InsideStep DEF IInv

LEMMA UnreserveStep == ASSUME IInv, NEW t \in Threads, Unreserves(t) PROVE IInv'
<1>1. /\ pc[t] = "unreserve" /\ Goes(t, "leave") /\ live' = live - 1
      /\ UNCHANGED <<enabled, active, spc, arg, memory, loaded, block, maker>>
  BY DEF Unreserves, Unreserved, setter, locals
<1>2. TypeOK /\ BlocksHeld /\ LiveAccounts /\ "leave" \in Places
  BY DEF IInv, Places
<1>3. t \in Inside /\ t \in Reserved
  BY <1>1 DEF Inside, Counted, Reserved
<1>4. pc' \in [Threads -> Places] /\ pc'[t] = "leave" /\ \A u \in Threads : u # t => pc'[u] = pc[u]
  BY <1>1, <1>2, Moved
<1>5. LiveAccounts' /\ live' \in Nat
  <2>1. Cardinality(Reserved') = Cardinality(Reserved) - 1
    BY <1>1, <1>2, <1>3, Moved, OneLess, AllFinite
  <2>2. Cardinality(Reserved') \in Nat
    <3>1. Reserved' = Reserved \ {t}
      BY <1>1, <1>2, Moved
    <3>. QED
      BY <3>1, AllFinite, FS_Subset, FS_CardinalityType
  <2>3. Allocated' = Allocated
    BY <1>1 DEF Allocated
  <2>. QED
    BY <1>1, <1>2, <2>1, <2>2, <2>3, AllFinite DEF LiveAccounts
<1>6. TypeOK'
  BY <1>1, <1>2, <1>4, <1>5 DEF TypeOK, memory
<1>7. BlocksHeld'
  BY <1>1, <1>2, <1>4 DEF BlocksHeld
<1>8. BlocksAreCurrent'
  BY <1>1, <1>4 DEF IInv, BlocksAreCurrent, memory, Allocated
<1>. QED
  BY <1>1, <1>2, <1>3, <1>5, <1>6, <1>7, <1>8, InsideStep DEF IInv

LEMMA LeaveStep == ASSUME IInv, NEW t \in Threads, Leaves(t) PROVE IInv'
<1>1. /\ pc[t] = "leave" /\ Goes(t, "idle") /\ active' = active - 1
      /\ loaded' = [loaded EXCEPT ![t] = Null] /\ block' = [block EXCEPT ![t] = Null]
      /\ UNCHANGED <<enabled, live, spc, arg, memory, maker>>
  BY DEF Leaves, setter
<1>2. TypeOK /\ BlocksHeld /\ CallsAccount /\ "idle" \in Places
  BY DEF IInv, Places
<1>3. /\ t \in Counted /\ Counted' = Counted \ {t}
      /\ Reserved' = Reserved /\ Inside' = Inside \ {t}
  BY <1>1, <1>2, Moved DEF Counted, Reserved
<1>4. pc' \in [Threads -> Places] /\ pc'[t] = "idle" /\ \A u \in Threads : u # t => pc'[u] = pc[u]
  BY <1>1, <1>2, Moved
<1>5. CallsAccount' /\ active' \in Nat
  <2>1. Cardinality(Counted') = Cardinality(Counted) - 1 /\ Cardinality(Counted') \in Nat
    BY <1>3, OneLess, AllFinite, FS_Subset, FS_CardinalityType
  <2>. QED
    BY <1>1, <1>2, <2>1 DEF CallsAccount
<1>6. /\ block'[t] = Null
      /\ \A u \in Threads : u # t => block'[u] = block[u] /\ loaded'[u] = loaded[u]
  BY <1>1, <1>2 DEF TypeOK
<1>7. TypeOK'
  BY <1>1, <1>2, <1>4, <1>5 DEF TypeOK, memory
<1>8. LiveAccounts' /\ GateFollows' /\ QuiescentPoint'
  <2>1. GateFollows' /\ QuiescentPoint'
    BY <1>1, <1>3, GateKeeps
  <2>. QED
    BY <1>1, <1>3, <2>1 DEF IInv, LiveAccounts, Allocated
<1>9. BlocksHeld'
  BY <1>1, <1>2, <1>4, <1>6 DEF BlocksHeld
<1>10. BlocksAreCurrent'
  BY <1>1, <1>4, <1>6 DEF IInv, BlocksAreCurrent, memory, Allocated
<1>. QED
  BY <1>5, <1>7, <1>8, <1>9, <1>10 DEF IInv

LEMMA StutterStep == ASSUME IInv, UNCHANGED vars PROVE IInv'
<1>1. /\ CallsAccount' /\ LiveAccounts' /\ BlocksHeld'
      /\ Inside' = Inside /\ Allocated' = Allocated
  BY SetterKeeps DEF vars
<1>2. TypeOK' /\ GateFollows' /\ QuiescentPoint' /\ BlocksAreCurrent'
  BY <1>1 DEF vars, setter, memory, locals, IInv, TypeOK, GateFollows, QuiescentPoint, BlocksAreCurrent
<1>. QED
  BY <1>1, <1>2 DEF IInv

LEMMA StepInv == IInv /\ [Next]_vars => IInv'
<1>. SUFFICES ASSUME IInv, [Next]_vars PROVE IInv'
  OBVIOUS
<1>1. CASE \E t \in Threads : Dispatched(t)
  BY <1>1, LookStep, ReserveStep, AllocateStep, FreeStep, UnreserveStep, LeaveStep DEF Dispatched
<1>2. CASE \E t \in Threads : byte_allocate(t) \/ byte_deallocate(t) \/ Guarded(t)
  BY <1>2, CallStep, GuardStep
<1>3. CASE (\E a \in Allocators \cup {Null} : set_allocator(a)) \/ SetterContinues
  BY <1>3, SetterStep
<1>4. CASE Drain \/ \E e \in BOOLEAN : enable_allocation(e)
  BY <1>4, DrainStep, EnableStep
<1>5. CASE UNCHANGED vars
  BY <1>5, StutterStep
<1>. QED
  BY <1>1, <1>2, <1>3, <1>4, <1>5 DEF Next

----------------------------------------------------------------------------
(* The theorems *)

\* IInv holds in every behaviour of memory_allocation.cpp's calls.
THEOREM Inductive == Spec => []IInv
BY InitInv, StepInv, PTL DEF Spec

\* The counters are never driven below zero, memory and every caller keep to
\* their types, and every place in the code is one of those named.
THEOREM TypeCorrect == Spec => []TypeOK
<1>1. IInv => TypeOK
  BY DEF IInv
<1>. QED
  BY <1>1, Inductive, PTL

\* Where loads wait for stores, set_allocator() decides and replaces with no
\* call of byte_allocate() or byte_deallocate() past the guard.
THEOREM ReplacedInQuiet == Spec => []QuiescentPoint
<1>1. IInv => QuiescentPoint
  BY DEF IInv
<1>. QED
  BY <1>1, Inductive, PTL

\* There no block outlives the allocator that gave it: every one of them
\* belongs to s_allocator, and so does what a running call is about to use.
THEOREM NeverFreedElsewhere == Spec => []BlocksAreCurrent
<1>1. IInv => BlocksAreCurrent
  BY DEF IInv
<1>. QED
  BY <1>1, Inductive, PTL

\* On every processor s_live_allocations is the number of blocks and of
\* reservations under way.
THEOREM LiveIsCounted == Spec => []LiveAccounts
<1>1. IInv => LiveAccounts
  BY DEF IInv
<1>. QED
  BY <1>1, Inductive, PTL

\* The comment on s_live_allocations, "Allocator replacement is rejected while
\* this is non-zero", is true where loads wait for stores (and is refuted by
\* the run RejectedWhileLive where a store may be late).
THEOREM RejectedWhileLiveInOrder == Spec => [][~buffered /\ allocator' # allocator => live = 0]_vars
<1>1. ASSUME IInv, [Next]_vars, ~buffered, allocator' # allocator PROVE live = 0
  <2>1. SetterReplaces \/ Drain
    <3>1. ASSUME NEW a \in Allocators \cup {Null}, set_allocator(a) PROVE FALSE
      BY <1>1, <3>1 DEF set_allocator, Store, Reaches
    <3>2. ASSUME SetterOpens PROVE FALSE
      BY <1>1, <3>2 DEF SetterOpens, Store, Reaches
    <3>3. UNCHANGED memory => FALSE
      BY <1>1 DEF memory
    <3>4. ASSUME NEW t \in Threads,
                 byte_allocate(t) \/ byte_deallocate(t) \/ Guarded(t) \/ Dispatched(t)
          PROVE  UNCHANGED memory
      BY <3>4 DEF byte_allocate, byte_deallocate, Guarded, GuardSees, GuardEnters, GuardChecks,
           GuardWithdraws, Dispatched, ChecksEnabled, LoadsAllocator, Reserves, Allocates, Frees,
           Unreserves, Leaves
    <3>5. (\E e \in BOOLEAN : enable_allocation(e)) \/ SetterProceeds \/ SetterDecides \/ SetterReturns
          => UNCHANGED memory
      BY DEF enable_allocation, SetterProceeds, SetterDecides, SetterReturns
    <3>6. UNCHANGED vars => UNCHANGED memory
      BY DEF vars
    <3>. QED
      BY <1>1, <3>1, <3>2, <3>3, <3>4, <3>5, <3>6 DEF Next, SetterContinues
  <2>2. Drain => buffer # << >>
    BY DEF Drain
  <2>3. buffer = << >>
    BY <1>1 DEF IInv, GateFollows
  <2>4. SetterReplaces => spc = "replace"
    BY DEF SetterReplaces
  <2>. QED
    BY <1>1, <2>1, <2>2, <2>3, <2>4 DEF IInv, GateFollows
<1>2. IInv /\ [Next]_vars => [~buffered /\ allocator' # allocator => live = 0]_vars
  BY <1>1
<1>. QED
  BY <1>2, Inductive, PTL DEF Spec

----------------------------------------------------------------------------
(* Blocks of memory *)

HIDE AllocationAssumption

CONSTANT Elements
Limits == Limit \in Nat /\ MinCapacity \in Nat

LEMMA Wrap ==
    ASSUME NEW c \in Nat \ {0}, NEW x \in 0 .. 2 * c - 1
    PROVE  x % c = IF x < c THEN x ELSE x - c
<1>1. CASE x < c
  BY <1>1
<1>2. CASE x >= c
  <2>1. x = 1 * c + (x - c) /\ x - c \in 0 .. c - 1
    BY <1>2
  <2>. QED
    BY <1>2, <2>1
<1>. QED
  BY <1>1, <1>2

\* A set of numbers has a least one.
LEMMA Smallest ==
    ASSUME NEW S \in SUBSET Nat, S # {}
    PROVE  \E k \in S : \A j \in S : k <= j
<1>. DEFINE less == {p \in Nat \X Nat : p[1] < p[2]}
<1>1. IsWellFoundedOn(less, Nat)
  BY NatLessThanWellFounded DEF OpToRel
<1>. HIDE DEF less
<1>2. PICK k \in S : \A j \in S : ~ (<<j, k>> \in less)
  BY <1>1, WFMin
<1>3. \A j \in S : k <= j
  <2>. SUFFICES ASSUME NEW j \in S PROVE k <= j
    OBVIOUS
  <2>1. k \in Nat /\ j \in Nat /\ ~ (<<j, k>> \in less)
    BY <1>2
  <2>2. ~ (j < k)
    BY <2>1 DEF less
  <2>. QED
    BY <2>1, <2>2
<1>. QED
  BY <1>3

\* The first numbers that are not all good have a least that is not.
LEMMA Counting ==
    ASSUME NEW N \in Nat, NEW good, 0 \in good, \A k \in 0 .. N - 1 : k \in good => k + 1 \in good
    PROVE  \A k \in 0 .. N : k \in good
<1>. DEFINE bad == {k \in 0 .. N : k \notin good}
<1>. SUFFICES ASSUME bad # {} PROVE FALSE
  OBVIOUS
<1>0. bad \in SUBSET Nat
  OBVIOUS
<1>1. PICK k \in bad : \A j \in bad : k <= j
  BY <1>0, Smallest
<1>2. k # 0 /\ k \in 1 .. N /\ k \notin good
  BY <1>1
<1>3. k - 1 \in 0 .. N - 1 /\ k - 1 \notin bad
  BY <1>1, <1>2
<1>4. k - 1 \in good /\ (k - 1) + 1 = k
  BY <1>2, <1>3
<1>. QED
  BY <1>2, <1>3, <1>4

\* n elements of a block.
LEMMA SliceIs ==
    ASSUME NEW V, NEW b \in Seq(V), NEW i \in Nat, NEW n \in Nat, i + n <= Len(b)
    PROVE  /\ Slice(b, i, n) \in Seq(V) /\ Len(Slice(b, i, n)) = n
           /\ DOMAIN Slice(b, i, n) = 1 .. n
           /\ \A k \in 1 .. n : Slice(b, i, n)[k] = b[i + k]
<1>. DEFINE s == SubSeq(b, i + 1, i + n)
<1>1. \A k \in i + 1 .. i + n : b[k] \in V
  <2>. SUFFICES ASSUME NEW k \in i + 1 .. i + n PROVE b[k] \in V
    OBVIOUS
  <2>1. k \in 1 .. Len(b)
    BY LenProperties
  <2>. QED
    BY <2>1, ElementOfSeq
<1>2. /\ s \in Seq(V) /\ Len(s) = (IF i + 1 <= i + n THEN i + n - (i + 1) + 1 ELSE 0)
      /\ \A k \in 1 .. i + n - (i + 1) + 1 : s[k] = b[i + 1 + k - 1]
  BY <1>1, SubSeqProperties
<1>3. Len(s) = n
  BY <1>2
<1>4. ASSUME NEW k \in 1 .. n PROVE s[k] = b[i + k]
  <2>1. k \in 1 .. i + n - (i + 1) + 1 /\ i + 1 + k - 1 = i + k
    OBVIOUS
  <2>. QED
    BY <1>2, <2>1
<1>5. DOMAIN s = 1 .. n
  BY <1>2, <1>3, LenProperties
<1>. QED
  BY <1>2, <1>3, <1>4, <1>5 DEF Slice

\* One of them.
LEMMA OneIs ==
    ASSUME NEW V, NEW b \in Seq(V), NEW i \in Nat, i + 1 <= Len(b)
    PROVE  /\ Slice(b, i, 1) \in Seq(V) /\ Len(Slice(b, i, 1)) = 1
           /\ Slice(b, i, 1)[1] = b[i + 1]
<1>1. \A n \in Nat : i + n <= Len(b) =>
         /\ Slice(b, i, n) \in Seq(V) /\ Len(Slice(b, i, n)) = n
         /\ \A k \in 1 .. n : Slice(b, i, n)[k] = b[i + k]
  BY SliceIs
<1>2. 1 \in Nat /\ 1 \in 1 .. 1
  OBVIOUS
<1>. QED
  BY <1>1, <1>2

\* A block with some elements written.
LEMMA WriteIs ==
    ASSUME NEW V, NEW b \in Seq(V), NEW i \in Int, NEW e \in Seq(V)
    PROVE  /\ Write(b, i, e) \in Seq(V) /\ Len(Write(b, i, e)) = Len(b)
           /\ \A k \in 1 .. Len(b) :
                 Write(b, i, e)[k] = IF i < k /\ k <= i + Len(e) THEN e[k - i] ELSE b[k]
<1>1. Len(b) \in Nat /\ DOMAIN b = 1 .. Len(b) /\ \A k \in 1 .. Len(b) : b[k] \in V
  BY LenProperties, ElementOfSeq
<1>2. Len(e) \in Nat /\ DOMAIN e = 1 .. Len(e) /\ \A k \in 1 .. Len(e) : e[k] \in V
  BY LenProperties, ElementOfSeq
<1>. DEFINE w == Write(b, i, e)
<1>3. w = [k \in 1 .. Len(b) |-> IF k - i \in DOMAIN e THEN e[k - i] ELSE b[k]]
  BY <1>1 DEF Write
<1>. HIDE DEF w
<1>4. ASSUME NEW k \in 1 .. Len(b)
      PROVE  w[k] = (IF i < k /\ k <= i + Len(e) THEN e[k - i] ELSE b[k]) /\ w[k] \in V
  <2>1. w[k] = IF k - i \in DOMAIN e THEN e[k - i] ELSE b[k]
    BY <1>3
  <2>2. k - i \in DOMAIN e <=> i < k /\ k <= i + Len(e)
    BY <1>1, <1>2
  <2>. QED
    BY <1>1, <1>2, <2>1, <2>2
<1>5. w \in [1 .. Len(b) -> V]
  BY <1>3, <1>4
<1>6. w \in Seq(V)
  BY <1>1, <1>5, SeqDef
<1>7. Len(w) = Len(b)
  BY <1>1, <1>5, <1>6, LenProperties
<1>. QED
  BY <1>4, <1>6, <1>7 DEF w

\* Elements moved from one block to another, or within one.
LEMMA MoveIs ==
    ASSUME NEW V, NEW b \in Seq(V), NEW to \in Int, NEW a \in Seq(V), NEW from \in Nat,
           NEW n \in Nat, from + n <= Len(a)
    PROVE  /\ memmove(b, to, a, from, n) \in Seq(V) /\ Len(memmove(b, to, a, from, n)) = Len(b)
           /\ \A k \in 1 .. Len(b) :
                 memmove(b, to, a, from, n)[k] = IF to < k /\ k <= to + n THEN a[from + (k - to)] ELSE b[k]
<1>. DEFINE s == Slice(a, from, n)
<1>1. s \in Seq(V) /\ Len(s) = n /\ \A k \in 1 .. n : s[k] = a[from + k]
  BY SliceIs
<1>2. memmove(b, to, a, from, n) = Write(b, to, s)
  BY DEF memmove
<1>. HIDE DEF s
<1>3. /\ Write(b, to, s) \in Seq(V) /\ Len(Write(b, to, s)) = Len(b)
      /\ \A k \in 1 .. Len(b) :
            Write(b, to, s)[k] = IF to < k /\ k <= to + Len(s) THEN s[k - to] ELSE b[k]
  BY <1>1, WriteIs
<1>4. ASSUME NEW k \in 1 .. Len(b)
      PROVE  Write(b, to, s)[k] = IF to < k /\ k <= to + n THEN a[from + (k - to)] ELSE b[k]
  <2>1. Write(b, to, s)[k] = IF to < k /\ k <= to + n THEN s[k - to] ELSE b[k]
    BY <1>1, <1>3
  <2>2. to < k /\ k <= to + n => k - to \in 1 .. n
    OBVIOUS
  <2>. QED
    BY <1>1, <2>1, <2>2
<1>. QED
  BY <1>2, <1>3, <1>4

\* Blocks with the same elements are the same.
LEMMA SameBlock ==
    ASSUME NEW V, NEW b \in Seq(V), NEW a \in Seq(V), Len(a) = Len(b),
           \A k \in 1 .. Len(b) : a[k] = b[k]
    PROVE  a = b
BY SeqEqual

\* Copying forwards, one element at a time.
Copies(after, b, to, from, n) ==
    after = [k \in 0 .. n |->
               IF k = 0 THEN b
               ELSE Write(after[k - 1], to + k - 1, Slice(after[k - 1], from + k - 1, 1))]

LEMMA CopiesOn ==
    ASSUME NEW b, NEW to, NEW from, NEW N \in Nat
    PROVE  \E after : Copies(after, b, to, from, N)
<1>. DEFINE On(x, k) == Write(x, to + k - 1, Slice(x, from + k - 1, 1))
            good == {n \in 0 .. N : \E after : Copies(after, b, to, from, n)}
<1>1. 0 \in good
  <2>. DEFINE f == [k \in 0 .. 0 |-> b]
  <2>1. f = [k \in 0 .. 0 |-> IF k = 0 THEN b ELSE On(f[k - 1], k)]
    OBVIOUS
  <2>2. Copies(f, b, to, from, 0)
    BY <2>1, Zenon DEF Copies
  <2>. HIDE DEF f
  <2>. QED
    BY <2>2
<1>2. ASSUME NEW n \in 0 .. N - 1, n \in good
      PROVE  n + 1 \in good
  <2>. HIDE DEF On
  <2>1. PICK f : f = [k \in 0 .. n |-> IF k = 0 THEN b ELSE On(f[k - 1], k)]
    BY <1>2, Zenon DEF Copies, On
  <2>. DEFINE g == [k \in 0 .. n + 1 |-> IF k \in 0 .. n THEN f[k] ELSE On(f[n], k)]
  <2>2. ASSUME NEW k \in 0 .. n + 1
        PROVE  g[k] = IF k = 0 THEN b ELSE On(g[k - 1], k)
    <3>1. CASE k = 0
      <4>1. 0 \in 0 .. n /\ 0 \in 0 .. n + 1
        OBVIOUS
      <4>. QED
        BY <2>1, <3>1, <4>1
    <3>2. CASE k \in 1 .. n
      <4>1. k \in 0 .. n /\ k - 1 \in 0 .. n /\ k - 1 \in 0 .. n + 1 /\ k # 0
        BY <3>2
      <4>2. f[k] = On(f[k - 1], k)
        BY <2>1, <4>1
      <4>. QED
        BY <4>1, <4>2
    <3>3. CASE k = n + 1
      <4>1. k \notin 0 .. n /\ k - 1 = n /\ n \in 0 .. n /\ n \in 0 .. n + 1 /\ k # 0
        BY <3>3
      <4>. QED
        BY <4>1
    <3>. QED
      BY <3>1, <3>2, <3>3
  <2>3. g = [k \in 0 .. n + 1 |-> IF k = 0 THEN b ELSE On(g[k - 1], k)]
    <3>1. g = [k \in 0 .. n + 1 |-> g[k]]
      BY Zenon
    <3>. HIDE DEF g
    <3>. QED
      BY <2>2, <3>1
  <2>4. Copies(g, b, to, from, n + 1)
    BY <2>3, Zenon DEF Copies, On
  <2>. HIDE DEF g
  <2>. QED
    BY <2>4
<1>3. N \in good
  <2>. HIDE DEF good
  <2>. QED
    BY <1>1, <1>2, Counting
<1>. QED
  BY <1>3

\* A forward copy leaves a block of the same size; and when the elements go down,
\* or the ranges lie apart, it is the same as a move.
LEMMA ForwardsIs ==
    ASSUME NEW V, NEW b \in Seq(V), NEW to \in Nat, NEW from \in Nat, NEW n \in Nat,
           from + n <= Len(b)
    PROVE  /\ Forwards(b, to, from, n) \in Seq(V) /\ Len(Forwards(b, to, from, n)) = Len(b)
           /\ to <= from \/ from + n <= to => Forwards(b, to, from, n) = memmove(b, to, b, from, n)
<1>. DEFINE P(f) == f = [k \in 0 .. n |->
                           IF k = 0 THEN b
                           ELSE Write(f[k - 1], to + k - 1, Slice(f[k - 1], from + k - 1, 1))]
            after == CHOOSE f : P(f)
            apart == to <= from \/ from + n <= to
<1>1. Forwards(b, to, from, n) = after[n]
  BY Zenon DEF Forwards
<1>2. P(after)
  <2>1. \E f : P(f)
    <3>1. \E f : Copies(f, b, to, from, n)
      BY CopiesOn
    <3>. QED
      BY <3>1, Zenon DEF Copies
  <2>. HIDE DEF P
  <2>. QED
    BY <2>1, Zenon
<1>. DEFINE On(x, k) == Write(x, to + k - 1, Slice(x, from + k - 1, 1))
<1>3. after = [k \in 0 .. n |-> IF k = 0 THEN b ELSE On(after[k - 1], k)]
  BY <1>2, Zenon
<1>. HIDE DEF P, after, On
<1>4. after[0] = b /\ \A k \in 1 .. n : after[k] = On(after[k - 1], k)
  BY <1>3
<1>. DEFINE At(f, k, x) == f[x] = IF to < x /\ x <= to + k THEN b[from + (x - to)] ELSE b[x]
            good == {k \in 0 .. n : /\ after[k] \in Seq(V) /\ Len(after[k]) = Len(b)
                                    /\ apart => \A x \in 1 .. Len(b) : At(after[k], k, x)}
<1>5. Len(b) \in Nat
  BY LenProperties
<1>6. 0 \in good
  BY <1>4
<1>7. ASSUME NEW k \in 0 .. n - 1, k \in good
      PROVE  k + 1 \in good
  <2>. DEFINE f == after[k]
              s == Slice(f, from + k, 1)
              g == after[k + 1]
  <2>1. g = Write(f, to + k, s)
    <3>1. k + 1 \in 1 .. n /\ (k + 1) - 1 = k /\ to + (k + 1) - 1 = to + k /\ from + (k + 1) - 1 = from + k
      OBVIOUS
    <3>. QED
      BY <1>4, <3>1 DEF On
  <2>2. f \in Seq(V) /\ Len(f) = Len(b) /\ (apart => \A x \in 1 .. Len(b) : At(f, k, x))
    BY <1>7
  <2>. HIDE DEF f, g
  <2>3. s \in Seq(V) /\ Len(s) = 1 /\ s[1] = f[from + k + 1]
    <3>1. from + k + 1 <= Len(f) /\ from + k \in Nat
      BY <1>5, <2>2
    <3>. QED
      BY <2>2, <3>1, OneIs
  <2>. HIDE DEF s
  <2>4. /\ g \in Seq(V) /\ Len(g) = Len(b)
        /\ \A x \in 1 .. Len(b) : g[x] = IF to + k < x /\ x <= to + k + 1 THEN s[x - (to + k)] ELSE f[x]
    <3>1. to + k \in Int
      OBVIOUS
    <3>2. /\ Write(f, to + k, s) \in Seq(V) /\ Len(Write(f, to + k, s)) = Len(f)
          /\ \A x \in 1 .. Len(f) : Write(f, to + k, s)[x] =
                IF to + k < x /\ x <= to + k + Len(s) THEN s[x - (to + k)] ELSE f[x]
      BY <2>2, <2>3, <3>1, WriteIs
    <3>. QED
      BY <2>1, <2>2, <2>3, <3>2
  <2>5. ASSUME apart, NEW x \in 1 .. Len(b) PROVE At(g, k + 1, x)
    <3>1. At(f, k, x)
      BY <2>2, <2>5
    <3>2. CASE x = to + k + 1
      <4>1. g[x] = f[from + k + 1]
        <5>1. x - (to + k) = 1
          BY <3>2
        <5>. QED
          BY <2>3, <2>4, <3>2, <5>1
      <4>2. from + k + 1 \in 1 .. Len(b)
        BY <1>5
      <4>3. At(f, k, from + k + 1)
        BY <2>2, <2>5, <4>2
      <4>4. f[from + k + 1] = b[from + k + 1]
        BY <2>5, <4>3
      <4>5. from + (x - to) = from + k + 1
        BY <3>2
      <4>. QED
        BY <3>2, <4>1, <4>4, <4>5
    <3>3. CASE x # to + k + 1
      <4>1. g[x] = f[x]
        BY <2>4, <3>3
      <4>. QED
        BY <3>1, <3>3, <4>1
    <3>. QED
      BY <3>2, <3>3
  <2>. HIDE DEF At
  <2>. QED
    BY <2>4, <2>5 DEF g
<1>8. /\ after[n] \in Seq(V) /\ Len(after[n]) = Len(b)
      /\ apart => \A x \in 1 .. Len(b) : At(after[n], n, x)
  <2>1. n \in good
    <3>1. \A k \in 0 .. n - 1 : k \in good => k + 1 \in good
      BY <1>7
    <3>. HIDE DEF good
    <3>2. \A k \in 0 .. n : k \in good
      BY <1>6, <3>1, Counting
    <3>. QED
      BY <3>2
  <2>. QED
    BY <2>1
<1>9. apart => after[n] = memmove(b, to, b, from, n)
  <2>. SUFFICES ASSUME apart PROVE after[n] = memmove(b, to, b, from, n)
    OBVIOUS
  <2>. DEFINE m == memmove(b, to, b, from, n)
  <2>1. m \in Seq(V) /\ Len(m) = Len(b) /\ \A x \in 1 .. Len(b) : At(m, n, x)
    BY MoveIs
  <2>2. \A x \in 1 .. Len(b) : m[x] = after[n][x]
    BY <1>8, <2>1
  <2>3. Len(after[n]) = Len(m) /\ Len(m) = Len(b) /\ after[n] \in Seq(V) /\ m \in Seq(V)
    BY <1>8, <2>1
  <2>. HIDE DEF m
  <2>4. \A x \in 1 .. Len(m) : after[n][x] = m[x]
    BY <2>2, <2>3
  <2>. QED
    BY <2>3, <2>4, SameBlock DEF m
<1>. QED
  BY <1>1, <1>8, <1>9

Values == Elements \cup {Unset, Zero}
FifoType == [block : Seq(Values), size : Nat, read_index : Nat]
FifoOk(f) == f \in FifoType /\ Sound(f)

\* Where in its block the k-th element of a FIFO is.
Nth(f, k) ==
    IF f.read_index + k <= Capacity(f) THEN f.read_index + k ELSE f.read_index + k - Capacity(f)

\* The numbers of a FIFO.
LEMMA NumbersAre ==
    ASSUME NEW f, FifoOk(f)
    PROVE  /\ f \in FifoType /\ f.block \in Seq(Values) /\ f.size \in Nat /\ f.read_index \in Nat
           /\ Capacity(f) \in Nat /\ Capacity(f) = Len(f.block) /\ f.size <= Capacity(f)
           /\ is_ready(f) <=> f # NoFifo
           /\ is_ready(f) => Capacity(f) > 0 /\ f.read_index < Capacity(f)
           /\ f = NoFifo => /\ f.block = << >> /\ f.size = 0 /\ f.read_index = 0 /\ Capacity(f) = 0
<1>1. f \in FifoType /\ f.block \in Seq(Values) /\ f.size \in Nat /\ f.read_index \in Nat
  BY DEF FifoOk, FifoType
<1>2. Capacity(f) \in Nat /\ Capacity(f) = Len(f.block)
  BY <1>1, LenProperties DEF Capacity
<1>3. NoFifo.block = << >> /\ NoFifo.size = 0 /\ NoFifo.read_index = 0 /\ ~ is_ready(NoFifo)
  BY DEF NoFifo, is_ready
<1>4. f = NoFifo \/ is_ready(f)
  BY DEF FifoOk, Sound
<1>5. is_ready(f) => f.block # << >> /\ f.size <= Capacity(f) /\ f.read_index < Capacity(f)
  BY DEF is_ready
<1>6. f = NoFifo => Capacity(f) = 0
  BY <1>3, EmptySeq DEF Capacity
<1>7. is_ready(f) => Capacity(f) > 0
  BY <1>1, <1>2, <1>5
<1>. QED
  BY <1>1, <1>2, <1>3, <1>4, <1>5, <1>6, <1>7

\* A record with a block that has room for its size is a FIFO.
LEMMA MadeOk ==
    ASSUME NEW b \in Seq(Values), NEW z \in Nat, NEW r \in Nat, z <= Len(b),
           r < Len(b) \/ (r = 0 /\ Len(b) = 0),
           NEW f, f = [block |-> b, size |-> z, read_index |-> r]
    PROVE  /\ FifoOk(f) /\ f.block = b /\ f.size = z /\ f.read_index = r /\ Capacity(f) = Len(b)
<1>1. f \in FifoType /\ f.block = b /\ f.size = z /\ f.read_index = r /\ Capacity(f) = Len(b)
  BY DEF FifoType, Capacity
<1>2. Len(b) \in Nat
  BY LenProperties
<1>3. CASE Len(b) = 0
  <2>1. b = << >>
    BY <1>3, EmptySeq
  <2>2. f = NoFifo
    BY <1>2, <1>3, <2>1 DEF NoFifo
  <2>. QED
    BY <1>1, <2>2 DEF FifoOk, Sound
<1>4. CASE Len(b) # 0
  <2>1. b # << >>
    BY <1>4, EmptySeq
  <2>2. r < Len(b)
    BY <1>4
  <2>. QED
    BY <1>1, <2>1, <2>2 DEF FifoOk, Sound, is_ready
<1>. QED
  BY <1>3, <1>4

\* A FIFO with some of its fields changed.
LEMMA Only ==
    ASSUME NEW b, NEW z, NEW r, NEW g \in [block : {b}, size : {z}, read_index : {r}]
    PROVE  g = [block |-> b, size |-> z, read_index |-> r]
OBVIOUS

LEMMA ChangedBack ==
    ASSUME NEW f \in FifoType, NEW b, NEW z
    PROVE  [f EXCEPT !.block = b, !.size = z] = [block |-> b, size |-> z, read_index |-> f.read_index]
<1>1. [f EXCEPT !.block = b, !.size = z] \in [block : {b}, size : {z}, read_index : {f.read_index}]
  BY DEF FifoType
<1>. QED
  BY <1>1, Only

LEMMA ChangedBlock ==
    ASSUME NEW f \in FifoType, NEW b, NEW r
    PROVE  [f EXCEPT !.block = b, !.read_index = r] = [block |-> b, size |-> f.size, read_index |-> r]
<1>1. [f EXCEPT !.block = b, !.read_index = r] \in [block : {b}, size : {f.size}, read_index : {r}]
  BY DEF FifoType
<1>. QED
  BY <1>1, Only

LEMMA ChangedFront ==
    ASSUME NEW f \in FifoType, NEW z, NEW r
    PROVE  [f EXCEPT !.size = z, !.read_index = r] = [block |-> f.block, size |-> z, read_index |-> r]
<1>1. [f EXCEPT !.size = z, !.read_index = r] \in [block : {f.block}, size : {z}, read_index : {r}]
  BY DEF FifoType
<1>. QED
  BY <1>1, Only

\* The elements are there, one after the other.
LEMMA NthIs ==
    ASSUME NEW f, FifoOk(f), NEW k \in 1 .. f.size
    PROVE  Nth(f, k) \in 1 .. Capacity(f) /\ ((f.read_index + k - 1) % Capacity(f)) + 1 = Nth(f, k)
<1>. DEFINE c == Capacity(f)
            r == f.read_index
            x == r + k - 1
<1>1. c \in Nat \ {0} /\ r \in Nat /\ f.size \in Nat /\ r < c /\ f.size <= c
  BY NumbersAre
<1>2. Nth(f, k) = IF r + k <= c THEN r + k ELSE r + k - c
  BY DEF Nth
<1>. HIDE DEF c, r
<1>3. x \in 0 .. 2 * c - 1 /\ k \in Nat /\ k >= 1 /\ k <= c
  BY <1>1
<1>4. x % c = IF x < c THEN x ELSE x - c
  BY <1>1, <1>3, Wrap
<1>. HIDE DEF x
<1>5. x = r + k - 1
  BY DEF x
<1>6. Nth(f, k) \in 1 .. c /\ (x % c) + 1 = Nth(f, k)
  BY <1>1, <1>2, <1>3, <1>4, <1>5
<1>. QED
  BY <1>6 DEF c, x, r

LEMMA ContentsAre ==
    ASSUME NEW f, FifoOk(f)
    PROVE  /\ Contents(f) \in Seq(Values) /\ Len(Contents(f)) = f.size
           /\ \A k \in 1 .. f.size : Contents(f)[k] = f.block[Nth(f, k)]
<1>. DEFINE s == Contents(f)
<1>1. s = [k \in 1 .. f.size |-> f.block[((f.read_index + k - 1) % Capacity(f)) + 1]]
  BY DEF Contents
<1>. HIDE DEF s
<1>2. ASSUME NEW k \in 1 .. f.size PROVE s[k] = f.block[Nth(f, k)] /\ s[k] \in Values
  <2>1. s[k] = f.block[Nth(f, k)]
    BY <1>1, NthIs
  <2>2. Nth(f, k) \in 1 .. Len(f.block) /\ f.block \in Seq(Values)
    BY NthIs, NumbersAre
  <2>. QED
    BY <2>1, <2>2, ElementOfSeq
<1>3. f.size \in Nat
  BY NumbersAre
<1>4. s \in [1 .. f.size -> Values]
  BY <1>1, <1>2
<1>5. s \in Seq(Values)
  BY <1>3, <1>4, SeqDef
<1>6. Len(s) = f.size
  BY <1>3, <1>4, <1>5, LenProperties
<1>. QED
  BY <1>2, <1>5, <1>6 DEF s

\* What FIFOs with the same elements in the same order have in common.
LEMMA SameContents ==
    ASSUME NEW f, FifoOk(f), NEW g, FifoOk(g), f.size = g.size,
           \A k \in 1 .. f.size : g.block[Nth(g, k)] = f.block[Nth(f, k)]
    PROVE  Contents(g) = Contents(f)
<1>1. /\ Contents(f) \in Seq(Values) /\ Len(Contents(f)) = f.size
      /\ \A k \in 1 .. f.size : Contents(f)[k] = f.block[Nth(f, k)]
  BY ContentsAre
<1>2. /\ Contents(g) \in Seq(Values) /\ Len(Contents(g)) = g.size
      /\ \A k \in 1 .. g.size : Contents(g)[k] = g.block[Nth(g, k)]
  BY ContentsAre
<1>3. \A k \in 1 .. f.size : Contents(g)[k] = Contents(f)[k]
  BY <1>1, <1>2
<1>. QED
  BY <1>1, <1>2, <1>3, SameBlock

\* The elements that are pushed follow those that are there.
LEMMA PushPlaces ==
    ASSUME NEW c \in Nat, NEW r \in Nat, r < c, NEW z \in Nat, z <= c, NEW n \in Nat, n <= c - z,
           NEW w \in Nat, w = (IF r + z >= c THEN r + z - c ELSE r + z),
           NEW tail \in Nat, tail = (IF c - w <= n THEN c - w ELSE n),
           NEW k \in Nat, k >= 1, k <= z + n,
           NEW x, x = (IF r + k <= c THEN r + k ELSE r + k - c)
    PROVE  /\ x \in 1 .. c /\ w < c
           /\ k <= z => ~ (0 < x /\ x <= n - tail) /\ ~ (w < x /\ x <= w + tail)
           /\ k > z /\ k - z <= tail => x = w + (k - z) /\ ~ (0 < x /\ x <= n - tail)
           /\ k > z /\ ~ (k - z <= tail) => x = k - z - tail /\ x <= n - tail
OBVIOUS

LEMMA PushIs ==
    ASSUME NEW f, FifoOk(f), NEW items \in Seq(Values)
    PROVE  LET g == push_back(f, items) IN
           /\ FifoOk(g.is)
           /\ IF g.ok THEN Contents(g.is) = Contents(f) \o items
              ELSE g.is = f /\ (f = NoFifo \/ f.size + Len(items) > Capacity(f))
<1>. DEFINE c == Capacity(f)
            r == f.read_index
            z == f.size
            n == Len(items)
            check == f.read_index + f.size
            w == IF check >= Capacity(f) THEN check - Capacity(f) ELSE check
            tail == Least(TailSize(f, w), Len(items))
            first == SubSeq(items, 1, tail)
            back == Write(f.block, w, first)
            rest == SubSeq(items, tail + 1, Len(items))
            b == Write(back, 0, rest)
            h == [f EXCEPT !.block = b, !.size = @ + Len(items)]
<1>1. /\ c \in Nat /\ r \in Nat /\ z \in Nat /\ n \in Nat /\ z <= c
      /\ f.block \in Seq(Values) /\ Len(f.block) = c
  BY NumbersAre, LenProperties
<1>2. push_back(f, items) = IF ~is_ready(f) \/ Len(items) > Capacity(f) - f.size THEN Refused(f)
                            ELSE Done(h)
  BY Zenon DEF push_back
<1>. HIDE DEF h
<1>3. CASE ~is_ready(f) \/ n > c - z
  <2>1. push_back(f, items) = [ok |-> FALSE, is |-> f]
    BY <1>2, <1>3, Zenon DEF Refused
  <2>2. f = NoFifo \/ z + n > c
    BY <1>1, <1>3, NumbersAre
  <2>. HIDE DEF z, n, c
  <2>. QED
    BY <2>1, <2>2 DEF z, n, c
<1>4. CASE is_ready(f) /\ ~ (n > c - z)
  <2>1. r < c /\ n <= c - z
    BY <1>1, <1>4, NumbersAre
  <2>0. w = (IF r + z >= c THEN r + z - c ELSE r + z) /\ tail = (IF c - w <= n THEN c - w ELSE n)
    <3>1. w = (IF r + z >= c THEN r + z - c ELSE r + z)
      <4>1. w = (IF check >= Capacity(f) THEN check - Capacity(f) ELSE check)
        BY Zenon
      <4>2. check = r + z /\ c = Capacity(f)
        BY Zenon
      <4>3. (r + z >= c <=> check >= Capacity(f)) /\ check - Capacity(f) = r + z - c
        <5>. HIDE DEF check, c, r, z
        <5>. QED
          BY <1>1, <4>2
      <4>. HIDE DEF w, check, c, r, z
      <4>. QED
        BY <4>1, <4>2, <4>3, Zenon
    <3>2. tail = (IF c - w <= n THEN c - w ELSE n)
      BY Zenon DEF TailSize, Least
    <3>. QED
      BY <3>1, <3>2, Zenon
  <2>h. h = [block |-> b, size |-> z + n, read_index |-> r]
    BY NumbersAre, ChangedBack DEF h
  <2>. HIDE DEF c, r, z, n, w, tail, h
  <2>2. w \in Nat /\ w < c
    BY <1>1, <2>0, <2>1
  <2>3. tail \in Nat /\ tail <= n /\ w + tail <= c
    BY <1>1, <2>0, <2>1, <2>2
  <2>5. /\ first \in Seq(Values) /\ Len(first) = tail /\ \A k \in 1 .. tail : first[k] = items[k]
        /\ rest \in Seq(Values) /\ Len(rest) = n - tail /\ \A k \in 1 .. n - tail : rest[k] = items[tail + k]
    <3>1. \A i \in Nat, j \in Nat : i + j <= Len(items) =>
             /\ Slice(items, i, j) \in Seq(Values) /\ Len(Slice(items, i, j)) = j
             /\ \A k \in 1 .. j : Slice(items, i, j)[k] = items[i + k]
      BY SliceIs
    <3>2. n = Len(items) /\ 0 \in Nat /\ n - tail \in Nat /\ 0 + tail <= n /\ tail + (n - tail) <= n
      BY <1>1, <2>3 DEF n
    <3>3. first = Slice(items, 0, tail) /\ rest = Slice(items, tail, n - tail)
      <4>1. 0 + 1 = 1 /\ 0 + tail = tail /\ tail + (n - tail) = n
        BY <1>1, <2>3
      <4>. QED
        BY <3>2, <4>1 DEF Slice
    <3>. HIDE DEF first, rest
    <3>4. \A k \in 1 .. tail : 0 + k = k
      OBVIOUS
    <3>5. /\ Slice(items, 0, tail) \in Seq(Values) /\ Len(Slice(items, 0, tail)) = tail
          /\ \A k \in 1 .. tail : Slice(items, 0, tail)[k] = items[0 + k]
      BY <2>3, <3>1, <3>2
    <3>. DEFINE m == n - tail
    <3>6. m \in Nat /\ tail + m <= Len(items)
      BY <3>2
    <3>7. /\ Slice(items, tail, m) \in Seq(Values) /\ Len(Slice(items, tail, m)) = m
          /\ \A k \in 1 .. m : Slice(items, tail, m)[k] = items[tail + k]
      <4>. HIDE DEF m
      <4>. QED
        BY <2>3, <3>1, <3>6
    <3>. QED
      BY <3>3, <3>4, <3>5, <3>7
  <2>. HIDE DEF first, rest
  <2>6. /\ back \in Seq(Values) /\ Len(back) = c
        /\ \A x \in 1 .. c : back[x] = IF w < x /\ x <= w + tail THEN first[x - w] ELSE f.block[x]
    <3>1. \A e \in Seq(Values) :
             /\ Write(f.block, w, e) \in Seq(Values) /\ Len(Write(f.block, w, e)) = c
             /\ \A x \in 1 .. c : Write(f.block, w, e)[x] =
                   IF w < x /\ x <= w + Len(e) THEN e[x - w] ELSE f.block[x]
      <4>1. w \in Int
        BY <2>2
      <4>. QED
        BY <1>1, <4>1, WriteIs
    <3>. QED
      BY <2>5, <3>1
  <2>. HIDE DEF back
  <2>7. /\ b \in Seq(Values) /\ Len(b) = c
        /\ \A x \in 1 .. c : b[x] = IF 0 < x /\ x <= n - tail THEN rest[x] ELSE back[x]
    <3>1. /\ b \in Seq(Values) /\ Len(b) = Len(back)
          /\ \A x \in 1 .. Len(back) : b[x] = IF 0 < x /\ x <= 0 + Len(rest) THEN rest[x - 0] ELSE back[x]
      BY <2>5, <2>6, WriteIs
    <3>2. 0 + (n - tail) = n - tail /\ \A x \in 1 .. c : x - 0 = x
      BY <1>1, <2>3
    <3>. HIDE DEF b
    <3>. QED
      BY <2>5, <2>6, <3>1, <3>2
  <2>. HIDE DEF b
  <2>9. /\ FifoOk(h) /\ h.block = b /\ h.size = z + n /\ h.read_index = r /\ Capacity(h) = c
    <3>1. z + n \in Nat /\ z + n <= Len(b) /\ r < Len(b) /\ r \in Nat
      BY <1>1, <2>1, <2>7
    <3>. QED
      BY <2>7, <2>h, <3>1, MadeOk
  <2>10. ASSUME NEW k \in 1 .. z + n
         PROVE  b[Nth(h, k)] = IF k <= z THEN f.block[Nth(f, k)] ELSE items[k - z]
    <3>. DEFINE x == IF r + k <= c THEN r + k ELSE r + k - c
    <3>1. Nth(h, k) = x /\ Nth(f, k) = x
      BY <2>9 DEF Nth, r, c
    <3>2. /\ x \in 1 .. c /\ w < c
          /\ k <= z => ~ (0 < x /\ x <= n - tail) /\ ~ (w < x /\ x <= w + tail)
          /\ k > z /\ k - z <= tail => x = w + (k - z) /\ ~ (0 < x /\ x <= n - tail)
          /\ k > z /\ ~ (k - z <= tail) => x = k - z - tail /\ x <= n - tail
      BY <1>1, <2>0, <2>1, <2>2, <2>3, PushPlaces
    <3>. HIDE DEF x
    <3>3. CASE k <= z
      BY <2>6, <2>7, <3>1, <3>2, <3>3
    <3>4. CASE k > z /\ k - z <= tail
      <4>1. k - z \in 1 .. tail /\ x - w = k - z /\ w < x /\ x <= w + tail
        <5>1. x = w + (k - z) /\ k \in Nat
          BY <1>1, <3>2, <3>4
        <5>. QED
          BY <1>1, <2>2, <2>3, <3>4, <5>1
      <4>2. b[x] = first[k - z]
        BY <2>6, <2>7, <3>2, <3>4, <4>1
      <4>. QED
        BY <1>1, <2>5, <3>1, <3>4, <4>1, <4>2
    <3>5. CASE k > z /\ ~ (k - z <= tail)
      <4>1. x \in 1 .. n - tail /\ tail + x = k - z
        BY <1>1, <2>3, <3>2, <3>5
      <4>2. b[x] = rest[x]
        BY <2>7, <3>2, <4>1
      <4>. QED
        BY <1>1, <2>5, <3>1, <3>5, <4>1, <4>2
    <3>. QED
      BY <1>1, <3>3, <3>4, <3>5
  <2>11. /\ Contents(h) \in Seq(Values) /\ Len(Contents(h)) = z + n
         /\ \A k \in 1 .. z + n : Contents(h)[k] = b[Nth(h, k)]
    BY <2>9, ContentsAre
  <2>12. /\ Contents(f) \in Seq(Values) /\ Len(Contents(f)) = z
         /\ \A k \in 1 .. z : Contents(f)[k] = f.block[Nth(f, k)]
    BY ContentsAre DEF z
  <2>13. /\ Contents(f) \o items \in Seq(Values) /\ Len(Contents(f) \o items) = z + n
         /\ \A k \in 1 .. z + n : (Contents(f) \o items)[k] =
               IF k <= z THEN Contents(f)[k] ELSE items[k - z]
    <3>1. n = Len(items)
      BY DEF n
    <3>. QED
      BY <2>12, <3>1, ConcatProperties
  <2>14. \A k \in 1 .. z + n : Contents(h)[k] = (Contents(f) \o items)[k]
    <3>. SUFFICES ASSUME NEW k \in 1 .. z + n PROVE Contents(h)[k] = (Contents(f) \o items)[k]
      OBVIOUS
    <3>1. k <= z => k \in 1 .. z
      BY <1>1
    <3>. QED
      BY <2>10, <2>11, <2>12, <2>13, <3>1
  <2>15. Contents(h) = Contents(f) \o items
    BY <2>11, <2>13, <2>14, SameBlock
  <2>16. push_back(f, items) = [ok |-> TRUE, is |-> h]
    BY <1>2, <1>4, Zenon DEF Done, n, c, z
  <2>. QED
    BY <2>9, <2>15, <2>16
<1>. QED
  BY <1>3, <1>4

\* The elements that are left are where they were.
LEMMA PopPlaces ==
    ASSUME NEW c \in Nat, NEW r \in Nat, r < c, NEW z \in Nat, z <= c, NEW n \in Nat, n <= z,
           NEW s, s = (IF n < c - r THEN r + n ELSE IF n - (c - r) >= 0 THEN n - (c - r) ELSE 0)
    PROVE  /\ s \in Nat /\ s < c
           /\ \A k \in 1 .. z - n : (IF s + k <= c THEN s + k ELSE s + k - c)
                                     = (IF r + (n + k) <= c THEN r + (n + k) ELSE r + (n + k) - c)
<1>1. CASE n < c - r
  BY <1>1
<1>2. CASE ~ (n < c - r)
  <2>1. s = n - (c - r)
    BY <1>2
  <2>2. s \in Nat /\ s < c
    BY <1>2, <2>1
  <2>3. ASSUME NEW k \in 1 .. z - n
        PROVE  s + k <= c /\ s + k = r + (n + k) - c /\ ~ (r + (n + k) <= c)
    BY <1>2, <2>1
  <2>. QED
    BY <2>2, <2>3
<1>. QED
  BY <1>1, <1>2

\* The parts of a block.
LEMMA SlicesAre ==
    ASSUME NEW b \in Seq(Values)
    PROVE  \A i \in Nat, j \in Nat : i + j <= Len(b) =>
             /\ Slice(b, i, j) \in Seq(Values) /\ Len(Slice(b, i, j)) = j
             /\ \A k \in 1 .. j : Slice(b, i, j)[k] = b[i + k]
BY SliceIs

LEMMA PopIs ==
    ASSUME NEW f, FifoOk(f), NEW n \in Nat
    PROVE  LET g == pop_front(f, n) IN
           /\ FifoOk(g.is)
           /\ IF g.ok THEN g.items \o Contents(g.is) = Contents(f) /\ Len(g.items) = n
              ELSE g.is = f /\ (f = NoFifo \/ n > f.size)
<1>. DEFINE c == Capacity(f)
            r == f.read_index
            z == f.size
            tail == TailSize(f, f.read_index)
            head == n - tail
            items == IF n <= tail THEN Slice(f.block, f.read_index, n)
                     ELSE Slice(f.block, f.read_index, tail) \o Slice(f.block, 0, head)
            s == IF n < tail THEN f.read_index + n ELSE Greatest(head, 0)
            h == [f EXCEPT !.size = @ - n, !.read_index = s]
<1>1. /\ c \in Nat /\ r \in Nat /\ z \in Nat /\ z <= c
      /\ f.block \in Seq(Values) /\ Len(f.block) = c
  BY NumbersAre, LenProperties
<1>2. pop_front(f, n) = IF ~is_ready(f) \/ n > f.size THEN [ok |-> FALSE, is |-> f, items |-> << >>]
                        ELSE IF n = 0 THEN [ok |-> TRUE, is |-> f, items |-> << >>]
                        ELSE [ok |-> TRUE, items |-> items, is |-> h]
  BY Zenon DEF pop_front
<1>. HIDE DEF h, items
<1>3. CASE ~is_ready(f) \/ n > z
  <2>1. pop_front(f, n) = [ok |-> FALSE, is |-> f, items |-> << >>]
    BY <1>2, <1>3, Zenon
  <2>2. f = NoFifo \/ n > z
    BY <1>3, NumbersAre
  <2>. HIDE DEF z
  <2>. QED
    BY <2>1, <2>2 DEF z
<1>4. CASE is_ready(f) /\ ~ (n > z) /\ n = 0
  <2>1. pop_front(f, n) = [ok |-> TRUE, is |-> f, items |-> << >>]
    BY <1>2, <1>4, Zenon DEF z
  <2>2. Contents(f) \in Seq(Values)
    BY ContentsAre
  <2>3. << >> \o Contents(f) = Contents(f) /\ Len(<< >>) = 0
    BY <2>2, ConcatEmptySeq, EmptySeq
  <2>. HIDE DEF c, r, z, tail, head, s
  <2>4. pop_front(f, n).ok /\ pop_front(f, n).is = f /\ pop_front(f, n).items = << >>
    BY <2>1
  <2>5. n = 0
    BY <1>4
  <2>. QED
    BY <2>3, <2>4, <2>5, Zenon
<1>5. CASE is_ready(f) /\ ~ (n > z) /\ n # 0
  <2>1. r < c /\ n <= z /\ n >= 1
    BY <1>1, <1>5, NumbersAre
  <2>2. tail = c - r /\ head = n - (c - r)
    BY Zenon DEF TailSize
  <2>3. s = (IF n < c - r THEN r + n ELSE IF n - (c - r) >= 0 THEN n - (c - r) ELSE 0)
    BY Zenon DEF TailSize, Greatest
  <2>4. h = [block |-> f.block, size |-> z - n, read_index |-> s]
    <3>. HIDE DEF s
    <3>1. f \in FifoType
      BY NumbersAre
    <3>2. h = [block |-> f.block, size |-> f.size - n, read_index |-> s]
      BY <3>1, ChangedFront, Zenon DEF h
    <3>. QED
      BY <3>2, Zenon
  <2>. DEFINE b == f.block
  <2>5. b \in Seq(Values) /\ Len(b) = c
    BY <1>1
  <2>6. items = IF n <= tail THEN Slice(b, r, n) ELSE Slice(b, r, tail) \o Slice(b, 0, head)
    BY Zenon DEF items
  <2>7. Contents(f) \in Seq(Values) /\ Len(Contents(f)) = z /\ \A k \in 1 .. z : Contents(f)[k] = b[Nth(f, k)]
    BY ContentsAre
  <2>8. \A k : Nth(f, k) = IF r + k <= c THEN r + k ELSE r + k - c
    BY Zenon DEF Nth
  <2>9. pop_front(f, n) = [ok |-> TRUE, items |-> items, is |-> h]
    BY <1>2, <1>5, Zenon DEF z
  <2>. HIDE DEF c, r, z, tail, head, s, b
  <2>10. items \in Seq(Values) /\ Len(items) = n /\ \A k \in 1 .. n : items[k] = b[Nth(f, k)]
    <3>1. \A i \in Nat, j \in Nat : i + j <= Len(b) =>
             /\ Slice(b, i, j) \in Seq(Values) /\ Len(Slice(b, i, j)) = j
             /\ \A k \in 1 .. j : Slice(b, i, j)[k] = b[i + k]
      <4>1. b \in Seq(Values)
        BY <2>5
      <4>. QED
        BY <4>1, SlicesAre, Zenon
    <3>2. CASE n <= tail
      <4>1. r + n <= Len(b)
        BY <1>1, <2>2, <2>5, <3>2
      <4>2. \A k \in 1 .. n : Nth(f, k) = r + k
        BY <1>1, <2>2, <2>8, <3>2
      <4>. QED
        BY <1>1, <2>6, <3>1, <3>2, <4>1, <4>2
    <3>3. CASE ~ (n <= tail)
      <4>1. tail \in Nat /\ r + tail <= Len(b) /\ head \in Nat /\ 0 + head <= Len(b) /\ tail + head = n
        BY <1>1, <2>1, <2>2, <2>5, <3>3
      <4>. DEFINE t == Slice(b, r, tail)
                  u == Slice(b, 0, head)
      <4>2. t \in Seq(Values) /\ Len(t) = tail /\ \A k \in 1 .. tail : t[k] = b[r + k]
        BY <1>1, <3>1, <4>1
      <4>3. u \in Seq(Values) /\ Len(u) = head /\ \A k \in 1 .. head : u[k] = b[0 + k]
        <5>1. 0 \in Nat
          OBVIOUS
        <5>. QED
          BY <3>1, <4>1, <5>1
      <4>4. items = t \o u
        BY <2>6, <3>3, Zenon
      <4>. HIDE DEF t, u
      <4>5. /\ t \o u \in Seq(Values) /\ Len(t \o u) = tail + head
            /\ \A k \in 1 .. tail + head : (t \o u)[k] = IF k <= tail THEN t[k] ELSE u[k - tail]
        BY <4>2, <4>3, ConcatProperties
      <4>6. ASSUME NEW k \in 1 .. n PROVE (t \o u)[k] = b[Nth(f, k)]
        <5>1. CASE k <= tail
          <6>1. k \in 1 .. tail /\ k \in 1 .. tail + head /\ Nth(f, k) = r + k
            BY <1>1, <2>2, <2>8, <4>1, <5>1
          <6>. QED
            BY <4>2, <4>5, <5>1, <6>1
        <5>2. CASE ~ (k <= tail)
          <6>1. /\ k - tail \in 1 .. head /\ k \in 1 .. tail + head
                /\ Nth(f, k) = r + k - c /\ 0 + (k - tail) = r + k - c
            BY <1>1, <2>2, <2>8, <4>1, <5>2
          <6>2. (t \o u)[k] = u[k - tail]
            BY <4>5, <5>2, <6>1
          <6>3. u[k - tail] = b[0 + (k - tail)]
            BY <4>3, <6>1
          <6>. QED
            BY <6>1, <6>2, <6>3
        <5>. QED
          BY <5>1, <5>2
      <4>. QED
        BY <4>1, <4>4, <4>5, <4>6
    <3>. QED
      BY <3>2, <3>3
  <2>11. /\ s \in Nat /\ s < c
         /\ \A k \in 1 .. z - n : (IF s + k <= c THEN s + k ELSE s + k - c)
                                   = (IF r + (n + k) <= c THEN r + (n + k) ELSE r + (n + k) - c)
    BY <1>1, <2>1, <2>3, PopPlaces
  <2>12. FifoOk(h) /\ h.block = b /\ h.size = z - n /\ h.read_index = s /\ Capacity(h) = c
    <3>1. z - n \in Nat /\ z - n <= Len(b) /\ s < Len(b)
      BY <1>1, <2>1, <2>5, <2>11
    <3>2. h = [block |-> b, size |-> z - n, read_index |-> s]
      BY <2>4 DEF b
    <3>3. /\ FifoOk(h) /\ h.block = b /\ h.size = z - n /\ h.read_index = s /\ Capacity(h) = Len(b)
      BY <2>5, <2>11, <3>1, <3>2, MadeOk
    <3>. QED
      BY <2>5, <3>3
  <2>13. \A k \in 1 .. z - n : Nth(h, k) = Nth(f, n + k)
    <3>1. \A k : Nth(h, k) = IF s + k <= c THEN s + k ELSE s + k - c
      BY <2>12, Zenon DEF Nth
    <3>. QED
      BY <2>8, <2>11, <3>1
  <2>14. /\ Contents(h) \in Seq(Values) /\ Len(Contents(h)) = z - n
         /\ \A k \in 1 .. z - n : Contents(h)[k] = b[Nth(h, k)]
    BY <2>12, ContentsAre
  <2>. DEFINE l == items \o Contents(h)
  <2>15. /\ l \in Seq(Values) /\ Len(l) = n + (z - n)
         /\ \A k \in 1 .. n + (z - n) : l[k] = IF k <= n THEN items[k] ELSE Contents(h)[k - n]
    <3>1. items \in Seq(Values) /\ Contents(h) \in Seq(Values)
      BY <2>10, <2>14
    <3>2. Len(items) = n /\ Len(Contents(h)) = z - n
      BY <2>10, <2>14
    <3>3. /\ l \in Seq(Values) /\ Len(l) = Len(items) + Len(Contents(h))
          /\ \A k \in 1 .. Len(items) + Len(Contents(h)) :
                l[k] = IF k <= Len(items) THEN items[k] ELSE Contents(h)[k - Len(items)]
      BY <3>1, ConcatProperties
    <3>. HIDE DEF l
    <3>. QED
      BY <3>2, <3>3
  <2>. HIDE DEF l
  <2>16. ASSUME NEW k \in 1 .. z PROVE l[k] = Contents(f)[k]
    <3>1. n + (z - n) = z
      BY <1>1
    <3>2. l[k] = IF k <= n THEN items[k] ELSE Contents(h)[k - n]
      BY <2>15, <3>1
    <3>3. CASE k <= n
      <4>1. k \in 1 .. n
        BY <3>3
      <4>. QED
        BY <2>7, <2>10, <3>2, <3>3, <4>1
    <3>4. CASE ~ (k <= n)
      <4>1. k - n \in 1 .. z - n /\ n + (k - n) = k
        BY <1>1, <2>1, <3>4
      <4>2. Nth(h, k - n) = Nth(f, k)
        BY <2>13, <4>1
      <4>. QED
        BY <2>7, <2>14, <3>2, <3>4, <4>1, <4>2
    <3>. QED
      BY <3>3, <3>4
  <2>17. l = Contents(f)
    <3>1. n + (z - n) = z
      BY <1>1
    <3>2. Len(l) = Len(Contents(f)) /\ \A k \in 1 .. Len(Contents(f)) : l[k] = Contents(f)[k]
      BY <2>7, <2>15, <2>16, <3>1
    <3>. QED
      BY <2>7, <2>15, <3>2, SameBlock
  <2>. QED
    BY <2>9, <2>10, <2>12, <2>17 DEF l
<1>. QED
  BY <1>3, <1>4, <1>5

\* The elements of a block moved.
LEMMA MovesAre ==
    ASSUME NEW a \in Seq(Values), NEW b \in Seq(Values)
    PROVE  \A to \in Int, from \in Nat, n \in Nat : from + n <= Len(a) =>
             /\ memmove(b, to, a, from, n) \in Seq(Values) /\ Len(memmove(b, to, a, from, n)) = Len(b)
             /\ \A k \in 1 .. Len(b) :
                   memmove(b, to, a, from, n)[k] = IF to < k /\ k <= to + n THEN a[from + (k - to)] ELSE b[k]
BY MoveIs

\* What a copy within a block leaves, whichever way it is done.
LEMMA CopyIs ==
    ASSUME NEW b \in Seq(Values), NEW to \in Nat, NEW from \in Nat, NEW n \in Nat,
           from + n <= Len(b), NEW m \in memcpy(b, to, from, n)
    PROVE  /\ m \in Seq(Values) /\ Len(m) = Len(b)
           /\ to <= from \/ from + n <= to =>
                 \A k \in 1 .. Len(b) : m[k] = IF to < k /\ k <= to + n THEN b[from + (k - to)] ELSE b[k]
<1>1. m = memmove(b, to, b, from, n) \/ m = Forwards(b, to, from, n)
  BY DEF memcpy
<1>2. to \in Int
  OBVIOUS
<1>. DEFINE a == memmove(b, to, b, from, n)
<1>3. /\ a \in Seq(Values) /\ Len(a) = Len(b)
      /\ \A k \in 1 .. Len(b) : a[k] = IF to < k /\ k <= to + n THEN b[from + (k - to)] ELSE b[k]
  BY <1>2, MovesAre
<1>4. /\ Forwards(b, to, from, n) \in Seq(Values) /\ Len(Forwards(b, to, from, n)) = Len(b)
      /\ to <= from \/ from + n <= to => Forwards(b, to, from, n) = memmove(b, to, b, from, n)
  BY ForwardsIs
<1>. QED
  BY <1>1, <1>3, <1>4

LEMMA MoveIsCopy ==
    ASSUME NEW b, NEW to, NEW from, NEW n
    PROVE  memmove(b, to, b, from, n) \in memcpy(b, to, from, n)
BY DEF memcpy

\* The elements of a FIFO in one line from the beginning of a block.
InLine(f, b) == \A k \in 1 .. f.size : b[k] = f.block[Nth(f, k)]

\* A FIFO made of such a block holds the same elements.
LEMMA LineIs ==
    ASSUME NEW f, FifoOk(f), NEW b \in Seq(Values), f.size <= Len(b),
           NEW g, g = [block |-> b, size |-> f.size, read_index |-> 0]
    PROVE  /\ FifoOk(g) /\ g.block = b /\ g.size = f.size /\ g.read_index = 0 /\ Capacity(g) = Len(b)
           /\ InLine(f, b) => Contents(g) = Contents(f)
<1>1. f.size \in Nat /\ Len(b) \in Nat
  BY NumbersAre, LenProperties
<1>2. FifoOk(g) /\ g.block = b /\ g.size = f.size /\ g.read_index = 0 /\ Capacity(g) = Len(b)
  <2>. DEFINE z == f.size
              r == 0
  <2>1. g = [block |-> b, size |-> z, read_index |-> r]
    BY Zenon
  <2>2. z \in Nat /\ r \in Nat /\ z <= Len(b) /\ (r < Len(b) \/ (r = 0 /\ Len(b) = 0))
    BY <1>1
  <2>. HIDE DEF z, r
  <2>3. FifoOk(g) /\ g.block = b /\ g.size = z /\ g.read_index = r /\ Capacity(g) = Len(b)
    BY <2>1, <2>2, MadeOk
  <2>. QED
    BY <2>3, Zenon DEF z, r
<1>3. ASSUME InLine(f, b) PROVE Contents(g) = Contents(f)
  <2>1. ASSUME NEW k \in 1 .. f.size PROVE g.block[Nth(g, k)] = f.block[Nth(f, k)]
    <3>1. Nth(g, k) = IF 0 + k <= Len(b) THEN 0 + k ELSE 0 + k - Len(b)
      BY <1>2, Zenon DEF Nth
    <3>2. Nth(g, k) = k
      BY <1>1, <3>1
    <3>3. b[k] = f.block[Nth(f, k)]
      BY <1>3 DEF InLine
    <3>. QED
      BY <1>2, <3>2, <3>3
  <2>. QED
    BY <1>2, <2>1, SameContents
<1>. QED
  BY <1>2, <1>3

\* pack() into a new block with room.
LEMMA PackedIntoIs ==
    ASSUME NEW f, FifoOk(f), NEW into \in Seq(Values), f.size <= Len(into)
    PROVE  LET g == PackedInto(f, into) IN
           /\ FifoOk(g) /\ g.size = f.size /\ g.read_index = 0 /\ Capacity(g) = Len(into)
           /\ Contents(g) = Contents(f)
<1>. DEFINE c == Capacity(f)
            r == f.read_index
            z == f.size
            a == f.block
            tail == Least(TailSize(f, f.read_index), f.size)
            head == z - tail
            up == memmove(into, tail, f.block, 0, f.size - tail)
            b == memmove(up, 0, f.block, f.read_index, tail)
            g == PackedInto(f, into)
<1>1. /\ c \in Nat /\ r \in Nat /\ z \in Nat /\ z <= c /\ a \in Seq(Values) /\ Len(a) = c
      /\ r <= c /\ Len(into) \in Nat
  BY NumbersAre, LenProperties
<1>2. g = [block |-> b, size |-> f.size, read_index |-> 0]
  BY Zenon DEF PackedInto
<1>3. tail = IF c - r <= z THEN c - r ELSE z
  BY Zenon DEF Least, TailSize
<1>4. up = memmove(into, tail, a, 0, head)
  BY Zenon
<1>5. b = memmove(up, 0, a, r, tail)
  BY Zenon
<1>6. \A k : Nth(f, k) = IF r + k <= c THEN r + k ELSE r + k - c
  BY Zenon DEF Nth
<1>7. InLine(f, b) <=> \A k \in 1 .. z : b[k] = a[Nth(f, k)]
  BY Zenon DEF InLine
<1>0. z = f.size /\ head = z - tail
  BY Zenon
<1>. HIDE DEF c, r, z, a, tail, head, up, b, g
<1>8. /\ tail \in Nat /\ head \in Nat /\ tail <= z /\ tail \in Int
      /\ 0 + head <= Len(a) /\ r + tail <= Len(a)
  <2>1. tail \in Nat /\ tail <= z /\ r + tail <= c /\ tail \in Int
    BY <1>1, <1>3
  <2>2. z - tail \in Nat /\ 0 + (z - tail) <= c
    BY <1>1, <1>3, <2>1
  <2>3. head = z - tail /\ Len(a) = c
    BY <1>0, <1>1
  <2>. QED
    BY <2>1, <2>2, <2>3
<1>9. \A to \in Int, from \in Nat, n \in Nat, d \in Seq(Values) :
         from + n <= Len(a) =>
            /\ memmove(d, to, a, from, n) \in Seq(Values) /\ Len(memmove(d, to, a, from, n)) = Len(d)
            /\ \A k \in 1 .. Len(d) :
                  memmove(d, to, a, from, n)[k] = IF to < k /\ k <= to + n THEN a[from + (k - to)] ELSE d[k]
  <2>1. a \in Seq(Values)
    BY <1>1
  <2>. QED
    BY <2>1, MovesAre
<1>10. /\ up \in Seq(Values) /\ Len(up) = Len(into)
       /\ \A k \in 1 .. Len(into) : up[k] = IF tail < k /\ k <= tail + head THEN a[0 + (k - tail)] ELSE into[k]
  <2>1. 0 \in Nat /\ tail \in Int /\ head \in Nat /\ 0 + head <= Len(a)
    BY <1>8
  <2>2. /\ memmove(into, tail, a, 0, head) \in Seq(Values) /\ Len(memmove(into, tail, a, 0, head)) = Len(into)
        /\ \A k \in 1 .. Len(into) : memmove(into, tail, a, 0, head)[k] =
              IF tail < k /\ k <= tail + head THEN a[0 + (k - tail)] ELSE into[k]
    BY <1>9, <2>1
  <2>. QED
    BY <1>4, <2>2, Zenon
<1>11. /\ b \in Seq(Values) /\ Len(b) = Len(into)
       /\ \A k \in 1 .. Len(into) : b[k] = IF 0 < k /\ k <= 0 + tail THEN a[r + (k - 0)] ELSE up[k]
  <2>1. 0 \in Int /\ r \in Nat /\ tail \in Nat /\ r + tail <= Len(a) /\ up \in Seq(Values)
    BY <1>1, <1>8, <1>10
  <2>2. /\ b \in Seq(Values) /\ Len(b) = Len(up)
        /\ \A k \in 1 .. Len(up) : b[k] = IF 0 < k /\ k <= 0 + tail THEN a[r + (k - 0)] ELSE up[k]
    BY <1>5, <1>9, <2>1
  <2>. QED
    BY <1>10, <2>2
<1>12. ASSUME NEW k \in 1 .. z PROVE b[k] = a[Nth(f, k)]
  <2>1. k \in 1 .. Len(into) /\ k \in Nat /\ k >= 1 /\ k <= z
    BY <1>0, <1>1
  <2>2. CASE k <= tail
    <3>1. Nth(f, k) = r + k /\ r + (k - 0) = r + k /\ 0 < k /\ k <= 0 + tail
      BY <1>1, <1>3, <1>6, <1>8, <2>1, <2>2
    <3>. QED
      BY <1>11, <2>1, <3>1
  <2>3. CASE ~ (k <= tail)
    <3>1. tail = c - r
      BY <1>1, <1>3, <2>1, <2>3
    <3>2. Nth(f, k) = 0 + (k - tail) /\ tail < k /\ k <= tail + head /\ ~ (k <= 0 + tail)
      BY <1>0, <1>1, <1>6, <1>8, <2>1, <2>3, <3>1
    <3>3. b[k] = up[k]
      BY <1>11, <2>1, <3>2
    <3>4. up[k] = a[0 + (k - tail)]
      BY <1>10, <2>1, <3>2
    <3>. QED
      BY <3>2, <3>3, <3>4
  <2>. QED
    BY <2>2, <2>3
<1>13. InLine(f, b)
  BY <1>7, <1>12
<1>14. /\ FifoOk(g) /\ g.block = b /\ g.size = f.size /\ g.read_index = 0 /\ Capacity(g) = Len(b)
       /\ InLine(f, b) => Contents(g) = Contents(f)
  BY <1>2, <1>11, LineIs
<1>. QED
  BY <1>11, <1>13, <1>14 DEF g

LEMMA CopiesAre ==
    ASSUME NEW b \in Seq(Values)
    PROVE  \A to \in Nat, from \in Nat, n \in Nat : from + n <= Len(b) =>
             \A m \in memcpy(b, to, from, n) :
                /\ m \in Seq(Values) /\ Len(m) = Len(b)
                /\ to <= from \/ from + n <= to =>
                      \A k \in 1 .. Len(b) :
                         m[k] = IF to < k /\ k <= to + n THEN b[from + (k - to)] ELSE b[k]
BY CopyIs

\* pack() of contents that do not wrap.
LEMMA PackStraight ==
    ASSUME NEW f, FifoOk(f), ~ Wrapped(f), NEW b \in memcpy(f.block, 0, f.read_index, f.size)
    PROVE  b \in Seq(Values) /\ Len(b) = Capacity(f) /\ InLine(f, b)
<1>. DEFINE c == Capacity(f)
            r == f.read_index
            z == f.size
            a == f.block
<1>1. /\ c \in Nat /\ r \in Nat /\ z \in Nat /\ z <= c /\ a \in Seq(Values) /\ Len(a) = c /\ r <= c
  BY NumbersAre, LenProperties
<1>2. ~ (z > c - r)
  BY Zenon DEF Wrapped, TailSize
<1>3. b \in memcpy(a, 0, r, z)
  BY Zenon
<1>4. \A k : Nth(f, k) = IF r + k <= c THEN r + k ELSE r + k - c
  BY Zenon DEF Nth
<1>5. InLine(f, b) <=> \A k \in 1 .. z : b[k] = a[Nth(f, k)]
  BY Zenon DEF InLine
<1>6. c = Capacity(f)
  BY Zenon
<1>. HIDE DEF c, r, z, a
<1>7. r + z <= Len(a) /\ 0 \in Nat /\ 0 <= r
  BY <1>1, <1>2
<1>8. /\ b \in Seq(Values) /\ Len(b) = Len(a)
      /\ 0 <= r \/ r + z <= 0 =>
            \A k \in 1 .. Len(a) : b[k] = IF 0 < k /\ k <= 0 + z THEN a[r + (k - 0)] ELSE a[k]
  BY <1>1, <1>3, <1>7, CopyIs
<1>9. ASSUME NEW k \in 1 .. z PROVE b[k] = a[Nth(f, k)]
  <2>1. k \in 1 .. Len(a) /\ 0 < k /\ k <= 0 + z /\ r + (k - 0) = Nth(f, k)
    BY <1>1, <1>2, <1>4
  <2>. QED
    BY <1>7, <1>8, <2>1
<1>. QED
  BY <1>1, <1>5, <1>6, <1>8, <1>9

\* pack() of contents that wrap: the head is moved up, and the tail before it.
LEMMA PackWrapped ==
    ASSUME NEW f, FifoOk(f), Wrapped(f), NEW tail, tail = TailSize(f, f.read_index),
           NEW up \in memcpy(f.block, tail, 0, f.size - tail),
           NEW b \in memcpy(up, 0, f.read_index, tail)
    PROVE  b \in Seq(Values) /\ Len(b) = Capacity(f) /\ (PacksInPlace(f) => InLine(f, b))
<1>. DEFINE c == Capacity(f)
            r == f.read_index
            z == f.size
            a == f.block
            head == z - tail
<1>1. /\ c \in Nat /\ r \in Nat /\ z \in Nat /\ z <= c /\ a \in Seq(Values) /\ Len(a) = c
      /\ r <= c
  BY NumbersAre, LenProperties
<1>2. z > c - r
  BY Zenon DEF Wrapped, TailSize
<1>3. tail = c - r
  BY Zenon DEF TailSize
<1>4. up \in memcpy(a, tail, 0, head) /\ b \in memcpy(up, 0, r, tail) /\ head = z - tail
  BY Zenon
<1>5. \A k : Nth(f, k) = IF r + k <= c THEN r + k ELSE r + k - c
  BY Zenon DEF Nth
<1>6. InLine(f, b) <=> \A k \in 1 .. z : b[k] = a[Nth(f, k)]
  BY Zenon DEF InLine
<1>7. c = Capacity(f)
  BY Zenon
<1>8. PacksInPlace(f) => z <= r /\ z <= 2 * tail
  BY Zenon DEF PacksInPlace
<1>. HIDE DEF c, r, z, a, head
<1>9. tail \in Nat /\ r + tail = c /\ head \in Nat /\ 0 + head <= c /\ 0 \in Nat /\ tail + head = z
  BY <1>1, <1>2, <1>3, <1>4
<1>10. /\ up \in Seq(Values) /\ Len(up) = c
       /\ tail <= 0 \/ 0 + head <= tail =>
             \A k \in 1 .. c : up[k] = IF tail < k /\ k <= tail + head THEN a[0 + (k - tail)] ELSE a[k]
  <2>1. 0 + head <= Len(a) /\ Len(a) = c /\ a \in Seq(Values)
    BY <1>1, <1>9
  <2>2. /\ up \in Seq(Values) /\ Len(up) = Len(a)
        /\ tail <= 0 \/ 0 + head <= tail =>
             \A k \in 1 .. Len(a) : up[k] = IF tail < k /\ k <= tail + head THEN a[0 + (k - tail)] ELSE a[k]
    <3>1. /\ a \in Seq(Values) /\ tail \in Nat /\ head \in Nat /\ 0 \in Nat
          /\ 0 + head <= Len(a) /\ up \in memcpy(a, tail, 0, head)
      BY <1>4, <1>9, <2>1
    <3>. QED
      BY <3>1, CopiesAre
  <2>. QED
    BY <2>1, <2>2
<1>11. /\ b \in Seq(Values) /\ Len(b) = c
       /\ 0 <= r \/ r + tail <= 0 =>
             \A k \in 1 .. c : b[k] = IF 0 < k /\ k <= 0 + tail THEN up[r + (k - 0)] ELSE up[k]
  <2>1. r + tail <= Len(up) /\ Len(up) = c /\ up \in Seq(Values)
    BY <1>1, <1>9, <1>10
  <2>2. /\ b \in Seq(Values) /\ Len(b) = Len(up)
        /\ 0 <= r \/ r + tail <= 0 =>
             \A k \in 1 .. Len(up) : b[k] = IF 0 < k /\ k <= 0 + tail THEN up[r + (k - 0)] ELSE up[k]
    <3>1. up \in Seq(Values) /\ r \in Nat /\ tail \in Nat /\ 0 \in Nat
      BY <1>1, <1>9, <2>1
    <3>2. r + tail <= Len(up) /\ b \in memcpy(up, 0, r, tail)
      BY <1>4, <2>1
    <3>. QED
      BY <3>1, <3>2, CopiesAre
  <2>. QED
    BY <2>1, <2>2
<1>12. ASSUME PacksInPlace(f), NEW k \in 1 .. z PROVE b[k] = a[Nth(f, k)]
  <2>0. z <= r /\ 0 + head <= tail /\ 0 <= r
    BY <1>1, <1>8, <1>9, <1>12
  <2>1. k \in 1 .. c /\ k \in Nat /\ k >= 1 /\ k <= z
    BY <1>1
  <2>2. \A x \in 1 .. c : up[x] = IF tail < x /\ x <= tail + head THEN a[0 + (x - tail)] ELSE a[x]
    BY <1>10, <2>0
  <2>3. b[k] = IF 0 < k /\ k <= 0 + tail THEN up[r + (k - 0)] ELSE up[k]
    BY <1>11, <2>0, <2>1
  <2>4. CASE k <= tail
    <3>1. /\ Nth(f, k) = r + (k - 0) /\ 0 < k /\ k <= 0 + tail
          /\ r + (k - 0) \in 1 .. c /\ ~ (r + (k - 0) <= tail + head)
      BY <1>1, <1>5, <1>9, <2>0, <2>1, <2>4
    <3>2. up[r + (k - 0)] = a[r + (k - 0)]
      BY <2>2, <3>1
    <3>. QED
      BY <2>3, <3>1, <3>2
  <2>5. CASE ~ (k <= tail)
    <3>1. Nth(f, k) = 0 + (k - tail) /\ tail < k /\ k <= tail + head /\ ~ (k <= 0 + tail)
      BY <1>1, <1>5, <1>9, <2>1, <2>5
    <3>2. up[k] = a[0 + (k - tail)]
      BY <2>1, <2>2, <3>1
    <3>. QED
      BY <2>3, <3>1, <3>2
  <2>. QED
    BY <2>4, <2>5
<1>. QED
  BY <1>6, <1>7, <1>11, <1>12

\* pack() into the block itself.
LEMMA PackedInPlaceIs ==
    ASSUME NEW f, FifoOk(f), NEW g \in PackedInPlace(f)
    PROVE  /\ FifoOk(g) /\ g.size = f.size /\ g.read_index = 0 /\ Capacity(g) = Capacity(f)
           /\ PacksInPlace(f) => Contents(g) = Contents(f)
<1>. DEFINE tail == TailSize(f, f.read_index)
            head == f.size - tail
            apart == f.size + tail <= Capacity(f)
            headMoved == IF apart THEN memcpy(f.block, tail, 0, head)
                         ELSE {memmove(f.block, tail, f.block, 0, head)}
            blocks ==
                IF f.size = 0 THEN {f.block}
                ELSE IF ~Wrapped(f)
                THEN IF f.read_index >= f.size THEN memcpy(f.block, 0, f.read_index, f.size)
                     ELSE {memmove(f.block, 0, f.block, f.read_index, f.size)}
                ELSE UNION {IF apart THEN memcpy(x, 0, f.read_index, tail)
                            ELSE {memmove(x, 0, x, f.read_index, tail)} : x \in headMoved}
<1>1. PackedInPlace(f) = {[f EXCEPT !.block = x, !.read_index = 0] : x \in blocks}
  BY Zenon DEF PackedInPlace
<1>2. PICK b \in blocks : g = [f EXCEPT !.block = b, !.read_index = 0]
  <2>. HIDE DEF blocks
  <2>. QED
    BY <1>1, Zenon
<1>3. b \in Seq(Values) /\ Len(b) = Capacity(f) /\ (PacksInPlace(f) => InLine(f, b))
  <2>1. CASE f.size = 0
    <3>1. b = f.block
      BY <1>2, <2>1
    <3>2. b \in Seq(Values) /\ Len(b) = Capacity(f)
      BY <3>1, NumbersAre
    <3>3. InLine(f, b)
      BY <2>1 DEF InLine
    <3>. QED
      BY <3>2, <3>3
  <2>2. CASE f.size # 0 /\ ~ Wrapped(f)
    <3>1. b \in IF f.read_index >= f.size THEN memcpy(f.block, 0, f.read_index, f.size)
                ELSE {memmove(f.block, 0, f.block, f.read_index, f.size)}
      BY <1>2, <2>2, Zenon
    <3>2. b \in memcpy(f.block, 0, f.read_index, f.size)
      <4>. HIDE DEF blocks
      <4>1. memmove(f.block, 0, f.block, f.read_index, f.size) \in memcpy(f.block, 0, f.read_index, f.size)
        BY MoveIsCopy
      <4>. QED
        BY <3>1, <4>1, Zenon
    <3>. QED
      BY <2>2, <3>2, PackStraight
  <2>3. CASE f.size # 0 /\ Wrapped(f)
    <3>1. b \in UNION {IF apart THEN memcpy(x, 0, f.read_index, tail)
                       ELSE {memmove(x, 0, x, f.read_index, tail)} : x \in headMoved}
      BY <1>2, <2>3, Zenon
    <3>. HIDE DEF headMoved
    <3>2. PICK up \in headMoved : b \in IF apart THEN memcpy(up, 0, f.read_index, tail)
                                        ELSE {memmove(up, 0, up, f.read_index, tail)}
      BY <3>1, Zenon
    <3>3. b \in memcpy(up, 0, f.read_index, tail)
      <4>. HIDE DEF blocks, apart, tail
      <4>1. memmove(up, 0, up, f.read_index, tail) \in memcpy(up, 0, f.read_index, tail)
        BY MoveIsCopy
      <4>. QED
        BY <3>2, <4>1, Zenon
    <3>4. up \in memcpy(f.block, tail, 0, head)
      <4>. HIDE DEF blocks, apart, tail, head
      <4>1. memmove(f.block, tail, f.block, 0, head) \in memcpy(f.block, tail, 0, head)
        BY MoveIsCopy
      <4>2. up \in IF apart THEN memcpy(f.block, tail, 0, head)
                   ELSE {memmove(f.block, tail, f.block, 0, head)}
        BY <3>2, Zenon DEF headMoved
      <4>. QED
        BY <4>1, <4>2, Zenon
    <3>5. up \in memcpy(f.block, tail, 0, f.size - tail) /\ tail = TailSize(f, f.read_index)
      BY <3>4, Zenon
    <3>. HIDE DEF tail
    <3>. QED
      BY <2>3, <3>3, <3>5, PackWrapped
  <2>. QED
    BY <2>1, <2>2, <2>3
<1>4. g = [block |-> b, size |-> f.size, read_index |-> 0]
  <2>1. f \in FifoType
    BY NumbersAre
  <2>. QED
    BY <1>2, <2>1, ChangedBlock
<1>. HIDE DEF blocks
<1>5. f.size <= Len(b)
  BY <1>3, NumbersAre
<1>6. /\ FifoOk(g) /\ g.block = b /\ g.size = f.size /\ g.read_index = 0 /\ Capacity(g) = Len(b)
      /\ InLine(f, b) => Contents(g) = Contents(f)
  BY <1>3, <1>4, <1>5, LineIs
<1>. QED
  BY <1>3, <1>6

\* New memory.
LEMMA BlockIs ==
    ASSUME NEW n \in Nat
    PROVE  Block(n) \in Seq(Values) /\ Len(Block(n)) = n
<1>. DEFINE b == Block(n)
<1>1. b = [i \in 1 .. n |-> Unset]
  BY DEF Block, Fill
<1>2. Unset \in Values
  BY DEF Values
<1>. HIDE DEF b
<1>3. b \in [1 .. n -> Values]
  BY <1>1, <1>2
<1>4. b \in Seq(Values)
  BY <1>3, SeqDef
<1>5. Len(b) = n
  BY <1>3, <1>4, LenProperties
<1>. QED
  BY <1>4, <1>5 DEF b

\* The growth policies give at least what is asked for.
LEMMA GrowthIs ==
    ASSUME Limits, NEW n \in 0 .. Limit
    PROVE  Growth(n) \in Nat /\ Growth(n) >= n
BY DEF Limits, Growth, Least

\* A FIFO that is refused a request, or that has nothing to do.
LEMMA SameIs ==
    ASSUME NEW f, FifoOk(f), NEW g, g = Refused(f) \/ g = Done(f)
    PROVE  g.is = f /\ Keeps(f, g)
<1>1. g.is = f
  BY DEF Refused, Done
<1>2. Sound(f)
  BY DEF FifoOk
<1>. QED
  BY <1>1, <1>2, Zenon DEF Keeps

\* A FIFO with the same contents.
LEMMA KeepsIs ==
    ASSUME NEW f, NEW h, FifoOk(h), Contents(h) = Contents(f), NEW g, g = Done(h)
    PROVE  g.ok /\ g.is = h /\ Keeps(f, g)
<1>1. g.is = h /\ g.ok
  BY DEF Done
<1>2. Sound(h)
  BY DEF FifoOk
<1>. QED
  BY <1>1, <1>2, Zenon DEF Keeps

LEMMA ReallocateIs ==
    ASSUME NEW f, FifoOk(f), NEW n \in Nat, NEW m, NEW g \in reallocate(f, n, m)
    PROVE  /\ FifoOk(g.is)
           /\ PacksInPlace(f) \/ n # Capacity(f) => Keeps(f, g)
           /\ g.ok => g.is.read_index = 0 /\ Capacity(g.is) = n
<1>1. CASE n < f.size \/ n > Limit \/ (n # Capacity(f) /\ ~ (n = 0 \/ m))
  <2>1. g = Refused(f)
    BY <1>1, NumbersAre DEF reallocate
  <2>2. g.is = f /\ Keeps(f, g)
    BY <2>1, SameIs
  <2>3. ~ g.ok
    BY <2>1 DEF Refused
  <2>. QED
    BY <2>2, <2>3
<1>2. CASE ~ (n < f.size) /\ ~ (n > Limit) /\ n = Capacity(f)
  <2>1. PICK h \in PackedInPlace(f) : g = Done(h)
    BY <1>2, Zenon DEF reallocate
  <2>2. /\ FifoOk(h) /\ h.size = f.size /\ h.read_index = 0 /\ Capacity(h) = Capacity(f)
        /\ PacksInPlace(f) => Contents(h) = Contents(f)
    BY PackedInPlaceIs
  <2>3. g.is = h
    BY <2>1 DEF Done
  <2>4. PacksInPlace(f) => Keeps(f, g)
    BY <2>1, <2>2, KeepsIs
  <2>. QED
    BY <1>2, <2>2, <2>3, <2>4, Zenon
<1>3. CASE ~ (n < f.size) /\ ~ (n > Limit) /\ n # Capacity(f) /\ (n = 0 \/ m)
  <2>. DEFINE h == PackedInto(f, Block(n))
  <2>1. g = Done(h)
    BY <1>3, Zenon DEF reallocate
  <2>2. Block(n) \in Seq(Values) /\ Len(Block(n)) = n
    BY BlockIs
  <2>3. f.size <= Len(Block(n))
    BY <1>3, <2>2, NumbersAre
  <2>4. FifoOk(h) /\ h.size = f.size /\ h.read_index = 0 /\ Capacity(h) = Len(Block(n)) /\ Contents(h) = Contents(f)
    BY <2>2, <2>3, PackedIntoIs
  <2>. HIDE DEF h
  <2>5. g.is = h /\ Keeps(f, g)
    BY <2>1, <2>4, KeepsIs
  <2>. QED
    BY <2>2, <2>4, <2>5, Zenon
<1>. QED
  BY <1>1, <1>2, <1>3

LEMMA ReserveIs ==
    ASSUME Limits, NEW f, FifoOk(f), NEW n \in Nat, NEW m, NEW g \in reserve(f, n, m)
    PROVE  FifoOk(g.is) /\ Keeps(f, g) /\ (g.ok => Capacity(g.is) >= n)
<1>0. Capacity(f) \in Nat
  BY NumbersAre
<1>1. CASE n > Limit
  <2>1. g = Refused(f)
    BY <1>1, Zenon DEF reserve
  <2>2. g.is = f /\ Keeps(f, g)
    BY <2>1, SameIs
  <2>3. ~ g.ok
    BY <2>1 DEF Refused
  <2>. QED
    BY <2>2, <2>3
<1>2. CASE ~ (n > Limit) /\ n > Capacity(f)
  <2>. DEFINE p == Greatest(Growth(n), Capacity(f))
  <2>1. g \in reallocate(f, p, m)
    BY <1>2, Zenon DEF reserve
  <2>2. n \in 0 .. Limit
    BY <1>2 DEF Limits
  <2>3. Growth(n) \in Nat /\ Growth(n) >= n
    BY <2>2, GrowthIs
  <2>4. p \in Nat /\ p >= n /\ p # Capacity(f)
    BY <1>0, <1>2, <2>3 DEF Greatest
  <2>. HIDE DEF p
  <2>5. /\ FifoOk(g.is)
        /\ PacksInPlace(f) \/ p # Capacity(f) => Keeps(f, g)
        /\ g.ok => g.is.read_index = 0 /\ Capacity(g.is) = p
    BY <2>1, <2>4, ReallocateIs
  <2>. QED
    BY <2>4, <2>5
<1>3. CASE ~ (n > Limit) /\ ~ (n > Capacity(f))
  <2>1. g = Done(f)
    BY <1>3, Zenon DEF reserve
  <2>2. g.is = f /\ Keeps(f, g)
    BY <2>1, SameIs
  <2>3. Capacity(g.is) >= n
    BY <1>0, <1>3, <2>2
  <2>. QED
    BY <2>2, <2>3
<1>. QED
  BY <1>1, <1>2, <1>3

LEMMA EnsureIs ==
    ASSUME Limits, NEW f, FifoOk(f), NEW n \in Nat, NEW m, NEW g \in ensure_free(f, n, m)
    PROVE  FifoOk(g.is) /\ Keeps(f, g) /\ (g.ok => Capacity(g.is) >= f.size + n)
<1>1. CASE n <= Limit - f.size
  <2>1. g \in reserve(f, f.size + n, m)
    BY <1>1, Zenon DEF ensure_free
  <2>2. f.size + n \in Nat
    BY NumbersAre
  <2>. QED
    BY <2>1, <2>2, ReserveIs
<1>2. CASE ~ (n <= Limit - f.size)
  <2>1. g = Refused(f)
    BY <1>2, Zenon DEF ensure_free
  <2>2. g.is = f /\ Keeps(f, g)
    BY <2>1, SameIs
  <2>3. ~ g.ok
    BY <2>1 DEF Refused
  <2>. QED
    BY <2>2, <2>3
<1>. QED
  BY <1>1, <1>2

LEMMA NoFifoIs == FifoOk(NoFifo)
BY EmptySeq DEF FifoOk, Sound, FifoType, NoFifo

LEMMA ShrinkIs ==
    ASSUME NEW f, FifoOk(f), NEW m, NEW g \in shrink_to_fit(f, m)
    PROVE  /\ FifoOk(g.is)
           /\ f.size # 0 /\ PacksInPlace(f) => Keeps(f, g) /\ (g.ok => g.is.read_index = 0)
<1>1. CASE f.size = 0
  <2>1. g = Done(NoFifo)
    BY <1>1, Zenon DEF shrink_to_fit
  <2>2. g.is = NoFifo
    BY <2>1 DEF Done
  <2>. QED
    BY <1>1, <2>2, NoFifoIs
<1>2. CASE f.size # 0
  <2>1. g \in reallocate(f, f.size, m)
    BY <1>2, Zenon DEF shrink_to_fit
  <2>2. f.size \in Nat
    BY NumbersAre
  <2>. QED
    BY <2>1, <2>2, ReallocateIs
<1>. QED
  BY <1>1, <1>2

LEMMA AllocateIs ==
    ASSUME NEW f, FifoOk(f), NEW n \in Nat, NEW m
    PROVE  FifoOk(allocate(f, n, m).is)
<1>. DEFINE g == allocate(f, n, m)
<1>0. f \in FifoType /\ f.block \in Seq(Values) /\ Capacity(f) \in Nat /\ Capacity(f) = Len(f.block)
  BY NumbersAre
<1>1. CASE n = Capacity(f)
  <2>. DEFINE h == [f EXCEPT !.size = 0, !.read_index = 0]
  <2>1. g = Done(h)
    BY <1>1, Zenon DEF allocate
  <2>2. h = [block |-> f.block, size |-> 0, read_index |-> 0]
    BY <1>0, ChangedFront
  <2>. HIDE DEF h
  <2>3. \A z \in Nat, r \in Nat : z <= Len(f.block) /\ (r < Len(f.block) \/ (r = 0 /\ Len(f.block) = 0))
           /\ h = [block |-> f.block, size |-> z, read_index |-> r] => FifoOk(h)
    BY <1>0, MadeOk
  <2>4. 0 \in Nat /\ 0 <= Len(f.block) /\ (0 < Len(f.block) \/ (0 = 0 /\ Len(f.block) = 0))
    BY <1>0
  <2>5. FifoOk(h)
    BY <2>2, <2>3, <2>4
  <2>6. g.is = h
    BY <2>1 DEF Done
  <2>. QED
    BY <2>5, <2>6
<1>2. CASE n # Capacity(f) /\ n <= Limit /\ (n = 0 \/ m)
  <2>. DEFINE b == Block(n)
              h == [NoFifo EXCEPT !.block = b]
  <2>1. g = Done(h)
    BY <1>2, Zenon DEF allocate
  <2>2. b \in Seq(Values) /\ Len(b) = n
    BY BlockIs
  <2>. HIDE DEF b
  <2>3. h = [block |-> b, size |-> 0, read_index |-> 0]
    BY DEF NoFifo
  <2>. HIDE DEF h
  <2>4. \A z \in Nat, r \in Nat : z <= Len(b) /\ (r < Len(b) \/ (r = 0 /\ Len(b) = 0))
           /\ h = [block |-> b, size |-> z, read_index |-> r] => FifoOk(h)
    BY <2>2, MadeOk
  <2>5. 0 \in Nat /\ 0 <= Len(b) /\ (0 < Len(b) \/ (0 = 0 /\ Len(b) = 0))
    BY <2>2
  <2>6. FifoOk(h)
    BY <2>3, <2>4, <2>5
  <2>7. g.is = h
    BY <2>1 DEF Done
  <2>. QED
    BY <2>6, <2>7
<1>3. CASE n # Capacity(f) /\ ~ (n <= Limit /\ (n = 0 \/ m))
  <2>1. g = Refused(f)
    BY <1>3, Zenon DEF allocate
  <2>2. g.is = f
    BY <2>1 DEF Refused
  <2>. QED
    BY <2>2
<1>. QED
  BY <1>1, <1>2, <1>3

LEMMA PackIs ==
    ASSUME NEW f, FifoOk(f), NEW g \in pack(f)
    PROVE  FifoOk(g) /\ (PacksInPlace(f) => Keeps(f, Done(g)) /\ g.read_index = 0)
<1>1. CASE is_ready(f)
  <2>1. g \in PackedInPlace(f)
    BY <1>1, Zenon DEF pack
  <2>2. FifoOk(g) /\ g.read_index = 0 /\ (PacksInPlace(f) => Contents(g) = Contents(f))
    BY <2>1, PackedInPlaceIs
  <2>. QED
    BY <2>2, KeepsIs
<1>2. CASE ~ is_ready(f)
  <2>1. g = f
    BY <1>2, Zenon DEF pack
  <2>2. f.read_index = 0
    BY <1>2, NumbersAre
  <2>3. Keeps(f, Done(f))
    BY SameIs
  <2>. QED
    BY <2>1, <2>2, <2>3
<1>. QED
  BY <1>1, <1>2

LEMMA AgreesIs ==
    ASSUME Limits, NEW f, FifoOk(f), NEW lists \in SUBSET Seq(Values)
    PROVE  FifoAgrees(f, lists)
<1>1. Sound(f)
  BY DEF FifoOk
<1>2. ASSUME NEW items \in lists
      PROVE  LET g == push_back(f, items) IN
             IF g.ok THEN Sound(g.is) /\ Contents(g.is) = Contents(f) \o items
             ELSE g.is = f /\ (f = NoFifo \/ f.size + Len(items) > Capacity(f))
  <2>1. items \in Seq(Values)
    OBVIOUS
  <2>. DEFINE g == push_back(f, items)
  <2>2. /\ FifoOk(g.is)
        /\ IF g.ok THEN Contents(g.is) = Contents(f) \o items
           ELSE g.is = f /\ (f = NoFifo \/ f.size + Len(items) > Capacity(f))
    BY <2>1, PushIs
  <2>. HIDE DEF g
  <2>3. IF g.ok THEN Sound(g.is) /\ Contents(g.is) = Contents(f) \o items
        ELSE g.is = f /\ (f = NoFifo \/ f.size + Len(items) > Capacity(f))
    BY <2>2, Zenon DEF FifoOk
  <2>. QED
    BY <2>3, Zenon DEF g
<1>3. ASSUME NEW n \in 0 .. Limit
      PROVE  LET g == pop_front(f, n) IN
             IF g.ok THEN Sound(g.is) /\ g.items \o Contents(g.is) = Contents(f) /\ Len(g.items) = n
             ELSE g.is = f /\ (f = NoFifo \/ n > f.size)
  <2>1. n \in Nat
    BY DEF Limits
  <2>. DEFINE g == pop_front(f, n)
  <2>2. /\ FifoOk(g.is)
        /\ IF g.ok THEN g.items \o Contents(g.is) = Contents(f) /\ Len(g.items) = n
           ELSE g.is = f /\ (f = NoFifo \/ n > f.size)
    BY <2>1, PopIs
  <2>. HIDE DEF g
  <2>3. IF g.ok THEN Sound(g.is) /\ g.items \o Contents(g.is) = Contents(f) /\ Len(g.items) = n
        ELSE g.is = f /\ (f = NoFifo \/ n > f.size)
    BY <2>2, Zenon DEF FifoOk
  <2>. QED
    BY <2>3, Zenon DEF g
<1>4. ASSUME NEW n \in 0 .. Limit + 1, NEW m \in BOOLEAN
      PROVE  LET c == reallocate(f, n, m)
                 d == IF f.size # 0 THEN shrink_to_fit(f, m) ELSE {}
                 r == reserve(f, n, m)
                 e == ensure_free(f, n, m)
             IN /\ PacksInPlace(f) => \A g \in c \cup d : Keeps(f, g) /\ (g.ok => g.is.read_index = 0)
                /\ \A g \in r \cup e : Keeps(f, g)
                /\ \A g \in e : g.ok => Capacity(g.is) >= f.size + n
  <2>1. n \in Nat
    BY DEF Limits
  <2>2. \A g \in reallocate(f, n, m) : PacksInPlace(f) => Keeps(f, g) /\ (g.ok => g.is.read_index = 0)
    BY <2>1, ReallocateIs
  <2>3. f.size # 0 => \A g \in shrink_to_fit(f, m) :
                         PacksInPlace(f) => Keeps(f, g) /\ (g.ok => g.is.read_index = 0)
    BY ShrinkIs
  <2>4. \A g \in reserve(f, n, m) : Keeps(f, g)
    BY <2>1, ReserveIs
  <2>5. \A g \in ensure_free(f, n, m) : Keeps(f, g) /\ (g.ok => Capacity(g.is) >= f.size + n)
    BY <2>1, EnsureIs
  <2>. QED
    BY <2>2, <2>3, <2>4, <2>5, Zenon
<1>5. PacksInPlace(f) => \A g \in pack(f) : Keeps(f, Done(g)) /\ g.read_index = 0
  BY PackIs
<1>. QED
  BY <1>1, <1>2, <1>3, <1>4, <1>5, Zenon DEF FifoAgrees

LEMMA StepsAre ==
    ASSUME Limits, NEW f, FifoOk(f), NEW lists \in SUBSET Seq(Values), NEW x \in Steps(f, lists)
    PROVE  FifoOk(x)
<1>1. CASE x \in {push_back(f, items).is : items \in lists}
  <2>1. PICK items \in lists : x = push_back(f, items).is
    BY <1>1
  <2>2. items \in Seq(Values)
    OBVIOUS
  <2>. QED
    BY <2>1, <2>2, PushIs
<1>2. CASE x \in {pop_front(f, n).is : n \in 0 .. Limit}
  <2>1. PICK n \in 0 .. Limit : x = pop_front(f, n).is
    BY <1>2
  <2>2. n \in Nat
    BY DEF Limits
  <2>. QED
    BY <2>1, <2>2, PopIs
<1>3. CASE x \in pack(f)
  BY <1>3, PackIs
<1>4. CASE x = deallocate(f)
  BY <1>4, NoFifoIs DEF deallocate
<1>5. ASSUME NEW n \in 0 .. Limit + 1, NEW m \in BOOLEAN,
             x = allocate(f, n, m).is \/
             \E g \in reallocate(f, n, m) \cup reserve(f, n, m) \cup ensure_free(f, n, m)
                        \cup shrink_to_fit(f, m) : x = g.is
      PROVE  FifoOk(x)
  <2>1. n \in Nat
    BY DEF Limits
  <2>2. FifoOk(allocate(f, n, m).is)
    BY <2>1, AllocateIs
  <2>3. \A h \in reallocate(f, n, m) : FifoOk(h.is)
    BY <2>1, ReallocateIs
  <2>4. \A h \in reserve(f, n, m) : FifoOk(h.is)
    BY <2>1, ReserveIs
  <2>5. \A h \in ensure_free(f, n, m) : FifoOk(h.is)
    BY <2>1, EnsureIs
  <2>6. \A h \in shrink_to_fit(f, m) : FifoOk(h.is)
    BY ShrinkIs
  <2>. QED
    BY <1>5, <2>2, <2>3, <2>4, <2>5, <2>6, Zenon
<1>6. \/ x \in {push_back(f, items).is : items \in lists}
      \/ x \in {pop_front(f, n).is : n \in 0 .. Limit}
      \/ x \in pack(f) \/ x = deallocate(f)
      \/ \E n \in 0 .. Limit + 1, m \in BOOLEAN :
            \/ x = allocate(f, n, m).is
            \/ \E g \in reallocate(f, n, m) \cup reserve(f, n, m) \cup ensure_free(f, n, m)
                         \cup shrink_to_fit(f, m) : x = g.is
  BY DEF Steps
<1>7. CASE \E n \in 0 .. Limit + 1, m \in BOOLEAN :
            \/ x = allocate(f, n, m).is
            \/ \E g \in reallocate(f, n, m) \cup reserve(f, n, m) \cup ensure_free(f, n, m)
                         \cup shrink_to_fit(f, m) : x = g.is
  BY <1>5, <1>7
<1>. QED
  BY <1>1, <1>2, <1>3, <1>4, <1>6, <1>7

\* Lists of elements are lists of what a block may hold.
LEMMA ListsAre == Seq(Elements) \in SUBSET Seq(Values)
<1>. SUFFICES ASSUME NEW s \in Seq(Elements) PROVE s \in Seq(Values)
  OBVIOUS
<1>1. Len(s) \in Nat /\ s \in [1 .. Len(s) -> Elements]
  BY LenProperties
<1>2. s \in [1 .. Len(s) -> Values]
  BY <1>1 DEF Values
<1>. QED
  BY <1>1, <1>2, SeqDef

\* A FIFO that is given any requests, one after the other.
VARIABLE fifo
FifoSpec == fifo = NoFifo /\ [][fifo' \in Steps(fifo, Seq(Elements))]_fifo

(***************************************************************************)
(* Whatever was done to a TPodFifo before, whatever its capacity: it keeps *)
(* the list it holds, in order, through push_back(), pop_front(), pack()   *)
(* and every change of its memory, across wraps, and a request that is     *)
(* refused or gets no memory changes nothing; but for packing in place     *)
(* where PacksInPlace does not hold.                                       *)
(***************************************************************************)
THEOREM FifoKept ==
    ASSUME Limits
    PROVE  FifoSpec => []FifoAgrees(fifo, Seq(Elements))
<1>0. Seq(Elements) \in SUBSET Seq(Values)
  BY ListsAre
<1>1. fifo = NoFifo => FifoOk(fifo)
  BY NoFifoIs
<1>2. FifoOk(fifo) /\ [fifo' \in Steps(fifo, Seq(Elements))]_fifo => FifoOk(fifo)'
  <2>1. ASSUME FifoOk(fifo), fifo' \in Steps(fifo, Seq(Elements)) PROVE FifoOk(fifo')
    BY <1>0, <2>1, StepsAre
  <2>2. ASSUME FifoOk(fifo), fifo' = fifo PROVE FifoOk(fifo')
    BY <2>2
  <2>. QED
    BY <2>1, <2>2
<1>3. FifoOk(fifo) => FifoAgrees(fifo, Seq(Elements))
  BY <1>0, AgreesIs
<1>. QED
  BY <1>1, <1>2, <1>3, PTL DEF FifoSpec

----------------------------------------------------------------------------
(* Vectors *)

\* The operations of TPodVector, which has names in common with TPodFifo.
Vec == INSTANCE TPodVector

\* What the operators on blocks do, place by place.
LEMMA VecSlice ==
    ASSUME NEW b \in Seq(Values), NEW i \in Nat, NEW n \in Nat, i + n <= Len(b)
    PROVE  /\ Vec!Slice(b, i, n) \in Seq(Values) /\ Len(Vec!Slice(b, i, n)) = n
           /\ \A k \in 1 .. n : Vec!Slice(b, i, n)[k] = b[i + k]
BY SliceIs DEF Vec!Slice, Slice

LEMMA VecWrite ==
    ASSUME NEW b \in Seq(Values), NEW i \in Int, NEW e \in Seq(Values)
    PROVE  /\ Vec!Write(b, i, e) \in Seq(Values) /\ Len(Vec!Write(b, i, e)) = Len(b)
           /\ \A k \in 1 .. Len(b) :
                 Vec!Write(b, i, e)[k] = IF i < k /\ k <= i + Len(e) THEN e[k - i] ELSE b[k]
<1>1. Vec!Write(b, i, e) = Write(b, i, e)
  BY Zenon DEF Vec!Write, Write
<1>. QED
  BY <1>1, WriteIs

LEMMA VecMove ==
    ASSUME NEW b \in Seq(Values), NEW to \in Int, NEW a \in Seq(Values), NEW from \in Nat,
           NEW n \in Nat, from + n <= Len(a)
    PROVE  /\ Vec!memmove(b, to, a, from, n) \in Seq(Values) /\ Len(Vec!memmove(b, to, a, from, n)) = Len(b)
           /\ \A k \in 1 .. Len(b) :
                 Vec!memmove(b, to, a, from, n)[k] = IF to < k /\ k <= to + n THEN a[from + (k - to)] ELSE b[k]
<1>1. Vec!memmove(b, to, a, from, n) = memmove(b, to, a, from, n)
  BY Zenon DEF Vec!memmove, memmove, Vec!Write, Write, Vec!Slice, Slice
<1>2. /\ memmove(b, to, a, from, n) \in Seq(Values) /\ Len(memmove(b, to, a, from, n)) = Len(b)
      /\ \A k \in 1 .. Len(b) :
            memmove(b, to, a, from, n)[k] = IF to < k /\ k <= to + n THEN a[from + (k - to)] ELSE b[k]
  BY MovesAre
<1>. QED
  BY <1>1, <1>2, Zenon

\* The same of any blocks, to be cited where there are many.
LEMMA VecMoves ==
    \A b \in Seq(Values), a \in Seq(Values), to \in Int, from \in Nat, n \in Nat : from + n <= Len(a) =>
       /\ Vec!memmove(b, to, a, from, n) \in Seq(Values) /\ Len(Vec!memmove(b, to, a, from, n)) = Len(b)
       /\ \A k \in 1 .. Len(b) :
             Vec!memmove(b, to, a, from, n)[k] = IF to < k /\ k <= to + n THEN a[from + (k - to)] ELSE b[k]
BY VecMove

\* x is b with n elements of a moved into it.
Placed(x, b, to, a, from, n) ==
    /\ x \in Seq(Values) /\ Len(x) = Len(b)
    /\ \A k \in 1 .. Len(b) : x[k] = IF to < k /\ k <= to + n THEN a[from + (k - to)] ELSE b[k]

LEMMA VecMovesTo ==
    \A b \in Seq(Values), a \in Seq(Values), to \in Int, from \in Nat, n \in Nat : from + n <= Len(a) =>
       Placed(Vec!memmove(b, to, a, from, n), b, to, a, from, n)
BY VecMoves, Zenon DEF Placed

LEMMA VecFill ==
    ASSUME NEW n \in Int, NEW x \in Values
    PROVE  /\ Vec!Fill(n, x) \in Seq(Values) /\ Len(Vec!Fill(n, x)) = IF n > 0 THEN n ELSE 0
           /\ \A k \in 1 .. n : Vec!Fill(n, x)[k] = x
<1>. DEFINE s == Vec!Fill(n, x)
            c == IF n > 0 THEN n ELSE 0
<1>1. s = [k \in 1 .. n |-> x]
  BY Zenon DEF Vec!Fill
<1>2. c \in Nat /\ 1 .. c = 1 .. n /\ (n > 0 => c = n) /\ (~ (n > 0) => c = 0)
  OBVIOUS
<1>. HIDE DEF s, c
<1>3. s \in [1 .. c -> Values] /\ \A k \in 1 .. n : s[k] = x
  BY <1>1, <1>2
<1>4. s \in Seq(Values)
  BY <1>2, <1>3, SeqDef
<1>5. Len(s) = c
  BY <1>2, <1>3, <1>4, LenProperties
<1>. QED
  BY <1>3, <1>4, <1>5 DEF s, c

LEMMA ZerosAre ==
    ASSUME NEW n \in Int
    PROVE  /\ Vec!Fill(n, Vec!Zero) \in Seq(Values) /\ Len(Vec!Fill(n, Vec!Zero)) = IF n > 0 THEN n ELSE 0
           /\ \A k \in 1 .. n : Vec!Fill(n, Vec!Zero)[k] = Vec!Zero
<1>1. Vec!Zero \in Values
  BY DEF Vec!Zero, Zero, Values
<1>. QED
  BY <1>1, VecFill

LEMMA VecBlock ==
    ASSUME NEW n \in Nat
    PROVE  Vec!Block(n) \in Seq(Values) /\ Len(Vec!Block(n)) = n
<1>1. Vec!Unset \in Values
  BY DEF Vec!Unset, Unset, Values
<1>2. n \in Int /\ (IF n > 0 THEN n ELSE 0) = n
  OBVIOUS
<1>3. Vec!Block(n) = Vec!Fill(n, Vec!Unset)
  BY Zenon DEF Vec!Block
<1>4. /\ Vec!Fill(n, Vec!Unset) \in Seq(Values)
      /\ Len(Vec!Fill(n, Vec!Unset)) = IF n > 0 THEN n ELSE 0
  BY <1>1, <1>2, VecFill
<1>. QED
  BY <1>2, <1>3, <1>4

LEMMA VecGrowth ==
    ASSUME Limits, NEW n \in 0 .. Limit
    PROVE  Vec!Growth(n) \in Nat /\ Vec!Growth(n) >= n
BY DEF Limits, Vec!Growth, Vec!Least

----------------------------------------------------------------------------
\* What is always true of a vector.
VecType == [block : Seq(Values), size : Nat, capacity : Nat]
VecOk(v) == v \in VecType /\ Vec!is_valid(v) /\ v.capacity <= Len(v.block)

LEMMA VecNumbers ==
    ASSUME NEW v, VecOk(v)
    PROVE  /\ v \in VecType /\ v.block \in Seq(Values) /\ v.size \in Nat /\ v.capacity \in Nat
           /\ Len(v.block) \in Nat /\ v.size <= v.capacity /\ v.capacity <= Len(v.block)
           /\ v.capacity <= Limit \/ v.capacity = 0
           /\ v.capacity = 0 => v.block = << >> /\ v = Vec!NoVector
<1>1. v \in VecType /\ v.block \in Seq(Values) /\ v.size \in Nat /\ v.capacity \in Nat /\ v.capacity <= Len(v.block)
  BY DEF VecOk, VecType
<1>2. Len(v.block) \in Nat
  BY <1>1, LenProperties
<1>3. v = Vec!NoVector \/ Vec!is_ready(v)
  BY DEF VecOk, Vec!is_valid
<1>4. CASE v = Vec!NoVector
  <2>1. v.block = << >> /\ v.size = 0 /\ v.capacity = 0
    BY <1>4 DEF Vec!NoVector
  <2>. QED
    BY <1>1, <1>2, <1>4, <2>1
<1>5. CASE Vec!is_ready(v)
  <2>1. v.size <= v.capacity /\ v.capacity \in 1 .. Limit
    BY <1>5 DEF Vec!is_ready
  <2>2. v.capacity # 0 /\ v.capacity <= Limit
    BY <1>1, <2>1
  <2>. QED
    BY <1>1, <1>2, <2>1, <2>2
<1>. QED
  BY <1>3, <1>4, <1>5

\* A record that is a sound vector.
LEMMA VecMade ==
    ASSUME Limits, NEW b \in Seq(Values), NEW z \in Nat, NEW c \in Nat, z <= c, c <= Len(b), c <= Limit,
           c = 0 => b = << >>,
           NEW v, v = [block |-> b, size |-> z, capacity |-> c]
    PROVE  VecOk(v) /\ v.block = b /\ v.size = z /\ v.capacity = c
<1>1. v \in VecType /\ v.block = b /\ v.size = z /\ v.capacity = c
  BY DEF VecType
<1>2. CASE c = 0
  <2>1. z = 0 /\ b = << >>
    BY <1>2
  <2>2. v = Vec!NoVector
    BY <1>2, <2>1 DEF Vec!NoVector
  <2>. QED
    BY <1>1, <2>2 DEF VecOk, Vec!is_valid
<1>3. CASE c # 0
  <2>1. b # << >>
    BY <1>3, EmptySeq
  <2>2. c \in 1 .. Limit
    BY <1>3 DEF Limits
  <2>3. Vec!is_ready(v)
    BY <1>1, <2>1, <2>2 DEF Vec!is_ready
  <2>. QED
    BY <1>1, <2>3 DEF VecOk, Vec!is_valid
<1>. QED
  BY <1>2, <1>3

\* What is left of a vector of which two fields, or one, are changed.
LEMMA VecOnly ==
    ASSUME NEW b, NEW z, NEW c, NEW w \in [block : {b}, size : {z}, capacity : {c}]
    PROVE  w = [block |-> b, size |-> z, capacity |-> c]
OBVIOUS

LEMMA VecBack ==
    ASSUME NEW v \in VecType, NEW b, NEW z
    PROVE  [v EXCEPT !.block = b, !.size = z] = [block |-> b, size |-> z, capacity |-> v.capacity]
<1>1. [v EXCEPT !.block = b, !.size = z] \in [block : {b}, size : {z}, capacity : {v.capacity}]
  BY DEF VecType
<1>. QED
  BY <1>1, VecOnly

LEMMA VecSized ==
    ASSUME NEW v \in VecType, NEW z
    PROVE  [v EXCEPT !.size = z] = [block |-> v.block, size |-> z, capacity |-> v.capacity]
<1>1. [v EXCEPT !.size = z] \in [block : {v.block}, size : {z}, capacity : {v.capacity}]
  BY DEF VecType
<1>. QED
  BY <1>1, VecOnly

LEMMA VecBlocked ==
    ASSUME NEW v \in VecType, NEW b
    PROVE  [v EXCEPT !.block = b] = [block |-> b, size |-> v.size, capacity |-> v.capacity]
<1>1. [v EXCEPT !.block = b] \in [block : {b}, size : {v.size}, capacity : {v.capacity}]
  BY DEF VecType
<1>. QED
  BY <1>1, VecOnly

----------------------------------------------------------------------------
\* The list of a vector's elements, and its parts.
LEMMA VecContents ==
    ASSUME NEW v, VecOk(v)
    PROVE  /\ Vec!Contents(v) \in Seq(Values) /\ Len(Vec!Contents(v)) = v.size
           /\ \A k \in 1 .. v.size : Vec!Contents(v)[k] = v.block[k]
<1>1. /\ v.block \in Seq(Values) /\ v.size \in Nat /\ 0 \in Nat /\ 0 + v.size <= Len(v.block)
  BY VecNumbers
<1>2. \A i \in Nat : i + v.size <= Len(v.block) =>
         /\ Vec!Slice(v.block, i, v.size) \in Seq(Values) /\ Len(Vec!Slice(v.block, i, v.size)) = v.size
         /\ \A k \in 1 .. v.size : Vec!Slice(v.block, i, v.size)[k] = v.block[i + k]
  BY <1>1, VecSlice
<1>3. Vec!Contents(v) = Vec!Slice(v.block, 0, v.size)
  BY Zenon DEF Vec!Contents
<1>4. \A k \in 1 .. v.size : 0 + k = k
  BY <1>1
<1>. QED
  BY <1>1, <1>2, <1>3, <1>4

\* A vector holds a list when its block begins with it.
LEMMA VecList ==
    ASSUME NEW v, VecOk(v), NEW list \in Seq(Values), Len(list) = v.size,
           \A k \in 1 .. v.size : v.block[k] = list[k]
    PROVE  Vec!Contents(v) = list
<1>1. /\ Vec!Contents(v) \in Seq(Values) /\ Len(Vec!Contents(v)) = v.size
      /\ \A k \in 1 .. v.size : Vec!Contents(v)[k] = v.block[k]
  BY VecContents
<1>2. Len(Vec!Contents(v)) = Len(list) /\ \A k \in 1 .. Len(list) : Vec!Contents(v)[k] = list[k]
  BY <1>1
<1>. QED
  BY <1>1, <1>2, SameBlock

\* Its first elements, and those from an index on.
LEMMA VecFirst ==
    ASSUME NEW v, VecOk(v), NEW n \in Nat, NEW c, c = (IF n <= v.size THEN n ELSE v.size)
    PROVE  /\ c \in Nat /\ c <= v.size /\ c <= n
           /\ Vec!First(v, n) \in Seq(Values) /\ Len(Vec!First(v, n)) = c
           /\ \A k \in 1 .. c : Vec!First(v, n)[k] = v.block[k]
<1>. DEFINE s == Vec!Contents(v)
<1>1. s \in Seq(Values) /\ Len(s) = v.size /\ \A k \in 1 .. v.size : s[k] = v.block[k]
  BY VecContents
<1>2. v.size \in Nat
  BY VecNumbers
<1>3. c \in Nat /\ c <= v.size /\ c <= n /\ 0 \in Nat /\ 0 + c <= v.size /\ 0 + c = c /\ 0 + 1 = 1
  BY <1>2
<1>4. Vec!First(v, n) = SubSeq(s, 1, c)
  BY Zenon DEF Vec!First, Vec!Least
<1>. HIDE DEF s
<1>5. \A i \in Nat : i + c <= Len(s) =>
         /\ Slice(s, i, c) \in Seq(Values) /\ Len(Slice(s, i, c)) = c
         /\ \A k \in 1 .. c : Slice(s, i, c)[k] = s[i + k]
  BY <1>1, <1>3, SlicesAre
<1>6. Slice(s, 0, c) = SubSeq(s, 1, c)
  BY <1>3 DEF Slice
<1>7. \A k \in 1 .. c : 0 + k = k /\ k \in 1 .. v.size
  BY <1>2, <1>3
<1>8. /\ Slice(s, 0, c) \in Seq(Values) /\ Len(Slice(s, 0, c)) = c
      /\ \A k \in 1 .. c : Slice(s, 0, c)[k] = s[0 + k]
  <2>1. 0 + c <= Len(s)
    BY <1>1, <1>3
  <2>. QED
    BY <1>3, <1>5, <2>1
<1>. QED
  BY <1>1, <1>3, <1>4, <1>6, <1>7, <1>8

LEMMA VecFrom ==
    ASSUME NEW v, VecOk(v), NEW i \in Nat, i <= v.size
    PROVE  /\ Vec!From(v, i) \in Seq(Values) /\ Len(Vec!From(v, i)) = v.size - i
           /\ \A k \in 1 .. v.size - i : Vec!From(v, i)[k] = v.block[i + k]
<1>. DEFINE s == Vec!Contents(v)
            n == v.size - i
<1>1. s \in Seq(Values) /\ Len(s) = v.size /\ \A k \in 1 .. v.size : s[k] = v.block[k]
  BY VecContents
<1>2. v.size \in Nat
  BY VecNumbers
<1>3. n \in Nat /\ i + n = v.size /\ n = v.size - i
  BY <1>2
<1>4. Vec!From(v, i) = SubSeq(s, i + 1, v.size)
  BY Zenon DEF Vec!From
<1>. HIDE DEF s, n
<1>5. /\ Slice(s, i, n) \in Seq(Values) /\ Len(Slice(s, i, n)) = n
      /\ \A k \in 1 .. n : Slice(s, i, n)[k] = s[i + k]
  <2>1. i + n <= Len(s)
    BY <1>1, <1>2, <1>3
  <2>. QED
    BY <1>1, <1>3, <2>1, SlicesAre
<1>6. Slice(s, i, n) = SubSeq(s, i + 1, v.size)
  BY <1>3 DEF Slice
<1>7. \A k \in 1 .. n : i + k \in 1 .. v.size
  BY <1>2, <1>3
<1>. QED
  BY <1>1, <1>3, <1>4, <1>5, <1>6, <1>7

\* A list behind another.
LEMMA Two ==
    ASSUME NEW s \in Seq(Values), NEW t \in Seq(Values)
    PROVE  /\ s \o t \in Seq(Values) /\ Len(s \o t) = Len(s) + Len(t)
           /\ \A k \in 1 .. Len(s) + Len(t) : (s \o t)[k] = IF k <= Len(s) THEN s[k] ELSE t[k - Len(s)]
BY ConcatProperties

\* A request that is refused, and one that is done.
LEMMA VecRefused ==
    ASSUME NEW v, VecOk(v), NEW g, g = Vec!Refused(v), NEW list
    PROVE  VecOk(g.is) /\ g.is = v /\ ~ g.ok /\ Vec!Becomes(v, g, list)
<1>1. ~ g.ok /\ g.is = v
  BY DEF Vec!Refused
<1>. QED
  BY <1>1, Zenon DEF Vec!Becomes

LEMMA VecDone ==
    ASSUME NEW v, NEW h, VecOk(h), NEW g, g = Vec!Done(h), NEW list, Vec!Contents(h) = list
    PROVE  g.ok /\ g.is = h /\ Vec!Becomes(v, g, list)
<1>1. g.ok /\ g.is = h
  BY DEF Vec!Done
<1>2. Vec!is_valid(h)
  BY DEF VecOk
<1>. QED
  BY <1>1, <1>2, Zenon DEF Vec!Becomes

\* The block of a reallocated token begins with the elements that are kept.
LEMMA VecToken ==
    ASSUME NEW v, VecOk(v), NEW kept \in Nat, kept <= v.size, NEW c \in Nat, kept <= c,
           NEW b, b = (IF c = v.capacity THEN v.block ELSE Vec!TokenReallocated(v.block, kept, c))
    PROVE  /\ b \in Seq(Values) /\ Len(b) \in Nat /\ c <= Len(b) /\ (c = 0 => b = << >>)
           /\ \A k \in 1 .. kept : b[k] = v.block[k]
<1>0. /\ v.block \in Seq(Values) /\ v.size \in Nat /\ v.capacity \in Nat /\ Len(v.block) \in Nat
      /\ v.size <= v.capacity /\ v.capacity <= Len(v.block) /\ (v.capacity = 0 => v.block = << >>)
  BY VecNumbers
<1>1. CASE c = v.capacity
  BY <1>0, <1>1
<1>2. CASE c # v.capacity /\ c = 0
  <2>1. b = << >> /\ kept = 0
    BY <1>2 DEF Vec!TokenReallocated
  <2>2. b \in Seq(Values) /\ Len(b) = 0
    BY <2>1, EmptySeq
  <2>. QED
    BY <1>2, <2>1, <2>2
<1>3. CASE c # v.capacity /\ c # 0 /\ kept = c
  <2>1. b = v.block
    BY <1>3, Zenon DEF Vec!TokenReallocated
  <2>. QED
    BY <1>0, <1>3, <2>1
<1>4. CASE c # v.capacity /\ c # 0 /\ kept # c
  <2>. DEFINE n == Vec!Block(c)
              s == Vec!Slice(v.block, 0, kept)
  <2>1. b = Vec!Write(n, 0, s)
    BY <1>4, Zenon DEF Vec!TokenReallocated
  <2>2. n \in Seq(Values) /\ Len(n) = c
    BY VecBlock
  <2>3. s \in Seq(Values) /\ Len(s) = kept /\ \A k \in 1 .. kept : s[k] = v.block[0 + k]
    <3>1. \A i \in Nat : i + kept <= Len(v.block) =>
             /\ Vec!Slice(v.block, i, kept) \in Seq(Values) /\ Len(Vec!Slice(v.block, i, kept)) = kept
             /\ \A k \in 1 .. kept : Vec!Slice(v.block, i, kept)[k] = v.block[i + k]
      BY <1>0, VecSlice
    <3>2. 0 \in Nat /\ 0 + kept <= Len(v.block)
      BY <1>0
    <3>. QED
      BY <3>1, <3>2
  <2>. HIDE DEF n, s
  <2>4. \A i \in Int : /\ Vec!Write(n, i, s) \in Seq(Values) /\ Len(Vec!Write(n, i, s)) = Len(n)
                       /\ \A k \in 1 .. Len(n) : Vec!Write(n, i, s)[k] =
                             IF i < k /\ k <= i + Len(s) THEN s[k - i] ELSE n[k]
    BY <2>2, <2>3, VecWrite
  <2>5. /\ b \in Seq(Values) /\ Len(b) = c
        /\ \A k \in 1 .. c : b[k] = IF 0 < k /\ k <= 0 + kept THEN s[k - 0] ELSE n[k]
    <3>1. 0 \in Int
      OBVIOUS
    <3>. QED
      BY <2>1, <2>2, <2>3, <2>4, <3>1
  <2>6. ASSUME NEW k \in 1 .. kept PROVE b[k] = v.block[k]
    <3>1. k \in 1 .. c /\ 0 < k /\ k <= 0 + kept /\ k - 0 = k /\ 0 + k = k
      OBVIOUS
    <3>2. b[k] = s[k - 0]
      BY <2>5, <3>1
    <3>. QED
      BY <2>3, <3>1, <3>2
  <2>. QED
    BY <1>4, <2>5, <2>6
<1>. QED
  BY <1>1, <1>2, <1>3, <1>4

\* The list that reallocate() and resize() leave.
LEMMA VecResized ==
    ASSUME NEW v, VecOk(v), NEW n \in Nat
    PROVE  LET list == Vec!First(v, n) \o Vec!Fill(n - v.size, Vec!Zero) IN
           /\ list \in Seq(Values) /\ Len(list) = n
           /\ \A k \in 1 .. n : list[k] = IF k <= v.size THEN v.block[k] ELSE Vec!Zero
<1>. DEFINE kept == IF n <= v.size THEN n ELSE v.size
            p == Vec!First(v, n)
            q == Vec!Fill(n - v.size, Vec!Zero)
            list == p \o q
<1>0. v.size \in Nat /\ n - v.size \in Int
  BY VecNumbers
<1>1. kept \in Nat /\ kept <= v.size /\ kept <= n
  BY <1>0
<1>2. p \in Seq(Values) /\ Len(p) = kept /\ \A k \in 1 .. kept : p[k] = v.block[k]
  <2>. HIDE DEF p
  <2>1. \A c : c = (IF n <= v.size THEN n ELSE v.size) =>
          p \in Seq(Values) /\ Len(p) = c /\ \A k \in 1 .. c : p[k] = v.block[k]
    BY VecFirst DEF p
  <2>. QED
    BY <2>1
<1>3. q \in Seq(Values) /\ Len(q) = n - kept /\ \A k \in 1 .. n - kept : q[k] = Vec!Zero
  <2>1. /\ q \in Seq(Values) /\ Len(q) = (IF n - v.size > 0 THEN n - v.size ELSE 0)
        /\ \A k \in 1 .. n - v.size : q[k] = Vec!Zero
    BY <1>0, ZerosAre
  <2>. HIDE DEF q
  <2>2. (IF n - v.size > 0 THEN n - v.size ELSE 0) = n - kept
    BY <1>0
  <2>3. \A k \in 1 .. n - kept : k \in 1 .. n - v.size
    BY <1>0
  <2>. HIDE DEF kept
  <2>. QED
    BY <2>1, <2>2, <2>3
<1>4. n > v.size => kept = v.size
  BY <1>0
<1>5. n <= v.size => kept = n
  OBVIOUS
<1>. HIDE DEF p, q, kept
<1>6. /\ list \in Seq(Values) /\ Len(list) = Len(p) + Len(q)
      /\ \A k \in 1 .. Len(p) + Len(q) : list[k] = IF k <= Len(p) THEN p[k] ELSE q[k - Len(p)]
  BY <1>2, <1>3, Two
<1>. HIDE DEF list
<1>7. Len(list) = n /\ \A k \in 1 .. n : list[k] = IF k <= kept THEN p[k] ELSE q[k - kept]
  <2>1. kept + (n - kept) = n
    BY <1>1
  <2>. QED
    BY <1>2, <1>3, <1>6, <2>1
<1>8. ASSUME NEW k \in 1 .. n PROVE list[k] = IF k <= v.size THEN v.block[k] ELSE Vec!Zero
  <2>1. CASE k <= kept
    BY <1>0, <1>1, <1>2, <1>7, <2>1
  <2>2. CASE ~ (k <= kept)
    <3>1. ~ (k <= v.size) /\ k - kept \in 1 .. n - kept
      BY <1>0, <1>1, <1>4, <1>5, <2>2
    <3>. QED
      BY <1>3, <1>7, <2>2, <3>1
  <2>. QED
    BY <2>1, <2>2
<1>. QED
  BY <1>6, <1>7, <1>8 DEF list, p, q

LEMMA VecReallocate ==
    ASSUME Limits, NEW v, VecOk(v), NEW n \in Nat, NEW c \in Nat, NEW m,
           NEW g, g = Vec!reallocate(v, n, c, m)
    PROVE  /\ VecOk(g.is)
           /\ Vec!Becomes(v, g, Vec!First(v, n) \o Vec!Fill(n - v.size, Vec!Zero))
           /\ g.ok => /\ g.is.size = n /\ g.is.capacity = c
                      /\ \A k \in 1 .. n : k <= v.size => g.is.block[k] = v.block[k]
<1>. DEFINE kept == Vec!Least(v.size, n)
            a == IF c = v.capacity THEN v.block ELSE Vec!TokenReallocated(v.block, kept, c)
            needs == c \notin {0, v.capacity, kept}
            b == Vec!Write(a, v.size, Vec!Fill(n - kept, Vec!Zero))
            h == [block |-> b, size |-> n, capacity |-> c]
            list == Vec!First(v, n) \o Vec!Fill(n - v.size, Vec!Zero)
<1>1. g = IF n > c \/ c > Limit \/ (needs /\ ~m) THEN Vec!Refused(v) ELSE Vec!Done(h)
  BY Zenon DEF Vec!reallocate
<1>. HIDE DEF h
<1>2. CASE n > c \/ c > Limit \/ (needs /\ ~m)
  <2>1. g = Vec!Refused(v)
    BY <1>1, <1>2, Zenon
  <2>. HIDE DEF list
  <2>2. VecOk(g.is) /\ ~ g.ok /\ Vec!Becomes(v, g, list)
    BY <2>1, VecRefused
  <2>. QED
    BY <2>2 DEF list
<1>3. CASE ~ (n > c \/ c > Limit \/ (needs /\ ~m))
  <2>1. g = Vec!Done(h)
    BY <1>1, <1>3, Zenon
  <2>2. n <= c /\ c <= Limit
    BY <1>3 DEF Limits
  <2>3. v.size \in Nat
    BY VecNumbers
  <2>4. /\ kept \in Nat /\ kept <= v.size /\ kept <= n /\ (n > v.size => kept = v.size)
        /\ (n <= v.size => kept = n)
    BY <2>3 DEF Vec!Least
  <2>5. /\ a \in Seq(Values) /\ Len(a) \in Nat /\ c <= Len(a) /\ (c = 0 => a = << >>)
        /\ \A k \in 1 .. kept : a[k] = v.block[k]
    <3>1. kept <= c
      BY <2>2, <2>3, <2>4
    <3>. HIDE DEF kept
    <3>. QED
      BY <2>4, <3>1, VecToken
  <2>. DEFINE z == Vec!Fill(n - kept, Vec!Zero)
  <2>6. z \in Seq(Values) /\ Len(z) = n - kept /\ \A k \in 1 .. n - kept : z[k] = Vec!Zero
    <3>. HIDE DEF kept
    <3>1. n - kept \in Int /\ (IF n - kept > 0 THEN n - kept ELSE 0) = n - kept
      BY <2>4
    <3>2. /\ z \in Seq(Values) /\ Len(z) = (IF n - kept > 0 THEN n - kept ELSE 0)
          /\ \A k \in 1 .. n - kept : z[k] = Vec!Zero
      BY <3>1, ZerosAre
    <3>. HIDE DEF z
    <3>. QED
      BY <3>1, <3>2
  <2>7. b = Vec!Write(a, v.size, z) /\ h = [block |-> b, size |-> n, capacity |-> c]
    BY Zenon DEF h
  <2>. HIDE DEF kept, a, z, b
  <2>8. /\ b \in Seq(Values) /\ Len(b) = Len(a)
        /\ \A k \in 1 .. Len(a) : b[k] = IF v.size < k /\ k <= v.size + (n - kept) THEN z[k - v.size] ELSE a[k]
    <3>1. v.size \in Int
      BY <2>3
    <3>. QED
      BY <2>5, <2>6, <2>7, <3>1, VecWrite
  <2>9. VecOk(h) /\ h.block = b /\ h.size = n /\ h.capacity = c
    <3>1. c = 0 => b = << >>
      <4>. SUFFICES ASSUME c = 0 PROVE b = << >>
        OBVIOUS
      <4>1. Len(b) = 0
        BY <2>5, <2>8, EmptySeq
      <4>. QED
        BY <2>8, <4>1, EmptySeq
    <3>. QED
      BY <2>2, <2>5, <2>7, <2>8, <3>1, VecMade
  <2>10. ASSUME NEW k \in 1 .. n PROVE b[k] = IF k <= v.size THEN v.block[k] ELSE Vec!Zero
    <3>1. k \in 1 .. Len(a)
      BY <2>2, <2>5
    <3>2. CASE k <= v.size
      <4>1. k \in 1 .. kept /\ ~ (v.size < k)
        BY <2>3, <2>4, <3>2
      <4>. QED
        BY <2>5, <2>8, <3>1, <3>2, <4>1
    <3>3. CASE ~ (k <= v.size)
      <4>1. v.size < k /\ k <= v.size + (n - kept) /\ k - v.size \in 1 .. n - kept
        BY <2>3, <2>4, <3>3
      <4>. QED
        BY <2>6, <2>8, <3>1, <3>3, <4>1
    <3>. QED
      BY <3>2, <3>3
  <2>11. /\ list \in Seq(Values) /\ Len(list) = n
         /\ \A k \in 1 .. n : list[k] = IF k <= v.size THEN v.block[k] ELSE Vec!Zero
    BY VecResized
  <2>. HIDE DEF list
  <2>12. Vec!Contents(h) = list
    BY <2>9, <2>10, <2>11, VecList
  <2>13. g.ok /\ g.is = h /\ Vec!Becomes(v, g, list)
    BY <2>1, <2>9, <2>12, VecDone
  <2>. QED
    BY <2>9, <2>10, <2>13 DEF list
<1>. QED
  BY <1>2, <1>3

\* Neither cut nor filled.
LEMMA VecWhole ==
    ASSUME NEW v, VecOk(v)
    PROVE  Vec!First(v, v.size) \o Vec!Fill(v.size - v.size, Vec!Zero) = Vec!Contents(v)
<1>. DEFINE list == Vec!First(v, v.size) \o Vec!Fill(v.size - v.size, Vec!Zero)
<1>1. v.size \in Nat
  BY VecNumbers
<1>2. /\ list \in Seq(Values) /\ Len(list) = v.size
      /\ \A k \in 1 .. v.size : list[k] = IF k <= v.size THEN v.block[k] ELSE Vec!Zero
  BY <1>1, VecResized
<1>. HIDE DEF list
<1>3. \A k \in 1 .. v.size : v.block[k] = list[k]
  BY <1>1, <1>2
<1>4. Vec!Contents(v) = list
  BY <1>2, <1>3, VecList
<1>. QED
  BY <1>4 DEF list

\* Memory is changed, and the elements are not.
Roomy(v, g, n) ==
    /\ VecOk(g.is) /\ Vec!Becomes(v, g, Vec!Contents(v))
    /\ g.ok => /\ g.is.size = v.size /\ g.is.capacity >= n
               /\ \A k \in 1 .. v.size : g.is.block[k] = v.block[k]

LEMMA VecSameSize ==
    ASSUME Limits, NEW v, VecOk(v), NEW c \in Nat, NEW m, NEW g, g = Vec!reallocate(v, v.size, c, m)
    PROVE  Roomy(v, g, c)
<1>1. v.size \in Nat
  BY VecNumbers
<1>2. /\ VecOk(g.is)
      /\ Vec!Becomes(v, g, Vec!First(v, v.size) \o Vec!Fill(v.size - v.size, Vec!Zero))
      /\ g.ok => /\ g.is.size = v.size /\ g.is.capacity = c
                 /\ \A k \in 1 .. v.size : k <= v.size => g.is.block[k] = v.block[k]
  BY <1>1, VecReallocate
<1>3. Vec!Becomes(v, g, Vec!Contents(v))
  BY <1>2, VecWhole
<1>4. \A k \in 1 .. v.size : k <= v.size
  BY <1>1
<1>. QED
  BY <1>2, <1>3, <1>4 DEF Roomy

\* reserve() and ensure_free() make room.
LEMMA VecReserve ==
    ASSUME Limits, NEW v, VecOk(v), NEW n \in Nat, NEW m, NEW g, g = Vec!reserve(v, n, m)
    PROVE  Roomy(v, g, n)
<1>1. CASE n > Limit
  <2>1. g = Vec!Refused(v)
    BY <1>1, Zenon DEF Vec!reserve
  <2>2. VecOk(g.is) /\ ~ g.ok /\ Vec!Becomes(v, g, Vec!Contents(v))
    BY <2>1, VecRefused
  <2>. QED
    BY <2>2, Zenon DEF Roomy
<1>2. CASE ~ (n > Limit)
  <2>. DEFINE c == Vec!Greatest(Vec!Growth(n), v.capacity)
  <2>1. g = Vec!reallocate(v, v.size, c, m)
    BY <1>2, Zenon DEF Vec!reserve
  <2>2. n \in 0 .. Limit
    BY <1>2 DEF Limits
  <2>3. Vec!Growth(n) \in Nat /\ Vec!Growth(n) >= n
    BY <2>2, VecGrowth
  <2>4. v.capacity \in Nat
    BY VecNumbers
  <2>5. c \in Nat /\ c >= n
    BY <2>3, <2>4 DEF Vec!Greatest
  <2>. HIDE DEF c
  <2>6. Roomy(v, g, c)
    BY <2>1, <2>5, VecSameSize
  <2>7. g.ok => g.is.capacity \in Nat
    BY <2>6, VecNumbers DEF Roomy
  <2>. QED
    BY <2>5, <2>6, <2>7 DEF Roomy
<1>. QED
  BY <1>1, <1>2

LEMMA VecEnsure ==
    ASSUME Limits, NEW v, VecOk(v), NEW n \in Nat, NEW m, NEW g, g = Vec!ensure_free(v, n, m)
    PROVE  Roomy(v, g, v.size + n)
<1>1. CASE n <= Limit - v.size
  <2>1. g = Vec!reserve(v, v.size + n, m)
    BY <1>1, Zenon DEF Vec!ensure_free
  <2>2. v.size + n \in Nat
    BY VecNumbers
  <2>. QED
    BY <2>1, <2>2, VecReserve
<1>2. CASE ~ (n <= Limit - v.size)
  <2>1. g = Vec!Refused(v)
    BY <1>2, Zenon DEF Vec!ensure_free
  <2>2. VecOk(g.is) /\ ~ g.ok /\ Vec!Becomes(v, g, Vec!Contents(v))
    BY <2>1, VecRefused
  <2>. QED
    BY <2>2, Zenon DEF Roomy
<1>. QED
  BY <1>1, <1>2

\* Vectors with no elements.
LEMMA NoVec == VecOk(Vec!NoVector) /\ Vec!Contents(Vec!NoVector) = << >>
<1>1. VecOk(Vec!NoVector) /\ Vec!NoVector.size = 0
  BY EmptySeq DEF VecOk, VecType, Vec!is_valid, Vec!NoVector
<1>2. Vec!Contents(Vec!NoVector) \in Seq(Values) /\ Len(Vec!Contents(Vec!NoVector)) = 0
  BY <1>1, VecContents
<1>. QED
  BY <1>1, <1>2, EmptySeq

\* A vector of size 0 has no elements.
LEMMA VecEmpty ==
    ASSUME NEW v, VecOk(v), v.size = 0
    PROVE  Vec!Contents(v) = << >>
<1>1. Vec!Contents(v) \in Seq(Values) /\ Len(Vec!Contents(v)) = 0
  BY VecContents
<1>. QED
  BY <1>1, EmptySeq

LEMMA VecShrink ==
    ASSUME Limits, NEW v, VecOk(v), NEW m, NEW g, g = Vec!shrink_to_fit(v, m)
    PROVE  VecOk(g.is) /\ Vec!Becomes(v, g, Vec!Contents(v))
<1>1. CASE v.size = 0
  <2>1. g = Vec!Done(Vec!NoVector)
    BY <1>1, Zenon DEF Vec!shrink_to_fit
  <2>2. Vec!Contents(Vec!NoVector) = Vec!Contents(v)
    BY <1>1, VecEmpty, NoVec
  <2>. QED
    BY <2>1, <2>2, NoVec, VecDone
<1>2. CASE v.size # 0
  <2>1. g = Vec!reallocate(v, v.size, v.size, m)
    BY <1>2, Zenon DEF Vec!shrink_to_fit
  <2>2. v.size \in Nat
    BY VecNumbers
  <2>3. Roomy(v, g, v.size)
    BY <2>1, <2>2, VecSameSize
  <2>. QED
    BY <2>3 DEF Roomy
<1>. QED
  BY <1>1, <1>2

\* The operations that set the size or the capacity.
LEMMA VecResize ==
    ASSUME Limits, NEW v, VecOk(v), NEW n \in Nat, NEW m, NEW g, g = Vec!resize(v, n, m)
    PROVE  VecOk(g.is) /\ Vec!Becomes(v, g, Vec!First(v, n) \o Vec!Fill(n - v.size, Vec!Zero))
<1>. DEFINE list == Vec!First(v, n) \o Vec!Fill(n - v.size, Vec!Zero)
<1>1. CASE n > Limit
  <2>1. g = Vec!Refused(v)
    BY <1>1, Zenon DEF Vec!resize
  <2>. HIDE DEF list
  <2>2. VecOk(g.is) /\ Vec!Becomes(v, g, list)
    BY <2>1, VecRefused
  <2>. QED
    BY <2>2 DEF list
<1>2. CASE ~ (n > Limit)
  <2>. DEFINE c == IF n > v.capacity THEN Vec!Growth(n) ELSE v.capacity
  <2>1. g = Vec!reallocate(v, n, c, m)
    BY <1>2, Zenon DEF Vec!resize
  <2>2. n \in 0 .. Limit
    BY <1>2 DEF Limits
  <2>3. c \in Nat
    BY <2>2, VecGrowth, VecNumbers
  <2>. HIDE DEF c
  <2>. QED
    BY <2>1, <2>3, VecReallocate
<1>. QED
  BY <1>1, <1>2

LEMMA VecAllocate ==
    ASSUME Limits, NEW v, VecOk(v), NEW n \in Nat, NEW m, NEW g, g = Vec!allocate(v, n, m)
    PROVE  VecOk(g.is) /\ Vec!Becomes(v, g, << >>)
<1>0. /\ v \in VecType /\ v.block \in Seq(Values) /\ v.capacity \in Nat
      /\ Len(v.block) \in Nat /\ v.capacity <= Len(v.block)
      /\ v.capacity <= Limit \/ v.capacity = 0
      /\ v.capacity = 0 => v.block = << >>
  BY VecNumbers
<1>1. CASE n = v.capacity
  <2>. DEFINE h == [v EXCEPT !.size = 0]
              z == 0
  <2>1. g = Vec!Done(h)
    BY <1>1, Zenon DEF Vec!allocate
  <2>2. h = [block |-> v.block, size |-> z, capacity |-> v.capacity]
    BY <1>0, VecSized
  <2>. HIDE DEF h
  <2>3. z \in Nat /\ z <= v.capacity /\ v.capacity <= Limit /\ z = 0
    BY <1>0 DEF Limits
  <2>. HIDE DEF z
  <2>4. VecOk(h) /\ h.size = z
    BY <1>0, <2>2, <2>3, VecMade
  <2>5. Vec!Contents(h) = << >>
    BY <2>3, <2>4, VecEmpty
  <2>. QED
    BY <2>1, <2>4, <2>5, VecDone
<1>2. CASE n # v.capacity /\ n <= Limit /\ (n = 0 \/ m)
  <2>. DEFINE b == Vec!Block(n)
              h == [block |-> b, size |-> 0, capacity |-> n]
              z == 0
  <2>1. g = Vec!Done(h)
    BY <1>2, Zenon DEF Vec!allocate
  <2>2. b \in Seq(Values) /\ Len(b) = n /\ (n = 0 => b = << >>)
    <3>1. b \in Seq(Values) /\ Len(b) = n
      BY VecBlock
    <3>. HIDE DEF b
    <3>. QED
      BY <3>1, EmptySeq
  <2>3. h = [block |-> b, size |-> z, capacity |-> n]
    BY Zenon
  <2>4. z \in Nat /\ z <= n /\ z = 0 /\ n <= Len(b)
    BY <2>2
  <2>. HIDE DEF h, z, b
  <2>5. VecOk(h) /\ h.size = z
    BY <1>2, <2>2, <2>3, <2>4, VecMade
  <2>6. Vec!Contents(h) = << >>
    BY <2>4, <2>5, VecEmpty
  <2>. QED
    BY <2>1, <2>5, <2>6, VecDone
<1>3. CASE n # v.capacity /\ ~ (n <= Limit /\ (n = 0 \/ m))
  <2>1. g = Vec!Refused(v)
    BY <1>3, Zenon DEF Vec!allocate
  <2>. QED
    BY <2>1, VecRefused
<1>. QED
  BY <1>1, <1>2, <1>3

LEMMA VecSetSize ==
    ASSUME Limits, NEW v, VecOk(v), NEW n \in Nat, NEW g, g = Vec!set_size(v, n)
    PROVE  VecOk(g.is)
<1>0. /\ v \in VecType /\ v.block \in Seq(Values) /\ v.capacity \in Nat
      /\ Len(v.block) \in Nat /\ v.capacity <= Len(v.block)
      /\ v.capacity <= Limit \/ v.capacity = 0
      /\ v.capacity = 0 => v.block = << >>
  BY VecNumbers
<1>1. CASE n <= v.capacity
  <2>. DEFINE h == [v EXCEPT !.size = n]
  <2>1. g = Vec!Done(h)
    BY <1>1, Zenon DEF Vec!set_size
  <2>2. h = [block |-> v.block, size |-> n, capacity |-> v.capacity]
    BY <1>0, VecSized
  <2>. HIDE DEF h
  <2>3. v.capacity <= Limit
    BY <1>0 DEF Limits
  <2>4. VecOk(h)
    BY <1>0, <1>1, <2>2, <2>3, VecMade
  <2>5. g.is = h
    BY <2>1 DEF Vec!Done
  <2>. QED
    BY <2>4, <2>5
<1>2. CASE ~ (n <= v.capacity)
  <2>1. g = Vec!Refused(v)
    BY <1>2, Zenon DEF Vec!set_size
  <2>. QED
    BY <2>1, VecRefused
<1>. QED
  BY <1>1, <1>2

\* A vector for which room was made.
LEMMA VecRoom ==
    ASSUME NEW v, VecOk(v), NEW g, NEW n \in Nat, Roomy(v, g, v.size + n), g.ok, NEW w, w = g.is
    PROVE  /\ VecOk(w) /\ w \in VecType /\ w.block \in Seq(Values) /\ w.size = v.size /\ v.size \in Nat
           /\ w.capacity \in Nat /\ Len(w.block) \in Nat
           /\ v.size + n <= w.capacity /\ w.capacity <= Len(w.block) /\ v.size + n <= Len(w.block)
           /\ w.capacity <= Limit \/ w.capacity = 0
           /\ w.capacity = 0 => w.block = << >>
           /\ \A k \in 1 .. v.size : w.block[k] = v.block[k]
<1>1. VecOk(w) /\ w.size = v.size /\ w.capacity >= v.size + n /\ \A k \in 1 .. v.size : w.block[k] = v.block[k]
  BY DEF Roomy
<1>2. /\ w \in VecType /\ w.block \in Seq(Values) /\ w.capacity \in Nat /\ Len(w.block) \in Nat
      /\ w.capacity <= Len(w.block) /\ (w.capacity <= Limit \/ w.capacity = 0)
      /\ w.capacity = 0 => w.block = << >>
  BY <1>1, VecNumbers
<1>3. v.size \in Nat
  BY VecNumbers
<1>. QED
  BY <1>1, <1>2, <1>3

LEMMA VecRoomed ==
    ASSUME NEW v, VecOk(v), NEW g, NEW n \in Nat, Roomy(v, g, v.size + n), g.ok
    PROVE  g.is \in VecType /\ g.is.size = v.size /\ g.is.block \in Seq(Values)
<1>. DEFINE w == g.is
<1>1. w = g.is
  OBVIOUS
<1>. HIDE DEF w
<1>2. w \in VecType /\ w.size = v.size /\ w.block \in Seq(Values)
  BY <1>1, VecRoom
<1>. QED
  BY <1>1, <1>2

\* It takes n more elements.
LEMMA VecGrown ==
    ASSUME Limits, NEW v, VecOk(v), NEW g, NEW n \in Nat, Roomy(v, g, v.size + n), g.ok, NEW w, w = g.is,
           NEW b \in Seq(Values), Len(b) = Len(w.block),
           NEW h, h = [block |-> b, size |-> v.size + n, capacity |-> w.capacity]
    PROVE  VecOk(h) /\ h.block = b /\ h.size = v.size + n /\ h.capacity = w.capacity
<1>1. /\ w.size = v.size /\ v.size \in Nat /\ w.block \in Seq(Values)
      /\ w.capacity \in Nat /\ Len(w.block) \in Nat
      /\ v.size + n <= w.capacity /\ w.capacity <= Len(w.block)
      /\ w.capacity <= Limit \/ w.capacity = 0
      /\ w.capacity = 0 => w.block = << >>
  BY VecRoom
<1>2. w.capacity = 0 => b = << >>
  <2>. SUFFICES ASSUME w.capacity = 0 PROVE b = << >>
    OBVIOUS
  <2>1. Len(b) = 0
    BY <1>1, EmptySeq
  <2>. QED
    BY <2>1, EmptySeq
<1>3. v.size + n \in Nat /\ w.capacity <= Limit /\ w.capacity <= Len(b)
  BY <1>1 DEF Limits
<1>. QED
  BY <1>1, <1>2, <1>3, VecMade

\* The list of a vector with items behind its elements.
LEMMA VecAfter ==
    ASSUME NEW v, VecOk(v), NEW s \in Seq(Values)
    PROVE  LET list == Vec!Contents(v) \o s IN
           /\ list \in Seq(Values) /\ Len(list) = v.size + Len(s)
           /\ \A k \in 1 .. v.size + Len(s) : list[k] = IF k <= v.size THEN v.block[k] ELSE s[k - v.size]
<1>. DEFINE c == Vec!Contents(v)
            list == c \o s
<1>1. c \in Seq(Values) /\ Len(c) = v.size /\ \A k \in 1 .. v.size : c[k] = v.block[k]
  BY VecContents
<1>2. v.size \in Nat
  BY VecNumbers
<1>. HIDE DEF c
<1>3. /\ list \in Seq(Values) /\ Len(list) = Len(c) + Len(s)
      /\ \A k \in 1 .. Len(c) + Len(s) : list[k] = IF k <= Len(c) THEN c[k] ELSE s[k - Len(c)]
  BY <1>1, Two
<1>. HIDE DEF list
<1>4. \A k \in 1 .. v.size + Len(s) : k <= v.size => k \in 1 .. v.size
  BY <1>2
<1>. QED
  BY <1>1, <1>3, <1>4 DEF list, c

\* Elements written behind those of a vector.
LEMMA VecPut ==
    ASSUME Limits, NEW v, VecOk(v), NEW g, NEW s \in Seq(Values), Roomy(v, g, v.size + Len(s)), g.ok,
           NEW w, w = g.is, NEW b, b = Vec!Write(w.block, v.size, s),
           NEW h, h = [block |-> b, size |-> v.size + Len(s), capacity |-> w.capacity]
    PROVE  VecOk(h) /\ Vec!Contents(h) = Vec!Contents(v) \o s
<1>. DEFINE n == Len(s)
<1>0. n \in Nat
  BY LenProperties
<1>r. Roomy(v, g, v.size + n) /\ n = Len(s) /\ b = Vec!Write(w.block, v.size, s)
  OBVIOUS
<1>. HIDE DEF n
<1>1. /\ w.block \in Seq(Values) /\ w.size = v.size /\ v.size \in Nat /\ v.size \in Int /\ Len(w.block) \in Nat
      /\ v.size + n <= Len(w.block) /\ \A k \in 1 .. v.size : w.block[k] = v.block[k]
  BY <1>0, <1>r, VecRoom
<1>2. /\ b \in Seq(Values) /\ Len(b) = Len(w.block)
      /\ \A k \in 1 .. Len(w.block) :
            b[k] = IF v.size < k /\ k <= v.size + n THEN s[k - v.size] ELSE w.block[k]
  <2>. DEFINE a == w.block
              z == v.size
  <2>1. a \in Seq(Values) /\ z \in Int /\ b = Vec!Write(a, z, s)
    BY <1>1, <1>r
  <2>. HIDE DEF a, z
  <2>2. /\ b \in Seq(Values) /\ Len(b) = Len(a)
        /\ \A k \in 1 .. Len(a) : b[k] = IF z < k /\ k <= z + Len(s) THEN s[k - z] ELSE a[k]
    BY <2>1, VecWrite
  <2>. QED
    BY <1>r, <2>2 DEF a, z
<1>3. VecOk(h) /\ h.block = b /\ h.size = v.size + n
  BY <1>0, <1>r, <1>2, VecGrown
<1>. DEFINE list == Vec!Contents(v) \o s
<1>4. /\ list \in Seq(Values) /\ Len(list) = v.size + n
      /\ \A k \in 1 .. v.size + n : list[k] = IF k <= v.size THEN v.block[k] ELSE s[k - v.size]
  BY <1>r, VecAfter
<1>. HIDE DEF list
<1>5. ASSUME NEW k \in 1 .. v.size + n PROVE b[k] = list[k]
  <2>1. k \in 1 .. Len(w.block) /\ k <= v.size + n /\ (k <= v.size => k \in 1 .. v.size)
        /\ (k <= v.size <=> ~ (v.size < k))
    BY <1>0, <1>1
  <2>. QED
    BY <1>1, <1>2, <1>4, <2>1
<1>6. Vec!Contents(h) = list
  BY <1>3, <1>4, <1>5, VecList
<1>. QED
  BY <1>3, <1>6 DEF list

\* The operations at the back.
LEMMA VecPushBack ==
    ASSUME Limits, NEW v, VecOk(v), NEW s \in Seq(Values), NEW m, NEW g, g = Vec!push_back(v, s, m)
    PROVE  VecOk(g.is) /\ Vec!Becomes(v, g, Vec!Contents(v) \o s)
<1>. DEFINE e == Vec!ensure_free(v, Len(s), m)
            w == e.is
            b == Vec!Write(w.block, v.size, s)
            h == [w EXCEPT !.block = b, !.size = @ + Len(s)]
            list == Vec!Contents(v) \o s
<1>0. g = IF s = << >> THEN Vec!Done(v) ELSE IF ~e.ok THEN Vec!Refused(v) ELSE Vec!Done(h)
  BY Zenon DEF Vec!push_back
<1>n. Len(s) \in Nat
  BY LenProperties
<1>1. Roomy(v, e, v.size + Len(s))
  BY <1>n, VecEnsure
<1>. HIDE DEF e, h
<1>2. CASE s = << >>
  <2>1. g = Vec!Done(v)
    BY <1>0, <1>2, Zenon
  <2>2. Vec!Contents(v) \in Seq(Values)
    BY VecContents
  <2>3. Vec!Contents(v) \o s = Vec!Contents(v)
    BY <1>2, <2>2, ConcatEmptySeq
  <2>. QED
    BY <2>1, <2>3, VecDone
<1>3. CASE s # << >> /\ ~ e.ok
  <2>1. g = Vec!Refused(v)
    BY <1>0, <1>3, Zenon
  <2>. HIDE DEF list
  <2>2. VecOk(g.is) /\ Vec!Becomes(v, g, list)
    BY <2>1, VecRefused
  <2>. QED
    BY <2>2 DEF list
<1>4. CASE s # << >> /\ e.ok
  <2>1. g = Vec!Done(h)
    BY <1>0, <1>4, Zenon
  <2>2. w \in VecType /\ w.size = v.size
    BY <1>1, <1>4, <1>n, VecRoom
  <2>3. h = [block |-> b, size |-> v.size + Len(s), capacity |-> w.capacity]
    <3>1. h = [block |-> b, size |-> w.size + Len(s), capacity |-> w.capacity]
      <4>. HIDE DEF w, b
      <4>. QED
        BY <2>2, VecBack DEF h
    <3>. QED
      BY <2>2, <3>1
  <2>. HIDE DEF list
  <2>4. VecOk(h) /\ Vec!Contents(h) = list
    BY <1>1, <1>4, <2>3, VecPut DEF list
  <2>5. g.is = h /\ Vec!Becomes(v, g, list)
    BY <2>1, <2>4, VecDone
  <2>. QED
    BY <2>4, <2>5 DEF list
<1>. QED
  BY <1>2, <1>3, <1>4

LEMMA VecTryPushBack ==
    ASSUME Limits, NEW v, VecOk(v), NEW s \in Seq(Values), NEW m, NEW g, g = Vec!try_push_back(v, s, m)
    PROVE  /\ VecOk(g.is)
           /\ Vec!Becomes(v, g, Vec!Contents(v) \o SubSeq(s, 1, Vec!Least(Len(s), v.capacity - v.size)))
<1>. DEFINE n == Vec!Least(Len(s), v.capacity - v.size)
            t == SubSeq(s, 1, n)
<1>1. n \in Nat /\ n <= Len(s)
  <2>1. v.capacity \in Nat /\ v.size \in Nat /\ v.size <= v.capacity /\ Len(s) \in Nat
    BY VecNumbers, LenProperties
  <2>. QED
    BY <2>1 DEF Vec!Least
<1>2. g = Vec!push_back(v, t, m)
  BY Zenon DEF Vec!try_push_back
<1>. HIDE DEF n
<1>3. t \in Seq(Values)
  <2>1. \A i \in Nat : i + n <= Len(s) => Slice(s, i, n) \in Seq(Values)
    BY <1>1, SlicesAre
  <2>2. 0 \in Nat /\ 0 + n <= Len(s) /\ 0 + 1 = 1 /\ 0 + n = n
    BY <1>1
  <2>3. Slice(s, 0, n) = t
    BY <2>2 DEF Slice
  <2>. QED
    BY <2>1, <2>2, <2>3
<1>. HIDE DEF t
<1>4. VecOk(g.is) /\ Vec!Becomes(v, g, Vec!Contents(v) \o t)
  BY <1>2, <1>3, VecPushBack
<1>. QED
  BY <1>4 DEF t, n

LEMMA VecPushUninit ==
    ASSUME Limits, NEW v, VecOk(v), NEW n \in Nat, NEW m, NEW g, g = Vec!push_back_uninit(v, n, m)
    PROVE  LET e == Vec!ensure_free(v, n, m) IN
           /\ VecOk(g.is)
           /\ g = Vec!Refused(v) \/ (/\ e.ok /\ Roomy(v, e, v.size + n)
                                     /\ g = Vec!Done([block |-> e.is.block, size |-> v.size + n,
                                                      capacity |-> e.is.capacity]))
<1>. DEFINE e == Vec!ensure_free(v, n, m)
            w == e.is
            h == [w EXCEPT !.size = @ + n]
<1>0. g = IF n # 0 /\ e.ok THEN Vec!Done(h) ELSE Vec!Refused(v)
  BY Zenon DEF Vec!push_back_uninit
<1>1. Roomy(v, e, v.size + n)
  BY VecEnsure
<1>. HIDE DEF e, h
<1>2. CASE ~ (n # 0 /\ e.ok)
  <2>1. g = Vec!Refused(v)
    BY <1>0, <1>2, Zenon
  <2>. QED
    BY <2>1, VecRefused
<1>3. CASE n # 0 /\ e.ok
  <2>1. g = Vec!Done(h)
    BY <1>0, <1>3, Zenon
  <2>2. w \in VecType /\ w.size = v.size /\ w.block \in Seq(Values)
    <3>1. w = e.is /\ Roomy(v, e, v.size + n) /\ e.ok
      BY <1>1, <1>3
    <3>. HIDE DEF w
    <3>1a. e.is \in VecType /\ e.is.size = v.size /\ e.is.block \in Seq(Values)
      BY <3>1, VecRoomed, Zenon
    <3>. QED
      BY <3>1, <3>1a, Zenon
  <2>3. h = [block |-> w.block, size |-> v.size + n, capacity |-> w.capacity]
    <3>1. h = [block |-> w.block, size |-> w.size + n, capacity |-> w.capacity]
      <4>. HIDE DEF w
      <4>. QED
        BY <2>2, VecSized DEF h
    <3>. QED
      BY <2>2, <3>1
  <2>4. VecOk(h)
    BY <1>1, <1>3, <2>2, <2>3, VecGrown
  <2>5. g.is = h
    BY <2>1 DEF Vec!Done
  <2>. QED
    BY <1>1, <1>3, <2>1, <2>3, <2>4, <2>5 DEF e
<1>. QED
  BY <1>2, <1>3

LEMMA VecPushZeroed ==
    ASSUME Limits, NEW v, VecOk(v), NEW n \in Nat, NEW m, NEW g, g = Vec!push_back_zeroed(v, n, m)
    PROVE  VecOk(g.is) /\ Vec!Becomes(v, g, Vec!Contents(v) \o Vec!Fill(n, Vec!Zero))
<1>. DEFINE p == Vec!push_back_uninit(v, n, m)
            e == Vec!ensure_free(v, n, m)
            w == e.is
            u == [block |-> w.block, size |-> v.size + n, capacity |-> w.capacity]
            s == Vec!Fill(n, Vec!Zero)
            b == Vec!Write(w.block, v.size, s)
            h == [block |-> b, size |-> v.size + n, capacity |-> w.capacity]
            list == Vec!Contents(v) \o s
<1>0. g = IF p.ok THEN Vec!Done([p.is EXCEPT !.block = Vec!Write(@, v.size, s)]) ELSE p
  BY Zenon DEF Vec!push_back_zeroed
<1>1. p = Vec!Refused(v) \/ (e.ok /\ Roomy(v, e, v.size + n) /\ p = Vec!Done(u))
  BY VecPushUninit
<1>s. s \in Seq(Values) /\ Len(s) = n
  <2>1. n \in Int /\ (IF n > 0 THEN n ELSE 0) = n
    OBVIOUS
  <2>2. s \in Seq(Values) /\ Len(s) = IF n > 0 THEN n ELSE 0
    BY <2>1, ZerosAre
  <2>. HIDE DEF s
  <2>. QED
    BY <2>1, <2>2
<1>. HIDE DEF p, e, s
<1>2. CASE p = Vec!Refused(v)
  <2>1. ~ p.ok
    BY <1>2 DEF Vec!Refused
  <2>2. g = Vec!Refused(v)
    BY <1>0, <1>2, <2>1, Zenon
  <2>. HIDE DEF list
  <2>3. VecOk(g.is) /\ Vec!Becomes(v, g, list)
    BY <2>2, VecRefused
  <2>. QED
    BY <2>3 DEF list, s
<1>3. CASE e.ok /\ Roomy(v, e, v.size + n) /\ p = Vec!Done(u)
  <2>1. p.ok /\ p.is = u
    BY <1>3 DEF Vec!Done
  <2>2. g = Vec!Done([u EXCEPT !.block = Vec!Write(u.block, v.size, s)])
    <3>. HIDE DEF u
    <3>. QED
      BY <1>0, <2>1, Zenon
  <2>3. [u EXCEPT !.block = Vec!Write(u.block, v.size, s)] = h
    OBVIOUS
  <2>4. g = Vec!Done(h)
    BY <2>2, <2>3, Zenon
  <2>5. VecOk(h) /\ Vec!Contents(h) = list
    <3>1. /\ Roomy(v, e, v.size + Len(s)) /\ h = [block |-> b, size |-> v.size + Len(s), capacity |-> w.capacity]
          /\ e.ok /\ w = e.is /\ b = Vec!Write(w.block, v.size, s) /\ s \in Seq(Values)
      BY <1>3, <1>s
    <3>. HIDE DEF h, b, w
    <3>. QED
      BY <3>1, VecPut
  <2>. HIDE DEF h, list
  <2>6. g.is = h /\ Vec!Becomes(v, g, list)
    BY <2>4, <2>5, VecDone
  <2>. QED
    BY <2>5, <2>6 DEF list, s
<1>. QED
  BY <1>1, <1>2, <1>3

\* The elements from an index on are moved up.
Opens(v, g, n, i, a) ==
    /\ a \in Seq(Values) /\ Len(a) = Len(g.is.block) /\ v.size + n <= Len(a)
    /\ \A k \in 1 .. v.size + n : /\ k <= i => a[k] = v.block[k]
                                  /\ k > i + n => a[k] = v.block[k - n]

LEMMA VecOpens ==
    ASSUME NEW v, VecOk(v), NEW g, NEW n \in Nat, Roomy(v, g, v.size + n), g.ok,
           NEW i \in Nat, i <= v.size, NEW a, a = Vec!Opened(g.is, i, n)
    PROVE  Opens(v, g, n, i, a)
<1>. DEFINE w == g.is
            c == w.block
            to == i + n
            z == w.size - i
<1>1. /\ c \in Seq(Values) /\ w.size = v.size /\ v.size \in Nat /\ Len(c) \in Nat
      /\ v.size + n <= Len(c) /\ \A k \in 1 .. v.size : c[k] = v.block[k]
  <2>. HIDE DEF w
  <2>1. w = g.is
    BY DEF w
  <2>2. /\ w.block \in Seq(Values) /\ w.size = v.size /\ v.size \in Nat /\ Len(w.block) \in Nat
        /\ v.size + n <= Len(w.block) /\ \A k \in 1 .. v.size : w.block[k] = v.block[k]
    BY <2>1, VecRoom
  <2>. QED
    BY <2>2
<1>2. a = Vec!memmove(c, to, c, i, z)
  BY Zenon DEF Vec!Opened
<1>3. to \in Int /\ to = i + n /\ z \in Nat /\ z = v.size - i /\ i + z <= Len(c)
  BY <1>1
<1>4. Len(c) = Len(g.is.block)
  BY Zenon
<1>. HIDE DEF w, c, to, z
<1>5. /\ a \in Seq(Values) /\ Len(a) = Len(c)
      /\ \A k \in 1 .. Len(c) : a[k] = IF to < k /\ k <= to + z THEN c[i + (k - to)] ELSE c[k]
  <2>1. c \in Seq(Values) /\ to \in Int /\ i \in Nat /\ z \in Nat /\ i + z <= Len(c)
    BY <1>1, <1>3
  <2>2. /\ Vec!memmove(c, to, c, i, z) \in Seq(Values) /\ Len(Vec!memmove(c, to, c, i, z)) = Len(c)
        /\ \A k \in 1 .. Len(c) :
              Vec!memmove(c, to, c, i, z)[k] = IF to < k /\ k <= to + z THEN c[i + (k - to)] ELSE c[k]
    BY <2>1, VecMoves, Zenon
  <2>. QED
    BY <1>2, <2>2, Zenon
<1>6. ASSUME NEW k \in 1 .. v.size + n
      PROVE  (k <= i => a[k] = v.block[k]) /\ (k > i + n => a[k] = v.block[k - n])
  <2>1. k \in 1 .. Len(c)
    BY <1>1
  <2>2. ASSUME k <= i PROVE a[k] = v.block[k]
    <3>1. ~ (to < k) /\ k \in 1 .. v.size
      BY <1>1, <1>3, <2>2
    <3>. QED
      BY <1>1, <1>5, <2>1, <3>1
  <2>3. ASSUME k > i + n PROVE a[k] = v.block[k - n]
    <3>1. to < k /\ k <= to + z /\ i + (k - to) = k - n /\ k - n \in 1 .. v.size
      BY <1>1, <1>3, <2>3
    <3>. QED
      BY <1>1, <1>5, <2>1, <3>1
  <2>. QED
    BY <2>2, <2>3
<1>7. Len(a) = Len(g.is.block) /\ v.size + n <= Len(a)
  BY <1>1, <1>4, <1>5
<1>8. \A k \in 1 .. v.size + n : (k <= i => a[k] = v.block[k]) /\ (k > i + n => a[k] = v.block[k - n])
  BY <1>6, Zenon
<1>9. a \in Seq(Values)
  BY <1>5
<1>. QED
  BY <1>7, <1>8, <1>9, Zenon DEF Opens

LEMMA VecOpened ==
    \A v, g : \A n, i \in Nat :
       VecOk(v) /\ Roomy(v, g, v.size + n) /\ g.ok /\ i <= v.size => Opens(v, g, n, i, Vec!Opened(g.is, i, n))
<1>1. ASSUME NEW v, NEW g, NEW n \in Nat, NEW i \in Nat,
             VecOk(v), Roomy(v, g, v.size + n), g.ok, i <= v.size
      PROVE  Opens(v, g, n, i, Vec!Opened(g.is, i, n))
  <2>. DEFINE a == Vec!Opened(g.is, i, n)
  <2>1. a = Vec!Opened(g.is, i, n)
    OBVIOUS
  <2>. HIDE DEF a
  <2>2. Opens(v, g, n, i, a)
    BY <1>1, <2>1, VecOpens
  <2>. QED
    BY <2>2 DEF a
<1>. QED
  BY <1>1, Zenon

\* The list of a vector with items among its elements.
Among(v, i, s, k) ==
    IF k <= i THEN v.block[k] ELSE IF k <= i + Len(s) THEN s[k - i] ELSE v.block[k - Len(s)]

LEMMA VecAmong ==
    ASSUME NEW v, VecOk(v), NEW i \in Nat, i <= v.size, NEW s \in Seq(Values)
    PROVE  LET list == Vec!First(v, i) \o s \o Vec!From(v, i) IN
           /\ list \in Seq(Values) /\ Len(list) = v.size + Len(s)
           /\ \A k \in 1 .. v.size + Len(s) : list[k] = Among(v, i, s, k)
<1>. DEFINE p == Vec!First(v, i)
            q == Vec!From(v, i)
            ps == p \o s
            list == ps \o q
            n == Len(s)
<1>0. v.size \in Nat /\ n \in Nat /\ n = Len(s)
  BY VecNumbers, LenProperties
<1>1. p \in Seq(Values) /\ Len(p) = i /\ \A k \in 1 .. i : p[k] = v.block[k]
  <2>1. \A c : c = (IF i <= v.size THEN i ELSE v.size) =>
          p \in Seq(Values) /\ Len(p) = c /\ \A k \in 1 .. c : p[k] = v.block[k]
    BY VecFirst
  <2>. HIDE DEF p
  <2>. QED
    BY <2>1
<1>2. q \in Seq(Values) /\ Len(q) = v.size - i /\ \A k \in 1 .. v.size - i : q[k] = v.block[i + k]
  BY VecFrom
<1>. HIDE DEF p, q, n
<1>3. /\ ps \in Seq(Values) /\ Len(ps) = i + n
      /\ \A k \in 1 .. i + n : ps[k] = IF k <= i THEN p[k] ELSE s[k - i]
  <2>1. /\ ps \in Seq(Values) /\ Len(ps) = Len(p) + Len(s)
        /\ \A k \in 1 .. Len(p) + Len(s) : ps[k] = IF k <= Len(p) THEN p[k] ELSE s[k - Len(p)]
    BY <1>1, Two
  <2>. HIDE DEF ps
  <2>. QED
    BY <1>0, <1>1, <2>1
<1>. HIDE DEF ps
<1>4. /\ list \in Seq(Values) /\ Len(list) = v.size + n
      /\ \A k \in 1 .. v.size + n : list[k] = IF k <= i + n THEN ps[k] ELSE q[k - (i + n)]
  <2>1. /\ list \in Seq(Values) /\ Len(list) = Len(ps) + Len(q)
        /\ \A k \in 1 .. Len(ps) + Len(q) : list[k] = IF k <= Len(ps) THEN ps[k] ELSE q[k - Len(ps)]
    BY <1>2, <1>3, Two
  <2>2. (i + n) + (v.size - i) = v.size + n
    BY <1>0
  <2>. HIDE DEF list
  <2>. QED
    BY <1>2, <1>3, <2>1, <2>2
<1>. HIDE DEF list
<1>5. ASSUME NEW k \in 1 .. v.size + n PROVE list[k] = Among(v, i, s, k)
  <2>1. Among(v, i, s, k) = IF k <= i THEN v.block[k] ELSE IF k <= i + n THEN s[k - i] ELSE v.block[k - n]
    BY <1>0, Zenon DEF Among
  <2>2. CASE k <= i
    <3>1. k \in 1 .. i /\ k \in 1 .. i + n /\ k <= i + n
      BY <1>0, <2>2
    <3>. QED
      BY <1>1, <1>3, <1>4, <2>1, <2>2, <3>1
  <2>3. CASE ~ (k <= i) /\ k <= i + n
    <3>1. k \in 1 .. i + n
      BY <1>0, <2>3
    <3>. QED
      BY <1>3, <1>4, <2>1, <2>3, <3>1
  <2>4. CASE ~ (k <= i) /\ ~ (k <= i + n)
    <3>1. k - (i + n) \in 1 .. v.size - i /\ i + (k - (i + n)) = k - n
      BY <1>0, <2>4
    <3>. QED
      BY <1>2, <1>4, <2>1, <2>4, <3>1
  <2>. QED
    BY <2>2, <2>3, <2>4
<1>. QED
  BY <1>0, <1>4, <1>5 DEF list, ps, p, q

\* A vector of its three fields.
Record(b, z, c) == [block |-> b, size |-> z, capacity |-> c]
Grown(h, b, z) == VecOk(h) /\ h.block = b /\ h.size = z

\* A grown vector, as one fact.
LEMMA VecGrows ==
    ASSUME Limits
    PROVE  \A v, g : \A n \in Nat, b \in Seq(Values) :
              VecOk(v) /\ Roomy(v, g, v.size + n) /\ g.ok /\ Len(b) = Len(g.is.block) =>
                Grown(Record(b, v.size + n, g.is.capacity), b, v.size + n)
<1>1. ASSUME NEW v, NEW g, NEW n \in Nat, NEW b \in Seq(Values),
             VecOk(v), Roomy(v, g, v.size + n), g.ok, Len(b) = Len(g.is.block)
      PROVE  Grown(Record(b, v.size + n, g.is.capacity), b, v.size + n)
  <2>. DEFINE w == g.is
              h == Record(b, v.size + n, w.capacity)
  <2>1. w = g.is /\ h = [block |-> b, size |-> v.size + n, capacity |-> w.capacity] /\ Len(b) = Len(w.block)
    BY <1>1, Zenon DEF Record
  <2>. HIDE DEF w, h
  <2>2. VecOk(h) /\ h.block = b /\ h.size = v.size + n
    BY <1>1, <2>1, VecGrown
  <2>. QED
    BY <2>2, Zenon DEF Grown, w, h
<1>. QED
  BY <1>1, Zenon

\* h is v with the items s at an index.
IsWith(h, v, i, s) == VecOk(h) /\ Vec!Contents(h) = Vec!First(v, i) \o s \o Vec!From(v, i)

\* Items written where the elements were moved up.
LEMMA VecPutIn ==
    ASSUME Limits, NEW v, VecOk(v), NEW g, NEW s \in Seq(Values), Roomy(v, g, v.size + Len(s)), g.ok,
           NEW i \in Nat, i <= v.size,
           NEW a, a = Vec!Opened(g.is, i, Len(s)), NEW b, b = Vec!Write(a, i, s),
           NEW h, h = [block |-> b, size |-> v.size + Len(s), capacity |-> g.is.capacity]
    PROVE  IsWith(h, v, i, s)
<1>. DEFINE n == Len(s)
            w == g.is
<1>0. n \in Nat /\ v.size \in Nat
  BY LenProperties, VecNumbers
<1>r. /\ Roomy(v, g, v.size + n) /\ n = Len(s) /\ a = Vec!Opened(g.is, i, n) /\ w = g.is
      /\ h = [block |-> b, size |-> v.size + n, capacity |-> w.capacity]
  OBVIOUS
<1>. HIDE DEF n, w
<1>1. /\ a \in Seq(Values) /\ Len(a) = Len(g.is.block) /\ v.size + n <= Len(a)
      /\ \A k \in 1 .. v.size + n : /\ k <= i => a[k] = v.block[k]
                                    /\ k > i + n => a[k] = v.block[k - n]
  <2>1. Opens(v, g, n, i, a)
    BY <1>0, <1>r, VecOpened, Zenon
  <2>. QED
    BY <2>1, Zenon DEF Opens
<1>2. /\ b \in Seq(Values) /\ Len(b) = Len(a)
      /\ \A k \in 1 .. Len(a) : b[k] = IF i < k /\ k <= i + n THEN s[k - i] ELSE a[k]
  <2>1. i \in Int
    OBVIOUS
  <2>2. /\ b \in Seq(Values) /\ Len(b) = Len(a)
        /\ \A k \in 1 .. Len(a) : b[k] = IF i < k /\ k <= i + Len(s) THEN s[k - i] ELSE a[k]
    BY <1>1, <2>1, VecWrite
  <2>. QED
    BY <1>r, <2>2
<1>3. VecOk(h) /\ h.block = b /\ h.size = v.size + n
  <2>1. Len(b) = Len(w.block)
    BY <1>1, <1>2, <1>r
  <2>2. Roomy(v, g, v.size + n) /\ g.ok /\ Len(b) = Len(g.is.block)
    BY <1>r, <2>1
  <2>3. b \in Seq(Values) /\ n \in Nat
    BY <1>0, <1>2
  <2>4. Grown(Record(b, v.size + n, g.is.capacity), b, v.size + n)
    BY <2>2, <2>3, VecGrows, Zenon
  <2>5. h = Record(b, v.size + n, g.is.capacity)
    BY <1>r DEF Record
  <2>. QED
    BY <2>4, <2>5, Zenon DEF Grown
<1>. DEFINE list == Vec!First(v, i) \o s \o Vec!From(v, i)
<1>4. /\ list \in Seq(Values) /\ Len(list) = v.size + n
      /\ \A k \in 1 .. v.size + n : list[k] = Among(v, i, s, k)
  BY <1>r, VecAmong
<1>. HIDE DEF list
<1>5. ASSUME NEW k \in 1 .. v.size + n PROVE b[k] = list[k]
  <2>1. Among(v, i, s, k) = IF k <= i THEN v.block[k] ELSE IF k <= i + n THEN s[k - i] ELSE v.block[k - n]
    BY <1>r, Zenon DEF Among
  <2>2. Len(a) \in Nat
    BY <1>1, LenProperties
  <2>3. k \in 1 .. Len(a) /\ (k <= i => ~ (i < k)) /\ (~ (k <= i) => i < k)
        /\ (~ (k <= i) /\ ~ (k <= i + n) => k > i + n)
    BY <1>0, <1>1, <2>2
  <2>. QED
    BY <1>1, <1>2, <1>4, <2>1, <2>3
<1>6. Vec!Contents(h) = list
  BY <1>3, <1>4, <1>5, VecList
<1>. QED
  BY <1>3, <1>6 DEF list, IsWith

\* The insertions that keep the order.
LEMMA VecInsert ==
    ASSUME Limits, NEW v, VecOk(v), NEW i \in Nat, NEW s \in Seq(Values), NEW m, NEW g, g = Vec!insert(v, i, s, m)
    PROVE  VecOk(g.is) /\ (i <= v.size => Vec!Becomes(v, g, Vec!First(v, i) \o s \o Vec!From(v, i)))
<1>. DEFINE n == Len(s)
            e == Vec!ensure_free(v, n, m)
            a == Vec!Opened(e.is, i, n)
            b == Vec!Write(a, i, s)
            h == [e.is EXCEPT !.block = b, !.size = @ + n]
            list == Vec!First(v, i) \o s \o Vec!From(v, i)
<1>0. g = IF i > v.size THEN Vec!Refused(v) ELSE IF s = << >> THEN Vec!Done(v)
          ELSE IF ~e.ok THEN Vec!Refused(v) ELSE Vec!Done(h)
  BY Zenon DEF Vec!insert
<1>n. n \in Nat /\ v.size \in Nat /\ n = Len(s)
  BY LenProperties, VecNumbers
<1>1. Roomy(v, e, v.size + n)
  <2>. HIDE DEF n
  <2>. QED
    BY <1>n, VecEnsure
<1>. HIDE DEF e, h, n
<1>2. CASE i > v.size \/ (s # << >> /\ ~ e.ok)
  <2>1. g = Vec!Refused(v)
    BY <1>0, <1>2, Zenon
  <2>. HIDE DEF list
  <2>2. VecOk(g.is) /\ Vec!Becomes(v, g, list)
    BY <2>1, VecRefused
  <2>. QED
    BY <2>2 DEF list
<1>3. CASE ~ (i > v.size) /\ s = << >>
  <2>1. g = Vec!Done(v)
    BY <1>0, <1>3, Zenon
  <2>2. i <= v.size
    BY <1>3, <1>n
  <2>3. n = 0
    BY <1>3, <1>n, EmptySeq
  <2>4. /\ list \in Seq(Values) /\ Len(list) = v.size + n
        /\ \A k \in 1 .. v.size + n : list[k] = Among(v, i, s, k)
    BY <1>n, <2>2, VecAmong
  <2>. HIDE DEF list
  <2>5. ASSUME NEW k \in 1 .. v.size PROVE v.block[k] = list[k]
    <3>1. Among(v, i, s, k) = IF k <= i THEN v.block[k] ELSE IF k <= i + n THEN s[k - i] ELSE v.block[k - n]
      BY <1>n, Zenon DEF Among
    <3>2. k \in 1 .. v.size + n /\ k - n = k /\ (k <= i + n => k <= i)
      BY <1>n, <2>3
    <3>. QED
      BY <2>4, <3>1, <3>2
  <2>6. Len(list) = v.size
    BY <1>n, <2>3, <2>4
  <2>7. Vec!Contents(v) = list
    BY <2>4, <2>5, <2>6, VecList
  <2>8. g.is = v /\ Vec!Becomes(v, g, list)
    BY <2>1, <2>7, VecDone
  <2>. QED
    BY <2>8 DEF list
<1>4. CASE ~ (i > v.size) /\ s # << >> /\ e.ok
  <2>1. g = Vec!Done(h)
    BY <1>0, <1>4, Zenon
  <2>2. i <= v.size
    BY <1>4, <1>n
  <2>3. e.is \in VecType /\ e.is.size = v.size
    BY <1>1, <1>4, <1>n, VecRoomed
  <2>4. h = [block |-> b, size |-> v.size + n, capacity |-> e.is.capacity]
    <3>. HIDE DEF b
    <3>1. h = [block |-> b, size |-> e.is.size + n, capacity |-> e.is.capacity]
      BY <2>3, VecBack DEF h
    <3>. QED
      BY <2>3, <3>1
  <2>. HIDE DEF list
  <2>5. VecOk(h) /\ Vec!Contents(h) = list
    <3>1. /\ a = Vec!Opened(e.is, i, Len(s)) /\ b = Vec!Write(a, i, s) /\ Roomy(v, e, v.size + Len(s))
          /\ h = [block |-> b, size |-> v.size + Len(s), capacity |-> e.is.capacity]
      BY <1>1, <1>n, <2>4
    <3>. HIDE DEF a, b
    <3>2. IsWith(h, v, i, s)
      BY <1>4, <2>2, <3>1, VecPutIn
    <3>. QED
      BY <3>2 DEF IsWith, list
  <2>6. g.is = h /\ Vec!Becomes(v, g, list)
    BY <2>1, <2>5, VecDone
  <2>. QED
    BY <2>5, <2>6 DEF list
<1>. QED
  BY <1>2, <1>3, <1>4

LEMMA VecInsertUninit ==
    ASSUME Limits, NEW v, VecOk(v), NEW i \in Nat, NEW n \in Nat, NEW m,
           NEW g, g = Vec!insert_uninit(v, i, n, m)
    PROVE  LET e == Vec!ensure_free(v, n, m) IN
           /\ VecOk(g.is)
           /\ g = Vec!Refused(v)
                \/ (/\ i <= v.size /\ e.ok /\ Roomy(v, e, v.size + n)
                    /\ g = Vec!Done([block |-> Vec!Opened(e.is, i, n), size |-> v.size + n,
                                     capacity |-> e.is.capacity]))
<1>. DEFINE e == Vec!ensure_free(v, n, m)
            a == Vec!Opened(e.is, i, n)
            h == [e.is EXCEPT !.block = a, !.size = @ + n]
<1>0. g = IF i > v.size \/ n = 0 \/ ~e.ok THEN Vec!Refused(v) ELSE Vec!Done(h)
  BY Zenon DEF Vec!insert_uninit
<1>1. Roomy(v, e, v.size + n)
  BY VecEnsure
<1>n. v.size \in Nat
  BY VecNumbers
<1>. HIDE DEF e, h
<1>2. CASE i > v.size \/ n = 0 \/ ~e.ok
  <2>1. g = Vec!Refused(v)
    BY <1>0, <1>2, Zenon
  <2>. QED
    BY <2>1, VecRefused
<1>3. CASE ~ (i > v.size \/ n = 0 \/ ~e.ok)
  <2>1. g = Vec!Done(h)
    BY <1>0, <1>3, Zenon
  <2>2. i <= v.size /\ e.ok
    BY <1>3, <1>n
  <2>3. e.is \in VecType /\ e.is.size = v.size
    BY <1>1, <2>2, VecRoomed
  <2>4. h = [block |-> a, size |-> v.size + n, capacity |-> e.is.capacity]
    <3>. HIDE DEF a
    <3>1. h = [block |-> a, size |-> e.is.size + n, capacity |-> e.is.capacity]
      BY <2>3, VecBack DEF h
    <3>. QED
      BY <2>3, <3>1
  <2>5. a \in Seq(Values) /\ Len(a) = Len(e.is.block)
    <3>1. a = Vec!Opened(e.is, i, n)
      OBVIOUS
    <3>. HIDE DEF a
    <3>2. Opens(v, e, n, i, a)
      BY <1>1, <2>2, <3>1, VecOpens
    <3>. QED
      BY <3>2 DEF Opens
  <2>6. VecOk(h)
    <3>. DEFINE w == e.is
    <3>1. w = e.is /\ Len(a) = Len(w.block) /\ h = [block |-> a, size |-> v.size + n, capacity |-> w.capacity]
      BY <2>4, <2>5
    <3>. HIDE DEF w, a
    <3>. QED
      BY <1>1, <2>2, <2>5, <3>1, VecGrown
  <2>7. g.is = h
    BY <2>1 DEF Vec!Done
  <2>. QED
    BY <1>1, <2>1, <2>2, <2>4, <2>6, <2>7 DEF e
<1>. QED
  BY <1>2, <1>3

LEMMA VecInsertZeroed ==
    ASSUME Limits, NEW v, VecOk(v), NEW i \in Nat, NEW n \in Nat, NEW m,
           NEW g, g = Vec!insert_zeroed(v, i, n, m)
    PROVE  /\ VecOk(g.is)
           /\ Vec!Becomes(v, g, Vec!First(v, i) \o Vec!Fill(n, Vec!Zero) \o Vec!From(v, i))
<1>. DEFINE p == Vec!insert_uninit(v, i, n, m)
            e == Vec!ensure_free(v, n, m)
            a == Vec!Opened(e.is, i, n)
            u == [block |-> a, size |-> v.size + n, capacity |-> e.is.capacity]
            s == Vec!Fill(n, Vec!Zero)
            b == Vec!Write(a, i, s)
            h == [block |-> b, size |-> v.size + n, capacity |-> e.is.capacity]
            list == Vec!First(v, i) \o s \o Vec!From(v, i)
<1>0. g = IF p.ok THEN Vec!Done([p.is EXCEPT !.block = Vec!Write(@, i, s)]) ELSE p
  BY Zenon DEF Vec!insert_zeroed
<1>1. p = Vec!Refused(v) \/ (i <= v.size /\ e.ok /\ Roomy(v, e, v.size + n) /\ p = Vec!Done(u))
  BY VecInsertUninit
<1>s. s \in Seq(Values) /\ Len(s) = n
  <2>1. n \in Int /\ (IF n > 0 THEN n ELSE 0) = n
    OBVIOUS
  <2>2. s \in Seq(Values) /\ Len(s) = IF n > 0 THEN n ELSE 0
    BY <2>1, ZerosAre
  <2>. HIDE DEF s
  <2>. QED
    BY <2>1, <2>2
<1>. HIDE DEF p, e, s
<1>2. CASE p = Vec!Refused(v)
  <2>1. ~ p.ok
    BY <1>2 DEF Vec!Refused
  <2>2. g = Vec!Refused(v)
    BY <1>0, <1>2, <2>1, Zenon
  <2>. HIDE DEF list
  <2>3. VecOk(g.is) /\ Vec!Becomes(v, g, list)
    BY <2>2, VecRefused
  <2>. QED
    BY <2>3 DEF list, s
<1>3. CASE i <= v.size /\ e.ok /\ Roomy(v, e, v.size + n) /\ p = Vec!Done(u)
  <2>1. p.ok /\ p.is = u
    BY <1>3 DEF Vec!Done
  <2>2. g = Vec!Done([u EXCEPT !.block = Vec!Write(u.block, i, s)])
    <3>. HIDE DEF u
    <3>. QED
      BY <1>0, <2>1, Zenon
  <2>3. [u EXCEPT !.block = Vec!Write(u.block, i, s)] = h
    OBVIOUS
  <2>4. g = Vec!Done(h)
    BY <2>2, <2>3, Zenon
  <2>5. VecOk(h) /\ Vec!Contents(h) = list
    <3>1. /\ a = Vec!Opened(e.is, i, Len(s)) /\ b = Vec!Write(a, i, s) /\ Roomy(v, e, v.size + Len(s))
          /\ h = [block |-> b, size |-> v.size + Len(s), capacity |-> e.is.capacity]
      BY <1>3, <1>s
    <3>. HIDE DEF h, b, a, list
    <3>2. IsWith(h, v, i, s)
      BY <1>3, <1>s, <3>1, VecPutIn
    <3>. QED
      BY <3>2 DEF IsWith, list
  <2>. HIDE DEF h, list
  <2>6. g.is = h /\ Vec!Becomes(v, g, list)
    BY <2>4, <2>5, VecDone
  <2>. QED
    BY <2>5, <2>6 DEF list, s
<1>. QED
  BY <1>1, <1>2, <1>3

\* A vector whose block is changed in place, and which keeps its capacity.
LEMMA VecChanged ==
    ASSUME Limits
    PROVE  \A v : \A b \in Seq(Values), z \in Nat :
              VecOk(v) /\ Len(b) = Len(v.block) /\ z <= v.capacity =>
                Grown(Record(b, z, v.capacity), b, z)
<1>1. ASSUME NEW v, NEW b \in Seq(Values), NEW z \in Nat, VecOk(v), Len(b) = Len(v.block), z <= v.capacity
      PROVE  Grown(Record(b, z, v.capacity), b, z)
  <2>. DEFINE c == v.capacity
              h == Record(b, z, c)
  <2>1. /\ c \in Nat /\ Len(v.block) \in Nat /\ c <= Len(v.block) /\ (c <= Limit \/ c = 0)
        /\ c = 0 => v.block = << >>
    BY <1>1, VecNumbers
  <2>2. c <= Limit
    BY <2>1 DEF Limits
  <2>3. c = 0 => b = << >>
    <3>. SUFFICES ASSUME c = 0 PROVE b = << >>
      OBVIOUS
    <3>1. Len(b) = 0
      BY <1>1, <2>1, EmptySeq
    <3>. QED
      BY <3>1, <1>1, EmptySeq
  <2>4. h = [block |-> b, size |-> z, capacity |-> c] /\ z <= c /\ c <= Len(b)
    BY <1>1, <2>1 DEF Record
  <2>. HIDE DEF h, c
  <2>5. VecOk(h) /\ h.block = b /\ h.size = z
    BY <1>1, <2>1, <2>2, <2>3, <2>4, VecMade
  <2>. QED
    BY <2>5, Zenon DEF Grown, h, c
<1>. QED
  BY <1>1, Zenon

\* The list of a vector without the elements from one index up to another.
Without(list, v, i, j, z) ==
    /\ list \in Seq(Values) /\ Len(list) = z
    /\ \A k \in 1 .. z : (k <= i => list[k] = v.block[k]) /\ (k > i => list[k] = v.block[j + (k - i)])

LEMMA VecWithout ==
    ASSUME NEW v, VecOk(v), NEW i \in Nat, NEW j \in Nat, i <= j, j <= v.size,
           NEW list, list = Vec!First(v, i) \o Vec!From(v, j), NEW z, z = i + (v.size - j)
    PROVE  Without(list, v, i, j, z)
<1>. DEFINE p == Vec!First(v, i)
            q == Vec!From(v, j)
<1>0. v.size \in Nat /\ i <= v.size
  <2>1. v.size \in Nat
    BY VecNumbers
  <2>. QED
    BY <2>1
<1>1. p \in Seq(Values) /\ Len(p) = i /\ \A k \in 1 .. i : p[k] = v.block[k]
  <2>1. \A c : c = (IF i <= v.size THEN i ELSE v.size) =>
          p \in Seq(Values) /\ Len(p) = c /\ \A k \in 1 .. c : p[k] = v.block[k]
    BY VecFirst
  <2>. HIDE DEF p
  <2>. QED
    BY <1>0, <2>1
<1>2. q \in Seq(Values) /\ Len(q) = v.size - j /\ \A k \in 1 .. v.size - j : q[k] = v.block[j + k]
  BY VecFrom
<1>3. list = p \o q
  OBVIOUS
<1>. HIDE DEF p, q
<1>4. /\ list \in Seq(Values) /\ Len(list) = z
      /\ \A k \in 1 .. z : list[k] = IF k <= i THEN p[k] ELSE q[k - i]
  <2>1. /\ p \o q \in Seq(Values) /\ Len(p \o q) = Len(p) + Len(q)
        /\ \A k \in 1 .. Len(p) + Len(q) : (p \o q)[k] = IF k <= Len(p) THEN p[k] ELSE q[k - Len(p)]
    BY <1>1, <1>2, Two
  <2>2. Len(p) = i /\ Len(p) + Len(q) = z
    BY <1>1, <1>2
  <2>. QED
    BY <1>3, <2>1, <2>2
<1>5. ASSUME NEW k \in 1 .. z PROVE (k <= i => list[k] = v.block[k]) /\ (k > i => list[k] = v.block[j + (k - i)])
  <2>1. ASSUME k <= i PROVE list[k] = v.block[k]
    <3>1. k \in 1 .. i
      BY <1>0, <2>1
    <3>. QED
      BY <1>1, <1>4, <2>1, <3>1
  <2>2. ASSUME k > i PROVE list[k] = v.block[j + (k - i)]
    <3>1. k - i \in 1 .. v.size - j /\ ~ (k <= i)
      BY <1>0, <2>2
    <3>. QED
      BY <1>2, <1>4, <2>2, <3>1
  <2>. QED
    BY <2>1, <2>2
<1>6. \A k \in 1 .. z : (k <= i => list[k] = v.block[k]) /\ (k > i => list[k] = v.block[j + (k - i)])
  BY <1>5, Zenon
<1>. QED
  BY <1>4, <1>6, Zenon DEF Without

\* erase() leaves the rest in order.
LEMMA VecErase ==
    ASSUME Limits, NEW v, VecOk(v), NEW i \in Nat, NEW n \in Nat, NEW g, g = Vec!erase(v, i, n)
    PROVE  VecOk(g.is) /\ Vec!Becomes(v, g, Vec!First(v, i) \o Vec!From(v, i + n))
<1>. DEFINE z == v.size - n - i
            b == Vec!memmove(v.block, i, v.block, i + n, z)
            h == [v EXCEPT !.block = b, !.size = @ - n]
            list == Vec!First(v, i) \o Vec!From(v, i + n)
<1>0. g = IF i > v.size \/ n > v.size - i THEN Vec!Refused(v) ELSE Vec!Done(h)
  BY Zenon DEF Vec!erase
<1>1. /\ v \in VecType /\ v.block \in Seq(Values) /\ v.size \in Nat /\ v.capacity \in Nat /\ Len(v.block) \in Nat
      /\ v.size <= v.capacity /\ v.capacity <= Len(v.block)
  BY VecNumbers
<1>2. CASE i > v.size \/ n > v.size - i
  <2>. HIDE DEF h, list
  <2>1. g = Vec!Refused(v)
    BY <1>0, <1>2, Zenon
  <2>2. VecOk(g.is) /\ Vec!Becomes(v, g, list)
    BY <2>1, VecRefused
  <2>. QED
    BY <2>2 DEF list
<1>3. CASE ~ (i > v.size \/ n > v.size - i)
  <2>1. g = Vec!Done(h)
    BY <1>0, <1>3, Zenon
  <2>2. /\ z \in Nat /\ z = v.size - n - i /\ i + n \in Nat /\ i \in Int /\ i + n <= v.size
        /\ (i + n) + z <= Len(v.block) /\ i <= i + n
        /\ v.size - n \in Nat /\ v.size - n <= v.capacity /\ v.size - n = i + (v.size - (i + n))
    BY <1>1, <1>3
  <2>3. h = Record(b, v.size - n, v.capacity)
    <3>. HIDE DEF b
    <3>. QED
      BY <1>1, VecBack DEF h, Record
  <2>. HIDE DEF z
  <2>4. /\ b \in Seq(Values) /\ Len(b) = Len(v.block)
        /\ \A k \in 1 .. Len(v.block) :
              b[k] = IF i < k /\ k <= i + z THEN v.block[(i + n) + (k - i)] ELSE v.block[k]
    <3>. DEFINE a == v.block
                j == i + n
    <3>1. a \in Seq(Values) /\ j \in Nat /\ i \in Int /\ z \in Nat /\ j + z <= Len(a)
      BY <1>1, <2>2
    <3>2. b = Vec!memmove(a, i, a, j, z)
      BY Zenon
    <3>. HIDE DEF a, b, j
    <3>3. Placed(b, a, i, a, j, z)
      BY <3>1, <3>2, VecMovesTo, Zenon
    <3>. QED
      BY <3>3, Zenon DEF Placed, a, j
  <2>. HIDE DEF b, h
  <2>5. VecOk(h) /\ h.block = b /\ h.size = v.size - n
    <3>1. Grown(Record(b, v.size - n, v.capacity), b, v.size - n)
      BY <2>2, <2>4, VecChanged, Zenon
    <3>. QED
      BY <2>3, <3>1, Zenon DEF Grown
  <2>6. Without(list, v, i, i + n, v.size - n)
    <3>. DEFINE j == i + n
                m == v.size - n
    <3>1. j \in Nat /\ i <= j /\ j <= v.size /\ m = i + (v.size - j) /\ list = Vec!First(v, i) \o Vec!From(v, j)
      BY <2>2
    <3>. HIDE DEF j, m, list
    <3>2. Without(list, v, i, j, m)
      BY <3>1, VecWithout
    <3>. QED
      BY <3>2, Zenon DEF j, m
  <2>. HIDE DEF list
  <2>7. list \in Seq(Values) /\ Len(list) = v.size - n /\ \A k \in 1 .. v.size - n : b[k] = list[k]
    <3>1. list \in Seq(Values) /\ Len(list) = v.size - n
      BY <2>6, Zenon DEF Without
    <3>0. \A k \in 1 .. v.size - n :
             (k <= i => list[k] = v.block[k]) /\ (k > i => list[k] = v.block[(i + n) + (k - i)])
      BY <2>6, Zenon DEF Without
    <3>2. ASSUME NEW k \in 1 .. v.size - n PROVE b[k] = list[k]
      <4>1. (k <= i => list[k] = v.block[k]) /\ (k > i => list[k] = v.block[(i + n) + (k - i)])
        BY <3>0, Zenon
      <4>2. k \in Int /\ 1 <= k /\ k <= v.size - n
        BY <1>1, <2>2
      <4>3. k \in 1 .. Len(v.block)
        <5>1. v.size - n \in Nat /\ v.size - n <= v.capacity
          BY <2>2, Zenon
        <5>2. v.capacity \in Nat /\ Len(v.block) \in Nat /\ v.capacity <= Len(v.block)
          BY <1>1, Zenon
        <5>. HIDE <1>1, <1>3, <2>2
        <5>. QED
          BY <4>2, <5>1, <5>2
      <4>4. b[k] = IF i < k /\ k <= i + z THEN v.block[(i + n) + (k - i)] ELSE v.block[k]
        BY <2>4, <4>3, Zenon
      <4>5. CASE k <= i
        <5>1. ~ (i < k)
          BY <2>2, <4>2, <4>5
        <5>. QED
          BY <4>1, <4>4, <4>5, <5>1, Zenon
      <4>6. CASE ~ (k <= i)
        <5>1. i < k /\ k > i /\ k <= i + z
          BY <1>1, <2>2, <4>2, <4>6
        <5>. QED
          BY <4>1, <4>4, <5>1, Zenon
      <4>. QED
        BY <4>5, <4>6, Zenon
    <3>. QED
      BY <3>1, <3>2, Zenon
  <2>8. Vec!Contents(h) = list
    BY <2>5, <2>7, VecList
  <2>9. g.is = h /\ Vec!Becomes(v, g, list)
    BY <2>1, <2>5, <2>8, VecDone
  <2>. QED
    BY <2>5, <2>9 DEF list
<1>. QED
  BY <1>2, <1>3

\* What pop_back() and pop_back_preserve_order() hand out and leave.
Popped(v, n, g, h) ==
    /\ g.ok <=> n <= v.size
    /\ g.ok => /\ Vec!Contents(g.is) \o h.items = Vec!Contents(v)
               /\ \A i \in 1 .. n : g.items[i] = h.items[n + 1 - i]

LEMMA VecPop ==
    ASSUME Limits, NEW v, VecOk(v), NEW n \in Nat,
           NEW g, g = Vec!pop_back(v, n), NEW h, h = Vec!pop_back_preserve_order(v, n)
    PROVE  VecOk(g.is) /\ Popped(v, n, g, h)
<1>. DEFINE items == [i \in 1 .. n |-> v.block[v.size + 1 - i]]
            kept == Vec!Slice(v.block, v.size - n, n)
            w == [v EXCEPT !.size = @ - n]
<1>0. /\ g = IF n <= v.size THEN [ok |-> TRUE, is |-> w, items |-> items] ELSE [ok |-> FALSE, is |-> v, items |-> << >>]
      /\ h = [g EXCEPT !.items = IF g.ok THEN kept ELSE @]
  BY Zenon DEF Vec!pop_back, Vec!pop_back_preserve_order
<1>1. /\ v \in VecType /\ v.block \in Seq(Values) /\ v.size \in Nat /\ v.capacity \in Nat /\ Len(v.block) \in Nat
      /\ v.size <= v.capacity /\ v.capacity <= Len(v.block)
  BY VecNumbers
<1>. HIDE DEF items, kept, w
<1>2. CASE ~ (n <= v.size)
  <2>1. g.is = v /\ ~ g.ok
    BY <1>0, <1>2
  <2>. QED
    BY <1>2, <2>1 DEF Popped
<1>3. CASE n <= v.size
  <2>1. g = [ok |-> TRUE, is |-> w, items |-> items]
    BY <1>0, <1>3, Zenon
  <2>2. g.is = w /\ g.ok /\ g.items = items
    BY <2>1
  <2>3. h.items = kept
    BY <1>0, <2>1
  <2>4. w = Record(v.block, v.size - n, v.capacity)
    BY <1>1, VecSized DEF w, Record
  <2>5. v.size - n \in Nat /\ v.size - n <= v.capacity /\ (v.size - n) + n <= Len(v.block) /\ (v.size - n) + n = v.size
    BY <1>1, <1>3
  <2>6. VecOk(w) /\ w.block = v.block /\ w.size = v.size - n
    <3>1. Grown(Record(v.block, v.size - n, v.capacity), v.block, v.size - n)
      BY <1>1, <2>5, VecChanged, Zenon
    <3>. QED
      BY <2>4, <3>1, Zenon DEF Grown
  <2>7. kept \in Seq(Values) /\ Len(kept) = n /\ \A k \in 1 .. n : kept[k] = v.block[(v.size - n) + k]
    BY <1>1, <2>5, VecSlice DEF kept
  <2>. DEFINE list == Vec!Contents(w) \o kept
              c == Vec!Contents(v)
  <2>8. /\ list \in Seq(Values) /\ Len(list) = (v.size - n) + n
        /\ \A k \in 1 .. (v.size - n) + n :
             list[k] = IF k <= v.size - n THEN v.block[k] ELSE kept[k - (v.size - n)]
    <3>. HIDE DEF list
    <3>1. /\ list \in Seq(Values) /\ Len(list) = w.size + Len(kept)
          /\ \A k \in 1 .. w.size + Len(kept) :
               list[k] = IF k <= w.size THEN w.block[k] ELSE kept[k - w.size]
      BY <2>6, <2>7, VecAfter DEF list
    <3>. QED
      BY <2>6, <2>7, <3>1
  <2>9. c \in Seq(Values) /\ Len(c) = v.size /\ \A k \in 1 .. v.size : c[k] = v.block[k]
    BY VecContents
  <2>. HIDE DEF list, c
  <2>10. ASSUME NEW k \in 1 .. v.size PROVE list[k] = c[k]
    <3>1. CASE k <= v.size - n
      BY <2>5, <2>8, <2>9, <3>1
    <3>2. CASE ~ (k <= v.size - n)
      <4>1. k - (v.size - n) \in 1 .. n /\ (v.size - n) + (k - (v.size - n)) = k
        BY <1>1, <1>3, <3>2
      <4>. QED
        BY <2>5, <2>7, <2>8, <2>9, <3>2, <4>1
    <3>. QED
      BY <3>1, <3>2
  <2>11. list = c
    <3>1. Len(list) = Len(c) /\ \A k \in 1 .. Len(c) : list[k] = c[k]
      BY <2>5, <2>8, <2>9, <2>10
    <3>. QED
      BY <2>8, <2>9, <3>1, SameBlock
  <2>12. ASSUME NEW k \in 1 .. n PROVE items[k] = kept[n + 1 - k]
    <3>1. n + 1 - k \in 1 .. n /\ (v.size - n) + (n + 1 - k) = v.size + 1 - k
      BY <1>1
    <3>2. items[k] = v.block[v.size + 1 - k]
      BY DEF items
    <3>. QED
      BY <2>7, <3>1, <3>2
  <2>. QED
    BY <1>3, <2>2, <2>3, <2>6, <2>11, <2>12 DEF list, c, Popped
<1>. QED
  BY <1>2, <1>3

\* The count that TPodVector refers to is the one the library is about.
LEMMA SameCount == ASSUME NEW S PROVE Vec!Cardinality(S) = Cardinality(S)
BY DEF Vec!Cardinality, Cardinality

\* A list is another with its places exchanged.
Exchanged(s, t, n, f, h) == \A k \in 1 .. n : h[f[k]] = k /\ f[h[k]] = k /\ s[k] = t[f[k]]

LEMMA Shuffled ==
    ASSUME NEW s \in Seq(Values), NEW t \in Seq(Values), NEW n \in Nat, Len(s) = n, Len(t) = n,
           NEW f \in [1 .. n -> 1 .. n], NEW h \in [1 .. n -> 1 .. n],
           Exchanged(s, t, n, f, h)
    PROVE  Vec!SameElements(s, t)
<1>0. \A k \in 1 .. n : h[f[k]] = k /\ f[h[k]] = k /\ s[k] = t[f[k]]
  BY DEF Exchanged
<1>1. DOMAIN s = 1 .. n /\ DOMAIN t = 1 .. n
  BY LenProperties
<1>2. ASSUME NEW x
      PROVE  Cardinality({k \in DOMAIN s : s[k] = x}) = Cardinality({k \in DOMAIN t : t[k] = x})
  <2>. DEFINE A == {k \in 1 .. n : s[k] = x}
              B == {k \in 1 .. n : t[k] = x}
              F == [k \in A |-> f[k]]
  <2>1. IsFiniteSet(A)
    <3>1. A \in SUBSET (1 .. n)
      OBVIOUS
    <3>2. IsFiniteSet(1 .. n)
      BY FS_Interval
    <3>. HIDE DEF A
    <3>. QED
      BY <3>1, <3>2, FS_Subset
  <2>2. \A k \in A : k \in 1 .. n /\ s[k] = x
    OBVIOUS
  <2>3. \A k \in 1 .. n : s[k] = x => k \in A
    OBVIOUS
  <2>4. \A k \in B : k \in 1 .. n /\ t[k] = x
    OBVIOUS
  <2>5. \A k \in 1 .. n : t[k] = x => k \in B
    OBVIOUS
  <2>6. DOMAIN F = A /\ \A k \in A : F[k] = f[k]
    OBVIOUS
  <2>7. F = [k \in A |-> f[k]]
    OBVIOUS
  <2>. HIDE DEF A, B, F
  <2>8. \A k \in A : f[k] \in B
    BY <1>0, <2>2, <2>5
  <2>9. F \in [A -> B]
    BY <2>7, <2>8
  <2>10. \A a, b \in A : F[a] = F[b] => a = b
    <3>. SUFFICES ASSUME NEW a \in A, NEW b \in A, F[a] = F[b] PROVE a = b
      OBVIOUS
    <3>1. f[a] = f[b] /\ h[f[a]] = a /\ h[f[b]] = b
      BY <1>0, <2>2, <2>6
    <3>. QED
      BY <3>1
  <2>11. \A j \in B : \E k \in A : F[k] = j
    <3>. SUFFICES ASSUME NEW j \in B PROVE \E k \in A : F[k] = j
      OBVIOUS
    <3>1. j \in 1 .. n /\ t[j] = x /\ h[j] \in 1 .. n /\ f[h[j]] = j
      BY <1>0, <2>4
    <3>2. s[h[j]] = x
      BY <1>0, <3>1
    <3>3. h[j] \in A
      BY <2>3, <3>1, <3>2
    <3>. QED
      BY <2>6, <3>1, <3>3
  <2>12. F \in Bijection(A, B)
    BY <2>9, <2>10, <2>11, <2>6 DEF Bijection, Injection, Surjection, IsInjective
  <2>13. Cardinality(B) = Cardinality(A)
    BY <2>1, <2>12, FS_Bijection DEF ExistsBijection
  <2>. QED
    BY <1>1, <2>13 DEF A, B
<1>3. Len(s) = Len(t)
  OBVIOUS
<1>4. ASSUME NEW x
      PROVE  Vec!Cardinality({k \in DOMAIN s : s[k] = x}) = Vec!Cardinality({k \in DOMAIN t : t[k] = x})
  BY <1>2, SameCount
<1>. QED
  BY <1>3, <1>4, Zenon DEF Vec!SameElements

\* No place need be exchanged.
LEMMA SameAsItself ==
    ASSUME NEW s \in Seq(Values) PROVE Vec!SameElements(s, s)
BY Zenon DEF Vec!SameElements

----------------------------------------------------------------------------
\* Where swap_erase() takes what it puts, in a list of m elements: the places
\* behind i are turned by n.
Turned(i, n, m) == [k \in 1 .. m |-> IF k <= i THEN k ELSE IF k <= i + n THEN (m - n) + (k - i) ELSE k - n]
TurnedBack(i, n, m) == [k \in 1 .. m |-> IF k <= i THEN k ELSE IF k <= m - n THEN k + n ELSE (k - (m - n)) + i]

LEMMA TurnedIs ==
    ASSUME NEW i \in Nat, NEW n \in Nat, NEW m \in Nat, i + n <= m
    PROVE  /\ Turned(i, n, m) \in [1 .. m -> 1 .. m] /\ TurnedBack(i, n, m) \in [1 .. m -> 1 .. m]
           /\ \A k \in 1 .. m : /\ TurnedBack(i, n, m)[Turned(i, n, m)[k]] = k
                                /\ Turned(i, n, m)[TurnedBack(i, n, m)[k]] = k
<1>. DEFINE f == Turned(i, n, m)
            h == TurnedBack(i, n, m)
<1>1. ASSUME NEW k \in 1 .. m
      PROVE  f[k] = (IF k <= i THEN k ELSE IF k <= i + n THEN (m - n) + (k - i) ELSE k - n)
  BY DEF Turned
<1>2. ASSUME NEW k \in 1 .. m
      PROVE  h[k] = (IF k <= i THEN k ELSE IF k <= m - n THEN k + n ELSE (k - (m - n)) + i)
  BY DEF TurnedBack
<1>3. f \in [1 .. m -> 1 .. m]
  BY DEF Turned
<1>4. h \in [1 .. m -> 1 .. m]
  BY DEF TurnedBack
<1>. HIDE DEF f, h
<1>5. ASSUME NEW k \in 1 .. m PROVE h[f[k]] = k
  <2>. DEFINE j == f[k]
  <2>1. j \in 1 .. m
    BY <1>3
  <2>2. j = (IF k <= i THEN k ELSE IF k <= i + n THEN (m - n) + (k - i) ELSE k - n)
    BY <1>1
  <2>. HIDE DEF j
  <2>3. h[j] = (IF j <= i THEN j ELSE IF j <= m - n THEN j + n ELSE (j - (m - n)) + i)
    BY <1>2, <2>1
  <2>4. h[j] = k
    BY <2>2, <2>3
  <2>. QED
    BY <2>4 DEF j
<1>6. ASSUME NEW k \in 1 .. m PROVE f[h[k]] = k
  <2>. DEFINE j == h[k]
  <2>1. j \in 1 .. m
    BY <1>4
  <2>2. j = (IF k <= i THEN k ELSE IF k <= m - n THEN k + n ELSE (k - (m - n)) + i)
    BY <1>2
  <2>. HIDE DEF j
  <2>3. f[j] = (IF j <= i THEN j ELSE IF j <= i + n THEN (m - n) + (j - i) ELSE j - n)
    BY <1>1, <2>1
  <2>4. f[j] = k
    BY <2>2, <2>3
  <2>. QED
    BY <2>4 DEF j
<1>. QED
  BY <1>3, <1>4, <1>5, <1>6 DEF f, h

\* Where swap_insert() puts what it takes, in a list of z elements and n items.
Swapped(i, n, z) ==
    [k \in 1 .. z + n |-> IF k <= i THEN k ELSE IF k <= i + n THEN z + (k - i) ELSE IF k <= z THEN k ELSE (k - z) + i]

LEMMA SwappedIs ==
    ASSUME NEW i \in Nat, NEW n \in Nat, NEW z \in Nat, i + n <= z \/ i = z
    PROVE  /\ Swapped(i, n, z) \in [1 .. z + n -> 1 .. z + n]
           /\ \A k \in 1 .. z + n : Swapped(i, n, z)[Swapped(i, n, z)[k]] = k
<1>. DEFINE f == Swapped(i, n, z)
            m == z + n
<1>1. ASSUME NEW k \in 1 .. m
      PROVE  f[k] = (IF k <= i THEN k ELSE IF k <= i + n THEN z + (k - i) ELSE IF k <= z THEN k ELSE (k - z) + i)
  BY DEF Swapped
<1>2. f \in [1 .. m -> 1 .. m]
  BY DEF Swapped
<1>. HIDE DEF f
<1>3. ASSUME NEW k \in 1 .. m PROVE f[f[k]] = k
  <2>. DEFINE j == f[k]
  <2>1. j \in 1 .. m
    BY <1>2
  <2>2. j = (IF k <= i THEN k ELSE IF k <= i + n THEN z + (k - i) ELSE IF k <= z THEN k ELSE (k - z) + i)
    BY <1>1
  <2>. HIDE DEF j
  <2>3. f[j] = (IF j <= i THEN j ELSE IF j <= i + n THEN z + (j - i) ELSE IF j <= z THEN j ELSE (j - z) + i)
    BY <1>1, <2>1
  <2>4. f[j] = k
    BY <2>2, <2>3
  <2>. QED
    BY <2>4 DEF j
<1>. QED
  BY <1>2, <1>3 DEF f

\* swap_erase() changes places at the index only, and loses what it erases and nothing else.
SwapErased(v, i, n, g) ==
    IF ~g.ok THEN g.is = v
    ELSE /\ Vec!SameElements(Vec!Contents(g.is), Vec!First(v, i) \o Vec!From(v, i + n))
         /\ \A k \in 1 .. Len(Vec!Contents(g.is)) :
               k \in i + 1 .. i + n \/ Vec!Contents(g.is)[k] = Vec!Contents(v)[k]

LEMMA VecSwapErase ==
    ASSUME Limits, NEW v, VecOk(v), NEW i \in Nat, NEW n \in Nat, NEW g, g = Vec!swap_erase(v, i, n)
    PROVE  VecOk(g.is) /\ SwapErased(v, i, n, g)
<1>. DEFINE tail == Vec!Least(n, v.size - n - i)
            a == v.block
            b == Vec!memmove(a, i, a, v.size - tail, tail)
            m == v.size - n
            h == [v EXCEPT !.block = b, !.size = @ - n]
<1>0. g = IF i > v.size \/ n > v.size - i THEN Vec!Refused(v) ELSE Vec!Done(h)
  BY Zenon DEF Vec!swap_erase
<1>1. /\ v \in VecType /\ a \in Seq(Values) /\ v.size \in Nat /\ v.capacity \in Nat /\ Len(a) \in Nat
      /\ v.size <= v.capacity /\ v.capacity <= Len(a)
  BY VecNumbers
<1>2. CASE i > v.size \/ n > v.size - i
  <2>. HIDE DEF h
  <2>1. g = Vec!Refused(v)
    BY <1>0, <1>2, Zenon
  <2>2. VecOk(g.is) /\ ~ g.ok /\ g.is = v
    BY <2>1, VecRefused
  <2>. QED
    BY <2>2, Zenon DEF SwapErased
<1>3. CASE ~ (i > v.size \/ n > v.size - i)
  <2>1. g = Vec!Done(h)
    BY <1>0, <1>3, Zenon
  <2>2. /\ m \in Nat /\ m = v.size - n /\ i <= m /\ i + n \in Nat /\ i \in Int /\ i + n <= v.size
        /\ i <= i + n /\ m <= v.capacity /\ m = i + (v.size - (i + n))
    BY <1>1, <1>3
  <2>3. tail \in Nat /\ tail <= n /\ tail <= m - i /\ (n <= m - i => tail = n) /\ (~ (n <= m - i) => tail = m - i)
    BY <1>1, <2>2 DEF Vec!Least
  <2>4. h = Record(b, m, v.capacity)
    <3>. HIDE DEF b
    <3>. QED
      BY <1>1, VecBack DEF h, Record
  <2>. HIDE DEF tail
  <2>5. Placed(b, a, i, a, v.size - tail, tail)
    <3>. DEFINE j == v.size - tail
    <3>1. a \in Seq(Values) /\ j \in Nat /\ i \in Int /\ tail \in Nat /\ j + tail <= Len(a)
      <4>1. m <= v.size /\ m - i <= v.size /\ v.size \in Nat
        BY <1>1, <2>2
      <4>2. tail <= v.size /\ v.size - tail \in Nat
        <5>. HIDE DEF m
        <5>. QED
          BY <2>2, <2>3, <4>1
      <4>3. j \in Nat /\ j + tail = v.size
        BY <2>3, <4>1, <4>2
      <4>4. j + tail <= Len(a)
        <5>. HIDE DEF j, a
        <5>. QED
          BY <1>1, <4>3
      <4>5. a \in Seq(Values) /\ i \in Int /\ tail \in Nat
        BY <1>1, <2>2, <2>3
      <4>. QED
        BY <4>3, <4>4, <4>5, Zenon
    <3>2. b = Vec!memmove(a, i, a, j, tail)
      BY Zenon
    <3>. HIDE DEF a, b, j
    <3>3. Placed(b, a, i, a, j, tail)
      BY <3>1, <3>2, VecMovesTo, Zenon
    <3>. QED
      BY <3>3, Zenon DEF j, a
  <2>. HIDE DEF b, h, m
  <2>6. VecOk(h) /\ h.block = b /\ h.size = m
    <3>1. b \in Seq(Values) /\ Len(b) = Len(v.block)
      BY <2>5, Zenon DEF Placed, a
    <3>2. Grown(Record(b, m, v.capacity), b, m)
      BY <2>2, <3>1, VecChanged, Zenon
    <3>. QED
      BY <2>4, <3>2, Zenon DEF Grown
  <2>7. g.is = h /\ g.ok
    BY <2>1 DEF Vec!Done
  <2>. DEFINE c == Vec!Contents(h)
              d == Vec!Contents(v)
              t == Vec!First(v, i) \o Vec!From(v, i + n)
  <2>8. c \in Seq(Values) /\ Len(c) = m /\ \A k \in 1 .. m : c[k] = b[k]
    BY <2>6, VecContents
  <2>9. \A k \in 1 .. v.size : d[k] = v.block[k]
    BY VecContents
  <2>10. Without(t, v, i, i + n, m)
    <3>. DEFINE j == i + n
    <3>1. j \in Nat /\ i <= j /\ j <= v.size /\ m = i + (v.size - j) /\ t = Vec!First(v, i) \o Vec!From(v, j)
      BY <2>2
    <3>. HIDE DEF j, t
    <3>2. Without(t, v, i, j, m)
      BY <3>1, VecWithout
    <3>. QED
      BY <3>2, Zenon DEF j
  <2>. HIDE DEF c, d, t, a
  <2>11. ASSUME NEW k \in 1 .. m
         PROVE  /\ k \in Int /\ 1 <= k /\ k <= m
                /\ k \in 1 .. v.size /\ k \in 1 .. Len(a)
                /\ k <= i \/ k > i + tail => c[k] = a[k]
                /\ k > i /\ k <= i + tail => c[k] = a[(v.size - tail) + (k - i)]
    <3>1. k \in Int /\ 1 <= k /\ k <= m /\ k \in 1 .. v.size
      BY <1>1, <2>2
    <3>2. k \in 1 .. Len(a)
      BY <1>1, <3>1
    <3>3. b[k] = IF i < k /\ k <= i + tail THEN a[(v.size - tail) + (k - i)] ELSE a[k]
      BY <2>5, <3>2, Zenon DEF Placed
    <3>4. c[k] = b[k]
      BY <2>8
    <3>5. (k <= i \/ k > i + tail => ~ (i < k /\ k <= i + tail)) /\ (k > i => i < k)
      BY <2>3, <3>1
    <3>. QED
      BY <3>1, <3>2, <3>3, <3>4, <3>5
  <2>12. ASSUME NEW j \in 1 .. m
         PROVE  (j <= i => t[j] = a[j]) /\ (j > i => t[j] = a[(i + n) + (j - i)])
    BY <2>10, Zenon DEF Without, a
  <2>13. t \in Seq(Values) /\ Len(t) = m
    BY <2>10, Zenon DEF Without
  <2>14. Vec!SameElements(c, t)
    <3>1. CASE n <= m - i
      <4>. DEFINE f == Turned(i, n, m)
                  e == TurnedBack(i, n, m)
      <4>1. i + n <= m /\ tail = n
        BY <2>2, <2>3, <3>1
      <4>2. ASSUME NEW k \in 1 .. m PROVE c[k] = t[f[k]]
        <5>1. f[k] = (IF k <= i THEN k ELSE IF k <= i + n THEN (m - n) + (k - i) ELSE k - n)
          BY DEF Turned
        <5>. HIDE DEF f
        <5>2. k \in Int /\ 1 <= k /\ k <= m
          BY <2>11
        <5>3. CASE k <= i
          BY <2>11, <2>12, <5>1, <5>3
        <5>4. CASE ~ (k <= i) /\ k <= i + n
          <6>1. /\ (m - n) + (k - i) \in 1 .. m /\ (m - n) + (k - i) > i
                /\ (i + n) + (((m - n) + (k - i)) - i) = (v.size - tail) + (k - i) /\ k > i /\ k <= i + tail
            BY <2>2, <4>1, <5>2, <5>4
          <6>2. f[k] = (m - n) + (k - i)
            BY <5>1, <5>4
          <6>3. t[(m - n) + (k - i)] = a[(i + n) + (((m - n) + (k - i)) - i)]
            BY <2>12, <6>1, Zenon
          <6>4. c[k] = a[(v.size - tail) + (k - i)]
            BY <2>11, <6>1
          <6>. QED
            BY <6>1, <6>2, <6>3, <6>4
        <5>5. CASE ~ (k <= i) /\ ~ (k <= i + n)
          <6>1. k - n \in 1 .. m /\ k - n > i /\ (i + n) + ((k - n) - i) = k /\ k > i + tail
            BY <2>2, <4>1, <5>2, <5>5
          <6>2. f[k] = k - n
            BY <5>1, <5>5
          <6>3. t[k - n] = a[(i + n) + ((k - n) - i)]
            BY <2>12, <6>1, Zenon
          <6>4. c[k] = a[k]
            BY <2>11, <6>1
          <6>. QED
            BY <6>1, <6>2, <6>3, <6>4
        <5>. QED
          BY <5>3, <5>4, <5>5
      <4>3. /\ f \in [1 .. m -> 1 .. m] /\ e \in [1 .. m -> 1 .. m]
            /\ \A k \in 1 .. m : e[f[k]] = k /\ f[e[k]] = k
        BY <2>2, <4>1, TurnedIs
      <4>. HIDE DEF f, e
      <4>4. Exchanged(c, t, m, f, e)
        BY <4>2, <4>3 DEF Exchanged
      <4>5. c \in Seq(Values) /\ t \in Seq(Values) /\ m \in Nat /\ Len(c) = m /\ Len(t) = m
        BY <2>2, <2>8, <2>13
      <4>6. f \in [1 .. m -> 1 .. m] /\ e \in [1 .. m -> 1 .. m]
        BY <4>3
      <4>. QED
        BY <4>4, <4>5, <4>6, Shuffled
    <3>2. CASE ~ (n <= m - i)
      <4>1. tail = m - i /\ i + tail = m
        BY <2>2, <2>3, <3>2
      <4>2. ASSUME NEW k \in 1 .. m PROVE c[k] = t[k]
        <5>1. k \in Int /\ 1 <= k /\ k <= m
          BY <2>11
        <5>2. CASE k <= i
          BY <2>11, <2>12, <5>2
        <5>3. CASE ~ (k <= i)
          <6>1. k > i /\ k <= i + tail /\ (v.size - tail) + (k - i) = (i + n) + (k - i)
            <7>1. k > i /\ k <= i + tail
              BY <4>1, <5>1, <5>3
            <7>2. v.size - tail = i + n
              BY <1>1, <2>2, <4>1
            <7>. QED
              BY <7>1, <7>2
          <6>2. c[k] = a[(v.size - tail) + (k - i)]
            BY <2>11, <6>1
          <6>3. t[k] = a[(i + n) + (k - i)]
            BY <2>12, <6>1, Zenon
          <6>. QED
            BY <6>1, <6>2, <6>3
        <5>. QED
          BY <5>2, <5>3
      <4>3. c = t
        <5>1. Len(c) = Len(t) /\ \A k \in 1 .. Len(t) : c[k] = t[k]
          BY <2>8, <2>13, <4>2
        <5>. QED
          BY <2>8, <2>13, <5>1, SameBlock
      <4>. QED
        BY <2>8, <4>3, SameAsItself
    <3>. QED
      BY <3>1, <3>2
  <2>15. ASSUME NEW k \in 1 .. Len(c) PROVE k \in i + 1 .. i + n \/ c[k] = d[k]
    <3>1. k \in 1 .. m
      BY <2>8
    <3>2. CASE k <= i \/ k > i + n
      <4>1. k <= i \/ k > i + tail
        BY <2>3, <3>1, <2>2, <3>2
      <4>2. d[k] = a[k]
        BY <2>9, <2>11, <3>1 DEF a
      <4>. QED
        BY <2>11, <3>1, <4>1, <4>2
    <3>3. CASE ~ (k <= i \/ k > i + n)
      BY <2>2, <3>1, <3>3
    <3>. QED
      BY <3>2, <3>3
  <2>16. SwapErased(v, i, n, g)
    BY <2>7, <2>14, <2>15 DEF SwapErased, c, d, t
  <2>. QED
    BY <2>6, <2>7, <2>16
<1>. QED
  BY <1>2, <1>3

\* The first elements of a list.
LEMMA PrefixIs ==
    ASSUME NEW list \in Seq(Values), NEW j \in Nat, j <= Len(list), NEW p, p = SubSeq(list, 1, j)
    PROVE  p \in Seq(Values) /\ Len(p) = j /\ \A k \in 1 .. j : p[k] = list[k]
<1>1. \A i \in Nat : i + j <= Len(list) =>
         /\ Slice(list, i, j) \in Seq(Values) /\ Len(Slice(list, i, j)) = j
         /\ \A k \in 1 .. j : Slice(list, i, j)[k] = list[i + k]
  BY SlicesAre
<1>2. 0 \in Nat /\ 0 + j <= Len(list) /\ 0 + 1 = 1 /\ 0 + j = j /\ \A k \in 1 .. j : 0 + k = k
  OBVIOUS
<1>3. Slice(list, 0, j) = p
  BY <1>2 DEF Slice
<1>. QED
  BY <1>1, <1>2, <1>3

\* The list of a vector's first elements and items.
Starts(list, v, i, s, m) ==
    /\ list \in Seq(Values) /\ Len(list) = m
    /\ \A k \in 1 .. m : list[k] = IF k <= i THEN v.block[k] ELSE s[k - i]

LEMMA VecStart ==
    ASSUME NEW v, VecOk(v), NEW i \in Nat, i <= v.size, NEW s \in Seq(Values),
           NEW list, list = Vec!First(v, i) \o s, NEW m, m = i + Len(s)
    PROVE  Starts(list, v, i, s, m)
<1>. DEFINE p == Vec!First(v, i)
<1>0. v.size \in Nat /\ Len(s) \in Nat
  BY VecNumbers, LenProperties
<1>1. p \in Seq(Values) /\ Len(p) = i /\ \A k \in 1 .. i : p[k] = v.block[k]
  <2>1. \A c : c = (IF i <= v.size THEN i ELSE v.size) =>
          p \in Seq(Values) /\ Len(p) = c /\ \A k \in 1 .. c : p[k] = v.block[k]
    BY VecFirst
  <2>. HIDE DEF p
  <2>. QED
    BY <1>0, <2>1
<1>2. list = p \o s
  OBVIOUS
<1>. HIDE DEF p
<1>3. /\ p \o s \in Seq(Values) /\ Len(p \o s) = Len(p) + Len(s)
      /\ \A k \in 1 .. Len(p) + Len(s) : (p \o s)[k] = IF k <= Len(p) THEN p[k] ELSE s[k - Len(p)]
  BY <1>1, Two
<1>4. /\ list \in Seq(Values) /\ Len(list) = m
      /\ \A k \in 1 .. m : list[k] = IF k <= i THEN p[k] ELSE s[k - i]
  BY <1>1, <1>2, <1>3
<1>5. \A k \in 1 .. m : k <= i => k \in 1 .. i
  BY <1>0
<1>. QED
  BY <1>1, <1>4, <1>5 DEF Starts

\* swap_insert() has the items at the index and loses no element, where they are not too many.
SwapInserted(v, i, s, g) ==
    IF ~g.ok THEN g.is = v
    ELSE Len(s) <= v.size - i \/ i = v.size =>
           /\ Vec!SameElements(Vec!Contents(g.is), Vec!Contents(v) \o s)
           /\ SubSeq(Vec!Contents(g.is), 1, i + Len(s)) = Vec!First(v, i) \o s

\* The elements in the way are written behind the others, and the items in their places.
LEMMA VecSwapIn ==
    ASSUME Limits, NEW v, VecOk(v), NEW e, NEW s \in Seq(Values), NEW n \in Nat, n = Len(s),
           Roomy(v, e, v.size + n), e.ok,
           NEW i \in Nat, i <= v.size, NEW x, x = e.is.block, NEW y, y = Vec!Least(n, v.size - i),
           NEW a, a = Vec!memmove(x, v.size, x, i, y), NEW b, b = Vec!Write(a, i, s),
           NEW h, h = Record(b, v.size + n, e.is.capacity), NEW g, g = Vec!Done(h)
    PROVE  VecOk(g.is) /\ SwapInserted(v, i, s, g)
<1>. DEFINE z == v.size
            m == z + n
<1>1. /\ x \in Seq(Values) /\ z \in Nat /\ z \in Int /\ Len(x) \in Nat /\ m <= Len(x)
      /\ \A k \in 1 .. z : x[k] = v.block[k]
  <2>. DEFINE w == e.is
  <2>1. w = e.is /\ x = w.block
    OBVIOUS
  <2>. HIDE DEF w
  <2>2. /\ w.block \in Seq(Values) /\ v.size \in Nat /\ Len(w.block) \in Nat /\ v.size + n <= Len(w.block)
        /\ \A k \in 1 .. v.size : w.block[k] = v.block[k]
    BY <2>1, VecRoom
  <2>. QED
    BY <2>1, <2>2
<1>2. y \in Nat /\ y <= n /\ y <= z - i /\ (n <= z - i => y = n) /\ (~ (n <= z - i) => y = z - i) /\ i + y <= Len(x)
  <2>0. z - i \in Nat /\ y = IF n <= z - i THEN n ELSE z - i
    BY <1>1 DEF Vec!Least
  <2>1. y \in Nat /\ y <= n /\ y <= z - i /\ (n <= z - i => y = n) /\ (~ (n <= z - i) => y = z - i)
    <3>. HIDE DEF z
    <3>. QED
      BY <2>0
  <2>2. i + y <= Len(x)
    <3>1. z \in Nat /\ Len(x) \in Nat /\ z <= Len(x)
      BY <1>1
    <3>. HIDE DEF z
    <3>. QED
      BY <2>1, <3>1
  <2>. QED
    BY <2>1, <2>2
<1>3. Placed(a, x, z, x, i, y)
  <2>1. a = Vec!memmove(x, z, x, i, y)
    BY Zenon
  <2>2. x \in Seq(Values) /\ z \in Int /\ i \in Nat /\ y \in Nat /\ i + y <= Len(x)
    BY <1>1, <1>2
  <2>. HIDE DEF z
  <2>. QED
    BY <2>1, <2>2, VecMovesTo, Zenon
<1>4. a \in Seq(Values) /\ Len(a) = Len(x)
  BY <1>3, Zenon DEF Placed
<1>5. /\ b \in Seq(Values) /\ Len(b) = Len(a)
      /\ \A k \in 1 .. Len(a) : b[k] = IF i < k /\ k <= i + Len(s) THEN s[k - i] ELSE a[k]
  <2>1. i \in Int
    OBVIOUS
  <2>. QED
    BY <1>4, <2>1, VecWrite
<1>6. VecOk(h) /\ h.block = b /\ h.size = m
  <2>1. Len(b) = Len(e.is.block) /\ b \in Seq(Values)
    BY <1>4, <1>5
  <2>2. Grown(Record(b, v.size + n, e.is.capacity), b, v.size + n)
    BY <2>1, VecGrows, Zenon
  <2>. QED
    BY <2>2, Zenon DEF Grown, m, z
<1>7. g.is = h /\ g.ok
  BY DEF Vec!Done
<1>8. CASE ~ (n <= z - i \/ i = z)
  <2>1. SwapInserted(v, i, s, g)
    BY <1>7, <1>8, Zenon DEF SwapInserted, z
  <2>. QED
    BY <1>6, <1>7, <2>1
<1>9. CASE n <= z - i \/ i = z
  <2>. DEFINE c == Vec!Contents(h)
              t == Vec!Contents(v) \o s
              p == SubSeq(c, 1, i + n)
              q == Vec!First(v, i) \o s
  <2>. HIDE DEF z
  <2>1. c \in Seq(Values) /\ Len(c) = m /\ \A k \in 1 .. m : c[k] = b[k]
    <3>. HIDE DEF m
    <3>. QED
      BY <1>6, VecContents
  <2>2. /\ t \in Seq(Values) /\ Len(t) = m
        /\ \A k \in 1 .. m : t[k] = IF k <= z THEN v.block[k] ELSE s[k - z]
    <3>. HIDE DEF t
    <3>1. /\ t \in Seq(Values) /\ Len(t) = v.size + Len(s)
          /\ \A k \in 1 .. v.size + Len(s) : t[k] = IF k <= v.size THEN v.block[k] ELSE s[k - v.size]
      BY VecAfter DEF t
    <3>. QED
      BY <3>1 DEF z
  <2>. HIDE DEF c, t
  <2>3. ASSUME NEW k \in 1 .. m
        PROVE  /\ k \in Int /\ 1 <= k /\ k <= m
               /\ k <= i => c[k] = v.block[k]
               /\ i < k /\ k <= i + n => c[k] = s[k - i]
               /\ k > i + n /\ k <= z => c[k] = v.block[k]
               /\ k > i + n /\ k > z => c[k] = v.block[(k - z) + i]
    <3>1. k \in Int /\ 1 <= k /\ k <= m
      BY <1>1
    <3>2. k \in 1 .. Len(x) /\ k \in 1 .. Len(a)
      BY <1>1, <1>4, <3>1
    <3>3. a[k] = IF z < k /\ k <= z + y THEN x[i + (k - z)] ELSE x[k]
      BY <1>3, <3>2, Zenon DEF Placed
    <3>4. c[k] = IF i < k /\ k <= i + n THEN s[k - i] ELSE a[k]
      BY <1>5, <2>1, <3>2
    <3>5. ASSUME k <= z PROVE a[k] = v.block[k]
      <4>1. k \in 1 .. z /\ ~ (z < k)
        BY <1>1, <3>1, <3>5
      <4>. QED
        BY <1>1, <3>3, <4>1
    <3>6. ASSUME k > i + n, k > z PROVE a[k] = v.block[(k - z) + i]
      <4>1. i # z
        BY <1>1, <3>1, <3>6
      <4>2. y = n
        BY <1>2, <1>9, <4>1
      <4>3. z < k /\ k <= z + y /\ i + (k - z) = (k - z) + i
        BY <1>1, <3>1, <3>6, <4>2
      <4>4. (k - z) + i \in 1 .. z
        BY <1>1, <1>2, <3>1, <3>6, <4>2
      <4>. QED
        BY <1>1, <3>3, <4>3, <4>4
    <3>7. k <= i => k <= z
      BY <1>1, <3>1 DEF z
    <3>. QED
      BY <3>1, <3>4, <3>5, <3>6, <3>7
  <2>4. Vec!SameElements(c, t)
    <3>. DEFINE f == Swapped(i, n, z)
    <3>1. ASSUME NEW k \in 1 .. m PROVE c[k] = t[f[k]]
      <4>1. f[k] = (IF k <= i THEN k ELSE IF k <= i + n THEN z + (k - i) ELSE IF k <= z THEN k ELSE (k - z) + i)
        BY DEF Swapped
      <4>. HIDE DEF f
      <4>2. k \in Int /\ 1 <= k /\ k <= m /\ i <= z
        BY <2>3 DEF z
      <4>3. CASE k <= i
        <5>1. k <= z /\ f[k] = k
          BY <1>1, <4>1, <4>2, <4>3
        <5>. QED
          BY <2>2, <2>3, <4>3, <5>1
      <4>4. CASE ~ (k <= i) /\ k <= i + n
        <5>1. z + (k - i) \in 1 .. m /\ ~ (z + (k - i) <= z) /\ (z + (k - i)) - z = k - i /\ i < k
          BY <1>1, <4>2, <4>4
        <5>2. f[k] = z + (k - i)
          BY <4>1, <4>4
        <5>3. t[z + (k - i)] = s[(z + (k - i)) - z]
          BY <2>2, <5>1
        <5>4. c[k] = s[k - i]
          BY <2>3, <4>4, <5>1
        <5>. QED
          BY <5>1, <5>2, <5>3, <5>4
      <4>5. CASE ~ (k <= i) /\ ~ (k <= i + n) /\ k <= z
        <5>1. k > i + n /\ f[k] = k
          BY <1>1, <4>1, <4>2, <4>5
        <5>. QED
          BY <2>2, <2>3, <4>5, <5>1
      <4>6. CASE ~ (k <= i) /\ ~ (k <= i + n) /\ ~ (k <= z)
        <5>0. k > i + n /\ k > z
          BY <1>1, <4>2, <4>6
        <5>1. n <= z - i
          BY <1>1, <1>9, <4>2, <5>0
        <5>2. (k - z) + i \in 1 .. m /\ (k - z) + i <= z
          BY <1>1, <4>2, <5>0, <5>1
        <5>3. f[k] = (k - z) + i
          BY <4>1, <4>6
        <5>4. c[k] = v.block[(k - z) + i]
          BY <2>3, <5>0
        <5>. QED
          BY <2>2, <5>2, <5>3, <5>4
      <4>. QED
        BY <4>3, <4>4, <4>5, <4>6
    <3>2. f \in [1 .. m -> 1 .. m] /\ \A k \in 1 .. m : f[f[k]] = k
      <4>1. i + n <= z \/ i = z
        BY <1>1, <1>9
      <4>. QED
        BY <1>1, <4>1, SwappedIs
    <3>3. c \in Seq(Values) /\ t \in Seq(Values) /\ m \in Nat /\ Len(c) = m /\ Len(t) = m
      BY <1>1, <2>1, <2>2
    <3>. HIDE DEF f, m
    <3>4. Exchanged(c, t, m, f, f)
      BY <3>1, <3>2 DEF Exchanged
    <3>5. f \in [1 .. m -> 1 .. m]
      BY <3>2
    <3>. QED
      BY <3>3, <3>4, <3>5, Shuffled
  <2>5. p = q
    <3>1. i + n \in Nat /\ i + n <= m
      BY <1>1 DEF z
    <3>2. p \in Seq(Values) /\ Len(p) = i + n /\ \A k \in 1 .. i + n : p[k] = c[k]
      <4>. DEFINE j == i + n
      <4>1. j \in Nat /\ j <= Len(c) /\ p = SubSeq(c, 1, j)
        BY <2>1, <3>1
      <4>. HIDE DEF j, p
      <4>2. p \in Seq(Values) /\ Len(p) = j /\ \A k \in 1 .. j : p[k] = c[k]
        BY <2>1, <4>1, PrefixIs
      <4>. QED
        BY <4>2 DEF j
    <3>3. /\ q \in Seq(Values) /\ Len(q) = i + n
          /\ \A k \in 1 .. i + n : q[k] = IF k <= i THEN v.block[k] ELSE s[k - i]
      <4>. DEFINE j == i + n
      <4>1. j = i + Len(s) /\ q = Vec!First(v, i) \o s
        OBVIOUS
      <4>. HIDE DEF j, q
      <4>2. Starts(q, v, i, s, j)
        BY <4>1, VecStart
      <4>. QED
        BY <4>2 DEF j, Starts
    <3>. HIDE DEF p, q
    <3>4. ASSUME NEW k \in 1 .. i + n PROVE p[k] = q[k]
      <4>1. k \in 1 .. m /\ k <= i + n /\ (~ (k <= i) => i < k)
        BY <1>1, <3>1
      <4>. QED
        BY <2>3, <3>2, <3>3, <4>1
    <3>. QED
      BY <3>2, <3>3, <3>4, SameBlock
  <2>6. SwapInserted(v, i, s, g)
    BY <1>7, <2>4, <2>5, Zenon DEF SwapInserted, c, t, p, q
  <2>. QED
    BY <1>6, <1>7, <2>6
<1>. QED
  BY <1>8, <1>9

LEMMA VecSwapInsert ==
    ASSUME Limits, NEW v, VecOk(v), NEW i \in Nat, NEW s \in Seq(Values), NEW mem,
           NEW g, g = Vec!swap_insert(v, i, s, mem)
    PROVE  VecOk(g.is) /\ (i <= v.size => SwapInserted(v, i, s, g))
<1>. DEFINE n == Len(s)
            e == Vec!ensure_free(v, n, mem)
            x == e.is.block
            y == Vec!Least(n, e.is.size - i)
            a == Vec!memmove(x, e.is.size, x, i, y)
            b == Vec!Write(a, i, s)
            h == [e.is EXCEPT !.block = b, !.size = @ + n]
<1>0. g = IF i > v.size THEN Vec!Refused(v) ELSE IF s = << >> THEN Vec!Done(v)
          ELSE IF ~e.ok THEN Vec!Refused(v) ELSE Vec!Done(h)
  BY Zenon DEF Vec!swap_insert
<1>n. n \in Nat /\ v.size \in Nat /\ n = Len(s)
  BY LenProperties, VecNumbers
<1>1. Roomy(v, e, v.size + n)
  <2>. HIDE DEF n
  <2>. QED
    BY <1>n, VecEnsure
<1>. HIDE DEF e, h, n
<1>2. CASE i > v.size \/ (s # << >> /\ ~ e.ok)
  <2>1. g = Vec!Refused(v)
    BY <1>0, <1>2, Zenon
  <2>2. VecOk(g.is) /\ g.is = v /\ ~ g.ok
    BY <2>1, VecRefused
  <2>. QED
    BY <2>2, Zenon DEF SwapInserted
<1>3. CASE ~ (i > v.size) /\ s = << >>
  <2>1. g = Vec!Done(v)
    BY <1>0, <1>3, Zenon
  <2>2. g.ok /\ g.is = v
    BY <2>1 DEF Vec!Done
  <2>3. i <= v.size /\ Len(s) = 0 /\ i + Len(s) = i
    BY <1>3, <1>n, EmptySeq
  <2>. DEFINE c == Vec!Contents(v)
  <2>4. c \in Seq(Values) /\ Len(c) = v.size /\ \A k \in 1 .. v.size : c[k] = v.block[k]
    BY VecContents
  <2>. DEFINE p == SubSeq(c, 1, i)
              q == Vec!First(v, i) \o s
  <2>. HIDE DEF c
  <2>5. c \o s = c
    BY <1>3, <2>4, ConcatEmptySeq
  <2>6. Vec!SameElements(c, c \o s)
    BY <2>4, <2>5, SameAsItself
  <2>7. p \in Seq(Values) /\ Len(p) = i /\ \A k \in 1 .. i : p[k] = c[k]
    <3>. HIDE DEF p
    <3>. QED
      BY <2>3, <2>4, PrefixIs DEF p
  <2>8. q \in Seq(Values) /\ Len(q) = i /\ \A k \in 1 .. i : q[k] = v.block[k]
    <3>1. q = Vec!First(v, i) \o s /\ i = i + Len(s)
      BY <2>3
    <3>. HIDE DEF q
    <3>2. Starts(q, v, i, s, i)
      BY <2>3, <3>1, VecStart
    <3>. QED
      BY <3>2 DEF Starts
  <2>. HIDE DEF p, q
  <2>9. p = q
    <3>1. \A k \in 1 .. i : k \in 1 .. v.size
      BY <1>n, <2>3
    <3>2. Len(p) = Len(q) /\ \A k \in 1 .. Len(q) : p[k] = q[k]
      BY <2>4, <2>7, <2>8, <3>1
    <3>. QED
      BY <2>7, <2>8, <3>2, SameBlock
  <2>10. SwapInserted(v, i, s, g)
    BY <2>2, <2>3, <2>6, <2>9 DEF SwapInserted, c, p, q
  <2>. QED
    BY <2>2, <2>10
<1>4. CASE ~ (i > v.size) /\ s # << >> /\ e.ok
  <2>1. g = Vec!Done(h)
    BY <1>0, <1>4, Zenon
  <2>2. i <= v.size
    BY <1>4, <1>n
  <2>3. e.is \in VecType /\ e.is.size = v.size
    BY <1>1, <1>4, <1>n, VecRoomed
  <2>4. h = Record(b, v.size + n, e.is.capacity)
    <3>. HIDE DEF b
    <3>1. h = [block |-> b, size |-> e.is.size + n, capacity |-> e.is.capacity]
      BY <2>3, VecBack DEF h
    <3>. QED
      BY <2>3, <3>1 DEF Record
  <2>5. y = Vec!Least(n, v.size - i) /\ a = Vec!memmove(x, v.size, x, i, y) /\ b = Vec!Write(a, i, s) /\ x = e.is.block
    BY <2>3
  <2>. HIDE DEF a, b, x, y
  <2>6. VecOk(g.is) /\ SwapInserted(v, i, s, g)
    BY <1>1, <1>n, <1>4, <2>1, <2>2, <2>4, <2>5, VecSwapIn
  <2>. QED
    BY <2>6
<1>. QED
  BY <1>2, <1>3, <1>4

\* The counts an operation is given.
LEMMA CountsAre == ASSUME Limits PROVE \A n \in 0 .. Limit + 1 : n \in Nat
BY DEF Limits

\* What a vector becomes of items.
ItemsAgree(v, m, s) ==
    /\ Vec!Becomes(v, Vec!push_back(v, s, m), Vec!Contents(v) \o s)
    /\ Vec!Becomes(v, Vec!try_push_back(v, s, m),
                   Vec!Contents(v) \o SubSeq(s, 1, Vec!Least(Len(s), v.capacity - v.size)))

\* Of an index and items.
ItemsInAgree(v, i, m, s) ==
    /\ Vec!Becomes(v, Vec!insert(v, i, s, m), Vec!First(v, i) \o s \o Vec!From(v, i))
    /\ SwapInserted(v, i, s, Vec!swap_insert(v, i, s, m))

\* Of a count, and of an index and a count.
CountAgrees(v, n, m) ==
    /\ Vec!Becomes(v, Vec!push_back_zeroed(v, n, m), Vec!Contents(v) \o Vec!Fill(n, Vec!Zero))
    /\ Vec!Becomes(v, Vec!allocate(v, n, m), << >>)
    /\ Vec!Becomes(v, Vec!resize(v, n, m), Vec!First(v, n) \o Vec!Fill(n - v.size, Vec!Zero))
    /\ Vec!Becomes(v, Vec!reserve(v, n, m), Vec!Contents(v))
    /\ Vec!Becomes(v, Vec!ensure_free(v, n, m), Vec!Contents(v))
    /\ Vec!Becomes(v, Vec!shrink_to_fit(v, m), Vec!Contents(v))

\* Of a size and a capacity.
SizeAgrees(v, k, n, m) ==
    Vec!Becomes(v, Vec!reallocate(v, k, n, m), Vec!First(v, k) \o Vec!Fill(k - v.size, Vec!Zero))

IndexAgrees(v, i, n, m) ==
    /\ Vec!Becomes(v, Vec!insert_zeroed(v, i, n, m),
                   Vec!First(v, i) \o Vec!Fill(n, Vec!Zero) \o Vec!From(v, i))
    /\ Vec!Becomes(v, Vec!erase(v, i, n), Vec!First(v, i) \o Vec!From(v, i + n))
    /\ SwapErased(v, i, n, Vec!swap_erase(v, i, n))

\* All that VectorAgrees says follows from VecOk.
LEMMA VecAgrees ==
    ASSUME Limits, NEW v, VecOk(v), NEW lists \in SUBSET Seq(Values)
    PROVE  Vec!VectorAgrees(v, lists)
<1>0. v.size \in Nat
  BY VecNumbers
<1>c. \A n \in 0 .. Limit + 1 : n \in Nat
  BY CountsAre
<1>1. Vec!is_valid(v) /\ v.capacity <= Len(v.block)
  BY DEF VecOk
<1>2. ASSUME NEW m \in BOOLEAN, NEW s \in lists PROVE ItemsAgree(v, m, s)
  <2>1. s \in Seq(Values)
    OBVIOUS
  <2>2. Vec!Becomes(v, Vec!push_back(v, s, m), Vec!Contents(v) \o s)
    BY <2>1, VecPushBack
  <2>3. Vec!Becomes(v, Vec!try_push_back(v, s, m),
                    Vec!Contents(v) \o SubSeq(s, 1, Vec!Least(Len(s), v.capacity - v.size)))
    BY <2>1, VecTryPushBack
  <2>. QED
    BY <2>2, <2>3, Zenon DEF ItemsAgree
<1>3. ASSUME NEW i \in 0 .. v.size, NEW m \in BOOLEAN, NEW s \in lists PROVE ItemsInAgree(v, i, m, s)
  <2>1. s \in Seq(Values) /\ i \in Nat /\ i <= v.size
    BY <1>0
  <2>2. Vec!Becomes(v, Vec!insert(v, i, s, m), Vec!First(v, i) \o s \o Vec!From(v, i))
    BY <2>1, VecInsert
  <2>3. SwapInserted(v, i, s, Vec!swap_insert(v, i, s, m))
    BY <2>1, VecSwapInsert
  <2>. QED
    BY <2>2, <2>3, Zenon DEF ItemsInAgree
<1>4. ASSUME NEW n \in 0 .. Limit + 1, NEW m \in BOOLEAN PROVE CountAgrees(v, n, m)
  <2>1. n \in Nat
    BY <1>c
  <2>2. Vec!Becomes(v, Vec!push_back_zeroed(v, n, m), Vec!Contents(v) \o Vec!Fill(n, Vec!Zero))
    BY <2>1, VecPushZeroed
  <2>3. Vec!Becomes(v, Vec!allocate(v, n, m), << >>)
    BY <2>1, VecAllocate
  <2>4. Vec!Becomes(v, Vec!resize(v, n, m), Vec!First(v, n) \o Vec!Fill(n - v.size, Vec!Zero))
    BY <2>1, VecResize
  <2>5. Vec!Becomes(v, Vec!reserve(v, n, m), Vec!Contents(v))
    BY <2>1, VecReserve DEF Roomy
  <2>6. Vec!Becomes(v, Vec!ensure_free(v, n, m), Vec!Contents(v))
    BY <2>1, VecEnsure DEF Roomy
  <2>7. Vec!Becomes(v, Vec!shrink_to_fit(v, m), Vec!Contents(v))
    BY VecShrink
  <2>. QED
    BY <2>2, <2>3, <2>4, <2>5, <2>6, <2>7, Zenon DEF CountAgrees
<1>5. ASSUME NEW n \in 0 .. Limit + 1, NEW m \in BOOLEAN, NEW k \in 0 .. Limit + 1 PROVE SizeAgrees(v, k, n, m)
  <2>1. n \in Nat /\ k \in Nat
    BY <1>c
  <2>. QED
    BY <2>1, VecReallocate DEF SizeAgrees
<1>6. ASSUME NEW i \in 0 .. v.size, NEW n \in 1 .. Limit, NEW m \in BOOLEAN PROVE IndexAgrees(v, i, n, m)
  <2>1. i \in Nat /\ n \in Nat
    BY <1>0 DEF Limits
  <2>2. Vec!Becomes(v, Vec!insert_zeroed(v, i, n, m), Vec!First(v, i) \o Vec!Fill(n, Vec!Zero) \o Vec!From(v, i))
    BY <2>1, VecInsertZeroed
  <2>3. Vec!Becomes(v, Vec!erase(v, i, n), Vec!First(v, i) \o Vec!From(v, i + n))
    BY <2>1, VecErase
  <2>4. SwapErased(v, i, n, Vec!swap_erase(v, i, n))
    BY <2>1, VecSwapErase
  <2>. QED
    BY <2>2, <2>3, <2>4, Zenon DEF IndexAgrees
<1>7. ASSUME NEW n \in 0 .. Limit + 1
      PROVE  Popped(v, n, Vec!pop_back(v, n), Vec!pop_back_preserve_order(v, n))
  <2>1. n \in Nat
    BY <1>c
  <2>. QED
    BY <2>1, VecPop
<1>. QED
  BY <1>1, <1>2, <1>3, <1>4, <1>5, <1>6, <1>7, Zenon
     DEF Vec!VectorAgrees, ItemsAgree, ItemsInAgree, CountAgrees, SizeAgrees, IndexAgrees, SwapInserted,
         SwapErased, Popped

\* No request leaves a vector that is not sound.
LEMMA VecSteps ==
    ASSUME Limits, NEW v, VecOk(v), NEW lists \in SUBSET Seq(Values), NEW x \in Vec!Steps(v, lists)
    PROVE  VecOk(x)
<1>c. \A n \in 0 .. Limit + 1 : n \in Nat
  BY CountsAre
<1>1. CASE x = Vec!NoVector
  BY <1>1, NoVec
<1>2. CASE x \in {Vec!pop_back(v, n).is : n \in 0 .. Limit + 1}
  <2>1. PICK n \in 0 .. Limit + 1 : x = Vec!pop_back(v, n).is
    BY <1>2
  <2>2. n \in Nat
    BY <1>c
  <2>3. VecOk(Vec!pop_back(v, n).is)
    BY <2>2, VecPop
  <2>. QED
    BY <2>1, <2>3
<1>3. ASSUME NEW s \in lists, NEW m \in BOOLEAN, NEW g \in Vec!WithItems(v, s, m) PROVE VecOk(g.is)
  <2>1. s \in Seq(Values)
    OBVIOUS
  <2>2. VecOk(Vec!push_back(v, s, m).is)
    BY <2>1, VecPushBack
  <2>3. VecOk(Vec!try_push_back(v, s, m).is)
    BY <2>1, VecTryPushBack
  <2>4. g = Vec!push_back(v, s, m) \/ g = Vec!try_push_back(v, s, m)
    BY Zenon DEF Vec!WithItems
  <2>. QED
    BY <2>2, <2>3, <2>4, Zenon
<1>4. ASSUME NEW n \in 0 .. Limit + 1, NEW m \in BOOLEAN, NEW g \in Vec!WithCount(v, n, m) PROVE VecOk(g.is)
  <2>1. n \in Nat
    BY <1>c
  <2>2. VecOk(Vec!push_back_uninit(v, n, m).is)
    BY <2>1, VecPushUninit
  <2>3. VecOk(Vec!push_back_zeroed(v, n, m).is)
    BY <2>1, VecPushZeroed
  <2>4. VecOk(Vec!allocate(v, n, m).is)
    BY <2>1, VecAllocate
  <2>5. VecOk(Vec!resize(v, n, m).is)
    BY <2>1, VecResize
  <2>6. VecOk(Vec!reserve(v, n, m).is)
    BY <2>1, VecReserve DEF Roomy
  <2>7. VecOk(Vec!ensure_free(v, n, m).is)
    BY <2>1, VecEnsure DEF Roomy
  <2>8. VecOk(Vec!set_size(v, n).is)
    BY <2>1, VecSetSize
  <2>9. VecOk(Vec!shrink_to_fit(v, m).is)
    BY VecShrink
  <2>10. \A k \in 0 .. Limit + 1 : VecOk(Vec!reallocate(v, k, n, m).is)
    <3>. SUFFICES ASSUME NEW k \in 0 .. Limit + 1 PROVE VecOk(Vec!reallocate(v, k, n, m).is)
      OBVIOUS
    <3>1. k \in Nat
      BY <1>c
    <3>. QED
      BY <2>1, <3>1, VecReallocate
  <2>11. \/ g = Vec!push_back_uninit(v, n, m) \/ g = Vec!push_back_zeroed(v, n, m) \/ g = Vec!allocate(v, n, m)
         \/ g = Vec!resize(v, n, m) \/ g = Vec!reserve(v, n, m) \/ g = Vec!ensure_free(v, n, m)
         \/ g = Vec!set_size(v, n) \/ g = Vec!shrink_to_fit(v, m)
         \/ \E k \in 0 .. Limit + 1 : g = Vec!reallocate(v, k, n, m)
    BY Zenon DEF Vec!WithCount
  <2>. QED
    BY <2>2, <2>3, <2>4, <2>5, <2>6, <2>7, <2>8, <2>9, <2>10, <2>11, Zenon
<1>5. ASSUME NEW i \in 0 .. Limit + 1, NEW n \in 0 .. Limit + 1, NEW m \in BOOLEAN,
             NEW g \in Vec!WithIndex(v, i, n, m)
      PROVE  VecOk(g.is)
  <2>1. n \in Nat /\ i \in Nat
    BY <1>c
  <2>2. VecOk(Vec!insert_uninit(v, i, n, m).is)
    BY <2>1, VecInsertUninit
  <2>3. VecOk(Vec!insert_zeroed(v, i, n, m).is)
    BY <2>1, VecInsertZeroed
  <2>4. VecOk(Vec!erase(v, i, n).is)
    BY <2>1, VecErase
  <2>5. VecOk(Vec!swap_erase(v, i, n).is)
    BY <2>1, VecSwapErase
  <2>6. \/ g = Vec!insert_uninit(v, i, n, m) \/ g = Vec!insert_zeroed(v, i, n, m)
        \/ g = Vec!erase(v, i, n) \/ g = Vec!swap_erase(v, i, n)
    BY Zenon DEF Vec!WithIndex
  <2>. QED
    BY <2>2, <2>3, <2>4, <2>5, <2>6, Zenon
<1>6. ASSUME NEW i \in 0 .. Limit + 1, NEW s \in lists, NEW m \in BOOLEAN
      PROVE  VecOk(Vec!insert(v, i, s, m).is) /\ VecOk(Vec!swap_insert(v, i, s, m).is)
  <2>1. i \in Nat /\ s \in Seq(Values)
    BY <1>c
  <2>2. VecOk(Vec!insert(v, i, s, m).is)
    BY <2>1, VecInsert
  <2>3. VecOk(Vec!swap_insert(v, i, s, m).is)
    BY <2>1, VecSwapInsert
  <2>. QED
    BY <2>2, <2>3
<1>7. \/ x = Vec!NoVector
      \/ x \in {Vec!pop_back(v, n).is : n \in 0 .. Limit + 1}
      \/ \E s \in lists, m \in BOOLEAN : \E g \in Vec!WithItems(v, s, m) : x = g.is
      \/ \E n \in 0 .. Limit + 1, m \in BOOLEAN : \E g \in Vec!WithCount(v, n, m) : x = g.is
      \/ \E i, n \in 0 .. Limit + 1, m \in BOOLEAN : \E g \in Vec!WithIndex(v, i, n, m) : x = g.is
      \/ \E i \in 0 .. Limit + 1, s \in lists, m \in BOOLEAN :
            x = Vec!insert(v, i, s, m).is \/ x = Vec!swap_insert(v, i, s, m).is
  <2>1. \/ x = Vec!NoVector \/ x \in {Vec!pop_back(v, n).is : n \in 0 .. Limit + 1}
        \/ x \in {g.is : g \in Vec!Outcomes(v, lists)}
    BY DEF Vec!Steps
  <2>2. CASE x \in {g.is : g \in Vec!Outcomes(v, lists)}
    <3>1. PICK g \in Vec!Outcomes(v, lists) : x = g.is
      BY <2>2
    <3>2. \/ \E s \in lists, m \in BOOLEAN : g \in Vec!WithItems(v, s, m)
          \/ \E n \in 0 .. Limit + 1, m \in BOOLEAN : g \in Vec!WithCount(v, n, m)
          \/ \E i, n \in 0 .. Limit + 1, m \in BOOLEAN : g \in Vec!WithIndex(v, i, n, m)
          \/ \E i \in 0 .. Limit + 1, s \in lists, m \in BOOLEAN :
                g = Vec!insert(v, i, s, m) \/ g = Vec!swap_insert(v, i, s, m)
      BY DEF Vec!Outcomes
    <3>. QED
      BY <3>1, <3>2, Zenon
  <2>. QED
    BY <2>1, <2>2, Zenon
<1>8. CASE \/ \E s \in lists, m \in BOOLEAN : \E g \in Vec!WithItems(v, s, m) : x = g.is
           \/ \E n \in 0 .. Limit + 1, m \in BOOLEAN : \E g \in Vec!WithCount(v, n, m) : x = g.is
           \/ \E i, n \in 0 .. Limit + 1, m \in BOOLEAN : \E g \in Vec!WithIndex(v, i, n, m) : x = g.is
           \/ \E i \in 0 .. Limit + 1, s \in lists, m \in BOOLEAN :
                 x = Vec!insert(v, i, s, m).is \/ x = Vec!swap_insert(v, i, s, m).is
  BY <1>3, <1>4, <1>5, <1>6, <1>8, Zenon
<1>. QED
  BY <1>1, <1>2, <1>7, <1>8, Zenon

\* A vector that is given any requests, one after the other.
VARIABLE vector
VectorSpec == vector = Vec!NoVector /\ [][vector' \in Vec!Steps(vector, Seq(Elements))]_vector

(***************************************************************************)
(* Whatever was done to a TPodVector before, whatever its capacity: each   *)
(* operation makes the list it holds the one that its name says, at the    *)
(* back, at an index, with swaps of elements that lose none, or with       *)
(* memory exchanged; and a request that is refused or gets no memory       *)
(* changes nothing.                                                        *)
(***************************************************************************)
THEOREM VectorKept ==
    ASSUME Limits
    PROVE  VectorSpec => []Vec!VectorAgrees(vector, Seq(Elements))
<1>0. Seq(Elements) \in SUBSET Seq(Values)
  BY ListsAre
<1>1. vector = Vec!NoVector => VecOk(vector)
  BY NoVec
<1>2. VecOk(vector) /\ [vector' \in Vec!Steps(vector, Seq(Elements))]_vector => VecOk(vector)'
  <2>1. ASSUME VecOk(vector), vector' \in Vec!Steps(vector, Seq(Elements)) PROVE VecOk(vector')
    BY <1>0, <2>1, VecSteps
  <2>2. ASSUME VecOk(vector), vector' = vector PROVE VecOk(vector')
    BY <2>2
  <2>. QED
    BY <2>1, <2>2
<1>3. VecOk(vector) => Vec!VectorAgrees(vector, Seq(Elements))
  BY <1>0, VecAgrees
<1>. QED
  BY <1>1, <1>2, <1>3, PTL DEF VectorSpec
=============================================================================
