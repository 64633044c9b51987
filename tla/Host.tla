------------------------------- MODULE Host --------------------------------
(***************************************************************************)
(* host() of host.cpp with the threads it runs: bg_file_io and             *)
(* bg_conditioning (CHostWorkerThread) and application                     *)
(* (CApplicationThread), each in a package (module ThreadPackage).         *)
(*                                                                         *)
(* The application asks for an image to be loaded and then to be saved.    *)
(* The host breaks both requests down, sends the parts to the workers and  *)
(* passes the results on, until the application has exited; then it shuts  *)
(* the threads down, as it does when one of them could not be started.     *)
(* An image or a file is "full" or "empty", which is how failure is told.  *)
(***************************************************************************)
EXTENDS ThreadPackage

VARIABLES
    hpc, index,         \* the host's place and its thread_index
    slots, placed,      \* thread_slots and the slots of thread_packages in use
    at,                 \* the package whose messages the host is reading
    outbound, back,     \* the host's message under way, and where it goes on
    view,               \* async_tga_load and async_tga_save
    hand,               \* per thread: the message it is handling
    updated, tgaState,  \* the application's state_updated and tga_state,
    loaded, saved,      \* tga_load and tga_save
    written             \* history: what saveFile() answered

hostVars == <<hpc, index, slots, placed, at, outbound, back, view>>
appVars == <<updated, tgaState, loaded, saved>>
vars == <<packageVars, hostVars, hand, appVars, written>>

Thread == <<"bg_file_io", "bg_conditioning", "application">>
Application == "application"
Workers == {"bg_file_io", "bg_conditioning"}

ASSUME HostAssumption == Packages = {Thread[i] : i \in 1 .. 3}

Msg(id, data) == [id |-> id, data |-> data]
NoMsg == Msg("none", "none")
Outcome == {"empty", "full"}

\* The host's variable that a message to a thread points at.
Variables == {"load.view", "load.rect_view", "save.rect_view", "save.view"}
PointsAt(id) ==
    CASE id = "TgaDecodeRequest" -> "load.view"
      [] id = "TgaLoadResult" -> "load.rect_view"
      [] id = "TgaEncodeRequest" -> "save.rect_view"
      [] id = "FileSaveRequest" -> "save.view"
      [] OTHER -> "none"

Init ==
    /\ PackageInit
    /\ hpc = "emplace" /\ index = 1
    /\ slots = [i \in 1 .. 3 |-> 1] /\ placed = {}
    /\ at = 3 /\ outbound = NoMsg /\ back = "read"
    /\ view = [v \in Variables |-> "none"]
    /\ hand = [p \in Packages |-> NoMsg]
    /\ updated = FALSE /\ tgaState = "waiting_for_tga_load"
    /\ loaded = "none" /\ saved = "none"
    /\ written = "none"

----------------------------------------------------------------------------
(* host(): start-up.  Slots are counted from 1; thread_slots starts as     *)
(* three times the first slot, as it does in the code.                     *)

HostGoesTo(place) == hpc' = place /\ UNCHANGED <<at, outbound, back, view>>

\* initialise() and emplace() allocate, and so may fail.
EmplaceFails ==
    /\ hpc = "emplace"
    /\ HostGoesTo("shutdown") /\ index' = 3
    /\ UNCHANGED <<packageVars, slots, placed, hand, appVars, written>>

Emplace ==
    /\ hpc = "emplace"
    /\ slots' = [slots EXCEPT ![index] = index]
    /\ placed' = placed \cup {index}
    /\ HostGoesTo("startup")
    /\ UNCHANGED <<packageVars, index, hand, appVars, written>>

\* startup() fails before there is a thread, and takes back all it did.
StartupFails ==
    /\ hpc = "startup"
    /\ HostGoesTo("shutdown") /\ index' = 3
    /\ UNCHANGED <<packageVars, slots, placed, hand, appVars, written>>

StartupCreates ==
    /\ hpc = "startup"
    /\ Creates(Thread[index])
    /\ HostGoesTo("starting")
    /\ UNCHANGED <<index, slots, placed, hand, appVars, written>>

StartupSpins ==
    /\ hpc = "starting" /\ ~IsStarting(Thread[index])
    /\ HostGoesTo("check")
    /\ UNCHANGED <<packageVars, index, slots, placed, hand, appVars, written>>

MoreThreads(i) == i < 3

\* The thread that is not ready would be joined and given up: "unready".
StartupChecks ==
    /\ hpc = "check"
    /\ IF ~IsReady(Thread[index]) THEN HostGoesTo("unready") /\ UNCHANGED index
       ELSE IF MoreThreads(index) THEN HostGoesTo("emplace") /\ index' = index + 1
       ELSE HostGoesTo("query") /\ UNCHANGED index
    /\ UNCHANGED <<packageVars, slots, placed, hand, appVars, written>>

----------------------------------------------------------------------------
(* host(): the message loop.  The packages are visited as first_live() and *)
(* next_live() give them: the one emplaced last comes first.               *)

HostQueries ==
    /\ hpc = "query"
    /\ IF runState[Application] # "Exited"
       THEN hpc' = "read" /\ at' = 3 /\ UNCHANGED index
       ELSE hpc' = "shutdown" /\ index' = 3 /\ UNCHANGED at
    /\ UNCHANGED <<packageVars, slots, placed, outbound, back, view, hand, appVars, written>>

\* The message that answers m, and the thread it goes to.
Answer(m) ==
    CASE m.id = "FileSaveResult" -> [to |-> Application, msg |-> Msg("TgaSaveResult", m.data)]
      [] m.id = "TgaLoadRequest" -> [to |-> "bg_file_io", msg |-> Msg("FileLoadRequest", "none")]
      [] m.id = "TgaSaveRequest" -> [to |-> "bg_conditioning", msg |-> Msg("TgaEncodeRequest", "none")]
      [] m.id = "OwningFileLoadResult" -> [to |-> "bg_conditioning", msg |-> Msg("TgaDecodeRequest", "none")]
      [] m.id = "OwningTgaEncodeResult" -> [to |-> "bg_file_io", msg |-> Msg("FileSaveRequest", "none")]
      [] m.id = "OwningTgaDecodeResult" -> [to |-> Application, msg |-> Msg("TgaLoadResult", "none")]
      [] OTHER -> NoMsg

\* Mutant: the encoded file is kept where the decoded image is.
KeptInRect(m) ==
    CASE m.id = "TgaSaveRequest" -> [view EXCEPT !["save.rect_view"] = loaded]
      [] m.id = "OwningFileLoadResult" -> [view EXCEPT !["load.view"] = m.data]
      [] m.id \in {"OwningTgaEncodeResult", "OwningTgaDecodeResult"} ->
             [view EXCEPT !["load.rect_view"] = m.data]
      [] OTHER -> view

\* The variable the host keeps the contents of m in.  The view in a
\* TgaSaveRequest is the application's copy of load.rect_view.
Kept(m) ==
    CASE m.id = "TgaSaveRequest" -> [view EXCEPT !["save.rect_view"] = loaded]
      [] m.id = "OwningFileLoadResult" -> [view EXCEPT !["load.view"] = m.data]
      [] m.id = "OwningTgaEncodeResult" -> [view EXCEPT !["save.view"] = m.data]
      [] m.id = "OwningTgaDecodeResult" -> [view EXCEPT !["load.rect_view"] = m.data]
      [] OTHER -> view

Handles(m, next) ==
    /\ view' = Kept(m)
    /\ IF Answer(m) = NoMsg
       THEN hpc' = next /\ UNCHANGED <<outbound, back>>
       ELSE hpc' = "post" /\ outbound' = Answer(m) /\ back' = next
    /\ UNCHANGED at

HostReads ==
    /\ hpc = "read"
    /\ LET p == Thread[at] IN
       IF toHost[p] = <<>>
       THEN HostGoesTo("take") /\ UNCHANGED toHost
       ELSE /\ toHost' = [toHost EXCEPT ![p] = Tail(@)]
            /\ Handles(Head(toHost[p]), "read")
    /\ UNCHANGED <<toWorker, owned, word, hasControl, control, created, pc, epoch>>
    /\ UNCHANGED <<index, slots, placed, hand, appVars, written>>

HostTakes ==
    /\ hpc = "take"
    /\ LET p == Thread[at] IN
       IF owned[p] = <<>>
       THEN /\ IF at > 1 THEN hpc' = "read" /\ at' = at - 1
               ELSE hpc' = "query" /\ UNCHANGED at
            /\ UNCHANGED <<owned, outbound, back, view>>
       ELSE /\ owned' = [owned EXCEPT ![p] = Tail(@)]
            /\ Handles(Head(owned[p]), "take")
    /\ UNCHANGED <<toWorker, toHost, word, hasControl, control, created, pc, epoch>>
    /\ UNCHANGED <<index, slots, placed, hand, appVars, written>>

HostPosts ==
    /\ hpc = "post"
    /\ Sends(outbound.to, outbound.msg)
    /\ HostGoesTo("poke")
    /\ UNCHANGED <<toHost, owned, word, hasControl, control, created, pc, epoch>>
    /\ UNCHANGED <<index, slots, placed, hand, appVars, written>>

HostPokes ==
    /\ hpc = "poke" /\ hasControl[outbound.to]
    /\ Pokes(outbound.to)
    /\ HostGoesTo("wake")
    /\ UNCHANGED <<queues, hasControl, control, created, pc, epoch>>
    /\ UNCHANGED <<index, slots, placed, hand, appVars, written>>

HostWakes ==
    /\ hpc = "wake"
    /\ Wakes(outbound.to)
    /\ hpc' = back /\ outbound' = NoMsg /\ back' = "read" /\ UNCHANGED <<at, view>>
    /\ UNCHANGED <<queues, word, hasControl, control, created, epoch>>
    /\ UNCHANGED <<index, slots, placed, hand, appVars, written>>

----------------------------------------------------------------------------
(* host(): shutdown of every thread_slots entry, the last first *)

\* Mutant: the first entry is left out.
LastToShutDown(i) == i = 2

FirstEntry(i) == i = 1

NextEntry ==
    IF FirstEntry(index) THEN HostGoesTo("returned") /\ UNCHANGED index
    ELSE HostGoesTo("shutdown") /\ index' = index - 1

ShutThread == Thread[slots[index]]

\* get_object() of a slot without an object returns a null pointer.
ShutdownFindsNothing ==
    /\ hpc = "shutdown" /\ slots[index] \notin placed
    /\ HostGoesTo("undefined")
    /\ UNCHANGED <<packageVars, index, slots, placed, hand, appVars, written>>

ShutdownSkips ==
    /\ hpc = "shutdown" /\ slots[index] \in placed
    /\ ~(created[ShutThread] /\ hasControl[ShutThread])
    /\ NextEntry
    /\ UNCHANGED <<packageVars, slots, placed, hand, appVars, written>>

ShutdownRequests ==
    /\ hpc = "shutdown" /\ slots[index] \in placed
    /\ created[ShutThread] /\ hasControl[ShutThread]
    /\ RequestsExit(ShutThread)
    /\ HostGoesTo("release")
    /\ UNCHANGED <<queues, word, hasControl, runState, failure, created, pc, epoch>>
    /\ UNCHANGED <<index, slots, placed, hand, appVars, written>>

ShutdownReleases ==
    /\ hpc = "release"
    /\ ReleasesWord(ShutThread)
    /\ HostGoesTo("free")
    /\ UNCHANGED <<queues, hasControl, control, created, pc, epoch>>
    /\ UNCHANGED <<index, slots, placed, hand, appVars, written>>

ShutdownWakes ==
    /\ hpc = "free"
    /\ Wakes(ShutThread) /\ DropsControl(ShutThread)
    /\ HostGoesTo("await")
    /\ UNCHANGED <<queues, word, control, created, epoch>>
    /\ UNCHANGED <<index, slots, placed, hand, appVars, written>>

ShutdownAwaits ==
    /\ hpc = "await" /\ IsDone(ShutThread)
    /\ HostGoesTo("join")
    /\ UNCHANGED <<packageVars, index, slots, placed, hand, appVars, written>>

ShutdownJoins ==
    /\ hpc = "join"
    /\ Joins(ShutThread)
    /\ NextEntry
    /\ UNCHANGED <<queues, word, hasControl, control, pc, epoch>>
    /\ UNCHANGED <<slots, placed, hand, appVars, written>>

----------------------------------------------------------------------------
(* The threads *)

\* startup() of the thread's context.
ThreadStarts(p) ==
    /\ pc[p] = "startup"
    /\ Marks(p, "Startup")
    /\ GoesTo(p, IF p = Application THEN "kick" ELSE "top")
    /\ UNCHANGED <<queues, word, hasControl, exitRequest, failure, created, epoch>>
    /\ UNCHANGED <<hostVars, hand, appVars, written>>

\* CHostWorkerThread::main().  A message is read only after a look at the request.
WorkerChecks(p) ==
    /\ pc[p] = "top"
    /\ GoesTo(p, IF exitRequest[p] THEN "exit" ELSE "read")
    /\ UNCHANGED <<queues, word, hasControl, control, created, epoch>>
    /\ UNCHANGED <<hostVars, hand, appVars, written>>

WorkerReads(p) ==
    /\ pc[p] = "read"
    /\ IF toWorker[p] = <<>>
       THEN GoesTo(p, "wait") /\ UNCHANGED <<toWorker, hand>>
       ELSE /\ hand' = [hand EXCEPT ![p] = Head(toWorker[p])]
            /\ toWorker' = [toWorker EXCEPT ![p] = Tail(@)]
            /\ GoesTo(p, "serve")
    /\ UNCHANGED <<toHost, owned, word, hasControl, control, created, epoch>>
    /\ UNCHANGED <<hostVars, appVars, written>>

\* Loading, decoding, encoding and saving may fail, and do for want of input,
\* which the thread finds in the host's variable.
Results(id) ==
    IF id = "FileLoadRequest" \/ view[PointsAt(id)] = "full" THEN Outcome ELSE {"empty"}

ResultOf ==
    [FileLoadRequest |-> "OwningFileLoadResult",
     TgaEncodeRequest |-> "OwningTgaEncodeResult",
     TgaDecodeRequest |-> "OwningTgaDecodeResult"]

\* A result that does not fit into the ring is dropped unseen.
PassesOwnership(p, m) ==
    owned' = IF Len(owned[p]) < KOwnedCapacity THEN [owned EXCEPT ![p] = Append(@, m)]
             ELSE owned

WorkerServes(p) ==
    /\ pc[p] = "serve"
    /\ \E data \in Results(hand[p].id) :
         IF hand[p].id = "FileSaveRequest"
         THEN /\ toHost' = [toHost EXCEPT ![p] = Append(@, Msg("FileSaveResult", data))]
              /\ written' = data /\ UNCHANGED owned
         ELSE /\ PassesOwnership(p, Msg(ResultOf[hand[p].id], data))
              /\ UNCHANGED <<toHost, written>>
    /\ hand' = [hand EXCEPT ![p] = NoMsg]
    /\ GoesTo(p, "top")
    /\ UNCHANGED <<toWorker, word, hasControl, control, created, epoch, hostVars, appVars>>

WorkerStep(p) == WorkerChecks(p) \/ WorkerReads(p) \/ WorkerServes(p)

----------------------------------------------------------------------------
(* CApplicationThread::main() *)

AppPosts(id) ==
    toHost' = [toHost EXCEPT ![Application] = Append(@, Msg(id, "none"))]

AppKicksOff ==
    /\ pc[Application] = "kick"
    /\ AppPosts("TgaLoadRequest")
    /\ GoesTo(Application, "run")
    /\ UNCHANGED <<toWorker, owned, word, hasControl, control, created, epoch>>
    /\ UNCHANGED <<hostVars, hand, appVars, written>>

AppRuns ==
    /\ pc[Application] = "run"
    /\ Marks(Application, "Running")
    /\ GoesTo(Application, "top")
    /\ UNCHANGED <<queues, word, hasControl, exitRequest, failure, created, epoch>>
    /\ UNCHANGED <<hostVars, hand, appVars, written>>

\* The outer and the inner loop look at the exit request.
AppChecks ==
    /\ pc[Application] = "top"
    /\ GoesTo(Application, IF exitRequest[Application] THEN "exit" ELSE "drain")
    /\ updated' = FALSE
    /\ UNCHANGED <<queues, word, hasControl, control, created, epoch>>
    /\ UNCHANGED <<hostVars, hand, tgaState, loaded, saved, written>>

AppDrains ==
    /\ pc[Application] = "drain"
    /\ GoesTo(Application, IF exitRequest[Application] THEN "decide" ELSE "read")
    /\ UNCHANGED <<queues, word, hasControl, control, created, epoch>>
    /\ UNCHANGED <<hostVars, hand, appVars, written>>

AppReads ==
    /\ pc[Application] = "read"
    /\ IF toWorker[Application] = <<>>
       THEN GoesTo(Application, "decide") /\ UNCHANGED <<toWorker, appVars>>
       ELSE LET m == Head(toWorker[Application]) IN
            /\ toWorker' = [toWorker EXCEPT ![Application] = Tail(@)]
            /\ loaded' = IF m.id = "TgaLoadResult" THEN view[PointsAt(m.id)] ELSE loaded
            /\ saved' = IF m.id = "TgaSaveResult" THEN m.data ELSE saved
            /\ updated' = TRUE
            /\ GoesTo(Application, "drain")
            /\ UNCHANGED tgaState
    /\ UNCHANGED <<toHost, owned, word, hasControl, control, created, epoch>>
    /\ UNCHANGED <<hostVars, hand, written>>

AppIdles ==
    /\ pc[Application] = "decide"
    /\ ~updated \/ (tgaState = "waiting_for_tga_load" /\ loaded = "none")
    /\ GoesTo(Application, "top")
    /\ UNCHANGED <<queues, word, hasControl, control, created, epoch>>
    /\ UNCHANGED <<hostVars, hand, appVars, written>>

AppSaves ==
    /\ pc[Application] = "decide" /\ updated
    /\ tgaState = "waiting_for_tga_load" /\ loaded = "full"
    /\ AppPosts("TgaSaveRequest")
    /\ tgaState' = "waiting_for_tga_save"
    /\ GoesTo(Application, "top")
    /\ UNCHANGED <<toWorker, owned, word, hasControl, control, created, epoch>>
    /\ UNCHANGED <<hostVars, hand, updated, loaded, saved, written>>

\* A save that is not complete leaves the loop as well: "test force exit".
AppFinishes ==
    /\ pc[Application] = "decide" /\ updated
    /\ tgaState = "waiting_for_tga_save" /\ saved # "empty"
    /\ tgaState' = IF saved = "full" THEN "done" ELSE tgaState
    /\ GoesTo(Application, "exit")
    /\ UNCHANGED <<queues, word, hasControl, control, created, epoch>>
    /\ UNCHANGED <<hostVars, hand, updated, loaded, saved, written>>

\* Mutant: the code of a failed save is that of a failed load.
CodeOfLoad == 1

FailureCode == IF tgaState = "waiting_for_tga_load" THEN 1 ELSE 2

\* mark_failed(): the code, then the state.
AppFails ==
    /\ pc[Application] = "decide" /\ updated
    /\ IF tgaState = "waiting_for_tga_load" THEN loaded = "empty" ELSE saved = "empty"
    /\ failure' = [failure EXCEPT ![Application] = FailureCode]
    /\ GoesTo(Application, "fail")
    /\ UNCHANGED <<queues, word, hasControl, exitRequest, runState, created, epoch>>
    /\ UNCHANGED <<hostVars, hand, appVars, written>>

AppMarksFailed ==
    /\ pc[Application] = "fail"
    /\ Marks(Application, "Failed")
    /\ GoesTo(Application, "exit")
    /\ UNCHANGED <<queues, word, hasControl, exitRequest, failure, created, epoch>>
    /\ UNCHANGED <<hostVars, hand, appVars, written>>

AppStep ==
    \/ AppKicksOff \/ AppRuns \/ AppChecks \/ AppDrains \/ AppReads
    \/ AppIdles \/ AppSaves \/ AppFinishes \/ AppFails \/ AppMarksFailed

----------------------------------------------------------------------------

HostStep ==
    \/ StartupSpins \/ StartupChecks
    \/ HostQueries \/ HostReads \/ HostTakes \/ HostPosts \/ HostPokes \/ HostWakes
    \/ ShutdownFindsNothing \/ ShutdownSkips \/ ShutdownRequests \/ ShutdownReleases
    \/ ShutdownWakes \/ ShutdownAwaits \/ ShutdownJoins

HostStarts == Emplace \/ EmplaceFails \/ StartupCreates \/ StartupFails

OwnStep(p) == PackageStep(p) /\ UNCHANGED <<hostVars, hand, appVars, written>>
Stirs(p) == WakesSpuriously(p) /\ UNCHANGED <<hostVars, hand, appVars, written>>

ThreadStep(p) ==
    \/ ThreadStarts(p) \/ OwnStep(p)
    \/ p \in Workers /\ WorkerStep(p)
    \/ p = Application /\ AppStep

Next ==
    \/ HostStarts \/ HostStep
    \/ \E p \in Packages : ThreadStep(p) \/ Stirs(p)

Spec == Init /\ [][Next]_vars

\* Every thread runs on; a parked one only when it is woken.
Fairness ==
    /\ WF_vars(HostStarts \/ HostStep)
    /\ \A p \in Packages : WF_vars(ThreadStep(p))

FairSpec == Spec /\ Fairness

----------------------------------------------------------------------------
(* Properties *)

HostPlaces ==
    {"emplace", "startup", "starting", "check", "unready", "query", "read", "take",
     "post", "poke", "wake", "shutdown", "release", "free", "await", "join",
     "returned", "undefined"}

TypeOK ==
    /\ PackageTypeOK
    /\ hpc \in HostPlaces /\ index \in 1 .. 3 /\ at \in 1 .. 3
    /\ slots \in [1 .. 3 -> 1 .. 3] /\ placed \subseteq 1 .. 3
    /\ back \in {"read", "take"}
    /\ hpc \in {"post", "poke", "wake"} => outbound.to \in Packages
    /\ view \in [Variables -> Outcome \cup {"none"}]
    /\ updated \in BOOLEAN
    /\ tgaState \in {"waiting_for_tga_load", "waiting_for_tga_save", "done"}
    /\ {loaded, saved, written} \subseteq Outcome \cup {"none"}

\* The host is about to wake the thread of p.
WakeDue(p) ==
    \/ hpc \in {"poke", "wake"} /\ outbound.to = p
    \/ hpc \in {"release", "free"} /\ ShutThread = p

\* No worker stays parked over a message or a request to exit: post() and
\* shutdown() first make these visible, then change the word, and then wake,
\* and the worker looks at them first, then at the word, and then parks.
NothingSleptThrough ==
    \A p \in Workers :
        pc[p] = "asleep" /\ (toWorker[p] # <<>> \/ exitRequest[p]) => WakeDue(p)

\* startup() takes the state apart in two loads, is_starting() and is_ready():
\* a thread that has started cannot have finished in between.
StartedIsReady == hpc = "check" => IsReady(Thread[index])

\* A variable of the host's is lent to whoever has, or will be given, a message
\* that points at it; the application keeps its view of the image to its end.
Lent(v) ==
    \/ \E p \in Packages : \E m \in {toWorker[p][i] : i \in DOMAIN toWorker[p]} \cup {hand[p]} :
         PointsAt(m.id) = v
    \/ v = "load.rect_view" /\ loaded # "none" /\ pc[Application] \notin {"return", "ended"}

\* The host, which owns async_tga_load and async_tga_save, writes to neither
\* while a thread may be reading through a pointer it was sent.
LentIsKept == [][\A v \in Variables : view'[v] # view[v] => ~Lent(v)]_vars

\* The application's end tells what became of the image: exit was not requested
\* of it before, no result was dropped or taken for another, and the failure
\* code outlives the Failed state, which mark_exited() overwrites.
VerdictIsTrue ==
    pc[Application] = "ended" /\ (\E i \in placed : Thread[i] = Application) =>
        /\ runState[Application] = "Exited"
        /\ failure[Application] = IF view["load.rect_view"] # "full" THEN 1
                                  ELSE IF written # "full" THEN 2 ELSE 0
        /\ tgaState = "done" <=> failure[Application] = 0

\* When host() returns, and its locals are destroyed, no thread is left that
\* could touch them, and every predicate is as its destructor asserts.
NobodyLeftBehind ==
    hpc = "returned" =>
        \A p \in Packages :
            pc[p] \in {"none", "ended"} /\ ~hasControl[p] /\ word[p] = Released

\* host() returns, however the load, the save or the start-up went, once the
\* first package has its place.
HostReturns == (placed # {}) ~> (hpc = "returned")

=============================================================================
