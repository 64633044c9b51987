----------------------------- MODULE HostProofs -----------------------------
(***************************************************************************)
(* Proofs about Host, for any width of the predicates' words and any       *)
(* capacity of the rings of owned objects.                                 *)
(*                                                                         *)
(* The application's two requests go through the host and the workers one  *)
(* after the other, so there is never more than one message under way.     *)
(* The invariant says where it is, and from that what everybody's word,    *)
(* epoch, variables and results are.                                       *)
(***************************************************************************)
EXTENDS Host, TLAPS

USE PackageAssumption, HostAssumption

\* The messages, numbered in the order in which they travel.
Turn ==
    [none |-> 0,
     TgaLoadRequest |-> 1, FileLoadRequest |-> 2, OwningFileLoadResult |-> 3,
     TgaDecodeRequest |-> 4, OwningTgaDecodeResult |-> 5, TgaLoadResult |-> 6,
     TgaSaveRequest |-> 7, TgaEncodeRequest |-> 8, OwningTgaEncodeResult |-> 9,
     FileSaveRequest |-> 10, FileSaveResult |-> 11, TgaSaveResult |-> 12]

Messages == [id : DOMAIN Turn, data : Outcome \cup {"none"}]

\* The two requests that a worker gets.
First(p) == IF p = "bg_file_io" THEN 2 ELSE 4
Second(p) == IF p = "bg_file_io" THEN 10 ELSE 8

\* The message under way: at a place, and at a package of it, or with the
\* application, which has read it or is about to send the first; or gone, when
\* the application has come to its end.
Carriers == {"app", "gone", "outbound", "toWorker", "hand", "toHost", "owned"}
Tokens == [place : Carriers, on : Packages, msg : Messages]

Route(t, turn) ==
    CASE t.place = "gone" -> TRUE
      [] t.place = "app" -> turn \in {0, 6, 12}
      [] t.place \in {"outbound", "toWorker"} ->
            \/ t.on = Application /\ turn \in {6, 12}
            \/ t.on \in Workers /\ turn \in {First(t.on), Second(t.on)}
      [] t.place = "hand" -> t.on \in Workers /\ turn \in {First(t.on), Second(t.on)}
      [] t.place = "toHost" ->
            \/ t.on = Application /\ turn \in {1, 7}
            \/ t.on = "bg_file_io" /\ turn = 11
      [] t.place = "owned" ->
            \/ t.on = "bg_file_io" /\ turn = 3
            \/ t.on = "bg_conditioning" /\ turn \in {5, 9}

Only(t, place, p) == IF t.place = place /\ t.on = p THEN <<t.msg>> ELSE <<>>

StartPlaces == {"emplace", "startup", "starting", "check"}
LoopPlaces == {"query", "read", "take", "post", "poke", "wake"}
EndPlaces == {"shutdown", "release", "free", "await", "join", "returned", "undefined"}
Ending == {"release", "free", "await", "join"}

Unpoked(t) == t.place = "outbound" \/ (t.place = "toWorker" /\ hpc = "poke")

\* Where the message is, and what that says of the application's and the host's place.
Carries(t) ==
    /\ Route(t, Turn[t.msg.id])
    /\ \A p \in Packages :
          /\ toWorker[p] = Only(t, "toWorker", p)
          /\ toHost[p] = Only(t, "toHost", p)
          /\ owned[p] = Only(t, "owned", p)
          /\ hand[p] = IF t.place = "hand" /\ t.on = p THEN t.msg ELSE NoMsg
          /\ pc[p] = "serve" <=> t.place = "hand" /\ t.on = p
    /\ hpc = "post" <=> t.place = "outbound"
    /\ hpc = "post" => outbound = [to |-> t.on, msg |-> t.msg]
    /\ hpc \in {"poke", "wake"} =>
          /\ outbound.to \in Packages
          /\ t.place = "toWorker" => t.on = outbound.to
    /\ hpc = "poke" /\ outbound.to \in Workers /\ t.place # "gone" =>
          t.place = "toWorker" \/ Turn[t.msg.id] >= Second(outbound.to)
    /\ t.place = "owned" => t.msg.data \in Outcome
    /\ pc[Application] \in {"none", "startup", "kick"} <=> t.place = "app" /\ Turn[t.msg.id] = 0
    /\ pc[Application] \in {"drain", "read", "decide"} /\ updated <=>
          t.place = "app" /\ Turn[t.msg.id] \in {6, 12}
    /\ pc[Application] \in {"fail", "exit", "return", "ended"} <=> t.place = "gone"
    /\ hpc \in StartPlaces =>
          (t.place = "app" /\ Turn[t.msg.id] = 0) \/ (t.place = "toHost" /\ Turn[t.msg.id] = 1)
    /\ hpc \in EndPlaces => (t.place = "app" /\ Turn[t.msg.id] = 0) \/ t.place = "gone"

\* Until a worker is sent its second request, its epoch is the word as it was
\* when it was last woken, and it has been told of everything it was sent.
Levelled(t, p) ==
    LET n == Turn[t.msg.id]
    IN /\ n < First(p) \/ (n = First(p) /\ Unpoked(t)) =>
             /\ word[p] = epoch[p]
             /\ pc[p] \in {"startup", "top", "read", "wait", "load", "sleep", "asleep"}
             /\ pc[p] \in {"top", "read", "wait"} => runState[p] = "Startup"
             /\ hpc \notin StartPlaces => pc[p] \in {"load", "sleep", "asleep"}
       /\ n = First(p) /\ t.place = "toWorker" /\ hpc # "poke" =>
             \/ word[p] # epoch[p] /\ pc[p] \in {"load", "sleep"}
             \/ word[p] # epoch[p] /\ pc[p] = "asleep" /\ hpc = "wake"
             \/ word[p] = epoch[p] /\ pc[p] \in {"resume", "top", "read"}
       /\ n = First(p) /\ t.place = "hand" => word[p] = epoch[p]
       /\ First(p) < n /\ n < Second(p) => word[p] = epoch[p]
       /\ n = Second(p) /\ Unpoked(t) => word[p] = epoch[p]
       /\ n = Second(p) /\ t.place = "toWorker" /\ hpc # "poke" =>
             /\ pc[p] \in {"wait", "load", "sleep", "asleep"} => word[p] # epoch[p]
             /\ pc[p] = "asleep" => hpc = "wake"

Level(t) ==
    \A p \in Workers : t.place # "gone" /\ pc[p] # "none" /\ word[p] # Released => Levelled(t, p)

\* What the application knows, what the host keeps, and what was written.
Fate(t) ==
    LET n == Turn[t.msg.id]
        image == view["load.rect_view"]
        going == t.place # "gone"
    IN /\ going /\ n <= 6 =>
             /\ tgaState = "waiting_for_tga_load" /\ saved = "none" /\ written = "none"
             /\ failure[Application] = 0
             /\ loaded = IF t.place = "app" /\ n = 6 THEN image ELSE "none"
             /\ n = 6 => image \in Outcome
       /\ going /\ n > 6 =>
             /\ tgaState = "waiting_for_tga_save" /\ loaded = "full" /\ image = "full"
             /\ failure[Application] = 0
             /\ n < 11 => written = "none"
             /\ n >= 11 => t.msg.data = written /\ written \in Outcome
             /\ saved = IF t.place = "app" THEN written ELSE "none"
       /\ ~going =>
             \/ /\ failure[Application] = 1 /\ image = "empty"
                /\ tgaState = "waiting_for_tga_load"
             \/ /\ failure[Application] = 2 /\ image = "full" /\ written = "empty"
                /\ tgaState = "waiting_for_tga_save"
             \/ /\ failure[Application] = 0 /\ image = "full" /\ written = "full"
                /\ tgaState = "done"

WorkerPlaces ==
    {"none", "startup", "top", "read", "serve", "wait", "load", "sleep", "asleep", "resume",
     "exit", "return", "ended"}
AppPlaces ==
    {"none", "startup", "kick", "run", "top", "drain", "read", "decide", "fail",
     "exit", "return", "ended"}

TypedMessages ==
    /\ toWorker \in [Packages -> Seq(Messages)] /\ toHost \in [Packages -> Seq(Messages)]
    /\ owned \in [Packages -> Seq(Messages)] /\ hand \in [Packages -> Messages]

TypedPackages ==
    /\ word \in [Packages -> 0 .. Released] /\ epoch \in [Packages -> 0 .. Released]
    /\ hasControl \in [Packages -> BOOLEAN] /\ exitRequest \in [Packages -> BOOLEAN]
    /\ runState \in [Packages -> States] /\ failure \in [Packages -> 0 .. 2]
    /\ created \in [Packages -> BOOLEAN]
    /\ pc \in [Packages -> Places]
    /\ \A p \in Workers : pc[p] \in WorkerPlaces
    /\ pc[Application] \in AppPlaces

TypedHost ==
    /\ hpc \in HostPlaces \ {"unready"} /\ index \in 1 .. 3 /\ at \in 1 .. 3
    /\ slots \in [1 .. 3 -> 1 .. 3] /\ placed \subseteq 1 .. 3
    /\ back \in {"read", "take"}

TypedImages ==
    /\ view \in [Variables -> Outcome \cup {"none"}]
    /\ updated \in BOOLEAN
    /\ tgaState \in {"waiting_for_tga_load", "waiting_for_tga_save", "done"}
    /\ loaded \in Outcome \cup {"none"} /\ saved \in Outcome \cup {"none"}
    /\ written \in Outcome \cup {"none"}

Typed == TypedMessages /\ TypedPackages /\ TypedHost /\ TypedImages

\* A thread's run state is the one it marked last.
StateFollows ==
    \A p \in Packages :
        /\ pc[p] = "none" => runState[p] = "Empty"
        /\ pc[p] = "startup" => runState[p] = "Pending"
        /\ pc[p] \in {"kick", "run"} => runState[p] = "Startup"
        /\ p \in Workers /\ pc[p] \in {"top", "read", "serve", "wait"} => runState[p] \in {"Startup", "Running"}
        /\ pc[p] \in {"load", "sleep", "asleep", "resume"} => runState[p] = "Waiting"
        /\ p = Application /\ pc[p] \in {"top", "drain", "read", "decide", "fail"} => runState[p] = "Running"
        /\ pc[p] = "exit" => runState[p] \in {"Startup", "Running", "Failed"}
        /\ pc[p] \in {"return", "ended"} => runState[p] = "Exited"

\* How far the start-up has come.
Started ==
    /\ hpc \in {"emplace", "startup"} => \A i \in 1 .. 3 : pc[Thread[i]] # "none" <=> i < index
    /\ hpc \in {"starting", "check"} => \A i \in 1 .. 3 : pc[Thread[i]] # "none" <=> i <= index
    /\ hpc = "check" => IsReady(Thread[index])
    /\ hpc \in StartPlaces =>
          \A i \in 1 .. 3 : i < index =>
              pc[Thread[i]] \in {"load", "sleep", "asleep"}
    /\ hpc \in LoopPlaces => \A p \in Packages : pc[p] # "none"
    /\ hpc \in EndPlaces => pc[Application] \in {"none", "return", "ended"}

\* Which packages have a place, and how far the shutdown has come.
Placed ==
    /\ hpc = "emplace" => placed = {i \in 1 .. 3 : i < index}
    /\ hpc \in {"startup", "starting", "check"} => placed = {i \in 1 .. 3 : i <= index}
    /\ \A i \in 1 .. 3 :
          /\ pc[Thread[i]] # "none" => i \in placed
          /\ slots[i] = IF i \in placed THEN i ELSE 1

Controlled ==
    /\ \A p \in Packages :
          /\ created[p] <=> pc[p] # "none"
          /\ pc[p] = "none" => epoch[p] = 0
          /\ epoch[p] = Released => word[p] = Released
          /\ hasControl[p] => pc[p] # "none"
          /\ ~hasControl[p] =>
                /\ word[p] = Released
                /\ pc[p] \in {"none", "ended"} \/ (hpc \in {"await", "join"} /\ ShutThread = p)
          /\ hasControl[p] /\ word[p] = Released => hpc = "free" /\ ShutThread = p
          /\ exitRequest[p] => word[p] = Released \/ (hpc = "release" /\ ShutThread = p)
          /\ exitRequest[p] => hpc \in EndPlaces
          /\ p \in Workers /\ pc[p] \in {"exit", "return", "ended"} => exitRequest[p]
          /\ pc[p] \in {"sleep", "asleep"} => epoch[p] # Released
          /\ pc[p] = "asleep" /\ word[p] = Released => hpc = "free" /\ ShutThread = p
    /\ hpc \in Ending => pc[ShutThread] # "none"
    /\ hpc \in {"release", "free"} => hasControl[ShutThread]
    /\ hpc \in {"await", "join"} => ~hasControl[ShutThread]
    /\ hpc = "free" => word[ShutThread] = Released
    /\ hpc \in {"shutdown", "release", "free", "await", "join"} =>
          \A i \in 1 .. 3 : i > index => ~hasControl[Thread[i]]
    /\ hpc = "returned" => \A p \in Packages : ~hasControl[p]

Flows == \E t \in Tokens : Carries(t) /\ Level(t) /\ Fate(t)

IInv == Typed /\ StateFollows /\ Started /\ Placed /\ Controlled /\ Flows

----------------------------------------------------------------------------
(* The packages and the messages *)

\* The three packages, and which of them are the workers'.
LEMMA Names ==
    /\ Packages = {"bg_file_io", "bg_conditioning", "application"}
    /\ Packages = Workers \cup {Application} /\ Application \notin Workers
    /\ \A i \in 1 .. 3 : Thread[i] \in Packages
    /\ \A i, j \in 1 .. 3 : Thread[i] = Thread[j] => i = j
    /\ \A p \in Packages : \E i \in 1 .. 3 : Thread[i] = p
    /\ \A i \in 1 .. 3 : Thread[i] = Application <=> i = 3
BY DEF Thread, Workers, Application

\* The host posts, pokes, wakes and shuts down packages that there are.
LEMMA Addressed ==
    ASSUME IInv
    PROVE  /\ hpc \in {"post", "poke", "wake"} => outbound.to \in Packages
           /\ hpc = "post" => outbound.msg \in Messages
           /\ hpc \in Ending => ShutThread \in Packages
<1>1. PICK t \in Tokens : Carries(t)
  BY DEF IInv, Flows
<1>2. t.on \in Packages /\ t.msg \in Messages
  BY DEF Tokens
<1>3. hpc \in Ending => ShutThread \in Packages
  BY Names DEF IInv, Typed, TypedHost, ShutThread
<1>. QED
  BY <1>1, <1>2, <1>3 DEF Carries

----------------------------------------------------------------------------
(* What the steps do that take one of several ways *)

\* The messages there are, and that each has a turn.
LEMMA Kinds ==
    /\ NoMsg \in Messages /\ NoMsg.id = "none"
    /\ \A m \in Messages : m.data \in Outcome \cup {"none"}
    /\ \A data \in Outcome \cup {"none"} :
          /\ Msg("TgaLoadRequest", data) \in Messages /\ Msg("TgaSaveRequest", data) \in Messages
          /\ Msg("FileSaveResult", data) \in Messages /\ Msg("OwningFileLoadResult", data) \in Messages
          /\ Msg("OwningTgaEncodeResult", data) \in Messages
          /\ Msg("OwningTgaDecodeResult", data) \in Messages
    /\ \A m \in Messages : Turn[m.id] \in 0 .. 12
  BY DEF Messages, Turn, Msg, NoMsg, Outcome

\* WaitLoads finds the word as it was, or has a new epoch.
Loads(p) ==
    /\ p \in Workers /\ pc[p] = "load"
    /\ \/ /\ epoch[p] # Released /\ word[p] = epoch[p]
          /\ pc' = [pc EXCEPT ![p] = "sleep"] /\ epoch' = epoch
       \/ /\ epoch[p] # Released => word[p] # epoch[p]
          /\ pc' = [pc EXCEPT ![p] = "resume"]
          /\ epoch' = [epoch EXCEPT ![p] = IF epoch[p] = Released THEN Released ELSE word[p]]
    /\ UNCHANGED <<queues, word, hasControl, control, created>>

\* That is what WaitLoads does.
LEMMA WaitLoadsWays ==
    ASSUME NEW p \in Packages, WaitLoads(p), Typed
    PROVE  Loads(p)
<1>. USE DEF Loads
<1>1. p \in Workers
  BY Names DEF WaitLoads, Typed, TypedPackages, AppPlaces
<1>2. CASE epoch[p] # Released /\ word[p] = epoch[p]
  BY <1>1, <1>2 DEF WaitLoads, GoesTo
<1>3. CASE ~(epoch[p] # Released /\ word[p] = epoch[p])
  BY <1>1, <1>3 DEF WaitLoads, GoesTo, WordReturned
<1>. QED
  BY <1>2, <1>3

\* WorkerReads finds nothing, or has a message in hand.
Gets(p) ==
    /\ pc[p] = "read"
    /\ \/ /\ toWorker[p] = <<>> /\ pc' = [pc EXCEPT ![p] = "wait"]
          /\ UNCHANGED <<toWorker, hand>>
       \/ /\ toWorker[p] # <<>> /\ pc' = [pc EXCEPT ![p] = "serve"]
          /\ hand' = [hand EXCEPT ![p] = Head(toWorker[p])]
          /\ toWorker' = [toWorker EXCEPT ![p] = Tail(@)]
    /\ UNCHANGED <<toHost, owned, word, hasControl, control, created, epoch, hostVars, appVars, written>>

\* That is what WorkerReads does.
LEMMA WorkerReadsWays ==
    ASSUME NEW p \in Workers, WorkerReads(p), Typed
    PROVE  Gets(p)
<1>. USE DEF Gets
<1>. QED
  BY DEF WorkerReads, GoesTo

\* AppReads finds nothing, or takes a message in.
AppGets ==
    /\ pc[Application] = "read"
    /\ \/ /\ toWorker[Application] = <<>> /\ pc' = [pc EXCEPT ![Application] = "decide"]
          /\ UNCHANGED <<toWorker, appVars>>
       \/ /\ toWorker[Application] # <<>> /\ pc' = [pc EXCEPT ![Application] = "drain"]
          /\ toWorker' = [toWorker EXCEPT ![Application] = Tail(@)]
          /\ loaded' = IF Head(toWorker[Application]).id = "TgaLoadResult" THEN view["load.rect_view"] ELSE loaded
          /\ saved' = IF Head(toWorker[Application]).id = "TgaSaveResult" THEN Head(toWorker[Application]).data ELSE saved
          /\ updated' = TRUE /\ UNCHANGED tgaState
    /\ UNCHANGED <<toHost, owned, word, hasControl, control, created, epoch, hostVars, hand, written>>

\* That is what AppReads does.
LEMMA AppReadsWays ==
    ASSUME AppReads, Typed
    PROVE  AppGets
<1>. USE DEF AppGets
<1>. QED
  BY DEF AppReads, GoesTo, PointsAt

\* WorkerServes answers the host, or passes an object on.
Serves(p) ==
    /\ pc[p] = "serve" /\ pc' = [pc EXCEPT ![p] = "top"]
    /\ hand' = [hand EXCEPT ![p] = NoMsg]
    /\ \E data \in Results(hand[p].id) :
          \/ /\ hand[p].id = "FileSaveRequest" /\ written' = data /\ owned' = owned
             /\ toHost' = [toHost EXCEPT ![p] = Append(@, Msg("FileSaveResult", data))]
          \/ /\ hand[p].id # "FileSaveRequest" /\ UNCHANGED <<toHost, written>>
             /\ PassesOwnership(p, Msg(ResultOf[hand[p].id], data))
    /\ UNCHANGED <<toWorker, word, hasControl, control, created, epoch, hostVars, appVars>>

\* That is what WorkerServes does.
LEMMA WorkerServesWays ==
    ASSUME NEW p \in Workers, WorkerServes(p), Typed
    PROVE  Serves(p)
<1>. USE DEF Serves
<1>. QED
  BY DEF WorkerServes, GoesTo

\* The host reads m, or finds nothing and goes on.
Reads(m) ==
    /\ view' = Kept(m)
    /\ \/ hpc' = hpc /\ Answer(m) = NoMsg /\ UNCHANGED <<outbound, back>>
       \/ hpc' = "post" /\ Answer(m) # NoMsg /\ outbound' = Answer(m) /\ back' = hpc
    /\ UNCHANGED at

\* HostReads finds nothing, or reads a message.
HostGets ==
    /\ hpc = "read" /\ Thread[at] \in Packages
    /\ \/ /\ toHost[Thread[at]] = <<>> /\ hpc' = "take"
          /\ UNCHANGED <<toHost, at, outbound, back, view>>
       \/ /\ toHost[Thread[at]] # <<>> /\ Reads(Head(toHost[Thread[at]]))
          /\ toHost' = [toHost EXCEPT ![Thread[at]] = Tail(@)]
    /\ UNCHANGED <<toWorker, owned, word, hasControl, control, created, pc, epoch>>
    /\ UNCHANGED <<index, slots, placed, hand, appVars, written>>

\* That is what HostReads does.
LEMMA HostReadsWays ==
    ASSUME HostReads, Typed
    PROVE  HostGets
<1>. USE DEF HostGets
<1>1. hpc = "read" /\ Thread[at] \in Packages
  BY Names DEF HostReads, Typed, TypedHost
<1>2. CASE toHost[Thread[at]] = <<>>
  BY <1>1, <1>2 DEF HostReads, HostGoesTo
<1>3. CASE toHost[Thread[at]] # <<>>
  BY <1>1, <1>3 DEF HostReads, Handles, Reads
<1>. QED
  BY <1>1, <1>2, <1>3

\* HostTakes finds nothing, or reads a message that came with an object.
HostOwns ==
    /\ hpc = "take" /\ Thread[at] \in Packages
    /\ \/ /\ owned[Thread[at]] = <<>> /\ hpc' \in {"read", "query"} /\ at' \in 1 .. 3
          /\ UNCHANGED <<owned, outbound, back, view>>
       \/ /\ owned[Thread[at]] # <<>> /\ Reads(Head(owned[Thread[at]]))
          /\ owned' = [owned EXCEPT ![Thread[at]] = Tail(@)]
    /\ UNCHANGED <<toWorker, toHost, word, hasControl, control, created, pc, epoch>>
    /\ UNCHANGED <<index, slots, placed, hand, appVars, written>>

\* That is what HostTakes does.
LEMMA HostTakesWays ==
    ASSUME HostTakes, Typed
    PROVE  HostOwns
<1>. USE DEF HostOwns
<1>1. hpc = "take" /\ Thread[at] \in Packages
  BY Names DEF HostTakes, Typed, TypedHost
<1>2. CASE owned[Thread[at]] = <<>>
  BY <1>1, <1>2 DEF HostTakes, Typed, TypedHost
<1>3. CASE owned[Thread[at]] # <<>>
  BY <1>1, <1>3 DEF HostTakes, Handles, Reads
<1>. QED
  BY <1>1, <1>2, <1>3

\* What the host keeps is the outcome of something.
LEMMA KeptViews ==
    ASSUME Typed, NEW m \in Messages
    PROVE  Kept(m) \in [Variables -> Outcome \cup {"none"}]
<1>1. loaded \in Outcome \cup {"none"} /\ m.data \in Outcome \cup {"none"}
  BY Kinds DEF Typed, TypedImages
<1>2. view \in [Variables -> Outcome \cup {"none"}]
  BY DEF Typed, TypedImages
<1>. QED
  BY <1>1, <1>2 DEF Kept

\* What is taken from a queue is a message, and the rest is a queue.
LEMMA Heads ==
    ASSUME Typed, NEW p \in Packages
    PROVE  /\ toWorker[p] # <<>> => Head(toWorker[p]) \in Messages /\ Tail(toWorker[p]) \in Seq(Messages)
           /\ toHost[p] # <<>> => Head(toHost[p]) \in Messages /\ Tail(toHost[p]) \in Seq(Messages)
           /\ owned[p] # <<>> => Head(owned[p]) \in Messages /\ Tail(owned[p]) \in Seq(Messages)
  BY DEF Typed, TypedMessages

----------------------------------------------------------------------------
(* The message under way *)

\* The messages by their turns, and what the host answers.
LEMMA Turns ==
    ASSUME NEW m \in Messages
    PROVE  /\ Turn[m.id] = 0 <=> m.id = "none"
           /\ Turn[m.id] = 1 <=> m.id = "TgaLoadRequest"
           /\ Turn[m.id] = 2 <=> m.id = "FileLoadRequest"
           /\ Turn[m.id] = 3 <=> m.id = "OwningFileLoadResult"
           /\ Turn[m.id] = 4 <=> m.id = "TgaDecodeRequest"
           /\ Turn[m.id] = 5 <=> m.id = "OwningTgaDecodeResult"
           /\ Turn[m.id] = 6 <=> m.id = "TgaLoadResult"
           /\ Turn[m.id] = 7 <=> m.id = "TgaSaveRequest"
           /\ Turn[m.id] = 8 <=> m.id = "TgaEncodeRequest"
           /\ Turn[m.id] = 9 <=> m.id = "OwningTgaEncodeResult"
           /\ Turn[m.id] = 10 <=> m.id = "FileSaveRequest"
           /\ Turn[m.id] = 11 <=> m.id = "FileSaveResult"
           /\ Turn[m.id] = 12 <=> m.id = "TgaSaveResult"
           /\ Turn[m.id] \in 0 .. 12
  BY DEF Messages, Turn

\* What the host reads has an answer, whose turn is the next and which goes to the
\* thread whose turn it is.
LEMMA Answered ==
    ASSUME NEW m \in Messages, Turn[m.id] \in {1, 3, 5, 7, 9, 11}
    PROVE  /\ Answer(m) # NoMsg /\ Answer(m) = [to |-> Answer(m).to, msg |-> Answer(m).msg]
           /\ Answer(m).to \in Packages /\ Answer(m).msg \in Messages
           /\ Turn[Answer(m).msg.id] = Turn[m.id] + 1
           /\ Answer(m).to = "bg_file_io" <=> Turn[m.id] \in {1, 9}
           /\ Answer(m).to = "bg_conditioning" <=> Turn[m.id] \in {3, 7}
           /\ Answer(m).to = "application" <=> Turn[m.id] \in {5, 11}
           /\ Turn[m.id] = 11 => Answer(m).msg.data = m.data
<1>1. \A id \in DOMAIN Turn : \A data \in Outcome \cup {"none"} : Msg(id, data) \in Messages
  BY DEF Messages, Msg
<1>2. m.data \in Outcome \cup {"none"} /\ "none" \in Outcome \cup {"none"}
  BY DEF Messages
<1>3. CASE Turn[m.id] = 1
  <2>1. m.id = "TgaLoadRequest"
    BY <1>3, Turns
  <2>2. Answer(m) = [to |-> "bg_file_io", msg |-> Msg("FileLoadRequest", "none")]
    BY <2>1 DEF Answer, Application
  <2>3. Msg("FileLoadRequest", "none") \in Messages /\ Turn["FileLoadRequest"] = 2
    BY <1>1, <1>2 DEF Turn
  <2>. QED
    BY <1>3, <2>2, <2>3, Names DEF Msg, NoMsg
<1>4. CASE Turn[m.id] = 3
  <2>1. m.id = "OwningFileLoadResult"
    BY <1>4, Turns
  <2>2. Answer(m) = [to |-> "bg_conditioning", msg |-> Msg("TgaDecodeRequest", "none")]
    BY <2>1 DEF Answer, Application
  <2>3. Msg("TgaDecodeRequest", "none") \in Messages /\ Turn["TgaDecodeRequest"] = 4
    BY <1>1, <1>2 DEF Turn
  <2>. QED
    BY <1>4, <2>2, <2>3, Names DEF Msg, NoMsg
<1>5. CASE Turn[m.id] = 5
  <2>1. m.id = "OwningTgaDecodeResult"
    BY <1>5, Turns
  <2>2. Answer(m) = [to |-> "application", msg |-> Msg("TgaLoadResult", "none")]
    BY <2>1 DEF Answer, Application
  <2>3. Msg("TgaLoadResult", "none") \in Messages /\ Turn["TgaLoadResult"] = 6
    BY <1>1, <1>2 DEF Turn
  <2>. QED
    BY <1>5, <2>2, <2>3, Names DEF Msg, NoMsg
<1>6. CASE Turn[m.id] = 7
  <2>1. m.id = "TgaSaveRequest"
    BY <1>6, Turns
  <2>2. Answer(m) = [to |-> "bg_conditioning", msg |-> Msg("TgaEncodeRequest", "none")]
    BY <2>1 DEF Answer, Application
  <2>3. Msg("TgaEncodeRequest", "none") \in Messages /\ Turn["TgaEncodeRequest"] = 8
    BY <1>1, <1>2 DEF Turn
  <2>. QED
    BY <1>6, <2>2, <2>3, Names DEF Msg, NoMsg
<1>7. CASE Turn[m.id] = 9
  <2>1. m.id = "OwningTgaEncodeResult"
    BY <1>7, Turns
  <2>2. Answer(m) = [to |-> "bg_file_io", msg |-> Msg("FileSaveRequest", "none")]
    BY <2>1 DEF Answer, Application
  <2>3. Msg("FileSaveRequest", "none") \in Messages /\ Turn["FileSaveRequest"] = 10
    BY <1>1, <1>2 DEF Turn
  <2>. QED
    BY <1>7, <2>2, <2>3, Names DEF Msg, NoMsg
<1>8. CASE Turn[m.id] = 11
  <2>1. m.id = "FileSaveResult"
    BY <1>8, Turns
  <2>2. Answer(m) = [to |-> "application", msg |-> Msg("TgaSaveResult", m.data)]
    BY <2>1 DEF Answer, Application
  <2>3. Msg("TgaSaveResult", m.data) \in Messages /\ Turn["TgaSaveResult"] = 12
    BY <1>1, <1>2 DEF Turn
  <2>. QED
    BY <1>8, <2>2, <2>3, Names DEF Msg, NoMsg
<1>. QED
  BY <1>3, <1>4, <1>5, <1>6, <1>7, <1>8

\* There is a token for every place, package and message.
LEMMA TokenExists ==
    ASSUME NEW place \in Carriers, NEW p \in Packages, NEW m \in Messages
    PROVE  \E u \in Tokens : u.place = place /\ u.on = p /\ u.msg = m
<1>1. [place |-> place, on |-> p, msg |-> m] \in Tokens
  BY DEF Tokens
<1>. QED
  BY <1>1

\* What a message's place says of the host's.
LEMMA InLoop ==
    ASSUME NEW t \in Tokens, Carries(t)
    PROVE  /\ t.place \in {"outbound", "toWorker", "hand", "owned"} => hpc \notin StartPlaces \cup EndPlaces
           /\ t.place = "app" /\ Turn[t.msg.id] # 0 => hpc \notin StartPlaces \cup EndPlaces
           /\ t.place = "toHost" => hpc \notin EndPlaces
           /\ t.place = "toHost" /\ Turn[t.msg.id] # 1 => hpc \notin StartPlaces
  BY DEF Carries

\* Whoever finds a message in a queue finds the one under way, and nothing after it.
LEMMA Taken ==
    ASSUME IInv, NEW t \in Tokens, Carries(t), NEW p \in Packages
    PROVE  /\ t.msg \in Messages /\ t.on \in Packages
           /\ toWorker[p] # <<>> => /\ t.place = "toWorker" /\ t.on = p
                                    /\ Head(toWorker[p]) = t.msg /\ Tail(toWorker[p]) = <<>>
           /\ toHost[p] # <<>> => /\ t.place = "toHost" /\ t.on = p
                                  /\ Head(toHost[p]) = t.msg /\ Tail(toHost[p]) = <<>>
           /\ owned[p] # <<>> => /\ t.place = "owned" /\ t.on = p
                                 /\ Head(owned[p]) = t.msg /\ Tail(owned[p]) = <<>>
<1>1. t.msg \in Messages /\ t.on \in Packages
  BY DEF Tokens
<1>2. /\ toWorker[p] = Only(t, "toWorker", p) /\ toHost[p] = Only(t, "toHost", p)
      /\ owned[p] = Only(t, "owned", p)
  BY DEF Carries
<1>. QED
  BY <1>1, <1>2 DEF Only

----------------------------------------------------------------------------
(* Types *)

\* Every step keeps the host to its types; it never finds a thread unready.
LEMMA TypedHostStep ==
    ASSUME IInv, [Next]_vars
    PROVE  TypedHost'
<1>. USE DEF vars, packageVars, queues, control, hostVars, appVars, IInv, Typed,
     HostPlaces
<1>1. CASE EmplaceFails
  BY <1>1, Names DEF EmplaceFails, HostGoesTo, TypedHost
<1>2. CASE Emplace
  BY <1>2, Names DEF Emplace, HostGoesTo, TypedHost
<1>3. CASE StartupFails
  BY <1>3, Names DEF StartupFails, HostGoesTo, TypedHost
<1>4. CASE StartupCreates
  BY <1>4, Names DEF StartupCreates, HostGoesTo, Creates, Marks, GoesTo, TypedHost
<1>5. CASE StartupSpins
  BY <1>5, Names DEF StartupSpins, HostGoesTo, IsStarting, TypedHost
<1>6. CASE StartupChecks
  BY <1>6, Names DEF StartupChecks, HostGoesTo, MoreThreads, TypedHost, Started
<1>7. CASE HostQueries
  BY <1>7, Names DEF HostQueries, TypedHost
<1>8. CASE HostReads
  <2>1. HostGets
    BY <1>8, HostReadsWays DEF Typed
  <2>. QED
    BY <1>8, <2>1, Names DEF HostGets, TypedHost, Reads
<1>9. CASE HostTakes
  <2>1. HostOwns
    BY <1>9, HostTakesWays DEF Typed
  <2>. QED
    BY <1>9, <2>1, Names DEF HostOwns, TypedHost, Reads
<1>10. CASE HostPosts
  BY <1>10, Names DEF HostPosts, HostGoesTo, Sends, TypedHost
<1>11. CASE HostPokes
  BY <1>11, Names DEF HostPokes, HostGoesTo, Pokes, TypedHost
<1>12. CASE HostWakes
  BY <1>12, Names DEF HostWakes, Wakes, Woken, TypedHost
<1>13. CASE ShutdownFindsNothing
  BY <1>13, Names DEF ShutdownFindsNothing, HostGoesTo, TypedHost
<1>14. CASE ShutdownSkips
  BY <1>14, Names DEF ShutdownSkips, NextEntry, FirstEntry, HostGoesTo, TypedHost
<1>15. CASE ShutdownRequests
  BY <1>15, Names DEF ShutdownRequests, RequestsExit, HostGoesTo, TypedHost
<1>16. CASE ShutdownReleases
  BY <1>16, Names DEF ShutdownReleases, ReleasesWord, HostGoesTo, TypedHost
<1>17. CASE ShutdownWakes
  BY <1>17, Names DEF ShutdownWakes, Wakes, Woken, DropsControl, HostGoesTo, TypedHost
<1>18. CASE ShutdownAwaits
  BY <1>18, Names DEF ShutdownAwaits, HostGoesTo, TypedHost
<1>19. CASE ShutdownJoins
  BY <1>19, Names DEF ShutdownJoins, Joins, NextEntry, FirstEntry, HostGoesTo, TypedHost
<1>20. ASSUME NEW p \in Packages, WaitMarks(p), UNCHANGED <<hostVars, hand, appVars, written>>
      PROVE  TypedHost'
  BY <1>20, Names DEF WaitMarks, Marks, GoesTo, TypedHost
<1>21. ASSUME NEW p \in Packages, WaitLoads(p), UNCHANGED <<hostVars, hand, appVars, written>>
      PROVE  TypedHost'
  <2>1. Loads(p)
    BY <1>21, WaitLoadsWays DEF Typed
  <2>. QED
    BY <1>21, <2>1, Names DEF Loads, TypedHost, Reads
<1>22. ASSUME NEW p \in Packages, WaitSleeps(p), UNCHANGED <<hostVars, hand, appVars, written>>
      PROVE  TypedHost'
  BY <1>22, Names DEF WaitSleeps, GoesTo, Parks, TypedHost
<1>23. ASSUME NEW p \in Packages, WaitResumes(p), UNCHANGED <<hostVars, hand, appVars, written>>
      PROVE  TypedHost'
  BY <1>23, Names DEF WaitResumes, Marks, GoesTo, TypedHost
<1>24. ASSUME NEW p \in Packages, ThreadExits(p), UNCHANGED <<hostVars, hand, appVars, written>>
      PROVE  TypedHost'
  BY <1>24, Names DEF ThreadExits, Marks, GoesTo, TypedHost
<1>25. ASSUME NEW p \in Packages, ThreadEnds(p), UNCHANGED <<hostVars, hand, appVars, written>>
      PROVE  TypedHost'
  BY <1>25, Names DEF ThreadEnds, GoesTo, TypedHost
<1>26. ASSUME NEW p \in Packages, WakesSpuriously(p), UNCHANGED <<hostVars, hand, appVars, written>>
      PROVE  TypedHost'
  BY <1>26, Names DEF WakesSpuriously, GoesTo, TypedHost
<1>27. ASSUME NEW p \in Packages, ThreadStarts(p)
      PROVE  TypedHost'
  BY <1>27, Names DEF ThreadStarts, Marks, GoesTo, TypedHost
<1>28. ASSUME NEW p \in Workers, WorkerChecks(p)
      PROVE  TypedHost'
  BY <1>28, Names DEF WorkerChecks, GoesTo, TypedHost
<1>29. ASSUME NEW p \in Workers, WorkerReads(p)
      PROVE  TypedHost'
  <2>1. Gets(p)
    BY <1>29, WorkerReadsWays DEF Typed
  <2>. QED
    BY <1>29, <2>1, Names DEF Gets, TypedHost, Reads
<1>30. ASSUME NEW p \in Workers, WorkerServes(p)
      PROVE  TypedHost'
  <2>1. Serves(p)
    BY <1>30, WorkerServesWays DEF Typed
  <2>. QED
    BY <1>30, <2>1, Names DEF Serves, TypedHost, Reads
<1>31. CASE AppKicksOff
  BY <1>31, Names DEF AppKicksOff, AppPosts, GoesTo, TypedHost
<1>32. CASE AppRuns
  BY <1>32, Names DEF AppRuns, Marks, GoesTo, TypedHost
<1>33. CASE AppChecks
  BY <1>33, Names DEF AppChecks, GoesTo, TypedHost
<1>34. CASE AppDrains
  BY <1>34, Names DEF AppDrains, GoesTo, TypedHost
<1>35. CASE AppReads
  <2>1. AppGets
    BY <1>35, AppReadsWays DEF Typed
  <2>. QED
    BY <1>35, <2>1, Names DEF AppGets, TypedHost, Reads
<1>36. CASE AppIdles
  BY <1>36, Names DEF AppIdles, GoesTo, TypedHost
<1>37. CASE AppSaves
  BY <1>37, Names DEF AppSaves, AppPosts, GoesTo, TypedHost
<1>38. CASE AppFinishes
  BY <1>38, Names DEF AppFinishes, GoesTo, TypedHost
<1>39. CASE AppFails
  BY <1>39, Names DEF AppFails, GoesTo, TypedHost
<1>40. CASE AppMarksFailed
  BY <1>40, Names DEF AppMarksFailed, Marks, GoesTo, TypedHost
<1>41. CASE UNCHANGED vars
  BY <1>41, Names DEF TypedHost
<1>. QED
  BY <1>1, <1>2, <1>3, <1>4, <1>5, <1>6, <1>7, <1>8, <1>9, <1>10, <1>11, <1>12, <1>13,
     <1>14, <1>15, <1>16, <1>17, <1>18, <1>19, <1>20, <1>21, <1>22, <1>23, <1>24, <1>25,
     <1>26, <1>27, <1>28, <1>29, <1>30, <1>31, <1>32, <1>33, <1>34, <1>35, <1>36, <1>37,
     <1>38, <1>39, <1>40, <1>41
    DEF Next, HostStarts, HostStep, ThreadStep, OwnStep, PackageStep, Stirs, WorkerStep,
      AppStep

\* Every step keeps the packages to their types, and every thread to its places.
LEMMA TypedPackagesStep ==
    ASSUME IInv, [Next]_vars
    PROVE  TypedPackages'
<1>. USE DEF vars, packageVars, queues, control, hostVars, appVars, IInv, Typed, Places,
     States, Released, WorkerPlaces, AppPlaces
<1>1. CASE EmplaceFails
  BY <1>1, Names DEF EmplaceFails, HostGoesTo, TypedPackages, TypedHost
<1>2. CASE Emplace
  BY <1>2, Names DEF Emplace, HostGoesTo, TypedPackages, TypedHost
<1>3. CASE StartupFails
  BY <1>3, Names DEF StartupFails, HostGoesTo, TypedPackages, TypedHost
<1>4. CASE StartupCreates
  BY <1>4, Names DEF StartupCreates, HostGoesTo, Creates, Marks, GoesTo, TypedPackages,
    TypedHost
<1>5. CASE StartupSpins
  BY <1>5, Names DEF StartupSpins, HostGoesTo, IsStarting, TypedPackages, TypedHost
<1>6. CASE StartupChecks
  BY <1>6, Names DEF StartupChecks, HostGoesTo, MoreThreads, TypedPackages, TypedHost
<1>7. CASE HostQueries
  BY <1>7, Names DEF HostQueries, TypedPackages, TypedHost
<1>8. CASE HostReads
  <2>1. HostGets
    BY <1>8, HostReadsWays DEF Typed
  <2>. QED
    BY <1>8, <2>1, Names DEF HostGets, TypedPackages
<1>9. CASE HostTakes
  <2>1. HostOwns
    BY <1>9, HostTakesWays DEF Typed
  <2>. QED
    BY <1>9, <2>1, Names DEF HostOwns, TypedPackages
<1>10. CASE HostPosts
  BY <1>10, Names DEF HostPosts, HostGoesTo, Sends, TypedPackages, TypedHost
<1>11. CASE HostPokes
  BY <1>11, Names, Addressed DEF HostPokes, HostGoesTo, Pokes, TypedPackages, TypedHost,
    NextWord
<1>12. CASE HostWakes
  BY <1>12, Names, Addressed DEF HostWakes, Wakes, Woken, TypedPackages, TypedHost
<1>13. CASE ShutdownFindsNothing
  BY <1>13, Names DEF ShutdownFindsNothing, HostGoesTo, TypedPackages, TypedHost
<1>14. CASE ShutdownSkips
  BY <1>14, Names DEF ShutdownSkips, NextEntry, FirstEntry, HostGoesTo, TypedPackages,
    TypedHost
<1>15. CASE ShutdownRequests
  BY <1>15, Names DEF ShutdownRequests, RequestsExit, HostGoesTo, TypedPackages,
    TypedHost
<1>16. CASE ShutdownReleases
  BY <1>16, Names DEF ShutdownReleases, ReleasesWord, HostGoesTo, TypedPackages,
    TypedHost, ShutThread
<1>17. CASE ShutdownWakes
  BY <1>17, Names, Addressed DEF ShutdownWakes, Wakes, Woken, DropsControl, HostGoesTo,
    TypedPackages, TypedHost, Ending
<1>18. CASE ShutdownAwaits
  BY <1>18, Names DEF ShutdownAwaits, HostGoesTo, TypedPackages, TypedHost
<1>19. CASE ShutdownJoins
  BY <1>19, Names DEF ShutdownJoins, Joins, NextEntry, FirstEntry, HostGoesTo,
    TypedPackages, TypedHost
<1>20. ASSUME NEW p \in Packages, WaitMarks(p), UNCHANGED <<hostVars, hand, appVars, written>>
      PROVE  TypedPackages'
  BY <1>20, Names DEF WaitMarks, Marks, GoesTo, TypedPackages, TypedHost
<1>21. ASSUME NEW p \in Packages, WaitLoads(p), UNCHANGED <<hostVars, hand, appVars, written>>
      PROVE  TypedPackages'
  <2>1. Loads(p)
    BY <1>21, WaitLoadsWays DEF Typed
  <2>. QED
    BY <1>21, <2>1, Names DEF Loads, TypedPackages
<1>22. ASSUME NEW p \in Packages, WaitSleeps(p), UNCHANGED <<hostVars, hand, appVars, written>>
      PROVE  TypedPackages'
  BY <1>22, Names DEF WaitSleeps, GoesTo, Parks, TypedPackages, TypedHost
<1>23. ASSUME NEW p \in Packages, WaitResumes(p), UNCHANGED <<hostVars, hand, appVars, written>>
      PROVE  TypedPackages'
  BY <1>23, Names DEF WaitResumes, Marks, GoesTo, TypedPackages, TypedHost
<1>24. ASSUME NEW p \in Packages, ThreadExits(p), UNCHANGED <<hostVars, hand, appVars, written>>
      PROVE  TypedPackages'
  BY <1>24, Names DEF ThreadExits, Marks, GoesTo, TypedPackages, TypedHost
<1>25. ASSUME NEW p \in Packages, ThreadEnds(p), UNCHANGED <<hostVars, hand, appVars, written>>
      PROVE  TypedPackages'
  BY <1>25, Names DEF ThreadEnds, GoesTo, TypedPackages, TypedHost
<1>26. ASSUME NEW p \in Packages, WakesSpuriously(p), UNCHANGED <<hostVars, hand, appVars, written>>
      PROVE  TypedPackages'
  BY <1>26, Names DEF WakesSpuriously, GoesTo, TypedPackages, TypedHost
<1>27. ASSUME NEW p \in Packages, ThreadStarts(p)
      PROVE  TypedPackages'
  BY <1>27, Names DEF ThreadStarts, Marks, GoesTo, TypedPackages, TypedHost
<1>28. ASSUME NEW p \in Workers, WorkerChecks(p)
      PROVE  TypedPackages'
  BY <1>28, Names DEF WorkerChecks, GoesTo, TypedPackages, TypedHost
<1>29. ASSUME NEW p \in Workers, WorkerReads(p)
      PROVE  TypedPackages'
  <2>1. Gets(p)
    BY <1>29, WorkerReadsWays DEF Typed
  <2>2. \E place \in {"wait", "serve"} : pc' = [pc EXCEPT ![p] = place]
    BY <2>1 DEF Gets
  <2>3. UNCHANGED <<word, hasControl, control, created, epoch>>
    BY <2>1 DEF Gets
  <2>. QED
    BY <2>2, <2>3, Names DEF TypedPackages
<1>30. ASSUME NEW p \in Workers, WorkerServes(p)
      PROVE  TypedPackages'
  <2>1. Serves(p)
    BY <1>30, WorkerServesWays DEF Typed
  <2>. QED
    BY <1>30, <2>1, Names DEF Serves, TypedPackages
<1>31. CASE AppKicksOff
  BY <1>31, Names DEF AppKicksOff, AppPosts, GoesTo, TypedPackages, TypedHost
<1>32. CASE AppRuns
  BY <1>32, Names DEF AppRuns, Marks, GoesTo, TypedPackages, TypedHost
<1>33. CASE AppChecks
  BY <1>33, Names DEF AppChecks, GoesTo, TypedPackages, TypedHost
<1>34. CASE AppDrains
  BY <1>34, Names DEF AppDrains, GoesTo, TypedPackages, TypedHost
<1>35. CASE AppReads
  <2>1. AppGets
    BY <1>35, AppReadsWays DEF Typed
  <2>2. \E place \in {"decide", "drain"} : pc' = [pc EXCEPT ![Application] = place]
    BY <2>1 DEF AppGets
  <2>3. UNCHANGED <<word, hasControl, control, created, epoch>>
    BY <2>1 DEF AppGets
  <2>. QED
    BY <2>2, <2>3, Names DEF TypedPackages
<1>36. CASE AppIdles
  BY <1>36, Names DEF AppIdles, GoesTo, TypedPackages, TypedHost
<1>37. CASE AppSaves
  BY <1>37, Names DEF AppSaves, AppPosts, GoesTo, TypedPackages, TypedHost
<1>38. CASE AppFinishes
  BY <1>38, Names DEF AppFinishes, GoesTo, TypedPackages, TypedHost
<1>39. CASE AppFails
  BY <1>39, Names DEF AppFails, GoesTo, TypedPackages, TypedHost, FailureCode
<1>40. CASE AppMarksFailed
  BY <1>40, Names DEF AppMarksFailed, Marks, GoesTo, TypedPackages, TypedHost
<1>41. CASE UNCHANGED vars
  BY <1>41, Names DEF TypedPackages, TypedHost
<1>. QED
  BY <1>1, <1>2, <1>3, <1>4, <1>5, <1>6, <1>7, <1>8, <1>9, <1>10, <1>11, <1>12, <1>13,
     <1>14, <1>15, <1>16, <1>17, <1>18, <1>19, <1>20, <1>21, <1>22, <1>23, <1>24, <1>25,
     <1>26, <1>27, <1>28, <1>29, <1>30, <1>31, <1>32, <1>33, <1>34, <1>35, <1>36, <1>37,
     <1>38, <1>39, <1>40, <1>41
    DEF Next, HostStarts, HostStep, ThreadStep, OwnStep, PackageStep, Stirs, WorkerStep,
      AppStep

\* Every step keeps the images, and what the application knows of them, to their types.
LEMMA TypedImagesStep ==
    ASSUME IInv, [Next]_vars
    PROVE  TypedImages'
<1>. USE DEF vars, packageVars, queues, control, hostVars, appVars, IInv, Typed
<1>1. CASE EmplaceFails
  BY <1>1, Names DEF EmplaceFails, HostGoesTo, TypedImages, TypedHost
<1>2. CASE Emplace
  BY <1>2, Names DEF Emplace, HostGoesTo, TypedImages, TypedHost
<1>3. CASE StartupFails
  BY <1>3, Names DEF StartupFails, HostGoesTo, TypedImages, TypedHost
<1>4. CASE StartupCreates
  BY <1>4, Names DEF StartupCreates, HostGoesTo, Creates, Marks, GoesTo, TypedImages,
    TypedHost
<1>5. CASE StartupSpins
  BY <1>5, Names DEF StartupSpins, HostGoesTo, IsStarting, TypedImages, TypedHost
<1>6. CASE StartupChecks
  BY <1>6, Names DEF StartupChecks, HostGoesTo, MoreThreads, TypedImages, TypedHost
<1>7. CASE HostQueries
  BY <1>7, Names DEF HostQueries, TypedImages, TypedHost
<1>8. CASE HostReads
  <2>1. HostGets
    BY <1>8, HostReadsWays DEF Typed
  <2>2. view' = view \/ \E m \in Messages : view' = Kept(m)
    BY <2>1, Heads DEF HostGets, Reads, Typed
  <2>. QED
    BY <2>1, <2>2, KeptViews DEF HostGets, TypedImages, Typed
<1>9. CASE HostTakes
  <2>1. HostOwns
    BY <1>9, HostTakesWays DEF Typed
  <2>2. view' = view \/ \E m \in Messages : view' = Kept(m)
    BY <2>1, Heads DEF HostOwns, Reads, Typed
  <2>. QED
    BY <2>1, <2>2, KeptViews DEF HostOwns, TypedImages, Typed
<1>10. CASE HostPosts
  BY <1>10, Names DEF HostPosts, HostGoesTo, Sends, TypedImages, TypedHost
<1>11. CASE HostPokes
  BY <1>11, Names DEF HostPokes, HostGoesTo, Pokes, TypedImages, TypedHost
<1>12. CASE HostWakes
  BY <1>12, Names DEF HostWakes, Wakes, Woken, TypedImages, TypedHost
<1>13. CASE ShutdownFindsNothing
  BY <1>13, Names DEF ShutdownFindsNothing, HostGoesTo, TypedImages, TypedHost
<1>14. CASE ShutdownSkips
  BY <1>14, Names DEF ShutdownSkips, NextEntry, FirstEntry, HostGoesTo, TypedImages,
    TypedHost
<1>15. CASE ShutdownRequests
  BY <1>15, Names DEF ShutdownRequests, RequestsExit, HostGoesTo, TypedImages, TypedHost
<1>16. CASE ShutdownReleases
  BY <1>16, Names DEF ShutdownReleases, ReleasesWord, HostGoesTo, TypedImages, TypedHost
<1>17. CASE ShutdownWakes
  BY <1>17, Names DEF ShutdownWakes, Wakes, Woken, DropsControl, HostGoesTo,
    TypedImages, TypedHost
<1>18. CASE ShutdownAwaits
  BY <1>18, Names DEF ShutdownAwaits, HostGoesTo, TypedImages, TypedHost
<1>19. CASE ShutdownJoins
  BY <1>19, Names DEF ShutdownJoins, Joins, NextEntry, FirstEntry, HostGoesTo,
    TypedImages, TypedHost
<1>20. ASSUME NEW p \in Packages, WaitMarks(p), UNCHANGED <<hostVars, hand, appVars, written>>
      PROVE  TypedImages'
  BY <1>20, Names DEF WaitMarks, Marks, GoesTo, TypedImages, TypedHost
<1>21. ASSUME NEW p \in Packages, WaitLoads(p), UNCHANGED <<hostVars, hand, appVars, written>>
      PROVE  TypedImages'
  <2>1. Loads(p)
    BY <1>21, WaitLoadsWays DEF Typed
  <2>. QED
    BY <1>21, <2>1, Names DEF Loads, TypedImages
<1>22. ASSUME NEW p \in Packages, WaitSleeps(p), UNCHANGED <<hostVars, hand, appVars, written>>
      PROVE  TypedImages'
  BY <1>22, Names DEF WaitSleeps, GoesTo, Parks, TypedImages, TypedHost
<1>23. ASSUME NEW p \in Packages, WaitResumes(p), UNCHANGED <<hostVars, hand, appVars, written>>
      PROVE  TypedImages'
  BY <1>23, Names DEF WaitResumes, Marks, GoesTo, TypedImages, TypedHost
<1>24. ASSUME NEW p \in Packages, ThreadExits(p), UNCHANGED <<hostVars, hand, appVars, written>>
      PROVE  TypedImages'
  BY <1>24, Names DEF ThreadExits, Marks, GoesTo, TypedImages, TypedHost
<1>25. ASSUME NEW p \in Packages, ThreadEnds(p), UNCHANGED <<hostVars, hand, appVars, written>>
      PROVE  TypedImages'
  BY <1>25, Names DEF ThreadEnds, GoesTo, TypedImages, TypedHost
<1>26. ASSUME NEW p \in Packages, WakesSpuriously(p), UNCHANGED <<hostVars, hand, appVars, written>>
      PROVE  TypedImages'
  BY <1>26, Names DEF WakesSpuriously, GoesTo, TypedImages, TypedHost
<1>27. ASSUME NEW p \in Packages, ThreadStarts(p)
      PROVE  TypedImages'
  BY <1>27, Names DEF ThreadStarts, Marks, GoesTo, TypedImages, TypedHost
<1>28. ASSUME NEW p \in Workers, WorkerChecks(p)
      PROVE  TypedImages'
  BY <1>28, Names DEF WorkerChecks, GoesTo, TypedImages, TypedHost
<1>29. ASSUME NEW p \in Workers, WorkerReads(p)
      PROVE  TypedImages'
  <2>1. Gets(p)
    BY <1>29, WorkerReadsWays DEF Typed
  <2>. QED
    BY <1>29, <2>1, Names DEF Gets, TypedImages
<1>30. ASSUME NEW p \in Workers, WorkerServes(p)
      PROVE  TypedImages'
  <2>1. Serves(p)
    BY <1>30, WorkerServesWays DEF Typed
  <2>. QED
    BY <1>30, <2>1, Names DEF Serves, TypedImages, Results, Outcome
<1>31. CASE AppKicksOff
  BY <1>31, Names DEF AppKicksOff, AppPosts, GoesTo, TypedImages, TypedHost
<1>32. CASE AppRuns
  BY <1>32, Names DEF AppRuns, Marks, GoesTo, TypedImages, TypedHost
<1>33. CASE AppChecks
  BY <1>33, Names DEF AppChecks, GoesTo, TypedImages, TypedHost
<1>34. CASE AppDrains
  BY <1>34, Names DEF AppDrains, GoesTo, TypedImages, TypedHost
<1>35. CASE AppReads
  <2>1. AppGets
    BY <1>35, AppReadsWays DEF Typed
  <2>2. toWorker[Application] # <<>> => Head(toWorker[Application]).data \in Outcome \cup {"none"}
    BY Names, Heads, Kinds DEF Typed
  <2>. QED
    BY <2>1, <2>2 DEF AppGets, TypedImages, Variables
<1>36. CASE AppIdles
  BY <1>36, Names DEF AppIdles, GoesTo, TypedImages, TypedHost
<1>37. CASE AppSaves
  BY <1>37, Names DEF AppSaves, AppPosts, GoesTo, TypedImages, TypedHost
<1>38. CASE AppFinishes
  BY <1>38, Names DEF AppFinishes, GoesTo, TypedImages, TypedHost
<1>39. CASE AppFails
  BY <1>39, Names DEF AppFails, GoesTo, TypedImages, TypedHost
<1>40. CASE AppMarksFailed
  BY <1>40, Names DEF AppMarksFailed, Marks, GoesTo, TypedImages, TypedHost
<1>41. CASE UNCHANGED vars
  BY <1>41, Names DEF TypedImages, TypedHost
<1>. QED
  BY <1>1, <1>2, <1>3, <1>4, <1>5, <1>6, <1>7, <1>8, <1>9, <1>10, <1>11, <1>12, <1>13,
     <1>14, <1>15, <1>16, <1>17, <1>18, <1>19, <1>20, <1>21, <1>22, <1>23, <1>24, <1>25,
     <1>26, <1>27, <1>28, <1>29, <1>30, <1>31, <1>32, <1>33, <1>34, <1>35, <1>36, <1>37,
     <1>38, <1>39, <1>40, <1>41
    DEF Next, HostStarts, HostStep, ThreadStep, OwnStep, PackageStep, Stirs, WorkerStep,
      AppStep

\* Every step keeps messages in the queues and in the threads' hands.
LEMMA TypedMessagesStep ==
    ASSUME IInv, [Next]_vars
    PROVE  TypedMessages'
<1>. USE DEF vars, packageVars, queues, control, hostVars, appVars, IInv, Typed
<1>1. CASE EmplaceFails
  BY <1>1, Names, Kinds DEF EmplaceFails, HostGoesTo, TypedMessages, TypedHost
<1>2. CASE Emplace
  BY <1>2, Names, Kinds DEF Emplace, HostGoesTo, TypedMessages, TypedHost
<1>3. CASE StartupFails
  BY <1>3, Names, Kinds DEF StartupFails, HostGoesTo, TypedMessages, TypedHost
<1>4. CASE StartupCreates
  BY <1>4, Names, Kinds DEF StartupCreates, HostGoesTo, Creates, Marks, GoesTo,
    TypedMessages, TypedHost
<1>5. CASE StartupSpins
  BY <1>5, Names, Kinds DEF StartupSpins, HostGoesTo, IsStarting, TypedMessages,
    TypedHost
<1>6. CASE StartupChecks
  BY <1>6, Names, Kinds DEF StartupChecks, HostGoesTo, MoreThreads, TypedMessages,
    TypedHost
<1>7. CASE HostQueries
  BY <1>7, Names, Kinds DEF HostQueries, TypedMessages, TypedHost
<1>8. CASE HostReads
  <2>1. HostGets
    BY <1>8, HostReadsWays DEF Typed
  <2>2. Thread[at] \in Packages
    BY <2>1, Names DEF HostGets
  <2>3. toHost[Thread[at]] # <<>> => Head(toHost[Thread[at]]) \in Messages /\ Tail(toHost[Thread[at]]) \in Seq(Messages)
    BY <2>2, Heads DEF Typed
  <2>4. toHost' = toHost \/ (toHost[Thread[at]] # <<>> /\ toHost' = [toHost EXCEPT ![Thread[at]] = Tail(@)])
    BY <2>1 DEF HostGets
  <2>5. toHost' \in [Packages -> Seq(Messages)]
    BY <2>2, <2>3, <2>4 DEF TypedMessages
  <2>. QED
    BY <2>1, <2>5 DEF HostGets, TypedMessages
<1>9. CASE HostTakes
  <2>1. HostOwns
    BY <1>9, HostTakesWays DEF Typed
  <2>2. Thread[at] \in Packages
    BY <2>1, Names DEF HostOwns
  <2>3. owned[Thread[at]] # <<>> => Head(owned[Thread[at]]) \in Messages /\ Tail(owned[Thread[at]]) \in Seq(Messages)
    BY <2>2, Heads DEF Typed
  <2>4. owned' = owned \/ (owned[Thread[at]] # <<>> /\ owned' = [owned EXCEPT ![Thread[at]] = Tail(@)])
    BY <2>1 DEF HostOwns
  <2>5. owned' \in [Packages -> Seq(Messages)]
    BY <2>2, <2>3, <2>4 DEF TypedMessages
  <2>. QED
    BY <2>1, <2>5 DEF HostOwns, TypedMessages
<1>10. CASE HostPosts
  BY <1>10, Names, Kinds, Addressed DEF HostPosts, HostGoesTo, Sends, TypedMessages,
    TypedHost
<1>11. CASE HostPokes
  BY <1>11, Names, Kinds DEF HostPokes, HostGoesTo, Pokes, TypedMessages, TypedHost
<1>12. CASE HostWakes
  BY <1>12, Names, Kinds DEF HostWakes, Wakes, Woken, TypedMessages, TypedHost
<1>13. CASE ShutdownFindsNothing
  BY <1>13, Names, Kinds DEF ShutdownFindsNothing, HostGoesTo, TypedMessages, TypedHost
<1>14. CASE ShutdownSkips
  BY <1>14, Names, Kinds DEF ShutdownSkips, NextEntry, FirstEntry, HostGoesTo,
    TypedMessages, TypedHost
<1>15. CASE ShutdownRequests
  BY <1>15, Names, Kinds DEF ShutdownRequests, RequestsExit, HostGoesTo, TypedMessages,
    TypedHost
<1>16. CASE ShutdownReleases
  BY <1>16, Names, Kinds DEF ShutdownReleases, ReleasesWord, HostGoesTo, TypedMessages,
    TypedHost
<1>17. CASE ShutdownWakes
  BY <1>17, Names, Kinds DEF ShutdownWakes, Wakes, Woken, DropsControl, HostGoesTo,
    TypedMessages, TypedHost
<1>18. CASE ShutdownAwaits
  BY <1>18, Names, Kinds DEF ShutdownAwaits, HostGoesTo, TypedMessages, TypedHost
<1>19. CASE ShutdownJoins
  BY <1>19, Names, Kinds DEF ShutdownJoins, Joins, NextEntry, FirstEntry, HostGoesTo,
    TypedMessages, TypedHost
<1>20. ASSUME NEW p \in Packages, WaitMarks(p), UNCHANGED <<hostVars, hand, appVars, written>>
      PROVE  TypedMessages'
  BY <1>20, Names, Kinds DEF WaitMarks, Marks, GoesTo, TypedMessages, TypedHost
<1>21. ASSUME NEW p \in Packages, WaitLoads(p), UNCHANGED <<hostVars, hand, appVars, written>>
      PROVE  TypedMessages'
  <2>1. Loads(p)
    BY <1>21, WaitLoadsWays DEF Typed
  <2>. QED
    BY <1>21, <2>1, Names, Heads DEF Loads, TypedMessages, Reads
<1>22. ASSUME NEW p \in Packages, WaitSleeps(p), UNCHANGED <<hostVars, hand, appVars, written>>
      PROVE  TypedMessages'
  BY <1>22, Names, Kinds DEF WaitSleeps, GoesTo, Parks, TypedMessages, TypedHost
<1>23. ASSUME NEW p \in Packages, WaitResumes(p), UNCHANGED <<hostVars, hand, appVars, written>>
      PROVE  TypedMessages'
  BY <1>23, Names, Kinds DEF WaitResumes, Marks, GoesTo, TypedMessages, TypedHost
<1>24. ASSUME NEW p \in Packages, ThreadExits(p), UNCHANGED <<hostVars, hand, appVars, written>>
      PROVE  TypedMessages'
  BY <1>24, Names, Kinds DEF ThreadExits, Marks, GoesTo, TypedMessages, TypedHost
<1>25. ASSUME NEW p \in Packages, ThreadEnds(p), UNCHANGED <<hostVars, hand, appVars, written>>
      PROVE  TypedMessages'
  BY <1>25, Names, Kinds DEF ThreadEnds, GoesTo, TypedMessages, TypedHost
<1>26. ASSUME NEW p \in Packages, WakesSpuriously(p), UNCHANGED <<hostVars, hand, appVars, written>>
      PROVE  TypedMessages'
  BY <1>26, Names, Kinds DEF WakesSpuriously, GoesTo, TypedMessages, TypedHost
<1>27. ASSUME NEW p \in Packages, ThreadStarts(p)
      PROVE  TypedMessages'
  BY <1>27, Names, Kinds DEF ThreadStarts, Marks, GoesTo, TypedMessages, TypedHost
<1>28. ASSUME NEW p \in Workers, WorkerChecks(p)
      PROVE  TypedMessages'
  BY <1>28, Names, Kinds DEF WorkerChecks, GoesTo, TypedMessages, TypedHost
<1>29. ASSUME NEW p \in Workers, WorkerReads(p)
      PROVE  TypedMessages'
  <2>1. Gets(p)
    BY <1>29, WorkerReadsWays DEF Typed
  <2>2. p \in Packages
    BY <2>1, Names DEF Gets
  <2>3. toWorker[p] # <<>> => Head(toWorker[p]) \in Messages /\ Tail(toWorker[p]) \in Seq(Messages)
    BY <2>2, Heads DEF Typed
  <2>4. toWorker' = toWorker \/ (toWorker[p] # <<>> /\ toWorker' = [toWorker EXCEPT ![p] = Tail(@)])
    BY <2>1 DEF Gets
  <2>5. toWorker' \in [Packages -> Seq(Messages)]
    BY <2>2, <2>3, <2>4 DEF TypedMessages
  <2>6. hand' = hand \/ (toWorker[p] # <<>> /\ hand' = [hand EXCEPT ![p] = Head(toWorker[p])])
    BY <2>1 DEF Gets
  <2>7. hand' \in [Packages -> Messages]
    BY <2>2, <2>3, <2>6 DEF TypedMessages
  <2>. QED
    BY <2>1, <2>5, <2>7 DEF Gets, TypedMessages
<1>30. ASSUME NEW p \in Workers, WorkerServes(p)
      PROVE  TypedMessages'
  <2>1. Serves(p) /\ p \in Packages
    BY <1>30, Names, WorkerServesWays DEF Typed
  <2>2. PICK data \in Outcome :
          \/ /\ owned' = owned /\ toHost' = [toHost EXCEPT ![p] = Append(@, Msg("FileSaveResult", data))]
          \/ /\ hand[p].id # "FileSaveRequest" /\ UNCHANGED toHost
             /\ PassesOwnership(p, Msg(ResultOf[hand[p].id], data))
    BY <2>1 DEF Serves, Results, Outcome
  <2>3. ASSUME PassesOwnership(p, Msg(ResultOf[hand[p].id], data)), hand[p].id # "FileSaveRequest"
        PROVE  owned' \in [Packages -> Seq(Messages)]
    <3>1. PICK t \in Tokens : Carries(t)
      BY DEF Flows
    <3>2. t.place = "hand" /\ t.on = p /\ hand[p] = t.msg /\ t.msg \in Messages
      BY <2>1, <3>1 DEF Carries, Serves, Tokens
    <3>3. Turn[t.msg.id] \in {2, 4, 8, 10}
      BY <3>1, <3>2 DEF Carries, Route, First, Second
    <3>4. hand[p].id \in {"FileLoadRequest", "TgaDecodeRequest", "TgaEncodeRequest"}
      BY <2>3, <3>2, <3>3, Turns
    <3>5. Msg(ResultOf[hand[p].id], data) \in Messages
      BY <3>4, Kinds DEF ResultOf
    <3>. QED
      BY <2>1, <2>3, <3>5 DEF PassesOwnership, TypedMessages
  <2>4. Msg("FileSaveResult", data) \in Messages
    BY Kinds
  <2>5. owned' \in [Packages -> Seq(Messages)]
    <3>1. CASE owned' = owned
      BY <3>1 DEF TypedMessages
    <3>. QED
      BY <2>2, <2>3, <3>1
  <2>6. toHost' \in [Packages -> Seq(Messages)]
    <3>1. toHost' = toHost \/ toHost' = [toHost EXCEPT ![p] = Append(@, Msg("FileSaveResult", data))]
      BY <2>2
    <3>2. toHost[p] \in Seq(Messages) /\ Append(toHost[p], Msg("FileSaveResult", data)) \in Seq(Messages)
      BY <2>1, <2>4 DEF TypedMessages
    <3>. QED
      BY <3>1, <3>2 DEF TypedMessages
  <2>. QED
    BY <2>1, <2>5, <2>6, Kinds DEF Serves, TypedMessages
<1>31. CASE AppKicksOff
  BY <1>31, Names, Kinds DEF AppKicksOff, AppPosts, GoesTo, TypedMessages, TypedHost
<1>32. CASE AppRuns
  BY <1>32, Names, Kinds DEF AppRuns, Marks, GoesTo, TypedMessages, TypedHost
<1>33. CASE AppChecks
  BY <1>33, Names, Kinds DEF AppChecks, GoesTo, TypedMessages, TypedHost
<1>34. CASE AppDrains
  BY <1>34, Names, Kinds DEF AppDrains, GoesTo, TypedMessages, TypedHost
<1>35. CASE AppReads
  <2>1. AppGets
    BY <1>35, AppReadsWays DEF Typed
  <2>2. Application \in Packages
    BY <2>1, Names DEF AppGets
  <2>3. toWorker[Application] # <<>> => Head(toWorker[Application]) \in Messages /\ Tail(toWorker[Application]) \in Seq(Messages)
    BY <2>2, Heads DEF Typed
  <2>4. toWorker' = toWorker \/ (toWorker[Application] # <<>> /\ toWorker' = [toWorker EXCEPT ![Application] = Tail(@)])
    BY <2>1 DEF AppGets
  <2>5. toWorker' \in [Packages -> Seq(Messages)]
    BY <2>2, <2>3, <2>4 DEF TypedMessages
  <2>. QED
    BY <2>1, <2>5 DEF AppGets, TypedMessages
<1>36. CASE AppIdles
  BY <1>36, Names, Kinds DEF AppIdles, GoesTo, TypedMessages, TypedHost
<1>37. CASE AppSaves
  BY <1>37, Names, Kinds DEF AppSaves, AppPosts, GoesTo, TypedMessages, TypedHost
<1>38. CASE AppFinishes
  BY <1>38, Names, Kinds DEF AppFinishes, GoesTo, TypedMessages, TypedHost
<1>39. CASE AppFails
  BY <1>39, Names, Kinds DEF AppFails, GoesTo, TypedMessages, TypedHost
<1>40. CASE AppMarksFailed
  BY <1>40, Names, Kinds DEF AppMarksFailed, Marks, GoesTo, TypedMessages, TypedHost
<1>41. CASE UNCHANGED vars
  BY <1>41, Names, Kinds DEF TypedMessages, TypedHost
<1>. QED
  BY <1>1, <1>2, <1>3, <1>4, <1>5, <1>6, <1>7, <1>8, <1>9, <1>10, <1>11, <1>12, <1>13,
     <1>14, <1>15, <1>16, <1>17, <1>18, <1>19, <1>20, <1>21, <1>22, <1>23, <1>24, <1>25,
     <1>26, <1>27, <1>28, <1>29, <1>30, <1>31, <1>32, <1>33, <1>34, <1>35, <1>36, <1>37,
     <1>38, <1>39, <1>40, <1>41
    DEF Next, HostStarts, HostStep, ThreadStep, OwnStep, PackageStep, Stirs, WorkerStep,
      AppStep

----------------------------------------------------------------------------
(* Threads, start-up and shutdown *)

\* Every step keeps run states in line with the places of the threads.
LEMMA StateStep ==
    ASSUME IInv, [Next]_vars
    PROVE  StateFollows'
<1>. USE DEF vars, packageVars, queues, control, hostVars, appVars, IInv
<1>1. CASE EmplaceFails
  BY <1>1, Names DEF EmplaceFails, HostGoesTo, StateFollows, Typed, TypedPackages,
    TypedHost
<1>2. CASE Emplace
  BY <1>2, Names DEF Emplace, HostGoesTo, StateFollows, Typed, TypedPackages, TypedHost
<1>3. CASE StartupFails
  BY <1>3, Names DEF StartupFails, HostGoesTo, StateFollows, Typed, TypedPackages,
    TypedHost
<1>4. CASE StartupCreates
  BY <1>4, Names DEF StartupCreates, HostGoesTo, Creates, Marks, GoesTo, StateFollows,
    Typed, TypedPackages, TypedHost, Started
<1>5. CASE StartupSpins
  BY <1>5, Names DEF StartupSpins, HostGoesTo, IsStarting, StateFollows, Typed,
    TypedPackages, TypedHost
<1>6. CASE StartupChecks
  BY <1>6, Names DEF StartupChecks, HostGoesTo, MoreThreads, StateFollows, Typed,
    TypedPackages, TypedHost
<1>7. CASE HostQueries
  BY <1>7, Names DEF HostQueries, StateFollows, Typed, TypedPackages, TypedHost
<1>8. CASE HostReads
  <2>1. HostGets
    BY <1>8, HostReadsWays DEF Typed
  <2>. QED
    BY <1>8, <2>1, Names DEF HostGets, StateFollows, Typed, TypedHost, TypedPackages
<1>9. CASE HostTakes
  <2>1. HostOwns
    BY <1>9, HostTakesWays DEF Typed
  <2>. QED
    BY <1>9, <2>1, Names DEF HostOwns, StateFollows, Typed, TypedHost, TypedPackages
<1>10. CASE HostPosts
  BY <1>10, Names DEF HostPosts, HostGoesTo, Sends, StateFollows, Typed, TypedPackages,
    TypedHost
<1>11. CASE HostPokes
  BY <1>11, Names DEF HostPokes, HostGoesTo, Pokes, StateFollows, Typed, TypedPackages,
    TypedHost
<1>12. CASE HostWakes
  BY <1>12, Names, Addressed DEF HostWakes, Wakes, Woken, StateFollows, Typed,
    TypedPackages, TypedHost
<1>13. CASE ShutdownFindsNothing
  BY <1>13, Names DEF ShutdownFindsNothing, HostGoesTo, StateFollows, Typed,
    TypedPackages, TypedHost
<1>14. CASE ShutdownSkips
  BY <1>14, Names DEF ShutdownSkips, NextEntry, FirstEntry, HostGoesTo, StateFollows,
    Typed, TypedPackages, TypedHost
<1>15. CASE ShutdownRequests
  BY <1>15, Names DEF ShutdownRequests, RequestsExit, HostGoesTo, StateFollows, Typed,
    TypedPackages, TypedHost
<1>16. CASE ShutdownReleases
  BY <1>16, Names DEF ShutdownReleases, ReleasesWord, HostGoesTo, StateFollows, Typed,
    TypedPackages, TypedHost
<1>17. CASE ShutdownWakes
  BY <1>17, Names, Addressed DEF ShutdownWakes, Wakes, Woken, DropsControl, HostGoesTo,
    StateFollows, Typed, TypedPackages, TypedHost
<1>18. CASE ShutdownAwaits
  BY <1>18, Names DEF ShutdownAwaits, HostGoesTo, StateFollows, Typed, TypedPackages,
    TypedHost
<1>19. CASE ShutdownJoins
  BY <1>19, Names DEF ShutdownJoins, Joins, NextEntry, FirstEntry, HostGoesTo,
    StateFollows, Typed, TypedPackages, TypedHost
<1>20. ASSUME NEW p \in Packages, WaitMarks(p), UNCHANGED <<hostVars, hand, appVars, written>>
      PROVE  StateFollows'
  BY <1>20, Names DEF WaitMarks, Marks, GoesTo, StateFollows, Typed, TypedPackages,
    TypedHost
<1>21. ASSUME NEW p \in Packages, WaitLoads(p), UNCHANGED <<hostVars, hand, appVars, written>>
      PROVE  StateFollows'
  <2>1. Loads(p)
    BY <1>21, WaitLoadsWays DEF Typed
  <2>. QED
    BY <1>21, <2>1, Names DEF Loads, StateFollows, Typed, TypedHost, TypedPackages
<1>22. ASSUME NEW p \in Packages, WaitSleeps(p), UNCHANGED <<hostVars, hand, appVars, written>>
      PROVE  StateFollows'
  BY <1>22, Names DEF WaitSleeps, GoesTo, Parks, StateFollows, Typed, TypedPackages,
    TypedHost
<1>23. ASSUME NEW p \in Packages, WaitResumes(p), UNCHANGED <<hostVars, hand, appVars, written>>
      PROVE  StateFollows'
  BY <1>23, Names DEF WaitResumes, Marks, GoesTo, StateFollows, Typed, TypedPackages,
    TypedHost
<1>24. ASSUME NEW p \in Packages, ThreadExits(p), UNCHANGED <<hostVars, hand, appVars, written>>
      PROVE  StateFollows'
  BY <1>24, Names DEF ThreadExits, Marks, GoesTo, StateFollows, Typed, TypedPackages,
    TypedHost
<1>25. ASSUME NEW p \in Packages, ThreadEnds(p), UNCHANGED <<hostVars, hand, appVars, written>>
      PROVE  StateFollows'
  BY <1>25, Names DEF ThreadEnds, GoesTo, StateFollows, Typed, TypedPackages, TypedHost
<1>26. ASSUME NEW p \in Packages, WakesSpuriously(p), UNCHANGED <<hostVars, hand, appVars, written>>
      PROVE  StateFollows'
  BY <1>26, Names DEF WakesSpuriously, GoesTo, StateFollows, Typed, TypedPackages,
    TypedHost
<1>27. ASSUME NEW p \in Packages, ThreadStarts(p)
      PROVE  StateFollows'
  BY <1>27, Names DEF ThreadStarts, Marks, GoesTo, StateFollows, Typed, TypedPackages,
    TypedHost
<1>28. ASSUME NEW p \in Workers, WorkerChecks(p)
      PROVE  StateFollows'
  BY <1>28, Names DEF WorkerChecks, GoesTo, StateFollows, Typed, TypedPackages,
    TypedHost
<1>29. ASSUME NEW p \in Workers, WorkerReads(p)
      PROVE  StateFollows'
  <2>1. Gets(p) /\ p \in Packages
    BY <1>29, Names, WorkerReadsWays DEF Typed
  <2>2. PICK place \in {"wait", "serve"} : pc' = [pc EXCEPT ![p] = place]
    BY <2>1 DEF Gets
  <2>3. pc[p] = "read" /\ UNCHANGED <<word, hasControl, control, created, epoch, hostVars>>
    BY <2>1 DEF Gets
  <2>. QED
    BY <2>1, <2>2, <2>3, Names DEF StateFollows, Typed, TypedPackages
<1>30. ASSUME NEW p \in Workers, WorkerServes(p)
      PROVE  StateFollows'
  <2>1. Serves(p)
    BY <1>30, WorkerServesWays DEF Typed
  <2>. QED
    BY <1>30, <2>1, Names DEF Serves, StateFollows, Typed, TypedHost, TypedPackages
<1>31. CASE AppKicksOff
  BY <1>31, Names DEF AppKicksOff, AppPosts, GoesTo, StateFollows, Typed, TypedPackages,
    TypedHost
<1>32. CASE AppRuns
  BY <1>32, Names DEF AppRuns, Marks, GoesTo, StateFollows, Typed, TypedPackages,
    TypedHost
<1>33. CASE AppChecks
  BY <1>33, Names DEF AppChecks, GoesTo, StateFollows, Typed, TypedPackages, TypedHost
<1>34. CASE AppDrains
  BY <1>34, Names DEF AppDrains, GoesTo, StateFollows, Typed, TypedPackages, TypedHost
<1>35. CASE AppReads
  <2>1. AppGets /\ Application \in Packages
    BY <1>35, Names, AppReadsWays DEF Typed
  <2>2. PICK place \in {"decide", "drain"} : pc' = [pc EXCEPT ![Application] = place]
    BY <2>1 DEF AppGets
  <2>3. pc[Application] = "read" /\ UNCHANGED <<word, hasControl, control, created, epoch, hostVars>>
    BY <2>1 DEF AppGets
  <2>. QED
    BY <2>1, <2>2, <2>3, Names DEF StateFollows, Typed, TypedPackages
<1>36. CASE AppIdles
  BY <1>36, Names DEF AppIdles, GoesTo, StateFollows, Typed, TypedPackages, TypedHost
<1>37. CASE AppSaves
  BY <1>37, Names DEF AppSaves, AppPosts, GoesTo, StateFollows, Typed, TypedPackages,
    TypedHost
<1>38. CASE AppFinishes
  BY <1>38, Names DEF AppFinishes, GoesTo, StateFollows, Typed, TypedPackages, TypedHost
<1>39. CASE AppFails
  BY <1>39, Names DEF AppFails, GoesTo, StateFollows, Typed, TypedPackages, TypedHost
<1>40. CASE AppMarksFailed
  BY <1>40, Names DEF AppMarksFailed, Marks, GoesTo, StateFollows, Typed, TypedPackages,
    TypedHost
<1>41. CASE UNCHANGED vars
  BY <1>41, Names DEF StateFollows, Typed, TypedPackages, TypedHost
<1>. QED
  BY <1>1, <1>2, <1>3, <1>4, <1>5, <1>6, <1>7, <1>8, <1>9, <1>10, <1>11, <1>12, <1>13,
     <1>14, <1>15, <1>16, <1>17, <1>18, <1>19, <1>20, <1>21, <1>22, <1>23, <1>24, <1>25,
     <1>26, <1>27, <1>28, <1>29, <1>30, <1>31, <1>32, <1>33, <1>34, <1>35, <1>36, <1>37,
     <1>38, <1>39, <1>40, <1>41
    DEF Next, HostStarts, HostStep, ThreadStep, OwnStep, PackageStep, Stirs, WorkerStep,
      AppStep

\* During the start-up nothing has been asked of the workers.
LEMMA Prelude ==
    ASSUME IInv, hpc \in StartPlaces
    PROVE  /\ \A p \in Packages : ~exitRequest[p]
           /\ pc[Application] \notin {"fail", "exit", "return", "ended"}
           /\ \A p \in Workers : pc[p] # "none" =>
                 /\ pc[p] \in {"startup", "top", "read", "wait", "load", "sleep", "asleep"}
                 /\ pc[p] \in {"top", "read", "wait"} => runState[p] = "Startup"
                 /\ word[p] = epoch[p] /\ word[p] # Released
<1>1. PICK t \in Tokens : Carries(t) /\ Level(t) /\ Fate(t)
  BY DEF IInv, Flows
<1>2. \A p \in Packages : ~exitRequest[p]
  BY DEF IInv, Controlled, StartPlaces, EndPlaces
<1>3. t.place # "gone" /\ Turn[t.msg.id] \in {0, 1}
  BY <1>1 DEF Carries, StartPlaces
<1>4. pc[Application] \notin {"fail", "exit", "return", "ended"}
  BY <1>1, <1>3 DEF Carries
<1>5. ASSUME NEW p \in Workers, pc[p] # "none"
      PROVE  /\ pc[p] \in {"startup", "top", "read", "wait", "load", "sleep", "asleep"}
             /\ pc[p] \in {"top", "read", "wait"} => runState[p] = "Startup"
             /\ word[p] = epoch[p] /\ word[p] # Released
  <2>1. p \in Packages /\ hpc \notin {"free", "await", "join", "release"}
    BY Names DEF StartPlaces
  <2>2. word[p] # Released
    BY <1>2, <1>5, <2>1 DEF IInv, Controlled
  <2>3. Turn[t.msg.id] < First(p)
    BY <1>3 DEF First
  <2>. QED
    BY <1>1, <1>3, <1>5, <2>2, <2>3 DEF Level, Levelled
<1>. QED
  BY <1>2, <1>4, <1>5

\* Every step keeps what is known of the start-up: one thread after the other is
\* started, each is ready when the host looks, and the next begins when it sleeps.
LEMMA StartedStep ==
    ASSUME IInv, [Next]_vars
    PROVE  Started'
<1>. USE DEF vars, packageVars, queues, control, hostVars, appVars, IInv
<1>1. CASE EmplaceFails
  BY <1>1, Names DEF EmplaceFails, HostGoesTo, Started, Typed, TypedHost, TypedPackages,
    StartPlaces, LoopPlaces, EndPlaces, IsReady
<1>2. CASE Emplace
  BY <1>2, Names DEF Emplace, HostGoesTo, Started, Typed, TypedHost, TypedPackages,
    StartPlaces, LoopPlaces, EndPlaces, IsReady
<1>3. CASE StartupFails
  BY <1>3, Names DEF StartupFails, HostGoesTo, Started, Typed, TypedHost, TypedPackages,
    StartPlaces, LoopPlaces, EndPlaces, IsReady
<1>4. CASE StartupCreates
  BY <1>4, Names DEF StartupCreates, HostGoesTo, Creates, Marks, GoesTo, Started, Typed,
    TypedHost, TypedPackages, StartPlaces, LoopPlaces, EndPlaces, IsReady
<1>5. CASE StartupSpins
  <2>1. hpc = "starting" /\ hpc' = "check" /\ UNCHANGED <<packageVars, index>>
    BY <1>5 DEF StartupSpins, HostGoesTo
  <2>2. Thread[index] \in Packages /\ pc[Thread[index]] # "none" /\ ~IsStarting(Thread[index])
    BY <1>5, <2>1, Names DEF StartupSpins, Started, Typed, TypedHost
  <2>3. ASSUME NEW p \in Packages, pc[p] # "none", ~IsStarting(p)
        PROVE  IsReady(p)
    <3>1. CASE p \in Workers
      BY <2>1, <2>3, <3>1, Prelude DEF StateFollows, IsStarting, IsReady, StartPlaces
    <3>2. CASE p = Application
      BY <2>1, <2>3, <3>2, Prelude, Names
         DEF StateFollows, IsStarting, IsReady, StartPlaces, Typed, TypedPackages, AppPlaces
    <3>. QED
      BY <3>1, <3>2, Names
  <2>. QED
    BY <2>1, <2>2, <2>3 DEF Started, IsReady, StartPlaces, LoopPlaces, EndPlaces
<1>6. CASE StartupChecks
  BY <1>6, Names, Prelude DEF StartupChecks, HostGoesTo, MoreThreads, Started, Typed,
    TypedHost, TypedPackages, StartPlaces, LoopPlaces, EndPlaces, IsReady, StateFollows,
    Workers, Application
<1>7. CASE HostQueries
  BY <1>7, Names DEF HostQueries, Started, Typed, TypedHost, TypedPackages, StartPlaces,
    LoopPlaces, EndPlaces, IsReady, StateFollows, AppPlaces, Application
<1>8. CASE HostReads
  <2>1. HostGets
    BY <1>8, HostReadsWays DEF Typed
  <2>. QED
    BY <1>8, <2>1, Names
       DEF HostGets, Started, Typed, TypedHost, TypedPackages, StartPlaces, LoopPlaces,
           EndPlaces, IsReady, Reads
<1>9. CASE HostTakes
  <2>1. HostOwns
    BY <1>9, HostTakesWays DEF Typed
  <2>. QED
    BY <1>9, <2>1, Names
       DEF HostOwns, Started, Typed, TypedHost, TypedPackages, StartPlaces, LoopPlaces,
           EndPlaces, IsReady, Reads
<1>10. CASE HostPosts
  BY <1>10, Names DEF HostPosts, HostGoesTo, Sends, Started, Typed, TypedHost,
    TypedPackages, StartPlaces, LoopPlaces, EndPlaces, IsReady
<1>11. CASE HostPokes
  BY <1>11, Names DEF HostPokes, HostGoesTo, Pokes, Started, Typed, TypedHost,
    TypedPackages, StartPlaces, LoopPlaces, EndPlaces, IsReady
<1>12. CASE HostWakes
  BY <1>12, Names, Addressed DEF HostWakes, Wakes, Woken, Started, Typed, TypedHost,
    TypedPackages, StartPlaces, LoopPlaces, EndPlaces, IsReady
<1>13. CASE ShutdownFindsNothing
  BY <1>13, Names DEF ShutdownFindsNothing, HostGoesTo, Started, Typed, TypedHost,
    TypedPackages, StartPlaces, LoopPlaces, EndPlaces, IsReady
<1>14. CASE ShutdownSkips
  BY <1>14, Names DEF ShutdownSkips, NextEntry, FirstEntry, HostGoesTo, Started, Typed,
    TypedHost, TypedPackages, StartPlaces, LoopPlaces, EndPlaces, IsReady
<1>15. CASE ShutdownRequests
  BY <1>15, Names DEF ShutdownRequests, RequestsExit, HostGoesTo, Started, Typed,
    TypedHost, TypedPackages, StartPlaces, LoopPlaces, EndPlaces, IsReady
<1>16. CASE ShutdownReleases
  BY <1>16, Names DEF ShutdownReleases, ReleasesWord, HostGoesTo, Started, Typed,
    TypedHost, TypedPackages, StartPlaces, LoopPlaces, EndPlaces, IsReady
<1>17. CASE ShutdownWakes
  BY <1>17, Names, Addressed DEF ShutdownWakes, Wakes, Woken, DropsControl, HostGoesTo,
    Started, Typed, TypedHost, TypedPackages, StartPlaces, LoopPlaces, EndPlaces,
    IsReady
<1>18. CASE ShutdownAwaits
  BY <1>18, Names DEF ShutdownAwaits, HostGoesTo, Started, Typed, TypedHost,
    TypedPackages, StartPlaces, LoopPlaces, EndPlaces, IsReady
<1>19. CASE ShutdownJoins
  BY <1>19, Names DEF ShutdownJoins, Joins, NextEntry, FirstEntry, HostGoesTo, Started,
    Typed, TypedHost, TypedPackages, StartPlaces, LoopPlaces, EndPlaces, IsReady
<1>20. ASSUME NEW p \in Packages, WaitMarks(p), UNCHANGED <<hostVars, hand, appVars, written>>
      PROVE  Started'
  BY <1>20, Names DEF WaitMarks, Marks, GoesTo, Started, Typed, TypedHost,
    TypedPackages, StartPlaces, LoopPlaces, EndPlaces, IsReady
<1>21. ASSUME NEW p \in Packages, WaitLoads(p), UNCHANGED <<hostVars, hand, appVars, written>>
      PROVE  Started'
  <2>1. Loads(p)
    BY <1>21, WaitLoadsWays
  <2>2. hpc \in StartPlaces => word[p] = epoch[p] /\ word[p] # Released
    BY <2>1, Prelude DEF Loads
  <2>3. UNCHANGED <<runState, hpc, index>>
    BY <1>21, <2>1 DEF Loads
  <2>4. PICK place \in {"sleep", "resume"} : pc' = [pc EXCEPT ![p] = place]
    BY <2>1 DEF Loads
  <2>5. pc[p] = "load" /\ (hpc \in StartPlaces => place = "sleep")
    BY <2>1, <2>2, <2>4 DEF Loads, Typed, TypedPackages
  <2>. QED
    BY <2>1, <2>3, <2>4, <2>5, Names
       DEF Started, Typed, TypedPackages, StartPlaces, LoopPlaces, EndPlaces, IsReady, Loads
<1>22. ASSUME NEW p \in Packages, WaitSleeps(p), UNCHANGED <<hostVars, hand, appVars, written>>
      PROVE  Started'
  BY <1>22, Names DEF WaitSleeps, GoesTo, Parks, Started, Typed, TypedHost,
    TypedPackages, StartPlaces, LoopPlaces, EndPlaces, IsReady
<1>23. ASSUME NEW p \in Packages, WaitResumes(p), UNCHANGED <<hostVars, hand, appVars, written>>
      PROVE  Started'
  BY <1>23, Names DEF WaitResumes, Marks, GoesTo, Started, Typed, TypedHost,
    TypedPackages, StartPlaces, LoopPlaces, EndPlaces, IsReady
<1>24. ASSUME NEW p \in Packages, ThreadExits(p), UNCHANGED <<hostVars, hand, appVars, written>>
      PROVE  Started'
  BY <1>24, Names, Prelude DEF ThreadExits, Marks, GoesTo, Started, Typed, TypedHost,
    TypedPackages, StartPlaces, LoopPlaces, EndPlaces, IsReady
<1>25. ASSUME NEW p \in Packages, ThreadEnds(p), UNCHANGED <<hostVars, hand, appVars, written>>
      PROVE  Started'
  BY <1>25, Names DEF ThreadEnds, GoesTo, Started, Typed, TypedHost, TypedPackages,
    StartPlaces, LoopPlaces, EndPlaces, IsReady
<1>26. ASSUME NEW p \in Packages, WakesSpuriously(p), UNCHANGED <<hostVars, hand, appVars, written>>
      PROVE  Started'
  BY <1>26, Names DEF WakesSpuriously, GoesTo, Started, Typed, TypedHost, TypedPackages,
    StartPlaces, LoopPlaces, EndPlaces, IsReady
<1>27. ASSUME NEW p \in Packages, ThreadStarts(p)
      PROVE  Started'
  BY <1>27, Names, Prelude DEF ThreadStarts, Marks, GoesTo, Started, Typed, TypedHost,
    TypedPackages, StartPlaces, LoopPlaces, EndPlaces, IsReady, StateFollows
<1>28. ASSUME NEW p \in Workers, WorkerChecks(p)
      PROVE  Started'
  BY <1>28, Names DEF WorkerChecks, GoesTo, Started, Typed, TypedHost, TypedPackages,
    StartPlaces, LoopPlaces, EndPlaces, IsReady
<1>29. ASSUME NEW p \in Workers, WorkerReads(p)
      PROVE  Started'
  <2>1. Gets(p) /\ p \in Packages /\ p # Application
    BY <1>29, Names, WorkerReadsWays
  <2>2. pc[p] = "read" /\ UNCHANGED <<runState, hpc, index>>
    BY <2>1 DEF Gets
  <2>3. PICK place \in {"wait", "serve"} : pc' = [pc EXCEPT ![p] = place]
    BY <2>1 DEF Gets
  <2>. QED
    BY <2>1, <2>2, <2>3, Names
       DEF Started, Typed, TypedPackages, StartPlaces, LoopPlaces, EndPlaces, IsReady
<1>30. ASSUME NEW p \in Workers, WorkerServes(p)
      PROVE  Started'
  <2>1. Serves(p)
    BY <1>30, WorkerServesWays DEF Typed
  <2>. QED
    BY <1>30, <2>1, Names
       DEF Serves, Started, Typed, TypedHost, TypedPackages, StartPlaces, LoopPlaces,
           EndPlaces, IsReady, Reads
<1>31. CASE AppKicksOff
  BY <1>31, Names DEF AppKicksOff, AppPosts, GoesTo, Started, Typed, TypedHost,
    TypedPackages, StartPlaces, LoopPlaces, EndPlaces, IsReady
<1>32. CASE AppRuns
  BY <1>32, Names DEF AppRuns, Marks, GoesTo, Started, Typed, TypedHost, TypedPackages,
    StartPlaces, LoopPlaces, EndPlaces, IsReady
<1>33. CASE AppChecks
  BY <1>33, Names DEF AppChecks, GoesTo, Started, Typed, TypedHost, TypedPackages,
    StartPlaces, LoopPlaces, EndPlaces, IsReady
<1>34. CASE AppDrains
  BY <1>34, Names DEF AppDrains, GoesTo, Started, Typed, TypedHost, TypedPackages,
    StartPlaces, LoopPlaces, EndPlaces, IsReady
<1>35. CASE AppReads
  <2>1. AppGets
    BY <1>35, AppReadsWays DEF Typed
  <2>. QED
    BY <1>35, <2>1, Names
       DEF AppGets, Started, Typed, TypedHost, TypedPackages, StartPlaces, LoopPlaces,
           EndPlaces, IsReady, Reads
<1>36. CASE AppIdles
  BY <1>36, Names DEF AppIdles, GoesTo, Started, Typed, TypedHost, TypedPackages,
    StartPlaces, LoopPlaces, EndPlaces, IsReady
<1>37. CASE AppSaves
  BY <1>37, Names DEF AppSaves, AppPosts, GoesTo, Started, Typed, TypedHost,
    TypedPackages, StartPlaces, LoopPlaces, EndPlaces, IsReady
<1>38. CASE AppFinishes
  BY <1>38, Names DEF AppFinishes, GoesTo, Started, Typed, TypedHost, TypedPackages,
    StartPlaces, LoopPlaces, EndPlaces, IsReady
<1>39. CASE AppFails
  BY <1>39, Names DEF AppFails, GoesTo, Started, Typed, TypedHost, TypedPackages,
    StartPlaces, LoopPlaces, EndPlaces, IsReady
<1>40. CASE AppMarksFailed
  BY <1>40, Names, Prelude DEF AppMarksFailed, Marks, GoesTo, Started, Typed, TypedHost,
    TypedPackages, StartPlaces, LoopPlaces, EndPlaces, IsReady
<1>41. CASE UNCHANGED vars
  BY <1>41, Names DEF Started, Typed, TypedHost, TypedPackages, StartPlaces, LoopPlaces,
    EndPlaces, IsReady
<1>. QED
  BY <1>1, <1>2, <1>3, <1>4, <1>5, <1>6, <1>7, <1>8, <1>9, <1>10, <1>11, <1>12, <1>13,
     <1>14, <1>15, <1>16, <1>17, <1>18, <1>19, <1>20, <1>21, <1>22, <1>23, <1>24, <1>25,
     <1>26, <1>27, <1>28, <1>29, <1>30, <1>31, <1>32, <1>33, <1>34, <1>35, <1>36, <1>37,
     <1>38, <1>39, <1>40, <1>41
    DEF Next, HostStarts, HostStep, ThreadStep, OwnStep, PackageStep, Stirs, WorkerStep,
      AppStep

\* Every step keeps the slots in line with the packages that were placed.
LEMMA PlacedStep ==
    ASSUME IInv, [Next]_vars
    PROVE  Placed'
<1>. USE DEF vars, packageVars, queues, control, hostVars, appVars, IInv
<1>1. CASE EmplaceFails
  BY <1>1, Names DEF EmplaceFails, HostGoesTo, Placed, Typed, Started, TypedHost,
    TypedPackages
<1>2. CASE Emplace
  BY <1>2, Names DEF Emplace, HostGoesTo, Placed, Typed, Started, TypedHost,
    TypedPackages
<1>3. CASE StartupFails
  BY <1>3, Names DEF StartupFails, HostGoesTo, Placed, Typed, Started, TypedHost,
    TypedPackages
<1>4. CASE StartupCreates
  BY <1>4, Names DEF StartupCreates, HostGoesTo, Creates, Marks, GoesTo, Placed, Typed,
    Started, TypedHost, TypedPackages
<1>5. CASE StartupSpins
  BY <1>5, Names DEF StartupSpins, HostGoesTo, IsStarting, Placed, Typed, Started,
    TypedHost, TypedPackages
<1>6. CASE StartupChecks
  BY <1>6, Names DEF StartupChecks, HostGoesTo, MoreThreads, Placed, Typed, Started,
    TypedHost, TypedPackages
<1>7. CASE HostQueries
  BY <1>7, Names DEF HostQueries, Placed, Typed, Started, TypedHost, TypedPackages
<1>8. CASE HostReads
  <2>1. HostGets
    BY <1>8, HostReadsWays DEF Typed
  <2>. QED
    BY <1>8, <2>1, Names
       DEF HostGets, Placed, Typed, TypedHost, TypedPackages, Started, Reads
<1>9. CASE HostTakes
  <2>1. HostOwns
    BY <1>9, HostTakesWays DEF Typed
  <2>. QED
    BY <1>9, <2>1, Names
       DEF HostOwns, Placed, Typed, TypedHost, TypedPackages, Started, Reads
<1>10. CASE HostPosts
  BY <1>10, Names DEF HostPosts, HostGoesTo, Sends, Placed, Typed, Started, TypedHost,
    TypedPackages
<1>11. CASE HostPokes
  BY <1>11, Names DEF HostPokes, HostGoesTo, Pokes, Placed, Typed, Started, TypedHost,
    TypedPackages
<1>12. CASE HostWakes
  BY <1>12, Names, Addressed DEF HostWakes, Wakes, Woken, Placed, Typed, Started,
    TypedHost, TypedPackages
<1>13. CASE ShutdownFindsNothing
  BY <1>13, Names DEF ShutdownFindsNothing, HostGoesTo, Placed, Typed, Started,
    TypedHost, TypedPackages
<1>14. CASE ShutdownSkips
  BY <1>14, Names DEF ShutdownSkips, NextEntry, FirstEntry, HostGoesTo, Placed, Typed,
    Started, TypedHost, TypedPackages
<1>15. CASE ShutdownRequests
  BY <1>15, Names DEF ShutdownRequests, RequestsExit, HostGoesTo, Placed, Typed,
    Started, TypedHost, TypedPackages
<1>16. CASE ShutdownReleases
  BY <1>16, Names DEF ShutdownReleases, ReleasesWord, HostGoesTo, Placed, Typed,
    Started, TypedHost, TypedPackages
<1>17. CASE ShutdownWakes
  BY <1>17, Names, Addressed DEF ShutdownWakes, Wakes, Woken, DropsControl, HostGoesTo,
    Placed, Typed, Started, TypedHost, TypedPackages, Ending
<1>18. CASE ShutdownAwaits
  BY <1>18, Names DEF ShutdownAwaits, HostGoesTo, Placed, Typed, Started, TypedHost,
    TypedPackages
<1>19. CASE ShutdownJoins
  BY <1>19, Names DEF ShutdownJoins, Joins, NextEntry, FirstEntry, HostGoesTo, Placed,
    Typed, Started, TypedHost, TypedPackages
<1>20. ASSUME NEW p \in Packages, WaitMarks(p), UNCHANGED <<hostVars, hand, appVars, written>>
      PROVE  Placed'
  BY <1>20, Names DEF WaitMarks, Marks, GoesTo, Placed, Typed, Started, TypedHost,
    TypedPackages
<1>21. ASSUME NEW p \in Packages, WaitLoads(p), UNCHANGED <<hostVars, hand, appVars, written>>
      PROVE  Placed'
  <2>1. Loads(p)
    BY <1>21, WaitLoadsWays DEF Typed
  <2>. QED
    BY <1>21, <2>1, Names DEF Loads, Placed, Typed, TypedHost, TypedPackages, Started, Reads
<1>22. ASSUME NEW p \in Packages, WaitSleeps(p), UNCHANGED <<hostVars, hand, appVars, written>>
      PROVE  Placed'
  BY <1>22, Names DEF WaitSleeps, GoesTo, Parks, Placed, Typed, Started, TypedHost,
    TypedPackages
<1>23. ASSUME NEW p \in Packages, WaitResumes(p), UNCHANGED <<hostVars, hand, appVars, written>>
      PROVE  Placed'
  BY <1>23, Names DEF WaitResumes, Marks, GoesTo, Placed, Typed, Started, TypedHost,
    TypedPackages
<1>24. ASSUME NEW p \in Packages, ThreadExits(p), UNCHANGED <<hostVars, hand, appVars, written>>
      PROVE  Placed'
  BY <1>24, Names DEF ThreadExits, Marks, GoesTo, Placed, Typed, Started, TypedHost,
    TypedPackages
<1>25. ASSUME NEW p \in Packages, ThreadEnds(p), UNCHANGED <<hostVars, hand, appVars, written>>
      PROVE  Placed'
  BY <1>25, Names DEF ThreadEnds, GoesTo, Placed, Typed, Started, TypedHost,
    TypedPackages
<1>26. ASSUME NEW p \in Packages, WakesSpuriously(p), UNCHANGED <<hostVars, hand, appVars, written>>
      PROVE  Placed'
  BY <1>26, Names DEF WakesSpuriously, GoesTo, Placed, Typed, Started, TypedHost,
    TypedPackages
<1>27. ASSUME NEW p \in Packages, ThreadStarts(p)
      PROVE  Placed'
  BY <1>27, Names DEF ThreadStarts, Marks, GoesTo, Placed, Typed, Started, TypedHost,
    TypedPackages
<1>28. ASSUME NEW p \in Workers, WorkerChecks(p)
      PROVE  Placed'
  BY <1>28, Names DEF WorkerChecks, GoesTo, Placed, Typed, Started, TypedHost,
    TypedPackages
<1>29. ASSUME NEW p \in Workers, WorkerReads(p)
      PROVE  Placed'
  <2>1. Gets(p) /\ p \in Packages
    BY <1>29, Names, WorkerReadsWays DEF Typed
  <2>2. PICK place \in {"wait", "serve"} : pc' = [pc EXCEPT ![p] = place]
    BY <2>1 DEF Gets
  <2>3. pc[p] = "read" /\ UNCHANGED <<word, hasControl, control, created, epoch, hostVars>>
    BY <2>1 DEF Gets
  <2>. QED
    BY <2>1, <2>2, <2>3, Names DEF Placed, Typed, TypedHost, TypedPackages, Started, Reads
<1>30. ASSUME NEW p \in Workers, WorkerServes(p)
      PROVE  Placed'
  <2>1. Serves(p)
    BY <1>30, WorkerServesWays DEF Typed
  <2>. QED
    BY <1>30, <2>1, Names
       DEF Serves, Placed, Typed, TypedHost, TypedPackages, Started, Reads
<1>31. CASE AppKicksOff
  BY <1>31, Names DEF AppKicksOff, AppPosts, GoesTo, Placed, Typed, Started, TypedHost,
    TypedPackages
<1>32. CASE AppRuns
  BY <1>32, Names DEF AppRuns, Marks, GoesTo, Placed, Typed, Started, TypedHost,
    TypedPackages
<1>33. CASE AppChecks
  BY <1>33, Names DEF AppChecks, GoesTo, Placed, Typed, Started, TypedHost,
    TypedPackages
<1>34. CASE AppDrains
  BY <1>34, Names DEF AppDrains, GoesTo, Placed, Typed, Started, TypedHost,
    TypedPackages
<1>35. CASE AppReads
  <2>1. AppGets /\ Application \in Packages
    BY <1>35, Names, AppReadsWays DEF Typed
  <2>2. PICK place \in {"decide", "drain"} : pc' = [pc EXCEPT ![Application] = place]
    BY <2>1 DEF AppGets
  <2>3. pc[Application] = "read" /\ UNCHANGED <<word, hasControl, control, created, epoch, hostVars>>
    BY <2>1 DEF AppGets
  <2>. QED
    BY <2>1, <2>2, <2>3, Names DEF Placed, Typed, TypedHost, TypedPackages, Started, Reads
<1>36. CASE AppIdles
  BY <1>36, Names DEF AppIdles, GoesTo, Placed, Typed, Started, TypedHost, TypedPackages
<1>37. CASE AppSaves
  BY <1>37, Names DEF AppSaves, AppPosts, GoesTo, Placed, Typed, Started, TypedHost,
    TypedPackages
<1>38. CASE AppFinishes
  BY <1>38, Names DEF AppFinishes, GoesTo, Placed, Typed, Started, TypedHost,
    TypedPackages
<1>39. CASE AppFails
  BY <1>39, Names DEF AppFails, GoesTo, Placed, Typed, Started, TypedHost, TypedPackages
<1>40. CASE AppMarksFailed
  BY <1>40, Names DEF AppMarksFailed, Marks, GoesTo, Placed, Typed, Started, TypedHost,
    TypedPackages
<1>41. CASE UNCHANGED vars
  BY <1>41, Names DEF Placed, Typed, Started, TypedHost, TypedPackages
<1>. QED
  BY <1>1, <1>2, <1>3, <1>4, <1>5, <1>6, <1>7, <1>8, <1>9, <1>10, <1>11, <1>12, <1>13,
     <1>14, <1>15, <1>16, <1>17, <1>18, <1>19, <1>20, <1>21, <1>22, <1>23, <1>24, <1>25,
     <1>26, <1>27, <1>28, <1>29, <1>30, <1>31, <1>32, <1>33, <1>34, <1>35, <1>36, <1>37,
     <1>38, <1>39, <1>40, <1>41
    DEF Next, HostStarts, HostStep, ThreadStep, OwnStep, PackageStep, Stirs, WorkerStep,
      AppStep

\* Every step keeps what is known of the words, the controls and the shutdown.
LEMMA ControlledStep ==
    ASSUME IInv, [Next]_vars
    PROVE  Controlled'
<1>. USE DEF vars, packageVars, queues, control, hostVars, appVars, IInv
<1>1. CASE EmplaceFails
  BY <1>1, Names DEF EmplaceFails, HostGoesTo, Controlled, Typed, TypedHost,
    TypedPackages, ShutThread, EndPlaces, Ending
<1>2. CASE Emplace
  BY <1>2, Names DEF Emplace, HostGoesTo, Controlled, Typed, TypedHost, TypedPackages,
    ShutThread, EndPlaces, Ending
<1>3. CASE StartupFails
  BY <1>3, Names DEF StartupFails, HostGoesTo, Controlled, Typed, TypedHost,
    TypedPackages, ShutThread, EndPlaces, Ending
<1>4. CASE StartupCreates
  BY <1>4, Names DEF StartupCreates, HostGoesTo, Creates, Marks, GoesTo, Controlled,
    Typed, TypedHost, TypedPackages, ShutThread, EndPlaces, Ending, Released, Started
<1>5. CASE StartupSpins
  BY <1>5, Names DEF StartupSpins, HostGoesTo, IsStarting, Controlled, Typed, TypedHost,
    TypedPackages, ShutThread, EndPlaces, Ending
<1>6. CASE StartupChecks
  BY <1>6, Names DEF StartupChecks, HostGoesTo, MoreThreads, Controlled, Typed,
    TypedHost, TypedPackages, ShutThread, EndPlaces, Ending
<1>7. CASE HostQueries
  BY <1>7, Names DEF HostQueries, Controlled, Typed, TypedHost, TypedPackages,
    ShutThread, EndPlaces, Ending
<1>8. CASE HostReads
  <2>1. HostGets
    BY <1>8, HostReadsWays DEF Typed
  <2>. QED
    BY <1>8, <2>1, Names
       DEF HostGets, Controlled, Typed, TypedHost, TypedPackages, ShutThread, EndPlaces,
           Ending, Reads
<1>9. CASE HostTakes
  <2>1. HostOwns
    BY <1>9, HostTakesWays DEF Typed
  <2>. QED
    BY <1>9, <2>1, Names
       DEF HostOwns, Controlled, Typed, TypedHost, TypedPackages, ShutThread, EndPlaces,
           Ending, Reads
<1>10. CASE HostPosts
  BY <1>10, Names DEF HostPosts, HostGoesTo, Sends, Controlled, Typed, TypedHost,
    TypedPackages, ShutThread, EndPlaces, Ending
<1>11. CASE HostPokes
  BY <1>11, Names, Addressed DEF HostPokes, HostGoesTo, Pokes, Controlled, Typed,
    TypedHost, TypedPackages, ShutThread, EndPlaces, Ending, NextWord, Released
<1>12. CASE HostWakes
  BY <1>12, Names, Addressed, SMTT(30) DEF HostWakes, Wakes, Woken, Controlled, Typed, TypedHost,
    TypedPackages, ShutThread, EndPlaces, Ending
<1>13. CASE ShutdownFindsNothing
  BY <1>13, Names DEF ShutdownFindsNothing, HostGoesTo, Controlled, Typed, TypedHost,
    TypedPackages, ShutThread, EndPlaces, Ending
<1>14. CASE ShutdownSkips
  <2>1. hasControl[Thread[index]] => ShutThread = Thread[index]
    BY Names DEF Controlled, Placed, ShutThread, Typed, TypedHost
  <2>2. ~hasControl[Thread[index]]
    BY <1>14, <2>1, Names DEF ShutdownSkips, Controlled, Typed, TypedHost
  <2>3. UNCHANGED <<packageVars, slots, placed>>
    BY <1>14 DEF ShutdownSkips, NextEntry, HostGoesTo
  <2>4. \/ index = 1 /\ hpc' = "returned"
        \/ index # 1 /\ hpc' = "shutdown" /\ index' = index - 1
    BY <1>14 DEF ShutdownSkips, NextEntry, FirstEntry, HostGoesTo
  <2>5. \A i \in 1 .. 3 : i >= index => ~hasControl[Thread[i]]
    BY <1>14, <2>2 DEF ShutdownSkips, Controlled, Typed, TypedHost
  <2>6. \A p \in Packages : hasControl[p] => index # 1
    BY <2>5, Names DEF Typed, TypedHost
  <2>. QED
    BY <1>14, <2>3, <2>4, <2>5, <2>6, Names
       DEF ShutdownSkips, Controlled, ShutThread, EndPlaces, Ending, Typed, TypedHost,
           TypedPackages
<1>15. CASE ShutdownRequests
  BY <1>15, Names DEF ShutdownRequests, RequestsExit, HostGoesTo, Controlled, Typed,
    TypedHost, TypedPackages, ShutThread, EndPlaces, Ending
<1>16. CASE ShutdownReleases
  BY <1>16, Names DEF ShutdownReleases, ReleasesWord, HostGoesTo, Controlled, Typed,
    TypedHost, TypedPackages, ShutThread, EndPlaces, Ending
<1>17. CASE ShutdownWakes
  BY <1>17, Names, Addressed, SMTT(30) DEF ShutdownWakes, Wakes, Woken, DropsControl, HostGoesTo,
    Controlled, Typed, TypedHost, TypedPackages, ShutThread, EndPlaces, Ending
<1>18. CASE ShutdownAwaits
  BY <1>18, Names DEF ShutdownAwaits, HostGoesTo, Controlled, Typed, TypedHost,
    TypedPackages, ShutThread, EndPlaces, Ending
<1>19. CASE ShutdownJoins
  <2>1. hasControl[Thread[index]] => ShutThread = Thread[index]
    BY Names DEF Controlled, Placed, ShutThread, Typed, TypedHost
  <2>2. ~hasControl[Thread[index]]
    BY <1>19, <2>1, Names DEF ShutdownJoins, Controlled, Typed, TypedHost
  <2>3. UNCHANGED <<queues, word, hasControl, control, pc, epoch, slots, placed>>
    BY <1>19 DEF ShutdownJoins, NextEntry, HostGoesTo
  <2>4. \/ index = 1 /\ hpc' = "returned"
        \/ index # 1 /\ hpc' = "shutdown" /\ index' = index - 1
    BY <1>19 DEF ShutdownJoins, NextEntry, FirstEntry, HostGoesTo
  <2>5. \A i \in 1 .. 3 : i >= index => ~hasControl[Thread[i]]
    BY <1>19, <2>2 DEF ShutdownJoins, Controlled, Typed, TypedHost
  <2>6. \A p \in Packages : hasControl[p] => index # 1
    BY <2>5, Names DEF Typed, TypedHost
  <2>. QED
    BY <1>19, <2>3, <2>4, <2>5, <2>6, Names
       DEF ShutdownJoins, Joins, Controlled, ShutThread, EndPlaces, Ending, Typed,
           TypedHost, TypedPackages
<1>20. ASSUME NEW p \in Packages, WaitMarks(p), UNCHANGED <<hostVars, hand, appVars, written>>
      PROVE  Controlled'
  BY <1>20, Names DEF WaitMarks, Marks, GoesTo, Controlled, Typed, TypedHost,
    TypedPackages, ShutThread, EndPlaces, Ending
<1>21. ASSUME NEW p \in Packages, WaitLoads(p), UNCHANGED <<hostVars, hand, appVars, written>>
      PROVE  Controlled'
  <2>1. Loads(p)
    BY <1>21, WaitLoadsWays DEF Typed
  <2>. QED
    BY <1>21, <2>1, Names
       DEF Loads, Controlled, Typed, TypedHost, TypedPackages, ShutThread, EndPlaces,
           Ending, Reads
<1>22. ASSUME NEW p \in Packages, WaitSleeps(p), UNCHANGED <<hostVars, hand, appVars, written>>
      PROVE  Controlled'
  BY <1>22, Names DEF WaitSleeps, GoesTo, Parks, Controlled, Typed, TypedHost,
    TypedPackages, ShutThread, EndPlaces, Ending
<1>23. ASSUME NEW p \in Packages, WaitResumes(p), UNCHANGED <<hostVars, hand, appVars, written>>
      PROVE  Controlled'
  BY <1>23, Names DEF WaitResumes, Marks, GoesTo, Controlled, Typed, TypedHost,
    TypedPackages, ShutThread, EndPlaces, Ending
<1>24. ASSUME NEW p \in Packages, ThreadExits(p), UNCHANGED <<hostVars, hand, appVars, written>>
      PROVE  Controlled'
  BY <1>24, Names DEF ThreadExits, Marks, GoesTo, Controlled, Typed, TypedHost,
    TypedPackages, ShutThread, EndPlaces, Ending
<1>25. ASSUME NEW p \in Packages, ThreadEnds(p), UNCHANGED <<hostVars, hand, appVars, written>>
      PROVE  Controlled'
  BY <1>25, Names DEF ThreadEnds, GoesTo, Controlled, Typed, TypedHost, TypedPackages,
    ShutThread, EndPlaces, Ending
<1>26. ASSUME NEW p \in Packages, WakesSpuriously(p), UNCHANGED <<hostVars, hand, appVars, written>>
      PROVE  Controlled'
  BY <1>26, Names DEF WakesSpuriously, GoesTo, Controlled, Typed, TypedHost,
    TypedPackages, ShutThread, EndPlaces, Ending
<1>27. ASSUME NEW p \in Packages, ThreadStarts(p)
      PROVE  Controlled'
  BY <1>27, Names DEF ThreadStarts, Marks, GoesTo, Controlled, Typed, TypedHost,
    TypedPackages, ShutThread, EndPlaces, Ending
<1>28. ASSUME NEW p \in Workers, WorkerChecks(p)
      PROVE  Controlled'
  BY <1>28, Names DEF WorkerChecks, GoesTo, Controlled, Typed, TypedHost, TypedPackages,
    ShutThread, EndPlaces, Ending
<1>29. ASSUME NEW p \in Workers, WorkerReads(p)
      PROVE  Controlled'
  <2>1. Gets(p) /\ p \in Packages
    BY <1>29, Names, WorkerReadsWays DEF Typed
  <2>2. PICK place \in {"wait", "serve"} : pc' = [pc EXCEPT ![p] = place]
    BY <2>1 DEF Gets
  <2>3. pc[p] = "read" /\ UNCHANGED <<word, hasControl, control, created, epoch, hostVars>>
    BY <2>1 DEF Gets
  <2>. QED
    BY <2>1, <2>2, <2>3, Names
       DEF Controlled, Typed, TypedHost, TypedPackages, ShutThread, EndPlaces, Ending, Reads
<1>30. ASSUME NEW p \in Workers, WorkerServes(p)
      PROVE  Controlled'
  <2>1. Serves(p)
    BY <1>30, WorkerServesWays DEF Typed
  <2>. QED
    BY <1>30, <2>1, Names
       DEF Serves, Controlled, Typed, TypedHost, TypedPackages, ShutThread, EndPlaces,
           Ending, Reads
<1>31. CASE AppKicksOff
  BY <1>31, Names DEF AppKicksOff, AppPosts, GoesTo, Controlled, Typed, TypedHost,
    TypedPackages, ShutThread, EndPlaces, Ending
<1>32. CASE AppRuns
  BY <1>32, Names DEF AppRuns, Marks, GoesTo, Controlled, Typed, TypedHost,
    TypedPackages, ShutThread, EndPlaces, Ending
<1>33. CASE AppChecks
  BY <1>33, Names DEF AppChecks, GoesTo, Controlled, Typed, TypedHost, TypedPackages,
    ShutThread, EndPlaces, Ending
<1>34. CASE AppDrains
  BY <1>34, Names DEF AppDrains, GoesTo, Controlled, Typed, TypedHost, TypedPackages,
    ShutThread, EndPlaces, Ending
<1>35. CASE AppReads
  <2>1. AppGets /\ Application \in Packages
    BY <1>35, Names, AppReadsWays DEF Typed
  <2>2. PICK place \in {"decide", "drain"} : pc' = [pc EXCEPT ![Application] = place]
    BY <2>1 DEF AppGets
  <2>3. pc[Application] = "read" /\ UNCHANGED <<word, hasControl, control, created, epoch, hostVars>>
    BY <2>1 DEF AppGets
  <2>. QED
    BY <2>1, <2>2, <2>3, Names
       DEF Controlled, Typed, TypedHost, TypedPackages, ShutThread, EndPlaces, Ending, Reads
<1>36. CASE AppIdles
  BY <1>36, Names DEF AppIdles, GoesTo, Controlled, Typed, TypedHost, TypedPackages,
    ShutThread, EndPlaces, Ending
<1>37. CASE AppSaves
  BY <1>37, Names DEF AppSaves, GoesTo,
    Controlled, Typed, TypedHost, TypedPackages, ShutThread, EndPlaces, Ending, Reads
<1>38. CASE AppFinishes
  BY <1>38, Names DEF AppFinishes, GoesTo, Controlled, Typed, TypedHost, TypedPackages,
    ShutThread, EndPlaces, Ending
<1>39. CASE AppFails
  BY <1>39, Names DEF AppFails, GoesTo, Controlled, Typed, TypedHost, TypedPackages,
    ShutThread, EndPlaces, Ending
<1>40. CASE AppMarksFailed
  BY <1>40, Names DEF AppMarksFailed, Marks, GoesTo, Controlled, Typed, TypedHost,
    TypedPackages, ShutThread, EndPlaces, Ending
<1>41. CASE UNCHANGED vars
  BY <1>41, Names DEF Controlled, Typed, TypedHost, TypedPackages, ShutThread,
    EndPlaces, Ending
<1>. QED
  BY <1>1, <1>2, <1>3, <1>4, <1>5, <1>6, <1>7, <1>8, <1>9, <1>10, <1>11, <1>12, <1>13,
     <1>14, <1>15, <1>16, <1>17, <1>18, <1>19, <1>20, <1>21, <1>22, <1>23, <1>24, <1>25,
     <1>26, <1>27, <1>28, <1>29, <1>30, <1>31, <1>32, <1>33, <1>34, <1>35, <1>36, <1>37,
     <1>38, <1>39, <1>40, <1>41
    DEF Next, HostStarts, HostStep, ThreadStep, OwnStep, PackageStep, Stirs, WorkerStep,
      AppStep

----------------------------------------------------------------------------
(* How it moves *)

\* AppKicksOff sends the first message.
LEMMA KicksOff ==
    ASSUME IInv, NEW t \in Tokens, Carries(t), Level(t), Fate(t), AppKicksOff
    PROVE  Flows'
<1>. USE Names DEF IInv
<1>1. /\ pc[Application] = "kick" /\ pc' = [pc EXCEPT ![Application] = "run"]
      /\ toHost' = [toHost EXCEPT ![Application] = Append(@, Msg("TgaLoadRequest", "none"))]
      /\ UNCHANGED <<toWorker, owned, word, hasControl, control, created, epoch>>
      /\ UNCHANGED <<hostVars, hand, appVars, written>>
  BY DEF AppKicksOff, AppPosts, GoesTo
<1>2. t.place = "app" /\ Turn[t.msg.id] = 0
  BY <1>1 DEF Carries
<1>3. hpc \notin EndPlaces
  BY <1>1 DEF Started
<1>4. PICK u \in Tokens : u.place = "toHost" /\ u.on = Application /\ u.msg = Msg("TgaLoadRequest", "none")
  <2>1. "toHost" \in Carriers /\ Application \in Packages /\ Msg("TgaLoadRequest", "none") \in Messages
    BY Kinds DEF Carriers
  <2>. QED
    BY <2>1, TokenExists
<1>5. Turn[u.msg.id] = 1
  BY <1>4 DEF Msg, Turn
<1>6. Carries(u)'
  <2>1. ASSUME NEW p \in Packages
        PROVE  /\ toWorker'[p] = Only(u, "toWorker", p) /\ owned'[p] = Only(u, "owned", p)
               /\ toHost'[p] = Only(u, "toHost", p)
               /\ hand'[p] = NoMsg /\ pc'[p] # "serve"
    <3>1. toWorker[p] = <<>> /\ toHost[p] = <<>> /\ owned[p] = <<>> /\ hand[p] = NoMsg /\ pc[p] # "serve"
      BY <1>2, SMTT(30) DEF Carries, Only
    <3>2. toHost'[p] = IF p = Application THEN <<u.msg>> ELSE <<>>
      <4>1. toHost'[p] = IF p = Application THEN Append(<<>>, u.msg) ELSE <<>>
        BY <1>1, <1>4, <3>1 DEF Typed, TypedMessages
      <4>. QED
        BY <4>1
    <3>3. pc'[p] # "serve"
      BY <1>1, <3>1 DEF Typed, TypedPackages
    <3>. QED
      BY <1>1, <1>4, <3>1, <3>2, <3>3 DEF Only
  <2>2. \A p \in Workers : Second(p) \in Nat /\ Second(p) > 1
    BY DEF Second
  <2>. QED
    BY <1>1, <1>2, <1>3, <1>4, <1>5, <2>1, <2>2
       DEF Carries, Route, hostVars, appVars, Workers, Typed, TypedPackages, StartPlaces
<1>7. Level(u)'
  <2>1. \A p \in Workers : 1 < First(p) /\ First(p) < Second(p) /\ First(p) \in Nat /\ Second(p) \in Nat
    BY DEF First, Second
  <2>. QED
    BY <1>1, <1>2, <1>4, <1>5, <2>1
       DEF Level, Levelled, Unpoked, hostVars, control, Typed, TypedPackages
<1>8. Fate(u)'
  BY <1>1, <1>2, <1>4, <1>5 DEF Fate, hostVars, appVars, control
<1>. QED
  BY <1>6, <1>7, <1>8 DEF Flows

\* AppSaves sends the seventh, the second request, when the image has come.
LEMMA Saves ==
    ASSUME IInv, NEW t \in Tokens, Carries(t), Level(t), Fate(t), AppSaves
    PROVE  Flows'
<1>. USE Names DEF IInv
<1>1. /\ pc[Application] = "decide" /\ updated /\ pc' = [pc EXCEPT ![Application] = "top"]
      /\ tgaState = "waiting_for_tga_load" /\ loaded = "full" /\ tgaState' = "waiting_for_tga_save"
      /\ toHost' = [toHost EXCEPT ![Application] = Append(@, Msg("TgaSaveRequest", "none"))]
      /\ UNCHANGED <<toWorker, owned, word, hasControl, control, created, epoch>>
      /\ UNCHANGED <<hostVars, hand, updated, loaded, saved, written>>
  BY DEF AppSaves, AppPosts, GoesTo
<1>2. t.place = "app" /\ Turn[t.msg.id] = 6
  BY <1>1 DEF Carries, Fate
<1>3. hpc \notin EndPlaces \cup StartPlaces
  BY <1>1, <1>2, InLoop
<1>4. PICK u \in Tokens : u.place = "toHost" /\ u.on = Application /\ u.msg = Msg("TgaSaveRequest", "none")
  <2>1. "toHost" \in Carriers /\ Application \in Packages /\ Msg("TgaSaveRequest", "none") \in Messages
    BY Kinds DEF Carriers
  <2>. QED
    BY <2>1, TokenExists
<1>5. Turn[u.msg.id] = 7
  BY <1>4 DEF Msg, Turn
<1>6. Carries(u)'
  <2>1. ASSUME NEW p \in Packages
        PROVE  /\ toWorker'[p] = Only(u, "toWorker", p) /\ owned'[p] = Only(u, "owned", p)
               /\ toHost'[p] = Only(u, "toHost", p)
               /\ hand'[p] = NoMsg /\ pc'[p] # "serve"
    <3>1. toWorker[p] = <<>> /\ toHost[p] = <<>> /\ owned[p] = <<>> /\ hand[p] = NoMsg /\ pc[p] # "serve"
      BY <1>2 DEF Carries, Only
    <3>2. toHost'[p] = IF p = Application THEN <<u.msg>> ELSE <<>>
      <4>1. toHost'[p] = IF p = Application THEN Append(<<>>, u.msg) ELSE <<>>
        BY <1>1, <1>4, <3>1 DEF Typed, TypedMessages
      <4>. QED
        BY <4>1
    <3>3. pc'[p] # "serve"
      BY <1>1, <3>1 DEF Typed, TypedPackages
    <3>. QED
      BY <1>1, <1>4, <3>1, <3>2, <3>3 DEF Only
  <2>2. \A p \in Workers : 6 >= Second(p) <=> 7 >= Second(p)
    BY DEF Second
  <2>. QED
    BY <1>1, <1>2, <1>3, <1>4, <1>5, <2>1, <2>2
       DEF Carries, Route, hostVars, appVars, Workers, Typed, TypedPackages, StartPlaces
<1>7. Level(u)'
  <2>1. \A p \in Workers : First(p) < 6 /\ 7 < Second(p) /\ First(p) \in Nat /\ Second(p) \in Nat
    BY DEF First, Second
  <2>. QED
    BY <1>1, <1>2, <1>4, <1>5, <2>1
       DEF Level, Levelled, Unpoked, hostVars, control, Typed, TypedPackages, Workers
<1>8. Fate(u)'
  BY <1>1, <1>2, <1>4, <1>5 DEF Fate, hostVars, appVars, control, Outcome
<1>. QED
  BY <1>6, <1>7, <1>8 DEF Flows

\* AppFinishes ends the flow, with the image saved or not known to be lost.
LEMMA Finishes ==
    ASSUME IInv, NEW t \in Tokens, Carries(t), Level(t), Fate(t), AppFinishes
    PROVE  Flows'
<1>. USE Names DEF IInv
<1>1. /\ pc[Application] = "decide" /\ updated /\ pc' = [pc EXCEPT ![Application] = "exit"]
      /\ UNCHANGED <<queues, word, hasControl, exitRequest, runState, created, epoch>>
      /\ UNCHANGED <<hostVars, hand, updated, loaded, saved, written>>
  BY DEF AppFinishes, GoesTo, appVars, control
<1>2. t.place = "app" /\ Turn[t.msg.id] \in {6, 12}
  BY <1>1 DEF Carries
<1>3. hpc \notin EndPlaces \cup StartPlaces
  BY <1>1, <1>2, InLoop
<1>4. PICK u \in Tokens : u.place = "gone" /\ u.on = Application /\ u.msg = NoMsg
  <2>1. "gone" \in Carriers /\ Application \in Packages /\ NoMsg \in Messages
    BY Kinds DEF Carriers
  <2>. QED
    BY <2>1, TokenExists
<1>5. Turn[u.msg.id] = 0
  BY <1>4 DEF Msg, NoMsg, Turn
<1>6. Carries(u)'
  <2>1. ASSUME NEW p \in Packages
        PROVE  /\ toWorker'[p] = Only(u, "toWorker", p) /\ owned'[p] = Only(u, "owned", p)
               /\ toHost'[p] = Only(u, "toHost", p)
               /\ hand'[p] = NoMsg /\ pc'[p] # "serve"
    BY <1>1, <1>2, <1>4, SMTT(30) DEF Carries, Only, Typed, TypedPackages, queues
  <2>. QED
    BY <1>1, <1>2, <1>3, <1>4, <1>5, <2>1
       DEF Carries, Route, hostVars, Typed, TypedPackages
<1>7. Level(u)'
  BY <1>4 DEF Level
<1>8. Fate(u)'
  BY <1>1, <1>2, <1>4, <1>5
     DEF AppFinishes, Fate, hostVars, appVars, Outcome, FailureCode, control, Typed,
         TypedPackages
<1>. QED
  BY <1>6, <1>7, <1>8 DEF Flows

\* AppFails ends the flow, with the load or the save failed.
LEMMA Fails ==
    ASSUME IInv, NEW t \in Tokens, Carries(t), Level(t), Fate(t), AppFails
    PROVE  Flows'
<1>. USE Names DEF IInv
<1>1. /\ pc[Application] = "decide" /\ updated /\ pc' = [pc EXCEPT ![Application] = "fail"]
      /\ UNCHANGED <<queues, word, hasControl, exitRequest, runState, created, epoch>>
      /\ UNCHANGED <<hostVars, hand, updated, loaded, saved, written>>
  BY DEF AppFails, GoesTo, appVars, control
<1>2. t.place = "app" /\ Turn[t.msg.id] \in {6, 12}
  BY <1>1 DEF Carries
<1>3. hpc \notin EndPlaces \cup StartPlaces
  BY <1>1, <1>2, InLoop
<1>4. PICK u \in Tokens : u.place = "gone" /\ u.on = Application /\ u.msg = NoMsg
  <2>1. "gone" \in Carriers /\ Application \in Packages /\ NoMsg \in Messages
    BY Kinds DEF Carriers
  <2>. QED
    BY <2>1, TokenExists
<1>5. Turn[u.msg.id] = 0
  BY <1>4 DEF Msg, NoMsg, Turn
<1>6. Carries(u)'
  <2>1. ASSUME NEW p \in Packages
        PROVE  /\ toWorker'[p] = Only(u, "toWorker", p) /\ owned'[p] = Only(u, "owned", p)
               /\ toHost'[p] = Only(u, "toHost", p)
               /\ hand'[p] = NoMsg /\ pc'[p] # "serve"
    BY <1>1, <1>2, <1>4 DEF Carries, Only, Typed, TypedPackages, queues
  <2>. QED
    BY <1>1, <1>2, <1>3, <1>4, <1>5, <2>1
       DEF Carries, Route, hostVars, Typed, TypedPackages
<1>7. Level(u)'
  BY <1>4 DEF Level
<1>8. Fate(u)'
  BY <1>1, <1>2, <1>4, <1>5
     DEF AppFails, Fate, hostVars, appVars, Outcome, FailureCode, control, Typed,
         TypedPackages
<1>. QED
  BY <1>6, <1>7, <1>8 DEF Flows

\* Only a decoded image is kept in load.rect_view.
LEMMA ViewsKept ==
    ASSUME Typed, NEW m \in Messages
    PROVE  Kept(m)["load.rect_view"] = IF Turn[m.id] = 5 THEN m.data ELSE view["load.rect_view"]
<1>1. view \in [Variables -> Outcome \cup {"none"}]
  BY DEF Typed, TypedImages
<1>2. m.id # "OwningTgaDecodeResult" => Kept(m)["load.rect_view"] = view["load.rect_view"]
  BY <1>1 DEF Kept, Variables
<1>3. m.id = "OwningTgaDecodeResult" => Kept(m)["load.rect_view"] = m.data
  BY <1>1 DEF Kept, Variables
<1>. QED
  BY <1>2, <1>3, Turns

\* What the host reads it answers at once.
LEMMA HostAnswers ==
    ASSUME IInv, NEW t \in Tokens, Carries(t), Level(t), Fate(t),
           t.place \in {"toHost", "owned"}, hpc \in {"read", "take"}, Reads(t.msg),
           \A p \in Packages : toWorker'[p] = <<>> /\ toHost'[p] = <<>> /\ owned'[p] = <<>>,
           UNCHANGED <<word, hasControl, control, created, pc, epoch, index, slots, placed, hand, appVars, written>>
    PROVE  Flows'
<1>. USE Names DEF IInv
<1>1. t.msg \in Messages /\ Turn[t.msg.id] \in {1, 3, 5, 7, 9, 11}
  <2>1. t.msg \in Messages /\ Turn[t.msg.id] \in {1, 7, 11, 3, 5, 9}
    BY DEF Carries, Route, Tokens
  <2>. QED
    BY <2>1
<1>2. PICK u \in Tokens : u.place = "outbound" /\ u.on = Answer(t.msg).to /\ u.msg = Answer(t.msg).msg
  <2>1. "outbound" \in Carriers /\ Answer(t.msg).to \in Packages /\ Answer(t.msg).msg \in Messages
    BY <1>1, Answered DEF Carriers
  <2>2. [place |-> "outbound", on |-> Answer(t.msg).to, msg |-> Answer(t.msg).msg] \in Tokens
    BY <2>1 DEF Tokens
  <2>. QED
    BY <2>2
<1>3. /\ hpc' = "post" /\ outbound' = [to |-> u.on, msg |-> u.msg] /\ view' = Kept(t.msg)
  BY <1>1, <1>2, Answered DEF Reads
<1>4. Turn[u.msg.id] = Turn[t.msg.id] + 1
  BY <1>1, <1>2, Answered
<1>5. /\ u.on = "bg_file_io" <=> Turn[t.msg.id] \in {1, 9}
      /\ u.on = "bg_conditioning" <=> Turn[t.msg.id] \in {3, 7}
      /\ u.on = "application" <=> Turn[t.msg.id] \in {5, 11}
      /\ Turn[t.msg.id] = 11 => u.msg.data = t.msg.data
  BY <1>1, <1>2, Answered
<1>6. Carries(u)'
  <2>1. Route(u, Turn[u.msg.id])
    BY <1>1, <1>2, <1>4, <1>5 DEF Route, First, Second, Workers, Application
  <2>2. ASSUME NEW p \in Packages
        PROVE  /\ toWorker'[p] = Only(u, "toWorker", p) /\ toHost'[p] = Only(u, "toHost", p)
               /\ owned'[p] = Only(u, "owned", p)
               /\ hand'[p] = NoMsg /\ pc'[p] # "serve"
    BY <1>2 DEF Carries, Only
  <2>3. /\ hpc' \notin StartPlaces \cup EndPlaces
        /\ pc[Application] \notin {"none", "startup", "kick", "fail", "exit", "return", "ended"}
        /\ ~(pc[Application] \in {"drain", "read", "decide"} /\ updated)
    BY <1>1, <1>3 DEF Carries, StartPlaces, EndPlaces
  <2>. QED
    BY <1>2, <1>3, <2>1, <2>2, <2>3 DEF Carries, appVars
<1>7. Level(u)'
  <2>1. ASSUME NEW p \in Workers, pc[p] # "none", word[p] # Released
        PROVE  Levelled(u, p)'
    <3>1. Levelled(t, p) /\ hpc \notin StartPlaces
      BY <2>1 DEF Level, StartPlaces
    <3>. QED
      BY <1>1, <1>2, <1>4, <3>1 DEF Levelled, Unpoked, First, Second, Workers, control
  <2>. QED
    BY <2>1 DEF Level
<1>8. Fate(u)'
  <2>1. view'["load.rect_view"] = IF Turn[t.msg.id] = 5 THEN t.msg.data ELSE view["load.rect_view"]
    BY <1>1, <1>3, ViewsKept
  <2>2. Turn[t.msg.id] = 5 => t.msg.data \in Outcome
    <3>1. CASE t.place = "owned"
      BY <3>1 DEF Carries
    <3>2. CASE t.place = "toHost"
      BY <3>2 DEF Carries, Route
    <3>. QED
      BY <3>1, <3>2
  <2>. QED
    BY <1>1, <1>2, <1>4, <1>5, <2>1, <2>2 DEF Fate, appVars, control
<1>. QED
  BY <1>6, <1>7, <1>8 DEF Flows

\* HostReads finds nothing, or the message under way, and has the answer to post.
LEMMA ReadsOn ==
    ASSUME IInv, NEW t \in Tokens, Carries(t), Level(t), Fate(t), HostReads
    PROVE  Flows'
<1>. USE Names DEF IInv
<1>1. HostGets
  BY HostReadsWays
<1>2. CASE toHost[Thread[at]] = <<>>
  <2>1. hpc' \in {"read", "take", "query"} /\ hpc \in {"read", "take"} /\ UNCHANGED <<toWorker, toHost, owned, outbound, view>>
    BY <1>1, <1>2 DEF HostGets
  <2>2. UNCHANGED <<word, control, pc, epoch, hand, appVars, written>>
    BY <1>1 DEF HostGets
  <2>3. Carries(t)' /\ Level(t)' /\ Fate(t)'
    BY <2>1, <2>2
       DEF Carries, Level, Levelled, Unpoked, Fate, StartPlaces, EndPlaces, appVars, control
  <2>. QED
    BY <2>3 DEF Flows
<1>3. CASE toHost[Thread[at]] # <<>>
  <2>1. /\ t.place = "toHost" /\ t.on = Thread[at]
        /\ Head(toHost[Thread[at]]) = t.msg /\ Tail(toHost[Thread[at]]) = <<>>
    BY <1>1, <1>3, Taken DEF HostGets
  <2>2. /\ hpc \in {"read", "take"} /\ Reads(t.msg) /\ toHost' = [toHost EXCEPT ![Thread[at]] = <<>>]
        /\ UNCHANGED <<toWorker, owned>>
    BY <1>1, <1>3, <2>1 DEF HostGets
  <2>3. UNCHANGED <<word, hasControl, control, created, pc, epoch, index, slots, placed, hand, appVars, written>>
    BY <1>1 DEF HostGets
  <2>4. \A p \in Packages : toWorker'[p] = <<>> /\ toHost'[p] = <<>> /\ owned'[p] = <<>>
    BY <2>1, <2>2 DEF Carries, Only, Typed, TypedMessages
  <2>. QED
    BY <2>1, <2>2, <2>3, <2>4, HostAnswers
<1>. QED
  BY <1>2, <1>3

\* So does HostTakes, which looks into the ring of owned objects.
LEMMA TakesOn ==
    ASSUME IInv, NEW t \in Tokens, Carries(t), Level(t), Fate(t), HostTakes
    PROVE  Flows'
<1>. USE Names DEF IInv
<1>1. HostOwns
  BY HostTakesWays
<1>2. CASE owned[Thread[at]] = <<>>
  <2>1. hpc' \in {"read", "take", "query"} /\ hpc \in {"read", "take"} /\ UNCHANGED <<toWorker, toHost, owned, outbound, view>>
    BY <1>1, <1>2 DEF HostOwns
  <2>2. UNCHANGED <<word, control, pc, epoch, hand, appVars, written>>
    BY <1>1 DEF HostOwns
  <2>3. Carries(t)' /\ Level(t)' /\ Fate(t)'
    BY <2>1, <2>2
       DEF Carries, Level, Levelled, Unpoked, Fate, StartPlaces, EndPlaces, appVars, control
  <2>. QED
    BY <2>3 DEF Flows
<1>3. CASE owned[Thread[at]] # <<>>
  <2>1. /\ t.place = "owned" /\ t.on = Thread[at]
        /\ Head(owned[Thread[at]]) = t.msg /\ Tail(owned[Thread[at]]) = <<>>
    BY <1>1, <1>3, Taken DEF HostOwns
  <2>2. /\ hpc \in {"read", "take"} /\ Reads(t.msg) /\ owned' = [owned EXCEPT ![Thread[at]] = <<>>]
        /\ UNCHANGED <<toWorker, toHost>>
    BY <1>1, <1>3, <2>1 DEF HostOwns
  <2>3. UNCHANGED <<word, hasControl, control, created, pc, epoch, index, slots, placed, hand, appVars, written>>
    BY <1>1 DEF HostOwns
  <2>4. \A p \in Packages : toWorker'[p] = <<>> /\ toHost'[p] = <<>> /\ owned'[p] = <<>>
    BY <2>1, <2>2 DEF Carries, Only, Typed, TypedMessages
  <2>. QED
    BY <2>1, <2>2, <2>3, <2>4, HostAnswers
<1>. QED
  BY <1>2, <1>3

\* HostPosts makes the message visible to its thread, which is not poked yet.
LEMMA PostsOn ==
    ASSUME IInv, NEW t \in Tokens, Carries(t), Level(t), Fate(t), HostPosts
    PROVE  Flows'
<1>. USE Names DEF IInv
<1>1. /\ t.place = "outbound" /\ outbound.to = t.on /\ outbound.msg = t.msg
      /\ t.on \in Packages /\ t.msg \in Messages
  BY DEF HostPosts, Carries, Tokens
<1>2. /\ hpc = "post" /\ hpc' = "poke" /\ outbound' = outbound /\ view' = view
      /\ toWorker' = [toWorker EXCEPT ![t.on] = Append(@, t.msg)]
      /\ UNCHANGED <<toHost, owned, word, hasControl, control, created, pc, epoch, hand, appVars, written>>
  BY <1>1 DEF HostPosts, Sends, HostGoesTo
<1>3. PICK u \in Tokens : u.place = "toWorker" /\ u.on = t.on /\ u.msg = t.msg
  <2>1. "toWorker" \in Carriers
    BY DEF Carriers
  <2>. QED
    BY <1>1, <2>1, TokenExists
<1>4. Carries(u)'
  <2>1. ASSUME NEW p \in Packages
        PROVE  /\ toWorker'[p] = Only(u, "toWorker", p) /\ toHost'[p] = Only(u, "toHost", p)
               /\ owned'[p] = Only(u, "owned", p)
               /\ hand'[p] = NoMsg /\ pc'[p] # "serve"
    <3>1. toWorker[p] = <<>> /\ toHost[p] = <<>> /\ owned[p] = <<>> /\ hand[p] = NoMsg /\ pc[p] # "serve"
      BY <1>1 DEF Carries, Only
    <3>2. toWorker'[p] = IF p = t.on THEN Append(<<>>, t.msg) ELSE <<>>
      BY <1>1, <1>2, <3>1 DEF Typed, TypedMessages
    <3>3. Append(<<>>, t.msg) = <<t.msg>>
      OBVIOUS
    <3>. QED
      BY <1>2, <1>3, <3>1, <3>2, <3>3 DEF Only
  <2>2. Route(u, Turn[u.msg.id])
    BY <1>1, <1>3 DEF Carries, Route
  <2>3. hpc' \notin StartPlaces \cup EndPlaces
    BY <1>2 DEF StartPlaces, EndPlaces
  <2>. QED
    BY <1>1, <1>2, <1>3, <2>1, <2>2, <2>3 DEF Carries, appVars
<1>5. Level(u)'
  BY <1>1, <1>2, <1>3 DEF Level, Levelled, Unpoked, StartPlaces, control
<1>6. Fate(u)'
  BY <1>1, <1>2, <1>3 DEF Fate, appVars, control
<1>. QED
  BY <1>4, <1>5, <1>6 DEF Flows

\* Before the shutdown the word of a running worker is not the released one.
LEMMA Unreleased ==
    ASSUME IInv, NEW p \in Workers, hpc \notin EndPlaces, pc[p] # "none"
    PROVE  pc[p] # "ended" => word[p] # Released
  BY Names DEF IInv, Controlled, EndPlaces

\* WorkerReads finds nothing and goes to wait, or has the message under way in hand.
LEMMA WorkerReadsOn ==
    ASSUME IInv, NEW t \in Tokens, Carries(t), Level(t), Fate(t), NEW p \in Workers, WorkerReads(p)
    PROVE  Flows'
<1>. USE Names DEF IInv
<1>1. Gets(p) /\ p \in Packages /\ pc[p] = "read"
  BY WorkerReadsWays DEF Gets
<1>2. UNCHANGED <<toHost, owned, word, hasControl, control, created, epoch, hostVars, appVars, written>>
  BY <1>1 DEF Gets
<1>3. \A q \in Workers : First(q) < Second(q) /\ First(q) \in 0 .. 12 /\ Second(q) \in 0 .. 12
  BY DEF First, Second
<1>4. Turn[t.msg.id] \in 0 .. 12
  BY Kinds DEF Tokens
<1>5. ASSUME NEW q \in Workers, t.place = "toWorker", Turn[t.msg.id] \in {First(q), Second(q)}
      PROVE  t.on = q
  BY <1>5 DEF Carries, Route, First, Second, Workers, Application
<1>6. CASE toWorker[p] = <<>>
  <2>1. pc' = [pc EXCEPT ![p] = "wait"] /\ UNCHANGED <<toWorker, hand>>
    BY <1>1, <1>6 DEF Gets
  <2>2. Carries(t)'
    BY <1>1, <1>2, <2>1 DEF Carries, Typed, TypedPackages, hostVars, appVars
  <2>3. ASSUME NEW q \in Workers, t.place # "gone", pc'[q] # "none", word[q] # Released
        PROVE  Levelled(t, q)'
    <3>1. Levelled(t, q)
      BY <1>1, <2>1, <2>3 DEF Level, Typed, TypedPackages
    <3>2. CASE q # p
      BY <1>2, <2>1, <3>1, <3>2
         DEF Levelled, Unpoked, hostVars, control, Typed, TypedPackages
    <3>3. CASE q = p
      <4>1. t.place = "toWorker" => Turn[t.msg.id] \notin {First(p), Second(p)}
        <5>1. t.place = "toWorker" => t.on # p
          BY <1>1, <1>6 DEF Carries, Only
        <5>. QED
          BY <5>1, <1>5
      <4>. QED
        BY <1>1, <1>2, <1>3, <1>4, <2>1, <3>1, <3>3, <4>1
           DEF Levelled, Unpoked, hostVars, control, Typed, TypedPackages
    <3>. QED
      BY <3>2, <3>3
  <2>4. Level(t)'
    BY <1>2, <2>3 DEF Level
  <2>5. Fate(t)'
    BY <1>2 DEF Fate, hostVars, appVars, control
  <2>. QED
    BY <2>2, <2>4, <2>5 DEF Flows
<1>7. CASE toWorker[p] # <<>>
  <2>1. /\ pc' = [pc EXCEPT ![p] = "serve"] /\ hand' = [hand EXCEPT ![p] = Head(toWorker[p])]
        /\ toWorker' = [toWorker EXCEPT ![p] = Tail(@)]
    BY <1>1, <1>7 DEF Gets
  <2>2. /\ t.place = "toWorker" /\ t.on = p /\ t.msg \in Messages
        /\ Head(toWorker[p]) = t.msg /\ Tail(toWorker[p]) = <<>>
    BY <1>1, <1>7, Taken
  <2>3. hpc \notin StartPlaces \cup EndPlaces
    BY <2>2, InLoop
  <2>4. Levelled(t, p) /\ Turn[t.msg.id] \in {First(p), Second(p)}
    <3>1. word[p] # Released
      BY <1>1, <2>3, Unreleased
    <3>2. Levelled(t, p)
      BY <1>1, <2>2, <3>1 DEF Level
    <3>. QED
      BY <2>2, <3>2 DEF Carries, Route
  <2>5. Turn[t.msg.id] = First(p) => hpc # "poke" /\ word[p] = epoch[p]
    BY <1>1, <1>3, <2>2, <2>3, <2>4 DEF Levelled, Unpoked
  <2>6. PICK u \in Tokens : u.place = "hand" /\ u.on = p /\ u.msg = t.msg
    <3>1. "hand" \in Carriers
      BY DEF Carriers
    <3>. QED
      BY <1>1, <2>2, <3>1, TokenExists
  <2>7. Carries(u)'
    <3>1. ASSUME NEW q \in Packages
          PROVE  /\ toWorker'[q] = Only(u, "toWorker", q) /\ toHost'[q] = Only(u, "toHost", q)
                 /\ owned'[q] = Only(u, "owned", q)
                 /\ hand'[q] = IF u.place = "hand" /\ u.on = q THEN u.msg ELSE NoMsg
                 /\ pc'[q] = "serve" <=> u.place = "hand" /\ u.on = q
      <4>1. q # p => toWorker[q] = <<>>
        BY <2>2 DEF Carries, Only
      <4>2. toHost[q] = <<>> /\ owned[q] = <<>> /\ hand[q] = NoMsg /\ pc[q] # "serve"
        BY <2>2 DEF Carries, Only
      <4>. QED
        BY <1>1, <1>2, <2>1, <2>2, <2>6, <4>1, <4>2
           DEF Only, Typed, TypedPackages, TypedMessages
    <3>2. Route(u, Turn[u.msg.id])
      BY <1>1, <2>4, <2>6 DEF Route
    <3>3. hpc = "poke" => outbound.to = p /\ Turn[t.msg.id] >= Second(p)
      BY <1>3, <1>4, <2>2, <2>4, <2>5 DEF Carries
    <3>4. hpc # "post"
      BY <2>2 DEF Carries
    <3>5. pc'[Application] = pc[Application] /\ p # Application
      BY <2>1 DEF Typed, TypedPackages
    <3>6. /\ pc[Application] \notin {"none", "startup", "kick", "fail", "exit", "return", "ended"}
          /\ ~(pc[Application] \in {"drain", "read", "decide"} /\ updated)
      BY <2>2 DEF Carries
    <3>7. hpc \in {"poke", "wake"} => outbound.to \in Packages
      BY DEF Carries
    <3>. QED
      BY <1>2, <2>3, <2>6, <3>1, <3>2, <3>3, <3>4, <3>5, <3>6, <3>7
         DEF Carries, hostVars, appVars
  <2>8. Level(u)'
    <3>1. ASSUME NEW q \in Workers, pc'[q] # "none", word[q] # Released
          PROVE  Levelled(u, q)'
      <4>1. Levelled(t, q)
        BY <1>1, <2>1, <2>2, <3>1 DEF Level, Typed, TypedPackages
      <4>2. CASE q # p
        <5>1. Turn[t.msg.id] \notin {First(q), Second(q)}
          BY <1>5, <2>2, <4>2
        <5>2. pc'[q] = pc[q] /\ word'[q] = word[q] /\ epoch'[q] = epoch[q] /\ runState'[q] = runState[q] /\ hpc' = hpc
          BY <1>2, <2>1, <4>2 DEF control, hostVars, Typed, TypedPackages
        <5>. QED
          BY <2>6, <4>1, <5>1, <5>2 DEF Levelled, Unpoked
      <4>3. CASE q = p
        BY <1>2, <1>3, <1>4, <2>2, <2>4, <2>5, <2>6, <4>3 DEF Levelled, Unpoked
      <4>. QED
        BY <4>2, <4>3
    <3>. QED
      BY <1>2, <3>1 DEF Level
  <2>9. Fate(u)'
    BY <1>2, <2>2, <2>6 DEF Fate, hostVars, appVars, control
  <2>. QED
    BY <2>7, <2>8, <2>9 DEF Flows
<1>. QED
  BY <1>6, <1>7

\* AppReads finds nothing, or learns how the load or the save went.
LEMMA AppReadsOn ==
    ASSUME IInv, NEW t \in Tokens, Carries(t), Level(t), Fate(t), AppReads
    PROVE  Flows'
<1>. USE Names DEF IInv
<1>1. AppGets /\ pc[Application] = "read"
  BY AppReadsWays DEF AppGets
<1>2. UNCHANGED <<toHost, owned, word, hasControl, control, created, epoch, hostVars, hand, written>>
  BY <1>1 DEF AppGets
<1>3. CASE toWorker[Application] = <<>>
  <2>1. pc' = [pc EXCEPT ![Application] = "decide"] /\ UNCHANGED <<toWorker, appVars>>
    BY <1>1, <1>3 DEF AppGets
  <2>2. Carries(t)'
    BY <1>1, <1>2, <2>1 DEF Carries, Typed, TypedPackages, hostVars, appVars
  <2>3. Level(t)'
    BY <1>1, <1>2, <2>1
       DEF Level, Levelled, Unpoked, hostVars, control, Typed, TypedPackages
  <2>4. Fate(t)'
    BY <1>2, <2>1 DEF Fate, hostVars, appVars, control
  <2>. QED
    BY <2>2, <2>3, <2>4 DEF Flows
<1>4. CASE toWorker[Application] # <<>>
  <2>1. /\ t.place = "toWorker" /\ t.on = Application /\ t.msg \in Messages
        /\ Head(toWorker[Application]) = t.msg /\ Tail(toWorker[Application]) = <<>>
    BY <1>1, <1>4, Taken
  <2>2. /\ pc' = [pc EXCEPT ![Application] = "drain"] /\ toWorker' = [toWorker EXCEPT ![Application] = Tail(@)]
        /\ loaded' = IF t.msg.id = "TgaLoadResult" THEN view["load.rect_view"] ELSE loaded
        /\ saved' = IF t.msg.id = "TgaSaveResult" THEN t.msg.data ELSE saved
        /\ updated' = TRUE /\ UNCHANGED tgaState
    BY <1>1, <1>4, <2>1 DEF AppGets
  <2>3. Turn[t.msg.id] \in {6, 12}
    BY <2>1 DEF Carries, Route
  <2>4. hpc \notin StartPlaces \cup EndPlaces
    BY <2>1, InLoop
  <2>5. PICK u \in Tokens : u.place = "app" /\ u.on = Application /\ u.msg = t.msg
    <3>1. "app" \in Carriers
      BY DEF Carriers
    <3>. QED
      BY <2>1, <3>1, TokenExists
  <2>6. Carries(u)'
    <3>1. ASSUME NEW p \in Packages
          PROVE  /\ toWorker'[p] = Only(u, "toWorker", p) /\ toHost'[p] = Only(u, "toHost", p)
                 /\ owned'[p] = Only(u, "owned", p)
                 /\ hand'[p] = NoMsg /\ pc'[p] # "serve"
      <4>1. p # Application => toWorker[p] = <<>>
        BY <2>1 DEF Carries, Only
      <4>2. toHost[p] = <<>> /\ owned[p] = <<>> /\ hand[p] = NoMsg /\ pc[p] # "serve"
        BY <2>1 DEF Carries, Only
      <4>. QED
        BY <1>2, <2>1, <2>2, <2>5, <4>1, <4>2 DEF Only, Typed, TypedPackages, TypedMessages
    <3>2. pc'[Application] = "drain"
      BY <2>2 DEF Typed, TypedPackages
    <3>3. hpc = "poke" => outbound.to = Application
      BY <2>1 DEF Carries
    <3>4. hpc # "post" /\ (hpc \in {"poke", "wake"} => outbound.to \in Packages)
      BY <2>1 DEF Carries
    <3>5. Route(u, Turn[u.msg.id])
      BY <2>3, <2>5 DEF Route
    <3>. QED
      BY <1>2, <2>2, <2>3, <2>4, <2>5, <3>1, <3>2, <3>3, <3>4, <3>5 DEF Carries, hostVars
  <2>7. Level(u)'
    <3>1. \A q \in Workers : Turn[t.msg.id] \notin {First(q), Second(q)}
      BY <2>3 DEF First, Second
    <3>2. \A q \in Workers : pc'[q] = pc[q]
      BY <2>2 DEF Typed, TypedPackages
    <3>. QED
      BY <1>2, <2>1, <2>5, <3>1, <3>2 DEF Level, Levelled, Unpoked, hostVars, control
  <2>8. Fate(u)'
    <3>1. t.msg.id = "TgaLoadResult" <=> Turn[t.msg.id] = 6
      BY <2>1, Turns
    <3>2. t.msg.id = "TgaSaveResult" <=> Turn[t.msg.id] = 12
      BY <2>1, Turns
    <3>. QED
      BY <1>2, <2>1, <2>2, <2>3, <2>5, <3>1, <3>2 DEF Fate, hostVars, control
  <2>. QED
    BY <2>6, <2>7, <2>8 DEF Flows
<1>. QED
  BY <1>3, <1>4

\* A request served: u is its result, on the way back.
Served(t, u, p) ==
    /\ t.place = "hand" /\ t.on = p /\ pc' = [pc EXCEPT ![p] = "top"] /\ hand' = [hand EXCEPT ![p] = NoMsg]
    /\ u.on = p /\ Turn[u.msg.id] = Turn[t.msg.id] + 1 /\ u.msg.data \in Outcome
    /\ u.place = IF Turn[t.msg.id] = 10 THEN "toHost" ELSE "owned"
    /\ written' = IF Turn[t.msg.id] = 10 THEN u.msg.data ELSE written
    /\ \A q \in Packages : /\ toWorker'[q] = <<>>
                           /\ toHost'[q] = Only(u, "toHost", q) /\ owned'[q] = Only(u, "owned", q)
    /\ UNCHANGED <<word, hasControl, control, created, epoch, hostVars, appVars>>

\* With the result of a request the flow goes on.
LEMMA ServedOn ==
    ASSUME IInv, NEW t \in Tokens, Carries(t), Level(t), Fate(t), NEW p \in Workers,
           NEW u \in Tokens, Served(t, u, p)
    PROVE  Flows'
<1>. USE Names DEF IInv, Served
<1>1. hpc \notin StartPlaces \cup EndPlaces /\ hpc # "post"
  BY InLoop DEF Carries
<1>2. \A q \in Workers : First(q) < Second(q) /\ First(q) \in 0 .. 12 /\ Second(q) \in 0 .. 12
  BY DEF First, Second
<1>3. Turn[t.msg.id] \in {First(p), Second(p)}
  BY DEF Carries, Route
<1>4. p # Application /\ p \in Packages
  OBVIOUS
<1>8. Turn[t.msg.id] \in 0 .. 12 /\ Turn[u.msg.id] \in 0 .. 12
  BY Kinds DEF Tokens
<1>5. Carries(u)'
  <2>1. Route(u, Turn[u.msg.id])
    <3>1. CASE p = "bg_file_io"
      <4>1. Turn[t.msg.id] \in {2, 10}
        BY <1>3, <3>1 DEF First, Second
      <4>2. CASE Turn[t.msg.id] = 2
        BY <3>1, <4>2 DEF Route
      <4>3. CASE Turn[t.msg.id] = 10
        BY <3>1, <4>3 DEF Route
      <4>. QED
        BY <4>1, <4>2, <4>3
    <3>2. CASE p = "bg_conditioning"
      <4>1. Turn[t.msg.id] \in {4, 8}
        BY <1>3, <3>2 DEF First, Second
      <4>2. u.place = "owned" /\ Turn[u.msg.id] \in {5, 9}
        BY <4>1
      <4>. QED
        BY <3>2, <4>2 DEF Route
    <3>. QED
      BY <3>1, <3>2 DEF Workers
  <2>2. ASSUME NEW q \in Packages
        PROVE  /\ toWorker'[q] = Only(u, "toWorker", q) /\ hand'[q] = NoMsg /\ pc'[q] # "serve"
    <3>1. q # p => hand[q] = NoMsg /\ pc[q] # "serve"
      BY DEF Carries
    <3>. QED
      BY <3>1 DEF Only, Typed, TypedPackages, TypedMessages
  <2>3. pc'[Application] = pc[Application]
    BY <1>4 DEF Typed, TypedPackages
  <2>4. /\ pc[Application] \notin {"none", "startup", "kick", "fail", "exit", "return", "ended"}
        /\ ~(pc[Application] \in {"drain", "read", "decide"} /\ updated)
    BY DEF Carries
  <2>5. hpc \in {"poke", "wake"} => outbound.to \in Packages
    BY DEF Carries
  <2>6. hpc = "poke" /\ outbound.to \in Workers => Turn[u.msg.id] >= Second(outbound.to)
    <3>1. hpc = "poke" /\ outbound.to \in Workers => Turn[t.msg.id] >= Second(outbound.to)
      BY DEF Carries
    <3>2. \A n \in 0 .. 12 : Turn[t.msg.id] >= n => Turn[u.msg.id] >= n
      BY <1>8, SMTT(30)
    <3>. QED
      BY <1>2, <3>1, <3>2
  <2>. QED
    BY <1>1, <2>1, <2>2, <2>3, <2>4, <2>5, <2>6 DEF Carries, hostVars, appVars
<1>6. Level(u)'
  <2>1. ASSUME NEW q \in Workers, pc'[q] # "none", word[q] # Released
        PROVE  Levelled(u, q)'
    <3>1. Levelled(t, q)
      <4>1. pc[q] # "none"
        BY <2>1 DEF Carries, Typed, TypedPackages
      <4>. QED
        BY <2>1, <4>1 DEF Level
    <3>2. CASE q # p
      <4>1. Turn[t.msg.id] \notin {First(q), Second(q)} /\ Turn[u.msg.id] \notin {First(q), Second(q)}
            /\ (Turn[t.msg.id] < First(q) <=> Turn[u.msg.id] < First(q))
            /\ (Turn[t.msg.id] > First(q) <=> Turn[u.msg.id] > First(q))
            /\ (Turn[t.msg.id] < Second(q) <=> Turn[u.msg.id] < Second(q))
        BY <1>3, <3>2 DEF First, Second, Workers
      <4>2. pc'[q] = pc[q] /\ word'[q] = word[q] /\ epoch'[q] = epoch[q] /\ runState'[q] = runState[q] /\ hpc' = hpc
        BY <3>2 DEF control, hostVars, Typed, TypedPackages
      <4>. QED
        BY <3>1, <4>1, <4>2 DEF Levelled, Unpoked
    <3>3. CASE q = p
      <4>1. Turn[u.msg.id] > First(p) /\ Turn[u.msg.id] # Second(p)
        BY <1>2, <1>3 DEF First, Second, Workers
      <4>2. Turn[u.msg.id] < Second(p) => Turn[t.msg.id] = First(p)
        BY <1>2, <1>3
      <4>. QED
        BY <1>2, <1>8, <3>1, <3>3, <4>1, <4>2, SMTT(30) DEF Levelled
    <3>. QED
      BY <3>2, <3>3
  <2>. QED
    BY <2>1 DEF Level
<1>7. Fate(u)'
  <2>1. Turn[t.msg.id] \in {2, 4, 8, 10}
    BY <1>3 DEF First, Second
  <2>. QED
    BY <2>1 DEF Fate, hostVars, appVars, control
<1>. QED
  BY <1>5, <1>6, <1>7 DEF Flows

\* WorkerServes passes on what it made of the request; the ring has room for it.
LEMMA WorkerServesOn ==
    ASSUME IInv, NEW t \in Tokens, Carries(t), Level(t), Fate(t), NEW p \in Workers, WorkerServes(p)
    PROVE  Flows'
<1>. USE Names DEF IInv
<1>1. Serves(p) /\ p \in Packages /\ pc[p] = "serve"
  BY WorkerServesWays DEF Serves
<1>2. /\ t.place = "hand" /\ t.on = p /\ hand[p] = t.msg /\ t.msg \in Messages
      /\ \A q \in Packages : toWorker[q] = <<>> /\ toHost[q] = <<>> /\ owned[q] = <<>>
  BY <1>1 DEF Carries, Only, Tokens
<1>3. Turn[t.msg.id] \in {First(p), Second(p)}
  BY <1>2 DEF Carries, Route
<1>4. /\ Turn[t.msg.id] \in {2, 4, 8, 10}
      /\ t.msg.id = "FileSaveRequest" <=> Turn[t.msg.id] = 10
      /\ t.msg.id = "FileLoadRequest" <=> Turn[t.msg.id] = 2
      /\ t.msg.id = "TgaDecodeRequest" <=> Turn[t.msg.id] = 4
      /\ t.msg.id = "TgaEncodeRequest" <=> Turn[t.msg.id] = 8
  BY <1>2, <1>3, Turns DEF First, Second
<1>5. PICK data \in Outcome :
          \/ /\ t.msg.id = "FileSaveRequest" /\ written' = data /\ owned' = owned
             /\ toHost' = [toHost EXCEPT ![p] = Append(@, Msg("FileSaveResult", data))]
          \/ /\ t.msg.id # "FileSaveRequest" /\ UNCHANGED <<toHost, written>>
             /\ PassesOwnership(p, Msg(ResultOf[t.msg.id], data))
  BY <1>1, <1>2 DEF Serves, Results, Outcome
<1>6. /\ pc' = [pc EXCEPT ![p] = "top"] /\ hand' = [hand EXCEPT ![p] = NoMsg]
      /\ UNCHANGED <<toWorker, word, hasControl, control, created, epoch, hostVars, appVars>>
  BY <1>1 DEF Serves
<1>7. CASE t.msg.id = "FileSaveRequest"
  <2>1. PICK u \in Tokens : u.place = "toHost" /\ u.on = p /\ u.msg = Msg("FileSaveResult", data)
    <3>1. "toHost" \in Carriers /\ Msg("FileSaveResult", data) \in Messages
      BY Kinds DEF Carriers
    <3>. QED
      BY <1>1, <3>1, TokenExists
  <2>2. Turn[u.msg.id] = 11 /\ u.msg.data = data
    BY <2>1 DEF Msg, Turn
  <2>3. \A q \in Packages : toHost'[q] = Only(u, "toHost", q) /\ owned'[q] = Only(u, "owned", q)
    <3>1. ASSUME NEW q \in Packages
          PROVE  toHost'[q] = IF q = p THEN Append(<<>>, u.msg) ELSE <<>>
      <4>1. toHost' = [toHost EXCEPT ![p] = Append(@, u.msg)]
        BY <1>5, <1>7, <2>1
      <4>. QED
        BY <1>2, <4>1 DEF Typed, TypedMessages
    <3>2. Append(<<>>, u.msg) = <<u.msg>>
      OBVIOUS
    <3>. QED
      BY <1>2, <1>5, <1>7, <2>1, <3>1, <3>2 DEF Only
  <2>4. u.place = IF Turn[t.msg.id] = 10 THEN "toHost" ELSE "owned"
    BY <1>4, <1>7, <2>1
  <2>5. written' = IF Turn[t.msg.id] = 10 THEN u.msg.data ELSE written
    BY <1>4, <1>5, <1>7, <2>2
  <2>6. \A q \in Packages : toWorker'[q] = <<>>
    BY <1>2, <1>6
  <2>7. Turn[u.msg.id] = Turn[t.msg.id] + 1 /\ u.msg.data \in Outcome
    BY <1>4, <1>7, <2>2
  <2>. QED
    <3>1. Served(t, u, p)
      BY <1>2, <1>6, <2>1, <2>3, <2>4, <2>5, <2>6, <2>7 DEF Served
    <3>. QED
      BY <3>1, ServedOn
<1>8. CASE t.msg.id # "FileSaveRequest"
  <2>1. Msg(ResultOf[t.msg.id], data) \in Messages
        /\ Turn[ResultOf[t.msg.id]] = Turn[t.msg.id] + 1
    <3>1. CASE t.msg.id = "FileLoadRequest"
      BY <1>4, <3>1, Kinds DEF ResultOf, Turn
    <3>2. CASE t.msg.id = "TgaDecodeRequest"
      BY <1>4, <3>2, Kinds DEF ResultOf, Turn
    <3>3. CASE t.msg.id = "TgaEncodeRequest"
      BY <1>4, <3>3, Kinds DEF ResultOf, Turn
    <3>. QED
      BY <1>4, <1>8, <3>1, <3>2, <3>3
  <2>2. PICK u \in Tokens : u.place = "owned" /\ u.on = p /\ u.msg = Msg(ResultOf[t.msg.id], data)
    <3>1. "owned" \in Carriers
      BY DEF Carriers
    <3>. QED
      BY <1>1, <2>1, <3>1, TokenExists
  <2>3. Turn[u.msg.id] = Turn[t.msg.id] + 1 /\ u.msg.data = data
    BY <2>1, <2>2 DEF Msg
  <2>4. owned' = [owned EXCEPT ![p] = Append(@, u.msg)]
    <3>1. Len(owned[p]) < KOwnedCapacity
      BY <1>1, <1>2
    <3>. QED
      BY <1>5, <1>8, <2>2, <3>1 DEF PassesOwnership
  <2>5. \A q \in Packages : toHost'[q] = Only(u, "toHost", q) /\ owned'[q] = Only(u, "owned", q)
    <3>1. \A q \in Packages : owned'[q] = IF q = p THEN Append(<<>>, u.msg) ELSE <<>>
      BY <1>2, <2>4 DEF Typed, TypedMessages
    <3>2. Append(<<>>, u.msg) = <<u.msg>>
      OBVIOUS
    <3>3. toHost' = toHost
      BY <1>5, <1>8
    <3>. QED
      BY <1>2, <2>2, <3>1, <3>2, <3>3 DEF Only
  <2>6. u.place = IF Turn[t.msg.id] = 10 THEN "toHost" ELSE "owned"
    BY <1>4, <1>8, <2>2
  <2>7. written' = IF Turn[t.msg.id] = 10 THEN u.msg.data ELSE written
    BY <1>4, <1>5, <1>8
  <2>8. \A q \in Packages : toWorker'[q] = <<>>
    BY <1>2, <1>6
  <2>. QED
    <3>1. Served(t, u, p)
      BY <1>2, <1>6, <2>2, <2>3, <2>5, <2>6, <2>7, <2>8 DEF Served
    <3>. QED
      BY <3>1, ServedOn
<1>. QED
  BY <1>7, <1>8

----------------------------------------------------------------------------
(* How it stays, and all steps *)

\* Every step keeps one message under way, with all that its place says; ten of
\* them move it, and the others leave it where it is.
LEMMA FlowsStep ==
    ASSUME IInv, [Next]_vars
    PROVE  Flows'
<1>. USE DEF vars, packageVars, queues, control, hostVars, appVars, IInv
<1>0. PICK t \in Tokens : Carries(t) /\ Level(t) /\ Fate(t)
  BY DEF IInv, Flows
<1>1. CASE EmplaceFails
  <2>1. Carries(t)'
    BY <1>0, <1>1, Names DEF EmplaceFails, HostGoesTo, Carries, Started, Typed,
      TypedPackages, TypedHost, StartPlaces, EndPlaces, LoopPlaces
  <2>2. Level(t)'
    BY <1>0, <1>1, Names DEF EmplaceFails, HostGoesTo, Level, Levelled, Carries,
      Controlled, Started, Unpoked, Released, Typed, TypedPackages, TypedHost,
      StartPlaces, EndPlaces, LoopPlaces
  <2>3. Fate(t)'
    BY <1>0, <1>1 DEF EmplaceFails, HostGoesTo, Fate
  <2>. QED
    BY <2>1, <2>2, <2>3, Names DEF Flows
<1>2. CASE Emplace
  <2>1. Carries(t)'
    BY <1>0, <1>2, Names DEF Emplace, HostGoesTo, Carries, Started, Typed, TypedPackages,
      TypedHost, StartPlaces, EndPlaces, LoopPlaces
  <2>2. Level(t)'
    BY <1>0, <1>2, Names DEF Emplace, HostGoesTo, Level, Levelled, Carries, Controlled,
      Started, Unpoked, Released, Typed, TypedPackages, TypedHost, StartPlaces,
      EndPlaces, LoopPlaces
  <2>3. Fate(t)'
    BY <1>0, <1>2 DEF Emplace, HostGoesTo, Fate
  <2>. QED
    BY <2>1, <2>2, <2>3, Names DEF Flows
<1>3. CASE StartupFails
  <2>1. Carries(t)'
    BY <1>0, <1>3, Names DEF StartupFails, HostGoesTo, Carries, Started, Typed,
      TypedPackages, TypedHost, StartPlaces, EndPlaces, LoopPlaces
  <2>2. Level(t)'
    BY <1>0, <1>3, Names DEF StartupFails, HostGoesTo, Level, Levelled, Carries,
      Controlled, Started, Unpoked, Released, Typed, TypedPackages, TypedHost,
      StartPlaces, EndPlaces, LoopPlaces
  <2>3. Fate(t)'
    BY <1>0, <1>3 DEF StartupFails, HostGoesTo, Fate
  <2>. QED
    BY <2>1, <2>2, <2>3, Names DEF Flows
<1>4. CASE StartupCreates
  <2>1. Carries(t)'
    BY <1>0, <1>4, Names DEF StartupCreates, HostGoesTo, Creates, Marks, GoesTo, Carries,
      Started, Typed, TypedPackages, TypedHost, StartPlaces, EndPlaces, LoopPlaces
  <2>2. Level(t)'
    BY <1>0, <1>4, Names, SMTT(30) DEF StartupCreates, HostGoesTo, Creates, Marks, GoesTo, Level,
      Levelled, Carries, Controlled, Started, Unpoked, Released, Typed, TypedPackages,
      TypedHost, StartPlaces, EndPlaces, LoopPlaces
  <2>3. Fate(t)'
    BY <1>0, <1>4 DEF StartupCreates, HostGoesTo, Creates, Marks, GoesTo, Fate
  <2>. QED
    BY <2>1, <2>2, <2>3, Names DEF Flows
<1>5. CASE StartupSpins
  <2>1. Carries(t)'
    BY <1>0, <1>5, Names DEF StartupSpins, HostGoesTo, IsStarting, Carries, Started, Typed,
      TypedPackages, TypedHost, StartPlaces, EndPlaces, LoopPlaces
  <2>2. Level(t)'
    BY <1>0, <1>5, Names DEF StartupSpins, HostGoesTo, IsStarting, Level, Levelled,
      Carries, Controlled, Started, Unpoked, Released, Typed, TypedPackages, TypedHost,
      StartPlaces, EndPlaces, LoopPlaces
  <2>3. Fate(t)'
    BY <1>0, <1>5 DEF StartupSpins, HostGoesTo, IsStarting, Fate
  <2>. QED
    BY <2>1, <2>2, <2>3, Names DEF Flows
<1>6. CASE StartupChecks
  <2>1. Carries(t)'
    BY <1>0, <1>6, Names DEF StartupChecks, HostGoesTo, MoreThreads, Carries, Started,
      Typed, TypedPackages, TypedHost, StartPlaces, EndPlaces, LoopPlaces
  <2>2. Level(t)'
    BY <1>0, <1>6, Names DEF StartupChecks, HostGoesTo, MoreThreads, Level, Levelled,
      Carries, Controlled, Started, Unpoked, Released, Typed, TypedPackages, TypedHost,
      StartPlaces, EndPlaces, LoopPlaces
  <2>3. Fate(t)'
    BY <1>0, <1>6 DEF StartupChecks, HostGoesTo, MoreThreads, Fate
  <2>. QED
    BY <2>1, <2>2, <2>3, Names DEF Flows
<1>7. CASE HostQueries
  <2>1. Carries(t)'
    BY <1>0, <1>7, Names DEF HostQueries, Carries, Started, Typed, TypedPackages,
      TypedHost, StartPlaces, EndPlaces, LoopPlaces, StateFollows, AppPlaces
  <2>2. Level(t)'
    BY <1>0, <1>7, Names DEF HostQueries, Level, Levelled, Carries, Controlled, Started,
      Unpoked, Released, Typed, TypedPackages, TypedHost, StartPlaces, EndPlaces,
      LoopPlaces
  <2>3. Fate(t)'
    BY <1>0, <1>7 DEF HostQueries, Fate
  <2>. QED
    BY <2>1, <2>2, <2>3, Names DEF Flows
<1>8. CASE HostReads
  BY <1>0, <1>8, ReadsOn
<1>9. CASE HostTakes
  BY <1>0, <1>9, TakesOn
<1>10. CASE HostPosts
  BY <1>0, <1>10, PostsOn
<1>11. CASE HostPokes
  <2>1. Carries(t)'
    BY <1>0, <1>11, Names DEF HostPokes, HostGoesTo, Pokes, Carries, Started, Typed,
      TypedPackages, TypedHost, StartPlaces, EndPlaces, LoopPlaces
  <2>2. Level(t)'
    <3>1. /\ hpc = "poke" /\ hpc' = "wake" /\ UNCHANGED <<outbound, pc, epoch, runState>>
          /\ word' = [word EXCEPT ![outbound.to] = NextWord(@)]
      BY <1>11, Names DEF HostPokes, HostGoesTo, Pokes
    <3>2. outbound.to \in Packages /\ word[outbound.to] \in 0 .. Released /\ word[outbound.to] # Released
      BY <1>11, <3>1, Addressed DEF HostPokes, Controlled, Typed, TypedPackages
    <3>3. NextWord(word[outbound.to]) # word[outbound.to]
      BY <3>2 DEF NextWord, Released
    <3>4. ASSUME NEW q \in Workers, q # outbound.to
          PROVE  t.place # "toWorker" \/ t.on # q
      BY <1>0, <3>1, <3>4 DEF Carries
    <3>5. word' \in [Packages -> 0 .. Released] /\ word \in [Packages -> 0 .. Released]
      BY <3>1, <3>2 DEF Typed, TypedPackages, NextWord, Released
    <3>6. ASSUME NEW q \in Workers, t.place # "gone", pc[q] # "none", word'[q] # Released
          PROVE  Levelled(t, q)'
      <4>1. q \in Packages /\ word[q] # Released /\ (q # outbound.to => word'[q] = word[q])
        BY <3>1, <3>2, <3>5, <3>6, Names
      <4>2. Levelled(t, q) /\ t.place # "outbound" /\ hpc \notin StartPlaces
        BY <1>0, <3>1, <3>6, <4>1 DEF Level, Carries, StartPlaces
      <4>3. t.place = "toWorker" /\ Turn[t.msg.id] \in {First(q), Second(q)} => t.on = q
        BY <1>0, Names DEF Carries, Route, First, Second, Workers, Application
      <4>4. CASE q # outbound.to
        BY <3>1, <3>4, <4>1, <4>2, <4>3, <4>4 DEF Levelled, Unpoked, StartPlaces
      <4>5. CASE q = outbound.to
        <5>1. t.place = "toWorker" \/ Turn[t.msg.id] >= Second(q)
          BY <1>0, <3>1, <3>6, <4>5 DEF Carries
        <5>2. First(q) < Second(q) /\ Turn[t.msg.id] \in 0 .. 12 /\ Second(q) \in 0 .. 12
          BY Kinds DEF First, Second, Tokens
        <5>3. word'[q] # word[q]
          BY <3>1, <3>2, <3>3, <3>5, <4>5
        <5>4. t.place = "toWorker" => Turn[t.msg.id] \in {First(q), Second(q)}
          BY <1>0, <3>1, <4>5, Names DEF Carries, Route, Workers, Application
        <5>5. CASE t.place = "toWorker" /\ Turn[t.msg.id] = First(q)
          BY <3>1, <4>2, <5>2, <5>3, <5>5 DEF Levelled, Unpoked, StartPlaces
        <5>6. CASE t.place = "toWorker" /\ Turn[t.msg.id] = Second(q)
          BY <3>1, <4>2, <5>2, <5>3, <5>6 DEF Levelled, Unpoked, First, Second
        <5>7. CASE t.place # "toWorker"
          BY <3>1, <4>2, <5>1, <5>2, <5>7 DEF Levelled, Unpoked, First, Second
        <5>. QED
          BY <5>4, <5>5, <5>6, <5>7
      <4>. QED
        BY <4>4, <4>5
    <3>. QED
      BY <3>1, <3>6 DEF Level
  <2>3. Fate(t)'
    BY <1>0, <1>11 DEF HostPokes, HostGoesTo, Pokes, Fate
  <2>. QED
    BY <2>1, <2>2, <2>3, Names DEF Flows
<1>12. CASE HostWakes
  <2>1. Carries(t)'
    BY <1>0, <1>12, Names DEF HostWakes, Wakes, Woken, Carries, Started, Typed,
      TypedPackages, TypedHost, StartPlaces, EndPlaces, LoopPlaces
  <2>2. Level(t)'
    <3>1. /\ hpc = "wake" /\ hpc' \in {"read", "take"} /\ outbound.to \in Packages
          /\ pc' = [pc EXCEPT ![outbound.to] = Woken(@)] /\ UNCHANGED <<word, epoch, runState>>
      BY <1>12, Names, Addressed DEF HostWakes, Wakes, Typed, TypedHost
    <3>2. ASSUME NEW q \in Workers, t.place # "gone", pc'[q] # "none", word[q] # Released
          PROVE  Levelled(t, q)'
      <4>1. pc[q] # "none" /\ q \in Packages
        BY <3>1, <3>2, Names DEF Woken, Typed, TypedPackages
      <4>2. Levelled(t, q)
        BY <1>0, <3>2, <4>1 DEF Level
      <4>3. t.place = "toWorker" => t.on = outbound.to
        BY <1>0, <3>1 DEF Carries
      <4>4. pc'[q] = pc[q] \/ (q = outbound.to /\ pc[q] = "asleep" /\ pc'[q] = "load")
        BY <3>1, <4>1 DEF Woken, Typed, TypedPackages
      <4>5. q = outbound.to => pc'[q] # "asleep"
        BY <3>1, <4>1 DEF Woken, Typed, TypedPackages
      <4>6. t.place = "toWorker" /\ Turn[t.msg.id] \in {First(q), Second(q)} => t.on = q
        BY <1>0, Names DEF Carries, Route, First, Second, Workers, Application
      <4>. QED
        BY <3>1, <4>2, <4>3, <4>4, <4>5, <4>6 DEF Levelled, Unpoked, StartPlaces
    <3>. QED
      BY <3>1, <3>2 DEF Level
  <2>3. Fate(t)'
    BY <1>0, <1>12 DEF HostWakes, Wakes, Woken, Fate
  <2>. QED
    BY <2>1, <2>2, <2>3, Names DEF Flows
<1>13. CASE ShutdownFindsNothing
  <2>1. Carries(t)'
    BY <1>0, <1>13, Names DEF ShutdownFindsNothing, HostGoesTo, Carries, Started, Typed,
      TypedPackages, TypedHost, StartPlaces, EndPlaces, LoopPlaces
  <2>2. Level(t)'
    BY <1>0, <1>13, Names DEF ShutdownFindsNothing, HostGoesTo, Level, Levelled, Carries,
      Controlled, Started, Unpoked, Released, Typed, TypedPackages, TypedHost,
      StartPlaces, EndPlaces, LoopPlaces
  <2>3. Fate(t)'
    BY <1>0, <1>13 DEF ShutdownFindsNothing, HostGoesTo, Fate
  <2>. QED
    BY <2>1, <2>2, <2>3, Names DEF Flows
<1>14. CASE ShutdownSkips
  <2>1. Carries(t)'
    BY <1>0, <1>14, Names DEF ShutdownSkips, NextEntry, FirstEntry, HostGoesTo, Carries,
      Started, Typed, TypedPackages, TypedHost, StartPlaces, EndPlaces, LoopPlaces
  <2>2. Level(t)'
    BY <1>0, <1>14, Names DEF ShutdownSkips, NextEntry, FirstEntry, HostGoesTo, Level,
      Levelled, Carries, Controlled, Started, Unpoked, Released, Typed, TypedPackages,
      TypedHost, StartPlaces, EndPlaces, LoopPlaces
  <2>3. Fate(t)'
    BY <1>0, <1>14 DEF ShutdownSkips, NextEntry, FirstEntry, HostGoesTo, Fate
  <2>. QED
    BY <2>1, <2>2, <2>3, Names DEF Flows
<1>15. CASE ShutdownRequests
  <2>1. Carries(t)'
    BY <1>0, <1>15, Names DEF ShutdownRequests, RequestsExit, HostGoesTo, Carries, Started,
      Typed, TypedPackages, TypedHost, StartPlaces, EndPlaces, LoopPlaces
  <2>2. Level(t)'
    BY <1>0, <1>15, Names, SMTT(30) DEF ShutdownRequests, RequestsExit, HostGoesTo, Level, Levelled,
      Carries, Controlled, Started, Unpoked, Released, Typed, TypedPackages, TypedHost,
      StartPlaces, EndPlaces, LoopPlaces
  <2>3. Fate(t)'
    BY <1>0, <1>15 DEF ShutdownRequests, RequestsExit, HostGoesTo, Fate
  <2>. QED
    BY <2>1, <2>2, <2>3, Names DEF Flows
<1>16. CASE ShutdownReleases
  <2>1. Carries(t)'
    BY <1>0, <1>16, Names DEF ShutdownReleases, ReleasesWord, HostGoesTo, Carries, Started,
      Typed, TypedPackages, TypedHost, StartPlaces, EndPlaces, LoopPlaces
  <2>2. Level(t)'
    BY <1>0, <1>16, Names DEF ShutdownReleases, ReleasesWord, HostGoesTo, Level, Levelled,
      Carries, Controlled, Started, Unpoked, Released, Typed, TypedPackages, TypedHost,
      StartPlaces, EndPlaces, LoopPlaces
  <2>3. Fate(t)'
    BY <1>0, <1>16 DEF ShutdownReleases, ReleasesWord, HostGoesTo, Fate
  <2>. QED
    BY <2>1, <2>2, <2>3, Names DEF Flows
<1>17. CASE ShutdownWakes
  <2>1. Carries(t)'
    BY <1>0, <1>17, Names DEF ShutdownWakes, Wakes, Woken, DropsControl, HostGoesTo,
      Carries, Started, Typed, TypedPackages, TypedHost, StartPlaces, EndPlaces,
      LoopPlaces
  <2>2. Level(t)'
    BY <1>0, <1>17, Names DEF ShutdownWakes, Wakes, Woken, DropsControl, HostGoesTo, Level,
      Levelled, Carries, Controlled, Started, Unpoked, Released, Typed, TypedPackages,
      TypedHost, StartPlaces, EndPlaces, LoopPlaces
  <2>3. Fate(t)'
    BY <1>0, <1>17 DEF ShutdownWakes, Wakes, Woken, DropsControl, HostGoesTo, Fate
  <2>. QED
    BY <2>1, <2>2, <2>3, Names DEF Flows
<1>18. CASE ShutdownAwaits
  <2>1. Carries(t)'
    BY <1>0, <1>18, Names DEF ShutdownAwaits, HostGoesTo, Carries, Started, Typed,
      TypedPackages, TypedHost, StartPlaces, EndPlaces, LoopPlaces
  <2>2. Level(t)'
    BY <1>0, <1>18, Names DEF ShutdownAwaits, HostGoesTo, Level, Levelled, Carries,
      Controlled, Started, Unpoked, Released, Typed, TypedPackages, TypedHost,
      StartPlaces, EndPlaces, LoopPlaces
  <2>3. Fate(t)'
    BY <1>0, <1>18 DEF ShutdownAwaits, HostGoesTo, Fate
  <2>. QED
    BY <2>1, <2>2, <2>3, Names DEF Flows
<1>19. CASE ShutdownJoins
  <2>1. Carries(t)'
    BY <1>0, <1>19, Names DEF ShutdownJoins, Joins, NextEntry, FirstEntry, HostGoesTo,
      Carries, Started, Typed, TypedPackages, TypedHost, StartPlaces, EndPlaces,
      LoopPlaces
  <2>2. Level(t)'
    BY <1>0, <1>19, Names, SMTT(30) DEF ShutdownJoins, Joins, NextEntry, FirstEntry, HostGoesTo,
      Level, Levelled, Carries, Controlled, Started, Unpoked, Released, Typed,
      TypedPackages, TypedHost, StartPlaces, EndPlaces, LoopPlaces
  <2>3. Fate(t)'
    BY <1>0, <1>19 DEF ShutdownJoins, Joins, NextEntry, FirstEntry, HostGoesTo, Fate
  <2>. QED
    BY <2>1, <2>2, <2>3, Names DEF Flows
<1>20. ASSUME NEW p \in Packages, WaitMarks(p), UNCHANGED <<hostVars, hand, appVars, written>>
      PROVE  Flows'
  <2>1. Carries(t)'
    BY <1>0, <1>20, Names DEF WaitMarks, Marks, GoesTo, Carries, Started, Typed,
      TypedPackages, TypedHost, StartPlaces, EndPlaces, LoopPlaces
  <2>2. Level(t)'
    BY <1>0, <1>20, Names, SMTT(30) DEF WaitMarks, Marks, GoesTo, Level, Levelled, Carries,
      Controlled, Started, Unpoked, Released, Typed, TypedPackages, TypedHost,
      StartPlaces, EndPlaces, LoopPlaces
  <2>3. Fate(t)'
    BY <1>0, <1>20 DEF WaitMarks, Marks, GoesTo, Fate
  <2>. QED
    BY <2>1, <2>2, <2>3, Names DEF Flows
<1>21. ASSUME NEW p \in Packages, WaitLoads(p), UNCHANGED <<hostVars, hand, appVars, written>>
      PROVE  Flows'
  <2>1. Carries(t)'
    BY <1>0, <1>21, Names DEF WaitLoads, GoesTo, WordReturned, Carries, Started, Typed,
      TypedPackages, TypedHost, StartPlaces, EndPlaces, LoopPlaces
  <2>2. Level(t)'
    <3>1. Loads(p)
      BY <1>0, <1>21, WaitLoadsWays
    <3>. QED
      BY <1>0, <1>21, <3>1, Names
         DEF Loads, Level, Levelled, Carries, Controlled, Started, Unpoked, Typed,
             TypedPackages
  <2>3. Fate(t)'
    BY <1>0, <1>21 DEF WaitLoads, GoesTo, WordReturned, Fate
  <2>. QED
    BY <2>1, <2>2, <2>3, Names DEF Flows
<1>22. ASSUME NEW p \in Packages, WaitSleeps(p), UNCHANGED <<hostVars, hand, appVars, written>>
      PROVE  Flows'
  <2>1. Carries(t)'
    BY <1>0, <1>22, Names DEF WaitSleeps, GoesTo, Parks, Carries, Started, Typed,
      TypedPackages, TypedHost, StartPlaces, EndPlaces, LoopPlaces
  <2>2. Level(t)'
    BY <1>0, <1>22, Names, SMTT(30) DEF WaitSleeps, GoesTo, Parks, Level, Levelled, Carries,
      Controlled, Started, Unpoked, Released, Typed, TypedPackages, TypedHost,
      StartPlaces, EndPlaces, LoopPlaces
  <2>3. Fate(t)'
    BY <1>0, <1>22 DEF WaitSleeps, GoesTo, Parks, Fate
  <2>. QED
    BY <2>1, <2>2, <2>3, Names DEF Flows
<1>23. ASSUME NEW p \in Packages, WaitResumes(p), UNCHANGED <<hostVars, hand, appVars, written>>
      PROVE  Flows'
  <2>1. Carries(t)'
    BY <1>0, <1>23, Names DEF WaitResumes, Marks, GoesTo, Carries, Started, Typed,
      TypedPackages, TypedHost, StartPlaces, EndPlaces, LoopPlaces
  <2>2. Level(t)'
    BY <1>0, <1>23, Names, SMTT(30) DEF WaitResumes, Marks, GoesTo, Level, Levelled, Carries,
      Controlled, Started, Unpoked, Released, Typed, TypedPackages, TypedHost,
      StartPlaces, EndPlaces, LoopPlaces
  <2>3. Fate(t)'
    BY <1>0, <1>23 DEF WaitResumes, Marks, GoesTo, Fate
  <2>. QED
    BY <2>1, <2>2, <2>3, Names DEF Flows
<1>24. ASSUME NEW p \in Packages, ThreadExits(p), UNCHANGED <<hostVars, hand, appVars, written>>
      PROVE  Flows'
  <2>1. Carries(t)'
    BY <1>0, <1>24, Names DEF ThreadExits, Marks, GoesTo, Carries, Started, Typed,
      TypedPackages, TypedHost, StartPlaces, EndPlaces, LoopPlaces
  <2>2. Level(t)'
    BY <1>0, <1>24, Names, SMTT(30) DEF ThreadExits, Marks, GoesTo, Level, Levelled, Carries,
      Controlled, Started, Unpoked, Released, Typed, TypedPackages, TypedHost,
      StartPlaces, EndPlaces, LoopPlaces
  <2>3. Fate(t)'
    BY <1>0, <1>24 DEF ThreadExits, Marks, GoesTo, Fate
  <2>. QED
    BY <2>1, <2>2, <2>3, Names DEF Flows
<1>25. ASSUME NEW p \in Packages, ThreadEnds(p), UNCHANGED <<hostVars, hand, appVars, written>>
      PROVE  Flows'
  <2>1. Carries(t)'
    BY <1>0, <1>25, Names DEF ThreadEnds, GoesTo, Carries, Started, Typed, TypedPackages,
      TypedHost, StartPlaces, EndPlaces, LoopPlaces
  <2>2. Level(t)'
    BY <1>0, <1>25, Names, SMTT(30) DEF ThreadEnds, GoesTo, Level, Levelled, Carries, Controlled,
      Started, Unpoked, Released, Typed, TypedPackages, TypedHost, StartPlaces,
      EndPlaces, LoopPlaces
  <2>3. Fate(t)'
    BY <1>0, <1>25 DEF ThreadEnds, GoesTo, Fate
  <2>. QED
    BY <2>1, <2>2, <2>3, Names DEF Flows
<1>26. ASSUME NEW p \in Packages, WakesSpuriously(p), UNCHANGED <<hostVars, hand, appVars, written>>
      PROVE  Flows'
  <2>1. Carries(t)'
    BY <1>0, <1>26, Names DEF WakesSpuriously, GoesTo, Carries, Started, Typed,
      TypedPackages, TypedHost, StartPlaces, EndPlaces, LoopPlaces
  <2>2. Level(t)'
    BY <1>0, <1>26, Names, SMTT(30) DEF WakesSpuriously, GoesTo, Level, Levelled, Carries, Controlled,
      Started, Unpoked, Released, Typed, TypedPackages, TypedHost, StartPlaces,
      EndPlaces, LoopPlaces, AppPlaces
  <2>3. Fate(t)'
    BY <1>0, <1>26 DEF WakesSpuriously, GoesTo, Fate
  <2>. QED
    BY <2>1, <2>2, <2>3, Names DEF Flows
<1>27. ASSUME NEW p \in Packages, ThreadStarts(p)
      PROVE  Flows'
  <2>1. Carries(t)'
    BY <1>0, <1>27, Names DEF ThreadStarts, Marks, GoesTo, Carries, Started, Typed,
      TypedPackages, TypedHost, StartPlaces, EndPlaces, LoopPlaces
  <2>2. Level(t)'
    BY <1>0, <1>27, Names, SMTT(30) DEF ThreadStarts, Marks, GoesTo, Level, Levelled, Carries,
      Controlled, Started, Unpoked, Released, Typed, TypedPackages, TypedHost,
      StartPlaces, EndPlaces, LoopPlaces
  <2>3. Fate(t)'
    BY <1>0, <1>27 DEF ThreadStarts, Marks, GoesTo, Fate
  <2>. QED
    BY <2>1, <2>2, <2>3, Names DEF Flows
<1>28. ASSUME NEW p \in Workers, WorkerChecks(p)
      PROVE  Flows'
  <2>1. Carries(t)'
    BY <1>0, <1>28, Names DEF WorkerChecks, GoesTo, Carries, Started, Typed, TypedPackages,
      TypedHost, StartPlaces, EndPlaces, LoopPlaces
  <2>2. Level(t)'
    BY <1>0, <1>28, Names, SMTT(30) DEF WorkerChecks, GoesTo, Level, Levelled, Carries, Controlled,
      Started, Unpoked, Released, Typed, TypedPackages, TypedHost, StartPlaces,
      EndPlaces, LoopPlaces
  <2>3. Fate(t)'
    BY <1>0, <1>28 DEF WorkerChecks, GoesTo, Fate
  <2>. QED
    BY <2>1, <2>2, <2>3, Names DEF Flows
<1>29. ASSUME NEW p \in Workers, WorkerReads(p)
      PROVE  Flows'
  BY <1>0, <1>29, WorkerReadsOn
<1>30. ASSUME NEW p \in Workers, WorkerServes(p)
      PROVE  Flows'
  BY <1>0, <1>30, WorkerServesOn
<1>31. CASE AppKicksOff
  BY <1>0, <1>31, KicksOff
<1>32. CASE AppRuns
  <2>1. Carries(t)'
    BY <1>0, <1>32, Names DEF AppRuns, Marks, GoesTo, Carries, Started, Typed,
      TypedPackages, TypedHost, StartPlaces, EndPlaces, LoopPlaces
  <2>2. Level(t)'
    BY <1>0, <1>32, Names, SMTT(30) DEF AppRuns, Marks, GoesTo, Level, Levelled, Carries, Controlled,
      Started, Unpoked, Released, Typed, TypedPackages, TypedHost, StartPlaces,
      EndPlaces, LoopPlaces
  <2>3. Fate(t)'
    BY <1>0, <1>32 DEF AppRuns, Marks, GoesTo, Fate
  <2>. QED
    BY <2>1, <2>2, <2>3, Names DEF Flows
<1>33. CASE AppChecks
  <2>1. Carries(t)'
    BY <1>0, <1>33, Names DEF AppChecks, GoesTo, Carries, Started, Typed, TypedPackages,
      TypedHost, StartPlaces, EndPlaces, LoopPlaces, Controlled
  <2>2. Level(t)'
    BY <1>0, <1>33, Names, SMTT(30) DEF AppChecks, GoesTo, Level, Levelled, Carries, Controlled,
      Started, Unpoked, Released, Typed, TypedPackages, TypedHost, StartPlaces,
      EndPlaces, LoopPlaces
  <2>3. Fate(t)'
    BY <1>0, <1>33 DEF AppChecks, GoesTo, Fate
  <2>. QED
    BY <2>1, <2>2, <2>3, Names DEF Flows
<1>34. CASE AppDrains
  <2>1. Carries(t)'
    BY <1>0, <1>34, Names DEF AppDrains, GoesTo, Carries, Started, Typed, TypedPackages,
      TypedHost, StartPlaces, EndPlaces, LoopPlaces
  <2>2. Level(t)'
    BY <1>0, <1>34, Names, SMTT(30) DEF AppDrains, GoesTo, Level, Levelled, Carries, Controlled,
      Started, Unpoked, Released, Typed, TypedPackages, TypedHost, StartPlaces,
      EndPlaces, LoopPlaces
  <2>3. Fate(t)'
    BY <1>0, <1>34 DEF AppDrains, GoesTo, Fate
  <2>. QED
    BY <2>1, <2>2, <2>3, Names DEF Flows
<1>35. CASE AppReads
  BY <1>0, <1>35, AppReadsOn
<1>36. CASE AppIdles
  <2>1. Carries(t)'
    BY <1>0, <1>36, Names DEF AppIdles, GoesTo, Carries, Started, Typed, TypedPackages,
      TypedHost, StartPlaces, EndPlaces, LoopPlaces, Fate, Outcome
  <2>2. Level(t)'
    BY <1>0, <1>36, Names, SMTT(30) DEF AppIdles, GoesTo, Level, Levelled, Carries, Controlled,
      Started, Unpoked, Released, Typed, TypedPackages, TypedHost, StartPlaces,
      EndPlaces, LoopPlaces
  <2>3. Fate(t)'
    BY <1>0, <1>36 DEF AppIdles, GoesTo, Fate
  <2>. QED
    BY <2>1, <2>2, <2>3, Names DEF Flows
<1>37. CASE AppSaves
  BY <1>0, <1>37, Saves
<1>38. CASE AppFinishes
  BY <1>0, <1>38, Finishes
<1>39. CASE AppFails
  BY <1>0, <1>39, Fails
<1>40. CASE AppMarksFailed
  <2>1. Carries(t)'
    BY <1>0, <1>40, Names DEF AppMarksFailed, Marks, GoesTo, Carries, Started, Typed,
      TypedPackages, TypedHost, StartPlaces, EndPlaces, LoopPlaces
  <2>2. Level(t)'
    BY <1>0, <1>40, Names DEF AppMarksFailed, Marks, GoesTo, Level, Levelled, Carries,
      Controlled, Started, Unpoked, Released, Typed, TypedPackages, TypedHost,
      StartPlaces, EndPlaces, LoopPlaces
  <2>3. Fate(t)'
    BY <1>0, <1>40 DEF AppMarksFailed, Marks, GoesTo, Fate
  <2>. QED
    BY <2>1, <2>2, <2>3, Names DEF Flows
<1>41. CASE UNCHANGED vars
  <2>1. Carries(t)' /\ Level(t)' /\ Fate(t)'
    BY <1>0, <1>41 DEF Carries, Level, Levelled, Fate, Unpoked
  <2>. QED
    BY <2>1 DEF Flows
<1>. QED
  BY <1>1, <1>2, <1>3, <1>4, <1>5, <1>6, <1>7, <1>8, <1>9, <1>10, <1>11, <1>12, <1>13,
     <1>14, <1>15, <1>16, <1>17, <1>18, <1>19, <1>20, <1>21, <1>22, <1>23, <1>24, <1>25,
     <1>26, <1>27, <1>28, <1>29, <1>30, <1>31, <1>32, <1>33, <1>34, <1>35, <1>36, <1>37,
     <1>38, <1>39, <1>40, <1>41
    DEF Next, HostStarts, HostStep, ThreadStep, OwnStep, PackageStep, Stirs, WorkerStep,
      AppStep

----------------------------------------------------------------------------
(* The invariant *)

\* In the beginning the application holds the message nobody has sent.
LEMMA Beginning ==
    ASSUME Init
    PROVE  IInv
<1>. USE Names, PackageAssumption DEF Init, PackageInit
<1>1. Typed
  <2>1. 0 \in 0 .. Released /\ Released \in 0 .. Released
    BY DEF Released
  <2>2. TypedMessages
    BY Kinds DEF TypedMessages
  <2>3. TypedPackages
    BY <2>1 DEF TypedPackages, States, Places, WorkerPlaces, AppPlaces
  <2>4. TypedHost
    BY DEF TypedHost, HostPlaces
  <2>5. TypedImages
    BY DEF TypedImages
  <2>. QED
    BY <2>2, <2>3, <2>4, <2>5 DEF Typed
<1>2. StateFollows
  BY DEF StateFollows
<1>3. Started
  BY DEF Started, StartPlaces, LoopPlaces, EndPlaces
<1>4. Placed
  BY DEF Placed
<1>5. Controlled
  BY DEF Controlled, Ending, Released, EndPlaces
<1>6. Flows
  <2>1. PICK t \in Tokens : t.place = "app" /\ t.on = Application /\ t.msg = NoMsg
    <3>1. [place |-> "app", on |-> Application, msg |-> NoMsg] \in Tokens
      BY Kinds DEF Tokens, Carriers
    <3>. QED
      BY <3>1
  <2>2. Turn[t.msg.id] = 0
    BY <2>1, Kinds DEF Turn
  <2>3. Carries(t)
    BY <2>1, <2>2 DEF Carries, Only, Route, StartPlaces, EndPlaces
  <2>4. Level(t)
    BY DEF Level
  <2>5. Fate(t)
    BY <2>1, <2>2 DEF Fate
  <2>. QED
    BY <2>3, <2>4, <2>5 DEF Flows
<1>. QED
  BY <1>1, <1>2, <1>3, <1>4, <1>5, <1>6 DEF IInv

\* Every step of Next keeps the invariant.
LEMMA Preserved ==
    ASSUME IInv, [Next]_vars
    PROVE  IInv'
<1>1. Typed'
  BY TypedMessagesStep, TypedPackagesStep, TypedHostStep, TypedImagesStep DEF Typed
<1>. QED
  BY <1>1, StateStep, StartedStep, PlacedStep, ControlledStep, FlowsStep DEF IInv

----------------------------------------------------------------------------
(* The theorems *)

\* IInv holds in every behaviour of host() and its three threads.
THEOREM InvariantHolds == Spec => []IInv
  BY Beginning, Preserved, PTL DEF Spec

\* Every field of host.cpp's packages and locals keeps to its type, and the host
\* and the threads never leave the places named in the code.
THEOREM TypeCorrect == Spec => []TypeOK
<1>1. IInv => TypeOK
  <2>. SUFFICES ASSUME IInv
                PROVE  TypeOK
    OBVIOUS
  <2>1. PackageTypeOK
    BY DEF IInv, Typed, TypedPackages, PackageTypeOK
  <2>2. hpc \in {"post", "poke", "wake"} => outbound.to \in Packages
    BY Addressed
  <2>. QED
    BY <2>1, <2>2 DEF IInv, Typed, TypedHost, TypedImages, TypeOK
<1>. QED
  BY <1>1, InvariantHolds, PTL

\* startup() takes the state apart in two loads; a thread that is_starting() lets
\* through is still ready when is_ready() looks, so none is given up unready.
THEOREM AlwaysStartedIsReady == Spec => []StartedIsReady
<1>1. IInv => StartedIsReady
  BY DEF IInv, Started, StartedIsReady
<1>. QED
  BY <1>1, InvariantHolds, PTL

\* When host() returns every thread has ended or was never begun, and every
\* wait predicate is as ~CWaitPredicate() asserts.
THEOREM AlwaysNobodyLeftBehind == Spec => []NobodyLeftBehind
<1>1. IInv => NobodyLeftBehind
  BY DEF IInv, Controlled, NobodyLeftBehind
<1>. QED
  BY <1>1, InvariantHolds, PTL

\* No worker stays parked over a message or a request to exit, for any width of the
\* word: post() and shutdown() store, change the word and wake, in this order.
THEOREM AlwaysNothingSleptThrough == Spec => []NothingSleptThrough
<1>1. IInv => NothingSleptThrough
  <2>. SUFFICES ASSUME IInv, NEW p \in Workers, pc[p] = "asleep", toWorker[p] # <<>> \/ exitRequest[p]
                PROVE  WakeDue(p)
    BY DEF NothingSleptThrough
  <2>1. p \in Packages
    BY Names
  <2>2. CASE exitRequest[p] \/ word[p] = Released
    BY <2>1, <2>2 DEF IInv, Controlled, WakeDue
  <2>3. CASE toWorker[p] # <<>> /\ word[p] # Released
    <3>1. PICK t \in Tokens : Carries(t) /\ Level(t)
      BY DEF IInv, Flows
    <3>2. t.place = "toWorker" /\ t.on = p
      BY <2>1, <2>3, <3>1, Taken
    <3>3. Levelled(t, p) /\ Turn[t.msg.id] \in {First(p), Second(p)}
      <4>1. p # Application
        BY Names
      <4>. QED
        BY <2>3, <3>1, <3>2, <4>1 DEF Level, Carries, Route
    <3>4. hpc \in {"poke", "wake"}
      BY <3>2, <3>3 DEF Levelled, Unpoked
    <3>. QED
      BY <3>1, <3>2, <3>4 DEF Carries, WakeDue
  <2>. QED
    BY <2>2, <2>3
<1>. QED
  BY <1>1, InvariantHolds, PTL

\* When the application's thread has ended, its state, its failure code and its tga
\* state say what became of the image.
THEOREM AlwaysVerdictIsTrue == Spec => []VerdictIsTrue
<1>1. IInv => VerdictIsTrue
  <2>. SUFFICES ASSUME IInv, pc[Application] = "ended"
                PROVE  VerdictIsTrue
    BY DEF VerdictIsTrue
  <2>1. PICK t \in Tokens : Carries(t) /\ Fate(t)
    BY DEF IInv, Flows
  <2>2. t.place = "gone"
    BY <2>1 DEF Carries
  <2>3. runState[Application] = "Exited"
    BY Names DEF IInv, StateFollows
  <2>. QED
    BY <2>1, <2>2, <2>3 DEF Fate, VerdictIsTrue
<1>. QED
  BY <1>1, InvariantHolds, PTL

\* What the host reads next it keeps in a variable nobody has been lent.
LEMMA ReadsKeepTheLent ==
    ASSUME IInv, NEW t \in Tokens, Carries(t), Fate(t), t.place \in {"toHost", "owned"},
           view' = Kept(t.msg), NEW v \in Variables, view'[v] # view[v]
    PROVE  ~Lent(v)
<1>. USE Names DEF IInv
<1>1. \A p \in Packages : toWorker[p] = <<>> /\ hand[p] = NoMsg
  BY DEF Carries, Only
<1>2. PointsAt(NoMsg.id) # v
  BY Kinds DEF PointsAt, Variables
<1>3. v = "load.rect_view" => loaded = "none"
  <2>1. t.msg \in Messages
    BY DEF Tokens
  <2>2. v = "load.rect_view" => Turn[t.msg.id] = 5
    BY <2>1, ViewsKept
  <2>. QED
    BY <2>2 DEF Fate
<1>. QED
  BY <1>1, <1>2, <1>3 DEF Lent

\* The host never writes to async_tga_load or async_tga_save while a thread may be
\* reading through a pointer it was sent.
THEOREM AlwaysLentIsKept == Spec => LentIsKept
<1>1. ASSUME IInv, [Next]_vars, NEW v \in Variables, view'[v] # view[v]
      PROVE  ~Lent(v)
  <2>. USE DEF IInv
  <2>1. PICK t \in Tokens : Carries(t) /\ Fate(t)
    BY <1>1 DEF Flows
  <2>2. CASE HostReads
    <3>1. HostGets
      BY <1>1, <2>2, HostReadsWays
    <3>2. toHost[Thread[at]] # <<>> /\ Reads(Head(toHost[Thread[at]])) /\ Thread[at] \in Packages
      BY <1>1, <3>1 DEF HostGets
    <3>3. t.place = "toHost" /\ view' = Kept(t.msg)
      BY <1>1, <2>1, <3>2, Taken DEF Reads
    <3>. QED
      BY <1>1, <2>1, <3>3, ReadsKeepTheLent
  <2>3. CASE HostTakes
    <3>1. HostOwns
      BY <1>1, <2>3, HostTakesWays
    <3>2. owned[Thread[at]] # <<>> /\ Reads(Head(owned[Thread[at]])) /\ Thread[at] \in Packages
      BY <1>1, <3>1 DEF HostOwns
    <3>3. t.place = "owned" /\ view' = Kept(t.msg)
      BY <1>1, <2>1, <3>2, Taken DEF Reads
    <3>. QED
      BY <1>1, <2>1, <3>3, ReadsKeepTheLent
  <2>4. CASE EmplaceFails
    BY <1>1, <2>4 DEF EmplaceFails, HostGoesTo, hostVars
  <2>5. CASE Emplace
    BY <1>1, <2>5 DEF Emplace, HostGoesTo, hostVars
  <2>6. CASE StartupFails
    BY <1>1, <2>6 DEF StartupFails, HostGoesTo, hostVars
  <2>7. CASE StartupCreates
    BY <1>1, <2>7 DEF StartupCreates, HostGoesTo, hostVars
  <2>8. CASE StartupSpins
    BY <1>1, <2>8 DEF StartupSpins, HostGoesTo, hostVars
  <2>9. CASE StartupChecks
    BY <1>1, <2>9 DEF StartupChecks, HostGoesTo, hostVars
  <2>10. CASE HostQueries
    BY <1>1, <2>10 DEF HostQueries, hostVars
  <2>11. CASE HostPosts
    BY <1>1, <2>11 DEF HostPosts, HostGoesTo, hostVars
  <2>12. CASE HostPokes
    BY <1>1, <2>12 DEF HostPokes, HostGoesTo, hostVars
  <2>13. CASE HostWakes
    BY <1>1, <2>13 DEF HostWakes, hostVars
  <2>14. CASE ShutdownFindsNothing
    BY <1>1, <2>14 DEF ShutdownFindsNothing, HostGoesTo, hostVars
  <2>15. CASE ShutdownSkips
    BY <1>1, <2>15 DEF ShutdownSkips, NextEntry, HostGoesTo, hostVars
  <2>16. CASE ShutdownRequests
    BY <1>1, <2>16 DEF ShutdownRequests, HostGoesTo, hostVars
  <2>17. CASE ShutdownReleases
    BY <1>1, <2>17 DEF ShutdownReleases, HostGoesTo, hostVars
  <2>18. CASE ShutdownWakes
    BY <1>1, <2>18 DEF ShutdownWakes, HostGoesTo, hostVars
  <2>19. CASE ShutdownAwaits
    BY <1>1, <2>19 DEF ShutdownAwaits, HostGoesTo, hostVars
  <2>20. CASE ShutdownJoins
    BY <1>1, <2>20 DEF ShutdownJoins, NextEntry, HostGoesTo, hostVars
  <2>21. CASE \E p \in Packages : ThreadStep(p) \/ Stirs(p)
    BY <1>1, <2>21
       DEF ThreadStep, Stirs, OwnStep, ThreadStarts, WorkerStep, WorkerChecks, WorkerReads,
           WorkerServes, AppStep, AppKicksOff, AppRuns, AppChecks, AppDrains, AppReads,
           AppIdles, AppSaves, AppFinishes, AppFails, AppMarksFailed, hostVars
  <2>22. CASE UNCHANGED vars
    BY <1>1, <2>22 DEF vars, hostVars
  <2>. QED
    BY <1>1, <2>2, <2>3, <2>4, <2>5, <2>6, <2>7, <2>8, <2>9, <2>10, <2>11,
      <2>12, <2>13, <2>14, <2>15, <2>16, <2>17, <2>18, <2>19, <2>20, <2>21, <2>22
    DEF Next, HostStarts, HostStep
<1>2. IInv /\ [Next]_vars => [\A v \in Variables : view'[v] # view[v] => ~Lent(v)]_vars
  BY <1>1
<1>. QED
  BY <1>2, InvariantHolds, PTL DEF Spec, LentIsKept
=============================================================================
