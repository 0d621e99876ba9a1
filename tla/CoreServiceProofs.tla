-------------------------- MODULE CoreServiceProofs --------------------------
(***************************************************************************)
(* Proofs about CoreService for every set of calls, names, models,         *)
(* directories and keys, and every size of the pool and of the pipe.       *)
(***************************************************************************)
EXTENDS CoreService, FiniteSetTheorems, SequenceTheorems, TLAPS

\* Where the handler of each RPC can be, and in which yields a generator waits.
Placed ==
    /\ \A c \in ProcessCalls : pc[c] \notin {"posting", "responding"}
    /\ \A c \in LocateCalls : pc[c] \notin ProcessPoints
    /\ \A c \in suspended :
         c \in ProcessCalls /\ pc[c] \in {"preparing", "reading", "counting", "leaving"}

\* The queue holds the calls that wait for a thread, each of them once.
Queued ==
    /\ \A i \in DOMAIN queue : pc[queue[i]] = "queued"
    /\ \A i, j \in DOMAIN queue : queue[i] = queue[j] => i = j

\* From the download on a job has a directory with a model in it, and with a
\* report in hand when it uploads.
Stored ==
    \A c \in ProcessCalls :
        /\ pc[c] \in {"idle", "queued", "entering", "greeting", "preparing"} => child[c] = "none"
        /\ pc[c] = "fetching" => model_dir[c] \in Dirs
        /\ child[c] # "none" \/ pc[c] \in {"spawning", "reading", "relaying", "uploading"} =>
              model_dir[c] \in Dirs /\ files[Path(c)] \in Models
        /\ pc[c] = "uploading" => telemetry_json[c] \in Reports

\* A handler that is about to send its last message has one.
Ready ==
    /\ \A c \in ProcessCalls : pc[c] = "answering" => reply[c] \in Answers
    /\ \A c \in LocateCalls : pc[c] \in {"leaving", "responding"} => reply[c] \in Answers

ControlInv == TypeOK /\ Placed /\ Queued /\ Stored /\ Ready

LEMMA InitControl == Init => ControlInv
  BY NoneAssumption DEF Init, ControlInv, TypeOK, Placed, Queued, Stored, Ready, Calls, Points, Paths,
     ThreadPoints, HandlerPoints, ProcessPoints

\* The messages a handler sends are messages of the stream.
LEMMA MessageTypes ==
    /\ Answers \subseteq Messages /\ Plain("info") \in Messages
    /\ Plain("error") \in Answers /\ Plain("boxes") \in Answers /\ Plain("internal") \in Answers
    /\ \A m \in Models : \A k \in ObjectKeys \cup {None} : Result(m, k) \in Answers
  BY DEF Answers, Messages

\* Sending a message keeps every stream a sequence of messages.
LEMMA YieldType ==
    ASSUME TypeOK, NEW c \in Calls, NEW m \in Messages, NEW next \in Points, Yield(c, m, next)
    PROVE  /\ stream' \in [Calls -> Seq(Messages)] /\ suspended' \subseteq Calls
           /\ pc' \in [Calls -> Points]
<1>1. stream \in [Calls -> Seq(Messages)] /\ Append(stream[c], m) \in Seq(Messages)
  BY AppendProperties DEF TypeOK
<1>2. pc \in [Calls -> Points] /\ suspended \subseteq Calls /\ "leaving" \in Points
  BY DEF TypeOK, Points, ThreadPoints, HandlerPoints
<1>3. QED
  BY <1>1, <1>2 DEF Yield

\* A handler that prepared its last message goes on to send it.
LEMMA AnswerType ==
    ASSUME TypeOK, NEW c \in Calls, NEW m \in Answers, Answer(c, m)
    PROVE  reply' \in [Calls -> Answers \cup {None}] /\ pc' \in [Calls -> Points]
<1>1. "answering" \in Points
  BY DEF Points, ThreadPoints, HandlerPoints, ProcessPoints
<1>2. QED
  BY <1>1 DEF TypeOK, Answer, Goto

\* A line the child prints keeps its pipe a sequence of lines.
LEMMA PrintType ==
    ASSUME TypeOK, NEW c \in ProcessCalls, NEW line \in Reports \cup {Log},
           NEW next \in {"running", "reported"}, PrintLine(c, line, next)
    PROVE  /\ pipe' \in [ProcessCalls -> Seq(Reports \cup {Log})]
           /\ child' \in [ProcessCalls -> {"none", "running", "reported", "clean", "failed"}]
<1>1. /\ pipe \in [ProcessCalls -> Seq(Reports \cup {Log})]
      /\ Append(pipe[c], line) \in Seq(Reports \cup {Log})
  BY AppendProperties DEF TypeOK
<1>2. child \in [ProcessCalls -> {"none", "running", "reported", "clean", "failed"}]
  BY DEF TypeOK
<1>3. QED
  BY <1>1, <1>2 DEF PrintLine

LEMMA TypeStep == ControlInv /\ [Next]_vars => TypeOK'
<1> SUFFICES ASSUME TypeOK, Placed, Stored, Ready, [Next]_vars PROVE TypeOK'
  BY DEF ControlInv
<1> USE DEF At, Goto, callVars, gaugeVars, handlerVars, childVars, storeVars
<1>0. /\ ProcessCalls \subseteq Calls /\ LocateCalls \subseteq Calls
      /\ Points = {"idle", "queued", "entering", "greeting", "preparing", "fetching",
                   "spawning", "reading", "relaying", "uploading", "answering", "counting",
                   "posting", "leaving", "responding", "done"}
  BY DEF Calls, Points, ThreadPoints, HandlerPoints, ProcessPoints
<1>1. ASSUME NEW c \in Calls, Call(c) PROVE TypeOK'
  BY <1>0, <1>1, AppendProperties DEF TypeOK, Call
<1>2. ASSUME NEW c \in Calls, Abandon(c) PROVE TypeOK'
  BY <1>2 DEF TypeOK, Abandon
<1>3. ASSUME NEW c \in Calls, Dequeue(c) PROVE TypeOK'
  BY <1>0, <1>3, HeadTailProperties DEF TypeOK, Dequeue
<1>4. ASSUME NEW c \in Calls, Enter(c) PROVE TypeOK'
  BY <1>0, <1>4 DEF TypeOK, Enter
<1>5. ASSUME NEW c \in Calls, Leave(c) PROVE TypeOK'
  BY <1>0, <1>5 DEF TypeOK, Leave
<1>6. ASSUME NEW c \in Calls, Resume(c) PROVE TypeOK'
  BY <1>0, <1>6 DEF TypeOK, Resume
<1>7. ASSUME NEW c \in ProcessCalls, Greet(c) PROVE TypeOK'
  BY <1>0, <1>7, YieldType, MessageTypes DEF TypeOK, Greet
<1>8. ASSUME NEW c \in ProcessCalls, Relay(c) PROVE TypeOK'
  BY <1>0, <1>8, YieldType, MessageTypes DEF TypeOK, Relay
<1>9. ASSUME NEW c \in ProcessCalls, Prepare(c) PROVE TypeOK'
  <2>1. reply' \in [Calls -> Answers \cup {None}] /\ pc' \in [Calls -> Points]
    BY <1>0, <1>9, AnswerType, MessageTypes DEF TypeOK, Prepare
  <2>2. model_dir' \in [ProcessCalls -> Dirs \cup {None}]
    BY <1>9 DEF TypeOK, Prepare
  <2>3. QED
    BY <1>9, <2>1, <2>2 DEF TypeOK, Prepare
<1>10. ASSUME NEW c \in ProcessCalls, Fetch(c) PROVE TypeOK'
  <2>1. reply' \in [Calls -> Answers \cup {None}] /\ pc' \in [Calls -> Points]
    BY <1>0, <1>10, AnswerType, MessageTypes DEF TypeOK, Fetch
  <2>2. files' \in [Paths -> Models \cup {None}]
    BY <1>10 DEF TypeOK, Fetch
  <2>3. QED
    BY <1>10, <2>1, <2>2 DEF TypeOK, Fetch
<1>11. ASSUME NEW c \in ProcessCalls, Spawn(c) PROVE TypeOK'
  <2>1. reply' \in [Calls -> Answers \cup {None}] /\ pc' \in [Calls -> Points]
    BY <1>0, <1>11, AnswerType, MessageTypes DEF TypeOK, Spawn
  <2>2. todo' \in [ProcessCalls -> Nat]
    <3>1. 0..MaxLines \subseteq Nat
      BY BoundsAssumption
    <3>2. QED
      BY <1>11, <3>1 DEF TypeOK, Spawn
  <2>3. child' \in [ProcessCalls -> {"none", "running", "reported", "clean", "failed"}]
    BY <1>11 DEF TypeOK, Spawn
  <2>4. QED
    BY <1>11, <2>1, <2>2, <2>3 DEF TypeOK, Spawn
<1>12. ASSUME NEW c \in ProcessCalls, ReadLine(c) PROVE TypeOK'
  <2>1. reply' \in [Calls -> Answers \cup {None}] /\ pc' \in [Calls -> Points]
    BY <1>0, <1>12, AnswerType, MessageTypes DEF TypeOK, ReadLine
  <2>2. Head(pipe[c]) \in Reports \cup {Log} /\ Tail(pipe[c]) \in Seq(Reports \cup {Log})
    BY <1>12, HeadTailProperties DEF TypeOK, ReadLine
  <2>3. Log.kind = "log"
    BY DEF Log
  <2>4. telemetry_json' \in [ProcessCalls -> Reports \cup {None}]
    BY <1>12, <2>2, <2>3 DEF TypeOK, ReadLine
  <2>5. pipe' \in [ProcessCalls -> Seq(Reports \cup {Log})]
    BY <1>12, <2>2 DEF TypeOK, ReadLine
  <2>6. QED
    BY <1>12, <2>1, <2>4, <2>5 DEF TypeOK, ReadLine
<1>13. ASSUME NEW c \in ProcessCalls, Reap(c) PROVE TypeOK'
  BY <1>0, <1>13, AnswerType, MessageTypes DEF TypeOK, Reap
<1>14. ASSUME NEW c \in ProcessCalls, Upload(c) PROVE TypeOK'
  <2>1. telemetry_json[c] \in Reports
    BY <1>14 DEF Upload, Stored
  <2>2. telemetry_json[c].model \in Models
    BY <2>1 DEF Reports, Report
  <2>3. reply' \in [Calls -> Answers \cup {None}] /\ pc' \in [Calls -> Points]
    BY <1>0, <1>14, <2>2, AnswerType, MessageTypes DEF Upload
  <2>4. bucket' \in [ObjectKeys -> Models \cup {None}]
    <3>1. proxies[Path(c)] \in Models \/ bucket' = bucket
      BY <1>14, <2>1 DEF TypeOK, Upload, Stored, Path, Paths
    <3>2. QED
      BY <1>14, <3>1 DEF TypeOK, Upload
  <2>5. QED
    BY <1>14, <2>3, <2>4 DEF TypeOK, Upload
<1>15. ASSUME NEW c \in ProcessCalls, SendAnswer(c) PROVE TypeOK'
  BY <1>0, <1>15, YieldType, MessageTypes DEF TypeOK, SendAnswer, Ready
<1>16. ASSUME NEW c \in ProcessCalls, Count(c) PROVE TypeOK'
  BY <1>0, <1>16 DEF TypeOK, Count
<1>17. ASSUME NEW c \in LocateCalls, Post(c) PROVE TypeOK'
  BY <1>0, <1>17, MessageTypes DEF TypeOK, Post
<1>18. ASSUME NEW c \in LocateCalls, Respond(c) PROVE TypeOK'
  BY <1>0, <1>18, MessageTypes, AppendProperties DEF TypeOK, Respond, Ready
<1>19. ASSUME NEW c \in ProcessCalls, ChildPrint(c) PROVE TypeOK'
  BY <1>19, PrintType DEF TypeOK, ChildPrint
<1>20. ASSUME NEW c \in ProcessCalls, ChildReport(c) PROVE TypeOK'
  <2>1. model_dir[c] \in Dirs /\ files[Path(c)] \in Models /\ Path(c) \in Paths
    BY <1>20 DEF TypeOK, ChildReport, Stored, Path, Paths
  <2>2. \A made \in BOOLEAN : Report(files[Path(c)], made) \in Reports
    BY <2>1 DEF Reports
  <2>3. QED
    BY <1>20, <2>1, <2>2, PrintType DEF TypeOK, ChildReport
<1>21. ASSUME NEW c \in ProcessCalls, ChildExit(c) \/ ChildDie(c) PROVE TypeOK'
  BY <1>21 DEF TypeOK, ChildExit, ChildDie
<1>22. CASE Restart
  BY <1>0, <1>22, EmptySeq DEF TypeOK, Restart
<1>23. CASE UNCHANGED vars
  BY <1>23 DEF TypeOK, vars
<1>24. QED
  BY <1>1, <1>2, <1>3, <1>4, <1>5, <1>6, <1>7, <1>8, <1>9, <1>10, <1>11, <1>12, <1>13, <1>14,
     <1>15, <1>16, <1>17, <1>18, <1>19, <1>20, <1>21, <1>22, <1>23
     DEF Next, ClientStep, Handler, ChildStep

\* The control points of each RPC, and of a suspended generator.
LEMMA PlacedStep == ControlInv /\ [Next]_vars => Placed'
<1> SUFFICES ASSUME TypeOK, Placed, Queued, [Next]_vars PROVE Placed'
  BY DEF ControlInv
<1> USE DEF TypeOK, Placed, At, Goto, Answer, callVars, ProcessPoints
<1>0. /\ ProcessCalls \subseteq Calls /\ LocateCalls \subseteq Calls
      /\ ProcessCalls \cap LocateCalls = {} /\ Calls = ProcessCalls \cup LocateCalls
  BY CallsAssumption DEF Calls
<1>1. ASSUME NEW c \in Calls, Call(c) PROVE Placed'
  BY <1>0, <1>1 DEF Call
<1>2. ASSUME NEW c \in Calls, Abandon(c) PROVE Placed'
  BY <1>2 DEF Abandon
<1>3. ASSUME NEW c \in Calls, Dequeue(c) PROVE Placed'
  BY <1>0, <1>3 DEF Dequeue, Queued
<1>4. ASSUME NEW c \in Calls, Enter(c) PROVE Placed'
  BY <1>0, <1>4 DEF Enter
<1>5. ASSUME NEW c \in Calls, Leave(c) PROVE Placed'
  BY <1>0, <1>5 DEF Leave
<1>6. ASSUME NEW c \in Calls, Resume(c) PROVE Placed'
  BY <1>0, <1>6 DEF Resume
<1>7. ASSUME NEW c \in ProcessCalls, Greet(c) \/ Relay(c) \/ SendAnswer(c) PROVE Placed'
  BY <1>0, <1>7 DEF Greet, Relay, SendAnswer, Yield
<1>8. ASSUME NEW c \in ProcessCalls, Prepare(c) \/ Fetch(c) \/ Spawn(c) PROVE Placed'
  BY <1>0, <1>8 DEF Prepare, Fetch, Spawn
<1>9. ASSUME NEW c \in ProcessCalls, ReadLine(c) \/ Reap(c) \/ Upload(c) \/ Count(c) PROVE Placed'
  BY <1>0, <1>9 DEF ReadLine, Reap, Upload, Count
<1>10. ASSUME NEW c \in LocateCalls, Post(c) \/ Respond(c) PROVE Placed'
  BY <1>0, <1>10 DEF Post, Respond
<1>11. ASSUME NEW c \in ProcessCalls, ChildStep(c) \/ ChildDie(c) PROVE Placed'
  BY <1>11 DEF ChildStep, ChildPrint, ChildReport, ChildExit, ChildDie
<1>12. CASE Restart
  BY <1>0, <1>12 DEF Restart
<1>13. CASE UNCHANGED vars
  BY <1>13 DEF vars
<1>14. QED
  BY <1>1, <1>2, <1>3, <1>4, <1>5, <1>6, <1>7, <1>8, <1>9, <1>10, <1>11, <1>12, <1>13
     DEF Next, ClientStep, Handler

\* A step of call c leaves the control points of the other calls alone.
OnlyMoves(c) == \A other \in Calls \ {c} : pc'[other] = pc[other]

\* Once a call has left the queue, its steps do not disturb the queue.
LEMMA QueueFrame ==
    ASSUME TypeOK, Queued, NEW c \in Calls, pc[c] # "queued", OnlyMoves(c), queue' = queue
    PROVE  Queued'
<1>1. queue \in [1..Len(queue) -> Calls] /\ DOMAIN queue = 1..Len(queue)
  BY LenProperties DEF TypeOK
<1>2. \A i \in DOMAIN queue : queue[i] \in Calls /\ queue[i] # c
  BY <1>1 DEF Queued
<1>3. QED
  BY <1>2 DEF Queued, OnlyMoves

\* Only Call and Dequeue touch the queue, and no other step moves a queued call.
LEMMA QueuedStep == ControlInv /\ [Next]_vars => Queued'
<1> SUFFICES ASSUME TypeOK, Placed, Queued, [Next]_vars PROVE Queued'
  BY DEF ControlInv
<1> USE DEF TypeOK, Queued, At, Goto, Answer, callVars
<1>0. /\ ProcessCalls \subseteq Calls /\ LocateCalls \subseteq Calls
      /\ queue \in [1..Len(queue) -> Calls] /\ Len(queue) \in Nat
  BY LenProperties DEF Calls
<1>1. ASSUME NEW c \in Calls, Call(c) PROVE Queued'
  <2>1. /\ queue' \in Seq(Calls) /\ Len(queue') = Len(queue) + 1
        /\ \A i \in 1..Len(queue) : queue'[i] = queue[i]
        /\ queue'[Len(queue) + 1] = c
    BY <1>1, AppendProperties DEF Call
  <2>2. DOMAIN queue' = 1..(Len(queue) + 1)
    BY <2>1, LenProperties
  <2>3. \A i \in 1..Len(queue) : queue[i] # c /\ queue[i] \in Calls
    BY <1>0, <1>1 DEF Call
  <2>4. QED
    BY <1>0, <1>1, <2>1, <2>2, <2>3 DEF Call
<1>2. ASSUME NEW c \in Calls, Abandon(c) PROVE Queued'
  BY <1>2 DEF Abandon
<1>3. ASSUME NEW c \in Calls, Dequeue(c) PROVE Queued'
  <2>1. /\ queue' \in Seq(Calls) /\ Len(queue') = Len(queue) - 1 /\ Len(queue) > 0
        /\ \A i \in 1..Len(queue') : queue'[i] = queue[i + 1]
        /\ c = queue[1]
    BY <1>0, <1>3, HeadTailProperties, EmptySeq DEF Dequeue
  <2>2. DOMAIN queue' = 1..(Len(queue) - 1) /\ DOMAIN queue = 1..Len(queue)
    BY <2>1, LenProperties
  <2>3. \A i \in DOMAIN queue' : i + 1 \in DOMAIN queue /\ queue'[i] = queue[i + 1] /\ i + 1 # 1
    <3>1. \A i \in 1..(Len(queue) - 1) : i + 1 \in 1..Len(queue) /\ i + 1 # 1
      BY <1>0
    <3>2. QED
      BY <2>1, <2>2, <3>1
  <2>4. \A i \in DOMAIN queue' : queue'[i] # c /\ queue'[i] \in Calls
    <3>1. 1 \in DOMAIN queue
      BY <1>0, <2>1, <2>2
    <3>2. \A i \in DOMAIN queue : queue[i] \in Calls /\ (i # 1 => queue[i] # queue[1])
      BY <1>0, <2>2, <3>1
    <3>3. QED
      BY <2>1, <2>3, <3>2
  <2>5. \A i \in DOMAIN queue' : pc'[queue'[i]] = "queued"
    BY <1>3, <2>3, <2>4 DEF Dequeue
  <2>6. \A i, j \in DOMAIN queue' : queue'[i] = queue'[j] => i = j
    BY <1>0, <2>2, <2>3
  <2>7. QED
    BY <2>5, <2>6
<1>4. ASSUME NEW c \in Calls, Enter(c) \/ Leave(c) \/ Resume(c) PROVE Queued'
  <2>1. pc[c] # "queued" /\ OnlyMoves(c) /\ queue' = queue
    BY <1>4 DEF Enter, Leave, Resume, Placed, OnlyMoves
  <2>2. QED
    BY <2>1, QueueFrame
<1>5. ASSUME NEW c \in ProcessCalls, Greet(c) \/ Relay(c) \/ SendAnswer(c) PROVE Queued'
  <2>1. pc[c] # "queued" /\ OnlyMoves(c) /\ queue' = queue
    BY <1>5 DEF Greet, Relay, SendAnswer, Yield, OnlyMoves
  <2>2. QED
    BY <1>0, <2>1, QueueFrame
<1>6. ASSUME NEW c \in ProcessCalls, Prepare(c) \/ Fetch(c) \/ Spawn(c) PROVE Queued'
  <2>1. pc[c] # "queued" /\ OnlyMoves(c) /\ queue' = queue
    BY <1>6 DEF Prepare, Fetch, Spawn, OnlyMoves
  <2>2. QED
    BY <1>0, <2>1, QueueFrame
<1>7. ASSUME NEW c \in ProcessCalls, ReadLine(c) \/ Reap(c) \/ Upload(c) \/ Count(c) PROVE Queued'
  <2>1. pc[c] # "queued" /\ OnlyMoves(c) /\ queue' = queue
    BY <1>7 DEF ReadLine, Reap, Upload, Count, OnlyMoves
  <2>2. QED
    BY <1>0, <2>1, QueueFrame
<1>8. ASSUME NEW c \in LocateCalls, Post(c) \/ Respond(c) PROVE Queued'
  <2>1. pc[c] # "queued" /\ OnlyMoves(c) /\ queue' = queue
    BY <1>8 DEF Post, Respond, OnlyMoves
  <2>2. QED
    BY <1>0, <2>1, QueueFrame
<1>9. ASSUME NEW c \in ProcessCalls, ChildStep(c) \/ ChildDie(c) PROVE Queued'
  BY <1>9 DEF ChildStep, ChildPrint, ChildReport, ChildExit, ChildDie
<1>10. CASE Restart
  BY <1>10 DEF Restart
<1>11. CASE UNCHANGED vars
  BY <1>11 DEF vars
<1>12. QED
  BY <1>1, <1>2, <1>3, <1>4, <1>5, <1>6, <1>7, <1>8, <1>9, <1>10, <1>11
     DEF Next, ClientStep, Handler

\* What a job holds from its download on.
LEMMA StoredStep == ControlInv /\ [Next]_vars => Stored'
<1> SUFFICES ASSUME TypeOK, Placed, Queued, Stored, [Next]_vars PROVE Stored'
  BY DEF ControlInv
<1> USE DEF TypeOK, Stored, Path, At, Goto, Answer, callVars, handlerVars, childVars, storeVars
<1>0. /\ ProcessCalls \subseteq Calls
      /\ \A d \in ProcessCalls : model_dir[d] \in Dirs => Path(d) \in Paths
  BY DEF Calls, Paths
<1>1. ASSUME NEW c \in Calls, Call(c) \/ Abandon(c) PROVE Stored'
  BY <1>0, <1>1 DEF Call, Abandon
<1>2. ASSUME NEW c \in Calls, Dequeue(c) \/ Enter(c) \/ Leave(c) PROVE Stored'
  <2>1. CASE Dequeue(c)
    <3>1. pc[c] = "queued"
      BY <2>1, EmptySeq, LenProperties DEF Dequeue, Queued
    <3>2. QED
      BY <1>0, <2>1, <3>1 DEF Dequeue
  <2>2. CASE Enter(c) \/ Leave(c)
    BY <1>0, <2>2 DEF Enter, Leave
  <2>3. QED
    BY <1>2, <2>1, <2>2
<1>3. ASSUME NEW c \in Calls, Resume(c) PROVE Stored'
  BY <1>0, <1>3 DEF Resume
<1>4. ASSUME NEW c \in ProcessCalls, Greet(c) \/ Relay(c) \/ SendAnswer(c) PROVE Stored'
  BY <1>0, <1>4 DEF Greet, Relay, SendAnswer, Yield
<1>5. ASSUME NEW c \in ProcessCalls, Prepare(c) PROVE Stored'
  <2>1. \A d \in ProcessCalls \ {c} :
          pc'[d] = pc[d] /\ model_dir'[d] = model_dir[d]
    BY <1>0, <1>5 DEF Prepare
  <2>2. (pc'[c] = "fetching" /\ model_dir'[c] \in Dirs) \/ pc'[c] = "answering"
    BY <1>0, <1>5 DEF Prepare
  <2>3. child[c] = "none" /\ child' = child /\ files' = files /\ request' = request
        /\ telemetry_json' = telemetry_json
    BY <1>5 DEF Prepare
  <2>4. QED
    BY <2>1, <2>2, <2>3
<1>6. ASSUME NEW c \in ProcessCalls, Fetch(c) PROVE Stored'
  <2>1. model_dir[c] \in Dirs /\ Path(c) \in Paths /\ request[c].model \in Models
    BY <1>0, <1>6 DEF Fetch
  <2>2. /\ files'[Path(c)] \in Models \/ files' = files
        /\ \A p \in Paths : files[p] \in Models => files'[p] \in Models
    BY <1>6, <2>1 DEF Fetch
  <2>3. pc'[c] = "spawning" => files'[Path(c)] \in Models
    BY <1>0, <1>6, <2>1 DEF Fetch
  <2>4. /\ model_dir' = model_dir /\ request' = request /\ child' = child
        /\ \A d \in ProcessCalls \ {c} : pc'[d] = pc[d]
    BY <1>0, <1>6 DEF Fetch
  <2>5. pc'[c] \in {"spawning", "answering"}
    BY <1>0, <1>6 DEF Fetch
  <2>6. QED
    BY <1>0, <1>6, <2>1, <2>2, <2>3, <2>4, <2>5 DEF Fetch
<1>7. ASSUME NEW c \in ProcessCalls, Spawn(c) PROVE Stored'
  BY <1>0, <1>7 DEF Spawn
<1>8. ASSUME NEW c \in ProcessCalls, ReadLine(c) PROVE Stored'
  BY <1>0, <1>8 DEF ReadLine
<1>9. ASSUME NEW c \in ProcessCalls, Reap(c) PROVE Stored'
  BY <1>0, <1>9 DEF Reap
<1>10. ASSUME NEW c \in ProcessCalls, Upload(c) \/ Count(c) PROVE Stored'
  BY <1>0, <1>10 DEF Upload, Count
<1>11. ASSUME NEW c \in LocateCalls, Post(c) \/ Respond(c) PROVE Stored'
  BY <1>0, <1>11 DEF Post, Respond, Calls
<1>12. ASSUME NEW c \in ProcessCalls, ChildStep(c) \/ ChildDie(c) PROVE Stored'
  BY <1>0, <1>12 DEF ChildStep, ChildPrint, ChildReport, ChildExit, ChildDie, PrintLine, Alive
<1>13. CASE Restart
  BY <1>0, <1>13 DEF Restart, Open, Alive
<1>14. CASE UNCHANGED vars
  BY <1>14 DEF vars
<1>15. QED
  BY <1>1, <1>2, <1>3, <1>4, <1>5, <1>6, <1>7, <1>8, <1>9, <1>10, <1>11, <1>12, <1>13, <1>14
     DEF Next, ClientStep, Handler

\* A reply is prepared before it is sent.
LEMMA ReadyStep == ControlInv /\ [Next]_vars => Ready'
<1> SUFFICES ASSUME TypeOK, Placed, Queued, Stored, Ready, [Next]_vars PROVE Ready'
  BY DEF ControlInv
<1> USE DEF TypeOK, Ready, At, Goto, Answer, callVars, handlerVars
<1>0. /\ ProcessCalls \subseteq Calls /\ LocateCalls \subseteq Calls
      /\ ProcessCalls \cap LocateCalls = {} /\ Calls = ProcessCalls \cup LocateCalls
  BY CallsAssumption DEF Calls
<1>1. ASSUME NEW c \in Calls, Call(c) \/ Abandon(c) PROVE Ready'
  BY <1>0, <1>1 DEF Call, Abandon
<1>2. ASSUME NEW c \in Calls, Dequeue(c) \/ Enter(c) \/ Leave(c) PROVE Ready'
  BY <1>0, <1>2 DEF Dequeue, Enter, Leave
<1>3. ASSUME NEW c \in Calls, Resume(c) PROVE Ready'
  BY <1>0, <1>3 DEF Resume, Placed
<1>4. ASSUME NEW c \in ProcessCalls, Greet(c) \/ Relay(c) \/ SendAnswer(c) PROVE Ready'
  BY <1>0, <1>4 DEF Greet, Relay, SendAnswer, Yield
<1>5. ASSUME NEW c \in ProcessCalls, Prepare(c) \/ Fetch(c) \/ Spawn(c) PROVE Ready'
  BY <1>0, <1>5, MessageTypes DEF Prepare, Fetch, Spawn
<1>6. ASSUME NEW c \in ProcessCalls, ReadLine(c) \/ Reap(c) \/ Count(c) PROVE Ready'
  BY <1>0, <1>6, MessageTypes DEF ReadLine, Reap, Count
<1>7. ASSUME NEW c \in ProcessCalls, Upload(c) PROVE Ready'
  <2>1. telemetry_json[c].model \in Models
    BY <1>7 DEF Upload, Stored, Reports, Report
  <2>2. \A k \in ObjectKeys \cup {None} : Result(telemetry_json[c].model, k) \in Answers
    BY <2>1, MessageTypes
  <2>3. reply'[c] \in Answers /\ \A d \in Calls \ {c} : reply'[d] = reply[d] /\ pc'[d] = pc[d]
    BY <1>0, <1>7, <2>2 DEF Upload
  <2>4. QED
    BY <1>0, <2>3
<1>8. ASSUME NEW c \in LocateCalls, Post(c) \/ Respond(c) PROVE Ready'
  <2>1. \A d \in Calls \ {c} : reply'[d] = reply[d] /\ pc'[d] = pc[d]
    BY <1>0, <1>8 DEF Post, Respond
  <2>2. CASE Post(c)
    <3>1. reply'[c] \in Answers
      BY <1>0, <2>2, MessageTypes DEF Post
    <3>2. QED
      BY <1>0, <2>1, <3>1
  <2>3. CASE Respond(c)
    BY <1>0, <2>1, <2>3 DEF Respond
  <2>4. QED
    BY <1>8, <2>2, <2>3
<1>9. ASSUME NEW c \in ProcessCalls, ChildStep(c) \/ ChildDie(c) PROVE Ready'
  BY <1>9 DEF ChildStep, ChildPrint, ChildReport, ChildExit, ChildDie
<1>10. CASE Restart
  BY <1>0, <1>10 DEF Restart
<1>11. CASE UNCHANGED vars
  BY <1>11 DEF vars
<1>12. QED
  BY <1>1, <1>2, <1>3, <1>4, <1>5, <1>6, <1>7, <1>8, <1>9, <1>10, <1>11
     DEF Next, ClientStep, Handler

\* The variables keep their types: TypeOK needs the control invariant, because
\* what a step stores comes from a variable that another step has filled.
THEOREM ControlInvariance == Spec => []ControlInv
<1>1. ControlInv /\ [Next]_vars => ControlInv'
  BY TypeStep, PlacedStep, QueuedStep, StoredStep, ReadyStep DEF ControlInv
<1>2. QED
  BY InitControl, <1>1, PTL DEF Spec

\* Every reachable state has the types TypeOK gives it.
THEOREM TypeCorrect == Spec => []TypeOK
<1>1. ControlInv => TypeOK
  BY DEF ControlInv
<1>2. QED
  BY ControlInvariance, <1>1, PTL

----------------------------------------------------------------------------
\* The gauge follows the set of running handlers when a step keeps the set,
\* adds one call to it or removes one.
LEMMA GaugeFrame ==
    ASSUME GaugeCountsHandlers, TypeOK, NEW c \in Calls, OnlyMoves(c),
           pc' \in [Calls -> Points],
           \/ (pc[c] \in HandlerPoints <=> pc'[c] \in HandlerPoints) /\ active' = active
           \/ pc[c] \notin HandlerPoints /\ pc'[c] \in HandlerPoints /\ active' = active + 1
           \/ pc[c] \in HandlerPoints /\ pc'[c] \notin HandlerPoints /\ active' = active - 1
    PROVE  GaugeCountsHandlers'
<1>1. IsFiniteSet(InHandler)
  <2>1. IsFiniteSet(Calls)
    BY CallsAssumption, FS_Union DEF Calls
  <2>2. QED
    BY <2>1, FS_Subset DEF InHandler
<1>2. CASE (pc[c] \in HandlerPoints <=> pc'[c] \in HandlerPoints) /\ active' = active
  <2>1. InHandler' = InHandler
    BY <1>2 DEF InHandler, OnlyMoves
  <2>2. QED
    BY <1>2, <2>1 DEF GaugeCountsHandlers
<1>3. CASE pc[c] \notin HandlerPoints /\ pc'[c] \in HandlerPoints /\ active' = active + 1
  <2>1. InHandler' = InHandler \cup {c} /\ c \notin InHandler
    BY <1>3 DEF InHandler, OnlyMoves
  <2>2. QED
    BY <1>1, <1>3, <2>1, FS_AddElement DEF GaugeCountsHandlers
<1>4. CASE pc[c] \in HandlerPoints /\ pc'[c] \notin HandlerPoints /\ active' = active - 1
  <2>1. InHandler' = InHandler \ {c} /\ c \in InHandler
    BY <1>4 DEF InHandler, OnlyMoves
  <2>2. QED
    BY <1>1, <1>4, <2>1, FS_RemoveElement DEF GaugeCountsHandlers
<1>5. QED
  BY <1>2, <1>3, <1>4

LEMMA GaugeStep == ControlInv /\ ControlInv' /\ GaugeCountsHandlers /\ [Next]_vars => GaugeCountsHandlers'
<1> SUFFICES ASSUME TypeOK, TypeOK', Placed, Queued, GaugeCountsHandlers, [Next]_vars
             PROVE  GaugeCountsHandlers'
  BY DEF ControlInv
<1> USE DEF At, Goto, Answer, callVars, gaugeVars, OnlyMoves, HandlerPoints, ProcessPoints
<1>0. /\ ProcessCalls \subseteq Calls /\ LocateCalls \subseteq Calls
      /\ pc \in [Calls -> Points] /\ pc' \in [Calls -> Points]
  BY DEF Calls, TypeOK
<1>1. ASSUME NEW c \in Calls, Call(c) PROVE GaugeCountsHandlers'
  BY <1>0, <1>1, GaugeFrame DEF Call
<1>2. ASSUME NEW c \in Calls, Dequeue(c) PROVE GaugeCountsHandlers'
  <2>1. pc[c] = "queued"
    BY <1>2, EmptySeq, LenProperties DEF Dequeue, Queued, TypeOK
  <2>2. QED
    BY <1>0, <1>2, <2>1, GaugeFrame DEF Dequeue
<1>3. ASSUME NEW c \in Calls, Enter(c) PROVE GaugeCountsHandlers'
  BY <1>0, <1>3, GaugeFrame DEF Enter
<1>4. ASSUME NEW c \in Calls, Leave(c) PROVE GaugeCountsHandlers'
  BY <1>0, <1>4, GaugeFrame DEF Leave
<1>5. ASSUME NEW c \in Calls, Resume(c) PROVE GaugeCountsHandlers'
  BY <1>0, <1>5, GaugeFrame DEF Resume, Placed
<1>6. ASSUME NEW c \in ProcessCalls, Greet(c) \/ Relay(c) \/ SendAnswer(c) PROVE GaugeCountsHandlers'
  BY <1>0, <1>6, GaugeFrame DEF Greet, Relay, SendAnswer, Yield
<1>7. ASSUME NEW c \in ProcessCalls, Prepare(c) \/ Fetch(c) \/ Spawn(c) PROVE GaugeCountsHandlers'
  BY <1>0, <1>7, GaugeFrame DEF Prepare, Fetch, Spawn
<1>8. ASSUME NEW c \in ProcessCalls, ReadLine(c) \/ Reap(c) \/ Upload(c) \/ Count(c)
      PROVE  GaugeCountsHandlers'
  BY <1>0, <1>8, GaugeFrame DEF ReadLine, Reap, Upload, Count
<1>9. ASSUME NEW c \in LocateCalls, Post(c) \/ Respond(c) PROVE GaugeCountsHandlers'
  BY <1>0, <1>9, GaugeFrame DEF Post, Respond
<1>10. ASSUME pc' = pc, active' = active PROVE GaugeCountsHandlers'
  BY <1>10 DEF GaugeCountsHandlers, InHandler
<1>11. CASE Restart
  <2>1. InHandler' = {}
    BY <1>0, <1>11 DEF Restart, InHandler, Open
  <2>2. QED
    BY <1>11, <2>1, FS_EmptySet DEF Restart, GaugeCountsHandlers
<1>12. ASSUME NEW c \in Calls, Abandon(c) PROVE pc' = pc /\ active' = active
  BY <1>12 DEF Abandon
<1>13. ASSUME NEW c \in ProcessCalls, ChildStep(c) \/ ChildDie(c) PROVE pc' = pc /\ active' = active
  BY <1>13 DEF ChildStep, ChildPrint, ChildReport, ChildExit, ChildDie
<1>14. QED
  BY <1>1, <1>2, <1>3, <1>4, <1>5, <1>6, <1>7, <1>8, <1>9, <1>10, <1>11, <1>12, <1>13
     DEF Next, ClientStep, Handler, vars

\* The gauge counts exactly the running handlers, for any number of threads and
\* calls, whether handlers return, fail, are closed by gRPC or are restarted.
THEOREM GaugeCorrect == Spec => []GaugeCountsHandlers
<1>1. Init => GaugeCountsHandlers
  <2>1. ASSUME Init PROVE InHandler = {}
    BY <2>1 DEF Init, InHandler, HandlerPoints, ProcessPoints
  <2>2. QED
    BY <2>1, FS_EmptySet DEF Init, GaugeCountsHandlers
<1>2. ControlInv /\ ControlInv' /\ GaugeCountsHandlers /\ [Next]_vars => GaugeCountsHandlers'
  BY GaugeStep
<1>3. QED
  BY ControlInvariance, <1>1, <1>2, PTL DEF Spec

----------------------------------------------------------------------------
(***************************************************************************)
(* Jobs do not disturb each other: a result is about the model its request *)
(* named, the object it points to was made from that model, and nothing a  *)
(* job stored is replaced.  The argument: a directory belongs to one job,  *)
(* so what lies under a job's path comes from that job's own download, and *)
(* so do its child's report and its proxy.                                 *)
(***************************************************************************)

\* Before it has a directory.
Early == {"idle", "queued", "entering", "greeting", "preparing"}

\* No two jobs have the same directory, and nothing is stored outside them.
Owned ==
    /\ \A c \in ProcessCalls : pc[c] \in Early => model_dir[c] = None
    /\ \A c, d \in ProcessCalls : model_dir[c] = model_dir[d] /\ model_dir[c] # None => c = d
    /\ \A p \in Paths : files[p] # None \/ proxies[p] # None =>
          \E c \in ProcessCalls : model_dir[c] # None /\ p = Path(c)

\* What is stored under a job's path is its own model, from the download on.
Kept ==
    \A c \in ProcessCalls : model_dir[c] # None =>
        /\ files[Path(c)] \in {None, request[c].model}
        /\ proxies[Path(c)] \in {None, request[c].model}
        /\ pc[c] = "fetching" => files[Path(c)] = None

\* A report in a job's pipe or in its handler's hands is about its own model.
About(c, report) == report.kind = "telemetry" => report.model = request[c].model
Reported ==
    \A c \in ProcessCalls :
        /\ \A i \in DOMAIN pipe[c] : About(c, pipe[c][i])
        /\ telemetry_json[c] \in Reports => telemetry_json[c].model = request[c].model

\* A message is no result, or a result ResultIsOfRequest allows for a request
\* of this model when the bucket holds these objects.
Faithful(model, m, objects) ==
    m.type = "result" => m.model = model /\ (m.key # None => objects[m.key] = model)
Replied ==
    \A c \in ProcessCalls :
        /\ reply[c] \in Answers => Faithful(request[c].model, reply[c], bucket)
        /\ \A i \in DOMAIN stream[c] : Faithful(request[c].model, stream[c][i], bucket)

ArtifactInv == Owned /\ Kept /\ Reported /\ Replied

LEMMA InitArtifact == Init => ArtifactInv
  BY NoMessageAssumption DEF Init, ArtifactInv, Owned, Kept, Reported, Replied, Paths, Calls

\* A job that is given a directory has one nobody else has.
LEMMA OwnedFrame ==
    ASSUME Owned, request' = request, model_dir' = model_dir, files' = files, proxies' = proxies,
           \A c \in ProcessCalls : pc'[c] \in Early => pc[c] \in Early
    PROVE  Owned'
  BY DEF Owned, Path

LEMMA OwnedStep == ControlInv /\ Owned /\ [Next]_vars => Owned'
<1> SUFFICES ASSUME TypeOK, Placed, Queued, Stored, Owned, [Next]_vars PROVE Owned'
  BY DEF ControlInv
<1> USE DEF At, Goto, Answer, callVars, handlerVars, childVars, storeVars, Early
<1>0. ProcessCalls \subseteq Calls /\ pc \in [Calls -> Points]
  BY DEF Calls, TypeOK
<1>1. ASSUME NEW c \in Calls, Call(c) \/ Abandon(c) \/ Enter(c) \/ Leave(c) PROVE Owned'
  BY <1>0, <1>1, OwnedFrame DEF Call, Abandon, Enter, Leave
<1>2. ASSUME NEW c \in Calls, Dequeue(c) PROVE Owned'
  <2>1. pc[c] = "queued"
    BY <1>2, EmptySeq, LenProperties DEF Dequeue, Queued, TypeOK
  <2>2. QED
    BY <1>0, <1>2, <2>1, OwnedFrame DEF Dequeue
<1>3. ASSUME NEW c \in Calls, Resume(c) PROVE Owned'
  BY <1>0, <1>3, OwnedFrame DEF Resume
<1>4. ASSUME NEW c \in ProcessCalls, Greet(c) \/ Relay(c) \/ SendAnswer(c) PROVE Owned'
  BY <1>0, <1>4, OwnedFrame DEF Greet, Relay, SendAnswer, Yield
<1>5. ASSUME NEW c \in ProcessCalls, Prepare(c) PROVE Owned'
  <2>1. model_dir[c] = None /\ model_dir \in [ProcessCalls -> Dirs \cup {None}]
    BY <1>5 DEF Prepare, Owned, TypeOK
  <2>2. \A d \in ProcessCalls \ {c} : model_dir'[d] = model_dir[d]
    BY <2>1, <1>5 DEF Prepare
  <2>3. \/ model_dir' = model_dir
        \/ /\ model_dir'[c] \in Dirs
           /\ \A d \in ProcessCalls : model_dir[d] # model_dir'[c]
    BY <2>1, <1>5 DEF Prepare, FreshDir
  <2>4. pc'[c] \notin Early /\ \A d \in ProcessCalls \ {c} : pc'[d] = pc[d]
    BY <1>0, <1>5 DEF Prepare
  <2>5. files' = files /\ proxies' = proxies /\ request' = request
    BY <1>5 DEF Prepare
  <2>6. \A d \in ProcessCalls : model_dir[d] # None => model_dir'[d] = model_dir[d]
    BY <2>1, <2>2
  <2>7. QED
    BY <2>1, <2>2, <2>3, <2>4, <2>5, <2>6 DEF Owned, Path
<1>6. ASSUME NEW c \in ProcessCalls, Fetch(c) PROVE Owned'
  <2>1. model_dir[c] \in Dirs /\ model_dir[c] # None
    BY <1>6, NoneAssumption DEF Fetch, Stored
  <2>2. /\ \A p \in Paths : p # Path(c) => files'[p] = files[p]
        /\ proxies' = proxies /\ model_dir' = model_dir /\ request' = request
    BY <1>6 DEF Fetch, TypeOK
  <2>3. \A d \in ProcessCalls : pc'[d] \in Early => pc[d] \in Early
    BY <1>0, <1>6 DEF Fetch
  <2>4. QED
    BY <2>1, <2>2, <2>3 DEF Owned, Path
<1>7. ASSUME NEW c \in ProcessCalls, Spawn(c) \/ ReadLine(c) \/ Reap(c) \/ Upload(c) \/ Count(c)
      PROVE  Owned'
  BY <1>0, <1>7, OwnedFrame DEF Spawn, ReadLine, Reap, Upload, Count
<1>8. ASSUME NEW c \in LocateCalls, Post(c) \/ Respond(c) PROVE Owned'
  <2>1. c \in Calls
    BY DEF Calls
  <2>2. QED
    BY <1>0, <1>8, <2>1, OwnedFrame DEF Post, Respond
<1>9. ASSUME NEW c \in ProcessCalls, ChildPrint(c) \/ ChildExit(c) \/ ChildDie(c) PROVE Owned'
  BY <1>9, OwnedFrame DEF ChildPrint, ChildExit, ChildDie
<1>10. ASSUME NEW c \in ProcessCalls, ChildReport(c) PROVE Owned'
  <2>1. model_dir[c] \in Dirs /\ model_dir[c] # None
    BY <1>10, NoneAssumption DEF ChildReport, Stored
  <2>2. /\ \A p \in Paths : p # Path(c) => proxies'[p] = proxies[p]
        /\ files' = files /\ model_dir' = model_dir /\ request' = request /\ pc' = pc
    BY <1>10 DEF ChildReport, TypeOK
  <2>3. QED
    BY <2>1, <2>2 DEF Owned, Path
<1>11. CASE Restart
  BY <1>0, <1>11, OwnedFrame DEF Restart
<1>12. CASE UNCHANGED vars
  BY <1>12, OwnedFrame DEF vars
<1>13. QED
  BY <1>1, <1>2, <1>3, <1>4, <1>5, <1>6, <1>7, <1>8, <1>9, <1>10, <1>11, <1>12
     DEF Next, ClientStep, Handler, ChildStep

\* Different jobs have different paths.
LEMMA PathsDiffer ==
    ASSUME TypeOK, Owned, NEW c \in ProcessCalls, NEW d \in ProcessCalls, c # d, model_dir[c] # None
    PROVE  Path(c) # Path(d)
  BY DEF Owned, Path

LEMMA KeptFrame ==
    ASSUME Kept, request' = request, model_dir' = model_dir, files' = files, proxies' = proxies,
           \A c \in ProcessCalls : pc'[c] = "fetching" => pc[c] = "fetching"
    PROVE  Kept'
  BY DEF Kept, Path

LEMMA KeptStep == ControlInv /\ Owned /\ Kept /\ [Next]_vars => Kept'
<1> SUFFICES ASSUME TypeOK, Placed, Stored, Owned, Kept, [Next]_vars PROVE Kept'
  BY DEF ControlInv
<1> USE DEF At, Goto, Answer, callVars, handlerVars, childVars, storeVars
<1>0. ProcessCalls \subseteq Calls /\ pc \in [Calls -> Points]
  BY DEF Calls, TypeOK
<1>1. ASSUME NEW c \in Calls, Call(c) \/ Abandon(c) \/ Dequeue(c) \/ Enter(c) \/ Leave(c) PROVE Kept'
  BY <1>0, <1>1, KeptFrame DEF Call, Abandon, Dequeue, Enter, Leave
<1>2. ASSUME NEW c \in Calls, Resume(c) PROVE Kept'
  BY <1>0, <1>2, KeptFrame DEF Resume, Placed
<1>3. ASSUME NEW c \in ProcessCalls, Greet(c) \/ Relay(c) \/ SendAnswer(c) PROVE Kept'
  BY <1>0, <1>3, KeptFrame DEF Greet, Relay, SendAnswer, Yield
<1>4. ASSUME NEW c \in ProcessCalls, Prepare(c) PROVE Kept'
  <2>1. model_dir[c] = None /\ files' = files /\ proxies' = proxies /\ request' = request
    BY <1>4 DEF Prepare, Owned, Early
  <2>2. \A d \in ProcessCalls \ {c} : model_dir'[d] = model_dir[d] /\ pc'[d] = pc[d]
    BY <1>0, <1>4 DEF Prepare, TypeOK
  <2>3. CASE model_dir'[c] = None
    BY <2>1, <2>2, <2>3 DEF Kept, Path
  <2>4. CASE model_dir'[c] # None
    <3>1. model_dir'[c] \in Dirs /\ \A d \in ProcessCalls : model_dir[d] # model_dir'[c]
      BY <1>4, <2>1, <2>4 DEF Prepare, FreshDir, TypeOK
    <3>2. Path(c)' = <<model_dir'[c], request[c].file_name>> /\ Path(c)' \in Paths
      BY <2>1, <3>1 DEF Path, Paths, TypeOK
    <3>3. \A d \in ProcessCalls : Path(d) # Path(c)'
      BY <3>1, <3>2 DEF Path
    <3>4. files[Path(c)'] = None /\ proxies[Path(c)'] = None
      BY <3>2, <3>3 DEF Owned
    <3>5. QED
      BY <2>1, <2>2, <3>4 DEF Kept, Path
  <2>5. QED
    BY <2>3, <2>4
<1>5. ASSUME NEW c \in ProcessCalls, Fetch(c) PROVE Kept'
  <2>1. model_dir[c] # None /\ Path(c) \in Paths
    BY <1>5, NoneAssumption DEF Fetch, Stored, TypeOK, Path, Paths
  <2>2. /\ files' = files \/ files' = [files EXCEPT ![Path(c)] = request[c].model]
        /\ proxies' = proxies /\ model_dir' = model_dir /\ request' = request
        /\ pc'[c] # "fetching" /\ \A d \in ProcessCalls \ {c} : pc'[d] = pc[d]
    BY <1>0, <1>5 DEF Fetch
  <2>3. files'[Path(c)] \in {None, request[c].model}
    BY <2>1, <2>2 DEF Kept, TypeOK
  <2>4. \A d \in ProcessCalls \ {c} : model_dir[d] # None => files'[Path(d)] = files[Path(d)]
    <3>1. \A d \in ProcessCalls \ {c} : Path(d) # Path(c)
      BY <2>1, PathsDiffer
    <3>2. /\ files \in [Paths -> Models \cup {None}]
          /\ \A d \in ProcessCalls : model_dir[d] # None => Path(d) \in Paths
      BY DEF TypeOK, Path, Paths
    <3>3. QED
      BY <2>1, <2>2, <3>1, <3>2
  <2>5. QED
    BY <2>2, <2>3, <2>4 DEF Kept, Path
<1>6. ASSUME NEW c \in ProcessCalls, Spawn(c) \/ ReadLine(c) \/ Reap(c) \/ Upload(c) \/ Count(c)
      PROVE  Kept'
  BY <1>0, <1>6, KeptFrame DEF Spawn, ReadLine, Reap, Upload, Count
<1>7. ASSUME NEW c \in LocateCalls, Post(c) \/ Respond(c) PROVE Kept'
  <2>1. c \in Calls
    BY DEF Calls
  <2>2. QED
    BY <1>0, <1>7, <2>1, KeptFrame DEF Post, Respond
<1>8. ASSUME NEW c \in ProcessCalls, ChildPrint(c) \/ ChildExit(c) \/ ChildDie(c) PROVE Kept'
  BY <1>8, KeptFrame DEF ChildPrint, ChildExit, ChildDie
<1>9. ASSUME NEW c \in ProcessCalls, ChildReport(c) PROVE Kept'
  <2>1. model_dir[c] # None /\ Path(c) \in Paths /\ files[Path(c)] = request[c].model
    BY <1>9, NoneAssumption DEF ChildReport, Stored, Kept, TypeOK, Path, Paths
  <2>2. /\ proxies' = proxies \/ proxies' = [proxies EXCEPT ![Path(c)] = files[Path(c)]]
        /\ files' = files /\ model_dir' = model_dir /\ request' = request /\ pc' = pc
    BY <1>9 DEF ChildReport
  <2>3. proxies'[Path(c)] \in {None, request[c].model}
    BY <2>1, <2>2 DEF Kept, TypeOK
  <2>4. \A d \in ProcessCalls \ {c} : model_dir[d] # None => proxies'[Path(d)] = proxies[Path(d)]
    <3>1. \A d \in ProcessCalls \ {c} : Path(d) # Path(c)
      BY <2>1, PathsDiffer
    <3>2. /\ proxies \in [Paths -> Models \cup {None}]
          /\ \A d \in ProcessCalls : model_dir[d] # None => Path(d) \in Paths
      BY DEF TypeOK, Path, Paths
    <3>3. QED
      BY <2>1, <2>2, <3>1, <3>2
  <2>5. QED
    BY <2>2, <2>3, <2>4 DEF Kept, Path
<1>10. CASE Restart
  BY <1>0, <1>10, KeptFrame DEF Restart
<1>11. CASE UNCHANGED vars
  BY <1>11, KeptFrame DEF vars
<1>12. QED
  BY <1>1, <1>2, <1>3, <1>4, <1>5, <1>6, <1>7, <1>8, <1>9, <1>10, <1>11
     DEF Next, ClientStep, Handler, ChildStep

\* Reports: what a child prints is about the model under its job's path.
LEMMA ReportedStep == ControlInv /\ Kept /\ Reported /\ [Next]_vars => Reported'
<1> SUFFICES ASSUME TypeOK, Stored, Kept, Reported, [Next]_vars PROVE Reported'
  BY DEF ControlInv
<1> USE DEF callVars, handlerVars, childVars, storeVars
<1>1. ASSUME request' = request, telemetry_json' = telemetry_json, pipe' = pipe PROVE Reported'
  BY <1>1 DEF Reported, About
<1>2. ASSUME NEW c \in ProcessCalls, NEW line, About(c, line), line \in Reports \cup {Log},
             request' = request, telemetry_json' = telemetry_json,
             pipe' = [pipe EXCEPT ![c] = Append(@, line)] \/ pipe' = pipe
      PROVE  Reported'
  <2>1. CASE pipe' = [pipe EXCEPT ![c] = Append(@, line)]
    <3>1. /\ pipe \in [ProcessCalls -> Seq(Reports \cup {Log})]
          /\ Append(pipe[c], line) \in Seq(Reports \cup {Log})
          /\ Len(Append(pipe[c], line)) = Len(pipe[c]) + 1
          /\ \A i \in 1..Len(pipe[c]) : Append(pipe[c], line)[i] = pipe[c][i]
          /\ Append(pipe[c], line)[Len(pipe[c]) + 1] = line
      BY <1>2, AppendProperties DEF TypeOK
    <3>2. /\ DOMAIN pipe[c] = 1..Len(pipe[c]) /\ Len(pipe[c]) \in Nat
          /\ DOMAIN Append(pipe[c], line) = 1..(Len(pipe[c]) + 1)
      BY <3>1, LenProperties
    <3>3. \A i \in DOMAIN pipe'[c] : About(c, pipe'[c][i])
      BY <1>2, <2>1, <3>1, <3>2 DEF Reported
    <3>4. \A d \in ProcessCalls \ {c} : pipe'[d] = pipe[d]
      BY <2>1, <3>1
    <3>5. QED
      BY <1>2, <3>3, <3>4 DEF Reported, About
  <2>2. QED
    BY <1>1, <1>2, <2>1
<1>3. ASSUME NEW c \in ProcessCalls, ReadLine(c) PROVE Reported'
  <2>1. /\ pipe[c] \in Seq(Reports \cup {Log}) /\ pipe[c] # <<>>
        /\ pipe \in [ProcessCalls -> Seq(Reports \cup {Log})]
        /\ telemetry_json \in [ProcessCalls -> Reports \cup {None}]
    BY <1>3 DEF ReadLine, TypeOK
  <2>2. /\ Tail(pipe[c]) \in Seq(Reports \cup {Log})
        /\ Len(Tail(pipe[c])) = Len(pipe[c]) - 1 /\ Len(pipe[c]) \in Nat \ {0}
        /\ \A i \in 1..Len(Tail(pipe[c])) : Tail(pipe[c])[i] = pipe[c][i + 1]
    BY <2>1, HeadTailProperties, EmptySeq
  <2>3. DOMAIN pipe[c] = 1..Len(pipe[c]) /\ DOMAIN Tail(pipe[c]) = 1..(Len(pipe[c]) - 1)
    BY <2>1, <2>2, LenProperties
  <2>4. pipe' = [pipe EXCEPT ![c] = Tail(@)] /\ request' = request
    BY <1>3 DEF ReadLine
  <2>5. \A i \in DOMAIN pipe'[c] : About(c, pipe'[c][i])
    <3>1. \A i \in 1..(Len(pipe[c]) - 1) : i + 1 \in 1..Len(pipe[c])
      BY <2>2
    <3>2. QED
      BY <2>1, <2>2, <2>3, <2>4, <3>1 DEF Reported
  <2>6. Head(pipe[c]) = pipe[c][1] /\ 1 \in DOMAIN pipe[c]
    BY <2>1, <2>2, <2>3
  <2>7. telemetry_json'[c] \in Reports => telemetry_json'[c].model = request[c].model
    <3>1. CASE telemetry_json' = telemetry_json
      BY <3>1 DEF Reported
    <3>2. CASE /\ Head(pipe[c]).kind = "telemetry"
               /\ telemetry_json' = [telemetry_json EXCEPT ![c] = Head(pipe[c])]
      BY <2>1, <2>6, <3>2 DEF Reported, About
    <3>3. QED
      BY <1>3, <3>1, <3>2 DEF ReadLine
  <2>8. \A d \in ProcessCalls \ {c} : pipe'[d] = pipe[d] /\ telemetry_json'[d] = telemetry_json[d]
    BY <1>3, <2>1 DEF ReadLine
  <2>9. QED
    BY <2>4, <2>5, <2>7, <2>8 DEF Reported, About
<1>4. ASSUME NEW c \in ProcessCalls, ChildPrint(c) PROVE Reported'
  <2>1. About(c, Log)
    BY DEF About, Log
  <2>2. QED
    BY <1>2, <1>4, <2>1 DEF ChildPrint, PrintLine
<1>5. ASSUME NEW c \in ProcessCalls, ChildReport(c) PROVE Reported'
  <2>1. model_dir[c] \in Dirs /\ files[Path(c)] = request[c].model /\ files[Path(c)] \in Models
    BY <1>5, NoneAssumption DEF ChildReport, Stored, Kept
  <2>2. ASSUME NEW made \in BOOLEAN
        PROVE  About(c, Report(files[Path(c)], made)) /\ Report(files[Path(c)], made) \in Reports
    BY <2>1 DEF About, Report, Reports
  <2>3. PICK made \in BOOLEAN : PrintLine(c, Report(files[Path(c)], made), "reported")
    BY <1>5 DEF ChildReport
  <2>4. QED
    BY <1>2, <1>5, <2>2, <2>3 DEF ChildReport, PrintLine
<1>6. ASSUME NEW c \in Calls, ClientStep(c) \/ Dequeue(c) \/ Enter(c) \/ Leave(c) \/ Resume(c)
      PROVE  Reported'
  BY <1>1, <1>6 DEF ClientStep, Call, Abandon, Dequeue, Enter, Leave, Resume
<1>7. ASSUME NEW c \in ProcessCalls, Greet(c) \/ Relay(c) \/ SendAnswer(c) \/ Prepare(c) \/ Fetch(c)
      PROVE  Reported'
  BY <1>1, <1>7 DEF Greet, Relay, SendAnswer, Prepare, Fetch
<1>8. ASSUME NEW c \in ProcessCalls, Spawn(c) \/ Reap(c) \/ Upload(c) \/ Count(c) PROVE Reported'
  BY <1>1, <1>8 DEF Spawn, Reap, Upload, Count
<1>9. ASSUME NEW c \in LocateCalls, Post(c) \/ Respond(c) PROVE Reported'
  BY <1>1, <1>9 DEF Post, Respond
<1>10. ASSUME NEW c \in ProcessCalls, ChildExit(c) \/ ChildDie(c) PROVE Reported'
  BY <1>1, <1>10 DEF ChildExit, ChildDie
<1>11. CASE Restart
  BY <1>1, <1>11 DEF Restart
<1>12. CASE UNCHANGED vars
  BY <1>1, <1>12 DEF vars
<1>13. QED
  BY <1>3, <1>4, <1>5, <1>6, <1>7, <1>8, <1>9, <1>10, <1>11, <1>12 DEF Next, Handler, ChildStep

\* A faithful message stays faithful while stored objects stay.
BucketKept == \A k \in ObjectKeys : bucket[k] # None => bucket'[k] = bucket[k]

LEMMA FaithfulKept ==
    ASSUME BucketKept, NEW model \in Models, NEW m \in Messages, Faithful(model, m, bucket)
    PROVE  Faithful(model, m, bucket')
<1>1. m.key = None \/ m.key \in ObjectKeys
  BY DEF Messages, Answers, Plain, Result
<1>2. QED
  BY <1>1, NoneAssumption DEF Faithful, BucketKept

\* A step that prepares or sends only faithful messages of one job.
LEMMA RepliedFrame ==
    ASSUME TypeOK, Replied, request' = request, BucketKept, NEW c \in ProcessCalls,
           \A d \in ProcessCalls \ {c} : reply'[d] = reply[d] /\ stream'[d] = stream[d],
           reply'[c] = reply[c] \/ Faithful(request[c].model, reply'[c], bucket'),
           \/ stream'[c] = stream[c]
           \/ \E m \in Messages : /\ Faithful(request[c].model, m, bucket)
                                  /\ stream'[c] = Append(stream[c], m)
    PROVE  Replied'
<1>1. \A d \in ProcessCalls : request[d].model \in Models
  BY DEF TypeOK
<1>2. \A d \in ProcessCalls : stream[d] \in Seq(Messages)
  BY DEF TypeOK, Calls
<1>3. \A d \in ProcessCalls : \A i \in DOMAIN stream[d] :
          stream[d][i] \in Messages /\ Faithful(request[d].model, stream[d][i], bucket')
  BY <1>1, <1>2, FaithfulKept, ElementOfSeq, LenProperties DEF Replied
<1>4. \A d \in ProcessCalls : reply'[d] \in Answers => Faithful(request[d].model, reply'[d], bucket')
  BY <1>1, FaithfulKept, MessageTypes DEF Replied
<1>5. ASSUME NEW m \in Messages, Faithful(request[c].model, m, bucket),
             stream'[c] = Append(stream[c], m)
      PROVE  \A i \in DOMAIN stream'[c] : Faithful(request[c].model, stream'[c][i], bucket')
  <2>1. /\ Append(stream[c], m) \in Seq(Messages)
        /\ Len(Append(stream[c], m)) = Len(stream[c]) + 1 /\ Len(stream[c]) \in Nat
        /\ \A i \in 1..Len(stream[c]) : Append(stream[c], m)[i] = stream[c][i]
        /\ Append(stream[c], m)[Len(stream[c]) + 1] = m
    BY <1>2, AppendProperties, LenProperties
  <2>2. /\ DOMAIN stream'[c] = 1..(Len(stream[c]) + 1)
        /\ DOMAIN stream[c] = 1..Len(stream[c])
    BY <1>2, <1>5, <2>1, LenProperties
  <2>3. Faithful(request[c].model, m, bucket')
    BY <1>1, <1>5, FaithfulKept
  <2>4. QED
    BY <1>3, <1>5, <2>1, <2>2, <2>3
<1>6. \A d \in ProcessCalls : \A i \in DOMAIN stream'[d] :
          Faithful(request[d].model, stream'[d][i], bucket')
  BY <1>3, <1>5
<1>7. QED
  BY <1>4, <1>6 DEF Replied

\* What a job sends is faithful, because its report and its proxy are.
LEMMA RepliedStep == ControlInv /\ ArtifactInv /\ [Next]_vars => Replied'
<1> SUFFICES ASSUME TypeOK, Placed, Stored, Ready, Kept, Reported, Replied, [Next]_vars PROVE Replied'
  BY DEF ControlInv, ArtifactInv
<1> USE DEF callVars, handlerVars, storeVars
<1>0. /\ ProcessCalls \subseteq Calls /\ \A d \in LocateCalls : d \in Calls /\ d \notin ProcessCalls
      /\ \A model, objects : /\ Faithful(model, Plain("info"), objects)
                             /\ Faithful(model, Plain("error"), objects)
  BY CallsAssumption DEF Calls, Faithful, Plain
<1>1. ASSUME request' = request, bucket' = bucket,
             \A d \in ProcessCalls : reply'[d] = reply[d] /\ stream'[d] = stream[d]
      PROVE  Replied'
  BY <1>1 DEF Replied
<1>2. ASSUME NEW c \in ProcessCalls, Greet(c) \/ Relay(c) PROVE Replied'
  <2>1. /\ reply' = reply /\ request' = request /\ bucket' = bucket
        /\ \A d \in ProcessCalls \ {c} : stream'[d] = stream[d]
        /\ stream'[c] = stream[c] \/ stream'[c] = Append(stream[c], Plain("info"))
    BY <1>0, <1>2 DEF Greet, Relay, Yield, TypeOK
  <2>2. QED
    BY <1>0, <2>1, RepliedFrame, MessageTypes DEF BucketKept
<1>3. ASSUME NEW c \in ProcessCalls, SendAnswer(c) PROVE Replied'
  <2>1. /\ reply' = reply /\ request' = request /\ bucket' = bucket
        /\ \A d \in ProcessCalls \ {c} : stream'[d] = stream[d]
        /\ stream'[c] = stream[c] \/ stream'[c] = Append(stream[c], reply[c])
    BY <1>0, <1>3 DEF SendAnswer, Yield, TypeOK
  <2>2. reply[c] \in Messages /\ Faithful(request[c].model, reply[c], bucket)
    BY <1>3, MessageTypes DEF SendAnswer, At, Ready, Replied
  <2>3. BucketKept
    BY <2>1 DEF BucketKept
  <2>4. QED
    BY <2>1, <2>2, <2>3, RepliedFrame
<1>4. ASSUME NEW c \in ProcessCalls,
             Prepare(c) \/ Fetch(c) \/ Spawn(c) \/ ReadLine(c) \/ Reap(c)
      PROVE  Replied'
  <2>1. /\ request' = request /\ bucket' = bucket /\ stream' = stream
        /\ reply' = reply \/ reply' = [reply EXCEPT ![c] = Plain("error")]
    BY <1>4 DEF Prepare, Fetch, Spawn, ReadLine, Reap, Answer
  <2>2. /\ \A d \in ProcessCalls \ {c} : reply'[d] = reply[d]
        /\ reply'[c] = reply[c] \/ reply'[c] = Plain("error")
    BY <1>0, <2>1 DEF TypeOK
  <2>3. BucketKept
    BY <2>1 DEF BucketKept
  <2>4. QED
    BY <1>0, <2>1, <2>2, <2>3, RepliedFrame
<1>5. ASSUME NEW c \in ProcessCalls, Upload(c) PROVE Replied'
  <2>1. /\ telemetry_json[c] \in Reports /\ model_dir[c] \in Dirs
        /\ files[Path(c)] \in Models
    BY <1>5 DEF Upload, At, Stored
  <2>2. telemetry_json[c].model = request[c].model
    BY <2>1 DEF Reported
  <2>3. proxies[Path(c)] \in {None, request[c].model}
    BY <2>1, NoneAssumption DEF Kept
  <2>4. BucketKept
    BY <1>5 DEF Upload, FreshKey, BucketKept, TypeOK
  <2>5. /\ request' = request /\ stream' = stream
        /\ \A d \in ProcessCalls \ {c} : reply'[d] = reply[d]
    BY <1>0, <1>5 DEF Upload, Answer, TypeOK
  <2>6. PICK k \in ObjectKeys \cup {None} :
            /\ Answer(c, Result(telemetry_json[c].model, k))
            /\ k # None => bucket' = [bucket EXCEPT ![k] = proxies[Path(c)]] /\ proxies[Path(c)] # None
    BY <1>5, NoneAssumption DEF Upload
  <2>7. reply'[c] = Result(request[c].model, k)
    BY <1>0, <2>2, <2>6 DEF Answer, TypeOK
  <2>8. k # None => bucket'[k] = request[c].model
    BY <2>3, <2>6 DEF TypeOK
  <2>9. Faithful(request[c].model, reply'[c], bucket')
    BY <2>7, <2>8 DEF Faithful, Result
  <2>10. QED
    BY <2>4, <2>5, <2>9, RepliedFrame
<1>6. ASSUME NEW c \in LocateCalls, Post(c) \/ Respond(c) PROVE Replied'
  <2>1. /\ request' = request /\ bucket' = bucket
        /\ \A d \in ProcessCalls : reply'[d] = reply[d] /\ stream'[d] = stream[d]
    BY <1>0, <1>6 DEF Post, Respond, TypeOK
  <2>2. QED
    BY <1>1, <2>1
<1>7. ASSUME NEW c \in Calls, ClientStep(c) \/ Dequeue(c) \/ Enter(c) \/ Leave(c) \/ Resume(c)
      PROVE  Replied'
  BY <1>1, <1>7 DEF ClientStep, Call, Abandon, Dequeue, Enter, Leave, Resume
<1>8. ASSUME NEW c \in ProcessCalls, Count(c) PROVE Replied'
  BY <1>1, <1>8 DEF Count
<1>9. ASSUME NEW c \in ProcessCalls, ChildStep(c) \/ ChildDie(c) PROVE Replied'
  BY <1>1, <1>9 DEF ChildStep, ChildPrint, ChildReport, ChildExit, ChildDie
<1>10. CASE Restart
  BY <1>1, <1>10 DEF Restart
<1>11. CASE UNCHANGED vars
  BY <1>1, <1>11 DEF vars
<1>12. QED
  BY <1>2, <1>3, <1>4, <1>5, <1>6, <1>7, <1>8, <1>9, <1>10, <1>11 DEF Next, Handler

\* What the directories, the bucket and the messages hold was made from the model
\* of the request they belong to.
THEOREM ArtifactInvariance == Spec => []ArtifactInv
<1>1. ControlInv /\ ArtifactInv /\ [Next]_vars => ArtifactInv'
  BY OwnedStep, KeptStep, ReportedStep, RepliedStep DEF ArtifactInv
<1>2. QED
  BY InitArtifact, ControlInvariance, <1>1, PTL DEF Spec

\* A result is about the requested model, and so is the object it points to,
\* for any number of jobs, threads and clients and whatever fails.
THEOREM ResultsCorrect == Spec => []ResultIsOfRequest
<1>1. ArtifactInv => ResultIsOfRequest
  BY DEF ArtifactInv, Replied, Faithful, ResultIsOfRequest, Sent
<1>2. QED
  BY ArtifactInvariance, <1>1, PTL

\* No step replaces a downloaded model, a proxy or an uploaded object.
THEOREM ArtifactsCorrect == Spec => ArtifactsKept
<1> DEFINE Keep == /\ \A p \in Paths : files[p] # None => files'[p] = files[p]
                   /\ \A p \in Paths : proxies[p] # None => proxies'[p] = proxies[p]
                   /\ \A k \in ObjectKeys : bucket[k] # None => bucket'[k] = bucket[k]
<1>1. ASSUME ControlInv, ArtifactInv, [Next]_vars PROVE Keep
  <2> USE DEF storeVars
  <2>1. ASSUME NEW c \in ProcessCalls, Fetch(c) PROVE Keep
    <3>1. model_dir[c] \in Dirs /\ files[Path(c)] = None
      BY <1>1, <2>1, NoneAssumption
         DEF Fetch, At, ControlInv, Stored, ArtifactInv, Kept, TypeOK
    <3>2. QED
      BY <1>1, <2>1, <3>1 DEF Fetch, ControlInv, TypeOK
  <2>2. ASSUME NEW c \in ProcessCalls, ChildReport(c) PROVE Keep
    <3>1. /\ model_dir[c] # None /\ files[Path(c)] = request[c].model
          /\ proxies[Path(c)] \in {None, request[c].model}
      BY <1>1, <2>2, NoneAssumption
         DEF ChildReport, ControlInv, Stored, ArtifactInv, Kept
    <3>2. QED
      BY <1>1, <2>2, <3>1 DEF ChildReport, ControlInv, TypeOK
  <2>3. ASSUME NEW c \in ProcessCalls, Upload(c) PROVE Keep
    BY <1>1, <2>3 DEF Upload, FreshKey, ControlInv, TypeOK
  <2>4. ASSUME files' = files, proxies' = proxies, bucket' = bucket PROVE Keep
    BY <2>4
  <2>5. ASSUME NEW c \in Calls, ClientStep(c) \/ Dequeue(c) \/ Enter(c) \/ Leave(c) \/ Resume(c)
        PROVE  Keep
    BY <2>4, <2>5 DEF ClientStep, Call, Abandon, Dequeue, Enter, Leave, Resume
  <2>6. ASSUME NEW c \in ProcessCalls, Greet(c) \/ Relay(c) \/ SendAnswer(c) \/ Prepare(c) \/ Spawn(c)
        PROVE  Keep
    BY <2>4, <2>6 DEF Greet, Relay, SendAnswer, Prepare, Spawn
  <2>7. ASSUME NEW c \in ProcessCalls, ReadLine(c) \/ Reap(c) \/ Count(c) PROVE Keep
    BY <2>4, <2>7 DEF ReadLine, Reap, Count
  <2>8. ASSUME NEW c \in LocateCalls, Post(c) \/ Respond(c) PROVE Keep
    BY <2>4, <2>8 DEF Post, Respond
  <2>9. ASSUME NEW c \in ProcessCalls, ChildPrint(c) \/ ChildExit(c) \/ ChildDie(c) PROVE Keep
    BY <2>4, <2>9 DEF ChildPrint, ChildExit, ChildDie
  <2>10. CASE Restart
    BY <2>4, <2>10 DEF Restart
  <2>11. CASE UNCHANGED vars
    BY <2>4, <2>11 DEF vars
  <2>12. QED
    BY <1>1, <2>1, <2>2, <2>3, <2>5, <2>6, <2>7, <2>8, <2>9, <2>10, <2>11
       DEF Next, Handler, ChildStep
<1>2. ControlInv /\ ArtifactInv /\ [Next]_vars => [Keep]_vars
  BY <1>1
<1>3. QED
  BY ControlInvariance, ArtifactInvariance, <1>2, PTL DEF Spec, ArtifactsKept

----------------------------------------------------------------------------
(***************************************************************************)
(* The service implements the contract of a call: an answer ends every     *)
(* stream whose client stays, and no stream holds more than one.           *)
(***************************************************************************)

Answered(c) == \E i \in DOMAIN stream[c] : stream[c][i].type # "info"

\* The control points at which a call has not been answered yet.
Unanswered(c) ==
    IF c \in ProcessCalls THEN pc[c] \notin {"counting", "leaving", "done"}
    ELSE pc[c] # "done"

\* The control points that a call whose client stays reaches only answered.
Settled(c) == pc[c] \in IF c \in ProcessCalls THEN {"counting", "leaving", "done"} ELSE {"done"}

StreamInv ==
    /\ \A c \in inactive : pc[c] # "idle"
    /\ \A c \in Calls : Unanswered(c) => ~Answered(c)
    /\ \A c \in Calls : Settled(c) /\ c \notin inactive => Answered(c)
    /\ AnswerIsLast

LEMMA InitStream == Init => StreamInv
  BY DEF Init, StreamInv, Unanswered, Settled, Answered, AnswerIsLast

LEMMA AnswerTypes == \A m \in Answers : m.type # "info" /\ m.type \in {"result", "boxes", "error", "internal"}
  BY DEF Answers, Plain, Result

\* What sending a message does to a stream.
LEMMA SendFacts ==
    ASSUME TypeOK, NEW c \in Calls, NEW m \in Messages,
           stream' = [stream EXCEPT ![c] = Append(@, m)]
    PROVE  /\ \A d \in Calls \ {c} : stream'[d] = stream[d]
           /\ Len(stream'[c]) = Len(stream[c]) + 1 /\ Len(stream[c]) \in Nat
           /\ DOMAIN stream[c] = 1..Len(stream[c]) /\ DOMAIN stream'[c] = 1..(Len(stream[c]) + 1)
           /\ \A i \in 1..Len(stream[c]) : stream'[c][i] = stream[c][i]
           /\ stream'[c][Len(stream[c]) + 1] = m
<1>1. stream[c] \in Seq(Messages) /\ stream'[c] = Append(stream[c], m)
  BY DEF TypeOK
<1>2. QED
  BY <1>1, AppendProperties, LenProperties DEF TypeOK

\* Progress changes neither whether a call is answered nor where.
LEMMA InfoSent ==
    ASSUME TypeOK, AnswerIsLast, NEW c \in Calls, ~Answered(c),
           stream' = [stream EXCEPT ![c] = Append(@, Plain("info"))]
    PROVE  AnswerIsLast' /\ \A d \in Calls : Answered(d)' <=> Answered(d)
<1>1. Plain("info") \in Messages /\ Plain("info").type = "info"
  BY MessageTypes DEF Plain
<1>2. \A i \in DOMAIN stream'[c] : stream'[c][i].type = "info"
  BY <1>1, SendFacts DEF Answered
<1>3. \A d \in Calls \ {c} : stream'[d] = stream[d]
  BY <1>1, SendFacts
<1>4. QED
  BY <1>2, <1>3 DEF AnswerIsLast, Answered

\* The one answer of a call becomes the last message of its stream.
LEMMA AnswerSent ==
    ASSUME TypeOK, AnswerIsLast, NEW c \in Calls, ~Answered(c), NEW m \in Answers,
           stream' = [stream EXCEPT ![c] = Append(@, m)]
    PROVE  AnswerIsLast' /\ Answered(c)' /\ \A d \in Calls \ {c} : Answered(d)' <=> Answered(d)
<1>1. m \in Messages /\ m.type # "info"
  BY MessageTypes, AnswerTypes
<1>2. Answered(c)'
  <2>1. /\ Len(stream[c]) \in Nat /\ DOMAIN stream'[c] = 1..(Len(stream[c]) + 1)
        /\ stream'[c][Len(stream[c]) + 1] = m
    BY <1>1, SendFacts
  <2>2. Len(stream[c]) + 1 \in DOMAIN stream'[c]
    BY <2>1
  <2>3. QED
    BY <1>1, <2>1, <2>2 DEF Answered
<1>3. \A i \in DOMAIN stream'[c] : stream'[c][i].type # "info" => i = Len(stream'[c])
  <2>1. /\ Len(stream'[c]) = Len(stream[c]) + 1 /\ Len(stream[c]) \in Nat
        /\ DOMAIN stream[c] = 1..Len(stream[c]) /\ DOMAIN stream'[c] = 1..(Len(stream[c]) + 1)
        /\ \A i \in 1..Len(stream[c]) : stream'[c][i] = stream[c][i]
    BY <1>1, SendFacts
  <2>2. \A i \in 1..Len(stream[c]) : stream'[c][i].type = "info"
    BY <2>1 DEF Answered
  <2>3. QED
    BY <2>1, <2>2
<1>4. \A d \in Calls \ {c} : stream'[d] = stream[d]
  BY <1>1, SendFacts
<1>5. QED
  BY <1>2, <1>3, <1>4 DEF AnswerIsLast, Answered

LEMMA StreamStep == ControlInv /\ StreamInv /\ [Next]_vars => StreamInv'
<1> SUFFICES ASSUME TypeOK, Placed, Queued, Ready, StreamInv, [Next]_vars PROVE StreamInv'
  BY DEF ControlInv
<1> USE DEF At, Goto, Answer, callVars, Unanswered, Settled
<1>0. /\ ProcessCalls \subseteq Calls /\ LocateCalls \subseteq Calls
      /\ \A c \in LocateCalls : c \notin ProcessCalls
      /\ pc \in [Calls -> Points] /\ inactive \subseteq Calls
  BY CallsAssumption DEF Calls, TypeOK
<1>1. ASSUME stream' = stream,
             \A c \in inactive' : pc'[c] # "idle",
             inactive \subseteq inactive',
             \A c \in Calls : Unanswered(c)' => Unanswered(c),
             \A c \in Calls : Settled(c)' /\ c \notin inactive' => Settled(c)
      PROVE  StreamInv'
  BY <1>1 DEF StreamInv, Answered, AnswerIsLast
<1>2. ASSUME NEW c \in Calls, Call(c) \/ Abandon(c) \/ Enter(c) PROVE StreamInv'
  BY <1>0, <1>1, <1>2 DEF Call, Abandon, Enter, StreamInv
<1>3. ASSUME NEW c \in Calls, Dequeue(c) PROVE StreamInv'
  <2>1. pc[c] = "queued"
    BY <1>3, EmptySeq, LenProperties DEF Dequeue, Queued, TypeOK
  <2>2. QED
    BY <1>0, <1>1, <1>3, <2>1 DEF Dequeue, StreamInv
<1>4. ASSUME NEW c \in Calls, Leave(c) PROVE StreamInv'
  BY <1>0, <1>1, <1>4 DEF Leave, StreamInv
<1>5. ASSUME NEW c \in Calls, Resume(c) PROVE StreamInv'
  BY <1>0, <1>1, <1>5 DEF Resume, StreamInv, Placed
<1>6. ASSUME NEW c \in ProcessCalls, Greet(c) \/ Relay(c) PROVE StreamInv'
  <2>1. CASE stream' = stream
    BY <1>0, <1>1, <1>6, <2>1 DEF Greet, Relay, Yield, StreamInv
  <2>2. CASE stream' = [stream EXCEPT ![c] = Append(@, Plain("info"))]
    <3>1. ~Answered(c)
      BY <1>0, <1>6 DEF Greet, Relay, StreamInv
    <3>2. AnswerIsLast' /\ \A d \in Calls : Answered(d)' <=> Answered(d)
      BY <1>0, <2>2, <3>1, InfoSent DEF StreamInv
    <3>3. c \notin inactive \/ pc'[c] = "leaving"
      BY <1>0, <1>6 DEF Greet, Relay, Yield
    <3>4. QED
      BY <1>0, <1>6, <3>1, <3>2, <3>3 DEF Greet, Relay, Yield, StreamInv
  <2>3. QED
    BY <1>6, <2>1, <2>2 DEF Greet, Relay, Yield
<1>7. ASSUME NEW c \in ProcessCalls, SendAnswer(c) PROVE StreamInv'
  <2>1. CASE c \in inactive
    BY <1>0, <1>1, <1>7, <2>1 DEF SendAnswer, Yield, StreamInv
  <2>2. CASE c \notin inactive
    <3>1. ~Answered(c) /\ reply[c] \in Answers
      BY <1>0, <1>7 DEF SendAnswer, StreamInv, Ready
    <3>2. stream' = [stream EXCEPT ![c] = Append(@, reply[c])]
      BY <1>7, <2>2 DEF SendAnswer, Yield
    <3>3. AnswerIsLast' /\ Answered(c)' /\ \A d \in Calls \ {c} : Answered(d)' <=> Answered(d)
      BY <1>0, <3>1, <3>2, AnswerSent DEF StreamInv
    <3>4. pc'[c] \in {"counting", "leaving"} /\ \A d \in Calls \ {c} : pc'[d] = pc[d]
      BY <1>0, <1>7, <2>2 DEF SendAnswer, Yield
    <3>5. inactive' = inactive
      BY <1>7 DEF SendAnswer
    <3>6. QED
      BY <1>0, <3>3, <3>4, <3>5 DEF StreamInv
  <2>3. QED
    BY <2>1, <2>2
<1>8. ASSUME NEW c \in ProcessCalls, Prepare(c) \/ Fetch(c) \/ Spawn(c) \/ ReadLine(c) PROVE StreamInv'
  BY <1>0, <1>1, <1>8 DEF Prepare, Fetch, Spawn, ReadLine, StreamInv
<1>9. ASSUME NEW c \in ProcessCalls, Reap(c) \/ Upload(c) \/ Count(c) PROVE StreamInv'
  BY <1>0, <1>1, <1>9 DEF Reap, Upload, Count, StreamInv
<1>10. ASSUME NEW c \in LocateCalls, Post(c) PROVE StreamInv'
  BY <1>0, <1>1, <1>10 DEF Post, StreamInv
<1>11. ASSUME NEW c \in LocateCalls, Respond(c) PROVE StreamInv'
  <2>1. CASE c \in inactive
    BY <1>0, <1>1, <1>11, <2>1 DEF Respond, StreamInv
  <2>2. CASE c \notin inactive
    <3>1. ~Answered(c) /\ reply[c] \in Answers
      BY <1>0, <1>11 DEF Respond, StreamInv, Ready
    <3>2. stream' = [stream EXCEPT ![c] = Append(@, reply[c])]
      BY <1>11, <2>2 DEF Respond
    <3>3. AnswerIsLast' /\ Answered(c)' /\ \A d \in Calls \ {c} : Answered(d)' <=> Answered(d)
      BY <1>0, <3>1, <3>2, AnswerSent DEF StreamInv
    <3>4. pc'[c] = "done" /\ inactive' = inactive /\ \A d \in Calls \ {c} : pc'[d] = pc[d]
      BY <1>0, <1>11 DEF Respond
    <3>5. QED
      BY <1>0, <3>3, <3>4 DEF StreamInv
  <2>3. QED
    BY <2>1, <2>2
<1>12. ASSUME NEW c \in ProcessCalls, ChildStep(c) \/ ChildDie(c) PROVE StreamInv'
  BY <1>1, <1>12 DEF ChildStep, ChildPrint, ChildReport, ChildExit, ChildDie, StreamInv
<1>13. CASE Restart
  BY <1>0, <1>1, <1>13 DEF Restart, Open, StreamInv
<1>14. CASE UNCHANGED vars
  BY <1>1, <1>14 DEF vars, StreamInv
<1>15. QED
  BY <1>2, <1>3, <1>4, <1>5, <1>6, <1>7, <1>8, <1>9, <1>10, <1>11, <1>12, <1>13, <1>14
     DEF Next, ClientStep, Handler

\* Where a handler is tells what its stream has carried so far.
THEOREM StreamInvariance == Spec => []StreamInv
<1>1. ControlInv /\ StreamInv /\ [Next]_vars => StreamInv'
  BY StreamStep
<1>2. QED
  BY InitStream, ControlInvariance, <1>1, PTL DEF Spec

\* No progress and no second answer follows the answer of a call.
THEOREM AnswersCorrect == Spec => []AnswerIsLast
<1>1. StreamInv => AnswerIsLast
  BY DEF StreamInv
<1>2. QED
  BY StreamInvariance, <1>1, PTL

\* Whichever step of a handler fails, a call whose client stays is answered.
THEOREM AllAnswered == Spec => []EveryCallAnswered
<1>1. StreamInv => EveryCallAnswered
  BY DEF StreamInv, Settled, Answered, EveryCallAnswered, Sent
<1>2. QED
  BY StreamInvariance, <1>1, PTL

----------------------------------------------------------------------------
(***************************************************************************)
(* The refinement.  The status of a call follows pc and inactive, its      *)
(* answer follows the stream; a step of the service is a step of the       *)
(* contract or leaves both unchanged.                                      *)
(***************************************************************************)

\* An unanswered call shows no answer, an answered one shows one.
LEMMA AnswerShown ==
    ASSUME TypeOK, NEW c \in Calls
    PROVE  /\ CallAnswer(c) \in {"none", "success", "failure"}
           /\ CallAnswer(c) = "none" <=> ~Answered(c)
<1>1. \A i \in DOMAIN stream[c] : stream[c][i] \in Messages
  BY ElementOfSeq, LenProperties DEF TypeOK
<1>2. \A m \in Messages : m.type \in {"info", "result", "boxes", "error", "internal"}
  BY AnswerTypes DEF Messages, Plain
<1>3. QED
  BY <1>1, <1>2 DEF CallAnswer, Answered, Sent

\* A stream that stays, or that only gets progress, shows the same answer.
LEMMA AnswerStays ==
    ASSUME TypeOK, NEW c \in Calls,
           \/ stream'[c] = stream[c]
           \/ stream' = [stream EXCEPT ![c] = Append(@, Plain("info"))]
    PROVE  CallAnswer(c)' = CallAnswer(c)
<1>1. CASE stream'[c] = stream[c]
  BY <1>1 DEF CallAnswer, Sent
<1>2. CASE stream' = [stream EXCEPT ![c] = Append(@, Plain("info"))]
  <2>1. /\ Len(stream[c]) \in Nat
        /\ DOMAIN stream[c] = 1..Len(stream[c]) /\ DOMAIN stream'[c] = 1..(Len(stream[c]) + 1)
        /\ \A i \in 1..Len(stream[c]) : stream'[c][i] = stream[c][i]
        /\ stream'[c][Len(stream[c]) + 1] = Plain("info")
    BY <1>2, MessageTypes, SendFacts
  <2>2. Sent(c)' = Sent(c) \cup {Plain("info")}
    BY <2>1 DEF Sent
  <2>3. Plain("info").type = "info"
    BY DEF Plain
  <2>4. QED
    BY <2>2, <2>3 DEF CallAnswer
<1>3. QED
  BY <1>1, <1>2

\* A step that changes nothing the contract sees.
LEMMA Stutter ==
    ASSUME \A c \in Calls : CallStatus(c)' = CallStatus(c) /\ CallAnswer(c)' = CallAnswer(c)
    PROVE  UNCHANGED <<[c \in Calls |-> CallStatus(c)], [c \in Calls |-> CallAnswer(c)]>>
  OBVIOUS

LEMMA StatusTypes ==
    \A c \in Calls : CallStatus(c) \in {"idle", "open", "closed", "broken"}
  BY DEF CallStatus

LEMMA InitRefines == Init => Abstract!Init
<1> SUFFICES ASSUME Init PROVE Abstract!Init
  OBVIOUS
<1>1. \A c \in Calls : CallStatus(c) = "idle" /\ CallAnswer(c) = "none"
  BY DEF Init, CallStatus, CallAnswer, Sent
<1>2. QED
  BY <1>1 DEF Abstract!Init

LEMMA StepRefines ==
    ControlInv /\ StreamInv /\ StreamInv' /\ [Next]_vars =>
        [Abstract!Next]_<<[c \in Calls |-> CallStatus(c)], [c \in Calls |-> CallAnswer(c)]>>
<1> SUFFICES ASSUME TypeOK, Placed, Queued, Ready, StreamInv, StreamInv', [Next]_vars
             PROVE  \/ Abstract!Next
                    \/ UNCHANGED <<[c \in Calls |-> CallStatus(c)], [c \in Calls |-> CallAnswer(c)]>>
  BY DEF ControlInv
<1> DEFINE Refined == \/ Abstract!Next
                      \/ UNCHANGED <<[c \in Calls |-> CallStatus(c)],
                                     [c \in Calls |-> CallAnswer(c)]>>
<1> USE DEF At, Goto, Answer, callVars
<1>0. /\ ProcessCalls \subseteq Calls /\ LocateCalls \subseteq Calls
      /\ \A c \in LocateCalls : c \notin ProcessCalls
      /\ pc \in [Calls -> Points] /\ inactive \subseteq Calls /\ stream \in [Calls -> Seq(Messages)]
  BY CallsAssumption DEF Calls, TypeOK
\* Steps within the life of an open or a broken call.
<1>1. ASSUME \A c \in Calls : \/ stream'[c] = stream[c]
                              \/ stream' = [stream EXCEPT ![c] = Append(@, Plain("info"))],
             inactive' = inactive,
             \A c \in Calls : \/ pc'[c] = pc[c]
                              \/ c \in inactive /\ pc[c] # "idle" /\ pc'[c] # "idle"
                              \/ pc[c] \notin {"idle", "done"} /\ pc'[c] \notin {"idle", "done"}
      PROVE  Refined
  <2>1. \A c \in Calls : CallAnswer(c)' = CallAnswer(c)
    BY <1>1, AnswerStays
  <2>2. ASSUME NEW c \in Calls PROVE CallStatus(c)' = CallStatus(c)
    <3>1. CASE pc'[c] = pc[c]
      BY <1>1, <3>1 DEF CallStatus
    <3>2. CASE c \in inactive /\ pc[c] # "idle" /\ pc'[c] # "idle"
      BY <1>1, <3>2 DEF CallStatus
    <3>3. CASE pc[c] \notin {"idle", "done"} /\ pc'[c] \notin {"idle", "done"}
      BY <1>1, <3>3 DEF CallStatus
    <3>4. QED
      BY <1>1, <3>1, <3>2, <3>3
  <2>3. QED
    BY <2>1, <2>2, Stutter
<1>2. ASSUME NEW c \in Calls, Call(c) PROVE Refined
  <2>1. c \notin inactive /\ pc[c] = "idle" /\ pc'[c] = "queued"
    BY <1>0, <1>2 DEF Call, StreamInv
  <2>2. /\ CallStatus(c) = "idle" /\ CallStatus(c)' = "open"
        /\ \A d \in Calls \ {c} : CallStatus(d)' = CallStatus(d)
    BY <1>0, <1>2, <2>1 DEF Call, CallStatus
  <2>3. \A d \in Calls : CallAnswer(d)' = CallAnswer(d)
    BY <1>2, AnswerStays DEF Call
  <2>4. Abstract!Accept(c)
    BY <2>2, <2>3 DEF Abstract!Accept
  <2>5. QED
    BY <2>4 DEF Abstract!Next
<1>3. ASSUME NEW c \in Calls, Abandon(c) PROVE Refined
  <2>1. /\ CallStatus(c) = "open" /\ CallStatus(c)' = "broken"
        /\ \A d \in Calls \ {c} : CallStatus(d)' = CallStatus(d)
    BY <1>0, <1>3 DEF Abandon, CallStatus
  <2>2. \A d \in Calls : CallAnswer(d)' = CallAnswer(d)
    BY <1>3, AnswerStays DEF Abandon
  <2>3. {c} \in SUBSET {d \in Calls : CallStatus(d) = "open"}
    BY <2>1
  <2>4. Abstract!Break
    BY <2>1, <2>2, <2>3 DEF Abstract!Break
  <2>5. QED
    BY <2>4 DEF Abstract!Next
<1>4. CASE Restart
  <2>1. \A d \in Calls : CallAnswer(d)' = CallAnswer(d)
    BY <1>4, AnswerStays DEF Restart
  <2>2. ASSUME NEW d \in Calls
        PROVE  CallStatus(d)' = IF CallStatus(d) = "open" THEN "broken" ELSE CallStatus(d)
    <3>1. CASE Open(d)
      <4>1. d \in inactive' /\ pc'[d] = "done" /\ pc[d] # "idle" /\ pc[d] # "done"
        BY <1>4, <3>1 DEF Restart, Open
      <4>2. QED
        BY <4>1 DEF CallStatus
    <3>2. CASE ~Open(d)
      <4>1. /\ pc'[d] = pc[d] /\ pc[d] \in {"idle", "done"}
            /\ d \in inactive' <=> d \in inactive
        BY <1>4, <3>2 DEF Restart, Open
      <4>2. QED
        BY <4>1 DEF CallStatus
    <3>3. QED
      BY <3>1, <3>2
  <2>3. Abstract!Break
    <3> DEFINE Cut == {d \in Calls : CallStatus(d) = "open"}
    <3>1. [d \in Calls |-> CallStatus(d)]' =
            [d \in Calls |-> IF d \in Cut THEN "broken" ELSE [e \in Calls |-> CallStatus(e)][d]]
      BY <2>2
    <3>2. Cut \in SUBSET {d \in Calls : [e \in Calls |-> CallStatus(e)][d] = "open"}
      OBVIOUS
    <3>3. [d \in Calls |-> CallAnswer(d)]' = [d \in Calls |-> CallAnswer(d)]
      BY <2>1
    <3>4. QED
      BY <3>1, <3>2, <3>3 DEF Abstract!Break
  <2>4. QED
    BY <2>3 DEF Abstract!Next
<1>5. ASSUME NEW c \in Calls, Dequeue(c) PROVE Refined
  <2>1. pc[c] = "queued"
    BY <1>5, EmptySeq, LenProperties DEF Dequeue, Queued, TypeOK
  <2>2. QED
    BY <1>0, <1>1, <1>5, <2>1 DEF Dequeue
<1>6. ASSUME NEW c \in Calls, Enter(c) \/ Resume(c) PROVE Refined
  BY <1>0, <1>1, <1>6 DEF Enter, Resume, Placed
<1>7. ASSUME NEW c \in Calls, Leave(c) PROVE Refined
  <2>1. CASE c \in inactive \/ c \notin ProcessCalls
    BY <1>0, <1>1, <1>7, <2>1 DEF Leave
  <2>2. CASE c \notin inactive /\ c \in ProcessCalls
    <3>1. /\ CallStatus(c) = "open" /\ CallStatus(c)' = "closed"
          /\ \A d \in Calls \ {c} : CallStatus(d)' = CallStatus(d)
      BY <1>0, <1>7, <2>2 DEF Leave, CallStatus
    <3>2. \A d \in Calls : CallAnswer(d)' = CallAnswer(d)
      BY <1>7, AnswerStays DEF Leave
    <3>3. CallAnswer(c) # "none"
      BY <1>7, <2>2, AnswerShown DEF Leave, StreamInv, Settled
    <3>4. Abstract!Close(c)
      BY <3>1, <3>2, <3>3 DEF Abstract!Close
    <3>5. QED
      BY <3>4 DEF Abstract!Next
  <2>3. QED
    BY <2>1, <2>2
<1>8. ASSUME NEW c \in ProcessCalls, Greet(c) \/ Relay(c) PROVE Refined
  BY <1>0, <1>1, <1>8 DEF Greet, Relay, Yield
\* The answer of a call, sent by SendAnswer or, with the end of the call, by Respond.
<1>9. ASSUME NEW c \in Calls, c \notin inactive, pc[c] \notin {"idle", "done"},
             ~Answered(c), Answered(c)', CallAnswer(c)' \in {"none", "success", "failure"},
             CallAnswer(c)' # "none",
             \A d \in Calls \ {c} : stream'[d] = stream[d] /\ pc'[d] = pc[d],
             inactive' = inactive, pc'[c] # "idle"
      PROVE  Refined
  <2>1. CallStatus(c) = "open" /\ CallStatus(c)' \in {"open", "closed"}
    BY <1>9 DEF CallStatus
  <2>2. \A d \in Calls \ {c} : CallStatus(d)' = CallStatus(d) /\ CallAnswer(d)' = CallAnswer(d)
    BY <1>9, AnswerStays DEF CallStatus
  <2>3. CallAnswer(c) = "none" /\ CallAnswer(c)' \in {"success", "failure"}
    BY <1>9, AnswerShown
  <2>4. Abstract!Reply(c)
    BY <2>1, <2>2, <2>3 DEF Abstract!Reply
  <2>5. QED
    BY <2>4 DEF Abstract!Next
<1>10. ASSUME NEW c \in Calls, ~Answered(c), NEW m \in Answers,
              stream' = [stream EXCEPT ![c] = Append(@, m)]
       PROVE  /\ Answered(c)' /\ \A d \in Calls \ {c} : stream'[d] = stream[d]
              /\ CallAnswer(c)' \in {"none", "success", "failure"} /\ CallAnswer(c)' # "none"
  <2>1. /\ Len(stream[c]) \in Nat /\ DOMAIN stream'[c] = 1..(Len(stream[c]) + 1)
        /\ stream'[c][Len(stream[c]) + 1] = m /\ \A d \in Calls \ {c} : stream'[d] = stream[d]
    BY <1>10, MessageTypes, SendFacts
  <2>2. m \in Sent(c)' /\ m.type \in {"result", "boxes", "error", "internal"}
    BY <2>1, AnswerTypes DEF Sent
  <2>3. QED
    BY <1>10, <2>1, <2>2, AnswerSent DEF CallAnswer, StreamInv
<1>11. ASSUME NEW c \in ProcessCalls, SendAnswer(c) PROVE Refined
  <2>1. CASE c \in inactive
    BY <1>0, <1>1, <1>11, <2>1 DEF SendAnswer, Yield
  <2>2. CASE c \notin inactive
    <3>1. ~Answered(c) /\ reply[c] \in Answers
      BY <1>0, <1>11 DEF SendAnswer, StreamInv, Unanswered, Ready
    <3>2. stream' = [stream EXCEPT ![c] = Append(@, reply[c])]
      BY <1>11, <2>2 DEF SendAnswer, Yield
    <3>3. pc'[c] \in {"counting", "leaving"} /\ \A d \in Calls \ {c} : pc'[d] = pc[d]
      BY <1>0, <1>11, <2>2 DEF SendAnswer, Yield
    <3>4. inactive' = inactive /\ pc[c] = "answering"
      BY <1>11 DEF SendAnswer
    <3>5. QED
      BY <1>0, <1>9, <1>10, <2>2, <3>1, <3>2, <3>3, <3>4
  <2>3. QED
    BY <2>1, <2>2
<1>12. ASSUME NEW c \in LocateCalls, Respond(c) PROVE Refined
  <2>1. CASE c \in inactive
    BY <1>0, <1>1, <1>12, <2>1 DEF Respond
  <2>2. CASE c \notin inactive
    <3>1. ~Answered(c) /\ reply[c] \in Answers
      BY <1>0, <1>12 DEF Respond, StreamInv, Unanswered, Ready
    <3>2. stream' = [stream EXCEPT ![c] = Append(@, reply[c])]
      BY <1>12, <2>2 DEF Respond
    <3>3. pc'[c] = "done" /\ \A d \in Calls \ {c} : pc'[d] = pc[d]
      BY <1>0, <1>12 DEF Respond
    <3>4. inactive' = inactive /\ pc[c] = "responding"
      BY <1>12 DEF Respond
    <3>5. QED
      BY <1>0, <1>9, <1>10, <2>2, <3>1, <3>2, <3>3, <3>4
  <2>3. QED
    BY <2>1, <2>2
<1>13. ASSUME NEW c \in ProcessCalls, Prepare(c) \/ Fetch(c) \/ Spawn(c) \/ ReadLine(c) PROVE Refined
  BY <1>0, <1>1, <1>13 DEF Prepare, Fetch, Spawn, ReadLine
<1>14. ASSUME NEW c \in ProcessCalls, Reap(c) \/ Upload(c) \/ Count(c) PROVE Refined
  BY <1>0, <1>1, <1>14 DEF Reap, Upload, Count
<1>15. ASSUME NEW c \in LocateCalls, Post(c) PROVE Refined
  BY <1>0, <1>1, <1>15 DEF Post
<1>16. ASSUME NEW c \in ProcessCalls, ChildStep(c) \/ ChildDie(c) PROVE Refined
  BY <1>1, <1>16 DEF ChildStep, ChildPrint, ChildReport, ChildExit, ChildDie
<1>17. CASE UNCHANGED vars
  BY <1>1, <1>17 DEF vars
<1>18. QED
  BY <1>2, <1>3, <1>4, <1>5, <1>6, <1>7, <1>8, <1>11, <1>12, <1>13, <1>14, <1>15, <1>16, <1>17
     DEF Next, ClientStep, Handler

\* The service is an implementation of the contract of a call.
THEOREM ServiceKeepsContract == Spec => KeepsContract
<1>1. ControlInv /\ StreamInv /\ StreamInv' /\ [Next]_vars =>
        [Abstract!Next]_<<[c \in Calls |-> CallStatus(c)], [c \in Calls |-> CallAnswer(c)]>>
  BY StepRefines
<1>2. QED
  BY InitRefines, ControlInvariance, StreamInvariance, <1>1, PTL
     DEF Spec, KeepsContract, Abstract!Contract

----------------------------------------------------------------------------
(***************************************************************************)
(* Results of the service: they need a clean exit of the child, and the    *)
(* counter of processed models follows them.                               *)
(***************************************************************************)

\* From the end of its child to the end of its stream, a result is of a child
\* that ended cleanly.
Promised(c) ==
    pc[c] = "uploading" \/ (pc[c] = "answering" /\ reply[c].type = "result") \/ SentResult(c)

CleanInv == \A c \in ProcessCalls : Promised(c) => child[c] = "clean"

LEMMA InitClean == Init => CleanInv
<1> SUFFICES ASSUME Init, NEW c \in ProcessCalls PROVE ~Promised(c)
  BY DEF CleanInv
<1>1. c \in Calls
  BY DEF Calls
<1>2. pc[c] = "idle" /\ stream[c] = <<>>
  BY <1>1 DEF Init
<1>3. QED
  BY <1>2 DEF Promised, SentResult, Sent

\* An unanswered call has sent no result.
LEMMA NoResultYet ==
    ASSUME StreamInv, NEW c \in Calls, Unanswered(c)
    PROVE  ~SentResult(c)
  BY DEF StreamInv, Answered, SentResult, Sent

\* What a message adds to the results.
LEMMA ResultSent ==
    ASSUME TypeOK, NEW c \in Calls, NEW m \in Messages,
           stream' = [stream EXCEPT ![c] = Append(@, m)]
    PROVE  /\ \A d \in Calls \ {c} : SentResult(d)' <=> SentResult(d)
           /\ SentResult(c)' <=> SentResult(c) \/ m.type = "result"
<1>1. \A d \in Calls \ {c} : stream'[d] = stream[d]
  BY SendFacts
<1>2. Sent(c)' = Sent(c) \cup {m}
  <2>1. /\ Len(stream[c]) \in Nat
        /\ DOMAIN stream[c] = 1..Len(stream[c]) /\ DOMAIN stream'[c] = 1..(Len(stream[c]) + 1)
        /\ \A i \in 1..Len(stream[c]) : stream'[c][i] = stream[c][i]
        /\ stream'[c][Len(stream[c]) + 1] = m
    BY SendFacts
  <2>2. QED
    BY <2>1 DEF Sent
<1>3. QED
  BY <1>1, <1>2 DEF SentResult, Sent

\* Progress adds no result.
LEMMA InfoIsNoResult == Plain("info") \in Messages /\ Plain("info").type # "result"
  BY MessageTypes DEF Plain

LEMMA CleanStep == ControlInv /\ StreamInv /\ CleanInv /\ [Next]_vars => CleanInv'
<1> SUFFICES ASSUME TypeOK, Placed, Queued, Ready, StreamInv, CleanInv, [Next]_vars PROVE CleanInv'
  BY DEF ControlInv
<1> USE DEF At, Goto, callVars, childVars, handlerVars
<1>0. /\ ProcessCalls \subseteq Calls /\ LocateCalls \subseteq Calls
      /\ \A c \in LocateCalls : c \notin ProcessCalls
      /\ pc \in [Calls -> Points] /\ child \in [ProcessCalls -> {"none", "running", "reported", "clean", "failed"}]
      /\ reply \in [Calls -> Answers \cup {None}]
  BY CallsAssumption DEF Calls, TypeOK
<1>1. ASSUME child' = child, \A c \in ProcessCalls : Promised(c)' => Promised(c) PROVE CleanInv'
  BY <1>1 DEF CleanInv
<1>2. ASSUME \A c \in ProcessCalls : SentResult(c)' => SentResult(c), child' = child, reply' = reply,
             \A c \in ProcessCalls : pc'[c] \in {"uploading", "answering"} => pc'[c] = pc[c]
      PROVE  CleanInv'
  BY <1>1, <1>2 DEF Promised
<1>3. ASSUME stream' = stream PROVE \A c \in ProcessCalls : SentResult(c)' <=> SentResult(c)
  BY <1>3 DEF SentResult, Sent
<1>4. ASSUME NEW c \in Calls, Call(c) \/ Abandon(c) \/ Dequeue(c) \/ Enter(c) \/ Leave(c) \/ Resume(c)
      PROVE  CleanInv'
  BY <1>0, <1>2, <1>3, <1>4 DEF Call, Abandon, Dequeue, Enter, Leave, Resume
<1>5. ASSUME NEW c \in ProcessCalls, Greet(c) \/ Relay(c) PROVE CleanInv'
  <2>1. \A d \in ProcessCalls : SentResult(d)' => SentResult(d)
    BY <1>0, <1>3, <1>5, ResultSent, InfoIsNoResult DEF Greet, Relay, Yield
  <2>2. QED
    BY <1>0, <1>2, <1>5, <2>1 DEF Greet, Relay, Yield
<1>6. ASSUME NEW c \in ProcessCalls, SendAnswer(c) PROVE CleanInv'
  <2>1. reply[c] \in Messages
    BY <1>0, <1>6, MessageTypes DEF SendAnswer, Ready
  <2>2. \A d \in ProcessCalls : SentResult(d)' => SentResult(d) \/ (d = c /\ reply[c].type = "result")
    BY <1>0, <1>3, <1>6, <2>1, ResultSent DEF SendAnswer, Yield
  <2>3. QED
    BY <1>0, <1>1, <1>6, <2>2 DEF SendAnswer, Yield, Promised
<1>7. ASSUME NEW c \in ProcessCalls, NEW type \in {"error"}, pc' = [pc EXCEPT ![c] = "answering"],
             reply' = [reply EXCEPT ![c] = Plain(type)], stream' = stream, child' = child
      PROVE  CleanInv'
  <2>1. reply'[c].type = "error" /\ \A d \in ProcessCalls \ {c} : reply'[d] = reply[d] /\ pc'[d] = pc[d]
    BY <1>0, <1>7 DEF Plain
  <2>2. pc'[c] = "answering"
    BY <1>0, <1>7
  <2>3. QED
    BY <1>1, <1>3, <1>7, <2>1, <2>2 DEF Promised
<1>8. ASSUME NEW c \in ProcessCalls, Prepare(c) \/ Fetch(c) \/ ReadLine(c) PROVE CleanInv'
  BY <1>0, <1>2, <1>3, <1>7, <1>8 DEF Prepare, Fetch, ReadLine, Answer
<1>9. ASSUME NEW c \in ProcessCalls, Spawn(c) PROVE CleanInv'
  <2>1. CASE child' = [child EXCEPT ![c] = "running"] /\ pc' = [pc EXCEPT ![c] = "reading"] /\ reply' = reply
    <3>1. ~SentResult(c)
      BY <1>0, <1>9, NoResultYet DEF Spawn, Unanswered
    <3>2. ~Promised(c)'
      BY <1>0, <1>3, <1>9, <2>1, <3>1 DEF Spawn, Promised
    <3>3. \A d \in ProcessCalls \ {c} : child'[d] = child[d] /\ (Promised(d)' => Promised(d))
      BY <1>0, <1>3, <1>9, <2>1 DEF Spawn, Promised
    <3>4. QED
      BY <3>2, <3>3 DEF CleanInv
  <2>2. QED
    BY <1>0, <1>7, <1>9, <2>1 DEF Spawn, Answer
<1>10. ASSUME NEW c \in ProcessCalls, Reap(c) PROVE CleanInv'
  <2>1. CASE child[c] = "clean" /\ pc' = [pc EXCEPT ![c] = "uploading"] /\ reply' = reply
    <3>1. child' = child /\ \A d \in ProcessCalls \ {c} : Promised(d)' => Promised(d)
      BY <1>0, <1>3, <1>10, <2>1 DEF Reap, Promised
    <3>2. QED
      BY <2>1, <3>1 DEF CleanInv
  <2>2. QED
    BY <1>0, <1>7, <1>10, <2>1 DEF Reap, Answer
<1>11. ASSUME NEW c \in ProcessCalls, Upload(c) PROVE CleanInv'
  <2>1. /\ child' = child /\ stream' = stream /\ Promised(c)
        /\ \A d \in ProcessCalls \ {c} : reply'[d] = reply[d] /\ pc'[d] = pc[d]
    BY <1>0, <1>11 DEF Upload, Answer, Promised
  <2>2. QED
    BY <1>1, <1>3, <2>1 DEF Promised
<1>12. ASSUME NEW c \in ProcessCalls, Count(c) PROVE CleanInv'
  BY <1>0, <1>2, <1>3, <1>12 DEF Count
<1>13. ASSUME NEW c \in LocateCalls, Post(c) PROVE CleanInv'
  <2>1. /\ child' = child /\ stream' = stream
        /\ \A d \in ProcessCalls : reply'[d] = reply[d] /\ pc'[d] = pc[d]
    BY <1>0, <1>13 DEF Post
  <2>2. QED
    BY <1>1, <1>3, <2>1 DEF Promised
<1>14. ASSUME NEW c \in LocateCalls, Respond(c) PROVE CleanInv'
  <2>1. /\ child' = child /\ reply' = reply
        /\ \A d \in ProcessCalls : stream'[d] = stream[d] /\ pc'[d] = pc[d]
    BY <1>0, <1>14 DEF Respond, TypeOK
  <2>2. QED
    BY <1>1, <2>1 DEF Promised, SentResult, Sent
<1>15. ASSUME NEW c \in ProcessCalls, ChildStep(c) \/ ChildDie(c) PROVE CleanInv'
  <2>1. \A d \in ProcessCalls : child[d] = "clean" => child'[d] = "clean"
    BY <1>0, <1>15 DEF ChildStep, ChildPrint, ChildReport, ChildExit, ChildDie, PrintLine, Alive
  <2>2. pc' = pc /\ reply' = reply /\ stream' = stream
    BY <1>15 DEF ChildStep, ChildPrint, ChildReport, ChildExit, ChildDie
  <2>3. QED
    BY <1>3, <2>1, <2>2 DEF CleanInv, Promised
<1>16. CASE Restart
  <2>1. \A d \in ProcessCalls : child[d] = "clean" => child'[d] = "clean"
    BY <1>0, <1>16 DEF Restart, Alive
  <2>2. \A d \in ProcessCalls : pc'[d] \notin {"uploading", "answering"}
    BY <1>0, <1>16 DEF Restart, Open
  <2>3. QED
    BY <1>3, <1>16, <2>1, <2>2 DEF Restart, CleanInv, Promised
<1>17. CASE UNCHANGED vars
  BY <1>2, <1>3, <1>17 DEF vars
<1>18. QED
  BY <1>4, <1>5, <1>6, <1>8, <1>9, <1>10, <1>11, <1>12, <1>13, <1>14, <1>15, <1>16, <1>17
     DEF Next, ClientStep, Handler

\* A report of a child that died is never returned, whatever the order of its
\* lines, its death and the steps of its handler.
THEOREM CleanExitsCorrect == Spec => []ResultNeedsCleanExit
<1>1. ControlInv /\ StreamInv /\ CleanInv /\ [Next]_vars => CleanInv'
  BY CleanStep
<1>2. CleanInv => ResultNeedsCleanExit
  BY DEF CleanInv, Promised, ResultNeedsCleanExit
<1>3. QED
  BY InitClean, ControlInvariance, StreamInvariance, <1>1, <1>2, PTL DEF Spec

----------------------------------------------------------------------------
(***************************************************************************)
(* The counter.  It is behind by the handlers between the yield of a       *)
(* result and inc(), which is why neither bound holds by itself.           *)
(***************************************************************************)
Results  == {c \in ProcessCalls : SentResult(c)}
Counting == {c \in ProcessCalls : pc[c] = "counting"}
Stayed   == {c \in ProcessCalls : SentResult(c) /\ pc[c] \in {"leaving", "done"} /\ c \notin inactive}

CountInv ==
    /\ Counting \subseteq Results
    /\ processed + Cardinality(Counting) <= Cardinality(Results)
    /\ restarts = 0 => Cardinality(Stayed) <= processed

LEMMA CountedFinite ==
    /\ IsFiniteSet(Results) /\ Cardinality(Results) \in Nat
    /\ IsFiniteSet(Counting) /\ Cardinality(Counting) \in Nat
    /\ IsFiniteSet(Stayed) /\ Cardinality(Stayed) \in Nat
<1>1. Results \subseteq ProcessCalls /\ Counting \subseteq ProcessCalls /\ Stayed \subseteq ProcessCalls
  BY DEF Results, Counting, Stayed
<1>2. QED
  BY <1>1, CallsAssumption, FS_Subset, FS_CardinalityType

LEMMA CountedFiniteNext ==
    /\ IsFiniteSet(Results') /\ Cardinality(Results') \in Nat
    /\ IsFiniteSet(Counting') /\ Cardinality(Counting') \in Nat
    /\ IsFiniteSet(Stayed') /\ Cardinality(Stayed') \in Nat
<1>1. Results' \subseteq ProcessCalls /\ Counting' \subseteq ProcessCalls /\ Stayed' \subseteq ProcessCalls
  BY DEF Results, Counting, Stayed
<1>2. QED
  BY <1>1, CallsAssumption, FS_Subset, FS_CardinalityType

LEMMA InitCount == Init => CountInv
<1> SUFFICES ASSUME Init PROVE CountInv
  OBVIOUS
<1>1. \A c \in ProcessCalls : ~SentResult(c) /\ pc[c] = "idle"
  BY DEF Init, SentResult, Sent, Calls
<1>2. Results = {} /\ Counting = {} /\ Stayed = {}
  BY <1>1 DEF Results, Counting, Stayed
<1>3. QED
  BY <1>2, FS_EmptySet DEF Init, CountInv

\* A step that counts nothing, takes no result back and lets no call end.
LEMMA CountFrame ==
    ASSUME TypeOK, CountInv, Results \subseteq Results', Counting' \subseteq Counting,
           Stayed' \subseteq Stayed, processed' = processed, restarts' = restarts
    PROVE  CountInv'
<1>1. /\ Cardinality(Results) <= Cardinality(Results')
      /\ Cardinality(Counting') <= Cardinality(Counting)
      /\ Cardinality(Stayed') <= Cardinality(Stayed)
  BY CountedFinite, CountedFiniteNext, FS_Subset
<1>2. processed \in Nat
  BY DEF TypeOK
<1>3. QED
  BY <1>1, <1>2, CountedFinite, CountedFiniteNext DEF CountInv

\* A result is sent and its handler is about to count it.
LEMMA CountAnswer ==
    ASSUME TypeOK, CountInv, NEW c, c \notin Results, Results' = Results \cup {c},
           Counting' = Counting \cup {c}, Stayed' \subseteq Stayed,
           processed' = processed, restarts' = restarts
    PROVE  CountInv'
<1>1. c \notin Counting
  BY DEF CountInv
<1>2. /\ Cardinality(Results') = Cardinality(Results) + 1
      /\ Cardinality(Counting') = Cardinality(Counting) + 1
  BY <1>1, CountedFinite, FS_AddElement
<1>3. Cardinality(Stayed') <= Cardinality(Stayed)
  BY CountedFinite, FS_Subset
<1>4. processed \in Nat
  BY DEF TypeOK
<1>5. QED
  BY <1>2, <1>3, <1>4, CountedFinite, CountedFiniteNext DEF CountInv

\* A result is counted.
LEMMA CountResult ==
    ASSUME TypeOK, CountInv, NEW c, c \in Counting, Results' = Results,
           Counting' = Counting \ {c}, Stayed' \subseteq Stayed \cup {c},
           processed' = processed + 1, restarts' = restarts
    PROVE  CountInv'
<1>1. Cardinality(Counting') = Cardinality(Counting) - 1
  BY CountedFinite, FS_RemoveElement
<1>2. Cardinality(Stayed') <= Cardinality(Stayed) + 1
  <2>1. /\ IsFiniteSet(Stayed \cup {c})
        /\ Cardinality(Stayed \cup {c}) \in {Cardinality(Stayed), Cardinality(Stayed) + 1}
    BY CountedFinite, FS_AddElement
  <2>2. Cardinality(Stayed') <= Cardinality(Stayed \cup {c})
    BY <2>1, FS_Subset
  <2>3. QED
    BY <2>1, <2>2, CountedFinite, CountedFiniteNext
<1>3. processed \in Nat
  BY DEF TypeOK
<1>4. QED
  BY <1>1, <1>2, <1>3, CountedFinite, CountedFiniteNext DEF CountInv

LEMMA CountStep == ControlInv /\ StreamInv /\ CountInv /\ [Next]_vars => CountInv'
<1> SUFFICES ASSUME TypeOK, Placed, Queued, Ready, StreamInv, CountInv, [Next]_vars PROVE CountInv'
  BY DEF ControlInv
<1> USE DEF At, Goto, callVars, gaugeVars
<1>0. /\ ProcessCalls \subseteq Calls /\ LocateCalls \subseteq Calls
      /\ \A c \in LocateCalls : c \notin ProcessCalls
      /\ pc \in [Calls -> Points]
  BY CallsAssumption DEF Calls, TypeOK
<1>1. ASSUME \A c \in ProcessCalls : SentResult(c)' <=> SentResult(c),
             \A c \in ProcessCalls : pc'[c] = "counting" => pc[c] = "counting",
             \A c \in ProcessCalls : pc'[c] \in {"leaving", "done"} /\ SentResult(c) /\ c \notin inactive' =>
                                         pc[c] \in {"leaving", "done"},
             inactive \subseteq inactive', processed' = processed, restarts' = restarts
      PROVE  CountInv'
  <2>1. Results' = Results /\ Counting' \subseteq Counting /\ Stayed' \subseteq Stayed
    BY <1>1 DEF Results, Counting, Stayed
  <2>2. QED
    BY <1>1, <2>1, CountFrame
<1>2. ASSUME stream' = stream PROVE \A c \in ProcessCalls : SentResult(c)' <=> SentResult(c)
  BY <1>2 DEF SentResult, Sent
<1>3. ASSUME NEW c \in Calls, Call(c) \/ Abandon(c) \/ Enter(c) \/ Leave(c) \/ Resume(c) PROVE CountInv'
  BY <1>0, <1>1, <1>2, <1>3 DEF Call, Abandon, Enter, Leave, Resume
<1>4. ASSUME NEW c \in Calls, Dequeue(c) PROVE CountInv'
  BY <1>0, <1>1, <1>2, <1>4 DEF Dequeue
<1>5. ASSUME NEW c \in ProcessCalls, Greet(c) \/ Relay(c) PROVE CountInv'
  <2>1. \A d \in ProcessCalls : SentResult(d)' <=> SentResult(d)
    BY <1>0, <1>2, <1>5, ResultSent, InfoIsNoResult DEF Greet, Relay, Yield
  <2>2. QED
    BY <1>0, <1>1, <1>5, <2>1 DEF Greet, Relay, Yield
<1>6. ASSUME NEW c \in ProcessCalls, SendAnswer(c) PROVE CountInv'
  <2>1. ~SentResult(c) /\ reply[c] \in Messages
    BY <1>0, <1>6, NoResultYet, MessageTypes DEF SendAnswer, Ready, Unanswered
  <2>2. CASE c \in inactive
    BY <1>0, <1>1, <1>2, <1>6, <2>2 DEF SendAnswer, Yield
  <2>3. CASE c \notin inactive
    <3>1. /\ \A d \in ProcessCalls \ {c} : SentResult(d)' <=> SentResult(d)
          /\ SentResult(c)' <=> reply[c].type = "result"
      BY <1>0, <1>6, <2>1, <2>3, ResultSent DEF SendAnswer, Yield
    <3>2. /\ pc' = [pc EXCEPT ![c] = IF reply[c].type = "result" THEN "counting" ELSE "leaving"]
          /\ pc[c] = "answering" /\ inactive' = inactive /\ processed' = processed /\ restarts' = restarts
      BY <1>6, <2>3 DEF SendAnswer, Yield
    <3>3. CASE reply[c].type = "result"
      <4>1. /\ Results' = Results \cup {c} /\ c \notin Results
            /\ Counting' = Counting \cup {c} /\ Stayed' \subseteq Stayed
        BY <1>0, <2>1, <3>1, <3>2, <3>3 DEF Results, Counting, Stayed
      <4>2. QED
        BY <3>2, <4>1, CountAnswer
    <3>4. CASE reply[c].type # "result"
      BY <1>0, <1>1, <2>1, <3>1, <3>2, <3>4
    <3>5. QED
      BY <3>3, <3>4
  <2>4. QED
    BY <2>2, <2>3
<1>7. ASSUME NEW c \in ProcessCalls, Count(c) PROVE CountInv'
  <2>1. /\ Results' = Results /\ c \in Counting /\ Counting' = Counting \ {c}
        /\ Stayed' \subseteq Stayed \cup {c}
    BY <1>0, <1>2, <1>7 DEF Count, Results, Counting, Stayed
  <2>2. processed' = processed + 1 /\ restarts' = restarts
    BY <1>7 DEF Count
  <2>3. QED
    BY <2>1, <2>2, CountResult
<1>8. ASSUME NEW c \in ProcessCalls, Prepare(c) \/ Fetch(c) \/ Spawn(c) \/ ReadLine(c) \/ Reap(c) \/ Upload(c)
      PROVE  CountInv'
  BY <1>0, <1>1, <1>2, <1>8 DEF Prepare, Fetch, Spawn, ReadLine, Reap, Upload, Answer
<1>9. ASSUME NEW c \in LocateCalls, Post(c) PROVE CountInv'
  BY <1>0, <1>1, <1>2, <1>9 DEF Post
<1>10. ASSUME NEW c \in LocateCalls, Respond(c) PROVE CountInv'
  <2>1. \A d \in ProcessCalls : stream'[d] = stream[d] /\ pc'[d] = pc[d]
    BY <1>0, <1>10 DEF Respond, TypeOK
  <2>2. \A d \in ProcessCalls : SentResult(d)' <=> SentResult(d)
    BY <2>1 DEF SentResult, Sent
  <2>3. QED
    BY <1>1, <1>10, <2>1, <2>2 DEF Respond
<1>11. ASSUME NEW c \in ProcessCalls, ChildStep(c) \/ ChildDie(c) PROVE CountInv'
  BY <1>1, <1>2, <1>11 DEF ChildStep, ChildPrint, ChildReport, ChildExit, ChildDie
<1>12. CASE Restart
  <2>1. Results' = Results /\ Counting' = {}
    BY <1>0, <1>2, <1>12 DEF Restart, Open, Results, Counting
  <2>2. processed' = 0 /\ restarts' # 0
    BY <1>12 DEF Restart, TypeOK
  <2>3. QED
    BY <2>1, <2>2, CountedFinite, FS_EmptySet DEF CountInv
<1>13. CASE UNCHANGED vars
  BY <1>1, <1>2, <1>13 DEF vars
<1>14. QED
  BY <1>3, <1>4, <1>5, <1>6, <1>7, <1>8, <1>9, <1>10, <1>11, <1>12, <1>13 DEF Next, ClientStep, Handler

\* The counter is never ahead of the results that were sent, and behind them
\* only by clients that left, calls that have not ended and restarts.
THEOREM CounterCorrect == Spec => []ProcessedCountsResults
<1>1. ControlInv /\ StreamInv /\ CountInv /\ [Next]_vars => CountInv'
  BY CountStep
<1>2. TypeOK /\ CountInv => ProcessedCountsResults
  <2> SUFFICES ASSUME TypeOK, CountInv PROVE ProcessedCountsResults
    OBVIOUS
  <2> DEFINE Ended == {c \in ProcessCalls : SentResult(c) /\ pc[c] = "done" /\ c \notin inactive}
  <2>1. Ended \subseteq Stayed
    BY DEF Stayed
  <2>2. Cardinality(Ended) <= Cardinality(Stayed) /\ Cardinality(Ended) \in Nat
    BY <2>1, CountedFinite, FS_Subset, FS_CardinalityType
  <2>3. processed \in Nat /\ processed <= Cardinality(Results)
    BY CountedFinite DEF CountInv, TypeOK
  <2>4. restarts = 0 => processed >= Cardinality(Ended)
    BY <2>2, <2>3, CountedFinite DEF CountInv
  <2>5. QED
    BY <2>3, <2>4 DEF ProcessedCountsResults, Results
<1>3. QED
  BY InitCount, ControlInvariance, TypeCorrect, StreamInvariance, <1>1, <1>2, PTL DEF Spec
=============================================================================
