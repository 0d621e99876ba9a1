----------------------------- MODULE CoreService -----------------------------
(***************************************************************************)
(* The gRPC service of nequ3d-core/rpc_server.py: the handlers of the      *)
(* streaming RPC ProcessModel and of the unary RPC LocateObjects, run by   *)
(* one thread pool, together with what they share: the two Prometheus      *)
(* gauges, the workspace directory, the child processes they start and the *)
(* bucket "processed-models".                                              *)
(*                                                                         *)
(* A handler is a Python generator or function, so its thread is at one    *)
(* control point, pc[c], at a time; every step between two control points  *)
(* can interleave with the other threads, with the child processes, and    *)
(* with the client giving up.  gRPC tells a generator that the client is   *)
(* gone only at a yield: the generator is closed there, its "finally"      *)
(* runs, and the child process it started is left alone: it is not killed, *)
(* and its stdout pipe stays open, for Python keeps a process nobody waited*)
(* for, with its pipe, in a list of its own.                               *)
(***************************************************************************)
EXTENDS Integers, Sequences, FiniteSets

CONSTANTS
    ProcessCalls,   \* the calls of ProcessModel that clients may make
    LocateCalls,    \* the calls of LocateObjects that clients may make
    Names,          \* the file names a request may carry
    PlainNames,     \* those that pass the check "must be a plain file name"
    Models,         \* the models stored in the bucket "raw-scans"
    Dirs,           \* the directory names mkdtemp can return
    ObjectKeys,     \* the keys uuid4 can give an uploaded proxy
    None,           \* absence of a model, a directory, a key, a report
    MaxWorkers,     \* the size of the thread pool (10 in serve)
    MaxLines,       \* bound: progress lines one child prints
    PipeSize,       \* bound: lines the stdout pipe of a child holds
    MaxRestarts     \* bound: how often the Core container is restarted

Calls == ProcessCalls \cup LocateCalls

ASSUME CallsAssumption ==
    /\ IsFiniteSet(ProcessCalls) /\ IsFiniteSet(LocateCalls)
    /\ ProcessCalls \cap LocateCalls = {}

ASSUME NoneAssumption ==
    None \notin Models \cup Dirs \cup ObjectKeys

ASSUME BoundsAssumption ==
    /\ PlainNames \subseteq Names
    /\ MaxWorkers \in Nat \ {0} /\ PipeSize \in Nat \ {0}
    /\ MaxLines \in Nat /\ MaxRestarts \in Nat

VARIABLES
    request,        \* request[c]: the file name and the model a call names
    pc,             \* pc[c]: the control point of the call's handler
    suspended,      \* the handlers waiting in a yield to be resumed
    inactive,       \* the calls whose client is gone: cancelled or cut off
    queue,          \* accepted calls waiting for a thread of the pool
    active,         \* gauge ACTIVE_GRPC_REQUESTS
    processed,      \* gauge PROCESSED_MODELS
    model_dir,      \* model_dir[c]: the directory mkdtemp made for the call
    telemetry_json, \* telemetry_json[c]: the last report line read
    reply,          \* reply[c]: the message the handler is about to send
    stream,         \* stream[c]: the messages sent to the client, in order
    child,          \* child[c]: the state of process_usd_file.py
    todo,           \* todo[c]: lines the child will still print
    pipe,           \* pipe[c]: lines in the child's stdout pipe
    files,          \* files[d, n]: the model stored under the name n in d
    proxies,        \* proxies[d, n]: the model the proxy GLB was made from
    bucket,         \* bucket[k]: the model of the proxy stored under k
    restarts        \* restarts of the Core container so far

handlerVars == <<model_dir, telemetry_json, reply>>
childVars   == <<child, todo, pipe>>
storeVars   == <<files, proxies, bucket>>
gaugeVars   == <<active, processed>>
callVars    == <<pc, suspended, inactive, queue, stream>>
vars == <<request, callVars, gaugeVars, handlerVars, childVars, storeVars, restarts>>

Paths == Dirs \X Names
Path(c) == <<model_dir[c], request[c].file_name>>

(***************************************************************************)
(* Messages of the stream: ProcessModelResponse by its update_type, and    *)
(* the two outcomes of a LocateObjects call.                               *)
(***************************************************************************)
Plain(type) == [type |-> type, model |-> None, key |-> None]
Result(model, key) == [type |-> "result", model |-> model, key |-> key]
Answers == {Plain("error"), Plain("boxes"), Plain("internal")}
             \cup {Result(m, k) : m \in Models, k \in ObjectKeys \cup {None}}
Messages == Answers \cup {Plain("info")}

\* A line of the child's output: progress, or "Telemetry: {...}".
Log == [kind |-> "log", model |-> None, proxy |-> FALSE]
Report(model, made) == [kind |-> "telemetry", model |-> model, proxy |-> made]
Reports == {Report(m, b) : m \in Models, b \in BOOLEAN}

ASSUME NoMessageAssumption == None \notin Answers \cup Reports

(***************************************************************************)
(* Control points.  The gauge counts the calls in HandlerPoints; a thread  *)
(* of the pool is held at the ThreadPoints.                                *)
(***************************************************************************)
ProcessPoints == {"greeting", "preparing", "fetching", "spawning", "reading",
                  "relaying", "uploading", "answering", "counting"}
HandlerPoints == ProcessPoints \cup {"posting", "leaving"}
ThreadPoints  == HandlerPoints \cup {"entering", "responding"}
Points        == ThreadPoints \cup {"idle", "queued", "done"}

InHandler == {c \in Calls : pc[c] \in HandlerPoints}
OnThread  == {c \in Calls : pc[c] \in ThreadPoints}

Alive(c) == child[c] \in {"running", "reported"}

Init ==
    /\ request \in [ProcessCalls -> [file_name : Names, model : Models]]
    /\ pc = [c \in Calls |-> "idle"]
    /\ suspended = {} /\ inactive = {} /\ queue = <<>>
    /\ active = 0 /\ processed = 0
    /\ model_dir = [c \in ProcessCalls |-> None]
    /\ telemetry_json = [c \in ProcessCalls |-> None]
    /\ reply = [c \in Calls |-> None]
    /\ stream = [c \in Calls |-> <<>>]
    /\ child = [c \in ProcessCalls |-> "none"]
    /\ todo = [c \in ProcessCalls |-> 0]
    /\ pipe = [c \in ProcessCalls |-> <<>>]
    /\ files = [p \in Paths |-> None]
    /\ proxies = [p \in Paths |-> None]
    /\ bucket = [k \in ObjectKeys |-> None]
    /\ restarts = 0

----------------------------------------------------------------------------
(***************************************************************************)
(* Clients and the gRPC runtime.                                           *)
(***************************************************************************)

\* A client makes a call; the pool queues it.
Call(c) ==
    /\ pc[c] = "idle"
    /\ pc' = [pc EXCEPT ![c] = "queued"]
    /\ queue' = Append(queue, c)
    /\ UNCHANGED <<request, suspended, inactive, stream, gaugeVars, handlerVars,
                   childVars, storeVars, restarts>>

\* The client cancels, its deadline expires or its connection breaks.
Abandon(c) ==
    /\ pc[c] \notin {"idle", "done"} /\ c \notin inactive
    /\ inactive' = inactive \cup {c}
    /\ UNCHANGED <<request, pc, suspended, queue, stream, gaugeVars, handlerVars,
                   childVars, storeVars, restarts>>

\* A free thread takes the oldest queued call.  A call whose client is
\* already gone has no request to hand over, and its handler never runs.
Dequeue(c) ==
    /\ queue # <<>> /\ c = Head(queue)
    /\ Cardinality(OnThread) < MaxWorkers
    /\ queue' = Tail(queue)
    /\ pc' = [pc EXCEPT ![c] = IF c \in inactive THEN "done" ELSE "entering"]
    /\ UNCHANGED <<request, suspended, inactive, stream, gaugeVars, handlerVars,
                   childVars, storeVars, restarts>>

\* "yield m", to continue at next: sent and suspended, or, when the client
\* is gone, the generator is closed at this yield.
Yield(c, m, next) ==
    /\ c \notin suspended
    /\ \/ /\ c \notin inactive
          /\ stream' = [stream EXCEPT ![c] = Append(@, m)]
          /\ suspended' = suspended \cup {c}
          /\ pc' = [pc EXCEPT ![c] = next]
       \/ /\ c \in inactive
          /\ pc' = [pc EXCEPT ![c] = "leaving"]
          /\ UNCHANGED <<stream, suspended>>

\* Faulty variant of Resume: the decrement is the last statement of the body
\* instead of a "finally", so a closed generator skips it.
ResumeWithoutFinally(c) ==
    /\ c \in suspended
    /\ suspended' = suspended \ {c}
    /\ pc' = [pc EXCEPT ![c] = IF c \in inactive THEN "done" ELSE @]
    /\ UNCHANGED <<request, inactive, queue, stream, gaugeVars, handlerVars,
                   childVars, storeVars, restarts>>

\* gRPC asks the generator for its next message, or closes it.
Resume(c) ==
    /\ c \in suspended
    /\ suspended' = suspended \ {c}
    /\ pc' = [pc EXCEPT ![c] = IF c \in inactive THEN "leaving" ELSE @]
    /\ UNCHANGED <<request, inactive, queue, stream, gaugeVars, handlerVars,
                   childVars, storeVars, restarts>>

----------------------------------------------------------------------------
(***************************************************************************)
(* The handler of ProcessModel.                                            *)
(***************************************************************************)
At(c, point) == pc[c] = point /\ c \notin suspended
Goto(c, point) == pc' = [pc EXCEPT ![c] = point]

\* Prepare to send m: the last message of every path but the closed one.
Answer(c, m) ==
    /\ reply' = [reply EXCEPT ![c] = m]
    /\ Goto(c, "answering")

\* ACTIVE_GRPC_REQUESTS.inc(), the first statement of both handlers.
Enter(c) ==
    /\ At(c, "entering")
    /\ active' = active + 1
    /\ Goto(c, IF c \in ProcessCalls THEN "greeting" ELSE "posting")
    /\ UNCHANGED <<request, suspended, inactive, queue, stream, processed,
                   handlerVars, childVars, storeVars, restarts>>

\* The first message: "Starting model processing".
Greet(c) ==
    /\ At(c, "greeting")
    /\ Yield(c, Plain("info"), "preparing")
    /\ UNCHANGED <<request, inactive, queue, gaugeVars, handlerVars, childVars,
                   storeVars, restarts>>

\* Faulty variant of FreshDir: every job works in the shared workspace.
SharedDir(d) == TRUE

\* mkdtemp returns a directory nobody has.
FreshDir(d) == \A c \in ProcessCalls : model_dir[c] # d

\* Check the file name and make the job's own directory; a bad name, or a
\* full or read-only workspace, raises.
Prepare(c) ==
    /\ At(c, "preparing")
    /\ \/ /\ request[c].file_name \in PlainNames
          /\ \E d \in Dirs : FreshDir(d) /\ model_dir' = [model_dir EXCEPT ![c] = d]
          /\ Goto(c, "fetching")
          /\ UNCHANGED reply
       \/ /\ Answer(c, Plain("error"))
          /\ UNCHANGED model_dir
    /\ UNCHANGED <<request, suspended, inactive, queue, stream, gaugeVars,
                   telemetry_json, childVars, storeVars, restarts>>

\* download_file("raw-scans", ...): it raises when the object is missing or
\* MinIO does not answer.
Fetch(c) ==
    /\ At(c, "fetching")
    /\ \/ /\ files' = [files EXCEPT ![Path(c)] = request[c].model]
          /\ Goto(c, "spawning")
          /\ UNCHANGED reply
       \/ /\ Answer(c, Plain("error"))
          /\ UNCHANGED files
    /\ UNCHANGED <<request, suspended, inactive, queue, stream, gaugeVars,
                   model_dir, telemetry_json, childVars, proxies, bucket, restarts>>

\* Popen of process_usd_file.py, or the exception it raises.
Spawn(c) ==
    /\ At(c, "spawning")
    /\ \/ /\ child' = [child EXCEPT ![c] = "running"]
          /\ \E n \in 0..MaxLines : todo' = [todo EXCEPT ![c] = n]
          /\ Goto(c, "reading")
          /\ UNCHANGED reply
       \/ /\ Answer(c, Plain("error"))
          /\ UNCHANGED <<child, todo>>
    /\ UNCHANGED <<request, suspended, inactive, queue, stream, gaugeVars,
                   model_dir, telemetry_json, pipe, storeVars, restarts>>

\* Faulty variant of ReadLine: process.wait() comes before the loop.
ReadLineAfterWait(c) ==
    /\ At(c, "reading") /\ pipe[c] # <<>> /\ child[c] \in {"clean", "failed"}
    /\ pipe' = [pipe EXCEPT ![c] = Tail(@)]
    /\ \/ /\ Head(pipe[c]).kind = "telemetry"
          /\ telemetry_json' = [telemetry_json EXCEPT ![c] = Head(pipe[c])]
          /\ UNCHANGED pc
       \/ /\ Head(pipe[c]).kind = "log"
          /\ Goto(c, "relaying")
          /\ UNCHANGED telemetry_json
    /\ UNCHANGED <<request, suspended, inactive, queue, stream, gaugeVars, reply,
                   model_dir, child, todo, storeVars, restarts>>

\* One iteration of "for line in process.stdout": a report is remembered, any
\* other line is relayed, and one that does not decode as text raises.
ReadLine(c) ==
    /\ At(c, "reading") /\ pipe[c] # <<>>
    /\ pipe' = [pipe EXCEPT ![c] = Tail(@)]
    /\ LET line == Head(pipe[c]) IN
       \/ /\ line.kind = "telemetry"
          /\ telemetry_json' = [telemetry_json EXCEPT ![c] = line]
          /\ UNCHANGED <<pc, reply>>
       \/ /\ line.kind = "log"
          /\ Goto(c, "relaying")
          /\ UNCHANGED <<telemetry_json, reply>>
       \/ /\ line.kind = "log"
          /\ Answer(c, Plain("error"))
          /\ UNCHANGED telemetry_json
    /\ UNCHANGED <<request, suspended, inactive, queue, stream, gaugeVars,
                   model_dir, child, todo, storeVars, restarts>>

Relay(c) ==
    /\ At(c, "relaying")
    /\ Yield(c, Plain("info"), "reading")
    /\ UNCHANGED <<request, inactive, queue, gaugeVars, handlerVars, childVars,
                   storeVars, restarts>>

\* Faulty variants of Reap: the return code is not looked at; a child without a
\* report ends the stream silently.
ReapAnyCode(c) ==
    /\ At(c, "reading") /\ pipe[c] = <<>> /\ child[c] \in {"clean", "failed"}
    /\ \/ telemetry_json[c] # None /\ Goto(c, "uploading") /\ UNCHANGED reply
       \/ telemetry_json[c] = None /\ Answer(c, Plain("error"))
    /\ UNCHANGED <<request, suspended, inactive, queue, stream, gaugeVars,
                   model_dir, telemetry_json, childVars, storeVars, restarts>>
ReapSilently(c) ==
    /\ At(c, "reading") /\ pipe[c] = <<>> /\ child[c] \in {"clean", "failed"}
    /\ \/ /\ child[c] = "clean" /\ UNCHANGED reply
          /\ Goto(c, IF telemetry_json[c] # None THEN "uploading" ELSE "leaving")
       \/ child[c] = "failed" /\ Answer(c, Plain("error"))
    /\ UNCHANGED <<request, suspended, inactive, queue, stream, gaugeVars,
                   model_dir, telemetry_json, childVars, storeVars, restarts>>

\* The end of the child's output, process.wait() and the three outcomes: a
\* failed child, a report to return, a child that ended without a report.
Reap(c) ==
    /\ At(c, "reading") /\ pipe[c] = <<>> /\ child[c] \in {"clean", "failed"}
    /\ \/ /\ child[c] = "clean" /\ telemetry_json[c] # None
          /\ Goto(c, "uploading")
          /\ UNCHANGED reply
       \/ /\ child[c] = "failed" \/ telemetry_json[c] = None
          /\ Answer(c, Plain("error"))
    /\ UNCHANGED <<request, suspended, inactive, queue, stream, gaugeVars,
                   model_dir, telemetry_json, childVars, storeVars, restarts>>

\* Faulty variant of FreshKey: the key is the base name of the proxy.
BaseNameKey(k) == TRUE

\* uuid4 gives a key no object has.
FreshKey(k) == bucket[k] = None

\* Upload the proxy the report names, if it exists.  Every exception here is
\* only logged: the result is then sent without a key.  A failed upload may
\* still have stored the object (the answer of MinIO was lost).
Upload(c) ==
    /\ At(c, "uploading")
    /\ LET made == telemetry_json[c].proxy /\ proxies[Path(c)] # None
           send(key) == Answer(c, Result(telemetry_json[c].model, key))
           put(k) == FreshKey(k) /\ bucket' = [bucket EXCEPT ![k] = proxies[Path(c)]]
       IN \/ made /\ \E k \in ObjectKeys : put(k) /\ send(k)
          \/ made /\ \E k \in ObjectKeys : put(k) /\ send(None)
          \/ send(None) /\ UNCHANGED bucket
    /\ UNCHANGED <<request, suspended, inactive, queue, stream, gaugeVars,
                   model_dir, telemetry_json, childVars, files, proxies, restarts>>

\* Faulty variants of SendAnswer: no "return" after the error of a failed child;
\* the result is counted before it is sent.
SendAnswerAndGoOn(c) ==
    /\ At(c, "answering")
    /\ Yield(c, reply[c], IF reply[c].type = "result" THEN "counting"
                          ELSE IF telemetry_json[c] # None THEN "uploading" ELSE "leaving")
    /\ UNCHANGED <<request, inactive, queue, gaugeVars, handlerVars, childVars,
                   storeVars, restarts>>
SendAnswerCounted(c) ==
    /\ At(c, "answering")
    /\ Yield(c, reply[c], "leaving")
    /\ processed' = IF reply[c].type = "result" THEN processed + 1 ELSE processed
    /\ UNCHANGED <<request, inactive, queue, active, handlerVars, childVars,
                   storeVars, restarts>>

\* Yield the result or the error.  Only a result has a statement after it.
SendAnswer(c) ==
    /\ At(c, "answering")
    /\ Yield(c, reply[c], IF reply[c].type = "result" THEN "counting" ELSE "leaving")
    /\ UNCHANGED <<request, inactive, queue, gaugeVars, handlerVars, childVars,
                   storeVars, restarts>>

\* Faulty variant of Count: the wrong method of the gauge.
CountDown(c) ==
    /\ At(c, "counting")
    /\ processed' = processed - 1
    /\ Goto(c, "leaving")
    /\ UNCHANGED <<request, suspended, inactive, queue, stream, active, handlerVars,
                   childVars, storeVars, restarts>>

\* PROCESSED_MODELS.inc(), when gRPC resumed the generator after the result.
Count(c) ==
    /\ At(c, "counting")
    /\ processed' = processed + 1
    /\ Goto(c, "leaving")
    /\ UNCHANGED <<request, suspended, inactive, queue, stream, active, handlerVars,
                   childVars, storeVars, restarts>>

\* finally: ACTIVE_GRPC_REQUESTS.dec(), in both handlers.
Leave(c) ==
    /\ At(c, "leaving")
    /\ active' = active - 1
    /\ Goto(c, IF c \in ProcessCalls THEN "done" ELSE "responding")
    /\ UNCHANGED <<request, suspended, inactive, queue, stream, processed,
                   handlerVars, childVars, storeVars, restarts>>

----------------------------------------------------------------------------
(***************************************************************************)
(* The handler of LocateObjects: one HTTP request with a timeout, and one  *)
(* response, which gRPC sends after the handler has returned.              *)
(***************************************************************************)
Post(c) ==
    /\ At(c, "posting")
    /\ \E type \in {"boxes", "internal"} : reply' = [reply EXCEPT ![c] = Plain(type)]
    /\ Goto(c, "leaving")
    /\ UNCHANGED <<request, suspended, inactive, queue, stream, gaugeVars,
                   model_dir, telemetry_json, childVars, storeVars, restarts>>

Respond(c) ==
    /\ At(c, "responding")
    /\ stream' = IF c \in inactive THEN stream
                 ELSE [stream EXCEPT ![c] = Append(@, reply[c])]
    /\ Goto(c, "done")
    /\ UNCHANGED <<request, suspended, inactive, queue, gaugeVars, handlerVars,
                   childVars, storeVars, restarts>>

----------------------------------------------------------------------------
(***************************************************************************)
(* The child process.  It prints progress, then writes the proxy beside    *)
(* its input and prints the report; it may end without a report, and it    *)
(* may die at any moment.  Printing blocks while the pipe is full, whether *)
(* or not somebody still reads it: the Core never closes its read end.     *)
(***************************************************************************)
CanPrint(c) == Len(pipe[c]) < PipeSize

\* print(line), after which the child is in state next.
PrintLine(c, line, next) ==
    /\ pipe' = [pipe EXCEPT ![c] = Append(@, line)]
    /\ child' = [child EXCEPT ![c] = next]

ChildPrint(c) ==
    /\ child[c] = "running" /\ todo[c] > 0 /\ CanPrint(c)
    /\ todo' = [todo EXCEPT ![c] = @ - 1]
    /\ PrintLine(c, Log, "running")
    /\ UNCHANGED <<request, callVars, gaugeVars, handlerVars, storeVars, restarts>>

ChildReport(c) ==
    /\ child[c] = "running" /\ todo[c] = 0 /\ CanPrint(c)
    /\ \E made \in BOOLEAN :
         /\ proxies' = IF made THEN [proxies EXCEPT ![Path(c)] = files[Path(c)]]
                       ELSE proxies
         /\ PrintLine(c, Report(files[Path(c)], made), "reported")
    /\ UNCHANGED <<request, callVars, gaugeVars, handlerVars, todo, files, bucket,
                   restarts>>

\* The script ends: after its report, or without one (the stage did not open).
ChildExit(c) ==
    /\ \/ child[c] = "reported"
       \/ child[c] = "running" /\ todo[c] = 0
    /\ child' = [child EXCEPT ![c] = "clean"]
    /\ UNCHANGED <<request, callVars, gaugeVars, handlerVars, todo, pipe, storeVars,
                   restarts>>

\* An uncaught exception, a signal, the GPU driver: a nonzero return code.
ChildDie(c) ==
    /\ Alive(c)
    /\ child' = [child EXCEPT ![c] = "failed"]
    /\ UNCHANGED <<request, callVars, gaugeVars, handlerVars, todo, pipe, storeVars,
                   restarts>>

----------------------------------------------------------------------------
(***************************************************************************)
(* The Core container is stopped and started again: its threads, children  *)
(* and gauges are gone, its calls are cut off; the bind-mounted workspace  *)
(* and the bucket stay.                                                    *)
(***************************************************************************)
Open(c) == pc[c] \notin {"idle", "done"}

Restart ==
    /\ restarts < MaxRestarts
    /\ restarts' = restarts + 1
    /\ inactive' = inactive \cup {c \in Calls : Open(c)}
    /\ pc' = [c \in Calls |-> IF Open(c) THEN "done" ELSE pc[c]]
    /\ suspended' = {} /\ queue' = <<>> /\ active' = 0 /\ processed' = 0
    /\ child' = [c \in ProcessCalls |-> IF Alive(c) THEN "failed" ELSE child[c]]
    /\ UNCHANGED <<request, stream, handlerVars, todo, pipe, storeVars>>

----------------------------------------------------------------------------
ClientStep(c) == Call(c) \/ Abandon(c)

Handler(c) ==
    \/ Dequeue(c) \/ Enter(c) \/ Leave(c) \/ Resume(c)
    \/ c \in ProcessCalls /\
         \/ Greet(c) \/ Prepare(c) \/ Fetch(c) \/ Spawn(c) \/ ReadLine(c)
         \/ Relay(c) \/ Reap(c) \/ Upload(c) \/ SendAnswer(c) \/ Count(c)
    \/ c \in LocateCalls /\ (Post(c) \/ Respond(c))

\* What the script does when nothing kills it.
ChildStep(c) == ChildPrint(c) \/ ChildReport(c) \/ ChildExit(c)

\* Nothing is left to do: every call was made and has ended, no child runs.
Quiet ==
    /\ \A c \in Calls : pc[c] = "done"
    /\ \A c \in ProcessCalls : ~Alive(c)

Next ==
    \/ \E c \in Calls : ClientStep(c) \/ Handler(c)
    \/ \E c \in ProcessCalls : ChildStep(c) \/ ChildDie(c)
    \/ Restart
    \/ Quiet /\ UNCHANGED vars

Spec == Init /\ [][Next]_vars

\* The threads of the pool run, the script of a child makes progress when it
\* is not blocked; nobody has to call, to give up, to die or to restart.
Fairness ==
    /\ \A c \in Calls : WF_vars(Handler(c))
    /\ \A c \in ProcessCalls : WF_vars(ChildStep(c))

FairSpec == Spec /\ Fairness
----------------------------------------------------------------------------
(***************************************************************************)
(* Properties.                                                             *)
(***************************************************************************)

\* Every variable has its type.
TypeOK ==
    /\ request \in [ProcessCalls -> [file_name : Names, model : Models]]
    /\ pc \in [Calls -> Points]
    /\ suspended \subseteq Calls /\ inactive \subseteq Calls
    /\ queue \in Seq(Calls)
    /\ active \in Int /\ processed \in Nat
    /\ model_dir \in [ProcessCalls -> Dirs \cup {None}]
    /\ telemetry_json \in [ProcessCalls -> Reports \cup {None}]
    /\ reply \in [Calls -> Answers \cup {None}]
    /\ stream \in [Calls -> Seq(Messages)]
    /\ child \in [ProcessCalls -> {"none", "running", "reported", "clean", "failed"}]
    /\ todo \in [ProcessCalls -> Nat]
    /\ pipe \in [ProcessCalls -> Seq(Reports \cup {Log})]
    /\ files \in [Paths -> Models \cup {None}]
    /\ proxies \in [Paths -> Models \cup {None}]
    /\ bucket \in [ObjectKeys -> Models \cup {None}]
    /\ restarts \in Nat

\* The gauge of active requests is the number of handlers between their first
\* and their last statement, however each of them ends (the "finally" of
\* both handlers; test_rpc_server.py: a failed download, a closed stream).
GaugeCountsHandlers == active = Cardinality(InHandler)

Sent(c) == {stream[c][i] : i \in DOMAIN stream[c]}
SentResult(c) == \E m \in Sent(c) : m.type = "result"

\* A result or an error is the last message of its stream: no progress and no
\* second answer follows it (the "return" after a failed child, the "else").
AnswerIsLast ==
    \A c \in Calls : \A i \in DOMAIN stream[c] :
        stream[c][i].type # "info" => i = Len(stream[c])

\* A call that ended with its client still there was given an answer,
\* whichever step failed: no path of the handler ends the stream silently.
EveryCallAnswered ==
    \A c \in Calls : pc[c] = "done" /\ c \notin inactive =>
        \E m \in Sent(c) : m.type # "info"

\* A result reports on the model its request named, and the object it points
\* to is in the bucket and was made from that model, whatever other requests
\* with the same file name are doing (model_dir, upload_key).
ResultIsOfRequest ==
    \A c \in ProcessCalls : \A m \in Sent(c) :
        m.type = "result" =>
            /\ m.model = request[c].model
            /\ m.key # None => bucket[m.key] = request[c].model

\* Only a child that ended with code 0 leads to a result: a report printed by
\* a child that then died is not returned.
ResultNeedsCleanExit ==
    \A c \in ProcessCalls : SentResult(c) => child[c] = "clean"

\* The counter of processed models never exceeds the results that were sent,
\* and lacks none whose client stayed to the end of the call (restarts, which
\* reset it, apart).
ProcessedCountsResults ==
    /\ processed <= Cardinality({c \in ProcessCalls : SentResult(c)})
    /\ restarts = 0 =>
         processed >= Cardinality({c \in ProcessCalls :
                          SentResult(c) /\ pc[c] = "done" /\ c \notin inactive})

\* "Each request owns a directory; keep artifacts for local preview": no step
\* of another job replaces a stored model, a proxy or an uploaded object.
ArtifactsKept ==
    [][ /\ \A p \in Paths : files[p] # None => files'[p] = files[p]
        /\ \A p \in Paths : proxies[p] # None => proxies'[p] = proxies[p]
        /\ \A k \in ObjectKeys : bucket[k] # None => bucket'[k] = bucket[k] ]_vars

\* The handler of a living child has left the loop that reads its lines: the
\* client is gone, or a line did not decode.
Unread(c) == Alive(c) /\ pc[c] \notin {"reading", "relaying"}

\* A child ends, or it is one its handler left and its output has filled the
\* pipe: such a child waits in print until the container is stopped, since
\* nobody reads, closes or kills it.  No child whose lines are read is stuck,
\* and one that was left with room in its pipe comes to its end.
ChildrenEndOrFill ==
    \A c \in ProcessCalls :
        Alive(c) ~> ~Alive(c) \/ (Unread(c) /\ Len(pipe[c]) = PipeSize)

(***************************************************************************)
(* The contract of a call, read off the service's state.                   *)
(***************************************************************************)
CallStatus(c) ==
    IF pc[c] = "idle" THEN "idle"
    ELSE IF c \in inactive THEN "broken"
    ELSE IF pc[c] = "done" THEN "closed"
    ELSE "open"

CallAnswer(c) ==
    IF \E m \in Sent(c) : m.type \in {"result", "boxes"} THEN "success"
    ELSE IF \E m \in Sent(c) : m.type \in {"error", "internal"} THEN "failure"
    ELSE "none"

Abstract == INSTANCE CallContract
    WITH status <- [c \in Calls |-> CallStatus(c)],
         answer <- [c \in Calls |-> CallAnswer(c)]

\* Every step of the service is a step of the contract.
KeepsContract == Abstract!Contract

\* Under the service's fairness every accepted call is answered and closed,
\* unless it breaks: neither a full stdout pipe nor abandoned jobs hold the
\* threads of the pool for ever.
FulfilsContract == Abstract!FairContract
=============================================================================
