---------------------------- MODULE EdgePipeline ----------------------------
(***************************************************************************)
(* App.ProcessModel of nequ3d-app/app.go, the desktop side of the          *)
(* pipeline, composed with what it talks to: MinIO, the Core service as    *)
(* CallContract promises it, the host's files, and the registry of preview *)
(* files of nequ3d-app/preview.go.                                         *)
(*                                                                         *)
(* The dashboard may have several calls under way.  Each is a goroutine    *)
(* that waits, without a lock, for MinIO, for the next message of its      *)
(* stream and for the download of the proxy, so any two interleave there.  *)
(* The Core's messages travel in wire[c]; the 15-minute deadline and a     *)
(* lost connection cut the stream at any message.                          *)
(***************************************************************************)
EXTENDS Integers, Sequences

CONSTANTS
    Calls,          \* the calls of App.ProcessModel
    HostInputs,     \* the asset files on the host, as [stem, ext]
    Scenes,         \* the stems: each names one scene, whatever the format
    ObjectKeys,     \* the keys rand.Text() can give an upload
    ProxyKeys,      \* the keys the Core can give a proxy
    Temps,          \* the names os.CreateTemp can return
    None,           \* absence of a scene, a key, a path, a report
    WireSize        \* bound: progress messages waiting in one stream

ASSUME InputsAssumption == HostInputs \subseteq [stem : Scenes, ext : STRING]
ASSUME NoneIsNothing ==
    /\ None \notin Scenes \cup ObjectKeys \cup ProxyKeys \cup Temps
    /\ None \notin HostInputs /\ None # "empty"
ASSUME WireAssumption == WireSize \in Nat

VARIABLES
    request,        \* request[c]: the path and whether bpp was given
    pc,             \* pc[c]: the control point of the call
    absolutePath,   \* absolutePath[c]: the path the call works on
    objectKey,      \* objectKey[c]: the key its upload has
    jsonResult,     \* jsonResult[c]: the telemetry it will return
    download,       \* download[c]: the proxy key and temporary file of a download
    outcome,        \* outcome[c]: what the call returned to the dashboard
    buckets,        \* the buckets that exist in MinIO
    raw,            \* raw[k]: the scene stored in "raw-scans"
    processed,      \* processed[k]: the scene of the proxy in "processed-models"
    coreStatus,     \* the Core's side of the calls: the variables of CallContract
    coreAnswer,
    job,            \* job[c]: the scene the Core downloaded for the call
    wire,           \* wire[c]: messages on their way to the call
    host,           \* host[p]: the content of temporary and workspace files
    mounted,        \* the Core's workspace is the host's (docker run --mount)
    registered      \* previews.paths

appVars   == <<request, pc, absolutePath, objectKey, jsonResult, download, outcome>>
storeVars == <<buckets, raw, processed>>
coreVars  == <<coreStatus, coreAnswer, job>>
vars == <<appVars, storeVars, coreVars, wire, host, mounted, registered>>

Core == INSTANCE CallContract WITH status <- coreStatus, answer <- coreAnswer

----------------------------------------------------------------------------
(***************************************************************************)
(* Paths.  An asset is [stem, ext]; ext keeps the spelling of the user.    *)
(***************************************************************************)
Lower(ext) == IF ext = ".GLB" THEN ".glb" ELSE IF ext = ".USDZ" THEN ".usdz" ELSE ext

IsMesh(path)  == Lower(path.ext) \in {".glb", ".gltf"}
IsSplat(path) == Lower(path.ext) \in {".splat", ".ply"}
IsUSD(path)   == Lower(path.ext) \in {".usd", ".usdc", ".usda", ".usdz"}

\* Faulty variant of Siblings: the suffix looked for is ".usd".
SiblingsUSD(path) ==
    {p \in HostInputs : p.stem = path.stem /\ Lower(p.ext) = ".usd"}

\* strings.TrimSuffix(absolutePath, ext) + ".usdz", where ext is in lower case:
\* an extension spelled otherwise is not trimmed, and names no file here.
Siblings(path) ==
    {p \in HostInputs : /\ path.ext = Lower(path.ext)
                        /\ p.stem = path.stem /\ Lower(p.ext) = ".usdz"}

Input(path) == <<"input", path>>
Temp(t)     == <<"temp", t>>
Work(c)     == <<"work", c>>       \* the job's proxy, below /tmp/workspace
OtherFiles  == {Temp(t) : t \in Temps} \cup {Work(c) : c \in Calls}
HostFiles   == {Input(p) : p \in HostInputs} \cup {f \in OtherFiles : host[f] # None}
AnyFile     == {Input(p) : p \in HostInputs} \cup OtherFiles

(***************************************************************************)
(* Messages of a stream, and telemetry: the scene reported on and the      *)
(* "proxy_glb_path".                                                       *)
(***************************************************************************)
Message(type) == [type |-> type, scene |-> None, proxy |-> FALSE, key |-> None]
ResultOf(scene, proxy, key) ==
    [type |-> "result", scene |-> scene, proxy |-> proxy, key |-> key]
Info == Message("info")
Error == Message("error")
EOF == Message("eof")
Broken == Message("broken")

Telemetry(scene, path) == [scene |-> scene, path |-> path]
Failure == [ok |-> FALSE, via |-> "none", scene |-> None, path |-> None]
Success(via, t) == [ok |-> TRUE, via |-> via, scene |-> t.scene, path |-> t.path]

MaybeScene == Scenes \cup {None}
Telemetries == [scene : MaybeScene, path : AnyFile \cup {None}]
Downloads == [key : ProxyKeys, file : Temps]
Outcomes == [ok : BOOLEAN, via : {"none", "bypass", "core"}, scene : MaybeScene,
             path : AnyFile \cup {None}]

ASSUME NoneIsNoFile == None \notin AnyFile
ASSUME NoneIsNoRecord == None \notin Downloads \cup Telemetries \cup Outcomes

Init ==
    /\ request \in [Calls -> [path : HostInputs \cup {None}, bpp : BOOLEAN]]
    /\ pc = [c \in Calls |-> "idle"]
    /\ absolutePath = [c \in Calls |-> None]
    /\ objectKey = [c \in Calls |-> None]
    /\ jsonResult = [c \in Calls |-> None]
    /\ download = [c \in Calls |-> None]
    /\ outcome = [c \in Calls |-> None]
    /\ buckets \in SUBSET {"raw-scans", "processed-models"}
    /\ raw = [k \in ObjectKeys |-> None]
    /\ processed = [k \in ProxyKeys |-> None]
    /\ Core!Init
    /\ job = [c \in Calls |-> None]
    /\ wire = [c \in Calls |-> <<>>]
    /\ host = [f \in OtherFiles |-> None]
    /\ mounted \in BOOLEAN
    /\ registered = {}

----------------------------------------------------------------------------
(***************************************************************************)
(* The call, up to its upload.                                             *)
(***************************************************************************)
Goto(c, point) == pc' = [pc EXCEPT ![c] = point]

Return(c, result) ==
    /\ outcome' = [outcome EXCEPT ![c] = result]
    /\ Goto(c, "returned")

\* previews.register: only a path that resolves to a regular file.
Register(paths) == registered' = registered \cup (paths \cap HostFiles)

\* The dashboard calls; the path is registered before anything is checked.
Invoke(c) ==
    /\ pc[c] = "idle"
    /\ Register({Input(request[c].path)})
    /\ Goto(c, "routing")
    /\ UNCHANGED <<request, absolutePath, objectKey, jsonResult, download, outcome,
                   storeVars, coreVars, wire, host, mounted>>

Bypass(c, path) ==
    /\ Return(c, Success("bypass", Telemetry(path.stem, Input(path))))
    /\ UNCHANGED absolutePath
Process(c, path) ==
    /\ absolutePath' = [absolutePath EXCEPT ![c] = path]
    /\ Goto(c, "connecting")
    /\ UNCHANGED outcome
Refuse(c) == Return(c, Failure) /\ UNCHANGED absolutePath

\* The extension decides: a mesh without a USDZ beside it and a splat are
\* returned as they are, a USD asset goes to the Core, the rest is refused.
Route(c) ==
    LET path == request[c].path
        given == path # None /\ request[c].bpp
    IN
    /\ pc[c] = "routing"
    /\ \/ ~given /\ Refuse(c)
       \/ given /\ IsMesh(path) /\ Siblings(path) = {} /\ Bypass(c, path)
       \/ given /\ IsMesh(path) /\ \E p \in Siblings(path) : Process(c, p)
       \/ given /\ IsSplat(path) /\ Bypass(c, path)
       \/ given /\ IsUSD(path) /\ Process(c, path)
       \/ given /\ ~(IsMesh(path) \/ IsSplat(path) \/ IsUSD(path)) /\ Refuse(c)
    /\ UNCHANGED <<request, objectKey, jsonResult, download, storeVars, coreVars, wire,
                   host, mounted, registered>>

\* The gRPC client, the credentials and the MinIO client; then both buckets are
\* created unless they exist or MinIO fails, which is only a warning.
Connect(c) ==
    /\ pc[c] = "connecting"
    /\ \/ Return(c, Failure) /\ UNCHANGED buckets
       \/ /\ \E made \in SUBSET {"raw-scans", "processed-models"} :
               buckets' = buckets \cup made
          /\ Goto(c, "storing")
          /\ UNCHANGED outcome
    /\ UNCHANGED <<request, absolutePath, objectKey, jsonResult, download, raw,
                   processed, coreVars, wire, host, mounted, registered>>

\* Faulty variant of FreshObject: the key is the file name.
FileNameKey(k) == TRUE

\* rand.Text() gives a key no upload has.
FreshObject(k) == raw[k] = None /\ \A c \in Calls : objectKey[c] # k

\* FPutObject.  When it fails the object may have been stored all the same.
Put(c) ==
    /\ pc[c] = "storing"
    /\ \E k \in ObjectKeys :
         LET stored == /\ "raw-scans" \in buckets
                       /\ raw' = [raw EXCEPT ![k] = absolutePath[c].stem]
         IN /\ FreshObject(k)
            /\ objectKey' = [objectKey EXCEPT ![c] = k]
            /\ \/ stored /\ Goto(c, "opening") /\ UNCHANGED outcome
               \/ (stored \/ UNCHANGED raw) /\ Return(c, Failure)
    /\ UNCHANGED <<request, absolutePath, jsonResult, download, buckets, processed,
                   coreVars, wire, host, mounted, registered>>

\* client.ProcessModel(ctx, req), with the deadline of 15 minutes.
OpenStream(c) ==
    /\ pc[c] = "opening"
    /\ \/ Return(c, Failure) /\ UNCHANGED <<coreStatus, coreAnswer>>
       \/ Core!Accept(c) /\ Goto(c, "receiving") /\ UNCHANGED outcome
    /\ UNCHANGED <<request, absolutePath, objectKey, jsonResult, download, storeVars,
                   job, wire, host, mounted, registered>>
----------------------------------------------------------------------------
(***************************************************************************)
(* The Core, as its contract and its storage traffic show it.              *)
(***************************************************************************)
Deliver(c, m) == wire' = [wire EXCEPT ![c] = Append(@, m)]
Working(c) == coreStatus[c] = "open" /\ coreAnswer[c] = "none"

CoreInfo(c) ==
    /\ Working(c) /\ Len(wire[c]) < WireSize
    /\ Deliver(c, Info)
    /\ UNCHANGED <<appVars, storeVars, coreVars, host, mounted, registered>>

CoreFetch(c) ==
    /\ Working(c) /\ job[c] = None /\ raw[objectKey[c]] # None
    /\ job' = [job EXCEPT ![c] = raw[objectKey[c]]]
    /\ UNCHANGED <<appVars, storeVars, coreStatus, coreAnswer, wire, host, mounted,
                   registered>>

\* The result: with a proxy or without, and the proxy uploaded or not.
CoreResult(c) ==
    /\ job[c] # None
    /\ UNCHANGED coreStatus /\ coreAnswer' = [coreAnswer EXCEPT ![c] = "success"]
    /\ Core!Reply(c)
    /\ \E made \in BOOLEAN, key \in ProxyKeys \cup {None} :
         /\ key # None => made /\ "processed-models" \in buckets /\ processed[key] = None
         /\ processed' = [k \in ProxyKeys |-> IF k = key THEN job[c] ELSE processed[k]]
         /\ host' = IF made /\ mounted THEN [host EXCEPT ![Work(c)] = job[c]] ELSE host
         /\ Deliver(c, ResultOf(job[c], made, key))
    /\ UNCHANGED <<appVars, buckets, raw, job, mounted, registered>>

CoreError(c) ==
    /\ UNCHANGED coreStatus /\ coreAnswer' = [coreAnswer EXCEPT ![c] = "failure"]
    /\ Core!Reply(c)
    /\ Deliver(c, Error)
    /\ UNCHANGED <<appVars, storeVars, job, host, mounted, registered>>

CoreClose(c) ==
    /\ Core!Close(c)
    /\ Deliver(c, EOF)
    /\ UNCHANGED <<appVars, storeVars, job, host, mounted, registered>>

CoreStep(c) == CoreInfo(c) \/ CoreFetch(c) \/ CoreResult(c) \/ CoreError(c) \/ CoreClose(c)

\* The Core's calls in gone end, if they are open: Break of the contract.
Hangup(gone) ==
    /\ coreStatus' = [c \in Calls |-> IF c \in gone /\ coreStatus[c] = "open"
                                      THEN "broken" ELSE coreStatus[c]]
    /\ Core!Break

\* The rest of the streams in gone is replaced by a status that is an error;
\* messages that had arrived are lost or not.
Cut(gone) ==
    /\ Hangup(gone)
    /\ \E kept \in [gone -> 0..(WireSize + 2)] :
         /\ \A c \in gone : kept[c] <= Len(wire[c])
         /\ wire' = [c \in Calls |-> IF c \in gone
                        THEN Append(SubSeq(wire[c], 1, kept[c]), Broken) ELSE wire[c]]
    /\ UNCHANGED <<appVars, storeVars, job, host, mounted, registered>>

Streaming == {c \in Calls : /\ pc[c] \in {"receiving", "downloading"}
                            /\ \A i \in DOMAIN wire[c] : wire[c][i] # Broken}

\* The connection breaks, or the Core's container stops: every open stream ends.
LoseCore == Streaming # {} /\ Cut(Streaming)

\* Faulty variant of Deadline: the context has no timeout.
NoDeadline(c) == FALSE /\ UNCHANGED vars

\* The 15 minutes are over.
Deadline(c) == c \in Streaming /\ Cut({c})

----------------------------------------------------------------------------
(***************************************************************************)
(* The receive loop.                                                       *)
(***************************************************************************)

\* A return from the loop: "defer cancel()" and "defer conn.Close()" run.
Leave(c, result) == Return(c, result) /\ Hangup({c})

\* stream.Recv() returned a message of this type.
Recv(c, type) ==
    /\ pc[c] = "receiving" /\ wire[c] # <<>> /\ Head(wire[c]).type = type
    /\ wire' = [wire EXCEPT ![c] = Tail(@)]

RecvInfo(c) ==
    /\ Recv(c, "info")
    /\ UNCHANGED <<appVars, storeVars, coreVars, host, mounted, registered>>

\* Faulty variant of RecvFailure: an error after the result is taken for the end.
RecvFailureAsEnd(c) ==
    /\ Recv(c, "error") \/ Recv(c, "broken")
    /\ Leave(c, IF jsonResult[c] = None THEN Failure ELSE Success("core", jsonResult[c]))
    /\ UNCHANGED <<request, absolutePath, objectKey, jsonResult, download, storeVars,
                   job, host, mounted, registered>>

\* An "error" message, or Recv's own error, returns at once: also when a result
\* was received before it.
RecvFailure(c) ==
    /\ Recv(c, "error") \/ Recv(c, "broken")
    /\ Leave(c, Failure)
    /\ UNCHANGED <<request, absolutePath, objectKey, jsonResult, download, storeVars,
                   job, host, mounted, registered>>

\* os.CreateTemp creates a file nobody has.
FreshTemp(t) == host[Temp(t)] = None

\* Remember the telemetry; create a temporary file for the proxy if it was
\* uploaded.  When that fails the workspace path in the telemetry stays.
RecvResult(c) ==
    LET m == Head(wire[c]) IN
    /\ Recv(c, "result")
    /\ jsonResult' = [jsonResult EXCEPT
          ![c] = Telemetry(m.scene, IF m.proxy THEN Work(c) ELSE None)]
    /\ \/ UNCHANGED <<pc, download, host>>
       \/ /\ m.key # None
          /\ \E t \in Temps :
               /\ FreshTemp(t)
               /\ host' = [host EXCEPT ![Temp(t)] = "empty"]
               /\ download' = [download EXCEPT ![c] = [key |-> m.key, file |-> t]]
          /\ Goto(c, "downloading")
    /\ UNCHANGED <<request, absolutePath, objectKey, outcome, storeVars, coreVars,
                   mounted, registered>>

\* FGetObject into the temporary file, which then replaces the workspace path;
\* a failed download is only a warning, and its empty file stays.
Fetch(c) ==
    LET file == Temp(download[c].file) IN
    /\ pc[c] = "downloading"
    /\ \/ /\ host' = [host EXCEPT ![file] = processed[download[c].key]]
          /\ jsonResult' = [jsonResult EXCEPT ![c].path = file]
       \/ UNCHANGED <<host, jsonResult>>
    /\ Goto(c, "receiving")
    /\ UNCHANGED <<request, absolutePath, objectKey, download, outcome, storeVars,
                   coreVars, wire, mounted, registered>>

\* Faulty variant of RecvEnd: the telemetry registered is the Core's own.
RecvEndUnrewritten(c) ==
    /\ Recv(c, "eof")
    /\ IF jsonResult[c] = None THEN Leave(c, Failure) /\ UNCHANGED registered
       ELSE Leave(c, Success("core", jsonResult[c])) /\ Register({Work(c)})
    /\ UNCHANGED <<request, absolutePath, objectKey, jsonResult, download, storeVars,
                   job, host, mounted>>

\* io.EOF: the telemetry received, if any, is registered for the preview server
\* and returned.
RecvEnd(c) ==
    /\ Recv(c, "eof")
    /\ IF jsonResult[c] = None THEN Leave(c, Failure) /\ UNCHANGED registered
       ELSE Leave(c, Success("core", jsonResult[c])) /\ Register({jsonResult[c].path})
    /\ UNCHANGED <<request, absolutePath, objectKey, jsonResult, download, storeVars,
                   job, host, mounted>>

----------------------------------------------------------------------------
App(c) ==
    \/ Route(c) \/ Connect(c) \/ Put(c) \/ OpenStream(c)
    \/ RecvInfo(c) \/ RecvFailure(c) \/ RecvResult(c) \/ Fetch(c) \/ RecvEnd(c)

Quiet == \A c \in Calls : pc[c] = "returned"

Next ==
    \/ \E c \in Calls : Invoke(c) \/ App(c) \/ CoreStep(c) \/ Deadline(c)
    \/ LoseCore
    \/ Quiet /\ UNCHANGED vars

Spec == Init /\ [][Next]_vars

\* Once invoked the goroutine runs: MinIO answers or fails, a message that has
\* arrived is received, and the deadline expires.  The Core owes nothing.
Fairness == \A c \in Calls : WF_vars(App(c)) /\ WF_vars(Deadline(c))

FairSpec == Spec /\ Fairness
----------------------------------------------------------------------------
(***************************************************************************)
(* Properties.                                                             *)
(***************************************************************************)

Succeeded(c) == outcome[c] # None /\ outcome[c].ok

\* What a call returns is about the asset it was given, and a proxy file it
\* names on this host holds that scene and nothing else, now and later: other
\* calls under way, failed downloads and reused names never mix two assets up.
OutcomeOfRequest ==
    \A c \in Calls : Succeeded(c) =>
        /\ outcome[c].scene = request[c].path.stem
        /\ outcome[c].path \in OtherFiles =>
             host[outcome[c].path] \in {outcome[c].scene}
                 \cup (IF outcome[c].path = Work(c) THEN {None} ELSE {})

\* The dashboard can load what it is told to show: a path returned to it that
\* names a file of this host is registered with the preview server.
PreviewRegistered ==
    \A c \in Calls : Succeeded(c) /\ outcome[c].path \in HostFiles =>
        outcome[c].path \in registered

\* A processed asset is reported only when the Core sent a result and then
\* closed the call: a stream cut after its result is a failure.
SuccessIsComplete ==
    \A c \in Calls : Succeeded(c) /\ outcome[c].via = "core" =>
        coreStatus[c] = "closed" /\ coreAnswer[c] = "success"

\* A mesh with a USDZ beside it is processed, not bypassed ("check if a .usdz
\* version exists alongside it").
TwinProcessed ==
    \A c \in Calls : Succeeded(c) /\ outcome[c].via = "bypass" /\ IsMesh(request[c].path) =>
        ~\E p \in HostInputs : p.stem = request[c].path.stem /\ Lower(p.ext) = ".usdz"

\* To the dashboard the desktop side is itself such a service, one whose calls
\* never break: every invocation gets exactly one success or one failure.
InvocationStatus(c) ==
    IF pc[c] = "idle" THEN "idle" ELSE IF pc[c] = "returned" THEN "closed" ELSE "open"
InvocationAnswer(c) ==
    IF outcome[c] = None THEN "none" ELSE IF outcome[c].ok THEN "success" ELSE "failure"

Dashboard == INSTANCE CallContract
    WITH status <- [c \in Calls |-> InvocationStatus(c)],
         answer <- [c \in Calls |-> InvocationAnswer(c)]

\* Every invocation is answered although the Core may stay silent for ever,
\* break, or answer late.
EveryInvocationAnswered == Dashboard!FairContract
=============================================================================
