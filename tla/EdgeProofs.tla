----------------------------- MODULE EdgeProofs -----------------------------
(***************************************************************************)
(* Proofs about EdgePipeline for every set of calls, assets, keys and      *)
(* temporary files: what a call returns is of the asset it was given,      *)
(* whole and registered, whatever the other calls do.                      *)
(***************************************************************************)
EXTENDS EdgePipeline, SequenceTheorems, TLAPS

EdgePoints == {"idle", "routing", "connecting", "storing", "opening", "receiving",
               "downloading", "returned"}
WireMessages == [type : {"info", "error", "eof", "broken", "result"}, scene : MaybeScene,
                 proxy : BOOLEAN, key : ProxyKeys \cup {None}]

\* Every variable but the outcomes has its type; what a call returns is described by
\* Returned.
AppTypes ==
    /\ request \in [Calls -> [path : HostInputs \cup {None}, bpp : BOOLEAN]]
    /\ pc \in [Calls -> EdgePoints]
    /\ absolutePath \in [Calls -> HostInputs \cup {None}]
    /\ objectKey \in [Calls -> ObjectKeys \cup {None}]
    /\ jsonResult \in [Calls -> Telemetries \cup {None}]
    /\ download \in [Calls -> Downloads \cup {None}]
    /\ DOMAIN outcome = Calls
    /\ \A c \in Calls : pc[c] = "downloading" => download[c] # None /\ jsonResult[c] # None

CoreTypes ==
    /\ coreStatus \in [Calls -> {"idle", "open", "closed", "broken"}]
    /\ coreAnswer \in [Calls -> {"none", "success", "failure"}]
    /\ job \in [Calls -> MaybeScene]
    /\ wire \in [Calls -> Seq(WireMessages)]
    /\ raw \in [ObjectKeys -> MaybeScene]
    /\ processed \in [ProxyKeys -> MaybeScene]
    /\ host \in [OtherFiles -> MaybeScene \cup {"empty"}]

\* Where a call is, what it has by then, and what the Core knows of it.
Placed ==
    \A c \in Calls :
        /\ pc[c] \in {"connecting", "storing", "opening", "receiving", "downloading"} =>
             absolutePath[c] \in HostInputs /\ absolutePath[c].stem = request[c].path.stem
        /\ pc[c] \in {"idle", "routing", "connecting", "storing", "opening"} =>
             coreStatus[c] = "idle" /\ jsonResult[c] = None
        /\ pc[c] = "opening" \/ coreStatus[c] # "idle" => objectKey[c] \in ObjectKeys
        /\ outcome[c] # None => pc[c] = "returned"
        /\ job[c] # None => coreStatus[c] # "idle"

EdgeTypes == AppTypes /\ CoreTypes /\ Placed

LEMMA Files ==
    /\ \A t \in Temps : Temp(t) \in OtherFiles /\ Temp(t) # None
    /\ \A c \in Calls : Work(c) \in OtherFiles /\ Work(c) # None
    /\ \A t \in Temps, c \in Calls : Temp(t) # Work(c)
    /\ \A t, u \in Temps : Temp(t) = Temp(u) => t = u
    /\ \A c, d \in Calls : Work(c) = Work(d) => c = d
    /\ \A p \in HostInputs : Input(p) \notin OtherFiles /\ Input(p) # None
    /\ OtherFiles \subseteq AnyFile
  BY NoneIsNoFile DEF AnyFile, OtherFiles, Temp, Work, Input

LEMMA MessageTypes ==
    /\ Info \in WireMessages /\ Error \in WireMessages /\ EOF \in WireMessages
    /\ Broken \in WireMessages
    /\ \A s \in MaybeScene, made \in BOOLEAN, k \in ProxyKeys \cup {None} :
         ResultOf(s, made, k) \in WireMessages
  BY DEF Info, Error, EOF, Broken, Message, ResultOf, WireMessages, MaybeScene

LEMMA InitTypes == Init => EdgeTypes
  BY DEF Init, EdgeTypes, AppTypes, CoreTypes, Placed, EdgePoints, MaybeScene, Core!Init

----------------------------------------------------------------------------
(***************************************************************************)
(* The streams.                                                            *)
(***************************************************************************)
Waiting(c) == {wire[c][i] : i \in DOMAIN wire[c]}

LEMMA Delivered ==
    ASSUME CoreTypes, NEW c \in Calls, NEW m \in WireMessages, Deliver(c, m)
    PROVE  /\ wire' \in [Calls -> Seq(WireMessages)]
           /\ Waiting(c)' = Waiting(c) \cup {m}
           /\ \A d \in Calls \ {c} : Waiting(d)' = Waiting(d)
<1>1. wire[c] \in Seq(WireMessages) /\ wire'[c] = Append(wire[c], m)
  BY DEF CoreTypes, Deliver
<1>2. /\ Len(wire[c]) \in Nat /\ DOMAIN wire[c] = 1..Len(wire[c])
      /\ wire'[c] \in Seq(WireMessages) /\ DOMAIN wire'[c] = 1..(Len(wire[c]) + 1)
      /\ \A i \in 1..Len(wire[c]) : wire'[c][i] = wire[c][i]
      /\ wire'[c][Len(wire[c]) + 1] = m
  BY <1>1, AppendProperties, LenProperties
<1>3. Waiting(c)' = Waiting(c) \cup {m}
  <2> DEFINE n == Len(wire[c])
             was == wire[c]
             is == wire'[c]
  <2>1. /\ n \in Nat /\ DOMAIN was = 1..n /\ DOMAIN is = 1..(n + 1) /\ is[n + 1] = m
        /\ \A i \in 1..n : is[i] = was[i]
    BY <1>2
  <2> HIDE DEF n, was, is
  <2>2. {is[i] : i \in DOMAIN is} = {was[i] : i \in DOMAIN was} \cup {m}
    <3>1. DOMAIN is = DOMAIN was \cup {n + 1}
      BY <2>1
    <3>2. \A i \in DOMAIN was : is[i] = was[i]
      BY <2>1
    <3>3. ASSUME NEW i \in DOMAIN is PROVE is[i] \in {was[j] : j \in DOMAIN was} \cup {m}
      BY <2>1, <3>1, <3>2
    <3>4. ASSUME NEW i \in DOMAIN was PROVE was[i] \in {is[j] : j \in DOMAIN is}
      BY <3>1, <3>2
    <3>5. m \in {is[j] : j \in DOMAIN is}
      BY <2>1, <3>1
    <3>6. QED
      BY <3>3, <3>4, <3>5
  <2>3. QED
    BY <2>2 DEF Waiting, was, is
<1>4. QED
  BY <1>2, <1>3 DEF CoreTypes, Deliver, Waiting

LEMMA Received ==
    ASSUME CoreTypes, NEW c \in Calls, NEW type, Recv(c, type)
    PROVE  /\ wire' \in [Calls -> Seq(WireMessages)]
           /\ Head(wire[c]) \in Waiting(c) /\ Head(wire[c]).type = type
           /\ Head(wire[c]) \in WireMessages
           /\ \A d \in Calls : Waiting(d)' \subseteq Waiting(d)
<1>1. wire[c] \in Seq(WireMessages) /\ wire[c] # <<>> /\ wire'[c] = Tail(wire[c])
  BY DEF CoreTypes, Recv
<1>2. /\ Len(wire[c]) \in Nat /\ DOMAIN wire[c] = 1..Len(wire[c]) /\ Len(wire[c]) # 0
      /\ Head(wire[c]) = wire[c][1] /\ Head(wire[c]) \in WireMessages
      /\ wire'[c] \in Seq(WireMessages) /\ DOMAIN wire'[c] = 1..(Len(wire[c]) - 1)
      /\ \A i \in 1..(Len(wire[c]) - 1) : wire'[c][i] = wire[c][i + 1]
  BY <1>1, HeadTailProperties, LenProperties, EmptySeq
<1>3. Waiting(c)' \subseteq Waiting(c) /\ Head(wire[c]) \in Waiting(c)
  <2>1. 1 \in DOMAIN wire[c] /\ \A i \in DOMAIN wire'[c] : i + 1 \in DOMAIN wire[c]
    BY <1>2
  <2>2. ASSUME NEW i \in DOMAIN wire'[c] PROVE wire'[c][i] \in Waiting(c)
    <3>1. wire'[c][i] = wire[c][i + 1] /\ i + 1 \in DOMAIN wire[c]
      BY <1>2, <2>1
    <3>2. QED
      BY <3>1, Zenon DEF Waiting
  <2>3. Waiting(c)' \subseteq Waiting(c)
    BY <2>2, Zenon DEF Waiting
  <2>4. Head(wire[c]) \in Waiting(c)
    BY <1>2, <2>1, Zenon DEF Waiting
  <2>5. QED
    BY <2>3, <2>4
<1>4. \A d \in Calls \ {c} : Waiting(d)' = Waiting(d)
  BY DEF Waiting, Recv, CoreTypes
<1>5. wire' \in [Calls -> Seq(WireMessages)]
  <2>1. /\ wire' = [wire EXCEPT ![c] = wire'[c]] /\ wire'[c] \in Seq(WireMessages)
        /\ wire \in [Calls -> Seq(WireMessages)]
    <3>1. wire' = [wire EXCEPT ![c] = Tail(@)] /\ wire \in [Calls -> Seq(WireMessages)]
      BY DEF CoreTypes, Recv
    <3>2. QED
      BY <1>1, <1>2, <3>1, Zenon
  <2>2. QED
    BY <2>1, Zenon
<1>6. Head(wire[c]).type = type
  BY DEF Recv
<1>7. QED
  BY <1>2, <1>3, <1>4, <1>5, <1>6

LEMMA CutStreams ==
    ASSUME CoreTypes, NEW gone \in SUBSET Calls, Cut(gone)
    PROVE  /\ wire' \in [Calls -> Seq(WireMessages)]
           /\ \A d \in Calls : Waiting(d)' \subseteq Waiting(d) \cup {Broken}
<1> PICK kept \in [gone -> 0..(WireSize + 2)] :
      /\ \A c \in gone : kept[c] <= Len(wire[c])
      /\ wire' = [c \in Calls |-> IF c \in gone
                    THEN Append(SubSeq(wire[c], 1, kept[c]), Broken) ELSE wire[c]]
  BY DEF Cut
<1>1. ASSUME NEW d \in gone
      PROVE  wire'[d] \in Seq(WireMessages) /\ Waiting(d)' \subseteq Waiting(d) \cup {Broken}
  <2> DEFINE front == SubSeq(wire[d], 1, kept[d])
  <2>1. wire[d] \in Seq(WireMessages) /\ kept[d] \in Nat /\ kept[d] <= Len(wire[d])
    BY WireAssumption DEF CoreTypes
  <2>2. Len(wire[d]) \in Nat /\ DOMAIN wire[d] = 1..Len(wire[d])
        /\ \A i \in 1..Len(wire[d]) : wire[d][i] \in WireMessages
    BY <2>1, LenProperties, ElementOfSeq
  <2>3. /\ front \in Seq(WireMessages) /\ Len(front) = kept[d]
        /\ \A i \in 1..kept[d] : front[i] = wire[d][i]
    BY <2>1, <2>2, SubSeqProperties
  <2>4. /\ wire'[d] = Append(front, Broken) /\ wire'[d] \in Seq(WireMessages)
        /\ DOMAIN wire'[d] = 1..(kept[d] + 1)
        /\ \A i \in 1..kept[d] : wire'[d][i] = front[i]
        /\ wire'[d][kept[d] + 1] = Broken
    BY <2>1, <2>3, MessageTypes, AppendProperties, LenProperties
  <2>5. \A i \in 1..(kept[d] + 1) : i \in 1..kept[d] \/ i = kept[d] + 1
    BY <2>1
  <2>6. \A i \in 1..kept[d] : i \in 1..Len(wire[d])
    BY <2>1, <2>2
  <2>7. QED
    BY <2>2, <2>3, <2>4, <2>5, <2>6 DEF Waiting
<1>2. ASSUME NEW d \in Calls \ gone PROVE wire'[d] = wire[d] /\ Waiting(d)' = Waiting(d)
  BY DEF Waiting
<1>3. QED
  BY <1>1, <1>2 DEF CoreTypes

\* What the end of calls does to the Core's side of them.
LEMMA HungUp ==
    ASSUME CoreTypes, NEW gone, Hangup(gone)
    PROVE  /\ coreStatus' \in [Calls -> {"idle", "open", "closed", "broken"}]
           /\ \A d \in Calls : /\ coreStatus[d] # "open" => coreStatus'[d] = coreStatus[d]
                               /\ coreStatus[d] = "open" => coreStatus'[d] \in {"open", "broken"}
           /\ coreAnswer' = coreAnswer
  BY DEF CoreTypes, Hangup, Core!Break

----------------------------------------------------------------------------
(***************************************************************************)
(* Types.                                                                  *)
(***************************************************************************)
LEMMA AssetTypes ==
    /\ \A p \in HostInputs : p # None /\ p.stem \in Scenes
    /\ \A p \in HostInputs : Siblings(p) \subseteq HostInputs
  BY InputsAssumption, NoneIsNothing DEF Siblings

LEMMA AppTypeStep ==
    EdgeTypes /\ (\E c \in Calls : Invoke(c) \/ App(c)) => AppTypes'
<1> SUFFICES ASSUME EdgeTypes, NEW c \in Calls, Invoke(c) \/ App(c) PROVE AppTypes'
  OBVIOUS
<1> USE DEF EdgeTypes, AppTypes, Goto, Return, EdgePoints
<1>1. CASE Invoke(c)
  BY <1>1 DEF Invoke
<1>2. CASE Route(c)
  BY <1>2, AssetTypes DEF Route, Refuse, Bypass, Process
<1>3. CASE Connect(c) \/ OpenStream(c)
  BY <1>3 DEF Connect, OpenStream
<1>4. CASE Put(c)
  BY <1>4 DEF Put
<1>5. CASE RecvInfo(c) \/ RecvFailure(c) \/ RecvEnd(c)
  BY <1>5 DEF RecvInfo, RecvFailure, RecvEnd, Leave, appVars
<1>6. CASE RecvResult(c)
  <2>1. Recv(c, "result")
    BY <1>6 DEF RecvResult
  <2>2. Head(wire[c]) \in WireMessages
    BY <2>1, Received
  <2>3. Telemetry(Head(wire[c]).scene, IF Head(wire[c]).proxy THEN Work(c) ELSE None) \in Telemetries
    BY <2>2, Files DEF WireMessages, Telemetry, Telemetries, AnyFile
  <2>4. \A t \in Temps : Head(wire[c]).key # None => [key |-> Head(wire[c]).key, file |-> t] \in Downloads
    BY <2>2 DEF WireMessages, Downloads
  <2>5. /\ jsonResult' \in [Calls -> Telemetries \cup {None}]
        /\ jsonResult'[c] # None
        /\ \A d \in Calls \ {c} : jsonResult'[d] = jsonResult[d]
    BY <1>6, <2>3, NoneIsNoRecord DEF RecvResult
  <2>6. /\ download' \in [Calls -> Downloads \cup {None}]
        /\ pc' \in [Calls -> EdgePoints]
        /\ \A d \in Calls \ {c} : download'[d] = download[d] /\ pc'[d] = pc[d]
        /\ pc'[c] = "downloading" => download'[c] # None
    <3>1. CASE UNCHANGED <<pc, download, host>>
      BY <1>6, <3>1 DEF RecvResult, Placed, Recv
    <3>2. ASSUME NEW t \in Temps, Head(wire[c]).key # None,
                 download' = [download EXCEPT ![c] = [key |-> Head(wire[c]).key, file |-> t]],
                 pc' = [pc EXCEPT ![c] = "downloading"]
          PROVE  /\ download' \in [Calls -> Downloads \cup {None}]
                 /\ pc' \in [Calls -> EdgePoints]
                 /\ \A d \in Calls \ {c} : download'[d] = download[d] /\ pc'[d] = pc[d]
                 /\ pc'[c] = "downloading" => download'[c] # None
      <4>1. [key |-> Head(wire[c]).key, file |-> t] \in Downloads
        BY <2>4, <3>2
      <4>2. QED
        BY <3>2, <4>1, NoneIsNoRecord
    <3>3. QED
      BY <1>6, <3>1, <3>2 DEF RecvResult
  <2>7. QED
    BY <1>6, <2>5, <2>6 DEF RecvResult
<1>7. CASE Fetch(c) /\ jsonResult' = jsonResult
  BY <1>7 DEF Fetch
<1>8. CASE Fetch(c) /\ jsonResult' = [jsonResult EXCEPT ![c].path = Temp(download[c].file)]
  <2>1. jsonResult[c] \in Telemetries /\ download[c].file \in Temps
    BY <1>8 DEF Fetch, Downloads
  <2>2. [jsonResult[c] EXCEPT !.path = Temp(download[c].file)] \in Telemetries
    BY <2>1, Files DEF Telemetries
  <2>3. QED
    BY <1>8, <2>1, <2>2, NoneIsNoRecord DEF Fetch
<1>9. QED
  BY <1>1, <1>2, <1>3, <1>4, <1>5, <1>6, <1>7, <1>8 DEF App, Fetch

LEMMA CoreTypeStep == EdgeTypes /\ [Next]_vars => CoreTypes'
<1> SUFFICES ASSUME EdgeTypes, [Next]_vars PROVE CoreTypes'
  OBVIOUS
<1> USE DEF EdgeTypes, MaybeScene, coreVars, storeVars
<1>1. ASSUME NEW c \in Calls, Invoke(c) \/ Route(c) \/ Connect(c) PROVE CoreTypes'
  BY <1>1 DEF Invoke, Route, Connect, CoreTypes
<1>2. ASSUME NEW c \in Calls, Put(c) PROVE CoreTypes'
  <2>1. absolutePath[c] \in HostInputs => absolutePath[c].stem \in Scenes
    BY AssetTypes
  <2>2. absolutePath[c] \in HostInputs
    BY <1>2 DEF Put, Placed
  <2>3. QED
    BY <1>2, <2>1, <2>2 DEF Put, CoreTypes
<1>3. ASSUME NEW c \in Calls, OpenStream(c) PROVE CoreTypes'
  BY <1>3 DEF OpenStream, Core!Accept, CoreTypes
<1>4. ASSUME NEW c \in Calls, NEW m \in WireMessages, Deliver(c, m),
             coreStatus' \in [Calls -> {"idle", "open", "closed", "broken"}],
             coreAnswer' \in [Calls -> {"none", "success", "failure"}],
             job' = job, raw' = raw,
             processed' \in [ProxyKeys -> MaybeScene],
             host' \in [OtherFiles -> MaybeScene \cup {"empty"}]
      PROVE  CoreTypes'
  <2>1. wire' \in [Calls -> Seq(WireMessages)]
    BY <1>4, Delivered
  <2>2. QED
    BY <1>4, <2>1 DEF CoreTypes
<1>5. ASSUME NEW c \in Calls, CoreInfo(c) \/ CoreError(c) \/ CoreClose(c) PROVE CoreTypes'
  <2>1. CoreInfo(c) => Deliver(c, Info) /\ UNCHANGED <<coreStatus, coreAnswer, job, raw, processed, host>>
    BY DEF CoreInfo
  <2>2. CoreError(c) => /\ Deliver(c, Error) /\ UNCHANGED <<coreStatus, job, raw, processed, host>>
                        /\ coreAnswer' = [coreAnswer EXCEPT ![c] = "failure"]
    BY DEF CoreError
  <2>3. CoreClose(c) => /\ Deliver(c, EOF) /\ UNCHANGED <<coreAnswer, job, raw, processed, host>>
                        /\ coreStatus' = [coreStatus EXCEPT ![c] = "closed"]
    BY DEF CoreClose, Core!Close
  <2>4. CASE CoreInfo(c)
    BY <1>4, <2>1, <2>4, MessageTypes DEF CoreTypes
  <2>5. CASE CoreError(c)
    BY <1>4, <2>2, <2>5, MessageTypes DEF CoreTypes
  <2>6. CASE CoreClose(c)
    BY <1>4, <2>3, <2>6, MessageTypes DEF CoreTypes
  <2>7. QED
    BY <1>5, <2>4, <2>5, <2>6
<1>6. ASSUME NEW c \in Calls, CoreFetch(c) PROVE CoreTypes'
  <2>1. raw[objectKey[c]] \in MaybeScene
    BY <1>6 DEF CoreFetch, Working, Placed, CoreTypes
  <2>2. QED
    BY <1>6, <2>1 DEF CoreFetch, CoreTypes
<1>7. ASSUME NEW c \in Calls, CoreResult(c) PROVE CoreTypes'
  <2> PICK made \in BOOLEAN, key \in ProxyKeys \cup {None} :
        /\ processed' = [k \in ProxyKeys |-> IF k = key THEN job[c] ELSE processed[k]]
        /\ host' = IF made /\ mounted THEN [host EXCEPT ![Work(c)] = job[c]] ELSE host
        /\ Deliver(c, ResultOf(job[c], made, key))
    BY <1>7 DEF CoreResult
  <2>1. job[c] \in MaybeScene
    BY DEF CoreTypes
  <2>2. ResultOf(job[c], made, key) \in WireMessages
    BY <2>1, MessageTypes
  <2>3. processed' \in [ProxyKeys -> MaybeScene] /\ host' \in [OtherFiles -> MaybeScene \cup {"empty"}]
    BY <2>1 DEF CoreTypes
  <2>4. /\ coreStatus' = coreStatus /\ coreAnswer' = [coreAnswer EXCEPT ![c] = "success"]
        /\ job' = job /\ raw' = raw
    BY <1>7 DEF CoreResult
  <2>5. QED
    BY <1>4, <2>2, <2>3, <2>4 DEF CoreTypes
<1>8. ASSUME NEW gone \in SUBSET Calls, Cut(gone) PROVE CoreTypes'
  BY <1>8, CutStreams, HungUp DEF Cut, CoreTypes
<1>9. ASSUME NEW c \in Calls, RecvInfo(c) PROVE CoreTypes'
  BY <1>9, Received DEF RecvInfo, CoreTypes
<1>10. ASSUME NEW c \in Calls, RecvFailure(c) \/ RecvEnd(c) PROVE CoreTypes'
  <2>1. Hangup({c}) /\ \E type \in {"error", "broken", "eof"} : Recv(c, type)
    BY <1>10 DEF RecvFailure, RecvEnd, Leave
  <2>2. QED
    BY <1>10, <2>1, Received, HungUp DEF RecvFailure, RecvEnd, CoreTypes
<1>11. ASSUME NEW c \in Calls, RecvResult(c) PROVE CoreTypes'
  <2>1. Recv(c, "result")
    BY <1>11 DEF RecvResult
  <2>2. host' \in [OtherFiles -> MaybeScene \cup {"empty"}]
    BY <1>11 DEF RecvResult, CoreTypes
  <2>3. QED
    BY <1>11, <2>1, <2>2, Received DEF RecvResult, CoreTypes
<1>12. ASSUME NEW c \in Calls, Fetch(c) PROVE CoreTypes'
  <2>1. processed[download[c].key] \in MaybeScene
    BY <1>12 DEF Fetch, AppTypes, CoreTypes, Downloads
  <2>2. QED
    BY <1>12, <2>1 DEF Fetch, CoreTypes
<1>13. CASE UNCHANGED vars
  BY <1>13 DEF vars, appVars, CoreTypes
<1>14. Streaming \subseteq Calls
  BY DEF Streaming
<1>15. QED
  BY <1>1, <1>2, <1>3, <1>5, <1>6, <1>7, <1>8, <1>9, <1>10, <1>11, <1>12, <1>13, <1>14
     DEF Next, App, CoreStep, Deadline, LoseCore

LEMMA PlacedStep == EdgeTypes /\ [Next]_vars => Placed'
<1> SUFFICES ASSUME EdgeTypes, [Next]_vars PROVE Placed'
  OBVIOUS
<1> USE DEF EdgeTypes, coreVars, Goto, Return
<1>0. /\ pc \in [Calls -> EdgePoints] /\ DOMAIN outcome = Calls
      /\ absolutePath \in [Calls -> HostInputs \cup {None}]
      /\ objectKey \in [Calls -> ObjectKeys \cup {None}]
      /\ jsonResult \in [Calls -> Telemetries \cup {None}]
      /\ coreStatus \in [Calls -> {"idle", "open", "closed", "broken"}]
      /\ job \in [Calls -> MaybeScene]
  BY DEF AppTypes, CoreTypes
<1>1. ASSUME NEW c \in Calls, Invoke(c) PROVE Placed'
  BY <1>0, <1>1 DEF Invoke, Placed
<1>2. ASSUME NEW c \in Calls, Route(c) PROVE Placed'
  <2>1. request[c].path # None => request[c].path \in HostInputs
    BY DEF AppTypes
  <2>2. \A p \in Siblings(request[c].path) : p \in HostInputs /\ p.stem = request[c].path.stem
    BY DEF Siblings
  <2>3. QED
    BY <1>0, <1>2, <2>1, <2>2 DEF Route, Refuse, Bypass, Process, Placed
<1>3. ASSUME NEW c \in Calls, Connect(c) PROVE Placed'
  BY <1>0, <1>3 DEF Connect, Placed
<1>4. ASSUME NEW c \in Calls, Put(c) PROVE Placed'
  BY <1>0, <1>4 DEF Put, Placed
<1>5. ASSUME NEW c \in Calls, OpenStream(c) PROVE Placed'
  BY <1>0, <1>5 DEF OpenStream, Core!Accept, Placed
<1>6. ASSUME NEW c \in Calls, CoreInfo(c) \/ CoreFetch(c) PROVE Placed'
  BY <1>0, <1>6 DEF CoreInfo, CoreFetch, Working, appVars, Placed
<1>7. ASSUME NEW c \in Calls, CoreResult(c) \/ CoreError(c) \/ CoreClose(c) PROVE Placed'
  BY <1>0, <1>7 DEF CoreResult, CoreError, CoreClose, Core!Close, appVars, Placed
<1>8. ASSUME NEW gone, Hangup(gone), UNCHANGED <<request, absolutePath, objectKey, jsonResult, job>>,
             \A c \in Calls : outcome'[c] # None => outcome'[c] = outcome[c] \/ pc'[c] = "returned",
             \A c \in Calls : pc'[c] = pc[c] \/ pc'[c] = "returned"
      PROVE  Placed'
  <2>1. \A d \in Calls : coreStatus'[d] = "idle" <=> coreStatus[d] = "idle"
    BY <1>0, <1>8, HungUp
  <2>2. QED
    BY <1>0, <1>8, <2>1 DEF Placed
<1>9. ASSUME NEW gone, Cut(gone) PROVE Placed'
  BY <1>8, <1>9 DEF Cut, appVars
<1>10. ASSUME NEW c \in Calls, RecvFailure(c) \/ RecvEnd(c) PROVE Placed'
  BY <1>0, <1>8, <1>10 DEF RecvFailure, RecvEnd, Leave
<1>11. ASSUME NEW c \in Calls, RecvInfo(c) PROVE Placed'
  BY <1>11 DEF RecvInfo, appVars, Placed
<1>12. ASSUME NEW c \in Calls, RecvResult(c) PROVE Placed'
  <2>1. pc[c] = "receiving"
    BY <1>12 DEF RecvResult, Recv
  <2>2. QED
    BY <1>0, <1>12, <2>1 DEF RecvResult, Placed
<1>13. ASSUME NEW c \in Calls, Fetch(c) PROVE Placed'
  BY <1>0, <1>13 DEF Fetch, Placed
<1>14. CASE UNCHANGED vars
  BY <1>14 DEF vars, appVars, Placed
<1>15. QED
  BY <1>1, <1>2, <1>3, <1>4, <1>5, <1>6, <1>7, <1>9, <1>10, <1>11, <1>12, <1>13, <1>14
     DEF Next, App, CoreStep, Deadline, LoseCore

LEMMA TypeStep == EdgeTypes /\ [Next]_vars => EdgeTypes'
<1>1. ASSUME EdgeTypes, UNCHANGED appVars PROVE AppTypes'
  BY <1>1 DEF EdgeTypes, AppTypes, appVars
<1>2. \A c \in Calls : CoreStep(c) \/ Deadline(c) \/ LoseCore => UNCHANGED appVars
  BY DEF CoreStep, CoreInfo, CoreFetch, CoreResult, CoreError, CoreClose, Deadline, LoseCore, Cut
<1>3. LoseCore => UNCHANGED appVars
  BY DEF LoseCore, Cut
<1>4. QED
  BY <1>1, <1>2, <1>3, AppTypeStep, CoreTypeStep, PlacedStep DEF Next, EdgeTypes, vars

----------------------------------------------------------------------------
(***************************************************************************)
(* What no step takes back.                                                *)
(***************************************************************************)
Lasting ==
    /\ request' = request /\ registered \subseteq registered'
    /\ \A k \in ProxyKeys : processed[k] # None => processed'[k] = processed[k]
    /\ \A c \in Calls :
         /\ coreStatus[c] = "closed" => coreStatus'[c] = "closed"
         /\ coreAnswer[c] # "none" => coreAnswer'[c] = coreAnswer[c]
         /\ job[c] # None => job'[c] = job[c]
         /\ outcome[c] # None => /\ outcome'[c] = outcome[c] /\ jsonResult'[c] = jsonResult[c]
                                 /\ download'[c] = download[c]

LEMMA LastingStep == EdgeTypes /\ [Next]_vars => Lasting
<1> SUFFICES ASSUME EdgeTypes, [Next]_vars PROVE Lasting
  OBVIOUS
<1> USE DEF EdgeTypes, coreVars, storeVars, Goto, Return, Lasting
<1>0. /\ DOMAIN outcome = Calls
      /\ jsonResult \in [Calls -> Telemetries \cup {None}]
      /\ download \in [Calls -> Downloads \cup {None}]
      /\ coreStatus \in [Calls -> {"idle", "open", "closed", "broken"}]
      /\ coreAnswer \in [Calls -> {"none", "success", "failure"}]
      /\ job \in [Calls -> MaybeScene] /\ processed \in [ProxyKeys -> MaybeScene]
      /\ \A c \in Calls : outcome[c] # None => pc[c] = "returned"
  BY DEF AppTypes, CoreTypes, Placed
<1>1. ASSUME NEW c \in Calls, Invoke(c) \/ Connect(c) \/ Put(c) PROVE Lasting
  BY <1>0, <1>1 DEF Invoke, Register, Connect, Put
<1>2. ASSUME NEW c \in Calls, Route(c) PROVE Lasting
  BY <1>0, <1>2 DEF Route, Refuse, Bypass, Process
<1>3. ASSUME NEW c \in Calls, OpenStream(c) PROVE Lasting
  BY <1>0, <1>3 DEF OpenStream, Core!Accept
<1>4. ASSUME NEW c \in Calls, CoreInfo(c) \/ CoreFetch(c) \/ CoreError(c) \/ CoreClose(c) PROVE Lasting
  BY <1>0, <1>4 DEF CoreInfo, CoreFetch, CoreError, CoreClose, Core!Reply, Core!Close, appVars
<1>5. ASSUME NEW c \in Calls, CoreResult(c) PROVE Lasting
  <2>1. \A k \in ProxyKeys : processed[k] # None => processed'[k] = processed[k]
    BY <1>0, <1>5, NoneIsNothing DEF CoreResult
  <2>2. QED
    BY <1>0, <1>5, <2>1 DEF CoreResult, Core!Reply, appVars
<1>6. ASSUME NEW gone, Hangup(gone) PROVE
             \A d \in Calls : /\ coreStatus[d] = "closed" => coreStatus'[d] = "closed"
                              /\ coreAnswer'[d] = coreAnswer[d]
  BY <1>0, <1>6, HungUp
<1>7. ASSUME NEW gone, Cut(gone) PROVE Lasting
  BY <1>6, <1>7 DEF Cut, appVars
<1>8. ASSUME NEW c \in Calls, RecvFailure(c) \/ RecvEnd(c) PROVE Lasting
  BY <1>0, <1>6, <1>8 DEF RecvFailure, RecvEnd, Leave, Recv, Register
<1>9. ASSUME NEW c \in Calls, RecvInfo(c) \/ RecvResult(c) \/ Fetch(c) PROVE Lasting
  BY <1>0, <1>9 DEF RecvInfo, RecvResult, Recv, Fetch, appVars
<1>10. CASE UNCHANGED vars
  BY <1>10 DEF vars, appVars
<1>11. QED
  BY <1>1, <1>2, <1>3, <1>4, <1>5, <1>7, <1>8, <1>9, <1>10 DEF Next, App, CoreStep, Deadline, LoseCore

----------------------------------------------------------------------------
(***************************************************************************)
(* The invariant.  Keys and temporary files have one owner each, so what   *)
(* is stored under them is the owner's; a message in a stream is true      *)
(* when it is sent, and stays true.                                        *)
(***************************************************************************)
Stem(c) == request[c].path.stem

Stored ==
    /\ \A c \in Calls :
         /\ objectKey[c] \in ObjectKeys => raw[objectKey[c]] \in {None, Stem(c)}
         /\ job[c] \in {None, Stem(c)}
    /\ \A c, d \in Calls : c # d /\ objectKey[c] = objectKey[d] => objectKey[c] = None

Told ==
    \A c \in Calls : \A m \in Waiting(c) :
        /\ m.type = "eof" => coreStatus[c] = "closed"
        /\ m.type = "result" =>
             /\ coreAnswer[c] = "success" /\ job[c] # None /\ m.scene = job[c]
             /\ m.key # None => processed[m.key] = job[c]

Reported ==
    /\ \A c \in Calls :
         /\ host[Work(c)] # None => host[Work(c)] = job[c]
         /\ download[c] # None =>
              /\ job[c] # None /\ processed[download[c].key] = job[c]
              /\ host[Temp(download[c].file)] # None
         /\ jsonResult[c] # None =>
              /\ coreAnswer[c] = "success" /\ job[c] # None /\ jsonResult[c].scene = job[c]
              /\ \/ jsonResult[c].path \in {None, Work(c)}
                 \/ /\ download[c] # None /\ jsonResult[c].path = Temp(download[c].file)
                    /\ host[jsonResult[c].path] = job[c]
    /\ \A c, d \in Calls : c # d /\ download[c] # None /\ download[d] # None =>
         download[c].file # download[d].file

Bypassed(c) ==
    /\ outcome[c].via = "bypass" /\ request[c].path \in HostInputs
    /\ outcome[c].scene = Stem(c) /\ outcome[c].path = Input(request[c].path)
    /\ IsMesh(request[c].path) => Siblings(request[c].path) = {}

Processed(c) ==
    /\ outcome[c].via = "core" /\ coreStatus[c] = "closed" /\ jsonResult[c] # None
    /\ outcome[c].scene = job[c] /\ outcome[c].path = jsonResult[c].path
    /\ outcome[c].path \in HostFiles => outcome[c].path \in registered

Returned ==
    \A c \in Calls :
        /\ pc[c] # "idle" /\ request[c].path \in HostInputs => Input(request[c].path) \in registered
        /\ Succeeded(c) => pc[c] # "idle" /\ (Bypassed(c) \/ Processed(c))

EdgeInv == EdgeTypes /\ Stored /\ Told /\ Reported /\ Returned

LEMMA InitEdge == Init => EdgeInv
<1> SUFFICES ASSUME Init PROVE EdgeInv
  OBVIOUS
<1>1. EdgeTypes
  BY InitTypes
<1>2. ASSUME NEW c \in Calls PROVE Waiting(c) = {}
  <2>1. wire[c] = <<>> /\ DOMAIN wire[c] = {}
    BY DEF Init
  <2>2. QED
    BY <2>1 DEF Waiting
<1>3. \A c \in Calls : host[Work(c)] = None
  BY Files DEF Init
<1>4. QED
  BY <1>1, <1>2, <1>3 DEF Init, EdgeInv, Stored, Told, Reported, Returned, Succeeded

LEMMA StoredStep == EdgeTypes /\ Stored /\ [Next]_vars => Stored'
<1> SUFFICES ASSUME EdgeTypes, Stored, [Next]_vars PROVE Stored'
  OBVIOUS
<1> USE DEF EdgeTypes, coreVars, storeVars, Stem
<1>0. /\ objectKey \in [Calls -> ObjectKeys \cup {None}] /\ None \notin ObjectKeys
      /\ raw \in [ObjectKeys -> MaybeScene] /\ job \in [Calls -> MaybeScene] /\ request' = request
  BY NoneIsNothing, LastingStep DEF AppTypes, CoreTypes, Lasting
<1>1. ASSUME raw' = raw, objectKey' = objectKey, job' = job PROVE Stored'
  BY <1>0, <1>1 DEF Stored
<1>2. ASSUME NEW c \in Calls, Put(c) PROVE Stored'
  <2> PICK k \in ObjectKeys :
        /\ FreshObject(k) /\ objectKey' = [objectKey EXCEPT ![c] = k]
        /\ raw' = [raw EXCEPT ![k] = absolutePath[c].stem] \/ raw' = raw
    BY <1>2 DEF Put
  <2>1. absolutePath[c].stem = Stem(c) /\ job' = job
    BY <1>2 DEF Put, Placed
  <2>2. \A d \in Calls : objectKey[d] # k
    BY DEF FreshObject
  <2>3. raw'[k] \in {None, Stem(c)} /\ \A l \in ObjectKeys \ {k} : raw'[l] = raw[l]
    BY <1>0, <2>1 DEF FreshObject
  <2>4. QED
    BY <1>0, <2>1, <2>2, <2>3 DEF Stored
<1>3. ASSUME NEW c \in Calls, CoreFetch(c) PROVE Stored'
  <2>1. objectKey[c] \in ObjectKeys
    BY <1>3 DEF CoreFetch, Working, Placed
  <2>2. QED
    BY <1>0, <1>3, <2>1 DEF CoreFetch, appVars, Stored
<1>4. ASSUME NEW c \in Calls, Invoke(c) \/ Route(c) \/ Connect(c) \/ OpenStream(c) PROVE Stored'
  BY <1>1, <1>4 DEF Invoke, Route, Connect, OpenStream
<1>5. ASSUME NEW c \in Calls, CoreInfo(c) \/ CoreResult(c) \/ CoreError(c) \/ CoreClose(c) PROVE Stored'
  BY <1>1, <1>5 DEF CoreInfo, CoreResult, CoreError, CoreClose, appVars
<1>6. ASSUME NEW gone, Cut(gone) PROVE Stored'
  BY <1>1, <1>6 DEF Cut, appVars
<1>7. ASSUME NEW c \in Calls, RecvInfo(c) \/ RecvFailure(c) \/ RecvResult(c) \/ Fetch(c) \/ RecvEnd(c)
      PROVE  Stored'
  BY <1>1, <1>7 DEF RecvInfo, RecvFailure, RecvResult, Fetch, RecvEnd, appVars
<1>8. CASE UNCHANGED vars
  BY <1>1, <1>8 DEF vars, appVars
<1>9. QED
  BY <1>2, <1>3, <1>4, <1>5, <1>6, <1>7, <1>8 DEF Next, App, CoreStep, Deadline, LoseCore

LEMMA ToldStep == EdgeTypes /\ Told /\ [Next]_vars => Told'
<1> SUFFICES ASSUME EdgeTypes, Told, [Next]_vars PROVE Told'
  OBVIOUS
<1> USE DEF EdgeTypes
<1>0. Lasting /\ None \notin ProxyKeys
  BY LastingStep, NoneIsNothing
<1>1. \A c \in Calls : \A m \in Waiting(c) : m.type = "result" /\ m.key # None => m.key \in ProxyKeys
  <2>1. \A c \in Calls : \A m \in Waiting(c) : m \in WireMessages
    BY ElementOfSeq, LenProperties DEF Waiting, CoreTypes
  <2>2. QED
    BY <2>1 DEF WireMessages
\* A message that was true stays true; one that says nothing is true.
<1>2. ASSUME NEW c \in Calls, NEW m,
             m \in Waiting(c) \/ m \in {Info, Error, Broken}
      PROVE  /\ m.type = "eof" => coreStatus'[c] = "closed"
             /\ m.type = "result" =>
                  /\ coreAnswer'[c] = "success" /\ job'[c] # None /\ m.scene = job'[c]
                  /\ m.key # None => processed'[m.key] = job'[c]
  <2>1. CASE m \in {Info, Error, Broken}
    BY <2>1 DEF Info, Error, Broken, Message
  <2>2. CASE m \in Waiting(c)
    BY <1>0, <1>1, <2>2 DEF Told, Lasting
  <2>3. QED
    BY <1>2, <2>1, <2>2
<1>3. ASSUME \A c \in Calls : Waiting(c)' \subseteq Waiting(c) \cup {Info, Error, Broken} PROVE Told'
  BY <1>2, <1>3 DEF Told
<1>4. ASSUME wire' = wire PROVE Told'
  BY <1>3, <1>4 DEF Waiting
<1>5. ASSUME NEW c \in Calls, CoreInfo(c) \/ CoreError(c) PROVE Told'
  BY <1>3, <1>5, Delivered, MessageTypes DEF CoreInfo, CoreError
<1>6. ASSUME NEW c \in Calls, CoreClose(c) PROVE Told'
  <2>1. Waiting(c)' = Waiting(c) \cup {EOF} /\ \A d \in Calls \ {c} : Waiting(d)' = Waiting(d)
    BY <1>6, Delivered, MessageTypes DEF CoreClose
  <2>2. coreStatus'[c] = "closed" /\ EOF.type = "eof"
    BY <1>6 DEF CoreClose, Core!Close, CoreTypes, EOF, Message
  <2>3. QED
    BY <1>2, <2>1, <2>2 DEF Told
<1>7. ASSUME NEW c \in Calls, CoreResult(c) PROVE Told'
  <2> PICK made \in BOOLEAN, key \in ProxyKeys \cup {None} :
        /\ processed' = [k \in ProxyKeys |-> IF k = key THEN job[c] ELSE processed[k]]
        /\ Deliver(c, ResultOf(job[c], made, key))
    BY <1>7 DEF CoreResult
  <2> DEFINE m == ResultOf(job[c], made, key)
  <2>1. job[c] # None /\ job' = job /\ job[c] \in MaybeScene
    BY <1>7 DEF CoreResult, CoreTypes
  <2>2. coreAnswer'[c] = "success"
    BY <1>7 DEF CoreResult, CoreTypes
  <2>3. m \in WireMessages
    BY <2>1, MessageTypes
  <2>4. Waiting(c)' = Waiting(c) \cup {m} /\ \A d \in Calls \ {c} : Waiting(d)' = Waiting(d)
    BY <2>3, Delivered
  <2>5. /\ m.type = "result" /\ m.scene = job[c] /\ m.key = key
        /\ key # None => processed'[key] = job[c]
    BY DEF ResultOf
  <2>6. QED
    BY <1>2, <2>1, <2>2, <2>4, <2>5 DEF Told
<1>8. ASSUME NEW gone \in SUBSET Calls, Cut(gone) PROVE Told'
  BY <1>3, <1>8, CutStreams
<1>9. ASSUME NEW c \in Calls, NEW type, Recv(c, type) PROVE Told'
  BY <1>3, <1>9, Received
<1>10. Streaming \subseteq Calls
  BY DEF Streaming
<1>11. ASSUME NEW c \in Calls, RecvInfo(c) \/ RecvFailure(c) \/ RecvResult(c) \/ RecvEnd(c) PROVE Told'
  BY <1>9, <1>11 DEF RecvInfo, RecvFailure, RecvResult, RecvEnd
<1>12. ASSUME NEW c \in Calls, Invoke(c) \/ Route(c) \/ Connect(c) \/ Put(c) \/ OpenStream(c) \/ Fetch(c)
                               \/ CoreFetch(c)
       PROVE  Told'
  BY <1>4, <1>12 DEF Invoke, Route, Connect, Put, OpenStream, Fetch, CoreFetch
<1>13. CASE UNCHANGED vars
  BY <1>4, <1>13 DEF vars
<1>14. QED
  BY <1>5, <1>6, <1>7, <1>8, <1>10, <1>11, <1>12, <1>13 DEF Next, App, CoreStep, Deadline, LoseCore

\* The files of the host change in three ways only.
LEMMA HostFacts ==
    ASSUME EdgeTypes
    PROVE  /\ \A c \in Calls : host[Work(c)] \in MaybeScene \cup {"empty"}
           /\ \A c \in Calls : download[c] # None => download[c].file \in Temps /\ download[c].key \in ProxyKeys
           /\ host \in [OtherFiles -> MaybeScene \cup {"empty"}]
  BY Files DEF EdgeTypes, AppTypes, CoreTypes, Downloads

LEMMA ReportedStep == EdgeTypes /\ Told /\ Reported /\ [Next]_vars => Reported'
<1> SUFFICES ASSUME EdgeTypes, Told, Reported, [Next]_vars PROVE Reported'
  OBVIOUS
<1> USE DEF EdgeTypes
<1>0. /\ Lasting /\ None \notin ProxyKeys /\ None \notin Temps /\ None \notin Downloads
      /\ jsonResult \in [Calls -> Telemetries \cup {None}]
      /\ download \in [Calls -> Downloads \cup {None}]
      /\ job \in [Calls -> MaybeScene] /\ processed \in [ProxyKeys -> MaybeScene]
  BY LastingStep, NoneIsNothing, NoneIsNoRecord DEF AppTypes, CoreTypes
\* A step that leaves reports, downloads and files alone.
<1>1. ASSUME jsonResult' = jsonResult, download' = download, host' = host PROVE Reported'
  BY <1>0, <1>1, HostFacts DEF Reported, Lasting
<1>2. ASSUME NEW c \in Calls, CoreResult(c) PROVE Reported'
  <2>1. /\ jsonResult' = jsonResult /\ download' = download /\ job' = job
        /\ host' = host \/ host' = [host EXCEPT ![Work(c)] = job[c]]
    BY <1>2 DEF CoreResult, appVars
  <2>2. \A f \in OtherFiles : f # Work(c) => host'[f] = host[f]
    BY <2>1, HostFacts
  <2>3. host'[Work(c)] # None => host'[Work(c)] = job[c]
    BY <2>1, HostFacts, Files DEF Reported
  <2>4. coreAnswer[c] = "none"
    BY <1>2 DEF CoreResult, Core!Reply
  <2>5. \A d \in Calls : download[d] # None => host'[Temp(download[d].file)] = host[Temp(download[d].file)]
    BY <2>2, HostFacts, Files
  <2>6. \A d \in Calls : host'[Work(d)] # None => host'[Work(d)] = job[d]
    BY <2>2, <2>3, Files DEF Reported
  <2>7. QED
    BY <1>0, <2>1, <2>4, <2>5, <2>6, HostFacts DEF Reported, Lasting
<1>3. ASSUME NEW c \in Calls, RecvResult(c) PROVE Reported'
  <2> DEFINE m == Head(wire[c])
  <2>1. /\ m \in Waiting(c) /\ m \in WireMessages /\ m.type = "result"
    BY <1>3, Received DEF RecvResult
  <2>2. /\ coreAnswer[c] = "success" /\ job[c] # None /\ m.scene = job[c]
        /\ m.key # None => m.key \in ProxyKeys /\ processed[m.key] = job[c]
    BY <2>1 DEF Told, WireMessages
  <2>3. /\ jsonResult' = [jsonResult EXCEPT ![c] = Telemetry(m.scene, IF m.proxy THEN Work(c) ELSE None)]
        /\ UNCHANGED <<coreAnswer, job, processed>>
    BY <1>3 DEF RecvResult, coreVars, storeVars
  <2>4. jsonResult'[c].scene = job[c] /\ jsonResult'[c].path \in {None, Work(c)}
        /\ \A d \in Calls \ {c} : jsonResult'[d] = jsonResult[d]
    BY <1>0, <2>2, <2>3 DEF Telemetry
  <2>5. CASE download' = download /\ host' = host
    BY <1>0, <2>2, <2>3, <2>4, <2>5, HostFacts DEF Reported
  <2>6. CASE \E t \in Temps :
               /\ m.key # None /\ FreshTemp(t)
               /\ host' = [host EXCEPT ![Temp(t)] = "empty"]
               /\ download' = [download EXCEPT ![c] = [key |-> m.key, file |-> t]]
    <3> PICK t \in Temps :
          /\ m.key # None /\ FreshTemp(t)
          /\ host' = [host EXCEPT ![Temp(t)] = "empty"]
          /\ download' = [download EXCEPT ![c] = [key |-> m.key, file |-> t]]
      BY <2>6
    <3>1. host[Temp(t)] = None /\ host'[Temp(t)] = "empty" /\ "empty" # None
      BY HostFacts, Files, NoneIsNothing DEF FreshTemp
    <3>2. \A f \in OtherFiles : f # Temp(t) => host'[f] = host[f]
      BY HostFacts
    <3>3. \A d \in Calls : host'[Work(d)] = host[Work(d)]
      BY <3>2, Files
    <3>4. \A d \in Calls : download[d] # None => download[d].file # t
      BY <3>1 DEF Reported
    <3>5. \A d \in Calls : download[d] # None => host'[Temp(download[d].file)] = host[Temp(download[d].file)]
      BY <3>2, <3>4, HostFacts, Files
    <3>6. download'[c] = [key |-> m.key, file |-> t] /\ \A d \in Calls \ {c} : download'[d] = download[d]
      BY <1>0
    <3>7. \A d \in Calls :
            /\ host'[Work(d)] # None => host'[Work(d)] = job'[d]
            /\ download'[d] # None => /\ job'[d] # None /\ processed'[download'[d].key] = job'[d]
                                      /\ host'[Temp(download'[d].file)] # None
      BY <2>2, <2>3, <3>1, <3>3, <3>5, <3>6 DEF Reported
    <3>8. \A d \in Calls : jsonResult'[d] # None =>
              /\ coreAnswer'[d] = "success" /\ job'[d] # None /\ jsonResult'[d].scene = job'[d]
              /\ \/ jsonResult'[d].path \in {None, Work(d)}
                 \/ /\ download'[d] # None /\ jsonResult'[d].path = Temp(download'[d].file)
                    /\ host'[jsonResult'[d].path] = job'[d]
      BY <2>2, <2>3, <2>4, <3>5, <3>6 DEF Reported
    <3>9. \A d, e \in Calls : d # e /\ download'[d] # None /\ download'[e] # None =>
              download'[d].file # download'[e].file
      BY <3>4, <3>6 DEF Reported
    <3>10. QED
      BY <3>7, <3>8, <3>9 DEF Reported
  <2>7. QED
    BY <1>3, <2>5, <2>6 DEF RecvResult
<1>4. ASSUME NEW c \in Calls, Fetch(c) PROVE Reported'
  <2> DEFINE f == Temp(download[c].file)
  <2>1. download[c] # None /\ jsonResult[c] # None
    BY <1>4 DEF Fetch, AppTypes
  <2>2. /\ download[c].file \in Temps /\ f \in OtherFiles /\ processed[download[c].key] = job[c]
        /\ job[c] # None
    BY <2>1, HostFacts, Files DEF Reported
  <2>3. download' = download /\ UNCHANGED <<coreAnswer, job, processed>>
    BY <1>4 DEF Fetch, coreVars, storeVars
  <2>4. CASE jsonResult' = jsonResult /\ host' = host
    BY <1>1, <2>3, <2>4
  <2>5. CASE /\ host' = [host EXCEPT ![f] = processed[download[c].key]]
             /\ jsonResult' = [jsonResult EXCEPT ![c].path = f]
    <3>1. host'[f] = job[c] /\ \A g \in OtherFiles : g # f => host'[g] = host[g]
      BY <2>2, <2>5, HostFacts
    <3>2. \A d \in Calls : host'[Work(d)] = host[Work(d)]
      BY <2>2, <3>1, Files
    <3>3. \A d \in Calls \ {c} : download[d] # None =>
            host'[Temp(download[d].file)] = host[Temp(download[d].file)]
      BY <2>1, <2>2, <3>1, HostFacts, Files DEF Reported
    <3>4. /\ jsonResult'[c].path = f /\ jsonResult'[c].scene = jsonResult[c].scene
          /\ \A d \in Calls \ {c} : jsonResult'[d] = jsonResult[d]
      BY <1>0, <2>1, <2>5 DEF Telemetries
    <3>5. QED
      BY <2>1, <2>2, <2>3, <3>1, <3>2, <3>3, <3>4 DEF Reported
  <2>6. QED
    BY <1>4, <2>4, <2>5 DEF Fetch
<1>5. ASSUME NEW c \in Calls, Invoke(c) \/ Route(c) \/ Connect(c) \/ Put(c) \/ OpenStream(c) PROVE Reported'
  BY <1>1, <1>5 DEF Invoke, Route, Connect, Put, OpenStream
<1>6. ASSUME NEW c \in Calls, CoreInfo(c) \/ CoreFetch(c) \/ CoreError(c) \/ CoreClose(c) PROVE Reported'
  BY <1>1, <1>6 DEF CoreInfo, CoreFetch, CoreError, CoreClose, appVars
<1>7. ASSUME NEW gone, Cut(gone) PROVE Reported'
  BY <1>1, <1>7 DEF Cut, appVars
<1>8. ASSUME NEW c \in Calls, RecvInfo(c) \/ RecvFailure(c) \/ RecvEnd(c) PROVE Reported'
  BY <1>1, <1>8 DEF RecvInfo, RecvFailure, RecvEnd, appVars
<1>9. CASE UNCHANGED vars
  BY <1>1, <1>9 DEF vars, appVars
<1>10. QED
  BY <1>2, <1>3, <1>4, <1>5, <1>6, <1>7, <1>8, <1>9 DEF Next, App, CoreStep, Deadline, LoseCore

\* A file that a result names is not created by somebody else's step: it is there
\* when the call returns, or never.
LEMMA NoNewFile ==
    ASSUME EdgeTypes, Told, Reported, [Next]_vars, NEW c \in Calls,
           jsonResult[c] # None, outcome[c] # None, jsonResult[c].path \in HostFiles'
    PROVE  jsonResult[c].path \in HostFiles
<1> DEFINE path == jsonResult[c].path
<1>1. /\ coreAnswer[c] = "success"
      /\ \/ path \in {None, Work(c)}
         \/ /\ download[c] # None /\ path = Temp(download[c].file)
            /\ host[path] = job[c] /\ job[c] # None
  BY DEF Reported
<1>2. CASE path = None
  BY <1>2, Files, NoneIsNoFile DEF HostFiles, AnyFile
<1>3. CASE download[c] # None /\ path = Temp(download[c].file) /\ host[path] # None
  BY <1>3, HostFacts, Files DEF HostFiles
<1>4. CASE path = Work(c)
  <2>1. host'[Work(c)] # None
    BY <1>4, Files DEF HostFiles
  <2>2. host'[Work(c)] = host[Work(c)]
    <3>1. ASSUME NEW d \in Calls, CoreResult(d) PROVE host'[Work(c)] = host[Work(c)]
      <4>1. d # c
        BY <1>1, <3>1 DEF CoreResult, Core!Reply
      <4>2. QED
        BY <3>1, <4>1, HostFacts, Files DEF CoreResult
    <3>2. ASSUME NEW d \in Calls, RecvResult(d) PROVE host'[Work(c)] = host[Work(c)]
      BY <3>2, HostFacts, Files DEF RecvResult
    <3>3. ASSUME NEW d \in Calls, Fetch(d) PROVE host'[Work(c)] = host[Work(c)]
      <4>1. download[d].file \in Temps
        BY <3>3, HostFacts DEF Fetch, EdgeTypes, AppTypes
      <4>2. QED
        BY <3>3, <4>1, HostFacts, Files DEF Fetch
    <3>4. ASSUME NEW d \in Calls, Invoke(d) \/ Route(d) \/ Connect(d) \/ Put(d) \/ OpenStream(d) \/ RecvInfo(d)
                                  \/ RecvFailure(d) \/ RecvEnd(d)
          PROVE  host' = host
      BY <3>4 DEF Invoke, Route, Connect, Put, OpenStream, RecvInfo, RecvFailure, RecvEnd
    <3>5. ASSUME NEW d \in Calls, CoreInfo(d) \/ CoreFetch(d) \/ CoreError(d) \/ CoreClose(d) PROVE host' = host
      BY <3>5 DEF CoreInfo, CoreFetch, CoreError, CoreClose
    <3>6. ASSUME NEW gone, Cut(gone) PROVE host' = host
      BY <3>6 DEF Cut
    <3>7. QED
      BY <3>1, <3>2, <3>3, <3>4, <3>5, <3>6 DEF Next, App, CoreStep, Deadline, LoseCore, vars
  <2>3. QED
    BY <1>4, <2>1, <2>2, Files DEF HostFiles
<1>5. QED
  BY <1>1, <1>2, <1>3, <1>4

LEMMA ReturnedStep == EdgeTypes /\ Told /\ Reported /\ Returned /\ [Next]_vars => Returned'
<1> SUFFICES ASSUME EdgeTypes, Told, Reported, Returned, [Next]_vars PROVE Returned'
  OBVIOUS
<1> USE DEF Goto, Return, Stem
<1>0. /\ Lasting /\ DOMAIN outcome = Calls /\ pc \in [Calls -> EdgePoints]
      /\ \A c \in Calls : outcome[c] # None => pc[c] = "returned"
      /\ \A c \in Calls : request[c].path # None => request[c].path \in HostInputs
      /\ \A c \in Calls : request[c].path \in HostInputs => request[c].path # None
  BY LastingStep, AssetTypes DEF EdgeTypes, AppTypes, Placed
\* What has returned stays as it is.
<1>1. ASSUME NEW c \in Calls, Succeeded(c) PROVE outcome'[c] = outcome[c] /\ (Bypassed(c)' \/ Processed(c)')
  <2>1. outcome[c] # None /\ outcome'[c] = outcome[c] /\ jsonResult'[c] = jsonResult[c]
    BY <1>0, <1>1 DEF Succeeded, Lasting
  <2>2. CASE Bypassed(c)
    BY <1>0, <2>1, <2>2 DEF Bypassed, Lasting
  <2>3. CASE Processed(c)
    <3>1. /\ coreStatus'[c] = "closed" /\ job'[c] = job[c]
      BY <1>0, <2>3 DEF Processed, Lasting, Reported
    <3>2. outcome[c].path \in HostFiles' => outcome[c].path \in registered'
      BY <1>0, <2>1, <2>3, NoNewFile DEF Processed, Lasting
    <3>3. QED
      BY <2>1, <2>3, <3>1, <3>2 DEF Processed
  <2>4. QED
    BY <1>1, <2>2, <2>3 DEF Returned
\* So only a call that returns now has to be looked at, and one that begins.
<1>2. ASSUME \A c \in Calls : Succeeded(c)' => Succeeded(c) \/ Bypassed(c)' \/ Processed(c)',
             \A c \in Calls : Succeeded(c)' => pc'[c] # "idle",
             \A c \in Calls : pc'[c] # "idle" /\ request[c].path \in HostInputs =>
                                pc[c] # "idle" \/ Input(request[c].path) \in registered'
      PROVE  Returned'
  BY <1>0, <1>1, <1>2 DEF Returned, Lasting
<1>3. ASSUME outcome' = outcome, \A c \in Calls : pc'[c] = "idle" <=> pc[c] = "idle" PROVE Returned'
  BY <1>0, <1>2, <1>3 DEF Succeeded
<1>4. ASSUME NEW c \in Calls, Invoke(c) PROVE Returned'
  <2>1. request[c].path \in HostInputs => Input(request[c].path) \in registered'
    BY <1>4 DEF Invoke, Register, HostFiles
  <2>2. outcome' = outcome /\ pc'[c] = "routing" /\ \A d \in Calls \ {c} : pc'[d] = pc[d]
    BY <1>0, <1>4 DEF Invoke
  <2>3. QED
    BY <1>0, <1>2, <2>1, <2>2 DEF Succeeded
<1>5. ASSUME NEW c \in Calls, outcome' = [outcome EXCEPT ![c] = Failure], pc' = [pc EXCEPT ![c] = "returned"],
             pc[c] # "idle"
      PROVE  Returned'
  <2>1. ~Succeeded(c)' /\ \A d \in Calls \ {c} : outcome'[d] = outcome[d] /\ pc'[d] = pc[d]
    BY <1>0, <1>5 DEF Succeeded, Failure
  <2>2. pc'[c] # "idle"
    BY <1>0, <1>5
  <2>3. QED
    BY <1>0, <1>2, <1>5, <2>1, <2>2 DEF Succeeded
<1>6. ASSUME NEW c \in Calls, Route(c) PROVE Returned'
  <2> DEFINE path == request[c].path
  <2>1. CASE Refuse(c)
    BY <1>5, <1>6, <2>1 DEF Route, Refuse
  <2>2. CASE \E p \in HostInputs : Process(c, p)
    BY <1>0, <1>3, <1>6, <2>2 DEF Route, Process
  <2>3. CASE Bypass(c, path) /\ path # None /\ (IsMesh(path) => Siblings(path) = {})
    <3>1. outcome'[c] = Success("bypass", Telemetry(path.stem, Input(path)))
          /\ pc'[c] = "returned" /\ pc[c] = "routing"
          /\ \A d \in Calls \ {c} : outcome'[d] = outcome[d] /\ pc'[d] = pc[d]
      BY <1>0, <1>6, <2>3 DEF Route, Bypass
    <3>2. Bypassed(c)'
      BY <1>0, <2>3, <3>1 DEF Bypassed, Success, Telemetry, Lasting
    <3>3. QED
      BY <1>0, <1>2, <3>1, <3>2 DEF Succeeded
  <2>4. Siblings(path) \subseteq HostInputs
    BY DEF Siblings
  <2>5. IsSplat(path) => ~IsMesh(path)
    BY DEF IsSplat, IsMesh
  <2>6. QED
    BY <1>0, <1>6, <2>1, <2>2, <2>3, <2>4, <2>5 DEF Route
<1>7. ASSUME NEW c \in Calls, Connect(c) \/ Put(c) \/ OpenStream(c) PROVE Returned'
  BY <1>0, <1>3, <1>5, <1>7 DEF Connect, Put, OpenStream
<1>8. ASSUME NEW c \in Calls, RecvFailure(c) PROVE Returned'
  <2>1. pc[c] = "receiving"
    BY <1>8 DEF RecvFailure, Recv
  <2>2. QED
    BY <1>5, <1>8, <2>1 DEF RecvFailure, Leave
<1>9. ASSUME NEW c \in Calls, RecvEnd(c) PROVE Returned'
  <2>1. Recv(c, "eof") /\ pc[c] = "receiving" /\ jsonResult' = jsonResult /\ host' = host /\ job' = job
    BY <1>9 DEF RecvEnd, Recv
  <2>2. coreStatus[c] = "closed" /\ coreStatus'[c] = "closed"
    BY <1>0, <2>1, Received DEF Told, EdgeTypes, Lasting
  <2>3. CASE jsonResult[c] = None
    BY <1>5, <1>9, <2>1, <2>3 DEF RecvEnd, Leave
  <2>4. CASE jsonResult[c] # None
    <3>1. /\ outcome'[c] = Success("core", jsonResult[c]) /\ pc'[c] = "returned"
          /\ \A d \in Calls \ {c} : outcome'[d] = outcome[d] /\ pc'[d] = pc[d]
          /\ registered' = registered \cup ({jsonResult[c].path} \cap HostFiles)
      BY <1>0, <1>9, <2>4 DEF RecvEnd, Leave, Register
    <3>2. HostFiles' = HostFiles
      BY <2>1 DEF HostFiles
    <3>3. jsonResult[c].scene = job[c]
      BY <2>4 DEF Reported
    <3>4. Processed(c)'
      BY <2>1, <2>2, <2>4, <3>1, <3>2, <3>3 DEF Processed, Success
    <3>5. QED
      BY <1>0, <1>2, <2>1, <3>1, <3>4 DEF Succeeded
  <2>5. QED
    BY <2>3, <2>4
<1>10. ASSUME NEW c \in Calls, RecvInfo(c) \/ RecvResult(c) \/ Fetch(c) PROVE Returned'
  BY <1>0, <1>3, <1>10 DEF RecvInfo, RecvResult, Recv, Fetch, appVars
<1>11. ASSUME NEW c \in Calls, CoreStep(c) PROVE Returned'
  BY <1>3, <1>11 DEF CoreStep, CoreInfo, CoreFetch, CoreResult, CoreError, CoreClose, appVars
<1>12. ASSUME NEW gone, Cut(gone) PROVE Returned'
  BY <1>3, <1>12 DEF Cut, appVars
<1>13. CASE UNCHANGED vars
  BY <1>3, <1>13 DEF vars, appVars
<1>14. QED
  BY <1>4, <1>6, <1>7, <1>8, <1>9, <1>10, <1>11, <1>12, <1>13 DEF Next, App, Deadline, LoseCore

\* The inductive invariant: types, what the stores hold, what the messages say, what a
\* call reports and what it returned.
THEOREM EdgeInvariance == Spec => []EdgeInv
<1>1. EdgeInv /\ [Next]_vars => EdgeInv'
  BY TypeStep, StoredStep, ToldStep, ReportedStep, ReturnedStep DEF EdgeInv
<1>2. QED
  BY InitEdge, <1>1, PTL DEF Spec

----------------------------------------------------------------------------
(***************************************************************************)
(* What the dashboard can rely on.                                         *)
(***************************************************************************)

\* A call returns what was made of the asset it was given, whatever other calls,
\* failed downloads and reused names there are.
THEOREM OutcomesCorrect == Spec => []OutcomeOfRequest
<1>1. EdgeInv => OutcomeOfRequest
  <2> SUFFICES ASSUME EdgeInv, NEW c \in Calls, Succeeded(c)
               PROVE  /\ outcome[c].scene = request[c].path.stem
                      /\ outcome[c].path \in OtherFiles =>
                           host[outcome[c].path] \in {outcome[c].scene}
                               \cup (IF outcome[c].path = Work(c) THEN {None} ELSE {})
    BY DEF OutcomeOfRequest
  <2>1. Bypassed(c) \/ Processed(c)
    BY DEF EdgeInv, Returned
  <2>2. CASE Bypassed(c)
    BY <2>2, Files DEF Bypassed, Stem
  <2>3. CASE Processed(c)
    <3>1. /\ outcome[c].scene = job[c] /\ outcome[c].path = jsonResult[c].path /\ jsonResult[c] # None
      BY <2>3 DEF Processed
    <3>2. job[c] # None /\ job[c] = Stem(c)
      BY <3>1 DEF EdgeInv, Reported, Stored
    <3>3. \/ outcome[c].path = None
          \/ outcome[c].path = Work(c) /\ host[Work(c)] \in {job[c], None}
          \/ host[outcome[c].path] = job[c]
      BY <3>1 DEF EdgeInv, Reported
    <3>4. None \notin OtherFiles
      BY NoneIsNoFile DEF AnyFile
    <3>5. QED
      BY <3>1, <3>2, <3>3, <3>4 DEF Stem
  <2>4. QED
    BY <2>1, <2>2, <2>3
<1>2. QED
  BY EdgeInvariance, <1>1, PTL

\* What is returned can be shown: its file, if there is one, is registered.
THEOREM PreviewsCorrect == Spec => []PreviewRegistered
<1>1. EdgeInv => PreviewRegistered
  BY DEF EdgeInv, Returned, Bypassed, Processed, PreviewRegistered
<1>2. QED
  BY EdgeInvariance, <1>1, PTL

\* A stream that is cut after its result is no success.
THEOREM SuccessesComplete == Spec => []SuccessIsComplete
<1>1. EdgeInv => SuccessIsComplete
  BY DEF EdgeInv, Returned, Bypassed, Processed, Reported, SuccessIsComplete
<1>2. QED
  BY EdgeInvariance, <1>1, PTL

\* Extensions that are spelled in lower case.
LowerCase == \A p \in HostInputs : p.ext = Lower(p.ext)

\* A mesh with a USDZ beside it is processed, if its extension is spelled in lower
\* case: the condition the code needs and its comment does not state.
THEOREM TwinsCorrect == Spec => [](LowerCase => TwinProcessed)
<1>1. EdgeInv => (LowerCase => TwinProcessed)
  BY DEF EdgeInv, Returned, Bypassed, Processed, LowerCase, TwinProcessed, Siblings
<1>2. QED
  BY EdgeInvariance, <1>1, PTL

----------------------------------------------------------------------------
(***************************************************************************)
(* To the dashboard each call is one of the same contract, and none ever   *)
(* breaks.                                                                 *)
(***************************************************************************)
LEMMA ResultsAreRecords ==
    /\ Failure # None /\ Failure.ok = FALSE
    /\ \A via \in {"bypass", "core"} : \A t \in Telemetries :
         Success(via, t) # None /\ Success(via, t).ok = TRUE
<1>1. \A via \in {"bypass", "core"} : \A t \in Telemetries : Success(via, t) \in Outcomes
  BY DEF Success, Telemetries, Outcomes
<1>2. Failure \in Outcomes
  BY DEF Failure, Outcomes, MaybeScene
<1>3. QED
  BY <1>1, <1>2, NoneIsNoRecord DEF Failure, Success

\* A call that returns something is answered and closed.
LEMMA ReturnAnswers ==
    ASSUME EdgeTypes, NEW c \in Calls, pc[c] \notin {"idle", "returned"},
           NEW result, result # None, result.ok \in BOOLEAN, Return(c, result)
    PROVE  Dashboard!Reply(c)
<1>1. outcome[c] = None /\ pc \in [Calls -> EdgePoints] /\ DOMAIN outcome = Calls
  BY DEF EdgeTypes, AppTypes, Placed
<1>2. InvocationStatus(c) = "open" /\ InvocationAnswer(c) = "none"
  BY <1>1 DEF InvocationStatus, InvocationAnswer
<1>3. pc'[c] = "returned" /\ \A d \in Calls : d # c => pc'[d] = pc[d]
  BY <1>1 DEF Return, Goto
<1>4. outcome'[c] = result /\ \A d \in Calls : d # c => outcome'[d] = outcome[d]
  <2>1. outcome' = [outcome EXCEPT ![c] = result]
    BY DEF Return
  <2>2. QED
    BY <1>1, <2>1
<1>5. InvocationStatus(c)' = "closed" /\ InvocationAnswer(c)' \in {"success", "failure"}
  BY <1>3, <1>4 DEF InvocationStatus, InvocationAnswer
<1>6. \A d \in Calls : d # c =>
        InvocationStatus(d)' = InvocationStatus(d) /\ InvocationAnswer(d)' = InvocationAnswer(d)
  BY <1>3, <1>4 DEF InvocationStatus, InvocationAnswer
<1>7. QED
  BY <1>2, <1>5, <1>6 DEF Dashboard!Reply

\* A step within a call, or of the Core.
LEMMA InvocationStutter ==
    ASSUME UNCHANGED outcome,
           \A c \in Calls : \/ pc'[c] = pc[c]
                            \/ pc[c] \notin {"idle", "returned"} /\ pc'[c] \notin {"idle", "returned"}
    PROVE  UNCHANGED <<[c \in Calls |-> InvocationStatus(c)], [c \in Calls |-> InvocationAnswer(c)]>>
<1>1. \A c \in Calls :
        InvocationStatus(c)' = InvocationStatus(c) /\ InvocationAnswer(c)' = InvocationAnswer(c)
  BY DEF InvocationStatus, InvocationAnswer
<1>2. QED
  BY <1>1

LEMMA InitInvocations == Init => Dashboard!Init
<1> SUFFICES ASSUME Init PROVE Dashboard!Init
  OBVIOUS
<1>1. \A c \in Calls : InvocationStatus(c) = "idle" /\ InvocationAnswer(c) = "none"
  BY DEF Init, InvocationStatus, InvocationAnswer
<1>2. QED
  BY <1>1 DEF Dashboard!Init

LEMMA InvocationStep ==
    EdgeTypes /\ [Next]_vars =>
        [Dashboard!Next]_<<[c \in Calls |-> InvocationStatus(c)],
                           [c \in Calls |-> InvocationAnswer(c)]>>
<1> DEFINE Kept == UNCHANGED <<[c \in Calls |-> InvocationStatus(c)],
                               [c \in Calls |-> InvocationAnswer(c)]>>
<1> SUFFICES ASSUME EdgeTypes, [Next]_vars PROVE Dashboard!Next \/ Kept
  OBVIOUS
<1>0. pc \in [Calls -> EdgePoints]
  BY DEF EdgeTypes, AppTypes
<1>1. ASSUME UNCHANGED <<pc, outcome>> PROVE Kept
  BY <1>1, InvocationStutter
<1>2. ASSUME NEW c \in Calls, pc[c] \notin {"idle", "returned"}, UNCHANGED outcome,
             NEW point \in {"connecting", "storing", "opening", "receiving", "downloading"},
             Goto(c, point)
      PROVE  Kept
  <2>1. pc'[c] = point /\ \A d \in Calls : d # c => pc'[d] = pc[d]
    BY <1>0, <1>2 DEF Goto
  <2>2. QED
    BY <1>2, <2>1, InvocationStutter
<1>3. ASSUME NEW c \in Calls, pc[c] \notin {"idle", "returned"}, Return(c, Failure)
      PROVE  Dashboard!Next
  BY <1>3, ReturnAnswers, ResultsAreRecords DEF Dashboard!Next
<1>4. ASSUME NEW c \in Calls, pc[c] \notin {"idle", "returned"}, NEW via \in {"bypass", "core"},
             NEW t \in Telemetries, Return(c, Success(via, t))
      PROVE  Dashboard!Next
  BY <1>4, ReturnAnswers, ResultsAreRecords DEF Dashboard!Next
<1> HIDE DEF Kept
<1>5. ASSUME NEW c \in Calls, Invoke(c) PROVE Dashboard!Next
  <2>1. pc[c] = "idle" /\ pc'[c] = "routing" /\ \A d \in Calls : d # c => pc'[d] = pc[d]
    BY <1>0, <1>5 DEF Invoke, Goto
  <2>2. InvocationStatus(c) = "idle" /\ InvocationStatus(c)' = "open"
    BY <2>1 DEF InvocationStatus
  <2>3. \A d \in Calls : d # c => InvocationStatus(d)' = InvocationStatus(d)
    BY <2>1 DEF InvocationStatus
  <2>4. \A d \in Calls : InvocationAnswer(d)' = InvocationAnswer(d)
    BY <1>5 DEF Invoke, InvocationAnswer
  <2>5. Dashboard!Accept(c)
    BY <2>2, <2>3, <2>4 DEF Dashboard!Accept
  <2>6. QED
    BY <2>5 DEF Dashboard!Next
<1>6. ASSUME NEW c \in Calls, Route(c) PROVE Dashboard!Next \/ Kept
  <2> DEFINE path == request[c].path
  <2>1. pc[c] = "routing"
    BY <1>6 DEF Route
  <2>2. CASE Return(c, Failure)
    BY <1>3, <2>1, <2>2
  <2>3. ASSUME NEW p \in HostInputs, Process(c, p) PROVE Kept
    BY <1>2, <2>1, <2>3 DEF Process
  <2>4. CASE path \in HostInputs /\ Bypass(c, path)
    <3>1. Telemetry(path.stem, Input(path)) \in Telemetries
      BY <2>4, AssetTypes DEF Telemetry, Telemetries, MaybeScene, AnyFile
    <3>2. QED
      BY <1>4, <2>1, <2>4, <3>1 DEF Bypass
  <2>5. path \in HostInputs \cup {None}
    BY DEF EdgeTypes, AppTypes
  <2>6. path # None => Siblings(path) \subseteq HostInputs
    BY <2>5, AssetTypes
  <2>7. \/ Refuse(c)
        \/ path # None /\ Bypass(c, path)
        \/ path # None /\ \E p \in Siblings(path) : Process(c, p)
        \/ path # None /\ Process(c, path)
    BY <1>6 DEF Route
  <2> HIDE DEF path
  <2>8. QED
    BY <2>2, <2>3, <2>4, <2>5, <2>6, <2>7 DEF Refuse
<1>7. ASSUME NEW c \in Calls, Connect(c) \/ Put(c) \/ OpenStream(c) PROVE Dashboard!Next \/ Kept
  <2>1. pc[c] \notin {"idle", "returned"}
    BY <1>7 DEF Connect, Put, OpenStream
  <2>2. \/ Return(c, Failure)
        \/ /\ UNCHANGED outcome
           /\ Goto(c, "storing") \/ Goto(c, "opening") \/ Goto(c, "receiving")
    BY <1>7 DEF Connect, Put, OpenStream
  <2>3. QED
    BY <1>2, <1>3, <2>1, <2>2
<1>8. ASSUME NEW c \in Calls, RecvFailure(c) \/ RecvEnd(c) PROVE Dashboard!Next
  <2>1. pc[c] = "receiving"
    BY <1>8 DEF RecvFailure, RecvEnd, Recv
  <2>2. Return(c, Failure) \/ (jsonResult[c] # None /\ Return(c, Success("core", jsonResult[c])))
    BY <1>8 DEF RecvFailure, RecvEnd, Leave
  <2>3. jsonResult[c] # None => jsonResult[c] \in Telemetries
    BY DEF EdgeTypes, AppTypes
  <2>4. QED
    BY <1>3, <1>4, <2>1, <2>2, <2>3
<1>9. ASSUME NEW c \in Calls, RecvResult(c) \/ Fetch(c) PROVE Kept
  <2>1. /\ pc[c] \notin {"idle", "returned"} /\ UNCHANGED outcome
        /\ UNCHANGED pc \/ Goto(c, "downloading") \/ Goto(c, "receiving")
    BY <1>9 DEF RecvResult, Fetch, Recv
  <2>2. QED
    BY <1>1, <1>2, <2>1
<1>10. ASSUME NEW c \in Calls, RecvInfo(c) \/ CoreStep(c) \/ Deadline(c) PROVE Kept
  <2>1. UNCHANGED <<pc, outcome>>
    BY <1>10 DEF RecvInfo, CoreStep, CoreInfo, CoreFetch, CoreResult, CoreError, CoreClose, Deadline,
                 Cut, appVars
  <2>2. QED
    BY <1>1, <2>1
<1>11. CASE LoseCore \/ UNCHANGED vars
  <2>1. UNCHANGED <<pc, outcome>>
    BY <1>11 DEF LoseCore, Cut, vars, appVars
  <2>2. QED
    BY <1>1, <2>1
<1>12. QED
  BY <1>5, <1>6, <1>7, <1>8, <1>9, <1>10, <1>11 DEF Next, App

\* The safety part of EveryInvocationAnswered: App.ProcessModel answers a call of
\* the dashboard once, with a success or a failure, and only a call it was given.
THEOREM InvocationsAnsweredOnce == Spec => Dashboard!Contract
<1>1. EdgeTypes /\ [Next]_vars =>
        [Dashboard!Next]_<<[c \in Calls |-> InvocationStatus(c)],
                           [c \in Calls |-> InvocationAnswer(c)]>>
  BY InvocationStep
<1>2. EdgeInv => EdgeTypes
  BY DEF EdgeInv
<1>3. QED
  BY InitInvocations, EdgeInvariance, <1>1, <1>2, PTL DEF Spec, Dashboard!Contract
=============================================================================
