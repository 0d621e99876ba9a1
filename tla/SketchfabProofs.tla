--------------------------- MODULE SketchfabProofs ---------------------------
(***************************************************************************)
(* Proofs about SketchfabDownload for every set of models and any number   *)
(* of downloads.                                                           *)
(***************************************************************************)
EXTENDS SketchfabDownload, TLAPS

Formats == {"usdz", "glb"}
Files == [of : 0..MaxAttempts, size : Sizes]
Underway == {"asking", "opening1", "copying1", "opening2", "copying2"}

\* A download under way is of a model, whose pair is in doubt until it succeeded.
Placed ==
    /\ pc # "idle" => uid \in Models /\ attempt > 0
    /\ pc \in Underway => uid \in doubtful

\* How old files can be: none is of a download to come, and a mesh is never newer
\* than its stage; a file that is not there is of no download.
Aged ==
    \A u \in Models :
        /\ files[u]["usdz"].of <= attempt
        /\ files[u]["glb"].of <= files[u]["usdz"].of
        /\ \A e \in Formats : files[u][e].of = 0 => files[u][e].size = "none"

\* What the download under way has brought so far.
Brought ==
    /\ pc \in {"copying1", "opening2", "copying2"} => files[uid]["usdz"].of = attempt
    /\ pc = "copying2" \/ (pc = "returned" /\ outcome = "path") => files[uid]["glb"].of = attempt
    /\ pc = "returned" /\ outcome = "path" => <<uid, "glb">> \in registered

DownloadInv == TypeOK /\ Placed /\ Aged /\ Brought /\ PairOfOneDownload /\ SelectionHasStage

LEMMA InitDownload == Init => DownloadInv
  BY BoundAssumption
  DEF Init, DownloadInv, TypeOK, Placed, Aged, Brought, PairOfOneDownload, SelectionHasStage,
      NoFile, Sizes, Message, Formats, Underway, Paths

\* A response without a file names one of the codes.
LEMMA StatusCodes == \A http \in Statuses : StatusToSketchfabCode(http) \in Codes
  BY DEF Statuses, StatusToSketchfabCode, Codes

\* Failing leaves all files, and what failed stays in doubt.
LEMMA FailKeeps ==
    ASSUME DownloadInv, NEW code \in Codes, Fail(code),
           UNCHANGED <<attempt, uid, button, status, selected, doubtful>>,
           pc \in Underway
    PROVE  DownloadInv'
<1>1. outcome' # "path" /\ outcome' \in Codes
  BY DEF Fail, Codes
<1>2. QED
  BY <1>1 DEF Fail, DownloadInv, TypeOK, Placed, Aged, Brought, PairOfOneDownload,
              SelectionHasStage, Formats, Underway

\* One file of the model under way is replaced by one of this download.
LEMMA FileTypes ==
    ASSUME TypeOK, NEW u \in Models, NEW e \in Formats, NEW f \in Files
    PROVE  /\ [files EXCEPT ![u][e] = f] \in [Models -> [Formats -> Files]]
           /\ \A v \in Models : \A d \in Formats :
                [files EXCEPT ![u][e] = f][v][d] = IF v = u /\ d = e THEN f ELSE files[v][d]
  BY DEF TypeOK, Formats, Files, Sizes

\* Creating a file of the download under way.
LEMMA CreateFile ==
    ASSUME TypeOK, Placed, pc # "idle", NEW e \in Formats, Create(e)
    PROVE  /\ files' \in [Models -> [Formats -> Files]]
           /\ \A v \in Models : \A d \in Formats :
                files'[v][d] = IF v = uid /\ d = e THEN [of |-> attempt, size |-> "empty"]
                               ELSE files[v][d]
<1> DEFINE f == [of |-> attempt, size |-> "empty"]
<1>1. f \in Files /\ uid \in Models
  BY DEF TypeOK, Placed, Files, Sizes
<1>2. files' = [files EXCEPT ![uid][e] = f]
  BY DEF Create, FileName
<1> HIDE DEF f
<1>3. /\ files' \in [Models -> [Formats -> Files]]
      /\ \A v \in Models : \A d \in Formats :
           files'[v][d] = IF v = uid /\ d = e THEN f ELSE files[v][d]
  BY <1>1, <1>2, FileTypes
<1>4. QED
  BY <1>3 DEF f

\* A copy changes no file's download, and only the file it is a copy of.
LEMMA CopyFile ==
    ASSUME TypeOK, Placed, pc # "idle", NEW e \in Formats, Copy(e)
    PROVE  /\ files' \in [Models -> [Formats -> Files]]
           /\ \A v \in Models : \A d \in Formats :
                /\ files'[v][d].of = files[v][d].of
                /\ (v = uid /\ d = e) \/ files'[v][d] = files[v][d]
<1>1. PICK size \in {"cut", "whole"} :
        files' = [files EXCEPT ![uid][e] = [of |-> files[uid][e].of, size |-> size]]
  BY DEF Copy, FileName
<1> DEFINE f == [of |-> files[uid][e].of, size |-> size]
<1>2. uid \in Models /\ files[uid][e] \in Files
  BY DEF TypeOK, Placed, Files, Sizes, Formats
<1>3. f \in Files /\ f.of = files[uid][e].of
  BY <1>2 DEF Files, Sizes
<1>4. files' = [files EXCEPT ![uid][e] = f]
  BY <1>1
<1> HIDE DEF f
<1>5. QED
  BY <1>2, <1>3, <1>4, FileTypes

\* Each step of the backend.
LEMMA DownloadKeeps == DownloadInv /\ Download => DownloadInv'
<1> SUFFICES ASSUME DownloadInv, Download PROVE DownloadInv'
  OBVIOUS
<1> USE BoundAssumption
<1>1. CASE AskAddresses
  <2>1. ASSUME NEW http \in Statuses, Fail(StatusToSketchfabCode(http)) PROVE DownloadInv'
    BY <1>1, <2>1, StatusCodes, FailKeeps DEF AskAddresses, Underway
  <2>2. ASSUME NEW code \in {"SKETCHFAB_REQUEST", "SKETCHFAB_NETWORK", "SKETCHFAB_PARSE",
                             "SKETCHFAB_NO_USDZ", "SKETCHFAB_NO_GLB"}, Fail(code)
        PROVE  DownloadInv'
    <3>1. code \in Codes
      BY DEF Codes
    <3>2. QED
      BY <1>1, <2>2, <3>1, FailKeeps DEF AskAddresses, Underway
  <2>3. CASE pc' = "opening1" /\ UNCHANGED <<outcome, files, registered>>
    BY <1>1, <2>3 DEF AskAddresses, DownloadInv, TypeOK, Placed, Aged, Brought,
       PairOfOneDownload, SelectionHasStage, Formats, Underway
  <2>4. QED
    BY <1>1, <2>1, <2>2, <2>3 DEF AskAddresses
<1>2. CASE OpenFirst
  <2>1. CASE Fail("SKETCHFAB_DOWNLOAD")
    BY <1>2, <2>1, FailKeeps DEF OpenFirst, Open, Underway, Codes
  <2>2. CASE pc' = "copying1" /\ Create(First) /\ UNCHANGED <<outcome, registered>>
    <3>1. TypeOK /\ Placed /\ pc = "opening1" /\ First \in Formats /\ First = "usdz"
          /\ uid \in Models /\ uid \in doubtful /\ attempt > 0
          /\ UNCHANGED <<attempt, uid, button, status, selected, doubtful>>
      BY <1>2 DEF DownloadInv, OpenFirst, Open, First, Formats, Placed, Underway
    <3>2. /\ files' \in [Models -> [Formats -> Files]]
          /\ \A v \in Models : \A d \in Formats :
               files'[v][d] = IF v = uid /\ d = "usdz" THEN [of |-> attempt, size |-> "empty"]
                              ELSE files[v][d]
      BY <2>2, <3>1, CreateFile
    <3>3. TypeOK'
      BY <2>2, <3>1, <3>2 DEF TypeOK, Formats, Files, Sizes
    <3>4. Placed' /\ Brought'
      BY <2>2, <3>1, <3>2 DEF Placed, Brought, Underway, Formats
    <3>5. Aged'
      BY <3>1, <3>2 DEF DownloadInv, TypeOK, Aged, Formats
    <3>6. PairOfOneDownload'
      BY <3>1, <3>2 DEF DownloadInv, PairOfOneDownload, Formats
    <3>7. SelectionHasStage'
      BY <2>2, <3>1, <3>2, <3>5 DEF DownloadInv, SelectionHasStage, TypeOK, Aged, Paths, Formats
    <3>8. QED
      BY <3>3, <3>4, <3>5, <3>6, <3>7 DEF DownloadInv
  <2>3. QED
    BY <1>2, <2>1, <2>2 DEF OpenFirst, Open
<1>3. CASE CopyFirst
  <2>1. TypeOK /\ Placed /\ Brought /\ pc = "copying1" /\ First \in Formats
        /\ uid \in Models /\ uid \in doubtful /\ attempt > 0
        /\ files[uid]["usdz"].of = attempt
        /\ pc' = "opening2"
        /\ UNCHANGED <<attempt, uid, outcome, registered, button, status, selected, doubtful>>
    BY <1>3 DEF DownloadInv, CopyFirst, First, Formats, Placed, Underway, Brought
  <2>2. /\ files' \in [Models -> [Formats -> Files]]
        /\ \A v \in Models : \A d \in Formats :
             /\ files'[v][d].of = files[v][d].of
             /\ (v = uid /\ d = "usdz") \/ files'[v][d] = files[v][d]
    BY <1>3, <2>1, CopyFile DEF CopyFirst, First
  <2>3. TypeOK' /\ Placed' /\ Brought'
    BY <2>1, <2>2 DEF TypeOK, Placed, Brought, Underway, Formats, Files, Sizes
  <2>4. Aged' /\ PairOfOneDownload'
    BY <2>1, <2>2 DEF DownloadInv, Aged, PairOfOneDownload, Formats
  <2>5. SelectionHasStage'
    BY <2>1, <2>2 DEF DownloadInv, SelectionHasStage, TypeOK, Paths, Formats
  <2>6. QED
    BY <2>3, <2>4, <2>5 DEF DownloadInv
<1>4. CASE OpenSecond
  <2>1. CASE Fail("SKETCHFAB_DOWNLOAD")
    BY <1>4, <2>1, FailKeeps DEF OpenSecond, Open, Underway, Codes
  <2>2. CASE pc' = "copying2" /\ Create(Second) /\ UNCHANGED <<outcome, registered>>
    <3>1. TypeOK /\ Placed /\ pc = "opening2" /\ Second \in Formats /\ Second = "glb"
          /\ uid \in Models /\ uid \in doubtful /\ attempt > 0
          /\ files[uid]["usdz"].of = attempt
          /\ UNCHANGED <<attempt, uid, button, status, selected, doubtful>>
      BY <1>4 DEF DownloadInv, OpenSecond, Open, First, Second, Formats, Placed, Underway, Brought
    <3>2. /\ files' \in [Models -> [Formats -> Files]]
          /\ \A v \in Models : \A d \in Formats :
               files'[v][d] = IF v = uid /\ d = "glb" THEN [of |-> attempt, size |-> "empty"]
                              ELSE files[v][d]
      BY <2>2, <3>1, CreateFile
    <3>3. TypeOK'
      BY <2>2, <3>1, <3>2 DEF TypeOK, Formats, Files, Sizes
    <3>4. Placed' /\ Brought'
      BY <2>2, <3>1, <3>2 DEF Placed, Brought, Underway, Formats
    <3>5. Aged'
      BY <3>1, <3>2 DEF DownloadInv, TypeOK, Aged, Formats
    <3>6. PairOfOneDownload'
      BY <3>1, <3>2 DEF DownloadInv, PairOfOneDownload, Formats
    <3>7. SelectionHasStage'
      BY <2>2, <3>1, <3>2, <3>5 DEF DownloadInv, SelectionHasStage, TypeOK, Aged, Paths, Formats
    <3>8. QED
      BY <3>3, <3>4, <3>5, <3>6, <3>7 DEF DownloadInv
  <2>3. QED
    BY <1>4, <2>1, <2>2 DEF OpenSecond, Open
<1>5. CASE CopySecond
  <2>1. TypeOK /\ Placed /\ Brought /\ pc = "copying2" /\ Second \in Formats
        /\ uid \in Models /\ attempt > 0
        /\ files[uid]["usdz"].of = attempt /\ files[uid]["glb"].of = attempt
        /\ pc' = "returned" /\ outcome' = "path"
        /\ registered' = registered \cup {<<uid, "glb">>} /\ doubtful' = doubtful \ {uid}
        /\ UNCHANGED <<attempt, uid, button, status, selected>>
    BY <1>5 DEF DownloadInv, CopySecond, Register, FileName, First, Second, Formats, Placed,
       Underway, Brought
  <2>2. /\ files' \in [Models -> [Formats -> Files]]
        /\ \A v \in Models : \A d \in Formats :
             /\ files'[v][d].of = files[v][d].of
             /\ (v = uid /\ d = "glb") \/ files'[v][d] = files[v][d]
    BY <1>5, <2>1, CopyFile DEF CopySecond, First, Second
  <2>3. TypeOK'
    BY <2>1, <2>2 DEF TypeOK, Formats, Files, Sizes, Paths
  <2>4. Placed' /\ Brought'
    BY <2>1, <2>2 DEF Placed, Brought, Underway, Formats
  <2>5. Aged' /\ PairOfOneDownload'
    BY <2>1, <2>2 DEF DownloadInv, Aged, PairOfOneDownload, Formats
  <2>6. SelectionHasStage'
    BY <2>1, <2>2 DEF DownloadInv, SelectionHasStage, TypeOK, Paths, Formats
  <2>7. QED
    BY <2>3, <2>4, <2>5, <2>6 DEF DownloadInv
<1>6. QED
  BY <1>1, <1>2, <1>3, <1>4, <1>5 DEF Download

\* Each step of the window and of the user.
LEMMA WindowKeeps ==
    ASSUME DownloadInv,
           \/ ClickEmpty \/ SelectOther \/ Settle
           \/ \E u \in Models : Click(u)
           \/ \E path \in Paths : SelectFile(path)
    PROVE  DownloadInv'
<1> USE BoundAssumption
<1>1. CASE ClickEmpty
  BY <1>1 DEF ClickEmpty, Message, DownloadInv, TypeOK, Placed, Aged, Brought, PairOfOneDownload,
     SelectionHasStage
<1>2. CASE SelectOther
  BY <1>2 DEF SelectOther, DownloadInv, TypeOK, Placed, Aged, Brought, PairOfOneDownload,
     SelectionHasStage, Paths
<1>3. ASSUME NEW u \in Models, Click(u) PROVE DownloadInv'
  <2>1. TypeOK'
    <3>1. Message("connecting") \in [kind : {"blank", "missing", "connecting", "success", "error"},
                                     text : {"localized", "raw"}]
      BY DEF Message
    <3>2. attempt' \in 0..MaxAttempts /\ doubtful' \subseteq Models
      <4>1. attempt \in 0..MaxAttempts /\ doubtful \subseteq Models
        BY DEF DownloadInv, TypeOK
      <4>2. attempt < MaxAttempts /\ attempt' = attempt + 1 /\ doubtful' = doubtful \cup {u}
        BY <1>3 DEF Click
      <4>3. QED
        BY <4>1, <4>2
    <3>3. button' \in BOOLEAN
      <4>1. button' = FALSE
        BY <1>3 DEF Click
      <4>2. QED
        BY <4>1
    <3>4. files' \in [Models -> [Formats -> Files]]
      <4>1. attempt \in 0..MaxAttempts /\ files \in [Models -> [Formats -> Files]]
        BY DEF DownloadInv, TypeOK, Formats, Files
      <4>2. QED
        BY <1>3, <4>1 DEF Click
    <3>5. QED
      BY <1>3, <3>1, <3>2, <3>3, <3>4 DEF Click, DownloadInv, TypeOK, Formats, Files
  <2>2. Placed' /\ Brought'
    BY <1>3 DEF Click, DownloadInv, TypeOK, Placed, Brought, Underway
  <2>3. Aged'
    BY <1>3 DEF Click, DownloadInv, TypeOK, Aged, Formats
  <2>4. PairOfOneDownload' /\ SelectionHasStage'
    BY <1>3 DEF Click, DownloadInv, PairOfOneDownload, SelectionHasStage
  <2>5. QED
    BY <2>1, <2>2, <2>3, <2>4 DEF DownloadInv
<1>4. ASSUME NEW path \in Paths, SelectFile(path) PROVE DownloadInv'
  <2>1. TypeOK' /\ Placed' /\ Aged' /\ Brought' /\ PairOfOneDownload'
    BY <1>4 DEF SelectFile, DownloadInv, TypeOK, Placed, Aged, Brought, PairOfOneDownload
  <2>2. path[1] \in Models /\ path[2] \in Formats
    BY DEF Paths, Formats
  <2>3. files[path[1]][path[2]].of > 0
    <3>1. files[path[1]][path[2]] \in Files
      BY <2>2 DEF DownloadInv, TypeOK, Formats, Files, Sizes
    <3>2. files[path[1]][path[2]] # [of |-> 0, size |-> "none"]
      BY <1>4 DEF SelectFile, NoFile
    <3>3. files[path[1]][path[2]].of = 0 => files[path[1]][path[2]].size = "none"
      BY <2>2 DEF DownloadInv, Aged
    <3>4. \A f \in Files : f.of = 0 /\ f.size = "none" => f = [of |-> 0, size |-> "none"]
      BY DEF Files, Sizes
    <3>5. files[path[1]][path[2]].of \in Nat
      BY <3>1 DEF Files, Sizes
    <3>6. QED
      BY <3>1, <3>2, <3>3, <3>4, <3>5
  <2>4. SelectionHasStage'
    BY <1>4, <2>2, <2>3 DEF SelectFile, SelectionHasStage, DownloadInv, Aged, TypeOK, Formats
  <2>5. QED
    BY <2>1, <2>4 DEF DownloadInv
<1>5. CASE Settle
  <2>1. TypeOK'
    <3>1. /\ status' \in [kind : {"blank", "missing", "connecting", "success", "error"},
                          text : {"localized", "raw"}]
          /\ button' \in BOOLEAN
      BY <1>5 DEF Settle, EnableButton, Message, FriendlySketchfabError
    <3>2. selected' \in Paths \cup {None}
      BY <1>5 DEF Settle, DownloadInv, TypeOK, Placed, Paths
    <3>3. QED
      BY <1>5, <3>1, <3>2 DEF Settle, DownloadInv, TypeOK
  <2>2. Placed' /\ Aged' /\ Brought' /\ PairOfOneDownload'
    BY <1>5 DEF Settle, DownloadInv, Placed, Aged, Brought, PairOfOneDownload, Underway
  <2>3. SelectionHasStage'
    <3>1. CASE outcome = "path" /\ selected' = <<uid, "glb">>
      BY <1>5, <3>1 DEF Settle, DownloadInv, SelectionHasStage, Placed, Brought, Aged, TypeOK
    <3>2. CASE UNCHANGED selected
      BY <1>5, <3>2 DEF Settle, DownloadInv, SelectionHasStage
    <3>3. QED
      BY <1>5, <3>1, <3>2 DEF Settle
  <2>4. QED
    BY <2>1, <2>2, <2>3 DEF DownloadInv
<1>6. QED
  BY <1>1, <1>2, <1>3, <1>4, <1>5

LEMMA StutterDownload == DownloadInv /\ UNCHANGED vars => DownloadInv'
  BY DEF vars, DownloadInv, TypeOK, Placed, Aged, Brought, PairOfOneDownload, SelectionHasStage

LEMMA DownloadInvariant == Spec => []DownloadInv
<1>1. DownloadInv /\ [Next]_vars => DownloadInv'
  BY DownloadKeeps, WindowKeeps, StutterDownload DEF Next
<1>2. QED
  BY <1>1, InitDownload, PTL DEF Spec

\* Every variable has its type: whatever the API answers, the window gets a path or
\* one of the codes (statusToSketchfabCode).
THEOREM DownloadTypes == Spec => []TypeOK
<1>1. DownloadInv => TypeOK
  BY DEF DownloadInv
<1>2. QED
  BY <1>1, DownloadInvariant, PTL

\* Mesh and stage of a model are of one download, unless the last attempt at that
\* model failed or is under way (DownloadFromSketchfab).
THEOREM PairsCorrect == Spec => []PairOfOneDownload
<1>1. DownloadInv => PairOfOneDownload
  BY DEF DownloadInv
<1>2. QED
  BY <1>1, DownloadInvariant, PTL

\* A selected mesh may be served and has the stage that is processed in its place
\* beside it, never an older one (DownloadFromSketchfab, routeSelectedAsset).
THEOREM SelectionsCorrect == Spec => []SelectionHasStage
<1>1. DownloadInv => SelectionHasStage
  BY DEF DownloadInv
<1>2. QED
  BY <1>1, DownloadInvariant, PTL
=============================================================================
