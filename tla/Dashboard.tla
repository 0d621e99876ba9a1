----------------------------- MODULE Dashboard -----------------------------
(***************************************************************************)
(* The desktop window, nequ3d-app/frontend/src/main.ts: the selected       *)
(* asset, the analyses under way, the three model viewers and the quality  *)
(* tab.  JavaScript runs one handler at a time; a handler gives way only   *)
(* where it awaits the backend or a viewer, so the steps below are the     *)
(* stretches between two such awaits.                                      *)
(*                                                                         *)
(* Selecting another asset enables the button again while an analysis is   *)
(* under way, so analyses overlap, and each of them writes to the globals  *)
(* and the viewers when its answer comes, whatever is selected by then.    *)
(***************************************************************************)
EXTENDS Naturals

CONSTANTS
    Meshes,         \* assets with a .glb or .gltf extension
    Paired,         \* the meshes with a .usdz of the same name beside them
    Stages,         \* assets with a USD extension
    MaxAnalyses,    \* bound: how often the user starts runAnalysis
    Comparison,     \* the viewers of the quality tab, viewer-orig and viewer-ntc
    None

Assets == Meshes \cup Stages
Analyses == 1..MaxAnalyses      \* the runs of runAnalysis, in the order of their start

ASSUME AssetsAssumption ==
    /\ Meshes \cap Stages = {} /\ Paired \subseteq Meshes
    /\ MaxAnalyses \in Nat
    /\ None \notin Assets \cup Analyses
    /\ "usd" \notin Comparison

VARIABLES
    currentAbsolutePath,    \* the selected asset
    disabled,               \* the analyze button
    endpoint,               \* LOCAL_FILE_ENDPOINT: "guess" or "real"
    pc,                     \* pc[a]: where runAnalysis a is
    asset,                  \* asset[a]: the asset it was started for, until it is answered
    telemetry,              \* telemetry[a]: the textures of ProcessModel's answer
                            \* and the URL its mesh was given
    currentTelemetryData,   \* the analysis whose telemetry is kept
    qualityAvailable,
    activeMode,
    timerInterval,          \* the analysis whose interval the global names
    src,                    \* src[v]: the URL given to viewer v
    loaded,                 \* loaded[v]: the URL of the model it shows
    texture,                \* texture[v]: the analysis whose texture is on it
    listeners,              \* listeners[v]: its "load" listeners, one per analysis
    creating                \* creating[v]: textures being created for v

buttonVars  == <<currentAbsolutePath, disabled>>
analysisVars == <<pc, asset, telemetry, currentTelemetryData>>
qualityVars == <<qualityAvailable, activeMode>>
viewerVars  == <<src, loaded, texture, listeners, creating>>
vars == <<buttonVars, endpoint, analysisVars, qualityVars, timerInterval, viewerVars>>

Viewers == {"usd"} \cup Comparison

(***************************************************************************)
(* localFileUrl: the endpoint known at the time, and the file.             *)
(***************************************************************************)
File(x)  == <<"asset", x>>
Proxy(a) == <<"proxy", a>>      \* the proxy an analysis returned
Beside(x) == <<"beside", x>>    \* "<stage>_proxy.glb"
Targets == {File(x) : x \in Meshes} \cup {Beside(x) : x \in Stages} \cup {Proxy(a) : a \in Analyses}
Urls    == [endpoint : {"guess", "real"}, target : Targets]
Url(target) == [endpoint |-> endpoint, target |-> target]

\* What is kept of an answer: the URL its mesh was given and its textures.
Reports == [url : Urls \cup {None}, textures : {"none", "original", "both"}]

ASSUME NoReportAssumption == None \notin Urls \cup Reports

Init ==
    /\ currentAbsolutePath = None /\ disabled = TRUE
    /\ endpoint = "guess"
    /\ pc = [a \in Analyses |-> "idle"]
    /\ asset = [a \in Analyses |-> None]
    /\ telemetry = [a \in Analyses |-> None]
    /\ currentTelemetryData = None
    /\ qualityAvailable = FALSE /\ activeMode = "mesh"
    /\ timerInterval = None
    /\ src = [v \in Viewers |-> None]
    /\ loaded = [v \in Viewers |-> None]
    /\ texture = [v \in Viewers |-> None]
    /\ listeners = [v \in Viewers |-> {}]
    /\ creating = [v \in Viewers |-> {}]

----------------------------------------------------------------------------
(***************************************************************************)
(* Selecting an asset; tabs; the preview server's address.                 *)
(***************************************************************************)

SetQualityAvailability(available) ==
    /\ qualityAvailable' = available
    /\ activeMode' = IF ~available /\ activeMode = "quality" THEN "mesh" ELSE activeMode

\* previewMeshAsset and clearMeshPreview: a viewer without a source is hidden,
\* and keeps the model it had loaded.
Show(url) == src' = [src EXCEPT !["usd"] = url]

\* routeSelectedAsset, after the dialog or the download gave a path.
Select(x) ==
    /\ currentAbsolutePath' = x /\ disabled' = FALSE
    /\ qualityAvailable' = FALSE /\ activeMode' = "mesh"
    /\ Show(IF x \in Meshes THEN Url(File(x)) ELSE None)
    /\ UNCHANGED <<endpoint, analysisVars, timerInterval, loaded, texture, listeners, creating>>

\* The path has another extension.
SelectUnsupported ==
    /\ currentAbsolutePath' = None /\ disabled' = TRUE
    /\ UNCHANGED <<endpoint, analysisVars, qualityVars, timerInterval, viewerVars>>

\* The quality tab is hidden while there is nothing to compare.
SwitchTab(mode) ==
    /\ mode = "quality" => qualityAvailable
    /\ activeMode' = mode
    /\ UNCHANGED <<buttonVars, endpoint, analysisVars, qualityAvailable, timerInterval, viewerVars>>

\* Faulty variant of LocalServerUrl: the address is stored and no more.
LocalServerUrlOnly ==
    /\ endpoint = "guess" /\ endpoint' = "real"
    /\ UNCHANGED <<buttonVars, analysisVars, qualityVars, timerInterval, viewerVars>>

\* The first "localServerUrl" event: a selected mesh is shown again.
LocalServerUrl ==
    /\ endpoint = "guess" /\ endpoint' = "real"
    /\ IF currentAbsolutePath \in Meshes
       THEN Show([endpoint |-> "real", target |-> File(currentAbsolutePath)])
       ELSE UNCHANGED src
    /\ UNCHANGED <<buttonVars, analysisVars, qualityVars, timerInterval,
                   loaded, texture, listeners, creating>>

----------------------------------------------------------------------------
(***************************************************************************)
(* runAnalysis.                                                            *)
(***************************************************************************)

\* The click, up to the await of ProcessModel.
Analyze(a) ==
    /\ pc[a] = "idle" /\ \A b \in 1..(a - 1) : pc[b] # "idle"
    /\ ~disabled /\ currentAbsolutePath # None
    /\ pc' = [pc EXCEPT ![a] = "processing"]
    /\ asset' = [asset EXCEPT ![a] = currentAbsolutePath]
    /\ disabled' = TRUE
    /\ qualityAvailable' = FALSE /\ activeMode' = "mesh"
    /\ timerInterval' = a
    /\ UNCHANGED <<currentAbsolutePath, endpoint, telemetry, currentTelemetryData, viewerVars>>

\* ProcessModel answers by itself for a mesh, unless a USDZ beside it is sent to
\* the Core in its place.
Bypassed(x) == x \in Meshes \ Paired

\* The answers of ProcessModel: a bypassed mesh is its own proxy and has no
\* textures; what the Core processed may come without a proxy, with an original
\* texture, or with both the original and the reconstructed one to compare
\* (findQualityAsset).
Answers(x) ==
    IF Bypassed(x) THEN [proxy : {TRUE}, textures : {"none"}]
    ELSE [proxy : BOOLEAN, textures : {"none", "original", "both"}]

\* resolveMeshPath: the proxy of the telemetry, or else a file that belongs to
\* what is selected now; None when nothing is.
MeshPath(a, t) ==
    IF t.proxy THEN IF Bypassed(asset[a]) THEN File(asset[a]) ELSE Proxy(a)
    ELSE IF currentAbsolutePath \in Meshes THEN File(currentAbsolutePath)
    ELSE IF currentAbsolutePath \in Stages THEN Beside(currentAbsolutePath)
    ELSE None

\* The URL of that mesh.
MeshUrl(a, t) ==
    LET path == MeshPath(a, t) IN IF path = None THEN None ELSE Url(path)

\* Faulty variant of Hydrate: the telemetry is not kept.
HydrateUnkept(a, t) ==
    /\ Show(MeshUrl(a, t))
    /\ listeners' = [listeners EXCEPT !["usd"] = @ \cup {a}]
    /\ SetQualityAvailability(FALSE)
    /\ UNCHANGED currentTelemetryData

\* hydrateViewers: the answer is kept, the mesh viewer and, if there is
\* something to compare, the two quality viewers get the new mesh and a
\* listener each.  Without a mesh the mesh viewer is hidden.
Hydrate(a, t) ==
    LET url == MeshUrl(a, t)
        compare == t.textures = "both" /\ url # None
        compared == IF compare THEN Comparison ELSE {}
        listening == compared \cup IF url = None THEN {} ELSE {"usd"}
    IN
    /\ currentTelemetryData' = a
    /\ src' = [v \in Viewers |-> IF v \in compared \cup {"usd"} THEN url ELSE src[v]]
    /\ listeners' = [v \in Viewers |-> IF v \in listening THEN listeners[v] \cup {a}
                                       ELSE listeners[v]]
    /\ SetQualityAvailability(compare)

\* ProcessModel answered: hydrateViewers, the report, and the advice begins.
Processed(a) ==
    /\ pc[a] = "processing"
    /\ \E t \in Answers(asset[a]) :
         /\ telemetry' = [telemetry EXCEPT ![a] = [url |-> MeshUrl(a, t), textures |-> t.textures]]
         /\ Hydrate(a, t)
    /\ pc' = [pc EXCEPT ![a] = "advising"] /\ asset' = [asset EXCEPT ![a] = None]
    /\ UNCHANGED <<buttonVars, endpoint, timerInterval, loaded, texture, creating>>

\* Faulty variant of Settle: the button is enabled on success only.
SettleDisabled == timerInterval' = None /\ UNCHANGED disabled

\* finally: the interval the global names is cleared, whose ever it is.
Settle ==
    /\ timerInterval' = None
    /\ disabled' = FALSE

\* ProcessModel failed, or runAdvice is over (it reports its own errors).
Finish(a) ==
    /\ pc[a] \in {"processing", "advising"}
    /\ pc' = [pc EXCEPT ![a] = "done"] /\ asset' = [asset EXCEPT ![a] = None]
    /\ Settle
    /\ UNCHANGED <<currentAbsolutePath, endpoint, telemetry, currentTelemetryData,
                   qualityVars, viewerVars>>

----------------------------------------------------------------------------
(***************************************************************************)
(* The viewers.                                                            *)
(***************************************************************************)

\* Faulty variant of Wanted: the listeners do not look at the source.
WantedByAll(v, a) == TRUE

\* "Prevent race conditions": a listener does nothing for another mesh.
Wanted(v, a) == telemetry[a].url = src[v]

\* A viewer has loaded its source.  Its listeners run once; those that want
\* this mesh start to create their texture.  Textures under creation belong to
\* the materials of the model that is gone.
Load(v) ==
    /\ src[v] # None /\ loaded[v] # src[v]
    /\ loaded' = [loaded EXCEPT ![v] = src[v]]
    /\ texture' = [texture EXCEPT ![v] = None]
    /\ creating' = [creating EXCEPT ![v] =
                       {a \in listeners[v] : Wanted(v, a) /\ telemetry[a].textures # "none"}]
    /\ listeners' = [listeners EXCEPT ![v] = {}]
    /\ UNCHANGED <<buttonVars, endpoint, analysisVars, qualityVars, timerInterval, src>>

\* createTexture resolved: the texture is applied if the source is still the
\* same; or it failed.
Texture(v, a) ==
    /\ a \in creating[v]
    /\ creating' = [creating EXCEPT ![v] = @ \ {a}]
    /\ texture' \in {texture, [texture EXCEPT ![v] = IF Wanted(v, a) THEN a ELSE @]}
    /\ UNCHANGED <<buttonVars, endpoint, analysisVars, qualityVars, timerInterval,
                   src, loaded, listeners>>

----------------------------------------------------------------------------
Next ==
    \/ \E x \in Assets : Select(x)
    \/ SelectUnsupported
    \/ \E mode \in {"mesh", "quality"} : SwitchTab(mode)
    \/ LocalServerUrl
    \/ \E a \in Analyses : Analyze(a) \/ Processed(a) \/ Finish(a)
    \/ \E v \in Viewers : Load(v) \/ \E a \in Analyses : Texture(v, a)

Spec == Init /\ [][Next]_vars

\* The backend answers every call (EdgePipeline, and the client's timeout of
\* GenerateRenovationAdvice).
FairSpec == Spec /\ \A a \in Analyses : WF_vars(Finish(a))
----------------------------------------------------------------------------
(***************************************************************************)
(* Properties.                                                             *)
(***************************************************************************)

\* A texture lies only on the model its own analysis was answered with, and the
\* proxy of an analysis carries no texture but that analysis's, in all the viewers
\* and however loads, textures and analyses overlap ("Prevent race conditions").
\* Analyses answered without a proxy share the URL of the file that was selected
\* then; a texture on that file may be of any of them.
TextureOfMesh ==
    \A v \in Viewers, a \in Analyses :
        /\ texture[v] = a => telemetry[a].url = loaded[v]
        /\ texture[v] # None /\ loaded[v].target = Proxy(a) => texture[v] = a

\* The mesh on the screen is the one the telemetry that is kept reports on: a proxy
\* in the mesh viewer is its proxy, and while the quality tab is offered, its mesh
\* is in both comparison viewers and it has both textures.  An overlapping analysis
\* replaces all of this or nothing.
ShownMeshIsReported ==
    /\ \A a \in Analyses :
         src["usd"] # None /\ src["usd"].target = Proxy(a) => currentTelemetryData = a
    /\ qualityAvailable =>
         /\ currentTelemetryData # None
         /\ LET kept == telemetry[currentTelemetryData] IN
              kept.textures = "both" /\ \A v \in Comparison : src[v] = kept.url

\* "Re-render the preview so the model actually shows": once the server's real
\* address is known, the preview of the selected mesh uses it.
PreviewReachable ==
    endpoint = "real" /\ src["usd"] # None /\ currentAbsolutePath # None
        /\ src["usd"].target = File(currentAbsolutePath) => src["usd"].endpoint = "real"

\* An asset that was selected can be analysed again in the end.
ButtonComesBack == disabled /\ currentAbsolutePath # None
                      ~> (~disabled \/ currentAbsolutePath = None)
=============================================================================
