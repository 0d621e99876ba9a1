--------------------------- MODULE DashboardProofs ---------------------------
(***************************************************************************)
(* Proofs about Dashboard for every set of assets and viewers and every    *)
(* number of overlapping analyses.                                         *)
(***************************************************************************)
EXTENDS Dashboard, TLAPS

DashboardTypes ==
    /\ currentAbsolutePath \in Assets \cup {None}
    /\ endpoint \in {"guess", "real"}
    /\ pc \in [Analyses -> {"idle", "processing", "advising", "done"}]
    /\ asset \in [Analyses -> Assets \cup {None}]
    /\ \A a \in Analyses : pc[a] = "processing" => asset[a] # None
    /\ telemetry \in [Analyses -> Reports \cup {None}]
    /\ src \in [Viewers -> Urls \cup {None}]
    /\ loaded \in [Viewers -> Urls \cup {None}]
    /\ texture \in [Viewers -> Analyses \cup {None}]
    /\ listeners \in [Viewers -> SUBSET Analyses]
    /\ creating \in [Viewers -> SUBSET Analyses]

\* Listeners and textures are of analyses that have their telemetry, which stays as it
\* is; the textures that are on a model, or on their way to it, are of the analysis the model
\* came from.  The proxies of two analyses differ, so no texture is on another's proxy.
Answered(a) == pc[a] \in {"advising", "done"} /\ telemetry[a] # None

TextureInv ==
    \A v \in Viewers :
        /\ \A a \in listeners[v] : Answered(a)
        /\ \A a \in creating[v] \cup ({texture[v]} \ {None}) :
             Answered(a) /\ loaded[v] # None /\ telemetry[a].url = loaded[v]

\* What the mesh viewer was given is no proxy but that of the telemetry that is kept; it has
\* the guessed address only as long as no other is known, or if it is not of the selected
\* asset.
PreviewInv ==
    LET url == src["usd"] IN
    url # None =>
        /\ \A a \in Analyses : url.target = Proxy(a) => currentTelemetryData = a
        /\ endpoint = "real" /\ url.endpoint = "guess" =>
             currentAbsolutePath = None \/ url.target # File(currentAbsolutePath)

\* The URL of an answer names no proxy but that of its own analysis.
OwnProxies ==
    \A a, b \in Analyses :
        telemetry[a] # None /\ telemetry[a].url # None /\ telemetry[a].url.target = Proxy(b)
          => b = a

\* While the quality tab is offered, the comparison viewers have the mesh of the telemetry
\* that is kept, which has two textures to compare.
ComparisonInv ==
    qualityAvailable =>
        /\ currentTelemetryData \in Analyses /\ Answered(currentTelemetryData)
        /\ telemetry[currentTelemetryData].textures = "both"
        /\ \A v \in Comparison : src[v] = telemetry[currentTelemetryData].url

DashboardInv == DashboardTypes /\ TextureInv /\ PreviewInv /\ OwnProxies /\ ComparisonInv

----------------------------------------------------------------------------
LEMMA UrlTypes ==
    ASSUME DashboardTypes, NEW a \in Analyses, asset[a] \in Assets, NEW t,
           t.proxy \in BOOLEAN
    PROVE  /\ MeshUrl(a, t) \in Urls \cup {None}
           /\ MeshUrl(a, t) # None =>
                /\ MeshUrl(a, t).endpoint = endpoint
                /\ \A b \in Analyses : MeshUrl(a, t).target = Proxy(b) => b = a
<1>1. MeshPath(a, t) \in Targets \cup {None}
  BY DEF DashboardTypes, MeshPath, Targets, Bypassed, File, Beside, Proxy, Assets
<1>2. \A b \in Analyses : MeshPath(a, t) = Proxy(b) /\ MeshPath(a, t) # None => b = a
  BY DEF DashboardTypes, MeshPath, File, Beside, Proxy, Assets
<1>3. \A path \in Targets :
        Url(path) \in Urls /\ Url(path).endpoint = endpoint /\ Url(path).target = path
  BY DEF DashboardTypes, Url, Urls
<1>4. MeshPath(a, t) = None => MeshUrl(a, t) = None
  BY DEF MeshUrl
<1>5. MeshPath(a, t) # None => MeshUrl(a, t) = Url(MeshPath(a, t))
  BY DEF MeshUrl
<1>6. QED
  BY <1>1, <1>2, <1>3, <1>4, <1>5

LEMMA AnswerTypes ==
    \A x \in Assets : \A t \in Answers(x) :
        t.proxy \in BOOLEAN /\ t.textures \in {"none", "original", "both"}
  BY DEF Answers

LEMMA InitDashboard == Init => DashboardInv
  BY AssetsAssumption
     DEF Init, DashboardInv, DashboardTypes, TextureInv, PreviewInv, OwnProxies, ComparisonInv,
         Answered, Viewers

\* What an answer does to the viewers.
LEMMA Hydrated ==
    ASSUME DashboardTypes, NEW a \in Analyses, NEW t, Hydrate(a, t),
           MeshUrl(a, t) \in Urls \cup {None}
    PROVE  /\ src' \in [Viewers -> Urls \cup {None}] /\ src'["usd"] = MeshUrl(a, t)
           /\ listeners' \in [Viewers -> SUBSET Analyses]
           /\ \A v \in Viewers : listeners'[v] \subseteq listeners[v] \cup {a}
           /\ currentTelemetryData' = a
<1>1. "usd" \in Viewers
  BY DEF Viewers
<1>2. QED
  BY <1>1 DEF Hydrate, DashboardTypes

LEMMA DashboardTypeStep == DashboardTypes /\ [Next]_vars => DashboardTypes'
<1> SUFFICES ASSUME DashboardTypes, [Next]_vars PROVE DashboardTypes'
  OBVIOUS
<1> USE AssetsAssumption
<1> USE DEF buttonVars, analysisVars, qualityVars, viewerVars
<1>0. "usd" \in Viewers
  BY DEF Viewers
<1>1. ASSUME NEW x \in Assets, Select(x) PROVE DashboardTypes'
  <2>1. x \in Meshes => Url(File(x)) \in Urls
    BY DEF Url, Urls, Targets, DashboardTypes
  <2>2. src' \in [Viewers -> Urls \cup {None}]
    BY <1>0, <1>1, <2>1 DEF Select, Show, DashboardTypes
  <2>3. QED
    BY <1>1, <2>2 DEF Select, DashboardTypes
<1>2. CASE SelectUnsupported
  BY <1>2 DEF SelectUnsupported, DashboardTypes
<1>3. ASSUME NEW mode, SwitchTab(mode) PROVE DashboardTypes'
  BY <1>3 DEF SwitchTab, DashboardTypes
<1>4. CASE LocalServerUrl
  <2>1. \A x \in Meshes : [endpoint |-> "real", target |-> File(x)] \in Urls
    BY DEF Urls, Targets
  <2>2. src' \in [Viewers -> Urls \cup {None}]
    BY <1>0, <1>4, <2>1 DEF LocalServerUrl, Show, DashboardTypes
  <2>3. QED
    BY <1>4, <2>2 DEF LocalServerUrl, DashboardTypes
<1>5. ASSUME NEW a \in Analyses, Analyze(a) PROVE DashboardTypes'
  BY <1>5 DEF Analyze, DashboardTypes
<1>6. ASSUME NEW a \in Analyses, Processed(a) PROVE DashboardTypes'
  <2>1. asset[a] \in Assets
    BY <1>6 DEF Processed, DashboardTypes
  <2>2. PICK t \in Answers(asset[a]) :
          /\ telemetry' = [telemetry EXCEPT ![a] = [url |-> MeshUrl(a, t), textures |-> t.textures]]
          /\ Hydrate(a, t)
    BY <1>6 DEF Processed
  <2>3. MeshUrl(a, t) \in Urls \cup {None}
    BY <2>1, AnswerTypes, UrlTypes
  <2>4. [url |-> MeshUrl(a, t), textures |-> t.textures] \in Reports
    BY <2>1, <2>3, AnswerTypes DEF Reports
  <2>5. telemetry' \in [Analyses -> Reports \cup {None}]
    BY <2>2, <2>4 DEF DashboardTypes
  <2>6. src' \in [Viewers -> Urls \cup {None}] /\ listeners' \in [Viewers -> SUBSET Analyses]
    BY <2>2, <2>3, Hydrated
  <2>7. QED
    BY <1>6, <2>1, <2>5, <2>6 DEF Processed, DashboardTypes
<1>7. ASSUME NEW a \in Analyses, Finish(a) PROVE DashboardTypes'
  BY <1>7 DEF Finish, Settle, DashboardTypes
<1>8. ASSUME NEW v \in Viewers, Load(v) PROVE DashboardTypes'
  <2>1. {a \in listeners[v] : Wanted(v, a) /\ telemetry[a].textures # "none"} \subseteq Analyses
    BY DEF DashboardTypes
  <2>2. QED
    BY <1>8, <2>1 DEF Load, DashboardTypes
<1>9. ASSUME NEW v \in Viewers, NEW a \in Analyses, Texture(v, a) PROVE DashboardTypes'
  BY <1>9 DEF Texture, DashboardTypes
<1>10. CASE UNCHANGED vars
  BY <1>10 DEF vars, DashboardTypes
<1>11. QED
  BY <1>1, <1>2, <1>3, <1>4, <1>5, <1>6, <1>7, <1>8, <1>9, <1>10 DEF Next

----------------------------------------------------------------------------
\* What an analysis has reported stays, and so does that it has.
LEMMA AnswersStay ==
    ASSUME DashboardTypes, [Next]_vars, NEW a \in Analyses, Answered(a)
    PROVE  Answered(a)' /\ telemetry'[a] = telemetry[a]
<1> USE DEF Answered, DashboardTypes, buttonVars, analysisVars, qualityVars, viewerVars
<1>1. ASSUME NEW b \in Analyses, Analyze(b) \/ Processed(b) \/ Finish(b)
      PROVE  Answered(a)' /\ telemetry'[a] = telemetry[a]
  BY <1>1 DEF Analyze, Processed, Finish
<1>2. ASSUME UNCHANGED <<pc, telemetry>> PROVE Answered(a)' /\ telemetry'[a] = telemetry[a]
  BY <1>2
<1>3. QED
  BY <1>1, <1>2 DEF Next, Select, SelectUnsupported, SwitchTab, LocalServerUrl, Load, Texture, vars

\* A call that returned has its telemetry.
LEMMA NewlyAnswered ==
    ASSUME DashboardTypes, NEW a \in Analyses, Processed(a)
    PROVE  Answered(a)'
<1>1. asset[a] \in Assets
  BY AssetsAssumption DEF Processed, DashboardTypes
<1>2. PICK t \in Answers(asset[a]) :
        telemetry' = [telemetry EXCEPT ![a] = [url |-> MeshUrl(a, t), textures |-> t.textures]]
  BY DEF Processed
<1>3. [url |-> MeshUrl(a, t), textures |-> t.textures] \in Reports
  BY <1>1, AnswerTypes, UrlTypes DEF Reports
<1>4. telemetry'[a] # None
  BY <1>2, <1>3, NoReportAssumption DEF DashboardTypes
<1>5. QED
  BY <1>4 DEF Processed, Answered, DashboardTypes

LEMMA TextureStep == DashboardTypes /\ TextureInv /\ [Next]_vars => TextureInv'
<1> SUFFICES ASSUME DashboardTypes, TextureInv, [Next]_vars PROVE TextureInv'
  OBVIOUS
<1> SUFFICES ASSUME NEW w \in Viewers
             PROVE  /\ \A a \in listeners'[w] : Answered(a)'
                    /\ \A a \in creating'[w] \cup ({texture'[w]} \ {None}) :
                         Answered(a)' /\ loaded'[w] # None /\ telemetry'[a].url = loaded'[w]
  BY DEF TextureInv
<1>0. /\ listeners[w] \subseteq Analyses /\ creating[w] \subseteq Analyses
      /\ texture[w] # None => texture[w] \in Analyses
      /\ \A a \in listeners[w] : Answered(a)
      /\ \A a \in creating[w] \cup ({texture[w]} \ {None}) :
           Answered(a) /\ loaded[w] # None /\ telemetry[a].url = loaded[w]
  BY DEF TextureInv, DashboardTypes
<1>1. ASSUME NEW a \in Analyses, Processed(a)
      PROVE  /\ \A b \in listeners'[w] : Answered(b)'
             /\ \A b \in creating'[w] \cup ({texture'[w]} \ {None}) :
                  Answered(b)' /\ loaded'[w] # None /\ telemetry'[b].url = loaded'[w]
  <2>1. listeners'[w] \subseteq listeners[w] \cup {a}
    BY <1>1, AnswerTypes, UrlTypes, Hydrated DEF Processed, DashboardTypes
  <2>2. Answered(a)'
    BY <1>1, NewlyAnswered
  <2>3. creating' = creating /\ texture' = texture /\ loaded' = loaded
    BY <1>1 DEF Processed
  <2>4. QED
    BY <1>0, <2>1, <2>2, <2>3, AnswersStay
<1>2. ASSUME NEW v \in Viewers, Load(v)
      PROVE  /\ \A b \in listeners'[w] : Answered(b)'
             /\ \A b \in creating'[w] \cup ({texture'[w]} \ {None}) :
                  Answered(b)' /\ loaded'[w] # None /\ telemetry'[b].url = loaded'[w]
  <2>1. CASE v = w
    <3>1. /\ listeners'[w] = {} /\ texture'[w] = None /\ loaded'[w] = src[w] /\ src[w] # None
          /\ creating'[w] \subseteq {a \in listeners[w] : telemetry[a].url = src[w]}
      BY <1>2, <2>1 DEF Load, Wanted, DashboardTypes
    <3>2. QED
      BY <1>0, <3>1, AnswersStay
  <2>2. CASE v # w
    <3>1. /\ listeners'[w] = listeners[w] /\ texture'[w] = texture[w] /\ loaded'[w] = loaded[w]
          /\ creating'[w] = creating[w]
      BY <1>2, <2>2 DEF Load, DashboardTypes
    <3>2. QED
      BY <1>0, <3>1, AnswersStay
  <2>3. QED
    BY <2>1, <2>2
<1>3. ASSUME NEW v \in Viewers, NEW a \in Analyses, Texture(v, a)
      PROVE  /\ \A b \in listeners'[w] : Answered(b)'
             /\ \A b \in creating'[w] \cup ({texture'[w]} \ {None}) :
                  Answered(b)' /\ loaded'[w] # None /\ telemetry'[b].url = loaded'[w]
  <2>1. /\ listeners' = listeners /\ loaded' = loaded /\ creating'[w] \subseteq creating[w]
        /\ texture'[w] = texture[w] \/ texture'[w] \in creating[w]
    BY <1>3 DEF Texture, DashboardTypes
  <2>2. QED
    BY <1>0, <2>1, AnswersStay
<1>4. ASSUME UNCHANGED <<listeners, creating, texture, loaded>>
      PROVE  /\ \A b \in listeners'[w] : Answered(b)'
             /\ \A b \in creating'[w] \cup ({texture'[w]} \ {None}) :
                  Answered(b)' /\ loaded'[w] # None /\ telemetry'[b].url = loaded'[w]
  BY <1>0, <1>4, AnswersStay
<1>5. QED
  BY <1>1, <1>2, <1>3, <1>4
     DEF Next, Select, SelectUnsupported, SwitchTab, LocalServerUrl, Analyze, Finish, vars, viewerVars

----------------------------------------------------------------------------
LEMMA PreviewStep == DashboardTypes /\ PreviewInv /\ [Next]_vars => PreviewInv'
<1> SUFFICES ASSUME DashboardTypes, PreviewInv, [Next]_vars, src'["usd"] # None
             PROVE  /\ \A b \in Analyses : src'["usd"].target = Proxy(b) => currentTelemetryData' = b
                    /\ endpoint' = "real" /\ src'["usd"].endpoint = "guess" =>
                         currentAbsolutePath' = None \/ src'["usd"].target # File(currentAbsolutePath')
  BY DEF PreviewInv
<1> DEFINE Kept == \A b \in Analyses : src'["usd"].target = Proxy(b) => currentTelemetryData' = b
           Reachable == endpoint' = "real" /\ src'["usd"].endpoint = "guess" =>
                          currentAbsolutePath' = None \/ src'["usd"].target # File(currentAbsolutePath')
<1> USE DEF buttonVars, analysisVars, qualityVars, viewerVars
<1>0. "usd" \in Viewers /\ DOMAIN src = Viewers
  BY DEF Viewers, DashboardTypes
<1>1. ASSUME NEW x \in Assets, Select(x) PROVE Kept /\ Reachable
  <2>1. src'["usd"] = Url(File(x)) /\ endpoint' = endpoint
    BY <1>0, <1>1 DEF Select, Show
  <2>2. QED
    BY <2>1 DEF Url, File, Proxy
<1>2. CASE SelectUnsupported
  BY <1>2 DEF SelectUnsupported, PreviewInv
<1>3. ASSUME NEW mode, SwitchTab(mode) PROVE Kept /\ Reachable
  BY <1>3 DEF SwitchTab, PreviewInv
<1>4. CASE LocalServerUrl
  <2>1. CASE currentAbsolutePath \in Meshes
    <3>1. src'["usd"] = [endpoint |-> "real", target |-> File(currentAbsolutePath)]
      BY <1>0, <1>4, <2>1 DEF LocalServerUrl, Show
    <3>2. QED
      BY <3>1 DEF File, Proxy
  <2>2. CASE currentAbsolutePath \notin Meshes
    <3>1. UNCHANGED <<src, currentAbsolutePath, currentTelemetryData>>
      BY <1>4, <2>2 DEF LocalServerUrl
    <3>2. src["usd"] \in Urls
      BY <1>0, <3>1 DEF DashboardTypes
    <3>3. src["usd"].target # File(currentAbsolutePath)
      BY <2>2, <3>2 DEF Urls, Targets, File, Beside, Proxy
    <3>4. QED
      BY <3>1, <3>3 DEF PreviewInv
  <2>3. QED
    BY <2>1, <2>2
<1>5. ASSUME NEW a \in Analyses, Analyze(a) \/ Finish(a) PROVE Kept /\ Reachable
  BY <1>5 DEF Analyze, Finish, PreviewInv
<1>6. ASSUME NEW a \in Analyses, Processed(a) PROVE Kept /\ Reachable
  <2>1. asset[a] \in Assets
    BY <1>6 DEF Processed, DashboardTypes
  <2>2. PICK t \in Answers(asset[a]) : Hydrate(a, t)
    BY <1>6 DEF Processed
  <2>3. /\ MeshUrl(a, t) \in Urls \cup {None}
        /\ MeshUrl(a, t) # None =>
             /\ MeshUrl(a, t).endpoint = endpoint
             /\ \A b \in Analyses : MeshUrl(a, t).target = Proxy(b) => b = a
    BY <2>1, AnswerTypes, UrlTypes
  <2>4. src'["usd"] = MeshUrl(a, t) /\ currentTelemetryData' = a /\ endpoint' = endpoint
    BY <1>6, <2>2, <2>3, Hydrated DEF Processed
  <2>5. QED
    BY <2>3, <2>4
<1>7. ASSUME NEW v \in Viewers, Load(v) \/ \E a \in Analyses : Texture(v, a) PROVE Kept /\ Reachable
  BY <1>7 DEF Load, Texture, PreviewInv
<1>8. CASE UNCHANGED vars
  BY <1>8 DEF vars, PreviewInv
<1>9. QED
  BY <1>1, <1>2, <1>3, <1>4, <1>5, <1>6, <1>7, <1>8 DEF Next

----------------------------------------------------------------------------
LEMMA OwnProxyStep == DashboardTypes /\ OwnProxies /\ [Next]_vars => OwnProxies'
<1> SUFFICES ASSUME DashboardTypes, OwnProxies, [Next]_vars, NEW a \in Analyses, NEW b \in Analyses,
                    telemetry'[a] # None, telemetry'[a].url # None,
                    telemetry'[a].url.target = Proxy(b)
             PROVE  b = a
  BY DEF OwnProxies
<1>1. CASE telemetry'[a] = telemetry[a]
  BY <1>1 DEF OwnProxies
<1>2. CASE Processed(a)
  <2>1. asset[a] \in Assets
    BY <1>2, AssetsAssumption DEF Processed, DashboardTypes
  <2>2. PICK t \in Answers(asset[a]) :
          telemetry' = [telemetry EXCEPT ![a] = [url |-> MeshUrl(a, t), textures |-> t.textures]]
    BY <1>2 DEF Processed
  <2>3. telemetry'[a].url = MeshUrl(a, t)
    BY <2>2 DEF DashboardTypes
  <2>4. QED
    BY <2>1, <2>3, AnswerTypes, UrlTypes
<1>3. telemetry'[a] = telemetry[a] \/ Processed(a)
  <2> USE DEF DashboardTypes, buttonVars, analysisVars, qualityVars, viewerVars
  <2>1. ASSUME NEW c \in Analyses, Processed(c) PROVE telemetry'[a] = telemetry[a] \/ Processed(a)
    BY <2>1 DEF Processed
  <2>2. QED
    BY <2>1 DEF Next, Select, SelectUnsupported, SwitchTab, LocalServerUrl, Analyze, Finish, Load,
                Texture, vars
<1>4. QED
  BY <1>1, <1>2, <1>3

LEMMA ComparisonStep == DashboardTypes /\ ComparisonInv /\ [Next]_vars => ComparisonInv'
<1> SUFFICES ASSUME DashboardTypes, ComparisonInv, [Next]_vars, qualityAvailable'
             PROVE  /\ currentTelemetryData' \in Analyses /\ Answered(currentTelemetryData)'
                    /\ telemetry'[currentTelemetryData'].textures = "both"
                    /\ \A v \in Comparison : src'[v] = telemetry'[currentTelemetryData'].url
  BY DEF ComparisonInv
<1> DEFINE Shown == /\ currentTelemetryData' \in Analyses /\ Answered(currentTelemetryData)'
                    /\ telemetry'[currentTelemetryData'].textures = "both"
                    /\ \A v \in Comparison : src'[v] = telemetry'[currentTelemetryData'].url
<1> USE DEF buttonVars, analysisVars, qualityVars, viewerVars
<1>1. ASSUME NEW a \in Analyses, Processed(a) PROVE Shown
  <2>1. PICK t \in Answers(asset[a]) :
          /\ telemetry' = [telemetry EXCEPT ![a] = [url |-> MeshUrl(a, t), textures |-> t.textures]]
          /\ Hydrate(a, t)
    BY <1>1 DEF Processed
  <2>2. telemetry'[a].url = MeshUrl(a, t) /\ telemetry'[a].textures = t.textures
    BY <2>1 DEF DashboardTypes
  <2>3. currentTelemetryData' = a /\ t.textures = "both" /\ MeshUrl(a, t) # None
    BY <2>1 DEF Hydrate, SetQualityAvailability
  <2>4. \A v \in Comparison : src'[v] = MeshUrl(a, t)
    BY <2>1, <2>3 DEF Hydrate, Viewers
  <2>5. Answered(a)'
    BY <1>1, NewlyAnswered
  <2>6. QED
    BY <2>2, <2>3, <2>4, <2>5
<1>2. ASSUME UNCHANGED <<qualityAvailable, currentTelemetryData>>,
             \A v \in Comparison : src'[v] = src[v]
      PROVE  Shown
  BY <1>2, AnswersStay DEF ComparisonInv
<1>3. ASSUME NEW x \in Assets, Select(x) PROVE Shown
  BY <1>3 DEF Select
<1>4. ASSUME NEW a \in Analyses, Analyze(a) PROVE Shown
  BY <1>4 DEF Analyze
<1>5. CASE LocalServerUrl
  <2>1. \A v \in Comparison : v \in Viewers /\ v # "usd"
    BY AssetsAssumption DEF Viewers
  <2>2. \A v \in Comparison : src'[v] = src[v]
    BY <1>5, <2>1 DEF LocalServerUrl, Show, DashboardTypes
  <2>3. QED
    BY <1>2, <1>5, <2>2 DEF LocalServerUrl
<1>6. QED
  BY <1>1, <1>2, <1>3, <1>4, <1>5
     DEF Next, SelectUnsupported, SwitchTab, Finish, Load, Texture, vars

----------------------------------------------------------------------------
\* The inductive invariant of the window: types, textures, previews, comparison.
THEOREM DashboardInvariance == Spec => []DashboardInv
<1>1. DashboardInv /\ [Next]_vars => DashboardInv'
  BY DashboardTypeStep, TextureStep, PreviewStep, OwnProxyStep, ComparisonStep DEF DashboardInv
<1>2. QED
  BY InitDashboard, <1>1, PTL DEF Spec

\* A texture lies only on the model its own analysis was answered with, and a proxy carries
\* no texture but that of its own analysis, in any viewer and however loads, textures and
\* analyses overlap.
THEOREM TexturesCorrect == Spec => []TextureOfMesh
<1>1. ASSUME DashboardInv PROVE TextureOfMesh
  <2> SUFFICES ASSUME NEW v \in Viewers, NEW a \in Analyses
               PROVE  /\ texture[v] = a => telemetry[a].url = loaded[v]
                      /\ texture[v] # None /\ loaded[v].target = Proxy(a) => texture[v] = a
    BY DEF TextureOfMesh
  <2>1. texture[v] # None =>
          /\ texture[v] \in Analyses /\ Answered(texture[v])
          /\ telemetry[texture[v]].url = loaded[v]
    BY <1>1 DEF DashboardInv, DashboardTypes, TextureInv
  <2>2. a # None
    BY AssetsAssumption
  <2>3. texture[v] # None => loaded[v] # None
    BY <1>1, <2>1 DEF DashboardInv, TextureInv
  <2>4. QED
    BY <1>1, <2>1, <2>2, <2>3 DEF DashboardInv, OwnProxies, Answered
<1>2. QED
  BY DashboardInvariance, <1>1, PTL

\* The mesh that is shown is the one of the telemetry that is kept.
THEOREM ShownMeshesCorrect == Spec => []ShownMeshIsReported
<1>1. DashboardInv => ShownMeshIsReported
  BY AssetsAssumption DEF DashboardInv, PreviewInv, ComparisonInv, ShownMeshIsReported
<1>2. QED
  BY DashboardInvariance, <1>1, PTL

\* Once the address of the preview server is known, the preview of the selected asset uses it.
THEOREM PreviewsReachable == Spec => []PreviewReachable
<1>1. "usd" \in Viewers
  BY DEF Viewers
<1>2. DashboardInv => PreviewReachable
  BY <1>1 DEF DashboardInv, DashboardTypes, Urls, PreviewInv, PreviewReachable
<1>3. QED
  BY DashboardInvariance, <1>2, PTL
=============================================================================
