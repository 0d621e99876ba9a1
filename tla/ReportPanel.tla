---------------------------- MODULE ReportPanel ----------------------------
(***************************************************************************)
(* The texts of the window: IntLayer of nequ3d-app/frontend/src/i18n.ts,   *)
(* and in main.ts initUI, setLanguage, the report of an analysis with its  *)
(* chart, the labels, and what the payload of the advice claims.           *)
(*                                                                         *)
(* Nothing on the screen is computed from the language when it is drawn:   *)
(* each text was written in the language of some moment, and updateDOM and *)
(* setLanguage have to write every one of them again.  Analyses overlap,   *)
(* fail, and answer in any order meanwhile.                                *)
(***************************************************************************)
EXTENDS NtcReport

CONSTANTS
    MaxAnalyses,    \* bound: how often the user starts runAnalysis
    Stages,         \* the textures of the stages there are, as the Core finds them
    Bitrates        \* what the slider can be set to

ASSUME PanelAssumption ==
    /\ MaxAnalyses \in Nat /\ Stages \subseteq Seq(Textures)
    /\ Bitrates # {} /\ Bitrates \subseteq 1..(RawBits - 1)

Analyses == 1..MaxAnalyses
Languages == {"en", "pl"}
None == 0
NoText == "no text"

VARIABLES
    currentLang,
    savedLang,              \* localStorage "nequ3d.lang"
    marked,                 \* the language whose button is marked active
    label,                  \* label[e]: the text of element e, its key and language
    oldHtml,                \* the language of the Sketchfab button's saved content
    hasAsset, disabled,     \* an asset is selected; the analyze button
    currentBpp,
    pc,                     \* pc[a]: where runAnalysis a is
    bpp,                    \* bpp[a]: the bitrate its call under way was made with
    currentTelemetryData,   \* what the Core said of the textures last, or NoTelemetry
    qualityAvailable,
    output, chart,          \* the element "output", and the chart on its canvas
    pictures,               \* runs of runAdvice that wait for the picture for llava
    sent,                   \* the last payload of the advice
    asked,                  \* history: the bitrate currentTelemetryData was asked for
    switched                \* history: the language changed during a download

textVars == <<currentLang, savedLang, marked, label, oldHtml>>
inputVars == <<hasAsset, disabled, currentBpp>>
analysisVars == <<pc, bpp, currentTelemetryData, qualityAvailable, asked>>
panelVars == <<output, chart>>
adviceVars == <<pictures, sent>>
vars == <<textVars, inputVars, analysisVars, panelVars, adviceVars, switched>>

(***************************************************************************)
(* The table has a text of every key in every language; a text is known by *)
(* the two.  A path has no language; some texts are not in the table and   *)
(* stand in the code in one language.                                      *)
(***************************************************************************)
Keys == {"static", "noFile", "bppUnit", "btnAnalyze", "btnAnalyzeLoad", "btnAnalyzeSuccess",
         "btnAnalyzeFailed", "loadSketchfabBtn", "sketchfabDownloading"}
content == [lang \in Languages |-> [key \in Keys |-> [key |-> key, lang |-> lang]]]
Path == [key |-> "path", lang |-> NoText]
Fixed(lang) == [key |-> "fixed", lang |-> lang]

\* "static" stands for all elements whose content, title, aria label or
\* placeholder is only ever written by updateDOM, "rotation" for the titles of the
\* three rotation buttons, which have no attribute and are Polish.
Elements == {"static", "rotation", "sketchfab", "file", "bpp", "analyze"}

InitialKey ==
    [static |-> "static", sketchfab |-> "loadSketchfabBtn", file |-> "noFile",
     bpp |-> "bppUnit", analyze |-> "btnAnalyze"]

\* No textures at all, and why.
NoTextures(status) ==
    [ntc_compressed_files |-> <<>>, ntc_bypassed |-> TRUE, texture_processing_status |-> status]
NoTelemetry == NoTextures(NoText)

Nothing == [of |-> NoTelemetry, lang |-> NoText]
Empty == [kind |-> "empty", of |-> NoTelemetry, lang |-> NoText]
Report(t, lang) == [kind |-> "report", of |-> t, lang |-> lang]
Failure(lang) == [kind |-> "error", of |-> NoTelemetry, lang |-> lang]
NotSent == [analysis_mode |-> NoText, ntc_bypassed |-> TRUE, crossed |-> FALSE]

----------------------------------------------------------------------------
(***************************************************************************)
(* initUI: everything is drawn in the language that was saved.             *)
(***************************************************************************)
Drawn(lang) ==
    [e \in Elements |-> IF e = "rotation" THEN Fixed("pl") ELSE content[lang][InitialKey[e]]]
Language(saved) == IF saved \in Languages THEN saved ELSE "en"

Init ==
    /\ savedLang \in Languages \cup {NoText} /\ currentLang = Language(savedLang)
    /\ marked = currentLang /\ label = Drawn(currentLang) /\ oldHtml = NoText
    /\ hasAsset = FALSE /\ disabled = TRUE /\ currentBpp \in Bitrates
    /\ pc = [a \in Analyses |-> "idle"]
    /\ bpp = [a \in Analyses |-> None]
    /\ currentTelemetryData = NoTelemetry /\ qualityAvailable = FALSE
    /\ output = Empty /\ chart = Nothing
    /\ pictures = {} /\ sent = NotSent
    /\ asked = None /\ switched = FALSE

\* The window is closed and opened again; the analyses under way are lost.
Restart ==
    /\ currentLang' = Language(savedLang) /\ marked' = currentLang'
    /\ label' = Drawn(currentLang') /\ oldHtml' = NoText
    /\ hasAsset' = FALSE /\ disabled' = TRUE /\ currentBpp' \in Bitrates
    /\ pc' = [a \in Analyses |-> IF pc[a] = "idle" THEN "idle" ELSE "done"]
    /\ bpp' = [a \in Analyses |-> None]
    /\ currentTelemetryData' = NoTelemetry /\ qualityAvailable' = FALSE
    /\ output' = Empty /\ chart' = Nothing
    /\ pictures' = {} /\ sent' = NotSent
    /\ asked' = None /\ switched' = FALSE
    /\ UNCHANGED savedLang

----------------------------------------------------------------------------
(***************************************************************************)
(* Labels.                                                                 *)
(***************************************************************************)

\* The element is given a key and translated at once.
Relabel(e, key) == label' = [label EXCEPT ![e] = content[currentLang][key]]

\* routeSelectedAsset.  The path replaces the text of "file", which keeps
\* its attribute data-i18n.
Choose(written) ==
    /\ hasAsset' = TRUE /\ disabled' = FALSE /\ qualityAvailable' = FALSE
    /\ label' = [written EXCEPT !["file"] = Path]

Select ==
    /\ Choose(label)
    /\ UNCHANGED <<currentLang, savedLang, marked, oldHtml, currentBpp, pc, bpp, asked,
                   currentTelemetryData, panelVars, adviceVars, switched>>

\* "Unsupported asset format", in English whatever the language.
SelectUnsupported ==
    /\ hasAsset' = FALSE /\ disabled' = TRUE
    /\ label' = [label EXCEPT !["file"] = Fixed("en")]
    /\ UNCHANGED <<currentLang, savedLang, marked, oldHtml, currentBpp, analysisVars, panelVars,
                   adviceVars, switched>>

\* The slider; updateBppLabel.
BppInput(value) ==
    /\ currentBpp' = value
    /\ Relabel("bpp", "bppUnit")
    /\ UNCHANGED <<currentLang, savedLang, marked, oldHtml, hasAsset, disabled, analysisVars,
                   panelVars, adviceVars, switched>>

\* The download button shows its progress; what it held is put back as it was.
SketchfabClick ==
    /\ oldHtml = NoText
    /\ oldHtml' = label["sketchfab"].lang
    /\ Relabel("sketchfab", "sketchfabDownloading")
    /\ UNCHANGED <<currentLang, savedLang, marked, inputVars, analysisVars, panelVars, adviceVars,
                   switched>>

SketchfabSettle ==
    LET restored == [label EXCEPT !["sketchfab"] = content[oldHtml]["loadSketchfabBtn"]] IN
    /\ oldHtml # NoText
    /\ oldHtml' = NoText
    /\ \/ Choose(restored)
       \/ label' = restored /\ UNCHANGED <<hasAsset, disabled, qualityAvailable>>
    /\ UNCHANGED <<currentLang, savedLang, marked, currentBpp, pc, bpp, asked,
                   currentTelemetryData, panelVars, adviceVars, switched>>

----------------------------------------------------------------------------
(***************************************************************************)
(* runAnalysis, and the beginning of runAdvice.                            *)
(***************************************************************************)

\* Faulty variant of AnalyzeLabel: the key is set and nothing is translated.
AnalyzeLabelBare(key) == label' = [label EXCEPT !["analyze"] = [key |-> key, lang |-> NoText]]

\* The button's content, then translateAll(analyzeBtn).
AnalyzeLabel(key) == Relabel("analyze", key)

Analyze(a) ==
    /\ pc[a] = "idle" /\ \A other \in 1..(a - 1) : pc[other] # "idle"
    /\ hasAsset /\ ~disabled
    /\ pc' = [pc EXCEPT ![a] = "processing"]
    /\ bpp' = [bpp EXCEPT ![a] = currentBpp]
    /\ disabled' = TRUE /\ qualityAvailable' = FALSE
    /\ AnalyzeLabel("btnAnalyzeLoad")
    /\ UNCHANGED <<currentLang, savedLang, marked, oldHtml, hasAsset, currentBpp,
                   currentTelemetryData, panelVars, adviceVars, asked, switched>>

\* The telemetry of an asset the client does not send to the Core.
Bypassed == NoTextures("bypassed")

Answers(a) == {Bypassed} \cup {Telemetry(textures, bpp[a]) : textures \in Stages}

\* What the payload says of the telemetry beside it.
Mode == IF qualityAvailable' THEN "mesh_ntc" ELSE "geometry_only"

\* The payload; of the telemetry in it, whether the compression was bypassed.
Payload(bypassed, crossed) ==
    sent' = [analysis_mode |-> Mode, ntc_bypassed |-> bypassed, crossed |-> crossed]

\* runAdvice for telemetry t sends its payload, or first takes a picture.  The
\* runs of "waiting" are those that wait for theirs; a is the analysis that
\* waits for this one, if any.
Advise(a, t, waiting) ==
    \/ Payload(t.ntc_bypassed, FALSE) /\ pictures' = waiting
    \/ /\ pictures' = waiting \cup {[by |-> a, ntc_bypassed |-> t.ntc_bypassed, crossed |-> FALSE]}
       /\ UNCHANGED sent

\* Faulty variant of Quality: the tab is only ever opened.
QualityOpened(t, glb) ==
    qualityAvailable' = (qualityAvailable \/ (glb /\ OffersComparison(t.ntc_compressed_files)))

\* hydrateQualityViewer: a comparison, and a mesh to put it on.
Quality(t, glb) == qualityAvailable' = (glb /\ OffersComparison(t.ntc_compressed_files))

\* Rendering replaces the element and its canvas; the chart is drawn on the new
\* one if there are assets.
Render(t, lang) ==
    /\ output' = Report(t, lang)
    /\ chart' = IF t.ntc_compressed_files = <<>> THEN Nothing ELSE [of |-> t, lang |-> lang]

\* History: another analysis answers while these pictures are taken.
Crossed == {[by |-> p.by, ntc_bypassed |-> p.ntc_bypassed, crossed |-> TRUE] : p \in pictures}

\* ProcessModel answered.  Its mesh is the proxy, or lies beside the selected
\* asset.
Processed(a) ==
    /\ pc[a] = "processing"
    /\ \E t \in Answers(a), proxy \in BOOLEAN :
         /\ currentTelemetryData' = t
         /\ Quality(t, proxy \/ hasAsset)
         /\ Render(t, currentLang)
         /\ Advise(a, t, Crossed)
    /\ AnalyzeLabel("btnAnalyzeSuccess")
    /\ pc' = [pc EXCEPT ![a] = "advising"]
    /\ asked' = bpp[a] /\ bpp' = [bpp EXCEPT ![a] = None]
    /\ UNCHANGED <<currentLang, savedLang, marked, oldHtml, inputVars, switched>>

\* The picture was taken, or not.
Pictured(p) ==
    /\ UNCHANGED analysisVars
    /\ pictures' = pictures \ {p} /\ Payload(p.ntc_bypassed, p.crossed)
    /\ UNCHANGED <<textVars, inputVars, panelVars, switched>>

\* ProcessModel failed: its error replaces the report, not the telemetry.
AnalysisFailed(a) ==
    /\ pc[a] = "processing"
    /\ output' = Failure(currentLang) /\ chart' = Nothing
    /\ AnalyzeLabel("btnAnalyzeFailed")
    /\ pc' = [pc EXCEPT ![a] = "done"] /\ disabled' = FALSE
    /\ bpp' = [bpp EXCEPT ![a] = None]
    /\ UNCHANGED <<currentLang, savedLang, marked, oldHtml, hasAsset, currentBpp,
                   currentTelemetryData, qualityAvailable, asked, adviceVars, switched>>

\* runAdvice is over.
Advised(a) ==
    /\ pc[a] = "advising" /\ \A p \in pictures : p.by # a
    /\ pc' = [pc EXCEPT ![a] = "done"] /\ disabled' = FALSE
    /\ UNCHANGED <<textVars, hasAsset, currentBpp, bpp, currentTelemetryData, qualityAvailable,
                   asked, panelVars, adviceVars, switched>>

----------------------------------------------------------------------------
(***************************************************************************)
(* setLanguage.                                                            *)
(***************************************************************************)

\* updateDOM writes whatever has an attribute data-i18n.  The progress of a
\* download has none, nor have the bitrate and the rotation buttons.
Keyed == Elements \ ({"bpp", "rotation"} \cup IF oldHtml = NoText THEN {} ELSE {"sketchfab"})
DataKey(e) == IF e = "file" THEN "noFile" ELSE label[e].key
UpdateDOM(lang) == [e \in Elements |-> IF e \in Keyed THEN content[lang][DataKey(e)] ELSE label[e]]

\* Faulty variant of RenderAgain: the text alone, whose canvas is new and empty.
RenderTextAgain(lang) == output' = Report(currentTelemetryData, lang) /\ chart' = Nothing

\* "Re-render telemetry immediately in new language."
RenderAgain(lang) == Render(currentTelemetryData, lang)

SetLanguage(lang) ==
    /\ currentLang # lang
    /\ currentLang' = lang /\ savedLang' = lang
    /\ label' = [UpdateDOM(lang) EXCEPT !["bpp"] = content[lang]["bppUnit"]]
    /\ marked' = lang
    /\ UNCHANGED analysisVars
    /\ \/ currentTelemetryData = NoTelemetry /\ UNCHANGED <<panelVars, adviceVars>>
       \/ /\ currentTelemetryData # NoTelemetry
          /\ RenderAgain(lang)
          /\ Advise(None, currentTelemetryData, pictures)
    /\ switched' = (oldHtml # NoText)
    /\ UNCHANGED <<oldHtml, inputVars>>

----------------------------------------------------------------------------
Next ==
    \/ Restart \/ Select \/ SelectUnsupported
    \/ SketchfabClick \/ SketchfabSettle
    \/ \E value \in Bitrates : BppInput(value)
    \/ \E a \in Analyses : Analyze(a) \/ Processed(a) \/ AnalysisFailed(a) \/ Advised(a)
    \/ \E p \in pictures : Pictured(p)
    \/ \E lang \in Languages : SetLanguage(lang)

Spec == Init /\ [][Next]_vars

----------------------------------------------------------------------------
(***************************************************************************)
(* Properties.                                                             *)
(***************************************************************************)
\* A report is of the telemetry that is kept, in the language of the window,
\* and the chart on its canvas is too, whatever answered or was selected since
\* ("Re-render telemetry immediately in new language", main.ts).
ReportCurrent ==
    output.kind = "report" =>
        /\ output.of = currentTelemetryData /\ output.lang = currentLang
        /\ chart = IF output.of.ntc_compressed_files = <<>> THEN Nothing
                   ELSE [of |-> output.of, lang |-> output.lang]

\* No text that was taken from the table is left in another language, whoever wrote
\* it and whether before or after the change: the exception is the download button
\* after a change during the download, which gets its old content back
\* (sketchfabBtn.innerHTML = oldHtml).  A message of the moment, such as the
\* status of a download or the error of an analysis, is no label.
LabelsTranslated ==
    /\ marked = currentLang
    /\ \A e \in Elements :
         \/ label[e].key \in {"path", "fixed"}
         \/ label[e].lang = currentLang
         \/ e = "sketchfab" /\ switched

\* The payload of the advice says that textures were compared only along with
\* telemetry in which they were compressed, whatever was selected, analysed or
\* translated before: unless another analysis answered while its picture was taken,
\* for the payload reads qualityAvailable after that.  (The app reads the telemetry
\* in it and drops what the window says of it: normalizeAdvicePayload, app.go.)
AdviceClaims ==
    sent.analysis_mode = "mesh_ntc" /\ ~sent.crossed => ~sent.ntc_bypassed

\* The window finds a texture to compare exactly when the Core says that the
\* compression was not bypassed, for every mixture of textures: the window
\* looks at the first entry without an error that was not skipped
\* (findQualityAsset), the Core at any that has two paths
\* (has_valid_ntc_quality).
QualityAgrees ==
    OffersComparison(currentTelemetryData.ntc_compressed_files)
        <=> ~currentTelemetryData.ntc_bypassed

\* The reason given for the bypass is the reason: every texture is missing, or
\* every texture that is there failed; "bypassed_unknown" is never given.
BypassExplained ==
    LET assets == currentTelemetryData.ntc_compressed_files
        status == currentTelemetryData.texture_processing_status
    IN /\ status # "bypassed_unknown"
       /\ status = "bypassed_embedded_or_missing_textures" => Skipped(assets) = DOMAIN assets
       /\ status = "compression_failed" =>
            /\ Failed(assets) # {}
            /\ \A i \in DOMAIN assets : assets[i].status # "Compressed"

Near(x, y, tolerance) == x - y <= tolerance /\ y - x <= tolerance

\* The figures of a report agree with each other and with the bitrate its
\* analysis was started with, but for what the Core's rounding of each entry adds
\* up to: "Saved" and the removed segment of the chart differ by no more than a
\* hundredth of a megabyte for each compressed texture; the percentage is within
\* half a tenth of that of the bitrate, and "Saved" and the size of the raw
\* textures are in its proportion, textures that were skipped or failed not counted.
FiguresTrue ==
    output.kind = "report" =>
        LET assets == output.of.ntc_compressed_files
            compressed == Cardinality(Parsed(assets))
        IN
        /\ Near(Saved(assets), Segments(assets)[1], compressed)
        /\ has_valid_ntc_quality(assets) =>
             /\ Near(4 * Average(assets), 4000 - 125 * asked, 2)
             /\ Near(2 * (RawBits - asked) * Raw(assets), 2 * RawBits * Saved(assets),
                     (2 * RawBits - asked) * compressed)
=============================================================================
