---------------------------- MODULE ReportProofs ----------------------------
(***************************************************************************)
(* Proofs about the report of an analysis, for all stages and bitrates,    *)
(* any number of analyses, and any order of their answers: the two ends    *)
(* agree on whether there is a texture to compare, the reason given for a  *)
(* bypass is the reason, the report is current, and the window speaks one  *)
(* language.                                                               *)
(***************************************************************************)
EXTENDS ReportPanel, FiniteSetTheorems, WellFoundedInduction, TLAPS

\* A nonempty set of natural numbers has a least element.
LEMMA LeastNatural ==
    ASSUME NEW T \in SUBSET Nat, T # {}
    PROVE  \E i \in T : \A j \in T : ~ (j < i)
<1> DEFINE R == OpToRel(<, Nat)
<1>1. \E i \in T : \A j \in T : <<j, i>> \notin R
  <2>1. IsWellFoundedOn(R, Nat)
    BY NatLessThanWellFounded
  <2> HIDE DEF R
  <2>2. QED
    BY <2>1, WFMin
<1>2. ASSUME NEW i \in T, NEW j \in T, j < i PROVE <<j, i>> \in R
  BY <1>2 DEF OpToRel
<1>3. QED
  BY <1>1, <1>2

----------------------------------------------------------------------------
(***************************************************************************)
(* The entries of the Core, as both ends read them.                        *)
(***************************************************************************)

\* An entry is skipped, failed with an error, or compressed with both paths.
EntryOf(entry) ==
    \/ /\ entry.status = "Skipped" /\ ~IsCandidate(entry)
       /\ entry.error = "" /\ entry.reconstructed_path = ""
    \/ /\ entry.status = "Failed" /\ ~IsCandidate(entry)
       /\ entry.error # "" /\ entry.reconstructed_path = ""
    \/ /\ entry.status = "Compressed" /\ IsCandidate(entry)
       /\ entry.error = "" /\ entry.original_path # "" /\ entry.reconstructed_path # ""

LEMMA Entries ==
    ASSUME NEW textures \in Seq(Textures), NEW b, NEW i \in DOMAIN textures
    PROVE  EntryOf(run_ntc_compression(textures, b)[i])
<1>1. textures[i].outcome \in {"missing", "failed", "compressed"}
  <2>1. textures[i] \in Textures
    OBVIOUS
  <2>2. QED
    BY <2>1 DEF Textures
<1>2. run_ntc_compression(textures, b)[i] = Asset(textures[i], b)
  BY DEF run_ntc_compression
<1>3. EntryOf(Entry("Skipped", "", "")) /\ EntryOf(Entry("Failed", "", "Compression failed"))
  BY DEF EntryOf, Entry, IsCandidate
<1>4. EntryOf(Compressed(textures[i].size, b))
  BY DEF EntryOf, Compressed, IsCandidate
<1>5. Asset(textures[i], b) \in {Entry("Skipped", "", ""), Entry("Failed", "", "Compression failed"),
                                Compressed(textures[i].size, b)}
  BY <1>1 DEF Asset
<1>6. QED
  BY <1>2, <1>3, <1>4, <1>5

LEMMA AssetIndices ==
    ASSUME NEW textures \in Seq(Textures), NEW b
    PROVE  /\ DOMAIN run_ntc_compression(textures, b) = 1..Len(textures)
           /\ DOMAIN textures = 1..Len(textures) /\ Len(textures) \in Nat
BY DEF run_ntc_compression

\* The first candidate that findQualityAsset looks at has a reconstructed
\* texture exactly when has_valid_ntc_quality finds any that has.
LEMMA TwoEndsAgree ==
    ASSUME NEW textures \in Seq(Textures), NEW b
    PROVE  LET assets == run_ntc_compression(textures, b) IN
           OffersComparison(assets) <=> has_valid_ntc_quality(assets)
<1> DEFINE assets == run_ntc_compression(textures, b)
           candidates == {i \in DOMAIN assets : IsCandidate(assets[i])}
<1>1. DOMAIN assets = DOMAIN textures /\ DOMAIN assets \subseteq Nat
  BY AssetIndices
<1>2. \A i \in DOMAIN assets :
         \/ /\ assets[i].status \in {"Skipped", "Failed"} /\ ~IsCandidate(assets[i])
            /\ assets[i].reconstructed_path = ""
         \/ /\ assets[i].status = "Compressed" /\ IsCandidate(assets[i])
            /\ assets[i].original_path # "" /\ assets[i].reconstructed_path # ""
  BY <1>1, Entries DEF EntryOf
<1> HIDE DEF assets
<1>3. ASSUME OffersComparison(assets) PROVE has_valid_ntc_quality(assets)
  BY <1>2, <1>3 DEF OffersComparison, has_valid_ntc_quality
<1>4. ASSUME has_valid_ntc_quality(assets) PROVE OffersComparison(assets)
  <2>1. candidates # {}
    BY <1>2, <1>4 DEF has_valid_ntc_quality
  <2>2. PICK i \in candidates : \A j \in candidates : ~ (j < i)
    <3>1. candidates \in SUBSET Nat
      BY <1>1
    <3>2. QED
      BY <2>1, <3>1, LeastNatural
  <2>3. /\ i \in DOMAIN assets /\ IsCandidate(assets[i])
        /\ \A j \in DOMAIN assets : j < i => ~IsCandidate(assets[j])
    BY <2>2
  <2>4. assets[i].reconstructed_path # ""
    BY <1>2, <2>3
  <2>5. QED
    BY <2>3, <2>4 DEF OffersComparison
<1>5. QED
  BY <1>3, <1>4 DEF assets

\* The reason that summarize_ntc_state gives for a bypass is the reason.
LEMMA ReasonGiven ==
    ASSUME NEW textures \in Seq(Textures), NEW b
    PROVE  LET assets == run_ntc_compression(textures, b)
               status == texture_processing_status(textures, assets)
           IN /\ status # "bypassed_unknown" /\ status # NoText
              /\ status = "bypassed_embedded_or_missing_textures" => Skipped(assets) = DOMAIN assets
              /\ status = "compression_failed" =>
                   /\ Failed(assets) # {}
                   /\ \A i \in DOMAIN assets : assets[i].status # "Compressed"
<1> DEFINE assets == run_ntc_compression(textures, b)
           status == texture_processing_status(textures, assets)
<1>1. DOMAIN assets = 1..Len(textures) /\ Len(textures) \in Nat /\ DOMAIN assets = DOMAIN textures
  BY AssetIndices
<1>2. \A i \in DOMAIN assets :
         \/ assets[i].status = "Skipped"
         \/ assets[i].status = "Failed"
         \/ /\ assets[i].status = "Compressed"
            /\ assets[i].original_path # "" /\ assets[i].reconstructed_path # ""
  BY <1>1, Entries DEF EntryOf
<1> HIDE DEF assets
<1>3. Skipped(assets) \subseteq DOMAIN assets
  BY DEF Skipped
<1>4. IsFiniteSet(DOMAIN assets) /\ Cardinality(DOMAIN assets) = Len(textures)
  BY <1>1, FS_Interval
<1>5. Cardinality(Skipped(assets)) = Len(textures) <=> Skipped(assets) = DOMAIN assets
  BY <1>3, <1>4, FS_Subset
<1>6. CASE has_valid_ntc_quality(assets) \/ textures = <<>>
  BY <1>6 DEF texture_processing_status, NoText, assets
<1>7. CASE ~has_valid_ntc_quality(assets) /\ textures # <<>>
  <2>1. \A i \in DOMAIN assets : assets[i].status # "Compressed"
    BY <1>2, <1>7 DEF has_valid_ntc_quality
  <2>2. CASE Skipped(assets) = DOMAIN assets
    <3>1. status = "bypassed_embedded_or_missing_textures"
      BY <1>5, <1>7, <2>2 DEF texture_processing_status
    <3>2. QED
      BY <2>2, <3>1 DEF NoText, assets
  <2>3. CASE Skipped(assets) # DOMAIN assets
    <3>1. PICK i \in DOMAIN assets : assets[i].status # "Skipped"
      BY <2>3 DEF Skipped
    <3>2. Failed(assets) # {}
      BY <1>2, <2>1, <3>1 DEF Failed
    <3>3. status = "compression_failed"
      BY <1>5, <1>7, <2>3, <3>2 DEF texture_processing_status
    <3>4. QED
      BY <2>1, <3>2, <3>3 DEF NoText, assets
  <2>4. QED
    BY <2>2, <2>3
<1>8. QED
  BY <1>6, <1>7 DEF assets

----------------------------------------------------------------------------
(***************************************************************************)
(* The telemetry that is kept.                                             *)
(***************************************************************************)

\* What the two ends say of telemetry t is the same, and the reason is given.
Sound(t) ==
    LET assets == t.ntc_compressed_files
        status == t.texture_processing_status
    IN /\ OffersComparison(assets) <=> ~t.ntc_bypassed
       /\ status # "bypassed_unknown"
       /\ status = "bypassed_embedded_or_missing_textures" => Skipped(assets) = DOMAIN assets
       /\ status = "compression_failed" =>
            /\ Failed(assets) # {}
            /\ \A i \in DOMAIN assets : assets[i].status # "Compressed"

LEMMA WithoutTextures ==
    ASSUME NEW status \in {NoText, "bypassed"} PROVE Sound(NoTextures(status))
<1>1. /\ NoTextures(status).ntc_compressed_files = <<>>
      /\ NoTextures(status).ntc_bypassed = TRUE
      /\ NoTextures(status).texture_processing_status = status
  BY DEF NoTextures
<1>2. DOMAIN <<>> = {}
  OBVIOUS
<1>3. ~OffersComparison(<<>>)
  BY <1>2 DEF OffersComparison
<1>4. QED
  BY <1>1, <1>3 DEF Sound, NoText

LEMMA AnswersSound ==
    ASSUME NEW a, NEW t \in Answers(a) PROVE Sound(t) /\ t # NoTelemetry
<1>1. CASE t = Bypassed
  <2>1. Bypassed.texture_processing_status = "bypassed"
    BY DEF Bypassed, NoTextures
  <2>2. NoTelemetry.texture_processing_status = NoText
    BY DEF NoTelemetry, NoTextures
  <2>3. QED
    BY <1>1, <2>1, <2>2, WithoutTextures DEF Bypassed, NoText
<1>2. ASSUME NEW textures \in Stages, t = Telemetry(textures, bpp[a])
      PROVE  Sound(t) /\ t # NoTelemetry
  <2> DEFINE assets == run_ntc_compression(textures, bpp[a])
  <2>1. textures \in Seq(Textures)
    BY PanelAssumption
  <2>2. /\ t.ntc_compressed_files = assets
        /\ t.ntc_bypassed = ~has_valid_ntc_quality(assets)
        /\ t.texture_processing_status = texture_processing_status(textures, assets)
    BY <1>2 DEF Telemetry
  <2>3. OffersComparison(assets) <=> has_valid_ntc_quality(assets)
    BY <2>1, TwoEndsAgree
  <2> DEFINE status == texture_processing_status(textures, assets)
  <2>4. /\ status # "bypassed_unknown" /\ status # NoText
        /\ status = "bypassed_embedded_or_missing_textures" => Skipped(assets) = DOMAIN assets
        /\ status = "compression_failed" =>
             /\ Failed(assets) # {}
             /\ \A i \in DOMAIN assets : assets[i].status # "Compressed"
    BY <2>1, ReasonGiven
  <2> HIDE DEF assets, status
  <2>5. OffersComparison(t.ntc_compressed_files) <=> ~t.ntc_bypassed
    BY <2>2, <2>3, Zenon
  <2>6. t.texture_processing_status = status
    BY <2>2 DEF status
  <2>7. Sound(t)
    BY <2>2, <2>4, <2>5, <2>6 DEF Sound
  <2>8. t # NoTelemetry
    BY <2>4, <2>6 DEF NoTelemetry, NoTextures
  <2>9. QED
    BY <2>7, <2>8
<1>3. QED
  BY <1>1, <1>2 DEF Answers

\* Only a restart and an answer change the telemetry.
LEMMA TelemetryStep ==
    ASSUME [Next]_vars
    PROVE  \/ currentTelemetryData' = currentTelemetryData
           \/ currentTelemetryData' = NoTelemetry
           \/ \E a \in Analyses : currentTelemetryData' \in Answers(a)
<1>1. CASE UNCHANGED vars
  BY <1>1 DEF vars, analysisVars
<1>2. CASE Restart \/ Select \/ SelectUnsupported \/ SketchfabClick \/ SketchfabSettle
  BY <1>2 DEF Restart, Select, SelectUnsupported, SketchfabClick, SketchfabSettle, analysisVars
<1>3. ASSUME NEW value \in Bitrates, BppInput(value)
      PROVE  currentTelemetryData' = currentTelemetryData
  BY <1>3 DEF BppInput, analysisVars
<1>4. ASSUME NEW a \in Analyses, Analyze(a) \/ AnalysisFailed(a) \/ Advised(a)
      PROVE  currentTelemetryData' = currentTelemetryData
  BY <1>4 DEF Analyze, AnalysisFailed, Advised
<1>5. ASSUME NEW a \in Analyses, Processed(a) PROVE currentTelemetryData' \in Answers(a)
  BY <1>5 DEF Processed
<1>6. ASSUME NEW p \in pictures, Pictured(p) PROVE currentTelemetryData' = currentTelemetryData
  BY <1>6 DEF Pictured, analysisVars
<1>7. ASSUME NEW lang \in Languages, SetLanguage(lang)
      PROVE  currentTelemetryData' = currentTelemetryData
  BY <1>7 DEF SetLanguage, analysisVars
<1>8. QED
  BY <1>1, <1>2, <1>3, <1>4, <1>5, <1>6, <1>7 DEF Next

LEMMA TelemetrySound == Spec => []Sound(currentTelemetryData)
<1>1. Init => Sound(currentTelemetryData)
  BY WithoutTextures DEF Init, NoTelemetry
<1>2. Sound(currentTelemetryData) /\ [Next]_vars => Sound(currentTelemetryData)'
  <2> SUFFICES ASSUME Sound(currentTelemetryData), [Next]_vars
               PROVE  Sound(currentTelemetryData')
    OBVIOUS
  <2>1. QED
    BY TelemetryStep, AnswersSound, WithoutTextures DEF NoTelemetry
<1>3. QED
  BY <1>1, <1>2, PTL DEF Spec

\* The window finds a texture to compare exactly when the Core says that the
\* compression was not bypassed: for every stage, every bitrate and any number
\* of analyses.
THEOREM QualityCorrect == Spec => []QualityAgrees
<1>1. Sound(currentTelemetryData) => QualityAgrees
  BY DEF Sound, QualityAgrees
<1>2. QED
  BY <1>1, TelemetrySound, PTL

\* The reason given for a bypass is the reason, for every stage.
THEOREM ReasonCorrect == Spec => []BypassExplained
<1>1. Sound(currentTelemetryData) => BypassExplained
  BY DEF Sound, BypassExplained
<1>2. QED
  BY <1>1, TelemetrySound, PTL

----------------------------------------------------------------------------
(***************************************************************************)
(* The report.                                                             *)
(***************************************************************************)

\* A report is drawn only after an answer: without this part a change of the
\* language before the first answer would leave a report in the old one.
ReportInv ==
    /\ ReportCurrent
    /\ output.kind = "report" => currentTelemetryData # NoTelemetry

LEMMA Rendered ==
    ASSUME NEW t, NEW lang, Render(t, lang),
           t = currentTelemetryData', lang = currentLang', t # NoTelemetry
    PROVE  ReportInv'
<1>1. /\ output'.of = currentTelemetryData' /\ output'.lang = currentLang'
      /\ chart' = IF output'.of.ntc_compressed_files = <<>> THEN Nothing
                  ELSE [of |-> output'.of, lang |-> output'.lang]
  BY DEF Render, Report
<1>2. QED
  BY <1>1 DEF ReportInv, ReportCurrent

LEMMA ReportStep == ReportInv /\ [Next]_vars => ReportInv'
<1> SUFFICES ASSUME ReportInv, [Next]_vars PROVE ReportInv'
  OBVIOUS
<1> USE DEF ReportInv, ReportCurrent
<1>1. ASSUME UNCHANGED <<output, chart, currentTelemetryData, currentLang>> PROVE ReportInv'
  BY <1>1
<1>2. CASE UNCHANGED vars
  BY <1>1, <1>2 DEF vars, textVars, analysisVars, panelVars
<1>3. CASE Restart
  BY <1>3 DEF Restart, Empty
<1>4. CASE Select \/ SelectUnsupported
  BY <1>1, <1>4 DEF Select, SelectUnsupported, analysisVars, panelVars
<1>5. CASE SketchfabClick \/ SketchfabSettle
  BY <1>1, <1>5 DEF SketchfabClick, SketchfabSettle, analysisVars, panelVars
<1>6. ASSUME NEW value \in Bitrates, BppInput(value) PROVE ReportInv'
  BY <1>1, <1>6 DEF BppInput, analysisVars, panelVars
<1>7. ASSUME NEW a \in Analyses, Analyze(a) \/ Advised(a) PROVE ReportInv'
  BY <1>1, <1>7 DEF Analyze, Advised, panelVars, textVars
<1>8. ASSUME NEW a \in Analyses, AnalysisFailed(a) PROVE ReportInv'
  BY <1>8 DEF AnalysisFailed, Failure
<1>9. ASSUME NEW a \in Analyses, Processed(a) PROVE ReportInv'
  <2>1. PICK t \in Answers(a) : currentTelemetryData' = t /\ Render(t, currentLang)
    BY <1>9 DEF Processed
  <2>2. currentLang' = currentLang
    BY <1>9 DEF Processed
  <2>3. QED
    BY <2>1, <2>2, AnswersSound, Rendered
<1>10. ASSUME NEW p \in pictures, Pictured(p) PROVE ReportInv'
  BY <1>1, <1>10 DEF Pictured, analysisVars, panelVars, textVars
<1>11. ASSUME NEW lang \in Languages, SetLanguage(lang) PROVE ReportInv'
  <2>1. currentLang' = lang /\ currentTelemetryData' = currentTelemetryData
    BY <1>11 DEF SetLanguage, analysisVars
  <2>2. CASE currentTelemetryData = NoTelemetry /\ UNCHANGED panelVars
    BY <2>1, <2>2 DEF panelVars
  <2>3. CASE currentTelemetryData # NoTelemetry /\ RenderAgain(lang)
    BY <2>1, <2>3, Rendered DEF RenderAgain
  <2>4. QED
    BY <1>11, <2>2, <2>3 DEF SetLanguage
<1>12. QED
  BY <1>2, <1>3, <1>4, <1>5, <1>6, <1>7, <1>8, <1>9, <1>10, <1>11 DEF Next

\* A report on the screen, and the chart in it, are of the telemetry that is
\* kept and in the language of the window: for any number of analyses.
THEOREM ReportAlwaysCurrent == Spec => []ReportCurrent
<1>1. Init => ReportInv
  BY DEF Init, ReportInv, ReportCurrent, Empty
<1>2. ReportInv => ReportCurrent
  BY DEF ReportInv
<1>3. QED
  BY <1>1, <1>2, ReportStep, PTL DEF Spec

----------------------------------------------------------------------------
(***************************************************************************)
(* The language.                                                           *)
(***************************************************************************)

\* What a label may be: but for the titles of the rotation buttons and for what
\* stands in place of a file, the table has a text for its key.
LabelOk(e, text) ==
    IF e = "rotation" THEN text.key = "fixed"
    ELSE \/ e = "file" /\ text.key \in {"path", "fixed"}
         \/ text.key \in Keys /\ text.lang \in Languages

\* The label of e is in the language of the window, is not of the table, or is excused.
InLanguage(e, text, lang, excused) ==
    \/ text.key \in {"path", "fixed"}
    \/ text.lang = lang
    \/ e = "sketchfab" /\ excused

\* What the download button gets back is in the language of the window too,
\* unless that was changed meanwhile.
LanguageInv ==
    /\ currentLang \in Languages /\ marked = currentLang
    /\ savedLang \in Languages \cup {NoText}
    /\ DOMAIN label = Elements
    /\ \A e \in Elements : LabelOk(e, label[e])
    /\ \A e \in Elements : InLanguage(e, label[e], currentLang, switched)
    /\ oldHtml \in Languages \cup {NoText}
    /\ oldHtml # NoText /\ ~switched => oldHtml = currentLang

LEMMA ContentText ==
    ASSUME NEW lang \in Languages, NEW key \in Keys
    PROVE  content[lang][key].key = key /\ content[lang][key].lang = lang
BY DEF content

\* A text of the window's language may be written on any other element.
LEMMA Translated ==
    ASSUME NEW lang \in Languages, NEW key \in Keys, NEW e, e # "rotation", NEW excused
    PROVE  LabelOk(e, content[lang][key]) /\ InLanguage(e, content[lang][key], lang, excused)
BY ContentText DEF LabelOk, InLanguage

LEMMA Relabeled ==
    ASSUME LanguageInv, NEW e \in Elements, e # "rotation", NEW key \in Keys, Relabel(e, key),
           UNCHANGED <<currentLang, savedLang, marked, oldHtml, switched>>
    PROVE  LanguageInv'
<1>1. DOMAIN label' = Elements /\ currentLang \in Languages
  BY DEF LanguageInv, Relabel
<1>2. ASSUME NEW f \in Elements
      PROVE  LabelOk(f, label'[f]) /\ InLanguage(f, label'[f], currentLang, switched)
  <2>1. CASE f = e
    BY <1>1, <2>1, Translated DEF LanguageInv, Relabel
  <2>2. CASE f # e
    BY <2>2 DEF LanguageInv, Relabel
  <2>3. QED
    BY <2>1, <2>2
<1>3. QED
  BY <1>1, <1>2 DEF LanguageInv

LEMMA InitLanguage == Init => LanguageInv
<1> SUFFICES ASSUME Init PROVE LanguageInv
  OBVIOUS
<1>1. currentLang \in Languages /\ marked = currentLang /\ savedLang \in Languages \cup {NoText}
  BY DEF Init, Language, Languages
<1>2. label = Drawn(currentLang) /\ oldHtml = NoText
  BY DEF Init
<1>3. ASSUME NEW e \in Elements
      PROVE  /\ LabelOk(e, Drawn(currentLang)[e])
             /\ InLanguage(e, Drawn(currentLang)[e], currentLang, switched)
  <2>1. CASE e = "rotation"
    BY <2>1 DEF Drawn, Fixed, LabelOk, InLanguage
  <2>2. CASE e # "rotation"
    <3>1. InitialKey[e] \in Keys
      BY <2>2 DEF InitialKey, Elements, Keys
    <3>2. QED
      BY <1>1, <2>2, <3>1, Translated DEF Drawn
  <2>3. QED
    BY <2>1, <2>2
<1>4. QED
  BY <1>1, <1>2, <1>3 DEF LanguageInv, Drawn

LEMMA RestartLanguage == LanguageInv /\ Restart => LanguageInv'
<1> SUFFICES ASSUME LanguageInv, Restart PROVE LanguageInv'
  OBVIOUS
<1>1. currentLang' \in Languages /\ marked' = currentLang' /\ savedLang' \in Languages \cup {NoText}
  BY DEF Restart, LanguageInv, Language, Languages
<1>2. label' = Drawn(currentLang') /\ oldHtml' = NoText
  BY DEF Restart
<1>3. ASSUME NEW e \in Elements
      PROVE  /\ LabelOk(e, Drawn(currentLang')[e])
             /\ InLanguage(e, Drawn(currentLang')[e], currentLang', switched')
  <2>1. CASE e = "rotation"
    BY <2>1 DEF Drawn, Fixed, LabelOk, InLanguage
  <2>2. CASE e # "rotation"
    <3>1. InitialKey[e] \in Keys
      BY <2>2 DEF InitialKey, Elements, Keys
    <3>2. QED
      BY <1>1, <2>2, <3>1, Translated DEF Drawn
  <2>3. QED
    BY <2>1, <2>2
<1>4. QED
  BY <1>1, <1>2, <1>3 DEF LanguageInv, Drawn

\* The path of a file is written over whatever stood there.
LEMMA ChosenLanguage ==
    ASSUME LanguageInv, NEW written, DOMAIN written = Elements, Choose(written),
           \A e \in Elements : /\ LabelOk(e, written[e])
                               /\ InLanguage(e, written[e], currentLang, switched)
    PROVE  /\ DOMAIN label' = Elements
           /\ \A e \in Elements : /\ LabelOk(e, label'[e])
                                  /\ InLanguage(e, label'[e], currentLang, switched)
BY DEF Choose, Path, LabelOk, InLanguage

LEMMA SelectLanguage == LanguageInv /\ (Select \/ SelectUnsupported) => LanguageInv'
<1> SUFFICES ASSUME LanguageInv, Select \/ SelectUnsupported PROVE LanguageInv'
  OBVIOUS
<1>1. UNCHANGED <<currentLang, savedLang, marked, oldHtml, switched>>
  BY DEF Select, SelectUnsupported
<1>2. /\ DOMAIN label' = Elements
      /\ \A e \in Elements : /\ LabelOk(e, label'[e])
                             /\ InLanguage(e, label'[e], currentLang, switched)
  <2>1. CASE Select
    BY <2>1, ChosenLanguage DEF LanguageInv, Select
  <2>2. CASE SelectUnsupported
    BY <2>2 DEF LanguageInv, SelectUnsupported, Fixed, LabelOk, InLanguage
  <2>3. QED
    BY <2>1, <2>2
<1>3. QED
  BY <1>1, <1>2 DEF LanguageInv

LEMMA ClickLanguage == LanguageInv /\ SketchfabClick => LanguageInv'
<1> SUFFICES ASSUME LanguageInv, SketchfabClick PROVE LanguageInv'
  OBVIOUS
<1>1. UNCHANGED <<currentLang, savedLang, marked, switched>>
  BY DEF SketchfabClick
<1>2. label["sketchfab"].key \in Keys /\ label["sketchfab"].lang \in Languages
  BY DEF LanguageInv, LabelOk, Elements
<1>3. label["sketchfab"].key \notin {"path", "fixed"}
  BY <1>2 DEF Keys
<1>4. ~switched => label["sketchfab"].lang = currentLang
  BY <1>3 DEF LanguageInv, InLanguage, Elements
<1>5. oldHtml' \in Languages /\ (~switched => oldHtml' = currentLang)
  BY <1>2, <1>4 DEF SketchfabClick
<1>6. DOMAIN label' = Elements /\ currentLang \in Languages
  BY DEF LanguageInv, SketchfabClick, Relabel
<1>7. ASSUME NEW e \in Elements
      PROVE  LabelOk(e, label'[e]) /\ InLanguage(e, label'[e], currentLang, switched)
  <2>1. CASE e = "sketchfab"
    <3>1. label'[e] = content[currentLang]["sketchfabDownloading"]
      BY <2>1 DEF SketchfabClick, Relabel, LanguageInv
    <3>2. "sketchfabDownloading" \in Keys /\ e # "rotation"
      BY <2>1 DEF Keys
    <3>3. QED
      BY <1>6, <3>1, <3>2, Translated
  <2>2. CASE e # "sketchfab"
    BY <2>2 DEF LanguageInv, SketchfabClick, Relabel
  <2>3. QED
    BY <2>1, <2>2
<1>8. QED
  BY <1>1, <1>5, <1>6, <1>7 DEF LanguageInv

LEMMA SettleLanguage == LanguageInv /\ SketchfabSettle => LanguageInv'
<1> SUFFICES ASSUME LanguageInv, SketchfabSettle PROVE LanguageInv'
  OBVIOUS
<1> DEFINE restored == [label EXCEPT !["sketchfab"] = content[oldHtml]["loadSketchfabBtn"]]
<1>1. UNCHANGED <<currentLang, savedLang, marked, switched>> /\ oldHtml' = NoText
  BY DEF SketchfabSettle
<1>2. oldHtml \in Languages /\ (~switched => oldHtml = currentLang)
  BY DEF LanguageInv, SketchfabSettle
<1>3. /\ content[oldHtml]["loadSketchfabBtn"].key \in Keys
      /\ content[oldHtml]["loadSketchfabBtn"].lang = oldHtml
  BY <1>2, ContentText DEF Keys
<1>4. DOMAIN restored = Elements
  BY DEF LanguageInv
<1>5. ASSUME NEW e \in Elements
      PROVE  LabelOk(e, restored[e]) /\ InLanguage(e, restored[e], currentLang, switched)
  <2>1. CASE e = "sketchfab"
    <3>1. restored[e] = content[oldHtml]["loadSketchfabBtn"]
      BY <2>1 DEF LanguageInv
    <3>2. QED
      BY <1>2, <1>3, <2>1, <3>1 DEF LabelOk, InLanguage
  <2>2. CASE e # "sketchfab"
    BY <2>2 DEF LanguageInv
  <2>3. QED
    BY <2>1, <2>2
<1>6. Choose(restored) \/ label' = restored
  BY DEF SketchfabSettle
<1> HIDE DEF restored
<1>7. /\ DOMAIN label' = Elements
      /\ \A e \in Elements : /\ LabelOk(e, label'[e])
                             /\ InLanguage(e, label'[e], currentLang, switched)
  BY <1>4, <1>5, <1>6, ChosenLanguage
<1>8. QED
  BY <1>1, <1>7 DEF LanguageInv

LEMMA SetLanguageStep ==
    ASSUME LanguageInv, NEW lang \in Languages, SetLanguage(lang) PROVE LanguageInv'
<1>1. currentLang' = lang /\ savedLang' = lang /\ marked' = lang /\ oldHtml' = oldHtml
  BY DEF SetLanguage
<1>2. switched' = (oldHtml # NoText)
  BY DEF SetLanguage
<1>3. oldHtml # NoText => switched'
  BY <1>2, Zenon
<1>4. label' = [UpdateDOM(lang) EXCEPT !["bpp"] = content[lang]["bppUnit"]]
  BY DEF SetLanguage
<1>5. DOMAIN label' = Elements
  BY <1>4 DEF UpdateDOM
<1>6. ASSUME NEW e \in Elements
      PROVE  LabelOk(e, label'[e]) /\ InLanguage(e, label'[e], lang, switched')
  <2>1. CASE e = "bpp"
    <3>1. label'[e] = content[lang]["bppUnit"]
      BY <1>4, <2>1 DEF UpdateDOM
    <3>2. "bppUnit" \in Keys /\ e # "rotation"
      BY <2>1 DEF Keys
    <3>3. QED
      BY <3>1, <3>2, Translated
  <2>2. CASE e # "bpp" /\ e \in Keyed
    <3>1. label'[e] = content[lang][DataKey(e)]
      BY <1>4, <2>2 DEF UpdateDOM
    <3>2. DataKey(e) \in Keys
      BY <2>2 DEF DataKey, Keyed, Keys, LanguageInv, LabelOk
    <3>3. e # "rotation"
      <4>1. "rotation" \notin Keyed
        BY Zenon DEF Keyed
      <4>2. QED
        BY <2>2, <4>1
    <3>4. QED
      BY <3>1, <3>2, <3>3, Translated
  <2>3. CASE e # "bpp" /\ e \notin Keyed
    <3>1. label'[e] = label[e]
      BY <1>4, <2>3 DEF UpdateDOM
    <3>2. e \in {"bpp", "rotation"} \/ (e = "sketchfab" /\ oldHtml # NoText)
      BY <2>3 DEF Keyed
    <3>3. QED
      BY <1>3, <2>3, <3>1, <3>2 DEF LanguageInv, LabelOk, InLanguage
  <2>4. QED
    BY <2>1, <2>2, <2>3
<1>7. oldHtml' \in Languages \cup {NoText} /\ (oldHtml' # NoText /\ ~switched' => oldHtml' = currentLang')
  BY <1>1, <1>3 DEF LanguageInv
<1>8. QED
  BY <1>1, <1>5, <1>6, <1>7 DEF LanguageInv

LEMMA LanguageStep == LanguageInv /\ [Next]_vars => LanguageInv'
<1> SUFFICES ASSUME LanguageInv, [Next]_vars PROVE LanguageInv'
  OBVIOUS
<1>1. ASSUME UNCHANGED <<textVars, switched>> PROVE LanguageInv'
  BY <1>1 DEF LanguageInv, textVars
<1>2. CASE UNCHANGED vars
  BY <1>1, <1>2 DEF vars
<1>3. CASE Restart
  BY <1>3, RestartLanguage
<1>4. CASE Select \/ SelectUnsupported \/ SketchfabClick \/ SketchfabSettle
  BY <1>4, SelectLanguage, ClickLanguage, SettleLanguage
<1>5. ASSUME NEW value \in Bitrates, BppInput(value) PROVE LanguageInv'
  BY <1>5, Relabeled DEF BppInput, Elements, Keys
<1>6. ASSUME NEW a \in Analyses, Analyze(a) PROVE LanguageInv'
  BY <1>6, Relabeled DEF Analyze, AnalyzeLabel, Elements, Keys
<1>7. ASSUME NEW a \in Analyses, Processed(a) PROVE LanguageInv'
  BY <1>7, Relabeled DEF Processed, AnalyzeLabel, Elements, Keys
<1>8. ASSUME NEW a \in Analyses, AnalysisFailed(a) PROVE LanguageInv'
  BY <1>8, Relabeled DEF AnalysisFailed, AnalyzeLabel, Elements, Keys
<1>9. ASSUME NEW a \in Analyses, Advised(a) PROVE LanguageInv'
  BY <1>1, <1>9 DEF Advised
<1>10. ASSUME NEW p \in pictures, Pictured(p) PROVE LanguageInv'
  BY <1>1, <1>10 DEF Pictured
<1>11. ASSUME NEW lang \in Languages, SetLanguage(lang) PROVE LanguageInv'
  BY <1>11, SetLanguageStep
<1>12. QED
  BY <1>2, <1>3, <1>4, <1>5, <1>6, <1>7, <1>8, <1>9, <1>10, <1>11 DEF Next

\* No text taken from the table is left in another language but the download
\* button's after a change during a download: for any number of analyses.
THEOREM LabelsCorrect == Spec => []LabelsTranslated
<1>1. LanguageInv => LabelsTranslated
  BY DEF LanguageInv, LabelsTranslated, InLanguage
<1>2. QED
  BY <1>1, InitLanguage, LanguageStep, PTL DEF Spec

----------------------------------------------------------------------------
(***************************************************************************)
(* What the advice is told.                                                *)
(***************************************************************************)

\* A comparison is on offer only for the telemetry that is kept, and for the
\* runs of runAdvice that wait for a picture unless they were crossed.
ClaimInv ==
    /\ qualityAvailable => ~currentTelemetryData.ntc_bypassed
    /\ qualityAvailable => \A p \in pictures : p.crossed \/ ~p.ntc_bypassed
    /\ AdviceClaims

\* A payload sent now is true of the telemetry in it.
LEMMA PayloadTrue ==
    ASSUME NEW bypassed, NEW crossed, Payload(bypassed, crossed),
           qualityAvailable' => crossed \/ ~bypassed
    PROVE  AdviceClaims'
<1>1. /\ sent'.analysis_mode = IF qualityAvailable' THEN "mesh_ntc" ELSE "geometry_only"
      /\ sent'.ntc_bypassed = bypassed /\ sent'.crossed = crossed
  BY DEF Payload, Mode
<1>2. sent'.analysis_mode = "mesh_ntc" => qualityAvailable'
  BY <1>1
<1>3. QED
  BY <1>1, <1>2, Zenon DEF AdviceClaims

\* runAdvice for the telemetry that is kept, when the runs that wait are true.
LEMMA AdviseTrue ==
    ASSUME NEW a, NEW waiting, Advise(a, currentTelemetryData', waiting), AdviceClaims,
           qualityAvailable' => ~currentTelemetryData'.ntc_bypassed,
           qualityAvailable' => \A p \in waiting : p.crossed \/ ~p.ntc_bypassed
    PROVE  ClaimInv'
<1> DEFINE bypassed == currentTelemetryData'.ntc_bypassed
<1>1. CASE Payload(bypassed, FALSE) /\ pictures' = waiting
  <2>1. AdviceClaims'
    BY <1>1, PayloadTrue
  <2>2. QED
    BY <1>1, <2>1 DEF ClaimInv
<1>2. CASE /\ pictures' = waiting \cup {[by |-> a, ntc_bypassed |-> bypassed, crossed |-> FALSE]}
           /\ UNCHANGED sent
  <2>1. AdviceClaims'
    BY <1>2 DEF AdviceClaims
  <2>2. [by |-> a, ntc_bypassed |-> bypassed, crossed |-> FALSE].ntc_bypassed = bypassed
    BY Zenon
  <2>3. ASSUME NEW p \in pictures', qualityAvailable' PROVE p.crossed \/ ~p.ntc_bypassed
    BY <1>2, <2>2, <2>3, Zenon
  <2>4. QED
    BY <2>1, <2>3 DEF ClaimInv
<1>3. QED
  BY <1>1, <1>2 DEF Advise

LEMMA ClaimStep == ClaimInv /\ [Next]_vars => ClaimInv'
<1> SUFFICES ASSUME ClaimInv, [Next]_vars PROVE ClaimInv'
  OBVIOUS
<1>1. ASSUME UNCHANGED <<currentTelemetryData, pictures, sent>>,
             qualityAvailable' = qualityAvailable \/ qualityAvailable' = FALSE
      PROVE  ClaimInv'
  BY <1>1 DEF ClaimInv, AdviceClaims
<1>2. CASE UNCHANGED vars
  BY <1>1, <1>2 DEF vars, analysisVars, adviceVars
<1>3. CASE Restart
  BY <1>3 DEF Restart, ClaimInv, AdviceClaims, NotSent, NoText
<1>4. CASE Select \/ SelectUnsupported
  BY <1>1, <1>4 DEF Select, SelectUnsupported, Choose, analysisVars, adviceVars
<1>5. CASE SketchfabClick \/ SketchfabSettle
  BY <1>1, <1>5 DEF SketchfabClick, SketchfabSettle, Choose, analysisVars, adviceVars
<1>6. ASSUME NEW value \in Bitrates, BppInput(value) PROVE ClaimInv'
  BY <1>1, <1>6 DEF BppInput, analysisVars, adviceVars
<1>7. ASSUME NEW a \in Analyses, Analyze(a) \/ AnalysisFailed(a) \/ Advised(a) PROVE ClaimInv'
  BY <1>1, <1>7 DEF Analyze, AnalysisFailed, Advised, adviceVars
<1>8. ASSUME NEW a \in Analyses, Processed(a) PROVE ClaimInv'
  <2>1. PICK t \in Answers(a), proxy \in BOOLEAN :
           /\ currentTelemetryData' = t /\ Quality(t, proxy \/ hasAsset) /\ Advise(a, t, Crossed)
    BY <1>8 DEF Processed
  <2>2. qualityAvailable' => ~t.ntc_bypassed
    BY <2>1, AnswersSound, Zenon DEF Quality, Sound
  <2>3. ASSUME NEW p \in Crossed PROVE p.crossed
    BY DEF Crossed
  <2>4. AdviceClaims
    BY DEF ClaimInv
  <2>5. QED
    BY <2>1, <2>2, <2>3, <2>4, AdviseTrue
<1>9. ASSUME NEW p \in pictures, Pictured(p) PROVE ClaimInv'
  <2>1. /\ UNCHANGED <<currentTelemetryData, qualityAvailable>>
        /\ pictures' = pictures \ {p} /\ Payload(p.ntc_bypassed, p.crossed)
    BY <1>9 DEF Pictured, analysisVars
  <2>2. qualityAvailable' => p.crossed \/ ~p.ntc_bypassed
    BY <2>1 DEF ClaimInv
  <2>3. AdviceClaims'
    BY <2>1, <2>2, PayloadTrue
  <2>4. QED
    BY <2>1, <2>3 DEF ClaimInv
<1>10. ASSUME NEW lang \in Languages, SetLanguage(lang) PROVE ClaimInv'
  <2>1. UNCHANGED <<currentTelemetryData, qualityAvailable>>
    BY <1>10 DEF SetLanguage, analysisVars
  <2>2. CASE UNCHANGED <<panelVars, adviceVars>>
    BY <1>1, <2>1, <2>2 DEF adviceVars
  <2>3. CASE Advise(None, currentTelemetryData, pictures)
    BY <2>1, <2>3, AdviseTrue DEF ClaimInv
  <2>4. QED
    BY <1>10, <2>2, <2>3 DEF SetLanguage
<1>11. QED
  BY <1>2, <1>3, <1>4, <1>5, <1>6, <1>7, <1>8, <1>9, <1>10 DEF Next

\* The payload of the advice claims a comparison only along with telemetry of compressed
\* textures, unless another answer came while its picture was taken.
THEOREM ClaimsCorrect == Spec => []AdviceClaims
<1>1. Init => ClaimInv
  <2> SUFFICES ASSUME Init PROVE ClaimInv
    OBVIOUS
  <2>1. NotSent.analysis_mode # "mesh_ntc"
    BY DEF NotSent, NoText
  <2>2. qualityAvailable = FALSE /\ sent = NotSent
    BY DEF Init
  <2>3. AdviceClaims
    BY <2>1, <2>2 DEF AdviceClaims
  <2>4. QED
    BY <2>2, <2>3 DEF ClaimInv
<1>2. ClaimInv => AdviceClaims
  BY DEF ClaimInv
<1>3. QED
  BY <1>1, <1>2, ClaimStep, PTL DEF Spec

----------------------------------------------------------------------------
(***************************************************************************)
(* Sums.  SumFunction is a fold: a recursive function of the sets of       *)
(* indices.  What it returns is shown by induction on the sets of numbers, *)
(* or of indices, for which something holds.                               *)
(***************************************************************************)
LEMMA NaturalInduction ==
    ASSUME NEW G \in SUBSET Nat, 0 \in G, \A n \in G : n + 1 \in G
    PROVE  G = Nat
<1> DEFINE T == Nat \ G
<1> SUFFICES ASSUME T # {} PROVE FALSE
  OBVIOUS
<1>1. PICK i \in T : \A j \in T : ~ (j < i)
  <2>1. T \in SUBSET Nat
    OBVIOUS
  <2>2. QED
    BY <2>1, LeastNatural
<1>2. i \in Nat /\ i # 0 /\ i \notin G
  OBVIOUS
<1>3. i - 1 \in Nat /\ i - 1 < i /\ i - 1 + 1 = i
  BY <1>2
<1>4. i - 1 \in G
  BY <1>1, <1>3
<1>5. QED
  BY <1>2, <1>3, <1>4

\* The index a fold takes next.
Pick(s) == CHOOSE x \in s : TRUE

LEMMA Picked ==
    ASSUME NEW D, IsFiniteSet(D), NEW s \in SUBSET D, s # {}
    PROVE  /\ Pick(s) \in s /\ s \ {Pick(s)} \in SUBSET D
           /\ Cardinality(s) \in Nat /\ Cardinality(s \ {Pick(s)}) \in Nat
           /\ Cardinality(s) = Cardinality(s \ {Pick(s)}) + 1
<1>1. Pick(s) \in s
  BY DEF Pick
<1>2. IsFiniteSet(s) /\ IsFiniteSet(s \ {Pick(s)})
  BY FS_Subset, FS_RemoveElement
<1>3. QED
  BY <1>1, <1>2, FS_RemoveElement, FS_CardinalityType

LEMMA FoldInduction ==
    ASSUME NEW D, IsFiniteSet(D), NEW Good, {} \in Good,
           \A s \in SUBSET D : s # {} /\ s \ {Pick(s)} \in Good => s \in Good
    PROVE  \A s \in SUBSET D : s \in Good
<1> DEFINE G == {n \in Nat : \A s \in SUBSET D : Cardinality(s) = n => s \in Good}
<1>1. 0 \in G
  BY FS_EmptySet, FS_Subset
<1>2. ASSUME NEW n \in G PROVE n + 1 \in G
  <2> SUFFICES ASSUME NEW s \in SUBSET D, Cardinality(s) = n + 1 PROVE s \in Good
    BY <1>2
  <2>1. s # {}
    BY <1>2, FS_EmptySet
  <2>2. Cardinality(s \ {Pick(s)}) = n /\ s \ {Pick(s)} \in SUBSET D
    BY <1>2, <2>1, Picked
  <2>3. QED
    BY <1>2, <2>1, <2>2
<1>3. G = Nat
  <2>1. G \in SUBSET Nat
    OBVIOUS
  <2> HIDE DEF G
  <2>2. QED
    BY <1>1, <1>2, <2>1, NaturalInduction
<1>4. \A s \in SUBSET D : Cardinality(s) \in Nat
  BY FS_Subset, FS_CardinalityType
<1>5. QED
  BY <1>3, <1>4

\* What the fold does with the sum of the set that is left.
Folded(f, g, s) == IF s = {} THEN 0 ELSE f[Pick(s)] + g[s \ {Pick(s)}]
IsFold(f, g) == g = [s \in SUBSET DOMAIN f |-> Folded(f, g, s)]

LEMMA SumIsFold ==
    ASSUME NEW f
    PROVE  SumFunction(f) = (CHOOSE g : IsFold(f, g))[DOMAIN f]
  BY DEF IsFold, Folded, Pick, SumFunction, SumFunctionOnSet, FoldFunctionOnSet, MapThenFoldSet

LEMMA FoldExists ==
    ASSUME NEW D, IsFiniteSet(D), NEW f \in [D -> Int]
    PROVE  \E g \in [SUBSET D -> Int] : IsFold(f, g)
<1> DEFINE small(n) == {s \in SUBSET D : Cardinality(s) <= n}
           Upto(n, g) == \A s \in small(n) : g[s] = Folded(f, g, s)
           Solved(n) == \E g \in [small(n) -> Int] : Upto(n, g)
           G == {n \in Nat : Solved(n)}
<1>0. \A s \in SUBSET D : Cardinality(s) \in Nat /\ (Cardinality(s) = 0 <=> s = {})
  BY FS_Subset, FS_CardinalityType, FS_EmptySet
<1>1. 0 \in G
  <2> DEFINE g == [s \in small(0) |-> 0]
  <2>1. g \in [small(0) -> Int]
    OBVIOUS
  <2>2. \A s \in small(0) : s = {}
    BY <1>0
  <2>3. Upto(0, g)
    BY <2>2 DEF Folded
  <2>4. QED
    BY <2>1, <2>3
<1>2. ASSUME NEW n \in G PROVE n + 1 \in G
  <2>1. PICK g \in [small(n) -> Int] : Upto(n, g)
    BY <1>2
  <2> DEFINE h == [s \in small(n + 1) |-> Folded(f, g, s)]
  <2>2. ASSUME NEW s \in small(n + 1), s # {}
        PROVE  s \ {Pick(s)} \in small(n) /\ s \ {Pick(s)} \in small(n + 1) /\ Pick(s) \in D
    BY <1>2, <2>2, Picked
  <2>3. h \in [small(n + 1) -> Int]
    <3> SUFFICES ASSUME NEW s \in small(n + 1) PROVE Folded(f, g, s) \in Int
      OBVIOUS
    <3>1. CASE s = {}
      BY <3>1 DEF Folded
    <3>2. CASE s # {}
      <4>1. g[s \ {Pick(s)}] \in Int /\ f[Pick(s)] \in Int
        BY <2>1, <2>2, <3>2
      <4>2. QED
        BY <3>2, <4>1 DEF Folded
    <3>3. QED
      BY <3>1, <3>2
  <2>4. \A s \in small(n) : s \in small(n + 1) => h[s] = g[s]
    BY <2>1
  <2>5. ASSUME NEW s \in small(n + 1) PROVE h[s] = Folded(f, h, s)
    <3>1. h[s] = Folded(f, g, s)
      OBVIOUS
    <3> HIDE DEF h
    <3>2. s # {} => h[s \ {Pick(s)}] = g[s \ {Pick(s)}]
      BY <2>2, <2>4
    <3>3. QED
      BY <3>1, <3>2 DEF Folded
  <2> HIDE DEF h
  <2>6. Upto(n + 1, h)
    BY <2>5
  <2>7. Solved(n + 1)
    BY <2>3, <2>6
  <2> HIDE DEF Solved
  <2>8. QED
    BY <1>2, <2>7
<1>3. G = Nat
  <2>1. G \in SUBSET Nat
    OBVIOUS
  <2> HIDE DEF G
  <2>2. QED
    BY <1>1, <1>2, <2>1, NaturalInduction
<1>4. small(Cardinality(D)) = SUBSET D /\ Cardinality(D) \in Nat
  BY FS_Subset, FS_CardinalityType
<1>5. PICK g \in [SUBSET D -> Int] : \A s \in SUBSET D : g[s] = Folded(f, g, s)
  BY <1>3, <1>4
<1>6. IsFold(f, g)
  BY <1>5 DEF IsFold
<1>7. QED
  BY <1>6

\* A sum is what the fold computes, one index after the other.
Computes(g, f, D) ==
    /\ g \in [SUBSET D -> Int] /\ SumFunction(f) = g[D] /\ g[{}] = 0
    /\ \A s \in SUBSET D : s # {} => g[s] = f[Pick(s)] + g[s \ {Pick(s)}]

LEMMA SumUnfolds ==
    ASSUME NEW D, IsFiniteSet(D), NEW f \in [D -> Int]
    PROVE  \E g : Computes(g, f, D)
<1> DEFINE g == CHOOSE h : IsFold(f, h)
<1>1. IsFold(f, g)
  BY FoldExists
<1>2. SumFunction(f) = g[D]
  BY SumIsFold
<1> HIDE DEF g
<1>3. \A s \in SUBSET D : g[s] = Folded(f, g, s)
  BY <1>1 DEF IsFold
<1>4. g \in [SUBSET D -> Int]
  <2>1. PICK h \in [SUBSET D -> Int] : IsFold(f, h)
    BY FoldExists
  <2> DEFINE Good == {s \in SUBSET D : g[s] = h[s]}
  <2>2. \A s \in SUBSET D : h[s] = Folded(f, h, s)
    BY <2>1 DEF IsFold
  <2>3. {} \in Good
    BY <1>3, <2>2 DEF Folded
  <2>4. ASSUME NEW s \in SUBSET D, s # {}, s \ {Pick(s)} \in Good PROVE s \in Good
    BY <1>3, <2>2, <2>4 DEF Folded
  <2>5. \A s \in SUBSET D : s \in Good
    <3> HIDE DEF Good
    <3>1. QED
      BY <2>3, <2>4, FoldInduction
  <2>6. g = h
    BY <1>1, <2>1, <2>5 DEF IsFold
  <2>7. QED
    BY <2>6
<1>5. QED
  BY <1>2, <1>3, <1>4 DEF Folded, Computes

LEMMA SumDifference ==
    ASSUME NEW D, IsFiniteSet(D), NEW a \in [D -> Int], NEW b \in [D -> Int], NEW c \in [D -> Int],
           \A i \in D : c[i] = a[i] - b[i]
    PROVE  SumFunction(c) = SumFunction(a) - SumFunction(b)
<1>1. PICK f : Computes(f, a, D)
  BY SumUnfolds
<1>2. PICK g : Computes(g, b, D)
  BY SumUnfolds
<1>3. PICK h : Computes(h, c, D)
  BY SumUnfolds
<1> DEFINE Good == {s \in SUBSET D : h[s] = f[s] - g[s]}
<1>4. {} \in Good
  BY <1>1, <1>2, <1>3 DEF Computes
<1>5. ASSUME NEW s \in SUBSET D, s # {}, s \ {Pick(s)} \in Good PROVE s \in Good
  <2> DEFINE i == Pick(s)
             r == s \ {Pick(s)}
  <2>1. i \in D /\ r \in SUBSET D
    BY <1>5, Picked
  <2>2. h[r] = f[r] - g[r]
    BY <1>5
  <2>3. f[s] = a[i] + f[r] /\ g[s] = b[i] + g[r] /\ h[s] = c[i] + h[r] /\ c[i] = a[i] - b[i]
    BY <1>1, <1>2, <1>3, <1>5, <2>1 DEF Computes
  <2>4. a[i] \in Int /\ b[i] \in Int /\ f[r] \in Int /\ g[r] \in Int
    BY <1>1, <1>2, <2>1 DEF Computes
  <2> HIDE DEF i, r
  <2>5. h[s] = f[s] - g[s]
    BY <2>2, <2>3, <2>4
  <2>6. QED
    BY <2>5
<1> HIDE DEF Good
<1>6. \A s \in SUBSET D : s \in Good
  BY <1>4, <1>5, FoldInduction
<1>7. QED
  BY <1>1, <1>2, <1>3, <1>6 DEF Good, Computes

LEMMA SumTimes ==
    ASSUME NEW D, IsFiniteSet(D), NEW a \in [D -> Int], NEW b \in [D -> Int],
           NEW p \in Int, \A i \in D : b[i] = p * a[i]
    PROVE  SumFunction(b) = p * SumFunction(a)
<1>1. PICK f : Computes(f, a, D)
  BY SumUnfolds
<1>2. PICK g : Computes(g, b, D)
  BY SumUnfolds
<1> DEFINE Good == {s \in SUBSET D : g[s] = p * f[s]}
<1>3. {} \in Good
  BY <1>1, <1>2 DEF Computes
<1>4. ASSUME NEW s \in SUBSET D, s # {}, s \ {Pick(s)} \in Good PROVE s \in Good
  <2> DEFINE i == Pick(s)
             r == s \ {Pick(s)}
  <2>1. i \in D /\ r \in SUBSET D
    BY <1>4, Picked
  <2>2. g[r] = p * f[r] /\ b[i] = p * a[i]
    BY <1>4, <2>1
  <2>3. f[s] = a[i] + f[r] /\ g[s] = b[i] + g[r]
    BY <1>1, <1>2, <1>4, <2>1 DEF Computes
  <2>4. a[i] \in Int /\ b[i] \in Int /\ f[r] \in Int /\ g[r] \in Int
    BY <1>1, <1>2, <2>1 DEF Computes
  <2> HIDE DEF i, r
  <2>5. p * (a[i] + f[r]) = p * a[i] + p * f[r]
    BY <2>4
  <2>6. g[s] = p * f[s]
    BY <2>2, <2>3, <2>5
  <2>7. QED
    BY <2>6
<1> HIDE DEF Good
<1>5. \A s \in SUBSET D : s \in Good
  BY <1>3, <1>4, FoldInduction
<1>6. QED
  BY <1>1, <1>2, <1>5 DEF Good, Computes

LEMMA SumNatural ==
    ASSUME NEW D, IsFiniteSet(D), NEW a \in [D -> Nat]
    PROVE  SumFunction(a) \in Nat
<1>1. a \in [D -> Int]
  OBVIOUS
<1>2. PICK f : Computes(f, a, D)
  BY <1>1, SumUnfolds
<1> DEFINE Good == {s \in SUBSET D : f[s] \in Nat}
<1>3. {} \in Good
  BY <1>2 DEF Computes
<1>4. ASSUME NEW s \in SUBSET D, s # {}, s \ {Pick(s)} \in Good PROVE s \in Good
  <2>1. Pick(s) \in D /\ f[s] = a[Pick(s)] + f[s \ {Pick(s)}]
    BY <1>2, <1>4, Picked DEF Computes
  <2>2. a[Pick(s)] \in Nat /\ f[s \ {Pick(s)}] \in Nat
    BY <1>4, <2>1
  <2>3. QED
    BY <2>1, <2>2
<1> HIDE DEF Good
<1>5. \A s \in SUBSET D : s \in Good
  BY <1>3, <1>4, FoldInduction
<1>6. QED
  BY <1>2, <1>5 DEF Good, Computes

LEMMA SumConstant ==
    ASSUME NEW D, IsFiniteSet(D), NEW k \in Int, NEW a, a = [i \in D |-> k]
    PROVE  SumFunction(a) = k * Cardinality(D)
<1>1. a \in [D -> Int]
  OBVIOUS
<1>2. PICK f : Computes(f, a, D)
  BY <1>1, SumUnfolds
<1> DEFINE Good == {s \in SUBSET D : f[s] = k * Cardinality(s)}
<1>3. {} \in Good
  BY <1>2, FS_EmptySet DEF Computes
<1>4. ASSUME NEW s \in SUBSET D, s # {}, s \ {Pick(s)} \in Good PROVE s \in Good
  <2> DEFINE m == Cardinality(s \ {Pick(s)})
  <2>1. Pick(s) \in D /\ m \in Nat /\ Cardinality(s) = m + 1
    BY <1>4, Picked
  <2>2. f[s] = k + k * m
    BY <1>2, <1>4, <2>1 DEF Computes
  <2> HIDE DEF m
  <2>3. k * (m + 1) = k + k * m
    BY <2>1
  <2>4. QED
    BY <2>1, <2>2, <2>3
<1> HIDE DEF Good
<1>5. \A s \in SUBSET D : s \in Good
  BY <1>3, <1>4, FoldInduction
<1>6. QED
  BY <1>2, <1>5 DEF Good, Computes

\* A sum is bounded by the number of indices at which something is added.
LEMMA SumBounded ==
    ASSUME NEW D, IsFiniteSet(D), NEW a \in [D -> Int], NEW P \in SUBSET D, NEW k \in Int,
           \A i \in P : a[i] <= k, \A i \in D \ P : a[i] <= 0
    PROVE  SumFunction(a) <= k * Cardinality(P)
<1>1. PICK f : Computes(f, a, D)
  BY SumUnfolds
<1> DEFINE Good == {s \in SUBSET D : f[s] <= k * Cardinality(s \cap P)}
<1>2. {} \in Good
  <2>1. f[{}] = 0 /\ {} \cap P = {} /\ Cardinality({}) = 0
    BY <1>1, FS_EmptySet DEF Computes
  <2>2. QED
    BY <2>1
<1>3. ASSUME NEW s \in SUBSET D, s # {}, s \ {Pick(s)} \in Good PROVE s \in Good
  <2> DEFINE i == Pick(s)
             r == s \ {Pick(s)}
             m == Cardinality(r \cap P)
  <2>1. i \in s /\ i \in D /\ r \in SUBSET D
    BY <1>3, Picked
  <2>2. f[s] = a[i] + f[r] /\ a[i] \in Int /\ f[r] \in Int /\ f[r] <= k * m
    BY <1>1, <1>3, <2>1 DEF Computes
  <2>3. IsFiniteSet(r \cap P) /\ m \in Nat
    BY <2>1, FS_Subset, FS_CardinalityType
  <2>4. CASE i \in P
    <3>1. s \cap P = (r \cap P) \cup {i} /\ i \notin r \cap P
      BY <2>1, <2>4
    <3>2. Cardinality(s \cap P) = m + 1
      BY <2>3, <3>1, FS_AddElement
    <3>3. a[i] <= k
      BY <2>4
    <3> HIDE DEF i, r, m
    <3>4. k * (m + 1) = k * m + k /\ k * m \in Int
      BY <2>3
    <3>5. f[s] <= k * (m + 1)
      BY <2>2, <3>3, <3>4
    <3>6. QED
      BY <3>2, <3>5
  <2>5. CASE i \notin P
    <3>1. s \cap P = r \cap P
      BY <2>1, <2>5
    <3>2. a[i] <= 0
      BY <2>1, <2>5
    <3>3. Cardinality(s \cap P) = m
      BY <3>1
    <3> HIDE DEF i, r, m
    <3>4. k * m \in Int
      BY <2>3
    <3>5. f[s] <= k * m
      BY <2>2, <3>2, <3>4
    <3>6. QED
      BY <3>3, <3>5
  <2>6. QED
    BY <2>4, <2>5
<1> HIDE DEF Good
<1>4. \A s \in SUBSET D : s \in Good
  BY <1>2, <1>3, FoldInduction
<1>5. D \cap P = P
  OBVIOUS
<1>6. QED
  BY <1>1, <1>4, <1>5 DEF Good, Computes

\* Sums of terms that are near each other are near each other.
LEMMA SumNear ==
    ASSUME NEW D, IsFiniteSet(D), NEW a \in [D -> Int], NEW b \in [D -> Int],
           NEW P \in SUBSET D, NEW k \in Int,
           \A i \in P : Near(a[i], b[i], k), \A i \in D \ P : a[i] = b[i]
    PROVE  Near(SumFunction(a), SumFunction(b), k * Cardinality(P))
<1> DEFINE over == [i \in D |-> a[i] - b[i]]
           under == [i \in D |-> b[i] - a[i]]
<1>1. over \in [D -> Int] /\ under \in [D -> Int]
  OBVIOUS
<1>2. /\ \A i \in P : over[i] <= k /\ under[i] <= k
      /\ \A i \in D \ P : over[i] <= 0 /\ under[i] <= 0
  BY DEF Near
<1>3. /\ \A i \in D : over[i] = a[i] - b[i]
      /\ \A i \in D : under[i] = b[i] - a[i]
  OBVIOUS
<1> HIDE DEF over, under
<1>4. /\ SumFunction(over) = SumFunction(a) - SumFunction(b)
      /\ SumFunction(under) = SumFunction(b) - SumFunction(a)
  BY <1>1, <1>3, SumDifference
<1>5. /\ SumFunction(over) <= k * Cardinality(P)
      /\ SumFunction(under) <= k * Cardinality(P)
  BY <1>1, <1>2, SumBounded
<1>6. QED
  BY <1>4, <1>5 DEF Near

LEMMA MeanOfEqual ==
    ASSUME NEW k \in Int, NEW n \in Nat, n # 0
    PROVE  (k * n) \div n = k
  OBVIOUS

----------------------------------------------------------------------------
(***************************************************************************)
(* The figures.                                                            *)
(***************************************************************************)

\* What round returns is nearest.
LEMMA RoundedNearest ==
    ASSUME NEW x \in Nat, NEW g \in Nat \ {0}
    PROVE  Rounded(x, g) \in Nat /\ Near(2 * (g * Rounded(x, g)), 2 * x, g)
<1> DEFINE whole == x \div g
           rest == x % g
<1>1. whole \in Nat /\ rest \in Nat /\ rest < g /\ x = g * whole + rest
  OBVIOUS
<1>2. \/ Rounded(x, g) = whole + 1 /\ 2 * rest >= g
      \/ Rounded(x, g) = whole /\ 2 * rest <= g
  BY <1>1 DEF Rounded
<1> HIDE DEF whole, rest
<1>3. g * (whole + 1) = g * whole + g /\ g * whole \in Nat
  BY <1>1
<1>4. QED
  BY <1>1, <1>2, <1>3 DEF Near

\* A figure that is not larger is not larger when rounded.
LEMMA RoundedOrder ==
    ASSUME NEW x \in Nat, NEW y \in Nat, y <= x, NEW g \in Nat \ {0}
    PROVE  Rounded(y, g) <= Rounded(x, g)
<1> DEFINE p == Rounded(x, g)
           q == Rounded(y, g)
<1>1. p \in Nat /\ Near(2 * (g * p), 2 * x, g) /\ q \in Nat /\ Near(2 * (g * q), 2 * y, g)
  BY RoundedNearest
<1>2. x = y => p = q
  OBVIOUS
<1> HIDE DEF p, q
<1>3. SUFFICES ASSUME p < q PROVE FALSE
  BY <1>1 DEF p, q
<1>4. g * (p + 1) <= g * q /\ g * (p + 1) = g * p + g
  <2>1. PICK d \in Nat : q = p + 1 + d
    <3>1. q - (p + 1) \in Nat /\ q = p + 1 + (q - (p + 1))
      BY <1>1, <1>3
    <3>2. QED
      BY <3>1
  <2>2. g * q = g * (p + 1) + g * d /\ g * d \in Nat /\ g * (p + 1) = g * p + g
    BY <1>1, <2>1
  <2>3. g * (p + 1) \in Nat
    BY <1>1
  <2>4. QED
    BY <2>2, <2>3
<1>5. g * p \in Nat /\ g * q \in Nat
  BY <1>1
<1>6. y < x
  BY <1>2, <1>3, <1>1
<1>7. QED
  BY <1>1, <1>4, <1>5, <1>6 DEF Near

\* The reduction of b bits per pixel, as an entry has it.
Reduction(b) == Rounded(4000 - 125 * b, 4)

LEMMA ReductionNearest ==
    ASSUME NEW b \in 1..(RawBits - 1)
    PROVE  Reduction(b) \in Nat /\ Near(2 * (4 * Reduction(b)), 2 * (4000 - 125 * b), 4)
<1> DEFINE x == 4000 - 125 * b
<1>1. x \in Nat /\ 4 \in Nat \ {0}
  BY DEF RawBits
<1>2. Reduction(b) = Rounded(x, 4)
  BY DEF Reduction
<1>3. 2 * x = 2 * (4000 - 125 * b)
  OBVIOUS
<1> HIDE DEF x
<1>4. Rounded(x, 4) \in Nat /\ Near(2 * (4 * Rounded(x, 4)), 2 * x, 4)
  BY <1>1, RoundedNearest
<1>5. QED
  BY <1>2, <1>3, <1>4

\* The figures of one entry made with b bits per pixel agree, up to rounding; an
\* entry without a reduction adds nothing to the sums.
FiguresOf(entry, b) ==
    /\ entry.raw_vram_mb \in Nat /\ entry.ntc_vram_mb \in Nat /\ entry.vram_saved_mb \in Nat
    /\ entry.ntc_vram_mb <= entry.raw_vram_mb
    /\ entry.vram_reduction # Absent =>
         /\ entry.vram_reduction = Reduction(b)
         /\ Near(entry.vram_saved_mb, entry.raw_vram_mb - entry.ntc_vram_mb, 1)
         /\ Near((2 * (RawBits - b)) * entry.raw_vram_mb, (2 * RawBits) * entry.vram_saved_mb,
                 2 * RawBits - b)
    /\ entry.vram_reduction = Absent =>
         /\ entry.status \in {"Skipped", "Failed"}
         /\ entry.raw_vram_mb = 0 /\ entry.ntc_vram_mb = 0 /\ entry.vram_saved_mb = 0

LEMMA CompressedFigures ==
    ASSUME NEW n \in Nat, NEW b \in 1..(RawBits - 1)
    PROVE  FiguresOf(Compressed(n, b), b)
<1> DEFINE entry == Compressed(n, b)
           raw == Rounded(32 * n, Grain)
           ntc == Rounded(b * n, Grain)
           saved == Rounded((32 - b) * n, Grain)
           rest == 32 - b
<1>1. /\ entry.raw_vram_mb = raw /\ entry.ntc_vram_mb = ntc /\ entry.vram_saved_mb = saved
      /\ entry.vram_reduction = Reduction(b) /\ entry.status = "Compressed"
  BY DEF Compressed, RawBits, Reduction
<1>2. b \in 1..31 /\ rest \in 1..31 /\ Grain \in Nat \ {0} /\ 4000 - 125 * b \in Nat
  BY GrainAssumption DEF RawBits
<1>3. /\ b * n \in Nat /\ 32 * n \in Nat /\ rest * n \in Nat /\ b * n <= 32 * n
      /\ rest * n = 32 * n - b * n
  <2>1. rest * n = 32 * n - b * n
    BY <1>2
  <2>2. rest * n \in Nat /\ b * n \in Nat /\ 32 * n \in Nat
    BY <1>2
  <2> HIDE DEF rest
  <2>3. QED
    BY <2>1, <2>2
<1>4. Reduction(b) \in Nat
  BY ReductionNearest
<1>5. /\ raw \in Nat /\ Near(2 * (Grain * raw), 2 * (32 * n), Grain)
      /\ ntc \in Nat /\ Near(2 * (Grain * ntc), 2 * (b * n), Grain)
      /\ saved \in Nat /\ Near(2 * (Grain * saved), 2 * (rest * n), Grain)
      /\ ntc <= raw
  <2> DEFINE x == 32 * n
             y == b * n
             z == rest * n
  <2>1. x \in Nat /\ y \in Nat /\ z \in Nat /\ y <= x /\ Grain \in Nat \ {0}
    BY <1>2, <1>3
  <2>2. raw = Rounded(x, Grain) /\ ntc = Rounded(y, Grain) /\ saved = Rounded(z, Grain)
    OBVIOUS
  <2> HIDE DEF x, y, z, raw, ntc, saved
  <2>3. raw \in Nat /\ Near(2 * (Grain * raw), 2 * x, Grain)
    BY <2>1, <2>2, RoundedNearest
  <2>4. ntc \in Nat /\ Near(2 * (Grain * ntc), 2 * y, Grain)
    BY <2>1, <2>2, RoundedNearest
  <2>5. saved \in Nat /\ Near(2 * (Grain * saved), 2 * z, Grain)
    BY <2>1, <2>2, RoundedNearest
  <2>6. ntc <= raw
    BY <2>1, <2>2, RoundedOrder
  <2>7. QED
    BY <2>3, <2>4, <2>5, <2>6 DEF x, y, z
<1> HIDE DEF entry, raw, ntc, saved, rest
<1>6. Grain * raw \in Nat /\ Grain * ntc \in Nat /\ Grain * saved \in Nat
  BY <1>2, <1>5
<1>7. Near(saved, raw - ntc, 1)
  <2> DEFINE d == saved - (raw - ntc)
  <2>1. d \in Int /\ Grain * d = Grain * saved - Grain * raw + Grain * ntc
    BY <1>2, <1>5
  <2>2. 2 * (Grain * d) <= 3 * Grain /\ -(3 * Grain) <= 2 * (Grain * d)
    BY <1>2, <1>3, <1>5, <1>6, <2>1 DEF Near
  <2> HIDE DEF d
  <2>3. d <= 1 /\ -1 <= d
    <3>1. ASSUME d >= 2 PROVE FALSE
      <4>1. d - 2 \in Nat /\ Grain * d = 2 * Grain + Grain * (d - 2)
        BY <1>2, <2>1, <3>1
      <4>2. Grain * (d - 2) \in Nat
        BY <1>2, <4>1
      <4>3. QED
        BY <1>2, <2>2, <4>1, <4>2
    <3>2. ASSUME d <= -2 PROVE FALSE
      <4>1. -2 - d \in Nat /\ Grain * d = -(2 * Grain) - Grain * (-2 - d)
        BY <1>2, <2>1, <3>2
      <4>2. Grain * (-2 - d) \in Nat
        BY <1>2, <4>1
      <4>3. QED
        BY <1>2, <2>2, <4>1, <4>2
    <3>3. QED
      BY <2>1, <3>1, <3>2
  <2>4. QED
    BY <1>5, <2>3 DEF Near, d
<1>8. Near((2 * rest) * raw, 64 * saved, 64 - b)
  <2> DEFINE d == (2 * rest) * raw - 64 * saved
             e == 64 - b
  <2>1. d \in Int /\ e \in Nat /\ e = rest + 32
    BY <1>2, <1>5 DEF rest
  <2>2. Grain * d = rest * (2 * (Grain * raw)) - 32 * (2 * (Grain * saved))
    BY <1>2, <1>5
  <2> DEFINE u == 2 * (Grain * raw) - 2 * (32 * n)
             v == 2 * (Grain * saved) - 2 * (rest * n)
  <2>3. /\ u \in Int /\ u <= Grain /\ -Grain <= u
        /\ v \in Int /\ v <= Grain /\ -Grain <= v
    BY <1>2, <1>3, <1>5, <1>6 DEF Near
  <2>4. Grain * d = rest * u - 32 * v
    <3>1. rest * u = rest * (2 * (Grain * raw)) - rest * (2 * (32 * n))
      BY <1>2, <1>3, <1>6
    <3>2. 32 * v = 32 * (2 * (Grain * saved)) - 32 * (2 * (rest * n))
      BY <1>2, <1>3, <1>6
    <3>3. rest * (2 * (32 * n)) = 32 * (2 * (rest * n))
      BY <1>2
    <3>4. /\ rest * (2 * (Grain * raw)) \in Int /\ rest * (2 * (32 * n)) \in Int
          /\ 32 * (2 * (Grain * saved)) \in Int /\ 32 * (2 * (rest * n)) \in Int
      BY <1>2, <1>3, <1>6
    <3>5. QED
      BY <2>2, <3>1, <3>2, <3>3, <3>4
  <2> HIDE DEF d, u, v, e
  <2>5. /\ rest * u <= rest * Grain /\ -(rest * Grain) <= rest * u
        /\ rest * u \in Int /\ rest * Grain \in Int
    <3>1. Grain - u \in Nat /\ Grain + u \in Nat
      BY <1>2, <2>3
    <3>2. rest * (Grain - u) \in Nat /\ rest * (Grain + u) \in Nat
      BY <1>2, <3>1
    <3>3. /\ rest * (Grain - u) = rest * Grain - rest * u
          /\ rest * (Grain + u) = rest * Grain + rest * u
      BY <1>2, <2>3
    <3>4. rest * u \in Int /\ rest * Grain \in Int
      BY <1>2, <2>3
    <3>5. QED
      BY <3>2, <3>3, <3>4
  <2>6. e * Grain = rest * Grain + 32 * Grain
    BY <1>2, <2>1
  <2>7. Grain * d <= e * Grain /\ -(e * Grain) <= Grain * d
    BY <1>2, <2>3, <2>4, <2>5, <2>6
  <2>8. d <= e /\ -e <= d
    <3>1. ASSUME d >= e + 1 PROVE FALSE
      <4>1. d - e - 1 \in Nat /\ Grain * d = e * Grain + Grain + Grain * (d - e - 1)
        BY <1>2, <2>1, <3>1
      <4>2. Grain * (d - e - 1) \in Nat /\ e * Grain \in Nat
        BY <1>2, <2>1, <4>1
      <4>3. QED
        BY <1>2, <2>7, <4>1, <4>2
    <3>2. ASSUME d <= -e - 1 PROVE FALSE
      <4>1. -e - 1 - d \in Nat /\ Grain * d = -(e * Grain) - Grain - Grain * (-e - 1 - d)
        BY <1>2, <2>1, <3>2
      <4>2. Grain * (-e - 1 - d) \in Nat /\ e * Grain \in Nat
        BY <1>2, <2>1, <4>1
      <4>3. QED
        BY <1>2, <2>7, <4>1, <4>2
    <3>3. QED
      BY <2>1, <3>1, <3>2
  <2>9. (2 * rest) * raw \in Int /\ 64 * saved \in Int
    BY <1>2, <1>5
  <2>10. QED
    BY <2>8, <2>9 DEF Near, d, e
<1>9. QED
  <2>1. Reduction(b) # Absent
    BY <1>4 DEF Absent
  <2>2. 2 * (RawBits - b) = 2 * rest /\ 2 * RawBits = 64
    BY DEF RawBits, rest
  <2>3. Near((2 * (RawBits - b)) * raw, (2 * RawBits) * saved, 2 * RawBits - b)
    BY <1>8, <2>2
  <2>4. QED
    BY <1>1, <1>5, <1>7, <2>1, <2>3 DEF FiguresOf, entry

LEMMA EntryFigures ==
    ASSUME NEW textures \in Seq(Textures), NEW b \in 1..(RawBits - 1), NEW i \in DOMAIN textures
    PROVE  FiguresOf(run_ntc_compression(textures, b)[i], b)
<1>1. textures[i].outcome \in {"missing", "failed", "compressed"} /\ textures[i].size \in Nat
  <2>1. textures[i] \in Textures
    OBVIOUS
  <2>2. QED
    BY <2>1 DEF Textures
<1>2. run_ntc_compression(textures, b)[i] = Asset(textures[i], b)
  BY DEF run_ntc_compression
<1>3. FiguresOf(Entry("Skipped", "", ""), b) /\ FiguresOf(Entry("Failed", "", "Compression failed"), b)
  BY DEF FiguresOf, Entry
<1>4. QED
  BY <1>1, <1>2, <1>3, CompressedFigures DEF Asset

\* The figures of a list of entries.
FiguresAgree(assets, b) ==
    LET compressed == Cardinality(Parsed(assets)) IN
    /\ Near(Saved(assets), Segments(assets)[1], compressed)
    /\ has_valid_ntc_quality(assets) =>
         /\ Near(4 * Average(assets), 4000 - 125 * b, 2)
         /\ Near(2 * (RawBits - b) * Raw(assets), 2 * RawBits * Saved(assets),
                 (2 * RawBits - b) * compressed)

LEMMA ListFigures ==
    ASSUME NEW assets, IsFiniteSet(DOMAIN assets), NEW b \in 1..(RawBits - 1),
           \A i \in DOMAIN assets : FiguresOf(assets[i], b)
    PROVE  FiguresAgree(assets, b)
<1> DEFINE D == DOMAIN assets
           P == Parsed(assets)
           m == Cardinality(P)
           raw == [i \in D |-> assets[i].raw_vram_mb]
           ntc == [i \in D |-> assets[i].ntc_vram_mb]
           saved == [i \in D |-> assets[i].vram_saved_mb]
           removed == [i \in D |-> raw[i] - ntc[i]]
           p == 2 * (RawBits - b)
           q == 2 * RawBits
           k == 2 * RawBits - b
           left == [i \in D |-> p * raw[i]]
           right == [i \in D |-> q * saved[i]]
<1>1. b \in Int /\ p \in Int /\ q \in Int /\ k \in Int /\ Reduction(b) \in Nat /\ Reduction(b) # Absent
      /\ Near(2 * (4 * Reduction(b)), 2 * (4000 - 125 * b), 4)
  <2>1. b \in 1..31 /\ 4000 - 125 * b \in Nat /\ 4 \in Nat \ {0}
    BY DEF RawBits
  <2>2. Reduction(b) \in Nat /\ Near(2 * (4 * Reduction(b)), 2 * (4000 - 125 * b), 4)
    BY ReductionNearest
  <2>3. QED
    BY <2>1, <2>2 DEF RawBits, Absent
<1>2. /\ raw \in [D -> Nat] /\ ntc \in [D -> Nat] /\ saved \in [D -> Nat]
      /\ \A i \in D : ntc[i] <= raw[i]
  BY DEF FiguresOf
<1>3. removed \in [D -> Nat] /\ \A i \in D : removed[i] = raw[i] - ntc[i]
  BY <1>2
<1>4. P \in SUBSET D /\ IsFiniteSet(D) /\ m \in Nat
  BY FS_Subset, FS_CardinalityType DEF Parsed
<1>5. /\ \A i \in P : Near(saved[i], removed[i], 1) /\ Near(p * raw[i], q * saved[i], k)
      /\ \A i \in D \ P : saved[i] = 0 /\ removed[i] = 0 /\ raw[i] = 0
  BY DEF FiguresOf, Parsed
<1>6. Saved(assets) = SumFunction(saved) /\ Raw(assets) = SumFunction(raw)
      /\ Ntc(assets) = SumFunction(ntc)
  BY DEF Saved, Raw, Ntc
<1>7. /\ \A i \in P : assets[i].vram_reduction = Reduction(b)
      /\ \A i \in D : assets[i].status \notin {"Skipped", "Failed"} => i \in P
  BY DEF FiguresOf, Parsed
<1>8. \A i \in D : left[i] = p * raw[i] /\ right[i] = q * saved[i]
  OBVIOUS
<1>9. left \in [D -> Int] /\ right \in [D -> Int]
  <2> HIDE DEF raw, saved, p, q
  <2>1. \A i \in D : p * raw[i] \in Int /\ q * saved[i] \in Int
    BY <1>1, <1>2
  <2>2. QED
    BY <2>1
<1> HIDE DEF D, P, m, raw, ntc, saved, removed, left, right, p, q, k
<1>10. raw \in [D -> Int] /\ ntc \in [D -> Int] /\ saved \in [D -> Int] /\ removed \in [D -> Int]
  BY <1>2, <1>3
<1>11. /\ SumFunction(saved) \in Nat /\ SumFunction(raw) \in Nat /\ SumFunction(ntc) \in Nat
       /\ SumFunction(removed) \in Nat
       /\ SumFunction(removed) = SumFunction(raw) - SumFunction(ntc)
  BY <1>2, <1>3, <1>4, <1>10, SumNatural, SumDifference
<1>12. Near(Saved(assets), Segments(assets)[1], m)
  <2>1. Segments(assets)[1] = SumFunction(removed)
    BY <1>6, <1>11 DEF Segments
  <2>2. \A i \in P : Near(saved[i], removed[i], 1)
    BY <1>5
  <2>3. \A i \in D \ P : saved[i] = removed[i]
    BY <1>5
  <2>4. Near(SumFunction(saved), SumFunction(removed), 1 * Cardinality(P))
    BY <1>4, <1>10, <2>2, <2>3, SumNear
  <2>5. 1 * Cardinality(P) = m
    BY <1>4 DEF m
  <2>6. QED
    BY <1>6, <2>1, <2>4, <2>5
<1>13. Near(p * Raw(assets), q * Saved(assets), k * m)
  <2>1. \A i \in P : Near(left[i], right[i], k)
    BY <1>4, <1>5, <1>8
  <2>2. \A i \in D \ P : left[i] = right[i]
    <3>1. p * 0 = 0 /\ q * 0 = 0
      BY <1>1
    <3>2. QED
      BY <1>5, <1>8, <3>1
  <2>3. Near(SumFunction(left), SumFunction(right), k * Cardinality(P))
    BY <1>1, <1>4, <1>9, <2>1, <2>2, SumNear
  <2>4. SumFunction(left) = p * SumFunction(raw)
    BY <1>1, <1>4, <1>8, <1>9, <1>10, SumTimes
  <2>5. SumFunction(right) = q * SumFunction(saved)
    BY <1>1, <1>4, <1>8, <1>9, <1>10, SumTimes
  <2>6. QED
    BY <1>6, <2>3, <2>4, <2>5 DEF m
<1>14. ASSUME has_valid_ntc_quality(assets) PROVE Average(assets) = Reduction(b)
  <2> DEFINE reduction == [i \in P |-> assets[i].vram_reduction]
  <2>1. P # {}
    BY <1>7, <1>14 DEF has_valid_ntc_quality, D
  <2>2. m # 0
    BY <1>4, <2>1, FS_Subset, FS_EmptySet DEF m
  <2>3. reduction = [i \in P |-> Reduction(b)]
    BY <1>7
  <2>4. Average(assets) = SumFunction(reduction) \div m
    BY <2>1 DEF Average, P, m
  <2>5. IsFiniteSet(P)
    BY <1>4, FS_Subset
  <2> HIDE DEF reduction
  <2>6. SumFunction(reduction) = Reduction(b) * m
    BY <1>1, <2>3, <2>5, SumConstant DEF m
  <2>7. QED
    BY <1>1, <1>4, <2>2, <2>4, <2>6, MeanOfEqual
<1>15. ASSUME has_valid_ntc_quality(assets) PROVE Near(4 * Average(assets), 4000 - 125 * b, 2)
  BY <1>1, <1>14, <1>15 DEF Near
<1>16. /\ Near(Saved(assets), Segments(assets)[1], Cardinality(Parsed(assets)))
       /\ Near(2 * (RawBits - b) * Raw(assets), 2 * RawBits * Saved(assets),
               (2 * RawBits - b) * Cardinality(Parsed(assets)))
  BY <1>12, <1>13 DEF m, P, p, q, k
<1>17. QED
  BY <1>15, <1>16 DEF FiguresAgree

\* The list kept is empty or that of a stage, compressed at the bitrate its
\* analysis was started with.
Measured(assets, b) ==
    \/ assets = <<>>
    \/ b \in Bitrates /\ \E textures \in Stages : assets = run_ntc_compression(textures, b)

\* A call under way keeps its bitrate, whatever the slider is set to since:
\* without this part the figures of its answer could not be traced to it.
FiguresInv ==
    /\ currentBpp \in Bitrates
    /\ DOMAIN pc = Analyses /\ DOMAIN bpp = Analyses
    /\ \A a \in Analyses : pc[a] = "processing" => bpp[a] \in Bitrates
    /\ Measured(currentTelemetryData.ntc_compressed_files, asked)

LEMMA MeasuredFigures ==
    ASSUME NEW assets, NEW b, Measured(assets, b) PROVE FiguresAgree(assets, b)
<1>1. CASE assets = <<>>
  <2>1. DOMAIN assets = {} /\ IsFiniteSet(DOMAIN assets)
    BY <1>1, FS_EmptySet
  <2>2. 1 \in 1..(RawBits - 1) /\ FiguresAgree(assets, 1)
    <3>1. 1 \in 1..(RawBits - 1)
      BY DEF RawBits
    <3>2. QED
      BY <2>1, <3>1, ListFigures
  <2>3. ~has_valid_ntc_quality(assets)
    BY <2>1 DEF has_valid_ntc_quality
  <2>4. QED
    BY <2>2, <2>3 DEF FiguresAgree
<1>2. ASSUME NEW textures \in Stages, b \in Bitrates, assets = run_ntc_compression(textures, b)
      PROVE  FiguresAgree(assets, b)
  <2>1. textures \in Seq(Textures) /\ b \in 1..(RawBits - 1)
    BY <1>2, PanelAssumption
  <2>2. DOMAIN assets = 1..Len(textures) /\ Len(textures) \in Nat /\ DOMAIN textures = DOMAIN assets
    BY <1>2, <2>1, AssetIndices
  <2>3. IsFiniteSet(DOMAIN assets)
    BY <2>2, FS_Interval
  <2>4. \A i \in DOMAIN assets : FiguresOf(assets[i], b)
    BY <1>2, <2>1, <2>2, EntryFigures
  <2>5. QED
    BY <2>1, <2>3, <2>4, ListFigures
<1>3. QED
  BY <1>1, <1>2 DEF Measured

LEMMA NothingMeasured ==
    ASSUME NEW status, NEW b PROVE Measured(NoTextures(status).ntc_compressed_files, b)
BY DEF NoTextures, Measured

\* The bitrates of the calls under way stay; the telemetry that is kept, too.
LEMMA KeptFigures ==
    ASSUME FiguresInv, currentBpp' \in Bitrates, DOMAIN pc' = Analyses, DOMAIN bpp' = Analyses,
           \A a \in Analyses : pc'[a] = "processing" =>
               \/ pc[a] = "processing" /\ bpp'[a] = bpp[a]
               \/ bpp'[a] \in Bitrates,
           UNCHANGED <<currentTelemetryData, asked>>
    PROVE  FiguresInv'
BY DEF FiguresInv

LEMMA FiguresStep == FiguresInv /\ [Next]_vars => FiguresInv'
<1> SUFFICES ASSUME FiguresInv, [Next]_vars PROVE FiguresInv'
  OBVIOUS
<1>1. /\ currentBpp \in Bitrates /\ DOMAIN pc = Analyses /\ DOMAIN bpp = Analyses
      /\ \A a \in Analyses : pc[a] = "processing" => bpp[a] \in Bitrates
  BY DEF FiguresInv
<1>2. ASSUME UNCHANGED <<pc, bpp, currentTelemetryData, asked>>, currentBpp' \in Bitrates
      PROVE  FiguresInv'
  BY <1>1, <1>2, KeptFigures
<1>3. CASE UNCHANGED vars
  BY <1>1, <1>2, <1>3 DEF vars, inputVars, analysisVars
<1>4. CASE Restart
  <2>1. \A a \in Analyses : pc'[a] # "processing"
    BY <1>4 DEF Restart
  <2>2. /\ currentBpp' \in Bitrates /\ DOMAIN pc' = Analyses /\ DOMAIN bpp' = Analyses
        /\ currentTelemetryData' = NoTelemetry
    BY <1>4 DEF Restart
  <2>3. Measured(NoTelemetry.ntc_compressed_files, asked')
    BY NothingMeasured DEF NoTelemetry
  <2>4. QED
    BY <2>1, <2>2, <2>3 DEF FiguresInv
<1>5. CASE Select \/ SelectUnsupported
  BY <1>1, <1>2, <1>5 DEF Select, SelectUnsupported, analysisVars
<1>6. CASE SketchfabClick \/ SketchfabSettle
  BY <1>1, <1>2, <1>6 DEF SketchfabClick, SketchfabSettle, inputVars, analysisVars
<1>7. ASSUME NEW value \in Bitrates, BppInput(value) PROVE FiguresInv'
  BY <1>2, <1>7 DEF BppInput, analysisVars
<1>8. ASSUME NEW a \in Analyses, Analyze(a) PROVE FiguresInv'
  <2>1. /\ pc' = [pc EXCEPT ![a] = "processing"] /\ bpp' = [bpp EXCEPT ![a] = currentBpp]
        /\ UNCHANGED <<currentBpp, currentTelemetryData, asked>>
    BY <1>8 DEF Analyze
  <2>2. QED
    BY <1>1, <2>1, KeptFigures
<1>9. ASSUME NEW a \in Analyses, Processed(a) PROVE FiguresInv'
  <2>1. PICK t \in Answers(a) : currentTelemetryData' = t
    BY <1>9 DEF Processed
  <2>2. /\ pc' = [pc EXCEPT ![a] = "advising"] /\ bpp' = [bpp EXCEPT ![a] = None]
        /\ asked' = bpp[a] /\ bpp[a] \in Bitrates /\ currentBpp' = currentBpp
    BY <1>1, <1>9 DEF Processed, inputVars
  <2>3. Measured(t.ntc_compressed_files, asked')
    <3>1. CASE t = Bypassed
      BY <3>1, NothingMeasured DEF Bypassed
    <3>2. ASSUME NEW textures \in Stages, t = Telemetry(textures, bpp[a])
          PROVE  Measured(t.ntc_compressed_files, asked')
      <4>1. t.ntc_compressed_files = run_ntc_compression(textures, bpp[a])
        BY <3>2 DEF Telemetry
      <4>2. QED
        BY <2>2, <4>1 DEF Measured
    <3>3. QED
      BY <3>1, <3>2 DEF Answers
  <2>5. QED
    BY <1>1, <2>1, <2>2, <2>3 DEF FiguresInv
<1>10. ASSUME NEW a \in Analyses, AnalysisFailed(a) PROVE FiguresInv'
  <2>1. /\ pc' = [pc EXCEPT ![a] = "done"] /\ bpp' = [bpp EXCEPT ![a] = None]
        /\ UNCHANGED <<currentBpp, currentTelemetryData, asked>>
    BY <1>10 DEF AnalysisFailed
  <2>2. QED
    BY <1>1, <2>1, KeptFigures
<1>11. ASSUME NEW a \in Analyses, Advised(a) PROVE FiguresInv'
  <2>1. /\ pc' = [pc EXCEPT ![a] = "done"]
        /\ UNCHANGED <<bpp, currentBpp, currentTelemetryData, asked>>
    BY <1>11 DEF Advised
  <2>2. QED
    BY <1>1, <2>1, KeptFigures
<1>12. ASSUME NEW p \in pictures, Pictured(p) PROVE FiguresInv'
  BY <1>1, <1>2, <1>12 DEF Pictured, inputVars, analysisVars
<1>13. ASSUME NEW lang \in Languages, SetLanguage(lang) PROVE FiguresInv'
  BY <1>1, <1>2, <1>13 DEF SetLanguage, inputVars, analysisVars
<1>14. QED
  BY <1>3, <1>4, <1>5, <1>6, <1>7, <1>8, <1>9, <1>10, <1>11, <1>12, <1>13 DEF Next

\* The figures of a report agree with each other and with the bitrate its analysis
\* was started with, up to the rounding of the entries: for every unit, every stage, every bitrate below that of a
\* raw texture, and any number of analyses that answer in any order.
THEOREM FiguresCorrect == Spec => []FiguresTrue
<1>1. Init => FiguresInv
  <2> SUFFICES ASSUME Init PROVE FiguresInv
    OBVIOUS
  <2>1. /\ currentBpp \in Bitrates /\ pc = [a \in Analyses |-> "idle"]
        /\ bpp = [a \in Analyses |-> None] /\ currentTelemetryData = NoTelemetry
    BY DEF Init
  <2>2. Measured(NoTelemetry.ntc_compressed_files, asked)
    BY NothingMeasured DEF NoTelemetry
  <2>3. QED
    BY <2>1, <2>2 DEF FiguresInv
<1>2. FiguresInv /\ ReportCurrent => FiguresTrue
  <2> SUFFICES ASSUME FiguresInv, ReportCurrent, output.kind = "report" PROVE FiguresTrue
    BY DEF FiguresTrue
  <2>1. output.of = currentTelemetryData
    BY DEF ReportCurrent
  <2>2. FiguresAgree(output.of.ntc_compressed_files, asked)
    BY <2>1, MeasuredFigures DEF FiguresInv
  <2>3. QED
    BY <2>2 DEF FiguresTrue, FiguresAgree
<1>3. QED
  BY <1>1, <1>2, FiguresStep, ReportAlwaysCurrent, PTL DEF Spec
=============================================================================
