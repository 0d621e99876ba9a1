-------------------------- MODULE SketchfabDownload --------------------------
(***************************************************************************)
(* The import from Sketchfab: App.DownloadFromSketchfab of                 *)
(* nequ3d-app/app.go with the "sketchfab-btn" handler,                     *)
(* friendlySketchfabError and the messages of nequ3d-app/frontend/src.     *)
(*                                                                         *)
(* A model becomes two files below data/downloads: the GLB that is shown   *)
(* and, under the same name, the USDZ that App.ProcessModel sends in its   *)
(* place.  They come one after the other, replace those of an earlier      *)
(* download, and each of the steps can fail; a copy that is cut is not     *)
(* noticed.                                                                *)
(***************************************************************************)
EXTENDS Integers, FiniteSets

CONSTANTS
    Models,         \* uids of models
    MaxAttempts,    \* bound: clicks that start a download
    None            \* no model, no selection

ASSUME BoundAssumption == MaxAttempts \in Nat
ASSUME NoneAssumption == None \notin Models

VARIABLES
    pc,             \* where DownloadFromSketchfab is
    attempt,        \* clicks that started a download
    uid,            \* the model it is for
    outcome,        \* what it returns: "path" or the code of an error
    files,          \* files[u][e]: the download the file is of (0: none), and how much of it
    registered,     \* files of the preview registry
    button,         \* "sketchfab-btn" is enabled
    status,         \* "sketchfab-status"
    selected,       \* the asset of the window, if it is one of these files
    doubtful        \* history: models whose last download failed or is under way

vars == <<pc, attempt, uid, outcome, files, registered, button, status, selected, doubtful>>

Codes == {"SKETCHFAB_NETWORK", "SKETCHFAB_REQUEST", "SKETCHFAB_INVALID_TOKEN",
          "SKETCHFAB_FORBIDDEN", "SKETCHFAB_NOT_FOUND", "SKETCHFAB_RATE_LIMIT",
          "SKETCHFAB_SERVER", "SKETCHFAB_PARSE", "SKETCHFAB_NO_USDZ",
          "SKETCHFAB_NO_GLB", "SKETCHFAB_DOWNLOAD"}

\* The keys of the messages for errors, in either language.
I18nKeys == {"sketchfabError", "sketchfabNetwork", "sketchfabRequest",
             "sketchfabInvalidToken", "sketchfabForbidden", "sketchfabNotFound",
             "sketchfabRateLimit", "sketchfabServer", "sketchfabParse",
             "sketchfabNoUsdz", "sketchfabNoGlb", "sketchfabDownload"}

NoFile == [of |-> 0, size |-> "none"]
Sizes == {"none", "empty", "cut", "whole"}
Paths == Models \X {"usdz", "glb"}
Message(kind) == [kind |-> kind, text |-> "localized"]

Init ==
    /\ pc = "idle" /\ attempt = 0 /\ uid = None /\ outcome = "path"
    /\ files = [u \in Models |-> [e \in {"usdz", "glb"} |-> NoFile]]
    /\ registered = {} /\ selected = None
    /\ button = TRUE /\ status = Message("blank") /\ doubtful = {}

----------------------------------------------------------------------------
(***************************************************************************)
(* The window.                                                             *)
(***************************************************************************)
\* The address or the token is missing.
ClickEmpty ==
    /\ button
    /\ status' = Message("missing")
    /\ UNCHANGED <<pc, attempt, uid, outcome, files, registered, button, selected, doubtful>>

Click(u) ==
    /\ button /\ attempt < MaxAttempts
    /\ button' = FALSE /\ status' = Message("connecting")
    /\ pc' = "asking" /\ attempt' = attempt + 1 /\ uid' = u
    /\ doubtful' = doubtful \cup {u}
    /\ UNCHANGED <<outcome, files, registered, selected>>

\* The file dialog: it registers the file, and the window selects it.
SelectFile(path) ==
    /\ files[path[1]][path[2]] # NoFile
    /\ registered' = registered \cup {path}
    /\ selected' = path
    /\ UNCHANGED <<pc, attempt, uid, outcome, files, button, status, doubtful>>

\* The file dialog with an asset from elsewhere.
SelectOther ==
    /\ selected' = None
    /\ UNCHANGED <<pc, attempt, uid, outcome, files, registered, button, status, doubtful>>

\* The code of the error is the key of the message; without a message the text of
\* the error is shown as it is.
FriendlySketchfabError(code) ==
    [kind |-> "error", text |-> IF code \in I18nKeys THEN "localized" ELSE "raw"]

\* finally.
EnableButton == button' = TRUE

\* The promise is settled; the file is selected whatever was selected meanwhile.
Settle ==
    /\ pc = "returned" /\ pc' = "idle"
    /\ \/ /\ outcome = "path"
          /\ status' = Message("success") /\ selected' = <<uid, "glb">>
       \/ /\ outcome # "path"
          /\ status' = FriendlySketchfabError(outcome) /\ UNCHANGED selected
    /\ EnableButton
    /\ UNCHANGED <<attempt, uid, outcome, files, registered, doubtful>>

----------------------------------------------------------------------------
(***************************************************************************)
(* DownloadFromSketchfab.                                                  *)
(***************************************************************************)
\* Faulty variant of StatusToSketchfabCode: there is no default.
StatusWithoutDefault(http) ==
    CASE http = 401 -> "SKETCHFAB_INVALID_TOKEN"
      [] http = 403 -> "SKETCHFAB_FORBIDDEN"
      [] http = 404 -> "SKETCHFAB_NOT_FOUND"
      [] http = 429 -> "SKETCHFAB_RATE_LIMIT"
      [] http \in {500, 502, 503, 504} -> "SKETCHFAB_SERVER"
      [] OTHER -> ""

StatusToSketchfabCode(http) ==
    CASE http = 401 -> "SKETCHFAB_INVALID_TOKEN"
      [] http = 403 -> "SKETCHFAB_FORBIDDEN"
      [] http = 404 -> "SKETCHFAB_NOT_FOUND"
      [] http = 429 -> "SKETCHFAB_RATE_LIMIT"
      [] http \in {500, 502, 503, 504} -> "SKETCHFAB_SERVER"
      [] OTHER -> "SKETCHFAB_REQUEST"

Statuses == {400, 401, 403, 404, 429, 500, 501}     \* other than 200

Fail(code) ==
    /\ pc' = "returned" /\ outcome' = code
    /\ UNCHANGED <<files, registered>>

\* Faulty variant of First: the GLB comes first.
FirstGlb == "glb"

\* The USDZ, then the GLB.
First == "usdz"
Second == IF First = "usdz" THEN "glb" ELSE "usdz"

\* The request for the addresses of the files.
AskAddresses ==
    /\ pc = "asking"
    /\ \/ \E http \in Statuses : Fail(StatusToSketchfabCode(http))
       \/ \E code \in {"SKETCHFAB_REQUEST", "SKETCHFAB_NETWORK", "SKETCHFAB_PARSE",
                       "SKETCHFAB_NO_USDZ", "SKETCHFAB_NO_GLB"} : Fail(code)
       \/ pc' = "opening1" /\ UNCHANGED <<outcome, files, registered>>
    /\ UNCHANGED <<attempt, uid, button, status, selected, doubtful>>

\* Faulty variant of FileName: all downloads have one name.
OneName(u) == CHOOSE v \in Models : TRUE

\* The files of a model have its uid as their name.
FileName(u) == u

\* Faulty variant of Create: a file that is there is not downloaded again.
CreateIfMissing(format) ==
    IF files[FileName(uid)][format] = NoFile
    THEN files' = [files EXCEPT ![FileName(uid)][format] = [of |-> attempt, size |-> "empty"]]
    ELSE UNCHANGED files

\* os.Create empties the file if there is one.
Create(format) ==
    files' = [files EXCEPT ![FileName(uid)][format] = [of |-> attempt, size |-> "empty"]]

Open(step, format, next) ==
    /\ pc = step
    /\ \/ Fail("SKETCHFAB_DOWNLOAD")
       \/ /\ pc' = next /\ Create(format)
          /\ UNCHANGED <<outcome, registered>>
    /\ UNCHANGED <<attempt, uid, button, status, selected, doubtful>>

OpenFirst == Open("opening1", First, "copying1")
OpenSecond == Open("opening2", Second, "copying2")

\* io.Copy: whole or cut, its error is not looked at.
Copy(format) ==
    \E size \in {"cut", "whole"} :
        files' = [files EXCEPT ![FileName(uid)][format] = [of |-> @.of, size |-> size]]

CopyFirst ==
    /\ pc = "copying1" /\ pc' = "opening2"
    /\ Copy(First)
    /\ UNCHANGED <<attempt, uid, outcome, registered, button, status, selected, doubtful>>

Register == registered' = registered \cup {<<FileName(uid), "glb">>}

CopySecond ==
    /\ pc = "copying2" /\ pc' = "returned" /\ outcome' = "path"
    /\ Copy(Second)
    /\ Register /\ doubtful' = doubtful \ {uid}
    /\ UNCHANGED <<attempt, uid, button, status, selected>>

----------------------------------------------------------------------------
Download == AskAddresses \/ OpenFirst \/ CopyFirst \/ OpenSecond \/ CopySecond

Next ==
    \/ ClickEmpty \/ SelectOther
    \/ \E u \in Models : Click(u)
    \/ \E path \in Paths : SelectFile(path)
    \/ Download \/ Settle

Spec == Init /\ [][Next]_vars

----------------------------------------------------------------------------
(***************************************************************************)
(* Properties.                                                             *)
(***************************************************************************)
\* Every variable has its type; every error has one of the codes.
TypeOK ==
    /\ pc \in {"idle", "asking", "opening1", "copying1", "opening2", "copying2", "returned"}
    /\ attempt \in 0..MaxAttempts /\ uid \in Models \cup {None}
    /\ outcome \in Codes \cup {"path"}
    /\ files \in [Models -> [{"usdz", "glb"} -> [of : 0..MaxAttempts, size : Sizes]]]
    /\ doubtful \subseteq Models /\ registered \subseteq Paths /\ selected \in Paths \cup {None}
    /\ button \in BOOLEAN
    /\ status \in [kind : {"blank", "missing", "connecting", "success", "error"},
                   text : {"localized", "raw"}]

\* The mesh that is shown and the stage that is processed are of one download,
\* unless the last attempt at that model failed or is under way: a success repairs
\* what earlier attempts left, and no download disturbs another model's files.
PairOfOneDownload ==
    \A u \in Models \ doubtful : files[u]["usdz"].of = files[u]["glb"].of

\* Whenever a mesh of a download is selected, by the window or by the user, the
\* preview server may serve it, and beside it is the stage that ProcessModel will
\* send in its place, from the same download or a later one: at no point of a
\* repeated or failed download is a mesh newer than its stage, or alone.
SelectionHasStage ==
    selected # None /\ selected[2] = "glb" =>
        /\ selected \in registered
        /\ files[selected[1]]["usdz"].of >= files[selected[1]]["glb"].of
        /\ files[selected[1]]["glb"].of > 0

\* "Maps the backend's machine-readable Sketchfab error code to a localized,
\* user-friendly message."
ErrorsLocalized == status.kind = "error" => status.text = "localized"
=============================================================================
