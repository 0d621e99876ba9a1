# Nequ3D: specifications, model checking and proofs

Nequ3D analyses 3D scenes: a desktop application sends a scene to a "Core" service that
runs in a container with a GPU, and shows the proxy mesh, the compressed textures and the
telemetry that come back. This directory holds TLA+ specifications of the parts of it that
run concurrently, the TLC configurations that check them on small instances, and proofs
checked by TLAPS: of every safety property the passing runs check, for all values of the constants,
and that two of the components implement the contract between them. Paths below are relative to
the repository's root.

    cd tla
    tlc -config CoreSafety.cfg MCCoreService.tla     # a run: its .cfg and its MC module
    tlapm CoreServiceProofs.tla                      # the proofs of a module

`PROJECT.json` is the index: which lines of code each definition models (`map`), what every
run checks, which mutation of the model each property detects (`mutants`), the hazards and
the theorems.

## 1. The system

```
 run-all.ps1 ──starts──> kubectl port-forward ──> MinIO (raw-scans, processed-models)
      │                                            ▲            ▲
      ├──docker run──> Core: rpc_server.py ────────┘            │
      │                  │ Popen                                │
      │                  └─> process_usd_file.py                │
      │                        (one child per job)              │
      └──wails3 dev──> desktop: app.go ── gRPC ProcessModel ──> Core
                          │  └──────────────────────────────────┘ upload, download
                          ├── preview.go: HTTP server of registered files
                          └── main.ts: the window (analyses, viewers, advice)
```

| Component | State it keeps | Operations | Talks to |
|---|---|---|---|
| Core service, `nequ3d-core/rpc_server.py` | two gauges; per call: its position in the generator, job directory, last report, child process; the workspace; the bucket `processed-models` | `ProcessModel` (server stream), `LocateObjects` (unary), on a pool of 10 threads | MinIO; the child through a pipe; the client through yields |
| Stage analysis, `nequ3d-core/process_usd_file.py` | files of its job directory, an entry for every texture | unpack, pick textures, proxy mesh, compression, summary, report line | its parent (stdout, exit code) |
| Pipeline client, `App.ProcessModel` in `nequ3d-app/app.go` | per call: path, object key, telemetry, temporary file | route by extension, create buckets, upload, receive loop, download of the proxy | MinIO, Core, preview registry |
| Preview server, `nequ3d-app/preview.go` | the set of registered paths | register, registerTelemetry, serve | called by the client, asked by the window |
| Window: analyses and viewers, `nequ3d-app/frontend/src/main.ts` | selected asset, telemetry kept, active tab, timer, sources and listeners of three viewers | select, analyze, switch tab, events | backend through awaits and global events |
| Window: texts, `i18n.ts` and `main.ts` | language, the texts on the screen, the report and its chart, what the advice is told | translate, render, label | the rest of the window; local storage |
| Window: layout, `main.ts` | widths of the panels, drags under way, the divider, theme, text scale | drag, resize, compare, toggle | local storage, view transitions |
| Advice, `App.GenerateRenovationAdvice` and `runAdvice` | the text streamed so far, event handlers | stream tokens, show, translate | local Ollama; global events |
| Sketchfab download, `App.DownloadFromSketchfab` | two files below data/downloads | fetch URLs, download USDZ and GLB | Sketchfab, preview registry |
| Launcher, `scripts/run-all.ps1` | `$coreStarted`, `$minioProc`, the environment | checks, start-up, take-down | Docker, kubectl, wails3 |
| Worker draft `pkg/ntc/worker.go`, `orchestrator.go`, `nats_server.go` | | | nothing calls them |
| Deployment (Helm, GitOps, CI), generated stubs and bindings | | | |

**What is hard here.**
- *Core.* Handlers run on threads and interleave at every statement. gRPC closes a generator
  whose client is gone at its next yield, with the child left running and its pipe open but unread. The child can print
  a report and then die, end without a report, or block on a full pipe. Two jobs may carry
  the same file name. The container is stopped while jobs run.
- *Client.* Several calls wait for MinIO and for their streams at once. The deadline or a
  lost connection can cut a stream after its result has been received. Each of upload,
  temporary file and download can fail, and some failures are only warnings.
- *Window.* Selecting an asset enables the button while an analysis is under way, so
  analyses overlap and every continuation after an `await` runs against globals and viewers
  that belong to somebody else. Load listeners and textures outlive the analysis that
  asked for them. The address of the preview server arrives late.
- *Texts.* Nothing is translated when it is drawn: a text is in the language of the moment it was
  written, and a change of the language has to find every one of them, also those that were
  written by hand, saved and put back, or replaced together with a canvas that held a chart.
  Window and Core decide by different rules whether there is a texture to compare, and the figures they
  sum were rounded one by one.
- *Layout.* A drag is a closure over widths measured when it began, its listeners hear every pointer
  of the window, and nothing listens to `pointercancel`. A captured pointer keeps moving a divider
  that is hidden meanwhile. A theme is computed at the click and applied by a later transition.
- *Launcher.* Ctrl+C may come between starting a process and recording it; a second launcher may
  be between its checks and its start.

**What makes each correct.** Core: a result is about the model that was asked for, it is the
last message and the only answer, it needs a clean exit of the child; nothing of one job
replaces an artifact of another; the gauges tell the truth; threads do not get
stuck, nor do children whose output is read. Client: what is returned is about the asset given and complete; what the window is
told to load is registered; every invocation returns. Window: what is
on a viewer, in the kept telemetry and in the tabs belongs together; the button comes back; report,
chart, labels and advice agree with each other, with the Core and with the language; the layout keeps its
minima, and preferences survive a restart.
Launcher: it takes down exactly what it started, and it does not hang.

## 2. Modules

| Module | Models | Status |
|---|---|---|
| `CallContract` | abstract: what a service promises the client of a call | done |
| `CoreService` | `rpc_server.py` with its children, pipes, workspace, bucket | done |
| `CoreServiceProofs` | theorems about `CoreService` | done |
| `EdgePipeline` | `App.ProcessModel`, MinIO, the preview registry, over `CallContract` | done |
| `EdgeProofs` | theorems about `EdgePipeline` | done |
| `Launcher` | `run-all.ps1`, Docker, kubectl, two sessions | done |
| `LauncherProofs` | theorems about `Launcher` | done |
| `Dashboard` | selection, analyses and viewers of `main.ts` | done |
| `DashboardProofs` | theorems about `Dashboard` | done |
| `AdvicePanel` | `GenerateRenovationAdvice`, `runAdvice`, `llmToken`/`llmDone`, the typewriter, the change of language | done |
| `AdviceProofs` | theorems about `AdvicePanel` | done |
| `SketchfabDownload` | two requests, two files, the button, codes and their localisation | done |
| `SketchfabProofs` | theorems about `SketchfabDownload` | done |
| `NtcReport` | the entries of the textures and their summary in `process_usd_file.py`, what `main.ts` reads off them: pure operators | done |
| `ReportPanel` | over `NtcReport`: the report, its chart, every label, the change of language, the payload of the advice | done |
| `ReportProofs` | theorems about `ReportPanel` and `NtcReport` | done |
| `WindowLayout` | panels, divider, tabs, theme, text scale | done |
| `WindowLayoutProofs` | theorems about `WindowLayout` | done |

The modules were written in the order of the table. What else was considered is in section 5 with the
reason why it is left out.

Each `MC*` module extends a specification with the sets of values the `.cfg` files name.

**Composition.** `CallContract` sits between the two sides of the gRPC call. `CoreService`
*implements* it (`KeepsContract`, `FulfilsContract`: refinement mapping `CallStatus`,
`CallAnswer`). `EdgePipeline` *uses* it as its environment: the Core's moves there are the
contract's own actions (`Core!Accept`, `Core!Reply`, `Core!Close`, `Core!Break`), with the
storage traffic added, so what is shown of the client holds against every Core that keeps the
contract and not only against one implementation. Seen from the window, `EdgePipeline` again
implements `CallContract`, with no broken calls at all (`EveryInvocationAnswered`), which is
what `Dashboard` assumes of its backend. `NtcReport` has both ends of the telemetry about textures,
which share nothing but the JSON between them; `ReportPanel` is built on it, so that its analyses
answer with what the Core would say of a stage.

### CoreService
`pc[c]` is the control point of a handler; the points are the places where another thread,
a child, the client or the container can be noticed:

| Action | Code |
|---|---|
| `Call`, `Dequeue`, `Abandon`, `Resume` | gRPC's pool and cancellation as `serve` and the generators use them |
| `Enter`, `Leave` | `ACTIVE_GRPC_REQUESTS.inc()`, and `dec()` in `finally` |
| `Greet`, `Relay`, `SendAnswer` | the yields (`Yield`: sent and suspended, or closed) |
| `Prepare`, `Fetch`, `Spawn`, `ReadLine`, `Reap`, `Upload`, `Count` | the body of `ProcessModel`, each with the exceptions it can raise |
| `Post`, `Respond` | `LocateObjects` |
| `ChildPrint`, `ChildReport`, `ChildExit`, `ChildDie` | `process_usd_file.py` as its parent sees it |
| `Restart` | the container stopped and started |

A model is a value: a result *is about* a model, a file *holds* one, a proxy *was made from*
one. That is all the properties need of the data. `mkdtemp` and `uuid4` return values nobody has; the
mutants `SharedDir` and the key variant show that this is what the properties rest on.

A pipe belongs to its child alone and is never closed at the reading end: `rpc_server.py` does not
close `process.stdout`, and the interpreter keeps a `Popen` that is still running in
`subprocess._active` when the generator that held it is gone. An abandoned child therefore gets no signal; it ends
if what it still prints fits the pipe and waits in `print` otherwise (`ChildrenEndOrFill`).

### EdgePipeline
`Invoke`, `Route`, `Connect`, `Put`, `OpenStream`, `RecvInfo`, `RecvFailure`, `RecvResult`,
`Fetch` and `RecvEnd` are the stretches of `App.ProcessModel` between two waits. `wire[c]` is the stream.
`Deadline` and `LoseCore` replace any suffix of it by an error. A call to MinIO that fails may
have taken effect. Assets are `[stem, ext]` with `ext` as the user spelled it, because the code
compares it sometimes as it is and sometimes in lower case.

### Launcher
One action per statement of the `try` block, two for the lines whose effect and record are
separate (`Forward`/`Keep`, `RunCore`/`Mark`), `Interrupt` at any of them, the `finally`
block as `StopCore`/`StopForward`. `Bind` and `Crash` are Docker's and kubectl's doing.

### Dashboard
JavaScript gives way only at an `await`, so an action is the code between two of them:
`Analyze` up to the await of `ProcessModel`, `Processed` up to that of `runAdvice`, `Finish`
the `catch`/`finally`. `Load` is a viewer's load event with all the one-time listeners that are
registered, `Texture` the continuation after `createTexture`. The viewers are a library: a
viewer keeps its model until another source has loaded, and loads a source only if it differs.

A mesh is answered at once, with itself as its proxy and no textures (`Bypassed`), unless a USDZ of the same name
lies beside it (`Paired`, as after every Sketchfab download): then the Core gets the USDZ, and the answer is
that of a stage, with any textures and a temporary proxy or none. What is shown without a proxy depends on what is
selected when the answer comes (`MeshPath`): the selected mesh, or the file beside the stage. Analyses answered in this
way share the file's URL, which is why `TextureOfMesh` speaks of the URL of an answer and of the one owner of a
*proxy*: a second answer with the same URL loads nothing and keeps the first one's textures.

### AdvicePanel
`RunAdvice` is the code of `runAdvice` up to its first await (with llava there is one for the picture,
`Captured` is what follows it), `Ask` the payload, the handlers and the call, `Settle` what follows
the await of the answer, with `Show`, `ShowError` and the `finally` in it. `Deliver` is the window's event
bus: an event reaches *every* handler that is bound, whichever call it was emitted for.
`Scan` is one line of the model's stream, `Return` the end of it. A character is a pair of the call it belongs to and its
place in the answer; place 0 stands for everything the backend trims. A token is two characters, of which the
second may be garbage, so that cutting the front of a token matters. `Received` is what the handler takes
from an event: `event.data[0]` of a bare string, its first character. The result of a call is not
ordered with its events and may overtake them. Three variables are history: which call settled last,
whether calls overlapped, whether the panel was written to while a typewriter was at work. HTML,
Markdown and the cut before "- Object:" are left out.

### SketchfabDownload
`Click`, `Settle` are the button's handler before and after its await, the steps of `Download` the stretches
of `DownloadFromSketchfab` between two waits for the network. A file is the download it comes
from; `Copy` may cut it without anybody noticing, as the result of `io.Copy` is ignored. The user may
select downloaded files at any time, also halfway through the next download.

### NtcReport
Pure operators, in the order of the data: `Asset` is one turn of the loop in `run_ntc_compression`,
`has_valid_ntc_quality` and `texture_processing_status` the summary of `summarize_ntc_state`,
`OffersComparison` is `findQualityAsset` with the condition of `hydrateQualityViewer`, `Average`, `Saved`
and `Segments` are the figures of the report and of the chart. A texture has one of three outcomes and a size.
`Rounded` is Python's `round`, which `Compressed` applies to every figure of an entry: sizes to hundredths of a
megabyte, the reduction to tenths of a percent. The window sums and averages what was rounded.
`Grain` is the number of units of size in a hundredth of a megabyte, and stands for the resolution of the model: a
compressed file of `B` bytes at `bpp` bits per pixel is a texture of size `25 * B * L / bpp` in the units of
`Grain = 262144 * L`, where `L` is a common multiple of the bitrates. Every report is therefore one of an instance with
that `Grain`, and the theorems hold for all of them. Halves are rounded to even here; on floating-point
numbers they may go either way, and the proofs use only that the result is nearest and that the order is kept.
What the window rounds once more for display is left out.

### ReportPanel
A text is its key and its language; `label[e]` is the text of an element now. "static" stands
for the many elements that only `updateDOM` writes, "rotation" for the titles of the rotation buttons, which nothing
translates; those and the text for an unsupported file are `Fixed`: they have a language, but no key in the table. `Relabel` is "set the attribute, then translate",
`UpdateDOM` with `Keyed` and `DataKey` what the change of the language writes, and what it does not. `Analyze`, `Processed`,
`AnalysisFailed`, `Advised` are `runAnalysis` between its awaits, `Render` is the report *and* its chart on the new canvas,
`Advise`/`Pictured` are `runAdvice` up to its payload, with or without the picture for llava, and
`SetLanguage` the whole of `setLanguage`. `Restart` closes the window and opens it again with what was saved.
History: the bitrate the telemetry was asked for, a change of the language during a download, a payload that
another answer crossed.

### WindowLayout
`Down`, `Move`, `Up` are the listeners of a gutter: a drag is the record of what was measured at
`pointerdown`, and a move runs the `onMove` of *every* drag that is registered; a drag that nobody ends is
what a `pointercancel` leaves. `DividerMove` includes a comparison that is hidden, whose rectangle is all
zeros (`NaN` for 0/0). `Hydrate` and `NoComparison` are what the answers of analyses do to the tabs, `Toggle` and
`Transition` the click on the theme and the update that its view transition runs later, in the order of the clicks.
Positions are small whole numbers; a gutter is pressed where it is drawn.

## 3. Runs

"States" are distinct states. All passing runs are exhaustive within the named bounds.

| Run | Instance | Checks | States |
|---|---|---|---|
| `CoreSafety` | 2 jobs, same file name, 2 models, 2 directories, 2 keys, 2 threads | types; results are of their request; a clean exit is needed; the counter; artifacts are kept | 325k |
| `CorePool` | 1 job and 1 `LocateObjects` on 1 thread, a bad name, 3 lines through a pipe of 1, 1 restart | answer last, answered, gauge; `CallContract` with its fairness; a child ends, unless its handler left it and its pipe is full | 29k |
| `EdgeInterleaving` | 2 calls on 2 stages | outcome, preview, completeness | 626k |
| `EdgeRouting` | 1 call over 6 kinds of input, 2 waiting progress messages, a Core that owes nothing | twin; every invocation answered | 2.3k |
| `EdgeUpperCase` | `scene.GLB` beside `scene.usdz` | violated, see section 6 | |
| `LauncherSessions` | 2 launchers, interrupted anywhere, 1 death | own Core only unless it died, the window has its own Core, clean end once marked; start-up decided | 67k |
| `Dashboard` | a mesh with a USDZ beside it, a stage, 2 analyses, 1 comparison viewer | textures, the mesh shown and the kept telemetry, the address; the button comes back | 1.17M |
| `Advice` | 2 calls, 2 tokens each | handlers only in flight, one whole answer, its language, the stream; the spinner ends | 1.35M |
| `Sketchfab` | 2 models, 3 downloads | types; mesh and stage of one download, a mesh has its stage | 137k |
| `SketchfabLocalized` | 1 download | violated, see section 6 | |
| `Report` | 2 analyses, 5 kinds of stage with up to 3 textures, 2 bitrates | report, chart, labels and advice agree; window and Core agree on the comparison; reason and figures | 1.03M |
| `Window` | 2 drags, 2 transitions, 2 widths, 3 pointer positions | divider, centre of the window, preferences | 1.25M |

`CoreService` and `SketchfabDownload` have a type invariant that a run lists and a theorem proves. The other
runs list none: their properties say which values belong together, and the inductive invariants of the proofs
carry the types they need.

**Why the bounds are enough.**
- Mix-ups between jobs need two of them, in the same directory, under the same key or file
  name: two jobs, two values of each. A third job would repeat what the second does, as no
  rule of the code looks at more than one other job.
- `PipeSize = 1` with three lines makes a child block and be woken; `MaxWorkers = 1` with two
  calls makes one wait for the other. One restart is enough to cut a call at any of its points;
  after it no call is open.
- `WireSize` bounds progress messages waiting in a stream, which the client ignores; 0 keeps
  the interleaving run small, 2 is used where there is one call.
- The two comparison viewers get the same source and one listener each and never look at each
  other; the run has one of them. Its mesh has a USDZ beside it, so that its answers are those of a stage and its file is that
  of a mesh: every way of sharing a URL occurs. A mesh without one is answered with its own file and no texture, which a
  paired mesh can be too; it would triple the states, and only the theorems include it. Analyses are numbered in the
  order they are started.
- `MaxCrashes = 1`: the container or the port-forward of one of two launchers dies. More deaths
  repeat what one shows, because no statement looks at both.
- `MaxCalls = 2`: calls of advice meet in pairs, as the panel and the handlers hold no count. With
  `MaxTokens = 2` a token can be held back as garbage and another follow, or be cut from a whole answer.
- `Grain = 5` with bitrates 5 and 8 makes every figure of an entry one that is rounded, up in some and down in others; sums of
  rounded entries differ from rounded sums.
- `Report`: a report, a label or a payload goes wrong when *another* analysis, selection or change of language
  comes between two of its steps; two analyses make every such pair. The stages are one of each cause a summary
  distinguishes: no texture, all missing, a mixture without a success, a mixture with one, and successes of
  different sizes (an average of one size would hide a wrong divisor).
- `Window`: the narrow window (5) has no room for both minima and the default panels, the wide one (7)
  has; pointers are outside, at the edge and inside. Two drags may be of one gutter or of both.
- `MaxAttempts = 3`: a model is downloaded, again in vain, and again, or another one in between.

**Deadlock** is checked in `Core*`, `Edge*` and `Launcher*` (the quiet end is an explicit
stuttering step) and in `Sketchfab`. `Dashboard`, `Advice`, `Report` and `Window` say `CHECK_DEADLOCK FALSE`: a
window with nothing to do waits.

**Fairness.**
- `CoreService`: weak fairness of each handler (threads of the pool are scheduled; MinIO's
  client and `requests.post` have timeouts or fail) and of each child's script when it can
  print. Clients need not call or give up, nothing needs to die or restart. A script that hangs
  without printing would hold its thread for ever: this is an assumption, not a result.
- `EdgePipeline`: the goroutine runs, MinIO answers or fails, and the deadline of 15 minutes
  expires. The Core owes *nothing*: it may stay silent for ever. `FPutObject` and `FGetObject` have
  no deadline of their own, so "MinIO answers or fails" is an assumption.
- `Launcher`: statements end; each wait has a timeout of 60 seconds. The window need not be closed,
  nobody need press Ctrl+C.
- `Dashboard`: each analysis finishes, that is, the backend answers: shown for `ProcessModel` in
  `EdgeRouting`; `GenerateRenovationAdvice` has a client timeout of 15 minutes.
- `AdvicePanel`: the picture is taken or not (`Captured`), the client times out (`Return`), the
  promise is settled (`Settle`). Neither tokens nor events need come.
- `Sketchfab`, `Report`, `Window`, `CoreSafety`, `EdgeInterleaving`: safety only, no fairness.

## 4. Proofs

All theorems hold for every value of the constants that the named assumptions of the modules admit. For
`CoreService`: calls of the two kinds are finite sets and disjoint, `None` is none of the
values, the bounds are numbers. For `EdgePipeline`: the stems of the inputs are scenes, `None` is none of
the values, files and records (those of downloads, telemetry and outcomes), the bound of a stream is a
number. For `Launcher`: `None` is no launcher, the bound of crashes is a number. For `Dashboard`: meshes and stages
are disjoint, the paired meshes are meshes, `None` is neither an asset nor an analysis, the bound of analyses is a number. For `AdvicePanel`: the bounds
are numbers. For `SketchfabDownload`: `None` is no model. For `ReportPanel`: stages are sequences
of textures, bitrates are positive and below the 32 bits of a raw pixel, `Grain` is a positive number. For `WindowLayout`: minima, gap and widths are
natural numbers, the comparison has a width.

| Theorem | States |
|---|---|
| `CoreServiceProofs!TypeCorrect`, `!GaugeCorrect` | `Spec => []TypeOK`, `Spec => []GaugeCountsHandlers` |
| `CoreServiceProofs!ArtifactsCorrect` | `Spec => ArtifactsKept` (an action property) |
| `CoreServiceProofs!ResultsCorrect` | `Spec => []ResultIsOfRequest` |
| `CoreServiceProofs!AnswersCorrect`, `!AllAnswered` | `Spec => []AnswerIsLast`, `Spec => []EveryCallAnswered` |
| `CoreServiceProofs!ServiceKeepsContract` | `Spec => KeepsContract`: the service implements the safety part of `CallContract` (`CorePool` checks it together with fairness) |
| `CoreServiceProofs!CleanExitsCorrect`, `!CounterCorrect` | `Spec => []ResultNeedsCleanExit`, `Spec => []ProcessedCountsResults` |
| `EdgeProofs!EdgeInvariance` | `Spec => []EdgeInv`, the invariant the other five rest on |
| `EdgeProofs!OutcomesCorrect`, `!PreviewsCorrect` | `Spec => []OutcomeOfRequest`, `Spec => []PreviewRegistered` |
| `EdgeProofs!SuccessesComplete` | `Spec => []SuccessIsComplete` |
| `EdgeProofs!TwinsCorrect` | `Spec => [](LowerCase => TwinProcessed)`: with the condition on spelling whose absence `EdgeUpperCase` refutes |
| `EdgeProofs!InvocationsAnsweredOnce` | `Spec => Dashboard!Contract`: `App.ProcessModel` implements the safety part of `CallContract` without broken calls (`EdgeRouting` checks it together with fairness) |
| `LauncherProofs!SessionsEndClean`, `!StopsOwnCore`, `!OwnCoreCorrect` | `Spec => []SessionEndsCleanOnceMarked`, `Spec => []StopsOwnCoreUnlessItDied`, `Spec => []AppHasOwnCore` |
| `DashboardProofs!TexturesCorrect`, `!ShownMeshesCorrect`, `!PreviewsReachable` | `Spec => []TextureOfMesh`, `Spec => []ShownMeshIsReported`, `Spec => []PreviewReachable` |
| `AdviceProofs!HandlersCorrect`, `!AnswersWhole` | `Spec => []HandlersInFlight`, `Spec => []SettledAnswerComplete` |
| `AdviceProofs!LanguageCorrect`, `!StreamsCorrect` | `Spec => []AdviceInLanguage`, `Spec => []StreamSamplesAnswer` |
| `SketchfabProofs!DownloadTypes` | `Spec => []TypeOK` of `SketchfabDownload` |
| `SketchfabProofs!PairsCorrect`, `!SelectionsCorrect` | `Spec => []PairOfOneDownload`, `Spec => []SelectionHasStage` |
| `ReportProofs!QualityCorrect`, `!ReasonCorrect` | `Spec => []QualityAgrees`, `Spec => []BypassExplained` |
| `ReportProofs!ReportAlwaysCurrent`, `!LabelsCorrect`, `!ClaimsCorrect` | `Spec => []ReportCurrent`, `Spec => []LabelsTranslated`, `Spec => []AdviceClaims` |
| `ReportProofs!FiguresCorrect` | `Spec => []FiguresTrue` |
| `WindowLayoutProofs!CentreCorrect` | `Spec => CentreKept` (an action property) |
| `WindowLayoutProofs!SplitCorrect`, `!PreferencesCorrect` | `Spec => []SplitShown`, `Spec => PreferencesSurvive` (an action property) |

*The argument.* None of these is inductive alone. `ControlInv` adds to the types where a
handler is: which points belong to which kind of call, that only queued calls are in the queue
and once, that a handler past `Prepare` has a directory, past `Fetch` a file, that one about to answer has
an answer. The gauge then is the cardinality of a set that each step changes by one element.
`ArtifactInv` adds *ownership*: no two jobs have the same directory (`FreshDir` at
`mkdtemp`), hence no two have the same path, hence what is at a job's path is its model or
nothing; then every report a child can print, every report in a pipe or remembered, and every reply that is
prepared or sent is faithful to the request. `ArtifactsKept` follows
because the only steps that write write at a path that is owned and still empty, or at a fresh key.
`StreamInv` relates the control point to the stream: before the answer point there is no answer
in it, after it there is exactly one, at the end. Refinement then is one case per action:
`Call` is `Accept`, `SendAnswer` and `Respond` are `Reply`, `Leave` is `Close`, or the reply and
the close at once, `Abandon` and `Restart` are `Break`, and all others leave status and answer as they are.

For `SketchfabDownload`, with any set of models that `None` is not in and any number of downloads, the
invariant `DownloadInv` adds where a download is (`Placed`), what it has brought so far (`Brought`) and
how old files can be (`Aged`: no mesh is newer than its stage). `SelectionHasStage` is not inductive without
`Aged`, since the user may select a file left by a failed download, and `PairOfOneDownload` not without
`Brought`, which carries the first file's origin to the step that writes the second.

The counter of processed models is off by the handlers between the yield of a result and its `inc()`, so neither
half of `ProcessedCountsResults` is inductive. `CountInv` counts them: the counter and the calls at `counting`
together never exceed the calls with a result, and a result whose client stayed is counted
unless its call is still there. `CleanInv` follows a clean exit from `Reap` through the upload to the stream;
that a `Spawn` cannot follow a result is `StreamInv`.

For `EdgePipeline` what has to be shown is that a call's outcome is its own although files, keys and streams are
shared. `EdgeInv` says so at each station. `Stored`: keys of uploads have one owner, so
that what is under a key, and the scene the Core works on, is the owner's or nothing. `Told`: a message is true when it is
sent, and `LastingStep` shows that what it says stays true (a proxy's object is not replaced, a
closed call stays closed), however late it is read. `Reported`: the telemetry a call holds is of the Core's
job for it, and a temporary file named in it has one owner and was filled. `Returned`: an outcome is a
bypass or a processed result of that kind, and its file is registered. The last is not preserved if a file could come into
being after it was returned; `NoNewFile` shows that it cannot: a temporary file named in telemetry is there already,
and the Core writes the job's own file only with its one answer. That `ProcessModel` implements the contract the
window relies on needs of this only what an outcome is: `Invoke` is `Accept`, every `Return` is the reply and the
close at once, and nothing touches a call that has returned.

For `Launcher`, what a session has started follows from the statement it is at, so `CleanInv` says it for
all of them: whether the port-forward and the container run, and whether the script knows, before, between and after
`RunCore` and `Mark`, and in either step of the `finally` block. `StopsOwnCoreUnlessItDied` and `AppHasOwnCore`
speak of a container that is found by its name. `OwnCoreInv` ties the name to the session: from the `docker run` on,
also before `$coreStarted` is set, the container is the session's own, because Docker refuses a second one of the same name
and, as long as nothing dies, nobody else stops it.

For `Dashboard`, `TextureInv` follows a texture back from the viewer through the texture that is being created to
the listener: all belong to analyses that were answered, whose telemetry never changes again, and for the
last two the model that is loaded has the URL of the telemetry. As no two analyses have one proxy, a texture on a
proxy can only be its own. The listener alone cannot promise that: it
compares the URL when the load event comes, and loading another model drops what is being created.
`PreviewInv` speaks of the address the mesh viewer was *given*, loaded or not: a proxy in it is that of the
telemetry that is kept, and the guessed endpoint stays in it, once the real one is known, only if it
is of another asset than the selected one, which the next selection replaces.

For `AdvicePanel` the panel is written to by characters and the stream by events, and neither can be stated without what
is still to come. `ControlInv` places each call at both ends (`Placed`), and binds it at most once and only
while it waits (`Bound`): hence `Unbind` removes the one handler there is. `AnswerInv` says of a panel that was left
alone that what was typed *and what is left* make up the whole answer. `StreamInv` says of calls that do not
overlap that the events in the queue are the rest of the answer after what was read so far
(`Rest`: there is a point for each event at which the answer is cut) and that the text on the panel is drawn from what was read
(`Drawn`). Delivering an event drops the first point and adds at most one character to the text (`DrawnMore`),
sending one appends another point, and the one a `Scan` trims moves none of those before it.
`LanguageInv` follows the language from the call in flight to the one that settled last.

For `ReportPanel` the facts about data come first: every entry is of one of three forms (`Entries`), so that window and
Core agree about the telemetry of *every* stage and its reason is true (`TwoEndsAgree`, `ReasonGiven`); with
`Sound` for both, only what is kept needs to be followed. The first candidate exists because a nonempty set of
indices has a least element. `LanguageInv` adds what a label can be (`LabelOk`: `UpdateDOM` finds a key
in it, or leaves it alone) and in which language the saved content of the download button is. `ReportInv` adds that a report is
never of no telemetry, without which a change of the language would not render it again. `ClaimInv` adds that a picture that nobody
crossed waits with telemetry that agrees with `qualityAvailable`.

The figures are sums over lists of any length, and `SumFunction` is a fold over the set of indices, defined by `CHOOSE` of a
recursive function. No induction rule can be cited for that, but the natural numbers are well founded: a set of
numbers closed under the successor is all of them (`NaturalInduction`), hence a set of index sets closed under the
fold's choice is all of them (`FoldInduction`), hence the function exists (`FoldExists`) and unfolds
(`SumUnfolds`). Sums of differences, multiples, naturals and equal summands follow, and of summands that are
near each other (`SumNear`), and with them `ListFigures`: the figures agree up to the tolerance times the number of
entries if those of each entry do. For one entry that is `CompressedFigures`: each rounded figure is within half a
hundredth of the exact one (`RoundedNearest`), hence their difference within three halves, which for a
whole number is one. `FiguresInv` then says that
the list that is kept was compressed at the bitrate its own call was started with, wherever the slider is now.

For `WindowLayout`, `PanelInv` adds that an undisturbed drag still has the other panel's and the window's width
as they were measured, `SplitInv` the range of the divider, `PreferenceInv` that what the last click asked for is the
last transition in the queue, or the theme.

*Only model-checked*: what needs fairness (`ChildrenEndOrFill`, `StartupDecided`, `ButtonComesBack`, `SpinnerEnds`, and
the half of `FulfilsContract` and `EveryInvocationAnswered` that says that an answer comes): liveness and `ENABLED` are
beyond the prover. The violations of section 6 are counterexamples, which TLC finds.

*Next*: what the theorems assume of each other across components is checked by reading only: that the Core's moves in
`EdgePipeline` are those `ServiceKeepsContract` allows, and that `Dashboard`'s answers are those of
`InvocationsAnsweredOnce`. A module that instantiates the two sides together would say so formally.

## 5. What is not modelled

- *Data and geometry*: what is in a USD stage, how archives are unpacked, which primvar has the UVs and how a proxy is
  triangulated, how well a texture compresses. One child computes these alone from one file, without state that
  outlives it; whether geometry is right is a matter of tests on scenes.
- *Wording and drawing*: prompts, ANSI removal, Markdown, tables, how many digits of a figure are shown, colours of the chart.
- *Cameras and counters*: the orientation of a model, the synchronised cameras of the comparison, the frame
  counter, the GPU ticker: each writes what was last measured, and nothing else reads it.
- *The serving side of the preview server*: it reads the registry under its lock and then the file. Registration
  and resolution are in `EdgePipeline`.
- *`LocateObjects` on the desktop and the detection service*: one stateless request each; the
  Core's handler between them is modelled.
- *Ports and addresses*: one Core, one MinIO. Only the launcher looks at ports.
- *Helm, GitOps, CI, Android and iOS scaffolding, bindings, stubs*: configuration and generated code.
- *Orchestrator, NATS, RTXWorker*: no caller.

Behaviours the models show and no document contradicts:

- *Overlapping analyses.* The interval of the first timer is never cleared. An answer without a proxy shows the
  asset that is selected *when it comes*, or a file beside it (`MeshPath`). A later answer that shares its URL loads nothing
  and keeps the textures that are there.
- *Abandoned jobs.* The child of a call whose client left runs on. If it prints more than its pipe holds it waits
  in `print` until the container is stopped, with its job directory and its memory.
- *Overlapping advice* may settle in the other order, so that the advice of the older language stays
  (`AdviceInLanguage` excludes overlap); a typewriter is never cancelled, so that it can mix its answer into the next one
  (`SettledAnswerComplete` excludes that). The payload reads `qualityAvailable` after the picture was taken, so that an
  answer that comes in between makes it claim a comparison (`AdviceClaims` excludes that).
- *Streaming.* `app.go` emits a token as the only value of its event, and the pinned Wails (`v3.0.0-alpha.97`) puts that bare
  string into `data`; the handler takes `event.data[0]` (`main.ts:1077`), its first character, although `main.ts:580`
  allows for both shapes. What is seen of an answer while it streams is one character of each token, until the whole
  answer replaces it: `StreamSamplesAnswer` is what holds of it, "a prefix of the answer" does not.
- *Downloads.* After a failed one the old mesh may lie beside a newer stage, and a file that was cut is returned as a
  success (`Copy`). The button gets its old content back, in the old language (`LabelsTranslated` excepts it).
- *Languages.* A change overwrites the path of the selected asset with "no file selected", since nothing sets the
  attribute that would protect it, and the error of a failed analysis with the report of the one before. Messages of
  the moment keep their language, and so do texts that are written in one: the titles of the rotation buttons are Polish
  (`main.ts:409-411`), "Unsupported asset format" (`main.ts:964`) and "NVIDIA unavailable" (`main.ts:1211`) English, whatever the
  language of the window is (`README.md:7` says that the interface supports both). `LabelsTranslated` is about the texts of the table.
- *Figures.* "Saved" is the sum of rounded differences, the removed segment of the chart the difference of
  rounded sums: they may differ by a hundredth of a megabyte for each texture (`FiguresTrue` bounds it).
- *Layout.* A second drag, one left by `pointercancel`, or a resize during a drag can push the centre below its
  minimum (`CentreKept` excludes them). A drag over a hidden comparison can leave NaN as its position until the next one
  is loaded. Two quick clicks on the theme ask for the same theme and act as one.
- *Files.* The temporary proxy of an analysis is never removed (`app.go:513`).
- *Launcher.* Ctrl+C between `docker run` or `Start-Process` and the assignment after it leaves the container or the
  port-forward running, and the container is stopped by name, which after its own death may be another session's. A second Ctrl+C within the `finally`
  block is not modelled.
  `README.md:57` and `README.md:112` can be read as promising more; `SessionEndsCleanOnceMarked` and
  `StopsOwnCoreUnlessItDied` state what does hold.

## 6. Disagreements between documentation and code

| Run | The text | The code |
|---|---|---|
| `EdgeUpperCase` | `nequ3d-app/app.go:361` "If we are given a .glb, check if a .usdz version exists alongside it" | the suffix is trimmed with the lower-case extension from a path that keeps its case: `scene.GLB` is bypassed although `scene.usdz` lies beside it |
| `SketchfabLocalized` | `nequ3d-app/app.go:619` "The frontend maps these to localized, user-friendly messages."; `main.ts:705` says the same | the code (`SKETCHFAB_NETWORK`) is looked up as it is among keys such as `sketchfabNetwork`: it is never found and the raw text is shown |
