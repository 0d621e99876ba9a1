------------------------------ MODULE Launcher ------------------------------
(***************************************************************************)
(* scripts/run-all.ps1, the script that starts a session: it checks the    *)
(* machine, forwards MinIO's port, starts the Core's container and runs    *)
(* the desktop application inside a "try", whose "finally" takes the       *)
(* session down.  Several launchers may be started; the user may interrupt *)
(* each with Ctrl+C between any two statements; the container and the      *)
(* port-forward may die on their own.                                      *)
(***************************************************************************)
EXTENDS Integers

CONSTANTS
    Launchers,      \* the sessions that are started
    None,           \* no container, no point of interruption
    MaxCrashes      \* bound: containers and port-forwards that die

ASSUME LauncherAssumption == None \notin Launchers /\ MaxCrashes \in Nat

VARIABLES
    option,         \* option[l]: "all", "check" (-CheckOnly), "services" (-ServicesOnly)
    pc,             \* pc[l]: the statement launcher l is at
    coreStarted,    \* coreStarted[l]
    minioProc,      \* minioProc[l]: the variable holds the process it started
    credentials,    \* credentials[l]: its environment holds MinIO's credentials
    container,      \* the launcher whose container has the name nequ3d-core-dev
    forward,        \* forward[l]: the state of its port-forward process
    interruptedAt,  \* interruptedAt[l]: the statement Ctrl+C found it at
    stopped,        \* stopped[l]: the launchers whose container l has stopped
    crashes         \* what has died so far

scriptVars == <<option, coreStarted, minioProc, credentials>>
systemVars == <<container, forward, crashes>>
historyVars == <<interruptedAt, stopped>>
vars == <<pc, scriptVars, systemVars, historyVars>>

Statements == {"checking", "ports", "building", "forwarding", "keeping", "awaiting minio",
               "running core", "marking", "awaiting core", "probing", "app"}

Init ==
    /\ option \in [Launchers -> {"all", "check", "services"}]
    /\ pc = [l \in Launchers |-> "idle"]
    /\ coreStarted = [l \in Launchers |-> FALSE]
    /\ minioProc = [l \in Launchers |-> FALSE]
    /\ credentials = [l \in Launchers |-> FALSE]
    /\ container = None
    /\ forward = [l \in Launchers |-> "none"]
    /\ interruptedAt = [l \in Launchers |-> None]
    /\ stopped = [l \in Launchers |-> {}]
    /\ crashes = 0

----------------------------------------------------------------------------
Goto(l, point) == pc' = [pc EXCEPT ![l] = point]

\* "throw", "return" and Ctrl+C all continue in the "finally" block.
Finally(l) == Goto(l, "stopping core")

\* The statement succeeds and next follows, or it throws.
Step(l, point, next) == pc[l] = point /\ (Goto(l, next) \/ Finally(l))

MinioListens == \E l \in Launchers : forward[l] = "up"
ViteListens  == \E l \in Launchers : pc[l] = "app"

Start(l) ==
    /\ pc[l] = "idle"
    /\ Goto(l, "checking")
    /\ UNCHANGED <<scriptVars, systemVars, historyVars>>

\* The tools, Docker, the cluster and MinIO; then its credentials go into the
\* environment.  -CheckOnly ends here.
Check(l) ==
    /\ Step(l, "checking", "ports")
    /\ credentials' \in {credentials, [credentials EXCEPT ![l] = TRUE]}
    /\ pc'[l] = "ports" => credentials'[l] /\ option[l] # "check"
    /\ UNCHANGED <<option, coreStarted, minioProc, systemVars, historyVars>>

\* No listener on the ports 9000, 50051, 8001 and 9245, no container of the name.
CheckPorts(l) ==
    /\ Step(l, "ports", "building")
    /\ pc'[l] = "building" => ~MinioListens /\ ~ViteListens /\ container = None
    /\ UNCHANGED <<scriptVars, systemVars, historyVars>>

\* Build the image unless it is there.
Build(l) ==
    /\ Step(l, "building", "forwarding")
    /\ UNCHANGED <<scriptVars, systemVars, historyVars>>

\* Start-Process kubectl port-forward.
Forward(l) ==
    /\ Step(l, "forwarding", "keeping")
    /\ forward' = [forward EXCEPT ![l] = IF pc'[l] = "keeping" THEN "starting" ELSE @]
    /\ UNCHANGED <<scriptVars, container, crashes, historyVars>>

\* "$minioProc = ", the other half of that line.
Keep(l) ==
    /\ pc[l] = "keeping"
    /\ minioProc' = [minioProc EXCEPT ![l] = TRUE]
    /\ Goto(l, "awaiting minio")
    /\ UNCHANGED <<option, coreStarted, credentials, systemVars, historyVars>>

\* Wait-Http for MinIO: 60 seconds, and no longer than the port-forward lives.
AwaitMinio(l) ==
    /\ Step(l, "awaiting minio", "running core")
    /\ pc'[l] = "running core" => MinioListens /\ forward[l] # "exited"
    /\ UNCHANGED <<scriptVars, systemVars, historyVars>>

\* Faulty variant of RunCore: the exit code of docker run is not checked.
RunCoreUnchecked(l) ==
    /\ Step(l, "running core", "marking")
    /\ container' = IF pc'[l] = "marking" /\ container = None THEN l ELSE container
    /\ UNCHANGED <<scriptVars, forward, crashes, historyVars>>

\* docker run -d: it fails when the name is taken.
RunCore(l) ==
    /\ Step(l, "running core", "marking")
    /\ pc'[l] = "marking" => container = None
    /\ container' = IF pc'[l] = "marking" THEN l ELSE container
    /\ UNCHANGED <<scriptVars, forward, crashes, historyVars>>

\* "$coreStarted = $true", the next line.
Mark(l) ==
    /\ pc[l] = "marking"
    /\ coreStarted' = [coreStarted EXCEPT ![l] = TRUE]
    /\ Goto(l, "awaiting core")
    /\ UNCHANGED <<option, minioProc, credentials, systemVars, historyVars>>

\* Faulty variant of AwaitCore: a loop without a deadline.
AwaitCoreForever(l) ==
    /\ pc[l] = "awaiting core" /\ container # None
    /\ Goto(l, "probing")
    /\ UNCHANGED <<scriptVars, systemVars, historyVars>>

\* Wait-Http for the Core's metrics, at most 60 seconds.
AwaitCore(l) ==
    /\ Step(l, "awaiting core", "probing")
    /\ pc'[l] = "probing" => container # None
    /\ UNCHANGED <<scriptVars, systemVars, historyVars>>

\* docker exec: the gRPC port and the GPU.  -ServicesOnly ends here.
Probe(l) ==
    /\ Step(l, "probing", "app")
    /\ pc'[l] = "app" => container # None /\ option[l] = "all"
    /\ UNCHANGED <<scriptVars, systemVars, historyVars>>

\* wails3 dev ends: the window was closed, or it failed.
CloseApp(l) ==
    /\ pc[l] = "app" /\ Finally(l)
    /\ UNCHANGED <<scriptVars, systemVars, historyVars>>

Interrupt(l) ==
    /\ pc[l] \in Statements /\ Finally(l)
    /\ interruptedAt' = [interruptedAt EXCEPT ![l] = pc[l]]
    /\ UNCHANGED <<scriptVars, systemVars, stopped>>

----------------------------------------------------------------------------
(***************************************************************************)
(* finally.                                                                *)
(***************************************************************************)

\* Faulty variants of StopCore: the flag is not looked at; the container is left.
StopAnyCore(l) ==
    /\ pc[l] = "stopping core"
    /\ credentials' = [credentials EXCEPT ![l] = FALSE]
    /\ container' = None
    /\ stopped' = [stopped EXCEPT ![l] = @ \cup ({container} \ {None})]
    /\ Goto(l, "stopping forward")
    /\ UNCHANGED <<option, coreStarted, minioProc, forward, crashes, interruptedAt>>
LeaveCore(l) ==
    /\ pc[l] = "stopping core"
    /\ credentials' = [credentials EXCEPT ![l] = FALSE]
    /\ Goto(l, "stopping forward")
    /\ UNCHANGED <<option, coreStarted, minioProc, systemVars, historyVars>>

\* The environment is restored; docker stop, by name, if $coreStarted.
StopCore(l) ==
    /\ pc[l] = "stopping core"
    /\ credentials' = [credentials EXCEPT ![l] = FALSE]
    /\ container' = IF coreStarted[l] THEN None ELSE container
    /\ stopped' = [stopped EXCEPT
          ![l] = IF coreStarted[l] THEN @ \cup ({container} \ {None}) ELSE @]
    /\ Goto(l, "stopping forward")
    /\ UNCHANGED <<option, coreStarted, minioProc, forward, crashes, interruptedAt>>

\* Stop-Process of the port-forward, if it was started and still runs.
StopForward(l) ==
    /\ pc[l] = "stopping forward"
    /\ forward' = [forward EXCEPT ![l] = IF minioProc[l] THEN "exited" ELSE @]
    /\ Goto(l, "ended")
    /\ UNCHANGED <<scriptVars, container, crashes, historyVars>>

----------------------------------------------------------------------------
(***************************************************************************)
(* Docker and kubectl.                                                     *)
(***************************************************************************)

\* kubectl listens on port 9000, or exits because somebody else does.
Bind(l) ==
    /\ forward[l] = "starting"
    /\ forward' = [forward EXCEPT ![l] = IF MinioListens THEN "exited" ELSE "up"]
    /\ UNCHANGED <<pc, scriptVars, container, crashes, historyVars>>

Crash ==
    /\ crashes < MaxCrashes
    /\ crashes' = crashes + 1
    /\ \/ container # None /\ container' = None /\ UNCHANGED forward
       \/ /\ \E l \in Launchers :
               /\ forward[l] \in {"starting", "up"}
               /\ forward' = [forward EXCEPT ![l] = "exited"]
          /\ UNCHANGED container
    /\ UNCHANGED <<pc, scriptVars, historyVars>>

Script(l) ==
    \/ Check(l) \/ CheckPorts(l) \/ Build(l) \/ Forward(l) \/ Keep(l) \/ AwaitMinio(l)
    \/ RunCore(l) \/ Mark(l) \/ AwaitCore(l) \/ Probe(l) \/ StopCore(l) \/ StopForward(l)

Quiet == \A l \in Launchers : pc[l] = "ended"

Next ==
    \/ \E l \in Launchers : Start(l) \/ Script(l) \/ CloseApp(l) \/ Interrupt(l) \/ Bind(l)
    \/ Crash
    \/ Quiet /\ UNCHANGED vars

Spec == Init /\ [][Next]_vars

\* The script goes on: every wait in it has a timeout, every command ends.
FairSpec == Spec /\ \A l \in Launchers : WF_vars(Script(l))
----------------------------------------------------------------------------
(***************************************************************************)
(* Properties.                                                             *)
(***************************************************************************)

Clean(l) ==
    /\ container # l
    /\ forward[l] \notin {"starting", "up"}
    /\ ~credentials[l]

\* "On normal exit, interruption, or launch failure, stops its Core container
\* and its port-forward" (README.md), but for the two points at which a process
\* has been started and the variable the "finally" block looks at has not been
\* assigned yet: there an interruption does leave it running.
SessionEndsCleanOnceMarked ==
    \A l \in Launchers :
        pc[l] = "ended" /\ interruptedAt[l] \notin {"keeping", "marking"} => Clean(l)

\* "The launcher fails instead of killing unrelated processes or containers":
\* whichever launcher comes second, it never stops the container of the first,
\* as long as no container and no port-forward has died on its own.  (docker
\* stop goes by the name: after that it may be another session's.)
StopsOwnCoreUnlessItDied == crashes = 0 => \A l \in Launchers : stopped[l] \subseteq {l}

\* The desktop application runs with the Core its launcher started, unless
\* something died: passing checks are not answered by another session.
AppHasOwnCore ==
    \A l \in Launchers : pc[l] = "app" /\ crashes = 0 => container = l

\* A launcher gets to the application or takes everything down again; it does
\* not hang on a service that never comes up.
StartupDecided == \A l \in Launchers : pc[l] = "checking" ~> pc[l] \in {"app", "ended"}
=============================================================================
