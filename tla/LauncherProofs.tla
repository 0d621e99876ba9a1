--------------------------- MODULE LauncherProofs ---------------------------
(***************************************************************************)
(* Proofs about Launcher for every number of sessions and of crashes: a    *)
(* session stops what it started, nothing else, and runs with its own      *)
(* Core.                                                                   *)
(***************************************************************************)
EXTENDS Launcher, TLAPS

Points == Statements \cup {"idle", "stopping core", "stopping forward", "ended"}

LauncherTypes ==
    /\ option \in [Launchers -> {"all", "check", "services"}]
    /\ pc \in [Launchers -> Points]
    /\ coreStarted \in [Launchers -> BOOLEAN]
    /\ minioProc \in [Launchers -> BOOLEAN]
    /\ credentials \in [Launchers -> BOOLEAN]
    /\ container \in Launchers \cup {None}
    /\ forward \in [Launchers -> {"none", "starting", "up", "exited"}]
    /\ interruptedAt \in [Launchers -> Statements \cup {None}]
    /\ stopped \in [Launchers -> SUBSET Launchers]
    /\ crashes \in Nat

\* What has been started by the time a launcher is at a point.
BeforeForward == {"idle", "checking", "ports", "building", "forwarding"}
BeforeCore    == BeforeForward \cup {"keeping", "awaiting minio", "running core"}
WithCore      == {"awaiting core", "probing", "app"}
Over          == {"stopping forward", "ended"}

\* The port-forward is known to its variable, has ended or was never started; but for
\* the two statements between Start-Process and the assignment.
ForwardKept(l) ==
    /\ pc[l] \in BeforeForward => forward[l] = "none"
    /\ pc[l] \in {"awaiting minio", "running core", "marking"} \cup WithCore => minioProc[l]
    /\ pc[l] \in {"stopping core", "stopping forward"} /\ interruptedAt[l] # "keeping" =>
         minioProc[l] \/ forward[l] = "none"
    /\ pc[l] = "ended" /\ interruptedAt[l] # "keeping" => forward[l] \notin {"starting", "up"}

\* So is the container.
CoreKept(l) ==
    /\ pc[l] \in BeforeCore => container # l
    /\ pc[l] \in BeforeCore \cup {"marking"} => ~coreStarted[l]
    /\ pc[l] \in WithCore => coreStarted[l]
    /\ pc[l] = "stopping core" /\ interruptedAt[l] # "marking" => coreStarted[l] \/ container # l
    /\ pc[l] \in Over /\ interruptedAt[l] # "marking" => container # l

CleanInv ==
    \A l \in Launchers :
        /\ ForwardKept(l) /\ CoreKept(l)
        /\ pc[l] \in {"idle"} \cup Over => ~credentials[l]

\* As long as nothing dies, a session that has started its Core has it, and so a
\* "docker stop" by name hits no other.
OwnCoreInv ==
    crashes = 0 => \A l \in Launchers :
        /\ pc[l] = "marking" \/ (coreStarted[l] /\ pc[l] \notin Over) => container = l
        /\ stopped[l] \subseteq {l}

LauncherInv == LauncherTypes /\ CleanInv /\ OwnCoreInv

----------------------------------------------------------------------------
LEMMA InitLauncher == Init => LauncherInv
  BY LauncherAssumption
     DEF Init, LauncherInv, LauncherTypes, CleanInv, OwnCoreInv, ForwardKept, CoreKept,
         Points, Statements, BeforeForward, BeforeCore, WithCore, Over

LEMMA PointNames ==
    /\ Statements \subseteq Points
    /\ {"checking", "ports", "building", "forwarding", "keeping", "awaiting minio", "running core",
        "marking", "awaiting core", "probing", "app"} = Statements
    /\ {"stopping core", "stopping forward", "ended"} \subseteq Points
  BY DEF Points, Statements

LEMMA Moved ==
    ASSUME LauncherTypes, NEW l \in Launchers, NEW next \in Points, Goto(l, next)
    PROVE  /\ pc' \in [Launchers -> Points] /\ pc'[l] = next
           /\ \A m \in Launchers \ {l} : pc'[m] = pc[m]
  BY DEF LauncherTypes, Goto

LEMMA Stepped ==
    ASSUME LauncherTypes, NEW l \in Launchers, NEW point, NEW next \in Points, Step(l, point, next)
    PROVE  /\ pc[l] = point /\ pc' \in [Launchers -> Points]
           /\ pc'[l] = next \/ pc'[l] = "stopping core"
           /\ \A m \in Launchers \ {l} : pc'[m] = pc[m]
<1>1. pc[l] = point /\ (Goto(l, next) \/ Goto(l, "stopping core"))
  BY DEF Step, Finally
<1>2. QED
  BY <1>1, Moved, PointNames

LEMMA TypeStep == LauncherTypes /\ [Next]_vars => LauncherTypes'
<1> SUFFICES ASSUME LauncherTypes, [Next]_vars PROVE LauncherTypes'
  OBVIOUS
<1> USE DEF scriptVars, systemVars, historyVars
<1>1. ASSUME NEW l \in Launchers, Start(l) PROVE LauncherTypes'
  <2>1. pc' \in [Launchers -> Points]
    BY <1>1, Moved, PointNames DEF Start
  <2>2. QED
    BY <1>1, <2>1 DEF Start, LauncherTypes
<1>2. ASSUME NEW l \in Launchers, Check(l) PROVE LauncherTypes'
  <2>1. pc' \in [Launchers -> Points]
    BY <1>2, Stepped, PointNames DEF Check
  <2>2. QED
    BY <1>2, <2>1 DEF Check, LauncherTypes
<1>3. ASSUME NEW l \in Launchers, CheckPorts(l) PROVE LauncherTypes'
  <2>1. pc' \in [Launchers -> Points]
    BY <1>3, Stepped, PointNames DEF CheckPorts
  <2>2. QED
    BY <1>3, <2>1 DEF CheckPorts, LauncherTypes
<1>4. ASSUME NEW l \in Launchers, Build(l) PROVE LauncherTypes'
  <2>1. pc' \in [Launchers -> Points]
    BY <1>4, Stepped, PointNames DEF Build
  <2>2. QED
    BY <1>4, <2>1 DEF Build, LauncherTypes
<1>5. ASSUME NEW l \in Launchers, Forward(l) PROVE LauncherTypes'
  <2>1. pc' \in [Launchers -> Points]
    BY <1>5, Stepped, PointNames DEF Forward
  <2>2. QED
    BY <1>5, <2>1 DEF Forward, LauncherTypes
<1>6. ASSUME NEW l \in Launchers, Keep(l) PROVE LauncherTypes'
  <2>1. pc' \in [Launchers -> Points]
    BY <1>6, Moved, PointNames DEF Keep
  <2>2. QED
    BY <1>6, <2>1 DEF Keep, LauncherTypes
<1>7. ASSUME NEW l \in Launchers, AwaitMinio(l) PROVE LauncherTypes'
  <2>1. pc' \in [Launchers -> Points]
    BY <1>7, Stepped, PointNames DEF AwaitMinio
  <2>2. QED
    BY <1>7, <2>1 DEF AwaitMinio, LauncherTypes
<1>8. ASSUME NEW l \in Launchers, RunCore(l) PROVE LauncherTypes'
  <2>1. pc' \in [Launchers -> Points]
    BY <1>8, Stepped, PointNames DEF RunCore
  <2>2. QED
    BY <1>8, <2>1 DEF RunCore, LauncherTypes
<1>9. ASSUME NEW l \in Launchers, Mark(l) PROVE LauncherTypes'
  <2>1. pc' \in [Launchers -> Points]
    BY <1>9, Moved, PointNames DEF Mark
  <2>2. QED
    BY <1>9, <2>1 DEF Mark, LauncherTypes
<1>10. ASSUME NEW l \in Launchers, AwaitCore(l) PROVE LauncherTypes'
  <2>1. pc' \in [Launchers -> Points]
    BY <1>10, Stepped, PointNames DEF AwaitCore
  <2>2. QED
    BY <1>10, <2>1 DEF AwaitCore, LauncherTypes
<1>11. ASSUME NEW l \in Launchers, Probe(l) PROVE LauncherTypes'
  <2>1. pc' \in [Launchers -> Points]
    BY <1>11, Stepped, PointNames DEF Probe
  <2>2. QED
    BY <1>11, <2>1 DEF Probe, LauncherTypes
<1>12. ASSUME NEW l \in Launchers, CloseApp(l) PROVE LauncherTypes'
  <2>1. pc' \in [Launchers -> Points]
    BY <1>12, Moved, PointNames DEF CloseApp, Finally
  <2>2. QED
    BY <1>12, <2>1 DEF CloseApp, LauncherTypes
<1>13. ASSUME NEW l \in Launchers, Interrupt(l) PROVE LauncherTypes'
  <2>1. pc' \in [Launchers -> Points]
    BY <1>13, Moved, PointNames DEF Interrupt, Finally
  <2>2. QED
    BY <1>13, <2>1 DEF Interrupt, LauncherTypes
<1>14. ASSUME NEW l \in Launchers, StopCore(l) PROVE LauncherTypes'
  <2>1. pc' \in [Launchers -> Points]
    BY <1>14, Moved, PointNames DEF StopCore
  <2>2. QED
    BY <1>14, <2>1 DEF StopCore, LauncherTypes
<1>15. ASSUME NEW l \in Launchers, StopForward(l) PROVE LauncherTypes'
  <2>1. pc' \in [Launchers -> Points]
    BY <1>15, Moved, PointNames DEF StopForward
  <2>2. QED
    BY <1>15, <2>1 DEF StopForward, LauncherTypes
<1>16. ASSUME NEW l \in Launchers, Bind(l) PROVE LauncherTypes'
  BY <1>16 DEF Bind, LauncherTypes
<1>17. CASE Crash
  BY <1>17 DEF Crash, LauncherTypes
<1>18. CASE UNCHANGED vars
  BY <1>18 DEF vars, LauncherTypes
<1>19. QED
  BY <1>1, <1>2, <1>3, <1>4, <1>5, <1>6, <1>7, <1>8, <1>9, <1>10, <1>11, <1>12, <1>13, <1>14, <1>15, <1>16, <1>17, <1>18
     DEF Next, Script

----------------------------------------------------------------------------
(***************************************************************************)
(* A step of one launcher leaves what another launcher knows of itself as  *)
(* it is, and does not start anything for it.                              *)
(***************************************************************************)
LEMMA OthersStay ==
    ASSUME LauncherTypes, NEW l \in Launchers, NEW m \in Launchers, m # l,
           Start(l) \/ Script(l) \/ CloseApp(l) \/ Interrupt(l) \/ Bind(l)
    PROVE  /\ pc'[m] = pc[m] /\ coreStarted'[m] = coreStarted[m]
           /\ minioProc'[m] = minioProc[m] /\ credentials'[m] = credentials[m]
           /\ forward'[m] = forward[m]
           /\ interruptedAt'[m] = interruptedAt[m] /\ stopped'[m] = stopped[m]
           /\ container' \in {container, l, None} /\ crashes' = crashes
<1> USE DEF LauncherTypes, Step, Finally, Goto, scriptVars, systemVars, historyVars
<1>1. CASE Start(l) \/ Check(l) \/ CheckPorts(l) \/ Build(l) \/ Forward(l) \/ Keep(l)
  BY <1>1 DEF Start, Check, CheckPorts, Build, Forward, Keep
<1>2. CASE AwaitMinio(l) \/ RunCore(l) \/ Mark(l) \/ AwaitCore(l) \/ Probe(l) \/ CloseApp(l)
  BY <1>2 DEF AwaitMinio, RunCore, Mark, AwaitCore, Probe, CloseApp
<1>3. CASE Interrupt(l) \/ StopCore(l) \/ StopForward(l) \/ Bind(l)
  BY <1>3 DEF Interrupt, StopCore, StopForward, Bind
<1>4. QED
  BY <1>1, <1>2, <1>3 DEF Script

\* Where each action takes its launcher.
LEMMA Jumps ==
    ASSUME LauncherTypes, NEW l \in Launchers
    PROVE  /\ Start(l) => pc[l] = "idle" /\ pc'[l] = "checking"
           /\ Check(l) => pc[l] = "checking" /\ pc'[l] \in {"ports", "stopping core"}
           /\ CheckPorts(l) => pc[l] = "ports" /\ pc'[l] \in {"building", "stopping core"}
           /\ Build(l) => pc[l] = "building" /\ pc'[l] \in {"forwarding", "stopping core"}
           /\ Forward(l) => pc[l] = "forwarding" /\ pc'[l] \in {"keeping", "stopping core"}
           /\ Keep(l) => pc[l] = "keeping" /\ pc'[l] = "awaiting minio"
           /\ AwaitMinio(l) => pc[l] = "awaiting minio" /\ pc'[l] \in {"running core", "stopping core"}
           /\ RunCore(l) => pc[l] = "running core" /\ pc'[l] \in {"marking", "stopping core"}
           /\ Mark(l) => pc[l] = "marking" /\ pc'[l] = "awaiting core"
           /\ AwaitCore(l) => pc[l] = "awaiting core" /\ pc'[l] \in {"probing", "stopping core"}
           /\ Probe(l) => pc[l] = "probing" /\ pc'[l] \in {"app", "stopping core"}
           /\ CloseApp(l) => pc[l] = "app" /\ pc'[l] = "stopping core"
           /\ StopCore(l) => pc[l] = "stopping core" /\ pc'[l] = "stopping forward"
           /\ StopForward(l) => pc[l] = "stopping forward" /\ pc'[l] = "ended"
           /\ Interrupt(l) => /\ pc[l] \in Statements /\ pc'[l] = "stopping core"
                              /\ interruptedAt'[l] = pc[l]
<1>1. Start(l) => pc[l] = "idle" /\ pc'[l] = "checking"
  BY Moved, PointNames DEF Start
<1>2. Check(l) => pc[l] = "checking" /\ pc'[l] \in {"ports", "stopping core"}
  BY Stepped, PointNames DEF Check
<1>3. CheckPorts(l) => pc[l] = "ports" /\ pc'[l] \in {"building", "stopping core"}
  BY Stepped, PointNames DEF CheckPorts
<1>4. Build(l) => pc[l] = "building" /\ pc'[l] \in {"forwarding", "stopping core"}
  BY Stepped, PointNames DEF Build
<1>5. Forward(l) => pc[l] = "forwarding" /\ pc'[l] \in {"keeping", "stopping core"}
  BY Stepped, PointNames DEF Forward
<1>6. Keep(l) => pc[l] = "keeping" /\ pc'[l] = "awaiting minio"
  BY Moved, PointNames DEF Keep
<1>7. AwaitMinio(l) => pc[l] = "awaiting minio" /\ pc'[l] \in {"running core", "stopping core"}
  BY Stepped, PointNames DEF AwaitMinio
<1>8. RunCore(l) => pc[l] = "running core" /\ pc'[l] \in {"marking", "stopping core"}
  BY Stepped, PointNames DEF RunCore
<1>9. Mark(l) => pc[l] = "marking" /\ pc'[l] = "awaiting core"
  BY Moved, PointNames DEF Mark
<1>10. AwaitCore(l) => pc[l] = "awaiting core" /\ pc'[l] \in {"probing", "stopping core"}
  BY Stepped, PointNames DEF AwaitCore
<1>11. Probe(l) => pc[l] = "probing" /\ pc'[l] \in {"app", "stopping core"}
  BY Stepped, PointNames DEF Probe
<1>12. CloseApp(l) => pc[l] = "app" /\ pc'[l] = "stopping core"
  BY Moved, PointNames DEF CloseApp, Finally
<1>13. StopCore(l) => pc[l] = "stopping core" /\ pc'[l] = "stopping forward"
  BY Moved, PointNames DEF StopCore
<1>14. StopForward(l) => pc[l] = "stopping forward" /\ pc'[l] = "ended"
  BY Moved, PointNames DEF StopForward
<1>15. Interrupt(l) => /\ pc[l] \in Statements /\ pc'[l] = "stopping core"
                       /\ interruptedAt'[l] = pc[l]
  BY Moved, PointNames DEF Interrupt, Finally, LauncherTypes
<1>16. QED
  BY <1>1, <1>2, <1>3, <1>4, <1>5, <1>6, <1>7, <1>8, <1>9, <1>10, <1>11, <1>12, <1>13, <1>14, <1>15

\* The step of a launcher keeps its own half of the invariant.
OwnPart(l) == ForwardKept(l) /\ CoreKept(l) /\ (pc[l] \in {"idle"} \cup Over => ~credentials[l])

LEMMA OwnStep ==
    ASSUME LauncherTypes, NEW l \in Launchers, OwnPart(l),
           Start(l) \/ Script(l) \/ CloseApp(l) \/ Interrupt(l) \/ Bind(l)
    PROVE  OwnPart(l)'
<1> USE LauncherAssumption
<1> USE DEF OwnPart, ForwardKept, CoreKept, scriptVars, systemVars, historyVars, BeforeForward,
            BeforeCore, WithCore, Over
<1>1. CASE Start(l)
  BY <1>1, Jumps DEF Start, LauncherTypes
<1>2. CASE Check(l)
  BY <1>2, Jumps DEF Check, LauncherTypes
<1>3. CASE CheckPorts(l)
  BY <1>3, Jumps DEF CheckPorts, LauncherTypes
<1>4. CASE Build(l)
  BY <1>4, Jumps DEF Build, LauncherTypes
<1>5. CASE Forward(l)
  BY <1>5, Jumps DEF Forward, LauncherTypes
<1>6. CASE Keep(l)
  BY <1>6, Jumps DEF Keep, LauncherTypes
<1>7. CASE AwaitMinio(l)
  BY <1>7, Jumps DEF AwaitMinio, LauncherTypes
<1>8. CASE RunCore(l)
  BY <1>8, Jumps DEF RunCore, LauncherTypes
<1>9. CASE Mark(l)
  BY <1>9, Jumps DEF Mark, LauncherTypes
<1>10. CASE AwaitCore(l)
  BY <1>10, Jumps DEF AwaitCore, LauncherTypes
<1>11. CASE Probe(l)
  BY <1>11, Jumps DEF Probe, LauncherTypes
<1>12. CASE CloseApp(l)
  BY <1>12, Jumps DEF CloseApp, LauncherTypes
<1>13. CASE Interrupt(l)
  BY <1>13, Jumps DEF Interrupt, Statements
<1>14. CASE StopCore(l)
  BY <1>14, Jumps DEF StopCore, LauncherTypes
<1>15. CASE StopForward(l)
  BY <1>15, Jumps DEF StopForward, LauncherTypes
<1>16. CASE Bind(l)
  BY <1>16 DEF Bind, LauncherTypes
<1>17. QED
  BY <1>1, <1>2, <1>3, <1>4, <1>5, <1>6, <1>7, <1>8, <1>9, <1>10, <1>11, <1>12, <1>13, <1>14, <1>15, <1>16 DEF Script

LEMMA CleanStep == LauncherTypes /\ CleanInv /\ [Next]_vars => CleanInv'
<1> SUFFICES ASSUME LauncherTypes, CleanInv, [Next]_vars PROVE CleanInv'
  OBVIOUS
<1>0. CleanInv <=> \A m \in Launchers : OwnPart(m)
  BY DEF CleanInv, OwnPart
<1> SUFFICES ASSUME NEW m \in Launchers PROVE OwnPart(m)'
  BY DEF CleanInv, OwnPart
<1>1. ASSUME NEW l \in Launchers, Start(l) \/ Script(l) \/ CloseApp(l) \/ Interrupt(l) \/ Bind(l)
      PROVE  OwnPart(m)'
  <2>1. CASE m = l
    BY <1>0, <1>1, <2>1, OwnStep
  <2>2. CASE m # l
    <3>1. OwnPart(m) /\ container' \in {container, l, None} /\ None # m
      BY <1>0, <1>1, <2>2, OthersStay, LauncherAssumption
    <3>2. /\ pc'[m] = pc[m] /\ coreStarted'[m] = coreStarted[m]
          /\ minioProc'[m] = minioProc[m] /\ credentials'[m] = credentials[m]
          /\ forward'[m] = forward[m] /\ interruptedAt'[m] = interruptedAt[m]
      BY <1>1, <2>2, OthersStay
    <3>3. QED
      BY <2>2, <3>1, <3>2 DEF OwnPart, ForwardKept, CoreKept
  <2>3. QED
    BY <2>1, <2>2
<1>2. CASE Crash
  BY <1>0, <1>2, LauncherAssumption
     DEF Crash, OwnPart, ForwardKept, CoreKept, scriptVars, historyVars, LauncherTypes, BeforeForward, Over
<1>3. CASE UNCHANGED vars
  BY <1>0, <1>3 DEF vars, scriptVars, systemVars, historyVars, OwnPart, ForwardKept, CoreKept
<1>4. QED
  BY <1>1, <1>2, <1>3 DEF Next

LEMMA OwnCoreStep == LauncherInv /\ [Next]_vars => OwnCoreInv'
<1> SUFFICES ASSUME LauncherInv, [Next]_vars, crashes' = 0,
                    NEW m \in Launchers
             PROVE  /\ pc'[m] = "marking" \/ (coreStarted'[m] /\ pc'[m] \notin Over) => container' = m
                    /\ stopped'[m] \subseteq {m}
  BY DEF OwnCoreInv
<1> USE DEF LauncherInv
<1>1. ASSUME NEW l \in Launchers, Start(l) \/ Script(l) \/ CloseApp(l) \/ Interrupt(l) \/ Bind(l)
      PROVE  /\ pc'[m] = "marking" \/ (coreStarted'[m] /\ pc'[m] \notin Over) => container' = m
             /\ stopped'[m] \subseteq {m}
  <2> DEFINE Has(n) == pc[n] = "marking" \/ (coreStarted[n] /\ pc[n] \notin Over)
  <2> USE DEF scriptVars, systemVars, historyVars, Over
  <2>0. crashes' = crashes
    BY <1>1 DEF Script, systemVars, Start, Check, CheckPorts, Build, Forward, Keep, AwaitMinio, RunCore,
                Mark, AwaitCore, Probe, CloseApp, Interrupt, StopCore, StopForward, Bind
  <2>1. /\ Has(l) => container = l
        /\ Has(m) => container = m
        /\ stopped[l] \subseteq {l} /\ stopped[m] \subseteq {m}
        /\ pc[l] \in BeforeCore \cup {"marking"} => ~coreStarted[l]
    BY <2>0 DEF OwnCoreInv, CleanInv, CoreKept
  <2>2. CASE StopCore(l)
    <3>1. CASE m = l
      BY <2>1, <2>2, <3>1 DEF StopCore, Goto, LauncherTypes
    <3>2. CASE m # l
      BY <1>1, <2>1, <2>2, <3>2, OthersStay, LauncherAssumption DEF StopCore
    <3>3. QED
      BY <3>1, <3>2
  <2>3. CASE RunCore(l)
    <3>1. pc[l] = "running core" /\ pc'[l] \in {"marking", "stopping core"}
          /\ \A n \in Launchers \ {l} : pc'[n] = pc[n]
      BY <2>3, Stepped, PointNames DEF RunCore
    <3>2. QED
      BY <2>1, <2>3, <3>1, LauncherAssumption DEF RunCore, BeforeCore
  <2>4. CASE ~StopCore(l) /\ ~RunCore(l)
    <3>1. container' = container /\ stopped' = stopped
      BY <1>1, <2>4 DEF Script, Start, Check, CheckPorts, Build, Forward, Keep, AwaitMinio, Mark,
                        AwaitCore, Probe, CloseApp, Interrupt, StopForward, Bind
    <3>2. CASE m # l
      BY <1>1, <2>1, <3>1, <3>2, OthersStay
    <3>3. CASE m = l /\ (Start(l) \/ Check(l) \/ CheckPorts(l) \/ Build(l) \/ Forward(l) \/ Keep(l)
                         \/ AwaitMinio(l))
      <4>1. ~coreStarted[l] /\ coreStarted' = coreStarted /\ pc'[l] # "marking"
        <5>1. pc[l] \in BeforeCore /\ pc'[l] # "marking"
          BY <3>3, Jumps DEF BeforeCore, BeforeForward
        <5>2. coreStarted' = coreStarted
          BY <3>3 DEF Start, Check, CheckPorts, Build, Forward, Keep, AwaitMinio
        <5>3. QED
          BY <2>1, <5>1, <5>2
      <4>2. QED
        BY <2>1, <3>1, <3>3, <4>1
    <3>4. CASE m = l /\ (Mark(l) \/ AwaitCore(l) \/ Probe(l) \/ CloseApp(l) \/ Interrupt(l)
                         \/ StopForward(l) \/ Bind(l))
      <4>1. CASE Mark(l)
        BY <2>1, <3>1, <3>4, <4>1 DEF Mark
      <4>2. CASE AwaitCore(l) \/ Probe(l)
        <5>1. coreStarted' = coreStarted /\ pc'[l] # "marking" /\ pc[l] \notin Over
          BY <4>2, Jumps DEF AwaitCore, Probe
        <5>2. QED
          BY <2>1, <3>1, <3>4, <5>1
      <4>3. CASE CloseApp(l) \/ Interrupt(l)
        <5>1. coreStarted' = coreStarted /\ pc'[l] # "marking" /\ pc[l] \notin Over
          BY <4>3, Moved, PointNames DEF CloseApp, Interrupt, Finally, Statements
        <5>2. QED
          BY <2>1, <3>1, <3>4, <5>1
      <4>4. CASE StopForward(l)
        BY <2>1, <3>1, <3>4, <4>4, Moved, PointNames DEF StopForward
      <4>5. CASE Bind(l)
        BY <2>1, <3>1, <3>4, <4>5 DEF Bind
      <4>6. QED
        BY <3>4, <4>1, <4>2, <4>3, <4>4, <4>5
    <3>5. QED
      BY <1>1, <2>4, <3>2, <3>3, <3>4 DEF Script
  <2>5. QED
    BY <2>2, <2>3, <2>4
<1>2. CASE Crash
  BY <1>2 DEF Crash, LauncherTypes
<1>3. CASE UNCHANGED vars
  BY <1>3 DEF vars, scriptVars, systemVars, historyVars, OwnCoreInv
<1>4. QED
  BY <1>1, <1>2, <1>3 DEF Next

\* The inductive invariant of the sessions: types, what each has started, whose the
\* container is.
THEOREM LauncherInvariance == Spec => []LauncherInv
<1>1. LauncherInv /\ [Next]_vars => LauncherInv'
  BY TypeStep, CleanStep, OwnCoreStep DEF LauncherInv
<1>2. QED
  BY InitLauncher, <1>1, PTL DEF Spec

\* A session that ended has taken down its container, its port-forward and its
\* credentials, however it ended, unless it was interrupted between the start of a
\* process and the assignment of its variable.
THEOREM SessionsEndClean == Spec => []SessionEndsCleanOnceMarked
<1>1. LauncherInv => SessionEndsCleanOnceMarked
  BY DEF LauncherInv, CleanInv, ForwardKept, CoreKept, SessionEndsCleanOnceMarked, Clean, Over
<1>2. QED
  BY LauncherInvariance, <1>1, PTL

\* No session stops another's container, unless something died.
THEOREM StopsOwnCore == Spec => []StopsOwnCoreUnlessItDied
<1>1. LauncherInv => StopsOwnCoreUnlessItDied
  BY DEF LauncherInv, OwnCoreInv, StopsOwnCoreUnlessItDied
<1>2. QED
  BY LauncherInvariance, <1>1, PTL

\* The application runs with the Core of its own session, unless something died.
THEOREM OwnCoreCorrect == Spec => []AppHasOwnCore
<1>1. LauncherInv => AppHasOwnCore
  BY DEF LauncherInv, CleanInv, CoreKept, WithCore, Over, OwnCoreInv, AppHasOwnCore
<1>2. QED
  BY LauncherInvariance, <1>1, PTL
=============================================================================
