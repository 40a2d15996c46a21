---------------------------- MODULE InstallProofs ---------------------------
(***************************************************************************)
(* Theorems about the update of MioProxy itself (AppUpdate), for any       *)
(* number of versions and any faults, and about the installation of its    *)
(* service, which the update's installer carries out (ServiceInstall), for *)
(* any number of releases, attempts and failure actions and any faults.    *)
(*                                                                         *)
(* AppUpdate: the installer takes over when nothing of MioProxy is in use, *)
(* and an update ends in what it began with.  ServiceInstall: the files    *)
(* agree when the service may start and while it replaces its own core, a  *)
(* deletion leaves no TUN behind, and a maintenance that succeeds has done *)
(* what it says.                                                           *)
(***************************************************************************)
EXTENDS AppUpdate, ServiceInstall, TLAPS

Slots == {"front", "boot"}
Tasks == [pc : Points, why : {"none", "prepare", "mark", "complete", "interrupted"},
          rec : Checkpoints \cup {NoCp}, errs : BOOLEAN, quiet : BOOLEAN]

\* What every step keeps, whatever else is under way.
Runtime ==
    /\ svc \in {"absent", "stopped", "running"} /\ core \in {"none", "svc", "gui", "other"}
    /\ tun \in BOOLEAN /\ exits \in BOOLEAN
    /\ core = "svc" => svc = "running"
    /\ tun => Managed

Proxies == reg \in {"orig", "on", "off", "ext"} /\ undo \in Snapshots /\ upd \in Snapshots

Process ==
    /\ app \in {"up", "down", "installing"} /\ version \in Versions
    /\ task \in [Slots -> Tasks]
    /\ app # "up" => task["front"].pc = "idle" /\ task["boot"].pc = "idle"
    /\ app = "installing" => svc # "running" /\ cp \in Checkpoints

Records == cp \in Checkpoints \cup {NoCp} /\ found \in Found \cup {Nothing}

Shape == Runtime /\ Proxies /\ Process /\ Records

\* A checkpoint that says what was found.
Matches(c) ==
    /\ c \in Checkpoints
    /\ c.svc = found.svc
    /\ c.core = (found.core \in {"svc", "gui"})
    /\ found.core = "svc" => found.svc
    /\ found.core = "gui" => ~found.svc
    /\ found.tun => c.tun /\ c.core
    /\ found.proxy => c.proxy /\ c.managed

WasOff == ~found.svc /\ found.core = "none"

\* A runtime that was off stays off; a core of another program stays.
Stays ==
    /\ WasOff => svc # "running" /\ core = "none"
    /\ found.core = "other" => core = "other"

\* From update_prepare to the installer.
Preparation ==
    task["front"].pc \in Preparing \cup {"prepared"} =>
        /\ Matches(cp) /\ Stays /\ core \in {"none", found.core}
        /\ cp.prev = version /\ cp.target # version
        /\ cp.phase = IF task["front"].pc = "prepared" THEN "installing" ELSE "preparing"
        /\ task["front"].pc = "prepared" => Quiet

\* The runtime while no GUI runs: stopped.
Stopped == core = IF found.core = "other" THEN "other" ELSE "none"

Handover ==
    app = "installing" => /\ Matches(cp) /\ Stays /\ Stopped /\ ~exits
                          /\ cp.prev = version /\ cp.target # version

Returned == /\ Matches(cp) /\ Stays /\ Stopped
            /\ cp.target = version => cp.prev # version /\ svc # "absent"

\* What is back once a step of the recovery has succeeded.
Back(withTun) ==
    /\ found.svc => svc = "running"
    /\ found.core # "none" => core = found.core
    /\ withTun /\ found.tun => tun

ProxyBack == found.proxy => reg = "on" /\ undo.to # "none" /\ undo.fresh /\ Managed

\* The recovery of the next GUI.
Recovering ==
    LET b == task["boot"] IN
    b.pc # "idle" =>
        /\ task["front"].pc = "idle" /\ ~exits /\ Stays
        /\ b.pc = "begin" => Returned
        /\ b.pc \notin {"idle", "begin"} /\ WasOff => b.quiet
        /\ b.pc = "autostart" => ~b.quiet
        /\ b.pc \in Restoring => /\ cp # NoCp /\ Matches(b.rec) /\ b.why = "complete"
                                 /\ svc # "absent"
        /\ b.pc \in {"service", "core", "tun"} => ~b.errs
        /\ b.pc \in {"service", "core"} => Stopped
        /\ b.pc = "core" => b.rec.core /\ (found.svc => svc = "running")
        /\ b.pc = "tun" => Back(FALSE)
        /\ b.pc \in {"proxy", "enable", "end"} /\ ~b.errs => Back(TRUE)
        /\ b.pc = "end" /\ ~b.errs => ProxyBack
        /\ b.pc \in {"stale", "autostart"} /\ cp = NoCp => Back(TRUE) /\ ProxyBack

FoundInv ==
    found # Nothing =>
        /\ task["boot"].pc = "idle" /\ app = "up" => Preparation
        /\ Handover
        /\ app = "down" => Returned /\ ~exits
        /\ Recovering

UpdateInv == Shape /\ FoundInv
-----------------------------------------------------------------------------
(* The tasks.                                                              *)

LEMMA IdleIsTask == Idle \in Tasks /\ Idle.pc = "idle"
BY SMT DEF Idle, Tasks, Points

LEMMA GoesTo ==
    ASSUME task \in [Slots -> Tasks], NEW t \in Slots, NEW p \in Points, Goto(t, p)
    PROVE  /\ task' \in [Slots -> Tasks]
           /\ task'[t].pc = p /\ task'[t].why = task[t].why /\ task'[t].rec = task[t].rec
           /\ task'[t].errs = task[t].errs /\ task'[t].quiet = task[t].quiet
           /\ \A u \in Slots \ {t} : task'[u] = task[u]
BY DEF Goto, Slots, Tasks

LEMMA FailsTo ==
    ASSUME task \in [Slots -> Tasks], NEW t \in Slots, NEW p \in Points, Fails(t, p)
    PROVE  /\ task' \in [Slots -> Tasks]
           /\ task'[t].pc = p /\ task'[t].why = task[t].why /\ task'[t].rec = task[t].rec
           /\ task'[t].errs /\ task'[t].quiet = task[t].quiet
           /\ \A u \in Slots \ {t} : task'[u] = task[u]
BY DEF Fails, Slots, Tasks

LEMMA TaskBecomes ==
    ASSUME task \in [Slots -> Tasks], NEW t \in Slots, NEW r \in Tasks,
           task' = [task EXCEPT ![t] = r]
    PROVE  /\ task' \in [Slots -> Tasks] /\ task'[t] = r
           /\ \A u \in Slots \ {t} : task'[u] = task[u]
BY DEF Slots

LEMMA AllIdle ==
    ASSUME task' = [t \in {"front", "boot"} |-> Idle]
    PROVE  /\ task' \in [Slots -> Tasks]
           /\ task'["front"].pc = "idle" /\ task'["boot"].pc = "idle"
BY IdleIsTask DEF Slots
-----------------------------------------------------------------------------
(* The checkpoint.                                                         *)

LEMMA PhaseBecomes ==
    ASSUME NEW c \in Checkpoints, NEW p \in Phases
    PROVE  LET d == [c EXCEPT !.phase = p] IN
           /\ d \in Checkpoints /\ d.phase = p
           /\ d.prev = c.prev /\ d.target = c.target /\ d.svc = c.svc /\ d.core = c.core
           /\ d.tun = c.tun /\ d.proxy = c.proxy /\ d.managed = c.managed
BY DEF Checkpoints

LEMMA NoCpIsNone == NoCp \notin Checkpoints
BY DEF NoCp, Checkpoints, Phases

\* A checkpoint that is marked failed, or is not, says what it said.
LEMMA MarkedSays ==
    ASSUME cp \in Checkpoints, NEW c \in Marked
    PROVE  /\ c \in Checkpoints
           /\ c.prev = cp.prev /\ c.target = cp.target /\ c.svc = cp.svc /\ c.core = cp.core
           /\ c.tun = cp.tun /\ c.proxy = cp.proxy /\ c.managed = cp.managed
<1>1. c \in {cp, [cp EXCEPT !.phase = "failed"]} /\ "failed" \in Phases
  BY NoCpIsNone DEF Marked, Phases
<1>2. LET d == [cp EXCEPT !.phase = "failed"] IN
      /\ d \in Checkpoints /\ d.phase = "failed"
      /\ d.prev = cp.prev /\ d.target = cp.target /\ d.svc = cp.svc /\ d.core = cp.core
      /\ d.tun = cp.tun /\ d.proxy = cp.proxy /\ d.managed = cp.managed
  BY <1>1, PhaseBecomes
<1> QED
  BY <1>1, <1>2

LEMMA MarkKeepsCp ==
    ASSUME cp \in Checkpoints \cup {NoCp}
    PROVE  /\ \A c \in Marked : c \in Checkpoints \cup {NoCp} /\ (cp # NoCp => c # NoCp)
           /\ MarkWritten \/ MarkUnwritten => cp' \in Marked
<1>1. \A c \in Marked : c \in Checkpoints \cup {NoCp} /\ (cp # NoCp => c # NoCp)
  BY MarkedSays, NoCpIsNone DEF Marked
<1>2. MarkWritten \/ MarkUnwritten => cp' \in Marked
  BY DEF MarkWritten, MarkUnwritten, Marked
<1> QED
  BY <1>1, <1>2

LEMMA CapturedIsCp ==
    ASSUME Shape, NEW target \in Versions
    PROVE  Captured(target) \in Checkpoints
BY DEF Captured, Checkpoints, Phases, Shape, Runtime, Proxies, Process, EnabledForUpdate,
   ManagedForUpdate, Owned, Snapshots
-----------------------------------------------------------------------------
(* The system proxy.                                                       *)

LEMMA NoUndoIsSnapshot == NoUndo \in Snapshots /\ NoUndo.to = "none"
BY DEF NoUndo, Snapshots

LEMMA ProxyOperations ==
    ASSUME Proxies
    PROVE  /\ RestoreProxy => Proxies'
           /\ CanEnable /\ EnableProxy => Proxies'
           /\ DisableForUpdate => Proxies'
           /\ RestoreAfterUpdate => Proxies'
           /\ UNCHANGED proxy => Proxies'
<1> USE NoUndoIsSnapshot DEF Proxies, Snapshots
<1>1. RestoreProxy => Proxies'
  BY DEF RestoreProxy
<1>2. CanEnable /\ EnableProxy => Proxies'
  BY DEF CanEnable, EnableProxy
<1>3. DisableForUpdate => Proxies'
  BY DEF DisableForUpdate, proxy
<1>4. RestoreAfterUpdate => Proxies'
  BY DEF RestoreAfterUpdate, Saved, proxy
<1>5. UNCHANGED proxy => Proxies'
  BY DEF proxy
<1> QED
  BY <1>1, <1>2, <1>3, <1>4, <1>5

LEMMA FreshIsSnapshot ==
    ASSUME Proxies, UNCHANGED reg,
           undo' = [undo EXCEPT !.fresh = FALSE], upd' = [upd EXCEPT !.fresh = FALSE]
    PROVE  Proxies'
BY DEF Proxies, Snapshots

LEMMA ProxiesInductive == Shape /\ [Next]_vars => Proxies'
<1> SUFFICES ASSUME Shape, [Next]_vars PROVE Proxies'
  OBVIOUS
<1>0. Proxies
  BY DEF Shape
<1> USE <1>0, ProxyOperations
<1>1. CASE \/ \E target \in Versions : Prepare(target)
           \/ UpdateErrors \/ Install \/ InstallerFails \/ Boot \/ Crash \/ UNCHANGED vars
  BY <1>1 DEF Prepare, UpdateErrors, Install, InstallerFails, Boot, Crash, vars, proxy
<1>2. CASE PrepareStep
  BY <1>2 DEF PrepareStep, PrepareProxy, PrepareTun, PrepareCore, PrepareService,
     PrepareGuiCore, PrepareEnds, PrepareFails
<1>3. CASE RestoreEnds \/ Mark \/ BootBegins \/ BootUnread \/ BootRestored
  BY <1>3 DEF RestoreEnds, Mark, BootBegins, BootUnread, BootRestored
<1>4. ASSUME NEW t \in Slots, Restore(t) PROVE Proxies'
  <2>1. CASE RestoreService(t) \/ RestoreTun(t) \/ RestoreSettings(t)
    BY <2>1 DEF RestoreService, RestoreTun, RestoreSettings
  <2>2. CASE RestoreEnable(t)
    BY <2>2 DEF RestoreEnable
  <2>3. CASE RestoreCore(t)
    BY <2>3, FreshIsSnapshot DEF RestoreCore, CoreBecomes, proxy
  <2> QED
    BY <1>4, <2>1, <2>2, <2>3 DEF Restore
<1>5. CASE BootProxy
  <2>1. CASE undo' = [undo EXCEPT !.fresh = TRUE] /\ UNCHANGED <<reg, upd>>
    BY <2>1 DEF Proxies, Snapshots
  <2> QED
    BY <1>5, <2>1 DEF BootProxy
<1>6. CASE BootCore \/ UserStart
  BY <1>6, FreshIsSnapshot DEF BootCore, UserStart, CoreBecomes, proxy
<1>7. CASE Launch
  BY <1>7 DEF Launch, Refused
<1>8. CASE Poll \/ CoreExited \/ UserProxy \/ UserTun \/ UserStop \/ Quit \/ QuitPrevented
  BY <1>8 DEF Poll, CoreExited, UserProxy, UserTun, UserStop, Quit, QuitPrevented
<1>9. CASE CoreDies
  BY <1>9, FreshIsSnapshot DEF CoreDies, CoreBecomes
<1>10. CASE OtherProgram
  BY <1>10 DEF OtherProgram, Proxies
<1> QED
  BY <1>1, <1>2, <1>3, <1>4, <1>5, <1>6, <1>7, <1>8, <1>9, <1>10
  DEF Next, FrontStep, BootStep, Slots

LEMMA RuntimeInductive == Shape /\ [Next]_vars => Runtime'
<1> SUFFICES ASSUME Shape, [Next]_vars PROVE Runtime'
  OBVIOUS
<1> USE DEF Shape, Runtime, Managed
<1>1. CASE \/ \E target \in Versions : Prepare(target)
           \/ UpdateErrors \/ InstallerFails \/ Boot \/ UserProxy \/ OtherProgram
           \/ UNCHANGED vars
  BY <1>1 DEF Prepare, UpdateErrors, InstallerFails, Boot, UserProxy, OtherProgram, vars,
     runtime
<1>2. CASE PrepareProxy \/ PrepareEnds \/ PrepareFails
  BY <1>2 DEF PrepareProxy, PrepareEnds, PrepareFails, runtime
<1>13. CASE PrepareTun
  <2>1. UNCHANGED <<svc, core, exits>> /\ tun' = (tun /\ svc # "running")
    BY <1>13 DEF PrepareTun
  <2>2. tun' \in BOOLEAN /\ (tun' => tun)
    BY <2>1
  <2> QED
    BY <2>1, <2>2
<1>3. CASE PrepareCore \/ PrepareService \/ PrepareGuiCore
  BY <1>3 DEF PrepareCore, PrepareService, PrepareGuiCore
<1>4. CASE RestoreEnds \/ Mark \/ BootBegins \/ BootUnread \/ BootRestored \/ BootProxy
  BY <1>4 DEF RestoreEnds, Mark, BootBegins, BootUnread, BootRestored, BootProxy, runtime
<1>5. ASSUME NEW t \in Slots, Restore(t) PROVE Runtime'
  <2>1. CASE RestoreService(t)
    BY <2>1 DEF RestoreService
  <2>2. CASE RestoreTun(t)
    BY <2>2 DEF RestoreTun
  <2>3. CASE RestoreSettings(t) \/ RestoreEnable(t)
    BY <2>3 DEF RestoreSettings, RestoreEnable, runtime
  <2>4. CASE RestoreCore(t)
    BY <2>4 DEF RestoreCore, CoreBecomes
  <2> QED
    BY <1>5, <2>1, <2>2, <2>3, <2>4 DEF Restore
<1>6. CASE BootCore \/ UserStart
  BY <1>6 DEF BootCore, UserStart, CoreBecomes
<1>7. CASE Launch \/ Crash
  BY <1>7 DEF Launch, Crash, LeaveSidecar
<1>8. CASE Install
  BY <1>8 DEF Install, Process
<1>9. CASE Poll
  BY <1>9 DEF Poll, runtime
<1>15. CASE CoreExited
  BY <1>15 DEF CoreExited
<1>14. CASE UserTun
  <2>1. UNCHANGED <<svc, core, exits>> /\ tun' = ~tun /\ core \in {"svc", "gui"}
    BY <1>14 DEF UserTun
  <2>2. tun' \in BOOLEAN
    BY <2>1
  <2> QED
    BY <2>1, <2>2
<1>10. CASE UserStop
  BY <1>10 DEF UserStop
<1>11. CASE Quit \/ QuitPrevented
  BY <1>11 DEF Quit, QuitPrevented, ServiceTunAtExit
<1>12. CASE CoreDies
  BY <1>12 DEF CoreDies, CoreBecomes
<1> QED
  BY <1>1, <1>2, <1>3, <1>4, <1>5, <1>6, <1>7, <1>8, <1>9, <1>10, <1>11, <1>12,
     <1>13, <1>14, <1>15
  DEF Next, PrepareStep, FrontStep, BootStep, Slots

LEMMA RecordsInductive == Shape /\ [Next]_vars => Records'
<1> SUFFICES ASSUME Shape, [Next]_vars PROVE Records'
  OBVIOUS
<1>0. Records /\ Process /\ Nothing \in Found \cup {Nothing}
  BY DEF Shape
<1> USE <1>0 DEF Records
<1>1. CASE \E target \in Versions : Prepare(target)
  <2>1. PICK target \in Versions : Prepare(target)
    BY <1>1
  <2>2. cp' \in {cp, Captured(target)}
    BY <2>1 DEF Prepare
  <2>3. found' \in {Nothing, [svc |-> svc = "running", core |-> core, tun |-> tun,
                              proxy |-> reg = "on" /\ undo.to # "none" /\ undo.fresh]}
    BY <2>1 DEF Prepare
  <2>4. [svc |-> svc = "running", core |-> core, tun |-> tun,
         proxy |-> reg = "on" /\ undo.to # "none" /\ undo.fresh] \in Found
    BY DEF Found, Shape, Runtime, Proxies, Snapshots
  <2> QED
    BY <2>2, <2>3, <2>4, CapturedIsCp
<1>2. ASSUME cp' = cp \/ cp' \in Marked, found' \in {found, Nothing} PROVE Records'
  BY <1>2, MarkKeepsCp
<1>3. CASE PrepareStep \/ (\E t \in Slots : Restore(t)) \/ RestoreEnds \/ Mark
  <2>1. cp' = cp \/ cp' \in Marked \/ (cp # NoCp /\ cp' = [cp EXCEPT !.phase = "installing"])
    <3>1. CASE PrepareStep
      BY <3>1 DEF PrepareStep, PrepareProxy, PrepareTun, PrepareCore, PrepareService,
         PrepareGuiCore, PrepareEnds, PrepareFails, PrepareGivesUp
    <3>2. CASE \E t \in Slots : Restore(t)
      BY <3>2 DEF Restore, RestoreService, RestoreCore, RestoreTun, RestoreSettings,
         RestoreEnable
    <3>3. CASE RestoreEnds \/ Mark
      BY <3>3, MarkKeepsCp DEF RestoreEnds, Mark
    <3> QED
      BY <1>3, <3>1, <3>2, <3>3
  <2>2. found' = found
    BY <1>3 DEF PrepareStep, PrepareProxy, PrepareTun, PrepareCore, PrepareService,
       PrepareGuiCore, PrepareEnds, PrepareFails, Restore, RestoreService, RestoreCore,
       RestoreTun, RestoreSettings, RestoreEnable, RestoreEnds, Mark
  <2>3. CASE cp # NoCp /\ cp' = [cp EXCEPT !.phase = "installing"]
    <3>1. cp \in Checkpoints /\ "installing" \in Phases
      BY <2>3 DEF Phases
    <3>2. cp' \in Checkpoints
      BY <2>3, <3>1, PhaseBecomes
    <3> QED
      BY <2>2, <3>2
  <2> QED
    BY <1>2, <2>1, <2>2, <2>3
<1>4. CASE Launch
  <2>1. found' = found
    BY <1>4 DEF Launch
  <2>2. cp' \in Marked \/ (cp.phase = "installing" /\ cp' = [cp EXCEPT !.phase = "restarting"])
    BY <1>4 DEF Launch, Refused
  <2>3. cp.phase = "installing" => cp \in Checkpoints
    BY DEF NoCp
  <2> QED
    BY <1>2, <2>1, <2>2, <2>3, PhaseBecomes DEF Phases
<1>5. CASE Boot
  <2>1. found' = found
    BY <1>5 DEF Boot
  <2>2. cp' \in {cp, [cp EXCEPT !.phase = "completed"], [cp EXCEPT !.phase = "failed"]}
        /\ (cp = NoCp => cp' = cp)
    BY <1>5 DEF Boot, Recovery
  <2> QED
    BY <2>1, <2>2, PhaseBecomes DEF Phases
<1>6. CASE BootRestored
  <2>1. cp' = cp \/ cp' \in Marked \/ cp' = NoCp
    BY <1>6, MarkKeepsCp DEF BootRestored
  <2> QED
    BY <1>6, <1>2, <2>1 DEF BootRestored
<1>7. CASE UpdateErrors \/ Install \/ InstallerFails \/ BootBegins \/ BootUnread \/ BootProxy
           \/ BootCore \/ Poll \/ CoreExited
  BY <1>7, <1>2 DEF UpdateErrors, Install, InstallerFails, BootBegins, BootUnread, BootProxy,
     BootCore, BootEnds, Poll, CoreExited
<1>8. CASE UserProxy \/ UserTun \/ UserStart \/ UserStop \/ Quit \/ QuitPrevented \/ Crash
           \/ CoreDies \/ OtherProgram \/ UNCHANGED vars
  BY <1>8, <1>2 DEF UserProxy, UserTun, UserStart, UserStop, Command, Quit, QuitPrevented,
     Crash, CoreDies, OtherProgram, vars
<1> QED
  BY <1>1, <1>3, <1>4, <1>5, <1>6, <1>7, <1>8 DEF Next, FrontStep, BootStep, Slots

\* While the GUI runs nothing but the tasks' types is at stake.
LEMMA UpKeepsProcess ==
    ASSUME Process, app = "up", UNCHANGED gui, task' \in [Slots -> Tasks]
    PROVE  Process'
BY DEF Process, gui

LEMMA RestoreKeepsTasks ==
    ASSUME Process, NEW t \in Slots, Restore(t)
    PROVE  task' \in [Slots -> Tasks] /\ app = "up" /\ UNCHANGED gui
<1> USE DEF Process, Points, Preparing, Restoring, Up
<1>1. CASE RestoreService(t)
  BY <1>1, GoesTo, FailsTo DEF RestoreService
<1>2. CASE RestoreCore(t)
  BY <1>2, GoesTo, FailsTo DEF RestoreCore
<1>3. CASE RestoreTun(t)
  BY <1>3, GoesTo, FailsTo DEF RestoreTun
<1>4. CASE RestoreSettings(t)
  BY <1>4, GoesTo, FailsTo DEF RestoreSettings
<1>5. CASE RestoreEnable(t)
  BY <1>5, GoesTo, FailsTo DEF RestoreEnable
<1> QED
  BY <1>1, <1>2, <1>3, <1>4, <1>5 DEF Restore

LEMMA TaskFields ==
    ASSUME NEW r \in Tasks, NEW p \in Points, NEW c \in Checkpoints \cup {NoCp}
    PROVE  /\ [r EXCEPT !.pc = p] \in Tasks
           /\ [r EXCEPT !.pc = p, !.rec = c] \in Tasks
           /\ \A w \in {"none", "prepare", "mark", "complete", "interrupted"} :
                 /\ [Idle EXCEPT !.pc = p, !.why = w] \in Tasks
                 /\ [Idle EXCEPT !.pc = p, !.why = w, !.rec = c] \in Tasks
                 /\ \A q \in BOOLEAN :
                      [Idle EXCEPT !.quiet = q, !.rec = c, !.why = w, !.pc = p] \in Tasks
           /\ [Idle EXCEPT !.pc = p, !.quiet = r.quiet] \in Tasks
           /\ [Idle EXCEPT !.pc = p] \in Tasks
BY DEF Tasks, Idle

LEMMA PrepareKeepsTasks ==
    ASSUME Shape, Records', PrepareStep
    PROVE  task' \in [Slots -> Tasks] /\ app = "up" /\ UNCHANGED gui
<1> USE DEF Shape, Process, Points, Preparing, Restoring, Up
<1>1. "front" \in Slots /\ task["front"] \in Tasks
  BY DEF Slots
<1>2. CASE PrepareProxy \/ PrepareTun \/ PrepareCore \/ PrepareService \/ PrepareGuiCore
  BY <1>1, <1>2, GoesTo DEF PrepareProxy, PrepareTun, PrepareCore, PrepareService,
     PrepareGuiCore
<1>3. ASSUME NEW p \in Points, NEW c \in Checkpoints \cup {NoCp},
             task' = [task EXCEPT !["front"].pc = p, !["front"].rec = c]
      PROVE  task' \in [Slots -> Tasks]
  <2>2. [task["front"] EXCEPT !.pc = p, !.rec = c] \in Tasks
    BY <1>1, TaskFields
  <2>3. task' = [task EXCEPT !["front"] = [task["front"] EXCEPT !.pc = p, !.rec = c]]
    BY <1>1, <1>3 DEF Slots
  <2> QED
    BY <1>1, <2>2, <2>3, TaskBecomes
<1>6. ASSUME PrepareGivesUp PROVE task' \in [Slots -> Tasks]
  <2>1. "mark" \in Points /\ "service" \in Points /\ cp' \in Checkpoints \cup {NoCp}
    BY DEF Records
  <2> QED
    BY <1>3, <1>6, <2>1 DEF PrepareGivesUp
<1>4. CASE PrepareEnds
  BY <1>1, <1>4, <1>6, GoesTo DEF PrepareEnds
<1>5. CASE PrepareFails
  BY <1>1, <1>5, <1>6 DEF PrepareFails
<1> QED
  BY <1>2, <1>4, <1>5 DEF PrepareStep

LEMMA ProcessInductive == Shape /\ [Next]_vars => Process'
<1> SUFFICES ASSUME Shape, [Next]_vars PROVE Process'
  OBVIOUS
<1>0. /\ Process /\ Records /\ Records' /\ Runtime /\ "front" \in Slots /\ "boot" \in Slots
      /\ Slots = {"front", "boot"}
  BY RecordsInductive DEF Shape, Slots
<1>t. task \in [Slots -> Tasks] /\ task["front"] \in Tasks /\ task["boot"] \in Tasks
  BY <1>0 DEF Process
<1>1. CASE \E target \in Versions : Prepare(target)
  <2>1. task' \in [Slots -> Tasks]
    <3>1. "mark" \in Points /\ "disable" \in Points
      BY DEF Points, Preparing
    <3>2. \/ task' = [task EXCEPT !["front"].pc = "mark"]
          \/ task' = [task EXCEPT !["front"] = [Idle EXCEPT !.pc = "disable", !.why = "prepare"]]
      BY <1>1 DEF Prepare
    <3>3. CASE task' = [task EXCEPT !["front"].pc = "mark"]
      BY <1>0, <1>t, <3>1, <3>3, GoesTo DEF Goto
    <3>4. [Idle EXCEPT !.pc = "disable", !.why = "prepare"] \in Tasks
      BY <3>1, NoCpIsNone, IdleIsTask, TaskFields
    <3> QED
      BY <1>0, <1>t, <3>2, <3>3, <3>4, TaskBecomes
  <2>2. app = "up" /\ UNCHANGED gui
    BY <1>1 DEF Prepare, Up
  <2> QED
    BY <1>0, <2>1, <2>2, UpKeepsProcess
<1>2. CASE PrepareStep
  BY <1>0, <1>2, PrepareKeepsTasks, UpKeepsProcess
<1>3. ASSUME NEW t \in Slots, Restore(t) PROVE Process'
  BY <1>0, <1>3, RestoreKeepsTasks, UpKeepsProcess
<1>4. CASE RestoreEnds \/ Mark \/ UpdateErrors
  <2>1. app = "up" /\ UNCHANGED gui
    BY <1>4 DEF RestoreEnds, Mark, UpdateErrors, Up
  <2>2. "mark" \in Points /\ "service" \in Points
    BY DEF Points, Restoring
  <2>3. ASSUME NEW r \in Tasks, task' = [task EXCEPT !["front"] = r]
        PROVE  Process'
    BY <1>0, <1>t, <2>1, <2>3, TaskBecomes, UpKeepsProcess
  <2>4. CASE RestoreEnds
    <3>1. (IF task["front"].why = "prepare" THEN [Idle EXCEPT !.pc = "mark"] ELSE Idle)
            \in Tasks
      BY <2>2, <1>t, NoCpIsNone, IdleIsTask, TaskFields
    <3> QED
      BY <2>3, <2>4, <3>1 DEF RestoreEnds
  <2>5. CASE Mark
    <3>1. cp' \in Checkpoints \cup {NoCp}
      BY <1>0 DEF Records
    <3>2. [Idle EXCEPT !.pc = "service", !.why = "mark", !.rec = cp'] \in Tasks
      BY <2>2, <3>1, IdleIsTask, TaskFields
    <3>3. \E r \in Tasks : task' = [task EXCEPT !["front"] = r]
      BY <2>5, <3>2, IdleIsTask DEF Mark, Recovers
    <3> QED
      BY <2>3, <3>3
  <2>6. CASE UpdateErrors
    <3>1. Goto("front", "mark")
      BY <2>6 DEF UpdateErrors
    <3> QED
      BY <1>0, <1>t, <2>1, <2>2, <3>1, GoesTo, UpKeepsProcess
  <2> QED
    BY <1>4, <2>4, <2>5, <2>6
<1>5. CASE Launch
  <2>1. cp.phase = "installing" => cp \in Checkpoints
    BY <1>0 DEF Records, NoCp
  <2>2. task' \in [Slots -> Tasks] /\ task'["front"].pc = "idle" /\ task'["boot"].pc = "idle"
    BY <1>5, AllIdle DEF Launch
  <2>3. CASE app' = "installing"
    <3>1. /\ cp.phase = "installing" /\ Quiet
          /\ cp' = [cp EXCEPT !.phase = "restarting"] /\ "restarting" \in Phases
      BY <1>5, <2>3 DEF Launch, Refused, Phases
    <3>2. cp' \in Checkpoints
      BY <2>1, <3>1, PhaseBecomes
    <3> QED
      BY <1>0, <1>5, <2>2, <2>3, <3>1, <3>2 DEF Launch, Process, Quiet
  <2>4. CASE app' = "down"
    BY <1>0, <1>5, <2>2, <2>4 DEF Launch, Process
  <2> QED
    BY <1>5, <2>3, <2>4 DEF Launch, Refused
<1>6. CASE Install \/ InstallerFails
  BY <1>0, <1>6 DEF Install, InstallerFails, Process, Checkpoints
<1>7. CASE Boot
  <2>1. "begin" \in Points
    BY DEF Points
  <2> QED
    BY <1>0, <1>t, <1>7, <2>1, GoesTo DEF Boot, Process
<1>8. CASE BootBegins
  <2>1. /\ app = "up" /\ UNCHANGED gui
        /\ task' = [task EXCEPT !["boot"] =
             [Idle EXCEPT !.quiet = Suppress,
               !.rec = IF Recovery \in {"complete", "interrupted"} THEN cp ELSE NoCp,
               !.why = IF Recovery \in {"complete", "interrupted"} THEN Recovery ELSE "none",
               !.pc = IF Recovery \in {"complete", "interrupted"} THEN "service" ELSE "stale"]]
    BY <1>8 DEF BootBegins, Up
  <2>2. Suppress \in BOOLEAN /\ "service" \in Points /\ "stale" \in Points
    BY DEF Suppress, Points, Restoring
  <2>3. task' \in [Slots -> Tasks]
    BY <1>0, <1>t, <2>1, <2>2, TaskFields, TaskBecomes DEF Records
  <2> QED
    BY <1>0, <2>1, <2>3, UpKeepsProcess
<1>9. CASE BootRestored
  <2>1. "stale" \in Points /\ app = "up" /\ UNCHANGED gui
    BY <1>9 DEF BootRestored, Points, Up
  <2>2. task' \in [Slots -> Tasks]
    BY <1>0, <1>t, <1>9, <2>1, TaskFields, TaskBecomes DEF BootRestored
  <2> QED
    BY <1>0, <2>1, <2>2, UpKeepsProcess
<1>14. CASE BootUnread
  <2>1. "stale" \in Points /\ app = "up" /\ UNCHANGED gui
    BY <1>14 DEF BootUnread, Points, Up
  <2>2. task' \in [Slots -> Tasks]
    BY <1>0, <1>t, <1>14, <2>1, IdleIsTask, TaskFields, TaskBecomes DEF BootUnread
  <2> QED
    BY <1>0, <2>1, <2>2, UpKeepsProcess
<1>10. CASE BootProxy \/ BootCore
  <2>1. "autostart" \in Points /\ app = "up" /\ UNCHANGED gui
    BY <1>10 DEF BootProxy, BootCore, Points, Up
  <2>2. task' \in [Slots -> Tasks]
    BY <1>0, <1>t, <1>10, <2>1, IdleIsTask, GoesTo, TaskBecomes DEF BootProxy, BootCore,
       BootEnds
  <2> QED
    BY <1>0, <2>1, <2>2, UpKeepsProcess
<1>11. CASE Poll \/ CoreExited \/ UserProxy \/ UserTun \/ UserStart \/ UserStop \/ QuitPrevented
  <2>1. app = "up" /\ UNCHANGED gui /\ task' = task
    BY <1>11 DEF Poll, CoreExited, UserProxy, UserTun, UserStart, UserStop, Command,
       QuitPrevented, gui
  <2> QED
    BY <1>0, <1>t, <2>1, UpKeepsProcess
<1>12. CASE Quit \/ Crash
  BY <1>0, <1>12, AllIdle DEF Quit, Crash, Process
<1>13. CASE CoreDies \/ OtherProgram \/ UNCHANGED vars
  BY <1>0, <1>13 DEF CoreDies, OtherProgram, vars, gui, runtime, Process
<1> QED
  BY <1>1, <1>2, <1>3, <1>4, <1>5, <1>6, <1>7, <1>8, <1>9, <1>10, <1>11, <1>12, <1>13,
     <1>14, <1>0
  DEF Next, FrontStep, BootStep

LEMMA ShapeInit == Init => Shape
<1> SUFFICES ASSUME Init PROVE Shape
  OBVIOUS
<1>1. Runtime /\ Proxies
  BY NoUndoIsSnapshot DEF Init, Runtime, Proxies, Managed
<1>2. Process
  BY IdleIsTask, AppUpdateAssumption DEF Init, Process, Versions, Slots
<1>3. Records
  BY DEF Init, Records
<1> QED
  BY <1>1, <1>2, <1>3 DEF Shape

LEMMA ShapeInductive == Shape /\ [Next]_vars => Shape'
BY RuntimeInductive, ProxiesInductive, ProcessInductive, RecordsInductive DEF Shape

\* What the installer finds when before_updater_exit has let it go.
LEMMA LaunchIsAlone ==
    ASSUME Shape, [Next]_vars, app = "up", app' = "installing"
    PROVE  svc' # "running" /\ ~Managed' /\ ~tun' /\ (reg' = "on" => core' = "other")
<1>1. Launch
  <2>1. CASE PrepareStep \/ Mark \/ RestoreEnds \/ (\E t \in Slots : Restore(t)) \/ UpdateErrors
             \/ \E target \in Versions : Prepare(target)
    BY <2>1 DEF PrepareStep, PrepareProxy, PrepareTun, PrepareCore, PrepareService,
       PrepareGuiCore, PrepareEnds, PrepareFails, Mark, RestoreEnds, Restore,
       RestoreService, RestoreCore, RestoreTun, RestoreSettings, RestoreEnable,
       UpdateErrors, Prepare, gui
  <2>2. CASE BootBegins \/ BootUnread \/ BootRestored \/ BootProxy \/ BootCore \/ Boot
             \/ Install \/ InstallerFails
    BY <2>2 DEF BootBegins, BootUnread, BootRestored, BootProxy, BootCore, Boot, Install,
       InstallerFails, gui
  <2>3. CASE Poll \/ CoreExited \/ UserProxy \/ UserTun \/ UserStart \/ UserStop \/ Quit
             \/ QuitPrevented \/ Crash \/ CoreDies \/ OtherProgram \/ UNCHANGED vars
    BY <2>3 DEF Poll, CoreExited, UserProxy, UserTun, UserStart, UserStop, Command, Quit,
       QuitPrevented, Crash, CoreDies, OtherProgram, vars, gui
  <2> QED
    BY <2>1, <2>2, <2>3 DEF Next, FrontStep, BootStep, Slots
<1>2. /\ Quiet /\ DisableForUpdate /\ LeaveSidecar /\ svc' = svc
  BY <1>1 DEF Launch, Refused
<1>3. svc # "running" /\ core \in {"none", "other"} /\ core' = core /\ ~tun'
  BY <1>2 DEF Quiet, LeaveSidecar, Shape, Runtime
<1>4. reg' = "on" => core = "other"
  BY <1>2, <1>3 DEF DisableForUpdate, EnabledForUpdate, Owned, proxy
<1> QED
  BY <1>2, <1>3, <1>4 DEF Managed

\* The installer takes over only when the service, the core and TUN are off and
\* the settings of Windows lead nowhere but to a core that is left running: not
\* what update_prepare saw, but what before_updater_exit verifies decides.
THEOREM InstallerComesAlone == Spec => InstallerAlone
<1>1. Spec => []Shape
  BY ShapeInit, ShapeInductive, PTL DEF Spec
<1>2. Shape /\ [Next]_vars =>
        [(app = "up" /\ app' = "installing") =>
           svc' # "running" /\ ~Managed' /\ ~tun' /\ (reg' = "on" => core' = "other")]_vars
  BY LaunchIsAlone
<1> QED
  BY <1>1, <1>2, PTL DEF Spec, InstallerAlone
-----------------------------------------------------------------------------
(* What was found, from update_prepare to the end of the next start.       *)

\* A GUI that runs and has no recovery under way needs to keep Preparation only.
LEMMA UpIsPreparation ==
    ASSUME app' = "up", task'["boot"].pc = "idle", found' # Nothing => Preparation'
    PROVE  FoundInv'
BY DEF FoundInv, Handover, Recovering

\* A GUI whose recovery is under way needs to keep Recovering only.
LEMMA UpIsRecovering ==
    ASSUME app' = "up", task'["boot"].pc # "idle", Recovering'
    PROVE  FoundInv'
BY DEF FoundInv, Handover

LEMMA PrepareFinds ==
    ASSUME Shape, Shape', NEW target \in Versions, Prepare(target)
    PROVE  FoundInv'
<1> SUFFICES ASSUME found' # Nothing PROVE FoundInv'
  BY DEF FoundInv
<1>1. /\ app = "up" /\ task["boot"] = Idle /\ ~OwnershipConflict
      /\ ~(core = "gui" /\ svc # "absent")
      /\ cp' = Captured(target)
      /\ task' = [task EXCEPT !["front"] = [Idle EXCEPT !.pc = "disable", !.why = "prepare"]]
      /\ found' = [svc |-> svc = "running", core |-> core, tun |-> tun,
                   proxy |-> reg = "on" /\ undo.to # "none" /\ undo.fresh]
      /\ UNCHANGED <<gui, runtime, proxy>> /\ target \in Upgrades
  BY DEF Prepare, Up
<1>2. task'["boot"].pc = "idle" /\ task'["front"].pc = "disable"
  BY <1>1 DEF Idle, Shape, Process, Slots
<1>3. Matches(cp)'
  <2>1. Captured(target) \in Checkpoints
    BY CapturedIsCp
  <2>2. /\ cp'.svc = (svc = "running")
        /\ cp'.core = (IF svc = "absent" THEN core = "gui" ELSE core = "svc")
        /\ cp'.tun = (tun /\ svc # "stopped")
        /\ cp'.proxy = EnabledForUpdate /\ cp'.managed = ManagedForUpdate
    BY <1>1 DEF Captured
  <2>3. /\ found'.svc = (svc = "running") /\ found'.core = core /\ found'.tun = tun
        /\ found'.proxy = (reg = "on" /\ undo.to # "none" /\ undo.fresh)
    BY <1>1
  <2>4. Runtime
    BY DEF Shape
  <2>5. found'.proxy => cp'.proxy /\ cp'.managed
    BY <2>2, <2>3 DEF EnabledForUpdate, ManagedForUpdate, Owned
  <2>6. /\ cp'.svc = found'.svc
        /\ cp'.core = (found'.core \in {"svc", "gui"})
        /\ found'.core = "svc" => found'.svc
        /\ found'.core = "gui" => ~found'.svc
    <3>1. (IF svc = "absent" THEN core = "gui" ELSE core = "svc") = (core \in {"svc", "gui"})
      BY <1>1, <2>4 DEF Runtime
    <3>2. core = "svc" => svc = "running"
      BY <2>4 DEF Runtime
    <3>3. core = "gui" => svc # "running"
      BY <1>1 DEF OwnershipConflict
    <3> QED
      BY <2>2, <2>3, <3>1, <3>2, <3>3
  <2>7. found'.tun => cp'.tun /\ cp'.core
    BY <1>1, <2>2, <2>3, <2>4, <2>6 DEF Runtime, Managed
  <2> QED
    BY <1>1, <2>1, <2>5, <2>6, <2>7 DEF Matches
<1>4. Stays' /\ core' \in {"none", found'.core}
  BY <1>1 DEF Stays, WasOff, runtime
<1>5. cp'.prev = version' /\ cp'.target # version' /\ cp'.phase = "preparing"
  BY <1>1 DEF Captured, Upgrades, Versions, gui, Shape, Process
<1> QED
  BY <1>1, <1>2, <1>3, <1>4, <1>5, UpIsPreparation DEF Preparation, gui

\* The steps of update_prepare stop things, and never what another program runs.
LEMMA PreparesWhatWasFound ==
    ASSUME Shape, Shape', FoundInv, found # Nothing, task["boot"].pc = "idle",
           PrepareStep
    PROVE  FoundInv'
<1>0. /\ app = "up" /\ UNCHANGED gui /\ found' = found /\ task["front"].pc \in Preparing
      /\ "front" \in Slots /\ "boot" \in Slots /\ task \in [Slots -> Tasks]
  <2>1. app = "up" /\ UNCHANGED gui
    BY PrepareKeepsTasks DEF Shape
  <2>2. found' = found /\ task["front"].pc \in Preparing
    BY DEF PrepareStep, PrepareProxy, PrepareTun, PrepareCore, PrepareService,
       PrepareGuiCore, PrepareEnds, PrepareFails, Preparing, Up
  <2> QED
    BY <2>1, <2>2 DEF Slots, Shape, Process
<1>1. /\ Matches(cp) /\ Stays /\ core \in {"none", found.core}
      /\ cp.prev = version /\ cp.target # version /\ cp.phase = "preparing"
  BY <1>0 DEF FoundInv, Preparation, Preparing
<1>2. task'["boot"] = task["boot"]
  BY <1>0 DEF PrepareStep, PrepareProxy, PrepareTun, PrepareCore, PrepareService,
     PrepareGuiCore, PrepareEnds, PrepareFails, PrepareGivesUp, Goto, Slots
<1>3. CASE /\ cp' = cp /\ core' \in {"none", core} /\ (core' # core => core \in {"svc", "gui"})
           /\ svc' \in {svc, "stopped"} /\ task'["front"].pc \in Preparing
  <2>1. Matches(cp)'
    BY <1>0, <1>1, <1>3 DEF Matches
  <2>2. Stays' /\ core' \in {"none", found'.core}
    BY <1>0, <1>1, <1>3 DEF Stays, WasOff
  <2> QED
    BY <1>0, <1>1, <1>2, <1>3, <2>1, <2>2, UpIsPreparation DEF Preparation, gui, Preparing
<1>4. CASE PrepareProxy \/ PrepareTun
  BY <1>0, <1>3, <1>4, GoesTo DEF PrepareProxy, PrepareTun, Preparing, Points, runtime
<1>5. CASE PrepareCore \/ PrepareService \/ PrepareGuiCore
  BY <1>0, <1>3, <1>5, GoesTo DEF PrepareCore, PrepareService, PrepareGuiCore, Preparing,
     Points
<1>6. CASE task'["front"].pc \notin Preparing \cup {"prepared"}
  BY <1>0, <1>2, <1>6, UpIsPreparation DEF Preparation, gui
<1>7. CASE PrepareFails
  <2>1. task'["front"].pc \in {"mark", "service"}
    BY <1>0, <1>7 DEF PrepareFails, PrepareGivesUp, Tasks, Slots
  <2> QED
    BY <1>6, <2>1 DEF Preparing
<1>8. CASE PrepareEnds
  <2>1. CASE Quiet /\ cp' = [cp EXCEPT !.phase = "installing"] /\ Goto("front", "prepared")
    <3>1. /\ task'["front"].pc = "prepared" /\ UNCHANGED runtime
      BY <1>0, <1>8, <2>1, GoesTo DEF PrepareEnds, Points
    <3>2. /\ Matches(cp)' /\ cp'.prev = version /\ cp'.target # version
          /\ cp'.phase = "installing"
      <4>1. cp \in Checkpoints /\ "installing" \in Phases
        BY <1>1 DEF Matches, Phases
      <4>2. LET d == [cp EXCEPT !.phase = "installing"] IN
            /\ d \in Checkpoints /\ d.phase = "installing"
            /\ d.prev = cp.prev /\ d.target = cp.target /\ d.svc = cp.svc /\ d.core = cp.core
            /\ d.tun = cp.tun /\ d.proxy = cp.proxy /\ d.managed = cp.managed
        BY <4>1, PhaseBecomes
      <4> QED
        BY <1>0, <1>1, <2>1, <4>2 DEF Matches
    <3>3. Stays' /\ core' \in {"none", found'.core} /\ Quiet'
      BY <1>0, <1>1, <2>1, <3>1 DEF Stays, WasOff, Quiet, runtime
    <3> QED
      BY <1>0, <1>2, <3>1, <3>2, <3>3, UpIsPreparation DEF Preparation, gui
  <2>2. CASE PrepareGivesUp
    <3>1. task'["front"].pc \in {"mark", "service"}
      BY <1>0, <2>2 DEF PrepareGivesUp, Tasks, Slots
    <3> QED
      BY <1>6, <3>1 DEF Preparing
  <2> QED
    BY <1>8, <2>1, <2>2 DEF PrepareEnds
<1> QED
  BY <1>4, <1>5, <1>7, <1>8 DEF PrepareStep

\* The other steps of the front end's task, while no recovery runs.
LEMMA FrontKeepsFound ==
    ASSUME Shape, found # Nothing, task["boot"].pc = "idle",
           Restore("front") \/ RestoreEnds \/ Mark \/ UpdateErrors
    PROVE  FoundInv'
<1>0. /\ "front" \in Slots /\ "boot" \in Slots /\ task \in [Slots -> Tasks]
      /\ {"mark", "core", "tun", "proxy", "enable", "end"} \subseteq Points
  BY DEF Slots, Shape, Process, Points, Restoring
<1>1. app' = "up"
  BY DEF Restore, RestoreService, RestoreCore, RestoreTun, RestoreSettings, RestoreEnable,
     RestoreEnds, Mark, UpdateErrors, Up, gui
<1>2. task'["boot"] = task["boot"]
  BY <1>0 DEF Restore, RestoreService, RestoreCore, RestoreTun, RestoreSettings,
     RestoreEnable, RestoreEnds, Mark, Recovers, UpdateErrors, Goto, Fails, Slots
<1>3. task'["front"].pc \in {"idle", "mark", "service", "core", "tun", "proxy", "enable", "end"}
  <2>1. CASE RestoreService("front") \/ RestoreCore("front") \/ RestoreTun("front")
    BY <1>0, <2>1, GoesTo, FailsTo DEF RestoreService, RestoreCore, RestoreTun
  <2>2. CASE RestoreSettings("front") \/ RestoreEnable("front")
    BY <1>0, <2>2, GoesTo, FailsTo DEF RestoreSettings, RestoreEnable
  <2>3. CASE RestoreEnds \/ Mark
    <3>1. \/ task'["front"] = Idle \/ task'["front"] = [Idle EXCEPT !.pc = "mark"]
          \/ task'["front"] = [Idle EXCEPT !.pc = "service", !.why = "mark", !.rec = cp']
      BY <1>0, <2>3 DEF RestoreEnds, Mark, Recovers
    <3> QED
      BY <3>1, IdleIsTask DEF Tasks
  <2>4. CASE UpdateErrors
    BY <1>0, <2>4, GoesTo DEF UpdateErrors
  <2> QED
    BY <2>1, <2>2, <2>3, <2>4 DEF Restore
<1> QED
  BY <1>1, <1>2, <1>3, UpIsPreparation DEF Preparation, Preparing

\* The hand-over: the installer comes with the checkpoint of what was found.
LEMMA LaunchHandsOver ==
    ASSUME Shape, Shape', FoundInv, found # Nothing, Launch
    PROVE  FoundInv'
<1>1. /\ app = "up" /\ task["front"].pc = "prepared" /\ LeaveSidecar
      /\ UNCHANGED <<version, svc, found>> /\ task' = [t \in {"front", "boot"} |-> Idle]
  BY DEF Launch, Up
<1>2. task["boot"].pc = "idle"
  BY <1>1 DEF FoundInv, Recovering
<1>3. /\ Matches(cp) /\ Stays /\ core \in {"none", found.core} /\ Quiet
      /\ cp.prev = version /\ cp.target # version /\ cp.phase = "installing"
  BY <1>1, <1>2 DEF FoundInv, Preparation
<1>4. \/ app' = "installing" /\ cp' = [cp EXCEPT !.phase = "restarting"]
      \/ app' = "down" /\ cp' \in Marked
  BY <1>3 DEF Launch, Refused
<1>5. Matches(cp)' /\ cp'.prev = version' /\ cp'.target # version'
  <2>1. cp \in Checkpoints /\ "restarting" \in Phases
    BY <1>3 DEF Matches, Phases
  <2>2. /\ cp' \in Checkpoints
        /\ cp'.prev = cp.prev /\ cp'.target = cp.target /\ cp'.svc = cp.svc
        /\ cp'.core = cp.core /\ cp'.tun = cp.tun /\ cp'.proxy = cp.proxy
        /\ cp'.managed = cp.managed
    <3>1. CASE cp' \in Marked
      BY <2>1, <3>1, MarkedSays
    <3>2. CASE cp' = [cp EXCEPT !.phase = "restarting"]
      <4>1. LET d == [cp EXCEPT !.phase = "restarting"] IN
            /\ d \in Checkpoints
            /\ d.prev = cp.prev /\ d.target = cp.target /\ d.svc = cp.svc /\ d.core = cp.core
            /\ d.tun = cp.tun /\ d.proxy = cp.proxy /\ d.managed = cp.managed
        BY <2>1, PhaseBecomes
      <4> QED
        BY <3>2, <4>1
    <3> QED
      BY <1>4, <3>1, <3>2
  <2> QED
    BY <1>1, <1>3, <2>2 DEF Matches
<1>6. core' = core /\ core \in {"none", "other"} /\ ~exits'
  BY <1>1, <1>3 DEF LeaveSidecar, Quiet, Shape, Runtime
<1>7. Stays' /\ Stopped'
  BY <1>1, <1>3, <1>6 DEF Stays, WasOff, Stopped
<1>8. task'["boot"].pc = "idle"
  BY <1>1 DEF Idle
<1> QED
  BY <1>4, <1>5, <1>6, <1>7, <1>8 DEF FoundInv, Handover, Returned, Recovering

LEMMA InstallReturns ==
    ASSUME Shape, Shape', FoundInv, found # Nothing, Install \/ InstallerFails
    PROVE  FoundInv'
<1>1. /\ app = "installing" /\ app' = "down" /\ UNCHANGED <<cp, task, core, exits, found>>
  BY DEF Install, InstallerFails, runtime
<1>2. /\ Matches(cp) /\ Stays /\ Stopped /\ ~exits /\ cp.prev = version /\ cp.target # version
  BY <1>1 DEF FoundInv, Handover
<1>3. Matches(cp)' /\ Stopped'
  BY <1>1, <1>2 DEF Matches, Stopped
<1>4. Stays' /\ (cp'.target = version' => cp'.prev # version' /\ svc' # "absent")
  <2>1. CASE Install
    BY <1>1, <1>2, <2>1 DEF Install, Stays, WasOff, Matches
  <2>2. CASE InstallerFails
    BY <1>1, <1>2, <2>2 DEF InstallerFails, Stays, WasOff, runtime
  <2> QED
    BY <2>1, <2>2
<1>5. task'["boot"].pc = "idle"
  BY <1>1 DEF Shape, Process
<1> QED
  BY <1>1, <1>2, <1>3, <1>4, <1>5 DEF FoundInv, Handover, Returned, Recovering

LEMMA BootTakesOver ==
    ASSUME Shape, Shape', FoundInv, found # Nothing, Boot
    PROVE  FoundInv'
<1>1. /\ app = "down" /\ app' = "up" /\ Goto("boot", "begin")
      /\ UNCHANGED <<version, svc, core, exits, found>>
  BY DEF Boot, runtime
<1>2. Returned /\ ~exits /\ task["front"].pc = "idle"
  BY <1>1 DEF FoundInv, Shape, Process
<1>3. /\ "front" \in Slots /\ "boot" \in Slots /\ "begin" \in Points
      /\ task \in [Slots -> Tasks]
  BY DEF Slots, Shape, Process, Points
<1>4. task'["boot"].pc = "begin" /\ task'["front"] = task["front"]
  BY <1>1, <1>3, GoesTo DEF Slots
<1>5. /\ cp' \in Checkpoints
      /\ cp'.prev = cp.prev /\ cp'.target = cp.target /\ cp'.svc = cp.svc /\ cp'.core = cp.core
      /\ cp'.tun = cp.tun /\ cp'.proxy = cp.proxy /\ cp'.managed = cp.managed
  <2>1. cp \in Checkpoints /\ "completed" \in Phases /\ "failed" \in Phases
    BY <1>2 DEF Returned, Matches, Phases
  <2>2. cp' \in {cp, [cp EXCEPT !.phase = "completed"], [cp EXCEPT !.phase = "failed"]}
    BY DEF Boot
  <2>3. LET d == [cp EXCEPT !.phase = "completed"] IN
        /\ d \in Checkpoints
        /\ d.prev = cp.prev /\ d.target = cp.target /\ d.svc = cp.svc /\ d.core = cp.core
        /\ d.tun = cp.tun /\ d.proxy = cp.proxy /\ d.managed = cp.managed
    BY <2>1, PhaseBecomes
  <2>4. LET d == [cp EXCEPT !.phase = "failed"] IN
        /\ d \in Checkpoints
        /\ d.prev = cp.prev /\ d.target = cp.target /\ d.svc = cp.svc /\ d.core = cp.core
        /\ d.tun = cp.tun /\ d.proxy = cp.proxy /\ d.managed = cp.managed
    BY <2>1, PhaseBecomes
  <2> QED
    BY <2>1, <2>2, <2>3, <2>4
<1>6. Returned'
  <2>1. Matches(cp)'
    BY <1>1, <1>2, <1>5 DEF Returned, Matches
  <2> QED
    BY <1>1, <1>2, <1>5, <2>1 DEF Returned, Stays, WasOff, Stopped
<1>7. Stays'
  BY <1>6 DEF Returned
<1>8. Recovering'
  BY <1>1, <1>2, <1>4, <1>6, <1>7 DEF Recovering, Restoring
<1> QED
  BY <1>1, <1>4, <1>8, UpIsRecovering

\* What holds of the recovery while it stands at some point.
LEMMA RecoveryIs ==
    ASSUME FoundInv, found # Nothing, task["boot"].pc # "idle"
    PROVE  task["front"].pc = "idle" /\ ~exits /\ Stays /\ Recovering
BY DEF FoundInv, Recovering

LEMMA BootBeginsRecovery ==
    ASSUME Shape, Shape', FoundInv, found # Nothing, BootBegins
    PROVE  FoundInv'
<1>1. /\ app = "up" /\ app' = "up" /\ task["boot"].pc = "begin"
      /\ UNCHANGED <<version, cp, svc, core, tun, exits, reg, undo, upd, found>>
  BY DEF BootBegins, Up, gui, runtime, proxy
<1>2. task["front"].pc = "idle" /\ ~exits /\ Stays /\ Returned
  BY <1>1, RecoveryIs DEF Recovering
<1>3. cp \in Checkpoints /\ cp # NoCp
  BY <1>2, NoCpIsNone DEF Returned, Matches
<1>4. Stays'
  BY <1>1, <1>2 DEF Stays, WasOff
<1>5. task \in [Slots -> Tasks] /\ "boot" \in Slots /\ "front" \in Slots
  BY DEF Shape, Process, Slots
<1>6. CASE cp.target # version
  <2>1. Recovery = "mismatch"
    BY <1>3, <1>6 DEF Recovery
  <2>2. /\ task'["boot"] = 
             [Idle EXCEPT !.quiet = Suppress, !.rec = NoCp, !.why = "none", !.pc = "stale"]
        /\ task'["front"] = task["front"]
    BY <1>5, <2>1 DEF BootBegins, Slots
  <2>3. task'["boot"].pc = "stale" /\ task'["boot"].quiet = Suppress
    BY <2>2 DEF Idle
  <2>4. WasOff => Suppress
    BY <1>2, <2>1 DEF WasOff, Suppress, Returned, Matches
  <2>5. Recovering'
    BY <1>1, <1>2, <1>3, <1>4, <2>2, <2>3, <2>4 DEF Recovering, Restoring, WasOff
  <2> QED
    BY <1>1, <2>3, <2>5, UpIsRecovering
<1>7. CASE cp.target = version
  <2>1. Recovery = "complete" /\ svc # "absent"
    BY <1>2, <1>3, <1>7 DEF Recovery, Returned
  <2>2. /\ task'["boot"] = 
             [Idle EXCEPT !.quiet = Suppress, !.rec = cp, !.why = "complete", !.pc = "service"]
        /\ task'["front"] = task["front"]
    BY <1>5, <2>1 DEF BootBegins, Slots
  <2>3. /\ task'["boot"].pc = "service" /\ task'["boot"].quiet = Suppress
        /\ task'["boot"].rec = cp /\ task'["boot"].why = "complete" /\ ~task'["boot"].errs
    BY <2>2 DEF Idle
  <2>4. WasOff => Suppress
    BY <1>2, <2>1 DEF WasOff, Suppress, Returned, Matches
  <2>5. Matches(task["boot"].rec)' /\ Stopped'
    BY <1>1, <1>2, <2>3 DEF Returned, Matches, Stopped
  <2>6. Recovering'
    BY <1>1, <1>2, <1>3, <1>4, <2>1, <2>2, <2>3, <2>4, <2>5 DEF Recovering, Restoring,
       WasOff
  <2> QED
    BY <1>1, <2>3, <2>6, UpIsRecovering
<1> QED
  BY <1>6, <1>7

LEMMA RestoringIs ==
    ASSUME Shape, FoundInv, found # Nothing, app = "up", task["boot"].pc \in Restoring
    PROVE  LET b == task["boot"] IN
           /\ task["front"].pc = "idle" /\ ~exits /\ Stays
           /\ b \in Tasks /\ b.quiet \in BOOLEAN /\ (WasOff => b.quiet)
           /\ cp # NoCp /\ Matches(b.rec) /\ b.why = "complete" /\ svc # "absent"
           /\ b.pc \in {"service", "core", "tun"} => ~b.errs
           /\ b.pc \in {"service", "core"} => Stopped
           /\ b.pc = "core" => b.rec.core /\ (found.svc => svc = "running")
           /\ b.pc = "tun" => Back(FALSE)
           /\ b.pc \in {"proxy", "enable", "end"} /\ ~b.errs => Back(TRUE)
           /\ b.pc = "end" /\ ~b.errs => ProxyBack
<1>1. task["boot"].pc \notin {"idle", "begin"}
  BY DEF Restoring
<1>2. task["boot"] \in Tasks
  BY DEF Shape, Process, Slots
<1> QED
  BY <1>1, <1>2 DEF FoundInv, Recovering, Tasks

\* To keep Recovering in a step from one point of restore_previous_state to another.
LEMMA StillRestoring ==
    ASSUME Shape, FoundInv, found # Nothing, app = "up", task["boot"].pc \in Restoring,
           UNCHANGED <<gui, cp, exits, found>>, task'["front"] = task["front"],
           task'["boot"].pc \in Restoring, task'["boot"].why = task["boot"].why,
           task'["boot"].rec = task["boot"].rec, task'["boot"].quiet = task["boot"].quiet,
           svc' # "absent", Stays',
           LET b == task'["boot"] IN
           /\ b.pc \in {"service", "core", "tun"} => ~b.errs
           /\ b.pc \in {"service", "core"} => Stopped'
           /\ b.pc = "core" => b.rec.core /\ (found.svc => svc' = "running")
           /\ b.pc = "tun" => Back(FALSE)'
           /\ b.pc \in {"proxy", "enable", "end"} /\ ~b.errs => Back(TRUE)'
           /\ b.pc = "end" /\ ~b.errs => ProxyBack'
    PROVE  FoundInv'
<1>1. task'["boot"].pc \notin {"idle", "begin", "stale", "autostart"}
  BY DEF Restoring
<1>2. Matches(task["boot"].rec)'
  BY RestoringIs DEF Matches
<1>3. Recovering'
  BY <1>1, <1>2, RestoringIs DEF Recovering, WasOff
<1> QED
  BY <1>1, <1>3, UpIsRecovering DEF gui

LEMMA ServiceIsRestored ==
    ASSUME Shape, Shape', FoundInv, found # Nothing, RestoreService("boot")
    PROVE  FoundInv'
<1>1. /\ app = "up" /\ task["boot"].pc = "service" /\ task["boot"].pc \in Restoring
      /\ UNCHANGED <<gui, cp, core, tun, exits, found>>
      /\ task \in [Slots -> Tasks] /\ "boot" \in Slots /\ Slots = {"front", "boot"}
      /\ {"core", "tun", "proxy"} \subseteq Points /\ {"core", "tun", "proxy"} \subseteq Restoring
  BY DEF RestoreService, Up, Restoring, Shape, Process, Slots, Points
<1>2. /\ ~exits /\ Stays /\ Matches(task["boot"].rec) /\ svc # "absent"
      /\ ~task["boot"].errs /\ Stopped
  BY <1>1, RestoringIs
<1>3. svc' # "absent" /\ Stays' /\ Stopped'
  <2>1. svc' \in {svc, "running"} /\ (~task["boot"].rec.svc => svc' = svc)
    BY <1>2 DEF RestoreService
  <2> QED
    BY <1>1, <1>2, <2>1 DEF Stays, WasOff, Stopped, Matches
<1>4. CASE Fails("boot", "proxy")
  BY <1>1, <1>3, <1>4, FailsTo, StillRestoring
<1>5. CASE /\ task["boot"].rec.svc /\ svc' = "running"
           /\ Goto("boot", IF task["boot"].rec.core THEN "core" ELSE "tun")
  <2>1. ~task["boot"].rec.core => Back(FALSE)'
    BY <1>1, <1>2, <1>5 DEF Back, Matches, Stopped, Shape, Records, Found
  <2>2. found.svc => svc' = "running"
    BY <1>5
  <2>3. CASE task["boot"].rec.core
    BY <1>1, <1>2, <1>3, <1>5, <2>2, <2>3, GoesTo, StillRestoring
  <2>4. CASE ~task["boot"].rec.core
    BY <1>1, <1>2, <1>3, <1>5, <2>1, <2>4, GoesTo, StillRestoring
  <2> QED
    BY <2>3, <2>4
<1>6. CASE /\ ~task["boot"].rec.svc /\ svc' = svc
           /\ Goto("boot", IF task["boot"].rec.core THEN "core" ELSE "proxy")
  <2>1. ~task["boot"].rec.core => Back(TRUE)'
    BY <1>1, <1>2, <1>6 DEF Back, Matches, Stopped, Shape, Records, Found
  <2>2. ~found.svc
    BY <1>2, <1>6 DEF Matches
  <2> QED
    BY <1>1, <1>2, <1>3, <1>6, <2>1, <2>2, GoesTo, StillRestoring
<1> QED
  BY <1>2, <1>4, <1>5, <1>6 DEF RestoreService

LEMMA CoreIsRestored ==
    ASSUME Shape, Shape', FoundInv, found # Nothing, RestoreCore("boot")
    PROVE  FoundInv'
<1>1. /\ app = "up" /\ task["boot"].pc = "core" /\ task["boot"].pc \in Restoring
      /\ UNCHANGED <<gui, cp, svc, tun, exits, found>>
      /\ task \in [Slots -> Tasks] /\ "boot" \in Slots /\ Slots = {"front", "boot"}
      /\ {"tun", "proxy"} \subseteq Points /\ {"tun", "proxy"} \subseteq Restoring
  BY DEF RestoreCore, Up, Restoring, Shape, Process, Slots, Points
<1>2. /\ ~exits /\ Matches(task["boot"].rec) /\ svc # "absent" /\ task["boot"].rec.core
      /\ ~task["boot"].errs /\ Stopped /\ (found.svc => svc = "running")
  BY <1>1, RestoringIs
<1>3. found.core \in {"svc", "gui"} /\ Stays' /\ core = "none"
  BY <1>1, <1>2 DEF Matches, Stays, WasOff, Stopped
<1>4. CASE Fails("boot", "proxy")
  BY <1>1, <1>2, <1>3, <1>4, FailsTo, StillRestoring
<1>5. CASE CoreBecomes(IF task["boot"].rec.svc THEN "svc" ELSE "gui") /\ Goto("boot", "tun")
  <2>1. core' = found.core
    BY <1>2, <1>3, <1>5 DEF CoreBecomes, Matches
  <2>2. Back(FALSE)'
    BY <1>1, <1>2, <2>1 DEF Back
  <2> QED
    BY <1>1, <1>2, <1>3, <1>5, <2>2, GoesTo, StillRestoring
<1> QED
  BY <1>3, <1>4, <1>5 DEF RestoreCore

LEMMA TunIsRestored ==
    ASSUME Shape, Shape', FoundInv, found # Nothing, RestoreTun("boot")
    PROVE  FoundInv'
<1>1. /\ app = "up" /\ task["boot"].pc = "tun" /\ task["boot"].pc \in Restoring
      /\ UNCHANGED <<gui, cp, svc, core, exits, found>>
      /\ task \in [Slots -> Tasks] /\ "boot" \in Slots /\ Slots = {"front", "boot"}
      /\ "proxy" \in Points /\ "proxy" \in Restoring
  BY DEF RestoreTun, Up, Restoring, Shape, Process, Slots, Points
<1>2. Stays /\ Matches(task["boot"].rec) /\ svc # "absent" /\ ~task["boot"].errs /\ Back(FALSE)
  BY <1>1, RestoringIs
<1>3. Stays'
  BY <1>1, <1>2 DEF Stays, WasOff
<1>4. CASE Fails("boot", "proxy")
  BY <1>1, <1>2, <1>3, <1>4, FailsTo, StillRestoring
<1>5. CASE Goto("boot", "proxy") /\ (tun' \/ ~task["boot"].rec.tun)
  <2>1. Back(TRUE)'
    BY <1>1, <1>2, <1>5 DEF Back, Matches
  <2> QED
    BY <1>1, <1>2, <1>3, <1>5, <2>1, GoesTo, StillRestoring
<1> QED
  BY <1>4, <1>5 DEF RestoreTun

LEMMA SettingsAreRestored ==
    ASSUME Shape, Shape', FoundInv, found # Nothing, RestoreSettings("boot")
    PROVE  FoundInv'
<1>1. /\ app = "up" /\ task["boot"].pc = "proxy" /\ task["boot"].pc \in Restoring
      /\ UNCHANGED <<gui, cp, svc, core, tun, exits, found>>
      /\ task \in [Slots -> Tasks] /\ "boot" \in Slots /\ Slots = {"front", "boot"}
      /\ {"enable", "end"} \subseteq Points /\ {"enable", "end"} \subseteq Restoring
  BY DEF RestoreSettings, Up, Restoring, Shape, Process, Slots, Points, runtime
<1>2. /\ Stays /\ Matches(task["boot"].rec) /\ svc # "absent"
      /\ (~task["boot"].errs => Back(TRUE))
  BY <1>1, RestoringIs
<1>3. Stays' /\ (~task["boot"].errs => Back(TRUE)')
  BY <1>1, <1>2 DEF Stays, WasOff, Back
<1>4. CASE Fails("boot", "end")
  BY <1>1, <1>2, <1>3, <1>4, FailsTo, StillRestoring
<1>5. CASE Goto("boot", "enable")
  BY <1>1, <1>2, <1>3, <1>5, GoesTo, StillRestoring
<1>6. CASE /\ Goto("boot", "end")
           /\ task["boot"].errs \/ ~task["boot"].rec.proxy \/ ~task["boot"].rec.managed
  <2>1. ~task["boot"].errs => ProxyBack'
    BY <1>1, <1>2, <1>6 DEF Matches, ProxyBack
  <2> QED
    BY <1>1, <1>2, <1>3, <1>6, <2>1, GoesTo, StillRestoring
<1> QED
  BY <1>4, <1>5, <1>6 DEF RestoreSettings

LEMMA ProxyIsEnabled ==
    ASSUME Shape, Shape', FoundInv, found # Nothing, RestoreEnable("boot")
    PROVE  FoundInv'
<1>1. /\ app = "up" /\ task["boot"].pc = "enable" /\ task["boot"].pc \in Restoring
      /\ UNCHANGED <<gui, cp, svc, core, tun, exits, found>>
      /\ task \in [Slots -> Tasks] /\ "boot" \in Slots /\ Slots = {"front", "boot"}
      /\ "end" \in Points /\ "end" \in Restoring
  BY DEF RestoreEnable, Up, Restoring, Shape, Process, Slots, Points, runtime
<1>2. Stays /\ svc # "absent" /\ (~task["boot"].errs => Back(TRUE))
  BY <1>1, RestoringIs
<1>3. Stays' /\ (~task["boot"].errs => Back(TRUE)')
  BY <1>1, <1>2 DEF Stays, WasOff, Back
<1>4. CASE Fails("boot", "end")
  BY <1>1, <1>2, <1>3, <1>4, FailsTo, StillRestoring
<1>5. CASE CanEnable /\ EnableProxy /\ Goto("boot", "end")
  <2>1. ProxyBack'
    BY <1>1, <1>5 DEF CanEnable, EnableProxy, ProxyBack, Managed, Shape, Proxies
  <2> QED
    BY <1>1, <1>2, <1>3, <1>5, <2>1, GoesTo, StillRestoring
<1> QED
  BY <1>4, <1>5 DEF RestoreEnable

LEMMA RecoveryIsRecorded ==
    ASSUME Shape, Shape', FoundInv, found # Nothing, BootRestored
    PROVE  FoundInv'
<1>1. /\ app = "up" /\ task["boot"].pc = "end" /\ task["boot"].pc \in Restoring
      /\ UNCHANGED <<gui, svc, core, tun, exits, reg, undo, upd, found>>
      /\ task \in [Slots -> Tasks] /\ "boot" \in Slots /\ Slots = {"front", "boot"}
  BY DEF BootRestored, Up, Restoring, Shape, Process, Slots, runtime, proxy
<1>2. /\ task["front"].pc = "idle" /\ ~exits /\ Stays /\ cp # NoCp
      /\ task["boot"].why = "complete" /\ (WasOff => task["boot"].quiet)
      /\ (~task["boot"].errs => Back(TRUE) /\ ProxyBack)
  BY <1>1, RestoringIs
<1>3. /\ task'["boot"].pc = "stale" /\ task'["boot"].quiet = task["boot"].quiet
      /\ task'["front"] = task["front"]
  <2>1. task'["boot"] = [Idle EXCEPT !.pc = "stale", !.quiet = task["boot"].quiet]
    BY <1>1 DEF BootRestored
  <2> QED
    BY <1>1, <2>1 DEF BootRestored, Idle
<1>4. Stays' /\ (~task["boot"].errs => Back(TRUE)' /\ ProxyBack')
  BY <1>1, <1>2 DEF Stays, WasOff, Back, ProxyBack, Managed
<1>5. task["boot"].errs => cp' # NoCp
  BY <1>2, MarkKeepsCp DEF BootRestored, Shape, Records
<1>6. Recovering'
  BY <1>1, <1>2, <1>3, <1>4, <1>5 DEF Recovering, Restoring, WasOff
<1> QED
  BY <1>1, <1>3, <1>6, UpIsRecovering DEF gui

LEMMA StaleIs ==
    ASSUME FoundInv, found # Nothing, app = "up", task["boot"].pc \in {"stale", "autostart"}
    PROVE  /\ task["front"].pc = "idle" /\ ~exits /\ Stays
           /\ WasOff => task["boot"].quiet
           /\ task["boot"].pc = "autostart" => ~task["boot"].quiet
           /\ cp = NoCp => Back(TRUE) /\ ProxyBack
BY DEF FoundInv, Recovering

\* restore_for_lifecycle_inner leaves settings alone which are back.
LEMMA ProxyStaysBack ==
    ASSUME Shape, found # Nothing, ProxyBack, UNCHANGED <<core, found>>, BootProxy
    PROVE  ProxyBack' /\ (found.proxy => reg' = "on" /\ undo'.to # "none")
BY DEF ProxyBack, BootProxy, RestoreProxy, Owned, Managed, proxy, Shape, Proxies,
   Snapshots

LEMMA StaleProxyIsHandled ==
    ASSUME Shape, Shape', FoundInv, found # Nothing, BootProxy
    PROVE  FoundInv'
<1> SUFFICES ASSUME found' # Nothing PROVE FoundInv'
  BY DEF FoundInv
<1>1. /\ app = "up" /\ task["boot"].pc = "stale" /\ ~task["boot"].quiet
      /\ Goto("boot", "autostart") /\ UNCHANGED <<gui, cp, svc, core, tun, exits, found>>
      /\ task \in [Slots -> Tasks] /\ "boot" \in Slots /\ Slots = {"front", "boot"}
      /\ "autostart" \in Points
  BY DEF BootProxy, BootEnds, Up, Shape, Process, Slots, runtime, Points
<1>2. /\ task["front"].pc = "idle" /\ ~exits /\ Stays /\ ~WasOff
      /\ cp = NoCp => Back(TRUE) /\ ProxyBack
  BY <1>1, StaleIs
<1>3. /\ task'["boot"].pc = "autostart" /\ ~task'["boot"].quiet /\ task'["front"] = task["front"]
  BY <1>1, GoesTo
<1>4. Stays' /\ (cp = NoCp => Back(TRUE)' /\ ProxyBack')
  BY <1>1, <1>2, ProxyStaysBack DEF Stays, WasOff, Back
<1>5. Recovering'
  BY <1>1, <1>2, <1>3, <1>4 DEF Recovering, Restoring, WasOff
<1> QED
  BY <1>1, <1>3, <1>5, UpIsRecovering DEF gui

\* The status poll and the handler of an exit do not disturb what is back:
\* the one comes only when no core runs, the other only after one of the GUI's died.
LEMMA PollKeepsFound ==
    ASSUME Shape, Shape', FoundInv, found # Nothing, Poll \/ CoreExited
    PROVE  FoundInv'
<1>1. /\ app = "up" /\ UNCHANGED <<gui, cp, task, svc, core, tun, found>>
      /\ (Poll => UNCHANGED exits /\ core = "none") /\ (CoreExited => exits)
  BY DEF Poll, CoreExited, runtime
<1>2. CASE task["boot"].pc = "idle"
  <2>1. Preparation
    BY <1>1, <1>2 DEF FoundInv
  <2>2. Preparation'
    BY <1>1, <2>1 DEF Preparation, gui, Matches, Stays, WasOff, Quiet
  <2> QED
    BY <1>1, <1>2, <2>2, UpIsPreparation DEF gui
<1>3. CASE task["boot"].pc # "idle"
  <2>1. ~exits /\ Recovering /\ ~CoreExited /\ UNCHANGED exits /\ core = "none"
    BY <1>1, <1>3, RecoveryIs
  <2>2. ProxyBack => ProxyBack'
    BY <1>1, <2>1 DEF ProxyBack, Managed
  <2>3. Recovering'
    BY <1>1, <2>1, <2>2 DEF Recovering, Stays, WasOff, Returned, Matches, Stopped, Back,
       gui
  <2> QED
    BY <1>1, <1>3, <2>3, UpIsRecovering DEF gui
<1> QED
  BY <1>2, <1>3

LEMMA FoundInductive == Shape /\ Shape' /\ FoundInv /\ [Next]_vars => FoundInv'
<1> SUFFICES ASSUME Shape, Shape', FoundInv, [Next]_vars, found' # Nothing PROVE FoundInv'
  BY DEF FoundInv
<1>1. CASE \E target \in Versions : Prepare(target)
  BY <1>1, PrepareFinds
<1>2. CASE found # Nothing
  <2>1. CASE PrepareStep
    <3>1. task["front"].pc \in Preparing
      BY <2>1 DEF PrepareStep, PrepareProxy, PrepareTun, PrepareCore, PrepareService,
         PrepareGuiCore, PrepareEnds, PrepareFails, Preparing, Up
    <3> QED
      BY <1>2, <2>1, <3>1, RecoveryIs, PreparesWhatWasFound DEF Preparing
  <2>2. CASE Restore("front") \/ RestoreEnds \/ Mark \/ UpdateErrors
    <3>1. task["boot"].pc = "idle"
      <4>1. CASE Restore("front") \/ RestoreEnds \/ Mark
        BY <1>2, <4>1, RecoveryIs DEF Restore, RestoreService, RestoreCore, RestoreTun,
           RestoreSettings, RestoreEnable, RestoreEnds, Mark, Up
      <4>2. CASE UpdateErrors
        BY <1>2, <4>2, RecoveryIs DEF UpdateErrors, Up
      <4> QED
        BY <2>2, <4>1, <4>2
    <3> QED
      BY <1>2, <2>2, <3>1, FrontKeepsFound
  <2>3. CASE Launch \/ Install \/ InstallerFails \/ Boot
    BY <1>2, <2>3, LaunchHandsOver, InstallReturns, BootTakesOver
  <2>4. CASE BootBegins \/ BootRestored \/ BootProxy
    BY <1>2, <2>4, BootBeginsRecovery, RecoveryIsRecorded, StaleProxyIsHandled
  <2>5. CASE Restore("boot")
    BY <1>2, <2>5, ServiceIsRestored, CoreIsRestored, TunIsRestored, SettingsAreRestored,
       ProxyIsEnabled DEF Restore
  <2>6. CASE Poll \/ CoreExited
    BY <1>2, <2>6, PollKeepsFound
  <2>7. CASE BootCore \/ UserProxy \/ UserTun \/ UserStart \/ UserStop \/ Quit \/ QuitPrevented
             \/ Crash \/ CoreDies \/ OtherProgram \/ BootUnread
    BY <2>7 DEF BootUnread, BootCore, BootEnds, UserProxy, UserTun, UserStart, UserStop, Command,
       Quit, QuitPrevented, Crash, CoreDies, OtherProgram
  <2>8. CASE UNCHANGED vars
    BY <2>8 DEF vars, FoundInv, Preparation, Handover, Returned, Recovering, Matches,
       Stays, WasOff, Stopped, Back, ProxyBack, Quiet, Managed
  <2> QED
    BY <1>1, <2>1, <2>2, <2>3, <2>4, <2>5, <2>6, <2>7, <2>8 DEF Next, FrontStep, BootStep
<1>3. CASE found = Nothing /\ ~\E target \in Versions : Prepare(target)
  <2>1. found' = found \/ found' = Nothing
    BY <1>3 DEF Next, FrontStep, BootStep, PrepareStep, PrepareProxy, PrepareTun,
       PrepareCore, PrepareService, PrepareGuiCore, PrepareEnds, PrepareFails, Restore,
       RestoreService, RestoreCore, RestoreTun, RestoreSettings, RestoreEnable,
       RestoreEnds, Mark, UpdateErrors, Launch, Install, InstallerFails, Boot, BootBegins,
       BootUnread, BootRestored, BootProxy, BootCore, BootEnds, Poll, CoreExited, UserProxy, UserTun,
       UserStart, UserStop, Command, Quit, QuitPrevented, Crash, CoreDies, OtherProgram,
       vars
  <2> QED
    BY <1>3, <2>1
<1> QED
  BY <1>1, <1>2, <1>3

\* The step that ends a recovery.
LEMMA RecoveryEndsAsFound ==
    ASSUME Shape, FoundInv, [Next]_vars, found # Nothing,
           task["boot"] # Idle, task'["boot"] = Idle, app' = "up"
    PROVE  IF ~found.svc /\ found.core = "none" THEN svc' # "running" /\ core' = "none"
           ELSE cp = NoCp => /\ found.svc => svc' = "running"
                             /\ found.core # "none" => core' = found.core
                             /\ found.tun => tun'
                             /\ found.proxy => reg' = "on" /\ undo'.to # "none"
<1>0. task \in [Slots -> Tasks] /\ Slots = {"front", "boot"}
  BY DEF Shape, Process, Slots
<1>1. BootProxy \/ BootCore
  <2>1. CASE PrepareStep \/ Restore("front") \/ RestoreEnds \/ Mark \/ UpdateErrors
             \/ \E target \in Versions : Prepare(target)
    BY <1>0, <2>1 DEF PrepareStep, PrepareProxy, PrepareTun, PrepareCore, PrepareService,
       PrepareGuiCore, PrepareEnds, PrepareFails, Restore, RestoreService, RestoreCore,
       RestoreTun, RestoreSettings, RestoreEnable, RestoreEnds, Mark, Recovers,
       UpdateErrors, Prepare, PrepareGivesUp, Goto, Fails
  <2>2. CASE Restore("boot")
    <3>1. \E p \in {"core", "tun", "proxy", "enable", "end"} : Goto("boot", p) \/ Fails("boot", p)
      BY <2>2 DEF Restore, RestoreService, RestoreCore, RestoreTun, RestoreSettings,
         RestoreEnable
    <3> QED
      BY <1>0, <3>1, IdleIsTask, GoesTo, FailsTo DEF Points, Restoring
  <2>3. CASE BootBegins
    <3>1. task'["boot"].pc \in {"service", "stale"}
      BY <1>0, <2>3 DEF BootBegins, Idle
    <3> QED
      BY <3>1, IdleIsTask
  <2>4. CASE BootRestored \/ BootUnread
    <3>1. task'["boot"].pc = "stale"
      BY <1>0, <2>4 DEF BootRestored, BootUnread, Idle
    <3> QED
      BY <3>1, IdleIsTask
  <2>5. CASE Boot
    BY <1>0, <2>5, GoesTo, IdleIsTask DEF Boot, Points
  <2>6. CASE Launch \/ Install \/ InstallerFails \/ Quit \/ Crash
    BY <2>6 DEF Launch, Refused, Install, InstallerFails, Quit, Crash
  <2>7. CASE Poll \/ CoreExited \/ UserProxy \/ UserTun \/ UserStart \/ UserStop \/ QuitPrevented
             \/ CoreDies \/ OtherProgram \/ UNCHANGED vars
    BY <2>7 DEF Poll, CoreExited, UserProxy, UserTun, UserStart, UserStop, Command,
       QuitPrevented, CoreDies, OtherProgram, vars
  <2> QED
    BY <2>1, <2>2, <2>3, <2>4, <2>5, <2>6, <2>7 DEF Next, FrontStep, BootStep
<1>2. CASE BootProxy
  <2>1. app = "up" /\ task["boot"].pc = "stale" /\ UNCHANGED <<svc, core, tun>>
    BY <1>2 DEF BootProxy, Up, runtime
  <2>2. Stays /\ (cp = NoCp => Back(TRUE) /\ ProxyBack)
    BY <2>1, StaleIs
  <2>3. ProxyBack /\ found.proxy => reg' = "on" /\ undo'.to # "none"
    BY <1>2 DEF ProxyBack, BootProxy, RestoreProxy, Owned, Managed, proxy, Shape, Proxies,
       Snapshots
  <2> QED
    BY <2>1, <2>2, <2>3 DEF Stays, WasOff, Back
<1>3. CASE BootCore
  <2>1. app = "up" /\ task["boot"].pc = "autostart" /\ UNCHANGED <<svc, tun, reg>>
    BY <1>3 DEF BootCore, Up
  <2>2. ~WasOff /\ (cp = NoCp => Back(TRUE) /\ ProxyBack)
    BY <2>1, StaleIs
  <2>3. (core = "none" \/ core' = core) /\ (core' # core \/ undo'.to # undo.to => core = "none")
        /\ undo'.to = undo.to
    BY <1>3 DEF BootCore, CoreBecomes, Shape, Proxies, Snapshots
  <2> QED
    BY <2>1, <2>2, <2>3 DEF WasOff, Back, ProxyBack
<1> QED
  BY <1>1, <1>2, <1>3

\* When the start after an update is over, a runtime that was off is off, and
\* with the checkpoint cleared the service, the core, TUN and the system proxy
\* that update_prepare found are back, through the installer, a refusal of it or
\* its failure.
THEOREM UpdateEndsAsFound == Spec => AsFound
<1>1. Init => Shape /\ FoundInv
  BY ShapeInit DEF Init, FoundInv
<1>2. Shape /\ FoundInv /\ [Next]_vars => Shape' /\ FoundInv'
  BY ShapeInductive, FoundInductive
<1>3. Spec => [](Shape /\ FoundInv)
  BY <1>1, <1>2, PTL DEF Spec
<1>4. Shape /\ FoundInv /\ [Next]_vars =>
        [(found # Nothing /\ task["boot"] # Idle /\ task'["boot"] = Idle /\ app' = "up") =>
         IF ~found.svc /\ found.core = "none" THEN svc' # "running" /\ core' = "none"
         ELSE cp = NoCp => /\ found.svc => svc' = "running"
                           /\ found.core # "none" => core' = found.core
                           /\ found.tun => tun'
                           /\ found.proxy => reg' = "on" /\ undo'.to # "none"]_vars
  BY RecoveryEndsAsFound
<1> QED
  BY <1>3, <1>4, PTL DEF Spec, AsFound
-----------------------------------------------------------------------------
(* ServiceInstall: its invariant, part by part.                            *)

ScmRecords ==
    [start : {"absent", "auto", "disabled"}, state : {"stopped", "running"},
     exit : {"clean", "aborted", "never"}, queued : BOOLEAN,
     failures : 0..Restarts + 1, actions : BOOLEAN]
Operations ==
    [kind : {"none", "install", "uninstall"}, pc : InstallPoints, helper : BOOLEAN,
     was : BOOLEAN, present : BOOLEAN, noted : BOOLEAN, left : BOOLEAN,
     target : 0..LastRelease]

\* The SCM's record and the process it speaks of.
Hosted ==
    scm \in ScmRecords /\ host \in HostPhases /\ (host = "off" <=> scm.state = "stopped")

\* The flags of the service process.
Flags ==
    /\ asked \in BOOLEAN /\ child \in BOOLEAN /\ adapter \in BOOLEAN
    /\ wanted \in BOOLEAN /\ upset \in BOOLEAN /\ overlaid \in BOOLEAN

\* The executables and the maintenance that replaces them.
Maintained ==
    /\ exe \in 0..LastRelease /\ mihomo \in 0..Newer /\ backup \in 0..Newer
    /\ op \in Operations /\ attempts \in 0..MaxAttempts

LEMMA TypesSplit == InstallTypeOK <=> Hosted /\ Flags /\ Maintained
BY DEF InstallTypeOK, Hosted, Flags, Maintained, ScmRecords, Operations

LEMMA RecordsOfEnds ==
  ASSUME scm \in ScmRecords, NEW code \in {"clean", "aborted"}
  PROVE  /\ Ended(code) \in ScmRecords
         /\ Ended(code).state = "stopped" /\ Ended(code).start = scm.start
         /\ Ended(code).exit = code
<1> DEFINE failed == code = "aborted"
           more == IF failed /\ scm.failures <= Restarts THEN scm.failures + 1 ELSE scm.failures
           again == failed /\ scm.actions /\ scm.failures < Restarts
<1>1. more \in 0..Restarts + 1 /\ again \in BOOLEAN
  BY InstallAssumption DEF ScmRecords
<1>2. Ended(code) = [scm EXCEPT !.state = "stopped", !.exit = code, !.queued = again,
                                !.failures = more]
  BY DEF Ended
<1> HIDE DEF more, again
<1>3. QED
  BY <1>1, <1>2 DEF ScmRecords

LEMMA RecordsOfStarts ==
  ASSUME NEW s \in ScmRecords
  PROVE  /\ Started(s) \in ScmRecords
         /\ Started(s).state = "running" /\ Started(s).start = s.start
         /\ Started(s).exit = s.exit
BY DEF Started, ScmRecords

LEMMA RecordsOfChanges ==
  ASSUME NEW s \in ScmRecords, NEW k \in {"auto", "disabled"}
  PROVE  /\ [s EXCEPT !.start = k] \in ScmRecords
         /\ [s EXCEPT !.queued = FALSE] \in ScmRecords
         /\ [s EXCEPT !.failures = 0] \in ScmRecords
         /\ [s EXCEPT !.actions = TRUE] \in ScmRecords
         /\ [s EXCEPT !.state = "stopped", !.queued = FALSE, !.failures = 0,
                      !.exit = "never"] \in ScmRecords
         /\ Absent \in ScmRecords
<1>1. 0 \in 0..Restarts + 1
  BY InstallAssumption
<1>2. Absent \in ScmRecords
  BY <1>1 DEF ScmRecords, Absent
<1>3. /\ [s EXCEPT !.start = k] \in ScmRecords
      /\ [s EXCEPT !.queued = FALSE] \in ScmRecords
      /\ [s EXCEPT !.failures = 0] \in ScmRecords
      /\ [s EXCEPT !.actions = TRUE] \in ScmRecords
  BY <1>1 DEF ScmRecords
<1>4. [s EXCEPT !.state = "stopped", !.queued = FALSE, !.failures = 0,
                !.exit = "never"] \in ScmRecords
  BY <1>1 DEF ScmRecords
<1>5. QED
  BY <1>2, <1>3, <1>4

-----------------------------------------------------------------------------
(* The inductive invariant.  What can start, can only start as one release,  *)
(* because the start type is Automatic only while the files agree; and the   *)
(* running service leaves them so, at every point of its own core update.    *)

\* The core, or the one set aside for its update, is release r's or a newer one.
Whole(r) ==
    /\ mihomo \in {0, r, Newer} /\ backup \in {0, r, Newer}
    /\ mihomo # 0 \/ backup # 0

Startable ==
    /\ ~overlaid /\ (host # "off" \/ scm.start = "auto") => Whole(exe)
    /\ ~overlaid /\ host = "swapping" => backup # 0
    /\ scm.start = "auto" => exe # 0
    /\ scm.start = "absent" => host = "off"

\* While the files are replaced the service is disabled, and has been seen off.
Disabled ==
    /\ op.pc \in {"stop", "wait", "verify", "delete", "exe", "mihomo", "halt", "settle",
                 "register"} => scm.start # "auto"
    /\ op.pc \in {"verify", "delete", "exe", "mihomo"} => host = "off"
    /\ op.pc \in {"open", "halt"} /\ ~op.helper => host = "off" /\ scm.start # "auto"
    /\ op.pc = "settle" => op.helper
    /\ op.present \/ op.pc = "disable" => scm.start # "absent"

\* How far the release of the maintenance is in place.
Copied ==
    /\ op.pc # "idle" => op.target # 0
    /\ op.pc = "mihomo" => exe = op.target /\ (overlaid \/ backup = 0)
    /\ op.pc \in {"register", "actions", "start"}
         => exe = op.target /\ (overlaid \/ Whole(op.target))
    /\ op.pc \in {"open", "halt"} /\ ~op.helper
         => exe = op.target /\ (overlaid \/ Whole(op.target))
    /\ op.pc \in {"actions", "start"} => scm.start = "auto"
    /\ op.pc = "start" => scm.actions

\* An orderly stop has cleaned TUN up, and nothing happens to it while off.
Clean ==
    /\ host = "drained" => ~adapter
    /\ host = "off" /\ scm.exit = "clean" => ~adapter
    /\ op.pc = "delete" /\ scm.start # "absent" => ~adapter

\* A service that is off was stopped by its user, by something gone wrong, or
\* by the maintenance under way, which then knows that it ran.
Excused == ~wanted \/ upset
Knows   == op.helper \/ ~op.present \/ op.was

Willed ==
    /\ host = "off" => ~asked
    /\ host \in {"draining", "drained", "failed"} => asked
    /\ asked => Excused \/ (op.pc \in {"wait", "settle"} /\ Knows)
    /\ host = "off" /\ scm.start # "absent"
         => Excused \/ (op.pc \notin {"idle", "query", "disable", "stop"} /\ Knows)
    /\ scm.start = "disabled" /\ op.pc = "idle" => Excused
    /\ op.left => host = "off" /\ ~op.was
    /\ op.noted => ~op.helper

Inv == Hosted /\ Flags /\ Maintained /\ Startable /\ Disabled /\ Copied /\ Clean /\ Willed

LEMMA InitialInv == InstallInit => Inv
<1> SUFFICES ASSUME InstallInit PROVE Inv
  OBVIOUS
<1> USE InstallAssumption DEF InstallInit, Absent, NoOp
<1>1. Hosted
  BY DEF Hosted, ScmRecords, HostPhases
<1>2. Flags
  BY DEF Flags
<1>3. 0 \in 0..LastRelease /\ 0 \in 0..MaxAttempts /\ 0 \in 0..Newer
  BY DEF Newer
<1>4. NoOp \in Operations
  BY <1>3 DEF Operations, InstallPoints
<1>5. Maintained
  BY <1>3, <1>4 DEF Maintained
<1>6. Startable /\ Disabled /\ Copied
  BY DEF Startable, Disabled, Copied, Whole
<1>7. Clean /\ Willed
  BY DEF Clean, Willed, Excused
<1>8. QED
  BY <1>1, <1>2, <1>5, <1>6, <1>7 DEF Inv
-----------------------------------------------------------------------------
(* Every part of the invariant survives every step.  The actions come in     *)
(* groups by what they change: the process, its end and its start, the SCM's *)
(* record, the files, and the progress of the maintenance alone.             *)

Progress ==
    \/ MaintenanceBegins \/ StepFails \/ Queries \/ WaitSees \/ Waits \/ WaitTimesOut
    \/ Verifies \/ VerifyFails \/ HelperSettles
Ends    == HostExits \/ ServiceCrashes
Runs    == HostBoots \/ CommandBegins \/ CommandEnds \/ MonitorActs
           \/ SetsCoreAside \/ PutsCoreIn \/ SwapEnds
           \/ ShutdownBegins \/ ShutdownEnds \/ HostHangs \/ HostFails
Asks    == Stops \/ HelperStops \/ UserStops
ScmSteps ==
    FailuresForgotten \/ Disables \/ HelperOpens \/ HelperRegisters \/ HelperConfigures
Copies  == CopiesExe \/ CopiesMihomo
Starts  == QueuedRestart \/ UserStarts \/ HelperStarts

LEMMA Groups ==
  [InstallNext]_installVars =>
               UNCHANGED installVars \/ Progress \/ Ends \/ Runs \/ Asks \/ ScmSteps \/ Copies
                 \/ Starts \/ Deletes \/ WindowsRestarts
BY DEF InstallNext, Service, Maintenance, Progress, Ends, Runs, Asks, ScmSteps, Copies,
   Starts

\* What the steps of the maintenance do to its own record: they move on or end.
Rest == <<op.kind, op.helper, op.was, op.present, op.noted, op.left, op.target>>

Moved(p) == op' \in Operations /\ op'.pc = p /\ Rest' = Rest

\* What a start of the service, and a query during the wait, do to it.
SameBut == op'.pc = op.pc /\ op'.kind = op.kind /\ op'.helper = op.helper
           /\ op'.present = op.present /\ op'.noted = op.noted /\ op'.target = op.target
Forgot  == op' \in Operations /\ SameBut /\ op'.was = op.was /\ ~op'.left
Noticed == op' \in Operations /\ SameBut /\ op'.was /\ op'.left = op.left

Cleared ==
    /\ op' = NoOp /\ op' \in Operations /\ op'.pc = "idle" /\ op'.target = 0
    /\ ~op'.helper /\ ~op'.present /\ ~op'.was /\ ~op'.noted /\ ~op'.left

LEMMA Forgets ==
  ASSUME op \in Operations, op' = [op EXCEPT !.left = FALSE]
  PROVE  Forgot
BY DEF Operations, Forgot, SameBut

LEMMA Notices ==
  ASSUME op \in Operations, op' = [op EXCEPT !.was = TRUE]
  PROVE  Noticed
BY DEF Operations, Noticed, SameBut

LEMMA Moves ==
  ASSUME op \in Operations, NEW p \in InstallPoints, op' = [op EXCEPT !.pc = p]
  PROVE  Moved(p)
BY DEF Operations, Moved, Rest

LEMMA Clears == op' = NoOp => Cleared
<1>1. 0 \in 0..LastRelease
  BY InstallAssumption
<1>2. QED
  BY <1>1 DEF NoOp, Cleared, Operations, InstallPoints

LEMMA ProgressKeeps ==
  Progress =>
    UNCHANGED <<scm, files, host, asked, child, adapter, wanted, overlaid>>
BY DEF Progress, MaintenanceBegins, StepFails, Queries, WaitSees, Waits, WaitTimesOut,
       Verifies, VerifyFails, HelperSettles, GivesUp, service, files, history

LEMMA EndsMean ==
  ASSUME Hosted, Flags, Ends
  PROVE  /\ scm' \in ScmRecords /\ scm'.state = "stopped" /\ scm'.start = scm.start
         /\ host # "off" /\ host' = "off" /\ asked' = FALSE
         /\ \/ scm'.exit = "clean" /\ host = "drained" /\ upset' = upset
            \/ scm'.exit = "aborted" /\ upset' = TRUE
         /\ upset' = upset \/ upset' = TRUE
         /\ UNCHANGED <<files, adapter, op, attempts, wanted, overlaid>>
         /\ child' = FALSE
<1> USE DEF Hosted, Flags, ProcessEnds
<1>1. CASE HostExits
  <2>1. host = "drained" /\ ProcessEnds("clean")
    BY <1>1 DEF HostExits
  <2>2. /\ scm' \in ScmRecords /\ scm'.state = "stopped" /\ scm'.start = scm.start
        /\ scm'.exit = "clean"
    BY <2>1, RecordsOfEnds
  <2>3. upset' = (upset \/ FALSE)
    BY <2>1
  <2>4. QED
    BY <2>1, <2>2, <2>3
<1>2. CASE ServiceCrashes
  BY <1>2, RecordsOfEnds DEF ServiceCrashes
<1>3. QED
  BY <1>1, <1>2 DEF Ends

LEMMA RunsMean ==
  ASSUME Hosted, Runs
  PROVE  /\ host # "off" /\ host' \in HostPhases \ {"off"}
         /\ UNCHANGED <<scm, exe, asked, op, attempts, history>>
         /\ host' \in {"draining", "drained", "failed"}
              => asked \/ host \in {"draining", "drained", "failed"}
         /\ host' = "drained" => ~adapter' \/ (host = "drained" /\ adapter' = adapter)
<1> USE DEF HostPhases, Served, Hangs
<1>1. CASE HostBoots \/ CommandBegins \/ CommandEnds
  BY <1>1 DEF HostBoots, CommandBegins, CommandEnds, files
<1>2. CASE SetsCoreAside \/ PutsCoreIn \/ SwapEnds
  BY <1>2 DEF SetsCoreAside, PutsCoreIn, SwapEnds
<1>3. CASE MonitorActs
  BY <1>3 DEF MonitorActs, files
<1>4. CASE ShutdownBegins \/ ShutdownEnds
  BY <1>4 DEF ShutdownBegins, ShutdownEnds, files
<1>5. CASE HostHangs \/ HostFails
  BY <1>5 DEF HostHangs, HostFails
<1>6. QED
  BY <1>1, <1>2, <1>3, <1>4, <1>5 DEF Runs

\* The running service replaces its own core, and puts a backup back, but always
\* has one of the two; and what it replaces them by is a newer one.
LEMMA RunsKeepWhole ==
  ASSUME Hosted, Maintained, Runs, NEW r, r # 0, Whole(r), host = "swapping" => backup # 0
  PROVE  Whole(r)' /\ (host' = "swapping" => backup' # 0)
<1> USE DEF Whole, Served, Hangs, files
<1>0. Newer # 0
  BY InstallAssumption DEF Newer
<1>1. CASE HostBoots \/ CommandBegins \/ CommandEnds
  BY <1>1 DEF HostBoots, CommandBegins, CommandEnds
<1>2. CASE SetsCoreAside
  BY <1>2 DEF SetsCoreAside
<1>3. CASE PutsCoreIn
  BY <1>0, <1>3 DEF PutsCoreIn
<1>4. CASE SwapEnds
  BY <1>0, <1>4 DEF SwapEnds
<1>5. CASE MonitorActs \/ ShutdownBegins \/ ShutdownEnds \/ HostHangs
  BY <1>5 DEF MonitorActs, ShutdownBegins, ShutdownEnds, HostHangs
<1>6. CASE HostFails
  BY <1>6 DEF HostFails
<1>7. QED
  BY <1>1, <1>2, <1>3, <1>4, <1>5, <1>6 DEF Runs

LEMMA RecordsMean ==
  ASSUME Hosted, op \in Operations, ScmSteps
  PROVE  /\ scm' \in ScmRecords /\ scm'.state = scm.state /\ scm'.exit = scm.exit
         /\ UNCHANGED <<files, service, attempts, history>>
         /\ \/ scm'.start = scm.start /\ scm'.actions = scm.actions /\ op' = op
            \/ /\ op.pc = "disable" /\ Moved("stop")
               /\ scm'.start = "disabled"
            \/ /\ op.pc = "open" /\ Moved("halt")
               /\ scm'.start = IF scm.start = "absent" THEN "absent" ELSE "disabled"
            \/ /\ op.pc = "register" /\ Moved("actions")
               /\ scm'.start = "auto"
            \/ /\ op.pc = "actions" /\ Moved("start")
               /\ scm'.start = scm.start /\ scm'.actions
<1>0. /\ [scm EXCEPT !.failures = 0] \in ScmRecords
      /\ [scm EXCEPT !.actions = TRUE] \in ScmRecords
      /\ \A k \in {"auto", "disabled"} : [scm EXCEPT !.start = k] \in ScmRecords
  BY RecordsOfChanges DEF Hosted
<1>1. CASE FailuresForgotten
  <2>1. scm' = [scm EXCEPT !.failures = 0] /\ op' = op
    BY <1>1 DEF FailuresForgotten
  <2>2. scm'.start = scm.start /\ scm'.actions = scm.actions /\ scm'.state = scm.state
        /\ scm'.exit = scm.exit
    BY <2>1 DEF Hosted, ScmRecords
  <2>3. QED
    BY <1>0, <1>1, <2>1, <2>2 DEF FailuresForgotten
<1>2. CASE Disables
  <2>1. scm' = [scm EXCEPT !.start = "disabled"] /\ op.pc = "disable" /\ Moved("stop")
    BY <1>2, Moves DEF Disables, At, MoveTo, InstallPoints
  <2>2. scm'.start = "disabled" /\ scm'.state = scm.state /\ scm'.exit = scm.exit
    BY <2>1 DEF Hosted, ScmRecords
  <2>3. QED
    BY <1>0, <1>2, <2>1, <2>2 DEF Disables
<1>3. CASE HelperOpens
  <2>1. op.pc = "open" /\ Moved("halt")
    BY <1>3, Moves DEF HelperOpens, At, MoveTo, InstallPoints
  <2>2. CASE scm.start = "absent"
    BY <1>3, <2>1, <2>2 DEF HelperOpens, Hosted
  <2>3. CASE scm.start # "absent"
    <3>1. scm' = [scm EXCEPT !.start = "disabled"]
      BY <1>3, <2>3 DEF HelperOpens
    <3>2. scm'.start = "disabled" /\ scm'.state = scm.state /\ scm'.exit = scm.exit
      BY <3>1 DEF Hosted, ScmRecords
    <3>3. QED
      BY <1>0, <1>3, <2>1, <2>3, <3>1, <3>2 DEF HelperOpens
  <2>4. QED
    BY <2>2, <2>3
<1>4. CASE HelperRegisters
  <2>1. scm' = [scm EXCEPT !.start = "auto"] /\ op.pc = "register" /\ Moved("actions")
    BY <1>4, Moves DEF HelperRegisters, At, MoveTo, InstallPoints
  <2>2. scm'.start = "auto" /\ scm'.state = scm.state /\ scm'.exit = scm.exit
    BY <2>1 DEF Hosted, ScmRecords
  <2>3. QED
    BY <1>0, <1>4, <2>1, <2>2 DEF HelperRegisters
<1>5. CASE HelperConfigures
  <2>1. scm' = [scm EXCEPT !.actions = TRUE] /\ op.pc = "actions" /\ Moved("start")
    BY <1>5, Moves DEF HelperConfigures, At, MoveTo, InstallPoints
  <2>2. scm'.start = scm.start /\ scm'.actions /\ scm'.state = scm.state
        /\ scm'.exit = scm.exit
    BY <2>1 DEF Hosted, ScmRecords
  <2>3. QED
    BY <1>0, <1>5, <2>1, <2>2 DEF HelperConfigures
<1>6. QED
  BY <1>1, <1>2, <1>3, <1>4, <1>5 DEF ScmSteps

LEMMA StartsMean ==
  ASSUME Hosted, op \in Operations, Starts
  PROVE  /\ scm' \in ScmRecords /\ scm'.start = scm.start /\ scm'.exit = scm.exit
         /\ scm'.actions = scm.actions
         /\ UNCHANGED <<files, adapter, child, attempts, overlaid>>
         /\ \/ /\ scm'.state = "running" /\ host = "off" /\ host' = "boot" /\ asked' = FALSE
               /\ scm.start = "auto"
               /\ Forgot \/ Cleared
            \/ scm'.state = scm.state /\ UNCHANGED <<host, asked>> /\ (op' = op \/ Cleared)
<1> USE Clears, Forgets
<1> USE DEF Hosted, Launches, CanStart, service, history
<1>0. /\ Started(scm) \in ScmRecords /\ Started(scm).state = "running"
      /\ Started(scm).start = scm.start /\ Started(scm).exit = scm.exit
      /\ Started(scm).actions = scm.actions
  BY RecordsOfStarts DEF Started, ScmRecords
<1>1. CASE QueuedRestart
  <2>1. CASE CanStart
    BY <1>0, <1>1, <2>1 DEF QueuedRestart
  <2>2. CASE ~CanStart
    <3>1. scm' = [scm EXCEPT !.queued = FALSE] /\ UNCHANGED <<service, op>>
      BY <1>1, <2>2 DEF QueuedRestart
    <3>2. scm' \in ScmRecords /\ scm'.start = scm.start /\ scm'.exit = scm.exit
          /\ scm'.actions = scm.actions /\ scm'.state = scm.state
      BY <3>1 DEF ScmRecords
    <3>3. QED
      BY <1>1, <3>1, <3>2 DEF QueuedRestart
  <2>3. QED
    BY <2>1, <2>2
<1>2. CASE UserStarts
  BY <1>0, <1>2 DEF UserStarts
<1>3. CASE HelperStarts
  <2>1. CASE CanStart /\ ~PreserveStopped
    BY <1>0, <1>3, <2>1 DEF HelperStarts
  <2>2. CASE ~(CanStart /\ ~PreserveStopped)
    BY <1>3, <2>2 DEF HelperStarts
  <2>3. QED
    BY <2>1, <2>2
<1>4. QED
  BY <1>1, <1>2, <1>3 DEF Starts

LEMMA RestartMeans ==
  ASSUME Hosted, WindowsRestarts
  PROVE  /\ scm' \in ScmRecords /\ scm'.start = scm.start /\ scm'.exit = "never"
         /\ scm'.state = IF scm.start = "auto" /\ exe # 0 THEN "running" ELSE "stopped"
         /\ host' = IF scm.start = "auto" /\ exe # 0 THEN "boot" ELSE "off"
         /\ Cleared /\ ~adapter' /\ asked' = FALSE /\ child' = FALSE
         /\ upset' = (upset \/ op # NoOp)
         /\ UNCHANGED <<files, attempts, wanted, overlaid>>
<1> DEFINE s == [scm EXCEPT !.state = "stopped", !.queued = FALSE, !.failures = 0,
                            !.exit = "never"]
<1>0. s.start = scm.start /\ s.state = "stopped" /\ s.exit = "never"
  BY DEF Hosted, ScmRecords
<1>1. s \in ScmRecords /\ s.start = scm.start /\ s.state = "stopped" /\ s.exit = "never"
  BY <1>0, RecordsOfChanges DEF Hosted
<1>2. /\ Started(s) \in ScmRecords /\ Started(s).state = "running"
      /\ Started(s).start = scm.start /\ Started(s).exit = "never"
  BY <1>1, RecordsOfStarts
<1>3. QED
  BY <1>1, <1>2, Clears DEF WindowsRestarts

LEMMA DeletesMean ==
  ASSUME Inv, Deletes
  PROVE  /\ scm' \in ScmRecords /\ scm'.start = "absent" /\ scm'.state = "stopped"
         /\ scm'.exit = "never" /\ Cleared /\ op.pc = "delete"
         /\ host = "off" /\ host' = "off" /\ wanted' /\ ~upset'
         /\ exe' \in {exe, 0} /\ mihomo' \in {mihomo, 0}
         /\ UNCHANGED <<backup, asked, child, adapter, attempts, overlaid>>
<1>1. host = "off" /\ op.pc = "delete"
  BY DEF Deletes, At, Inv, Disabled
<1>2. Absent \in ScmRecords /\ Absent.start = "absent" /\ Absent.state = "stopped"
      /\ Absent.exit = "never"
  BY RecordsOfChanges DEF Inv, Hosted, Absent
<1>3. QED
  BY <1>1, <1>2, Clears DEF Deletes, service

\* What the other steps of the maintenance leave and change.
LEMMA CopiesMean ==
  ASSUME op \in Operations, Copies
  PROVE  /\ UNCHANGED <<scm, host, asked, child, adapter, attempts, wanted, upset, backup>>
         /\ \/ /\ op.pc = "exe" /\ Moved("mihomo")
               /\ exe' = op.target /\ mihomo' = mihomo /\ overlaid' = (overlaid \/ backup # 0)
            \/ /\ op.pc = "mihomo" /\ mihomo' = op.target /\ exe' = exe /\ overlaid' = overlaid
               /\ (Moved("register") /\ op.helper) \/ (Moved("open") /\ ~op.helper)
<1> USE Moves DEF At, MoveTo, service, history, InstallPoints
<1>1. CASE CopiesExe
  BY <1>1 DEF CopiesExe
<1>2. CASE CopiesMihomo
  <2>1. CASE op.helper
    <3>1. op' = [op EXCEPT !.pc = "register"]
      BY <1>2, <2>1 DEF CopiesMihomo
    <3>2. QED
      BY <1>2, <2>1, <3>1 DEF CopiesMihomo
  <2>2. CASE ~op.helper
    BY <1>2, <2>2 DEF CopiesMihomo
  <2>3. QED
    BY <2>1, <2>2
<1>3. QED
  BY <1>1, <1>2 DEF Copies

LEMMA AsksMean ==
  ASSUME op \in Operations, Asks
  PROVE  /\ UNCHANGED <<scm, files, host, child, adapter, attempts, overlaid>>
         /\ \/ host # "off" /\ asked' = TRUE /\ wanted' = FALSE /\ UNCHANGED <<op, upset>>
            \/ op.pc = "stop" /\ Cleared /\ upset' = TRUE /\ UNCHANGED <<asked, wanted>>
            \/ /\ op.pc = "stop" /\ Moved("wait") /\ UNCHANGED <<wanted, upset>>
               /\ asked' = asked \/ (asked' = (host # "off") /\ (op.helper \/ op.was))
            \/ /\ op.pc = "halt" /\ asked' = (host # "off") /\ UNCHANGED <<wanted, upset>>
               /\ \/ host # "off" /\ Moved("settle")
                  \/ host = "off" /\ op.helper /\ Moved("exe")
                  \/ host = "off" /\ ~op.helper /\ Moved("register")
<1> USE Moves DEF At, MoveTo, history, InstallPoints
<1>1. CASE Stops
  <2>1. CASE op.helper
    BY <1>1, <2>1 DEF Stops
  <2>2. CASE ~op.helper
    BY <1>1, <2>2, Clears DEF Stops
  <2>3. QED
    BY <2>1, <2>2
<1>2. CASE HelperStops
  <2>1. CASE host # "off"
    BY <1>2, <2>1 DEF HelperStops
  <2>2. CASE host = "off" /\ op.helper
    BY <1>2, <2>2 DEF HelperStops, AfterHalt
  <2>3. CASE host = "off" /\ ~op.helper
    BY <1>2, <2>3 DEF HelperStops, AfterHalt
  <2>4. QED
    BY <2>1, <2>2, <2>3
<1>3. CASE UserStops
  BY <1>3 DEF UserStops
<1>4. QED
  BY <1>1, <1>2, <1>3 DEF Asks

\* A maintenance has begun, and has looked at nothing yet.
Begun ==
    /\ op = NoOp /\ op' \in Operations /\ op'.target # 0
    /\ op'.pc = "query" \/ (op'.pc = "open" /\ op'.helper)
    /\ ~op'.present /\ ~op'.was /\ ~op'.left /\ (op'.noted => ~op'.helper)

Seen ==
    /\ op.pc = "query" /\ op' \in Operations
    /\ op'.helper = op.helper /\ op'.noted = op.noted /\ op'.target = op.target
    /\ op'.present = (scm.start # "absent") /\ op'.was = (scm.state = "running")
    /\ op'.left = (~wanted /\ host = "off")
    /\ op'.pc \in IF scm.start # "absent" THEN {"disable"} ELSE {"exe", "delete"}

LEMMA ProgressMeans ==
  ASSUME op \in Operations, scm \in ScmRecords, Progress
  PROVE  \/ Begun /\ UNCHANGED <<wanted, upset>>
         \/ Cleared /\ upset' = TRUE
         \/ Seen /\ UNCHANGED <<wanted, upset>>
         \/ /\ op.pc = "wait" /\ scm.state = "running" /\ UNCHANGED <<wanted, upset>>
            /\ Noticed
         \/ /\ op.pc = "wait" /\ scm.state = "stopped" /\ UNCHANGED <<wanted, upset>>
            /\ Moved("verify")
         \/ /\ op.pc = "verify" /\ VerifiedStop /\ UNCHANGED <<wanted, upset>>
            /\ Moved("exe") \/ Moved("delete")
         \/ /\ op.pc = "settle" /\ scm.state = "stopped" /\ UNCHANGED <<wanted, upset>>
            /\ (Moved("exe") /\ op.helper) \/ (Moved("register") /\ ~op.helper)
<1> USE DEF At, MoveTo, history, InstallPoints
<1>1. CASE MaintenanceBegins
  <2>1. PICK kind \in {"install", "uninstall"}, helper \in BOOLEAN, noted \in BOOLEAN,
             r \in 1..LastRelease :
          /\ noted => ~helper
          /\ op' = [NoOp EXCEPT !.kind = kind, !.helper = helper, !.noted = noted,
                      !.target = r,
                      !.pc = IF kind = "install" /\ helper THEN "open" ELSE "query"]
    BY <1>1 DEF MaintenanceBegins
  <2>2. r \in 0..LastRelease /\ r # 0
    BY InstallAssumption
  <2>3. op' \in Operations
    <3>1. PICK p \in {"open", "query"} :
            op' = [kind |-> kind, pc |-> p, helper |-> helper, was |-> FALSE,
                   present |-> FALSE, noted |-> noted, left |-> FALSE, target |-> r]
      BY <2>1 DEF NoOp
    <3>2. QED
      BY <2>2, <3>1 DEF Operations
  <2>5. op'.target # 0 /\ ~op'.present /\ ~op'.was /\ ~op'.left
        /\ op'.helper = helper /\ op'.noted = noted
        /\ op'.pc = IF kind = "install" /\ helper THEN "open" ELSE "query"
    BY <2>1, <2>2 DEF NoOp
  <2>4. QED
    BY <1>1, <2>1, <2>3, <2>5 DEF MaintenanceBegins, Begun
<1>2. CASE StepFails \/ WaitTimesOut \/ VerifyFails
  BY <1>2, Clears DEF StepFails, WaitTimesOut, VerifyFails, GivesUp
<1>3. CASE Queries
  <2>3. op.pc = "query" /\ op' \in Operations
    <3>1. op.pc = "query" /\ UNCHANGED <<wanted, upset>>
      BY <1>3 DEF Queries
    <3>2. PICK present \in BOOLEAN, was \in BOOLEAN, left \in BOOLEAN,
               p \in {"disable", "exe", "delete"} :
            op' = [op EXCEPT !.present = present, !.was = was, !.left = left, !.pc = p]
      BY <1>3 DEF Queries
    <3>3. QED
      BY <3>1, <3>2 DEF Operations
  <2>4. /\ op'.helper = op.helper /\ op'.noted = op.noted /\ op'.target = op.target
        /\ op'.present = (scm.start # "absent") /\ op'.was = (scm.state = "running")
        /\ op'.left = (~wanted /\ host = "off")
    BY <1>3 DEF Queries, Operations
  <2>5. op'.pc \in IF scm.start # "absent" THEN {"disable"} ELSE {"exe", "delete"}
    BY <1>3 DEF Queries, Operations
  <2>1. Seen
    BY <2>3, <2>4, <2>5 DEF Seen
  <2>2. QED
    BY <1>3, <2>1 DEF Queries
<1>4. CASE Waits
  BY <1>4, Moves DEF Waits
<1>5. CASE Verifies
  <2>1. CASE op.kind = "install"
    BY <1>5, <2>1, Moves DEF Verifies
  <2>2. CASE op.kind # "install"
    BY <1>5, <2>2, Moves DEF Verifies
  <2>3. QED
    BY <2>1, <2>2
<1>6. CASE HelperSettles
  <2>1. CASE op.helper
    <3>1. op' = [op EXCEPT !.pc = "exe"]
      BY <1>6, <2>1 DEF HelperSettles, AfterHalt
    <3>2. QED
      BY <1>6, <2>1, <3>1, Moves DEF HelperSettles
  <2>2. CASE ~op.helper
    BY <1>6, <2>2, Moves DEF HelperSettles, AfterHalt
  <2>3. QED
    BY <2>1, <2>2
<1>7. CASE WaitSees
  BY <1>7, Notices DEF WaitSees
<1>8. QED
  BY <1>1, <1>2, <1>3, <1>4, <1>5, <1>6, <1>7 DEF Progress

-----------------------------------------------------------------------------
LEMMA HostedKept ==
  ASSUME Inv, [InstallNext]_installVars
  PROVE  Hosted'
<1> USE DEF Hosted
<1>1. Hosted
  BY DEF Inv
<1>2. CASE UNCHANGED installVars \/ Progress
  BY <1>1, <1>2, ProgressKeeps DEF installVars, service
<1>3. CASE Ends
  BY <1>1, <1>3, EndsMean DEF HostPhases, Inv
<1>4. CASE Runs
  BY <1>1, <1>4, RunsMean
<1>5. CASE Asks \/ Copies
  BY <1>1, <1>5, AsksMean, CopiesMean DEF Inv, Maintained
<1>6. CASE ScmSteps
  BY <1>1, <1>6, RecordsMean DEF Inv, Maintained, service
<1>7. CASE Starts
  BY <1>1, <1>7, StartsMean DEF HostPhases, Inv, Maintained
<1>8. CASE Deletes
  BY <1>8, DeletesMean DEF HostPhases
<1>9. CASE WindowsRestarts
  BY <1>1, <1>9, RestartMeans DEF HostPhases
<1>10. QED
  BY <1>2, <1>3, <1>4, <1>5, <1>6, <1>7, <1>8, <1>9, Groups

LEMMA StartableKept ==
  ASSUME Inv, [InstallNext]_installVars
  PROVE  Startable'
<1> USE DEF Startable, files
<1>1. Hosted /\ Startable /\ Disabled /\ Copied /\ Flags /\ Maintained
  BY DEF Inv
<1>2. CASE UNCHANGED installVars \/ Progress
  BY <1>1, <1>2, ProgressKeeps DEF installVars, service, history, Whole
<1>3. CASE Ends
  BY <1>1, <1>3, EndsMean DEF Whole
<1>4. CASE Runs
  <2>1. host # "off" /\ host' # "off" /\ UNCHANGED <<scm, exe, overlaid>>
    BY <1>1, <1>4, RunsMean DEF history
  <2>2. ASSUME ~overlaid
        PROVE  Whole(exe)' /\ (host' = "swapping" => backup' # 0)
    <3>1. Whole(exe) /\ (host = "swapping" => backup # 0)
      BY <1>1, <2>1, <2>2
    <3>2. QED
      BY <1>1, <1>4, <2>1, <3>1, RunsKeepWhole DEF Whole
  <2>3. QED
    BY <1>1, <2>1, <2>2
<1>5. CASE Asks
  BY <1>1, <1>5, AsksMean DEF Maintained, Whole
<1>6. CASE Copies
  <2>1. host' = "off" /\ scm' = scm /\ scm.start # "auto"
    BY <1>1, <1>6, CopiesMean DEF Disabled, Maintained
  <2>2. QED
    BY <1>1, <2>1
<1>7. CASE ScmSteps
  <2>1. UNCHANGED <<files, host, overlaid>>
    BY <1>1, <1>7, RecordsMean DEF Maintained, service, history
  <2>2. scm'.start \in {scm.start, "disabled"}
          \/ (op.pc = "register" /\ scm'.start = "auto")
          \/ (scm'.start = "absent" /\ scm.start = "absent")
    BY <1>1, <1>7, RecordsMean DEF Maintained
  <2>3. QED
    BY <1>1, <2>1, <2>2 DEF Copied, Whole
<1>8. CASE Starts
  BY <1>1, <1>8, StartsMean DEF Maintained, Whole
<1>9. CASE Deletes
  BY <1>9, DeletesMean
<1>10. CASE WindowsRestarts
  BY <1>1, <1>10, RestartMeans DEF Whole
<1>11. QED
  BY <1>2, <1>3, <1>4, <1>5, <1>6, <1>7, <1>8, <1>9, <1>10, Groups

LEMMA DisabledKept ==
  ASSUME Inv, [InstallNext]_installVars
  PROVE  Disabled'
<1> USE DEF Disabled
<1>1. Hosted /\ Startable /\ Disabled /\ Copied /\ Maintained
  BY DEF Inv
<1>2. CASE UNCHANGED installVars
  BY <1>1, <1>2 DEF installVars, service
<1>3. CASE Progress
  BY <1>1, <1>3, ProgressKeeps, ProgressMeans
  DEF Hosted, Startable, Maintained, Moved, Rest, Cleared, Begun, Seen, Noticed, SameBut
<1>4. CASE Ends
  BY <1>1, <1>4, EndsMean DEF Inv
<1>5. CASE Runs
  BY <1>1, <1>5, RunsMean
<1>6. CASE Asks
  BY <1>1, <1>6, AsksMean DEF Maintained, Moved, Rest, Cleared
<1>7. CASE Copies
  BY <1>1, <1>7, CopiesMean DEF Maintained, Moved, Rest
<1>8. CASE ScmSteps
  BY <1>1, <1>8, RecordsMean DEF Maintained, Moved, Rest, service
<1>9. CASE Starts
  BY <1>1, <1>9, StartsMean DEF Maintained, Cleared, Forgot, SameBut
<1>10. CASE Deletes
  BY <1>10, DeletesMean DEF Cleared
<1>11. CASE WindowsRestarts
  BY <1>1, <1>11, RestartMeans DEF Cleared
<1>12. QED
  BY <1>2, <1>3, <1>4, <1>5, <1>6, <1>7, <1>8, <1>9, <1>10, <1>11, Groups

LEMMA CopiedKept ==
  ASSUME Inv, [InstallNext]_installVars
  PROVE  Copied'
<1> USE DEF Copied, files
<1>1. Hosted /\ Startable /\ Disabled /\ Copied /\ Maintained
  BY DEF Inv
<1>2. CASE UNCHANGED installVars
  BY <1>1, <1>2 DEF installVars, history, Whole
<1>3. CASE Progress
  <2> USE ProgressKeeps DEF Whole
  <2>1. CASE Begun
    BY <1>1, <1>3, <2>1 DEF Begun
  <2>2. CASE Cleared
    BY <1>1, <1>3, <2>2 DEF Cleared
  <2>3. CASE Seen
    BY <1>1, <1>3, <2>3 DEF Seen
  <2>4. CASE op.pc = "wait" /\ Moved("verify")
    BY <1>1, <1>3, <2>4 DEF Moved, Rest
  <2>5. CASE op.pc = "verify" /\ VerifiedStop /\ (Moved("exe") \/ Moved("delete"))
    BY <1>1, <1>3, <2>5 DEF Moved, Rest, Disabled
  <2>6. CASE /\ op.pc = "settle"
             /\ (Moved("exe") /\ op.helper) \/ (Moved("register") /\ ~op.helper)
    BY <1>1, <1>3, <2>6 DEF Moved, Rest, Disabled
  <2>7. CASE Noticed
    BY <1>1, <1>3, <2>7 DEF Noticed, SameBut
  <2>8. QED
    BY <1>1, <1>3, <2>1, <2>2, <2>3, <2>4, <2>5, <2>6, <2>7, ProgressMeans
    DEF Hosted, Maintained
<1>4. CASE Ends
  <2>1. scm'.actions = scm.actions
    BY <1>1, <1>4 DEF Ends, HostExits, ServiceCrashes, ProcessEnds, Ended,
       Hosted, ScmRecords
  <2>2. QED
    BY <1>1, <1>4, <2>1, EndsMean DEF Inv, Whole
<1>5. CASE Runs
  <2>1. host # "off" /\ UNCHANGED <<scm, exe, op, overlaid>>
    BY <1>1, <1>5, RunsMean DEF history
  <2>2. op.pc # "mihomo"
    BY <1>1, <2>1 DEF Disabled
  <2>3. ASSUME ~overlaid, op.target # 0, Whole(op.target)
        PROVE  Whole(op.target)'
    <3>1. host = "swapping" => backup # 0
      BY <1>1, <2>3 DEF Startable
    <3>2. QED
      BY <1>1, <1>5, <2>1, <2>3, <3>1, RunsKeepWhole DEF Whole
  <2>4. QED
    BY <1>1, <2>1, <2>2, <2>3
<1>6. CASE Asks
  <2> USE DEF Whole
  <2>1. UNCHANGED <<scm, files, host, overlaid>>
    BY <1>1, <1>6, AsksMean DEF Maintained
  <2>2. CASE op' = op
    BY <1>1, <2>1, <2>2
  <2>3. CASE Cleared
    BY <1>1, <2>1, <2>3 DEF Cleared
  <2>4. CASE op.pc = "stop" /\ Moved("wait")
    BY <1>1, <2>1, <2>4 DEF Moved, Rest
  <2>5. CASE /\ op.pc = "halt"
             /\ Moved("settle") \/ Moved("exe") \/ (~op.helper /\ Moved("register"))
    BY <1>1, <2>1, <2>5 DEF Moved, Rest
  <2>6. QED
    BY <1>1, <1>6, <2>2, <2>3, <2>4, <2>5, AsksMean DEF Maintained
<1>7. CASE Copies
  BY <1>1, <1>7, CopiesMean DEF Maintained, Moved, Rest, Whole
<1>8. CASE ScmSteps
  BY <1>1, <1>8, RecordsMean DEF Maintained, Moved, Rest, Whole, history
<1>9. CASE Starts
  BY <1>1, <1>9, StartsMean DEF Maintained, Cleared, Forgot, SameBut, Whole
<1>10. CASE Deletes
  BY <1>10, DeletesMean DEF Cleared
<1>11. CASE WindowsRestarts
  BY <1>1, <1>11, RestartMeans DEF Cleared
<1>12. QED
  BY <1>2, <1>3, <1>4, <1>5, <1>6, <1>7, <1>8, <1>9, <1>10, <1>11, Groups

LEMMA CleanKept ==
  ASSUME Inv, [InstallNext]_installVars
  PROVE  Clean'
<1> USE DEF Clean, Flags
<1>1. Hosted /\ Flags /\ Startable /\ Disabled /\ Clean /\ Maintained
  BY DEF Inv
<1>2. CASE UNCHANGED installVars
  BY <1>1, <1>2 DEF installVars, service
<1>3. CASE Progress
  <2> USE ProgressKeeps
  <2>1. CASE Begun
    BY <1>1, <1>3, <2>1 DEF Begun
  <2>2. CASE Cleared
    BY <1>1, <1>3, <2>2 DEF Cleared
  <2>3. CASE Seen
    BY <1>1, <1>3, <2>3 DEF Seen
  <2>4. CASE op.pc = "wait" /\ Moved("verify")
    BY <1>1, <1>3, <2>4 DEF Moved, Rest
  <2>5. CASE op.pc = "verify" /\ VerifiedStop /\ (Moved("exe") \/ Moved("delete"))
    BY <1>1, <1>3, <2>5 DEF Moved, Rest, Disabled, VerifiedStop
  <2>6. CASE /\ op.pc = "settle"
             /\ (Moved("exe") /\ op.helper) \/ (Moved("register") /\ ~op.helper)
    BY <1>1, <1>3, <2>6 DEF Moved, Rest, Disabled
  <2>7. CASE Noticed
    BY <1>1, <1>3, <2>7 DEF Noticed, SameBut
  <2>8. QED
    BY <1>1, <1>3, <2>1, <2>2, <2>3, <2>4, <2>5, <2>6, <2>7, ProgressMeans
    DEF Hosted, Maintained
<1>4. CASE Ends
  <2>1. /\ host # "off" /\ host' = "off" /\ adapter' = adapter /\ op' = op
        /\ scm'.exit = "clean" => host = "drained"
    BY <1>1, <1>4, EndsMean
  <2>2. op.pc # "delete"
    BY <1>1, <2>1 DEF Disabled
  <2>3. QED
    BY <1>1, <2>1, <2>2
<1>5. CASE Runs
  BY <1>1, <1>5, RunsMean DEF Disabled
<1>6. CASE Asks
  <2>1. UNCHANGED <<scm, host, adapter>>
    BY <1>1, <1>6, AsksMean DEF Maintained
  <2>2. CASE op' = op
    BY <1>1, <2>1, <2>2
  <2>3. CASE Cleared
    BY <1>1, <2>1, <2>3 DEF Cleared
  <2>4. CASE op.pc = "stop" /\ Moved("wait")
    BY <1>1, <2>1, <2>4 DEF Moved, Rest
  <2>5. CASE /\ op.pc = "halt"
             /\ Moved("settle") \/ Moved("exe") \/ (~op.helper /\ Moved("register"))
    BY <1>1, <2>1, <2>5 DEF Moved, Rest
  <2>6. QED
    BY <1>1, <1>6, <2>2, <2>3, <2>4, <2>5, AsksMean DEF Maintained
<1>7. CASE Copies
  BY <1>1, <1>7, CopiesMean DEF Maintained, Moved, Rest
<1>8. CASE ScmSteps
  BY <1>1, <1>8, RecordsMean DEF Maintained, Moved, Rest, service
<1>9. CASE Starts
  <2>1. /\ scm'.start = scm.start /\ scm'.exit = scm.exit /\ adapter' = adapter
        /\ host' = host \/ host' = "boot"
    BY <1>1, <1>9, StartsMean DEF Maintained
  <2>2. op'.pc = op.pc \/ Cleared
    BY <1>1, <1>9, StartsMean DEF Maintained, Forgot, SameBut
  <2>3. QED
    BY <1>1, <2>1, <2>2 DEF Cleared
<1>10. CASE Deletes
  BY <1>10, DeletesMean DEF Cleared
<1>11. CASE WindowsRestarts
  BY <1>1, <1>11, RestartMeans DEF Cleared
<1>12. QED
  BY <1>2, <1>3, <1>4, <1>5, <1>6, <1>7, <1>8, <1>9, <1>10, <1>11, Groups

LEMMA FlagsKept ==
  ASSUME Inv, [InstallNext]_installVars
  PROVE  Flags'
<1> USE DEF Flags
<1>1. Hosted /\ Flags /\ Maintained
  BY DEF Inv
<1>2. CASE UNCHANGED installVars
  BY <1>1, <1>2 DEF installVars, service, history
<1>3. CASE Progress
  <2>1. upset' \in BOOLEAN
    BY <1>1, <1>3, ProgressMeans DEF Hosted, Maintained
  <2>2. QED
    BY <1>1, <1>3, <2>1, ProgressKeeps
<1>4. CASE Ends
  BY <1>1, <1>4, EndsMean
<1>5. CASE Runs
  <2>1. child' \in BOOLEAN /\ adapter' \in BOOLEAN
    BY <1>1, <1>5 DEF Runs, HostBoots, CommandBegins, CommandEnds, MonitorActs,
       SetsCoreAside, PutsCoreIn, SwapEnds, ShutdownBegins, ShutdownEnds, HostHangs,
       HostFails, Served, Hangs
  <2>2. QED
    BY <1>1, <1>5, <2>1, RunsMean DEF history
<1>6. CASE Asks
  BY <1>1, <1>6, AsksMean DEF Maintained
<1>7. CASE Copies
  BY <1>1, <1>7, CopiesMean DEF Maintained
<1>8. CASE ScmSteps
  BY <1>1, <1>8, RecordsMean DEF Maintained, service, history
<1>9. CASE Starts
  <2>1. wanted' \in BOOLEAN /\ upset' \in BOOLEAN
    BY <1>1, <1>9 DEF Starts, QueuedRestart, UserStarts, HelperStarts, history
  <2>2. QED
    BY <1>1, <1>9, <2>1, StartsMean DEF Maintained
<1>10. CASE Deletes
  <2>1. wanted' = TRUE /\ upset' = FALSE
    BY <1>10 DEF Deletes
  <2>2. QED
    BY <1>1, <1>10, <2>1, DeletesMean
<1>11. CASE WindowsRestarts
  <2>1. adapter' = FALSE
    BY <1>11 DEF WindowsRestarts
  <2>2. QED
    BY <1>1, <1>11, <2>1, RestartMeans
<1>12. QED
  BY <1>2, <1>3, <1>4, <1>5, <1>6, <1>7, <1>8, <1>9, <1>10, <1>11, Groups

LEMMA MaintainedKept ==
  ASSUME Inv, [InstallNext]_installVars
  PROVE  Maintained'
<1> USE DEF Maintained, files
<1>1. Hosted /\ Maintained /\ 0 \in 0..LastRelease /\ 0 \in 0..Newer /\ Newer \in 0..Newer
  BY InstallAssumption DEF Inv, Newer
<1>2. CASE UNCHANGED installVars
  BY <1>1, <1>2 DEF installVars
<1>3. CASE Progress
  <2>1. op' \in Operations
    BY <1>1, <1>3, ProgressMeans DEF Hosted, Begun, Seen, Moved, Cleared,
       Noticed
  <2>2. attempts' \in 0..MaxAttempts
    <3>1. CASE MaintenanceBegins
      <4>1. attempts' = attempts + 1 /\ attempts < MaxAttempts
        BY <3>1 DEF MaintenanceBegins
      <4>2. QED
        BY <1>1, <4>1, InstallAssumption
    <3>2. CASE ~MaintenanceBegins
      <4>1. attempts' = attempts
        BY <1>3, <3>2 DEF Progress, StepFails, Queries, WaitSees, Waits, WaitTimesOut,
                          Verifies, VerifyFails, HelperSettles, GivesUp
      <4>2. QED
        BY <1>1, <4>1
    <3>3. QED
      BY <3>1, <3>2
  <2>3. QED
    BY <1>1, <1>3, <2>1, <2>2, ProgressKeeps
<1>4. CASE Ends
  BY <1>1, <1>4, EndsMean DEF Inv
<1>5. CASE Runs
  <2>1. mihomo' \in 0..Newer /\ backup' \in 0..Newer
    BY <1>1, <1>5 DEF Runs, HostBoots, CommandBegins, CommandEnds, MonitorActs,
       SetsCoreAside, PutsCoreIn, SwapEnds, ShutdownBegins, ShutdownEnds, HostHangs,
       HostFails, Served, Hangs
  <2>2. QED
    BY <1>1, <1>5, <2>1, RunsMean
<1>6. CASE Asks
  BY <1>1, <1>6, AsksMean DEF Moved, Cleared
<1>7. CASE Copies
  <2>1. op.target \in 0..LastRelease /\ op.target \in 0..Newer
    BY <1>1, InstallAssumption DEF Operations, Newer
  <2>2. QED
    BY <1>1, <1>7, <2>1, CopiesMean DEF Moved
<1>8. CASE ScmSteps
  BY <1>1, <1>8, RecordsMean DEF Moved
<1>9. CASE Starts
  BY <1>1, <1>9, StartsMean DEF Cleared, Forgot
<1>10. CASE Deletes
  BY <1>1, <1>10, DeletesMean DEF Cleared
<1>11. CASE WindowsRestarts
  BY <1>1, <1>11, RestartMeans DEF Cleared
<1>12. QED
  BY <1>2, <1>3, <1>4, <1>5, <1>6, <1>7, <1>8, <1>9, <1>10, <1>11, Groups

LEMMA WilledKept ==
  ASSUME Inv, [InstallNext]_installVars
  PROVE  Willed'
<1> USE DEF Willed, Excused, Knows, Flags
<1>1. Hosted /\ Flags /\ Startable /\ Disabled /\ Copied /\ Willed /\ Maintained
  BY DEF Inv
<1>2. CASE UNCHANGED installVars
  BY <1>1, <1>2 DEF installVars, service, history
<1>3. CASE Progress
  <2> USE ProgressKeeps
  <2>1. CASE Begun /\ UNCHANGED <<wanted, upset>>
    <3>1. op.pc = "idle"
      BY <2>1 DEF Begun, NoOp
    <3>2. QED
      BY <1>1, <1>3, <2>1, <3>1 DEF Begun
  <2>2. CASE Cleared /\ upset' = TRUE
    BY <1>1, <1>3, <2>2 DEF Cleared
  <2>3. CASE Seen /\ UNCHANGED <<wanted, upset>>
    BY <1>1, <1>3, <2>3 DEF Seen, Hosted
  <2>4. CASE op.pc = "wait" /\ scm.state = "stopped" /\ Moved("verify")
             /\ UNCHANGED <<wanted, upset>>
    BY <1>1, <1>3, <2>4 DEF Moved, Rest, Hosted
  <2>5. CASE op.pc = "verify" /\ (Moved("exe") \/ Moved("delete"))
             /\ UNCHANGED <<wanted, upset>>
    BY <1>1, <1>3, <2>5 DEF Moved, Rest
  <2>6. CASE op.pc = "settle" /\ scm.state = "stopped" /\ (Moved("exe") \/ Moved("register"))
             /\ UNCHANGED <<wanted, upset>>
    BY <1>1, <1>3, <2>6 DEF Moved, Rest, Hosted
  <2>7. CASE op.pc = "wait" /\ scm.state = "running" /\ Noticed /\ UNCHANGED <<wanted, upset>>
    BY <1>1, <1>3, <2>7 DEF Noticed, SameBut, Hosted
  <2>8. QED
    BY <1>1, <1>3, <2>1, <2>2, <2>3, <2>4, <2>5, <2>6, <2>7, ProgressMeans
    DEF Hosted, Maintained
<1>4. CASE Ends
  <2>1. /\ host' = "off" /\ asked' = FALSE /\ scm'.start = scm.start /\ op' = op
        /\ wanted' = wanted
        /\ (host = "drained" /\ upset' = upset) \/ upset' = TRUE
    BY <1>1, <1>4, EndsMean
  <2>2. QED
    BY <1>1, <2>1
<1>5. CASE Runs
  BY <1>1, <1>5, RunsMean DEF history
<1>6. CASE Asks
  <2>1. UNCHANGED <<scm, host>>
    BY <1>1, <1>6, AsksMean DEF Maintained
  <2>2. CASE host # "off" /\ asked' = TRUE /\ wanted' = FALSE /\ UNCHANGED <<op, upset>>
    BY <1>1, <2>1, <2>2
  <2>3. CASE Cleared /\ upset' = TRUE /\ UNCHANGED <<asked, wanted>>
    BY <1>1, <2>1, <2>3 DEF Cleared
  <2>4. CASE /\ op.pc = "stop" /\ Moved("wait") /\ UNCHANGED <<wanted, upset>>
             /\ asked' = asked \/ (asked' = (host # "off") /\ (op.helper \/ op.was))
    BY <1>1, <2>1, <2>4 DEF Moved, Rest
  <2>5. CASE /\ op.pc = "halt" /\ asked' = (host # "off") /\ UNCHANGED <<wanted, upset>>
             /\ \/ host # "off" /\ Moved("settle")
                \/ host = "off" /\ (Moved("exe") \/ Moved("register"))
    BY <1>1, <2>1, <2>5 DEF Moved, Rest, Disabled
  <2>6. QED
    BY <1>1, <1>6, <2>2, <2>3, <2>4, <2>5, AsksMean DEF Maintained
<1>7. CASE Copies
  <2>1. /\ UNCHANGED <<scm, host, asked, wanted, upset>>
        /\ op.pc = "exe" \/ op.pc = "mihomo"
        /\ Moved("mihomo") \/ Moved("register") \/ Moved("open")
    BY <1>1, <1>7, CopiesMean DEF Maintained
  <2>2. QED
    BY <1>1, <2>1 DEF Moved, Rest
<1>8. CASE ScmSteps
  <2>1. UNCHANGED <<host, asked, wanted, upset>>
    BY <1>1, <1>8, RecordsMean DEF Maintained, service, history
  <2>2. CASE scm'.start = scm.start /\ op' = op
    BY <1>1, <2>1, <2>2
  <2>3. CASE op.pc = "disable" /\ Moved("stop")
    BY <1>1, <2>1, <2>3 DEF Moved, Rest, Disabled
  <2>4. CASE /\ op.pc = "open" /\ Moved("halt")
             /\ scm'.start = IF scm.start = "absent" THEN "absent" ELSE "disabled"
    BY <1>1, <2>1, <2>4 DEF Moved, Rest
  <2>5. CASE op.pc = "register" /\ Moved("actions") /\ scm'.start = "auto"
    BY <1>1, <2>1, <2>5 DEF Moved, Rest, Disabled
  <2>6. CASE op.pc = "actions" /\ Moved("start") /\ scm'.start = scm.start
    BY <1>1, <2>1, <2>6 DEF Moved, Rest
  <2>7. QED
    BY <1>1, <1>8, <2>2, <2>3, <2>4, <2>5, <2>6, RecordsMean DEF Maintained
<1>9. CASE Starts
  <2>1. scm'.start = scm.start
    BY <1>1, <1>9, StartsMean DEF Maintained
  <2>2. CASE host' = "boot" /\ asked' = FALSE /\ scm.start = "auto" /\ (Forgot \/ Cleared)
    BY <1>1, <2>1, <2>2 DEF Cleared, Forgot, SameBut
  <2>3. CASE UNCHANGED <<host, asked>> /\ (op' = op \/ Cleared)
    <3>1. CASE QueuedRestart
      <4>1. ~CanStart
        BY <1>1, <2>3, <3>1 DEF QueuedRestart, CanStart, Launches, Hosted
      <4>2. op' = op
        BY <3>1, <4>1 DEF QueuedRestart
      <4>3. QED
        BY <1>1, <2>1, <2>3, <3>1, <4>2 DEF QueuedRestart, history
    <3>2. CASE UserStarts
      <4>1. host = "off" /\ host' = "boot"
        BY <1>1, <3>2 DEF UserStarts, CanStart, Launches, Hosted
      <4>2. QED
        BY <2>3, <4>1
    <3>3. CASE HelperStarts
      <4>1. op.pc = "start" /\ Cleared /\ scm.start = "auto" /\ exe # 0
        BY <1>1, <3>3, Clears DEF HelperStarts, At, Copied
      <4>2. CASE host = "off" /\ ~PreserveStopped
        <5>1. CanStart
          BY <1>1, <4>1, <4>2 DEF CanStart, Hosted
        <5>2. host' = "boot"
          BY <3>3, <4>2, <5>1 DEF HelperStarts
        <5>3. QED
          BY <2>3, <4>2, <5>2
      <4>3. CASE host = "off" /\ PreserveStopped
        <5>1. /\ wanted' = wanted /\ upset' = (upset \/ op.noted)
              /\ op.noted \/ ~Knows
          BY <1>1, <3>3, <4>3 DEF HelperStarts, PreserveStopped, Maintained, Operations
        <5>2. QED
          BY <1>1, <2>1, <2>3, <4>1, <4>3, <5>1 DEF Cleared
      <4>4. CASE host # "off"
        <5>1. asked => wanted' = wanted /\ upset' = (upset \/ op.noted)
          BY <1>1, <3>3 DEF HelperStarts, Maintained, Operations
        <5>2. QED
          BY <1>1, <2>1, <2>3, <4>1, <4>4, <5>1 DEF Cleared
      <4>5. QED
        BY <4>2, <4>3, <4>4
    <3>4. QED
      BY <1>9, <3>1, <3>2, <3>3 DEF Starts
  <2>4. QED
    BY <1>1, <1>9, <2>2, <2>3, StartsMean DEF Maintained
<1>10. CASE Deletes
  BY <1>1, <1>10, DeletesMean DEF Cleared
<1>11. CASE WindowsRestarts
  <2>1. op = NoOp => op.pc = "idle"
    BY DEF NoOp
  <2>2. /\ asked' = FALSE /\ scm'.start = scm.start /\ wanted' = wanted /\ Cleared
        /\ upset' = (upset \/ op # NoOp)
        /\ host' = IF scm.start = "auto" /\ exe # 0 THEN "boot" ELSE "off"
    BY <1>1, <1>11, RestartMeans
  <2>3. CASE scm.start = "auto"
    BY <1>1, <2>2, <2>3 DEF Startable, Cleared
  <2>4. CASE scm.start = "disabled"
    BY <1>1, <2>1, <2>2, <2>4 DEF Cleared
  <2>5. CASE scm.start = "absent"
    BY <2>2, <2>5 DEF Cleared
  <2>6. QED
    BY <1>1, <2>3, <2>4, <2>5 DEF Hosted, ScmRecords
<1>12. QED
  BY <1>2, <1>3, <1>4, <1>5, <1>6, <1>7, <1>8, <1>9, <1>10, <1>11, Groups

-----------------------------------------------------------------------------
LEMMA InvKept == Inv /\ [InstallNext]_installVars => Inv'
BY HostedKept, FlagsKept, MaintainedKept, StartableKept, DisabledKept, CopiedKept,
   CleanKept, WilledKept DEF Inv

LEMMA Invariance == InstallSpec => []Inv
BY InitialInv, InvKept, PTL DEF InstallSpec

\* The SCM's record, the process, the executables and the maintenance keep their
\* types, and a process exists exactly while the SCM reports the service running.
THEOREM Types == InstallSpec => []InstallTypeOK
<1>1. Inv => InstallTypeOK
  BY TypesSplit DEF Inv
<1>2. QED
  BY <1>1, Invariance, PTL

\* The service that runs has a core of its own release at hand, or one that it
\* has downloaded itself, and none of another, whatever step an earlier
\* maintenance or core update stopped at and whatever the SCM starts, unless
\* executables were installed over a core update that was cut off: a start type
\* of Automatic implies that the files agree.
THEOREM ReleasesAgree == InstallSpec => []OneRelease
<1>1. Inv => OneRelease
  BY DEF Inv, Startable, Whole, OneRelease
<1>2. QED
  BY <1>1, Invariance, PTL

\* A registration is deleted only while the service is off and no adapter, route
\* or DNS of MioProxy is left.
THEOREM DeletionsClean == InstallSpec => DeletedOnlyClean
<1> DEFINE Gone == scm.start # "absent" /\ scm'.start = "absent"
<1>1. ASSUME Inv, [InstallNext]_installVars, Gone
      PROVE  host = "off" /\ ~adapter
  <2>1. Hosted /\ Maintained /\ Flags /\ Disabled /\ Clean
    BY <1>1 DEF Inv
  <2>2. Deletes
    <3>1. CASE UNCHANGED installVars \/ Progress
      BY <1>1, <3>1, ProgressKeeps DEF installVars
    <3>2. CASE Ends \/ Runs
      BY <1>1, <2>1, <3>2, EndsMean, RunsMean
    <3>3. CASE Asks \/ Copies
      BY <1>1, <2>1, <3>3, AsksMean, CopiesMean DEF Maintained
    <3>4. CASE ScmSteps
      BY <1>1, <2>1, <3>4, RecordsMean DEF Maintained
    <3>5. CASE Starts \/ WindowsRestarts
      BY <1>1, <2>1, <3>5, StartsMean, RestartMeans DEF Maintained
    <3>6. QED
      BY <1>1, <3>1, <3>2, <3>3, <3>4, <3>5, Groups
  <2>3. QED
    BY <1>1, <2>1, <2>2, DeletesMean DEF Clean
<1>2. Inv /\ [InstallNext]_installVars => [Gone => host = "off" /\ ~adapter]_installVars
  BY <1>1
<1>3. QED
  BY <1>2, Invariance, PTL DEF InstallSpec, DeletedOnlyClean

\* A completed installation leaves both executables of its release (or a core
\* updated meanwhile) and a service that starts by itself, with failure actions;
\* it runs afterwards unless its user or a failed maintenance had stopped it or
\* the update's checkpoint says that it did not run, and is not started if the
\* checkpoint says so or its user had stopped it before, although the service is
\* queried again and again and may be started meanwhile.
THEOREM InstallationsComplete == InstallSpec => InstallCompletes
<1> DEFINE Done == op.kind = "install" /\ HelperStarts
           Good == /\ exe = op.target /\ (overlaid \/ mihomo \in {0, op.target, Newer})
                   /\ scm.start = "auto" /\ scm.actions
                   /\ wanted /\ ~upset /\ ~op.noted => host' # "off"
                   /\ (op.left /\ op.present /\ ~op.helper) \/ op.noted => host' = host
<1>1. ASSUME Inv, [InstallNext]_installVars, Done
      PROVE  Good
  <2>1. Hosted /\ Copied /\ Willed /\ Startable
    BY <1>1 DEF Inv
  <2>2. op.pc = "start" /\ HelperStarts
    BY <1>1 DEF HelperStarts, At
  <2>3. exe = op.target /\ (overlaid \/ mihomo \in {0, op.target, Newer})
        /\ scm.start = "auto" /\ scm.actions
    BY <2>1, <2>2 DEF Copied, Whole
  <2>4. ASSUME wanted, ~upset, ~op.noted
        PROVE  host' # "off"
    <3>1. CASE CanStart /\ ~PreserveStopped
      BY <2>2, <3>1 DEF HelperStarts
    <3>2. CASE ~CanStart
      <4>1. host # "off"
        BY <2>1, <2>2, <2>3, <3>2 DEF CanStart, Hosted, Copied
      <4>2. host' = host
        BY <2>2, <3>2 DEF HelperStarts, service
      <4>3. QED
        BY <4>1, <4>2
    <3>3. CASE PreserveStopped
      <4>1. host # "off"
        BY <2>1, <2>2, <2>3, <2>4, <3>3 DEF Willed, Excused, Knows, PreserveStopped
      <4>2. host' = host
        BY <2>2, <3>3 DEF HelperStarts, service
      <4>3. QED
        BY <4>1, <4>2
    <3>4. QED
      BY <3>1, <3>2, <3>3
  <2>5. ASSUME (op.left /\ op.present /\ ~op.helper) \/ op.noted
        PROVE  host' = host
    <3>1. PreserveStopped
      BY <2>1, <2>5 DEF PreserveStopped, Willed
    <3>2. QED
      BY <2>2, <3>1 DEF HelperStarts, service
  <2>6. QED
    BY <2>3, <2>4, <2>5
<1>2. Inv /\ [InstallNext]_installVars => [Done => Good]_installVars
  BY <1>1
<1>3. QED
  BY <1>2, Invariance, PTL DEF InstallSpec, InstallCompletes
=============================================================================
