----------------------------- MODULE CoreUpdate -----------------------------
(***************************************************************************)
(* The update of the Mihomo executable by the service: core_check and      *)
(* core_install in src-tauri/src/service.rs over the file operations of    *)
(* src-tauri/src/core_update.rs, with the monitor that may start the core  *)
(* between two steps, and the GUI command that asks for the installation   *)
(* and stops waiting for it after IPC_TIMEOUT.                             *)
(*                                                                         *)
(* One action is the code between two points at which another task, a      *)
(* fault or a crash can come in; each file operation is an action.         *)
(***************************************************************************)
EXTENDS Naturals

CONSTANTS
    Builds,    \* versions of Mihomo; a larger number is a newer version
    First,     \* the build the installation of the service has copied
    Foreign,   \* the build of a core the service does not own
    Faults,    \* what the environment may do, see FaultKinds
    MaxQueue   \* bound: requests that wait in the pipe

\* "net": the release or its archive is refused; "disk": a file operation
\* fails; "health": a core does not start, or does not answer; "tun": a TUN
\* routine fails; "exit": Mihomo dies; "foreign": another core takes the
\* controller; "crash": the service dies; "timeout": the GUI stops waiting.
FaultKinds == {"net", "disk", "health", "tun", "exit", "foreign", "crash", "timeout"}

ASSUME UpdateAssumption ==
    /\ Builds \subseteq Nat \ {0}
    /\ First \in Builds /\ Foreign \in Nat
    /\ Faults \subseteq FaultKinds /\ MaxQueue \in Nat

None == 0

VARIABLES
    exe, backup, repl, staged,  \* the build in each file of the service, or None
    up,                         \* the service runs
    child,                      \* the build the managed core was started from
    foreign,                    \* a core the service does not own has the controller
    desired,                    \* desired_core_running and its file
    tun,                        \* the TUN session: off, running, or to be undone
    phase,                      \* core_update.phase
    cooling,                    \* GitHub has asked not to be called for a while
    pc, job,                    \* where core_install is, and its locals
    updating, queue, proxy,     \* the GUI: its flag, its requests, the system proxy
    proven                      \* history: builds that passed the health check

files == <<exe, backup, repl, staged>>
core  == <<child, foreign, desired, tun>>
gui   == <<updating, queue, proxy>>
vars  == <<files, up, core, phase, cooling, pc, job, gui, proven>>

MaybeBuild == Builds \cup {None}

\* rel: the release; was, tunWas: owns_core and TUN before; had: had_original.
Jobs  == [rel : MaybeBuild, was : BOOLEAN, tunWas : BOOLEAN, had : BOOLEAN]
NoJob == [rel |-> None, was |-> FALSE, tunWas |-> FALSE, had |-> FALSE]

Phases == {"idle", "checking", "available", "downloading", "verifying",
           "installing", "restarting", "completed", "error"}

\* The points of core_install: up to the download nothing has been touched;
\* from clear to swap the files of replace_core; then the health check; from
\* undo on what follows a failed one.
Before   == {"idle", "check", "download"}
Swapping == {"clear", "copy", "keep", "swap"}
Health   == {"start", "version", "tun"}
Undoing  == {"undo", "unlink", "restore", "restart", "retun"}
Points   == Before \cup Swapping \cup Health \cup Undoing
                \cup {"verify", "prepare", "halt", "finalize", "cleanup"}

TypeOK ==
    /\ exe \in MaybeBuild /\ backup \in MaybeBuild
    /\ repl \in MaybeBuild /\ staged \in MaybeBuild
    /\ up \in BOOLEAN /\ child \in MaybeBuild /\ foreign \in BOOLEAN
    /\ desired \in BOOLEAN /\ tun \in {"off", "running", "undo"}
    /\ phase \in Phases /\ cooling \in BOOLEAN
    /\ pc \in Points /\ job \in Jobs
    /\ (pc \notin {"idle", "check"}) = (job.rel # None)
    /\ updating \in BOOLEAN /\ queue \in 0..MaxQueue /\ proxy \in BOOLEAN
    /\ proven \subseteq Builds

Init ==
    /\ exe = First /\ backup = None /\ repl = None /\ staged = None
    /\ up = TRUE /\ foreign = FALSE /\ desired \in BOOLEAN
    /\ child \in {None, First} /\ (child # None => desired)
    /\ tun \in {"off", "running"} /\ (tun = "running" => child # None)
    /\ phase = "idle" /\ cooling = FALSE /\ pc = "idle" /\ job = NoJob
    /\ updating = FALSE /\ queue = 0 /\ proxy = FALSE
    /\ proven = {First}

May(fault) == fault \in Faults

\* running_core_version: whoever holds the controller answers.
Running == IF foreign THEN Foreign ELSE child

(* ---- the release ------------------------------------------------------- *)

\* What is read of an answer of GitHub: whether its quota is spent, whether it
\* has a retry-after header.
Responses == [status : {403, 404, 429, 500}, spent : BOOLEAN, retryAfter : BOOLEAN]

RateLimited(r) == r.status = 429 \/ (r.status = 403 /\ (r.spent \/ r.retryAfter))

\* Of the metadata: the official asset for this system, with its digest.
Metadata == [version : Builds, prerelease : BOOLEAN, asset : BOOLEAN,
             official : BOOLEAN, digest : BOOLEAN]

ParseRelease(m) ==
    IF ~m.prerelease /\ m.asset /\ m.official /\ m.digest THEN m.version ELSE None

\* ok: a release was read; rel: the release, or None when it is not newer.
LatestRelease(current, ok, rel) ==
    \/ cooling /\ ~ok /\ rel = None /\ UNCHANGED cooling
    \/ ~cooling /\ May("net") /\ ~ok /\ rel = None /\ UNCHANGED cooling
    \/ /\ ~cooling /\ May("net") /\ ~ok /\ rel = None
       /\ \E r \in Responses : cooling' = RateLimited(r)
    \/ /\ ~cooling /\ UNCHANGED cooling
       /\ \E m \in Metadata :
            /\ ok = (ParseRelease(m) # None)
            /\ ok \/ May("net")
            /\ rel = IF current # None /\ ParseRelease(m) <= current
                     THEN None ELSE ParseRelease(m)

\* The time GitHub asked for is over.
CooldownEnds == cooling /\ cooling' = FALSE
                /\ UNCHANGED <<files, up, core, phase, pc, job, gui, proven>>

\* core_check.
CoreCheck ==
    /\ up /\ pc = "idle"
    /\ \E ok \in BOOLEAN, rel \in MaybeBuild :
         /\ LatestRelease(Running, ok, rel)
         /\ phase' = IF ~ok THEN "error" ELSE IF rel = None THEN "idle" ELSE "available"
    /\ UNCHANGED <<files, up, core, pc, job, gui, proven>>

(* ---- core_install up to the swap --------------------------------------- *)

Go(point) == pc' = point
Fail      == pc' = "idle" /\ job' = NoJob /\ phase' = "error"

Take ==
    /\ up /\ pc = "idle" /\ queue > 0
    /\ queue' = queue - 1 /\ phase' = "checking" /\ Go("check")
    /\ UNCHANGED <<files, up, core, cooling, job, updating, proxy, proven>>

FindRelease ==
    /\ pc = "check"
    /\ \E ok \in BOOLEAN, rel \in MaybeBuild :
         /\ LatestRelease(Running, ok, rel)
         /\ \/ ~ok /\ Fail
            \/ ok /\ rel = None /\ pc' = "idle" /\ phase' = "idle" /\ UNCHANGED job
            \/ /\ ok /\ rel # None /\ Go("download") /\ phase' = "downloading"
               /\ job' = [NoJob EXCEPT !.rel = rel]
    /\ UNCHANGED <<files, up, core, gui, proven>>

\* download_to_staging: the archive and the executable are written only when
\* the digest is the one of the release.
Download ==
    /\ pc = "download"
    /\ \/ (May("net") \/ May("disk")) /\ Fail /\ UNCHANGED staged
       \/ May("disk") /\ Fail /\ staged' = job.rel
       \/ staged' = job.rel /\ Go("verify") /\ phase' = "verifying" /\ UNCHANGED job
    /\ UNCHANGED <<exe, backup, repl, up, core, cooling, gui, proven>>

\* The staged executable checks the configuration of the service.
ValidateConfig ==
    /\ pc = "verify"
    /\ \/ (May("health") \/ May("disk")) /\ Fail
       \/ Go("prepare") /\ UNCHANGED <<job, phase>>
    /\ UNCHANGED <<files, up, core, cooling, gui, proven>>

\* tun_data, refresh_child, owns_core, disable_tun.
Prepare ==
    /\ pc = "prepare"
    /\ \/ /\ tun' = "off" /\ Go("halt") /\ UNCHANGED phase
          /\ job' = [job EXCEPT !.was = child # None, !.tunWas = tun = "running"]
       \/ tun # "off" /\ May("tun") /\ Fail /\ tun' = "undo"
    /\ UNCHANGED <<files, up, child, foreign, desired, cooling, gui, proven>>

\* stop, as far as it goes: desired is cleared before anything can fail.
StopCore(ok) ==
    /\ desired' = FALSE
    /\ \/ ok /\ ~(foreign /\ child = None) /\ child' = None /\ tun' = "off"
       \/ ~ok /\ tun # "off" /\ May("tun") /\ tun' = "undo" /\ UNCHANGED child
       \/ ~ok /\ child = None /\ foreign /\ tun' = "off" /\ UNCHANGED child
    /\ UNCHANGED foreign

Halt ==
    /\ pc = "halt"
    /\ \/ ~job.was /\ Go("clear") /\ phase' = "installing" /\ UNCHANGED <<core, job>>
       \/ job.was /\ StopCore(TRUE) /\ Go("clear") /\ phase' = "installing" /\ UNCHANGED job
       \/ job.was /\ StopCore(FALSE) /\ Fail
    /\ UNCHANGED <<files, up, cooling, gui, proven>>

(* ---- replace_core, rollback_core, finalize_core ------------------------ *)

\* An executable that runs cannot be removed or overwritten.
InUse == child # None /\ child = exe /\ backup # exe

\* Mutant: what is left of an earlier update is overwritten.
ClearReplacementOverBackup ==
    /\ pc = "clear" /\ repl' = None
    /\ Go("copy") /\ UNCHANGED <<job, phase>>
    /\ UNCHANGED <<exe, backup, staged, up, core, cooling, gui, proven>>

\* A backup is the sign of an update that has not ended: it is never replaced.
ClearReplacement ==
    /\ pc = "clear"
    /\ repl' \in IF May("disk") THEN {None, repl} ELSE {None}
    /\ \/ (backup # None \/ May("disk")) /\ Fail
       \/ backup = None /\ Go("copy") /\ UNCHANGED <<job, phase>>
    /\ UNCHANGED <<exe, backup, staged, up, core, cooling, gui, proven>>

CopyReplacement ==
    /\ pc = "copy"
    /\ \/ May("disk") /\ Fail /\ UNCHANGED repl
       \/ /\ repl' = staged /\ job' = [job EXCEPT !.had = exe # None]
          /\ Go("keep") /\ UNCHANGED phase
    /\ UNCHANGED <<exe, backup, staged, up, core, cooling, gui, proven>>

KeepOriginal ==
    /\ pc = "keep"
    /\ \/ ~job.had /\ Go("swap") /\ UNCHANGED <<exe, backup, repl, job, phase>>
       \/ /\ job.had /\ backup' = exe /\ exe' = None
          /\ Go("swap") /\ UNCHANGED <<repl, job, phase>>
       \/ job.had /\ May("disk") /\ Fail /\ repl' = None /\ UNCHANGED <<exe, backup>>
    /\ UNCHANGED <<staged, up, core, cooling, gui, proven>>

\* When the last rename fails the original is renamed back, which may fail too.
SwapIn ==
    /\ pc = "swap"
    /\ \/ /\ exe' = repl /\ repl' = None /\ UNCHANGED <<backup, job>>
          /\ Go("start") /\ phase' = "restarting"
       \/ /\ May("disk") /\ Fail /\ repl' = None
          /\ \/ job.had /\ exe' = backup /\ backup' = None
             \/ UNCHANGED <<exe, backup>>
    /\ UNCHANGED <<staged, up, core, cooling, gui, proven>>

(* ---- the health check -------------------------------------------------- *)

\* start, as far as it goes.  Another core on the controller is an answer, not
\* an error; a managed core that is ready is kept.
StartCore(ok) ==
    \/ /\ ok /\ foreign /\ child = None /\ desired' = FALSE
       /\ UNCHANGED <<child, foreign, tun>>
    \/ /\ ok /\ child # None /\ desired' = TRUE
       /\ UNCHANGED <<child, foreign, tun>>
    \/ /\ ok /\ ~foreign /\ exe # None /\ (child = None \/ May("health"))
       /\ desired' = TRUE /\ child' = exe /\ tun' = "off" /\ UNCHANGED foreign
    \/ /\ ~ok /\ ~(foreign /\ child = None) /\ desired' = TRUE
       /\ exe = None \/ May("health") \/ (tun # "off" /\ May("tun"))
       /\ child' \in {None, child} /\ (child' # None => May("health"))
       /\ tun' \in IF tun = "off" THEN {"off"} ELSE {"off", "undo"}
       /\ UNCHANGED foreign

\* A failed health check goes on with the rollback.
Unhealthy == Go("undo") /\ UNCHANGED <<job, phase>>

StartNew ==
    /\ pc = "start"
    /\ \/ StartCore(TRUE) /\ Go("version") /\ UNCHANGED <<job, phase>>
       \/ StartCore(FALSE) /\ Unhealthy
    /\ UNCHANGED <<files, up, cooling, gui, proven>>

CheckVersion ==
    /\ pc = "version"
    /\ \/ /\ Running = job.rel /\ Go("tun") /\ UNCHANGED <<job, phase>>
          /\ proven' = IF foreign THEN proven ELSE proven \cup {child}
       \/ (Running # job.rel \/ May("health")) /\ Unhealthy /\ UNCHANGED proven
    /\ UNCHANGED <<files, up, core, cooling, gui>>

\* tun_set(true) starts from a core that runs.
SetTun(ok) ==
    \/ ok /\ child # None /\ tun' = "running"
    \/ ~ok /\ (child = None \/ May("tun")) /\ tun' \in {"off", "undo"}

RestoreTun ==
    /\ pc = "tun"
    /\ \/ ~job.tunWas /\ Go("finalize") /\ UNCHANGED <<tun, job, phase>>
       \/ job.tunWas /\ SetTun(TRUE) /\ Go("finalize") /\ UNCHANGED <<job, phase>>
       \/ job.tunWas /\ SetTun(FALSE) /\ Unhealthy
    /\ UNCHANGED <<files, up, child, foreign, desired, cooling, gui, proven>>

\* Mutant: the result of finalize_core is not looked at.
FinalizeRegardless ==
    /\ pc = "finalize"
    /\ \/ May("disk") /\ UNCHANGED backup
       \/ backup' = IF job.had THEN None ELSE backup
    /\ Go("cleanup") /\ UNCHANGED <<job, phase>>
    /\ UNCHANGED <<exe, repl, staged, up, core, cooling, gui, proven>>

\* An error of finalize_core ends the command: the backup of a verified
\* update stays.
Finalize ==
    /\ pc = "finalize"
    /\ \/ May("disk") /\ Fail /\ UNCHANGED backup
       \/ /\ backup' = IF job.had THEN None ELSE backup
          /\ Go("cleanup") /\ UNCHANGED <<job, phase>>
    /\ UNCHANGED <<exe, repl, staged, up, core, cooling, gui, proven>>

Cleanup ==
    /\ pc = "cleanup"
    /\ staged' \in IF May("disk") THEN {None, staged} ELSE {None}
    /\ pc' = "idle" /\ job' = NoJob /\ phase' = "completed"
    /\ UNCHANGED <<exe, backup, repl, up, core, cooling, gui, proven>>

(* ---- a failed health check --------------------------------------------- *)

\* The result of stop is not looked at.
StopFailed ==
    /\ pc = "undo" /\ (StopCore(TRUE) \/ StopCore(FALSE))
    /\ Go("unlink")
    /\ UNCHANGED <<files, up, phase, cooling, job, gui, proven>>

\* Nor is that of the removal: the rename that follows overwrites.
Unlink ==
    /\ pc = "unlink" /\ Go("restore")
    /\ \/ ~InUse /\ exe' = None
       \/ (InUse \/ May("disk")) /\ UNCHANGED exe
    /\ UNCHANGED <<backup, repl, staged, up, core, phase, cooling, job, gui, proven>>

Restore ==
    /\ pc = "restore" /\ Go("restart")
    /\ \/ job.had /\ ~InUse /\ exe' = backup /\ backup' = None
       \/ (~job.had \/ InUse \/ May("disk")) /\ UNCHANGED <<exe, backup>>
    /\ UNCHANGED <<repl, staged, up, core, phase, cooling, job, gui, proven>>

\* Mutant: the health check is tried again when the old core does not start.
RestartRetrying ==
    /\ pc = "restart"
    /\ \/ ~job.was /\ Fail /\ UNCHANGED core
       \/ job.was /\ StartCore(FALSE) /\ Go("start") /\ UNCHANGED <<job, phase>>
       \/ job.was /\ StartCore(TRUE) /\ Fail
    /\ UNCHANGED <<files, up, cooling, gui, proven>>

Restart ==
    /\ pc = "restart"
    /\ \/ ~job.was /\ Fail /\ UNCHANGED core
       \/ job.was /\ StartCore(FALSE) /\ Fail
       \/ job.was /\ StartCore(TRUE) /\ ~job.tunWas /\ Fail
       \/ job.was /\ StartCore(TRUE) /\ job.tunWas /\ Go("retun") /\ UNCHANGED <<job, phase>>
    /\ UNCHANGED <<files, up, cooling, gui, proven>>

RestoreOldTun ==
    /\ pc = "retun" /\ (SetTun(TRUE) \/ SetTun(FALSE)) /\ Fail
    /\ UNCHANGED <<files, up, child, foreign, desired, cooling, gui, proven>>

(* ---- the other actors -------------------------------------------------- *)

\* The Start and Stop commands are taken one at a time with CoreInstall.
Command ==
    /\ up /\ pc = "idle"
    /\ StartCore(TRUE) \/ StartCore(FALSE) \/ StopCore(TRUE) \/ StopCore(FALSE)
    /\ UNCHANGED <<files, up, phase, cooling, pc, job, gui, proven>>

\* The monitor: a missing core that is desired is started from whatever
\* executable is there; another core ends the desire for one.
MonitorStart ==
    /\ up /\ desired /\ child = None
    /\ \/ foreign /\ desired' = FALSE /\ UNCHANGED <<child, tun>>
       \/ ~foreign /\ exe # None /\ child' = exe /\ tun' = "off" /\ UNCHANGED desired
    /\ UNCHANGED <<files, up, foreign, phase, cooling, pc, job, gui, proven>>

CoreExits ==
    /\ May("exit") /\ child # None /\ child' = None
    /\ tun' = IF tun = "off" THEN "off" ELSE "undo"
    /\ UNCHANGED <<files, up, foreign, desired, phase, cooling, pc, job, gui, proven>>

ForeignCore ==
    /\ May("foreign")
    /\ foreign' = ~foreign /\ (foreign' => child = None)
    /\ UNCHANGED <<files, up, child, desired, tun, phase, cooling, pc, job, gui, proven>>

\* The job object takes the core with the service.
Crash ==
    /\ May("crash") /\ up /\ up' = FALSE
    /\ child' = None /\ tun' = IF tun = "off" THEN "off" ELSE "undo"
    /\ pc' = "idle" /\ job' = NoJob /\ phase' = "idle" /\ cooling' = FALSE /\ queue' = 0
    /\ UNCHANGED <<files, foreign, desired, updating, proxy, proven>>

\* recover_orphaned_backup, before the service serves: an error, or a crash,
\* between its two file operations is a boot that starts again.
BootUnlink ==
    /\ ~up /\ backup # None /\ exe # None /\ exe' = None
    /\ UNCHANGED <<backup, repl, staged, up, core, phase, cooling, pc, job, gui, proven>>

BootRestore ==
    /\ ~up /\ backup # None /\ exe = None /\ exe' = backup /\ backup' = None
    /\ UNCHANGED <<repl, staged, up, core, phase, cooling, pc, job, gui, proven>>

Boot ==
    /\ ~up /\ backup = None /\ up' = TRUE
    /\ tun' \in IF tun = "undo" /\ May("tun") THEN {"off", "undo"} ELSE {"off"}
    /\ UNCHANGED <<files, child, foreign, desired, phase, cooling, pc, job, gui, proven>>

\* mihomo_core_update_install in the GUI.
GuiInstall ==
    /\ ~proxy /\ ~updating /\ queue < MaxQueue /\ up
    /\ updating' = TRUE /\ queue' = queue + 1
    /\ UNCHANGED <<files, up, core, phase, cooling, pc, job, proxy, proven>>

\* The answer comes, or IPC_TIMEOUT passes, whatever the service does.
GuiEnds ==
    /\ updating /\ (May("timeout") \/ (queue = 0 /\ pc = "idle"))
    /\ updating' = FALSE
    /\ UNCHANGED <<files, up, core, phase, cooling, pc, job, queue, proxy, proven>>

\* set_enabled of the system proxy: refused while updating; it needs a core.
GuiProxy ==
    /\ ~updating /\ proxy' = ~proxy /\ (proxy' => child # None)
    /\ UNCHANGED <<files, up, core, phase, cooling, pc, job, updating, queue, proven>>

\* What core_install does once the download is over.
InstallStep ==
    \/ ValidateConfig \/ Prepare \/ Halt
    \/ ClearReplacement \/ CopyReplacement \/ KeepOriginal \/ SwapIn
    \/ StartNew \/ CheckVersion \/ RestoreTun \/ Finalize \/ Cleanup
    \/ StopFailed \/ Unlink \/ Restore \/ Restart \/ RestoreOldTun

Next ==
    \/ CooldownEnds \/ CoreCheck \/ Take \/ FindRelease \/ Download \/ InstallStep
    \/ Command \/ MonitorStart \/ CoreExits \/ ForeignCore
    \/ Crash \/ BootUnlink \/ BootRestore \/ Boot
    \/ GuiInstall \/ GuiEnds \/ GuiProxy

Spec == Init /\ [][Next]_vars

\* The steps after the download are local work with timeouts of their own; the
\* download has none, and nothing is assumed of it.
FairSpec == Spec /\ WF_vars(InstallStep)

(* ---- properties -------------------------------------------------------- *)

\* The build a start of the service would run.
Installed == IF backup # None THEN backup ELSE exe

Swap == INSTANCE CoreSwap WITH installed <- Installed

\* The detailed update implements the one-step swap: through every crash,
\* failed rename and failed health check the build that survives is the old
\* one or one that has run and passed (replace_core, rollback_core,
\* finalize_core, recover_orphaned_backup).
SwapImplemented == Swap!Spec

\* The phase the GUI shows as completed is never shown while the files still
\* say that the update has not ended: a boot would undo it.
CompletedMeansCommitted ==
    phase = "completed" => backup = None /\ exe \in proven

\* An installation that has its download always ends: no step of it waits on
\* another task for ever, whatever fails.
InstallEnds == pc \notin Before ~> pc = "idle"

\* "Core 更新前必须关闭 Windows System Proxy，避免 Mihomo 停止期间断网": the
\* proxy is not on while core_install has the core stopped.
ProxyOffWhileStopped ==
    pc \in Swapping \cup {"start"} /\ job.was => ~proxy
=============================================================================
