----------------------------- MODULE GuiSession -----------------------------
(***************************************************************************)
(* The GUI without a service: the fallback core it starts as a sidecar     *)
(* (src-tauri/src/mihomo/controller.rs) and its own TUN session            *)
(* (src-tauri/src/tun.rs).                                                 *)
(*                                                                         *)
(* Four tasks: mihomo_start, mihomo_stop, tun_set_enabled, and the handler *)
(* of the Terminated event of each sidecar.  mihomo_start and the handler  *)
(* hold CORE_LIFECYCLE_LOCK, mihomo_stop does not; every TUN routine holds *)
(* TRANSITION_LOCK, which is taken second.  The child marker in CoreState  *)
(* and the process are two things: a process may be gone while its marker  *)
(* stands, and the marker is all that the commands look at.                *)
(***************************************************************************)
EXTENDS Naturals, FiniteSets

CONSTANTS
    Pids,     \* process ids, used again once an exit has been handled
    NoPid,    \* None
    GuiFaults \* what the environment may do, see GuiFaultKinds

\* "exit": a sidecar dies; "spawn": it cannot be started, or its configuration
\* is refused; "api": it does not answer, or not as expected; "disk": a file
\* operation fails; "crash": the GUI dies and leaves its sidecar behind;
\* "eager": the user starts a core before the last one has been cleaned up;
\* "kill": Windows refuses to kill a sidecar.
GuiFaultKinds == {"exit", "spawn", "api", "disk", "crash", "eager", "kill"}

ASSUME GuiAssumption == NoPid \notin Pids /\ GuiFaults \subseteq GuiFaultKinds

VARIABLES
    live, loaded,   \* the sidecars that run; those that have TUN enabled
    gone,           \* the sidecars whose Terminated event is not yet handled
    orphan,         \* the sidecar of a GUI that died, which keeps the controller and
                    \* what it has loaded, see Orphans
    child,          \* CoreState.child
    stopReq, ready, \* stop_requested and ready_observed
    lastError,      \* whether CoreState.last_error is set
    port,           \* the sidecar the committed mixed-port belongs to
    override, stable, \* TUN in the override file and in the stable configuration
    file,           \* tun-state.json is there
    status, prof, blocked, \* TunRuntime: status, a profile_id, recovery_blocked
    life,           \* holder of CORE_LIFECYCLE_LOCK
    tunBy, tunPc,   \* holder of TRANSITION_LOCK and the point of its routine
    startPc, mine,  \* mihomo_start and the sidecar it has spawned
    stopPc,         \* mihomo_stop
    exitPc, exiting \* the Terminated handler that has the lock, and its sidecar

process == <<live, loaded, gone, orphan>>
marks   == <<child, stopReq, ready, lastError, port>>
configs == <<override, stable, file>>
session == <<status, prof, blocked>>
locks   == <<life, tunBy, tunPc>>
tasks   == <<startPc, mine, stopPc, exitPc, exiting>>
guiVars == <<process, marks, configs, session, locks, tasks>>

MaybePid == Pids \cup {NoPid}
\* No orphan; one without TUN; one with TUN, and (history) one with TUN whose
\* session a restore that could not reach it has ended.
Orphans == {"none", "plain", "tun", "forgotten"}
TunStatuses == {"disabled", "starting", "running", "stopping", "error"}

\* The points of the TUN routines; from lower to clear restore_non_tun_runtime.
Restoring == {"lower", "generate", "unload", "clear"}
TunPoints == {"idle", "record", "raise", "load", "confirm"} \cup Restoring

GuiTypeOK ==
    /\ live \subseteq Pids /\ loaded \subseteq live /\ gone \subseteq Pids \ live
    /\ orphan \in Orphans /\ child \in MaybePid /\ port \in MaybePid
    /\ stopReq \in BOOLEAN /\ ready \in BOOLEAN /\ lastError \in BOOLEAN
    /\ override \in BOOLEAN /\ stable \in BOOLEAN /\ file \in BOOLEAN
    /\ status \in TunStatuses /\ prof \in BOOLEAN /\ blocked \in BOOLEAN
    /\ life \in {"free", "start", "exit"}
    /\ tunBy \in {"free", "tun", "undo", "stop", "exit", "boot"}
    /\ tunPc \in TunPoints /\ (tunBy = "free") = (tunPc = "idle")
    /\ startPc \in {"idle", "begin", "prepare", "spawn", "wait"} /\ mine \in MaybePid
    /\ stopPc \in {"idle", "tun", "kill", "down"}
    /\ exitPc \in {"idle", "tun", "finish", "down"} /\ exiting \in MaybePid

GuiInit ==
    /\ live = {} /\ loaded = {} /\ gone = {} /\ orphan = "none"
    /\ child = NoPid /\ stopReq = FALSE /\ ready = FALSE /\ lastError = FALSE
    /\ port = NoPid /\ override = FALSE /\ stable = FALSE /\ file = FALSE
    /\ status = "disabled" /\ prof = FALSE /\ blocked = FALSE
    /\ life = "free" /\ tunBy = "free" /\ tunPc = "idle"
    /\ startPc = "idle" /\ mine = NoPid /\ stopPc = "idle"
    /\ exitPc = "idle" /\ exiting = NoPid

May(fault) == fault \in GuiFaults

\* ensure_managed_core, core_ready_for_pid: the marked sidecar answers.
Ready(p) == p \in live

\* requires_recovery.
Active == \/ blocked \/ status \in {"starting", "running", "stopping"}
          \/ (status = "error" /\ prof)

\* classify_user_state.
UserState == IF child # NoPid /\ Ready(child) THEN "ready"
             ELSE IF lastError \/ (child # NoPid /\ ready) THEN "error"
             ELSE IF child # NoPid THEN "starting" ELSE "stopped"

\* p is killed, or dies: its event is on its way.
Dies(p) ==
    /\ live' = live \ {p} /\ loaded' = loaded \ {p}
    /\ gone' = IF p \in live THEN gone \cup {p} ELSE gone

(* ---- mihomo_start ------------------------------------------------------ *)

\* Without "eager" the user waits for the answer of a command, and after a stop
\* or a failed start for mihomo-stopped; nobody waits for an exit that comes by
\* itself.
StartBegins ==
    /\ tunBy # "boot" /\ startPc = "idle" /\ life = "free"
    /\ May("eager") \/ (stopPc = "idle" /\ (stopReq => gone = {}))
    /\ life' = "start" /\ startPc' = "begin"
    /\ UNCHANGED <<process, marks, configs, session, tunBy, tunPc, mine, stopPc, exitPc, exiting>>

StartEnds == startPc' = "idle" /\ mine' = NoPid /\ life' = "free"

\* A sidecar that answers is the answer; one that is marked is being cleaned
\* up; another core on the controller is refused.
StartLooks ==
    /\ startPc = "begin"
    /\ \/ /\ child # NoPid /\ Ready(child) /\ lastError' = FALSE /\ StartEnds
          /\ ready' = TRUE
       \/ /\ child # NoPid /\ (May("api") \/ ~Ready(child)) /\ StartEnds
          /\ UNCHANGED <<lastError, ready>>
       \/ /\ child = NoPid /\ (orphan # "none" \/ live # {}) /\ StartEnds
          /\ UNCHANGED <<lastError, ready>>
       \/ /\ child = NoPid /\ orphan = "none" /\ live = {} /\ lastError' = FALSE
          /\ startPc' = "prepare" /\ UNCHANGED <<life, mine, ready>>
    /\ UNCHANGED <<process, child, stopReq, port, configs, session,
                   tunBy, tunPc, stopPc, exitPc, exiting>>

\* restore_active_runtime_config_at: the stable configuration is generated
\* again from the override, whatever the session.
StartPrepares ==
    /\ startPc = "prepare"
    /\ \/ /\ stable' = override /\ port' = NoPid /\ startPc' = "spawn"
          /\ UNCHANGED <<lastError, life, mine>>
       \/ /\ May("disk") /\ lastError' = TRUE /\ StartEnds
          /\ stable' \in {stable, override} /\ UNCHANGED port
    /\ UNCHANGED <<process, child, stopReq, ready, override, file, session,
                   tunBy, tunPc, stopPc, exitPc, exiting>>

StartSpawns ==
    /\ startPc = "spawn"
    /\ \/ \E p \in Pids \ (live \cup gone) :
            /\ live' = live \cup {p} /\ mine' = p /\ child' = p
            /\ loaded' = IF stable THEN loaded \cup {p} ELSE loaded
            /\ stopReq' = FALSE /\ ready' = FALSE /\ startPc' = "wait"
            /\ UNCHANGED <<lastError, life>>
       \/ /\ May("spawn") /\ lastError' \in {lastError, TRUE} /\ StartEnds
          /\ UNCHANGED <<live, loaded, child, stopReq, ready>>
    /\ UNCHANGED <<gone, orphan, port, configs, session, tunBy, tunPc, stopPc, exitPc, exiting>>

StartSucceeds ==
    /\ startPc = "wait" /\ Ready(mine)
    /\ port' = mine /\ ready' = TRUE /\ StartEnds
    /\ UNCHANGED <<process, child, stopReq, lastError, configs, session,
                   tunBy, tunPc, stopPc, exitPc, exiting>>

\* Mutant: the sidecar that did not become ready is left running.
StartFailsLeaving ==
    /\ startPc = "wait" /\ (May("api") \/ May("disk") \/ ~Ready(mine))
    /\ stopReq' = TRUE /\ lastError' = TRUE /\ StartEnds
    /\ child' = IF child = mine THEN NoPid ELSE child
    /\ UNCHANGED <<process, ready, port, configs, session, tunBy, tunPc, stopPc, exitPc, exiting>>

\* Not ready in ten seconds, dead, or a port that could not be stored:
\* stop_child_after_failed_start kills it if it is still the marked one, and
\* does not look whether that worked.
StartFails ==
    /\ startPc = "wait" /\ (May("api") \/ May("disk") \/ ~Ready(mine))
    /\ stopReq' = TRUE /\ lastError' = TRUE /\ StartEnds
    /\ \/ child = mine /\ child' = NoPid /\ Dies(mine)
       \/ child = mine /\ child' = NoPid /\ May("kill") /\ UNCHANGED <<live, loaded, gone>>
       \/ child # mine /\ UNCHANGED <<child, live, loaded, gone>>
    /\ UNCHANGED <<orphan, ready, port, configs, session, tunBy, tunPc, stopPc, exitPc, exiting>>

(* ---- the Terminated handler -------------------------------------------- *)

ExitBegins ==
    /\ life = "free" /\ exitPc = "idle" /\ tunBy # "boot"
    /\ \E p \in gone : exiting' = p
    /\ life' = "exit" /\ exitPc' = "tun"
    /\ UNCHANGED <<process, marks, configs, session, tunBy, tunPc, startPc, mine, stopPc>>

\* Mutant: the session is left to whoever else undoes it.
ExitTakesTunWaiting ==
    /\ exitPc = "tun" /\ tunBy = "free" /\ ~file /\ ~prof /\ exitPc' = "finish"
    /\ UNCHANGED <<process, marks, configs, session, life, tunBy, tunPc,
                   startPc, mine, stopPc, exiting>>

\* on_mihomo_exit.  The session is in tun-state.json, or in the runtime.
ExitTakesTun ==
    /\ exitPc = "tun" /\ tunBy = "free"
    /\ \/ /\ (file \/ prof) /\ tunBy' = "exit" /\ tunPc' = "lower" /\ exitPc' = "down"
          /\ UNCHANGED session
       \/ /\ May("disk") /\ status' = "error" /\ exitPc' = "finish"
          /\ UNCHANGED <<prof, blocked, tunBy, tunPc>>
       \/ /\ ~file /\ ~prof /\ exitPc' = "finish" /\ UNCHANGED <<session, tunBy, tunPc>>
    /\ UNCHANGED <<process, marks, configs, life, startPc, mine, stopPc, exiting>>

\* The marker is cleared, whichever sidecar it stands for by now.
ExitFinishes ==
    /\ exitPc = "finish" /\ exitPc' = "idle" /\ exiting' = NoPid /\ life' = "free"
    /\ gone' = gone \ {exiting} /\ child' = NoPid /\ port' = NoPid
    /\ ready' = FALSE /\ stopReq' = FALSE
    /\ \E abnormal \in BOOLEAN :
         lastError' = IF abnormal THEN (lastError \/ ~stopReq) ELSE FALSE
    /\ UNCHANGED <<live, loaded, orphan, configs, session, tunBy, tunPc, startPc, mine, stopPc>>

(* ---- mihomo_stop ------------------------------------------------------- *)

\* A core that is not marked, and answers, is refused.
StopBegins ==
    /\ stopPc = "idle" /\ tunBy # "boot"
    /\ May("eager") \/ startPc \in {"idle", "wait"}
    /\ child # NoPid \/ (orphan = "none" /\ live = {})
    /\ stopPc' = "tun"
    /\ UNCHANGED <<process, marks, configs, session, locks, startPc, mine, exitPc, exiting>>

\* tun::restore_for_lifecycle.
StopTakesTun ==
    /\ stopPc = "tun" /\ tunBy = "free"
    /\ \/ /\ (file \/ prof) /\ tunBy' = "stop" /\ tunPc' = "lower" /\ stopPc' = "down"
       \/ May("disk") /\ stopPc' = "idle" /\ UNCHANGED <<tunBy, tunPc>>
       \/ ~file /\ ~prof /\ stopPc' = "kill" /\ UNCHANGED <<tunBy, tunPc>>
    /\ UNCHANGED <<process, marks, configs, session, life, startPc, mine, exitPc, exiting>>

StopKills ==
    /\ stopPc = "kill" /\ stopPc' = "idle"
    /\ stopReq' = TRUE /\ child' = NoPid
    /\ \/ /\ \/ child = NoPid /\ UNCHANGED <<live, loaded, gone>>
             \/ child # NoPid /\ Dies(child)
          /\ lastError' = FALSE /\ ready' = FALSE /\ port' = NoPid
       \/ /\ child # NoPid /\ May("kill")
          /\ UNCHANGED <<live, loaded, gone, lastError, ready, port>>
    /\ UNCHANGED <<orphan, configs, session, locks, startPc, mine, exitPc, exiting>>

(* ---- enable_tun -------------------------------------------------------- *)

Unlocked == tunBy' = "free" /\ tunPc' = "idle"

\* The checks before anything is written; a refusal is shown as an error.
EnableChecks ==
    /\ tunBy = "free" /\ ~Active
    /\ \/ /\ child # NoPid /\ Ready(child) /\ child \notin loaded
          /\ tunBy' = "tun" /\ tunPc' = "record"
          /\ status' = "starting" /\ prof' = TRUE
       \/ /\ child = NoPid \/ May("api")
          /\ status' = "error" /\ UNCHANGED <<prof, tunBy, tunPc>>
    /\ UNCHANGED <<process, marks, configs, blocked, life, tasks>>

\* Mutant: the override is written before the session is recorded.
EnableRecordsLate ==
    /\ tunPc = "record" /\ tunPc' = "raise"
    /\ UNCHANGED <<process, marks, configs, session, tunBy, life, tasks>>

EnableRecords ==
    /\ tunPc = "record"
    /\ \/ file' = TRUE /\ tunPc' = "raise" /\ UNCHANGED <<tunBy, status, prof>>
       \/ May("disk") /\ Unlocked /\ status' = "disabled" /\ prof' = FALSE /\ UNCHANGED file
    /\ UNCHANGED <<process, marks, override, stable, blocked, life, tasks>>

Undo == tunBy' = "undo" /\ tunPc' = "lower"

EnableRaises ==
    /\ tunPc = "raise"
    /\ \/ override' = TRUE /\ tunPc' = "load" /\ UNCHANGED tunBy
       \/ May("disk") /\ Undo /\ UNCHANGED override
    /\ UNCHANGED <<process, marks, stable, file, session, life, tasks>>

\* load_tun_runtime: the stable configuration, then the sidecar.
EnableLoads ==
    /\ tunPc = "load"
    /\ \/ May("disk") /\ Undo /\ UNCHANGED <<stable, loaded>>
       \/ /\ stable' = override
          /\ \/ Ready(child) /\ loaded' = loaded \cup {child} /\ tunPc' = "confirm"
                /\ UNCHANGED tunBy
             \/ Ready(child) /\ May("api") /\ Undo /\ loaded' \in {loaded, loaded \cup {child}}
             \/ ~Ready(child) /\ Undo /\ UNCHANGED loaded
    /\ UNCHANGED <<live, gone, orphan, marks, override, file, session, life, tasks>>

EnableConfirms ==
    /\ tunPc = "confirm"
    /\ \/ Ready(child) /\ status' = "running" /\ Unlocked
       \/ (~Ready(child) \/ May("api")) /\ Undo /\ UNCHANGED status
       \/ Ready(child) /\ May("disk") /\ Undo /\ status' = "running"
    /\ UNCHANGED <<process, marks, configs, prof, blocked, life, tasks>>

(* ---- disable_tun and restore_non_tun_runtime --------------------------- *)

DisableBegins ==
    /\ tunBy = "free" /\ Active /\ ~blocked
    /\ \/ /\ child = NoPid \/ Ready(child)
          /\ status' = "stopping" /\ tunBy' = "tun" /\ tunPc' = "lower"
       \/ /\ child # NoPid /\ (~Ready(child) \/ May("api"))
          /\ status' = "error" /\ UNCHANGED <<tunBy, tunPc>>
    /\ UNCHANGED <<process, marks, configs, prof, blocked, life, tasks>>

\* With no session there is only an error message to take back.
DisableNothing ==
    /\ tunBy = "free" /\ ~Active /\ status' = "disabled"
    /\ UNCHANGED <<process, marks, configs, prof, blocked, locks, tasks>>

\* The end of each routine that restores: disable_tun, rollback_enable,
\* restore_for_lifecycle, on_mihomo_exit and recover_after_startup.
RestoreEnds(ok) ==
    /\ Unlocked
    /\ stopPc' = IF tunBy # "stop" THEN stopPc ELSE IF ok THEN "kill" ELSE "idle"
    /\ exitPc' = IF tunBy = "exit" THEN "finish" ELSE exitPc
    /\ IF ok THEN status' = "disabled" /\ prof' = FALSE /\ blocked' = FALSE
       ELSE IF tunBy = "stop" THEN UNCHANGED session
       ELSE status' = "error" /\ prof' = TRUE /\ UNCHANGED blocked

Step(point) == tunPc' = point /\ UNCHANGED <<tunBy, session, stopPc, exitPc>>

RestoreLowers ==
    /\ tunPc = "lower"
    /\ \/ override' = FALSE /\ Step("generate")
       \/ May("disk") /\ RestoreEnds(FALSE) /\ UNCHANGED override
    /\ UNCHANGED <<process, marks, stable, file, life, startPc, mine, exiting>>

\* on_mihomo_exit and recover_after_startup have no core to tell.
RestoreGenerates ==
    /\ tunPc = "generate"
    /\ \/ /\ stable' = override
          /\ Step(IF tunBy \in {"exit", "boot"} THEN "clear" ELSE "unload")
       \/ May("disk") /\ RestoreEnds(FALSE) /\ UNCHANGED stable
    /\ UNCHANGED <<process, marks, override, file, life, startPc, mine, exiting>>

\* Mutant: the core that does not answer is not told, and taken for stopped.
RestoreUnloadsMaybe ==
    /\ tunPc = "unload"
    /\ \/ child # NoPid /\ Ready(child) /\ loaded' = loaded \ {child} /\ Step("clear")
       \/ Step("clear") /\ UNCHANGED loaded
    /\ UNCHANGED <<live, gone, orphan, marks, configs, life, startPc, mine, exiting>>

RestoreUnloads ==
    /\ tunPc = "unload"
    /\ \/ child = NoPid /\ Step("clear") /\ UNCHANGED loaded
       \/ child # NoPid /\ Ready(child) /\ loaded' = loaded \ {child} /\ Step("clear")
       \/ /\ child # NoPid /\ (~Ready(child) \/ May("api")) /\ RestoreEnds(FALSE)
          /\ loaded' \in IF May("api") THEN {loaded, loaded \ {child}} ELSE {loaded}
    /\ UNCHANGED <<live, gone, orphan, marks, configs, life, startPc, mine, exiting>>

\* An orphan is not told, with its TUN: owns_core is false.
RestoreClears ==
    /\ tunPc = "clear"
    /\ \/ /\ file' = FALSE /\ RestoreEnds(TRUE)
          /\ orphan' = IF orphan = "tun" THEN "forgotten" ELSE orphan
       \/ May("disk") /\ RestoreEnds(FALSE) /\ UNCHANGED <<file, orphan>>
    /\ UNCHANGED <<live, loaded, gone, marks, override, stable, life, startPc, mine, exiting>>

(* ---- the environment --------------------------------------------------- *)

SidecarExits ==
    /\ May("exit") /\ \E p \in live : Dies(p)
    /\ UNCHANGED <<orphan, marks, configs, session, locks, tasks>>

OrphanExits ==
    /\ orphan # "none" /\ orphan' = "none"
    /\ UNCHANGED <<live, loaded, gone, marks, configs, session, locks, tasks>>

\* The next GUI finds the files, and perhaps the sidecar of the last one with
\* what it has loaded; recover_after_startup comes before any command.
CrashAndRestart ==
    /\ May("crash")
    /\ live' = {} /\ loaded' = {} /\ gone' = {}
    /\ orphan' = IF live = {} THEN orphan ELSE IF loaded = {} THEN "plain" ELSE "tun"
    /\ child' = NoPid /\ stopReq' = FALSE /\ ready' = FALSE /\ lastError' = FALSE
    /\ startPc' = "idle" /\ mine' = NoPid /\ stopPc' = "idle"
    /\ exitPc' = "idle" /\ exiting' = NoPid /\ life' = "free"
    /\ \/ /\ file /\ tunBy' = "boot" /\ tunPc' = "lower"
          /\ status' = "disabled" /\ prof' = FALSE /\ blocked' = FALSE
       \/ ~file /\ Unlocked /\ status' = "disabled" /\ prof' = FALSE /\ blocked' = FALSE
       \/ file /\ May("disk") /\ Unlocked /\ status' = "error" /\ prof' = FALSE /\ blocked' = TRUE
    /\ UNCHANGED <<port, configs>>

StartStep == StartLooks \/ StartPrepares \/ StartSpawns \/ StartSucceeds \/ StartFails
ExitStep  == ExitTakesTun \/ ExitFinishes
StopStep  == StopTakesTun \/ StopKills
TunStep   == \/ EnableRecords \/ EnableRaises \/ EnableLoads \/ EnableConfirms
             \/ RestoreLowers \/ RestoreGenerates \/ RestoreUnloads \/ RestoreClears

GuiNext ==
    \/ StartBegins \/ StartStep \/ ExitBegins \/ ExitStep \/ StopBegins \/ StopStep
    \/ EnableChecks \/ DisableBegins \/ DisableNothing \/ TunStep
    \/ SidecarExits \/ OrphanExits \/ CrashAndRestart

GuiSpec == GuiInit /\ [][GuiNext]_guiVars

\* Every task runs on; a lock that is given back again and again is granted.
GuiFairSpec ==
    /\ GuiSpec
    /\ WF_guiVars(StartStep) /\ WF_guiVars(TunStep) /\ WF_guiVars(StopKills)
    /\ SF_guiVars(ExitBegins) /\ SF_guiVars(ExitTakesTun) /\ WF_guiVars(ExitFinishes)

(* ---- properties -------------------------------------------------------- *)

\* A sidecar that runs is the marked one: no command, exit or failed start
\* leaves a core behind that nobody can stop any more (CORE_LIFECYCLE_LOCK and
\* the marker that is kept until the clean-up is over, controller.rs:37-38).
CoreStaysOwned == live \subseteq {child}

\* Whatever has TUN enabled or would start a core with it is covered by
\* tun-state.json, from which the next GUI undoes it (write_persisted before
\* set_tun_enabled, clear_persisted after the restore): the files, this GUI's
\* sidecar and, until a restore has been through, one a dead GUI left behind.
SessionRecorded == override \/ stable \/ loaded # {} \/ orphan = "tun" => file

\* TUN is never shown as off while a sidecar has it: not after a restore that
\* the core has not confirmed, nor when the session could not be recorded, nor
\* after a crash, except by a restore that has ended beside an orphan.
OffMeansOff == status = "disabled" /\ tunBy = "free" => loaded = {} /\ orphan # "tun"

\* Not so (GuiSession_stray.cfg), without the exception: when recover_after_startup
\* says that the last session ended abnormally and the original configuration is
\* back, no core has TUN.
OffEverywhere ==
    status = "disabled" /\ tunBy = "free" => loaded = {} /\ orphan \in {"none", "plain"}

\* An exit is always cleaned up: the handler gets both locks and ends.
ExitsHandled == \A p \in Pids : p \in gone ~> (p \notin gone)
=============================================================================
