----------------------------- MODULE AppUpdate ------------------------------
(***************************************************************************)
(* The update of MioProxy itself (src-tauri/src/update.rs): the GUI stops  *)
(* the system proxy, TUN, the core and the service, hands over to the      *)
(* installer, and the next GUI puts back what update-checkpoint.json says  *)
(* was running.                                                            *)
(*                                                                         *)
(* Two tasks may be under way: what installUpdate (src/App.tsx) asks for,  *)
(* which is update_prepare, the installer or, when anything fails,         *)
(* update_mark_failed; and the recovery a GUI runs when it starts          *)
(* (lib.rs).  Both restore the earlier state with restore_previous_state.  *)
(* Between their steps the user, the status poll, the handler of a core's  *)
(* exit and other programs come in.                                        *)
(*                                                                         *)
(* A listener pid is abstracted to whether the recorded one is that of the *)
(* core now running, which is all the code asks of it.                     *)
(***************************************************************************)
EXTENDS Naturals

CONSTANTS
    LastVersion,  \* bound on the versions published
    Faults        \* what the environment may do, see FaultKinds

\* "step": a call to the service, the core, TUN or the registry fails;
\* "installer": the installer fails; "crash": the GUI dies; "restart": the core
\* dies, or the service replaces a core that died; "takeover": another program
\* sets the system proxy; "hasty": the user does not wait for a recovery to end;
\* "record": update-checkpoint.json cannot be read, written or deleted.
FaultKinds == {"step", "installer", "crash", "restart", "takeover", "hasty", "record"}

ASSUME AppUpdateAssumption == LastVersion \in Nat \ {0} /\ Faults \subseteq FaultKinds

VARIABLES
    app,       \* the GUI runs, does not, or has handed over to the installer
    version,   \* the version installed
    cp,        \* update-checkpoint.json, or NoCp
    updating,  \* AppLifecycle.updating
    task,      \* the front end's task and the one of the GUI's start
    svc,       \* the service: absent, stopped or running
    core,      \* who started the core that runs: the service, the GUI, another
    tun,       \* TUN is enabled
    exits,     \* a Terminated event of the GUI's core is not yet handled
    reg,       \* Windows' proxy settings: those from before MioProxy, its own
               \* switched on or off, or another program's
    undo, upd, \* system-proxy-state.json and the snapshot of an update
    found,     \* history: what update_prepare found running, until anything
               \* but the update changes it; Nothing too when it found a sidecar
               \* of the GUI beside an installed service, and when the next GUI
               \* cannot read the checkpoint
    unmarked   \* history: update_mark_failed has failed and left `updating' set

runtime == <<svc, core, tun, exits>>
proxy   == <<reg, undo, upd>>
gui     == <<app, version>>
flag    == <<updating, unmarked>>
vars    == <<app, version, cp, updating, task, svc, core, tun, exits, reg, undo, upd,
             found, unmarked>>

Versions == 1 .. LastVersion
Phases == {"preparing", "installing", "restarting", "completed", "failed"}
NoCp == [phase |-> "none"]
Checkpoints == [prev : Versions, target : Versions, svc : BOOLEAN, core : BOOLEAN,
                tun : BOOLEAN, proxy : BOOLEAN, managed : BOOLEAN, phase : Phases]

\* A saved setting, and whether the listener recorded with it is today's core.
NoUndo == [to |-> "none", fresh |-> FALSE]
Snapshots == [to : {"none", "orig", "on", "off"}, fresh : BOOLEAN]

Preparing == {"disable", "tunoff", "corestop", "svcstop", "guistop", "verify"}
Restoring == {"service", "core", "tun", "proxy", "enable", "end"}
Points == {"idle", "prepared", "mark", "begin", "stale", "autostart"} \cup Preparing \cup Restoring
Idle == [pc |-> "idle", why |-> "none", rec |-> NoCp, errs |-> FALSE, quiet |-> FALSE]

Found == [svc : BOOLEAN, core : {"none", "svc", "gui", "other"}, tun : BOOLEAN, proxy : BOOLEAN]
Nothing == [svc |-> FALSE]

\* The shape of the state.
TypeOK ==
    /\ app \in {"up", "down", "installing"} /\ version \in Versions
    /\ cp \in Checkpoints \cup {NoCp} /\ updating \in BOOLEAN
    /\ \A t \in {"front", "boot"} :
          /\ task[t].pc \in Points /\ task[t].rec \in Checkpoints \cup {NoCp}
          /\ task[t].errs \in BOOLEAN /\ task[t].quiet \in BOOLEAN
          /\ task[t].why \in {"none", "prepare", "mark", "complete", "interrupted"}
          /\ app # "up" => task[t] = Idle
    /\ svc \in {"absent", "stopped", "running"} /\ core \in {"none", "svc", "gui", "other"}
    /\ core = "svc" => svc = "running"
    /\ tun \in BOOLEAN /\ exits \in BOOLEAN /\ (tun => core \in {"svc", "gui"})
    /\ reg \in {"orig", "on", "off", "ext"} /\ undo \in Snapshots /\ upd \in Snapshots
    /\ found \in Found \cup {Nothing} /\ (unmarked => updating) /\ unmarked \in BOOLEAN

Init ==
    /\ app = "down" /\ version = 1 /\ cp = NoCp /\ updating = FALSE
    /\ task = [t \in {"front", "boot"} |-> Idle]
    /\ svc \in {"absent", "stopped", "running"} /\ core = "none" /\ tun = FALSE /\ exits = FALSE
    /\ reg = "orig" /\ undo = NoUndo /\ upd = NoUndo /\ found = Nothing
    /\ unmarked = FALSE

May(fault) == fault \in Faults
Up(t, p) == app = "up" /\ task[t].pc = p
Goto(t, p) == task' = [task EXCEPT ![t].pc = p]
Fails(t, p) == task' = [task EXCEPT ![t].pc = p, ![t].errs = TRUE]

Managed == core \in {"svc", "gui"}

(* ---- the system proxy, as one step each: system_proxy.rs --------------- *)

\* current_still_mioproxy_owned, for settings switched on or off.
Owned(shape, fresh) == reg = shape /\ (core = "none" \/ fresh)

\* restore_for_lifecycle_inner.
RestoreProxy ==
    /\ reg' = IF undo.to # "none" /\ Owned("on", undo.fresh \/ Managed) THEN undo.to ELSE reg
    /\ undo' = NoUndo /\ upd' = upd

\* set_enabled(true), which refuses settings it has no record of.
CanEnable == Managed /\ reg # "ext" /\ (reg = "on" => undo.to # "none")

EnableProxy ==
    /\ undo' = [to |-> IF undo.to # "none" /\ reg \in {"on", "off"} THEN undo.to ELSE reg,
                fresh |-> TRUE]
    /\ reg' = "on" /\ upd' = NoUndo

\* is_enabled_for_update, is_managed_for_update.
EnabledForUpdate == Owned("on", undo.fresh)
ManagedForUpdate == undo.to # "none" \/ upd.to # "none"

\* Only what is recorded as its own is switched off.
DisableForUpdate ==
    IF EnabledForUpdate
      THEN reg' = "off" /\ upd' = [to |-> "on", fresh |-> undo.fresh] /\ undo' = undo
      ELSE UNCHANGED proxy

\* restore_after_update_failure, which is restore_after_update_success too.
\* Settings that are no longer as the update left them are taken for another
\* program's, and the record of what to restore is dropped.
Saved == IF upd.to # "none" THEN upd ELSE undo

RestoreAfterUpdate ==
    IF Saved.to = "none" \/ (reg = "off" /\ ~Owned("off", Saved.fresh)) THEN UNCHANGED proxy
    ELSE /\ reg' = IF reg = "off" THEN Saved.to ELSE reg
         /\ upd' = NoUndo
         /\ undo' = IF reg = "off" /\ upd.to # "none" THEN undo ELSE NoUndo

TakenOver == Saved.to # "none" /\ reg # "off"

\* A core of this owner starts: what was recorded of the last one's pid is stale.
CoreBecomes(owner) ==
    /\ core' = owner
    /\ undo' = [undo EXCEPT !.fresh = FALSE] /\ upd' = [upd EXCEPT !.fresh = FALSE]

(* ---- update_prepare ---------------------------------------------------- *)

\* What is left of whatever checkpoint there is when it is to be marked as failed.
Marked == {IF cp = NoCp THEN NoCp ELSE [cp EXCEPT !.phase = "failed"]}
             \cup IF May("record") THEN {cp} ELSE {}

FlagClears == updating' = FALSE /\ unmarked' = FALSE

\* mark_failed and the same lines of update_mark_failed: without the mark on
\* the disk the flag stays as it is.
MarkWritten ==
    /\ cp' = IF cp = NoCp THEN NoCp ELSE [cp EXCEPT !.phase = "failed"]
    /\ FlagClears

MarkUnwritten == May("record") /\ UNCHANGED <<cp, updating>>

\* ensure_upgrade.
Upgrades == {v \in Versions : v > version}

\* request_service_status_for_update: the service runs and the core is not its
\* own, be it another program's or the sidecar of the GUI.
OwnershipConflict == core \in {"gui", "other"} /\ svc = "running"

\* capture_runtime_snapshot, in the checkpoint of an update to target.
Captured(target) ==
    [prev |-> version, target |-> target, svc |-> svc = "running",
     core |-> IF svc = "absent" THEN core = "gui" ELSE core = "svc",
     tun |-> tun /\ svc # "stopped", proxy |-> EnabledForUpdate, managed |-> ManagedForUpdate,
     phase |-> "preparing"]

Prepare(target) ==
    /\ Up("front", "idle") /\ target \in Upgrades
    /\ IF updating \/ OwnershipConflict
         THEN /\ task' = [task EXCEPT !["front"].pc = "mark"] /\ found' = Nothing
              /\ UNCHANGED <<cp, flag>>
         ELSE /\ updating' = TRUE /\ unmarked' = FALSE
              /\ cp' = Captured(target)
              /\ task' = [task EXCEPT !["front"] = [Idle EXCEPT !.pc = "disable", !.why = "prepare"]]
              /\ found' = IF task["boot"] # Idle \/ (core = "gui" /\ svc # "absent") THEN Nothing
                          ELSE [svc |-> svc = "running", core |-> core, tun |-> tun,
                                proxy |-> reg = "on" /\ undo.to # "none" /\ undo.fresh]
    /\ UNCHANGED <<gui, runtime, proxy>>

\* update_prepare clears the flag whether mark_failed does or not, and restores
\* what the checkpoint says.
PrepareGivesUp ==
    /\ cp' \in Marked /\ FlagClears
    /\ \/ /\ cp # NoCp
          /\ task' = [task EXCEPT !["front"].pc = "service", !["front"].rec = cp']
       \/ /\ cp = NoCp \/ May("record")
          /\ task' = [task EXCEPT !["front"].pc = "mark", !["front"].rec = NoCp]

\* Any step of update_prepare may fail.
PrepareFails ==
    /\ app = "up" /\ task["front"].pc \in Preparing
    /\ May("step") \/ (task["front"].pc = "verify" /\ May("record"))
    /\ PrepareGivesUp
    /\ UNCHANGED <<gui, runtime, proxy, found>>

PrepareProxy ==
    /\ Up("front", "disable") /\ DisableForUpdate /\ Goto("front", "tunoff")
    /\ UNCHANGED <<gui, cp, flag, runtime, found>>

\* prepare_for_update: TUN, the core, the service.
PrepareTun ==
    /\ Up("front", "tunoff") /\ tun' = (tun /\ svc # "running") /\ Goto("front", "corestop")
    /\ UNCHANGED <<gui, cp, flag, svc, core, exits, proxy, found>>

PrepareCore ==
    /\ Up("front", "corestop")
    /\ core' = IF core = "svc" THEN "none" ELSE core
    /\ tun' = (tun /\ core # "svc")
    /\ Goto("front", "svcstop")
    /\ UNCHANGED <<gui, cp, flag, svc, exits, proxy, found>>

PrepareService ==
    /\ Up("front", "svcstop")
    /\ svc' = IF svc = "running" THEN "stopped" ELSE svc
    /\ core' = IF core = "svc" THEN "none" ELSE core
    /\ tun' = (tun /\ core # "svc")
    /\ Goto("front", "guistop")
    /\ UNCHANGED <<gui, cp, flag, exits, proxy, found>>

\* tun::restore_for_lifecycle and stop_owned_for_update.
PrepareGuiCore ==
    /\ Up("front", "guistop")
    /\ tun' = (tun /\ core # "gui")
    /\ core' = IF core = "gui" THEN "none" ELSE core
    /\ exits' = (exits \/ core = "gui")
    /\ Goto("front", "verify")
    /\ UNCHANGED <<gui, cp, flag, svc, proxy, found>>

Quiet == svc # "running" /\ ~tun /\ core # "gui"

\* The process ends without killing its sidecar.
LeaveSidecar ==
    /\ core' = IF core = "gui" THEN "other" ELSE core
    /\ tun' = (tun /\ core # "gui") /\ exits' = FALSE

PrepareEnds ==
    /\ Up("front", "verify")
    /\ IF Quiet /\ ~EnabledForUpdate /\ cp # NoCp
         THEN /\ cp' = [cp EXCEPT !.phase = "installing"] /\ Goto("front", "prepared")
              /\ UNCHANGED flag
         ELSE PrepareGivesUp
    /\ UNCHANGED <<gui, runtime, proxy, found>>

(* ---- the installer ------------------------------------------------------ *)

\* When before_updater_exit refuses, the process exits all the same, with the
\* checkpoint marked if that is possible.
Refused == app' = "down" /\ cp' \in Marked

\* Mutant: before_updater_exit relies on what update_prepare has verified.
LaunchUnverified ==
    /\ Up("front", "prepared")
    /\ task' = [t \in {"front", "boot"} |-> Idle]
    /\ IF cp.phase = "installing"
         THEN app' = "installing" /\ cp' = [cp EXCEPT !.phase = "restarting"] /\ DisableForUpdate
         ELSE Refused /\ UNCHANGED proxy
    /\ FlagClears
    /\ UNCHANGED <<version, runtime, found>>

\* before_updater_exit.
Launch ==
    /\ Up("front", "prepared")
    /\ task' = [t \in {"front", "boot"} |-> Idle]
    /\ \/ /\ cp.phase = "installing" /\ DisableForUpdate
          /\ \/ Quiet /\ app' = "installing" /\ cp' = [cp EXCEPT !.phase = "restarting"]
             \/ (~Quiet \/ May("record")) /\ Refused
       \/ /\ cp.phase # "installing" \/ May("record")
          /\ Refused /\ UNCHANGED proxy
    /\ FlagClears /\ LeaveSidecar
    /\ UNCHANGED <<version, svc, found>>

\* hooks.nsh and install_start_policy: a service that is there and stopped
\* stays stopped, one that is new is started unless nothing ran before.
Install ==
    /\ app = "installing"
    /\ version' = cp.target /\ app' = "down"
    /\ svc' = IF svc = "absent" /\ (cp.svc \/ cp.core) THEN "running" ELSE "stopped"
    /\ UNCHANGED <<cp, flag, task, core, tun, exits, proxy, found>>

InstallerFails ==
    /\ app = "installing" /\ May("installer")
    /\ app' = "down"
    /\ UNCHANGED <<version, cp, flag, task, runtime, proxy, found>>

\* The download, or install(), fails before the hook has run.
UpdateErrors ==
    /\ \/ Up("front", "idle") /\ Upgrades # {}
       \/ Up("front", "prepared")
    /\ May("step")
    /\ Goto("front", "mark")
    /\ found' = IF task["front"].pc = "idle" THEN Nothing ELSE found
    /\ UNCHANGED <<gui, cp, flag, runtime, proxy>>

(* ---- update_mark_failed, which installUpdate calls on every failure ----- *)

\* The checkpoint is read again for the recovery.
Recovers ==
    \/ /\ cp # NoCp
       /\ task' = [task EXCEPT !["front"] = [Idle EXCEPT !.pc = "service", !.why = "mark", !.rec = cp']]
    \/ /\ cp = NoCp \/ May("record")
       /\ task' = [task EXCEPT !["front"] = Idle]

\* Mutant: the flag is left to the task that set it.
MarkKeeping ==
    /\ Up("front", "mark") /\ cp' \in Marked /\ Recovers
    /\ UNCHANGED <<gui, flag, runtime, proxy, found>>

\* The front end ignores that the mark could not be written.
Mark ==
    /\ Up("front", "mark")
    /\ \/ MarkWritten /\ Recovers
       \/ /\ MarkUnwritten /\ unmarked' = updating
          /\ task' = [task EXCEPT !["front"] = Idle]
    /\ UNCHANGED <<gui, runtime, proxy, found>>

(* ---- restore_previous_state, of task t ---------------------------------- *)

\* resume_after_update_failure: the service starts, or has never been there.
RestoreService(t) ==
    LET rec == task[t].rec IN
    /\ Up(t, "service")
    /\ IF rec.svc
         THEN \/ /\ svc' = IF svc = "absent" THEN svc ELSE "running"
                 /\ Goto(t, IF rec.core THEN "core" ELSE "tun")
              \/ /\ May("step") /\ svc' \in IF svc = "absent" THEN {svc} ELSE {svc, "running"}
                 /\ Fails(t, "proxy")
         ELSE svc' = svc /\ Goto(t, IF rec.core THEN "core" ELSE "proxy")
    /\ UNCHANGED <<gui, cp, flag, core, tun, exits, proxy, found>>

\* request_core(Start), or start_owned_for_lifecycle when there was no service.
RestoreCore(t) ==
    LET owner == IF task[t].rec.svc THEN "svc" ELSE "gui" IN
    /\ Up(t, "core")
    /\ \/ /\ owner = "svc" => svc = "running"
          /\ core \in {"none", owner} \/ (owner = "gui" /\ core = "svc")
          /\ owner = "gui" => ~exits
          /\ IF core = "none" THEN CoreBecomes(owner) ELSE UNCHANGED <<core, undo, upd>>
          /\ Goto(t, "tun")
       \/ /\ May("step") \/ core = "other" \/ (owner = "svc" /\ svc # "running")
             \/ (owner = "svc" /\ core = "gui") \/ (owner = "gui" /\ exits)
          /\ Fails(t, "proxy") /\ UNCHANGED <<core, undo, upd>>
    /\ UNCHANGED <<gui, cp, flag, svc, tun, exits, reg, found>>

RestoreTun(t) ==
    /\ Up(t, "tun")
    /\ IF ~task[t].rec.tun THEN Goto(t, "proxy") /\ UNCHANGED tun
       ELSE \/ Managed /\ tun' = TRUE /\ Goto(t, "proxy")
            \/ /\ May("step") \/ ~Managed
               /\ Fails(t, "proxy") /\ UNCHANGED tun
    /\ UNCHANGED <<gui, cp, flag, svc, core, exits, proxy, found>>

RestoreSettings(t) ==
    LET rec == task[t].rec IN
    /\ Up(t, "proxy") /\ RestoreAfterUpdate
    /\ IF TakenOver THEN Fails(t, "end")
       ELSE Goto(t, IF ~task[t].errs /\ rec.proxy /\ rec.managed THEN "enable" ELSE "end")
    /\ UNCHANGED <<gui, cp, flag, runtime, found>>

RestoreEnable(t) ==
    /\ Up(t, "enable")
    /\ \/ ~updating /\ CanEnable /\ EnableProxy /\ Goto(t, "end")
       \/ /\ updating \/ ~CanEnable \/ May("step")
          /\ UNCHANGED proxy /\ Fails(t, "end")
    /\ UNCHANGED <<gui, cp, flag, runtime, found>>

\* update_prepare has failed and its caller reports that; update_mark_failed ends.
RestoreEnds ==
    /\ Up("front", "end")
    /\ task' = [task EXCEPT !["front"] =
          IF task["front"].why = "prepare" THEN [Idle EXCEPT !.pc = "mark"] ELSE Idle]
    /\ UNCHANGED <<gui, cp, flag, runtime, proxy, found>>

(* ---- the GUI starts: lib.rs --------------------------------------------- *)

\* checkpoint_recovery.
Recovery == IF cp = NoCp THEN "none"
            ELSE IF cp.target # version THEN "mismatch"
            ELSE IF cp.prev # version THEN "complete"
            ELSE IF cp.phase \in {"preparing", "installing", "restarting"} THEN "interrupted"
            ELSE "noaction"

\* Mutant: only a checkpoint that completes suppresses the automatic start.
SuppressCompleted == Recovery = "complete" /\ ~cp.svc /\ ~cp.core

\* startup_runtime_disposition: a runtime that was off stays off.
Suppress == /\ Recovery \in {"mismatch", "complete", "interrupted"}
               \/ (Recovery = "noaction" /\ cp.phase = "failed")
            /\ ~cp.svc /\ ~cp.core

\* recover_checkpoint, which may fail.
Boot ==
    /\ app = "down" /\ app' = "up"
    /\ cp' \in {CASE Recovery = "complete" -> [cp EXCEPT !.phase = "completed"]
                 [] Recovery = "interrupted" -> [cp EXCEPT !.phase = "failed"]
                 [] OTHER -> cp}
               \cup IF May("record") THEN {cp} ELSE {}
    /\ Goto("boot", "begin")
    /\ UNCHANGED <<version, flag, runtime, proxy, found>>

\* recover_after_startup.
BootBegins ==
    /\ Up("boot", "begin")
    /\ task' = [task EXCEPT !["boot"] =
          [Idle EXCEPT !.quiet = Suppress,
                       !.rec = IF Recovery \in {"complete", "interrupted"} THEN cp ELSE NoCp,
                       !.why = IF Recovery \in {"complete", "interrupted"} THEN Recovery ELSE "none",
                       !.pc = IF Recovery \in {"complete", "interrupted"} THEN "service" ELSE "stale"]]
    /\ UNCHANGED <<gui, cp, flag, runtime, proxy, found>>

\* Without the checkpoint it leaves everything to the automatic start.
BootUnread ==
    /\ Up("boot", "begin") /\ May("record")
    /\ task' = [task EXCEPT !["boot"] = [Idle EXCEPT !.pc = "stale"]] /\ found' = Nothing
    /\ UNCHANGED <<gui, cp, flag, runtime, proxy>>

\* The checkpoint is cleared when all of it is back, or marked failed, whoever
\* has written it.
BootRestored ==
    /\ Up("boot", "end")
    /\ task' = [task EXCEPT !["boot"] = [Idle EXCEPT !.pc = "stale", !.quiet = task["boot"].quiet]]
    /\ IF task["boot"].errs THEN MarkWritten \/ (MarkUnwritten /\ UNCHANGED unmarked)
       ELSE /\ cp' \in {IF task["boot"].why = "complete" THEN NoCp ELSE cp}
                       \cup IF May("record") THEN {cp} ELSE {}
            /\ UNCHANGED flag
    /\ UNCHANGED <<gui, runtime, proxy, found>>

BootEnds == task' = [task EXCEPT !["boot"] = Idle] /\ found' = Nothing

\* recover_stale_state.
BootProxy ==
    /\ Up("boot", "stale")
    /\ IF undo.to = "none" THEN UNCHANGED proxy
       ELSE IF core # "none" /\ Owned("on", undo.fresh \/ Managed)
       THEN undo' = [undo EXCEPT !.fresh = TRUE] /\ UNCHANGED <<reg, upd>>
       ELSE RestoreProxy
    /\ IF task["boot"].quiet THEN BootEnds
       ELSE Goto("boot", "autostart") /\ UNCHANGED found
    /\ UNCHANGED <<gui, cp, flag, runtime>>

\* The service starts a core, or the GUI does where there is no service.
BootCore ==
    /\ Up("boot", "autostart") /\ BootEnds
    /\ \/ /\ core = "none" /\ svc # "stopped" /\ ~(svc = "absent" /\ exits)
          /\ CoreBecomes(IF svc = "running" THEN "svc" ELSE "gui")
       \/ /\ core # "none" \/ svc = "stopped" \/ (svc = "absent" /\ exits) \/ May("step")
          /\ UNCHANGED <<core, undo, upd>>
    /\ UNCHANGED <<gui, cp, flag, svc, tun, exits, reg>>

(* ---- everything else that acts ------------------------------------------ *)

\* mihomo_status, which the front end polls, where the service has no core.
Poll ==
    /\ app = "up" /\ core = "none" /\ svc = "running" /\ ~exits
    /\ RestoreProxy
    /\ UNCHANGED <<gui, cp, flag, task, runtime, found>>

\* The Terminated handler of the GUI's core.
CoreExited ==
    /\ app = "up" /\ exits
    /\ RestoreProxy /\ exits' = FALSE
    /\ UNCHANGED <<gui, cp, flag, task, svc, core, tun, found>>

\* ensure_mutations_allowed: what the user asks for is refused during an update.
Command ==
    /\ ~updating /\ app = "up"
    /\ May("hasty") \/ \A t \in {"front", "boot"} : task[t] = Idle
    /\ found' = Nothing /\ UNCHANGED <<gui, cp, flag, task>>

UserProxy ==
    /\ Command /\ UNCHANGED runtime
    /\ \/ CanEnable /\ EnableProxy
       \/ undo.to # "none" /\ RestoreProxy

UserTun == Command /\ Managed /\ tun' = ~tun /\ UNCHANGED <<svc, core, exits, proxy>>

\* mihomo_start.
UserStart ==
    /\ Command /\ core = "none" /\ svc # "stopped" /\ ~(svc = "absent" /\ exits)
    /\ CoreBecomes(IF svc = "running" THEN "svc" ELSE "gui")
    /\ UNCHANGED <<svc, tun, exits, reg>>

\* mihomo_stop.
UserStop ==
    /\ Command /\ Managed
    /\ core' = "none" /\ tun' = FALSE /\ exits' = (exits \/ core = "gui")
    /\ RestoreProxy /\ UNCHANGED svc

\* The service is asked to disable TUN once, and what it does not confirm in time
\* is left as it is; the GUI's own TUN session must end.
ServiceTunAtExit ==
    IF core = "svc" THEN IF May("step") THEN {FALSE, tun} ELSE {FALSE} ELSE {tun}

\* ExitRequested: an update leaves everything to its own steps.  The shell
\* plugin kills the GUI's sidecar.
Quit ==
    /\ app = "up" /\ app' = "down"
    /\ task' = [t \in {"front", "boot"} |-> Idle] /\ FlagClears /\ found' = Nothing
    /\ IF updating THEN UNCHANGED proxy ELSE RestoreProxy
    /\ tun' \in IF core = "gui" THEN {FALSE} ELSE IF updating THEN {tun} ELSE ServiceTunAtExit
    /\ exits' = FALSE
    /\ core' = IF core = "gui" THEN "none" ELSE core
    /\ UNCHANGED <<version, cp, svc>>

\* A cleanup that fails prevents the exit; the others have been done.
QuitPrevented ==
    /\ app = "up" /\ ~updating /\ May("step") /\ found' = Nothing
    /\ tun' \in ServiceTunAtExit \cup {FALSE}
    /\ IF core = "gui" /\ tun' THEN RestoreProxy ELSE UNCHANGED proxy
    /\ UNCHANGED <<gui, cp, flag, task, svc, core, exits>>

Crash ==
    /\ app = "up" /\ May("crash") /\ app' = "down"
    /\ task' = [t \in {"front", "boot"} |-> Idle] /\ FlagClears /\ found' = Nothing
    /\ LeaveSidecar
    /\ UNCHANGED <<version, cp, svc, proxy>>

\* The core dies; the service may have another one up before anything notices.
CoreDies ==
    /\ May("restart") /\ core # "none" /\ found' = Nothing
    /\ \/ /\ core' = "none" /\ tun' = FALSE /\ exits' = (exits \/ core = "gui")
          /\ UNCHANGED proxy
       \/ core = "svc" /\ CoreBecomes("svc") /\ UNCHANGED <<tun, exits, reg>>
    /\ UNCHANGED <<gui, cp, flag, task, svc>>

OtherProgram ==
    /\ May("takeover") /\ found' = Nothing
    /\ reg' = IF reg = "ext" THEN "orig" ELSE "ext"
    /\ UNCHANGED <<gui, cp, flag, task, runtime, undo, upd>>

(* ---- specification ------------------------------------------------------ *)

Restore(t) == \/ RestoreService(t) \/ RestoreCore(t) \/ RestoreTun(t)
              \/ RestoreSettings(t) \/ RestoreEnable(t)

PrepareStep == \/ PrepareProxy \/ PrepareTun \/ PrepareCore \/ PrepareService
               \/ PrepareGuiCore \/ PrepareEnds \/ PrepareFails

FrontStep == PrepareStep \/ Restore("front") \/ RestoreEnds \/ Mark
BootStep == Restore("boot") \/ BootBegins \/ BootUnread \/ BootRestored \/ BootProxy \/ BootCore

Next ==
    \/ \E target \in Versions : Prepare(target)
    \/ FrontStep \/ Launch \/ UpdateErrors
    \/ Install \/ InstallerFails
    \/ Boot \/ BootStep
    \/ Poll \/ CoreExited
    \/ UserProxy \/ UserTun \/ UserStart \/ UserStop
    \/ Quit \/ QuitPrevented \/ Crash \/ CoreDies \/ OtherProgram

Spec == Init /\ [][Next]_vars

\* Every call of a task returns, the front end goes on with what it asked for
\* and the installer ends.  Nobody has to start the GUI again.
FairSpec == /\ Spec
            /\ WF_vars(FrontStep) /\ WF_vars(BootStep)
            /\ WF_vars(Launch) /\ WF_vars(Install \/ InstallerFails)

(* ---- properties --------------------------------------------------------- *)

\* The installer replaces the executables of the service and of the core, and
\* removes nothing of a TUN: whatever other tasks, the status poll and exits
\* did between the checks, none of these is in use when it takes over, and Windows
\* is not left with a port that nobody serves
\* (update_prepare and before_updater_exit, update.rs:551-566, 591-609).
InstallerAlone ==
    [][(app = "up" /\ app' = "installing") =>
         svc' # "running" /\ ~Managed' /\ ~tun' /\ (reg' = "on" => core' = "other")]_vars

\* An update ends in what it began with: a service and a core that were off are
\* off when the recovery of the next start is over, whether the version changed
\* or not, and with an upgrade that was completed everything that ran is back.
\* Only what the user, a failure or another program did meanwhile excuses, a
\* system proxy whose core was replaced since it was set, since its checkpoint is
\* written as if it were off, and a sidecar of the GUI beside an installed
\* service, for which capture_runtime_snapshot does not look
\* (recover_after_startup and restore_previous_state, update.rs:283, 446, and
\* lib.rs:127-170).
AsFound ==
    [][(found # Nothing /\ task["boot"] # Idle /\ task'["boot"] = Idle /\ app' = "up") =>
         IF ~found.svc /\ found.core = "none" THEN svc' # "running" /\ core' = "none"
         ELSE cp = NoCp => /\ found.svc => svc' = "running"
                           /\ found.core # "none" => core' = found.core
                           /\ found.tun => tun'
                           /\ found.proxy => reg' = "on" /\ undo'.to # "none"]_vars

\* Commands are refused while `updating' is set, so whatever fails, in whichever
\* task, the flag is cleared again or the process ends; it stays set only when
\* update_mark_failed itself could not read or write the checkpoint, which the
\* front end ignores (mark_failed, update.rs:221, update_prepare, 572, and
\* update_mark_failed, 694).
UpdateEnds == updating ~> (~updating \/ unmarked)

\* What the command gate would need.
UpdateAlwaysEnds == updating ~> ~updating

\* Settings that point to MioProxy come with a record of what they replaced, so
\* that the original ones can be restored (system_proxy.rs:199-236, 759-831).
UndoKept == reg = "on" => undo.to # "none"
=============================================================================
