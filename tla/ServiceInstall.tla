--------------------------- MODULE ServiceInstall ---------------------------
(***************************************************************************)
(* Installing, replacing and removing MioProxyService: the NSIS hooks      *)
(* (src-tauri/windows/hooks.nsh), the helper modes of the service's own    *)
(* executable, `--install` and `--uninstall`, its run as a Windows service *)
(* (src-tauri/src/bin/mioproxy-service.rs) and the daemon's accept loop    *)
(* (run_service_daemon in service.rs).                                     *)
(*                                                                         *)
(* Maintenance and the running service share only the service control      *)
(* manager (SCM) and the executables, of which the service itself replaces *)
(* mihomo.exe (core_install, and recover_orphaned_backup when it boots; in *)
(* detail they are CoreUpdate).  Maintenance stops at any point; the       *)
(* service may crash, and be restarted by the SCM, at any point of it.     *)
(***************************************************************************)
EXTENDS Naturals

CONSTANTS
    LastRelease,    \* releases 1..LastRelease are installed in turn
    MaxAttempts,    \* bound: maintenance runs
    Restarts,       \* Len(FAILURE_RESTART_DELAYS_SECS)
    InstallFaults   \* what may go wrong, see InstallFaultKinds

\* "step": a step of the maintenance fails, or its process dies; "crash": the
\* service dies, or its pipe or its data directory fails it; "cleanup": TUN
\* cannot be cleaned up; "power": Windows restarts; "swap": the service cannot
\* rename or remove mihomo.exe or its backup.
InstallFaultKinds == {"step", "crash", "cleanup", "power", "swap"}

\* A core that core_install has downloaded.
Newer == LastRelease + 1

ASSUME InstallAssumption ==
    /\ LastRelease \in Nat \ {0} /\ MaxAttempts \in Nat /\ Restarts \in Nat
    /\ InstallFaults \subseteq InstallFaultKinds

VARIABLES
    scm,        \* the SCM's record of the service
    exe, mihomo,    \* the release of each installed executable, 0 for none
    backup,     \* the release in mihomo.exe.backup, 0 for none
    host,       \* how far the service process is
    asked,      \* the shutdown channel: a stop was asked for
    child,      \* the service has a core
    adapter,        \* MioProxy's adapter, routes or DNS are in place
    op,         \* the maintenance under way, see NoOp
    attempts,   \* maintenance runs so far
    wanted,     \* history: neither the user nor an uninstall stopped it last
    upset,      \* history: since it last ran, it was not only stopped on purpose
    overlaid    \* history: executables were installed over an unfinished core update

service == <<host, asked, child, adapter>>
files   == <<exe, mihomo, backup>>
history == <<wanted, upset, overlaid>>
installVars == <<scm, files, service, op, attempts, history>>

Absent == [start |-> "absent", state |-> "stopped", exit |-> "never",
           queued |-> FALSE, failures |-> 0, actions |-> FALSE]

\* helper: without the installer; was, present: WasRunning and ServicePresent;
\* noted: an update's checkpoint says that neither service nor core ran;
\* left: the user had stopped the service, and it has not run since.
NoOp == [kind |-> "none", pc |-> "idle", helper |-> FALSE, was |-> FALSE,
         present |-> FALSE, noted |-> FALSE, left |-> FALSE, target |-> 0]

\* busy, loading: it serves a command, which has a core downloaded; swapping:
\* mihomo.exe has been set aside; hung: the daemon has returned with an error.
HostPhases == {"off", "boot", "serving", "busy", "loading", "swapping",
               "draining", "drained", "failed", "hung"}
InstallPoints == {"idle", "query", "disable", "stop", "wait", "verify", "delete",
                  "exe", "mihomo", "open", "halt", "settle", "register", "actions", "start"}

InstallTypeOK ==
    /\ scm \in [start : {"absent", "auto", "disabled"}, state : {"stopped", "running"},
                exit : {"clean", "aborted", "never"}, queued : BOOLEAN,
                failures : 0..Restarts + 1, actions : BOOLEAN]
    /\ exe \in 0..LastRelease /\ mihomo \in 0..Newer /\ backup \in 0..Newer
    /\ host \in HostPhases /\ (host = "off" <=> scm.state = "stopped")
    /\ asked \in BOOLEAN /\ child \in BOOLEAN /\ adapter \in BOOLEAN
    /\ op \in [kind : {"none", "install", "uninstall"}, pc : InstallPoints,
               helper : BOOLEAN, was : BOOLEAN, present : BOOLEAN, noted : BOOLEAN,
               left : BOOLEAN, target : 0..LastRelease]
    /\ attempts \in 0..MaxAttempts
    /\ wanted \in BOOLEAN /\ upset \in BOOLEAN /\ overlaid \in BOOLEAN

InstallInit ==
    /\ scm = Absent /\ exe = 0 /\ mihomo = 0 /\ backup = 0
    /\ host = "off" /\ asked = FALSE
    /\ child = FALSE /\ adapter = FALSE
    /\ op = NoOp /\ attempts = 0 /\ wanted = TRUE /\ upset = FALSE /\ overlaid = FALSE

-----------------------------------------------------------------------------
(* The SCM and the service process *)

CanStart == scm.start = "auto" /\ scm.state = "stopped" /\ exe # 0

\* StartService: the process reports Running before its daemon is built.
Started(s) == [s EXCEPT !.state = "running", !.queued = FALSE]
Launches ==
    /\ host' = "boot" /\ asked' = FALSE /\ UNCHANGED <<child, adapter>>
    /\ op' = [op EXCEPT !.left = FALSE]

\* An exit that does not report Stopped is a failure, and the SCM restarts it.
Ended(code) ==
    LET failed == code = "aborted"
    IN  [scm EXCEPT !.state = "stopped", !.exit = code,
                    !.queued = failed /\ scm.actions /\ scm.failures < Restarts,
                    !.failures = IF failed /\ @ <= Restarts THEN @ + 1 ELSE @]

\* The process is gone; its job object takes the core with it.
ProcessEnds(code) ==
    /\ scm' = Ended(code)
    /\ host' = "off" /\ asked' = FALSE /\ child' = FALSE
    /\ upset' = (upset \/ code = "aborted")
    /\ UNCHANGED <<adapter, files, op, attempts, wanted, overlaid>>

\* recover_orphaned_backup takes the backup for the core to run; recover and
\* ensure_desired_core_ready follow, and the first pipe is created.
HostBoots ==
    /\ host = "boot"
    /\ host' = "serving"
    /\ mihomo' = (IF backup # 0 THEN backup ELSE mihomo) /\ backup' = 0
    /\ adapter' \in IF "cleanup" \in InstallFaults THEN {FALSE, adapter} ELSE {FALSE}
    /\ child' \in BOOLEAN
    /\ UNCHANGED <<scm, exe, asked, op, attempts, history>>

\* A client is served inside the accept loop, which does not look at the
\* shutdown channel meanwhile; its command may start or stop the core and TUN.
CommandBegins ==
    /\ host = "serving"
    /\ host' \in {"busy", "loading"}
    /\ UNCHANGED <<scm, files, asked, child, adapter, op, attempts, history>>

Served ==
    /\ host' = "serving"
    /\ child' \in BOOLEAN
    /\ adapter' \in IF child' \/ "cleanup" \in InstallFaults THEN BOOLEAN ELSE {FALSE}
    /\ UNCHANGED <<scm, exe, asked, op, attempts, history>>

\* Any command, or a core_install that replaces nothing: it refuses to where
\* there is a backup.  Its download has no timeout.
CommandEnds ==
    /\ host \in {"busy", "loading"}
    /\ Served /\ UNCHANGED <<mihomo, backup>>

\* replace_core, after the core has been stopped: the first of its two renames.
SetsCoreAside ==
    /\ host = "loading" /\ backup = 0
    /\ host' = "swapping" /\ child' = FALSE
    /\ backup' = mihomo /\ mihomo' = 0
    /\ UNCHANGED <<scm, exe, asked, adapter, op, attempts, history>>

\* The second, or, where it fails, the first one undone if that is possible.
PutsCoreIn ==
    /\ host = "swapping" /\ mihomo = 0
    /\ \/ mihomo' = Newer /\ UNCHANGED <<host, child, backup>>
       \/ /\ "swap" \in InstallFaults /\ host' = "serving" /\ UNCHANGED child
          /\ \/ mihomo' = backup /\ backup' = 0
             \/ UNCHANGED <<mihomo, backup>>
    /\ UNCHANGED <<scm, exe, asked, adapter, op, attempts, history>>

\* The downloaded core is kept (finalize_core) or not (rollback_core); either
\* may leave the backup where it is, and the second nothing beside it.
SwapEnds ==
    /\ host = "swapping" /\ mihomo = Newer
    /\ Served
    /\ \/ mihomo' \in {Newer, backup} /\ backup' = 0
       \/ "swap" \in InstallFaults /\ mihomo' \in {Newer, 0} /\ UNCHANGED backup

\* It restarts a core that is gone.  What it checks before it waits for the lock
\* may be overtaken by a shutdown: it comes then between the release of the lock
\* and monitor.abort ("drained", "failed").
MonitorActs ==
    /\ host \in {"serving", "loading", "drained", "failed"} /\ ~child
    /\ child' = TRUE
    /\ UNCHANGED <<scm, files, host, asked, adapter, op, attempts, history>>

\* Mutant: without a core there is nothing to shut down.
ShutdownBeginsWithCore ==
    /\ host = "serving" /\ asked /\ child
    /\ host' = "draining"
    /\ UNCHANGED <<scm, files, asked, child, adapter, op, attempts, history>>

ShutdownBegins ==
    /\ host = "serving" /\ asked
    /\ host' = "draining"
    /\ UNCHANGED <<scm, files, asked, child, adapter, op, attempts, history>>

\* Mutant: a shutdown that failed is reported as an orderly stop.
ShutdownEndsAnyway ==
    /\ host = "draining"
    /\ host' = "drained"
    /\ child' = FALSE
    /\ adapter' \in IF "cleanup" \in InstallFaults THEN {FALSE, adapter} ELSE {FALSE}
    /\ UNCHANGED <<scm, files, asked, op, attempts, history>>

\* shutdown(): TUN is cleaned up first, then the core is stopped in any case.
ShutdownEnds ==
    /\ host = "draining"
    /\ child' = FALSE
    /\ adapter' \in IF "cleanup" \in InstallFaults THEN {FALSE, adapter} ELSE {FALSE}
    /\ host' \in IF adapter' THEN {"failed"} ELSE {"drained"}
    /\ UNCHANGED <<scm, files, asked, op, attempts, history>>

\* Only a shutdown without an error is reported as Stopped, and only then does
\* the dispatcher, in which main waits, return.
HostExits == host = "drained" /\ ProcessEnds("clean")

\* service_main returns without a report: the daemon and its core are gone, and
\* the process stays, Running for the SCM, and heeds no stop.
Hangs ==
    /\ host' = "hung" /\ child' = FALSE
    /\ UNCHANGED <<scm, exe, asked, adapter, op, attempts, history>>

HostHangs == host = "failed" /\ Hangs /\ UNCHANGED <<mihomo, backup>>

\* The daemon returns without a shutdown: a file or a pipe cannot be created, or
\* the backup cannot be renamed where the core was removed, or that not removed.
HostFails ==
    /\ "crash" \in InstallFaults /\ host \in {"boot", "serving"} /\ Hangs
    /\ mihomo' \in IF host = "boot" /\ backup # 0 THEN {mihomo, 0} ELSE {mihomo}
    /\ UNCHANGED backup

ServiceCrashes ==
    /\ "crash" \in InstallFaults /\ host # "off"
    /\ ProcessEnds("aborted")

\* A queued restart finds the service startable, or is dropped.
QueuedRestart ==
    /\ scm.queued
    /\ IF CanStart
       THEN scm' = Started(scm) /\ Launches
       ELSE scm' = [scm EXCEPT !.queued = FALSE] /\ UNCHANGED <<service, op>>
    /\ UNCHANGED <<files, attempts, history>>

\* FAILURE_RESET_PERIOD_SECS without a failure.
FailuresForgotten ==
    /\ scm.failures > 0 /\ ~scm.queued /\ host = "serving"
    /\ scm' = [scm EXCEPT !.failures = 0]
    /\ UNCHANGED <<files, service, op, attempts, history>>

\* Windows restarts: adapter, routes and processes are gone, and a service that
\* was not started since reports ERROR_SERVICE_NEVER_STARTED.
WindowsRestarts ==
    /\ "power" \in InstallFaults
    /\ LET s == [scm EXCEPT !.state = "stopped", !.queued = FALSE, !.failures = 0,
                            !.exit = "never"]
           starts == scm.start = "auto" /\ exe # 0
       IN  /\ scm' = IF starts THEN Started(s) ELSE s
           /\ host' = IF starts THEN "boot" ELSE "off"
    /\ asked' = FALSE /\ child' = FALSE /\ adapter' = FALSE
    /\ op' = NoOp
    /\ upset' = (upset \/ op # NoOp)
    /\ UNCHANGED <<files, attempts, wanted, overlaid>>

UserStops ==
    /\ host # "off" /\ ~asked
    /\ asked' = TRUE /\ wanted' = FALSE
    /\ UNCHANGED <<scm, files, host, child, adapter, op, attempts, upset, overlaid>>

UserStarts ==
    /\ CanStart
    /\ scm' = Started(scm) /\ Launches
    /\ wanted' = TRUE /\ upset' = FALSE
    /\ UNCHANGED <<files, attempts, overlaid>>

-----------------------------------------------------------------------------
(* Maintenance *)

At(point) == op.pc = point
MoveTo(point) == op' = [op EXCEPT !.pc = point]

MaintenanceBegins ==
    /\ op = NoOp /\ attempts < MaxAttempts
    /\ attempts' = attempts + 1
    /\ \E kind \in {"install", "uninstall"}, helper, noted \in BOOLEAN, r \in 1..LastRelease :
         /\ kind = "uninstall" => r = 1
         /\ noted => kind = "install" /\ ~helper
         /\ op' = [NoOp EXCEPT !.kind = kind, !.helper = helper, !.noted = noted,
                     !.target = r, !.pc = IF kind = "install" /\ helper THEN "open" ELSE "query"]
    /\ UNCHANGED <<scm, files, service, history>>

\* Abort in a hook, an error or the death of the installer.
GivesUp ==
    /\ op' = NoOp /\ upset' = TRUE
    /\ UNCHANGED <<scm, files, service, attempts, wanted, overlaid>>

StepFails == "step" \in InstallFaults /\ op # NoOp /\ GivesUp

\* MioProxyQueryService, and the open of the service by --uninstall.
Queries ==
    /\ At("query")
    /\ op' = [op EXCEPT !.present = scm.start # "absent",
                        !.was = scm.state = "running",
                        !.left = ~wanted /\ host = "off",
                        !.pc = IF scm.start # "absent" THEN "disable"
                               ELSE IF op.kind = "install" THEN "exe" ELSE "delete"]
    /\ UNCHANGED <<scm, files, service, attempts, history>>

\* Mutant: the service is only disabled when it runs.
DisablesRunning ==
    /\ At("disable")
    /\ scm' = IF scm.state = "running" THEN [scm EXCEPT !.start = "disabled"] ELSE scm
    /\ MoveTo("stop")
    /\ UNCHANGED <<files, service, attempts, history>>

\* A queued SCM restart cannot be cancelled: disable the service first.
Disables ==
    /\ At("disable")
    /\ scm' = [scm EXCEPT !.start = "disabled"]
    /\ MoveTo("stop")
    /\ UNCHANGED <<files, service, attempts, history>>

\* `sc stop`, which fails on a service that is no longer running; --uninstall
\* looks again and accepts that.
Stops ==
    /\ At("stop")
    /\ IF op.helper THEN asked' = (host # "off") /\ MoveTo("wait") /\ UNCHANGED upset
       ELSE \/ /\ ~op.was /\ MoveTo("wait") /\ UNCHANGED <<asked, upset>>
            \/ /\ op.was /\ host # "off"
               /\ asked' = TRUE /\ MoveTo("wait") /\ UNCHANGED upset
            \/ /\ op.was /\ host = "off"
               /\ op' = NoOp /\ upset' = TRUE /\ UNCHANGED asked
    /\ UNCHANGED <<scm, files, host, child, adapter, attempts, wanted, overlaid>>

\* MioProxyQueryService again, every half second, which sets WasRunning whenever
\* it sees the service run.
WaitSees ==
    /\ At("wait") /\ ~op.helper /\ scm.state = "running"
    /\ op' = [op EXCEPT !.was = TRUE]
    /\ UNCHANGED <<scm, files, service, attempts, history>>

Waits ==
    /\ At("wait") /\ scm.state = "stopped"
    /\ MoveTo("verify")
    /\ UNCHANGED <<scm, files, service, attempts, history>>

\* Ten seconds are over: a command or the cleanup of TUN takes longer.
WaitTimesOut == (At("wait") \/ At("settle")) /\ scm.state = "running" /\ GivesUp

\* MioProxyCheckTunRecovered; --uninstall looks at the exit code instead.
VerifiedStop == IF op.helper THEN scm.exit = "clean" ELSE ~adapter

Verifies ==
    /\ At("verify") /\ VerifiedStop
    /\ MoveTo(IF op.kind = "install" THEN "exe" ELSE "delete")
    /\ UNCHANGED <<scm, files, service, attempts, history>>

VerifyFails == At("verify") /\ ~VerifiedStop /\ GivesUp

\* A running image cannot be overwritten.
InUse == IF At("exe") THEN host # "off" ELSE child

\* Nothing looks for an unfinished core update, or removes its backup.
CopiesExe ==
    /\ At("exe") /\ ~InUse
    /\ exe' = op.target /\ overlaid' = (overlaid \/ backup # 0)
    /\ MoveTo("mihomo")
    /\ UNCHANGED <<scm, mihomo, backup, service, attempts, wanted, upset>>

CopiesMihomo ==
    /\ At("mihomo") /\ ~InUse
    /\ mihomo' = op.target
    /\ MoveTo(IF op.helper THEN "register" ELSE "open")
    /\ UNCHANGED <<scm, exe, backup, service, attempts, history>>

\* --install: an existing service is disabled, and stopped if it runs.  The
\* installer has copied the files to where the helper would.
HelperOpens ==
    /\ At("open")
    /\ scm' = IF scm.start = "absent" THEN scm ELSE [scm EXCEPT !.start = "disabled"]
    /\ MoveTo("halt")
    /\ UNCHANGED <<files, service, attempts, history>>

AfterHalt == IF op.helper THEN "exe" ELSE "register"

HelperStops ==
    /\ At("halt")
    /\ asked' = (host # "off")
    /\ MoveTo(IF host # "off" THEN "settle" ELSE AfterHalt)
    /\ UNCHANGED <<scm, files, host, child, adapter, attempts, history>>

HelperSettles ==
    /\ At("settle") /\ scm.state = "stopped"
    /\ MoveTo(AfterHalt)
    /\ UNCHANGED <<scm, files, service, attempts, history>>

\* create_service or the existing registration, then change_config.
HelperRegisters ==
    /\ At("register")
    /\ scm' = [scm EXCEPT !.start = "auto"]
    /\ MoveTo("actions")
    /\ UNCHANGED <<files, service, attempts, history>>

HelperConfigures ==
    /\ At("actions")
    /\ scm' = [scm EXCEPT !.actions = TRUE]
    /\ MoveTo("start")
    /\ UNCHANGED <<files, service, attempts, history>>

\* Mutant: the flag is set for every existing service.
PreservesPresent == ~op.helper /\ (op.present \/ op.noted)

\* /MIOPROXY_PRESERVE_STOPPED, and install_start_policy with the checkpoint.
PreserveStopped == ~op.helper /\ ((op.present /\ ~op.was) \/ op.noted)

\* A service that is left off because of a checkpoint may have run meanwhile.
HelperStarts ==
    /\ At("start")
    /\ IF CanStart /\ ~PreserveStopped
       THEN /\ scm' = Started(scm)
            /\ host' = "boot" /\ asked' = FALSE /\ UNCHANGED <<child, adapter>>
       ELSE UNCHANGED <<scm, service>>
    /\ op' = NoOp
    /\ upset' = ((upset \/ op.noted) /\ (PreserveStopped \/ asked))
    /\ wanted' = (wanted \/ ~(PreserveStopped \/ asked))
    /\ UNCHANGED <<files, attempts, overlaid>>

\* Deletes the registration and, in the uninstaller, the files it can.
Deletes ==
    /\ At("delete")
    /\ scm' = Absent
    /\ exe' = IF op.helper THEN exe ELSE 0
    /\ mihomo' = IF op.helper THEN mihomo ELSE 0
    /\ op' = NoOp /\ wanted' = TRUE /\ upset' = FALSE
    /\ UNCHANGED <<backup, service, attempts, overlaid>>

-----------------------------------------------------------------------------
Service ==
    \/ HostBoots \/ HostFails \/ CommandBegins \/ CommandEnds
    \/ SetsCoreAside \/ PutsCoreIn \/ SwapEnds \/ MonitorActs
    \/ ShutdownBegins \/ ShutdownEnds \/ HostExits \/ HostHangs

Maintenance ==
    \/ MaintenanceBegins \/ StepFails \/ Queries \/ Disables \/ Stops
    \/ WaitSees \/ Waits \/ WaitTimesOut \/ Verifies \/ VerifyFails \/ Deletes
    \/ CopiesExe \/ CopiesMihomo \/ HelperOpens \/ HelperStops \/ HelperSettles
    \/ HelperRegisters \/ HelperConfigures \/ HelperStarts

InstallNext ==
    \/ Service \/ Maintenance
    \/ ServiceCrashes \/ QueuedRestart \/ FailuresForgotten \/ WindowsRestarts
    \/ UserStops \/ UserStarts

InstallSpec == InstallInit /\ [][InstallNext]_installVars

\* The daemon's own steps are not held up, and a command returns in the end, but
\* for one that downloads; the select of the accept loop picks at random.
Fairness ==
    /\ WF_installVars(HostBoots) /\ WF_installVars(host = "busy" /\ CommandEnds)
    /\ WF_installVars(PutsCoreIn) /\ WF_installVars(SwapEnds)
    /\ SF_installVars(ShutdownBegins) /\ WF_installVars(ShutdownEnds)
    /\ WF_installVars(HostExits) /\ WF_installVars(HostHangs)

InstallFairSpec == InstallSpec /\ Fairness

-----------------------------------------------------------------------------
(* Properties *)

\* The service that runs has the core of its own release at hand, or one that
\* core_install has downloaded, be it in the backup of an update that was cut
\* off, and no core of another release; whatever step the last maintenance ended
\* at, and whatever restarts were queued or Windows did.  Left out is what
\* `overlaid' records: an installation over such a backup (ExactBinaries).
OneRelease ==
    host # "off" /\ ~overlaid =>
        /\ mihomo \in {0, exe, Newer} /\ backup \in {0, exe, Newer}
        /\ mihomo # 0 \/ backup # 0

\* A registration is deleted only when the service is stopped and no adapter,
\* route or DNS of MioProxy is left, for only the service can clean them up.
DeletedOnlyClean ==
    [][ scm.start # "absent" /\ scm'.start = "absent"
          => host = "off" /\ ~adapter ]_installVars

\* A completed installation has both executables of its release (the core may
\* have been updated meanwhile, by a service that Windows or the user started)
\* and a service that starts by itself and is restarted.  When nothing had
\* stopped the service but the installation, it runs afterwards, unless an
\* update's checkpoint says that it did not; when the user had stopped it before
\* the installation, or the checkpoint says so, it is not started.
InstallCompletes ==
    [][ op.kind = "install" /\ HelperStarts =>
          /\ exe = op.target /\ (overlaid \/ mihomo \in {0, op.target, Newer})
          /\ scm.start = "auto" /\ scm.actions
          /\ wanted /\ ~upset /\ ~op.noted => host' # "off"
          /\ (op.left /\ op.present /\ ~op.helper) \/ op.noted => host' = host ]_installVars

\* A process that is asked to stop is gone in the end, whatever it was doing (the
\* next process has a channel of its own), unless a download never ends or the
\* daemon has failed.
StopHonoured ==
    \/ asked ~> (~asked \/ host = "hung")
    \/ <>[](host = "loading")

\* Not so (ServiceInstall_hand.cfg): "Register the exact Service and Mihomo
\* binaries copied by this installer" (hooks.nsh:172), that is, the core at hand is
\* the installer's or one that core_install has downloaded.
ExactBinaries == host = "serving" => mihomo \in {0, exe, Newer}

\* Not so (ServiceInstall_hung.cfg): "If the daemon fails, let the process exit
\* without that status so SCM classifies it as a failure"
\* (bin/mioproxy-service.rs:701): a process whose daemon has failed ends.
FailureIsSeen == host = "failed" ~> host = "off"

\* Not so (ServiceInstall_hung.cfg): a stop is honoured unless the daemon has
\* failed.  A download may never end.
StopNeverStalls == asked ~> (~asked \/ host = "hung")

\* Not so (ServiceInstall_hand.cfg): an installation does not start a service that
\* its user stopped last.  The wait loop's query has seen it run.
StoppedStays ==
    [][ op.kind = "install" /\ HelperStarts /\ ~wanted /\ op.present /\ ~op.helper
          => host' = host ]_installVars

\* Not so (ServiceInstall_hand.cfg): a service that an uninstall keeps because of
\* TUN can be started to clean it up.  It is left disabled.
KeptForCleanup ==
    op = NoOp /\ adapter /\ scm.state = "stopped" /\ scm.start # "absent" => scm.start = "auto"

=============================================================================
