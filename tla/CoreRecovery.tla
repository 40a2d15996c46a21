---------------------------- MODULE CoreRecovery ----------------------------
(***************************************************************************)
(* The part of the Windows service (ServiceRuntime in                      *)
(* src-tauri/src/service.rs) that keeps the managed Mihomo process alive:  *)
(* the monitor task, the Start and Stop commands, the Status command that  *)
(* reaps a dead child, the retry policy and its file, the controller grace *)
(* period, the owner file, and crashes of Mihomo and of the service.       *)
(*                                                                         *)
(* Start, Stop and the monitor hold core_transition for their whole run;   *)
(* `by' names the holder and `pc' where it is.  Commands arrive one at a   *)
(* time, because the pipe server awaits handle_client before it accepts    *)
(* the next client; Status takes no lock, so it overlaps the monitor.      *)
(***************************************************************************)
EXTENDS RecoveryPolicy

CONSTANTS
    ControllerGrace,  \* CORE_CONTROLLER_GRACE_SECS
    MaxCandidates,    \* CORE_START_MAX_CANDIDATES
    Pids,             \* process ids the system hands out (and reuses)
    NoPid,            \* no process
    MaxTime,          \* bound: the clock stops here
    MaxDeaths,        \* bound: deaths of the service between two forgivings
    Faults            \* what the environment may do, see FaultKinds

\* "disk": a write or removal of a state file fails; "cleanup": disable_tun
\* fails during recovery; "poll": a GUI polls Status while the monitor runs;
\* "external": another Mihomo may use the controller port; "crash": the
\* service itself dies or is restarted.
FaultKinds == {"disk", "cleanup", "poll", "external", "crash"}

ASSUME CoreAssumption ==
    /\ ControllerGrace \in Nat /\ MaxCandidates \in Nat \ {0}
    /\ NoPid \notin Pids /\ MaxTime \in Nat /\ MaxDeaths \in Nat
    /\ Faults \subseteq FaultKinds

VARIABLES
    now,          \* recovery_now()
    up,           \* the service process runs
    desired,      \* desired_core_running
    desiredFile,  \* the desired state in service-core-state.json
    recovery,     \* core_recovery
    persisted,    \* service-core-recovery.json (Fresh: no file)
    grace,        \* controller_grace: the pid and when it was first unavailable
    child,        \* child: the pid of the Child handle, or NoPid
    alive,        \* the process behind the handle still runs
    health,       \* what its controller and listeners answer
    owner,        \* the pid in service-core-owner.json
    exitPending,  \* core_exit_pending
    reaped,       \* Status has taken the dead child, the flag is still to be set
    session,      \* has_tun_recovery(): a TUN session has to be undone first
    external,     \* another Mihomo answers on the controller port
    by, pc,       \* holder of core_transition and its control point
    cand,         \* start candidates tried so far
    had,          \* had_child
    why,          \* the readiness read by the probe, then the failure reason
    born,         \* history: when the current child was spawned
    attempts,     \* history: automatic starts since the failures were forgiven
    deaths,       \* history: ends of the service process since then
    stopped       \* history: a Stop succeeded and no Start came after it

account == <<attempts, deaths>>
service == <<desired, recovery, grace, child, exitPending, reaped>>
files   == <<desiredFile, persisted, owner>>
process == <<alive, health, external>>
control == <<by, pc, cand, had, why>>
history == <<born, account, stopped>>
vars    == <<now, up, service, files, process, session, control, history>>

Callers   == {"none", "monitor", "boot", "start", "stop"}
Points    == {"idle", "begin", "observe", "probe", "judge", "kill", "charge",
              "nocore", "start", "prepare", "spawn", "wait", "stopping"}
Readiness == {"ready", "unavailable", "broken"}
Reasons   == Readiness \cup {"-", "exited", "owner", "error", "grace"}

NoGrace == [pid |-> NoPid, at |-> None]

\* The outcomes a write of a state file can have.
WriteOutcome == IF "disk" \in Faults THEN {TRUE, FALSE} ELSE {TRUE}

-----------------------------------------------------------------------------
(* Helpers shared by the handlers.                                         *)

Dead == child # NoPid /\ ~alive

\* The pipe server waits for a client: no command is being handled.
ClientFree == by \in {"none", "monitor"} /\ ~reaped

Monitoring == by \in {"monitor", "boot"}

\* The lock is released and the locals of the run are gone.
Return ==
    /\ by' = "none" /\ pc' = "idle" /\ cand' = 0 /\ had' = FALSE /\ why' = "-"

Goto(p, reason) ==
    /\ pc' = p /\ why' = reason
    /\ UNCHANGED <<by, cand, had>>

\* clear_service_core_owner_if_matches(child).
OwnerCleared == IF owner = child THEN NoPid ELSE owner

\* child.take() followed by kill and wait.
DropChild == child' = NoPid /\ alive' = FALSE /\ health' = "unavailable"

KeepChild == UNCHANGED <<child, alive, health, owner>>

\* disable_tun, when there is a session to undo: it refuses to touch a Mihomo
\* the service does not own, and its file and controller steps can fail.
CleanupOutcome ==
    IF ~session THEN {TRUE}
    ELSE IF external /\ child = NoPid THEN {FALSE}
    ELSE IF "cleanup" \in Faults THEN {TRUE, FALSE} ELSE {TRUE}

\* A new policy state, written to its file when the write succeeds.
StoreRecovery(s, ok) ==
    /\ recovery' = s
    /\ persisted' = IF ok THEN s ELSE persisted

KeepRecovery == UNCHANGED <<recovery, persisted>>

\* Nothing is held against the core any more: the account starts anew.
Forgiven == attempts' = 0 /\ deaths' = 0

\* A failure is charged to the budget; expired failures are forgiven first.
ChargeFailure ==
    /\ \E ok \in WriteOutcome : StoreRecovery(RecordFailure(recovery, now), ok)
    /\ IF Expired(recovery, now) THEN Forgiven ELSE UNCHANGED account

\* observe_core_ready: the file is written only when the policy changed.
ObserveReady ==
    LET s == MarkReady(recovery, now)
    IN  /\ \E ok \in WriteOutcome : IF s = recovery THEN KeepRecovery
                                    ELSE StoreRecovery(s, ok)
        /\ IF recovery.count > 0 /\ s.count = 0 THEN Forgiven ELSE UNCHANGED account
-----------------------------------------------------------------------------
Init ==
    /\ now = 0 /\ up = TRUE
    /\ desired = TRUE /\ desiredFile = TRUE
    /\ recovery = Fresh /\ persisted = Fresh
    /\ grace = NoGrace
    /\ child = NoPid /\ alive = FALSE /\ health = "unavailable" /\ owner = NoPid
    /\ exitPending = FALSE /\ reaped = FALSE
    /\ session = FALSE /\ external = FALSE
    /\ by = "none" /\ pc = "idle" /\ cand = 0 /\ had = FALSE /\ why = "-"
    /\ born = 0 /\ attempts = 0 /\ deaths = 0 /\ stopped = FALSE
-----------------------------------------------------------------------------
(* The environment: the clock, the Mihomo process, other programs.         *)

Tick ==
    /\ now < MaxTime
    /\ now' = now + 1
    /\ UNCHANGED <<up, service, files, process, session, control, history>>

ChildExits ==
    /\ up /\ child # NoPid /\ alive
    /\ alive' = FALSE /\ health' = "unavailable"
    /\ UNCHANGED <<now, up, service, files, external, session, control, history>>

HealthChanges(h) ==
    /\ up /\ child # NoPid /\ alive /\ h # health
    /\ h = "ready" => ~external
    /\ health' = h
    /\ UNCHANGED <<now, up, service, files, alive, external, session, control,
                   history>>

\* Another Mihomo takes the controller port, which the managed core does not
\* hold, or lets go of it.
ExternalChanges ==
    /\ "external" \in Faults /\ health # "ready"
    /\ external' = ~external
    /\ UNCHANGED <<now, up, service, files, alive, health, session, control,
                   history>>

\* The TUN handlers open a session on a ready core and close it again.
SessionChanges ==
    /\ up /\ ClientFree /\ (session \/ health = "ready")
    /\ session' = ~session
    /\ UNCHANGED <<now, up, service, files, process, control, history>>
-----------------------------------------------------------------------------
(* The Status command: refresh_child outside core_transition.              *)

\* try_wait sees the exit; the handle is dropped and the owner file cleared.
StatusReaps ==
    /\ "poll" \in Faults /\ up /\ ClientFree /\ Dead
    /\ DropChild
    /\ \E ok \in WriteOutcome :
         /\ owner' = IF ok THEN OwnerCleared ELSE owner
         /\ reaped' = ok
    /\ UNCHANGED <<now, up, desired, desiredFile, recovery, persisted, grace,
                   exitPending, external, session, control, history>>

\* The child lock has been dropped before the flag is set.
StatusFlagsExit ==
    /\ up /\ reaped
    /\ reaped' = FALSE /\ exitPending' = TRUE
    /\ UNCHANGED <<now, up, desired, recovery, grace, child, files, process,
                   session, control, history>>
-----------------------------------------------------------------------------
(* The monitor task: monitor_core_once_locked.                             *)

\* Mutant: the desired state is not read.
MonitorBeginsRegardless ==
    /\ up /\ by = "none"
    /\ by' = "monitor" /\ pc' = "observe" /\ had' = (child # NoPid)
    /\ UNCHANGED <<now, up, service, files, process, session, cand, why, history>>

\* The lock is taken, the desired state and then had_child are read.
MonitorBegins ==
    /\ up /\ by = "none" /\ desired
    /\ by' = "monitor" /\ pc' = "observe" /\ had' = (child # NoPid)
    /\ UNCHANGED <<now, up, service, files, process, session, cand, why, history>>

\* refresh_child and both readings of the exit flag.
MonitorObserves ==
    /\ up /\ Monitoring /\ pc = "observe"
    /\ \/ /\ Dead /\ "disk" \in Faults
          /\ DropChild /\ Return
          /\ UNCHANGED <<owner, exitPending>>
       \/ /\ exitPending' = FALSE
          /\ IF Dead THEN DropChild /\ owner' = OwnerCleared ELSE KeepChild
          /\ IF exitPending \/ Dead \/ (had /\ child = NoPid)
             THEN Goto("kill", "exited")
             ELSE IF child = NoPid THEN Goto("nocore", "-")
             ELSE IF owner # child THEN Goto("kill", "owner")
             ELSE Goto("probe", "-")
    /\ UNCHANGED <<now, up, desired, recovery, grace, reaped, desiredFile,
                   persisted, external, session, history>>

\* core_readiness_for_pid: listener owners, then the authenticated controller.
Readings ==
    IF alive /\ ~external THEN {health, "error"} ELSE {"unavailable", "broken", "error"}

MonitorProbes ==
    /\ up /\ Monitoring /\ pc = "probe"
    /\ \E r \in Readings : Goto("judge", r)
    /\ UNCHANGED <<now, up, service, files, process, session, history>>

\* controller_grace.observe_unavailable for the current child.
GraceStarts  == grace.pid # child
GraceExpires == ~GraceStarts /\ Elapsed(grace.at, now) >= ControllerGrace

MonitorJudges ==
    /\ up /\ Monitoring /\ pc = "judge"
    /\ \/ /\ Dead /\ "disk" \in Faults
          /\ DropChild /\ UNCHANGED owner
          /\ Goto("kill", "error")
          /\ UNCHANGED <<grace, account>> /\ KeepRecovery
       \/ /\ exitPending \/ Dead \/ child = NoPid
          /\ IF Dead THEN DropChild /\ owner' = OwnerCleared ELSE KeepChild
          /\ Goto("kill", "exited")
          /\ UNCHANGED <<grace, account>> /\ KeepRecovery
       \/ /\ ~exitPending /\ ~Dead /\ child # NoPid /\ KeepChild
          /\ \/ /\ owner # child \/ why \in {"broken", "error"}
                /\ Goto("kill", IF owner # child THEN "owner" ELSE why)
                /\ UNCHANGED <<grace, account>> /\ KeepRecovery
             \/ /\ owner = child /\ why = "ready"
                /\ grace' = NoGrace
                /\ ObserveReady /\ Return
             \/ /\ owner = child /\ why = "unavailable"
                /\ grace' = IF GraceStarts THEN [pid |-> child, at |-> now]
                                           ELSE grace
                /\ IF GraceExpires THEN Goto("kill", "grace") ELSE Return
                /\ UNCHANGED account /\ KeepRecovery
    /\ exitPending' = FALSE
    /\ UNCHANGED <<now, up, desired, reaped, desiredFile, external, session,
                   born, stopped>>

\* owns_core reaps a process that died since (and sets the flag for the next
\* round); a live process is killed.  An owner file that cannot be removed
\* ends the round before the failure is charged.
MonitorKills ==
    /\ up /\ Monitoring /\ pc = "kill"
    /\ grace' = NoGrace
    /\ IF child = NoPid
       THEN /\ Goto("charge", why) /\ KeepChild /\ UNCHANGED exitPending
       ELSE /\ DropChild
            /\ \E ok \in WriteOutcome :
                 /\ owner' = IF ok THEN OwnerCleared ELSE owner
                 /\ exitPending' = (exitPending \/ (Dead /\ ok))
                 /\ IF ok \/ Dead THEN Goto("charge", why) ELSE Return
    /\ UNCHANGED <<now, up, desired, desiredFile, recovery, persisted, reaped,
                   external, session, history>>

\* disable_tun_for_core_recovery_locked, then record_core_recovery_failure.
MonitorCharges ==
    /\ up /\ Monitoring /\ pc = "charge"
    /\ \E ok \in CleanupOutcome :
         IF ok THEN session' = FALSE /\ ChargeFailure
               ELSE UNCHANGED <<session, account>> /\ KeepRecovery
    /\ Return
    /\ UNCHANGED <<now, up, desired, grace, child, exitPending, reaped,
                   desiredFile, owner, process, born, stopped>>

\* No child and no failure: clean up a TUN session, then ask the policy.
MonitorFindsNoCore ==
    /\ up /\ Monitoring /\ pc = "nocore"
    /\ grace' = NoGrace
    /\ \E ok \in CleanupOutcome :
         /\ session' = (session /\ ~ok)
         /\ \/ /\ ok /\ Expired(recovery, now)
               /\ \E written \in WriteOutcome :
                    /\ StoreRecovery(Fresh, written)
                    /\ attempts' = IF written THEN 1 ELSE 0
                    /\ deaths' = 0
                    /\ IF written THEN Goto("start", "-") ELSE Return
            \/ /\ ok /\ ~Expired(recovery, now) /\ CanAttempt(recovery, now)
               /\ attempts' = IF attempts > MaxFailures + deaths THEN attempts
                                                                 ELSE attempts + 1
               /\ UNCHANGED deaths
               /\ Goto("start", "-") /\ KeepRecovery
            \/ /\ ~ok \/ (~Expired(recovery, now) /\ ~CanAttempt(recovery, now))
               /\ Return /\ KeepRecovery /\ UNCHANGED account
    /\ UNCHANGED <<now, up, desired, child, exitPending, reaped, desiredFile,
                   owner, process, born, stopped>>
-----------------------------------------------------------------------------
(* start_inner, run by the monitor (automatic_start_locked) or by Start.   *)

\* The caller's Err branch: the failure is charged.
StartFails == ChargeFailure /\ Return

\* The caller's Ok branch: the policy observes a ready core.
StartSucceeds == ObserveReady /\ Return

\* The desired state is stored; an owned child is kept when it is ready and
\* killed when it is not.  A probe error leaves it running.
StartChecksChild ==
    /\ up /\ pc = "start"
    /\ desired' = TRUE
    /\ \/ /\ "disk" \in Faults
          /\ StartFails /\ KeepChild /\ UNCHANGED <<desiredFile, exitPending>>
       \/ /\ desiredFile' = TRUE
          /\ \/ /\ Dead
                /\ DropChild
                /\ \E ok \in WriteOutcome :
                     /\ owner' = IF ok THEN OwnerCleared ELSE owner
                     /\ exitPending' = (exitPending \/ ok)
                     /\ IF ok THEN /\ Goto("prepare", "-") /\ KeepRecovery
                                   /\ UNCHANGED account
                              ELSE StartFails
             \/ /\ ~Dead /\ child = NoPid
                /\ Goto("prepare", "-")
                /\ KeepChild /\ KeepRecovery /\ UNCHANGED <<exitPending, account>>
             \/ /\ ~Dead /\ child # NoPid
                /\ KeepChild /\ UNCHANGED exitPending
                /\ StartFails \/ (health = "ready" /\ StartSucceeds)
             \/ /\ ~Dead /\ child # NoPid /\ health # "ready"
                /\ DropChild /\ UNCHANGED exitPending
                /\ \E ok \in WriteOutcome :
                     /\ owner' = IF ok THEN OwnerCleared ELSE owner
                     /\ IF ok THEN /\ Goto("prepare", "-") /\ KeepRecovery
                                   /\ UNCHANGED account
                              ELSE StartFails
    /\ UNCHANGED <<now, up, grace, reaped, external, session, born, stopped>>

\* An external Mihomo ends the start without failure and clears the desired
\* state; otherwise a TUN session is undone and the configuration validated.
StartPrepares ==
    /\ up /\ pc = "prepare"
    /\ \/ /\ external
          /\ desired' = FALSE
          /\ \E ok \in WriteOutcome :
               /\ desiredFile' = IF ok THEN FALSE ELSE desiredFile
               /\ IF ok THEN StartSucceeds ELSE StartFails
          /\ UNCHANGED session
       \/ /\ ~external
          /\ \E ok \in CleanupOutcome, valid \in BOOLEAN :
               /\ session' = (session /\ ~ok)
               /\ IF ok /\ valid
                  THEN /\ Goto("spawn", "-") /\ KeepRecovery /\ UNCHANGED account
                  ELSE StartFails
          /\ UNCHANGED <<desired, desiredFile>>
    /\ UNCHANGED <<now, up, grace, child, exitPending, reaped, owner, process,
                   born, stopped>>

\* One candidate: the process is spawned, put in the job, and its pid written
\* to the owner file before the handle is stored.
StartSpawns ==
    /\ up /\ pc = "spawn"
    /\ \/ /\ StartFails /\ KeepChild /\ UNCHANGED born
       \/ /\ \E p \in Pids : child' = p /\ owner' = p
          /\ alive' = TRUE /\ health' = "unavailable" /\ born' = now
          /\ Goto("wait", "-") /\ KeepRecovery /\ UNCHANGED account
    /\ UNCHANGED <<now, up, desired, desiredFile, grace, exitPending, reaped,
                   external, session, stopped>>

\* Mutant: candidates are not counted.
CandidateRejectedUncounted ==
    /\ DropChild /\ owner' = OwnerCleared
    /\ pc' = "spawn"
    /\ KeepRecovery /\ UNCHANGED <<by, cand, had, why, account>>

\* The candidate did not become ready in time, or its port was not stored.
CandidateRejected ==
    /\ DropChild
    /\ \E ok \in WriteOutcome :
         /\ owner' = IF ok THEN OwnerCleared ELSE owner
         /\ IF ok /\ cand + 1 < MaxCandidates
            THEN /\ cand' = cand + 1 /\ pc' = "spawn"
                 /\ KeepRecovery /\ UNCHANGED <<by, had, why, account>>
            ELSE StartFails

StartWaits ==
    /\ up /\ pc = "wait"
    /\ \/ /\ child # NoPid /\ health = "ready"
          /\ KeepChild /\ StartSucceeds
       \/ KeepChild /\ StartFails                        \* the probe itself fails
       \/ /\ health # "ready" \/ "disk" \in Faults
          /\ CandidateRejected
    /\ UNCHANGED <<now, up, desired, desiredFile, grace, exitPending, reaped,
                   external, session, born, stopped>>
-----------------------------------------------------------------------------
(* The Start and Stop commands.                                            *)

\* Mutant: the controller grace period survives the command.
ResetBeforeCommandKeepsGrace ==
    /\ up /\ by = "none" /\ ClientFree
    /\ UNCHANGED grace
    /\ recovery' = Fresh /\ Forgiven
    /\ stopped' = FALSE

\* What Start and Stop do first, under core_transition.
ResetBeforeCommand ==
    /\ up /\ by = "none" /\ ClientFree
    /\ grace' = NoGrace
    /\ recovery' = Fresh /\ Forgiven
    /\ stopped' = FALSE

\* start(): an explicit retry starts from a fresh policy.
StartCommand ==
    /\ ResetBeforeCommand
    /\ \E ok \in WriteOutcome :
         /\ persisted' = IF ok THEN Fresh ELSE persisted
         /\ IF ok THEN /\ exitPending' = FALSE
                       /\ by' = "start" /\ pc' = "start"
                       /\ UNCHANGED <<cand, had, why>>
                  ELSE UNCHANGED <<exitPending, control>>
    /\ UNCHANGED <<now, up, desired, desiredFile, child, reaped, owner, process,
                   session, born>>

\* stop(): the desired state is cleared before anything is torn down.
StopCommand ==
    /\ ResetBeforeCommand
    /\ \E cleared, stored, unowned \in WriteOutcome :
         /\ persisted' = IF cleared THEN Fresh ELSE persisted
         /\ desired' = IF cleared THEN FALSE ELSE desired
         /\ desiredFile' = IF cleared /\ stored THEN FALSE ELSE desiredFile
         /\ IF cleared /\ stored /\ Dead
            THEN /\ DropChild
                 /\ owner' = IF unowned THEN OwnerCleared ELSE owner
                 /\ exitPending' = unowned
            ELSE /\ KeepChild
                 /\ exitPending' = IF cleared THEN FALSE ELSE exitPending
         /\ IF cleared /\ stored /\ (Dead => unowned)
            THEN /\ by' = "stop" /\ pc' = "stopping"
                 /\ had' = (child # NoPid /\ ~Dead)
                 /\ UNCHANGED <<cand, why>>
            ELSE UNCHANGED control
    /\ UNCHANGED <<now, up, reaped, external, session, born>>

\* stop_inner after owns_core: the TUN session, then the process.
StopFinishes ==
    /\ up /\ pc = "stopping"
    /\ \E ok \in CleanupOutcome, unowned \in WriteOutcome :
         /\ session' = (session /\ ~ok)
         /\ IF ok /\ had
            THEN /\ DropChild
                 /\ owner' = IF unowned THEN OwnerCleared ELSE owner
            ELSE KeepChild
         /\ stopped' = (ok /\ IF had THEN unowned ELSE ~external)
    /\ Return
    /\ UNCHANGED <<now, up, desired, desiredFile, recovery, persisted, grace,
                   exitPending, reaped, external, born, account>>
-----------------------------------------------------------------------------
(* The service process.  Its memory is gone while it is down: the policy   *)
(* variable then shows what the file holds, the others their initial value.*)

Forget ==
    /\ up' = FALSE
    /\ DropChild                       \* the job object kills Mihomo as well
    /\ recovery' = persisted /\ desired' = desiredFile
    /\ grace' = NoGrace /\ exitPending' = FALSE /\ reaped' = FALSE
    /\ Return
    /\ deaths' = deaths + 1
    /\ UNCHANGED <<now, desiredFile, persisted, external, born, attempts, stopped>>

ServiceCrashes ==
    /\ "crash" \in Faults /\ up /\ deaths < MaxDeaths
    /\ Forget
    /\ UNCHANGED <<owner, session>>

\* shutdown(): the SCM stops the service between two commands.
ServiceStops ==
    /\ "crash" \in Faults /\ up /\ by = "none" /\ ClientFree /\ deaths < MaxDeaths
    /\ Forget
    /\ \E ok \in CleanupOutcome, unowned \in WriteOutcome :
         /\ session' = (session /\ ~ok)
         /\ owner' = IF unowned THEN OwnerCleared ELSE owner

\* ServiceRuntime::new and recover.  A file whose content was normalised is
\* replaced by the default, that is, removed.
ServiceBoots ==
    /\ ~up
    /\ up' = TRUE
    /\ LET s == FromPersisted(persisted, now)
       IN  /\ recovery' = s
           /\ \E ok \in WriteOutcome :
                persisted' = IF s # persisted /\ ok THEN Fresh ELSE persisted
           /\ IF persisted.count > 0 /\ s.count = 0 THEN Forgiven
                                                    ELSE UNCHANGED account
    /\ session' \in IF session /\ "cleanup" \in Faults THEN BOOLEAN ELSE {FALSE}
    /\ by' = "boot" /\ pc' = "begin"
    /\ UNCHANGED <<now, desired, grace, child, exitPending, reaped, desiredFile,
                   owner, process, cand, had, why, born, stopped>>

\* ensure_desired_core_ready, before the first client is accepted.
BootEnsuresCore ==
    /\ up /\ by = "boot" /\ pc = "begin"
    /\ \/ /\ ~desired
          /\ Return /\ KeepRecovery /\ UNCHANGED <<desired, desiredFile, account>>
       \/ /\ desired /\ external
          /\ desired' = FALSE
          /\ \E stored, ok \in WriteOutcome :
               /\ desiredFile' = IF stored THEN FALSE ELSE desiredFile
               /\ StoreRecovery(Fresh, ok)
          /\ Forgiven
          /\ Return
       \/ /\ desired /\ ~external
          /\ Goto("observe", "-")
          /\ KeepRecovery /\ UNCHANGED <<desired, desiredFile, account>>
    /\ UNCHANGED <<now, up, grace, child, exitPending, reaped, owner, process,
                   session, born, stopped>>
-----------------------------------------------------------------------------
Environment ==
    \/ Tick \/ ChildExits \/ ExternalChanges \/ SessionChanges
    \/ \E h \in Readiness : HealthChanges(h)

StatusSteps == StatusReaps \/ StatusFlagsExit

MonitorSteps ==
    \/ MonitorObserves \/ MonitorProbes \/ MonitorJudges
    \/ MonitorKills \/ MonitorCharges \/ MonitorFindsNoCore

StartSteps == StartChecksChild \/ StartPrepares \/ StartSpawns \/ StartWaits

\* What the holder of core_transition does until it releases it.
HolderSteps == MonitorSteps \/ StartSteps \/ StopFinishes \/ BootEnsuresCore

Next ==
    \/ Environment \/ StatusSteps
    \/ MonitorBegins \/ StartCommand \/ StopCommand
    \/ HolderSteps
    \/ ServiceCrashes \/ ServiceStops \/ ServiceBoots

Spec == Init /\ [][Next]_vars

\* The tasks of a running service are scheduled.
FairSpec == Spec /\ WF_vars(HolderSteps) /\ WF_vars(StatusFlagsExit)
-----------------------------------------------------------------------------
(* Properties.                                                             *)

\* Every variable stays in its set; the policy state is one that
\* CoreRecoveryState can hold and no instant lies in the future.
TypeOK ==
    /\ now \in 0 .. MaxTime
    /\ {up, desired, desiredFile, exitPending, reaped, session, external, alive,
        had, stopped} \subseteq BOOLEAN
    /\ recovery \in PolicyState /\ persisted \in PolicyState
    /\ grace \in [pid : Pids \cup {NoPid}, at : Instant]
    /\ child \in Pids \cup {NoPid} /\ owner \in Pids \cup {NoPid}
    /\ health \in Readiness
    /\ by \in Callers /\ pc \in Points /\ why \in Reasons
    /\ cand \in 0 .. MaxCandidates - 1
    /\ born \in 0 .. MaxTime /\ deaths \in 0 .. MaxDeaths
    /\ attempts \in 0 .. MaxFailures + deaths + 1

\* The policy in memory and the one on disk stay coherent through every mix of
\* failures, ready observations, resets and restarts: recovery is suspended
\* exactly when the budget is used up, a pending retry instant is the back-off
\* of the last failure, and a core seen ready has no retry instant.
PolicyCoherent == Coherent(recovery) /\ Coherent(persisted)

\* A controller outage is timed from this process: the grace period of a child
\* never started before the child was spawned, even when its pid is reused
\* (observe_unavailable, clear_controller_grace).
GraceBelongsToChild ==
    (up /\ child # NoPid /\ grace.pid = child) => grace.at >= born

\* Once a Stop command has succeeded no core runs and none is started by the
\* monitor or by a restarted service until the next Start or Stop.
StopHolds == stopped => child = NoPid /\ ~desired /\ ~desiredFile

\* Why GraceBelongsToChild and StopHolds survive every step: a start runs with
\* the grace period cleared, and a stop in progress has cleared the desired
\* state and knows whether there is a process left to kill.
GraceClearedByStart == pc \in {"start", "prepare", "spawn", "wait"} => grace = NoGrace

StopInProgress ==
    /\ pc = "stopping" => /\ ~desired /\ ~desiredFile
                          /\ had \/ child = NoPid
    /\ stopped => pc \in {"idle", "begin"}

\* Restarts without an operator are bounded: between two points where the
\* failures are forgiven there are at most MaxFailures automatic starts, and
\* one more for each time the service went down in between.  A start is charged
\* only when it is seen to fail (record_failure), so that a service which dies
\* after the spawn and before the charge has made one start that no file
\* remembers; it can never be more than one for each death.
RestartsBounded == attempts <= MaxFailures + deaths

\* The plain bound, which does not hold: a service that dies in each start
\* before it is charged starts the core again and again (by hand only).
RestartsWithinBudget == attempts <= MaxFailures

\* Why this holds when every write and clean-up succeeds and nobody polls: an
\* uncharged attempt leaves a child, an exit to be noticed or a run under way,
\* or the service died with it.
AttemptOpen ==
    \/ child # NoPid \/ exitPending
    \/ pc \in {"kill", "charge", "start", "prepare", "spawn", "wait"}

AttemptsAccounted ==
    /\ attempts <= MaxFailures + deaths
    /\ attempts <= recovery.count + deaths + (IF AttemptOpen THEN 1 ELSE 0)
    /\ ~up => attempts <= persisted.count + deaths
    /\ by = "stop" => attempts = 0
    /\ pc = "nocore" => child = NoPid /\ ~exitPending
    /\ ~external /\ ~reaped

\* The monitor never finds that a core which is running and ready "has exited
\* abnormally" (the verdict on which it kills the core): monitor_core_once_locked
\* with the flag that refresh_child sets and take_core_exit_pending reads.
ReadyCoreNotFoundDead ==
    (up /\ pc = "kill" /\ why = "exited") => ~(alive /\ health = "ready")

\* Whoever takes core_transition gives it back: a start tries finitely many
\* candidates and every path of the monitor ends.
LockReleased == (by # "none") ~> (by = "none")

\* The retry budget this component promises, seen without back-off instants,
\* suspension flag, file and restart.
Budget == INSTANCE RetryBudget WITH
    charged    <- recovery.count,
    last       <- recovery.last,
    readySince <- recovery.healthy,
    wanted     <- desired,
    phase      <- IF by \in {"start", "stop"} THEN "operator"
                  ELSE IF pc \in {"start", "prepare", "spawn", "wait"} THEN "attempt"
                  ELSE "idle"

BudgetSpec == Budget!Spec
=============================================================================
