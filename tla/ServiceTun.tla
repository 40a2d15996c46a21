----------------------------- MODULE ServiceTun -----------------------------
(***************************************************************************)
(* The TUN session of the Windows service (ServiceRuntime in               *)
(* src-tauri/src/service.rs) as a transaction over four places: the TUN    *)
(* override file, the stable runtime configuration that Mihomo loads when  *)
(* it starts, the configuration a running Mihomo has loaded, and the       *)
(* session file from which a restarted service undoes a session.           *)
(*                                                                         *)
(* Two tasks run in the service: the client handler (one command at a      *)
(* time) and the monitor.  Start, Stop and the monitor hold                *)
(* core_transition; the TUN routines run under tun_transition, which is    *)
(* taken second.  The monitor kills a failed core without tun_transition,  *)
(* so a TUN routine can lose its core between any two steps.               *)
(***************************************************************************)
EXTENDS Integers

CONSTANTS
    Profiles,    \* profile ids
    NoProfile,   \* None
    MaxCandidates, \* CORE_START_MAX_CANDIDATES
    Faults       \* what the environment may do, see FaultKinds

\* "disk": a write of a state file fails; "api": a request to the controller,
\* or the verification of its answer, fails; "probe": the listing of listeners
\* fails; "hang": Mihomo runs without answering; "foreign": another Mihomo may
\* use the controller port; "crash": the service dies.
FaultKinds == {"disk", "api", "probe", "hang", "foreign", "crash"}

ASSUME TunAssumption ==
    /\ NoProfile \notin Profiles /\ Faults \subseteq FaultKinds
    /\ MaxCandidates \in Nat \ {0}

VARIABLES
    up, serving,  \* the service runs; its pipe server accepts clients
    core,         \* the managed Mihomo: none, ready, or running but not ready
    live,         \* TUN is enabled in what that Mihomo has loaded
    foreign,      \* another Mihomo answers on the controller port
    override,     \* the TUN override file enables TUN
    stable,       \* the stable runtime configuration enables TUN
    base,         \* there is an active profile to generate configurations from
    file,         \* service-tun-state.json: the profile of the session, if any
    tun,          \* ServiceTunState
    pending,      \* pending_tun_profile
    desired,      \* desired_core_running
    coreBy,       \* holder of core_transition
    tunBy, tunPc, \* holder of tun_transition and the point of the routine
    verdict,      \* what disable_tun_inner's caller reports when it succeeds
    task,         \* where each task is
    arg,          \* the profile a task passes to enable_tun or apply_profile
    seen,         \* the monitor's tun_profile_id
    tries,        \* start_inner: candidates given up so far
    slipped       \* history: a Mihomo hung or came up with TUN, or a probe
                  \* failed within a routine

process == <<up, serving, core, live, foreign>>
configs == <<override, stable, base>>
session == <<file, tun, pending>>
routine == <<tunBy, tunPc, verdict, slipped>>
callers == <<desired, coreBy, task, arg, seen, tries>>
vars    == <<process, configs, session, routine, callers>>

Tasks     == {"client", "monitor"}
MaybeId   == Profiles \cup {NoProfile}
Statuses  == {"disabled", "starting", "running", "stopping", "error"}

\* The points at which a task asks for tun_transition, and the others.
Enabling  == {"on", "restore"}
Disabling == {"off", "startClean", "stopClean", "shutClean", "clean", "failClean"}
Points    == Enabling \cup Disabling \cup
             {"idle", "apply", "begin", "failing", "start", "prepare", "spawn",
              "wait", "restoring", "kill", "down"}
Routine   == {"-", "enable", "record", "override", "load", "confirm", "rollback",
              "undo", "disable", "plain", "lower", "unload", "verify", "clear",
              "apply"}

\* ServiceTunState::default().
Off == [status |-> "disabled", profile |-> NoProfile]

\* The outcomes of a step that a fault can make fail.
Outcome(fault) == IF fault \in Faults THEN {TRUE, FALSE} ELSE {TRUE}

HasRecovery == file # NoProfile \/ tun.profile # NoProfile
-----------------------------------------------------------------------------
Init ==
    /\ up = TRUE /\ serving = TRUE
    /\ core = "none" /\ live = FALSE /\ foreign = FALSE
    /\ override = FALSE /\ stable = FALSE /\ base = FALSE
    /\ file = NoProfile /\ tun = Off /\ pending = NoProfile
    /\ desired = TRUE /\ coreBy = "none"
    /\ tunBy = "none" /\ tunPc = "-" /\ verdict = TRUE /\ slipped = FALSE
    /\ task = [t \in Tasks |-> "idle"]
    /\ arg = [t \in Tasks |-> NoProfile] /\ seen = NoProfile /\ tries = 0
-----------------------------------------------------------------------------
(* The managed Mihomo and a foreign one.                                   *)

CoreFails ==
    /\ core # "none"
    /\ \/ core' = "none" /\ live' = FALSE /\ UNCHANGED slipped
       \/ /\ core = "ready" /\ "hang" \in Faults
          /\ core' = "broken" /\ slipped' = TRUE /\ UNCHANGED live
    /\ UNCHANGED <<up, serving, foreign, configs, session, tunBy, tunPc, verdict, callers>>

CoreHeals ==
    /\ core = "broken" /\ ~foreign /\ core' = "ready"
    /\ UNCHANGED <<up, serving, live, foreign, configs, session, routine, callers>>

ForeignChanges ==
    /\ "foreign" \in Faults /\ core # "ready"
    /\ foreign' = ~foreign
    /\ UNCHANGED <<up, serving, core, live, configs, session, routine, callers>>
-----------------------------------------------------------------------------
(* apply_active_runtime(want): generate from the active profile and the    *)
(* override, load, verify, write the stable file, and look at the core     *)
(* again.  A failed load is rolled back, but the rollback of the           *)
(* controller can fail, and a core lost after the write leaves it there.   *)
(* A start may put another candidate in the place of the core whose answer *)
(* was verified: what that one has loaded is the file as it was before.    *)

Applied(want) ==
    /\ core = "ready" /\ base /\ override = want /\ stable' = want
    /\ live' = want \/ (tries > 0 /\ UNCHANGED live)

NotApplied(want) ==
    \/ UNCHANGED <<live, stable>>
    \/ /\ core = "ready" /\ base /\ override = want
       /\ \/ "api" \in Faults /\ live' = want /\ UNCHANGED stable
          \/ "api" \in Faults \cup {"probe"} /\ live' = want /\ stable' = want

\* restore_active_runtime_config_at: nothing to do without an active profile.
FileRestored == stable' = (IF base THEN override ELSE stable) /\ UNCHANGED live
-----------------------------------------------------------------------------
(* tun_transition.                                                         *)

\* Where a task goes when its TUN routine has succeeded or failed.
Resume(point, ok) ==
    CASE point = "startClean" /\ ok -> "prepare"
      [] point = "clean" /\ ok      -> "start"
      [] point = "stopClean" /\ ok  -> "kill"
      [] point = "shutClean"        -> "down"
      [] OTHER                      -> "idle"

\* Mutant: core_transition is kept by a task that is done.
MoveToKeepsLock(t, point) ==
    /\ task' = [task EXCEPT ![t] = point]
    /\ serving' = (serving \/ (t = "monitor" /\ point = "idle"))
    /\ UNCHANGED coreBy

\* The task lets core_transition go when it is done.
MoveTo(t, point) ==
    /\ task' = [task EXCEPT ![t] = point]
    /\ coreBy' = IF coreBy = t /\ point = "idle" THEN "none" ELSE coreBy
    /\ serving' = (serving \/ (t = "monitor" /\ point = "idle"))

TakeTunLock(t) ==
    /\ up /\ tunBy = "none" /\ task[t] \in Enabling \cup Disabling \cup {"apply"}
    /\ tunBy' = t /\ verdict' = TRUE
    /\ tunPc' = CASE task[t] \in Enabling  -> "enable"
                  [] task[t] \in Disabling -> "disable"
                  [] task[t] = "apply"     -> "apply"
    /\ UNCHANGED <<process, configs, session, callers, slipped>>

\* A failed listing of the listeners leaves a routine without a status of its
\* own, or makes it take a ready core for none; a candidate put in the place of
\* the core it verified has TUN behind its back.
Slips == \/ tunPc \in {"unload", "verify"} /\ tun' = tun
         \/ tunPc = "undo" /\ core = "ready" /\ live'

\* The routine returns; a restore that ran forgets the pending profile.
Finish(ok) ==
    /\ tunBy' = "none" /\ tunPc' = "-" /\ verdict' = TRUE
    /\ slipped' = (slipped \/ Slips)
    /\ MoveTo(tunBy, Resume(task[tunBy], ok))
    /\ pending' = IF ok /\ task[tunBy] = "restore" THEN NoProfile ELSE pending
    /\ UNCHANGED <<up, core, foreign, desired, arg, seen, tries>>

Continue(point) ==
    /\ tunPc' = point
    /\ UNCHANGED <<up, serving, core, foreign, tunBy, verdict, slipped, pending, callers>>

\* Mutant: the error return leaves the status as it was.
FailAsUnmarked(status) == UNCHANGED tun /\ Finish(FALSE)

\* The routine fails with the session in the given status.
FailAs(status) == tun' = [tun EXCEPT !.status = status] /\ Finish(FALSE)

KeepConfigs == UNCHANGED <<live, override, stable, base>>
-----------------------------------------------------------------------------
(* enable_tun.                                                             *)

\* Every early return of enable_tun; a running session that is no longer
\* whole is undone, and the caller gets an error.
EnableChecks ==
    /\ up /\ tunPc = "enable" /\ KeepConfigs /\ UNCHANGED file
    /\ LET broken == core # "ready" \/ ~live \/ Faults \cap {"api", "probe"} # {}
       IN  \/ Finish(FALSE) /\ UNCHANGED tun
           \/ tun.status = "running" /\ core = "ready" /\ live
              /\ Finish(TRUE) /\ UNCHANGED tun
           \/ /\ tun.status = "running" /\ broken
              /\ tunPc' = "disable" /\ verdict' = FALSE /\ UNCHANGED slipped
              /\ UNCHANGED <<up, serving, core, foreign, tunBy, tun, pending, callers>>
           \/ /\ tun.status \in {"disabled", "error"} /\ core = "ready" /\ base
              /\ tun.status = "error" => ~HasRecovery
              /\ ~live \/ "api" \in Faults
              /\ tun' = [status |-> "starting", profile |-> arg[tunBy]]
              /\ Continue("record")

\* Mutant: the session is only recorded once it runs.
EnableRecordsLate ==
    /\ up /\ tunPc = "record" /\ KeepConfigs /\ UNCHANGED <<file, tun>>
    /\ Continue("override")

\* The session file is written before anything is changed.
EnableRecords ==
    /\ up /\ tunPc = "record" /\ KeepConfigs
    /\ \E ok \in Outcome("disk") :
         IF ok THEN file' = tun.profile /\ UNCHANGED tun /\ Continue("override")
               ELSE tun' = Off /\ UNCHANGED file /\ Finish(FALSE)

EnableOverrides ==
    /\ up /\ tunPc = "override" /\ UNCHANGED <<live, stable, base, file, tun>>
    /\ \E ok \in Outcome("disk") :
         IF ok THEN override' = TRUE /\ Continue("load")
               ELSE UNCHANGED override /\ Continue("rollback")

EnableLoads ==
    /\ up /\ tunPc = "load" /\ UNCHANGED <<override, base, file, tun>>
    /\ \/ Applied(TRUE) /\ Continue("confirm")
       \/ NotApplied(TRUE) /\ Continue("rollback")

\* Mutant: the wait for TUN has no deadline.
EnableConfirmsWhenever ==
    /\ up /\ tunPc = "confirm" /\ KeepConfigs
    /\ core = "ready" /\ live
    /\ tun' = [tun EXCEPT !.status = "running"] /\ file' = tun.profile /\ Finish(TRUE)

\* wait_for_tun_ready, the Running state, and its record.  The core that had
\* TUN may be gone since.
EnableConfirms ==
    /\ up /\ tunPc = "confirm" /\ KeepConfigs
    /\ \/ UNCHANGED <<file, tun>> /\ Continue("rollback")
       \/ /\ live \/ core = "none"
          /\ tun' = [tun EXCEPT !.status = "running"]
          /\ \E ok \in Outcome("disk") :
               IF ok THEN file' = tun.profile /\ Finish(TRUE)
                     ELSE UNCHANGED file /\ Continue("rollback")

\* Mutant: a failed rollback is only reported.
RollbackFailsSilently == UNCHANGED <<file, tun>> /\ Finish(FALSE)

RollbackFails ==
    /\ tun' = [status |-> "error", profile |-> arg[tunBy]] /\ UNCHANGED file
    /\ Finish(FALSE)

\* rollback_tun lowers the override, then restores Mihomo when it is ready
\* and only the file when it is not, and removes the session file.
RollbackLowers ==
    /\ up /\ tunPc = "rollback" /\ UNCHANGED <<live, stable, base>>
    /\ \E ok \in Outcome("disk") :
         IF ok THEN override' = FALSE /\ UNCHANGED <<file, tun>> /\ Continue("undo")
               ELSE UNCHANGED override /\ RollbackFails

RollbackUndoes ==
    /\ up /\ tunPc = "undo" /\ UNCHANGED <<override, base>>
    /\ \/ /\ Applied(FALSE) \/ ((core # "ready" \/ "probe" \in Faults) /\ FileRestored)
          /\ \E ok \in Outcome("disk") :
               IF ok THEN file' = NoProfile /\ tun' = Off /\ Finish(FALSE)
                     ELSE RollbackFails
       \/ core = "ready" /\ NotApplied(FALSE) /\ RollbackFails
       \/ "disk" \in Faults /\ UNCHANGED <<live, stable>> /\ RollbackFails
-----------------------------------------------------------------------------
(* disable_tun_inner.                                                      *)

\* Without a session the override is lowered all the same; with one, a Mihomo
\* of somebody else is left alone.
DisableBegins ==
    /\ up /\ tunPc = "disable" /\ UNCHANGED <<live, stable, base, file>>
    /\ \/ "disk" \in Faults /\ UNCHANGED <<override, tun>> /\ Finish(FALSE)
       \/ /\ ~HasRecovery
          /\ override' = FALSE /\ UNCHANGED tun /\ Continue("plain")
       \/ /\ HasRecovery /\ core = "none" /\ foreign
          /\ UNCHANGED <<override, tun>> /\ Finish(FALSE)
       \/ /\ HasRecovery /\ ~(core = "none" /\ foreign)
          /\ tun' = [tun EXCEPT !.status = "stopping"]
          /\ UNCHANGED override /\ Continue("lower")

DisablePlain ==
    /\ up /\ tunPc = "plain" /\ UNCHANGED <<override, base, file>>
    /\ \/ /\ Applied(FALSE) \/ (core = "ready" /\ ~base /\ UNCHANGED <<live, stable>>)
             \/ (core # "ready" /\ FileRestored)
          /\ tun' = Off /\ Finish(verdict)
       \/ /\ NotApplied(FALSE) /\ (core = "ready" \/ Faults \cap {"disk", "probe"} # {})
          /\ UNCHANGED tun /\ Finish(FALSE)

DisableLowers ==
    /\ up /\ tunPc = "lower" /\ UNCHANGED <<live, stable, base, file>>
    /\ \E ok \in Outcome("disk") :
         IF ok THEN override' = FALSE /\ UNCHANGED tun /\ Continue("unload")
               ELSE UNCHANGED override /\ FailAs("error")

\* Mutant: a failed reload does not end the routine.
DisableUnloadsRegardless ==
    /\ up /\ tunPc = "unload" /\ UNCHANGED <<override, base, file, tun>>
    /\ Applied(FALSE) \/ NotApplied(FALSE) \/ FileRestored
    /\ Continue("clear")

\* A Mihomo that runs without answering cannot be restored.  An error of the
\* probe itself returns before the status is changed.
DisableUnloads ==
    /\ up /\ tunPc = "unload" /\ UNCHANGED <<override, base, file>>
    /\ \/ Applied(FALSE) /\ UNCHANGED tun /\ Continue("verify")
       \/ core = "none" /\ FileRestored /\ UNCHANGED tun /\ Continue("clear")
       \/ core = "ready" /\ NotApplied(FALSE) /\ FailAs("error")
       \/ /\ core = "broken" \/ (core = "none" /\ "disk" \in Faults)
          /\ UNCHANGED <<live, stable>> /\ FailAs("error")
       \/ /\ "probe" \in Faults /\ core # "none"
          /\ UNCHANGED <<live, stable, tun>> /\ Finish(FALSE)

DisableVerifies ==
    /\ up /\ tunPc = "verify" /\ KeepConfigs /\ UNCHANGED file
    /\ \/ core = "ready" /\ ~live /\ UNCHANGED tun /\ Continue("clear")
       \/ (core # "ready" \/ live \/ "api" \in Faults) /\ FailAs("error")
       \/ "probe" \in Faults /\ UNCHANGED tun /\ Finish(FALSE)

DisableClears ==
    /\ up /\ tunPc = "clear" /\ KeepConfigs
    /\ \E ok \in Outcome("disk") :
         IF ok THEN file' = NoProfile /\ tun' = Off /\ Finish(verdict)
               ELSE UNCHANGED file /\ FailAs("error")
-----------------------------------------------------------------------------
(* The ApplyProfile command: apply_profile and rebind_tun_profile.         *)

\* A failed apply is rolled back; the controller's or the files' rollback can
\* fail as well.
ApplyProfile ==
    /\ up /\ tunPc = "apply" /\ UNCHANGED override
    /\ \/ Finish(FALSE) /\ UNCHANGED <<live, stable, base, file, tun>>
       \/ /\ tun.status \in {"disabled", "running", "error"} /\ core = "ready"
          /\ tun.status = "error" => ~HasRecovery
          /\ \/ /\ live' = override /\ stable' = override /\ base' = TRUE
                /\ \/ /\ tun.status # "running" \/ "disk" \in Faults
                      /\ UNCHANGED <<file, tun>>
                   \/ /\ tun.status = "running" /\ file' = arg[tunBy]
                      /\ tun' = [tun EXCEPT !.profile = arg[tunBy]]
                /\ Finish(TRUE)
             \/ /\ live' \in IF "api" \in Faults THEN {live, override} ELSE {live}
                /\ \/ UNCHANGED <<stable, base>>
                   \/ "disk" \in Faults /\ base' = TRUE /\ stable' \in {stable, override}
                /\ UNCHANGED <<file, tun>> /\ Finish(FALSE)
-----------------------------------------------------------------------------
(* The commands of a client.                                               *)

ClientIdle == up /\ serving /\ task["client"] = "idle"

TunCommand(point, p) ==
    /\ ClientIdle
    /\ task' = [task EXCEPT !["client"] = point]
    /\ arg' = [arg EXCEPT !["client"] = p]
    /\ UNCHANGED <<process, configs, session, routine, desired, coreBy, seen, tries>>

\* Start and Stop take core_transition; Stop forgets a pending restore.
StartCommand ==
    /\ ClientIdle /\ coreBy = "none"
    /\ coreBy' = "client" /\ task' = [task EXCEPT !["client"] = "start"]
    /\ UNCHANGED <<process, configs, session, routine, desired, arg, seen, tries>>

StopCommand ==
    /\ ClientIdle /\ coreBy = "none"
    /\ coreBy' = "client" /\ pending' = NoProfile /\ desired' = FALSE
    /\ task' = [task EXCEPT !["client"] = IF HasRecovery THEN "stopClean" ELSE "kill"]
    /\ UNCHANGED <<process, configs, file, tun, routine, arg, seen, tries>>

\* The SCM stops the service: no client is accepted any more.
Shutdown ==
    /\ "crash" \in Faults /\ ClientIdle /\ coreBy = "none"
    /\ coreBy' = "client" /\ serving' = FALSE
    /\ task' = [task EXCEPT !["client"] = IF HasRecovery THEN "shutClean" ELSE "down"]
    /\ UNCHANGED <<up, core, live, foreign, configs, session, routine, desired,
                   arg, seen, tries>>

\* The end of stop_inner.
ClientKills ==
    /\ up /\ task["client"] = "kill"
    /\ core' = "none" /\ live' = FALSE
    /\ MoveTo("client", "idle")
    /\ UNCHANGED <<up, foreign, configs, session, routine, desired, arg, seen, tries>>
-----------------------------------------------------------------------------
(* start_inner, run by Start and by the monitor.                           *)

\* Mutant: a session that is still recorded is not undone before the start.
CoreStartsWithoutCleanup(t) ==
    /\ up /\ task[t] = "start"
    /\ desired' = TRUE
    /\ \/ core = "ready" /\ MoveTo(t, "restoring") /\ UNCHANGED <<core, live>>
       \/ core = "none" /\ MoveTo(t, "prepare") /\ UNCHANGED <<core, live>>
       \/ /\ core = "broken" /\ core' = "none" /\ live' = FALSE
          /\ UNCHANGED <<task, coreBy, serving>>
    /\ UNCHANGED <<up, foreign, configs, session, routine, arg, seen, tries>>

\* A Mihomo that is not ready is killed first; one of somebody else is
\* accepted and not supervised.
CoreStarts(t) ==
    /\ up /\ task[t] = "start"
    /\ \/ /\ core = "none" /\ foreign
          /\ desired' = FALSE /\ MoveTo(t, "restoring") /\ UNCHANGED <<core, live>>
       \/ /\ ~(core = "none" /\ foreign)
          /\ desired' = TRUE
          /\ \/ core = "ready" /\ MoveTo(t, "restoring") /\ UNCHANGED <<core, live>>
             \/ /\ core = "broken" /\ core' = "none" /\ live' = FALSE
                /\ UNCHANGED <<task, coreBy, serving>>
             \/ /\ core = "none" /\ UNCHANGED <<core, live>>
                /\ MoveTo(t, IF HasRecovery THEN "startClean" ELSE "prepare")
             \/ "probe" \in Faults /\ MoveTo(t, "idle") /\ UNCHANGED <<core, live>>
       \/ /\ t = "monitor"                       \* recovery_can_attempt says no
          /\ MoveTo(t, "idle") /\ UNCHANGED <<desired, core, live>>
    /\ UNCHANGED <<up, foreign, configs, session, routine, arg, seen, tries>>

\* The stable configuration is regenerated when no session is left; then the
\* geodata is fetched and the configuration validated.
CorePrepares(t) ==
    /\ up /\ task[t] = "prepare"
    /\ stable' = IF base /\ ~HasRecovery THEN override ELSE stable
    /\ \E valid \in BOOLEAN : MoveTo(t, IF valid THEN "spawn" ELSE "idle")
    /\ UNCHANGED <<up, core, live, foreign, override, base, session, routine,
                   desired, arg, seen, tries>>

\* One candidate: Mihomo loads what the file says, which has not been looked at
\* since the preparation.
CandidateSpawns(t) ==
    /\ up /\ task[t] = "spawn"
    /\ \/ /\ core' = "broken" /\ live' = stable /\ slipped' = (slipped \/ stable)
          /\ MoveTo(t, "wait") /\ UNCHANGED tries
       \/ /\ MoveTo(t, "idle") /\ tries' = 0 /\ UNCHANGED <<core, live, slipped>>
    /\ UNCHANGED <<up, foreign, configs, session, tunBy, tunPc, verdict, desired,
                   arg, seen>>

\* core_ready_for_pid, up to fifty times: the candidate is accepted; it is left
\* as it is when the listing fails; or it is killed, when it did not get ready
\* or its port cannot be stored, and the next one is tried.
CandidateJudged(t) ==
    /\ up /\ task[t] = "wait"
    /\ \/ core = "ready" /\ MoveTo(t, "restoring") /\ tries' = 0 /\ UNCHANGED <<core, live>>
       \/ "probe" \in Faults /\ MoveTo(t, "idle") /\ tries' = 0 /\ UNCHANGED <<core, live>>
       \/ /\ core # "ready" \/ "disk" \in Faults
          /\ core' = "none" /\ live' = FALSE
          /\ \/ tries + 1 < MaxCandidates /\ MoveTo(t, "spawn") /\ tries' = tries + 1
             \/ /\ tries + 1 = MaxCandidates \/ "disk" \in Faults
                /\ MoveTo(t, "idle") /\ tries' = 0
    /\ UNCHANGED <<up, foreign, configs, session, routine, desired, arg, seen>>

\* restore_pending_tun_locked.
RestoreBegins(t) ==
    /\ up /\ task[t] = "restoring"
    /\ arg' = [arg EXCEPT ![t] = pending]
    /\ MoveTo(t, IF pending = NoProfile THEN "idle" ELSE "restore")
    /\ UNCHANGED <<up, core, live, foreign, configs, session, routine, desired, seen, tries>>
-----------------------------------------------------------------------------
(* The monitor; CoreRecovery has its judgement in detail.                  *)

MonitorBegins ==
    /\ up /\ desired /\ coreBy = "none" /\ task["monitor"] = "idle"
    /\ coreBy' = "monitor" /\ task' = [task EXCEPT !["monitor"] = "begin"]
    /\ UNCHANGED <<process, configs, session, routine, desired, arg, seen, tries>>

Remembered(p) == IF p = NoProfile THEN pending ELSE p

\* A ready core gets its session back; a failed one is about to be killed;
\* with none, a session is cleaned up before the next start.
MonitorJudges ==
    /\ up /\ task["monitor"] = "begin"
    /\ \/ /\ core = "ready"
          /\ MoveTo("monitor", "restoring") /\ UNCHANGED <<seen, pending>>
       \/ /\ core # "ready" \/ "probe" \in Faults
          /\ seen' = tun.profile
          /\ MoveTo("monitor", "failing") /\ UNCHANGED pending
       \/ /\ core = "broken"                     \* within its grace period
          /\ MoveTo("monitor", "idle") /\ UNCHANGED <<seen, pending>>
       \/ /\ core = "none" /\ seen' = tun.profile
          /\ IF tun.status # "disabled" /\ HasRecovery
             THEN pending' = Remembered(tun.profile) /\ MoveTo("monitor", "clean")
             ELSE UNCHANGED pending /\ MoveTo("monitor", "start")
    /\ UNCHANGED <<up, core, live, foreign, configs, file, tun, routine, desired, arg,
                   tries>>

\* The core is killed without tun_transition, the session is remembered, and
\* then the transition is asked for.
MonitorFails ==
    /\ up /\ task["monitor"] = "failing"
    /\ core' = "none" /\ live' = FALSE
    /\ pending' = Remembered(seen)
    /\ MoveTo("monitor", IF HasRecovery THEN "failClean" ELSE "idle")
    /\ UNCHANGED <<up, foreign, configs, file, tun, routine, desired, arg, seen, tries>>
-----------------------------------------------------------------------------
(* The service process.                                                    *)

\* What is not on disk is gone; the job object kills Mihomo.
Forget ==
    /\ up' = FALSE /\ serving' = FALSE /\ core' = "none" /\ live' = FALSE
    /\ tun' = Off /\ pending' = NoProfile /\ seen' = NoProfile
    /\ coreBy' = "none" /\ tunBy' = "none" /\ tunPc' = "-" /\ verdict' = TRUE
    /\ slipped' = FALSE /\ tries' = 0
    /\ task' = [t \in Tasks |-> "idle"] /\ arg' = [t \in Tasks |-> NoProfile]
    /\ UNCHANGED <<foreign, configs, file, desired>>

ServiceCrashes == "crash" \in Faults /\ up /\ Forget

ServiceStops == up /\ task["client"] = "down" /\ Forget

\* recover, then ensure_desired_core_ready, before a client is served.
ServiceBoots ==
    /\ ~up /\ up' = TRUE
    /\ \/ /\ file = NoProfile /\ UNCHANGED <<configs, file, tun>>
       \/ /\ file # NoProfile
          /\ \/ /\ override' = FALSE /\ stable' = (stable /\ ~base)
                /\ file' = NoProfile /\ UNCHANGED tun
             \/ /\ "disk" \in Faults /\ UNCHANGED file
                /\ \/ /\ override' \in {FALSE, override} /\ UNCHANGED stable
                      /\ tun' = [status |-> "error", profile |-> file]
                   \/ /\ override' = FALSE /\ stable' = (stable /\ ~base)
                      /\ tun' = [Off EXCEPT !.status = "error"]
          /\ UNCHANGED base
    /\ IF desired /\ ~foreign
       THEN /\ coreBy' = "monitor" /\ task' = [task EXCEPT !["monitor"] = "begin"]
            /\ UNCHANGED <<desired, serving>>
       ELSE desired' = FALSE /\ serving' = TRUE /\ UNCHANGED <<coreBy, task>>
    /\ UNCHANGED <<core, live, foreign, pending, routine, arg, seen, tries>>
-----------------------------------------------------------------------------
EnableSteps ==
    \/ EnableChecks \/ EnableRecords \/ EnableOverrides \/ EnableLoads
    \/ EnableConfirms \/ RollbackLowers \/ RollbackUndoes

DisableSteps ==
    \/ DisableBegins \/ DisablePlain \/ DisableLowers \/ DisableUnloads
    \/ DisableVerifies \/ DisableClears

RoutineSteps == EnableSteps \/ DisableSteps \/ ApplyProfile

TaskSteps(t) ==
    \/ CoreStarts(t) \/ CorePrepares(t)
    \/ CandidateSpawns(t) \/ CandidateJudged(t) \/ RestoreBegins(t)

MonitorSteps == TaskSteps("monitor") \/ MonitorJudges \/ MonitorFails

ClientSteps == TaskSteps("client") \/ ClientKills \/ ServiceStops

Next ==
    \/ CoreFails \/ CoreHeals \/ ForeignChanges
    \/ RoutineSteps \/ MonitorSteps \/ ClientSteps
    \/ \E t \in Tasks : TakeTunLock(t)
    \/ \E p \in Profiles : TunCommand("on", p) \/ TunCommand("apply", p)
    \/ TunCommand("off", NoProfile)
    \/ StartCommand \/ StopCommand \/ Shutdown \/ MonitorBegins
    \/ ServiceCrashes \/ ServiceBoots

Spec == Init /\ [][Next]_vars

\* The tasks run; tokio's mutexes are granted in the order of the requests.
FairSpec ==
    /\ Spec
    /\ WF_vars(RoutineSteps) /\ WF_vars(MonitorSteps) /\ WF_vars(ClientSteps)
    /\ \A t \in Tasks : SF_vars(TakeTunLock(t))
-----------------------------------------------------------------------------
(* Properties.                                                             *)

\* Every variable stays in its set.
TypeOK ==
    /\ {up, serving, live, foreign, override, stable, base, desired, verdict, slipped}
         \subseteq BOOLEAN
    /\ core \in {"none", "ready", "broken"}
    /\ file \in MaybeId /\ pending \in MaybeId /\ seen \in MaybeId
    /\ tun \in [status : Statuses, profile : MaybeId]
    /\ coreBy \in Tasks \cup {"none"} /\ tunBy \in Tasks \cup {"none"}
    /\ tunPc \in Routine
    /\ task \in [Tasks -> Points] /\ arg \in [Tasks -> MaybeId]
    /\ tries \in 0 .. MaxCandidates - 1

\* Whatever enables TUN on disk is backed by the session file, from which a
\* restarted service undoes it, at every instant a crash can hit.
SessionRecorded == override \/ stable => file # NoProfile

\* What the status says when no routine is at work: Running means that the ready
\* Mihomo has TUN loaded, whatever restarts, profile changes and failed rollbacks
\* came before, and Starting or Stopping are not left behind by a routine that is
\* over, short of a listing of listeners that fails in the middle of it.
StatusHonest ==
    tunBy = "none" =>
        /\ tun.status = "running" /\ core = "ready" => live
        /\ tun.status \in {"starting", "stopping"} => slipped

\* A Mihomo is started on a configuration with TUN only when it takes the place
\* of a candidate that was ready for long enough to be given TUN, and then the
\* session that undoes it is on record: the first candidate of a start never has
\* TUN, whatever sessions, kills, restarts and failed clean-ups came before.
SpawnsWithoutTun ==
    [][core = "none" /\ core' # "none" /\ (stable' \/ live')
         => tries > 0 /\ file # NoProfile]_vars

\* The session file is only given up when nothing of the session is left, short
\* of a Mihomo that hangs, of a candidate that came up with TUN, and of a listing
\* of listeners that fails.
ForgottenWhenUndone ==
    [][file # NoProfile /\ file' = NoProfile /\ ~slipped'
         => ~override' /\ ~stable' /\ ~live']_vars

\* Both transitions are given back by whoever holds them: the routines end,
\* and a holder of core_transition gets tun_transition when it needs it, even
\* while clients keep using TUN.
LocksReleased ==
    (tunBy # "none" ~> tunBy = "none") /\ (coreBy # "none" ~> coreBy = "none")

\* Not so (ServiceTun_hand.cfg): StatusHonest's last part with the failed listings,
\* and ForgottenWhenUndone with the Mihomo that hangs.
AlwaysEnds == tunBy = "none" => tun.status \notin {"starting", "stopping"}
AlwaysUndone ==
    [][file # NoProfile /\ file' = NoProfile => ~override' /\ ~stable' /\ ~live']_vars

\* Not so (ServiceTun_hand.cfg): no Mihomo is ever started with TUN.  A later
\* candidate is.
NeverSpawnsTun == [][core = "none" /\ core' # "none" => ~live']_vars
=============================================================================
