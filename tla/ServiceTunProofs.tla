-------------------------- MODULE ServiceTunProofs --------------------------
(* Proofs about ServiceTun for every set of profiles and every set of       *)
(* faults.                                                                   *)
EXTENDS ServiceTun, TLAPS

-----------------------------------------------------------------------------
(* The inductive invariant, in the order in which its parts need each other. *)

\* The points at which a task holds core_transition because it may start a core.
Supervising == {"begin", "clean", "start", "startClean", "prepare", "spawn", "wait"}

\* A dead service does nothing, tun_transition is held by a task that asked for
\* it, core_transition by the one that may start a core.
Locks ==
    /\ ~up => /\ core = "none" /\ tunBy = "none" /\ tun = Off
              /\ \A t \in Tasks : task[t] = "idle"
    /\ tunBy = "none" <=> tunPc = "-"
    /\ tunBy # "none" => task[tunBy] \in Enabling \cup Disabling \cup {"apply"}
    /\ tunPc \in {"enable", "record", "override", "load", "confirm", "rollback", "undo"}
         => task[tunBy] \in Enabling
    /\ tunPc = "apply" => task[tunBy] = "apply"
    /\ \A t \in Tasks : /\ task[t] \in Enabling \cup {"apply"} => arg[t] # NoProfile
                        /\ task[t] \in Supervising => coreBy = t

\* What is at each place while a routine is between two writes.
Places ==
    /\ live => core # "none"
    /\ override \/ stable => base /\ file # NoProfile
    /\ tunPc \in {"record", "override", "load", "confirm"} => base /\ tun.profile # NoProfile
    /\ tunPc \in {"override", "load", "confirm", "rollback", "undo"} => file # NoProfile
    /\ tunPc \in {"undo", "plain", "unload", "verify", "clear"} => ~override
    /\ tunPc \in {"verify", "clear"} => ~stable
    /\ tunPc = "clear" => ~live
    /\ tunPc = "plain" => file = NoProfile

\* A start begins where no session is recorded, a candidate is only followed by
\* another when it is gone, and a core that is not ready has no TUN of a routine's.
Spawning ==
    /\ \A t \in Tasks : task[t] \in {"startClean", "prepare", "spawn"} => core = "none"
    /\ \A t \in Tasks : task[t] = "prepare" \/ (task[t] = "spawn" /\ tries = 0)
                         => ~HasRecovery
    /\ live /\ core # "ready" => slipped

\* What a status means outside of the routine that sets it: the stable
\* configuration is part of it, for the candidates to come load it.
Meaning ==
    /\ tunPc = "confirm" => override /\ stable
    /\ tunPc \in {"lower", "unload", "verify", "clear"} => tun.status = "stopping"
    /\ tunPc \in {"-", "enable", "disable", "plain", "apply"} =>
         /\ tun.status = "running" =>
              override /\ stable /\ tun.profile # NoProfile /\ (core # "none" => live)
         /\ tun.status \in {"starting", "stopping"} => slipped

Inv == TypeOK /\ Locks /\ Places /\ Spawning /\ Meaning

-----------------------------------------------------------------------------
(* The two ways in which a step of a routine ends.                           *)

Controls ==
    /\ up \in BOOLEAN /\ serving \in BOOLEAN /\ foreign \in BOOLEAN /\ desired \in BOOLEAN
    /\ verdict \in BOOLEAN /\ slipped \in BOOLEAN
    /\ core \in {"none", "ready", "broken"} /\ pending \in MaybeId /\ seen \in MaybeId
    /\ coreBy \in Tasks \cup {"none"} /\ tunBy \in Tasks \cup {"none"} /\ tunPc \in Routine
    /\ task \in [Tasks -> Points] /\ arg \in [Tasks -> MaybeId]
    /\ tries \in 0 .. MaxCandidates - 1

Data ==
    /\ live \in BOOLEAN /\ override \in BOOLEAN /\ stable \in BOOLEAN /\ base \in BOOLEAN
    /\ file \in MaybeId /\ tun \in [status : Statuses, profile : MaybeId]

LEMMA TypesSplit == TypeOK <=> Controls /\ Data
BY DEF TypeOK, Controls, Data

EnablePoints == {"enable", "record", "override", "load", "confirm", "rollback", "undo"}
DisablePoints == {"disable", "plain", "lower", "unload", "verify", "clear"}

LEMMA Resuming ==
  ASSUME NEW point \in Points, NEW ok
  PROVE  /\ Resume(point, ok) \in {"prepare", "start", "kill", "down", "idle"}
         /\ Resume(point, ok) = "prepare" => point = "startClean" /\ ok
         /\ Resume(point, ok) = "start" => point = "clean" /\ ok
         /\ Resume(point, FALSE) \notin {"prepare", "start"}
BY DEF Resume

LEMMA FinishControls ==
  ASSUME Controls, Locks, up, tunBy # "none", NEW ok, Finish(ok)
  PROVE  Controls' /\ Locks'
<1> DEFINE h == tunBy
           point == Resume(task[h], ok)
<1>1. h \in Tasks /\ task[h] \in Points
  BY DEF Controls
<1>2. /\ point \in {"prepare", "start", "kill", "down", "idle"}
      /\ point \in {"prepare", "start"} => task[h] \in Supervising /\ coreBy = h
  BY <1>1, Resuming DEF Locks, Supervising
<1>3. point \in Points
  BY <1>2 DEF Points
<1>4. /\ task' = [task EXCEPT ![h] = point]
      /\ coreBy' = IF coreBy = h /\ point = "idle" THEN "none" ELSE coreBy
      /\ serving' = (serving \/ (h = "monitor" /\ point = "idle"))
      /\ tunBy' = "none" /\ tunPc' = "-" /\ verdict' = TRUE /\ slipped' \in BOOLEAN
      /\ pending' \in {NoProfile, pending}
      /\ UNCHANGED <<up, core, foreign, desired, arg, seen, tries>>
  BY DEF Finish, MoveTo
<1> HIDE DEF point, h
<1>5. Controls'
  <2>1. task' \in [Tasks -> Points]
    BY <1>3, <1>4 DEF Controls
  <2>2. serving' \in BOOLEAN
    BY <1>4
  <2>3. coreBy' \in Tasks \cup {"none"}
    BY <1>4 DEF Controls
  <2>4. QED
    BY <1>4, <2>1, <2>2, <2>3 DEF Controls, MaybeId, Routine
<1>6. \A t \in Tasks : /\ task'[t] \in Enabling \cup {"apply"} => arg'[t] # NoProfile
                       /\ task'[t] \in Supervising => coreBy' = t
  <2> SUFFICES ASSUME NEW t \in Tasks
               PROVE  /\ task'[t] \in Enabling \cup {"apply"} => arg'[t] # NoProfile
                      /\ task'[t] \in Supervising => coreBy' = t
    OBVIOUS
  <2>1. CASE t = h
    <3>1. task'[t] = point
      BY <1>1, <1>4, <2>1 DEF Controls
    <3>2. QED
      BY <1>2, <1>4, <2>1, <3>1 DEF Enabling, Supervising
  <2>2. CASE t # h
    <3>1. task'[t] = task[t] /\ arg'[t] = arg[t]
      BY <1>4, <2>2 DEF Controls
    <3>2. QED
      BY <1>4, <2>2, <3>1 DEF Locks, Tasks
  <2>3. QED
    BY <2>1, <2>2
<1>7. QED
  BY <1>4, <1>5, <1>6 DEF Locks

LEMMA ContinueControls ==
  ASSUME Controls, Locks, up, tunBy # "none",
         NEW point \in EnablePoints \cup DisablePoints,
         point \in EnablePoints => tunPc \in EnablePoints, Continue(point)
  PROVE  Controls' /\ Locks'
<1>1. Controls'
  BY DEF Controls, Continue, callers, Routine, EnablePoints, DisablePoints
<1>2. Locks'
  BY DEF Locks, Continue, callers, EnablePoints, DisablePoints
<1>3. QED
  BY <1>1, <1>2

\* Where a step of a routine can lead, its end apart.
Ends == \E ok \in {TRUE, FALSE, verdict} : Finish(ok)
Goes(points) == \E point \in points : Continue(point)

LEMMA RoutineGoes ==
  ASSUME RoutineSteps
  PROVE  /\ up /\ tunPc # "-"
         /\ \/ Ends
            \/ tunPc \in EnablePoints /\ Goes(EnablePoints)
            \/ Goes(DisablePoints)
            \/ /\ tunPc = "enable" /\ tunPc' = "disable" /\ verdict' = FALSE
               /\ UNCHANGED <<up, serving, core, foreign, tunBy, slipped, pending, callers>>
<1> USE DEF Ends, Goes, EnablePoints, DisablePoints, FailAs, RollbackFails
<1>1. CASE EnableChecks
  BY <1>1 DEF EnableChecks
<1>2. CASE EnableRecords \/ EnableOverrides \/ EnableLoads
  BY <1>2 DEF EnableRecords, EnableOverrides, EnableLoads
<1>3. CASE EnableConfirms \/ RollbackLowers \/ RollbackUndoes
  BY <1>3 DEF EnableConfirms, RollbackLowers, RollbackUndoes
<1>4. CASE DisableBegins \/ DisablePlain \/ DisableLowers
  BY <1>4 DEF DisableBegins, DisablePlain, DisableLowers
<1>5. CASE DisableUnloads \/ DisableVerifies \/ DisableClears
  BY <1>5 DEF DisableUnloads, DisableVerifies, DisableClears
<1>6. CASE ApplyProfile
  BY <1>6 DEF ApplyProfile
<1>7. QED
  BY <1>1, <1>2, <1>3, <1>4, <1>5, <1>6 DEF RoutineSteps, EnableSteps, DisableSteps

LEMMA RoutineControls == Controls /\ Locks /\ RoutineSteps => Controls' /\ Locks'
<1> SUFFICES ASSUME Controls, Locks, RoutineSteps PROVE Controls' /\ Locks'
  OBVIOUS
<1>1. up /\ tunBy # "none" /\ tunPc # "-"
  BY RoutineGoes DEF Locks
<1>2. CASE Ends
  BY <1>1, <1>2, FinishControls DEF Ends
<1>3. CASE tunPc \in EnablePoints /\ Goes(EnablePoints)
  BY <1>1, <1>3, ContinueControls DEF Goes
<1>4. CASE Goes(DisablePoints)
  <2>1. DisablePoints \cap EnablePoints = {}
    BY DEF EnablePoints, DisablePoints
  <2>2. QED
    BY <1>1, <1>4, <2>1, ContinueControls DEF Goes
<1>5. CASE /\ tunPc = "enable" /\ tunPc' = "disable" /\ verdict' = FALSE
           /\ UNCHANGED <<up, serving, core, foreign, tunBy, slipped, pending, callers>>
  <2>1. UNCHANGED <<desired, coreBy, task, arg, seen, tries>>
    BY <1>5 DEF callers
  <2>2. Controls'
    BY <1>5, <2>1 DEF Controls, Routine
  <2>3. Locks'
    BY <1>1, <1>5, <2>1 DEF Locks
  <2>4. QED
    BY <2>2, <2>3
<1>6. QED
  BY <1>2, <1>3, <1>4, <1>5, RoutineGoes

-----------------------------------------------------------------------------
(* The tasks outside of a routine.                                           *)

\* A task moves between points at which it does not ask for tun_transition.
LEMMA MoveControls ==
  ASSUME Controls, Locks, up, up' = up, NEW t \in Tasks, NEW point \in Points, MoveTo(t, point),
         task[t] \notin Enabling \cup Disabling \cup {"apply"},
         point \in Supervising => task[t] \in Supervising,
         arg' \in [Tasks -> MaybeId], \A u \in Tasks : u # t => arg'[u] = arg[u],
         point \in Enabling \cup {"apply"} => arg'[t] # NoProfile,
         tunBy' = tunBy, tunPc' = tunPc
  PROVE  /\ Locks' /\ serving' \in BOOLEAN /\ coreBy' \in Tasks \cup {"none"}
         /\ task' \in [Tasks -> Points]
<1>1. /\ task' = [task EXCEPT ![t] = point]
      /\ coreBy' = IF coreBy = t /\ point = "idle" THEN "none" ELSE coreBy
      /\ serving' = (serving \/ (t = "monitor" /\ point = "idle"))
  BY DEF MoveTo
<1>2. task'[t] = point /\ \A u \in Tasks : u # t => task'[u] = task[u]
  BY <1>1 DEF Controls
<1>3. tunBy # t
  BY DEF Locks, Tasks
<1>4. /\ serving' \in BOOLEAN /\ coreBy' \in Tasks \cup {"none"}
      /\ task' \in [Tasks -> Points]
  BY <1>1 DEF Controls
<1>5. tunBy # "none" => tunBy \in Tasks /\ task'[tunBy] = task[tunBy]
  BY <1>2, <1>3 DEF Controls
<1>6. \A u \in Tasks : /\ task'[u] \in Enabling \cup {"apply"} => arg'[u] # NoProfile
                       /\ task'[u] \in Supervising => coreBy' = u
  <2> SUFFICES ASSUME NEW u \in Tasks
               PROVE  /\ task'[u] \in Enabling \cup {"apply"} => arg'[u] # NoProfile
                      /\ task'[u] \in Supervising => coreBy' = u
    OBVIOUS
  <2>1. CASE u = t
    BY <1>1, <1>2, <2>1 DEF Locks, Supervising
  <2>2. CASE u # t
    BY <1>1, <1>2, <2>2 DEF Locks, Tasks
  <2>3. QED
    BY <2>1, <2>2
<1>7. tunPc # "-" => tunBy # "none"
  BY DEF Locks
<1>8. QED
  BY <1>4, <1>5, <1>6, <1>7 DEF Locks

LEMMA TaskControls ==
  ASSUME Controls, Locks, NEW t \in Tasks, TaskSteps(t)
  PROVE  Controls' /\ Locks'
<1> USE DEF Points, Enabling, Disabling, Supervising
<1>1. CASE CoreStarts(t)
  <2>1. PICK p \in {"restoring", "startClean", "prepare", "idle", "start"} :
          \/ MoveTo(t, p) /\ p # "start"
          \/ UNCHANGED <<task, coreBy, serving>>
    BY <1>1 DEF CoreStarts
  <2>2. /\ up /\ task[t] = "start" /\ core' \in {"none", core} /\ desired' \in BOOLEAN
        /\ UNCHANGED <<up, foreign, pending, tunBy, tunPc, verdict, slipped, arg, seen, tries, tun>>
    BY <1>1 DEF CoreStarts, Controls, session, routine
  <2>3. CASE MoveTo(t, p) /\ p # "start"
    <3>1. /\ Locks' /\ serving' \in BOOLEAN /\ coreBy' \in Tasks \cup {"none"}
          /\ task' \in [Tasks -> Points]
      BY <2>2, <2>3, MoveControls DEF Controls
    <3>2. QED
      BY <2>2, <3>1 DEF Controls
  <2>4. CASE UNCHANGED <<task, coreBy, serving>>
    BY <2>2, <2>4 DEF Controls, Locks
  <2>5. QED
    BY <2>1, <2>3, <2>4
<1>2. CASE CorePrepares(t) \/ CandidateSpawns(t) \/ CandidateJudged(t)
  <2>1. PICK p \in {"spawn", "wait", "restoring", "idle"} : MoveTo(t, p)
    BY <1>2 DEF CorePrepares, CandidateSpawns, CandidateJudged
  <2>2. /\ up /\ task[t] \in {"prepare", "spawn", "wait"}
        /\ core' \in {"none", "ready", "broken"} /\ slipped' \in BOOLEAN
        /\ UNCHANGED <<up, foreign, pending, tunBy, tunPc, verdict, arg, seen, desired>>
    BY <1>2 DEF CorePrepares, CandidateSpawns, CandidateJudged, session, routine, Controls
  <2>3. tries' \in 0 .. MaxCandidates - 1
    BY <1>2, TunAssumption DEF CorePrepares, CandidateSpawns, CandidateJudged, Controls
  <2>4. /\ Locks' /\ serving' \in BOOLEAN /\ coreBy' \in Tasks \cup {"none"}
        /\ task' \in [Tasks -> Points]
    BY <2>1, <2>2, MoveControls DEF Controls
  <2>5. QED
    BY <2>2, <2>3, <2>4 DEF Controls
<1>3. CASE RestoreBegins(t)
  <2>1. PICK p \in {"idle", "restore"} : MoveTo(t, p) /\ (p = "restore" => pending # NoProfile)
    BY <1>3 DEF RestoreBegins
  <2>2. /\ up /\ task[t] = "restoring" /\ arg' = [arg EXCEPT ![t] = pending]
        /\ UNCHANGED <<up, core, foreign, pending, tunBy, tunPc, verdict, slipped, seen, desired, tries>>
    BY <1>3 DEF RestoreBegins, session, routine
  <2>3. /\ arg' \in [Tasks -> MaybeId] /\ arg'[t] = pending
        /\ \A u \in Tasks : u # t => arg'[u] = arg[u]
    BY <2>2 DEF Controls
  <2>4. /\ Locks' /\ serving' \in BOOLEAN /\ coreBy' \in Tasks \cup {"none"}
        /\ task' \in [Tasks -> Points]
    BY <2>1, <2>2, <2>3, MoveControls
  <2>5. QED
    BY <2>2, <2>3, <2>4 DEF Controls
<1>4. QED
  BY <1>1, <1>2, <1>3 DEF TaskSteps

LEMMA MonitorControls ==
  ASSUME Controls, Data, Locks, MonitorJudges \/ MonitorFails
  PROVE  Controls' /\ Locks'
<1> USE DEF Points, Enabling, Disabling, Supervising
<1>1. "monitor" \in Tasks /\ tun.profile \in MaybeId
  BY DEF Tasks, Data
<1>2. CASE MonitorJudges
  <2>1. PICK p \in {"restoring", "failing", "idle", "clean", "start"} : MoveTo("monitor", p)
    BY <1>2 DEF MonitorJudges
  <2>2. /\ up /\ task["monitor"] = "begin"
        /\ UNCHANGED <<up, core, foreign, tunBy, tunPc, verdict, slipped, arg, desired, tries>>
    BY <1>2 DEF MonitorJudges, routine
  <2>3. seen' \in MaybeId /\ pending' \in MaybeId
    BY <1>1, <1>2 DEF MonitorJudges, Remembered, Controls
  <2>4. /\ Locks' /\ serving' \in BOOLEAN /\ coreBy' \in Tasks \cup {"none"}
        /\ task' \in [Tasks -> Points]
    BY <1>1, <2>1, <2>2, MoveControls DEF Controls
  <2>5. QED
    BY <2>2, <2>3, <2>4 DEF Controls
<1>3. CASE MonitorFails
  <2>1. PICK p \in {"failClean", "idle"} : MoveTo("monitor", p)
    BY <1>3 DEF MonitorFails
  <2>2. /\ up /\ task["monitor"] = "failing" /\ core' = "none" /\ pending' \in MaybeId
        /\ UNCHANGED <<up, foreign, tunBy, tunPc, verdict, slipped, arg, seen, desired, tries>>
    BY <1>3 DEF MonitorFails, Remembered, routine, Controls
  <2>3. /\ Locks' /\ serving' \in BOOLEAN /\ coreBy' \in Tasks \cup {"none"}
        /\ task' \in [Tasks -> Points]
    BY <1>1, <2>1, <2>2, MoveControls DEF Controls
  <2>4. QED
    BY <2>2, <2>3 DEF Controls
<1>4. QED
  BY <1>2, <1>3

\* Commands find the client's task idle, so it holds no transition.
LEMMA CommandControls ==
  ASSUME Controls, Locks,
         \/ \E p \in Profiles : TunCommand("on", p) \/ TunCommand("apply", p)
         \/ TunCommand("off", NoProfile) \/ StartCommand \/ StopCommand \/ Shutdown
         \/ ClientKills \/ MonitorBegins
  PROVE  Controls' /\ Locks'
<1> USE DEF Points, Enabling, Disabling, Supervising
<1>0. NoProfile \in MaybeId /\ Profiles \subseteq MaybeId /\ NoProfile \notin Profiles
  BY TunAssumption DEF MaybeId
<1>1. ASSUME NEW point \in {"on", "apply", "off"}, NEW p \in MaybeId,
             point # "off" => p # NoProfile, TunCommand(point, p)
      PROVE  Controls' /\ Locks'
  <2>1. /\ up /\ task["client"] = "idle" /\ tunBy # "client"
        /\ task' = [task EXCEPT !["client"] = point] /\ arg' = [arg EXCEPT !["client"] = p]
        /\ UNCHANGED <<up, serving, core, foreign, tun, pending, tunBy, tunPc, verdict,
                       slipped, desired, coreBy, seen, tries>>
    BY <1>1 DEF TunCommand, ClientIdle, process, session, routine, Locks
  <2>2. Controls'
    BY <1>1, <2>1 DEF Controls
  <2>3. Locks'
    BY <1>1, <2>1 DEF Controls, Locks, Tasks
  <2>4. QED
    BY <2>2, <2>3
<1>2. CASE \E p \in Profiles : TunCommand("on", p) \/ TunCommand("apply", p)
  BY <1>0, <1>1, <1>2
<1>3. CASE TunCommand("off", NoProfile)
  BY <1>0, <1>1, <1>3
<1>4. CASE StartCommand \/ StopCommand \/ Shutdown
  <2>1. PICK point \in {"start", "stopClean", "kill", "shutClean", "down"} :
          task' = [task EXCEPT !["client"] = point]
    BY <1>4 DEF StartCommand, StopCommand, Shutdown
  <2>2. /\ up /\ task["client"] = "idle" /\ coreBy = "none" /\ coreBy' = "client"
        /\ serving' \in BOOLEAN /\ desired' \in BOOLEAN /\ pending' \in MaybeId
        /\ UNCHANGED <<up, core, foreign, tun, tunBy, tunPc, verdict, slipped, arg, seen, tries>>
    BY <1>0, <1>4 DEF StartCommand, StopCommand, Shutdown, ClientIdle, process, session, routine,
                      Controls
  <2>3. Controls'
    BY <2>1, <2>2 DEF Controls, Tasks
  <2>4. Locks'
    BY <2>1, <2>2 DEF Controls, Locks, Tasks
  <2>5. QED
    BY <2>3, <2>4
<1>5. CASE ClientKills
  <2>1. /\ up /\ task["client"] = "kill" /\ core' = "none" /\ MoveTo("client", "idle")
        /\ UNCHANGED <<up, foreign, pending, tunBy, tunPc, verdict, slipped, arg, seen, desired, tries>>
    BY <1>5 DEF ClientKills, session, routine
  <2>2. /\ Locks' /\ serving' \in BOOLEAN /\ coreBy' \in Tasks \cup {"none"}
        /\ task' \in [Tasks -> Points]
    BY <2>1, MoveControls DEF Controls, Tasks
  <2>3. QED
    BY <2>1, <2>2 DEF Controls
<1>6. CASE MonitorBegins
  <2>1. /\ up /\ task["monitor"] = "idle" /\ coreBy = "none" /\ coreBy' = "monitor"
        /\ task' = [task EXCEPT !["monitor"] = "begin"]
        /\ UNCHANGED <<up, serving, core, foreign, tun, pending, tunBy, tunPc, verdict,
                       slipped, desired, arg, seen, tries>>
    BY <1>6 DEF MonitorBegins, process, session, routine
  <2>2. Controls'
    BY <2>1 DEF Controls, Tasks
  <2>3. Locks'
    BY <2>1 DEF Controls, Locks, Tasks
  <2>4. QED
    BY <2>2, <2>3
<1>7. QED
  BY <1>2, <1>3, <1>4, <1>5, <1>6

LEMMA MachineControls ==
  ASSUME Controls, Locks,
         \/ CoreFails \/ CoreHeals \/ ForeignChanges \/ \E t \in Tasks : TakeTunLock(t)
         \/ ServiceCrashes \/ ServiceStops \/ ServiceBoots
  PROVE  Controls' /\ Locks'
<1> USE DEF Points, Enabling, Disabling, Supervising
<1>1. CASE CoreFails \/ CoreHeals \/ ForeignChanges
  <2>1. /\ core' \in {"none", "ready", "broken"} /\ (~up => core' = core)
        /\ slipped' \in BOOLEAN /\ foreign' \in BOOLEAN
    BY <1>1 DEF CoreFails, CoreHeals, ForeignChanges, Controls, Locks, routine
  <2>2. UNCHANGED <<up, serving, tun, pending, tunBy, tunPc, verdict, desired, coreBy, task, arg, seen, tries>>
    BY <1>1 DEF CoreFails, CoreHeals, ForeignChanges, session, routine, callers
  <2>3. Controls'
    BY <2>1, <2>2 DEF Controls
  <2>4. Locks'
    BY <2>1, <2>2 DEF Locks
  <2>5. QED
    BY <2>3, <2>4
<1>2. ASSUME NEW t \in Tasks, TakeTunLock(t) PROVE Controls' /\ Locks'
  <2>1. /\ up /\ tunBy = "none" /\ task[t] \in Enabling \cup Disabling \cup {"apply"}
        /\ tunBy' = t /\ verdict' = TRUE
        /\ UNCHANGED <<up, serving, core, foreign, tun, pending, slipped, desired, coreBy,
                       task, arg, seen, tries>>
    BY <1>2 DEF TakeTunLock, process, session, callers
  <2>2. /\ tunPc' \in {"enable", "disable", "apply"}
        /\ tunPc' = "enable" => task[t] \in Enabling
        /\ tunPc' = "apply" => task[t] = "apply"
    BY <1>2 DEF TakeTunLock
  <2>3. Controls'
    BY <2>1, <2>2 DEF Controls, Routine
  <2>4. Locks'
    BY <2>1, <2>2 DEF Locks, Tasks
  <2>5. QED
    BY <2>3, <2>4
<1>3. CASE ServiceCrashes \/ ServiceStops
  <2>1. 0 \in 0 .. MaxCandidates - 1
    BY TunAssumption
  <2>2. Forget
    BY <1>3 DEF ServiceCrashes, ServiceStops
  <2>3. Controls'
    BY <2>1, <2>2 DEF Forget, Controls, MaybeId, Routine
  <2>4. Locks'
    BY <2>2 DEF Forget, Locks
  <2>5. QED
    BY <2>3, <2>4
<1>4. CASE ServiceBoots
  <2>1. PICK m \in {"idle", "begin"} :
          /\ task' = [task EXCEPT !["monitor"] = m]
          /\ m = "begin" => coreBy' = "monitor"
          /\ coreBy' \in {coreBy, "monitor"}
    BY <1>4 DEF ServiceBoots, Controls, Locks, Tasks
  <2>2. /\ ~up /\ up' = TRUE /\ desired' \in BOOLEAN /\ serving' \in BOOLEAN
        /\ UNCHANGED <<core, foreign, pending, tunBy, tunPc, verdict, slipped, arg, seen, tries>>
    BY <1>4 DEF ServiceBoots, routine, Controls
  <2>3. Controls'
    BY <2>1, <2>2 DEF Controls, Tasks
  <2>4. Locks'
    BY <2>1, <2>2 DEF Controls, Locks, Tasks
  <2>5. QED
    BY <2>3, <2>4
<1>5. QED
  BY <1>1, <1>2, <1>3, <1>4

LEMMA ControlsStep == Controls /\ Data /\ Locks /\ [Next]_vars => Controls' /\ Locks'
<1> SUFFICES ASSUME Controls, Data, Locks, [Next]_vars PROVE Controls' /\ Locks'
  OBVIOUS
<1>1. CASE UNCHANGED vars
  BY <1>1 DEF vars, process, session, routine, callers, Controls, Locks
<1>2. CASE Next
  <2>1. "monitor" \in Tasks /\ "client" \in Tasks
    BY DEF Tasks
  <2>2. QED
    BY <1>2, <2>1, RoutineControls, TaskControls, MonitorControls, CommandControls, MachineControls
       DEF Next, MonitorSteps, ClientSteps
<1>3. QED
  BY <1>1, <1>2

-----------------------------------------------------------------------------
(* The configurations, the session and what they say.                        *)

\* The actions that leave all of them alone.
Elsewhere ==
    \/ ForeignChanges \/ CoreHeals \/ StartCommand \/ StopCommand \/ Shutdown \/ MonitorBegins
    \/ MonitorJudges \/ \E t \in Tasks : TakeTunLock(t) \/ RestoreBegins(t)
    \/ \E p \in Profiles : TunCommand("on", p) \/ TunCommand("apply", p)
    \/ TunCommand("off", NoProfile)

\* The actions by which a core goes.
Losses ==
    \/ CoreFails \/ ClientKills \/ MonitorFails
    \/ \E t \in Tasks : CoreStarts(t) \/ CandidateJudged(t)

\* The actions that prepare a start and spawn its candidates.
Launches == \E t \in Tasks : CorePrepares(t) \/ CandidateSpawns(t)

LEMMA Disjuncts ==
  Next => \/ Elsewhere \/ Losses \/ Launches \/ RoutineSteps
          \/ ServiceCrashes \/ ServiceStops \/ ServiceBoots
BY DEF Next, Elsewhere, Losses, Launches, MonitorSteps, ClientSteps, TaskSteps, Tasks

LEMMA ElsewhereKeeps == Elsewhere => UNCHANGED <<live, override, stable, base, file, tun>>
<1>1. CASE ForeignChanges \/ CoreHeals
  BY <1>1 DEF ForeignChanges, CoreHeals, configs, session
<1>2. CASE StartCommand \/ StopCommand \/ Shutdown \/ MonitorBegins \/ MonitorJudges
  BY <1>2 DEF StartCommand, StopCommand, Shutdown, MonitorBegins, MonitorJudges,
              process, configs, session
<1>3. CASE \E t \in Tasks : TakeTunLock(t) \/ RestoreBegins(t)
  BY <1>3 DEF TakeTunLock, RestoreBegins, process, configs, session
<1>4. CASE \/ \E p \in Profiles : TunCommand("on", p) \/ TunCommand("apply", p)
           \/ TunCommand("off", NoProfile)
  BY <1>4 DEF TunCommand, process, configs, session
<1>5. QED
  BY <1>1, <1>2, <1>3, <1>4 DEF Elsewhere

LEMMA LossesKeep ==
  Losses => /\ UNCHANGED <<up, override, stable, base, file, tun, tunBy, tunPc>>
            /\ \/ live' = live /\ core' = core
               \/ live' = FALSE /\ core' = "none"
               \/ live' = live /\ core = "ready" /\ core' = "broken" /\ slipped'
            /\ slipped => slipped'
<1>1. CASE CoreFails
  BY <1>1 DEF CoreFails, configs, session
<1>2. CASE ClientKills \/ MonitorFails
  BY <1>2 DEF ClientKills, MonitorFails, configs, session, routine
<1>3. CASE \E t \in Tasks : CoreStarts(t) \/ CandidateJudged(t)
  BY <1>3 DEF CoreStarts, CandidateJudged, configs, session, routine
<1>4. QED
  BY <1>1, <1>2, <1>3 DEF Losses

\* A candidate loads the stable file, which is regenerated only while there is
\* no session.
LEMMA LaunchesKeep ==
  ASSUME Data, Places, Spawning, Launches
  PROVE  /\ UNCHANGED <<override, base, file, tun, tunBy, tunPc>>
         /\ stable' = stable \/ (~HasRecovery /\ ~stable')
         /\ \/ live' = live /\ core' = core
            \/ /\ core = "none" /\ core' = "broken" /\ live' = stable /\ stable' = stable
               /\ (live' => slipped') /\ \E t \in Tasks : task[t] = "spawn" /\ tries' = tries
         /\ slipped => slipped'
<1>1. PICK t \in Tasks : CorePrepares(t) \/ CandidateSpawns(t)
  BY DEF Launches
<1>2. CASE CorePrepares(t)
  <2>1. /\ UNCHANGED <<core, live, override, base, file, tun, tunBy, tunPc, slipped>>
        /\ stable' = IF base /\ ~HasRecovery THEN override ELSE stable
    BY <1>2 DEF CorePrepares, session, routine
  <2>2. ~HasRecovery
    BY <1>2 DEF CorePrepares, Spawning
  <2>3. ~override /\ ~stable
    BY <2>2 DEF Places, HasRecovery
  <2>4. ~stable'
    BY <2>1, <2>3
  <2>5. QED
    BY <2>1, <2>2, <2>4
<1>3. CASE CandidateSpawns(t)
  <2>1. core = "none"
    BY <1>3 DEF CandidateSpawns, Spawning
  <2>2. UNCHANGED <<override, stable, base, file, tun, tunBy, tunPc>>
    BY <1>3 DEF CandidateSpawns, configs, session
  <2>3. \/ live' = live /\ core' = core /\ slipped' = slipped
        \/ /\ core' = "broken" /\ live' = stable /\ slipped' = (slipped \/ stable)
           /\ task[t] = "spawn" /\ tries' = tries
    BY <1>3 DEF CandidateSpawns
  <2>4. CASE live' = live /\ core' = core /\ slipped' = slipped
    BY <2>2, <2>4
  <2>5. CASE /\ core' = "broken" /\ live' = stable /\ slipped' = (slipped \/ stable)
             /\ task[t] = "spawn" /\ tries' = tries
    <3>1. stable => slipped'
      BY <2>5
    <3>2. live' => slipped'
      BY <2>5, <3>1
    <3>3. slipped => slipped'
      BY <2>5
    <3>4. QED
      BY <2>1, <2>2, <2>5, <3>2, <3>3
  <2>6. QED
    BY <2>3, <2>4, <2>5
<1>4. QED
  BY <1>1, <1>2, <1>3

\* What loading a configuration can leave.
LEMMA Loading ==
  ASSUME Data, NEW want \in BOOLEAN, Applied(want) \/ NotApplied(want) \/ FileRestored
  PROVE  live' \in BOOLEAN /\ stable' \in BOOLEAN
BY DEF Data, Applied, NotApplied, FileRestored

LEMMA RoutineData == Controls /\ Locks /\ Data /\ RoutineSteps => Data'
<1> SUFFICES ASSUME Controls, Locks, Data, RoutineSteps PROVE Data'
  OBVIOUS
<1> USE DEF Data, FailAs, RollbackFails, KeepConfigs
<1>1. arg[tunBy] \in MaybeId /\ NoProfile \in MaybeId
  BY RoutineGoes DEF Controls, Locks, MaybeId
<1>2. /\ Off \in [status : Statuses, profile : MaybeId]
      /\ \A st \in Statuses : [tun EXCEPT !.status = st] \in [status : Statuses, profile : MaybeId]
      /\ \A st \in Statuses : [status |-> st, profile |-> arg[tunBy]]
                                 \in [status : Statuses, profile : MaybeId]
      /\ [tun EXCEPT !.profile = arg[tunBy]] \in [status : Statuses, profile : MaybeId]
  BY <1>1 DEF Off, Statuses
<1>3. {"starting", "running", "stopping", "error"} \subseteq Statuses
  BY DEF Statuses
<1>4. CASE EnableChecks
  BY <1>2, <1>3, <1>4 DEF EnableChecks
<1>5. CASE EnableRecords \/ EnableOverrides
  BY <1>2, <1>5 DEF EnableRecords, EnableOverrides
<1>6. CASE EnableLoads
  BY <1>6, Loading DEF EnableLoads
<1>7. CASE EnableConfirms \/ RollbackLowers
  BY <1>2, <1>3, <1>7 DEF EnableConfirms, RollbackLowers
<1>8. CASE RollbackUndoes
  <2>1. live' \in BOOLEAN /\ stable' \in BOOLEAN
    BY <1>8, Loading DEF RollbackUndoes
  <2>2. QED
    BY <1>1, <1>2, <1>3, <1>8, <2>1 DEF RollbackUndoes
<1>9. CASE DisableBegins \/ DisableLowers \/ DisableVerifies \/ DisableClears
  BY <1>1, <1>2, <1>3, <1>9 DEF DisableBegins, DisableLowers, DisableVerifies, DisableClears
<1>10. CASE DisablePlain \/ DisableUnloads
  <2>1. live' \in BOOLEAN /\ stable' \in BOOLEAN
    BY <1>10, Loading DEF DisablePlain, DisableUnloads
  <2>2. QED
    BY <1>2, <1>3, <1>10, <2>1 DEF DisablePlain, DisableUnloads
<1>11. CASE ApplyProfile
  BY <1>1, <1>2, <1>11 DEF ApplyProfile
<1>12. QED
  BY <1>4, <1>5, <1>6, <1>7, <1>8, <1>9, <1>10, <1>11 DEF RoutineSteps, EnableSteps, DisableSteps

LEMMA DataStep == Controls /\ Locks /\ Data /\ [Next]_vars => Data'
<1> SUFFICES ASSUME Controls, Locks, Data, [Next]_vars PROVE Data'
  OBVIOUS
<1> USE DEF Data
<1>1. CASE UNCHANGED vars
  BY <1>1 DEF vars, process, configs, session
<1>2. CASE Elsewhere
  BY <1>2, ElsewhereKeeps
<1>3. CASE Losses
  BY <1>3, LossesKeep
<1>4. CASE RoutineSteps
  BY <1>4, RoutineData
<1>5. CASE Launches
  <2>1. UNCHANGED <<override, base, file, tun>>
    BY <1>5 DEF Launches, CorePrepares, CandidateSpawns, configs, session
  <2>2. stable' \in {stable, override} /\ live' \in {live, stable}
    BY <1>5 DEF Launches, CorePrepares, CandidateSpawns, configs
  <2>3. QED
    BY <2>1, <2>2
<1>6. CASE ServiceCrashes \/ ServiceStops
  <2>1. Off \in [status : Statuses, profile : MaybeId]
    BY DEF Off, Statuses, MaybeId
  <2>2. live' = FALSE /\ tun' = Off /\ UNCHANGED <<override, stable, base, file>>
    BY <1>6 DEF ServiceCrashes, ServiceStops, Forget, configs
  <2>3. QED
    BY <2>1, <2>2
<1>7. CASE ServiceBoots
  <2>1. /\ [status |-> "error", profile |-> file] \in [status : Statuses, profile : MaybeId]
        /\ [Off EXCEPT !.status = "error"] \in [status : Statuses, profile : MaybeId]
        /\ NoProfile \in MaybeId
    BY DEF Off, Statuses, MaybeId
  <2>2. /\ live' = live /\ base' = base
        /\ override' \in {FALSE, override} /\ stable' \in {stable, (stable /\ ~base)}
        /\ file' \in {file, NoProfile}
        /\ tun' \in {tun, [status |-> "error", profile |-> file], [Off EXCEPT !.status = "error"]}
    BY <1>7 DEF ServiceBoots, configs
  <2>3. (stable /\ ~base) \in BOOLEAN
    OBVIOUS
  <2>4. QED
    BY <2>1, <2>2, <2>3
<1>8. QED
  BY <1>1, <1>2, <1>3, <1>4, <1>5, <1>6, <1>7, Disjuncts

-----------------------------------------------------------------------------
(* Places.                                                                   *)

\* What a load leaves while the files that enable TUN are recorded.
LEMMA LoadingPlaces ==
  ASSUME Controls, Data, Places, NEW want \in BOOLEAN,
         Applied(want) \/ NotApplied(want) \/ FileRestored, core' = core,
         UNCHANGED <<override, base>>
  PROVE  /\ live' => core # "none"
         /\ stable' => base
         /\ stable' => stable \/ override
BY DEF Data, Places, Applied, NotApplied, FileRestored

LEMMA RoutinePlaces == Controls /\ Locks /\ Data /\ Places /\ RoutineSteps => Places'
<1> SUFFICES ASSUME Controls, Locks, Data, Places, RoutineSteps PROVE Places'
  OBVIOUS
<1> USE DEF FailAs, RollbackFails, KeepConfigs, Continue
<1>1. /\ tunBy \in Tasks /\ core' = core
      /\ tunPc = "enable" => arg[tunBy] # NoProfile
  <2>1. core' = core
    BY RoutineGoes DEF Ends, Goes, Finish
  <2>2. QED
    BY <2>1, RoutineGoes DEF Controls, Locks
<1>2. Finish(TRUE) \/ Finish(FALSE) \/ Finish(verdict) => tunPc' = "-"
  BY DEF Finish
<1>3. CASE EnableChecks
  <2>1. UNCHANGED <<live, override, stable, base, file>>
    BY <1>3 DEF EnableChecks
  <2>2. tunPc' \in {"-", "disable"} \/ (tunPc' = "record" /\ base /\ tun'.profile = arg[tunBy])
    <3>1. \/ tunPc' = "-" \/ tunPc' = "disable"
          \/ /\ tunPc' = "record" /\ base
             /\ tun' = [status |-> "starting", profile |-> arg[tunBy]]
      BY <1>2, <1>3, Zenon DEF EnableChecks
    <3>2. QED
      BY <3>1
  <2>3. tunPc = "enable"
    BY <1>3 DEF EnableChecks
  <2>4. QED
    BY <1>1, <2>1, <2>2, <2>3 DEF Places, Data
<1>4. CASE EnableRecords \/ EnableOverrides
  <2>1. /\ UNCHANGED <<live, stable, base>> /\ tunPc \in {"record", "override"}
        /\ \/ tunPc' = "-" /\ UNCHANGED <<override, file>>
           \/ tunPc' = "override" /\ file' = tun.profile /\ UNCHANGED <<override, tun>>
           \/ tunPc = "override" /\ tunPc' \in {"load", "rollback"} /\ UNCHANGED <<file, tun>>
    BY <1>2, <1>4 DEF EnableRecords, EnableOverrides
  <2>2. QED
    BY <1>1, <2>1 DEF Places, Data
<1>5. CASE EnableLoads
  <2>1. /\ live' => core # "none"
        /\ stable' => base
    BY <1>1, <1>5, LoadingPlaces DEF EnableLoads
  <2>2. QED
    BY <1>1, <1>5, <2>1 DEF EnableLoads, Places
<1>6. CASE EnableConfirms \/ RollbackLowers
  <2>1. /\ UNCHANGED <<live, stable, base>> /\ tunPc \in {"confirm", "rollback"}
        /\ tunPc' \in {"-", "rollback", "undo"}
        /\ file' = file \/ (tunPc = "confirm" /\ file' = tun.profile)
        /\ (override' => override) /\ (tunPc' = "undo" => ~override')
    BY <1>2, <1>6 DEF EnableConfirms, RollbackLowers
  <2>2. QED
    BY <1>1, <2>1 DEF Places, Data
<1>7. CASE RollbackUndoes
  <2>1. /\ live' => core # "none"
        /\ stable' => base
        /\ stable' => stable \/ override
    BY <1>1, <1>7, LoadingPlaces DEF RollbackUndoes, NotApplied
  <2>2. ~override /\ file # NoProfile /\ UNCHANGED <<override, base>> /\ tunPc' = "-"
    BY <1>2, <1>7 DEF RollbackUndoes, Places
  <2>3. file' # NoProfile \/ ~stable'
    BY <1>7, <2>2 DEF RollbackUndoes, Applied, FileRestored, Places
  <2>4. QED
    BY <1>1, <2>1, <2>2, <2>3 DEF Places
<1>8. CASE DisableBegins \/ DisableLowers \/ DisableVerifies \/ DisableClears
  <2>1. /\ UNCHANGED <<live, stable, base>> /\ override' \in {FALSE, override}
        /\ tunPc \in {"disable", "lower", "verify", "clear"}
    <3>1. CASE DisableBegins
      BY <3>1 DEF DisableBegins
    <3>2. CASE DisableLowers
      BY <3>2 DEF DisableLowers
    <3>3. CASE DisableVerifies \/ DisableClears
      BY <3>3 DEF DisableVerifies, DisableClears
    <3>4. QED
      BY <1>8, <3>1, <3>2, <3>3
  <2>2. \/ tunPc' = "-" /\ file' = file
        \/ tunPc' = "plain" /\ ~override' /\ file = NoProfile /\ file' = file
        \/ tunPc' \in {"lower", "unload"} /\ (tunPc' = "unload" => ~override') /\ file' = file
        \/ tunPc = "verify" /\ tunPc' = "clear" /\ ~live /\ file' = file /\ override' = override
        \/ tunPc = "clear" /\ tunPc' = "-" /\ override' = override
    BY <1>2, <1>8 DEF DisableBegins, DisableLowers, DisableVerifies, DisableClears, HasRecovery
  <2>3. tunPc' \notin {"record", "override", "load", "confirm", "rollback", "undo"}
    BY <2>2
  <2>4. override' => override
    BY <2>1 DEF Data
  <2>5. override' \/ stable' => base' /\ file' # NoProfile
    BY <2>1, <2>2, <2>4 DEF Places, Data
  <2>6. QED
    BY <1>1, <2>1, <2>2, <2>3, <2>4, <2>5 DEF Places, Data
<1>9. CASE DisablePlain
  <2>1. /\ live' => core # "none"
        /\ stable' => base
        /\ stable' => stable \/ override
    BY <1>1, <1>9, LoadingPlaces DEF DisablePlain, NotApplied
  <2>2. QED
    BY <1>1, <1>2, <1>9, <2>1 DEF DisablePlain, Places
<1>10. CASE DisableUnloads
  <2>1. /\ live' => core # "none"
        /\ stable' => base
        /\ stable' => stable \/ override
    BY <1>1, <1>10, LoadingPlaces DEF DisableUnloads, NotApplied
  <2>2. tunPc' \in {"verify", "clear"} => ~stable'
    BY <1>2, <1>10 DEF DisableUnloads, Applied, FileRestored, Places
  <2>3. tunPc' = "clear" => ~live'
    BY <1>2, <1>10 DEF DisableUnloads, FileRestored, Places
  <2>4. tunPc' \in {"verify", "clear", "-"} /\ UNCHANGED <<override, base, file>>
    BY <1>2, <1>10 DEF DisableUnloads
  <2>5. QED
    BY <1>1, <1>10, <2>1, <2>2, <2>3, <2>4 DEF DisableUnloads, Places
<1>11. CASE ApplyProfile
  <2>1. tunPc' = "-" /\ override' = override
    BY <1>2, <1>11 DEF ApplyProfile
  <2>2. arg[tunBy] # NoProfile
    BY <1>11 DEF ApplyProfile, Locks, Enabling, Controls
  <2>3. /\ file' \in {file, arg[tunBy]} /\ (live' = live \/ core = "ready")
        /\ base' \in {base, TRUE} /\ stable' \in {stable, override}
    BY <1>11 DEF ApplyProfile
  <2>4. override' \/ stable' => base' /\ file' # NoProfile
    <3>1. CASE override \/ stable
      <4>1. base /\ file # NoProfile
        BY <3>1 DEF Places
      <4>2. base'
        BY <2>3, <4>1 DEF Data
      <4>3. QED
        BY <2>2, <2>3, <4>1, <4>2
    <3>2. CASE ~override /\ ~stable
      BY <2>1, <2>3, <3>2 DEF Data
    <3>3. QED
      BY <3>1, <3>2
  <2>5. live' => core' # "none"
    BY <1>1, <2>3 DEF Places, Data
  <2>6. QED
    BY <2>1, <2>4, <2>5 DEF Places
<1>12. QED
  BY <1>3, <1>4, <1>5, <1>6, <1>7, <1>8, <1>9, <1>10, <1>11 DEF RoutineSteps, EnableSteps, DisableSteps

LEMMA PlacesStep == Controls /\ Locks /\ Data /\ Places /\ Spawning /\ [Next]_vars => Places'
<1> SUFFICES ASSUME Controls, Locks, Data, Places, Spawning, [Next]_vars PROVE Places'
  OBVIOUS
<1>1. CASE UNCHANGED vars
  BY <1>1 DEF vars, process, configs, session, routine, Places
<1>2. CASE Elsewhere
  <2>1. core' = core \/ core' = "ready"
    BY <1>2 DEF Elsewhere, ForeignChanges, CoreHeals, StartCommand, StopCommand, Shutdown,
       MonitorBegins, MonitorJudges, TakeTunLock, RestoreBegins, TunCommand, process
  <2>2. tunPc' = tunPc \/ tunPc' \in {"enable", "disable", "apply"}
    BY <1>2 DEF Elsewhere, ForeignChanges, CoreHeals, StartCommand, StopCommand, Shutdown,
       MonitorBegins, MonitorJudges, TakeTunLock, RestoreBegins, TunCommand, routine
  <2>3. QED
    BY <1>2, <2>1, <2>2, ElsewhereKeeps DEF Places
<1>3. CASE Losses
  BY <1>3, LossesKeep DEF Places
<1>4. CASE RoutineSteps
  BY <1>4, RoutinePlaces
<1>5. CASE Launches
  <2>1. /\ UNCHANGED <<override, base, file, tun, tunPc>>
        /\ stable' => stable
    BY <1>5, LaunchesKeep
  <2>2. \/ live' = live /\ core' = core
        \/ core' = "broken" /\ live' = stable
    BY <1>5, LaunchesKeep
  <2>3. QED
    BY <2>1, <2>2 DEF Places
<1>6. CASE ServiceCrashes \/ ServiceStops
  BY <1>6 DEF ServiceCrashes, ServiceStops, Forget, configs, Places
<1>7. CASE ServiceBoots
  <2>1. tunPc' = "-" /\ UNCHANGED <<live, core, base>>
    BY <1>7 DEF ServiceBoots, routine, Locks, configs
  <2>2. override' => override /\ file' # NoProfile
    BY <1>7 DEF ServiceBoots, configs, Places
  <2>3. stable' => stable /\ file' # NoProfile
    BY <1>7 DEF ServiceBoots, configs, Places
  <2>4. QED
    BY <2>1, <2>2, <2>3 DEF Places
<1>8. QED
  BY <1>1, <1>2, <1>3, <1>4, <1>5, <1>6, <1>7, Disjuncts

-----------------------------------------------------------------------------
(* Spawning.                                                                 *)

\* No routine brings a session about while no core runs.
LEMMA RecoveryNeedsCore ==
  Data /\ Places /\ RoutineSteps /\ core = "none" /\ ~HasRecovery => ~HasRecovery'
<1> SUFFICES ASSUME Data, Places, RoutineSteps, core = "none", ~HasRecovery PROVE ~HasRecovery'
  OBVIOUS
<1>0. /\ file = NoProfile /\ tun.profile = NoProfile
      /\ tunPc \notin {"record", "override", "load", "confirm", "rollback", "undo"}
  BY DEF Places, HasRecovery
<1>1. file' = file \/ file' = NoProfile
  <2>1. CASE EnableSteps
    BY <1>0, <2>1 DEF EnableSteps, EnableChecks, EnableRecords, EnableOverrides, EnableLoads,
       EnableConfirms, RollbackLowers, RollbackUndoes
  <2>2. CASE DisableSteps
    BY <2>2 DEF DisableSteps, DisableBegins, DisablePlain, DisableLowers, DisableUnloads,
       DisableVerifies, DisableClears
  <2>3. CASE ApplyProfile
    BY <2>3 DEF ApplyProfile
  <2>4. QED
    BY <2>1, <2>2, <2>3 DEF RoutineSteps
<1>2. tun'.profile = NoProfile
  <2>1. tun' = tun \/ tun' = Off \/ \E status \in Statuses : tun' = [tun EXCEPT !.status = status]
    <3>1. CASE EnableSteps
      BY <1>0, <3>1 DEF EnableSteps, EnableChecks, EnableRecords, EnableOverrides, EnableLoads,
         EnableConfirms, RollbackLowers, RollbackUndoes
    <3>2. CASE DisableSteps
      BY <3>2 DEF DisableSteps, DisableBegins, DisablePlain, DisableLowers, DisableUnloads,
         DisableVerifies, DisableClears, FailAs, Statuses
    <3>3. CASE ApplyProfile
      BY <3>3 DEF ApplyProfile
    <3>4. QED
      BY <3>1, <3>2, <3>3 DEF RoutineSteps
  <2>2. QED
    BY <1>0, <2>1 DEF Off, Data
<1>3. QED
  BY <1>0, <1>1, <1>2 DEF HasRecovery

\* A clean-up before a start ends well only where the session is gone.
LEMMA CleanedUp ==
  ASSUME Controls, Locks, Places, RoutineSteps, tunBy # "none", task[tunBy] = "startClean",
         task'[tunBy] = "prepare"
  PROVE  ~HasRecovery'
<1>0. task[tunBy] \notin Enabling /\ task[tunBy] # "apply" /\ tunBy \in Tasks
  BY DEF Enabling, Controls
<1>1. tunPc \notin EnablePoints /\ tunPc # "apply"
  BY <1>0 DEF Locks, EnablePoints
<1>2. DisableSteps
  BY <1>1 DEF RoutineSteps, EnableSteps, EnableChecks, EnableRecords, EnableOverrides, EnableLoads,
     EnableConfirms, RollbackLowers, RollbackUndoes, ApplyProfile, EnablePoints
<1>3. \A point : ~Continue(point)
  BY <1>0 DEF Continue, callers
<1>4. ~Finish(FALSE)
  <2>1. ASSUME Finish(FALSE) PROVE task'[tunBy] = Resume(task[tunBy], FALSE)
    BY <1>0, <2>1 DEF Finish, MoveTo, Controls
  <2>2. Resume(task[tunBy], FALSE) # "prepare"
    BY <1>0, Resuming DEF Controls
  <2>3. QED
    BY <2>1, <2>2
<1>5. CASE DisablePlain
  <2>1. tun' = Off /\ file' = NoProfile
    BY <1>3, <1>4, <1>5 DEF DisablePlain, Places
  <2>2. QED
    BY <2>1 DEF HasRecovery, Off
<1>6. CASE DisableClears
  <2>1. tun' = Off /\ file' = NoProfile
    BY <1>3, <1>4, <1>6 DEF DisableClears, FailAs
  <2>2. QED
    BY <2>1 DEF HasRecovery, Off
<1>7. CASE DisableBegins \/ DisableLowers \/ DisableUnloads \/ DisableVerifies
  BY <1>3, <1>4, <1>7 DEF DisableBegins, DisableLowers, DisableUnloads, DisableVerifies, FailAs
<1>8. QED
  BY <1>2, <1>5, <1>6, <1>7 DEF DisableSteps

\* A loaded configuration only changes in a core that is ready.
LEMMA RoutineLive ==
  RoutineSteps => /\ core' = core
                  /\ live' = live \/ core = "ready"
                  /\ slipped => slipped'
<1> SUFFICES ASSUME RoutineSteps
             PROVE  core' = core /\ (live' = live \/ core = "ready") /\ (slipped => slipped')
  OBVIOUS
<1> USE DEF KeepConfigs, Applied, NotApplied, FileRestored
<1>1. core' = core /\ (slipped => slipped')
  <2>1. CASE Ends
    <3>1. PICK ok \in {TRUE, FALSE, verdict} : Finish(ok)
      BY <2>1 DEF Ends
    <3>2. core' = core
      BY <3>1 DEF Finish
    <3>3. slipped' = (slipped \/ Slips)
      BY <3>1 DEF Finish
    <3>4. QED
      BY <3>2, <3>3
  <2>2. CASE ~Ends
    <3>1. core' = core /\ slipped' = slipped
      BY <2>2, RoutineGoes DEF Goes, Continue
    <3>2. QED
      BY <3>1
  <2>3. QED
    BY <2>1, <2>2
<1>2. CASE EnableSteps
  BY <1>1, <1>2 DEF EnableSteps, EnableChecks, EnableRecords, EnableOverrides, EnableLoads,
     EnableConfirms, RollbackLowers, RollbackUndoes
<1>3. CASE DisableSteps
  BY <1>1, <1>3 DEF DisableSteps, DisableBegins, DisablePlain, DisableLowers, DisableUnloads,
     DisableVerifies, DisableClears
<1>4. CASE ApplyProfile
  BY <1>1, <1>4 DEF ApplyProfile
<1>5. QED
  BY <1>2, <1>3, <1>4 DEF RoutineSteps

\* Where a routine leaves the tasks.
LEMMA RoutineTasks ==
  ASSUME Controls, Locks, RoutineSteps, NEW t \in Tasks
  PROVE  /\ tries' = tries
         /\ \/ task'[t] = task[t]
            \/ t = tunBy /\ task'[t] \notin {"startClean", "prepare", "spawn"}
            \/ t = tunBy /\ task[t] = "startClean" /\ task'[t] = "prepare"
<1>1. tunBy \in Tasks
  BY RoutineGoes DEF Controls, Locks
<1>2. CASE Ends
  <2>1. PICK ok \in {TRUE, FALSE, verdict} : Finish(ok)
    BY <1>2 DEF Ends
  <2>2. task' = [task EXCEPT ![tunBy] = Resume(task[tunBy], ok)] /\ tries' = tries
    BY <2>1 DEF Finish, MoveTo
  <2>3. /\ Resume(task[tunBy], ok) \in {"prepare", "start", "kill", "down", "idle"}
        /\ Resume(task[tunBy], ok) = "prepare" => task[tunBy] = "startClean"
    BY <1>1 DEF Controls, Resume
  <2>4. QED
    BY <1>1, <2>2, <2>3 DEF Controls
<1>3. CASE ~Ends
  <2>1. task' = task /\ tries' = tries
    BY <1>3, RoutineGoes DEF Goes, Continue, callers
  <2>2. QED
    BY <2>1
<1>4. QED
  BY <1>2, <1>3

LEMMA ElsewhereTasks ==
  ASSUME Controls, Locks, Elsewhere, NEW t \in Tasks, task'[t] \in {"startClean", "prepare", "spawn"}
  PROVE  task'[t] = task[t] /\ (core = "none" => core' = "none") /\ tries' = tries
<1>1. CASE ForeignChanges \/ CoreHeals
  BY <1>1 DEF ForeignChanges, CoreHeals, callers
<1>2. CASE StartCommand \/ StopCommand \/ Shutdown \/ MonitorBegins
  BY <1>2 DEF StartCommand, StopCommand, Shutdown, MonitorBegins, Controls, process
<1>3. CASE MonitorJudges
  BY <1>3 DEF MonitorJudges, MoveTo, Controls
<1>4. CASE \E u \in Tasks : TakeTunLock(u) \/ RestoreBegins(u)
  BY <1>4 DEF TakeTunLock, RestoreBegins, MoveTo, Controls, process, callers
<1>5. CASE \/ \E p \in Profiles : TunCommand("on", p) \/ TunCommand("apply", p)
           \/ TunCommand("off", NoProfile)
  BY <1>5 DEF TunCommand, Controls, process
<1>6. QED
  BY <1>1, <1>2, <1>3, <1>4, <1>5 DEF Elsewhere

LEMMA LossesTasks ==
  ASSUME Controls, Losses, NEW t \in Tasks, task'[t] \in {"startClean", "prepare", "spawn"}
  PROVE  \/ task'[t] = task[t] /\ (tries' = tries \/ \E u \in Tasks : task[u] = "wait")
         \/ core' = "none" /\ ((task'[t] = "prepare" \/ (task'[t] = "spawn" /\ tries' = 0)) => ~HasRecovery)
<1>1. CASE CoreFails
  BY <1>1 DEF CoreFails, callers
<1>2. CASE ClientKills \/ MonitorFails
  BY <1>2 DEF ClientKills, MonitorFails, MoveTo, Controls
<1>3. CASE \E u \in Tasks : CoreStarts(u)
  BY <1>3 DEF CoreStarts, MoveTo, Controls
<1>4. ASSUME NEW u \in Tasks, CandidateJudged(u)
      PROVE  \/ task'[t] = task[t] /\ \E w \in Tasks : task[w] = "wait"
             \/ core' = "none" /\ task'[t] = "spawn" /\ tries' # 0
  <2>1. /\ task[u] = "wait" /\ task' = [task EXCEPT ![u] = task'[u]]
        /\ \/ task'[u] \in {"restoring", "idle"}
           \/ core' = "none" /\ task'[u] = "spawn" /\ tries' = tries + 1
    BY <1>4 DEF CandidateJudged, MoveTo, Controls
  <2>2. task'[t] = task[t] \/ t = u
    BY <2>1 DEF Controls
  <2>3. tries \in Nat
    BY DEF Controls
  <2>4. QED
    BY <2>1, <2>2, <2>3
<1>5. QED
  BY <1>1, <1>2, <1>3, <1>4 DEF Losses

\* Who starts a core is alone at it.
LEMMA StartsAlone ==
  ASSUME Locks, NEW t \in Tasks, NEW u \in Tasks, task[t] \in Supervising, task[u] \in Supervising
  PROVE  t = u
BY DEF Locks

LEMMA SpawningStep ==
  Controls /\ Locks /\ Data /\ Places /\ Spawning /\ [Next]_vars => Spawning'
<1> SUFFICES ASSUME Controls, Locks, Data, Places, Spawning, [Next]_vars PROVE Spawning'
  OBVIOUS
<1> DEFINE Plain(t) == task[t] = "prepare" \/ (task[t] = "spawn" /\ tries = 0)
<1>1. CASE UNCHANGED vars
  BY <1>1 DEF vars, process, configs, session, routine, callers, Spawning, HasRecovery
<1>2. CASE Elsewhere
  <2>1. UNCHANGED <<file, tun, live>>
    BY <1>2, ElsewhereKeeps
  <2>2. slipped' = slipped /\ (core' = core \/ core' = "ready")
    BY <1>2 DEF Elsewhere, ForeignChanges, CoreHeals, StartCommand, StopCommand, Shutdown,
       MonitorBegins, MonitorJudges, TakeTunLock, RestoreBegins, TunCommand, process, routine
  <2>3. QED
    BY <1>2, <2>1, <2>2, ElsewhereTasks DEF Spawning, HasRecovery
<1>3. CASE Losses
  <2>1. /\ UNCHANGED <<file, tun>>
        /\ core = "none" => core' = "none"
        /\ live' /\ core' # "ready" => slipped'
    BY <1>3, LossesKeep DEF Spawning
  <2>2. ASSUME NEW t \in Tasks, task'[t] \in {"startClean", "prepare", "spawn"}
        PROVE  core' = "none" /\ (Plain(t)' => ~HasRecovery)
    <3>1. CASE task'[t] = task[t]
      <4>1. core = "none"
        BY <2>2, <3>1 DEF Spawning
      <4>2. CASE tries' = tries
        BY <2>1, <2>2, <3>1, <4>1, <4>2 DEF Spawning
      <4>3. ASSUME NEW u \in Tasks, task[u] = "wait" PROVE task[t] = "startClean"
        BY <2>2, <3>1, <4>3, StartsAlone DEF Supervising
      <4>4. CASE task[t] = "startClean"
        BY <2>1, <3>1, <4>1, <4>4
      <4>5. QED
        BY <1>3, <2>1, <2>2, <3>1, <4>1, <4>2, <4>3, <4>4, LossesTasks
    <3>2. CASE task'[t] # task[t]
      BY <1>3, <2>2, <3>2, LossesTasks
    <3>3. QED
      BY <3>1, <3>2
  <2>3. HasRecovery' = HasRecovery
    BY <2>1 DEF HasRecovery
  <2>4. QED
    BY <2>1, <2>2, <2>3 DEF Spawning
<1>4. CASE RoutineSteps
  <2>1. core' = core /\ (live' = live \/ core = "ready") /\ (slipped => slipped')
    BY <1>4, RoutineLive
  <2>2. \A t \in Tasks : task'[t] \in {"startClean", "prepare", "spawn"} => core' = "none"
    BY <1>4, <2>1, RoutineTasks DEF Spawning
  <2>3. ASSUME NEW t \in Tasks, Plain(t)' PROVE ~HasRecovery'
    <3>1. CASE Plain(t)
      BY <1>4, <3>1, RecoveryNeedsCore DEF Spawning
    <3>2. CASE t = tunBy /\ task[t] = "startClean" /\ task'[t] = "prepare"
      BY <1>4, <3>2, CleanedUp DEF Tasks
    <3>3. QED
      BY <1>4, <2>3, <3>1, <3>2, RoutineTasks
  <2>4. live' /\ core' # "ready" => slipped'
    BY <2>1 DEF Spawning
  <2>5. QED
    BY <2>2, <2>3, <2>4 DEF Spawning
<1>5. CASE Launches
  <2>1. PICK t \in Tasks : CorePrepares(t) \/ CandidateSpawns(t)
    BY <1>5 DEF Launches
  <2>2. /\ task[t] \in {"prepare", "spawn"}
        /\ \A u \in Tasks : u # t => task'[u] = task[u]
        /\ \/ task[t] = "prepare" /\ task'[t] \in {"spawn", "idle"} /\ core' = core
           \/ task'[t] \in {"wait", "idle"}
    BY <2>1 DEF CorePrepares, CandidateSpawns, MoveTo, Controls
  <2>3. \A u \in Tasks : u # t => task'[u] \notin {"startClean", "prepare", "spawn"}
    BY <2>2, StartsAlone DEF Supervising
  <2>4. HasRecovery' = HasRecovery
    BY <1>5, LaunchesKeep DEF HasRecovery
  <2>5. live' /\ core' # "ready" => slipped'
    BY <1>5, LaunchesKeep DEF Spawning
  <2>6. QED
    BY <2>2, <2>3, <2>4, <2>5 DEF Spawning
<1>6. CASE ServiceCrashes \/ ServiceStops
  BY <1>6 DEF ServiceCrashes, ServiceStops, Forget, Spawning
<1>7. CASE ServiceBoots
  <2>1. \A t \in Tasks : task'[t] \in {"idle", "begin"}
    BY <1>7 DEF ServiceBoots, Locks, Controls
  <2>2. UNCHANGED <<core, live, slipped>>
    BY <1>7 DEF ServiceBoots, routine
  <2>3. QED
    BY <2>1, <2>2 DEF Spawning
<1>8. QED
  BY <1>1, <1>2, <1>3, <1>4, <1>5, <1>6, <1>7, Disjuncts

-----------------------------------------------------------------------------
(* What the status means.                                                    *)

\* The ways in which a routine leaves the status.
LEMMA Verdicts ==
  ASSUME Finish(TRUE) \/ Finish(FALSE) \/ Finish(verdict)
  PROVE  tunPc' = "-" /\ (Slips => slipped')
<1>1. tunPc' = "-" /\ slipped' = (slipped \/ Slips)
  BY DEF Finish
<1>2. QED
  BY <1>1

LEMMA EnableMeaning ==
  ASSUME Controls, Locks, Data, Places, Meaning, EnableSteps
  PROVE  Meaning'
<1> USE DEF KeepConfigs, Continue, RollbackFails
<1>1. core' = core /\ (slipped => slipped')
  BY RoutineLive DEF RoutineSteps
<1>2. CASE EnableChecks
  <2>1. UNCHANGED <<live, override, stable>> /\ tunPc = "enable"
    BY <1>2 DEF EnableChecks
  <2>2. tunPc' = "record" \/ (tunPc' \in {"-", "disable"} /\ tun' = tun)
    BY <1>2, Verdicts DEF EnableChecks
  <2>3. QED
    BY <1>1, <2>1, <2>2 DEF Meaning
<1>3. CASE EnableRecords
  <2>1. tunPc' = "override" \/ (tunPc' = "-" /\ tun' = Off)
    BY <1>3, Verdicts DEF EnableRecords
  <2>2. QED
    BY <2>1 DEF Meaning, Off
<1>4. CASE EnableOverrides
  BY <1>4 DEF EnableOverrides, Meaning
<1>5. CASE EnableLoads
  <2>1. \/ tunPc' = "rollback"
        \/ tunPc' = "confirm" /\ override = TRUE /\ stable' = TRUE /\ override' = override
    BY <1>5 DEF EnableLoads, Applied
  <2>2. QED
    BY <2>1 DEF Meaning
<1>6. CASE EnableConfirms
  <2>1. tunPc = "confirm" /\ UNCHANGED <<live, override, stable>>
    BY <1>6 DEF EnableConfirms
  <2>2. \/ tunPc' = "rollback"
        \/ /\ tunPc' = "-" /\ tun' = [tun EXCEPT !.status = "running"]
           /\ core # "none" => live
    BY <1>6, Verdicts DEF EnableConfirms
  <2>3. CASE /\ tunPc' = "-" /\ tun' = [tun EXCEPT !.status = "running"]
             /\ core # "none" => live
    <3>1. tun'.status = "running" /\ tun'.profile = tun.profile
      BY <2>3 DEF Data
    <3>2. QED
      BY <1>1, <2>1, <2>3, <3>1 DEF Meaning, Places
  <2>4. QED
    BY <2>2, <2>3 DEF Meaning
<1>7. CASE RollbackLowers \/ RollbackUndoes
  <2>1. \/ tunPc' = "undo"
        \/ tunPc' = "-" /\ (tun' = Off \/ tun' = [status |-> "error", profile |-> arg[tunBy]])
    BY <1>7, Verdicts DEF RollbackLowers, RollbackUndoes
  <2>2. tun' = Off \/ tun' = [status |-> "error", profile |-> arg[tunBy]]
          => tun'.status \in {"error", "disabled"}
    BY DEF Off
  <2>3. QED
    BY <2>1, <2>2 DEF Meaning
<1>8. QED
  BY <1>2, <1>3, <1>4, <1>5, <1>6, <1>7 DEF EnableSteps

LEMMA DisableMeaning ==
  ASSUME Controls, Locks, Data, Places, Meaning, DisableSteps
  PROVE  Meaning'
<1> USE DEF KeepConfigs, Continue, FailAs
<1>1. core' = core /\ (live' = live \/ core = "ready") /\ (slipped => slipped')
  BY RoutineLive DEF RoutineSteps
<1>2. \A status \in Statuses : [tun EXCEPT !.status = status].status = status
  BY DEF Data
<1>3. CASE DisableBegins
  <2>1. live' = live /\ stable' = stable /\ tunPc = "disable"
    BY <1>3 DEF DisableBegins
  <2>2. \/ tunPc' = "-" /\ tun' = tun /\ override' = override
        \/ tunPc' = "plain" /\ tun' = tun /\ ~HasRecovery
        \/ tunPc' = "lower" /\ tun'.status = "stopping"
    BY <1>2, <1>3, Verdicts DEF DisableBegins, Statuses
  <2>3. QED
    BY <1>1, <2>1, <2>2 DEF Meaning, HasRecovery
<1>4. CASE DisablePlain
  <2>1. tunPc = "plain" /\ tunPc' = "-" /\ (tun' = Off \/ tun' = tun)
    BY <1>4, Verdicts DEF DisablePlain
  <2>2. tun.status # "running"
    BY <2>1 DEF Meaning, Places
  <2>3. QED
    BY <1>1, <2>1, <2>2 DEF Meaning, Off
<1>5. CASE DisableLowers
  <2>1. /\ tunPc = "lower"
        /\ \/ tunPc' = "unload" /\ tun' = tun
           \/ tunPc' = "-" /\ tun'.status = "error"
    BY <1>2, <1>5, Verdicts DEF DisableLowers, Statuses
  <2>2. QED
    BY <2>1 DEF Meaning
<1>6. CASE DisableUnloads \/ DisableVerifies
  <2>1. tunPc \in {"unload", "verify"}
    BY <1>6 DEF DisableUnloads, DisableVerifies
  <2>2. \/ tunPc' \in {"verify", "clear"} /\ tun' = tun
        \/ tunPc' = "-" /\ tun'.status = "error"
        \/ tunPc' = "-" /\ tun' = tun /\ slipped'
    BY <1>2, <1>6, <2>1, Verdicts DEF DisableUnloads, DisableVerifies, Statuses, Slips
  <2>3. tun.status = "stopping"
    BY <2>1 DEF Meaning
  <2>4. QED
    BY <2>2, <2>3 DEF Meaning
<1>7. CASE DisableClears
  <2>1. tunPc' = "-" /\ (tun' = Off \/ tun' = [tun EXCEPT !.status = "error"])
    BY <1>7, Verdicts DEF DisableClears
  <2>2. ASSUME tun' = Off PROVE tun'.status = "disabled"
    BY <2>2 DEF Off
  <2>3. tun'.status \in {"error", "disabled"}
    BY <1>2, <2>1, <2>2 DEF Statuses
  <2>4. QED
    BY <2>1, <2>3 DEF Meaning
<1>8. QED
  BY <1>3, <1>4, <1>5, <1>6, <1>7 DEF DisableSteps

LEMMA ApplyMeaning ==
  ASSUME Controls, Locks, Data, Places, Meaning, ApplyProfile
  PROVE  Meaning'
<1>1. core' = core /\ (slipped => slipped')
  BY RoutineLive DEF RoutineSteps
<1>2. tunPc = "apply" /\ tunPc' = "-" /\ override' = override
  BY Verdicts DEF ApplyProfile
<1>3. live' = live \/ (core = "ready" /\ live' \in {live, override})
  BY DEF ApplyProfile
<1>4. tun' = tun \/ tun' = [tun EXCEPT !.profile = arg[tunBy]]
  BY DEF ApplyProfile
<1>5. arg[tunBy] # NoProfile
  BY <1>2 DEF Locks, Enabling, Controls
<1>6. tun'.status = tun.status /\ tun'.profile \in {tun.profile, arg[tunBy]}
  BY <1>4 DEF Data
<1>7. tun.status = "running" => override /\ stable' /\ (core # "none" => live')
  <2>0. stable' = stable \/ stable' = override
    BY DEF ApplyProfile
  <2>1. tun.status = "running" => override /\ stable /\ (core # "none" => live)
    BY <1>2 DEF Meaning
  <2>2. tun.status = "running" => override /\ stable'
    <3>1. CASE stable' = stable
      BY <2>1, <3>1
    <3>2. CASE stable' = override
      BY <2>1, <3>2
    <3>3. QED
      BY <2>0, <3>1, <3>2
  <2>3. CASE live' = live
    BY <2>1, <2>2, <2>3
  <2>4. CASE live' = override
    BY <2>1, <2>2, <2>4
  <2>5. QED
    BY <1>3, <2>3, <2>4
<1>8. QED
  BY <1>1, <1>2, <1>5, <1>6, <1>7 DEF Meaning

LEMMA MeaningStep ==
  Controls /\ Locks /\ Data /\ Places /\ Spawning /\ Meaning /\ [Next]_vars => Meaning'
<1> SUFFICES ASSUME Controls, Locks, Data, Places, Spawning, Meaning, [Next]_vars PROVE Meaning'
  OBVIOUS
<1>1. CASE UNCHANGED vars
  BY <1>1 DEF vars, process, configs, session, routine, Meaning
<1>2. CASE Elsewhere
  <2>1. core' = core \/ (core = "broken" /\ core' = "ready")
    BY <1>2 DEF Elsewhere, ForeignChanges, CoreHeals, StartCommand, StopCommand, Shutdown,
       MonitorBegins, MonitorJudges, TakeTunLock, RestoreBegins, TunCommand, process
  <2>2. tunPc' = tunPc \/ (tunPc = "-" /\ tunPc' \in {"enable", "disable", "apply"})
    BY <1>2 DEF Elsewhere, ForeignChanges, CoreHeals, StartCommand, StopCommand, Shutdown,
       MonitorBegins, MonitorJudges, TakeTunLock, RestoreBegins, TunCommand, routine, Locks
  <2>3. slipped' = slipped
    BY <1>2 DEF Elsewhere, ForeignChanges, CoreHeals, StartCommand, StopCommand, Shutdown,
       MonitorBegins, MonitorJudges, TakeTunLock, RestoreBegins, TunCommand, routine
  <2>4. QED
    BY <1>2, <2>1, <2>2, <2>3, ElsewhereKeeps DEF Meaning
<1>3. CASE Losses
  BY <1>3, LossesKeep DEF Meaning
<1>4. CASE RoutineSteps
  BY <1>4, EnableMeaning, DisableMeaning, ApplyMeaning DEF RoutineSteps
<1>5. CASE Launches
  <2>1. /\ UNCHANGED <<override, file, tun, tunPc>> /\ (slipped => slipped')
        /\ stable' = stable \/ ~HasRecovery
        /\ \/ live' = live /\ core' = core
           \/ live' = stable /\ stable' = stable
    BY <1>5, LaunchesKeep
  <2>2. tun.status = "running" /\ tunPc \in {"-", "enable", "disable", "plain", "apply"}
          => stable' = stable
    BY <2>1 DEF Meaning, HasRecovery
  <2>3. tunPc = "confirm" => stable' = stable
    BY <2>1 DEF Places, HasRecovery
  <2>4. QED
    BY <2>1, <2>2, <2>3 DEF Meaning
<1>6. CASE ServiceCrashes \/ ServiceStops
  BY <1>6 DEF ServiceCrashes, ServiceStops, Forget, Meaning, Off
<1>7. CASE ServiceBoots
  <2>1. tunPc' = "-"
    BY <1>7 DEF ServiceBoots, routine, Locks
  <2>2. tun = Off
    BY <1>7 DEF ServiceBoots, Locks
  <2>3. tun' \in {tun, [status |-> "error", profile |-> file], [Off EXCEPT !.status = "error"]}
    BY <1>7 DEF ServiceBoots
  <2>4. tun'.status \in {"disabled", "error"}
    BY <2>2, <2>3 DEF Off
  <2>5. QED
    BY <2>1, <2>4 DEF Meaning
<1>8. QED
  BY <1>1, <1>2, <1>3, <1>4, <1>5, <1>6, <1>7, Disjuncts

-----------------------------------------------------------------------------
(* The theorems.                                                             *)

LEMMA InitIsInv == Init => Inv
<1> SUFFICES ASSUME Init PROVE Inv
  OBVIOUS
<1>1. \A t \in Tasks : task[t] = "idle" /\ arg[t] = NoProfile
  BY DEF Init
<1>2. Controls
  <2>1. 0 \in 0 .. MaxCandidates - 1
    BY TunAssumption
  <2>2. QED
    BY <2>1 DEF Init, Controls, MaybeId, Routine, Points
<1>3. Data
  BY DEF Init, Data, MaybeId, Off, Statuses
<1>4. Locks
  BY <1>1 DEF Init, Locks, Enabling, Supervising
<1>5. Places /\ Spawning
  BY <1>1 DEF Init, Places, Spawning
<1>6. tun.status = "disabled"
  BY DEF Init, Off
<1>7. Meaning
  BY <1>6 DEF Init, Meaning
<1>8. QED
  BY <1>2, <1>3, <1>4, <1>5, <1>7, TypesSplit DEF Inv

LEMMA Inductive == Inv /\ [Next]_vars => Inv'
<1> SUFFICES ASSUME Inv, [Next]_vars PROVE Inv'
  OBVIOUS
<1>1. Controls /\ Data /\ Locks /\ Places /\ Spawning /\ Meaning
  BY TypesSplit DEF Inv
<1>2. Controls' /\ Locks' /\ Data' /\ Places' /\ Spawning' /\ Meaning'
  BY <1>1, ControlsStep, DataStep, PlacesStep, SpawningStep, MeaningStep
<1>3. TypeOK'
  BY <1>2 DEF TypeOK, Controls, Data
<1>4. QED
  BY <1>2, <1>3 DEF Inv

LEMMA Invariance == Spec => []Inv
BY InitIsInv, Inductive, PTL DEF Spec

\* Every variable stays in its set, whatever faults strike.
THEOREM TransactionTyped == Spec => []TypeOK
BY Invariance, PTL DEF Inv

\* Nothing on disk enables TUN without the session file that undoes it, at any
\* instant: neither enable_tun nor disable_tun_inner, nor a crash in the midst
\* of either, opens a gap.
THEOREM EnabledIsRecorded == Spec => []SessionRecorded
<1>1. Inv => SessionRecorded
  BY DEF Inv, Places, SessionRecorded
<1>2. QED
  BY <1>1, Invariance, PTL

\* The status the service reports between two routines is what Mihomo does.
THEOREM StatusIsHonest == Spec => []StatusHonest
<1>1. Inv => StatusHonest
  BY DEF Inv, Meaning, Locks, StatusHonest, TypeOK
<1>2. QED
  BY <1>1, Invariance, PTL

\* A start begins without TUN: the session is undone before, and no routine
\* brings one about before the first candidate; a later one only comes up with
\* the TUN of a session that is on record.
THEOREM StartsAreClean == Spec => SpawnsWithoutTun
<1>1. Inv /\ [Next]_vars => [core = "none" /\ core' # "none" /\ (stable' \/ live')
                               => tries > 0 /\ file # NoProfile]_vars
  <2> SUFFICES ASSUME Inv, [Next]_vars, core = "none", core' # "none", stable' \/ live'
               PROVE  tries > 0 /\ file # NoProfile
    OBVIOUS
  <2>0. Controls /\ Data /\ Locks /\ Places /\ Spawning
    BY TypesSplit DEF Inv
  <2>1. CASE UNCHANGED vars
    BY <2>1 DEF vars, process
  <2>2. CASE Elsewhere
    BY <2>2 DEF Elsewhere, ForeignChanges, CoreHeals, StartCommand, StopCommand, Shutdown,
       MonitorBegins, MonitorJudges, TakeTunLock, RestoreBegins, TunCommand, process
  <2>3. CASE Losses
    BY <2>3, LossesKeep
  <2>4. CASE RoutineSteps
    BY <2>4, RoutineLive
  <2>5. CASE Launches
    <3>1. stable /\ \E t \in Tasks : task[t] = "spawn"
      BY <2>0, <2>5, LaunchesKeep
    <3>2. file # NoProfile
      BY <2>0, <3>1 DEF Places
    <3>3. tries # 0
      BY <2>0, <3>1, <3>2 DEF Spawning, HasRecovery
    <3>4. QED
      BY <2>0, <3>2, <3>3 DEF Controls
  <2>6. CASE ServiceCrashes \/ ServiceStops
    BY <2>6 DEF ServiceCrashes, ServiceStops, Forget
  <2>7. CASE ServiceBoots
    BY <2>7 DEF ServiceBoots
  <2>8. QED
    BY <2>1, <2>2, <2>3, <2>4, <2>5, <2>6, <2>7, Disjuncts
<1>2. QED
  BY <1>1, Invariance, PTL DEF Spec, SpawnsWithoutTun

\* The session file goes last: rollback_tun, disable_tun_inner and the recovery
\* at boot remove it when neither a file nor Mihomo enables TUN any more, unless
\* a Mihomo hung, a candidate came up with TUN or a listing of listeners failed.
THEOREM ForgettingIsLast == Spec => ForgottenWhenUndone
<1>1. Inv /\ [Next]_vars => [file # NoProfile /\ file' = NoProfile /\ ~slipped'
                               => ~override' /\ ~stable' /\ ~live']_vars
  <2> SUFFICES ASSUME Inv, [Next]_vars, file # NoProfile, file' = NoProfile, ~slipped'
               PROVE  ~override' /\ ~stable' /\ ~live'
    OBVIOUS
  <2>0. /\ Controls /\ Data /\ Locks /\ Places /\ Spawning
        /\ Controls' /\ Data' /\ Places' /\ Spawning'
    <3>1. Inv'
      BY Inductive
    <3>2. TypeOK' => Controls' /\ Data'
      BY DEF TypeOK, Controls, Data
    <3>3. QED
      BY <3>1, <3>2, TypesSplit DEF Inv
  <2>1. ~override' /\ ~stable'
    BY <2>0 DEF Places
  <2>2. CASE UNCHANGED vars \/ Elsewhere \/ Losses \/ Launches
    BY <2>0, <2>2, ElsewhereKeeps, LossesKeep, LaunchesKeep DEF vars, session
  <2>3. CASE RoutineSteps
    <3>1. ~slipped
      BY <2>3, RoutineLive
    <3>2. live => core = "ready"
      BY <2>0, <3>1 DEF Spawning
    <3>3. CASE RollbackUndoes
      <4>1. tunPc = "undo" /\ tun' = Off /\ Finish(FALSE) /\ (core = "ready" \/ live' = live)
        BY <3>3 DEF RollbackUndoes, RollbackFails, Applied, FileRestored
      <4>2. ~Slips
        BY <4>1, Verdicts
      <4>3. QED
        BY <2>1, <3>2, <4>1, <4>2 DEF Slips
    <3>4. CASE DisableClears
      BY <2>0, <2>1, <3>4 DEF DisableClears, KeepConfigs, Places
    <3>5. CASE EnableSteps /\ ~RollbackUndoes
      <4>1. tunPc \in {"record", "confirm"} => tun.profile # NoProfile
        BY <2>0 DEF Places
      <4>2. QED
        BY <3>5, <4>1 DEF EnableSteps, EnableChecks, EnableRecords, EnableOverrides, EnableLoads,
           EnableConfirms, RollbackLowers, RollbackFails
    <3>6. CASE DisableSteps /\ ~DisableClears
      BY <3>6 DEF DisableSteps, DisableBegins, DisablePlain, DisableLowers, DisableUnloads,
         DisableVerifies
    <3>7. CASE ApplyProfile
      <4>1. tunPc = "apply" /\ arg[tunBy] # NoProfile
        BY <2>0, <3>7 DEF ApplyProfile, Locks, Enabling, Controls
      <4>2. QED
        BY <3>7, <4>1 DEF ApplyProfile
    <3>8. QED
      BY <2>3, <3>3, <3>4, <3>5, <3>6, <3>7 DEF RoutineSteps
  <2>4. CASE ServiceCrashes \/ ServiceStops
    BY <2>4 DEF ServiceCrashes, ServiceStops, Forget
  <2>5. CASE ServiceBoots
    <3>1. live' = live /\ ~live
      BY <2>0, <2>5 DEF ServiceBoots, Locks, Places
    <3>2. QED
      BY <2>1, <3>1
  <2>6. QED
    BY <2>2, <2>3, <2>4, <2>5, Disjuncts
<1>2. QED
  BY <1>1, Invariance, PTL DEF Spec, ForgottenWhenUndone
=============================================================================
