------------------------- MODULE CoreRecoveryProofs -------------------------
(* Proofs about CoreRecovery for every retry table, window, grace period,   *)
(* set of pids and set of faults.                                           *)
EXTENDS CoreRecovery, TLAPS
-----------------------------------------------------------------------------
(* What the operators of RecoveryPolicy preserve, for every table of        *)
(* back-offs and every value of the other constants.                        *)

\* A coherent policy state none of whose instants lies after t, and that has
\* nothing to wait for once it is suspended.
Good(s, t) == /\ s \in PolicyState /\ Coherent(s)
              /\ s.last <= t /\ s.healthy <= t
              /\ s.suspended => s.next = None

\* Every failure has a back-off in the table (or its last entry).
LEMMA DelayIsNat == \A k \in Nat \ {0} : DelayAfter(k) \in Nat \ {0}
<1>1. /\ RetryDelays \in Seq(Nat \ {0}) /\ Len(RetryDelays) \in Nat \ {0}
  BY PolicyAssumption
<1>2. \A k \in 1 .. Len(RetryDelays) : RetryDelays[k] \in Nat \ {0}
  BY <1>1
<1>3. QED
  BY <1>1, <1>2 DEF DelayAfter

\* The default state is good at any time.
LEMMA FreshIsGood == \A t \in Nat : Good(Fresh, t)
BY PolicyAssumption DEF Good, Fresh, PolicyState, Instant, None, Coherent

\* A good state stays good as time passes.
LEMMA GoodLater == \A s, t : t \in Nat /\ Good(s, t) => Good(s, t + 1)
BY DEF Good, PolicyState, Instant, None

\* The state record_failure builds for the n-th failure at time t.
Charged(n, t) ==
    [count |-> n, last |-> t,
     next |-> IF n = MaxFailures THEN None ELSE t + DelayAfter(n),
     healthy |-> None, suspended |-> n = MaxFailures]

LEMMA ChargedIsGood ==
  ASSUME NEW n \in 1 .. MaxFailures, NEW t \in Nat
  PROVE  Good(Charged(n, t), t)
<1>1. DelayAfter(n) \in Nat \ {0}
  BY DelayIsNat, PolicyAssumption
<1>2. Charged(n, t) \in PolicyState
  BY <1>1 DEF Charged, PolicyState, Instant, None
<1>3. Coherent(Charged(n, t))
  <2>1. CASE n = MaxFailures
    <3>1. Charged(n, t) = [count |-> MaxFailures, last |-> t, next |-> None,
                           healthy |-> None, suspended |-> TRUE]
      BY <2>1 DEF Charged
    <3>2. QED
      BY <3>1, PolicyAssumption DEF Coherent, None
  <2>2. CASE n # MaxFailures
    <3>1. Charged(n, t) = [count |-> n, last |-> t, next |-> t + DelayAfter(n),
                           healthy |-> None, suspended |-> FALSE]
      BY <2>2 DEF Charged
    <3>2. QED
      BY <1>1, <2>2, <3>1 DEF Coherent, None
  <2>3. QED
    BY <2>1, <2>2
<1>4. /\ Charged(n, t).last = t /\ Charged(n, t).healthy = None
      /\ Charged(n, t).suspended => Charged(n, t).next = None
  BY DEF Charged
<1>5. QED
  BY <1>2, <1>3, <1>4 DEF Good, None

\* Charging a failure (record_failure) keeps the state good.
LEMMA RecordFailureGood ==
  ASSUME NEW s, NEW t \in Nat, Good(s, t)
  PROVE  Good(RecordFailure(s, t), t)
<1> DEFINE live == ResetIfExpired(s, t)
           n == IF live.count < MaxFailures THEN live.count + 1 ELSE MaxFailures
<1>1. live.count \in 0 .. MaxFailures
  BY PolicyAssumption DEF Good, PolicyState, ResetIfExpired, Fresh
<1>2. n \in 1 .. MaxFailures
  BY <1>1, PolicyAssumption
<1>3. RecordFailure(s, t) = Charged(n, t)
  BY DEF RecordFailure, Charged
<1> HIDE DEF n
<1>4. QED
  BY <1>2, <1>3, ChargedIsGood

\* Observing a ready core (mark_ready) keeps the state good.
LEMMA MarkReadyGood ==
  ASSUME NEW s, NEW t \in Nat, Good(s, t)
  PROVE  Good(MarkReady(s, t), t)
<1>1. CASE MarkReady(s, t) = Fresh
  BY <1>1, FreshIsGood
<1>2. CASE MarkReady(s, t) = s
  BY <1>2
<1>3. CASE s.count # 0 /\ s.healthy = None
           /\ MarkReady(s, t) = [s EXCEPT !.next = None, !.healthy = t]
  <2> DEFINE r == MarkReady(s, t)
  <2>1. /\ r.count = s.count /\ r.last = s.last /\ r.suspended = s.suspended
        /\ r.next = None /\ r.healthy = t
    BY <1>3 DEF Good, PolicyState
  <2>2. r \in PolicyState
    BY <1>3 DEF Good, PolicyState, Instant, None
  <2> HIDE DEF r
  <2>3. /\ s.count > 0 /\ t # None /\ s.last <= t
    BY <1>3 DEF Good, PolicyState, None
  <2>4. Coherent(r)
    BY <2>1, <2>3, <1>3 DEF Good, Coherent
  <2>5. QED
    BY <2>1, <2>2, <2>3, <2>4 DEF Good, r, PolicyState, Instant, None
<1>4. CASE s.count # 0 /\ s.healthy # None /\ MarkReady(s, t) = [s EXCEPT !.next = None]
  BY <1>4 DEF Good, PolicyState, Instant, None, Coherent
<1>5. QED
  BY <1>1, <1>2, <1>3, <1>4 DEF MarkReady

\* What a restarted service reads back (from_persisted) is good again.
LEMMA FromPersistedGood ==
  ASSUME NEW s, NEW t \in Nat, Good(s, t)
  PROVE  Good(FromPersisted(s, t), t)
<1>1. CASE FromPersisted(s, t) = Fresh
  BY <1>1, FreshIsGood
<1>2. CASE FromPersisted(s, t) = s
  BY <1>2
<1>3. CASE s.count = MaxFailures
           /\ FromPersisted(s, t) = [s EXCEPT !.suspended = TRUE, !.next = None]
  BY <1>3 DEF Good, PolicyState, Instant, None, Coherent
<1>4. QED
  BY <1>1, <1>2, <1>3 DEF FromPersisted
-----------------------------------------------------------------------------
(* What the operators do to the number of failures.                         *)

LEMMA RecordFailureCounts ==
  ASSUME NEW s \in PolicyState, NEW t \in Nat
  PROVE  RecordFailure(s, t).count =
           IF Expired(s, t) THEN 1
           ELSE IF s.count < MaxFailures THEN s.count + 1 ELSE MaxFailures
<1>1. Fresh.count = 0
  BY DEF Fresh
<1>2. QED
  BY <1>1, PolicyAssumption DEF RecordFailure, ResetIfExpired, PolicyState

LEMMA MarkReadyCounts ==
  ASSUME NEW s \in PolicyState, NEW t \in Nat
  PROVE  MarkReady(s, t).count \in {0, s.count}
BY DEF MarkReady, Fresh, PolicyState

LEMMA FromPersistedCounts ==
  ASSUME NEW s \in PolicyState, NEW t \in Nat
  PROVE  FromPersisted(s, t).count \in {0, s.count}
BY DEF FromPersisted, Fresh, PolicyState
-----------------------------------------------------------------------------
\* The policy in memory and on disk is one the operators can produce, and
\* none of its instants lies in the future.
PolicyGood == Good(recovery, now) /\ Good(persisted, now)

\* A step leaves the policy alone or applies one of its operators.
PolicyStep ==
    /\ now' = now
    /\ recovery' \in {recovery, persisted, Fresh, RecordFailure(recovery, now),
                      MarkReady(recovery, now), FromPersisted(persisted, now)}
    /\ persisted' \in {persisted, recovery', Fresh}

LEMMA PolicyStepKeepsGood ==
  ASSUME now \in Nat, PolicyGood, PolicyStep
  PROVE  PolicyGood'
<1>1. Good(recovery', now)
  BY FreshIsGood, RecordFailureGood, MarkReadyGood, FromPersistedGood
  DEF PolicyStep, PolicyGood
<1>2. Good(persisted', now)
  BY <1>1, FreshIsGood DEF PolicyStep, PolicyGood
<1>3. QED
  BY <1>1, <1>2 DEF PolicyGood, PolicyStep

\* Every step of the service but the tick of the clock is a policy step.
LEMMA NextIsPolicyStep ==
  ASSUME Next, ~Tick
  PROVE  PolicyStep
<1> USE DEF PolicyStep, service, files, process, control, history, vars,
        KeepRecovery, StoreRecovery, ChargeFailure, ObserveReady
<1>1. CASE ChildExits \/ ExternalChanges \/ SessionChanges
           \/ (\E h \in Readiness : HealthChanges(h))
  BY <1>1 DEF ChildExits, ExternalChanges, SessionChanges, HealthChanges
<1>2. CASE StatusReaps \/ StatusFlagsExit
  BY <1>2 DEF StatusReaps, StatusFlagsExit
<1>3. CASE MonitorBegins \/ MonitorObserves \/ MonitorProbes \/ MonitorKills
  BY <1>3 DEF MonitorBegins, MonitorObserves, MonitorProbes, MonitorKills
<1>4. CASE MonitorJudges
  BY <1>4 DEF MonitorJudges
<1>5. CASE MonitorCharges
  BY <1>5 DEF MonitorCharges
<1>6. CASE MonitorFindsNoCore
  BY <1>6 DEF MonitorFindsNoCore
<1>7. CASE StartChecksChild
  BY <1>7 DEF StartChecksChild, StartFails, StartSucceeds
<1>8. CASE StartPrepares
  BY <1>8 DEF StartPrepares, StartFails, StartSucceeds
<1>9. CASE StartSpawns
  BY <1>9 DEF StartSpawns, StartFails
<1>10. CASE StartWaits
  BY <1>10 DEF StartWaits, StartFails, StartSucceeds, CandidateRejected
<1>11. CASE StartCommand \/ StopCommand
  BY <1>11 DEF StartCommand, StopCommand, ResetBeforeCommand
<1>12. CASE StopFinishes
  BY <1>12 DEF StopFinishes
<1>13. CASE ServiceCrashes \/ ServiceStops
  BY <1>13 DEF ServiceCrashes, ServiceStops, Forget
<1>14. CASE ServiceBoots
  BY <1>14 DEF ServiceBoots
<1>15. CASE BootEnsuresCore
  BY <1>15 DEF BootEnsuresCore
<1>16. QED
  BY <1>1, <1>2, <1>3, <1>4, <1>5, <1>6, <1>7, <1>8, <1>9, <1>10, <1>11, <1>12,
     <1>13, <1>14, <1>15
  DEF Next, Environment, StatusSteps, HolderSteps, MonitorSteps, StartSteps

-----------------------------------------------------------------------------
LEMMA TickKeepsPolicy ==
  ASSUME now \in Nat, PolicyGood, Tick
  PROVE  now' \in Nat /\ PolicyGood'
<1>1. now' = now + 1 /\ recovery' = recovery /\ persisted' = persisted
  BY DEF Tick, service, files
<1>2. QED
  BY <1>1, GoodLater DEF PolicyGood

LEMMA InitIsGood == Init => now \in Nat /\ PolicyGood
BY FreshIsGood DEF Init, PolicyGood

LEMMA PolicyInductive ==
  ASSUME now \in Nat, PolicyGood, [Next]_vars
  PROVE  (now \in Nat /\ PolicyGood)'
<1>1. CASE UNCHANGED vars
  BY <1>1 DEF vars, service, files, PolicyGood
<1>2. CASE Tick
  BY <1>2, TickKeepsPolicy
<1>3. CASE Next /\ ~Tick
  <2>1. PolicyStep
    BY <1>3, NextIsPolicyStep
  <2>2. QED
    BY <2>1, PolicyStepKeepsGood DEF PolicyStep
<1>4. QED
  BY <1>1, <1>2, <1>3

\* The policy in memory and the one on disk are coherent in every reachable
\* state, whatever failures, resets, disk faults and restarts came before.
THEOREM PolicyIsCoherent == Spec => []PolicyCoherent
<1>1. now \in Nat /\ PolicyGood /\ [Next]_vars => (now \in Nat /\ PolicyGood)'
  BY PolicyInductive
<1>2. PolicyGood => PolicyCoherent
  BY DEF PolicyGood, PolicyCoherent, Good
<1>3. QED
  BY InitIsGood, <1>1, <1>2, PTL DEF Spec
-----------------------------------------------------------------------------
\* The lock has a holder exactly when the holder is at some control point.
HolderAtWork ==
    /\ by = "none" <=> pc = "idle"
    /\ pc = "stopping" => by = "stop"

StopInv == StopHolds /\ StopInProgress /\ HolderAtWork

LEMMA StopInit == Init => StopInv
BY DEF Init, StopInv, StopHolds, StopInProgress, HolderAtWork

LEMMA StopInductive ==
  ASSUME StopInv, [Next]_vars
  PROVE  StopInv'
<1> USE DEF StopInv, StopHolds, StopInProgress, HolderAtWork, service, files,
            process, control, history, Return, Goto, DropChild, KeepChild,
            ChargeFailure, ObserveReady, KeepRecovery, Dead, Monitoring
<1>1. CASE UNCHANGED vars
  BY <1>1 DEF vars
<1>2. CASE Environment
  BY <1>2 DEF Environment, Tick, ChildExits, ExternalChanges, SessionChanges,
              HealthChanges
<1>3. CASE StatusSteps
  BY <1>3 DEF StatusSteps, StatusReaps, StatusFlagsExit
<1>4. CASE MonitorBegins \/ MonitorProbes
  BY <1>4 DEF MonitorBegins, MonitorProbes
<1>5. CASE MonitorObserves
  BY <1>5 DEF MonitorObserves
<1>6. CASE MonitorJudges
  BY <1>6 DEF MonitorJudges
<1>7. CASE MonitorKills \/ MonitorCharges
  BY <1>7 DEF MonitorKills, MonitorCharges
<1>8. CASE MonitorFindsNoCore
  BY <1>8 DEF MonitorFindsNoCore
<1>9. CASE StartChecksChild
  BY <1>9 DEF StartChecksChild, StartFails, StartSucceeds
<1>10. CASE StartPrepares
  BY <1>10 DEF StartPrepares, StartFails, StartSucceeds
<1>11. CASE StartSpawns
  BY <1>11 DEF StartSpawns, StartFails
<1>12. CASE StartWaits
  BY <1>12 DEF StartWaits, StartFails, StartSucceeds, CandidateRejected
<1>13. CASE StartCommand
  BY <1>13 DEF StartCommand, ResetBeforeCommand
<1>14. CASE StopCommand
  <2>1. ~stopped' /\ by = "none"
    BY <1>14 DEF StopCommand, ResetBeforeCommand
  <2>2. CASE UNCHANGED control
    BY <2>1, <2>2
  <2>3. CASE ~UNCHANGED control
    <3>1. /\ by' = "stop" /\ pc' = "stopping"
          /\ ~desired' /\ ~desiredFile'
      BY <1>14, <2>3 DEF StopCommand
    <3>2. CASE Dead
      BY <1>14, <2>1, <2>3, <3>1, <3>2 DEF StopCommand
    <3>3. CASE ~Dead
      <4>1. had' = (child # NoPid) /\ child' = child
        BY <1>14, <2>3, <3>3 DEF StopCommand
      <4>2. had' \/ child' = NoPid
        BY <4>1
      <4>3. QED
        BY <2>1, <3>1, <4>2
    <3>4. QED
      BY <3>2, <3>3
  <2>4. QED
    BY <2>2, <2>3
<1>15. CASE StopFinishes
  BY <1>15 DEF StopFinishes
<1>16. CASE ServiceCrashes \/ ServiceStops
  BY <1>16 DEF ServiceCrashes, ServiceStops, Forget
<1>17. CASE ServiceBoots
  BY <1>17 DEF ServiceBoots
<1>18. CASE BootEnsuresCore
  <2>1. /\ by = "boot" /\ pc = "begin" /\ child' = child /\ stopped' = stopped
        /\ (by' = "none" /\ pc' = "idle") \/ (by' = by /\ pc' = "observe")
    BY <1>18 DEF BootEnsuresCore
  <2>2. CASE desired
    BY <2>1, <2>2
  <2>3. CASE ~desired
    <3>1. desired' = desired /\ desiredFile' = desiredFile /\ pc' = "idle"
      BY <1>18, <2>3 DEF BootEnsuresCore
    <3>2. QED
      BY <2>1, <3>1
  <2>4. QED
    BY <2>2, <2>3
<1>19. QED
  BY <1>1, <1>2, <1>3, <1>4, <1>5, <1>6, <1>7, <1>8, <1>9, <1>10, <1>11, <1>12,
     <1>13, <1>14, <1>15, <1>16, <1>17, <1>18
  DEF Next, HolderSteps, MonitorSteps, StartSteps

\* After a successful Stop nothing runs and nothing is started, neither by the
\* monitor nor by a service that boots again, until the next command.
THEOREM StopIsRespected == Spec => []StopHolds
<1>1. StopInv => StopHolds
  BY DEF StopInv
<1>2. QED
  BY StopInit, StopInductive, <1>1, PTL DEF Spec
-----------------------------------------------------------------------------
\* The times of the clock and of the last spawn, with what the start of a
\* child and the grace period have to do with each other.
GraceInv ==
    /\ now \in Nat /\ born \in Nat /\ born <= now
    /\ GraceBelongsToChild /\ GraceClearedByStart
    /\ up \/ child = NoPid

LEMMA GraceInit == Init => GraceInv
BY CoreAssumption
DEF Init, GraceInv, GraceBelongsToChild, GraceClearedByStart, NoGrace, None

LEMMA GraceInductive ==
  ASSUME GraceInv, [Next]_vars
  PROVE  GraceInv'
<1> USE DEF GraceInv, GraceBelongsToChild, GraceClearedByStart, service, files,
            process, control, history, Return, Goto, DropChild, KeepChild, Dead,
            Monitoring
<1>1. CASE UNCHANGED vars
  BY <1>1 DEF vars
<1>2. CASE Environment
  BY <1>2 DEF Environment, Tick, ChildExits, ExternalChanges, SessionChanges,
              HealthChanges
<1>3. CASE StatusSteps
  BY <1>3 DEF StatusSteps, StatusReaps, StatusFlagsExit
<1>4. CASE MonitorBegins \/ MonitorProbes
  BY <1>4 DEF MonitorBegins, MonitorProbes
<1>5. CASE MonitorObserves
  BY <1>5 DEF MonitorObserves
<1>6. CASE MonitorJudges
  BY <1>6, CoreAssumption
  DEF MonitorJudges, ObserveReady, NoGrace, None, GraceStarts, GraceExpires
<1>7. CASE MonitorKills \/ MonitorCharges
  BY <1>7, CoreAssumption DEF MonitorKills, MonitorCharges, ChargeFailure, NoGrace
<1>8. CASE MonitorFindsNoCore
  BY <1>8, CoreAssumption DEF MonitorFindsNoCore, NoGrace
<1>9. CASE StartChecksChild
  BY <1>9 DEF StartChecksChild, StartFails, StartSucceeds
<1>10. CASE StartPrepares
  BY <1>10 DEF StartPrepares, StartFails, StartSucceeds
<1>11. CASE StartSpawns
  BY <1>11, CoreAssumption DEF StartSpawns, StartFails, NoGrace
<1>12. CASE StartWaits
  BY <1>12 DEF StartWaits, StartFails, StartSucceeds, CandidateRejected
<1>13. CASE StartCommand \/ StopCommand
  <2>1. /\ up' = up /\ now' = now /\ born' = born /\ grace' = NoGrace
        /\ up
    BY <1>13 DEF StartCommand, StopCommand, ResetBeforeCommand
  <2>2. child' # NoPid => NoGrace.pid # child'
    BY DEF NoGrace
  <2>3. QED
    BY <2>1, <2>2
<1>14. CASE StopFinishes
  BY <1>14 DEF StopFinishes
<1>15. CASE ServiceCrashes \/ ServiceStops
  BY <1>15 DEF ServiceCrashes, ServiceStops, Forget
<1>16. CASE ServiceBoots
  BY <1>16 DEF ServiceBoots
<1>17. CASE BootEnsuresCore
  BY <1>17 DEF BootEnsuresCore
<1>18. QED
  BY <1>1, <1>2, <1>3, <1>4, <1>5, <1>6, <1>7, <1>8, <1>9, <1>10, <1>11, <1>12,
     <1>13, <1>14, <1>15, <1>16, <1>17
  DEF Next, HolderSteps, MonitorSteps, StartSteps

\* A core is never killed on the strength of an outage its predecessor had,
\* even when the system reuses the pid.
THEOREM GraceIsPerChild == Spec => []GraceBelongsToChild
<1>1. GraceInv => GraceBelongsToChild
  BY DEF GraceInv
<1>2. QED
  BY GraceInit, GraceInductive, <1>1, PTL DEF Spec
-----------------------------------------------------------------------------
(* The type invariant.  The types of the policy states are PolicyInductive. *)

Flags ==
    /\ up \in BOOLEAN /\ desired \in BOOLEAN /\ desiredFile \in BOOLEAN
    /\ exitPending \in BOOLEAN /\ reaped \in BOOLEAN /\ session \in BOOLEAN
    /\ external \in BOOLEAN /\ alive \in BOOLEAN /\ had \in BOOLEAN
    /\ stopped \in BOOLEAN

Ids ==
    /\ child \in Pids \cup {NoPid} /\ owner \in Pids \cup {NoPid}
    /\ grace \in [pid : Pids \cup {NoPid}, at : Instant]

Control ==
    /\ health \in Readiness
    /\ by \in Callers /\ pc \in Points /\ why \in Reasons
    /\ cand \in 0 .. MaxCandidates - 1

Times ==
    /\ now \in 0 .. MaxTime /\ born \in 0 .. MaxTime
    /\ deaths \in 0 .. MaxDeaths /\ attempts \in 0 .. MaxFailures + deaths + 1

LEMMA OutcomesAreBoolean == WriteOutcome \subseteq BOOLEAN /\ CleanupOutcome \subseteq BOOLEAN
BY DEF WriteOutcome, CleanupOutcome

LEMMA TypesInit == Init => Flags /\ Ids /\ Control /\ Times
<1> SUFFICES ASSUME Init PROVE Flags /\ Ids /\ Control /\ Times
  OBVIOUS
<1>1. Flags
  BY DEF Init, Flags
<1>2. Ids
  BY DEF Init, Ids, NoGrace, Instant, None
<1>3. Control
  BY CoreAssumption DEF Init, Control, Readiness, Callers, Points, Reasons
<1>4. Times
  BY CoreAssumption, PolicyAssumption DEF Init, Times
<1>5. QED
  BY <1>1, <1>2, <1>3, <1>4

LEMMA ControlInductive ==
  ASSUME Control, [Next]_vars
  PROVE  Control'
<1> USE DEF Control, service, files, process, control, history, Return, Goto,
            DropChild, KeepChild, Readiness, Callers, Points, Reasons
<1> USE CoreAssumption
<1>1. CASE UNCHANGED vars
  BY <1>1 DEF vars
<1>2. CASE Environment
  BY <1>2 DEF Environment, Tick, ChildExits, ExternalChanges, SessionChanges,
              HealthChanges
<1>3. CASE StatusSteps
  BY <1>3 DEF StatusSteps, StatusReaps, StatusFlagsExit
<1>4. CASE MonitorBegins
  BY <1>4 DEF MonitorBegins
<1>5. CASE MonitorObserves
  BY <1>5 DEF MonitorObserves
<1>6. CASE MonitorProbes
  BY <1>6 DEF MonitorProbes, Readings
<1>7. CASE MonitorJudges
  BY <1>7 DEF MonitorJudges
<1>8. CASE MonitorKills \/ MonitorCharges
  BY <1>8 DEF MonitorKills, MonitorCharges
<1>9. CASE MonitorFindsNoCore
  BY <1>9 DEF MonitorFindsNoCore
<1>10. CASE StartChecksChild
  BY <1>10 DEF StartChecksChild, StartFails, StartSucceeds
<1>11. CASE StartPrepares
  <2>1. UNCHANGED health /\ (Return \/ Goto("spawn", "-"))
    <3>1. CASE external
      BY <1>11, <3>1 DEF StartPrepares, StartFails, StartSucceeds
    <3>2. CASE ~external
      <4>1. PICK ok \in CleanupOutcome, valid \in BOOLEAN :
              IF ok /\ valid THEN Goto("spawn", "-") ELSE StartFails
        BY <1>11, <3>2 DEF StartPrepares
      <4>2. QED
        BY <1>11, <4>1 DEF StartPrepares, StartFails
    <3>3. QED
      BY <3>1, <3>2
  <2>2. QED
    BY <2>1
<1>12. CASE StartSpawns
  BY <1>12 DEF StartSpawns, StartFails
<1>13. CASE StartWaits
  BY <1>13 DEF StartWaits, StartFails, StartSucceeds, CandidateRejected
<1>14. CASE StartCommand
  BY <1>14 DEF StartCommand, ResetBeforeCommand
<1>15. CASE StopCommand
  <2>1. UNCHANGED health \/ health' = "unavailable"
    BY <1>15 DEF StopCommand
  <2>2. UNCHANGED <<by, pc, why, cand>>
        \/ (by' = "stop" /\ pc' = "stopping" /\ UNCHANGED <<why, cand>>)
    BY <1>15 DEF StopCommand
  <2>3. QED
    BY <2>1, <2>2
<1>16. CASE StopFinishes
  BY <1>16 DEF StopFinishes
<1>17. CASE ServiceCrashes \/ ServiceStops
  BY <1>17 DEF ServiceCrashes, ServiceStops, Forget
<1>18. CASE ServiceBoots \/ BootEnsuresCore
  <2>1. CASE ServiceBoots
    BY <2>1 DEF ServiceBoots
  <2>2. CASE BootEnsuresCore
    <3>1. UNCHANGED health /\ (Return \/ Goto("observe", "-"))
      BY <2>2 DEF BootEnsuresCore
    <3>2. QED
      BY <3>1
  <2>3. QED
    BY <1>18, <2>1, <2>2
<1>19. QED
  BY <1>1, <1>2, <1>3, <1>4, <1>5, <1>6, <1>7, <1>8, <1>9, <1>10, <1>11, <1>12,
     <1>13, <1>14, <1>15, <1>16, <1>17, <1>18
  DEF Next, HolderSteps, MonitorSteps, StartSteps

LEMMA IdsInductive ==
  ASSUME now \in Nat, Ids, [Next]_vars
  PROVE  Ids'
<1> USE DEF Ids, service, files, process, control, history, Return, Goto,
            DropChild, KeepChild, NoGrace, Instant, None, OwnerCleared
<1>1. CASE UNCHANGED vars
  BY <1>1 DEF vars
<1>2. CASE Environment
  BY <1>2 DEF Environment, Tick, ChildExits, ExternalChanges, SessionChanges,
              HealthChanges
<1>3. CASE StatusSteps
  BY <1>3 DEF StatusSteps, StatusReaps, StatusFlagsExit
<1>4. CASE MonitorBegins
  BY <1>4 DEF MonitorBegins
<1>5. CASE MonitorObserves
  BY <1>5 DEF MonitorObserves
<1>6. CASE MonitorProbes
  BY <1>6 DEF MonitorProbes
<1>7. CASE MonitorJudges
  BY <1>7 DEF MonitorJudges, GraceStarts, GraceExpires
<1>8. CASE MonitorKills \/ MonitorCharges
  BY <1>8 DEF MonitorKills, MonitorCharges
<1>9. CASE MonitorFindsNoCore
  BY <1>9 DEF MonitorFindsNoCore
<1>10. CASE StartChecksChild
  BY <1>10 DEF StartChecksChild, StartFails, StartSucceeds
<1>11. CASE StartPrepares
  BY <1>11 DEF StartPrepares, StartFails, StartSucceeds
<1>12. CASE StartSpawns
  BY <1>12 DEF StartSpawns, StartFails
<1>13. CASE StartWaits
  BY <1>13 DEF StartWaits, StartFails, StartSucceeds, CandidateRejected
<1>14. CASE StartCommand
  BY <1>14 DEF StartCommand, ResetBeforeCommand
<1>15. CASE StopCommand
  BY <1>15 DEF StopCommand, ResetBeforeCommand
<1>16. CASE StopFinishes
  BY <1>16 DEF StopFinishes
<1>17. CASE ServiceCrashes \/ ServiceStops
  BY <1>17 DEF ServiceCrashes, ServiceStops, Forget
<1>18. CASE ServiceBoots
  BY <1>18 DEF ServiceBoots
<1>19. CASE BootEnsuresCore
  BY <1>19 DEF BootEnsuresCore
<1>20. QED
  BY <1>1, <1>2, <1>3, <1>4, <1>5, <1>6, <1>7, <1>8, <1>9, <1>10,
     <1>11, <1>12, <1>13, <1>14, <1>15, <1>16, <1>17, <1>18, <1>19
  DEF Next, HolderSteps, MonitorSteps, StartSteps

LEMMA TimesInductive ==
  ASSUME PolicyGood, Times, [Next]_vars
  PROVE  Times'
<1> USE DEF Times, service, files, process, control, history, account, Forgiven,
            ChargeFailure, ObserveReady, PolicyGood, Good, PolicyState
<1> USE CoreAssumption, PolicyAssumption
<1>1. CASE UNCHANGED vars
  BY <1>1 DEF vars
<1>2. CASE Environment
  BY <1>2 DEF Environment, Tick, ChildExits, ExternalChanges, SessionChanges,
              HealthChanges
<1>3. CASE StatusSteps
  BY <1>3 DEF StatusSteps, StatusReaps, StatusFlagsExit
<1>4. CASE MonitorBegins
  BY <1>4 DEF MonitorBegins
<1>5. CASE MonitorObserves
  BY <1>5 DEF MonitorObserves
<1>6. CASE MonitorProbes
  BY <1>6 DEF MonitorProbes
<1>7. CASE MonitorJudges
  BY <1>7 DEF MonitorJudges
<1>8. CASE MonitorKills \/ MonitorCharges
  BY <1>8 DEF MonitorKills, MonitorCharges
<1>9. CASE MonitorFindsNoCore
  BY <1>9 DEF MonitorFindsNoCore
<1>10. CASE StartChecksChild
  BY <1>10 DEF StartChecksChild, StartFails, StartSucceeds
<1>11. CASE StartPrepares
  <2>1. (Forgiven \/ UNCHANGED account) /\ UNCHANGED <<now, born>>
    <3>1. CASE external
      BY <1>11, <3>1 DEF StartPrepares, StartFails, StartSucceeds
    <3>2. CASE ~external
      <4>1. PICK ok \in CleanupOutcome, valid \in BOOLEAN :
              IF ok /\ valid THEN UNCHANGED account ELSE StartFails
        BY <1>11, <3>2 DEF StartPrepares
      <4>2. QED
        BY <1>11, <4>1 DEF StartPrepares, StartFails
    <3>3. QED
      BY <3>1, <3>2
  <2>2. QED
    BY <2>1
<1>12. CASE StartSpawns
  BY <1>12 DEF StartSpawns, StartFails
<1>13. CASE StartWaits
  BY <1>13 DEF StartWaits, StartFails, StartSucceeds, CandidateRejected
<1>14. CASE StartCommand
  BY <1>14 DEF StartCommand, ResetBeforeCommand
<1>15. CASE StopCommand
  BY <1>15 DEF StopCommand, ResetBeforeCommand
<1>16. CASE StopFinishes
  BY <1>16 DEF StopFinishes
<1>17. CASE ServiceCrashes \/ ServiceStops
  BY <1>17 DEF ServiceCrashes, ServiceStops, Forget
<1>18. CASE ServiceBoots
  BY <1>18 DEF ServiceBoots
<1>19. CASE BootEnsuresCore
  <2>1. (Forgiven \/ UNCHANGED account) /\ UNCHANGED <<now, born>>
    BY <1>19 DEF BootEnsuresCore
  <2>2. QED
    BY <2>1
<1>20. QED
  BY <1>1, <1>2, <1>3, <1>4, <1>5, <1>6, <1>7, <1>8, <1>9, <1>10,
     <1>11, <1>12, <1>13, <1>14, <1>15, <1>16, <1>17, <1>18, <1>19
  DEF Next, HolderSteps, MonitorSteps, StartSteps

\* What a Stop command leaves in the flags, whichever of its writes fail.
LEMMA StopOutcome ==
  ASSUME StopCommand
  PROVE  \E cleared, stored, unowned \in WriteOutcome :
           /\ exitPending' = unowned
              \/ exitPending' = (IF cleared THEN FALSE ELSE exitPending)
           /\ had' = (child # NoPid /\ ~Dead) \/ had' = had
<1>1. PICK cleared, stored, unowned \in WriteOutcome :
        /\ exitPending' = unowned
           \/ exitPending' = (IF cleared THEN FALSE ELSE exitPending)
        /\ had' = (child # NoPid /\ ~Dead) \/ UNCHANGED control
  BY DEF StopCommand
<1>2. had' = (child # NoPid /\ ~Dead) \/ had' = had
  BY <1>1 DEF control
<1>3. QED
  BY <1>1, <1>2

LEMMA FlagsInductive ==
  ASSUME Flags, [Next]_vars
  PROVE  Flags'
<1> USE DEF Flags, service, files, process, control, history, Return, Goto,
            DropChild, KeepChild
<1> USE OutcomesAreBoolean
<1>1. CASE UNCHANGED vars
  BY <1>1 DEF vars
<1>2. CASE Environment
  <2>1. /\ alive' = FALSE \/ UNCHANGED alive
        /\ external' = (~external) \/ UNCHANGED external
        /\ session' = (~session) \/ UNCHANGED session
        /\ UNCHANGED <<up, desired, desiredFile, exitPending, reaped, had, stopped>>
    BY <1>2 DEF Environment, Tick, ChildExits, ExternalChanges, SessionChanges,
                HealthChanges
  <2>2. alive' \in BOOLEAN
    BY <2>1
  <2>3. external' \in BOOLEAN
    BY <2>1
  <2>4. session' \in BOOLEAN
    BY <2>1
  <2>5. QED
    BY <2>1, <2>2, <2>3, <2>4
<1>3. CASE StatusSteps
  BY <1>3 DEF StatusSteps, StatusReaps, StatusFlagsExit
<1>4. CASE MonitorBegins
  BY <1>4 DEF MonitorBegins
<1>5. CASE MonitorObserves
  BY <1>5 DEF MonitorObserves
<1>6. CASE MonitorProbes
  BY <1>6 DEF MonitorProbes
<1>7. CASE MonitorJudges
  BY <1>7 DEF MonitorJudges
<1>8. CASE MonitorKills
  <2>1. /\ alive' = FALSE \/ UNCHANGED alive
        /\ had' = FALSE \/ UNCHANGED had
        /\ UNCHANGED <<up, desired, desiredFile, reaped, external, session, stopped>>
    BY <1>8 DEF MonitorKills
  <2>2. exitPending' \in BOOLEAN
    BY <1>8 DEF MonitorKills
  <2>3. QED
    BY <2>1, <2>2
<1>21. CASE MonitorCharges
  <2>1. /\ session' = FALSE \/ UNCHANGED session
        /\ had' = FALSE
        /\ UNCHANGED <<up, desired, desiredFile, exitPending, reaped, external, alive,
                       stopped>>
    BY <1>21 DEF MonitorCharges
  <2>2. QED
    BY <2>1
<1>9. CASE MonitorFindsNoCore
  BY <1>9 DEF MonitorFindsNoCore
<1>10. CASE StartChecksChild
  BY <1>10 DEF StartChecksChild, StartFails, StartSucceeds
<1>11. CASE StartPrepares
  BY <1>11 DEF StartPrepares, StartFails, StartSucceeds
<1>12. CASE StartSpawns
  BY <1>12 DEF StartSpawns, StartFails
<1>13. CASE StartWaits
  BY <1>13 DEF StartWaits, StartFails, StartSucceeds, CandidateRejected
<1>14. CASE StartCommand
  BY <1>14 DEF StartCommand, ResetBeforeCommand
<1>15. CASE StopCommand
  <2>1. desired' \in {FALSE, desired} /\ desiredFile' \in {FALSE, desiredFile}
    BY <1>15 DEF StopCommand
  <2>2. alive' \in {FALSE, alive}
    BY <1>15 DEF StopCommand
  <2>3. PICK cleared, stored, unowned \in WriteOutcome :
          /\ exitPending' = unowned
             \/ exitPending' = (IF cleared THEN FALSE ELSE exitPending)
          /\ had' = (child # NoPid /\ ~Dead) \/ had' = had
    BY <1>15, StopOutcome
  <2>4. exitPending' \in BOOLEAN /\ had' \in BOOLEAN
    <3>1. exitPending' \in BOOLEAN
      BY <2>3
    <3>2. had' \in BOOLEAN
      BY <2>3
    <3>3. QED
      BY <3>1, <3>2
  <2>5. UNCHANGED <<up, reaped, session, external>> /\ stopped' = FALSE
    BY <1>15 DEF StopCommand, ResetBeforeCommand
  <2>6. QED
    BY <2>1, <2>2, <2>4, <2>5
<1>16. CASE StopFinishes
  BY <1>16 DEF StopFinishes
<1>17. CASE ServiceCrashes \/ ServiceStops
  BY <1>17 DEF ServiceCrashes, ServiceStops, Forget
<1>18. CASE ServiceBoots
  BY <1>18 DEF ServiceBoots
<1>19. CASE BootEnsuresCore
  BY <1>19 DEF BootEnsuresCore
<1>20. QED
  BY <1>1, <1>2, <1>3, <1>4, <1>5, <1>6, <1>7, <1>8, <1>21, <1>9, <1>10,
     <1>11, <1>12, <1>13, <1>14, <1>15, <1>16, <1>17, <1>18, <1>19
  DEF Next, HolderSteps, MonitorSteps, StartSteps

\* Every variable keeps its type for every value of the constants.
THEOREM TypesAreCorrect == Spec => []TypeOK
<1> DEFINE Inv == PolicyGood /\ Flags /\ Ids /\ Control /\ Times
<1>1. Init => Inv
  BY InitIsGood, TypesInit
<1>2. Inv /\ [Next]_vars => Inv'
  <2> SUFFICES ASSUME Inv, [Next]_vars PROVE Inv'
    OBVIOUS
  <2>1. now \in Nat
    BY CoreAssumption DEF Times
  <2>2. QED
    BY <2>1, PolicyInductive, FlagsInductive, IdsInductive, ControlInductive,
       TimesInductive
<1>3. Inv => TypeOK
  BY DEF TypeOK, PolicyGood, Good, Flags, Ids, Control, Times
<1> HIDE DEF Inv
<1>4. QED
  BY <1>1, <1>2, <1>3, PTL DEF Spec
-----------------------------------------------------------------------------
(* With writable state files memory and files agree.                        *)

\* What a restarted service reads back is what it knew, and the monitor only
\* works while the core is desired.
Saved ==
    /\ recovery = persisted /\ desired = desiredFile
    /\ (Monitoring /\ pc # "begin") => desired

LEMMA SavedInit == Init => Saved
BY DEF Init, Saved, Monitoring

\* A file that from_persisted normalises holds the default afterwards.
LEMMA NormalisedIsFresh ==
  ASSUME NEW s, NEW t \in Nat, Good(s, t)
  PROVE  FromPersisted(s, t) \in {s, Fresh}
<1>1. CASE s.count = MaxFailures
           /\ FromPersisted(s, t) = [s EXCEPT !.suspended = TRUE, !.next = None]
  <2>1. s.suspended = TRUE /\ s.next = None
    BY <1>1 DEF Good, Coherent, PolicyState
  <2>2. QED
    BY <1>1, <2>1 DEF Good, PolicyState
<1>2. CASE FromPersisted(s, t) \in {s, Fresh}
  BY <1>2
<1>3. QED
  BY <1>1, <1>2 DEF FromPersisted

LEMMA SavedInductive ==
  ASSUME "disk" \notin Faults, now \in Nat, PolicyGood, HolderAtWork, Saved,
         [Next]_vars
  PROVE  Saved'
<1> USE DEF Saved, HolderAtWork, Monitoring, service, files, process, control,
            history, Return, Goto, KeepRecovery, StoreRecovery, ChargeFailure,
            ObserveReady
<1>a. WriteOutcome = {TRUE}
  BY DEF WriteOutcome
<1> USE <1>a
<1>1. CASE UNCHANGED vars
  BY <1>1 DEF vars
<1>2. CASE Environment
  BY <1>2 DEF Environment, Tick, ChildExits, ExternalChanges, SessionChanges,
              HealthChanges
<1>3. CASE StatusSteps
  BY <1>3 DEF StatusSteps, StatusReaps, StatusFlagsExit
<1>4. CASE MonitorBegins \/ MonitorProbes
  BY <1>4 DEF MonitorBegins, MonitorProbes
<1>5. CASE MonitorObserves
  BY <1>5 DEF MonitorObserves
<1>6. CASE MonitorJudges
  BY <1>6 DEF MonitorJudges
<1>7. CASE MonitorKills
  BY <1>7 DEF MonitorKills
<1>8. CASE MonitorCharges
  BY <1>8 DEF MonitorCharges
<1>9. CASE MonitorFindsNoCore
  BY <1>9 DEF MonitorFindsNoCore
<1>10. CASE StartChecksChild
  BY <1>10 DEF StartChecksChild, StartFails, StartSucceeds
<1>11. CASE StartPrepares
  <2>1. CASE external
    <3>1. desired' = FALSE /\ desiredFile' = FALSE /\ StartSucceeds
      BY <1>11, <2>1 DEF StartPrepares
    <3>2. recovery' = persisted' /\ by' = "none"
      BY <3>1 DEF StartSucceeds
    <3>3. QED
      BY <3>1, <3>2
  <2>2. CASE ~external
    <3>1. PICK ok \in CleanupOutcome, valid \in BOOLEAN :
            IF ok /\ valid THEN Goto("spawn", "-") /\ KeepRecovery ELSE StartFails
      BY <1>11, <2>2 DEF StartPrepares
    <3>2. recovery' = persisted' /\ UNCHANGED <<desired, desiredFile>>
      BY <1>11, <2>2, <3>1 DEF StartPrepares, StartFails
    <3>3. UNCHANGED by \/ by' = "none"
      BY <3>1 DEF StartFails
    <3>4. QED
      BY <1>11, <3>2, <3>3 DEF StartPrepares
  <2>3. QED
    BY <2>1, <2>2
<1>12. CASE StartSpawns
  BY <1>12 DEF StartSpawns, StartFails
<1>13. CASE StartWaits
  BY <1>13 DEF StartWaits, StartFails, StartSucceeds, CandidateRejected
<1>14. CASE StartCommand
  BY <1>14 DEF StartCommand, ResetBeforeCommand
<1>15. CASE StopCommand
  <2>1. recovery' = Fresh /\ persisted' = Fresh /\ ~desired' /\ ~desiredFile'
    BY <1>15 DEF StopCommand, ResetBeforeCommand
  <2>2. desired' = FALSE /\ desiredFile' = FALSE
    BY <1>15 DEF StopCommand
  <2>3. by' \in {"none", "stop"}
    BY <1>15 DEF StopCommand, ResetBeforeCommand
  <2>4. QED
    BY <2>1, <2>2, <2>3
<1>16. CASE StopFinishes
  BY <1>16 DEF StopFinishes
<1>17. CASE ServiceCrashes \/ ServiceStops
  BY <1>17 DEF ServiceCrashes, ServiceStops, Forget
<1>18. CASE ServiceBoots
  <2>1. FromPersisted(persisted, now) \in {persisted, Fresh}
    BY NormalisedIsFresh DEF PolicyGood
  <2>2. recovery' = persisted'
    BY <1>18, <2>1 DEF ServiceBoots
  <2>3. QED
    BY <1>18, <2>2 DEF ServiceBoots
<1>19. CASE BootEnsuresCore
  BY <1>19 DEF BootEnsuresCore
<1>20. QED
  BY <1>1, <1>2, <1>3, <1>4, <1>5, <1>6, <1>7, <1>8, <1>9, <1>10,
     <1>11, <1>12, <1>13, <1>14, <1>15, <1>16, <1>17, <1>18, <1>19
  DEF Next, HolderSteps, MonitorSteps, StartSteps

-----------------------------------------------------------------------------
(* Restarts are bounded when the writes and the clean-up succeed, no other  *)
(* Mihomo appears and nobody polls: what is left is every interleaving of   *)
(* deaths of the core, the monitor, commands and crashes of the service.    *)

\* What a step of the policy may do to the account: a charge takes the open
\* attempt in, a ready core leaves it open or forgives it.
Accounted(open) ==
    /\ attempts' \in Nat /\ deaths' \in Nat /\ recovery'.count \in 0 .. MaxFailures
    /\ attempts' <= MaxFailures + deaths'
    /\ attempts' <= recovery'.count + deaths' + open
    /\ attempts' \in {0, attempts}

LEMMA ChargeKeepsAccount ==
  ASSUME now \in Nat, PolicyGood, ChargeFailure, attempts \in Nat, deaths \in Nat,
         attempts <= MaxFailures + deaths, attempts <= recovery.count + deaths + 1
  PROVE  Accounted(0)
<1>1. recovery' = RecordFailure(recovery, now)
  BY DEF ChargeFailure, StoreRecovery
<1>2. IF Expired(recovery, now) THEN attempts' = 0 /\ deaths' = 0
                                ELSE attempts' = attempts /\ deaths' = deaths
  BY DEF ChargeFailure, Forgiven, account
<1>3. recovery \in PolicyState /\ recovery.count \in 0 .. MaxFailures
  BY DEF PolicyGood, Good, PolicyState
<1>4. recovery'.count = IF Expired(recovery, now) THEN 1
                        ELSE IF recovery.count < MaxFailures THEN recovery.count + 1
                             ELSE MaxFailures
  BY <1>1, <1>3, RecordFailureCounts
<1>5. recovery.count \in 0 .. MaxFailures /\ MaxFailures \in Nat \ {0}
  BY <1>3, PolicyAssumption
<1>6. CASE Expired(recovery, now)
  BY <1>2, <1>4, <1>5, <1>6 DEF Accounted
<1>7. CASE ~Expired(recovery, now)
  <2>1. attempts' = attempts /\ deaths' = deaths
    BY <1>2, <1>7
  <2>2. CASE recovery.count < MaxFailures
    <3>1. recovery'.count = recovery.count + 1
      BY <1>4, <1>7, <2>2
    <3>2. QED
      BY <1>5, <2>1, <2>2, <3>1 DEF Accounted
  <2>3. CASE ~(recovery.count < MaxFailures)
    <3>1. recovery'.count = MaxFailures
      BY <1>4, <1>7, <2>3
    <3>2. QED
      BY <1>5, <2>1, <3>1 DEF Accounted
  <2>4. QED
    BY <2>2, <2>3
<1>8. QED
  BY <1>6, <1>7

LEMMA ReadyKeepsAccount ==
  ASSUME now \in Nat, PolicyGood, ObserveReady, attempts \in Nat, deaths \in Nat,
         attempts <= MaxFailures + deaths,
         NEW open \in {0, 1}, attempts <= recovery.count + deaths + open
  PROVE  Accounted(open)
<1>1. recovery' = MarkReady(recovery, now)
  BY DEF ObserveReady, StoreRecovery, KeepRecovery
<1>2. recovery \in PolicyState /\ recovery.count \in 0 .. MaxFailures
  BY DEF PolicyGood, Good, PolicyState
<1>3. recovery'.count \in {0, recovery.count}
  BY <1>1, <1>2, MarkReadyCounts
<1>4. IF recovery.count > 0 /\ recovery'.count = 0
      THEN attempts' = 0 /\ deaths' = 0
      ELSE attempts' = attempts /\ deaths' = deaths
  BY <1>1 DEF ObserveReady, Forgiven, account
<1>5. QED
  BY <1>2, <1>3, <1>4, PolicyAssumption DEF Accounted

LEMMA AccountInit == Init => AttemptsAccounted
BY PolicyAssumption DEF Init, AttemptsAccounted, AttemptOpen, Fresh

LEMMA AccountInductive ==
  ASSUME Faults \subseteq {"crash"}, PolicyGood, HolderAtWork, Times, Saved,
         AttemptsAccounted, [Next]_vars
  PROVE  AttemptsAccounted'
<1> USE DEF AttemptsAccounted, AttemptOpen, service, files, process, control,
            history, account, Forgiven, Return, Goto, DropChild, KeepChild,
            HolderAtWork, Dead, Monitoring, KeepRecovery
<1>a. /\ now \in Nat /\ attempts \in Nat /\ deaths \in Nat
      /\ recovery.count \in 0 .. MaxFailures /\ persisted.count \in 0 .. MaxFailures
      /\ MaxFailures \in Nat \ {0}
  BY CoreAssumption, PolicyAssumption DEF Times, PolicyGood, Good, PolicyState
<1>b. WriteOutcome = {TRUE} /\ CleanupOutcome = {TRUE}
  BY DEF WriteOutcome, CleanupOutcome
<1>c. ChargeFailure =>
        /\ attempts' \in Nat /\ deaths' \in Nat /\ recovery'.count \in 0 .. MaxFailures
        /\ attempts' <= MaxFailures + deaths'
        /\ attempts' <= recovery'.count + deaths'
        /\ attempts' \in {0, attempts}
  BY <1>a, ChargeKeepsAccount DEF AttemptsAccounted, AttemptOpen, Accounted
<1>d. ObserveReady =>
        /\ attempts' \in Nat /\ deaths' \in Nat /\ recovery'.count \in 0 .. MaxFailures
        /\ attempts' <= MaxFailures + deaths'
        /\ attempts' <= recovery'.count + deaths' + 1
        /\ attempts <= recovery.count + deaths => attempts' <= recovery'.count + deaths'
        /\ attempts' \in {0, attempts}
  <2>1. ASSUME ObserveReady PROVE Accounted(1)
    BY <1>a, <2>1, ReadyKeepsAccount DEF AttemptsAccounted, AttemptOpen
  <2>2. ASSUME ObserveReady, attempts <= recovery.count + deaths PROVE Accounted(0)
    BY <1>a, <2>2, ReadyKeepsAccount DEF AttemptsAccounted, AttemptOpen
  <2>3. QED
    BY <1>a, <2>1, <2>2, PolicyAssumption DEF Accounted
<1>e. Fresh.count = 0
  BY DEF Fresh
<1> USE <1>a, <1>b
<1>0. CASE UNCHANGED vars
  BY <1>0 DEF vars
<1>1. CASE Tick
  BY <1>1 DEF Tick
<1>2. CASE Environment /\ ~Tick
  BY <1>2 DEF Environment, ChildExits, ExternalChanges, SessionChanges,
              HealthChanges
<1>3. CASE StatusSteps
  BY <1>3 DEF StatusSteps, StatusReaps, StatusFlagsExit
<1>4. CASE MonitorBegins \/ MonitorProbes
  BY <1>4 DEF MonitorBegins, MonitorProbes
<1>5. CASE MonitorObserves
  BY <1>5 DEF MonitorObserves
<1>6. CASE MonitorJudges
  <2>1. CASE grace' # grace \/ ObserveReady \/ UNCHANGED <<recovery, account>>
    BY <1>6, <1>d, <2>1 DEF MonitorJudges
  <2>2. QED
    BY <1>6, <2>1 DEF MonitorJudges
<1>7. CASE MonitorKills
  BY <1>7 DEF MonitorKills
<1>8. CASE MonitorCharges
  <2>1. ChargeFailure /\ Return /\ up /\ UNCHANGED <<up, external, reaped>>
    BY <1>8 DEF MonitorCharges
  <2>2. AttemptOpen' \in BOOLEAN /\ pc' = "idle" /\ by' = "none"
    BY <2>1
  <2>3. QED
    BY <1>c, <2>1, <2>2
<1>9. CASE MonitorFindsNoCore
  <2>0. (by # "stop" /\ up /\ UNCHANGED <<up, external, reaped, by>>)
        \/ (up /\ UNCHANGED <<up, external, reaped>> /\ by' = "none")
    BY <1>9 DEF MonitorFindsNoCore
  <2>1. CASE Expired(recovery, now)
    <3>1. recovery' = Fresh /\ attempts' = 1 /\ deaths' = 0 /\ pc' = "start"
      BY <1>9, <2>1 DEF MonitorFindsNoCore, StoreRecovery
    <3>2. QED
      BY <1>e, <1>9, <2>0, <3>1 DEF MonitorFindsNoCore
  <2>2. CASE ~Expired(recovery, now) /\ CanAttempt(recovery, now)
    <3>1. ~recovery.suspended
      BY <2>2 DEF CanAttempt, Mode
    <3>2. recovery.count < MaxFailures
      BY <3>1 DEF PolicyGood, Good, Coherent
    <3>3. pc' = "start" /\ recovery' = recovery /\ deaths' = deaths
          /\ attempts' = IF attempts > MaxFailures + deaths THEN attempts
                                                            ELSE attempts + 1
      BY <1>9, <2>2 DEF MonitorFindsNoCore
    <3>4. attempts <= recovery.count + deaths
      BY <1>9 DEF MonitorFindsNoCore
    <3>5. QED
      BY <1>9, <2>0, <3>2, <3>3, <3>4 DEF MonitorFindsNoCore
  <2>3. CASE ~Expired(recovery, now) /\ ~CanAttempt(recovery, now)
    BY <1>9, <2>0, <2>3 DEF MonitorFindsNoCore
  <2>4. QED
    BY <2>1, <2>2, <2>3
<1>10. CASE StartChecksChild
  BY <1>c, <1>d, <1>10 DEF StartChecksChild, StartFails, StartSucceeds
<1>11. CASE StartPrepares
  <2>1. ~external /\ UNCHANGED <<up, external, reaped, child, exitPending>>
    BY <1>11 DEF StartPrepares
  <2>2. PICK valid \in BOOLEAN :
          IF valid THEN /\ Goto("spawn", "-") /\ KeepRecovery
                        /\ UNCHANGED account
          ELSE StartFails
    BY <1>11, <2>1 DEF StartPrepares
  <2>3. CASE valid
    BY <1>11, <2>1, <2>2, <2>3 DEF StartPrepares
  <2>4. CASE ~valid
    BY <1>c, <1>11, <2>1, <2>2, <2>4 DEF StartPrepares, StartFails
  <2>5. QED
    BY <2>3, <2>4
<1>12. CASE StartSpawns
  BY <1>c, <1>12 DEF StartSpawns, StartFails
<1>13. CASE StartWaits
  BY <1>c, <1>d, <1>13 DEF StartWaits, StartFails, StartSucceeds, CandidateRejected
<1>14. CASE StartCommand
  BY <1>e, <1>14 DEF StartCommand, ResetBeforeCommand
<1>15. CASE StopCommand
  <2>1. /\ attempts' = 0 /\ deaths' = 0 /\ recovery' = Fresh /\ up
        /\ UNCHANGED <<up, external, reaped>>
    BY <1>15 DEF StopCommand, ResetBeforeCommand
  <2>2. pc' # "nocore"
    BY <1>15 DEF StopCommand, ResetBeforeCommand
  <2>3. QED
    BY <1>e, <2>1, <2>2
<1>16. CASE StopFinishes
  BY <1>16 DEF StopFinishes
<1>17. CASE ServiceCrashes \/ ServiceStops
  <2>1. /\ attempts' = attempts /\ deaths' = deaths + 1 /\ persisted' = persisted
        /\ recovery' = persisted /\ ~up' /\ by' = "none" /\ pc' = "idle"
        /\ UNCHANGED external /\ ~reaped'
    BY <1>17 DEF ServiceCrashes, ServiceStops, Forget
  <2>2. attempts <= persisted.count + deaths + 1
    BY DEF Saved
  <2>3. QED
    BY <2>1, <2>2
<1>18. CASE ServiceBoots
  <2>1. /\ recovery'.count \in {0, persisted.count}
        /\ IF persisted.count > 0 /\ recovery'.count = 0
           THEN attempts' = 0 /\ deaths' = 0
           ELSE attempts' = attempts /\ deaths' = deaths
    BY <1>18, FromPersistedCounts DEF ServiceBoots, PolicyGood, Good
  <2>2. QED
    BY <1>18, <2>1 DEF ServiceBoots
<1>19. CASE BootEnsuresCore
  BY <1>19 DEF BootEnsuresCore
<1>20. QED
  BY <1>0, <1>1, <1>2, <1>3, <1>4, <1>5, <1>6, <1>7, <1>8, <1>9, <1>10,
     <1>11, <1>12, <1>13, <1>14, <1>15, <1>16, <1>17, <1>18, <1>19
  DEF Next, HolderSteps, MonitorSteps, StartSteps, Environment

\* Without failing writes and clean-ups the service starts Mihomo on its own at
\* most MaxFailures times, and once more for each time it went down itself,
\* before the failures are forgiven, however its own deaths and those of the
\* core fall between the steps.  A start it dies in is charged to nobody, which
\* is why the bound grows with its deaths and cannot be MaxFailures alone.
THEOREM RestartsAreBounded ==
  ASSUME Faults \subseteq {"crash"}
  PROVE  Spec => []RestartsBounded
<1> DEFINE Inv == /\ PolicyGood /\ Flags /\ Ids /\ Control /\ Times
                  /\ StopInv /\ Saved /\ AttemptsAccounted
<1>1. Init => Inv
  BY InitIsGood, TypesInit, StopInit, SavedInit, AccountInit
<1>2. Inv /\ [Next]_vars => Inv'
  <2> SUFFICES ASSUME Inv, [Next]_vars PROVE Inv'
    OBVIOUS
  <2>1. now \in Nat /\ HolderAtWork
    BY CoreAssumption DEF Times, StopInv
  <2>2. QED
    BY <2>1, PolicyInductive, FlagsInductive, IdsInductive, ControlInductive,
       TimesInductive, StopInductive, SavedInductive, AccountInductive
<1>3. Inv => RestartsBounded
  BY DEF AttemptsAccounted, RestartsBounded
<1> HIDE DEF Inv
<1>4. QED
  BY <1>1, <1>2, <1>3, PTL DEF Spec
-----------------------------------------------------------------------------
(* The service implements RetryBudget when its state files can be written,  *)
(* whatever crashes, failing clean-ups, polls and other Mihomos come.       *)

\* What RetryBudget sees of the holder of core_transition, and of the policy.
Phase == IF by \in {"start", "stop"} THEN "operator"
         ELSE IF pc \in {"start", "prepare", "spawn", "wait"} THEN "attempt"
         ELSE "idle"

SameBudget == /\ recovery'.count = recovery.count
              /\ recovery'.last = recovery.last
              /\ recovery'.healthy = recovery.healthy

BudgetStep == [Budget!Next]_Budget!vars

\* A step that RetryBudget does not see.
LEMMA Unseen ==
  ASSUME now' = now, SameBudget, desired' = desired, Phase' = Phase
  PROVE  BudgetStep
BY DEF BudgetStep, Budget!vars, Budget!budget, SameBudget, Phase

\* The end of a run that leaves the budget as it is.
LEMMA RunSettles ==
  ASSUME now' = now, SameBudget, Phase' = "idle", desired' \in BOOLEAN,
         Phase = "idle" => desired' = desired
  PROVE  BudgetStep
<1>1. CASE Phase = "idle"
  BY <1>1, Unseen
<1>2. CASE Phase # "idle"
  <2>1. Budget!Settle
    BY <1>2 DEF Budget!Settle, Budget!budget, SameBudget, Phase
  <2>2. QED
    BY <2>1 DEF BudgetStep, Budget!Next
<1>3. QED
  BY <1>1, <1>2

\* The policy's window is the budget's.
LEMMA LapsedIsExpired ==
  ASSUME now \in Nat, PolicyGood
  PROVE  Budget!Lapsed <=> Expired(recovery, now)
<1>1. recovery.last \in Nat \cup {-1} /\ recovery.last <= now
  BY DEF PolicyGood, Good, PolicyState, Instant, None
<1>2. QED
  BY <1>1 DEF Budget!Lapsed, Expired, Elapsed, None

\* The budget is given back on its own.
LEMMA IsForgiven ==
  ASSUME recovery' = Fresh, by' = "none" \/ (by' = "boot" /\ pc' = "begin"),
         pc' \in {"idle", "begin"}, now' = now, desired' \in BOOLEAN,
         Budget!Lapsed \/ Budget!Healthy \/ ~desired'
  PROVE  BudgetStep
<1>1. Budget!Forgive
  BY DEF Budget!Forgive, Budget!Cleared, Fresh, None
<1>2. QED
  BY <1>1 DEF BudgetStep, Budget!Next

\* record_failure at the end of a run charges the budget.
LEMMA FailureIsCharge ==
  ASSUME now \in Nat, PolicyGood, ChargeFailure, by' = "none", pc' = "idle",
         now' = now, desired' \in BOOLEAN
  PROVE  BudgetStep
<1>1. recovery' = RecordFailure(recovery, now)
  BY DEF ChargeFailure, StoreRecovery
<1>2. recovery'.last = now /\ recovery'.healthy = -1
  BY <1>1 DEF RecordFailure, None
<1>3. recovery'.count = IF Expired(recovery, now) THEN 1
                        ELSE IF recovery.count < MaxFailures THEN recovery.count + 1
                        ELSE recovery.count
  <2>1. recovery \in PolicyState /\ recovery.count \in 0 .. MaxFailures
    BY DEF PolicyGood, Good, PolicyState
  <2>2. QED
    BY <1>1, <2>1, RecordFailureCounts, PolicyAssumption
<1>4. Budget!Charge
  BY <1>2, <1>3, LapsedIsExpired DEF Budget!Charge
<1>5. QED
  BY <1>4 DEF BudgetStep, Budget!Next

\* mark_ready at the end of a run is the first sight of a ready core, gives the
\* budget back, or leaves it alone.
LEMMA ReadyIsSeen ==
  ASSUME now \in Nat, PolicyGood, ObserveReady, by' = "none", pc' = "idle",
         now' = now, desired' \in BOOLEAN, Phase = "idle" => desired' = desired
  PROVE  BudgetStep
<1>1. recovery' = MarkReady(recovery, now)
  BY DEF ObserveReady, StoreRecovery, KeepRecovery
<1>2. /\ recovery \in PolicyState
      /\ recovery.count \in Nat /\ recovery.healthy \in Nat \cup {-1}
      /\ recovery.healthy <= now
  BY PolicyAssumption DEF PolicyGood, Good, PolicyState, Instant, None
<1>3. CASE Expired(recovery, now)
  BY <1>1, <1>3, LapsedIsExpired, IsForgiven DEF MarkReady
<1>4. CASE ~Expired(recovery, now) /\ recovery.count = 0
  <2>1. recovery' = recovery
    BY <1>1, <1>4 DEF MarkReady
  <2>2. QED
    BY <2>1, RunSettles DEF SameBudget, Phase
<1>5. CASE ~Expired(recovery, now) /\ recovery.count # 0 /\ recovery.healthy = None
  <2>1. recovery' = [recovery EXCEPT !.next = None, !.healthy = now]
    BY <1>1, <1>5 DEF MarkReady
  <2>2. /\ recovery'.count = recovery.count /\ recovery'.last = recovery.last
        /\ recovery'.healthy = now
    BY <1>2, <2>1 DEF PolicyState
  <2>3. Budget!SeenReady
    BY <1>2, <1>5, <2>2 DEF Budget!SeenReady, None
  <2>4. QED
    BY <2>3 DEF BudgetStep, Budget!Next
<1>6. CASE ~Expired(recovery, now) /\ recovery.count # 0 /\ recovery.healthy # None
  <2>1. CASE Elapsed(recovery.healthy, now) >= HealthyReset
    <3>1. Budget!Healthy
      BY <1>2, <1>6, <2>1 DEF Budget!Healthy, Elapsed, None
    <3>2. recovery' = Fresh
      BY <1>1, <1>6, <2>1 DEF MarkReady
    <3>3. QED
      BY <3>1, <3>2, IsForgiven
  <2>2. CASE ~(Elapsed(recovery.healthy, now) >= HealthyReset)
    <3>1. recovery' = [recovery EXCEPT !.next = None]
      BY <1>1, <1>6, <2>2 DEF MarkReady
    <3>2. SameBudget
      BY <1>2, <3>1 DEF SameBudget, PolicyState
    <3>3. QED
      BY <3>2, RunSettles DEF Phase
  <2>3. QED
    BY <2>1, <2>2
<1>7. QED
  BY <1>3, <1>4, <1>5, <1>6

\* An automatic start finds the budget open, and takes a lapsed one back.
LEMMA AttemptIsOpen ==
  ASSUME now \in Nat, PolicyGood, by \in {"monitor", "boot"}, pc = "nocore",
         desired = TRUE, desired' = desired, now' = now, by' = by, pc' = "start",
         \/ Expired(recovery, now) /\ recovery' = Fresh
         \/ ~Expired(recovery, now) /\ CanAttempt(recovery, now) /\ recovery' = recovery
  PROVE  BudgetStep
<1>1. Phase = "idle" /\ Phase' = "attempt"
  BY DEF Phase
<1>2. CASE Expired(recovery, now)
  <2>1. Budget!Lapsed
    BY <1>2, LapsedIsExpired
  <2>2. Budget!Attempt
    BY <1>1, <1>2, <2>1
    DEF Budget!Attempt, Budget!Open, Budget!Cleared, Fresh, None, Phase
  <2>3. QED
    BY <2>2 DEF BudgetStep, Budget!Next
<1>3. CASE ~Expired(recovery, now)
  <2>1. ~Budget!Lapsed
    BY <1>3, LapsedIsExpired
  <2>2. /\ recovery.suspended = FALSE
        /\ recovery.next = None \/ ~(recovery.next > now)
    <3>1. ~recovery.suspended /\ (recovery.next = None \/ ~(recovery.next > now))
      BY <1>3 DEF CanAttempt, Mode
    <3>2. QED
      BY <3>1 DEF PolicyGood, Good, PolicyState
  <2>3. /\ recovery.count \in 0 .. MaxFailures /\ recovery.count # MaxFailures
        /\ recovery.healthy \in Nat \cup {-1} /\ recovery.next \in Nat \cup {-1}
        /\ recovery.last \in Nat \cup {-1}
    BY <2>2 DEF PolicyGood, Good, Coherent, PolicyState, Instant, None
  <2>4. CASE recovery.count > 0 /\ recovery.healthy = -1
    <3>1. recovery.next = recovery.last + DelayAfter(recovery.count) /\ recovery.next # -1
      BY <2>2, <2>4 DEF PolicyGood, Good, Coherent, None
    <3>2. now >= recovery.last + Budget!Pause(recovery.count)
      BY <2>2, <2>3, <3>1 DEF Budget!Pause, DelayAfter, None
    <3>3. QED
      BY <1>1, <1>3, <2>1, <2>3, <3>2, PolicyAssumption
      DEF Budget!Attempt, Budget!Open, BudgetStep, Budget!Next, Budget!budget, Phase
  <2>5. CASE recovery.count = 0 \/ recovery.healthy # -1
    <3>1. Budget!Open
      BY <2>3, <2>5, PolicyAssumption DEF Budget!Open
    <3>2. Budget!Attempt
      BY <1>1, <1>3, <2>1, <3>1 DEF Budget!Attempt, Budget!budget, Phase
    <3>3. QED
      BY <3>2 DEF BudgetStep, Budget!Next
  <2>6. QED
    BY <2>3, <2>4, <2>5, PolicyAssumption
<1>4. QED
  BY <1>2, <1>3

\* from_persisted changes the policy only when the budget is due.
LEMMA FromPersistedForgives ==
  ASSUME now \in Nat, PolicyGood
  PROVE  \/ FromPersisted(recovery, now) = recovery
         \/ /\ FromPersisted(recovery, now) = Fresh
            /\ Budget!Lapsed \/ Budget!Healthy
<1> DEFINE s == recovery
<1>1. Good(s, now)
  BY DEF PolicyGood
<1>2. /\ s \in PolicyState /\ s.count \in 0 .. MaxFailures /\ MaxFailures \in Nat \ {0}
      /\ s.healthy \in Nat \cup {-1} /\ s.healthy <= now
      /\ s.last \in Nat \cup {-1} /\ s.last <= now
  BY <1>1, PolicyAssumption DEF Good, PolicyState, Instant, None
<1>3. FromPersisted(s, now) \in {s, Fresh}
  BY <1>1, NormalisedIsFresh
<1>4. CASE Expired(s, now)
  BY <1>3, <1>4, LapsedIsExpired
<1>5. CASE s.healthy # None /\ Elapsed(s.healthy, now) >= HealthyReset
  <2>1. Budget!Healthy
    BY <1>2, <1>5 DEF Budget!Healthy, Elapsed, None
  <2>2. QED
    BY <1>3, <2>1
<1>6. CASE s.count = 0
  <2>1. /\ s.suspended = FALSE /\ s.last = None /\ s.next = None /\ s.healthy = None
    BY <1>1, <1>2, <1>6 DEF Good, Coherent, PolicyState, None
  <2>2. s = Fresh
    BY <1>2, <1>6, <2>1 DEF Fresh, PolicyState
  <2>3. QED
    BY <1>3, <2>2
<1>7. CASE /\ ~Expired(s, now) /\ s.count # 0
           /\ ~(s.healthy # None /\ Elapsed(s.healthy, now) >= HealthyReset)
  <2>1. ~Implausible(s, now)
    BY <1>1, <1>2, <1>7 DEF Good, Coherent, Implausible
  <2>2. FromPersisted(s, now) # s => s.count = MaxFailures
    BY <1>7, <2>1 DEF FromPersisted
  <2>3. CASE s.count = MaxFailures
    <3>1. FromPersisted(s, now) = [s EXCEPT !.suspended = TRUE, !.next = None]
      BY <1>7, <2>1, <2>3 DEF FromPersisted
    <3>2. s.suspended = TRUE /\ s.next = None
      BY <1>1, <2>3 DEF Good, Coherent, PolicyState
    <3>3. QED
      BY <1>1, <3>1, <3>2 DEF Good, PolicyState
  <2>4. QED
    BY <2>2, <2>3
<1>8. QED
  BY <1>4, <1>5, <1>6, <1>7

LEMMA StepIsBudget ==
  ASSUME "disk" \notin Faults, now \in Nat, PolicyGood, Flags, Flags', Control,
         HolderAtWork, Saved, [Next]_vars
  PROVE  BudgetStep
<1> USE DEF HolderAtWork, Monitoring, service, files, process, control, history,
            Return, Goto, KeepRecovery
<1>a. WriteOutcome = {TRUE} /\ desired' \in BOOLEAN /\ desired \in BOOLEAN
  BY DEF WriteOutcome, Flags
<1> USE <1>a
<1>u. ASSUME now' = now, recovery' = recovery, desired' = desired, Phase' = Phase
      PROVE  BudgetStep
  BY <1>u, Unseen DEF SameBudget
<1>1. CASE UNCHANGED vars
  BY <1>1, <1>u DEF vars, Phase
<1>2. CASE Tick
  <2>1. Budget!Advance
    BY <1>2 DEF Tick, Budget!Advance, Budget!budget
  <2>2. QED
    BY <2>1 DEF BudgetStep, Budget!Next
<1>3. CASE Environment /\ ~Tick
  BY <1>3, <1>u DEF Environment, ChildExits, ExternalChanges, SessionChanges,
                    HealthChanges, Phase
<1>4. CASE StatusSteps
  BY <1>4, <1>u DEF StatusSteps, StatusReaps, StatusFlagsExit, Phase
<1>5. CASE MonitorBegins \/ MonitorProbes
  BY <1>5, <1>u DEF MonitorBegins, MonitorProbes, Phase
<1>6. CASE MonitorObserves
  BY <1>6, <1>u DEF MonitorObserves, Phase
<1>7. CASE MonitorJudges
  <2>1. Phase = "idle" /\ now' = now /\ desired' = desired
    BY <1>7 DEF MonitorJudges, Phase
  <2>2. CASE ObserveReady /\ Return
    BY <2>1, <2>2, ReadyIsSeen
  <2>3. CASE recovery' = recovery /\ (Return \/ (pc' = "kill" /\ by' = by))
    <3>1. Phase' = "idle"
      BY <1>7, <2>3 DEF Phase, MonitorJudges
    <3>2. QED
      BY <2>1, <2>3, <3>1, <1>u
  <2>4. QED
    BY <1>7, <2>2, <2>3 DEF MonitorJudges
<1>8. CASE MonitorKills
  BY <1>8, <1>u DEF MonitorKills, Phase
<1>9. CASE MonitorCharges
  <2>1. Phase = "idle" /\ now' = now /\ desired' = desired /\ Return
    BY <1>9 DEF MonitorCharges, Phase
  <2>2. CASE ChargeFailure
    BY <2>1, <2>2, FailureIsCharge
  <2>3. CASE recovery' = recovery
    BY <2>1, <2>3, RunSettles DEF SameBudget, Phase
  <2>4. QED
    BY <1>9, <2>2, <2>3 DEF MonitorCharges
<1>10. CASE MonitorFindsNoCore
  <2>1. /\ by \in {"monitor", "boot"} /\ pc = "nocore" /\ Phase = "idle"
        /\ now' = now /\ desired' = desired
    BY <1>10 DEF MonitorFindsNoCore, Phase
  <2>2. desired = TRUE
    BY <2>1 DEF Saved
  <2>3. CASE Expired(recovery, now) /\ recovery' = Fresh /\ pc' = "start" /\ by' = by
    BY <2>1, <2>2, <2>3, AttemptIsOpen
  <2>4. CASE /\ ~Expired(recovery, now) /\ CanAttempt(recovery, now)
             /\ recovery' = recovery /\ pc' = "start" /\ by' = by
    BY <2>1, <2>2, <2>4, AttemptIsOpen
  <2>5. CASE Return /\ recovery' = recovery
    BY <2>1, <2>5, RunSettles DEF SameBudget, Phase
  <2>6. QED
    BY <1>10, <2>3, <2>4, <2>5 DEF MonitorFindsNoCore, StoreRecovery
<1>11. CASE StartChecksChild
  <2>1. pc = "start" /\ now' = now /\ desired' = TRUE /\ Phase # "idle"
    BY <1>11 DEF StartChecksChild, Phase
  <2>2. CASE StartFails
    BY <2>1, <2>2, FailureIsCharge DEF StartFails
  <2>3. CASE StartSucceeds
    BY <2>1, <2>3, ReadyIsSeen DEF StartSucceeds
  <2>4. CASE Goto("prepare", "-") /\ recovery' = recovery
    <3>1. CASE Phase = "operator"
      <4>1. Budget!CommandProceeds
        BY <2>1, <2>4, <3>1 DEF Budget!CommandProceeds, Budget!budget, Phase
      <4>2. QED
        BY <4>1 DEF BudgetStep, Budget!Next
    <3>2. CASE Phase # "operator"
      <4>1. Phase = "attempt" /\ Phase' = "attempt"
        BY <2>1, <2>4, <3>2 DEF Phase, Control, Callers
      <4>2. by \in {"monitor", "boot"}
        BY <2>1, <3>2 DEF Phase, Control, Callers
      <4>3. desired' = TRUE /\ desired = TRUE
        BY <2>1, <4>2 DEF Saved
      <4>4. QED
        BY <2>1, <2>4, <4>1, <4>3, <1>u
    <3>3. QED
      BY <3>1, <3>2
  <2>5. QED
    BY <1>11, <2>2, <2>3, <2>4 DEF StartChecksChild
<1>12. CASE StartPrepares
  <2>1. pc = "prepare" /\ now' = now /\ Phase # "idle"
    BY <1>12 DEF StartPrepares, Phase
  <2>2. CASE StartFails
    BY <2>1, <2>2, FailureIsCharge DEF StartFails
  <2>3. CASE StartSucceeds
    BY <2>1, <2>3, ReadyIsSeen DEF StartSucceeds
  <2>4. CASE Goto("spawn", "-") /\ recovery' = recovery /\ desired' = desired
    <3>1. Phase' = Phase
      BY <2>1, <2>4 DEF Phase
    <3>2. QED
      BY <2>1, <2>4, <3>1, <1>u
  <2>5. CASE external
    BY <1>12, <2>3, <2>5 DEF StartPrepares
  <2>6. CASE ~external
    <3>1. PICK ok \in CleanupOutcome, valid \in BOOLEAN :
            IF ok /\ valid THEN Goto("spawn", "-") /\ KeepRecovery ELSE StartFails
      BY <1>12, <2>6 DEF StartPrepares
    <3>2. desired' = desired
      BY <1>12, <2>6 DEF StartPrepares
    <3>3. QED
      BY <2>2, <2>4, <3>1, <3>2
  <2>7. QED
    BY <2>5, <2>6
<1>13. CASE StartSpawns
  <2>1. pc = "spawn" /\ now' = now /\ desired' = desired
    BY <1>13 DEF StartSpawns
  <2>2. CASE StartFails
    BY <2>1, <2>2, FailureIsCharge DEF StartFails
  <2>3. CASE Goto("wait", "-") /\ recovery' = recovery
    <3>1. Phase' = Phase
      BY <2>1, <2>3 DEF Phase
    <3>2. QED
      BY <2>1, <2>3, <3>1, <1>u
  <2>4. QED
    BY <1>13, <2>2, <2>3 DEF StartSpawns
<1>14. CASE StartWaits
  <2>1. pc = "wait" /\ now' = now /\ desired' = desired /\ Phase # "idle"
    BY <1>14 DEF StartWaits, Phase
  <2>2. CASE StartFails
    BY <2>1, <2>2, FailureIsCharge DEF StartFails
  <2>3. CASE StartSucceeds
    BY <2>1, <2>3, ReadyIsSeen DEF StartSucceeds
  <2>4. CASE pc' = "spawn" /\ by' = by /\ recovery' = recovery
    <3>1. Phase' = Phase
      BY <2>1, <2>4 DEF Phase
    <3>2. QED
      BY <2>1, <2>4, <3>1, <1>u
  <2>5. QED
    BY <1>14, <2>2, <2>3, <2>4 DEF StartWaits, CandidateRejected
<1>15. CASE StartCommand \/ StopCommand
  <2>1. by = "none" /\ now' = now /\ recovery' = Fresh
    BY <1>15 DEF StartCommand, StopCommand, ResetBeforeCommand
  <2>2. by' \in {"start", "stop"} \/ ((Dead => FALSE \notin WriteOutcome) => FALSE)
    BY <1>15 DEF StartCommand, StopCommand
  <2>3. Budget!Command
    BY <2>1, <2>2 DEF Budget!Command, Budget!Cleared, Fresh, None, Phase
  <2>4. QED
    BY <2>3 DEF BudgetStep, Budget!Next
<1>16. CASE StopFinishes
  <2>1. recovery' = recovery /\ now' = now /\ desired' = desired /\ Return
    BY <1>16 DEF StopFinishes
  <2>2. QED
    BY <2>1, RunSettles DEF SameBudget, Phase
<1>17. CASE ServiceCrashes \/ ServiceStops
  <2>1. recovery' = recovery /\ now' = now /\ desired' = desired /\ Return
    BY <1>17 DEF ServiceCrashes, ServiceStops, Forget, Saved
  <2>2. QED
    BY <2>1, RunSettles DEF SameBudget, Phase
<1>18. CASE ServiceBoots
  <2>1. recovery' = FromPersisted(recovery, now) /\ Good(recovery, now)
    BY <1>18 DEF ServiceBoots, Saved, PolicyGood
  <2>2. now' = now /\ desired' = desired /\ by' = "boot" /\ pc' = "begin"
    BY <1>18 DEF ServiceBoots
  <2>3. Phase' = "idle"
    BY <2>2 DEF Phase
  <2>4. CASE recovery' = recovery
    BY <2>2, <2>3, <2>4, RunSettles DEF SameBudget
  <2>5. CASE recovery' = Fresh /\ (Budget!Lapsed \/ Budget!Healthy)
    BY <2>2, <2>5, IsForgiven
  <2>6. QED
    BY <2>1, <2>4, <2>5, FromPersistedForgives
<1>19. CASE BootEnsuresCore
  <2>1. now' = now /\ by = "boot" /\ pc = "begin" /\ Phase = "idle"
    BY <1>19 DEF BootEnsuresCore, Phase
  <2>2. CASE ~desired
    <3>1. recovery' = recovery /\ desired' = desired /\ Return
      BY <1>19, <2>2 DEF BootEnsuresCore
    <3>2. QED
      BY <2>1, <3>1, RunSettles DEF SameBudget, Phase
  <2>3. CASE desired /\ external
    <3>1. recovery' = Fresh /\ desired' = FALSE /\ Return
      BY <1>19, <2>3 DEF BootEnsuresCore, StoreRecovery
    <3>2. QED
      BY <2>1, <3>1, IsForgiven
  <2>4. CASE desired /\ ~external
    <3>1. recovery' = recovery /\ desired' = desired /\ by' = by /\ pc' = "observe"
      BY <1>19, <2>4 DEF BootEnsuresCore
    <3>2. QED
      BY <2>1, <3>1, <1>u DEF Phase
  <2>5. QED
    BY <2>2, <2>3, <2>4
<1>20. QED
  BY <1>1, <1>2, <1>3, <1>4, <1>5, <1>6, <1>7, <1>8, <1>9, <1>10,
     <1>11, <1>12, <1>13, <1>14, <1>15, <1>16, <1>17, <1>18, <1>19
  DEF Next, HolderSteps, MonitorSteps, StartSteps, Environment

\* As long as its state files can be written the service keeps the promise of
\* RetryBudget: it starts Mihomo on its own only on an open budget after the
\* back-off, charges every failure, and gives the budget back only after the
\* failure window, a healthy period, a command, or when the core is no longer
\* wanted, in every interleaving with crashes, polls and other Mihomos.
THEOREM RecoveryKeepsBudget ==
  ASSUME "disk" \notin Faults
  PROVE  Spec => BudgetSpec
<1> DEFINE Inv == /\ PolicyGood /\ Flags /\ Ids /\ Control /\ Times
                  /\ StopInv /\ Saved
<1>1. Init => Inv /\ Budget!Init
  <2>1. Init => Budget!Init
    BY DEF Init, Budget!Init, Fresh, None
  <2>2. QED
    BY <2>1, InitIsGood, TypesInit, StopInit, SavedInit
<1>2. Inv /\ [Next]_vars => Inv' /\ BudgetStep
  <2> SUFFICES ASSUME Inv, [Next]_vars PROVE Inv' /\ BudgetStep
    OBVIOUS
  <2>1. now \in Nat /\ HolderAtWork
    BY CoreAssumption DEF Times, StopInv
  <2>2. Inv'
    BY <2>1, PolicyInductive, FlagsInductive, IdsInductive, ControlInductive,
       TimesInductive, StopInductive, SavedInductive
  <2>3. BudgetStep
    BY <2>1, <2>2, StepIsBudget
  <2>4. QED
    BY <2>2, <2>3
<1> HIDE DEF Inv
<1>3. QED
  BY <1>1, <1>2, PTL DEF Spec, BudgetSpec, Budget!Spec, BudgetStep
=============================================================================
