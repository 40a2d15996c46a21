-------------------------- MODULE CoreUpdateProofs --------------------------
(* That the update of the core executable is an atomic replacement, for      *)
(* every set of builds, every length of the queue and every set of faults.   *)
EXTENDS CoreUpdate, TLAPS

\* A core the service does not own answers with its own version, and the health
\* check of core_install cannot tell it from the release.  The promise holds
\* where that version is none that a release brings.
ForeignIsOld == Foreign \notin Builds \ {First}

-----------------------------------------------------------------------------
(* The inductive invariant.                                                  *)

\* What the files can hold.
Kept ==
    /\ exe \in MaybeBuild /\ backup \in MaybeBuild
    /\ repl \in MaybeBuild /\ staged \in MaybeBuild
    /\ job \in Jobs /\ First \in proven /\ proven \subseteq Builds

\* There is always an executable to start the core from or to go back to.
Survives == exe # None \/ backup # None

\* The release travels from the staging directory to its place.
Carried ==
    /\ pc \notin {"idle", "check"} => job.rel \in Builds
    /\ pc \in {"verify", "prepare", "halt", "clear", "copy"} => staged = job.rel
    /\ pc \in {"keep", "swap"} => repl = job.rel
    /\ pc \in {"start", "version", "tun", "finalize"} => exe = job.rel

\* The backup is there exactly while the new build is on probation.
Guarded ==
    /\ pc \in {"copy", "keep", "cleanup"} => backup = None
    /\ pc = "keep" => job.had
    /\ pc \in {"swap", "start", "version", "tun", "finalize", "undo", "unlink", "restore"}
         => job.had /\ backup # None

\* A build is confirmed after it has answered.
Confirmed ==
    /\ pc \in {"tun", "finalize", "cleanup"} => exe \in proven
    /\ phase = "completed" => pc = "idle" /\ backup = None /\ exe \in proven
    /\ ~up => pc = "idle" /\ phase = "idle"

Inv == Kept /\ Survives /\ Carried /\ Guarded /\ Confirmed

-----------------------------------------------------------------------------
(* The steps.                                                                *)

\* The steps that touch neither the files nor where core_install is.
Aside ==
    \/ CooldownEnds \/ Command \/ MonitorStart \/ CoreExits \/ ForeignCore
    \/ Boot \/ GuiInstall \/ GuiEnds \/ GuiProxy

\* The steps of core_install that leave the executables alone.
Onwards ==
    \/ ValidateConfig \/ Prepare \/ Halt \/ StartNew \/ RestoreTun
    \/ StopFailed \/ Restart \/ RestoreOldTun

\* The steps on the executables.
Moves ==
    \/ ClearReplacement \/ CopyReplacement \/ KeepOriginal \/ SwapIn \/ Finalize \/ Cleanup
    \/ Unlink \/ Restore

LEMMA Disjuncts ==
  Next => \/ Aside \/ CoreCheck \/ Take \/ FindRelease \/ Download \/ Onwards \/ Moves
          \/ CheckVersion \/ Crash \/ BootUnlink \/ BootRestore
BY DEF Next, InstallStep, Aside, Onwards, Moves

LEMMA AsideKeeps == Aside => UNCHANGED <<files, phase, pc, job, proven>> /\ (up => up')
<1>1. CASE CooldownEnds \/ ForeignCore \/ CoreExits \/ MonitorStart
  BY <1>1 DEF CooldownEnds, ForeignCore, CoreExits, MonitorStart
<1>2. CASE Command \/ Boot
  BY <1>2 DEF Command, Boot
<1>3. CASE GuiInstall \/ GuiEnds \/ GuiProxy
  BY <1>3 DEF GuiInstall, GuiEnds, GuiProxy
<1>4. QED
  BY <1>1, <1>2, <1>3 DEF Aside

\* Where they go on when they do not fail.
NextPoint ==
    \/ pc = "verify" /\ pc' = "prepare"
    \/ pc = "prepare" /\ pc' = "halt"
    \/ pc = "halt" /\ pc' = "clear"
    \/ pc = "start" /\ pc' \in {"version", "undo"}
    \/ pc = "tun" /\ pc' \in {"finalize", "undo"}
    \/ pc = "undo" /\ pc' = "unlink"
    \/ pc = "restart" /\ pc' = "retun"

\* A failure returns to where nothing is promised; otherwise the next point has
\* the same files behind it.
LEMMA OnwardsGoes ==
  Onwards => /\ UNCHANGED <<files, up, proven>>
             /\ \/ pc' = "idle" /\ job' = NoJob /\ phase' = "error"
                \/ /\ NextPoint
                   /\ \/ job' = job
                      \/ job' = [job EXCEPT !.was = child # None, !.tunWas = tun = "running"]
                   /\ phase' = phase \/ phase' = "installing"
<1> USE DEF Go, Fail, Unhealthy, NextPoint
<1>1. CASE ValidateConfig \/ Halt
  BY <1>1 DEF ValidateConfig, Halt
<1>2. CASE Prepare
  BY <1>2 DEF Prepare
<1>3. CASE StartNew \/ RestoreTun
  BY <1>3 DEF StartNew, RestoreTun
<1>4. CASE StopFailed \/ Restart \/ RestoreOldTun
  BY <1>4 DEF StopFailed, Restart, RestoreOldTun
<1>5. QED
  BY <1>1, <1>2, <1>3, <1>4 DEF Onwards

\* A build is a version, and no version is None.
LEMMA NoneIsNoBuild == None \notin Builds /\ First \in Builds
BY UpdateAssumption DEF None

LEMMA NoJobIsAJob == NoJob \in Jobs
BY DEF NoJob, Jobs, MaybeBuild

LEMMA OnwardsInv == Inv /\ Onwards => Inv'
<1> SUFFICES ASSUME Inv, Onwards PROVE Inv'
  OBVIOUS
<1> USE DEF Kept, Survives, Carried, Guarded, Confirmed
<1>1. UNCHANGED <<exe, backup, repl, staged, up, proven>> /\ pc # "idle"
  <2>1. UNCHANGED files /\ UNCHANGED <<up, proven>>
    BY OnwardsGoes
  <2>2. pc # "idle"
    BY DEF Onwards, ValidateConfig, Prepare, Halt, StartNew, RestoreTun, StopFailed, Restart,
       RestoreOldTun
  <2>3. QED
    BY <2>1, <2>2 DEF files
<1>2. CASE pc' = "idle" /\ job' = NoJob /\ phase' = "error"
  BY <1>1, <1>2, NoJobIsAJob DEF Inv
<1>3. CASE /\ pc' # "idle" /\ (phase' = phase \/ phase' = "installing")
           /\ \/ job' = job
              \/ job' = [job EXCEPT !.was = child # None, !.tunWas = tun = "running"]
  <2>1. job' \in Jobs /\ job'.rel = job.rel /\ job'.had = job.had
    <3>1. CASE job' = job
      BY <3>1 DEF Inv
    <3>2. CASE job' = [job EXCEPT !.was = child # None, !.tunWas = tun = "running"]
      BY <3>2 DEF Inv, Jobs
    <3>3. QED
      BY <1>3, <3>1, <3>2
  <2>2. NextPoint
    BY <1>3, OnwardsGoes
  <2>3. QED
    BY <1>1, <1>3, <2>1, <2>2 DEF Inv, NextPoint
<1>4. QED
  BY <1>2, <1>3, OnwardsGoes DEF NextPoint

LEMMA MovesInv == Inv /\ Moves => Inv'
<1> SUFFICES ASSUME Inv, Moves PROVE Inv'
  OBVIOUS
<1> USE NoJobIsAJob, NoneIsNoBuild
    DEF Inv, Kept, Survives, Carried, Guarded, Confirmed, Go, Fail, MaybeBuild
<1>1. CASE ClearReplacement
  BY <1>1 DEF ClearReplacement
<1>2. CASE CopyReplacement
  <2>1. /\ [job EXCEPT !.had = exe # None] \in Jobs
        /\ [job EXCEPT !.had = exe # None].rel = job.rel
        /\ [job EXCEPT !.had = exe # None].had = (exe # None)
    BY DEF Jobs
  <2>2. QED
    BY <1>2, <2>1 DEF CopyReplacement
<1>3. CASE KeepOriginal
  BY <1>3 DEF KeepOriginal
<1>4. CASE SwapIn
  BY <1>4 DEF SwapIn
<1>5. CASE Finalize \/ Cleanup
  BY <1>5 DEF Finalize, Cleanup
<1>6. CASE Unlink \/ Restore
  BY <1>6 DEF Unlink, Restore
<1>7. QED
  BY <1>1, <1>2, <1>3, <1>4, <1>5, <1>6 DEF Moves

\* The core that passed is the one in place, or its version is an old one.
LEMMA Passed ==
  ASSUME ForeignIsOld, Inv, CheckVersion
  PROVE  /\ UNCHANGED <<files, up, job, phase>>
         /\ pc = "version"
         /\ proven' = proven \/ proven' = proven \cup {job.rel}
         /\ \/ pc' = "undo" /\ proven' = proven
            \/ pc' = "tun" /\ job.rel \in proven'
<1>1. job.rel \in Builds /\ First \in proven
  BY DEF Inv, Carried, Kept, CheckVersion
<1>2. foreign /\ Running = job.rel => job.rel = First
  BY <1>1 DEF ForeignIsOld, Running
<1>3. ~foreign /\ Running = job.rel => child = job.rel
  BY DEF Running
<1>4. QED
  BY <1>1, <1>2, <1>3 DEF CheckVersion, Unhealthy, Go

LEMMA Inductive == ForeignIsOld /\ Inv /\ [Next]_vars => Inv'
<1> SUFFICES ASSUME ForeignIsOld, Inv, [Next]_vars PROVE Inv'
  OBVIOUS
<1> USE DEF Inv, Kept, Survives, Carried, Guarded, Confirmed, files
<1>1. CASE UNCHANGED vars
  BY <1>1 DEF vars
<1>2. CASE Aside
  BY <1>2, AsideKeeps
<1>3. CASE CoreCheck
  BY <1>3 DEF CoreCheck
<1>4. CASE Take
  BY <1>4 DEF Take, Go
<1>5. CASE FindRelease
  <2>1. /\ pc = "check" /\ UNCHANGED <<exe, backup, repl, staged, up, proven>>
        /\ phase' \in {"error", "idle", "downloading"}
        /\ \/ pc' = "idle" /\ job' \in {NoJob, job}
           \/ /\ pc' = "download"
              /\ \E rel \in Builds : job' = [NoJob EXCEPT !.rel = rel]
    BY <1>5 DEF FindRelease, Go, Fail, MaybeBuild
  <2>2. \A rel \in Builds : /\ [NoJob EXCEPT !.rel = rel] \in Jobs
                            /\ [NoJob EXCEPT !.rel = rel].rel = rel
    BY DEF NoJob, Jobs, MaybeBuild
  <2>3. QED
    BY <2>1, <2>2, NoJobIsAJob
<1>6. CASE Download
  <2>1. staged' \in {staged, job.rel} /\ job.rel \in Builds
    BY <1>6 DEF Download
  <2>2. QED
    BY <1>6, <2>1, NoJobIsAJob DEF Download, Go, Fail, MaybeBuild
<1>7. CASE Onwards
  BY <1>7, OnwardsInv
<1>8. CASE Moves
  BY <1>8, MovesInv
<1>9. CASE CheckVersion
  BY <1>9, Passed
<1>10. CASE Crash
  BY <1>10, NoJobIsAJob DEF Crash
<1>11. CASE BootUnlink \/ BootRestore
  BY <1>11 DEF BootUnlink, BootRestore, MaybeBuild
<1>12. QED
  BY <1>1, <1>2, <1>3, <1>4, <1>5, <1>6, <1>7, <1>8, <1>9, <1>10, <1>11, Disjuncts

LEMMA InitIsInv == Init => Inv
BY NoneIsNoBuild, NoJobIsAJob
   DEF Init, Inv, Kept, Survives, Carried, Guarded, Confirmed, MaybeBuild

LEMMA Invariance == ASSUME ForeignIsOld PROVE Spec => []Inv
<1>1. Inv /\ [Next]_vars => Inv'
  BY Inductive
<1>2. QED
  BY <1>1, InitIsInv, PTL DEF Spec

-----------------------------------------------------------------------------
(* The theorems.                                                             *)

\* The phase "completed" is never shown while a boot would still undo the
\* update, and the executable in place has then run and answered.
THEOREM CompletionIsFinal == ASSUME ForeignIsOld PROVE Spec => []CompletedMeansCommitted
<1>1. Inv => CompletedMeansCommitted
  BY DEF Inv, Confirmed, CompletedMeansCommitted
<1>2. Spec => []Inv
  BY Invariance
<1>3. QED
  BY <1>1, <1>2, PTL

\* One step of the update is at most one step of the replacement: only the
\* removal of the backup by finalize_core commits.
LEMMA StepIsSwap ==
  ForeignIsOld /\ Inv /\ [Next]_vars => [Swap!Next]_<<Installed, proven>>
<1> SUFFICES ASSUME ForeignIsOld, Inv, [Next]_vars
             PROVE  Swap!Next \/ UNCHANGED <<Installed, proven>>
  BY DEF Inv
<1> USE DEF Inv, Kept, Survives, Carried, Guarded, Confirmed, files, Installed, Go, Fail
<1>1. CASE UNCHANGED vars
  BY <1>1 DEF vars
<1>2. CASE Aside \/ CoreCheck \/ Take \/ FindRelease \/ Download \/ Crash
  BY <1>2, AsideKeeps DEF CoreCheck, Take, FindRelease, Download, Crash
<1>3. CASE Onwards
  BY <1>3, OnwardsGoes
<1>4. CASE ClearReplacement \/ CopyReplacement \/ KeepOriginal \/ SwapIn
  BY <1>4 DEF ClearReplacement, CopyReplacement, KeepOriginal, SwapIn
<1>5. CASE Finalize
  <2>1. CASE UNCHANGED <<exe, backup, proven>>
    BY <2>1
  <2>2. CASE Installed' = exe /\ proven' = proven
    <3>1. exe \in Builds /\ Swap!Commit(exe)
      BY <1>5, <2>2 DEF Finalize, Swap!Commit
    <3>2. QED
      BY <3>1 DEF Swap!Next
  <2>3. QED
    BY <1>5, <2>1, <2>2 DEF Finalize
<1>6. CASE Cleanup \/ Unlink \/ Restore
  BY <1>6 DEF Cleanup, Unlink, Restore
<1>7. CASE CheckVersion
  <2>1. UNCHANGED Installed /\ job.rel \in Builds
    BY <1>7, Passed
  <2>2. CASE proven' = proven
    BY <2>1, <2>2
  <2>3. CASE proven' = proven \cup {job.rel}
    BY <2>1, <2>3 DEF Swap!Next, Swap!Prove
  <2>4. QED
    BY <1>7, <2>2, <2>3, Passed
<1>8. CASE BootUnlink \/ BootRestore
  BY <1>8 DEF BootUnlink, BootRestore
<1>9. QED
  BY <1>1, <1>2, <1>3, <1>4, <1>5, <1>6, <1>7, <1>8, Disjuncts DEF Moves

\* replace_core, rollback_core, finalize_core and the recovery at boot together
\* are the one-step replacement of CoreSwap, whatever fails or crashes.
THEOREM UpdateIsASwap == ASSUME ForeignIsOld PROVE Spec => SwapImplemented
<1>1. Init => Swap!Init
  BY DEF Init, Swap!Init, Installed
<1>2. Inv /\ [Next]_vars => [Swap!Next]_<<Installed, proven>>
  BY StepIsSwap
<1>3. Spec => []Inv
  BY Invariance
<1>4. QED
  BY <1>1, <1>2, <1>3, PTL DEF Spec, SwapImplemented, Swap!Spec
=============================================================================
