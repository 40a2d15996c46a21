# MioProxy: models, model checking and proofs

MioProxy is a Windows proxy client: a React interface in a Tauri process (the
*GUI*), a Windows service that runs with administrator rights (the *service*), and
Mihomo (the *core*), the proxy engine both of them talk to over an HTTP controller.
This directory holds TLA+ modules of the parts in which concurrency, crashes and
half-finished operations decide whether the user's machine is left in order. Paths
below are relative to `src/src-tauri/src/` unless they say otherwise.

## 1. Inventory

### Components, their state and their operations

| Component | State | Operations | Where | Module |
|---|---|---|---|---|
| Core recovery in the service | `child`, owner file, `desired_core_running` and its file, `core_recovery` and its file, `controller_grace`, `core_exit_pending`, `core_transition` | `start`, `stop`, `status`, `shutdown`, monitor round, boot | `service.rs` | `CoreRecovery` |
| TUN transactions in the service | TUN override, stable configuration, session file, `ServiceTunState`, `pending_tun_profile`, `tun_transition` | `enable_tun`, `rollback_tun`, `disable_tun_inner`, `apply_profile`, `recover`, monitor restore | `service.rs`, `config.rs` | `ServiceTun` |
| TUN reconciliation in the GUI | `TunState.intent`, generation, `reconcile_in_flight`, `TRANSITION_LOCK`, `TunReconciler` | `tun_set_enabled`, `request_tun`, retry task, `tun_status` | `tun.rs`, `reconciliation.rs` | `TunIntent` |
| System proxy | registry values, snapshot file and copy, `TRANSITION_LOCK` | `set_enabled`, `restore_for_lifecycle`, `recover_stale_state`, update operations | `system_proxy.rs` | `SystemProxy`, `AppUpdate` |
| Core update in the service | executable, backup, replacement, staged file, phase | `core_check`, `core_install`, `replace_core`, `rollback_core`, `finalize_core`, `recover_orphaned_backup` | `core_update.rs`, `service.rs` | `CoreUpdate` |
| Application update | recovery checkpoint, `updating`, update snapshot | `update_prepare`, `before_updater_exit`, `update_mark_failed`, `recover_after_startup` | `update.rs`, `src/src/App.tsx` | `AppUpdate` |
| GUI core controller, and the TUN session the GUI owns | child marker, `CORE_LIFECYCLE_LOCK`, `tun-state.json`, `TunRuntime` | `mihomo_start`, `mihomo_stop`, `Terminated` handlers, `enable_tun`, `disable_tun`, exit and start-up restore | `mihomo/controller.rs`, `tun.rs` | `GuiSession` |
| Profile registry | `profiles.json`, profile files, registry lock | import, download, refresh, select, remove | `profiles.rs` | `ProfileStore` |
| Runtime configuration commit | base, stable and active-profile files; profile, Local Override, Runtime Override; mixed port | candidate, load, verification, three-file commit and its restore; merging of the layers; port selection | `config.rs`, `outbound.rs` | `ProfileStore`, `RuntimeLayers` |
| Geodata | data files of the core | presence before an apply or a start | `geodata.rs` | `ProfileStore` (partly) |
| Installer and service executable | SCM record, two executables, backup of the core, shutdown channel | NSIS hooks, `--install`, `--uninstall`, service main, failure actions | `windows/hooks.nsh`, `bin/mioproxy-service.rs` | `ServiceInstall` |
| Service IPC | one pipe instance, token, `REQUEST_LOCK` | request with timeouts, serial server | `service.rs` | in the modules of its users (partly) |
| Exit handling and start-up | mutation gate | order of recovery at start, restore on exit | `lib.rs`, `startup.rs` | in the modules of what is restored (partly) |
| Streams, tray, frontend display, scripts, signature tool | display state | reconnecting streams, forwarding, packaging | `mihomo/*.rs`, `tray.rs`, ... | not modelled |

### How they interact

- The GUI reaches the service over one named pipe. `REQUEST_LOCK` admits one request
  of the GUI at a time, the service serves one at a time, and a request whose client
  has given up is carried out all the same.
- Inside the service the client handler and the monitor share the state above.
  `core_transition` orders starts, stops and monitor rounds; `tun_transition` orders
  TUN routines and is taken second. The monitor kills a failed core without
  `tun_transition`; Status polls reap dead children without either.
- The core reads its configuration file when it is started and on reload, so what it
  has loaded, what the file says and what the TUN override says can differ.
- The system proxy points Windows at the core's port. Its snapshot names the process
  that listened there; the exit handlers of the core, status polls, the GUI's exit and
  the next start of the GUI all try to restore it.
- Updates and the installer stop, replace and restart what the others use, and know of
  it only what they have read before.
- All of it can be cut off at any instant: service crash, GUI crash, core crash, a
  write that is refused, another program with a TUN, a proxy or a Mihomo of its own.

### What is hard, and what correctness means

- **Core recovery.** Reaping by three callers, readings used after an await, a retry
  budget that must survive restarts. Correct: restarts are bounded, the service's own
  deaths apart, a grace period is
  charged to the process it was granted to, a Stop is respected, locks are returned.
- **TUN transactions.** Four places to change, any of which may refuse, and a crash
  between any two. Correct: whatever enables TUN on disk can be undone from the session
  file, the status shown is the status had, a start does not begin with a stale session.
- **TUN reconciliation.** Late answers, late mutations, a newer wish during a retry.
  Correct: only the last wish is carried out, it is not dropped early and does not stay
  for ever.
- **System proxy.** Values are written one at a time next to other writers. Correct: the
  settings to go back to are on disk while Windows points at MioProxy, other programs'
  settings are kept, a dead endpoint is cleared.
- **Core update.** A crash between any two file operations, and a monitor that may start
  whatever executable is there. Correct: it is an atomic replacement.
- **Application update.** A checkpointed transaction over five resources, in two
  processes and two versions. Correct: the installer is alone, and what ran is back.
- **GUI core.** Two locks taken in different places and a marker that outlives the
  process. Correct: every sidecar can be stopped, every exit is handled, TUN is not shown
  as off while a sidecar has it.
- **Profiles.** Downloads without the lock that commit with it, applies that outlive the
  request. Correct: registry and files match, the newest download wins, an apply is all
  or nothing.
- **Configuration layers.** One document made from five sources and fed back in part.
  Correct: the port reported is the port in use, a layer leaves nothing behind.
- **Installation.** Two copies, a service that replaces one of them itself, an SCM that
  restarts what crashes, a history the installer only partly sees. Correct: no mixture of
  releases runs, the service is left as its user left it, a stop is honoured.

`PROJECT.json` lists the components with their status and every hazard at its line.

## 2. Modules

| Module | What it is |
|---|---|
| `RecoveryPolicy` | `CoreRecoveryState` as pure operators: delays, window, suspension, healthy reset, reading a persisted state |
| `CoreRecovery` | the service's core supervision; uses `RecoveryPolicy` |
| `RetryBudget` | abstract: attempts against a budget; `CoreRecovery` implements it |
| `ServiceTun` | the service's TUN session as a transaction |
| `TunIntent` | the GUI's TUN wishes over the pipe; `ServiceTun` seen from outside |
| `SystemProxy` | the system proxy in the registry |
| `CoreUpdate` | the update of the core, file by file |
| `CoreSwap` | abstract: a replacement in one step; `CoreUpdate` implements it |
| `AppUpdate` | the update of MioProxy itself |
| `GuiSession` | the GUI without a service: its sidecar and its TUN session |
| `ProfileStore` | subscriptions, the registry, and the apply of a profile |
| `RuntimeLayers` | what a runtime configuration is made of |
| `ServiceInstall` | installer, helper and the service under the SCM |
| `*Proofs` | the theorems of section 5 |
| `MC*` | instances for TLC: symmetry, small constants |

In every module a mutated definition stands before the one it is a mutant of, marked
`Mutant:`; no specification uses it, it shows which mistake a property would find.
`Faults` selects what the environment may do; each module lists the kinds. `GuiSession` and
`ServiceInstall` have the conventional names with a prefix (`GuiInit`, `InstallNext`,
`installVars`), because a proof module extends each of them beside another component.

### CoreRecovery

State: the child (its process and its health), the owner and the desired state with
their files, the policy in memory and on disk, the grace period, `core_exit_pending`,
`core_transition`, the program counters of the client handler and of the monitor, a
clock. `StartChecksChild` ... `StartWaits` are `start_inner` between its awaits;
`MonitorObserves`, `MonitorProbes`, `MonitorJudges`, `MonitorKills`, `MonitorCharges` and
`MonitorFindsNoCore` are `monitor_core_once_locked`; `StopCommand`, `StopFinishes`,
`StatusReaps`, `StatusFlagsExit`, `ServiceStops`, `ServiceBoots` and `BootEnsuresCore` are
the rest. Abstracted: logging, and TUN, whose clean-up succeeds or fails.

### ServiceTun

State: whether the override, the stable file and the loaded configuration enable TUN;
whether there is an active profile; the profile in the session file; `ServiceTunState`;
`pending_tun_profile`; both locks with the point of the routine under `tun_transition`;
where the client handler and the monitor are. An action is the code between two awaits
or two writes that a fault can separate, with each early return. A start goes through its
candidates one by one (`CorePrepares`, `CandidateSpawns`, `CandidateJudged`): while one is
tried, a TUN command may use it, and the next one loads the stable file as it is then.
`slipped` is a history variable: a core hung or came up with TUN, or a listing of listeners
failed inside a routine; two properties excuse what follows from that, and `AlwaysEnds` and
`AlwaysUndone` are the same without the excuse. Abstracted: sessions of older versions are
folded into the restore; `apply_active_runtime` is one step with the set of its outcomes;
the monitor's judgement is a choice (`CoreRecovery` has it).

### TunIntent

State: the service's TUN status and pending restore as the GUI can see them, the pipe,
the intent with its generation, the flag and the two locks, the locals of `request_tun`
with the reconciler's fields. A command comes at any moment (`UserAsks`) and waits for
`TRANSITION_LOCK`; the intent is set when it gets it (`Command`), so that the loop which
holds the lock goes on with the older wish. `wishes` has all that was asked, the first `gen`
have had the lock. `Observe` and `Record` are `TunReconciler::observe` and
`record_mutation`; `Learn` is `apply_intent_to_snapshot`; `ServesSet` and `MonitorMoves` are
the outcomes `ServiceTun` allows. Abstracted: a switch is carried out in one step (the
service serves nobody meanwhile); protocol errors are failed requests.

### SystemProxy

State: the registry value by value, the snapshot file and its copy, the core's pid, who
listens on the port, the operation under `TRANSITION_LOCK` with what it has read. Between
any two steps another program may write, the core may exit, the port may be taken, the
GUI may die. Abstracted: an absent `ProxyEnable` is 0; `ProxyOverride` goes with
`ProxyServer`; `AutoConfigURL` and `AutoDetect` are one value.

### CoreUpdate

State: the build in the four files, the managed core by the build it was started from,
the phase, `core_install`'s point and locals, the GUI's flag, queue and proxy. Each file
operation is an action; `Installed`, the build a start would run, is the backup if there
is one. Not assumed: that the download ends. Things the model shows as they are: a core
the service does not own that answers with the release's version passes the health
check; `core_install` starts the core whatever it was before (service.rs:2938); restoring
a pending TUN session is left to `CoreRecovery` and `ServiceTun`.

### AppUpdate

State: the checkpoint, the front end's task and the start-up task (both use
`restore_previous_state`), service, core by who started it, TUN, registry with the undo
file and the update snapshot. `capture`, `set_enabled` and `restore` are one step each;
`SystemProxy` has their insides. Things the model shows as they are:

- `MarkInterrupted` is not reachable: an update cut off before the installer finds the old
  version at the next start and is dismissed as a version mismatch, nothing is restored
  (the test at update.rs:960-991 uses the same version twice).
- A `Failed` checkpoint is never cleared; a later failed download replays it.
- `update_prepare` clears `updating` itself, whatever becomes of its mark; `update_mark_failed`
  and `mark_failed` return with `?` before they do when the checkpoint cannot be read or
  written, and `App.tsx` ignores that (`MarkUnwritten`). After a failed installation every
  command is then refused until the GUI ends or another attempt has better luck:
  `UpdateEnds` names this path (`unmarked`) and demands every other one.
- A start that cannot read the checkpoint leaves everything to the automatic start
  (`BootUnread`), which is why `found` is `Nothing` after it.
- A `Terminated` handler or a status poll during an update can forget the original
  snapshot; a core that was replaced since the proxy was set makes `disable_for_update` do
  nothing, which `AsFound` excuses through `undo.fresh`.
- `restore_after_update` without a listener turns a dead endpoint on again.
- Without a service, the update of a GUI that runs its own core installs and starts one.
- Beside an installed service that is stopped, `capture_runtime_snapshot` asks only for the
  service's core (update.rs:408), so a sidecar of the GUI is stopped and not put back:
  `AsFound` excuses it (`found` is `Nothing`). While the service runs it is a conflict of
  ownership and the update is refused (service.rs:3817).

### GuiSession

State: sidecars, what they have loaded, unhandled `Terminated` events, `CoreState.child`,
the TUN files and session, both locks, four tasks. A restore that fails after the override
is lowered leaves the status at Running (`restore_for_lifecycle`); a sidecar outlives a GUI
that crashes, as an orphan that keeps the controller and its TUN. Once a restore has ended
beside it the orphan counts as "forgotten": no property can ask more of the code, and
`OffEverywhere` shows what that means.

### ProfileStore

State: the registry with its files, the downloads, the removal, the apply (in the GUI, or
in a service whose answer may come after the GUI has given up), the three files of a
commit with what the core has loaded, the core's start, the geodata files. A content is a
version number, given when its download begins. `torn` and `dirty` are histories of a
process that died between two writes; they excuse what no code could undo. Things the
model shows as they are: a geodata download is longer than the pipe's timeout, and the
GUI gives up the registry lock while the service goes on, so that a profile can be
removed while it is being applied; a core start takes no lock the apply holds;
a candidate that finds a file of the geodata missing gets all of them from those MioProxy
ships, for good, whether the candidate is then accepted or not, while a repair after a
refused load is put back when the second load is refused too (`AllOrNothing` says which is
which, and keeps the geodata of before as its measure); `verify_controller_runtime` does
not ask which configuration runs; a `PUT /configs`
answered after `api_put`'s timeout has been carried out (`ApplySlow`, controller.rs:458).

### RuntimeLayers

State: profile, Local Override, Runtime Override, session, active base, stable
configuration, what the core has loaded, the port on record, the start in progress, the
DNS page, ports of others and another TUN. A YAML document is a function from settings to
values; `Merge` is `merge_values`; `Compatible` is what `outbound.rs` adds. Applies and
switches are one step (their failures are in `ProfileStore` and `ServiceTun`). Documents
whose shapes conflict (`tun: null`) are left out. Things the model shows as they are: a
profile's own mixed port never takes effect once there is a stable configuration; failed
candidates move the port for good; the port found may be the profile's socks-port;
a base migrated from an older version's stable file keeps its DNS switch (`Legacy`); a
`core_ready` that fails leaves a child with no port on record, and the configured one is
then reported.

### ServiceInstall

State: the SCM's record (start type, state, exit code, queued restart, failure count), the
release of both executables and of the backup of the core, the process (which ends its core
with it: the job object) and its shutdown channel, the core, the adapter, the maintenance
with its point and with what the installer and the update's checkpoint (`noted`) say of the
service. Maintenance stops at any point; the process may crash, and be restarted, at any
point of it.

The service replaces the core itself: `SetsCoreAside`, `PutsCoreIn` and `SwapEnds` are the
renames of `replace_core` and what ends them, `HostBoots` includes
`recover_orphaned_backup` (CoreUpdate has the same in detail, without the installer). A
download has no timeout and is served inside the accept loop (`loading`). A daemon that
fails, at boot, at a pipe or in a shutdown that cannot clean up TUN, leaves its process
behind (`hung`): service_main discards the error, and the dispatcher waits for a Stopped
that nobody reports.

Things the model shows as they are: a failed installation leaves the service disabled and
stopped, and its retry takes that for the user's will (`upset` excuses it in
`InstallCompletes`); the query of the wait loop sets WasRunning again, so that a service
its user starts and stops meanwhile is started; a service that crashed is refused by
`verify_stopped` for ever; an update of the application is refused for a service that
never started, although `docs/releases/v1.0.3.md:7` lists it as fixed; neither the
installer nor the uninstaller looks for `mihomo.exe.backup`. Left out: NSIS's *Ignore*,
manual changes of the start type. `windows/installer.nsi:832` holds an unresolved merge
marker; the hooks are what is modelled.

## 3. Runs

| Run | Module | Distinct states | Result | Question |
|---|---|---|---|---|
| `core_safe` | `MCCoreRecovery` | 1.2 M | holds | Are automatic restarts bounded (by the budget and one more for each death of the service), is `RetryBudget` implemented, is `core_transition` returned? |
| `core_faults` | `MCCoreRecovery` | 6.0 M | holds | Do policy, grace and Stop survive failing writes and clean-ups, polls and another Mihomo, with two pids that are reused? |
| `tun_safe` | `MCServiceTun` | 0.6 M | holds | All faults: is TUN on disk covered by the session file, given up only when undone, is the status honest, does a start come up with TUN only when a later candidate takes over a recorded session, are both locks returned? |
| `intent_safe` | `MCTunIntent` | 0.2 M | holds | Does no older wish come back, is a late switch corrected, a wish kept until reached, and does every wish end, the one that waits for the lock too? |
| `proxy_safe` | `MCSystemProxy` | 0.2 M | holds | Is the way back recorded, are others' settings kept, is a dead endpoint cleared? |
| `update_safe` | `CoreUpdate` | 0.1 M | holds | Is the update of the core an atomic replacement, is "completed" final, does every installation end? |
| `gui_safe` | `MCGuiSession` | 4.4 k | holds | Without a service: is every sidecar owned, TUN recorded and never shown as off, every exit handled? |
| `app_safe` | `AppUpdate` | 0.3 M | holds | Is the installer alone, is what ran back afterwards, is the flag cleared, whatever fails? |
| `app_undo` | `AppUpdate` | - | violated | Do Windows' settings come with a record of the original ones after a failed update? |
| `profile_safe` | `MCProfileStore` | 3.7 M | holds | Do registry and files match, does the newest download win, is an apply all or nothing? |
| `layers_safe` | `RuntimeLayers` | 1.6 M | holds | Is the reported port the one in use, does TUN leave nothing, is an interface forgotten with its reason? |
| `install_safe` | `ServiceInstall` | 0.9 M | holds | Does no mixture of releases run unless a cut-off core update was overlaid, is nothing deleted unclean, is the service left as its user or the checkpoint left it, does a stop end unless a download or a failed daemon keeps it? |

### Bounds

- *CoreRecovery.* `MaxTime` bounds the clock; `MaxFailures`, `RetryDelays`,
  `FailureWindow`, `HealthyReset`, `ControllerGrace` and `MaxCandidates` have small values in
  the order of the real ones (4; 15, 30 and 60 s; 600 s; 60 s; 36 s; 4), so that the
  window, the suspension and the reset all happen in time. `MaxDeaths` = 2 bounds how often
  the service goes down before its failures are forgiven. One pid is enough where only
  counts matter (`core_safe`), two where a pid may be taken for another (`core_faults`).
- *ServiceTun.* Two profiles, so that a session can be rebound; two candidates
  (`MaxCandidates`, four in the code), so that one can take the place of another. No
  counters besides.
- *TunIntent.* Three commands (a wish, the one that replaces it and one that waits
  meanwhile) and one fault of any kind but "error", with which `IntentsEnd` fails
  (`TunIntent_error.cfg`). Two faults pass too: with two commands in four and a half
  minutes, with three for the action properties alone. Those are proved for all.
- *SystemProxy.* Two pids for the core, one for a foreigner, two values of `ProxyServer`
  besides MioProxy's own. `MaxMishaps` = 1 bounds refused writes and failing requests;
  writes of others, crashes and port changes are not bounded. "restart" and "early"
  (commands while `recover_stale_state` runs) are left out: with each `UndoRecorded` fails
  (`SystemProxy_strand.cfg`).
- *CoreUpdate.* Three builds: the first, one that is replaced again, and the newest. One
  request waits besides the one in work. `Foreign` = `First`.
- *AppUpdate.* Two versions, one update after the other or the same twice. With three
  (`LastVersion = 3`, without "record" 6.8 M states, two minutes) an update can follow one
  that completed; the safety properties hold there too, and are proved for any number of
  versions.
- *GuiSession.* Two pids, used again after their exit is handled. `gui_safe` leaves out
  "eager", a start before the exit of a stopped core has been handled: with it
  `CoreStaysOwned` fails (`GuiSession_orphan.cfg`); and "kill", a sidecar that Windows
  refuses to kill, with which it fails as well (`GuiSession_kill.cfg`).
- *ProfileStore.* Two profiles, two concurrent downloads, three versions in all (the one
  shipped and two), one accident (timeout, exit or death), writes failing at will.
- *RuntimeLayers.* Ports 1 and 2 (the default and another), two candidates, one list of
  servers; the by-hand configurations use three ports.
- *ServiceInstall.* Two releases, two maintenance runs, one failure action.

### Fairness

Each liveness property is checked under the fairness its specification names:

- steps of a running task are weakly fair: nothing but an await stops them, and every
  await in this code has a timeout or an answer, with two exceptions. Of the download of a
  core nothing is assumed: `InstallEnds` speaks of what follows it, `StopHonoured` excuses
  it. The run of the new core by `validate_config` (core_update.rs:737) has no timeout
  either, but is a local process that only reads a file: it is assumed to end;
- taking a lock is strongly fair (the user's command in `TunIntent` too): tokio's mutexes
  are granted in the order of the requests. So are the `Terminated` handlers of
  `GuiSession`, and the shutdown in the accept loop of `ServiceInstall`, whose select picks
  at random among what is ready;
- polls are fair because the frontend polls every 2.5 s (`src/src/App.tsx:432`), and a
  deadline is fair because time passes;
- that an outage of the service or a foreign TUN ends is assumed for `IntentsEnd`, that the
  installer ends for `UpdateEnds`, and for nothing else. No fairness is given to faults
  or commands.

### What the violated run shows

`app_undo`: a failed `update_prepare` restores the proxy before anything was disabled, takes
its own endpoint for another client's and forgets the original settings
(system_proxy.rs:822). The recovery by `update_mark_failed`, which follows, meets the same
when the first one has put MioProxy's settings back. `PROJECT.json` quotes the line of
`en-US.ts` it contradicts.

### Counterexamples to be had by hand

These configurations check statements that the code does not keep; `tlc -config X.cfg M`
shows each as violated. Where a configuration names several, the others stand in it as
comments, to be tried in turn. The first four contradict what the repository says:

- `OffEverywhere`: the GUI dies with TUN on, its sidecar lives on. The next GUI does not own
  it, so `recover_after_startup` only rewrites the files, clears `tun-state.json` and reports
  the original configuration restored and TUN Disabled (tun.rs:1097-1116); the sidecar has
  TUN.
- `NewestIsSent`: `request_tun` has a message for a request "superseded by a newer user
  intent" (service.rs:1366), but compares its generation with a local of its own; the newer
  command waits for the lock, and the older wish is sent for up to ten seconds more.
- `ExactBinaries`: the service dies between the renames of a core update; a new release is
  installed over it, and the service that boots removes the installed core and renames the
  old one's backup in its place (core_update.rs:826-842). hooks.nsh:172 registers "the exact
  Service and Mihomo binaries copied by this installer".
- `FailureIsSeen`: a shutdown cannot clean up TUN, `service_main` returns without reporting
  Stopped, and main waits for that report for ever (bin/mioproxy-service.rs:159, 642): the
  SCM sees no failure, unlike the comment at 701-703.

The others are statements that no text promises, or that a property of section 4 excuses by
name.

| Configuration | Module | Statement | What TLC shows |
|---|---|---|---|
| `GuiSession_stray` | `MCGuiSession` | `OffEverywhere` | see above |
| `TunIntent_late` | `MCTunIntent` | `NewestIsSent` | see above |
| `ServiceInstall_hand` | `ServiceInstall` | `ExactBinaries` | see above |
| `ServiceInstall_hung` | `ServiceInstall` | `FailureIsSeen` | see above |
| `CoreRecovery_exit` | `MCCoreRecovery` | `ReadyCoreNotFoundDead` | `start` clears `core_exit_pending` before `start_inner` reaps the dead child and sets it again; the next round kills the new core |
| `CoreRecovery_death` | `MCCoreRecovery` | `RestartsWithinBudget` | a service that dies between the spawn of a core and the charge has made a start that no file remembers; each such death adds one |
| `CoreRecovery_bound` | `MCCoreRecovery` | `RestartsBounded` | a clean-up that fails after a loss returns before the loss is charged |
| `ServiceTun_hand` | `MCServiceTun` | `AlwaysUndone` | `rollback_tun` restores only the file and removes the session file while the core hangs with TUN loaded |
| `ServiceTun_hand` | `MCServiceTun` | `AlwaysEnds` | an error of the listener probe in `disable_tun_inner` leaves Stopping |
| `ServiceTun_hand` | `MCServiceTun` | `NeverSpawnsTun` | TUN is enabled while the first candidate of a start answers; its port cannot be stored, and the next candidate is started with TUN (service.rs:3151) |
| `SystemProxy_strand` | `MCSystemProxy` | `UndoRecorded` | after the service has restarted the core, turning off can take the own core for a stranger and forget the snapshot |
| `TunIntent_error` | `MCTunIntent` | `IntentsEnd` | in Error the status is `Unknown` to the reconciler, which waits and never sends the switch that would clean up |
| `GuiSession_orphan` | `MCGuiSession` | `CoreStaysOwned` | `mihomo_stop` takes the child without `CORE_LIFECYCLE_LOCK`, a start stores a new one, and the handler of the stopped core clears the new one's marker (controller.rs:1123) |
| `GuiSession_kill` | `MCGuiSession` | `CoreStaysOwned` | the child is taken out of `CoreState` before it is killed; a kill that fails leaves a core without a marker (controller.rs:1258) |
| `AppUpdate_mark` | `AppUpdate` | `UpdateAlwaysEnds` | `update_mark_failed` cannot write the checkpoint and leaves `updating` set (update.rs:698) |
| `CoreUpdate_proxy` | `CoreUpdate` | `ProxyOffWhileStopped` | the GUI stops waiting, the user turns the proxy on, the service stops the core |
| `ProfileStore_kept` | `MCProfileStore` | `RefusedKeeps` | an apply answered too late is reported as refused with the old configuration kept; the core runs the new one |
| `ProfileStore_geo` | `MCProfileStore` | `GeodataKept` | `ensure_for_candidate` completes the geodata and drops what it has replaced; a candidate the controller then refuses leaves them replaced (geodata.rs:294) |
| `ServiceInstall_hand` | `ServiceInstall` | `KeptForCleanup` | an uninstall keeps the service for another clean-up, but leaves it disabled |
| `ServiceInstall_hung` | `ServiceInstall` | `StopNeverStalls` | a download inside the accept loop that never ends: the stop is not seen (service.rs:4463) |
| `ServiceInstall_hand` | `ServiceInstall` | `StoppedStays` | the user starts and stops the service while the installer waits; its query sets WasRunning, and the helper starts the service (hooks.nsh:154) |
| `RuntimeLayers_hand` | `RuntimeLayers` | `DnsSurvivesTun` | the DNS page shows TUN's switch, and saving writes it to the Local Override |
| `RuntimeLayers_hand` | `RuntimeLayers` | `PortReturns` | a start that failed for another reason leaves the next one on another port |
| `RuntimeLayers_hand` | `RuntimeLayers` | `PortOfItsOwn` | the free port found is the profile's socks-port |

## 4. Properties

Each is stated and explained in its module. In short:

- `CoreRecovery`: `RestartsBounded`, `PolicyCoherent`, `GraceBelongsToChild`, `StopHolds`
  (safety), `LockReleased` (liveness), `BudgetSpec` (refinement of `RetryBudget`).
- `ServiceTun`: `SessionRecorded`, `StatusHonest` (safety), `SpawnsWithoutTun`,
  `ForgottenWhenUndone` (action properties), `LocksReleased` (liveness).
- `TunIntent`: `MutationsAreWanted`, `LateSwitchIsCorrected`, `DroppedWhenReached` (action
  properties), `IntentsEnd` (liveness).
- `SystemProxy`: `UndoRecorded` (safety), `ExternalKept` (action property),
  `DeadEndpointCleared` (liveness).
- `CoreUpdate`: `CompletedMeansCommitted` (safety), `SwapImplemented` (refinement of
  `CoreSwap`), `InstallEnds` (liveness).
- `AppUpdate`: `InstallerAlone`, `AsFound` (action properties), `UpdateEnds` (liveness).
- `GuiSession`: `CoreStaysOwned`, `SessionRecorded`, `OffMeansOff` (safety),
  `ExitsHandled` (liveness).
- `ProfileStore`: `RegistryMatchesFiles`, `RuntimeAgrees` (safety), `NewestWins`,
  `AllOrNothing` (action properties).
- `RuntimeLayers`: `PortReported`, `TunLeavesNothing` (safety), `InterfaceFollows` (action
  property).
- `ServiceInstall`: `OneRelease` (safety), `DeletedOnlyClean`, `InstallCompletes` (action
  properties), `StopHonoured` (liveness).
- one `TypeOK` per module. `proxy_safe` checks that of `SystemProxy`; those of
  `CoreRecovery`, `ServiceTun`, `ProfileStore`, `ServiceInstall` and `RuntimeLayers` are proved
  for all constants and not repeated in a run; adding it as an `INVARIANT` to a run's
  configuration checks the others.

## 5. Proofs

Eight modules prove, for every value of the constants the assumptions allow:

| Module | Theorem | States |
|---|---|---|
| `CoreRecoveryProofs` | `TypesAreCorrect` | `[]TypeOK` |
| | `PolicyIsCoherent` | `[]PolicyCoherent`: memory and disk hold policies `record_failure` and `mark_ready` can produce |
| | `GraceIsPerChild` | `[]GraceBelongsToChild` |
| | `StopIsRespected` | `[]StopHolds` |
| | `RestartsAreBounded` | with `Faults` within `{"crash"}`, `[]RestartsBounded`: the budget, and one start for each death of the service |
| | `RecoveryKeepsBudget` | without "disk", `BudgetSpec`: `CoreRecovery` implements `RetryBudget` |
| `TunProofs` | `OnlyTheLastWishIsSent` | `MutationsAreWanted` |
| | `LateSwitchesAreCorrected` | `LateSwitchIsCorrected` |
| | `IntentsAreKept` | `DroppedWhenReached` |
| | `NoCoreIsLost` | `[]CoreStaysOwned` of `GuiSession`, without "eager" and "kill" |
| | `SessionsAreRecorded` | `[]SessionRecorded` of `GuiSession`, without "eager" and "kill" |
| | `OffIsHonest` | `[]OffMeansOff` of `GuiSession`, without "eager" and "kill" |
| `ServiceTunProofs` | `TransactionTyped` | `[]TypeOK` |
| | `EnabledIsRecorded` | `[]SessionRecorded` |
| | `StatusIsHonest` | `[]StatusHonest` |
| | `StartsAreClean` | `SpawnsWithoutTun` |
| | `ForgettingIsLast` | `ForgottenWhenUndone` |
| `SystemProxyProofs` | `TypesAreCorrect` | `[]TypeOK` |
| | `ExternalIsKept` | `ExternalKept` |
| | `UndoIsRecorded` | without "restart" and "early", `[]UndoRecorded` |
| `ProfileStoreProofs` | `TypesAreCorrect` | `[]TypeOK` |
| | `RegistryIsTrue` | `[]RegistryMatchesFiles` |
| | `NewestDownloadWins` | `NewestWins` |
| | `RuntimeIsOne` | `[]RuntimeAgrees` |
| | `ApplyIsAllOrNothing` | `AllOrNothing` |
| `CoreUpdateProofs` | `CompletionIsFinal` | `[]CompletedMeansCommitted`, if no release has the version of a foreign core |
| | `UpdateIsASwap` | `SwapImplemented`: `CoreUpdate` implements `CoreSwap`, under the same condition |
| `InstallProofs` | `InstallerComesAlone` | `InstallerAlone` of `AppUpdate` |
| | `UpdateEndsAsFound` | `AsFound` of `AppUpdate` |
| | `Types` | `[]InstallTypeOK` of `ServiceInstall` |
| | `ReleasesAgree` | `[]OneRelease` |
| | `DeletionsClean` | `DeletedOnlyClean` |
| | `InstallationsComplete` | `InstallCompletes` |
| `RuntimeLayersProofs` | `LayersTyped` | `[]TypeOK` |
| | `PortIsReported` | `[]PortReported` |
| | `TunLeavesNoTrace` | `[]TunLeavesNothing` |
| | `InterfaceIsFollowed` | `InterfaceFollows` |

So every safety invariant and every action property of a passing run, and both
refinements, are theorems. `TunProofs` extends `TunIntent` and `GuiSession`, the two ways
the GUI runs TUN; `InstallProofs` extends `AppUpdate` and `ServiceInstall`, the update and
the installation it ends in. The components are proved about one by one: no theorem
composes them.

A hypothesis that excludes a fault is there because with it the property is false, which a
configuration shows: "eager" `GuiSession_orphan`, "kill" `GuiSession_kill`, "restart" and "early"
`SystemProxy_strand`, the faults outside of `{"crash"}` `CoreRecovery_bound`. For
`RetryBudget` it is "disk". A stop whose write of the desired state fails leaves the core
unwanted in memory and wanted in the file, so that a crash of the service makes it wanted
again without a command; and a policy that could not be written is read back older, with a
budget that had been used up (`CoreRecovery_safe.cfg` with "disk" in `Faults` shows it).

### The arguments

*CoreRecovery.* Lemmas at the head of the module say what `RecoveryPolicy`'s operators do.
They keep `Good` (a suspended policy has used up its budget, times lie in the past or
within a delay); `PolicyIsCoherent` is the induction over it. `GraceBelongsToChild` is not
inductive: between the monitor's reading and its use the child may be replaced, so
`GraceInv` adds what the monitor has read. `StopInv` adds where client and monitor are and
which holds `core_transition`. `RestartsBounded` needs `AttemptsAccounted`: the attempts
made are at most the failures charged, the one under way and one for each death of the
service, which is why clean-ups and writes must not fail (`CoreRecovery_bound.cfg`); that
the file holds the failures of the memory when the service dies is `Saved`.
`RecoveryKeepsBudget` goes through the actions one by one: a failed start or a loss is
`RetryBudget`'s `Charge`, a start its `Attempt`, a reset its `Forgive` or `Command`, a start
that ends uncharged (ready, stopped, or with the service) its `Settle`, everything else a
stutter; how often starts may end uncharged is for `RestartsBounded` to say. Besides the
types and `StopInv` it needs `Saved`: with no failing write, what is on disk is what is in
memory, so that a restart of the service reads back what was there.

*TunIntent.* `SwitchInv` has three parts. `WishInv`: an outstanding intent is the wish of
the command that got `TRANSITION_LOCK` last, and so is what a loop works on, the retry
task's too, which reads the intent under the lock; the commands behind it wait.
`PipeInv`: an answer lies in the pipe only while the service works on nothing. `StaleInv`:
while the service works on a switch that a later command has taken back, the intent stands
and the loop has not heard of the service, so none of the ways to drop the intent is open.
For `DroppedWhenReached`, `WaitInv` and `ShownInv` add that a status a loop has in its hands
was shown, so that the step which drops the intent finds it in `shown`.

*GuiSession.* `CoreInv` says that there is one core at a time: what runs is the marked
child, what has exited is cleaned up before the next start (`OneCore`), and a start, an
exit and a stop exclude each other by what they have seen (`Starting`, `Exiting`,
`Booting`). `SessionInv` says who holds `TRANSITION_LOCK` at each point (`TunHeld`), what
the steps of a routine have made (`Made`), and what the runtime knows of the file
(`Known`). `CoreStaysOwned` is a conjunct of `OneCore`; `OffMeansOff` follows from `Known`
with `SessionRecorded`, which also covers the sidecar a dead GUI left behind until a restore
has ended beside it.

*SystemProxy.* `TypeInv` says of each operation which writes it may still have to do.
`ExternalKept` rests on `QuietInv`: an operation that has values left to write has last
read settings that are nobody else's. `UndoRecorded` rests on `UndoInv`: one operation at
a time (`Alone`), records that name the running core (`Named`, which is why there is no
restart), a snapshot that is never of MioProxy's own settings (`Neutral`), and, for the
operation under way, values written that are those Windows has (`Undoing`). `Nothing` is
no snapshot (`NothingAssumption`).

*ProfileStore.* `RegistryOk` holds what the registry, the files and the downloads under
way say of each other, and who has the registry's lock; a download's number is larger than
any it replaces. `RuntimeOk` does the same for the three files of a commit and the core,
point by point of an apply, a start and a removal: what has been written so far, what
the rollback will put back, and from which geodata the apply started. A download is none of
the lock's other holders, which `StoreAssumption` says.

*AppUpdate.* `Shape` is the types with three facts the steps rely on: TUN needs a core of
MioProxy's, a core of the service needs the service, no task runs without the GUI.
`InstallerAlone` follows from it, because `before_updater_exit` looks again. `FoundInv`
follows what was found from `update_prepare` (`Preparation`: the checkpoint `Matches` it,
and things are only stopped) to the installer (`Handover`), to the stopped GUI of either
version (`Returned`) and through the recovery (`Recovering`: what is back after each of
its steps, as long as none failed). The attempt to prove it showed two errors of the
model, a conflict of ownership that was too narrow and a checkpoint taken for more than it
holds; TLC had not met them with two versions.

*ServiceTun.* `Inv` has five parts, proved in this order, each relative to the ones
before. `Controls` and `Data` are the types. `Locks`: who may be where while which lock is
held, and a dead service does nothing. `Places`: what the four places hold at each point
of a routine; `SessionRecorded` is one of its conjuncts and needs the others, since
between two writes a routine relies on the ones it has made. `Spawning`: a task that is
about to start a core holds `core_transition` and has no core, and before the first
candidate no session is recorded; it is kept because a routine brings a session about only
over a ready core (`RecoveryNeedsCore`) and the clean-up before a start ends well only
without one (`CleanedUp`). For the candidates after the first only `Places` is left: a
stable file with TUN has its session on record, which is what `StartsAreClean` says.
`Meaning`: what the status says outside of the routine that sets it; Running includes that
the stable file has TUN, since a later candidate loads it. `ForgettingIsLast` then follows
step by step: the three actions that remove the session file do so where `Places` says
that the files are lowered, and the core is either unloaded, gone, or was lost in a slip.

*CoreUpdate.* `Guarded`: a backup is there exactly while the new build is on probation;
`Survives`: executable and backup are never both missing; `Carried`: what is staged,
copied and swapped in is the release asked for; `Confirmed`: it is proven when the backup
goes. Every step then leaves `Installed` alone except the removal of the backup, which is
`Commit` of a proven build. The hypothesis `ForeignIsOld` is needed: a foreign core with
the release's version would confirm a build that never ran.

*ServiceInstall.* `Inv` is `Hosted`, `Flags`, `Maintained` (the types) with `Startable`
(the service runs, or its start type is Automatic, only while core and backup are of the
service's release or newer and one of them is there, `Whole`, which every rename of the
service's own keeps, unless an installation overlaid a backup), `Disabled`, `Copied` (what
maintenance has done at each point), `Clean` (an orderly stop has cleaned TUN) and
`Willed` (a service that is off was stopped by its user, by something that went wrong, or
by the maintenance, which then knows that it ran).

*RuntimeLayers.* `Inv` is `Staged` (the start in progress), `Ported` (ports are ports),
`Agreed` (the core runs the stable configuration), `Recorded` (no port but its own is on
record), `Restored` (the TUN layer goes with the session, and what is made without it is
as the base) and `Unforced` (no base holds what another TUN made necessary). It rests on
lemmas of which keys `Merge`, `Set`, `SetIfAbsent` and `Compatible` give a configuration.

Only model-checked: all liveness (`LockReleased`, `LocksReleased`, `IntentsEnd`,
`DeadEndpointCleared`, `InstallEnds`, `ExitsHandled`, `UpdateEnds`, `StopHonoured`), since
the prover has neither fairness nor ENABLED. No module uses a RECURSIVE operator.

## 6. Not modelled, and what could follow

Not modelled, and why:

- pipe security, framing and authentication, hashing of geodata, adapter discovery,
  autostart entry, data move, signature tool, packaging: system calls and serialisation,
  without state of their own that others depend on;
- streams, tray, window, diagnostics and the display side of the frontend: they feed the
  screen and change nothing outside it;
- requests to Mihomo that leave MioProxy's state alone (mode, choice of a proxy,
  providers, connections);
- more than one queued request at the service, and the fallback of a request the service
  answers without a result.

Hazards for which there is no property (`PROJECT.json` has the reasons for those of the
first two items):

- A desired state whose write fails (service.rs:2262), a probe that fails in
  `disable_tun_inner` (3654), downtime counted as healthy time (1932), an apply that outlives
  its request (1091): the modules contain the behaviour, and no property judges it.
- A restarted core with another pid than the proxy's snapshot names (system_proxy.rs:549), a
  sidecar that Windows refuses to kill (controller.rs:1259): shown by hand in section 3.
- `tun_set` with a Disable command does not clear `pending_tun_profile` (service.rs:3746):
  after a loss of the core the monitor's next restore enables what the user disabled.
  `ServiceTun` contains the behaviour; no text says it should be otherwise.
- The wall clock is set back between two failures (service.rs:1952): `CoreRecovery`'s clock
  only moves forward.
- The core dies between the readiness check and the reload and another Mihomo takes its
  port (service.rs:3520): `ServiceTun` asks for both in one step.
- Commands while `recover_stale_state` runs (system_proxy.rs:577, 612, 842).
- A wish for a switch and an answer that was read before it (tun.rs:448, 966):
  `DroppedWhenReached` says what the code does guarantee.

What could follow, in this order: the composition of `ServiceTun` and `TunIntent`, so that
the outcomes `TunIntent` assumes are those `ServiceTun` shows; a clock that can be set
back in `CoreRecovery`; a larger queue in `ProfileStore`.
