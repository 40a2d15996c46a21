---------------------------- MODULE SystemProxy ----------------------------
(***************************************************************************)
(* The Windows system proxy as MioProxy's GUI handles it (system_proxy.rs):*)
(* turning it on over settings nobody else owns, restoring what was there  *)
(* before when the user turns it off, the core exits or the GUI quits, and *)
(* recovering after a crash from system-proxy-state.json.                  *)
(*                                                                         *)
(* Every registry value is written by a step of its own, so that other     *)
(* programs, which write the same values, can come in between.  Windows    *)
(* settings are three fields: `on' (ProxyEnable, absent and 0 being one),  *)
(* `server' (ProxyServer and the ProxyOverride that goes with it) and      *)
(* `auto' (AutoConfigURL or AutoDetect is in force).                       *)
(***************************************************************************)
EXTENDS Naturals, Sequences

CONSTANTS Pids,        \* pids of the Mihomo that MioProxy manages
          Foreign,     \* pid of somebody else's process on MioProxy's port
          Own,         \* ProxyServer = 127.0.0.1:mixed_port
          Servers,     \* every other value of ProxyServer
          Nothing,     \* None
          Faults,      \* subset of {"write", "crash", "takeover", "foreign", "restart", "early"}
          MaxMishaps   \* bound on failing writes and IPC calls in a behaviour

ASSUME ConstantsAssumption ==
  /\ Foreign \notin Pids /\ Own \notin Servers
  /\ Nothing \notin Pids \cup {Foreign} \cup Servers \cup {Own}
  /\ Faults \subseteq {"write", "crash", "takeover", "foreign", "restart", "early"}
  /\ MaxMishaps \in Nat

Fields == {"on", "server", "auto"}
Settings == [on : BOOLEAN, server : Servers \cup {Own}, auto : BOOLEAN]
Snapshots == [to : Settings, pid : Pids \cup {Nothing}]
Listeners == Pids \cup {Foreign, Nothing}

(* Option::None is none of the values that an Option can hold.             *)
ASSUME NothingAssumption == Nothing \notin Settings /\ Nothing \notin Snapshots

(* The lock holder runs set_enabled and restore_for_lifecycle, one at a    *)
(* time under TRANSITION_LOCK; recover_stale_state, at start-up, takes no  *)
(* lock and is an operation of its own.                                    *)
Slots == {"locked", "boot"}

VARIABLES reg,      \* the registry values
          mine,     \* history: those that MioProxy wrote last, while the port is its own
          file,     \* system-proxy-state.json
          mem,      \* SystemProxyState.snapshot
          gui,      \* the GUI runs
          core,     \* pid of the managed core, or Nothing
          foreign,  \* another process listens on MioProxy's port
          ops,      \* the operation in each slot
          mishaps

env == <<core, foreign>>
vars == <<reg, mine, file, mem, gui, core, foreign, ops, mishaps>>

----------------------------------------------------------------------------
(* Who owns the settings: pure functions of what was read. *)

MatchesShape(s, enabled) == ~s.auto /\ s.server = Own /\ s.on = enabled

\* Mutant: an endpoint that nobody listens on is no longer ours.
StillOwnedWhenListening(s, pid, listener, enabled) ==
  MatchesShape(s, enabled) /\ pid # Nothing /\ listener = pid

StillOwned(s, pid, listener, enabled) ==
  /\ MatchesShape(s, enabled)
  /\ listener = Nothing \/ (pid # Nothing /\ listener = pid)

External(s) == (s.on \/ s.auto) /\ ~MatchesShape(s, TRUE)

CanEnable(s, recorded, owned) ==
  ~External(s) /\ (MatchesShape(s, TRUE) => recorded /\ owned)

(* What an unfinished write_mioproxy_settings leaves of the settings s. *)
KnownSteps(s) ==
  LET s1 == [s EXCEPT !.on = TRUE]
      s2 == [s1 EXCEPT !.server = Own]
  IN {s1, s2, [s2 EXCEPT !.auto = FALSE]}

StepStillOwned(s, before, pid, listener) ==
  \/ StillOwned(s, pid, listener, TRUE)
  \/ s \in KnownSteps(before) /\ listener \in {Nothing, pid}

MioProxySettings == << <<"on", TRUE>>, <<"server", Own>>, <<"auto", FALSE>> >>
SnapshotSettings(s) == << <<"on", s.on>>, <<"server", s.server>>, <<"auto", s.auto>> >>

Listener == IF foreign THEN Foreign ELSE core

Managed == IF mem # Nothing THEN mem ELSE file

----------------------------------------------------------------------------
(* Operations. *)

Idle == [kind |-> "none", pc |-> "idle", cur |-> Nothing, snap |-> Nothing, pid |-> Nothing,
         seen |-> Nothing, todo |-> <<>>, recovering |-> FALSE, noticed |-> FALSE]

(* A read of settings that another program owns, and that are not what the *)
(* operation's own unfinished write would have left.                       *)
Notices(op) == /\ External(reg) /\ mine # Fields
               /\ op.cur # Nothing => reg \notin KnownSteps(op.cur)

At(slot, kind, pc) == gui /\ ops[slot].kind = kind /\ ops[slot].pc = pc

Becomes(slot, op) == ops' = [ops EXCEPT ![slot] = op]

Ends(slot) == Becomes(slot, Idle)

Moves(slot, pc) == Becomes(slot, [ops[slot] EXCEPT !.pc = pc])

Reads(slot, pc, op) == Becomes(slot, [op EXCEPT !.pc = pc, !.noticed = Notices(op)])

Mishap == "write" \in Faults /\ mishaps < MaxMishaps /\ mishaps' = mishaps + 1

ForgetSnapshot == file' = Nothing /\ mem' = Nothing

StoreSnapshot(snap) == file' = snap /\ mem' = snap

Started == gui /\ ops["locked"].kind = "none" /\ (ops["boot"].kind = "none" \/ "early" \in Faults)

Init ==
  /\ reg \in {s \in Settings : s.server # Own}
  /\ mine = {} /\ file = Nothing /\ mem = Nothing
  /\ gui = FALSE /\ core = Nothing /\ foreign = FALSE
  /\ ops = [slot \in Slots |-> Idle]
  /\ mishaps = 0

(* One value of the registry is written. *)
WriteValue(slot) ==
  LET op == ops[slot] IN
  /\ gui /\ op.pc \in {"write", "undo"} /\ op.todo # <<>>
  /\ reg' = [reg EXCEPT ![Head(op.todo)[1]] = Head(op.todo)[2]]
  /\ mine' = IF foreign THEN mine ELSE mine \cup {Head(op.todo)[1]}
  /\ Becomes(slot, [op EXCEPT !.todo = Tail(op.todo)])
  /\ UNCHANGED <<file, mem, gui, env, mishaps>>

\* Mutant: the snapshot is forgotten although the restore failed.
WriteFailsForgetting(slot) ==
  LET op == ops[slot] IN
  /\ gui /\ op.pc \in {"write", "undo"} /\ Mishap
  /\ IF op.kind = "enable" /\ op.pc = "write"
       THEN /\ Becomes(slot, [op EXCEPT !.pc = "rollback", !.todo = <<>>])
            /\ UNCHANGED <<file, mem>>
       ELSE Ends(slot) /\ ForgetSnapshot
  /\ UNCHANGED <<reg, mine, gui, env>>

(* A value, or at the end the notification, is refused: set_enabled turns  *)
(* to its rollback, every other caller returns the error.                  *)
WriteFails(slot) ==
  LET op == ops[slot] IN
  /\ gui /\ op.pc \in {"write", "undo"} /\ Mishap
  /\ IF op.kind = "enable" /\ op.pc = "write"
       THEN Becomes(slot, [op EXCEPT !.pc = "rollback", !.todo = <<>>])
       ELSE Ends(slot)
  /\ UNCHANGED <<reg, mine, file, mem, gui, env>>

----------------------------------------------------------------------------
(* set_enabled(true) *)

(* The managed core is found Ready and listening: its pid is the identity  *)
(* that the snapshot will name.  Otherwise the command is refused.         *)
EnableBegins ==
  /\ Started /\ core # Nothing /\ Listener = core
  /\ Becomes("locked", [Idle EXCEPT !.kind = "enable", !.pc = "read", !.pid = core])
  /\ UNCHANGED <<reg, mine, file, mem, gui, env, mishaps>>

Recovering(op) == Managed # Nothing /\ StillOwned(reg, op.pid, op.pid, FALSE)

AlreadyOn(op) == Managed # Nothing /\ StillOwned(reg, op.pid, op.pid, TRUE)

EnableRefused ==
  /\ At("locked", "enable", "read")
  /\ ~CanEnable(reg, Managed # Nothing, AlreadyOn(ops["locked"]))
  /\ Ends("locked")
  /\ UNCHANGED <<reg, mine, file, mem, gui, env, mishaps>>

\* Mutant: the settings are stored without the pid they belong to.
EnableRefreshesUnnamed ==
  /\ At("locked", "enable", "read") /\ AlreadyOn(ops["locked"])
  /\ StoreSnapshot(Managed.to) /\ Ends("locked")
  /\ UNCHANGED <<reg, mine, gui, env, mishaps>>

EnableRefreshes ==
  /\ At("locked", "enable", "read") /\ AlreadyOn(ops["locked"])
  /\ IF Managed.pid # ops["locked"].pid
       THEN StoreSnapshot([Managed EXCEPT !.pid = ops["locked"].pid])
       ELSE UNCHANGED <<file, mem>>
  /\ Ends("locked")
  /\ UNCHANGED <<reg, mine, gui, env, mishaps>>

(* The settings are read and written to the file, with the core's pid;     *)
(* over settings that an update has turned off, the older snapshot stays.  *)
EnableRecords ==
  LET op == ops["locked"]
      snap == [to |-> IF Recovering(op) THEN Managed.to ELSE reg, pid |-> op.pid]
  IN
  /\ At("locked", "enable", "read") /\ ~AlreadyOn(op)
  /\ CanEnable(reg, Managed # Nothing, FALSE)
  /\ file' = snap
  /\ Reads("locked", "recheck",
           [op EXCEPT !.cur = reg, !.snap = snap, !.recovering = Recovering(op)])
  /\ UNCHANGED <<reg, mine, mem, gui, env, mishaps>>

\* Mutant: what was read again is not compared.
EnableRechecksBlindly ==
  /\ At("locked", "enable", "recheck")
  /\ Reads("locked", "write", [ops["locked"] EXCEPT !.todo = MioProxySettings])
  /\ UNCHANGED <<reg, mine, file, mem, gui, env, mishaps>>

EnableRechecks ==
  /\ At("locked", "enable", "recheck") /\ reg = ops["locked"].cur
  /\ Reads("locked", "write", [ops["locked"] EXCEPT !.todo = MioProxySettings])
  /\ UNCHANGED <<reg, mine, file, mem, gui, env, mishaps>>

(* They have changed since, or can no longer be read. *)
EnableBacksOut ==
  /\ At("locked", "enable", "recheck")
  /\ \/ reg # ops["locked"].cur /\ UNCHANGED mishaps
     \/ Mishap
  /\ IF ops["locked"].recovering THEN UNCHANGED <<file, mem>> ELSE ForgetSnapshot
  /\ Ends("locked")
  /\ UNCHANGED <<reg, mine, gui, env>>

EnableVerifies ==
  LET op == ops["locked"] IN
  /\ At("locked", "enable", "write") /\ op.todo = <<>>
  /\ IF StillOwned(reg, op.pid, Listener, TRUE)
       THEN StoreSnapshot(op.snap) /\ Ends("locked")
       ELSE Reads("locked", "rollback", op) /\ UNCHANGED <<file, mem>>
  /\ UNCHANGED <<reg, mine, gui, env, mishaps>>

(* restore_failed_enable_if_still_owned: a first look ... *)
RollbackObserves ==
  LET op == ops["locked"] IN
  /\ At("locked", "enable", "rollback")
  /\ \/ /\ reg = op.cur
        /\ IF op.recovering THEN UNCHANGED <<file, mem>> ELSE ForgetSnapshot
        /\ Ends("locked")
     \/ /\ reg # op.cur /\ StepStillOwned(reg, op.cur, op.pid, Listener)
        /\ Reads("locked", "confirm", [op EXCEPT !.seen = reg])
        /\ UNCHANGED <<file, mem>>
     \/ /\ reg # op.cur /\ ~StepStillOwned(reg, op.cur, op.pid, Listener)
        /\ Ends("locked") /\ UNCHANGED <<file, mem>>
  /\ UNCHANGED <<reg, mine, gui, env, mishaps>>

(* ... and a second one, before anything is written back. *)
RollbackConfirms ==
  LET op == ops["locked"] IN
  /\ At("locked", "enable", "confirm")
  /\ IF reg = op.seen /\ StepStillOwned(reg, op.cur, op.pid, Listener)
       THEN Reads("locked", "undo", [op EXCEPT !.todo = SnapshotSettings(op.cur)])
       ELSE Ends("locked")
  /\ UNCHANGED <<reg, mine, file, mem, gui, env, mishaps>>

RollbackEnds ==
  /\ At("locked", "enable", "undo") /\ ops["locked"].todo = <<>>
  /\ IF ops["locked"].recovering THEN UNCHANGED <<file, mem>> ELSE ForgetSnapshot
  /\ Ends("locked")
  /\ UNCHANGED <<reg, mine, gui, env, mishaps>>

----------------------------------------------------------------------------
(* restore_for_lifecycle, and recover_stale_state at start-up *)

(* The user turns the proxy off; a status poll or the Terminated event     *)
(* finds no core; or the GUI quits, and goes down when this succeeds.      *)
RestoreBegins(kind) ==
  /\ Started
  /\ kind = "poll" => core = Nothing
  /\ Becomes("locked", [Idle EXCEPT !.kind = kind, !.pc = "read"])
  /\ UNCHANGED <<reg, mine, file, mem, gui, env, mishaps>>

Restoring == {"off", "poll", "quit"}

(* The operation is over: a GUI that was quitting is gone. *)
RestoreDone(slot) ==
  /\ Ends(slot)
  /\ gui' = (ops[slot].kind # "quit")

Recorded(slot) == IF slot = "boot" THEN file ELSE Managed

NothingRecorded(slot) ==
  /\ gui /\ ops[slot].kind \in Restoring \cup {"boot"} /\ ops[slot].pc = "read"
  /\ Recorded(slot) = Nothing
  /\ RestoreDone(slot)
  /\ UNCHANGED <<reg, mine, file, mem, env, mishaps>>

(* Snapshot, registry and listener are read; only a listener with another  *)
(* pid than the snapshot's has to be authenticated.                        *)
RestoreReads(slot) ==
  LET op == ops[slot] snap == Recorded(slot) IN
  /\ gui /\ op.kind \in Restoring \cup {"boot"} /\ op.pc = "read" /\ snap # Nothing
  /\ Reads(slot, IF Listener \in {Nothing, snap.pid} THEN "decide" ELSE "authenticate",
           [op EXCEPT !.snap = snap, !.seen = reg, !.pid = Listener])
  /\ UNCHANGED <<reg, mine, file, mem, gui, env, mishaps>>

(* managed_core_and_listener is awaited, over the pipe and the controller: *)
(* the listener is the managed core's when that core is still there and    *)
(* Ready, which one that has just started need not be.                     *)
RestoreAuthenticates(slot) ==
  LET op == ops[slot] IN
  /\ gui /\ op.kind \in Restoring \cup {"boot"} /\ op.pc = "authenticate"
  /\ \E expected \in {core, Nothing} :
       /\ expected # Nothing => op.pid = core
       /\ Becomes(slot, [op EXCEPT !.pc = "decide", !.snap = [op.snap EXCEPT !.pid = expected]])
  /\ UNCHANGED <<reg, mine, file, mem, gui, env, mishaps>>

RestoreDecides(slot) ==
  LET op == ops[slot] IN
  /\ gui /\ op.kind \in Restoring \cup {"boot"} /\ op.pc = "decide"
  /\ IF StillOwned(op.seen, op.snap.pid, op.pid, TRUE)
       THEN /\ IF slot = "boot" THEN Moves(slot, "probe")
               ELSE Becomes(slot, [op EXCEPT !.pc = "write",
                                             !.todo = SnapshotSettings(op.snap.to)])
            /\ UNCHANGED <<file, mem, gui>>
       ELSE ForgetSnapshot /\ RestoreDone(slot)
  /\ UNCHANGED <<reg, mine, env, mishaps>>

(* A Mihomo still answers after a restart of the GUI: the proxy stays on.  *)
RecoverProbes ==
  LET op == ops["boot"] IN
  /\ At("boot", "boot", "probe")
  /\ \/ /\ core # Nothing \/ foreign
        /\ StoreSnapshot(op.snap) /\ Ends("boot")
     \/ /\ core = Nothing
        /\ Becomes("boot", [op EXCEPT !.pc = "write", !.todo = SnapshotSettings(op.snap.to)])
        /\ UNCHANGED <<file, mem>>
  /\ UNCHANGED <<reg, mine, gui, env, mishaps>>

RestoreEnds(slot) ==
  LET op == ops[slot] IN
  /\ gui /\ op.kind \in Restoring \cup {"boot"} /\ op.pc = "write" /\ op.todo = <<>>
  /\ ForgetSnapshot /\ RestoreDone(slot)
  /\ UNCHANGED <<reg, mine, env, mishaps>>

(* Reading, authenticating or removing the file fails: the error is        *)
(* returned and everything recorded stays.                                 *)
OperationFails(slot) ==
  LET op == ops[slot] IN
  /\ gui /\ op.kind # "none" /\ op.pc \in {"read", "authenticate", "decide", "probe"}
  /\ Mishap /\ Ends(slot)
  /\ UNCHANGED <<reg, mine, file, mem, gui, env>>

----------------------------------------------------------------------------
(* The GUI process, the core and the other programs of the machine *)

GuiStarts ==
  /\ ~gui /\ gui' = TRUE
  /\ Becomes("boot", [Idle EXCEPT !.kind = "boot", !.pc = "read"])
  /\ UNCHANGED <<reg, mine, file, mem, env, mishaps>>

GuiDies ==
  /\ gui /\ "crash" \in Faults
  /\ gui' = FALSE /\ mem' = Nothing
  /\ ops' = [slot \in Slots |-> Idle]
  /\ UNCHANGED <<reg, mine, file, env, mishaps>>

(* Without "restart", a core is only started while no snapshot and no      *)
(* operation names an earlier one.                                         *)
CoreStarts ==
  /\ core = Nothing /\ ~foreign
  /\ (file = Nothing /\ ops["locked"].kind # "enable") \/ "restart" \in Faults
  /\ core' \in Pids
  /\ UNCHANGED <<reg, mine, file, mem, gui, foreign, ops, mishaps>>

CoreExits ==
  /\ core # Nothing /\ core' = Nothing
  /\ UNCHANGED <<reg, mine, file, mem, gui, foreign, ops, mishaps>>

(* Whoever listens on the port owns the endpoint that Windows points at.   *)
PortTaken ==
  /\ "foreign" \in Faults /\ core = Nothing /\ ~foreign
  /\ foreign' = TRUE /\ mine' = {}
  /\ UNCHANGED <<reg, file, mem, gui, core, ops, mishaps>>

PortReleased ==
  /\ foreign /\ foreign' = FALSE
  /\ UNCHANGED <<reg, mine, file, mem, gui, core, ops, mishaps>>

(* Another program, or the user in Windows, sets or turns off a proxy.     *)
OthersWrite ==
  /\ "takeover" \in Faults
  /\ \/ /\ reg' \in {s \in Settings : s.server # Own /\ External(s)}
        /\ mine' = {}
     \/ /\ reg.on /\ reg' = [reg EXCEPT !.on = FALSE]
        /\ mine' = mine \ {"on"}
  /\ UNCHANGED <<file, mem, gui, env, ops, mishaps>>

Enabling ==
  \/ EnableBegins \/ EnableRefused \/ EnableRefreshes \/ EnableRecords \/ EnableRechecks
  \/ EnableBacksOut \/ EnableVerifies \/ RollbackObserves \/ RollbackConfirms \/ RollbackEnds

Restores(slot) ==
  \/ NothingRecorded(slot) \/ RestoreReads(slot) \/ RestoreAuthenticates(slot)
  \/ RestoreDecides(slot) \/ RestoreEnds(slot)

Machine == GuiStarts \/ GuiDies \/ CoreStarts \/ CoreExits \/ PortTaken \/ PortReleased \/ OthersWrite

Next ==
  \/ Enabling \/ RecoverProbes \/ Machine
  \/ \E kind \in Restoring : RestoreBegins(kind)
  \/ \E slot \in Slots : Restores(slot) \/ WriteValue(slot) \/ WriteFails(slot) \/ OperationFails(slot)

(* A running operation goes on, and status polls find a missing core: the  *)
(* lock is a fair queue, so a poll that waits for it gets it.              *)
Fairness ==
  /\ \A slot \in Slots : WF_vars(Restores(slot) \/ WriteValue(slot))
  /\ WF_vars(RecoverProbes)
  /\ WF_vars(EnableRefused \/ EnableRefreshes \/ EnableRecords \/ EnableRechecks \/ EnableBacksOut
             \/ EnableVerifies \/ RollbackObserves \/ RollbackConfirms \/ RollbackEnds)
  /\ SF_vars(RestoreBegins("poll"))

Spec == Init /\ [][Next]_vars /\ Fairness

----------------------------------------------------------------------------
(* Properties *)

(* Every variable has its type, and an operation is where its kind can be. *)
TypeOK ==
  /\ reg \in Settings /\ mine \subseteq Fields /\ gui \in BOOLEAN /\ foreign \in BOOLEAN
  /\ file \in Snapshots \cup {Nothing} /\ mem \in Snapshots \cup {Nothing}
  /\ core \in Pids \cup {Nothing} /\ mishaps \in 0 .. MaxMishaps
  /\ \A slot \in Slots :
       LET op == ops[slot] IN
       /\ op.kind \in Restoring \cup {"none", "enable", "boot"}
       /\ op.pc \in {"idle", "read", "recheck", "write", "rollback", "confirm", "undo",
                     "authenticate", "decide", "probe"}
       /\ op.cur \in Settings \cup {Nothing} /\ op.seen \in Settings \cup {Nothing}
       /\ op.snap \in Snapshots \cup {Nothing} /\ op.pid \in Listeners
       /\ Len(op.todo) <= 3

(* Windows points at MioProxy's port, and MioProxy made it so. *)
PointedHere == MatchesShape(reg, TRUE) /\ {"on", "server"} \subseteq mine

(* As long as Windows points at MioProxy's port because MioProxy said so,  *)
(* the file with the settings to go back to exists: without it turning the *)
(* proxy off does nothing and turning it on is refused as external         *)
(* (managed_snapshot, can_enable_without_takeover).                        *)
UndoRecorded == PointedHere => file # Nothing

(* No operation writes over settings that it has itself read as another    *)
(* program's (the re-read before the write and both of the rollback's).    *)
ExternalKept ==
  [][\A slot \in Slots :
       ops[slot].todo # <<>> /\ ops'[slot].todo = Tail(ops[slot].todo) /\ ops'[slot].kind # "none"
         => ~ops[slot].noticed]_vars

(* When the core is gone, Windows does not keep pointing at its port: the  *)
(* exit handler or a status poll of the running GUI restores the settings. *)
DeadEndpointCleared ==
  (gui /\ PointedHere /\ core = Nothing)
    ~> (~PointedHere \/ core # Nothing \/ ~gui)
============================================================================
