------------------------- MODULE SystemProxyProofs -------------------------
(* Proofs about SystemProxy for every set of pids, every set of other proxy *)
(* servers and every bound on mishaps.                                      *)
EXTENDS SystemProxy, SequenceTheorems, TLAPS
----------------------------------------------------------------------------
(* Types.                                                                   *)

Kinds == Restoring \cup {"none", "enable", "boot"}
Pcs == {"idle", "read", "recheck", "write", "rollback", "confirm", "undo",
        "authenticate", "decide", "probe"}

\* One registry value: a field and what it is set to.
Values == {<<"on", b>> : b \in BOOLEAN} \cup {<<"auto", b>> : b \in BOOLEAN}
            \cup {<<"server", v>> : v \in Servers \cup {Own}}

OpRecord == [kind : Kinds, pc : Pcs, cur : Settings \cup {Nothing},
             snap : Snapshots \cup {Nothing}, pid : Listeners,
             seen : Settings \cup {Nothing}, todo : Seq(Values),
             recovering : BOOLEAN, noticed : BOOLEAN]

\* What an operation has read by the time it is past its first read.
Filled(op) ==
    /\ Len(op.todo) <= 3
    /\ op.kind = "enable" => op.pid \in Pids
    /\ op.kind = "enable" /\ op.pc # "read" => op.cur \in Settings /\ op.snap \in Snapshots
    /\ op.kind \in Restoring \cup {"boot"} /\ op.pc # "read" =>
         op.snap \in Snapshots /\ op.seen \in Settings

Op == {op \in OpRecord : Filled(op)}

TypeInv ==
    /\ reg \in Settings /\ mine \subseteq Fields /\ gui \in BOOLEAN /\ foreign \in BOOLEAN
    /\ file \in Snapshots \cup {Nothing} /\ mem \in Snapshots \cup {Nothing}
    /\ core \in Pids \cup {Nothing} /\ mishaps \in 0 .. MaxMishaps
    /\ ops \in [Slots -> Op]

LEMMA IdleIsOp == Idle \in Op
BY DEF Idle, Op, OpRecord, Filled, Kinds, Restoring, Pcs, Listeners

LEMMA ListenerIsOne == TypeInv => Listener \in Listeners
BY DEF TypeInv, Listener, Listeners

LEMMA NoticesIsBoolean == ASSUME NEW op PROVE Notices(op) \in BOOLEAN
BY DEF Notices, External

\* The sequences of values that set_enabled and the restores write.
LEMMA SnapshotIsValues ==
  ASSUME NEW s \in Settings
  PROVE  SnapshotSettings(s) \in Seq(Values) /\ Len(SnapshotSettings(s)) <= 3
<1>1. /\ <<"on", s.on>> \in Values /\ <<"server", s.server>> \in Values
      /\ <<"auto", s.auto>> \in Values
  BY DEF Values, Settings
<1>2. QED
  BY <1>1 DEF SnapshotSettings

LEMMA OwnIsValues == MioProxySettings \in Seq(Values) /\ Len(MioProxySettings) <= 3
<1>1. /\ <<"on", TRUE>> \in Values /\ <<"server", Own>> \in Values
      /\ <<"auto", FALSE>> \in Values
  BY DEF Values
<1>2. QED
  BY <1>1 DEF MioProxySettings

\* One value is written and taken off the list.
LEMMA WritingKeepsTypes ==
  ASSUME NEW r \in Settings, NEW todo \in Seq(Values), todo # <<>>, Len(todo) <= 3
  PROVE  /\ [r EXCEPT ![Head(todo)[1]] = Head(todo)[2]] \in Settings
         /\ Head(todo)[1] \in Fields
         /\ Tail(todo) \in Seq(Values) /\ Len(Tail(todo)) <= 3
<1>1. Head(todo) \in Values /\ Tail(todo) \in Seq(Values) /\ Len(Tail(todo)) <= 3
  BY HeadTailProperties
<1>2. CASE \E b \in BOOLEAN : Head(todo) = <<"on", b>>
  BY <1>1, <1>2 DEF Settings, Fields
<1>3. CASE \E b \in BOOLEAN : Head(todo) = <<"auto", b>>
  BY <1>1, <1>3 DEF Settings, Fields
<1>4. CASE \E v \in Servers \cup {Own} : Head(todo) = <<"server", v>>
  BY <1>1, <1>4 DEF Settings, Fields
<1>5. QED
  BY <1>1, <1>2, <1>3, <1>4 DEF Values

\* The operation that a step leaves in a slot.
LEMMA SlotKeepsTypes ==
  ASSUME ops \in [Slots -> Op], NEW slot \in Slots, NEW op \in Op, Becomes(slot, op)
  PROVE  ops' \in [Slots -> Op]
BY DEF Becomes

LEMMA EndsKeepsTypes ==
  ASSUME ops \in [Slots -> Op], NEW slot \in Slots, Ends(slot)
  PROVE  ops' \in [Slots -> Op]
BY IdleIsOp, SlotKeepsTypes DEF Ends

----------------------------------------------------------------------------
(* What the two longer changes of an operation do to its fields.            *)

\* The listener has been authenticated as belonging to `pid', or to nobody known.
Authenticated(op, pid) == [op EXCEPT !.pc = "decide", !.snap = [op.snap EXCEPT !.pid = pid]]

LEMMA NamedForm ==
  ASSUME NEW op \in OpRecord, op.snap \in Snapshots, NEW pid \in Pids \cup {Nothing}
  PROVE  LET r == Authenticated(op, pid) IN
         /\ r.kind = op.kind /\ r.pc = "decide" /\ r.cur = op.cur
         /\ r.snap.to = op.snap.to /\ r.snap.pid = pid /\ r.snap \in Snapshots
         /\ r.pid = op.pid /\ r.seen = op.seen /\ r.todo = op.todo
         /\ r.recovering = op.recovering /\ r.noticed = op.noticed
         /\ r \in OpRecord
<1>1. /\ [op.snap EXCEPT !.pid = pid] \in Snapshots
      /\ [op.snap EXCEPT !.pid = pid].to = op.snap.to
      /\ [op.snap EXCEPT !.pid = pid].pid = pid
  BY DEF Snapshots
<1> DEFINE snap == [op.snap EXCEPT !.pid = pid]
<1> HIDE DEF snap
<1>2. LET r == [op EXCEPT !.pc = "decide", !.snap = snap] IN
         /\ r.kind = op.kind /\ r.pc = "decide" /\ r.cur = op.cur
         /\ r.snap = snap
         /\ r.pid = op.pid /\ r.seen = op.seen /\ r.todo = op.todo
         /\ r.recovering = op.recovering /\ r.noticed = op.noticed
         /\ snap \in Snapshots => r \in OpRecord
  BY DEF OpRecord, Pcs
<1>3. QED
  BY <1>1, <1>2 DEF snap, Authenticated

\* A step that reads the registry notes whether it belongs to somebody else.
LEMMA ReadsForm ==
  ASSUME NEW slot \in Slots, NEW pc, NEW op \in OpRecord, ops \in [Slots -> Op],
         Reads(slot, pc, op)
  PROVE  LET r == ops'[slot] IN
         /\ r.kind = op.kind /\ r.pc = pc /\ r.cur = op.cur /\ r.snap = op.snap
         /\ r.pid = op.pid /\ r.seen = op.seen /\ r.todo = op.todo
         /\ r.recovering = op.recovering /\ r.noticed = Notices(op)
         /\ pc \in Pcs => r \in OpRecord
         /\ \A k \in Slots : k # slot => ops'[k] = ops[k]
         /\ ops' = [ops EXCEPT ![slot] = ops'[slot]]
<1>1. ops' = [ops EXCEPT ![slot] = [op EXCEPT !.pc = pc, !.noticed = Notices(op)]]
  BY DEF Reads, Becomes
<1>2. ops'[slot] = [op EXCEPT !.pc = pc, !.noticed = Notices(op)]
  BY <1>1
<1>3. QED
  BY <1>1, <1>2, NoticesIsBoolean DEF OpRecord

\* An operation that only moves on.
LEMMA MovesForm ==
  ASSUME NEW slot \in Slots, NEW r, ops \in [Slots -> Op], Becomes(slot, r)
  PROVE  /\ ops'[slot] = r /\ \A k \in Slots : k # slot => ops'[k] = ops[k]
         /\ r \in Op => ops' \in [Slots -> Op]
BY DEF Becomes

----------------------------------------------------------------------------
(* The type invariant is inductive.                                         *)

LEMMA TypesInit == Init => TypeInv
<1> SUFFICES ASSUME Init PROVE TypeInv
  OBVIOUS
<1>1. ops \in [Slots -> Op]
  BY IdleIsOp DEF Init
<1>2. reg \in Settings /\ mine \subseteq Fields
  BY DEF Init
<1>3. mishaps \in 0 .. MaxMishaps
  BY ConstantsAssumption DEF Init
<1>4. QED
  BY <1>1, <1>2, <1>3 DEF Init, TypeInv

\* The first state of an operation that begins.
LEMMA BeginsIsOp ==
  ASSUME NEW kind \in Restoring \cup {"boot"}
  PROVE  [Idle EXCEPT !.kind = kind, !.pc = "read"] \in Op
<1> DEFINE r == [Idle EXCEPT !.kind = kind, !.pc = "read"]
<1>1. Idle \in OpRecord /\ Idle.todo = <<>> /\ kind \in Kinds /\ "read" \in Pcs
  BY IdleIsOp DEF Op, Idle, Kinds, Pcs
<1>2. r \in OpRecord /\ r.kind = kind /\ r.pc = "read" /\ r.todo = <<>>
  BY <1>1 DEF OpRecord
<1> HIDE DEF r
<1>3. r \in Op
  BY <1>2 DEF Op, Filled, Restoring
<1>4. QED
  BY <1>3 DEF r

LEMMA MachineKeepsTypes ==
  ASSUME TypeInv, Machine
  PROVE  TypeInv'
<1> USE DEF TypeInv, env
<1>1. CASE GuiStarts
  <2>1. [Idle EXCEPT !.kind = "boot", !.pc = "read"] \in Op /\ "boot" \in Slots
    BY BeginsIsOp DEF Slots
  <2>2. ops' \in [Slots -> Op]
    BY <1>1, <2>1, SlotKeepsTypes DEF GuiStarts
  <2>3. QED
    BY <1>1, <2>2 DEF GuiStarts
<1>2. CASE GuiDies
  BY <1>2, IdleIsOp DEF GuiDies
<1>3. CASE CoreStarts \/ CoreExits
  <2>1. core' \in Pids \cup {Nothing}
    BY <1>3 DEF CoreStarts, CoreExits
  <2>2. QED
    BY <1>3, <2>1 DEF CoreStarts, CoreExits
<1>6. CASE PortTaken \/ PortReleased
  <2>1. foreign' \in BOOLEAN /\ mine' \subseteq Fields
    BY <1>6 DEF PortTaken, PortReleased
  <2>2. QED
    BY <1>6, <2>1 DEF PortTaken, PortReleased
<1>4. CASE OthersWrite
  <2>1. reg' \in Settings /\ mine' \subseteq Fields
    BY <1>4 DEF OthersWrite, Settings, Fields
  <2>2. QED
    BY <1>4, <2>1 DEF OthersWrite
<1>5. QED
  BY <1>1, <1>2, <1>3, <1>4, <1>6 DEF Machine

\* The operation in a slot, and what its handler can read.
LEMMA SlotFacts ==
  ASSUME TypeInv, NEW slot \in Slots
  PROVE  /\ ops[slot] \in OpRecord /\ Filled(ops[slot]) /\ ops[slot] \in Op
         /\ "locked" \in Slots /\ "boot" \in Slots
         /\ Managed \in Snapshots \cup {Nothing}
         /\ Recorded(slot) \in Snapshots \cup {Nothing}
         /\ Listener \in Listeners /\ ops \in [Slots -> Op]
         /\ Nothing \notin Snapshots /\ Nothing \notin Settings
<1>1. ops \in [Slots -> Op] /\ "locked" \in Slots /\ "boot" \in Slots
  BY DEF TypeInv, Slots
<1>2. Listener \in Listeners
  BY ListenerIsOne
<1>3. Managed \in Snapshots \cup {Nothing} /\ Recorded(slot) \in Snapshots \cup {Nothing}
  BY DEF TypeInv, Managed, Recorded
<1>4. QED
  BY <1>1, <1>2, <1>3, NothingAssumption DEF Op

LEMMA EnablingKeepsTypes ==
  ASSUME TypeInv, Enabling
  PROVE  TypeInv'
<1> DEFINE op == ops["locked"]
<1>a. /\ op \in OpRecord /\ Filled(op) /\ "locked" \in Slots /\ op \in Op
      /\ reg \in Settings /\ Managed \in Snapshots \cup {Nothing}
      /\ Listener \in Listeners /\ ops \in [Slots -> Op]
      /\ Nothing \notin Snapshots /\ Nothing \notin Settings
  BY SlotFacts DEF TypeInv, Slots
<1>b. Ends("locked") => ops' \in [Slots -> Op]
  BY <1>a, EndsKeepsTypes
<1>c. ASSUME NEW r \in OpRecord, NEW pc \in Pcs, Reads("locked", pc, r),
             r.kind = "enable" /\ r.pid \in Pids /\ Len(r.todo) <= 3
               /\ r.cur \in Settings /\ r.snap \in Snapshots
      PROVE  ops' \in [Slots -> Op]
  <2>1. ops'["locked"] \in OpRecord /\ Filled(ops'["locked"])
    BY <1>a, <1>c, ReadsForm DEF Filled, Restoring
  <2>2. QED
    BY <1>a, <1>c, <2>1, ReadsForm DEF Op
<1> SUFFICES /\ file' \in Snapshots \cup {Nothing} /\ mem' \in Snapshots \cup {Nothing}
             /\ mishaps' \in 0 .. MaxMishaps
             /\ ops' \in [Slots -> Op]
  BY DEF Enabling, EnableBegins, EnableRefused, EnableRefreshes, EnableRecords,
         EnableRechecks, EnableBacksOut, EnableVerifies, RollbackObserves,
         RollbackConfirms, RollbackEnds, TypeInv, env
<1>d. /\ file \in Snapshots \cup {Nothing} /\ mem \in Snapshots \cup {Nothing}
      /\ mishaps \in 0 .. MaxMishaps /\ core \in Pids \cup {Nothing}
  BY DEF TypeInv
<1>e. Mishap => mishaps' \in 0 .. MaxMishaps
  BY <1>d, ConstantsAssumption DEF Mishap
<1>f. ForgetSnapshot => file' = Nothing /\ mem' = Nothing
  BY DEF ForgetSnapshot
<1> HIDE DEF op
<1>1. CASE EnableBegins
  <2>1. [Idle EXCEPT !.kind = "enable", !.pc = "read", !.pid = core] \in Op
    <3> DEFINE r == [Idle EXCEPT !.kind = "enable", !.pc = "read", !.pid = core]
    <3>1. core \in Pids
      BY <1>1, <1>d DEF EnableBegins
    <3>2. /\ Idle \in OpRecord /\ Idle.todo = <<>> /\ "enable" \in Kinds /\ "read" \in Pcs
          /\ core \in Listeners
      BY <3>1, IdleIsOp DEF Op, Idle, Kinds, Pcs, Listeners
    <3>3. /\ r \in OpRecord /\ r.kind = "enable" /\ r.pid = core /\ r.pc = "read"
          /\ r.todo = <<>>
      BY <3>2 DEF OpRecord
    <3> HIDE DEF r
    <3>4. r \in Op
      BY <3>1, <3>3 DEF Op, Filled, Restoring
    <3>5. QED
      BY <3>4 DEF r
  <2>2. ops' \in [Slots -> Op]
    BY <1>1, <1>a, <2>1, MovesForm DEF EnableBegins
  <2>3. QED
    BY <1>1, <1>d, <2>2 DEF EnableBegins
<1>2. CASE EnableRefused
  BY <1>2, <1>b, <1>d DEF EnableRefused
<1>3. CASE EnableRefreshes
  <2>1. op.kind = "enable" /\ op.pid \in Pids /\ Managed \in Snapshots
    BY <1>3, <1>a DEF EnableRefreshes, At, Filled, AlreadyOn, op
  <2>2. [Managed EXCEPT !.pid = op.pid] \in Snapshots
    BY <2>1 DEF Snapshots
  <2>3. file' \in Snapshots \cup {Nothing} /\ mem' \in Snapshots \cup {Nothing}
    BY <1>3, <1>d, <2>2 DEF EnableRefreshes, StoreSnapshot, op
  <2>4. QED
    BY <1>3, <1>b, <1>d, <2>3 DEF EnableRefreshes
<1>4. CASE EnableRecords
  <2> DEFINE snap == [to |-> IF Recovering(op) THEN Managed.to ELSE reg, pid |-> op.pid]
  <2>1. op.kind = "enable" /\ op.pid \in Pids
    BY <1>4, <1>a DEF EnableRecords, At, Filled, op
  <2>2. snap \in Snapshots
    <3>1. Recovering(op) => Managed.to \in Settings
      BY <1>a DEF Recovering, Snapshots
    <3>2. (IF Recovering(op) THEN Managed.to ELSE reg) \in Settings
      BY <1>a, <3>1
    <3>3. QED
      BY <2>1, <3>2 DEF Snapshots
  <2> DEFINE again == Recovering(op)
  <2>3. again \in BOOLEAN
    BY DEF Recovering, StillOwned, MatchesShape
  <2>4. /\ file' = snap /\ UNCHANGED <<mem, mishaps>>
        /\ Reads("locked", "recheck",
                 [op EXCEPT !.cur = reg, !.snap = snap, !.recovering = again])
    BY <1>4 DEF EnableRecords, op
  <2> HIDE DEF snap, again
  <2>5. ops' \in [Slots -> Op]
    <3> DEFINE r == [op EXCEPT !.cur = reg, !.snap = snap, !.recovering = again]
    <3>1. /\ r \in OpRecord /\ r.kind = op.kind /\ r.pid = op.pid /\ r.todo = op.todo
          /\ r.cur = reg /\ r.snap = snap
      BY <1>a, <2>2, <2>3 DEF OpRecord
    <3>2. Reads("locked", "recheck", r)
      BY <2>4
    <3> HIDE DEF r
    <3>3. QED
      BY <1>a, <1>c, <2>1, <2>2, <3>1, <3>2 DEF Pcs, Filled
  <2>6. QED
    BY <1>d, <2>2, <2>4, <2>5
<1>5. CASE EnableRechecks
  <2>1. op.kind = "enable" /\ op.pc = "recheck" /\ op.pid \in Pids
        /\ op.cur \in Settings /\ op.snap \in Snapshots
    BY <1>5, <1>a DEF EnableRechecks, At, Filled, op
  <2>2. MioProxySettings \in Seq(Values) /\ Len(MioProxySettings) <= 3
    BY OwnIsValues
  <2>3. ops' \in [Slots -> Op]
    <3> DEFINE r == [op EXCEPT !.todo = MioProxySettings]
    <3>1. /\ r \in OpRecord /\ r.kind = op.kind /\ r.pid = op.pid
          /\ r.todo = MioProxySettings /\ r.cur = op.cur /\ r.snap = op.snap
      BY <1>a, <2>2 DEF OpRecord
    <3>2. Reads("locked", "write", r)
      BY <1>5 DEF EnableRechecks, op
    <3> HIDE DEF r
    <3>3. QED
      BY <1>c, <2>1, <2>2, <3>1, <3>2 DEF Pcs
  <2>4. QED
    BY <1>5, <1>d, <2>3 DEF EnableRechecks
<1>6. CASE EnableBacksOut
  BY <1>6, <1>b, <1>d, <1>e, <1>f DEF EnableBacksOut
<1>7. CASE EnableVerifies
  <2>1. op.kind = "enable" /\ op.pc = "write" /\ op.pid \in Pids
        /\ op.cur \in Settings /\ op.snap \in Snapshots /\ Len(op.todo) <= 3
    BY <1>7, <1>a DEF EnableVerifies, At, Filled, op
  <2>2. CASE StoreSnapshot(op.snap) /\ Ends("locked")
    BY <1>7, <1>b, <1>d, <2>1, <2>2 DEF EnableVerifies, StoreSnapshot
  <2>3. CASE Reads("locked", "rollback", op) /\ UNCHANGED <<file, mem>>
    BY <1>7, <1>a, <1>c, <1>d, <2>1, <2>3 DEF EnableVerifies, Pcs
  <2>4. QED
    BY <1>7, <2>2, <2>3 DEF EnableVerifies, op
<1>8. CASE RollbackObserves
  <2>1. op.kind = "enable" /\ op.pc = "rollback" /\ op.pid \in Pids
        /\ op.cur \in Settings /\ op.snap \in Snapshots /\ Len(op.todo) <= 3
    BY <1>8, <1>a DEF RollbackObserves, At, Filled, op
  <2>2. ASSUME Reads("locked", "confirm", [op EXCEPT !.seen = reg])
        PROVE  ops' \in [Slots -> Op]
    <3> DEFINE r == [op EXCEPT !.seen = reg]
    <3>1. /\ r \in OpRecord /\ r.kind = op.kind /\ r.pid = op.pid /\ r.todo = op.todo
          /\ r.cur = op.cur /\ r.snap = op.snap
      BY <1>a DEF OpRecord
    <3>2. Reads("locked", "confirm", r)
      BY <2>2
    <3> HIDE DEF r
    <3>3. QED
      BY <1>c, <2>1, <3>1, <3>2 DEF Pcs
  <2>3. QED
    BY <1>8, <1>b, <1>d, <1>f, <2>2 DEF RollbackObserves, op
<1>9. CASE RollbackConfirms
  <2>1. op.kind = "enable" /\ op.pc = "confirm" /\ op.pid \in Pids
        /\ op.cur \in Settings /\ op.snap \in Snapshots
    BY <1>9, <1>a DEF RollbackConfirms, At, Filled, op
  <2>2. SnapshotSettings(op.cur) \in Seq(Values) /\ Len(SnapshotSettings(op.cur)) <= 3
    BY <2>1, SnapshotIsValues
  <2>3. ASSUME Reads("locked", "undo", [op EXCEPT !.todo = SnapshotSettings(op.cur)])
        PROVE  ops' \in [Slots -> Op]
    <3> DEFINE r == [op EXCEPT !.todo = SnapshotSettings(op.cur)]
    <3>1. /\ r \in OpRecord /\ r.kind = op.kind /\ r.pid = op.pid
          /\ r.todo = SnapshotSettings(op.cur) /\ r.cur = op.cur /\ r.snap = op.snap
      BY <1>a, <2>2 DEF OpRecord
    <3>2. Reads("locked", "undo", r)
      BY <2>3
    <3> HIDE DEF r
    <3>3. QED
      BY <1>c, <2>1, <2>2, <3>1, <3>2 DEF Pcs
  <2>4. QED
    BY <1>9, <1>b, <1>d, <2>3 DEF RollbackConfirms, op
<1>10. CASE RollbackEnds
  BY <1>10, <1>b, <1>d, <1>f DEF RollbackEnds
<1>11. QED
  BY <1>1, <1>2, <1>3, <1>4, <1>5, <1>6, <1>7, <1>8, <1>9, <1>10 DEF Enabling

\* The steps of the restores and of the recovery at start-up.
LEMMA RestoresKeepTypes ==
  ASSUME TypeInv, NEW slot \in Slots,
         Restores(slot) \/ WriteValue(slot) \/ WriteFails(slot) \/ OperationFails(slot)
           \/ RecoverProbes \/ (\E kind \in Restoring : RestoreBegins(kind))
  PROVE  TypeInv'
<1> DEFINE op == ops[slot]
<1>a. /\ op \in OpRecord /\ Filled(op) /\ "locked" \in Slots /\ "boot" \in Slots /\ op \in Op
      /\ Recorded(slot) \in Snapshots \cup {Nothing}
      /\ Listener \in Listeners /\ ops \in [Slots -> Op]
      /\ Nothing \notin Snapshots /\ Nothing \notin Settings
  BY SlotFacts
<1>b. Ends(slot) => ops' \in [Slots -> Op]
  BY <1>a, EndsKeepsTypes
<1>c. ASSUME NEW r \in OpRecord, Becomes(slot, r), Filled(r)
      PROVE  ops' \in [Slots -> Op]
  BY <1>a, <1>c, MovesForm DEF Op
<1>d. /\ file \in Snapshots \cup {Nothing} /\ mem \in Snapshots \cup {Nothing}
      /\ mishaps \in 0 .. MaxMishaps /\ core \in Pids \cup {Nothing} /\ gui \in BOOLEAN
      /\ reg \in Settings /\ mine \subseteq Fields /\ foreign \in BOOLEAN
  BY DEF TypeInv
<1>e. Mishap => mishaps' \in 0 .. MaxMishaps
  BY <1>d, ConstantsAssumption DEF Mishap
<1>f. ForgetSnapshot => file' = Nothing /\ mem' = Nothing
  BY DEF ForgetSnapshot
<1>g. RestoreDone(slot) => ops' \in [Slots -> Op] /\ gui' \in BOOLEAN
  BY <1>b DEF RestoreDone
<1> USE DEF TypeInv, env
<1> HIDE DEF op
<1>1. CASE \E kind \in Restoring : RestoreBegins(kind)
  <2>1. PICK kind \in Restoring : RestoreBegins(kind)
    BY <1>1
  <2>2. [Idle EXCEPT !.kind = kind, !.pc = "read"] \in Op
    BY BeginsIsOp
  <2>3. ops' \in [Slots -> Op]
    BY <1>a, <2>1, <2>2, MovesForm DEF RestoreBegins
  <2>4. QED
    BY <1>d, <2>1, <2>3 DEF RestoreBegins
<1>2. CASE NothingRecorded(slot)
  BY <1>2, <1>d, <1>g DEF NothingRecorded
<1>3. CASE RestoreReads(slot)
  <2> DEFINE r == [op EXCEPT !.snap = Recorded(slot), !.seen = reg, !.pid = Listener]
             pc == IF Listener \in {Nothing, Recorded(slot).pid} THEN "decide" ELSE "authenticate"
  <2>1. /\ op.kind \in Restoring \cup {"boot"} /\ Recorded(slot) \in Snapshots
        /\ Reads(slot, pc, r)
    BY <1>3, <1>a DEF RestoreReads, op
  <2>2. /\ r \in OpRecord /\ r.kind = op.kind /\ r.snap = Recorded(slot) /\ r.seen = reg
        /\ r.todo = op.todo
    BY <1>a, <1>d, <2>1 DEF OpRecord
  <2>3. pc \in Pcs
    BY DEF Pcs
  <2> HIDE DEF r, pc
  <2>4. ops'[slot] \in OpRecord /\ Filled(ops'[slot])
    BY <1>a, <1>d, <2>1, <2>2, <2>3, ReadsForm DEF Filled, Restoring
  <2>5. ops' \in [Slots -> Op]
    BY <1>a, <2>1, <2>2, <2>4, ReadsForm DEF Op
  <2>6. QED
    BY <1>3, <1>d, <2>5 DEF RestoreReads
<1>4. CASE RestoreAuthenticates(slot)
  <2>1. PICK expected \in {core, Nothing} :
          Becomes(slot, Authenticated(op, expected))
    BY <1>4 DEF RestoreAuthenticates, Authenticated, op
  <2>2. expected \in Pids \cup {Nothing}
    BY <1>d
  <2>3. /\ op.kind \in Restoring \cup {"boot"} /\ op.pc = "authenticate"
        /\ op.snap \in Snapshots /\ op.seen \in Settings
    BY <1>4, <1>a DEF RestoreAuthenticates, Filled, op
  <2> DEFINE r == Authenticated(op, expected)
  <2>4. /\ r \in OpRecord /\ r.kind = op.kind /\ r.snap \in Snapshots /\ r.seen = op.seen
        /\ r.todo = op.todo
    BY <1>a, <2>2, <2>3, NamedForm
  <2> HIDE DEF r
  <2>5. Filled(r)
    BY <1>a, <2>3, <2>4 DEF Filled, Restoring
  <2>6. ops' \in [Slots -> Op]
    BY <1>c, <2>1, <2>4, <2>5 DEF r
  <2>7. QED
    BY <1>4, <1>d, <2>6 DEF RestoreAuthenticates
<1>5. CASE RestoreDecides(slot)
  <2>1. /\ op.kind \in Restoring \cup {"boot"} /\ op.pc = "decide"
        /\ op.snap \in Snapshots /\ op.seen \in Settings
    BY <1>5, <1>a DEF RestoreDecides, Filled, op
  <2>2. ASSUME Moves(slot, "probe") PROVE ops' \in [Slots -> Op]
    <3> DEFINE r == [op EXCEPT !.pc = "probe"]
    <3>1. /\ r \in OpRecord /\ r.kind = op.kind /\ r.snap = op.snap /\ r.seen = op.seen
          /\ r.todo = op.todo
      BY <1>a DEF OpRecord, Pcs
    <3>2. Becomes(slot, r)
      BY <2>2 DEF Moves, op
    <3> HIDE DEF r
    <3>3. QED
      BY <1>a, <1>c, <2>1, <3>1, <3>2 DEF Filled, Restoring
  <2>3. ASSUME Becomes(slot, [op EXCEPT !.pc = "write", !.todo = SnapshotSettings(op.snap.to)])
        PROVE  ops' \in [Slots -> Op]
    <3> DEFINE todo == SnapshotSettings(op.snap.to)
               r == [op EXCEPT !.pc = "write", !.todo = todo]
    <3>1. todo \in Seq(Values) /\ Len(todo) <= 3
      <4>1. op.snap.to \in Settings
        BY <2>1 DEF Snapshots
      <4>2. QED
        BY <4>1, SnapshotIsValues
    <3> HIDE DEF todo
    <3>2. /\ r \in OpRecord /\ r.kind = op.kind /\ r.snap = op.snap /\ r.seen = op.seen
          /\ r.todo = todo
      BY <1>a, <3>1 DEF OpRecord, Pcs
    <3>3. Becomes(slot, r)
      BY <2>3 DEF todo
    <3> HIDE DEF r
    <3>4. QED
      BY <1>a, <1>c, <2>1, <3>1, <3>2, <3>3 DEF Filled, Restoring
  <2>4. CASE ForgetSnapshot /\ RestoreDone(slot)
    BY <1>5, <1>d, <1>f, <1>g, <2>4 DEF RestoreDecides
  <2>5. CASE ~(ForgetSnapshot /\ RestoreDone(slot))
    <3>1. ops' \in [Slots -> Op] /\ UNCHANGED <<file, mem, gui>>
      BY <1>5, <2>2, <2>3, <2>5 DEF RestoreDecides, op
    <3>2. QED
      BY <1>5, <1>d, <3>1 DEF RestoreDecides
  <2>6. QED
    BY <2>4, <2>5
<1>6. CASE RestoreEnds(slot)
  BY <1>6, <1>d, <1>f, <1>g DEF RestoreEnds
<1>7. CASE WriteValue(slot)
  <2>1. op.todo \in Seq(Values) /\ Len(op.todo) <= 3 /\ op.todo # <<>>
    BY <1>7, <1>a DEF WriteValue, OpRecord, Filled, op
  <2>2. /\ [reg EXCEPT ![Head(op.todo)[1]] = Head(op.todo)[2]] \in Settings
        /\ Head(op.todo)[1] \in Fields
        /\ Tail(op.todo) \in Seq(Values) /\ Len(Tail(op.todo)) <= 3
    BY <1>d, <2>1, WritingKeepsTypes
  <2>3. reg' \in Settings /\ mine' \subseteq Fields
    BY <1>7, <1>d, <2>2 DEF WriteValue, op
  <2> DEFINE todo == Tail(op.todo)
             r == [op EXCEPT !.todo = todo]
  <2>4. Becomes(slot, r) /\ todo \in Seq(Values) /\ Len(todo) <= 3
    BY <1>7, <2>2 DEF WriteValue, op
  <2> HIDE DEF todo
  <2>5. /\ r \in OpRecord /\ r.kind = op.kind /\ r.pc = op.pc /\ r.snap = op.snap
        /\ r.seen = op.seen /\ r.cur = op.cur /\ r.pid = op.pid /\ r.todo = todo
    BY <1>a, <2>4 DEF OpRecord
  <2> HIDE DEF r
  <2>6. Filled(r)
    BY <1>a, <2>4, <2>5 DEF Filled
  <2>7. ops' \in [Slots -> Op]
    BY <1>c, <2>4, <2>5, <2>6
  <2>8. QED
    BY <1>7, <1>d, <2>3, <2>7 DEF WriteValue
<1>8. CASE WriteFails(slot)
  <2>1. CASE op.kind = "enable" /\ op.pc = "write"
    <3> DEFINE nothing == <<>>
               r == [op EXCEPT !.pc = "rollback", !.todo = nothing]
    <3>1. Becomes(slot, r) /\ nothing \in Seq(Values) /\ Len(nothing) = 0
      BY <1>8, <2>1 DEF WriteFails, op
    <3> HIDE DEF nothing
    <3>2. /\ r \in OpRecord /\ r.kind = op.kind /\ r.snap = op.snap
          /\ r.seen = op.seen /\ r.cur = op.cur /\ r.pid = op.pid /\ r.todo = nothing
      BY <1>a, <3>1 DEF OpRecord, Pcs
    <3> HIDE DEF r
    <3>3. Filled(r)
      BY <1>a, <2>1, <3>1, <3>2 DEF Filled, Restoring
    <3>4. ops' \in [Slots -> Op]
      BY <1>c, <3>1, <3>2, <3>3
    <3>5. QED
      BY <1>8, <1>d, <1>e, <3>4 DEF WriteFails
  <2>2. CASE ~(op.kind = "enable" /\ op.pc = "write")
    BY <1>8, <1>b, <1>d, <1>e, <2>2 DEF WriteFails, op
  <2>3. QED
    BY <2>1, <2>2
<1>9. CASE OperationFails(slot)
  BY <1>9, <1>b, <1>d, <1>e DEF OperationFails
<1>10. CASE RecoverProbes
  <2> DEFINE b == ops["boot"]
  <2>1. b \in OpRecord /\ Filled(b)
    BY <1>a, SlotFacts
  <2>2. b.kind = "boot" /\ b.pc = "probe" /\ b.snap \in Snapshots /\ b.seen \in Settings
    BY <1>10, <2>1 DEF RecoverProbes, At, Filled
  <2>3. CASE StoreSnapshot(b.snap) /\ Ends("boot")
    <3>1. ops' \in [Slots -> Op]
      BY <1>a, <2>3, EndsKeepsTypes
    <3>2. QED
      BY <1>10, <1>d, <2>2, <2>3, <3>1 DEF RecoverProbes, StoreSnapshot
  <2>4. CASE Becomes("boot", [b EXCEPT !.pc = "write", !.todo = SnapshotSettings(b.snap.to)])
             /\ UNCHANGED <<file, mem>>
    <3> DEFINE todo == SnapshotSettings(b.snap.to)
               r == [b EXCEPT !.pc = "write", !.todo = todo]
    <3>1. todo \in Seq(Values) /\ Len(todo) <= 3
      <4>1. b.snap.to \in Settings
        BY <2>2 DEF Snapshots
      <4>2. QED
        BY <4>1, SnapshotIsValues
    <3>2. Becomes("boot", r)
      BY <2>4
    <3> HIDE DEF todo, b
    <3>3. /\ r \in OpRecord /\ r.kind = b.kind /\ r.snap = b.snap /\ r.seen = b.seen
          /\ r.todo = todo
      BY <2>1, <3>1 DEF OpRecord, Pcs
    <3> HIDE DEF r
    <3>4. Filled(r)
      BY <2>2, <3>1, <3>3 DEF Filled, Restoring
    <3>5. ops' \in [Slots -> Op]
      BY <1>a, <3>2, <3>3, <3>4, MovesForm DEF Op
    <3>6. QED
      BY <1>10, <1>d, <2>4, <3>5 DEF RecoverProbes
  <2>5. QED
    BY <1>10, <2>3, <2>4 DEF RecoverProbes
<1>11. QED
  BY <1>1, <1>2, <1>3, <1>4, <1>5, <1>6, <1>7, <1>8, <1>9, <1>10 DEF Restores

LEMMA TypesInductive ==
  ASSUME TypeInv, [Next]_vars
  PROVE  TypeInv'
<1>1. CASE UNCHANGED vars
  BY <1>1 DEF vars, env, TypeInv
<1>2. CASE Enabling \/ Machine
  BY <1>2, EnablingKeepsTypes, MachineKeepsTypes
<1>3. CASE \/ RecoverProbes \/ (\E kind \in Restoring : RestoreBegins(kind))
           \/ \E slot \in Slots : Restores(slot) \/ WriteValue(slot) \/ WriteFails(slot)
                                    \/ OperationFails(slot)
  <2>1. \E slot \in Slots : TRUE
    BY DEF Slots
  <2>2. QED
    BY <1>3, <2>1, RestoresKeepTypes
<1>4. QED
  BY <1>1, <1>2, <1>3 DEF Next

\* Every variable keeps its type, and every operation is one that its handler
\* can be in, for every set of pids and servers and every mix of faults.
THEOREM TypesAreCorrect == Spec => []TypeOK
<1>1. TypeInv => TypeOK
  BY DEF TypeInv, TypeOK, Op, OpRecord, Filled, Kinds, Pcs
<1>2. QED
  BY TypesInit, TypesInductive, <1>1, PTL DEF Spec

----------------------------------------------------------------------------
(* No operation writes over what it has read as somebody else's.            *)

\* An operation with values left to write has last read settings that are
\* nobody else's, or what its own unfinished write left.
Quiet(op) ==
    /\ op.todo # <<>> => ~op.noticed
    /\ op.pc \notin {"write", "undo"} => op.todo = <<>>
    /\ op.pc = "recheck" => ~External(op.cur)
    /\ op.pc \in {"authenticate", "decide"} /\ op.noticed => External(op.seen)
    /\ op.pc = "probe" => ~op.noticed

QuietInv == \A slot \in Slots : Quiet(ops[slot])

LEMMA IdleIsQuiet == Quiet(Idle)
BY DEF Quiet, Idle

LEMMA BeginsQuiet ==
  ASSUME NEW kind, NEW pid
  PROVE  /\ Quiet([Idle EXCEPT !.kind = kind, !.pc = "read"])
         /\ Quiet([Idle EXCEPT !.kind = kind, !.pc = "read", !.pid = pid])
<1>1. Idle \in OpRecord /\ Idle.todo = <<>> /\ Idle.noticed = FALSE
  BY IdleIsOp DEF Op, Idle
<1>2. Quiet([Idle EXCEPT !.kind = kind, !.pc = "read"])
  BY <1>1 DEF Quiet, OpRecord
<1>3. Quiet([Idle EXCEPT !.kind = kind, !.pc = "read", !.pid = pid])
  BY <1>1 DEF Quiet, OpRecord
<1>4. QED
  BY <1>2, <1>3

LEMMA SlotKeepsQuiet ==
  ASSUME QuietInv, ops \in [Slots -> Op], NEW slot \in Slots, NEW r, Quiet(r),
         Becomes(slot, r)
  PROVE  QuietInv'
<1>1. \A k \in Slots : ops'[k] = r \/ ops'[k] = ops[k]
  BY DEF Becomes
<1>2. \A k \in Slots : Quiet(ops'[k])
  BY <1>1 DEF QuietInv
<1>3. QED
  BY <1>2 DEF QuietInv, Quiet, External, MatchesShape

LEMMA ReadsKeepsQuiet ==
  ASSUME QuietInv, ops \in [Slots -> Op], NEW slot \in Slots, NEW pc, NEW op \in OpRecord,
         Reads(slot, pc, op), Quiet(ops'[slot])
  PROVE  QuietInv'
<1>1. \A k \in Slots : k = slot \/ ops'[k] = ops[k]
  BY ReadsForm
<1>2. \A k \in Slots : Quiet(ops'[k])
  BY <1>1 DEF QuietInv
<1>3. QED
  BY <1>2 DEF QuietInv, Quiet, External, MatchesShape

LEMMA SameOpsQuiet == ASSUME QuietInv, ops' = ops PROVE QuietInv'
BY DEF QuietInv, Quiet, External, MatchesShape

LEMMA EnablingKeepsQuiet ==
  ASSUME TypeInv, QuietInv, Enabling
  PROVE  QuietInv'
<1> DEFINE op == ops["locked"]
<1>a. /\ op \in OpRecord /\ Filled(op) /\ "locked" \in Slots /\ Quiet(op)
      /\ ops \in [Slots -> Op] /\ Nothing \notin Settings
  BY SlotFacts DEF QuietInv, Slots
<1>b. ASSUME Ends("locked") PROVE QuietInv'
  BY <1>a, <1>b, IdleIsQuiet, SlotKeepsQuiet DEF Ends
<1> HIDE DEF op
<1>1. CASE EnableBegins
  BY <1>1, <1>a, BeginsQuiet, SlotKeepsQuiet DEF EnableBegins
<1>2. CASE EnableRefused \/ EnableRefreshes \/ EnableBacksOut \/ RollbackEnds
  BY <1>2, <1>b DEF EnableRefused, EnableRefreshes, EnableBacksOut, RollbackEnds
<1>3. CASE EnableRecords
  <2> DEFINE snap == [to |-> IF Recovering(op) THEN Managed.to ELSE reg, pid |-> op.pid]
             again == Recovering(op)
             r == [op EXCEPT !.cur = reg, !.snap = snap, !.recovering = again]
  <2>1. /\ Reads("locked", "recheck", r) /\ op.pc = "read" /\ ~External(reg)
    BY <1>3 DEF EnableRecords, At, CanEnable, op
  <2>2. again \in BOOLEAN
    BY DEF Recovering, StillOwned, MatchesShape
  <2>3. snap \in Snapshots /\ reg \in Settings
    <3>1. reg \in Settings /\ Managed \in Snapshots \cup {Nothing} /\ op.pid \in Pids
      BY <1>3, <1>a, SlotFacts DEF TypeInv, EnableRecords, At, Filled, op
    <3>2. Recovering(op) => Managed.to \in Settings
      BY <3>1 DEF Recovering, Snapshots
    <3>3. (IF Recovering(op) THEN Managed.to ELSE reg) \in Settings
      BY <3>1, <3>2
    <3>4. QED
      BY <3>1, <3>3 DEF Snapshots
  <2> HIDE DEF snap, again
  <2>4. r \in OpRecord /\ r.cur = reg /\ r.todo = op.todo
    BY <1>a, <2>2, <2>3 DEF OpRecord
  <2> HIDE DEF r
  <2>5. LET q == ops'["locked"] IN q.pc = "recheck" /\ q.cur = reg /\ q.todo = op.todo
    BY <1>a, <2>1, <2>4, ReadsForm
  <2>6. Quiet(ops'["locked"])
    BY <1>a, <2>1, <2>5 DEF Quiet
  <2>7. QED
    BY <1>a, <2>1, <2>4, <2>6, ReadsKeepsQuiet
<1>4. CASE EnableRechecks
  <2> DEFINE todo == MioProxySettings
             r == [op EXCEPT !.todo = todo]
  <2>1. Reads("locked", "write", r) /\ op.pc = "recheck" /\ reg = op.cur
    BY <1>4 DEF EnableRechecks, At, op
  <2>2. todo \in Seq(Values)
    BY OwnIsValues
  <2> HIDE DEF todo
  <2>3. r \in OpRecord /\ r.cur = op.cur
    BY <1>a, <2>2 DEF OpRecord
  <2> HIDE DEF r
  <2>4. ~External(reg)
    BY <1>a, <2>1 DEF Quiet
  <2>5. ~Notices(r)
    BY <2>4 DEF Notices
  <2>6. ops'["locked"].pc = "write" /\ ops'["locked"].noticed = Notices(r)
    BY <1>a, <2>1, <2>3, ReadsForm
  <2>7. Quiet(ops'["locked"])
    BY <2>5, <2>6 DEF Quiet
  <2>8. QED
    BY <1>a, <2>1, <2>3, <2>7, ReadsKeepsQuiet
<1>5. CASE EnableVerifies
  <2>1. CASE Ends("locked")
    BY <2>1, <1>b
  <2>2. CASE Reads("locked", "rollback", op)
    <3>1. op.todo = <<>>
      BY <1>5 DEF EnableVerifies, op
    <3>2. ops'["locked"].pc = "rollback" /\ ops'["locked"].todo = <<>>
      BY <1>a, <2>2, <3>1, ReadsForm
    <3>3. Quiet(ops'["locked"])
      BY <3>2 DEF Quiet
    <3>4. QED
      BY <1>a, <2>2, <3>3, ReadsKeepsQuiet
  <2>3. QED
    BY <1>5, <2>1, <2>2 DEF EnableVerifies, op
<1>6. CASE RollbackObserves
  <2>1. CASE Ends("locked")
    BY <2>1, <1>b
  <2>2. CASE Reads("locked", "confirm", [op EXCEPT !.seen = reg])
    <3> DEFINE r == [op EXCEPT !.seen = reg]
    <3>1. op.todo = <<>> /\ reg \in Settings
      BY <1>6, <1>a DEF RollbackObserves, At, Quiet, op, TypeInv
    <3>2. r \in OpRecord /\ r.todo = op.todo
      BY <1>a, <3>1 DEF OpRecord
    <3>3. Reads("locked", "confirm", r)
      BY <2>2
    <3> HIDE DEF r
    <3>4. ops'["locked"].pc = "confirm" /\ ops'["locked"].todo = <<>>
      BY <1>a, <3>1, <3>2, <3>3, ReadsForm
    <3>5. Quiet(ops'["locked"])
      BY <3>4 DEF Quiet
    <3>6. QED
      BY <1>a, <3>2, <3>3, <3>5, ReadsKeepsQuiet
  <2>3. QED
    BY <1>6, <2>1, <2>2 DEF RollbackObserves, op
<1>7. CASE RollbackConfirms
  <2>1. CASE Ends("locked")
    BY <2>1, <1>b
  <2>2. CASE /\ StepStillOwned(reg, op.cur, op.pid, Listener)
             /\ Reads("locked", "undo", [op EXCEPT !.todo = SnapshotSettings(op.cur)])
    <3> DEFINE todo == SnapshotSettings(op.cur)
               r == [op EXCEPT !.todo = todo]
    <3>1. op.cur \in Settings
      BY <1>7, <1>a DEF RollbackConfirms, At, Filled, op
    <3>2. todo \in Seq(Values)
      BY <3>1, SnapshotIsValues
    <3>3. Reads("locked", "undo", r)
      BY <2>2
    <3> HIDE DEF todo
    <3>4. r \in OpRecord /\ r.cur = op.cur
      BY <1>a, <3>2 DEF OpRecord
    <3> HIDE DEF r
    <3>5. External(reg) => reg \in KnownSteps(r.cur)
      BY <2>2, <3>4 DEF StepStillOwned, StillOwned, External
    <3>6. ~Notices(r)
      BY <1>a, <3>1, <3>4, <3>5 DEF Notices
    <3>7. ops'["locked"].pc = "undo" /\ ops'["locked"].noticed = Notices(r)
      BY <1>a, <3>3, <3>4, ReadsForm
    <3>8. Quiet(ops'["locked"])
      BY <3>6, <3>7 DEF Quiet
    <3>9. QED
      BY <1>a, <3>3, <3>4, <3>8, ReadsKeepsQuiet
  <2>3. QED
    BY <1>7, <2>1, <2>2 DEF RollbackConfirms, op
<1>8. QED
  BY <1>1, <1>2, <1>3, <1>4, <1>5, <1>6, <1>7 DEF Enabling

LEMMA RestoresKeepQuiet ==
  ASSUME TypeInv, QuietInv, NEW slot \in Slots,
         Restores(slot) \/ WriteValue(slot) \/ WriteFails(slot) \/ OperationFails(slot)
           \/ RecoverProbes \/ (\E kind \in Restoring : RestoreBegins(kind))
  PROVE  QuietInv'
<1> DEFINE op == ops[slot]
<1>a. /\ op \in OpRecord /\ Filled(op) /\ Quiet(op)
      /\ "locked" \in Slots /\ "boot" \in Slots
      /\ ops \in [Slots -> Op] /\ Nothing \notin Settings
      /\ Recorded(slot) \in Snapshots \cup {Nothing} /\ Listener \in Listeners
      /\ reg \in Settings /\ core \in Pids \cup {Nothing}
  BY SlotFacts DEF QuietInv, TypeInv
<1>b. ASSUME NEW k \in Slots, Ends(k) PROVE QuietInv'
  BY <1>a, <1>b, IdleIsQuiet, SlotKeepsQuiet DEF Ends
<1>c. ASSUME NEW k \in Slots, NEW r, Becomes(k, r), Quiet(r) PROVE QuietInv'
  BY <1>a, <1>c, SlotKeepsQuiet
<1> HIDE DEF op
<1>1. CASE \E kind \in Restoring : RestoreBegins(kind)
  BY <1>1, <1>a, BeginsQuiet, SlotKeepsQuiet DEF RestoreBegins
<1>2. CASE NothingRecorded(slot) \/ RestoreEnds(slot)
  BY <1>2, <1>b DEF NothingRecorded, RestoreEnds, RestoreDone
<1>3. CASE RestoreReads(slot)
  <2> DEFINE r == [op EXCEPT !.snap = Recorded(slot), !.seen = reg, !.pid = Listener]
             pc == IF Listener \in {Nothing, Recorded(slot).pid} THEN "decide" ELSE "authenticate"
  <2>1. op.pc = "read" /\ Recorded(slot) \in Snapshots /\ Reads(slot, pc, r)
    BY <1>3, <1>a DEF RestoreReads, op
  <2>2. r \in OpRecord /\ r.seen = reg /\ r.todo = op.todo
    BY <1>a, <2>1 DEF OpRecord
  <2>3. pc \in {"decide", "authenticate"} /\ op.todo = <<>>
    BY <1>a, <2>1 DEF Quiet
  <2> HIDE DEF r, pc
  <2>4. LET q == ops'[slot] IN /\ q.pc = pc /\ q.todo = <<>> /\ q.seen = reg
                               /\ q.noticed = Notices(r)
    BY <1>a, <2>1, <2>2, <2>3, ReadsForm
  <2>5. Notices(r) => External(reg)
    BY DEF Notices
  <2>6. Quiet(ops'[slot])
    BY <2>3, <2>4, <2>5 DEF Quiet
  <2>7. QED
    BY <1>a, <2>1, <2>2, <2>6, ReadsKeepsQuiet
<1>4. CASE RestoreAuthenticates(slot)
  <2>1. PICK expected \in Pids \cup {Nothing} :
          Becomes(slot, Authenticated(op, expected))
    BY <1>4, <1>a DEF RestoreAuthenticates, Authenticated, op
  <2>2. op.pc = "authenticate" /\ op.snap \in Snapshots
    BY <1>4, <1>a DEF RestoreAuthenticates, Filled, op
  <2> DEFINE r == Authenticated(op, expected)
  <2>3. r.pc = "decide" /\ r.todo = op.todo /\ r.noticed = op.noticed /\ r.seen = op.seen
    BY <1>a, <2>2, NamedForm
  <2> HIDE DEF r
  <2>4. Quiet(r)
    BY <1>a, <2>2, <2>3 DEF Quiet
  <2>5. QED
    BY <1>c, <2>1, <2>4 DEF r
<1>5. CASE RestoreDecides(slot)
  <2>1. op.pc = "decide"
    BY <1>5 DEF RestoreDecides, op
  <2>2. CASE ForgetSnapshot /\ RestoreDone(slot)
    BY <1>b, <2>2 DEF RestoreDone
  <2>3. CASE MatchesShape(op.seen, TRUE) /\ Moves(slot, "probe")
    <3> DEFINE r == [op EXCEPT !.pc = "probe"]
    <3>1. r.pc = "probe" /\ r.todo = op.todo /\ r.noticed = op.noticed
      BY <1>a DEF OpRecord
    <3>2. Becomes(slot, r)
      BY <2>3 DEF Moves, op
    <3> HIDE DEF r
    <3>3. Quiet(r)
      BY <1>a, <2>1, <2>3, <3>1 DEF Quiet, External
    <3>4. QED
      BY <1>c, <3>2, <3>3
  <2>4. CASE /\ MatchesShape(op.seen, TRUE)
             /\ Becomes(slot, [op EXCEPT !.pc = "write", !.todo = SnapshotSettings(op.snap.to)])
    <3> DEFINE todo == SnapshotSettings(op.snap.to)
               r == [op EXCEPT !.pc = "write", !.todo = todo]
    <3> HIDE DEF todo
    <3>1. r.pc = "write" /\ r.noticed = op.noticed
      BY <1>a DEF OpRecord
    <3>2. Becomes(slot, r)
      BY <2>4 DEF todo
    <3> HIDE DEF r
    <3>3. Quiet(r)
      BY <1>a, <2>1, <2>4, <3>1 DEF Quiet, External
    <3>4. QED
      BY <1>c, <3>2, <3>3
  <2>5. QED
    BY <1>5, <2>2, <2>3, <2>4 DEF RestoreDecides, StillOwned, op
<1>6. CASE WriteValue(slot)
  <2> DEFINE todo == Tail(op.todo)
             r == [op EXCEPT !.todo = todo]
  <2>1. Becomes(slot, r) /\ op.pc \in {"write", "undo"} /\ op.todo # <<>>
    BY <1>6 DEF WriteValue, op
  <2> HIDE DEF todo
  <2>2. r.pc = op.pc /\ r.noticed = op.noticed
    BY <1>a DEF OpRecord
  <2> HIDE DEF r
  <2>3. Quiet(r)
    BY <1>a, <2>1, <2>2 DEF Quiet
  <2>4. QED
    BY <1>c, <2>1, <2>3
<1>7. CASE WriteFails(slot)
  <2>1. CASE Ends(slot)
    BY <2>1, <1>b
  <2>2. CASE Becomes(slot, [op EXCEPT !.pc = "rollback", !.todo = <<>>])
    <3> DEFINE nothing == <<>>
               r == [op EXCEPT !.pc = "rollback", !.todo = nothing]
    <3>1. Becomes(slot, r) /\ nothing = <<>>
      BY <2>2
    <3> HIDE DEF nothing
    <3>2. r.pc = "rollback" /\ r.todo = <<>>
      BY <1>a, <3>1 DEF OpRecord
    <3> HIDE DEF r
    <3>3. Quiet(r)
      BY <3>2 DEF Quiet
    <3>4. QED
      BY <1>c, <3>1, <3>3
  <2>3. QED
    BY <1>7, <2>1, <2>2 DEF WriteFails, op
<1>8. CASE OperationFails(slot)
  BY <1>8, <1>b DEF OperationFails
<1>9. CASE RecoverProbes
  <2> DEFINE b == ops["boot"]
             todo == SnapshotSettings(b.snap.to)
             r == [b EXCEPT !.pc = "write", !.todo = todo]
  <2>1. b \in OpRecord /\ Quiet(b) /\ b.pc = "probe"
    BY <1>9, <1>a, SlotFacts DEF QuietInv, RecoverProbes, At
  <2>2. CASE Ends("boot")
    BY <1>a, <1>b, <2>2
  <2>3. CASE Becomes("boot", r)
    <3>1. Becomes("boot", r)
      BY <2>3
    <3> HIDE DEF b, todo
    <3>2. r.pc = "write" /\ r.noticed = b.noticed
      BY <2>1 DEF OpRecord
    <3> HIDE DEF r
    <3>3. Quiet(r)
      BY <2>1, <3>2 DEF Quiet
    <3>4. QED
      BY <1>a, <1>c, <3>1, <3>3
  <2>4. QED
    BY <1>9, <2>2, <2>3 DEF RecoverProbes
<1>10. QED
  BY <1>1, <1>2, <1>3, <1>4, <1>5, <1>6, <1>7, <1>8, <1>9 DEF Restores

LEMMA QuietInductive ==
  ASSUME TypeInv, QuietInv, [Next]_vars
  PROVE  QuietInv'
<1>1. CASE UNCHANGED vars
  BY <1>1, SameOpsQuiet DEF vars
<1>2. CASE Enabling
  BY <1>2, EnablingKeepsQuiet
<1>3. CASE Machine
  <2>1. ops \in [Slots -> Op] /\ "boot" \in Slots
    BY DEF TypeInv, Slots
  <2>2. CASE GuiStarts
    BY <2>1, <2>2, BeginsQuiet, SlotKeepsQuiet DEF GuiStarts
  <2>3. CASE GuiDies
    <3>1. \A k \in Slots : Quiet(ops'[k])
      BY <2>3, IdleIsQuiet DEF GuiDies
    <3>2. QED
      BY <3>1 DEF QuietInv, Quiet, External, MatchesShape
  <2>4. CASE ops' = ops
    BY <2>4, SameOpsQuiet
  <2>5. QED
    BY <1>3, <2>2, <2>3, <2>4
    DEF Machine, CoreStarts, CoreExits, PortTaken, PortReleased, OthersWrite
<1>4. CASE \/ RecoverProbes \/ (\E kind \in Restoring : RestoreBegins(kind))
           \/ \E slot \in Slots : Restores(slot) \/ WriteValue(slot) \/ WriteFails(slot)
                                    \/ OperationFails(slot)
  <2>1. \E slot \in Slots : TRUE
    BY DEF Slots
  <2>2. QED
    BY <1>4, <2>1, RestoresKeepQuiet
<1>5. QED
  BY <1>1, <1>2, <1>3, <1>4 DEF Next

\* Neither set_enabled, nor its rollback, nor any restore writes a value over
\* settings that it has itself read as another program's, whatever crashes,
\* failing writes, restarts of the core and other programs come in between.
THEOREM ExternalIsKept == Spec => ExternalKept
<1> DEFINE Kept == \A slot \in Slots :
             ops[slot].todo # <<>> /\ ops'[slot].todo = Tail(ops[slot].todo)
               /\ ops'[slot].kind # "none" => ~ops[slot].noticed
<1>1. Init => QuietInv
  BY IdleIsQuiet DEF Init, QuietInv
<1>2. QuietInv /\ [Next]_vars => [Kept]_vars
  BY DEF QuietInv, Quiet
<1>3. QED
  BY TypesInit, TypesInductive, QuietInductive, <1>1, <1>2, PTL DEF Spec, ExternalKept

----------------------------------------------------------------------------
(* The way back is recorded as long as Windows points here.                 *)

\* One operation at a time, of a kind that its slot runs, and none while the
\* GUI is down.
Alone ==
    /\ ops["boot"].kind = "none" \/ ops["locked"].kind = "none"
    /\ ops["boot"].kind \in {"none", "boot"} /\ ops["locked"].kind # "boot"
    /\ ~gui => mem = Nothing /\ ops["boot"].kind = "none" /\ ops["locked"].kind = "none"

\* The records name the core that runs, if one does.
Named ==
    /\ mem # Nothing => file # Nothing
    /\ core # Nothing /\ file # Nothing => file.pid = core
    /\ core # Nothing /\ mem # Nothing => mem.pid = core
    /\ core # Nothing /\ ops["locked"].kind = "enable" => ops["locked"].pid = core

\* MioProxy's own settings are never those to go back to.
Neutral ==
    /\ file # Nothing => ~MatchesShape(file.to, TRUE)
    /\ mem # Nothing => ~MatchesShape(mem.to, TRUE)

\* The settings `to' are being written, with `todo' left: what is already
\* written is what Windows has (r), as far as MioProxy wrote it last (m).
Undoing(todo, to, r, m) ==
    \/ todo = << <<"on", to.on>>, <<"server", to.server>>, <<"auto", to.auto>> >>
    \/ /\ todo = << <<"server", to.server>>, <<"auto", to.auto>> >>
       /\ "on" \in m => r.on = to.on
    \/ /\ todo = << <<"auto", to.auto>> >>
       /\ "on" \in m /\ "server" \in m => r.on = to.on /\ r.server = to.server
    \/ /\ todo = <<>>
       /\ "on" \in m /\ "server" \in m => r = to

\* What an enable relies on once it has recorded what it found.
EnableOk(op) ==
    /\ op.pc # "read" => /\ file # Nothing /\ op.snap.pid = op.pid
                         /\ ~MatchesShape(op.cur, TRUE) /\ ~MatchesShape(op.snap.to, TRUE)
    /\ op.pc = "recheck" => ~MatchesShape(reg, TRUE)
    /\ op.pc = "undo" => Undoing(op.todo, op.cur, reg, mine)

\* What a restore or a recovery relies on after its reads.
RestoreOk(op) ==
    /\ op.pc # "read" => file # Nothing /\ ~MatchesShape(op.snap.to, TRUE)
    /\ op.pc \in {"authenticate", "decide"} =>
         /\ MatchesShape(reg, TRUE) => MatchesShape(op.seen, TRUE)
         /\ op.pid = Foreign => mine = {}
    /\ op.pc = "authenticate" => op.pid = Foreign
    /\ op.pc = "decide" => \/ op.pid \in {Nothing, op.snap.pid}
                           \/ op.pid = Foreign /\ op.snap.pid = Nothing
    /\ op.pc \in {"decide", "probe"} /\ op.kind = "boot" /\ op.pid # Foreign => op.snap = file
    /\ op.pc = "probe" => op.pid # Foreign
    /\ op.pc = "write" => Undoing(op.todo, op.snap.to, reg, mine)

OpOk(op) ==
    /\ op.kind = "none" => op.pc = "idle"
    /\ op.kind = "enable" => EnableOk(op)
    /\ op.kind \in Restoring \cup {"boot"} => RestoreOk(op)

UndoInv ==
    /\ Alone /\ Named /\ Neutral /\ UndoRecorded
    /\ foreign => mine = {}
    /\ \A slot \in Slots : OpOk(ops[slot])

\* Writing the next value keeps to the plan.
LEMMA WriteUndoes ==
  ASSUME reg \in Settings, mine \subseteq Fields, foreign => mine = {},
         NEW to \in Settings, NEW todo, Undoing(todo, to, reg, mine), todo # <<>>,
         reg' = [reg EXCEPT ![Head(todo)[1]] = Head(todo)[2]],
         mine' = IF foreign THEN mine ELSE mine \cup {Head(todo)[1]}
  PROVE  Undoing(Tail(todo), to, reg', mine')
<1>1. CASE todo = << <<"on", to.on>>, <<"server", to.server>>, <<"auto", to.auto>> >>
  <2>1. /\ Head(todo)[1] = "on" /\ Head(todo)[2] = to.on
        /\ Tail(todo) = << <<"server", to.server>>, <<"auto", to.auto>> >>
    BY <1>1
  <2>2. reg'.on = to.on
    BY <2>1 DEF Settings
  <2>3. QED
    BY <2>1, <2>2 DEF Undoing
<1>2. CASE /\ todo = << <<"server", to.server>>, <<"auto", to.auto>> >>
           /\ "on" \in mine => reg.on = to.on
  <2>1. /\ Head(todo)[1] = "server" /\ Head(todo)[2] = to.server
        /\ Tail(todo) = << <<"auto", to.auto>> >>
    BY <1>2
  <2>2. reg'.server = to.server /\ reg'.on = reg.on
    BY <2>1 DEF Settings
  <2>3. "on" \in mine' => "on" \in mine
    BY <2>1
  <2>4. QED
    BY <1>2, <2>1, <2>2, <2>3 DEF Undoing
<1>3. CASE /\ todo = << <<"auto", to.auto>> >>
           /\ "on" \in mine /\ "server" \in mine => reg.on = to.on /\ reg.server = to.server
  <2>1. /\ Head(todo)[1] = "auto" /\ Head(todo)[2] = to.auto /\ Tail(todo) = <<>>
    BY <1>3
  <2>2. /\ reg'.auto = to.auto /\ reg'.on = reg.on /\ reg'.server = reg.server
        /\ reg' \in Settings
    BY <2>1 DEF Settings
  <2>3. "on" \in mine' /\ "server" \in mine' => "on" \in mine /\ "server" \in mine
    BY <2>1
  <2>4. "on" \in mine' /\ "server" \in mine' => reg' = to
    BY <1>3, <2>2, <2>3 DEF Settings
  <2>5. QED
    BY <2>1, <2>4 DEF Undoing
<1>4. QED
  BY <1>1, <1>2, <1>3 DEF Undoing

\* Once everything is written Windows no longer points at MioProxy's port on
\* MioProxy's own account.
LEMMA UndoneIsNotPointed ==
  ASSUME NEW to \in Settings, Undoing(<<>>, to, reg, mine), ~MatchesShape(to, TRUE)
  PROVE  ~PointedHere
<1>1. "on" \in mine /\ "server" \in mine => reg = to
  BY DEF Undoing
<1>2. QED
  BY <1>1 DEF PointedHere

LEMMA PlanBegins ==
  ASSUME NEW to, NEW r, NEW m
  PROVE  Undoing(SnapshotSettings(to), to, r, m)
BY DEF Undoing, SnapshotSettings

LEMMA TwoSlots == \A slot \in Slots : slot = "locked" \/ slot = "boot"
BY DEF Slots

\* A step that is none of this operation's: it changes nothing it relies on, or
\* takes the values that Windows has out of MioProxy's hands.
LEMMA OthersKeepOp ==
  ASSUME NEW slot \in Slots, OpOk(ops[slot]), ops'[slot] = ops[slot], file' = file,
         \/ reg' = reg /\ mine' = mine
         \/ /\ "on" \notin mine' /\ (mine = {} => mine' = {})
            /\ MatchesShape(reg', TRUE) => MatchesShape(reg, TRUE)
  PROVE  OpOk(ops[slot])'
<1> DEFINE op == ops[slot]
<1>1. \A todo, to : Undoing(todo, to, reg, mine) => Undoing(todo, to, reg', mine')
  BY DEF Undoing
<1>2. op.kind = "enable" => EnableOk(op)'
  <2>1. SUFFICES ASSUME op.kind = "enable" PROVE EnableOk(op)'
    OBVIOUS
  <2>2. EnableOk(op)
    BY <2>1 DEF OpOk
  <2>3. op' = op
    OBVIOUS
  <2>4. op.pc = "undo" => Undoing(op.todo, op.cur, reg', mine')
    BY <1>1, <2>2 DEF EnableOk
  <2>5. op.pc = "recheck" => ~MatchesShape(reg', TRUE)
    BY <2>2 DEF EnableOk
  <2>6. op.pc # "read" => file' # Nothing
    BY <2>2 DEF EnableOk
  <2> HIDE DEF op
  <2>7. QED
    BY <2>2, <2>3, <2>4, <2>5, <2>6 DEF EnableOk, MatchesShape
<1>3. op.kind \in Restoring \cup {"boot"} => RestoreOk(op)'
  <2>1. SUFFICES ASSUME op.kind \in Restoring \cup {"boot"} PROVE RestoreOk(op)'
    OBVIOUS
  <2>2. RestoreOk(op)
    BY <2>1 DEF OpOk
  <2>3. op' = op
    OBVIOUS
  <2>4. op.pc = "write" => Undoing(op.todo, op.snap.to, reg', mine')
    BY <1>1, <2>2 DEF RestoreOk
  <2>5. op.pc \in {"authenticate", "decide"} =>
          /\ MatchesShape(reg', TRUE) => MatchesShape(op.seen, TRUE)
          /\ op.pid = Foreign => mine' = {}
    BY <2>2 DEF RestoreOk
  <2>6. /\ op.pc # "read" => file' # Nothing /\ ~MatchesShape(op.snap.to, TRUE)
        /\ op.pc \in {"decide", "probe"} /\ op.kind = "boot" /\ op.pid # Foreign => op.snap = file'
    BY <2>2 DEF RestoreOk
  <2> HIDE DEF op
  <2>7. QED
    BY <2>2, <2>3, <2>4, <2>5, <2>6 DEF RestoreOk, MatchesShape
<1>4. op' = op
  OBVIOUS
<1>5. op.kind = "none" => op.pc = "idle"
  BY DEF OpOk
<1> HIDE DEF op
<1>6. OpOk(op)'
  BY <1>2, <1>3, <1>4, <1>5 DEF OpOk
<1>7. QED
  BY <1>6 DEF op

LEMMA IdleSlotOk ==
  ASSUME NEW slot \in Slots, ops'[slot].kind = "none", ops'[slot].pc = "idle"
  PROVE  OpOk(ops[slot])'
BY DEF OpOk, Restoring

LEMMA MachineKeepsUndo ==
  ASSUME "restart" \notin Faults, TypeInv, UndoInv, Machine
  PROVE  UndoInv'
<1>a. /\ Alone /\ Named /\ Neutral /\ UndoRecorded /\ (foreign => mine = {})
      /\ \A slot \in Slots : OpOk(ops[slot])
      /\ ops \in [Slots -> Op] /\ "locked" \in Slots /\ "boot" \in Slots
  BY DEF UndoInv, TypeInv, Slots
<1>b. ASSUME /\ ops' = ops /\ file' = file
             /\ \/ reg' = reg /\ mine' = mine
                \/ /\ "on" \notin mine' /\ (mine = {} => mine' = {})
                   /\ MatchesShape(reg', TRUE) => MatchesShape(reg, TRUE)
      PROVE  (\A slot \in Slots : OpOk(ops[slot]))'
  BY <1>a, <1>b, OthersKeepOp
<1>1. CASE GuiStarts
  <2>1. /\ UNCHANGED <<reg, mine, file, mem, core, foreign>> /\ ~gui /\ gui' = TRUE
        /\ ops' = [ops EXCEPT !["boot"] = [Idle EXCEPT !.kind = "boot", !.pc = "read"]]
    BY <1>1 DEF GuiStarts, Becomes, env
  <2>2. ops'["locked"] = ops["locked"] /\ ops["locked"].kind = "none"
    BY <1>a, <2>1 DEF Alone
  <2>3. ops'["boot"].kind = "boot" /\ ops'["boot"].pc = "read"
    BY <1>a, <2>1 DEF Idle
  <2>4. OpOk(ops["boot"])'
    BY <2>3 DEF OpOk, RestoreOk
  <2>5. OpOk(ops["locked"])'
    BY <1>a, <2>1, <2>2, OthersKeepOp
  <2>6. (\A slot \in Slots : OpOk(ops[slot]))'
    BY <2>4, <2>5, TwoSlots
  <2>7. Alone' /\ Named' /\ Neutral' /\ UndoRecorded' /\ (foreign => mine = {})'
    BY <1>a, <2>1, <2>2, <2>3 DEF Alone, Named, Neutral, UndoRecorded, PointedHere, MatchesShape
  <2>8. QED
    BY <2>6, <2>7 DEF UndoInv
<1>2. CASE GuiDies
  <2>1. /\ UNCHANGED <<reg, mine, file, core, foreign>> /\ gui' = FALSE /\ mem' = Nothing
        /\ ops' = [slot \in Slots |-> Idle]
    BY <1>2 DEF GuiDies, env
  <2>2. \A slot \in Slots : ops'[slot].kind = "none" /\ ops'[slot].pc = "idle"
    BY <2>1 DEF Idle
  <2>3. (\A slot \in Slots : OpOk(ops[slot]))'
    BY <2>2, IdleSlotOk
  <2>4. Alone' /\ Named' /\ Neutral' /\ UndoRecorded' /\ (foreign => mine = {})'
    BY <1>a, <2>1, <2>2 DEF Alone, Named, Neutral, UndoRecorded, PointedHere, MatchesShape
  <2>5. QED
    BY <2>3, <2>4 DEF UndoInv
<1>3. CASE CoreStarts \/ CoreExits \/ PortReleased
  <2>1. UNCHANGED <<reg, mine, file, mem, gui, ops>>
    BY <1>3 DEF CoreStarts, CoreExits, PortReleased, env
  <2>2. Named'
    BY <1>3, <1>a, <2>1 DEF CoreStarts, CoreExits, PortReleased, Named
  <2>3. (foreign => mine = {})'
    BY <1>3, <1>a, <2>1 DEF CoreStarts, CoreExits, PortReleased
  <2>4. Alone' /\ Neutral' /\ UndoRecorded'
    BY <1>a, <2>1 DEF Alone, Neutral, UndoRecorded, PointedHere, MatchesShape
  <2>5. QED
    BY <1>b, <2>1, <2>2, <2>3, <2>4 DEF UndoInv
<1>4. CASE PortTaken \/ OthersWrite
  <2>1. /\ UNCHANGED <<file, mem, gui, core, ops>>
        /\ "on" \notin mine' /\ (mine = {} => mine' = {}) /\ (foreign' => mine' = {})
    BY <1>4, <1>a DEF PortTaken, OthersWrite, env
  <2>2. MatchesShape(reg', TRUE) => MatchesShape(reg, TRUE)
    <3>1. CASE PortTaken
      BY <3>1 DEF PortTaken
    <3>2. CASE OthersWrite /\ reg' \in {s \in Settings : s.server # Own /\ External(s)}
      BY <3>2 DEF MatchesShape
    <3>3. CASE OthersWrite /\ reg' = [reg EXCEPT !.on = FALSE]
      BY <3>3 DEF MatchesShape, TypeInv, Settings
    <3>4. QED
      BY <1>4, <3>1, <3>2, <3>3 DEF OthersWrite
  <2>3. Alone' /\ Named' /\ Neutral' /\ UndoRecorded'
    BY <1>a, <2>1 DEF Alone, Named, Neutral, UndoRecorded, PointedHere, MatchesShape
  <2>4. QED
    BY <1>b, <2>1, <2>2, <2>3 DEF UndoInv
<1>5. QED
  BY <1>1, <1>2, <1>3, <1>4 DEF Machine

\* An operation ends: what it does to the records must leave a way back.
LEMMA EndKeepsUndo ==
  ASSUME TypeInv, UndoInv, NEW slot \in Slots, ops[slot].kind # "none", Ends(slot),
         UNCHANGED <<reg, mine, env>>,
         gui' = gui \/ (gui' = FALSE /\ mem' = Nothing),
         \/ UNCHANGED <<file, mem>>
         \/ file' = Nothing /\ mem' = Nothing /\ ~PointedHere
         \/ /\ file' # Nothing /\ mem' = file' /\ (core # Nothing => file'.pid = core)
            /\ ~MatchesShape(file'.to, TRUE)
  PROVE  UndoInv'
<1>a. /\ Alone /\ Named /\ Neutral /\ UndoRecorded /\ (foreign => mine = {})
      /\ \A k \in Slots : OpOk(ops[k])
      /\ ops \in [Slots -> Op] /\ "locked" \in Slots /\ "boot" \in Slots
  BY DEF UndoInv, TypeInv, Slots
<1>1. ops' = [ops EXCEPT ![slot] = Idle] /\ core' = core /\ foreign' = foreign
      /\ reg' = reg /\ mine' = mine
  BY DEF Ends, Becomes, env
<1>2. ops'[slot].kind = "none" /\ ops'[slot].pc = "idle"
  BY <1>a, <1>1 DEF Idle
<1>3. \A k \in Slots : k # slot => ops'[k] = ops[k] /\ ops[k].kind = "none" /\ ops[k].pc = "idle"
  BY <1>a, <1>1, TwoSlots DEF Alone, OpOk
<1>4. \A k \in Slots : ops'[k].kind = "none" /\ ops'[k].pc = "idle"
  BY <1>2, <1>3
<1>5. (\A k \in Slots : OpOk(ops[k]))'
  BY <1>4, IdleSlotOk
<1>6. Alone'
  <2>1. gui /\ (gui' = gui \/ mem' = Nothing)
    BY <1>a, TwoSlots DEF Alone
  <2>2. QED
    BY <1>a, <1>4, <2>1 DEF Alone
<1>7. Named' /\ Neutral'
  BY <1>a, <1>1, <1>4 DEF Named, Neutral, MatchesShape
<1>8. UndoRecorded' /\ (foreign => mine = {})'
  BY <1>a, <1>1 DEF UndoRecorded, PointedHere, MatchesShape
<1>9. QED
  BY <1>5, <1>6, <1>7, <1>8 DEF UndoInv

\* An operation goes on without touching the settings or the records.
LEMMA GoesOnKeepsUndo ==
  ASSUME TypeInv, UndoInv, NEW slot \in Slots, ops[slot].kind # "none",
         ops'[slot].kind = ops[slot].kind, ops'[slot].pid = ops[slot].pid \/ ops[slot].kind # "enable",
         \A k \in Slots : k # slot => ops'[k] = ops[k],
         UNCHANGED <<reg, mine, mem, gui, env>>, OpOk(ops[slot])',
         \/ file' = file
         \/ /\ file' # Nothing /\ (core # Nothing => file'.pid = core)
            /\ ~MatchesShape(file'.to, TRUE)
  PROVE  UndoInv'
<1>a. /\ Alone /\ Named /\ Neutral /\ UndoRecorded /\ (foreign => mine = {})
      /\ \A k \in Slots : OpOk(ops[k])
      /\ ops \in [Slots -> Op] /\ "locked" \in Slots /\ "boot" \in Slots
  BY DEF UndoInv, TypeInv, Slots
<1>1. core' = core /\ foreign' = foreign /\ reg' = reg /\ mine' = mine /\ mem' = mem /\ gui' = gui
  BY DEF env
<1>3. \A k \in Slots : k # slot => ops'[k] = ops[k] /\ ops[k].kind = "none" /\ ops[k].pc = "idle"
  BY <1>a, <1>1, TwoSlots DEF Alone, OpOk
<1>5. (\A k \in Slots : OpOk(ops[k]))'
  <2>1. \A k \in Slots : OpOk(ops[k])'
    BY <1>3, IdleSlotOk
  <2>2. QED
    BY <2>1
<1>6. Alone'
  BY <1>a, <1>1, <1>3, TwoSlots DEF Alone
<1>7. Named' /\ Neutral'
  <2>1. ops'["locked"].kind = ops["locked"].kind
        /\ (ops["locked"].kind = "enable" => ops'["locked"].pid = ops["locked"].pid)
    BY <1>a, <1>3, TwoSlots
  <2>2. QED
    BY <1>a, <1>1, <2>1 DEF Named, Neutral, MatchesShape
<1>8. UndoRecorded' /\ (foreign => mine = {})'
  BY <1>a, <1>1 DEF UndoRecorded, PointedHere, MatchesShape
<1>9. QED
  BY <1>5, <1>6, <1>7, <1>8 DEF UndoInv

\* A snapshot that an operation stores or goes by names the running core and
\* leads away from MioProxy's port.
LEMMA ManagedFacts ==
  ASSUME TypeInv, UndoInv, Managed # Nothing
  PROVE  /\ file # Nothing /\ Managed \in Snapshots
         /\ core # Nothing => Managed.pid = core
         /\ ~MatchesShape(Managed.to, TRUE)
BY DEF TypeInv, UndoInv, Named, Neutral, Managed

\* An operation begins while no other is under way.
LEMMA BeginningKeepsUndo ==
  ASSUME TypeInv, UndoInv, gui, NEW r,
         ops["locked"].kind = "none", ops["boot"].kind = "none",
         r.kind \in Restoring \cup {"enable"}, r.pc = "read",
         r.kind = "enable" => r.pid = core,
         Becomes("locked", r), UNCHANGED <<reg, mine, file, mem, gui, env>>
  PROVE  UndoInv'
<1>a. /\ Alone /\ Named /\ Neutral /\ UndoRecorded /\ (foreign => mine = {})
      /\ \A k \in Slots : OpOk(ops[k])
      /\ ops \in [Slots -> Op] /\ "locked" \in Slots /\ "boot" \in Slots
  BY DEF UndoInv, TypeInv, Slots
<1>1. ops'["locked"] = r /\ ops'["boot"] = ops["boot"]
  BY <1>a DEF Becomes
<1>2. OpOk(ops["locked"])'
  BY <1>1 DEF OpOk, RestoreOk, EnableOk, Restoring
<1>3. OpOk(ops["boot"])'
  BY <1>a, <1>1, OthersKeepOp
<1>4. (\A k \in Slots : OpOk(ops[k]))'
  BY <1>2, <1>3, TwoSlots
<1>5. core' = core /\ foreign' = foreign /\ reg' = reg /\ mine' = mine
      /\ file' = file /\ mem' = mem /\ gui' = gui
  BY DEF env
<1>6. Alone' /\ Named' /\ Neutral' /\ UndoRecorded' /\ (foreign => mine = {})'
  BY <1>a, <1>1, <1>5 DEF Alone, Named, Neutral, UndoRecorded, PointedHere, MatchesShape, Restoring
<1>7. QED
  BY <1>4, <1>6 DEF UndoInv

\* set_enabled goes on to a later look at the settings.
LEMMA EnableGoesOn ==
  ASSUME TypeInv, UndoInv, NEW pc, NEW r \in OpRecord, Reads("locked", pc, r),
         ops["locked"].kind = "enable", r.kind = "enable", r.pid = ops["locked"].pid,
         pc # "read", file' # Nothing, r.snap.pid = r.pid,
         ~MatchesShape(r.cur, TRUE), ~MatchesShape(r.snap.to, TRUE),
         pc = "recheck" => ~MatchesShape(reg, TRUE),
         pc = "undo" => Undoing(r.todo, r.cur, reg, mine),
         UNCHANGED <<reg, mine, mem, gui, env>>,
         \/ file' = file
         \/ (core # Nothing => file'.pid = core) /\ ~MatchesShape(file'.to, TRUE)
  PROVE  UndoInv'
<1>a. ops \in [Slots -> Op] /\ "locked" \in Slots
  BY DEF TypeInv, Slots
<1> DEFINE q == ops'["locked"]
<1>1. /\ q.kind = r.kind /\ q.pc = pc /\ q.cur = r.cur /\ q.snap = r.snap
      /\ q.pid = r.pid /\ q.todo = r.todo
      /\ \A k \in Slots : k # "locked" => ops'[k] = ops[k]
  BY <1>a, ReadsForm
<1>2. OpOk(ops["locked"])'
  <2>1. reg' = reg /\ mine' = mine
    OBVIOUS
  <2>2. q.pc = "undo" => Undoing(q.todo, q.cur, reg', mine')
    BY <1>1, <2>1
  <2>3. /\ q.pc # "read" => /\ file' # Nothing /\ q.snap.pid = q.pid
                             /\ ~MatchesShape(q.cur, TRUE) /\ ~MatchesShape(q.snap.to, TRUE)
        /\ q.pc = "recheck" => ~MatchesShape(reg', TRUE)
        /\ q.kind = "enable"
    BY <1>1, <2>1
  <2>4. QED
    BY <2>2, <2>3 DEF OpOk, EnableOk, MatchesShape, Restoring
<1>3. QED
  BY <1>1, <1>2, <1>a, GoesOnKeepsUndo

LEMMA EnablingKeepsUndo ==
  ASSUME "early" \notin Faults, TypeInv, UndoInv, Enabling
  PROVE  UndoInv'
<1> DEFINE op == ops["locked"]
<1>a. /\ op \in OpRecord /\ Filled(op) /\ "locked" \in Slots
      /\ reg \in Settings /\ Managed \in Snapshots \cup {Nothing}
      /\ Listener \in Listeners /\ core \in Pids \cup {Nothing}
      /\ Nothing \notin Snapshots /\ Nothing \notin Settings
      /\ file \in Snapshots \cup {Nothing}
  BY SlotFacts DEF TypeInv, Slots
<1>b. /\ op.kind = "enable" => EnableOk(op)
      /\ core # Nothing /\ op.kind = "enable" => op.pid = core
      /\ Named /\ Neutral
  BY <1>a DEF UndoInv, OpOk, Named
<1>1. CASE EnableBegins
  <2> DEFINE r == [Idle EXCEPT !.kind = "enable", !.pc = "read", !.pid = core]
  <2>1. r.kind = "enable" /\ r.pc = "read" /\ r.pid = core
    BY DEF Idle
  <2>2. Becomes("locked", r) /\ UNCHANGED <<reg, mine, file, mem, gui, env>> /\ Started
    BY <1>1 DEF EnableBegins
  <2> HIDE DEF r
  <2>3. QED
    BY <2>1, <2>2, BeginningKeepsUndo DEF Started
<1>2. CASE EnableRefused
  BY <1>2, <1>a, EndKeepsUndo DEF EnableRefused, At
<1>3. CASE EnableRefreshes
  <2>1. /\ op.kind = "enable" /\ op.pid \in Pids /\ Managed # Nothing /\ Managed \in Snapshots
        /\ Ends("locked") /\ UNCHANGED <<reg, mine, gui, env>>
    BY <1>3, <1>a DEF EnableRefreshes, At, Filled, AlreadyOn
  <2> DEFINE snap == [Managed EXCEPT !.pid = op.pid]
  <2>2. snap \in Snapshots /\ snap.pid = op.pid /\ snap.to = Managed.to
    BY <2>1 DEF Snapshots
  <2>3. UNCHANGED <<file, mem>> \/ (file' = snap /\ mem' = snap)
    BY <1>3 DEF EnableRefreshes, StoreSnapshot
  <2> HIDE DEF snap
  <2>4. ~MatchesShape(snap.to, TRUE)
    BY <2>1, <2>2, ManagedFacts
  <2>5. QED
    BY <1>a, <1>b, <2>1, <2>2, <2>3, <2>4, EndKeepsUndo
<1>4. CASE EnableRecords
  <2> DEFINE snap == [to |-> IF Recovering(op) THEN Managed.to ELSE reg, pid |-> op.pid]
             again == Recovering(op)
             r == [op EXCEPT !.cur = reg, !.snap = snap, !.recovering = again]
  <2>1. /\ op.kind = "enable" /\ op.pid \in Pids /\ file' = snap
        /\ UNCHANGED <<reg, mine, mem, gui, env>> /\ Reads("locked", "recheck", r)
        /\ CanEnable(reg, Managed # Nothing, FALSE)
    BY <1>4, <1>a DEF EnableRecords, At, Filled
  <2>2. ~MatchesShape(reg, TRUE)
    BY <2>1 DEF CanEnable
  <2>3. again => Managed # Nothing /\ ~MatchesShape(Managed.to, TRUE)
    BY ManagedFacts DEF Recovering
  <2>4. again \in BOOLEAN
    BY DEF Recovering, StillOwned, MatchesShape
  <2>5. /\ snap.pid = op.pid /\ ~MatchesShape(snap.to, TRUE)
    BY <2>2, <2>3
  <2>6. snap \in Snapshots
    <3>1. Recovering(op) => Managed.to \in Settings
      BY <1>a DEF Recovering, Snapshots
    <3>2. (IF Recovering(op) THEN Managed.to ELSE reg) \in Settings
      BY <1>a, <3>1
    <3>3. QED
      BY <2>1, <3>2 DEF Snapshots
  <2> HIDE DEF snap, again
  <2>7. /\ r \in OpRecord /\ r.kind = op.kind /\ r.pid = op.pid
        /\ r.cur = reg /\ r.snap = snap
    BY <1>a, <2>4, <2>6 DEF OpRecord
  <2> HIDE DEF r
  <2>8. file' # Nothing
    BY <1>a, <2>1, <2>6
  <2>9. QED
    BY <1>b, <2>1, <2>2, <2>5, <2>7, <2>8, EnableGoesOn
<1>5. CASE EnableRechecks
  <2> DEFINE own == MioProxySettings
             r == [op EXCEPT !.todo = own]
  <2>1. /\ op.kind = "enable" /\ op.pc = "recheck" /\ UNCHANGED <<reg, mine, file, mem, gui, env>>
        /\ Reads("locked", "write", r)
    BY <1>5 DEF EnableRechecks, At
  <2>2. own \in Seq(Values)
    BY OwnIsValues
  <2> HIDE DEF own
  <2>3. /\ r \in OpRecord /\ r.kind = op.kind /\ r.pid = op.pid
        /\ r.cur = op.cur /\ r.snap = op.snap
    BY <1>a, <2>2 DEF OpRecord
  <2> HIDE DEF r
  <2>4. EnableOk(op)
    BY <1>b, <2>1
  <2>5. QED
    BY <2>1, <2>3, <2>4, EnableGoesOn DEF EnableOk
<1>6. CASE EnableBacksOut
  <2>1. /\ op.kind = "enable" /\ op.pc = "recheck" /\ UNCHANGED <<reg, mine, gui, env>>
        /\ Ends("locked") /\ (UNCHANGED <<file, mem>> \/ (file' = Nothing /\ mem' = Nothing))
    BY <1>6 DEF EnableBacksOut, At, ForgetSnapshot
  <2>2. ~PointedHere
    BY <1>b, <2>1 DEF EnableOk, PointedHere
  <2>3. QED
    BY <1>a, <2>1, <2>2, EndKeepsUndo
<1>7. CASE EnableVerifies
  <2>1. /\ op.kind = "enable" /\ op.pc = "write" /\ UNCHANGED <<reg, mine, gui, env>>
        /\ op.snap \in Snapshots /\ EnableOk(op)
    BY <1>7, <1>a, <1>b DEF EnableVerifies, At, Filled
  <2>2. CASE StoreSnapshot(op.snap) /\ Ends("locked")
    <3>1. file' = op.snap /\ mem' = op.snap /\ op.snap # Nothing
      BY <1>a, <2>1, <2>2 DEF StoreSnapshot
    <3>2. op.snap.pid = op.pid /\ ~MatchesShape(op.snap.to, TRUE)
      BY <2>1 DEF EnableOk
    <3>3. QED
      BY <1>a, <1>b, <2>1, <2>2, <3>1, <3>2, EndKeepsUndo
  <2>3. CASE Reads("locked", "rollback", op) /\ UNCHANGED <<file, mem>>
    BY <1>a, <2>1, <2>3, EnableGoesOn DEF EnableOk
  <2>4. QED
    BY <1>7, <2>2, <2>3 DEF EnableVerifies
<1>8. CASE RollbackObserves
  <2>1. /\ op.kind = "enable" /\ op.pc = "rollback" /\ UNCHANGED <<reg, mine, gui, env>>
        /\ EnableOk(op)
    BY <1>8, <1>b DEF RollbackObserves, At
  <2>2. CASE reg = op.cur /\ Ends("locked")
    <3>1. ~PointedHere
      BY <2>1, <2>2 DEF EnableOk, PointedHere
    <3>2. UNCHANGED <<file, mem>> \/ (file' = Nothing /\ mem' = Nothing)
      BY <1>8, <2>2 DEF RollbackObserves, ForgetSnapshot
    <3>3. QED
      BY <1>a, <2>1, <2>2, <3>1, <3>2, EndKeepsUndo
  <2>3. CASE Ends("locked") /\ UNCHANGED <<file, mem>>
    BY <1>a, <2>1, <2>3, EndKeepsUndo
  <2>4. CASE Reads("locked", "confirm", [op EXCEPT !.seen = reg]) /\ UNCHANGED <<file, mem>>
    <3> DEFINE r == [op EXCEPT !.seen = reg]
    <3>1. /\ r \in OpRecord /\ r.kind = op.kind /\ r.pid = op.pid
          /\ r.cur = op.cur /\ r.snap = op.snap
      BY <1>a DEF OpRecord
    <3>2. Reads("locked", "confirm", r)
      BY <2>4
    <3> HIDE DEF r
    <3>3. QED
      BY <2>1, <2>4, <3>1, <3>2, EnableGoesOn DEF EnableOk
  <2>5. QED
    BY <1>8, <2>2, <2>3, <2>4 DEF RollbackObserves
<1>9. CASE RollbackConfirms
  <2>1. /\ op.kind = "enable" /\ op.pc = "confirm" /\ UNCHANGED <<reg, mine, file, mem, gui, env>>
        /\ EnableOk(op) /\ op.cur \in Settings
    BY <1>9, <1>a, <1>b DEF RollbackConfirms, At, Filled
  <2>2. CASE Ends("locked")
    BY <1>a, <2>1, <2>2, EndKeepsUndo
  <2>3. CASE Reads("locked", "undo", [op EXCEPT !.todo = SnapshotSettings(op.cur)])
    <3> DEFINE todo == SnapshotSettings(op.cur)
               r == [op EXCEPT !.todo = todo]
    <3>1. todo \in Seq(Values) /\ Undoing(todo, op.cur, reg, mine)
      BY <2>1, SnapshotIsValues, PlanBegins
    <3> HIDE DEF todo
    <3>2. /\ r \in OpRecord /\ r.kind = op.kind /\ r.pid = op.pid
          /\ r.cur = op.cur /\ r.snap = op.snap /\ r.todo = todo
      BY <1>a, <3>1 DEF OpRecord
    <3>3. Reads("locked", "undo", r)
      BY <2>3 DEF todo
    <3> HIDE DEF r
    <3>4. QED
      BY <2>1, <3>1, <3>2, <3>3, EnableGoesOn DEF EnableOk
  <2>4. QED
    BY <1>9, <2>2, <2>3 DEF RollbackConfirms
<1>10. CASE RollbackEnds
  <2>1. /\ op.kind = "enable" /\ op.pc = "undo" /\ op.todo = <<>> /\ Ends("locked")
        /\ UNCHANGED <<reg, mine, gui, env>>
        /\ UNCHANGED <<file, mem>> \/ (file' = Nothing /\ mem' = Nothing)
    BY <1>10 DEF RollbackEnds, At, ForgetSnapshot
  <2>2. op.cur \in Settings /\ EnableOk(op)
    BY <1>a, <1>b, <2>1 DEF Filled
  <2>3. Undoing(<<>>, op.cur, reg, mine) /\ ~MatchesShape(op.cur, TRUE)
    BY <2>1, <2>2 DEF EnableOk
  <2>4. ~PointedHere
    BY <2>2, <2>3, UndoneIsNotPointed
  <2>5. QED
    BY <1>a, <2>1, <2>4, EndKeepsUndo
<1>11. QED
  BY <1>1, <1>2, <1>3, <1>4, <1>5, <1>6, <1>7, <1>8, <1>9, <1>10 DEF Enabling

\* What is known while a restore or a recovery runs.
LEMMA RestoreFacts ==
  ASSUME TypeInv, UndoInv, NEW slot \in Slots, ops[slot].kind \in Restoring \cup {"boot"}
  PROVE  /\ RestoreOk(ops[slot]) /\ ops[slot].kind # "none" /\ gui
         /\ ops[slot].kind = "boot" <=> slot = "boot"
         /\ Foreign \notin Pids \cup {Nothing}
         /\ Recorded(slot) # Nothing =>
              /\ file # Nothing /\ Recorded(slot) \in Snapshots
              /\ core # Nothing => Recorded(slot).pid = core
              /\ ~MatchesShape(Recorded(slot).to, TRUE)
         /\ Recorded(slot) = Nothing => mem = Nothing \/ slot = "boot"
<1>1. OpOk(ops[slot]) /\ Alone /\ Named /\ Neutral
  BY DEF UndoInv
<1>2. RestoreOk(ops[slot]) /\ ops[slot].kind # "none"
  BY <1>1 DEF OpOk, Restoring
<1>3. gui /\ (ops[slot].kind = "boot" <=> slot = "boot")
  BY <1>1, <1>2, TwoSlots DEF Alone
<1>4. Recorded(slot) # Nothing =>
        /\ file # Nothing /\ Recorded(slot) \in Snapshots
        /\ core # Nothing => Recorded(slot).pid = core
        /\ ~MatchesShape(Recorded(slot).to, TRUE)
  BY <1>1, ManagedFacts, SlotFacts DEF Recorded, Named, Neutral
<1>5. Recorded(slot) = Nothing => mem = Nothing \/ slot = "boot"
  BY DEF Recorded, Managed
<1>6. QED
  BY <1>2, <1>3, <1>4, <1>5, ConstantsAssumption

\* A restore goes on to its next look.
LEMMA RestoreGoesOn ==
  ASSUME TypeInv, UndoInv, NEW slot \in Slots, ops[slot].kind \in Restoring \cup {"boot"},
         ops'[slot].kind = ops[slot].kind, \A k \in Slots : k # slot => ops'[k] = ops[k],
         UNCHANGED <<reg, mine, file, mem, gui, env>>, RestoreOk(ops[slot])'
  PROVE  UndoInv'
<1>1. ops[slot].kind # "none" /\ ops[slot].kind # "enable"
  BY DEF Restoring
<1>2. OpOk(ops[slot])'
  BY <1>1 DEF OpOk
<1>3. QED
  BY <1>1, <1>2, GoesOnKeepsUndo

\* A restore goes on to write the settings back.
LEMMA RestoreWrites ==
  ASSUME TypeInv, UndoInv, NEW slot \in Slots, ops[slot].kind \in Restoring \cup {"boot"},
         ops[slot].pc # "read",
         Becomes(slot, [ops[slot] EXCEPT !.pc = "write",
                                         !.todo = SnapshotSettings(ops[slot].snap.to)]),
         UNCHANGED <<reg, mine, file, mem, gui, env>>
  PROVE  UndoInv'
<1> DEFINE op == ops[slot]
           todo == SnapshotSettings(op.snap.to)
           r == [op EXCEPT !.pc = "write", !.todo = todo]
<1>1. /\ op \in OpRecord /\ ops \in [Slots -> Op] /\ RestoreOk(op)
  BY SlotFacts, RestoreFacts
<1>2. Undoing(todo, op.snap.to, reg, mine)
  BY PlanBegins
<1>3. Becomes(slot, r)
  OBVIOUS
<1> HIDE DEF todo
<1>4. r.kind = op.kind /\ r.pc = "write" /\ r.todo = todo /\ r.snap = op.snap
  BY <1>1 DEF OpRecord
<1> HIDE DEF r
<1>5. ops'[slot] = r /\ \A k \in Slots : k # slot => ops'[k] = ops[k]
  BY <1>1, <1>3, MovesForm
<1>6. file # Nothing /\ ~MatchesShape(op.snap.to, TRUE)
  BY <1>1 DEF RestoreOk
<1>7. RestoreOk(ops[slot])'
  <2>1. ops'[slot].pc = "write" /\ ops'[slot].snap = op.snap /\ file' # Nothing
        /\ Undoing(ops'[slot].todo, ops'[slot].snap.to, reg', mine')
    BY <1>2, <1>4, <1>5, <1>6
  <2>2. ~MatchesShape(ops'[slot].snap.to, TRUE)
    BY <1>6, <2>1
  <2>3. QED
    BY <2>1, <2>2 DEF RestoreOk, MatchesShape
<1>8. QED
  BY <1>4, <1>5, <1>7, RestoreGoesOn

LEMMA RestoresKeepUndo ==
  ASSUME TypeInv, UndoInv, NEW slot \in Slots, Restores(slot)
  PROVE  UndoInv'
<1> DEFINE op == ops[slot]
<1>a. /\ op \in OpRecord /\ Filled(op) /\ op \in Op /\ ops \in [Slots -> Op]
      /\ Recorded(slot) \in Snapshots \cup {Nothing} /\ Listener \in Listeners
      /\ Nothing \notin Snapshots /\ Nothing \notin Settings
  BY SlotFacts
<1>b. op.kind \in Restoring \cup {"boot"} /\ gui
  BY DEF Restores, NothingRecorded, RestoreReads, RestoreAuthenticates, RestoreDecides, RestoreEnds
<1>c. /\ RestoreOk(op) /\ op.kind # "none" /\ (op.kind = "boot" <=> slot = "boot")
      /\ Foreign \notin Pids \cup {Nothing}
      /\ op.pc # "read" => op.snap \in Snapshots /\ op.seen \in Settings
  BY <1>a, <1>b, RestoreFacts DEF Filled
<1>d. ASSUME RestoreDone(slot), UNCHANGED <<reg, mine, env>>,
             \/ ForgetSnapshot /\ ~PointedHere
             \/ UNCHANGED <<file, mem>> /\ (mem = Nothing \/ slot = "boot")
      PROVE  UndoInv'
  <2>1. Ends(slot) /\ gui' = (op.kind # "quit")
    BY <1>d DEF RestoreDone
  <2>2. gui' = gui \/ (gui' = FALSE /\ mem' = Nothing)
    BY <1>b, <1>c, <1>d, <2>1 DEF ForgetSnapshot
  <2>3. QED
    BY <1>c, <1>d, <2>1, <2>2, EndKeepsUndo DEF ForgetSnapshot
<1>1. CASE NothingRecorded(slot)
  <2>1. mem = Nothing \/ slot = "boot"
    BY <1>1, <1>b, RestoreFacts DEF NothingRecorded
  <2>2. QED
    BY <1>1, <1>d, <2>1 DEF NothingRecorded
<1>2. CASE RestoreReads(slot)
  <2> DEFINE snap == Recorded(slot)
             pc == IF Listener \in {Nothing, snap.pid} THEN "decide" ELSE "authenticate"
             r == [op EXCEPT !.snap = snap, !.seen = reg, !.pid = Listener]
  <2>1. Reads(slot, pc, r) /\ UNCHANGED <<reg, mine, file, mem, gui, env>> /\ snap # Nothing
    BY <1>2 DEF RestoreReads
  <2>2. /\ snap \in Snapshots /\ file # Nothing /\ ~MatchesShape(snap.to, TRUE)
        /\ core # Nothing => snap.pid = core
        /\ slot = "boot" => snap = file
    BY <1>b, <2>1, RestoreFacts DEF Recorded
  <2>3. /\ Listener = Foreign => mine = {}
        /\ Listener \in {Nothing, snap.pid, Foreign}
        /\ snap.pid # Foreign
    <3>1. core \in Pids \cup {Nothing} /\ (foreign => mine = {}) /\ snap.pid \in Pids \cup {Nothing}
      BY <2>2 DEF TypeInv, UndoInv, Snapshots
    <3>2. QED
      BY <1>c, <2>2, <3>1 DEF Listener
  <2>4. /\ pc = "decide" => Listener \in {Nothing, snap.pid}
        /\ pc = "authenticate" => Listener = Foreign
        /\ pc \in {"decide", "authenticate"}
    BY <2>3
  <2> HIDE DEF snap, pc
  <2>5. /\ r \in OpRecord /\ r.kind = op.kind /\ r.snap = snap /\ r.seen = reg
        /\ r.pid = Listener
    BY <1>a, <2>2 DEF OpRecord, TypeInv
  <2> HIDE DEF r
  <2>6. /\ ops'[slot].kind = op.kind /\ ops'[slot].pc = pc /\ ops'[slot].snap = snap
        /\ ops'[slot].seen = reg /\ ops'[slot].pid = Listener
        /\ \A k \in Slots : k # slot => ops'[k] = ops[k]
    BY <1>a, <2>1, <2>5, ReadsForm
  <2>7. RestoreOk(ops[slot])'
    BY <1>c, <2>1, <2>2, <2>3, <2>4, <2>6 DEF RestoreOk, MatchesShape
  <2>8. QED
    BY <1>b, <2>1, <2>6, <2>7, RestoreGoesOn
<1>3. CASE RestoreAuthenticates(slot)
  <2>1. /\ op.pc = "authenticate" /\ UNCHANGED <<reg, mine, file, mem, gui, env>>
        /\ op.snap \in Snapshots
    BY <1>3, <1>c DEF RestoreAuthenticates
  <2>2. op.pid = Foreign /\ mine = {} /\ file # Nothing /\ ~MatchesShape(op.snap.to, TRUE)
        /\ (MatchesShape(reg, TRUE) => MatchesShape(op.seen, TRUE))
    BY <1>c, <2>1 DEF RestoreOk
  <2>3. PICK expected \in {core, Nothing} :
          /\ expected # Nothing => op.pid = core
          /\ Becomes(slot, Authenticated(op, expected))
    BY <1>3 DEF RestoreAuthenticates, Authenticated
  <2>4. expected = Nothing
    BY <1>c, <2>2, <2>3 DEF TypeInv
  <2> DEFINE r == Authenticated(op, expected)
  <2>5. /\ r.kind = op.kind /\ r.pc = "decide" /\ r.snap.to = op.snap.to /\ r.snap.pid = expected
        /\ r.pid = op.pid /\ r.seen = op.seen
    <3>1. expected \in Pids \cup {Nothing}
      BY <2>4
    <3>2. QED
      BY <1>a, <2>1, <3>1, NamedForm
  <2>6. Becomes(slot, r)
    BY <2>3
  <2> HIDE DEF r
  <2>7. ops'[slot] = r /\ \A k \in Slots : k # slot => ops'[k] = ops[k]
    BY <1>a, <2>6, MovesForm
  <2>8. RestoreOk(ops[slot])'
    BY <1>c, <2>1, <2>2, <2>4, <2>5, <2>7 DEF RestoreOk, MatchesShape
  <2>9. QED
    BY <1>b, <2>1, <2>5, <2>7, <2>8, RestoreGoesOn
<1>4. CASE RestoreDecides(slot)
  <2>1. /\ op.pc = "decide" /\ UNCHANGED <<reg, mine, env>>
        /\ op.snap \in Snapshots /\ op.snap.pid \in Pids \cup {Nothing}
    BY <1>4, <1>c DEF RestoreDecides, Snapshots
  <2>2. /\ file # Nothing /\ ~MatchesShape(op.snap.to, TRUE)
        /\ MatchesShape(reg, TRUE) => MatchesShape(op.seen, TRUE)
        /\ op.pid = Foreign => mine = {}
        /\ op.pid \in {Nothing, op.snap.pid} \/ (op.pid = Foreign /\ op.snap.pid = Nothing)
        /\ op.kind = "boot" /\ op.pid # Foreign => op.snap = file
    BY <1>c, <2>1 DEF RestoreOk
  <2>3. CASE StillOwned(op.seen, op.snap.pid, op.pid, TRUE)
    <3>1. op.pid # Foreign
      BY <1>c, <2>1, <2>3 DEF StillOwned
    <3>2. UNCHANGED <<file, mem, gui>>
      BY <1>4, <2>3 DEF RestoreDecides
    <3>3. CASE slot = "boot"
      <4>1. Moves(slot, "probe")
        BY <1>4, <2>3, <3>3 DEF RestoreDecides
      <4> DEFINE r == [op EXCEPT !.pc = "probe"]
      <4>2. r.kind = op.kind /\ r.pc = "probe" /\ r.snap = op.snap /\ r.pid = op.pid
        BY <1>a DEF OpRecord
      <4>3. Becomes(slot, r)
        BY <4>1 DEF Moves
      <4> HIDE DEF r
      <4>4. ops'[slot] = r /\ \A k \in Slots : k # slot => ops'[k] = ops[k]
        BY <1>a, <4>3, MovesForm
      <4>5. RestoreOk(ops[slot])'
        BY <2>2, <3>1, <3>2, <4>2, <4>4 DEF RestoreOk, MatchesShape
      <4>6. QED
        BY <1>b, <2>1, <3>2, <4>2, <4>4, <4>5, RestoreGoesOn
    <3>4. CASE slot # "boot"
      BY <1>4, <1>b, <2>1, <2>3, <3>2, <3>4, RestoreWrites DEF RestoreDecides
    <3>5. QED
      BY <3>3, <3>4
  <2>4. CASE ~StillOwned(op.seen, op.snap.pid, op.pid, TRUE)
    <3>1. ForgetSnapshot /\ RestoreDone(slot)
      BY <1>4, <2>4 DEF RestoreDecides
    <3>2. ~PointedHere
      BY <2>2, <2>4 DEF StillOwned, PointedHere
    <3>3. QED
      BY <1>d, <2>1, <3>1, <3>2
  <2>5. QED
    BY <2>3, <2>4
<1>5. CASE RestoreEnds(slot)
  <2>1. /\ op.pc = "write" /\ op.todo = <<>> /\ ForgetSnapshot /\ RestoreDone(slot)
        /\ UNCHANGED <<reg, mine, env>> /\ op.snap.to \in Settings
    BY <1>5, <1>c DEF RestoreEnds, Snapshots
  <2>2. Undoing(<<>>, op.snap.to, reg, mine) /\ ~MatchesShape(op.snap.to, TRUE)
    BY <1>c, <2>1 DEF RestoreOk
  <2>3. ~PointedHere
    BY <2>1, <2>2, UndoneIsNotPointed
  <2>4. QED
    BY <1>d, <2>1, <2>3
<1>6. QED
  BY <1>1, <1>2, <1>3, <1>4, <1>5 DEF Restores

LEMMA RecoverProbesKeepsUndo ==
  ASSUME TypeInv, UndoInv, RecoverProbes
  PROVE  UndoInv'
<1> DEFINE op == ops["boot"]
<1>1. /\ "boot" \in Slots /\ op.kind = "boot" /\ op.pc = "probe" /\ gui
      /\ UNCHANGED <<reg, mine, gui, env>>
  BY DEF RecoverProbes, At, Slots
<1>2. op.snap = file /\ file # Nothing /\ Named /\ Neutral
  BY <1>1, RestoreFacts DEF RestoreOk, UndoInv
<1>3. CASE StoreSnapshot(op.snap) /\ Ends("boot")
  BY <1>1, <1>2, <1>3, EndKeepsUndo DEF StoreSnapshot, Named, Neutral
<1>4. CASE /\ Becomes("boot", [op EXCEPT !.pc = "write", !.todo = SnapshotSettings(op.snap.to)])
           /\ UNCHANGED <<file, mem>>
  BY <1>1, <1>4, RestoreWrites
<1>5. QED
  BY <1>3, <1>4 DEF RecoverProbes

LEMMA OperationFailsKeepsUndo ==
  ASSUME TypeInv, UndoInv, NEW slot \in Slots, OperationFails(slot)
  PROVE  UndoInv'
BY EndKeepsUndo DEF OperationFails

LEMMA WriteFailsKeepsUndo ==
  ASSUME TypeInv, UndoInv, NEW slot \in Slots, WriteFails(slot)
  PROVE  UndoInv'
<1> DEFINE op == ops[slot]
<1>1. /\ gui /\ op.pc \in {"write", "undo"} /\ UNCHANGED <<reg, mine, file, mem, gui, env>>
  BY DEF WriteFails
<1>2. /\ op \in OpRecord /\ ops \in [Slots -> Op] /\ OpOk(op)
  BY SlotFacts DEF UndoInv
<1>3. op.kind # "none"
  BY <1>1, <1>2 DEF OpOk
<1>4. CASE op.kind = "enable" /\ op.pc = "write"
  <2> DEFINE none == <<>>
             r == [op EXCEPT !.pc = "rollback", !.todo = none]
  <2>1. Becomes(slot, r)
    BY <1>4 DEF WriteFails
  <2> HIDE DEF none
  <2>2. /\ r.kind = op.kind /\ r.pc = "rollback" /\ r.snap = op.snap /\ r.pid = op.pid
        /\ r.cur = op.cur
    BY <1>2 DEF OpRecord
  <2> HIDE DEF r
  <2>3. ops'[slot] = r /\ \A k \in Slots : k # slot => ops'[k] = ops[k]
    BY <1>2, <2>1, MovesForm
  <2>4. EnableOk(op)
    BY <1>2, <1>4 DEF OpOk
  <2>5. OpOk(ops[slot])'
    BY <1>1, <1>4, <2>2, <2>3, <2>4 DEF OpOk, EnableOk, MatchesShape, Restoring
  <2>6. QED
    BY <1>1, <1>3, <2>2, <2>3, <2>5, GoesOnKeepsUndo
<1>5. CASE Ends(slot)
  BY <1>1, <1>3, <1>5, EndKeepsUndo
<1>6. QED
  BY <1>4, <1>5 DEF WriteFails

LEMMA WriteValueKeepsUndo ==
  ASSUME TypeInv, UndoInv, NEW slot \in Slots, WriteValue(slot)
  PROVE  UndoInv'
<1> DEFINE op == ops[slot]
           rest == Tail(op.todo)
           r == [op EXCEPT !.todo = rest]
<1>1. /\ gui /\ op.pc \in {"write", "undo"} /\ op.todo # <<>>
      /\ reg' = [reg EXCEPT ![Head(op.todo)[1]] = Head(op.todo)[2]]
      /\ mine' = (IF foreign THEN mine ELSE mine \cup {Head(op.todo)[1]})
      /\ Becomes(slot, r) /\ UNCHANGED <<file, mem, gui, core, foreign>>
  BY DEF WriteValue, env
<1>2. /\ op \in OpRecord /\ ops \in [Slots -> Op] /\ OpOk(op) /\ Filled(op)
      /\ Alone /\ Named /\ Neutral /\ (foreign => mine = {})
      /\ \A k \in Slots : OpOk(ops[k])
      /\ reg \in Settings /\ mine \subseteq Fields
  BY SlotFacts DEF UndoInv, TypeInv
<1>3. op.kind # "none"
  BY <1>1, <1>2 DEF OpOk
<1>4. op.kind \in Restoring \cup {"enable", "boot"}
  BY <1>2, <1>3 DEF OpRecord, Kinds
<1>5. ASSUME NEW to \in Settings, Undoing(op.todo, to, reg, mine)
      PROVE  Undoing(rest, to, reg', mine')
  BY <1>1, <1>2, <1>5, WriteUndoes
<1> HIDE DEF rest
<1>6. /\ r.kind = op.kind /\ r.pc = op.pc /\ r.cur = op.cur /\ r.snap = op.snap
      /\ r.pid = op.pid /\ r.todo = rest
  BY <1>2 DEF OpRecord
<1> HIDE DEF r
<1>7. ops'[slot] = r /\ \A k \in Slots : k # slot => ops'[k] = ops[k]
  BY <1>1, <1>2, MovesForm
<1>8. ASSUME op.kind = "enable" PROVE OpOk(ops[slot])'
  <2>1. EnableOk(op) /\ op.cur \in Settings
    BY <1>1, <1>2, <1>8 DEF OpOk, Filled
  <2>2. r.pc = "undo" => Undoing(r.todo, r.cur, reg', mine')
    BY <1>5, <1>6, <2>1 DEF EnableOk
  <2>3. OpOk(ops[slot])'
    BY <1>1, <1>6, <1>7, <1>8, <2>1, <2>2 DEF OpOk, EnableOk, MatchesShape, Restoring
  <2>4. QED
    BY <2>3
<1>9. ASSUME op.kind \in Restoring \cup {"boot"} PROVE OpOk(ops[slot])'
  <2>1. RestoreOk(op) /\ op.snap.to \in Settings
    BY <1>1, <1>2, <1>9 DEF OpOk, Filled, Snapshots
  <2>2. r.pc = "write" => Undoing(r.todo, r.snap.to, reg', mine')
    BY <1>5, <1>6, <2>1 DEF RestoreOk
  <2>3. RestoreOk(ops[slot])'
    BY <1>1, <1>6, <1>7, <2>1, <2>2 DEF RestoreOk, MatchesShape
  <2>4. OpOk(ops[slot])'
    BY <1>6, <1>7, <1>9, <2>3 DEF OpOk, Restoring
  <2>5. QED
    BY <2>4
<1>10. OpOk(ops[slot])'
  BY <1>4, <1>8, <1>9
<1>11. file # Nothing
  BY <1>1, <1>2, <1>4 DEF OpOk, EnableOk, RestoreOk, Restoring
<1>12. (\A k \in Slots : OpOk(ops[k]))'
  <2>1. \A k \in Slots : k # slot => ops'[k] = ops[k] /\ ops[k].kind = "none" /\ ops[k].pc = "idle"
    BY <1>2, <1>3, <1>7, TwoSlots DEF Alone, OpOk
  <2>2. \A k \in Slots : OpOk(ops[k])'
    BY <1>10, <2>1, IdleSlotOk
  <2>3. QED
    BY <2>2
<1>13. Alone' /\ Named' /\ Neutral'
  <2>1. \A k \in Slots : ops'[k].kind = ops[k].kind /\ ops'[k].pid = ops[k].pid
    BY <1>6, <1>7
  <2>2. "locked" \in Slots /\ "boot" \in Slots
    BY DEF Slots
  <2>3. QED
    BY <1>1, <1>2, <2>1, <2>2 DEF Alone, Named, Neutral, MatchesShape
<1>14. UndoRecorded' /\ (foreign => mine = {})'
  BY <1>1, <1>2, <1>11 DEF UndoRecorded
<1>15. QED
  BY <1>12, <1>13, <1>14 DEF UndoInv

LEMMA UndoInit == Init => UndoInv
<1> SUFFICES ASSUME Init PROVE UndoInv
  OBVIOUS
<1>1. /\ mine = {} /\ file = Nothing /\ mem = Nothing /\ ~gui /\ core = Nothing /\ ~foreign
      /\ \A slot \in Slots : ops[slot].kind = "none" /\ ops[slot].pc = "idle"
  BY DEF Init, Idle
<1>2. \A slot \in Slots : OpOk(ops[slot])
  BY <1>1 DEF OpOk, Restoring
<1>3. Alone /\ Named /\ Neutral /\ UndoRecorded
  BY <1>1 DEF Alone, Named, Neutral, UndoRecorded, PointedHere, Slots
<1>4. QED
  BY <1>1, <1>2, <1>3 DEF UndoInv

LEMMA UndoInductive ==
  ASSUME "restart" \notin Faults, "early" \notin Faults, TypeInv, UndoInv, [Next]_vars
  PROVE  UndoInv'
<1>1. CASE Enabling
  BY <1>1, EnablingKeepsUndo
<1>2. CASE RecoverProbes
  BY <1>2, RecoverProbesKeepsUndo
<1>3. CASE Machine
  BY <1>3, MachineKeepsUndo
<1>4. CASE \E kind \in Restoring : RestoreBegins(kind)
  <2>1. PICK kind \in Restoring : RestoreBegins(kind)
    BY <1>4
  <2> DEFINE r == [Idle EXCEPT !.kind = kind, !.pc = "read"]
  <2>2. r.kind = kind /\ r.pc = "read" /\ kind # "enable"
    BY DEF Idle, Restoring
  <2>3. Becomes("locked", r) /\ Started /\ UNCHANGED <<reg, mine, file, mem, gui, env>>
    BY <2>1 DEF RestoreBegins
  <2> HIDE DEF r
  <2>4. QED
    BY <2>2, <2>3, BeginningKeepsUndo DEF Started
<1>5. CASE \E slot \in Slots : Restores(slot) \/ WriteValue(slot) \/ WriteFails(slot) \/ OperationFails(slot)
  BY <1>5, RestoresKeepUndo, WriteValueKeepsUndo, WriteFailsKeepsUndo, OperationFailsKeepsUndo
<1>6. CASE UNCHANGED vars
  BY <1>6 DEF vars, env, UndoInv, Alone, Named, Neutral, UndoRecorded, PointedHere, MatchesShape,
              OpOk, EnableOk, RestoreOk, Undoing
<1>7. QED
  BY <1>1, <1>2, <1>3, <1>4, <1>5, <1>6 DEF Next

(* As long as Windows points at MioProxy's port because MioProxy wrote so,  *)
(* the file with the settings to go back to exists, whatever fails, crashes *)
(* or is taken over on the way.  The two faults excluded are those under    *)
(* which the program breaks it: a core that starts while an operation or a  *)
(* snapshot names an earlier one, and a command that overtakes the recovery *)
(* at start-up, which takes no lock.                                        *)
THEOREM UndoIsRecorded ==
  ASSUME "restart" \notin Faults, "early" \notin Faults
  PROVE  Spec => []UndoRecorded
<1>1. UndoInv => UndoRecorded
  BY DEF UndoInv
<1>2. TypeInv /\ UndoInv /\ [Next]_vars => UndoInv'
  BY UndoInductive
<1>3. QED
  BY TypesInit, TypesInductive, UndoInit, <1>1, <1>2, PTL DEF Spec
============================================================================
