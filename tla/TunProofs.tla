----------------------------- MODULE TunProofs ------------------------------
(***************************************************************************)
(* Theorems about the two ways the GUI has of running TUN: through the     *)
(* service (TunIntent), and with a sidecar of its own (GuiSession).        *)
(*                                                                         *)
(* TunIntent, for any number of commands and any faults: whoever writes a  *)
(* switch to the pipe writes what the command in turn asked for, a switch  *)
(* that comes late finds the intent or the command that corrects it, and   *)
(* an intent is only dropped when it was reached.  GuiSession, for any set *)
(* of pids and every fault but a hasty user and a kill that fails: no      *)
(* sidecar is lost, no session goes unrecorded, and TUN is off when it is  *)
(* shown as off, a restore beside an orphan apart.                         *)
(***************************************************************************)
EXTENDS TunIntent, GuiSession, TLAPS

\* The values of the variables a wish passes through.
Loops   == [pc : Points, want : BOOLEAN, gen : Nat, ext : BOOLEAN,
            last : Statuses \cup {"unknown"}, pending : BOOLEAN,
            ambiguous : BOOLEAN, observed : Nat]
Intents == [want : BOOLEAN, gen : Nat]

\* An outstanding intent is what the command in turn asked for, and a loop works
\* on the same under TRANSITION_LOCK: the commands behind it wait.
WishInv ==
    /\ loop \in Loops /\ intent \in Intents /\ foreign \in BOOLEAN
    /\ wishes \in Seq(BOOLEAN) /\ gen \in 0..Len(wishes)
    /\ intent.gen # 0 => gen # 0 /\ intent.want = Granted
    /\ loop.pc # "off" => gen # 0 /\ loop.want = Granted /\ holder # "none"

\* An answer lies in the pipe only when the service works on nothing, for a
\* client that waits for it.
PipeInv == answer # "none" => request = Idle /\ waiting # "none"

\* While the service works on a switch that a later command has taken back, the
\* intent stands, and the loop, if there is one, has not heard of the service.
StaleInv == request.kind = "set" =>
              gen # 0 /\ (request.want # Granted => intent.gen # 0 /\ loop.last = "unknown")

SwitchInv == WishInv /\ PipeInv /\ StaleInv
-----------------------------------------------------------------------------
LEMMA NoLoopIsLoop ==
    NoLoop \in Loops /\ NoLoop.pc = "off" /\ NoLoop.last = "unknown"
BY SMT DEF NoLoop, Loops, Points, Statuses

LEMMA NoIntentIsIntent == NoIntent \in Intents /\ NoIntent.gen = 0
BY DEF NoIntent, Intents

LEMMA SwitchInit == Init => SwitchInv
<1> SUFFICES ASSUME Init PROVE SwitchInv
  OBVIOUS
<1>1. loop = NoLoop /\ intent = NoIntent /\ gen = 0 /\ wishes = <<>>
      /\ foreign \in BOOLEAN
  BY DEF Init
<1>2. WishInv
  BY <1>1, NoLoopIsLoop, NoIntentIsIntent DEF WishInv
<1>3. PipeInv /\ StaleInv
  BY DEF Init, PipeInv, StaleInv, Idle
<1> QED
  BY <1>2, <1>3 DEF SwitchInv
-----------------------------------------------------------------------------
(* The three ways an intent and a loop change.                             *)

\* A step of request_tun: its variables change, or it returns.  An intent is
\* only dropped while the service works on nothing the user has taken back.
LoopStep ==
    /\ UNCHANGED <<wishes, gen, foreign>>
    /\ \/ loop' = NoLoop
       \/ /\ loop' \in Loops /\ loop'.want = loop.want /\ loop'.pc # "off"
          /\ holder' = holder
    /\ intent' \in {intent, NoIntent}

LEMMA LoopKeepsWish == WishInv /\ loop.pc # "off" /\ LoopStep => WishInv'
BY NoLoopIsLoop, NoIntentIsIntent DEF WishInv, LoopStep, Granted

\* A command that begins to wait changes nothing for the one that has the lock.
LEMMA AskKeepsWish ==
    ASSUME WishInv, NEW want \in BOOLEAN, UserAsks(want)
    PROVE  WishInv' /\ (gen # 0 => Granted' = Granted)
<1>1. /\ wishes' = Append(wishes, want) /\ UNCHANGED <<gen, intent, loop, holder, foreign>>
      /\ wishes \in Seq(BOOLEAN) /\ gen \in 0..Len(wishes)
  BY DEF UserAsks, WishInv, service
<1>2. wishes' \in Seq(BOOLEAN) /\ Len(wishes') = Len(wishes) + 1
  BY <1>1
<1>3. \A i \in 1..Len(wishes) : wishes'[i] = wishes[i]
  BY <1>1
<1>4. gen' \in 0..Len(wishes')
  BY <1>1, <1>2
<1>5. gen # 0 => Granted' = Granted
  BY <1>1, <1>3 DEF Granted
<1> QED
  BY <1>1, <1>2, <1>4, <1>5 DEF WishInv

LEMMA CommandKeepsWish ==
    ASSUME WishInv, Command
    PROVE  WishInv'
<1>1. /\ gen' = gen + 1 /\ wishes' = wishes /\ wishes \in Seq(BOOLEAN)
      /\ gen \in 0..Len(wishes) /\ gen < Len(wishes) /\ foreign' \in BOOLEAN
      /\ intent' = [want |-> wishes[gen + 1], gen |-> gen + 1]
      /\ holder' = "cmd"
      /\ loop' = [NoLoop EXCEPT !.pc = "start", !.want = wishes[gen + 1], !.gen = gen + 1]
  BY DEF Command, StartLoop, WishInv, service
<1>2. wishes[gen + 1] \in BOOLEAN /\ gen + 1 \in Nat
  BY <1>1
<1>3. Granted' = wishes[gen + 1]
  BY <1>1 DEF Granted
<1>4. intent' \in Intents /\ intent'.want = Granted' /\ gen' # 0
      /\ gen' \in 0..Len(wishes')
  BY <1>1, <1>2, <1>3 DEF Intents
<1>5. loop' \in Loops /\ loop'.want = Granted'
  BY <1>1, <1>2, <1>3, NoLoopIsLoop DEF Loops, Points, NoLoop
<1> QED
  BY <1>1, <1>4, <1>5 DEF WishInv

LEMMA TaskKeepsWish ==
    ASSUME WishInv, TaskBegins
    PROVE  WishInv'
<1>1. CASE intent.gen = 0
  BY <1>1 DEF TaskBegins, WishInv, Granted, service
<1>2. CASE intent.gen # 0
  <2>1. UNCHANGED <<intent, gen, wishes, foreign>> /\ holder' = "task"
    BY <1>2 DEF TaskBegins, StartLoop, service
  <2>3. gen # 0 /\ intent.want = Granted /\ intent.want \in BOOLEAN /\ intent.gen \in Nat
    BY <1>2 DEF WishInv, Intents
  <2>4. loop' = [NoLoop EXCEPT !.pc = "start", !.want = intent.want, !.gen = intent.gen]
    BY <1>2 DEF TaskBegins, StartLoop
  <2>2. loop' \in Loops /\ loop'.want = Granted'
    BY <2>1, <2>3, <2>4, NoLoopIsLoop DEF Loops, Points, NoLoop, Granted
  <2> QED
    BY <2>1, <2>2, <2>3 DEF WishInv, Granted
<1> QED
  BY <1>1, <1>2
-----------------------------------------------------------------------------
(* Every step of request_tun is a LoopStep.                                *)

LEMMA ObserveIsLoopStep ==
    ASSUME WishInv, NEW a, Observe(a), UNCHANGED <<wishes, gen, foreign>>
    PROVE  LoopStep
<1> USE DEF LoopStep, EndLoop, Loop
<1>1. CASE ReturnOpen
  BY <1>1 DEF ReturnOpen
<1>2. CASE ReturnReached
  BY <1>2 DEF ReturnReached
<1>3. CASE Wait
  BY <1>3 DEF Wait, WishInv, Loops, Points
<1>4. CASE /\ a \in {"starting", "stopping", "error"}
           /\ Loop([loop EXCEPT !.pc = "look", !.last = a])
  BY <1>4 DEF WishInv, Loops, Points, Statuses
<1>5. CASE /\ a \in {"disabled", "running"}
           /\ Loop([loop EXCEPT !.pc = "look", !.last = a, !.observed = @ + 1])
  <2>1. loop.observed + 1 \in Nat /\ a \in Statuses /\ loop \in Loops
    BY <1>5 DEF WishInv, Loops, Statuses
  <2>2. loop' = [loop EXCEPT !.pc = "look", !.last = a, !.observed = loop.observed + 1]
    BY <1>5
  <2>3. loop' \in Loops /\ loop'.want = loop.want /\ loop'.pc = "look"
    BY <2>1, <2>2 DEF Loops, Points
  <2> QED
    BY <1>5, <2>3
<1>6. CASE /\ a \in {"disabled", "running"}
           /\ Loop([loop EXCEPT !.pc = "send", !.last = a, !.observed = 0,
                                !.pending = TRUE, !.ambiguous = FALSE])
  BY <1>6 DEF WishInv, Loops, Points, Statuses
<1> QED
  BY <1>1, <1>2, <1>3, <1>4, <1>5, <1>6 DEF Observe

LEMMA RecordIsLoopStep ==
    ASSUME WishInv, NEW a, Record(a), UNCHANGED <<wishes, gen, foreign>>
    PROVE  LoopStep
<1>1. CASE ReturnOpen
  BY <1>1 DEF ReturnOpen, LoopStep, EndLoop
<1>2. CASE Loop([loop EXCEPT !.pc = "look", !.pending = TRUE, !.ambiguous = TRUE,
                             !.observed = 0, !.last = "unknown"])
  BY <1>2 DEF Loop, LoopStep, WishInv, Loops, Points
<1>3. CASE /\ a \in Statuses
           /\ Loop([loop EXCEPT !.pc = "look", !.pending = TRUE, !.ambiguous = FALSE,
                                !.observed = 0, !.last = a])
  BY <1>3 DEF Loop, LoopStep, WishInv, Loops, Points
<1> QED
  BY <1>1, <1>2, <1>3 DEF Record

LEMMA LoopIsLoopStep ==
    ASSUME WishInv, LoopSteps \/ LoopExpires
    PROVE  LoopStep /\ loop.pc # "off"
<1>1. CASE LoopStarts
  BY <1>1 DEF LoopStarts, ReturnOpen, EndLoop, LoopStep, WishInv, Loops, Points, service
<1>2. CASE LoopLooks
  <2>1. loop' = [loop EXCEPT !.pc = "ask", !.ext = foreign]
    BY <1>2 DEF LoopLooks
  <2> QED
    BY <1>2, <2>1 DEF LoopLooks, LoopStep, WishInv, Loops, Points, intents, service
<1>3. CASE LoopAsks
  <2>1. CASE Listens
    BY <1>3, <2>1 DEF LoopAsks, Loop, LoopStep, WishInv, Loops, Points, service
  <2>2. CASE ~Listens
    BY <1>3, <2>2, ObserveIsLoopStep DEF LoopAsks, service
  <2> QED
    BY <2>1, <2>2
<1>4. CASE LoopHears
  BY <1>4, ObserveIsLoopStep DEF LoopHears, service
<1>5. CASE LoopSends
  <2>1. CASE Listens
    BY <1>5, <2>1 DEF LoopSends, Loop, LoopStep, WishInv, Loops, Points, service
  <2>2. CASE ~Listens
    <3>1. loop' = [loop EXCEPT !.pc = "look", !.pending = FALSE, !.ambiguous = FALSE,
                               !.observed = 0]
      BY <1>5, <2>2 DEF LoopSends, NotSent, Loop
    <3>2. loop' \in Loops /\ loop'.want = loop.want /\ loop'.pc = "look"
      BY <3>1 DEF WishInv, Loops, Points
    <3>3. UNCHANGED <<wishes, gen, foreign, intent, holder>> /\ loop.pc = "send"
      BY <1>5, <2>2 DEF LoopSends, NotSent, Loop, service
    <3> QED
      BY <3>2, <3>3 DEF LoopStep
  <2> QED
    BY <2>1, <2>2
<1>6. CASE LoopRecords
  BY <1>6, RecordIsLoopStep DEF LoopRecords, service
<1>7. CASE LoopExpires
  BY <1>7 DEF LoopExpires, ReturnLate, EndLoop, LoopStep, service
<1> QED
  BY <1>1, <1>2, <1>3, <1>4, <1>5, <1>6, <1>7 DEF LoopSteps
-----------------------------------------------------------------------------
(* The invariants, action by action.                                       *)

LEMMA WishInductive == SwitchInv /\ [Next]_vars => WishInv'
<1> SUFFICES ASSUME SwitchInv, [Next]_vars PROVE WishInv'
  OBVIOUS
<1> USE DEF SwitchInv
<1>1. CASE LoopSteps \/ LoopExpires
  BY <1>1, LoopIsLoopStep, LoopKeepsWish
<1>2. CASE Command \/ \E want \in BOOLEAN : UserAsks(want)
  BY <1>2, CommandKeepsWish, AskKeepsWish
<1>3. CASE TaskBegins
  BY <1>3, TaskKeepsWish
<1>4. CASE PollAsks
  BY <1>4, NoIntentIsIntent DEF PollAsks, Learn, WishInv, Granted, service
<1>5. CASE PollHears
  <2>1. PICK a \in Answers : CASE a \in Statuses -> Learn(a)
                              [] a = "closed"   -> Learn("unknown")
                              [] a = "failed"   -> UNCHANGED <<intent, queued>>
    BY <1>5 DEF PollHears
  <2>2. intent' \in {intent, NoIntent}
    BY <2>1 DEF Learn, Answers, Statuses
  <2>3. UNCHANGED <<foreign, gen, holder, wishes, loop>>
    BY <1>5 DEF PollHears, service
  <2> QED
    BY <2>2, <2>3, NoIntentIsIntent DEF WishInv, Granted
<1>6. CASE ServesStatus \/ UNCHANGED vars
  BY <1>6 DEF ServesStatus, WishInv, Granted, vars, service, intents
<1>7. CASE ServesSet \/ MonitorMoves \/ ServiceDies \/ ServiceReturns
  BY <1>7 DEF ServesSet, MonitorMoves, ServiceDies, ServiceReturns, WishInv, Granted, intents
<1>8. CASE ForeignAppears \/ ForeignGoes
  BY <1>8 DEF ForeignAppears, ForeignGoes, WishInv, Granted, intents
<1> QED
  BY <1>1, <1>2, <1>3, <1>4, <1>5, <1>6, <1>7, <1>8 DEF Next, Serves, PollSteps

LEMMA PipeInductive == SwitchInv /\ [Next]_vars => PipeInv'
<1> SUFFICES ASSUME PipeInv, [Next]_vars PROVE PipeInv'
  BY DEF SwitchInv
<1> USE DEF PipeInv
<1>1. CASE LoopStarts \/ LoopLooks \/ LoopExpires \/ TaskBegins
           \/ Command \/ (\E want \in BOOLEAN : UserAsks(want)) \/ UNCHANGED vars
  BY <1>1 DEF LoopStarts, LoopLooks, LoopExpires, TaskBegins, Command, UserAsks, pipe, vars
<1>2. CASE LoopAsks \/ LoopSends \/ PollAsks
  BY <1>2 DEF LoopAsks, LoopSends, PollAsks, Send, pipe
<1>3. CASE LoopHears \/ LoopRecords \/ PollHears
  BY <1>3 DEF LoopHears, LoopRecords, PollHears, Receive
<1>4. CASE Serves
  BY <1>4 DEF Serves, ServesStatus, ServesSet, Answer
<1>5. CASE ServiceDies
  BY <1>5 DEF ServiceDies
<1>6. CASE MonitorMoves \/ ServiceReturns \/ ForeignAppears \/ ForeignGoes
  BY <1>6 DEF MonitorMoves, ServiceReturns, ForeignAppears, ForeignGoes, pipe
<1> QED
  BY <1>1, <1>2, <1>3, <1>4, <1>5, <1>6 DEF Next, LoopSteps, PollSteps

\* What a loop step does while the service works on a switch: nothing it hears
\* of the service reaches the intent, for there is no answer to hear.
LEMMA DeafLoop ==
    ASSUME SwitchInv, LoopSteps \/ LoopExpires, request.kind = "set",
           request.want # Granted
    PROVE  loop'.last = "unknown" /\ intent'.gen # 0 /\ request' = request
<1>0. /\ answer = "none" /\ intent.gen # 0 /\ loop.last = "unknown" /\ loop \in Loops
      /\ intent.want \in BOOLEAN /\ NoLoop.last = "unknown" /\ request # Idle
  BY NoLoopIsLoop DEF SwitchInv, PipeInv, StaleInv, WishInv, Intents, Idle
<1>1. ASSUME ReturnOpen \/ Wait PROVE loop'.last = "unknown" /\ intent'.gen # 0
  BY <1>0, <1>1 DEF ReturnOpen, EndLoop, Wait, Loop, Loops
<1>2. ASSUME Observe("closed") PROVE loop'.last = "unknown" /\ intent'.gen # 0
  BY <1>1, <1>2 DEF Observe, Target
<1>3. CASE LoopStarts
  BY <1>3, <1>1, <1>0 DEF LoopStarts, pipe, Loops
<1>4. CASE LoopLooks
  BY <1>4, <1>0 DEF LoopLooks, pipe, intents, Loops
<1>5. CASE LoopAsks
  BY <1>5, <1>0, <1>2 DEF LoopAsks, Listens, pipe
<1>6. CASE LoopHears
  BY <1>6, <1>0, <1>2 DEF LoopHears, Receive
<1>7. CASE LoopSends
  BY <1>7, <1>0 DEF LoopSends, Listens, NotSent, Loop, pipe, Loops
<1>8. CASE LoopRecords
  <2>1. Record("closed") /\ request' = request
    BY <1>8, <1>0 DEF LoopRecords, Receive
  <2>2. /\ loop' = [loop EXCEPT !.pc = "look", !.pending = TRUE, !.ambiguous = TRUE,
                                !.observed = 0, !.last = "unknown"]
        /\ intent' = intent
    BY <2>1 DEF Record, Loop, Statuses
  <2> QED
    BY <2>1, <2>2, <1>0 DEF Loops
<1>9. CASE LoopExpires
  BY <1>9, <1>0 DEF LoopExpires, ReturnLate, EndLoop, Reached, pipe
<1> QED
  BY <1>3, <1>4, <1>5, <1>6, <1>7, <1>8, <1>9 DEF LoopSteps

\* A switch that is sent carries the wish in turn; one that is served on stays the same.
LEMMA SendsTheWish ==
    ASSUME SwitchInv, [Next]_vars, request.kind # "set", request'.kind = "set"
    PROVE  gen # 0 /\ request'.want = Granted /\ UNCHANGED <<wishes, gen>>
<1>1. CASE LoopSends
  BY <1>1 DEF LoopSends, Send, SwitchInv, WishInv, pipe
<1>2. CASE LoopAsks
  BY <1>2 DEF LoopAsks, Send, pipe
<1>3. CASE PollAsks
  BY <1>3 DEF PollAsks, Send, pipe
<1>4. CASE LoopStarts \/ LoopLooks \/ LoopExpires \/ TaskBegins
           \/ Command \/ (\E want \in BOOLEAN : UserAsks(want)) \/ UNCHANGED vars
  BY <1>4 DEF LoopStarts, LoopLooks, LoopExpires, TaskBegins, Command, UserAsks, pipe, vars
<1>5. CASE LoopHears \/ LoopRecords \/ PollHears
  BY <1>5 DEF LoopHears, LoopRecords, PollHears, Receive
<1>6. CASE Serves \/ ServiceDies
  BY <1>6 DEF Serves, ServesStatus, ServesSet, Answer, ServiceDies, Idle
<1>7. CASE MonitorMoves \/ ServiceReturns \/ ForeignAppears \/ ForeignGoes
  BY <1>7 DEF MonitorMoves, ServiceReturns, ForeignAppears, ForeignGoes, pipe
<1> QED
  BY <1>1, <1>2, <1>3, <1>4, <1>5, <1>6, <1>7 DEF Next, LoopSteps, PollSteps

LEMMA StaleInductive == SwitchInv /\ [Next]_vars => StaleInv'
<1> SUFFICES ASSUME SwitchInv, [Next]_vars, request'.kind = "set"
             PROVE  gen' # 0 /\ (request'.want # Granted'
                                   => intent'.gen # 0 /\ loop'.last = "unknown")
  BY DEF StaleInv
<1>0. CASE request.kind # "set"
  BY <1>0, SendsTheWish DEF Granted
<1> SUFFICES ASSUME request.kind = "set"
             PROVE  gen' # 0 /\ (request'.want # Granted'
                                   => intent'.gen # 0 /\ loop'.last = "unknown")
  BY <1>0
<1>1. request.kind = "set" /\ gen # 0
  BY DEF SwitchInv, StaleInv
<1>2. request' = request
  <2>1. CASE LoopAsks \/ LoopSends \/ PollAsks
    <3>1. ~Listens
      BY <1>1 DEF Listens, Idle
    <3>2. CASE LoopAsks
      BY <3>1, <3>2 DEF LoopAsks, pipe
    <3>3. CASE LoopSends
      BY <3>1, <3>3 DEF LoopSends, pipe
    <3>4. CASE PollAsks
      BY <3>1, <3>4 DEF PollAsks, pipe
    <3> QED
      BY <2>1, <3>2, <3>3, <3>4
  <2>2. CASE LoopHears \/ LoopRecords \/ PollHears
    BY <2>2 DEF LoopHears, LoopRecords, PollHears, Receive
  <2>3. CASE Serves \/ ServiceDies
    BY <2>3, <1>1 DEF Serves, ServesStatus, ServesSet, Answer, ServiceDies, Idle
  <2>4. CASE MonitorMoves \/ ServiceReturns \/ ForeignAppears \/ ForeignGoes
    BY <2>4 DEF MonitorMoves, ServiceReturns, ForeignAppears, ForeignGoes, pipe
  <2>5. CASE LoopStarts \/ LoopLooks \/ LoopExpires \/ TaskBegins
             \/ Command \/ (\E want \in BOOLEAN : UserAsks(want)) \/ UNCHANGED vars
    BY <2>5 DEF LoopStarts, LoopLooks, LoopExpires, TaskBegins, Command, UserAsks, pipe, vars
  <2> QED
    BY <2>1, <2>2, <2>3, <2>4, <2>5 DEF Next, LoopSteps, PollSteps
<1>3. CASE Command
  <2>1. gen + 1 # 0 /\ NoLoop.last = "unknown"
    BY NoLoopIsLoop DEF SwitchInv, WishInv
  <2> QED
    BY <1>3, <2>1, NoLoopIsLoop DEF Command, StartLoop, Loops
<1>6. CASE \E want \in BOOLEAN : UserAsks(want)
  <2>1. PICK want \in BOOLEAN : UserAsks(want)
    BY <1>6
  <2>2. Granted' = Granted /\ UNCHANGED <<gen, intent, loop>>
    BY <2>1, <1>1, AskKeepsWish DEF SwitchInv, UserAsks
  <2> QED
    BY <2>2, <1>1, <1>2 DEF SwitchInv, StaleInv
<1>4. ASSUME UNCHANGED <<wishes, gen>>, ~Command, request'.want # Granted'
      PROVE  intent'.gen # 0 /\ loop'.last = "unknown"
  <2>1. /\ request.want # Granted /\ intent.gen # 0 /\ loop.last = "unknown"
        /\ answer = "none" /\ intent.want \in BOOLEAN /\ ~Listens
    BY <1>1, <1>2, <1>4
    DEF SwitchInv, StaleInv, PipeInv, WishInv, Intents, Idle, Listens, Granted
  <2>2. CASE LoopSteps \/ LoopExpires
    BY <1>1, <2>1, <2>2, DeafLoop
  <2>3. CASE TaskBegins
    BY <2>1, <2>3, NoLoopIsLoop DEF TaskBegins, StartLoop, Loops
  <2>4. CASE PollAsks
    BY <2>1, <2>4 DEF PollAsks, Learn, Reached
  <2>5. CASE PollHears
    <3>1. Learn("unknown")
      BY <2>1, <2>5 DEF PollHears, Receive, Statuses
    <3>2. intent' = intent /\ loop' = loop
      BY <3>1, <2>1, <2>5 DEF PollHears, Learn, Reached
    <3> QED
      BY <3>2, <2>1
  <2>6. CASE Serves \/ MonitorMoves \/ ServiceDies \/ ServiceReturns
             \/ ForeignAppears \/ ForeignGoes \/ UNCHANGED vars
    BY <2>1, <2>6 DEF Serves, ServesStatus, ServesSet, MonitorMoves, ServiceDies,
       ServiceReturns, ForeignAppears, ForeignGoes, vars, intents
  <2> QED
    BY <1>4, <1>6, <2>2, <2>3, <2>4, <2>5, <2>6 DEF Next, PollSteps
<1>5. UNCHANGED <<wishes, gen>> \/ Command \/ \E want \in BOOLEAN : UserAsks(want)
  BY DEF Next, Serves, ServesStatus, ServesSet, MonitorMoves, ServiceDies, ServiceReturns,
     ForeignAppears, ForeignGoes, TaskBegins, LoopSteps, LoopStarts, LoopLooks, LoopAsks,
     LoopHears, LoopSends, LoopRecords, LoopExpires, PollSteps, PollAsks, PollHears,
     intents, vars
<1> QED
  BY <1>1, <1>3, <1>4, <1>5, <1>6
-----------------------------------------------------------------------------
LEMMA SwitchInvHolds == Spec => []SwitchInv
<1>1. SwitchInv /\ [Next]_vars => SwitchInv'
  BY WishInductive, PipeInductive, StaleInductive DEF SwitchInv
<1> QED
  BY SwitchInit, <1>1, PTL DEF Spec

\* Whoever writes a switch to the pipe, the command or the retry task, writes
\* what
\* the command that got the lock last asked for; no older wish comes back.
THEOREM OnlyTheLastWishIsSent == Spec => MutationsAreWanted
<1>1. SwitchInv /\ [Next]_vars =>
        (request.kind # "set" /\ request'.kind = "set" => request'.want = Granted)
  BY SendsTheWish
<1>2. SwitchInv /\ [Next]_vars =>
        [request.kind # "set" /\ request'.kind = "set" => request'.want = Granted]_vars
  BY <1>1
<1> QED
  BY SwitchInvHolds, <1>2, PTL DEF Spec, MutationsAreWanted

\* A switch carried out after the user has taken it back finds the intent that
\* will correct it, or the command that waits for the lock to do so.
THEOREM LateSwitchesAreCorrected == Spec => LateSwitchIsCorrected
<1>1. SwitchInv /\ request.kind = "set" /\ request.want # Newest
        => intent.gen # 0 \/ gen < Len(wishes)
  BY DEF SwitchInv, StaleInv, WishInv, Newest, Granted
<1>2. SwitchInv /\ [Next]_vars =>
        [request.kind = "set" /\ request'.kind = "none" /\ svc' # svc
           /\ request.want # Newest => intent.gen # 0 \/ gen < Len(wishes)]_vars
  BY <1>1
<1> QED
  BY SwitchInvHolds, <1>2, PTL DEF Spec, LateSwitchIsCorrected

-----------------------------------------------------------------------------
(* What an intent is given up for.                                         *)

\* A loop that waits for the pipe is at one of the two places where it does.
WaitInv == /\ waiting \in {"none", "loop", "poll"}
           /\ waiting = "loop" => loop.pc \in {"answer", "result"}

\* While it matters to somebody, the service has shown its status, the answer in
\* the pipe, and what the loop heard last.
ShownInv ==
    /\ intent.gen # 0 \/ waiting = "poll" => svc \in shown
    /\ (intent.gen # 0 \/ waiting = "poll") /\ answer \in Statuses => answer \in shown
    /\ intent.gen # 0 /\ loop.last # "unknown" => loop.last \in shown

DropInv == SwitchInv /\ WaitInv /\ ShownInv

LEMMA DropInit == Init => DropInv
<1>1. Init => WaitInv /\ ShownInv
  BY NoLoopIsLoop, NoIntentIsIntent DEF Init, WaitInv, ShownInv
<1> QED
  BY <1>1, SwitchInit DEF DropInv

LEMMA WaitInductive == DropInv /\ [Next]_vars => WaitInv'
<1> SUFFICES ASSUME DropInv, [Next]_vars PROVE WaitInv'
  OBVIOUS
<1> USE DEF WaitInv, DropInv
<1>0. loop \in Loops /\ (loop.pc # "off" => holder # "none")
  BY DEF SwitchInv, WishInv
<1>1. CASE LoopStarts \/ LoopLooks \/ LoopExpires
  BY <1>1 DEF LoopStarts, LoopLooks, LoopExpires, pipe
<1>2. CASE LoopAsks
  BY <1>2, <1>0 DEF LoopAsks, Send, Loop, pipe, Loops
<1>3. CASE LoopSends
  BY <1>3, <1>0 DEF LoopSends, Send, Loop, pipe, Loops
<1>4. CASE LoopHears \/ LoopRecords \/ PollHears
  BY <1>4 DEF LoopHears, LoopRecords, PollHears, Receive
<1>5. CASE PollAsks
  BY <1>5 DEF PollAsks, Send, pipe
<1>6. CASE TaskBegins \/ Command \/ \E want \in BOOLEAN : UserAsks(want)
  BY <1>6, <1>0 DEF TaskBegins, Command, UserAsks, pipe
<1>7. CASE Serves \/ MonitorMoves \/ ServiceDies \/ ServiceReturns
           \/ ForeignAppears \/ ForeignGoes \/ UNCHANGED vars
  BY <1>7 DEF Serves, ServesStatus, ServesSet, MonitorMoves, ServiceDies, ServiceReturns,
     ForeignAppears, ForeignGoes, pipe, vars
<1> QED
  BY <1>1, <1>2, <1>3, <1>4, <1>5, <1>6, <1>7 DEF Next, LoopSteps, PollSteps

\* What the GUI hears from the pipe, as far as anybody waits for it.
LEMMA HeardIsShown ==
    ASSUME ShownInv, NEW a, NEW client, Receive(client, a), a \in Statuses,
           intent.gen # 0 \/ client = "poll"
    PROVE  a \in shown
BY DEF ShownInv, Receive, Statuses

\* A loop step gives an intent up for a status that was shown, and remembers
\* only such a status.
LoopDrops ==
    /\ intent.gen # 0 /\ intent'.gen = 0 => shown \cap Reached(intent.want) # {}
    /\ intent' \in {intent, NoIntent}
    /\ intent.gen # 0 /\ loop'.last # "unknown" => loop'.last \in shown

LEMMA ObserveDrops ==
    ASSUME DropInv, loop.pc # "off", NEW a, Observe(a),
           a \in Statuses \cup {"failed", "closed"},
           a \in Statuses /\ intent.gen # 0 => a \in shown
    PROVE  LoopDrops
<1> USE NoLoopIsLoop, NoIntentIsIntent DEF LoopDrops
<1>0. /\ loop \in Loops /\ NoLoop.last = "unknown"
      /\ intent.gen # 0 => intent.want = loop.want
      /\ intent.gen # 0 /\ loop.last # "unknown" => loop.last \in shown
  BY DEF DropInv, SwitchInv, WishInv, ShownInv
<1>1. CASE ReturnOpen
  BY <1>1 DEF ReturnOpen, EndLoop
<1>2. CASE a = Target(loop.want) /\ ReturnReached
  <2>1. a \in Statuses /\ a \in Reached(loop.want)
    BY <1>2 DEF Target, Reached, Statuses
  <2>2. loop' = NoLoop /\ intent' \in {intent, NoIntent}
    BY <1>2 DEF ReturnReached, EndLoop
  <2> QED
    BY <2>1, <2>2, <1>0
<1>3. CASE Wait
  BY <1>3, <1>0 DEF Wait, Loop, Loops
<1>4. CASE a \in Statuses /\ intent' = intent /\ loop'.last = a
  BY <1>4, <1>0
<1>5. ASSUME a \in {"starting", "stopping", "error"},
             Loop([loop EXCEPT !.pc = "look", !.last = a])
      PROVE  a \in Statuses /\ intent' = intent /\ loop'.last = a
  BY <1>5, <1>0 DEF Loop, Loops, Statuses
<1>6. ASSUME a \in {"disabled", "running"},
             Loop(IF loop.pending /\ ~loop.ambiguous /\ loop.observed < Looks
                  THEN [loop EXCEPT !.pc = "look", !.last = a, !.observed = @ + 1]
                  ELSE [loop EXCEPT !.pc = "send", !.last = a, !.observed = 0,
                                    !.pending = TRUE, !.ambiguous = FALSE])
      PROVE  a \in Statuses /\ intent' = intent /\ loop'.last = a
  BY <1>6, <1>0 DEF Loop, Loops, Statuses
<1> QED
  BY <1>1, <1>2, <1>3, <1>4, <1>5, <1>6 DEF Observe

LEMMA LoopGivesUpRightly ==
    ASSUME DropInv, LoopSteps \/ LoopExpires
    PROVE  LoopDrops /\ UNCHANGED <<svc, shown>>
<1> USE NoLoopIsLoop, NoIntentIsIntent
<1>0. /\ loop \in Loops /\ NoLoop.last = "unknown"
      /\ intent.gen # 0 /\ loop.last # "unknown" => loop.last \in shown
  BY DEF DropInv, SwitchInv, WishInv, ShownInv
<1>1. CASE LoopStarts
  BY <1>1, <1>0 DEF LoopStarts, ReturnOpen, EndLoop, LoopDrops, Loops, service
<1>2. CASE LoopLooks
  BY <1>2, <1>0 DEF LoopLooks, LoopDrops, Loops, service, intents
<1>3. CASE LoopAsks
  <2>1. CASE Listens
    BY <1>3, <2>1, <1>0 DEF LoopAsks, Loop, LoopDrops, Loops, service
  <2>2. CASE ~Listens
    BY <1>3, <2>2, ObserveDrops DEF LoopAsks, Statuses, service
  <2> QED
    BY <2>1, <2>2
<1>4. CASE LoopHears
  <2>1. PICK a \in Answers : Receive("loop", a) /\ Observe(a)
    BY <1>4 DEF LoopHears
  <2>2. a \in Statuses /\ intent.gen # 0 => a \in shown
    BY <2>1, HeardIsShown DEF DropInv
  <2> QED
    BY <1>4, <2>1, <2>2, ObserveDrops DEF LoopHears, Answers, service
<1>5. CASE LoopSends
  BY <1>5, <1>0 DEF LoopSends, Send, NotSent, Loop, LoopDrops, Loops, service
<1>6. CASE LoopRecords
  <2>1. PICK a \in Answers : Receive("loop", a) /\ Record(a)
    BY <1>6 DEF LoopRecords
  <2>2. a \in Statuses /\ intent.gen # 0 => a \in shown
    BY <2>1, HeardIsShown DEF DropInv
  <2>3. UNCHANGED <<svc, shown>>
    BY <1>6 DEF LoopRecords, service
  <2>4. intent' = intent /\ loop'.last \in {"unknown", a} /\
        (loop'.last = "unknown" \/ a \in Statuses)
    BY <2>1, <1>0 DEF Record, ReturnOpen, EndLoop, Loop, Loops
  <2> QED
    BY <2>2, <2>3, <2>4 DEF LoopDrops
<1>7. CASE LoopExpires
  <2>1. UNCHANGED <<svc, shown>> /\ loop' = NoLoop /\ intent' \in {intent, NoIntent}
    BY <1>7 DEF LoopExpires, ReturnLate, EndLoop, service
  <2>2. intent.gen # 0 /\ intent'.gen = 0 => loop.last \in Reached(intent.want)
    BY <1>7 DEF LoopExpires, ReturnLate
  <2>3. loop.last \in Reached(intent.want) => loop.last # "unknown"
    BY DEF Reached
  <2> QED
    BY <1>0, <2>1, <2>2, <2>3 DEF LoopDrops
<1> QED
  BY <1>1, <1>2, <1>3, <1>4, <1>5, <1>6, <1>7 DEF LoopSteps

LEMMA PollGivesUpRightly ==
    ASSUME DropInv, PollSteps
    PROVE  /\ intent.gen # 0 /\ intent'.gen = 0 => shown \cap Reached(intent.want) # {}
           /\ intent' \in {intent, NoIntent}
<1>0. "unknown" \notin Reached(intent.want)
  BY DEF Reached
<1>1. CASE PollAsks
  BY <1>0, <1>1 DEF PollAsks, Learn
<1>2. CASE PollHears
  <2>1. PICK a \in Answers :
          /\ Receive("poll", a)
          /\ CASE a \in Statuses -> Learn(a)
               [] a = "closed"   -> Learn("unknown")
               [] a = "failed"   -> UNCHANGED <<intent, queued>>
    BY <1>2 DEF PollHears
  <2>2. CASE a \in Statuses
    <3>1. Learn(a) /\ a \in shown
      BY <2>1, <2>2, HeardIsShown DEF DropInv, Statuses
    <3> QED
      BY <3>1 DEF Learn
  <2>3. CASE a = "closed"
    BY <1>0, <2>1, <2>3 DEF Learn, Statuses
  <2>4. CASE a = "failed"
    BY <2>1, <2>4 DEF Statuses
  <2> QED
    BY <2>2, <2>3, <2>4 DEF Answers
<1> QED
  BY <1>1, <1>2 DEF PollSteps

LEMMA ShownInductive == DropInv /\ [Next]_vars => ShownInv'
<1> SUFFICES ASSUME DropInv, [Next]_vars PROVE ShownInv'
  OBVIOUS
<1> USE NoLoopIsLoop, NoIntentIsIntent
<1>0. /\ ShownInv /\ WaitInv /\ loop \in Loops /\ NoLoop.last = "unknown"
      /\ answer # "none" => request = Idle /\ waiting # "none"
      /\ loop.pc # "off" => holder # "none"
  BY DEF DropInv, SwitchInv, WishInv, PipeInv
<1>1. CASE LoopSteps \/ LoopExpires
  <2>1. LoopDrops /\ UNCHANGED <<svc, shown>> /\ intent' \in {intent, NoIntent}
    BY <1>1, LoopGivesUpRightly DEF LoopDrops
  <2>2. answer' \in {answer, "none"} /\ (waiting' = "poll" => waiting = "poll")
    BY <1>1 DEF LoopSteps, LoopStarts, LoopLooks, LoopAsks, LoopHears, LoopSends,
       LoopRecords, LoopExpires, Send, Receive, pipe
  <2> QED
    BY <1>0, <2>1, <2>2 DEF ShownInv, LoopDrops, Statuses
<1>2. CASE Command
  <2>2. /\ svc' = svc /\ answer' = answer /\ waiting' = waiting /\ holder = "none"
        /\ shown' = (IF waiting = "none" THEN {svc} ELSE shown \cup {svc})
        /\ loop' = [NoLoop EXCEPT !.pc = "start", !.want = wishes[gen + 1], !.gen = gen + 1]
    BY <1>2 DEF Command, StartLoop, service, pipe
  <2>3. loop'.last = "unknown"
    BY <2>2 DEF Loops
  <2>4. waiting # "loop"
    BY <1>0, <2>2 DEF WaitInv
  <2>5. answer \in Statuses => waiting \notin {"none", "loop"}
    BY <1>0, <2>4 DEF Statuses
  <2>6. answer \in Statuses => waiting = "poll"
    BY <1>0, <2>5 DEF WaitInv
  <2> QED
    BY <1>0, <2>2, <2>3, <2>6 DEF ShownInv
<1>3. CASE TaskBegins
  BY <1>0, <1>3 DEF TaskBegins, StartLoop, ShownInv, service, pipe, Loops
<1>4. CASE PollAsks
  <2>1. intent' \in {intent, NoIntent} /\ svc' = svc /\ answer' = answer /\ loop' = loop
    BY <1>4, PollGivesUpRightly DEF PollSteps, PollAsks, Send, pipe, service
  <2>2. waiting = "none" /\ answer \notin Statuses
    BY <1>0, <1>4 DEF PollAsks, Statuses
  <2>3. CASE Listens
    BY <1>0, <1>4, <2>1, <2>2, <2>3 DEF PollAsks, ShownInv
  <2>4. CASE ~Listens
    BY <1>0, <1>4, <2>1, <2>2, <2>4 DEF PollAsks, ShownInv, pipe
  <2> QED
    BY <2>3, <2>4
<1>5. CASE PollHears
  <2>1. intent' \in {intent, NoIntent}
    BY <1>5, PollGivesUpRightly DEF PollSteps
  <2>2. svc' = svc /\ shown' = shown /\ loop' = loop /\ waiting' = "none" /\ answer' = "none"
    BY <1>5 DEF PollHears, Receive, service
  <2> QED
    BY <1>0, <2>1, <2>2 DEF ShownInv, Statuses
<1>6. CASE ServesStatus
  <2>1. UNCHANGED <<svc, waiting, intent, loop, shown>> /\ answer' \in {"none", svc, "failed"}
    BY <1>6 DEF ServesStatus, Answer, service, intents
  <2> QED
    BY <1>0, <2>1 DEF ShownInv, Statuses
<1>7. CASE ServesSet
  <2>1. UNCHANGED <<waiting, intent, loop>> /\ Show(svc')
        /\ answer' \in {"none", svc', "failed"}
    BY <1>7 DEF ServesSet, Answer, intents
  <2> QED
    BY <1>0, <2>1 DEF ShownInv, Show, Statuses
<1>8. CASE MonitorMoves \/ ServiceReturns
  <2>1. UNCHANGED <<waiting, answer, intent, loop>> /\ Show(svc')
    BY <1>8 DEF MonitorMoves, ServiceReturns, pipe, intents
  <2> QED
    BY <1>0, <2>1 DEF ShownInv, Show
<1>9. CASE ServiceDies
  <2>1. UNCHANGED <<waiting, intent, loop>> /\ Show(svc') /\ answer' \in {answer, "closed"}
    BY <1>9 DEF ServiceDies, intents
  <2> QED
    BY <1>0, <2>1 DEF ShownInv, Show, Statuses
<1>10. CASE ForeignAppears \/ ForeignGoes \/ UNCHANGED vars
            \/ \E want \in BOOLEAN : UserAsks(want)
  BY <1>0, <1>10 DEF UserAsks, ForeignAppears, ForeignGoes, ShownInv, vars, service, pipe, intents
<1> QED
  BY <1>1, <1>2, <1>3, <1>4, <1>5, <1>6, <1>7, <1>8, <1>9, <1>10
  DEF Next, Serves, PollSteps

LEMMA DropInvHolds == Spec => []DropInv
<1>1. DropInv /\ [Next]_vars => DropInv'
  BY WishInductive, PipeInductive, StaleInductive, WaitInductive, ShownInductive
  DEF DropInv, SwitchInv
<1> QED
  BY DropInit, <1>1, PTL DEF Spec

\* An intent is dropped without a new command only when the service has shown,
\* since the command, a status apply_intent_to_snapshot takes for its target;
\* an outage, a late answer and the deadline drop nothing else.
THEOREM IntentsAreKept == Spec => DroppedWhenReached
<1>1. DropInv /\ [Next]_vars =>
        (intent.gen # 0 /\ intent'.gen = 0 => shown \cap Reached(intent.want) # {})
  <2> SUFFICES ASSUME DropInv, [Next]_vars, intent.gen # 0, intent'.gen = 0
               PROVE  shown \cap Reached(intent.want) # {}
    OBVIOUS
  <2>1. CASE LoopSteps \/ LoopExpires
    BY <2>1, LoopGivesUpRightly DEF LoopDrops
  <2>2. CASE PollSteps
    BY <2>2, PollGivesUpRightly
  <2>3. CASE Command \/ \E want \in BOOLEAN : UserAsks(want)
    BY <2>3 DEF Command, UserAsks, DropInv, SwitchInv, WishInv
  <2>4. CASE Serves \/ MonitorMoves \/ ServiceDies \/ ServiceReturns \/ TaskBegins
             \/ ForeignAppears \/ ForeignGoes \/ UNCHANGED vars
    BY <2>4 DEF Serves, ServesStatus, ServesSet, MonitorMoves, ServiceDies,
       ServiceReturns, TaskBegins, ForeignAppears, ForeignGoes, intents, vars
  <2> QED
    BY <2>1, <2>2, <2>3, <2>4 DEF Next
<1>2. DropInv /\ [Next]_vars =>
        [intent.gen # 0 /\ intent'.gen = 0 =>
           shown \cap (IF intent.want THEN {"starting", "running", "stopping"}
                                      ELSE {"disabled"}) # {}]_vars
  BY <1>1 DEF Reached
<1> QED
  BY DropInvHolds, <1>2, PTL DEF Spec, DroppedWhenReached
-----------------------------------------------------------------------------
(* GuiSession: the inductive invariant.                                    *)

\* The variables by the tasks that use them.
Kinds ==
    /\ live \subseteq Pids /\ gone \subseteq Pids /\ child \in MaybePid
    /\ mine \in MaybePid /\ exiting \in MaybePid
    /\ orphan \in Orphans
    /\ {override, stable, file, prof, blocked, stopReq} \subseteq BOOLEAN

\* One core at a time: what runs, or has run and is not yet cleaned up, is the
\* marked sidecar, unless it was stopped.
OneCore ==
    /\ live \subseteq {child}
    /\ live # {} => gone = {} /\ ~stopReq
    /\ gone # {} => stopReq \/ child \in gone
    /\ \A p, q \in gone : p = q

\* mihomo_start is not entered while a stop or a clean-up is under way, and
\* what it has seen stays so until it spawns.
Starting ==
    /\ (startPc # "idle") = (life = "start")
    /\ startPc \in {"begin", "prepare", "spawn"} => stopPc = "idle"
    /\ startPc = "begin" => (stopReq => gone = {})
    /\ startPc \in {"prepare", "spawn"} => live = {} /\ gone = {}
    /\ startPc = "wait" => mine # NoPid /\ child \in {mine, NoPid}

\* The handler of an exit has the lock until the sidecar is cleaned up.
Exiting ==
    /\ (exitPc # "idle") = (life = "exit")
    /\ exitPc # "idle" => exiting \in gone

\* While the files are restored after a crash nothing runs.
Booting ==
    tunBy = "boot" => /\ live = {} /\ gone = {}
                      /\ startPc = "idle" /\ exitPc = "idle" /\ stopPc = "idle"

CoreInv == Kinds /\ OneCore /\ Starting /\ Exiting /\ Booting

\* Who is at which point under TRANSITION_LOCK.
TunHeld ==
    /\ tunPc \in TunPoints /\ tunBy \in {"free", "tun", "undo", "stop", "exit", "boot"}
    /\ (tunBy = "free") = (tunPc = "idle")
    /\ tunPc \in TunPoints \ ({"idle"} \cup Restoring) => tunBy = "tun"
    /\ tunBy = "exit" => exitPc = "down"
    /\ tunBy = "stop" => stopPc = "down"

\* What a routine relies on of the steps it has made.
Made ==
    /\ tunPc = "record" => ~file /\ prof
    /\ tunPc \in {"raise", "load", "confirm"} => file
    /\ tunPc \in {"generate", "unload", "clear"} => ~override
    /\ tunPc \in {"unload", "clear"} => ~stable
    /\ tunPc = "clear" => loaded = {}

\* The runtime knows of the session on disk, and shows no TUN when there is none.
Known ==
    /\ status \in TunStatuses
    /\ file => prof \/ blocked \/ tunBy = "boot"
    /\ status = "disabled" => ~prof /\ tunBy \in {"free", "boot"}
    /\ status = "disabled" /\ tunBy = "free" => ~file

SessionInv == loaded \subseteq live /\ SessionRecorded /\ TunHeld /\ Made /\ Known

GuiInv == CoreInv /\ SessionInv
-----------------------------------------------------------------------------
LEMMA GuiInvStarts == GuiInit => GuiInv
<1> SUFFICES ASSUME GuiInit PROVE GuiInv
  OBVIOUS
<1> USE GuiAssumption DEF GuiInit
<1>1. CoreInv
  BY DEF CoreInv, Kinds, OneCore, Starting, Exiting, Booting, MaybePid, Orphans
<1>2. SessionInv
  BY DEF SessionInv, SessionRecorded, TunHeld, Made, Known, TunStatuses, TunPoints,
     Restoring
<1> QED
  BY <1>1, <1>2 DEF GuiInv
-----------------------------------------------------------------------------
(* One core at a time.                                                     *)

\* What a TUN routine does to the tasks: a restore that ends lets its caller on.
TunKeeps ==
    /\ UNCHANGED <<live, gone, marks, life, startPc, mine, exiting>> /\ orphan' \in Orphans
    /\ {override', stable', file', prof', blocked'} \subseteq BOOLEAN
    /\ exitPc' = exitPc \/ (tunBy = "exit" /\ exitPc' = "finish")
    /\ stopPc' = stopPc \/ (tunBy = "stop" /\ stopPc' \in {"idle", "kill"})
    /\ tunBy' = "boot" => tunBy = "boot"

LEMMA TunStepKeeps == GuiInv /\ TunStep => TunKeeps
<1> SUFFICES ASSUME GuiInv, TunStep PROVE TunKeeps
  OBVIOUS
<1>0. {override, stable, file, prof, blocked} \subseteq BOOLEAN /\ orphan \in Orphans
  BY DEF GuiInv, CoreInv, Kinds
<1> USE DEF session
<1>1. CASE EnableRecords \/ EnableRaises \/ EnableLoads \/ EnableConfirms
  <2>1. UNCHANGED <<live, gone, orphan, marks, blocked, life, startPc, mine, exiting,
                    exitPc, stopPc>>
    BY <1>1 DEF EnableRecords, EnableRaises, EnableLoads, EnableConfirms,
       process, tasks, session
  <2>2. {override', stable', file', prof'} \subseteq BOOLEAN
    BY <1>0, <1>1 DEF EnableRecords, EnableRaises, EnableLoads, EnableConfirms,
       session, configs
  <2>3. tunBy' = "boot" => tunBy = "boot"
    BY <1>1 DEF EnableRecords, EnableRaises, EnableLoads, EnableConfirms,
       Unlocked, Undo
  <2> QED
    BY <1>0, <2>1, <2>2, <2>3 DEF TunKeeps
<1>2. CASE RestoreLowers
  BY <1>0, <1>2 DEF RestoreLowers, RestoreEnds, Step, Unlocked, TunKeeps,
     process
<1>3. CASE RestoreGenerates
  BY <1>0, <1>3 DEF RestoreGenerates, RestoreEnds, Step, Unlocked, TunKeeps,
     process
<1>4. CASE RestoreUnloads
  BY <1>0, <1>4 DEF RestoreUnloads, RestoreEnds, Step, Unlocked, TunKeeps,
     configs
<1>5. CASE RestoreClears
  BY <1>0, <1>5 DEF RestoreClears, RestoreEnds, Unlocked, TunKeeps, Orphans
<1> QED
  BY <1>1, <1>2, <1>3, <1>4, <1>5 DEF TunStep

\* Everything but the TUN routines, which leave the cores alone.
LEMMA CoreInductive ==
    ASSUME "eager" \notin GuiFaults, "kill" \notin GuiFaults, GuiInv,
           [GuiNext]_guiVars
    PROVE  CoreInv'
<1>0. NoPid \notin Pids
  BY GuiAssumption
<1> USE <1>0
<1> USE DEF GuiInv, CoreInv, Kinds, OneCore, Starting, Exiting, Booting,
        MaybePid, May
<1>1. CASE StartBegins
  BY <1>1 DEF StartBegins, process, marks, configs, session
<1>2. CASE StartLooks
  BY <1>2 DEF StartLooks, StartEnds, Ready, process, configs, session
<1>3. CASE StartPrepares
  BY <1>3 DEF StartPrepares, StartEnds, process, session
<1>4. CASE StartSpawns
  <2>1. /\ live = {} /\ gone = {} /\ startPc = "spawn" /\ stopPc = "idle"
        /\ tunBy # "boot" /\ life = "start" /\ exitPc = "idle"
    BY <1>4 DEF StartSpawns
  <2>2. UNCHANGED <<gone, stopPc, exitPc, exiting, tunBy, orphan, override, stable, file,
                    prof, blocked>>
    BY <1>4 DEF StartSpawns, configs, session
  <2>3. CASE \E p \in Pids : /\ live' = live \cup {p} /\ mine' = p /\ child' = p
                            /\ stopReq' = FALSE /\ startPc' = "wait" /\ life' = life
    <3>1. PICK p \in Pids : /\ live' = live \cup {p} /\ mine' = p /\ child' = p
                            /\ stopReq' = FALSE /\ startPc' = "wait" /\ life' = life
      BY <2>3
    <3>2. live' = {p} /\ p # NoPid
      BY <2>1, <3>1
    <3>3. Kinds'
      BY <2>2, <3>1, <3>2
    <3>4. OneCore'
      BY <2>1, <2>2, <3>1, <3>2
    <3>5. Starting' /\ Exiting' /\ Booting'
      BY <2>1, <2>2, <3>1, <3>2
    <3> QED
      BY <3>3, <3>4, <3>5
  <2>4. CASE StartEnds /\ UNCHANGED <<live, child, stopReq>>
    BY <2>1, <2>2, <2>4 DEF StartEnds
  <2> QED
    BY <1>4, <2>3, <2>4 DEF StartSpawns
<1>5. CASE StartSucceeds
  BY <1>5 DEF StartSucceeds, StartEnds, process, configs, session
<1>6. CASE StartFails
  BY <1>6 DEF StartFails, StartEnds, Dies, configs, session
<1>7. CASE ExitBegins
  BY <1>7 DEF ExitBegins, process, marks, configs, session
<1>8. CASE ExitTakesTun
  BY <1>8 DEF ExitTakesTun, process, marks, configs, session
<1>9. CASE ExitFinishes
  <2>1. /\ exiting \in gone /\ exitPc' = "idle" /\ exiting' = NoPid /\ life' = "free"
        /\ gone' = gone \ {exiting} /\ child' = NoPid /\ stopReq' = FALSE
        /\ UNCHANGED <<live, orphan, configs, session, tunBy, startPc, mine, stopPc>>
    BY <1>9 DEF ExitFinishes
  <2>2. gone' = {} /\ live = {}
    BY <2>1
  <2>3. Kinds' /\ OneCore'
    BY <2>1, <2>2 DEF configs, session
  <2>4. exitPc = "finish" /\ life = "exit" /\ startPc = "idle" /\ tunBy # "boot"
    BY <1>9 DEF ExitFinishes
  <2>5. Starting' /\ Exiting' /\ Booting'
    BY <2>1, <2>2, <2>4
  <2> QED
    BY <2>3, <2>5
<1>10. CASE StopBegins
  BY <1>10 DEF StopBegins, process, marks, configs, session, locks
<1>11. CASE StopTakesTun
  BY <1>11 DEF StopTakesTun, process, marks, configs, session
<1>12. CASE StopKills
  BY <1>12 DEF StopKills, Dies, configs, session, locks
<1>13. CASE EnableChecks \/ DisableBegins \/ DisableNothing
  <2>1. UNCHANGED process /\ UNCHANGED marks /\ UNCHANGED tasks /\ UNCHANGED life
    BY <1>13 DEF EnableChecks, DisableBegins, DisableNothing, locks
  <2>2. UNCHANGED configs /\ {prof', blocked'} \subseteq BOOLEAN
    BY <1>13 DEF EnableChecks, DisableBegins, DisableNothing
  <2>3. tunBy' # "boot"
    BY <1>13 DEF EnableChecks, DisableBegins, DisableNothing, locks
  <2> QED
    BY <2>1, <2>2, <2>3 DEF process, marks, tasks, configs
<1>14. CASE TunStep
  BY <1>14, TunStepKeeps DEF TunKeeps, marks, SessionInv, TunHeld
<1>15. CASE SidecarExits
  BY <1>15 DEF SidecarExits, Dies, marks, configs, session, locks, tasks
<1>16. CASE OrphanExits \/ UNCHANGED guiVars
  BY <1>16 DEF OrphanExits, Orphans, guiVars, process, marks, configs, session, locks,
     tasks
<1>17. CASE CrashAndRestart
  BY <1>17 DEF CrashAndRestart, Orphans, Unlocked, configs
<1> QED
  BY <1>1, <1>2, <1>3, <1>4, <1>5, <1>6, <1>7, <1>8, <1>9, <1>10, <1>11, <1>12, <1>13,
     <1>14, <1>15, <1>16, <1>17 DEF GuiNext, StartStep, ExitStep, StopStep
-----------------------------------------------------------------------------
(* The session.                                                            *)

LEMMA SessionInductive ==
    ASSUME "eager" \notin GuiFaults, "kill" \notin GuiFaults, GuiInv,
           [GuiNext]_guiVars
    PROVE  SessionInv'
<1>0. NoPid \notin Pids
  BY GuiAssumption
<1> USE <1>0
<1> USE DEF GuiInv, SessionInv, SessionRecorded, TunHeld, Made, Known,
        TunStatuses, TunPoints, Restoring, May
<1>1. CASE StartBegins \/ StartSucceeds \/ ExitBegins \/ StopBegins
  BY <1>1 DEF StartBegins, StartSucceeds, ExitBegins, StopBegins, CoreInv,
     Exiting, process, marks, configs, session, locks
<1>2. CASE StartLooks
  BY <1>2 DEF StartLooks, process, configs, session
<1>3. CASE StartPrepares
  BY <1>3 DEF StartPrepares, process, session
<1>4. CASE StartSpawns
  <2>1. UNCHANGED <<override, stable, file, status, prof, blocked, tunBy, tunPc, stopPc,
                    exitPc, orphan>>
    BY <1>4 DEF StartSpawns, configs, session
  <2>2. /\ live \subseteq live' /\ loaded' \subseteq live'
        /\ ~stable => loaded' = loaded
    BY <1>4 DEF StartSpawns
  <2> QED
    BY <2>1, <2>2
<1>6. CASE StartFails
  BY <1>6 DEF StartFails, Dies, configs, session
<1>8. CASE ExitTakesTun
  <2>1. UNCHANGED <<loaded, live, orphan, override, stable, file, stopPc>> /\ tunBy = "free"
    BY <1>8 DEF ExitTakesTun, process, configs
  <2>2. CASE /\ file \/ prof
             /\ tunBy' = "exit" /\ tunPc' = "lower" /\ exitPc' = "down"
             /\ UNCHANGED session
    BY <2>1, <2>2 DEF session
  <2>3. CASE status' = "error" /\ UNCHANGED <<prof, blocked, tunBy, tunPc>>
    BY <2>1, <2>3
  <2>4. CASE UNCHANGED <<session, tunBy, tunPc>>
    BY <2>1, <2>4 DEF session
  <2> QED
    BY <1>8, <2>2, <2>3, <2>4 DEF ExitTakesTun
<1>9. CASE ExitFinishes
  BY <1>9 DEF ExitFinishes, configs, session
<1>11. CASE StopTakesTun
  BY <1>11 DEF StopTakesTun, process, marks, configs, session
<1>12. CASE StopKills
  <2>1. /\ loaded' \subseteq live' /\ loaded' \subseteq loaded
        /\ UNCHANGED <<configs, session, tunBy, tunPc, exitPc, orphan>> /\ stopPc = "kill"
    BY <1>12 DEF StopKills, Dies, locks
  <2> QED
    BY <2>1 DEF configs, session
<1>13. CASE EnableChecks
  BY <1>13 DEF EnableChecks, Active, process, configs, tasks
<1>14. CASE DisableBegins
  BY <1>14 DEF DisableBegins, Active, process, configs, tasks
<1>15. CASE DisableNothing
  BY <1>15 DEF DisableNothing, Active, process, configs, tasks, locks
<1>16. CASE EnableRecords
  <2>1. UNCHANGED <<live, loaded, orphan, override, stable, blocked, exitPc, stopPc>>
        /\ tunBy = "tun" /\ ~file /\ prof
    BY <1>16 DEF EnableRecords, process, tasks
  <2>2. CASE file' = TRUE /\ tunPc' = "raise" /\ UNCHANGED <<tunBy, status, prof>>
    BY <1>16, <2>1, <2>2 DEF EnableRecords
  <2>3. CASE Unlocked /\ status' = "disabled" /\ prof' = FALSE /\ UNCHANGED file
    BY <2>1, <2>3 DEF Unlocked
  <2> QED
    BY <1>16, <2>2, <2>3 DEF EnableRecords
<1>17. CASE EnableRaises
  BY <1>17 DEF EnableRaises, Undo, process, session, tasks
<1>18. CASE EnableLoads
  BY <1>18 DEF EnableLoads, Ready, Undo, session, tasks
<1>19. CASE EnableConfirms
  BY <1>19 DEF EnableConfirms, Undo, Unlocked, process, configs, tasks
<1>20. CASE RestoreLowers
  BY <1>20 DEF RestoreLowers, RestoreEnds, Step, Unlocked, process, session
<1>21. CASE RestoreGenerates
  <2>1. tunBy \in {"exit", "boot"} => loaded = {}
    BY DEF CoreInv, OneCore, Exiting, Booting
  <2> QED
    BY <1>21, <2>1 DEF RestoreGenerates, RestoreEnds, Step, Unlocked, process, session
<1>22. CASE RestoreUnloads
  <2>1. loaded \subseteq {child} /\ (child = NoPid => loaded = {})
    BY DEF CoreInv, OneCore, Kinds
  <2>2. UNCHANGED <<live, orphan, override, stable, file>>
    BY <1>22 DEF RestoreUnloads, configs
  <2>3. CASE Step("clear") /\ loaded' = {}
    BY <1>22, <2>2, <2>3 DEF RestoreUnloads, Step, session
  <2>4. CASE RestoreEnds(FALSE) /\ loaded' \subseteq loaded
    BY <1>22, <2>2, <2>4 DEF RestoreUnloads, RestoreEnds, Unlocked, session
  <2> QED
    BY <1>22, <2>1, <2>3, <2>4 DEF RestoreUnloads
<1>23. CASE RestoreClears
  BY <1>23 DEF RestoreClears, RestoreEnds, Unlocked, session
<1>24. CASE SidecarExits \/ OrphanExits \/ UNCHANGED guiVars
  BY <1>24 DEF SidecarExits, OrphanExits, Dies, guiVars, process, configs,
     session, locks, tasks
<1>25. CASE CrashAndRestart
  BY <1>25 DEF CrashAndRestart, Unlocked, configs
<1> QED
  BY <1>1, <1>2, <1>3, <1>4, <1>6, <1>8, <1>9, <1>11, <1>12, <1>13, <1>14, <1>15,
     <1>16, <1>17, <1>18, <1>19, <1>20, <1>21, <1>22, <1>23, <1>24, <1>25
  DEF GuiNext, StartStep, ExitStep, StopStep, TunStep
-----------------------------------------------------------------------------
LEMMA GuiInvHolds ==
    ASSUME "eager" \notin GuiFaults, "kill" \notin GuiFaults
    PROVE  GuiSpec => []GuiInv
<1>1. GuiInv /\ [GuiNext]_guiVars => GuiInv'
  BY CoreInductive, SessionInductive DEF GuiInv
<1> QED
  BY GuiInvStarts, <1>1, PTL DEF GuiSpec

\* A sidecar that runs is the one the marker stands for, through exits, failed
\* starts, stops and crashes.  Left out are a user who starts a core before the
\* last one is cleaned up ("eager": the handler of the earlier exit clears the
\* marker of the later core), and a Windows that refuses to kill ("kill").
THEOREM NoCoreIsLost ==
    ASSUME "eager" \notin GuiFaults, "kill" \notin GuiFaults
    PROVE  GuiSpec => []CoreStaysOwned
<1>1. GuiInv => CoreStaysOwned
  BY DEF GuiInv, CoreInv, OneCore, CoreStaysOwned
<1> QED
  BY GuiInvHolds, <1>1, PTL

\* Nothing has or enables TUN without tun-state.json, from which the next GUI
\* undoes it: neither the two files nor a sidecar, whatever a start generates
\* meanwhile, nor the sidecar of a GUI that died, until a restore is through.
THEOREM SessionsAreRecorded ==
    ASSUME "eager" \notin GuiFaults, "kill" \notin GuiFaults
    PROVE  GuiSpec => []SessionRecorded
<1>1. GuiInv => SessionRecorded
  BY DEF GuiInv, SessionInv
<1> QED
  BY GuiInvHolds, <1>1, PTL

\* TUN that is shown as off is off, also when the session could not be recorded
\* or a sidecar did not confirm that it is unloaded.  A sidecar left by a crash
\* is the exception, once a restore has ended that could not reach it.
THEOREM OffIsHonest ==
    ASSUME "eager" \notin GuiFaults, "kill" \notin GuiFaults
    PROVE  GuiSpec => []OffMeansOff
<1>1. GuiInv => OffMeansOff
  BY DEF GuiInv, SessionInv, Known, SessionRecorded, OffMeansOff
<1> QED
  BY GuiInvHolds, <1>1, PTL
=============================================================================
