----------------------------- MODULE TunIntent -----------------------------
(***************************************************************************)
(* How the GUI carries a wish for TUN to the Windows service: the intent   *)
(* and its generation (tun.rs), the loop of request_tun with the           *)
(* TunReconciler (service.rs, reconciliation.rs), and a pipe on which an   *)
(* answer can come too late although the service has done what was asked.  *)
(*                                                                         *)
(* Three parties use the pipe: a command of the user and the task that     *)
(* retries an outstanding intent, both under TRANSITION_LOCK, and a poll   *)
(* (tun_status, diagnostic_status), which is not.  REQUEST_LOCK admits one *)
(* request at a time; the service serves one at a time, and goes on with   *)
(* one whose client has left.  ServiceTun has the service in detail.       *)
(***************************************************************************)
EXTENDS Naturals, Sequences

CONSTANTS
    Faults,       \* what may go wrong, see FaultKinds
    MaxFaults,    \* how often, in all
    MaxCommands   \* how many commands the user gives

\* "lost": the answer does not come within IPC_TIMEOUT; "down": the service
\* dies; "error": the service fails a request or a recovery; "external": a TUN
\* of somebody else; "drift": the monitor takes TUN down with a failed core.
FaultKinds == {"lost", "down", "error", "external", "drift"}

ASSUME IntentAssumption ==
    Faults \subseteq FaultKinds /\ MaxFaults \in Nat /\ MaxCommands \in Nat

VARIABLES
    svc,       \* the service's TUN status
    restore,   \* its pending_tun_profile
    up,        \* the service runs and its pipe is there
    foreign,   \* an external TUN
    request,   \* what the service is working on
    waiting,   \* who holds REQUEST_LOCK and waits for the answer
    answer,    \* the answer that lies in the pipe
    intent,    \* TunState.intent; generation 0 is None
    gen,       \* NEXT_TUN_GENERATION: the commands that have got TRANSITION_LOCK
    queued,    \* reconcile_in_flight
    holder,    \* who holds TRANSITION_LOCK
    loop,      \* request_tun: its local variables and the reconciler
    mishaps,   \* faults so far
    wishes,    \* all the user has asked for, in order; those after the first gen
               \* wait for TRANSITION_LOCK
    shown      \* history: the service's statuses since a command last got the
               \* lock, or since the request that was under way then

service == <<svc, restore, up, foreign>>
pipe    == <<request, waiting, answer>>
intents == <<intent, gen, queued, holder, wishes>>
vars    == <<service, pipe, intents, loop, mishaps, shown>>

Statuses == {"disabled", "starting", "running", "stopping", "error"}
Idle     == [kind |-> "none", want |-> FALSE]
NoIntent == [want |-> FALSE, gen |-> 0]
NoLoop   == [pc |-> "off", want |-> FALSE, gen |-> 0, ext |-> FALSE, last |-> "unknown",
             pending |-> FALSE, ambiguous |-> FALSE, observed |-> 0]

\* The status a wish asks for, and those apply_intent_to_snapshot takes for it:
\* the actual state of Starting and Stopping is MioProxyTun as well.
Target(want)  == IF want THEN "running" ELSE "disabled"

\* Mutant: a service that does not answer counts as one without TUN.
ReachedWhenUnknown(want) == IF want THEN {"starting", "running", "stopping"}
                                    ELSE {"disabled", "unknown"}

Reached(want) == IF want THEN {"starting", "running", "stopping"} ELSE {"disabled"}

\* The looks taken after an applied mutation before it is repeated.
Looks == 3

Fault(kind) == kind \in Faults /\ mishaps < MaxFaults /\ mishaps' = mishaps + 1

Show(status) == shown' = IF intent.gen = 0 /\ waiting = "none" THEN {}
                         ELSE shown \cup {status}
-----------------------------------------------------------------------------
Init ==
    /\ svc \in {"disabled", "running"} /\ restore = FALSE /\ up \in BOOLEAN
    /\ foreign = FALSE
    /\ request = Idle /\ waiting = "none" /\ answer = "none"
    /\ intent = NoIntent /\ gen = 0 /\ queued = FALSE /\ holder = "none"
    /\ loop = NoLoop /\ mishaps = 0 /\ wishes = <<>> /\ shown = {}
    /\ svc = "running" => up
-----------------------------------------------------------------------------
(* The service.                                                            *)

Answer(a) == /\ request' = Idle
             /\ answer' = IF waiting = "none" THEN "none" ELSE a

ServesStatus ==
    /\ up /\ request.kind = "status"
    /\ \/ Answer(svc) /\ UNCHANGED mishaps
       \/ Answer("failed") /\ Fault("error")
    /\ UNCHANGED <<service, waiting, intents, loop, shown>>

\* tun_set waits for tun_transition.  Enabling is refused beside an external
\* TUN and while a recovery is outstanding.
ServesSet ==
    /\ up /\ request.kind = "set" /\ svc \notin {"starting", "stopping"}
    /\ \/ /\ request.want => ~foreign /\ svc # "error"
          /\ svc' = Target(request.want) /\ Answer(svc') /\ UNCHANGED mishaps
       \/ /\ request.want /\ (foreign \/ svc = "error")
          /\ UNCHANGED <<svc, mishaps>> /\ Answer("failed")
       \/ /\ Fault("error") /\ Answer("failed")
          /\ svc' \in IF request.want THEN {"disabled", "error"} ELSE {"error"}
    /\ Show(svc')
    /\ UNCHANGED <<restore, up, foreign, waiting, intents, loop>>

\* The monitor takes a failed core's TUN down and brings it back with the next
\* core; a set command forgets nothing of that.
MonitorMoves ==
    /\ up
    /\ \/ /\ svc = "running" /\ Fault("drift")
          /\ svc' = "stopping" /\ restore' = TRUE
       \/ /\ svc = "stopping" /\ UNCHANGED restore
          /\ \/ svc' = "disabled" /\ UNCHANGED mishaps
             \/ svc' = "error" /\ Fault("error")
       \/ /\ svc = "disabled" /\ restore /\ ~foreign
          /\ svc' = "starting" /\ UNCHANGED <<restore, mishaps>>
       \/ /\ svc = "starting"
          /\ \/ svc' = "running" /\ restore' = FALSE /\ UNCHANGED mishaps
             \/ svc' \in {"disabled", "error"} /\ Fault("error") /\ UNCHANGED restore
    /\ Show(svc')
    /\ UNCHANGED <<up, foreign, pipe, intents, loop>>

ServiceDies ==
    /\ up /\ Fault("down")
    /\ up' = FALSE /\ svc' = "disabled" /\ restore' = FALSE
    /\ request' = Idle
    /\ answer' = IF waiting # "none" /\ answer = "none" THEN "closed" ELSE answer
    /\ Show("disabled")
    /\ UNCHANGED <<foreign, waiting, intents, loop>>

\* recover() may leave an error.
ServiceReturns ==
    /\ ~up /\ up' = TRUE
    /\ \/ UNCHANGED <<svc, mishaps>>
       \/ svc' = "error" /\ Fault("error")
    /\ Show(svc')
    /\ UNCHANGED <<restore, foreign, pipe, intents, loop>>

ForeignAppears ==
    /\ ~foreign /\ Fault("external") /\ foreign' = TRUE
    /\ UNCHANGED <<svc, restore, up, pipe, intents, loop, shown>>

ForeignGoes ==
    /\ foreign /\ foreign' = FALSE
    /\ UNCHANGED <<svc, restore, up, pipe, intents, loop, mishaps, shown>>
-----------------------------------------------------------------------------
(* The pipe.  A request is written when the service listens, which it does *)
(* not while it works on another one.                                      *)

Listens == up /\ request = Idle

Send(client, kind, want) ==
    /\ request' = [kind |-> kind, want |-> want]
    /\ waiting' = client /\ UNCHANGED answer

\* The client reads the answer, or its time is up.
Receive(client, a) ==
    /\ waiting = client /\ waiting' = "none" /\ answer' = "none" /\ UNCHANGED request
    /\ \/ answer # "none" /\ a = answer /\ UNCHANGED mishaps
       \/ a = "closed" /\ answer # "closed" /\ Fault("lost")

Answers == Statuses \cup {"failed", "closed"}
-----------------------------------------------------------------------------
(* request_tun returns, to the command or to the task.                     *)

EndLoop == loop' = NoLoop /\ holder' = "none"

\* An error or an external TUN: the intent stays, nothing is scheduled.
ReturnOpen ==
    /\ EndLoop /\ UNCHANGED intent
    /\ queued' = (queued /\ holder # "task")

\* clear_intent_if_generation.
ReturnReached ==
    /\ EndLoop
    /\ intent' = IF intent.gen = loop.gen THEN NoIntent ELSE intent
    /\ queued' = (queued /\ holder # "task")

\* Mutant: a command that returns is done with its intent.
ReturnLateForgets == EndLoop /\ intent' = NoIntent /\ UNCHANGED queued

\* The deadline: a command looks at its last snapshot once more, and leaves
\* the intent to the task.
ReturnLate ==
    /\ EndLoop
    /\ IF holder = "task"
       THEN queued' = FALSE /\ UNCHANGED intent
       ELSE IF intent.gen # 0 /\ loop.last \in Reached(intent.want)
            THEN intent' = NoIntent /\ UNCHANGED queued
            ELSE queued' = TRUE /\ UNCHANGED intent
-----------------------------------------------------------------------------
(* The loop of request_tun.                                                *)

StartLoop(who, want, g) ==
    /\ holder' = who
    /\ loop' = [NoLoop EXCEPT !.pc = "start", !.want = want, !.gen = g]

\* tun_set_enabled is called, whoever holds the lock it then waits for.
UserAsks(want) ==
    /\ Len(wishes) < MaxCommands /\ wishes' = Append(wishes, want)
    /\ UNCHANGED <<service, pipe, intent, gen, queued, holder, loop, mishaps, shown>>

Newest == wishes[Len(wishes)]

\* What the command that got the lock last asked for.
Granted == wishes[gen]

\* Mutant: a command joins the intent that is outstanding.
CommandJoins ==
    /\ holder = "none" /\ gen < Len(wishes)
    /\ gen' = gen + 1 /\ intent' = [want |-> wishes[gen + 1], gen |-> gen + 1]
    /\ StartLoop("cmd", IF intent.gen = 0 THEN wishes[gen + 1] ELSE intent.want, gen + 1)
    /\ shown' = IF waiting = "none" THEN {svc} ELSE shown \cup {svc}
    /\ UNCHANGED <<service, pipe, queued, wishes, mishaps>>

\* The command gets the lock, in its turn; the GUI has no TUN session of its own.
Command ==
    /\ holder = "none" /\ gen < Len(wishes)
    /\ gen' = gen + 1 /\ intent' = [want |-> wishes[gen + 1], gen |-> gen + 1]
    /\ StartLoop("cmd", wishes[gen + 1], gen + 1)
    /\ shown' = IF waiting = "none" THEN {svc} ELSE shown \cup {svc}
    /\ UNCHANGED <<service, pipe, queued, wishes, mishaps>>

\* The task of schedule_intent_reconciliation reads the intent under the lock.
TaskBegins ==
    /\ queued /\ holder = "none"
    /\ IF intent.gen = 0
       THEN queued' = FALSE /\ UNCHANGED <<holder, loop>>
       ELSE StartLoop("task", intent.want, intent.gen) /\ UNCHANGED queued
    /\ UNCHANGED <<service, pipe, intent, gen, wishes, mishaps, shown>>

\* An external TUN ends it at once; to enable, a stopped service is started,
\* which may fail.
LoopStarts ==
    /\ loop.pc = "start"
    /\ \/ foreign /\ ReturnOpen
       \/ loop.want /\ ~up /\ ReturnOpen
       \/ ~foreign /\ loop' = [loop EXCEPT !.pc = "first"] /\ UNCHANGED <<intent, queued, holder>>
    /\ UNCHANGED <<service, pipe, gen, wishes, mishaps, shown>>

LoopLooks ==
    /\ loop.pc \in {"first", "look"}
    /\ loop' = [loop EXCEPT !.pc = "ask", !.ext = foreign]
    /\ UNCHANGED <<service, pipe, intents, mishaps, shown>>

\* The 10 seconds are over; the first round always runs.
LoopExpires ==
    /\ loop.pc = "look" /\ ReturnLate
    /\ UNCHANGED <<service, pipe, gen, wishes, mishaps, shown>>

Loop(changed) == loop' = changed /\ UNCHANGED <<intent, queued, holder>>

Wait == Loop([loop EXCEPT !.pc = "look"])

\* TunReconciler::observe.  An errored service is Unknown and waited for; after
\* an applied mutation three more looks are taken before it is repeated.
Observe(a) ==
    \/ loop.ext /\ ReturnOpen
    \/ ~loop.ext /\ a = "failed" /\ ReturnOpen
    \/ ~loop.ext /\ a = "closed" /\ Wait
    \/ ~loop.ext /\ a = Target(loop.want) /\ ReturnReached
    \/ /\ ~loop.ext /\ a \in {"starting", "stopping", "error"}
       /\ Loop([loop EXCEPT !.pc = "look", !.last = a])
    \/ /\ ~loop.ext /\ a \in {"disabled", "running"} \ {Target(loop.want)}
       /\ Loop(IF loop.pending /\ ~loop.ambiguous /\ loop.observed < Looks
               THEN [loop EXCEPT !.pc = "look", !.last = a, !.observed = @ + 1]
               ELSE [loop EXCEPT !.pc = "send", !.last = a, !.observed = 0,
                                 !.pending = TRUE, !.ambiguous = FALSE])

LoopAsks ==
    /\ loop.pc = "ask" /\ waiting = "none"
    /\ IF Listens
       THEN Send("loop", "status", FALSE) /\ Loop([loop EXCEPT !.pc = "answer"])
       ELSE Observe("closed") /\ UNCHANGED pipe
    /\ UNCHANGED <<service, gen, wishes, mishaps, shown>>

LoopHears ==
    /\ loop.pc = "answer"
    /\ \E a \in Answers : Receive("loop", a) /\ Observe(a)
    /\ UNCHANGED <<service, gen, wishes, shown>>

\* TunReconciler::record_mutation.
Record(a) ==
    \/ a = "failed" /\ ReturnOpen
    \/ /\ a = "closed"
       /\ Loop([loop EXCEPT !.pc = "look", !.pending = TRUE, !.ambiguous = TRUE,
                            !.observed = 0, !.last = "unknown"])
    \/ /\ a \in Statuses
       /\ Loop([loop EXCEPT !.pc = "look", !.pending = TRUE, !.ambiguous = FALSE,
                            !.observed = 0, !.last = a])

NotSent == Loop([loop EXCEPT !.pc = "look", !.pending = FALSE, !.ambiguous = FALSE,
                             !.observed = 0])

LoopSends ==
    /\ loop.pc = "send" /\ waiting = "none"
    /\ IF Listens
       THEN Send("loop", "set", loop.want) /\ Loop([loop EXCEPT !.pc = "result"])
       ELSE NotSent /\ UNCHANGED pipe
    /\ UNCHANGED <<service, gen, wishes, mishaps, shown>>

LoopRecords ==
    /\ loop.pc = "result"
    /\ \E a \in Answers : Receive("loop", a) /\ Record(a)
    /\ UNCHANGED <<service, gen, wishes, shown>>
-----------------------------------------------------------------------------
(* tun_status and diagnostic_status.                                       *)

\* Mutant: only an unavailable service makes the poll schedule the task.
LearnUnavailable(status) ==
    IF intent.gen # 0 /\ status \in Reached(intent.want)
    THEN intent' = NoIntent /\ UNCHANGED queued
    ELSE UNCHANGED intent /\ queued' = (queued \/ status = "unknown")

\* apply_intent_to_snapshot, and the scheduling of the task; an unavailable
\* service has status "unknown" and the projection Recovering.
Learn(status) ==
    IF intent.gen # 0 /\ status \in Reached(intent.want)
    THEN intent' = NoIntent /\ UNCHANGED queued
    ELSE /\ UNCHANGED intent
         /\ queued' = (queued \/ status = "unknown" \/ (intent.gen # 0 /\ status # "error"))

PollAsks ==
    /\ waiting = "none"
    /\ IF Listens
       THEN /\ Send("poll", "status", FALSE) /\ UNCHANGED <<intent, queued>>
            /\ shown' = IF intent.gen = 0 THEN {svc} ELSE shown
       ELSE Learn("unknown") /\ UNCHANGED <<pipe, shown>>
    /\ UNCHANGED <<service, gen, holder, wishes, loop, mishaps>>

PollHears ==
    /\ \E a \in Answers :
         /\ Receive("poll", a)
         /\ CASE a \in Statuses -> Learn(a)
              [] a = "closed"   -> Learn("unknown")
              [] a = "failed"   -> UNCHANGED <<intent, queued>>
    /\ UNCHANGED <<service, gen, holder, wishes, loop, shown>>
-----------------------------------------------------------------------------
LoopSteps == LoopStarts \/ LoopLooks \/ LoopAsks \/ LoopHears \/ LoopSends \/ LoopRecords
PollSteps == PollAsks \/ PollHears
Serves    == ServesStatus \/ ServesSet

Next ==
    \/ Serves \/ MonitorMoves \/ ServiceDies \/ ServiceReturns
    \/ ForeignAppears \/ ForeignGoes
    \/ \E want \in BOOLEAN : UserAsks(want)
    \/ Command \/ TaskBegins \/ LoopSteps \/ LoopExpires \/ PollSteps

Spec == Init /\ [][Next]_vars

\* The service works and the monitor does its rounds; outages and external TUNs
\* end; the GUI polls every 2.5 seconds, and both locks are granted in turn.
FairSpec ==
    /\ Spec
    /\ WF_vars(Serves) /\ WF_vars(MonitorMoves)
    /\ WF_vars(ServiceReturns) /\ WF_vars(ForeignGoes)
    /\ SF_vars(LoopSteps) /\ SF_vars(LoopExpires)
    /\ SF_vars(Command) /\ SF_vars(TaskBegins) /\ SF_vars(PollSteps)
-----------------------------------------------------------------------------
(* Properties.                                                             *)

Points == {"off", "start", "first", "look", "ask", "answer", "send", "result"}

\* Every variable stays in its set.
TypeOK ==
    /\ svc \in Statuses /\ {restore, up, foreign, queued} \subseteq BOOLEAN
    /\ request \in [kind : {"none", "status", "set"}, want : BOOLEAN]
    /\ waiting \in {"none", "loop", "poll"} /\ answer \in Answers \cup {"none"}
    /\ intent \in [want : BOOLEAN, gen : 0..MaxCommands] /\ gen \in 0..Len(wishes)
    /\ wishes \in Seq(BOOLEAN) /\ Len(wishes) <= MaxCommands
    /\ holder \in {"none", "cmd", "task"}
    /\ loop \in [pc : Points, want : BOOLEAN, gen : 0..MaxCommands, ext : BOOLEAN,
                 last : Statuses \cup {"unknown"}, pending : BOOLEAN,
                 ambiguous : BOOLEAN, observed : 0..3]
    /\ mishaps \in 0..MaxFaults /\ shown \subseteq Statuses

\* A switch is only written to the pipe for what the command that got the lock
\* last asked for, whichever of that command and the retry task writes it: no
\* older wish comes back, however often the intent is dropped and renewed.
MutationsAreWanted ==
    [][request.kind # "set" /\ request'.kind = "set" => request'.want = Granted]_vars

\* The wish that request_tun works on gives way to a newer one ("superseded by a
\* newer user intent"): what is written is what the user has asked for last.
\* Not so (TunIntent_late.cfg): the newer command waits for the lock, and the
\* older goes on.
NewestIsSent ==
    [][request.kind # "set" /\ request'.kind = "set" => request'.want = Newest]_vars

\* A switch is carried out after the user has asked for the opposite, because its
\* client has given up or because the newer command waits for the lock; then
\* the intent or that command is still there to correct it.
LateSwitchIsCorrected ==
    [][request.kind = "set" /\ request'.kind = "none" /\ svc' # svc /\ request.want # Newest
         => intent.gen # 0 \/ gen < Len(wishes)]_vars

\* An intent is given up without a new command only after the service has shown
\* what apply_intent_to_snapshot takes for its target.
DroppedWhenReached ==
    [][intent.gen # 0 /\ intent'.gen = 0 =>
         shown \cap (IF intent.want THEN {"starting", "running", "stopping"}
                                    ELSE {"disabled"}) # {}]_vars

\* Every wish is carried out, or replaced by another one that is: no command waits
\* and no intent stays for ever, however task, polls and locks interleave.
Settled   == gen = Len(wishes) /\ intent.gen = 0
IntentsEnd == ~Settled ~> Settled
=============================================================================
