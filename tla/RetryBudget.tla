---------------------------- MODULE RetryBudget ----------------------------
(***************************************************************************)
(* What the service promises about restarting Mihomo on its own, with none *)
(* of its bookkeeping: failures are charged to a budget, an automatic      *)
(* start needs an open budget and a finished back-off, and the budget is   *)
(* only given back for a reason.  CoreRecovery implements it across        *)
(* crashes of the service as long as its state file can be written.        *)
(***************************************************************************)
EXTENDS Integers, Sequences

CONSTANTS MaxFailures, RetryDelays, FailureWindow, HealthyReset

VARIABLES
    now,         \* the clock
    charged,     \* failures charged since the budget was last given back
    last,        \* when the last one was charged, -1 if none
    readySince,  \* since when the core has been seen ready after it, -1 if not
    wanted,      \* the core is supposed to run
    phase        \* an automatic start, or an operator's command, is in progress

budget == <<charged, last, readySince>>
vars   == <<now, budget, wanted, phase>>

Lapsed  == last >= 0 /\ now - last >= FailureWindow
Healthy == readySince >= 0 /\ now - readySince >= HealthyReset

\* The back-off that follows the k-th failure.
Pause(k) == IF k <= Len(RetryDelays) THEN RetryDelays[k]
                                     ELSE RetryDelays[Len(RetryDelays)]

\* An automatic start may begin.
Open ==
    \/ charged = 0 \/ Lapsed
    \/ charged < MaxFailures /\ (readySince >= 0 \/ now >= last + Pause(charged))

Cleared == charged' = 0 /\ last' = -1 /\ readySince' = -1

Init ==
    /\ now = 0 /\ charged = 0 /\ last = -1 /\ readySince = -1
    /\ wanted = TRUE /\ phase = "idle"

Advance == now' = now + 1 /\ UNCHANGED <<budget, wanted, phase>>

\* A start begins; a lapsed budget is given back with it.
Attempt ==
    /\ phase = "idle" /\ phase' = "attempt" /\ wanted /\ Open
    /\ IF Lapsed THEN Cleared ELSE UNCHANGED budget
    /\ UNCHANGED <<now, wanted>>

\* A failure is charged: a failed start or the loss of a running core.
Charge ==
    /\ charged' = IF Lapsed THEN 1
                  ELSE IF charged < MaxFailures THEN charged + 1 ELSE charged
    /\ last' = now /\ readySince' = -1
    /\ phase' = "idle" /\ wanted' \in BOOLEAN
    /\ UNCHANGED now

\* The core is seen ready for the first time since the last failure.
SeenReady ==
    /\ charged > 0 /\ readySince = -1
    /\ readySince' = now
    /\ phase' = "idle" /\ wanted' \in BOOLEAN
    /\ UNCHANGED <<now, charged, last>>

\* The operator starts or stops the core, which gives the budget back.
Command ==
    /\ phase = "idle" /\ phase' = "operator" /\ wanted' \in BOOLEAN
    /\ Cleared /\ UNCHANGED now

CommandProceeds ==
    /\ phase = "operator" /\ wanted' \in BOOLEAN
    /\ UNCHANGED <<now, budget, phase>>

\* The budget is given back on its own: the window has passed, the core has
\* stayed ready, or the core is no longer wanted.
Forgive ==
    /\ wanted' \in BOOLEAN /\ (Lapsed \/ Healthy \/ ~wanted')
    /\ Cleared /\ phase' = "idle"
    /\ UNCHANGED now

\* A start or a command ends without a charge, or with the service.
Settle ==
    /\ phase # "idle" /\ phase' = "idle" /\ wanted' \in BOOLEAN
    /\ UNCHANGED <<now, budget>>

Next ==
    \/ Advance \/ Attempt \/ Charge \/ SeenReady
    \/ Command \/ CommandProceeds \/ Forgive \/ Settle

Spec == Init /\ [][Next]_vars
=============================================================================
