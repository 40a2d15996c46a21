--------------------------- MODULE RecoveryPolicy ---------------------------
(***************************************************************************)
(* The retry policy of the Windows service for the managed Mihomo core:    *)
(* CoreRecoveryState in src-tauri/src/service.rs.  The operators are pure: *)
(* each one takes a policy state and a clock reading (recovery_now, whole  *)
(* seconds) and returns the policy state the Rust method leaves behind.    *)
(* The text of the last error is not modelled.                             *)
(***************************************************************************)
EXTENDS Integers, Sequences

CONSTANTS
    MaxFailures,     \* CORE_RECOVERY_MAX_FAILURES
    RetryDelays,     \* CORE_RECOVERY_RETRY_DELAYS_SECS
    FailureWindow,   \* CORE_RECOVERY_FAILURE_WINDOW_SECS
    HealthyReset     \* CORE_RECOVERY_HEALTHY_RESET_SECS

ASSUME PolicyAssumption ==
    /\ MaxFailures \in Nat \ {0}
    /\ RetryDelays \in Seq(Nat \ {0}) /\ RetryDelays # <<>>
    /\ FailureWindow \in Nat \ {0}
    /\ HealthyReset \in Nat \ {0}

\* Option::None of the Option<u64> instants.
None == -1

Instant == Nat \cup {None}

PolicyState == [count : 0 .. MaxFailures, last : Instant, next : Instant,
                healthy : Instant, suspended : BOOLEAN]

Fresh == [count |-> 0, last |-> None, next |-> None, healthy |-> None,
          suspended |-> FALSE]

\* u64::saturating_sub.
Elapsed(from, now) == IF now >= from THEN now - from ELSE 0

Expired(s, now) == s.last # None /\ Elapsed(s.last, now) >= FailureWindow

ResetIfExpired(s, now) == IF Expired(s, now) THEN Fresh ELSE s

\* The back-off after the k-th failure; past the table its last entry is used.
DelayAfter(k) == IF k <= Len(RetryDelays) THEN RetryDelays[k]
                                          ELSE RetryDelays[Len(RetryDelays)]

Mode(s, now) == IF s.suspended THEN "suspended"
                ELSE IF s.next # None /\ s.next > now THEN "backingOff"
                ELSE "active"

\* Mutant: only the retry instant is looked at.
CanAttemptWhileSuspended(s, now) == s.next = None \/ s.next <= now

CanAttempt(s, now) == Mode(s, now) = "active"

\* Mutant: a failure does not end the healthy period.
RecordFailureKeepsHealthy(s, now) ==
    LET n == IF s.count < MaxFailures THEN s.count + 1 ELSE MaxFailures
    IN  [count     |-> n,
         last      |-> now,
         next      |-> IF n = MaxFailures THEN None ELSE now + DelayAfter(n),
         healthy   |-> s.healthy,
         suspended |-> n = MaxFailures]

RecordFailure(s, now) ==
    LET live == ResetIfExpired(s, now)
        n    == IF live.count < MaxFailures THEN live.count + 1 ELSE MaxFailures
    IN  [count     |-> n,
         last      |-> now,
         next      |-> IF n = MaxFailures THEN None ELSE now + DelayAfter(n),
         healthy   |-> None,
         suspended |-> n = MaxFailures]

MarkReady(s, now) ==
    IF Expired(s, now) THEN Fresh
    ELSE IF s.count = 0 THEN s
    ELSE IF s.healthy = None THEN [s EXCEPT !.next = None, !.healthy = now]
    ELSE IF Elapsed(s.healthy, now) >= HealthyReset THEN Fresh
    ELSE [s EXCEPT !.next = None]

\* A file whose fields cannot have been written by this policy at or before now.
Implausible(s, now) ==
    \/ s.count = 0 /\ s.suspended
    \/ s.count > MaxFailures
    \/ s.count > 0 /\ s.last = None
    \/ s.last > now
    \/ s.healthy > now

\* Mutant: the back-off is forgotten over a restart.
FromPersistedWithoutBackOff(s, now) ==
    IF Implausible(s, now) \/ s.count = 0 \/ Expired(s, now) THEN Fresh
    ELSE [s EXCEPT !.suspended = s.count = MaxFailures, !.next = None]

\* CoreRecoveryState::from_persisted: what a restarted service reads back.
FromPersisted(s, now) ==
    IF \/ Implausible(s, now)
       \/ s.count = 0
       \/ Expired(s, now)
       \/ s.healthy # None /\ Elapsed(s.healthy, now) >= HealthyReset
    THEN Fresh
    ELSE IF s.count = MaxFailures THEN [s EXCEPT !.suspended = TRUE, !.next = None]
    ELSE s

-----------------------------------------------------------------------------
(* What the fields of a state reached by these operators say of each other. *)
Coherent(s) ==
    /\ s.suspended <=> s.count = MaxFailures
    /\ s.count = 0 <=> s.last = None
    /\ s.next # None => /\ s.healthy = None
                        /\ s.count > 0
                        /\ s.next = s.last + DelayAfter(s.count)
    /\ (s.count > 0 /\ ~s.suspended /\ s.healthy = None) => s.next # None
    /\ s.healthy # None => s.count > 0 /\ s.healthy >= s.last
=============================================================================
