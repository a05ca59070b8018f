--------------------------- MODULE SchedulerTiming ---------------------------
(***************************************************************************)
(* The timing contract of ops/scheduler.py: the input of a prediction is   *)
(* cut off a fixed time before the scheduled start, its first call begins  *)
(* within a tolerance of the cutoff, and it completes within a grace.      *)
(* A schedule is a record with the fields start and actual.                *)
(***************************************************************************)
EXTENDS Integers

CONSTANTS TargetCutoff,    \* target_cutoff
          StartTolerance,  \* initial_start_tolerance
          CompletionGrace, \* completion_grace
          RequestTimeout,  \* request_timeout
          MaxAttempts,     \* max_attempts
          InitialDelay,    \* retry_initial_delay
          MaxDelay,        \* retry_max_delay
          NotStarted       \* an actual_start_at that is not known

SmallerOf(a, b) == IF a <= b THEN a ELSE b

\* retry_delay, with the configured backoff multiplier of two.
RetryDelay[attempt \in 1..MaxAttempts] ==
    SmallerOf(InitialDelay * 2 ^ (attempt - 1), MaxDelay)

\* The delays before the second, third, ... attempt, added up.
DelaysBefore[attempt \in 1..MaxAttempts] ==
    IF attempt = 1 THEN 0 ELSE DelaysBefore[attempt - 1] + RetryDelay[attempt - 1]

\* What __post_init__ demands of a configuration.
ASSUME TimingAssumption ==
    /\ {TargetCutoff, StartTolerance, CompletionGrace, RequestTimeout,
        InitialDelay, MaxDelay} \subseteq Nat
    /\ MaxAttempts \in Nat \ {0}
    /\ StartTolerance < CompletionGrace /\ CompletionGrace < TargetCutoff
    /\ RequestTimeout * MaxAttempts + DelaysBefore[MaxAttempts] <= CompletionGrace

\* Seeded fault: the tolerance is taken off the cutoff.
CutoffWithTolerance(schedule) == schedule.start - TargetCutoff - StartTolerance

CutoffAt(schedule) == schedule.start - TargetCutoff

\* deadline_at: the completion grace, the scheduled and the actual start,
\* whichever comes first.
GraceEnd(schedule) ==
    SmallerOf(CutoffAt(schedule) + CompletionGrace, schedule.start)

DeadlineOf(schedule) ==
    IF schedule.actual = NotStarted THEN GraceEnd(schedule)
    ELSE SmallerOf(GraceEnd(schedule), schedule.actual)

InStartWindow(startedAt, schedule) ==
    CutoffAt(schedule) <= startedAt /\ startedAt <= CutoffAt(schedule) + StartTolerance

CompletionIsOnTime(completedAt, schedule) ==
    /\ completedAt < DeadlineOf(schedule)
    /\ completedAt < schedule.start
    /\ schedule.actual # NotStarted => completedAt < schedule.actual
=============================================================================
