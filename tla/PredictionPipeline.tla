------------------------- MODULE PredictionPipeline -------------------------
(***************************************************************************)
(* From a schedule revision to a published prediction and back: source     *)
(* syncs append revisions of one match, scheduler ticks reconcile the      *)
(* latest one and enqueue its jobs, workers lease the jobs and run the     *)
(* orchestrator (freeze, start check, model call, publication), and later  *)
(* ticks revoke what a changed schedule has made invalid.                  *)
(*                                                                         *)
(* One match; matches share nothing here.  A transaction is a step, except *)
(* that a tick reads the latest revision in one step and acts on it in     *)
(* another, because PostgreSQL runs it at READ COMMITTED.  The queue       *)
(* statements are those of JobRow; how a worker drives them is the subject *)
(* of JobQueue and is kept here to one job per worker at a time.           *)
(***************************************************************************)
EXTENDS JobRow, SchedulerTiming, Sequences, FiniteSets

CONSTANTS Workers,        \* lease_owner of each worker process
          Variants,       \* the prediction variants
          Schedules,      \* the [start, actual, status] a source may report
          Answers,        \* how a model call may end
          Horizon,        \* how far ahead a tick looks
          MaxRevisions,   \* bound: revisions of the match
          MaxTime,        \* bound: the clock stops here
          MaxCrashes      \* bound: processes killed

Off == {"cancelled", "postponed"}

ASSUME SchedulesAssumption ==
    \A s \in Schedules : /\ s.start \in Nat /\ s.start >= TargetCutoff
                         /\ s.actual \in Nat \cup {NotStarted}

ASSUME AnswersAssumption == Answers \subseteq {"succeeded", "timed_out", "failed", "skipped"}

ASSUME BoundAssumption == MaxRevisions \in Nat

\* What retry_delay computes is a time.
ASSUME DelayAssumption == RetryDelay \in [1..MaxAttempts -> Nat]

\* A row that does not exist is neither a prediction nor a status.
ASSUME RowAssumption ==
    /\ Null \notin [started : Nat, generated : Nat]
    /\ Null \notin {"published", "voided", "late_rejected"}

VARIABLES clock,
          revisions,   \* mirror.match_revisions of the match, oldest first
          changes,     \* revisions with a row in ops.schedule_events
          jobs,        \* ops.jobs: the run_prediction job of each revision and variant
          snapshots,   \* engine.feature_snapshots: captured_at per revision
          calls,       \* engine.prediction_attempts
          predictions, \* engine.predictions
          events,      \* engine.prediction_events
          status,      \* engine.prediction_status_projection
          worker,      \* what each worker process is doing
          crashes

vars == <<clock, revisions, changes, jobs, snapshots, calls, predictions, events,
          status, worker, crashes>>

published == <<predictions, events, status>>

-----------------------------------------------------------------------------
(* Shapes.                                                                 *)

Revision == 1..MaxRevisions

Job == Revision \X Variants

RevisionOf(j) == j[1]

NoJob == <<>>

\* "ticking": a tick has read the latest revision; "polling": it is applied.
\* The rest is the orchestrator: see the actions.
Phase == {"idle", "ticking", "polling", "leased", "frozen", "looked", "calling",
          "answered", "failing", "late", "retry", "terminal", "done"}

WorkerRec ==
    [phase : Phase, now : Nat, read : Revision \cup {0}, job : Job \cup {NoJob},
     attempt : Nat, started : Nat, at : Nat, prior : BOOLEAN,
     answer : Answers \cup {"none"}]

Idle == [phase |-> "idle", now |-> 0, read |-> 0, job |-> NoJob, attempt |-> 0,
         started |-> 0, at |-> 0, prior |-> FALSE, answer |-> "none"]

CallRow == [job : Job, started : Nat,
            status : {"succeeded", "late_rejected", "timed_out", "failed", "skipped"}]

EventType == {"published", "voided", "late_rejected"}

TypeOK ==
    /\ clock \in Nat
    /\ revisions \in Seq(Schedules) /\ Len(revisions) <= MaxRevisions
    /\ changes \subseteq Revision
    /\ jobs \in [Job -> Row(Workers)]
    /\ snapshots \in [Revision -> Nat \cup {Null}]
    /\ calls \subseteq CallRow
    /\ predictions \in [Job -> [started : Nat, generated : Nat] \cup {Null}]
    /\ events \in [Job -> SUBSET EventType]
    /\ status \in [Job -> EventType \cup {Null}]
    /\ worker \in [Workers -> WorkerRec]
    /\ crashes \in Nat

Init ==
    /\ clock = 0
    /\ revisions = <<>>
    /\ changes = {}
    /\ jobs = [j \in Job |-> NewRow(Absent, 0, Null)]
    /\ snapshots = [r \in Revision |-> Null]
    /\ calls = {}
    /\ predictions = [j \in Job |-> Null]
    /\ events = [j \in Job |-> {}]
    /\ status = [j \in Job |-> Null]
    /\ worker = [w \in Workers |-> Idle]
    /\ crashes = 0

Latest == Len(revisions)

ScheduleOf(j) == revisions[RevisionOf(j)]

Predicted == {j \in Job : predictions[j] # Null}

-----------------------------------------------------------------------------
(* The environment.                                                        *)

Tick ==
    /\ clock < MaxTime
    /\ clock' = clock + 1
    /\ UNCHANGED <<revisions, changes, jobs, snapshots, calls, published, worker, crashes>>

\* _append_match_revision: what a sync observed becomes a revision unless it
\* equals the latest one.
AppendRevision(schedule) ==
    /\ Latest < MaxRevisions
    /\ Latest > 0 => revisions[Latest] # schedule
    /\ revisions' = Append(revisions, schedule)
    /\ UNCHANGED <<clock, changes, jobs, snapshots, calls, published, worker, crashes>>

\* The process ends, killed or by an exception, and is restarted.
Crash(w) ==
    /\ crashes < MaxCrashes
    /\ worker[w].phase # "idle"
    /\ crashes' = crashes + 1
    /\ worker' = [worker EXCEPT ![w] = Idle]
    /\ UNCHANGED <<clock, revisions, changes, jobs, snapshots, calls, published>>

-----------------------------------------------------------------------------
(* The scheduler tick.                                                     *)

\* PostgresScheduleReader.upcoming: the latest revision, if it lies in the
\* hour before now or in the horizon.
Upcoming ==
    IF /\ Latest > 0
       /\ clock - TargetCutoff <= revisions[Latest].start
       /\ revisions[Latest].start <= clock + Horizon
    THEN Latest ELSE 0

TickReads(w) ==
    /\ worker[w].phase = "idle"
    /\ worker' = [worker EXCEPT ![w] = [@ EXCEPT !.phase = "ticking", !.now = clock,
                                                 !.read = Upcoming]]
    /\ UNCHANGED <<clock, revisions, changes, jobs, snapshots, calls, published, crashes>>

\* classify_schedule_change returns something.
IsChange(n) ==
    LET current == revisions[n]
        previous == revisions[n - 1]
    IN  \/ current.status \in Off
        \/ current.actual # NotStarted /\
             IF n = 1 THEN TRUE
             ELSE previous.actual = NotStarted \/ current.actual < previous.actual
        \/ n > 1 /\ current.start # previous.start

\* Seeded fault: only a match that was moved revokes what was done for it.
VoidedWhenMoved(n) ==
    {j \in Job : n > 1 /\ revisions[n].start # revisions[n - 1].start /\ RevisionOf(j) # n}

\* The jobs reconcile(n) cancels and the predictions it voids: those of other
\* revisions when n changed the schedule, those of every revision when the
\* match is off; a match that has started keeps no job.
VoidedBy(n) ==
    {j \in Job : \/ revisions[n].status \in Off
                 \/ n > 1 /\ IsChange(n) /\ RevisionOf(j) # n}

CancelledBy(n) == IF revisions[n].actual # NotStarted THEN Job ELSE VoidedBy(n)

\* reject_started_match.
RejectedBy(n) ==
    {j \in Predicted : /\ revisions[n].actual # NotStarted
                       /\ predictions[j].generated >= revisions[n].actual}

\* SchedulePlanner.plan and enqueue: a job is inserted once.
Planned(n) ==
    {j \in Job : RevisionOf(j) = n /\ revisions[n].status \notin Off}

PlannedRow(n) ==
    NewRow("queued", CutoffAt(revisions[n]), DeadlineOf(revisions[n]))

\* The CHECK constraint deadline_at >= due_at rejects the insert when the
\* match is known to have started before its cutoff: the tick is rolled back
\* and the exception ends the process.
Plannable(n) ==
    \A j \in Planned(n) : jobs[j].state = Absent => RowChecks(PlannedRow(n))

Reconcile(n) ==
    LET voided == VoidedBy(n) \cap Predicted
        rejected == RejectedBy(n)
    IN  /\ changes' = IF IsChange(n) THEN changes \cup {n} ELSE changes
        /\ events' = [j \in Job |-> events[j]
                        \cup (IF j \in voided THEN {"voided"} ELSE {})
                        \cup (IF j \in rejected THEN {"late_rejected"} ELSE {})]
        /\ status' = [j \in Job |-> IF j \in rejected THEN "late_rejected"
                                    ELSE IF j \in voided THEN "voided"
                                    ELSE status[j]]
        /\ jobs' = [j \in Job |->
                      IF j \in CancelledBy(n) /\ Cancellable(jobs[j])
                      THEN Released(jobs[j], "cancelled")
                      ELSE IF j \in Planned(n) /\ jobs[j].state = Absent
                      THEN PlannedRow(n)
                      ELSE jobs[j]]

\* ScheduleService.run_once on the revision the tick has read.
TickApplies(w) ==
    LET n == worker[w].read
        aborted == n # 0 /\ ~Plannable(n)
    IN  /\ worker[w].phase = "ticking"
        /\ worker' = [worker EXCEPT ![w] =
                        IF aborted THEN Idle ELSE [@ EXCEPT !.phase = "polling", !.read = 0]]
        /\ IF n = 0 \/ aborted THEN UNCHANGED <<changes, jobs, events, status>>
                               ELSE Reconcile(n)
        /\ UNCHANGED <<clock, revisions, snapshots, calls, predictions, crashes>>

-----------------------------------------------------------------------------
(* Polling the queue.                                                      *)

\* expire_due takes the rows it can lock.
Expire(w, j) ==
    /\ worker[w].phase = "polling"
    /\ Expirable(jobs[j], worker[w].now)
    /\ jobs' = [jobs EXCEPT ![j] = Released(@, "expired")]
    /\ UNCHANGED <<clock, revisions, changes, snapshots, calls, published, worker, crashes>>

Lease(w, j) ==
    /\ worker[w].phase = "polling"
    /\ Leasable(jobs[j], worker[w].now)
    /\ jobs' = [jobs EXCEPT ![j] = Leased(@, w, worker[w].now)]
    /\ worker' = [worker EXCEPT ![w] = [@ EXCEPT !.phase = "leased", !.job = j,
                                                 !.attempt = jobs[j].attempt + 1]]
    /\ UNCHANGED <<clock, revisions, changes, snapshots, calls, published, crashes>>

\* Nothing to lease, or all of it locked by others.
PollEnds(w) ==
    /\ worker[w].phase = "polling"
    /\ worker' = [worker EXCEPT ![w] = Idle]
    /\ UNCHANGED <<clock, revisions, changes, jobs, snapshots, calls, published, crashes>>

\* One round of the renewal thread of the job that w executes.
Renew(w) ==
    LET j == worker[w].job
    IN  /\ worker[w].phase \in {"leased", "frozen", "looked", "calling",
                               "answered", "failing", "late"}
        /\ Renewable(jobs[j], w, clock)
        /\ jobs' = [jobs EXCEPT ![j] = Renewed(@, clock)]
        /\ UNCHANGED <<clock, revisions, changes, snapshots, calls, published, worker, crashes>>

-----------------------------------------------------------------------------
(* PredictionOrchestrator.execute.                                         *)

Moves(w, record) == worker' = [worker EXCEPT ![w] = record]

Goes(w, phase) == Moves(w, [worker[w] EXCEPT !.phase = phase])

\* The handler is over; only the job and the attempt still matter.
Ends(w, phase) ==
    Moves(w, [Idle EXCEPT !.phase = phase, !.job = worker[w].job,
                          !.attempt = worker[w].attempt])

At(w, phase) == worker[w].phase = phase

\* Seeded fault: every freeze overwrites the snapshot of the revision.
LatestCapture(r, now) == now

\* FeatureSnapshotRepository.freeze keeps the first snapshot of a revision.
FirstCapture(r, now) == IF snapshots[r] = Null THEN now ELSE snapshots[r]

\* freeze_snapshot refuses the job for good: its revision is not the latest
\* any more, its deadline has passed, or its match is off.
FreezeRefused(j, now) ==
    \/ RevisionOf(j) # Latest
    \/ now >= DeadlineOf(ScheduleOf(j))
    \/ ScheduleOf(j).status \in Off

\* _load_schedule and freeze_snapshot.  captured_at is the poll's reading; one
\* before the cutoff is retried.
Freeze(w) ==
    LET j == worker[w].job
        now == worker[w].now
    IN  /\ At(w, "leased")
        /\ IF FreezeRefused(j, now)
           THEN Ends(w, "terminal") /\ UNCHANGED snapshots
           ELSE IF now < CutoffAt(ScheduleOf(j))
           THEN Ends(w, "retry") /\ UNCHANGED snapshots
           ELSE /\ Moves(w, [worker[w] EXCEPT !.phase = "frozen", !.now = 0])
                /\ snapshots' = [snapshots EXCEPT ![RevisionOf(j)] = FirstCapture(RevisionOf(j), now)]
        /\ UNCHANGED <<clock, revisions, changes, jobs, calls, published, crashes>>

\* has_eligible_start: an attempt on record began in the start window.
HasEligibleStart(j) ==
    \E c \in calls : /\ c.job = j /\ c.status # "skipped"
                     /\ InStartWindow(c.started, ScheduleOf(j))

\* A prediction that exists already ends the execution successfully.
Look(w) ==
    LET j == worker[w].job
    IN  /\ At(w, "frozen")
        /\ IF j \in Predicted THEN Ends(w, "done")
           ELSE Moves(w, [worker[w] EXCEPT !.phase = "looked",
                            !.prior = worker[w].attempt > 1 /\ HasEligibleStart(j)])
        /\ UNCHANGED <<clock, revisions, changes, jobs, snapshots, calls, published, crashes>>

\* Seeded fault: any retry may start late.
StartBeforeDeadline(j, startedAt, prior) == startedAt < DeadlineOf(ScheduleOf(j))

\* started_at is read; a retry may start late if an earlier attempt did not.
StartIsOnTime(j, startedAt, prior) ==
    \/ InStartWindow(startedAt, ScheduleOf(j))
    \/ prior /\ startedAt < DeadlineOf(ScheduleOf(j))

Start(w) ==
    /\ At(w, "looked")
    /\ IF StartIsOnTime(worker[w].job, clock, worker[w].prior)
       THEN Moves(w, [worker[w] EXCEPT !.phase = "calling", !.prior = FALSE,
                                       !.started = clock])
       ELSE Ends(w, "terminal")
    /\ UNCHANGED <<clock, revisions, changes, jobs, snapshots, calls, published, crashes>>

\* The model answers and completed_at is read.
Answer(w, answer) ==
    /\ At(w, "calling")
    /\ IF answer # "succeeded"
       THEN Moves(w, [worker[w] EXCEPT !.phase = "failing", !.answer = answer])
       ELSE IF CompletionIsOnTime(clock, ScheduleOf(worker[w].job))
       THEN Moves(w, [worker[w] EXCEPT !.phase = "answered", !.at = clock])
       ELSE Goes(w, "late")
    /\ UNCHANGED <<clock, revisions, changes, jobs, snapshots, calls, published, crashes>>

RecordCall(w, result) ==
    calls' = calls \cup {[job |-> worker[w].job, started |-> worker[w].started,
                          status |-> result]}

\* The attempt of a call that failed is recorded.  A timeout is retried.
RecordFailure(w) ==
    /\ At(w, "failing")
    /\ RecordCall(w, worker[w].answer)
    /\ Ends(w, IF worker[w].answer = "timed_out" THEN "retry" ELSE "terminal")
    /\ UNCHANGED <<clock, revisions, changes, jobs, snapshots, published, crashes>>

\* A response that came too late, or lost its lease or schedule, is recorded
\* and discarded.
RecordLate(w) ==
    /\ At(w, "late")
    /\ RecordCall(w, "late_rejected")
    /\ Ends(w, "terminal")
    /\ UNCHANGED <<clock, revisions, changes, jobs, snapshots, published, crashes>>

\* Seeded fault: neither the lease nor the latest revision is checked.
PublishableOnTime(w) == CompletionIsOnTime(worker[w].at, ScheduleOf(worker[w].job))

\* _publishable_schedule, under the advisory lock that an insert into
\* match_revisions takes as well.
Publishable(w) ==
    LET j == worker[w].job
    IN  /\ OwnsActiveLease(jobs[j], w, worker[w].at)
        /\ RevisionOf(j) = Latest
        /\ ScheduleOf(j).status \notin Off
        /\ CompletionIsOnTime(worker[w].at, ScheduleOf(j))

\* The publication transaction: attempt, prediction, event, projection and the
\* job's end, or nothing.  PredictionRepository.add keeps a prediction that
\* exists already.
Publish(w) ==
    LET j == worker[w].job
        new == [started |-> worker[w].started, generated |-> worker[w].at]
    IN  /\ At(w, "answered")
        /\ IF Publishable(w)
           THEN /\ RecordCall(w, "succeeded")
                /\ predictions' = [predictions EXCEPT ![j] = IF @ = Null THEN new ELSE @]
                /\ events' = [events EXCEPT ![j] = @ \cup {"published"}]
                /\ status' = [status EXCEPT ![j] = "published"]
                /\ jobs' = [jobs EXCEPT ![j] = Finished(@, TRUE, worker[w].at)]
                /\ Moves(w, Idle)
           ELSE Moves(w, [worker[w] EXCEPT !.phase = "late", !.at = 0])
                /\ UNCHANGED <<calls, published, jobs>>
        /\ UNCHANGED <<clock, revisions, changes, snapshots, crashes>>

-----------------------------------------------------------------------------
(* The dispatcher records how the handler ended.  A statement that changes *)
(* no row raises; the process restarts and is idle again either way.       *)

Settle(w) ==
    LET j == worker[w].job
        owned == OwnsActiveLease(jobs[j], w, clock)
        retry == worker[w].attempt < MaxAttempts
        settled == CASE At(w, "retry") /\ owned /\ retry
                          -> Retried(jobs[j], clock + RetryDelay[worker[w].attempt])
                     [] At(w, "retry") /\ owned /\ ~retry -> Finished(jobs[j], FALSE, clock)
                     [] At(w, "terminal") /\ Quarantinable(jobs[j], w, clock)
                          -> Released(jobs[j], "quarantined")
                     [] At(w, "done") /\ owned -> Finished(jobs[j], TRUE, clock)
                     [] OTHER -> jobs[j]
    IN  /\ worker[w].phase \in {"retry", "terminal", "done"}
        /\ jobs' = [jobs EXCEPT ![j] = settled]
        /\ Moves(w, Idle)
        /\ UNCHANGED <<clock, revisions, changes, snapshots, calls, published, crashes>>

-----------------------------------------------------------------------------

Scheduling(w) == TickReads(w) \/ TickApplies(w)

Polling(w) == (\E j \in Job : Expire(w, j) \/ Lease(w, j)) \/ PollEnds(w)

Executing(w) ==
    \/ Freeze(w) \/ Look(w) \/ Start(w)
    \/ \E answer \in Answers : Answer(w, answer)
    \/ RecordFailure(w) \/ RecordLate(w) \/ Publish(w)

Next ==
    \/ Tick
    \/ \E schedule \in Schedules : AppendRevision(schedule)
    \/ \E w \in Workers :
         Scheduling(w) \/ Polling(w) \/ Executing(w) \/ Settle(w) \/ Renew(w) \/ Crash(w)

Spec == Init /\ [][Next]_vars

-----------------------------------------------------------------------------
(* Safety.                                                                 *)

\* Every prediction completed before the grace, the scheduled and the known
\* actual start ended, and its call began in the start window or is a retry
\* of an earlier call of the same job that did, whichever workers made them.
PublishedOnTime ==
    \A j \in Predicted :
      LET p == predictions[j]
          s == ScheduleOf(j)
      IN  /\ p.generated < DeadlineOf(s)
          /\ \/ InStartWindow(p.started, s)
             \/ \E c \in calls : /\ c.job = j /\ c.status # "skipped"
                                 /\ InStartWindow(c.started, s) /\ c.started < p.started

\* The input of a prediction was frozen at or after the cutoff and before the
\* call was made, by whichever worker came first.
InputFrozenFirst ==
    \A j \in Predicted :
      LET captured == snapshots[RevisionOf(j)]
      IN  /\ captured # Null
          /\ CutoffAt(ScheduleOf(j)) <= captured /\ captured <= predictions[j].started

\* A prediction exists exactly when its job has succeeded, so a published job
\* is never run again, and no success is without its prediction.
PredictionIsSuccess ==
    \A j \in Job : j \in Predicted <=> jobs[j].state = "succeeded"

\* What readers see as published has never been revoked, and what was revoked
\* shows it.
ProjectionFaithful ==
    \A j \in Job : status[j] = "published" <=> events[j] = {"published"}

\* Once a tick has recorded that a revision changed the schedule, no
\* prediction of an earlier revision is, or ever becomes, published, not even
\* one whose model call was under way.
ChangeRevokes ==
    \A n \in changes, j \in Predicted :
      RevisionOf(j) < n \/ (RevisionOf(j) = n /\ revisions[n].status \in Off)
        => status[j] # "published"

\* A revoked prediction is never published again.
RevokedForGood ==
    [][\A j \in Job : status[j] \in {"voided", "late_rejected"}
                        => status'[j] \in {"voided", "late_rejected"}]_vars

-----------------------------------------------------------------------------
(* Liveness.                                                               *)

\* Time passes, workers poll on, every call ends and every transaction
\* commits.  Syncs, renewals and crashes may or may not happen.
Fairness ==
    /\ WF_vars(Tick)
    /\ \A w \in Workers :
         WF_vars(Scheduling(w)) /\ WF_vars(Polling(w)) /\ WF_vars(Executing(w) \/ Settle(w))

FairSpec == Spec /\ Fairness

\* When the match stays cancelled or postponed, its jobs are closed and its
\* predictions revoked for good, although ticks that read an older revision
\* may still be on their way.
OffMatchSettles ==
    <>[](Latest > 0 /\ revisions[Latest].status \in Off =>
           \A j \in Job : ~Cancellable(jobs[j]) /\ status[j] # "published")

-----------------------------------------------------------------------------
(* What the documents say of it.                                           *)

\* docs/prepare/architecture.md: when a match is moved, existing predictions
\* get a voided or superseded event.  So none of another start time is left
\* published by a tick that has read the latest revision.
MoveRevokes ==
    [][\A w \in Workers : TickApplies(w) /\ worker[w].read = Latest =>
         \A j \in Predicted : ScheduleOf(j).start # revisions[Latest].start
                                => status'[j] # "published"]_vars
=============================================================================
