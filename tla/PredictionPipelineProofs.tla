---------------------- MODULE PredictionPipelineProofs ----------------------
(***************************************************************************)
(* Proofs about PredictionPipeline, for every set of workers, variants and  *)
(* schedules, every timing the contract admits and any number of revisions, *)
(* attempts and crashes.                                                    *)
(***************************************************************************)
EXTENDS PredictionPipeline, TLAPS

-----------------------------------------------------------------------------
(* The inductive invariant.                                                 *)

\* A job carries the deadline of its revision, which is on record.
RowsPlanned ==
    \A j \in Job : jobs[j].state # Absent =>
      /\ RevisionOf(j) <= Latest
      /\ jobs[j].deadline = DeadlineOf(ScheduleOf(j))

\* A snapshot was taken at or after the cutoff of its revision.
SnapshotsSound ==
    \A r \in Revision : snapshots[r] # Null =>
      /\ r <= Latest
      /\ CutoffAt(revisions[r]) <= snapshots[r] /\ snapshots[r] <= clock

CallsPast == \A c \in calls : c.started <= clock

\* A call of j that began at t was the first in the window or a retry of one.
BegunInTime(j, t) ==
    \/ InStartWindow(t, ScheduleOf(j))
    \/ \E c \in calls : /\ c.job = j /\ c.status # "skipped"
                        /\ InStartWindow(c.started, ScheduleOf(j)) /\ c.started < t

\* What a call of j begun at t rests on.
CallFounded(j, t) ==
    /\ snapshots[RevisionOf(j)] # Null /\ snapshots[RevisionOf(j)] <= t
    /\ BegunInTime(j, t)

PredictionsSound ==
    \A j \in Predicted :
      /\ RevisionOf(j) <= Latest
      /\ predictions[j].generated < DeadlineOf(ScheduleOf(j))
      /\ CallFounded(j, predictions[j].started)

\* Only what has been published has events and a status.
EventsOfPredictions ==
    \A j \in Job : status[j] # Null \/ events[j] # {} => j \in Predicted

ChangesKnown == \A n \in changes : n <= Latest

Called == {"calling", "answered", "failing", "late"}

Prepared == {"frozen", "looked"} \cup Called

Handling == {"leased", "retry", "terminal", "done"} \cup Prepared

\* What a process in the middle of a handler has made sure of, and still holds.
WorkerSound(w) ==
    LET e == worker[w]
    IN  /\ e.read <= Latest /\ e.now <= clock
        /\ e.phase \in Handling => e.job \in Job /\ e.attempt > 0
        /\ e.phase \in Prepared => snapshots[RevisionOf(e.job)] # Null
        /\ e.phase = "looked" /\ e.prior => HasEligibleStart(e.job)
        /\ e.phase \in Called => e.started <= clock /\ CallFounded(e.job, e.started)
        /\ e.phase = "failing" => e.answer \in Answers \ {"succeeded"}
        /\ e.phase = "done" => e.job \in Predicted

WorkersSound == \A w \in Workers : WorkerSound(w)

IInv ==
    /\ TypeOK
    /\ RowsPlanned
    /\ SnapshotsSound
    /\ CallsPast
    /\ PredictionsSound
    /\ EventsOfPredictions
    /\ ChangesKnown
    /\ WorkersSound
    /\ PredictionIsSuccess
    /\ ProjectionFaithful
    /\ ChangeRevokes

-----------------------------------------------------------------------------
(* The arithmetic of a schedule.                                            *)

\* A cutoff and a deadline are instants.
LEMMA InstantsType ==
    ASSUME NEW s \in Schedules
    PROVE  CutoffAt(s) \in Nat /\ DeadlineOf(s) \in Nat /\ s.start \in Nat
  BY SchedulesAssumption, TimingAssumption
     DEF CutoffAt, DeadlineOf, GraceEnd, SmallerOf

\* A call that begins after one in the window, and not in it, is later.
LEMMA LaterThanWindow ==
    ASSUME NEW s \in Schedules, NEW a \in Nat, NEW b \in Nat, a <= b,
           InStartWindow(a, s), ~InStartWindow(b, s)
    PROVE  a < b
  BY DEF InStartWindow

\* A job's revision is a number, and its schedule is on record with it.
LEMMA JobsRevision ==
    ASSUME TypeOK, NEW j \in Job
    PROVE  /\ RevisionOf(j) \in Revision /\ RevisionOf(j) \in Nat \ {0}
           /\ Latest \in Nat /\ Latest <= MaxRevisions
           /\ RevisionOf(j) <= Latest => ScheduleOf(j) \in Schedules
  BY BoundAssumption DEF Job, RevisionOf, Revision, Latest, ScheduleOf, TypeOK

-----------------------------------------------------------------------------
(* What the statements leave behind is a row.                               *)

LEMMA ReleasedType ==
    ASSUME NEW r \in Row(Workers), NEW s \in JobState
    PROVE  Released(r, s) \in Row(Workers)
  BY DEF Released, Row, JobState

LEMMA LeasedType ==
    ASSUME NEW r \in Row(Workers), NEW w \in Workers, NEW t \in Nat
    PROVE  Leased(r, w, t) \in Row(Workers)
  <1>1. t + LeaseDuration \in Nat /\ r.attempt + 1 \in Nat
    BY LeaseDurationAssumption DEF Row
  <1> QED BY <1>1 DEF Leased, Row, JobState

LEMMA FinishedType ==
    ASSUME NEW r \in Row(Workers), NEW ok \in BOOLEAN, NEW t \in Nat
    PROVE  Finished(r, ok, t) \in Row(Workers)
  BY ReleasedType DEF Finished, JobState

LEMMA RetriedType ==
    ASSUME NEW r \in Row(Workers), NEW t \in Nat
    PROVE  Retried(r, t) \in Row(Workers)
  <1>1. Released(r, "expired") \in Row(Workers)
    BY ReleasedType DEF JobState
  <1>2. [Released(r, "retry_wait") EXCEPT !.due = t] \in Row(Workers)
    BY ReleasedType DEF JobState, Row
  <1> QED BY <1>1, <1>2 DEF Retried

LEMMA RenewedType ==
    ASSUME NEW r \in Row(Workers), NEW t \in Nat
    PROVE  Renewed(r, t) \in Row(Workers)
  <1>1. t + LeaseDuration \in Nat
    BY LeaseDurationAssumption
  <1> QED BY <1>1 DEF Renewed, Row

LEMMA PlannedType ==
    ASSUME TypeOK, NEW n \in Revision, n <= Latest
    PROVE  PlannedRow(n) \in Row(Workers)
  <1>1. revisions[n] \in Schedules
    BY BoundAssumption DEF TypeOK, Revision, Latest
  <1>2. CutoffAt(revisions[n]) \in Nat /\ DeadlineOf(revisions[n]) \in Nat
    BY <1>1, InstantsType
  <1> QED BY <1>2 DEF PlannedRow, NewRow, Row, JobState

-----------------------------------------------------------------------------
(* Initially.                                                               *)

LEMMA InitIInv == Init => IInv
  <1> SUFFICES ASSUME Init PROVE IInv
    OBVIOUS
  <1>1. TypeOK
    <2>1. NewRow(Absent, 0, Null) \in Row(Workers)
      BY DEF NewRow, Row
    <2>2. Idle \in WorkerRec
      BY DEF Idle, WorkerRec, Phase
    <2>3. revisions = <<>>
      BY DEF Init
    <2>4. Len(revisions) = 0 /\ revisions \in Seq(Schedules)
      BY <2>3
    <2>5. Len(revisions) <= MaxRevisions
      BY <2>4, BoundAssumption
    <2> QED BY <2>1, <2>2, <2>4, <2>5 DEF Init, TypeOK
  <1>2. \A j \in Job : jobs[j].state = Absent
    BY DEF Init, NewRow
  <1>3. \A w \in Workers : WorkerSound(w)
    BY DEF Init, WorkerSound, Idle, Handling, Prepared, Called, Latest
  <1>4. Predicted = {}
    BY DEF Init, Predicted
  <1>5. PredictionIsSuccess
    BY <1>2, <1>4 DEF PredictionIsSuccess, Absent
  <1>6. RowsPlanned /\ SnapshotsSound /\ CallsPast
    BY <1>2 DEF Init, RowsPlanned, SnapshotsSound, CallsPast
  <1>7. PredictionsSound /\ EventsOfPredictions /\ ChangesKnown /\ ChangeRevokes
    BY <1>4 DEF Init, PredictionsSound, EventsOfPredictions, ChangesKnown, ChangeRevokes
  <1>8. ProjectionFaithful
    <2>1. \A j \in Job : status[j] = Null /\ events[j] = {}
      BY DEF Init
    <2>2. Null # "published"
      BY RowAssumption
    <2> QED BY <2>1, <2>2 DEF ProjectionFaithful
  <1> QED BY <1>1, <1>3, <1>5, <1>6, <1>7, <1>8 DEF IInv, WorkersSound

-----------------------------------------------------------------------------
(* What is on record stays there.                                           *)

Grows ==
    /\ clock <= clock' /\ clock' \in Nat
    /\ Latest <= Latest' /\ Latest' \in Nat
    /\ \A r \in Revision : r <= Latest => revisions'[r] = revisions[r]
    /\ \A r \in Revision : snapshots[r] # Null => snapshots'[r] = snapshots[r]
    /\ calls \subseteq calls'
    /\ \A j \in Job : predictions[j] # Null => predictions'[j] = predictions[j]

\* A call stays founded.
LEMMA CallFoundedKept ==
    ASSUME TypeOK, Grows, NEW j \in Job, NEW t, RevisionOf(j) <= Latest, CallFounded(j, t)
    PROVE  CallFounded(j, t)'
  <1>1. ScheduleOf(j)' = ScheduleOf(j)
    BY JobsRevision DEF Grows, ScheduleOf, RevisionOf
  <1>2. snapshots'[RevisionOf(j)] = snapshots[RevisionOf(j)]
    BY JobsRevision DEF Grows, CallFounded
  <1>3. calls \subseteq calls'
    BY DEF Grows
  <1> QED BY <1>1, <1>2, <1>3 DEF CallFounded, BegunInTime, RevisionOf

\* So does a call in the window that a retry may refer to.
LEMMA EligibleStartKept ==
    ASSUME TypeOK, Grows, NEW j \in Job, RevisionOf(j) <= Latest, HasEligibleStart(j)
    PROVE  HasEligibleStart(j)'
  <1>1. ScheduleOf(j)' = ScheduleOf(j)
    BY JobsRevision DEF Grows, ScheduleOf, RevisionOf
  <1>2. calls \subseteq calls'
    BY DEF Grows
  <1> QED BY <1>1, <1>2 DEF HasEligibleStart

\* A process that does not move goes on holding what it made sure of.
LEMMA WorkerKept ==
    ASSUME TypeOK, SnapshotsSound, Grows, NEW w \in Workers, WorkerSound(w),
           worker'[w] = worker[w]
    PROVE  WorkerSound(w)'
  <1> DEFINE e == worker[w]
  <1>0. e \in WorkerRec /\ clock \in Nat /\ Latest \in Nat
    BY DEF TypeOK, Latest
  <1>1. e.phase \in Prepared => /\ e.job \in Job /\ RevisionOf(e.job) \in Revision
                                /\ snapshots[RevisionOf(e.job)] # Null
                                /\ RevisionOf(e.job) <= Latest
    BY JobsRevision DEF WorkerSound, Handling, SnapshotsSound
  <1>2. e.phase \in Prepared => snapshots'[RevisionOf(e.job)] # Null
    BY <1>1 DEF Grows
  <1>3. e.phase = "looked" /\ e.prior => HasEligibleStart(worker[w].job)'
    <2> HAVE e.phase = "looked" /\ e.prior
    <2>1. PICK j \in Job : j = e.job
      BY <1>1 DEF Prepared
    <2>2. HasEligibleStart(j)'
      BY <1>1, <2>1, EligibleStartKept DEF WorkerSound, Prepared
    <2> QED BY <2>1, <2>2 DEF HasEligibleStart, ScheduleOf
  <1>4. e.phase \in Called => CallFounded(worker[w].job, worker[w].started)'
    <2> HAVE e.phase \in Called
    <2>1. PICK j \in Job, t \in Nat : j = e.job /\ t = e.started
      BY <1>0, <1>1 DEF Prepared, WorkerRec
    <2>2. CallFounded(j, t)'
      BY <1>1, <2>1, CallFoundedKept DEF WorkerSound, Prepared
    <2> QED BY <2>1, <2>2 DEF CallFounded, BegunInTime, ScheduleOf
  <1>5. e.phase = "done" => (worker[w].job \in Predicted)'
    BY DEF WorkerSound, Grows, Predicted
  <1>6. e.read <= Latest' /\ e.now <= clock'
    BY <1>0, BoundAssumption DEF WorkerSound, Grows, WorkerRec, Revision
  <1>7. e.phase \in Called => e.started <= clock'
    BY <1>0 DEF WorkerSound, Grows, WorkerRec
  <1> QED BY <1>1, <1>2, <1>3, <1>4, <1>5, <1>6, <1>7 DEF WorkerSound

\* A job of the queue is left alone, moved on, or inserted.
RowStep(j) ==
    \/ jobs'[j] = jobs[j]
    \/ /\ jobs[j].state \notin {Absent, "succeeded"}
       /\ jobs'[j].state \notin {Absent, "succeeded"}
       /\ jobs'[j].deadline = jobs[j].deadline
    \/ /\ jobs[j].state = Absent /\ RevisionOf(j) <= Latest
       /\ jobs'[j] = PlannedRow(RevisionOf(j))

\* So it keeps the deadline of its revision.
LEMMA RowsKept ==
    ASSUME TypeOK, RowsPlanned, Grows, \A j \in Job : RowStep(j)
    PROVE  RowsPlanned'
  <1> SUFFICES ASSUME NEW j \in Job, jobs'[j].state # Absent
               PROVE  /\ RevisionOf(j) <= Latest'
                      /\ jobs'[j].deadline = DeadlineOf(revisions'[RevisionOf(j)])
    BY DEF RowsPlanned, ScheduleOf
  <1>0. RowStep(j)
    OBVIOUS
  <1>p. /\ PlannedRow(RevisionOf(j)).deadline = DeadlineOf(revisions[RevisionOf(j)])
        /\ PlannedRow(RevisionOf(j)).state = "queued"
    BY DEF PlannedRow, NewRow
  <1>1. RevisionOf(j) <= Latest
    BY <1>0 DEF RowStep, RowsPlanned
  <1>2. jobs'[j].deadline = DeadlineOf(revisions[RevisionOf(j)])
    BY <1>0, <1>p DEF RowStep, RowsPlanned, ScheduleOf
  <1>3. revisions'[RevisionOf(j)] = revisions[RevisionOf(j)]
    BY <1>1, JobsRevision DEF Grows
  <1>4. RevisionOf(j) <= Latest'
    BY <1>1, JobsRevision DEF Grows
  <1> QED BY <1>2, <1>3, <1>4

\* And it has succeeded exactly if it had.
LEMMA SuccessKept ==
    ASSUME PredictionIsSuccess, predictions' = predictions, \A j \in Job : RowStep(j)
    PROVE  PredictionIsSuccess'
  <1>1. \A j \in Job : PlannedRow(RevisionOf(j)).state = "queued"
    BY DEF PlannedRow, NewRow
  <1>2. \A j \in Job : jobs'[j].state = "succeeded" <=> jobs[j].state = "succeeded"
    BY <1>1 DEF RowStep, Absent
  <1> QED BY <1>2 DEF PredictionIsSuccess, Predicted

LEMMA SnapshotsKept ==
    ASSUME TypeOK, SnapshotsSound, Grows, snapshots' = snapshots
    PROVE  SnapshotsSound'
  <1> SUFFICES ASSUME NEW r \in Revision, snapshots[r] # Null
               PROVE  /\ r <= Latest'
                      /\ CutoffAt(revisions'[r]) <= snapshots[r] /\ snapshots[r] <= clock'
    BY DEF SnapshotsSound
  <1>1. r <= Latest /\ CutoffAt(revisions[r]) <= snapshots[r] /\ snapshots[r] <= clock
    BY DEF SnapshotsSound
  <1>2. r \in Nat /\ snapshots[r] \in Nat /\ clock \in Nat /\ Latest \in Nat
    BY BoundAssumption DEF TypeOK, Revision, Latest
  <1>3. revisions'[r] = revisions[r]
    BY <1>1 DEF Grows
  <1> QED BY <1>1, <1>2, <1>3 DEF Grows

LEMMA PredictionsKept ==
    ASSUME TypeOK, PredictionsSound, Grows, predictions' = predictions
    PROVE  PredictionsSound'
  <1> SUFFICES ASSUME NEW j \in Job, j \in Predicted
               PROVE  (/\ RevisionOf(j) <= Latest
                       /\ predictions[j].generated < DeadlineOf(ScheduleOf(j))
                       /\ CallFounded(j, predictions[j].started))'
    BY DEF PredictionsSound, Predicted
  <1>1. /\ j \in Job /\ RevisionOf(j) <= Latest
        /\ predictions[j].generated < DeadlineOf(ScheduleOf(j))
        /\ CallFounded(j, predictions[j].started)
    BY DEF PredictionsSound, Predicted
  <1>2. PICK t : t = predictions[j].started
    OBVIOUS
  <1>3. CallFounded(j, t)'
    BY <1>1, <1>2, CallFoundedKept
  <1>4. revisions'[RevisionOf(j)] = revisions[RevisionOf(j)] /\ RevisionOf(j) <= Latest'
    BY <1>1, JobsRevision DEF Grows
  <1> QED BY <1>1, <1>2, <1>3, <1>4 DEF CallFounded, BegunInTime, ScheduleOf

LEMMA RevocationKept ==
    ASSUME TypeOK, ChangesKnown, ChangeRevokes, Grows, UNCHANGED <<changes, predictions, status>>
    PROVE  ChangeRevokes' /\ ChangesKnown'
  <1>1. \A n \in changes : n \in Revision /\ n <= Latest
    BY DEF TypeOK, ChangesKnown
  <1>2. \A n \in changes : revisions'[n] = revisions[n] /\ n <= Latest'
    BY <1>1, BoundAssumption DEF Grows, TypeOK, Revision, Latest
  <1> QED BY <1>2 DEF ChangeRevokes, ChangesKnown, Predicted

WorkerMoves(w) ==
    /\ worker' \in [Workers -> WorkerRec]
    /\ \A v \in Workers \ {w} : worker'[v] = worker[v]

LEMMA WorkersKept ==
    ASSUME IInv, Grows, NEW w \in Workers, WorkerMoves(w), WorkerSound(w)'
    PROVE  WorkersSound'
  <1> SUFFICES ASSUME NEW v \in Workers PROVE WorkerSound(v)'
    BY DEF WorkersSound
  <1>1. CASE v = w
    BY <1>1 DEF WorkerSound
  <1>2. CASE v # w
    BY <1>2, WorkerKept DEF IInv, WorkersSound, WorkerMoves
  <1> QED BY <1>1, <1>2

\* A step in which one process moves, and the queue with it, and nothing else.
LEMMA QueueStep ==
    ASSUME IInv, NEW w \in Workers, WorkerMoves(w), WorkerSound(w)',
           jobs' \in [Job -> Row(Workers)], \A j \in Job : RowStep(j), crashes' \in Nat,
           UNCHANGED <<clock, revisions, changes, snapshots, calls, published>>
    PROVE  IInv'
  <1>1. UNCHANGED <<clock, revisions, changes, snapshots, calls, predictions, events, status>>
    BY DEF published
  <1>2. Grows
    BY <1>1 DEF IInv, TypeOK, Grows, Latest
  <1>3. TypeOK'
    BY <1>1 DEF IInv, TypeOK, WorkerMoves
  <1>4. WorkersSound'
    BY <1>2, WorkersKept
  <1>5. RowsPlanned' /\ SnapshotsSound' /\ PredictionsSound'
    BY <1>1, <1>2, RowsKept, SnapshotsKept, PredictionsKept DEF IInv
  <1>6. PredictionIsSuccess' /\ ChangeRevokes' /\ ChangesKnown'
    BY <1>1, <1>2, SuccessKept, RevocationKept DEF IInv
  <1>7. CallsPast' /\ EventsOfPredictions' /\ ProjectionFaithful'
    BY <1>1 DEF IInv, CallsPast, EventsOfPredictions, ProjectionFaithful, Predicted
  <1> QED BY <1>3, <1>4, <1>5, <1>6, <1>7 DEF IInv

\* A process that moves to a record as sound as the one it leaves.
LEMMA MoveStep ==
    ASSUME IInv, NEW w \in Workers, NEW e \in WorkerRec,
           worker' = [worker EXCEPT ![w] = e], WorkerSound(w)', crashes' \in Nat,
           UNCHANGED <<clock, revisions, changes, jobs, snapshots, calls, published>>
    PROVE  IInv'
  <1>1. WorkerMoves(w)
    BY DEF IInv, TypeOK, WorkerMoves
  <1>2. jobs' \in [Job -> Row(Workers)] /\ \A j \in Job : RowStep(j)
    BY DEF IInv, TypeOK, RowStep
  <1> QED BY <1>1, <1>2, QueueStep

-----------------------------------------------------------------------------
(* Steps of one process that leave the tables alone.                        *)

\* An idle process has nothing to hold on to.
LEMMA IdleSound ==
    ASSUME TypeOK, NEW w \in Workers, worker'[w] = Idle, clock' \in Nat, Latest' \in Nat
    PROVE  Idle \in WorkerRec /\ WorkerSound(w)'
  <1>1. Idle \in WorkerRec
    BY DEF Idle, WorkerRec, Phase
  <1>2. WorkerSound(w)'
    BY DEF WorkerSound, Idle, Handling, Prepared, Called
  <1> QED BY <1>1, <1>2

\* A handler that is over: the job, the attempt and how it ended.
Over(w, phase) ==
    [Idle EXCEPT !.phase = phase, !.job = worker[w].job, !.attempt = worker[w].attempt]

LEMMA OverSound ==
    ASSUME IInv, NEW w \in Workers, NEW p \in {"retry", "terminal", "done"},
           worker[w].phase \in Handling, worker'[w] = Over(w, p),
           clock' \in Nat, Latest' \in Nat, p = "done" => worker[w].job \in Predicted'
    PROVE  Over(w, p) \in WorkerRec /\ WorkerSound(w)'
  <1>1. worker[w].job \in Job /\ worker[w].attempt \in Nat /\ worker[w].attempt > 0
    BY DEF IInv, TypeOK, WorkersSound, WorkerSound, WorkerRec
  <1>2. /\ Over(w, p).phase = p /\ Over(w, p).job = worker[w].job
        /\ Over(w, p).attempt = worker[w].attempt
        /\ Over(w, p).read = 0 /\ Over(w, p).now = 0
    BY DEF Over, Idle
  <1>3. Over(w, p) \in WorkerRec
    BY <1>1 DEF Over, Idle, WorkerRec, Phase
  <1>4. WorkerSound(w)'
    BY <1>1, <1>2 DEF WorkerSound, Handling, Prepared, Called
  <1> QED BY <1>3, <1>4

LEMMA TickReadsStep ==
    ASSUME IInv, NEW w \in Workers, TickReads(w) PROVE IInv'
  <1> DEFINE e == [worker[w] EXCEPT !.phase = "ticking", !.now = clock, !.read = Upcoming]
  <1>1. Upcoming \in Revision \cup {0} /\ Upcoming <= Latest
    BY BoundAssumption DEF IInv, TypeOK, Upcoming, Revision, Latest
  <1>0. worker[w] \in WorkerRec /\ clock \in Nat
    BY DEF IInv, TypeOK
  <1>2. e \in WorkerRec
    BY <1>0, <1>1 DEF WorkerRec, Phase
  <1>3. worker' = [worker EXCEPT ![w] = e] /\ worker'[w] = e
    BY DEF TickReads, IInv, TypeOK
  <1>4. e.phase = "ticking" /\ e.now = clock /\ e.read = Upcoming
    BY <1>0 DEF WorkerRec
  <1> HIDE DEF e
  <1>5. Latest' = Latest /\ clock' = clock /\ clock \in Nat
    BY DEF TickReads, Latest, IInv, TypeOK
  <1>6. WorkerSound(w)'
    BY <1>1, <1>3, <1>4, <1>5 DEF WorkerSound, Handling, Prepared, Called
  <1> QED BY <1>2, <1>3, <1>6, MoveStep DEF TickReads, IInv, TypeOK

LEMMA PollEndsStep ==
    ASSUME IInv, NEW w \in Workers, PollEnds(w) PROVE IInv'
  <1>1. worker' = [worker EXCEPT ![w] = Idle] /\ worker'[w] = Idle
    BY DEF PollEnds, IInv, TypeOK
  <1>2. Latest' \in Nat /\ clock' \in Nat
    BY DEF PollEnds, Latest, IInv, TypeOK
  <1>3. Idle \in WorkerRec /\ WorkerSound(w)'
    BY <1>1, <1>2, IdleSound DEF IInv
  <1> QED BY <1>1, <1>3, MoveStep DEF PollEnds, IInv, TypeOK

LEMMA CrashStep ==
    ASSUME IInv, NEW w \in Workers, Crash(w) PROVE IInv'
  <1>1. worker' = [worker EXCEPT ![w] = Idle] /\ worker'[w] = Idle
    BY DEF Crash, IInv, TypeOK
  <1>2. Latest' \in Nat /\ clock' \in Nat
    BY DEF Crash, Latest, IInv, TypeOK
  <1>3. Idle \in WorkerRec /\ WorkerSound(w)'
    BY <1>1, <1>2, IdleSound DEF IInv
  <1>4. crashes' \in Nat
    BY DEF Crash, IInv, TypeOK
  <1> QED BY <1>1, <1>3, <1>4, MoveStep DEF Crash

\* What is known of a job that is being handled.
LEMMA HandledJob ==
    ASSUME IInv, NEW w \in Workers, worker[w].phase \in Handling
    PROVE  /\ worker[w] \in WorkerRec /\ clock \in Nat /\ Latest \in Nat
           /\ worker[w].job \in Job /\ RevisionOf(worker[w].job) \in Revision
           /\ worker[w].attempt \in Nat \ {0}
           /\ worker[w].phase \in Prepared =>
                /\ snapshots[RevisionOf(worker[w].job)] \in Nat
                /\ snapshots[RevisionOf(worker[w].job)] # Null
                /\ snapshots[RevisionOf(worker[w].job)] <= clock
                /\ RevisionOf(worker[w].job) <= Latest
                /\ ScheduleOf(worker[w].job) \in Schedules
  <1>1. worker[w] \in WorkerRec /\ clock \in Nat /\ Latest \in Nat
    BY DEF IInv, TypeOK, Latest
  <1>2. worker[w].job \in Job /\ worker[w].attempt \in Nat \ {0}
    BY <1>1 DEF IInv, WorkersSound, WorkerSound, WorkerRec
  <1>3. RevisionOf(worker[w].job) \in Revision
    BY <1>2, JobsRevision DEF IInv
  <1>4. worker[w].phase \in Prepared =>
          /\ snapshots[RevisionOf(worker[w].job)] \in Nat
          /\ snapshots[RevisionOf(worker[w].job)] # Null
          /\ snapshots[RevisionOf(worker[w].job)] <= clock
          /\ RevisionOf(worker[w].job) <= Latest
    BY <1>3, NullAssumption DEF IInv, TypeOK, WorkersSound, WorkerSound, SnapshotsSound
  <1>5. worker[w].phase \in Prepared => ScheduleOf(worker[w].job) \in Schedules
    BY <1>2, <1>4, JobsRevision DEF IInv
  <1> QED BY <1>1, <1>2, <1>3, <1>4, <1>5

\* A handler ends and writes nothing.
LEMMA EndsStep ==
    ASSUME IInv, NEW w \in Workers, NEW p \in {"retry", "terminal", "done"},
           worker[w].phase \in Handling, Ends(w, p),
           p = "done" => worker[w].job \in Predicted,
           UNCHANGED <<clock, revisions, changes, jobs, snapshots, calls, published, crashes>>
    PROVE  IInv'
  <1>1. worker' = [worker EXCEPT ![w] = Over(w, p)] /\ worker'[w] = Over(w, p)
    BY DEF Ends, Moves, Over, IInv, TypeOK
  <1>2. Latest' \in Nat /\ clock' \in Nat /\ Predicted' = Predicted
    BY DEF Latest, IInv, TypeOK, Predicted, published
  <1>3. Over(w, p) \in WorkerRec /\ WorkerSound(w)'
    BY <1>1, <1>2, OverSound
  <1>4. crashes' \in Nat
    BY DEF IInv, TypeOK
  <1> HIDE DEF Over
  <1> QED BY <1>1, <1>3, <1>4, MoveStep

LEMMA LookStep ==
    ASSUME IInv, NEW w \in Workers, Look(w) PROVE IInv'
  <1> DEFINE j == worker[w].job
             e == [worker[w] EXCEPT !.phase = "looked",
                     !.prior = worker[w].attempt > 1 /\ HasEligibleStart(j)]
  <1>1. CASE j \in Predicted
    BY <1>1, EndsStep DEF Look, At, Handling, Prepared
  <1>2. CASE j \notin Predicted
    <2>1. /\ worker[w] \in WorkerRec /\ worker[w].phase = "frozen" /\ j \in Job
          /\ worker[w].phase \in Handling
      BY HandledJob DEF Look, At, Handling, Prepared
    <2>2. /\ worker' = [worker EXCEPT ![w] = e]
          /\ UNCHANGED <<clock, revisions, changes, jobs, snapshots, calls, published, crashes>>
      BY <1>2 DEF Look, Moves
    <2>3. e \in WorkerRec
      BY <2>1 DEF WorkerRec, Phase
    <2>4. /\ e.phase = "looked"
          /\ e.prior => HasEligibleStart(j)
          /\ e.job = j /\ e.attempt = worker[w].attempt
          /\ e.read = worker[w].read /\ e.now = worker[w].now
      BY <2>1 DEF WorkerRec
    <2>5. worker'[w] = e
      BY <2>2 DEF IInv, TypeOK
    <2> HIDE DEF e
    <2>6. WorkerSound(w)
      BY DEF IInv, WorkersSound
    <2>7. WorkerSound(w)'
      <3>1. HasEligibleStart(j) => HasEligibleStart(worker[w].job)'
        BY <2>2, <2>4, <2>5 DEF HasEligibleStart, ScheduleOf
      <3>2. snapshots'[RevisionOf(j)] # Null /\ j \in Job /\ e.attempt > 0
        BY <2>1, <2>2, <2>4, HandledJob DEF Prepared
      <3>3. e.read <= Latest' /\ e.now <= clock'
        BY <2>2, <2>4, <2>6 DEF WorkerSound, Latest
      <3> QED BY <2>4, <2>5, <3>1, <3>2, <3>3
              DEF WorkerSound, Handling, Prepared, Called
    <2>8. crashes' \in Nat
      BY <2>2 DEF IInv, TypeOK
    <2> QED BY <2>2, <2>3, <2>7, <2>8, MoveStep
  <1> QED BY <1>1, <1>2

\* What makes a start on time founds the call.
LEMMA StartFounded ==
    ASSUME IInv, NEW w \in Workers, worker[w].phase = "looked",
           StartIsOnTime(worker[w].job, clock, worker[w].prior)
    PROVE  CallFounded(worker[w].job, clock)
  <1> DEFINE j == worker[w].job
             s == ScheduleOf(j)
  <1>1. /\ j \in Job /\ s \in Schedules /\ clock \in Nat
        /\ snapshots[RevisionOf(j)] # Null /\ snapshots[RevisionOf(j)] <= clock
    BY HandledJob DEF Handling, Prepared
  <1>2. InStartWindow(clock, s) \/ worker[w].prior
    BY DEF StartIsOnTime
  <1>3. worker[w].prior => HasEligibleStart(j)
    BY DEF IInv, WorkersSound, WorkerSound
  <1>4. BegunInTime(j, clock)
    <2>1. CASE InStartWindow(clock, s)
      BY <2>1 DEF BegunInTime
    <2>2. CASE ~InStartWindow(clock, s)
      <3>1. PICK c \in calls : c.job = j /\ c.status # "skipped" /\ InStartWindow(c.started, s)
        BY <1>2, <1>3, <2>2 DEF HasEligibleStart
      <3>2. c.started \in Nat /\ c.started <= clock
        BY DEF IInv, TypeOK, CallRow, CallsPast
      <3>3. c.started < clock
        BY <1>1, <2>2, <3>1, <3>2, LaterThanWindow
      <3> QED BY <3>1, <3>3 DEF BegunInTime
    <2> QED BY <2>1, <2>2
  <1> QED BY <1>1, <1>4 DEF CallFounded

\* A process that has called keeps what its call is founded on.
LEMMA CalledSound ==
    ASSUME IInv, NEW w \in Workers, NEW e \in WorkerRec, worker'[w] = e,
           worker[w].phase \in Prepared, e.phase \in Called,
           e.job = worker[w].job, e.attempt = worker[w].attempt,
           e.read = worker[w].read, e.now = worker[w].now,
           e.started <= clock, CallFounded(worker[w].job, e.started),
           e.phase = "failing" => e.answer \in Answers \ {"succeeded"},
           UNCHANGED <<clock, revisions, snapshots, calls>>
    PROVE  WorkerSound(w)'
  <1>1. /\ e.job \in Job /\ e.attempt > 0 /\ snapshots'[RevisionOf(e.job)] # Null
        /\ Latest' = Latest
    BY HandledJob DEF Handling, Latest
  <1>2. e.read <= Latest' /\ e.now <= clock'
    BY <1>1 DEF IInv, WorkersSound, WorkerSound
  <1>3. CallFounded(worker[w].job, worker[w].started)'
    BY DEF CallFounded, BegunInTime, ScheduleOf
  <1> QED BY <1>1, <1>2, <1>3 DEF WorkerSound, Handling, Prepared, Called

LEMMA StartStep ==
    ASSUME IInv, NEW w \in Workers, Start(w) PROVE IInv'
  <1> DEFINE j == worker[w].job
             e == [worker[w] EXCEPT !.phase = "calling", !.prior = FALSE, !.started = clock]
  <1>0. worker[w].phase = "looked"
    BY DEF Start, At
  <1>1. CASE ~StartIsOnTime(j, clock, worker[w].prior)
    BY <1>0, <1>1, EndsStep DEF Start, Handling, Prepared
  <1>2. CASE StartIsOnTime(j, clock, worker[w].prior)
    <2>1. worker[w] \in WorkerRec /\ clock \in Nat
      BY <1>0, HandledJob DEF Handling, Prepared
    <2>2. /\ worker' = [worker EXCEPT ![w] = e] /\ worker'[w] = e
          /\ UNCHANGED <<clock, revisions, changes, jobs, snapshots, calls, published, crashes>>
      BY <1>2 DEF Start, Moves, IInv, TypeOK
    <2>3. e \in WorkerRec
      BY <2>1 DEF WorkerRec, Phase
    <2>4. /\ e.phase = "calling" /\ e.started = clock
          /\ e.job = j /\ e.attempt = worker[w].attempt
          /\ e.read = worker[w].read /\ e.now = worker[w].now
      BY <2>1 DEF WorkerRec
    <2>5. CallFounded(j, clock)
      BY <1>0, <1>2, StartFounded
    <2> HIDE DEF e
    <2>6. WorkerSound(w)'
      BY <1>0, <2>1, <2>2, <2>3, <2>4, <2>5, CalledSound DEF Prepared, Called
    <2> QED BY <2>2, <2>3, <2>6, MoveStep DEF IInv, TypeOK
  <1> QED BY <1>1, <1>2

LEMMA AnswerStep ==
    ASSUME IInv, NEW w \in Workers, NEW answer \in Answers, Answer(w, answer) PROVE IInv'
  <1> DEFINE e == IF answer # "succeeded"
                  THEN [worker[w] EXCEPT !.phase = "failing", !.answer = answer]
                  ELSE IF CompletionIsOnTime(clock, ScheduleOf(worker[w].job))
                  THEN [worker[w] EXCEPT !.phase = "answered", !.at = clock]
                  ELSE [worker[w] EXCEPT !.phase = "late"]
  <1>1. worker[w] \in WorkerRec /\ clock \in Nat /\ worker[w].phase = "calling"
    BY DEF Answer, At, IInv, TypeOK
  <1>2. /\ worker' = [worker EXCEPT ![w] = e] /\ worker'[w] = e
        /\ UNCHANGED <<clock, revisions, changes, jobs, snapshots, calls, published, crashes>>
    BY DEF Answer, Moves, Goes, IInv, TypeOK
  <1>3. e \in WorkerRec
    BY <1>1 DEF WorkerRec, Phase
  <1>4. /\ e.phase \in {"failing", "answered", "late"} /\ e.started = worker[w].started
        /\ e.job = worker[w].job /\ e.attempt = worker[w].attempt
        /\ e.read = worker[w].read /\ e.now = worker[w].now
        /\ e.phase = "failing" => e.answer \in Answers \ {"succeeded"}
    BY <1>1 DEF WorkerRec
  <1>5. CallFounded(worker[w].job, worker[w].started) /\ worker[w].started <= clock
    BY <1>1 DEF IInv, WorkersSound, WorkerSound, Called
  <1> HIDE DEF e
  <1>6. WorkerSound(w)'
    BY <1>1, <1>2, <1>3, <1>4, <1>5, CalledSound DEF Prepared, Called
  <1> QED BY <1>2, <1>3, <1>6, MoveStep DEF IInv, TypeOK

LEMMA FreezeStep ==
    ASSUME IInv, NEW w \in Workers, Freeze(w) PROVE IInv'
  <1> DEFINE j == worker[w].job
             now == worker[w].now
             r == RevisionOf(j)
             e == [worker[w] EXCEPT !.phase = "frozen", !.now = 0]
  <1>0. /\ worker[w].phase = "leased" /\ worker[w].phase \in Handling
        /\ worker[w] \in WorkerRec /\ j \in Job /\ r \in Revision
        /\ clock \in Nat /\ Latest \in Nat /\ worker[w].attempt > 0
    BY HandledJob DEF Freeze, At, Handling
  <1>u. UNCHANGED <<clock, revisions, changes, jobs, calls, published, crashes>>
    BY DEF Freeze
  <1>1. CASE FreezeRefused(j, now)
    BY <1>0, <1>1, <1>u, EndsStep DEF Freeze
  <1>2. CASE ~FreezeRefused(j, now) /\ now < CutoffAt(ScheduleOf(j))
    BY <1>0, <1>2, <1>u, EndsStep DEF Freeze
  <1>3. CASE ~FreezeRefused(j, now) /\ ~(now < CutoffAt(ScheduleOf(j)))
    <2>1. /\ worker' = [worker EXCEPT ![w] = e] /\ worker'[w] = e
          /\ snapshots' = [snapshots EXCEPT ![r] = FirstCapture(r, now)]
      BY <1>3 DEF Freeze, Moves, IInv, TypeOK
    <2>2. e \in WorkerRec
      BY <1>0 DEF WorkerRec, Phase
    <2>3. /\ e.phase = "frozen" /\ e.job = j /\ e.now = 0 /\ e.read = worker[w].read
          /\ e.attempt = worker[w].attempt
      BY <1>0 DEF WorkerRec
    <2> HIDE DEF e
    <2>4. r = Latest /\ CutoffAt(revisions[r]) <= now
      <3>1. r = Latest
        BY <1>3 DEF FreezeRefused
      <3>2. CutoffAt(ScheduleOf(j)) \in Nat /\ now \in Nat
        BY <1>0, <3>1, JobsRevision, InstantsType DEF IInv, WorkerRec
      <3> QED BY <1>3, <3>1, <3>2 DEF ScheduleOf
    <2>5. now \in Nat /\ now <= clock /\ worker[w].read <= Latest
      BY <1>0 DEF WorkerRec, IInv, WorkersSound, WorkerSound
    <2>6. /\ snapshots'[r] = FirstCapture(r, now)
          /\ \A q \in Revision \ {r} : snapshots'[q] = snapshots[q]
          /\ snapshots[r] \in Nat \cup {Null}
      BY <1>0, <2>1 DEF IInv, TypeOK
    <2>7. FirstCapture(r, now) \in Nat /\ FirstCapture(r, now) # Null
      BY <2>5, <2>6, NullAssumption DEF FirstCapture
    <2>8. Grows
      <3>1. \A q \in Revision : snapshots[q] # Null => snapshots'[q] = snapshots[q]
        BY <2>6 DEF FirstCapture
      <3> QED BY <1>0, <1>u, <3>1 DEF Grows, Latest, published
    <2>9. SnapshotsSound'
      <3> SUFFICES ASSUME NEW q \in Revision, snapshots'[q] # Null
                   PROVE  /\ q <= Latest
                          /\ CutoffAt(revisions[q]) <= snapshots'[q] /\ snapshots'[q] <= clock
        BY <1>u DEF SnapshotsSound, Latest
      <3>1. CASE snapshots[q] # Null
        BY <2>8, <3>1 DEF IInv, SnapshotsSound, Grows
      <3>2. CASE snapshots[q] = Null
        <4>1. q = r /\ snapshots'[q] = now
          BY <2>6, <3>2 DEF FirstCapture
        <4> QED BY <1>0, <2>4, <2>5, <4>1
      <3> QED BY <3>1, <3>2
    <2>10. WorkerSound(w)'
      <3>1. snapshots'[RevisionOf(e.job)] # Null
        BY <2>3, <2>6, <2>7
      <3>2. e.read <= Latest' /\ e.now <= clock'
        BY <1>0, <1>u, <2>3, <2>5 DEF Latest
      <3> QED BY <1>0, <2>1, <2>3, <3>1, <3>2 DEF WorkerSound, Handling, Prepared, Called
    <2>11. WorkerMoves(w)
      BY <2>1, <2>2 DEF IInv, TypeOK, WorkerMoves
    <2>12. WorkersSound'
      BY <2>8, <2>10, <2>11, WorkersKept
    <2>13. snapshots' \in [Revision -> Nat \cup {Null}]
      BY <1>0, <2>1, <2>7 DEF IInv, TypeOK
    <2>14. UNCHANGED <<predictions, events, status>>
      BY <1>u DEF published
    <2>15. TypeOK'
      BY <1>u, <2>11, <2>13, <2>14 DEF IInv, TypeOK, WorkerMoves
    <2>16. RowsPlanned' /\ PredictionsSound' /\ PredictionIsSuccess' /\ ChangeRevokes' /\ ChangesKnown'
      <3>1. \A i \in Job : RowStep(i)
        BY <1>u DEF RowStep
      <3> QED BY <1>u, <2>8, <2>14, <3>1, RowsKept, PredictionsKept, SuccessKept, RevocationKept
              DEF IInv
    <2>17. CallsPast' /\ EventsOfPredictions' /\ ProjectionFaithful'
      BY <1>u, <2>14 DEF IInv, CallsPast, EventsOfPredictions, ProjectionFaithful, Predicted
    <2> QED BY <2>9, <2>12, <2>15, <2>16, <2>17 DEF IInv
  <1> QED BY <1>1, <1>2, <1>3

-----------------------------------------------------------------------------
(* A call is put on record.                                                 *)

\* The other tables stay, and the handler is over.
LEMMA RecordStep ==
    ASSUME IInv, NEW w \in Workers, NEW p \in {"retry", "terminal"},
           worker[w].phase \in Called, Ends(w, p),
           NEW result \in {"late_rejected", "timed_out", "failed", "skipped"},
           RecordCall(w, result),
           UNCHANGED <<clock, revisions, changes, jobs, snapshots, published, crashes>>
    PROVE  IInv'
  <1> DEFINE c == [job |-> worker[w].job, started |-> worker[w].started, status |-> result]
  <1>0. /\ worker[w] \in WorkerRec /\ worker[w].job \in Job /\ clock \in Nat
        /\ worker[w].phase \in Handling /\ worker[w].started \in Nat
        /\ worker[w].started <= clock
    BY HandledJob DEF Handling, Prepared, WorkerRec, IInv, WorkersSound, WorkerSound
  <1>1. calls' = calls \cup {c} /\ c \in CallRow /\ c.started <= clock
    BY <1>0 DEF RecordCall, CallRow
  <1> HIDE DEF c
  <1>2. UNCHANGED <<predictions, events, status>>
    BY DEF published
  <1>3. Grows /\ Latest' = Latest
    BY <1>1, <1>2 DEF IInv, TypeOK, Grows, Latest
  <1>4. worker' = [worker EXCEPT ![w] = Over(w, p)] /\ worker'[w] = Over(w, p)
    BY DEF Ends, Moves, Over, IInv, TypeOK
  <1>5. Over(w, p) \in WorkerRec /\ WorkerSound(w)'
    <2>1. Latest' \in Nat /\ clock' \in Nat /\ p # "done"
      BY <1>0, <1>3 DEF IInv, TypeOK, Latest
    <2> QED BY <1>0, <1>4, <2>1, OverSound
  <1> HIDE DEF Over
  <1>6. WorkerMoves(w)
    BY <1>4, <1>5 DEF IInv, TypeOK, WorkerMoves
  <1>7. WorkersSound'
    BY <1>3, <1>5, <1>6, WorkersKept
  <1>8. TypeOK'
    BY <1>1, <1>2, <1>6 DEF IInv, TypeOK, WorkerMoves
  <1>9. CallsPast'
    BY <1>1 DEF IInv, CallsPast
  <1>10. /\ RowsPlanned' /\ SnapshotsSound' /\ PredictionsSound'
         /\ PredictionIsSuccess' /\ ChangeRevokes' /\ ChangesKnown'
    <2>1. \A i \in Job : RowStep(i)
      BY DEF RowStep
    <2> QED BY <1>2, <1>3, <2>1, RowsKept, SnapshotsKept, PredictionsKept, SuccessKept,
               RevocationKept DEF IInv
  <1>11. EventsOfPredictions' /\ ProjectionFaithful'
    BY <1>2 DEF IInv, EventsOfPredictions, ProjectionFaithful, Predicted
  <1> QED BY <1>7, <1>8, <1>9, <1>10, <1>11 DEF IInv

LEMMA RecordFailureStep ==
    ASSUME IInv, NEW w \in Workers, RecordFailure(w) PROVE IInv'
  <1>1. worker[w].phase = "failing" /\ worker[w].answer \in Answers \ {"succeeded"}
    BY DEF RecordFailure, At, IInv, WorkersSound, WorkerSound
  <1>2. worker[w].answer \in {"timed_out", "failed", "skipped"}
    BY <1>1, AnswersAssumption
  <1> QED BY <1>1, <1>2, RecordStep DEF RecordFailure, Called

LEMMA RecordLateStep ==
    ASSUME IInv, NEW w \in Workers, RecordLate(w) PROVE IInv'
  BY RecordStep DEF RecordLate, At, Called

-----------------------------------------------------------------------------
(* One row of the queue is moved on.                                        *)

\* A process that moves one row to a row of its kind, and settles on a record
\* of its own.
LEMMA RowMoveStep ==
    ASSUME IInv, NEW w \in Workers, NEW j \in Job, NEW row \in Row(Workers),
           jobs[j].state \notin {Absent, "succeeded"},
           row.state \notin {Absent, "succeeded"}, row.deadline = jobs[j].deadline,
           jobs' = [jobs EXCEPT ![j] = row], WorkerMoves(w), WorkerSound(w)',
           UNCHANGED <<clock, revisions, changes, snapshots, calls, published, crashes>>
    PROVE  IInv'
  <1>1. jobs' \in [Job -> Row(Workers)] /\ jobs'[j] = row
    BY DEF IInv, TypeOK
  <1>2. \A i \in Job \ {j} : jobs'[i] = jobs[i]
    BY DEF IInv, TypeOK
  <1>3. \A i \in Job : RowStep(i)
    BY <1>1, <1>2 DEF RowStep
  <1>4. crashes' \in Nat
    BY DEF IInv, TypeOK
  <1> QED BY <1>1, <1>3, <1>4, QueueStep

\* Nor does a process that stays where it is lose anything by it.
LEMMA StaysSound ==
    ASSUME IInv, NEW w \in Workers, worker' = worker,
           UNCHANGED <<clock, revisions, snapshots, calls, published>>
    PROVE  WorkerMoves(w) /\ WorkerSound(w)'
  <1>1. UNCHANGED <<predictions, events, status>>
    BY DEF published
  <1>2. Grows
    BY <1>1 DEF IInv, TypeOK, Grows, Latest
  <1>3. WorkerSound(w)'
    BY <1>2, WorkerKept DEF IInv, WorkersSound
  <1> QED BY <1>3 DEF IInv, TypeOK, WorkerMoves

LEMMA ExpireStep ==
    ASSUME IInv, NEW w \in Workers, NEW j \in Job, Expire(w, j) PROVE IInv'
  <1>1. jobs[j] \in Row(Workers) /\ jobs[j].state \in {"queued", "retry_wait", "running"}
    BY DEF Expire, Expirable, Waiting, LeaseLapsed, IInv, TypeOK
  <1>2. Released(jobs[j], "expired") \in Row(Workers)
    BY <1>1, ReleasedType DEF JobState
  <1>3. /\ Released(jobs[j], "expired").state = "expired"
        /\ Released(jobs[j], "expired").deadline = jobs[j].deadline
    BY <1>1 DEF Released, Row
  <1>4. jobs' = [jobs EXCEPT ![j] = Released(jobs[j], "expired")]
    BY DEF Expire
  <1>5. WorkerMoves(w) /\ WorkerSound(w)'
    BY StaysSound DEF Expire
  <1> HIDE DEF Released
  <1> QED BY <1>1, <1>2, <1>3, <1>4, <1>5, RowMoveStep DEF Expire, Absent

LEMMA RenewStep ==
    ASSUME IInv, NEW w \in Workers, Renew(w) PROVE IInv'
  <1> DEFINE j == worker[w].job
  <1>0. j \in Job /\ clock \in Nat
    BY HandledJob DEF Renew, Handling, Prepared, Called
  <1>1. jobs[j] \in Row(Workers) /\ jobs[j].state = "running"
    BY <1>0 DEF Renew, Renewable, OwnsActiveLease, IInv, TypeOK
  <1>2. Renewed(jobs[j], clock) \in Row(Workers)
    BY <1>0, <1>1, RenewedType
  <1>3. /\ Renewed(jobs[j], clock).state = "running"
        /\ Renewed(jobs[j], clock).deadline = jobs[j].deadline
    BY <1>1 DEF Renewed, Row
  <1>4. jobs' = [jobs EXCEPT ![j] = Renewed(jobs[j], clock)]
    BY DEF Renew
  <1>5. WorkerMoves(w) /\ WorkerSound(w)'
    BY StaysSound DEF Renew
  <1> QED BY <1>0, <1>1, <1>2, <1>3, <1>4, <1>5, RowMoveStep DEF Renew, Absent

LEMMA LeaseStep ==
    ASSUME IInv, NEW w \in Workers, NEW j \in Job, Lease(w, j) PROVE IInv'
  <1> DEFINE e == [worker[w] EXCEPT !.phase = "leased", !.job = j,
                                    !.attempt = jobs[j].attempt + 1]
             row == Leased(jobs[j], w, worker[w].now)
  <1>0. /\ worker[w] \in WorkerRec /\ clock \in Nat /\ Latest \in Nat
        /\ jobs[j] \in Row(Workers) /\ worker[w].now \in Nat
    BY DEF IInv, TypeOK, Latest, WorkerRec
  <1>1. jobs[j].state \in {"queued", "retry_wait", "running"}
    BY DEF Lease, Leasable, Waiting, LeaseLapsed
  <1>2. row \in Row(Workers)
    BY <1>0, LeasedType
  <1>3. row.state = "running" /\ row.deadline = jobs[j].deadline
    BY <1>0 DEF Leased, Row
  <1>4. jobs' = [jobs EXCEPT ![j] = row]
    BY DEF Lease
  <1>5. jobs[j].attempt \in Nat
    BY <1>0 DEF Row
  <1>6. e \in WorkerRec
    <2>1. PICK k \in Nat : k = jobs[j].attempt + 1
      BY <1>5
    <2>2. [worker[w] EXCEPT !.phase = "leased", !.job = j, !.attempt = k] \in WorkerRec
      BY <1>0 DEF WorkerRec, Phase
    <2> QED BY <2>1, <2>2
  <1>7. worker' = [worker EXCEPT ![w] = e] /\ worker'[w] = e
    BY DEF Lease, IInv, TypeOK
  <1>8. /\ e.phase = "leased" /\ e.job = j /\ e.attempt > 0
        /\ e.read = worker[w].read /\ e.now = worker[w].now
    BY <1>0, <1>5 DEF WorkerRec
  <1> HIDE DEF e, row
  <1>9. WorkerMoves(w)
    BY <1>6, <1>7 DEF IInv, TypeOK, WorkerMoves
  <1>10. WorkerSound(w)'
    <2>1. e.read <= Latest' /\ e.now <= clock'
      BY <1>8 DEF Lease, Latest, IInv, WorkersSound, WorkerSound
    <2> QED BY <1>7, <1>8, <2>1 DEF WorkerSound, Handling, Prepared, Called
  <1> QED BY <1>1, <1>2, <1>3, <1>4, <1>9, <1>10, RowMoveStep DEF Lease, Absent

\* A row that is neither new nor finished stays so when it is given up.
LEMMA GivenUp ==
    ASSUME NEW r \in Row(Workers), NEW s \in {"failed", "expired", "retry_wait", "quarantined"}
    PROVE  /\ Released(r, s) \in Row(Workers)
           /\ Released(r, s).state \notin {Absent, "succeeded"}
           /\ Released(r, s).deadline = r.deadline
  <1>1. s \in JobState
    BY DEF JobState
  <1>2. Released(r, s).state = s /\ Released(r, s).deadline = r.deadline
    BY DEF Released, Row
  <1> QED BY <1>1, <1>2, ReleasedType DEF Absent

\* schedule_retry gives the lease up and leaves the deadline alone.
LEMMA RetriedGivenUp ==
    ASSUME NEW r \in Row(Workers), NEW t \in Nat
    PROVE  /\ Retried(r, t) \in Row(Workers)
           /\ Retried(r, t).state \notin {Absent, "succeeded"}
           /\ Retried(r, t).deadline = r.deadline
  <1>1. /\ Released(r, "expired").state \notin {Absent, "succeeded"}
        /\ Released(r, "expired").deadline = r.deadline
    BY GivenUp
  <1>2. /\ [Released(r, "retry_wait") EXCEPT !.due = t].state = "retry_wait"
        /\ [Released(r, "retry_wait") EXCEPT !.due = t].deadline = r.deadline
    BY DEF Released, Row
  <1>3. Retried(r, t) \in Row(Workers)
    BY RetriedType
  <1> QED BY <1>1, <1>2, <1>3 DEF Retried, Absent

LEMMA SettleStep ==
    ASSUME IInv, NEW w \in Workers, Settle(w) PROVE IInv'
  <1> DEFINE j == worker[w].job
             r == jobs[j]
             at == clock + RetryDelay[worker[w].attempt]
  <1>0. /\ worker[w].phase \in {"retry", "terminal", "done"} /\ j \in Job
        /\ r \in Row(Workers) /\ worker[w].attempt \in Nat \ {0}
        /\ clock \in Nat /\ Latest \in Nat
    BY HandledJob DEF Settle, Handling, IInv, TypeOK
  <1>1. worker' = [worker EXCEPT ![w] = Idle] /\ worker'[w] = Idle
    BY DEF Settle, Moves, IInv, TypeOK
  <1>2. UNCHANGED <<clock, revisions, changes, snapshots, calls, published, crashes>>
    BY DEF Settle
  <1>3. WorkerSound(w)' /\ WorkerMoves(w)
    <2>1. Idle \in WorkerRec /\ WorkerSound(w)'
      BY <1>0, <1>1, <1>2, IdleSound DEF IInv, Latest
    <2> QED BY <1>1, <2>1 DEF IInv, TypeOK, WorkerMoves
  <1>4. PICK row : /\ jobs' = [jobs EXCEPT ![j] = row]
                   /\ \/ row = r
                      \/ /\ OwnsActiveLease(r, w, clock) /\ worker[w].attempt < MaxAttempts
                         /\ row = Retried(r, at)
                      \/ OwnsActiveLease(r, w, clock) /\ row = Finished(r, FALSE, clock)
                      \/ Quarantinable(r, w, clock) /\ row = Released(r, "quarantined")
                      \/ /\ worker[w].phase = "done" /\ OwnsActiveLease(r, w, clock)
                         /\ row = Finished(r, TRUE, clock)
    BY DEF Settle, At
  <1>5. worker[w].phase = "done" => r.state = "succeeded"
    BY <1>0 DEF IInv, WorkersSound, WorkerSound, PredictionIsSuccess
  <1>6. CASE row = r
    <2>1. jobs' = jobs
      BY <1>0, <1>4, <1>6 DEF IInv, TypeOK
    <2>2. jobs' \in [Job -> Row(Workers)] /\ (\A i \in Job : RowStep(i)) /\ crashes' \in Nat
      BY <1>2, <2>1 DEF IInv, TypeOK, RowStep
    <2> QED BY <1>2, <1>3, <2>2, QueueStep
  <1>7. CASE OwnsActiveLease(r, w, clock) /\ worker[w].attempt < MaxAttempts /\ row = Retried(r, at)
    <2>1. at \in Nat
      <3>1. worker[w].attempt \in 1..MaxAttempts
        BY <1>0, <1>7, TimingAssumption
      <3>2. RetryDelay[worker[w].attempt] \in Nat
        BY <3>1, DelayAssumption
      <3> QED BY <1>0, <3>2
    <2> HIDE DEF at
    <2>2. /\ row \in Row(Workers) /\ row.state \notin {Absent, "succeeded"}
          /\ row.deadline = r.deadline
      BY <1>0, <1>7, <2>1, RetriedGivenUp
    <2>3. r.state \notin {Absent, "succeeded"}
      BY <1>7 DEF OwnsActiveLease, Absent
    <2> QED BY <1>0, <1>2, <1>3, <1>4, <2>2, <2>3, RowMoveStep
  <1>8. CASE OwnsActiveLease(r, w, clock) /\ row = Finished(r, FALSE, clock)
    <2>1. \E s \in {"failed", "expired"} : row = Released(r, s)
      BY <1>8 DEF Finished
    <2>2. /\ row \in Row(Workers) /\ row.state \notin {Absent, "succeeded"}
          /\ row.deadline = r.deadline
      BY <1>0, <2>1, GivenUp
    <2>3. r.state \notin {Absent, "succeeded"}
      BY <1>8 DEF OwnsActiveLease, Absent
    <2> QED BY <1>0, <1>2, <1>3, <1>4, <2>2, <2>3, RowMoveStep
  <1>9. CASE Quarantinable(r, w, clock) /\ row = Released(r, "quarantined")
    <2>1. /\ row \in Row(Workers) /\ row.state \notin {Absent, "succeeded"}
          /\ row.deadline = r.deadline
      BY <1>0, <1>9, GivenUp
    <2>2. r.state \notin {Absent, "succeeded"}
      BY <1>9 DEF Quarantinable, Waiting, OwnsActiveLease, Absent
    <2> QED BY <1>0, <1>2, <1>3, <1>4, <2>1, <2>2, RowMoveStep
  <1>10. ~(worker[w].phase = "done" /\ OwnsActiveLease(r, w, clock))
    BY <1>5 DEF OwnsActiveLease
  <1> QED BY <1>4, <1>6, <1>7, <1>8, <1>9, <1>10

-----------------------------------------------------------------------------
(* The publication transaction.                                             *)

LEMMA PublishRefusedStep ==
    ASSUME IInv, NEW w \in Workers, Publish(w), ~Publishable(w) PROVE IInv'
  <1> DEFINE e == [worker[w] EXCEPT !.phase = "late", !.at = 0]
  <1>1. worker[w] \in WorkerRec /\ worker[w].phase = "answered"
    BY DEF Publish, At, IInv, TypeOK
  <1>2. /\ worker' = [worker EXCEPT ![w] = e] /\ worker'[w] = e
        /\ UNCHANGED <<clock, revisions, changes, jobs, snapshots, calls, published, crashes>>
    BY DEF Publish, Moves, IInv, TypeOK
  <1>3. e \in WorkerRec
    BY <1>1 DEF WorkerRec, Phase
  <1>4. /\ e.phase = "late" /\ e.started = worker[w].started
        /\ e.job = worker[w].job /\ e.attempt = worker[w].attempt
        /\ e.read = worker[w].read /\ e.now = worker[w].now
    BY <1>1 DEF WorkerRec
  <1>5. CallFounded(worker[w].job, worker[w].started) /\ worker[w].started <= clock
    BY <1>1 DEF IInv, WorkersSound, WorkerSound, Called
  <1> HIDE DEF e
  <1>6. WorkerSound(w)'
    BY <1>1, <1>2, <1>3, <1>4, <1>5, CalledSound DEF Prepared, Called
  <1> QED BY <1>2, <1>3, <1>6, MoveStep DEF IInv, TypeOK

\* What is published was running until now and had neither a prediction nor an
\* event, and its job succeeds.
LEMMA PublishedFirst ==
    ASSUME IInv, NEW w \in Workers, Publish(w), Publishable(w)
    PROVE  LET j == worker[w].job
           IN  /\ j \in Job /\ RevisionOf(j) = Latest
               /\ worker[w].at < DeadlineOf(ScheduleOf(j))
               /\ predictions[j] = Null /\ events[j] = {} /\ status[j] = Null
               /\ Finished(jobs[j], TRUE, worker[w].at) \in Row(Workers)
               /\ Finished(jobs[j], TRUE, worker[w].at).state = "succeeded"
               /\ Finished(jobs[j], TRUE, worker[w].at).deadline = jobs[j].deadline
  <1> DEFINE j == worker[w].job
             at == worker[w].at
  <1>1. j \in Job /\ worker[w] \in WorkerRec /\ at \in Nat /\ jobs[j] \in Row(Workers)
    BY HandledJob DEF Publish, At, Handling, Prepared, Called, WorkerRec, IInv, TypeOK
  <1>2. /\ jobs[j].state = "running" /\ RevisionOf(j) = Latest
        /\ at < DeadlineOf(ScheduleOf(j))
    BY DEF Publishable, OwnsActiveLease, CompletionIsOnTime
  <1>3. j \notin Predicted
    BY <1>1, <1>2 DEF IInv, PredictionIsSuccess
  <1>4. predictions[j] = Null /\ events[j] = {} /\ status[j] = Null
    BY <1>1, <1>3 DEF IInv, EventsOfPredictions, Predicted
  <1>5. jobs[j].deadline = DeadlineOf(ScheduleOf(j))
    BY <1>1, <1>2 DEF IInv, RowsPlanned, Absent
  <1>6. ScheduleOf(j) \in Schedules
    BY <1>1, <1>2, JobsRevision DEF IInv
  <1>7. DeadlineOf(ScheduleOf(j)) \in Nat
    BY <1>6, InstantsType
  <1>8. ~DeadlinePassed(jobs[j], at)
    BY <1>1, <1>2, <1>5, <1>7 DEF DeadlinePassed
  <1>9. Finished(jobs[j], TRUE, at) = Released(jobs[j], "succeeded")
    BY <1>8 DEF Finished
  <1>10. Released(jobs[j], "succeeded").state = "succeeded"
    BY <1>1 DEF Released, Row
  <1>11. Released(jobs[j], "succeeded").deadline = jobs[j].deadline
    BY <1>1 DEF Released, Row
  <1>12. Released(jobs[j], "succeeded") \in Row(Workers)
    BY <1>1, ReleasedType DEF JobState
  <1> QED BY <1>1, <1>2, <1>4, <1>9, <1>10, <1>11, <1>12

LEMMA PublishStep ==
    ASSUME IInv, NEW w \in Workers, Publish(w) PROVE IInv'
  <1>1. CASE ~Publishable(w)
    BY <1>1, PublishRefusedStep
  <1>2. CASE Publishable(w)
    <2> DEFINE j == worker[w].job
               p == [started |-> worker[w].started, generated |-> worker[w].at]
               row == Finished(jobs[j], TRUE, worker[w].at)
               c == [job |-> j, started |-> worker[w].started, status |-> "succeeded"]
    <2>1. /\ worker[w] \in WorkerRec /\ worker[w].phase = "answered"
          /\ clock \in Nat /\ Latest \in Nat
          /\ worker[w].started \in Nat /\ worker[w].at \in Nat
          /\ worker[w].started <= clock /\ CallFounded(j, worker[w].started)
      BY DEF Publish, At, IInv, TypeOK, Latest, WorkerRec, WorkersSound, WorkerSound, Called
    <2>2. /\ j \in Job /\ RevisionOf(j) = Latest
          /\ worker[w].at < DeadlineOf(ScheduleOf(j))
          /\ predictions[j] = Null /\ events[j] = {}
          /\ row \in Row(Workers) /\ row.state = "succeeded" /\ row.deadline = jobs[j].deadline
      BY <1>2, PublishedFirst
    <2>3. /\ jobs[j].state = "running" /\ ScheduleOf(j).status \notin Off
      BY <1>2 DEF Publishable, OwnsActiveLease
    <2>4. /\ calls' = calls \cup {c}
          /\ predictions' = [predictions EXCEPT ![j] = p]
          /\ events' = [events EXCEPT ![j] = @ \cup {"published"}]
          /\ status' = [status EXCEPT ![j] = "published"]
          /\ jobs' = [jobs EXCEPT ![j] = row]
          /\ worker' = [worker EXCEPT ![w] = Idle]
          /\ UNCHANGED <<clock, revisions, changes, snapshots, crashes>>
      BY <1>2, <2>2 DEF Publish, RecordCall, Moves, IInv, TypeOK
    <2>5. c \in CallRow /\ c.started <= clock
      BY <2>1, <2>2 DEF CallRow
    <2>6. p \in [started : Nat, generated : Nat] /\ p # Null
      BY <2>1, RowAssumption
    <2>7. p.started = worker[w].started /\ p.generated = worker[w].at
      OBVIOUS
    <2> HIDE DEF c, p, row
    <2>8. /\ predictions'[j] = p /\ \A i \in Job \ {j} : predictions'[i] = predictions[i]
          /\ events'[j] = {"published"} /\ \A i \in Job \ {j} : events'[i] = events[i]
          /\ status'[j] = "published" /\ \A i \in Job \ {j} : status'[i] = status[i]
          /\ jobs'[j] = row /\ \A i \in Job \ {j} : jobs'[i] = jobs[i]
      BY <2>2, <2>4 DEF IInv, TypeOK
    <2>9. Predicted' = Predicted \cup {j}
      BY <2>2, <2>6, <2>8 DEF Predicted
    <2>10. Grows /\ Latest' = Latest
      <3>1. \A i \in Job : predictions[i] # Null => predictions'[i] = predictions[i]
        BY <2>2, <2>8
      <3> QED BY <2>1, <2>4, <3>1 DEF Grows, Latest
    <2>11. TypeOK'
      <3>1. Idle \in WorkerRec
        BY DEF Idle, WorkerRec, Phase
      <3>2. /\ calls' \subseteq CallRow
            /\ predictions' \in [Job -> [started : Nat, generated : Nat] \cup {Null}]
            /\ jobs' \in [Job -> Row(Workers)]
            /\ worker' \in [Workers -> WorkerRec]
        BY <2>2, <2>4, <2>5, <2>6, <3>1 DEF IInv, TypeOK
      <3>3. events' \in [Job -> SUBSET EventType] /\ status' \in [Job -> EventType \cup {Null}]
        BY <2>2, <2>4 DEF IInv, TypeOK, EventType
      <3> QED BY <2>4, <3>2, <3>3 DEF IInv, TypeOK
    <2>12. RowsPlanned'
      <3> SUFFICES ASSUME NEW i \in Job, jobs'[i].state # Absent
                   PROVE  /\ RevisionOf(i) <= Latest
                          /\ jobs'[i].deadline = DeadlineOf(ScheduleOf(i))
        BY <2>4 DEF RowsPlanned, Latest, ScheduleOf
      <3>1. jobs'[i].deadline = jobs[i].deadline /\ jobs[i].state # Absent
        BY <2>2, <2>3, <2>8 DEF Absent
      <3> QED BY <3>1 DEF IInv, RowsPlanned
    <2>13. SnapshotsSound'
      BY <2>4, <2>10, SnapshotsKept DEF IInv
    <2>14. CallsPast'
      BY <2>4, <2>5 DEF IInv, CallsPast
    <2>15. PredictionsSound'
      <3> SUFFICES ASSUME NEW i \in Predicted'
                   PROVE  (/\ RevisionOf(i) <= Latest
                           /\ predictions[i].generated < DeadlineOf(ScheduleOf(i))
                           /\ CallFounded(i, predictions[i].started))'
        BY DEF PredictionsSound
      <3>1. PICK t \in Nat, k \in Job : t = worker[w].started /\ k = j
        BY <2>1, <2>2
      <3>2. CASE i = j
        <4>1. CallFounded(k, t)'
          BY <2>1, <2>2, <2>10, <3>1, CallFoundedKept DEF IInv
        <4>2. CallFounded(i, predictions[i].started)'
          BY <2>7, <2>8, <3>1, <3>2, <4>1 DEF CallFounded, BegunInTime, ScheduleOf
        <4>3. /\ RevisionOf(i) <= Latest'
              /\ predictions'[i].generated < DeadlineOf(ScheduleOf(i))
          BY <2>1, <2>2, <2>7, <2>8, <2>10, <3>2
        <4> QED BY <2>4, <4>2, <4>3 DEF ScheduleOf
      <3>3. CASE i # j
        <4>1. i \in Predicted /\ i \in Job /\ predictions'[i] = predictions[i]
          BY <2>8, <2>9, <3>3 DEF Predicted
        <4>2. PICK s : s = predictions[i].started
          OBVIOUS
        <4>3. /\ RevisionOf(i) <= Latest /\ CallFounded(i, s)
              /\ predictions[i].generated < DeadlineOf(ScheduleOf(i))
          BY <4>1, <4>2 DEF IInv, PredictionsSound
        <4>4. CallFounded(i, s)'
          BY <2>10, <4>1, <4>3, CallFoundedKept DEF IInv
        <4>5. CallFounded(i, predictions[i].started)'
          BY <4>1, <4>2, <4>4 DEF CallFounded, BegunInTime, ScheduleOf
        <4> QED BY <2>4, <2>10, <4>1, <4>3, <4>5 DEF ScheduleOf
      <3> QED BY <3>2, <3>3
    <2>16. EventsOfPredictions'
      BY <2>8, <2>9 DEF IInv, EventsOfPredictions
    <2>17. ChangesKnown'
      BY <2>4, <2>10 DEF IInv, ChangesKnown
    <2>18. WorkersSound'
      <3>1. worker'[w] = Idle /\ WorkerMoves(w)
        BY <2>4, <2>11 DEF IInv, TypeOK, WorkerMoves
      <3>2. WorkerSound(w)'
        BY <2>1, <2>4, <2>10, <3>1, IdleSound DEF IInv
      <3> QED BY <2>10, <3>1, <3>2, WorkersKept
    <2>19. PredictionIsSuccess'
      <3> SUFFICES ASSUME NEW i \in Job
                   PROVE  i \in Predicted' <=> jobs'[i].state = "succeeded"
        BY DEF PredictionIsSuccess
      <3>1. CASE i = j
        BY <2>2, <2>8, <2>9, <3>1
      <3>2. CASE i # j
        BY <2>8, <2>9, <3>2 DEF IInv, PredictionIsSuccess
      <3> QED BY <3>1, <3>2
    <2>20. ProjectionFaithful'
      BY <2>8 DEF IInv, ProjectionFaithful
    <2>21. ChangeRevokes'
      <3> SUFFICES ASSUME NEW n \in changes, NEW i \in Predicted',
                          RevisionOf(i) < n \/ (RevisionOf(i) = n /\ revisions[n].status \in Off)
                   PROVE  status'[i] # "published"
        BY <2>4 DEF ChangeRevokes
      <3>1. n <= Latest /\ n \in Nat
        BY BoundAssumption DEF IInv, ChangesKnown, TypeOK, Revision
      <3>2. CASE i = j
        BY <2>1, <2>2, <2>3, <3>1, <3>2 DEF ScheduleOf
      <3>3. CASE i # j
        BY <2>8, <2>9, <3>3 DEF IInv, ChangeRevokes, Predicted
      <3> QED BY <3>2, <3>3
    <2> QED BY <2>11, <2>12, <2>13, <2>14, <2>15, <2>16, <2>17, <2>18, <2>19, <2>20, <2>21
            DEF IInv
  <1> QED BY <1>1, <1>2

-----------------------------------------------------------------------------
(* The scheduler tick.                                                      *)

\* What a tick does to the queue.
LEMMA ReconcileRows ==
    ASSUME IInv, NEW n \in Revision, n <= Latest, Reconcile(n)
    PROVE  jobs' \in [Job -> Row(Workers)] /\ \A j \in Job : RowStep(j)
  <1>1. PlannedRow(n) \in Row(Workers)
    BY PlannedType DEF IInv
  <1>2. \A j \in Job : jobs[j] \in Row(Workers)
    BY DEF IInv, TypeOK
  <1>3. \A j \in Job : /\ Released(jobs[j], "cancelled") \in Row(Workers)
                       /\ Released(jobs[j], "cancelled").state = "cancelled"
                       /\ Released(jobs[j], "cancelled").deadline = jobs[j].deadline
    <2> TAKE j \in Job
    <2>1. Released(jobs[j], "cancelled") \in Row(Workers)
      BY <1>2, ReleasedType DEF JobState
    <2> QED BY <1>2, <2>1 DEF Released, Row
  <1>4. jobs' = [j \in Job |->
                   IF j \in CancelledBy(n) /\ Cancellable(jobs[j])
                   THEN Released(jobs[j], "cancelled")
                   ELSE IF j \in Planned(n) /\ jobs[j].state = Absent
                   THEN PlannedRow(n)
                   ELSE jobs[j]]
    BY DEF Reconcile
  <1>5. jobs' \in [Job -> Row(Workers)]
    BY <1>1, <1>2, <1>3, <1>4
  <1>6. \A j \in Job : RowStep(j)
    <2> TAKE j \in Job
    <2>1. CASE j \in CancelledBy(n) /\ Cancellable(jobs[j])
      <3>1. jobs'[j] = Released(jobs[j], "cancelled")
        BY <1>4, <2>1
      <3>2. jobs[j].state \in {"queued", "running", "retry_wait"}
        BY <2>1 DEF Cancellable
      <3> QED BY <1>3, <3>1, <3>2 DEF RowStep, Absent
    <2>2. CASE /\ ~(j \in CancelledBy(n) /\ Cancellable(jobs[j]))
               /\ j \in Planned(n) /\ jobs[j].state = Absent
      BY <1>4, <2>2 DEF RowStep, Planned
    <2>3. CASE /\ ~(j \in CancelledBy(n) /\ Cancellable(jobs[j]))
               /\ ~(j \in Planned(n) /\ jobs[j].state = Absent)
      BY <1>4, <2>3 DEF RowStep
    <2> QED BY <2>1, <2>2, <2>3
  <1> QED BY <1>5, <1>6

\* What a tick does to the predictions.
LEMMA ReconcileRevokes ==
    ASSUME IInv, NEW n \in Revision, n <= Latest, Reconcile(n),
           UNCHANGED <<clock, revisions, snapshots, calls, predictions>>
    PROVE  /\ changes' \subseteq Revision
           /\ events' \in [Job -> SUBSET EventType] /\ status' \in [Job -> EventType \cup {Null}]
           /\ EventsOfPredictions' /\ ChangesKnown' /\ ProjectionFaithful' /\ ChangeRevokes'
  <1> DEFINE voided == VoidedBy(n) \cap Predicted
             rejected == RejectedBy(n)
  <1>1. /\ changes' = IF IsChange(n) THEN changes \cup {n} ELSE changes
        /\ events' = [j \in Job |-> events[j]
                        \cup (IF j \in voided THEN {"voided"} ELSE {})
                        \cup (IF j \in rejected THEN {"late_rejected"} ELSE {})]
        /\ status' = [j \in Job |-> IF j \in rejected THEN "late_rejected"
                                    ELSE IF j \in voided THEN "voided"
                                    ELSE status[j]]
    BY DEF Reconcile
  <1>2. voided \subseteq Predicted /\ rejected \subseteq Predicted
    BY DEF RejectedBy
  <1>3. Predicted' = Predicted /\ Latest' = Latest
    BY DEF Predicted, Latest
  <1>4. /\ \A j \in Job : n > 1 /\ IsChange(n) /\ RevisionOf(j) # n => j \in VoidedBy(n)
        /\ \A j \in Job : revisions[n].status \in Off => j \in VoidedBy(n)
    BY DEF VoidedBy
  <1> HIDE DEF rejected
  <1>5. changes' \subseteq Revision /\ ChangesKnown'
    BY <1>1, <1>3 DEF IInv, TypeOK, ChangesKnown
  <1>6. /\ events' \in [Job -> SUBSET EventType]
        /\ status' \in [Job -> EventType \cup {Null}]
    BY <1>1 DEF IInv, TypeOK, EventType
  <1>7. EventsOfPredictions'
    BY <1>1, <1>2, <1>3 DEF IInv, EventsOfPredictions
  <1>8. ProjectionFaithful'
    <2> SUFFICES ASSUME NEW j \in Job PROVE status'[j] = "published" <=> events'[j] = {"published"}
      BY DEF ProjectionFaithful
    <2>1. CASE j \in rejected
      BY <1>1, <2>1
    <2>2. CASE j \notin rejected /\ j \in voided
      BY <1>1, <2>2
    <2>3. CASE j \notin rejected /\ j \notin voided
      BY <1>1, <2>3 DEF IInv, ProjectionFaithful
    <2> QED BY <2>1, <2>2, <2>3
  <1>9. ChangeRevokes'
    <2> SUFFICES ASSUME NEW m \in changes', NEW i \in Predicted,
                        RevisionOf(i) < m \/ (RevisionOf(i) = m /\ revisions[m].status \in Off),
                        status'[i] = "published"
                 PROVE  FALSE
      BY <1>3 DEF ChangeRevokes
    <2>1. i \in Job /\ RevisionOf(i) \in Nat \ {0} /\ n \in Nat
      BY JobsRevision DEF Predicted, IInv, Revision
    <2>2. i \notin voided /\ status[i] = "published"
      BY <1>1, <2>1
    <2>3. m \notin changes
      BY <2>2 DEF IInv, ChangeRevokes
    <2>4. m = n /\ IsChange(n)
      BY <1>1, <2>3
    <2>5. i \in VoidedBy(n)
      BY <1>4, <2>1, <2>4
    <2> QED BY <2>2, <2>5
  <1> QED BY <1>5, <1>6, <1>7, <1>8, <1>9

LEMMA TickAppliesStep ==
    ASSUME IInv, NEW w \in Workers, TickApplies(w) PROVE IInv'
  <1> DEFINE n == worker[w].read
             aborted == n # 0 /\ ~Plannable(n)
             e == IF aborted THEN Idle ELSE [worker[w] EXCEPT !.phase = "polling", !.read = 0]
  <1>1. /\ worker[w] \in WorkerRec /\ n \in Revision \cup {0} /\ n <= Latest
        /\ clock \in Nat /\ Latest \in Nat /\ worker[w].now <= clock
    BY DEF IInv, TypeOK, Latest, WorkerRec, WorkersSound, WorkerSound
  <1>2. /\ worker' = [worker EXCEPT ![w] = e] /\ worker'[w] = e
        /\ UNCHANGED <<clock, revisions, snapshots, calls, predictions, crashes>>
        /\ crashes' \in Nat
    BY DEF TickApplies, IInv, TypeOK
  <1>3. e \in WorkerRec
    BY <1>1 DEF Idle, WorkerRec, Phase
  <1>4. /\ e.phase \in {"idle", "polling"} /\ e.read = 0
        /\ e.now = 0 \/ e.now = worker[w].now
    BY <1>1 DEF Idle, WorkerRec
  <1>5. n = 0 \/ aborted => UNCHANGED <<changes, jobs, events, status>>
    BY DEF TickApplies
  <1>6. ~(n = 0 \/ aborted) => Reconcile(n)
    BY DEF TickApplies
  <1> HIDE DEF e, aborted
  <1>7. WorkerSound(w)'
    <2>1. e.read <= Latest' /\ e.now <= clock'
      BY <1>1, <1>2, <1>4 DEF Latest
    <2> QED BY <1>2, <1>4, <2>1 DEF WorkerSound, Handling, Prepared, Called
  <1>8. CASE n = 0 \/ aborted
    <2>1. UNCHANGED published
      BY <1>2, <1>5, <1>8 DEF published
    <2> QED BY <1>2, <1>3, <1>5, <1>7, <1>8, <2>1, MoveStep
  <1>9. CASE ~(n = 0 \/ aborted)
    <2>1. PICK r \in Revision : r = n /\ r <= Latest /\ Reconcile(r)
      BY <1>1, <1>6, <1>9
    <2>2. jobs' \in [Job -> Row(Workers)] /\ \A j \in Job : RowStep(j)
      BY <2>1, ReconcileRows
    <2>3. /\ changes' \subseteq Revision
          /\ events' \in [Job -> SUBSET EventType] /\ status' \in [Job -> EventType \cup {Null}]
          /\ EventsOfPredictions' /\ ChangesKnown' /\ ProjectionFaithful' /\ ChangeRevokes'
      BY <1>2, <2>1, ReconcileRevokes
    <2>4. Grows
      BY <1>2 DEF IInv, TypeOK, Grows, Latest
    <2>5. WorkerMoves(w)
      BY <1>2, <1>3 DEF IInv, TypeOK, WorkerMoves
    <2>6. TypeOK'
      BY <1>2, <2>2, <2>3, <2>5 DEF IInv, TypeOK, WorkerMoves
    <2>7. WorkersSound'
      BY <1>7, <2>4, <2>5, WorkersKept
    <2>8. RowsPlanned' /\ SnapshotsSound' /\ PredictionsSound' /\ PredictionIsSuccess'
      BY <1>2, <2>2, <2>4, RowsKept, SnapshotsKept, PredictionsKept, SuccessKept DEF IInv
    <2>9. CallsPast'
      BY <1>2 DEF IInv, CallsPast
    <2> QED BY <2>3, <2>6, <2>7, <2>8, <2>9 DEF IInv
  <1> QED BY <1>8, <1>9

-----------------------------------------------------------------------------
(* The environment.                                                         *)

\* A step that only adds to the clock or to the revisions.
LEMMA EnvironmentStep ==
    ASSUME IInv, Grows, TypeOK',
           UNCHANGED <<changes, jobs, snapshots, calls, published, worker, crashes>>
    PROVE  IInv'
  <1>1. UNCHANGED <<predictions, events, status>>
    BY DEF published
  <1>2. \A w \in Workers : WorkerSound(w)'
    BY WorkerKept DEF IInv, WorkersSound
  <1>3. \A j \in Job : RowStep(j)
    BY DEF RowStep
  <1>4. /\ RowsPlanned' /\ SnapshotsSound' /\ PredictionsSound'
        /\ PredictionIsSuccess' /\ ChangeRevokes' /\ ChangesKnown'
    BY <1>1, <1>3, RowsKept, SnapshotsKept, PredictionsKept, SuccessKept, RevocationKept DEF IInv
  <1>5. CallsPast'
    <2>1. \A c \in calls : c.started \in Nat /\ c.started <= clock
      BY DEF IInv, TypeOK, CallRow, CallsPast
    <2>2. clock \in Nat /\ clock' \in Nat /\ clock <= clock'
      BY DEF Grows, IInv, TypeOK
    <2> QED BY <2>1, <2>2 DEF CallsPast
  <1>6. EventsOfPredictions' /\ ProjectionFaithful'
    BY <1>1 DEF IInv, EventsOfPredictions, ProjectionFaithful, Predicted
  <1> QED BY <1>2, <1>4, <1>5, <1>6 DEF IInv, WorkersSound

LEMMA TickStep ==
    ASSUME IInv, Tick PROVE IInv'
  <1>1. UNCHANGED <<predictions, events, status>>
    BY DEF Tick, published
  <1>2. Grows
    BY <1>1 DEF Tick, IInv, TypeOK, Grows, Latest
  <1>3. TypeOK'
    BY <1>1 DEF Tick, IInv, TypeOK
  <1> QED BY <1>2, <1>3, EnvironmentStep DEF Tick

LEMMA AppendRevisionStep ==
    ASSUME IInv, NEW s \in Schedules, AppendRevision(s) PROVE IInv'
  <1>1. /\ revisions \in Seq(Schedules) /\ Latest \in Nat /\ Latest < MaxRevisions
        /\ MaxRevisions \in Nat
    BY BoundAssumption DEF AppendRevision, Latest, IInv, TypeOK
  <1>2. revisions' = Append(revisions, s)
    BY DEF AppendRevision
  <1>3. /\ revisions' \in Seq(Schedules) /\ Latest' = Latest + 1
        /\ \A r \in 1..Latest : revisions'[r] = revisions[r]
    BY <1>1, <1>2 DEF Latest
  <1>4. UNCHANGED <<clock, changes, jobs, snapshots, calls, predictions, events, status,
                    worker, crashes>>
    BY DEF AppendRevision, published
  <1>5. Grows
    BY <1>1, <1>3, <1>4 DEF IInv, TypeOK, Grows, Revision
  <1>6. Len(revisions') <= MaxRevisions
    BY <1>1, <1>3 DEF Latest
  <1>7. TypeOK'
    BY <1>3, <1>4, <1>6 DEF IInv, TypeOK
  <1> QED BY <1>5, <1>7, EnvironmentStep DEF AppendRevision

-----------------------------------------------------------------------------
(* The theorems.                                                            *)

LEMMA NextIInv ==
    ASSUME IInv, [Next]_vars PROVE IInv'
  <1>1. CASE Tick
    BY <1>1, TickStep
  <1>2. CASE \E schedule \in Schedules : AppendRevision(schedule)
    BY <1>2, AppendRevisionStep
  <1>3. ASSUME NEW w \in Workers, Scheduling(w) PROVE IInv'
    BY <1>3, TickReadsStep, TickAppliesStep DEF Scheduling
  <1>4. ASSUME NEW w \in Workers, Polling(w) PROVE IInv'
    BY <1>4, ExpireStep, LeaseStep, PollEndsStep DEF Polling
  <1>5. ASSUME NEW w \in Workers, Executing(w) PROVE IInv'
    BY <1>5, FreezeStep, LookStep, StartStep, AnswerStep, RecordFailureStep, RecordLateStep,
       PublishStep DEF Executing
  <1>6. ASSUME NEW w \in Workers, Settle(w) \/ Renew(w) \/ Crash(w) PROVE IInv'
    BY <1>6, SettleStep, RenewStep, CrashStep
  <1>7. CASE UNCHANGED vars
    <2>1. /\ UNCHANGED <<clock, revisions, changes, jobs, snapshots, calls, published,
                         worker, crashes>>
          /\ UNCHANGED <<predictions, events, status>>
      BY <1>7 DEF vars, published
    <2>2. Grows /\ TypeOK'
      BY <2>1 DEF IInv, TypeOK, Grows, Latest
    <2> QED BY <2>1, <2>2, EnvironmentStep
  <1> QED BY <1>1, <1>2, <1>3, <1>4, <1>5, <1>6, <1>7 DEF Next

\* The inductive invariant holds of every reachable state.
THEOREM Invariance == Spec => []IInv
  <1>1. Init => IInv
    BY InitIInv
  <1>2. IInv /\ [Next]_vars => IInv'
    BY NextIInv
  <1> QED BY <1>1, <1>2, PTL DEF Spec

\* Every variable keeps its type.
THEOREM TypeCorrect == Spec => []TypeOK
  <1>1. IInv => TypeOK
    BY DEF IInv
  <1> QED BY <1>1, Invariance, PTL

\* Predictions are completed before their deadline, and their calls began in
\* the start window or are retries of one that did (_publish and the start
\* check of PredictionOrchestrator).
THEOREM OnTime == Spec => []PublishedOnTime
  <1>1. IInv => PublishedOnTime
    BY DEF IInv, PredictionsSound, PublishedOnTime, CallFounded, BegunInTime
  <1> QED BY <1>1, Invariance, PTL

\* The input of a prediction was captured at or after the cutoff and before
\* the call (FeatureSnapshotRepository.freeze).
THEOREM FrozenFirst == Spec => []InputFrozenFirst
  <1>1. IInv => InputFrozenFirst
    <2> SUFFICES ASSUME IInv, NEW j \in Predicted
                 PROVE  LET captured == snapshots[RevisionOf(j)]
                        IN  /\ captured # Null
                            /\ CutoffAt(ScheduleOf(j)) <= captured
                            /\ captured <= predictions[j].started
      BY DEF InputFrozenFirst
    <2>1. /\ snapshots[RevisionOf(j)] # Null
          /\ snapshots[RevisionOf(j)] <= predictions[j].started
      BY DEF IInv, PredictionsSound, CallFounded
    <2>2. RevisionOf(j) \in Revision
      BY JobsRevision DEF IInv, Predicted
    <2>3. CutoffAt(ScheduleOf(j)) <= snapshots[RevisionOf(j)]
      BY <2>1, <2>2 DEF IInv, SnapshotsSound, ScheduleOf
    <2> QED BY <2>1, <2>3
  <1> QED BY <1>1, Invariance, PTL

\* A prediction exists exactly when its job has succeeded (the publication
\* transaction of PredictionOrchestrator).
THEOREM SuccessIsPrediction == Spec => []PredictionIsSuccess
  <1>1. IInv => PredictionIsSuccess
    BY DEF IInv
  <1> QED BY <1>1, Invariance, PTL

\* The status projection shows a prediction as published exactly when it was
\* and nothing has revoked it (prediction_status_projection).
THEOREM ProjectionIsFaithful == Spec => []ProjectionFaithful
  <1>1. IInv => ProjectionFaithful
    BY DEF IInv
  <1> QED BY <1>1, Invariance, PTL

\* No prediction of a revision that a recorded change has overtaken is, or
\* becomes, published (ScheduleService.reconcile against _publishable_schedule).
THEOREM ChangesRevoke == Spec => []ChangeRevokes
  <1>1. IInv => ChangeRevokes
    BY DEF IInv
  <1> QED BY <1>1, Invariance, PTL

\* What a tick has revoked no handler, however late, publishes again.
THEOREM RevocationIsFinal == Spec => RevokedForGood
  <1> DEFINE Final == \A j \in Job : status[j] \in {"voided", "late_rejected"}
                                       => status'[j] \in {"voided", "late_rejected"}
  <1>1. IInv /\ Next => Final
    <2> SUFFICES ASSUME IInv, Next, NEW j \in Job, status[j] \in {"voided", "late_rejected"}
                 PROVE  status'[j] \in {"voided", "late_rejected"}
      OBVIOUS
    <2>1. CASE UNCHANGED status
      BY <2>1
    <2>2. ASSUME NEW w \in Workers, TickApplies(w)
          PROVE  status'[j] \in {"voided", "late_rejected"}
      <3>1. CASE UNCHANGED status
        BY <3>1
      <3>2. CASE Reconcile(worker[w].read)
        BY <3>2 DEF Reconcile
      <3> QED BY <2>2, <3>1, <3>2 DEF TickApplies
    <2>3. ASSUME NEW w \in Workers, Publish(w)
          PROVE  status'[j] \in {"voided", "late_rejected"}
      <3>1. CASE UNCHANGED status
        BY <3>1
      <3>2. CASE Publishable(w)
        <4>1. worker[w].job # j
          BY <2>3, <3>2, PublishedFirst, RowAssumption
        <4>2. status' = [status EXCEPT ![worker[w].job] = "published"]
          BY <2>3, <3>2 DEF Publish
        <4> QED BY <4>1, <4>2 DEF IInv, TypeOK
      <3> QED BY <2>3, <3>1, <3>2 DEF Publish, published
    <2>4. \/ UNCHANGED status
          \/ \E w \in Workers : TickApplies(w)
          \/ \E w \in Workers : Publish(w)
      BY DEF Next, published, Tick, AppendRevision, Scheduling, TickReads, Polling, Expire, Lease,
             PollEnds, Executing, Freeze, Look, Start, Answer, RecordFailure, RecordLate,
             Settle, Renew, Crash
    <2> QED BY <2>1, <2>2, <2>3, <2>4
  <1>2. IInv /\ [Next]_vars => [Final]_vars
    BY <1>1
  <1>3. RevokedForGood <=> [][Final]_vars
    BY DEF RevokedForGood
  <1> QED BY <1>2, <1>3, Invariance, PTL DEF Spec
=============================================================================
