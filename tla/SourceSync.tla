----------------------------- MODULE SourceSync -----------------------------
(***************************************************************************)
(* Collecting from the source: BackfillRunner (mirror/backfill.py) and the *)
(* KOVO adapter and job handler around it (mirror/kovo.py).                *)
(*                                                                         *)
(* A worker is a process.  It takes a slot of the source's lease, a        *)
(* session lock of PostgreSQL that its death or a dropped connection gives *)
(* back, spaces its requests, stores a receipt of every answer, writes the *)
(* facts, and goes on with the next page; a backfill moves the durable     *)
(* checkpoint after each page, a sync job of the queue reads all pages     *)
(* without one.                                                            *)
(***************************************************************************)
EXTENDS FactRevisions

CONSTANTS Answers,       \* what the source may answer
          MaxAttempts    \* RetryPolicy.max_attempts

VARIABLES now,
          plan,          \* what is collected: [mode, keys, limit, interval], interval
                         \* being 60 / requests_per_minute, and the bounds: until of the
                         \* clock, receipts of answers, faults of crashes and lost sessions
          lease,         \* slot -> the worker whose session locks it
          worker,
          checkpoint,    \* ops.sync_checkpoints of the scope
          asked,         \* the last request of anybody: [at, whole]
          dropped,       \* a worker goes on, or went on, without its session
          faults

syncVars ==
    <<receipts, facts, now, plan, lease, worker, checkpoint, asked, dropped, faults>>

Idle ==
    [phase |-> "idle", key |-> Null, cursor |-> 0, attempt |-> 1, raw |-> 0, seen |-> 0,
     base |-> Null, last |-> Null, ready |-> 0]

NoCheckpoint == [cursor |-> 0, phase |-> "validation", pages |-> 0, generation |-> 0]

SyncInit(plans) ==
    /\ InitMirror
    /\ now = 0
    /\ plan \in plans
    /\ lease = [s \in 0..(plan.limit - 1) |-> Null]
    /\ worker = [w \in Workers |-> Idle]
    /\ checkpoint = NoCheckpoint
    /\ asked = [at |-> Null, whole |-> TRUE]
    /\ dropped = FALSE
    /\ faults = 0

-----------------------------------------------------------------------------
(* The environment.                                                        *)

Tick ==
    /\ now < plan.until
    /\ now' = now + 1
    /\ UNCHANGED <<receipts, facts, plan, lease, worker, checkpoint, asked, dropped, faults>>

Freed(w) == [s \in DOMAIN lease |-> IF lease[s] = w THEN Null ELSE lease[s]]

\* A session ends, and PostgreSQL frees its locks.
EndSession(w) ==
    /\ faults < plan.faults
    /\ faults' = faults + 1
    /\ lease' = Freed(w)
    /\ UNCHANGED <<receipts, facts, now, plan, checkpoint>>

\* The process dies, and with it its limiter's memory.  Nobody waits out the
\* interval after its last request.
Crash(w) ==
    /\ worker[w].phase # "idle"
    /\ EndSession(w)
    /\ worker' = [worker EXCEPT ![w] = Idle]
    /\ asked' = [asked EXCEPT !.whole = FALSE]
    /\ UNCHANGED dropped

\* The lease's connection drops while the worker, whose receipts and facts use
\* connections of their own, goes on.
LoseSession(w) ==
    /\ \E s \in DOMAIN lease : lease[s] = w
    /\ EndSession(w)
    /\ dropped' = TRUE
    /\ UNCHANGED <<worker, asked>>

-----------------------------------------------------------------------------
(* Pages.                                                                  *)

\* _page_number: only the schedule is paginated.
PageNumber(key, cursor) == IF key.endpoint = "schedule" THEN cursor ELSE 0

\* _next_cursor: the page after this one, Null after the last one and after
\* whatever does not number its pages as asked.
NextCursor(receipt, current) ==
    IF /\ receipt.key.endpoint = "schedule" /\ receipt.status = 200
       /\ receipt.doc.shape \notin EnvelopeFailures
       /\ receipt.doc.page.number = current /\ current + 1 < receipt.doc.page.pages
    THEN current + 1 ELSE Null

\* fetch_page gets one response; the request key carries no page.
Answering(w) ==
    {r \in Answers : r.key = worker[w].key /\ r.page = PageNumber(worker[w].key, worker[w].cursor)}

-----------------------------------------------------------------------------
(* The lease and the limiter.                                              *)

FreeSlots == {s \in DOMAIN lease : lease[s] = Null}

\* PostgresScopeLease.acquire tries the slots in order.
FirstFree == IF FreeSlots = {} THEN {} ELSE {Min(FreeSlots)}

\* wait_after_global_lease: a whole interval after the own last request, or
\* after the lease when there was none.
ReadyAt(w) ==
    IF plan.mode = "backfill" THEN now
    ELSE IF worker[w].last = Null THEN now + plan.interval ELSE worker[w].last + plan.interval

\* A worker takes a job; without a slot the job is retried later.  A completed
\* checkpoint ends a backfill at once.
Lease(w, key) ==
    /\ worker[w].phase = "idle"
    /\ \E slot \in FirstFree : lease' = [lease EXCEPT ![slot] = w]
    /\ plan.mode = "backfill" => checkpoint.phase # "completed"
    /\ worker' = [worker EXCEPT ![w] =
                    [@ EXCEPT !.phase = "spacing", !.key = key, !.attempt = 1, !.base = checkpoint,
                              !.cursor = IF plan.mode = "backfill" THEN checkpoint.cursor ELSE 0,
                              !.ready = ReadyAt(w)]]
    /\ UNCHANGED <<receipts, facts, now, plan, checkpoint, asked, dropped, faults>>

\* Seeded fault: the interval is over a moment early.
SinceOwnAlmost(w) == worker[w].last # Null => now - worker[w].last + 1 >= plan.interval

\* An interval since the own last request.
SinceOwn(w) == worker[w].last # Null => now - worker[w].last >= plan.interval

\* RequestRateLimiter.wait, then the request.
Request(w) ==
    /\ worker[w].phase = "spacing"
    /\ now >= worker[w].ready
    /\ SinceOwn(w)
    /\ worker' = [worker EXCEPT ![w] = [@ EXCEPT !.phase = "sent", !.last = now]]
    /\ asked' = [at |-> now, whole |-> TRUE]
    /\ UNCHANGED <<receipts, facts, now, plan, lease, checkpoint, dropped, faults>>

\* The job's deadline ends the waiting.
Abandon(w) ==
    /\ worker[w].phase = "spacing"
    /\ worker' = [worker EXCEPT ![w].phase = "cooling"]
    /\ UNCHANGED <<receipts, facts, now, plan, lease, checkpoint, asked, dropped, faults>>

\* cooldown, which only sync_once calls.
Rested(w) == plan.mode = "sync" => SinceOwn(w)

Release(w) ==
    /\ worker[w].phase = "cooling"
    /\ Rested(w)
    /\ lease' = Freed(w)
    /\ worker' = [worker EXCEPT ![w] = [Idle EXCEPT !.last = worker[w].last]]
    /\ UNCHANGED <<receipts, facts, now, plan, checkpoint, asked, dropped, faults>>

-----------------------------------------------------------------------------
(* _fetch_with_retry.                                                      *)

\* Another attempt, or the page has failed.
RetryPhase(w) == IF worker[w].attempt < MaxAttempts THEN "spacing" ELSE "cooling"

Retries(w) ==
    worker' = [worker EXCEPT ![w] =
                 [@ EXCEPT !.phase = RetryPhase(w), !.attempt = worker[w].attempt + 1, !.raw = 0]]

\* No answer: the transport raises a timeout or connection error.
Unanswered(w) ==
    /\ worker[w].phase = "sent"
    /\ Retries(w)
    /\ UNCHANGED <<receipts, facts, now, plan, lease, checkpoint, asked, dropped, faults>>

\* An answer arrives and its receipt is committed.
Answer(w, response) ==
    /\ worker[w].phase = "sent"
    /\ Len(receipts) < plan.receipts
    /\ AddReceipt(response, now)
    /\ worker' = [worker EXCEPT ![w] =
                    [@ EXCEPT !.phase = "stored", !.raw = Len(receipts) + 1]]
    /\ UNCHANGED <<facts, now, plan, lease, checkpoint, asked, dropped, faults>>

StatusOf(w) == receipts[worker[w].raw].status

\* 429: the receipt alone is kept.
Busy(w) ==
    /\ worker[w].phase = "stored"
    /\ StatusOf(w) = 429
    /\ Retries(w)
    /\ UNCHANGED <<receipts, facts, now, plan, lease, checkpoint, asked, dropped, faults>>

\* What cannot be parsed is quarantined.  A failing server is asked again,
\* anything else fails the job.
Refuse(w) ==
    /\ worker[w].phase = "stored"
    /\ StatusOf(w) # 429
    /\ Failed(BatchOf(worker[w].raw))
    /\ Quarantine(worker[w].raw, "unverified")
    /\ IF StatusOf(w) >= 500 THEN Retries(w)
       ELSE worker' = [worker EXCEPT ![w].phase = "cooling"]
    /\ UNCHANGED <<receipts, now, plan, lease, checkpoint, asked, dropped, faults>>

-----------------------------------------------------------------------------
(* ingest of an answer that parses.                                        *)

\* The transaction reads the latest revisions.
BeginPersist(w) ==
    /\ worker[w].phase = "stored"
    /\ StatusOf(w) = 200
    /\ \E batch \in {BatchOf(worker[w].raw)} :
         /\ ~Failed(batch)
         /\ worker' = [worker EXCEPT ![w] =
              [@ EXCEPT !.phase = "persisting",
                        !.seen = IF batch.result = Null THEN 0
                                 ELSE Len(facts.results[Subject(batch)])]]
    /\ UNCHANGED <<receipts, facts, now, plan, lease, checkpoint, asked, dropped, faults>>

\* Seeded fault: a page counts although some of it was quarantined.
PageTaken(batch) == "accepted"

\* A batch with issues is kept but ends the job.
AfterPage(batch) == IF batch.issues = {} THEN "accepted" ELSE "cooling"

\* The transaction commits, or a unique violation rolls it back, which is
\* quarantined and raised.
CommitPersist(w) ==
    /\ worker[w].phase = "persisting"
    /\ \E batch \in {BatchOf(worker[w].raw)} :
         IF Conflicts(facts.results, batch, worker[w].seen)
         THEN /\ Quarantine(worker[w].raw, "unverified")
              /\ worker' = [worker EXCEPT ![w].phase = "cooling"]
         ELSE /\ facts' = Persist(facts, batch, worker[w].seen)
              /\ worker' = [worker EXCEPT ![w].phase = AfterPage(batch)]
    /\ UNCHANGED <<receipts, now, plan, lease, checkpoint, asked, dropped, faults>>

-----------------------------------------------------------------------------
(* The next page.                                                          *)

Turned(w, cursor) ==
    [worker[w] EXCEPT !.phase = IF cursor = Null THEN "cooling" ELSE "spacing",
                      !.cursor = IF cursor = Null THEN @ ELSE cursor,
                      !.attempt = 1, !.raw = 0, !.seen = 0]

\* sync_once: all pages, one after the other.
TurnPage(w) ==
    /\ plan.mode = "sync"
    /\ worker[w].phase = "accepted"
    /\ worker' = [worker EXCEPT ![w] =
                    Turned(w, NextCursor(receipts[worker[w].raw], worker[w].cursor))]
    /\ UNCHANGED <<receipts, facts, now, plan, lease, checkpoint, asked, dropped, faults>>

\* The checkpoint after a page; the first page needs no cursor.
Advanced(base, cursor) ==
    [cursor |-> cursor,
     phase |-> IF cursor = Null THEN "completed" ELSE "batch",
     pages |-> base.pages + 1, generation |-> base.generation + 1]

\* run: the checkpoint moves if its generation is the one that was loaded;
\* otherwise somebody else moved it, and the run fails.
MoveCheckpoint(w) ==
    LET base == worker[w].base
        next == NextCursor(receipts[worker[w].raw], worker[w].cursor)
    IN  /\ plan.mode = "backfill"
        /\ worker[w].phase = "accepted"
        /\ IF base.generation = checkpoint.generation
           THEN /\ checkpoint' = Advanced(base, next)
                /\ worker' = [worker EXCEPT ![w] =
                                [Turned(w, next) EXCEPT !.base = Advanced(base, next)]]
           ELSE /\ worker' = [worker EXCEPT ![w].phase = "cooling"]
                /\ UNCHANGED checkpoint
        /\ UNCHANGED <<receipts, facts, now, plan, lease, asked, dropped, faults>>

SyncNext ==
    \/ Tick
    \/ \E w \in Workers :
         \/ \E key \in plan.keys : Lease(w, key)
         \/ \E r \in Answering(w) : Answer(w, r)
         \/ Request(w) \/ Unanswered(w) \/ Abandon(w) \/ Busy(w) \/ Refuse(w)
         \/ BeginPersist(w) \/ CommitPersist(w) \/ TurnPage(w) \/ MoveCheckpoint(w)
         \/ Release(w) \/ Crash(w) \/ LoseSession(w)

SyncSpec(plans) == SyncInit(plans) /\ [][SyncNext]_syncVars

-----------------------------------------------------------------------------
(* Safety.                                                                 *)

\* A receipt whose batch has no issue and whose facts are committed.
Taken(r) ==
    Committed(r) /\ BatchOf(r).issues = {}

\* The durable cursor never passes a page whose facts are not committed,
\* whatever dies between a page and its checkpoint, and however many runs of
\* one scope race for it.
PagesNeverSkipped ==
    \A n \in 0..(checkpoint.pages - 1) :
      \E r \in DOMAIN receipts : Taken(r) /\ receipts[r].doc.page.number = n

\* Over all processes, requests to the source are an interval apart, unless
\* the process that asked last has died or some worker lost its lease.
RequestsSpaced ==
    [][\A w \in Workers :
         (plan.mode = "sync" /\ worker[w].phase = "spacing" /\ worker'[w].phase = "sent") =>
           \/ asked.at = Null \/ ~asked.whole \/ dropped
           \/ now - asked.at >= plan.interval]_syncVars

\* Between two rows of a result nothing else was observed, in the order in
\* which things were observed.
Undisturbed(m, old, new) ==
    \A r \in Accepted(m) :
      receipts[r].at > old.at /\ receipts[r].at < new.at => Score(BatchOf(r).result) = Score(new)

\* A result is final when it was observed again, unchanged, after the time of
\* stability, and, as long as no lease was lost, with nothing else observed in
\* between; it is corrected only once it was final, and final for good.
FinalityEarned ==
    \A m \in Matches : \A k \in DOMAIN facts.results[m] :
      LET row(i) == facts.results[m][i]
      IN  CASE row(k).finality = "final" ->
                 /\ k > 1
                 /\ row(k - 1).finality = "provisional"
                 /\ Score(row(k)) = Score(row(k - 1))
                 /\ row(k).at - row(k - 1).at >= Stability
                 /\ dropped \/ Undisturbed(m, row(k - 1), row(k))
            [] row(k).finality = "corrected" ->
                 /\ \E i \in 1..(k - 1) : row(i).finality = "final"
                 /\ Score(row(k)) # Score(row(k - 1))
            [] OTHER -> \A i \in 1..(k - 1) : row(i).finality = "provisional"
=============================================================================
