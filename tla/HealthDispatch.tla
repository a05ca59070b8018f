--------------------------- MODULE HealthDispatch ---------------------------
(***************************************************************************)
(* The dispatch of health alerts to a webhook (ops/health_dispatch.py).    *)
(* Every dispatcher is a process that is given one report and shares a     *)
(* SQLite file with the others: a row for each check says what was last    *)
(* observed and whether it was sent.  A reservation keeps the others from  *)
(* sending meanwhile; it lapses, since its holder may have died.  The rows *)
(* of different checks are independent: alerts holds those followed.       *)
(***************************************************************************)
EXTENDS HealthReport

CONSTANTS Hold,                                    \* how long a reservation lasts
          MaxClock, MaxCrashes

VARIABLES clock,
          world,        \* what there is to collect
          evidence,     \* the file collected last
          reports,
          alerts,       \* check -> its row
          dispatcher,   \* process -> the report it works on
          posted,       \* ghost: the alerts that reached the receiver
          recoveries,   \* ghost: check -> the recoveries recorded
          crashes,
          moves         \* bound of the steps of the monitor and of what it watches

healthVars ==
    <<clock, world, evidence, reports, alerts, dispatcher, posted, recoveries, crashes, moves>>

IdleDispatcher ==
    [report |-> Null, todo |-> {}, phase |-> "idle", check |-> Null, key |-> Null,
     occurrence |-> 0]

HealthInit(starts) ==
    \E start \in starts :
      /\ clock = 0
      /\ world = start.world
      /\ evidence = CollectOperationsEvidence(start.world, 0)
      /\ reports = start.reports
      /\ alerts = [c \in start.checks |-> Null]
      /\ dispatcher = [d \in start.dispatchers |-> IdleDispatcher]
      /\ posted = {}
      /\ recoveries = [c \in start.checks |-> 0]
      /\ crashes = 0
      /\ moves = start.moves

-----------------------------------------------------------------------------
(* The monitor and what it watches.                                        *)

Pass ==
    /\ clock < MaxClock
    /\ clock' = clock + 1
    /\ UNCHANGED <<world, evidence, reports, alerts, dispatcher, posted, recoveries, crashes, moves>>

Move == moves > 0 /\ moves' = moves - 1

\* A worker has finished a poll, or its container is new and has no file yet.
RecordHeartbeat ==
    /\ Move
    /\ \E at \in {clock, Null} : world' = [world EXCEPT !.heartbeat = at]
    /\ UNCHANGED <<clock, evidence, reports, alerts, dispatcher, posted, recoveries, crashes>>

\* A provider call is reserved, at the price of one.
Spend ==
    /\ Move
    /\ world' = [world EXCEPT !.ledger = @ \cup
                   {[id |-> Cardinality(@), provider |-> "a", currency |-> "c", at |-> clock,
                     reserved |-> 1, settled |-> Null]}]
    /\ UNCHANGED <<clock, evidence, reports, alerts, dispatcher, posted, recoveries, crashes>>

Collect ==
    /\ Move
    /\ evidence' = CollectOperationsEvidence(world, clock)
    /\ UNCHANGED <<clock, world, reports, alerts, dispatcher, posted, recoveries, crashes>>

EvaluateHealth ==
    /\ Move
    /\ reports' = reports \cup {Report(evidence, world.backups, clock)}
    /\ UNCHANGED <<clock, world, evidence, alerts, dispatcher, posted, recoveries, crashes>>

-----------------------------------------------------------------------------
(* The dispatcher.                                                         *)

StatusPriority == [ok |-> 0, warning |-> 1, unknown |-> 2, critical |-> 3]

\* The check of a report that the dispatcher repeats: its status is the worst.
ValidReport(report) ==
    /\ DOMAIN report.checks = CheckIds
    /\ \E c \in CheckIds : report.checks[c].status = report.status
    /\ \A c \in CheckIds :
         StatusPriority[report.checks[c].status] <= StatusPriority[report.status]

Ok(d, c) == dispatcher[d].report.checks[c].status = "ok"

Fingerprint(report, c) == report.checks[c]

Start(d, report) ==
    /\ dispatcher[d].phase = "idle"
    /\ report.at <= clock
    /\ ValidReport(report)
    /\ dispatcher' = [dispatcher EXCEPT ![d] =
                        [IdleDispatcher EXCEPT !.report = report, !.todo = DOMAIN alerts,
                                               !.phase = "next"]]
    /\ UNCHANGED <<clock, world, evidence, reports, alerts, posted, recoveries, crashes, moves>>

\* The process goes on to the next check, or ends.
Proceed(d, c) ==
    dispatcher' = [dispatcher EXCEPT ![d] =
                     IF @.todo = {c} THEN IdleDispatcher
                     ELSE [@ EXCEPT !.todo = dispatcher[d].todo \ {c}, !.phase = "next",
                                    !.check = Null, !.key = Null]]

\* A recovery keeps the episode: the next alert opens a new one.
RecordRecovery(d, c) ==
    LET at == dispatcher[d].report.at
        row == alerts[c]
        older == row # Null /\ (row # Null => at <= row.latest)
    IN  /\ dispatcher[d].phase = "next"
        /\ c \in dispatcher[d].todo
        /\ Ok(d, c)
        /\ alerts' = IF older THEN alerts
                     ELSE [alerts EXCEPT ![c] =
                             [fingerprint |-> Null, disposition |-> "sent", token |-> Null,
                              until |-> Null, latest |-> at, status |-> "ok",
                              episode |-> IF row = Null THEN 0 ELSE row.episode]]
        /\ recoveries' = IF older THEN recoveries ELSE [recoveries EXCEPT ![c] = @ + 1]
        /\ Proceed(d, c)
        /\ UNCHANGED <<clock, world, evidence, reports, posted, crashes, moves>>

SameObservation(row, report, c) ==
    row.fingerprint = Fingerprint(report, c) /\ row.status = report.checks[c].status

\* An older report, another one of the same instant, or what has been sent or
\* is being sent.
Suppressed(row, report, c) ==
    \/ report.at < row.latest
    \/ report.at = row.latest /\ ~SameObservation(row, report, c)
    \/ /\ SameObservation(row, report, c)
       /\ \/ row.disposition = "sent"
          \/ /\ row.disposition = "pending" /\ row.until # Null
             /\ row.until # Null => row.until > clock

Episode(row, report, c) ==
    IF row = Null THEN 1
    ELSE Max({1, IF report.at > row.latest /\ ~SameObservation(row, report, c)
                 THEN row.episode + 1 ELSE row.episode})

Reservable(d, c) ==
    /\ dispatcher[d].phase = "next"
    /\ c \in dispatcher[d].todo
    /\ \A other \in dispatcher[d].todo : ~Ok(d, other)

Suppress(d, c) ==
    LET report == dispatcher[d].report
    IN  /\ Reservable(d, c)
        /\ alerts[c] # Null
        /\ Suppressed(alerts[c], report, c)
        /\ alerts' = [alerts EXCEPT ![c].latest = IF report.at > @ THEN report.at ELSE @]
        /\ Proceed(d, c)
        /\ UNCHANGED <<clock, world, evidence, reports, posted, recoveries, crashes, moves>>

Reserve(d, c) ==
    LET report == dispatcher[d].report
        episode == Episode(alerts[c], report, c)
    IN  /\ Reservable(d, c)
        /\ alerts[c] # Null => ~Suppressed(alerts[c], report, c)
        /\ alerts' = [alerts EXCEPT ![c] =
                        [fingerprint |-> Fingerprint(report, c), disposition |-> "pending",
                         token |-> d, until |-> clock + Hold, latest |-> report.at,
                         status |-> report.checks[c].status, episode |-> episode]]
        /\ dispatcher' = [dispatcher EXCEPT ![d] =
                            [@ EXCEPT !.phase = "post", !.check = c,
                                      !.key = <<c, Fingerprint(report, c), episode>>,
                                      !.occurrence = recoveries[c]]]
        /\ UNCHANGED <<clock, world, evidence, reports, posted, recoveries, crashes, moves>>

\* Acknowledged, lost, or lost on the way back.
Post(d, arrived, acknowledged) ==
    /\ dispatcher[d].phase = "post"
    /\ acknowledged => arrived
    /\ posted' = IF arrived
                 THEN posted \cup {[key |-> dispatcher[d].key,
                                    occurrence |-> dispatcher[d].occurrence]}
                 ELSE posted
    /\ dispatcher' = [dispatcher EXCEPT ![d].phase = IF acknowledged THEN "mark" ELSE "release"]
    /\ UNCHANGED <<clock, world, evidence, reports, alerts, recoveries, crashes, moves>>

\* Of a dispatcher and its row: the reservation is still its own.
Reserved(d, c) == alerts[c].disposition = "pending" /\ alerts[c].token = d

ReleaseReservation(d) ==
    LET c == dispatcher[d].check
    IN  /\ dispatcher[d].phase = "release"
        /\ alerts' = IF Reserved(d, c)
                     THEN [alerts EXCEPT ![c].token = Null, ![c].until = Null]
                     ELSE alerts
        /\ Proceed(d, c)
        /\ UNCHANGED <<clock, world, evidence, reports, posted, recoveries, crashes, moves>>

\* Seeded fault: whoever holds the reservation by now.
MarkedBlindly(d, c) ==
    [alerts EXCEPT ![c].disposition = "sent", ![c].token = Null, ![c].until = Null]

MarkedSent(d, c) ==
    IF Reserved(d, c)
    THEN [alerts EXCEPT ![c].disposition = "sent", ![c].token = Null, ![c].until = Null]
    ELSE alerts

\* Without its reservation a dispatcher counts a failure and leaves the row.
MarkSent(d) ==
    /\ dispatcher[d].phase = "mark"
    /\ alerts' = MarkedSent(d, dispatcher[d].check)
    /\ Proceed(d, dispatcher[d].check)
    /\ UNCHANGED <<clock, world, evidence, reports, posted, recoveries, crashes, moves>>

\* The process dies, or gives up because the file cannot be written.
Die(d) ==
    /\ crashes < MaxCrashes
    /\ dispatcher[d].phase # "idle"
    /\ dispatcher' = [dispatcher EXCEPT ![d] = IdleDispatcher]
    /\ crashes' = crashes + 1
    /\ UNCHANGED <<clock, world, evidence, reports, alerts, posted, recoveries, moves>>

HealthNext ==
    \/ Pass
    \/ RecordHeartbeat
    \/ Spend
    \/ Collect
    \/ EvaluateHealth
    \/ \E d \in DOMAIN dispatcher :
         \/ \E report \in reports : Start(d, report)
         \/ \E c \in DOMAIN alerts : RecordRecovery(d, c)
         \/ \E c \in DOMAIN alerts : Suppress(d, c)
         \/ \E c \in DOMAIN alerts : Reserve(d, c)
         \/ \E arrived, acknowledged \in BOOLEAN : Post(d, arrived, acknowledged)
         \/ ReleaseReservation(d)
         \/ MarkSent(d)
         \/ Die(d)

HealthSpec(starts) == HealthInit(starts) /\ [][HealthNext]_healthVars

-----------------------------------------------------------------------------
(* The properties.                                                         *)

\* No alert is swallowed, by the sender or by the receiver.  A row that says
\* sent, and so silences every later report of the same, was really delivered;
\* and no idempotency key, by which the receiver drops duplicates, stands for
\* two occurrences with a recorded recovery between them.
AlertsNotLost ==
    /\ \A c \in DOMAIN alerts :
         alerts[c] # Null =>
           (alerts[c].disposition = "sent" /\ alerts[c].status # "ok" =>
              \E p \in posted : p.key = <<c, alerts[c].fingerprint, alerts[c].episode>>)
    /\ \A p, q \in posted : p.key = q.key => p.occurrence = q.occurrence

=============================================================================
