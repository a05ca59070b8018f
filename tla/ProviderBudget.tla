--------------------------- MODULE ProviderBudget ---------------------------
(***************************************************************************)
(* The durable budget of one provider (engine/providers/budget.py) under   *)
(* the calls that share it: predict reserves the maximum cost of a call in *)
(* a transaction that takes three advisory locks, makes the call, and      *)
(* settles the reservation at the actual cost.                             *)
(*                                                                         *)
(* The reserving transaction runs at READ COMMITTED.  Each lock and each   *)
(* SELECT is a step, so that settlements, which take no lock, may commit   *)
(* in between.  A caller is a thread that executes prediction jobs; two of *)
(* them may execute the same job when a lease has lapsed, but never the    *)
(* same attempt of it (JobQueue!AttemptsExclusive).                        *)
(***************************************************************************)
EXTENDS Integers, Sequences, FiniteSets, Functions

CONSTANTS Callers,        \* threads that execute prediction jobs
          Jobs,           \* prediction jobs that call this provider
          ScopeOf,        \* match_scope of a job: its match, or itself
          Price,          \* maximum_call_cost of a job's variant
          Costs,          \* what a call may turn out to cost
          Days,           \* how many days there are, 1, 2, ...
          MonthOf,        \* budget_month of a day
          DailyAmount, MonthlyAmount, DailyCalls, MonthlyCalls,
          MatchCalls,     \* max_calls_per_match
          Null,
          MaxCalls,       \* bound: attempts of one job
          MaxCrashes      \* bound: threads that die

Day == 1..Days

ASSUME DaysAssumption == Days \in Nat \ {0} /\ DOMAIN MonthOf = Day

ASSUME PriceAssumption == Price \in [Jobs -> Nat] /\ Costs \subseteq Nat

ASSUME ScopeAssumption == DOMAIN ScopeOf = Jobs

ASSUME NullAssumption == Null \notin Callers /\ Null \notin Nat

\* ProviderBudgetLimits.__post_init__.
ASSUME LimitsAssumption ==
    /\ {DailyAmount, MonthlyAmount, DailyCalls, MonthlyCalls, MatchCalls} \subseteq Nat \ {0}
    /\ DailyAmount <= MonthlyAmount /\ DailyCalls <= MonthlyCalls

VARIABLES today,        \* the UTC date
          attempts,     \* attempts of each job handed out by the queue
          reservations, \* ops.provider_budget_reservations, by reservation_key
          locks,        \* pg_advisory_xact_lock: key -> its holder
          caller,       \* what each thread is doing
          crashes

vars == <<today, attempts, reservations, locks, caller, crashes>>

-----------------------------------------------------------------------------
(* Shapes.                                                                 *)

Key == Jobs \X (Nat \ {0})

\* A row without settled amount is in state 'reserved'.
Reservation == [day : Day, amount : Nat, settled : Nat \cup {Null}]

LockKey ==
    ({"day"} \X Day) \cup ({"match"} \X {ScopeOf[j] : j \in Jobs})
                     \cup ({"month"} \X {MonthOf[d] : d \in Day})

\* "locking": reserve takes its locks; "reading": it has read the day's sums;
\* "deciding": the month's too; "sending": the provider has been called.
Phase == {"idle", "locking", "reading", "deciding", "sending"}

\* held: how many locks it has taken.  dayFits, monthFits: whether one more
\* call fits into the sums that were read.
CallerRec ==
    [phase : Phase, job : Jobs \cup {Null}, attempt : Nat, day : Day, held : 0..3,
     dayFits : BOOLEAN, monthFits : BOOLEAN]

\* A caller that holds no lock and has read nothing.
Call(phase, j, n, d) ==
    [phase |-> phase, job |-> j, attempt |-> n, day |-> d, held |-> 0,
     dayFits |-> FALSE, monthFits |-> FALSE]

Idle == Call("idle", Null, 0, 1)

TypeOK ==
    /\ today \in Day
    /\ attempts \in [Jobs -> Nat]
    /\ DOMAIN reservations \subseteq Key
    /\ reservations \in [DOMAIN reservations -> Reservation]
    /\ locks \in [LockKey -> Callers \cup {Null}]
    /\ caller \in [Callers -> CallerRec]
    /\ crashes \in Nat

Init ==
    /\ today = 1
    /\ attempts = [j \in Jobs |-> 0]
    /\ reservations = [k \in {} |-> Null]
    /\ locks = [k \in LockKey |-> Null]
    /\ caller = [c \in Callers |-> Idle]
    /\ crashes = 0

-----------------------------------------------------------------------------
(* What the statements of reserve select.                                  *)

Made == DOMAIN reservations

OnDay(d) == {k \in Made : reservations[k].day = d}

InMonth(m) == {k \in Made : MonthOf[reservations[k].day] = m}

OfMatch(s) == {k \in Made : ScopeOf[k[1]] = s}

\* Seeded fault: open reservations are not charged yet.
ChargeWhenSettled(r) == IF r.settled = Null THEN 0 ELSE r.settled

Charge(r) == IF r.settled = Null THEN r.amount ELSE r.settled

\* sum(COALESCE(settled_amount, reserved_amount)).
Spent(S) == SumFunctionOnSet([k \in Made |-> Charge(reservations[k])], S)

\* Seeded fault: the attempt is left out of the reservation_key.
KeyOfJob(call) == <<call.job, 1>>

ReservationKey(call) == <<call.job, call.attempt>>

\* Seeded fault: the month is not locked.
KeysOfDayAndMatch(call) == <<<<"day", call.day>>, <<"match", ScopeOf[call.job]>>>>

\* Seeded fault: a retry locks the keys in another order.
KeysUnsorted(call) ==
    IF call.attempt = 1
    THEN <<<<"day", call.day>>, <<"match", ScopeOf[call.job]>>, <<"month", MonthOf[call.day]>>>>
    ELSE <<<<"month", MonthOf[call.day]>>, <<"match", ScopeOf[call.job]>>, <<"day", call.day>>>>

\* The keys in the order reserve locks them: sorted, so days before matches
\* before months.
LockKeys(call) ==
    <<<<"day", call.day>>, <<"match", ScopeOf[call.job]>>, <<"month", MonthOf[call.day]>>>>

-----------------------------------------------------------------------------
(* The environment.                                                        *)

Midnight ==
    /\ today < Days
    /\ today' = today + 1
    /\ UNCHANGED <<attempts, reservations, locks, caller, crashes>>

\* A thread dies with its process; its transaction is rolled back.
Crash(c) ==
    /\ crashes < MaxCrashes
    /\ caller[c].phase # "idle"
    /\ crashes' = crashes + 1
    /\ locks' = [k \in LockKey |-> IF locks[k] = c THEN Null ELSE locks[k]]
    /\ caller' = [caller EXCEPT ![c] = Idle]
    /\ UNCHANGED <<today, attempts, reservations>>

-----------------------------------------------------------------------------
(* predict.                                                                *)

\* The queue hands out the next attempt of a job; started_at is read, which
\* becomes reserved_at and names the day.
StartCall(c, j) ==
    /\ caller[c].phase = "idle"
    /\ attempts[j] < MaxCalls
    /\ attempts' = [attempts EXCEPT ![j] = @ + 1]
    /\ caller' = [caller EXCEPT ![c] = Call("locking", j, attempts[j] + 1, today)]
    /\ UNCHANGED <<today, reservations, locks, crashes>>

\* pg_advisory_xact_lock waits until the key is free.
TakeLock(c) ==
    LET call == caller[c]
        key == LockKeys(call)[call.held + 1]
    IN  /\ call.phase = "locking"
        /\ call.held < Len(LockKeys(call))
        /\ locks[key] = Null
        /\ locks' = [locks EXCEPT ![key] = c]
        /\ caller' = [caller EXCEPT ![c].held = @ + 1]
        /\ UNCHANGED <<today, attempts, reservations, crashes>>

\* The transaction ends and gives its locks back; the caller goes on as next.
Commits(c, next) ==
    /\ locks' = [k \in LockKey |-> IF locks[k] = c THEN Null ELSE locks[k]]
    /\ caller' = [caller EXCEPT ![c] = next]

\* The call goes out; the reservation is known by its key.
Sending(call) == Call("sending", call.job, call.attempt, 1)

FitsDay(call) ==
    /\ Spent(OnDay(call.day)) + Price[call.job] <= DailyAmount
    /\ Cardinality(OnDay(call.day)) < DailyCalls

FitsMonth(call) ==
    /\ Spent(InMonth(MonthOf[call.day])) + Price[call.job] <= MonthlyAmount
    /\ Cardinality(InMonth(MonthOf[call.day])) < MonthlyCalls

\* A reservation of this key is reused; otherwise the day's sums are read.
ReadDay(c) ==
    LET call == caller[c]
    IN  /\ call.phase = "locking"
        /\ call.held = Len(LockKeys(call))
        /\ IF ReservationKey(call) \in Made
           THEN Commits(c, Sending(call))
           ELSE /\ caller' = [caller EXCEPT ![c] =
                                [@ EXCEPT !.phase = "reading", !.dayFits = FitsDay(call)]]
                /\ UNCHANGED locks
        /\ UNCHANGED <<today, attempts, reservations, crashes>>

ReadMonth(c) ==
    /\ caller[c].phase = "reading"
    /\ caller' = [caller EXCEPT ![c] =
                    [@ EXCEPT !.phase = "deciding", !.monthFits = FitsMonth(caller[c])]]
    /\ UNCHANGED <<today, attempts, reservations, locks, crashes>>

Affordable(call) ==
    /\ call.dayFits
    /\ call.monthFits
    /\ Cardinality(OfMatch(ScopeOf[call.job])) < MatchCalls

\* The calls of the match are counted, and the reservation inserted or the
\* call skipped.
Reserve(c) ==
    LET call == caller[c]
        row == [day |-> call.day, amount |-> Price[call.job], settled |-> Null]
    IN  /\ call.phase = "deciding"
        /\ IF Affordable(call)
           THEN /\ reservations' = [k \in Made \cup {ReservationKey(call)} |->
                                      IF k \in Made THEN reservations[k] ELSE row]
                /\ Commits(c, Sending(call))
           ELSE Commits(c, Idle) /\ UNCHANGED reservations
        /\ UNCHANGED <<today, attempts, crashes>>

\* The call ends, in whichever way, and is settled at its cost: the usage it
\* reports, or the whole reservation when it reports none.  A settlement that
\* finds no open reservation raises.
Settle(c) ==
    LET key == ReservationKey(caller[c])
    IN  /\ caller[c].phase = "sending"
        /\ \E cost \in Costs \cup {Price[caller[c].job]} :
             reservations' = IF reservations[key].settled = Null
                             THEN [reservations EXCEPT ![key].settled = cost]
                             ELSE reservations
        /\ caller' = [caller EXCEPT ![c] = Idle]
        /\ UNCHANGED <<today, attempts, locks, crashes>>

Next ==
    \/ Midnight
    \/ \E c \in Callers :
         \/ \E j \in Jobs : StartCall(c, j)
         \/ TakeLock(c) \/ ReadDay(c) \/ ReadMonth(c) \/ Reserve(c)
         \/ Settle(c) \/ Crash(c)

Spec == Init /\ [][Next]_vars

-----------------------------------------------------------------------------
(* Safety.                                                                 *)

\* However many calls reserve at once, on whichever side of midnight, no day,
\* month or match ever has more calls than its limit; dead and refused callers
\* included.
CallsWithinLimits ==
    /\ \A d \in Day : Cardinality(OnDay(d)) <= DailyCalls
    /\ \A d \in Day : Cardinality(InMonth(MonthOf[d])) <= MonthlyCalls
    /\ \A j \in Jobs : Cardinality(OfMatch(ScopeOf[j])) <= MatchCalls

\* What a reservation was charged, up to what was reserved.
Committed(r) == IF r.settled = Null \/ r.settled > r.amount THEN r.amount ELSE r.settled

CommittedBy(S) == SumFunctionOnSet([k \in Made |-> Committed(reservations[k])], S)

\* A day's or month's amount is exceeded at most by what calls cost beyond
\* their reservation, although sums are read one after the other and
\* settlements commit in between.
AmountsWithinLimits ==
    \A d \in Day : /\ CommittedBy(OnDay(d)) <= DailyAmount
                  /\ CommittedBy(InMonth(MonthOf[d])) <= MonthlyAmount

\* While a call is under way its own reservation is open: a retry, or another
\* thread that executes the same job, never rides on one that was paid before.
EachCallPaid ==
    /\ \A c \in Callers : caller[c].phase = "sending" =>
         /\ ReservationKey(caller[c]) \in Made
         /\ reservations[ReservationKey(caller[c])].settled = Null
    /\ \A c, d \in Callers :
         caller[c].phase = "sending" /\ caller[d].phase = "sending" /\ c # d =>
           ReservationKey(caller[c]) # ReservationKey(caller[d])

NextLock(call) == LockKeys(call)[call.held + 1]

\* Among the transactions that wait for locks one can always go on: they never
\* wait for each other in a circle.
LocksNeverDeadlock ==
    (\E k \in LockKey : locks[k] # Null) =>
      \E c \in Callers :
        \/ caller[c].phase \in {"reading", "deciding"}
        \/ /\ caller[c].phase = "locking"
           /\ \/ caller[c].held = Len(LockKeys(caller[c]))
              \/ locks[NextLock(caller[c])] = Null
=============================================================================
