------------------------ MODULE ProviderBudgetProofs ------------------------
(***************************************************************************)
(* Proofs about ProviderBudget: for any callers, jobs, days and limits the *)
(* locks keep the call limits, cannot deadlock, and every call is paid.    *)
(* Neither are more amounts committed than a day or a month allows.        *)
(***************************************************************************)
EXTENDS ProviderBudget, SetSums

-----------------------------------------------------------------------------
(* The inductive invariant.                                                *)

\* A thread that is busy executes an attempt the queue has handed out, and no
\* two execute the same; a key is new until its own call is under way.
AttemptInv ==
    /\ \A c \in Callers : caller[c].phase # "idle" =>
         /\ caller[c].job \in Jobs
         /\ caller[c].attempt >= 1 /\ caller[c].attempt <= attempts[caller[c].job]
    /\ \A c, d \in Callers :
         c # d /\ caller[c].phase # "idle" /\ caller[d].phase # "idle"
               /\ caller[c].job = caller[d].job => caller[c].attempt # caller[d].attempt
    /\ \A k \in Made : k[2] <= attempts[k[1]]
    /\ \A c \in Callers : caller[c].phase \in {"locking", "reading", "deciding"} =>
         <<caller[c].job, caller[c].attempt>> \notin Made

\* A call under way has its own open reservation.
PaidInv ==
    \A c \in Callers : caller[c].phase = "sending" =>
      /\ <<caller[c].job, caller[c].attempt>> \in Made
      /\ reservations[<<caller[c].job, caller[c].attempt>>].settled = Null

\* k is one of the first keys of a call.
HeldKey(call, k) ==
    \/ call.held >= 1 /\ k = <<"day", call.day>>
    \/ call.held >= 2 /\ k = <<"match", ScopeOf[call.job]>>
    \/ call.held = 3 /\ k = <<"month", MonthOf[call.day]>>

\* Each transaction holds the locks it has taken, and nobody else holds one.
LockInv ==
    /\ \A c \in Callers : /\ caller[c].phase \in {"reading", "deciding"} => caller[c].held = 3
                          /\ caller[c].phase \in {"idle", "sending"} => caller[c].held = 0
    /\ \A c \in Callers, k \in LockKey : locks[k] = c <=> HeldKey(caller[c], k)

\* What a transaction has found to fit still does when it decides.
CountInv ==
    \A c \in Callers, d \in Day : caller[c].day = d =>
      /\ caller[c].phase \in {"reading", "deciding"} /\ caller[c].dayFits =>
           Cardinality(OnDay(d)) < DailyCalls
      /\ caller[c].phase = "deciding" /\ caller[c].monthFits =>
           Cardinality(InMonth(MonthOf[d])) < MonthlyCalls

IInv == TypeOK /\ IsFiniteSet(Made) /\ AttemptInv /\ PaidInv /\ LockInv /\ CountInv
               /\ CallsWithinLimits

-----------------------------------------------------------------------------
(* Keys.                                                                   *)

\* reserve takes three locks, each of its own kind.
LEMMA KeysOfCall ==
    ASSUME NEW call \in CallerRec, call.job \in Jobs
    PROVE  /\ Len(LockKeys(call)) = 3
           /\ LockKeys(call)[1] = <<"day", call.day>>
           /\ LockKeys(call)[2] = <<"match", ScopeOf[call.job]>>
           /\ LockKeys(call)[3] = <<"month", MonthOf[call.day]>>
           /\ <<"day", call.day>> \in LockKey
           /\ <<"match", ScopeOf[call.job]>> \in LockKey
           /\ <<"month", MonthOf[call.day]>> \in LockKey
  <1>1. call.day \in Day
    BY DEF CallerRec
  <1>2. /\ <<"day", call.day>> \in LockKey
        /\ <<"match", ScopeOf[call.job]>> \in LockKey
        /\ <<"month", MonthOf[call.day]>> \in LockKey
    BY <1>1 DEF LockKey
  <1> QED BY <1>2 DEF LockKeys

\* A new call holds nothing.
LEMMA FreshCall ==
    ASSUME NEW p \in Phase, NEW j \in Jobs \cup {Null}, NEW n \in Nat, NEW d \in Day
    PROVE  /\ Call(p, j, n, d) \in CallerRec
           /\ Call(p, j, n, d).phase = p /\ Call(p, j, n, d).job = j
           /\ Call(p, j, n, d).attempt = n /\ Call(p, j, n, d).day = d
           /\ Call(p, j, n, d).held = 0
  BY DEF Call, CallerRec

\* Two transactions never hold the same lock.
LEMMA OneHolder ==
    ASSUME LockInv, NEW c \in Callers, NEW d \in Callers, NEW k \in LockKey,
           HeldKey(caller[c], k), HeldKey(caller[d], k)
    PROVE  c = d
  BY DEF LockInv

\* The reservations of a day, month or match are finitely many.
LEMMA PartsFinite ==
    ASSUME IsFiniteSet(Made)
    PROVE  /\ \A d : IsFiniteSet(OnDay(d))
           /\ \A m : IsFiniteSet(InMonth(m))
           /\ \A s : IsFiniteSet(OfMatch(s))
  <1>1. \A T \in SUBSET Made : IsFiniteSet(T)
    BY FS_Subset
  <1>2. /\ \A d : OnDay(d) \in SUBSET Made
        /\ \A m : InMonth(m) \in SUBSET Made
        /\ \A s : OfMatch(s) \in SUBSET Made
    BY DEF OnDay, InMonth, OfMatch
  <1> QED BY <1>1, <1>2

\* Settling a reservation moves it to no other day or match.
LEMMA SameDays ==
    ASSUME Made' = Made, \A k \in Made : reservations'[k].day = reservations[k].day
    PROVE  /\ \A d : OnDay(d)' = OnDay(d)
           /\ \A m : InMonth(m)' = InMonth(m)
           /\ \A s : OfMatch(s)' = OfMatch(s)
  BY DEF OnDay, InMonth, OfMatch

\* Limits and findings stand while no row is inserted and nobody reads.
LEMMA NothingInserted ==
    ASSUME CallsWithinLimits, CountInv,
           Made' = Made, \A k \in Made : reservations'[k].day = reservations[k].day,
           \A c \in Callers : \/ caller'[c] = caller[c]
                             \/ caller'[c].phase \in {"idle", "locking", "sending"}
    PROVE  CallsWithinLimits' /\ CountInv'
  <1>1. /\ \A d : OnDay(d)' = OnDay(d)
        /\ \A m : InMonth(m)' = InMonth(m)
        /\ \A s : OfMatch(s)' = OfMatch(s)
    BY SameDays
  <1>2. CallsWithinLimits'
    BY <1>1 DEF CallsWithinLimits
  <1>3. ASSUME NEW c \in Callers, NEW d \in Day, caller'[c].day = d
        PROVE  /\ caller'[c].phase \in {"reading", "deciding"} /\ caller'[c].dayFits =>
                    Cardinality(OnDay(d)') < DailyCalls
               /\ caller'[c].phase = "deciding" /\ caller'[c].monthFits =>
                    Cardinality(InMonth(MonthOf[d])') < MonthlyCalls
    <2>1. CASE caller'[c] = caller[c]
      BY <1>1, <1>3, <2>1 DEF CountInv
    <2>2. CASE caller'[c].phase \in {"idle", "locking", "sending"}
      BY <2>2
    <2> QED BY <2>1, <2>2
  <1>4. CountInv'
    BY <1>3 DEF CountInv
  <1> QED BY <1>2, <1>4

-----------------------------------------------------------------------------
(* Every step preserves the invariant.                                     *)

LEMMA InitStep == Init => IInv
  <1> SUFFICES ASSUME Init PROVE IInv
    OBVIOUS
  <1>1. Made = {} /\ IsFiniteSet(Made)
    BY FS_EmptySet DEF Init, Made
  <1>2. 1 \in Day
    BY DaysAssumption DEF Day
  <1>3. TypeOK
    BY <1>1, <1>2 DEF Init, TypeOK, Made, CallerRec, Idle, Call, Phase
  <1>4. AttemptInv /\ PaidInv /\ CountInv
    BY <1>1 DEF Init, AttemptInv, PaidInv, CountInv, Idle, Call
  <1>5. LockInv
    BY NullAssumption DEF Init, LockInv, HeldKey, Idle, Call
  <1>6. /\ \A d : OnDay(d) = {}
        /\ \A m : InMonth(m) = {}
        /\ \A s : OfMatch(s) = {}
    BY <1>1 DEF OnDay, InMonth, OfMatch
  <1>7. CallsWithinLimits
    BY <1>6, FS_EmptySet, LimitsAssumption DEF CallsWithinLimits
  <1> QED BY <1>1, <1>3, <1>4, <1>5, <1>7 DEF IInv

\* The date changes; what has been counted for a day stays counted for it.
LEMMA MidnightStep ==
    ASSUME IInv, Midnight PROVE IInv'
  <1>1. Made' = Made
    BY DEF Midnight, Made
  <1>2. TypeOK'
    BY DaysAssumption DEF IInv, TypeOK, Midnight, Day
  <1>3. CallsWithinLimits' /\ CountInv'
    BY <1>1, NothingInserted DEF IInv, Midnight
  <1> QED BY <1>1, <1>2, <1>3 DEF IInv, Midnight, AttemptInv, PaidInv, LockInv

\* The queue hands out an attempt that nobody has had before.
LEMMA StartCallStep ==
    ASSUME IInv, NEW c \in Callers, NEW j \in Jobs, StartCall(c, j) PROVE IInv'
  <1> DEFINE call == Call("locking", j, attempts[j] + 1, today)
  <1>1. /\ call \in CallerRec
        /\ call.phase = "locking" /\ call.job = j /\ call.attempt = attempts[j] + 1
        /\ call.held = 0
    <2>1. "locking" \in Phase /\ attempts[j] + 1 \in Nat /\ today \in Day
      BY DEF IInv, TypeOK, Phase
    <2> QED BY <2>1, FreshCall
  <1>2. /\ caller'[c] = call
        /\ \A d \in Callers : d # c => caller'[d] = caller[d]
        /\ caller' \in [Callers -> CallerRec]
    BY <1>1 DEF StartCall, IInv, TypeOK
  <1>3. /\ attempts' \in [Jobs -> Nat]
        /\ attempts'[j] = attempts[j] + 1
        /\ \A i \in Jobs : i # j => attempts'[i] = attempts[i]
    BY DEF StartCall, IInv, TypeOK
  <1>4. Made' = Made /\ reservations' = reservations /\ locks' = locks
        /\ caller[c].phase = "idle"
    BY DEF StartCall, Made
  <1> HIDE DEF call
  <1>5. TypeOK'
    BY <1>2, <1>3, <1>4 DEF IInv, TypeOK, StartCall
  <1>6. CallsWithinLimits' /\ CountInv'
    BY <1>1, <1>2, <1>4, NothingInserted DEF IInv
  <1>7. AttemptInv'
    <2>1. \A k \in Made : k[1] \in Jobs /\ k[2] \in Nat
      BY DEF IInv, TypeOK, Made, Key
    <2>2. \A d \in Callers : caller[d].phase # "idle" =>
            caller[d].attempt <= attempts[caller[d].job] /\ caller[d].attempt \in Nat
      BY DEF IInv, AttemptInv, TypeOK, CallerRec
    <2>3. \A k \in Made : k[2] <= attempts'[k[1]]
      BY <1>3, <2>1 DEF IInv, AttemptInv, TypeOK
    <2>4. <<j, attempts[j] + 1>> \notin Made
      BY DEF IInv, AttemptInv, TypeOK
    <2>5. \A d \in Callers : caller'[d].phase # "idle" =>
            /\ caller'[d].job \in Jobs
            /\ caller'[d].attempt >= 1 /\ caller'[d].attempt <= attempts'[caller'[d].job]
      BY <1>1, <1>2, <1>3, <2>2 DEF IInv, AttemptInv, TypeOK
    <2>6. \A d \in Callers : caller[d].phase # "idle" /\ caller[d].job = j =>
            caller[d].attempt # attempts[j] + 1
      BY <2>2 DEF IInv, TypeOK
    <2>7. \A d, e \in Callers :
            d # e /\ caller'[d].phase # "idle" /\ caller'[e].phase # "idle"
                  /\ caller'[d].job = caller'[e].job =>
              caller'[d].attempt # caller'[e].attempt
      BY <1>1, <1>2, <2>6 DEF IInv, AttemptInv
    <2>8. \A d \in Callers : caller'[d].phase \in {"locking", "reading", "deciding"} =>
            <<caller'[d].job, caller'[d].attempt>> \notin Made
      BY <1>1, <1>2, <2>4 DEF IInv, AttemptInv
    <2> QED BY <1>4, <2>3, <2>5, <2>7, <2>8 DEF AttemptInv
  <1>8. PaidInv'
    BY <1>1, <1>2, <1>4 DEF IInv, PaidInv
  <1>9. LockInv'
    <2>1. \A k \in LockKey : ~HeldKey(caller[c], k) /\ ~HeldKey(call, k)
      BY <1>1, <1>4 DEF IInv, LockInv, HeldKey
    <2>2. \A d \in Callers, k \in LockKey : locks'[k] = d <=> HeldKey(caller'[d], k)
      BY <1>2, <1>4, <2>1 DEF IInv, LockInv
    <2> QED BY <1>1, <1>2, <1>4, <2>2 DEF IInv, LockInv
  <1> QED BY <1>4, <1>5, <1>6, <1>7, <1>8, <1>9 DEF IInv

\* A transaction that ends gives back the locks it holds, and no others.
LEMMA LocksReleased ==
    ASSUME TypeOK, LockInv, NEW c \in Callers,
           locks' = [k \in LockKey |-> IF locks[k] = c THEN Null ELSE locks[k]],
           caller'[c].phase \in {"idle", "sending"}, caller'[c].held = 0,
           \A d \in Callers : d # c => caller'[d] = caller[d]
    PROVE  LockInv' /\ locks' \in [LockKey -> Callers \cup {Null}]
  <1>1. locks' \in [LockKey -> Callers \cup {Null}]
    BY DEF TypeOK
  <1>2. ASSUME NEW d \in Callers, NEW k \in LockKey
        PROVE  locks'[k] = d <=> HeldKey(caller'[d], k)
    <2>1. CASE d = c
      BY <2>1, NullAssumption DEF HeldKey
    <2>2. CASE d # c
      BY <2>2, NullAssumption DEF LockInv
    <2> QED BY <2>1, <2>2
  <1>3. \A d \in Callers :
          /\ caller'[d].phase \in {"reading", "deciding"} => caller'[d].held = 3
          /\ caller'[d].phase \in {"idle", "sending"} => caller'[d].held = 0
    BY DEF LockInv
  <1> QED BY <1>1, <1>2, <1>3 DEF LockInv

\* Attempts stay apart while a thread goes on with its own or gives it up.
LEMMA AttemptKept ==
    ASSUME AttemptInv, attempts' = attempts, Made' = Made,
           \A c \in Callers :
             \/ caller'[c].phase = "idle"
             \/ /\ caller[c].phase # "idle"
                /\ caller'[c].job = caller[c].job /\ caller'[c].attempt = caller[c].attempt
                /\ \/ caller'[c].phase = "sending"
                   \/ caller[c].phase \in {"locking", "reading", "deciding"}
                   \/ caller'[c].phase = caller[c].phase
    PROVE  AttemptInv'
  <1>1. \A c \in Callers : caller'[c].phase # "idle" =>
          /\ caller[c].phase # "idle"
          /\ caller'[c].job = caller[c].job /\ caller'[c].attempt = caller[c].attempt
    OBVIOUS
  <1>2. \A c \in Callers : caller'[c].phase # "idle" =>
          /\ caller'[c].job \in Jobs
          /\ caller'[c].attempt >= 1 /\ caller'[c].attempt <= attempts'[caller'[c].job]
    BY <1>1 DEF AttemptInv
  <1>3. \A c, d \in Callers :
          c # d /\ caller'[c].phase # "idle" /\ caller'[d].phase # "idle"
                /\ caller'[c].job = caller'[d].job => caller'[c].attempt # caller'[d].attempt
    BY <1>1 DEF AttemptInv
  <1>4. \A c \in Callers : caller'[c].phase \in {"locking", "reading", "deciding"} =>
          <<caller'[c].job, caller'[c].attempt>> \notin Made'
    BY <1>1 DEF AttemptInv
  <1> QED BY <1>2, <1>3, <1>4 DEF AttemptInv

\* A dead thread leaves its reservation open and its locks free.
LEMMA CrashStep ==
    ASSUME IInv, NEW c \in Callers, Crash(c) PROVE IInv'
  <1>1. Idle \in CallerRec /\ Idle.phase = "idle" /\ Idle.held = 0
    BY FreshCall, DaysAssumption DEF Idle, Phase, Day
  <1>2. /\ caller'[c] = Idle
        /\ \A d \in Callers : d # c => caller'[d] = caller[d]
        /\ caller' \in [Callers -> CallerRec]
    BY <1>1 DEF Crash, IInv, TypeOK
  <1>3. Made' = Made /\ reservations' = reservations /\ attempts' = attempts
    BY DEF Crash, Made
  <1>4. LockInv' /\ locks' \in [LockKey -> Callers \cup {Null}]
    BY <1>1, <1>2, LocksReleased DEF IInv, Crash
  <1>5. TypeOK'
    BY <1>2, <1>3, <1>4 DEF IInv, TypeOK, Crash
  <1>6. CallsWithinLimits' /\ CountInv'
    BY <1>1, <1>2, <1>3, NothingInserted DEF IInv
  <1>7. AttemptInv'
    <2>1. \A d \in Callers : caller'[d].phase = "idle" \/ caller'[d] = caller[d]
      BY <1>1, <1>2
    <2> QED BY <2>1, <1>3, AttemptKept DEF IInv
  <1>8. PaidInv'
    BY <1>1, <1>2, <1>3 DEF IInv, PaidInv
  <1> QED BY <1>3, <1>4, <1>5, <1>6, <1>7, <1>8 DEF IInv

\* A lock is taken only when nobody holds it, as the next of its call.
LEMMA TakeLockStep ==
    ASSUME IInv, NEW c \in Callers, TakeLock(c) PROVE IInv'
  <1> DEFINE key == LockKeys(caller[c])[caller[c].held + 1]
  <1>1. /\ caller[c] \in CallerRec /\ caller[c].phase = "locking"
        /\ caller[c].job \in Jobs
    BY DEF IInv, TypeOK, AttemptInv, TakeLock
  <1>0. /\ Len(LockKeys(caller[c])) = 3
        /\ LockKeys(caller[c])[1] = <<"day", caller[c].day>>
        /\ LockKeys(caller[c])[2] = <<"match", ScopeOf[caller[c].job]>>
        /\ LockKeys(caller[c])[3] = <<"month", MonthOf[caller[c].day]>>
        /\ <<"day", caller[c].day>> \in LockKey
        /\ <<"match", ScopeOf[caller[c].job]>> \in LockKey
        /\ <<"month", MonthOf[caller[c].day]>> \in LockKey
    BY <1>1, KeysOfCall
  <1>2. caller[c].held \in 0..2
    BY <1>1, <1>0 DEF TakeLock, CallerRec
  <1>3. \/ caller[c].held = 0 /\ key = <<"day", caller[c].day>>
        \/ caller[c].held = 1 /\ key = <<"match", ScopeOf[caller[c].job]>>
        \/ caller[c].held = 2 /\ key = <<"month", MonthOf[caller[c].day]>>
    BY <1>2, <1>0
  <1>4. key \in LockKey /\ locks[key] = Null
    BY <1>3, <1>0 DEF TakeLock
  <1>5. /\ locks' = [locks EXCEPT ![key] = c]
        /\ caller' = [caller EXCEPT ![c] = [caller[c] EXCEPT !.held = caller[c].held + 1]]
    BY DEF TakeLock
  <1>6. /\ caller'[c].phase = "locking" /\ caller'[c].job = caller[c].job
        /\ caller'[c].attempt = caller[c].attempt /\ caller'[c].day = caller[c].day
        /\ caller'[c].held = caller[c].held + 1
        /\ caller'[c] \in CallerRec
        /\ \A d \in Callers : d # c => caller'[d] = caller[d]
    BY <1>1, <1>2, <1>5 DEF IInv, TypeOK, CallerRec
  <1>7. locks'[key] = c /\ \A k \in LockKey : k # key => locks'[k] = locks[k]
    BY <1>4, <1>5 DEF IInv, TypeOK
  <1>8. Made' = Made /\ reservations' = reservations /\ attempts' = attempts
    BY DEF TakeLock, Made
  <1>9. TypeOK'
    <2>1. locks' \in [LockKey -> Callers \cup {Null}]
      BY <1>4, <1>5 DEF IInv, TypeOK
    <2>2. caller' \in [Callers -> CallerRec]
      BY <1>5, <1>6 DEF IInv, TypeOK
    <2> QED BY <1>8, <2>1, <2>2 DEF IInv, TypeOK, TakeLock
  <1>10. CallsWithinLimits' /\ CountInv'
    BY <1>6, <1>8, NothingInserted DEF IInv
  <1>11. AttemptInv'
    <2>1. \A d \in Callers :
             \/ caller'[d].phase = "idle"
             \/ /\ caller[d].phase # "idle"
                /\ caller'[d].job = caller[d].job /\ caller'[d].attempt = caller[d].attempt
                /\ caller'[d].phase = caller[d].phase
      BY <1>1, <1>6
    <2> QED BY <2>1, <1>8, AttemptKept DEF IInv
  <1>12. PaidInv'
    BY <1>6, <1>8 DEF IInv, PaidInv
  <1>13. LockInv'
    <2> HIDE DEF key
    <2>1. \A k \in LockKey : HeldKey(caller'[c], k) <=> HeldKey(caller[c], k) \/ k = key
      BY <1>2, <1>3, <1>6 DEF HeldKey
    <2>2. \A d \in Callers : ~HeldKey(caller[d], key)
      BY <1>4, NullAssumption DEF IInv, LockInv
    <2>3. \A d \in Callers, k \in LockKey : locks'[k] = d <=> HeldKey(caller'[d], k)
      BY <1>6, <1>7, <2>1, <2>2 DEF IInv, LockInv
    <2> QED BY <1>6, <2>3 DEF IInv, LockInv
  <1> QED BY <1>8, <1>9, <1>10, <1>11, <1>12, <1>13 DEF IInv

\* A call fits only when the calls counted are below their limit.
LEMMA FitsCounts ==
    ASSUME NEW call
    PROVE  /\ FitsDay(call) \in BOOLEAN /\ FitsMonth(call) \in BOOLEAN
           /\ FitsDay(call) => Cardinality(OnDay(call.day)) < DailyCalls
           /\ FitsMonth(call) => Cardinality(InMonth(MonthOf[call.day])) < MonthlyCalls
  BY DEF FitsDay, FitsMonth

\* A transaction that reads keeps its attempt, its locks and what it has read;
\* what it reads now is true.
LEMMA ReadKept ==
    ASSUME IInv, NEW c \in Callers,
           UNCHANGED <<today, attempts, reservations, locks, crashes>>,
           caller' \in [Callers -> CallerRec],
           \A d \in Callers : d # c => caller'[d] = caller[d],
           caller[c].phase \in {"locking", "reading"}, caller[c].held = 3,
           caller'[c].phase \in {"reading", "deciding"},
           caller'[c].job = caller[c].job, caller'[c].attempt = caller[c].attempt,
           caller'[c].day = caller[c].day, caller'[c].held = caller[c].held,
           caller'[c].dayFits => Cardinality(OnDay(caller[c].day)) < DailyCalls,
           caller'[c].phase = "deciding" /\ caller'[c].monthFits =>
             Cardinality(InMonth(MonthOf[caller[c].day])) < MonthlyCalls
    PROVE  IInv'
  <1>1. Made' = Made
    BY DEF Made
  <1>2. TypeOK'
    BY DEF IInv, TypeOK
  <1>3. AttemptInv'
    <2>1. \A d \in Callers :
             \/ caller'[d].phase = "idle"
             \/ /\ caller[d].phase # "idle"
                /\ caller'[d].job = caller[d].job /\ caller'[d].attempt = caller[d].attempt
                /\ \/ caller[d].phase \in {"locking", "reading", "deciding"}
                   \/ caller'[d].phase = caller[d].phase
      OBVIOUS
    <2> QED BY <2>1, <1>1, AttemptKept DEF IInv
  <1>4. PaidInv'
    BY <1>1 DEF IInv, PaidInv
  <1>5. LockInv'
    BY DEF IInv, LockInv, HeldKey
  <1>6. /\ \A d : OnDay(d)' = OnDay(d)
        /\ \A m : InMonth(m)' = InMonth(m)
        /\ \A s : OfMatch(s)' = OfMatch(s)
    BY <1>1, SameDays
  <1>7. CallsWithinLimits'
    BY <1>6 DEF IInv, CallsWithinLimits
  <1>8. ASSUME NEW e \in Callers, NEW d \in Day, caller'[e].day = d
        PROVE  /\ caller'[e].phase \in {"reading", "deciding"} /\ caller'[e].dayFits =>
                    Cardinality(OnDay(d)') < DailyCalls
               /\ caller'[e].phase = "deciding" /\ caller'[e].monthFits =>
                    Cardinality(InMonth(MonthOf[d])') < MonthlyCalls
    <2>1. CASE e = c
      BY <1>6, <1>8, <2>1
    <2>2. CASE e # c
      BY <1>6, <1>8, <2>2 DEF IInv, CountInv
    <2> QED BY <2>1, <2>2
  <1>9. CountInv'
    BY <1>8 DEF CountInv
  <1> QED BY <1>1, <1>2, <1>3, <1>4, <1>5, <1>7, <1>9 DEF IInv

\* Nobody finds a reservation of its own key; the day's count is read.
LEMMA ReadDayStep ==
    ASSUME IInv, NEW c \in Callers, ReadDay(c) PROVE IInv'
  <1>1. /\ caller[c] \in CallerRec /\ caller[c].phase = "locking"
        /\ caller[c].job \in Jobs
        /\ <<caller[c].job, caller[c].attempt>> \notin Made
    BY DEF IInv, TypeOK, AttemptInv, ReadDay
  <1>2. Len(LockKeys(caller[c])) = 3
    BY <1>1, KeysOfCall
  <1>3. /\ caller[c].held = 3
        /\ caller' = [caller EXCEPT ![c] =
                        [caller[c] EXCEPT !.phase = "reading", !.dayFits = FitsDay(caller[c])]]
        /\ UNCHANGED <<today, attempts, reservations, locks, crashes>>
    BY <1>1, <1>2 DEF ReadDay, ReservationKey
  <1>4. /\ FitsDay(caller[c]) \in BOOLEAN
        /\ FitsDay(caller[c]) => Cardinality(OnDay(caller[c].day)) < DailyCalls
    BY FitsCounts
  <1>5. /\ caller'[c] \in CallerRec
        /\ caller'[c].phase = "reading" /\ caller'[c].job = caller[c].job
        /\ caller'[c].attempt = caller[c].attempt /\ caller'[c].day = caller[c].day
        /\ caller'[c].held = caller[c].held
        /\ caller'[c].dayFits = FitsDay(caller[c])
        /\ \A d \in Callers : d # c => caller'[d] = caller[d]
    BY <1>1, <1>3, <1>4 DEF IInv, TypeOK, CallerRec, Phase
  <1>6. caller' \in [Callers -> CallerRec]
    BY <1>3, <1>5 DEF IInv, TypeOK
  <1>7. caller'[c].dayFits => Cardinality(OnDay(caller[c].day)) < DailyCalls
    BY <1>4, <1>5
  <1> QED BY <1>1, <1>3, <1>5, <1>6, <1>7, ReadKept

\* The month's count is read; the day's, read before, still stands.
LEMMA ReadMonthStep ==
    ASSUME IInv, NEW c \in Callers, ReadMonth(c) PROVE IInv'
  <1>1. /\ caller[c] \in CallerRec /\ caller[c].phase = "reading" /\ caller[c].held = 3
        /\ caller[c].day \in Day
    BY DEF IInv, TypeOK, LockInv, CallerRec, ReadMonth
  <1>2. /\ caller' = [caller EXCEPT ![c] =
                        [caller[c] EXCEPT !.phase = "deciding",
                                          !.monthFits = FitsMonth(caller[c])]]
        /\ UNCHANGED <<today, attempts, reservations, locks, crashes>>
    BY DEF ReadMonth
  <1>3. /\ FitsMonth(caller[c]) \in BOOLEAN
        /\ FitsMonth(caller[c]) =>
             Cardinality(InMonth(MonthOf[caller[c].day])) < MonthlyCalls
    BY FitsCounts
  <1>4. /\ caller'[c] \in CallerRec
        /\ caller'[c].phase = "deciding" /\ caller'[c].job = caller[c].job
        /\ caller'[c].attempt = caller[c].attempt /\ caller'[c].day = caller[c].day
        /\ caller'[c].held = caller[c].held /\ caller'[c].dayFits = caller[c].dayFits
        /\ caller'[c].monthFits = FitsMonth(caller[c])
        /\ \A d \in Callers : d # c => caller'[d] = caller[d]
    BY <1>1, <1>2, <1>3 DEF IInv, TypeOK, CallerRec, Phase
  <1>5. caller' \in [Callers -> CallerRec]
    BY <1>2, <1>4 DEF IInv, TypeOK
  <1>6. caller'[c].dayFits => Cardinality(OnDay(caller[c].day)) < DailyCalls
    BY <1>1, <1>4 DEF IInv, CountInv
  <1>7. caller'[c].monthFits =>
          Cardinality(InMonth(MonthOf[caller[c].day])) < MonthlyCalls
    BY <1>3, <1>4
  <1> QED BY <1>1, <1>2, <1>4, <1>5, <1>6, <1>7, ReadKept

\* A settled reservation stays where it was counted.
LEMMA SettleStep ==
    ASSUME IInv, NEW c \in Callers, Settle(c) PROVE IInv'
  <1> DEFINE key == <<caller[c].job, caller[c].attempt>>
  <1>1. /\ caller[c] \in CallerRec /\ caller[c].phase = "sending"
        /\ caller[c].job \in Jobs /\ key \in Made /\ caller[c].held = 0
        /\ reservations[key].settled = Null
    BY DEF IInv, TypeOK, AttemptInv, PaidInv, LockInv, Settle
  <1>2. PICK cost \in Costs \cup {Price[caller[c].job]} :
          reservations' = [reservations EXCEPT ![key] = [reservations[key] EXCEPT !.settled = cost]]
    BY <1>1 DEF Settle, ReservationKey
  <1>3. cost \in Nat
    BY <1>1, PriceAssumption
  <1>4. reservations \in [Made -> Reservation] /\ Made \subseteq Key
    BY DEF IInv, TypeOK, Made
  <1>5. /\ Made' = Made /\ reservations' \in [Made -> Reservation]
        /\ \A k \in Made : reservations'[k].day = reservations[k].day
        /\ \A k \in Made : k # key => reservations'[k] = reservations[k]
    BY <1>1, <1>2, <1>3, <1>4 DEF Made, Reservation
  <1>6. Idle \in CallerRec /\ Idle.phase = "idle" /\ Idle.held = 0
    BY FreshCall, DaysAssumption DEF Idle, Phase, Day
  <1>7. /\ caller'[c] = Idle
        /\ \A d \in Callers : d # c => caller'[d] = caller[d]
        /\ caller' \in [Callers -> CallerRec]
        /\ attempts' = attempts /\ locks' = locks
    BY <1>6 DEF Settle, IInv, TypeOK
  <1>8. TypeOK'
    BY <1>4, <1>5, <1>7 DEF IInv, TypeOK, Settle, Made
  <1>9. CallsWithinLimits' /\ CountInv'
    BY <1>5, <1>6, <1>7, NothingInserted DEF IInv
  <1>10. AttemptInv'
    <2>1. \A d \in Callers : caller'[d].phase = "idle" \/ caller'[d] = caller[d]
      BY <1>6, <1>7
    <2> QED BY <2>1, <1>5, <1>7, AttemptKept DEF IInv
  <1>11. PaidInv'
    <2>1. \A d \in Callers : d # c /\ caller[d].phase = "sending" =>
            <<caller[d].job, caller[d].attempt>> # key
      BY <1>1 DEF IInv, AttemptInv
    <2> HIDE DEF key
    <2> QED BY <1>5, <1>6, <1>7, <2>1 DEF IInv, PaidInv
  <1>12. LockInv'
    BY <1>1, <1>6, <1>7 DEF IInv, LockInv, HeldKey
  <1> QED BY <1>5, <1>8, <1>9, <1>10, <1>11, <1>12 DEF IInv

\* A set of reservations that gains at most one, and only below its limit,
\* stays within the limit.
LEMMA OneMore ==
    ASSUME NEW S, NEW T, NEW k, IsFiniteSet(S), NEW limit \in Nat,
           T = S \/ (T = S \cup {k} /\ Cardinality(S) < limit),
           Cardinality(S) <= limit
    PROVE  Cardinality(T) <= limit
  <1>1. Cardinality(S) \in Nat
    BY FS_CardinalityType
  <1>2. Cardinality(S \cup {k}) = IF k \in S THEN Cardinality(S) ELSE Cardinality(S) + 1
    BY FS_AddElement
  <1>3. CASE T = S
    BY <1>3
  <1>4. CASE T = S \cup {k} /\ Cardinality(S) < limit
    BY <1>1, <1>2, <1>4
  <1> QED BY <1>3, <1>4

\* An inserted reservation counts for its own day, month and match.
LEMMA Inserted ==
    ASSUME NEW k, NEW row, k \notin Made,
           reservations' = [x \in Made \cup {k} |-> IF x \in Made THEN reservations[x] ELSE row]
    PROVE  /\ Made' = Made \cup {k}
           /\ reservations'[k] = row
           /\ \A x \in Made : reservations'[x] = reservations[x]
           /\ \A d : OnDay(d)' = OnDay(d) \cup (IF row.day = d THEN {k} ELSE {})
           /\ \A m : InMonth(m)' = InMonth(m) \cup (IF MonthOf[row.day] = m THEN {k} ELSE {})
           /\ \A s : OfMatch(s)' = OfMatch(s) \cup (IF ScopeOf[k[1]] = s THEN {k} ELSE {})
  <1>1. /\ Made' = Made \cup {k}
        /\ reservations'[k] = row
        /\ \A x \in Made : reservations'[x] = reservations[x]
    BY DEF Made
  <1>2. \A d : OnDay(d)' = OnDay(d) \cup (IF row.day = d THEN {k} ELSE {})
    BY <1>1 DEF OnDay
  <1>3. \A m : InMonth(m)' = InMonth(m) \cup (IF MonthOf[row.day] = m THEN {k} ELSE {})
    BY <1>1 DEF InMonth
  <1>4. \A s : OfMatch(s)' = OfMatch(s) \cup (IF ScopeOf[k[1]] = s THEN {k} ELSE {})
    BY <1>1 DEF OfMatch
  <1> QED BY <1>1, <1>2, <1>3, <1>4

\* While a transaction decides, no other one reads its day or decides on its month.
LEMMA OneDecides ==
    ASSUME IInv, NEW c \in Callers, NEW e \in Callers, e # c, caller[c].phase = "deciding"
    PROVE  /\ caller[e].phase \in {"reading", "deciding"} => caller[e].day # caller[c].day
           /\ caller[e].phase = "deciding" => MonthOf[caller[e].day] # MonthOf[caller[c].day]
  <1>1. caller[c].held = 3 /\ caller[c] \in CallerRec /\ caller[c].job \in Jobs
    BY DEF IInv, LockInv, TypeOK, AttemptInv
  <1>2. /\ <<"day", caller[c].day>> \in LockKey
        /\ <<"month", MonthOf[caller[c].day]>> \in LockKey
    BY <1>1, KeysOfCall
  <1>3. caller[e].phase \in {"reading", "deciding"} => caller[e].held = 3
    BY DEF IInv, LockInv
  <1>4. /\ HeldKey(caller[c], <<"day", caller[c].day>>)
        /\ HeldKey(caller[c], <<"month", MonthOf[caller[c].day]>>)
    BY <1>1 DEF HeldKey
  <1>5. /\ ~HeldKey(caller[e], <<"day", caller[c].day>>)
        /\ ~HeldKey(caller[e], <<"month", MonthOf[caller[c].day]>>)
    BY <1>2, <1>4, OneHolder DEF IInv
  <1> QED BY <1>3, <1>5 DEF HeldKey

\* Inserting a reservation that fits keeps every limit, for its own day and
\* month and for those that other transactions have read.
LEMMA InsertStep ==
    ASSUME IInv, NEW c \in Callers, Reserve(c), Affordable(caller[c]) PROVE IInv'
  <1> DEFINE key == <<caller[c].job, caller[c].attempt>>
             row == [day |-> caller[c].day, amount |-> Price[caller[c].job], settled |-> Null]
  <1>1. /\ caller[c] \in CallerRec /\ caller[c].phase = "deciding"
        /\ caller[c].job \in Jobs /\ caller[c].attempt >= 1
        /\ caller[c].attempt <= attempts[caller[c].job]
        /\ key \notin Made
        /\ caller[c].dayFits /\ caller[c].monthFits
        /\ Cardinality(OfMatch(ScopeOf[caller[c].job])) < MatchCalls
    BY DEF IInv, TypeOK, AttemptInv, Reserve, Affordable
  <1>2. /\ caller[c].day \in Day /\ caller[c].attempt \in Nat \ {0}
        /\ key \in Key /\ row \in Reservation
    BY <1>1, PriceAssumption DEF CallerRec, Key, Reservation
  <1>3. /\ reservations' = [k \in Made \cup {key} |->
                              IF k \in Made THEN reservations[k] ELSE row]
        /\ locks' = [k \in LockKey |-> IF locks[k] = c THEN Null ELSE locks[k]]
        /\ caller' = [caller EXCEPT ![c] = Call("sending", caller[c].job, caller[c].attempt, 1)]
        /\ UNCHANGED <<today, attempts, crashes>>
    BY DEF Reserve, Commits, Sending, ReservationKey
  <1> HIDE DEF key, row
  <1>4. /\ Made' = Made \cup {key}
        /\ reservations'[key] = row
        /\ \A x \in Made : reservations'[x] = reservations[x]
        /\ \A d : OnDay(d)' = OnDay(d) \cup (IF row.day = d THEN {key} ELSE {})
        /\ \A m : InMonth(m)' = InMonth(m) \cup (IF MonthOf[row.day] = m THEN {key} ELSE {})
        /\ \A s : OfMatch(s)' = OfMatch(s) \cup (IF ScopeOf[key[1]] = s THEN {key} ELSE {})
    BY <1>1, <1>3, Inserted
  <1>5. row.day = caller[c].day /\ row.settled = Null
        /\ key = <<caller[c].job, caller[c].attempt>>
    BY DEF row, key
  <1>6. /\ caller'[c] \in CallerRec /\ caller'[c].phase = "sending"
        /\ caller'[c].job = caller[c].job /\ caller'[c].attempt = caller[c].attempt
        /\ caller'[c].held = 0
        /\ \A d \in Callers : d # c => caller'[d] = caller[d]
        /\ caller' \in [Callers -> CallerRec]
    <2>1. "sending" \in Phase /\ 1 \in Day /\ caller[c].attempt \in Nat
      BY <1>2, DaysAssumption DEF Phase, Day
    <2>2. Call("sending", caller[c].job, caller[c].attempt, 1) \in CallerRec
      BY <1>1, <2>1, FreshCall
    <2>3. LET call == Call("sending", caller[c].job, caller[c].attempt, 1)
          IN  /\ call.phase = "sending" /\ call.job = caller[c].job
              /\ call.attempt = caller[c].attempt /\ call.held = 0
      BY DEF Call
    <2> QED BY <1>3, <2>2, <2>3 DEF IInv, TypeOK
  <1>7. LockInv' /\ locks' \in [LockKey -> Callers \cup {Null}]
    BY <1>3, <1>6, LocksReleased DEF IInv
  <1>8. TypeOK'
    <2>1. reservations \in [Made -> Reservation] /\ Made \subseteq Key
      BY DEF IInv, TypeOK, Made
    <2>2. reservations' \in [Made' -> Reservation] /\ Made' \subseteq Key
      BY <1>2, <1>3, <1>4, <2>1
    <2> QED BY <1>3, <1>6, <1>7, <2>2 DEF IInv, TypeOK, Made
  <1>9. IsFiniteSet(Made')
    BY <1>4, FS_AddElement DEF IInv
  <1>10. AttemptInv'
    <2>1. \A d \in Callers : caller'[d].phase # "idle" =>
            /\ caller[d].phase # "idle"
            /\ caller'[d].job = caller[d].job /\ caller'[d].attempt = caller[d].attempt
      BY <1>1, <1>6
    <2>2. \A d \in Callers : caller'[d].phase # "idle" =>
            /\ caller'[d].job \in Jobs
            /\ caller'[d].attempt >= 1 /\ caller'[d].attempt <= attempts'[caller'[d].job]
      BY <1>3, <2>1 DEF IInv, AttemptInv
    <2>3. \A d, e \in Callers :
            d # e /\ caller'[d].phase # "idle" /\ caller'[e].phase # "idle"
                  /\ caller'[d].job = caller'[e].job =>
              caller'[d].attempt # caller'[e].attempt
      BY <2>1 DEF IInv, AttemptInv
    <2>4. \A k \in Made' : k[2] <= attempts'[k[1]]
      BY <1>1, <1>3, <1>4, <1>5 DEF IInv, AttemptInv
    <2>5. \A d \in Callers : d # c /\ caller[d].phase # "idle" =>
            <<caller[d].job, caller[d].attempt>> # key
      BY <1>1, <1>5 DEF IInv, AttemptInv
    <2>6. \A d \in Callers : caller'[d].phase \in {"locking", "reading", "deciding"} =>
            <<caller'[d].job, caller'[d].attempt>> \notin Made'
      BY <1>4, <1>6, <2>5 DEF IInv, AttemptInv
    <2> QED BY <2>2, <2>3, <2>4, <2>6 DEF AttemptInv
  <1>11. PaidInv'
    BY <1>4, <1>5, <1>6 DEF IInv, PaidInv
  <1>12. CallsWithinLimits'
    <2>1. /\ \A d : IsFiniteSet(OnDay(d))
          /\ \A m : IsFiniteSet(InMonth(m))
          /\ \A s : IsFiniteSet(OfMatch(s))
      BY PartsFinite DEF IInv
    <2>2. DailyCalls \in Nat /\ MonthlyCalls \in Nat /\ MatchCalls \in Nat
      BY LimitsAssumption
    <2>3. ASSUME NEW d \in Day PROVE Cardinality(OnDay(d)') <= DailyCalls
      <3>1. \/ OnDay(d)' = OnDay(d)
            \/ OnDay(d)' = OnDay(d) \cup {key} /\ Cardinality(OnDay(d)) < DailyCalls
        BY <1>1, <1>4, <1>5 DEF IInv, CountInv
      <3>2. Cardinality(OnDay(d)) <= DailyCalls
        BY DEF IInv, CallsWithinLimits
      <3> QED BY <2>1, <2>2, <3>1, <3>2, OneMore
    <2>4. ASSUME NEW d \in Day PROVE Cardinality(InMonth(MonthOf[d])') <= MonthlyCalls
      <3>1. \/ InMonth(MonthOf[d])' = InMonth(MonthOf[d])
            \/ /\ InMonth(MonthOf[d])' = InMonth(MonthOf[d]) \cup {key}
               /\ Cardinality(InMonth(MonthOf[d])) < MonthlyCalls
        BY <1>1, <1>2, <1>4, <1>5 DEF IInv, CountInv
      <3>2. Cardinality(InMonth(MonthOf[d])) <= MonthlyCalls
        BY DEF IInv, CallsWithinLimits
      <3> QED BY <2>1, <2>2, <3>1, <3>2, OneMore
    <2>5. ASSUME NEW j \in Jobs PROVE Cardinality(OfMatch(ScopeOf[j])') <= MatchCalls
      <3>1. \/ OfMatch(ScopeOf[j])' = OfMatch(ScopeOf[j])
            \/ /\ OfMatch(ScopeOf[j])' = OfMatch(ScopeOf[j]) \cup {key}
               /\ Cardinality(OfMatch(ScopeOf[j])) < MatchCalls
        BY <1>1, <1>4, <1>5
      <3>2. Cardinality(OfMatch(ScopeOf[j])) <= MatchCalls
        BY DEF IInv, CallsWithinLimits
      <3> QED BY <2>1, <2>2, <3>1, <3>2, OneMore
    <2> QED BY <2>3, <2>4, <2>5 DEF CallsWithinLimits
  <1>13. CountInv'
    <2>1. ASSUME NEW e \in Callers, NEW d \in Day, caller'[e].day = d
          PROVE  /\ caller'[e].phase \in {"reading", "deciding"} /\ caller'[e].dayFits =>
                      Cardinality(OnDay(d)') < DailyCalls
                 /\ caller'[e].phase = "deciding" /\ caller'[e].monthFits =>
                      Cardinality(InMonth(MonthOf[d])') < MonthlyCalls
      <3>1. CASE e = c
        BY <1>6, <3>1
      <3>2. CASE e # c
        <4>1. caller'[e] = caller[e] /\ caller[e].day = d
          BY <1>6, <2>1, <3>2
        <4>2. /\ caller[e].phase \in {"reading", "deciding"} => d # caller[c].day
              /\ caller[e].phase = "deciding" => MonthOf[d] # MonthOf[caller[c].day]
          BY <1>1, <3>2, <4>1, OneDecides
        <4>3. caller[e].phase \in {"reading", "deciding"} => OnDay(d)' = OnDay(d)
          BY <1>4, <1>5, <4>2
        <4>4. caller[e].phase = "deciding" => InMonth(MonthOf[d])' = InMonth(MonthOf[d])
          BY <1>4, <1>5, <4>2
        <4> QED BY <4>1, <4>3, <4>4 DEF IInv, CountInv
      <3> QED BY <3>1, <3>2
    <2> QED BY <2>1 DEF CountInv
  <1> QED BY <1>7, <1>8, <1>9, <1>10, <1>11, <1>12, <1>13 DEF IInv

\* A call that does not fit is skipped.
LEMMA SkipStep ==
    ASSUME IInv, NEW c \in Callers, Reserve(c), ~Affordable(caller[c]) PROVE IInv'
  <1>1. Idle \in CallerRec /\ Idle.phase = "idle" /\ Idle.held = 0
    BY FreshCall, DaysAssumption DEF Idle, Phase, Day
  <1>2. /\ locks' = [k \in LockKey |-> IF locks[k] = c THEN Null ELSE locks[k]]
        /\ caller' = [caller EXCEPT ![c] = Idle]
        /\ UNCHANGED <<today, attempts, reservations, crashes>>
    BY DEF Reserve, Commits
  <1>3. /\ caller'[c] = Idle
        /\ \A d \in Callers : d # c => caller'[d] = caller[d]
        /\ caller' \in [Callers -> CallerRec]
    BY <1>1, <1>2 DEF IInv, TypeOK
  <1>4. Made' = Made
    BY <1>2 DEF Made
  <1>5. LockInv' /\ locks' \in [LockKey -> Callers \cup {Null}]
    BY <1>1, <1>2, <1>3, LocksReleased DEF IInv
  <1>6. TypeOK'
    BY <1>2, <1>3, <1>5 DEF IInv, TypeOK
  <1>7. CallsWithinLimits' /\ CountInv'
    BY <1>1, <1>2, <1>3, <1>4, NothingInserted DEF IInv
  <1>8. AttemptInv'
    <2>1. \A d \in Callers : caller'[d].phase = "idle" \/ caller'[d] = caller[d]
      BY <1>1, <1>3
    <2> QED BY <2>1, <1>2, <1>4, AttemptKept DEF IInv
  <1>9. PaidInv'
    BY <1>1, <1>2, <1>3, <1>4 DEF IInv, PaidInv
  <1> QED BY <1>4, <1>5, <1>6, <1>7, <1>8, <1>9 DEF IInv

\* Nothing happens.
LEMMA StutterStep ==
    ASSUME IInv, UNCHANGED vars PROVE IInv'
  <1>1. /\ Made' = Made /\ reservations' = reservations /\ attempts' = attempts
        /\ caller' = caller /\ locks' = locks
    BY DEF vars, Made
  <1>2. TypeOK'
    BY DEF IInv, TypeOK, vars
  <1>3. CallsWithinLimits' /\ CountInv'
    BY <1>1, NothingInserted DEF IInv
  <1>4. AttemptInv' /\ PaidInv' /\ LockInv'
    BY <1>1 DEF IInv, AttemptInv, PaidInv, LockInv, HeldKey
  <1> QED BY <1>1, <1>2, <1>3, <1>4 DEF IInv

\* A lock that is held belongs to a transaction that waits, at worst, for a
\* lock of a later kind; the month's is the last.
LEMMA SomeoneGoesOn ==
    ASSUME IInv PROVE LocksNeverDeadlock
  <1> SUFFICES ASSUME NEW h \in LockKey, locks[h] # Null,
                      \A c \in Callers : caller[c].phase \notin {"reading", "deciding"},
                      \A c \in Callers : caller[c].phase = "locking" =>
                        /\ caller[c].held # Len(LockKeys(caller[c]))
                        /\ locks[NextLock(caller[c])] # Null
               PROVE  FALSE
    BY DEF LocksNeverDeadlock
  <1>1. ASSUME NEW k \in LockKey, locks[k] # Null
        PROVE  \E c \in Callers : /\ caller[c].phase = "locking"
                                  /\ HeldKey(caller[c], k)
                                  /\ caller[c].held \in {1, 2}
                                  /\ LockKeys(caller[c])[caller[c].held + 1] \in LockKey
                                  /\ locks[LockKeys(caller[c])[caller[c].held + 1]] # Null
                                  /\ caller[c].held = 1 =>
                                       LockKeys(caller[c])[caller[c].held + 1][1] = "match"
                                  /\ caller[c].held = 2 =>
                                       LockKeys(caller[c])[caller[c].held + 1][1] = "month"
    <2>1. PICK c \in Callers : locks[k] = c
      BY <1>1 DEF IInv, TypeOK
    <2>2. HeldKey(caller[c], k)
      BY <2>1 DEF IInv, LockInv
    <2>3. caller[c] \in CallerRec /\ caller[c].held \in 0..3
      BY DEF IInv, TypeOK, CallerRec
    <2>4. caller[c].held # 0
      BY <2>2 DEF HeldKey
    <2>5. caller[c].phase = "locking"
      BY <2>3, <2>4 DEF IInv, LockInv, CallerRec, Phase
    <2>6. caller[c].job \in Jobs
      BY <2>5 DEF IInv, AttemptInv
    <2>7. /\ Len(LockKeys(caller[c])) = 3
          /\ LockKeys(caller[c])[2] = <<"match", ScopeOf[caller[c].job]>>
          /\ LockKeys(caller[c])[3] = <<"month", MonthOf[caller[c].day]>>
          /\ <<"match", ScopeOf[caller[c].job]>> \in LockKey
          /\ <<"month", MonthOf[caller[c].day]>> \in LockKey
      BY <2>3, <2>6, KeysOfCall
    <2>8. caller[c].held \in {1, 2}
      <3>1. caller[c].held # 3
        BY <2>5, <2>7
      <3>2. caller[c].held \in 0..3
        BY <2>3
      <3> QED BY <2>4, <3>1, <3>2
    <2>9. locks[LockKeys(caller[c])[caller[c].held + 1]] # Null
      BY <2>5 DEF NextLock
    <2> QED BY <2>2, <2>5, <2>7, <2>8, <2>9
  <1>2. ASSUME NEW c \in Callers, caller[c].held = 2,
               \E k \in LockKey : k[1] = "month" /\ locks[k] # Null
        PROVE  FALSE
    <2>1. PICK k \in LockKey : k[1] = "month" /\ locks[k] # Null
      BY <1>2
    <2>2. PICK d \in Callers : HeldKey(caller[d], k) /\ caller[d].held \in {1, 2}
      BY <1>1, <2>1
    <2> QED BY <2>1, <2>2 DEF HeldKey
  <1>3. \A c \in Callers : ~(/\ caller[c].held = 2
                             /\ LockKeys(caller[c])[caller[c].held + 1] \in LockKey
                             /\ LockKeys(caller[c])[caller[c].held + 1][1] = "month"
                             /\ locks[LockKeys(caller[c])[caller[c].held + 1]] # Null)
    BY <1>2
  <1>4. PICK c \in Callers : /\ caller[c].held = 1
                             /\ LockKeys(caller[c])[caller[c].held + 1] \in LockKey
                             /\ LockKeys(caller[c])[caller[c].held + 1][1] = "match"
                             /\ locks[LockKeys(caller[c])[caller[c].held + 1]] # Null
    BY <1>1, <1>3
  <1>5. PICK k \in LockKey : k[1] = "match" /\ locks[k] # Null
    BY <1>4
  <1>6. PICK d \in Callers : /\ HeldKey(caller[d], k) /\ caller[d].held \in {1, 2}
                             /\ caller[d].held = 2 =>
                                  /\ LockKeys(caller[d])[caller[d].held + 1] \in LockKey
                                  /\ LockKeys(caller[d])[caller[d].held + 1][1] = "month"
                                  /\ locks[LockKeys(caller[d])[caller[d].held + 1]] # Null
    BY <1>1, <1>5
  <1>7. caller[d].held = 2
    BY <1>5, <1>6 DEF HeldKey
  <1> QED BY <1>3, <1>6, <1>7

-----------------------------------------------------------------------------
(* The theorems about calls and locks.                                     *)

\* The invariant holds in every state of every execution.
THEOREM BudgetInvariant == Spec => []IInv
  <1>1. Init => IInv
    BY InitStep
  <1>2. IInv /\ [Next]_vars => IInv'
    <2> SUFFICES ASSUME IInv, [Next]_vars PROVE IInv'
      OBVIOUS
    <2>1. CASE Midnight
      BY <2>1, MidnightStep
    <2>2. ASSUME NEW c \in Callers, NEW j \in Jobs, StartCall(c, j) PROVE IInv'
      BY <2>2, StartCallStep
    <2>3. ASSUME NEW c \in Callers, TakeLock(c) PROVE IInv'
      BY <2>3, TakeLockStep
    <2>4. ASSUME NEW c \in Callers, ReadDay(c) PROVE IInv'
      BY <2>4, ReadDayStep
    <2>5. ASSUME NEW c \in Callers, ReadMonth(c) PROVE IInv'
      BY <2>5, ReadMonthStep
    <2>6. ASSUME NEW c \in Callers, Reserve(c) PROVE IInv'
      BY <2>6, InsertStep, SkipStep
    <2>7. ASSUME NEW c \in Callers, Settle(c) PROVE IInv'
      BY <2>7, SettleStep
    <2>8. ASSUME NEW c \in Callers, Crash(c) PROVE IInv'
      BY <2>8, CrashStep
    <2>9. CASE UNCHANGED vars
      BY <2>9, StutterStep
    <2> QED BY <2>1, <2>2, <2>3, <2>4, <2>5, <2>6, <2>7, <2>8, <2>9 DEF Next
  <1> QED BY <1>1, <1>2, PTL DEF Spec

\* Every table, lock and thread keeps the shape that the schema and reserve
\* give it.
THEOREM BudgetTypes == Spec => []TypeOK
  <1>1. IInv => TypeOK
    BY DEF IInv
  <1> QED BY <1>1, BudgetInvariant, PTL

\* However many threads reserve at once, and wherever one of them dies, no
\* limit on calls of a day, month or match is exceeded.
THEOREM CallLimitsHold == Spec => []CallsWithinLimits
  <1>1. IInv => CallsWithinLimits
    BY DEF IInv
  <1> QED BY <1>1, BudgetInvariant, PTL

\* A call that goes out has a reservation of its own, not yet settled.
THEOREM CallsArePaid == Spec => []EachCallPaid
  <1>1. IInv => EachCallPaid
    BY DEF IInv, PaidInv, AttemptInv, EachCallPaid, ReservationKey
  <1> QED BY <1>1, BudgetInvariant, PTL

\* The order in which reserve locks its keys rules a deadlock out.
THEOREM LocksAdvance == Spec => []LocksNeverDeadlock
  <1>1. IInv => LocksNeverDeadlock
    BY SomeoneGoesOn
  <1> QED BY <1>1, BudgetInvariant, PTL

-----------------------------------------------------------------------------
(* Amounts, and their theorem.                                             *)

\* What is committed on a day, and in the month of a day.
DayTotal == [d \in Day |-> CommittedBy(OnDay(d))]
MonthTotal == [d \in Day |-> CommittedBy(InMonth(MonthOf[d]))]

\* What a transaction has found to fit still does when it decides, whatever
\* was settled since.
FindingsHold ==
    \A c \in Callers :
      /\ caller[c].phase \in {"reading", "deciding"} /\ caller[c].dayFits =>
           DayTotal[caller[c].day] + Price[caller[c].job] <= DailyAmount
      /\ caller[c].phase = "deciding" /\ caller[c].monthFits =>
           MonthTotal[caller[c].day] + Price[caller[c].job] <= MonthlyAmount

AmountInv == AmountsWithinLimits /\ FindingsHold

\* No row commits more than it is charged.
LEMMA CommittedIsCharged ==
    ASSUME NEW r \in Reservation
    PROVE  Committed(r) \in Nat /\ Charge(r) \in Nat /\ Committed(r) <= Charge(r)
  BY NullAssumption DEF Reservation, Committed, Charge

\* Neither does a set of rows.
LEMMA CommittedIsSpent ==
    ASSUME IInv, NEW S \in SUBSET Made
    PROVE  CommittedBy(S) \in Nat /\ Spent(S) \in Nat /\ CommittedBy(S) <= Spent(S)
  <1>1. reservations \in [Made -> Reservation] /\ IsFiniteSet(S)
    BY FS_Subset DEF IInv, TypeOK, Made
  <1>2. PICK f : f = [k \in Made |-> Committed(reservations[k])]
    OBVIOUS
  <1>3. PICK g : g = [k \in Made |-> Charge(reservations[k])]
    OBVIOUS
  <1>4. \A k \in S : f[k] \in Nat /\ g[k] \in Nat /\ f[k] <= g[k]
    BY <1>1, <1>2, <1>3, CommittedIsCharged
  <1>5. /\ SumFunctionOnSet(f, S) \in Nat /\ SumFunctionOnSet(g, S) \in Nat
        /\ SumFunctionOnSet(f, S) <= SumFunctionOnSet(g, S)
    BY <1>1, <1>4, SumIsNat, SumGrows
  <1> QED
    BY <1>2, <1>3, <1>5 DEF CommittedBy, Spent

LEMMA FitsAmounts ==
    ASSUME IInv, NEW c \in Callers, caller[c].job \in Jobs
    PROVE  /\ FitsDay(caller[c]) => DayTotal[caller[c].day] + Price[caller[c].job] <= DailyAmount
           /\ FitsMonth(caller[c]) =>
                MonthTotal[caller[c].day] + Price[caller[c].job] <= MonthlyAmount
  <1>1. OnDay(caller[c].day) \in SUBSET Made /\ InMonth(MonthOf[caller[c].day]) \in SUBSET Made
    BY DEF OnDay, InMonth
  <1>2. \A S \in SUBSET Made :
          CommittedBy(S) \in Nat /\ Spent(S) \in Nat /\ CommittedBy(S) <= Spent(S)
    BY CommittedIsSpent
  <1>3. Price[caller[c].job] \in Nat /\ DailyAmount \in Nat /\ MonthlyAmount \in Nat
    BY PriceAssumption, LimitsAssumption
  <1>4. /\ DayTotal[caller[c].day] = CommittedBy(OnDay(caller[c].day))
        /\ MonthTotal[caller[c].day] = CommittedBy(InMonth(MonthOf[caller[c].day]))
    BY DEF IInv, TypeOK, CallerRec, DayTotal, MonthTotal
  <1> QED
    BY <1>1, <1>2, <1>3, <1>4 DEF FitsDay, FitsMonth

\* While no row is inserted, and none commits more than before, no sum grows.
LEMMA NothingAdded ==
    ASSUME IInv, IInv', Made' = Made, \A k \in Made : reservations'[k].day = reservations[k].day,
           \A k \in Made : Committed(reservations'[k]) <= Committed(reservations[k]),
           NEW d \in Day
    PROVE  /\ DayTotal[d] \in Nat /\ DayTotal'[d] \in Nat /\ DayTotal'[d] <= DayTotal[d]
           /\ MonthTotal[d] \in Nat /\ MonthTotal'[d] \in Nat /\ MonthTotal'[d] <= MonthTotal[d]
  <1>1. /\ reservations \in [Made -> Reservation] /\ reservations' \in [Made -> Reservation]
        /\ IsFiniteSet(Made)
    BY DEF IInv, TypeOK, Made
  <1>2. PICK f : f = [k \in Made |-> Committed(reservations'[k])]
    OBVIOUS
  <1>3. PICK g : g = [k \in Made |-> Committed(reservations[k])]
    OBVIOUS
  <1>4. \A k \in Made : f[k] \in Nat /\ g[k] \in Nat /\ f[k] <= g[k]
    BY <1>1, <1>2, <1>3, CommittedIsCharged
  <1>5. ASSUME NEW S \in SUBSET Made
        PROVE  /\ SumFunctionOnSet(f, S) \in Nat /\ SumFunctionOnSet(g, S) \in Nat
               /\ SumFunctionOnSet(f, S) <= SumFunctionOnSet(g, S)
    <2>1. IsFiniteSet(S) /\ \A k \in S : f[k] \in Nat /\ g[k] \in Nat /\ f[k] <= g[k]
      BY <1>1, <1>4, FS_Subset
    <2> QED
      BY <2>1, SumIsNat, SumGrows
  <1> DEFINE month == MonthOf[d]
  <1>6. /\ OnDay(d)' = OnDay(d) /\ OnDay(d) \in SUBSET Made
        /\ InMonth(month)' = InMonth(month) /\ InMonth(month) \in SUBSET Made
    <2>1. OnDay(d)' = OnDay(d) /\ InMonth(month)' = InMonth(month)
      BY SameDays
    <2> QED
      BY <2>1 DEF OnDay, InMonth
  <1>7. /\ DayTotal[d] = SumFunctionOnSet(g, OnDay(d))
        /\ MonthTotal[d] = SumFunctionOnSet(g, InMonth(month))
    BY <1>3 DEF DayTotal, MonthTotal, CommittedBy
  <1>8. /\ DayTotal'[d] = SumFunctionOnSet(f, OnDay(d))
        /\ MonthTotal'[d] = SumFunctionOnSet(f, InMonth(month))
    BY <1>2, <1>6 DEF DayTotal, MonthTotal, CommittedBy
  <1> QED
    BY <1>5, <1>6, <1>7, <1>8

\* What a thread has found is so before the step, for the call it goes on with.
StillFits(c) ==
    \/ caller'[c].phase \in {"idle", "locking", "sending"}
    \/ /\ caller'[c].day = caller[c].day /\ caller'[c].job = caller[c].job
       /\ caller[c].job \in Jobs
       /\ caller'[c].dayFits => DayTotal[caller[c].day] + Price[caller[c].job] <= DailyAmount
       /\ caller'[c].phase = "deciding" /\ caller'[c].monthFits =>
            MonthTotal[caller[c].day] + Price[caller[c].job] <= MonthlyAmount

LEMMA AmountsKept ==
    ASSUME IInv, IInv', AmountInv,
           Made' = Made, \A k \in Made : reservations'[k].day = reservations[k].day,
           \A k \in Made : Committed(reservations'[k]) <= Committed(reservations[k]),
           \A c \in Callers : StillFits(c)
    PROVE  AmountInv'
  <1>1. \A d \in Day :
          /\ DayTotal[d] \in Nat /\ DayTotal'[d] \in Nat /\ DayTotal'[d] <= DayTotal[d]
          /\ MonthTotal[d] \in Nat /\ MonthTotal'[d] \in Nat /\ MonthTotal'[d] <= MonthTotal[d]
    BY NothingAdded
  <1>2. DailyAmount \in Nat /\ MonthlyAmount \in Nat /\ \A j \in Jobs : Price[j] \in Nat
    BY LimitsAssumption, PriceAssumption
  <1>3. AmountsWithinLimits'
    <2>1. \A d \in Day : DayTotal[d] <= DailyAmount /\ MonthTotal[d] <= MonthlyAmount
      BY DEF AmountInv, AmountsWithinLimits, DayTotal, MonthTotal
    <2>2. \A d \in Day : DayTotal'[d] <= DailyAmount /\ MonthTotal'[d] <= MonthlyAmount
      BY <1>1, <1>2, <2>1
    <2> QED
      BY <2>2 DEF AmountsWithinLimits, DayTotal, MonthTotal
  <1>4. FindingsHold'
    <2>1. ASSUME NEW c \in Callers, caller'[c].phase \in {"reading", "deciding"}
          PROVE  /\ caller'[c].dayFits =>
                      DayTotal'[caller'[c].day] + Price[caller'[c].job] <= DailyAmount
                 /\ caller'[c].phase = "deciding" /\ caller'[c].monthFits =>
                      MonthTotal'[caller'[c].day] + Price[caller'[c].job] <= MonthlyAmount
      <3> PICK d : d = caller[c].day
        OBVIOUS
      <3> PICK price : price = Price[caller[c].job]
        OBVIOUS
      <3>1. /\ caller'[c].day = d /\ d \in Day /\ Price[caller'[c].job] = price /\ price \in Nat
            /\ caller'[c].dayFits => DayTotal[d] + price <= DailyAmount
            /\ caller'[c].phase = "deciding" /\ caller'[c].monthFits =>
                 MonthTotal[d] + price <= MonthlyAmount
        BY <1>2, <2>1 DEF StillFits, IInv, TypeOK, CallerRec
      <3>2. caller'[c].dayFits => DayTotal'[d] + price <= DailyAmount
        BY <1>1, <1>2, <3>1
      <3>3. caller'[c].phase = "deciding" /\ caller'[c].monthFits =>
              MonthTotal'[d] + price <= MonthlyAmount
        BY <1>1, <1>2, <3>1
      <3> QED
        BY <3>1, <3>2, <3>3
    <2> QED
      BY <2>1 DEF FindingsHold
  <1> QED
    BY <1>3, <1>4 DEF AmountInv

\* Whoever does not read goes on with what was found.
LEMMA UnreadFits ==
    ASSUME IInv, AmountInv, NEW c \in Callers,
           \/ caller'[c] = caller[c]
           \/ caller'[c].phase \in {"idle", "locking", "sending"}
    PROVE  StillFits(c)
  <1>1. CASE caller'[c] = caller[c] /\ caller'[c].phase \in {"reading", "deciding"}
    BY <1>1 DEF AmountInv, FindingsHold, StillFits, IInv, AttemptInv
  <1>2. CASE caller'[c].phase \in {"idle", "locking", "sending"}
    BY <1>2 DEF StillFits
  <1>3. caller'[c] = caller[c] =>
          caller'[c].phase \in {"idle", "locking", "sending", "reading", "deciding"}
    BY DEF IInv, TypeOK, CallerRec, Phase
  <1> QED
    BY <1>1, <1>2, <1>3

LEMMA SameRows ==
    ASSUME IInv, IInv', AmountInv, reservations' = reservations, \A c \in Callers : StillFits(c)
    PROVE  AmountInv'
  <1>1. Made' = Made /\ reservations \in [Made -> Reservation]
    BY DEF Made, IInv, TypeOK
  <1>2. \A k \in Made : Committed(reservations'[k]) <= Committed(reservations[k])
    BY <1>1, CommittedIsCharged
  <1> QED
    BY <1>1, <1>2, AmountsKept

LEMMA ReadDayAmounts ==
    ASSUME IInv, IInv', AmountInv, NEW c \in Callers, ReadDay(c) PROVE AmountInv'
  <1>1. /\ caller[c] \in CallerRec /\ caller[c].phase = "locking" /\ caller[c].job \in Jobs
        /\ <<caller[c].job, caller[c].attempt>> \notin Made
        /\ caller \in [Callers -> CallerRec]
    BY DEF IInv, TypeOK, AttemptInv, ReadDay
  <1>2. /\ caller' = [caller EXCEPT ![c] =
                        [caller[c] EXCEPT !.phase = "reading", !.dayFits = FitsDay(caller[c])]]
        /\ reservations' = reservations
    BY <1>1 DEF ReadDay, ReservationKey
  <1>3. StillFits(c)
    <2>1. /\ caller'[c].phase = "reading" /\ caller'[c].day = caller[c].day
          /\ caller'[c].job = caller[c].job /\ caller'[c].dayFits = FitsDay(caller[c])
      BY <1>1, <1>2 DEF CallerRec
    <2> QED
      BY <1>1, <2>1, FitsAmounts DEF StillFits
  <1>4. \A d \in Callers : StillFits(d)
    <2>1. \A d \in Callers : d # c => caller'[d] = caller[d]
      BY <1>1, <1>2
    <2> QED
      BY <1>3, <2>1, UnreadFits
  <1> QED
    BY <1>2, <1>4, SameRows

LEMMA ReadMonthAmounts ==
    ASSUME IInv, IInv', AmountInv, NEW c \in Callers, ReadMonth(c) PROVE AmountInv'
  <1>1. /\ caller[c] \in CallerRec /\ caller[c].phase = "reading" /\ caller[c].job \in Jobs
        /\ caller \in [Callers -> CallerRec]
    BY DEF IInv, TypeOK, AttemptInv, ReadMonth
  <1>2. /\ caller' = [caller EXCEPT ![c] =
                        [caller[c] EXCEPT !.phase = "deciding", !.monthFits = FitsMonth(caller[c])]]
        /\ reservations' = reservations
    BY DEF ReadMonth
  <1>3. StillFits(c)
    <2>1. /\ caller'[c].phase = "deciding" /\ caller'[c].day = caller[c].day
          /\ caller'[c].job = caller[c].job /\ caller'[c].dayFits = caller[c].dayFits
          /\ caller'[c].monthFits = FitsMonth(caller[c])
      BY <1>1, <1>2 DEF CallerRec
    <2>2. caller[c].dayFits => DayTotal[caller[c].day] + Price[caller[c].job] <= DailyAmount
      BY <1>1 DEF AmountInv, FindingsHold
    <2> QED
      BY <1>1, <2>1, <2>2, FitsAmounts DEF StillFits
  <1>4. \A d \in Callers : StillFits(d)
    <2>1. \A d \in Callers : d # c => caller'[d] = caller[d]
      BY <1>1, <1>2
    <2> QED
      BY <1>3, <2>1, UnreadFits
  <1> QED
    BY <1>2, <1>4, SameRows

\* A settlement commits no more than the reservation did.
LEMMA SettleAmounts ==
    ASSUME IInv, IInv', AmountInv, NEW c \in Callers, Settle(c) PROVE AmountInv'
  <1> DEFINE key == <<caller[c].job, caller[c].attempt>>
  <1>1. /\ caller[c].phase = "sending" /\ caller[c].job \in Jobs /\ key \in Made
        /\ reservations[key].settled = Null
        /\ reservations \in [Made -> Reservation] /\ caller \in [Callers -> CallerRec]
    BY DEF IInv, TypeOK, AttemptInv, PaidInv, Settle, Made
  <1>2. PICK cost \in Costs \cup {Price[caller[c].job]} :
          reservations' = [reservations EXCEPT ![key] = [reservations[key] EXCEPT !.settled = cost]]
    BY <1>1 DEF Settle, ReservationKey
  <1>3. cost \in Nat
    BY <1>1, PriceAssumption
  <1>4. /\ Made' = Made
        /\ \A k \in Made : reservations'[k].day = reservations[k].day
        /\ \A k \in Made : k # key => reservations'[k] = reservations[k]
        /\ reservations'[key].settled = cost
        /\ reservations'[key].amount = reservations[key].amount
    BY <1>1, <1>2 DEF Made, Reservation
  <1>5. ASSUME NEW k \in Made PROVE Committed(reservations'[k]) <= Committed(reservations[k])
    <2>1. CASE k # key
      BY <1>1, <1>4, <2>1, CommittedIsCharged
    <2>2. CASE k = key
      <3>1. reservations[key].amount \in Nat
        BY <1>1 DEF Reservation
      <3> HIDE DEF key
      <3> QED
        BY <1>1, <1>3, <1>4, <2>2, <3>1, NullAssumption DEF Committed
    <2> QED
      BY <2>1, <2>2
  <1>6. \A d \in Callers : StillFits(d)
    <2>1. caller' = [caller EXCEPT ![c] = Idle]
      BY DEF Settle
    <2>2. Idle.phase = "idle"
      BY DEF Idle, Call
    <2>3. \A d \in Callers : caller'[d] = caller[d] \/ caller'[d].phase = "idle"
      BY <1>1, <2>1, <2>2
    <2> QED
      BY <2>3, UnreadFits
  <1> HIDE DEF key
  <1> QED
    BY <1>4, <1>5, <1>6, AmountsKept

\* A reservation is inserted only where it fits, and its day and its month are
\* nobody else's until then.
LEMMA InsertAmounts ==
    ASSUME IInv, IInv', AmountInv, NEW c \in Callers, Reserve(c), Affordable(caller[c])
    PROVE  AmountInv'
  <1>k. PICK key : key = <<caller[c].job, caller[c].attempt>>
    OBVIOUS
  <1>r. PICK row : row = [day |-> caller[c].day, amount |-> Price[caller[c].job], settled |-> Null]
    OBVIOUS
  <1>p. PICK price : price = Price[caller[c].job]
    OBVIOUS
  <1>1. /\ caller[c] \in CallerRec /\ caller[c].phase = "deciding" /\ caller[c].job \in Jobs
        /\ key \notin Made /\ caller[c].dayFits /\ caller[c].monthFits
        /\ caller \in [Callers -> CallerRec] /\ caller[c].day \in Day
    BY <1>k DEF IInv, TypeOK, AttemptInv, Reserve, Affordable, CallerRec
  <1>2. /\ reservations' = [k \in Made \cup {key} |->
                              IF k \in Made THEN reservations[k] ELSE row]
        /\ caller' = [caller EXCEPT ![c] = Call("sending", caller[c].job, caller[c].attempt, 1)]
    BY <1>k, <1>r DEF Reserve, Commits, Sending, ReservationKey
  <1>3. /\ Made' = Made \cup {key}
        /\ reservations'[key] = row
        /\ \A x \in Made : reservations'[x] = reservations[x]
        /\ \A d : OnDay(d)' = OnDay(d) \cup (IF row.day = d THEN {key} ELSE {})
        /\ \A m : InMonth(m)' = InMonth(m) \cup (IF MonthOf[row.day] = m THEN {key} ELSE {})
        /\ \A s : OfMatch(s)' = OfMatch(s) \cup (IF ScopeOf[key[1]] = s THEN {key} ELSE {})
    BY <1>1, <1>2, Inserted
  <1>4. /\ row.day = caller[c].day
        /\ Committed(row) = price /\ price \in Nat
        /\ DailyAmount \in Nat /\ MonthlyAmount \in Nat
    BY <1>1, <1>r, <1>p, PriceAssumption, LimitsAssumption DEF Committed
  <1>5. /\ reservations \in [Made -> Reservation] /\ IsFiniteSet(Made)
        /\ \A d : OnDay(d) \in SUBSET Made /\ \A m : InMonth(m) \in SUBSET Made
    BY DEF IInv, TypeOK, Made, OnDay, InMonth
  <1>6. PICK f : f = [k \in Made' |-> Committed(reservations'[k])]
    OBVIOUS
  <1>7. PICK g : g = [k \in Made |-> Committed(reservations[k])]
    OBVIOUS
  <1>8. /\ f[key] = price
        /\ \A k \in Made : f[k] \in Nat /\ g[k] \in Nat /\ f[k] = g[k]
    BY <1>3, <1>4, <1>5, <1>6, <1>7, CommittedIsCharged
  <1>9. ASSUME NEW S \in SUBSET Made
        PROVE  /\ SumFunctionOnSet(f, S) \in Nat
               /\ SumFunctionOnSet(f, S) = SumFunctionOnSet(g, S)
               /\ SumFunctionOnSet(f, S \cup {key}) = price + SumFunctionOnSet(g, S)
    <2>1. IsFiniteSet(S) /\ IsFiniteSet(S \cup {key})
      BY <1>5, FS_Subset, FS_AddElement
    <2>2. \A k \in S : f[k] \in Nat /\ g[k] \in Nat /\ f[k] <= g[k] /\ g[k] <= f[k]
      BY <1>8
    <2>3. /\ SumFunctionOnSet(f, S) \in Nat /\ SumFunctionOnSet(g, S) \in Nat
          /\ SumFunctionOnSet(f, S) <= SumFunctionOnSet(g, S)
          /\ SumFunctionOnSet(g, S) <= SumFunctionOnSet(f, S)
      BY <2>1, <2>2, SumIsNat, SumGrows
    <2>4. SumFunctionOnSet(f, S \cup {key}) = f[key] + SumFunctionOnSet(f, (S \cup {key}) \ {key})
      <3>1. \A k \in S \cup {key} : f[k] \in Nat
        BY <1>4, <1>8, <2>2
      <3> QED
        BY <2>1, <3>1, SumSplit
    <2>5. (S \cup {key}) \ {key} = S
      BY <1>1
    <2>6. SumFunctionOnSet(f, S) = SumFunctionOnSet(g, S)
      BY <2>3
    <2>7. SumFunctionOnSet(f, S \cup {key}) = price + SumFunctionOnSet(g, S)
      BY <1>8, <2>4, <2>5, <2>6
    <2> QED
      BY <2>3, <2>6, <2>7
  <1>10. ASSUME NEW d \in Day
         PROVE  /\ DayTotal[d] \in Nat /\ MonthTotal[d] \in Nat
                /\ DayTotal'[d] = IF d = caller[c].day THEN price + DayTotal[d] ELSE DayTotal[d]
                /\ MonthTotal'[d] = IF MonthOf[d] = MonthOf[caller[c].day]
                                    THEN price + MonthTotal[d] ELSE MonthTotal[d]
    <2> PICK month : month = MonthOf[d]
      OBVIOUS
    <2>1. /\ DayTotal[d] = SumFunctionOnSet(g, OnDay(d))
          /\ MonthTotal[d] = SumFunctionOnSet(g, InMonth(month))
      BY <1>7 DEF DayTotal, MonthTotal, CommittedBy
    <2>2. /\ DayTotal'[d] = SumFunctionOnSet(f, OnDay(d)')
          /\ MonthTotal'[d] = SumFunctionOnSet(f, InMonth(month)')
      BY <1>6 DEF DayTotal, MonthTotal, CommittedBy
    <2>3. /\ d = caller[c].day => OnDay(d)' = OnDay(d) \cup {key}
          /\ d # caller[c].day => OnDay(d)' = OnDay(d)
          /\ month = MonthOf[caller[c].day] => InMonth(month)' = InMonth(month) \cup {key}
          /\ month # MonthOf[caller[c].day] => InMonth(month)' = InMonth(month)
      BY <1>3, <1>4
    <2>4. /\ SumFunctionOnSet(f, OnDay(d)) \in Nat
          /\ SumFunctionOnSet(f, OnDay(d)) = SumFunctionOnSet(g, OnDay(d))
          /\ SumFunctionOnSet(f, OnDay(d) \cup {key}) = price + SumFunctionOnSet(g, OnDay(d))
      BY <1>5, <1>9
    <2>5. /\ SumFunctionOnSet(f, InMonth(month)) \in Nat
          /\ SumFunctionOnSet(f, InMonth(month)) = SumFunctionOnSet(g, InMonth(month))
          /\ SumFunctionOnSet(f, InMonth(month) \cup {key}) = price + SumFunctionOnSet(g, InMonth(month))
      BY <1>5, <1>9
    <2> QED
      BY <2>1, <2>2, <2>3, <2>4, <2>5
  <1>11. /\ DayTotal[caller[c].day] + price <= DailyAmount
         /\ MonthTotal[caller[c].day] + price <= MonthlyAmount
    BY <1>1, <1>p DEF AmountInv, FindingsHold
  <1>12. \A d \in Day : MonthOf[d] = MonthOf[caller[c].day] =>
           MonthTotal[d] = MonthTotal[caller[c].day]
    BY <1>1 DEF MonthTotal
  <1>13. AmountsWithinLimits'
    <2>1. \A d \in Day : DayTotal[d] <= DailyAmount /\ MonthTotal[d] <= MonthlyAmount
      BY DEF AmountInv, AmountsWithinLimits, DayTotal, MonthTotal
    <2>2. ASSUME NEW d \in Day PROVE DayTotal'[d] <= DailyAmount /\ MonthTotal'[d] <= MonthlyAmount
      <3>1. CASE d = caller[c].day
        BY <1>4, <1>10, <1>11, <3>1
      <3>2. CASE d # caller[c].day /\ MonthOf[d] = MonthOf[caller[c].day]
        BY <1>4, <1>10, <1>11, <1>12, <2>1, <3>2
      <3>3. CASE d # caller[c].day /\ MonthOf[d] # MonthOf[caller[c].day]
        BY <1>10, <2>1, <3>3
      <3> QED
        BY <3>1, <3>2, <3>3
    <2> QED
      BY <2>2 DEF AmountsWithinLimits, DayTotal, MonthTotal
  <1>14. FindingsHold'
    <2>1. caller'[c].phase = "sending"
      BY <1>1, <1>2 DEF Call
    <2>2. ASSUME NEW e \in Callers, caller'[e].phase \in {"reading", "deciding"}
          PROVE  /\ caller'[e].dayFits =>
                      DayTotal'[caller'[e].day] + Price[caller'[e].job] <= DailyAmount
                 /\ caller'[e].phase = "deciding" /\ caller'[e].monthFits =>
                      MonthTotal'[caller'[e].day] + Price[caller'[e].job] <= MonthlyAmount
      <3>1. e # c /\ caller'[e] = caller[e]
        BY <1>1, <1>2, <2>1, <2>2
      <3>2. /\ caller[e].day # caller[c].day /\ caller[e].day \in Day
            /\ caller[e].phase = "deciding" => MonthOf[caller[e].day] # MonthOf[caller[c].day]
        BY <1>1, <2>2, <3>1, OneDecides DEF CallerRec
      <3>3. /\ DayTotal'[caller[e].day] = DayTotal[caller[e].day]
            /\ caller[e].phase = "deciding" =>
                 MonthTotal'[caller[e].day] = MonthTotal[caller[e].day]
        BY <1>10, <3>2
      <3> QED
        BY <2>2, <3>1, <3>3 DEF AmountInv, FindingsHold
    <2> QED
      BY <2>2 DEF FindingsHold
  <1> QED
    BY <1>13, <1>14 DEF AmountInv

\* Nobody reads, and no row changes.
LEMMA UnreadAmounts ==
    ASSUME IInv, IInv', AmountInv, reservations' = reservations,
           \A d \in Callers : \/ caller'[d] = caller[d]
                              \/ caller'[d].phase \in {"idle", "locking", "sending"}
    PROVE  AmountInv'
  <1>1. \A d \in Callers : StillFits(d)
    BY UnreadFits
  <1> QED
    BY <1>1, SameRows

\* One thread goes on, to a phase in which nothing has been read.
LEMMA OneGoesOn ==
    ASSUME IInv, IInv', AmountInv, reservations' = reservations, NEW c \in Callers, NEW next,
           caller' = [caller EXCEPT ![c] = next], next.phase \in {"idle", "locking", "sending"}
    PROVE  AmountInv'
  <1>1. caller \in [Callers -> CallerRec]
    BY DEF IInv, TypeOK
  <1>2. \A d \in Callers : \/ caller'[d] = caller[d]
                           \/ caller'[d].phase \in {"idle", "locking", "sending"}
    BY <1>1
  <1> QED
    BY <1>2, UnreadAmounts

LEMMA OtherAmounts ==
    ASSUME IInv, IInv', AmountInv,
           \/ Midnight
           \/ \E c \in Callers : \/ \E j \in Jobs : StartCall(c, j)
                                 \/ TakeLock(c) \/ Crash(c)
                                 \/ Reserve(c) /\ ~ Affordable(caller[c])
           \/ UNCHANGED vars
    PROVE  AmountInv'
  <1>1. CASE Midnight \/ UNCHANGED vars
    <2>1. reservations' = reservations /\ caller' = caller
      BY <1>1 DEF Midnight, vars
    <2> QED
      BY <2>1, UnreadAmounts
  <1>2. ASSUME NEW c \in Callers, NEW j \in Jobs, StartCall(c, j) PROVE AmountInv'
    <2>1. PICK next : next = Call("locking", j, attempts[j] + 1, today)
      OBVIOUS
    <2>2. /\ reservations' = reservations /\ caller' = [caller EXCEPT ![c] = next]
          /\ next.phase = "locking"
      BY <1>2, <2>1 DEF StartCall, Call
    <2> QED
      BY <2>2, OneGoesOn
  <1>3. ASSUME NEW c \in Callers, TakeLock(c) PROVE AmountInv'
    <2>1. PICK next : next = [caller[c] EXCEPT !.held = @ + 1]
      OBVIOUS
    <2>2. /\ reservations' = reservations /\ caller' = [caller EXCEPT ![c] = next]
          /\ caller[c].phase = "locking"
      BY <1>3, <2>1 DEF TakeLock
    <2>3. caller[c] \in CallerRec
      BY DEF IInv, TypeOK
    <2>4. next.phase = "locking"
      BY <2>1, <2>2, <2>3 DEF CallerRec
    <2> QED
      BY <2>2, <2>4, OneGoesOn
  <1>4. ASSUME NEW c \in Callers, Crash(c) \/ (Reserve(c) /\ ~ Affordable(caller[c]))
        PROVE  AmountInv'
    <2>1. reservations' = reservations /\ caller' = [caller EXCEPT ![c] = Idle]
      BY <1>4 DEF Crash, Reserve, Commits
    <2>2. Idle.phase = "idle"
      BY DEF Idle, Call
    <2> QED
      BY <2>1, <2>2, OneGoesOn
  <1> QED
    BY <1>1, <1>2, <1>3, <1>4

LEMMA AmountStep ==
    ASSUME IInv, IInv', AmountInv, [Next]_vars PROVE AmountInv'
  <1> QED
    BY ReadDayAmounts, ReadMonthAmounts, SettleAmounts, InsertAmounts, OtherAmounts DEF Next

LEMMA NoAmounts == Init => AmountInv
  <1> SUFFICES ASSUME Init PROVE AmountInv
    OBVIOUS
  <1>1. Made = {} /\ \A d : OnDay(d) = {} /\ \A m : InMonth(m) = {}
    BY DEF Init, Made, OnDay, InMonth
  <1>2. CommittedBy({}) = 0
    BY FS_EmptySet, SumRule DEF CommittedBy
  <1>3. AmountsWithinLimits
    BY <1>1, <1>2, LimitsAssumption DEF AmountsWithinLimits
  <1>4. \A c \in Callers : caller[c].phase = "idle"
    BY DEF Init, Idle, Call
  <1> QED
    BY <1>3, <1>4 DEF AmountInv, FindingsHold

\* A day's or month's amount is exceeded at most by what calls cost beyond
\* their reservation, although sums are read one after the other and
\* settlements commit in between (budget.reserve, budget.settle).
THEOREM AmountsHold == Spec => []AmountsWithinLimits
  <1>1. Init => AmountInv
    BY NoAmounts
  <1>2. IInv /\ IInv' /\ AmountInv /\ [Next]_vars => AmountInv'
    BY AmountStep
  <1>3. AmountInv => AmountsWithinLimits
    BY DEF AmountInv
  <1> QED
    BY <1>1, <1>2, <1>3, BudgetInvariant, PTL DEF Spec
=============================================================================
