--------------------------- MODULE OperatorProofs ---------------------------
(***************************************************************************)
(* What the operator is told and what a client reads: AlertsNotLost for    *)
(* any number of dispatchers, checks and reports, however often they die;  *)
(* WalksTrue for any tables, any queries and any number of writes.         *)
(*                                                                         *)
(* The invariant of the dispatch follows the letters, that is, what was    *)
(* posted and what is about to be: a letter names an episode that its row  *)
(* has reached, and while the row still is in that episode and alerting,   *)
(* no recovery came between (Known).  A reservation that is still its      *)
(* holder's names the episode of the row (Holding).                        *)
(*                                                                         *)
(* The invariant of the walk is that it has shown the first items of the   *)
(* listing of the tables it began with, and that its cursor names the last *)
(* of them and the fingerprint of those tables (Walking).  The tables only *)
(* grow, so equal counts leave no room for a change (RevisionTells), and   *)
(* the next page of what the fingerprint admits is the next page of that   *)
(* same listing (ReadFollows).                                             *)
(***************************************************************************)
EXTENDS HealthDispatch, ReadApi, SetSums, SequenceTheorems, TLAPS


RowFields == {"fingerprint", "disposition", "token", "until", "latest", "status", "episode"}

IsRow(row) ==
    /\ row = [f \in RowFields |-> row[f]]
    /\ row.latest \in Int
    /\ row.episode \in Nat

DispatcherFields == {"report", "todo", "phase", "check", "key", "occurrence"}

IsDispatcher(x) ==
    /\ x = [f \in DispatcherFields |-> x[f]]
    /\ x.phase # "idle" => x.report.at \in Int

\* What a start has to be: reports have a time, and Null is no process.
SoundStart(start) ==
    /\ Null \notin start.dispatchers
    /\ \A report \in start.reports : report.at \in Int

\* Null stands for the absent row, and so is none.
NullIsNoRow == \A row : IsRow(row) => row # Null

TypeOK ==
    /\ clock \in Int
    /\ \A report \in reports : report.at \in Int
    /\ alerts = [c \in DOMAIN alerts |-> alerts[c]]
    /\ \A c \in DOMAIN alerts : alerts[c] # Null => IsRow(alerts[c])
    /\ recoveries \in [DOMAIN alerts -> Nat]
    /\ dispatcher = [d \in DOMAIN dispatcher |-> dispatcher[d]]
    /\ Null \notin DOMAIN dispatcher
    /\ \A d \in DOMAIN dispatcher : IsDispatcher(dispatcher[d])

Sending == {"post", "mark", "release"}

\* What is posted, or may still be.
Letters ==
    posted \cup
    {[key |-> dispatcher[d].key, occurrence |-> dispatcher[d].occurrence] :
       d \in {e \in DOMAIN dispatcher : dispatcher[e].phase = "post"}}

Known(l) ==
    /\ l.key[1] \in DOMAIN alerts
    /\ alerts[l.key[1]] # Null
    /\ l.key[3] \in Nat
    /\ l.key[3] <= alerts[l.key[1]].episode
    /\ l.key[3] = alerts[l.key[1]].episode /\ alerts[l.key[1]].status # "ok" =>
         l.occurrence = recoveries[l.key[1]]

LettersKnown == \A l \in Letters : Known(l)

OneOccurrence ==
    \A l, m \in Letters :
      l.key[1] = m.key[1] /\ l.key[3] = m.key[3] => l.occurrence = m.occurrence

\* The row of c says sent only of what was posted.
Delivered ==
    \A c \in DOMAIN alerts :
      alerts[c] # Null /\ alerts[c].disposition = "sent" /\ alerts[c].status # "ok" =>
        \E p \in posted : p.key = <<c, alerts[c].fingerprint, alerts[c].episode>>

Holding(d) ==
    dispatcher[d].phase \in Sending =>
      /\ dispatcher[d].check \in DOMAIN alerts
      /\ alerts[dispatcher[d].check] # Null
      /\ /\ alerts[dispatcher[d].check].disposition = "pending"
         /\ alerts[dispatcher[d].check].token = d
         => dispatcher[d].key = <<dispatcher[d].check, alerts[dispatcher[d].check].fingerprint,
                                  alerts[dispatcher[d].check].episode>>
      /\ dispatcher[d].phase = "mark" => \E p \in posted : p.key = dispatcher[d].key

AllHolding == \A d \in DOMAIN dispatcher : Holding(d)

IInv == TypeOK /\ LettersKnown /\ OneOccurrence /\ Delivered /\ AllHolding

-----------------------------------------------------------------------------
(* Lemmas.                                                                 *)

\* A row goes on in its episode: it may recover, be sent, or lose its holder.
RowGoesOn(c) ==
    /\ alerts'[c] # Null => IsRow(alerts'[c])
    /\ alerts[c] = Null /\ alerts'[c] # Null => alerts'[c].status = "ok"
    /\ alerts[c] # Null =>
         /\ alerts'[c] # Null
         /\ alerts'[c].episode = alerts[c].episode
         /\ alerts'[c].status # "ok" =>
              alerts[c].status # "ok" /\ recoveries'[c] = recoveries[c]
         /\ alerts'[c].disposition = "pending" =>
              /\ alerts[c].disposition = "pending"
              /\ alerts'[c].fingerprint = alerts[c].fingerprint
              /\ alerts'[c].token \in {alerts[c].token, Null}
         /\ alerts'[c].disposition = "sent" /\ alerts'[c].status # "ok" =>
              \E p \in posted : p.key = <<c, alerts'[c].fingerprint, alerts'[c].episode>>

\* A row that is left alone goes on.
LEMMA Unmoved ==
    ASSUME IInv, NEW c \in DOMAIN alerts, alerts'[c] = alerts[c], recoveries'[c] = recoveries[c]
    PROVE  RowGoesOn(c)
BY DEF IInv, TypeOK, Delivered, RowGoesOn

\* The rows go on, and no dispatcher but d does more than it did, d less.
LEMMA GoesOn ==
    ASSUME IInv,
           NEW d \in DOMAIN dispatcher, NEW x, IsDispatcher(x), x.phase \notin Sending,
           dispatcher' = [dispatcher EXCEPT ![d] = x],
           alerts' = [c \in DOMAIN alerts |-> alerts'[c]],
           recoveries' \in [DOMAIN alerts -> Nat],
           \A c \in DOMAIN alerts : RowGoesOn(c),
           UNCHANGED <<clock, reports, posted>>
    PROVE  IInv'
<1> USE DEF IInv
<1>1. /\ DOMAIN alerts' = DOMAIN alerts
      /\ DOMAIN dispatcher' = DOMAIN dispatcher
      /\ dispatcher'[d] = x
      /\ \A e \in DOMAIN dispatcher \ {d} : dispatcher'[e] = dispatcher[e]
  BY DEF TypeOK
<1>2. TypeOK'
  <2>1. \A c \in DOMAIN alerts : alerts'[c] # Null => IsRow(alerts'[c])
    BY DEF RowGoesOn
  <2>2. \A e \in DOMAIN dispatcher : IsDispatcher(dispatcher'[e])
    BY <1>1 DEF TypeOK
  <2>3. dispatcher' = [e \in DOMAIN dispatcher' |-> dispatcher'[e]]
    BY <1>1
  <2> QED
    BY <1>1, <2>1, <2>2, <2>3 DEF TypeOK
<1>3. Letters' \subseteq Letters
  BY <1>1 DEF Letters, Sending
<1>4. LettersKnown'
  <2> SUFFICES ASSUME NEW l \in Letters PROVE Known(l)'
    BY <1>3 DEF LettersKnown
  <2>1. Known(l) /\ RowGoesOn(l.key[1])
    BY DEF LettersKnown, Known
  <2> QED
    BY <1>1, <2>1 DEF Known, RowGoesOn
<1>5. OneOccurrence'
  BY <1>3 DEF OneOccurrence
<1>6. Delivered'
  BY <1>1 DEF Delivered, RowGoesOn
<1>7. AllHolding'
  <2> SUFFICES ASSUME NEW e \in DOMAIN dispatcher, dispatcher'[e].phase \in Sending
               PROVE  Holding(e)'
    BY <1>1 DEF AllHolding, Holding
  <2>1. e # d /\ dispatcher'[e] = dispatcher[e] /\ Holding(e) /\ e # Null
    BY <1>1 DEF AllHolding, TypeOK
  <2>2. RowGoesOn(dispatcher[e].check) /\ dispatcher[e].check \in DOMAIN alerts
    BY <2>1 DEF Holding
  <2> QED
    BY <1>1, <2>1, <2>2 DEF Holding, RowGoesOn
<1> QED
  BY <1>2, <1>4, <1>5, <1>6, <1>7

\* The dispatcher that has finished a check is idle or goes to the next one.
LEMMA ProceedGoesOn ==
    ASSUME IInv, NEW d \in DOMAIN dispatcher, NEW c, Proceed(d, c),
           dispatcher[d].report.at \in Int
    PROVE  \E x : /\ IsDispatcher(x)
                  /\ x.phase \notin Sending
                  /\ dispatcher' = [dispatcher EXCEPT ![d] = x]
<1> DEFINE y == dispatcher[d]
           t == y.todo \ {c}
           p == "next"
           z == [y EXCEPT !.todo = t, !.phase = p, !.check = Null, !.key = Null]
<1>1. IsDispatcher(y)
  BY DEF IInv, TypeOK
<1>2. CASE y.todo = {c}
  <2>1. IsDispatcher(IdleDispatcher) /\ IdleDispatcher.phase \notin Sending
    BY DEF IsDispatcher, DispatcherFields, IdleDispatcher, Sending
  <2>2. dispatcher' = [dispatcher EXCEPT ![d] = IdleDispatcher]
    BY <1>2 DEF Proceed
  <2> QED
    BY <2>1, <2>2
<1>3. CASE y.todo # {c}
  <2>1. IsDispatcher(z) /\ z.phase = p
    <3>1. y.report.at \in Int
      OBVIOUS
    <3> HIDE DEF y, t, p
    <3>2. IsDispatcher(z)
      BY <1>1, <3>1 DEF IsDispatcher, DispatcherFields
    <3>3. z.phase = p
      BY <1>1 DEF IsDispatcher, DispatcherFields
    <3> QED
      BY <3>2, <3>3
  <2>2. dispatcher' = [dispatcher EXCEPT ![d] = z]
    BY <1>3 DEF Proceed
  <2> HIDE DEF z
  <2> QED
    BY <2>1, <2>2 DEF Sending
<1> QED
  BY <1>2, <1>3

-----------------------------------------------------------------------------
(* The steps.                                                              *)

LEMMA InitIInv ==
    ASSUME NEW starts, \A start \in starts : SoundStart(start), HealthInit(starts)
    PROVE  IInv
<1>1. PICK start \in starts :
        /\ clock = 0
        /\ reports = start.reports
        /\ alerts = [c \in start.checks |-> Null]
        /\ dispatcher = [d \in start.dispatchers |-> IdleDispatcher]
        /\ posted = {}
        /\ recoveries = [c \in start.checks |-> 0]
  BY DEF HealthInit
<1>2. IsDispatcher(IdleDispatcher) /\ IdleDispatcher.phase = "idle"
  BY DEF IsDispatcher, DispatcherFields, IdleDispatcher
<1>3. TypeOK
  BY <1>1, <1>2 DEF SoundStart, TypeOK
<1>4. Letters = {}
  BY <1>1, <1>2 DEF Letters
<1> QED
  BY <1>1, <1>2, <1>3, <1>4
  DEF IInv, LettersKnown, OneOccurrence, Delivered, AllHolding, Holding, Sending

\* What the invariant speaks of moves in no step of the monitor.
LEMMA MonitorStep ==
    ASSUME IInv, Pass \/ RecordHeartbeat \/ Spend \/ Collect \/ EvaluateHealth
    PROVE  IInv'
<1>1. UNCHANGED <<alerts, dispatcher, posted, recoveries>>
  BY DEF Pass, RecordHeartbeat, Spend, Collect, EvaluateHealth
<1>2. clock' \in Int
  BY DEF IInv, TypeOK, Pass, RecordHeartbeat, Spend, Collect, EvaluateHealth
<1>3. \A report \in reports' : report.at \in Int
  <2>1. ASSUME EvaluateHealth PROVE \A report \in reports' : report.at \in Int
    <3>1. Report(evidence, world.backups, clock).at = clock
      BY DEF Report, ReportOn, Reported
    <3> QED
      BY <2>1, <3>1 DEF EvaluateHealth, IInv, TypeOK
  <2>2. ASSUME UNCHANGED reports PROVE \A report \in reports' : report.at \in Int
    BY <2>2 DEF IInv, TypeOK
  <2> QED
    BY <2>1, <2>2 DEF Pass, RecordHeartbeat, Spend, Collect
<1>4. TypeOK'
  BY <1>1, <1>2, <1>3 DEF IInv, TypeOK
<1>5. Letters' = Letters
  BY <1>1 DEF Letters
<1>6. LettersKnown'
  BY <1>1, <1>5 DEF IInv, LettersKnown, Known
<1>7. OneOccurrence' /\ Delivered' /\ AllHolding'
  BY <1>1, <1>5 DEF IInv, OneOccurrence, Delivered, AllHolding, Holding
<1> QED
  BY <1>4, <1>6, <1>7 DEF IInv

\* What the invariant says of one dispatcher.
LEMMA OfDispatcher ==
    ASSUME IInv, NEW d \in DOMAIN dispatcher
    PROVE  /\ IsDispatcher(dispatcher[d])
           /\ Holding(d)
           /\ d # Null
           /\ dispatcher[d].phase # "idle" => dispatcher[d].report.at \in Int
BY DEF IInv, TypeOK, AllHolding, IsDispatcher

LEMMA StartStep ==
    ASSUME IInv, NEW d \in DOMAIN dispatcher, NEW report \in reports, Start(d, report)
    PROVE  IInv'
<1> DEFINE t == DOMAIN alerts
           p == "next"
           x == [IdleDispatcher EXCEPT !.report = report, !.todo = t, !.phase = p]
<1>1. IsDispatcher(x) /\ x.phase \notin Sending
  <2>1. IsDispatcher(IdleDispatcher)
    BY DEF IsDispatcher, DispatcherFields, IdleDispatcher
  <2>2. report.at \in Int /\ p \notin Sending
    BY DEF IInv, TypeOK, Sending
  <2> HIDE DEF t, p
  <2>3. IsDispatcher(x)
    BY <2>1, <2>2 DEF IsDispatcher, DispatcherFields
  <2>4. x.phase = p
    BY <2>1 DEF IsDispatcher, DispatcherFields
  <2> HIDE DEF x
  <2> QED
    BY <2>2, <2>3, <2>4
<1>2. dispatcher' = [dispatcher EXCEPT ![d] = x]
  BY DEF Start
<1>3. \A c \in DOMAIN alerts : RowGoesOn(c)
  BY Unmoved DEF Start
<1>4. /\ alerts' = [c \in DOMAIN alerts |-> alerts'[c]]
      /\ recoveries' \in [DOMAIN alerts -> Nat]
      /\ UNCHANGED <<clock, reports, posted>>
  BY DEF Start, IInv, TypeOK
<1> HIDE DEF x
<1> QED
  BY <1>1, <1>2, <1>3, <1>4, GoesOn

LEMMA DieStep ==
    ASSUME IInv, NEW d \in DOMAIN dispatcher, Die(d)
    PROVE  IInv'
<1>1. IsDispatcher(IdleDispatcher) /\ IdleDispatcher.phase \notin Sending
  BY DEF IsDispatcher, DispatcherFields, IdleDispatcher, Sending
<1>2. \A c \in DOMAIN alerts : RowGoesOn(c)
  BY Unmoved DEF Die
<1> QED
  BY <1>1, <1>2, GoesOn DEF Die, IInv, TypeOK

\* A dispatcher that proceeds after one row has gone on.
LEMMA ProceedStep ==
    ASSUME IInv, NEW d \in DOMAIN dispatcher, dispatcher[d].phase # "idle",
           NEW c \in DOMAIN alerts, Proceed(d, c), RowGoesOn(c),
           alerts' = [b \in DOMAIN alerts |-> alerts'[b]],
           recoveries' \in [DOMAIN alerts -> Nat],
           \A b \in DOMAIN alerts \ {c} :
             alerts'[b] = alerts[b] /\ recoveries'[b] = recoveries[b],
           UNCHANGED <<clock, reports, posted>>
    PROVE  IInv'
<1>1. \A b \in DOMAIN alerts : RowGoesOn(b)
  BY Unmoved
<1>2. PICK x : /\ IsDispatcher(x)
               /\ x.phase \notin Sending
               /\ dispatcher' = [dispatcher EXCEPT ![d] = x]
  BY OfDispatcher, ProceedGoesOn
<1> QED
  BY <1>1, <1>2, GoesOn

LEMMA RecordRecoveryStep ==
    ASSUME NullIsNoRow, IInv, NEW d \in DOMAIN dispatcher, NEW c \in DOMAIN alerts,
           RecordRecovery(d, c)
    PROVE  IInv'
<1> DEFINE at == dispatcher[d].report.at
           older == alerts[c] # Null /\ (alerts[c] # Null => at <= alerts[c].latest)
           row == [fingerprint |-> Null, disposition |-> "sent", token |-> Null,
                   until |-> Null, latest |-> at, status |-> "ok",
                   episode |-> IF alerts[c] = Null THEN 0 ELSE alerts[c].episode]
<1>1. dispatcher[d].phase # "idle" /\ at \in Int
  BY OfDispatcher DEF RecordRecovery
<1>2. CASE older
  <2>1. alerts' = alerts /\ recoveries' = recoveries
    BY <1>2 DEF RecordRecovery
  <2>2. RowGoesOn(c)
    BY <2>1, Unmoved
  <2> QED
    BY <1>1, <2>1, <2>2, ProceedStep DEF RecordRecovery, IInv, TypeOK
<1>3. CASE ~older
  <2>1. /\ alerts' = [alerts EXCEPT ![c] = row]
        /\ recoveries' = [recoveries EXCEPT ![c] = @ + 1]
    BY <1>3 DEF RecordRecovery
  <2>2. alerts[c] # Null => alerts[c].episode \in Nat
    BY DEF IInv, TypeOK, IsRow
  <2>3. IsRow(row)
    BY <1>1, <2>2 DEF IsRow, RowFields
  <2>4. row # Null
    BY <2>3 DEF NullIsNoRow
  <2>5. row.status = "ok" /\ row.disposition = "sent"
        /\ (alerts[c] # Null => row.episode = alerts[c].episode)
    OBVIOUS
  <2>6. alerts'[c] = row /\ \A b \in DOMAIN alerts \ {c} :
                              alerts'[b] = alerts[b] /\ recoveries'[b] = recoveries[b]
    BY <2>1 DEF IInv, TypeOK
  <2> HIDE DEF row
  <2>7. RowGoesOn(c)
    BY <2>3, <2>4, <2>5, <2>6 DEF RowGoesOn
  <2>8. /\ alerts' = [b \in DOMAIN alerts |-> alerts'[b]]
        /\ recoveries' \in [DOMAIN alerts -> Nat]
    <3>1. recoveries \in [DOMAIN alerts -> Nat] /\ alerts = [b \in DOMAIN alerts |-> alerts[b]]
      BY DEF IInv, TypeOK
    <3>2. recoveries' \in [DOMAIN alerts -> Nat]
      BY <2>1, <3>1
    <3>3. alerts' = [b \in DOMAIN alerts |-> alerts'[b]]
      BY <2>1, <3>1
    <3> QED
      BY <3>2, <3>3
  <2> QED
    BY <1>1, <2>6, <2>7, <2>8, ProceedStep DEF RecordRecovery
<1> QED
  BY <1>2, <1>3

\* A row that stays what it is but for fields the episode does not depend on.
LEMMA SuppressStep ==
    ASSUME NullIsNoRow, IInv, NEW d \in DOMAIN dispatcher, NEW c \in DOMAIN alerts,
           Suppress(d, c)
    PROVE  IInv'
<1> DEFINE at == dispatcher[d].report.at
           row == alerts[c]
           l == IF at > row.latest THEN at ELSE row.latest
           new == [row EXCEPT !.latest = l]
<1>1. dispatcher[d].phase # "idle" /\ at \in Int
  BY OfDispatcher DEF Suppress, Reservable
<1>2. row # Null /\ IsRow(row)
  BY DEF Suppress, IInv, TypeOK
<1>3. alerts' = [alerts EXCEPT ![c] = new] /\ recoveries' = recoveries
  BY DEF Suppress
<1>4. l \in Int
  BY <1>1, <1>2 DEF IsRow
<1>5. /\ IsRow(new)
      /\ \A f \in RowFields \ {"latest"} : new[f] = row[f]
  <2> HIDE DEF row, l
  <2> QED
    BY <1>2, <1>4 DEF IsRow, RowFields
<1>6. alerts'[c] = new /\ \A b \in DOMAIN alerts \ {c} : alerts'[b] = alerts[b]
  BY <1>3 DEF IInv, TypeOK
<1> HIDE DEF new
<1>7. new # Null
  BY <1>5 DEF NullIsNoRow
<1>8. RowGoesOn(c)
  <2>1. row.disposition = "sent" /\ row.status # "ok" =>
          \E p \in posted : p.key = <<c, row.fingerprint, row.episode>>
    BY <1>2 DEF IInv, Delivered
  <2>2. new.disposition = row.disposition /\ new.status = row.status /\ new.token = row.token
        /\ new.fingerprint = row.fingerprint /\ new.episode = row.episode
    BY <1>5 DEF RowFields
  <2> QED
    BY <1>2, <1>3, <1>5, <1>6, <1>7, <2>1, <2>2 DEF RowGoesOn
<1>9. alerts' = [b \in DOMAIN alerts |-> alerts'[b]] /\ recoveries' \in [DOMAIN alerts -> Nat]
  BY <1>3 DEF IInv, TypeOK
<1> QED
  BY <1>1, <1>3, <1>6, <1>8, <1>9, ProceedStep DEF Suppress

\* The reservation is given back, by the holder or by nobody.
LEMMA ReleaseStep ==
    ASSUME NullIsNoRow, IInv, NEW d \in DOMAIN dispatcher, ReleaseReservation(d)
    PROVE  IInv'
<1> DEFINE c == dispatcher[d].check
           row == alerts[c]
           new == [row EXCEPT !.token = Null, !.until = Null]
<1>1. /\ dispatcher[d].phase # "idle"
      /\ c \in DOMAIN alerts
      /\ row # Null
      /\ IsRow(row)
  BY OfDispatcher DEF ReleaseReservation, Holding, Sending, IInv, TypeOK
<1>2. /\ recoveries' = recoveries
      /\ recoveries' \in [DOMAIN alerts -> Nat]
      /\ alerts = [b \in DOMAIN alerts |-> alerts[b]]
  BY DEF ReleaseReservation, IInv, TypeOK
<1>3. CASE Reserved(d, c)
  <2>1. alerts' = [alerts EXCEPT ![c] = new]
    BY <1>3 DEF ReleaseReservation
  <2>2. /\ IsRow(new)
        /\ \A f \in RowFields \ {"token", "until"} : new[f] = row[f]
        /\ new.token = Null
    <3> HIDE DEF row
    <3> QED
      BY <1>1 DEF IsRow, RowFields
  <2>3. alerts'[c] = new /\ \A b \in DOMAIN alerts \ {c} : alerts'[b] = alerts[b]
    BY <1>1, <1>2, <2>1
  <2>4. alerts' = [b \in DOMAIN alerts |-> alerts'[b]]
    BY <1>2, <2>1
  <2> HIDE DEF new
  <2>5. new # Null
    BY <2>2 DEF NullIsNoRow
  <2>6. RowGoesOn(c)
    <3>1. new.disposition = "pending" /\ new.fingerprint = row.fingerprint
          /\ new.status = row.status /\ new.episode = row.episode
      BY <1>3, <2>2 DEF RowFields, Reserved
    <3> QED
      BY <1>1, <1>2, <1>3, <2>2, <2>3, <2>5, <3>1 DEF RowGoesOn, Reserved
  <2> HIDE DEF c
  <2> QED
    BY <1>1, <1>2, <2>3, <2>4, <2>6, ProceedStep DEF ReleaseReservation, c
<1>4. CASE ~Reserved(d, c)
  <2>1. alerts' = alerts
    BY <1>4 DEF ReleaseReservation
  <2>2. RowGoesOn(c)
    BY <1>1, <1>2, <2>1, Unmoved
  <2> QED
    BY <1>1, <1>2, <2>1, <2>2, ProceedStep DEF ReleaseReservation
<1> QED
  BY <1>3, <1>4

\* Marked by the holder of the reservation, whose letter was posted.
LEMMA MarkSentStep ==
    ASSUME NullIsNoRow, IInv, NEW d \in DOMAIN dispatcher, MarkSent(d)
    PROVE  IInv'
<1> DEFINE c == dispatcher[d].check
           row == alerts[c]
           p == "sent"
           new == [row EXCEPT !.disposition = p, !.token = Null, !.until = Null]
<1>1. /\ dispatcher[d].phase # "idle"
      /\ c \in DOMAIN alerts
      /\ row # Null
      /\ IsRow(row)
  BY OfDispatcher DEF MarkSent, Holding, Sending, IInv, TypeOK
<1>2. /\ recoveries' = recoveries
      /\ recoveries' \in [DOMAIN alerts -> Nat]
      /\ alerts = [b \in DOMAIN alerts |-> alerts[b]]
      /\ UNCHANGED <<clock, reports, posted>>
  BY DEF MarkSent, IInv, TypeOK
<1>3. CASE Reserved(d, c)
  <2>1. alerts' = [alerts EXCEPT ![c] = new]
    BY <1>3 DEF MarkSent, MarkedSent
  <2>2. /\ IsRow(new)
        /\ \A f \in RowFields \ {"disposition", "token", "until"} : new[f] = row[f]
        /\ new.disposition = p
    <3> HIDE DEF row, p
    <3> QED
      BY <1>1 DEF IsRow, RowFields
  <2>3. alerts'[c] = new /\ \A b \in DOMAIN alerts \ {c} : alerts'[b] = alerts[b]
    BY <1>1, <1>2, <2>1
  <2>4. alerts' = [b \in DOMAIN alerts |-> alerts'[b]]
    BY <1>2, <2>1
  <2> HIDE DEF new
  <2>5. new # Null
    BY <2>2 DEF NullIsNoRow
  <2>6. \E q \in posted : q.key = <<c, row.fingerprint, row.episode>>
    BY <1>3, OfDispatcher DEF Holding, Sending, MarkSent, Reserved
  <2>7. RowGoesOn(c)
    <3>1. new.disposition = "sent" /\ new.fingerprint = row.fingerprint
          /\ new.status = row.status /\ new.episode = row.episode
      BY <2>2 DEF RowFields
    <3> QED
      BY <1>1, <1>2, <2>2, <2>3, <2>5, <2>6, <3>1 DEF RowGoesOn
  <2>8. Proceed(d, c)
    BY DEF MarkSent
  <2> HIDE DEF c
  <2> QED
    BY <1>1, <1>2, <2>3, <2>4, <2>7, <2>8, ProceedStep
<1>4. CASE ~Reserved(d, c)
  <2>1. alerts' = alerts /\ Proceed(d, c)
    BY <1>4 DEF MarkSent, MarkedSent
  <2>2. RowGoesOn(c)
    BY <1>1, <1>2, <2>1, Unmoved
  <2> QED
    BY <1>1, <1>2, <2>1, <2>2, ProceedStep
<1> QED
  BY <1>3, <1>4

LEMMA LargerOfTwo ==
    ASSUME NEW m \in Nat
    PROVE  Max({1, m}) \in Nat /\ Max({1, m}) >= 1 /\ Max({1, m}) >= m /\ Max({1, m}) \in {1, m}
<1>1. \E x \in {1, m} : \A y \in {1, m} : x >= y
  <2>1. CASE m >= 1
    BY <2>1
  <2>2. CASE ~ (m >= 1)
    BY <2>2
  <2> QED
    BY <2>1, <2>2
<1>2. Max({1, m}) \in {1, m} /\ \A y \in {1, m} : Max({1, m}) >= y
  BY <1>1 DEF Max
<1> QED
  BY <1>2

\* A reservation stays in the episode only of an alert that goes on.
LEMMA EpisodeGoesOn ==
    ASSUME IInv, NEW d \in DOMAIN dispatcher, NEW c \in DOMAIN alerts, Reserve(d, c)
    PROVE  LET episode == Episode(alerts[c], dispatcher[d].report, c)
           IN  /\ episode \in Nat
               /\ alerts[c] # Null =>
                    /\ episode >= alerts[c].episode
                    /\ episode = alerts[c].episode => alerts[c].status # "ok"
<1> DEFINE report == dispatcher[d].report
           row == alerts[c]
           same == SameObservation(row, report, c)
           episode == Episode(row, report, c)
<1>1. report.at \in Int /\ report.checks[c].status # "ok"
  BY OfDispatcher DEF Reserve, Reservable, Ok
<1>2. CASE row = Null
  BY <1>2 DEF Episode
<1>3. CASE row # Null
  <2>1. IsRow(row) /\ ~Suppressed(row, report, c)
    BY <1>3 DEF IInv, TypeOK, Reserve
  <2>2. report.at >= row.latest /\ (~same => report.at > row.latest)
    BY <1>1, <2>1 DEF IsRow, Suppressed
  <2>3. same => row.status # "ok"
    BY <1>1 DEF SameObservation
  <2> DEFINE m == IF report.at > row.latest /\ ~same THEN row.episode + 1 ELSE row.episode
  <2>4. episode = Max({1, m}) /\ m \in Nat /\ row.episode \in Nat
    BY <1>3, <2>1 DEF Episode, IsRow
  <2>5. m >= row.episode /\ (~same => m = row.episode + 1)
    BY <2>2, <2>4
  <2>6. episode \in Nat /\ episode >= m /\ episode \in {1, m}
    <3> HIDE DEF m, episode, same
    <3> QED
      BY ONLY <2>4, LargerOfTwo
  <2>7. episode >= row.episode /\ (episode = row.episode => row.status # "ok")
    <3> HIDE DEF m, episode, same, row
    <3> QED
      BY ONLY <2>3, <2>4, <2>5, <2>6
  <2> QED
    BY <2>6, <2>7
<1> QED
  BY <1>2, <1>3

LEMMA ReserveStep ==
    ASSUME NullIsNoRow, IInv, NEW d \in DOMAIN dispatcher, NEW c \in DOMAIN alerts,
           Reserve(d, c)
    PROVE  IInv'
<1> DEFINE report == dispatcher[d].report
           episode == Episode(alerts[c], report, c)
           finding == Fingerprint(report, c)
           row == [fingerprint |-> finding, disposition |-> "pending", token |-> d,
                   until |-> clock + Hold, latest |-> report.at,
                   status |-> report.checks[c].status, episode |-> episode]
           p == "post"
           k == <<c, finding, episode>>
           o == recoveries[c]
           x == [dispatcher[d] EXCEPT !.phase = p, !.check = c, !.key = k, !.occurrence = o]
<1>1. /\ alerts = [b \in DOMAIN alerts |-> alerts[b]]
      /\ recoveries' = recoveries
      /\ recoveries \in [DOMAIN alerts -> Nat]
      /\ dispatcher = [e \in DOMAIN dispatcher |-> dispatcher[e]]
      /\ UNCHANGED <<clock, reports, posted>>
  BY DEF Reserve, IInv, TypeOK
<1>2. /\ IsDispatcher(dispatcher[d])
      /\ report.at \in Int
      /\ dispatcher[d].phase = "next"
      /\ report.checks[c].status # "ok"
  BY OfDispatcher DEF Reserve, Reservable, Ok
<1>3. /\ episode \in Nat
      /\ alerts[c] # Null => /\ episode >= alerts[c].episode
                             /\ episode = alerts[c].episode => alerts[c].status # "ok"
  BY EpisodeGoesOn
<1>4. alerts' = [alerts EXCEPT ![c] = row]
  BY DEF Reserve
<1>5. dispatcher' = [dispatcher EXCEPT ![d] = x]
  BY DEF Reserve
<1> HIDE DEF episode, finding
<1>6. /\ IsRow(row)
      /\ row.disposition = "pending" /\ row.token = d /\ row.status # "ok"
      /\ row.episode = episode /\ row.fingerprint = finding
  BY <1>2, <1>3 DEF IsRow, RowFields
<1>7. row # Null
  BY <1>6 DEF NullIsNoRow
<1>8. /\ IsDispatcher(x)
      /\ x.phase = p /\ x.check = c /\ x.key = k /\ x.occurrence = o /\ x.report = report
  <2> HIDE DEF p, k, o
  <2>1. IsDispatcher(x)
    BY <1>2 DEF IsDispatcher, DispatcherFields
  <2>2. x.phase = p /\ x.check = c /\ x.key = k /\ x.occurrence = o /\ x.report = report
    BY <1>2 DEF IsDispatcher, DispatcherFields
  <2> QED
    BY <2>1, <2>2
<1> HIDE DEF row, x
<1>9. /\ DOMAIN alerts' = DOMAIN alerts
      /\ alerts'[c] = row
      /\ \A b \in DOMAIN alerts \ {c} : alerts'[b] = alerts[b]
      /\ alerts' = [b \in DOMAIN alerts |-> alerts'[b]]
  BY <1>1, <1>4
<1>10. /\ DOMAIN dispatcher' = DOMAIN dispatcher
       /\ dispatcher'[d] = x
       /\ \A e \in DOMAIN dispatcher \ {d} : dispatcher'[e] = dispatcher[e]
       /\ dispatcher' = [e \in DOMAIN dispatcher |-> dispatcher'[e]]
  BY <1>1, <1>5
<1>11. TypeOK'
  <2>1. \A b \in DOMAIN alerts : alerts'[b] # Null => IsRow(alerts'[b])
    BY <1>6, <1>9 DEF IInv, TypeOK
  <2>2. \A e \in DOMAIN dispatcher : IsDispatcher(dispatcher'[e])
    BY <1>8, <1>10 DEF IInv, TypeOK
  <2> QED
    BY <1>1, <1>9, <1>10, <2>1, <2>2 DEF IInv, TypeOK
<1> DEFINE new == [key |-> k, occurrence |-> o]
<1>12. Letters' \subseteq Letters \cup {new}
  BY <1>1, <1>8, <1>10 DEF Letters
<1>13. k[1] = c /\ k[3] = episode
  OBVIOUS
<1>14. new.key = k /\ new.occurrence = o
  OBVIOUS
<1> HIDE DEF k, o, new
<1>15. ASSUME NEW l \in Letters, l.key[1] = c
       PROVE  /\ alerts[c] # Null /\ IsRow(alerts[c])
              /\ l.key[3] \in Nat
              /\ l.key[3] <= alerts[c].episode
              /\ l.key[3] = episode => l.occurrence = recoveries[c]
  <2>1. Known(l)
    BY DEF IInv, LettersKnown
  <2>2. alerts[c] # Null /\ IsRow(alerts[c]) /\ l.key[3] <= alerts[c].episode /\ l.key[3] \in Nat
    BY <1>15, <2>1 DEF Known, IInv, TypeOK
  <2>3. ASSUME l.key[3] = episode PROVE l.occurrence = recoveries[c]
    <3>1. episode = alerts[c].episode
      BY <1>3, <2>2, <2>3 DEF IsRow
    <3> QED
      BY <1>3, <1>15, <2>1, <2>2, <2>3, <3>1 DEF Known
  <2> QED
    BY <2>2, <2>3
<1>16. LettersKnown'
  <2> SUFFICES ASSUME NEW l \in Letters \cup {new} PROVE Known(l)'
    BY <1>12 DEF LettersKnown
  <2>1. CASE l = new
    BY <1>1, <1>3, <1>6, <1>7, <1>9, <1>13, <1>14, <2>1 DEF Known, o
  <2>2. CASE l \in Letters /\ l.key[1] = c
    BY <1>1, <1>3, <1>6, <1>7, <1>9, <1>15, <2>2 DEF Known, IsRow
  <2>3. CASE l \in Letters /\ l.key[1] # c
    <3>1. Known(l)
      BY <2>3 DEF IInv, LettersKnown
    <3> QED
      BY <1>1, <1>9, <2>3, <3>1 DEF Known
  <2> QED
    BY <2>1, <2>2, <2>3
<1>17. OneOccurrence'
  <2>1. ASSUME NEW l \in Letters, l.key[1] = new.key[1], l.key[3] = new.key[3]
        PROVE  l.occurrence = new.occurrence
    BY <1>13, <1>14, <1>15, <2>1 DEF o
  <2> QED
    BY <1>12, <2>1 DEF IInv, OneOccurrence
<1>18. Delivered'
  BY <1>1, <1>6, <1>9 DEF IInv, Delivered
<1>19. AllHolding'
  <2>1. Holding(d)'
    BY <1>6, <1>7, <1>8, <1>9, <1>10 DEF Holding, k
  <2>2. ASSUME NEW e \in DOMAIN dispatcher \ {d} PROVE Holding(e)'
    <3>1. Holding(e) /\ dispatcher'[e] = dispatcher[e]
      BY <1>10, OfDispatcher
    <3>2. CASE dispatcher[e].check = c
      BY <1>1, <1>6, <1>7, <1>9, <3>1, <3>2 DEF Holding
    <3>3. CASE dispatcher[e].check # c
      BY <1>1, <1>9, <3>1, <3>3 DEF Holding
    <3> QED
      BY <3>2, <3>3
  <2> QED
    BY <1>10, <2>1, <2>2 DEF AllHolding
<1> QED
  BY <1>11, <1>16, <1>17, <1>18, <1>19 DEF IInv

LEMMA PostStep ==
    ASSUME IInv, NEW d \in DOMAIN dispatcher, NEW arrived \in BOOLEAN,
           NEW acknowledged \in BOOLEAN, Post(d, arrived, acknowledged)
    PROVE  IInv'
<1> DEFINE p == IF acknowledged THEN "mark" ELSE "release"
           x == [dispatcher[d] EXCEPT !.phase = p]
           letter == [key |-> dispatcher[d].key, occurrence |-> dispatcher[d].occurrence]
<1>1. /\ UNCHANGED <<clock, reports, alerts, recoveries>>
      /\ dispatcher = [e \in DOMAIN dispatcher |-> dispatcher[e]]
      /\ dispatcher[d].phase = "post"
      /\ acknowledged => arrived
  BY DEF Post, IInv, TypeOK
<1>2. dispatcher' = [dispatcher EXCEPT ![d] = x]
  BY DEF Post
<1>3. /\ posted' = IF arrived THEN posted \cup {letter} ELSE posted
      /\ posted \subseteq posted'
  BY DEF Post
<1>4. IsDispatcher(dispatcher[d]) /\ Holding(d) /\ dispatcher[d].report.at \in Int
  BY <1>1, OfDispatcher
<1>5. p # "post" /\ (p = "mark" => arrived) /\ p \in Sending
  BY <1>1 DEF Sending
<1>6. /\ IsDispatcher(x)
      /\ x.phase = p /\ x.check = dispatcher[d].check /\ x.key = dispatcher[d].key
  <2> HIDE DEF p
  <2>1. IsDispatcher(x)
    BY <1>4 DEF IsDispatcher, DispatcherFields
  <2>2. x.phase = p /\ x.check = dispatcher[d].check /\ x.key = dispatcher[d].key
    BY <1>4 DEF IsDispatcher, DispatcherFields
  <2> QED
    BY <2>1, <2>2
<1> HIDE DEF p, x
<1>7. /\ DOMAIN dispatcher' = DOMAIN dispatcher
      /\ dispatcher'[d] = x
      /\ \A e \in DOMAIN dispatcher \ {d} : dispatcher'[e] = dispatcher[e]
      /\ dispatcher' = [e \in DOMAIN dispatcher |-> dispatcher'[e]]
  BY <1>1, <1>2
<1>8. TypeOK'
  BY <1>1, <1>6, <1>7 DEF IInv, TypeOK
<1>9. Letters' \subseteq Letters
  <2>1. letter \in Letters
    BY <1>1 DEF Letters
  <2>2. ASSUME NEW e \in DOMAIN dispatcher', dispatcher'[e].phase = "post"
        PROVE  e # d /\ dispatcher'[e] = dispatcher[e]
    BY <1>5, <1>6, <1>7, <2>2
  <2> HIDE DEF letter
  <2> QED
    BY <1>3, <1>7, <2>1, <2>2 DEF Letters
<1>10. LettersKnown' /\ OneOccurrence'
  BY <1>1, <1>9 DEF IInv, LettersKnown, Known, OneOccurrence
<1>11. Delivered'
  BY <1>1, <1>3 DEF IInv, Delivered
<1>12. AllHolding'
  <2>1. Holding(d)'
    <3>1. p = "mark" => \E q \in posted' : q.key = dispatcher[d].key
      <4>1. letter.key = dispatcher[d].key
        OBVIOUS
      <4> HIDE DEF letter
      <4> QED
        BY <1>3, <1>5, <4>1
    <3> QED
      BY <1>1, <1>4, <1>5, <1>6, <1>7, <3>1 DEF Holding, Sending
  <2>2. ASSUME NEW e \in DOMAIN dispatcher \ {d} PROVE Holding(e)'
    <3>1. Holding(e) /\ dispatcher'[e] = dispatcher[e]
      BY <1>7, OfDispatcher
    <3> QED
      BY <1>1, <1>3, <3>1 DEF Holding
  <2> QED
    BY <1>7, <2>1, <2>2 DEF AllHolding
<1> QED
  BY <1>8, <1>10, <1>11, <1>12 DEF IInv

LEMMA NextIInv ==
    ASSUME NullIsNoRow
    PROVE  IInv /\ [HealthNext]_healthVars => IInv'
<1> SUFFICES ASSUME IInv, [HealthNext]_healthVars PROVE IInv'
  OBVIOUS
<1>1. CASE Pass \/ RecordHeartbeat \/ Spend \/ Collect \/ EvaluateHealth
  BY <1>1, MonitorStep
<1>2. ASSUME NEW d \in DOMAIN dispatcher, NEW report \in reports, Start(d, report) PROVE IInv'
  BY <1>2, StartStep
<1>3. ASSUME NEW d \in DOMAIN dispatcher, NEW c \in DOMAIN alerts,
             RecordRecovery(d, c) \/ Suppress(d, c) \/ Reserve(d, c)
      PROVE  IInv'
  BY <1>3, RecordRecoveryStep, SuppressStep, ReserveStep
<1>4. ASSUME NEW d \in DOMAIN dispatcher, NEW arrived \in BOOLEAN, NEW acknowledged \in BOOLEAN,
             Post(d, arrived, acknowledged)
      PROVE  IInv'
  BY <1>4, PostStep
<1>5. ASSUME NEW d \in DOMAIN dispatcher, ReleaseReservation(d) \/ MarkSent(d) \/ Die(d)
      PROVE  IInv'
  BY <1>5, ReleaseStep, MarkSentStep, DieStep
<1>6. CASE UNCHANGED healthVars
  <2>1. UNCHANGED <<clock, reports, alerts, dispatcher, posted, recoveries>>
    BY <1>6 DEF healthVars
  <2>2. Letters' = Letters
    BY <2>1 DEF Letters
  <2>3. LettersKnown'
    BY <2>1, <2>2 DEF IInv, LettersKnown, Known
  <2> QED
    BY <2>1, <2>2, <2>3 DEF IInv, TypeOK, OneOccurrence, Delivered, AllHolding, Holding
<1> QED
  BY <1>1, <1>2, <1>3, <1>4, <1>5, <1>6 DEF HealthNext

-----------------------------------------------------------------------------
(* The theorems of the dispatch.                                           *)

\* The invariant of the dispatch, whatever the monitor finds and whoever dies.
THEOREM Invariance ==
    ASSUME NullIsNoRow, NEW starts, \A start \in starts : SoundStart(start)
    PROVE  HealthSpec(starts) => []IInv
<1>1. HealthInit(starts) => IInv
  BY InitIInv
<1> QED
  BY <1>1, NextIInv, PTL DEF HealthSpec

\* AlertsNotLost (health_dispatch.py, dispatch_health_report): a row that says
\* sent, and so silences what repeats it, was delivered; and no idempotency
\* key stands for two occurrences with a recovery between them.
THEOREM AlertsAreNotLost ==
    ASSUME NullIsNoRow, NEW starts, \A start \in starts : SoundStart(start)
    PROVE  HealthSpec(starts) => []AlertsNotLost
<1>1. ASSUME IInv PROVE AlertsNotLost
  <2>1. posted \subseteq Letters
    BY DEF Letters
  <2> QED
    BY <1>1, <2>1 DEF IInv, AlertsNotLost, Delivered, OneOccurrence
<1> QED
  BY <1>1, Invariance, PTL


-----------------------------------------------------------------------------
(* Orders.                                                                 *)

\* A strict order in which any two members of S differ.
Orders(R, S) ==
    /\ \A x \in S : <<x, x>> \notin R
    /\ \A x, y, z \in S : <<x, y>> \in R /\ <<y, z>> \in R => <<x, z>> \in R
    /\ \A x, y \in S : x # y => <<x, y>> \in R \/ <<y, x>> \in R

\* f lists S in the order R.
Lists(f, R, S) ==
    /\ f \in Bijection(1..Cardinality(S), S)
    /\ \A a, b \in 1..Cardinality(S) : a < b <=> <<f[a], f[b]>> \in R

\* The smallest of a set of natural numbers is one of them.
LEMMA LeastExists ==
    ASSUME NEW S \in SUBSET Nat, S # {}
    PROVE  \E x \in S : \A y \in S : x <= y
<1> DEFINE R == {ss \in Nat \X Nat : ss[1] < ss[2]}
<1>1. IsWellFoundedOn(R, Nat)
  BY NatLessThanWellFounded DEF OpToRel
<1>2. \E x \in S : \A y \in S : ~ (<<y, x>> \in R)
  <2> HIDE DEF R
  <2> QED
    BY <1>1, WFMin
<1>3. PICK x \in S : \A y \in S : ~ (<<y, x>> \in R)
  BY <1>2
<1>4. ASSUME NEW y \in S PROVE x <= y
  <2>1. <<y, x>> \in Nat \X Nat /\ ~ (<<y, x>> \in R)
    BY <1>3
  <2>2. ~ (y < x)
    BY <2>1
  <2> QED
    BY <2>2
<1> QED
  BY <1>4

\* Fewer stand before who comes earlier.
LEMMA AheadGrows ==
    ASSUME NEW R, NEW S, IsFiniteSet(S), Orders(R, S), NEW x \in S, NEW y \in S, <<x, y>> \in R
    PROVE  /\ IsFiniteSet(Ahead(R, S, x)) /\ IsFiniteSet(Ahead(R, S, y))
           /\ Cardinality(Ahead(R, S, x)) \in Nat /\ Cardinality(Ahead(R, S, y)) \in Nat
           /\ Cardinality(Ahead(R, S, x)) < Cardinality(Ahead(R, S, y))
<1>1. IsFiniteSet(Ahead(R, S, x)) /\ IsFiniteSet(Ahead(R, S, y))
  BY FS_Subset DEF Ahead
<1>2. Cardinality(Ahead(R, S, x)) \in Nat /\ Cardinality(Ahead(R, S, y)) \in Nat
  BY <1>1, FS_CardinalityType
<1>3. Ahead(R, S, x) \subseteq Ahead(R, S, y) /\ x \in Ahead(R, S, y) /\ x \notin Ahead(R, S, x)
  BY DEF Ahead, Orders
<1>4. Cardinality(Ahead(R, S, x)) <= Cardinality(Ahead(R, S, y))
  BY <1>1, <1>3, FS_Subset
<1>5. Cardinality(Ahead(R, S, x)) # Cardinality(Ahead(R, S, y))
  BY <1>1, <1>3, FS_Subset
<1> QED
  BY <1>1, <1>2, <1>4, <1>5

LEMMA PlacesCounted ==
    ASSUME NEW N \in Nat
    PROVE  IsFiniteSet(0..N - 1) /\ Cardinality(0..N - 1) = N
<1>1. ASSUME NEW a \in Int, NEW b \in Int, a = 0, b = N - 1
      PROVE  IsFiniteSet(a..b) /\ Cardinality(a..b) = N
  <2>1. /\ IsFiniteSet(a..b)
        /\ Cardinality(a..b) = IF a > b THEN 0 ELSE b - a + 1
    BY FS_Interval
  <2> QED
    BY <1>1, <2>1
<1> QED
  BY <1>1

\* The numbers of those ahead are the places 0, 1, ...
LEMMA PlacesTaken ==
    ASSUME NEW R, NEW S, IsFiniteSet(S), Orders(R, S)
    PROVE  /\ \A x \in S : Cardinality(Ahead(R, S, x)) \in 0..Cardinality(S) - 1
           /\ \A n \in 0..Cardinality(S) - 1 : \E x \in S : Cardinality(Ahead(R, S, x)) = n
           /\ \A x, y \in S :
                Cardinality(Ahead(R, S, x)) < Cardinality(Ahead(R, S, y)) <=> <<x, y>> \in R
<1> PICK N : N = Cardinality(S)
  OBVIOUS
<1>1. N \in Nat
  BY FS_CardinalityType
<1>2. ASSUME NEW x \in S PROVE Cardinality(Ahead(R, S, x)) \in 0..N - 1
  <2>1. IsFiniteSet(S \ {x}) /\ Cardinality(S \ {x}) = N - 1
    BY FS_RemoveElement
  <2>2. Ahead(R, S, x) \in SUBSET (S \ {x})
    BY DEF Ahead, Orders
  <2>3. IsFiniteSet(Ahead(R, S, x)) /\ Cardinality(Ahead(R, S, x)) <= N - 1
    BY <2>1, <2>2, FS_Subset
  <2>4. Cardinality(Ahead(R, S, x)) \in Nat
    BY <2>3, FS_CardinalityType
  <2> QED
    BY <1>1, <2>3, <2>4
<1> PICK place : place = [x \in S |-> Cardinality(Ahead(R, S, x))]
  OBVIOUS
<1>3. place \in [S -> 0..N - 1] /\ \A x \in S : place[x] = Cardinality(Ahead(R, S, x))
  BY <1>2
<1>4. ASSUME NEW x \in S, NEW y \in S, <<x, y>> \in R PROVE place[x] < place[y]
  BY <1>4, <1>3, AheadGrows
<1>5. ASSUME NEW x \in S, NEW y \in S PROVE place[x] < place[y] <=> <<x, y>> \in R
  <2>1. CASE x = y
    BY <1>3, <2>1 DEF Orders
  <2>2. CASE <<x, y>> \in R
    BY <1>4, <2>2
  <2>3. CASE <<y, x>> \in R
    <3>1. place[y] < place[x] /\ place[x] \in Int /\ place[y] \in Int
      BY <1>3, <1>4, <2>3
    <3>2. ~ (<<x, y>> \in R)
      BY <2>3 DEF Orders
    <3> QED
      BY <3>1, <3>2
  <2> QED
    BY <2>1, <2>2, <2>3 DEF Orders
<1>6. place \in Injection(S, 0..N - 1)
  <2>1. ASSUME NEW x \in S, NEW y \in S, x # y PROVE place[x] # place[y]
    <3>1. place[x] \in Int /\ place[y] \in Int
      BY <1>3
    <3>2. place[x] < place[y] \/ place[y] < place[x]
      BY <1>4, <2>1 DEF Orders
    <3> QED
      BY <3>1, <3>2
  <2> QED
    BY <1>3, <2>1 DEF Injection, IsInjective
<1>7. IsFiniteSet(0..N - 1) /\ Cardinality(0..N - 1) = N
  BY <1>1, PlacesCounted
<1>8. place \in Surjection(S, 0..N - 1)
  BY <1>6, <1>7, FS_Injection
<1>9. \A n \in 0..N - 1 : \E x \in S : place[x] = n
  BY <1>8 DEF Surjection
<1> QED
  BY <1>2, <1>3, <1>5, <1>9

\* Ordered lists the set.
LEMMA OrderedLists ==
    ASSUME NEW R, NEW S, IsFiniteSet(S), Orders(R, S)
    PROVE  Lists(Ordered(S, R), R, S)
<1> PICK N : N = Cardinality(S)
  OBVIOUS
<1>1. N \in Nat
  BY FS_CardinalityType
<1> PICK f : f = Ordered(S, R)
  OBVIOUS
<1>2. ASSUME NEW n \in 1..N PROVE f[n] \in S /\ Cardinality(Ahead(R, S, f[n])) = n - 1
  <2>1. n - 1 \in 0..N - 1
    BY <1>1
  <2>2. \E i \in S : Cardinality(Ahead(R, S, i)) = n - 1
    BY <2>1, PlacesTaken
  <2>3. f[n] = CHOOSE i \in S : Cardinality(Ahead(R, S, i)) = n - 1
    BY DEF Ordered
  <2> QED
    BY <2>2, <2>3
<1>3. f \in [1..N -> S]
  BY <1>2 DEF Ordered
<1>4. ASSUME NEW a \in 1..N, NEW b \in 1..N PROVE a < b <=> <<f[a], f[b]>> \in R
  <2>1. Cardinality(Ahead(R, S, f[a])) < Cardinality(Ahead(R, S, f[b])) <=> <<f[a], f[b]>> \in R
    BY <1>2, PlacesTaken
  <2> QED
    BY <1>1, <1>2, <2>1
<1>5. f \in Injection(1..N, S)
  <2>1. ASSUME NEW a \in 1..N, NEW b \in 1..N, f[a] = f[b] PROVE a = b
    <3>1. a - 1 = b - 1
      BY <1>2, <2>1
    <3> QED
      BY <1>1, <3>1
  <2> QED
    BY <1>3, <2>1 DEF Injection, IsInjective
<1>6. Cardinality(1..N) = N
  BY <1>1, FS_Interval
<1>7. f \in Surjection(1..N, S)
  BY <1>5, <1>6, FS_Injection
<1> QED
  BY <1>4, <1>5, <1>7 DEF Lists, Bijection

\* Those ahead of the n-th are the n - 1 before it.
LEMMA AheadOfListed ==
    ASSUME NEW R, NEW S, IsFiniteSet(S), NEW f, Lists(f, R, S), NEW n \in 1..Cardinality(S)
    PROVE  Cardinality(Ahead(R, S, f[n])) = n - 1
<1> PICK N : N = Cardinality(S)
  OBVIOUS
<1>1. N \in Nat
  BY FS_CardinalityType
<1>2. f \in [1..N -> S] /\ (\A a, b \in 1..N : f[a] = f[b] => a = b)
      /\ \A x \in S : \E a \in 1..N : f[a] = x
  BY DEF Lists, Bijection, Injection, IsInjective, Surjection
<1> PICK g : g = [a \in 1..n - 1 |-> f[a]]
  OBVIOUS
<1>3. \A a \in 1..n - 1 : a \in 1..N /\ a < n
  BY <1>1
<1>4. \A a \in 1..n - 1 : g[a] \in Ahead(R, S, f[n])
  BY <1>2, <1>3 DEF Ahead, Lists
<1>5. \A x \in Ahead(R, S, f[n]) : \E a \in 1..n - 1 : g[a] = x
  <2> SUFFICES ASSUME NEW x \in Ahead(R, S, f[n]) PROVE \E a \in 1..n - 1 : g[a] = x
    OBVIOUS
  <2>1. PICK a \in 1..N : f[a] = x
    BY <1>2 DEF Ahead
  <2>2. a < n
    BY <2>1 DEF Ahead, Lists
  <2>3. a \in 1..n - 1
    BY <1>1, <2>2
  <2> QED
    BY <2>1, <2>3
<1>6. \A a, b \in 1..n - 1 : g[a] = g[b] => a = b
  BY <1>2, <1>3
<1>7. g \in Bijection(1..n - 1, Ahead(R, S, f[n]))
  BY <1>4, <1>5, <1>6 DEF Bijection, Injection, IsInjective, Surjection
<1>8. n - 1 \in Nat
  BY <1>1
<1>9. ExistsBijection(1..n - 1, Ahead(R, S, f[n]))
  BY <1>7 DEF ExistsBijection
<1> QED
  BY <1>8, <1>9, FS_CountingElements

\* There is no other list in that order.
LEMMA ListIsOrdered ==
    ASSUME NEW R, NEW S, IsFiniteSet(S), Orders(R, S), NEW f, Lists(f, R, S)
    PROVE  f = Ordered(S, R)
<1> PICK N : N = Cardinality(S)
  OBVIOUS
<1> PICK o : o = Ordered(S, R)
  OBVIOUS
<1>1. N \in Nat
  BY FS_CardinalityType
<1>2. Lists(o, R, S)
  BY OrderedLists
<1>3. f \in [1..N -> S] /\ o \in [1..N -> S] /\ \A x \in S : \E a \in 1..N : o[a] = x
  BY <1>2 DEF Lists, Bijection, Injection, IsInjective, Surjection
<1>4. ASSUME NEW n \in 1..N PROVE f[n] = o[n]
  <2>1. PICK a \in 1..N : o[a] = f[n]
    BY <1>3
  <2>2. Cardinality(Ahead(R, S, f[n])) = n - 1
    BY AheadOfListed
  <2>3. Cardinality(Ahead(R, S, o[a])) = a - 1
    BY <1>2, AheadOfListed
  <2>4. a = n
    BY <1>1, <2>1, <2>2, <2>3
  <2> QED
    BY <2>1, <2>4
<1>5. f = [n \in 1..N |-> f[n]] /\ o = [n \in 1..N |-> o[n]]
  BY <1>3
<1>6. [n \in 1..N |-> f[n]] = [n \in 1..N |-> o[n]]
  BY <1>4
<1> QED
  BY <1>5, <1>6

\* The last one follows all others.
LEMMA GreatestExists ==
    ASSUME NEW R, NEW S, IsFiniteSet(S), S # {}, Orders(R, S)
    PROVE  \E g \in S : \A x \in S \ {g} : <<x, g>> \in R
<1> PICK N : N = Cardinality(S)
  OBVIOUS
<1>1. N \in Nat /\ N # 0
  BY FS_CardinalityType, FS_EmptySet
<1> PICK f : f = Ordered(S, R)
  OBVIOUS
<1>2. Lists(f, R, S)
  BY OrderedLists
<1>3. f \in [1..N -> S] /\ \A x \in S : \E a \in 1..N : f[a] = x
  BY <1>2 DEF Lists, Bijection, Injection, IsInjective, Surjection
<1>4. N \in 1..N
  BY <1>1
<1>5. ASSUME NEW x \in S \ {f[N]} PROVE <<x, f[N]>> \in R
  <2>1. PICK a \in 1..N : f[a] = x
    BY <1>3
  <2>2. a < N
    BY <1>1, <2>1
  <2> QED
    BY <1>2, <1>4, <2>1, <2>2 DEF Lists
<1> QED
  BY <1>3, <1>4, <1>5

\* What follows the k-th is listed as it was.
LEMMA RestListed ==
    ASSUME NEW R, NEW S, IsFiniteSet(S), Orders(R, S), NEW f, Lists(f, R, S),
           NEW k \in 1..Cardinality(S), NEW T, T = {x \in S : <<f[k], x>> \in R}
    PROVE  /\ Cardinality(T) = Cardinality(S) - k
           /\ \A n \in 1..Cardinality(S) - k : Ordered(T, R)[n] = f[k + n]
<1> PICK N : N = Cardinality(S)
  OBVIOUS
<1>1. N \in Nat
  BY FS_CardinalityType
<1>2. f \in [1..N -> S] /\ (\A a, b \in 1..N : f[a] = f[b] => a = b)
      /\ \A x \in S : \E a \in 1..N : f[a] = x
  BY DEF Lists, Bijection, Injection, IsInjective, Surjection
<1>3. \A a, b \in 1..N : a < b <=> <<f[a], f[b]>> \in R
  BY DEF Lists
<1> PICK M : M = N - k
  OBVIOUS
<1>4. M \in Nat
  BY <1>1
<1> PICK g : g = [n \in 1..M |-> f[k + n]]
  OBVIOUS
<1>5. \A n \in 1..M : k + n \in 1..N /\ k < k + n
  BY <1>1
<1>6. ASSUME NEW n \in 1..M PROVE g[n] \in T
  <2>1. f[k + n] \in S /\ <<f[k], f[k + n]>> \in R
    BY <1>2, <1>3, <1>5
  <2> QED
    BY <2>1
<1>7. ASSUME NEW x \in T PROVE \E n \in 1..M : g[n] = x
  <2>1. PICK a \in 1..N : f[a] = x
    BY <1>2
  <2>2. k < a
    BY <1>3, <2>1
  <2>3. a - k \in 1..M /\ k + (a - k) = a
    BY <1>1, <2>2
  <2> QED
    BY <2>1, <2>3
<1>8. ASSUME NEW a \in 1..M, NEW b \in 1..M
      PROVE  (g[a] = g[b] => a = b) /\ (a < b <=> <<g[a], g[b]>> \in R)
  <2>1. (f[k + a] = f[k + b] => k + a = k + b) /\ (k + a < k + b <=> <<f[k + a], f[k + b]>> \in R)
    BY <1>2, <1>3, <1>5
  <2> QED
    BY <2>1
<1>9. g \in Bijection(1..M, T)
  <2>1. g \in [1..M -> T]
    BY <1>6
  <2>2. g \in Injection(1..M, T)
    <3>1. DOMAIN g = 1..M
      OBVIOUS
    <3>2. \A a, b \in 1..M : g[a] = g[b] => a = b
      BY ONLY <1>8
    <3> QED
      BY ONLY <2>1, <3>1, <3>2 DEF Injection, IsInjective
  <2>3. g \in Surjection(1..M, T)
    BY <2>1, <1>7 DEF Surjection
  <2> QED
    BY <2>2, <2>3 DEF Bijection
<1>10. Cardinality(T) = M
  BY <1>4, <1>9, FS_CountingElements DEF ExistsBijection
<1>11. IsFiniteSet(T) /\ Orders(R, T)
  BY FS_Subset DEF Orders
<1>12. Lists(g, R, T)
  BY <1>8, <1>9, <1>10 DEF Lists
<1>13. g = Ordered(T, R)
  BY <1>11, <1>12, ListIsOrdered
<1> QED
  BY <1>10, <1>13

\* Tuples of one length are ordered.
LEMMA TuplesOrdered ==
    ASSUME NEW N \in Nat, NEW a \in [1..N -> Int], NEW b \in [1..N -> Int], NEW c \in [1..N -> Int]
    PROVE  /\ ~Before(a, a)
           /\ Before(a, b) /\ Before(b, c) => Before(a, c)
           /\ a # b => Before(a, b) \/ Before(b, a)
<1>1. ~Before(a, a)
  BY DEF Before
<1>2. ASSUME Before(a, b), Before(b, c) PROVE Before(a, c)
  <2>1. PICK n \in 1..N : a[n] < b[n] /\ \A k \in 1..n - 1 : a[k] = b[k]
    BY <1>2 DEF Before
  <2>2. PICK p \in 1..N : b[p] < c[p] /\ \A k \in 1..p - 1 : b[k] = c[k]
    BY <1>2 DEF Before
  <2>3. CASE n <= p
    <3>1. \A k \in 1..n - 1 : k \in 1..p - 1
      BY <2>3
    <3>2. \A k \in 1..n - 1 : a[k] = c[k]
      BY <2>1, <2>2, <3>1
    <3>3. b[n] <= c[n]
      BY <2>2, <2>3
    <3>4. a[n] < c[n]
      BY <2>1, <3>3
    <3> QED
      BY <3>2, <3>4 DEF Before
  <2>4. CASE p < n
    <3>1. \A k \in 1..p - 1 : k \in 1..n - 1
      BY <2>4
    <3>2. \A k \in 1..p - 1 : a[k] = c[k]
      BY <2>1, <2>2, <3>1
    <3>3. a[p] = b[p]
      BY <2>1, <2>4
    <3>4. a[p] < c[p]
      BY <2>2, <3>3
    <3> QED
      BY <3>2, <3>4 DEF Before
  <2> QED
    BY <2>3, <2>4
<1>3. ASSUME a # b PROVE Before(a, b) \/ Before(b, a)
  <2> PICK D : D = {n \in 1..N : a[n] # b[n]}
    OBVIOUS
  <2>1. D \in SUBSET Nat /\ D # {}
    <3>1. a = [n \in 1..N |-> a[n]] /\ b = [n \in 1..N |-> b[n]]
      OBVIOUS
    <3>2. D = {} => [n \in 1..N |-> a[n]] = [n \in 1..N |-> b[n]]
      OBVIOUS
    <3> QED
      BY <1>3, <3>1, <3>2
  <2>2. PICK n \in D : \A k \in D : n <= k
    BY <2>1, LeastExists
  <2>3. ASSUME NEW k \in 1..n - 1 PROVE a[k] = b[k]
    <3>1. k \in 1..N /\ ~ (n <= k)
      OBVIOUS
    <3> QED
      BY <2>2, <3>1
  <2>4. a[n] < b[n] \/ b[n] < a[n]
    OBVIOUS
  <2> QED
    BY <2>3, <2>4 DEF Before
<1> QED
  BY <1>1, <1>2, <1>3

\* So are things by tuples that tell them apart, in either direction.
LEMMA KeysOrder ==
    ASSUME NEW N \in Nat, NEW S, NEW key \in [S -> [1..N -> Int]],
           \A x, y \in S : key[x] = key[y] => x = y,
           NEW R,
           \/ \A x, y \in S : <<x, y>> \in R <=> Before(key[x], key[y])
           \/ \A x, y \in S : <<x, y>> \in R <=> Before(key[y], key[x])
    PROVE  Orders(R, S)
<1>1. ASSUME NEW x \in S PROVE <<x, x>> \notin R
  <2>1. key[x] \in [1..N -> Int]
    OBVIOUS
  <2>2. ~Before(key[x], key[x])
    BY <2>1, TuplesOrdered
  <2> QED
    BY <2>2
<1>2. ASSUME NEW x \in S, NEW y \in S, NEW z \in S, <<x, y>> \in R, <<y, z>> \in R
      PROVE  <<x, z>> \in R
  <2>1. key[x] \in [1..N -> Int] /\ key[y] \in [1..N -> Int] /\ key[z] \in [1..N -> Int]
    OBVIOUS
  <2>2. /\ Before(key[x], key[y]) /\ Before(key[y], key[z]) => Before(key[x], key[z])
        /\ Before(key[z], key[y]) /\ Before(key[y], key[x]) => Before(key[z], key[x])
    BY <2>1, TuplesOrdered
  <2> QED
    BY <1>2, <2>2
<1>3. ASSUME NEW x \in S, NEW y \in S, x # y PROVE <<x, y>> \in R \/ <<y, x>> \in R
  <2>1. key[x] \in [1..N -> Int] /\ key[y] \in [1..N -> Int] /\ key[x] # key[y]
    BY <1>3
  <2>2. Before(key[x], key[y]) \/ Before(key[y], key[x])
    BY <2>1, TuplesOrdered
  <2> QED
    BY <2>2
<1> QED
  BY <1>1, <1>2, <1>3 DEF Orders

\* The greatest of finitely many numbers is one of them.
LEMMA MaxIsOne ==
    ASSUME NEW S, S \subseteq Int, IsFiniteSet(S), S # {}
    PROVE  Max(S) \in S /\ \A x \in S : x <= Max(S)
<1> PICK R : R = {x \in S \X S : x[1] < x[2]}
  OBVIOUS
<1>1. \A x, y \in S : <<x, y>> \in R <=> x < y
  OBVIOUS
<1>2. Orders(R, S)
  BY <1>1 DEF Orders
<1>3. \E g \in S : \A x \in S \ {g} : <<x, g>> \in R
  <2>1. S # {} /\ IsFiniteSet(S)
    OBVIOUS
  <2> QED
    BY ONLY <2>1, <1>2, GreatestExists
<1> PICK g \in S : \A x \in S \ {g} : <<x, g>> \in R
  BY <1>3
<1>4. ASSUME NEW x \in S PROVE x <= g
  <2>1. x # g => <<x, g>> \in R
    OBVIOUS
  <2>2. x # g => x < g
    BY <2>1, <1>1
  <2> QED
    BY <2>2
<1> QED
  BY <1>4 DEF Max

-----------------------------------------------------------------------------
(* The tables.                                                             *)

Records(matches) ==
    [match : matches, revision : Nat, snapshot : [id : Int, cutoff : Int], provider : STRING,
     at : Int, succeeded : BOOLEAN]

SoundQuery(query) ==
    /\ query.endpoint \in {"schedule", "predictions"}
    /\ query.limit \in Nat \ {0}

TableFields == {"starts", "records", "events", "evaluations", "writes", "queries", "arrivals"}

\* Each success is published once, and nothing follows a revocation.
SoundEvents(t) ==
    /\ t.events \in Seq([record : DOMAIN t.records, type : {"published", "voided"}])
    /\ \A i \in DOMAIN t.records :
         t.records[i].succeeded <=> \E n \in DOMAIN t.events : t.events[n].record = i
    /\ \A n, k \in DOMAIN t.events :
         t.events[n].type = "voided" /\ t.events[k].record = t.events[n].record => k <= n

\* What the constraints of the tables ask for.
SoundTables(t) ==
    /\ t = [f \in TableFields |-> t[f]]
    /\ IsFiniteSet(MatchesOf(t)) /\ MatchesOf(t) \subseteq DOMAIN MatchRank
    /\ t.starts \in [MatchesOf(t) -> Seq([day : Int, at : Int]) \ {<<>>}]
    /\ t.records \in Seq(Records(MatchesOf(t)))
    /\ t.arrivals \subseteq Records(MatchesOf(t))
    /\ \A r, s \in Range(t.records) \cup t.arrivals :
         r.snapshot.id = s.snapshot.id => r.snapshot = s.snapshot
    /\ SoundEvents(t)
    /\ t.evaluations \in Nat /\ t.writes \in Nat
    /\ \A query \in t.queries : SoundQuery(query)

\* Null is neither a status nor a cursor nor a key.
NullIsNoCursor ==
    /\ Null \notin {"published", "voided"}
    /\ \A r, k : [revision |-> r, key |-> k] # Null
    /\ \A a, b : <<a, b>> # Null

LEMMA RecordsTyped ==
    ASSUME NEW t, SoundTables(t)
    PROVE  /\ Len(t.records) \in Nat
           /\ DOMAIN t.records = 1..Len(t.records)
           /\ IsFiniteSet(DOMAIN t.records)
           /\ \A i \in DOMAIN t.records : t.records[i] \in Records(MatchesOf(t))
           /\ \A i, j \in DOMAIN t.records :
                t.records[i].snapshot.id = t.records[j].snapshot.id =>
                  t.records[i].snapshot = t.records[j].snapshot
<1> PICK S : S = Records(MatchesOf(t))
  OBVIOUS
<1>1. t.records \in Seq(S)
  BY DEF SoundTables
<1>2. /\ Len(t.records) \in Nat /\ DOMAIN t.records = 1..Len(t.records)
      /\ \A i \in DOMAIN t.records : t.records[i] \in S
  BY <1>1
<1>3. IsFiniteSet(DOMAIN t.records)
  BY <1>2, FS_Interval
<1>4. \A i \in DOMAIN t.records : t.records[i] \in Range(t.records)
  BY DEF Range
<1> QED
  BY <1>2, <1>3, <1>4 DEF SoundTables

\* The events of a record end with its revocation, if it was revoked.
LEMMA LifeTells ==
    ASSUME NEW t, SoundTables(t), NEW i \in DOMAIN t.records
    PROVE  /\ t.records[i].succeeded => Life(t, i) \in {"published", "voided"}
           /\ t.records[i].succeeded => (Life(t, i) = "published" <=> ~Revoked(t, i))
           /\ ~t.records[i].succeeded => ~Revoked(t, i)
<1> PICK E : E = [record : DOMAIN t.records, type : {"published", "voided"}]
  OBVIOUS
<1>1. /\ t.events \in Seq(E)
      /\ t.records[i].succeeded <=> \E n \in DOMAIN t.events : t.events[n].record = i
      /\ \A n, k \in DOMAIN t.events :
           t.events[n].type = "voided" /\ t.events[k].record = t.events[n].record => k <= n
  BY DEF SoundTables, SoundEvents
<1>2. /\ Len(t.events) \in Nat /\ DOMAIN t.events = 1..Len(t.events)
      /\ \A n \in DOMAIN t.events : t.events[n] \in E
  BY ONLY <1>1
<1> PICK happened : happened = {n \in DOMAIN t.events : t.events[n].record = i}
  OBVIOUS
<1>3. Revoked(t, i) <=> \E n \in happened : t.events[n].type = "voided"
  <2>1. \A n \in happened : t.events[n] = [record |-> i, type |-> t.events[n].type]
    BY <1>2
  <2>2. Revoked(t, i) <=> \E n \in DOMAIN t.events : t.events[n] = [record |-> i, type |-> "voided"]
    BY DEF Revoked, Range
  <2> QED
    BY <2>1, <2>2
<1>4. CASE happened = {}
  BY <1>1, <1>3, <1>4
<1>5. CASE happened # {}
  <2>1. IsFiniteSet(happened) /\ happened \subseteq Int
    <3>1. IsFiniteSet(1..Len(t.events))
      BY <1>2, FS_Interval
    <3>2. happened \in SUBSET (1..Len(t.events))
      BY <1>2
    <3>3. happened \subseteq Int
      BY <1>2
    <3> QED
      BY ONLY <3>1, <3>2, <3>3, FS_Subset
  <2> PICK z : z = Max(happened)
    OBVIOUS
  <2>2. z \in happened /\ \A n \in happened : n <= z
    BY <1>5, <2>1, MaxIsOne
  <2>3. t.events[z].type \in {"published", "voided"}
    BY <1>2, <2>2
  <2>4. Life(t, i) = t.events[z].type
    BY <1>5 DEF Life
  <2>5. ASSUME NEW n \in happened, t.events[n].type = "voided" PROVE n = z
    <3>1. z <= n
      BY <1>1, <2>2, <2>5
    <3>2. n \in Int /\ z \in Int /\ n <= z
      BY <2>1, <2>2
    <3> QED
      BY ONLY <3>1, <3>2
  <2>6. t.records[i].succeeded
    BY <1>1, <1>5
  <2> QED
    BY <1>3, <2>2, <2>3, <2>4, <2>5, <2>6
<1> QED
  BY <1>4, <1>5

-----------------------------------------------------------------------------
(* The forecasts a match shows.                                            *)

LEMMA CandidatesStand ==
    ASSUME NEW t, SoundTables(t), NEW m, NEW provider
    PROVE  /\ Candidates(t, m, provider) \in SUBSET (DOMAIN t.records)
           /\ IsFiniteSet(Candidates(t, m, provider))
           /\ \A i \in DOMAIN t.records :
                i \in Candidates(t, m, provider) <=>
                  /\ t.records[i].match = m /\ OfProvider(t.records[i], provider)
                  /\ t.records[i].revision = Len(t.starts[m]) /\ ~Revoked(t, i)
<1>1. Candidates(t, m, provider) \in SUBSET (DOMAIN t.records)
  BY DEF Candidates
<1>2. IsFiniteSet(Candidates(t, m, provider))
  BY <1>1, RecordsTyped, FS_Subset
<1>3. ASSUME NEW i \in DOMAIN t.records
      PROVE  (t.records[i].succeeded => Life(t, i) = "published") <=> ~Revoked(t, i)
  <2>1. t.records[i].succeeded \in BOOLEAN
    BY RecordsTyped DEF Records
  <2> QED
    BY <2>1, LifeTells
<1> QED
  BY <1>1, <1>2, <1>3 DEF Candidates

\* One snapshot is selected.
LEMMA GroupSelected ==
    ASSUME NEW t, SoundTables(t), NEW rows \in SUBSET (DOMAIN t.records), rows # {}
    PROVE  \E s : s \in Grouped(t, rows) /\ SelectedGroup(t, rows) = InGroup(t, rows, s)
<1> PICK G : G = Grouped(t, rows)
  OBVIOUS
<1> PICK key : key = [s \in G |-> GroupRank(t, InGroup(t, rows, s), s)]
  OBVIOUS
<1> PICK R : R = {x \in G \X G : Before(key[x[1]], key[x[2]])}
  OBVIOUS
<1>1. /\ IsFiniteSet(rows)
      /\ \A i \in rows : t.records[i] \in Records(MatchesOf(t))
      /\ \A i, j \in rows : t.records[i].snapshot.id = t.records[j].snapshot.id =>
                              t.records[i].snapshot = t.records[j].snapshot
  BY RecordsTyped, FS_Subset
<1>2. IsFiniteSet(G) /\ G # {}
  <2> PICK f : f = [i \in rows |-> t.records[i].snapshot]
    OBVIOUS
  <2>1. f \in Surjection(rows, G)
    BY DEF Surjection, Grouped
  <2> QED
    BY <1>1, <2>1, FS_Surjection DEF Grouped
<1>3. ASSUME NEW s \in G PROVE key[s] \in [1..5 -> Int] /\ key[s][5] = s.id
  <2> PICK group : group = InGroup(t, rows, s)
    OBVIOUS
  <2>1. group \in SUBSET rows /\ group # {}
    BY DEF InGroup, Grouped
  <2>2. IsFiniteSet(group)
    BY <1>1, <2>1, FS_Subset
  <2>3. Cardinality({t.records[i].provider : i \in group}) \in Int
    <3> PICK f : f = [i \in group |-> t.records[i].provider]
      OBVIOUS
    <3> PICK T : T = {t.records[i].provider : i \in group}
      OBVIOUS
    <3>1. f \in Surjection(group, T)
      BY DEF Surjection
    <3>2. IsFiniteSet(T)
      BY <2>2, <3>1, FS_Surjection
    <3> QED
      BY <3>2, FS_CardinalityType
  <2>4. Cardinality({i \in group : t.records[i].succeeded}) \in Int
    <3> PICK T : T = {i \in group : t.records[i].succeeded}
      OBVIOUS
    <3>1. IsFiniteSet(T)
      BY <2>2, FS_Subset
    <3> QED
      BY <3>1, FS_CardinalityType
  <2>5. s.cutoff \in Int /\ s.id \in Int
    BY <1>1 DEF Grouped, Records
  <2>6. Max({t.records[i].at : i \in group}) \in Int
    <3> PICK f : f = [i \in group |-> t.records[i].at]
      OBVIOUS
    <3> PICK T : T = {t.records[i].at : i \in group}
      OBVIOUS
    <3>1. f \in Surjection(group, T)
      BY DEF Surjection
    <3>2. IsFiniteSet(T)
      BY <2>2, <3>1, FS_Surjection
    <3>3. T \subseteq Int /\ T # {}
      BY <1>1, <2>1 DEF Records
    <3>4. Max(T) \in T
      BY <3>2, <3>3, MaxIsOne
    <3> QED
      BY <3>3, <3>4
  <2>7. key[s] = <<Cardinality({t.records[i].provider : i \in group}),
                   Cardinality({i \in group : t.records[i].succeeded}),
                   s.cutoff, Max({t.records[i].at : i \in group}), s.id>>
    BY DEF GroupRank
  <2> QED
    BY <2>3, <2>4, <2>5, <2>6, <2>7
<1>4. \A s, u \in G : s.id = u.id => s = u
  BY <1>1 DEF Grouped
<1>5. key \in [G -> [1..5 -> Int]] /\ \A s, u \in G : key[s] = key[u] => s = u
  <2>1. key = [s \in G |-> key[s]]
    OBVIOUS
  <2>2. key \in [G -> [1..5 -> Int]]
    BY <1>3, <2>1
  <2> QED
    BY <1>3, <1>4, <2>2
<1>6. \A s, u \in G : <<s, u>> \in R <=> Before(key[s], key[u])
  OBVIOUS
<1>7. Orders(R, G)
  <2>1. 5 \in Nat
    OBVIOUS
  <2> QED
    BY ONLY <1>5, <1>6, <2>1, KeysOrder
<1>8. \E s \in G : \A u \in G \ {s} : <<u, s>> \in R
  BY ONLY <1>2, <1>7, GreatestExists
<1>9. \E s \in G : \A u \in G \ {s} : Before(key[u], key[s])
  BY <1>6, <1>8
<1>10. \E s \in G : \A u \in G \ {s} :
         Before(GroupRank(t, InGroup(t, rows, u), u), GroupRank(t, InGroup(t, rows, s), s))
  BY <1>9
<1>11. Preferred(t, rows) # {} /\ Preferred(t, rows) \subseteq G
  BY <1>10 DEF Preferred
<1> QED
  BY <1>11 DEF SelectedGroup

\* Records are ranked by success, time and number.
LEMMA RowsRanked ==
    ASSUME NEW t, SoundTables(t), NEW rows \in SUBSET (DOMAIN t.records),
           NEW R, R = {x \in rows \X rows : Before(RowRank(t, x[1]), RowRank(t, x[2]))}
    PROVE  /\ Orders(R, rows)
           /\ \A i, j \in rows : <<i, j>> \in R <=> Before(RowRank(t, i), RowRank(t, j))
           /\ \A i, j \in rows :
                t.records[i].succeeded /\ ~t.records[j].succeeded => <<i, j>> \notin R
<1> PICK key : key = [i \in rows |-> RowRank(t, i)]
  OBVIOUS
<1>1. ASSUME NEW i \in rows
      PROVE  /\ key[i] \in [1..3 -> Int] /\ key[i][3] = i
             /\ key[i][1] = IF t.records[i].succeeded THEN 1 ELSE 0
  <2>1. t.records[i].at \in Int /\ i \in Int
    BY RecordsTyped DEF Records
  <2>2. key[i] = <<IF t.records[i].succeeded THEN 1 ELSE 0, t.records[i].at, i>>
    BY DEF RowRank
  <2> QED
    BY <2>1, <2>2
<1>2. key \in [rows -> [1..3 -> Int]] /\ \A i, j \in rows : key[i] = key[j] => i = j
  BY <1>1
<1>3. \A i, j \in rows : <<i, j>> \in R <=> Before(key[i], key[j])
  OBVIOUS
<1>4. Orders(R, rows)
  <2>1. 3 \in Nat
    OBVIOUS
  <2> QED
    BY ONLY <1>2, <1>3, <2>1, KeysOrder
<1>5. ASSUME NEW i \in rows, NEW j \in rows, t.records[i].succeeded, ~t.records[j].succeeded
      PROVE  <<i, j>> \notin R
  <2>1. key[i] \in [1..3 -> Int] /\ key[j] \in [1..3 -> Int] /\ key[i][1] = 1 /\ key[j][1] = 0
    BY <1>1, <1>5
  <2>2. ASSUME NEW n \in 1..3, key[i][n] < key[j][n], \A k \in 1..n - 1 : key[i][k] = key[j][k]
        PROVE  FALSE
    <3>1. n = 1 \/ 1 \in 1..n - 1
      OBVIOUS
    <3> QED
      BY <2>1, <2>2, <3>1
  <2>3. ~Before(key[i], key[j])
    <3>1. DOMAIN key[i] = 1..3
      BY <2>1
    <3> QED
      BY <2>2, <3>1 DEF Before
  <2> QED
    BY <1>3, <2>3
<1> QED
  BY <1>3, <1>4, <1>5

\* Each provider of a group is represented once, by a success if it has one.
LEMMA RepresentativesStand ==
    ASSUME NEW t, SoundTables(t), NEW rows \in SUBSET (DOMAIN t.records)
    PROVE  /\ Representatives(t, rows) \subseteq rows
           /\ rows # {} => Representatives(t, rows) # {}
           /\ \A i, j \in Representatives(t, rows) :
                t.records[i].provider = t.records[j].provider => i = j
           /\ \A i \in Representatives(t, rows), j \in rows :
                t.records[j].provider = t.records[i].provider /\ t.records[j].succeeded =>
                  t.records[i].succeeded
<1> PICK R : R = {x \in rows \X rows : Before(RowRank(t, x[1]), RowRank(t, x[2]))}
  OBVIOUS
<1>1. /\ Orders(R, rows)
      /\ \A i, j \in rows : <<i, j>> \in R <=> Before(RowRank(t, i), RowRank(t, j))
      /\ \A i, j \in rows :
           t.records[i].succeeded /\ ~t.records[j].succeeded => <<i, j>> \notin R
  BY RowsRanked
<1>2. ASSUME NEW i
      PROVE  i \in Representatives(t, rows) <=>
               /\ i \in rows
               /\ \A j \in rows \ {i} : t.records[j].provider = t.records[i].provider => <<j, i>> \in R
  BY <1>1 DEF Representatives
<1>3. ASSUME rows # {} PROVE Representatives(t, rows) # {}
  <2>1. PICK i \in rows : TRUE
    BY <1>3
  <2> PICK own : own = {j \in rows : t.records[j].provider = t.records[i].provider}
    OBVIOUS
  <2>2. IsFiniteSet(own) /\ own # {} /\ own \subseteq rows
    BY RecordsTyped, FS_Subset
  <2>3. Orders(R, own)
    BY <1>1, <2>2 DEF Orders
  <2>4. \E g \in own : \A j \in own \ {g} : <<j, g>> \in R
    BY ONLY <2>2, <2>3, GreatestExists
  <2>5. PICK g \in own : \A j \in own \ {g} : <<j, g>> \in R
    BY <2>4
  <2>6. g \in Representatives(t, rows)
    BY <1>2, <2>5
  <2> QED
    BY <2>6
<1>4. ASSUME NEW i \in Representatives(t, rows), NEW j \in Representatives(t, rows),
             t.records[i].provider = t.records[j].provider
      PROVE  i = j
  <2>1. i # j => <<j, i>> \in R /\ <<i, j>> \in R /\ i \in rows /\ j \in rows
    BY <1>2, <1>4
  <2> QED
    BY <1>1, <2>1 DEF Orders
<1>5. ASSUME NEW i \in Representatives(t, rows), NEW j \in rows,
             t.records[j].provider = t.records[i].provider, t.records[j].succeeded
      PROVE  t.records[i].succeeded
  BY <1>1, <1>2, <1>5
<1> QED
  BY <1>2, <1>3, <1>4, <1>5

\* What is shown of a match: forecasts that stand, of one snapshot.
LEMMA CurrentRowsStand ==
    ASSUME NEW t, SoundTables(t), NEW m, NEW provider,
           NEW rows, rows = CurrentPredictionRows(t, m, provider)
    PROVE  /\ rows \subseteq Candidates(t, m, provider)
           /\ rows = {} <=> Candidates(t, m, provider) = {}
           /\ \A i, j \in rows : /\ t.records[i].snapshot = t.records[j].snapshot
                                 /\ t.records[i].provider = t.records[j].provider => i = j
           /\ \A i \in rows, j \in Candidates(t, m, provider) :
                /\ t.records[j].snapshot = t.records[i].snapshot
                /\ t.records[j].provider = t.records[i].provider
                /\ t.records[j].succeeded
                => t.records[i].succeeded
<1> PICK all : all = Candidates(t, m, provider)
  OBVIOUS
<1>1. CASE all = {}
  BY <1>1 DEF CurrentPredictionRows
<1>2. CASE all # {}
  <2>1. all \in SUBSET (DOMAIN t.records)
    BY CandidatesStand
  <2>2. PICK s : s \in Grouped(t, all) /\ SelectedGroup(t, all) = InGroup(t, all, s)
    BY <1>2, <2>1, GroupSelected
  <2> PICK group : group = InGroup(t, all, s)
    OBVIOUS
  <2>3. /\ group \in SUBSET (DOMAIN t.records) /\ group \subseteq all /\ group # {}
        /\ \A i \in all : i \in group <=> t.records[i].snapshot = s
    BY <2>1, <2>2 DEF InGroup, Grouped
  <2>4. rows = Representatives(t, group)
    BY <1>2, <2>2 DEF CurrentPredictionRows
  <2>5. /\ rows \subseteq group /\ rows # {}
        /\ \A i, j \in rows : t.records[i].provider = t.records[j].provider => i = j
        /\ \A i \in rows, j \in group :
             t.records[j].provider = t.records[i].provider /\ t.records[j].succeeded =>
               t.records[i].succeeded
    BY <2>3, <2>4, RepresentativesStand
  <2> QED
    BY <1>2, <2>3, <2>5
<1> QED
  BY <1>1, <1>2

-----------------------------------------------------------------------------
(* All rows of a query.                                                    *)

ListedRows(t, query) ==
    IF query.endpoint = "schedule" THEN ScheduleRows(t, query) ELSE PredictionRows(t, query, Null)

Direction(t, query) == IF query.endpoint = "schedule" THEN EarliestFirst(t) ELSE NewestFirst(t)

KeyOf(t, query, x) == IF query.endpoint = "schedule" THEN MatchKey(t, x) ELSE RecordKey(t, x)

ItemOf(t, query, x) ==
    IF query.endpoint = "schedule" THEN MatchItem(t, query, x) ELSE RecordItem(t, x)

Items(t, query) == [n \in DOMAIN ListedRows(t, query) |-> ItemOf(t, query, ListedRows(t, query)[n])]

\* The latest start of a match.
LEMMA StartsTyped ==
    ASSUME NEW t, SoundTables(t), NEW m \in MatchesOf(t)
    PROVE  /\ t.starts[m] \in Seq([day : Int, at : Int]) /\ t.starts[m] # <<>>
           /\ Len(t.starts[m]) \in Nat \ {0}
           /\ Last(t.starts[m]) = t.starts[m][Len(t.starts[m])]
           /\ Last(t.starts[m]).at \in Int
<1> PICK S : S = [day : Int, at : Int]
  OBVIOUS
<1>1. t.starts[m] \in Seq(S) /\ t.starts[m] # <<>>
  BY DEF SoundTables
<1>2. Len(t.starts[m]) \in Nat \ {0} /\ t.starts[m][Len(t.starts[m])] \in S
  BY ONLY <1>1
<1> QED
  BY <1>1, <1>2 DEF Last

\* A success is visible, as it has been published.
LEMMA RecordsListed ==
    ASSUME NullIsNoCursor, NEW t, SoundTables(t), NEW query
    PROVE  {i \in DOMAIN t.records : Visible(t, i) /\ OfProvider(t.records[i], query.provider)} =
             {i \in DOMAIN t.records : query.provider \in {Null, t.records[i].provider}}
<1>1. ASSUME NEW i \in DOMAIN t.records PROVE Visible(t, i)
  BY LifeTells DEF Visible, NullIsNoCursor
<1> QED
  BY <1>1 DEF OfProvider

\* A match is listed for a provider if a forecast of it stands.
LEMMA MatchesListed ==
    ASSUME NEW t, SoundTables(t), NEW query
    PROVE  {m \in MatchesOf(t) :
              /\ Last(t.starts[m]).day = query.day
              /\ query.provider # Null => CurrentPredictionRows(t, m, query.provider) # {}} =
           {m \in MatchesOf(t) :
              /\ t.starts[m][Len(t.starts[m])].day = query.day
              /\ query.provider # Null => \E i \in DOMAIN t.records :
                   /\ t.records[i].match = m /\ t.records[i].revision = Len(t.starts[m])
                   /\ t.records[i].provider = query.provider
                   /\ ~Revoked(t, i)}
<1>1. ASSUME NEW m \in MatchesOf(t), query.provider # Null
      PROVE  CurrentPredictionRows(t, m, query.provider) # {} <=>
               \E i \in DOMAIN t.records :
                 /\ t.records[i].match = m /\ t.records[i].revision = Len(t.starts[m])
                 /\ t.records[i].provider = query.provider
                 /\ ~Revoked(t, i)
  <2>1. CurrentPredictionRows(t, m, query.provider) = {} <=> Candidates(t, m, query.provider) = {}
    BY CurrentRowsStand
  <2>2. \A i \in DOMAIN t.records :
          i \in Candidates(t, m, query.provider) <=>
            /\ t.records[i].match = m /\ t.records[i].provider = query.provider
            /\ t.records[i].revision = Len(t.starts[m]) /\ ~Revoked(t, i)
    BY <1>1, CandidatesStand DEF OfProvider
  <2>3. Candidates(t, m, query.provider) \subseteq DOMAIN t.records
    BY CandidatesStand
  <2> QED
    BY <2>1, <2>2, <2>3
<1>2. \A m \in MatchesOf(t) : Last(t.starts[m]).day = t.starts[m][Len(t.starts[m])].day
  BY StartsTyped
<1> QED
  BY <1>1, <1>2

LEMMA RecordsOrdered ==
    ASSUME NEW t, SoundTables(t)
    PROVE  /\ Orders(NewestFirst(t), DOMAIN t.records)
           /\ \A i, j \in DOMAIN t.records :
                <<i, j>> \in NewestFirst(t) <=> Before(RecordKey(t, j), RecordKey(t, i))
           /\ \A i \in DOMAIN t.records : RecordKey(t, i) \in [1..2 -> Int]
<1> PICK S : S = DOMAIN t.records
  OBVIOUS
<1> PICK key : key = [i \in S |-> RecordKey(t, i)]
  OBVIOUS
<1>1. ASSUME NEW i \in S PROVE key[i] \in [1..2 -> Int] /\ key[i][2] = i
  <2>1. t.records[i].at \in Int /\ i \in Int
    BY RecordsTyped DEF Records
  <2>2. key[i] = <<t.records[i].at, i>>
    BY DEF RecordKey
  <2> QED
    BY <2>1, <2>2
<1>2. key \in [S -> [1..2 -> Int]] /\ \A i, j \in S : key[i] = key[j] => i = j
  BY <1>1
<1>3. \A i, j \in S : <<i, j>> \in NewestFirst(t) <=> Before(key[j], key[i])
  BY DEF NewestFirst
<1>4. Orders(NewestFirst(t), S)
  <2>1. 2 \in Nat
    OBVIOUS
  <2> QED
    BY ONLY <1>2, <1>3, <2>1, KeysOrder
<1> QED
  BY <1>1, <1>3, <1>4

LEMMA MatchesOrdered ==
    ASSUME NEW t, SoundTables(t)
    PROVE  /\ Orders(EarliestFirst(t), MatchesOf(t))
           /\ \A m, n \in MatchesOf(t) :
                <<m, n>> \in EarliestFirst(t) <=> Before(MatchKey(t, m), MatchKey(t, n))
           /\ \A m \in MatchesOf(t) : MatchKey(t, m) \in [1..2 -> Int]
<1> PICK S : S = MatchesOf(t)
  OBVIOUS
<1> PICK key : key = [m \in S |-> MatchKey(t, m)]
  OBVIOUS
<1>1. ASSUME NEW m \in S
      PROVE  key[m] \in [1..2 -> Int] /\ key[m][2] = MatchRank[m] /\ m \in DOMAIN MatchRank
  <2>1. Last(t.starts[m]).at \in Int
    BY StartsTyped
  <2>2. m \in DOMAIN MatchRank
    BY DEF SoundTables
  <2>3. MatchRank[m] \in Int
    BY <2>2, ReadAssumption
  <2>4. key[m] = <<Last(t.starts[m]).at, MatchRank[m]>>
    BY DEF MatchKey
  <2> QED
    BY <2>1, <2>2, <2>3, <2>4
<1>2. key \in [S -> [1..2 -> Int]] /\ \A m, n \in S : key[m] = key[n] => m = n
  BY <1>1, ReadAssumption
<1>3. \A m, n \in S : <<m, n>> \in EarliestFirst(t) <=> Before(key[m], key[n])
  BY DEF EarliestFirst
<1>4. Orders(EarliestFirst(t), S)
  <2>1. 2 \in Nat
    OBVIOUS
  <2> QED
    BY ONLY <1>2, <1>3, <2>1, KeysOrder
<1> QED
  BY <1>1, <1>3, <1>4

\* The rows are what is to be listed, in order.
LEMMA RowsListed ==
    ASSUME NullIsNoCursor, NEW t, SoundTables(t), NEW query, SoundQuery(query)
    PROVE  /\ IsFiniteSet(Listed(t, query))
           /\ Orders(Direction(t, query), Listed(t, query))
           /\ ListedRows(t, query) = Ordered(Listed(t, query), Direction(t, query))
           /\ Lists(ListedRows(t, query), Direction(t, query), Listed(t, query))
           /\ \A x, y \in Listed(t, query) :
                <<x, y>> \in Direction(t, query) <=>
                  IF query.endpoint = "schedule"
                  THEN Before(KeyOf(t, query, x), KeyOf(t, query, y))
                  ELSE Before(KeyOf(t, query, y), KeyOf(t, query, x))
           /\ \A x \in Listed(t, query) : KeyOf(t, query, x) \in [1..2 -> Int]
           /\ query.endpoint = "schedule" => Listed(t, query) \subseteq MatchesOf(t)
           /\ query.endpoint # "schedule" => Listed(t, query) \subseteq DOMAIN t.records
<1> PICK S : S = Listed(t, query)
  OBVIOUS
<1> PICK R : R = Direction(t, query)
  OBVIOUS
<1>1. CASE query.endpoint = "schedule"
  <2>1. S \in SUBSET MatchesOf(t) /\ R = EarliestFirst(t)
    BY <1>1 DEF Listed, Direction
  <2>2. ListedRows(t, query) = Ordered(S, R)
    <3> PICK T : T = {m \in MatchesOf(t) :
              /\ Last(t.starts[m]).day = query.day
              /\ query.provider # Null => CurrentPredictionRows(t, m, query.provider) # {}}
      OBVIOUS
    <3>1. T = S
      BY <1>1, MatchesListed DEF Listed
    <3>2. ScheduleRows(t, query) = Ordered(T, EarliestFirst(t))
      BY DEF ScheduleRows
    <3> QED
      BY <1>1, <2>1, <3>1, <3>2 DEF ListedRows
  <2>3. IsFiniteSet(S)
    BY <2>1, FS_Subset DEF SoundTables
  <2>4. Orders(R, S)
    BY <2>1, MatchesOrdered DEF Orders
  <2>5. Lists(ListedRows(t, query), R, S)
    BY <2>2, <2>3, <2>4, OrderedLists
  <2>6. /\ \A x, y \in S : <<x, y>> \in R <=> Before(KeyOf(t, query, x), KeyOf(t, query, y))
        /\ \A x \in S : KeyOf(t, query, x) \in [1..2 -> Int]
    BY <1>1, <2>1, MatchesOrdered DEF KeyOf
  <2> QED
    BY <1>1, <2>1, <2>2, <2>3, <2>4, <2>5, <2>6
<1>2. CASE query.endpoint # "schedule"
  <2>1. S \in SUBSET (DOMAIN t.records) /\ R = NewestFirst(t) /\ query.endpoint = "predictions"
    BY <1>2 DEF Listed, Direction, SoundQuery
  <2>2. ListedRows(t, query) = Ordered(S, R)
    <3> PICK T : T = {i \in DOMAIN t.records : Visible(t, i) /\ OfProvider(t.records[i], query.provider)}
      OBVIOUS
    <3>1. T = S
      BY <2>1, RecordsListed DEF Listed
    <3>2. T = {i \in DOMAIN t.records :
                 /\ Visible(t, i) /\ OfProvider(t.records[i], query.provider)
                 /\ Null # Null => BeyondCursor(RecordKey(t, i), Null)}
      OBVIOUS
    <3>3. PredictionRows(t, query, Null) = Ordered(T, NewestFirst(t))
      BY <3>2 DEF PredictionRows
    <3> QED
      BY <1>2, <2>1, <3>1, <3>3 DEF ListedRows
  <2>3. IsFiniteSet(S)
    BY <2>1, RecordsTyped, FS_Subset
  <2>4. Orders(R, S)
    BY <2>1, RecordsOrdered DEF Orders
  <2>5. Lists(ListedRows(t, query), R, S)
    BY <2>2, <2>3, <2>4, OrderedLists
  <2>6. /\ \A x, y \in S : <<x, y>> \in R <=> Before(KeyOf(t, query, y), KeyOf(t, query, x))
        /\ \A x \in S : KeyOf(t, query, x) \in [1..2 -> Int]
    BY <1>2, <2>1, RecordsOrdered DEF KeyOf
  <2> QED
    BY <1>2, <2>1, <2>2, <2>3, <2>4, <2>5, <2>6
<1> QED
  BY <1>1, <1>2

-----------------------------------------------------------------------------
(* All items of a query.                                                   *)

LEMMA ItemsListed ==
    ASSUME NullIsNoCursor, NEW t, SoundTables(t), NEW query, SoundQuery(query),
           NEW N, N = Cardinality(Listed(t, query)), NEW all, all = Items(t, query)
    PROVE  /\ N \in Nat /\ DOMAIN all = 1..N /\ Len(all) = N /\ all \in Seq(Range(all))
           /\ \A n \in 1..N : /\ all[n].of \in Listed(t, query)
                              /\ all[n].of = ListedRows(t, query)[n]
                              /\ all[n] = ItemOf(t, query, all[n].of)
                              /\ all[n].key = KeyOf(t, query, all[n].of)
           /\ \A a, b \in 1..N : a < b =>
                /\ all[a].of # all[b].of
                /\ all[a].key # all[b].key
                /\ IF query.endpoint = "schedule" THEN Before(all[a].key, all[b].key)
                   ELSE Before(all[b].key, all[a].key)
           /\ \A x \in Listed(t, query) : \E n \in 1..N : all[n].of = x
<1> PICK f : f = ListedRows(t, query)
  OBVIOUS
<1> PICK S : S = Listed(t, query)
  OBVIOUS
<1> PICK R : R = Direction(t, query)
  OBVIOUS
<1>1. /\ IsFiniteSet(S) /\ Orders(R, S) /\ Lists(f, R, S)
      /\ \A x, y \in S : <<x, y>> \in R <=>
           IF query.endpoint = "schedule" THEN Before(KeyOf(t, query, x), KeyOf(t, query, y))
           ELSE Before(KeyOf(t, query, y), KeyOf(t, query, x))
      /\ \A x \in S : KeyOf(t, query, x) \in [1..2 -> Int]
  BY RowsListed
<1>2. N \in Nat
  BY <1>1, FS_CardinalityType
<1>3. f \in [1..N -> S] /\ (\A a, b \in 1..N : f[a] = f[b] => a = b)
      /\ (\A x \in S : \E a \in 1..N : f[a] = x)
      /\ \A a, b \in 1..N : a < b <=> <<f[a], f[b]>> \in R
  BY <1>1 DEF Lists, Bijection, Injection, IsInjective, Surjection
<1>4. all = [n \in 1..N |-> ItemOf(t, query, f[n])]
  BY <1>3 DEF Items
<1>5. ASSUME NEW x
      PROVE  ItemOf(t, query, x).of = x /\ ItemOf(t, query, x).key = KeyOf(t, query, x)
  BY DEF ItemOf, KeyOf, MatchItem, RecordItem
<1>6. DOMAIN all = 1..N /\ Len(all) = N /\ all \in Seq(Range(all))
  <2>1. DOMAIN all = 1..N
    BY <1>4
  <2>2. all \in [1..N -> Range(all)]
    BY <1>4 DEF Range
  <2>3. all \in Seq(Range(all))
    BY <1>2, <2>2, SeqDef
  <2>4. Len(all) \in Nat /\ DOMAIN all = 1..Len(all)
    BY ONLY <2>3
  <2>5. Len(all) = N
    BY <1>2, <2>1, <2>4
  <2> QED
    BY <2>1, <2>3, <2>5
<1>7. ASSUME NEW n \in 1..N
      PROVE  /\ all[n].of \in S /\ all[n].of = f[n]
             /\ all[n] = ItemOf(t, query, all[n].of) /\ all[n].key = KeyOf(t, query, all[n].of)
  <2>1. all[n] = ItemOf(t, query, f[n])
    BY <1>4
  <2> QED
    BY <1>3, <1>5, <2>1
<1>8. ASSUME NEW a \in 1..N, NEW b \in 1..N, a < b
      PROVE  /\ all[a].of # all[b].of /\ all[a].key # all[b].key
             /\ IF query.endpoint = "schedule" THEN Before(all[a].key, all[b].key)
                ELSE Before(all[b].key, all[a].key)
  <2>1. /\ all[a].of = f[a] /\ all[b].of = f[b] /\ f[a] \in S /\ f[b] \in S
        /\ all[a].key = KeyOf(t, query, f[a]) /\ all[b].key = KeyOf(t, query, f[b])
    BY <1>3, <1>7
  <2>2. a # b /\ <<f[a], f[b]>> \in R
    BY <1>3, <1>8
  <2>3. IF query.endpoint = "schedule" THEN Before(all[a].key, all[b].key)
        ELSE Before(all[b].key, all[a].key)
    BY <1>1, <2>1, <2>2
  <2>4. all[a].key \in [1..2 -> Int] /\ all[b].key \in [1..2 -> Int] /\ 2 \in Nat
    BY <1>1, <2>1
  <2>5. ~Before(all[a].key, all[a].key)
    BY <2>4, TuplesOrdered
  <2>6. all[a].of # all[b].of
    BY <1>3, <2>1, <2>2
  <2> QED
    BY <2>3, <2>5, <2>6
<1>9. ASSUME NEW x \in S PROVE \E n \in 1..N : all[n].of = x
  BY <1>3, <1>7
<1> QED
  BY <1>2, <1>6, <1>7, <1>8, <1>9

\* What an item shows is true of the tables it was read from.
LEMMA OutcomesTrue ==
    ASSUME NullIsNoCursor, NEW t, SoundTables(t), NEW query, SoundQuery(query),
           NEW x \in Listed(t, query), NEW item, item = ItemOf(t, query, x)
    PROVE  /\ query.endpoint = "schedule" => SoundOutcomes(t, item)
           /\ \A o \in item.outcomes :
                o.status = "published" <=>
                  t.records[o.record].succeeded /\ ~Revoked(t, o.record)
<1> PICK rows : rows = IF query.endpoint = "schedule"
                       THEN CurrentPredictionRows(t, x, query.provider) ELSE {x}
  OBVIOUS
<1>1. rows \subseteq DOMAIN t.records
  <2>1. CASE query.endpoint = "schedule"
    BY <2>1, CurrentRowsStand, CandidatesStand
  <2>2. CASE query.endpoint # "schedule"
    BY <2>2, RowsListed
  <2> QED
    BY <2>1, <2>2
<1>2. item.of = x /\ item.outcomes = Outcomes(t, rows)
  BY DEF ItemOf, MatchItem, RecordItem
<1>3. ASSUME NEW o \in item.outcomes
      PROVE  \E i \in rows : o = [record |-> i, provider |-> t.records[i].provider,
                                  status |-> Status(t, i)]
  BY <1>2, <1>3 DEF Outcomes
<1>4. ASSUME NEW i \in DOMAIN t.records
      PROVE  /\ Status(t, i) = "published" <=> t.records[i].succeeded /\ ~Revoked(t, i)
             /\ Status(t, i) = "failed" <=> ~t.records[i].succeeded
  <2>1. CASE t.records[i].succeeded
    BY <2>1, LifeTells DEF Status
  <2>2. CASE ~t.records[i].succeeded
    BY <2>2 DEF Status
  <2> QED
    BY <2>1, <2>2
<1>5. ASSUME query.endpoint = "schedule" PROVE SoundOutcomes(t, item)
  <2> PICK stand : stand = Candidates(t, x, query.provider)
    OBVIOUS
  <2>1. /\ rows \subseteq stand
        /\ \A i, j \in rows : /\ t.records[i].snapshot = t.records[j].snapshot
                              /\ t.records[i].provider = t.records[j].provider => i = j
        /\ \A i \in rows, j \in stand :
             /\ t.records[j].snapshot = t.records[i].snapshot
             /\ t.records[j].provider = t.records[i].provider
             /\ t.records[j].succeeded
             => t.records[i].succeeded
    BY <1>5, CurrentRowsStand
  <2>2. \A i \in DOMAIN t.records :
          i \in stand <=> /\ t.records[i].match = x /\ OfProvider(t.records[i], query.provider)
                          /\ t.records[i].revision = Len(t.starts[x]) /\ ~Revoked(t, i)
    BY CandidatesStand
  <2>3. ASSUME NEW o \in item.outcomes
        PROVE  /\ t.records[o.record].match = item.of
               /\ t.records[o.record].revision = Len(t.starts[item.of])
               /\ ~Revoked(t, o.record)
               /\ o.status = "failed" => \A i \in DOMAIN t.records :
                    t.records[i] = [t.records[o.record] EXCEPT !.succeeded = TRUE, !.at = t.records[i].at]
                      => Revoked(t, i)
    <3>1. PICK j \in rows : o = [record |-> j, provider |-> t.records[j].provider,
                                 status |-> Status(t, j)]
      BY <1>3
    <3>2. /\ j \in DOMAIN t.records /\ t.records[j].match = x
          /\ OfProvider(t.records[j], query.provider)
          /\ t.records[j].revision = Len(t.starts[x]) /\ ~Revoked(t, j)
      BY <1>1, <2>1, <2>2
    <3>3. ASSUME o.status = "failed", NEW i \in DOMAIN t.records,
                 t.records[i] = [t.records[j] EXCEPT !.succeeded = TRUE, !.at = t.records[i].at]
          PROVE  Revoked(t, i)
      <4>1. ~t.records[j].succeeded
        BY <1>4, <3>1, <3>2, <3>3
      <4>2. t.records[j] \in Records(MatchesOf(t)) /\ t.records[i] \in Records(MatchesOf(t))
        BY <3>2, RecordsTyped
      <4>3. /\ t.records[i].succeeded /\ t.records[i].match = t.records[j].match
            /\ t.records[i].revision = t.records[j].revision
            /\ t.records[i].snapshot = t.records[j].snapshot
            /\ t.records[i].provider = t.records[j].provider
        BY <3>3, <4>2 DEF Records
      <4>4. i \notin stand
        BY <2>1, <4>1, <4>3
      <4>5. OfProvider(t.records[i], query.provider)
        BY <3>2, <4>3 DEF OfProvider
      <4> QED
        BY <2>2, <3>2, <4>3, <4>4, <4>5
    <3> QED
      BY <1>2, <3>1, <3>2, <3>3
  <2>4. ASSUME NEW o \in item.outcomes, NEW other \in item.outcomes
        PROVE  /\ t.records[o.record].snapshot = t.records[other.record].snapshot
               /\ o.provider = other.provider => o = other
    <3>1. PICK j \in rows : o = [record |-> j, provider |-> t.records[j].provider,
                                 status |-> Status(t, j)]
      BY <1>3
    <3>2. PICK i \in rows : other = [record |-> i, provider |-> t.records[i].provider,
                                     status |-> Status(t, i)]
      BY <1>3
    <3> QED
      BY <2>1, <3>1, <3>2
  <2> QED
    BY <2>3, <2>4 DEF SoundOutcomes
<1>6. ASSUME NEW o \in item.outcomes
      PROVE  o.status = "published" <=> t.records[o.record].succeeded /\ ~Revoked(t, o.record)
  <2>1. PICK j \in rows : o = [record |-> j, provider |-> t.records[j].provider,
                               status |-> Status(t, j)]
    BY <1>3
  <2> QED
    BY <1>1, <1>4, <2>1
<1> QED
  BY <1>5, <1>6

-----------------------------------------------------------------------------
(* A page.                                                                 *)

LEMMA MinOfTwo ==
    ASSUME NEW a \in Int, NEW b \in Int
    PROVE  Min({a, b}) = IF a <= b THEN a ELSE b
<1>1. CASE a <= b
  <2>1. a \in {a, b} /\ \A x \in {a, b} : a <= x
    BY <1>1
  <2>2. \A x \in {a, b} : (\A y \in {a, b} : x <= y) => x = a
    BY <1>1
  <2> QED
    BY <1>1, <2>1, <2>2 DEF Min
<1>2. CASE b < a
  <2>1. b \in {a, b} /\ \A x \in {a, b} : b <= x
    BY <1>2
  <2>2. \A x \in {a, b} : (\A y \in {a, b} : x <= y) => x = b
    BY <1>2
  <2> QED
    BY <1>2, <2>1, <2>2 DEF Min
<1> QED
  BY <1>1, <1>2

LEMMA MinOfOne ==
    ASSUME NEW a \in Int
    PROVE  Min({a}) = a
<1>1. {a} = {a, a}
  OBVIOUS
<1> QED
  BY <1>1, MinOfTwo

LEMMA LeadingItems ==
    ASSUME NEW S, NEW s \in Seq(S), NEW n \in Nat, NEW l, l = Leading(s, n)
    PROVE  /\ l \in Seq(S) /\ Len(l) = (IF n <= Len(s) THEN n ELSE Len(s))
           /\ \A i \in 1..Len(l) : l[i] = s[i]
<1> PICK k : k = IF n <= Len(s) THEN n ELSE Len(s)
  OBVIOUS
<1>1. Len(s) \in Nat /\ k \in Nat /\ k <= Len(s) /\ \A i \in 1..Len(s) : s[i] \in S
  OBVIOUS
<1>2. Min({n, Len(s)}) = k
  BY <1>1, MinOfTwo
<1>3. l = SubSeq(s, 1, k)
  BY <1>2 DEF Leading
<1>4. \A i \in 1..k : s[i] \in S
  BY <1>1
<1>5. /\ l \in Seq(S) /\ Len(l) = (IF 1 <= k THEN k - 1 + 1 ELSE 0)
      /\ \A i \in 1..k - 1 + 1 : l[i] = s[1 + i - 1]
  BY <1>1, <1>3, <1>4, SubSeqProperties
<1>6. Len(l) = k
  BY <1>1, <1>5
<1>7. \A i \in 1..k : i \in 1..k - 1 + 1 /\ 1 + i - 1 = i
  BY <1>1
<1> QED
  BY <1>5, <1>6, <1>7

\* What the page may say when the first k items have been shown: items k + 1
\* to p, and where to go on, if p is not the last.
Follows(response, all, revision, k, p) ==
    /\ response.status = 200
    /\ response.items \in Seq(Range(all)) /\ Len(response.items) = p - k
    /\ \A n \in 1..p - k : response.items[n] = all[k + n]
    /\ p = Len(all) => response.cursor = Null
    /\ p < Len(all) => p > k /\ response.cursor = [revision |-> revision, key |-> all[p].key]

\* What a response says of the items it is given.
LEMMA ResponseFollows ==
    ASSUME NullIsNoCursor, NEW t, SoundTables(t), NEW query, SoundQuery(query),
           NEW all, all = Items(t, query), NEW k \in 0..Len(all), NEW p \in k..Len(all),
           NEW items \in Seq(Range(all)), Len(items) = p - k,
           \A n \in 1..p - k : items[n] = all[k + n],
           p < Len(all) => p > k, NEW more, more <=> p < Len(all)
    PROVE  Follows(Response(t, query, items, more), all, EndpointRevision(t, query.endpoint), k, p)
<1> PICK response : response = Response(t, query, items, more)
  OBVIOUS
<1> SUFFICES Follows(response, all, EndpointRevision(t, query.endpoint), k, p)
  OBVIOUS
<1>1. Len(all) \in Nat
  BY ItemsListed
<1>2. CASE p < Len(all)
  <2>1. more /\ p > k
    BY <1>2
  <2>2. Len(items) \in Nat \ {0} /\ items # <<>>
    BY <1>1, <2>1
  <2>3. Last(items) = all[p]
    <3>1. p - k \in 1..p - k /\ k + (p - k) = p
      BY <1>1, <2>1
    <3> QED
      BY <3>1 DEF Last
  <2>4. Response(t, query, items, more) =
          [status |-> 200, items |-> items,
           cursor |-> [revision |-> EndpointRevision(t, query.endpoint), key |-> all[p].key]]
    BY <2>1, <2>2, <2>3 DEF Response
  <2>5. /\ response.status = 200 /\ response.items = items
        /\ response.cursor = [revision |-> EndpointRevision(t, query.endpoint), key |-> all[p].key]
    BY <2>4
  <2>6. \A n \in 1..p - k : response.items[n] = all[k + n]
    BY <2>5
  <2>7. p # Len(all)
    BY <1>1, <1>2
  <2>8. response.items \in Seq(Range(all)) /\ Len(response.items) = p - k
    BY <2>5
  <2> QED
    BY ONLY <2>1, <2>5, <2>6, <2>7, <2>8 DEF Follows
<1>3. CASE p = Len(all)
  <2>1. ~more
    BY <1>1, <1>3
  <2>2. Response(t, query, items, more) = [status |-> 200, items |-> items, cursor |-> Null]
    BY <2>1 DEF Response
  <2> QED
    BY <1>1, <1>3, <2>2 DEF Follows
<1> QED
  BY <1>1, <1>2, <1>3

\* Where the cursor ends is found.
LEMMA StartFound ==
    ASSUME NullIsNoCursor, NEW t, SoundTables(t), NEW query, SoundQuery(query),
           NEW all, all = Items(t, query), NEW k \in 1..Len(all),
           NEW cursor, cursor # Null, cursor.key = all[k].key
    PROVE  StartAfter(all, cursor) = k
<1>1. Len(all) \in Nat /\ DOMAIN all = 1..Len(all)
      /\ \A a, b \in 1..Len(all) : a < b => all[a].key # all[b].key
  BY ItemsListed
<1>2. \A n \in DOMAIN all : all[n].key = cursor.key <=> n = k
  <2>1. \A n \in 1..Len(all) : n = k \/ n < k \/ k < n
    BY <1>1
  <2> QED
    BY <1>1, <2>1
<1>3. {n \in DOMAIN all : all[n].key = cursor.key} = {k}
  BY <1>1, <1>2
<1>4. Min({k}) = k
  BY MinOfOne
<1> QED
  BY <1>3, <1>4 DEF StartAfter

\* A page of the schedule.
LEMMA IndexPageFollows ==
    ASSUME NullIsNoCursor, NEW t, SoundTables(t), NEW query, SoundQuery(query),
           NEW all, all = Items(t, query), NEW k \in 0..Len(all)
    PROVE  \E p \in k..Len(all) :
             Follows(IndexPage(t, query, all, k), all, EndpointRevision(t, query.endpoint), k, p)
<1> PICK N : N = Len(all)
  OBVIOUS
<1> PICK S : S = Range(all)
  OBVIOUS
<1>1. N \in Nat /\ all \in Seq(S) /\ DOMAIN all = 1..N
  BY ItemsListed
<1>2. query.limit \in Nat \ {0}
  BY DEF SoundQuery
<1> PICK rest : rest = SubSeq(all, k + 1, N)
  OBVIOUS
<1>3. rest \in Seq(S) /\ Len(rest) = N - k /\ \A n \in 1..N - k : rest[n] = all[k + n]
  <2>1. \A n \in k + 1..N : all[n] \in S
    BY <1>1 DEF Range
  <2>2. /\ rest \in Seq(S) /\ Len(rest) = (IF k + 1 <= N THEN N - (k + 1) + 1 ELSE 0)
        /\ \A n \in 1..N - (k + 1) + 1 : rest[n] = all[k + 1 + n - 1]
    <3>1. k + 1 \in Int /\ N \in Int
      BY <1>1
    <3> QED
      BY ONLY <2>1, <3>1, rest = SubSeq(all, k + 1, N), SubSeqProperties
  <2>3. \A n \in 1..N - k : n \in 1..N - (k + 1) + 1 /\ k + 1 + n - 1 = k + n
    BY <1>1
  <2>4. Len(rest) = N - k
    BY <1>1, <2>2
  <2> QED
    BY <2>2, <2>3, <2>4
<1> PICK page : page = Leading(rest, query.limit)
  OBVIOUS
<1>4. /\ page \in Seq(S)
      /\ Len(page) = IF query.limit <= Len(rest) THEN query.limit ELSE Len(rest)
      /\ \A n \in 1..Len(page) : page[n] = rest[n]
  <2>1. page = Leading(rest, query.limit) /\ rest \in Seq(S) /\ query.limit \in Nat
    BY <1>2, <1>3
  <2> QED
    BY ONLY <2>1, LeadingItems
<1> PICK p : p = k + Len(page)
  OBVIOUS
<1>5. p \in k..N /\ Len(page) = p - k /\ (p < N => p > k) /\ (k + query.limit < N <=> p < N)
  <2> PICK size : size = Len(page)
    OBVIOUS
  <2> PICK left : left = Len(rest)
    OBVIOUS
  <2>1. left \in Nat /\ left = N - k
    BY <1>1, <1>3
  <2>2. size = IF query.limit <= left THEN query.limit ELSE left
    BY <1>4
  <2>3. size \in Nat /\ size <= left /\ (size < left <=> query.limit < left)
    BY <1>2, <2>1, <2>2
  <2>4. p = k + size
    OBVIOUS
  <2>5. size < left => size = query.limit
    BY <1>2, <2>1, <2>2
  <2>6. k \in Nat
    BY <1>1
  <2>7. p \in k..N /\ size = p - k /\ (k + query.limit < N <=> p < N)
    BY ONLY <1>1, <1>2, <2>1, <2>3, <2>4, <2>6
  <2>8. p < N => p > k
    BY ONLY <1>1, <1>2, <2>1, <2>3, <2>4, <2>5, <2>6
  <2> QED
    BY <2>7, <2>8
<1>6. ASSUME NEW n \in 1..p - k PROVE page[n] = all[k + n]
  <2>1. n \in 1..Len(page) /\ n \in 1..N - k
    BY <1>1, <1>5
  <2> QED
    BY <1>3, <1>4, <2>1
<1>7. Follows(Response(t, query, page, k + query.limit < N), all,
              EndpointRevision(t, query.endpoint), k, p)
  <2>1. /\ k \in 0..Len(all) /\ p \in k..Len(all)
        /\ page \in Seq(Range(all)) /\ Len(page) = p - k /\ (p < Len(all) => p > k)
        /\ (k + query.limit < N <=> p < Len(all))
    BY <1>4, <1>5
  <2>2. \A n \in 1..p - k : page[n] = all[k + n]
    BY <1>6
  <2> QED
    BY ONLY NullIsNoCursor, SoundTables(t), SoundQuery(query), all = Items(t, query), <2>1, <2>2,
            ResponseFollows
<1>8. IndexPage(t, query, all, k) = Response(t, query, page, k + query.limit < N)
  <2>1. k # -1
    BY <1>1
  <2> QED
    BY <2>1 DEF IndexPage
<1> QED
  BY <1>5, <1>7, <1>8

\* The rows beyond the boundary are those that follow it.
LEMMA RowsBeyond ==
    ASSUME NullIsNoCursor, NEW t, SoundTables(t), NEW query, SoundQuery(query),
           query.endpoint = "predictions",
           NEW all, all = Items(t, query), NEW k \in 0..Len(all),
           NEW boundary, boundary = IF k = 0 THEN Null ELSE all[k].key,
           NEW rows, rows = PredictionRows(t, query, boundary)
    PROVE  /\ rows \in Seq(Listed(t, query)) /\ Len(rows) = Len(all) - k
           /\ \A n \in 1..Len(all) - k : RecordItem(t, rows[n]) = all[k + n]
<1> PICK N : N = Len(all)
  OBVIOUS
<1> PICK S : S = Listed(t, query)
  OBVIOUS
<1> PICK R : R = Direction(t, query)
  OBVIOUS
<1> PICK f : f = ListedRows(t, query)
  OBVIOUS
<1>1. /\ IsFiniteSet(S) /\ Orders(R, S) /\ Lists(f, R, S) /\ f = Ordered(S, R)
      /\ S \subseteq DOMAIN t.records
      /\ \A x, y \in S : <<x, y>> \in R <=> Before(RecordKey(t, y), RecordKey(t, x))
  BY RowsListed DEF KeyOf
<1>2. /\ N = Cardinality(S) /\ N \in Nat
      /\ \A n \in 1..N : /\ all[n].of = f[n] /\ f[n] \in S /\ all[n] = RecordItem(t, f[n])
                         /\ all[n].key = RecordKey(t, f[n])
  BY ItemsListed DEF ItemOf, KeyOf
<1>3. R = NewestFirst(t)
  BY DEF Direction
<1>4. S = {i \in DOMAIN t.records : Visible(t, i) /\ OfProvider(t.records[i], query.provider)}
  BY RecordsListed DEF Listed
<1> PICK T : T = {i \in DOMAIN t.records :
                    /\ Visible(t, i) /\ OfProvider(t.records[i], query.provider)
                    /\ boundary # Null => BeyondCursor(RecordKey(t, i), boundary)}
  OBVIOUS
<1>5. rows = Ordered(T, R)
  BY <1>3 DEF PredictionRows
<1>6. T \in SUBSET S
  BY <1>4
<1>7. /\ Cardinality(T) = N - k
      /\ \A n \in 1..N - k : rows[n] = f[k + n]
  <2>1. CASE k = 0
    <3>1. T = S
      BY <1>4, <2>1
    <3>2. N - k = N /\ \A n \in 1..N : k + n = n
      BY <1>2, <2>1
    <3> QED
      BY <1>1, <1>2, <1>5, <3>1, <3>2
  <2>2. CASE k # 0
    <3>1. k \in 1..N
      BY <1>2, <2>2
    <3>2. boundary = RecordKey(t, f[k]) /\ f[k] \in S
      BY <1>2, <2>2, <3>1
    <3>3. boundary # Null
      BY <3>2 DEF RecordKey, NullIsNoCursor
    <3>4. \A x \in S : BeyondCursor(RecordKey(t, x), boundary) <=> <<f[k], x>> \in R
      BY <1>1, <3>2 DEF BeyondCursor
    <3>5. T = {x \in S : <<f[k], x>> \in R}
      BY <1>4, <3>3, <3>4
    <3> QED
      BY <1>1, <1>2, <1>5, <3>1, <3>5, RestListed
  <2> QED
    BY <2>1, <2>2
<1>8. rows \in [1..N - k -> S]
  <2>1. IsFiniteSet(T)
    BY <1>1, <1>6, FS_Subset
  <2>2. Orders(R, T)
    BY <1>1, <1>6 DEF Orders
  <2>3. Lists(rows, R, T)
    BY <1>5, <2>1, <2>2, OrderedLists
  <2>4. rows \in [1..Cardinality(T) -> T]
    BY <2>3 DEF Lists, Bijection, Injection
  <2> QED
    BY <1>6, <1>7, <2>4
<1>9. N - k \in Nat
  BY <1>2
<1>10. rows \in Seq(S)
  BY <1>8, <1>9, SeqDef
<1>11. Len(rows) = N - k
  <2>1. Len(rows) \in Nat /\ DOMAIN rows = 1..Len(rows)
    BY <1>10
  <2>2. DOMAIN rows = 1..N - k
    BY <1>8
  <2> QED
    BY <1>9, <2>1, <2>2
<1>12. ASSUME NEW n \in 1..N - k PROVE RecordItem(t, rows[n]) = all[k + n]
  <2>1. k + n \in 1..N
    BY <1>2
  <2> QED
    BY <1>2, <1>7, <2>1
<1> QED
  BY <1>10, <1>11, <1>12

\* A page of the history: one row more is read than is shown.
LEMMA DatabasePageFollows ==
    ASSUME NullIsNoCursor, NEW t, SoundTables(t), NEW query, SoundQuery(query),
           query.endpoint = "predictions",
           NEW all, all = Items(t, query), NEW k \in 0..Len(all),
           NEW boundary, boundary = IF k = 0 THEN Null ELSE all[k].key,
           NEW rows, rows = Leading(PredictionRows(t, query, boundary), query.limit + 1),
           NEW page, page = Leading(rows, query.limit),
           NEW items, items = [n \in DOMAIN page |-> RecordItem(t, page[n])]
    PROVE  \E p \in k..Len(all) :
             Follows(Response(t, query, items, Len(rows) > query.limit),
                     all, EndpointRevision(t, query.endpoint), k, p)
<1> PICK N : N = Len(all)
  OBVIOUS
<1> PICK S : S = Listed(t, query)
  OBVIOUS
<1> PICK rest : rest = PredictionRows(t, query, boundary)
  OBVIOUS
<1> PICK left : left = N - k
  OBVIOUS
<1>1. /\ rest \in Seq(S) /\ Len(rest) = left
      /\ \A n \in 1..left : RecordItem(t, rest[n]) = all[k + n]
  BY RowsBeyond
<1>2. N \in Nat /\ DOMAIN all = 1..N
  BY ItemsListed
<1>3. left \in Nat /\ k \in Nat /\ N = k + left
  BY <1>2
<1> PICK limit : limit = query.limit
  OBVIOUS
<1>4. limit \in Nat \ {0} /\ limit + 1 \in Nat
  BY DEF SoundQuery
<1>5. /\ rows \in Seq(S) /\ Len(rows) = (IF limit + 1 <= left THEN limit + 1 ELSE left)
      /\ \A n \in 1..Len(rows) : rows[n] = rest[n]
  <2>1. rows = Leading(rest, limit + 1) /\ rest \in Seq(S) /\ limit + 1 \in Nat
    BY <1>1, <1>4
  <2>2. /\ rows \in Seq(S) /\ Len(rows) = (IF limit + 1 <= Len(rest) THEN limit + 1 ELSE Len(rest))
        /\ \A n \in 1..Len(rows) : rows[n] = rest[n]
    BY ONLY <2>1, LeadingItems
  <2> QED
    BY <1>1, <2>2
<1>6. /\ page \in Seq(S) /\ Len(page) = (IF limit <= Len(rows) THEN limit ELSE Len(rows))
      /\ \A n \in 1..Len(page) : page[n] = rows[n]
  <2>1. page = Leading(rows, limit) /\ rows \in Seq(S) /\ limit \in Nat
    BY <1>4, <1>5
  <2> QED
    BY ONLY <2>1, LeadingItems
<1> PICK size : size = Len(page)
  OBVIOUS
<1> PICK p : p = k + size
  OBVIOUS
<1> PICK read : read = Len(rows)
  OBVIOUS
<1>7. /\ read = (IF limit + 1 <= left THEN limit + 1 ELSE left)
      /\ size = (IF limit <= read THEN limit ELSE read)
  BY <1>5, <1>6
<1>8. /\ size \in Nat /\ read \in Nat /\ size <= read /\ read <= left
      /\ (read > limit <=> size < left) /\ (size < left => size > 0)
  BY ONLY <1>3, <1>4, <1>7
<1>9. /\ p \in k..N /\ size = p - k /\ (p < N => p > k) /\ (read > limit <=> p < N)
  BY ONLY <1>3, <1>8, p = k + size
<1>10. DOMAIN page = 1..size /\ DOMAIN items = 1..size
  BY <1>6
<1>11. ASSUME NEW n \in 1..size PROVE items[n] = all[k + n] /\ all[k + n] \in Range(all)
  <2>1. n \in 1..read /\ n \in 1..left /\ k + n \in 1..N
    BY <1>3, <1>8
  <2>2. page[n] = rest[n]
    BY <1>5, <1>6, <2>1
  <2>3. items[n] = all[k + n]
    BY <1>1, <1>10, <2>1, <2>2
  <2> QED
    BY <1>2, <2>1, <2>3 DEF Range
<1>12. items \in Seq(Range(all)) /\ Len(items) = size
  <2>1. items = [n \in 1..size |-> items[n]]
    BY <1>10
  <2>2. items \in [1..size -> Range(all)]
    BY ONLY <1>11, <2>1
  <2>5. size \in Nat
    BY ONLY <1>8
  <2>3. items \in Seq(Range(all))
    BY ONLY <2>5, <2>2, SeqDef
  <2>4. Len(items) \in Nat /\ DOMAIN items = 1..Len(items)
    BY ONLY <2>3
  <2> QED
    BY <1>8, <1>10, <2>3, <2>4
<1> PICK more : more = (Len(rows) > query.limit)
  OBVIOUS
<1>13. Follows(Response(t, query, items, more), all, EndpointRevision(t, query.endpoint), k, p)
  <2>1. /\ k \in 0..Len(all) /\ p \in k..Len(all)
        /\ items \in Seq(Range(all)) /\ Len(items) = p - k /\ (p < Len(all) => p > k)
    BY ONLY <1>9, <1>12, N = Len(all), k \in 0..Len(all)
  <2>2. \A n \in 1..p - k : items[n] = all[k + n]
    BY ONLY <1>9, <1>11
  <2>3. more <=> p < Len(all)
    BY <1>9
  <2> QED
    BY ONLY NullIsNoCursor, SoundTables(t), SoundQuery(query), all = Items(t, query), <2>1, <2>2, <2>3,
            ResponseFollows
<1>14. p \in k..Len(all)
  BY <1>9
<1> QED
  BY ONLY <1>13, <1>14, more = (Len(rows) > query.limit), Zenon

\* The cursor of a client that has been shown the first k items.
Reached(cursor, all, revision, k) ==
    IF k = 0 THEN cursor = Null ELSE cursor = [revision |-> revision, key |-> all[k].key]

\* A request that is not turned away goes on where the last page ended.
LEMMA ReadFollows ==
    ASSUME NullIsNoCursor, NEW t, SoundTables(t), NEW query, SoundQuery(query),
           NEW all, all = Items(t, query), NEW k \in 0..Len(all),
           NEW cursor, Reached(cursor, all, EndpointRevision(t, query.endpoint), k)
    PROVE  \E p \in k..Len(all) :
             Follows(Read(t, query, cursor), all, EndpointRevision(t, query.endpoint), k, p)
<1> PICK revision : revision = EndpointRevision(t, query.endpoint)
  OBVIOUS
<1>1. Len(all) \in Nat
  BY ItemsListed
<1>2. cursor = Null <=> k = 0
  BY DEF Reached, NullIsNoCursor
<1>3. k # 0 => cursor.key = all[k].key /\ cursor.revision = revision
  BY DEF Reached
<1>4. ~Stale(t, query, cursor)
  BY <1>2, <1>3 DEF Stale
<1>5. CASE query.endpoint = "schedule"
  <2> PICK rows : rows = ScheduleRows(t, query)
    OBVIOUS
  <2>1. all = [n \in DOMAIN rows |-> MatchItem(t, query, rows[n])]
    BY <1>5 DEF Items, ListedRows, ItemOf
  <2>2. Read(t, query, cursor) = IndexPage(t, query, all, StartAfter(all, cursor))
    BY <1>4, <1>5, <2>1 DEF Read, Schedule
  <2>3. StartAfter(all, cursor) = k
    <3>1. CASE k = 0
      BY <1>2, <3>1 DEF StartAfter
    <3>2. CASE k # 0
      <4>1. k \in 1..Len(all) /\ cursor # Null /\ cursor.key = all[k].key
        BY <1>1, <1>2, <1>3, <3>2
      <4> QED
        BY <4>1, StartFound
    <3> QED
      BY <3>1, <3>2
  <2> QED
    BY <2>2, <2>3, IndexPageFollows
<1>6. CASE query.endpoint = "predictions"
  <2> PICK boundary : boundary = IF cursor = Null THEN Null ELSE cursor.key
    OBVIOUS
  <2>1. boundary = IF k = 0 THEN Null ELSE all[k].key
    BY <1>2, <1>3
  <2> PICK rows : rows = Leading(PredictionRows(t, query, boundary), query.limit + 1)
    OBVIOUS
  <2> PICK page : page = Leading(rows, query.limit)
    OBVIOUS
  <2> PICK items : items = [n \in DOMAIN page |-> RecordItem(t, page[n])]
    OBVIOUS
  <2>2. PredictionHistory(t, query, cursor) = Response(t, query, items, Len(rows) > query.limit)
    <3>1. rows = Leading(PredictionRows(t, query, IF cursor = Null THEN Null ELSE cursor.key),
                         query.limit + 1)
      OBVIOUS
    <3> QED
      BY <1>4, <3>1 DEF PredictionHistory
  <2>3. Read(t, query, cursor) = Response(t, query, items, Len(rows) > query.limit)
    BY <1>6, <2>2 DEF Read
  <2>4. \E p \in k..Len(all) :
          Follows(Response(t, query, items, Len(rows) > query.limit),
                  all, EndpointRevision(t, query.endpoint), k, p)
    BY <1>6, <2>1, DatabasePageFollows
  <2> QED
    BY <2>3, <2>4
<1> QED
  BY <1>5, <1>6 DEF SoundQuery

-----------------------------------------------------------------------------
(* What the fingerprint says.                                              *)

SameTables(s, t) == s.starts = t.starts /\ s.records = t.records /\ s.events = t.events

LEMMA SameLives ==
    ASSUME NEW s, NEW t, SameTables(s, t)
    PROVE  /\ MatchesOf(s) = MatchesOf(t)
           /\ \A i : Life(s, i) = Life(t, i)
           /\ \A i : Visible(s, i) = Visible(t, i)
           /\ \A i : Status(s, i) = Status(t, i)
           /\ \A i : RecordKey(s, i) = RecordKey(t, i)
           /\ \A m : MatchKey(s, m) = MatchKey(t, m)
           /\ NewestFirst(s) = NewestFirst(t)
           /\ EarliestFirst(s) = EarliestFirst(t)
<1>1. MatchesOf(s) = MatchesOf(t)
  BY DEF MatchesOf, SameTables
<1>2. ASSUME NEW i PROVE Life(s, i) = Life(t, i)
  BY DEF Life, SameTables
<1>3. ASSUME NEW i PROVE Visible(s, i) = Visible(t, i)
  BY <1>2 DEF Visible, SameTables
<1>4. ASSUME NEW i PROVE Status(s, i) = Status(t, i)
  BY <1>2 DEF Status, SameTables
<1>5. ASSUME NEW i PROVE RecordKey(s, i) = RecordKey(t, i)
  BY DEF RecordKey, SameTables
<1>6. ASSUME NEW m PROVE MatchKey(s, m) = MatchKey(t, m)
  BY DEF MatchKey, SameTables
<1>7. NewestFirst(s) = NewestFirst(t)
  BY <1>5 DEF NewestFirst, SameTables
<1>8. EarliestFirst(s) = EarliestFirst(t)
  BY <1>1, <1>6 DEF EarliestFirst, SameTables
<1> QED
  BY <1>1, <1>2, <1>3, <1>4, <1>5, <1>6, <1>7, <1>8

LEMMA SameForecasts ==
    ASSUME NEW s, NEW t, SameTables(s, t)
    PROVE  /\ \A m, provider : CurrentPredictionRows(s, m, provider) = CurrentPredictionRows(t, m, provider)
           /\ \A rows : Outcomes(s, rows) = Outcomes(t, rows)
<1>1. ASSUME NEW m, NEW provider PROVE Candidates(s, m, provider) = Candidates(t, m, provider)
  BY SameLives DEF Candidates, SameTables
<1>2. ASSUME NEW rows PROVE Grouped(s, rows) = Grouped(t, rows)
  BY DEF Grouped, SameTables
<1>3. ASSUME NEW rows, NEW snapshot PROVE InGroup(s, rows, snapshot) = InGroup(t, rows, snapshot)
  BY DEF InGroup, SameTables
<1>4. ASSUME NEW group, NEW snapshot PROVE GroupRank(s, group, snapshot) = GroupRank(t, group, snapshot)
  BY DEF GroupRank, SameTables
<1>5. ASSUME NEW rows PROVE SelectedGroup(s, rows) = SelectedGroup(t, rows)
  <2>1. Preferred(s, rows) = Preferred(t, rows)
    BY <1>2, <1>3, <1>4 DEF Preferred
  <2> QED
    BY <1>3, <2>1 DEF SelectedGroup
<1>6. ASSUME NEW i PROVE RowRank(s, i) = RowRank(t, i)
  BY DEF RowRank, SameTables
<1>7. ASSUME NEW group PROVE Representatives(s, group) = Representatives(t, group)
  BY <1>6 DEF Representatives, SameTables
<1>8. ASSUME NEW m, NEW provider
      PROVE  CurrentPredictionRows(s, m, provider) = CurrentPredictionRows(t, m, provider)
  BY <1>1, <1>5, <1>7 DEF CurrentPredictionRows
<1>9. ASSUME NEW rows PROVE Outcomes(s, rows) = Outcomes(t, rows)
  BY SameLives DEF Outcomes, SameTables
<1> QED
  BY <1>8, <1>9

LEMMA SameItems ==
    ASSUME NEW s, NEW t, SameTables(s, t), NEW query
    PROVE  Items(s, query) = Items(t, query)
<1>1. ScheduleRows(s, query) = ScheduleRows(t, query)
  BY SameLives, SameForecasts DEF ScheduleRows, SameTables
<1>2. PredictionRows(s, query, Null) = PredictionRows(t, query, Null)
  BY SameLives DEF PredictionRows, SameTables
<1>3. ListedRows(s, query) = ListedRows(t, query)
  BY <1>1, <1>2 DEF ListedRows
<1>4. ASSUME NEW x PROVE ItemOf(s, query, x) = ItemOf(t, query, x)
  BY SameLives, SameForecasts DEF ItemOf, MatchItem, RecordItem
<1> QED
  BY <1>3, <1>4 DEF Items

Extended(a, b) == Len(a) <= Len(b) /\ \A n \in 1..Len(a) : b[n] = a[n]

\* The tables only grow.
Grown(s, t) ==
    /\ MatchesOf(s) = MatchesOf(t)
    /\ \A m \in MatchesOf(s) : Extended(s.starts[m], t.starts[m])
    /\ Extended(s.records, t.records)
    /\ Extended(s.events, t.events)

\* Counts that are equal leave no room for growth.
LEMMA SumsTell ==
    ASSUME NEW f, NEW g, NEW S, IsFiniteSet(S),
           \A x \in S : f[x] \in Nat /\ g[x] \in Nat /\ f[x] <= g[x],
           SumFunctionOnSet(f, S) = SumFunctionOnSet(g, S)
    PROVE  \A x \in S : f[x] = g[x]
<1> SUFFICES ASSUME NEW a \in S PROVE f[a] = g[a]
  OBVIOUS
<1> PICK T : T = S \ {a}
  OBVIOUS
<1>1. IsFiniteSet(T) /\ \A x \in T : f[x] \in Nat /\ g[x] \in Nat /\ f[x] <= g[x]
  BY FS_RemoveElement
<1>2. SumFunctionOnSet(f, S) = f[a] + SumFunctionOnSet(f, T)
  BY SumSplit
<1>3. SumFunctionOnSet(g, S) = g[a] + SumFunctionOnSet(g, T)
  BY SumSplit
<1>4. SumFunctionOnSet(f, T) <= SumFunctionOnSet(g, T)
  BY <1>1, SumGrows
<1>5. SumFunctionOnSet(f, T) \in Nat
  BY <1>1, SumIsNat
<1>6. SumFunctionOnSet(g, T) \in Nat
  BY <1>1, SumIsNat
<1>7. f[a] \in Nat /\ g[a] \in Nat /\ f[a] <= g[a]
  OBVIOUS
<1>8. f[a] + SumFunctionOnSet(f, T) = g[a] + SumFunctionOnSet(g, T)
  BY <1>2, <1>3
<1> QED
  BY ONLY <1>4, <1>5, <1>6, <1>7, <1>8

\* Tables that grew and have the same fingerprint are the same.
LEMMA RevisionTells ==
    ASSUME NEW s, NEW t, SoundTables(s), SoundTables(t), Grown(s, t), NEW endpoint,
           EndpointRevision(s, endpoint) = EndpointRevision(t, endpoint)
    PROVE  SameTables(s, t)
<1> PICK S : S = MatchesOf(s)
  OBVIOUS
<1>1. S = MatchesOf(t) /\ IsFiniteSet(S)
  BY DEF Grown, SoundTables
<1> PICK f : f = [m \in S |-> Len(s.starts[m])]
  OBVIOUS
<1> PICK g : g = [m \in S |-> Len(t.starts[m])]
  OBVIOUS
<1> PICK won : won = {i \in DOMAIN s.records : s.records[i].succeeded}
  OBVIOUS
<1> PICK wonThen : wonThen = {i \in DOMAIN t.records : t.records[i].succeeded}
  OBVIOUS
<1> PICK lost : lost = {i \in DOMAIN s.records : ~s.records[i].succeeded}
  OBVIOUS
<1> PICK lostThen : lostThen = {i \in DOMAIN t.records : ~t.records[i].succeeded}
  OBVIOUS
<1>2. /\ SumFunctionOnSet(f, S) = SumFunctionOnSet(g, S)
      /\ Cardinality(won) = Cardinality(wonThen) /\ Cardinality(lost) = Cardinality(lostThen)
      /\ Len(s.events) = Len(t.events)
  <2>1. EndpointRevision(s, endpoint) =
          [revisions |-> SumFunctionOnSet(f, S), predictions |-> Cardinality(won),
           attempts |-> Cardinality(lost), events |-> Len(s.events),
           evaluations |-> IF endpoint = "predictions" THEN s.evaluations ELSE 0]
    BY DEF EndpointRevision
  <2>2. EndpointRevision(t, endpoint) =
          [revisions |-> SumFunctionOnSet(g, S), predictions |-> Cardinality(wonThen),
           attempts |-> Cardinality(lostThen), events |-> Len(t.events),
           evaluations |-> IF endpoint = "predictions" THEN t.evaluations ELSE 0]
    BY <1>1 DEF EndpointRevision
  <2> PICK a : a = EndpointRevision(s, endpoint)
    OBVIOUS
  <2>3. /\ a.revisions = SumFunctionOnSet(f, S) /\ a.predictions = Cardinality(won)
        /\ a.attempts = Cardinality(lost) /\ a.events = Len(s.events)
    BY ONLY <2>1, a = EndpointRevision(s, endpoint)
  <2>4. /\ a.revisions = SumFunctionOnSet(g, S) /\ a.predictions = Cardinality(wonThen)
        /\ a.attempts = Cardinality(lostThen) /\ a.events = Len(t.events)
    BY ONLY <2>2, a = EndpointRevision(s, endpoint),
            EndpointRevision(s, endpoint) = EndpointRevision(t, endpoint)
  <2> QED
    BY ONLY <2>3, <2>4
<1>3. s.starts = t.starts
  <2>1. ASSUME NEW m \in S
        PROVE  /\ f[m] \in Nat /\ g[m] \in Nat /\ f[m] <= g[m]
               /\ f[m] = Len(s.starts[m]) /\ g[m] = Len(t.starts[m])
    <3>1. f[m] = Len(s.starts[m]) /\ g[m] = Len(t.starts[m])
      OBVIOUS
    <3>2. Len(s.starts[m]) \in Nat /\ Len(t.starts[m]) \in Nat
      BY <1>1, StartsTyped
    <3>3. Len(s.starts[m]) <= Len(t.starts[m])
      BY DEF Grown, Extended
    <3> QED
      BY <3>1, <3>2, <3>3
  <2>2. \A m \in S : f[m] = g[m]
    BY ONLY <1>1, <1>2, <2>1, SumsTell
  <2>3. ASSUME NEW m \in S PROVE s.starts[m] = t.starts[m]
    <3> PICK X : X = [day : Int, at : Int]
      OBVIOUS
    <3> PICK a : a = s.starts[m]
      OBVIOUS
    <3> PICK b : b = t.starts[m]
      OBVIOUS
    <3>1. a \in Seq(X) /\ b \in Seq(X)
      BY <1>1, StartsTyped
    <3>2. Len(a) = Len(b)
      BY <2>1, <2>2
    <3>3. \A n \in 1..Len(a) : a[n] = b[n]
      BY DEF Grown, Extended
    <3>4. a = b
      BY ONLY <3>1, <3>2, <3>3, SeqEqual
    <3> QED
      BY <3>4
  <2>4. s.starts = [m \in S |-> s.starts[m]] /\ t.starts = [m \in S |-> t.starts[m]]
    BY <1>1 DEF SoundTables
  <2>5. [m \in S |-> s.starts[m]] = [m \in S |-> t.starts[m]]
    BY <2>3
  <2> QED
    BY ONLY <2>4, <2>5
<1>4. s.records = t.records
  <2>1. /\ Len(s.records) \in Nat /\ DOMAIN s.records = 1..Len(s.records)
        /\ Len(t.records) \in Nat /\ DOMAIN t.records = 1..Len(t.records)
        /\ IsFiniteSet(DOMAIN t.records)
    BY RecordsTyped
  <2>2. Len(s.records) <= Len(t.records) /\ \A i \in 1..Len(s.records) : t.records[i] = s.records[i]
    BY DEF Grown, Extended
  <2>3. won \in SUBSET wonThen /\ lost \in SUBSET lostThen
    BY <2>1, <2>2
  <2>4. IsFiniteSet(wonThen) /\ IsFiniteSet(lostThen)
    BY <2>1, FS_Subset
  <2>5. wonThen = won
    BY ONLY <1>2, <2>3, <2>4, FS_Subset
  <2>6. lostThen = lost
    BY ONLY <1>2, <2>3, <2>4, FS_Subset
  <2>7. DOMAIN t.records = DOMAIN s.records
    <3>1. \A i \in DOMAIN t.records : i \in wonThen \/ i \in lostThen
      OBVIOUS
    <3>2. \A i \in DOMAIN t.records : i \in DOMAIN s.records
      BY <2>5, <2>6, <3>1
    <3>3. \A i \in DOMAIN s.records : i \in DOMAIN t.records
      BY <2>1, <2>2
    <3> QED
      BY <3>2, <3>3
  <2>8. Len(s.records) = Len(t.records)
    <3>1. Len(t.records) = 0 \/ Len(t.records) \in 1..Len(s.records)
      BY <2>1, <2>7
    <3> QED
      BY <2>1, <2>2, <3>1
  <2> PICK X : X = Records(S)
    OBVIOUS
  <2>9. s.records \in Seq(X) /\ t.records \in Seq(X)
    BY <1>1 DEF SoundTables
  <2> QED
    BY ONLY <2>2, <2>8, <2>9, SeqEqual
<1>5. s.events = t.events
  <2> PICK X : X = [record : DOMAIN s.records, type : {"published", "voided"}]
    OBVIOUS
  <2>1. s.events \in Seq(X) /\ t.events \in Seq(X)
    BY <1>4 DEF SoundTables, SoundEvents
  <2>2. \A n \in 1..Len(s.events) : t.events[n] = s.events[n]
    BY DEF Grown, Extended
  <2> QED
    BY ONLY <1>2, <2>1, <2>2, SeqEqual
<1> QED
  BY <1>3, <1>4, <1>5 DEF SameTables

-----------------------------------------------------------------------------
(* The walk.                                                               *)

WalkFields == {"phase", "query", "cursor", "seen", "shown"}

\* The walk has shown the beginning of all, in order, and its cursor stands
\* where that ends.
Shows(w, all) ==
    /\ w.shown \in Seq(Range(all)) /\ Len(w.shown) <= Len(all)
    /\ \A n \in 1..Len(w.shown) : w.shown[n] = all[n]
    /\ w.phase = "complete" => Len(w.shown) = Len(all)
    /\ w.phase = "open" =>
         /\ Len(w.shown) # 0
         /\ Reached(w.cursor, all, EndpointRevision(w.seen, w.query.endpoint), Len(w.shown))

Walking(w, t) ==
    /\ w = [f \in WalkFields |-> w[f]]
    /\ w.phase \in {"open", "complete", "refused"}
    /\ SoundQuery(w.query) /\ SoundTables(w.seen) /\ Grown(w.seen, t)
    /\ Shows(w, Items(w.seen, w.query))

ReadInv == SoundTables(tables) /\ (walk = NotReading \/ Walking(walk, tables))

\* The first k of all.
FirstOf(shown, all, k) ==
    shown \in Seq(Range(all)) /\ Len(shown) = k /\ \A n \in 1..k : shown[n] = all[n]

\* A page is joined to what the walk has shown.
LEMMA PageJoins ==
    ASSUME NullIsNoCursor, NEW w, w = [f \in WalkFields |-> w[f]],
           NEW all, Len(all) \in Nat, NEW k \in 0..Len(all), NEW p \in k..Len(all),
           FirstOf(w.shown, all, k),
           NEW response,
           Follows(response, all, EndpointRevision(w.seen, w.query.endpoint), k, p),
           NEW u, u = PageTurned(w, response)
    PROVE  /\ u = [f \in WalkFields |-> u[f]] /\ u.phase \in {"open", "complete"}
           /\ u.query = w.query /\ u.seen = w.seen /\ Shows(u, all)
<1> PICK revision : revision = EndpointRevision(w.seen, w.query.endpoint)
  OBVIOUS
<1> PICK S : S = Range(all)
  OBVIOUS
<1>1. /\ response.status = 200 /\ response.items \in Seq(S) /\ Len(response.items) = p - k
      /\ \A n \in 1..p - k : response.items[n] = all[k + n]
      /\ p = Len(all) => response.cursor = Null
      /\ p < Len(all) => p > k /\ response.cursor = [revision |-> revision, key |-> all[p].key]
  BY DEF Follows
<1>2. /\ u = [f \in WalkFields |-> u[f]] /\ u.query = w.query /\ u.seen = w.seen
      /\ u.phase = (IF response.cursor = Null THEN "complete" ELSE "open")
      /\ u.cursor = response.cursor /\ u.shown = w.shown \o response.items
  BY <1>1 DEF PageTurned, WalkFields
<1> PICK a : a = w.shown
  OBVIOUS
<1> PICK b : b = response.items
  OBVIOUS
<1> PICK c : c = a \o b
  OBVIOUS
<1>3. k \in Nat /\ p \in Nat /\ k <= p /\ p <= Len(all)
  OBVIOUS
<1>4. a \in Seq(S) /\ b \in Seq(S) /\ Len(a) = k /\ Len(b) = p - k /\ \A n \in 1..k : a[n] = all[n]
  BY <1>1 DEF FirstOf
<1>5. c \in Seq(S) /\ Len(c) = p /\ \A n \in 1..p : c[n] = IF n <= k THEN a[n] ELSE b[n - k]
  <2>1. /\ c \in Seq(S) /\ Len(c) = Len(a) + Len(b)
        /\ \A i \in 1 .. Len(a) + Len(b) : c[i] = IF i <= Len(a) THEN a[i] ELSE b[i - Len(a)]
    BY ONLY <1>4, c = a \o b, ConcatProperties
  <2>2. Len(a) + Len(b) = p
    BY <1>3, <1>4
  <2> QED
    BY ONLY <1>4, <2>1, <2>2
<1>6. ASSUME NEW n \in 1..p PROVE c[n] = all[n]
  <2>1. n \in Nat /\ n >= 1 /\ n <= p
    BY <1>3
  <2>2. CASE n <= k
    <3>1. n \in 1..k
      BY ONLY <1>3, <2>1, <2>2
    <3>2. a[n] = all[n]
      BY <1>4, <3>1
    <3> QED
      BY <1>5, <2>2, <3>2
  <2>3. CASE ~ (n <= k)
    <3> PICK j : j = n - k
      OBVIOUS
    <3>1. j \in 1..p - k /\ k + j = n
      BY ONLY <1>3, <2>1, <2>3, j = n - k
    <3>2. b[j] = all[k + j]
      BY <1>1, <3>1
    <3>3. c[n] = b[j]
      BY <1>5, <2>3
    <3> QED
      BY ONLY <3>1, <3>2, <3>3
  <2> QED
    BY <2>2, <2>3
<1>7. u.phase = "complete" => p = Len(all)
  BY <1>1, <1>2, <1>3 DEF NullIsNoCursor
<1>8. u.phase = "open" => p # 0 /\ Reached(u.cursor, all, revision, p)
  <2> SUFFICES ASSUME u.phase = "open" PROVE p # 0 /\ Reached(u.cursor, all, revision, p)
    OBVIOUS
  <2>1. response.cursor # Null
    BY <1>2
  <2>2. p < Len(all)
    BY <1>1, <1>3, <2>1
  <2> QED
    BY <1>1, <1>2, <1>3, <2>2 DEF Reached
<1>9. Shows(u, all)
  <2>1. u.shown = c
    BY <1>2
  <2>2. revision = EndpointRevision(u.seen, u.query.endpoint)
    BY <1>2
  <2> QED
    BY <1>3, <1>5, <1>6, <1>7, <1>8, <2>1, <2>2 DEF Shows
<1> QED
  BY <1>2, <1>9

\* A walk that is turned away keeps what it has shown.
LEMMA RefusalKeeps ==
    ASSUME NEW w, w = [f \in WalkFields |-> w[f]], NEW all, Shows(w, all), NEW status,
           status # 200, NEW u, u = PageTurned(w, Refusal(status))
    PROVE  /\ u = [f \in WalkFields |-> u[f]] /\ u.phase = "refused"
           /\ u.query = w.query /\ u.seen = w.seen /\ Shows(u, all)
<1>1. /\ u = [f \in WalkFields |-> u[f]] /\ u.phase = "refused"
      /\ u.query = w.query /\ u.seen = w.seen /\ u.shown = w.shown \o <<>>
  BY DEF PageTurned, WalkFields, Refusal
<1> PICK S : S = Range(all)
  OBVIOUS
<1>2. w.shown \in Seq(S)
  BY DEF Shows
<1>3. w.shown \o <<>> = w.shown
  BY <1>2, ConcatEmptySeq
<1>4. u.shown = w.shown
  BY <1>1, <1>3
<1> QED
  BY <1>1, <1>4 DEF Shows

LEMMA GrownReflexive ==
    ASSUME NEW t, SoundTables(t)
    PROVE  Grown(t, t)
<1>1. Len(t.records) \in Nat
  BY RecordsTyped
<1>2. \A m \in MatchesOf(t) : Len(t.starts[m]) \in Nat
  BY StartsTyped
<1>3. Len(t.events) \in Nat
  BY DEF SoundTables, SoundEvents
<1> QED
  BY <1>1, <1>2, <1>3 DEF Grown, Extended

LEMMA GrownTransitive ==
    ASSUME NEW s, NEW t, NEW u, SoundTables(s), SoundTables(t), SoundTables(u), Grown(s, t), Grown(t, u)
    PROVE  Grown(s, u)
<1>1. ASSUME NEW a, NEW b, NEW c, Len(a) \in Nat, Len(b) \in Nat, Len(c) \in Nat,
             Extended(a, b), Extended(b, c)
      PROVE  Extended(a, c)
  BY <1>1 DEF Extended
<1>2. \A v \in {s, t, u} : Len(v.records) \in Nat /\ Len(v.events) \in Nat
  BY RecordsTyped DEF SoundTables, SoundEvents
<1>3. \A v \in {s, t, u} : \A m \in MatchesOf(s) : Len(v.starts[m]) \in Nat
  BY StartsTyped DEF Grown
<1>4. Extended(s.records, u.records)
  BY <1>1, <1>2 DEF Grown
<1>5. Extended(s.events, u.events)
  BY <1>1, <1>2 DEF Grown
<1>6. \A m \in MatchesOf(s) : Extended(s.starts[m], u.starts[m])
  BY <1>1, <1>3 DEF Grown
<1> QED
  BY <1>4, <1>5, <1>6 DEF Grown

\* b is a with x behind it.
Appended(a, b, x, S) ==
    /\ Len(a) \in Nat /\ Len(b) = Len(a) + 1 /\ b \in Seq(S)
    /\ DOMAIN a = 1..Len(a) /\ DOMAIN b = 1..Len(a) + 1
    /\ \A n \in 1..Len(a) : b[n] = a[n]
    /\ b[Len(a) + 1] = x
    /\ Extended(a, b)

LEMMA AppendExtends ==
    ASSUME NEW S, NEW a, a \in Seq(S), NEW x, x \in S, NEW b, b = Append(a, x)
    PROVE  Appended(a, b, x, S)
<1>1. Len(a) \in Nat /\ DOMAIN a = 1..Len(a)
  OBVIOUS
<1>2. /\ b \in Seq(S) /\ Len(b) = Len(a) + 1
      /\ \A n \in 1..Len(a) : b[n] = a[n]
      /\ b[Len(a) + 1] = x
  BY ONLY a \in Seq(S), x \in S, b = Append(a, x), AppendProperties
<1>3. DOMAIN b = 1..Len(a) + 1
  BY <1>2
<1> QED
  BY <1>1, <1>2, <1>3 DEF Appended, Extended

LEMMA SameEvents ==
    ASSUME NEW t, SoundEvents(t), NEW u, u.records = t.records, u.events = t.events
    PROVE  SoundEvents(u)
BY Zenon DEF SoundEvents

\* What a write leaves alone stays sound.
LEMMA RestSound ==
    ASSUME NEW t, SoundTables(t), NEW u, u = [f \in TableFields |-> u[f]],
           MatchesOf(u) = MatchesOf(t), u.arrivals = t.arrivals, u.evaluations = t.evaluations,
           u.writes = t.writes, u.queries = t.queries,
           u.starts \in [MatchesOf(u) -> Seq([day : Int, at : Int]) \ {<<>>}],
           u.records \in Seq(Records(MatchesOf(u))),
           \A r, s \in Range(u.records) \cup u.arrivals :
             r.snapshot.id = s.snapshot.id => r.snapshot = s.snapshot,
           SoundEvents(u)
    PROVE  SoundTables(u)
<1>1. /\ IsFiniteSet(MatchesOf(u)) /\ MatchesOf(u) \subseteq DOMAIN MatchRank
      /\ u.arrivals \subseteq Records(MatchesOf(u))
      /\ u.evaluations \in Nat /\ u.writes \in Nat
      /\ \A query \in u.queries : SoundQuery(query)
  BY DEF SoundTables
<1> QED
  BY <1>1 DEF SoundTables

\* A new schedule of a match.
LEMMA ScheduleWritten ==
    ASSUME NEW t, SoundTables(t), NEW m \in MatchesOf(t), NEW x \in [day : Int, at : Int],
           NEW u, u = WithStart(t, m, x)
    PROVE  SoundTables(u) /\ Grown(t, u) /\ u.writes = t.writes
<1>1. t = [f \in TableFields |-> t[f]]
  BY DEF SoundTables
<1> PICK S : S = [day : Int, at : Int]
  OBVIOUS
<1> PICK a : a = t.starts[m]
  OBVIOUS
<1> PICK b : b = Append(a, x)
  OBVIOUS
<1>2. /\ u = [f \in TableFields |-> u[f]] /\ u.starts = [t.starts EXCEPT ![m] = b]
      /\ u.records = t.records /\ u.events = t.events /\ u.arrivals = t.arrivals
      /\ u.evaluations = t.evaluations /\ u.writes = t.writes /\ u.queries = t.queries
  BY <1>1 DEF TableFields, WithStart
<1>3. MatchesOf(u) = MatchesOf(t)
  BY <1>2 DEF MatchesOf
<1>4. a \in Seq(S) /\ Len(b) = Len(a) + 1 /\ b \in Seq(S) /\ Extended(a, b) /\ Len(a) \in Nat
  <2>1. a \in Seq(S) /\ x \in S
    BY StartsTyped
  <2>2. Appended(a, b, x, S)
    BY ONLY <2>1, b = Append(a, x), AppendExtends
  <2> QED
    BY <2>1, <2>2 DEF Appended
<1>5. b # <<>>
  <2>1. Len(<<>>) = 0
    OBVIOUS
  <2> QED
    BY <1>4, <2>1
<1>6. t.starts \in [MatchesOf(t) -> Seq(S) \ {<<>>}]
  BY DEF SoundTables
<1>7. /\ u.starts \in [MatchesOf(u) -> Seq(S) \ {<<>>}]
      /\ u.starts[m] = b /\ \A k \in MatchesOf(t) \ {m} : u.starts[k] = t.starts[k]
  <2>1. b \in Seq(S) \ {<<>>}
    BY <1>4, <1>5
  <2> PICK M : M = MatchesOf(t)
    OBVIOUS
  <2>2. /\ t.starts \in [M -> Seq(S) \ {<<>>}] /\ m \in M /\ MatchesOf(u) = M
        /\ u.starts = [t.starts EXCEPT ![m] = b]
    BY <1>2, <1>3, <1>6
  <2>3. /\ u.starts \in [M -> Seq(S) \ {<<>>}]
        /\ u.starts[m] = b /\ \A k \in M \ {m} : u.starts[k] = t.starts[k]
    BY ONLY <2>1, <2>2
  <2> QED
    BY <2>2, <2>3
<1>8. SoundTables(u)
  <2>1. SoundEvents(u)
    BY <1>2, SameEvents DEF SoundTables
  <2>2. u.records \in Seq(Records(MatchesOf(u)))
    BY <1>2, <1>3 DEF SoundTables
  <2>3. \A q, z \in Range(u.records) \cup u.arrivals :
          q.snapshot.id = z.snapshot.id => q.snapshot = z.snapshot
    <3>1. \A q, z \in Range(t.records) \cup t.arrivals :
            q.snapshot.id = z.snapshot.id => q.snapshot = z.snapshot
      BY DEF SoundTables
    <3> QED
      BY ONLY <1>2, <3>1
  <2> QED
    BY ONLY SoundTables(t), <1>2, <1>3, <1>7, <2>1, <2>2, <2>3, S = [day : Int, at : Int], RestSound
<1>9. \A k \in MatchesOf(t) : Extended(t.starts[k], u.starts[k])
  BY <1>4, <1>7, GrownReflexive DEF Grown
<1>10. Extended(t.records, u.records) /\ Extended(t.events, u.events)
  BY <1>2, GrownReflexive DEF Grown
<1> QED
  BY <1>2, <1>3, <1>8, <1>9, <1>10 DEF Grown

\* A prediction, published with it, or a failed attempt.
LEMMA RecordWritten ==
    ASSUME NEW t, SoundTables(t), NEW r \in t.arrivals,
           NEW u, u = WithRecord(t, r)
    PROVE  SoundTables(u) /\ Grown(t, u) /\ u.writes = t.writes
<1>1. t = [f \in TableFields |-> t[f]]
  BY DEF SoundTables
<1> PICK N : N = Len(t.records)
  OBVIOUS
<1> PICK S : S = Records(MatchesOf(t))
  OBVIOUS
<1> PICK e : e = [record |-> N + 1, type |-> "published"]
  OBVIOUS
<1> PICK a : a = t.events
  OBVIOUS
<1> PICK b : b = IF r.succeeded THEN Append(a, e) ELSE a
  OBVIOUS
<1> PICK rows : rows = Append(t.records, r)
  OBVIOUS
<1>2. /\ u = [f \in TableFields |-> u[f]] /\ u.starts = t.starts
      /\ u.records = rows /\ u.events = b /\ u.arrivals = t.arrivals
      /\ u.evaluations = t.evaluations /\ u.writes = t.writes /\ u.queries = t.queries
  BY <1>1 DEF TableFields, WithRecord
<1>3. MatchesOf(u) = MatchesOf(t)
  BY <1>2 DEF MatchesOf
<1>4. t.records \in Seq(S) /\ r \in S /\ r.succeeded \in BOOLEAN
  BY DEF SoundTables, Records
<1>5. /\ N \in Nat /\ Len(rows) = N + 1 /\ rows \in Seq(S)
      /\ DOMAIN t.records = 1..N /\ DOMAIN rows = 1..N + 1
      /\ \A n \in 1..N : rows[n] = t.records[n]
      /\ rows[N + 1] = r
      /\ Extended(t.records, rows)
  <2>1. Appended(t.records, rows, r, S)
    BY ONLY <1>4, rows = Append(t.records, r), AppendExtends
  <2> QED
    BY <2>1 DEF Appended
<1> PICK E : E = [record : 1..N, type : {"published", "voided"}]
  OBVIOUS
<1> PICK F : F = [record : 1..N + 1, type : {"published", "voided"}]
  OBVIOUS
<1>6. /\ a \in Seq(E)
      /\ \A i \in 1..N : t.records[i].succeeded <=> \E n \in DOMAIN a : a[n].record = i
      /\ \A n, k \in DOMAIN a : a[n].type = "voided" /\ a[k].record = a[n].record => k <= n
  BY <1>5 DEF SoundTables, SoundEvents
<1>7. Len(a) \in Nat /\ DOMAIN a = 1..Len(a) /\ \A n \in DOMAIN a : a[n] \in E
  BY ONLY <1>6
<1>8. E \in SUBSET F /\ e \in F /\ N + 1 \notin 1..N
  BY <1>5
<1>9. a \in Seq(F)
  BY ONLY <1>6, <1>7, <1>8
<1>10. \A n \in DOMAIN a : a[n].record \in 1..N
  BY <1>7
<1>11. /\ b \in Seq(F) /\ Extended(a, b)
       /\ \A n \in DOMAIN a : n \in DOMAIN b /\ b[n] = a[n]
       /\ \A n \in DOMAIN b : n \in DOMAIN a \/ (r.succeeded /\ n = Len(a) + 1 /\ b[n] = e)
       /\ r.succeeded => Len(a) + 1 \in DOMAIN b /\ b[Len(a) + 1] = e
  <2>1. CASE r.succeeded
    <3>1. b = Append(a, e)
      BY <2>1
    <3>2. /\ Len(b) = Len(a) + 1 /\ b \in Seq(F) /\ DOMAIN b = 1..Len(a) + 1
          /\ \A n \in 1..Len(a) : b[n] = a[n]
          /\ b[Len(a) + 1] = e /\ Extended(a, b)
      <4>1. Appended(a, b, e, F)
        BY ONLY <1>8, <1>9, <3>1, AppendExtends
      <4> QED
        BY ONLY <4>1 DEF Appended
    <3>3. \A n \in 1..Len(a) + 1 : n \in 1..Len(a) \/ n = Len(a) + 1
      BY <1>7
    <3>4. \A n \in 1..Len(a) : n \in 1..Len(a) + 1
      BY <1>7
    <3>5. Len(a) + 1 \in 1..Len(a) + 1
      BY <1>7
    <3> QED
      BY <1>7, <2>1, <3>2, <3>3, <3>4, <3>5
  <2>2. CASE ~ r.succeeded
    <3>1. b = a
      BY <2>2
    <3> QED
      BY <1>7, <1>9, <2>2, <3>1 DEF Extended
  <2> QED
    BY <2>1, <2>2
<1>12. ASSUME NEW i \in 1..N + 1
       PROVE  rows[i].succeeded <=> \E n \in DOMAIN b : b[n].record = i
  <2>1. CASE i \in 1..N
    <3>1. rows[i].succeeded <=> \E n \in DOMAIN a : a[n].record = i
      BY <1>5, <1>6, <2>1
    <3>2. e.record = N + 1 /\ i # N + 1
      BY <1>8, <2>1
    <3> QED
      BY <1>11, <3>1, <3>2
  <2>2. CASE i = N + 1
    <3>1. rows[i] = r /\ e.record = i
      BY <1>5, <2>2
    <3>2. \A n \in DOMAIN a : a[n].record # i
      BY <1>8, <1>10, <2>2
    <3> QED
      BY <1>11, <3>1, <3>2
  <2> QED
    BY <1>5, <2>1, <2>2
<1>13. ASSUME NEW n \in DOMAIN b, NEW k \in DOMAIN b, b[n].type = "voided", b[k].record = b[n].record
       PROVE  k <= n
  <2>1. e.type # "voided" /\ e.record = N + 1
    OBVIOUS
  <2>2. n \in DOMAIN a /\ b[n] = a[n]
    BY <1>11, <1>13, <2>1
  <2>3. b[k] # e
    BY <1>8, <1>10, <1>13, <2>1, <2>2
  <2>4. k \in DOMAIN a /\ b[k] = a[k]
    BY <1>11, <2>3
  <2> QED
    BY <1>6, <1>13, <2>2, <2>4
<1>14. SoundEvents(u)
  <2>1. DOMAIN u.records = 1..N + 1
    BY <1>2, <1>5
  <2>2. u.events \in Seq([record : DOMAIN u.records, type : {"published", "voided"}])
    <3>1. u.events = b /\ b \in Seq(F)
      BY <1>2, <1>11
    <3> QED
      BY ONLY <2>1, <3>1, F = [record : 1..N + 1, type : {"published", "voided"}], Zenon
  <2>3. \A i \in DOMAIN u.records :
          u.records[i].succeeded <=> \E n \in DOMAIN u.events : u.events[n].record = i
    <3>1. u.records = rows /\ u.events = b
      BY <1>2
    <3> QED
      BY ONLY <1>12, <2>1, <3>1
  <2>4. \A n, k \in DOMAIN u.events :
          u.events[n].type = "voided" /\ u.events[k].record = u.events[n].record => k <= n
    BY <1>2, <1>13
  <2> QED
    BY ONLY <2>2, <2>3, <2>4 DEF SoundEvents
<1>15. ASSUME NEW q \in Range(u.records) \cup u.arrivals
       PROVE  q \in Range(t.records) \cup t.arrivals
  <2>1. CASE q \in Range(rows)
    <3>1. PICK i \in 1..N + 1 : q = rows[i]
      BY <1>5, <2>1 DEF Range
    <3>2. i \in 1..N \/ i = N + 1
      BY <1>5
    <3> QED
      BY <1>5, <3>1, <3>2 DEF Range
  <2> QED
    BY <1>2, <1>15, <2>1
<1>16. SoundTables(u)
  <2>1. u.records \in Seq(Records(MatchesOf(u)))
    BY <1>2, <1>3, <1>5
  <2>2. \A q, z \in Range(u.records) \cup u.arrivals :
          q.snapshot.id = z.snapshot.id => q.snapshot = z.snapshot
    <3>1. \A q, z \in Range(t.records) \cup t.arrivals :
            q.snapshot.id = z.snapshot.id => q.snapshot = z.snapshot
      BY DEF SoundTables
    <3> QED
      BY ONLY <1>15, <3>1
  <2>3. u.starts \in [MatchesOf(u) -> Seq([day : Int, at : Int]) \ {<<>>}]
    <3>1. t.starts \in [MatchesOf(t) -> Seq([day : Int, at : Int]) \ {<<>>}]
      BY DEF SoundTables
    <3> QED
      BY ONLY <1>2, <1>3, <3>1
  <2> QED
    BY ONLY SoundTables(t), <1>2, <1>3, <1>14, <2>1, <2>2, <2>3, RestSound
<1>17. \A m \in MatchesOf(t) : Extended(t.starts[m], u.starts[m])
  BY <1>2, GrownReflexive DEF Grown
<1> QED
  BY <1>2, <1>3, <1>5, <1>11, <1>16, <1>17 DEF Grown

\* A revocation of a prediction that stands.
LEMMA RevocationWritten ==
    ASSUME NullIsNoCursor, NEW t, SoundTables(t), NEW i \in DOMAIN t.records, Life(t, i) = "published",
           NEW u, u = WithRevocation(t, i)
    PROVE  SoundTables(u) /\ Grown(t, u) /\ u.writes = t.writes
<1>1. t = [f \in TableFields |-> t[f]]
  BY DEF SoundTables
<1> PICK E : E = [record : DOMAIN t.records, type : {"published", "voided"}]
  OBVIOUS
<1> PICK e : e = [record |-> i, type |-> "voided"]
  OBVIOUS
<1> PICK a : a = t.events
  OBVIOUS
<1> PICK b : b = Append(a, e)
  OBVIOUS
<1>2. /\ u = [f \in TableFields |-> u[f]] /\ u.starts = t.starts
      /\ u.records = t.records /\ u.events = b /\ u.arrivals = t.arrivals
      /\ u.evaluations = t.evaluations /\ u.writes = t.writes /\ u.queries = t.queries
  BY <1>1 DEF TableFields, WithRevocation
<1>3. MatchesOf(u) = MatchesOf(t)
  BY <1>2 DEF MatchesOf
<1>4. /\ a \in Seq(E)
      /\ \A x \in DOMAIN t.records : t.records[x].succeeded <=> \E n \in DOMAIN a : a[n].record = x
      /\ \A n, k \in DOMAIN a : a[n].type = "voided" /\ a[k].record = a[n].record => k <= n
  BY DEF SoundTables, SoundEvents
<1>5. Appended(a, b, e, E)
  <2>1. e \in E
    OBVIOUS
  <2> QED
    BY ONLY <1>4, <2>1, b = Append(a, e), AppendExtends
<1>6. /\ Len(a) \in Nat /\ b \in Seq(E) /\ Extended(a, b)
      /\ DOMAIN a = 1..Len(a) /\ DOMAIN b = 1..Len(a) + 1
      /\ \A n \in 1..Len(a) : b[n] = a[n]
      /\ b[Len(a) + 1] = e
  BY <1>5 DEF Appended
<1>7. \A n \in DOMAIN b : n \in DOMAIN a \/ n = Len(a) + 1
  BY ONLY <1>6
<1>8. t.records[i].succeeded /\ ~ Revoked(t, i)
  <2>1. t.records[i].succeeded \in BOOLEAN
    BY RecordsTyped DEF Records
  <2>2. t.records[i].succeeded
    <3>1. CASE {n \in DOMAIN t.events : t.events[n].record = i} = {}
      BY <3>1 DEF Life, NullIsNoCursor
    <3>2. CASE {n \in DOMAIN t.events : t.events[n].record = i} # {}
      BY <1>4, <3>2
    <3> QED
      BY <3>1, <3>2
  <2> QED
    BY <2>2, LifeTells
<1>9. ASSUME NEW n \in DOMAIN a, a[n].record = i PROVE a[n].type # "voided"
  <2>1. a[n] \in E
    BY ONLY <1>4, n \in DOMAIN a
  <2>2. a[n] = [record |-> a[n].record, type |-> a[n].type]
    BY <2>1
  <2> QED
    BY <1>8, <1>9, <2>2 DEF Revoked, Range
<1>10. ASSUME NEW x \in DOMAIN t.records
       PROVE  t.records[x].succeeded <=> \E n \in DOMAIN b : b[n].record = x
  <2>1. e.record = i
    OBVIOUS
  <2>2. \A n \in DOMAIN a : n \in DOMAIN b
    BY ONLY <1>6
  <2>3. (\E n \in DOMAIN b : b[n].record = x) <=> (\E n \in DOMAIN a : a[n].record = x) \/ x = i
    <3>1. Len(a) + 1 \in DOMAIN b
      BY ONLY <1>6
    <3> QED
      BY <1>6, <1>7, <2>1, <2>2, <3>1
  <2> QED
    BY <1>4, <1>8, <2>3
<1>11. ASSUME NEW n \in DOMAIN b, NEW k \in DOMAIN b, b[n].type = "voided", b[k].record = b[n].record
       PROVE  k <= n
  <2>1. e.record = i
    OBVIOUS
  <2>2. CASE n = Len(a) + 1
    BY ONLY <1>6, <2>2, k \in DOMAIN b
  <2>3. CASE n \in DOMAIN a /\ k \in DOMAIN a
    BY <1>4, <1>6, <1>11, <2>3
  <2>4. CASE n \in DOMAIN a /\ k = Len(a) + 1
    BY <1>6, <1>9, <1>11, <2>1, <2>4
  <2> QED
    BY <1>7, <2>2, <2>3, <2>4
<1>12. SoundEvents(u)
  <2>1. u.events \in Seq([record : DOMAIN u.records, type : {"published", "voided"}])
    <3>1. u.events = b /\ b \in Seq(E) /\ u.records = t.records
      BY <1>2, <1>6
    <3> QED
      BY ONLY <3>1, E = [record : DOMAIN t.records, type : {"published", "voided"}], Zenon
  <2>2. \A x \in DOMAIN u.records :
          u.records[x].succeeded <=> \E n \in DOMAIN u.events : u.events[n].record = x
    <3>1. u.records = t.records /\ u.events = b
      BY <1>2
    <3> QED
      BY ONLY <1>10, <3>1
  <2>3. \A n, k \in DOMAIN u.events :
          u.events[n].type = "voided" /\ u.events[k].record = u.events[n].record => k <= n
    BY <1>2, <1>11
  <2> QED
    BY ONLY <2>1, <2>2, <2>3 DEF SoundEvents
<1>13. SoundTables(u)
  <2>1. u.records \in Seq(Records(MatchesOf(u)))
    BY <1>2, <1>3 DEF SoundTables
  <2>2. \A q, z \in Range(u.records) \cup u.arrivals :
          q.snapshot.id = z.snapshot.id => q.snapshot = z.snapshot
    <3>1. \A q, z \in Range(t.records) \cup t.arrivals :
            q.snapshot.id = z.snapshot.id => q.snapshot = z.snapshot
      BY DEF SoundTables
    <3> QED
      BY ONLY <1>2, <3>1
  <2>3. u.starts \in [MatchesOf(u) -> Seq([day : Int, at : Int]) \ {<<>>}]
    <3>1. t.starts \in [MatchesOf(t) -> Seq([day : Int, at : Int]) \ {<<>>}]
      BY DEF SoundTables
    <3> QED
      BY ONLY <1>2, <1>3, <3>1
  <2> QED
    BY ONLY SoundTables(t), <1>2, <1>3, <1>12, <2>1, <2>2, <2>3, RestSound
<1>14. \A m \in MatchesOf(t) : Extended(t.starts[m], u.starts[m])
  BY <1>2, GrownReflexive DEF Grown
<1>15. Extended(t.records, u.records)
  BY <1>2, GrownReflexive DEF Grown
<1> QED
  BY <1>2, <1>3, <1>6, <1>13, <1>14, <1>15 DEF Grown

\* Every write keeps the tables sound, and adds to them.
LEMMA WritesGrow ==
    ASSUME NullIsNoCursor, NEW t, SoundTables(t), NEW v \in Written(t), t.writes > 0,
           NEW u, u = [v EXCEPT !.writes = @ - 1]
    PROVE  SoundTables(u) /\ Grown(t, u)
<1>1. SoundTables(v) /\ Grown(t, v) /\ v.writes = t.writes
  <2>1. CASE \E m \in MatchesOf(t), start \in [day : {1, 2}, at : Instants] : v = WithStart(t, m, start)
    <3>1. PICK m \in MatchesOf(t), start \in [day : {1, 2}, at : Instants] : v = WithStart(t, m, start)
      BY <2>1
    <3>2. start \in [day : Int, at : Int]
      BY ReadAssumption
    <3> QED
      BY <3>1, <3>2, ScheduleWritten
  <2>2. CASE \E r \in t.arrivals : v = WithRecord(t, r)
    BY <2>2, RecordWritten
  <2>3. CASE \E i \in {k \in DOMAIN t.records : Life(t, k) = "published"} : v = WithRevocation(t, i)
    BY <2>3, RevocationWritten
  <2>4. CASE v = WithEvaluation(t)
    <3>1. t = [f \in TableFields |-> t[f]] /\ t.evaluations \in Nat
      BY DEF SoundTables
    <3>2. /\ v = [f \in TableFields |-> v[f]] /\ v.starts = t.starts
          /\ v.records = t.records /\ v.events = t.events /\ v.arrivals = t.arrivals
          /\ v.evaluations = t.evaluations + 1 /\ v.writes = t.writes /\ v.queries = t.queries
      BY <2>4, <3>1 DEF TableFields, WithEvaluation
    <3>3. MatchesOf(v) = MatchesOf(t) /\ (SoundEvents(t) => SoundEvents(v)) /\ v.evaluations \in Nat
      BY <3>1, <3>2, SameEvents DEF MatchesOf
    <3>4. SoundTables(v)
      BY <3>2, <3>3 DEF SoundTables
    <3>5. Grown(t, v)
      BY <3>2, <3>3, GrownReflexive DEF Grown
    <3> QED
      BY <3>2, <3>4, <3>5
  <2> QED
    BY <2>1, <2>2, <2>3, <2>4 DEF Written
<1>2. v = [f \in TableFields |-> v[f]] /\ t.writes \in Nat
  BY <1>1 DEF SoundTables
<1>3. /\ u = [f \in TableFields |-> u[f]] /\ u.starts = v.starts
      /\ u.records = v.records /\ u.events = v.events /\ u.arrivals = v.arrivals
      /\ u.evaluations = v.evaluations /\ u.writes = v.writes - 1 /\ u.queries = v.queries
  BY <1>2 DEF TableFields
<1>4. MatchesOf(u) = MatchesOf(v) /\ u.writes \in Nat
  BY <1>1, <1>2, <1>3 DEF MatchesOf
<1>5. SoundEvents(v) => SoundEvents(u)
  BY <1>3, SameEvents
<1>6. SoundTables(u)
  <2>1. /\ u = [f \in TableFields |-> u[f]]
        /\ IsFiniteSet(MatchesOf(u)) /\ MatchesOf(u) \subseteq DOMAIN MatchRank
        /\ u.evaluations \in Nat /\ u.writes \in Nat
        /\ \A query \in u.queries : SoundQuery(query)
    BY <1>1, <1>3, <1>4 DEF SoundTables
  <2>2. u.starts \in [MatchesOf(u) -> Seq([day : Int, at : Int]) \ {<<>>}]
    <3>1. v.starts \in [MatchesOf(v) -> Seq([day : Int, at : Int]) \ {<<>>}]
      BY <1>1 DEF SoundTables
    <3> QED
      BY ONLY <1>3, <1>4, <3>1
  <2>3. u.records \in Seq(Records(MatchesOf(u))) /\ u.arrivals \subseteq Records(MatchesOf(u))
    BY <1>1, <1>3, <1>4 DEF SoundTables
  <2>4. \A r, q \in Range(u.records) \cup u.arrivals :
          r.snapshot.id = q.snapshot.id => r.snapshot = q.snapshot
    <3>1. \A r, q \in Range(v.records) \cup v.arrivals :
            r.snapshot.id = q.snapshot.id => r.snapshot = q.snapshot
      BY <1>1 DEF SoundTables
    <3> QED
      BY ONLY <1>3, <3>1
  <2>5. SoundEvents(u)
    BY <1>1, <1>5 DEF SoundTables
  <2> QED
    BY ONLY <2>1, <2>2, <2>3, <2>4, <2>5 DEF SoundTables
<1>7. Grown(t, u)
  BY <1>1, <1>3, <1>4 DEF Grown
<1> QED
  BY <1>6, <1>7

-----------------------------------------------------------------------------
(* The invariant.                                                          *)

\* The first page of a walk.
LEMMA OpenKeeps ==
    ASSUME NullIsNoCursor, SoundTables(tables), walk = NotReading,
           NEW query \in tables.queries, Open(query)
    PROVE  Walking(walk', tables)
<1> PICK w : w = [walk EXCEPT !.query = query, !.seen = tables]
  OBVIOUS
<1> PICK all : all = Items(tables, query)
  OBVIOUS
<1> PICK response : response = Read(tables, query, Null)
  OBVIOUS
<1>1. /\ w = [f \in WalkFields |-> w[f]] /\ w.query = query /\ w.seen = tables /\ w.shown = <<>>
  BY DEF NotReading, WalkFields
<1>2. SoundQuery(query)
  BY DEF SoundTables
<1>3. Len(all) \in Nat
  BY <1>2, ItemsListed
<1>4. Reached(Null, all, EndpointRevision(tables, query.endpoint), 0) /\ 0 \in 0..Len(all)
  BY <1>3 DEF Reached
<1>5. \E p \in 0..Len(all) : Follows(response, all, EndpointRevision(tables, query.endpoint), 0, p)
  BY <1>2, <1>4, ReadFollows
<1> PICK u : u = PageTurned(w, response)
  OBVIOUS
<1>6. walk' = u
  BY DEF Open
<1>7. /\ u = [f \in WalkFields |-> u[f]] /\ u.phase \in {"open", "complete"}
      /\ u.query = query /\ u.seen = tables /\ Shows(u, all)
  <2>1. PICK p \in 0..Len(all) : Follows(response, all, EndpointRevision(tables, query.endpoint), 0, p)
    BY <1>5
  <2>2. FirstOf(w.shown, all, 0)
    <3>1. ASSUME NEW S PROVE <<>> \in Seq(S) /\ Len(<<>>) = 0
      OBVIOUS
    <3>2. \A n \in 1..0 : FALSE
      OBVIOUS
    <3> QED
      BY <1>1, <3>1, <3>2 DEF FirstOf
  <2>3. Follows(response, all, EndpointRevision(w.seen, w.query.endpoint), 0, p)
    BY <1>1, <2>1
  <2>4. /\ u = [f \in WalkFields |-> u[f]] /\ u.phase \in {"open", "complete"}
        /\ u.query = w.query /\ u.seen = w.seen /\ Shows(u, all)
    BY ONLY NullIsNoCursor, <1>1, <1>3, <1>4, <2>2, <2>3, p \in 0..Len(all), u = PageTurned(w, response),
            PageJoins
  <2> QED
    BY <1>1, <2>4
<1>8. Grown(tables, tables)
  BY GrownReflexive
<1> QED
  BY <1>2, <1>6, <1>7, <1>8 DEF Walking

\* A further page, of the same tables, or none.
LEMMA ContinueKeeps ==
    ASSUME NullIsNoCursor, SoundTables(tables), Walking(walk, tables), Continue
    PROVE  Walking(walk', tables)
<1> PICK w : w = walk
  OBVIOUS
<1> PICK query : query = w.query
  OBVIOUS
<1> PICK all : all = Items(w.seen, query)
  OBVIOUS
<1> PICK k : k = Len(w.shown)
  OBVIOUS
<1> PICK revision : revision = EndpointRevision(w.seen, query.endpoint)
  OBVIOUS
<1> PICK response : response = Read(tables, query, w.cursor)
  OBVIOUS
<1> PICK u : u = PageTurned(w, response)
  OBVIOUS
<1>1. /\ w = [f \in WalkFields |-> w[f]] /\ w.phase = "open"
      /\ SoundQuery(query) /\ SoundTables(w.seen) /\ Grown(w.seen, tables) /\ Shows(w, all)
  BY DEF Walking, Continue
<1>2. Len(all) \in Nat
  BY <1>1, ItemsListed
<1>3. /\ k \in 1..Len(all) /\ w.shown \in Seq(Range(all)) /\ \A n \in 1..k : w.shown[n] = all[n]
      /\ Reached(w.cursor, all, revision, k)
  <2>1. /\ w.shown \in Seq(Range(all)) /\ k <= Len(all) /\ \A n \in 1..k : w.shown[n] = all[n]
        /\ k # 0 /\ Reached(w.cursor, all, revision, k)
    BY <1>1 DEF Shows
  <2>2. k \in Nat
    BY ONLY <2>1, k = Len(w.shown)
  <2> QED
    BY <1>2, <2>1, <2>2
<1>4. w.cursor = [revision |-> revision, key |-> all[k].key] /\ w.cursor # Null
  <2>1. k # 0
    BY <1>2, <1>3
  <2> QED
    BY <1>3, <2>1 DEF Reached, NullIsNoCursor
<1>5. walk' = u
  BY DEF Continue
<1>6. /\ u = [f \in WalkFields |-> u[f]] /\ u.phase \in {"open", "complete", "refused"}
      /\ u.query = w.query /\ u.seen = w.seen /\ Shows(u, all)
  <2>1. CASE EndpointRevision(tables, query.endpoint) = revision
    <3>1. SameTables(w.seen, tables)
      BY <1>1, <2>1, RevisionTells
    <3>2. all = Items(tables, query)
      BY <3>1, SameItems
    <3>3. \E p \in k..Len(all) : Follows(response, all, EndpointRevision(tables, query.endpoint), k, p)
      <4>1. k \in 0..Len(all)
        BY <1>2, <1>3
      <4> QED
        BY ONLY NullIsNoCursor, SoundTables(tables), <1>1, <1>3, <2>1, <3>2, <4>1,
                response = Read(tables, query, w.cursor), ReadFollows
    <3>4. PICK p \in k..Len(all) : Follows(response, all, EndpointRevision(tables, query.endpoint), k, p)
      BY <3>3
    <3>5. /\ k \in 0..Len(all) /\ Len(w.shown) = k
          /\ Follows(response, all, EndpointRevision(w.seen, w.query.endpoint), k, p)
      BY <1>2, <1>3, <2>1, <3>4
    <3>6. FirstOf(w.shown, all, k)
      BY <1>3 DEF FirstOf
    <3>7. w = [f \in WalkFields |-> w[f]]
      BY <1>1
    <3>8. /\ u = [f \in WalkFields |-> u[f]] /\ u.phase \in {"open", "complete"}
          /\ u.query = w.query /\ u.seen = w.seen /\ Shows(u, all)
      BY ONLY NullIsNoCursor, <1>2, <3>5, <3>6, <3>7, p \in k..Len(all), u = PageTurned(w, response),
              PageJoins
    <3> QED
      BY <3>8
  <2>2. CASE EndpointRevision(tables, query.endpoint) # revision
    <3>1. Stale(tables, query, w.cursor)
      BY <1>4, <2>2 DEF Stale
    <3>2. response = Refusal(409)
      BY <3>1 DEF Read, Schedule, PredictionHistory
    <3> QED
      BY ONLY <1>1, <3>2, u = PageTurned(w, response), RefusalKeeps
  <2> QED
    BY <2>1, <2>2
<1> QED
  BY <1>1, <1>5, <1>6 DEF Walking

LEMMA ReadInvStays ==
    ASSUME NullIsNoCursor, ReadInv, [ReadNext]_readVars
    PROVE  ReadInv'
<1>1. CASE Write
  <2>1. PICK v \in Written(tables) : tables' = [v EXCEPT !.writes = @ - 1]
    BY <1>1 DEF Write
  <2>2. SoundTables(tables') /\ Grown(tables, tables')
    BY <1>1, <2>1, WritesGrow DEF Write, ReadInv
  <2>3. walk' = walk /\ Walking(walk, tables)
    BY <1>1 DEF Write, ReadInv, NotReading
  <2>4. Walking(walk, tables')
    <3>1. Grown(walk.seen, tables')
      BY <2>2, <2>3, GrownTransitive DEF Walking, ReadInv
    <3> QED
      BY <2>3, <3>1 DEF Walking
  <2> QED
    BY <2>2, <2>3, <2>4 DEF ReadInv
<1>2. CASE Continue
  <2>1. Walking(walk, tables) /\ tables' = tables
    BY <1>2 DEF Continue, ReadInv, NotReading
  <2>2. Walking(walk', tables)
    BY <1>2, <2>1, ContinueKeeps DEF ReadInv
  <2> QED
    BY <2>1, <2>2 DEF ReadInv
<1>3. CASE \E query \in tables.queries : Open(query)
  <2>1. PICK query \in tables.queries : Open(query)
    BY <1>3
  <2>2. walk = NotReading /\ tables' = tables
    BY <2>1 DEF Open, ReadInv, Walking
  <2>3. Walking(walk', tables)
    BY <2>1, <2>2, OpenKeeps DEF ReadInv
  <2> QED
    BY <2>2, <2>3 DEF ReadInv
<1>4. CASE UNCHANGED readVars
  BY <1>4 DEF ReadInv, readVars
<1> QED
  BY <1>1, <1>2, <1>3, <1>4 DEF ReadNext

\* What a walk has shown is what the tables it began with have to show.
LEMMA ShownIsTrue ==
    ASSUME NullIsNoCursor, ReadInv
    PROVE  WalksTrue
<1> SUFFICES ASSUME walk.phase # "none" PROVE WalksTrue
  BY DEF WalksTrue
<1> PICK w : w = walk
  OBVIOUS
<1> PICK query : query = w.query
  OBVIOUS
<1> PICK seen : seen = w.seen
  OBVIOUS
<1> PICK all : all = Items(seen, query)
  OBVIOUS
<1> PICK N : N = Cardinality(Listed(seen, query))
  OBVIOUS
<1> PICK k : k = Len(w.shown)
  OBVIOUS
<1>1. SoundQuery(query) /\ SoundTables(seen) /\ Shows(w, all)
  BY DEF ReadInv, NotReading, Walking
<1>2. /\ N \in Nat /\ DOMAIN all = 1..N /\ Len(all) = N
      /\ \A n \in 1..N : all[n].of \in Listed(seen, query) /\ all[n] = ItemOf(seen, query, all[n].of)
      /\ \A a, b \in 1..N : a < b =>
           /\ all[a].of # all[b].of
           /\ IF query.endpoint = "schedule" THEN Before(all[a].key, all[b].key)
              ELSE Before(all[b].key, all[a].key)
      /\ \A x \in Listed(seen, query) : \E n \in 1..N : all[n].of = x
  BY ONLY NullIsNoCursor, <1>1, N = Cardinality(Listed(seen, query)), all = Items(seen, query), ItemsListed
<1>3. /\ k \in Nat /\ k <= N /\ DOMAIN w.shown = 1..k /\ \A n \in 1..k : w.shown[n] = all[n]
      /\ w.phase = "complete" => k = N
  <2>1. w.shown \in Seq(Range(all)) /\ k <= N /\ \A n \in 1..k : w.shown[n] = all[n]
    BY <1>1, <1>2 DEF Shows
  <2>2. k \in Nat /\ DOMAIN w.shown = 1..k
    BY ONLY <2>1, k = Len(w.shown)
  <2> QED
    BY <1>1, <1>2, <2>1, <2>2 DEF Shows
<1>4. \A n \in 1..k : n \in 1..N
  BY ONLY <1>2, <1>3
<1>5. ASSUME NEW a \in DOMAIN w.shown, NEW b \in DOMAIN w.shown, a < b
      PROVE  /\ w.shown[a].of # w.shown[b].of
             /\ IF query.endpoint = "schedule" THEN Before(w.shown[a].key, w.shown[b].key)
                ELSE Before(w.shown[b].key, w.shown[a].key)
  <2>1. a \in 1..N /\ b \in 1..N /\ w.shown[a] = all[a] /\ w.shown[b] = all[b]
    BY ONLY <1>3, <1>4, a \in DOMAIN w.shown, b \in DOMAIN w.shown
  <2>2. /\ all[a].of # all[b].of
        /\ IF query.endpoint = "schedule" THEN Before(all[a].key, all[b].key)
           ELSE Before(all[b].key, all[a].key)
    BY ONLY <1>2, <1>5, <2>1
  <2> QED
    BY ONLY <2>1, <2>2
<1>6. {w.shown[n].of : n \in DOMAIN w.shown} \subseteq Listed(seen, query)
  <2>1. \A n \in DOMAIN w.shown : w.shown[n].of \in Listed(seen, query)
    BY ONLY <1>2, <1>3, <1>4
  <2> QED
    BY ONLY <2>1
<1>7. w.phase = "complete" => {w.shown[n].of : n \in DOMAIN w.shown} = Listed(seen, query)
  <2>1. k = N => \A x \in Listed(seen, query) : \E n \in DOMAIN w.shown : w.shown[n].of = x
    BY ONLY <1>2, <1>3
  <2> QED
    BY ONLY <1>3, <1>6, <2>1
<1>8. ASSUME NEW n \in DOMAIN w.shown
      PROVE  /\ query.endpoint = "schedule" => SoundOutcomes(seen, w.shown[n])
             /\ \A o \in w.shown[n].outcomes :
                  o.status = "published" <=> seen.records[o.record].succeeded /\ ~Revoked(seen, o.record)
  <2> PICK item : item = w.shown[n]
    OBVIOUS
  <2> PICK x : x = item.of
    OBVIOUS
  <2>1. x \in Listed(seen, query) /\ item = ItemOf(seen, query, x)
    BY ONLY <1>2, <1>3, <1>4, n \in DOMAIN w.shown, item = w.shown[n], x = item.of
  <2>2. /\ query.endpoint = "schedule" => SoundOutcomes(seen, item)
        /\ \A o \in item.outcomes :
             o.status = "published" <=> seen.records[o.record].succeeded /\ ~Revoked(seen, o.record)
    BY ONLY NullIsNoCursor, <1>1, <2>1, OutcomesTrue
  <2> QED
    BY <2>2
<1> QED
  BY <1>5, <1>6, <1>7, <1>8 DEF WalksTrue

\* WalksTrue, for every database that keeps its constraints, every set of
\* queries and every number of writes between two pages: a page of a listing
\* is computed of the tables the walk began with, or refused.
THEOREM WalksAreTrue ==
    ASSUME NullIsNoCursor, NEW databases, \A d \in databases : SoundTables(d)
    PROVE  ReadSpec(databases) => []WalksTrue
<1>1. ReadInit(databases) => ReadInv
  BY DEF ReadInit, ReadInv
<1>2. ReadInv /\ [ReadNext]_readVars => ReadInv'
  BY ReadInvStays
<1>3. ReadInv => WalksTrue
  BY ShownIsTrue
<1> QED
  BY <1>1, <1>2, <1>3, PTL DEF ReadSpec
=============================================================================
