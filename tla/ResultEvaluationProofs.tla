----------------------- MODULE ResultEvaluationProofs -----------------------
(***************************************************************************)
(* EvaluationsAgree and PublishedEvaluated, for any number of predictions, *)
(* workers, snapshots and revisions, and however many leases lapse;        *)
(* SettlesAsPriced, for any lines and results; ScoresAreHonest, for any    *)
(* forecasts; and CountedOnce, for any evaluations that may be stored.     *)
(*                                                                         *)
(* What is written stays: every step only lets the tables grow (Grown), so *)
(* that a fact about one row of them needs a proof where it is written and *)
(* none afterwards.  The invariant says of each row what it rests on, and  *)
(* of each run that what it has read is still there.                       *)
(***************************************************************************)
EXTENDS ResultEvaluation, HonestScores, Performance, SetSums

-----------------------------------------------------------------------------
(* The greatest element of a finite set.                                   *)

IsGreatest(x, S, R) == \A y \in S : <<y, x>> \in R

\* A finite set that a relation orders has a greatest element.
LEMMA FiniteHasGreatest ==
    ASSUME NEW S, IsFiniteSet(S), S # {}, NEW R,
           \A x, y \in S : <<x, y>> \in R \/ <<y, x>> \in R,
           \A x, y, z \in S : <<x, y>> \in R /\ <<y, z>> \in R => <<x, z>> \in R
    PROVE  \E x \in S : IsGreatest(x, S, R)
<1> DEFINE Bad == {U \in SUBSET S : U # {} /\ ~ \E x \in U : IsGreatest(x, U, R)}
           Sizes == {n \in Nat : \E U \in Bad : Cardinality(U) = n}
           Less == {ss \in Nat \X Nat : ss[1] < ss[2]}
<1>1. \A U \in SUBSET S : IsFiniteSet(U) /\ Cardinality(U) \in Nat
  BY FS_Subset, FS_CardinalityType
<1>2. SUFFICES ASSUME Bad # {} PROVE FALSE
  OBVIOUS
<1>3. \E n \in Sizes : \A m \in Sizes : ~ (<<m, n>> \in Less)
  <2>1. IsWellFoundedOn(Less, Nat)
    BY NatLessThanWellFounded DEF OpToRel
  <2>2. Sizes \subseteq Nat /\ Sizes # {}
    BY <1>1, <1>2
  <2> HIDE DEF Less, Sizes
  <2> QED
    BY <2>1, <2>2, WFMin
<1>4. PICK n \in Sizes : \A m \in Sizes : ~ (<<m, n>> \in Less)
  BY <1>3
<1>5. PICK U \in Bad : Cardinality(U) = n
  OBVIOUS
<1>6. PICK x \in U : TRUE
  OBVIOUS
<1> DEFINE V == U \ {x}
<1>7. V \in SUBSET S /\ Cardinality(V) = n - 1 /\ n - 1 \in Nat
  <2>1. IsFiniteSet(U) /\ U \in SUBSET S
    BY <1>1
  <2>2. Cardinality(V) = n - 1
    BY <2>1, <1>5, <1>6, FS_RemoveElement
  <2>3. Cardinality(V) \in Nat
    BY <1>1, <2>1
  <2> QED
    BY <2>1, <2>2, <2>3
<1>8. V \notin Bad
  <2> SUFFICES ASSUME V \in Bad PROVE FALSE
    OBVIOUS
  <2>1. n - 1 \in Sizes
    BY <1>7
  <2>2. <<n - 1, n>> \in Less
    BY <1>7
  <2> QED
    BY <1>4, <2>1, <2>2
<1>9. <<x, x>> \in R
  OBVIOUS
<1>10. CASE V = {}
  <2>1. U = {x}
    BY <1>6, <1>10
  <2> QED
    BY <1>9, <2>1 DEF IsGreatest
<1>11. CASE V # {}
  <2>1. PICK y \in V : IsGreatest(y, V, R)
    BY <1>7, <1>8, <1>11
  <2>2. x \in S /\ y \in S /\ U \subseteq S
    BY <1>7
  <2>3. CASE <<x, y>> \in R
    <3>1. IsGreatest(y, U, R)
      BY <2>1, <2>3 DEF IsGreatest
    <3> QED
      BY <3>1, <2>1
  <2>4. CASE <<y, x>> \in R
    <3>1. IsGreatest(x, U, R)
      BY <1>9, <2>1, <2>2, <2>4 DEF IsGreatest
    <3> QED
      BY <3>1
  <2> QED
    BY <2>2, <2>3, <2>4
<1> QED
  BY <1>10, <1>11

\* The largest of a finite set of integers is one of them.
LEMMA MaxIsOne ==
    ASSUME NEW S \in SUBSET Int, IsFiniteSet(S), S # {}
    PROVE  Max(S) \in S
<1> DEFINE R == {ss \in Int \X Int : ss[1] <= ss[2]}
<1>1. /\ \A x, y \in S : <<x, y>> \in R \/ <<y, x>> \in R
      /\ \A x, y, z \in S : <<x, y>> \in R /\ <<y, z>> \in R => <<x, z>> \in R
  OBVIOUS
<1>2. \E x \in S : IsGreatest(x, S, R)
  <2> HIDE DEF R
  <2> QED
    BY <1>1, FiniteHasGreatest
<1>3. PICK x \in S : IsGreatest(x, S, R)
  BY <1>2
<1>4. \A y \in S : x >= y
  BY <1>3 DEF IsGreatest
<1> QED
  BY <1>4 DEF Max

\* The order of _latest: by the three times, then by the identifier.
Before(o, s) ==
    \/ o.quoted < s.quoted
    \/ o.quoted = s.quoted /\ o.observed < s.observed
    \/ o.quoted = s.quoted /\ o.observed = s.observed /\ o.received < s.received
    \/ <<o.quoted, o.observed, o.received>> = <<s.quoted, s.observed, s.received>>
         /\ o.id <= s.id

\* The snapshot that is selected is one of those that are known.
LEMMA SelectedIsKnown ==
    ASSUME NEW known \in SUBSET Snapshots, IsFiniteSet(known), known # {}
    PROVE  Selected(known) \in known
<1> DEFINE R == {ss \in known \X known : Before(ss[1], ss[2])}
<1>1. \A s \in known : s.id \in Int /\ s.quoted \in Int /\ s.observed \in Int /\ s.received \in Int
  BY SnapshotAssumption
<1>2. \A x, y \in known : <<x, y>> \in R \/ <<y, x>> \in R
  <2> SUFFICES ASSUME NEW x \in known, NEW y \in known PROVE Before(x, y) \/ Before(y, x)
    OBVIOUS
  <2> QED
    BY <1>1 DEF Before
<1>3. \A x, y, z \in known : <<x, y>> \in R /\ <<y, z>> \in R => <<x, z>> \in R
  <2> SUFFICES ASSUME NEW x \in known, NEW y \in known, NEW z \in known,
                      Before(x, y), Before(y, z)
               PROVE  Before(x, z)
    OBVIOUS
  <2> QED
    BY <1>1 DEF Before
<1>4. \E x \in known : IsGreatest(x, known, R)
  <2> HIDE DEF R
  <2> QED
    BY <1>2, <1>3, FiniteHasGreatest
<1>5. PICK x \in known : IsGreatest(x, known, R)
  BY <1>4
<1>6. \A o \in known : Before(o, x)
  BY <1>5 DEF IsGreatest
<1> QED
  BY <1>6 DEF Selected, Before

-----------------------------------------------------------------------------
(* The invariant of the tables.                                            *)

Ids == {s.id : s \in Snapshots}

Eligibilities == {"eligible", "unsupported", "stale", "late", "missing"}

ComparisonRecord ==
    [prediction : Predictions, snapshot : Ids \cup {Null}, eligibility : Eligibilities]

Finalities == {"provisional", "final", "corrected"}

ResultRows ==
    {[sets |-> x[1].sets, points |-> x[1].points, finality |-> x[2]] :
       x \in Observations \X Finalities}

\* What a start has to be: a snapshot that is there was accepted.
SoundStart(start) ==
    /\ start.status \in [Predictions -> {"absent", "published", "voided"}]
    /\ start.stored \subseteq Snapshots
    /\ IsFiniteSet(start.stored)
    /\ \A s \in start.stored : ValidSnapshot(s)

TypeOK ==
    /\ status \in [Predictions -> {"absent", "published", "voided"}]
    /\ results \in Seq(ResultRows)
    /\ stored \subseteq Snapshots
    /\ IsFiniteSet(stored)
    /\ \A s \in stored : ValidSnapshot(s)
    /\ comparisons \in Seq(ComparisonRecord)
    /\ run = [w \in Workers |-> run[w]]

\* An eligible comparison names a snapshot that is stored.
Backed(row) == row.eligibility = "eligible" => \E s \in stored : s.id = row.snapshot

ComparisonsBacked == \A i \in DOMAIN comparisons : Backed(comparisons[i])

RunFields == {"key", "read", "leased"}

Refusal(read) == "refused" \in DOMAIN read

\* What the run of a worker has read is still so.
SoundRun(w) ==
    /\ run[w] = [f \in RunFields |-> run[w][f]]
    /\ run[w].key.prediction \in Predictions
    /\ run[w].key.type = "market" /\ ~Refusal(run[w].read) =>
         /\ run[w].read.snapshot \in Ids \cup {Null}
         /\ run[w].read.eligibility \in Eligibilities
         /\ Backed(run[w].read)
    /\ run[w].key.type = "evaluation" =>
         /\ run[w].key.revision \in DOMAIN results
         /\ ~Refusal(run[w].read) =>
              \E i \in DOMAIN comparisons :
                comparisons[i] = run[w].read /\ run[w].read.prediction = run[w].key.prediction

RunsSound == \A w \in Workers : run[w] # NoRun => SoundRun(w)

\* A settlement row of an evaluation.
SettlementOf(e, x) ==
    [snapshot |-> e.snapshot, line |-> x[1], revision |-> e.revision, outcome |-> x[2]]

\* An evaluation rests on a comparison, and has all of its settlements.
SoundEvaluation(e) ==
    /\ e.revision \in DOMAIN results
    /\ \E i \in DOMAIN comparisons :
         /\ comparisons[i].prediction = e.prediction
         /\ comparisons[i].eligibility = e.market
         /\ e.snapshot \in {comparisons[i].snapshot, Null}
    /\ e.snapshot # Null <=>
         e.market = "eligible" /\ results[e.revision].finality # "provisional"
    /\ e.snapshot # Null =>
         \E s \in stored :
           /\ s.id = e.snapshot
           /\ \A x \in Settle(s, results[e.revision]) : SettlementOf(e, x) \in settlements

\* A settlement rests on an evaluation, and says what the result says.
SoundSettlement(t) ==
    /\ t.revision \in DOMAIN results
    /\ \E e \in evaluations : e.snapshot = t.snapshot /\ e.revision = t.revision
    /\ \E s \in stored :
         s.id = t.snapshot /\ <<t.line, t.outcome>> \in Settle(s, results[t.revision])

TablesSound ==
    /\ \A e \in evaluations : SoundEvaluation(e)
    /\ \A t \in settlements : SoundSettlement(t)

IInv == TypeOK /\ ComparisonsBacked /\ RunsSound /\ TablesSound

-----------------------------------------------------------------------------
(* What is written stays.                                                  *)

Grown ==
    /\ \A i \in DOMAIN results : i \in DOMAIN results' /\ results'[i] = results[i]
    /\ stored \subseteq stored'
    /\ \A i \in DOMAIN comparisons : i \in DOMAIN comparisons' /\ comparisons'[i] = comparisons[i]
    /\ evaluations \subseteq evaluations'
    /\ settlements \subseteq settlements'

LEMMA Appended ==
    ASSUME NEW S, NEW s \in Seq(S), NEW x \in S
    PROVE  /\ Append(s, x) \in Seq(S)
           /\ DOMAIN Append(s, x) = 1..(Len(s) + 1)
           /\ Append(s, x)[Len(s) + 1] = x
           /\ \A i \in DOMAIN s : i \in DOMAIN Append(s, x) /\ Append(s, x)[i] = s[i]
OBVIOUS

LEMMA EvaluationStays ==
    ASSUME NEW e, SoundEvaluation(e), Grown
    PROVE  SoundEvaluation(e)'
BY DEF SoundEvaluation, Grown

LEMMA SettlementStays ==
    ASSUME NEW t, SoundSettlement(t), Grown
    PROVE  SoundSettlement(t)'
BY DEF SoundSettlement, Grown

LEMMA RunStays ==
    ASSUME NEW w \in Workers, SoundRun(w), Grown,
           run'[w] = [f \in RunFields |-> run'[w][f]],
           run'[w].key = run[w].key, run'[w].read = run[w].read
    PROVE  SoundRun(w)'
BY DEF SoundRun, Grown, Backed

\* A step that writes no evaluation.
LEMMA TablesStay ==
    ASSUME IInv, Grown, UNCHANGED <<evaluations, settlements>>
    PROVE  TablesSound'
BY EvaluationStays, SettlementStays DEF IInv, TablesSound

\* A step that starts no run.
LEMMA RunsStay ==
    ASSUME IInv, Grown, NEW w \in Workers,
           UNCHANGED run \/ run' = [run EXCEPT ![w] = NoRun]
    PROVE  RunsSound' /\ run' = [v \in Workers |-> run'[v]]
<1>1. run = [v \in Workers |-> run[v]]
  BY DEF IInv, TypeOK
<1>2. run' = [v \in Workers |-> run'[v]]
  BY <1>1
<1>3. ASSUME NEW v \in Workers, run'[v] # NoRun PROVE SoundRun(v)'
  <2>1. run'[v] = run[v]
    BY <1>1, <1>3
  <2>2. SoundRun(v)
    BY <1>3, <2>1 DEF IInv, RunsSound
  <2> QED
    BY <2>1, <2>2, RunStays DEF SoundRun
<1> QED
  BY <1>2, <1>3 DEF RunsSound

-----------------------------------------------------------------------------
(* The steps.                                                              *)

LEMMA InitIInv ==
    ASSUME NEW starts, \A start \in starts : SoundStart(start), EvaluationInit(starts)
    PROVE  IInv
<1>1. PICK start \in starts :
        /\ status = start.status
        /\ stored = start.stored
        /\ results = <<>>
        /\ comparisons = <<>>
        /\ evaluations = {}
        /\ settlements = {}
        /\ run = [w \in Workers |-> NoRun]
  BY DEF EvaluationInit
<1>2. SoundStart(start)
  OBVIOUS
<1>3. TypeOK
  BY <1>1, <1>2 DEF SoundStart, TypeOK
<1> QED
  BY <1>1, <1>3 DEF IInv, ComparisonsBacked, RunsSound, TablesSound

\* Publications, revocations and the tickers write none of these tables.
LEMMA OutsideStep ==
    ASSUME IInv,
           \/ \E p \in Predictions : Publish(p) \/ Revoke(p)
           \/ TickMarket \/ TickEvaluation
    PROVE  IInv'
<1>1. UNCHANGED <<results, stored, comparisons, evaluations, settlements, run>>
  BY DEF Publish, Revoke, TickMarket, TickEvaluation, Enqueue
<1>2. Grown
  BY <1>1 DEF Grown
<1> DEFINE Statuses == [Predictions -> {"absent", "published", "voided"}]
<1>3. status' \in Statuses
  <2>1. status \in [Predictions -> {"absent", "published", "voided"}]
    BY DEF IInv, TypeOK
  <2>2. ASSUME NEW p \in Predictions, Publish(p) PROVE status' \in Statuses
    BY <2>1, <2>2 DEF Publish
  <2>3. ASSUME NEW p \in Predictions, Revoke(p) PROVE status' \in Statuses
    BY <2>1, <2>3 DEF Revoke
  <2>4. ASSUME UNCHANGED status PROVE status' \in Statuses
    BY <2>1, <2>4
  <2> QED
    BY <2>2, <2>3, <2>4 DEF TickMarket, TickEvaluation, Enqueue
<1>4. TablesSound'
  BY <1>1, <1>2, TablesStay
<1>5. RunsSound'
  <2>1. ASSUME NEW w \in Workers, run'[w] # NoRun PROVE SoundRun(w)'
    BY <1>1, <1>2, <2>1, RunStays DEF IInv, RunsSound, SoundRun
  <2> QED
    BY <2>1 DEF RunsSound
<1> QED
  BY <1>1, <1>3, <1>4, <1>5 DEF IInv, TypeOK, ComparisonsBacked, Backed

LEMMA ObserveStep ==
    ASSUME IInv, NEW observed \in Observations, ObserveResult(observed)
    PROVE  IInv'
<1>1. PICK finality \in Finalities :
        results' = Append(results, [sets |-> observed.sets, points |-> observed.points,
                                    finality |-> finality])
  BY DEF ObserveResult, Finalities
<1> DEFINE row == [sets |-> observed.sets, points |-> observed.points, finality |-> finality]
<1>2. row \in ResultRows /\ results \in Seq(ResultRows)
  <2>1. <<observed, finality>> \in Observations \X Finalities
    OBVIOUS
  <2>2. row = [sets |-> <<observed, finality>>[1].sets, points |-> <<observed, finality>>[1].points,
               finality |-> <<observed, finality>>[2]]
    OBVIOUS
  <2> QED
    BY <2>1, <2>2 DEF ResultRows, IInv, TypeOK
<1>3. UNCHANGED <<status, stored, comparisons, evaluations, settlements, run>>
  BY DEF ObserveResult
<1> HIDE DEF row
<1>4. /\ results' \in Seq(ResultRows)
      /\ \A i \in DOMAIN results : i \in DOMAIN results' /\ results'[i] = results[i]
  BY <1>1, <1>2, Appended DEF row
<1>5. Grown
  BY <1>3, <1>4 DEF Grown
<1>6. TablesSound'
  BY <1>3, <1>5, TablesStay
<1>7. RunsSound'
  <2>1. ASSUME NEW w \in Workers, run'[w] # NoRun PROVE SoundRun(w)'
    BY <1>3, <1>5, <2>1, RunStays DEF IInv, RunsSound, SoundRun
  <2> QED
    BY <2>1 DEF RunsSound
<1> QED
  BY <1>3, <1>4, <1>6, <1>7 DEF IInv, TypeOK, ComparisonsBacked, Backed

LEMMA StoreStep ==
    ASSUME IInv, NEW s \in Snapshots, StoreSnapshot(s)
    PROVE  IInv'
<1>1. /\ UNCHANGED <<status, results, comparisons, evaluations, settlements, run>>
      /\ stored' = stored \cup {s}
      /\ ValidSnapshot(s)
  BY DEF StoreSnapshot
<1>2. IsFiniteSet(stored') /\ stored' \subseteq Snapshots
  BY <1>1, FS_AddElement DEF IInv, TypeOK
<1>3. Grown
  BY <1>1 DEF Grown
<1>4. TablesSound'
  BY <1>1, <1>3, TablesStay
<1>5. RunsSound'
  <2>1. ASSUME NEW w \in Workers, run'[w] # NoRun PROVE SoundRun(w)'
    BY <1>1, <1>3, <2>1, RunStays DEF IInv, RunsSound, SoundRun
  <2> QED
    BY <2>1 DEF RunsSound
<1>6. ComparisonsBacked'
  BY <1>1 DEF IInv, ComparisonsBacked, Backed
<1> QED
  BY <1>1, <1>2, <1>4, <1>5, <1>6 DEF IInv, TypeOK

\* What a comparison reads: an eligible one names a snapshot that is stored.
LEMMA EvaluateReads ==
    ASSUME IInv, NEW prediction, NEW match, NEW read,
           read = Evaluate(prediction, Cutoff, Availability(stored, match, Cutoff, MaxAge))
    PROVE  /\ ~Refusal(read)
           /\ read.snapshot \in Ids \cup {Null}
           /\ read.eligibility \in Eligibilities
           /\ Backed(read)
<1> DEFINE known == {s \in stored : s.match = match /\ s.quoted <= Cutoff
                                      /\ s.observed <= Cutoff /\ s.received <= Cutoff}
           found == Availability(stored, match, Cutoff, MaxAge)
           s == found.snapshot
<1>1. known # {} => Selected(known) \in stored
  <2>1. known \in SUBSET Snapshots /\ IsFiniteSet(known)
    BY FS_Subset DEF IInv, TypeOK
  <2> HIDE DEF known
  <2> QED
    BY <2>1, SelectedIsKnown DEF known
<1>2. /\ found.status \in {"available", "stale", "late", "missing"}
      /\ found.status = "available" => s \in stored
  <2>1. CASE known = {}
    BY <2>1 DEF Availability
  <2>2. CASE known # {}
    BY <1>1, <2>2 DEF Availability
  <2> QED
    BY <2>1, <2>2
<1> HIDE DEF known, found
<1>3. CASE found.status # "available"
  <2>1. read = [eligibility |-> found.status, snapshot |-> Null]
    <3>1. read = Evaluate(prediction, Cutoff, found)
      BY DEF found
    <3> QED
      BY <1>3, <3>1 DEF Evaluate
  <2> QED
    BY <1>2, <1>3, <2>1 DEF Refusal, Eligibilities, Backed
<1>4. CASE found.status = "available" /\ read.eligibility = "missing" /\ read.snapshot = Null
           /\ ~Refusal(read)
  BY <1>4 DEF Eligibilities, Backed
<1>5. CASE found.status = "available" /\ read.eligibility \in {"eligible", "unsupported"}
           /\ read.snapshot = s.id /\ ~Refusal(read)
  <2>1. s \in stored /\ s \in Snapshots
    BY <1>2, <1>5 DEF IInv, TypeOK
  <2>2. s.id \in Ids
    BY <2>1 DEF Ids
  <2> QED
    BY <1>5, <2>1, <2>2 DEF Eligibilities, Backed
<1>6. ASSUME found.status = "available"
      PROVE  \/ read = [eligibility |-> "missing", snapshot |-> Null]
             \/ read = [eligibility |-> "eligible", snapshot |-> s.id]
             \/ read = [eligibility |-> "unsupported", snapshot |-> s.id]
  BY <1>6 DEF Evaluate, found
<1> HIDE DEF s
<1>7. ASSUME found.status = "available" PROVE <1>4!1 \/ <1>5!1
  BY <1>6, <1>7 DEF Refusal
<1> QED
  BY <1>3, <1>4, <1>5, <1>7

\* A worker has read what it needs for a job.
LEMMA ReadingStep ==
    ASSUME IInv, NEW w \in Workers, NEW key, NEW read, Reading(w, key, read),
           key.prediction \in Predictions,
           key.type = "market" /\ ~Refusal(read) =>
             /\ read.snapshot \in Ids \cup {Null}
             /\ read.eligibility \in Eligibilities
             /\ Backed(read),
           key.type = "evaluation" =>
             /\ key.revision \in DOMAIN results
             /\ ~Refusal(read) =>
                  \E i \in DOMAIN comparisons :
                    comparisons[i] = read /\ read.prediction = key.prediction
    PROVE  IInv'
<1> DEFINE x == [key |-> key, read |-> read, leased |-> TRUE]
<1>1. /\ run' = [run EXCEPT ![w] = x]
      /\ UNCHANGED <<status, results, stored, comparisons, evaluations, settlements>>
  BY DEF Reading
<1>2. x = [f \in RunFields |-> x[f]] /\ x.key = key /\ x.read = read
  BY DEF RunFields
<1> HIDE DEF x
<1>3. /\ run' = [v \in Workers |-> run'[v]]
      /\ run'[w] = x
      /\ \A v \in Workers \ {w} : run'[v] = run[v]
  BY <1>1 DEF IInv, TypeOK
<1>4. Grown
  BY <1>1 DEF Grown
<1>5. TablesSound'
  BY <1>1, <1>4, TablesStay
<1>6. RunsSound'
  <2>1. SoundRun(w)'
    BY <1>1, <1>2, <1>3 DEF SoundRun, Backed
  <2>2. ASSUME NEW v \in Workers \ {w}, run'[v] # NoRun PROVE SoundRun(v)'
    BY <1>3, <1>4, <2>2, RunStays DEF IInv, RunsSound, SoundRun
  <2> QED
    BY <2>1, <2>2 DEF RunsSound
<1> QED
  BY <1>1, <1>3, <1>5, <1>6 DEF IInv, TypeOK, ComparisonsBacked, Backed

LEMMA BeginCompareStep ==
    ASSUME IInv, NEW w \in Workers, NEW p \in Predictions, BeginCompare(w, p)
    PROVE  IInv'
<1> DEFINE prediction == MarketInput([Rows[p] EXCEPT !.status = status[p]])
           read == IF "refused" \in DOMAIN prediction THEN prediction
                   ELSE Evaluate(prediction, Cutoff,
                                 Availability(stored, Rows[p].match, Cutoff, MaxAge))
<1>1. Reading(w, MarketKey(p), read)
  BY DEF BeginCompare
<1>2. MarketKey(p).type = "market" /\ MarketKey(p).prediction = p
  BY DEF MarketKey
<1>3. ~Refusal(read) =>
        /\ read.snapshot \in Ids \cup {Null}
        /\ read.eligibility \in Eligibilities
        /\ Backed(read)
  <2> HIDE DEF prediction
  <2> QED
    BY EvaluateReads DEF Refusal
<1> HIDE DEF read
<1> QED
  BY <1>1, <1>2, <1>3, ReadingStep

LEMMA BeginEvaluateStep ==
    ASSUME IInv, NEW w \in Workers, NEW p \in Predictions, NEW r \in DOMAIN results,
           BeginEvaluate(w, r, p)
    PROVE  IInv'
<1> DEFINE own == {i \in DOMAIN comparisons : comparisons[i].prediction = p}
           read == IF status[p] # "published" \/ own = {} THEN Refused("lookup")
                   ELSE comparisons[Max(own)]
<1>1. Reading(w, EvaluationKey(r, p), read)
  BY DEF BeginEvaluate
<1>2. /\ EvaluationKey(r, p).type = "evaluation"
      /\ EvaluationKey(r, p).prediction = p
      /\ EvaluationKey(r, p).revision = r
  BY DEF EvaluationKey
<1>3. own # {} => Max(own) \in own
  <2>1. own \in SUBSET Int /\ IsFiniteSet(own)
    <3>1. DOMAIN comparisons = 1..Len(comparisons) /\ Len(comparisons) \in Nat
      BY DEF IInv, TypeOK
    <3>2. IsFiniteSet(DOMAIN comparisons)
      BY <3>1, FS_Interval
    <3> QED
      BY <3>1, <3>2, FS_Subset
  <2> HIDE DEF own
  <2> QED
    BY <2>1, MaxIsOne
<1>4. ~Refusal(read) =>
        \E i \in DOMAIN comparisons : comparisons[i] = read /\ read.prediction = p
  <2>1. Refusal(Refused("lookup"))
    BY DEF Refusal, Refused
  <2> QED
    BY <1>3, <2>1
<1> HIDE DEF read
<1> QED
  BY <1>1, <1>2, <1>4, ReadingStep

\* The end of a run that writes nothing but the job.
LEMMA FinishStep ==
    ASSUME IInv, NEW w \in Workers, NEW outcome, Finish(w, outcome),
           UNCHANGED <<status, results, stored, comparisons, evaluations, settlements>>
    PROVE  IInv'
<1>1. run' = [run EXCEPT ![w] = NoRun] /\ Grown
  BY DEF Finish, Grown
<1>2. TablesSound' /\ RunsSound' /\ run' = [v \in Workers |-> run'[v]]
  BY <1>1, TablesStay, RunsStay
<1> QED
  BY <1>2 DEF IInv, TypeOK, ComparisonsBacked, Backed

LEMMA LoseLeaseStep ==
    ASSUME IInv, NEW w \in Workers, LoseLease(w)
    PROVE  IInv'
<1> DEFINE y == run[w]
           x == [y EXCEPT !.leased = FALSE]
<1>1. /\ run' = [run EXCEPT ![w] = x]
      /\ UNCHANGED <<status, results, stored, comparisons, evaluations, settlements>>
      /\ SoundRun(w)
  BY DEF LoseLease, IInv, RunsSound
<1>2. x = [f \in RunFields |-> x[f]] /\ x.key = y.key /\ x.read = y.read
  <2>1. y = [f \in RunFields |-> y[f]]
    BY <1>1 DEF SoundRun
  <2> HIDE DEF y
  <2> QED
    BY <2>1 DEF RunFields
<1> HIDE DEF x
<1>3. /\ run' = [v \in Workers |-> run'[v]]
      /\ run'[w] = x
      /\ \A v \in Workers \ {w} : run'[v] = run[v]
  BY <1>1 DEF IInv, TypeOK
<1>4. Grown
  BY <1>1 DEF Grown
<1>5. TablesSound'
  BY <1>1, <1>4, TablesStay
<1>6. RunsSound'
  <2>1. SoundRun(w)'
    BY <1>1, <1>2, <1>3, <1>4, RunStays
  <2>2. ASSUME NEW v \in Workers \ {w}, run'[v] # NoRun PROVE SoundRun(v)'
    BY <1>3, <1>4, <2>2, RunStays DEF IInv, RunsSound, SoundRun
  <2> QED
    BY <2>1, <2>2 DEF RunsSound
<1> QED
  BY <1>1, <1>3, <1>5, <1>6 DEF IInv, TypeOK, ComparisonsBacked, Backed

LEMMA CommitCompareStep ==
    ASSUME IInv, NEW w \in Workers, CommitCompare(w)
    PROVE  IInv'
<1> DEFINE key == run[w].key
           row == [prediction |-> key.prediction, snapshot |-> run[w].read.snapshot,
                   eligibility |-> run[w].read.eligibility]
<1>1. /\ key.type = "market"
      /\ ~Refusal(run[w].read)
      /\ SoundRun(w)
      /\ comparisons' \in {comparisons, Append(comparisons, row)}
      /\ run' = [run EXCEPT ![w] = NoRun]
      /\ UNCHANGED <<status, results, stored, evaluations, settlements>>
  <2>1. run[w] # NoRun
    BY DEF CommitCompare, NoRun
  <2>2. SoundRun(w)
    BY <2>1 DEF IInv, RunsSound
  <2> QED
    BY <2>2 DEF CommitCompare, Finish, Refusal
<1>2. row \in ComparisonRecord /\ Backed(row)
  BY <1>1 DEF SoundRun, ComparisonRecord, Backed
<1>3. comparisons \in Seq(ComparisonRecord)
  BY DEF IInv, TypeOK
<1> HIDE DEF row
<1>4. /\ comparisons' \in Seq(ComparisonRecord)
      /\ \A i \in DOMAIN comparisons : i \in DOMAIN comparisons' /\ comparisons'[i] = comparisons[i]
      /\ \A i \in DOMAIN comparisons' : i \notin DOMAIN comparisons => comparisons'[i] = row
  <2>1. CASE comparisons' = comparisons
    BY <1>3, <2>1
  <2>2. CASE comparisons' = Append(comparisons, row)
    <3>1. DOMAIN comparisons = 1..Len(comparisons) /\ Len(comparisons) \in Nat
      BY <1>3
    <3> QED
      BY <1>2, <1>3, <2>2, <3>1, Appended
  <2> QED
    BY <1>1, <2>1, <2>2
<1>5. Grown
  BY <1>1, <1>4 DEF Grown
<1>6. TablesSound' /\ RunsSound' /\ run' = [v \in Workers |-> run'[v]]
  BY <1>1, <1>5, TablesStay, RunsStay
<1>7. ComparisonsBacked'
  BY <1>1, <1>2, <1>4 DEF IInv, ComparisonsBacked, Backed
<1> QED
  BY <1>1, <1>4, <1>6, <1>7 DEF IInv, TypeOK

\* A snapshot is found by its identifier, which is not Null.
LEMMA SnapshotIsFound ==
    ASSUME IInv, NEW s \in stored
    PROVE  SnapshotOf(s.id) = s /\ s.id # Null
<1>1. stored \subseteq Snapshots
  BY DEF IInv, TypeOK
<1> QED
  BY <1>1, SnapshotAssumption DEF SnapshotOf

LEMMA CommitEvaluateStep ==
    ASSUME IInv, NEW w \in Workers, CommitEvaluate(w)
    PROVE  IInv'
<1> PICK key : key = run[w].key
  OBVIOUS
<1> PICK read : read = run[w].read
  OBVIOUS
<1> PICK row : row = Evaluation(key.revision, key.prediction, read)
  OBVIOUS
<1> PICK lines : lines = {[snapshot |-> row.snapshot, line |-> x[1], revision |-> row.revision,
                           outcome |-> x[2]] : x \in row.settled}
  OBVIOUS
<1>1. /\ key.type = "evaluation"
      /\ ~Refusal(read)
      /\ SoundRun(w)
      /\ \/ UNCHANGED <<evaluations, settlements>>
         \/ evaluations' = evaluations \cup {row} /\ settlements' = settlements \cup lines
      /\ run' = [run EXCEPT ![w] = NoRun]
      /\ UNCHANGED <<status, results, stored, comparisons>>
  <2>1. run[w] # NoRun
    <3>1. key # Null
      BY DEF CommitEvaluate
    <3> QED
      BY <3>1 DEF NoRun
  <2>2. SoundRun(w)
    BY <2>1 DEF IInv, RunsSound
  <2> QED
    BY <2>2 DEF CommitEvaluate, Finish, Refusal
<1>2. Grown
  BY <1>1 DEF Grown
<1>3. RunsSound' /\ run' = [v \in Workers |-> run'[v]]
  BY <1>1, <1>2, RunsStay
<1>4. CASE UNCHANGED <<evaluations, settlements>>
  <2>1. TablesSound'
    BY <1>2, <1>4, TablesStay
  <2> QED
    BY <1>1, <1>3, <2>1 DEF IInv, TypeOK, ComparisonsBacked, Backed
<1>5. CASE evaluations' = evaluations \cup {row} /\ settlements' = settlements \cup lines
  <2>1. /\ key.revision \in DOMAIN results
        /\ \E i \in DOMAIN comparisons :
             comparisons[i] = read /\ read.prediction = key.prediction
        /\ Backed(read)
    BY <1>1 DEF SoundRun, IInv, ComparisonsBacked
  <2> DEFINE result == results[key.revision]
             settles == read.eligibility = "eligible" /\ result.finality # "provisional"
  <2>2. /\ row.prediction = key.prediction
        /\ row.revision = key.revision
        /\ row.market = read.eligibility
        /\ row.settled = IF settles THEN Settle(SnapshotOf(read.snapshot), result) ELSE {}
        /\ row.snapshot = IF settles THEN read.snapshot ELSE Null
    BY DEF Evaluation
  <2>3. ASSUME settles
        PROVE  \E s \in stored : s.id = row.snapshot /\ s.id # Null /\ row.settled = Settle(s, result)
    <3>1. PICK s \in stored : s.id = read.snapshot
      BY <2>1, <2>3 DEF Backed
    <3>2. SnapshotOf(s.id) = s /\ s.id # Null
      BY SnapshotIsFound
    <3> QED
      BY <2>2, <2>3, <3>1, <3>2
  <2>4. \A x \in row.settled : SettlementOf(row, x) \in settlements'
    BY <1>5 DEF SettlementOf
  <2>5. SoundEvaluation(row)'
    <3>1. (row.snapshot # Null) <=> settles
      BY <2>2, <2>3
    <3>2. row.snapshot \in {read.snapshot, Null}
      BY <2>2
    <3>3. row.snapshot # Null =>
            \E s \in stored : s.id = row.snapshot
                                /\ \A x \in Settle(s, result) : SettlementOf(row, x) \in settlements'
      BY <2>3, <2>4, <3>1
    <3>4. row.revision \in DOMAIN results' /\ results'[row.revision] = result
      BY <1>1, <2>1, <2>2
    <3>5. \E i \in DOMAIN comparisons' :
            /\ comparisons'[i].prediction = row.prediction
            /\ comparisons'[i].eligibility = row.market
            /\ row.snapshot \in {comparisons'[i].snapshot, Null}
      <4>1. PICK i \in DOMAIN comparisons :
              comparisons[i] = read /\ read.prediction = key.prediction
        BY <2>1
      <4> QED
        BY <1>1, <2>2, <3>2, <4>1
    <3>6. row.snapshot # Null <=> row.market = "eligible" /\ result.finality # "provisional"
      BY <2>2, <3>1
    <3>7. row.snapshot # Null =>
            \E s \in stored' : s.id = row.snapshot
                                 /\ \A x \in Settle(s, result) : SettlementOf(row, x) \in settlements'
      BY <1>1, <3>3
    <3> HIDE DEF result, settles
    <3> QED
      BY <3>4, <3>5, <3>6, <3>7 DEF SoundEvaluation
  <2>6. ASSUME NEW t \in lines PROVE SoundSettlement(t)'
    <3>1. PICK x \in row.settled : t = [snapshot |-> row.snapshot, line |-> x[1],
                                        revision |-> row.revision, outcome |-> x[2]]
      OBVIOUS
    <3>2. settles
      BY <2>2, <3>1
    <3>3. PICK s \in stored : s.id = row.snapshot /\ row.settled = Settle(s, result)
      BY <2>3, <3>2
    <3>4. x = <<x[1], x[2]>>
      BY <3>1, <3>3 DEF Settle
    <3>5. /\ t.revision = key.revision
          /\ t.snapshot = row.snapshot
          /\ <<t.line, t.outcome>> = x
      BY <2>2, <3>1, <3>4
    <3>6. row \in evaluations'
      BY <1>5
    <3>7. row.revision = t.revision /\ row.snapshot = t.snapshot
      BY <2>2, <3>5
    <3>8. /\ t.revision \in DOMAIN results'
          /\ results'[t.revision] = result
      BY <1>1, <2>1, <3>5
    <3>9. s \in stored' /\ <<t.line, t.outcome>> \in Settle(s, result)
      BY <1>1, <3>3, <3>5
    <3> HIDE DEF result, settles
    <3> QED
      BY <3>3, <3>5, <3>6, <3>7, <3>8, <3>9 DEF SoundSettlement
  <2>7. TablesSound'
    <3>1. \A e \in evaluations : SoundEvaluation(e)'
      BY <1>2, EvaluationStays DEF IInv, TablesSound
    <3>2. \A t \in settlements : SoundSettlement(t)'
      BY <1>2, SettlementStays DEF IInv, TablesSound
    <3> QED
      BY <1>5, <2>5, <2>6, <3>1, <3>2 DEF TablesSound
  <2> QED
    BY <1>1, <1>3, <2>7 DEF IInv, TypeOK, ComparisonsBacked, Backed
<1> QED
  BY <1>1, <1>4, <1>5

LEMMA NextIInv ==
    ASSUME IInv, [EvaluationNext]_evaluationVars
    PROVE  IInv'
<1>1. CASE UNCHANGED evaluationVars
  <2>1. Grown /\ UNCHANGED <<evaluations, settlements>>
    BY <1>1 DEF evaluationVars, Grown
  <2>2. TablesSound'
    BY <2>1, TablesStay
  <2>3. ASSUME NEW w \in Workers, run'[w] # NoRun PROVE SoundRun(w)'
    BY <1>1, <2>1, <2>3, RunStays DEF evaluationVars, IInv, RunsSound, SoundRun
  <2> QED
    BY <1>1, <2>2, <2>3
    DEF evaluationVars, IInv, TypeOK, ComparisonsBacked, Backed, RunsSound
<1>2. CASE \/ \E p \in Predictions : Publish(p) \/ Revoke(p)
           \/ TickMarket \/ TickEvaluation
  BY <1>2, OutsideStep
<1>3. ASSUME NEW observed \in Observations, ObserveResult(observed) PROVE IInv'
  BY <1>3, ObserveStep
<1>4. ASSUME NEW s \in Snapshots, StoreSnapshot(s) PROVE IInv'
  BY <1>4, StoreStep
<1>5. ASSUME NEW w \in Workers,
             \/ \E p \in Predictions : BeginCompare(w, p)
             \/ \E p \in Predictions, r \in DOMAIN results : BeginEvaluate(w, r, p)
             \/ CommitCompare(w) \/ CommitEvaluate(w)
      PROVE  IInv'
  BY <1>5, BeginCompareStep, BeginEvaluateStep, CommitCompareStep, CommitEvaluateStep
<1>6. ASSUME NEW w \in Workers, Fail(w) \/ Decline(w) PROVE IInv'
  <2>1. PICK outcome : Finish(w, outcome)
    BY <1>6 DEF Fail, Decline
  <2>2. UNCHANGED <<status, results, stored, comparisons, evaluations, settlements>>
    BY <1>6 DEF Fail, Decline
  <2> QED
    BY <2>1, <2>2, FinishStep
<1>7. ASSUME NEW w \in Workers, LoseLease(w) PROVE IInv'
  BY <1>7, LoseLeaseStep
<1> QED
  BY <1>1, <1>2, <1>3, <1>4, <1>5, <1>6, <1>7 DEF EvaluationNext

\* Every run reads what stays so, every comparison that settles names a stored
\* snapshot, and every row written rests on what was there when it was written.
THEOREM Invariance ==
    ASSUME NEW starts, \A start \in starts : SoundStart(start)
    PROVE  EvaluationSpec(starts) => []IInv
<1>1. EvaluationInit(starts) => IInv
  BY InitIInv
<1>2. IInv /\ [EvaluationNext]_evaluationVars => IInv'
  BY NextIInv
<1> QED
  BY <1>1, <1>2, PTL DEF EvaluationSpec

\* EvaluationsAgree: evaluations, comparisons, settlements and revisions always
\* tell one story.
THEOREM EvaluationsAlwaysAgree ==
    ASSUME NEW starts, \A start \in starts : SoundStart(start)
    PROVE  EvaluationSpec(starts) => []EvaluationsAgree
<1>1. ASSUME IInv PROVE EvaluationsAgree
  <2> DEFINE made(e) == {<<t.line, t.outcome>> : t \in {x \in settlements :
                           x.revision = e.revision /\ x.snapshot = e.snapshot}}
  <2>1. \A e \in evaluations : SoundEvaluation(e)
    BY <1>1 DEF IInv, TablesSound
  <2>2. \A t \in settlements : SoundSettlement(t)
    BY <1>1 DEF IInv, TablesSound
  <2>3. ASSUME NEW e \in evaluations, e.snapshot # Null
        PROVE  made(e) = Settle(SnapshotOf(e.snapshot), results[e.revision])
    <3>1. PICK s \in stored :
            /\ s.id = e.snapshot
            /\ \A x \in Settle(s, results[e.revision]) : SettlementOf(e, x) \in settlements
      BY <2>1, <2>3 DEF SoundEvaluation
    <3>2. SnapshotOf(e.snapshot) = s
      BY <1>1, <3>1, SnapshotIsFound
    <3>3. ASSUME NEW x \in Settle(s, results[e.revision]) PROVE x \in made(e)
      <4>1. x = <<x[1], x[2]>>
        BY <3>3 DEF Settle
      <4>2. /\ SettlementOf(e, x) \in settlements
            /\ SettlementOf(e, x).revision = e.revision
            /\ SettlementOf(e, x).snapshot = e.snapshot
            /\ <<SettlementOf(e, x).line, SettlementOf(e, x).outcome>> = x
        BY <3>1, <4>1 DEF SettlementOf
      <4> QED
        BY <4>2
    <3>4. ASSUME NEW x \in made(e) PROVE x \in Settle(s, results[e.revision])
      <4>1. PICK t \in settlements :
              t.revision = e.revision /\ t.snapshot = e.snapshot /\ x = <<t.line, t.outcome>>
        BY <3>4
      <4>2. PICK o \in stored :
              o.id = t.snapshot /\ <<t.line, t.outcome>> \in Settle(o, results[t.revision])
        BY <2>2 DEF SoundSettlement
      <4>3. o = s
        BY <1>1, <3>1, <4>1, <4>2, SnapshotIsFound
      <4> QED
        BY <4>1, <4>2, <4>3
    <3> HIDE DEF made
    <3> QED
      BY <3>2, <3>3, <3>4
  <2> HIDE DEF made
  <2>4. \A e \in evaluations :
          /\ \E i \in DOMAIN comparisons :
               /\ comparisons[i].prediction = e.prediction
               /\ comparisons[i].eligibility = e.market
               /\ e.snapshot \in {comparisons[i].snapshot, Null}
          /\ e.snapshot # Null <=>
               e.market = "eligible" /\ results[e.revision].finality # "provisional"
    BY <2>1 DEF SoundEvaluation
  <2>5. \A t \in settlements : \E e \in evaluations :
          e.snapshot = t.snapshot /\ e.revision = t.revision
    BY <2>2 DEF SoundSettlement
  <2> QED
    BY <2>3, <2>4, <2>5 DEF EvaluationsAgree, made
<1>2. EvaluationSpec(starts) => []IInv
  BY Invariance
<1> QED
  BY <1>1, <1>2, PTL

-----------------------------------------------------------------------------
(* The invariant of the jobs.                                              *)

\* The output of each prediction is one the market's reader accepts once the
\* prediction is published, as the publication makes it.
RowsSound ==
    \A p \in Predictions : ~Refusal(MarketInput([Rows[p] EXCEPT !.status = "published"]))

\* What the state of a job says of its prediction.
OutcomeSound(k, outcome) ==
    /\ outcome \in {"queued", "done", "ineligible", "exhausted"}
    /\ k.type = "market" =>
         /\ outcome = "done" => Compared(k.prediction)
         /\ outcome = "ineligible" =>
              Compared(k.prediction) \/ status[k.prediction] = "voided"
    /\ k.type = "evaluation" =>
         /\ outcome = "done" => Evaluated(k.revision, k.prediction)
         /\ outcome = "ineligible" => status[k.prediction] = "voided"

SoundJob(k) ==
    /\ k.type \in {"market", "evaluation"}
    /\ k.prediction \in Predictions
    /\ status[k.prediction] # "absent"
    /\ k.type = "evaluation" => Compared(k.prediction)
    /\ OutcomeSound(k, work[k])

JobsSound == \A k \in DOMAIN work : SoundJob(k)

\* A job is refused only for a prediction that was revoked.
RunOfJob(w) ==
    /\ run[w].key \in DOMAIN work
    /\ Refusal(run[w].read) => status[run[w].key.prediction] = "voided"

WInv == JobsSound /\ \A w \in Workers : run[w] # NoRun => RunOfJob(w)

\* A prediction is published once and revoked for good.
Onward ==
    /\ Grown
    /\ DOMAIN work \subseteq DOMAIN work'
    /\ \A p \in Predictions :
         /\ status[p] # "absent" => status'[p] # "absent"
         /\ status[p] = "voided" => status'[p] = "voided"

LEMMA OutcomeStays ==
    ASSUME NEW k, k.prediction \in Predictions, NEW outcome, OutcomeSound(k, outcome), Onward
    PROVE  OutcomeSound(k, outcome)'
<1>1. Compared(k.prediction) => Compared(k.prediction)'
  BY DEF Onward, Grown, Compared
<1>2. Evaluated(k.revision, k.prediction) => Evaluated(k.revision, k.prediction)'
  BY DEF Onward, Grown, Evaluated
<1> QED
  BY <1>1, <1>2 DEF OutcomeSound, Onward

LEMMA JobStays ==
    ASSUME NEW k, SoundJob(k), Onward, work'[k] = work[k]
    PROVE  SoundJob(k)'
<1> PICK outcome : outcome = work[k]
  OBVIOUS
<1>1. Compared(k.prediction) => Compared(k.prediction)'
  BY DEF Onward, Grown, Compared
<1>2. OutcomeSound(k, outcome)'
  BY OutcomeStays DEF SoundJob
<1>3. OutcomeSound(k, work[k])'
  BY <1>2 DEF OutcomeSound
<1> QED
  BY <1>1, <1>3 DEF SoundJob, Onward

LEMMA JobEnds ==
    ASSUME NEW k, SoundJob(k), Onward, NEW outcome, OutcomeSound(k, outcome)',
           work'[k] = outcome
    PROVE  SoundJob(k)'
<1>1. Compared(k.prediction) => Compared(k.prediction)'
  BY DEF Onward, Grown, Compared
<1>2. OutcomeSound(k, work[k])'
  BY DEF OutcomeSound
<1> QED
  BY <1>1, <1>2 DEF SoundJob, Onward

\* A step that neither starts a run nor ends a job.
LEMMA WorkStays ==
    ASSUME WInv, Onward, RunsSound, UNCHANGED <<work, run>>
    PROVE  WInv'
<1>1. ASSUME NEW k \in DOMAIN work' PROVE SoundJob(k)'
  <2>1. SoundJob(k) /\ work'[k] = work[k]
    BY DEF WInv, JobsSound
  <2> QED
    BY <2>1, JobStays
<1>2. ASSUME NEW w \in Workers, run'[w] # NoRun PROVE RunOfJob(w)'
  BY <1>2 DEF WInv, RunOfJob, Onward, RunsSound, SoundRun
<1> QED
  BY <1>1, <1>2 DEF WInv, JobsSound

\* A ticker enqueues a job for a prediction that was published.
LEMMA EnqueueWork ==
    ASSUME IInv, WInv, NEW keys, Enqueue(keys),
           \A k \in keys :
             /\ k.type \in {"market", "evaluation"}
             /\ k.prediction \in Predictions
             /\ status[k.prediction] # "absent"
             /\ k.type = "evaluation" => Compared(k.prediction)
    PROVE  WInv'
<1> DEFINE new == keys \ DOMAIN work
<1>1. /\ DOMAIN work' = DOMAIN work \cup new
      /\ \A k \in DOMAIN work : work'[k] = work[k]
      /\ \A k \in new : work'[k] = "queued"
      /\ UNCHANGED <<status, results, stored, comparisons, evaluations, settlements, run>>
  BY DEF Enqueue
<1> HIDE DEF new
<1>2. Onward
  BY <1>1 DEF Onward, Grown
<1>3. ASSUME NEW k \in DOMAIN work PROVE SoundJob(k)'
  <2>1. SoundJob(k) /\ work'[k] = work[k]
    BY <1>1 DEF WInv, JobsSound
  <2> QED
    BY <1>2, <2>1, JobStays
<1>4. ASSUME NEW k \in new PROVE SoundJob(k)'
  BY <1>1 DEF new, SoundJob, OutcomeSound, Compared
<1>5. ASSUME NEW w \in Workers, run'[w] # NoRun PROVE RunOfJob(w)'
  BY <1>1, <1>5 DEF WInv, RunOfJob
<1> QED
  BY <1>1, <1>3, <1>4, <1>5 DEF WInv, JobsSound

\* A worker starts a run: of a job that is there, refused only if it is void.
LEMMA ReadingWork ==
    ASSUME IInv, WInv, NEW w \in Workers, NEW key, NEW read, Reading(w, key, read),
           key \in DOMAIN work, Refusal(read) => status[key.prediction] = "voided"
    PROVE  WInv'
<1> DEFINE x == [key |-> key, read |-> read, leased |-> TRUE]
<1>1. /\ run' = [run EXCEPT ![w] = x]
      /\ UNCHANGED <<status, results, stored, comparisons, evaluations, settlements, work>>
  BY DEF Reading
<1>2. x.key = key /\ x.read = read
  OBVIOUS
<1> HIDE DEF x
<1>3. /\ run'[w] = x
      /\ \A v \in Workers \ {w} : run'[v] = run[v]
  BY <1>1 DEF IInv, TypeOK
<1>4. RunOfJob(w)'
  BY <1>1, <1>2, <1>3 DEF RunOfJob
<1>5. ASSUME NEW v \in Workers \ {w}, run'[v] # NoRun PROVE RunOfJob(v)'
  BY <1>1, <1>3, <1>5 DEF WInv, RunOfJob
<1>6. JobsSound'
  BY <1>1 DEF WInv, JobsSound, SoundJob, OutcomeSound, Compared, Evaluated
<1> QED
  BY <1>4, <1>5, <1>6 DEF WInv

\* A run ends with an outcome that is true.
LEMMA FinishWork ==
    ASSUME IInv, WInv, NEW w \in Workers, run[w] # NoRun, NEW outcome, Finish(w, outcome),
           Grown, UNCHANGED status,
           NEW key, key = run[w].key, OutcomeSound(key, outcome)'
    PROVE  WInv'
<1>1. /\ DOMAIN work' = DOMAIN work
      /\ work'[key] \in {work[key], outcome}
      /\ \A k \in DOMAIN work \ {key} : work'[k] = work[k]
      /\ run' = [run EXCEPT ![w] = NoRun]
      /\ key \in DOMAIN work
  BY DEF Finish, WInv, RunOfJob
<1>2. Onward
  BY <1>1 DEF Onward
<1>3. ASSUME NEW k \in DOMAIN work' PROVE SoundJob(k)'
  <2>1. SoundJob(k)
    BY <1>1 DEF WInv, JobsSound
  <2>2. work'[k] = work[k] \/ (k = key /\ work'[k] = outcome)
    BY <1>1
  <2> QED
    BY <1>2, <2>1, <2>2, JobStays, JobEnds
<1>4. ASSUME NEW v \in Workers, run'[v] # NoRun PROVE RunOfJob(v)'
  <2>1. run'[v] = run[v]
    BY <1>1, <1>4 DEF IInv, TypeOK
  <2> QED
    BY <1>1, <1>4, <2>1 DEF WInv, RunOfJob
<1> QED
  BY <1>3, <1>4 DEF WInv, JobsSound

\* What others write does not touch the jobs.
LEMMA OutsideWork ==
    ASSUME IInv, WInv,
           \/ \E p \in Predictions : Publish(p) \/ Revoke(p)
           \/ \E observed \in Observations : ObserveResult(observed)
           \/ \E s \in Snapshots : StoreSnapshot(s)
    PROVE  WInv'
<1>1. UNCHANGED <<comparisons, evaluations, settlements, work, run>>
  BY DEF Publish, Revoke, ObserveResult, StoreSnapshot
<1>2. stored \subseteq stored'
  BY DEF Publish, Revoke, ObserveResult, StoreSnapshot
<1>3. \A i \in DOMAIN results : i \in DOMAIN results' /\ results'[i] = results[i]
  <2>1. ASSUME NEW observed \in Observations, ObserveResult(observed)
        PROVE  \A i \in DOMAIN results : i \in DOMAIN results' /\ results'[i] = results[i]
    <3>1. PICK row : results' = Append(results, row)
      BY <2>1 DEF ObserveResult
    <3>2. results \in Seq(ResultRows)
      BY DEF IInv, TypeOK
    <3> QED
      BY <3>1, <3>2
  <2> QED
    BY <2>1 DEF Publish, Revoke, StoreSnapshot
<1>4. ASSUME NEW p \in Predictions
      PROVE  /\ status[p] # "absent" => status'[p] # "absent"
             /\ status[p] = "voided" => status'[p] = "voided"
  <2>1. status \in [Predictions -> {"absent", "published", "voided"}]
    BY DEF IInv, TypeOK
  <2> QED
    BY <2>1 DEF Publish, Revoke, ObserveResult, StoreSnapshot
<1>5. Onward
  BY <1>1, <1>2, <1>3, <1>4 DEF Onward, Grown
<1> QED
  BY <1>1, <1>5, WorkStays DEF IInv

LEMMA TickWork ==
    ASSUME IInv, WInv, TickMarket \/ TickEvaluation
    PROVE  WInv'
<1>1. ASSUME NEW k \in UncomparedKeys
      PROVE  k.type = "market" /\ k.prediction \in Predictions /\ status[k.prediction] # "absent"
  BY DEF UncomparedKeys, MarketKey
<1>2. ASSUME NEW k \in UnevaluatedKeys
      PROVE  /\ k.type = "evaluation"
             /\ k.prediction \in Predictions
             /\ status[k.prediction] # "absent"
             /\ Compared(k.prediction)
  <2>1. PICK x \in (DOMAIN results) \X Predictions :
          /\ status[x[2]] = "published" /\ Compared(x[2])
          /\ k = EvaluationKey(x[1], x[2])
    BY DEF UnevaluatedKeys
  <2> QED
    BY <2>1 DEF EvaluationKey
<1>3. CASE TickMarket
  BY <1>1, <1>3, EnqueueWork DEF TickMarket
<1>4. CASE TickEvaluation
  BY <1>2, <1>4, EnqueueWork DEF TickEvaluation
<1> QED
  BY <1>3, <1>4

LEMMA BeginCompareWork ==
    ASSUME RowsSound, IInv, WInv, NEW w \in Workers, NEW p \in Predictions, BeginCompare(w, p)
    PROVE  WInv'
<1> DEFINE prediction == MarketInput([Rows[p] EXCEPT !.status = status[p]])
           read == IF "refused" \in DOMAIN prediction THEN prediction
                   ELSE Evaluate(prediction, Cutoff,
                                 Availability(stored, Rows[p].match, Cutoff, MaxAge))
<1>1. Reading(w, MarketKey(p), read) /\ MarketKey(p) \in DOMAIN work
  BY DEF BeginCompare, Claim
<1>2. MarketKey(p).prediction = p
  BY DEF MarketKey
<1>3. status[p] \in {"published", "voided"}
  BY <1>1, <1>2 DEF WInv, JobsSound, SoundJob, IInv, TypeOK
<1>4. Refusal(read) => status[p] = "voided"
  <2>1. Refusal(read) => Refusal(prediction)
    <3> HIDE DEF prediction
    <3> QED
      BY EvaluateReads DEF Refusal
  <2>2. status[p] = "published" => ~Refusal(prediction)
    BY DEF RowsSound
  <2> QED
    BY <1>3, <2>1, <2>2
<1> HIDE DEF read
<1> QED
  BY <1>1, <1>2, <1>4, ReadingWork

LEMMA BeginEvaluateWork ==
    ASSUME IInv, WInv, NEW w \in Workers, NEW p \in Predictions, NEW r, BeginEvaluate(w, r, p)
    PROVE  WInv'
<1> DEFINE own == {i \in DOMAIN comparisons : comparisons[i].prediction = p}
           read == IF status[p] # "published" \/ own = {} THEN Refused("lookup")
                   ELSE comparisons[Max(own)]
<1>1. Reading(w, EvaluationKey(r, p), read) /\ EvaluationKey(r, p) \in DOMAIN work
  BY DEF BeginEvaluate, Claim
<1>2. EvaluationKey(r, p).prediction = p /\ EvaluationKey(r, p).type = "evaluation"
  BY DEF EvaluationKey
<1>3. status[p] \in {"published", "voided"} /\ Compared(p)
  BY <1>1, <1>2 DEF WInv, JobsSound, SoundJob, IInv, TypeOK
<1>4. own # {}
  BY <1>3 DEF Compared
<1>5. own # {} => Max(own) \in own
  <2>1. own \in SUBSET Int /\ IsFiniteSet(own)
    <3>1. DOMAIN comparisons = 1..Len(comparisons) /\ Len(comparisons) \in Nat
      BY DEF IInv, TypeOK
    <3>2. IsFiniteSet(DOMAIN comparisons)
      BY <3>1, FS_Interval
    <3> QED
      BY <3>1, <3>2, FS_Subset
  <2> HIDE DEF own
  <2> QED
    BY <2>1, MaxIsOne
<1>6. status[p] = "published" => ~Refusal(read)
  <2>1. comparisons[Max(own)] \in ComparisonRecord
    BY <1>4, <1>5 DEF IInv, TypeOK
  <2>2. ~Refusal(comparisons[Max(own)])
    BY <2>1 DEF ComparisonRecord, Refusal
  <2> HIDE DEF own
  <2> QED
    BY <1>4, <2>2
<1> HIDE DEF read
<1> QED
  BY <1>1, <1>2, <1>3, <1>6, ReadingWork

LEMMA CommitCompareWork ==
    ASSUME IInv, WInv, NEW w \in Workers, CommitCompare(w)
    PROVE  WInv'
<1> PICK key : key = run[w].key
  OBVIOUS
<1> PICK row : row = [prediction |-> key.prediction, snapshot |-> run[w].read.snapshot,
                      eligibility |-> run[w].read.eligibility]
  OBVIOUS
<1> DEFINE present == {i \in DOMAIN comparisons : comparisons[i].prediction = row.prediction
                                                    /\ comparisons[i].snapshot = row.snapshot}
<1> PICK outcome : outcome = IF \E i \in present : comparisons[i] # row THEN "ineligible" ELSE "done"
  OBVIOUS
<1>1. /\ key # Null
      /\ key.type = "market"
      /\ comparisons' = IF present = {} THEN Append(comparisons, row) ELSE comparisons
      /\ Finish(w, outcome)
      /\ UNCHANGED <<status, results, stored, evaluations, settlements>>
  BY DEF CommitCompare
<1>2. row.prediction = key.prediction
  OBVIOUS
<1>3. comparisons \in Seq(ComparisonRecord)
  BY DEF IInv, TypeOK
<1> SUFFICES Grown /\ Compared(key.prediction)'
  <2>1. run[w] # NoRun
    BY <1>1 DEF NoRun
  <2>2. OutcomeSound(key, outcome)'
    BY <1>1 DEF OutcomeSound
  <2> QED
    BY <1>1, <2>1, <2>2, FinishWork
<1>4. CASE present = {}
  <2>1. comparisons' = Append(comparisons, row)
    BY <1>1, <1>4
  <2> HIDE DEF present
  <2>2. /\ \A i \in DOMAIN comparisons : i \in DOMAIN comparisons' /\ comparisons'[i] = comparisons[i]
        /\ Len(comparisons) + 1 \in DOMAIN comparisons'
        /\ comparisons'[Len(comparisons) + 1] = row
    BY <1>3, <2>1
  <2>3. Grown
    BY <1>1, <2>2 DEF Grown
  <2> QED
    BY <1>2, <2>2, <2>3 DEF Compared
<1>5. CASE present # {}
  BY <1>1, <1>2, <1>5 DEF Grown, Compared
<1> QED
  BY <1>4, <1>5

\* No settlement is ever written against another of the same line: a revision
\* gives each line of a snapshot one outcome.
LEMMA SettledOnce ==
    ASSUME IInv, NEW t \in settlements, NEW r \in DOMAIN results, NEW s \in stored,
           t.revision = r, t.snapshot = s.id,
           NEW x \in Settle(s, results[r]), t.line = x[1]
    PROVE  t.outcome = x[2]
<1>1. PICK o \in stored : o.id = t.snapshot /\ <<t.line, t.outcome>> \in Settle(o, results[r])
  BY DEF IInv, TablesSound, SoundSettlement
<1>2. o = s
  BY <1>1, SnapshotIsFound
<1>3. \A a, b \in s.lines : a.id = b.id => a = b
  BY DEF IInv, TypeOK, ValidSnapshot
<1>4. PICK a \in s.lines : <<t.line, t.outcome>> = <<a.id, SettleLine(a, results[r])>>
  BY <1>1, <1>2 DEF Settle
<1>5. PICK b \in s.lines : x = <<b.id, SettleLine(b, results[r])>>
  BY DEF Settle
<1>6. a = b
  BY <1>3, <1>4, <1>5
<1> QED
  BY <1>4, <1>5, <1>6

LEMMA CommitEvaluateWork ==
    ASSUME IInv, WInv, NEW w \in Workers, CommitEvaluate(w)
    PROVE  WInv'
<1> PICK key : key = run[w].key
  OBVIOUS
<1> PICK read : read = run[w].read
  OBVIOUS
<1> PICK row : row = Evaluation(key.revision, key.prediction, read)
  OBVIOUS
<1> PICK lines : lines = {[snapshot |-> row.snapshot, line |-> x[1], revision |-> row.revision,
                           outcome |-> x[2]] : x \in row.settled}
  OBVIOUS
<1> DEFINE clash == \E t \in settlements, l \in lines :
                      /\ t.snapshot = l.snapshot /\ t.line = l.line /\ t.revision = l.revision
                      /\ t.outcome # l.outcome
<1>1. /\ key # Null
      /\ key.type = "evaluation"
      /\ ~Refusal(read)
      /\ UNCHANGED <<status, results, stored, comparisons>>
  BY DEF CommitEvaluate, Refusal
<1>2. run[w] # NoRun
  <2>1. key # Null
    BY <1>1
  <2> QED
    BY <2>1 DEF NoRun
<1>3. /\ key.revision \in DOMAIN results
      /\ Backed(read)
  BY <1>1, <1>2 DEF SoundRun, IInv, RunsSound, ComparisonsBacked
<1> DEFINE result == results[key.revision]
           settles == read.eligibility = "eligible" /\ result.finality # "provisional"
<1>4. /\ row.prediction = key.prediction
      /\ row.revision = key.revision
      /\ row.settled = IF settles THEN Settle(SnapshotOf(read.snapshot), result) ELSE {}
      /\ row.snapshot = IF settles THEN read.snapshot ELSE Null
  BY DEF Evaluation
<1>5. ~clash
  <2>1. SUFFICES ASSUME NEW t \in settlements, NEW l \in lines,
                        t.snapshot = l.snapshot, t.line = l.line, t.revision = l.revision
                 PROVE  t.outcome = l.outcome
    OBVIOUS
  <2>2. PICK x \in row.settled : l = [snapshot |-> row.snapshot, line |-> x[1],
                                      revision |-> row.revision, outcome |-> x[2]]
    OBVIOUS
  <2>3. settles
    BY <1>4, <2>2
  <2>4. PICK s \in stored : s.id = read.snapshot
    BY <1>3, <2>3 DEF Backed
  <2>5. x \in Settle(s, result)
    BY <1>4, <2>2, <2>3, <2>4, SnapshotIsFound
  <2>6. t.snapshot = s.id /\ t.revision = key.revision /\ t.line = x[1] /\ l.outcome = x[2]
    BY <1>4, <2>1, <2>2, <2>3, <2>4
  <2> QED
    BY <1>3, <2>5, <2>6, SettledOnce
<1> HIDE DEF clash
<1>6. /\ evaluations' = evaluations \cup {row}
      /\ settlements' = settlements \cup lines
      /\ Finish(w, "done")
  <2> DEFINE written == Evaluation(run[w].key.revision, run[w].key.prediction, run[w].read)
             made == {[snapshot |-> written.snapshot, line |-> x[1],
                       revision |-> written.revision, outcome |-> x[2]] : x \in written.settled}
             opposed == \E t \in settlements, l \in made :
                          /\ t.snapshot = l.snapshot /\ t.line = l.line
                          /\ t.revision = l.revision
                          /\ t.outcome # l.outcome
  <2>1. /\ evaluations' = IF opposed THEN evaluations ELSE evaluations \cup {written}
        /\ settlements' = IF opposed THEN settlements ELSE settlements \cup made
        /\ Finish(w, IF opposed THEN "ineligible" ELSE "done")
    BY DEF CommitEvaluate
  <2>2. written = row
    OBVIOUS
  <2> HIDE DEF written
  <2>3. made = lines
    BY <2>2
  <2> HIDE DEF made
  <2>4. ~opposed
    BY <1>5, <2>3 DEF clash
  <2> HIDE DEF opposed
  <2> QED
    BY <2>1, <2>2, <2>3, <2>4
<1>7. Finish(w, "done") /\ row \in evaluations' /\ Grown
  BY <1>1, <1>6 DEF Grown
<1>8. OutcomeSound(key, "done")'
  BY <1>1, <1>4, <1>7 DEF OutcomeSound, Evaluated
<1> QED
  BY <1>1, <1>2, <1>7, <1>8, FinishWork

LEMMA FailWork ==
    ASSUME IInv, WInv, NEW w \in Workers, Fail(w) \/ Decline(w)
    PROVE  WInv'
<1> PICK key : key = run[w].key
  OBVIOUS
<1>1. /\ run[w] # NoRun
      /\ UNCHANGED <<status, results, stored, comparisons, evaluations, settlements>>
  BY DEF Fail, Decline
<1>2. Grown
  BY <1>1 DEF Grown
<1>3. PICK outcome : /\ Finish(w, outcome)
                     /\ \/ outcome \in {"queued", "exhausted"}
                        \/ outcome = "ineligible" /\ Refusal(run[w].read)
  BY DEF Fail, Decline, Refusal
<1>4. OutcomeSound(key, outcome)'
  <2>1. outcome = "ineligible" => status[key.prediction] = "voided"
    BY <1>1, <1>3 DEF WInv, RunOfJob
  <2> QED
    BY <1>1, <1>3, <2>1 DEF OutcomeSound
<1> QED
  BY <1>1, <1>2, <1>3, <1>4, FinishWork

LEMMA LoseLeaseWork ==
    ASSUME IInv, WInv, NEW w \in Workers, LoseLease(w)
    PROVE  WInv'
<1> DEFINE y == run[w]
           x == [y EXCEPT !.leased = FALSE]
<1>1. /\ run' = [run EXCEPT ![w] = x]
      /\ UNCHANGED <<status, results, stored, comparisons, evaluations, settlements, work>>
      /\ RunOfJob(w)
      /\ SoundRun(w)
  BY DEF LoseLease, WInv, IInv, RunsSound
<1>2. x.key = y.key /\ x.read = y.read
  <2>1. y = [f \in RunFields |-> y[f]]
    BY <1>1 DEF SoundRun
  <2> HIDE DEF y
  <2> QED
    BY <2>1 DEF RunFields
<1> HIDE DEF x
<1>3. run'[w] = x /\ \A v \in Workers \ {w} : run'[v] = run[v]
  BY <1>1 DEF IInv, TypeOK
<1>4. RunOfJob(w)'
  BY <1>1, <1>2, <1>3 DEF RunOfJob
<1>5. ASSUME NEW v \in Workers \ {w}, run'[v] # NoRun PROVE RunOfJob(v)'
  BY <1>1, <1>3, <1>5 DEF WInv, RunOfJob
<1>6. JobsSound'
  BY <1>1 DEF WInv, JobsSound, SoundJob, OutcomeSound, Compared, Evaluated
<1> QED
  BY <1>4, <1>5, <1>6 DEF WInv

LEMMA NextWInv ==
    ASSUME RowsSound, IInv, WInv, [EvaluationNext]_evaluationVars
    PROVE  WInv'
<1>1. CASE UNCHANGED evaluationVars
  <2>1. Onward /\ UNCHANGED <<work, run>>
    BY <1>1 DEF evaluationVars, Onward, Grown
  <2> QED
    BY <2>1, WorkStays DEF IInv
<1>2. CASE \/ \E p \in Predictions : Publish(p) \/ Revoke(p)
           \/ \E observed \in Observations : ObserveResult(observed)
           \/ \E s \in Snapshots : StoreSnapshot(s)
  BY <1>2, OutsideWork
<1>3. CASE TickMarket \/ TickEvaluation
  BY <1>3, TickWork
<1>4. ASSUME NEW w \in Workers,
             \/ \E p \in Predictions : BeginCompare(w, p)
             \/ \E p \in Predictions, r \in DOMAIN results : BeginEvaluate(w, r, p)
      PROVE  WInv'
  BY <1>4, BeginCompareWork, BeginEvaluateWork
<1>5. ASSUME NEW w \in Workers,
             CommitCompare(w) \/ CommitEvaluate(w) \/ Fail(w) \/ Decline(w) \/ LoseLease(w)
      PROVE  WInv'
  BY <1>5, CommitCompareWork, CommitEvaluateWork, FailWork, LoseLeaseWork
<1> QED
  BY <1>1, <1>2, <1>3, <1>4, <1>5 DEF EvaluationNext

\* A job that ended for good left what it was for, or was for a prediction that
\* was revoked.
THEOREM JobInvariance ==
    ASSUME RowsSound, NEW starts, \A start \in starts : SoundStart(start)
    PROVE  EvaluationSpec(starts) => []WInv
<1>1. EvaluationInit(starts) => WInv
  BY DEF EvaluationInit, WInv, JobsSound
<1>2. IInv /\ WInv /\ [EvaluationNext]_evaluationVars => WInv'
  BY NextWInv
<1>3. EvaluationSpec(starts) => []IInv
  BY Invariance
<1> QED
  BY <1>1, <1>2, <1>3, PTL DEF EvaluationSpec

\* PublishedEvaluated: no published prediction is left without its evaluation
\* while nothing more will be done for it.
THEOREM PublishedAreEvaluated ==
    ASSUME RowsSound, NEW starts, \A start \in starts : SoundStart(start)
    PROVE  EvaluationSpec(starts) => []PublishedEvaluated
<1>1. ASSUME WInv PROVE PublishedEvaluated
  <2> SUFFICES ASSUME NEW p \in Predictions, NEW r \in DOMAIN results,
                      status[p] = "published", ~Evaluated(r, p)
               PROVE  \E k \in {MarketKey(p), EvaluationKey(r, p)} :
                        \/ k \in DOMAIN work /\ work[k] \in {"queued", "exhausted"}
                        \/ k \in (UncomparedKeys \cup UnevaluatedKeys) \ DOMAIN work
    BY DEF PublishedEvaluated
  <2>1. CASE ~Compared(p)
    <3>1. MarketKey(p) \in UncomparedKeys
      BY <2>1 DEF UncomparedKeys
    <3>2. MarketKey(p).type = "market" /\ MarketKey(p).prediction = p
      BY DEF MarketKey
    <3>3. MarketKey(p) \in DOMAIN work => work[MarketKey(p)] \in {"queued", "exhausted"}
      BY <1>1, <2>1, <3>2 DEF WInv, JobsSound, SoundJob, OutcomeSound
    <3> QED
      BY <3>1, <3>3
  <2>2. CASE Compared(p)
    <3>1. EvaluationKey(r, p) \in UnevaluatedKeys
      <4>1. <<r, p>> \in (DOMAIN results) \X Predictions /\ <<r, p>>[1] = r /\ <<r, p>>[2] = p
        OBVIOUS
      <4> QED
        BY <2>2, <4>1 DEF UnevaluatedKeys
    <3>2. /\ EvaluationKey(r, p).type = "evaluation"
          /\ EvaluationKey(r, p).prediction = p
          /\ EvaluationKey(r, p).revision = r
      BY DEF EvaluationKey
    <3>3. EvaluationKey(r, p) \in DOMAIN work =>
            work[EvaluationKey(r, p)] \in {"queued", "exhausted"}
      BY <1>1, <3>2 DEF WInv, JobsSound, SoundJob, OutcomeSound
    <3> QED
      BY <3>1, <3>3
  <2> QED
    BY <2>1, <2>2
<1>2. EvaluationSpec(starts) => []WInv
  BY JobInvariance
<1> QED
  BY <1>1, <1>2, PTL

-----------------------------------------------------------------------------
(* Lines.                                                                  *)

\* What a case has to be: a result that counts, and lines as the adapters make
\* them.
SoundCase(x) ==
    /\ x.result.sets \in SetScores
    /\ x.result.points \in Nat \X Nat
    /\ x.result.finality # "void"
    /\ IsFiniteSet(x.snapshot.lines)
    /\ \A line \in x.snapshot.lines :
         line.type \in {"moneyline", "handicap", "total"} /\ line.line \in Int \cup {Null}

\* None is neither a number nor a text nor a table.
NullIsNoValue ==
    /\ Null \notin Int
    /\ Null \notin {"partial_period_not_supported",
                    "quarter_or_other_fractional_line_not_supported"}
    /\ \A S, T : Null \notin [S -> T]
    /\ Null \notin [win : Nat, push : Nat, loss : Nat]

LEMMA SetScoresFinite ==
    ASSUME SetsToWin \in Nat
    PROVE  IsFiniteSet(SetScores) /\ \A s \in SetScores : s \in Nat \X Nat /\ s[1] # s[2]
<1>1. PICK N : N = 0..SetsToWin
  OBVIOUS
<1>2. IsFiniteSet(N)
  BY <1>1, FS_Interval
<1>3. IsFiniteSet(N \X N)
  BY <1>2, FS_Product
<1>4. SetScores \subseteq N \X N /\ \A s \in SetScores : s[1] # s[2]
  BY <1>1 DEF SetScores
<1>5. N \subseteq Nat
  BY <1>1
<1> QED
  BY <1>3, <1>4, <1>5, FS_Subset

\* Which of the three a distance is.
OutcomeOf(distance) == IF distance > 0 THEN "win" ELSE IF distance < 0 THEN "loss" ELSE "push"

\* All of it on one value makes one outcome certain.
LEMMA CertainOfOne ==
    ASSUME NEW S, IsFiniteSet(S), NEW f \in [S -> Nat], NEW distance \in [S -> Int], NEW a \in S,
           \A x \in S \ {a} : f[x] = 0
    PROVE  /\ LineProbabilities(Values(f, distance)) \in [win : Nat, push : Nat, loss : Nat]
           /\ LineProbabilities(Values(f, distance))[OutcomeOf(distance[a])] = f[a]
<1>1. PICK values : values = Values(f, distance)
  OBVIOUS
<1>2. PICK D : D = Range(distance)
  OBVIOUS
<1>3. D \subseteq Int /\ distance[a] \in D /\ DOMAIN values = D /\ DOMAIN f = S
  BY <1>1, <1>2 DEF Values, Range
<1>4. IsFiniteSet(D)
  <2>1. distance \in Surjection(S, D)
    BY <1>2 DEF Range, Surjection
  <2> QED
    BY <2>1, FS_Surjection
<1>5. values[distance[a]] = f[a] /\ f[a] \in Nat
  <2>1. PICK T : T = {x \in S : distance[x] = distance[a]}
    OBVIOUS
  <2>2. IsFiniteSet(T) /\ a \in T /\ \A x \in T \ {a} : f[x] = 0
    BY <2>1, FS_Subset
  <2>3. SumFunctionOnSet(f, T) = f[a]
    BY <2>2, SumOfOne
  <2>4. values[distance[a]] = SumFunctionOnSet(f, T)
    BY <1>1, <1>2, <1>3, <2>1 DEF Values
  <2> QED
    BY <2>3, <2>4
<1>6. ASSUME NEW d \in D, d # distance[a] PROVE values[d] = 0
  <2>1. PICK T : T = {x \in S : distance[x] = d}
    OBVIOUS
  <2>2. IsFiniteSet(T) /\ \A x \in T : f[x] = 0
    BY <1>6, <2>1, FS_Subset
  <2>3. SumFunctionOnSet(f, T) = 0
    BY <2>2, SumOfZeros
  <2>4. values[d] = SumFunctionOnSet(f, T)
    BY <1>1, <1>2, <1>3, <2>1 DEF Values
  <2> QED
    BY <2>3, <2>4
<1>7. ASSUME NEW T \in SUBSET D
      PROVE  SumFunctionOnSet(values, T) = IF distance[a] \in T THEN f[a] ELSE 0
  <2>1. IsFiniteSet(T)
    BY <1>4, FS_Subset
  <2>2. CASE distance[a] \in T
    <3>1. \A d \in T \ {distance[a]} : values[d] = 0
      BY <1>6
    <3>2. SumFunctionOnSet(values, T) = values[distance[a]]
      BY <1>5, <2>1, <2>2, <3>1, SumOfOne
    <3> QED
      BY <1>5, <2>2, <3>2
  <2>3. CASE distance[a] \notin T
    <3>1. \A d \in T : values[d] = 0
      BY <1>6, <2>3
    <3> QED
      BY <2>1, <2>3, <3>1, SumOfZeros
  <2> QED
    BY <2>2, <2>3
<1>8. PICK above : above = {d \in D : d > 0}
  OBVIOUS
<1>9. PICK even : even = {d \in D : d = 0}
  OBVIOUS
<1>10. PICK below : below = {d \in D : d < 0}
  OBVIOUS
<1>11. LineProbabilities(values) =
         [win |-> SumFunctionOnSet(values, above), push |-> SumFunctionOnSet(values, even),
          loss |-> SumFunctionOnSet(values, below)]
  BY <1>3, <1>8, <1>9, <1>10 DEF LineProbabilities
<1>12. /\ SumFunctionOnSet(values, above) = IF distance[a] > 0 THEN f[a] ELSE 0
       /\ SumFunctionOnSet(values, even) = IF distance[a] = 0 THEN f[a] ELSE 0
       /\ SumFunctionOnSet(values, below) = IF distance[a] < 0 THEN f[a] ELSE 0
  BY <1>3, <1>7, <1>8, <1>9, <1>10
<1>13. distance[a] \in Int
  OBVIOUS
<1> QED
  BY <1>1, <1>5, <1>11, <1>12, <1>13 DEF OutcomeOf

\* A supported line is priced, and with certainty by a prediction certain of
\* the result.
LEMMA Priced ==
    ASSUME SetsToWin \in Nat, Whole \in Nat, NullIsNoValue, NEW x, SoundCase(x),
           NEW line \in x.snapshot.lines, ValidShape(line), UnsupportedReason(line) = Null
    PROVE  /\ EvaluateLine(Certain(x.result), line) # Null
           /\ EvaluateLine(Certain(x.result), line)[OutcomeOf(ResultComparison(line, x.result))]
                = Whole
<1>1. PICK sets : sets = x.result.sets
  OBVIOUS
<1>2. PICK points : points = x.result.points
  OBVIOUS
<1>3. sets \in SetScores /\ sets \in Nat \X Nat /\ points \in Nat \X Nat
  BY <1>1, <1>2, SetScoresFinite DEF SoundCase
<1>4. line.type \in {"moneyline", "handicap", "total"} /\ line.line \in Int \cup {Null}
  BY DEF SoundCase
<1>5. PICK prediction : prediction = Certain(x.result)
  OBVIOUS
<1>6. /\ prediction.home = IF sets[1] > sets[2] THEN Whole ELSE 0
      /\ prediction.sets = [s \in SetScores |-> IF s = sets THEN Whole ELSE 0]
      /\ prediction.totals = [v \in {points[1] + points[2]} |-> Whole]
      /\ prediction.differentials = [v \in {points[1] - points[2]} |-> Whole]
  BY <1>1, <1>2, <1>5 DEF Certain
<1>7. PICK comparison : comparison = ResultComparison(line, x.result)
  OBVIOUS
<1>8. PICK priced : priced = EvaluateLine(prediction, line)
  OBVIOUS
<1>9. CASE line.type = "moneyline"
  <2>1. prediction.home \in Nat /\ prediction.home # Null
    BY <1>3, <1>6 DEF NullIsNoValue
  <2>2. PICK win : win = IF line.selection = "home" THEN prediction.home ELSE Whole - prediction.home
    OBVIOUS
  <2>3. priced = [win |-> win, push |-> 0, loss |-> Whole - win]
    <3>1. PICK home : home = prediction.home
      OBVIOUS
    <3>2. home # Null
      BY <2>1, <3>1
    <3>3. CASE line.selection = "home"
      BY <1>8, <1>9, <2>2, <3>1, <3>2, <3>3 DEF EvaluateLine, ValidShape
    <3>4. CASE line.selection # "home"
      BY <1>8, <1>9, <2>2, <3>1, <3>2, <3>4 DEF EvaluateLine, ValidShape
    <3> QED
      BY <3>3, <3>4
  <2>4. win \in Nat /\ Whole - win \in Nat
    BY <1>6, <2>2
  <2>5. priced # Null
    BY <2>3, <2>4 DEF NullIsNoValue
  <2>6. comparison = IF (line.selection = "home") = (sets[1] > sets[2]) THEN 1 ELSE -1
    BY <1>1, <1>7, <1>9 DEF ResultComparison
  <2>7. priced[OutcomeOf(comparison)] = Whole
    BY <1>6, <2>2, <2>3, <2>6 DEF OutcomeOf
  <2> QED
    BY <1>5, <1>7, <1>8, <2>5, <2>7
<1>10. ASSUME line.type # "moneyline"
       PROVE  /\ line.type \in {"handicap", "total"} /\ line.line \in Int
              /\ line.unit \in {"sets", "points"}
  BY <1>4, <1>10 DEF ValidShape
<1>11. CASE line.type # "moneyline" /\ line.unit = "sets"
  <2>1. PICK distance : distance = [s \in SetScores |-> SetComparison(line, s)]
    OBVIOUS
  <2>2. \A s \in SetScores : SetComparison(line, s) \in Int
    BY <1>10, <1>11, SetScoresFinite DEF SetComparison
  <2>3. distance \in [SetScores -> Int] /\ prediction.sets \in [SetScores -> Nat]
    BY <1>6, <2>1, <2>2
  <2>4. /\ \A s \in SetScores \ {sets} : prediction.sets[s] = 0
        /\ prediction.sets[sets] = Whole
    BY <1>3, <1>6
  <2>5. /\ LineProbabilities(Values(prediction.sets, distance)) \in [win : Nat, push : Nat, loss : Nat]
        /\ LineProbabilities(Values(prediction.sets, distance))[OutcomeOf(distance[sets])] = Whole
    BY <1>3, <2>3, <2>4, SetScoresFinite, CertainOfOne
  <2>6. priced = LineProbabilities(Values(prediction.sets, distance))
    <3>1. prediction.sets # Null /\ DOMAIN prediction.sets = SetScores
      BY <2>3 DEF NullIsNoValue
    <3> QED
      BY <1>8, <1>11, <2>1, <3>1 DEF EvaluateLine, SetValues
  <2>7. comparison = distance[sets]
    BY <1>1, <1>3, <1>7, <1>10, <1>11, <2>1 DEF ResultComparison, SetComparison
  <2> QED
    BY <1>5, <1>7, <1>8, <2>5, <2>6, <2>7 DEF NullIsNoValue
<1>12. CASE line.type # "moneyline" /\ line.unit = "points"
  <2>1. PICK value : value = IF line.type = "handicap" THEN points[1] - points[2]
                             ELSE points[1] + points[2]
    OBVIOUS
  <2>2. PICK shares : shares = IF line.type = "handicap" THEN prediction.differentials
                               ELSE prediction.totals
    OBVIOUS
  <2>3. value \in Int /\ shares = [v \in {value} |-> Whole] /\ shares \in [{value} -> Nat]
    BY <1>3, <1>6, <1>10, <1>12, <2>1, <2>2
  <2>4. PICK S : S = {value}
    OBVIOUS
  <2>5. PICK distance : distance = [v \in S |-> PointComparison(line, v)]
    OBVIOUS
  <2>6. PointComparison(line, value) \in Int
    BY <1>10, <1>12, <2>3 DEF PointComparison
  <2>7. /\ distance \in [S -> Int] /\ shares \in [S -> Nat] /\ value \in S /\ IsFiniteSet(S)
        /\ shares[value] = Whole /\ \A v \in S \ {value} : shares[v] = 0
    BY <2>3, <2>4, <2>5, <2>6, FS_Singleton
  <2>8. /\ LineProbabilities(Values(shares, distance)) \in [win : Nat, push : Nat, loss : Nat]
        /\ LineProbabilities(Values(shares, distance))[OutcomeOf(distance[value])] = Whole
    BY <2>7, CertainOfOne
  <2>9. priced = LineProbabilities(Values(shares, distance))
    <3>1. shares # Null /\ DOMAIN shares = S
      BY <2>7 DEF NullIsNoValue
    <3> QED
      BY <1>8, <1>12, <2>2, <2>5, <3>1 DEF EvaluateLine, PointValues
  <2>10. comparison = distance[value]
    BY <1>2, <1>3, <1>7, <1>10, <1>12, <2>1, <2>4, <2>5 DEF ResultComparison, PointComparison
  <2> QED
    BY <1>5, <1>7, <1>8, <2>8, <2>9, <2>10 DEF NullIsNoValue
<1> QED
  BY <1>9, <1>10, <1>11, <1>12

\* The other side of a line's contract.
LEMMA OtherSide ==
    ASSUME NEW lines, IsFiniteSet(lines), TwoWayPairs(lines), NEW line \in lines,
           \A l \in lines : ValidShape(l)
    PROVE  \E other \in lines :
             /\ other = CHOOSE b \in lines \ {line} : Contract(b) = Contract(line)
             /\ Contract(other) = Contract(line)
             /\ {line.selection, other.selection} = Sides(line.type)
             /\ line.type = "handicap" /\ {line.line, other.line} \subseteq Int =>
                  line.line + other.line = 0
<1>1. PICK sides : sides = {b \in lines : Contract(b) = Contract(line)}
  OBVIOUS
<1>2. /\ Cardinality(sides) = 2
      /\ {b.selection : b \in sides} = Sides(line.type)
      /\ line.type = "handicap" => SumFunctionOnSet([b \in sides |-> b.line], sides) = 0
  BY <1>1 DEF TwoWayPairs
<1>3. IsFiniteSet(sides) /\ line \in sides
  BY <1>1, FS_Subset
<1>4. PICK rest : rest = sides \ {line}
  OBVIOUS
<1>5. Cardinality(rest) = 1 /\ IsFiniteSet(rest)
  BY <1>2, <1>3, <1>4, FS_RemoveElement
<1>6. PICK other : rest = {other}
  BY <1>5, FS_Singleton
<1>7. other \in lines /\ other # line /\ Contract(other) = Contract(line) /\ sides = {line, other}
  BY <1>1, <1>3, <1>4, <1>6
<1>8. other = CHOOSE b \in lines \ {line} : Contract(b) = Contract(line)
  <2>1. \A b \in lines \ {line} : Contract(b) = Contract(line) => b = other
    BY <1>1, <1>4, <1>6
  <2> QED
    BY <1>7, <2>1
<1>9. {line.selection, other.selection} = Sides(line.type)
  BY <1>2, <1>7
<1>10. ASSUME line.type = "handicap", line.line \in Int, other.line \in Int
       PROVE  line.line + other.line = 0
  <2>1. PICK f : f = [b \in sides |-> b.line]
    OBVIOUS
  <2>2. f[line] = line.line /\ f[other] = other.line
    BY <1>7, <2>1
  <2>3. SumFunctionOnSet(f, {line, other}) = f[line] + f[other]
    BY <1>7, <1>10, <2>2, SumOfTwo
  <2> QED
    BY <1>2, <1>7, <1>10, <2>1, <2>2, <2>3
<1> QED
  BY <1>7, <1>8, <1>9, <1>10

\* Opposite sides of a contract are settled oppositely.
LEMMA SettledOppositely ==
    ASSUME NullIsNoValue, SetsToWin \in Nat, NEW x, SoundCase(x),
           NEW line \in x.snapshot.lines, NEW other \in x.snapshot.lines,
           ValidShape(line), ValidShape(other), Contract(other) = Contract(line),
           {line.selection, other.selection} = Sides(line.type),
           line.type = "handicap" /\ {line.line, other.line} \subseteq Int =>
             line.line + other.line = 0
    PROVE  /\ UnsupportedReason(other) = Null <=> UnsupportedReason(line) = Null
           /\ ResultComparison(line, x.result) \in Int
           /\ ResultComparison(other, x.result) = -ResultComparison(line, x.result)
<1>1. PICK sets : sets = x.result.sets
  OBVIOUS
<1>2. PICK points : points = x.result.points
  OBVIOUS
<1>3. sets \in Nat \X Nat /\ points \in Nat \X Nat
  BY <1>1, <1>2, SetScoresFinite DEF SoundCase
<1>4. /\ other.type = line.type /\ other.unit = line.unit /\ other.period = line.period
      /\ line.type # "handicap" => other.line = line.line
  BY DEF Contract
<1>5. /\ line.type \in {"moneyline", "handicap", "total"}
      /\ line.line \in Int \cup {Null} /\ other.line \in Int \cup {Null}
  BY DEF SoundCase
<1>6. CASE line.type = "moneyline"
  <2>1. line.line = Null /\ other.line = Null
    BY <1>4, <1>6 DEF ValidShape
  <2>2. (line.selection = "home" /\ other.selection = "away")
          \/ (line.selection = "away" /\ other.selection = "home")
    BY <1>6 DEF Sides
  <2>3. /\ ResultComparison(line, x.result)
             = IF (line.selection = "home") = (sets[1] > sets[2]) THEN 1 ELSE -1
        /\ ResultComparison(other, x.result)
             = IF (other.selection = "home") = (sets[1] > sets[2]) THEN 1 ELSE -1
    BY <1>1, <1>4, <1>6 DEF ResultComparison
  <2> QED
    BY <1>4, <2>1, <2>2, <2>3 DEF UnsupportedReason
<1>7. PICK home : home = IF line.unit = "sets" THEN sets[1] ELSE points[1]
  OBVIOUS
<1>8. PICK away : away = IF line.unit = "sets" THEN sets[2] ELSE points[2]
  OBVIOUS
<1>9. home \in Nat /\ away \in Nat
  BY <1>3, <1>7, <1>8
<1>10. ASSUME line.type # "moneyline" PROVE line.line \in Int /\ other.line \in Int
  BY <1>4, <1>5, <1>10 DEF ValidShape
<1>11. CASE line.type = "handicap"
  <2>1. line.line \in Int /\ other.line \in Int /\ other.line = -line.line
    BY <1>10, <1>11
  <2>2. (line.selection = "home" /\ other.selection = "away")
          \/ (line.selection = "away" /\ other.selection = "home")
    BY <1>11 DEF Sides
  <2>3. /\ ResultComparison(line, x.result)
             = 4 * (IF line.selection = "home" THEN home - away ELSE away - home) + line.line
        /\ ResultComparison(other, x.result)
             = 4 * (IF other.selection = "home" THEN home - away ELSE away - home) + other.line
    BY <1>1, <1>2, <1>4, <1>7, <1>8, <1>11 DEF ResultComparison
  <2>4. line.line % 2 = 0 <=> other.line % 2 = 0
    BY <2>1
  <2>5. line.line # Null /\ other.line # Null
    BY <2>1 DEF NullIsNoValue
  <2>6. UnsupportedReason(other) = Null <=> UnsupportedReason(line) = Null
    BY <1>4, <2>4, <2>5 DEF UnsupportedReason, NullIsNoValue
  <2> QED
    BY <1>9, <2>1, <2>2, <2>3, <2>6
<1>12. CASE line.type = "total"
  <2>1. line.line \in Int /\ other.line = line.line
    BY <1>4, <1>10, <1>12
  <2>2. (line.selection = "over" /\ other.selection = "under")
          \/ (line.selection = "under" /\ other.selection = "over")
    BY <1>12 DEF Sides
  <2>3. PICK over : over = 4 * (home + away) - line.line
    OBVIOUS
  <2>4. /\ ResultComparison(line, x.result) = IF line.selection = "under" THEN -over ELSE over
        /\ ResultComparison(other, x.result) = IF other.selection = "under" THEN -over ELSE over
    BY <1>1, <1>2, <1>4, <1>7, <1>8, <1>12, <2>1, <2>3 DEF ResultComparison
  <2>5. over \in Int
    BY <1>9, <2>1, <2>3
  <2>6. UnsupportedReason(other) = Null <=> UnsupportedReason(line) = Null
    BY <1>4, <2>1 DEF UnsupportedReason
  <2> QED
    BY <2>2, <2>4, <2>5, <2>6
<1> QED
  BY <1>5, <1>6, <1>11, <1>12

\* A line of an accepted snapshot is settled by a result that counts as a
\* prediction certain of it prices it, and opposite to its other side.
LEMMA LineSettledAsPriced ==
    ASSUME NullIsNoValue, NEW x, SoundCase(x), ValidSnapshot(x.snapshot),
           NEW line \in x.snapshot.lines
    PROVE  LET outcome == SettleLine(line, x.result)
               priced == EvaluateLine(Certain(x.result), line)
               other == CHOOSE b \in x.snapshot.lines \ {line} : Contract(b) = Contract(line)
           IN  /\ outcome = "unsupported" <=> priced = Null
               /\ outcome \in {"win", "loss", "push"} => priced[outcome] = Whole
               /\ {outcome, SettleLine(other, x.result)} \in
                    {{"win", "loss"}, {"push"}, {"unsupported"}}
<1>1. /\ SoundCase(x) /\ x.result.finality # "void" /\ IsFiniteSet(x.snapshot.lines)
      /\ SetsToWin \in Nat /\ Whole \in Nat
  BY ScaleAssumption DEF SoundCase
<1>2. /\ \A l \in x.snapshot.lines : ValidShape(l)
      /\ TwoWayPairs(x.snapshot.lines)
  BY DEF ValidSnapshot
<1>3. PICK other \in x.snapshot.lines :
        /\ other = CHOOSE b \in x.snapshot.lines \ {line} : Contract(b) = Contract(line)
        /\ Contract(other) = Contract(line)
        /\ {line.selection, other.selection} = Sides(line.type)
        /\ line.type = "handicap" /\ {line.line, other.line} \subseteq Int =>
             line.line + other.line = 0
  BY <1>1, <1>2, OtherSide
<1>4. PICK comparison : comparison = ResultComparison(line, x.result)
  OBVIOUS
<1>5. PICK opposite : opposite = ResultComparison(other, x.result)
  OBVIOUS
<1>6. /\ UnsupportedReason(other) = Null <=> UnsupportedReason(line) = Null
      /\ comparison \in Int /\ opposite = -comparison
  BY <1>1, <1>2, <1>3, <1>4, <1>5, SettledOppositely
<1>7. PICK priced : priced = EvaluateLine(Certain(x.result), line)
  OBVIOUS
<1>8. CASE UnsupportedReason(line) # Null
  <2>1. SettleLine(line, x.result) = "unsupported" /\ SettleLine(other, x.result) = "unsupported"
    BY <1>1, <1>6, <1>8 DEF SettleLine
  <2>2. priced = Null
    BY <1>7, <1>8 DEF EvaluateLine
  <2> QED
    BY <1>3, <1>7, <2>1, <2>2
<1>9. CASE UnsupportedReason(line) = Null
  <2>1. /\ SettleLine(line, x.result) = OutcomeOf(comparison)
        /\ SettleLine(other, x.result) = OutcomeOf(opposite)
    <3>1. SettleLine(line, x.result) = OutcomeOf(comparison)
      BY <1>1, <1>4, <1>6, <1>9 DEF SettleLine, OutcomeOf
    <3>2. SettleLine(other, x.result) = OutcomeOf(opposite)
      BY <1>1, <1>5, <1>6, <1>9 DEF SettleLine, OutcomeOf
    <3> QED
      BY <3>1, <3>2
  <2>2. priced # Null /\ priced[OutcomeOf(comparison)] = Whole
    BY <1>1, <1>2, <1>4, <1>7, <1>9, Priced
  <2>3. {OutcomeOf(comparison), OutcomeOf(opposite)} \in
          {{"win", "loss"}, {"push"}, {"unsupported"}}
    BY <1>6 DEF OutcomeOf
  <2>4. OutcomeOf(comparison) # "unsupported"
    BY DEF OutcomeOf
  <2> QED
    BY <1>3, <1>7, <2>1, <2>2, <2>3, <2>4
<1> QED
  BY <1>8, <1>9

\* SettlesAsPriced: whatever is stored and whatever a revision of the result
\* says, the pricing and the settling half of the market agree on every line,
\* and the two sides of a contract never both win (_evaluate_line, _settle_line).
THEOREM LinesSettleAsPriced ==
    ASSUME NullIsNoValue, NEW starts, \A start \in starts : SoundStart(start)
    PROVE  EvaluationSpec(starts) => []SettlesAsPriced
<1>1. ASSUME IInv, NEW s \in stored, NEW i \in DOMAIN results
      PROVE  SettledAsPriced(s, results[i])
  <2>1. PICK x : x = [snapshot |-> s, result |-> results[i]]
    OBVIOUS
  <2>2. x.snapshot = s /\ x.result = results[i]
    BY <2>1
  <2>3. s \in Snapshots /\ ValidSnapshot(x.snapshot) /\ x.result \in ResultRows
    BY <1>1, <2>2 DEF IInv, TypeOK
  <2>4. PICK o \in Observations, finality \in Finalities :
          x.result = [sets |-> o.sets, points |-> o.points, finality |-> finality]
    BY <2>3 DEF ResultRows
  <2>5. SoundCase(x)
    BY <2>2, <2>3, <2>4, LineAssumption, ScoreAssumption DEF SoundCase, Finalities
  <2>6. SettledAsPriced(x.snapshot, x.result)
    <3> SUFFICES ASSUME NEW line \in x.snapshot.lines
                 PROVE  LET outcome == SettleLine(line, x.result)
                            priced == EvaluateLine(Certain(x.result), line)
                            other == CHOOSE b \in x.snapshot.lines \ {line} :
                                       Contract(b) = Contract(line)
                        IN  /\ outcome = "unsupported" <=> priced = Null
                            /\ outcome \in {"win", "loss", "push"} => priced[outcome] = Whole
                            /\ {outcome, SettleLine(other, x.result)} \in
                                 {{"win", "loss"}, {"push"}, {"unsupported"}}
      BY DEF SettledAsPriced
    <3> QED
      BY <2>3, <2>5, LineSettledAsPriced
  <2> QED
    BY <2>2, <2>6
<1>2. IInv => SettlesAsPriced
  BY <1>1 DEF SettlesAsPriced
<1>3. EvaluationSpec(starts) => []IInv
  BY Invariance
<1> QED
  BY <1>2, <1>3, PTL

-----------------------------------------------------------------------------
(* What the scores are worth.                                              *)

\* The six scores from a strong away win to a strong home win.
Rung(i) == SetScoreRpsOrder[i]

LEMMA Rungs ==
    /\ Rung(1) = <<0, 3>> /\ Rung(2) = <<1, 3>> /\ Rung(3) = <<2, 3>>
    /\ Rung(4) = <<3, 2>> /\ Rung(5) = <<3, 1>> /\ Rung(6) = <<3, 0>>
BY DEF Rung, SetScoreRpsOrder, Reverse, SetScoreHomeOrder

LEMMA HomeOrder ==
    /\ DOMAIN SetScoreHomeOrder = 1..6
    /\ \A i \in 1..6 : SetScoreHomeOrder[i] = Rung(7 - i)
    /\ \A i, j \in 1..6 : Rung(i) = Rung(j) => i = j
<1>1. DOMAIN SetScoreHomeOrder = 1..6
  BY DEF SetScoreHomeOrder
<1>2. \A i \in 1..6 : i \in {1, 2, 3, 4, 5, 6}
  OBVIOUS
<1>3. \A i \in 1..6 : SetScoreHomeOrder[i] = Rung(7 - i)
  BY <1>2, Rungs DEF SetScoreHomeOrder
<1>4. \A i, j \in 1..6 : Rung(i) = Rung(j) => i = j
  BY <1>2, Rungs
<1> QED
  BY <1>1, <1>3, <1>4

\* Every score is a rung, and the rungs up to a boundary are a finite set.
LEMMA UpToGrows ==
    /\ UpTo(0) = {}
    /\ UpTo(6) = Range(SetScoreHomeOrder)
    /\ \A b \in 0..6 : IsFiniteSet(UpTo(b))
    /\ \A b \in 1..6 : /\ Rung(b) \in UpTo(b)
                       /\ UpTo(b) \ {Rung(b)} = UpTo(b - 1)
                       /\ UpTo(b) \subseteq UpTo(6)
    /\ \A b \in 0..6, j \in 1..6 : Rung(j) \in UpTo(b) <=> j <= b
<1>1. \A b \in 0..6 : UpTo(b) = {Rung(i) : i \in 1..b}
  BY DEF UpTo, Rung
<1>2. \A b \in 0..6, j \in 1..6 : Rung(j) \in UpTo(b) <=> j <= b
  BY <1>1, HomeOrder
<1>3. UpTo(0) = {}
  BY <1>1
<1>4. UpTo(6) = Range(SetScoreHomeOrder)
  <2>1. Range(SetScoreHomeOrder) = {SetScoreHomeOrder[i] : i \in 1..6}
    BY HomeOrder DEF Range
  <2>2. \A i \in 1..6 : 7 - i \in 1..6 /\ 7 - (7 - i) = i
    OBVIOUS
  <2>3. \A i \in 1..6 : SetScoreHomeOrder[i] \in UpTo(6)
    BY <1>1, <2>2, HomeOrder
  <2>4. \A i \in 1..6 : Rung(i) \in Range(SetScoreHomeOrder)
    <3> TAKE i \in 1..6
    <3>1. Rung(i) = SetScoreHomeOrder[7 - i]
      BY <2>2, HomeOrder
    <3> QED
      BY ONLY <2>1, <2>2, <3>1, i \in 1..6
  <2> QED
    BY <1>1, <2>1, <2>3, <2>4
<1>5. \A b \in 1..6 : /\ Rung(b) \in UpTo(b)
                      /\ UpTo(b) \ {Rung(b)} = UpTo(b - 1)
                      /\ UpTo(b) \subseteq UpTo(6)
  <2> TAKE b \in 1..6
  <2>1. Rung(b) \in UpTo(b)
    BY <1>2
  <2>2. UpTo(b) \subseteq UpTo(6)
    BY <1>1
  <2>3. UpTo(b - 1) \subseteq UpTo(b) \ {Rung(b)}
    BY <1>1, HomeOrder
  <2>4. UpTo(b) \ {Rung(b)} \subseteq UpTo(b - 1)
    BY <1>1
  <2> QED
    BY <2>1, <2>2, <2>3, <2>4
<1>6. \A b \in 0..6 : IsFiniteSet(UpTo(b))
  <2>1. \A b \in 1..6 : UpTo(b) = UpTo(b - 1) \cup {Rung(b)}
    BY <1>5
  <2>2. ASSUME NEW b \in 1..6, IsFiniteSet(UpTo(b - 1)) PROVE IsFiniteSet(UpTo(b))
    BY <2>1, <2>2, FS_AddElement
  <2>3. IsFiniteSet(UpTo(0))
    BY <1>3, FS_EmptySet
  <2>4. IsFiniteSet(UpTo(1)) /\ IsFiniteSet(UpTo(2)) /\ IsFiniteSet(UpTo(3))
    BY ONLY <2>2, <2>3
  <2>5. IsFiniteSet(UpTo(4)) /\ IsFiniteSet(UpTo(5)) /\ IsFiniteSet(UpTo(6))
    BY ONLY <2>2, <2>4
  <2>6. \A b \in 0..6 : b \in {0, 1, 2, 3, 4, 5, 6}
    OBVIOUS
  <2> QED
    BY ONLY <2>3, <2>4, <2>5, <2>6
<1> QED
  BY <1>2, <1>3, <1>4, <1>5, <1>6

\* A sum up to a boundary takes the boundary's own score and what is before it.
LEMMA SumUpTo ==
    ASSUME NEW g, \A s \in Range(SetScoreHomeOrder) : g[s] \in Nat, NEW b \in 1..6
    PROVE  SumFunctionOnSet(g, UpTo(b)) = g[Rung(b)] + SumFunctionOnSet(g, UpTo(b - 1))
<1>1. /\ IsFiniteSet(UpTo(b)) /\ Rung(b) \in UpTo(b) /\ UpTo(b) \ {Rung(b)} = UpTo(b - 1)
      /\ \A s \in UpTo(b) : g[s] \in Nat
  <2>1. b \in 0..6
    OBVIOUS
  <2>2. UpTo(b) \subseteq Range(SetScoreHomeOrder)
    BY UpToGrows
  <2>3. IsFiniteSet(UpTo(b)) /\ Rung(b) \in UpTo(b) /\ UpTo(b) \ {Rung(b)} = UpTo(b - 1)
    BY <2>1, UpToGrows
  <2>4. \A s \in UpTo(b) : g[s] \in Nat
    BY <2>2
  <2> QED
    BY ONLY <2>3, <2>4
<1>2. SumFunctionOnSet(g, UpTo(b)) = g[Rung(b)] + SumFunctionOnSet(g, UpTo(b) \ {Rung(b)})
  BY ONLY <1>1, SumSplit
<1> QED
  BY <1>1, <1>2

LEMMA SumOfScores ==
    ASSUME NEW g, \A s \in Range(SetScoreHomeOrder) : g[s] \in Nat
    PROVE  SumFunctionOnSet(g, Range(SetScoreHomeOrder))
             = g[Rung(1)] + g[Rung(2)] + g[Rung(3)] + g[Rung(4)] + g[Rung(5)] + g[Rung(6)]
<1> DEFINE upTo(b) == SumFunctionOnSet(g, UpTo(b))
<1>1. upTo(0) = 0
  BY UpToGrows, SumRule, FS_EmptySet
<1>2. \A b \in 1..6 : upTo(b) = g[Rung(b)] + upTo(b - 1)
  BY SumUpTo
<1>3. \A b \in 1..6 : g[Rung(b)] \in Nat
  BY UpToGrows
<1> HIDE DEF upTo
<1>4. /\ upTo(1) = g[Rung(1)] + upTo(0) /\ upTo(2) = g[Rung(2)] + upTo(1)
      /\ upTo(3) = g[Rung(3)] + upTo(2) /\ upTo(4) = g[Rung(4)] + upTo(3)
      /\ upTo(5) = g[Rung(5)] + upTo(4) /\ upTo(6) = g[Rung(6)] + upTo(5)
  BY <1>2
<1>5. upTo(6) = g[Rung(1)] + g[Rung(2)] + g[Rung(3)] + g[Rung(4)] + g[Rung(5)] + g[Rung(6)]
  BY <1>1, <1>3, <1>4
<1> QED
  BY <1>5, UpToGrows DEF upTo

LEMMA SumToFive ==
    ASSUME NEW g, \A b \in 1..5 : g[b] \in Nat
    PROVE  SumFunctionOnSet(g, 1..5) = g[1] + g[2] + g[3] + g[4] + g[5]
<1> DEFINE upTo(n) == SumFunctionOnSet(g, 1..n)
<1>1. upTo(0) = 0
  <2>1. 1..0 = {}
    OBVIOUS
  <2> QED
    BY <2>1, SumRule, FS_EmptySet
<1>2. \A n \in 1..5 : upTo(n) = g[n] + upTo(n - 1)
  <2> TAKE n \in 1..5
  <2>1. IsFiniteSet(1..n)
    BY FS_Interval
  <2>2. n \in 1..n /\ (1..n) \ {n} = 1..(n - 1) /\ \A b \in 1..n : g[b] \in Nat
    OBVIOUS
  <2>3. SumFunctionOnSet(g, 1..n) = g[n] + SumFunctionOnSet(g, (1..n) \ {n})
    BY ONLY <2>1, <2>2, SumSplit
  <2> QED
    BY <2>2, <2>3
<1> HIDE DEF upTo
<1>3. /\ upTo(1) = g[1] + upTo(0) /\ upTo(2) = g[2] + upTo(1) /\ upTo(3) = g[3] + upTo(2)
      /\ upTo(4) = g[4] + upTo(3) /\ upTo(5) = g[5] + upTo(4)
  BY <1>2
<1>4. upTo(5) = g[1] + g[2] + g[3] + g[4] + g[5]
  BY <1>1, <1>3
<1> QED
  BY <1>4 DEF upTo

\* The share a forecast gives to the scores up to a boundary.
LEMMA Shares ==
    ASSUME NEW f \in Distributions
    PROVE  /\ DOMAIN f = Range(SetScoreHomeOrder)
           /\ \A s \in DOMAIN f : f[s] \in 0..Parts
           /\ Cumulated(f, 0) = 0 /\ Cumulated(f, 6) = Parts
           /\ \A b \in 1..6 : Cumulated(f, b) = f[Rung(b)] + Cumulated(f, b - 1)
           /\ \A b \in 0..6 : Cumulated(f, b) \in Nat
<1>1. /\ DOMAIN f = Range(SetScoreHomeOrder)
      /\ \A s \in DOMAIN f : f[s] \in 0..Parts
      /\ SumFunctionOnSet(f, DOMAIN f) = Parts
  BY DEF Distributions, SetProbabilities
<1>2. \A s \in Range(SetScoreHomeOrder) : f[s] \in Nat
  BY <1>1, PartsAssumption
<1>3. Cumulated(f, 0) = 0
  BY UpToGrows, SumRule, FS_EmptySet DEF Cumulated
<1>4. Cumulated(f, 6) = Parts
  BY <1>1, UpToGrows DEF Cumulated
<1>5. \A b \in 1..6 : Cumulated(f, b) = f[Rung(b)] + Cumulated(f, b - 1)
  BY <1>2, SumUpTo DEF Cumulated
<1>6. \A b \in 0..6 : Cumulated(f, b) \in Nat
  <2> TAKE b \in 0..6
  <2>1. IsFiniteSet(UpTo(b))
    BY UpToGrows
  <2>2. \A s \in UpTo(b) : f[s] \in Nat
    <3>1. CASE b = 0
      BY <3>1, UpToGrows
    <3>2. CASE b # 0
      BY <1>2, <3>2, UpToGrows
    <3> QED
      BY <3>1, <3>2
  <2>3. SumFunctionOnSet(f, UpTo(b)) \in Nat
    BY ONLY <2>1, <2>2, SumIsNat
  <2> QED
    BY <2>3 DEF Cumulated
<1> QED
  BY <1>1, <1>3, <1>4, <1>5, <1>6

\* What a forecast scores at a boundary, when the actual score is within it
\* and when it is not.
Within(f, b) == Square(Cumulated(f, b) - Parts)
Beyond(f, b) == Square(Cumulated(f, b))

LEMMA SquareIsNat ==
    ASSUME NEW x \in Int
    PROVE  Square(x) \in Nat
<1>1. Square(x) \in Int
  BY DEF Square
<1>2. CASE x >= 0
  <2>1. x * x >= 0
    BY <1>2
  <2> QED
    BY <1>1, <2>1 DEF Square
<1>3. CASE x < 0
  <2>1. x * x >= 0
    BY <1>3
  <2> QED
    BY <1>1, <2>1 DEF Square
<1> QED
  BY <1>2, <1>3

LEMMA BoundaryScores ==
    ASSUME NEW f \in Distributions, NEW b \in 1..5
    PROVE  /\ Within(f, b) \in Nat /\ Beyond(f, b) \in Nat
           /\ \A j \in 1..6 : BoundaryScore(f, Rung(j), b) = IF j <= b THEN Within(f, b) ELSE Beyond(f, b)
<1>1. Cumulated(f, b) \in Int /\ Cumulated(f, b) - Parts \in Int /\ Cumulated(f, b) - 0 = Cumulated(f, b)
  BY Shares, PartsAssumption
<1>2. Within(f, b) \in Nat /\ Beyond(f, b) \in Nat
  BY <1>1, SquareIsNat DEF Within, Beyond
<1>3. \A j \in 1..6 : ObservedSide(Rung(j), b) = IF j <= b THEN Parts ELSE 0
  BY UpToGrows DEF ObservedSide
<1>4. \A j \in 1..6 : BoundaryScore(f, Rung(j), b) = IF j <= b THEN Within(f, b) ELSE Beyond(f, b)
  BY <1>1, <1>3 DEF BoundaryScore, Within, Beyond
<1> QED
  BY <1>2, <1>4

LEMMA ScoreOfRung ==
    ASSUME NEW f \in Distributions, NEW j \in 1..6
    PROVE  /\ SetRankedProbabilityScore(f, Rung(j)) =
                BoundaryScore(f, Rung(j), 1) + BoundaryScore(f, Rung(j), 2)
                  + BoundaryScore(f, Rung(j), 3) + BoundaryScore(f, Rung(j), 4)
                  + BoundaryScore(f, Rung(j), 5)
           /\ SetRankedProbabilityScore(f, Rung(j)) \in Nat
<1> DEFINE g == [b \in 1..5 |-> BoundaryScore(f, Rung(j), b)]
<1>1. \A b \in 1..5 : BoundaryScore(f, Rung(j), b) \in Nat
  BY BoundaryScores
<1>2. \A b \in 1..5 : g[b] = BoundaryScore(f, Rung(j), b)
  OBVIOUS
<1>3. SetRankedProbabilityScore(f, Rung(j)) = SumFunctionOnSet(g, 1..5)
  BY DEF SetRankedProbabilityScore
<1> HIDE DEF g
<1>4. SumFunctionOnSet(g, 1..5) = g[1] + g[2] + g[3] + g[4] + g[5]
  <2>1. \A b \in 1..5 : g[b] \in Nat
    BY <1>1, <1>2
  <2> QED
    BY ONLY <2>1, SumToFive
<1>5. 1 \in 1..5 /\ 2 \in 1..5 /\ 3 \in 1..5 /\ 4 \in 1..5 /\ 5 \in 1..5
  OBVIOUS
<1> QED
  BY <1>1, <1>2, <1>3, <1>4, <1>5

\* Boundary by boundary: what the truth has within it scores as Within, the
\* rest as Beyond.
Expected(f, t, b) == Cumulated(t, b) * Within(f, b) + (Parts - Cumulated(t, b)) * Beyond(f, b)

LEMMA TermsRegrouped ==
    ASSUME NEW t1 \in Int, NEW t2 \in Int, NEW t3 \in Int, NEW t4 \in Int, NEW t5 \in Int, NEW t6 \in Int,
           NEW a1 \in Int, NEW a2 \in Int, NEW a3 \in Int, NEW a4 \in Int, NEW a5 \in Int,
           NEW z1 \in Int, NEW z2 \in Int, NEW z3 \in Int, NEW z4 \in Int, NEW z5 \in Int
    PROVE  t1 * (a1 + a2 + a3 + a4 + a5) + t2 * (z1 + a2 + a3 + a4 + a5) + t3 * (z1 + z2 + a3 + a4 + a5)
             + t4 * (z1 + z2 + z3 + a4 + a5) + t5 * (z1 + z2 + z3 + z4 + a5) + t6 * (z1 + z2 + z3 + z4 + z5)
           = (t1 * a1 + (t2 + t3 + t4 + t5 + t6) * z1)
             + ((t1 + t2) * a2 + (t3 + t4 + t5 + t6) * z2)
             + ((t1 + t2 + t3) * a3 + (t4 + t5 + t6) * z3)
             + ((t1 + t2 + t3 + t4) * a4 + (t5 + t6) * z4)
             + ((t1 + t2 + t3 + t4 + t5) * a5 + t6 * z5)
BY SMTT(60)

LEMMA ExpectedByBoundary ==
    ASSUME NEW f \in Distributions, NEW t \in Distributions
    PROVE  ExpectedRps(f, t) = Expected(f, t, 1) + Expected(f, t, 2) + Expected(f, t, 3)
                                 + Expected(f, t, 4) + Expected(f, t, 5)
<1> DEFINE g == [s \in DOMAIN t |-> t[s] * SetRankedProbabilityScore(f, s)]
           score(j) == SetRankedProbabilityScore(f, Rung(j))
           of(j) == t[Rung(j)]
           a(b) == Within(f, b)
           z(b) == Beyond(f, b)
           sum(b) == Cumulated(t, b)
<1>1. /\ DOMAIN t = Range(SetScoreHomeOrder)
      /\ \A j \in 1..6 : Rung(j) \in DOMAIN t /\ of(j) \in Nat
      /\ \A s \in DOMAIN t : \E j \in 1..6 : s = Rung(j)
  <2>1. \A j \in 1..6 : Rung(j) \in UpTo(6)
    BY UpToGrows
  <2>2. \A s \in UpTo(6) : \E j \in 1..6 : s = Rung(j)
    BY DEF UpTo, Rung
  <2> QED
    BY <2>1, <2>2, UpToGrows, Shares
<1>2. \A j \in 1..6 : score(j) \in Nat
  BY ScoreOfRung
<1>3. \A j \in 1..6 : g[Rung(j)] = of(j) * score(j)
  BY <1>1
<1>4. ExpectedRps(f, t) = SumFunctionOnSet(g, Range(SetScoreHomeOrder))
  BY <1>1 DEF ExpectedRps
<1>5. \A s \in Range(SetScoreHomeOrder) : g[s] \in Nat
  <2> TAKE s \in Range(SetScoreHomeOrder)
  <2>1. PICK j \in 1..6 : s = Rung(j)
    BY <1>1
  <2>2. of(j) \in Nat /\ score(j) \in Nat /\ g[s] = of(j) * score(j)
    BY <1>1, <1>2, <1>3, <2>1
  <2> HIDE DEF g, of, score
  <2> QED
    BY ONLY <2>2
<1> HIDE DEF g
<1>6. SumFunctionOnSet(g, Range(SetScoreHomeOrder))
        = g[Rung(1)] + g[Rung(2)] + g[Rung(3)] + g[Rung(4)] + g[Rung(5)] + g[Rung(6)]
  BY ONLY <1>5, SumOfScores
<1>7. /\ a(1) \in Nat /\ a(2) \in Nat /\ a(3) \in Nat /\ a(4) \in Nat /\ a(5) \in Nat
      /\ z(1) \in Nat /\ z(2) \in Nat /\ z(3) \in Nat /\ z(4) \in Nat /\ z(5) \in Nat
  BY BoundaryScores
<1>8. /\ score(1) = a(1) + a(2) + a(3) + a(4) + a(5)
      /\ score(2) = z(1) + a(2) + a(3) + a(4) + a(5)
      /\ score(3) = z(1) + z(2) + a(3) + a(4) + a(5)
      /\ score(4) = z(1) + z(2) + z(3) + a(4) + a(5)
      /\ score(5) = z(1) + z(2) + z(3) + z(4) + a(5)
      /\ score(6) = z(1) + z(2) + z(3) + z(4) + z(5)
  <2>1. ASSUME NEW j \in 1..6
        PROVE  score(j) = (IF j <= 1 THEN a(1) ELSE z(1)) + (IF j <= 2 THEN a(2) ELSE z(2))
                            + (IF j <= 3 THEN a(3) ELSE z(3)) + (IF j <= 4 THEN a(4) ELSE z(4))
                            + (IF j <= 5 THEN a(5) ELSE z(5))
    <3>1. \A b \in 1..5 : BoundaryScore(f, Rung(j), b) = IF j <= b THEN a(b) ELSE z(b)
      BY BoundaryScores
    <3>2. 1 \in 1..5 /\ 2 \in 1..5 /\ 3 \in 1..5 /\ 4 \in 1..5 /\ 5 \in 1..5
      OBVIOUS
    <3>3. score(j) = BoundaryScore(f, Rung(j), 1) + BoundaryScore(f, Rung(j), 2)
                       + BoundaryScore(f, Rung(j), 3) + BoundaryScore(f, Rung(j), 4)
                       + BoundaryScore(f, Rung(j), 5)
      BY ScoreOfRung
    <3> HIDE DEF score, a, z
    <3> QED
      BY ONLY <3>1, <3>2, <3>3
  <2> HIDE DEF score, a, z
  <2> QED
    BY ONLY <1>7, <2>1
<1>9. /\ sum(1) = of(1) /\ sum(2) = of(1) + of(2) /\ sum(3) = of(1) + of(2) + of(3)
      /\ sum(4) = of(1) + of(2) + of(3) + of(4)
      /\ sum(5) = of(1) + of(2) + of(3) + of(4) + of(5)
      /\ Parts = of(1) + of(2) + of(3) + of(4) + of(5) + of(6)
  <2>1. sum(0) = 0 /\ sum(6) = Parts /\ \A b \in 1..6 : sum(b) = of(b) + sum(b - 1)
    BY Shares
  <2>2. /\ of(1) \in Nat /\ of(2) \in Nat /\ of(3) \in Nat /\ of(4) \in Nat /\ of(5) \in Nat /\ of(6) \in Nat
    BY <1>1
  <2> HIDE DEF sum, of
  <2>3. /\ sum(1) = of(1) + sum(0) /\ sum(2) = of(2) + sum(1) /\ sum(3) = of(3) + sum(2)
        /\ sum(4) = of(4) + sum(3) /\ sum(5) = of(5) + sum(4) /\ sum(6) = of(6) + sum(5)
    BY ONLY <2>1
  <2> QED
    BY ONLY <2>1, <2>2, <2>3
<1>10. /\ of(1) \in Int /\ of(2) \in Int /\ of(3) \in Int /\ of(4) \in Int /\ of(5) \in Int /\ of(6) \in Int
       /\ Parts - sum(1) = of(2) + of(3) + of(4) + of(5) + of(6)
       /\ Parts - sum(2) = of(3) + of(4) + of(5) + of(6)
       /\ Parts - sum(3) = of(4) + of(5) + of(6)
       /\ Parts - sum(4) = of(5) + of(6)
       /\ Parts - sum(5) = of(6)
  <2>1. /\ of(1) \in Nat /\ of(2) \in Nat /\ of(3) \in Nat /\ of(4) \in Nat /\ of(5) \in Nat /\ of(6) \in Nat
    BY <1>1
  <2> HIDE DEF sum, of
  <2> QED
    BY ONLY <1>9, <2>1
<1>11. ExpectedRps(f, t) = of(1) * score(1) + of(2) * score(2) + of(3) * score(3)
                             + of(4) * score(4) + of(5) * score(5) + of(6) * score(6)
  BY <1>3, <1>4, <1>6
<1>12. /\ Expected(f, t, 1) = sum(1) * a(1) + (Parts - sum(1)) * z(1)
       /\ Expected(f, t, 2) = sum(2) * a(2) + (Parts - sum(2)) * z(2)
       /\ Expected(f, t, 3) = sum(3) * a(3) + (Parts - sum(3)) * z(3)
       /\ Expected(f, t, 4) = sum(4) * a(4) + (Parts - sum(4)) * z(4)
       /\ Expected(f, t, 5) = sum(5) * a(5) + (Parts - sum(5)) * z(5)
  BY DEF Expected
<1> HIDE DEF of, a, z, sum, score
<1>13. of(1) * score(1) + of(2) * score(2) + of(3) * score(3)
         + of(4) * score(4) + of(5) * score(5) + of(6) * score(6)
       = (of(1) * a(1) + (of(2) + of(3) + of(4) + of(5) + of(6)) * z(1))
         + ((of(1) + of(2)) * a(2) + (of(3) + of(4) + of(5) + of(6)) * z(2))
         + ((of(1) + of(2) + of(3)) * a(3) + (of(4) + of(5) + of(6)) * z(3))
         + ((of(1) + of(2) + of(3) + of(4)) * a(4) + (of(5) + of(6)) * z(4))
         + ((of(1) + of(2) + of(3) + of(4) + of(5)) * a(5) + of(6) * z(5))
  <2>1. /\ a(1) \in Int /\ a(2) \in Int /\ a(3) \in Int /\ a(4) \in Int /\ a(5) \in Int
        /\ z(1) \in Int /\ z(2) \in Int /\ z(3) \in Int /\ z(4) \in Int /\ z(5) \in Int
    BY ONLY <1>7
  <2> QED
    BY ONLY <1>8, <1>10, <2>1, TermsRegrouped
<1> QED
  BY ONLY <1>9, <1>10, <1>11, <1>12, <1>13

\* At one boundary a forecast that is off is expected to score more than the
\* truth does, by the square of what it is off.
LEMMA OffByOne ==
    ASSUME NEW f \in Distributions, NEW t \in Distributions, NEW b \in 1..5
    PROVE  /\ Expected(f, t, b) \in Int /\ Expected(t, t, b) \in Int
           /\ Expected(t, t, b) <= Expected(f, t, b)
           /\ Cumulated(f, b) # Cumulated(t, b) => Expected(t, t, b) < Expected(f, t, b)
<1>1. PICK x \in Int : x = Cumulated(f, b)
  BY Shares
<1>2. PICK y \in Int : y = Cumulated(t, b)
  BY Shares
<1>3. PICK p \in Nat : p = Parts /\ p > 0
  BY PartsAssumption
<1>4. /\ Expected(f, t, b) = y * ((x - p) * (x - p)) + (p - y) * (x * x)
      /\ Expected(t, t, b) = y * ((y - p) * (y - p)) + (p - y) * (y * y)
  BY <1>1, <1>2, <1>3 DEF Expected, Within, Beyond, Square
<1>5. y * ((x - p) * (x - p)) + (p - y) * (x * x)
        = y * ((y - p) * (y - p)) + (p - y) * (y * y) + p * ((x - y) * (x - y))
  BY ONLY x \in Int, y \in Int, p \in Nat
<1>6. PICK d \in Nat : d = (x - y) * (x - y)
  BY ONLY SquareIsNat, x - y \in Int DEF Square
<1>7. x # y => d > 0
  <2>1. x > y => (x - y) * (x - y) > 0
    BY ONLY x \in Int, y \in Int
  <2>2. x < y => (x - y) * (x - y) > 0
    BY ONLY x \in Int, y \in Int
  <2> QED
    BY ONLY x \in Int, y \in Int, <1>6, <2>1, <2>2
<1>8. p * d \in Nat /\ (d > 0 => p * d > 0)
  BY ONLY d \in Nat, p \in Nat, <1>3
<1>9. /\ y * ((y - p) * (y - p)) + (p - y) * (y * y) \in Int
      /\ y * ((x - p) * (x - p)) + (p - y) * (x * x) \in Int
  BY ONLY x \in Int, y \in Int, p \in Nat
<1> QED
  BY ONLY <1>1, <1>2, <1>4, <1>5, <1>6, <1>7, <1>8, <1>9

\* Two forecasts that differ share differently up to some boundary.
LEMMA SomeBoundaryDiffers ==
    ASSUME NEW f \in Distributions, NEW t \in Distributions, f # t
    PROVE  \E b \in 1..5 : Cumulated(f, b) # Cumulated(t, b)
<1> SUFFICES ASSUME \A b \in 1..5 : Cumulated(f, b) = Cumulated(t, b) PROVE FALSE
  OBVIOUS
<1>1. \A b \in 0..6 : Cumulated(f, b) = Cumulated(t, b)
  <2>1. Cumulated(f, 0) = Cumulated(t, 0) /\ Cumulated(f, 6) = Cumulated(t, 6)
    BY Shares
  <2>2. \A b \in 0..6 : b = 0 \/ b = 6 \/ b \in 1..5
    OBVIOUS
  <2> QED
    BY <2>1, <2>2
<1>2. \A j \in 1..6 : f[Rung(j)] = t[Rung(j)]
  <2> TAKE j \in 1..6
  <2>1. /\ Cumulated(f, j) = f[Rung(j)] + Cumulated(f, j - 1)
        /\ Cumulated(t, j) = t[Rung(j)] + Cumulated(t, j - 1)
    BY Shares
  <2>2. Cumulated(f, j) = Cumulated(t, j) /\ Cumulated(f, j - 1) = Cumulated(t, j - 1)
    BY <1>1
  <2>3. Cumulated(f, j - 1) \in Nat /\ f[Rung(j)] \in Int /\ t[Rung(j)] \in Int
    <3>1. Rung(j) \in UpTo(6)
      BY UpToGrows
    <3> QED
      BY <3>1, Shares, UpToGrows, PartsAssumption
  <2> QED
    BY ONLY <2>1, <2>2, <2>3
<1>3. \A s \in Range(SetScoreHomeOrder) : f[s] = t[s]
  <2>1. \A s \in UpTo(6) : \E j \in 1..6 : s = Rung(j)
    BY DEF UpTo, Rung
  <2> QED
    BY <1>2, <2>1, UpToGrows
<1> QED
  BY <1>3 DEF Distributions

\* Saying the truth is the only best way to be scored.
LEMMA TruthScoresBest ==
    ASSUME NEW f \in Distributions, NEW t \in Distributions, f # t
    PROVE  ExpectedRps(t, t) < ExpectedRps(f, t)
<1>1. PICK c \in 1..5 : Cumulated(f, c) # Cumulated(t, c)
  BY SomeBoundaryDiffers
<1>2. \A b \in 1..5 : /\ Expected(f, t, b) \in Int /\ Expected(t, t, b) \in Int
                      /\ Expected(t, t, b) <= Expected(f, t, b)
  BY OffByOne
<1>3. Expected(t, t, c) < Expected(f, t, c)
  BY <1>1, OffByOne
<1>4. c = 1 \/ c = 2 \/ c = 3 \/ c = 4 \/ c = 5
  OBVIOUS
<1>5. /\ ExpectedRps(f, t) = Expected(f, t, 1) + Expected(f, t, 2) + Expected(f, t, 3)
                               + Expected(f, t, 4) + Expected(f, t, 5)
      /\ ExpectedRps(t, t) = Expected(t, t, 1) + Expected(t, t, 2) + Expected(t, t, 3)
                               + Expected(t, t, 4) + Expected(t, t, 5)
  BY ExpectedByBoundary
<1> QED
  BY ONLY <1>2, <1>3, <1>4, <1>5

LEMMA Positions ==
    ASSUME NEW i \in 1..6
    PROVE  Position(Rung(i)) = 7 - i
<1>1. 7 - i \in 1..6 /\ 7 - (7 - i) = i
  OBVIOUS
<1>2. SetScoreHomeOrder[7 - i] = Rung(i)
  BY <1>1, HomeOrder
<1>3. \A k \in 1..6 : SetScoreHomeOrder[k] = Rung(i) => k = 7 - i
  <2> TAKE k \in 1..6
  <2>1. SetScoreHomeOrder[k] = Rung(7 - k) /\ 7 - k \in 1..6
    BY HomeOrder
  <2>2. Rung(7 - k) = Rung(i) => 7 - k = i
    BY <2>1, HomeOrder
  <2> QED
    BY <2>1, <2>2
<1> QED
  BY <1>1, <1>2, <1>3 DEF Position

LEMMA Distances ==
    ASSUME NEW i \in 1..6, NEW j \in 1..6
    PROVE  Distance(Rung(i), Rung(j)) = IF i <= j THEN j - i ELSE i - j
<1>1. Distance(Rung(i), Rung(j)) = Max({j - i, i - j})
  BY Positions DEF Distance
<1>2. \A x, y \in Int : Max({x, y}) = IF x <= y THEN y ELSE x
  BY DEF Max
<1> QED
  BY <1>1, <1>2

\* A sure forecast is off at the boundaries between its score and the actual.
LEMMA SureScores ==
    ASSUME NEW f \in Distributions, NEW i \in 1..6, f[Rung(i)] = Parts, NEW j \in 1..6
    PROVE  SetRankedProbabilityScore(f, Rung(j)) = Square(Parts) * Distance(Rung(i), Rung(j))
<1> DEFINE sum(b) == Cumulated(f, b)
           of(b) == f[Rung(b)]
<1>1. PICK p \in Nat : p = Parts
  BY PartsAssumption
<1>2. /\ sum(0) = 0 /\ sum(6) = p
      /\ \A b \in 1..6 : sum(b) = of(b) + sum(b - 1)
      /\ \A b \in 1..6 : of(b) \in Nat
      /\ of(i) = p
      /\ \A b \in 0..6 : sum(b) \in Nat
  <2>1. \A b \in 1..6 : of(b) \in Nat
    <3> TAKE b \in 1..6
    <3>1. Rung(b) \in DOMAIN f
      BY UpToGrows, Shares
    <3> QED
      BY <3>1, Shares, PartsAssumption
  <2> QED
    BY <1>1, <2>1, Shares
<1> HIDE DEF sum, of
<1>3. \A b \in 1..5 : sum(b) = IF i <= b THEN p ELSE 0
  <2>1. /\ sum(1) = of(1) + sum(0) /\ sum(2) = of(2) + sum(1) /\ sum(3) = of(3) + sum(2)
        /\ sum(4) = of(4) + sum(3) /\ sum(5) = of(5) + sum(4) /\ sum(6) = of(6) + sum(5)
    BY ONLY <1>2
  <2>2. of(1) \in Nat /\ of(2) \in Nat /\ of(3) \in Nat /\ of(4) \in Nat /\ of(5) \in Nat /\ of(6) \in Nat
    BY ONLY <1>2
  <2>3. /\ sum(1) = IF i <= 1 THEN p ELSE 0
        /\ sum(2) = IF i <= 2 THEN p ELSE 0
        /\ sum(3) = IF i <= 3 THEN p ELSE 0
        /\ sum(4) = IF i <= 4 THEN p ELSE 0
        /\ sum(5) = IF i <= 5 THEN p ELSE 0
    <3>1. i = 1 \/ i = 2 \/ i = 3 \/ i = 4 \/ i = 5 \/ i = 6
      OBVIOUS
    <3>2. /\ i = 1 => of(1) = p
          /\ i = 2 => of(2) = p
          /\ i = 3 => of(3) = p
          /\ i = 4 => of(4) = p
          /\ i = 5 => of(5) = p
          /\ i = 6 => of(6) = p
      BY ONLY <1>2
    <3>3. PICK t1 \in Nat, t2 \in Nat, t3 \in Nat, t4 \in Nat, t5 \in Nat, t6 \in Nat :
            t1 = of(1) /\ t2 = of(2) /\ t3 = of(3) /\ t4 = of(4) /\ t5 = of(5) /\ t6 = of(6)
      BY ONLY <2>2
    <3>4. sum(0) = 0 /\ sum(6) = p
      BY ONLY <1>2
    <3>5. /\ sum(1) = t1 /\ sum(2) = t1 + t2 /\ sum(3) = t1 + t2 + t3
          /\ sum(4) = t1 + t2 + t3 + t4 /\ sum(5) = t1 + t2 + t3 + t4 + t5
          /\ p = t1 + t2 + t3 + t4 + t5 + t6
      <4>1. sum(1) = t1
        BY ONLY <2>1, <3>3, <3>4
      <4>2. sum(2) = t1 + t2
        BY ONLY <2>1, <3>3, <4>1
      <4>3. sum(3) = t1 + t2 + t3
        BY ONLY <2>1, <3>3, <4>2
      <4>4. sum(4) = t1 + t2 + t3 + t4
        BY ONLY <2>1, <3>3, <4>3
      <4>5. sum(5) = t1 + t2 + t3 + t4 + t5
        BY ONLY <2>1, <3>3, <4>4
      <4>6. p = t1 + t2 + t3 + t4 + t5 + t6
        BY ONLY <2>1, <3>3, <3>4, <4>5
      <4> QED
        BY ONLY <4>1, <4>2, <4>3, <4>4, <4>5, <4>6
    <3>6. /\ t1 = IF i <= 1 THEN p ELSE 0
          /\ t1 + t2 = IF i <= 2 THEN p ELSE 0
          /\ t1 + t2 + t3 = IF i <= 3 THEN p ELSE 0
          /\ t1 + t2 + t3 + t4 = IF i <= 4 THEN p ELSE 0
          /\ t1 + t2 + t3 + t4 + t5 = IF i <= 5 THEN p ELSE 0
      <4>1. /\ i = 1 => t1 = p
            /\ i = 2 => t2 = p
            /\ i = 3 => t3 = p
            /\ i = 4 => t4 = p
            /\ i = 5 => t5 = p
            /\ i = 6 => t6 = p
        BY ONLY <3>2, <3>3
      <4>2. p = t1 + t2 + t3 + t4 + t5 + t6
        BY ONLY <3>5
      <4> QED
        BY ONLY <3>1, <4>1, <4>2, p \in Nat, t1 \in Nat, t2 \in Nat, t3 \in Nat, t4 \in Nat,
                t5 \in Nat, t6 \in Nat
    <3> QED
      BY ONLY <3>5, <3>6
  <2>4. \A b \in 1..5 : b = 1 \/ b = 2 \/ b = 3 \/ b = 4 \/ b = 5
    OBVIOUS
  <2> QED
    BY ONLY <2>3, <2>4
<1>4. PICK q \in Nat : q = Square(p)
  BY SquareIsNat
<1>5. \A b \in 1..5 : BoundaryScore(f, Rung(j), b) = IF (i <= b) = (j <= b) THEN 0 ELSE q
  <2> TAKE b \in 1..5
  <2>1. BoundaryScore(f, Rung(j), b) = IF j <= b THEN Square(sum(b) - p) ELSE Square(sum(b))
    BY <1>1, BoundaryScores DEF Within, Beyond, sum
  <2>2. Square(p - p) = 0 /\ Square(0) = 0 /\ Square(0 - p) = q
    BY <1>4 DEF Square
  <2>3. sum(b) = IF i <= b THEN p ELSE 0
    BY <1>3
  <2>4. CASE i <= b
    <3>1. sum(b) = p
      BY <2>3, <2>4
    <3> QED
      BY <1>4, <2>1, <2>2, <2>4, <3>1
  <2>5. CASE ~ (i <= b)
    <3>1. sum(b) = 0
      BY <2>3, <2>5
    <3> QED
      BY <1>4, <2>1, <2>2, <2>5, <3>1
  <2> QED
    BY <2>4, <2>5
<1>6. SetRankedProbabilityScore(f, Rung(j)) =
        BoundaryScore(f, Rung(j), 1) + BoundaryScore(f, Rung(j), 2) + BoundaryScore(f, Rung(j), 3)
          + BoundaryScore(f, Rung(j), 4) + BoundaryScore(f, Rung(j), 5)
  BY ScoreOfRung
<1>7. PICK d \in Int : d = IF i <= j THEN j - i ELSE i - j
  OBVIOUS
<1>8. SetRankedProbabilityScore(f, Rung(j)) = q * d
  <2>1. 1 \in 1..5 /\ 2 \in 1..5 /\ 3 \in 1..5 /\ 4 \in 1..5 /\ 5 \in 1..5
    OBVIOUS
  <2>2. i = 1 \/ i = 2 \/ i = 3 \/ i = 4 \/ i = 5 \/ i = 6
    OBVIOUS
  <2>3. j = 1 \/ j = 2 \/ j = 3 \/ j = 4 \/ j = 5 \/ j = 6
    OBVIOUS
  <2> QED
    BY ONLY <1>5, <1>6, <1>7, <2>1, <2>2, <2>3, q \in Nat
<1>9. Distance(Rung(i), Rung(j)) = d
  BY <1>7, Distances
<1> QED
  BY ONLY <1>1, <1>4, <1>8, <1>9

\* The home win of a forecast is a part of Parts.
LEMMA HomeWinIsShare ==
    ASSUME NEW f \in Distributions
    PROVE  HomeWin(f) \in 0..Parts
<1>1. /\ Cumulated(f, 6) = Parts
      /\ Cumulated(f, 6) = f[Rung(6)] + Cumulated(f, 5)
      /\ Cumulated(f, 5) = f[Rung(5)] + Cumulated(f, 4)
      /\ Cumulated(f, 4) = f[Rung(4)] + Cumulated(f, 3)
      /\ Cumulated(f, 3) \in Nat
  <2>1. \A b \in 1..6 : Cumulated(f, b) = f[Rung(b)] + Cumulated(f, b - 1)
    BY Shares
  <2>2. 6 \in 1..6 /\ 5 \in 1..6 /\ 4 \in 1..6 /\ 3 \in 0..6
    OBVIOUS
  <2> QED
    BY <2>1, <2>2, Shares
<1>2. f[Rung(6)] \in Nat /\ f[Rung(5)] \in Nat /\ f[Rung(4)] \in Nat
  <2>1. Rung(6) \in DOMAIN f /\ Rung(5) \in DOMAIN f /\ Rung(4) \in DOMAIN f
    BY UpToGrows, Shares
  <2> QED
    BY <2>1, Shares, PartsAssumption
<1>3. HomeWin(f) = f[Rung(6)] + f[Rung(5)] + f[Rung(4)]
  BY Rungs DEF HomeWin
<1> QED
  BY <1>1, <1>2, <1>3, PartsAssumption

LEMMA TrueProbabilityScoresBest ==
    ASSUME NEW x \in Int, NEW y \in Int, x # y
    PROVE  ExpectedBrier(y, y) < ExpectedBrier(x, y)
<1>1. PICK p \in Nat : p = Parts /\ p > 0
  BY PartsAssumption
<1>2. /\ ExpectedBrier(x, y) = y * ((x - p) * (x - p)) + (p - y) * (x * x)
      /\ ExpectedBrier(y, y) = y * ((y - p) * (y - p)) + (p - y) * (y * y)
  BY <1>1 DEF ExpectedBrier, BinaryBrier, Square
<1>3. y * ((x - p) * (x - p)) + (p - y) * (x * x)
        = y * ((y - p) * (y - p)) + (p - y) * (y * y) + p * ((x - y) * (x - y))
  BY ONLY x \in Int, y \in Int, p \in Nat
<1>4. PICK d \in Nat : d = (x - y) * (x - y)
  BY ONLY SquareIsNat, x - y \in Int DEF Square
<1>5. d > 0
  <2>1. x > y => (x - y) * (x - y) > 0
    BY ONLY x \in Int, y \in Int
  <2>2. x < y => (x - y) * (x - y) > 0
    BY ONLY x \in Int, y \in Int
  <2> QED
    BY ONLY x \in Int, y \in Int, x # y, <1>4, <2>1, <2>2
<1>6. p * d \in Nat /\ p * d > 0
  BY ONLY d \in Nat, p \in Nat, <1>1, <1>5
<1>7. y * ((y - p) * (y - p)) + (p - y) * (y * y) \in Int
  BY ONLY y \in Int, p \in Nat
<1> QED
  BY ONLY <1>2, <1>3, <1>4, <1>6, <1>7

\* The bin of a probability is the fifth it lies in; a sure one is in the last.
LEMMA BinsHold ==
    ASSUME NEW x \in 0..Parts
    PROVE  BinHolds(x)
<1>1. PICK p \in Nat : p = Parts /\ p > 0
  BY PartsAssumption
<1>2. PICK n \in Nat : n = x * 5 /\ n <= 5 * p
  BY <1>1
<1>3. PICK q \in Int : q = n \div p
  BY <1>1
<1>4. p * q <= n /\ n < p * (q + 1)
  BY ONLY <1>1, <1>3, n \in Nat, p \in Nat
<1>5. q \in 0..5
  <2>1. ~ (q < 0)
    <3>1. q + 1 <= 0 => p * (q + 1) <= 0
      BY ONLY <1>1, p \in Nat, q \in Int
    <3> QED
      BY ONLY <1>4, <3>1, n \in Nat, q \in Int
  <2>2. ~ (q > 5)
    <3>1. q >= 6 => p * q >= p * 6
      BY ONLY <1>1, p \in Nat, q \in Int
    <3> QED
      BY ONLY <1>1, <1>2, <1>4, <3>1, n \in Nat, q \in Int, p \in Nat
  <2> QED
    BY ONLY <2>1, <2>2, q \in Int
<1>6. CalibrationBin(x) = IF q <= 4 THEN q ELSE 4
  <2>1. CalibrationBin(x) = Min({q, 4})
    BY <1>1, <1>2, <1>3 DEF CalibrationBin
  <2>2. \A y, z \in Int : Min({y, z}) = IF y <= z THEN y ELSE z
    BY DEF Min
  <2> QED
    BY <2>1, <2>2
<1>7. q = 5 => x = p
  BY ONLY <1>1, <1>2, <1>4, x \in 0..Parts, p \in Nat, n \in Nat
<1> QED
  BY <1>1, <1>2, <1>4, <1>5, <1>6, <1>7 DEF BinHolds

-----------------------------------------------------------------------------
(* ScoresAreHonest.                                                        *)

\* Whatever is scored is a forecast against a truth.
Scores == scoring = Null \/ scoring \in [forecast : Distributions, truth : Distributions]

\* Scores => ScoresAreHonest: what the lemmas say of every two distributions.
LEMMA ScoredHonestly ==
    ASSUME Scores
    PROVE  ScoresAreHonest
<1> SUFFICES ASSUME scoring # Null
             PROVE  /\ HonestyPays(scoring.forecast, scoring.truth)
                    /\ SurePaysByDistance(scoring.forecast)
                    /\ BinHolds(HomeWin(scoring.forecast))
  BY DEF ScoresAreHonest
<1>1. PICK f \in Distributions, t \in Distributions : f = scoring.forecast /\ t = scoring.truth
  BY DEF Scores
<1>2. HonestyPays(f, t)
  <2>1. f # t => ExpectedRps(t, t) < ExpectedRps(f, t)
    BY TruthScoresBest
  <2>2. HomeWin(f) \in Int /\ HomeWin(t) \in Int
    BY HomeWinIsShare, PartsAssumption
  <2>3. HomeWin(f) # HomeWin(t) =>
          ExpectedBrier(HomeWin(t), HomeWin(t)) < ExpectedBrier(HomeWin(f), HomeWin(t))
    BY <2>2, TrueProbabilityScoresBest
  <2> QED
    BY <2>1, <2>3 DEF HonestyPays
<1>3. SurePaysByDistance(f)
  <2> SUFFICES ASSUME NEW sure \in DOMAIN f, NEW actual \in DOMAIN f, f[sure] = Parts
               PROVE  SetRankedProbabilityScore(f, actual) = Square(Parts) * Distance(sure, actual)
    BY DEF SurePaysByDistance
  <2>1. \A s \in DOMAIN f : \E j \in 1..6 : s = Rung(j)
    <3>1. \A s \in UpTo(6) : \E j \in 1..6 : s = Rung(j)
      BY DEF UpTo, Rung
    <3> QED
      BY <3>1, UpToGrows, Shares
  <2>2. PICK i \in 1..6 : sure = Rung(i)
    BY <2>1
  <2>3. PICK j \in 1..6 : actual = Rung(j)
    BY <2>1
  <2> QED
    BY <2>2, <2>3, SureScores
<1>4. BinHolds(HomeWin(f))
  BY HomeWinIsShare, BinsHold
<1> QED
  BY <1>1, <1>2, <1>3, <1>4

\* Forecasters cannot gain by saying anything but what they believe, sure
\* forecasts are punished by how far they are off, and every home probability
\* falls into the bin that holds it (engine/evaluation/metrics.py): for any
\* number of parts, any forecast and any truth.
THEOREM HonestyIsScored == ScoringSpec => []ScoresAreHonest
<1>1. ScoringInit => Scores
  BY DEF ScoringInit, Scores
<1>2. Scores /\ [ScoreForecast]_scoring => Scores'
  BY DEF Scores, ScoreForecast
<1>3. Scores => ScoresAreHonest
  BY ScoredHonestly
<1> QED
  BY <1>1, <1>2, <1>3, PTL DEF ScoringSpec

-----------------------------------------------------------------------------
(* What the page of the API counts.                                        *)

LEMMA ImageFinite ==
    ASSUME NEW S, IsFiniteSet(S), NEW f
    PROVE  IsFiniteSet({f[x] : x \in S})
<1> DEFINE T == {f[x] : x \in S}
           g == [x \in S |-> f[x]]
<1>1. g \in Surjection(S, T)
  BY DEF Surjection
<1> HIDE DEF g, T
<1>2. IsFiniteSet(T)
  BY <1>1, FS_Surjection
<1> QED
  BY <1>2 DEF T

\* The elements of a set that f maps into K, counted by what they are mapped to.
LEMMA CountByPart ==
    ASSUME NEW S, IsFiniteSet(S), NEW f, NEW K, IsFiniteSet(K), NEW n,
           \A k \in K : n[k] = Cardinality({x \in S : f[x] = k})
    PROVE  SumFunctionOnSet(n, K) = Cardinality({x \in S : f[x] \in K})
<1> DEFINE part(L) == {x \in S : f[x] \in L}
           C == {L \in SUBSET K : SumFunctionOnSet(n, L) # Cardinality(part(L))}
<1>0. SUFFICES ASSUME C # {} PROVE FALSE
  OBVIOUS
<1>1. PICK L \in C : \A M \in C : M \subseteq L => M = L
  <2>1. C \in SUBSET SUBSET K
    OBVIOUS
  <2> HIDE DEF C
  <2> QED
    BY <1>0, <2>1, SmallestSet
<1>2. L \in SUBSET K /\ SumFunctionOnSet(n, L) # Cardinality(part(L)) /\ IsFiniteSet(L)
  BY FS_Subset
<1>3. ASSUME NEW M \in SUBSET S PROVE IsFiniteSet(M) /\ Cardinality(M) \in Nat
  BY FS_Subset, FS_CardinalityType
<1>4. CASE L = {}
  <2>1. part(L) = {}
    BY <1>4
  <2> HIDE DEF part
  <2>2. Cardinality(part(L)) = 0
    BY <2>1, FS_EmptySet
  <2>3. SumFunctionOnSet(n, L) = 0
    BY <1>2, <1>4, SumRule
  <2> QED
    BY <1>2, <2>2, <2>3
<1>5. CASE L # {}
  <2>1. PICK k : k \in L
    BY <1>5
  <2> DEFINE M == L \ {k}
             own == {x \in S : f[x] = k}
  <2>2. \A l \in L : n[l] \in Nat
    <3> TAKE l \in L
    <3>1. {x \in S : f[x] = l} \in SUBSET S
      OBVIOUS
    <3>2. n[l] = Cardinality({x \in S : f[x] = l})
      BY <1>2
    <3> QED
      BY ONLY <1>3, <3>1, <3>2
  <2>3. SumFunctionOnSet(n, L) = n[k] + SumFunctionOnSet(n, M)
    BY <1>2, <2>1, <2>2, SumSplit
  <2>4. SumFunctionOnSet(n, M) = Cardinality(part(M))
    <3>1. M \in SUBSET K /\ M \subseteq L /\ M # L
      BY <1>2, <2>1
    <3>2. M \notin C
      BY <1>1, <3>1
    <3> QED
      BY <3>1, <3>2
  <2>5. n[k] = Cardinality(own)
    BY <1>2, <2>1
  <2>6. part(L) = own \cup part(M) /\ own \cap part(M) = {} /\ own \in SUBSET S /\ part(M) \in SUBSET S
    BY <2>1
  <2> HIDE DEF part, own, M
  <2>7. Cardinality(own) \in Nat /\ Cardinality(part(M)) \in Nat /\ IsFiniteSet(own) /\ IsFiniteSet(part(M))
    BY <1>3, <2>6
  <2>8. Cardinality(part(L)) = Cardinality(own) + Cardinality(part(M))
    <3>1. Cardinality(own \cup part(M)) = Cardinality(own) + Cardinality(part(M)) - Cardinality(own \cap part(M))
      BY <2>7, FS_Union
    <3>2. Cardinality(own \cap part(M)) = 0
      BY <2>6, FS_EmptySet
    <3>3. part(L) = own \cup part(M)
      BY <2>6
    <3> QED
      BY ONLY <2>7, <3>1, <3>2, <3>3
  <2> QED
    BY ONLY <1>2, <2>3, <2>4, <2>5, <2>8
<1> QED
  BY <1>4, <1>5

\* A set in parts, one for each value of f, is as large as they are together.
LEMMA PartsAddUp ==
    ASSUME NEW S, IsFiniteSet(S), NEW f, NEW K, IsFiniteSet(K), NEW n, NEW part,
           \A x \in S : f[x] \in K,
           \A k \in K : part[k] \subseteq S /\ \A x \in S : x \in part[k] <=> f[x] = k,
           \A k \in K : n[k] = Cardinality(part[k])
    PROVE  SumFunctionOnSet(n, K) = Cardinality(S)
<1>1. \A k \in K : part[k] = {x \in S : f[x] = k}
  OBVIOUS
<1>2. \A k \in K : n[k] = Cardinality({x \in S : f[x] = k})
  BY <1>1
<1>3. SumFunctionOnSet(n, K) = Cardinality({x \in S : f[x] \in K})
  BY ONLY <1>2, IsFiniteSet(S), IsFiniteSet(K), CountByPart
<1>4. {x \in S : f[x] \in K} = S
  OBVIOUS
<1> QED
  BY <1>3, <1>4

-----------------------------------------------------------------------------
(* What counts.                                                            *)

\* Only the finality of a cohort changes, so the newest of an identity is the
\* newest of its prediction.
LEMMA LatestAreCounted ==
    ASSUME NEW rows, SoundHistory(rows)
    PROVE  LatestEvaluations(rows) = CountedRows(rows)
<1>1. ASSUME NEW a \in rows, NEW b \in rows
      PROVE  Identity(a) = Identity(b) <=> Rivals(a, b)
  <2> DEFINE of(r) == [f \in DOMAIN r.cohort \ {"finality"} |-> r.cohort[f]]
  <2>1. Rivals(a, b) => of(a) = of(b)
    <3> SUFFICES ASSUME Rivals(a, b) PROVE of(a) = of(b)
      OBVIOUS
    <3>1. DOMAIN a.cohort = DOMAIN b.cohort /\ \A f \in DOMAIN a.cohort \ {"finality"} : a.cohort[f] = b.cohort[f]
      BY DEF Rivals, SoundHistory
    <3> QED
      BY ONLY <3>1
  <2>2. Identity(a) = <<a.prediction, a.evaluator, a.policy, of(a)>>
        /\ Identity(b) = <<b.prediction, b.evaluator, b.policy, of(b)>>
    BY DEF Identity
  <2> HIDE DEF of
  <2> QED
    BY <2>1, <2>2 DEF Rivals
<1>2. ASSUME NEW row \in rows, NEW other \in rows, Rivals(other, row)
      PROVE  Supersedes(other, row) <=> ~ (other.revision <= row.revision)
  <2>1. other.revision \in Nat /\ row.revision \in Nat /\ other.id \in Nat /\ row.id \in Nat
    BY DEF SoundHistory
  <2>2. other.revision = row.revision => other = row
    BY <1>2 DEF SoundHistory
  <2>3. other.revision = row.revision => ~ (other.id > row.id)
    BY <2>1, <2>2
  <2> QED
    BY ONLY <2>1, <2>3 DEF Supersedes
<1>3. ASSUME NEW row \in rows
      PROVE  (~ \E other \in rows : Identity(other) = Identity(row) /\ Supersedes(other, row))
               <=> \A other \in rows : Rivals(other, row) => other.revision <= row.revision
  BY <1>1, <1>2
<1> QED
  BY <1>3 DEF LatestEvaluations, CountedRows

\* The fields of a group's key.
IsKey(k) ==
    /\ DOMAIN k = {"cohort", "evaluator", "policy", "type", "kind"}
    /\ k = [f \in DOMAIN k |-> k[f]]

LEMMA KeysAre ==
    ASSUME NEW row
    PROVE  IsKey(GroupKey(row)) /\ GroupKey(row).kind = BaselineKind(row)
BY DEF GroupKey, IsKey

LEMMA BaselineIs ==
    ASSUME NEW k, IsKey(k), NEW kind, NEW provider, NEW model
    PROVE  IsKey(Baseline(k, kind, provider, model)) /\ Baseline(k, kind, provider, model).kind = kind
BY DEF Baseline, IsKey

\* Groups with a key of each row, none of them infinite.
Sorted(groups, rows) ==
    /\ \A k \in DOMAIN groups : IsKey(k) /\ IsFiniteSet(groups[k])
    /\ IsFiniteSet(DOMAIN groups)
    /\ \A row \in rows : GroupKey(row) \in DOMAIN groups
    /\ \A k \in DOMAIN groups :
         k.kind # "market" => groups[k] = {row \in rows : GroupKey(row) = k}

LEMMA GroupedAreSorted ==
    ASSUME NEW rows, IsFiniteSet(rows)
    PROVE  Sorted(GroupEvaluations(rows), rows)
<1> DEFINE groups == GroupEvaluations(rows)
           key == [row \in rows |-> GroupKey(row)]
<1>1. DOMAIN groups = {key[row] : row \in rows}
  BY DEF GroupEvaluations
<1>2. \A k \in DOMAIN groups : groups[k] = {row \in rows : GroupKey(row) = k}
  BY DEF GroupEvaluations
<1>3. IsFiniteSet({key[row] : row \in rows})
  <2> HIDE DEF key
  <2> QED
    BY ImageFinite
<1>4. \A k \in DOMAIN groups : IsKey(k)
  BY <1>1, KeysAre
<1>5. \A row \in rows : GroupKey(row) \in DOMAIN groups
  BY <1>1
<1>6. \A k \in DOMAIN groups : IsFiniteSet(groups[k])
  <2> TAKE k \in DOMAIN groups
  <2>1. groups[k] \in SUBSET rows
    BY <1>2
  <2> HIDE DEF groups
  <2> QED
    BY <2>1, FS_Subset
<1> HIDE DEF groups
<1> QED
  BY <1>1, <1>2, <1>3, <1>4, <1>5, <1>6 DEF Sorted, groups

MarketKeyOf(k) == Baseline(k, "market", "market", "available-market-v1")

MarketKeysOf(groups) == {MarketKeyOf(k) : k \in Lenders(groups)}

LEMMA MarketIs ==
    ASSUME NEW groups
    PROVE  AddMarketGroups(groups)
             = [key \in DOMAIN groups \cup MarketKeysOf(groups) |->
                  IF key \in MarketKeysOf(groups)
                  THEN MarketRows(groups[CHOOSE k \in Lenders(groups) : MarketKeyOf(k) = key], key)
                  ELSE groups[key]]
BY DEF AddMarketGroups, MarketKeysOf, MarketKeyOf

\* The market has groups of its own, and takes from nobody.
LEMMA MarketLeavesSorted ==
    ASSUME NEW groups, NEW rows, Sorted(groups, rows)
    PROVE  Sorted(AddMarketGroups(groups), rows)
<1> DEFINE market == AddMarketGroups(groups)
           lender(key) == CHOOSE k \in Lenders(groups) : MarketKeyOf(k) = key
           name == [k \in Lenders(groups) |-> MarketKeyOf(k)]
<1>1. Lenders(groups) \subseteq DOMAIN groups
  BY DEF Lenders, Ai
<1>2. /\ DOMAIN market = DOMAIN groups \cup MarketKeysOf(groups)
      /\ \A key \in MarketKeysOf(groups) : market[key] = MarketRows(groups[lender(key)], key)
      /\ \A key \in DOMAIN groups : key \notin MarketKeysOf(groups) => market[key] = groups[key]
  BY MarketIs
<1>3. \A key \in MarketKeysOf(groups) : IsKey(key) /\ key.kind = "market"
  BY <1>1, BaselineIs DEF MarketKeysOf, MarketKeyOf, Sorted
<1>4. \A key \in MarketKeysOf(groups) : IsFiniteSet(MarketRows(groups[lender(key)], key))
  <2> TAKE key \in MarketKeysOf(groups)
  <2> DEFINE L == groups[lender(key)]
             M == {r \in L : MarketHomeProbability(r.odds) # Null /\ r.outcome # Null}
             made == [row \in M |-> MarketRow(row, key)]
  <2>1. lender(key) \in Lenders(groups)
    BY DEF MarketKeysOf
  <2>2. IsFiniteSet(L)
    BY <1>1, <2>1 DEF Sorted
  <2>3. IsFiniteSet(M)
    <3> HIDE DEF L
    <3> QED
      BY <2>2, FS_Subset
  <2>4. IsFiniteSet({made[row] : row \in M})
    <3> HIDE DEF made, M
    <3> QED
      BY <2>3, ImageFinite
  <2>5. MarketRows(L, key) = {made[row] : row \in M}
    BY DEF MarketRows
  <2> HIDE DEF made, M
  <2> QED
    BY <2>4, <2>5
<1>5. IsFiniteSet(MarketKeysOf(groups))
  <2>1. IsFiniteSet(Lenders(groups))
    BY <1>1, FS_Subset DEF Sorted
  <2>2. MarketKeysOf(groups) = {name[k] : k \in Lenders(groups)}
    BY DEF MarketKeysOf
  <2> HIDE DEF name
  <2> QED
    BY <2>1, <2>2, ImageFinite
<1>6. IsFiniteSet(DOMAIN market)
  <2>1. IsFiniteSet(DOMAIN groups)
    BY DEF Sorted
  <2>2. IsFiniteSet(DOMAIN groups \cup MarketKeysOf(groups))
    BY ONLY <1>5, <2>1, FS_Union
  <2> QED
    BY <1>2, <2>2
<1> HIDE DEF market, lender
<1>7. \A k \in DOMAIN market : IsKey(k) /\ IsFiniteSet(market[k])
  BY <1>2, <1>3, <1>4 DEF Sorted
<1>8. \A k \in DOMAIN market : k.kind # "market" => k \in DOMAIN groups /\ market[k] = groups[k]
  BY <1>2, <1>3
<1>9. \A row \in rows : GroupKey(row) \in DOMAIN market
  BY <1>2 DEF Sorted
<1>10. \A k \in DOMAIN market : k.kind # "market" => market[k] = {row \in rows : GroupKey(row) = k}
  BY <1>8 DEF Sorted
<1> QED
  BY <1>6, <1>7, <1>9, <1>10 DEF Sorted, market

\* A baseline that is missing has no rows, which is why it is shown empty.
LEMMA MissingLeavesSorted ==
    ASSUME NEW groups, NEW rows, Sorted(groups, rows)
    PROVE  Sorted(AddMissingBaselineGroups(groups), rows)
<1> DEFINE kinds == {"home_rate", "statistical"}
           missing == {Baseline(k, kind, "baseline", "unavailable") : k \in Ai(groups), kind \in kinds}
           added == {key \in missing : ~HasKind(groups, key.kind, key)}
           all == AddMissingBaselineGroups(groups)
           home == [k \in Ai(groups) |-> Baseline(k, "home_rate", "baseline", "unavailable")]
           statistical == [k \in Ai(groups) |-> Baseline(k, "statistical", "baseline", "unavailable")]
<1>1. Ai(groups) \subseteq DOMAIN groups
  BY DEF Ai
<1>2. /\ DOMAIN all = DOMAIN groups \cup added
      /\ \A key \in added : all[key] = {}
      /\ \A key \in DOMAIN groups : key \notin added => all[key] = groups[key]
  BY DEF AddMissingBaselineGroups
<1>3. \A key \in missing : IsKey(key)
  BY <1>1, BaselineIs DEF Sorted
<1>4. IsFiniteSet(missing)
  <2>1. IsFiniteSet(Ai(groups))
    BY <1>1, FS_Subset DEF Sorted
  <2>2. missing = {home[k] : k \in Ai(groups)} \cup {statistical[k] : k \in Ai(groups)}
    OBVIOUS
  <2> HIDE DEF home, statistical, missing
  <2>3. IsFiniteSet({home[k] : k \in Ai(groups)}) /\ IsFiniteSet({statistical[k] : k \in Ai(groups)})
    BY <2>1, ImageFinite
  <2> QED
    BY <2>2, <2>3, FS_Union
<1>5. \A key \in added : key \in missing /\ key \notin DOMAIN groups
  BY DEF HasKind
<1> HIDE DEF missing
<1>6. IsFiniteSet(added)
  BY <1>4, FS_Subset
<1> HIDE DEF added, all
<1>7. IsFiniteSet(DOMAIN all)
  <2>1. IsFiniteSet(DOMAIN groups)
    BY DEF Sorted
  <2>2. IsFiniteSet(DOMAIN groups \cup added)
    BY ONLY <1>6, <2>1, FS_Union
  <2> QED
    BY <1>2, <2>2
<1>8. \A k \in DOMAIN all : IsKey(k) /\ IsFiniteSet(all[k])
  BY <1>2, <1>3, <1>5, FS_EmptySet DEF Sorted
<1>9. \A row \in rows : GroupKey(row) \in DOMAIN all
  BY <1>2 DEF Sorted
<1>10. \A k \in DOMAIN all : k.kind # "market" => all[k] = {row \in rows : GroupKey(row) = k}
  <2> TAKE k \in DOMAIN all
  <2>1. CASE k \in added
    <3>1. \A row \in rows : GroupKey(row) # k
      BY <1>5, <2>1 DEF Sorted
    <3> QED
      BY <1>2, <2>1, <3>1
  <2>2. CASE k \notin added
    BY <1>2, <2>2 DEF Sorted
  <2> QED
    BY <2>1, <2>2
<1> QED
  BY <1>7, <1>8, <1>9, <1>10 DEF Sorted, all

LEMMA GroupsAreSorted ==
    ASSUME NEW rows, SoundHistory(rows)
    PROVE  Sorted(Groups(rows), CountedRows(rows)) /\ IsFiniteSet(CountedRows(rows))
<1>1. IsFiniteSet(CountedRows(rows))
  BY FS_Subset DEF CountedRows, SoundHistory
<1>2. Groups(rows) = AddMissingBaselineGroups(AddMarketGroups(GroupEvaluations(CountedRows(rows))))
  BY LatestAreCounted DEF Groups
<1> QED
  BY <1>1, <1>2, GroupedAreSorted, MarketLeavesSorted, MissingLeavesSorted

-----------------------------------------------------------------------------
(* What is shown.                                                          *)

LEMMA ShownIs ==
    ASSUME NEW groups
    PROVE  /\ DOMAIN BuildPerformance(groups) = DOMAIN groups
           /\ \A k \in DOMAIN groups :
                BuildPerformance(groups)[k].row.sample = Cardinality(Scored(groups[k]))
           /\ \A k \in Ai(groups) : \A b \in Baselines(groups, k) :
                BuildPerformance(groups)[k].comparisons[b] = Comparison(groups[k], groups[b])
<1>1. ASSUME NEW k \in DOMAIN groups
      PROVE  BuildPerformance(groups)[k].row.sample = Cardinality(Scored(groups[k]))
  BY DEF BuildPerformance, AggregateGroup
<1>2. ASSUME NEW k \in Ai(groups), NEW b \in Baselines(groups, k)
      PROVE  BuildPerformance(groups)[k].comparisons[b] = Comparison(groups[k], groups[b])
  BY DEF BuildPerformance, Ai
<1>3. DOMAIN BuildPerformance(groups) = DOMAIN groups
  BY DEF BuildPerformance
<1> QED
  BY <1>1, <1>2, <1>3

\* The samples that are shown of a kind, and the rows that count for it.
Samples(shown, kind) ==
    SumFunctionOnSet([k \in DOMAIN shown |-> shown[k].row.sample], {k \in DOMAIN shown : k.kind = kind})

ScoredOf(rows, kind) == Scored({row \in rows : BaselineKind(row) = kind})

\* The samples of the groups of a kind part what counts for the kind.
LEMMA SamplesAddUp ==
    ASSUME NEW groups, NEW rows, IsFiniteSet(rows), Sorted(groups, rows),
           NEW shown, shown = BuildPerformance(groups), NEW kind, kind # "market"
    PROVE  Samples(shown, kind) = Cardinality(ScoredOf(rows, kind))
<1> DEFINE S == ScoredOf(rows, kind)
           f == [row \in S |-> GroupKey(row)]
           n == [k \in DOMAIN shown |-> shown[k].row.sample]
           K == {k \in DOMAIN shown : k.kind = kind}
           part == [k \in DOMAIN groups |-> Scored(groups[k])]
<1>1. S \in SUBSET rows
  BY DEF ScoredOf, Scored, Eligible
<1>2. DOMAIN shown = DOMAIN groups
  BY ShownIs
<1>3. IsFiniteSet(K)
  BY <1>2, FS_Subset DEF Sorted
<1>4. \A row \in S : f[row] \in K
  <2> TAKE row \in S
  <2>1. GroupKey(row) \in DOMAIN groups
    BY <1>1 DEF Sorted
  <2>2. GroupKey(row).kind = kind
    BY KeysAre DEF ScoredOf, Scored, Eligible
  <2> QED
    BY <1>2, <2>1, <2>2
<1>5. \A k \in K : part[k] \subseteq S /\ \A row \in S : row \in part[k] <=> f[row] = k
  <2> TAKE k \in K
  <2>1. groups[k] = {row \in rows : GroupKey(row) = k}
    BY <1>2 DEF Sorted
  <2>2. \A row : GroupKey(row) = k => BaselineKind(row) = kind
    BY KeysAre
  <2>3. part[k] = Scored(groups[k])
    BY <1>2
  <2>4. \A row : row \in part[k] <=> row \in S /\ GroupKey(row) = k
    BY <2>1, <2>2, <2>3 DEF ScoredOf, Scored, Eligible
  <2>5. \A row \in S : f[row] = GroupKey(row)
    OBVIOUS
  <2> QED
    BY ONLY <2>4, <2>5
<1>6. \A k \in K : n[k] = Cardinality(part[k])
  BY <1>2, ShownIs
<1>7. IsFiniteSet(S)
  BY <1>1, FS_Subset
<1> HIDE DEF S, f, n, K, part
<1>8. SumFunctionOnSet(n, K) = Cardinality(S)
  BY <1>3, <1>4, <1>5, <1>6, <1>7, PartsAddUp
<1> QED
  BY <1>8 DEF S, n, K, Samples

\* What two sets share and what only the first one has.
LEMMA SharedAndOwn ==
    ASSUME NEW A, IsFiniteSet(A), NEW B
    PROVE  Cardinality(A) = Cardinality(A \cap B) + Cardinality(A \ B)
<1>1. Cardinality(A \ B) = Cardinality(A) - Cardinality(A \cap B)
  BY FS_Difference
<1>2. Cardinality(A) \in Nat /\ Cardinality(A \cap B) \in Nat
  <2>1. IsFiniteSet(A \cap B)
    BY FS_Subset
  <2> QED
    BY <2>1, FS_CardinalityType
<1> QED
  BY ONLY <1>1, <1>2

LEMMA PairKeysFinite ==
    ASSUME NEW rows, IsFiniteSet(rows)
    PROVE  IsFiniteSet(PairKeys(rows))
<1> DEFINE key == [row \in EligiblePairs(rows) |-> PairKey(row)]
<1>1. EligiblePairs(rows) \in SUBSET rows
  BY DEF EligiblePairs, Scored, Eligible
<1>2. IsFiniteSet(EligiblePairs(rows))
  BY <1>1, FS_Subset
<1>3. PairKeys(rows) = {key[row] : row \in EligiblePairs(rows)}
  BY DEF PairKeys
<1> HIDE DEF key
<1> QED
  BY <1>2, <1>3, ImageFinite

LEMMA ComparisonAddsUp ==
    ASSUME NEW ai, IsFiniteSet(ai), NEW baseline, IsFiniteSet(baseline)
    PROVE  LET pair == Comparison(ai, baseline)
           IN  /\ pair.ai = pair.paired + pair.baselineUnavailable
               /\ pair.baseline = pair.paired + pair.aiUnavailable
<1> DEFINE A == PairKeys(ai)
           B == PairKeys(baseline)
           pair == Comparison(ai, baseline)
<1>1. /\ pair.ai = Cardinality(A)
      /\ pair.baseline = Cardinality(B)
      /\ pair.paired = Cardinality(A \cap B)
      /\ pair.aiUnavailable = Cardinality(B \ A)
      /\ pair.baselineUnavailable = Cardinality(A \ B)
  BY DEF Comparison
<1>2. IsFiniteSet(A) /\ IsFiniteSet(B)
  BY PairKeysFinite
<1> HIDE DEF A, B, pair
<1>3. Cardinality(A) = Cardinality(A \cap B) + Cardinality(A \ B)
  BY <1>2, SharedAndOwn
<1>4. Cardinality(B) = Cardinality(A \cap B) + Cardinality(B \ A)
  <2>1. Cardinality(B) = Cardinality(B \cap A) + Cardinality(B \ A)
    BY <1>2, SharedAndOwn
  <2>2. B \cap A = A \cap B
    OBVIOUS
  <2> QED
    BY <2>1, <2>2
<1> QED
  BY <1>1, <1>3, <1>4 DEF pair

-----------------------------------------------------------------------------
(* The comparison is over the rows that count.                             *)

\* The last row of a key is kept, so no key of a scored row is lost.
LEMMA KeysAreKept ==
    ASSUME NEW rows, IsFiniteSet(rows), \A row \in rows : row.id \in Nat
    PROVE  PairKeys(rows) = {PairKey(row) : row \in Scored(rows)}
<1>1. Scored(rows) \in SUBSET rows
  BY DEF Scored, Eligible
<1>2. ASSUME NEW row \in Scored(rows)
      PROVE  \E last \in EligiblePairs(rows) : PairKey(last) = PairKey(row)
  <2> DEFINE own == {r \in Scored(rows) : PairKey(r) = PairKey(row)}
             R == {x \in own \X own : x[1].id <= x[2].id}
  <2>1. own \in SUBSET rows /\ row \in own
    BY <1>1
  <2>2. \A x, y : <<x, y>> \in R <=> x \in own /\ y \in own /\ x.id <= y.id
    OBVIOUS
  <2>3. \A x \in own : x.id \in Nat
    BY <2>1
  <2>4. IsFiniteSet(own) /\ own # {}
    BY <2>1, FS_Subset
  <2> HIDE DEF own, R
  <2>5. ASSUME NEW x \in own, NEW y \in own
        PROVE  <<x, y>> \in R \/ <<y, x>> \in R
    <3>1. x.id \in Nat /\ y.id \in Nat
      BY <2>3
    <3>2. x.id <= y.id \/ y.id <= x.id
      BY ONLY <3>1
    <3> QED
      BY <2>2, <3>2
  <2>6. ASSUME NEW x \in own, NEW y \in own, NEW z \in own, <<x, y>> \in R, <<y, z>> \in R
        PROVE  <<x, z>> \in R
    <3>1. x.id \in Nat /\ y.id \in Nat /\ z.id \in Nat
      BY <2>3
    <3>2. x.id <= y.id /\ y.id <= z.id
      BY <2>2, <2>6
    <3>3. x.id <= z.id
      BY ONLY <3>1, <3>2
    <3> QED
      BY <2>2, <3>3
  <2>7. PICK last \in own : IsGreatest(last, own, R)
    BY <2>4, <2>5, <2>6, FiniteHasGreatest
  <2>8. ASSUME NEW r \in own PROVE ~ (r.id > last.id)
    <3>1. r.id \in Nat /\ last.id \in Nat
      BY <2>3
    <3>2. r.id <= last.id
      BY <2>2, <2>7 DEF IsGreatest
    <3> QED
      BY ONLY <3>1, <3>2
  <2>9. last \in Scored(rows) /\ PairKey(last) = PairKey(row)
    BY <2>7 DEF own
  <2>10. \A r \in Scored(rows) : PairKey(r) = PairKey(last) => r \in own
    BY <2>9 DEF own
  <2>11. last \in EligiblePairs(rows)
    BY <2>8, <2>9, <2>10 DEF EligiblePairs
  <2> QED
    BY <2>9, <2>11
<1>3. EligiblePairs(rows) \subseteq Scored(rows)
  BY DEF EligiblePairs
<1> QED
  BY <1>2, <1>3 DEF PairKeys

\* The matches that two sets of rows both count.
Both(A, B) == {PairKey(x[1]) : x \in {y \in A \X B : PairKey(y[1]) = PairKey(y[2])}}

LEMMA CommonKeys ==
    ASSUME NEW A, NEW B
    PROVE  {PairKey(row) : row \in A} \cap {PairKey(row) : row \in B} = Both(A, B)
<1>1. ASSUME NEW a \in A, NEW b \in B, PairKey(a) = PairKey(b)
      PROVE  PairKey(a) \in Both(A, B)
  <2>1. <<a, b>> \in {y \in A \X B : PairKey(y[1]) = PairKey(y[2])}
    BY <1>1
  <2> QED
    BY <2>1 DEF Both
<1>2. ASSUME NEW key \in Both(A, B)
      PROVE  \E a \in A, b \in B : key = PairKey(a) /\ key = PairKey(b)
  BY DEF Both
<1> QED
  BY <1>1, <1>2

\* The rows of a group are those that count with its key.
LEMMA GroupCounts ==
    ASSUME NEW groups, NEW rows, Sorted(groups, rows), NEW k \in DOMAIN groups, k.kind # "market"
    PROVE  {row \in Scored({row \in rows : BaselineKind(row) = k.kind}) :
              /\ row.cohort = k.cohort /\ row.type = k.type
              /\ row.evaluator = k.evaluator /\ row.policy = k.policy}
             = Scored(groups[k])
<1>1. groups[k] = {row \in rows : GroupKey(row) = k} /\ IsKey(k)
  BY DEF Sorted
<1>2. ASSUME NEW row
      PROVE  GroupKey(row) = k
               <=> /\ BaselineKind(row) = k.kind
                   /\ row.cohort = k.cohort /\ row.type = k.type
                   /\ row.evaluator = k.evaluator /\ row.policy = k.policy
  BY <1>1 DEF GroupKey, IsKey
<1> QED
  BY <1>1, <1>2 DEF Scored, Eligible

LEMMA HistoryCounts ==
    ASSUME NEW rows, SoundHistory(rows)
    PROVE  Counts(rows, Groups(rows), BuildPerformance(Groups(rows)))
<1> DEFINE groups == Groups(rows)
           shown == BuildPerformance(groups)
           counted == CountedRows(rows)
           scored(kind) == Scored({row \in counted : BaselineKind(row) = kind})
           by(k) == {row \in scored(k.kind) :
                       /\ row.cohort = k.cohort /\ row.type = k.type
                       /\ row.evaluator = k.evaluator /\ row.policy = k.policy}
<1>1. Sorted(groups, counted) /\ IsFiniteSet(counted) /\ counted \in SUBSET rows
  BY GroupsAreSorted DEF CountedRows
<1> HIDE DEF groups, counted
<1>2. ASSUME NEW kind \in {"ai", "home_rate", "statistical"}
      PROVE  SumFunctionOnSet([k \in DOMAIN shown |-> shown[k].row.sample],
                              {k \in DOMAIN shown : k.kind = kind})
               = Cardinality(scored(kind))
  <2>1. kind # "market"
    OBVIOUS
  <2> HIDE DEF shown
  <2>2. shown = BuildPerformance(groups)
    BY DEF shown
  <2>3. Samples(shown, kind) = Cardinality(ScoredOf(counted, kind))
    BY <1>1, <2>1, <2>2, SamplesAddUp
  <2> QED
    BY <2>3 DEF Samples, ScoredOf
<1>3. ASSUME NEW k \in Ai(groups), NEW b \in Baselines(groups, k)
      PROVE  LET pair == shown[k].comparisons[b]
             IN  /\ pair.ai = pair.paired + pair.baselineUnavailable
                 /\ pair.baseline = pair.paired + pair.aiUnavailable
                 /\ b.kind # "market" => pair.paired = Cardinality(Both(by(k), by(b)))
  <2>1. k \in DOMAIN groups /\ b \in DOMAIN groups /\ k.kind = "ai"
    BY DEF Ai, Baselines
  <2>2. shown[k].comparisons[b] = Comparison(groups[k], groups[b])
    BY ShownIs
  <2>3. IsFiniteSet(groups[k]) /\ IsFiniteSet(groups[b])
    BY <1>1, <2>1 DEF Sorted
  <2>4. LET pair == Comparison(groups[k], groups[b])
        IN  /\ pair.ai = pair.paired + pair.baselineUnavailable
            /\ pair.baseline = pair.paired + pair.aiUnavailable
    BY <2>3, ComparisonAddsUp
  <2>5. ASSUME b.kind # "market"
        PROVE  Comparison(groups[k], groups[b]).paired = Cardinality(Both(by(k), by(b)))
    <3>1. by(k) = Scored(groups[k]) /\ by(b) = Scored(groups[b])
      BY <1>1, <2>1, <2>5, GroupCounts
    <3>2. Comparison(groups[k], groups[b]).paired = Cardinality(PairKeys(groups[k]) \cap PairKeys(groups[b]))
      BY DEF Comparison
    <3>3. groups[k] \in SUBSET rows /\ groups[b] \in SUBSET rows
      BY <1>1, <2>1, <2>5 DEF Sorted
    <3>4. /\ PairKeys(groups[k]) = {PairKey(row) : row \in Scored(groups[k])}
          /\ PairKeys(groups[b]) = {PairKey(row) : row \in Scored(groups[b])}
      BY <2>3, <3>3, KeysAreKept DEF SoundHistory
    <3> HIDE DEF by
    <3>5. {PairKey(row) : row \in Scored(groups[k])} \cap {PairKey(row) : row \in Scored(groups[b])}
            = Both(Scored(groups[k]), Scored(groups[b]))
      BY CommonKeys
    <3> QED
      BY <3>1, <3>2, <3>4, <3>5
  <2> QED
    BY <2>2, <2>4, <2>5
<1> QED
  BY <1>2, <1>3 DEF Counts, Both, groups, counted

LEMMA FilteredIsSound ==
    ASSUME NEW rows, SoundHistory(rows), NEW finality
    PROVE  SoundHistory(Filtered(rows, finality))
<1>1. Filtered(rows, finality) \in SUBSET rows
  BY DEF Filtered
<1>2. IsFiniteSet(Filtered(rows, finality))
  BY <1>1, FS_Subset DEF SoundHistory
<1> QED
  BY <1>1, <1>2 DEF SoundHistory

\* A prediction counts once on a page of the API (api/performance.py), whatever
\* is stored and whatever finality is asked for.
THEOREM PredictionsCountOnce == PerformanceSpec => []CountedOnce
<1> DEFINE Stored == evaluated = Null \/ evaluated \in Histories
<1>1. PerformanceInit => Stored
  BY DEF PerformanceInit
<1>2. Stored /\ [ReadPerformance]_pageVars => Stored'
  BY DEF ReadPerformance, pageVars
<1>3. Stored => CountedOnce
  <2> SUFFICES ASSUME Stored, evaluated # Null PROVE CountedOnce
    BY DEF CountedOnce
  <2>1. SoundHistory(Filtered(evaluated, askedFinality))
    BY HistoryAssumption, FilteredIsSound
  <2>2. \A rows : SoundHistory(rows) => Counts(rows, Groups(rows), BuildPerformance(Groups(rows)))
    BY HistoryCounts
  <2> QED
    BY <2>1, <2>2 DEF CountedOnce
<1> QED
  BY <1>1, <1>2, <1>3, PTL DEF PerformanceSpec
=============================================================================
