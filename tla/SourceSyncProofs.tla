-------------------------- MODULE SourceSyncProofs --------------------------
(***************************************************************************)
(* PagesNeverSkipped, RequestsSpaced, FinalityEarned, LeakFree and         *)
(* AcceptsPlayedMatches, for any number of workers, answers, faults,       *)
(* receipts and scoresheets.                                               *)
(*                                                                         *)
(* Who works has a slot unless a session was lost (Exclusive); with one    *)
(* slot the last request is then its holder's own or an interval ago       *)
(* (Spaced), and nothing is stored between an answer and its facts         *)
(* (Ordered).  What a worker holds was fetched for what it asked (Holds),  *)
(* a backfill works on the page after those of its checkpoint (Pages), and *)
(* every page a checkpoint counts was taken (Counted).  Every row of a     *)
(* result follows from those before it (Chained), and names its receipt    *)
(* (Recorded).                                                             *)
(*                                                                         *)
(* LeakFree needs no more of the mirror than that its rows have dates      *)
(* (DatedMirror): every read of a prediction then comes out the same       *)
(* without the rows that were observed after the cutoff, since what it     *)
(* takes as the latest is a row that was known.                            *)
(*                                                                         *)
(* AcceptsPlayedMatches is of the parser alone, for any scoresheet.  What  *)
(* a set can show, counted point by point, has a closed form (Shows); what *)
(* the loop over the sets knows after each of them (Knows) is either that  *)
(* they all went as sets go or an issue that no played match has.          *)
(***************************************************************************)
EXTENDS SourceSync, AsOfInputs, PlayedMatches, SetSums, SequenceTheorems, WellFoundedInduction, TLAPS

-----------------------------------------------------------------------------
(* What the parser returns.                                                *)

LEMMA FailureFails ==
    ASSUME NEW code
    PROVE  Failed(Failure(code))
BY DEF Failed, Failure

\* A page has no result.
LEMMA PagesHaveNoResult ==
    ASSUME NEW games
    PROVE  BatchFromGames(games).result = Null
BY DEF BatchFromGames, Empty

LEMMA GameRowSays ==
    ASSUME NEW key, NEW row, NEW game, game = ParseGameRow(key, row), ~Failed(game)
    PROVE  game.row = row /\ key.match \in {Null, row.match}
BY FailureFails DEF ParseGameRow

LEMMA ResultIsProvisional ==
    ASSUME NEW row, NEW parsed, parsed = ParseResult(row)
    PROVE  parsed.result = Null \/ parsed.result.finality = "provisional"
<1>1. ASSUME NEW rule, NEW read, NEW wins
      PROVE  LET p == CompleteResult(row, rule, read, wins)
             IN  p.result = Null \/ p.result.finality = "provisional"
  BY DEF CompleteResult, Rejected
<1> QED
  BY <1>1 DEF ParseResult, ReadResult, Rejected

\* The facts of a detail are about its own match.
LEMMA DetailSubject ==
    ASSUME NEW doc, NEW game, game.row = doc.game, game.verified,
           NEW parsed, NEW issues
    PROVE  Subject(DetailBatch(doc, game, parsed, issues)) = game.row.match
<1> DEFINE base == BatchFromGames({game})
           batch == DetailBatch(doc, game, parsed, issues)
<1>1. base.matches = {MatchFact(game)}
  <2> DEFINE all == {g \in {game} : g.verified}
  <2>1. all = {game}
    OBVIOUS
  <2>2. base.matches = {MatchFact(g) : g \in all}
    BY DEF BatchFromGames, Empty
  <2> HIDE DEF all
  <2> QED
    BY <2>1, <2>2
<1>2. batch.matches = base.matches
  BY DEF DetailBatch, BatchFromGames, Empty
<1>3. MatchFact(game).match = game.row.match
  BY DEF MatchFact
<1> HIDE DEF batch, base
<1>4. Subject(batch) = MatchFact(game).match
  BY <1>1, <1>2 DEF Subject
<1> QED
  BY <1>3, <1>4 DEF batch

\* A result is the provisional result of the match that was asked for.
LEMMA ParsedSays ==
    ASSUME NEW receipt, NEW parsed, parsed = Parse(receipt), ~Failed(parsed),
           parsed.result # Null
    PROVE  /\ parsed.result.finality = "provisional"
           /\ receipt.key.match # Null => Subject(parsed) = receipt.key.match
<1> DEFINE key == receipt.key
           doc == receipt.doc
<1>1. parsed = ParseDetail(key, doc)
  <2>1. \/ parsed = ParseSeasons(key, doc) \/ parsed = ParseSchedule(key, doc)
        \/ parsed = ParseDetail(key, doc)
    BY FailureFails DEF Parse
  <2>2. ASSUME parsed = ParseSeasons(key, doc) PROVE parsed.result = Null
    BY <2>2, FailureFails DEF ParseSeasons, Empty
  <2>3. ASSUME parsed = ParseSchedule(key, doc) PROVE parsed.result = Null
    <3>1. PICK games : parsed = SchedulePage(doc, games)
      BY <2>3 DEF ParseSchedule
    <3>2. parsed = BatchFromGames(Range(games))
      BY <3>1, FailureFails DEF SchedulePage
    <3> QED
      BY <3>2, PagesHaveNoResult
  <2> QED
    BY <2>1, <2>2, <2>3
<1>2. PICK game : game = ParseGameRow(key, doc.game)
  OBVIOUS
<1>3. PICK inner : inner = IF game.verified THEN ParseResult(doc.game)
                           ELSE [issue |-> Null, result |-> Null]
  OBVIOUS
<1>4. ~Failed(game) /\ parsed = AcceptedDetail(doc, game, inner)
  <2>1. parsed = DetailOf(doc, game, DetailFailures(doc, game))
    BY <1>1, <1>2 DEF ParseDetail, ParseGameDetail
  <2> QED
    BY <1>3, <2>1, FailureFails DEF DetailOf
<1>5. game.row = doc.game /\ key.match \in {Null, doc.game.match}
  BY <1>2, <1>4, GameRowSays
<1>6. PICK issues : parsed = DetailBatch(doc, game, inner, issues)
  BY <1>4 DEF AcceptedDetail
<1>7. parsed.result = inner.result
  BY <1>6 DEF DetailBatch, BatchFromGames, Empty
<1>8. game.verified /\ inner = ParseResult(doc.game)
  BY <1>3, <1>7
<1>9. parsed.result.finality = "provisional"
  BY <1>7, <1>8, ResultIsProvisional
<1>10. Subject(parsed) = doc.game.match
  BY <1>5, <1>6, <1>8, DetailSubject
<1> QED
  BY <1>5, <1>9, <1>10

\* Whatever can be read has these fields.
LEMMA ParsedFields ==
    ASSUME NEW receipt, NEW parsed, parsed = Parse(receipt), ~Failed(parsed)
    PROVE  {"result", "matches"} \subseteq DOMAIN parsed /\ {"raw", "at"} \cap DOMAIN parsed = {}
<1> DEFINE key == receipt.key
           doc == receipt.doc
<1>1. \/ parsed = ParseSeasons(key, doc) \/ parsed = ParseSchedule(key, doc)
      \/ parsed = ParseDetail(key, doc)
  BY FailureFails DEF Parse
<1>2. ASSUME parsed = ParseSeasons(key, doc) PROVE DOMAIN parsed = DOMAIN Empty
  BY <1>2, FailureFails DEF ParseSeasons
<1>3. ASSUME NEW games PROVE DOMAIN BatchFromGames(games) = DOMAIN Empty
  BY DEF BatchFromGames
<1>4. ASSUME parsed = ParseSchedule(key, doc) PROVE DOMAIN parsed = DOMAIN Empty
  <2>1. PICK games : parsed = SchedulePage(doc, games)
    BY <1>4 DEF ParseSchedule
  <2>2. parsed = BatchFromGames(Range(games))
    BY <2>1, FailureFails DEF SchedulePage
  <2> QED
    BY <1>3, <2>2
<1>5. ASSUME parsed = ParseDetail(key, doc) PROVE DOMAIN parsed = DOMAIN Empty
  <2>1. PICK game : parsed = DetailOf(doc, game, DetailFailures(doc, game))
    BY <1>5 DEF ParseDetail, ParseGameDetail
  <2>2. PICK inner : parsed = AcceptedDetail(doc, game, inner)
    BY <2>1, FailureFails DEF DetailOf
  <2>3. DOMAIN parsed = DOMAIN BatchFromGames({game})
    BY <2>2 DEF AcceptedDetail, DetailBatch
  <2> QED
    BY <1>3, <2>3
<1>6. DOMAIN Empty = {"seasons", "teams", "matches", "result", "players", "teamStats",
                      "playerStats", "coverage", "issues"}
  BY DEF Empty
<1> QED
  BY <1>1, <1>2, <1>4, <1>5, <1>6

\* So it is for the batch that is ingested, which adds the observation.
LEMMA BatchSays ==
    ASSUME NEW r, NEW batch, batch = BatchOf(r), ~Failed(batch)
    PROVE  /\ batch.raw = r
           /\ batch.at = receipts[r].at
           /\ batch.result # Null =>
                /\ batch.result.finality = "provisional"
                /\ receipts[r].key.match # Null => Subject(batch) = receipts[r].key.match
<1> PICK parsed : parsed = Parse(receipts[r])
  OBVIOUS
<1>1. batch = Sourced(parsed, r)
  BY DEF BatchOf
<1>2. ~Failed(parsed)
  BY <1>1 DEF Sourced
<1>3. batch = [f \in {"raw", "at"} \cup DOMAIN parsed |->
                IF f = "raw" THEN r ELSE IF f = "at" THEN receipts[r].at ELSE parsed[f]]
  BY <1>1, <1>2 DEF Sourced, Observed
<1>4. batch.raw = r /\ batch.at = receipts[r].at
  BY <1>3
<1>5. batch.result = parsed.result /\ batch.matches = parsed.matches
  BY <1>2, <1>3, ParsedFields
<1>6. Subject(batch) = Subject(parsed)
  BY <1>5 DEF Subject
<1> QED
  BY <1>2, <1>4, <1>5, <1>6, ParsedSays

-----------------------------------------------------------------------------
(* The inductive invariant.                                                *)

Phases == {"idle", "spacing", "sent", "stored", "persisting", "accepted", "cooling"}

\* A worker that still works on its page, and one that has a receipt of it.
Going == {"spacing", "sent", "stored", "persisting", "accepted"}
Holding == {"stored", "persisting", "accepted"}

WorkerFields == {"phase", "key", "cursor", "attempt", "raw", "seen", "base", "last", "ready"}
FactFields == {"identities", "schedules", "results", "rosters", "coverage"}

IsSequence(s) == s \in Seq({s[i] : i \in DOMAIN s})

\* The sync job asks for a lease of one slot (requested_concurrency, kovo.py).
SoundPlan(p) ==
    /\ p.mode \in {"sync", "backfill"}
    /\ p.limit \in Nat
    /\ p.interval \in Nat
    /\ p.mode = "sync" => p.limit <= 1

WorkerOK(u) ==
    /\ u = [f \in WorkerFields |-> u[f]]
    /\ u.phase \in Phases
    /\ u.last \in Nat \cup {Null}
    /\ u.phase # "idle" => u.key \in plan.keys

ControlOK ==
    /\ now \in Nat
    /\ SoundPlan(plan)
    /\ lease = [s \in 0..(plan.limit - 1) |-> lease[s]]
    /\ worker = [w \in Workers |-> worker[w]]
    /\ \A w \in Workers : WorkerOK(worker[w])
    /\ asked = [f \in {"at", "whole"} |-> asked[f]]
    /\ asked.at \in Nat \cup {Null}

TablesOK ==
    /\ IsSequence(receipts)
    /\ facts = [f \in FactFields |-> facts[f]]
    /\ IsSequence(facts.coverage)
    /\ facts.results = [m \in Matches |-> facts.results[m]]
    /\ \A m \in Matches : IsSequence(facts.results[m])

TypeOK == ControlOK /\ TablesOK

\* Who works has a slot.
Exclusive ==
    ~dropped =>
      \A w \in Workers : worker[w].phase # "idle" => \E s \in DOMAIN lease : lease[s] = w

\* The last request is an interval ago, or its worker has not rested since.
Spaced ==
    plan.mode = "sync" /\ ~dropped /\ asked.whole /\ asked.at # Null =>
      \/ now - asked.at >= plan.interval
      \/ \E w \in Workers : worker[w].phase # "idle" /\ worker[w].last = asked.at

\* A receipt of a page of what was asked for.
Fetched(r, key, cursor) ==
    \E a \in Answers :
      /\ a.key = key /\ a.page = PageNumber(key, cursor)
      /\ receipts[r].key = a.key /\ receipts[r].status = a.status /\ receipts[r].doc = a.doc

\* A receipt that has a result of a match.
Scores(r) == BatchOf(r).result # Null /\ Subject(BatchOf(r)) \in Matches

\* What a worker holds in each phase.
Holds(u) ==
    /\ u.phase \in Holding => u.raw \in DOMAIN receipts /\ Fetched(u.raw, u.key, u.cursor)
    /\ u.phase = "persisting" =>
         /\ ~Failed(BatchOf(u.raw))
         /\ Scores(u.raw) =>
              u.seen \in Nat /\ u.seen <= Len(facts.results[Subject(BatchOf(u.raw))])
    /\ u.phase = "accepted" => Taken(u.raw)

\* A backfill works on the page after those of the checkpoint it loaded.
Pages(u) ==
    plan.mode = "backfill" /\ u.phase \in Going =>
      u.base.pages \in Nat /\ u.base.generation = u.base.pages /\ u.cursor = u.base.pages

WorkersSound == \A w \in Workers : Holds(worker[w]) /\ Pages(worker[w])

\* Every page that the checkpoint counts was fetched and taken.
Counted ==
    /\ checkpoint.pages \in Nat
    /\ checkpoint.generation = checkpoint.pages
    /\ checkpoint.phase # "completed" => checkpoint.cursor = checkpoint.pages
    /\ plan.mode = "sync" => checkpoint.pages = 0
    /\ \A n \in 0..(checkpoint.pages - 1) :
         \E r \in DOMAIN receipts, key \in plan.keys : Taken(r) /\ Fetched(r, key, n)

\* Receipts are in the order of time, and everything else names one.
Recorded ==
    /\ \A r \in DOMAIN receipts : receipts[r].at \in Nat /\ receipts[r].at <= now
    /\ \A r, s \in DOMAIN receipts : r <= s => receipts[r].at <= receipts[s].at
    /\ \A i \in DOMAIN facts.coverage : facts.coverage[i].raw \in DOMAIN receipts
    /\ \A m \in Matches : \A k \in DOMAIN facts.results[m] :
         LET row == facts.results[m][k]
         IN  row.raw \in DOMAIN receipts /\ row.at = receipts[row.raw].at

\* How a row of a result follows from those before it.
Follows(rows, k) ==
    \/ /\ rows[k].finality = "provisional"
       /\ \A i \in 1..(k - 1) : rows[i].finality = "provisional"
    \/ /\ rows[k].finality = "final"
       /\ k > 1
       /\ rows[k - 1].finality = "provisional"
       /\ Score(rows[k]) = Score(rows[k - 1])
       /\ rows[k].at - rows[k - 1].at >= Stability
    \/ /\ rows[k].finality = "corrected"
       /\ \E i \in 1..(k - 1) : rows[i].finality = "final"
       /\ Score(rows[k]) # Score(rows[k - 1])

Chained ==
    \A m \in Matches : \A k \in DOMAIN facts.results[m] : Follows(facts.results[m], k)

\* A result that was accepted between two rows, or after the last one, says
\* what the earlier of them says.
Agrees(m, r, k) ==
    LET rows == facts.results[m]
    IN  (/\ rows[k].at < receipts[r].at
         /\ k < Len(rows) => receipts[r].at < rows[k + 1].at) =>
          Score(BatchOf(r).result) = Score(rows[k])

\* Nothing came after what a worker holds and what it read.
AtLatest(u) ==
    /\ u.phase \in Holding => u.raw = Len(receipts)
    /\ u.phase = "persisting" /\ Scores(u.raw) =>
         u.seen = Len(facts.results[Subject(BatchOf(u.raw))])

Agreed == \A m \in Matches : \A r \in Accepted(m) : \A k \in DOMAIN facts.results[m] :
            Agrees(m, r, k)

\* With one slot, nobody gets between an answer and its facts.
Ordered ==
    plan.limit <= 1 /\ ~dropped => (\A w \in Workers : AtLatest(worker[w])) /\ Agreed

IInv ==
    /\ TypeOK /\ Exclusive /\ Spaced /\ WorkersSound /\ Counted /\ Recorded /\ Chained /\ Ordered

-----------------------------------------------------------------------------
(* The tables only grow.                                                   *)

\* The smallest of a set of natural numbers is one of them.
LEMMA MinIsOne ==
    ASSUME NEW S \in SUBSET Nat, S # {}
    PROVE  Min(S) \in S /\ \A x \in S : Min(S) <= x
<1> DEFINE R == {ss \in Nat \X Nat : ss[1] < ss[2]}
<1>1. IsWellFoundedOn(R, Nat)
  BY NatLessThanWellFounded DEF OpToRel
<1>2. \E x \in S : \A y \in S : ~ (<<y, x>> \in R)
  <2> HIDE DEF R
  <2> QED
    BY <1>1, WFMin
<1>3. \E x \in S : \A y \in S : x <= y
  <2>1. PICK x \in S : \A y \in S : ~ (<<y, x>> \in R)
    BY <1>2
  <2>2. ASSUME NEW y \in S PROVE x <= y
    <3>1. <<y, x>> \in Nat \X Nat /\ ~ (<<y, x>> \in R)
      BY <2>1
    <3>2. ~ (y < x)
      BY <3>1
    <3> QED
      BY <3>2
  <2> QED
    BY <2>2
<1> QED
  BY <1>3 DEF Min

LEMMA LenIsNat ==
    ASSUME NEW s, IsSequence(s)
    PROVE  Len(s) \in Nat /\ DOMAIN s = 1..Len(s)
<1> DEFINE S == {s[i] : i \in DOMAIN s}
<1>1. s \in Seq(S)
  BY DEF IsSequence
<1> HIDE DEF S
<1> QED
  BY <1>1

\* The sequence t is s with e behind it.
Extends(t, s, e) ==
    /\ IsSequence(t)
    /\ Len(s) \in Nat
    /\ DOMAIN s = 1..Len(s)
    /\ Len(t) = Len(s) + 1
    /\ DOMAIN t = 1..(Len(s) + 1)
    /\ \A i \in DOMAIN s : t[i] = s[i]
    /\ t[Len(s) + 1] = e

LEMMA Appended ==
    ASSUME NEW s, IsSequence(s), NEW e
    PROVE  Extends(Append(s, e), s, e)
<1> PICK t : t = Append(s, e)
  OBVIOUS
<1> DEFINE S == {s[i] : i \in DOMAIN s}
<1>1. s \in Seq(S)
  BY DEF IsSequence
<1>2. S \subseteq S \cup {e}
  OBVIOUS
<1>3. s \in Seq(S \cup {e})
  <2> HIDE DEF S
  <2> QED
    BY <1>1, <1>2
<1>4. e \in S \cup {e}
  OBVIOUS
<1> HIDE DEF S
<1>5. /\ t \in Seq(S \cup {e})
      /\ Len(s) \in Nat
      /\ DOMAIN s = 1..Len(s)
      /\ Len(t) = Len(s) + 1
      /\ DOMAIN t = 1..(Len(s) + 1)
      /\ \A i \in DOMAIN s : t[i] = s[i]
      /\ t[Len(s) + 1] = e
  BY <1>3, <1>4
<1>6. IsSequence(t)
  <2>1. \A i \in 1..Len(t) : t[i] \in {t[j] : j \in DOMAIN t}
    BY <1>5
  <2> QED
    BY <1>5, <2>1 DEF IsSequence
<1> QED
  BY <1>5, <1>6 DEF Extends

Grown ==
    /\ UNCHANGED plan
    /\ \A r \in DOMAIN receipts : r \in DOMAIN receipts' /\ receipts'[r] = receipts[r]
    /\ \A i \in DOMAIN facts.coverage :
         i \in DOMAIN facts'.coverage /\ facts'.coverage[i] = facts.coverage[i]
    /\ \A m \in Matches :
         Len(facts'.results[m]) \in Nat /\ Len(facts.results[m]) <= Len(facts'.results[m])

LEMMA BatchStays ==
    ASSUME NEW r, receipts'[r] = receipts[r]
    PROVE  BatchOf(r)' = BatchOf(r)
BY DEF BatchOf, Sourced

LEMMA TakenStays ==
    ASSUME NEW r \in DOMAIN receipts, Grown
    PROVE  /\ Committed(r) => Committed(r)'
           /\ Taken(r) => Taken(r)'
<1>1. BatchOf(r)' = BatchOf(r)
  BY BatchStays DEF Grown
<1>2. Committed(r) => Committed(r)'
  BY <1>1 DEF Committed, Grown
<1> QED
  BY <1>1, <1>2 DEF Taken

LEMMA FetchedStays ==
    ASSUME NEW r \in DOMAIN receipts, Grown, NEW key, NEW cursor, Fetched(r, key, cursor)
    PROVE  Fetched(r, key, cursor)'
BY DEF Fetched, Grown

LEMMA HoldsStays ==
    ASSUME NEW u, Holds(u), Grown, TypeOK
    PROVE  Holds(u)'
<1>1. ASSUME u.phase \in Holding
      PROVE  /\ u.raw \in DOMAIN receipts /\ u.raw \in DOMAIN receipts'
             /\ BatchOf(u.raw)' = BatchOf(u.raw)
             /\ Fetched(u.raw, u.key, u.cursor)'
             /\ Taken(u.raw) => Taken(u.raw)'
  <2>1. u.raw \in DOMAIN receipts /\ Fetched(u.raw, u.key, u.cursor)
    BY <1>1 DEF Holds
  <2> QED
    BY <2>1, BatchStays, TakenStays, FetchedStays DEF Grown
<1>2. ASSUME u.phase = "persisting"
      PROVE  (~Failed(BatchOf(u.raw)) /\ (Scores(u.raw) =>
               u.seen \in Nat /\ u.seen <= Len(facts.results[Subject(BatchOf(u.raw))])))'
  <2>1. u.phase \in Holding
    BY <1>2 DEF Holding
  <2> PICK batch : batch = BatchOf(u.raw)
    OBVIOUS
  <2>2. ~Failed(batch) /\ (batch.result # Null /\ Subject(batch) \in Matches =>
               u.seen \in Nat /\ u.seen <= Len(facts.results[Subject(batch)]))
    BY <1>2 DEF Holds, Scores
  <2>3. batch.result # Null /\ Subject(batch) \in Matches =>
               u.seen \in Nat /\ u.seen <= Len(facts'.results[Subject(batch)])
    <3>1. ASSUME NEW m \in Matches
          PROVE  /\ Len(facts.results[m]) \in Nat /\ Len(facts'.results[m]) \in Nat
                 /\ Len(facts.results[m]) <= Len(facts'.results[m])
      BY LenIsNat DEF Grown, TypeOK, TablesOK
    <3> QED
      BY <2>2, <3>1
  <2>4. BatchOf(u.raw)' = batch
    BY <1>1, <2>1
  <2> QED
    BY <2>2, <2>3, <2>4 DEF Scores
<1>3. u.phase = "accepted" => u.phase \in Holding
  BY DEF Holding
<1>4. (u.phase \in Holding => u.raw \in DOMAIN receipts /\ Fetched(u.raw, u.key, u.cursor))'
  BY <1>1
<1>5. (u.phase = "accepted" => Taken(u.raw))'
  BY <1>1, <1>3 DEF Holds
<1> QED
  BY <1>2, <1>4, <1>5 DEF Holds

LEMMA PagesStay ==
    ASSUME NEW u, Pages(u), UNCHANGED plan
    PROVE  Pages(u)'
BY DEF Pages

-----------------------------------------------------------------------------
(* One worker moves.                                                       *)

\* Worker w goes on with its page: what its lease and its limiter look at
\* stays.
GoesOn(w, new) ==
    /\ worker[w].phase # "idle"
    /\ worker' = [worker EXCEPT ![w] = new]
    /\ new = [f \in WorkerFields |-> new[f]]
    /\ new.phase \in Phases \ {"idle"}
    /\ new.key = worker[w].key
    /\ new.last = worker[w].last
    /\ UNCHANGED <<now, plan, lease, asked, dropped>>

LEMMA GoesOnControl ==
    ASSUME IInv, NEW w \in Workers, NEW new, GoesOn(w, new)
    PROVE  ControlOK' /\ Exclusive' /\ Spaced'
<1>1. /\ worker' = [v \in Workers |-> worker'[v]]
      /\ worker'[w] = new
      /\ \A v \in Workers \ {w} : worker'[v] = worker[v]
  BY DEF IInv, TypeOK, ControlOK, GoesOn
<1>2. WorkerOK(worker[w])
  BY DEF IInv, TypeOK, ControlOK
<1>3. ASSUME NEW v \in Workers
      PROVE  /\ WorkerOK(worker'[v])
             /\ worker'[v].phase # "idle" <=> worker[v].phase # "idle"
             /\ worker'[v].last = worker[v].last
  <2>1. CASE v = w
    BY <1>1, <1>2, <2>1 DEF WorkerOK, GoesOn
  <2>2. CASE v # w
    BY <1>1, <2>2 DEF IInv, TypeOK, ControlOK
  <2> QED
    BY <2>1, <2>2
<1>4. \A v \in Workers : WorkerOK(worker[v])'
  BY <1>3 DEF WorkerOK, GoesOn
<1>5. ControlOK'
  BY <1>1, <1>4 DEF IInv, TypeOK, ControlOK, GoesOn
<1>6. Exclusive'
  BY <1>3 DEF IInv, Exclusive, GoesOn
<1>7. Spaced'
  BY <1>3 DEF IInv, Spaced, GoesOn
<1> QED
  BY <1>5, <1>6, <1>7

\* The workers are sound when the one that moved is.
LEMMA WorkersStay ==
    ASSUME IInv, Grown, NEW w \in Workers, NEW new,
           worker' = [worker EXCEPT ![w] = new], Holds(new)', Pages(new)'
    PROVE  WorkersSound'
<1>1. worker'[w] = new /\ \A v \in Workers \ {w} : worker'[v] = worker[v]
  BY DEF IInv, TypeOK, ControlOK
<1>2. ASSUME NEW v \in Workers PROVE (Holds(worker[v]) /\ Pages(worker[v]))'
  <2> PICK u : u = worker'[v]
    OBVIOUS
  <2>1. CASE v = w
    BY <1>1, <2>1 DEF Holds, Pages
  <2>2. CASE v # w
    <3>1. u = worker[v] /\ Holds(u) /\ Pages(u)
      BY <1>1, <2>2 DEF IInv, WorkersSound
    <3>2. Holds(u)' /\ Pages(u)'
      BY <3>1, HoldsStays, PagesStay DEF IInv, Grown
    <3> QED
      BY <3>2 DEF Holds, Pages
  <2> QED
    BY <2>1, <2>2
<1> QED
  BY <1>2 DEF WorkersSound

\* A page that was counted stays counted.
LEMMA CountedStays ==
    ASSUME IInv, Grown, UNCHANGED checkpoint
    PROVE  Counted'
<1>1. ASSUME NEW n \in 0..(checkpoint.pages - 1)
      PROVE  \E r \in DOMAIN receipts', key \in plan'.keys : (Taken(r) /\ Fetched(r, key, n))'
  <2>1. PICK r \in DOMAIN receipts, key \in plan.keys : Taken(r) /\ Fetched(r, key, n)
    BY DEF IInv, Counted
  <2>2. Taken(r)' /\ Fetched(r, key, n)'
    BY <2>1, TakenStays, FetchedStays
  <2> QED
    BY <2>2 DEF Grown
<1> QED
  BY <1>1 DEF IInv, Counted, Grown

\* Steps that write no table.
LEMMA UnchangedIsGrown ==
    ASSUME TypeOK, UNCHANGED <<plan, receipts, facts>>
    PROVE  Grown
<1>1. \A m \in Matches : Len(facts.results[m]) \in Nat
  BY LenIsNat DEF TypeOK, TablesOK
<1> QED
  BY <1>1 DEF Grown

LEMMA TablesStay ==
    ASSUME IInv, UNCHANGED <<receipts, facts>>, now' \in Nat, now' >= now
    PROVE  TablesOK' /\ Recorded' /\ Chained'
<1>1. TablesOK'
  BY DEF IInv, TypeOK, TablesOK
<1>2. Recorded'
  BY DEF IInv, TypeOK, ControlOK, Recorded
<1>3. Chained'
  BY DEF IInv, Chained
<1> QED
  BY <1>1, <1>2, <1>3

LEMMA AgreedStays ==
    ASSUME UNCHANGED <<receipts, facts>>
    PROVE  (\A u : AtLatest(u)' <=> AtLatest(u)) /\ (Agreed' <=> Agreed)
<1>1. \A r : BatchOf(r)' = BatchOf(r)
  BY DEF BatchOf, Sourced
<1>2. \A r : Committed(r)' <=> Committed(r)
  BY <1>1 DEF Committed
<1>3. ASSUME NEW m PROVE Accepted(m)' = Accepted(m)
  BY <1>1, <1>2 DEF Accepted
<1>4. ASSUME NEW m, NEW r, NEW k PROVE Agrees(m, r, k)' <=> Agrees(m, r, k)
  BY <1>1 DEF Agrees
<1>5. Agreed' <=> Agreed
  BY <1>3, <1>4 DEF Agreed
<1>6. ASSUME NEW u PROVE AtLatest(u)' <=> AtLatest(u)
  <2>1. BatchOf(u.raw)' = BatchOf(u.raw)
    BY <1>1
  <2> QED
    BY <2>1 DEF AtLatest, Scores
<1> QED
  BY <1>5, <1>6

\* A step of one worker that writes no table of the mirror.
LEMMA QuietStep ==
    ASSUME IInv, NEW w \in Workers, NEW new,
           worker' = [worker EXCEPT ![w] = new],
           UNCHANGED <<now, plan, receipts, facts>>, UNCHANGED checkpoint \/ Counted',
           ControlOK', Exclusive', Spaced',
           Holds(new), Pages(new),
           dropped => dropped',
           plan.limit <= 1 /\ ~dropped => AtLatest(new)
    PROVE  IInv'
<1>1. Grown
  BY UnchangedIsGrown DEF IInv
<1>2. WorkersSound'
  <2>1. Holds(new)' /\ Pages(new)'
    BY <1>1, HoldsStays, PagesStay DEF IInv
  <2> QED
    BY <1>1, <2>1, WorkersStay
<1>3. Counted'
  BY <1>1, CountedStays
<1>4. TablesOK' /\ Recorded' /\ Chained'
  <2>1. now' \in Nat /\ now' >= now
    BY DEF IInv, TypeOK, ControlOK
  <2> QED
    BY <2>1, TablesStay
<1>5. Ordered'
  <2> SUFFICES ASSUME plan.limit <= 1, ~dropped
               PROVE  (\A v \in Workers : AtLatest(worker[v])') /\ Agreed'
    BY DEF Ordered
  <2>1. (\A v \in Workers : AtLatest(worker[v])) /\ Agreed
    BY DEF IInv, Ordered
  <2>2. ASSUME NEW v \in Workers PROVE AtLatest(worker[v])'
    <3> PICK u : u = worker'[v]
      OBVIOUS
    <3>1. u = worker[v] \/ u = new
      BY DEF IInv, TypeOK, ControlOK
    <3>2. AtLatest(u)'
      BY <2>1, <3>1, AgreedStays
    <3> QED
      BY <3>2 DEF AtLatest
  <2> QED
    BY <2>1, <2>2, AgreedStays
<1> QED
  BY <1>2, <1>3, <1>4, <1>5 DEF IInv, TypeOK

LEMMA OfOne ==
    ASSUME IInv, NEW w \in Workers
    PROVE  /\ WorkerOK(worker[w])
           /\ Holds(worker[w])
           /\ Pages(worker[w])
           /\ plan.limit <= 1 /\ ~dropped => AtLatest(worker[w])
BY DEF IInv, TypeOK, ControlOK, WorkersSound, Ordered

\* One that goes on and holds no receipt.
LEMMA QuietlyOn ==
    ASSUME IInv, NEW w \in Workers, NEW new, GoesOn(w, new),
           UNCHANGED <<receipts, facts, checkpoint>>,
           new.phase \notin Holding, Pages(new)
    PROVE  IInv'
<1>1. Holds(new)
  BY DEF Holds, Holding
<1>2. AtLatest(new)
  BY DEF AtLatest, Holding
<1>3. ControlOK' /\ Exclusive' /\ Spaced'
  BY GoesOnControl
<1> QED
  BY <1>1, <1>2, <1>3, QuietStep DEF GoesOn

-----------------------------------------------------------------------------
(* The steps.                                                              *)

LEMMA InitIInv ==
    ASSUME NEW plans, \A p \in plans : SoundPlan(p), SyncInit(plans)
    PROVE  IInv
<1>1. SoundPlan(plan) /\ \A w \in Workers : worker[w] = Idle
  BY DEF SyncInit
<1>2. Idle.phase = "idle" /\ Idle.last = Null /\ Idle = [f \in WorkerFields |-> Idle[f]]
  BY DEF Idle, WorkerFields
<1>3. ControlOK
  BY <1>1, <1>2 DEF SyncInit, ControlOK, WorkerOK, Phases
<1>4. facts.results = [m \in Matches |-> <<>>] /\ facts.coverage = <<>>
      /\ facts = [f \in FactFields |-> facts[f]]
  BY DEF SyncInit, InitMirror, NoFacts, FactFields
<1>5. IsSequence(<<>>)
  BY DEF IsSequence
<1>6. TablesOK
  BY <1>4, <1>5 DEF SyncInit, InitMirror, TablesOK
<1>7. Exclusive /\ Spaced
  BY <1>1, <1>2 DEF Exclusive, Spaced, SyncInit
<1>8. WorkersSound
  BY <1>1, <1>2 DEF WorkersSound, Holds, Pages, Holding, Going
<1>9. Counted
  BY DEF SyncInit, NoCheckpoint, Counted
<1>10. Recorded /\ Chained /\ Ordered
  BY <1>1, <1>2, <1>4 DEF SyncInit, InitMirror, Recorded, Chained, Ordered, AtLatest, Agreed, Holding
<1> QED
  BY <1>3, <1>6, <1>7, <1>8, <1>9, <1>10 DEF IInv, TypeOK

LEMMA TickStep ==
    ASSUME IInv, Tick
    PROVE  IInv'
<1>1. now \in Nat /\ now' = now + 1 /\ UNCHANGED plan
  BY DEF Tick, IInv, TypeOK, ControlOK
<1>2. ControlOK'
  BY <1>1 DEF Tick, IInv, TypeOK, ControlOK, WorkerOK
<1>3. Exclusive'
  BY DEF Tick, IInv, Exclusive
<1>4. Spaced'
  BY <1>1 DEF Tick, IInv, Spaced, TypeOK, ControlOK, SoundPlan
<1>5. Grown
  BY <1>1, UnchangedIsGrown DEF Tick, IInv
<1>6. TablesOK' /\ Recorded' /\ Chained'
  <2>1. now' \in Nat /\ now' >= now
    BY <1>1
  <2> QED
    BY <2>1, TablesStay DEF Tick
<1>7. Counted'
  BY <1>5, CountedStays DEF Tick
<1>8. ASSUME NEW w \in Workers
      PROVE  /\ Holds(worker[w])' /\ Pages(worker[w])'
             /\ plan.limit <= 1 /\ ~dropped => AtLatest(worker[w])'
  <2> PICK u : u = worker[w]
    OBVIOUS
  <2>1. Holds(u) /\ Pages(u) /\ (plan.limit <= 1 /\ ~dropped => AtLatest(u))
    BY OfOne
  <2>2. Holds(u)' /\ Pages(u)' /\ (plan.limit <= 1 /\ ~dropped => AtLatest(u)')
    BY <1>1, <1>5, <2>1, HoldsStays, PagesStay, AgreedStays DEF Tick, IInv
  <2> QED
    BY <2>2 DEF Tick, Holds, Pages, AtLatest
<1>9. WorkersSound' /\ Ordered'
  BY <1>1, <1>8, AgreedStays DEF Tick, WorkersSound, Ordered, IInv
<1> QED
  BY <1>2, <1>3, <1>4, <1>6, <1>7, <1>9 DEF IInv, TypeOK

LEMMA LeaseStep ==
    ASSUME IInv, NEW w \in Workers, NEW key \in plan.keys, Lease(w, key)
    PROVE  IInv'
<1> PICK u : u = worker[w]
  OBVIOUS
<1> PICK new : new = [u EXCEPT !.phase = "spacing", !.key = key, !.attempt = 1,
                               !.base = checkpoint,
                               !.cursor = IF plan.mode = "backfill" THEN checkpoint.cursor ELSE 0,
                               !.ready = ReadyAt(w)]
  OBVIOUS
<1>1. WorkerOK(u) /\ u.phase = "idle"
  BY OfOne DEF Lease
<1>2. worker' = [worker EXCEPT ![w] = new]
  BY DEF Lease, IInv, TypeOK, ControlOK
<1>3. PICK slot \in FreeSlots : lease' = [lease EXCEPT ![slot] = w]
  <2>1. FreeSlots # {} /\ lease' = [lease EXCEPT ![Min(FreeSlots)] = w]
    BY DEF Lease, FirstFree
  <2>2. FreeSlots \in SUBSET Nat
    BY DEF FreeSlots, IInv, TypeOK, ControlOK
  <2> QED
    BY <2>1, <2>2, MinIsOne
<1>4. /\ new = [f \in WorkerFields |-> new[f]]
      /\ new.phase = "spacing" /\ new.key = key /\ new.last = u.last /\ new.base = checkpoint
      /\ plan.mode = "backfill" => new.cursor = checkpoint.cursor
  BY <1>1 DEF WorkerOK, WorkerFields
<1>5. ControlOK'
  <2>1. WorkerOK(new)'
    BY <1>1, <1>4 DEF WorkerOK, Phases, Lease
  <2>2. ASSUME NEW v \in Workers PROVE WorkerOK(worker[v])'
    <3>1. WorkerOK(worker[v])
      BY OfOne
    <3> QED
      BY <1>2, <2>1, <3>1 DEF IInv, TypeOK, ControlOK, WorkerOK, Lease
  <2>3. lease' = [s \in 0..(plan'.limit - 1) |-> lease'[s]]
    BY <1>3 DEF IInv, TypeOK, ControlOK, Lease
  <2> QED
    BY <1>2, <2>2, <2>3 DEF IInv, TypeOK, ControlOK, Lease
<1>6. Exclusive'
  <2> SUFFICES ASSUME ~dropped, NEW v \in Workers, worker'[v].phase # "idle"
               PROVE  \E s \in DOMAIN lease' : lease'[s] = v
    BY DEF Exclusive, Lease
  <2>1. CASE v = w
    BY <1>3, <2>1 DEF FreeSlots
  <2>2. CASE v # w
    <3>1. worker'[v] = worker[v]
      BY <1>2, <2>2 DEF IInv, TypeOK, ControlOK
    <3>2. PICK s \in DOMAIN lease : lease[s] = v
      BY <3>1 DEF IInv, Exclusive
    <3> QED
      BY <1>3, <3>2, CommonsAssumption DEF FreeSlots
  <2> QED
    BY <2>1, <2>2
<1>7. Spaced'
  <2>1. \A v \in Workers : worker[v].phase # "idle" => worker'[v] = worker[v]
    BY <1>1, <1>2 DEF IInv, TypeOK, ControlOK
  <2> QED
    BY <2>1 DEF IInv, Spaced, Lease
<1>8. Holds(new) /\ AtLatest(new)
  BY <1>4 DEF Holds, AtLatest, Holding
<1>9. Pages(new)
  BY <1>4 DEF Pages, IInv, Counted, Lease
<1> QED
  BY <1>2, <1>5, <1>6, <1>7, <1>8, <1>9, QuietStep DEF Lease

LEMMA RequestStep ==
    ASSUME IInv, NEW w \in Workers, Request(w)
    PROVE  IInv'
<1> PICK u : u = worker[w]
  OBVIOUS
<1> PICK new : new = [u EXCEPT !.phase = "sent", !.last = now]
  OBVIOUS
<1>1. WorkerOK(u) /\ u.phase = "spacing" /\ Pages(u)
  BY OfOne DEF Request
<1>2. worker' = [worker EXCEPT ![w] = new]
  BY DEF Request, IInv, TypeOK, ControlOK
<1>3. /\ new = [f \in WorkerFields |-> new[f]]
      /\ new.phase = "sent" /\ new.key = u.key /\ new.last = now
      /\ new.base = u.base /\ new.cursor = u.cursor
  BY <1>1 DEF WorkerOK, WorkerFields
<1>4. ControlOK'
  <2>1. WorkerOK(new)'
    BY <1>1, <1>3 DEF WorkerOK, Phases, Request, IInv, TypeOK, ControlOK
  <2>2. ASSUME NEW v \in Workers PROVE WorkerOK(worker[v])'
    <3>1. WorkerOK(worker[v])
      BY OfOne
    <3> QED
      BY <1>2, <2>1, <3>1 DEF IInv, TypeOK, ControlOK, WorkerOK, Request
  <2>3. asked' = [f \in {"at", "whole"} |-> asked'[f]] /\ asked'.at \in Nat \cup {Null}
    BY DEF IInv, TypeOK, ControlOK, Request
  <2> QED
    BY <1>2, <2>2, <2>3 DEF IInv, TypeOK, ControlOK, Request
<1>5. Exclusive'
  BY <1>1, <1>2 DEF IInv, TypeOK, ControlOK, Exclusive, Request
<1>6. Spaced'
  BY <1>2, <1>3 DEF IInv, TypeOK, ControlOK, Spaced, Request
<1>7. Holds(new) /\ AtLatest(new)
  BY <1>3 DEF Holds, AtLatest, Holding
<1>8. Pages(new)
  BY <1>1, <1>3 DEF Pages, Going
<1> QED
  BY <1>2, <1>4, <1>5, <1>6, <1>7, <1>8, QuietStep DEF Request

LEMMA AbandonStep ==
    ASSUME IInv, NEW w \in Workers, Abandon(w)
    PROVE  IInv'
<1> PICK u : u = worker[w]
  OBVIOUS
<1> PICK new : new = [u EXCEPT !.phase = "cooling"]
  OBVIOUS
<1>1. WorkerOK(u) /\ u.phase = "spacing"
  BY OfOne DEF Abandon
<1>2. worker' = [worker EXCEPT ![w] = new]
  BY DEF Abandon, IInv, TypeOK, ControlOK
<1>3. /\ new = [f \in WorkerFields |-> new[f]]
      /\ new.phase = "cooling" /\ new.key = u.key /\ new.last = u.last
  BY <1>1 DEF WorkerOK, WorkerFields
<1>4. GoesOn(w, new)
  BY <1>1, <1>2, <1>3 DEF GoesOn, Phases, Abandon
<1>5. new.phase \notin Holding /\ Pages(new)
  BY <1>3 DEF Holding, Pages, Going
<1> QED
  BY <1>4, <1>5, QuietlyOn DEF Abandon

\* Another attempt, or none.
LEMMA RetriesSays ==
    ASSUME IInv, NEW w \in Workers, Retries(w), worker[w].phase \in {"sent", "stored"},
           UNCHANGED <<now, plan, lease, asked, dropped>>
    PROVE  \E new : GoesOn(w, new) /\ new.phase \notin Holding /\ Pages(new)
<1> PICK u : u = worker[w]
  OBVIOUS
<1> PICK phase : phase = RetryPhase(w)
  OBVIOUS
<1> PICK attempt : attempt = u.attempt + 1
  OBVIOUS
<1> PICK none : none = 0
  OBVIOUS
<1> PICK new : new = [u EXCEPT !.phase = phase, !.attempt = attempt, !.raw = none]
  OBVIOUS
<1>1. WorkerOK(u) /\ Pages(u) /\ u.phase \in {"sent", "stored"}
  BY OfOne
<1>2. worker' = [worker EXCEPT ![w] = new]
  BY DEF Retries, IInv, TypeOK, ControlOK
<1>3. /\ new = [f \in WorkerFields |-> new[f]]
      /\ new.phase = phase /\ new.key = u.key /\ new.last = u.last
      /\ new.base = u.base /\ new.cursor = u.cursor
  BY <1>1 DEF WorkerOK, WorkerFields
<1>4. phase \in {"spacing", "cooling"}
  BY DEF RetryPhase
<1>5. GoesOn(w, new)
  BY <1>1, <1>2, <1>3, <1>4 DEF GoesOn, Phases
<1>6. new.phase \notin Holding /\ Pages(new)
  BY <1>1, <1>3, <1>4 DEF Holding, Pages, Going
<1> QED
  BY <1>5, <1>6

LEMMA UnansweredStep ==
    ASSUME IInv, NEW w \in Workers, Unanswered(w)
    PROVE  IInv'
BY RetriesSays, QuietlyOn DEF Unanswered

LEMMA BusyStep ==
    ASSUME IInv, NEW w \in Workers, Busy(w)
    PROVE  IInv'
BY RetriesSays, QuietlyOn DEF Busy

\* Whose slot is not freed keeps it.
LEMMA FreedKeeps ==
    ASSUME IInv, NEW w \in Workers, lease' = Freed(w), UNCHANGED plan
    PROVE  /\ lease' = [s \in 0..(plan'.limit - 1) |-> lease'[s]]
           /\ \A v \in Workers \ {w} : (\E s \in DOMAIN lease : lease[s] = v) =>
                                          \E s \in DOMAIN lease' : lease'[s] = v
BY DEF Freed, IInv, TypeOK, ControlOK

LEMMA ReleaseStep ==
    ASSUME IInv, NEW w \in Workers, Release(w)
    PROVE  IInv'
<1> PICK u : u = worker[w]
  OBVIOUS
<1> PICK new : new = [Idle EXCEPT !.last = u.last]
  OBVIOUS
<1>1. WorkerOK(u) /\ u.phase = "cooling"
  BY OfOne DEF Release
<1>2. worker' = [worker EXCEPT ![w] = new]
  BY DEF Release, IInv, TypeOK, ControlOK
<1>3. new = [f \in WorkerFields |-> new[f]] /\ new.phase = "idle" /\ new.last = u.last
  BY DEF Idle, WorkerFields
<1>4. worker'[w] = new /\ \A v \in Workers \ {w} : worker'[v] = worker[v]
  BY <1>2 DEF IInv, TypeOK, ControlOK
<1>5. ControlOK'
  <2>1. WorkerOK(new)'
    BY <1>1, <1>3 DEF WorkerOK, Phases
  <2>2. ASSUME NEW v \in Workers PROVE WorkerOK(worker[v])'
    <3>1. WorkerOK(worker[v])
      BY OfOne
    <3> QED
      BY <1>4, <2>1, <3>1 DEF WorkerOK, Release
  <2>3. lease' = [s \in 0..(plan'.limit - 1) |-> lease'[s]]
    BY FreedKeeps DEF Release
  <2> QED
    BY <1>2, <2>2, <2>3 DEF IInv, TypeOK, ControlOK, Release
<1>6. Exclusive'
  <2>1. \A v \in Workers \ {w} : (\E s \in DOMAIN lease : lease[s] = v) =>
                                      \E s \in DOMAIN lease' : lease'[s] = v
    BY FreedKeeps DEF Release
  <2> QED
    BY <1>3, <1>4, <2>1 DEF IInv, Exclusive, Release
<1>7. Spaced'
  <2> SUFFICES ASSUME plan.mode = "sync", ~dropped, asked.whole, asked.at # Null
               PROVE  \/ now - asked.at >= plan.interval
                      \/ \E v \in Workers : worker'[v].phase # "idle" /\ worker'[v].last = asked.at
    BY DEF Spaced, Release
  <2>1. CASE now - asked.at >= plan.interval
    BY <2>1
  <2>2. CASE \E v \in Workers : worker[v].phase # "idle" /\ worker[v].last = asked.at
    <3>1. PICK v \in Workers : worker[v].phase # "idle" /\ worker[v].last = asked.at
      BY <2>2
    <3>2. CASE v = w
      BY <3>1, <3>2 DEF Release, Rested, SinceOwn
    <3>3. CASE v # w
      BY <1>4, <3>1, <3>3
    <3> QED
      BY <3>2, <3>3
  <2> QED
    BY <2>1, <2>2 DEF IInv, Spaced
<1>8. Holds(new) /\ AtLatest(new) /\ Pages(new)
  BY <1>3 DEF Holds, AtLatest, Pages, Holding, Going
<1> QED
  BY <1>2, <1>5, <1>6, <1>7, <1>8, QuietStep DEF Release

LEMMA CrashStep ==
    ASSUME IInv, NEW w \in Workers, Crash(w)
    PROVE  IInv'
<1>1. Idle.phase = "idle" /\ Idle.last = Null /\ Idle = [f \in WorkerFields |-> Idle[f]]
  BY DEF Idle, WorkerFields
<1>2. worker'[w] = Idle /\ \A v \in Workers \ {w} : worker'[v] = worker[v]
  BY DEF Crash, IInv, TypeOK, ControlOK
<1>3. ControlOK'
  <2>1. WorkerOK(Idle)'
    BY <1>1 DEF WorkerOK, Phases
  <2>2. ASSUME NEW v \in Workers PROVE WorkerOK(worker[v])'
    <3>1. WorkerOK(worker[v])
      BY OfOne
    <3> QED
      BY <1>2, <2>1, <3>1 DEF WorkerOK, Crash, EndSession
  <2>3. lease' = [s \in 0..(plan'.limit - 1) |-> lease'[s]]
    BY FreedKeeps DEF Crash, EndSession
  <2> QED
    BY <2>2, <2>3 DEF IInv, TypeOK, ControlOK, Crash, EndSession
<1>4. Exclusive'
  BY <1>1, <1>2, FreedKeeps DEF IInv, Exclusive, Crash, EndSession
<1>5. Spaced'
  BY DEF Spaced, Crash, IInv, TypeOK, ControlOK
<1>6. Holds(Idle) /\ AtLatest(Idle) /\ Pages(Idle)
  BY <1>1 DEF Holds, AtLatest, Pages, Holding, Going
<1> QED
  BY <1>3, <1>4, <1>5, <1>6, QuietStep DEF Crash, EndSession

LEMMA LoseSessionStep ==
    ASSUME IInv, NEW w \in Workers, LoseSession(w)
    PROVE  IInv'
<1>1. worker' = [worker EXCEPT ![w] = worker[w]]
  BY DEF LoseSession, IInv, TypeOK, ControlOK
<1>2. ControlOK'
  <2>1. lease' = [s \in 0..(plan'.limit - 1) |-> lease'[s]]
    BY FreedKeeps DEF LoseSession, EndSession
  <2> QED
    BY <2>1 DEF IInv, TypeOK, ControlOK, WorkerOK, LoseSession, EndSession
<1>3. Exclusive' /\ Spaced'
  BY DEF Exclusive, Spaced, LoseSession
<1>4. Holds(worker[w]) /\ Pages(worker[w]) /\ (plan.limit <= 1 /\ ~dropped => AtLatest(worker[w]))
  BY OfOne
<1> PICK u : u = worker[w]
  OBVIOUS
<1> QED
  BY <1>1, <1>2, <1>3, <1>4, QuietStep DEF LoseSession, EndSession

LEMMA BeginPersistStep ==
    ASSUME IInv, NEW w \in Workers, BeginPersist(w)
    PROVE  IInv'
<1> PICK u : u = worker[w]
  OBVIOUS
<1> PICK batch : batch = BatchOf(u.raw)
  OBVIOUS
<1> PICK count : count = IF batch.result = Null THEN 0 ELSE Len(facts.results[Subject(batch)])
  OBVIOUS
<1> PICK new : new = [u EXCEPT !.phase = "persisting", !.seen = count]
  OBVIOUS
<1>1. /\ WorkerOK(u) /\ Holds(u) /\ Pages(u) /\ (plan.limit <= 1 /\ ~dropped => AtLatest(u))
      /\ u.phase = "stored"
  BY OfOne DEF BeginPersist
<1>2. worker' = [worker EXCEPT ![w] = new] /\ ~Failed(batch)
  BY DEF BeginPersist, IInv, TypeOK, ControlOK
<1>3. /\ new = [f \in WorkerFields |-> new[f]]
      /\ new.phase = "persisting" /\ new.key = u.key /\ new.last = u.last
      /\ new.base = u.base /\ new.cursor = u.cursor /\ new.raw = u.raw /\ new.seen = count
  BY <1>1 DEF WorkerOK, WorkerFields
<1>4. GoesOn(w, new)
  BY <1>1, <1>2, <1>3 DEF GoesOn, Phases, BeginPersist
<1>5. ControlOK' /\ Exclusive' /\ Spaced'
  BY <1>4, GoesOnControl
<1>6. Scores(u.raw) => count = Len(facts.results[Subject(batch)]) /\ count \in Nat
  BY LenIsNat DEF Scores, IInv, TypeOK, TablesOK
<1>7. Holds(new)
  BY <1>1, <1>2, <1>3, <1>6 DEF Holds, Holding
<1>8. Pages(new)
  BY <1>1, <1>3 DEF Pages, Going
<1>9. plan.limit <= 1 /\ ~dropped => AtLatest(new)
  BY <1>1, <1>3, <1>6 DEF AtLatest, Holding
<1> QED
  BY <1>2, <1>5, <1>7, <1>8, <1>9, QuietStep DEF BeginPersist

\* A worker that turns its page.
LEMMA TurnedSays ==
    ASSUME NEW w \in Workers, WorkerOK(worker[w]), NEW cursor, NEW new, new = Turned(w, cursor)
    PROVE  /\ new = [f \in WorkerFields |-> new[f]]
           /\ new.key = worker[w].key /\ new.last = worker[w].last /\ new.base = worker[w].base
           /\ cursor = Null => new.phase = "cooling"
           /\ cursor # Null => new.phase = "spacing" /\ new.cursor = cursor
<1> PICK u : u = worker[w]
  OBVIOUS
<1> PICK phase : phase = IF cursor = Null THEN "cooling" ELSE "spacing"
  OBVIOUS
<1> PICK page : page = IF cursor = Null THEN u.cursor ELSE cursor
  OBVIOUS
<1> PICK one, none : one = 1 /\ none = 0
  OBVIOUS
<1>1. new = [u EXCEPT !.phase = phase, !.cursor = page, !.attempt = one, !.raw = none,
                      !.seen = none]
  BY DEF Turned, WorkerOK, WorkerFields
<1>2. /\ new = [f \in WorkerFields |-> new[f]]
      /\ new.phase = phase /\ new.cursor = page
      /\ new.key = u.key /\ new.last = u.last /\ new.base = u.base
  BY <1>1 DEF WorkerOK, WorkerFields
<1> QED
  BY <1>2

LEMMA TurnPageStep ==
    ASSUME IInv, NEW w \in Workers, TurnPage(w)
    PROVE  IInv'
<1> PICK cursor : cursor = NextCursor(receipts[worker[w].raw], worker[w].cursor)
  OBVIOUS
<1> PICK new : new = Turned(w, cursor)
  OBVIOUS
<1>1. WorkerOK(worker[w]) /\ worker[w].phase = "accepted" /\ plan.mode = "sync"
  BY OfOne DEF TurnPage
<1>2. worker' = [worker EXCEPT ![w] = new]
  BY DEF TurnPage
<1>3. /\ new = [f \in WorkerFields |-> new[f]]
      /\ new.key = worker[w].key /\ new.last = worker[w].last
      /\ new.phase \in {"cooling", "spacing"}
  BY <1>1, TurnedSays
<1>4. GoesOn(w, new)
  BY <1>1, <1>2, <1>3 DEF GoesOn, Phases, TurnPage
<1>5. new.phase \notin Holding /\ Pages(new)
  BY <1>1, <1>3 DEF Holding, Pages
<1> QED
  BY <1>4, <1>5, QuietlyOn DEF TurnPage

\* Somebody else moved the checkpoint.
LEMMA OvertakenStep ==
    ASSUME IInv, NEW w \in Workers, worker[w].phase = "accepted",
           worker' = [worker EXCEPT ![w].phase = "cooling"],
           UNCHANGED <<receipts, facts, now, plan, lease, checkpoint, asked, dropped, faults>>
    PROVE  IInv'
<1> PICK u : u = worker[w]
  OBVIOUS
<1> PICK new : new = [u EXCEPT !.phase = "cooling"]
  OBVIOUS
<1>1. WorkerOK(u)
  BY OfOne
<1>2. worker' = [worker EXCEPT ![w] = new]
  BY DEF IInv, TypeOK, ControlOK
<1>3. /\ new = [f \in WorkerFields |-> new[f]]
      /\ new.phase = "cooling" /\ new.key = u.key /\ new.last = u.last
  BY <1>1 DEF WorkerOK, WorkerFields
<1>4. GoesOn(w, new)
  BY <1>2, <1>3 DEF GoesOn, Phases
<1>5. new.phase \notin Holding /\ Pages(new)
  BY <1>3 DEF Holding, Pages, Going
<1> QED
  BY <1>4, <1>5, QuietlyOn

\* The page that is counted is the one that the worker fetched and took.
LEMMA AdvanceStep ==
    ASSUME IInv, NEW w \in Workers, worker[w].phase = "accepted", plan.mode = "backfill",
           worker[w].base.generation = checkpoint.generation,
           NEW cursor, cursor = NextCursor(receipts[worker[w].raw], worker[w].cursor),
           checkpoint' = Advanced(worker[w].base, cursor),
           worker' = [worker EXCEPT ![w] =
                        [Turned(w, cursor) EXCEPT !.base = Advanced(worker[w].base, cursor)]],
           UNCHANGED <<receipts, facts, now, plan, lease, asked, dropped, faults>>
    PROVE  IInv'
<1> PICK u : u = worker[w]
  OBVIOUS
<1> PICK moved : moved = Advanced(u.base, cursor)
  OBVIOUS
<1> PICK turned : turned = Turned(w, cursor)
  OBVIOUS
<1> PICK new : new = [turned EXCEPT !.base = moved]
  OBVIOUS
<1>1. WorkerOK(u) /\ Holds(u) /\ Pages(u)
  BY OfOne
<1>2. /\ u.base.pages \in Nat /\ u.base.generation = u.base.pages /\ u.cursor = u.base.pages
      /\ u.raw \in DOMAIN receipts /\ Fetched(u.raw, u.key, u.base.pages) /\ Taken(u.raw)
      /\ u.key \in plan.keys
  BY <1>1 DEF Pages, Holds, Going, Holding, WorkerOK
<1>3. /\ new = [f \in WorkerFields |-> new[f]]
      /\ new.key = u.key /\ new.last = u.last /\ new.base = moved
      /\ cursor = Null => new.phase = "cooling"
      /\ cursor # Null => new.phase = "spacing" /\ new.cursor = cursor
  BY <1>1, TurnedSays DEF WorkerFields
<1>4. worker' = [worker EXCEPT ![w] = new]
  BY DEF IInv, TypeOK, ControlOK
<1>5. GoesOn(w, new)
  BY <1>3, <1>4 DEF GoesOn, Phases
<1>6. cursor = Null \/ cursor = u.base.pages + 1
  BY <1>2 DEF NextCursor
<1>7. /\ moved.pages = u.base.pages + 1 /\ moved.generation = u.base.pages + 1
      /\ moved.cursor = cursor
      /\ cursor = Null => moved.phase = "completed"
  BY <1>2 DEF Advanced
<1>8. new.phase \notin Holding /\ Holds(new) /\ AtLatest(new)
  BY <1>3 DEF Holding, Holds, AtLatest
<1>9. Pages(new)
  BY <1>2, <1>3, <1>6, <1>7 DEF Pages, Going
<1>10. Counted'
  <2>1. /\ checkpoint.pages = u.base.pages
        /\ \A n \in 0..(checkpoint.pages - 1) :
             \E r \in DOMAIN receipts, key \in plan.keys : Taken(r) /\ Fetched(r, key, n)
    BY <1>2 DEF IInv, Counted
  <2>2. Grown
    BY UnchangedIsGrown DEF IInv
  <2>3. ASSUME NEW n \in 0..(moved.pages - 1)
        PROVE  \E r \in DOMAIN receipts', key \in plan'.keys : (Taken(r) /\ Fetched(r, key, n))'
    <3>1. PICK r \in DOMAIN receipts, key \in plan.keys : Taken(r) /\ Fetched(r, key, n)
      <4>1. CASE n = u.base.pages
        BY <1>2, <4>1
      <4>2. CASE n # u.base.pages
        BY <1>2, <1>7, <2>1, <4>2
      <4> QED
        BY <4>1, <4>2
    <3>2. Taken(r)' /\ Fetched(r, key, n)'
      BY <2>2, <3>1, TakenStays, FetchedStays
    <3> QED
      BY <3>2
  <2>4. checkpoint' = moved
    OBVIOUS
  <2>5. /\ moved.pages \in Nat /\ moved.generation = moved.pages
        /\ moved.phase # "completed" => moved.cursor = moved.pages
    BY <1>2, <1>6, <1>7
  <2>6. /\ checkpoint'.pages \in Nat /\ checkpoint'.generation = checkpoint'.pages
        /\ checkpoint'.phase # "completed" => checkpoint'.cursor = checkpoint'.pages
        /\ plan'.mode # "sync"
    BY <2>4, <2>5
  <2>7. \A n \in 0..(checkpoint'.pages - 1) :
          \E r \in DOMAIN receipts', key \in plan'.keys : (Taken(r) /\ Fetched(r, key, n))'
    BY <2>3, <2>4
  <2> QED
    BY <2>6, <2>7 DEF Counted
<1>11. ControlOK' /\ Exclusive' /\ Spaced'
  BY <1>5, GoesOnControl
<1> QED
  BY <1>4, <1>8, <1>9, <1>10, <1>11, QuietStep

LEMMA MoveCheckpointStep ==
    ASSUME IInv, NEW w \in Workers, MoveCheckpoint(w)
    PROVE  IInv'
BY OvertakenStep, AdvanceStep DEF MoveCheckpoint

-----------------------------------------------------------------------------
(* The steps that write a table of the mirror.                             *)

BatchesSound ==
    \A r : ~Failed(BatchOf(r)) => BatchOf(r).raw = r /\ BatchOf(r).at = receipts[r].at

LEMMA BatchesAreSound == BatchesSound
BY BatchSays DEF BatchesSound

\* One slot is held by one worker.
LEMMA Alone ==
    ASSUME IInv, plan.limit <= 1, ~dropped,
           NEW v \in Workers, NEW w \in Workers,
           worker[v].phase # "idle", worker[w].phase # "idle"
    PROVE  v = w
<1>1. PICK s \in DOMAIN lease : lease[s] = v
  BY DEF IInv, Exclusive
<1>2. PICK t \in DOMAIN lease : lease[t] = w
  BY DEF IInv, Exclusive
<1>3. s = 0 /\ t = 0
  BY <1>1, <1>2 DEF IInv, TypeOK, ControlOK, SoundPlan
<1> QED
  BY <1>1, <1>2, <1>3

LEMMA OthersRest ==
    ASSUME IInv, plan.limit <= 1, ~dropped,
           NEW w \in Workers, worker[w].phase # "idle",
           NEW new, worker' = [worker EXCEPT ![w] = new], AtLatest(new)'
    PROVE  \A v \in Workers : AtLatest(worker[v])'
<1> SUFFICES ASSUME NEW v \in Workers PROVE AtLatest(worker[v])'
  OBVIOUS
<1> PICK u : u = worker'[v]
  OBVIOUS
<1>1. CASE v = w
  <2>1. u = new
    BY <1>1 DEF IInv, TypeOK, ControlOK
  <2> QED
    BY <2>1 DEF AtLatest
<1>2. CASE v # w
  <2>1. u.phase = "idle"
    BY <1>2, Alone DEF IInv, TypeOK, ControlOK
  <2> QED
    BY <2>1 DEF AtLatest, Holding
<1> QED
  BY <1>1, <1>2

LEMMA ReceiptSays ==
    ASSUME NEW response, NEW t, NEW receipt, receipt = Receipt(response, t)
    PROVE  /\ receipt.key = response.key
           /\ receipt.status = response.status
           /\ receipt.doc = response.doc
           /\ receipt.at = t
<1> DEFINE asIs == [bytes |-> response.doc, uri |-> Null, hash |-> Null]
           raw == PrepareRaw(asIs)
<1>1. asIs.bytes = response.doc /\ asIs.uri = Null
  OBVIOUS
<1>2. raw.bytes = response.doc
  <2>1. CASE response.doc # Null
    BY <1>1, <2>1 DEF PrepareRaw
  <2>2. CASE response.doc = Null
    BY <1>1, <2>2 DEF PrepareRaw, NoBody
  <2> QED
    BY <2>1, <2>2
<1>3. receipt.doc = raw.bytes
  BY DEF Receipt
<1>4. receipt.key = response.key /\ receipt.status = response.status /\ receipt.at = t
  BY DEF Receipt
<1> QED
  BY <1>2, <1>3, <1>4

LEMMA AnswerStep ==
    ASSUME IInv, NEW w \in Workers, NEW response \in Answering(w), Answer(w, response)
    PROVE  IInv'
<1> PICK u : u = worker[w]
  OBVIOUS
<1> PICK count : count = Len(receipts)
  OBVIOUS
<1> PICK new : new = [u EXCEPT !.phase = "stored", !.raw = count + 1]
  OBVIOUS
<1> PICK receipt : receipt = Receipt(response, now) /\ receipts' = Append(receipts, receipt)
  BY DEF Answer, AddReceipt
<1>1. WorkerOK(u) /\ Pages(u) /\ u.phase = "sent"
  BY OfOne DEF Answer
<1>2. worker' = [worker EXCEPT ![w] = new]
  BY DEF Answer, IInv, TypeOK, ControlOK
<1>3. /\ new = [f \in WorkerFields |-> new[f]]
      /\ new.phase = "stored" /\ new.key = u.key /\ new.last = u.last
      /\ new.base = u.base /\ new.cursor = u.cursor /\ new.raw = count + 1
  BY <1>1 DEF WorkerOK, WorkerFields
<1>4. GoesOn(w, new)
  BY <1>1, <1>2, <1>3 DEF GoesOn, Phases, Answer
<1>5. /\ IsSequence(receipts') /\ count \in Nat
      /\ DOMAIN receipts = 1..count /\ DOMAIN receipts' = 1..(count + 1)
      /\ Len(receipts') = count + 1
      /\ \A r \in DOMAIN receipts : receipts'[r] = receipts[r]
      /\ receipts'[count + 1] = receipt
  <2>1. IsSequence(receipts)
    BY DEF IInv, TypeOK, TablesOK
  <2>2. Extends(receipts', receipts, receipt)
    BY <2>1, Appended
  <2> QED
    BY <2>2 DEF Extends
<1>6. Grown
  <2>1. \A m \in Matches : Len(facts.results[m]) \in Nat
    BY LenIsNat DEF IInv, TypeOK, TablesOK
  <2> QED
    BY <1>5, <2>1 DEF Grown, Answer
<1>7. /\ receipt.key = u.key /\ receipt.status = response.status /\ receipt.doc = response.doc
      /\ receipt.at = now
      /\ response \in Answers /\ response.key = u.key /\ response.page = PageNumber(u.key, u.cursor)
  BY ReceiptSays DEF Answering
<1>8. Holds(new)' /\ Pages(new)'
  <2>1. Fetched(count + 1, u.key, u.cursor)'
    BY <1>5, <1>7 DEF Fetched
  <2>2. Holds(new)'
    BY <1>3, <1>5, <2>1 DEF Holds, Holding
  <2>3. Pages(new)'
    BY <1>1, <1>3 DEF Pages, Going, Answer
  <2> QED
    BY <2>2, <2>3
<1>9. ControlOK' /\ Exclusive' /\ Spaced'
  BY <1>4, GoesOnControl
<1>10. TablesOK'
  BY <1>5 DEF IInv, TypeOK, TablesOK, Answer
<1>11. WorkersSound' /\ Counted'
  BY <1>2, <1>6, <1>8, WorkersStay, CountedStays DEF Answer
<1>12. Recorded'
  <2>1. now \in Nat /\ UNCHANGED <<now, facts>>
    BY DEF IInv, TypeOK, ControlOK, Answer
  <2>2. \A r \in DOMAIN receipts : receipts[r].at \in Nat /\ receipts[r].at <= now
    BY DEF IInv, Recorded
  <2>3. \A r \in DOMAIN receipts' : receipts'[r].at \in Nat /\ receipts'[r].at <= now'
    BY <1>5, <1>7, <2>1, <2>2
  <2>4. \A r, s \in DOMAIN receipts' : r <= s => receipts'[r].at <= receipts'[s].at
    <3> SUFFICES ASSUME NEW r \in DOMAIN receipts', NEW s \in DOMAIN receipts', r <= s
                 PROVE  receipts'[r].at <= receipts'[s].at
      OBVIOUS
    <3>1. CASE s = count + 1
      BY <1>5, <1>7, <2>1, <2>3, <3>1
    <3>2. CASE s # count + 1
      <4>1. r \in DOMAIN receipts /\ s \in DOMAIN receipts
        BY <1>5, <3>2
      <4> QED
        BY <1>5, <4>1 DEF IInv, Recorded
    <3> QED
      BY <3>1, <3>2
  <2>5. \A i \in DOMAIN facts'.coverage : facts'.coverage[i].raw \in DOMAIN receipts'
    BY <1>5, <2>1 DEF IInv, Recorded
  <2>6. \A m \in Matches : \A k \in DOMAIN facts'.results[m] :
          /\ facts'.results[m][k].raw \in DOMAIN receipts'
          /\ facts'.results[m][k].at = receipts'[facts'.results[m][k].raw].at
    BY <1>5, <2>1 DEF IInv, Recorded
  <2> QED
    BY <2>3, <2>4, <2>5, <2>6 DEF Recorded
<1>13. Chained'
  BY DEF IInv, Chained, Answer
<1>14. Ordered'
  <2> SUFFICES ASSUME plan.limit <= 1, ~dropped
               PROVE  (\A v \in Workers : AtLatest(worker[v])') /\ Agreed'
    BY DEF Ordered, Answer
  <2>1. AtLatest(new)'
    BY <1>3, <1>5 DEF AtLatest
  <2>2. \A v \in Workers : AtLatest(worker[v])'
    BY <1>1, <1>2, <2>1, OthersRest
  <2>3. ASSUME NEW m \in Matches, NEW r \in Accepted(m)'
        PROVE  r \in Accepted(m) /\ receipts'[r] = receipts[r]
    <3>1. r # count + 1
      <4>1. SUFFICES ASSUME r = count + 1 PROVE FALSE
        OBVIOUS
      <4>2. ~Failed(BatchOf(r)') /\ \E i \in DOMAIN facts.coverage : facts.coverage[i] = Evidence(BatchOf(r)')
        BY <2>3 DEF Accepted, Committed, Answer
      <4>3. BatchesSound'
        BY BatchesAreSound, PTL
      <4>4. BatchOf(r)'.raw = r
        BY <4>2, <4>3 DEF BatchesSound
      <4>5. r \in DOMAIN receipts
        BY <4>2, <4>4 DEF Evidence, IInv, Recorded
      <4> QED
        BY <1>5, <4>1, <4>5
    <3>2. r \in DOMAIN receipts
      BY <1>5, <2>3, <3>1 DEF Accepted
    <3>3. BatchOf(r)' = BatchOf(r) /\ receipts'[r] = receipts[r]
      BY <1>5, <3>2, BatchStays
    <3> QED
      BY <2>3, <3>2, <3>3 DEF Accepted, Committed, Answer
  <2>4. Agreed'
    <3> SUFFICES ASSUME NEW m \in Matches, NEW r \in Accepted(m)', NEW k \in DOMAIN facts.results[m]
                 PROVE  Agrees(m, r, k)'
      BY DEF Agreed, Answer
    <3>1. Agrees(m, r, k) /\ receipts'[r] = receipts[r]
      BY <2>3 DEF IInv, Ordered, Agreed
    <3>2. BatchOf(r)' = BatchOf(r)
      BY <3>1, BatchStays
    <3> QED
      BY <3>1, <3>2 DEF Agrees, Answer
  <2> QED
    BY <2>2, <2>4
<1> QED
  BY <1>9, <1>10, <1>11, <1>12, <1>13, <1>14 DEF IInv, TypeOK

\* Evidence of a receipt commits that receipt and no other.
LEMMA EvidenceIsAdded ==
    ASSUME IInv, NEW e, e.raw \in DOMAIN receipts,
           facts'.coverage = Append(facts.coverage, e),
           UNCHANGED <<receipts, plan>>,
           \A m \in Matches : Len(facts'.results[m]) \in Nat
                                /\ Len(facts.results[m]) <= Len(facts'.results[m])
    PROVE  /\ Grown
           /\ IsSequence(facts'.coverage)
           /\ \A i \in DOMAIN facts'.coverage : facts'.coverage[i].raw \in DOMAIN receipts'
           /\ \A r : BatchOf(r)' = BatchOf(r)
           /\ \A r : ~Failed(BatchOf(r)) /\ e = Evidence(BatchOf(r)) => Committed(r)'
           /\ \A r : Committed(r)' => Committed(r) \/ (r = e.raw /\ ~Failed(BatchOf(r)))
<1>1. IsSequence(facts.coverage)
  BY DEF IInv, TypeOK, TablesOK
<1>2. Extends(facts'.coverage, facts.coverage, e)
  BY <1>1, Appended
<1>3. Grown
  BY <1>2 DEF Extends, Grown
<1>4. \A i \in DOMAIN facts'.coverage : facts'.coverage[i].raw \in DOMAIN receipts'
  <2> SUFFICES ASSUME NEW i \in DOMAIN facts'.coverage
               PROVE  facts'.coverage[i].raw \in DOMAIN receipts
    OBVIOUS
  <2>1. i \in DOMAIN facts.coverage \/ facts'.coverage[i] = e
    BY <1>2 DEF Extends
  <2> QED
    BY <1>2, <2>1 DEF Extends, IInv, Recorded
<1>5. \A r : BatchOf(r)' = BatchOf(r)
  BY DEF BatchOf, Sourced
<1>6. ASSUME NEW r, ~Failed(BatchOf(r)), e = Evidence(BatchOf(r)) PROVE Committed(r)'
  <2>1. \E i \in DOMAIN facts'.coverage : facts'.coverage[i] = Evidence(BatchOf(r))
    BY <1>2, <1>6 DEF Extends
  <2> QED
    BY <1>5, <1>6, <2>1 DEF Committed
<1>7. ASSUME NEW r, Committed(r)'
      PROVE  Committed(r) \/ (r = e.raw /\ ~Failed(BatchOf(r)))
  <2>1. ~Failed(BatchOf(r))
        /\ \E i \in DOMAIN facts'.coverage : facts'.coverage[i] = Evidence(BatchOf(r))
    BY <1>5, <1>7 DEF Committed
  <2>2. PICK i \in DOMAIN facts'.coverage : facts'.coverage[i] = Evidence(BatchOf(r))
    BY <2>1
  <2>3. CASE i \in DOMAIN facts.coverage
    <3>1. facts.coverage[i] = Evidence(BatchOf(r))
      BY <1>2, <2>2, <2>3 DEF Extends
    <3> QED
      BY <2>1, <2>3, <3>1 DEF Committed
  <2>4. CASE i \notin DOMAIN facts.coverage
    <3>1. e = Evidence(BatchOf(r))
      BY <1>2, <2>2, <2>4 DEF Extends
    <3>2. e.raw = BatchOf(r).raw
      BY <3>1 DEF Evidence
    <3>3. BatchOf(r).raw = r
      BY <2>1, BatchesAreSound DEF BatchesSound
    <3> QED
      BY <2>1, <3>2, <3>3
  <2> QED
    BY <2>3, <2>4
<1> QED
  BY <1>2, <1>3, <1>4, <1>5, <1>6, <1>7 DEF Extends

\* A result that was accepted is one of its own match.
LEMMA AcceptedScores ==
    ASSUME NEW m \in Matches, NEW r, receipts[r].key.match = m, ~Failed(BatchOf(r)),
           BatchOf(r).result # Null
    PROVE  Scores(r) /\ Subject(BatchOf(r)) = m
BY BatchSays, MirrorAssumption DEF Scores

\* What is quarantined under one slot has no result.
LEMMA QuarantineStep ==
    ASSUME IInv, NEW w \in Workers, worker[w].phase \in Holding,
           NEW reason, Quarantine(worker[w].raw, reason),
           NEW new, GoesOn(w, new), new.phase \notin Holding, Pages(new),
           UNCHANGED <<receipts, checkpoint>>,
           plan.limit <= 1 /\ ~dropped =>
             Failed(BatchOf(worker[w].raw)) \/ ~Scores(worker[w].raw)
    PROVE  IInv'
<1> PICK u : u = worker[w]
  OBVIOUS
<1> PICK e : /\ e.raw = u.raw
             /\ facts' = [facts EXCEPT !.coverage = Append(facts.coverage, e)]
  BY DEF Quarantine
<1>1. u.raw \in DOMAIN receipts /\ u.phase # "idle"
  BY OfOne DEF Holds, Holding
<1>2. /\ facts' = [f \in FactFields |-> facts'[f]]
      /\ facts'.coverage = Append(facts.coverage, e)
      /\ facts'.results = facts.results
  BY DEF IInv, TypeOK, TablesOK, FactFields
<1>3. \A m \in Matches : Len(facts'.results[m]) \in Nat
                           /\ Len(facts.results[m]) <= Len(facts'.results[m])
  BY <1>2, LenIsNat DEF IInv, TypeOK, TablesOK
<1>4. UNCHANGED <<receipts, plan, now, dropped>>
  BY DEF GoesOn
<1>5. /\ Grown
      /\ IsSequence(facts'.coverage)
      /\ \A i \in DOMAIN facts'.coverage : facts'.coverage[i].raw \in DOMAIN receipts'
      /\ \A r : BatchOf(r)' = BatchOf(r)
      /\ \A r : Committed(r)' => Committed(r) \/ (r = e.raw /\ ~Failed(BatchOf(r)))
  BY <1>1, <1>2, <1>3, <1>4, EvidenceIsAdded
<1>6. ControlOK' /\ Exclusive' /\ Spaced'
  BY GoesOnControl
<1>7. TablesOK'
  BY <1>2, <1>4, <1>5 DEF IInv, TypeOK, TablesOK
<1>8. WorkersSound'
  <2>1. Holds(new)
    BY DEF Holds, Holding
  <2>2. Holds(new)' /\ Pages(new)'
    BY <1>5, <2>1, HoldsStays, PagesStay DEF Grown, IInv
  <2> QED
    BY <1>5, <2>2, WorkersStay DEF GoesOn
<1>9. Counted'
  BY <1>5, CountedStays
<1>10. Recorded'
  BY <1>2, <1>4, <1>5 DEF IInv, Recorded
<1>11. Chained'
  BY <1>2 DEF IInv, Chained
<1>12. Ordered'
  <2> SUFFICES ASSUME plan.limit <= 1, ~dropped
               PROVE  (\A v \in Workers : AtLatest(worker[v])') /\ Agreed'
    BY <1>4 DEF Ordered
  <2>1. \A v \in Workers : AtLatest(worker[v])'
    <3>1. AtLatest(new)'
      BY DEF AtLatest, Holding
    <3> QED
      BY <1>1, <3>1, OthersRest DEF GoesOn
  <2>2. ASSUME NEW m \in Matches, NEW r \in Accepted(m)' PROVE r \in Accepted(m)
    <3>1. /\ r \in DOMAIN receipts /\ receipts[r].key.match = m /\ Committed(r)'
          /\ BatchOf(r).result # Null
      BY <1>4, <1>5, <2>2 DEF Accepted
    <3>2. Committed(r)
      <4>1. SUFFICES ASSUME r = u.raw, ~Failed(BatchOf(r)) PROVE FALSE
        BY <1>5, <3>1
      <4>2. Scores(r)
        BY <3>1, <4>1, AcceptedScores
      <4> QED
        BY <4>1, <4>2
    <3> QED
      BY <3>1, <3>2 DEF Accepted
  <2>3. Agreed'
    <3> SUFFICES ASSUME NEW m \in Matches, NEW r \in Accepted(m)', NEW k \in DOMAIN facts.results[m]
                 PROVE  Agrees(m, r, k)'
      BY <1>2 DEF Agreed
    <3>1. Agrees(m, r, k)
      BY <2>2 DEF IInv, Ordered, Agreed
    <3> QED
      BY <1>2, <1>4, <1>5, <3>1 DEF Agrees
  <2> QED
    BY <2>1, <2>3
<1> QED
  BY <1>6, <1>7, <1>8, <1>9, <1>10, <1>11, <1>12 DEF IInv, TypeOK

LEMMA RefuseStep ==
    ASSUME IInv, NEW w \in Workers, Refuse(w)
    PROVE  IInv'
<1> PICK u : u = worker[w]
  OBVIOUS
<1>1. /\ u.phase = "stored" /\ Failed(BatchOf(u.raw)) /\ Quarantine(u.raw, "unverified")
      /\ UNCHANGED <<receipts, now, plan, lease, checkpoint, asked, dropped, faults>>
  BY DEF Refuse
<1>2. PICK new : GoesOn(w, new) /\ new.phase \notin Holding /\ Pages(new)
  <2>1. CASE Retries(w)
    BY <1>1, <2>1, RetriesSays
  <2>2. CASE worker' = [worker EXCEPT ![w].phase = "cooling"]
    <3> PICK x : x = [u EXCEPT !.phase = "cooling"]
      OBVIOUS
    <3>1. WorkerOK(u)
      BY OfOne
    <3>2. worker' = [worker EXCEPT ![w] = x]
      BY <2>2 DEF IInv, TypeOK, ControlOK
    <3>3. /\ x = [f \in WorkerFields |-> x[f]]
          /\ x.phase = "cooling" /\ x.key = u.key /\ x.last = u.last
      BY <3>1 DEF WorkerOK, WorkerFields
    <3>4. GoesOn(w, x)
      BY <1>1, <3>2, <3>3 DEF GoesOn, Phases
    <3> QED
      BY <3>3, <3>4 DEF Holding, Pages, Going
  <2> QED
    BY <2>1, <2>2 DEF Refuse
<1>3. u.phase \in Holding
  BY <1>1 DEF Holding
<1> QED
  BY <1>1, <1>2, <1>3, QuarantineStep

\* A row that follows the latest one, or is the first, keeps the chain.
LEMMA ChainGrows ==
    ASSUME NEW rows, NEW row, NEW t, IsSequence(rows), Extends(t, rows, row),
           \A k \in DOMAIN rows : Follows(rows, k),
           Len(rows) = 0 => row.finality = "provisional",
           Len(rows) > 0 => row.finality = NextFinality(rows[Len(rows)], row, row.at),
           row.finality # Null
    PROVE  \A k \in DOMAIN t : Follows(t, k)
<1> PICK n : n = Len(rows)
  OBVIOUS
<1>1. /\ n \in Nat /\ DOMAIN rows = 1..n /\ DOMAIN t = 1..(n + 1)
      /\ \A k \in 1..n : t[k] = rows[k]
      /\ t[n + 1] = row
  BY DEF Extends
<1>2. ASSUME NEW k \in 1..n PROVE Follows(t, k)
  <2>1. Follows(rows, k) /\ \A i \in 1..k : t[i] = rows[i]
    BY <1>1
  <2>2. k > 1 => k - 1 \in 1..k
    OBVIOUS
  <2>3. k \in 1..k /\ \A i \in 1..(k - 1) : i \in 1..k
    OBVIOUS
  <2>4. CASE rows[k].finality = "provisional" /\ \A i \in 1..(k - 1) : rows[i].finality = "provisional"
    BY <2>1, <2>3, <2>4 DEF Follows
  <2>5. CASE /\ rows[k].finality = "final" /\ k > 1
             /\ rows[k - 1].finality = "provisional"
             /\ Score(rows[k]) = Score(rows[k - 1])
             /\ rows[k].at - rows[k - 1].at >= Stability
    BY <2>1, <2>2, <2>3, <2>5 DEF Follows
  <2>6. CASE /\ rows[k].finality = "corrected"
             /\ \E i \in 1..(k - 1) : rows[i].finality = "final"
             /\ Score(rows[k]) # Score(rows[k - 1])
    <3>1. k > 1
      BY <2>6
    <3> QED
      BY <2>1, <2>2, <2>3, <2>6, <3>1 DEF Follows
  <2> QED
    BY <2>1, <2>4, <2>5, <2>6 DEF Follows
<1>3. Follows(t, n + 1)
  <2>1. CASE n = 0
    BY <1>1, <2>1 DEF Follows
  <2>2. CASE n > 0
    <3> PICK latest : latest = rows[n]
      OBVIOUS
    <3>1. Follows(rows, n) /\ t[n] = latest /\ t[n + 1] = row /\ n + 1 > 1 /\ (n + 1) - 1 = n
      BY <1>1, <2>2
    <3>2. row.finality = NextFinality(latest, row, row.at)
      BY <2>2
    <3>3. \A i \in 1..n : t[i] = rows[i]
      BY <1>1
    <3>4. CASE latest.wins = row.wins /\ latest.sets = row.sets
      <4>1. row.finality = "final" /\ latest.finality = "provisional" /\ row.at - latest.at >= Stability
        BY <3>2, <3>4 DEF NextFinality
      <4>2. Score(row) = Score(latest)
        BY <3>4 DEF Score
      <4> QED
        BY <3>1, <4>1, <4>2 DEF Follows
    <3>5. CASE ~(latest.wins = row.wins /\ latest.sets = row.sets) /\ latest.finality \in {"final", "corrected"}
      <4>1. row.finality = "corrected" /\ Score(row) # Score(latest)
        BY <3>2, <3>5 DEF NextFinality, Score
      <4>2. \E i \in 1..n : rows[i].finality = "final"
        <5>1. CASE latest.finality = "final"
          BY <2>2, <5>1, <1>1
        <5>2. CASE latest.finality = "corrected"
          <6>1. PICK i \in 1..(n - 1) : rows[i].finality = "final"
            BY <3>1, <5>2 DEF Follows
          <6> QED
            BY <1>1, <6>1
        <5> QED
          BY <3>5, <5>1, <5>2
      <4>3. \E i \in 1..((n + 1) - 1) : t[i].finality = "final"
        BY <3>1, <3>3, <4>2
      <4> QED
        BY <3>1, <4>1, <4>3 DEF Follows
    <3>6. CASE ~(latest.wins = row.wins /\ latest.sets = row.sets) /\ latest.finality \notin {"final", "corrected"}
      <4>1. row.finality = "provisional"
        BY <3>2, <3>6 DEF NextFinality
      <4>2. \A i \in 1..n : rows[i].finality = "provisional"
        <5>1. latest.finality = "provisional" /\ \A i \in 1..(n - 1) : rows[i].finality = "provisional"
          BY <3>1, <3>6 DEF Follows
        <5>2. \A i \in 1..n : i = n \/ i \in 1..(n - 1)
          BY <1>1
        <5> QED
          BY <5>1, <5>2
      <4> QED
        BY <3>1, <3>3, <4>1, <4>2 DEF Follows
    <3> QED
      BY <3>4, <3>5, <3>6
  <2> QED
    BY <1>1, <2>1, <2>2
<1> QED
  BY <1>1, <1>2, <1>3

\* The results with a row of the batch behind those of its match.
RowAppended(after, batch, seen, row) ==
    /\ after = [facts.results EXCEPT ![Subject(batch)] =
                   Append(facts.results[Subject(batch)], row)]
    /\ row.finality = FinalityOf(facts.results, batch, seen)
    /\ row.wins = batch.result.wins /\ row.sets = batch.result.sets
    /\ row.at = batch.at /\ row.raw = batch.raw

\* A commit appends a row to the result of its match, or none to any.
LEMMA ResultIsAdded ==
    ASSUME IInv, NEW batch, NEW seen, NEW after,
           after = AppendResult(facts.results, batch, seen)
    PROVE  \/ /\ FinalityOf(facts.results, batch, seen) = Null \/ Subject(batch) \notin Matches
              /\ after = facts.results
           \/ /\ FinalityOf(facts.results, batch, seen) # Null /\ Subject(batch) \in Matches
              /\ \E row : RowAppended(after, batch, seen, row)
<1> PICK table : table = facts.results
  OBVIOUS
<1> PICK m : m = Subject(batch)
  OBVIOUS
<1> PICK finality : finality = FinalityOf(table, batch, seen)
  OBVIOUS
<1> PICK row : row = [wins |-> batch.result.wins, sets |-> batch.result.sets,
                      finality |-> finality, teamStats |-> batch.teamStats,
                      playerStats |-> batch.playerStats, at |-> batch.at, raw |-> batch.raw]
  OBVIOUS
<1>1. table = [x \in Matches |-> table[x]]
  BY DEF IInv, TypeOK, TablesOK
<1>2. after = IF finality = Null THEN table ELSE [table EXCEPT ![m] = Append(table[m], row)]
  BY DEF AppendResult
<1>3. /\ row.finality = finality
      /\ row.wins = batch.result.wins /\ row.sets = batch.result.sets
      /\ row.at = batch.at /\ row.raw = batch.raw
  OBVIOUS
<1>4. CASE finality = Null \/ m \notin Matches
  <2>1. ASSUME NEW value, m \notin Matches PROVE [table EXCEPT ![m] = value] = table
    <3> PICK other : other = [table EXCEPT ![m] = value]
      OBVIOUS
    <3>1. other = [x \in Matches |-> other[x]] /\ \A x \in Matches : other[x] = table[x]
      BY ONLY <1>1, <2>1, other = [table EXCEPT ![m] = value]
    <3>2. other = table
      BY ONLY <1>1, <3>1
    <3> QED
      BY ONLY <3>2, other = [table EXCEPT ![m] = value]
  <2>2. after = table
    BY <1>2, <1>4, <2>1
  <2> QED
    BY <1>4, <2>2
<1>5. CASE finality # Null /\ m \in Matches
  <2>1. RowAppended(after, batch, seen, row)
    BY <1>2, <1>3, <1>5 DEF RowAppended
  <2> QED
    BY <1>5, <2>1
<1> QED
  BY <1>4, <1>5

\* What the commit of a batch does to the results, whatever else it writes.
RowWritten(u, row) ==
    LET batch == BatchOf(u.raw)
        subject == Subject(BatchOf(u.raw))
        rows == facts.results[subject]
    IN  /\ FinalityOf(facts.results, batch, u.seen) # Null
        /\ Scores(u.raw)
        /\ u.seen = Len(rows)
        /\ facts'.results = [m \in Matches |-> facts'.results[m]]
        /\ \A m \in Matches \ {subject} : facts'.results[m] = facts.results[m]
        /\ Extends(facts'.results[subject], rows, row)
        /\ row.finality = FinalityOf(facts.results, batch, u.seen)
        /\ row.wins = batch.result.wins /\ row.sets = batch.result.sets
        /\ row.at = receipts[u.raw].at /\ row.raw = u.raw

NoneWritten(u) ==
    /\ FinalityOf(facts.results, BatchOf(u.raw), u.seen) = Null \/ ~Scores(u.raw)
    /\ facts'.results = facts.results

Writes(u) == NoneWritten(u) \/ \E row : RowWritten(u, row)

LEMMA CommitWrites ==
    ASSUME IInv, NEW u, Holds(u), u.phase = "persisting",
           ~Conflicts(facts.results, BatchOf(u.raw), u.seen),
           facts'.results = AppendResult(facts.results, BatchOf(u.raw), u.seen)
    PROVE  Writes(u)
<1> PICK batch : batch = BatchOf(u.raw)
  OBVIOUS
<1> PICK m : m = Subject(batch)
  OBVIOUS
<1> PICK finality : finality = FinalityOf(facts.results, batch, u.seen)
  OBVIOUS
<1>1. /\ ~Failed(batch)
      /\ batch.raw = u.raw /\ batch.at = receipts[u.raw].at
  BY BatchesAreSound DEF Holds, BatchesSound
<1>2. CASE finality = Null \/ m \notin Matches
  <2>1. facts'.results = facts.results
    BY <1>2, ResultIsAdded
  <2> QED
    BY <1>2, <2>1 DEF Writes, NoneWritten, Scores
<1>3. CASE finality # Null /\ m \in Matches
  <2>1. PICK row : RowAppended(facts'.results, batch, u.seen, row)
    BY <1>3, ResultIsAdded
  <2>2. batch.result # Null
    BY <1>3 DEF FinalityOf
  <2>3. Scores(u.raw)
    BY <1>3, <2>2 DEF Scores
  <2>4. u.seen \in Nat /\ u.seen <= Len(facts.results[m])
    BY <2>3 DEF Holds
  <2>5. IsSequence(facts.results[m]) /\ Len(facts.results[m]) \in Nat
    BY <1>3, LenIsNat DEF IInv, TypeOK, TablesOK
  <2>6. u.seen = Len(facts.results[m])
    <3>1. ~(Len(facts.results[m]) > u.seen)
      BY <1>3 DEF Conflicts
    <3> QED
      BY <2>4, <2>5, <3>1
  <2>7. /\ facts'.results = [x \in Matches |-> facts'.results[x]]
        /\ \A x \in Matches \ {m} : facts'.results[x] = facts.results[x]
        /\ facts'.results[m] = Append(facts.results[m], row)
    BY <1>3, <2>1 DEF RowAppended, IInv, TypeOK, TablesOK
  <2>8. Extends(facts'.results[m], facts.results[m], row)
    BY <2>5, <2>7, Appended
  <2>9. RowWritten(u, row)
    BY <1>1, <1>3, <2>1, <2>3, <2>6, <2>7, <2>8 DEF RowWritten, RowAppended
  <2> QED
    BY <2>9 DEF Writes
<1> QED
  BY <1>2, <1>3

\* A row that is written follows the latest one.
WrittenSound ==
    /\ facts'.results = [m \in Matches |-> facts'.results[m]]
    /\ \A m \in Matches :
         /\ IsSequence(facts'.results[m])
         /\ Len(facts'.results[m]) \in Nat /\ Len(facts.results[m]) \in Nat
         /\ Len(facts.results[m]) <= Len(facts'.results[m])
         /\ \A k \in DOMAIN facts'.results[m] :
              LET row == facts'.results[m][k]
              IN  row.raw \in DOMAIN receipts /\ row.at = receipts[row.raw].at
         /\ \A k \in DOMAIN facts'.results[m] : Follows(facts'.results[m], k)

LEMMA WrittenFollows ==
    ASSUME IInv, NEW u, u.raw \in DOMAIN receipts, ~Failed(BatchOf(u.raw)), Writes(u)
    PROVE  WrittenSound
<1> PICK batch : batch = BatchOf(u.raw)
  OBVIOUS
<1> PICK subject : subject = Subject(batch)
  OBVIOUS
<1>1. ASSUME NEW m \in Matches
      PROVE  /\ IsSequence(facts.results[m]) /\ Len(facts.results[m]) \in Nat
             /\ \A k \in DOMAIN facts.results[m] : Follows(facts.results[m], k)
             /\ \A k \in DOMAIN facts.results[m] :
                  /\ facts.results[m][k].raw \in DOMAIN receipts
                  /\ facts.results[m][k].at = receipts[facts.results[m][k].raw].at
  BY LenIsNat DEF IInv, TypeOK, TablesOK, Chained, Recorded
<1>2. CASE NoneWritten(u)
  <2>1. facts'.results = facts.results
    BY <1>2 DEF NoneWritten
  <2>2. facts.results = [m \in Matches |-> facts.results[m]]
    BY DEF IInv, TypeOK, TablesOK
  <2>3. \A m \in Matches : Len(facts.results[m]) <= Len(facts.results[m])
    BY <1>1
  <2> QED
    BY <1>1, <2>1, <2>2, <2>3 DEF WrittenSound
<1>3. ASSUME NEW row, RowWritten(u, row)
      PROVE  WrittenSound
  <2>1. /\ Scores(u.raw) /\ u.seen = Len(facts.results[subject])
        /\ FinalityOf(facts.results, batch, u.seen) # Null
        /\ facts'.results = [m \in Matches |-> facts'.results[m]]
        /\ \A m \in Matches \ {subject} : facts'.results[m] = facts.results[m]
    BY <1>3 DEF RowWritten
  <2>2. /\ Extends(facts'.results[subject], facts.results[subject], row)
        /\ row.finality = FinalityOf(facts.results, batch, u.seen)
        /\ row.wins = batch.result.wins /\ row.sets = batch.result.sets
        /\ row.at = receipts[u.raw].at /\ row.raw = u.raw
    BY <1>3 DEF RowWritten
  <2>3. subject \in Matches /\ batch.result # Null
    BY <2>1 DEF Scores
  <2>4. \A k \in DOMAIN facts'.results[subject] : Follows(facts'.results[subject], k)
    <3>1. Len(facts.results[subject]) = 0 => row.finality = "provisional"
      BY <2>1, <2>2, <2>3, BatchSays DEF FinalityOf
    <3>2. Len(facts.results[subject]) > 0 =>
            row.finality = NextFinality(facts.results[subject][u.seen], row, row.at)
      <4>1. batch.at = receipts[u.raw].at
        BY BatchesAreSound DEF BatchesSound
      <4>2. Len(facts.results[subject]) > 0 =>
              row.finality = NextFinality(facts.results[subject][u.seen], batch.result, batch.at)
        BY <2>1, <2>2, <2>3 DEF FinalityOf
      <4> QED
        BY <2>2, <4>1, <4>2 DEF NextFinality
    <3> PICK rows, t : rows = facts.results[subject] /\ t = facts'.results[subject]
      OBVIOUS
    <3>3. IsSequence(rows) /\ Extends(t, rows, row) /\ \A k \in DOMAIN rows : Follows(rows, k)
      BY <1>1, <2>2, <2>3
    <3>4. row.finality # Null
      BY <2>1, <2>2
    <3>5. Len(rows) > 0 => row.finality = NextFinality(rows[Len(rows)], row, row.at)
      BY <2>1, <3>2
    <3>6. Len(rows) = 0 => row.finality = "provisional"
      BY <3>1
    <3>7. \A k \in DOMAIN t : Follows(t, k)
      BY ONLY <3>3, <3>4, <3>5, <3>6, ChainGrows
    <3> QED
      BY <3>7
  <2>5. /\ IsSequence(facts'.results[subject])
        /\ Len(facts'.results[subject]) = Len(facts.results[subject]) + 1
        /\ \A k \in DOMAIN facts'.results[subject] :
             k \in DOMAIN facts.results[subject] \/ facts'.results[subject][k] = row
        /\ \A k \in DOMAIN facts.results[subject] :
             facts'.results[subject][k] = facts.results[subject][k]
    BY <2>2 DEF Extends
  <2>6. \A k \in DOMAIN facts'.results[subject] :
          /\ facts'.results[subject][k].raw \in DOMAIN receipts
          /\ facts'.results[subject][k].at = receipts[facts'.results[subject][k].raw].at
    BY <1>1, <2>2, <2>3, <2>5
  <2> QED
    BY <1>1, <2>1, <2>3, <2>4, <2>5, <2>6 DEF WrittenSound
<1> QED
  BY <1>2, <1>3 DEF Writes

\* With one slot, what is committed now was observed last.
LEMMA AgreedGrows ==
    ASSUME IInv, plan.limit <= 1, ~dropped,
           NEW w \in Workers, NEW u, u = worker[w], u.phase = "persisting",
           Writes(u), UNCHANGED receipts,
           \A r : BatchOf(r)' = BatchOf(r),
           \A r : Committed(r)' => Committed(r) \/ (r = u.raw /\ ~Failed(BatchOf(r)))
    PROVE  Agreed'
<1> PICK batch : batch = BatchOf(u.raw)
  OBVIOUS
<1> PICK last : last = receipts[u.raw].at
  OBVIOUS
<1>1. /\ u.raw \in DOMAIN receipts /\ u.raw = Len(receipts) /\ ~Failed(batch)
      /\ Scores(u.raw) => u.seen = Len(facts.results[Subject(batch)])
  BY OfOne DEF Holds, AtLatest, Holding
<1>2. /\ last \in Nat
      /\ \A r \in DOMAIN receipts : receipts[r].at \in Nat /\ receipts[r].at <= last
  <2>1. DOMAIN receipts = 1..Len(receipts) /\ Len(receipts) \in Nat
    BY LenIsNat DEF IInv, TypeOK, TablesOK
  <2> QED
    BY <1>1, <2>1 DEF IInv, Recorded
<1>3. WrittenSound
  BY <1>1, WrittenFollows
<1>4. ASSUME NEW m \in Matches, NEW k \in DOMAIN facts'.results[m]
      PROVE  facts'.results[m][k].at \in Nat /\ facts'.results[m][k].at <= last
  BY <1>2, <1>3 DEF WrittenSound
<1> SUFFICES ASSUME NEW m \in Matches, NEW r \in Accepted(m)', NEW k \in DOMAIN facts'.results[m],
                    facts'.results[m][k].at < receipts[r].at,
                    k < Len(facts'.results[m]) => receipts[r].at < facts'.results[m][k + 1].at
             PROVE  Score(BatchOf(r).result) = Score(facts'.results[m][k])
  <2>1. SUFFICES ASSUME NEW m \in Matches, NEW r \in Accepted(m)', NEW k \in DOMAIN facts'.results[m]
                 PROVE  Agrees(m, r, k)'
    BY DEF Agreed
  <2>2. BatchOf(r)' = BatchOf(r)
    OBVIOUS
  <2> QED
    BY <2>2 DEF Agrees
<1>5. /\ r \in DOMAIN receipts /\ receipts[r].key.match = m /\ BatchOf(r).result # Null
      /\ Committed(r) \/ (r = u.raw /\ ~Failed(BatchOf(r)))
  BY DEF Accepted
<1>6. CASE r = u.raw
  <2>1. Scores(r) /\ Subject(batch) = m /\ batch.result # Null /\ receipts[r].at = last
    BY <1>1, <1>5, <1>6, AcceptedScores
  <2>2. /\ DOMAIN facts'.results[m] = 1..Len(facts'.results[m])
        /\ Len(facts'.results[m]) \in Nat
    BY <1>3, LenIsNat DEF WrittenSound
  <2>3. k = Len(facts'.results[m])
    <3>1. SUFFICES ASSUME k < Len(facts'.results[m]) PROVE FALSE
      BY <2>2
    <3>2. k + 1 \in DOMAIN facts'.results[m]
      BY <2>2, <3>1
    <3> QED
      BY <1>2, <1>4, <2>1, <3>1, <3>2
  <2>4. CASE NoneWritten(u)
    <3> PICK latest : latest = facts.results[m][u.seen]
      OBVIOUS
    <3>1. k = u.seen /\ facts'.results[m][k] = latest /\ u.seen # 0
      BY <1>1, <1>6, <2>1, <2>2, <2>3, <2>4 DEF NoneWritten
    <3>2. NextFinality(latest, batch.result, batch.at) = Null
      BY <1>6, <2>1, <2>4, <3>1 DEF NoneWritten, FinalityOf
    <3>3. latest.wins = batch.result.wins /\ latest.sets = batch.result.sets
      BY <3>2, MirrorAssumption DEF NextFinality
    <3> QED
      BY <1>6, <3>1, <3>3 DEF Score
  <2>5. ASSUME NEW row, RowWritten(u, row) PROVE FALSE
    <3>1. Extends(facts'.results[m], facts.results[m], row) /\ row.at = last
      BY <2>1, <2>5 DEF RowWritten
    <3>2. facts'.results[m][k] = row
      BY <2>3, <3>1 DEF Extends
    <3> QED
      BY <1>2, <2>1, <3>1, <3>2
  <2> QED
    BY <2>4, <2>5 DEF Writes
<1>7. CASE r # u.raw
  <2>1. r \in Accepted(m)
    BY <1>5, <1>7 DEF Accepted
  <2>2. \A i \in DOMAIN facts.results[m] : Agrees(m, r, i)
    BY <2>1 DEF IInv, Ordered, Agreed
  <2>3. CASE facts'.results[m] = facts.results[m]
    BY <2>2, <2>3 DEF Agrees
  <2>4. ASSUME NEW row, RowWritten(u, row), m = Subject(batch)
        PROVE  Score(BatchOf(r).result) = Score(facts'.results[m][k])
    <3>1. Extends(facts'.results[m], facts.results[m], row) /\ row.at = last
      BY <2>4 DEF RowWritten
    <3> PICK n : n = Len(facts.results[m])
      OBVIOUS
    <3>2. /\ n \in Nat /\ DOMAIN facts.results[m] = 1..n
          /\ Len(facts'.results[m]) = n + 1 /\ DOMAIN facts'.results[m] = 1..(n + 1)
          /\ \A i \in 1..n : facts'.results[m][i] = facts.results[m][i]
          /\ facts'.results[m][n + 1] = row
      BY <3>1 DEF Extends
    <3>3. k \in 1..n
      <4>1. k # n + 1
        <5>1. SUFFICES ASSUME k = n + 1 PROVE FALSE
          OBVIOUS
        <5>2. facts'.results[m][k] = row
          BY <3>2, <5>1
        <5>3. last < receipts[r].at
          BY <3>1, <5>2
        <5> QED
          BY <1>2, <1>5, <5>3
      <4> QED
        BY <3>2, <4>1
    <3>4. Agrees(m, r, k) /\ facts'.results[m][k] = facts.results[m][k]
      BY <2>2, <3>2, <3>3
    <3>5. k < n => receipts[r].at < facts.results[m][k + 1].at
      BY <3>2, <3>3
    <3> QED
      BY <3>4, <3>5 DEF Agrees
  <2> QED
    BY <2>3, <2>4 DEF Writes, NoneWritten, RowWritten
<1> QED
  BY <1>6, <1>7

LEMMA PersistStep ==
    ASSUME IInv, NEW w \in Workers, worker[w].phase = "persisting",
           ~Conflicts(facts.results, BatchOf(worker[w].raw), worker[w].seen),
           facts' = Persist(facts, BatchOf(worker[w].raw), worker[w].seen),
           worker' = [worker EXCEPT ![w].phase = AfterPage(BatchOf(worker[w].raw))],
           UNCHANGED <<receipts, now, plan, lease, checkpoint, asked, dropped, faults>>
    PROVE  IInv'
<1> PICK u : u = worker[w]
  OBVIOUS
<1> PICK batch : batch = BatchOf(u.raw)
  OBVIOUS
<1> PICK phase : phase = AfterPage(batch)
  OBVIOUS
<1> PICK new : new = [u EXCEPT !.phase = phase]
  OBVIOUS
<1> PICK e : e = Evidence(batch)
  OBVIOUS
<1>1. /\ WorkerOK(u) /\ Holds(u) /\ Pages(u) /\ u.phase = "persisting"
      /\ u.raw \in DOMAIN receipts /\ Fetched(u.raw, u.key, u.cursor) /\ ~Failed(batch)
  BY OfOne DEF Holds, Holding
<1>2. worker' = [worker EXCEPT ![w] = new]
  BY DEF IInv, TypeOK, ControlOK
<1>3. /\ new = [f \in WorkerFields |-> new[f]]
      /\ new.phase = phase /\ new.key = u.key /\ new.last = u.last
      /\ new.base = u.base /\ new.cursor = u.cursor /\ new.raw = u.raw
  BY <1>1 DEF WorkerOK, WorkerFields
<1>4. phase \in {"accepted", "cooling"} /\ (phase = "accepted" => batch.issues = {})
  BY DEF AfterPage
<1>5. GoesOn(w, new)
  BY <1>1, <1>2, <1>3, <1>4 DEF GoesOn, Phases
<1>6. /\ facts' = [f \in FactFields |-> facts'[f]]
      /\ facts'.coverage = Append(facts.coverage, e)
      /\ facts'.results = AppendResult(facts.results, batch, u.seen)
  BY DEF Persist, FactFields
<1>7. Writes(u)
  BY <1>1, <1>6, CommitWrites
<1>8. WrittenSound
  BY <1>1, <1>7, WrittenFollows
<1>9. e.raw = u.raw
  BY <1>1, BatchesAreSound DEF Evidence, BatchesSound
<1>10. /\ Grown
       /\ IsSequence(facts'.coverage)
       /\ \A i \in DOMAIN facts'.coverage : facts'.coverage[i].raw \in DOMAIN receipts'
       /\ \A r : BatchOf(r)' = BatchOf(r)
       /\ \A r : ~Failed(BatchOf(r)) /\ e = Evidence(BatchOf(r)) => Committed(r)'
       /\ \A r : Committed(r)' => Committed(r) \/ (r = e.raw /\ ~Failed(BatchOf(r)))
  BY <1>1, <1>6, <1>8, <1>9, EvidenceIsAdded DEF WrittenSound
<1>11. ControlOK' /\ Exclusive' /\ Spaced'
  BY <1>5, GoesOnControl
<1>12. TablesOK'
  BY <1>6, <1>8, <1>10 DEF IInv, TypeOK, TablesOK, WrittenSound
<1>13. WorkersSound'
  <2>1. Fetched(u.raw, u.key, u.cursor)'
    BY <1>1, <1>10, FetchedStays
  <2>2. phase = "accepted" => Taken(u.raw)'
    BY <1>1, <1>4, <1>10 DEF Taken
  <2>3. Holds(new)'
    BY <1>1, <1>3, <1>4, <2>1, <2>2 DEF Holds, Holding
  <2>4. Pages(new)'
    BY <1>1, <1>3 DEF Pages, Going
  <2> QED
    BY <1>2, <1>10, <2>3, <2>4, WorkersStay
<1>14. Counted'
  BY <1>10, CountedStays
<1>15. Recorded'
  BY <1>8, <1>10 DEF IInv, Recorded, WrittenSound
<1>16. Chained'
  BY <1>8 DEF Chained, WrittenSound
<1>17. Ordered'
  <2> SUFFICES ASSUME plan.limit <= 1, ~dropped
               PROVE  (\A v \in Workers : AtLatest(worker[v])') /\ Agreed'
    BY DEF Ordered
  <2>1. u.raw = Len(receipts)
    BY <1>1, OfOne DEF AtLatest, Holding
  <2>2. AtLatest(new)'
    BY <1>3, <1>4, <2>1 DEF AtLatest
  <2>3. \A v \in Workers : AtLatest(worker[v])'
    BY <1>1, <1>2, <2>2, OthersRest
  <2>4. Agreed'
    BY <1>1, <1>7, <1>9, <1>10, AgreedGrows
  <2> QED
    BY <2>3, <2>4
<1> QED
  BY <1>11, <1>12, <1>13, <1>14, <1>15, <1>16, <1>17 DEF IInv, TypeOK

LEMMA CommitPersistStep ==
    ASSUME IInv, NEW w \in Workers, CommitPersist(w)
    PROVE  IInv'
<1> PICK u : u = worker[w]
  OBVIOUS
<1> PICK batch : batch = BatchOf(u.raw)
  OBVIOUS
<1>1. CASE Conflicts(facts.results, batch, u.seen)
  <2> PICK new : new = [u EXCEPT !.phase = "cooling"]
    OBVIOUS
  <2>1. WorkerOK(u) /\ u.phase = "persisting"
    BY OfOne DEF CommitPersist
  <2>2. /\ Quarantine(u.raw, "unverified") /\ worker' = [worker EXCEPT ![w] = new]
        /\ UNCHANGED <<receipts, now, plan, lease, checkpoint, asked, dropped, faults>>
    BY <1>1 DEF CommitPersist, IInv, TypeOK, ControlOK
  <2>3. /\ new = [f \in WorkerFields |-> new[f]]
        /\ new.phase = "cooling" /\ new.key = u.key /\ new.last = u.last
    BY <2>1 DEF WorkerOK, WorkerFields
  <2>4. GoesOn(w, new)
    BY <2>1, <2>2, <2>3 DEF GoesOn, Phases
  <2>5. new.phase \notin Holding /\ Pages(new) /\ u.phase \in Holding
    BY <2>1, <2>3 DEF Holding, Pages, Going
  <2>6. plan.limit <= 1 /\ ~dropped => ~Scores(u.raw)
    <3>1. SUFFICES ASSUME plan.limit <= 1, ~dropped, Scores(u.raw) PROVE FALSE
      OBVIOUS
    <3>2. u.seen = Len(facts.results[Subject(batch)])
      BY <2>1, <3>1, OfOne DEF AtLatest
    <3>3. Len(facts.results[Subject(batch)]) \in Nat
      BY <3>1, LenIsNat DEF Scores, IInv, TypeOK, TablesOK
    <3> QED
      BY <1>1, <3>2, <3>3 DEF Conflicts
  <2> QED
    BY <2>2, <2>4, <2>5, <2>6, QuarantineStep
<1>2. CASE ~Conflicts(facts.results, batch, u.seen)
  BY <1>2, PersistStep DEF CommitPersist
<1> QED
  BY <1>1, <1>2

-----------------------------------------------------------------------------
(* The theorems.                                                           *)

LEMMA NextIInv ==
    ASSUME IInv, [SyncNext]_syncVars
    PROVE  IInv'
<1>1. CASE UNCHANGED syncVars
  <2>1. /\ UNCHANGED <<receipts, facts>> /\ now' \in Nat /\ now' >= now
        /\ UNCHANGED <<now, plan, lease, worker, checkpoint, asked, dropped>>
    BY <1>1 DEF syncVars, IInv, TypeOK, ControlOK
  <2>2. ControlOK' /\ Exclusive' /\ Spaced'
    BY <2>1 DEF IInv, TypeOK, ControlOK, WorkerOK, Exclusive, Spaced
  <2>3. TablesOK' /\ Recorded' /\ Chained'
    BY <2>1, TablesStay
  <2>4. Grown
    BY <2>1, UnchangedIsGrown DEF IInv
  <2>5. Counted'
    BY <2>1, <2>4, CountedStays
  <2>6. ASSUME NEW w \in Workers
        PROVE  /\ Holds(worker[w])' /\ Pages(worker[w])'
               /\ plan.limit <= 1 /\ ~dropped => AtLatest(worker[w])'
    <3> PICK u : u = worker[w]
      OBVIOUS
    <3>1. Holds(u) /\ Pages(u) /\ (plan.limit <= 1 /\ ~dropped => AtLatest(u))
      BY OfOne
    <3>2. Holds(u)' /\ Pages(u)' /\ (plan.limit <= 1 /\ ~dropped => AtLatest(u)')
      BY <2>1, <2>4, <3>1, HoldsStays, PagesStay, AgreedStays DEF IInv
    <3> QED
      BY <2>1, <3>2 DEF Holds, Pages, AtLatest
  <2>7. WorkersSound' /\ Ordered'
    BY <2>1, <2>6, AgreedStays DEF WorkersSound, Ordered, IInv
  <2> QED
    BY <2>2, <2>3, <2>5, <2>7 DEF IInv, TypeOK
<1>2. CASE Tick
  BY <1>2, TickStep
<1>3. ASSUME NEW w \in Workers,
             \/ \E key \in plan.keys : Lease(w, key)
             \/ \E r \in Answering(w) : Answer(w, r)
             \/ Request(w) \/ Unanswered(w) \/ Abandon(w) \/ Busy(w) \/ Refuse(w)
             \/ BeginPersist(w) \/ CommitPersist(w) \/ TurnPage(w) \/ MoveCheckpoint(w)
             \/ Release(w) \/ Crash(w) \/ LoseSession(w)
      PROVE  IInv'
  BY <1>3, LeaseStep, AnswerStep, RequestStep, UnansweredStep, AbandonStep, BusyStep, RefuseStep,
     BeginPersistStep, CommitPersistStep, TurnPageStep, MoveCheckpointStep, ReleaseStep, CrashStep,
     LoseSessionStep
<1> QED
  BY <1>1, <1>2, <1>3 DEF SyncNext

\* The inductive invariant, for plans of which those of a sync job have one
\* slot: who works holds a slot, whatever is counted, held or recorded has its
\* receipt, and a result goes on from its latest row.
THEOREM Invariance ==
    ASSUME NEW plans, \A p \in plans : SoundPlan(p)
    PROVE  SyncSpec(plans) => []IInv
<1>1. SyncInit(plans) => IInv
  BY InitIInv
<1>2. IInv /\ [SyncNext]_syncVars => IInv'
  BY NextIInv
<1> QED
  BY <1>1, <1>2, PTL DEF SyncSpec

LEMMA OnlyRequestAsks ==
    ASSUME IInv, [SyncNext]_syncVars, NEW w \in Workers,
           worker[w].phase = "spacing", worker'[w].phase = "sent"
    PROVE  Request(w)
<1>1. worker = [v \in Workers |-> worker[v]] /\ worker' # worker
  BY DEF IInv, TypeOK, ControlOK
<1>2. PICK v \in Workers :
        \/ \E key \in plan.keys : Lease(v, key)
        \/ \E r \in Answering(v) : Answer(v, r)
        \/ Request(v) \/ Unanswered(v) \/ Abandon(v) \/ Busy(v) \/ Refuse(v)
        \/ BeginPersist(v) \/ CommitPersist(v) \/ TurnPage(v) \/ MoveCheckpoint(v)
        \/ Release(v) \/ Crash(v) \/ LoseSession(v)
  BY <1>1 DEF SyncNext, Tick, syncVars
<1>3. ASSUME \E new : worker' = [worker EXCEPT ![v] = new], worker[v].phase # "spacing"
      PROVE  FALSE
  BY <1>1, <1>3
<1>4. CASE \E key \in plan.keys : Lease(v, key)
  BY <1>3, <1>4 DEF Lease
<1>5. CASE \E r \in Answering(v) : Answer(v, r)
  BY <1>3, <1>5 DEF Answer
<1>6. CASE Request(v)
  BY <1>1, <1>6 DEF Request
<1>7. CASE Unanswered(v) \/ Busy(v)
  BY <1>3, <1>7 DEF Unanswered, Busy, Retries
<1>8. CASE Refuse(v)
  BY <1>1, <1>3, <1>8 DEF Refuse, Retries
<1>9. CASE BeginPersist(v)
  BY <1>3, <1>9 DEF BeginPersist
<1>10. CASE CommitPersist(v)
  BY <1>1, <1>3, <1>10 DEF CommitPersist
<1>11. CASE TurnPage(v)
  BY <1>3, <1>11 DEF TurnPage
<1>12. CASE MoveCheckpoint(v)
  BY <1>1, <1>3, <1>12 DEF MoveCheckpoint
<1>13. CASE Release(v)
  BY <1>3, <1>13 DEF Release
<1>14. CASE Abandon(v)
  BY <1>1, <1>14, OfOne DEF Abandon, WorkerOK, WorkerFields
<1>15. CASE Crash(v)
  BY <1>1, <1>15 DEF Crash, Idle
<1>16. CASE LoseSession(v)
  BY <1>1, <1>16 DEF LoseSession
<1> QED
  BY <1>2, <1>4, <1>5, <1>6, <1>7, <1>8, <1>9, <1>10, <1>11, <1>12, <1>13, <1>14, <1>15, <1>16

\* wait_after_global_lease, wait and cooldown space the requests of all
\* processes, as long as the process that asked last lives and no session of
\* the lease is lost.
THEOREM RequestsAreSpaced ==
    ASSUME NEW plans, \A p \in plans : SoundPlan(p)
    PROVE  SyncSpec(plans) => RequestsSpaced
<1>1. ASSUME IInv, [SyncNext]_syncVars, NEW w \in Workers, plan.mode = "sync",
             worker[w].phase = "spacing", worker'[w].phase = "sent",
             asked.at # Null, asked.whole, ~dropped
      PROVE  now - asked.at >= plan.interval
  <2>1. Request(w)
    BY <1>1, OnlyRequestAsks
  <2>2. plan.limit <= 1
    BY <1>1 DEF IInv, TypeOK, ControlOK, SoundPlan
  <2>3. CASE \E v \in Workers : worker[v].phase # "idle" /\ worker[v].last = asked.at
    <3>1. PICK v \in Workers : worker[v].phase # "idle" /\ worker[v].last = asked.at
      BY <2>3
    <3>2. v = w
      BY <1>1, <2>2, <3>1, Alone
    <3> QED
      BY <1>1, <2>1, <3>1, <3>2 DEF Request, SinceOwn
  <2> QED
    BY <1>1, <2>3 DEF IInv, Spaced
<1>2. IInv /\ [SyncNext]_syncVars =>
        [\A w \in Workers :
           (plan.mode = "sync" /\ worker[w].phase = "spacing" /\ worker'[w].phase = "sent") =>
             \/ asked.at = Null \/ ~asked.whole \/ dropped
             \/ now - asked.at >= plan.interval]_syncVars
  BY <1>1
<1> QED
  BY <1>2, Invariance, PTL DEF SyncSpec, RequestsSpaced

\* A source that numbers its pages as asked, which the parser does not check
\* and _next_cursor only to end the backfill.
NumberedAsAsked ==
    \A a \in Answers :
      (/\ a.key.endpoint = "schedule" /\ a.status = 200 /\ a.doc # Null
       /\ a.doc.shape \notin EnvelopeFailures) => a.doc.page.number = a.page

\* What is paginated.
OfSchedules(p) == p.mode = "backfill" => \A key \in p.keys : key.endpoint = "schedule"

LEMMA ReadableIsSound ==
    ASSUME NEW r, ~Failed(BatchOf(r))
    PROVE  /\ receipts[r].status = 200 /\ receipts[r].doc # Null
           /\ receipts[r].doc.shape \notin EnvelopeFailures
<1>1. ~Failed(Parse(receipts[r]))
  BY DEF BatchOf, Sourced
<1> QED
  BY <1>1, FailureFails DEF Parse

\* run: every page that the durable checkpoint counts was stored and its facts
\* committed, whoever dies and however many runs race for the checkpoint, when
\* a backfill of a schedule is answered with the page that was asked for.
THEOREM PagesAreNeverSkipped ==
    ASSUME NumberedAsAsked,
           NEW plans, \A p \in plans : SoundPlan(p) /\ OfSchedules(p)
    PROVE  SyncSpec(plans) => []PagesNeverSkipped
<1>1. SyncInit(plans) => OfSchedules(plan)
  BY DEF SyncInit
<1>2. OfSchedules(plan) /\ IInv /\ [SyncNext]_syncVars => OfSchedules(plan)'
  <2>1. ASSUME [SyncNext]_syncVars PROVE UNCHANGED plan
    BY <2>1 DEF SyncNext, syncVars, Tick, Lease, Answer, Request, Unanswered, Abandon, Busy, Refuse,
       BeginPersist, CommitPersist, TurnPage, MoveCheckpoint, Release, Crash, LoseSession, EndSession
  <2> QED
    BY <2>1 DEF OfSchedules
<1>3. ASSUME IInv, OfSchedules(plan), NEW n \in 0..(checkpoint.pages - 1)
      PROVE  \E r \in DOMAIN receipts : Taken(r) /\ receipts[r].doc.page.number = n
  <2>1. PICK r \in DOMAIN receipts, key \in plan.keys : Taken(r) /\ Fetched(r, key, n)
    BY <1>3 DEF IInv, Counted
  <2>2. key.endpoint = "schedule"
    BY <1>3 DEF OfSchedules, IInv, Counted, TypeOK, ControlOK, SoundPlan
  <2>3. PICK a \in Answers :
          /\ a.key = key /\ a.page = n
          /\ receipts[r].status = a.status /\ receipts[r].doc = a.doc
    BY <2>1, <2>2 DEF Fetched, PageNumber
  <2>4. /\ receipts[r].status = 200 /\ receipts[r].doc # Null
        /\ receipts[r].doc.shape \notin EnvelopeFailures
    BY <2>1, ReadableIsSound DEF Taken, Committed
  <2>5. /\ a.key.endpoint = "schedule" /\ a.status = 200 /\ a.doc # Null
        /\ a.doc.shape \notin EnvelopeFailures
    BY <2>2, <2>3, <2>4
  <2>6. a.doc.page.number = a.page
    BY <2>5 DEF NumberedAsAsked
  <2> QED
    BY <2>1, <2>3, <2>6
<1>4. IInv /\ OfSchedules(plan) => PagesNeverSkipped
  BY <1>3 DEF PagesNeverSkipped
<1>5. SyncSpec(plans) => []IInv
  BY Invariance
<1> QED
  BY <1>1, <1>2, <1>4, <1>5, PTL DEF SyncSpec

\* _append_result: a result is final when it was seen again, unchanged and
\* after the time of stability, with nothing else seen in between; it is
\* corrected only once it was final.  So it is for a lease of one slot, which
\* is what the KOVO job asks for (requested_concurrency of its BackfillRunner).
THEOREM FinalityIsEarned ==
    ASSUME NEW plans, \A p \in plans : SoundPlan(p) /\ p.limit <= 1
    PROVE  SyncSpec(plans) => []FinalityEarned
<1>1. SyncInit(plans) => plan.limit <= 1
  BY DEF SyncInit
<1>2. plan.limit <= 1 /\ IInv /\ [SyncNext]_syncVars => (plan.limit <= 1)'
  <2>1. ASSUME [SyncNext]_syncVars PROVE UNCHANGED plan
    BY <2>1 DEF SyncNext, syncVars, Tick, Lease, Answer, Request, Unanswered, Abandon, Busy, Refuse,
       BeginPersist, CommitPersist, TurnPage, MoveCheckpoint, Release, Crash, LoseSession, EndSession
  <2> QED
    BY <2>1
<1>3. ASSUME IInv, plan.limit <= 1 PROVE FinalityEarned
  <2> SUFFICES ASSUME NEW m \in Matches, NEW k \in DOMAIN facts.results[m]
               PROVE  LET row(i) == facts.results[m][i]
                      IN  CASE row(k).finality = "final" ->
                                 /\ k > 1
                                 /\ row(k - 1).finality = "provisional"
                                 /\ Score(row(k)) = Score(row(k - 1))
                                 /\ row(k).at - row(k - 1).at >= Stability
                                 /\ dropped \/ Undisturbed(m, row(k - 1), row(k))
                            [] row(k).finality = "corrected" ->
                                 /\ \E i \in 1..(k - 1) : row(i).finality = "final"
                                 /\ Score(row(k)) # Score(row(k - 1))
                            [] OTHER -> \A i \in 1..(k - 1) : row(i).finality = "provisional"
    BY DEF FinalityEarned
  <2> PICK rows : rows = facts.results[m]
    OBVIOUS
  <2>1. Follows(rows, k)
    BY <1>3 DEF IInv, Chained
  <2>2. CASE rows[k].finality = "final"
    <3>1. k > 1 /\ Score(rows[k]) = Score(rows[k - 1])
      BY <2>1, <2>2 DEF Follows
    <3>2. dropped \/ Undisturbed(m, rows[k - 1], rows[k])
      <4> SUFFICES ASSUME ~dropped, NEW r \in Accepted(m),
                          receipts[r].at > rows[k - 1].at, receipts[r].at < rows[k].at
                   PROVE  Score(BatchOf(r).result) = Score(rows[k])
        BY DEF Undisturbed
      <4>1. DOMAIN rows = 1..Len(rows) /\ Len(rows) \in Nat
        BY <1>3, LenIsNat DEF IInv, TypeOK, TablesOK
      <4>2. k - 1 \in DOMAIN rows /\ (k - 1) + 1 = k
        BY <3>1, <4>1
      <4>3. Agrees(m, r, k - 1)
        BY <1>3, <4>2 DEF IInv, Ordered, Agreed
      <4>4. receipts[r].at \in Nat /\ rows[k - 1].at \in Nat
        BY <1>3, <4>2 DEF IInv, Recorded, Accepted
      <4> QED
        BY <3>1, <4>2, <4>3, <4>4 DEF Agrees
    <3> QED
      BY <2>1, <2>2, <3>2 DEF Follows
  <2>3. CASE rows[k].finality = "corrected"
    BY <2>1, <2>3 DEF Follows
  <2>4. CASE rows[k].finality = "provisional"
    BY <2>1, <2>4 DEF Follows
  <2> QED
    BY <2>1, <2>2, <2>3, <2>4 DEF Follows
<1>4. SyncSpec(plans) => []IInv
  BY Invariance
<1> QED
  BY <1>1, <1>2, <1>3, <1>4, PTL DEF SyncSpec

-----------------------------------------------------------------------------
(* What a reader sees of a table.                                          *)

\* A table's rows, each with the moment at which it was observed.
DatedRows(rows) == IsSequence(rows) /\ \A i \in DOMAIN rows : rows[i].at \in Nat

\* The largest of a bounded set of numbers is one of them.
LEMMA MaxIsOne ==
    ASSUME NEW S \in SUBSET Int, S # {}, NEW b \in Int, \A x \in S : x <= b
    PROVE  Max(S) \in S /\ \A x \in S : x <= Max(S)
<1> DEFINE below == {b - x : x \in S}
<1>1. below \in SUBSET Nat /\ below # {}
  <2>1. \A x \in S : b - x \in Nat
    OBVIOUS
  <2> QED
    BY <2>1
<1>2. PICK n \in below : \A k \in below : n <= k
  <2> HIDE DEF below
  <2> QED
    BY <1>1, MinIsOne
<1>3. PICK x \in S : n = b - x
  OBVIOUS
<1>4. \A y \in S : x >= y
  <2>1. SUFFICES ASSUME NEW y \in S PROVE x >= y
    OBVIOUS
  <2>2. b - y \in below
    OBVIOUS
  <2>3. b - x <= b - y
    BY <1>2, <1>3, <2>2
  <2>4. x \in Int /\ y \in Int
    OBVIOUS
  <2> HIDE DEF below
  <2> QED
    BY <2>3, <2>4
<1>5. \E z \in S : \A y \in S : z >= y
  BY <1>4
<1>6. Max(S) \in S /\ \A y \in S : Max(S) >= y
  BY <1>5 DEF Max
<1> QED
  BY <1>6

LEMMA KnownUntil ==
    ASSUME NEW rows, NEW cutoff, NEW shown, shown = Until(rows, cutoff)
    PROVE  /\ Known(shown, cutoff) = Known(rows, cutoff)
           /\ DOMAIN shown = Known(rows, cutoff)
           /\ \A i \in Known(rows, cutoff) : shown[i] = rows[i]
BY DEF Known, Until, Restrict

\* The latest known row is none or known.
LEMMA LatestIsKnown ==
    ASSUME NEW rows, IsSequence(rows), NEW cutoff, LatestKnown(rows, cutoff) # 0
    PROVE  LatestKnown(rows, cutoff) \in Known(rows, cutoff)
<1> PICK known : known = Known(rows, cutoff)
  OBVIOUS
<1>1. Len(rows) \in Nat /\ DOMAIN rows = 1..Len(rows)
  BY LenIsNat
<1>2. known \in SUBSET Int /\ \A i \in known : i <= Len(rows)
  BY <1>1 DEF Known
<1> PICK all : all = known \cup {0}
  OBVIOUS
<1>3. all \in SUBSET Int /\ all # {} /\ Len(rows) \in Int /\ \A i \in all : i <= Len(rows)
  BY <1>1, <1>2
<1>4. Max(all) \in all
  BY <1>3, MaxIsOne
<1> QED
  BY <1>4 DEF LatestKnown

LEMMA LatestUntil ==
    ASSUME NEW rows, IsSequence(rows), NEW cutoff, NEW shown, shown = Until(rows, cutoff)
    PROVE  /\ LatestKnown(shown, cutoff) = LatestKnown(rows, cutoff)
           /\ LatestKnown(rows, cutoff) # 0 =>
                shown[LatestKnown(shown, cutoff)] = rows[LatestKnown(rows, cutoff)]
<1>1. LatestKnown(shown, cutoff) = LatestKnown(rows, cutoff)
  BY KnownUntil DEF LatestKnown
<1>2. LatestKnown(rows, cutoff) # 0 =>
        shown[LatestKnown(rows, cutoff)] = rows[LatestKnown(rows, cutoff)]
  BY LatestIsKnown, KnownUntil
<1> QED
  BY <1>1, <1>2

-----------------------------------------------------------------------------
(* What a prediction reads.                                                *)

\* A mirror whose rows are dated, and whose schedules have a start.
DatedMirror(db) ==
    /\ \A k \in DOMAIN db.identities : DatedRows(db.identities[k])
    /\ \A m \in Matches : DatedRows(db.schedules[m]) /\ DatedRows(db.results[m])
    /\ \A m \in Matches : \A i \in DOMAIN db.schedules[m] : db.schedules[m][i].start \in Int
    /\ DatedRows(db.coverage)

\* The tables of the mirror up to a cutoff.
LEMMA TablesUntil ==
    ASSUME NEW db, NEW cutoff, NEW seen, seen = ObservedBy(db, cutoff)
    PROVE  /\ DOMAIN seen.identities = DOMAIN db.identities
           /\ \A k \in DOMAIN db.identities : seen.identities[k] = Until(db.identities[k], cutoff)
           /\ \A m \in Matches : /\ seen.schedules[m] = Until(db.schedules[m], cutoff)
                                 /\ seen.results[m] = Until(db.results[m], cutoff)
           /\ seen.rosters = {r \in db.rosters : r.at <= cutoff}
           /\ seen.coverage = Until(db.coverage, cutoff)
BY DEF ObservedBy

LEMMA LatestUntilSays ==
    ASSUME NEW db, DatedMirror(db), NEW cutoff, NEW seen, seen = ObservedBy(db, cutoff),
           NEW m \in Matches
    PROVE  /\ LatestKnown(seen.schedules[m], cutoff) = LatestKnown(db.schedules[m], cutoff)
           /\ LatestKnown(seen.results[m], cutoff) = LatestKnown(db.results[m], cutoff)
           /\ LatestKnown(db.schedules[m], cutoff) # 0 =>
                ScheduleOf(seen, m, cutoff) = ScheduleOf(db, m, cutoff)
           /\ LatestKnown(db.results[m], cutoff) # 0 =>
                ResultOf(seen, m, cutoff) = ResultOf(db, m, cutoff)
<1>1. IsSequence(db.schedules[m]) /\ IsSequence(db.results[m])
  BY DEF DatedMirror, DatedRows
<1>2. /\ seen.schedules[m] = Until(db.schedules[m], cutoff)
      /\ seen.results[m] = Until(db.results[m], cutoff)
  BY TablesUntil
<1> QED
  BY <1>1, <1>2, LatestUntil DEF ScheduleOf, ResultOf

\* The coverage row that a reader takes.
LEMMA CoverageUntil ==
    ASSUME NEW db, DatedMirror(db), NEW cutoff \in Int, NEW seen, seen = ObservedBy(db, cutoff),
           NEW m, NEW kind
    PROVE  LatestCoverage(seen, m, kind, cutoff) = LatestCoverage(db, m, kind, cutoff)
<1> PICK cov : cov = db.coverage
  OBVIOUS
<1> PICK shown : shown = seen.coverage
  OBVIOUS
<1> PICK known : known = Known(cov, cutoff)
  OBVIOUS
<1> PICK rows : rows = {i \in known : CoverageOf(m, kind, cov[i]) # {}}
  OBVIOUS
<1> PICK last : last = {i \in rows : \A j \in rows : cov[j].at <= cov[i].at}
  OBVIOUS
<1>1. Known(shown, cutoff) = known /\ \A i \in known : shown[i] = cov[i]
  BY TablesUntil, KnownUntil
<1>4. LatestCoverage(seen, m, kind, cutoff) =
        IF rows = {} THEN NoCoverage ELSE CHOOSE c \in CoverageOf(m, kind, shown[Max(last)]) : TRUE
  <2> DEFINE A == {i \in Known(shown, cutoff) : CoverageOf(m, kind, shown[i]) # {}}
             B == {i \in A : \A j \in A : shown[j].at <= shown[i].at}
  <2>1. LatestCoverage(seen, m, kind, cutoff) =
          IF A = {} THEN NoCoverage ELSE CHOOSE c \in CoverageOf(m, kind, shown[Max(B)]) : TRUE
    BY DEF LatestCoverage
  <2>2. A = rows
    BY <1>1
  <2>3. B = last
    <3> HIDE DEF A
    <3> QED
      BY <1>1, <2>2
  <2> HIDE DEF A, B
  <2> QED
    BY <2>1, <2>2, <2>3
<1>5. LatestCoverage(db, m, kind, cutoff) =
        IF rows = {} THEN NoCoverage ELSE CHOOSE c \in CoverageOf(m, kind, cov[Max(last)]) : TRUE
  BY DEF LatestCoverage
<1>6. CASE rows = {}
  BY <1>4, <1>5, <1>6
<1>7. CASE rows # {}
  <2>1. Len(cov) \in Nat /\ DOMAIN cov = 1..Len(cov) /\ \A i \in DOMAIN cov : cov[i].at \in Nat
    BY LenIsNat DEF DatedMirror, DatedRows
  <2>2. \A i \in rows : i \in Int /\ i <= Len(cov) /\ cov[i].at \in Int /\ cov[i].at <= cutoff
    BY <2>1 DEF Known
  <2> PICK times : times = {cov[i].at : i \in rows}
    OBVIOUS
  <2>3. times \in SUBSET Int /\ times # {} /\ \A t \in times : t <= cutoff
    BY <1>7, <2>2
  <2>4. Max(times) \in times /\ \A t \in times : t <= Max(times)
    BY <2>3, MaxIsOne
  <2>5. PICK i \in rows : cov[i].at = Max(times)
    BY <2>4
  <2>6. i \in last
    BY <2>4, <2>5
  <2>7. last \in SUBSET Int /\ last # {} /\ Len(cov) \in Int /\ \A k \in last : k <= Len(cov)
    <3>1. \A k \in last : k \in rows
      OBVIOUS
    <3>2. \A k \in last : k \in Int /\ k <= Len(cov)
      BY <2>2, <3>1
    <3>3. Len(cov) \in Int
      BY <2>1
    <3> QED
      BY <2>6, <3>2, <3>3
  <2>8. Max(last) \in known
    BY <2>7, MaxIsOne
  <2> QED
    BY <1>1, <1>4, <1>5, <2>8
<1> QED
  BY <1>6, <1>7

LEMMA CoveredUntil ==
    ASSUME NEW db, DatedMirror(db), NEW cutoff \in Int, NEW seen, seen = ObservedBy(db, cutoff)
    PROVE  \A m, kind, raw :
             Covered(seen, m, kind, cutoff, raw) <=> Covered(db, m, kind, cutoff, raw)
BY CoverageUntil DEF Covered

\* The history.
LEMMA HistoryUntil ==
    ASSUME NEW db, DatedMirror(db), NEW target, target.cutoff \in Int,
           NEW seen, seen = ObservedBy(db, target.cutoff)
    PROVE  AssembledHistory(seen, target) = AssembledHistory(db, target)
<1> PICK cutoff \in Int : cutoff = target.cutoff
  OBVIOUS
<1> DEFINE R(d, m) == ResultOf(d, m, cutoff)
           C(d, m, kind, raw) == Covered(d, m, kind, cutoff, raw)
<1>1. \A m, kind, raw : C(seen, m, kind, raw) <=> C(db, m, kind, raw)
  BY CoveredUntil
<1>2. ASSUME NEW m \in Matches
      PROVE  /\ LatestKnown(seen.schedules[m], cutoff) = LatestKnown(db.schedules[m], cutoff)
             /\ LatestKnown(seen.results[m], cutoff) = LatestKnown(db.results[m], cutoff)
             /\ LatestKnown(db.schedules[m], cutoff) # 0 =>
                  ScheduleOf(seen, m, cutoff) = ScheduleOf(db, m, cutoff)
             /\ LatestKnown(db.results[m], cutoff) # 0 => R(seen, m) = R(db, m)
  BY LatestUntilSays
<1>3. HistoryRows(seen, target) = HistoryRows(db, target)
  <2> DEFINE H(d, m) == /\ LatestKnown(d.schedules[m], cutoff) # 0
                        /\ LatestKnown(d.results[m], cutoff) # 0
                        /\ ScheduleOf(d, m, cutoff).season = target.season
                        /\ ScheduleOf(d, m, cutoff).start < cutoff
                        /\ C(d, m, "match_result", R(d, m).raw)
  <2>1. \A m \in Matches : H(seen, m) <=> H(db, m)
    <3> HIDE DEF C, R
    <3> QED
      BY <1>1, <1>2
  <2>2. HistoryRows(seen, target) = {m \in Matches \ {target.match} : H(seen, m)}
    BY DEF HistoryRows
  <2>3. HistoryRows(db, target) = {m \in Matches \ {target.match} : H(db, m)}
    BY DEF HistoryRows
  <2> HIDE DEF H
  <2> QED
    BY <2>1, <2>2, <2>3
<1>4. ASSUME NEW m \in HistoryRows(db, target)
      PROVE  /\ ScheduleOf(seen, m, cutoff) = ScheduleOf(db, m, cutoff)
             /\ R(seen, m) = R(db, m)
  <2>1. /\ m \in Matches /\ LatestKnown(db.schedules[m], cutoff) # 0
        /\ LatestKnown(db.results[m], cutoff) # 0
    BY DEF HistoryRows
  <2> HIDE DEF R
  <2> QED
    BY <1>2, <2>1
<1>5. ASSUME NEW m \in HistoryRows(db, target)
      PROVE  HistoricalMatch(seen, m, target) = HistoricalMatch(db, m, target)
  <2> PICK result : result = R(seen, m) /\ result = R(db, m)
    BY <1>4
  <2>1. \A kind, rows :
          VerifiedRows(seen, m, kind, rows, target) = VerifiedRows(db, m, kind, rows, target)
    <3>1. \A kind : C(seen, m, kind, R(seen, m).raw) <=> C(db, m, kind, R(db, m).raw)
      <4> HIDE DEF C, R
      <4> QED
        BY <1>1
    <3> QED
      BY <3>1 DEF VerifiedRows
  <2>2. TeamStats(seen, m, target) = TeamStats(db, m, target)
    BY <2>1 DEF TeamStats
  <2>3. PlayerStats(seen, m, target) = PlayerStats(db, m, target)
    BY <2>1 DEF PlayerStats
  <2>4. HistoricalRosters(seen, m, target) = HistoricalRosters(db, m, target)
    <3>1. seen.rosters = {r \in db.rosters : r.at <= cutoff}
      BY TablesUntil
    <3>2. {r \in seen.rosters : r.raw = result.raw /\ r.at <= cutoff}
            = {r \in db.rosters : r.raw = result.raw /\ r.at <= cutoff}
      BY <3>1
    <3>3. \A d : HistoricalRosters(d, m, target) =
            IF C(d, m, "roster", R(d, m).raw)
            THEN {r \in d.rosters : r.raw = R(d, m).raw /\ r.at <= cutoff} ELSE {}
      BY DEF HistoricalRosters
    <3> HIDE DEF C, R
    <3> QED
      BY <1>1, <3>2, <3>3
  <2>5. ScheduleOf(seen, m, cutoff) = ScheduleOf(db, m, cutoff)
    BY <1>4
  <2> QED
    BY <2>2, <2>3, <2>4, <2>5 DEF HistoricalMatch
<1>6. {h \in HistoryRows(seen, target) :
          /\ R(seen, h).at >= ScheduleOf(seen, h, cutoff).start
          /\ ValidSetSummary(R(seen, h))}
        = {h \in HistoryRows(db, target) :
             /\ R(db, h).at >= ScheduleOf(db, h, cutoff).start
             /\ ValidSetSummary(R(db, h))}
  <2> HIDE DEF R
  <2> QED
    BY <1>3, <1>4
<1> PICK kept : kept = {h \in HistoryRows(db, target) :
                          /\ R(db, h).at >= ScheduleOf(db, h, cutoff).start
                          /\ ValidSetSummary(R(db, h))}
  OBVIOUS
<1>7. /\ AssembledHistory(seen, target) = {HistoricalMatch(seen, m, target) : m \in kept}
      /\ AssembledHistory(db, target) = {HistoricalMatch(db, m, target) : m \in kept}
  BY <1>6 DEF AssembledHistory
<1>8. \A m \in kept : HistoricalMatch(seen, m, target) = HistoricalMatch(db, m, target)
  BY <1>5
<1> QED
  BY <1>7, <1>8

\* The rosters of the target itself.
LEMMA TargetRostersUntil ==
    ASSUME NEW db, DatedMirror(db), NEW target, target.cutoff \in Int,
           NEW seen, seen = ObservedBy(db, target.cutoff)
    PROVE  TargetRosters(seen, target) = TargetRosters(db, target)
<1> PICK coverage : coverage = LatestCoverage(db, target.match, "roster", target.cutoff)
  OBVIOUS
<1>1. LatestCoverage(seen, target.match, "roster", target.cutoff) = coverage
  BY CoverageUntil
<1>2. seen.rosters = {r \in db.rosters : r.at <= target.cutoff}
  BY TablesUntil
<1> QED
  BY <1>1, <1>2 DEF TargetRosters

\* The Elo timeline.
LEMMA OnTimeUntil ==
    ASSUME NEW db, DatedMirror(db), NEW target, target.cutoff \in Int, target.lead \in Int,
           NEW seen, seen = ObservedBy(db, target.cutoff), NEW m \in Matches
    PROVE  /\ OnTime(seen, m, target) = OnTime(db, m, target)
           /\ OnTime(db, m, target) # {} =>
                LET last == Max(OnTime(db, m, target))
                IN  /\ last \in OnTime(db, m, target)
                    /\ seen.schedules[m][last] = db.schedules[m][last]
<1> PICK rows : rows = db.schedules[m]
  OBVIOUS
<1> PICK shown : shown = seen.schedules[m]
  OBVIOUS
<1>1. shown = Until(rows, target.cutoff)
  BY TablesUntil
<1>2. /\ DOMAIN shown = Known(rows, target.cutoff)
      /\ \A i \in Known(rows, target.cutoff) : shown[i] = rows[i]
  BY <1>1, KnownUntil
<1>3. \A i \in DOMAIN rows : rows[i].at \in Int /\ rows[i].start \in Int
  BY DEF DatedMirror, DatedRows
<1>4. OnTime(db, m, target) \subseteq Known(rows, target.cutoff)
  BY <1>3 DEF OnTime, Known
<1>5. OnTime(seen, m, target) = OnTime(db, m, target)
  BY <1>2, <1>4 DEF OnTime, Known
<1>6. ASSUME OnTime(db, m, target) # {}
      PROVE  Max(OnTime(db, m, target)) \in OnTime(db, m, target)
  <2>1. Len(rows) \in Nat /\ DOMAIN rows = 1..Len(rows)
    BY LenIsNat DEF DatedMirror, DatedRows
  <2> PICK S : S = OnTime(db, m, target)
    OBVIOUS
  <2>2. \A i \in S : i \in DOMAIN rows
    BY DEF OnTime
  <2>3. S \in SUBSET Int /\ S # {} /\ Len(rows) \in Int /\ \A i \in S : i <= Len(rows)
    BY <1>6, <2>1, <2>2
  <2> QED
    BY <2>3, MaxIsOne
<1> QED
  BY <1>2, <1>4, <1>5, <1>6

LEMMA IdentifiedUntil ==
    ASSUME NEW db, DatedMirror(db), NEW target, target.cutoff \in Int, target.lead \in Int,
           NEW seen, seen = ObservedBy(db, target.cutoff), NEW m \in Matches,
           OnTime(db, m, target) # {}
    PROVE  Identified(seen, m, target) <=> Identified(db, m, target)
<1> PICK last : last = Max(OnTime(db, m, target))
  OBVIOUS
<1> PICK schedule : schedule = db.schedules[m][last]
  OBVIOUS
<1> PICK own : own = schedule.start - target.lead
  OBVIOUS
<1>1. /\ last \in OnTime(db, m, target) /\ schedule = seen.schedules[m][last]
      /\ last = Max(OnTime(seen, m, target))
  BY OnTimeUntil
<1>2. schedule.start \in Int /\ own \in Int /\ own <= target.cutoff
  <2>1. last \in DOMAIN db.schedules[m] /\ schedule.start - target.lead <= target.cutoff
    BY <1>1 DEF OnTime
  <2>2. schedule.start \in Int
    BY <2>1 DEF DatedMirror
  <2> QED
    BY <2>1, <2>2
<1>3. ASSUME NEW key
      PROVE  Known(Revisions(seen.identities, key), own) = Known(Revisions(db.identities, key), own)
  <2>1. DOMAIN seen.identities = DOMAIN db.identities
    BY TablesUntil
  <2>2. CASE key \notin DOMAIN db.identities
    BY <2>1, <2>2 DEF Revisions
  <2>3. CASE key \in DOMAIN db.identities
    <3> PICK rows : rows = db.identities[key]
      OBVIOUS
    <3> PICK shown : shown = seen.identities[key]
      OBVIOUS
    <3>1. shown = Until(rows, target.cutoff)
      BY <2>3, TablesUntil
    <3>2. /\ DOMAIN shown = Known(rows, target.cutoff)
          /\ \A i \in Known(rows, target.cutoff) : shown[i] = rows[i]
      BY <3>1, KnownUntil
    <3>3. \A i \in DOMAIN rows : rows[i].at \in Int
      BY <2>3 DEF DatedMirror, DatedRows
    <3>4. Known(shown, own) = Known(rows, own)
      BY <1>2, <3>2, <3>3 DEF Known
    <3> QED
      BY <2>1, <2>3, <3>4 DEF Revisions
  <2> QED
    BY <2>2, <2>3
<1>4. ASSUME NEW d, d.schedules[m][Max(OnTime(d, m, target))] = schedule
      PROVE  Identified(d, m, target) <=>
               \A team \in {schedule.home, schedule.away} :
                 Known(Revisions(d.identities, <<"team", team>>), own) # {}
  BY ONLY <1>4, own = schedule.start - target.lead DEF Identified
<1>5. Identified(seen, m, target) <=>
        \A team \in {schedule.home, schedule.away} :
          Known(Revisions(seen.identities, <<"team", team>>), own) # {}
  BY <1>1, <1>4
<1>6. Identified(db, m, target) <=>
        \A team \in {schedule.home, schedule.away} :
          Known(Revisions(db.identities, <<"team", team>>), own) # {}
  BY <1>1, <1>4
<1> QED
  BY <1>3, <1>5, <1>6

LEMMA EloResultsUntil ==
    ASSUME NEW db, DatedMirror(db), NEW target, target.cutoff \in Int,
           NEW seen, seen = ObservedBy(db, target.cutoff), NEW m \in Matches
    PROVE  EloResults(seen, m, target) = EloResults(db, m, target)
<1> PICK cutoff \in Int : cutoff = target.cutoff
  OBVIOUS
<1> DEFINE Evident(d, row) ==
             \E t \in {d.coverage[c] : c \in Known(d.coverage, cutoff)} :
               \E c \in CoverageOf(m, "match_result", t) :
                 c.raw = row.raw /\ c.availability = "available"
           Rows(d) == {d.results[m][i] : i \in {k \in Known(d.results[m], cutoff) :
                                                   Evident(d, d.results[m][k])}}
           Latest(d) == LatestKnown(d.results[m], cutoff)
           Backed(d) == Covered(d, m, "match_result", cutoff, ResultOf(d, m, cutoff).raw)
<1>1. \A d : EloResults(d, m, target) =
        IF Latest(d) = 0 THEN {} ELSE IF ~Backed(d) THEN {} ELSE Rows(d)
  BY DEF EloResults
<1>2. Latest(seen) = Latest(db)
  BY LatestUntilSays
<1>3. Latest(db) # 0 => (Backed(seen) <=> Backed(db))
  BY LatestUntilSays, CoveredUntil
<1>4. /\ Known(seen.coverage, cutoff) = Known(db.coverage, cutoff)
      /\ \A c \in Known(db.coverage, cutoff) : seen.coverage[c] = db.coverage[c]
  BY TablesUntil, KnownUntil
<1>5. /\ Known(seen.results[m], cutoff) = Known(db.results[m], cutoff)
      /\ \A i \in Known(db.results[m], cutoff) : seen.results[m][i] = db.results[m][i]
  BY TablesUntil, KnownUntil
<1>6. {seen.coverage[c] : c \in Known(seen.coverage, cutoff)}
        = {db.coverage[c] : c \in Known(db.coverage, cutoff)}
  BY <1>4
<1>7. \A row : Evident(seen, row) <=> Evident(db, row)
  BY <1>6
<1>8. Rows(seen) = Rows(db)
  <2> HIDE DEF Evident
  <2> QED
    BY <1>5, <1>7
<1> HIDE DEF Rows, Latest, Backed
<1> QED
  BY <1>1, <1>2, <1>3, <1>8

LEMMA TimelineUntil ==
    ASSUME NEW db, DatedMirror(db), NEW target, target.cutoff \in Int, target.lead \in Int,
           NEW seen, seen = ObservedBy(db, target.cutoff)
    PROVE  EloTimeline(seen, target) = EloTimeline(db, target)
<1> DEFINE Entry(d, m) ==
             [match |-> m, schedule |-> d.schedules[m][Max(OnTime(d, m, target))],
              identified |-> Identified(d, m, target), results |-> EloResults(d, m, target)]
<1> PICK entered : entered = {n \in Matches : OnTime(db, n, target) # {}}
  OBVIOUS
<1>1. {n \in Matches : OnTime(seen, n, target) # {}} = entered
  BY OnTimeUntil
<1>2. \A d : EloTimeline(d, target) =
               {Entry(d, m) : m \in {n \in Matches : OnTime(d, n, target) # {}}}
  BY DEF EloTimeline
<1>3. ASSUME NEW m \in entered PROVE Entry(seen, m) = Entry(db, m)
  <2>1. m \in Matches /\ OnTime(db, m, target) # {}
    OBVIOUS
  <2>2. seen.schedules[m][Max(OnTime(seen, m, target))]
          = db.schedules[m][Max(OnTime(db, m, target))]
    BY <2>1, OnTimeUntil
  <2>3. Identified(seen, m, target) = Identified(db, m, target)
    <3>1. Identified(seen, m, target) <=> Identified(db, m, target)
      BY <2>1, IdentifiedUntil
    <3> QED
      BY <3>1 DEF Identified
  <2>4. EloResults(seen, m, target) = EloResults(db, m, target)
    BY <2>1, EloResultsUntil
  <2> QED
    BY <2>2, <2>3, <2>4
<1>4. EloTimeline(seen, target) = {Entry(seen, m) : m \in entered}
  <2> HIDE DEF Entry
  <2> QED
    BY <1>1, <1>2
<1>5. EloTimeline(db, target) = {Entry(db, m) : m \in entered}
  BY <1>2
<1> HIDE DEF Entry
<1> QED
  BY <1>3, <1>4, <1>5

\* What a prediction reads of a mirror with dates is what was observed by the
\* cutoff.
LEMMA ViewUntil ==
    ASSUME NEW db, DatedMirror(db), NEW target, target.cutoff \in Int, target.lead \in Int
    PROVE  View(db, target) = View(ObservedBy(db, target.cutoff), target)
<1> PICK seen : seen = ObservedBy(db, target.cutoff)
  OBVIOUS
<1>1. AssembledHistory(seen, target) = AssembledHistory(db, target)
  BY HistoryUntil
<1>2. TargetRosters(seen, target) = TargetRosters(db, target)
  BY TargetRostersUntil
<1>3. EloTimeline(seen, target) = EloTimeline(db, target)
  BY TimelineUntil
<1> QED
  BY <1>1, <1>2, <1>3 DEF View, Snapshot

-----------------------------------------------------------------------------
(* The mirror has dates.                                                   *)

\* A game that the parser does not refuse for its date has one.
Dated(row) == row.shape \in ShapeFailures \cup DateFailures \/ row.start \in Int

DatedAnswers ==
    \A a \in Answers :
      (a.status = 200 /\ a.doc # Null /\ a.doc.shape \notin EnvelopeFailures) =>
        /\ a.key.endpoint = "schedule" => \A i \in DOMAIN a.doc.content : Dated(a.doc.content[i])
        /\ a.key.endpoint \notin {"seasons", "schedule"} => Dated(a.doc.game)

HasStart(fact) == "start" \in DOMAIN fact /\ fact.start \in Int

LEMMA GameStarts ==
    ASSUME NEW key, NEW row, Dated(row), NEW game, game = ParseGameRow(key, row), ~Failed(game)
    PROVE  HasStart(MatchFact(game))
<1>1. game.row = row
  BY GameRowSays
<1>2. row.shape \notin ShapeFailures \cup DateFailures
  BY FailureFails DEF ParseGameRow
<1> QED
  BY <1>1, <1>2 DEF Dated, MatchFact, HasStart

\* A batch of games has the starts of its games.
LEMMA BatchStarts ==
    ASSUME NEW games, \A g \in games : HasStart(MatchFact(g))
    PROVE  \A f \in BatchFromGames(games).matches : HasStart(f)
<1> DEFINE verified == {g \in games : g.verified}
<1>1. BatchFromGames(games).matches = {MatchFact(g) : g \in verified}
  BY DEF BatchFromGames, Empty
<1> QED
  BY <1>1

LEMMA MatchesStart ==
    ASSUME DatedAnswers, NEW r, NEW key, NEW cursor, Fetched(r, key, cursor), ~Failed(BatchOf(r))
    PROVE  \A f \in BatchOf(r).matches : HasStart(f)
<1> PICK parsed : parsed = Parse(receipts[r])
  OBVIOUS
<1> PICK k : k = receipts[r].key
  OBVIOUS
<1> PICK doc : doc = receipts[r].doc
  OBVIOUS
<1>1. ~Failed(parsed) /\ BatchOf(r).matches = parsed.matches
  <2>1. BatchOf(r) = Sourced(parsed, r)
    BY DEF BatchOf
  <2>2. ~Failed(parsed)
    BY <2>1 DEF Sourced
  <2>3. BatchOf(r) = [f \in {"raw", "at"} \cup DOMAIN parsed |->
                        IF f = "raw" THEN r ELSE IF f = "at" THEN receipts[r].at ELSE parsed[f]]
    BY <2>1, <2>2 DEF Sourced, Observed
  <2> QED
    BY <2>2, <2>3, ParsedFields
<1>2. /\ k.endpoint = "schedule" => \A i \in DOMAIN doc.content : Dated(doc.content[i])
      /\ k.endpoint \notin {"seasons", "schedule"} => Dated(doc.game)
  <2>1. PICK a \in Answers : k = a.key /\ receipts[r].status = a.status /\ doc = a.doc
    BY DEF Fetched
  <2>2. a.status = 200 /\ a.doc # Null /\ a.doc.shape \notin EnvelopeFailures
    <3>1. /\ receipts[r].status = 200 /\ receipts[r].doc # Null
          /\ receipts[r].doc.shape \notin EnvelopeFailures
      BY ReadableIsSound
    <3> QED
      BY <2>1, <3>1
  <2> QED
    BY <2>1, <2>2 DEF DatedAnswers
<1>3. IF k.endpoint = "seasons" THEN parsed = ParseSeasons(k, doc)
      ELSE IF k.endpoint = "schedule" THEN parsed = ParseSchedule(k, doc)
      ELSE parsed = ParseDetail(k, doc)
  BY <1>1, FailureFails DEF Parse
<1>4. CASE k.endpoint = "seasons"
  <2>1. parsed.matches = {}
    BY <1>1, <1>3, <1>4, FailureFails DEF ParseSeasons, Empty
  <2> QED
    BY <1>1, <2>1
<1>5. CASE k.endpoint = "schedule"
  <2> PICK games : games = [i \in DOMAIN doc.content |-> ParseGameRow(k, doc.content[i])]
    OBVIOUS
  <2>1. parsed = SchedulePage(doc, games)
    BY <1>3, <1>5 DEF ParseSchedule
  <2>2. parsed = BatchFromGames(Range(games)) /\ {i \in DOMAIN games : Failed(games[i])} = {}
    BY <1>1, <2>1, FailureFails DEF SchedulePage
  <2>3. ASSUME NEW g \in Range(games) PROVE HasStart(MatchFact(g))
    <3>1. PICK i \in DOMAIN games : g = games[i]
      BY DEF Range
    <3>2. i \in DOMAIN doc.content /\ g = ParseGameRow(k, doc.content[i])
      BY <3>1
    <3>3. ~Failed(g)
      BY <2>2, <3>1
    <3> QED
      BY <1>2, <1>5, <3>2, <3>3, GameStarts
  <2> QED
    BY <1>1, <2>2, <2>3, BatchStarts
<1>6. CASE k.endpoint \notin {"seasons", "schedule"}
  <2> PICK game : game = ParseGameRow(k, doc.game)
    OBVIOUS
  <2>1. parsed = DetailOf(doc, game, DetailFailures(doc, game))
    BY <1>3, <1>6 DEF ParseDetail, ParseGameDetail
  <2>2. ~Failed(game)
    BY <1>1, <2>1 DEF DetailOf
  <2>3. PICK inner : parsed = AcceptedDetail(doc, game, inner)
    BY <1>1, <2>1, <2>2, FailureFails DEF DetailOf
  <2>4. parsed.matches = BatchFromGames({game}).matches
    BY <2>3 DEF AcceptedDetail, DetailBatch, BatchFromGames, Empty
  <2>5. \A g \in {game} : HasStart(MatchFact(g))
    BY <1>2, <1>6, <2>2, GameStarts
  <2> QED
    BY <1>1, <2>4, <2>5, BatchStarts
<1> QED
  BY <1>4, <1>5, <1>6

\* A row of now behind dated rows.
LEMMA DatedGrows ==
    ASSUME NEW rows, DatedRows(rows), NEW row, row.at \in Nat
    PROVE  /\ DatedRows(Append(rows, row))
           /\ \A i \in DOMAIN Append(rows, row) :
                \/ i \in DOMAIN rows /\ Append(rows, row)[i] = rows[i]
                \/ Append(rows, row)[i] = row
<1> PICK t : t = Append(rows, row)
  OBVIOUS
<1>1. Extends(t, rows, row)
  BY Appended DEF DatedRows
<1>2. \A i \in DOMAIN t : (i \in DOMAIN rows /\ t[i] = rows[i]) \/ t[i] = row
  BY <1>1 DEF Extends
<1> QED
  BY <1>1, <1>2 DEF DatedRows, Extends

LEMMA NoneIsDated == DatedRows(<<>>)
BY DEF DatedRows, IsSequence

\* Identities.
LEMMA IdentitiesDated ==
    ASSUME NEW table, \A k \in DOMAIN table : DatedRows(table[k]), NEW batch, batch.at \in Nat,
           NEW after, after = IdentitiesAfter(table, batch)
    PROVE  \A k \in DOMAIN after : DatedRows(after[k])
<1>1. ASSUME NEW old, DatedRows(old), NEW shown PROVE DatedRows(Shown(old, shown, batch))
  <2> PICK row : row = [shown |-> shown, at |-> batch.at, raw |-> batch.raw]
    OBVIOUS
  <2>1. DatedRows(Append(old, row))
    BY <1>1, DatedGrows
  <2> QED
    BY <1>1, <2>1 DEF Shown
<1>2. \A k : DatedRows(Revisions(table, k))
  BY NoneIsDated DEF Revisions
<1>3. PICK shown : after = [k \in DOMAIN table \cup DOMAIN shown |->
           IF k \in DOMAIN shown THEN Shown(Revisions(table, k), shown[k], batch) ELSE table[k]]
  BY DEF IdentitiesAfter
<1> QED
  BY <1>1, <1>2, <1>3

\* Schedules.
Started(rows) == \A i \in DOMAIN rows : rows[i].start \in Int

LEMMA SchedulesDated ==
    ASSUME NEW table, \A m \in Matches : DatedRows(table[m]) /\ Started(table[m]),
           NEW batch, batch.at \in Nat, \A f \in batch.matches : HasStart(f),
           NEW after, after = SchedulesAfter(table, batch)
    PROVE  \A m \in Matches : DatedRows(after[m]) /\ Started(after[m])
<1> SUFFICES ASSUME NEW m \in Matches PROVE DatedRows(after[m]) /\ Started(after[m])
  OBVIOUS
<1>1. CASE ~ \E f \in batch.matches : f.match = m
  BY <1>1 DEF SchedulesAfter
<1>2. CASE \E f \in batch.matches : f.match = m
  <2> PICK fact : fact = CHOOSE f \in batch.matches : f.match = m
    OBVIOUS
  <2> PICK row : row = Observed(fact, batch.raw, batch.at)
    OBVIOUS
  <2>1. fact \in batch.matches
    BY <1>2
  <2> PICK old : old = table[m]
    OBVIOUS
  <2>2. row.at = batch.at /\ row.start = fact.start
    BY <2>1 DEF HasStart, Observed
  <2>3. DatedRows(Append(old, row)) /\ Started(Append(old, row))
    <3> PICK t : t = Append(old, row)
      OBVIOUS
    <3>1. DatedRows(t) /\ \A i \in DOMAIN t : (i \in DOMAIN old /\ t[i] = old[i]) \/ t[i] = row
      BY <2>1, <2>2, DatedGrows
    <3>2. Started(old) /\ row.start \in Int
      BY <2>1, <2>2 DEF HasStart
    <3> QED
      BY <3>1, <3>2 DEF Started
  <2>4. after[m] = MatchRevision(old, fact, batch)
    BY <1>2 DEF SchedulesAfter
  <2> QED
    BY <2>3, <2>4 DEF MatchRevision
<1> QED
  BY <1>1, <1>2

\* A quarantined receipt adds a row of coverage.
LEMMA QuarantineDated ==
    ASSUME IInv, IInv', DatedMirror(facts), NEW raw \in DOMAIN receipts, NEW availability,
           Quarantine(raw, availability)
    PROVE  DatedMirror(facts')
<1> PICK row : row = [at |-> receipts[raw].at, raw |-> raw,
                      rows |-> {[match |-> Null, kind |-> "source_contract",
                                 availability |-> availability]}]
  OBVIOUS
<1>1. row.at \in Nat
  BY DEF IInv, Recorded
<1>2. facts' = [facts EXCEPT !.coverage = Append(facts.coverage, row)]
  BY DEF Quarantine
<1>3. facts = [f \in FactFields |-> facts[f]]
  BY DEF IInv, TypeOK, TablesOK
<1>4. /\ facts'.identities = facts.identities /\ facts'.schedules = facts.schedules
      /\ facts'.results = facts.results
      /\ facts'.coverage = Append(facts.coverage, row)
  BY <1>2, <1>3 DEF FactFields
<1>5. DatedRows(facts'.coverage)
  BY <1>1, <1>4, DatedGrows DEF DatedMirror
<1> QED
  BY <1>4, <1>5 DEF DatedMirror

\* So do the facts of a batch.
LEMMA PersistDated ==
    ASSUME DatedAnswers, IInv, IInv', DatedMirror(facts), NEW raw \in DOMAIN receipts,
           NEW key, NEW cursor, Fetched(raw, key, cursor), NEW batch, batch = BatchOf(raw),
           ~Failed(batch), NEW seen, facts' = Persist(facts, batch, seen)
    PROVE  DatedMirror(facts')
<1>1. batch.at \in Nat
  <2>1. batch.at = receipts[raw].at
    BY BatchSays
  <2> QED
    BY <2>1 DEF IInv, Recorded
<1>2. \A f \in batch.matches : HasStart(f)
  BY MatchesStart
<1>3. /\ facts'.identities = IdentitiesAfter(facts.identities, batch)
      /\ facts'.schedules = SchedulesAfter(facts.schedules, batch)
      /\ facts'.coverage = Append(facts.coverage, Evidence(batch))
  BY DEF Persist
<1>4. \A k \in DOMAIN facts'.identities : DatedRows(facts'.identities[k])
  BY <1>1, <1>3, IdentitiesDated DEF DatedMirror
<1>5. \A m \in Matches : DatedRows(facts'.schedules[m]) /\ Started(facts'.schedules[m])
  <2> PICK table : table = facts.schedules
    OBVIOUS
  <2>1. \A m \in Matches : DatedRows(table[m]) /\ Started(table[m])
    BY DEF DatedMirror, Started
  <2> QED
    BY <1>1, <1>2, <1>3, <2>1, SchedulesDated
<1>6. \A m \in Matches : DatedRows(facts'.results[m])
  BY DEF IInv, TypeOK, TablesOK, Recorded, DatedRows
<1>7. DatedRows(facts'.coverage)
  <2> PICK row : row = Evidence(batch)
    OBVIOUS
  <2>1. row.at \in Nat
    BY <1>1 DEF Evidence
  <2> QED
    BY <1>3, <2>1, DatedGrows DEF DatedMirror
<1> QED
  BY <1>4, <1>5, <1>6, <1>7 DEF DatedMirror, Started

LEMMA MirrorStaysDated ==
    ASSUME DatedAnswers, IInv, IInv', DatedMirror(facts), [SyncNext]_syncVars
    PROVE  DatedMirror(facts')
<1>1. ASSUME NEW w \in Workers, Refuse(w) PROVE DatedMirror(facts')
  <2>1. worker[w].raw \in DOMAIN receipts
    BY <1>1, OfOne DEF Refuse, Holds, Holding
  <2> QED
    BY <1>1, <2>1, QuarantineDated DEF Refuse
<1>2. ASSUME NEW w \in Workers, CommitPersist(w) PROVE DatedMirror(facts')
  <2> PICK u : u = worker[w]
    OBVIOUS
  <2> PICK batch : batch = BatchOf(u.raw)
    OBVIOUS
  <2>1. u.raw \in DOMAIN receipts /\ Fetched(u.raw, u.key, u.cursor) /\ ~Failed(batch)
    BY <1>2, OfOne DEF CommitPersist, Holds, Holding
  <2>2. \/ Quarantine(u.raw, "unverified")
        \/ facts' = Persist(facts, batch, u.seen)
    BY <1>2 DEF CommitPersist
  <2> QED
    BY <2>1, <2>2, QuarantineDated, PersistDated
<1>3. ASSUME UNCHANGED facts PROVE DatedMirror(facts')
  BY <1>3
<1>4. ASSUME [SyncNext]_syncVars,
             ~ \E w \in Workers : Refuse(w) \/ CommitPersist(w)
      PROVE  UNCHANGED facts
  BY <1>4 DEF SyncNext, syncVars, Tick, Lease, Answer, Request, Unanswered, Abandon, Busy,
     BeginPersist, TurnPage, MoveCheckpoint, Release, Crash, LoseSession, EndSession
<1> QED
  BY <1>1, <1>2, <1>3, <1>4

\* The predictions: what a target reads of the mirror is at every moment what
\* it would read if no receipt had been observed after its cutoff.  Whatever
\* is fetched, repeated, corrected or quarantined later, in whatever order
\* and by however many workers, a prediction as of the cutoff comes out the
\* same, as a replay of it must.
THEOREM NothingLeaks ==
    ASSUME DatedAnswers, NEW plans, \A p \in plans : SoundPlan(p)
    PROVE  SyncSpec(plans) => []LeakFree
<1>1. SyncInit(plans) => DatedMirror(facts)
  <2>1. SyncInit(plans) => facts = NoFacts
    BY DEF SyncInit, InitMirror
  <2>2. DatedMirror(NoFacts)
    BY NoneIsDated DEF DatedMirror, NoFacts
  <2> QED
    BY <2>1, <2>2
<1>2. IInv /\ IInv' /\ DatedMirror(facts) /\ [SyncNext]_syncVars => DatedMirror(facts)'
  <2>1. ASSUME IInv, IInv', DatedMirror(facts), [SyncNext]_syncVars PROVE DatedMirror(facts')
    BY <2>1, MirrorStaysDated
  <2> QED
    BY <2>1 DEF DatedMirror
<1>3. DatedMirror(facts) => LeakFree
  BY ViewUntil, TargetAssumption DEF LeakFree
<1>4. SyncSpec(plans) => []IInv
  BY Invariance
<1> QED
  BY <1>1, <1>2, <1>3, <1>4, PTL DEF SyncSpec

-----------------------------------------------------------------------------
(* AcceptsPlayedMatches.                                                   *)

IsTarget(target, margin) == target \in Nat \ {0} /\ margin \in Nat \ {0, 1}

\* The scores a set can show, without counting up to them.
Shows(home, away, target, margin) ==
    \/ home <= target /\ away <= target
    \/ home - away <= margin /\ away - home <= margin

LEMMA OverIs ==
    ASSUME NEW home \in Nat, NEW away \in Nat, NEW target, NEW margin, IsTarget(target, margin)
    PROVE  SetOver(home, away, target, margin) <=>
             /\ home >= target \/ away >= target
             /\ home - away >= margin \/ away - home >= margin
<1>1. /\ Max({home, away}) = IF home >= away THEN home ELSE away
      /\ Min({home, away}) = IF home >= away THEN away ELSE home
  BY DEF Max, Min
<1> QED
  BY <1>1 DEF SetOver, IsTarget

\* What the recursive definition of CanShow chooses.
Counts(g, limit, target, margin) ==
    g = [s \in (0..limit) \X (0..limit) |->
           \/ s = <<0, 0>>
           \/ s[1] > 0 /\ g[<<s[1] - 1, s[2]>>] /\ ~SetOver(s[1] - 1, s[2], target, margin)
           \/ s[2] > 0 /\ g[<<s[1], s[2] - 1>>] /\ ~SetOver(s[1], s[2] - 1, target, margin)]

\* One point more.
LEMMA ShowsOn ==
    ASSUME NEW home \in Nat, NEW away \in Nat, NEW target, NEW margin, IsTarget(target, margin)
    PROVE  Shows(home, away, target, margin) <=>
             \/ home = 0 /\ away = 0
             \/ home > 0 /\ Shows(home - 1, away, target, margin) /\ ~SetOver(home - 1, away, target, margin)
             \/ away > 0 /\ Shows(home, away - 1, target, margin) /\ ~SetOver(home, away - 1, target, margin)
<1>1. home > 0 => (SetOver(home - 1, away, target, margin) <=>
                     /\ home - 1 >= target \/ away >= target
                     /\ home - 1 - away >= margin \/ away - (home - 1) >= margin)
  <2> SUFFICES ASSUME home > 0
               PROVE  SetOver(home - 1, away, target, margin) <=>
                        /\ home - 1 >= target \/ away >= target
                        /\ home - 1 - away >= margin \/ away - (home - 1) >= margin
    OBVIOUS
  <2>1. home - 1 \in Nat
    OBVIOUS
  <2> QED
    BY <2>1, OverIs
<1>2. away > 0 => (SetOver(home, away - 1, target, margin) <=>
                     /\ home >= target \/ away - 1 >= target
                     /\ home - (away - 1) >= margin \/ away - 1 - home >= margin)
  <2> SUFFICES ASSUME away > 0
               PROVE  SetOver(home, away - 1, target, margin) <=>
                        /\ home >= target \/ away - 1 >= target
                        /\ home - (away - 1) >= margin \/ away - 1 - home >= margin
    OBVIOUS
  <2>1. away - 1 \in Nat
    OBVIOUS
  <2> QED
    BY <2>1, OverIs
<1>3. target \in Nat /\ target > 0 /\ margin \in Nat /\ margin > 1
  BY DEF IsTarget
<1> QED
  BY ONLY <1>1, <1>2, <1>3, home \in Nat, away \in Nat DEF Shows

LEMMA CountsAgree ==
    ASSUME NEW limit \in Nat, NEW target, NEW margin, IsTarget(target, margin),
           NEW g, Counts(g, limit, target, margin),
           NEW home \in 0..limit, NEW away \in 0..limit
    PROVE  g[<<home, away>>] = Shows(home, away, target, margin)
<1> DEFINE Off(n) == \E h, a \in 0..limit : h + a = n /\ g[<<h, a>>] # Shows(h, a, target, margin)
           Sizes == {n \in Nat : Off(n)}
           Less == {ss \in Nat \X Nat : ss[1] < ss[2]}
<1> SUFFICES ASSUME Sizes # {} PROVE FALSE
  <2>1. home + away \in Nat
    OBVIOUS
  <2> QED
    BY <2>1
<1>1. \E n \in Sizes : \A m \in Sizes : ~ (<<m, n>> \in Less)
  <2>1. IsWellFoundedOn(Less, Nat)
    BY NatLessThanWellFounded DEF OpToRel
  <2>2. Sizes \subseteq Nat /\ Sizes # {}
    OBVIOUS
  <2> HIDE DEF Less, Sizes
  <2> QED
    BY <2>1, <2>2, WFMin
<1>2. PICK n \in Sizes : \A m \in Sizes : ~ (<<m, n>> \in Less)
  BY <1>1
<1>3. PICK h \in 0..limit, a \in 0..limit : h + a = n /\ g[<<h, a>>] # Shows(h, a, target, margin)
  OBVIOUS
<1>4. ASSUME NEW x \in 0..limit, NEW y \in 0..limit, x + y = n - 1
      PROVE  g[<<x, y>>] = Shows(x, y, target, margin)
  <2>1. x + y \in Nat /\ <<x + y, n>> \in Less
    BY <1>4
  <2>2. x + y \notin Sizes
    BY <1>2, <2>1
  <2> QED
    BY <2>1, <2>2
<1>5. g[<<h, a>>] =
        (\/ <<h, a>> = <<0, 0>>
         \/ h > 0 /\ g[<<h - 1, a>>] /\ ~SetOver(h - 1, a, target, margin)
         \/ a > 0 /\ g[<<h, a - 1>>] /\ ~SetOver(h, a - 1, target, margin))
  <2>1. <<h, a>> \in (0..limit) \X (0..limit)
    OBVIOUS
  <2> QED
    BY <2>1 DEF Counts
<1>6. h > 0 => g[<<h - 1, a>>] = Shows(h - 1, a, target, margin)
  BY <1>3, <1>4
<1>7. a > 0 => g[<<h, a - 1>>] = Shows(h, a - 1, target, margin)
  BY <1>3, <1>4
<1>8. Shows(h, a, target, margin) <=>
        \/ h = 0 /\ a = 0
        \/ h > 0 /\ Shows(h - 1, a, target, margin) /\ ~SetOver(h - 1, a, target, margin)
        \/ a > 0 /\ Shows(h, a - 1, target, margin) /\ ~SetOver(h, a - 1, target, margin)
  BY ShowsOn
<1>9. Shows(h, a, target, margin) \in BOOLEAN
  BY DEF Shows
<1> QED
  <2> HIDE DEF Sizes, Less
  <2> QED
    BY <1>3, <1>5, <1>6, <1>7, <1>8, <1>9

LEMMA CanShowIs ==
    ASSUME NEW limit \in Nat, NEW target, NEW margin, IsTarget(target, margin),
           NEW home \in 0..limit, NEW away \in 0..limit
    PROVE  CanShow(limit, target, margin)[<<home, away>>] = Shows(home, away, target, margin)
<1> DEFINE w == [s \in (0..limit) \X (0..limit) |-> Shows(s[1], s[2], target, margin)]
<1>1. Counts(w, limit, target, margin)
  <2>1. ASSUME NEW s \in (0..limit) \X (0..limit)
        PROVE  w[s] = (\/ s = <<0, 0>>
                       \/ s[1] > 0 /\ w[<<s[1] - 1, s[2]>>] /\ ~SetOver(s[1] - 1, s[2], target, margin)
                       \/ s[2] > 0 /\ w[<<s[1], s[2] - 1>>] /\ ~SetOver(s[1], s[2] - 1, target, margin))
    <3>1. PICK h \in 0..limit, a \in 0..limit : s = <<h, a>>
      OBVIOUS
    <3>2. w[s] = Shows(h, a, target, margin)
      BY <3>1
    <3>3. h > 0 => w[<<h - 1, a>>] = Shows(h - 1, a, target, margin)
      OBVIOUS
    <3>4. a > 0 => w[<<h, a - 1>>] = Shows(h, a - 1, target, margin)
      OBVIOUS
    <3>5. Shows(h, a, target, margin) <=>
            \/ h = 0 /\ a = 0
            \/ h > 0 /\ Shows(h - 1, a, target, margin) /\ ~SetOver(h - 1, a, target, margin)
            \/ a > 0 /\ Shows(h, a - 1, target, margin) /\ ~SetOver(h, a - 1, target, margin)
      BY ShowsOn
    <3>6. Shows(h, a, target, margin) \in BOOLEAN /\ s[1] = h /\ s[2] = a /\ (s = <<0, 0>> <=> h = 0 /\ a = 0)
      BY <3>1 DEF Shows
    <3> HIDE DEF w
    <3> QED
      BY <3>2, <3>3, <3>4, <3>5, <3>6
  <2> QED
    BY <2>1 DEF Counts
<1>2. CanShow(limit, target, margin) = CHOOSE g : Counts(g, limit, target, margin)
  BY DEF CanShow, Counts
<1>3. Counts(CanShow(limit, target, margin), limit, target, margin)
  <2> HIDE DEF w
  <2> QED
    BY <1>1, <1>2
<1> QED
  BY <1>3, CountsAgree

\* _valid_set_score accepts what a set can end with.
LEMMA ValidIsEnd ==
    ASSUME NEW set \in Nat \X Nat, NEW number, NEW rule, IsTarget(TargetOf(number, rule), rule.margin)
    PROVE  ValidSetScore(number, set[1], set[2], rule) <=> CanEnd(set, number, rule)
<1>1. PICK home \in Nat, away \in Nat : set = <<home, away>>
  OBVIOUS
<1>2. PICK target \in Nat, margin \in Nat :
        target = TargetOf(number, rule) /\ margin = rule.margin /\ target > 0 /\ margin > 1
  BY DEF IsTarget
<1>3. IsTarget(target, margin)
  BY <1>2
<1>4. PICK limit \in Nat, loser \in Nat :
        /\ limit = Max({home, away}) /\ loser = Min({home, away})
        /\ home >= away => limit = home /\ loser = away
        /\ home < away => limit = away /\ loser = home
  <2>1. /\ Max({home, away}) = IF home >= away THEN home ELSE away
        /\ Min({home, away}) = IF home >= away THEN away ELSE home
    BY DEF Max, Min
  <2> QED
    BY <2>1
<1>5. home \in 0..limit /\ away \in 0..limit
  BY ONLY <1>4, home \in Nat, away \in Nat, limit \in Nat
<1>6. CanEnd(set, number, rule) <=>
        /\ Shows(home, away, target, margin)
        /\ SetOver(home, away, target, margin)
  <2>1. CanShow(limit, target, margin)[set] = Shows(home, away, target, margin)
    BY <1>1, <1>3, <1>5, CanShowIs
  <2> QED
    BY <1>1, <1>2, <1>4, <2>1 DEF CanEnd
<1>7. SetOver(home, away, target, margin) <=>
        /\ home >= target \/ away >= target
        /\ home - away >= margin \/ away - home >= margin
  BY <1>3, OverIs
<1>8. ValidSetScore(number, set[1], set[2], rule) <=>
        /\ home # away
        /\ limit >= target
        /\ limit = IF loser <= target - margin THEN target ELSE loser + margin
  BY <1>1, <1>2, <1>4 DEF ValidSetScore
<1> QED
  BY ONLY <1>2, <1>4, <1>6, <1>7, <1>8, home \in Nat, away \in Nat, limit \in Nat, loser \in Nat,
          target \in Nat, margin \in Nat DEF Shows

-----------------------------------------------------------------------------
(* The loop over the sets.                                                 *)

\* What the recursive definition of ReadSets chooses.
Reads(g, row, rule, last) ==
    g = [n \in 0..last |-> IF n = 0 THEN NothingRead ELSE ReadSet(g[n - 1], n, row.sets[n], rule)]

LEMMA ReadsExist ==
    ASSUME NEW row, NEW rule, NEW last \in Nat
    PROVE  \E g : Reads(g, row, rule, last)
<1> DEFINE None(n) == ~ \E g : Reads(g, row, rule, n)
           Sizes == {n \in Nat : None(n)}
           Less == {ss \in Nat \X Nat : ss[1] < ss[2]}
<1> SUFFICES ASSUME Sizes # {} PROVE FALSE
  OBVIOUS
<1>1. \E n \in Sizes : \A m \in Sizes : ~ (<<m, n>> \in Less)
  <2>1. IsWellFoundedOn(Less, Nat)
    BY NatLessThanWellFounded DEF OpToRel
  <2>2. Sizes \subseteq Nat /\ Sizes # {}
    OBVIOUS
  <2> HIDE DEF Less, Sizes
  <2> QED
    BY <2>1, <2>2, WFMin
<1>2. PICK n \in Sizes : \A m \in Sizes : ~ (<<m, n>> \in Less)
  BY <1>1
<1>3. n \in Nat /\ None(n)
  OBVIOUS
<1>4. CASE n = 0
  <2> DEFINE g == [k \in 0..0 |-> NothingRead]
  <2>1. Reads(g, row, rule, 0)
    BY DEF Reads
  <2> QED
    BY <1>3, <1>4, <2>1
<1>5. CASE n # 0
  <2>1. n - 1 \in Nat /\ <<n - 1, n>> \in Less
    BY <1>3, <1>5
  <2>2. n - 1 \notin Sizes
    BY <1>2, <2>1
  <2>3. \E h : Reads(h, row, rule, n - 1)
    BY <2>1, <2>2
  <2>4. PICK h : Reads(h, row, rule, n - 1)
    BY <2>3
  <2> DEFINE e(k, f) == IF k = 0 THEN NothingRead ELSE ReadSet(f[k - 1], k, row.sets[k], rule)
             g == [k \in 0..n |-> IF k = n THEN ReadSet(h[n - 1], n, row.sets[n], rule) ELSE h[k]]
  <2>5. ASSUME NEW k \in 0..n PROVE g[k] = e(k, g)
    <3>1. CASE k = n
      <4>1. n - 1 \in 0..n /\ n - 1 # n
        BY <2>1, <1>3
      <4>2. g[n - 1] = h[n - 1]
        BY <4>1
      <4> QED
        BY <1>5, <3>1, <4>2
    <3>2. CASE k # n
      <4>1. k \in 0..(n - 1)
        BY <1>3, <3>2
      <4>2. h[k] = e(k, h)
        BY <2>4, <4>1 DEF Reads
      <4>3. k # 0 => k - 1 \in 0..n /\ k - 1 # n
        BY <1>3, <4>1
      <4>4. k # 0 => g[k - 1] = h[k - 1]
        BY <4>3
      <4>5. g[k] = h[k]
        BY <3>2
      <4> QED
        BY <4>2, <4>4, <4>5
    <3> QED
      BY <3>1, <3>2
  <2>6. g = [k \in 0..n |-> g[k]]
    OBVIOUS
  <2>7. g = [k \in 0..n |-> e(k, g)]
    <3> HIDE DEF g, e
    <3> QED
      BY <2>5, <2>6
  <2>8. Reads(g, row, rule, n)
    <3> HIDE DEF g
    <3> QED
      BY <2>7 DEF Reads
  <2> QED
    BY <1>3, <2>8
<1> QED
  BY <1>4, <1>5

\* What the loop knows after each set.
LEMMA ReadSetsIs ==
    ASSUME NEW row, NEW rule, Len(row.sets) \in Nat
    PROVE  \E g : /\ g[Len(row.sets)] = ReadSets(row, rule)
                  /\ g[0] = NothingRead
                  /\ \A n \in 1..Len(row.sets) : g[n] = ReadSet(g[n - 1], n, row.sets[n], rule)
<1> DEFINE g == CHOOSE h : Reads(h, row, rule, Len(row.sets))
<1>1. Reads(g, row, rule, Len(row.sets))
  BY ReadsExist
<1>2. ReadSets(row, rule) = g[Len(row.sets)]
  BY DEF ReadSets, Reads
<1> HIDE DEF g
<1>3. g[0] = NothingRead
  BY <1>1 DEF Reads
<1>4. ASSUME NEW n \in 1..Len(row.sets)
      PROVE  g[n] = ReadSet(g[n - 1], n, row.sets[n], rule)
  <2>1. n \in 0..Len(row.sets) /\ n # 0
    OBVIOUS
  <2> QED
    BY <1>1, <2>1 DEF Reads
<1> QED
  BY <1>2, <1>3, <1>4

\* A row the source may show, and a rule that was reviewed.
Readable(row, rule) ==
    /\ row.sets \in Seq((Nat \cup {Null}) \X (Nat \cup {Null}))
    /\ row.totals \in (Nat \cup {Null}) \X (Nat \cup {Null})
    /\ {rule.regular, rule.deciding, rule.maximum} \subseteq Nat \ {0}
    /\ rule.margin \in Nat \ {0, 1}
    /\ rule.toWin \in 1..3

\* The first n sets, and who won them.
First(row, n) == SubSeq(row.sets, 1, n)

Won(row, n, side) == WinsOf(First(row, n), side)

LEMMA Firsts ==
    ASSUME NEW row, NEW rule, Readable(row, rule), NEW n \in 0..Len(row.sets)
    PROVE  /\ First(row, n) \in Seq((Nat \cup {Null}) \X (Nat \cup {Null}))
           /\ DOMAIN First(row, n) = 1..n /\ Len(First(row, n)) = n
           /\ \A i \in 1..n : First(row, n)[i] = row.sets[i] /\ i \in 1..Len(row.sets)
           /\ Len(row.sets) \in Nat
<1>1. row.sets \in Seq((Nat \cup {Null}) \X (Nat \cup {Null})) /\ Len(row.sets) \in Nat
  BY DEF Readable
<1>2. First(row, n) = [i \in 1..n |-> row.sets[i]]
  BY <1>1 DEF First
<1>3. \A i \in 1..n : i \in 1..Len(row.sets)
  BY <1>1
<1>4. First(row, n) \in Seq((Nat \cup {Null}) \X (Nat \cup {Null}))
  BY <1>1, <1>2, <1>3
<1>5. DOMAIN First(row, n) = 1..n /\ n \in Nat
  BY <1>1, <1>2
<1>6. Len(First(row, n)) = n
  BY <1>4, <1>5
<1> QED
  BY <1>1, <1>2, <1>3, <1>4, <1>5, <1>6

\* Each set has one winner at most.
LEMMA Wins ==
    ASSUME NEW row, NEW rule, Readable(row, rule), NEW side \in 1..2
    PROVE  /\ \A n \in 0..Len(row.sets) : Won(row, n, side) \in Nat
           /\ Won(row, 0, side) = 0
           /\ \A n \in 1..Len(row.sets) :
                Won(row, n, side) = Won(row, n - 1, side)
                                      + (IF row.sets[n][side] > row.sets[n][3 - side] THEN 1 ELSE 0)
<1> DEFINE by(n) == {i \in 1..n : row.sets[i][side] > row.sets[i][3 - side]}
<1>0. Len(row.sets) \in Nat
  BY DEF Readable
<1>1. ASSUME NEW n \in 0..Len(row.sets) PROVE Won(row, n, side) = Cardinality(by(n))
  <2>1. DOMAIN First(row, n) = 1..n /\ \A i \in 1..n : First(row, n)[i] = row.sets[i]
    BY Firsts
  <2>2. {i \in DOMAIN First(row, n) : First(row, n)[i][side] > First(row, n)[i][3 - side]} = by(n)
    BY ONLY <2>1
  <2> QED
    BY <2>2 DEF Won, WinsOf
<1>2. ASSUME NEW n \in 0..Len(row.sets) PROVE IsFiniteSet(by(n)) /\ Cardinality(by(n)) \in Nat
  <2>1. IsFiniteSet(1..n)
    BY FS_Interval
  <2>2. IsFiniteSet(by(n))
    BY <2>1, FS_Subset
  <2> HIDE DEF by
  <2> QED
    BY <2>2, FS_CardinalityType
<1>3. Cardinality(by(0)) = 0
  <2>1. by(0) = {}
    OBVIOUS
  <2> HIDE DEF by
  <2> QED
    BY <2>1, FS_EmptySet
<1>4. ASSUME NEW n \in 1..Len(row.sets)
      PROVE  Cardinality(by(n)) = Cardinality(by(n - 1))
                                    + (IF row.sets[n][side] > row.sets[n][3 - side] THEN 1 ELSE 0)
  <2>1. n - 1 \in 0..Len(row.sets) /\ n \in Nat
    BY <1>0
  <2>2. CASE row.sets[n][side] > row.sets[n][3 - side]
    <3>1. by(n) = by(n - 1) \cup {n} /\ n \notin by(n - 1)
      BY <2>1, <2>2
    <3> HIDE DEF by
    <3>2. Cardinality(by(n)) = Cardinality(by(n - 1)) + 1
      BY <1>2, <2>1, <3>1, FS_AddElement
    <3> QED
      BY <2>2, <3>2
  <2>3. CASE ~ (row.sets[n][side] > row.sets[n][3 - side])
    <3>1. by(n) = by(n - 1)
      BY <2>1, <2>3
    <3> HIDE DEF by
    <3>2. Cardinality(by(n - 1)) \in Nat
      BY <1>2, <2>1
    <3> QED
      BY <2>3, <3>1, <3>2
  <2> QED
    BY <2>2, <2>3
<1> HIDE DEF by
<1>5. \A n \in 1..Len(row.sets) : n - 1 \in 0..Len(row.sets) /\ n \in 0..Len(row.sets)
  BY <1>0
<1> QED
  BY <1>0, <1>1, <1>2, <1>3, <1>4, <1>5

\* The first n sets went as sets go, and none of them came after the end.
Fine(row, rule, n) ==
    \A i \in 1..n :
      /\ ~Unplayed(row.sets[i])
      /\ row.sets[i] \in Nat \X Nat
      /\ ValidSetScore(i, row.sets[i][1], row.sets[i][2], rule)
      /\ \A side \in 1..2 : Won(row, i - 1, side) < rule.toWin

\* Nothing came after the n-th.
Silent(row, n) == \A i \in (n + 1)..Len(row.sets) : Unplayed(row.sets[i])

Availabilities == {"missing", "unverified"}

Refuted(row, rule) == ~ \E m \in 0..Len(row.sets) : Fine(row, rule, m) /\ Silent(row, m)

\* What is read when a gap was seen or not, and what an issue leaves of it.
GoingOn(row, k, gap) == [sets |-> First(row, k), gap |-> gap, issue |-> Null]

Stopped(row, k, gap, code, availability) ==
    [sets |-> First(row, k), gap |-> gap, issue |-> Issue(code, availability)]

\* What the loop knows after n sets of a row.
Knows(read, row, rule, n) ==
    \/ \E k \in 0..n, gap \in BOOLEAN :
         /\ read = GoingOn(row, k, gap)
         /\ gap <=> k < n
         /\ Fine(row, rule, k)
         /\ \A i \in (k + 1)..n : Unplayed(row.sets[i])
    \/ /\ \E k \in 0..n, gap \in BOOLEAN, code \in ResultIssues, availability \in Availabilities :
            read = Stopped(row, k, gap, code, availability)
       /\ Refuted(row, rule)

LEMMA IssueIsThere ==
    ASSUME NEW code \in ResultIssues, NEW availability \in Availabilities
    PROVE  Issue(code, availability) # Null
<1>1. Issue(code, availability) \in [code : ResultIssues, availability : {"missing", "unverified"}]
  BY DEF Issue, Availabilities
<1> QED
  BY <1>1, ScoresheetAssumption

Returning(read, code, availability) == [read EXCEPT !.issue = Issue(code, availability)]

LEMMA Goes ==
    ASSUME NEW row, NEW rule, NEW n, NEW k \in 0..n, NEW gap \in BOOLEAN,
           gap <=> k < n, Fine(row, rule, k), \A i \in (k + 1)..n : Unplayed(row.sets[i])
    PROVE  Knows(GoingOn(row, k, gap), row, rule, n)
BY DEF Knows

LEMMA Stops ==
    ASSUME NEW row, NEW rule, NEW n, NEW k \in 0..n, NEW gap \in BOOLEAN,
           NEW code \in ResultIssues, NEW availability \in Availabilities, Refuted(row, rule)
    PROVE  Knows(Stopped(row, k, gap, code, availability), row, rule, n)
BY DEF Knows

LEMMA ReturnKnows ==
    ASSUME NEW row, NEW rule, NEW n, NEW k \in 0..n, NEW gap \in BOOLEAN,
           NEW code \in ResultIssues, NEW availability \in Availabilities, Refuted(row, rule)
    PROVE  Knows(Returning(GoingOn(row, k, gap), code, availability), row, rule, n)
<1>1. Returning(GoingOn(row, k, gap), code, availability) = Stopped(row, k, gap, code, availability)
  BY DEF Returning, GoingOn, Stopped
<1> QED
  BY <1>1, Stops

LEMMA KnowsOn ==
    ASSUME NEW row, NEW rule, Readable(row, rule), NEW n \in 1..Len(row.sets),
           NEW read, Knows(read, row, rule, n - 1)
    PROVE  Knows(ReadSet(read, n, row.sets[n], rule), row, rule, n)
<1> DEFINE set == row.sets[n]
           next == ReadSet(read, n, set, rule)
<1>0. /\ Len(row.sets) \in Nat /\ n \in Nat /\ n > 0 /\ n - 1 \in 0..Len(row.sets)
      /\ n \in 0..Len(row.sets)
      /\ set \in (Nat \cup {Null}) \X (Nat \cup {Null})
      /\ Null \notin Nat
      /\ rule.toWin \in Nat
  BY ScoresheetAssumption DEF Readable
<1>1. ASSUME NEW k \in 0..(n - 1), NEW gap \in BOOLEAN, NEW code \in ResultIssues,
             NEW availability \in Availabilities, read = Stopped(row, k, gap, code, availability), Refuted(row, rule)
      PROVE  Knows(next, row, rule, n)
  <2>1. read.issue # Null
    <3>1. read.issue = Issue(code, availability)
      BY <1>1 DEF Stopped
    <3> QED
      BY <3>1, IssueIsThere
  <2>2. next = read
    BY <2>1 DEF ReadSet
  <2>3. k \in 0..n
    BY <1>0
  <2> HIDE DEF next
  <2> QED
    BY <1>1, <2>2, <2>3, Stops
<1>2. ASSUME NEW k \in 0..(n - 1), NEW gap \in BOOLEAN, read = GoingOn(row, k, gap), gap <=> k < n - 1,
             Fine(row, rule, k), \A i \in (k + 1)..(n - 1) : Unplayed(row.sets[i])
      PROVE  Knows(next, row, rule, n)
  <2>1. read.issue = Null /\ read.gap = gap /\ read.sets = First(row, k)
    BY <1>2 DEF GoingOn
  <2>2. k \in Nat /\ k <= n - 1 /\ k \in 0..Len(row.sets) /\ k \in 0..n
    BY <1>0
  <2>3. ASSUME NEW code \in ResultIssues, NEW availability \in Availabilities, Refuted(row, rule)
        PROVE  Knows(Returning(read, code, availability), row, rule, n)
    BY <1>2, <2>2, <2>3, ReturnKnows
  <2>4. CASE Unplayed(set)
    <3>1. next = [read EXCEPT !.gap = TRUE]
      BY <2>1, <2>4 DEF ReadSet
    <3>2. next = GoingOn(row, k, TRUE)
      BY <1>2, <3>1 DEF GoingOn
    <3>3. TRUE <=> k < n
      BY <1>0, <2>2
    <3>4. \A i \in (k + 1)..n : Unplayed(row.sets[i])
      <4> TAKE i \in (k + 1)..n
      <4>1. i = n \/ i \in (k + 1)..(n - 1)
        BY <1>0, <2>2
      <4> QED
        BY <1>2, <2>4, <4>1
    <3> HIDE DEF next
    <3>5. Knows(GoingOn(row, k, TRUE), row, rule, n)
      BY ONLY <1>2, <2>2, <3>3, <3>4, Goes
    <3> QED
      BY <3>2, <3>5
  <2>5. CASE ~Unplayed(set)
    <3>1. ASSUME NEW m \in 0..Len(row.sets), Fine(row, rule, m), Silent(row, m) PROVE m >= n
      <4>1. m < n => n \in (m + 1)..Len(row.sets)
        BY <1>0
      <4> QED
        BY <1>0, <2>5, <3>1, <4>1 DEF Silent
    <3>2. ASSUME NEW m \in 0..Len(row.sets), Fine(row, rule, m), m >= n, NEW i \in 1..n
          PROVE  /\ ~Unplayed(row.sets[i])
                 /\ row.sets[i] \in Nat \X Nat
                 /\ ValidSetScore(i, row.sets[i][1], row.sets[i][2], rule)
                 /\ \A side \in 1..2 : Won(row, i - 1, side) < rule.toWin
      <4>1. i \in 1..m
        BY <1>0, <3>2
      <4> QED
        BY <3>2, <4>1 DEF Fine
    <3>3. n \in 1..n
      BY <1>0
    <3>4. CASE Null \in {set[1], set[2]}
      <4>1. next = Returning(read, "incomplete_set", "missing")
        BY <2>1, <2>5, <3>4 DEF ReadSet, Returning
      <4>2. set \notin Nat \X Nat
        BY <1>0, <3>4
      <4>3. Refuted(row, rule)
        BY <3>1, <3>2, <3>3, <4>2 DEF Refuted
      <4>8. "incomplete_set" \in ResultIssues /\ "missing" \in Availabilities
        BY DEF ResultIssues, Availabilities
      <4>9. Knows(Returning(read, "incomplete_set", "missing"), row, rule, n)
        BY ONLY <2>3, <4>3, <4>8
      <4> QED
        BY ONLY <4>1, <4>9
    <3>5. CASE Null \notin {set[1], set[2]} /\ read.gap
      <4>1. next = Returning(read, "non_contiguous_sets", "unverified")
        BY <2>1, <2>5, <3>5 DEF ReadSet, Returning
      <4>2. k < n - 1
        BY <1>2, <2>1, <3>5
      <4>3. k + 1 \in (k + 1)..(n - 1) /\ k + 1 \in 1..n
        BY <1>0, <2>2, <4>2
      <4>4. Unplayed(row.sets[k + 1])
        BY <1>2, <4>3
      <4>5. Refuted(row, rule)
        BY <3>1, <3>2, <4>3, <4>4 DEF Refuted
      <4>8. "non_contiguous_sets" \in ResultIssues /\ "unverified" \in Availabilities
        BY DEF ResultIssues, Availabilities
      <4>9. Knows(Returning(read, "non_contiguous_sets", "unverified"), row, rule, n)
        BY ONLY <2>3, <4>5, <4>8
      <4> QED
        BY ONLY <4>1, <4>9
    <3>6. CASE Null \notin {set[1], set[2]} /\ ~read.gap
      <4>0. ~ (k < n - 1)
        BY <1>2, <2>1, <3>6
      <4>1. k = n - 1 /\ read.sets = First(row, n - 1)
        BY <1>0, <2>1, <2>2, <4>0
      <4>2. set \in Nat \X Nat
        BY <1>0, <3>6
      <4>3. /\ WinsOf(read.sets, 1) = Won(row, n - 1, 1)
            /\ WinsOf(read.sets, 2) = Won(row, n - 1, 2)
        BY <4>1 DEF Won
      <4>4. CASE rule.toWin \in {WinsOf(read.sets, 1), WinsOf(read.sets, 2)}
        <5>1. next = Returning(read, "set_after_match_end", "unverified")
          BY <2>1, <2>5, <3>6, <4>4 DEF ReadSet, Returning
        <5>2. ~ \A side \in 1..2 : Won(row, n - 1, side) < rule.toWin
          <6>1. 1 \in 1..2 /\ 2 \in 1..2 /\ ~ (rule.toWin < rule.toWin)
            BY <1>0
          <6> QED
            BY <4>3, <4>4, <6>1
        <5>3. Refuted(row, rule)
          BY <3>1, <3>2, <3>3, <5>2 DEF Refuted
        <5>8. "set_after_match_end" \in ResultIssues /\ "unverified" \in Availabilities
          BY DEF ResultIssues, Availabilities
        <5>9. Knows(Returning(read, "set_after_match_end", "unverified"), row, rule, n)
          BY ONLY <2>3, <5>3, <5>8
        <5> QED
          BY ONLY <5>1, <5>9
      <4>5. CASE /\ rule.toWin \notin {WinsOf(read.sets, 1), WinsOf(read.sets, 2)}
                 /\ ~ValidSetScore(n, set[1], set[2], rule)
        <5>1. next = Returning(read, "invalid_set_score", "unverified")
          BY <2>1, <2>5, <3>6, <4>5 DEF ReadSet, Returning
        <5>2. Refuted(row, rule)
          BY <3>1, <3>2, <3>3, <4>5 DEF Refuted
        <5>8. "invalid_set_score" \in ResultIssues /\ "unverified" \in Availabilities
          BY DEF ResultIssues, Availabilities
        <5>9. Knows(Returning(read, "invalid_set_score", "unverified"), row, rule, n)
          BY ONLY <2>3, <5>2, <5>8
        <5> QED
          BY ONLY <5>1, <5>9
      <4>6. CASE /\ rule.toWin \notin {WinsOf(read.sets, 1), WinsOf(read.sets, 2)}
                 /\ ValidSetScore(n, set[1], set[2], rule)
        <5>1. next = [read EXCEPT !.sets = Append(@, set)]
          BY <2>1, <2>5, <3>6, <4>6 DEF ReadSet
        <5>2. Append(First(row, n - 1), set) = First(row, n)
          <6>1. /\ First(row, n - 1) \in Seq((Nat \cup {Null}) \X (Nat \cup {Null}))
                /\ Len(First(row, n - 1)) = n - 1
                /\ \A i \in 1..(n - 1) : First(row, n - 1)[i] = row.sets[i]
            BY <1>0, Firsts
          <6>2. /\ First(row, n) \in Seq((Nat \cup {Null}) \X (Nat \cup {Null}))
                /\ Len(First(row, n)) = n
                /\ \A i \in 1..n : First(row, n)[i] = row.sets[i]
            BY <1>0, Firsts
          <6>3. /\ Append(First(row, n - 1), set) \in Seq((Nat \cup {Null}) \X (Nat \cup {Null}))
                /\ Len(Append(First(row, n - 1), set)) = n
                /\ \A i \in 1..(n - 1) : Append(First(row, n - 1), set)[i] = row.sets[i]
                /\ Append(First(row, n - 1), set)[n] = set
            BY <1>0, <6>1, AppendProperties
          <6>4. \A i \in 1..n : i = n \/ i \in 1..(n - 1)
            BY <1>0
          <6>5. \A i \in 1..n : Append(First(row, n - 1), set)[i] = First(row, n)[i]
            BY <6>2, <6>3, <6>4
          <6> QED
            BY ONLY <6>2, <6>3, <6>5, SeqEqual
        <5>3. next = GoingOn(row, n, FALSE)
          <6>1. next = [read EXCEPT !.sets = First(row, n)]
            BY <4>1, <5>1, <5>2
          <6>2. gap = FALSE
            BY <2>1, <3>6
          <6> HIDE DEF next
          <6> QED
            BY <1>2, <6>1, <6>2 DEF GoingOn
        <5>4. \A side \in 1..2 : Won(row, n - 1, side) < rule.toWin
          <6> TAKE side \in 1..2
          <6>1. Won(row, n - 1, side) # rule.toWin
            <7>1. side = 1 \/ side = 2
              OBVIOUS
            <7> QED
              BY <4>3, <4>6, <7>1
          <6>2. Won(row, n - 1, side) \in Nat
            BY <1>0, Wins
          <6>3. Won(row, n - 1, side) <= rule.toWin
            <7>1. CASE n = 1
              <8>1. Won(row, n - 1, side) = 0
                BY <7>1, Wins
              <8> QED
                BY <1>0, <8>1
            <7>2. CASE n > 1
              <8>1. n - 1 \in 1..k /\ n - 1 \in 1..Len(row.sets) /\ n - 1 - 1 \in 0..Len(row.sets)
                BY <1>0, <4>1, <7>2
              <8>2. Won(row, n - 1 - 1, side) < rule.toWin
                BY <1>2, <8>1 DEF Fine
              <8>3. Won(row, n - 1, side) = Won(row, n - 1 - 1, side)
                      + (IF row.sets[n - 1][side] > row.sets[n - 1][3 - side] THEN 1 ELSE 0)
                BY <8>1, Wins
              <8>4. Won(row, n - 1 - 1, side) \in Nat
                BY <8>1, Wins
              <8> QED
                BY ONLY <1>0, <8>2, <8>3, <8>4
            <7> QED
              BY <1>0, <7>1, <7>2
          <6> QED
            BY ONLY <1>0, <6>1, <6>2, <6>3
        <5>5. Fine(row, rule, n)
          <6> SUFFICES ASSUME NEW i \in 1..n
                       PROVE  /\ ~Unplayed(row.sets[i])
                              /\ row.sets[i] \in Nat \X Nat
                              /\ ValidSetScore(i, row.sets[i][1], row.sets[i][2], rule)
                              /\ \A side \in 1..2 : Won(row, i - 1, side) < rule.toWin
            BY DEF Fine
          <6>1. i = n \/ i \in 1..k
            BY <1>0, <4>1
          <6>2. CASE i = n
            BY <2>5, <4>2, <4>6, <5>4, <6>2
          <6>3. CASE i \in 1..k
            BY <1>2, <6>3 DEF Fine
          <6> QED
            BY <6>1, <6>2, <6>3
        <5>6. n \in 0..n /\ (FALSE <=> n < n) /\ \A i \in (n + 1)..n : Unplayed(row.sets[i])
          BY <1>0
        <5>7. Knows(GoingOn(row, n, FALSE), row, rule, n)
          BY ONLY <5>5, <5>6, Goes
        <5> HIDE DEF next
        <5> QED
          BY <5>3, <5>7
      <4> QED
        BY <4>4, <4>5, <4>6
    <3>7. read.gap \in BOOLEAN
      BY <2>1
    <3> QED
      BY <3>4, <3>5, <3>6, <3>7
  <2> QED
    BY <2>4, <2>5
<1> DEFINE NoIssue(k, gap) ==
             /\ read = GoingOn(row, k, gap)
             /\ gap <=> k < n - 1
             /\ Fine(row, rule, k)
             /\ \A i \in (k + 1)..(n - 1) : Unplayed(row.sets[i])
           AtIssue(k, gap, code, availability) ==
             read = Stopped(row, k, gap, code, availability)
<1>3. CASE \E k \in 0..(n - 1), gap \in BOOLEAN : NoIssue(k, gap)
  <2>1. PICK k \in 0..(n - 1), gap \in BOOLEAN : NoIssue(k, gap)
    BY <1>3
  <2> QED
    BY ONLY <1>2, <2>1, k \in 0..(n - 1), gap \in BOOLEAN
<1>4. CASE /\ \E k \in 0..(n - 1), gap \in BOOLEAN, code \in ResultIssues, availability \in Availabilities :
                AtIssue(k, gap, code, availability)
           /\ Refuted(row, rule)
  <2>1. PICK k \in 0..(n - 1), gap \in BOOLEAN, code \in ResultIssues, availability \in Availabilities :
          AtIssue(k, gap, code, availability)
    BY <1>4
  <2> QED
    BY ONLY <1>1, <1>4, <2>1, k \in 0..(n - 1), gap \in BOOLEAN, code \in ResultIssues, availability \in Availabilities
<1> HIDE DEF next
<1> QED
  BY <1>3, <1>4 DEF Knows

LEMMA ReadKnows ==
    ASSUME NEW row, NEW rule, Readable(row, rule)
    PROVE  Knows(ReadSets(row, rule), row, rule, Len(row.sets))
<1>1. Len(row.sets) \in Nat
  BY DEF Readable
<1>2. PICK g : /\ g[Len(row.sets)] = ReadSets(row, rule)
               /\ g[0] = NothingRead
               /\ \A n \in 1..Len(row.sets) : g[n] = ReadSet(g[n - 1], n, row.sets[n], rule)
  BY <1>1, ReadSetsIs
<1> DEFINE Sizes == {n \in 0..Len(row.sets) : ~Knows(g[n], row, rule, n)}
           Less == {ss \in Nat \X Nat : ss[1] < ss[2]}
<1>3. SUFFICES ASSUME Sizes # {} PROVE FALSE
  BY <1>1, <1>2
<1>4. \E n \in Sizes : \A m \in Sizes : ~ (<<m, n>> \in Less)
  <2>1. IsWellFoundedOn(Less, Nat)
    BY NatLessThanWellFounded DEF OpToRel
  <2>2. Sizes \subseteq Nat /\ Sizes # {}
    BY <1>1, <1>3
  <2> HIDE DEF Less, Sizes
  <2> QED
    BY <2>1, <2>2, WFMin
<1>5. PICK n \in Sizes : \A m \in Sizes : ~ (<<m, n>> \in Less)
  BY <1>4
<1>6. n \in 0..Len(row.sets) /\ ~Knows(g[n], row, rule, n)
  OBVIOUS
<1>7. CASE n = 0
  <2>1. NothingRead = GoingOn(row, 0, FALSE)
    <3>1. First(row, 0) = <<>>
      BY <1>1, Firsts
    <3> QED
      BY <3>1 DEF NothingRead, GoingOn
  <2>2. Fine(row, rule, 0)
    BY DEF Fine
  <2>3. 0 \in 0..0 /\ (FALSE <=> 0 < 0) /\ \A i \in (0 + 1)..0 : Unplayed(row.sets[i])
    OBVIOUS
  <2>4. Knows(GoingOn(row, 0, FALSE), row, rule, 0)
    BY ONLY <2>2, <2>3, Goes
  <2> QED
    BY <1>2, <1>6, <1>7, <2>1, <2>4
<1>8. CASE n # 0
  <2>1. n \in 1..Len(row.sets) /\ n - 1 \in 0..Len(row.sets) /\ <<n - 1, n>> \in Less
    BY <1>1, <1>6, <1>8
  <2>2. n - 1 \notin Sizes
    BY <1>5, <2>1
  <2>3. Knows(g[n - 1], row, rule, n - 1)
    BY <2>1, <2>2
  <2>4. Knows(ReadSet(g[n - 1], n, row.sets[n], rule), row, rule, n)
    BY <2>1, <2>3, KnowsOn
  <2> QED
    BY <1>2, <1>6, <2>1, <2>4
<1> QED
  BY <1>7, <1>8

\* No more sets are won by then than later.
LEMMA WonGrows ==
    ASSUME NEW row, NEW rule, Readable(row, rule), NEW side \in 1..2,
           NEW n \in 0..Len(row.sets), NEW m \in 0..n
    PROVE  Won(row, m, side) <= Won(row, n, side)
<1> DEFINE by(k) == {i \in DOMAIN First(row, k) : First(row, k)[i][side] > First(row, k)[i][3 - side]}
<1>0. Len(row.sets) \in Nat /\ m \in 0..Len(row.sets)
  BY DEF Readable
<1>1. by(m) \subseteq by(n)
  <2>1. /\ DOMAIN First(row, n) = 1..n /\ \A i \in 1..n : First(row, n)[i] = row.sets[i]
        /\ DOMAIN First(row, m) = 1..m /\ \A i \in 1..m : First(row, m)[i] = row.sets[i]
    BY <1>0, Firsts
  <2> QED
    BY <1>0, <2>1
<1>2. IsFiniteSet(by(n))
  <2>1. IsFiniteSet(1..n) /\ DOMAIN First(row, n) = 1..n
    BY <1>0, Firsts, FS_Interval
  <2>2. by(n) \subseteq 1..n
    BY <2>1
  <2> HIDE DEF by
  <2> QED
    BY <2>1, <2>2, FS_Subset
<1>3. Won(row, m, side) = Cardinality(by(m)) /\ Won(row, n, side) = Cardinality(by(n))
  BY DEF Won, WinsOf
<1> HIDE DEF by
<1> QED
  BY <1>1, <1>2, <1>3, FS_Subset

\* A match that was won was won by one side, three sets to two at most.
LEMMA WonByOne ==
    ASSUME NEW row, NEW rule, Readable(row, rule), NEW k \in 1..Len(row.sets), Fine(row, rule, k)
    PROVE  (/\ Max({Won(row, k, 1), Won(row, k, 2)}) = rule.toWin
            /\ Min({Won(row, k, 1), Won(row, k, 2)}) <= 2)
             <=> \E side \in 1..2 : Won(row, k, side) = rule.toWin
<1>1. k - 1 \in 0..Len(row.sets) /\ k \in 0..Len(row.sets) /\ k \in 1..k
  BY DEF Readable
<1>w. ASSUME NEW n \in 0..Len(row.sets) PROVE Won(row, n, 1) \in Nat /\ Won(row, n, 2) \in Nat
  <2>1. 1 \in 1..2 /\ 2 \in 1..2
    OBVIOUS
  <2> QED
    BY <2>1, Wins
<1>2. PICK x \in Nat, y \in Nat : x = Won(row, k - 1, 1) /\ y = Won(row, k - 1, 2)
  BY <1>1, <1>w
<1>3. PICK v \in Nat, w \in Nat : v = Won(row, k, 1) /\ w = Won(row, k, 2)
  BY <1>1, <1>w
<1>4. x < rule.toWin /\ y < rule.toWin
  <2>1. \A side \in 1..2 : Won(row, k - 1, side) < rule.toWin
    BY <1>1 DEF Fine
  <2>2. 1 \in 1..2 /\ 2 \in 1..2
    OBVIOUS
  <2>3. Won(row, k - 1, 1) < rule.toWin /\ Won(row, k - 1, 2) < rule.toWin
    BY ONLY <2>1, <2>2
  <2> QED
    BY ONLY <1>2, <2>3
<1>5. PICK home \in Nat, away \in Nat : row.sets[k] = <<home, away>>
  <2>1. row.sets[k] \in Nat \X Nat
    BY <1>1 DEF Fine
  <2> QED
    BY ONLY <2>1
<1>6. /\ v = x + (IF home > away THEN 1 ELSE 0)
      /\ w = y + (IF away > home THEN 1 ELSE 0)
  <2>1. 1 \in 1..2 /\ 2 \in 1..2 /\ 3 - 1 = 2 /\ 3 - 2 = 1
    OBVIOUS
  <2>2. /\ v = x + (IF row.sets[k][1] > row.sets[k][3 - 1] THEN 1 ELSE 0)
        /\ w = y + (IF row.sets[k][2] > row.sets[k][3 - 2] THEN 1 ELSE 0)
    BY <1>2, <1>3, <2>1, Wins
  <2>3. row.sets[k][1] = home /\ row.sets[k][2] = away
    BY <1>5
  <2> QED
    BY ONLY <2>1, <2>2, <2>3
<1>7. PICK t \in 1..3 : t = rule.toWin
  BY DEF Readable
<1>8. /\ Max({v, w}) = IF v >= w THEN v ELSE w
      /\ Min({v, w}) = IF v >= w THEN w ELSE v
  BY DEF Max, Min
<1>9. (\E side \in 1..2 : Won(row, k, side) = rule.toWin) <=> (v = t \/ w = t)
  <2>1. \A side \in 1..2 : side = 1 \/ side = 2
    OBVIOUS
  <2>2. 1 \in 1..2 /\ 2 \in 1..2
    OBVIOUS
  <2> QED
    BY ONLY <1>3, <1>7, <2>1, <2>2
<1>10. (Max({v, w}) = t /\ Min({v, w}) <= 2) <=> (v = t \/ w = t)
  <2>1. x < t /\ y < t
    BY ONLY <1>4, <1>7
  <2> QED
    BY ONLY <1>6, <1>8, <2>1, x \in Nat, y \in Nat, v \in Nat, w \in Nat,
            home \in Nat, away \in Nat, t \in 1..3
<1> QED
  BY ONLY <1>3, <1>7, <1>9, <1>10

\* The match is played out when its sets went as sets go, with none after the
\* last, and the last one decided it.
Decided(row, rule, n) ==
    /\ \E side \in 1..2 : Won(row, n, side) = rule.toWin
    /\ row.totals = <<Points(First(row, n), 1), Points(First(row, n), 2)>>

LEMMA PlayedOutIs ==
    ASSUME NEW row, NEW rule, Readable(row, rule), NEW n \in 1..Len(row.sets)
    PROVE  PlayedOut(row, rule, n) <=> Fine(row, rule, n) /\ Silent(row, n) /\ Decided(row, rule, n)
<1>1. /\ n \in 0..Len(row.sets) /\ n - 1 \in 0..Len(row.sets) /\ n \in 1..n
      /\ Len(row.sets) \in Nat
      /\ rule.toWin \in Nat
  BY DEF Readable
<1>2. ASSUME NEW i \in 1..n
      PROVE  (Null \notin {row.sets[i][1], row.sets[i][2]} /\ CanEnd(row.sets[i], i, rule))
               <=> /\ ~Unplayed(row.sets[i])
                   /\ row.sets[i] \in Nat \X Nat
                   /\ ValidSetScore(i, row.sets[i][1], row.sets[i][2], rule)
  <2>1. row.sets[i] \in (Nat \cup {Null}) \X (Nat \cup {Null}) /\ Null \notin Nat
    BY <1>1, ScoresheetAssumption DEF Readable
  <2>2. Null \notin {row.sets[i][1], row.sets[i][2]} <=> row.sets[i] \in Nat \X Nat
    BY <2>1
  <2>3. IsTarget(TargetOf(i, rule), rule.margin)
    BY DEF IsTarget, TargetOf, Readable
  <2>4. ASSUME row.sets[i] \in Nat \X Nat
        PROVE  /\ ValidSetScore(i, row.sets[i][1], row.sets[i][2], rule) <=> CanEnd(row.sets[i], i, rule)
               /\ CanEnd(row.sets[i], i, rule) => ~Unplayed(row.sets[i])
    <3>1. ValidSetScore(i, row.sets[i][1], row.sets[i][2], rule) <=> CanEnd(row.sets[i], i, rule)
      BY <2>3, <2>4, ValidIsEnd
    <3>2. ASSUME CanEnd(row.sets[i], i, rule), Unplayed(row.sets[i]) PROVE FALSE
      <4>1. row.sets[i] = <<0, 0>>
        BY <2>1, <2>4, <3>2 DEF Unplayed
      <4>2. SetOver(0, 0, TargetOf(i, rule), rule.margin)
        BY <3>2, <4>1 DEF CanEnd
      <4>3. 0 >= TargetOf(i, rule)
        BY <2>3, <4>2, OverIs
      <4> QED
        BY <2>3, <4>3 DEF IsTarget
    <3> QED
      BY <3>1, <3>2
  <2> QED
    BY <2>2, <2>4
<1>3. (\A side \in 1..2 : Won(row, n - 1, side) < rule.toWin)
        <=> \A i \in 1..n : \A side \in 1..2 : Won(row, i - 1, side) < rule.toWin
  <2>1. ASSUME \A side \in 1..2 : Won(row, n - 1, side) < rule.toWin,
               NEW i \in 1..n, NEW side \in 1..2
        PROVE  Won(row, i - 1, side) < rule.toWin
    <3>1. i - 1 \in 0..(n - 1) /\ i - 1 \in 0..Len(row.sets)
      BY <1>1
    <3>2. Won(row, i - 1, side) <= Won(row, n - 1, side)
      BY <1>1, <3>1, WonGrows
    <3>3. Won(row, i - 1, side) \in Nat /\ Won(row, n - 1, side) \in Nat
      BY <1>1, <3>1, Wins
    <3>4. Won(row, n - 1, side) < rule.toWin
      BY <2>1
    <3> QED
      BY ONLY <1>1, <3>2, <3>3, <3>4
  <2> QED
    BY <1>1, <2>1
<1>4. PlayedOut(row, rule, n) <=>
        /\ Silent(row, n)
        /\ \A i \in 1..n : Null \notin {row.sets[i][1], row.sets[i][2]} /\ CanEnd(row.sets[i], i, rule)
        /\ \E side \in 1..2 : Won(row, n, side) = rule.toWin
        /\ \A side \in 1..2 : Won(row, n - 1, side) < rule.toWin
        /\ row.totals = <<Points(First(row, n), 1), Points(First(row, n), 2)>>
  BY DEF PlayedOut, Silent, Won, First
<1>5. Fine(row, rule, n) <=>
        /\ \A i \in 1..n : Null \notin {row.sets[i][1], row.sets[i][2]} /\ CanEnd(row.sets[i], i, rule)
        /\ \A side \in 1..2 : Won(row, n - 1, side) < rule.toWin
  BY <1>2, <1>3 DEF Fine
<1> QED
  BY <1>4, <1>5 DEF Decided

LEMMA PointsAreNat ==
    ASSUME NEW row, NEW rule, Readable(row, rule), NEW n \in 0..Len(row.sets), Fine(row, rule, n),
           NEW side \in 1..2
    PROVE  Points(First(row, n), side) \in Nat
<1> DEFINE f == [i \in DOMAIN First(row, n) |-> First(row, n)[i][side]]
<1>1. DOMAIN First(row, n) = 1..n /\ \A i \in 1..n : First(row, n)[i] = row.sets[i]
  BY Firsts
<1>2. ASSUME NEW i \in 1..n PROVE f[i] \in Nat
  <2>1. row.sets[i] \in Nat \X Nat
    BY DEF Fine
  <2>2. row.sets[i][1] \in Nat /\ row.sets[i][2] \in Nat
    BY <2>1
  <2>3. side = 1 \/ side = 2
    OBVIOUS
  <2>4. f[i] = row.sets[i][side]
    BY <1>1
  <2> QED
    BY ONLY <2>2, <2>3, <2>4
<1>3. IsFiniteSet(1..n)
  <2>1. n \in Int
    BY DEF Readable
  <2> QED
    BY <2>1, FS_Interval
<1>4. Points(First(row, n), side) = SumFunctionOnSet(f, 1..n)
  BY <1>1 DEF Points
<1> HIDE DEF f
<1> QED
  BY <1>2, <1>3, <1>4, SumIsNat

\* A score that is accepted.
TakenScore(row, n) ==
    [wins |-> <<Won(row, n, 1), Won(row, n, 2)>>, sets |-> First(row, n), finality |-> "provisional"]

LEMMA ScoreIsThere ==
    ASSUME NEW row, NEW rule, Readable(row, rule), NEW n \in 0..Len(row.sets), Fine(row, rule, n)
    PROVE  TakenScore(row, n) # Null
<1>1. Won(row, n, 1) \in Nat /\ Won(row, n, 2) \in Nat
  <2>1. 1 \in 1..2 /\ 2 \in 1..2
    OBVIOUS
  <2> QED
    BY <2>1, Wins
<1>2. First(row, n) \in Seq(Nat \X Nat)
  <2>1. /\ First(row, n) \in Seq((Nat \cup {Null}) \X (Nat \cup {Null}))
        /\ DOMAIN First(row, n) = 1..n /\ Len(First(row, n)) = n
        /\ \A i \in 1..n : First(row, n)[i] = row.sets[i]
    BY Firsts
  <2>2. \A i \in 1..n : First(row, n)[i] \in Nat \X Nat
    BY <2>1 DEF Fine
  <2>3. First(row, n) \in [1..n -> Nat \X Nat] /\ n \in Nat
    BY <2>1, <2>2
  <2> QED
    BY <2>3
<1>3. TakenScore(row, n) \in [wins : Nat \X Nat, sets : Seq(Nat \X Nat), finality : {"provisional"}]
  BY <1>1, <1>2 DEF TakenScore
<1> QED
  BY <1>3, ScoresheetAssumption

\* At most one set can be the last.
LEMMA OneLast ==
    ASSUME NEW row, NEW rule, Len(row.sets) \in Nat, NEW k \in 0..Len(row.sets), NEW n \in 0..Len(row.sets),
           Fine(row, rule, k), Silent(row, k), Fine(row, rule, n), Silent(row, n)
    PROVE  k = n
<1>1. ASSUME NEW x \in 0..Len(row.sets), NEW y \in 0..Len(row.sets),
             Silent(row, x), Fine(row, rule, y), x < y
      PROVE  FALSE
  <2>1. y \in 1..y /\ y \in (x + 1)..Len(row.sets)
    BY <1>1
  <2> QED
    BY <1>1, <2>1 DEF Silent, Fine
<1>2. ~ (k < n) /\ ~ (n < k)
  BY <1>1
<1> QED
  BY <1>2

\* The sets that were read are those played, and the rest is the loop's own
\* account of them.
LEMMA Accepting ==
    ASSUME NEW row, NEW rule, Readable(row, rule)
    PROVE  ReadResult(row, rule, ReadSets(row, rule)).result # Null
             <=> \E n \in 1..Len(row.sets) : PlayedOut(row, rule, n)
<1>r. PICK read : read = ReadSets(row, rule)
  OBVIOUS
<1> DEFINE wins == <<WinsOf(read.sets, 1), WinsOf(read.sets, 2)>>
           N == Len(row.sets)
<1>0. N \in Nat /\ row.totals \in (Nat \cup {Null}) \X (Nat \cup {Null}) /\ Null \notin Nat
  BY ScoresheetAssumption DEF Readable
<1>1. Knows(read, row, rule, N)
  BY <1>r, ReadKnows
<1>2. (\E n \in 1..N : PlayedOut(row, rule, n))
        <=> \E n \in 1..N : Fine(row, rule, n) /\ Silent(row, n) /\ Decided(row, rule, n)
  BY PlayedOutIs
<1>3. ReadResult(row, rule, ReadSets(row, rule)) = CompleteResult(row, rule, read, wins)
  BY <1>r DEF ReadResult
<1>4. ASSUME NEW k \in 0..N, NEW gap \in BOOLEAN, NEW code \in ResultIssues,
             NEW availability \in Availabilities, read = Stopped(row, k, gap, code, availability), Refuted(row, rule)
      PROVE  /\ CompleteResult(row, rule, read, wins).result = Null
             /\ ~ \E n \in 1..N : Fine(row, rule, n) /\ Silent(row, n) /\ Decided(row, rule, n)
  <2>1. read.issue = Issue(code, availability)
    BY <1>4 DEF Stopped
  <2>2. read.issue # Null
    BY <2>1, IssueIsThere
  <2>3. CompleteResult(row, rule, read, wins).result = Null
    BY <2>2 DEF CompleteResult
  <2>4. ~ \E n \in 1..N : Fine(row, rule, n) /\ Silent(row, n) /\ Decided(row, rule, n)
    <3>1. \A n \in 1..N : n \in 0..N
      BY <1>0
    <3> QED
      BY <1>4, <3>1 DEF Refuted
  <2> QED
    BY <2>3, <2>4
<1>5. ASSUME NEW k \in 0..N, NEW gap \in BOOLEAN, read = GoingOn(row, k, gap),
             Fine(row, rule, k), \A i \in (k + 1)..N : Unplayed(row.sets[i])
      PROVE  CompleteResult(row, rule, read, wins).result # Null
               <=> \E n \in 1..N : Fine(row, rule, n) /\ Silent(row, n) /\ Decided(row, rule, n)
  <2>1. read.issue = Null /\ read.sets = First(row, k)
    BY <1>5 DEF GoingOn
  <2>2. Silent(row, k)
    BY <1>5 DEF Silent
  <2>3. wins = <<Won(row, k, 1), Won(row, k, 2)>>
    BY <2>1 DEF Won
  <2>4. TakenScore(row, k) = [wins |-> wins, sets |-> read.sets, finality |-> "provisional"]
    BY <2>1, <2>3 DEF TakenScore
  <2>5. TakenScore(row, k) # Null
    BY <1>5, ScoreIsThere
  <2>6. read.sets = <<>> <=> k = 0
    <3>1. DOMAIN First(row, k) = 1..k /\ Len(First(row, k)) = k
          /\ First(row, k) \in Seq((Nat \cup {Null}) \X (Nat \cup {Null}))
      BY Firsts
    <3> QED
      BY <2>1, <3>1
  <2>7. Points(First(row, k), 1) \in Nat /\ Points(First(row, k), 2) \in Nat
    <3>1. 1 \in 1..2 /\ 2 \in 1..2
      OBVIOUS
    <3> QED
      BY <1>5, <3>1, PointsAreNat
  <2> DEFINE points == <<Points(First(row, k), 1), Points(First(row, k), 2)>>
             won == Max({wins[1], wins[2]}) = rule.toWin /\ Min({wins[1], wins[2]}) <= 2
  <2>8. row.totals = points => Null \notin {row.totals[1], row.totals[2]}
    BY <1>0, <2>7
  <2>9. CompleteResult(row, rule, read, wins).result # Null <=> k # 0 /\ row.totals = points /\ won
    <3>1. points = <<Points(read.sets, 1), Points(read.sets, 2)>>
      BY <2>1
    <3> HIDE DEF points, won, wins
    <3>2. CASE k = 0
      BY <2>1, <2>6, <3>2 DEF CompleteResult, Rejected
    <3>3. CASE k # 0 /\ row.totals # points
      BY <2>1, <2>6, <3>1, <3>3 DEF CompleteResult, Rejected
    <3>4. CASE k # 0 /\ row.totals = points /\ ~won
      BY <2>1, <2>6, <2>8, <3>1, <3>4 DEF CompleteResult, Rejected, won
    <3>5. CASE k # 0 /\ row.totals = points /\ won
      <4>1. CompleteResult(row, rule, read, wins).result = TakenScore(row, k)
        BY <2>1, <2>4, <2>6, <2>8, <3>1, <3>5 DEF CompleteResult, won
      <4> QED
        BY <2>5, <3>5, <4>1
    <3> QED
      BY <3>2, <3>3, <3>4, <3>5
  <2>10. k # 0 => (won <=> \E side \in 1..2 : Won(row, k, side) = rule.toWin)
    <3> SUFFICES ASSUME k # 0
                 PROVE  won <=> \E side \in 1..2 : Won(row, k, side) = rule.toWin
      OBVIOUS
    <3>1. k \in 1..N
      BY <1>0
    <3>2. wins[1] = Won(row, k, 1) /\ wins[2] = Won(row, k, 2)
      BY <2>3
    <3> HIDE DEF wins
    <3> QED
      BY <1>5, <3>1, <3>2, WonByOne
  <2>11. CompleteResult(row, rule, read, wins).result # Null <=> k # 0 /\ Decided(row, rule, k)
    <3> HIDE DEF won, wins
    <3> QED
      BY <2>9, <2>10 DEF Decided
  <2>12. (\E n \in 1..N : Fine(row, rule, n) /\ Silent(row, n) /\ Decided(row, rule, n))
           <=> k # 0 /\ Decided(row, rule, k)
    <3>1. k # 0 => k \in 1..N
      BY <1>0
    <3>2. ASSUME NEW n \in 1..N, Fine(row, rule, n), Silent(row, n) PROVE n = k /\ k # 0
      <4>1. n \in 0..N /\ n # 0
        BY <1>0
      <4> QED
        BY <1>0, <1>5, <2>2, <3>2, <4>1, OneLast
    <3> QED
      BY <1>5, <2>2, <3>1, <3>2
  <2> QED
    BY <2>11, <2>12
<1> DEFINE AtIssue(k, gap, code, availability) ==
             read = Stopped(row, k, gap, code, availability)
           NoIssue(k, gap) ==
             /\ read = GoingOn(row, k, gap)
             /\ gap <=> k < N
             /\ Fine(row, rule, k)
             /\ \A i \in (k + 1)..N : Unplayed(row.sets[i])
<1>6. CASE \E k \in 0..N, gap \in BOOLEAN : NoIssue(k, gap)
  <2>1. PICK k \in 0..N, gap \in BOOLEAN : NoIssue(k, gap)
    BY <1>6
  <2>2. CompleteResult(row, rule, read, wins).result # Null
          <=> \E n \in 1..N : Fine(row, rule, n) /\ Silent(row, n) /\ Decided(row, rule, n)
    BY ONLY <1>5, <2>1, k \in 0..N, gap \in BOOLEAN
  <2> QED
    BY <1>2, <1>3, <2>2
<1>7. CASE /\ \E k \in 0..N, gap \in BOOLEAN, code \in ResultIssues, availability \in Availabilities :
                AtIssue(k, gap, code, availability)
           /\ Refuted(row, rule)
  <2>1. PICK k \in 0..N, gap \in BOOLEAN, code \in ResultIssues, availability \in Availabilities :
          AtIssue(k, gap, code, availability)
    BY <1>7
  <2>2. /\ CompleteResult(row, rule, read, wins).result = Null
        /\ ~ \E n \in 1..N : Fine(row, rule, n) /\ Silent(row, n) /\ Decided(row, rule, n)
    BY ONLY <1>4, <1>7, <2>1, k \in 0..N, gap \in BOOLEAN,
            code \in ResultIssues, availability \in Availabilities
  <2> QED
    BY <1>2, <1>3, <2>2
<1> QED
  BY <1>1, <1>6, <1>7 DEF Knows

\* _parse_result takes the score of a match exactly when the match could have
\* been played to it, whatever the source shows and whatever the rule.
THEOREM PlayedIsAccepted == ParserSpec => []AcceptsPlayedMatches
<1> DEFINE AnySheet == scoresheet = Null \/ scoresheet \in Scoresheets
<1>1. ParserInit => AnySheet
  BY DEF ParserInit
<1>2. AnySheet /\ [ReadScoresheet]_scoresheet => AnySheet'
  BY DEF ReadScoresheet
<1>3. AnySheet => AcceptsPlayedMatches
  <2> SUFFICES ASSUME scoresheet \in Scoresheets
               PROVE  ParseResult(scoresheet).result # Null <=>
                        /\ scoresheet.season \in DOMAIN Rules
                        /\ \E n \in DOMAIN scoresheet.sets : PlayedOut(scoresheet, Rules[scoresheet.season], n)
    BY DEF AcceptsPlayedMatches
  <2>1. CASE scoresheet.season \notin DOMAIN Rules
    BY <2>1 DEF ParseResult, Rejected
  <2>2. CASE scoresheet.season \in DOMAIN Rules
    <3>1. Readable(scoresheet, Rules[scoresheet.season])
      BY <2>2, ScoresheetAssumption, RulesAssumption DEF Readable
    <3>2. DOMAIN scoresheet.sets = 1..Len(scoresheet.sets)
      BY <3>1 DEF Readable
    <3>3. ParseResult(scoresheet).result
            = ReadResult(scoresheet, Rules[scoresheet.season], ReadSets(scoresheet, Rules[scoresheet.season])).result
      BY <2>2 DEF ParseResult
    <3> QED
      BY <2>2, <3>1, <3>2, <3>3, Accepting
  <2> QED
    BY <2>1, <2>2
<1> QED
  BY <1>1, <1>2, <1>3, PTL DEF ParserSpec
=============================================================================
