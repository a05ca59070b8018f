------------------------------ MODULE ReadApi ------------------------------
(***************************************************************************)
(* Reading the schedule and the history of predictions, page by page:      *)
(* api/repository.py (load_query) and api/service.py (schedule,            *)
(* prediction_history).  A response is computed in one REPEATABLE READ     *)
(* transaction, so it is one step; the worker writes between two of them.  *)
(*                                                                         *)
(* Filters are a day and a provider.  A prediction and a failed attempt    *)
(* are records, numbered in the order of their identifiers; a snapshot is  *)
(* its identifier and its cutoff.                                          *)
(***************************************************************************)
EXTENDS Commons, Integers, Sequences, FiniteSets, SequencesExt, FiniteSetsExt

CONSTANTS MatchRank,    \* the order of the identifiers of the matches
          Instants      \* generated_at, and the starts of matches

ASSUME ReadAssumption ==
    /\ MatchRank \in [DOMAIN MatchRank -> Int]
    /\ \A m, n \in DOMAIN MatchRank : MatchRank[m] = MatchRank[n] => m = n
    /\ Instants \subseteq Int

VARIABLES tables,   \* what the database holds, and how often it may change yet
          walk      \* a client that asks for page after page

readVars == <<tables, walk>>

NotReading == [phase |-> "none", query |-> Null, cursor |-> Null, seen |-> Null, shown |-> <<>>]

ReadInit(databases) == tables \in databases /\ walk = NotReading

-----------------------------------------------------------------------------
(* The queries.                                                            *)

MatchesOf(t) == DOMAIN t.starts

\* current_status of the projection: the last event.
Life(t, i) ==
    LET happened == {n \in DOMAIN t.events : t.events[n].record = i}
    IN  IF happened = {} THEN Null ELSE t.events[Max(happened)].type

Visible(t, i) == t.records[i].succeeded => Life(t, i) # Null

Status(t, i) == IF t.records[i].succeeded THEN Life(t, i) ELSE "failed"

OfProvider(r, provider) == provider = Null \/ r.provider = provider

\* _ENDPOINT_REVISION_SQL.  The tables only grow: a count says as much as a
\* count and the latest created_at.
EndpointRevision(t, endpoint) ==
    [revisions |-> SumFunctionOnSet([m \in MatchesOf(t) |-> Len(t.starts[m])], MatchesOf(t)),
     predictions |-> Cardinality({i \in DOMAIN t.records : t.records[i].succeeded}),
     attempts |-> Cardinality({i \in DOMAIN t.records : ~t.records[i].succeeded}),
     events |-> Len(t.events),
     evaluations |-> IF endpoint = "predictions" THEN t.evaluations ELSE 0]

\* Tuples in their lexical order.
Before(a, b) == \E n \in DOMAIN a : a[n] < b[n] /\ \A k \in 1..n - 1 : a[k] = b[k]

Ahead(order, S, x) == {y \in S : <<y, x>> \in order}

\* ORDER BY, sorted.
Ordered(S, order) ==
    [n \in 1..Cardinality(S) |-> CHOOSE x \in S : Cardinality(Ahead(order, S, x)) = n - 1]

\* Seeded fault: the identifier does not break a tie.
BeforeInTime(a, b) == a[1] < b[1]

BeyondCursor(a, b) == Before(a, b)

RecordKey(t, i) == <<t.records[i].at, i>>

NewestFirst(t) ==
    {x \in (DOMAIN t.records) \X (DOMAIN t.records) : Before(RecordKey(t, x[2]), RecordKey(t, x[1]))}

\* _PREDICTION_SQL, newest first, beyond the boundary.
PredictionRows(t, query, boundary) ==
    Ordered({i \in DOMAIN t.records :
               /\ Visible(t, i) /\ OfProvider(t.records[i], query.provider)
               /\ boundary # Null => BeyondCursor(RecordKey(t, i), boundary)},
            NewestFirst(t))

-----------------------------------------------------------------------------
(* The forecasts a match shows (_current_prediction_rows).                 *)

\* Of the latest schedule, and not revoked.
Candidates(t, m, provider) ==
    {i \in DOMAIN t.records :
       /\ t.records[i].match = m /\ OfProvider(t.records[i], provider)
       /\ t.records[i].revision = Len(t.starts[m])
       /\ t.records[i].succeeded => Life(t, i) = "published"}

Grouped(t, rows) == {t.records[i].snapshot : i \in rows}

InGroup(t, rows, snapshot) == {i \in rows : t.records[i].snapshot = snapshot}

GroupRank(t, group, snapshot) ==
    <<Cardinality({t.records[i].provider : i \in group}),
      Cardinality({i \in group : t.records[i].succeeded}),
      snapshot.cutoff,
      Max({t.records[i].at : i \in group}),
      snapshot.id>>

Preferred(t, rows) ==
    {s \in Grouped(t, rows) : \A other \in Grouped(t, rows) \ {s} :
       Before(GroupRank(t, InGroup(t, rows, other), other), GroupRank(t, InGroup(t, rows, s), s))}

SelectedGroup(t, rows) == InGroup(t, rows, CHOOSE s \in Preferred(t, rows) : TRUE)

RowRank(t, i) == <<IF t.records[i].succeeded THEN 1 ELSE 0, t.records[i].at, i>>

Representatives(t, group) ==
    {i \in group : \A j \in group \ {i} :
       t.records[j].provider = t.records[i].provider => Before(RowRank(t, j), RowRank(t, i))}

CurrentPredictionRows(t, m, provider) ==
    IF Candidates(t, m, provider) = {} THEN {}
    ELSE Representatives(t, SelectedGroup(t, Candidates(t, m, provider)))

MatchKey(t, m) == <<Last(t.starts[m]).at, MatchRank[m]>>

EarliestFirst(t) ==
    {x \in MatchesOf(t) \X MatchesOf(t) : Before(MatchKey(t, x[1]), MatchKey(t, x[2]))}

ScheduleRows(t, query) ==
    Ordered({m \in MatchesOf(t) :
               /\ Last(t.starts[m]).day = query.day
               /\ query.provider # Null => CurrentPredictionRows(t, m, query.provider) # {}},
            EarliestFirst(t))

-----------------------------------------------------------------------------
(* A response.                                                             *)

Outcomes(t, rows) ==
    {[record |-> i, provider |-> t.records[i].provider, status |-> Status(t, i)] : i \in rows}

MatchItem(t, query, m) ==
    [of |-> m, key |-> MatchKey(t, m),
     outcomes |-> Outcomes(t, CurrentPredictionRows(t, m, query.provider))]

RecordItem(t, i) == [of |-> i, key |-> RecordKey(t, i), outcomes |-> Outcomes(t, {i})]

Refusal(status) == [status |-> status, items |-> <<>>, cursor |-> Null]

\* The cursor names the last item of the page and what the page was read of.
Response(t, query, items, more) ==
    [status |-> 200, items |-> items,
     cursor |-> IF more /\ items # <<>>
                THEN [revision |-> EndpointRevision(t, query.endpoint), key |-> Last(items).key]
                ELSE Null]

Stale(t, query, cursor) == cursor # Null /\ cursor.revision # EndpointRevision(t, query.endpoint)

Leading(s, n) == SubSeq(s, 1, Min({n, Len(s)}))

\* _page: where the cursor ends is looked up in all rows.
IndexPage(t, query, items, start) ==
    IF start = -1 THEN Refusal(422)
    ELSE Response(t, query, Leading(SubSeq(items, start + 1, Len(items)), query.limit),
                  start + query.limit < Len(items))

StartAfter(items, cursor) ==
    IF cursor = Null THEN 0
    ELSE LET found == {n \in DOMAIN items : items[n].key = cursor.key}
         IN  IF found = {} THEN -1 ELSE Min(found)

Schedule(t, query, cursor) ==
    IF Stale(t, query, cursor) THEN Refusal(409)
    ELSE LET rows == ScheduleRows(t, query)
             items == [n \in DOMAIN rows |-> MatchItem(t, query, rows[n])]
         IN  IndexPage(t, query, items, StartAfter(items, cursor))

\* _database_page: the database has read one row more than the page holds.
PredictionHistory(t, query, cursor) ==
    IF Stale(t, query, cursor) THEN Refusal(409)
    ELSE LET rows == Leading(PredictionRows(t, query, IF cursor = Null THEN Null ELSE cursor.key),
                             query.limit + 1)
             page == Leading(rows, query.limit)
         IN  Response(t, query, [n \in DOMAIN page |-> RecordItem(t, page[n])],
                      Len(rows) > query.limit)

Read(t, query, cursor) ==
    IF query.endpoint = "schedule" THEN Schedule(t, query, cursor)
    ELSE PredictionHistory(t, query, cursor)

-----------------------------------------------------------------------------
(* The steps.                                                              *)

PageTurned(w, response) ==
    [w EXCEPT !.phase = IF response.status # 200 THEN "refused"
                        ELSE IF response.cursor = Null THEN "complete" ELSE "open",
              !.cursor = response.cursor,
              !.shown = @ \o response.items]

Open(query) ==
    /\ walk.phase = "none"
    /\ walk' = PageTurned([walk EXCEPT !.query = query, !.seen = tables], Read(tables, query, Null))
    /\ UNCHANGED tables

Continue ==
    /\ walk.phase = "open"
    /\ walk' = PageTurned(walk, Read(tables, walk.query, walk.cursor))
    /\ UNCHANGED tables

\* What the worker writes: a new schedule, a prediction or a failed attempt,
\* whose generated_at is a reading from before the insert, a revocation, an
\* evaluation.
WithStart(t, m, start) == [t EXCEPT !.starts[m] = Append(@, start)]

WithRecord(t, r) ==
    [t EXCEPT !.records = Append(@, r),
              !.events = IF r.succeeded
                         THEN Append(@, [record |-> Len(t.records) + 1, type |-> "published"])
                         ELSE @]

WithRevocation(t, i) == [t EXCEPT !.events = Append(@, [record |-> i, type |-> "voided"])]

WithEvaluation(t) == [t EXCEPT !.evaluations = @ + 1]

Written(t) ==
    {WithStart(t, m, start) : m \in MatchesOf(t), start \in [day : {1, 2}, at : Instants]} \cup
    {WithRecord(t, r) : r \in t.arrivals} \cup
    {WithRevocation(t, i) : i \in {k \in DOMAIN t.records : Life(t, k) = "published"}} \cup
    {WithEvaluation(t)}

Write ==
    /\ tables.writes > 0
    /\ walk.phase = "open"
    /\ \E t \in Written(tables) : tables' = [t EXCEPT !.writes = @ - 1]
    /\ UNCHANGED walk

ReadNext == Write \/ Continue \/ \E query \in tables.queries : Open(query)

ReadSpec(databases) == ReadInit(databases) /\ [][ReadNext]_readVars

-----------------------------------------------------------------------------
(* Properties.                                                             *)

Revoked(t, i) == [record |-> i, type |-> "voided"] \in Range(t.events)

\* What a walk has to show of the tables it began with.
Listed(t, query) ==
    IF query.endpoint = "predictions"
    THEN {i \in DOMAIN t.records : query.provider \in {Null, t.records[i].provider}}
    ELSE {m \in MatchesOf(t) :
            /\ t.starts[m][Len(t.starts[m])].day = query.day
            /\ query.provider # Null => \E i \in DOMAIN t.records :
                 /\ t.records[i].match = m /\ t.records[i].revision = Len(t.starts[m])
                 /\ t.records[i].provider = query.provider
                 /\ ~Revoked(t, i)}

\* The forecasts shown with a match belong to one snapshot of its latest
\* schedule, one of each provider; a failure stands for no forecast that came about.
SoundOutcomes(t, item) ==
    /\ \A o \in item.outcomes :
         /\ t.records[o.record].match = item.of
         /\ t.records[o.record].revision = Len(t.starts[item.of])
         /\ ~Revoked(t, o.record)
         /\ o.status = "failed" => \A i \in DOMAIN t.records :
              t.records[i] = [t.records[o.record] EXCEPT !.succeeded = TRUE, !.at = t.records[i].at]
                => Revoked(t, i)
    /\ \A o, other \in item.outcomes :
         /\ t.records[o.record].snapshot = t.records[other.record].snapshot
         /\ o.provider = other.provider => o = other

\* Whatever is written between two pages: a walk that is not turned away
\* shows every match of the day, or every record, once and in order, with the
\* status it had when the walk began; and beside a match only forecasts that
\* stood then, of one snapshot.
WalksTrue ==
    walk.phase # "none" =>
      /\ \A a, b \in DOMAIN walk.shown : a < b =>
           /\ walk.shown[a].of # walk.shown[b].of
           /\ IF walk.query.endpoint = "schedule"
              THEN Before(walk.shown[a].key, walk.shown[b].key)
              ELSE Before(walk.shown[b].key, walk.shown[a].key)
      /\ {walk.shown[n].of : n \in DOMAIN walk.shown} \subseteq Listed(walk.seen, walk.query)
      /\ walk.phase = "complete" =>
           {walk.shown[n].of : n \in DOMAIN walk.shown} = Listed(walk.seen, walk.query)
      /\ \A n \in DOMAIN walk.shown :
           /\ walk.query.endpoint = "schedule" => SoundOutcomes(walk.seen, walk.shown[n])
           /\ \A o \in walk.shown[n].outcomes :
                o.status = "published" <=>
                  walk.seen.records[o.record].succeeded /\ ~Revoked(walk.seen, o.record)
=============================================================================
