--------------------------- MODULE FactRevisions ----------------------------
(***************************************************************************)
(* The mirror's append-only facts: raw receipts (raw_snapshots.py), the    *)
(* revisions of identities, schedules, results and rosters, and the        *)
(* coverage rows (repositories/facts.py), as ingestion.py writes them: the *)
(* receipt in a transaction of its own, then all facts of its batch in one *)
(* transaction, or a quarantine row in another.                            *)
(*                                                                         *)
(* A transaction runs at READ COMMITTED: seen is how many result revisions *)
(* there were when it read the latest one.  A revision number that was     *)
(* taken meanwhile violates the table's UNIQUE constraint at the insert,   *)
(* and the transaction rolls back.                                         *)
(***************************************************************************)
EXTENDS KovoParser

CONSTANTS Matches,     \* source match codes
          Stability    \* result_stability

ASSUME MirrorAssumption ==
    Null \notin Matches /\ Null \notin {"provisional", "final", "corrected"}

VARIABLES receipts,    \* mirror.raw_snapshots, numbered as inserted
          facts        \* the other tables of schema mirror

NoFacts ==
    [identities |-> [k \in {} |-> <<>>],           \* key -> its revisions
     schedules |-> [m \in Matches |-> <<>>],       \* mirror.match_revisions
     results |-> [m \in Matches |-> <<>>],         \* mirror.result_revisions
     rosters |-> {},                               \* mirror.roster_revisions
     coverage |-> <<>>]                            \* mirror.source_coverage, by transaction

InitMirror == receipts = <<>> /\ facts = NoFacts

-----------------------------------------------------------------------------
(* Receipts.                                                               *)

\* What is not 64 lowercase hexadecimal characters.
NoDigest == [malformed |-> TRUE]

NoBody == [bytes |-> Null, uri |-> Null, hash |-> Null, issues |-> {}]

\* _prepare_raw: the body of a response as it will be stored.
PrepareRaw(response) ==
    LET uri == IF response.uri = "blank" THEN Null ELSE response.uri
        issue(code, holds) == IF holds THEN {code} ELSE {}
    IN  IF response.bytes # Null
        THEN [bytes |-> response.bytes, uri |-> Null, hash |-> response.bytes,
              issues |-> issue("body_hash_mismatch", response.hash \notin {Null, response.bytes})
                           \cup issue("ambiguous_raw_body", response.uri # Null)]
        ELSE LET blank == issue("blank_private_uri", response.uri = "blank")
             IN  CASE uri # Null /\ response.hash \in {Null, NoDigest} ->
                        [NoBody EXCEPT !.issues = blank \cup {"invalid_private_body_hash"}]
                   [] uri # Null ->
                        [NoBody EXCEPT !.uri = uri, !.hash = response.hash, !.issues = blank]
                   [] OTHER ->
                        [NoBody EXCEPT
                           !.issues = blank \cup issue("hash_without_body", response.hash # Null)]

\* _validate_payload, which refuses to insert anything else.
ValidPayload(raw) ==
    /\ raw.bytes = Null \/ raw.uri = Null
    /\ raw.uri # "blank"
    /\ raw.hash # NoDigest
    /\ raw.bytes # Null => raw.hash = raw.bytes
    /\ raw.bytes = Null => (raw.uri # Null <=> raw.hash # Null)

\* The adapter hands over the bytes alone.
Receipt(response, at) ==
    LET raw == PrepareRaw([bytes |-> response.doc, uri |-> Null, hash |-> Null])
    IN  [key |-> response.key, status |-> response.status, doc |-> raw.bytes,
         uri |-> raw.uri, hash |-> raw.hash, at |-> at]

\* add_durable: the receipt commits before anything is read from it.
AddReceipt(response, at) ==
    \E receipt \in {Receipt(response, at)} :
      /\ ValidPayload([bytes |-> receipt.doc, uri |-> receipt.uri, hash |-> receipt.hash])
      /\ receipts' = Append(receipts, receipt)

-----------------------------------------------------------------------------
(* Identities and their revisions.                                         *)

Revisions(table, key) == IF key \in DOMAIN table THEN table[key] ELSE <<>>

\* A revision is appended when what is shown differs from the latest one.
Shown(old, shown, batch) ==
    IF old # <<>> /\ Last(old).shown = shown THEN old
    ELSE Append(old, [shown |-> shown, at |-> batch.at, raw |-> batch.raw])

\* What a batch shows of each key.
SeasonIdentity(batch) == [k \in {"season"} \X batch.seasons |-> k[2]]

\* Label, stage and mapping version of a competition are one value here.
CompetitionIdentity(batch) == [k \in {"competition"} \X batch.seasons |-> "stage"]

\* A team that several games name counts once.
TeamIdentity(batch) ==
    [k \in {<<"team", x.team>> : x \in batch.teams} |->
       LET named == CHOOSE x \in batch.teams : x.team = k[2]
       IN  <<named.label, named.franchise>>]

PlayerIdentity(batch) ==
    [k \in {<<"player", p.player>> : p \in batch.players} |->
       (CHOOSE p \in batch.players : p.player = k[2]).label]

\* Matches and venues have an identity row and no revisions of it: what is
\* shown is part of the key.
MatchIdentity(batch) == [k \in {<<"match", f.match>> : f \in batch.matches} |-> k[2]]

VenueIdentity(batch) ==
    [k \in {"venue"} \X ({f.venue : f \in batch.matches} \ {Null}) |-> k[2][2]]

\* What was observed, with its receipt.
Observed(fact, raw, at) ==
    [f \in {"raw", "at"} \cup DOMAIN fact |->
       IF f = "raw" THEN raw ELSE IF f = "at" THEN at ELSE fact[f]]

\* _append_match_revision: a revision when anything but the observation differs.
MatchRevision(old, fact, batch) ==
    IF old # <<>> /\ \A f \in DOMAIN fact : Last(old)[f] = fact[f] THEN old
    ELSE Append(old, Observed(fact, batch.raw, batch.at))

-----------------------------------------------------------------------------
(* Results.                                                                *)

\* Seeded fault: two equal observations make a result final, however close.
FinalWhenRepeated(latest, result, at) ==
    IF latest.wins = result.wins /\ latest.sets = result.sets
    THEN IF latest.finality = "provisional" THEN "final" ELSE Null
    ELSE IF latest.finality \in {"final", "corrected"} THEN "corrected" ELSE "provisional"

\* The finality of the revision that a result makes after the latest one, Null
\* when it makes none.  Only scores are compared.
NextFinality(latest, result, at) ==
    IF latest.wins = result.wins /\ latest.sets = result.sets
    THEN IF latest.finality = "provisional" /\ at - latest.at >= Stability THEN "final" ELSE Null
    ELSE IF latest.finality \in {"final", "corrected"} THEN "corrected" ELSE "provisional"

Subject(batch) == (CHOOSE f \in batch.matches : TRUE).match

\* Against the revision that the transaction read as the latest, if any.
FinalityOf(table, batch, seen) ==
    IF batch.result = Null THEN Null
    ELSE IF seen = 0 THEN batch.result.finality
    ELSE NextFinality(table[Subject(batch)][seen], batch.result, batch.at)

\* A revision of a result carries its sets and its statistics.
AppendResult(table, batch, seen) ==
    LET finality == FinalityOf(table, batch, seen)
        row == [wins |-> batch.result.wins, sets |-> batch.result.sets, finality |-> finality,
                teamStats |-> batch.teamStats, playerStats |-> batch.playerStats,
                at |-> batch.at, raw |-> batch.raw]
    IN  IF finality = Null THEN table
        ELSE [table EXCEPT ![Subject(batch)] = Append(@, row)]

\* The insert takes a revision number that somebody else has taken.
Conflicts(table, batch, seen) ==
    /\ FinalityOf(table, batch, seen) # Null
    /\ Len(table[Subject(batch)]) > seen

-----------------------------------------------------------------------------
(* Rosters and coverage.                                                   *)

\* A row read from the same content before is not appended again.
AppendRoster(table, player, batch) ==
    LET same(r) == r.team = player.team /\ r.player = player.player
                     /\ receipts[r.raw].hash = receipts[batch.raw].hash
    IN  IF \E r \in table : same(r) THEN table
        ELSE table \cup {[team |-> player.team, player |-> player.player, at |-> batch.at,
                          raw |-> batch.raw]}

\* A coverage row of a match that is not stored names none.
ScopedCoverage(batch, c) ==
    [match |-> IF c.match \in {f.match : f \in batch.matches} THEN c.match ELSE Null,
     kind |-> c.kind, availability |-> c.availability]

\* The coverage rows of a transaction; each names the receipt.
Evidence(batch) ==
    [at |-> batch.at, raw |-> batch.raw, rows |-> {ScopedCoverage(batch, c) : c \in batch.coverage}]

-----------------------------------------------------------------------------
(* The transactions of ingest.                                             *)

\* The identities of a batch.
IdentitiesAfter(table, batch) ==
    LET shown == SeasonIdentity(batch) @@ CompetitionIdentity(batch) @@ TeamIdentity(batch)
                   @@ PlayerIdentity(batch) @@ MatchIdentity(batch) @@ VenueIdentity(batch)
    IN  [k \in DOMAIN table \cup DOMAIN shown |->
           IF k \in DOMAIN shown THEN Shown(Revisions(table, k), shown[k], batch) ELSE table[k]]

\* Its schedules; a page names a match once.
SchedulesAfter(table, batch) ==
    [m \in Matches |->
       IF \E f \in batch.matches : f.match = m
       THEN MatchRevision(table[m], CHOOSE f \in batch.matches : f.match = m, batch)
       ELSE table[m]]

\* persist: every fact of the batch.
Persist(db, batch, seen) ==
    [identities |-> IdentitiesAfter(db.identities, batch),
     schedules |-> SchedulesAfter(db.schedules, batch),
     results |-> AppendResult(db.results, batch, seen),
     rosters |-> FoldSet(LAMBDA p, t : AppendRoster(t, p, batch), db.rosters, batch.players),
     coverage |-> Append(db.coverage, Evidence(batch))]

\* quarantine: evidence, without a match.
Quarantine(raw, availability) ==
    facts' = [facts EXCEPT !.coverage = Append(facts.coverage,
                [at |-> receipts[raw].at, raw |-> raw,
                 rows |-> {[match |-> Null, kind |-> "source_contract",
                            availability |-> availability]}])]

\* A batch names its receipt.
Sourced(parsed, raw) ==
    IF Failed(parsed) THEN parsed ELSE Observed(parsed, raw, receipts[raw].at)

\* What ingest does with a stored receipt before it touches facts.
BatchOf(raw) == Sourced(Parse(receipts[raw]), raw)

-----------------------------------------------------------------------------
(* Safety.                                                                 *)

\* A receipt whose facts are committed.
Committed(r) ==
    \E batch \in {BatchOf(r)} :
      ~Failed(batch) /\ \E i \in DOMAIN facts.coverage : facts.coverage[i] = Evidence(batch)

\* The results of a match that were committed.
Accepted(m) ==
    {r \in DOMAIN receipts :
       receipts[r].key.match = m /\ Committed(r) /\ BatchOf(r).result # Null}

Score(result) == <<result.wins, result.sets>>
=============================================================================
