---------------------------- MODULE HealthReport ----------------------------
(***************************************************************************)
(* The evidence the monitor collects from files and from the database      *)
(* (ops/health_evidence.py) and the report it evaluates from it            *)
(* (ops/health.py).  A field that does not parse counts as absent.         *)
(***************************************************************************)
EXTENDS Commons, Integers, FiniteSets, FiniteSetsExt

CONSTANTS Thresholds,             \* HealthThresholds: an age for each kind of evidence,
                                  \* the host clock's offset, and a ratio in percent
          DayLength, MonthLength  \* a month is that many days

CheckIds ==
    {"worker_heartbeat", "backup_freshness", "backup_integrity", "ntp_sync", "running_jobs",
     "provider_budgets"}

Check(status, evidence) == [status |-> status, evidence |-> evidence]

Unknown == Check("unknown", Null)

\* Evidence from the future is no more trusted than stale evidence.
Fresh(at, now, kind) == now - at \in 0..Thresholds[kind]

OkIf(condition) == IF condition THEN "ok" ELSE "critical"

-----------------------------------------------------------------------------
(* Collection.                                                             *)

Day(t) == t \div DayLength
Month(t) == t \div (DayLength * MonthLength)

Amount(reservation) ==
    IF reservation.settled = Null THEN reservation.reserved ELSE reservation.settled

\* The usage of the current day and month, by provider and currency.
ProviderUsage(ledger, now) ==
    LET today == {r \in ledger : Day(r.at) = Day(now)}
        month == {r \in ledger : Month(r.at) = Month(now)}
        Of(rows, group) == {r \in rows : <<r.provider, r.currency>> = group}
    IN  {[provider |-> g[1], currency |-> g[2],
          used |-> [daily |-> [amount |-> MapThenSumSet(Amount, Of(today, g)),
                               calls |-> Cardinality(Of(today, g))],
                    monthly |-> [amount |-> MapThenSumSet(Amount, Of(month, g)),
                                 calls |-> Cardinality(Of(month, g))]]] :
           g \in {<<r.provider, r.currency>> : r \in today \cup month}}

\* Usage of a provider or in a currency that no limit speaks of voids it all.
MergeProviderBudgets(limits, usage) ==
    IF \E row \in usage :
         \/ row.provider \notin DOMAIN limits
         \/ row.currency # limits[row.provider].currency
         \/ \E other \in usage \ {row} : other.provider = row.provider
    THEN Null
    ELSE {[provider |-> p, limit |-> limits[p].limit,
           used |-> IF \E row \in usage : row.provider = p
                    THEN (CHOOSE row \in usage : row.provider = p).used
                    ELSE [daily |-> [amount |-> 0, calls |-> 0],
                          monthly |-> [amount |-> 0, calls |-> 0]]] : p \in DOMAIN limits}

\* No provider is expected to spend while live calls are off.
LoadProviderLimits(config) ==
    IF config = Null THEN Null
    ELSE [p \in {p \in DOMAIN config.providers : config.live /\ config.providers[p].enabled} |->
            config.providers[p]]

\* world: two files, the configuration, backups, and what a query would return.
EvidenceWith(limits, world, now) ==
    [collected |-> now,
     heartbeat |-> world.heartbeat,
     ntp |-> world.ntp,
     jobs |-> IF world.database THEN world.jobs ELSE Null,
     budgets |-> IF world.database /\ limits # Null
                 THEN MergeProviderBudgets(limits, ProviderUsage(world.ledger, now))
                 ELSE Null,
     expected |-> IF limits = Null THEN {} ELSE DOMAIN limits]

CollectOperationsEvidence(world, now) ==
    EvidenceWith(LoadProviderLimits(world.config), world, now)

-----------------------------------------------------------------------------
(* Evaluation.                                                             *)

EvaluateHeartbeat(at, now) ==
    IF at = Null THEN Unknown
    ELSE Check(OkIf(Fresh(at, now, "heartbeat")), [heartbeat_at |-> at])

EvaluateBackupManifest(manifest, now) ==
    IF manifest = Null \/ (manifest # Null => ~manifest.supported \/ manifest.created = Null)
    THEN Unknown
    ELSE IF ~manifest.preserves
    THEN Check("critical", [created_at |-> manifest.created])
    ELSE IF ~manifest.sound
    THEN Unknown
    ELSE Check(OkIf(Fresh(manifest.created, now, "backup")),
               [created_at |-> manifest.created, content |-> manifest.content])

\* content: the length and the hash; Null stands for a file that cannot be read.
EvaluateBackupArtifact(manifest, artifact) ==
    IF manifest = Null \/ (manifest # Null => ~manifest.sound)
    THEN Unknown
    ELSE Check(OkIf(artifact = manifest.content), [content |-> manifest.content])

EvaluateNtp(ntp, now) ==
    IF ntp = Null THEN Unknown
    ELSE Check(OkIf(/\ Fresh(ntp.observed, now, "ntp")
                    /\ ntp.synchronized
                    /\ ntp.offset \in -Thresholds.offset..Thresholds.offset), ntp)

\* lease_started_at is the start of the last lease, not of the job.
EvaluateRunningJobs(jobs, now) ==
    LET invalid == {job \in jobs : job.started = Null \/ job.until = Null}
        stale == {job \in jobs : \/ ~Fresh(job.started, now, "job")
                                 \/ job.until <= now}
    IN  IF jobs = Null THEN Unknown
        ELSE IF invalid # {} THEN Check("unknown", [invalid |-> {job.id : job \in invalid}])
        ELSE IF stale # {} THEN Check("critical", [stale |-> stale, running |-> Cardinality(jobs)])
        ELSE Check("ok", [running |-> Cardinality(jobs)])

EvaluateProviderBudgets(budgets, expected) ==
    LET reported == {row.provider : row \in budgets}
        Reaches(percent) ==
            \E row \in budgets, period \in {"daily", "monthly"}, kind \in {"amount", "calls"} :
              100 * row.used[period][kind] >= percent * row.limit[period][kind]
    IN  IF budgets = Null THEN Unknown
        ELSE IF reported # expected
        THEN Check("unknown", [missing |-> expected \ reported, other |-> reported \ expected])
        ELSE Check(IF Reaches(100) THEN "critical"
                   ELSE IF Reaches(Thresholds.ratio) THEN "warning" ELSE "ok",
                   [providers |-> {<<row.provider, row.used, row.limit>> : row \in budgets}])

\* What the database said counts only while the answer is fresh.
EvaluateOperationsHealth(evidence, manifest, artifact, now) ==
    LET stale == Check("critical", [collected_at |-> evidence.collected])
        current == Fresh(evidence.collected, now, "database")
    IN  [c \in CheckIds |->
           CASE c = "worker_heartbeat" -> EvaluateHeartbeat(evidence.heartbeat, now)
             [] c = "backup_freshness" -> EvaluateBackupManifest(manifest, now)
             [] c = "backup_integrity" -> EvaluateBackupArtifact(manifest, artifact)
             [] c = "ntp_sync" -> EvaluateNtp(evidence.ntp, now)
             [] c = "running_jobs" ->
                  IF current THEN EvaluateRunningJobs(evidence.jobs, now) ELSE stale
             [] c = "provider_budgets" ->
                  IF current THEN EvaluateProviderBudgets(evidence.budgets, evidence.expected)
                  ELSE stale]

ReportStatus(checks) ==
    LET statuses == {checks[c].status : c \in CheckIds}
    IN  CASE "critical" \in statuses -> "critical"
          [] "critical" \notin statuses /\ "unknown" \in statuses -> "unknown"
          [] statuses \in SUBSET {"ok", "warning"} /\ "warning" \in statuses -> "warning"
          [] OTHER -> "ok"

\* A backup is a manifest and the file it is named after; the latest counts.
LatestBackup(backups) ==
    LET created(b) == IF b.manifest.created = Null THEN -1 ELSE b.manifest.created
    IN  IF backups = {} THEN [manifest |-> Null, artifact |-> Null]
        ELSE CHOOSE b \in backups : \A other \in backups : created(other) <= created(b)

Reported(checks, now) == [at |-> now, status |-> ReportStatus(checks), checks |-> checks]

ReportOn(evidence, backup, now) ==
    Reported(EvaluateOperationsHealth(evidence, backup.manifest, backup.artifact, now), now)

\* main: the report that an evaluation at that moment writes.
Report(evidence, backups, now) == ReportOn(evidence, LatestBackup(backups), now)
=============================================================================
