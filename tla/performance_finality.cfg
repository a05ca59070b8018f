SPECIFICATION Spec
CONSTANTS
    Null = Null
    m1 = m1
    m2 = m2
    t1 = t1
    t2 = t2
    t3 = t3
    w1 = w1
    w2 = w2
    p1 = p1
    p2 = p2
    Workers = {w1, w2}
    Matches = {m1, m2}
    Stability = 1
    MaxAttempts = 2
    Franchise <- MCFranchise
    Rules <- MCRules
    Answers <- MCAnswers
    Rank <- MCRank
    MatchRank <- MCRank
    Instants = {1, 2}
    VerifiedSchema <- MCSchema
    Targets <- MCTargets
    SetsToWin = 2
    Whole = 2
    Rows <- MCRows
    Snapshots <- MCSnapshots
    Observations <- MCObservations
    Cutoff = 2
    MaxAge = 1
    MaxRevisions = 2
    MaxLapses = 1
    Thresholds <- MCThresholds
    DayLength = 2
    MonthLength = 2
    Hold = 1
    MaxClock = 2
    MaxCrashes = 1
    AllowedHost = "host"
    AllowedPort = 443
    PublicAddresses = {"a", "b"}
    MaxConnections = 2
    HeaderTimeout = 1
    ConnectTimeout = 1
    IdleTimeout = 2
    MaxHeader = 1
    Parts = 3
    PromptTemplate = "p"
    MaxBytes = 2
    Menus <- MCMenus
    Scoresheets <- MCScoresheets
    Histories <- MCHistories
    MaxInstant = 3
    Focuses = {"performance"}
SYMMETRY Symmetry
INVARIANTS
    SupersededHidden
CHECK_DEADLOCK FALSE
