SPECIFICATION PlatformSpec
CONSTANTS
    BridgeOrg = {o1, o2}
    BridgeRun = {r1, r2}
    RunOrg <- MCRunOrg
    LastInstant = 3
    ExportOrgs = 3
    DelOrg = {"a", "b"}
    Row <- MCRow
    FirstRows <- MCFirstRows
    Ticket = {t1}
    NoTicket = none
    Clerk = {c1, c2}
    Runner = {n1, n2}
    History = {"empty", "by hand", "before the renaming"}
    Length = 4
    Survey <- MCSurvey
    Lookahead = 3
    MaxMoves = 2
    MinImprovement = 1
    MaxOptimised = 6
    Window = 3
    PoolStop <- MCPoolStop
    Risks <- MCRisks
    Overrides <- MCOverrides
    RawLimit = 2
    RunLimit = 2
    Bonus = 10
    Worker = {w1}
    Nobody = nobody
    Planner = {p1, p2}
    Run = {r1}
    Account = {a1, a2}
    NoAccount = noAccount
    Ping = {p1, p2}
    MaxFails = 2
    o1 = o1
    o2 = o2
    stranger = stranger
    noOrg = noOrg
    noChoice = noChoice
    Org = {o1, o2}
    Stranger = stranger
    NoOrg = noOrg
    Home = o1
    DevRole = {"Admin"}
    Deployment <- MCDeployment
    Token <- MCToken
    Caller = {r1}
    Socket = {k1, k2}
    Stop2 = {s1}
    Pool2 = {b1, b2, b3}
    NoPool = noPool
    Editor = {e1, e2}
    ActivePool = {p1}
    FlaggedStop = {s1}
    Flag = {f1}
    TypeKey = {t1}
    KnownTypes = {t1}
    CsvFile <- MCCsvFile
    BadCsv <- MCBadCsv
    Form <- MCForm
    Seeder = {e1, e2}
    NoFile = noFile
    Rule <- MCRule
    Item <- MCItem
    ItemRun <- MCItemRun
    ItemStop <- MCItemStop
    CompleteForm <- MCCompleteForm
    SkipForm <- MCSkipForm
    LastDay = 2
    MaxVisits = 2
    RiskOrg = {"o1", "o2"}
    RiskStop = {"a", "b", "c"}
    OrgOfStop <- MCOrgOfStop
    InBase = {"a", "b", "c"}
    Hotspot = {"a"}
    Signs <- MCSigns
    FirstSigns <- MCFirstSigns
    Rebuild = {r1, r2}
    LastRebuild = 3
    PanelPool = {"p1", "p2"}
    PanelBase = {"b1"}
    PanelStop = {"a", "b"}
    PoolBase <- MCPoolBase
    NoChoice = noChoice
    Task = {"washed_can"}
    NoDraft = noDraft
INVARIANTS
    PlatformTypeOK
    WatermarkWasLogged
    ExportIsUsable
    AppliedExactlyOnce
    OrderKeepsStops
    RunIsWhole
    NobodyIsStranded
    ServedInOwnOrg
    PoolNamedOnce
    FilesDoNotMix
    ScreensAgree
    
    SnapshotIsWhole
    TaggedRunIsPicked
    SpotCheckStandsAlone
PROPERTIES
    DeletionIsWhole
    PassesImprove
    
CHECK_DEADLOCK FALSE
