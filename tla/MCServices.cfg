SPECIFICATION ServicesSpec
CONSTANTS
    \* Gateway
    MaxRequests = 2
    MaxTime = 3
    FiveHours = 1
    Week = 2
    TokenCap <- MCTokenCap
    CostCap <- MCCostCap
    NoCap = NoCap
    Unknown = Unknown
    Usages <- MCUsages
    Policies <- MCPolicies
    KeyCount = 2
    Cooldown = 1
    \* Licence
    StripeEvents <- MCStripeEvents
    EventOf <- MCEventOf
    CustomerOf <- MCCustomerOf
    MaxLicences = 2
    LicenceTime = 2
    MaxLives = 2
    CacheLife = 2
    KeyLife = 1
    \* Fleet
    MaxProcesses = 3
    FleetCalls = {c1, c2}
    FleetTime = 1
    Hour = 1
    MaxManagers = 2
    RestartLimit = 2
    \* Access
    Emails = {m1}
    Projects = {p1}
    Roles = {viewer, admin}
    MaxInvitations = 3
    AccessTime = 2
    InviteLife = 1
    \* Webhooks
    Deliveries = {d1, d2}
    Replays = {r1, r2}
    Tenants = {t1}
    MaxLogged = 3
    MAX_ATTEMPTS = 2
    MaxCrashes = 1
    \* Alerts
    Evaluations = {e1, e2}
    Operators = {o1}
    MaxOccurrences = 2
    MaxVersion = 3
    AlertTime = 1
    RuleCooldown = 1
    TopSeverity = 1
    \* Providers
    Tiers <- MCTiers
    ModelCalls = {q1, q2}
    PrTime = 2
    OpenFor = 1
    DEGRADE_AT = 1
    OPEN_AT = 2
    \* CloudSync
    Paths = {path}
    Values = {v1, v2}
    MaxPushes = 2
    MaxEvents = 1
    CloudTime = 2
    MaxDeaths = 1
    \* PolicyFile
    Processes = {dashboard, agent}
    Limits = {1, 2}
    MaxOps = 2
    MaxDeadWriters = 1
    \* Realtime
    MaxSequence = 4
    maxEvents = 2
    MaxBrokers = 2
    failureThreshold = 2
    MaxFailures = 2
    \* Setup
    SetupSessions = {session}
    KeyChoices = {a, b}
    Details = {shown}
    MaxValidations = 2
    MaxAsks = 2
    MaxInstallDeaths = 1
    \* Rollup
    Hours = 3
    HoursPerDay = 2
    MaxPerHour = 2
    MaxPassDeaths = 1
    \* Worktrees
    Runs = {"r1", "r2"}
    TaskOf <- MCTaskOf
    Main = main
    MaxCommits = 2
    MaxBoots = 1
    \* ApiKeys
    KeyServers = {p1, p2}
    MaxApiKeys = 3
    KeyTime = 1
    Overlap = 1
    \* Management
    MgmtRequests = {"q1", "q2", "q3"}
    TenantOf <- MCTenantOf
    MaxReboots = 1
    \* Routing
    RoutedAgents = {"a1", "a2"}
    ThirdParties = {"deepseek"}
    TopTier = 3
    ServedTiers <- MCServedTiers
    Speaks <- MCSpeaks
    Signals <- MCSignals
    EntryHarnesses = {"claude-code"}
    MaxPlans = 1
    \* RateLimiter
    LimitedKeys = {k1}
    RequestLimit = 2
    WindowLength = 3
    PerSecond = 2
    RateTime = 7
    \* Push
    Ticks = {t1, t2}
    Escalations <- MCEscalations
    PayloadCap = 1
    MaxTold = 2
    \* ModelCatalog
    Listings <- MCListings
    WindowOf <- MCWindowOf
    MaxJobs = 2
    MaxTierSets = 1
    MaxJobDeaths = 1
INVARIANTS
    ServicesTypeOK
    AtMostOnce
    MeteredOnce
    
    EndedStaysEnded
    AllOrNothing
    KeptApart
    CooldownHolds
    EscalationHeard
    NothingLost
    NeverMisled
PROPERTIES
    
    DisabledForFailing
    ActedOnWhatWasSeen
\* Every service may come to its bounds and stop.
CHECK_DEADLOCK FALSE
