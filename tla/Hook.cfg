SPECIFICATION HookSpec
CONSTANTS
    Every = 2
    Window = 2
    HabitThreshold = 1
    InFlight = 1
    VerdictTtl = 2
    RecordTtl = 2
    Sessions <- ObserverSessions
    MaxJudges = 2
    Plans <- GatePlans
    Ttl = 2
    jobA = jobA
    jobB = jobB
    noJob = noJob
    NoNominee = noJob
    Situations <- StopSituations
    MaxEmptyTurns = 2
    MaxReseed = 2
    MaxJobs = 2
    Alarm = 2
INVARIANTS
    HookTypeOK
    OneJudge
    HaltsAreDelivered
    LedgerIsTrue
    DeclarationsCover
    AnswersTheirRefusal
    LoneWritesAreNoticed
    NeverWedged
PROPERTIES
    RecordsAreOneUse
    StopsAreJudged
CHECK_DEADLOCK FALSE
