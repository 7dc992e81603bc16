CONSTANTS
    MaxDrafts = 2
    MaxMishaps = 2
    MaxThreads = 3
    Person = {ann, bob}
    Nobody = nobody
    MaxAccounts = 2
    Process = {p, q}
    MaxMigration = 2
    MaxMails = 2
SPECIFICATION SiteSpec
INVARIANTS
    SiteInv
    TokenSpentOnce
    EachStoredOnce
    ScreenIsCurrent
    OneIdentity
    ListIsTrue
    MeantAccount
    LostOnlyByTimeout
PROPERTIES
    TextLeavesStored
    KickedOnlyDead
    GetsThrough
    DeadSessionNoticed
    StopsAtLast
CHECK_DEADLOCK FALSE
