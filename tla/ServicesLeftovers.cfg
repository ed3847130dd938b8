CONSTANTS
    Parts = {"harvester"}
    FtpItem = {"file", "dir"}
    FtpDirectory = {"dir"}
    FtpWithExtra = {"file"}
    FtpFaults = 1
    HarvestArticle = {"a1", "a2", "a3"}
    HarvestPublished <- MCPublished
    HarvestWanted = {"a1", "a2", "a3"}
    HarvestFaulty = {"a3"}
    HarvestWait = 1
    HarvestFaults = 2
    HarvestDays = 5
    HarvestPeriod = 0
    SwordRequests = 3
    SwordFaults = 1
    DoiRepo = {"none", "first", "any", "picky"}
    DoiLevelPub <- MCLevelPub
    DoiLevelHarv <- MCLevelHarv
    DoiSelective = {"picky"}
    DoiArticle <- MCArticle
    DoiNotes = 3
    MatchOffered <- MCOffered
    MatchAffiliation <- MCAffiliation
    MatchAddress <- MCAddress
    MatchKeys = 1
    MatchChanges = 3
    TestValidator = {"api", "ftp"}
    TestLong = {"ftp"}
    TestNotes = 1
    Tests = 2
    TestChanges = 3
    ListNote = {"p1", "h"}
    ListHarvested = {"h"}
    ListPageSize = 1
    ListKeepDays = 0
    ListWays = {"id", "day"}
    ListClock = 2
    EngineNames = {"EPMC", "Crossref", "PubMed", "Elsevier"}
    EngineLast = 4
    EngineInitially = {1, 2, 4}
    EngineOdd = {2}
    EnginePageSize = 1
    EngineTryTimes = 2
    EngineCursorTries = 2
    EngineFetchTries = 2
    EngineNotRead = EngineNotRead
    EngineChanges = 0
    EngineFaults = 1
    UserRequests = 0
    UserFaults = 0
    TestFaults = 1
    StatAffs = {{"org"}}
    StatDays = 1
    StatNotes = 0
    StatFaults = 0
SPECIFICATION Spec
CHECK_DEADLOCK FALSE
PROPERTY LeftoversKept
