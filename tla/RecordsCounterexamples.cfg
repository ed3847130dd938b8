\* Each of these is violated.  TLC stops at the first; leave out the others to see one.
CONSTANTS
    Exercised = {"contribs", "elements", "merge", "content", "versions", "requests", "licences"}
    LicenceDays = 6
    Archived <- Archives
    PdfsElsewhere <- LinksToPdfs
    Fetcher = {"r1", "r2"}
    Packagings <- PackagingsOfTwo
    FilesKept = 2
    NotesKept = 2
    DownloadLimit = 1
    RoutingTime = 1
    FileDays = 3
    FileFaults = 1
    SentTo = {"r1"}
    OutFaults = 0
    OutGui = 0
    Administrator = {1, 2}
    Contacted = {"a", "b"}
    DepositsFailed <- FailedDeposits
    MessagesKept = 0
    MessageDays = 1
    MessageLimit = 1
    ChangeLimit = 2
    MessageFaults = 1
    PageTexts = {"a", "b"}
    PagePlaces = {"1", "2"}
    PageLinks = {"x"}
    FirstPage <- FirstText
    PagesKept = 0
    CacheKept = 0
    PageEvents = 3
    Requester = {1, 2}
    Requested <- AskedFor
    RequestFaults = 1
SPECIFICATION Spec
CHECK_DEADLOCK FALSE
INVARIANT DefaultEmbargoKept
INVARIANT TaggedAccepted
INVARIANT ContradictionsRefused
INVARIANT MatchDataKept
INVARIANT EmailsOfOwnAffs
INVARIANT OtherTextKept
INVARIANT CopiesWhole
INVARIANT AllPdfsUnpacked
INVARIANT DoiRemoved
INVARIANT BothRefused
INVARIANT EachArchived
INVARIANT RefusedNotCreated
INVARIANT ValidMeansValid
