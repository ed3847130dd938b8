\* What becomes of articles' data, and what administrators write, one component at a time.
CONSTANTS
    Exercised = {"contribs", "elements", "merge", "content", "versions", "requests", "checks", "messages", "pages", "licences", "sword_out"}
    LicenceDays = 5
    Archived <- Archives
    PdfsElsewhere <- LinksToPdfs
    Fetcher = {"r1", "r2"}
    Packagings <- PackagingsOfTwo
    FilesKept = 2
    NotesKept = 2
    DownloadLimit = 1
    RoutingTime = 1
    FileDays = 3
    FileFaults = 1
    SentTo = {"r1", "r2"}
    OutFaults = 1
    OutGui = 1
    Administrator = {1, 2}
    Contacted = {"a", "b"}
    DepositsFailed <- FailedDeposits
    MessagesKept = 0
    MessageDays = 1
    MessageLimit = 1
    ChangeLimit = 2
    MessageFaults = 1
    PageTexts = {"a", "b"}
    PagePlaces = {"1"}
    PageLinks = {"x"}
    FirstPage <- FirstText
    PagesKept = 0
    CacheKept = 0
    PageEvents = 3
    Requester = {1, 2}
    Requested <- AskedFor
    RequestFaults = 1
SPECIFICATION FairSpec
CHECK_DEADLOCK FALSE
INVARIANT TypeOK
INVARIANT LicencesAgree
INVARIANT MetadataKept
INVARIANT ContentKept
INVARIANT VersionsAgree
INVARIANT RequestsInOrder
INVARIANT AdministrationInOrder
PROPERTY EventuallySent
