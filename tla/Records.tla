--------------------------------- MODULE Records ---------------------------------
(***************************************************************************)
(* What is recorded and stored: the submissions of publishers by API       *)
(* (ApiRequests) and the files of notifications (NoteContent), and what    *)
(* administrators write, of e-mails to the contacts of accounts and notes  *)
(* about them (AccountMessages) and as contents of web pages               *)
(* (ManagedContent), each in tables or directories of its own.             *)
(***************************************************************************)
EXTENDS Integers, Sequences, FiniteSets

CONSTANTS
    Administrator,   \* those who work at the same time
    Contacted, DepositsFailed, MessagesKept,   \* AccountMessages: accounts, the errors of each
    MessageDays, MessageLimit, ChangeLimit, MessageFaults,           \* bounds
    PageTexts, PagePlaces, PageLinks, FirstPage, PagesKept, CacheKept,   \* ManagedContent
    PageEvents,                                                      \* bound
    Requester, Requested, RequestFaults,  \* ApiRequests: requests, what they ask, bound
    Archived, PdfsElsewhere, Fetcher, Packagings,   \* NoteContent: archives, links, repositories
    FilesKept, NotesKept, DownloadLimit, RoutingTime, FileDays, FileFaults   \* days, bounds

VARIABLES
    messageAt, work, mails, bulks, rows, errors, errorsTold, messageDay,   \* AccountMessages
    changes, messageFaultCount, answered, mixed,
    versions, hasLink, at, form, now, events, fill, pageCache,   \* ManagedContent
    wanted, saved, shown, overtaken,
    asked, requestAt, itemAt, rec, success, failed, created, lastError,   \* ApiRequests
    replied, newNotes, newRecords, archive, tests, requestFaults,
    fileStage, package, pdfs, store, changed, packaging, needs, links, unpack,   \* NoteContent
    fileDay, routedOn, cache, answer, fileFaultCount

messageVars == <<messageAt, work, mails, bulks, rows, errors, errorsTold, messageDay, changes,
                 messageFaultCount, answered, mixed>>
pageVars == <<versions, hasLink, at, form, now, events, fill, pageCache, wanted, saved, shown,
              overtaken>>
requestVars == <<asked, requestAt, itemAt, rec, success, failed, created, lastError, replied,
                 newNotes, newRecords, archive, tests, requestFaults>>
fileVars == <<fileStage, package, pdfs, store, changed, packaging, needs, links, unpack,
              fileDay, routedOn, cache, answer, fileFaultCount>>

Messages == INSTANCE AccountMessages WITH
    Request <- Administrator, Acc <- Contacted, ErrorsOf <- DepositsFailed,
    KeepDays <- MessagesKept, MaxDay <- MessageDays, MaxMessages <- MessageLimit,
    MaxChanges <- ChangeLimit, MaxFaults <- MessageFaults,
    pc <- messageAt, told <- errorsTold, day <- messageDay, faults <- messageFaultCount

Pages == INSTANCE ManagedContent WITH
    Editor <- Administrator, Bodies <- PageTexts, Sorts <- PagePlaces, Links <- PageLinks,
    First <- FirstPage, KeepFor <- PagesKept, CacheFor <- CacheKept, MaxEvents <- PageEvents,
    rows <- versions, cache <- pageCache, answered <- saved

Requests == INSTANCE ApiRequests WITH
    Request <- Requester, Submissions <- Requested, MaxFaults <- RequestFaults,
    pc <- requestAt, at <- itemAt, answer <- replied, notes <- newNotes,
    records <- newRecords, faults <- requestFaults

Content == INSTANCE NoteContent WITH
    Packages <- Archived, PdfLinks <- PdfsElsewhere, Repo <- Fetcher, Settings <- Packagings,
    StoreDays <- FilesKept, KeepDays <- NotesKept, LimitDays <- DownloadLimit,
    RouteDays <- RoutingTime, MaxDay <- FileDays, MaxFaults <- FileFaults,
    stage <- fileStage, day <- fileDay, faults <- fileFaultCount

ASSUME RecordingAssumption ==
    /\ Messages!MessagesAssumption /\ Pages!ManagedContentAssumption
    /\ Requests!RequestsAssumption /\ Content!ContentAssumption

RecordingInit == Messages!Init /\ Pages!Init /\ Requests!Init /\ Content!Init
RecordingNext ==
    \/ Messages!Next /\ UNCHANGED <<pageVars, requestVars, fileVars>>
    \/ Pages!Next /\ UNCHANGED <<messageVars, requestVars, fileVars>>
    \/ Requests!Next /\ UNCHANGED <<messageVars, pageVars, fileVars>>
    \/ Content!Next /\ UNCHANGED <<messageVars, pageVars, requestVars>>
RecordingSpec ==
    RecordingInit /\ [][RecordingNext]_<<messageVars, pageVars, requestVars, fileVars>>

-----------------------------------------------------------------------------
(* Properties, each stated in the component's module.                      *)

\* AccountMessages, ManagedContent: what is recorded of e-mails to accounts agrees with what
\* was sent, and the text of a bulk e-mail with what each account's page lists of it
\* (jper/views/account.py); what editors were told holds, what they made live is live, what
\* was live is kept, and pages show nothing that was replaced before their cache was cleared
\* (jper/views/admin.py, jper/models/admin.py).
AdministrationInOrder ==
    /\ Messages!RecordsTrue /\ Messages!BulkRecorded /\ Messages!TextThere
    /\ Pages!WantedIsLive /\ Pages!AnsweredIsSaved /\ Pages!KeptAfterLive
    /\ Pages!ClearedIsGone

\* ApiRequests: answers, records and archive agree with what has been created
\* (jper/views/webapi.py).
RequestsInOrder ==
    Requests!AnswersTrue /\ Requests!RecordsAgree /\ Requests!ArchiveAgrees

\* NoteContent: links lead to files for as long as repositories are told, and what they get
\* by them or by SWORD is what they need and what is recorded (jper/packages.py,
\* jper/unpacked.py, jper/api.py, jper_sword_out/deposit.py).
ContentKept ==
    Content!LinksLead /\ Content!NeedsMet /\ Content!RequestsAnswered /\ Content!DepositsRecorded
===============================================================================
