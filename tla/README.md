# PubRouter in TLA+

Publications Router takes notifications about research articles from publishers
(FTP, API, SWORD) and from harvested sources, finds out which repositories they
concern, and delivers them.  This directory holds models of the parts of it
where several programs, administrators and failures meet; TLC checks the models
on small instances, and TLAPS proves what matters most for every instance.
All of `TLA+` here is translated from the code under `src/`; file names below are
relative to `src/src/router/`.

## The system

| Part | State | Operations | Interacts with |
|---|---|---|---|
| Job scheduler (`shared/models/schedule.py`, `jper/scheduler.py`) | table `job` (records of jobs, "primers"), job objects in each program's memory | build the schedule, read the table, consume primers, run a job, trigger others, end, purge | all programs of the schedule on both servers, through the table; the web application, which inserts primers |
| SWORD-out (`jper_sword_out/deposit.py`) | status, retries and `last_deposited_note_id` of an account; table `sword_deposit` | go through accounts, deposit metadata / files / completion, email duplicates | routing (notifications), administrators (accounts), repositories |
| Routing (`jper/scheduler.py:_process_unrouted`, `jper/routing.py`) | tables `notification`, `harvested_unrouted`, `notification_account`, `doi_register`, `pub_deposit` | match, create routed notification, delete unrouted ones and their files | Harvester, FTP, API, SWORD-in, SWORD-out, store |
| Register of DOIs (`shared/models/doi_register.py`) | one record per article: metrics of the first notification and of all, recipients | compare, accumulate, choose recipients | routing |
| Matching parameters (`shared/models/account.py`, `jper/routing.py`) | current and archived parameters of a repository | load, add, remove redundant values, archive, revert, match | administrators, routing |
| FTP ingest (`jper/scheduler.py`, `moveFTPfiles.sh`) | directories: the publisher's, boxes, errors | move, flatten, zip, create notification, remove, move to errors | publishers, routing |
| SWORD-in (`jper_sword_in/models/sword.py`) | container: record in `pub_deposit`, directory of the temporary store | create, replace, add, delete, complete | publishers, API |
| Harvester (`harvester/harvester_main.py`) | Elasticsearch index, end date of each provider, history | harvest, select, create notifications | providers, scheduler, routing |
| API (`jper/api.py`, `jper/views/webapi.py`) | tables `notification`, `pub_deposit`, temporary archive | validate, create one or a list, list, tell in either version, give files | publishers, repositories |
| Publisher testing (`jper/pub_testing.py`, `jper/validate_route.py`) | account of a publisher, records of tests | start, end, make live; check the metadata of a submission; validate, route, record | administrators, FTP, API, SWORD-in, routing |
| Harvester engines (`harvester/engine/*.py`) | cursor or position in a provider's list, index | ask for pages, fetch articles, store them, retry | providers, Harvester |
| Users (`jper/views/account.py`, `AccUser`) | table `acc_user`: failures, access code, reset token | log in, reset a password, add, edit, delete, delete with the organisation | browsers, administrators |
| E-mails and notes about accounts (`jper/views/account.py`, `AccBulkEmail`, `AccNotesEmails`) | tables `acc_bulk_email`, `acc_notes_emails`, the mark of an error that was e-mailed | send, record, change status, delete when old | administrators, programs that report errors, daily deletion |
| Managed content (`jper/views/admin.py`, `jper/models/admin.py`) | table `cms_html`, cache of the pages | insert, save a new version, change status, delete when old, clear the cache | administrators, visitors, daily deletion |
| Web interface (`jper/views/*.py`) | accounts | edit accounts, toggle status, skip a blocking notification, request a report | scheduler, SWORD-out |
| Monthly statistics and reports (`jper/scheduler.py:monthly_jobs`, `jper/models/reports.py`, `jper/reports.py`) | tables of figures, reports, the month last done | count what was sent and received, find duplicates, note the month | scheduler, routing, administrators |
| Licences and embargoes (`jper/models/jats.py`, `shared/models/note.py`, `jper/routing.py`) | those of a notification | take from JATS, Crossref or the API, complete by defaults, tell the best | ingest, routing, SWORD-out, API |
| Metadata (`jper/models/jats.py`, `shared/models/note.py`) | a notification | read contributors, affiliations and grants of JATS, merge two sources, convert between versions 3 and 4 | ingest, routing, API |
| Files (`jper/packages.py`, `jper/unpacked.py`, `shared/store.py`) | container of a notification in the store, copies kept by SWORD-out | store, convert, unpack, link, fetch, delete when old | ingest, routing, API, SWORD-out |

What is hard here: programs on two servers run one schedule with nothing in
common but a table without locks; a program can stop between any two
statements and is restarted by supervisord; the table is truncated daily while
others may be in the middle of something; whole records are read, worked on for
minutes, and written back over what others wrote; SWORD-out remembers all it
did in one number, routing deletes by "everything up to this id", and a
repository's list is an OFFSET into what is there at the moment; directories
stand for the state of a deposit, so a step that fails half way leaves
something the next run will find.  What makes the parts correct:

* scheduler: what the table says of running jobs is true and seen by all;
  no trigger is lost; triggered jobs run; no program acts on stale job objects;
  records are unique; conflicting jobs do not overlap;
* SWORD-out: nothing is passed over, nothing is delivered twice without a fault,
  delivery is in order, everything is delivered in the end;
* routing: nothing is deleted untried, what is routed keeps its row and files,
  the deposit record tells the truth, nobody gets an unwanted duplicate;
* ingest: a deposit is never lost, becomes one notification, and its publisher
  is told the true outcome, wherever a step fails;
* register, matching: what a repository asked for reaches it, after any sequence
  of notifications or of changes;
* testing: the account is consistent although whole records are overwritten;
* lists: a repository that pages through its list overlooks nothing;
* engines: every listed article gets into the index, once, also after retries;
* statistics: what is counted once stays and agrees with what happened;
* licences: the embargo ends when the open licence begins, and a repository is told of the
  best licence of the version it gets;
* metadata: everybody is read once with what is his, nothing is lost when two sources become one,
  and what was sent in one version of the API is told in the other;
* files: links lead to files as long as repositories are told of them, who needs a file gets it
  whole, and what is recorded of a deposit is what was sent;
* API: answers, deposit records and archive agree with what has been created, also when a list
  is broken off in the middle;
* users: failures are counted and followed by pauses whatever is tried at once, a token
  is good once, an organisation goes with its users;
* checks of submissions: what is found to be valid is complete for the terms of its publisher,
  whatever combination of things is missing;
* messages: what is recorded of an account was sent to it, a bulk e-mail has one record for each
  account, and its text stays for as long as these;
* managed content: what was made live stays so until somebody says otherwise, what editors are
  told to be saved is saved, and what is replaced goes from the pages when their cache is cleared.

## Modules

| Module | What it is |
|---|---|
| `JobTimes` | operators: start, end and period of a job (`Job.init`, `Job.run`, `not_too_late`) |
| `JobSchedule` | the programs and the table `job` |
| `MCJobSchedule` | instances: schedules cut out of the production one |
| `JobScheduleProofs` | theorems about `JobSchedule`: types, records, memory |
| `OrderedDelivery` | what delivery promises, abstractly |
| `SwordOut` | SWORD-out, with routing, administrators and faults around it |
| `SwordOutProofs` | theorems about `SwordOut`: types, copies, order and `OrderedDelivery` |
| `MCSwordOut` | its instances |
| `NotificationRouting` | requests of publishers, the Harvester's rows, the jobs that route, and their deletions |
| `NotificationRoutingProofs` | theorems about it: types and all its safety properties |
| `MCNotificationRouting` | its instances |
| `FtpIngest` | the jobs `move_ftp` and `process_ftp`, and the publisher's directory |
| `SwordIn` | containers, and the workers that serve the requests for one |
| `SwordInProofs` | theorems about it: records and packages under concurrent requests |
| `Harvester` | runs for one provider |
| `DoiRegister` | the entry of one article, and who gets its notifications |
| `MatchParams` | the matching parameters of one repository, and what they match |
| `PubTesting` | the testing of one publisher |
| `NoteList` | a repository that pages through its list while notifications come and go |
| `HarvesterEngines` | the four engines, walking through the pages of a list that changes |
| `UserAccounts` | the users of one organisation, and the workers that serve their requests |
| `UserAccountsProofs` | theorems about it: pauses, tokens, deletion |
| `Statistics` | the monthly job, and what goes on around it |
| `StatisticsProofs` | theorems about it: the figures of a month, and that rows stay |
| `MCServices` | instances of `FtpIngest` and of those after it, side by side; of `SwordIn`, `UserAccounts` and `Statistics`, instances of the modules of their proofs |
| `ServicesProofs` | the theorems about `FtpIngest`, `Harvester`, `HarvesterEngines`, `DoiRegister`, `MatchParams`, `PubTesting` and `NoteList`, and what all say of the instances side by side |
| `Licences` | licences, embargo and date of publication, from the document to what a repository is told |
| `NoteMerge` | the metadata of a request and of its package become one notification |
| `JatsContribs`, `JatsElements` | what is read of a JATS file: contributors; affiliations and grants |
| `NoteContent` | the files of a notification, from the archive to the repositories and to their deletion |
| `NoteVersions` | versions 3 and 4 of the API, from what is sent to what is told |
| `ApiRequests` | the requests of publishers: checks, deposit records, archive, answers |
| `SubmissionChecks` | the checks of the metadata that a publisher in test submits |
| `AccountMessages` | e-mails to accounts and notes about them: sending, records, status, deletion |
| `ManagedContent` | the contents of web pages: versions, editors, cache |
| `Records` | `AccountMessages`, `ManagedContent`, `ApiRequests` and `NoteContent` together, what is recorded and stored by several requests and programs at a time |
| `RecordsProofs` | the theorems about these four, and what they say of `Records` |
| `RecordsInputs` | the documents given to these |
| `MCRecords` | `Records` with values, instances of the other modules from `Licences` on, and one of `SwordOut` for its liveness, side by side |

### JobSchedule

`jobs` is the table; `nextId` its auto-increment counter; `snap[p]` the job objects a
program has in memory since its last read; `pc[p]` says where in the loop of
`run_schedule` it is, `cur[p]` which job it is at.  A record is a job or a
primer, the record of priority 0 by which a program asks others to run the job
with a given label (`trigger_remote_job`).

| Actions | Code |
|---|---|
| `Restart`, `AddJob`, `InitDone` | `Schedule.__init__`, `_init_schedule`, `add_job`: remove own records, insert one per entry, one statement each |
| `ReadJobs`, `ExpireJob`, `TriggerPrimedJob` | `_init_job_structs_from_database`: one SELECT, then an update per job that is too late or primed, primers deleted |
| `EndDeferred`, `NoActiveJobs`, `ReloadSchedule`, `ReloadDone` | the decisions of `run_schedule` without a job |
| `BeginPass`, `PassOverLateJob`, `WaitForConflictingJob`, `StartJob`, `NothingToRun` | `run_next_pending`, `can_run`, the first half of `Job.run` |
| `FinishJob` | the second half: result, next start, update by id |
| `TriggerNext`, `AfterJob`, `EndSchedule` | `trigger_job`, the end of the loop, `run` in `jper/scheduler.py` with its two kinds of purge |
| `Crash`, `RequestReport`, `Tick` | supervisord, `views/reports.py`, the clock |

One action has at most one statement of the database in it, so the model has
every interleaving at the table.  What a job function does is abstracted to
what it returns (`Results`): a count or none, a flag, an exception.

### SwordOut

`account` is the table, `mem` the accounts as the run read them; `routed[r]` the
notifications of a repository; `scroll` what its open query has left; `copies`
is kept outside the system, by the repository: how often it was given a
notification.  Ids are what order is about, so a notification is its id;
`RouteFromPublisher` routes one under the id it got on receipt,
`RouteHarvested` under a new one, as `make_routed` and `save_newly_routed` do.
`StartRun` ... `EndRun` are `send_notes_to_sword_acs`; `BeginAccount` ...
`SaveAccount` are `process_account`, with its three `except` clauses
(`InsertRecord` for DepositException, `DatabaseError`, `UnexpectedError`) all ending in
`SaveAccount`, the `finally` clause; `EmailNotification`, `DepositMetadata`, `DepositFiles`,
`CompleteDeposit` and `InsertRecord` are `process_notification`.
`DatabaseError(FALSE)` goes round `while True` again.  `ToggleAccount`,
`ToggleRepoStatus` and `SkipBlockingNote` are `admin_ajax`, each one
transaction.  The time since the last failure (`can_retry`) is a free choice: an
account with status problem may be skipped or begun.  A failure to save the
account has the effect of `Crash`, which is in the model.

`OrderedDelivery` says the same without the program: a notification that is
routed is dealt with, in order of ids, those that came late (after one
with a higher id) excepted.  `SwordOut` is shown to implement it under the mapping
`handled <- [r \in Repo |-> Handled(r)]`.

### NotificationRouting

`row[n]` is the row of a notification in the table it came into: table
`notification` for the submissions of publishers, `harvested_unrouted` for what
the Harvester brings.  A row is "hidden" while the transaction that inserts it
is open: its id has been given out, others cannot see it.

| Actions | Code |
|---|---|
| `InsertNote`, `CommitNote`, `StorePackage`, `StoreFails`, `RemoveNote` | `create_unrouted_note` in `jper/api.py` |
| `RecordDeposit`, `RecordFails` | its callers, which record the deposit and answer |
| `StartRun`, `TakeNotification`, `TakeMalformed`, `Finally`, `EndLoop`, `ScrollerError` | the loop of `_process_unrouted` |
| `Match`, `SaveRouted`, `RepackageFails`, `SaveRegister`, `RecordMatch`, `RecordMatchFails`, `RouteFails` | `route`, in the order in which it writes |
| `NothingToDelete`, `DeleteFiles`, `DeleteRows`, `DeleteHarvested`, `FoundLast`, `TruncateHarvested`, `DeletionFails` | the deletions at the end, one statement each |
| `Signal`, `Crash` | `GracefulKiller`, supervisord |

Both jobs, `route` and `route_harv`, are executed by the one program of server App2
(`docs/Architecture.md`), so they do not overlap each other.  Which repositories match is a
free choice: it depends on the accounts as they were when the run began.  The
history variables say which notifications a run has tried (`seen`), were taken
up before their sender had finished (`early`), were hit by a failure (`failed`),
or could not be read (`unread`); the properties leave out exactly these.

### The services

`MCServices` puts the instances of ten modules side by side (`Sword`, `Users`, `Stat`
through the modules of their proofs, so that each theorem is there under the instance's
name, as `Sword!RecordTold`).  They share
nothing but notifications, which each counts for itself, so a behaviour
exercises one of them, named by `part`, and the others rest; the constants
of its configurations name the bounds of each.

* `FtpIngest`: `jail` is the publisher's directory, `box` the directories made of
  it, `Thing` what lies in a box and how far it has been flattened.  The status
  of `moveFTPfiles.sh` is that of its last command, `chown`, as in the script.
  Time is `Age`: a file that is not being written becomes old; that writing
  inside a directory does not change the directory's time is in it.
* `SwordIn`: a worker has a copy of the container's record, and takes the steps of
  its request one statement or file operation at a time.  Requests for one
  container may overlap: the code does not prevent it.
* `Harvester`: a run asks for the days since the end date, fills the index,
  scrolls through it and saves; any of these may fail.  `errors` are the articles counted as failing
  conversion, of which only the first five of a page get a record.
* `DoiRegister`: the metrics are represented by nine fields, one or more of each
  kind the code treats differently (there or not, counted, version,
  licences).  `route` is one action, as the two tables it
  writes to are interleaved in `NotificationRouting` already.
* `MatchParams`: texts are sequences over a few characters, so that
  normalisation, word boundaries, domains and regular expressions are modelled by
  what they do.
* `PubTesting`: a program saves the whole account as it read it.
* `NoteList`: a request is a count and a query with LIMIT and OFFSET, `excused` the
  notifications that the repository may overlook: under an id that others, routed before it,
  are beyond; saved after the day of their analysis; moved to another page by a
  deletion, or by one that was saved in front of them, in the middle of a walk; or saved when deletions had left the list
  shorter than the pages the walk has behind it (`BehindPages`).
* `HarvesterEngines`: what `Harvester` does in `Fetch`, in detail.  An article is its place
  in the provider's list; `at` is the cursor (EPMC, Crossref) or the start of the next
  page (PubMed, Elsevier); `Raise` is what `get_article_metadata_from_provider` does with
  an exception.  `found` is a bag, so that an article put into the index twice is seen.
* `UserAccounts`: a request reads the record FOR UPDATE (`Read`, which sets `lock`), then
  decides and writes (`FinishLogin`, `FinishTokenLogin`, ...), by what it read.  A login has a
  wrong password, a right one, or a right one and the field that does without an access code.  A token is
  its number in the order of issue.  `fails` and `used` are history: when wrong passwords
  were checked, and how often a token was accepted; `late` names the users that were
  written when their organisation had been deleted.
* `Statistics`: each statement of the job commits for itself, and the month is noted when all
  is done, so a crash makes the job begin again.  An `INSERT ... SELECT` fails as a whole if one of
  its rows is there (`InsertInstitutions`, ...), which is what keeps the figures.  Reports that fail
  are logged and left out, and the month is noted all the same (`ReportsFail`); which publishers want
  a report is a free choice (`Reports`).  `notes` is
  history: the table is what is in it and not in `deleted`.

### The records

`MCRecords` does the same for eleven modules, of which `SwordOut` is described above.  Four of them keep
state over time, in tables and directories of their own that requests, and for `NoteContent` the programs that
route, deposit and delete, work on; `Records` puts these together by
interleaving, with their variables renamed, and `MCRecords` extends it and gives its constants values.  A
component that rests is in its first state.

* `Licences`: every document is taken in, routed and told of in three steps; each of these is a
  function of the document, the publisher's defaults and the day.  Days stand for dates:
  which of two is earlier, and in which month it is, is all the code asks.
* `NoteMerge`: `Enhance` is `UnroutedNotification.enhance`, with the match of persons by surname and
  ORCID, the merge of their affiliations, and the refusals; `AddEmails` is what follows: an e-mail
  address that is in one affiliation of one author becomes his if he has none.
* `JatsContribs`: one `<contrib>` is read in a step.  Affiliations are dictionaries of Python, and
  a group's are shared by its contributors, so `heap` has the objects and what is taken out
  of one (`pop`) is gone for everybody who has it.  `Refuse`: an `<ext-link>` without a type is an error.
* `JatsElements`: `_walk_aff` goes down an `<aff>` and puts what it finds in a text or a part; the
  `<award-group>`s make grants with the identifiers of their funders, also if nothing is in the
  `<funding-source>`.
* `NoteContent`: `store` maps paths to the files of the archive they hold; `links` is a set, in which the place
  of a link to a PDF file elsewhere is the only thing of their order that matters.  Routing
  (`StartRouting`, then one file at a time in `Unpack`) makes of the archive what the accounts' `packaging`
  needs at that time; requests for files (`Answer`) and the deposit by SWORD-out (`Deposit`) go by `links`;
  which packaging an account has says whether its XML format is one of eprints-rioxx, as the configuration has it,
  and what fails in uploading is left to `SwordOut`;
  `DeleteFiles` goes by the age of the directory, which unpacking renews, `DeleteNote`
  by that of the notification.
* `NoteVersions`: `Submit` is `_validate_convert_note_to_v4`, `Tell` is `make_outgoing`; a submission of
  before version 4 is told too.
* `ApiRequests`: `pc` follows each of two requests through the steps that touch a table or the
  archive, which interleave; a list goes through its items, and an exception ends it in the middle.
* `SubmissionChecks`: one step, `ValidateMetadata`.  `CommonRules`, `RouteRules` and `TypeRules` are the
  tables of `validate_metadata`, `Check` is `DictValidator`, and the operators behind it are the functions for
  identifiers, people, dates, licences and pages.  Values are as in JSON, so that what is missing, null,
  empty or white space differs as it does in Python.
* `AccountMessages`: a request of an administrator sends (`SendBulk`, `SendEmail`), and then records, an account
  at a time (`RecordBulk`, `RecordFor`, `RecordEmail`, `MarkError`); the status of a bulk e-mail changes in the record of its
  text and then in those of the accounts (`UpdateBulk`, `UpdateRows`).  `mixed` is history: bulk e-mails whose
  records may differ since an update was interrupted, met another one, or was of one record only.
* `ManagedContent`: an editor has the record he opened and what he entered in `form`; `Archive` and `InsertVersion` are the two
  commits of `save_and_archive_content`.  A page reads the contents and then puts them into the cache (`ReadContents`,
  `KeepContents`).  `wanted`, `answered`, `shown` and `overtaken` are history.

## Runs

| Run | Shows | Instance, and why it is enough |
|---|---|---|
| `schedule_core` | `TypeOK`, `RunningVisible`, `RunningIsReal`, `MemoryIsCurrent` | two schedulers and a web user, three entries, local and remote triggers, one crash or job exception anywhere, clock of 3 ticks: every pair of actions of two programs meets at every record |
| `schedule_harvest` | `PrimersHonoured`, `TriggeredJobRuns` | the Harvester (ends after a run, defers its end by two ticks, so that it ends in some behaviours with its primer consumed and in some with it still waiting) and a scheduler; a chain of two triggers, end times that pass, a conflict |
| `schedule_purge` | `OneRecordPerEntry` | the daily shutdown truncates the table while the other program is anywhere in its loop; one crash or exception |
| `schedule_parallel` | `NoConflictInParallel` fails | two programs, two conflicting functions |
| `sword_out` | `TypeOK`, `NothingPassedOver`, `CopiesBounded`, `DeliversInOrder` | one repository (accounts share nothing but the run), three notifications of either origin, two about one article, one with files; one fault, two interventions |
| `sword_out_overtaken` | `AllSentInOrder` fails | two notifications, no fault |
| `routing` | `TypeOK`, `DeletedWereSeen`, `RoutedKeepsFiles`, `GivenIsThere`, `RecordTellsTruth`, `NoUnwantedDuplicate`, `EventuallySeen` | two submissions, one with a package, one from which no object can be made, and a harvested item about the same article as the first; or two items; one fault.  `MCInit` starts where the others have been dealt with, so ids do not all start at 1 |
| `routing_blocked` | `RunGoesThroughAll` fails | the same submissions |
| `services` | the properties of the ten modules (below) | as below; 330 402 states |
| `records` | the properties of ten modules (below), `EventuallySent` | as below; of SWORD-out two repositories, one notification, one fault, one intervention |
| `harvest_leftovers` | `LeftoversKept` fails | the Harvester of `services` |
| `harvest_import` | `AllImported` fails | the engines of `services`, with one fault and a list that does not change |

The instances of `services` and `records`:

| Module | Properties | Instance |
|---|---|---|
| `FtpIngest` | `DepositsKept` (`NothingLost`, `OneNotePerDeposit`, `FilesMovedWhole`, `ToldTheTruth`), `EventuallyDone` | a zip file with files to flatten and a directory that may lack XML; one fault of any kind, at any step |
| `SwordIn` | `ContainersInOrder` (`RecordTellsTruth`, `PackageIsCurrent`) | two workers, a zip file and another file, three requests, of which two may overlap once with none after (the guard `Overlaps`); one fault |
| `Harvester` | `HarvestedOnce` (`BeforeEndDateDealtWith`, `NotedOnce`), `EventuallyDone` | two articles of a day and a faulty one of the next; five days, two faults: one that leaves something behind, another in the run that takes it up |
| `DoiRegister` | `AskedIsGiven` (`NothingMissed`), `NothingTwice` (`NoUselessDuplicate`) | repositories with every setting of levels that makes a difference, one of which only some notifications match; five kinds of notification, three in a row |
| `MatchParams` | `AskedIsGiven` (`DomainsKeepMatches`) | nine values under three keys, three changes: what was removed as redundant in the first is judged after the third |
| `PubTesting` | `TestingInOrder` (`TestingConsistent`, `NothingLeftUnrouted`) | the API (reads the account for each test) and the FTP program (once for several), two tests, three changes by administrators, one fault |
| `NoteList` | `NothingOverlooked` | two notifications, one to a page, two days; a repository that asks by id or by day |
| `HarvesterEngines` | `EachFoundOnce` | each engine; four articles, one of them not at first, one that cannot be used; one to a page; two changes of the list, two faults, two attempts: a failure in the middle of the second one included |
| `UserAccounts` | `UsersInOrder` (`FailuresPaced`, `DeletedWithUsers`), `NothingTwice` (`TokensGood`) | two users, one of them not yet there; two browsers, two workers, of which the first begins (`InTurn`); three requests, a pause after every wrong password, one worker that stops, three ticks: codes and links expire |
| `Statistics` | `FiguresAgree`, `TotalsAgree`, `FiguresStay` | one repository, publisher and harvester, four days in months of two, of which the table keeps one; two articles about one DOI, or one article and a crash or failed statement anywhere (the guard `FewArticles`) |
| `Licences` | `LicencesAgree` (`EmbargoAgrees`, `BestToldOf`, `VersionAgrees`) | one or two licence elements out of eleven, every kind of date, up to three licences of Crossref; months of two days, days 2 to 5 |
| `NoteMerge` | `MetadataKept` (`AuthorsKept`, `FactsMerged`, `OrganisationsMerged`, `RefusedIfContradictory`, `EmailsOwn`) | two authors with or without ORCID, up to three affiliations, some of one organisation, with two e-mail addresses; facts that agree, differ or are missing |
| `JatsContribs`, `JatsElements` | `MetadataKept` (`EveryoneRead`, `AffsGiven`, `EmailsGiven`; `TextInOrder`, `FundersNoted`) | groups with and without shared affiliations, references, addresses of one or of two persons; elements of every kind, nested, with text before, between and after them; grants with and without identifiers |
| `NoteContent` | `ContentKept` (`LinksLead`, `NeedsMet`, `RequestsAnswered`, `DepositsRecorded`) | two repositories with every packaging, archives with and without PDF files, links to PDF files elsewhere, three days, one fault; files and notifications are kept for the fewest days that `ContentAssumption` allows |
| `NoteVersions` | `VersionsAgree` (`SentIsTold`, `UrisComplete`, `InternalHidden`) | texts and dictionaries of affiliations, pages, grants, with what may be missing, of either version |
| `ApiRequests` | `RequestsInOrder` (`AnswersTrue`, `RecordsAgree`, `ArchiveAgrees`) | two requests of every kind at a time, lists of up to three items good and bad, one fault |
| `SubmissionChecks` | `MetadataKept` (`ValidIsComplete`, `DoiRecorded`, `TermsOnlyWeigh`) | a submission without faults, with up to two deviations out of some forty: fields that are missing, null, empty or white space, wrong dates, further authors, licences and identifiers; all terms: route, before or upon publication, default licence.  Two, because the checks of lists count and combine |
| `AccountMessages` | `AdministrationInOrder` (`RecordsTrue`, `BulkRecorded`, `TextThere`) | two administrators, two accounts, two errors of one of them; one e-mail or note, two changes of status, one fault, two days, deleted messages kept for the fewest |
| `ManagedContent` | `AdministrationInOrder` (`WantedIsLive`, `AnsweredIsSaved`, `KeptAfterLive`, `ClearedIsGone`) | two administrators, one place for texts on a page; three events out of edits, changes of status, a new field of the form, days, crashes and clearings; one page request at a time, the cache of one server |

Bounds: `MaxId`, `MaxTime`, `MaxFail` of the scheduler cap record ids, the clock and
the faults; with the few entries of an instance, ids reach the bound only
after triggers and requests were repeated.  `Day` is short, so that times pass
and days end.  `MaxNote`, `MaxFaults`, `MaxGui` cap notifications, faults and interventions
of SWORD-out; a fault is a crash, a signal, a database error, another exception or a lost
answer, and each can be at every step.  In the other modules `MaxFaults` is the same,
`MaxDay`, `MaxClock` cap the clock, `MaxRequests`, `MaxNotes`, `MaxTests`, `MaxMessages`, `MaxChanges`, `MaxEvents` the
number of requests, notifications, tests, messages, changes and events, `LicenceDays` and `StatDays` the days, `StatNotes` and `StatFaults` the articles and faults of `Statistics`.
The total of rows of a report, and what is left of a month after its rows are deleted, need no
more than two articles and two months.

Fairness.  `JobSchedule!FairSpec`: a program keeps taking steps (its loop has no
other wait than `sleep`, supervisord restarts it, job functions return) and
time passes; nothing is owed by crashes and web users.  `SwordOut!FairSpec`: the
program takes steps (weak fairness), and an account that could be begun again
and again is begun at some time (strong fairness for `BeginAccount`): the
retry delay elapses, and a run goes through all accounts.  Routing,
administrators and faults have none.  `NotificationRouting!Fairness`: requests are
served, the program takes steps, and each of the two jobs is begun again and again, as the
schedule has both every day (strong fairness, as the other job may be under way).
`FtpIngest`: the same, and a file that is left alone becomes old.  `Harvester`:
days pass, a run is begun each day, and takes its steps.

## What was found

Five runs end in a counterexample.

* `schedule_parallel`: two programs that both read the table before either marks
  its job RUNNING run conflicting jobs (`schedule.py:1232` and `1316`).
* `sword_out_overtaken`: a publisher's notification routed after a harvested one was
  deposited is behind the mark and never sent (`deposit.py:286`).  With the
  production schedule this is the normal order: harvested notifications are
  routed and sent from 01:00, publishers' from 01:40.
* `routing_blocked`: if no object can be made of the first notification of a run, the
  `finally` clause uses an unbound name and the run ends; so does every later one
  (`scheduler.py:1100`).
* `harvest_leftovers`: what a run could not save is kept in the index, and
  deleted unprocessed by the next one if the provider has nothing new
  (`harvester_main.py:246`).
* `harvest_import`: EPMC keeps its cursor in the engine.  When a page fails with Error 500
  the index is emptied and the whole is tried again, but from the page that failed: the
  articles before it are lost (`QueryEngineEPMC.py:83`, `harvester_main.py:166`).

More of them can be reproduced with the configurations that are not in a run.  TLC stops at the
first property that is violated, so leave out the others to see one.

| Configuration | Property | What happens |
|---|---|---|
| `JobSchedulePurgeReload` | `PurgeReloadsAll` | a job that outlasts the purge by the other program writes its record over one of the new schedule, ids being reused (`schedule.py:1350`) |
| `JobScheduleRequests` | `NoRequestReplaced` | a second report request replaces the arguments of a first that still waits for a conflicting job (`schedule.py:1291`) |
| `SwordOutCounterexamples` | `OffStaysOff` | an account switched off while it is processed is on again when the program saves it (`deposit.py:357`) |
| `SwordOutCounterexamples` | `ProblemIsMetadata` | the docstring of `process_account` says that processing continues after a failure to deposit files; the code stops and the account has a problem |
| `NotificationRoutingCounterexamples` | `OnlyUnroutedLoseFiles` | a notification whose routing failed after it was saved loses its files, which its recipients are to fetch |
| `NotificationRoutingCounterexamples` | `TruncatedWereProcessed` | an item that the Harvester inserts between the comparison of ids and TRUNCATE is deleted unprocessed |
| `ServicesCounterexamples` | `RedundantCaughtAnyway` | an e-mail address is removed as redundant because it ends with the text of a domain, which does not match it |
| `ServicesCounterexamples` | `HadRegexRemembered` | reverting to archived parameters loses `had_regex` |
| `ServicesCounterexamples` | `StructAffsCountAuthors` | authors with several structured affiliations are counted several times |
| `ServicesCounterexamples` | `RunsOncePerPeriod` | the frequency moves the end of the interval back and does not space the runs: a weekly provider is asked every day (`harvester_main.py`) |
| `ServicesCounterexamples` | `LiveStays` | a program that saves the account as it read it takes it back from live to testing |
| `ServicesCounterexamples` | `StatsMatchRecords` | tests of two programs at a time: one is not counted |
| `ServicesCounterexamples` | `OnlyUnroutedDeleted` | the notification of a test is routed by the routing job and then deleted by the test |
| `ServicesCounterexamples` | `SinceIsEarliest` | a list since a date and time leaves out the rest of that day: dates are compared with a time (`note.py:3984`) |
| `ServicesCounterexamples` | `NoOrphans` | a user who is added by a request that had looked at the organisation before it was deleted remains (`views/account.py:2271`) |
| `ServicesCounterexamples` | `NoLockLeft` | a reset with a token that is not valid returns without ending its transaction: the user's row stays locked until the worker serves another request (`views/account.py:3329`) |
| `ServicesCounterexamples` | `DuplicatesReported` | the report of duplicates begins its margin at the last day of the month, not at the first (`jper/models/publisher.py:291`; its docstring says "from (from_date - days_margin)") |
| `ServicesCounterexamples` | `HarvesterTotalAddsUp` | the grand total leaves out the rows of harvesters that received nothing, whose articles of earlier days may have matched (`jper/reports.py`) |
| `ServicesCounterexamples` | `AnalysisMade` | the analysis of affiliations divides by zero for a provider without any (`jper/reports.py:456`) |
| `RecordsCounterexamples` | `DefaultEmbargoKept` | when only the year of publication is known no end of the default embargo can be computed, and the default licence is set without a start: the article is told of as open at once, with an embargo of some months (`jper/routing.py:71` and `130`) |
| `RecordsCounterexamples` | `TaggedAccepted` | licences that all name their use are refused if one of them has no address (`jats.py:540`) |
| `RecordsCounterexamples` | `ContradictionsRefused` | of more than two publication dates only the first two are compared (`jats.py:925`) |
| `RecordsCounterexamples` | `MatchDataKept` | when two affiliations at one organisation become one, the text taken from the one hides city and postcode of the other from matching (`note.py:3513`) |
| `RecordsCounterexamples` | `EmailsOfOwnAffs` | an affiliation of a group is one dictionary for all: the first contributor takes its e-mail address out, the others get none (`jats.py:1310`) |
| `RecordsCounterexamples` | `OtherTextKept` | a part that is given twice replaces the first, text and all (`jats.py`, `_walk_aff`) |
| `RecordsCounterexamples` | `CopiesWhole` | the copy of a PDF file whose download is broken off stays in the cache, and the next repository is sent the part (`deposit.py:501` to `554`) |
| `RecordsCounterexamples` | `AllPdfsUnpacked` | the docstring of `UnpackEprintsRioxx` says that all PDF files are unpacked, the filter compares with `.pdf` as it is written: a file `.PDF` stays in the zip file of the rest (`unpacked.py:278`) |
| `RecordsCounterexamples` | `DoiRemoved` | `("doi")` is a text, not a tuple: the fields `d`, `o`, `i` are removed and `doi` is not (`note.py:2829`) |
| `RecordsCounterexamples` | `BothRefused` | an author with affiliations in the fields of both versions is accepted, and one of them is ignored (`webapi.py:132`) |
| `RecordsCounterexamples` | `EachArchived` | a list is archived before its records have ids, so all its submissions overwrite one directory `None` (`webapi.py`) |
| `RecordsCounterexamples` | `RefusedNotCreated` | a submission without article metadata is refused with 400 after its notification has been created (`webapi.py:643`) |
| `RecordsCounterexamples` | `ValidMeansValid` | for a body that is an array the validation ends in a TypeError that is taken for none: the answer is 200 (`webapi.py`) |

Met on the way, without a run: `outgoing_notes_list_obj` says that `since_id` is
used only if `since` is not given, the code prefers it; a comment at
`mysql_dao.py:820` says that unrouted notifications without an analysis date are
deleted with the old ones, but comparing NULL with a date never is true; a
comment in `scheduler.py` puts the look for sessions before the listing of the
directory, the code does it after.

The properties that hold are stated as strongly as these allow:
`NothingPassedOver` and `DeliversInOrder` leave out the notifications that came late, and
no others; an administrator's skip that the running program overwrites never
loses a notification; `EachFoundOnce` leaves out, for each engine, the change of the list that its
way of counting does not allow for; `FailuresPaced` and `DeletedWithUsers` the users written
after the deletion of their organisation.

## Proofs

A theorem about a module holds for every value of its constants that satisfies the assumption
the module names (`JobScheduleAssumption` and those of `JobTimes`, `SwordOutAssumption`,
`RoutingAssumption`, `FtpAssumption`, `SwordInAssumption`, `HarvesterAssumption`, `NoteListAssumption`,
`UserAccountsAssumption`, `StatisticsAssumption`, ...): any schedule, any number
of programs, accounts, notifications, items, workers, users, and any bounds.  The invariants were checked by TLC
on the instances of the runs before they were proved.

The scheduler:

* `TypeCorrect` (`TypeOK`).  `TypeOK` is not inductive: that `cur[p]` is a job of the program
  in its memory while it runs or triggers, and that nothing is too late or primed but what was
  read, is in `WorkInv`; `TypeInv == TypeOK /\ WorkInv` is preserved by each action, one
  lemma each.
* `OneRecord` (`OneRecordPerEntry`) and `RunningRecordsAreReal` (`RunningIsReal`).  `IndInv` adds for each program
  that the entries it has still to insert have no record, that job objects
  in memory are unique too (they can be written back after a purge), and that
  RUNNING is found only where the program counter says so.  A purge can happen at any
  time in these.
* `MemoryCurrent` (`MemoryIsCurrent`) and `RunningJobIsVisible` (`RunningVisible`), for systems in which no job returns the
  purge flag (`NoPurge`): `JobSchedulePurgeReload.cfg` shows that with purges they do not
  hold.  `CurrentInv` adds that ids from `nextId` on are unused, which is what the
  purge breaks.
* `PrimersAreHonoured` (`PrimersHonoured`), for the same systems, an action property.  `Deferral` says that a primer a
  program has read is in the table as it was read, or gone; that a program which has just read the table
  knows all primers of its own; and that, if it ends before its deferred end time, it has none there.
  Without the last a program would delete, with its other records, a primer that nobody has read.

SWORD-out:

* `SwordOutTypes` (`TypeOK`).  `TypeInv` adds that there is an account, and a notification,
  while one is being processed.
* `CopiesPerFault` (`CopiesBounded`).  The mark says what was delivered, but which mark
  depends on where the program is: `Settled` is about the table and the
  accounts nobody is processing, `Pending` about the marks in memory, with the
  notification in hand, delivered and not yet marked, excepted.  `Behind` connects the
  two: as long as there is nothing to save the mark in memory is not beyond that of
  the table, so an intervention during the run costs no copy.  `Ahead` says that the
  scroller holds nothing the mark has passed.  `CopyInv` is their conjunction.
* `NoneLeftOut` (`NothingPassedOver`) and `ImplementsOrderedDelivery`
  (`DeliversInOrder`).  The argument: a notification routed in order comes after all those of
  its repository (`Ids`), so after every mark, deposit record and notification in hand,
  which are ids of routed notifications (`Known`).  What was there before is not
  passed over by the table (`NothingPassedOver`), nor by the mark in memory
  (`MemPassed`), which is written over the table, nor by a deposit that was only tried
  (`Tried`), to which an administrator may set the mark; and the loop omits nothing
  (`Following`).  `OrderInv` is their conjunction.  For the implementation, routing maps to
  `Route`, the delivery or skipping of a notification to `Handle`, or to a stutter
  if it had been dealt with before, everything else to a stutter; `NoteIsNext` gives the
  guard of `Handle`.

Routing, for every value that satisfies `RoutingAssumption`: any number of
submissions, items, repositories, articles and faults.

* `Inductive` is the invariant `IInv`, of which the theorems `RoutingTypes` (`TypeOK`),
  `DeletedSeen` (`DeletedWereSeen`), `FilesKept` (`RoutedKeepsFiles`), `GivenThere` (`GivenIsThere`),
  `RecordTrue` (`RecordTellsTruth`) and `NoDuplicates` (`NoUnwantedDuplicate`) are consequences.  Its
  parts: where a request stands says what its row can be (`SenderInv`); what is read and not
  yet taken up stays unrouted unless its sender takes it back, and the notification
  in hand is routed exactly when `route` has got so far (`HandInv`); what is on the lists
  to be deleted is not in hand, not ahead, and not routed unless its routing failed
  (`ListInv`); ids are unique in a table and below its counter, and the scroller goes up (`IdInv`).
* The deletions go by ids, so the heart of `DeletedSeen` is `SeenInv`: what a run has not
  seen is behind all it has read, since it was inserted later and the counter only
  goes up; so "up to the highest id on the list" and "all, if the last one processed is the last" do
  not reach it.  What was inserted by a transaction that was open when the table was
  read, and what enters between comparison and TRUNCATE, is in `unread`: these two are real exceptions.
* `FilesInv` says when a package may be gone (between the deletion of files and of rows),
  `RecordInv` when the deposit record lags behind, `RegisterInv` when the register does.
  The steps are treated in groups that change the same variables, each with a lemma of
  what it leaves alone.

Ingest by FTP (in `ServicesProofs`, where the names of `FtpIngest` have the prefix `Ftp!`): `FtpTypes`, and the four parts of `DepositsKept`.

* `DepositNotLost` (`NothingLost`).  `KeptInv` says where a deposit is at each place of the program: still whole in
  the publisher's directory, in its box, in hand, among the errors, or a notification.
* `DepositOnce` (`OneNotePerDeposit`, `ToldTheTruth`).  `OnceInv` is about the items no fault has hit: either the
  item waits (`Waiting`: at most one thing in its box, and nothing told) or it is in hand (`InHand`), and then what was noted
  and told of it is what the place in the program says.  That a box never has more than one thing without
  a fault is what makes the two claims inductive.
* `FilesWhole` (`FilesMovedWhole`).  `UploadsInv`: what is being uploaded when the listing is made
  has a session, and what was listed as old and is now being uploaded was taken up again.

SWORD-in (`SwordInProofs`): `SwordInTypes`, `RecordTold` and `PackageCurrent`.

* Every action of a worker puts one of a few forms of job in its place (`Put`, `Forms`); the types are
  shown once for that.  Upload numbers are bounded by the requests that have not
  stored their file yet, so the type invariant counts these (`Counted`).
* `RecordTold` is about copies: `TruthInv` says that each copy of the record that can still be written back,
  at whatever step its worker is, is true in the sense in which the record is, or
  that its worker will make it so (`Truthful`).
* `PackageCurrent`: without overlapping requests (`Alone`) the files of the container lie
  in disjoint sets, and none of them was dropped (`PackageInv`).

Harvester (in `ServicesProofs`, with the prefix `Harvest!`): `HarvesterTypes`, `EndDateTrue` and `NotedOnlyOnce`.

* `EndDateTrue` (`BeforeEndDateDealtWith`).  `DealtInv` follows the articles that were asked for: in the index when it is filtered,
  then ahead of the scroller, processed, or met by an error of the database, then processed or left over.
* `NotedOnlyOnce` (`NotedOnce`).  What was noted in an earlier run is not in the index and was published before the
  end date, so it is not asked for again (`HarvOnceInv`); what is in the index was published before
  the end of the interval of the run (`HarvBounded`), so it is behind the end date when that has
  been saved.

Publisher testing (in `ServicesProofs` too), for any programs, tests and administrators' changes:
`PubTestingTypes`, `AccountConsistent` (`TestingConsistent`), `TestsLeaveNothing` (`NothingLeftUnrouted`), and
`StatisticsNotOverstated`, which adds that the account never counts a test without a record.  Each copy of the account that
may still be written over the record must satisfy what the record does: the invariant is stated for
both.  For `TestsLeaveNothing` each unrouted notification has a program that holds it, one that will route it or one that
will delete it (`Held`).

Lists (in `ServicesProofs`, with the prefix `List!`), for any notifications and size of a page: `NoteListTypes` and `NothingIsOverlooked`
(`NothingOverlooked`).

* What the repository has yet to receive (`Waits`) must be in the list it asks for, on a page it has
  not had.  `SinceInv`: by id, each of these has a higher id than all that was received, so
  than what is asked for; by day, each was analysed on that day or later, or, if it was
  saved during the walk, not before the day the walk began.  `PageInv`: its place in the list is behind the pages
  that were listed, and not behind the total of the count.  `Positions` and `Bigger` say how places,
  which are numbers of elements, follow ids.
* The theorem assumes that the repository does not ask by date with a time: then it does overlook notifications, as
  `SinceIsEarliest` shows.
* The first attempt failed at `Save`: with five notifications, one to a page, three deletions in the
  middle of a walk make the list shorter than the pages behind it, and what is saved then comes
  on a page that has been listed.  That is so in the code (an OFFSET into what is there), and beyond the
  instance of the run; `excused` now names it (`BehindPages`).

Users (`UserAccountsProofs`), for any users, browsers, workers, limits and times: `UsersTypes`, `FailuresArePaced`
(`FailuresPaced`, `DeletedWithUsers`) and `TokensAreGood` (`TokensGood`).  `Served`: a worker that has read a record holds its
lock until it ends its transaction, and the record is as it read it (`Holds`); so what several requests do to a
record is as if they came one after another.  On that rest `Paced`, that the count
in the record is that of the wrong passwords since the last pause and that after a pause's worth of
them the next is checked only when it is over, and `Latest`, that the token in the record is
the latest issued and not yet used.  An organisation's users are locked by the worker that deletes them, or deleted.

The register of DOIs (in `ServicesProofs`), for any repositories, levels, articles and notifications: `RegisterKept`, `AllHad`
(`NothingMissed`) and `NoneUseless` (`NoUselessDuplicate`).

* Metrics are ordered by `Covers`; `Joined` covers both of what it joins, nothing less
  does, and what adds nothing leaves the metrics as they were.  `Levels`: a level beyond 5 means that
  nothing is new, one beyond 1 that there is no new full text (`PassedOver` applies that to a repository that is not chosen).
* `RegInv`: the entry knows all that its repositories were given (`Known` covers `got`), and, once the article has been
  routed, a repository that is not in it is one that some notification did not match.  The chain of tests in
  `Level` is one of IF and ELSE IF, as in the code: in a first form, a CASE, two guards could be
  true at once, and nothing could be shown of which level came out.

The Harvester's engines (in `ServicesProofs`): `EachArticleOnce` (`EachFoundOnce`), for any list, size of a page, numbers of attempts, changes
and faults.

* EPMC and Crossref: what comes up to the cursor is there, and once (`OnceByCursor`, `AllByCursor`).  When the
  loop stops because enough was retrieved, nothing must be behind the cursor, so the hits are counted: EPMC
  expects at least all that is to come, as long as nothing is added; Crossref has counted no more than is listed
  up to the cursor, as long as nothing is withdrawn.
* PubMed and Elsevier: what has a place up to the end of the page is there, or in the page in hand (`OnceByPlace`,
  `AllByPlace`, `Reached`).  `PageByPlace` says that a page that is not full is the last one, `PlaceTaken` that no place in
  a list is empty.
* `RaiseInv`: a new attempt begins with nothing, but for the cursor of EPMC and an index that could not be emptied.
* The total Elsevier expects is reduced for each article without a url, so it can fall
  below zero when the list shrinks meanwhile; "no answer yet" is therefore a value of its own, `NotRead`, as `None` is in
  the code, and not a number.

Matching parameters (in `ServicesProofs`), for any values offered, affiliations and addresses: `MatchKept`, and from it `DomainsKeepMatches`.

* `MatchInv`: every domain asked for is in the configuration, or below one that is (`Caught`), for the parameters in force
  and for each record of the archive with what was asked for then, since each of them may be brought back.
* What is dropped as redundant is below the shortest domain it is below, which stays (`DroppedAreBelow`); being below is
  transitive (`UnderTransitive`), so a domain that is dropped for one which a later change drops stays caught.
  `CaughtInAddress` and `CaughtInAffiliation`: the domain above occurs where the one below does, at the same end, and behind a dot,
  which is a word boundary.
* `MatchAssumption` says what this rests on: a domain has no `?` and each dot of it stands before a word (`DomainName`).  The code does
  not check that; of a domain such as `a..b` it would drop for `.b` what `.b` does not match.
* Name variants are not in it: `RedundantCaughtAnyway` is false of them.

Statistics (`StatisticsProofs`), for any repositories, publishers, harvesters and articles, months of any length and any number of
faults: `StatisticsTypes`, `FiguresTrue` (`FiguresAgree`), `TotalsTrue` (`TotalsAgree`) and `RowsKept` (`FiguresStay`).

* `FiguresAgree` is about months that are done; `Progress` says of each month what is true before: what the statements behind
  the job have inserted agrees with what was routed in the month (`RowsTrue`, `UniqueTrue`, `ToldTrue`), and the rows of
  those ahead are not there (`NoRows`, `NoUnique`), so that an insert never fails but in a month that had a fault.
* The figures are computed in the next month from the rows and the dates of then.  `Flows` says of every notification to whom it went
  as a live repository (`live`, history), and that this can be told from the dates for ever after: a repository is live
  since a day that is past.  `Numbered`: the number of a submission is that of one deposit and of one notification.
* `Timely`: unless it was stopped, the job of a month is done on the first day of the next, and the deletion keeps at least one whole month,
  so that the rows are still there (`KeepMonths` and `MonthDays` must not be zero).
* `SourceInv` is what `TotalsAgree` needs besides: once the job is beyond the statement for the publishers, the row of each says how many
  accepted deposits it made in the month, and one without a row made none (`ReceivedTrue`); before, there are no rows (`NotReceived`), so that
  the insert goes through.  What is deposited meanwhile is of a later month, and a deposit that is marked as matched remains one (a bijection).
* The totals are sums (`SumOver`), written as the number of pairs of a row and one of the things it counts, so that they can be reasoned about without
  induction over the rows.  `SumOfNumbers`: where each row's figure is the number of something, there is a map from those pairs onto all there
  is, so the sum is at least the number of all, and just that if nothing is in two rows.  `SumOfSums`: what is with content and what is
  metadata only, summed separately, make up the whole.
* The types in a first form were false: `SUBSET Repo \ {{}}` is the set of all subsets of `Repo`, the empty one included.

The services side by side (`ServicesProofs`): a behaviour of `MCServices` is one of each of its components
(`FtpSpec`, `HarvestSpec`, `SwordSpec`, `ListSpec`, `DoiSpec`, `MatchSpec`, `EngineSpec`, `TestingSpec`, `UsersSpec`, `StatSpec`: the initial states are theirs, each step is
theirs or leaves their variables alone), so that the theorems above, instantiated, give `ServicesTypes`, `DepositsAreKept`, `HarvestIsOnce`,
`EveryArticleFound`, `AskedForIsGiven`, `ContainersAreInOrder`, `ListsOverlookNothing`, `NothingIsTwice`, `TestingIsInOrder`, `UsersAreInOrder`,
`FiguresAreTrue`, `TotalsAreTrue` and `RowsAreKept`: all safety properties that the run `services` checks.

What is recorded (`RecordsProofs`), for any requests at a time: a behaviour of `Records` is one of each of its four
components (`MessagesSpec`, `PagesSpec`, `RequestsSpec`, `ContentSpec`), so that their invariants (`MessagesInvariant`, `PagesInvariant`,
`RequestsInvariant`, `FilesInvariant`) give `RecordsTyped` (the four `TypeOK`), `AdministrationKept` (`AdministrationInOrder`),
`RequestsKept` (`RequestsInOrder`) and `ContentIsKept` (`ContentKept`).

* Messages, for any accounts, errors, e-mails, changes and faults, `MessageInv`.  `RecordsInv`: what a request is about to record has been sent,
  what it is about to mark as told has been recorded.  `BulkInv`: a request that records a bulk e-mail has in hand exactly the accounts it
  is not recorded for yet, each once, and no two requests record the same one.  `TextInv`: a record of an account has the status of the
  record of the text unless an update of the records is under way, and that one will give them the status of the text (`StatusGiven`); for a
  deleted text all have been deleted.  `MessagesAssumption` says that there are finitely many accounts and that an error belongs to one of them.
* Pages, for any administrators, texts, places, links and times, `PageInv`.  `UpdatedLate`: what is not live was updated when it ceased
  to be or later, so that what is deleted because it was not updated for long has not been live for long.  `ShownSince`: what
  the tables say now has been shown since the cache was cleared, and what a request has read and will put
  into the cache too, unless a change overtook it.
* Requests, for any requests, lists of any length and numbers of faults, `RequestsInv`, in parts for each request: `ListInv`, the ids of
  `success` and `failed` are, in their order, those of the items dealt with so far (`Done`) that have a notification and of the others
  (`OrderedGrows`: what is appended comes after all there is); `AnswerInv`, where the request stands says what
  it has answered; `SingleInv`, the notification of a single request; `RecInv`, what the deposit record in hand says, and
  that its notification has no record yet while it waits to be inserted; `LostInv`, each notification without record that is not the one in
  hand was lost by a fault of its own.  `DepositTables` is about the tables: one record for a notification, and under a
  record's number in the archive the submission it is about.
* `RequestsAssumption` says that a submission without article metadata is not valid (`jper/views/webapi.py:529`): otherwise a list could create its
  notification and then say that it failed, so that `AnswersTrue` would be false.
* Files, for any archives, links, repositories, packagings, times and faults, `FilesInv`.  `HoldsTrue`: what is in a place of the store
  is what belongs there, whether routing got that far or not and whatever an earlier attempt left.  `HoldsAll`: until the day the
  files may be deleted the archive is there, and of what it is unpacked to all that is not left to write.  `LinksAre`: the links are
  determined by the archive and the packagings at the time of routing (`needs`), which change later without them.  `Days`: routing is done in
  `RouteDays`; with `RouteDays + LimitDays <= StoreDays` of `ContentAssumption` this makes the files outlast the links.  What the links
  lead to follows by the kind of each (`KindOfLink`), since the places differ (`PathsDiffer`) and together hold
  everything once (`PlacesHold`).  For these proofs `links` and `unpack` are sets rather than sequences.
* `ContentAssumption` says that no other file of an archive has the name of one (`PathsDiffer`), and none whose name ends in `.pdf` that of
  the zip of the others, which does not.

Only model-checked, and why:

* the liveness properties (`TriggeredJobRuns`, `EventuallySent`, `EventuallySeen`, `EventuallyDone`): TLAPS has no
  rules for fairness and ENABLED here;
* three invariants of the run `records`, and of its `TypeOK` all but the four types of `Records`: they say what is computed of documents, which
  needs induction over data.  In `LicencesAgree` it is the sorting and filtering of licences (`SortSeq`, `SelectSeq`),
  in `VersionsAgree` the texts put together and taken apart (`FlattenSeq`), and
  in `MetadataKept` the walks over lists of authors and over trees, whose modules declare RECURSIVE operators, about which nothing can be
  proved here;
* `RunningVisible` and `MemoryIsCurrent` with purges: they are false there, so proved without.

## Not modelled

Most of the crosswalks (Dublin Core, RIOXX, EPrints, those of the Harvester's engines) take fields from
one document to another, and the web pages present them; the decorators of the web pages that check access rights read one
record per request; the library code of Octopus and sword2 is not in this repository.
`new_day_reload` of the scheduler, the scripts for Atypon,
the test branch of SWORD-in, organisation ids of the matching
parameters, and the reports that list notes and matching parameters are left out.  A good part of the repository is vendored scripts
and style sheets of its web pages.  PROJECT.json lists every part with its reason.

## Plan

1. A composition of `NotificationRouting` and `SwordOut`, in place of the routing actions the latter has.
2. `JobTimes` against a reference definition of the window of a job, over all bounded inputs.
