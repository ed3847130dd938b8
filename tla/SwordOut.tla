------------------------------- MODULE SwordOut -------------------------------
(***************************************************************************)
(* The SWORD-out program (router/jper_sword_out/deposit.py): it hands the  *)
(* notifications that have been routed to a repository account to the      *)
(* repository, in ascending order of their ids, and remembers how far it   *)
(* got by one number in the account record, the id of the last             *)
(* notification deposited (here the mark).                                 *)
(*                                                                         *)
(* Around it are the actors it shares the database with: routing, which    *)
(* adds notifications, and administrators, who switch accounts off and on  *)
(* and skip notifications in the web interface.  The repository is outside *)
(* the system: it may refuse a deposit, and its answers can be lost.       *)
(***************************************************************************)
EXTENDS Integers

CONSTANTS
    Repo,          \* repository accounts with SWORD activated
    NoRepo,
    WantsEmail,    \* those that have duplicates sent by email
    MaxNote,       \* bound: highest notification id
    Doi,           \* identifiers of articles
    DoiOf,         \* the article a notification is about
    WithFiles,     \* notifications that come with files
    RetryLimit,    \* DEPOSIT_RETRY_LIMIT
    MaxFaults,     \* bound: crashes, signals, lost answers, database errors
    MaxGui         \* bound: interventions of administrators

Note == 1 .. MaxNote
NoNote == 0

ASSUME SwordOutAssumption ==
    /\ NoRepo \notin Repo
    /\ WantsEmail \subseteq Repo
    /\ MaxNote \in Nat
    /\ DoiOf \in [Note -> Doi]
    /\ WithFiles \subseteq Note
    /\ RetryLimit \in Nat /\ MaxFaults \in Nat /\ MaxGui \in Nat

\* The columns of an account that matter here; a new account has no status.
Status == {"new", "off", "okay", "problem", "failing"}
Account == [status : Status, retries : Nat, mark : Note \cup {NoNote}]

\* What became of the three parts of a deposit; "none" if not applicable.
Outcome == {"ok", "failed", "none"}
Parts == [meta : Outcome, content : Outcome, completed : Outcome]

\* Table `sword_deposit`
Deposit == [repo : Repo, note : Note, parts : Parts]

VARIABLES
    account,    \* table `account`
    nextNote,   \* auto-increment counter of table `notification`
    unrouted,   \* notifications from publishers that wait to be routed
    routed,     \* table `notification_account`: notifications of each repository
    duplicate,  \* notifications with an entry in dup_diffs
    records,    \* table `sword_deposit`
    copies,     \* how often a repository was given a notification (outside)
    pc,         \* where the program is
    mem,        \* the accounts as the program holds them in memory
    todo,       \* accounts the current run has not yet looked at
    cur,        \* the account being processed
    scroll,     \* what the scroller over its notifications has left
    note,       \* the notification in hand
    parts,      \* its deposit record
    save,       \* save_acc
    killed,     \* a signal to end has been received
    late,       \* notifications routed after one with a higher id (history)
    skipped,    \* notifications administrators had skipped (history)
    faults,     \* number of faults so far
    gui         \* number of interventions so far

routing == <<nextNote, unrouted, routed, duplicate, late>>
inHand  == <<note, parts>>
run     == <<todo, cur, save, killed>>
admin   == <<skipped, gui>>
vars == <<account, routing, records, copies, pc, mem, run, scroll, inHand, admin, faults>>

PC == {"idle", "next", "open", "scroll", "email", "emailed", "metadata", "files",
       "complete", "record", "save"}

NewAccount == [status |-> "new", retries |-> 0, mark |-> NoNote]
NoParts == [meta |-> "none", content |-> "none", completed |-> "none"]

TypeOK ==
    /\ account \in [Repo -> Account]
    /\ nextNote \in 1 .. MaxNote + 1
    /\ unrouted \in SUBSET Note
    /\ routed \in [Repo -> SUBSET Note]
    /\ duplicate \in SUBSET Note
    /\ records \in SUBSET Deposit
    /\ copies \in [Repo -> [Note -> Nat]]
    /\ pc \in PC
    /\ mem \in [Repo -> Account]
    /\ todo \in SUBSET Repo
    /\ cur \in Repo \cup {NoRepo}
    /\ scroll \in SUBSET Note
    /\ note \in Note \cup {NoNote}
    /\ parts \in Parts
    /\ save \in BOOLEAN /\ killed \in BOOLEAN
    /\ late \in [Repo -> SUBSET Note]
    /\ skipped \in [Repo -> SUBSET Note]
    /\ faults \in Nat /\ gui \in Nat

Init ==
    /\ account = [r \in Repo |-> NewAccount]
    /\ nextNote = 1
    /\ unrouted = {}
    /\ routed = [r \in Repo |-> {}]
    /\ duplicate = {}
    /\ records = {}
    /\ copies = [r \in Repo |-> [n \in Note |-> 0]]
    /\ pc = "idle"
    /\ mem = [r \in Repo |-> NewAccount]
    /\ todo = {}
    /\ cur = NoRepo
    /\ scroll = {}
    /\ note = NoNote
    /\ parts = NoParts
    /\ save = FALSE /\ killed = FALSE
    /\ late = [r \in Repo |-> {}]
    /\ skipped = [r \in Repo |-> {}]
    /\ faults = 0 /\ gui = 0

Fault == faults < MaxFaults /\ faults' = faults + 1

-----------------------------------------------------------------------------
\* Routing (router/jper/routing.py): which repositories a notification matches
\* is open.  It may run while SWORD-out does: SCHEDULER_CONFLICTS makes
\* sword_out wait for routing but not routing for sword_out.

RoutedTo(n, repos) ==
    /\ routed' = [r \in Repo |-> IF r \in repos THEN routed[r] \cup {n} ELSE routed[r]]
    /\ late' = [r \in Repo |-> IF r \in repos /\ \E m \in routed[r] : m > n
                               THEN late[r] \cup {n} ELSE late[r]]
    /\ duplicate' = IF \E r \in repos, q \in Repo : \E m \in routed[q] : DoiOf[m] = DoiOf[n]
                    THEN duplicate \cup {n} ELSE duplicate

\* A publisher's notification enters table `notification`, and gets its id.
ReceiveFromPublisher ==
    /\ nextNote <= MaxNote
    /\ nextNote' = nextNote + 1
    /\ unrouted' = unrouted \cup {nextNote}
    /\ UNCHANGED <<account, routed, duplicate, late, records, copies, pc, mem, run, scroll,
                   inHand, admin, faults>>

\* It is routed later, in the same table, under the same id; one that matches
\* no repository is deleted.
RouteFromPublisher(n, repos) ==
    /\ n \in unrouted
    /\ unrouted' = unrouted \ {n}
    /\ RoutedTo(n, repos)
    /\ UNCHANGED <<account, nextNote, records, copies, pc, mem, run, scroll, inHand,
                   admin, faults>>

\* A harvested notification waits in a table of its own and enters table
\* `notification`, under a new id, when it is routed.
RouteHarvested(repos) ==
    /\ nextNote <= MaxNote
    /\ nextNote' = nextNote + 1
    /\ RoutedTo(nextNote, repos)
    /\ UNCHANGED <<account, unrouted, records, copies, pc, mem, run, scroll, inHand,
                   admin, faults>>

-----------------------------------------------------------------------------
\* A run of the job: send_notes_to_sword_acs

\* All accounts are read at once, when the run begins.
StartRun ==
    /\ pc = "idle"
    /\ pc' = "next"
    /\ mem' = account
    /\ todo' = Repo
    /\ killed' = FALSE
    /\ UNCHANGED <<account, routing, records, copies, cur, save, scroll, inHand, admin,
                   faults>>

\* process_account returns at once if the account is failing or off, or if it
\* had a problem and the retry delay has not elapsed (here: possibly not).
SkipAccount(r) ==
    /\ pc = "next" /\ ~killed
    /\ r \in todo
    /\ mem[r].status \in {"failing", "off", "problem"}
    /\ todo' = todo \ {r}
    /\ UNCHANGED <<account, routing, records, copies, pc, mem, cur, save, killed, scroll,
                   inHand, admin, faults>>

BeginAccount(r) ==
    /\ pc = "next" /\ ~killed
    /\ r \in todo
    /\ mem[r].status \in {"new", "okay", "problem"}
    /\ todo' = todo \ {r}
    /\ cur' = r
    /\ IF mem[r].status = "new"
       THEN mem' = [mem EXCEPT ![r].status = "okay"] /\ save' = TRUE
       ELSE save' = FALSE /\ UNCHANGED mem
    /\ pc' = "open"
    /\ UNCHANGED <<account, routing, records, copies, killed, scroll, inHand, admin,
                   faults>>

EndRun ==
    /\ pc = "next"
    /\ killed \/ todo = {}
    /\ pc' = "idle"
    /\ mem' = [r \in Repo |-> NewAccount]
    /\ todo' = {}
    /\ killed' = FALSE
    /\ UNCHANGED <<account, routing, records, copies, cur, save, scroll, inHand, admin,
                   faults>>

-----------------------------------------------------------------------------
\* The loop over the notifications of an account: process_account

\* Mutant: the query begins one too late.
MarkOfNext(r) == mem[r].mark + 1

MarkOf(r) == mem[r].mark

\* The query is executed: notifications with an id beyond the mark, ascending.
OpenScroller ==
    /\ pc = "open"
    /\ pc' = "scroll"
    /\ scroll' = {n \in routed[cur] : n > MarkOf(cur)}
    /\ UNCHANGED <<account, routing, records, copies, mem, run, inHand, admin, faults>>

\* A duplicate is sent by email, if the account wants that and it was given an
\* earlier notification about the article.
SendByEmail(n) ==
    /\ cur \in WantsEmail
    /\ n \in duplicate
    /\ \E d \in records : /\ d.repo = cur
                          /\ DoiOf[d.note] = DoiOf[n]
                          /\ d.parts.meta = "ok"

\* Mutant: the query sorts the other way.
LastInScroll(n) == n \in scroll /\ \A m \in scroll : m <= n

FirstInScroll(n) == n \in scroll /\ \A m \in scroll : n <= m

NextNotification(n) ==
    /\ pc = "scroll" /\ ~killed
    /\ FirstInScroll(n)
    /\ scroll' = scroll \ {n}
    /\ note' = n
    /\ pc' = IF SendByEmail(n) THEN "email" ELSE "metadata"
    /\ UNCHANGED <<account, routing, records, copies, mem, run, parts, admin, faults>>

\* All notifications have been sent, or the program was told to end.
AllSent ==
    /\ pc = "scroll"
    /\ killed \/ scroll = {}
    /\ mem' = [mem EXCEPT ![cur].status = "okay"]
    /\ pc' = "save"
    /\ UNCHANGED <<account, routing, records, copies, run, scroll, inHand, admin, faults>>

-----------------------------------------------------------------------------
\* One notification: process_notification

\* The repository may take what it is given or not, and the program may learn of
\* success; an answer that is lost counts as failure.
Given(answer) ==
    \/ /\ answer = "ok"
       /\ copies' = [copies EXCEPT ![cur][note] = @ + 1]
       /\ UNCHANGED faults
    \/ /\ answer = "failed"
       /\ UNCHANGED <<copies, faults>>
    \/ /\ answer = "failed"
       /\ copies' = [copies EXCEPT ![cur][note] = @ + 1]
       /\ Fault

\* send_note_by_email: if the email cannot be sent, that is what is recorded (with
\* nothing said of files).
EmailNotification ==
    /\ pc = "email"
    /\ \E answer \in {"ok", "failed"} :
        /\ Given(answer)
        /\ parts' = [NoParts EXCEPT !.meta = answer, !.completed = answer,
                                    !.content = IF answer = "ok" /\ note \in WithFiles
                                                THEN "ok" ELSE "none"]
    /\ pc' = "emailed"
    /\ UNCHANGED <<account, routing, records, mem, run, scroll, note, admin>>

\* metadata_deposit: creates the entry in the repository.
DepositMetadata ==
    /\ pc = "metadata"
    /\ \E answer \in {"ok", "failed"} :
        /\ Given(answer)
        /\ parts' = [NoParts EXCEPT !.meta = answer]
        /\ pc' = IF answer = "ok" /\ note \in WithFiles THEN "files" ELSE "record"
    /\ UNCHANGED <<account, routing, records, mem, run, scroll, note, admin>>

\* _process_link_package_deposit, for each of the files; after a failure ...
DepositFiles ==
    /\ pc = "files"
    /\ \E answer \in {"ok", "failed"} : parts' = [parts EXCEPT !.content = answer]
    /\ pc' = "complete"
    /\ UNCHANGED <<account, routing, records, copies, mem, run, scroll, note, admin,
                   faults>>

\* ... the deposit is completed all the same.
CompleteDeposit ==
    /\ pc = "complete"
    /\ \E answer \in {"ok", "failed"} : parts' = [parts EXCEPT !.completed = answer]
    /\ pc' = "record"
    /\ UNCHANGED <<account, routing, records, copies, mem, run, scroll, note, admin,
                   faults>>

Failed == parts.content = "failed" \/ parts.completed = "failed"

\* Mutants: the mark is not moved if the files could not be deposited, is moved
\* whatever happened, is moved too far.
MarkedIfComplete(row) ==
    IF parts.meta = "ok" /\ ~Failed THEN [row EXCEPT !.mark = note] ELSE row
MarkedAlways(row) == [row EXCEPT !.mark = note]
MarkedBeyond(row) == [row EXCEPT !.mark = note + 1]

\* last_deposited_note_id, once the deposit record is saved
Marked(row) == IF parts.meta = "ok" THEN [row EXCEPT !.mark = note] ELSE row

\* record_failure(limit)
WithFailure(row, limit) ==
    IF row.retries + 1 > limit
    THEN [row EXCEPT !.status = "failing", !.retries = 0]
    ELSE [row EXCEPT !.status = "problem", !.retries = @ + 1]

\* The deposit record is inserted; after a failure of any part process_account
\* ends with this notification.
InsertRecord ==
    /\ pc \in {"record", "emailed"}
    /\ records' = records \cup {[repo |-> cur, note |-> note, parts |-> parts]}
    /\ IF parts.meta = "failed" \/ Failed
       THEN /\ mem' = [mem EXCEPT ![cur] = WithFailure(Marked(@), RetryLimit)]
            /\ pc' = "save"
            /\ scroll' = {}
       ELSE /\ mem' = [mem EXCEPT ![cur] = Marked(@)]
            /\ pc' = "scroll"
            /\ UNCHANGED scroll
    /\ save' = TRUE
    /\ note' = NoNote /\ parts' = NoParts
    /\ UNCHANGED <<account, routing, copies, todo, cur, killed, admin, faults>>

-----------------------------------------------------------------------------
\* The end of process_account (finally:)

\* The account is read again, and status, retries and mark are written over what
\* was found, be it because something changed or because the program must end.
SaveAccount ==
    /\ pc = "save"
    /\ account' = IF save \/ killed THEN [account EXCEPT ![cur] = mem[cur]] ELSE account
    /\ pc' = "next"
    /\ cur' = NoRepo /\ save' = FALSE /\ scroll' = {}
    /\ UNCHANGED <<routing, records, copies, mem, todo, killed, inHand, admin, faults>>

-----------------------------------------------------------------------------
\* Faults

\* A DAOException, from the scroller or while the deposit record is inserted.
\* Unless it is marked "abend" the scroller is opened once more; otherwise the
\* account is saved and the remaining accounts are not looked at.
DatabaseError(abend) ==
    /\ pc \in {"open", "scroll", "record"}
    /\ Fault
    /\ pc' = IF abend THEN "save" ELSE "open"
    /\ todo' = IF abend THEN {} ELSE todo
    /\ scroll' = {}
    /\ note' = NoNote /\ parts' = NoParts
    /\ UNCHANGED <<account, routing, records, copies, mem, cur, save, killed, admin>>

\* If the record of an email cannot be inserted, the email is recorded as failed.
EmailRecordError ==
    /\ pc = "emailed"
    /\ Fault
    /\ parts' = [NoParts EXCEPT !.meta = "failed", !.completed = "failed"]
    /\ pc' = "record"
    /\ UNCHANGED <<account, routing, records, copies, mem, run, scroll, note, admin>>

\* Any other exception: the account is failing, the run ends.
UnexpectedError ==
    /\ pc \in {"open", "scroll"}
    /\ Fault
    /\ mem' = [mem EXCEPT ![cur] = WithFailure(@, 0)]
    /\ pc' = "save"
    /\ todo' = {}
    /\ save' = TRUE
    /\ scroll' = {}
    /\ UNCHANGED <<account, routing, records, copies, cur, killed, inHand, admin>>

\* SIGTERM: the notification in hand is finished, the account saved.
Signal ==
    /\ pc # "idle" /\ ~killed
    /\ Fault
    /\ killed' = TRUE
    /\ UNCHANGED <<account, routing, records, copies, pc, mem, todo, cur, save, scroll,
                   inHand, admin>>

\* The process stops dead, and is started again.
Crash ==
    /\ pc # "idle"
    /\ Fault
    /\ pc' = "idle"
    /\ mem' = [r \in Repo |-> NewAccount]
    /\ todo' = {}
    /\ cur' = NoRepo /\ save' = FALSE /\ killed' = FALSE
    /\ scroll' = {}
    /\ note' = NoNote /\ parts' = NoParts
    /\ UNCHANGED <<account, routing, records, copies, admin>>

-----------------------------------------------------------------------------
\* Administrators (router/jper/views/account.py: admin_ajax): each of these
\* reads the account for update and writes it, in one transaction.

Intervene == gui < MaxGui /\ gui' = gui + 1

\* _set_repository_status
WithStatus(row, status) == [row EXCEPT !.status = status, !.retries = 0]

\* _toggle_account
ToggleAccount(r) ==
    /\ Intervene
    /\ account' = [account EXCEPT ![r] =
                     WithStatus(@, IF @.status = "off" THEN "okay" ELSE "off")]
    /\ UNCHANGED <<routing, records, copies, pc, mem, run, scroll, inHand, skipped, faults>>

\* _toggle_repo_status
ToggleRepoStatus(r) ==
    /\ Intervene
    /\ account' = [account EXCEPT ![r] =
                     WithStatus(@, IF @.status = "failing" THEN "okay" ELSE "failing")]
    /\ UNCHANGED <<routing, records, copies, pc, mem, run, scroll, inHand, skipped, faults>>

SkippedTo(row, n) == [row EXCEPT !.mark = n, !.status = "okay"]

\* _skip_blocking_note (which raises an exception if there is no mark yet)
SkipBlockingNote(r, n) ==
    /\ Intervene
    /\ account[r].status = "failing"
    /\ account[r].mark # NoNote /\ n > account[r].mark
    /\ \E d \in records : d.repo = r /\ d.note = n /\ d.parts.meta = "failed"
    /\ account' = [account EXCEPT ![r] = SkippedTo(@, n)]
    /\ skipped' = [skipped EXCEPT ![r] = @ \cup {n}]
    /\ UNCHANGED <<routing, records, copies, pc, mem, run, scroll, inHand, faults>>

Step ==
    \/ StartRun \/ EndRun
    \/ \E r \in Repo : SkipAccount(r) \/ BeginAccount(r)
    \/ OpenScroller \/ AllSent
    \/ \E n \in Note : NextNotification(n)
    \/ EmailNotification \/ DepositMetadata \/ DepositFiles \/ CompleteDeposit
    \/ InsertRecord \/ SaveAccount

Environment ==
    \/ ReceiveFromPublisher
    \/ \E repos \in SUBSET Repo : \/ RouteHarvested(repos)
                                  \/ \E n \in Note : RouteFromPublisher(n, repos)
    \/ \E abend \in BOOLEAN : DatabaseError(abend)
    \/ EmailRecordError \/ UnexpectedError \/ Signal \/ Crash
    \/ \E r \in Repo : \/ ToggleAccount(r) \/ ToggleRepoStatus(r)
                       \/ \E n \in Note : SkipBlockingNote(r, n)

Next == Step \/ Environment

Spec == Init /\ [][Next]_vars

\* The job is run again and again, and goes through all accounts; an account with
\* a problem is not passed over for ever, as its retry delay elapses.
FairSpec == Spec /\ WF_vars(Step) /\ (\A r \in Repo : SF_vars(BeginAccount(r)))

-----------------------------------------------------------------------------
(***************************************************************************)
(* Properties                                                              *)
(***************************************************************************)

\* Notifications a repository needs no more: it was given them, or an
\* administrator decided that it shall not get them.
Handled(r) == {n \in Note : copies[r][n] > 0} \cup skipped[r]

\* The mark of an account never passes a notification that the repository has
\* not been given, save those that were routed after one with a higher id:
\* whatever fails, and in whatever order administrators and program write the
\* account, no notification is silently left out.
NothingPassedOver ==
    \A r \in Repo : \A n \in routed[r] \ late[r] :
        n <= account[r].mark => n \in Handled(r)

\* Seen from outside, the program, the administrators and all that can fail give
\* the repositories their notifications in the order of their ids.
Delivery == INSTANCE OrderedDelivery WITH handled <- [r \in Repo |-> Handled(r)]
DeliversInOrder == Delivery!Spec

\* Without faults a repository gets no notification twice, and each fault costs at
\* most one more copy of it: success is remembered before anything can fail.
CopiesBounded ==
    \A r \in Repo, n \in Note : copies[r][n] <= 1 + faults

\* What process_account says of itself: notifications are sent in ascending order
\* until all have been sent.  Nothing the mark has passed is left behind.
AllSentInOrder ==
    \A r \in Repo : \A n \in routed[r] : n <= account[r].mark => n \in Handled(r)

\* process_account: "If content, which is sent after metadata, fails then
\* processing of notifications continues."  So what gives an account a problem
\* is a notification beyond the mark, whose metadata could not be deposited.
ProblemIsMetadata ==
    \A r \in Repo : account[r].status = "problem" =>
        \E d \in records : /\ d.repo = r
                           /\ d.note > account[r].mark
                           /\ d.parts.meta = "failed"

\* Only values that administrators do not change are written at the end of
\* process_account: an account that was switched off stays off until somebody
\* switches it on.
OffStaysOff ==
    [][\A r \in Repo : account[r].status = "off" /\ account'[r].status # "off"
          => gui' # gui]_vars

\* A notification that was routed in order is given to its repository, unless
\* the account is failing or off, when somebody has to look at it.
EventuallySent ==
    \A r \in Repo, n \in Note :
        n \in routed[r] \ late[r] ~> \/ n \in Handled(r)
                                     \/ account[r].status \in {"failing", "off"}

=============================================================================
