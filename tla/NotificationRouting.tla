-------------------------- MODULE NotificationRouting --------------------------
(***************************************************************************)
(* How notifications come in and are routed.  A submission of a publisher  *)
(* (by API, FTP or SWORD: router/jper/api.py, create_unrouted_note) is a   *)
(* row of type U in table `notification`, with its package in the file     *)
(* store; a harvested item is a row of table `harvested_unrouted`.  The    *)
(* jobs route and route_harv (router/jper/scheduler.py,                    *)
(* _process_unrouted) walk through one of the tables, route what matches   *)
(* a repository (router/jper/routing.py, route) and delete the rest.       *)
(*                                                                         *)
(* Both jobs are executed by one program, one at a time; submissions and   *)
(* the Harvester go on meanwhile.                                          *)
(***************************************************************************)
EXTENDS Integers

CONSTANTS
    Repo,          \* active repository accounts
    Sub,           \* submissions of publishers
    Item,          \* harvested items
    NoNote,
    WithPackage,   \* submissions that come with a package
    Malformed,     \* rows from which no notification object can be made
    Doi,           \* identifiers of articles
    DoiOf,         \* the article a notification is about, or NoDoi
    NoDoi,
    WantsDups,     \* repositories that want duplicates of every level
    MaxFaults      \* bound: crashes, signals, exceptions of database and store

Note == Sub \cup Item

ASSUME RoutingAssumption ==
    /\ Sub \cap Item = {} /\ NoNote \notin Note
    /\ WithPackage \subseteq Sub /\ Malformed \subseteq Note
    /\ NoDoi \notin Doi /\ DoiOf \in [Note -> Doi \cup {NoDoi}]
    /\ WantsDups \subseteq Repo
    /\ MaxFaults \in Nat

Kind == {"publisher", "harvested"}
Of(k) == IF k = "publisher" THEN Sub ELSE Item

\* A row is hidden while the transaction that inserts it is open.
Row == {"absent", "hidden", "unrouted", "routed", "deleted"}
Stage == {"new", "inserting", "storing", "recording", "acked", "removing", "refused",
          "dead"}
Register == [seen : BOOLEAN, pub : BOOLEAN, repos : SUBSET Repo]

VARIABLES
    row,        \* the row of each notification in the table it came into
    id,         \* its id there
    nextId,     \* the auto-increment counters of the two tables
    files,      \* file store: submissions whose package is there
    record,     \* table `pub_deposit`: "none", "unmatched", "matched"
    sender,     \* how far the request that brings a submission has got
    register,   \* table `doi_register`
    given,      \* rows of table `notification_account`
    pc,         \* where the routing program is
    kind,       \* which job it executes
    scroll,     \* what the scroller has left
    cur,        \* the notification in hand
    lastId,     \* note_id
    packaging,  \* packaging_format of `notification`, which may be unbound
    repos,      \* match_ac_ids
    success,    \* routed_bool
    abend,      \* an exception ends the loop
    noPkg,      \* unrouted_ids_no_pkgs
    withPkg,    \* unrouted_ids_with_pkgs
    killed,     \* a signal to end has been received
    seen,       \* notifications that a run has tried to route (history)
    early,      \* those taken up before their sender was done (history)
    failed,     \* those whose routing or removal did not come to its end (history)
    unread,     \* those that were being inserted as a run read the table, or
                \* entered it just before it was truncated (history)
    faults      \* number of faults so far

tables  == <<row, id, nextId>>
loop    == <<kind, scroll, lastId, killed>>
inHand  == <<cur, repos, success>>
lists   == <<packaging, noPkg, withPkg>>
history == <<seen, early, failed, unread>>
vars == <<tables, files, record, sender, register, given, pc, loop, inHand, abend, lists,
          history, faults>>

PC == {"idle", "loop", "match", "save", "register", "record", "finally", "delete",
       "rows", "truncate"}

TypeOK ==
    /\ row \in [Note -> Row] /\ id \in [Note -> Nat] /\ nextId \in [Kind -> Nat]
    /\ files \in SUBSET Sub
    /\ record \in [Sub -> {"none", "unmatched", "matched"}]
    /\ sender \in [Sub -> Stage]
    /\ register \in [Doi -> Register]
    /\ given \in [Repo -> [Note -> Nat]]
    /\ pc \in PC /\ kind \in Kind
    /\ scroll \in SUBSET Note /\ cur \in Note \cup {NoNote} /\ lastId \in Nat
    /\ packaging \in {"unbound", "none", "some"}
    /\ repos \in SUBSET Repo
    /\ success \in BOOLEAN /\ abend \in BOOLEAN /\ killed \in BOOLEAN
    /\ noPkg \in SUBSET Sub /\ withPkg \in SUBSET Sub
    /\ seen \in SUBSET Note /\ early \in SUBSET Sub
    /\ failed \in SUBSET Note /\ unread \in SUBSET Note
    /\ faults \in Nat

Init ==
    /\ row = [n \in Note |-> "absent"] /\ id = [n \in Note |-> 0]
    /\ nextId = [k \in Kind |-> 1]
    /\ files = {}
    /\ record = [s \in Sub |-> "none"] /\ sender = [s \in Sub |-> "new"]
    /\ register = [d \in Doi |-> [seen |-> FALSE, pub |-> FALSE, repos |-> {}]]
    /\ given = [r \in Repo |-> [n \in Note |-> 0]]
    /\ pc = "idle" /\ kind = "publisher"
    /\ scroll = {} /\ cur = NoNote /\ lastId = 0
    /\ packaging = "unbound" /\ repos = {}
    /\ success = FALSE /\ abend = FALSE /\ killed = FALSE
    /\ noPkg = {} /\ withPkg = {}
    /\ seen = {} /\ early = {} /\ failed = {} /\ unread = {}
    /\ faults = 0

Fault == faults < MaxFaults /\ faults' = faults + 1

-----------------------------------------------------------------------------
\* A submission: JPER.create_unrouted_note, then the deposit record of its caller

program == <<register, given, pc, loop, inHand, abend, lists>>

\* unrouted_note.insert(): the id is given out, ...
InsertNote(s) ==
    /\ sender[s] = "new"
    /\ sender' = [sender EXCEPT ![s] = "inserting"]
    /\ row' = [row EXCEPT ![s] = "hidden"]
    /\ id' = [id EXCEPT ![s] = nextId["publisher"]]
    /\ nextId' = [nextId EXCEPT !["publisher"] = @ + 1]
    /\ UNCHANGED <<files, record, program, history, faults>>

\* ... and the transaction is committed.
CommitNote(s) ==
    /\ sender[s] = "inserting"
    /\ sender' = [sender EXCEPT ![s] = IF s \in WithPackage THEN "storing" ELSE "recording"]
    /\ row' = [row EXCEPT ![s] = "unrouted"]
    /\ UNCHANGED <<id, nextId, files, record, program, history, faults>>

\* store_package_files
StorePackage(s) ==
    /\ sender[s] = "storing"
    /\ sender' = [sender EXCEPT ![s] = "recording"]
    /\ files' = files \cup {s}
    /\ UNCHANGED <<tables, record, program, history, faults>>

\* If that fails the files are removed, then the row, by its primary key.
StoreFails(s) ==
    /\ sender[s] = "storing"
    /\ Fault
    /\ sender' = [sender EXCEPT ![s] = "removing"]
    /\ files' = files \ {s}
    /\ UNCHANGED <<tables, record, program, history>>

RemoveNote(s) ==
    /\ sender[s] = "removing"
    /\ sender' = [sender EXCEPT ![s] = "refused"]
    /\ row' = [row EXCEPT ![s] = "deleted"]
    /\ UNCHANGED <<id, nextId, files, record, program, history, faults>>

\* create_notification: the deposit record is inserted, and the sender told.
RecordDeposit(s) ==
    /\ sender[s] = "recording"
    /\ sender' = [sender EXCEPT ![s] = "acked"]
    /\ record' = [record EXCEPT ![s] = "unmatched"]
    /\ UNCHANGED <<tables, files, program, history, faults>>

\* The record cannot be inserted: the request fails, the notification remains.
RecordFails(s) ==
    /\ sender[s] = "recording"
    /\ Fault
    /\ sender' = [sender EXCEPT ![s] = "dead"]
    /\ UNCHANGED <<tables, files, record, program, history>>

\* The process that serves the request dies; an open transaction is rolled back.
SenderCrash(s) ==
    /\ sender[s] \in {"inserting", "storing", "removing"}
    /\ Fault
    /\ sender' = [sender EXCEPT ![s] = "dead"]
    /\ row' = [row EXCEPT ![s] = IF @ = "hidden" THEN "absent" ELSE @]
    /\ UNCHANGED <<id, nextId, files, record, program, history>>

\* The Harvester inserts an item.
Harvest(i) ==
    /\ row[i] = "absent"
    /\ row' = [row EXCEPT ![i] = "unrouted"]
    /\ id' = [id EXCEPT ![i] = nextId["harvested"]]
    /\ nextId' = [nextId EXCEPT !["harvested"] = @ + 1]
    /\ unread' = IF pc = "truncate" THEN unread \cup {i} ELSE unread
    /\ UNCHANGED <<files, record, sender, program, seen, early, failed, faults>>

-----------------------------------------------------------------------------
\* The loop of _process_unrouted

outside == <<nextId, id, sender>>

Waiting(k) == {n \in Of(k) : row[n] = "unrouted"}

\* The table is read at once: one statement.
StartRun(k) ==
    /\ pc = "idle"
    /\ pc' = "loop"
    /\ kind' = k
    /\ scroll' = Waiting(k)
    /\ unread' = unread \cup {n \in Of(k) : row[n] = "hidden"}
    /\ lastId' = 0 /\ packaging' = "unbound"
    /\ noPkg' = {} /\ withPkg' = {}
    /\ UNCHANGED <<row, outside, files, record, register, given, inHand, abend, killed,
                   seen, early, failed, faults>>

FirstInScroll(n) == n \in scroll /\ \A m \in scroll : id[n] <= id[m]

Taken(n) ==
    /\ pc = "loop" /\ ~killed
    /\ FirstInScroll(n)
    /\ scroll' = scroll \ {n}
    /\ cur' = n /\ lastId' = id[n]
    /\ seen' = seen \cup {n}
    /\ UNCHANGED <<row, outside, files, record, register, given, kind, killed, repos,
                   success, abend, noPkg, withPkg, unread, faults>>

TakeNotification(n) ==
    /\ Taken(n)
    /\ n \notin Malformed
    /\ packaging' = IF n \in WithPackage THEN "some" ELSE "none"
    /\ early' = IF n \in Sub /\ sender[n] # "acked" THEN early \cup {n} ELSE early
    /\ pc' = "match"
    /\ UNCHANGED failed

\* The constructor raises an exception: `notification` is what it was before.
TakeMalformed(n) ==
    /\ Taken(n)
    /\ n \in Malformed
    /\ failed' = failed \cup {n}
    /\ pc' = "finally"
    /\ UNCHANGED <<packaging, early>>

\* A duplicate goes to those that had the article only if they want duplicates, or
\* if this is the first from a publisher.
Skipped(n, r) ==
    /\ DoiOf[n] # NoDoi
    /\ register[DoiOf[n]].seen /\ r \in register[DoiOf[n]].repos
    /\ ~(n \in Sub /\ ~register[DoiOf[n]].pub)
    /\ r \notin WantsDups

\* What matches is open: it depends on the accounts as they were when the run began.
Match ==
    /\ pc = "match"
    /\ \E matching \in SUBSET Repo : repos' = {r \in matching : ~Skipped(cur, r)}
    /\ pc' = IF repos' = {} THEN "finally" ELSE "save"
    /\ UNCHANGED <<row, outside, files, record, register, given, loop, cur, success, abend,
                   lists, history, faults>>

\* _create_routed.  A package that is not (or no more) in the store makes some
\* conversions raise an exception, others yield nothing.
PackageMissing == cur \in WithPackage \ files

\* save_newly_routed: one transaction.  A submission keeps its row, a harvested
\* item gets a new one in table `notification`.
SaveRouted ==
    /\ pc = "save"
    /\ row' = IF cur \in Sub THEN [row EXCEPT ![cur] = "routed"] ELSE row
    /\ given' = [r \in Repo |-> IF r \in repos THEN [given[r] EXCEPT ![cur] = @ + 1]
                                ELSE given[r]]
    /\ pc' = IF DoiOf[cur] = NoDoi THEN "record" ELSE "register"
    /\ UNCHANGED <<outside, files, record, register, loop, inHand, abend, lists, history,
                   faults>>

RepackageFails ==
    /\ pc = "save"
    /\ PackageMissing
    /\ failed' = failed \cup {cur}
    /\ pc' = "finally"
    /\ UNCHANGED <<row, outside, files, record, register, given, loop, inHand, abend, lists,
                   seen, early, unread, faults>>

\* Mutant: the recipients are not added to the record.
SaveRegisterWithoutRepos ==
    /\ pc = "register"
    /\ register' = [register EXCEPT ![DoiOf[cur]] =
                      [seen |-> TRUE, pub |-> @.pub \/ cur \in Sub, repos |-> @.repos]]
    /\ pc' = "record"
    /\ UNCHANGED <<row, outside, files, record, given, loop, inHand, abend, lists, history,
                   faults>>

\* doi_rec.save_if_changed
SaveRegister ==
    /\ pc = "register"
    /\ register' = [register EXCEPT ![DoiOf[cur]] =
                      [seen |-> TRUE, pub |-> @.pub \/ cur \in Sub,
                       repos |-> @.repos \cup repos]]
    /\ pc' = "record"
    /\ UNCHANGED <<row, outside, files, record, given, loop, inHand, abend, lists, history,
                   faults>>

\* Mutant: the deposit record is changed but not saved.
RecordMatchUnsaved ==
    /\ pc = "record"
    /\ success' = TRUE
    /\ pc' = "finally"
    /\ UNCHANGED <<row, outside, files, record, register, given, loop, cur, repos, abend,
                   lists, history, faults>>

\* The deposit record of the notification in hand is marked, if there is one.
Marked == IF cur \in Sub /\ record[cur] # "none" THEN [record EXCEPT ![cur] = "matched"]
          ELSE record

\* The provenance is inserted and the deposit record updated.
RecordMatch ==
    /\ pc = "record"
    /\ record' = Marked
    /\ success' = TRUE
    /\ pc' = "finally"
    /\ UNCHANGED <<row, outside, files, register, given, loop, cur, repos, abend, lists,
                   history, faults>>

\* An exception in inserting the provenance is kept until the record has been updated;
\* in reading or updating the record it leaves it as it was, in the mail to the
\* publisher that follows it comes too late for that.
RecordMatchFails ==
    /\ pc = "record"
    /\ Fault
    /\ record' \in {record, Marked}
    /\ abend' \in BOOLEAN
    /\ failed' = failed \cup {cur}
    /\ pc' = "finally"
    /\ UNCHANGED <<row, outside, files, register, given, loop, inHand, lists, seen, early,
                   unread>>

\* Any other exception in route; a DAOException may end the loop.
RouteFails ==
    /\ pc \in {"match", "save", "register"}
    /\ Fault
    /\ abend' \in BOOLEAN
    /\ failed' = failed \cup {cur}
    /\ pc' = "finally"
    /\ UNCHANGED <<row, outside, files, record, register, given, loop, inHand, lists, seen,
                   early, unread>>

\* Mutants: harvested notifications are put on a list, routed ones are.
ListedWhatever == ~success
ListedRouted == kind = "publisher"

\* finally: an unrouted submission goes on one of the two lists.
Listed == kind = "publisher" /\ ~success

Finally ==
    /\ pc = "finally"
    /\ IF Listed /\ packaging = "unbound"
       THEN /\ pc' = "delete"      \* UnboundLocalError
            /\ UNCHANGED <<noPkg, withPkg>>
       ELSE /\ pc' = IF abend THEN "delete" ELSE "loop"
            /\ noPkg' = IF Listed /\ packaging = "none" THEN noPkg \cup {cur} ELSE noPkg
            /\ withPkg' = IF Listed /\ packaging = "some" THEN withPkg \cup {cur} ELSE withPkg
    /\ cur' = NoNote /\ repos' = {} /\ success' = FALSE /\ abend' = FALSE
    /\ UNCHANGED <<row, outside, files, record, register, given, loop, packaging, history,
                   faults>>

EndLoop ==
    /\ pc = "loop"
    /\ killed \/ scroll = {}
    /\ pc' = "delete"
    /\ UNCHANGED <<row, outside, files, record, register, given, loop, inHand, abend, lists,
                   history, faults>>

ScrollerError ==
    /\ pc = "loop"
    /\ Fault
    /\ pc' = "delete"
    /\ UNCHANGED <<row, outside, files, record, register, given, loop, inHand, abend, lists,
                   history>>

-----------------------------------------------------------------------------
\* The deletions at the end

\* Mutant: the killer remembers a signal for ever.
EndedKilled ==
    /\ scroll' = {} /\ lastId' = 0 /\ UNCHANGED killed
    /\ packaging' = "unbound" /\ noPkg' = {} /\ withPkg' = {}

Ended ==
    /\ scroll' = {} /\ lastId' = 0 /\ killed' = FALSE
    /\ packaging' = "unbound" /\ noPkg' = {} /\ withPkg' = {}

NothingToDelete ==
    /\ pc = "delete"
    /\ IF kind = "publisher" THEN noPkg \cup withPkg = {} ELSE lastId = 0
    /\ pc' = "idle"
    /\ Ended
    /\ UNCHANGED <<row, outside, files, record, register, given, kind, inHand, abend, history,
                   faults>>

\* delete_unrouted_notifications_and_files: the store first; a StoreException is
\* logged ...
DeleteFiles ==
    /\ pc = "delete" /\ kind = "publisher"
    /\ noPkg \cup withPkg # {}
    /\ \/ files' = files \ withPkg /\ UNCHANGED faults
       \/ Fault /\ \E s \in withPkg : files' = files \ (withPkg \ {s})
    /\ pc' = "rows"
    /\ UNCHANGED <<row, outside, record, register, given, loop, inHand, abend, lists, history>>

\* Mutant: the type is not looked at.
AllRowsUpToMax ==
    {s \in Sub : row[s] \in {"unrouted", "routed"}
                 /\ \E m \in noPkg \cup withPkg : id[s] <= id[m]}

\* Mutant: everything of type U is deleted.
AllUnroutedRows == {s \in Sub : row[s] = "unrouted"}

\* ... then the rows of type U up to the highest id on the lists.
RowsUpToMax ==
    {s \in Sub : row[s] = "unrouted" /\ \E m \in noPkg \cup withPkg : id[s] <= id[m]}

DeleteRows ==
    /\ pc = "rows"
    /\ row' = [n \in Note |-> IF n \in RowsUpToMax THEN "deleted" ELSE row[n]]
    /\ pc' = "idle"
    /\ Ended
    /\ UNCHANGED <<outside, files, record, register, given, kind, inHand, abend, history,
                   faults>>

\* The highest id of the table is read; if it is the last one processed the table
\* is truncated next, otherwise the rows up to that one are deleted.
IsLast == \A i \in Waiting("harvested") : id[i] <= lastId

DeleteHarvested ==
    /\ pc = "delete" /\ kind = "harvested"
    /\ lastId # 0 /\ ~IsLast
    /\ row' = [n \in Note |-> IF n \in Waiting("harvested") /\ id[n] <= lastId
                              THEN "deleted" ELSE row[n]]
    /\ pc' = "idle"
    /\ Ended
    /\ UNCHANGED <<outside, files, record, register, given, kind, inHand, abend, history,
                   faults>>

FoundLast ==
    /\ pc = "delete" /\ kind = "harvested"
    /\ lastId # 0 /\ IsLast
    /\ pc' = "truncate"
    /\ UNCHANGED <<row, outside, files, record, register, given, loop, inHand, abend, lists,
                   history, faults>>

TruncateHarvested ==
    /\ pc = "truncate"
    /\ row' = [n \in Note |-> IF n \in Waiting("harvested") THEN "deleted" ELSE row[n]]
    /\ nextId' = [nextId EXCEPT !["harvested"] = 1]
    /\ pc' = "idle"
    /\ Ended
    /\ UNCHANGED <<id, sender, files, record, register, given, kind, inHand, abend, history,
                   faults>>

\* A database error in any of these is logged; the rows stay.
DeletionFails ==
    /\ \/ pc \in {"rows", "truncate"}
       \/ pc = "delete" /\ kind = "harvested" /\ lastId # 0
    /\ Fault
    /\ pc' = "idle"
    /\ failed' = failed \cup noPkg \cup withPkg
    /\ Ended
    /\ UNCHANGED <<row, outside, files, record, register, given, kind, inHand, abend, seen,
                   early, unread>>

Signal ==
    /\ pc # "idle" /\ ~killed
    /\ Fault
    /\ killed' = TRUE
    /\ UNCHANGED <<row, outside, files, record, register, given, pc, kind, scroll, lastId,
                   inHand, abend, lists, history>>

\* The program stops dead and is started again.
Crash ==
    /\ pc # "idle"
    /\ Fault
    /\ pc' = "idle"
    /\ failed' = failed \cup noPkg \cup withPkg \cup ({cur} \ {NoNote})
    /\ cur' = NoNote /\ repos' = {} /\ success' = FALSE /\ abend' = FALSE
    /\ Ended
    /\ UNCHANGED <<row, outside, files, record, register, given, kind, seen, early, unread>>

-----------------------------------------------------------------------------
Request(s) ==
    \/ CommitNote(s) \/ StorePackage(s) \/ RemoveNote(s) \/ RecordDeposit(s)

Step ==
    \/ \E n \in Note : TakeNotification(n) \/ TakeMalformed(n)
    \/ Match \/ SaveRouted \/ RepackageFails \/ SaveRegister \/ RecordMatch
    \/ Finally \/ EndLoop
    \/ NothingToDelete \/ DeleteFiles \/ DeleteRows
    \/ DeleteHarvested \/ FoundLast \/ TruncateHarvested

Faults ==
    \/ \E s \in Sub : StoreFails(s) \/ RecordFails(s) \/ SenderCrash(s)
    \/ RecordMatchFails \/ RouteFails \/ ScrollerError \/ DeletionFails \/ Signal \/ Crash

Next ==
    \/ \E s \in Sub : InsertNote(s) \/ Request(s)
    \/ \E i \in Item : Harvest(i)
    \/ \E k \in Kind : StartRun(k)
    \/ Step
    \/ Faults

Spec == Init /\ [][Next]_vars

\* Requests are served, and both jobs are run again and again.
Fairness ==
    /\ \A s \in Sub : WF_vars(Request(s))
    /\ WF_vars(Step)
    /\ \A k \in Kind : SF_vars(StartRun(k))

FairSpec == Spec /\ Fairness

-----------------------------------------------------------------------------
(***************************************************************************)
(* Properties                                                              *)
(***************************************************************************)

\* The deletions reach no notification that no run has tried to route, although
\* they go by "everything up to this id" or "everything", and senders and the
\* Harvester insert meanwhile; save what a run could not see because it was just
\* being inserted.  A sender may take its own submission back.
DeletedWereSeen ==
    \A n \in Note : row[n] = "deleted" =>
        \/ n \in seen \cup unread
        \/ n \in Sub /\ sender[n] = "refused"

\* A routed submission keeps its package for the repositories to fetch, if its
\* sender had finished before it was taken up and nothing failed while it was
\* routed: it is not among those whose files are deleted.
RoutedKeepsFiles ==
    \A s \in WithPackage \ (early \cup failed) : row[s] = "routed" => s \in files

\* What is listed for a repository is there: neither the deletions nor a sender
\* that takes its submission back remove a routed one (unless it was routed while
\* its sender was still busy with it).
GivenIsThere ==
    \A r \in Repo, s \in Sub \ early : given[r][s] > 0 => row[s] = "routed"

\* The deposit record, from which publishers' reports are made, tells whether the
\* submission was routed.
RecordTellsTruth ==
    \A s \in Sub \ (early \cup failed) :
        sender[s] = "acked" /\ s # cur => (record[s] = "matched" <=> row[s] = "routed")

\* A repository that does not want duplicates is given a second notification about
\* an article only if it is the first from a publisher, after harvested ones; what
\* failed after it had been routed may not be in the register.
NoUnwantedDuplicate ==
    [][\A r \in Repo \ WantsDups, n \in Note, m \in Note \ failed :
          /\ given'[r][n] > given[r][n] /\ given[r][m] > 0
          /\ DoiOf[m] = DoiOf[n] /\ DoiOf[n] # NoDoi
          => n \in Sub /\ m \in Item]_vars

\* note.py, unrouted_scroller_obj: dicts are returned "so that any failure to
\* instantiate an Object can be caught in the scrolling loop (otherwise the scroller
\* would be aborted)".  So a run that meets no other exception and no signal goes
\* through everything it has read.
RunGoesThroughAll == pc = "delete" /\ faults = 0 => scroll = {}

\* api.py, delete_unrouted_notifications_and_files: "Delete unrouted notifications
\* from database AND delete any stored files associated with them."  The files of
\* routed ones are left alone.
OnlyUnroutedLoseFiles ==
    [][\A s \in files \ files' : pc = "delete" => row[s] # "routed"]_vars

\* scheduler.py, _process_unrouted: "if last notification processed equals last
\* notification in table, then can delete all entries by truncating table".  What
\* is truncated has been processed.
TruncatedWereProcessed ==
    [][pc = "truncate" /\ row' # row => Waiting("harvested") \subseteq seen]_vars

\* Every notification is routed, deleted or at least tried, unless one from which
\* no object can be made stops each run.
EventuallySeen ==
    \A n \in Note : row[n] = "unrouted" ~> \/ n \in seen \/ row[n] # "unrouted"
                                           \/ \E m \in Malformed : row[m] = "unrouted"

=============================================================================
