------------------------------- MODULE PubTesting -------------------------------
(***************************************************************************)
(* Automated testing of one publisher's submissions                        *)
(* (jper/pub_testing.py, jper/validate_route.py): administrators start,    *)
(* end and restart the testing on the account's page and make the account  *)
(* live (jper/views/account.py), while the programs that receive           *)
(* submissions, by API, SWORD or FTP, validate them, may route them to     *)
(* test repositories, record the result, and save the account with its     *)
(* statistics.  A program works on the account as it read it, and saves    *)
(* the whole record; the FTP job reads it once for all the submissions of  *)
(* a directory.  Dates are left out: start and end say whether one is set. *)
(***************************************************************************)
EXTENDS Naturals, FiniteSets

CONSTANTS
    Validator,  \* programs and requests that receive submissions
    Long,       \* those that keep the account for their next submission (FTP)
    MaxNotes,   \* bound on the notifications created
    MaxTests,   \* bound on the tests begun
    MaxChanges, \* bound on the changes made by administrators
    MaxFaults   \* bound on exceptions and crashes

PubTestingAssumption ==
    /\ Long \subseteq Validator
    /\ {MaxNotes, MaxTests, MaxChanges, MaxFaults} \subseteq Nat

Note == 1..MaxNotes

VARIABLES
    acc,      \* the account record in the database
    mine,     \* each program's copy of it
    recs,     \* the PubTestRecords: how many valid, how many not
    pc,       \* where each program is
    errors,   \* whether its test found any (pub_test.errors)
    noteOf,   \* the notification it created, 0: none
    doomed,   \* step = "deleting"
    note,     \* the row of each notification
    listed,   \* notifications the routing job has taken up
    tests, changes, faults,
    failed    \* history: notifications left behind by an exception or a crash

data    == <<acc, mine, recs>>
work    == <<errors, noteOf, doomed>>
counts  == <<tests, changes, faults>>
vars == <<data, pc, work, note, listed, counts, failed>>

Account == [live : BOOLEAN, start : BOOLEAN, end : BOOLEAN, in_test : BOOLEAN,
            route_note : BOOLEAN, ok : Nat, err : Nat, okSinceErr : Nat]

\* init_testing
NewAccount == [live |-> FALSE, start |-> FALSE, end |-> FALSE, in_test |-> FALSE,
               route_note |-> FALSE, ok |-> 0, err |-> 0, okSinceErr |-> 0]

PC == {"idle", "validate", "create", "route", "provenance", "record", "account", "end"}

TypeOK ==
    /\ acc \in Account /\ mine \in [Validator -> Account]
    /\ recs \in [ok : Nat, err : Nat]
    /\ pc \in [Validator -> PC]
    /\ errors \in [Validator -> BOOLEAN] /\ doomed \in [Validator -> BOOLEAN]
    /\ noteOf \in [Validator -> Note \cup {0}]
    /\ note \in [Note -> {"none", "unrouted", "routed", "deleted"}]
    /\ \A v \in Validator : pc[v] \in {"route", "provenance"} => noteOf[v] # 0
    /\ \A n \in Note : n \in listed => note[n] # "none"

Init ==
    /\ acc = NewAccount /\ mine = [v \in Validator |-> NewAccount]
    /\ recs = [ok |-> 0, err |-> 0]
    /\ pc = [v \in Validator |-> "idle"]
    /\ errors = [v \in Validator |-> FALSE] /\ doomed = [v \in Validator |-> FALSE]
    /\ noteOf = [v \in Validator |-> 0]
    /\ note = [n \in Note |-> "none"] /\ listed = {}
    /\ tests = 0 /\ changes = 0 /\ faults = 0
    /\ failed = {}

-----------------------------------------------------------------------------
(* Administrators.  Each change reads the record for update.               *)

\* Mutant: creation of notifications is left switched on.
EndTestingKeepingRoute(a) == [a EXCEPT !.end = TRUE, !.in_test = FALSE]

EndTesting(a) == [a EXCEPT !.end = TRUE, !.in_test = FALSE, !.route_note = FALSE]

Administer(a) ==
    /\ changes < MaxChanges
    /\ changes' = changes + 1
    /\ acc' = a
    /\ UNCHANGED <<mine, recs, pc, work, note, listed, tests, faults, failed>>

GoLive == Administer([IF acc.in_test THEN EndTesting(acc) ELSE acc EXCEPT !.live = TRUE])

\* What a form posts for the boxes that are not disabled; AccForm gives a
\* disabled one the value the record has (_pub_test_disable_fields).
StartBox(posted) == IF acc.start THEN TRUE ELSE posted
EndBox(posted)   == IF acc.start THEN posted ELSE acc.end
RouteBox(posted) == IF acc.start /\ ~acc.end THEN posted ELSE acc.route_note

Started(a, start) ==
    IF ~a.start /\ start THEN [a EXCEPT !.start = TRUE, !.in_test = TRUE] ELSE a
Restarted(a, start) ==
    IF a.end THEN [a EXCEPT !.end = FALSE, !.in_test = start] ELSE a

UpdatePubTest(start, end, route) ==
    LET s == StartBox(start)
        a == Started(acc, s)
    IN  Administer(IF EndBox(end)
                   THEN IF a.in_test THEN EndTesting(a) ELSE a
                   ELSE [Restarted(a, s) EXCEPT !.route_note = RouteBox(route)])

-----------------------------------------------------------------------------
(* A submission.                                                           *)

Fault == faults < MaxFaults /\ faults' = faults + 1

Goto(v, l)    == pc' = [pc EXCEPT ![v] = l]
Erroneous(v)  == errors' = [errors EXCEPT ![v] = TRUE]

\* The account is read; the submission of a publisher in test is tested, any
\* other one is processed (new_submission).
Fresh(v) ==
    /\ errors' = [errors EXCEPT ![v] = FALSE]
    /\ noteOf' = [noteOf EXCEPT ![v] = 0]
    /\ doomed' = [doomed EXCEPT ![v] = FALSE]

BeginTest(v) ==
    /\ pc[v] = "idle" /\ tests < MaxTests
    /\ tests' = tests + 1
    /\ \/ /\ acc.in_test
          /\ mine' = [mine EXCEPT ![v] = acc]
       \/ /\ v \in Long /\ mine[v].in_test     \* the next one in the directory
          /\ UNCHANGED mine
    /\ Goto(v, "validate") /\ Fresh(v)
    /\ UNCHANGED <<acc, recs, note, listed, changes, faults, failed>>

\* JPER.validate: no error, errors of metadata only (which do not prevent the
\* creation of a notification), or a ValidationException.  There may be no test
\* repository to route to.
Validate(v) ==
    /\ pc[v] = "validate"
    /\ \E result \in {"ok", "metadata", "critical"} :
          /\ errors' = [errors EXCEPT ![v] = result # "ok"]
          /\ \/ Goto(v, "record")
             \/ /\ result # "critical" /\ mine[v].route_note
                /\ \E n \in Note : note[n] = "none"
                /\ Goto(v, "create")
    /\ UNCHANGED <<data, noteOf, doomed, note, listed, counts, failed>>

\* create_unrouted_note: the row can be seen by the routing job.
CreateNote(v) ==
    /\ pc[v] = "create"
    /\ \E n \in Note :
          /\ note[n] = "none" /\ \A m \in 1..(n - 1) : note[m] # "none"
          /\ note' = [note EXCEPT ![n] = "unrouted"]
          /\ noteOf' = [noteOf EXCEPT ![v] = n]
    /\ Goto(v, "route")
    /\ UNCHANGED <<data, errors, doomed, listed, counts, failed>>

CreateFails(v) ==
    /\ pc[v] = "create" /\ Fault
    /\ Goto(v, "record") /\ Erroneous(v)
    /\ UNCHANGED <<data, noteOf, doomed, note, listed, tests, changes, failed>>

\* _create_routed; the row is updated by its id, if it is still there.
RouteNote(v) ==
    /\ pc[v] = "route"
    /\ note' = [note EXCEPT ![noteOf[v]] = IF @ = "deleted" THEN @ ELSE "routed"]
    /\ Goto(v, "provenance")
    /\ UNCHANGED <<data, work, listed, counts, failed>>

\* A MatchProvenance for each of the repositories.
AddProvenance(v) ==
    /\ pc[v] = "provenance"
    /\ Goto(v, "record")
    /\ UNCHANGED <<data, work, note, listed, counts, failed>>

\* An exception while routing, provenance included: "we want to delete the
\* notification".
RouteFails(v) ==
    /\ pc[v] \in {"route", "provenance"} /\ Fault
    /\ Goto(v, "record") /\ Erroneous(v)
    /\ doomed' = [doomed EXCEPT ![v] = TRUE]
    /\ UNCHANGED <<data, noteOf, note, listed, tests, changes, failed>>

\* create_test_record_and_finalise_autotest: the test record, ...
InsertRecord(v) ==
    /\ pc[v] = "record"
    /\ recs' = IF errors[v] THEN [recs EXCEPT !.err = @ + 1] ELSE [recs EXCEPT !.ok = @ + 1]
    /\ Goto(v, "account")
    /\ UNCHANGED <<acc, mine, work, note, listed, counts, failed>>

\* ... (update_test_dates_and_stats)
Counted(a, e) ==
    IF e THEN [a EXCEPT !.err = @ + 1, !.okSinceErr = 0]
    ELSE [a EXCEPT !.ok = @ + 1, !.okSinceErr = @ + 1]

\* ... and the account, the whole record as this program holds it.
SaveAccount(v) ==
    /\ pc[v] = "account"
    /\ mine' = [mine EXCEPT ![v] = Counted(@, errors[v])]
    /\ acc' = mine'[v]
    /\ Goto(v, "end")
    /\ UNCHANGED <<recs, work, note, listed, counts, failed>>

\* Mutant: it is left behind.
RemovedNever(v) == note

\* The notification that could not be routed is deleted, by its id.
Removed(v) == IF doomed[v] THEN [note EXCEPT ![noteOf[v]] = "deleted"] ELSE note

NotKept(v) == mine' = IF v \in Long THEN mine ELSE [mine EXCEPT ![v] = NewAccount]

EndTest(v) ==
    /\ pc[v] = "end"
    /\ note' = Removed(v)
    /\ Goto(v, "idle") /\ Fresh(v) /\ NotKept(v)
    /\ UNCHANGED <<acc, recs, listed, counts, failed>>

\* An exception while recording leaves out what follows, the removal included.
RecordFails(v) ==
    /\ pc[v] \in {"record", "account", "end"} /\ Fault
    /\ failed' = IF doomed[v] THEN failed \cup {noteOf[v]} ELSE failed
    /\ Goto(v, "idle") /\ Fresh(v) /\ NotKept(v)
    /\ UNCHANGED <<acc, recs, note, listed, tests, changes>>

Crash(v) ==
    /\ pc[v] # "idle" /\ Fault
    /\ failed' = IF noteOf[v] = 0 THEN failed ELSE failed \cup {noteOf[v]}
    /\ Goto(v, "idle") /\ Fresh(v)
    /\ mine' = [mine EXCEPT ![v] = NewAccount]
    /\ UNCHANGED <<acc, recs, note, listed, tests, changes>>

-----------------------------------------------------------------------------
(* The routing job, which sees the notification of a test as any other     *)
(* unrouted one: it routes it, or deletes it by its id when no repository  *)
(* matches.                                                                *)

JobReads ==
    /\ listed = {}
    /\ listed' = {n \in Note : note[n] = "unrouted"}
    /\ listed' # {}
    /\ UNCHANGED <<data, pc, work, note, counts, failed>>

JobSettles(n) ==
    /\ n \in listed
    /\ listed' = listed \ {n}
    /\ \/ note' = [note EXCEPT ![n] = "deleted"]
       \/ note' = [note EXCEPT ![n] = IF @ = "deleted" THEN @ ELSE "routed"]
    /\ UNCHANGED <<data, pc, work, counts, failed>>

-----------------------------------------------------------------------------
Next ==
    \/ GoLive
    \/ \E start, end, route \in BOOLEAN : UpdatePubTest(start, end, route)
    \/ \E v \in Validator :
          \/ BeginTest(v) \/ Validate(v)
          \/ CreateNote(v) \/ CreateFails(v)
          \/ RouteNote(v) \/ AddProvenance(v) \/ RouteFails(v)
          \/ InsertRecord(v) \/ SaveAccount(v) \/ EndTest(v)
          \/ RecordFails(v) \/ Crash(v)
    \/ JobReads \/ \E n \in Note : JobSettles(n)

Spec == Init /\ [][Next]_vars

-----------------------------------------------------------------------------
(* Properties.                                                             *)

\* The account record is in test exactly when testing has been started and not
\* ended, and notifications are created only in test; although every program that
\* saves it writes back an old copy, and administrators end and restart testing.
TestingConsistent ==
    \A a \in {acc} \cup {mine[v] : v \in Validator} :
        /\ a.in_test <=> a.start /\ ~a.end
        /\ a.route_note => a.in_test

\* The statistics on the account never count a test of which there is no record,
\* whichever copy is written back over which.
NeverOverstated ==
    \A a \in {acc} \cup {mine[v] : v \in Validator} :
        a.ok <= recs.ok /\ a.err <= recs.err /\ a.okSinceErr <= a.ok

\* A test leaves no unrouted notification behind, for the routing job to route to
\* real repositories or to delete, unless a crash or a second exception prevents it.
NothingLeftUnrouted ==
    \A n \in Note : note[n] = "unrouted" /\ n \notin failed => \E v \in Validator : noteOf[v] = n

\* num_ok and num_err are the numbers of submissions in test mode.
StatsMatchRecords ==
    (\A v \in Validator : pc[v] = "idle") /\ faults = 0
        => acc.ok = recs.ok /\ acc.err = recs.err

\* "Your account status has been changed to LIVE", and stays so.
LiveStays == [][acc.live => acc'.live]_vars

\* What is deleted is an unrouted notification.
OnlyUnroutedDeleted ==
    [][\A n \in Note : note[n] = "routed" => note'[n] # "deleted"]_vars
================================================================================
