------------------------------- MODULE FtpIngest -------------------------------
(***************************************************************************)
(* Deposits of a publisher by SFTP (router/jper/scheduler.py).  The job    *)
(* move_ftp moves what the publisher has uploaded out of his directory     *)
(* into boxes, one directory per deposit; the job process_ftp makes a      *)
(* notification of what it finds in each box and removes the box, or moves *)
(* it to the errors.  Both jobs are executed by one program, one at a      *)
(* time; the publisher uploads meanwhile, and is expected to provide a zip *)
(* file, but may provide a directory.                                      *)
(***************************************************************************)
EXTENDS Integers

CONSTANTS
    Item,          \* things the publisher uploads
    NoItem,
    Directory,     \* those that are directories
    WithExtra,     \* those that have files besides XML and PDF
    MaxFaults      \* bound: crashes, signals and failing operations

FtpAssumption ==
    /\ NoItem \notin Item
    /\ Directory \subseteq Item /\ WithExtra \subseteq Item
    /\ MaxFaults \in Nat

\* What is in a box: the zip file as uploaded, the directory a file is put into,
\* and the zip file made from a directory.  A directory is raw while it has its
\* zip file, flat when XML and PDF have been extracted and the rest packed into
\* additional-files.zip, half flat in between.
Thing == [form : {"file", "dir"}, gen : Nat, state : {"raw", "half", "flat"}]
NoThing == [form |-> "none"]

VARIABLES
    jail,       \* the publisher's directory: what has become of each item
    old,        \* items there last modified more than 30 minutes ago
    bad,        \* items without XML: no notification can be made of them
    session,    \* an SFTP session of the publisher is active
    box,        \* the box of each item: a set of things
    errors,     \* items whose box was moved to the errors
    notes,      \* how many notifications were created from an item
    told,       \* table `pub_deposit`: the outcomes recorded for an item
    pc,         \* where the program is
    listing,    \* what is left of the listing of the directory, or of boxes
    limit,      \* whether only old items are moved
    cur,        \* the box in hand
    left,       \* what is left of the listing of that box
    thing,      \* the directory in hand
    killed,     \* a signal to end has been received
    partial,    \* items moved while they were being uploaded (history)
    resumed,    \* items whose upload was taken up again (history)
    hit,        \* items in hand at a crash or a failure (history)
    faults      \* number of faults so far

upload  == <<jail, old, bad, session, resumed>>
results == <<errors, notes, told>>
program == <<pc, listing, limit, cur, left, thing, killed>>
vars == <<upload, box, results, program, partial, hit, faults>>

Jail == {"absent", "uploading", "broken", "whole", "moved"}
PC == {"idle", "check", "move", "next", "entry", "wrap", "flatten", "half", "zip", "create",
       "record", "fail", "remove", "errors"}

TypeOK ==
    /\ jail \in [Item -> Jail] /\ old \in SUBSET Item /\ bad \in SUBSET Item /\ session \in BOOLEAN
    /\ \A i \in Item : box[i] \subseteq Thing
    /\ errors \in SUBSET Item
    /\ notes \in [Item -> Nat] /\ told \in [Item -> SUBSET {"ok", "error"}]
    /\ pc \in PC /\ listing \in SUBSET Item /\ limit \in {"any", "old"}
    /\ cur \in Item \cup {NoItem} /\ left \subseteq Thing /\ thing \in Thing \cup {NoThing}
    /\ cur = NoItem <=> pc \in {"idle", "check", "move", "next"}
    /\ killed \in BOOLEAN
    /\ partial \in SUBSET Item /\ resumed \in SUBSET Item /\ hit \in SUBSET Item
    /\ faults \in Nat

Init ==
    /\ jail = [i \in Item |-> "absent"] /\ old = {} /\ bad \in SUBSET Item /\ session = FALSE
    /\ box = [i \in Item |-> {}] /\ errors = {}
    /\ notes = [i \in Item |-> 0] /\ told = [i \in Item |-> {}]
    /\ pc = "idle" /\ listing = {} /\ limit = "any"
    /\ cur = NoItem /\ left = {} /\ thing = NoThing /\ killed = FALSE
    /\ partial = {} /\ resumed = {} /\ hit = {} /\ faults = 0

Fault == faults < MaxFaults /\ faults' = faults + 1

-----------------------------------------------------------------------------
\* The publisher

Session ==
    /\ session' = ~session
    /\ jail' = [i \in Item |-> IF session /\ jail[i] = "uploading" THEN "broken" ELSE jail[i]]
    /\ UNCHANGED <<old, bad, resumed, box, results, program, partial, hit, faults>>

Upload(i) ==
    /\ session
    /\ jail[i] \in {"absent", "broken"}
    /\ jail' = [jail EXCEPT ![i] = "uploading"]
    /\ old' = old \ {i}
    /\ resumed' = IF jail[i] = "broken" THEN resumed \cup {i} ELSE resumed
    /\ UNCHANGED <<bad, session, box, results, program, partial, hit, faults>>

Uploaded(i) ==
    /\ jail[i] = "uploading"
    /\ jail' = [jail EXCEPT ![i] = "whole"]
    /\ UNCHANGED <<old, bad, session, resumed, box, results, program, partial, hit, faults>>

\* Time passes.  A file that is being written is never old, but writing to a file
\* in a directory does not change when the directory was modified.
Age(i) ==
    /\ \/ jail[i] \in {"whole", "broken"}
       \/ jail[i] = "uploading" /\ i \in Directory
    /\ old' = old \cup {i}
    /\ UNCHANGED <<jail, bad, session, resumed, box, results, program, partial, hit, faults>>

-----------------------------------------------------------------------------
\* move_ftp_from_jail_to_temp, _move_files_from_ftp_jail_dir

InJail == {i \in Item : jail[i] \in {"uploading", "broken", "whole"}}

\* The directory is listed before the session is looked for.
StartMove ==
    /\ pc = "idle"
    /\ InJail # {}
    /\ pc' = "check"
    /\ listing' = InJail
    /\ UNCHANGED <<upload, box, results, limit, cur, left, thing, killed, partial, hit, faults>>

CheckSession ==
    /\ pc = "check"
    /\ pc' = "move"
    /\ limit' = IF session THEN "old" ELSE "any"
    /\ UNCHANGED <<upload, box, results, listing, cur, left, thing, killed, partial, hit,
                   faults>>

\* Mutant: an active session is no reason to leave anything.
MayMoveAlways(i) == limit \in {"any", "old"}

MayMove(i) == limit = "any" \/ i \in old

\* moveFTPfiles.sh
MoveItem(i) ==
    /\ pc = "move"
    /\ i \in listing /\ MayMove(i)
    /\ listing' = listing \ {i}
    /\ jail' = [jail EXCEPT ![i] = "moved"]
    /\ partial' = IF jail[i] = "uploading" THEN partial \cup {i} ELSE partial
    /\ box' = [box EXCEPT ![i] = {[form |-> IF i \in Directory THEN "dir" ELSE "file",
                                   gen |-> 0, state |-> "raw"]}]
    /\ old' = old \ {i}
    /\ UNCHANGED <<bad, session, resumed, results, pc, limit, cur, left, thing, killed, hit,
                   faults>>

SkipRecent(i) ==
    /\ pc = "move"
    /\ i \in listing /\ ~MayMove(i)
    /\ listing' = listing \ {i}
    /\ UNCHANGED <<upload, box, results, pc, limit, cur, left, thing, killed, partial, hit,
                   faults>>

\* The exit status of the script is that of its last command, chown: a file that
\* could not be moved is counted as moved, and stays where it is.
MoveFails(i) ==
    /\ pc = "move"
    /\ i \in listing /\ MayMove(i)
    /\ Fault
    /\ listing' = listing \ {i}
    /\ UNCHANGED <<upload, box, results, pc, limit, cur, left, thing, killed, partial, hit>>

EndMove ==
    /\ pc = "move" /\ listing = {}
    /\ pc' = "idle" /\ limit' = "any"
    /\ UNCHANGED <<upload, box, results, listing, cur, left, thing, killed, partial, hit,
                   faults>>

-----------------------------------------------------------------------------
\* processftp

outside == <<upload, partial>>

StartProcess ==
    /\ pc = "idle"
    /\ \E i \in Item : box[i] # {}
    /\ pc' = "next"
    /\ listing' = {i \in Item : box[i] # {}}
    /\ UNCHANGED <<outside, box, results, limit, cur, left, thing, killed, hit, faults>>

TakeBox(i) ==
    /\ pc = "next" /\ ~killed
    /\ i \in listing
    /\ listing' = listing \ {i}
    /\ cur' = i /\ left' = box[i]
    /\ pc' = "entry"
    /\ UNCHANGED <<outside, box, results, limit, thing, killed, hit, faults>>

\* Mutant: the killer remembers a signal for ever.
EndProcessKilled ==
    /\ pc = "next"
    /\ killed \/ listing = {}
    /\ pc' = "idle" /\ listing' = {}
    /\ UNCHANGED <<outside, box, results, limit, cur, left, thing, killed, hit, faults>>

EndProcess ==
    /\ pc = "next"
    /\ killed \/ listing = {}
    /\ pc' = "idle" /\ listing' = {} /\ killed' = FALSE
    /\ UNCHANGED <<outside, box, results, limit, cur, left, thing, hit, faults>>

\* _create_unrouted_notification_from_ftp_deposit: "we expect only ONE item to be
\* returned by listdir", but after a crash there are more, in any order.
TakeThing(t) ==
    /\ pc = "entry"
    /\ t \in left
    /\ left' = left \ {t}
    /\ thing' = t
    /\ pc' = IF t.form = "file" THEN "wrap" ELSE "flatten"
    /\ UNCHANGED <<outside, box, results, listing, limit, cur, killed, hit, faults>>

InBox(t, u) == [box EXCEPT ![cur] = (@ \ {t}) \cup {u}]

\* A file is moved into a new directory.
Wrap ==
    /\ pc = "wrap"
    /\ thing' = [form |-> "dir", gen |-> thing.gen + 1, state |-> "raw"]
    /\ box' = InBox(thing, thing')
    /\ pc' = "flatten"
    /\ UNCHANGED <<outside, results, listing, limit, cur, left, killed, hit, faults>>

\* FTPZipFlattener takes the first zip file it finds.  If it is its own
\* additional-files.zip, this is overwritten, and is no zip file any more.
FindsOwnZip(t) == cur \in WithExtra /\ t.state \in {"half", "flat"}

BeginFlatten ==
    /\ pc = "flatten"
    /\ \/ /\ cur \in bad \/ FindsOwnZip(thing)
          /\ pc' = "fail"
          /\ UNCHANGED <<thing, box>>
       \/ /\ cur \notin bad /\ thing.state # "flat"
          /\ thing' = [thing EXCEPT !.state = "half"]
          /\ box' = InBox(thing, thing')
          /\ pc' = "half"
       \/ /\ cur \notin bad \cup WithExtra /\ thing.state = "flat"
          /\ pc' = "zip"
          /\ UNCHANGED <<thing, box>>
    /\ UNCHANGED <<outside, results, listing, limit, cur, left, killed, hit, faults>>

\* The zip file that was uploaded is deleted.
EndFlatten ==
    /\ pc = "half"
    /\ thing' = [thing EXCEPT !.state = "flat"]
    /\ box' = InBox(thing, thing')
    /\ pc' = "zip"
    /\ UNCHANGED <<outside, results, listing, limit, cur, left, killed, hit, faults>>

\* zip_directory: beside the directory
ZipDirectory ==
    /\ pc = "zip"
    /\ box' = [box EXCEPT ![cur] = @ \cup {[thing EXCEPT !.form = "file", !.state = "raw"]}]
    /\ pc' = "create"
    /\ UNCHANGED <<outside, results, listing, limit, cur, left, thing, killed, hit, faults>>

\* JPER.create_unrouted_note
CreateNote ==
    /\ pc = "create"
    /\ notes' = [notes EXCEPT ![cur] = @ + 1]
    /\ pc' = "record"
    /\ UNCHANGED <<outside, box, errors, told, listing, limit, cur, left, thing, killed, hit,
                   faults>>

RecordDeposit ==
    /\ pc = "record"
    /\ told' = [told EXCEPT ![cur] = @ \cup {"ok"}]
    /\ thing' = NoThing
    /\ pc' = "entry"
    /\ UNCHANGED <<outside, box, errors, notes, listing, limit, cur, left, killed, hit,
                   faults>>

\* Creating the notification, or recording it, fails; a DAOException may end the
\* run, as a signal does.
CreateFails ==
    /\ pc \in {"create", "record"}
    /\ Fault
    /\ hit' = hit \cup {cur}
    /\ killed' \in {killed, TRUE}
    /\ pc' = "fail"
    /\ UNCHANGED <<outside, box, results, listing, limit, cur, left, thing>>

\* _log_error_and_save_deposit_rec: the publisher is told, by email, too.
RecordFailure ==
    /\ pc = "fail"
    /\ told' = [told EXCEPT ![cur] = @ \cup {"error"}]
    /\ pc' = "errors"
    /\ UNCHANGED <<outside, box, errors, notes, listing, limit, cur, left, thing, killed, hit,
                   faults>>

\* Mutant: the box in hand is not forgotten.
DoneKeeping ==
    /\ pc' = "next"
    /\ cur' = cur /\ left' = {} /\ thing' = NoThing

Done ==
    /\ pc' = "next"
    /\ cur' = NoItem /\ left' = {} /\ thing' = NoThing

\* Mutant: the box stays.
RemoveNothing ==
    /\ pc = "entry" /\ left = {}
    /\ Done
    /\ UNCHANGED <<outside, box, results, listing, limit, killed, hit, faults>>

\* shutil.rmtree
RemoveBox ==
    /\ pc = "entry" /\ left = {}
    /\ box' = [box EXCEPT ![cur] = {}]
    /\ Done
    /\ UNCHANGED <<outside, results, listing, limit, killed, hit, faults>>

\* If not everything can be removed, what is left is moved to the errors.
RemoveFails ==
    /\ pc = "entry" /\ left = {}
    /\ Fault
    /\ hit' = hit \cup {cur}
    /\ pc' = "errors"
    /\ UNCHANGED <<outside, box, results, listing, limit, cur, left, thing, killed>>

\* Mutant: the box is removed whatever becomes of it.
RemoveBoxAnyhow ==
    /\ pc = "errors"
    /\ box' = [box EXCEPT ![cur] = {}]
    /\ Done
    /\ UNCHANGED <<outside, results, listing, limit, killed, hit, faults>>

\* _move_files_to_error_dir; if that fails the box is looked at again next time.
MoveToErrors ==
    /\ pc = "errors"
    /\ \/ /\ box' = [box EXCEPT ![cur] = {}]
          /\ errors' = errors \cup {cur}
          /\ UNCHANGED <<hit, faults>>
       \/ /\ Fault /\ hit' = hit \cup {cur} /\ UNCHANGED <<box, errors>>
    /\ Done
    /\ UNCHANGED <<outside, notes, told, listing, limit, killed>>

Signal ==
    /\ pc \notin {"idle", "check", "move"} /\ ~killed
    /\ Fault
    /\ killed' = TRUE
    /\ UNCHANGED <<outside, box, results, pc, listing, limit, cur, left, thing, hit>>

\* The program stops dead and is started again.
Crash ==
    /\ pc # "idle"
    /\ Fault
    /\ hit' = IF cur = NoItem THEN hit ELSE hit \cup {cur}
    /\ pc' = "idle" /\ listing' = {} /\ limit' = "any" /\ killed' = FALSE
    /\ cur' = NoItem /\ left' = {} /\ thing' = NoThing
    /\ UNCHANGED <<outside, box, results>>

-----------------------------------------------------------------------------
Move == CheckSession \/ EndMove \/ \E i \in Item : MoveItem(i) \/ SkipRecent(i)

Process ==
    \/ \E i \in Item : TakeBox(i)
    \/ \E t \in left : TakeThing(t)
    \/ EndProcess \/ Wrap \/ BeginFlatten \/ EndFlatten \/ ZipDirectory
    \/ CreateNote \/ RecordDeposit \/ RecordFailure \/ RemoveBox \/ MoveToErrors

Publisher == Session \/ \E i \in Item : Upload(i) \/ Uploaded(i) \/ Age(i)

Next ==
    \/ Publisher
    \/ StartMove \/ Move
    \/ StartProcess \/ Process
    \/ \E i \in Item : MoveFails(i)
    \/ CreateFails \/ RemoveFails \/ Signal \/ Crash

Spec == Init /\ [][Next]_vars

\* The jobs are executed again and again; time passes for what lies there.
FairSpec ==
    /\ Spec
    /\ WF_vars(Move \/ Process)
    /\ SF_vars(StartMove) /\ SF_vars(StartProcess)
    /\ \A i \in Item : WF_vars(jail[i] = "whole" /\ i \notin old /\ Age(i))

-----------------------------------------------------------------------------
(***************************************************************************)
(* Properties                                                              *)
(***************************************************************************)

\* Whatever crashes or fails, a deposit is in the publisher's directory, in its
\* box, among the errors, or a notification was made of it.
NothingLost ==
    \A i \in Item : jail[i] = "moved" => box[i] # {} \/ i \in errors \/ notes[i] > 0

\* One deposit makes one notification, unless it was in hand at a crash or
\* something failed; then the processing is repeated with whatever is in the box.
OneNotePerDeposit == \A i \in Item \ hit : notes[i] <= 1

\* A publisher is told of a failure, and asked to deposit again, only if there is
\* no notification, and of success only if there is one.
ToldTheTruth ==
    \A i \in Item \ hit : i # cur =>
        /\ "error" \in told[i] => notes[i] = 0 /\ i \in errors
        /\ "ok" \in told[i] => notes[i] > 0

\* A file is not moved while it is being uploaded, although the session is looked
\* for only once; save one whose upload was broken off and taken up again.
FilesMovedWhole == partial \subseteq Directory \cup resumed

\* What has been uploaded is dealt with in the end.
EventuallyDealtWith ==
    \A i \in Item : jail[i] = "whole" ~> i \in errors \/ notes[i] > 0

=============================================================================
