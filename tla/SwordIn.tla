-------------------------------- MODULE SwordIn --------------------------------
(***************************************************************************)
(* A publisher's deposit by SWORD (router/jper_sword_in/models/sword.py):  *)
(* a container, which is a record in table `pub_deposit` and a directory   *)
(* of the temporary store, is filled by one or more requests, with one zip *)
(* file or with other files, and becomes a notification when a request     *)
(* says that the deposit is complete.  The requests are served by workers, *)
(* each with its own copy of the record.                                   *)
(***************************************************************************)
EXTENDS Integers

CONSTANTS
    Worker,
    File,
    Zip,           \* those that are zip files
    NoFile,        \* the name of a container without a file
    MaxRequests,   \* bound
    MaxFaults      \* bound: crashes and failing operations

SwordInAssumption ==
    /\ Zip \subseteq File /\ NoFile \notin File
    /\ MaxRequests \in Nat /\ MaxFaults \in Nat

VARIABLES
    row,        \* the record
    files,      \* the directory: the uploads that each file holds
    parts,      \* uploads whose files lie there, extracted from a zip file
    worker,     \* what each worker is doing, with its copy of the record
    made,       \* how many notifications were made
    package,    \* the uploads in the package of the last one
    used,       \* those in the package of any (history)
    uploads,    \* number of uploads, each has a number
    dropped,    \* those that were replaced or deleted (history)
    requests,   \* number of requests
    overlapped, \* two requests were served at the same time (history)
    failed,     \* a deposit was not processed to its end (history)
    faults

store == <<files, parts>>
notes == <<made, package, used>>
history == <<overlapped, failed>>
vars == <<row, store, worker, notes, uploads, dropped, requests, history, faults>>

Record == [present : BOOLEAN, name : File \cup {NoFile}, inProgress : BOOLEAN, ok : BOOLEAN,
           error : BOOLEAN]
NoRecord == [present |-> FALSE, name |-> NoFile, inProgress |-> TRUE, ok |-> FALSE,
             error |-> FALSE]
Ops == {"add", "remove", "empty", "complete", "destroy"}
PC == {"idle", "check", "store", "name", "delete", "rename", "complete", "note", "clean",
       "save", "destroy"}
Idle == [pc |-> "idle", op |-> "destroy", file |-> NoFile, final |-> FALSE, copy |-> NoRecord,
         pkg |-> {}]

TypeOK ==
    /\ row \in Record /\ files \in [File -> SUBSET (1 .. uploads)]
    /\ parts \in SUBSET (1 .. uploads)
    /\ worker \in [Worker -> [pc : PC, op : Ops, file : File \cup {NoFile}, final : BOOLEAN,
                              copy : Record, pkg : SUBSET (1 .. uploads)]]
    /\ made \in Nat /\ package \in SUBSET (1 .. uploads) /\ used \in SUBSET (1 .. uploads)
    /\ \A w \in Worker : worker[w].pc = "idle" => worker[w] = Idle
    /\ dropped \in SUBSET (1 .. uploads)
    /\ uploads \in 0 .. MaxRequests /\ requests \in 0 .. MaxRequests
    /\ overlapped \in BOOLEAN /\ failed \in BOOLEAN /\ faults \in 0 .. MaxFaults

Init ==
    /\ row = NoRecord /\ files = [f \in File |-> {}] /\ parts = {}
    /\ worker = [w \in Worker |-> Idle]
    /\ made = 0 /\ package = {} /\ used = {}
    /\ uploads = 0 /\ dropped = {} /\ requests = 0 /\ overlapped = FALSE /\ failed = FALSE /\ faults = 0

Fault == faults < MaxFaults /\ faults' = faults + 1

Busy == {w \in Worker : worker[w].pc # "idle"}
At(w, pc) == worker[w].pc = pc
Goto(w, pc) == worker' = [worker EXCEPT ![w].pc = pc]

End(w) == worker' = [worker EXCEPT ![w] = Idle]

-----------------------------------------------------------------------------
\* A request comes in, and the record is read.

Start(w, op, f, final, first) ==
    /\ At(w, "idle") /\ requests < MaxRequests
    /\ requests' = requests + 1
    /\ overlapped' = (overlapped \/ Busy # {})
    /\ worker' = [worker EXCEPT ![w] =
         [pc |-> first, op |-> op, file |-> f, final |-> final, copy |-> row', pkg |-> {}]]
    /\ UNCHANGED <<store, notes, uploads, dropped, failed, faults>>

\* The first file comes with a new container.
CreateContainer(w, f, final) ==
    /\ ~row.present /\ requests = 0
    /\ row' = [NoRecord EXCEPT !.present = TRUE]
    /\ Start(w, "add", f, final, "check")

AddFile(w, f, final) ==
    /\ row.present /\ UNCHANGED row
    /\ Start(w, "add", f, final, "check")

DeleteContent(w, f) ==
    /\ row.present /\ UNCHANGED row
    /\ Start(w, IF f = NoFile THEN "empty" ELSE "remove", f, FALSE, "delete")

CompleteContainer(w) ==
    /\ row.present /\ UNCHANGED row
    /\ Start(w, "complete", NoFile, TRUE, "complete")

DeleteContainer(w) ==
    /\ row.present /\ UNCHANGED row
    /\ Start(w, "destroy", NoFile, FALSE, "destroy")

-----------------------------------------------------------------------------
\* add_or_replace_binary_file

Stored == {f \in File : files[f] # {}}

\* _find_any_existing_zipfile_name.  Extracted files are files, too.
HasNonZip == Stored \ Zip # {} \/ parts # {}

Allowed(f) ==
    IF f \in Zip
    THEN IF Stored \cap Zip # {} THEN Stored \cap Zip = {f} ELSE ~HasNonZip
    ELSE Stored \cap Zip = {}

\* An additional-files.zip that was left by the first processing may be taken for
\* the zip file; then no other one is accepted.
CheckFile(w) ==
    /\ At(w, "check")
    /\ \/ Allowed(worker[w].file) /\ Goto(w, "store")
       \/ ~Allowed(worker[w].file) /\ End(w)
       \/ parts # {} /\ End(w)
    /\ UNCHANGED <<row, store, notes, uploads, dropped, requests, history, faults>>

AfterStore(w) ==
    IF worker[w].final THEN Goto(w, "complete") ELSE End(w)

StoreFile(w) ==
    /\ At(w, "store")
    /\ uploads' = uploads + 1
    /\ files' = [files EXCEPT ![worker[w].file] = {uploads + 1}]
    /\ dropped' = dropped \cup files[worker[w].file]
    /\ IF worker[w].copy.name = NoFile THEN Goto(w, "name") ELSE AfterStore(w)
    /\ UNCHANGED <<row, parts, notes, requests, history, faults>>

\* record.update() writes the whole record, if it is still there.
Update(copy) == row' = IF row.present THEN copy ELSE row

NameContainer(w) ==
    /\ At(w, "name")
    /\ LET copy == [worker[w].copy EXCEPT !.name = worker[w].file]
       IN /\ Update(copy)
          /\ worker' = [worker EXCEPT ![w] =
               IF @.final THEN [@ EXCEPT !.copy = copy, !.pc = "complete"] ELSE Idle]
    /\ UNCHANGED <<store, notes, uploads, dropped, requests, history, faults>>

\* delete_content: one file, or all
DeleteFiles(w) ==
    /\ At(w, "delete")
    /\ IF worker[w].op = "empty"
       THEN files' = [f \in File |-> {}] /\ parts' = {}
       ELSE files' = [files EXCEPT ![worker[w].file] = {}] /\ UNCHANGED parts
    /\ dropped' = dropped \cup UNION {files[f] \ files'[f] : f \in File}
    /\ IF \/ worker[w].op = "empty"
          \/ worker[w].copy.name = worker[w].file /\ files[worker[w].file] # {}
       THEN Goto(w, "rename") ELSE End(w)
    /\ UNCHANGED <<row, notes, uploads, requests, history, faults>>

RenameContainer(w) ==
    /\ At(w, "rename")
    /\ \E f \in IF Stored = {} THEN {NoFile} ELSE Stored :
          Update([worker[w].copy EXCEPT !.name = f])
    /\ End(w)
    /\ UNCHANGED <<store, notes, uploads, dropped, requests, history, faults>>

\* delete: the record, then the directory
DestroyContainer(w) ==
    /\ At(w, "destroy")
    /\ row' = [row EXCEPT !.present = FALSE]
    /\ files' = [f \in File |-> {}] /\ parts' = {}
    /\ End(w)
    /\ UNCHANGED <<notes, uploads, dropped, requests, history, faults>>

-----------------------------------------------------------------------------
\* _process_completed_deposit

Completing(w) == At(w, "complete")
NotInProgress(w) == [worker[w].copy EXCEPT !.inProgress = FALSE]

Fails(w) ==
    /\ failed' = TRUE
    /\ worker' = [worker EXCEPT ![w] =
         [@ EXCEPT !.pc = "save", !.copy = [NotInProgress(w) EXCEPT !.error = TRUE]]]

Packed(w, pkg) ==
    /\ worker' = [worker EXCEPT ![w] =
         [@ EXCEPT !.pc = "note", !.copy = NotInProgress(w), !.pkg = pkg]]
    /\ UNCHANGED failed

\* The zip file is extracted, and replaced by one made of all that lies there.
FlattenZip(w) ==
    /\ Completing(w)
    /\ \E z \in Stored \cap Zip :
          /\ parts' = parts \cup files[z]
          /\ files' = [files EXCEPT ![z] = parts']
          /\ Packed(w, parts')
    /\ UNCHANGED <<row, notes, uploads, dropped, requests, overlapped, faults>>

BundleFiles(w) ==
    /\ Completing(w)
    /\ Stored # {} /\ Stored \cap Zip = {}
    /\ Packed(w, parts \cup UNION {files[f] : f \in File})
    /\ UNCHANGED <<row, store, notes, uploads, dropped, requests, overlapped, faults>>

\* There is nothing, or the additional-files.zip of an earlier attempt is taken for
\* the zip file.
NothingToProcess(w) ==
    /\ Completing(w)
    /\ Stored = {} \/ parts # {}
    /\ Fails(w)
    /\ UNCHANGED <<row, store, notes, uploads, dropped, requests, overlapped, faults>>

CreateNote(w) ==
    /\ At(w, "note")
    /\ made' = made + 1
    /\ package' = worker[w].pkg /\ used' = used \cup worker[w].pkg
    /\ worker' = [worker EXCEPT ![w] =
         [@ EXCEPT !.pc = "clean", !.copy = [worker[w].copy EXCEPT !.ok = TRUE]]]
    /\ UNCHANGED <<row, store, uploads, dropped, requests, history, faults>>

\* The deposit remains in the store, the publisher may try again.
CreateNoteFails(w) ==
    /\ At(w, "note")
    /\ Fault
    /\ Fails(w)
    /\ UNCHANGED <<row, store, notes, uploads, dropped, requests, overlapped>>

\* _delete_temp_store_container, which raises no exception
CleanContainer(w) ==
    /\ At(w, "clean")
    /\ files' = [f \in File |-> {}] /\ parts' = {}
    /\ Goto(w, "save")
    /\ UNCHANGED <<row, notes, uploads, dropped, requests, history, faults>>

\* Mutant: only a success is saved.
SaveSuccess(w) ==
    /\ At(w, "save")
    /\ IF worker[w].copy.ok THEN Update(worker[w].copy) ELSE UNCHANGED row
    /\ End(w)
    /\ UNCHANGED <<store, notes, uploads, dropped, requests, history, faults>>

\* finally: self.record.update()
SaveRecord(w) ==
    /\ At(w, "save")
    /\ Update(worker[w].copy)
    /\ End(w)
    /\ UNCHANGED <<store, notes, uploads, dropped, requests, history, faults>>

Crash(w) ==
    /\ ~At(w, "idle")
    /\ Fault
    /\ failed' = TRUE
    /\ End(w)
    /\ UNCHANGED <<row, store, notes, uploads, dropped, requests, overlapped>>

-----------------------------------------------------------------------------
Begin(w) ==
    \/ \E f \in File, final \in BOOLEAN : CreateContainer(w, f, final)
    \/ \E f \in File, final \in BOOLEAN : AddFile(w, f, final)
    \/ \E f \in File \cup {NoFile} : DeleteContent(w, f)
    \/ CompleteContainer(w) \/ DeleteContainer(w)

Serve(w) ==
    \/ CheckFile(w) \/ StoreFile(w) \/ NameContainer(w)
    \/ DeleteFiles(w) \/ RenameContainer(w) \/ DestroyContainer(w)
    \/ FlattenZip(w) \/ BundleFiles(w) \/ NothingToProcess(w)
    \/ CreateNote(w) \/ CleanContainer(w) \/ SaveRecord(w)

\* Requests that only read are served at any time.
ReadContainer == Busy = {} /\ UNCHANGED vars

Next ==
    \/ \E w \in Worker : Begin(w) \/ Serve(w) \/ CreateNoteFails(w) \/ Crash(w)
    \/ ReadContainer

Spec == Init /\ [][Next]_vars

-----------------------------------------------------------------------------
(***************************************************************************)
(* Properties                                                              *)
(***************************************************************************)

\* The record tells the publisher whether there is a notification, also after
\* an attempt that failed.  When requests overlap or are broken off a notification
\* may be missing from it, but it never tells of one that was not made.
RecordTellsTruth ==
    /\ row.ok => made > 0
    /\ row.present /\ Busy = {} /\ ~overlapped /\ faults = 0 =>
          /\ row.ok <=> made > 0
          /\ row.inProgress => made = 0 /\ ~failed

\* A notification has nothing in it that the publisher had replaced or deleted, nor
\* what is in an earlier notification already, however often he says that the
\* deposit is complete, unless an attempt to process the deposit failed before (what
\* that extracted stays), or requests overlapped.
PackageIsCurrent ==
    \A w \in Worker : At(w, "note") /\ ~failed /\ ~overlapped =>
        worker[w].pkg \cap (dropped \cup used) = {}

=============================================================================
