------------------------------ MODULE ApiRequests ------------------------------
(***************************************************************************)
(* Submissions by API: one notification, with or without a package, or a   *)
(* list of them, or either of these for validation only                    *)
(* (jper/views/webapi.py).  Of each submission of a publisher a record of  *)
(* its deposit and a copy in the temporary archive are kept, whether or    *)
(* not it succeeds.  Requests are served at the same time by several       *)
(* processes.                                                              *)
(*                                                                         *)
(* An item of a list is [id, doc, valid]; what is there instead of an      *)
(* object has neither id nor document.  A request for one notification has *)
(* one item, whose document is None if it cannot be read; a document       *)
(* "empty" is one without article metadata, and "array" is JSON but not an *)
(* object.                                                                 *)
(***************************************************************************)
EXTENDS Integers, FiniteSets, Sequences, Functions

CONSTANTS
    Request,      \* names of requests
    Submissions,  \* what they may ask: [what, acc, items]
    MaxFaults     \* bound: failures of database, program and archive

VARIABLES
    asked,        \* what each asks
    pc,           \* where each request is
    at,           \* the item in hand
    rec,          \* deposit_record
    success, failed, created, lastError,   \* the answer that is being prepared
    answer,       \* what has been answered
    notes,        \* notifications, in the order of their ids: [by, item]
    records,      \* deposit records, in the order of their ids
    archive,      \* directories of the temporary archive: id of the record, or 0 -> document
    tests,        \* requests of which there is a record of a test
    faults        \* requests that met a failure, with their numbers

handling == <<rec, success, failed, created, lastError>>
kept == <<notes, records, archive, tests>>
vars == <<asked, pc, at, handling, answer, kept, faults>>

None == "none"
What == {"list", "single", "validate", "validate_list"}
Items(q) == asked[q].items
Item(q) == Items(q)[at[q]]
IsPublisher(q) == asked[q].acc \in {"publisher", "in_test", "inactive"}
NoRec == [note |-> 0, ok |-> FALSE, error |-> FALSE, id |-> 0, abend |-> FALSE]

Waiting == [status |-> 0]

\* A document without article metadata is not valid.
RequestsAssumption ==
    /\ MaxFaults \in Nat
    /\ \A s \in Submissions :
          /\ s.what \in What /\ s.items \in Seq(Range(s.items))
          /\ s.what \in {"single", "validate"} => Len(s.items) = 1
          /\ \A i \in DOMAIN s.items :
                s.items[i].valid \in BOOLEAN /\ (s.items[i].doc = "empty" => ~s.items[i].valid)

TypeOK ==
    /\ asked \in [Request -> Submissions]
    /\ pc \in [Request -> {"start", "create", "archive", "record", "answered", "dead"}]
    /\ \A q \in Request : at[q] \in 1 .. Len(Items(q)) + 1
    /\ \A n \in Range(notes) : n.by \in Request /\ n.item \in 1 .. Len(Items(n.by))
    /\ \A r \in Range(records) : r.note \in 0 .. Len(notes)
    /\ DOMAIN archive \subseteq 0 .. Len(records) /\ tests \subseteq Request
    /\ faults \in [Request -> 0 .. MaxFaults]

Init ==
    /\ asked \in [Request -> Submissions] /\ pc = [q \in Request |-> "start"] /\ at = [q \in Request |-> 1]
    /\ rec = [q \in Request |-> NoRec] /\ answer = [q \in Request |-> Waiting]
    /\ success = [q \in Request |-> <<>>] /\ failed = success /\ created = success
    /\ lastError = [q \in Request |-> FALSE]
    /\ notes = <<>> /\ records = <<>> /\ archive = <<>> /\ tests = {}
    /\ faults = [q \in Request |-> 0]

-----------------------------------------------------------------------------
(* Who may ask what (the decorators of jper/security.py).                  *)

Refusal(acc, what) ==
    CASE acc = "anonymous" -> 401
      [] acc = "repository" -> 403
      [] acc = "inactive" /\ what \in {"list", "single"} -> 403
      [] acc = "in_test" /\ what \in {"list", "single"} -> 403
      [] OTHER -> 0

Answered(q, given) ==
    pc' = [pc EXCEPT ![q] = "answered"] /\ answer' = [answer EXCEPT ![q] = given]
Only(status) == [status |-> status]
Fault(q) ==
    /\ \A p \in Request : faults[p] < MaxFaults
    /\ faults' = [faults EXCEPT ![q] = @ + 1]
Goto(q, step) == pc' = [pc EXCEPT ![q] = step]

Start(q) ==
    /\ pc[q] = "start"
    /\ IF Refusal(asked[q].acc, asked[q].what) # 0
       THEN Answered(q, Only(Refusal(asked[q].acc, asked[q].what)))
       ELSE Goto(q, "create") /\ UNCHANGED answer
    /\ UNCHANGED <<asked, at, handling, kept, faults>>

-----------------------------------------------------------------------------
(* A request for validation.  Items of a list are validated until one is   *)
(* not valid.  A document that is no object ends the validation of a       *)
(* single one with an exception, that is ignored, before a record is made. *)

Valid(q) == \A i \in DOMAIN Items(q) : Items(q)[i].valid
NoObject(q) == asked[q].what = "validate" /\ Item(q).doc = "array"

Validation(q) == IF NoObject(q) \/ Valid(q) THEN 200 ELSE 400

Validate(q) ==
    /\ pc[q] = "create" /\ asked[q].what \in {"validate", "validate_list"}
    /\ Answered(q, Only(Validation(q)))
    /\ tests' = tests \cup {p \in {q} : ~NoObject(p)}
    /\ UNCHANGED <<asked, at, handling, notes, records, archive, faults>>

-----------------------------------------------------------------------------
(* A request for the creation of notifications.                            *)

\* Mutant: the status is that of the last item.
ReportOfLast(q) ==
    [status |-> IF lastError[q] THEN 202 ELSE 201, success |-> success[q],
     failed |-> failed[q], created |-> created[q], lastError |-> lastError[q]]

\* What a list says when it has come to its end; the last two are for publishers only.
Report(q) ==
    [status |-> IF failed[q] = <<>> THEN 201 ELSE 202, success |-> success[q],
     failed |-> failed[q], created |-> IF IsPublisher(q) THEN created[q] ELSE <<>>,
     lastError |-> IsPublisher(q) /\ lastError[q]]

Finish(q) ==
    /\ pc[q] = "create" /\ asked[q].what = "list" /\ at[q] > Len(Items(q))
    /\ Answered(q, Report(q))
    /\ UNCHANGED <<asked, at, handling, kept, faults>>

Creating(q) == pc[q] = "create" /\ asked[q].what \in {"list", "single"} /\ at[q] <= Len(Items(q))
\* What comes after the creation: a list archives first and records then.
After(q, archived) ==
    IF ~IsPublisher(q) THEN "record"
    ELSE IF asked[q].what = "list" /\ archived THEN "archive" ELSE "record"

\* What is not useful is created before that is found.
Useful(item) == item.doc # "empty"
Create(q) ==
    /\ Creating(q)
    /\ Item(q).valid \/ (asked[q].what = "single" /\ Item(q).doc = "empty")
    /\ notes' = Append(notes, [by |-> q, item |-> at[q]])
    /\ IF Useful(Item(q))
       THEN /\ rec' = [rec EXCEPT ![q] = [NoRec EXCEPT !.ok = TRUE, !.note = Len(notes')]]
            /\ success' = [success EXCEPT ![q] = Append(@, Item(q).id)]
            /\ created' = [created EXCEPT ![q] = Append(@, Len(notes'))]
       ELSE /\ rec' = [rec EXCEPT ![q] = [NoRec EXCEPT !.error = TRUE]]
            /\ UNCHANGED <<success, created>>
    /\ lastError' = [lastError EXCEPT ![q] = FALSE]
    /\ Goto(q, After(q, TRUE))
    /\ UNCHANGED <<asked, at, failed, answer, records, archive, tests, faults>>

\* It is not valid, or the database or the store fails.  The first of a list that fails
\* before one has succeeded ends it.  If the connection to the database is lost (abend),
\* the program ends, at once or, with a single request, after what is left to do.
CreateFails(q, abend) ==
    /\ Creating(q)
    /\ IF Item(q).valid THEN Fault(q) ELSE ~abend /\ UNCHANGED faults
    /\ Item(q).doc # "empty" \/ asked[q].what = "list"
    /\ IF asked[q].what = "list" /\ abend
       THEN Goto(q, "dead") /\ UNCHANGED <<rec, failed, lastError, answer>>
       ELSE IF asked[q].what = "list" /\ success[q] = <<>>
       THEN Answered(q, Only(400)) /\ UNCHANGED <<rec, failed, lastError>>
       ELSE /\ rec' = [rec EXCEPT ![q] = [NoRec EXCEPT !.error = TRUE, !.abend = abend]]
            /\ failed' = [failed EXCEPT ![q] = Append(@, Item(q).id)]
            /\ lastError' = [lastError EXCEPT ![q] = TRUE]
            /\ Goto(q, After(q, Item(q).doc # None)) /\ UNCHANGED answer
    /\ UNCHANGED <<asked, at, success, created, kept>>

\* Writing to the archive, which may fail without any consequence.
With(dirs, id, doc) == [d \in DOMAIN dirs \cup {id} |-> IF d = id THEN doc ELSE dirs[d]]
InHand(q) == [by |-> q, item |-> at[q]]
Archive(q, written) ==
    /\ pc[q] = "archive"
    /\ IF written
       THEN archive' = With(archive, rec[q].id, InHand(q)) /\ UNCHANGED faults
       ELSE Fault(q) /\ UNCHANGED archive
    /\ IF asked[q].what = "list" THEN Goto(q, "record") /\ UNCHANGED answer
       ELSE IF rec[q].abend THEN Goto(q, "dead") /\ UNCHANGED answer
       ELSE Answered(q, Only(IF rec[q].ok THEN 201 ELSE 400))
    /\ UNCHANGED <<asked, at, handling, notes, records, tests>>

\* The record is inserted; a single request is archived then.
Record(q) ==
    /\ pc[q] = "record"
    /\ records' = IF IsPublisher(q) THEN Append(records, [rec[q] EXCEPT !.id = Len(records) + 1])
                                    ELSE records
    /\ IF asked[q].what = "list"
       THEN at' = [at EXCEPT ![q] = @ + 1] /\ Goto(q, "create") /\ UNCHANGED <<rec, answer>>
       ELSE /\ UNCHANGED at
            /\ IF IsPublisher(q)
               THEN /\ rec' = [rec EXCEPT ![q].id = Len(records')]
                    /\ Goto(q, "archive") /\ UNCHANGED answer
               ELSE /\ IF rec[q].abend THEN Goto(q, "dead") /\ UNCHANGED answer
                       ELSE Answered(q, Only(IF rec[q].ok THEN 201 ELSE 400))
                    /\ UNCHANGED rec
    /\ UNCHANGED <<asked, success, failed, created, lastError, notes, archive, tests, faults>>

\* The insertion fails.  A list goes on, and so does a request that has failed anyway, the
\* archive of which then has no id; one that has created its notification does not.
RecordFails(q, abend) ==
    /\ pc[q] = "record" /\ IsPublisher(q) /\ Fault(q)
    /\ IF asked[q].what = "list"
       THEN /\ IF abend THEN Goto(q, "dead") /\ UNCHANGED at
                        ELSE at' = [at EXCEPT ![q] = @ + 1] /\ Goto(q, "create")
            /\ UNCHANGED <<rec, answer>>
       ELSE /\ UNCHANGED at
            /\ IF rec[q].ok THEN ~abend /\ Answered(q, Only(500)) /\ UNCHANGED rec
               ELSE Goto(q, "archive") /\ rec' = [rec EXCEPT ![q].abend = @ \/ abend] /\ UNCHANGED answer
    /\ UNCHANGED <<asked, success, failed, created, lastError, kept>>

Next == \E q \in Request :
    \/ Start(q) \/ Validate(q) \/ Finish(q)
    \/ Create(q) \/ Record(q)
    \/ \E bad \in BOOLEAN : CreateFails(q, bad) \/ Archive(q, ~bad) \/ RecordFails(q, bad)

Spec == Init /\ [][Next]_vars

-----------------------------------------------------------------------------
(* Properties.                                                             *)

NotesOf(q) == {n \in DOMAIN notes : notes[n].by = q}
ItemsCreated(q) == {notes[n].item : n \in NotesOf(q)}
Status(q) == answer[q].status
\* The ids of a set S of the items, in their order.
InOrder(items, ids, S) ==
    \E place \in [DOMAIN ids -> S] :
        /\ Range(place) = S
        /\ \A k, l \in DOMAIN ids : k < l => place[k] < place[l]
        /\ \A k \in DOMAIN ids : ids[k] = items[place[k]].id

\* The answer to a list says of each item what became of it, in their order: created_ids are
\* the notifications of success_ids; 201 is for all and 202 for some of them; 400 means that
\* none was created, so that the list can be sent again.
AnswersTrue ==
    \A q \in Request :
        /\ asked[q].what = "list" /\ Status(q) \in {201, 202} =>
              /\ IsPublisher(q) => Len(answer[q].created) = Len(answer[q].success)
              /\ InOrder(Items(q), answer[q].success, ItemsCreated(q))
              /\ InOrder(Items(q), answer[q].failed, DOMAIN Items(q) \ ItemsCreated(q))
              /\ \A k \in DOMAIN answer[q].created :
                    Items(q)[notes[answer[q].created[k]].item].id = answer[q].success[k]
              /\ Status(q) = 201 <=> answer[q].failed = <<>>
        /\ asked[q].what = "list" /\ Status(q) \in {400, 401, 403} => NotesOf(q) = {}
        /\ asked[q].what = "single" /\ Status(q) = 201 => Cardinality(NotesOf(q)) = 1
        /\ asked[q].what = "validate_list" /\ Status(q) = 200 => Valid(q) /\ q \in tests

\* Every notification of a publisher has one record that says so, and every failure one too,
\* also those before a program ended in a list; only where a record could not be saved, or
\* the program is just before it, is there one less.
Unrecorded(q) == {n \in NotesOf(q) : ~\E r \in Range(records) : r.note = n}
RecordsAgree ==
    /\ \A q \in Request : IsPublisher(q) =>
          LET empty == {n \in NotesOf(q) : ~Useful(Items(q)[notes[n].item])}
          IN  Cardinality(Unrecorded(q) \ empty)
                 <= faults[q] + (IF pc[q] \in {"archive", "record"} THEN 1 ELSE 0)
    /\ \A r \in Range(records) : r.ok <=> r.note # 0
    /\ \A r \in Range(records) : r.error = ~r.ok
    /\ \A k, l \in DOMAIN records : records[k].note = records[l].note /\ k # l => ~records[k].ok
    /\ \A q \in Request : ~IsPublisher(q) => \A n \in NotesOf(q) :
          ~\E r \in Range(records) : r.note = n

\* What is archived under the number of a record is the submission of which that record is.
ArchiveAgrees ==
    \A id \in DOMAIN archive \ {0} :
        IF records[id].ok THEN notes[records[id].note] = archive[id]
        ELSE asked[archive[id].by].what = "single"

\* Each submission that is recorded has its own place in the archive (_store_deposit_in_-
\* tmparchive: "tmparchive/publisher_id/api_deposit_record_id").
EachArchived ==
    (\A q \in Request : pc[q] = "answered" /\ faults[q] = 0) =>
        \A r \in Range(records) : r.ok => r.id \in DOMAIN archive

\* What is refused has not been created (create_notification: "A 400 (Bad Request) if not
\* valid").
RefusedNotCreated ==
    \A q \in Request : asked[q].what = "single" /\ Status(q) = 400 => NotesOf(q) = {}

\* What is not valid is not called valid (validate: "A 400 (Bad Request) if not valid").
ValidMeansValid ==
    \A q \in Request : asked[q].what = "validate" /\ Status(q) = 200 => Valid(q)
===============================================================================
