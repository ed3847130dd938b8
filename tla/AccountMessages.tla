---------------------------- MODULE AccountMessages ----------------------------
(***************************************************************************)
(* E-mails to the contacts of accounts, and the notes that administrators  *)
(* keep about them (jper/views/account.py, AccBulkEmail and AccNotesEmails *)
(* of shared/models/account.py).  An e-mail is sent before it is recorded; *)
(* the record of a bulk e-mail consists of a record with its text and of   *)
(* one for each of the accounts, and its status is kept in all of them;    *)
(* the errors that an e-mail lists are marked as told afterwards.  Each    *)
(* insert, update and deletion is committed on its own.  A daily job       *)
(* deletes old records of deleted messages, and old errors.  Addresses are *)
(* the accounts they belong to, subjects and texts are left out.           *)
(***************************************************************************)
EXTENDS Integers, Sequences, FiniteSets

CONSTANTS
    Request,   \* requests of administrators, and programs that send e-mails
    Acc,       \* accounts
    ErrorsOf,  \* the deposits of each account that failed
    KeepDays,  \* for how long deleted messages are kept, and errors
    MaxDay, MaxMessages, MaxChanges, MaxFaults   \* bounds: days, e-mails and notes,
                                                \* changes of status, faults

MessagesAssumption ==
    /\ KeepDays \in Nat /\ MaxDay \in Nat /\ MaxMessages \in Nat
    /\ MaxChanges \in Nat /\ MaxFaults \in Nat
    /\ IsFiniteSet(Acc) /\ DOMAIN ErrorsOf = Acc
    /\ \A a, b \in Acc : a # b => ErrorsOf[a] \cap ErrorsOf[b] = {}

Failed == UNION {ErrorsOf[a] : a \in Acc}

VARIABLES
    pc, work,  \* what each request does next, and with what
    mails,     \* the e-mails that have been sent, in their order
    bulks,     \* acc_bulk_email, by id: status and day
    rows,      \* acc_notes_emails, by id
    errors,    \* errors that are still there
    told,      \* those marked as e-mailed
    day, changes, faults,
    answered,  \* history: bulk e-mails that were answered with "Email sent"
    mixed      \* history: bulk e-mails whose records may differ in status

vars == <<pc, work, mails, bulks, rows, errors, told, day, changes, faults, answered, mixed>>

Status == {"N", "H", "R", "D"}
NoWork == [bulk |-> 0, todo |-> <<>>, errs |-> {}, status |-> "N"]
Row(acc, type, bulk, errs) ==
    [acc |-> acc, type |-> type, bulk |-> bulk, errs |-> errs, status |-> "N", day |-> day]

TypeOK ==
    /\ pc \in [Request -> {"idle", "bulk_record", "bulk_rows", "record", "mark", "rows_status"}]
    /\ \A r \in Request : work[r].bulk \in 0 .. Len(bulks) /\ work[r].errs \subseteq Failed
    /\ \A i \in DOMAIN mails : mails[i].to \subseteq Acc /\ mails[i].errs \subseteq Failed
    /\ \A b \in DOMAIN bulks : bulks[b].status \in Status \cup {"gone"} /\ bulks[b].day \in 0 .. day
    /\ \A i \in DOMAIN rows :
          /\ rows[i].acc \in Acc /\ rows[i].type \in {"N", "T", "E", "B"}
          /\ rows[i].status \in Status \cup {"gone"} /\ rows[i].bulk \in 0 .. Len(bulks)
          /\ (rows[i].bulk # 0) <=> (rows[i].type = "B")
    /\ errors \subseteq Failed /\ told \subseteq errors
    /\ day \in 0 .. MaxDay /\ changes \in 0 .. MaxChanges /\ faults \in 0 .. MaxFaults
    /\ answered \subseteq DOMAIN bulks /\ mixed \subseteq DOMAIN bulks

Init ==
    /\ pc = [r \in Request |-> "idle"] /\ work = [r \in Request |-> NoWork]
    /\ mails = <<>> /\ bulks = <<>> /\ rows = <<>>
    /\ errors = Failed /\ told = {}
    /\ day = 0 /\ changes = 0 /\ faults = 0 /\ answered = {} /\ mixed = {}

Goto(r, l) == pc' = [pc EXCEPT ![r] = l]
Do(r, w) == work' = [work EXCEPT ![r] = w]
Done(r) == Goto(r, "idle") /\ Do(r, NoWork)

-----------------------------------------------------------------------------
(* bulk_email_ajax: an e-mail to the contacts of several accounts.  cc may *)
(* be null for an account, which is found out when its record is made.     *)

MayWrite ==
    Len(mails) + Cardinality({i \in DOMAIN rows : rows[i].type \in {"N", "T"}}) < MaxMessages

MayChange == changes < MaxChanges /\ changes' = changes + 1

SendBulk(r) ==
    /\ pc[r] = "idle" /\ MayWrite
    /\ \E n \in 1 .. Cardinality(Acc) :
       \E to \in [1 .. n -> Acc], cc \in [1 .. n -> {"list", "null"}] :
          /\ \A i, j \in 1 .. n : i # j => to[i] # to[j]
          /\ mails' = Append(mails, [to |-> {to[i] : i \in 1 .. n}, errs |-> {}])
          /\ Do(r, [NoWork EXCEPT !.todo = [i \in 1 .. n |-> [acc |-> to[i], cc |-> cc[i]]]])
    /\ Goto(r, "bulk_record")
    /\ UNCHANGED <<bulks, rows, errors, told, day, changes, faults, answered, mixed>>

RecordBulk(r) ==
    /\ pc[r] = "bulk_record"
    /\ bulks' = Append(bulks, [status |-> "N", day |-> day,
                               to |-> {work[r].todo[i].acc : i \in DOMAIN work[r].todo}])
    /\ Do(r, [work[r] EXCEPT !.bulk = Len(bulks) + 1])
    /\ Goto(r, "bulk_rows")
    /\ UNCHANGED <<mails, rows, errors, told, day, changes, faults, answered, mixed>>

RecordFor(r) ==
    /\ pc[r] = "bulk_rows" /\ work[r].todo[1].cc = "list"
    /\ rows' = Append(rows, Row(work[r].todo[1].acc, "B", work[r].bulk, {}))
    /\ mixed' = IF bulks[work[r].bulk].status = "N" THEN mixed ELSE mixed \cup {work[r].bulk}
    /\ IF Len(work[r].todo) = 1
       THEN Done(r) /\ answered' = answered \cup {work[r].bulk}
       ELSE /\ Do(r, [work[r] EXCEPT !.todo = Tail(@)])
            /\ UNCHANGED <<pc, answered>>
    /\ UNCHANGED <<mails, bulks, errors, told, day, changes, faults>>

\* None + list: the request fails, for an e-mail that has been sent.
RecordForNoCc(r) ==
    /\ pc[r] = "bulk_rows" /\ work[r].todo[1].cc = "null"
    /\ Done(r)
    /\ UNCHANGED <<mails, bulks, rows, errors, told, day, changes, faults, answered, mixed>>

\* _update_status: of the text's record, by its id, and then of the others, if they are there.
Changed(record, status) ==
    [record EXCEPT !.status = IF @ = "gone" THEN @ ELSE status]

InUpdate(b) == \E r \in Request : work[r].bulk = b

UpdateBulk(r) ==
    /\ pc[r] = "idle" /\ MayChange
    /\ \E b \in DOMAIN bulks, status \in {"N", "H", "D"} :
          /\ \E i \in DOMAIN rows : rows[i].bulk = b    \* it has been listed
          /\ bulks' = [bulks EXCEPT ![b] = Changed(@, status)]
          /\ mixed' = IF InUpdate(b) \/ bulks[b].status = "gone" THEN mixed \cup {b} ELSE mixed
          /\ Do(r, [NoWork EXCEPT !.bulk = b, !.status = status])
    /\ Goto(r, "rows_status")
    /\ UNCHANGED <<mails, rows, errors, told, day, faults, answered>>

\* Mutant: the status of the records that have none yet.
UpdatedRowsOfNew(r) ==
    [i \in DOMAIN rows |->
        IF rows[i].bulk = work[r].bulk /\ rows[i].status = "N"
        THEN Changed(rows[i], work[r].status) ELSE rows[i]]

UpdatedRows(r) ==
    [i \in DOMAIN rows |->
        IF rows[i].bulk = work[r].bulk THEN Changed(rows[i], work[r].status) ELSE rows[i]]

UpdateRows(r) ==
    /\ pc[r] = "rows_status"
    /\ rows' = UpdatedRows(r)
    /\ Done(r)
    /\ UNCHANGED <<mails, bulks, errors, told, day, changes, faults, answered, mixed>>

-----------------------------------------------------------------------------
(* note_email_ajax, and AccOrg.send_email of the programs.                 *)

\* A record is changed alone, also one of a bulk e-mail.
UpdateRow ==
    /\ MayChange
    /\ \E i \in DOMAIN rows, status \in Status :
          /\ rows[i].status # "gone"
          /\ rows' = [rows EXCEPT ![i] = Changed(@, status)]
          /\ mixed' = mixed \cup ({rows[i].bulk} \ {0})
    /\ UNCHANGED <<pc, work, mails, bulks, errors, told, day, faults, answered>>

SaveNote ==
    /\ MayWrite
    /\ \E a \in Acc, type \in {"N", "T"} : rows' = Append(rows, Row(a, type, 0, {}))
    /\ UNCHANGED <<pc, work, mails, bulks, errors, told, day, changes, faults, answered, mixed>>

\* The errors were chosen on a page listing them; if one has been deleted since, nothing is
\* sent (get_formatted_errors_for_id_list).
SendEmail(r) ==
    /\ pc[r] = "idle" /\ MayWrite
    /\ \E a \in Acc : \E errs \in SUBSET ErrorsOf[a] :
          /\ errs \subseteq errors
          /\ mails' = Append(mails, [to |-> {a}, errs |-> errs])
          /\ Do(r, [NoWork EXCEPT !.todo = <<[acc |-> a, cc |-> "list"]>>, !.errs = errs])
    /\ Goto(r, "record")
    /\ UNCHANGED <<bulks, rows, errors, told, day, changes, faults, answered, mixed>>

RecordEmail(r) ==
    /\ pc[r] = "record"
    /\ rows' = Append(rows, Row(work[r].todo[1].acc, "E", 0, work[r].errs))
    /\ IF work[r].errs = {} THEN Done(r) ELSE Goto(r, "mark") /\ UNCHANGED work
    /\ UNCHANGED <<mails, bulks, errors, told, day, changes, faults, answered, mixed>>

\* One after the other, those that are still there.
MarkError(r) ==
    /\ pc[r] = "mark"
    /\ \E e \in work[r].errs :
          /\ told' = told \cup ({e} \cap errors)
          /\ IF work[r].errs = {e} THEN Done(r)
             ELSE Do(r, [work[r] EXCEPT !.errs = @ \ {e}]) /\ UNCHANGED pc
    /\ UNCHANGED <<mails, bulks, rows, errors, day, changes, faults, answered, mixed>>

-----------------------------------------------------------------------------
(* An exception or a crash; days; delete_old_data, a table at a time.      *)

Fault(r) ==
    /\ pc[r] # "idle" /\ faults < MaxFaults
    /\ faults' = faults + 1
    /\ mixed' = IF pc[r] = "rows_status" THEN mixed \cup {work[r].bulk} ELSE mixed
    /\ Done(r)
    /\ UNCHANGED <<mails, bulks, rows, errors, told, day, changes, answered>>

\* Requests end on the day they begin.
NextDay ==
    /\ day < MaxDay /\ \A r \in Request : pc[r] = "idle"
    /\ day' = day + 1
    /\ UNCHANGED <<pc, work, mails, bulks, rows, errors, told, changes, faults, answered, mixed>>

Old(record) == record.status = "D" /\ record.day + KeepDays < day

WithoutOld(table) ==
    [i \in DOMAIN table |-> IF Old(table[i]) THEN [table[i] EXCEPT !.status = "gone"] ELSE table[i]]

DeleteBulks ==
    /\ bulks' = WithoutOld(bulks)
    /\ bulks' # bulks
    /\ UNCHANGED <<pc, work, mails, rows, errors, told, day, changes, faults, answered, mixed>>

DeleteRows ==
    /\ rows' = WithoutOld(rows)
    /\ rows' # rows
    /\ UNCHANGED <<pc, work, mails, bulks, errors, told, day, changes, faults, answered, mixed>>

DeleteErrors ==
    /\ KeepDays < day /\ errors # {}
    /\ errors' = {} /\ told' = {}
    /\ UNCHANGED <<pc, work, mails, bulks, rows, day, changes, faults, answered, mixed>>

Next ==
    \/ \E r \in Request :
          \/ SendBulk(r) \/ RecordBulk(r) \/ RecordFor(r) \/ RecordForNoCc(r)
          \/ UpdateBulk(r) \/ UpdateRows(r)
          \/ SendEmail(r) \/ RecordEmail(r) \/ MarkError(r) \/ Fault(r)
    \/ UpdateRow \/ SaveNote
    \/ NextDay \/ DeleteBulks \/ DeleteRows \/ DeleteErrors

Spec == Init /\ [][Next]_vars

-----------------------------------------------------------------------------
(* Properties.                                                             *)

\* What an account's page says was sent to it was sent to it, with the errors that are said
\* to be in it; an error is marked as told only if an e-mail that lists it was recorded.
RecordsTrue ==
    /\ \A i \in DOMAIN rows : rows[i].type \in {"E", "B"} =>
          \E m \in DOMAIN mails :
             rows[i].acc \in mails[m].to /\ rows[i].errs \subseteq mails[m].errs
    /\ \A a \in Acc : \A e \in told \cap ErrorsOf[a] :
          \E i \in DOMAIN rows : rows[i].acc = a /\ e \in rows[i].errs

\* "Email sent" is the answer when each account of a bulk e-mail has its record, and it has
\* never more than one; a fault leaves accounts out of the record, to which it was sent.
BulkRecorded ==
    LET Of(b, a) == {i \in DOMAIN rows : rows[i].bulk = b /\ rows[i].acc = a}
    IN  \A b \in DOMAIN bulks, a \in Acc :
           /\ Cardinality(Of(b, a)) <= 1
           /\ Of(b, a) # {} => a \in bulks[b].to
           /\ b \in answered /\ a \in bulks[b].to => Of(b, a) # {}

\* The record of a bulk e-mail that an account's page lists has its text, which is deleted
\* no earlier than for all the accounts: their status is the same, unless an update of it is
\* under way or was interrupted, met another one or the sending, came for what had been
\* deleted, or was one of a single account's record.
TextThere ==
    \A i \in DOMAIN rows :
        LET b == rows[i].bulk
        IN  b # 0 /\ b \notin mixed /\ rows[i].status # "gone" =>
               \/ \E r \in Request : pc[r] = "rows_status" /\ work[r].bulk = b
               \/ bulks[b].status = rows[i].status
               \/ bulks[b].status = "gone" /\ rows[i].status = "D"
===============================================================================
