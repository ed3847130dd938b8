------------------------------- MODULE RecordsProofs -------------------------------
(***************************************************************************)
(* That what is recorded of e-mails to accounts and of submissions by API  *)
(* is true, that what is answered to these is true, that the contents of   *)
(* web pages are what administrators made live, and that the links of      *)
(* notifications lead to their files, however requests overlap or fail:    *)
(* by an inductive invariant of each component.                            *)
(***************************************************************************)
EXTENDS Records, SequenceTheorems, FiniteSetTheorems, TLAPS

LEMMA MessagesSpec == RecordingSpec => Messages!Spec
<1>1. RecordingInit => Messages!Init
  BY DEF RecordingInit
<1>2. [RecordingNext]_<<messageVars, pageVars, requestVars, fileVars>> =>
          [Messages!Next]_(Messages!vars)
  BY DEF RecordingNext, messageVars, Messages!vars
<1> QED BY <1>1, <1>2, PTL DEF RecordingSpec, Messages!Spec

LEMMA PagesSpec == RecordingSpec => Pages!Spec
<1>1. RecordingInit => Pages!Init
  BY DEF RecordingInit
<1>2. [RecordingNext]_<<messageVars, pageVars, requestVars, fileVars>> =>
          [Pages!Next]_(Pages!vars)
  BY DEF RecordingNext, pageVars, Pages!vars
<1> QED BY <1>1, <1>2, PTL DEF RecordingSpec, Pages!Spec

LEMMA RequestsSpec == RecordingSpec => Requests!Spec
<1>1. RecordingInit => Requests!Init
  BY DEF RecordingInit
<1>2. [RecordingNext]_<<messageVars, pageVars, requestVars, fileVars>> =>
          [Requests!Next]_(Requests!vars)
  BY DEF RecordingNext, requestVars, Requests!vars, Requests!handling, Requests!kept
<1> QED BY <1>1, <1>2, PTL DEF RecordingSpec, Requests!Spec

LEMMA ContentSpec == RecordingSpec => Content!Spec
<1>1. RecordingInit => Content!Init
  BY DEF RecordingInit
<1>2. [RecordingNext]_<<messageVars, pageVars, requestVars, fileVars>> =>
          [Content!Next]_(Content!vars)
  BY DEF RecordingNext, fileVars, Content!vars
<1> QED BY <1>1, <1>2, PTL DEF RecordingSpec, Content!Spec

\* Of finite sets, in the component's words.
LEMMA Counting ==
    /\ \A S : Messages!Cardinality(S) = Cardinality(S)
    /\ \A S : Messages!IsFiniteSet(S) <=> IsFiniteSet(S)
    /\ \A S : Requests!Cardinality(S) = Cardinality(S)
  BY DEF Messages!Cardinality, Cardinality, Messages!IsFiniteSet, IsFiniteSet,
         Requests!Cardinality, Requests!IsFiniteSet

-----------------------------------------------------------------------------
(* AccountMessages: records of e-mails and notes (jper/views/account.py).  *)

AnyStatus == Messages!Status \cup {"gone"}
BulkItem == [acc : Contacted, cc : {"list", "null"}]
MessageWork == [bulk : Nat, todo : Seq(BulkItem), errs : SUBSET Messages!Failed,
    status : Messages!Status]
MailRecord == [to : SUBSET Contacted, errs : SUBSET Messages!Failed]
BulkRecord == [status : AnyStatus, day : Nat, to : SUBSET Contacted]
RowRecord == [acc : Contacted, type : {"N", "T", "E", "B"}, bulk : Nat,
    errs : SUBSET Messages!Failed,
              status : AnyStatus, day : Nat]
MessagePlaces == {"idle", "bulk_record", "bulk_rows", "record", "mark", "rows_status"}

MessageTypes ==
    /\ messageAt \in [Administrator -> MessagePlaces] /\ work \in [Administrator -> MessageWork]
    /\ mails \in Seq(MailRecord) /\ bulks \in Seq(BulkRecord) /\ rows \in Seq(RowRecord)
    /\ \A b \in DOMAIN bulks : bulks[b].day <= messageDay
    /\ \A i \in DOMAIN rows :
          rows[i].bulk <= Len(bulks) /\ ((rows[i].bulk # 0) <=> (rows[i].type = "B"))
    /\ errors \subseteq Messages!Failed /\ errorsTold \subseteq errors
    /\ messageDay \in Nat /\ messageDay <= MessageDays
    /\ changes \in 0 .. ChangeLimit /\ messageFaultCount \in 0 .. MessageFaults
    /\ answered \subseteq DOMAIN bulks /\ mixed \subseteq DOMAIN bulks
    /\ \A r \in Administrator :
          /\ work[r].bulk <= Len(bulks)
          /\ messageAt[r] \in {"bulk_rows", "rows_status"} => work[r].bulk # 0
          /\ messageAt[r] \in {"bulk_record", "bulk_rows", "record", "mark"} =>
                 work[r].todo # <<>>
          /\ messageAt[r] \in {"record", "mark"} =>
                work[r].errs \subseteq DepositsFailed[work[r].todo[1].acc]

\* What the sequences and their elements are.
LEMMA MessageTables ==
    ASSUME MessageTypes
    PROVE  /\ mails \in Seq(MailRecord) /\ DOMAIN mails = 1 .. Len(mails) /\ Len(mails) \in Nat
           /\ \A m \in DOMAIN mails : mails[m] \in MailRecord
           /\ bulks \in Seq(BulkRecord) /\ DOMAIN bulks = 1 .. Len(bulks) /\ Len(bulks) \in Nat
           /\ \A b \in DOMAIN bulks : bulks[b] \in BulkRecord
           /\ rows \in Seq(RowRecord) /\ DOMAIN rows = 1 .. Len(rows) /\ Len(rows) \in Nat
           /\ \A i \in DOMAIN rows : rows[i] \in RowRecord
<1>1. mails \in Seq(MailRecord) /\ bulks \in Seq(BulkRecord) /\ rows \in Seq(RowRecord)
  BY DEF MessageTypes
<1>2. DOMAIN mails = 1 .. Len(mails) /\ Len(mails) \in Nat
          /\ \A m \in DOMAIN mails : mails[m] \in MailRecord
  BY <1>1, LenProperties
<1>3. DOMAIN bulks = 1 .. Len(bulks) /\ Len(bulks) \in Nat
          /\ \A b \in DOMAIN bulks : bulks[b] \in BulkRecord
  BY <1>1, LenProperties
<1>4. DOMAIN rows = 1 .. Len(rows) /\ Len(rows) \in Nat
          /\ \A i \in DOMAIN rows : rows[i] \in RowRecord
  BY <1>1, LenProperties
<1> QED BY <1>1, <1>2, <1>3, <1>4

LEMMA AfterAppend ==
    ASSUME NEW S, NEW table \in Seq(S), NEW x \in S
    PROVE  /\ Append(table, x) \in Seq(S) /\ Len(Append(table, x)) = Len(table) + 1
           /\ DOMAIN Append(table, x) = 1 .. Len(table) + 1 /\ Len(table) \in Nat
           /\ DOMAIN table = 1 .. Len(table)
           /\ Append(table, x)[Len(table) + 1] = x
           /\ \A i \in DOMAIN table : Append(table, x)[i] = table[i]
  BY AppendProperties, LenProperties

LEMMA NoWorkTyped == Messages!NoWork \in MessageWork /\ Messages!NoWork.bulk = 0
  BY DEF Messages!NoWork, MessageWork, Messages!Status

LEMMA InitMessageTypes == ASSUME Messages!MessagesAssumption, Messages!Init PROVE MessageTypes
<1>1. work \in [Administrator -> MessageWork] /\ \A r \in Administrator : work[r].bulk = 0
  BY NoWorkTyped DEF Messages!Init
<1> QED BY <1>1 DEF Messages!Init, MessageTypes, Messages!MessagesAssumption, MessagePlaces

-----------------------------------------------------------------------------
(* The tables change by one record more, or in the status of records.      *)

\* Only the status of records changes.
SameButStatus(table, new) ==
    /\ DOMAIN new = DOMAIN table /\ Len(new) = Len(table)
    /\ \A i \in DOMAIN table :
          /\ new[i].status \in AnyStatus
          /\ \A f \in DOMAIN table[i] \ {"status"} : new[i][f] = table[i][f]

BulksChanged == SameButStatus(bulks, bulks') /\ bulks' \in Seq(BulkRecord)
RowsChanged == SameButStatus(rows, rows') /\ rows' \in Seq(RowRecord)

LEMMA BulksSame ==
    ASSUME MessageTypes, BulksChanged
    PROVE  \A b \in DOMAIN bulks : bulks'[b].day = bulks[b].day /\ bulks'[b].to = bulks[b].to
  BY MessageTables DEF BulksChanged, SameButStatus, BulkRecord

LEMMA RowsSame ==
    ASSUME MessageTypes, RowsChanged
    PROVE  \A i \in DOMAIN rows :
              /\ rows'[i].acc = rows[i].acc /\ rows'[i].type = rows[i].type
              /\ rows'[i].bulk = rows[i].bulk /\ rows'[i].errs = rows[i].errs
              /\ rows'[i].day = rows[i].day
  BY MessageTables DEF RowsChanged, SameButStatus, RowRecord

LEMMA BulkUpdated ==
    ASSUME MessageTypes, NEW b \in DOMAIN bulks, NEW status \in Messages!Status,
           bulks' = [bulks EXCEPT ![b] = Messages!Changed(@, status)]
    PROVE  /\ BulksChanged
           /\ bulks'[b].status = IF bulks[b].status = "gone" THEN "gone" ELSE status
           /\ \A c \in DOMAIN bulks : c # b => bulks'[c] = bulks[c]
<1> DEFINE new == [bulks[b] EXCEPT !.status = IF @ = "gone" THEN @ ELSE status]
<1>1. bulks[b] \in BulkRecord /\ new \in BulkRecord /\ b \in 1 .. Len(bulks)
          /\ bulks \in Seq(BulkRecord)
      /\ new.status = (IF bulks[b].status = "gone" THEN "gone" ELSE status)
      /\ new.status \in AnyStatus
      /\ DOMAIN bulks[b] = {"status", "day", "to"}
      /\ new.day = bulks[b].day /\ new.to = bulks[b].to
  BY MessageTables DEF BulkRecord, AnyStatus
<1>2. bulks' = [bulks EXCEPT ![b] = new]
  BY DEF Messages!Changed
<1> HIDE DEF new
<1>3. bulks' \in Seq(BulkRecord) /\ Len(bulks') = Len(bulks) /\ DOMAIN bulks' = DOMAIN bulks
  BY <1>1, <1>2, ExceptSeq
<1>4. bulks'[b] = new /\ \A c \in DOMAIN bulks : c # b => bulks'[c] = bulks[c]
  BY <1>1, <1>2
<1>5. \A c \in DOMAIN bulks : bulks[c].status \in AnyStatus
  BY MessageTables DEF BulkRecord
<1> QED BY <1>1, <1>3, <1>4, <1>5 DEF BulksChanged, SameButStatus

LEMMA RowUpdated ==
    ASSUME MessageTypes, NEW i \in DOMAIN rows, NEW status \in Messages!Status,
           rows' = [rows EXCEPT ![i] = Messages!Changed(@, status)]
    PROVE  RowsChanged /\ \A j \in DOMAIN rows : j # i => rows'[j] = rows[j]
<1> DEFINE new == [rows[i] EXCEPT !.status = IF @ = "gone" THEN @ ELSE status]
<1>1. rows[i] \in RowRecord /\ new \in RowRecord /\ i \in 1 .. Len(rows)
          /\ rows \in Seq(RowRecord)
      /\ new.status \in AnyStatus
      /\ DOMAIN rows[i] = {"acc", "type", "bulk", "errs", "status", "day"}
      /\ new.acc = rows[i].acc /\ new.type = rows[i].type /\ new.bulk = rows[i].bulk
      /\ new.errs = rows[i].errs /\ new.day = rows[i].day
  BY MessageTables DEF RowRecord, AnyStatus
<1>2. rows' = [rows EXCEPT ![i] = new]
  BY DEF Messages!Changed
<1> HIDE DEF new
<1>3. rows' \in Seq(RowRecord) /\ Len(rows') = Len(rows) /\ DOMAIN rows' = DOMAIN rows
  BY <1>1, <1>2, ExceptSeq
<1>4. rows'[i] = new /\ \A c \in DOMAIN rows : c # i => rows'[c] = rows[c]
  BY <1>1, <1>2
<1>5. \A c \in DOMAIN rows : rows[c].status \in AnyStatus
  BY MessageTables DEF RowRecord
<1> QED BY <1>1, <1>3, <1>4, <1>5 DEF RowsChanged, SameButStatus

LEMMA RowsOfBulkUpdated ==
    ASSUME MessageTypes, NEW r \in Administrator, rows' = Messages!UpdatedRows(r)
    PROVE  /\ RowsChanged
           /\ \A i \in DOMAIN rows : rows'[i].status =
                 IF rows[i].bulk = work[r].bulk /\ rows[i].status # "gone"
                 THEN work[r].status ELSE rows[i].status
<1> DEFINE new(i) == IF rows[i].bulk = work[r].bulk THEN Messages!Changed(rows[i], work[r].status)
                     ELSE rows[i]
<1>1. work[r].status \in Messages!Status
  BY DEF MessageTypes, MessageWork
<1>2. ASSUME NEW i \in DOMAIN rows
      PROVE  /\ new(i) \in RowRecord /\ new(i).status \in AnyStatus
             /\ \A f \in DOMAIN rows[i] \ {"status"} : new(i)[f] = rows[i][f]
             /\ new(i).status = IF rows[i].bulk = work[r].bulk /\ rows[i].status # "gone"
                               THEN work[r].status ELSE rows[i].status
  <2>1. rows[i] \in RowRecord
    BY MessageTables
  <2> QED BY <1>1, <2>1 DEF Messages!Changed, RowRecord, AnyStatus
<1>3. rows' = [i \in 1 .. Len(rows) |-> new(i)]
  BY MessageTables DEF Messages!UpdatedRows
<1> HIDE DEF new
<1>4. DOMAIN rows' = DOMAIN rows /\ Len(rows') = Len(rows) /\ rows' \in Seq(RowRecord)
      /\ \A i \in DOMAIN rows : rows'[i] = new(i)
  BY <1>2, <1>3, MessageTables
<1> QED BY <1>2, <1>4 DEF RowsChanged, SameButStatus

LEMMA OldRowsDeleted ==
    ASSUME MessageTypes, rows' = Messages!WithoutOld(rows)
    PROVE  /\ RowsChanged
           /\ \A i \in DOMAIN rows :
                 rows'[i].status = IF Messages!Old(rows[i]) THEN "gone" ELSE rows[i].status
<1> DEFINE new(i) == IF Messages!Old(rows[i]) THEN [rows[i] EXCEPT !.status = "gone"] ELSE rows[i]
<1>1. ASSUME NEW i \in DOMAIN rows
      PROVE  /\ new(i) \in RowRecord /\ new(i).status \in AnyStatus
             /\ \A f \in DOMAIN rows[i] \ {"status"} : new(i)[f] = rows[i][f]
             /\ new(i).status = IF Messages!Old(rows[i]) THEN "gone" ELSE rows[i].status
  <2>1. rows[i] \in RowRecord
    BY MessageTables
  <2> QED BY <2>1 DEF RowRecord, AnyStatus
<1>2. rows' = [i \in 1 .. Len(rows) |-> new(i)]
  BY MessageTables DEF Messages!WithoutOld
<1> HIDE DEF new
<1>3. DOMAIN rows' = DOMAIN rows /\ Len(rows') = Len(rows) /\ rows' \in Seq(RowRecord)
      /\ \A i \in DOMAIN rows : rows'[i] = new(i)
  BY SMTT(60), <1>1, <1>2, MessageTables
<1> QED BY <1>1, <1>3 DEF RowsChanged, SameButStatus

LEMMA OldBulksDeleted ==
    ASSUME MessageTypes, bulks' = Messages!WithoutOld(bulks)
    PROVE  /\ BulksChanged
           /\ \A b \in DOMAIN bulks :
                 bulks'[b].status = IF Messages!Old(bulks[b]) THEN "gone" ELSE bulks[b].status
<1> DEFINE new(b) ==
              IF Messages!Old(bulks[b]) THEN [bulks[b] EXCEPT !.status = "gone"] ELSE bulks[b]
<1>1. ASSUME NEW b \in DOMAIN bulks
      PROVE  /\ new(b) \in BulkRecord /\ new(b).status \in AnyStatus
             /\ \A f \in DOMAIN bulks[b] \ {"status"} : new(b)[f] = bulks[b][f]
             /\ new(b).status = IF Messages!Old(bulks[b]) THEN "gone" ELSE bulks[b].status
  <2>1. bulks[b] \in BulkRecord
    BY MessageTables
  <2> QED BY <2>1 DEF BulkRecord, AnyStatus
<1>2. bulks' = [b \in 1 .. Len(bulks) |-> new(b)]
  BY MessageTables DEF Messages!WithoutOld
<1> HIDE DEF new
<1>3. DOMAIN bulks' = DOMAIN bulks /\ Len(bulks') = Len(bulks) /\ bulks' \in Seq(BulkRecord)
      /\ \A b \in DOMAIN bulks : bulks'[b] = new(b)
  BY <1>1, <1>2, MessageTables
<1> QED BY <1>1, <1>3 DEF BulksChanged, SameButStatus

\* What is being done: the types of what a request has in hand.
Doing(r) ==
    /\ messageAt[r] \in MessagePlaces /\ work[r] \in MessageWork
    /\ work[r].bulk <= Len(bulks)
    /\ messageAt[r] \in {"bulk_rows", "rows_status"} => work[r].bulk # 0
    /\ messageAt[r] \in {"bulk_record", "bulk_rows", "record", "mark"} => work[r].todo # <<>>
    /\ messageAt[r] \in {"record", "mark"} =>
          work[r].errs \subseteq DepositsFailed[work[r].todo[1].acc]

LEMMA InHand ==
    ASSUME MessageTypes
    PROVE  /\ messageAt \in [Administrator -> MessagePlaces]
           /\ work \in [Administrator -> MessageWork]
           /\ \A r \in Administrator : Doing(r) /\ messageAt[r] \in MessagePlaces
                  /\ work[r] \in MessageWork
  BY DEF MessageTypes, Doing

\* Which bulk e-mails the records name.
LEMMA BulkNamed ==
    ASSUME MessageTypes
    PROVE  /\ \A i \in DOMAIN rows :
                 /\ rows[i].bulk \in 0 .. Len(bulks) /\ rows[i].bulk <= Len(bulks)
                 /\ (rows[i].bulk # 0) <=> (rows[i].type = "B")
           /\ \A b \in DOMAIN bulks : bulks[b].day <= messageDay
           /\ messageDay \in Nat /\ answered \subseteq DOMAIN bulks
           /\ mixed \subseteq DOMAIN bulks
<1>1. \A i \in DOMAIN rows : rows[i].bulk \in Nat
  BY MessageTables DEF RowRecord
<1> QED BY <1>1, MessageTables DEF MessageTypes

LEMMA Bounds ==
    ASSUME MessageTypes
    PROVE  /\ errors \subseteq Messages!Failed /\ errorsTold \subseteq errors
           /\ changes \in 0 .. ChangeLimit /\ messageFaultCount \in 0 .. MessageFaults
  BY DEF MessageTypes

\* The accounts that an e-mail has still to be recorded for.
LEMMA TodoItems ==
    ASSUME MessageTypes, NEW r \in Administrator
    PROVE  /\ work[r].todo \in Seq(BulkItem) /\ DOMAIN work[r].todo = 1 .. Len(work[r].todo)
           /\ Len(work[r].todo) \in Nat
           /\ \A i \in DOMAIN work[r].todo : work[r].todo[i] \in BulkItem
                  /\ work[r].todo[i].acc \in Contacted
           /\ work[r].todo # <<>> =>
                 /\ Len(work[r].todo) # 0 /\ 1 \in DOMAIN work[r].todo
                 /\ Tail(work[r].todo) \in Seq(BulkItem)
                 /\ Len(Tail(work[r].todo)) = Len(work[r].todo) - 1
                 /\ DOMAIN Tail(work[r].todo) = 1 .. Len(work[r].todo) - 1
                 /\ \A i \in DOMAIN Tail(work[r].todo) :
                       Tail(work[r].todo)[i] = work[r].todo[i + 1]
                 /\ Len(work[r].todo) # 1 => Tail(work[r].todo) # <<>>
<1> DEFINE todo == work[r].todo
<1>1. todo \in Seq(BulkItem)
  BY InHand DEF MessageWork
<1> HIDE DEF todo
<1>2. DOMAIN todo = 1 .. Len(todo) /\ Len(todo) \in Nat
          /\ \A i \in DOMAIN todo : todo[i] \in BulkItem
  BY <1>1, LenProperties
<1>3. ASSUME todo # <<>>
      PROVE  /\ Len(todo) # 0 /\ Tail(todo) \in Seq(BulkItem) /\ Len(Tail(todo)) = Len(todo) - 1
             /\ DOMAIN Tail(todo) = 1 .. Len(todo) - 1
             /\ \A i \in DOMAIN Tail(todo) : Tail(todo)[i] = todo[i + 1]
             /\ Len(todo) # 1 => Tail(todo) # <<>>
  <2>1. Len(todo) # 0
    BY <1>1, <1>3, EmptySeq
  <2>2. Tail(todo) \in Seq(BulkItem) /\ Len(Tail(todo)) = Len(todo) - 1
        /\ \A i \in 1 .. Len(Tail(todo)) : Tail(todo)[i] = todo[i + 1]
    BY <1>1, <1>3, HeadTailProperties
  <2>3. DOMAIN Tail(todo) = 1 .. Len(todo) - 1
    BY <2>2, LenProperties
  <2>4. Len(todo) # 1 => Tail(todo) # <<>>
    <3>1. Tail(todo) # <<>> \/ Len(Tail(todo)) = 0
      BY <2>2, EmptySeq
    <3>2. Len(todo) # 1 => Len(Tail(todo)) # 0
      BY <1>2, <2>2
    <3> QED BY <3>1, <3>2
  <2> QED BY <2>1, <2>2, <2>3, <2>4
<1>4. \A i \in DOMAIN todo : todo[i].acc \in Contacted
  BY <1>2 DEF BulkItem
<1> QED BY <1>1, <1>2, <1>3, <1>4 DEF todo

\* Who records a bulk e-mail, or updates its records, has it in hand.
LEMMA AtWork ==
    ASSUME MessageTypes, NEW r \in Administrator
    PROVE  /\ work[r] \in MessageWork /\ Doing(r) /\ work[r].bulk \in 0 .. Len(bulks)
           /\ messageAt[r] \in {"bulk_rows", "rows_status"} =>
                 work[r].bulk \in DOMAIN bulks /\ work[r].bulk \in 1 .. Len(bulks)
           /\ messageAt[r] \in {"bulk_record", "bulk_rows", "record", "mark"} =>
                  work[r].todo # <<>>
<1>1. work[r] \in MessageWork /\ Doing(r) /\ work[r].bulk \in Nat /\ work[r].bulk <= Len(bulks)
  BY InHand DEF MessageWork, Doing
<1>2. DOMAIN bulks = 1 .. Len(bulks) /\ Len(bulks) \in Nat
  BY MessageTables
<1> QED BY <1>1, <1>2 DEF Doing

LEMMA MessageTypesKept ==
    ASSUME Messages!MessagesAssumption, MessageTypes, 
           mails' \in Seq(MailRecord), bulks' \in Seq(BulkRecord), rows' \in Seq(RowRecord),
           Len(bulks') >= Len(bulks), messageDay' = messageDay,
           \A b \in DOMAIN bulks' : bulks'[b].day <= messageDay,
           \A i \in DOMAIN rows' :
              rows'[i].bulk <= Len(bulks') /\ ((rows'[i].bulk # 0) <=> (rows'[i].type = "B")),
           errors' \subseteq Messages!Failed, errorsTold' \subseteq errors',
           changes' \in 0 .. ChangeLimit, messageFaultCount' \in 0 .. MessageFaults,
           answered' \subseteq DOMAIN bulks', mixed' \subseteq DOMAIN bulks',
           messageAt' \in [Administrator -> MessagePlaces],
               work' \in [Administrator -> MessageWork],
           NEW r \in Administrator, Doing(r)',
           \A q \in Administrator : q # r => messageAt'[q] = messageAt[q] /\ work'[q] = work[q]
    PROVE  MessageTypes'
<1>1. Len(bulks) \in Nat /\ Len(bulks') \in Nat /\ \A q \in Administrator : work[q].bulk \in Nat
  BY MessageTables, LenProperties DEF MessageTypes, MessageWork
<1>2. \A q \in Administrator : Doing(q)
  BY InHand
<1>3. ASSUME NEW q \in Administrator PROVE Doing(q)'
  <2>1. CASE q = r
    BY <2>1
  <2>2. CASE q # r
    <3>1. Doing(q) /\ messageAt'[q] = messageAt[q] /\ work'[q] = work[q]
      BY <1>2, <2>2
    <3>2. work[q].bulk <= Len(bulks) /\ work[q].bulk \in Nat
      BY <1>1, <3>1 DEF Doing
    <3>3. work[q].bulk <= Len(bulks')
      BY <1>1, <3>2
    <3> QED BY <3>1, <3>3 DEF Doing
  <2> QED BY <2>1, <2>2
<1> QED BY <1>3 DEF MessageTypes, Doing

\* Where a request is done, or goes on with what it has.
LEMMA DoneTyped ==
    ASSUME MessageTypes, NEW r \in Administrator, Messages!Done(r), Len(bulks') \in Nat
    PROVE  /\ messageAt' \in [Administrator -> MessagePlaces]
           /\ work' \in [Administrator -> MessageWork] /\ Doing(r)'
           /\ messageAt'[r] = "idle" /\ work'[r] = Messages!NoWork
           /\ \A q \in Administrator : q # r => messageAt'[q] = messageAt[q] /\ work'[q] = work[q]
<1>1. messageAt' = [messageAt EXCEPT ![r] = "idle"]
          /\ work' = [work EXCEPT ![r] = Messages!NoWork]
  BY DEF Messages!Done, Messages!Goto, Messages!Do
<1>2. messageAt'[r] = "idle" /\ work'[r] = Messages!NoWork
  BY <1>1 DEF MessageTypes
<1>3. Doing(r)'
  BY <1>2, NoWorkTyped DEF Doing, MessagePlaces
<1> QED BY <1>1, <1>2, <1>3, NoWorkTyped DEF MessageTypes, MessagePlaces

\* What remains of the types when a table has one record more, or other statuses.
LEMMA BulksChangedTyped ==
    ASSUME MessageTypes, BulksChanged
    PROVE  /\ bulks' \in Seq(BulkRecord) /\ Len(bulks') = Len(bulks)
           /\ DOMAIN bulks' = DOMAIN bulks
           /\ \A b \in DOMAIN bulks' : bulks'[b].day <= messageDay
  BY BulksSame DEF BulksChanged, SameButStatus, MessageTypes

LEMMA RowsChangedTyped ==
    ASSUME MessageTypes, RowsChanged
    PROVE  /\ rows' \in Seq(RowRecord)
           /\ \A i \in DOMAIN rows' :
              rows'[i].bulk <= Len(bulks) /\ ((rows'[i].bulk # 0) <=> (rows'[i].type = "B"))
  BY RowsSame DEF RowsChanged, SameButStatus, MessageTypes

LEMMA RowAdded ==
    ASSUME MessageTypes, NEW a \in Contacted, NEW type \in {"N", "T", "E", "B"},
        NEW b \in 0 .. Len(bulks),
           (b # 0) <=> (type = "B"), NEW errs \in SUBSET Messages!Failed,
           rows' = Append(rows, Messages!Row(a, type, b, errs))
    PROVE  /\ rows' \in Seq(RowRecord) /\ DOMAIN rows' = 1 .. Len(rows) + 1
           /\ DOMAIN rows' = DOMAIN rows \cup {Len(rows) + 1} /\ Len(rows) + 1 \notin DOMAIN rows
           /\ rows'[Len(rows) + 1] = Messages!Row(a, type, b, errs)
           /\ \A i \in DOMAIN rows : rows'[i] = rows[i]
           /\ \A i \in DOMAIN rows' :
              rows'[i].bulk <= Len(bulks) /\ ((rows'[i].bulk # 0) <=> (rows'[i].type = "B"))
<1> DEFINE row == Messages!Row(a, type, b, errs)
<1>1. row \in RowRecord /\ row.bulk = b /\ row.type = type
  BY MessageTables, BulkNamed DEF Messages!Row, RowRecord, AnyStatus, Messages!Status
<1> HIDE DEF row
<1>2. rows' = Append(rows, row) /\ rows \in Seq(RowRecord)
  BY MessageTables DEF row
<1>3. /\ rows' \in Seq(RowRecord) /\ DOMAIN rows' = 1 .. Len(rows) + 1 /\ Len(rows) \in Nat
      /\ DOMAIN rows = 1 .. Len(rows) /\ rows'[Len(rows) + 1] = row
      /\ \A i \in DOMAIN rows : rows'[i] = rows[i]
  BY <1>1, <1>2, AfterAppend
<1>4. \A i \in DOMAIN rows :
         rows[i].bulk <= Len(bulks) /\ ((rows[i].bulk # 0) <=> (rows[i].type = "B"))
  BY DEF MessageTypes
<1>5. DOMAIN rows' = DOMAIN rows \cup {Len(rows) + 1} /\ Len(rows) + 1 \notin DOMAIN rows
  BY <1>3
<1>6. ASSUME NEW i \in DOMAIN rows'
      PROVE  rows'[i].bulk <= Len(bulks) /\ ((rows'[i].bulk # 0) <=> (rows'[i].type = "B"))
  BY <1>1, <1>3, <1>4, <1>5
<1> QED BY <1>3, <1>5, <1>6 DEF row

\* Steps that leave the e-mails, bulk e-mails, accounts' records and errors alone.
LEMMA MessageTypesStep ==
    ASSUME Messages!MessagesAssumption, MessageTypes, [Messages!Next]_(Messages!vars)
    PROVE  MessageTypes'
<1>1. ASSUME NEW r \in Administrator, Messages!SendBulk(r) PROVE MessageTypes'
  <2>1. PICK n \in 1 .. Messages!Cardinality(Contacted) :
           \E to \in [1 .. n -> Contacted], cc \in [1 .. n -> {"list", "null"}] :
              /\ mails' = Append(mails, [to |-> {to[i] : i \in 1 .. n}, errs |-> {}])
              /\ Messages!Do(r, [Messages!NoWork EXCEPT
                        !.todo = [i \in 1 .. n |-> [acc |-> to[i], cc |-> cc[i]]]])
    BY <1>1 DEF Messages!SendBulk
  <2>2. PICK to \in [1 .. n -> Contacted], cc \in [1 .. n -> {"list", "null"}] :
              /\ mails' = Append(mails, [to |-> {to[i] : i \in 1 .. n}, errs |-> {}])
              /\ Messages!Do(r, [Messages!NoWork EXCEPT
                        !.todo = [i \in 1 .. n |-> [acc |-> to[i], cc |-> cc[i]]]])
    BY <2>1
  <2> DEFINE todo == [i \in 1 .. n |-> [acc |-> to[i], cc |-> cc[i]]]
  <2>3. Messages!Cardinality(Contacted) \in Nat /\ n \in Nat /\ n # 0
    BY FS_CardinalityType, Counting DEF Messages!MessagesAssumption
  <2>4. todo \in Seq(BulkItem) /\ todo # <<>>
    <3>1. \A i \in 1 .. n : [acc |-> to[i], cc |-> cc[i]] \in BulkItem
      BY DEF BulkItem
    <3>2. todo \in Seq(BulkItem)
      BY <2>3, <3>1
    <3>3. DOMAIN todo = 1 .. n /\ 1 \in 1 .. n
      BY <2>3
    <3> HIDE DEF todo
    <3>4. DOMAIN <<>> = {}
      OBVIOUS
    <3> QED BY <3>2, <3>3, <3>4
  <2> HIDE DEF todo
  <2>5. [Messages!NoWork EXCEPT !.todo = todo] \in MessageWork
            /\ [Messages!NoWork EXCEPT !.todo = todo].todo # <<>>
        /\ [Messages!NoWork EXCEPT !.todo = todo].bulk = 0
    BY <2>4 DEF Messages!NoWork, MessageWork, Messages!Status
  <2>6. messageAt' = [messageAt EXCEPT ![r] = "bulk_record"]
            /\ work' = [work EXCEPT ![r] = [Messages!NoWork EXCEPT !.todo = todo]]
    BY <1>1, <2>2 DEF Messages!SendBulk, Messages!Goto, Messages!Do, todo
  <2>7. Doing(r)' /\ messageAt' \in [Administrator -> MessagePlaces]
            /\ work' \in [Administrator -> MessageWork]
        /\ \A q \in Administrator : q # r => messageAt'[q] = messageAt[q] /\ work'[q] = work[q]
    <3>1. UNCHANGED bulks /\ Len(bulks) \in Nat
      BY <1>1, MessageTables DEF Messages!SendBulk
    <3> QED BY <2>5, <2>6, <3>1, InHand DEF Doing, MessagePlaces
  <2>8. [to |-> {to[i] : i \in 1 .. n}, errs |-> {}] \in MailRecord
    BY <2>2 DEF MailRecord
  <2>9. mails' \in Seq(MailRecord)
    BY <2>2, <2>8, AfterAppend DEF MessageTypes
  <2>10. UNCHANGED <<bulks, rows, errors, errorsTold, messageDay, changes, messageFaultCount,
             answered, mixed>>
    BY <1>1 DEF Messages!SendBulk
  <2> QED BY <2>7, <2>9, <2>10, MessageTables, BulkNamed, Bounds, MessageTypesKept
<1>2. ASSUME NEW r \in Administrator, Messages!RecordBulk(r) PROVE MessageTypes'
  <2> DEFINE to == {work[r].todo[i].acc : i \in DOMAIN work[r].todo}
             record == [status |-> "N", day |-> messageDay, to |-> to]
  <2>1. work[r] \in MessageWork /\ work[r].todo # <<>> /\ messageAt[r] = "bulk_record"
    BY <1>2 DEF Messages!RecordBulk, MessageTypes
  <2>2. to \subseteq Contacted
    <3>1. \A i \in DOMAIN work[r].todo : work[r].todo[i].acc \in Contacted
      BY TodoItems
    <3> QED BY <3>1
  <2>3. record \in BulkRecord /\ record.day = messageDay
    BY <2>2, BulkNamed DEF BulkRecord, AnyStatus, Messages!Status
  <2> HIDE DEF record
  <2>4. bulks' = Append(bulks, record) /\ messageAt' = [messageAt EXCEPT ![r] = "bulk_rows"]
        /\ work' = [work EXCEPT ![r] = [work[r] EXCEPT !.bulk = Len(bulks) + 1]]
        /\ UNCHANGED <<mails, rows, errors, errorsTold, messageDay, changes,
               messageFaultCount, answered, mixed>>
    BY <1>2 DEF Messages!RecordBulk, Messages!Goto, Messages!Do, record
  <2>5. /\ bulks' \in Seq(BulkRecord) /\ Len(bulks') = Len(bulks) + 1 /\ Len(bulks) \in Nat
        /\ DOMAIN bulks' = 1 .. Len(bulks) + 1 /\ DOMAIN bulks = 1 .. Len(bulks)
        /\ bulks'[Len(bulks) + 1] = record
        /\ \A b \in DOMAIN bulks : bulks'[b] = bulks[b]
    <3>1. bulks \in Seq(BulkRecord)
      BY MessageTables
    <3> QED BY <2>3, <2>4, <3>1, AfterAppend
  <2>6. \A b \in DOMAIN bulks' : bulks'[b].day <= messageDay
    BY <2>3, <2>5, BulkNamed
  <2>7. Doing(r)' /\ messageAt' \in [Administrator -> MessagePlaces]
            /\ work' \in [Administrator -> MessageWork]
        /\ \A q \in Administrator : q # r => messageAt'[q] = messageAt[q] /\ work'[q] = work[q]
    <3>1. [work[r] EXCEPT !.bulk = Len(bulks) + 1] \in MessageWork
          /\ [work[r] EXCEPT !.bulk = Len(bulks) + 1].bulk = Len(bulks) + 1
          /\ [work[r] EXCEPT !.bulk = Len(bulks) + 1].todo = work[r].todo
      BY SMTT(60), <2>1, <2>5 DEF MessageWork
    <3>2. /\ messageAt'[r] = "bulk_rows" /\ work'[r] = [work[r] EXCEPT !.bulk = Len(bulks) + 1]
          /\ \A q \in Administrator : q # r => messageAt'[q] = messageAt[q] /\ work'[q] = work[q]
          /\ messageAt' \in [Administrator -> MessagePlaces]
          /\ work' \in [Administrator -> MessageWork]
      BY <2>4, <3>1, InHand DEF MessagePlaces
    <3> QED BY <2>1, <2>5, <3>1, <3>2 DEF Doing, MessagePlaces
  <2>9. \A i \in DOMAIN rows' :
           rows'[i].bulk <= Len(bulks') /\ ((rows'[i].bulk # 0) <=> (rows'[i].type = "B"))
    BY <2>4, <2>5, BulkNamed
  <2>10. answered' \subseteq DOMAIN bulks' /\ mixed' \subseteq DOMAIN bulks'
    BY SMTT(60), <2>4, <2>5, BulkNamed
  <2> QED BY <2>4, <2>5, <2>6, <2>7, <2>9, <2>10, MessageTables, Bounds, MessageTypesKept
<1>3. ASSUME NEW r \in Administrator, Messages!RecordFor(r) PROVE MessageTypes'
  <2>1. work[r] \in MessageWork /\ work[r].todo # <<>> /\ messageAt[r] = "bulk_rows" /\ Doing(r)
        /\ work[r].bulk \in DOMAIN bulks /\ work[r].bulk \in 1 .. Len(bulks)
    BY <1>3, AtWork DEF Messages!RecordFor
  <2>2. work[r].todo \in Seq(BulkItem) /\ work[r].todo[1].acc \in Contacted
            /\ {} \in SUBSET Messages!Failed
    BY <2>1, TodoItems
  <2>3. rows' = Append(rows, Messages!Row(work[r].todo[1].acc, "B", work[r].bulk, {}))
        /\ UNCHANGED <<mails, bulks, errors, errorsTold, messageDay, changes, messageFaultCount>>
        /\ mixed' \subseteq mixed \cup {work[r].bulk}
        /\ answered' \subseteq answered \cup {work[r].bulk}
    BY SMTT(60), <1>3 DEF Messages!RecordFor
  <2>4. /\ rows' \in Seq(RowRecord)
        /\ \A i \in DOMAIN rows' :
              rows'[i].bulk <= Len(bulks) /\ ((rows'[i].bulk # 0) <=> (rows'[i].type = "B"))
    <3>1. work[r].bulk \in 0 .. Len(bulks) /\ ((work[r].bulk # 0) <=> ("B" = "B"))
      BY <2>1, MessageTables
    <3> QED BY <2>2, <2>3, <3>1, RowAdded
  <2>5. Doing(r)' /\ messageAt' \in [Administrator -> MessagePlaces]
            /\ work' \in [Administrator -> MessageWork]
        /\ \A q \in Administrator : q # r => messageAt'[q] = messageAt[q] /\ work'[q] = work[q]
    <3>1. CASE Len(work[r].todo) = 1
      BY <1>3, <2>3, <3>1, DoneTyped, MessageTables DEF Messages!RecordFor
    <3>2. CASE Len(work[r].todo) # 1
      <4>1. work' = [work EXCEPT ![r] = [work[r] EXCEPT !.todo = Tail(work[r].todo)]]
                /\ messageAt' = messageAt
        BY <1>3, <3>2 DEF Messages!RecordFor, Messages!Do
      <4>2. Tail(work[r].todo) \in Seq(BulkItem)
            /\ Tail(work[r].todo) # <<>>
        BY <2>1, <3>2, TodoItems
      <4>3. [work[r] EXCEPT !.todo = Tail(work[r].todo)] \in MessageWork
            /\ [work[r] EXCEPT !.todo = Tail(work[r].todo)].todo # <<>>
            /\ [work[r] EXCEPT !.todo = Tail(work[r].todo)].bulk = work[r].bulk
        BY <2>1, <4>2 DEF MessageWork
      <4>4. /\ work'[r] = [work[r] EXCEPT !.todo = Tail(work[r].todo)]
            /\ messageAt'[r] = "bulk_rows"
            /\ \A q \in Administrator : q # r =>
                   messageAt'[q] = messageAt[q] /\ work'[q] = work[q]
            /\ messageAt' \in [Administrator -> MessagePlaces]
            /\ work' \in [Administrator -> MessageWork]
        BY <2>1, <4>1, <4>3, InHand
      <4> QED BY <2>1, <2>3, <4>3, <4>4 DEF Doing
    <3> QED BY <3>1, <3>2
  <2> QED BY <2>1, <2>3, <2>4, <2>5, MessageTables, BulkNamed, Bounds, MessageTypesKept
<1>4. ASSUME NEW r \in Administrator, Messages!RecordForNoCc(r) PROVE MessageTypes'
  <2>1. UNCHANGED <<mails, bulks, rows, errors, errorsTold, messageDay, changes,
            messageFaultCount, answered, mixed>>
        /\ Messages!Done(r)
    BY <1>4 DEF Messages!RecordForNoCc
  <2> QED BY <2>1, DoneTyped, MessageTables, BulkNamed, Bounds, MessageTypesKept
<1>5. ASSUME NEW r \in Administrator, Messages!UpdateBulk(r) PROVE MessageTypes'
  <2>1. PICK b \in DOMAIN bulks, status \in {"N", "H", "D"} :
           /\ bulks' = [bulks EXCEPT ![b] = Messages!Changed(@, status)]
           /\ mixed' = IF Messages!InUpdate(b)
                  \/ bulks[b].status = "gone" THEN mixed \cup {b} ELSE mixed
           /\ Messages!Do(r, [Messages!NoWork EXCEPT !.bulk = b, !.status = status])
    BY <1>5 DEF Messages!UpdateBulk
  <2>2. BulksChanged
    BY <2>1, BulkUpdated DEF Messages!Status
  <2>3. UNCHANGED <<mails, rows, errors, errorsTold, messageDay, messageFaultCount, answered>>
        /\ changes' = changes + 1 /\ changes < ChangeLimit
    BY <1>5 DEF Messages!UpdateBulk, Messages!MayChange
  <2> DEFINE new == [Messages!NoWork EXCEPT !.bulk = b, !.status = status]
  <2>4. new \in MessageWork /\ new.bulk = b /\ b \in 1 .. Len(bulks)
    <3>1. b \in 1 .. Len(bulks) /\ b \in Nat
      BY MessageTables
    <3>2. Messages!NoWork \in MessageWork /\ status \in Messages!Status
              /\ DOMAIN Messages!NoWork = {"bulk", "todo", "errs", "status"}
      BY NoWorkTyped DEF Messages!NoWork, Messages!Status
    <3> QED BY <3>1, <3>2 DEF MessageWork
  <2>5. messageAt' = [messageAt EXCEPT ![r] = "rows_status"] /\ work' = [work EXCEPT ![r] = new]
    BY <1>5, <2>1 DEF Messages!UpdateBulk, Messages!Goto, Messages!Do
  <2> HIDE DEF new
  <2>6. /\ work'[r] = new /\ messageAt'[r] = "rows_status"
        /\ \A q \in Administrator : q # r => messageAt'[q] = messageAt[q] /\ work'[q] = work[q]
        /\ messageAt' \in [Administrator -> MessagePlaces]
        /\ work' \in [Administrator -> MessageWork]
    BY <2>4, <2>5, InHand DEF MessagePlaces
  <2>7. Len(bulks') = Len(bulks) /\ Len(bulks) \in Nat /\ DOMAIN bulks' = DOMAIN bulks
    BY <2>2, BulksChangedTyped, MessageTables
  <2>8. Doing(r)'
    BY <2>4, <2>6, <2>7 DEF Doing, MessagePlaces
  <2>9. changes' \in 0 .. ChangeLimit
    BY <2>3 DEF MessageTypes, Messages!MessagesAssumption
  <2>10. mixed' \subseteq DOMAIN bulks' /\ answered' \subseteq DOMAIN bulks'
    BY <2>1, <2>3, <2>7, BulkNamed
  <2>11. \A i \in DOMAIN rows' :
            rows'[i].bulk <= Len(bulks') /\ ((rows'[i].bulk # 0) <=> (rows'[i].type = "B"))
    BY <2>3, <2>7, BulkNamed
  <2> QED BY <2>2, <2>3, <2>6, <2>7, <2>8, <2>9, <2>10, <2>11, BulksChangedTyped, MessageTables,
             Bounds, MessageTypesKept
<1>6. ASSUME NEW r \in Administrator, Messages!UpdateRows(r) PROVE MessageTypes'
  <2>1. UNCHANGED <<mails, bulks, errors, errorsTold, messageDay, changes, messageFaultCount,
            answered, mixed>>
        /\ Messages!Done(r) /\ rows' = Messages!UpdatedRows(r)
    BY <1>6 DEF Messages!UpdateRows
  <2> QED BY <2>1, RowsOfBulkUpdated, RowsChangedTyped, DoneTyped, MessageTables, BulkNamed,
             Bounds, MessageTypesKept
<1>7. ASSUME Messages!UpdateRow PROVE MessageTypes'
  <2>1. PICK i \in DOMAIN rows, status \in Messages!Status :
           rows' = [rows EXCEPT ![i] = Messages!Changed(@, status)]
               /\ mixed' = mixed \cup ({rows[i].bulk} \ {0})
    BY <1>7 DEF Messages!UpdateRow
  <2>2. RowsChanged
    BY <2>1, RowUpdated
  <2>3. UNCHANGED <<messageAt, work, mails, bulks, errors, errorsTold, messageDay,
            messageFaultCount, answered>>
        /\ changes' = changes + 1 /\ changes < ChangeLimit
    BY <1>7 DEF Messages!UpdateRow, Messages!MayChange
  <2>4. changes' \in 0 .. ChangeLimit
    BY <2>3 DEF MessageTypes, Messages!MessagesAssumption
  <2>5. mixed' \subseteq DOMAIN bulks
    BY <2>1, BulkNamed, MessageTables
  <2>6. /\ rows' \in Seq(RowRecord)
        /\ \A j \in DOMAIN rows' :
              rows'[j].bulk <= Len(bulks) /\ ((rows'[j].bulk # 0) <=> (rows'[j].type = "B"))
    BY <2>2, RowsChangedTyped
  <2> QED BY <2>3, <2>4, <2>5, <2>6 DEF MessageTypes
<1>8. ASSUME Messages!SaveNote PROVE MessageTypes'
  <2>1. PICK a \in Contacted, type \in {"N", "T"} : rows' = Append(rows, Messages!Row(a,
            type, 0, {}))
    BY <1>8 DEF Messages!SaveNote
  <2>2. UNCHANGED <<messageAt, work, mails, bulks, errors, errorsTold, messageDay, changes,
            messageFaultCount, answered, mixed>>
    BY <1>8 DEF Messages!SaveNote
  <2>3. /\ rows' \in Seq(RowRecord)
        /\ \A j \in DOMAIN rows' :
              rows'[j].bulk <= Len(bulks) /\ ((rows'[j].bulk # 0) <=> (rows'[j].type = "B"))
    <3>1. /\ type \in {"N", "T", "E", "B"} /\ type # "B" /\ 0 \in 0 .. Len(bulks)
          /\ {} \in SUBSET Messages!Failed
      BY MessageTables
    <3> QED BY <2>1, <3>1, RowAdded
  <2> QED BY <2>2, <2>3 DEF MessageTypes
<1>9. ASSUME NEW r \in Administrator, Messages!SendEmail(r) PROVE MessageTypes'
  <2>1. PICK a \in Contacted : \E errs \in SUBSET DepositsFailed[a] :
           /\ mails' = Append(mails, [to |-> {a}, errs |-> errs])
           /\ Messages!Do(r, [Messages!NoWork EXCEPT
                        !.todo = <<[acc |-> a, cc |-> "list"]>>, !.errs = errs])
    BY <1>9 DEF Messages!SendEmail
  <2>2. PICK errs \in SUBSET DepositsFailed[a] :
           /\ mails' = Append(mails, [to |-> {a}, errs |-> errs])
           /\ Messages!Do(r, [Messages!NoWork EXCEPT
                        !.todo = <<[acc |-> a, cc |-> "list"]>>, !.errs = errs])
    BY <2>1
  <2>3. errs \subseteq Messages!Failed
    BY DEF Messages!Failed
  <2>4. [to |-> {a}, errs |-> errs] \in MailRecord
    BY <2>3 DEF MailRecord
  <2>5. mails' \in Seq(MailRecord)
    BY <2>2, <2>4, MessageTables, AfterAppend
  <2> DEFINE todo == <<[acc |-> a, cc |-> "list"]>>
             new == [Messages!NoWork EXCEPT !.todo = todo, !.errs = errs]
  <2>6. todo \in Seq(BulkItem) /\ todo # <<>> /\ todo[1].acc = a
    <3>1. [acc |-> a, cc |-> "list"] \in BulkItem
      BY DEF BulkItem
    <3> QED BY <3>1
  <2>7. work' = [work EXCEPT ![r] = new] /\ messageAt' = [messageAt EXCEPT ![r] = "record"]
    BY <1>9, <2>2 DEF Messages!SendEmail, Messages!Goto, Messages!Do
  <2> HIDE DEF todo
  <2>8. new \in MessageWork /\ new.bulk = 0 /\ new.todo = todo /\ new.errs = errs
    BY <2>3, <2>6 DEF MessageWork, Messages!NoWork, Messages!Status
  <2> HIDE DEF new
  <2>9. UNCHANGED <<bulks, rows, errors, errorsTold, messageDay, changes, messageFaultCount,
            answered, mixed>>
    BY <1>9 DEF Messages!SendEmail
  <2>10. /\ work'[r] = new /\ messageAt'[r] = "record"
         /\ \A q \in Administrator : q # r => messageAt'[q] = messageAt[q] /\ work'[q] = work[q]
         /\ messageAt' \in [Administrator -> MessagePlaces]
         /\ work' \in [Administrator -> MessageWork]
    BY <2>7, <2>8, InHand DEF MessagePlaces
  <2>11. Doing(r)'
    BY SMTT(60), <2>6, <2>8, <2>9, <2>10, MessageTables DEF Doing, MessagePlaces
  <2> QED BY <2>5, <2>9, <2>10, <2>11, MessageTables, BulkNamed, Bounds, MessageTypesKept
<1>10. ASSUME NEW r \in Administrator, Messages!RecordEmail(r) PROVE MessageTypes'
  <2>1. work[r] \in MessageWork /\ work[r].todo # <<>> /\ messageAt[r] = "record" /\ Doing(r)
    BY <1>10, AtWork DEF Messages!RecordEmail
  <2>2. work[r].todo[1].acc \in Contacted /\ work[r].errs \in SUBSET Messages!Failed
            /\ 0 \in 0 .. Len(bulks)
    BY SMTT(60), <2>1, TodoItems, MessageTables DEF MessageWork
  <2>3. rows' = Append(rows, Messages!Row(work[r].todo[1].acc, "E", 0, work[r].errs))
        /\ UNCHANGED <<mails, bulks, errors, errorsTold, messageDay, changes,
               messageFaultCount, answered, mixed>>
    BY <1>10 DEF Messages!RecordEmail
  <2>4. /\ rows' \in Seq(RowRecord)
        /\ \A i \in DOMAIN rows' :
              rows'[i].bulk <= Len(bulks) /\ ((rows'[i].bulk # 0) <=> (rows'[i].type = "B"))
    BY <2>2, <2>3, RowAdded
  <2>5. Doing(r)' /\ messageAt' \in [Administrator -> MessagePlaces]
            /\ work' \in [Administrator -> MessageWork]
        /\ \A q \in Administrator : q # r => messageAt'[q] = messageAt[q] /\ work'[q] = work[q]
    <3>1. CASE work[r].errs = {}
      BY <1>10, <2>3, <3>1, DoneTyped, MessageTables DEF Messages!RecordEmail
    <3>2. CASE work[r].errs # {}
      <4>1. messageAt' = [messageAt EXCEPT ![r] = "mark"] /\ work' = work
        BY <1>10, <3>2 DEF Messages!RecordEmail, Messages!Goto
      <4> QED BY <2>1, <2>3, <4>1, InHand DEF Doing, MessagePlaces
    <3> QED BY <3>1, <3>2
  <2> QED BY <2>3, <2>4, <2>5, MessageTables, BulkNamed, Bounds, MessageTypesKept
<1>11. ASSUME NEW r \in Administrator, Messages!MarkError(r) PROVE MessageTypes'
  <2>1. PICK e \in work[r].errs :
           /\ errorsTold' = errorsTold \cup ({e} \cap errors)
           /\ IF work[r].errs = {e} THEN Messages!Done(r)
              ELSE Messages!Do(r, [work[r] EXCEPT !.errs = @ \ {e}]) /\ UNCHANGED messageAt
    BY <1>11 DEF Messages!MarkError
  <2>2. UNCHANGED <<mails, bulks, rows, errors, messageDay, changes, messageFaultCount,
            answered, mixed>>
        /\ messageAt[r] = "mark"
    BY <1>11 DEF Messages!MarkError
  <2>3. errorsTold' \subseteq errors
    BY <2>1 DEF MessageTypes
  <2>4. Doing(r)' /\ messageAt' \in [Administrator -> MessagePlaces]
            /\ work' \in [Administrator -> MessageWork]
        /\ \A q \in Administrator : q # r => messageAt'[q] = messageAt[q] /\ work'[q] = work[q]
    <3>1. CASE work[r].errs = {e}
      BY <2>1, <2>2, <3>1, DoneTyped, MessageTables
    <3>2. CASE work[r].errs # {e}
      <4> DEFINE new == [work[r] EXCEPT !.errs = @ \ {e}]
      <4>1. messageAt' = messageAt /\ work' = [work EXCEPT ![r] = new]
        BY <2>1, <3>2 DEF Messages!Do
      <4>2. work[r] \in MessageWork /\ Doing(r)
        BY InHand
      <4>3. new \in MessageWork /\ new.bulk = work[r].bulk /\ new.todo = work[r].todo
            /\ new.errs \subseteq work[r].errs
        BY <4>2 DEF MessageWork
      <4> HIDE DEF new
      <4>4. /\ work'[r] = new /\ messageAt'[r] = messageAt[r]
            /\ \A q \in Administrator : q # r =>
                   messageAt'[q] = messageAt[q] /\ work'[q] = work[q]
            /\ messageAt' \in [Administrator -> MessagePlaces]
            /\ work' \in [Administrator -> MessageWork]
        BY <4>1, <4>3, InHand
      <4>5. Doing(r)'
        BY <2>2, <4>2, <4>3, <4>4 DEF Doing
      <4> QED BY <4>4, <4>5
    <3> QED BY <3>1, <3>2
  <2> QED BY <2>2, <2>3, <2>4, MessageTables, BulkNamed, Bounds, MessageTypesKept
<1>12. ASSUME NEW r \in Administrator, Messages!Fault(r) PROVE MessageTypes'
  <2>1. UNCHANGED <<mails, bulks, rows, errors, errorsTold, messageDay, changes,
            answered>> /\ Messages!Done(r)
        /\ messageFaultCount' = messageFaultCount + 1 /\ messageFaultCount < MessageFaults
        /\ mixed' = IF messageAt[r] = "rows_status" THEN mixed \cup {work[r].bulk} ELSE mixed
    BY <1>12 DEF Messages!Fault
  <2>2. mixed' \subseteq DOMAIN bulks
    BY <2>1, InHand, BulkNamed, MessageTables DEF Doing, MessageWork
  <2>3. messageFaultCount' \in 0 .. MessageFaults
    BY <2>1 DEF MessageTypes, Messages!MessagesAssumption
  <2> QED BY <2>1, <2>2, <2>3, DoneTyped, MessageTables, BulkNamed, Bounds, MessageTypesKept
<1>13. ASSUME Messages!NextDay PROVE MessageTypes'
  <2>1. UNCHANGED <<messageAt, work, mails, bulks, rows, errors, errorsTold, changes,
            messageFaultCount, answered, mixed>>
        /\ messageDay' = messageDay + 1 /\ messageDay < MessageDays
    BY <1>13 DEF Messages!NextDay
  <2>2. \A b \in DOMAIN bulks : bulks[b].day \in Nat
    BY MessageTables DEF BulkRecord
  <2> QED BY <2>1, <2>2 DEF MessageTypes, Messages!MessagesAssumption
<1>14. ASSUME Messages!DeleteBulks PROVE MessageTypes'
  <2>1. UNCHANGED <<messageAt, work, mails, rows, errors, errorsTold, messageDay, changes,
            messageFaultCount, answered, mixed>>
        /\ bulks' = Messages!WithoutOld(bulks)
    BY <1>14 DEF Messages!DeleteBulks
  <2> QED BY <2>1, OldBulksDeleted, BulksChangedTyped DEF MessageTypes
<1>15. ASSUME Messages!DeleteRows PROVE MessageTypes'
  <2>1. UNCHANGED <<messageAt, work, mails, bulks, errors, errorsTold, messageDay, changes,
            messageFaultCount, answered, mixed>>
        /\ rows' = Messages!WithoutOld(rows)
    BY <1>15 DEF Messages!DeleteRows
  <2> QED BY <2>1, OldRowsDeleted, RowsChangedTyped DEF MessageTypes
<1>16. ASSUME Messages!DeleteErrors PROVE MessageTypes'
  BY <1>16 DEF Messages!DeleteErrors, MessageTypes
<1>17. ASSUME UNCHANGED Messages!vars PROVE MessageTypes'
  BY <1>17 DEF Messages!vars, MessageTypes
<1> QED BY <1>1, <1>2, <1>3, <1>4, <1>5, <1>6, <1>7, <1>8, <1>9, <1>10, <1>11, <1>12, <1>13,
           <1>14, <1>15, <1>16, <1>17 DEF Messages!Next

-----------------------------------------------------------------------------
(* What a step of a request leaves to the others, and of the tables.       *)

\* A request's step.
RequestStep(r) ==
    \/ Messages!SendBulk(r) \/ Messages!RecordBulk(r) \/ Messages!RecordFor(r)
    \/ Messages!RecordForNoCc(r)
    \/ Messages!UpdateBulk(r) \/ Messages!UpdateRows(r)
    \/ Messages!SendEmail(r) \/ Messages!RecordEmail(r) \/ Messages!MarkError(r)
    \/ Messages!Fault(r)

LEMMA MessageCases ==
    ASSUME [Messages!Next]_(Messages!vars)
    PROVE  \/ \E r \in Administrator : RequestStep(r)
           \/ Messages!UpdateRow \/ Messages!SaveNote \/ Messages!NextDay
           \/ Messages!DeleteBulks \/ Messages!DeleteRows \/ Messages!DeleteErrors
           \/ UNCHANGED Messages!vars
  BY DEF Messages!Next, RequestStep

LEMMA OthersWait ==
    ASSUME MessageTypes, NEW r \in Administrator, RequestStep(r)
    PROVE  \A q \in Administrator : q # r => messageAt'[q] = messageAt[q] /\ work'[q] = work[q]
<1>1. messageAt \in [Administrator -> MessagePlaces] /\ work \in [Administrator -> MessageWork]
  BY InHand
<1>2. ASSUME NEW l, Messages!Goto(r, l)
      PROVE  \A q \in Administrator : q # r => messageAt'[q] = messageAt[q]
  BY <1>1, <1>2 DEF Messages!Goto
<1>3. ASSUME NEW w, Messages!Do(r, w) PROVE \A q \in Administrator : q # r => work'[q] = work[q]
  BY <1>1, <1>3 DEF Messages!Do
<1>4. CASE Messages!SendBulk(r)
  BY <1>1, <1>4 DEF Messages!SendBulk, Messages!Goto, Messages!Do
<1>5. CASE Messages!RecordBulk(r)
  BY <1>1, <1>5 DEF Messages!RecordBulk, Messages!Goto, Messages!Do
<1>6. CASE Messages!RecordFor(r)
  BY <1>1, <1>6 DEF Messages!RecordFor, Messages!Goto, Messages!Do, Messages!Done
<1>7. CASE Messages!RecordForNoCc(r)
  BY <1>1, <1>7 DEF Messages!RecordForNoCc, Messages!Goto, Messages!Do, Messages!Done
<1>8. CASE Messages!UpdateBulk(r)
  BY <1>1, <1>8 DEF Messages!UpdateBulk, Messages!Goto, Messages!Do
<1>9. CASE Messages!UpdateRows(r)
  BY <1>1, <1>9 DEF Messages!UpdateRows, Messages!Goto, Messages!Do, Messages!Done
<1>10. CASE Messages!SendEmail(r)
  BY <1>1, <1>10 DEF Messages!SendEmail, Messages!Goto, Messages!Do
<1>11. CASE Messages!RecordEmail(r)
  BY <1>1, <1>11 DEF Messages!RecordEmail, Messages!Goto, Messages!Do, Messages!Done
<1>12. CASE Messages!MarkError(r)
  BY <1>1, <1>12 DEF Messages!MarkError, Messages!Goto, Messages!Do, Messages!Done
<1>13. CASE Messages!Fault(r)
  BY <1>1, <1>13 DEF Messages!Fault, Messages!Goto, Messages!Do, Messages!Done
<1> QED BY <1>4, <1>5, <1>6, <1>7, <1>8, <1>9, <1>10, <1>11, <1>12, <1>13 DEF RequestStep

\* A record that is added to the accounts' records, and those that were there.
Added(a, type, b, errs) == rows' = Append(rows, Messages!Row(a, type, b, errs))

LEMMA RowIs ==
    ASSUME NEW a, NEW type, NEW b, NEW errs
    PROVE  LET row == Messages!Row(a, type, b, errs)
           IN  row.acc = a /\ row.type = type /\ row.bulk = b /\ row.errs = errs
               /\ row.status = "N"
  BY DEF Messages!Row

\* The records are those there were, but for their status, or there is one more.
RowsGrow ==
    /\ DOMAIN rows \subseteq DOMAIN rows'
    /\ \A i \in DOMAIN rows :
          /\ rows'[i].acc = rows[i].acc /\ rows'[i].type = rows[i].type
          /\ rows'[i].bulk = rows[i].bulk /\ rows'[i].errs = rows[i].errs

LEMMA RowsGrowAdded ==
    ASSUME MessageTypes, NEW a, NEW type, NEW b, NEW errs, Added(a, type, b, errs)
    PROVE  /\ RowsGrow /\ DOMAIN rows' = DOMAIN rows \cup {Len(rows) + 1}
           /\ Len(rows) + 1 \notin DOMAIN rows
           /\ \A i \in DOMAIN rows : rows'[i] = rows[i]
           /\ rows'[Len(rows) + 1].acc = a /\ rows'[Len(rows) + 1].type = type
           /\ rows'[Len(rows) + 1].bulk = b /\ rows'[Len(rows) + 1].errs = errs
           /\ rows'[Len(rows) + 1].status = "N"
<1> DEFINE row == Messages!Row(a, type, b, errs)
<1>1. row.acc = a /\ row.type = type /\ row.bulk = b /\ row.errs = errs /\ row.status = "N"
  BY RowIs
<1> HIDE DEF row
<1>2. rows' = Append(rows, row) /\ rows \in Seq(RowRecord \cup {row})
          /\ row \in RowRecord \cup {row}
  BY MessageTables DEF row, Added
<1>3. /\ DOMAIN rows' = 1 .. Len(rows) + 1 /\ Len(rows) \in Nat
      /\ DOMAIN rows = 1 .. Len(rows) /\ rows'[Len(rows) + 1] = row
      /\ \A i \in DOMAIN rows : rows'[i] = rows[i]
  BY <1>2, AfterAppend
<1> QED BY <1>1, <1>3 DEF RowsGrow

LEMMA RowsGrowChanged == ASSUME MessageTypes, RowsChanged
    PROVE  RowsGrow /\ DOMAIN rows' = DOMAIN rows
  BY RowsSame DEF RowsChanged, SameButStatus, RowsGrow

\* What steps do to the records: they add one, or change the status of some.
LEMMA RowsStep ==
    ASSUME MessageTypes, [Messages!Next]_(Messages!vars)
    PROVE  \/ RowsGrow /\ DOMAIN rows' = DOMAIN rows
           \/ \E r \in Administrator : Messages!RecordFor(r) \/ Messages!RecordEmail(r)
           \/ Messages!SaveNote
<1>1. ASSUME UNCHANGED rows PROVE RowsGrow /\ DOMAIN rows' = DOMAIN rows
  BY <1>1 DEF RowsGrow
<1>2. ASSUME NEW r \in Administrator, Messages!UpdateRows(r)
      PROVE  RowsGrow /\ DOMAIN rows' = DOMAIN rows
  BY <1>2, RowsOfBulkUpdated, RowsGrowChanged DEF Messages!UpdateRows
<1>3. ASSUME Messages!UpdateRow PROVE RowsGrow /\ DOMAIN rows' = DOMAIN rows
  BY <1>3, RowUpdated, RowsGrowChanged DEF Messages!UpdateRow
<1>4. ASSUME Messages!DeleteRows PROVE RowsGrow /\ DOMAIN rows' = DOMAIN rows
  BY <1>4, OldRowsDeleted, RowsGrowChanged DEF Messages!DeleteRows
<1>5. ASSUME NEW r \in Administrator, RequestStep(r)
      PROVE  Messages!RecordFor(r) \/ Messages!RecordEmail(r) \/ Messages!UpdateRows(r)
          \/ UNCHANGED rows
  BY <1>5 DEF RequestStep, Messages!SendBulk, Messages!RecordBulk, Messages!RecordForNoCc,
              Messages!UpdateBulk, Messages!SendEmail, Messages!MarkError, Messages!Fault
<1>6. Messages!NextDay \/ Messages!DeleteBulks \/ Messages!DeleteErrors
          \/ UNCHANGED Messages!vars => UNCHANGED rows
  BY DEF Messages!NextDay, Messages!DeleteBulks, Messages!DeleteErrors, Messages!vars
<1> QED BY <1>1, <1>2, <1>3, <1>4, <1>5, <1>6, MessageCases

LEMMA MailsGrow ==
    ASSUME MessageTypes, [Messages!Next]_(Messages!vars)
    PROVE  /\ DOMAIN mails \subseteq DOMAIN mails'
           /\ \A m \in DOMAIN mails : mails'[m] = mails[m]
<1>1. ASSUME NEW x, mails' = Append(mails, x)
      PROVE  DOMAIN mails \subseteq DOMAIN mails' /\ \A m \in DOMAIN mails : mails'[m] = mails[m]
  <2>1. mails \in Seq(MailRecord \cup {x}) /\ x \in MailRecord \cup {x}
    BY SMTT(60), MessageTables
  <2> QED BY <1>1, <2>1, AfterAppend
<1>2. ASSUME NEW r \in Administrator, RequestStep(r)
      PROVE  UNCHANGED mails \/ \E x : mails' = Append(mails, x)
  BY <1>2 DEF RequestStep, Messages!SendBulk, Messages!RecordBulk, Messages!RecordFor,
              Messages!RecordForNoCc, Messages!UpdateBulk, Messages!UpdateRows,
              Messages!SendEmail, Messages!RecordEmail, Messages!MarkError, Messages!Fault
<1>3. Messages!UpdateRow \/ Messages!SaveNote \/ Messages!NextDay \/ Messages!DeleteBulks
          \/ Messages!DeleteRows \/ Messages!DeleteErrors
      \/ UNCHANGED Messages!vars => UNCHANGED mails
  BY DEF Messages!UpdateRow, Messages!SaveNote, Messages!NextDay, Messages!DeleteBulks,
         Messages!DeleteRows, Messages!DeleteErrors, Messages!vars
<1> QED BY <1>1, <1>2, <1>3, MessageCases

-----------------------------------------------------------------------------
(* What records say was sent was sent, and errors are marked when noted.   *)

\* An e-mail was sent to an account with some errors; one with them is recorded.
Sent(table, a, errs) ==
    \E m \in DOMAIN table : a \in table[m].to /\ errs \subseteq table[m].errs
Noted(table, a, errs) ==
    \E i \in DOMAIN table : table[i].acc = a /\ errs \subseteq table[i].errs

\* What a request is about to record has been sent, what it marks is recorded.
SentFor(r) ==
    /\ messageAt[r] \in {"bulk_record", "bulk_rows"} =>
          \A i \in DOMAIN work[r].todo : Sent(mails, work[r].todo[i].acc, {})
    /\ messageAt[r] = "record" => Sent(mails, work[r].todo[1].acc, work[r].errs)
    /\ messageAt[r] = "mark" => Noted(rows, work[r].todo[1].acc, work[r].errs)

RecordsInv ==
    /\ \A i \in DOMAIN rows :
          rows[i].type \in {"E", "B"} => Sent(mails, rows[i].acc, rows[i].errs)
    /\ \A r \in Administrator : SentFor(r)
    /\ \A a \in Contacted : \A e \in errorsTold \cap DepositsFailed[a] : Noted(rows, a, {e})

LEMMA SentStays ==
    ASSUME MessageTypes, [Messages!Next]_(Messages!vars)
    PROVE  \A a, errs : Sent(mails, a, errs) => Sent(mails', a, errs)
  BY MailsGrow DEF Sent

LEMMA NotedStays ==
    ASSUME RowsGrow
    PROVE  \A a, errs : Noted(rows, a, errs) => Noted(rows', a, errs)
  BY DEF Noted, RowsGrow

LEMMA RowsGrowAlways ==
    ASSUME MessageTypes, [Messages!Next]_(Messages!vars)
    PROVE  RowsGrow
<1>1. ASSUME NEW r \in Administrator, Messages!RecordFor(r) PROVE RowsGrow
  BY <1>1, RowsGrowAdded DEF Messages!RecordFor, Added
<1>2. ASSUME NEW r \in Administrator, Messages!RecordEmail(r) PROVE RowsGrow
  BY <1>2, RowsGrowAdded DEF Messages!RecordEmail, Added
<1>3. ASSUME Messages!SaveNote PROVE RowsGrow
  BY <1>3, RowsGrowAdded DEF Messages!SaveNote, Added
<1> QED BY <1>1, <1>2, <1>3, RowsStep

LEMMA RecordsStep ==
    ASSUME Messages!MessagesAssumption, MessageTypes, RecordsInv, [Messages!Next]_(Messages!vars)
    PROVE  RecordsInv'
<1>1. \A a, errs : Sent(mails, a, errs) => Sent(mails', a, errs)
  BY SentStays
<1>2. \A a, errs : Noted(rows, a, errs) => Noted(rows', a, errs)
  BY RowsGrowAlways, NotedStays
<1>3. \A i \in DOMAIN rows' :
         rows'[i].type \in {"E", "B"} => Sent(mails', rows'[i].acc, rows'[i].errs)
  <2>0. \A i \in DOMAIN rows :
           rows'[i].type \in {"E", "B"} => Sent(mails', rows'[i].acc, rows'[i].errs)
    BY <1>1, RowsGrowAlways DEF RecordsInv, RowsGrow
  <2>1. CASE DOMAIN rows' = DOMAIN rows
    BY <2>0, <2>1
  <2>2. CASE \E r \in Administrator : Messages!RecordFor(r)
    <3>1. PICK r \in Administrator : Messages!RecordFor(r)
      BY <2>2
    <3>2. Added(work[r].todo[1].acc, "B", work[r].bulk, {}) /\ messageAt[r] = "bulk_rows"
      BY <3>1 DEF Messages!RecordFor, Added
    <3>3. Sent(mails, work[r].todo[1].acc, {})
      BY <3>2, AtWork, TodoItems DEF RecordsInv, SentFor
    <3> QED BY <1>1, <2>0, <3>2, <3>3, RowsGrowAdded
  <2>3. CASE \E r \in Administrator : Messages!RecordEmail(r)
    <3>1. PICK r \in Administrator : Messages!RecordEmail(r)
      BY <2>3
    <3>2. Added(work[r].todo[1].acc, "E", 0, work[r].errs) /\ messageAt[r] = "record"
      BY <3>1 DEF Messages!RecordEmail, Added
    <3>3. Sent(mails, work[r].todo[1].acc, work[r].errs)
      BY <3>2 DEF RecordsInv, SentFor
    <3> QED BY <1>1, <2>0, <3>2, <3>3, RowsGrowAdded
  <2>4. CASE Messages!SaveNote
    <3>1. PICK a \in Contacted, type \in {"N", "T"} : Added(a, type, 0, {})
      BY <2>4 DEF Messages!SaveNote, Added
    <3> QED BY <2>0, <3>1, RowsGrowAdded
  <2> QED BY <2>1, <2>2, <2>3, <2>4, RowsStep
<1>4. ASSUME NEW r \in Administrator PROVE SentFor(r)'
  <2>0. SentFor(r)
    BY DEF RecordsInv
  <2>1. ASSUME messageAt'[r] = messageAt[r], work'[r] = work[r] PROVE SentFor(r)'
    BY <1>1, <1>2, <2>0, <2>1 DEF SentFor
  <2>2. ASSUME messageAt'[r] \in {"idle", "rows_status"} PROVE SentFor(r)'
    BY <2>2 DEF SentFor
  <2>3. CASE Messages!SendBulk(r)
    <3>1. PICK n \in 1 .. Messages!Cardinality(Contacted) :
             \E to \in [1 .. n -> Contacted], cc \in [1 .. n -> {"list", "null"}] :
                /\ mails' = Append(mails, [to |-> {to[i] : i \in 1 .. n}, errs |-> {}])
                /\ Messages!Do(r, [Messages!NoWork EXCEPT
                        !.todo = [i \in 1 .. n |-> [acc |-> to[i], cc |-> cc[i]]]])
      BY <2>3 DEF Messages!SendBulk
    <3>2. PICK to \in [1 .. n -> Contacted], cc \in [1 .. n -> {"list", "null"}] :
                /\ mails' = Append(mails, [to |-> {to[i] : i \in 1 .. n}, errs |-> {}])
                /\ Messages!Do(r, [Messages!NoWork EXCEPT
                        !.todo = [i \in 1 .. n |-> [acc |-> to[i], cc |-> cc[i]]]])
      BY <3>1
    <3> DEFINE mail == [to |-> {to[i] : i \in 1 .. n}, errs |-> {}]
               todo == [i \in 1 .. n |-> [acc |-> to[i], cc |-> cc[i]]]
    <3>3. mail.to = {to[i] : i \in 1 .. n} /\ mail.errs = {} /\ DOMAIN todo = 1 .. n
          /\ \A i \in 1 .. n : todo[i].acc = to[i]
      OBVIOUS
    <3> HIDE DEF mail, todo
    <3>4. [Messages!NoWork EXCEPT !.todo = todo].todo = todo
      BY DEF Messages!NoWork
    <3>5. work'[r].todo = todo /\ messageAt'[r] = "bulk_record"
      BY <2>3, <3>2, <3>4, InHand DEF Messages!SendBulk, Messages!Do, Messages!Goto, todo
    <3>6. mails' = Append(mails, mail) /\ mails \in Seq(MailRecord \cup {mail})
          /\ mail \in MailRecord \cup {mail}
      BY <3>2, MessageTables DEF mail
    <3>7. mails'[Len(mails) + 1] = mail /\ Len(mails) + 1 \in DOMAIN mails'
      BY <3>6, AfterAppend
    <3> QED BY <3>3, <3>5, <3>7 DEF SentFor, Sent
  <2>4. CASE Messages!RecordBulk(r)
    <3>1. messageAt[r] = "bulk_record" /\ messageAt'[r] = "bulk_rows"
              /\ work'[r].todo = work[r].todo
      BY <2>4, InHand DEF Messages!RecordBulk, Messages!Goto, Messages!Do, MessageWork
    <3> QED BY <1>1, <2>0, <3>1 DEF SentFor
  <2>5. CASE Messages!RecordFor(r)
    <3>1. CASE Len(work[r].todo) = 1
      BY <2>2, <2>5, <3>1, InHand DEF Messages!RecordFor, Messages!Done, Messages!Goto
    <3>2. CASE Len(work[r].todo) # 1
      <4>1. messageAt[r] = "bulk_rows" /\ messageAt'[r] = "bulk_rows"
                /\ work'[r].todo = Tail(work[r].todo)
        BY <2>5, <3>2, InHand DEF Messages!RecordFor, Messages!Do, MessageWork
      <4>2. \A i \in DOMAIN Tail(work[r].todo) :
               /\ i + 1 \in DOMAIN work[r].todo
               /\ Tail(work[r].todo)[i] = work[r].todo[i + 1]
        BY <4>1, AtWork, TodoItems
      <4> QED BY <1>1, <2>0, <4>1, <4>2 DEF SentFor
    <3> QED BY <3>1, <3>2
  <2>6. CASE Messages!RecordForNoCc(r) \/ Messages!UpdateRows(r) \/ Messages!Fault(r)
    BY <2>2, <2>6, InHand DEF Messages!RecordForNoCc, Messages!UpdateRows, Messages!Fault,
                              Messages!Done, Messages!Goto
  <2>7. CASE Messages!UpdateBulk(r)
    BY <2>2, <2>7, InHand DEF Messages!UpdateBulk, Messages!Goto
  <2>8. CASE Messages!SendEmail(r)
    <3>1. PICK a \in Contacted : \E errs \in SUBSET DepositsFailed[a] :
             /\ mails' = Append(mails, [to |-> {a}, errs |-> errs])
             /\ Messages!Do(r, [Messages!NoWork EXCEPT
                        !.todo = <<[acc |-> a, cc |-> "list"]>>, !.errs = errs])
      BY <2>8 DEF Messages!SendEmail
    <3>2. PICK errs \in SUBSET DepositsFailed[a] :
             /\ mails' = Append(mails, [to |-> {a}, errs |-> errs])
             /\ Messages!Do(r, [Messages!NoWork EXCEPT
                        !.todo = <<[acc |-> a, cc |-> "list"]>>, !.errs = errs])
      BY <3>1
    <3> DEFINE mail == [to |-> {a}, errs |-> errs]
               todo == <<[acc |-> a, cc |-> "list"]>>
    <3>3. mail.to = {a} /\ mail.errs = errs /\ todo[1].acc = a
      OBVIOUS
    <3> HIDE DEF mail, todo
    <3>4. [Messages!NoWork EXCEPT !.todo = todo, !.errs = errs].todo = todo
          /\ [Messages!NoWork EXCEPT !.todo = todo, !.errs = errs].errs = errs
      BY DEF Messages!NoWork
    <3>5. work'[r].todo = todo /\ work'[r].errs = errs /\ messageAt'[r] = "record"
      BY <2>8, <3>2, <3>4, InHand DEF Messages!SendEmail, Messages!Do, Messages!Goto, todo
    <3>6. mails' = Append(mails, mail) /\ mails \in Seq(MailRecord \cup {mail})
          /\ mail \in MailRecord \cup {mail}
      BY <3>2, MessageTables DEF mail
    <3>7. mails'[Len(mails) + 1] = mail /\ Len(mails) + 1 \in DOMAIN mails'
      BY <3>6, AfterAppend
    <3> QED BY <3>3, <3>5, <3>7 DEF SentFor, Sent
  <2>9. CASE Messages!RecordEmail(r)
    <3>1. CASE work[r].errs = {}
      BY <2>2, <2>9, <3>1, InHand DEF Messages!RecordEmail, Messages!Done, Messages!Goto
    <3>2. CASE work[r].errs # {}
      <4>1. messageAt'[r] = "mark" /\ work'[r] = work[r]
            /\ Added(work[r].todo[1].acc, "E", 0, work[r].errs)
        BY <2>9, <3>2, InHand DEF Messages!RecordEmail, Messages!Goto, Added
      <4>2. Noted(rows', work[r].todo[1].acc, work[r].errs)
        BY <4>1, RowsGrowAdded DEF Noted
      <4> QED BY <4>1, <4>2 DEF SentFor
    <3> QED BY <3>1, <3>2
  <2>10. CASE Messages!MarkError(r)
    <3>1. PICK e \in work[r].errs :
             IF work[r].errs = {e} THEN Messages!Done(r)
             ELSE Messages!Do(r, [work[r] EXCEPT !.errs = @ \ {e}]) /\ UNCHANGED messageAt
      BY <2>10 DEF Messages!MarkError
    <3>2. CASE work[r].errs = {e}
      BY <2>2, <3>1, <3>2, InHand DEF Messages!Done, Messages!Goto
    <3>3. CASE work[r].errs # {e}
      <4>1. work' = [work EXCEPT ![r] = [work[r] EXCEPT !.errs = @ \ {e}]]
            /\ messageAt'[r] = "mark" /\ messageAt[r] = "mark"
        BY <2>10, <3>1, <3>3, InHand DEF Messages!Do, Messages!MarkError
      <4>2. work'[r].todo = work[r].todo /\ work'[r].errs \subseteq work[r].errs
        BY <4>1, InHand DEF MessageWork
      <4>3. Noted(rows', work[r].todo[1].acc, work[r].errs)
        BY <1>2, <2>0, <4>1 DEF SentFor
      <4> QED BY <4>1, <4>2, <4>3 DEF SentFor, Noted
    <3> QED BY <3>2, <3>3
  <2>11. CASE ~RequestStep(r)
    <3>1. CASE \E q \in Administrator : RequestStep(q)
      BY <2>1, <2>11, <3>1, OthersWait
    <3>2. CASE ~ \E q \in Administrator : RequestStep(q)
      <4>1. UNCHANGED <<messageAt, work>>
        BY <3>2, MessageCases DEF Messages!UpdateRow, Messages!SaveNote, Messages!NextDay,
                                  Messages!DeleteBulks, Messages!DeleteRows,
                                  Messages!DeleteErrors, Messages!vars
      <4> QED BY <2>1, <4>1
    <3> QED BY <3>1, <3>2
  <2> QED BY <2>3, <2>4, <2>5, <2>6, <2>7, <2>8, <2>9, <2>10, <2>11 DEF RequestStep
<1>5. ASSUME NEW a \in Contacted, NEW e \in errorsTold' \cap DepositsFailed[a]
      PROVE  Noted(rows', a, {e})
  <2>1. CASE e \in errorsTold
    BY <1>2, <2>1 DEF RecordsInv
  <2>2. CASE e \notin errorsTold
    <3>1. \E r \in Administrator : Messages!MarkError(r)
      <4>1. errorsTold' \subseteq errorsTold \/ \E r \in Administrator : Messages!MarkError(r)
        BY MessageCases DEF RequestStep, Messages!SendBulk, Messages!RecordBulk,
                            Messages!RecordFor, Messages!RecordForNoCc, Messages!UpdateBulk,
                            Messages!UpdateRows, Messages!SendEmail, Messages!RecordEmail,
                            Messages!Fault, Messages!UpdateRow, Messages!SaveNote,
                            Messages!NextDay, Messages!DeleteBulks, Messages!DeleteRows,
                            Messages!DeleteErrors, Messages!vars
      <4> QED BY SMTT(60), <2>2, <4>1
    <3>2. PICK r \in Administrator : Messages!MarkError(r)
      BY <3>1
    <3>3. e \in work[r].errs /\ messageAt[r] = "mark"
      BY <2>2, <3>2 DEF Messages!MarkError
    <3>4. work[r].errs \subseteq DepositsFailed[work[r].todo[1].acc]
              /\ work[r].todo[1].acc \in Contacted
      BY <3>3, AtWork, TodoItems DEF Doing
    <3>5. a = work[r].todo[1].acc
      BY <3>3, <3>4 DEF Messages!MessagesAssumption
    <3>6. Noted(rows', a, work[r].errs)
      BY <1>2, <3>3, <3>5 DEF RecordsInv, SentFor
    <3> QED BY <3>3, <3>6 DEF Noted
  <2> QED BY <2>1, <2>2
<1> QED BY <1>3, <1>4, <1>5 DEF RecordsInv

-----------------------------------------------------------------------------
(* The record of a bulk e-mail: once for each account, and for all of them *)
(* when it is answered.                                                    *)

Listed(table, b, a) == \E i \in DOMAIN table : table[i].bulk = b /\ table[i].acc = a
ToRecord(items) == {items[i].acc : i \in DOMAIN items}

\* A request that records a bulk e-mail has all accounts in hand that it is not recorded for.
BulkDone(r) ==
    /\ messageAt[r] \in {"bulk_record", "bulk_rows"} =>
          \A i, j \in DOMAIN work[r].todo :
             i # j => work[r].todo[i].acc # work[r].todo[j].acc
    /\ messageAt[r] = "bulk_rows" =>
          LET b == work[r].bulk
          IN  /\ \A a \in ToRecord(work[r].todo) : a \in bulks[b].to /\ ~Listed(rows, b, a)
              /\ \A a \in bulks[b].to : Listed(rows, b, a) \/ a \in ToRecord(work[r].todo)

BulkInv ==
    /\ \A i, j \in DOMAIN rows :
          i # j /\ rows[i].bulk # 0 /\ rows[i].bulk = rows[j].bulk => rows[i].acc # rows[j].acc
    /\ \A i \in DOMAIN rows : rows[i].bulk # 0 => rows[i].acc \in bulks[rows[i].bulk].to
    /\ \A b \in answered : \A a \in bulks[b].to : Listed(rows, b, a)
    /\ \A r \in Administrator : BulkDone(r)
    /\ \A q, r \in Administrator :
          q # r /\ messageAt[q] = "bulk_rows" /\ messageAt[r] = "bulk_rows" =>
              work[q].bulk # work[r].bulk

\* What each step does to bulk e-mails: one more, or other statuses.
BulksGrow ==
    /\ DOMAIN bulks \subseteq DOMAIN bulks'
    /\ \A b \in DOMAIN bulks : bulks'[b].to = bulks[b].to

LEMMA BulkAdded ==
    ASSUME MessageTypes, NEW x, bulks' = Append(bulks, x)
    PROVE  /\ BulksGrow /\ DOMAIN bulks' = DOMAIN bulks \cup {Len(bulks) + 1}
           /\ Len(bulks) + 1 \notin DOMAIN bulks /\ bulks'[Len(bulks) + 1] = x
           /\ \A b \in DOMAIN bulks : bulks'[b] = bulks[b]
<1>1. bulks \in Seq(BulkRecord \cup {x}) /\ x \in BulkRecord \cup {x}
  BY MessageTables
<1>2. /\ DOMAIN bulks' = 1 .. Len(bulks) + 1 /\ Len(bulks) \in Nat
      /\ DOMAIN bulks = 1 .. Len(bulks) /\ bulks'[Len(bulks) + 1] = x
      /\ \A b \in DOMAIN bulks : bulks'[b] = bulks[b]
  BY <1>1, AfterAppend
<1> QED BY <1>2 DEF BulksGrow

LEMMA BulksStep == ASSUME MessageTypes, [Messages!Next]_(Messages!vars) PROVE BulksGrow
<1>1. ASSUME NEW r \in Administrator, Messages!RecordBulk(r) PROVE BulksGrow
  BY <1>1, BulkAdded DEF Messages!RecordBulk
<1>2. ASSUME NEW r \in Administrator, Messages!UpdateBulk(r) PROVE BulksGrow
  <2>1. BulksChanged
    BY <1>2, BulkUpdated DEF Messages!UpdateBulk, Messages!Status
  <2> QED BY <2>1, BulksSame DEF BulksChanged, SameButStatus, BulksGrow
<1>3. ASSUME Messages!DeleteBulks PROVE BulksGrow
  <2>1. BulksChanged
    BY <1>3, OldBulksDeleted DEF Messages!DeleteBulks
  <2> QED BY <2>1, BulksSame DEF BulksChanged, SameButStatus, BulksGrow
<1>4. ASSUME UNCHANGED bulks PROVE BulksGrow
  BY <1>4 DEF BulksGrow
<1>5. ASSUME NEW r \in Administrator, RequestStep(r)
      PROVE  Messages!RecordBulk(r) \/ Messages!UpdateBulk(r) \/ UNCHANGED bulks
  BY <1>5 DEF RequestStep, Messages!SendBulk, Messages!RecordFor, Messages!RecordForNoCc,
              Messages!UpdateRows, Messages!SendEmail, Messages!RecordEmail, Messages!MarkError,
              Messages!Fault
<1>6. Messages!UpdateRow \/ Messages!SaveNote \/ Messages!NextDay \/ Messages!DeleteRows
          \/ Messages!DeleteErrors \/ UNCHANGED Messages!vars =>
         UNCHANGED bulks
  BY DEF Messages!UpdateRow, Messages!SaveNote, Messages!NextDay, Messages!DeleteRows,
         Messages!DeleteErrors, Messages!vars
<1> QED BY <1>1, <1>2, <1>3, <1>4, <1>5, <1>6, MessageCases

LEMMA ListedStays ==
    ASSUME RowsGrow
    PROVE  \A b, a : Listed(rows, b, a) => Listed(rows', b, a)
  BY DEF Listed, RowsGrow

\* With as many records as before, the same are listed.
LEMMA ListedSame ==
    ASSUME RowsGrow, DOMAIN rows' = DOMAIN rows
    PROVE  \A b, a : Listed(rows, b, a) <=> Listed(rows', b, a)
  BY DEF Listed, RowsGrow

\* One more record, of another bulk e-mail or of none, lists nothing more of this one.
LEMMA ListedAdded ==
    ASSUME MessageTypes, NEW a, NEW type, NEW b, NEW errs, Added(a, type, b, errs)
    PROVE  /\ \A c, x : Listed(rows', c, x) <=> Listed(rows, c, x) \/ (c = b /\ x = a)
           /\ Listed(rows', b, a)
<1>1. ASSUME NEW c, NEW x
      PROVE  Listed(rows', c, x) <=> Listed(rows, c, x) \/ (c = b /\ x = a)
  <2>1. Listed(rows, c, x) => Listed(rows', c, x)
    BY RowsGrowAdded, ListedStays
  <2>2. c = b /\ x = a => Listed(rows', c, x)
    BY RowsGrowAdded DEF Listed
  <2>3. Listed(rows', c, x) => Listed(rows, c, x) \/ (c = b /\ x = a)
    BY RowsGrowAdded DEF Listed
  <2> QED BY <2>1, <2>2, <2>3
<1> QED BY <1>1

\* Steps after which the records and bulk e-mails are those there were, but for their status,
\* and requests that record one are those there were.
LEMMA BulkKept ==
    ASSUME MessageTypes, BulkInv, RowsGrow, DOMAIN rows' = DOMAIN rows, BulksGrow,
           answered' = answered,
           \A r \in Administrator :
              \/ messageAt'[r] = messageAt[r] /\ work'[r] = work[r]
              \/ messageAt'[r] \notin {"bulk_record", "bulk_rows"}
    PROVE  BulkInv'
<1>1. \A i, j \in DOMAIN rows' :
         i # j /\ rows'[i].bulk # 0 /\ rows'[i].bulk = rows'[j].bulk =>
            rows'[i].acc # rows'[j].acc
  BY DEF BulkInv, RowsGrow
<1>2. \A i \in DOMAIN rows' : rows'[i].bulk # 0 => rows'[i].acc \in bulks'[rows'[i].bulk].to
  <2>1. \A i \in DOMAIN rows : rows[i].bulk # 0 => rows[i].bulk \in DOMAIN bulks
    BY BulkNamed, MessageTables
  <2> QED BY <2>1 DEF BulkInv, RowsGrow, BulksGrow
<1>3. \A b \in answered' : \A a \in bulks'[b].to : Listed(rows', b, a)
  BY BulkNamed, ListedStays DEF BulkInv, BulksGrow
<1>4. ASSUME NEW r \in Administrator PROVE BulkDone(r)'
  <2>1. CASE messageAt'[r] \notin {"bulk_record", "bulk_rows"}
    BY <2>1 DEF BulkDone
  <2>2. CASE messageAt'[r] = messageAt[r] /\ work'[r] = work[r]
    <3>1. BulkDone(r) /\ (messageAt[r] = "bulk_rows" => work[r].bulk \in DOMAIN bulks)
      BY AtWork DEF BulkInv
    <3> QED BY <2>2, <3>1, ListedSame DEF BulkDone, BulksGrow
  <2> QED BY <2>1, <2>2
<1>5. \A q, r \in Administrator :
         q # r /\ messageAt'[q] = "bulk_rows" /\ messageAt'[r] = "bulk_rows" =>
             work'[q].bulk # work'[r].bulk
  BY DEF BulkInv
<1> QED BY <1>1, <1>2, <1>3, <1>4, <1>5 DEF BulkInv

\* A record that is added for an e-mail to one account, or for a note.
LEMMA BulkKeptAdded ==
    ASSUME MessageTypes, BulkInv, NEW a, NEW type, NEW errs, Added(a, type, 0, errs),
           bulks' = bulks, answered' = answered,
           \A r \in Administrator :
              \/ messageAt'[r] = messageAt[r] /\ work'[r] = work[r]
              \/ messageAt'[r] \notin {"bulk_record", "bulk_rows"}
    PROVE  BulkInv'
<1>1. /\ DOMAIN rows' = DOMAIN rows \cup {Len(rows) + 1}
      /\ \A i \in DOMAIN rows : rows'[i] = rows[i]
      /\ rows'[Len(rows) + 1].bulk = 0 /\ RowsGrow
  BY RowsGrowAdded
<1>2. \A b, x : b # 0 => (Listed(rows', b, x) <=> Listed(rows, b, x))
  BY ListedAdded
<1>3. ASSUME NEW r \in Administrator PROVE BulkDone(r)'
  <2>1. CASE messageAt'[r] \notin {"bulk_record", "bulk_rows"}
    BY <2>1 DEF BulkDone
  <2>2. CASE messageAt'[r] = messageAt[r] /\ work'[r] = work[r]
    <3>1. BulkDone(r) /\ (messageAt[r] = "bulk_rows" => work[r].bulk # 0)
      BY AtWork, MessageTables DEF BulkInv
    <3> QED BY <1>2, <2>2, <3>1 DEF BulkDone
  <2> QED BY <2>1, <2>2
<1>4. \A b \in answered' : \A x \in bulks'[b].to : Listed(rows', b, x)
  BY <1>1, ListedStays DEF BulkInv
<1>5. \A q, r \in Administrator :
         q # r /\ messageAt'[q] = "bulk_rows" /\ messageAt'[r] = "bulk_rows" =>
             work'[q].bulk # work'[r].bulk
  BY DEF BulkInv
<1>6. \A i, j \in DOMAIN rows' :
         i # j /\ rows'[i].bulk # 0 /\ rows'[i].bulk = rows'[j].bulk =>
            rows'[i].acc # rows'[j].acc
  BY <1>1 DEF BulkInv
<1>7. \A i \in DOMAIN rows' : rows'[i].bulk # 0 => rows'[i].acc \in bulks'[rows'[i].bulk].to
  BY <1>1 DEF BulkInv
<1> QED BY <1>3, <1>4, <1>5, <1>6, <1>7 DEF BulkInv

LEMMA BulkInvStep ==
    ASSUME Messages!MessagesAssumption, MessageTypes, BulkInv, [Messages!Next]_(Messages!vars)
    PROVE  BulkInv'
<1>0. RowsGrow /\ BulksGrow
  BY RowsGrowAlways, BulksStep
<1>1. ASSUME NEW r \in Administrator, Messages!SendBulk(r) PROVE BulkInv'
  <2>1. PICK n \in 1 .. Messages!Cardinality(Contacted) :
           \E to \in [1 .. n -> Contacted], cc \in [1 .. n -> {"list", "null"}] :
              /\ \A i, j \in 1 .. n : i # j => to[i] # to[j]
              /\ Messages!Do(r, [Messages!NoWork EXCEPT
                        !.todo = [i \in 1 .. n |-> [acc |-> to[i], cc |-> cc[i]]]])
    BY <1>1 DEF Messages!SendBulk
  <2>2. PICK to \in [1 .. n -> Contacted], cc \in [1 .. n -> {"list", "null"}] :
              /\ \A i, j \in 1 .. n : i # j => to[i] # to[j]
              /\ Messages!Do(r, [Messages!NoWork EXCEPT
                        !.todo = [i \in 1 .. n |-> [acc |-> to[i], cc |-> cc[i]]]])
    BY <2>1
  <2> DEFINE todo == [i \in 1 .. n |-> [acc |-> to[i], cc |-> cc[i]]]
  <2>3. DOMAIN todo = 1 .. n /\ \A i, j \in 1 .. n : i # j => todo[i].acc # todo[j].acc
    BY <2>2
  <2> HIDE DEF todo
  <2>4. [Messages!NoWork EXCEPT !.todo = todo].todo = todo
    BY DEF Messages!NoWork
  <2>5. work'[r].todo = todo /\ messageAt'[r] = "bulk_record"
    BY <1>1, <2>2, <2>4, InHand DEF Messages!SendBulk, Messages!Do, Messages!Goto, todo
  <2>6. BulkDone(r)'
    BY <2>3, <2>5 DEF BulkDone
  <2>7. \A q \in Administrator : q # r => messageAt'[q] = messageAt[q] /\ work'[q] = work[q]
    BY <1>1, OthersWait DEF RequestStep
  <2>8. UNCHANGED <<bulks, rows, answered>>
    BY <1>1 DEF Messages!SendBulk
  <2>9. ASSUME NEW q \in Administrator, q # r PROVE BulkDone(q)'
    <3>1. BulkDone(q) /\ messageAt'[q] = messageAt[q] /\ work'[q] = work[q]
      BY <2>7, <2>9 DEF BulkInv
    <3> QED BY <2>8, <3>1 DEF BulkDone
  <2> QED BY <2>5, <2>6, <2>7, <2>8, <2>9 DEF BulkInv
<1>2. ASSUME NEW r \in Administrator, Messages!RecordBulk(r) PROVE BulkInv'
  <2> DEFINE b == Len(bulks) + 1
             record == [status |-> "N", day |-> messageDay, to |-> ToRecord(work[r].todo)]
  <2>1. /\ bulks' = Append(bulks, record) /\ messageAt[r] = "bulk_record"
        /\ messageAt'[r] = "bulk_rows" /\ work'[r].todo = work[r].todo /\ work'[r].bulk = b
        /\ UNCHANGED <<rows, answered>>
    BY <1>2, InHand DEF Messages!RecordBulk, Messages!Goto, Messages!Do, MessageWork, ToRecord
  <2>2. record.to = ToRecord(work[r].todo)
    OBVIOUS
  <2> HIDE DEF record
  <2>3. /\ DOMAIN bulks' = DOMAIN bulks \cup {b} /\ b \notin DOMAIN bulks
        /\ bulks'[b] = record /\ \A c \in DOMAIN bulks : bulks'[c] = bulks[c]
    BY <2>1, BulkAdded
  <2> HIDE DEF b
  <2>4. \A i \in DOMAIN rows : rows[i].bulk # b
    BY BulkNamed, MessageTables DEF b
  <2>5. \A a : ~Listed(rows, b, a)
    BY <2>4 DEF Listed
  <2>6. BulkDone(r)
    BY DEF BulkInv
  <2>7. BulkDone(r)'
    BY <2>1, <2>2, <2>3, <2>5, <2>6 DEF BulkDone
  <2>8. \A q \in Administrator : q # r => messageAt'[q] = messageAt[q] /\ work'[q] = work[q]
    BY <1>2, OthersWait DEF RequestStep
  <2>9. \A q \in Administrator : messageAt[q] = "bulk_rows" => work[q].bulk \in DOMAIN bulks
    BY AtWork
  <2>10. \A q \in Administrator : q # r => BulkDone(q)'
    BY <2>1, <2>3, <2>8, <2>9 DEF BulkDone, BulkInv
  <2>11. \A i \in DOMAIN rows' : rows'[i].bulk # 0 => rows'[i].acc \in bulks'[rows'[i].bulk].to
    <3>1. \A i \in DOMAIN rows : rows[i].bulk # 0 => rows[i].bulk \in DOMAIN bulks
      BY BulkNamed, MessageTables
    <3> QED BY <2>1, <2>3, <3>1 DEF BulkInv
  <2>12. \A c \in answered' : \A a \in bulks'[c].to : Listed(rows', c, a)
    BY <2>1, <2>3, BulkNamed DEF BulkInv
  <2>13. \A p, q \in Administrator :
            p # q /\ messageAt'[p] = "bulk_rows" /\ messageAt'[q] = "bulk_rows" =>
                work'[p].bulk # work'[q].bulk
    BY <2>1, <2>3, <2>8, <2>9 DEF BulkInv
  <2> QED BY ZenonT(60), <2>1, <2>7, <2>10, <2>11, <2>12, <2>13 DEF BulkInv
<1>3. ASSUME NEW r \in Administrator, Messages!RecordFor(r) PROVE BulkInv'
  <2> DEFINE a == work[r].todo[1].acc
             b == work[r].bulk
             rest == Tail(work[r].todo)
  <2>1. Added(a, "B", b, {}) /\ messageAt[r] = "bulk_rows" /\ UNCHANGED bulks
    BY <1>3 DEF Messages!RecordFor, Added
  <2>2. BulkDone(r)
    BY DEF BulkInv
  <2>3. /\ b \in DOMAIN bulks /\ b # 0 /\ work[r].todo # <<>> /\ 1 \in DOMAIN work[r].todo
        /\ DOMAIN rest = 1 .. Len(work[r].todo) - 1 /\ Len(work[r].todo) \in Nat
        /\ DOMAIN work[r].todo = 1 .. Len(work[r].todo)
        /\ \A i \in DOMAIN rest : rest[i] = work[r].todo[i + 1]
    BY <2>1, AtWork, TodoItems, MessageTables
  <2>4. a \in bulks[b].to /\ ~Listed(rows, b, a)
    BY <2>1, <2>2, <2>3 DEF BulkDone, ToRecord
  <2>5. /\ DOMAIN rows' = DOMAIN rows \cup {Len(rows) + 1} /\ Len(rows) + 1 \notin DOMAIN rows
        /\ \A i \in DOMAIN rows : rows'[i] = rows[i]
        /\ rows'[Len(rows) + 1].acc = a /\ rows'[Len(rows) + 1].bulk = b
    BY ZenonT(60), <2>1, RowsGrowAdded
  <2>6. \A c, x : Listed(rows', c, x) <=> Listed(rows, c, x) \/ (c = b /\ x = a)
    BY <2>1, ListedAdded
  <2>7. \A q \in Administrator : q # r => messageAt'[q] = messageAt[q] /\ work'[q] = work[q]
    BY <1>3, OthersWait DEF RequestStep
  <2>8. ToRecord(work[r].todo) = ToRecord(rest) \cup {a} /\ a \notin ToRecord(rest)
    <3>1. \A i \in DOMAIN rest : i + 1 \in DOMAIN work[r].todo /\ i + 1 # 1
      BY <2>3
    <3>2. \A i \in DOMAIN work[r].todo : i # 1 =>
              i - 1 \in DOMAIN rest /\ rest[i - 1] = work[r].todo[i]
      BY <2>3
    <3>3. \A i, j \in DOMAIN work[r].todo :
             i # j => work[r].todo[i].acc # work[r].todo[j].acc
      BY <2>1, <2>2 DEF BulkDone
    <3>4. ASSUME NEW i \in DOMAIN rest
          PROVE  rest[i].acc # a /\ rest[i].acc \in ToRecord(work[r].todo)
      BY <2>3, <3>1, <3>3 DEF ToRecord
    <3>5. ASSUME NEW i \in DOMAIN work[r].todo
          PROVE  work[r].todo[i].acc \in ToRecord(rest) \cup {a}
      BY <3>2 DEF ToRecord
    <3>6. a \in ToRecord(work[r].todo)
      BY <2>3 DEF ToRecord
    <3>7. ToRecord(work[r].todo) \subseteq ToRecord(rest) \cup {a}
      <4>1. ASSUME NEW x \in ToRecord(work[r].todo) PROVE x \in ToRecord(rest) \cup {a}
        <5>1. PICK i \in DOMAIN work[r].todo : x = work[r].todo[i].acc
          BY DEF ToRecord
        <5> QED BY <3>5, <5>1
      <4> QED BY <4>1
    <3>8. ASSUME NEW x \in ToRecord(rest) PROVE x # a /\ x \in ToRecord(work[r].todo)
      <4>1. PICK i \in DOMAIN rest : x = rest[i].acc
        BY DEF ToRecord
      <4> QED BY <3>4, <4>1
    <3> QED BY <3>6, <3>7, <3>8
  <2>9. messageAt'[r] \notin {"bulk_record", "bulk_rows"}
            \/ (messageAt'[r] = "bulk_rows" /\ work'[r].bulk = b)
    BY <1>3, InHand DEF Messages!RecordFor, Messages!Done, Messages!Do, Messages!Goto,
                        MessageWork
  <2>10. BulkDone(r)'
    <3>1. CASE Len(work[r].todo) = 1
      <4>1. messageAt'[r] = "idle"
        BY <1>3, <3>1, InHand DEF Messages!RecordFor, Messages!Done, Messages!Goto
      <4> QED BY <4>1 DEF BulkDone
    <3>2. CASE Len(work[r].todo) # 1
      <4>1. messageAt'[r] = "bulk_rows" /\ work'[r].todo = rest /\ work'[r].bulk = b
        BY ZenonT(60), <1>3, <3>2, InHand DEF Messages!RecordFor, Messages!Do, MessageWork
      <4>2. \A i, j \in DOMAIN rest : i # j => rest[i].acc # rest[j].acc
        <5>1. ASSUME NEW i \in DOMAIN rest, NEW j \in DOMAIN rest, i # j
              PROVE  rest[i].acc # rest[j].acc
          <6>1. i + 1 \in DOMAIN work[r].todo /\ j + 1 \in DOMAIN work[r].todo /\ i + 1 # j + 1
            BY <2>3, <5>1
          <6> QED BY <2>1, <2>2, <2>3, <6>1 DEF BulkDone
        <5> QED BY <5>1
      <4>3. \A x \in ToRecord(rest) : x \in bulks'[b].to /\ ~Listed(rows', b, x)
        BY <2>1, <2>2, <2>6, <2>8 DEF BulkDone
      <4>4. \A x \in bulks'[b].to : Listed(rows', b, x) \/ x \in ToRecord(rest)
        BY <2>1, <2>2, <2>6, <2>8 DEF BulkDone
      <4> HIDE DEF rest, b
      <4> QED BY <4>1, <4>2, <4>3, <4>4 DEF BulkDone
    <3> QED BY <3>1, <3>2
  <2>11. ASSUME NEW q \in Administrator, q # r PROVE BulkDone(q)'
    <3>1. messageAt'[q] = messageAt[q] /\ work'[q] = work[q] /\ BulkDone(q)
      BY <2>7, <2>11 DEF BulkInv
    <3>2. messageAt[q] = "bulk_rows" => work[q].bulk # b
      BY <2>1, <2>11 DEF BulkInv
    <3> HIDE DEF b, a
    <3> QED BY <2>1, <2>6, <3>1, <3>2 DEF BulkDone
  <2>12. \A c \in answered' : \A x \in bulks'[c].to : Listed(rows', c, x)
    <3>1. \A c \in answered : \A x \in bulks'[c].to : Listed(rows', c, x)
      BY <2>1, <2>6 DEF BulkInv
    <3>2. CASE Len(work[r].todo) = 1
      <4>1. answered' = answered \cup {b}
        BY <1>3, <3>2 DEF Messages!RecordFor
      <4>2. ToRecord(work[r].todo) = {a}
        BY <2>3, <2>8, <3>2 DEF ToRecord
      <4>3. \A x \in bulks'[b].to : Listed(rows', b, x)
        BY <2>1, <2>2, <2>6, <4>2 DEF BulkDone
      <4> QED BY <3>1, <4>1, <4>3
    <3>3. CASE Len(work[r].todo) # 1
      BY <1>3, <3>1, <3>3 DEF Messages!RecordFor
    <3> QED BY <3>2, <3>3
  <2>13. \A i, j \in DOMAIN rows' :
            i # j /\ rows'[i].bulk # 0 /\ rows'[i].bulk = rows'[j].bulk =>
               rows'[i].acc # rows'[j].acc
    <3>1. \A i \in DOMAIN rows : rows[i].bulk = b => rows[i].acc # a
      BY <2>4 DEF Listed
    <3> HIDE DEF a, b
    <3> QED BY <2>5, <3>1 DEF BulkInv
  <2>14. \A i \in DOMAIN rows' : rows'[i].bulk # 0 => rows'[i].acc \in bulks'[rows'[i].bulk].to
    BY <2>1, <2>4, <2>5 DEF BulkInv
  <2>15. \A p, q \in Administrator :
            p # q /\ messageAt'[p] = "bulk_rows" /\ messageAt'[q] = "bulk_rows" =>
                work'[p].bulk # work'[q].bulk
    BY <2>1, <2>7, <2>9 DEF BulkInv
  <2> QED BY <2>10, <2>11, <2>12, <2>13, <2>14, <2>15 DEF BulkInv
<1>4. ASSUME NEW r \in Administrator,
             Messages!RecordForNoCc(r) \/ Messages!UpdateBulk(r) \/ Messages!UpdateRows(r)
                 \/ Messages!SendEmail(r) \/ Messages!MarkError(r)
             \/ Messages!Fault(r)
      PROVE  BulkInv'
  <2>1. \A q \in Administrator : q # r => messageAt'[q] = messageAt[q] /\ work'[q] = work[q]
    BY SMTT(60), <1>4, OthersWait DEF RequestStep
  <2>2. DOMAIN rows' = DOMAIN rows
    <3>1. Messages!UpdateRows(r) => DOMAIN rows' = DOMAIN rows
      BY DEF Messages!UpdateRows, Messages!UpdatedRows
    <3> QED BY <1>4, <3>1 DEF Messages!RecordForNoCc, Messages!UpdateBulk, Messages!SendEmail,
                              Messages!MarkError, Messages!Fault
  <2>3. answered' = answered
    BY <1>4 DEF Messages!RecordForNoCc, Messages!UpdateBulk, Messages!UpdateRows,
                Messages!SendEmail, Messages!MarkError, Messages!Fault
  <2>4. messageAt'[r] \in {"idle", "rows_status", "record"}
            \/ (messageAt[r] = "mark" /\ messageAt'[r] = "mark")
    BY <1>4, InHand DEF Messages!RecordForNoCc, Messages!UpdateBulk, Messages!UpdateRows,
                        Messages!SendEmail, Messages!MarkError, Messages!Fault, Messages!Done,
                        Messages!Goto
  <2> QED BY <1>0, <2>1, <2>2, <2>3, <2>4, BulkKept
<1>5. ASSUME NEW r \in Administrator, Messages!RecordEmail(r) PROVE BulkInv'
  <2>1. \A q \in Administrator : q # r => messageAt'[q] = messageAt[q] /\ work'[q] = work[q]
    BY <1>5, OthersWait DEF RequestStep
  <2>2. Added(work[r].todo[1].acc, "E", 0, work[r].errs) /\ bulks' = bulks /\ answered' = answered
        /\ messageAt'[r] \in {"idle", "mark"}
    BY <1>5, InHand DEF Messages!RecordEmail, Added, Messages!Done, Messages!Goto
  <2> QED BY <2>1, <2>2, BulkKeptAdded
<1>6. ASSUME Messages!SaveNote PROVE BulkInv'
  <2>1. PICK a \in Contacted, type \in {"N", "T"} : Added(a, type, 0, {})
    BY <1>6 DEF Messages!SaveNote, Added
  <2> QED BY <1>6, <2>1, BulkKeptAdded DEF Messages!SaveNote
<1>7. ASSUME Messages!UpdateRow \/ Messages!NextDay \/ Messages!DeleteBulks
          \/ Messages!DeleteRows \/ Messages!DeleteErrors
             \/ UNCHANGED Messages!vars
      PROVE  BulkInv'
  <2>1. DOMAIN rows' = DOMAIN rows
    BY <1>7 DEF Messages!UpdateRow, Messages!NextDay, Messages!DeleteBulks, Messages!DeleteRows,
                Messages!DeleteErrors, Messages!vars, Messages!WithoutOld
  <2>2. UNCHANGED <<messageAt, work, answered>>
    BY <1>7 DEF Messages!UpdateRow, Messages!NextDay, Messages!DeleteBulks, Messages!DeleteRows,
                Messages!DeleteErrors, Messages!vars
  <2> QED BY <1>0, <2>1, <2>2, BulkKept
<1> QED BY <1>1, <1>2, <1>3, <1>4, <1>5, <1>6, <1>7, MessageCases DEF RequestStep

-----------------------------------------------------------------------------
(* The text of a bulk e-mail, and the accounts' records of it.             *)

\* The accounts' records are being updated as the record of the text was.
StatusGiven(r) ==
    LET b == work[r].bulk
    IN  messageAt[r] = "rows_status" /\ b \notin mixed =>
           bulks[b].status = work[r].status \/ (bulks[b].status = "gone" /\ work[r].status = "D")

\* A record of an account and the one with the text agree, or an update is under way.
Agrees(i) ==
    LET b == rows[i].bulk
    IN  b # 0 /\ b \notin mixed /\ rows[i].status # "gone" =>
           \/ \E r \in Administrator : messageAt[r] = "rows_status" /\ work[r].bulk = b
           \/ bulks[b].status = rows[i].status
           \/ bulks[b].status = "gone" /\ rows[i].status = "D"

TextInv == (\A i \in DOMAIN rows : Agrees(i)) /\ (\A r \in Administrator : StatusGiven(r))

LEMMA TextIs == Messages!TextThere <=> \A i \in DOMAIN rows : Agrees(i)
  BY DEF Messages!TextThere, Agrees

\* No update begins or ends, and the records are those there were, or there is one of no
\* bulk e-mail more.
LEMMA TextKept ==
    ASSUME MessageTypes, TextInv, mixed \subseteq mixed',
           \A b \in DOMAIN bulks : bulks'[b] = bulks[b],
           \A i \in DOMAIN rows : rows'[i] = rows[i],
           \A i \in DOMAIN rows' : i \in DOMAIN rows \/ rows'[i].bulk = 0,
           \A r \in Administrator :
              \/ messageAt'[r] = messageAt[r] /\ work'[r] = work[r]
              \/ messageAt'[r] # "rows_status" /\ messageAt[r] # "rows_status"
    PROVE  TextInv'
<1>1. \A b : (\E r \in Administrator : messageAt[r] = "rows_status" /\ work[r].bulk = b) =>
              \E r \in Administrator : messageAt'[r] = "rows_status" /\ work'[r].bulk = b
  OBVIOUS
<1>2. ASSUME NEW i \in DOMAIN rows' PROVE Agrees(i)'
  <2>1. CASE i \in DOMAIN rows
    <3>1. Agrees(i) /\ (rows[i].bulk # 0 => rows[i].bulk \in DOMAIN bulks)
      BY <2>1, BulkNamed, MessageTables DEF TextInv
    <3> QED BY <1>1, <2>1, <3>1 DEF Agrees
  <2>2. CASE rows'[i].bulk = 0
    BY <2>2 DEF Agrees
  <2> QED BY <2>1, <2>2
<1>3. ASSUME NEW r \in Administrator PROVE StatusGiven(r)'
  <2>1. StatusGiven(r) /\ (messageAt[r] = "rows_status" => work[r].bulk \in DOMAIN bulks)
    BY AtWork DEF TextInv
  <2> QED BY <2>1 DEF StatusGiven
<1> QED BY <1>2, <1>3 DEF TextInv

LEMMA TextInvStep ==
    ASSUME Messages!MessagesAssumption, MessageTypes, TextInv, [Messages!Next]_(Messages!vars)
    PROVE  TextInv'
<1>1. ASSUME NEW r \in Administrator,
             Messages!SendBulk(r) \/ Messages!RecordForNoCc(r) \/ Messages!SendEmail(r)
                 \/ Messages!MarkError(r)
      PROVE  TextInv'
  <2>1. \A q \in Administrator : q # r => messageAt'[q] = messageAt[q] /\ work'[q] = work[q]
    BY <1>1, OthersWait DEF RequestStep
  <2>2. messageAt[r] # "rows_status" /\ messageAt'[r] # "rows_status"
    BY <1>1, InHand DEF Messages!SendBulk, Messages!RecordForNoCc, Messages!SendEmail,
                        Messages!MarkError, Messages!Done, Messages!Goto
  <2>3. UNCHANGED <<mixed, bulks, rows>>
    BY <1>1 DEF Messages!SendBulk, Messages!RecordForNoCc, Messages!SendEmail, Messages!MarkError
  <2> QED BY <2>1, <2>2, <2>3, TextKept
<1>2. ASSUME NEW r \in Administrator, Messages!RecordBulk(r) PROVE TextInv'
  <2>1. \A q \in Administrator : q # r => messageAt'[q] = messageAt[q] /\ work'[q] = work[q]
    BY <1>2, OthersWait DEF RequestStep
  <2>2. messageAt[r] # "rows_status" /\ messageAt'[r] # "rows_status" /\ UNCHANGED <<mixed, rows>>
    BY <1>2, InHand DEF Messages!RecordBulk, Messages!Goto
  <2>3. \A b \in DOMAIN bulks : bulks'[b] = bulks[b]
    BY <1>2, BulkAdded DEF Messages!RecordBulk
  <2> QED BY <2>1, <2>2, <2>3, TextKept
<1>3. ASSUME NEW r \in Administrator, Messages!RecordFor(r) PROVE TextInv'
  <2> DEFINE b == work[r].bulk
  <2>1. \A q \in Administrator : q # r => messageAt'[q] = messageAt[q] /\ work'[q] = work[q]
    BY <1>3, OthersWait DEF RequestStep
  <2>2. /\ messageAt[r] = "bulk_rows" /\ messageAt'[r] # "rows_status" /\ UNCHANGED bulks
        /\ mixed' = (IF bulks[b].status = "N" THEN mixed ELSE mixed \cup {b})
        /\ Added(work[r].todo[1].acc, "B", b, {})
    BY <1>3, InHand DEF Messages!RecordFor, Messages!Goto, Messages!Done, Added
  <2>3. /\ DOMAIN rows' = DOMAIN rows \cup {Len(rows) + 1} /\ Len(rows) + 1 \notin DOMAIN rows
        /\ \A i \in DOMAIN rows : rows'[i] = rows[i]
        /\ rows'[Len(rows) + 1].bulk = b /\ rows'[Len(rows) + 1].status = "N"
    BY ZenonT(60), <2>2, RowsGrowAdded
  <2>4. b \in DOMAIN bulks
    BY <2>2, AtWork
  <2> HIDE DEF b
  <2>5. \A c : (\E q \in Administrator : messageAt[q] = "rows_status" /\ work[q].bulk = c) =>
                \E q \in Administrator : messageAt'[q] = "rows_status" /\ work'[q].bulk = c
    BY <2>1, <2>2
  <2>6. ASSUME NEW i \in DOMAIN rows' PROVE Agrees(i)'
    <3>1. CASE i \in DOMAIN rows
      <4>1. Agrees(i)
        BY <3>1 DEF TextInv
      <4>2. mixed \subseteq mixed' /\ rows'[i] = rows[i]
        BY <2>2, <2>3, <3>1
      <4> QED BY <2>2, <2>5, <4>1, <4>2 DEF Agrees
    <3>2. CASE i = Len(rows) + 1
      BY <2>2, <2>3, <3>2 DEF Agrees
    <3> QED BY <2>3, <3>1, <3>2
  <2>7. ASSUME NEW q \in Administrator PROVE StatusGiven(q)'
    <3>1. StatusGiven(q) /\ mixed \subseteq mixed'
      BY <2>2 DEF TextInv
    <3> QED BY <2>1, <2>2, <3>1 DEF StatusGiven
  <2> QED BY <2>6, <2>7 DEF TextInv
<1>4. ASSUME NEW r \in Administrator, Messages!UpdateBulk(r) PROVE TextInv'
  <2>1. PICK b \in DOMAIN bulks, status \in {"N", "H", "D"} :
           /\ bulks' = [bulks EXCEPT ![b] = Messages!Changed(@, status)]
           /\ mixed' = IF Messages!InUpdate(b)
                  \/ bulks[b].status = "gone" THEN mixed \cup {b} ELSE mixed
           /\ Messages!Do(r, [Messages!NoWork EXCEPT !.bulk = b, !.status = status])
    BY <1>4 DEF Messages!UpdateBulk
  <2>2. /\ bulks'[b].status = IF bulks[b].status = "gone" THEN "gone" ELSE status
        /\ \A c \in DOMAIN bulks : c # b => bulks'[c] = bulks[c]
    BY <2>1, BulkUpdated DEF Messages!Status
  <2>3. \A q \in Administrator : q # r => messageAt'[q] = messageAt[q] /\ work'[q] = work[q]
    BY <1>4, OthersWait DEF RequestStep
  <2>4. messageAt[r] = "idle" /\ messageAt'[r] = "rows_status" /\ UNCHANGED rows
    BY <1>4, InHand DEF Messages!UpdateBulk, Messages!Goto
  <2>5. work'[r].bulk = b /\ work'[r].status = status
    <3>1. [Messages!NoWork EXCEPT !.bulk = b, !.status = status].bulk = b
          /\ [Messages!NoWork EXCEPT !.bulk = b, !.status = status].status = status
      BY DEF Messages!NoWork
    <3> QED BY <2>1, <3>1, InHand DEF Messages!Do
  <2>6. ASSUME NEW i \in DOMAIN rows' PROVE Agrees(i)'
    <3>1. CASE rows[i].bulk = b
      BY <2>4, <2>5, <3>1 DEF Agrees
    <3>2. CASE rows[i].bulk # b
      <4>1. Agrees(i) /\ (rows[i].bulk # 0 => rows[i].bulk \in DOMAIN bulks)
        BY <2>4, BulkNamed, MessageTables DEF TextInv
      <4>2. mixed \subseteq mixed'
        BY <2>1
      <4>3. (\E q \in Administrator : messageAt[q] = "rows_status"
                /\ work[q].bulk = rows[i].bulk) =>
               \E q \in Administrator : messageAt'[q] = "rows_status"
                   /\ work'[q].bulk = rows[i].bulk
        BY <2>3, <2>4
      <4> QED BY <2>2, <2>4, <3>2, <4>1, <4>2, <4>3 DEF Agrees
    <3> QED BY <3>1, <3>2
  <2>7. ASSUME NEW q \in Administrator PROVE StatusGiven(q)'
    <3>1. CASE q = r
      BY <2>1, <2>2, <2>5, <3>1 DEF StatusGiven
    <3>2. CASE q # r
      <4>1. StatusGiven(q) /\ (messageAt[q] = "rows_status" => work[q].bulk \in DOMAIN bulks)
            /\ messageAt'[q] = messageAt[q] /\ work'[q] = work[q] /\ mixed \subseteq mixed'
        BY <2>1, <2>3, <3>2, AtWork DEF TextInv
      <4>2. work[q].bulk = b => b \in mixed'
        BY <2>1 DEF Messages!InUpdate
      <4> QED BY <2>2, <4>1, <4>2 DEF StatusGiven
    <3> QED BY <3>1, <3>2
  <2> QED BY <2>6, <2>7 DEF TextInv
<1>5. ASSUME NEW r \in Administrator, Messages!UpdateRows(r) PROVE TextInv'
  <2> DEFINE b == work[r].bulk
  <2>1. \A q \in Administrator : q # r => messageAt'[q] = messageAt[q] /\ work'[q] = work[q]
    BY <1>5, OthersWait DEF RequestStep
  <2>2. messageAt[r] = "rows_status" /\ messageAt'[r] = "idle" /\ UNCHANGED <<bulks, mixed>>
    BY <1>5, InHand DEF Messages!UpdateRows, Messages!Done, Messages!Goto
  <2>3. /\ RowsGrow /\ DOMAIN rows' = DOMAIN rows
        /\ \A i \in DOMAIN rows : rows'[i].status =
              IF rows[i].bulk = b /\ rows[i].status # "gone" THEN work[r].status
              ELSE rows[i].status
    BY <1>5, RowsOfBulkUpdated, RowsGrowChanged DEF Messages!UpdateRows
  <2>4. StatusGiven(r)
    BY DEF TextInv
  <2>5. ASSUME NEW i \in DOMAIN rows' PROVE Agrees(i)'
    <3>1. rows'[i].bulk = rows[i].bulk
      BY <2>3 DEF RowsGrow
    <3>2. CASE rows[i].bulk = b
      BY <2>2, <2>3, <2>4, <3>1, <3>2 DEF Agrees, StatusGiven
    <3>3. CASE rows[i].bulk # b
      <4>1. Agrees(i) /\ rows'[i].status = rows[i].status
        BY <2>3, <3>3 DEF TextInv
      <4>2. (\E q \in Administrator : messageAt[q] = "rows_status"
                /\ work[q].bulk = rows[i].bulk) =>
               \E q \in Administrator : messageAt'[q] = "rows_status"
                   /\ work'[q].bulk = rows[i].bulk
        BY <2>1, <3>3
      <4> QED BY <2>2, <3>1, <4>1, <4>2 DEF Agrees
    <3> QED BY <3>2, <3>3
  <2>6. ASSUME NEW q \in Administrator PROVE StatusGiven(q)'
    <3>1. StatusGiven(q)
      BY DEF TextInv
    <3> QED BY <2>1, <2>2, <3>1 DEF StatusGiven
  <2> QED BY <2>5, <2>6 DEF TextInv
<1>6. ASSUME NEW r \in Administrator, Messages!RecordEmail(r) PROVE TextInv'
  <2>1. \A q \in Administrator : q # r => messageAt'[q] = messageAt[q] /\ work'[q] = work[q]
    BY <1>6, OthersWait DEF RequestStep
  <2>2. /\ messageAt[r] # "rows_status" /\ messageAt'[r] # "rows_status"
        /\ UNCHANGED <<mixed, bulks>>
        /\ Added(work[r].todo[1].acc, "E", 0, work[r].errs)
    BY <1>6, InHand DEF Messages!RecordEmail, Messages!Goto, Messages!Done, Added
  <2>3. /\ \A i \in DOMAIN rows : rows'[i] = rows[i]
        /\ \A i \in DOMAIN rows' : i \in DOMAIN rows \/ rows'[i].bulk = 0
    BY <2>2, RowsGrowAdded
  <2> QED BY <2>1, <2>2, <2>3, TextKept
<1>7. ASSUME Messages!SaveNote PROVE TextInv'
  <2>1. PICK a \in Contacted, type \in {"N", "T"} : Added(a, type, 0, {})
    BY <1>7 DEF Messages!SaveNote, Added
  <2>2. /\ \A i \in DOMAIN rows : rows'[i] = rows[i]
        /\ \A i \in DOMAIN rows' : i \in DOMAIN rows \/ rows'[i].bulk = 0
    BY <2>1, RowsGrowAdded
  <2> QED BY <1>7, <2>2, TextKept DEF Messages!SaveNote
<1>8. ASSUME NEW r \in Administrator, Messages!Fault(r) PROVE TextInv'
  <2> DEFINE b == work[r].bulk
  <2>1. \A q \in Administrator : q # r => messageAt'[q] = messageAt[q] /\ work'[q] = work[q]
    BY <1>8, OthersWait DEF RequestStep
  <2>2. /\ messageAt'[r] = "idle" /\ UNCHANGED <<bulks, rows>>
        /\ mixed' = IF messageAt[r] = "rows_status" THEN mixed \cup {b} ELSE mixed
    BY <1>8, InHand DEF Messages!Fault, Messages!Done, Messages!Goto
  <2>3. ASSUME NEW i \in DOMAIN rows' PROVE Agrees(i)'
    <3>1. Agrees(i) /\ mixed \subseteq mixed'
      BY <2>2 DEF TextInv
    <3>2. (\E q \in Administrator : messageAt[q] = "rows_status"
              /\ work[q].bulk = rows[i].bulk) =>
             \/ rows[i].bulk \in mixed'
             \/ \E q \in Administrator : messageAt'[q] = "rows_status"
                    /\ work'[q].bulk = rows[i].bulk
      BY <2>1, <2>2
    <3> QED BY <2>2, <3>1, <3>2 DEF Agrees
  <2>4. ASSUME NEW q \in Administrator PROVE StatusGiven(q)'
    <3>1. StatusGiven(q) /\ mixed \subseteq mixed'
      BY <2>2 DEF TextInv
    <3> QED BY <2>1, <2>2, <3>1 DEF StatusGiven
  <2> QED BY <2>3, <2>4 DEF TextInv
<1>9. ASSUME Messages!UpdateRow PROVE TextInv'
  <2>1. PICK j \in DOMAIN rows, status \in Messages!Status :
           rows' = [rows EXCEPT ![j] = Messages!Changed(@, status)]
           /\ mixed' = mixed \cup ({rows[j].bulk} \ {0})
    BY <1>9 DEF Messages!UpdateRow
  <2>2. RowsGrow /\ DOMAIN rows' = DOMAIN rows /\ \A i \in DOMAIN rows : i # j =>
            rows'[i] = rows[i]
    BY <2>1, RowUpdated, RowsGrowChanged
  <2>3. UNCHANGED <<messageAt, work, bulks>>
    BY <1>9 DEF Messages!UpdateRow
  <2>4. ASSUME NEW i \in DOMAIN rows' PROVE Agrees(i)'
    <3>1. CASE i = j
      BY <2>1, <2>2, <3>1 DEF Agrees, RowsGrow
    <3>2. CASE i # j
      <4>1. Agrees(i) /\ mixed \subseteq mixed' /\ rows'[i] = rows[i]
        BY <2>1, <2>2, <3>2 DEF TextInv
      <4> QED BY <2>3, <4>1 DEF Agrees
    <3> QED BY <3>1, <3>2
  <2>5. ASSUME NEW q \in Administrator PROVE StatusGiven(q)'
    <3>1. StatusGiven(q) /\ mixed \subseteq mixed'
      BY <2>1 DEF TextInv
    <3> QED BY <2>3, <3>1 DEF StatusGiven
  <2> QED BY <2>4, <2>5 DEF TextInv
<1>10. ASSUME Messages!DeleteBulks PROVE TextInv'
  <2>1. UNCHANGED <<messageAt, work, rows, mixed>> /\ bulks' = Messages!WithoutOld(bulks)
    BY <1>10 DEF Messages!DeleteBulks
  <2>2. \A b \in DOMAIN bulks :
           \/ bulks'[b].status = bulks[b].status
           \/ bulks[b].status = "D" /\ bulks'[b].status = "gone"
    BY <2>1, OldBulksDeleted DEF Messages!Old
  <2>3. ASSUME NEW i \in DOMAIN rows' PROVE Agrees(i)'
    <3>1. Agrees(i) /\ (rows[i].bulk # 0 => rows[i].bulk \in DOMAIN bulks)
      BY <2>1, BulkNamed, MessageTables DEF TextInv
    <3>2. CASE rows[i].bulk = 0
      BY <2>1, <3>2 DEF Agrees
    <3>3. CASE rows[i].bulk # 0
      <4>1. \/ bulks'[rows[i].bulk].status = bulks[rows[i].bulk].status
            \/ bulks[rows[i].bulk].status = "D" /\ bulks'[rows[i].bulk].status = "gone"
        BY <2>2, <3>1, <3>3
      <4> QED BY <2>1, <3>1, <4>1 DEF Agrees
    <3> QED BY <3>2, <3>3
  <2>4. ASSUME NEW q \in Administrator PROVE StatusGiven(q)'
    <3>1. StatusGiven(q) /\ (messageAt[q] = "rows_status" => work[q].bulk \in DOMAIN bulks)
      BY AtWork DEF TextInv
    <3> QED BY <2>1, <2>2, <3>1 DEF StatusGiven
  <2> QED BY <2>3, <2>4 DEF TextInv
<1>11. ASSUME Messages!DeleteRows PROVE TextInv'
  <2>1. UNCHANGED <<messageAt, work, bulks, mixed>> /\ rows' = Messages!WithoutOld(rows)
    BY <1>11 DEF Messages!DeleteRows
  <2>2. /\ RowsGrow /\ DOMAIN rows' = DOMAIN rows
        /\ \A i \in DOMAIN rows :
              rows'[i].status = "gone" \/ rows'[i].status = rows[i].status
    BY <2>1, OldRowsDeleted, RowsGrowChanged
  <2>3. ASSUME NEW i \in DOMAIN rows' PROVE Agrees(i)'
    <3>1. Agrees(i) /\ rows'[i].bulk = rows[i].bulk
      BY <2>2 DEF TextInv, RowsGrow
    <3> QED BY <2>1, <2>2, <3>1 DEF Agrees
  <2>4. ASSUME NEW q \in Administrator PROVE StatusGiven(q)'
    <3>1. StatusGiven(q)
      BY DEF TextInv
    <3> QED BY <2>1, <3>1 DEF StatusGiven
  <2> QED BY <2>3, <2>4 DEF TextInv
<1>12. ASSUME Messages!NextDay \/ Messages!DeleteErrors \/ UNCHANGED Messages!vars PROVE TextInv'
  <2>1. UNCHANGED <<messageAt, work, bulks, rows, mixed>>
    BY <1>12 DEF Messages!NextDay, Messages!DeleteErrors, Messages!vars
  <2> QED BY <2>1, TextKept
<1> QED BY <1>1, <1>2, <1>3, <1>4, <1>5, <1>6, <1>7, <1>8, <1>9, <1>10, <1>11, <1>12,
           MessageCases DEF RequestStep

-----------------------------------------------------------------------------
(* The theorem.                                                            *)

MessageInv == MessageTypes /\ RecordsInv /\ BulkInv /\ TextInv

LEMMA InitMessageInv == ASSUME Messages!MessagesAssumption, Messages!Init PROVE MessageInv
<1>1. DOMAIN rows = {} /\ DOMAIN mails = {} /\ \A r \in Administrator : messageAt[r] = "idle"
  BY DEF Messages!Init
<1>2. RecordsInv /\ BulkInv /\ TextInv
  BY <1>1 DEF Messages!Init, RecordsInv, BulkInv, TextInv, SentFor, BulkDone, StatusGiven
<1> QED BY <1>2, InitMessageTypes DEF MessageInv

THEOREM MessagesInvariant == ASSUME Messages!MessagesAssumption
    PROVE  Messages!Spec => []MessageInv
<1>1. Messages!Init => MessageInv
  BY InitMessageInv
<1>2. MessageInv /\ [Messages!Next]_(Messages!vars) => MessageInv'
  BY MessageTypesStep, RecordsStep, BulkInvStep, TextInvStep DEF MessageInv
<1> QED BY <1>1, <1>2, PTL DEF Messages!Spec

LEMMA MessageTypesGive == ASSUME Messages!MessagesAssumption, MessageTypes PROVE Messages!TypeOK
<1>1. \A r \in Administrator : work[r].bulk \in 0 .. Len(bulks)
          /\ work[r].errs \subseteq Messages!Failed
  BY AtWork DEF MessageWork
<1>2. \A i \in DOMAIN mails : mails[i].to \subseteq Contacted
          /\ mails[i].errs \subseteq Messages!Failed
  BY MessageTables DEF MailRecord
<1>3. \A b \in DOMAIN bulks :
         bulks[b].status \in Messages!Status \cup {"gone"} /\ bulks[b].day \in 0 .. messageDay
  <2>1. \A b \in DOMAIN bulks :
           bulks[b].status \in Messages!Status \cup {"gone"} /\ bulks[b].day \in Nat
               /\ bulks[b].day <= messageDay
    BY MessageTables, BulkNamed DEF BulkRecord, AnyStatus
  <2> QED BY <2>1, BulkNamed
<1>4. \A i \in DOMAIN rows :
         /\ rows[i].acc \in Contacted /\ rows[i].type \in {"N", "T", "E", "B"}
         /\ rows[i].status \in Messages!Status \cup {"gone"} /\ rows[i].bulk \in 0 .. Len(bulks)
         /\ (rows[i].bulk # 0) <=> (rows[i].type = "B")
  BY MessageTables, BulkNamed DEF RowRecord, AnyStatus
<1>5. /\ messageAt \in [Administrator -> {"idle", "bulk_record", "bulk_rows", "record",
             "mark", "rows_status"}]
      /\ errors \subseteq Messages!Failed /\ errorsTold \subseteq errors
      /\ changes \in 0 .. ChangeLimit /\ messageFaultCount \in 0 .. MessageFaults
      /\ answered \subseteq DOMAIN bulks /\ mixed \subseteq DOMAIN bulks
      /\ messageDay \in 0 .. MessageDays
  BY DEF MessageTypes, MessagePlaces, Messages!MessagesAssumption
<1> QED BY <1>1, <1>2, <1>3, <1>4, <1>5 DEF Messages!TypeOK

LEMMA MessageInvGives ==
    ASSUME MessageInv
    PROVE  Messages!RecordsTrue /\ Messages!BulkRecorded /\ Messages!TextThere
<1>1. Messages!RecordsTrue
  BY DEF MessageInv, RecordsInv, Messages!RecordsTrue, Sent, Noted
<1>2. Messages!TextThere
  BY TextIs DEF MessageInv, TextInv
<1>3. ASSUME NEW b \in DOMAIN bulks, NEW a \in Contacted
      PROVE  LET of == {i \in DOMAIN rows : rows[i].bulk = b /\ rows[i].acc = a}
             IN  /\ Messages!Cardinality(of) <= 1
                 /\ of # {} => a \in bulks[b].to
                 /\ b \in answered /\ a \in bulks[b].to => of # {}
  <2> DEFINE of == {i \in DOMAIN rows : rows[i].bulk = b /\ rows[i].acc = a}
  <2>1. b # 0
    BY MessageTables DEF MessageInv
  <2>2. \A i, j \in of : i = j
    BY <2>1 DEF MessageInv, BulkInv
  <2>3. Messages!Cardinality(of) <= 1
    <3>1. CASE of = {}
      BY <3>1, FS_EmptySet, Counting
    <3>2. CASE of # {}
      <4>1. PICK i \in of : TRUE
        BY <3>2
      <4>2. of = {i}
        BY <2>2, <4>1
      <4>3. Messages!Cardinality({i}) = 1
        BY FS_Singleton, Counting
      <4> HIDE DEF of
      <4> QED BY <4>2, <4>3
    <3> QED BY <3>1, <3>2
  <2>4. of # {} => a \in bulks[b].to
    BY <2>1 DEF MessageInv, BulkInv
  <2>5. b \in answered /\ a \in bulks[b].to => of # {}
    BY DEF MessageInv, BulkInv, Listed
  <2> QED BY <2>3, <2>4, <2>5
<1> QED BY <1>1, <1>2, <1>3 DEF Messages!BulkRecorded

-----------------------------------------------------------------------------
(* ManagedContent: versions of the contents of web pages (jper/views/admin.py). *)

VersionStatus == {"N", "L", "D", "S", "gone"}
VersionRecord == [entry : Nat, status : VersionStatus, fields : Pages!Fields, created : Nat,
    updated : Nat,
           lastLive : Nat]
CacheRecord == [full : BOOLEAN, has : SUBSET Pages!Fields, since : Nat]

PageTypes ==
    /\ versions \in Seq(VersionRecord)
    /\ \A i \in DOMAIN versions :
          /\ versions[i].entry \in 1 .. i
          /\ versions[i].created <= now /\ versions[i].updated <= now
          /\ versions[i].lastLive <= now
    /\ hasLink \in BOOLEAN /\ now \in Nat /\ events \in 0 .. PageEvents /\ now <= events
    /\ at \in [Administrator -> {"list", "form", "insert"}]
    /\ form \in [Administrator -> [row : Nat, status : {"N", "L"},
           fields : Pages!Fields \cup {<<>>}]]
    /\ \A e \in Administrator :
          /\ form[e].row \in 0 .. Len(versions)
          /\ at[e] # "list" => form[e].row # 0 /\ form[e].fields \in Pages!Fields
    /\ fill \in CacheRecord /\ pageCache \in CacheRecord /\ pageCache.since <= now
    /\ wanted \subseteq DOMAIN versions /\ overtaken \in BOOLEAN

\* The changes of a record: another status or other fields make it updated now.
UpdatedLate == \A i \in DOMAIN versions : versions[i].status # "L" =>
    versions[i].lastLive <= versions[i].updated

ShownSince ==
    /\ Pages!Contents(versions) \in shown
    /\ fill.full => fill.has \in shown \/ overtaken

PageInv == PageTypes /\ Pages!WantedIsLive /\ Pages!AnsweredIsSaved /\ Pages!KeptAfterLive
    /\ UpdatedLate
                     /\ Pages!ClearedIsGone /\ ShownSince

\* What a record is after a change of its status and fields, and that the others stay.
LEMMA AfterUpdate ==
    ASSUME PageTypes, NEW i \in DOMAIN versions, NEW status \in {"N", "L", "D", "S"},
           NEW fields \in Pages!Fields
    PROVE  LET table == Pages!Updated(i, status, fields)
           IN  /\ table \in Seq(VersionRecord) /\ DOMAIN table = DOMAIN versions
               /\ Len(table) = Len(versions)
               /\ \A j \in DOMAIN versions : j # i => table[j] = versions[j]
               /\ table[i].entry = versions[i].entry /\ table[i].status = status
               /\ table[i].fields = fields /\ table[i].created = versions[i].created
               /\ table[i].updated =
                    IF versions[i].status = status /\ versions[i].fields = fields
                    THEN versions[i].updated ELSE now
               /\ table[i].lastLive =
                    IF versions[i].status = "L" THEN now ELSE versions[i].lastLive
<1> DEFINE time == IF versions[i].status = status /\ versions[i].fields = fields
                   THEN versions[i].updated ELSE now
           live == IF versions[i].status = "L" THEN now ELSE versions[i].lastLive
           row == [versions[i] EXCEPT !.status = status, !.fields = fields, !.updated = time,
                                  !.lastLive = live]
           table == [versions EXCEPT ![i] = row]
<1>1. versions \in Seq(VersionRecord) /\ versions[i] \in VersionRecord /\ now \in Nat
          /\ i \in 1 .. Len(versions)
  BY LenProperties DEF PageTypes
<1>2. time \in Nat /\ live \in Nat
  BY <1>1 DEF VersionRecord
<1>3. /\ row \in VersionRecord /\ row.entry = versions[i].entry /\ row.status = status
      /\ row.fields = fields /\ row.created = versions[i].created /\ row.updated = time
      /\ row.lastLive = live
  <2> HIDE DEF time, live
  <2> QED BY <1>1, <1>2 DEF VersionRecord, VersionStatus
<1>4. Pages!Updated(i, status, fields) = table
  BY DEF Pages!Updated
<1> HIDE DEF row
<1>5. table \in Seq(VersionRecord) /\ Len(table) = Len(versions)
  BY <1>1, <1>3, ExceptSeq
<1>6. DOMAIN table = DOMAIN versions /\ table[i] = row
  BY <1>1
<1>7. \A j \in DOMAIN versions : j # i => table[j] = versions[j]
  BY <1>1
<1> QED BY <1>3, <1>4, <1>5, <1>6, <1>7

LEMMA VersionAdded ==
    ASSUME NEW table \in Seq(VersionRecord), NEW row \in VersionRecord
    PROVE  /\ Append(table, row) \in Seq(VersionRecord)
           /\ DOMAIN Append(table, row) = 1 .. Len(table) + 1
           /\ Len(Append(table, row)) = Len(table) + 1
           /\ Append(table, row)[Len(table) + 1] = row
           /\ DOMAIN table = 1 .. Len(table)
           /\ \A i \in DOMAIN table : Append(table, row)[i] = table[i]
  BY AppendProperties

LEMMA InitPageInv == ASSUME Pages!ManagedContentAssumption, Pages!Init PROVE PageInv
<1>1. PICK status \in {"N", "L"} :
        /\ versions = <<[entry |-> 1, status |-> status, fields |-> FirstPage, created |-> 0,
                     updated |-> 0, lastLive |-> 0]>>
        /\ wanted = IF status = "L" THEN {1} ELSE {}
  BY DEF Pages!Init
<1>2. FirstPage \in Pages!Fields
  BY DEF Pages!ManagedContentAssumption, Pages!Fields
<1>3. versions \in Seq(VersionRecord) /\ DOMAIN versions = {1} /\ Len(versions) = 1
      /\ versions[1] = [entry |-> 1, status |-> status, fields |-> FirstPage, created |-> 0,
                    updated |-> 0, lastLive |-> 0]
  BY <1>1, <1>2 DEF VersionRecord, VersionStatus
<1>4. PageTypes
  <2>1. form \in [Administrator -> [row : Nat, status : {"N", "L"},
            fields : Pages!Fields \cup {<<>>}]]
    BY DEF Pages!Init, Pages!NoForm
  <2>2. fill \in CacheRecord /\ pageCache \in CacheRecord
    BY DEF Pages!Init, Pages!NoCache, CacheRecord
  <2>3. \A e \in Administrator : at[e] = "list" /\ form[e].row = 0
    BY DEF Pages!Init, Pages!NoForm
  <2>4. wanted \subseteq DOMAIN versions /\ now = 0 /\ events = 0 /\ pageCache.since = 0
    BY <1>1, <1>3 DEF Pages!Init, Pages!NoCache
  <2>5. hasLink \in BOOLEAN /\ overtaken \in BOOLEAN
        /\ at \in [Administrator -> {"list", "form", "insert"}]
    BY DEF Pages!Init
  <2> QED BY <1>3, <2>1, <2>2, <2>3, <2>4, <2>5 DEF PageTypes, Pages!ManagedContentAssumption
<1>5. Pages!WantedIsLive
  BY <1>1, <1>3 DEF Pages!WantedIsLive, Pages!Live
<1> QED BY <1>3, <1>4, <1>5 DEF Pages!Init, PageInv, Pages!AnsweredIsSaved, Pages!KeptAfterLive,
                                UpdatedLate, Pages!ClearedIsGone, ShownSince, Pages!NoCache

-----------------------------------------------------------------------------
\* A new record is one that is not older than today, and live only if it was made so.
LEMMA NewRecord ==
    ASSUME PageTypes, NEW entry \in 1 .. Len(versions) + 1, NEW status \in {"N", "L"},
           NEW fields \in Pages!Fields
    PROVE  LET row == Pages!NewRow(entry, status, fields)
           IN  /\ row \in VersionRecord /\ row.entry = entry /\ row.status = status
               /\ row.fields = fields /\ row.created = now /\ row.updated = now
               /\ row.lastLive <= now
<1>1. now \in Nat /\ entry \in Nat
  BY LenProperties DEF PageTypes
<1> QED BY <1>1 DEF Pages!NewRow, VersionRecord, VersionStatus

\* delete_old_data changes nothing but the status of old records.
LEMMA AfterDeletion ==
    ASSUME PageTypes, Pages!DeleteOld
    PROVE  /\ versions' \in Seq(VersionRecord) /\ DOMAIN versions' = DOMAIN versions
           /\ Len(versions') = Len(versions)
           /\ \A i \in DOMAIN versions :
                 /\ versions'[i].entry = versions[i].entry
                 /\ versions'[i].fields = versions[i].fields
                 /\ versions'[i].created = versions[i].created
                 /\ versions'[i].updated = versions[i].updated
                 /\ versions'[i].lastLive = versions[i].lastLive
                 /\ versions'[i].status =
                       IF Pages!Old(versions[i]) THEN "gone" ELSE versions[i].status
<1>1. versions \in Seq(VersionRecord) /\ DOMAIN versions = 1 .. Len(versions)
          /\ Len(versions) \in Nat
      /\ \A i \in 1 .. Len(versions) : versions[i] \in VersionRecord
  BY LenProperties DEF PageTypes
<1>2. DOMAIN versions' = 1 .. Len(versions)
          /\ \A i \in 1 .. Len(versions) : versions'[i] \in VersionRecord
  BY <1>1 DEF Pages!DeleteOld, VersionRecord, VersionStatus
<1>3. versions' = [i \in 1 .. Len(versions) |->
                     IF Pages!Old(versions[i]) THEN [versions[i] EXCEPT !.status = "gone"]
                     ELSE versions[i]]
  BY <1>1 DEF Pages!DeleteOld
<1>4. versions' \in Seq(VersionRecord) /\ Len(versions') = Len(versions)
  BY <1>1, <1>2, <1>3
<1> QED BY <1>1, <1>2, <1>3, <1>4 DEF VersionRecord

\* The record that an editor was given is there, and what he may enter is of the form's kind.
LEMMA FormThere ==
    ASSUME PageTypes, NEW e \in Administrator, at[e] # "list"
    PROVE  /\ form[e].row \in DOMAIN versions /\ versions[form[e].row] \in VersionRecord
           /\ form[e].status \in {"N", "L"} /\ form[e].fields \in Pages!Fields
           /\ Pages!FieldsSaved(e) \in Pages!Fields
           /\ versions[form[e].row].entry \in 1 .. form[e].row
<1>1. versions \in Seq(VersionRecord) /\ DOMAIN versions = 1 .. Len(versions)
          /\ Len(versions) \in Nat
      /\ \A i \in 1 .. Len(versions) : versions[i] \in VersionRecord
  BY LenProperties DEF PageTypes
<1>2. form[e].row \in DOMAIN versions /\ form[e].status \in {"N", "L"}
          /\ form[e].fields \in Pages!Fields
  BY <1>1 DEF PageTypes
<1> QED BY <1>1, <1>2 DEF Pages!FieldsSaved, VersionRecord, PageTypes

\* The types hold of what the steps change: a table with one record more, or with one changed,
\* and the editors' forms.
VersionsTyped(table) ==
    /\ table \in Seq(VersionRecord) /\ Len(table) >= Len(versions)
    /\ \A i \in DOMAIN table :
          /\ table[i].entry \in 1 .. i
          /\ table[i].created <= now /\ table[i].updated <= now /\ table[i].lastLive <= now

LEMMA VersionsAppended ==
    ASSUME PageTypes, NEW entry \in 1 .. Len(versions) + 1, NEW status \in {"N", "L"},
           NEW fields \in Pages!Fields
    PROVE  VersionsTyped(Append(versions, Pages!NewRow(entry, status, fields)))
<1> DEFINE row == Pages!NewRow(entry, status, fields)
<1>1. /\ row \in VersionRecord /\ row.entry = entry /\ row.created = now /\ row.updated = now
      /\ row.lastLive <= now
  BY NewRecord
<1> HIDE DEF row
<1>2. versions \in Seq(VersionRecord) /\ now \in Nat /\ Len(versions) \in Nat
  BY LenProperties DEF PageTypes
<1>3. /\ Append(versions, row) \in Seq(VersionRecord)
      /\ DOMAIN Append(versions, row) = 1 .. Len(versions) + 1
      /\ Len(Append(versions, row)) = Len(versions) + 1
      /\ Append(versions, row)[Len(versions) + 1] = row
      /\ DOMAIN versions = 1 .. Len(versions)
      /\ \A i \in DOMAIN versions : Append(versions, row)[i] = versions[i]
  BY <1>1, <1>2, VersionAdded
<1>4. \A i \in DOMAIN versions :
         /\ versions[i].entry \in 1 .. i
         /\ versions[i].created <= now /\ versions[i].updated <= now
         /\ versions[i].lastLive <= now
  BY DEF PageTypes
<1> DEFINE table == Append(versions, row)
<1> HIDE DEF table
<1>5. ASSUME NEW i \in DOMAIN table
      PROVE  /\ table[i].entry \in 1 .. i
             /\ table[i].created <= now /\ table[i].updated <= now /\ table[i].lastLive <= now
  <2>1. CASE i = Len(versions) + 1
    BY <1>1, <1>2, <1>3, <2>1 DEF table
  <2>2. CASE i \in DOMAIN versions
    BY <1>3, <1>4, <2>2 DEF table
  <2> QED BY <1>2, <1>3, <2>1, <2>2 DEF table
<1>6. VersionsTyped(table)
  BY <1>2, <1>3, <1>5 DEF VersionsTyped, table
<1> QED BY <1>6 DEF table, row

LEMMA VersionsUpdated ==
    ASSUME PageTypes, NEW i \in DOMAIN versions, NEW status \in {"N", "L", "D", "S"},
           NEW fields \in Pages!Fields
    PROVE  VersionsTyped(Pages!Updated(i, status, fields))
<1> DEFINE table == Pages!Updated(i, status, fields)
<1>1. /\ table \in Seq(VersionRecord) /\ DOMAIN table = DOMAIN versions
      /\ Len(table) = Len(versions)
      /\ \A j \in DOMAIN versions : j # i => table[j] = versions[j]
      /\ table[i].entry = versions[i].entry /\ table[i].created = versions[i].created
      /\ table[i].updated \in {versions[i].updated, now}
      /\ table[i].lastLive \in {now, versions[i].lastLive}
  BY AfterUpdate
<1> HIDE DEF table
<1>2. now \in Nat /\ Len(versions) \in Nat
  BY LenProperties DEF PageTypes
<1>3. \A j \in DOMAIN versions :
         /\ versions[j].entry \in 1 .. j
         /\ versions[j].created <= now /\ versions[j].updated <= now
         /\ versions[j].lastLive <= now
  BY DEF PageTypes
<1>4. VersionsTyped(table)
  BY <1>1, <1>2, <1>3 DEF VersionsTyped
<1> QED BY <1>4 DEF table

LEMMA PageRestTyped ==
    ASSUME Pages!ManagedContentAssumption, PageTypes, VersionsTyped(versions'),
        hasLink' = hasLink,
           fill' = fill, pageCache' = pageCache, now' = now, overtaken' = overtaken,
           events' \in 0 .. PageEvents, events <= events', wanted' \subseteq DOMAIN versions',
           at' \in [Administrator -> {"list", "form", "insert"}],
           form' \in [Administrator -> [row : Nat, status : {"N", "L"},
               fields : Pages!Fields \cup {<<>>}]],
           \A e \in Administrator :
              /\ form'[e].row \in 0 .. Len(versions)
              /\ at'[e] # "list" => form'[e].row # 0 /\ form'[e].fields \in Pages!Fields
    PROVE  PageTypes'
<1>1. now \in Nat /\ Len(versions) \in Nat /\ Len(versions') \in Nat
  BY LenProperties DEF PageTypes, VersionsTyped
<1> QED BY <1>1 DEF PageTypes, VersionsTyped, Pages!ManagedContentAssumption

\* The steps of the program that write a record.
LEMMA PageTypesStep == ASSUME Pages!ManagedContentAssumption, PageTypes, [Pages!Next]_(Pages!vars)
    PROVE  PageTypes'
<1>1. versions \in Seq(VersionRecord) /\ DOMAIN versions = 1 .. Len(versions)
          /\ Len(versions) \in Nat
      /\ \A i \in 1 .. Len(versions) : versions[i] \in VersionRecord
  BY LenProperties DEF PageTypes
<1>2. ASSUME NEW e \in Administrator, Pages!Insert(e) PROVE PageTypes'
  <2>1. PICK f \in Pages!Entered : versions' = Append(versions,
            Pages!NewRow(Len(versions) + 1, "N", f))
    BY <1>2 DEF Pages!Insert, Pages!Write
  <2>2. VersionsTyped(versions')
    BY <1>1, <2>1, VersionsAppended DEF Pages!Entered
  <2>3. UNCHANGED <<hasLink, at, form, now, fill, pageCache, wanted, overtaken>>
        /\ events' = events + 1 /\ events < PageEvents
    BY <1>2 DEF Pages!Insert, Pages!Event
  <2>4. wanted' \subseteq DOMAIN versions'
    BY <1>1, <2>2, <2>3, LenProperties DEF VersionsTyped, PageTypes
  <2> QED BY <2>2, <2>3, <2>4, PageRestTyped DEF Pages!ManagedContentAssumption, PageTypes
<1>3. ASSUME NEW e \in Administrator, Pages!Open(e) PROVE PageTypes'
  BY <1>1, <1>3 DEF Pages!Open, Pages!Event, PageTypes, Pages!Entered,
                    Pages!ManagedContentAssumption
<1>4. ASSUME NEW e \in Administrator, Pages!SaveFails(e) PROVE PageTypes'
  BY <1>1, <1>4 DEF Pages!SaveFails, Pages!Back, PageTypes, Pages!NoForm
<1>5. ASSUME NEW e \in Administrator, Pages!SaveInPlace(e) PROVE PageTypes'
  <2>1. /\ form[e].row \in DOMAIN versions /\ form[e].status \in {"N", "L"}
        /\ Pages!FieldsSaved(e) \in Pages!Fields
        /\ versions[form[e].row].entry \in 1 .. form[e].row
    BY <1>5, FormThere DEF Pages!SaveInPlace
  <2>2. VersionsTyped(versions')
    BY <1>5, <2>1, VersionsUpdated DEF Pages!SaveInPlace, Pages!Write
  <2>3. wanted' \subseteq DOMAIN versions'
    BY <1>1, <1>5, <2>1, <2>2, LenProperties DEF Pages!SaveInPlace, Pages!WantedAfter,
                                                 VersionsTyped, PageTypes
  <2>4. /\ UNCHANGED <<hasLink, now, fill, pageCache, overtaken, events>>
        /\ at' = [at EXCEPT ![e] = "list"] /\ form' = [form EXCEPT ![e] = Pages!NoForm]
    BY <1>5 DEF Pages!SaveInPlace, Pages!Back
  <2> QED BY <1>1, <2>2, <2>3, <2>4, PageRestTyped DEF Pages!ManagedContentAssumption, PageTypes,
                                                       Pages!NoForm
<1>6. ASSUME NEW e \in Administrator, Pages!Archive(e) PROVE PageTypes'
  <2>1. /\ form[e].row \in DOMAIN versions /\ form[e].status \in {"N", "L"}
        /\ versions[form[e].row].fields \in Pages!Fields /\ form[e].fields \in Pages!Fields
        /\ versions[form[e].row].entry \in 1 .. form[e].row
    BY <1>6, FormThere DEF Pages!Archive, VersionRecord
  <2>2. VersionsTyped(versions')
    BY <1>6, <2>1, VersionsUpdated DEF Pages!Archive, Pages!Write
  <2>3. wanted' \subseteq DOMAIN versions'
    BY <1>1, <1>6, <2>1, <2>2, LenProperties DEF Pages!Archive, Pages!WantedAfter, VersionsTyped,
                                                 PageTypes
  <2>4. /\ UNCHANGED <<hasLink, now, fill, pageCache, overtaken, events, form>>
        /\ at' = [at EXCEPT ![e] = "insert"]
    BY <1>6 DEF Pages!Archive
  <2>5. form[e].row # 0
    BY <1>1, <2>1
  <2> QED BY <1>1, <2>1, <2>2, <2>3, <2>4, <2>5, PageRestTyped
             DEF Pages!ManagedContentAssumption, PageTypes
<1>7. ASSUME NEW e \in Administrator, Pages!InsertVersion(e) PROVE PageTypes'
  <2>1. /\ form[e].row \in DOMAIN versions /\ form[e].status \in {"N", "L"}
        /\ form[e].fields \in Pages!Fields /\ versions[form[e].row].entry \in 1 .. form[e].row
    BY <1>7, FormThere DEF Pages!InsertVersion
  <2>2. VersionsTyped(versions')
    BY <1>1, <1>7, <2>1, VersionsAppended DEF Pages!InsertVersion, Pages!Write
  <2>3. /\ UNCHANGED <<hasLink, now, fill, pageCache, overtaken, events, wanted>>
        /\ at' = [at EXCEPT ![e] = "list"] /\ form' = [form EXCEPT ![e] = Pages!NoForm]
    BY <1>7 DEF Pages!InsertVersion, Pages!Back
  <2>4. wanted' \subseteq DOMAIN versions'
    BY <1>1, <2>2, <2>3, LenProperties DEF VersionsTyped, PageTypes
  <2> QED BY <1>1, <2>2, <2>3, <2>4, PageRestTyped DEF Pages!ManagedContentAssumption, PageTypes,
                                                       Pages!NoForm
<1>8. ASSUME NEW e \in Administrator, Pages!InsertFails(e) PROVE PageTypes'
  <2>1. /\ UNCHANGED <<versions, hasLink, now, fill, pageCache, overtaken>>
        /\ at' = [at EXCEPT ![e] = "list"] /\ form' = [form EXCEPT ![e] = Pages!NoForm]
        /\ events' = events + 1 /\ events < PageEvents /\ wanted' \subseteq wanted
    BY <1>8 DEF Pages!InsertFails, Pages!Back, Pages!Event
  <2> QED BY <1>1, <2>1 DEF PageTypes, Pages!NoForm, Pages!ManagedContentAssumption
<1>9. ASSUME Pages!UpdateStatus PROVE PageTypes'
  <2>1. PICK i \in DOMAIN versions, status \in {"N", "L", "D"} :
           /\ versions' = Pages!Updated(i, status, versions[i].fields)
           /\ wanted' = Pages!WantedAfter(i, status)
    BY <1>9 DEF Pages!UpdateStatus, Pages!Write
  <2>2. VersionsTyped(versions')
    BY <1>1, <2>1, VersionsUpdated DEF VersionRecord
  <2>3. versions[i].entry \in 1 .. i
    BY DEF PageTypes
  <2>4. wanted' \subseteq DOMAIN versions'
    BY <1>1, <2>1, <2>2, <2>3, LenProperties DEF Pages!WantedAfter, VersionsTyped, PageTypes
  <2>5. UNCHANGED <<hasLink, now, fill, pageCache, overtaken, at, form>>
        /\ events' = events + 1 /\ events < PageEvents
    BY <1>9 DEF Pages!UpdateStatus, Pages!Event
  <2> QED BY <1>1, <2>2, <2>4, <2>5, PageRestTyped DEF Pages!ManagedContentAssumption, PageTypes
<1>10. ASSUME Pages!AddField \/ Pages!NextDay PROVE PageTypes'
  <2>1. UNCHANGED <<versions, at, form, fill, pageCache, wanted, overtaken>>
            /\ events' = events + 1
        /\ events < PageEvents /\ hasLink' \in BOOLEAN /\ now' \in {now, now + 1}
    BY <1>10 DEF Pages!AddField, Pages!NextDay, Pages!Event, PageTypes
  <2>2. \A i \in DOMAIN versions : versions[i].created <= now' /\ versions[i].updated <= now'
                                /\ versions[i].lastLive <= now'
    BY SMTT(60), <1>1, <2>1 DEF PageTypes, VersionRecord
  <2>3. now' \in Nat /\ now' <= events' /\ events' \in 0 .. PageEvents /\ pageCache.since <= now'
    BY <2>1 DEF PageTypes, CacheRecord, Pages!ManagedContentAssumption
  <2> QED BY <2>1, <2>2, <2>3 DEF PageTypes
<1>11. ASSUME Pages!DeleteOld PROVE PageTypes'
  <2>1. UNCHANGED <<hasLink, at, form, now, events, fill, pageCache, wanted, overtaken>>
    BY <1>11 DEF Pages!DeleteOld
  <2> QED BY <1>1, <1>11, <2>1, AfterDeletion DEF PageTypes
<1>12. Pages!Contents(versions) \subseteq Pages!Fields
  BY <1>1 DEF Pages!Contents, Pages!Live, VersionRecord
<1>13. ASSUME Pages!ReadContents \/ Pages!KeepContents \/ Pages!Expire \/ Pages!ClearCache
      PROVE  PageTypes'
  <2>1. UNCHANGED <<versions, hasLink, at, form, now, wanted>> /\ events' \in 0 .. PageEvents
        /\ events <= events'
    BY <1>13 DEF Pages!ReadContents, Pages!KeepContents, Pages!Expire, Pages!ClearCache,
                 Pages!Event, PageTypes, Pages!ManagedContentAssumption
  <2>2. fill' \in CacheRecord /\ pageCache' \in CacheRecord /\ pageCache'.since <= now
            /\ overtaken' \in BOOLEAN
    <3>1. fill \in CacheRecord /\ pageCache \in CacheRecord /\ pageCache.since <= now
              /\ now \in Nat
          /\ overtaken \in BOOLEAN /\ Pages!NoCache \in CacheRecord /\ Pages!NoCache.since = 0
      BY DEF PageTypes, Pages!NoCache, CacheRecord
    <3>2. CASE Pages!ReadContents
      BY <1>12, <3>1, <3>2 DEF Pages!ReadContents, CacheRecord
    <3>3. CASE Pages!KeepContents
      BY <3>1, <3>3 DEF Pages!KeepContents, CacheRecord
    <3>4. CASE Pages!Expire \/ Pages!ClearCache
      BY <3>1, <3>4 DEF Pages!Expire, Pages!ClearCache, CacheRecord
    <3> QED BY <1>13, <3>2, <3>3, <3>4
  <2> QED BY <1>1, <2>1, <2>2 DEF PageTypes, Pages!ManagedContentAssumption
<1>14. ASSUME UNCHANGED Pages!vars PROVE PageTypes'
  BY <1>14 DEF Pages!vars, PageTypes
<1> QED BY <1>2, <1>3, <1>4, <1>5, <1>6, <1>7, <1>8, <1>9, <1>10, <1>11, <1>13, <1>14
           DEF Pages!Next

-----------------------------------------------------------------------------
\* What keeps an entry on the pages.
IsLive(entry) ==
    \/ \E i \in Pages!Live(versions) : versions[i].entry = entry
    \/ \E e \in Administrator :
          at[e] = "insert" /\ form[e].status = "L" /\ versions[form[e].row].entry = entry

LEMMA LiveByInsertion ==
    ASSUME PageTypes, NEW e \in Administrator, at[e] = "insert"
    PROVE  form[e].row \in DOMAIN versions
  BY LenProperties DEF PageTypes

\* Where the records only get more, and live ones stay as they are.
LEMMA WantedKept ==
    ASSUME PageTypes, Pages!WantedIsLive, wanted' \subseteq wanted,
           DOMAIN versions \subseteq DOMAIN versions',
           \A i \in DOMAIN versions :
              versions'[i].entry = versions[i].entry /\ (versions[i].status = "L" =>
                  versions'[i].status = "L"),
           \A e \in Administrator : at[e] = "insert" => at'[e] = "insert" /\ form'[e] = form[e]
    PROVE  Pages!WantedIsLive'
<1> SUFFICES ASSUME NEW entry \in wanted' PROVE IsLive(entry)'
  BY DEF Pages!WantedIsLive, IsLive
<1>1. IsLive(entry)
  BY DEF Pages!WantedIsLive, IsLive
<1>2. CASE \E i \in Pages!Live(versions) : versions[i].entry = entry
  BY <1>2 DEF IsLive, Pages!Live
<1>3. CASE \E e \in Administrator :
             at[e] = "insert" /\ form[e].status = "L" /\ versions[form[e].row].entry = entry
  BY <1>3, LiveByInsertion DEF IsLive
<1> QED BY <1>1, <1>2, <1>3 DEF IsLive

LEMMA WantedAfterUpdate ==
    ASSUME PageTypes, Pages!WantedIsLive, NEW i \in DOMAIN versions, NEW status \in {"N",
        "L", "D"},
           NEW fields \in Pages!Fields, versions' = Pages!Updated(i, status, fields),
           wanted' = Pages!WantedAfter(i, status),
           \A e \in Administrator : at[e] = "insert" => at'[e] = "insert" /\ form'[e] = form[e]
    PROVE  Pages!WantedIsLive'
<1>1. /\ DOMAIN versions' = DOMAIN versions /\ versions'[i].entry = versions[i].entry
      /\ versions'[i].status = status
      /\ \A j \in DOMAIN versions : j # i => versions'[j] = versions[j]
  BY AfterUpdate
<1> SUFFICES ASSUME NEW entry \in wanted' PROVE IsLive(entry)'
  BY DEF Pages!WantedIsLive, IsLive
<1>2. CASE entry \notin wanted
  <2>1. status = "L" /\ entry = versions[i].entry
    BY <1>2 DEF Pages!WantedAfter
  <2> QED BY <1>1, <2>1 DEF IsLive, Pages!Live
<1>3. CASE entry \in wanted
  <2>1. IsLive(entry)
    BY <1>3 DEF Pages!WantedIsLive, IsLive
  <2>2. CASE \E e \in Administrator :
               at[e] = "insert" /\ form[e].status = "L" /\ versions[form[e].row].entry = entry
    BY <1>1, <2>2, LiveByInsertion DEF IsLive
  <2>3. CASE \E j \in Pages!Live(versions) : versions[j].entry = entry
    <3>1. PICK j \in Pages!Live(versions) : versions[j].entry = entry
      BY <2>3
    <3>2. CASE j # i
      BY <1>1, <3>1, <3>2 DEF IsLive, Pages!Live
    <3>3. CASE j = i
      <4>1. status = "L"
        BY <3>1, <3>3 DEF Pages!WantedAfter, Pages!Live
      <4> QED BY <1>1, <3>1, <3>3, <4>1 DEF IsLive, Pages!Live
    <3> QED BY <3>2, <3>3
  <2> QED BY <2>1, <2>2, <2>3 DEF IsLive
<1> QED BY <1>2, <1>3

LEMMA WantedStep == ASSUME PageTypes, Pages!WantedIsLive, [Pages!Next]_(Pages!vars)
    PROVE  Pages!WantedIsLive'
<1>1. versions \in Seq(VersionRecord) /\ DOMAIN versions = 1 .. Len(versions)
          /\ Len(versions) \in Nat
      /\ \A i \in 1 .. Len(versions) : versions[i] \in VersionRecord
  BY LenProperties DEF PageTypes
<1>2. ASSUME NEW e \in Administrator, Pages!Insert(e) PROVE Pages!WantedIsLive'
  <2>1. PICK f \in Pages!Entered : versions' = Append(versions,
            Pages!NewRow(Len(versions) + 1, "N", f))
    BY <1>2 DEF Pages!Insert, Pages!Write
  <2>2. Pages!NewRow(Len(versions) + 1, "N", f) \in VersionRecord
    <3>1. f \in Pages!Fields
      BY DEF Pages!Entered
    <3>2. Len(versions) + 1 \in 1 .. Len(versions) + 1
      BY <1>1
    <3> QED BY <3>1, <3>2, NewRecord
  <2>3. DOMAIN versions \subseteq DOMAIN versions'
            /\ \A i \in DOMAIN versions : versions'[i] = versions[i]
    BY <1>1, <2>1, <2>2, VersionAdded
  <2>4. UNCHANGED <<at, form, wanted>>
    BY <1>2 DEF Pages!Insert
  <2> QED BY <2>3, <2>4, WantedKept
<1>3. ASSUME NEW e \in Administrator, Pages!Open(e) \/ Pages!SaveFails(e)
      PROVE  Pages!WantedIsLive'
  <2>1. UNCHANGED <<versions, wanted>> /\ at[e] # "insert"
        /\ \A x \in Administrator : x # e => at'[x] = at[x] /\ form'[x] = form[x]
    BY <1>3 DEF Pages!Open, Pages!SaveFails, Pages!Back, PageTypes
  <2> QED BY <2>1, WantedKept
<1>4. ASSUME NEW e \in Administrator, Pages!SaveInPlace(e) PROVE Pages!WantedIsLive'
  <2>1. /\ form[e].row \in DOMAIN versions /\ form[e].status \in {"N", "L"}
        /\ Pages!FieldsSaved(e) \in Pages!Fields
    BY <1>4, FormThere DEF Pages!SaveInPlace
  <2>2. /\ versions' = Pages!Updated(form[e].row, form[e].status, Pages!FieldsSaved(e))
        /\ wanted' = Pages!WantedAfter(form[e].row, form[e].status) /\ at[e] # "insert"
        /\ \A x \in Administrator : x # e => at'[x] = at[x] /\ form'[x] = form[x]
    BY <1>4 DEF Pages!SaveInPlace, Pages!Write, Pages!Back, PageTypes
  <2> QED BY <2>1, <2>2, WantedAfterUpdate
<1>5. ASSUME NEW e \in Administrator, Pages!Archive(e) PROVE Pages!WantedIsLive'
  <2> DEFINE i == form[e].row
  <2>1. /\ i \in DOMAIN versions /\ form[e].status \in {"N", "L"}
        /\ versions[i].fields \in Pages!Fields
    BY <1>5, FormThere DEF Pages!Archive, VersionRecord
  <2>2. /\ versions' = Pages!Updated(i, "S", versions[i].fields)
        /\ wanted' = Pages!WantedAfter(i, form[e].status)
        /\ at[e] = "form" /\ at'[e] = "insert" /\ form' = form
        /\ \A x \in Administrator : x # e => at'[x] = at[x]
    BY <1>5 DEF Pages!Archive, Pages!Write, PageTypes
  <2>3. /\ DOMAIN versions' = DOMAIN versions /\ versions'[i].entry = versions[i].entry
        /\ \A j \in DOMAIN versions : j # i => versions'[j] = versions[j]
    BY <2>1, <2>2, AfterUpdate
  <2> SUFFICES ASSUME NEW entry \in wanted' PROVE IsLive(entry)'
    BY SMTT(60) DEF Pages!WantedIsLive, IsLive
  <2>4. CASE entry = versions[i].entry /\ form[e].status = "L"
    BY <2>2, <2>3, <2>4 DEF IsLive
  <2>5. CASE ~(entry = versions[i].entry /\ form[e].status = "L")
    <3>1. entry \in wanted /\ (entry = versions[i].entry => versions[i].status # "L")
      BY <2>2, <2>5 DEF Pages!WantedAfter
    <3>2. IsLive(entry)
      BY SMTT(60), <3>1 DEF Pages!WantedIsLive, IsLive
    <3>3. CASE \E x \in Administrator :
                 at[x] = "insert" /\ form[x].status = "L" /\ versions[form[x].row].entry = entry
      BY ZenonT(60), <2>2, <2>3, <3>3, LiveByInsertion DEF IsLive
    <3>4. CASE \E j \in Pages!Live(versions) : versions[j].entry = entry
      BY <2>3, <3>1, <3>4 DEF IsLive, Pages!Live
    <3> QED BY <3>2, <3>3, <3>4 DEF IsLive
  <2> QED BY <2>4, <2>5
<1>6. ASSUME NEW e \in Administrator, Pages!InsertVersion(e) PROVE Pages!WantedIsLive'
  <2> DEFINE last == Len(versions) + 1
             row == Pages!NewRow(versions[form[e].row].entry, form[e].status, form[e].fields)
  <2>1. /\ form[e].row \in DOMAIN versions /\ form[e].status \in {"N", "L"}
        /\ form[e].fields \in Pages!Fields /\ versions[form[e].row].entry \in 1 .. form[e].row
    BY <1>6, FormThere DEF Pages!InsertVersion
  <2>2. row \in VersionRecord /\ row.entry = versions[form[e].row].entry
            /\ row.status = form[e].status
    BY <1>1, <2>1, NewRecord
  <2>3. versions' = Append(versions, row) /\ UNCHANGED wanted
        /\ \A x \in Administrator : x # e => at'[x] = at[x] /\ form'[x] = form[x]
    BY <1>6 DEF Pages!InsertVersion, Pages!Write, Pages!Back, PageTypes
  <2> HIDE DEF row
  <2>4. /\ DOMAIN versions \subseteq DOMAIN versions'
               /\ \A j \in DOMAIN versions : versions'[j] = versions[j]
        /\ last \in DOMAIN versions' /\ versions'[last] = row
    BY <1>1, <2>2, <2>3, VersionAdded
  <2> SUFFICES ASSUME NEW entry \in wanted' PROVE IsLive(entry)'
    BY DEF Pages!WantedIsLive, IsLive
  <2>5. IsLive(entry)
    BY <2>3 DEF Pages!WantedIsLive, IsLive
  <2>6. CASE \E j \in Pages!Live(versions) : versions[j].entry = entry
    BY <2>4, <2>6 DEF IsLive, Pages!Live
  <2>7. CASE form[e].status = "L" /\ versions[form[e].row].entry = entry
    BY <2>2, <2>4, <2>7 DEF IsLive, Pages!Live
  <2>8. CASE \E x \in Administrator \ {e} :
               at[x] = "insert" /\ form[x].status = "L" /\ versions[form[x].row].entry = entry
    BY <2>3, <2>4, <2>8, LiveByInsertion DEF IsLive
  <2> QED BY <2>5, <2>6, <2>7, <2>8 DEF IsLive
<1>7. ASSUME NEW e \in Administrator, Pages!InsertFails(e) PROVE Pages!WantedIsLive'
  <2>1. UNCHANGED versions /\ wanted' = wanted \ {versions[form[e].row].entry}
        /\ \A x \in Administrator : x # e => at'[x] = at[x] /\ form'[x] = form[x]
    BY <1>7 DEF Pages!InsertFails, Pages!Back, PageTypes
  <2> QED BY <2>1 DEF Pages!WantedIsLive
<1>8. ASSUME Pages!UpdateStatus PROVE Pages!WantedIsLive'
  <2>1. PICK i \in DOMAIN versions, status \in {"N", "L", "D"} :
           /\ versions' = Pages!Updated(i, status, versions[i].fields)
           /\ wanted' = Pages!WantedAfter(i, status)
    BY <1>8 DEF Pages!UpdateStatus, Pages!Write
  <2>2. UNCHANGED <<at, form>> /\ versions[i].fields \in Pages!Fields
    BY <1>1, <1>8 DEF Pages!UpdateStatus, VersionRecord
  <2> QED BY <2>1, <2>2, WantedAfterUpdate
<1>9. ASSUME Pages!DeleteOld PROVE Pages!WantedIsLive'
  <2>1. UNCHANGED <<at, form, wanted>>
    BY <1>9 DEF Pages!DeleteOld
  <2>2. \A i \in DOMAIN versions : versions[i].status = "L" => versions'[i].status = "L"
    BY <1>9, AfterDeletion DEF Pages!Old
  <2> QED BY <1>9, <2>1, <2>2, AfterDeletion, WantedKept
<1>10. ASSUME UNCHANGED <<versions, at, form, wanted>> PROVE Pages!WantedIsLive'
  BY <1>10, WantedKept
<1> QED BY <1>2, <1>3, <1>4, <1>5, <1>6, <1>7, <1>8, <1>9, <1>10
           DEF Pages!Next, Pages!vars, Pages!AddField, Pages!NextDay, Pages!ReadContents,
               Pages!KeepContents, Pages!Expire, Pages!ClearCache

-----------------------------------------------------------------------------
LEMMA AnsweredStep == ASSUME PageTypes, Pages!AnsweredIsSaved, [Pages!Next]_(Pages!vars)
    PROVE  Pages!AnsweredIsSaved'
<1>1. ASSUME NEW e \in Administrator, Pages!SaveInPlace(e) PROVE Pages!AnsweredIsSaved'
  <2> DEFINE i == form[e].row
  <2>1. /\ i \in DOMAIN versions /\ form[e].status \in {"N", "L"}
        /\ Pages!FieldsSaved(e) \in Pages!Fields
    BY <1>1, FormThere DEF Pages!SaveInPlace
  <2>2. versions' = Pages!Updated(i, form[e].status, Pages!FieldsSaved(e))
        /\ saved' = saved \cup {[had |-> versions[i].fields, sent |-> form[e].fields,
                                       has |-> versions'[i].fields]}
    BY <1>1 DEF Pages!SaveInPlace, Pages!Write, Pages!Back
  <2>3. versions'[i].fields = Pages!FieldsSaved(e)
    BY <2>1, <2>2, AfterUpdate
  <2>4. \/ Pages!FieldsSaved(e) = form[e].fields
        \/ /\ Pages!FieldsSaved(e) = versions[i].fields
           /\ \A k \in DOMAIN versions[i].fields : form[e].fields[k] = versions[i].fields[k]
    BY DEF Pages!FieldsSaved, Pages!Differs
  <2> QED BY <2>2, <2>3, <2>4 DEF Pages!AnsweredIsSaved
<1>2. ASSUME NEW e \in Administrator, Pages!InsertVersion(e) PROVE Pages!AnsweredIsSaved'
  BY <1>2 DEF Pages!InsertVersion, Pages!Back, Pages!AnsweredIsSaved
<1>3. ASSUME UNCHANGED saved PROVE Pages!AnsweredIsSaved'
  BY <1>3 DEF Pages!AnsweredIsSaved
<1> QED BY <1>1, <1>2, <1>3 DEF Pages!Next, Pages!vars, Pages!Insert, Pages!Open,
                                Pages!SaveFails, Pages!Archive, Pages!InsertFails, Pages!Back,
                                Pages!UpdateStatus, Pages!AddField, Pages!NextDay,
                                Pages!DeleteOld, Pages!ReadContents, Pages!KeepContents,
                                Pages!Expire, Pages!ClearCache

-----------------------------------------------------------------------------
\* A record that has been live was updated when it ceased to be so, at the earliest.
KeptInv == Pages!KeptAfterLive /\ UpdatedLate

LEMMA KeptByVersions ==
    ASSUME KeptInv, DOMAIN versions' = DOMAIN versions, now' = now,
           \A i \in DOMAIN versions :
              \/ versions'[i] = versions[i]
              \/ versions'[i].status # "gone"
                 /\ (versions'[i].status # "L" => versions'[i].lastLive <= versions'[i].updated)
    PROVE  KeptInv'
  BY DEF KeptInv, Pages!KeptAfterLive, UpdatedLate

LEMMA KeptAfterUpdate ==
    ASSUME PageTypes, KeptInv, NEW i \in DOMAIN versions, NEW status \in {"N", "L", "D", "S"},
           NEW fields \in Pages!Fields, versions' = Pages!Updated(i, status, fields), now' = now
    PROVE  KeptInv'
<1>1. /\ DOMAIN versions' = DOMAIN versions /\ versions'[i].status = status
      /\ \A j \in DOMAIN versions : j # i => versions'[j] = versions[j]
      /\ versions'[i].updated = IF versions[i].status = status /\ versions[i].fields = fields
                            THEN versions[i].updated ELSE now
      /\ versions'[i].lastLive = IF versions[i].status = "L" THEN now ELSE versions[i].lastLive
  BY AfterUpdate
<1>2. now \in Nat /\ versions[i].updated <= now /\ versions[i].lastLive <= now
      /\ (versions[i].status # "L" => versions[i].lastLive <= versions[i].updated)
  BY DEF PageTypes, KeptInv, UpdatedLate
<1>3. versions'[i].status # "L" => versions'[i].lastLive <= versions'[i].updated
  BY <1>1, <1>2
<1> QED BY <1>1, <1>3, KeptByVersions

LEMMA KeptAfterAppend ==
    ASSUME PageTypes, KeptInv, NEW entry \in 1 .. Len(versions) + 1, NEW status \in {"N", "L"},
           NEW fields \in Pages!Fields, versions' = Append(versions, Pages!NewRow(entry,
               status, fields)), now' = now
    PROVE  KeptInv'
<1> DEFINE row == Pages!NewRow(entry, status, fields)
<1>1. row \in VersionRecord /\ row.status = status /\ row.updated = now /\ row.lastLive <= now
  BY NewRecord
<1>2. versions' = Append(versions, row) /\ versions \in Seq(VersionRecord)
          /\ Len(versions) \in Nat
  BY LenProperties DEF PageTypes
<1> HIDE DEF row
<1>3. DOMAIN versions' = DOMAIN versions \cup {Len(versions) + 1}
          /\ versions'[Len(versions) + 1] = row
      /\ \A i \in DOMAIN versions : versions'[i] = versions[i]
  BY <1>1, <1>2, VersionAdded
<1> QED BY <1>1, <1>3 DEF KeptInv, Pages!KeptAfterLive, UpdatedLate

LEMMA KeptStep ==
    ASSUME Pages!ManagedContentAssumption, PageTypes, KeptInv, [Pages!Next]_(Pages!vars)
          PROVE  KeptInv'
<1>1. versions \in Seq(VersionRecord) /\ DOMAIN versions = 1 .. Len(versions)
          /\ Len(versions) \in Nat
      /\ \A i \in 1 .. Len(versions) : versions[i] \in VersionRecord
  BY LenProperties DEF PageTypes
<1>2. ASSUME NEW e \in Administrator, Pages!Insert(e) PROVE KeptInv'
  BY <1>1, <1>2, KeptAfterAppend DEF Pages!Insert, Pages!Write, Pages!Entered
<1>3. ASSUME NEW e \in Administrator, Pages!SaveInPlace(e) PROVE KeptInv'
  BY <1>3, FormThere, KeptAfterUpdate DEF Pages!SaveInPlace, Pages!Write
<1>4. ASSUME NEW e \in Administrator, Pages!Archive(e) PROVE KeptInv'
  BY <1>4, FormThere, KeptAfterUpdate DEF Pages!Archive, Pages!Write, VersionRecord
<1>5. ASSUME NEW e \in Administrator, Pages!InsertVersion(e) PROVE KeptInv'
  <2>1. /\ versions[form[e].row].entry \in 1 .. Len(versions) + 1 /\ form[e].status \in {"N", "L"}
        /\ form[e].fields \in Pages!Fields
    BY <1>1, <1>5, FormThere DEF Pages!InsertVersion
  <2> QED BY <1>5, <2>1, KeptAfterAppend DEF Pages!InsertVersion, Pages!Write
<1>6. ASSUME Pages!UpdateStatus PROVE KeptInv'
  BY <1>1, <1>6, KeptAfterUpdate DEF Pages!UpdateStatus, Pages!Write, VersionRecord
<1>7. ASSUME Pages!NextDay PROVE KeptInv'
  <2>1. \A i \in DOMAIN versions : versions[i].lastLive \in Nat
    BY <1>1 DEF VersionRecord
  <2>2. now \in Nat /\ PagesKept \in Nat /\ now' = now + 1 /\ UNCHANGED versions
    BY <1>7 DEF Pages!NextDay, PageTypes, Pages!ManagedContentAssumption
  <2> QED BY <2>1, <2>2 DEF KeptInv, Pages!KeptAfterLive, UpdatedLate
<1>8. ASSUME Pages!DeleteOld PROVE KeptInv'
  <2>1. now' = now
    BY <1>8 DEF Pages!DeleteOld
  <2>2. ASSUME NEW i \in DOMAIN versions', versions'[i].status = "gone"
        PROVE  versions'[i].lastLive + PagesKept < now'
    <3>1. CASE Pages!Old(versions[i])
      <4>1. i \in DOMAIN versions /\ versions'[i].lastLive = versions[i].lastLive
        BY <1>8, <2>2, AfterDeletion
      <4>2. versions[i].lastLive \in Nat /\ versions[i].updated \in Nat /\ now \in Nat
                /\ PagesKept \in Nat
        BY <1>1, <4>1 DEF VersionRecord, PageTypes, Pages!ManagedContentAssumption
      <4>3. versions[i].updated + PagesKept < now /\ versions[i].lastLive <= versions[i].updated
        BY <3>1, <4>1 DEF Pages!Old, KeptInv, UpdatedLate
      <4> QED BY <2>1, <4>1, <4>2, <4>3
    <3>2. CASE ~Pages!Old(versions[i])
      BY <1>8, <2>1, <2>2, <3>2, AfterDeletion DEF KeptInv, Pages!KeptAfterLive
    <3> QED BY <3>1, <3>2
  <2>3. UpdatedLate'
    BY <1>8, AfterDeletion DEF KeptInv, UpdatedLate, Pages!Old
  <2> QED BY <2>2, <2>3 DEF KeptInv, Pages!KeptAfterLive
<1>9. ASSUME UNCHANGED <<versions, now>> PROVE KeptInv'
  BY <1>9, KeptByVersions
<1> QED BY <1>2, <1>3, <1>4, <1>5, <1>6, <1>7, <1>8, <1>9
           DEF Pages!Next, Pages!vars, Pages!Open, Pages!SaveFails, Pages!InsertFails,
               Pages!AddField, Pages!ReadContents, Pages!KeepContents, Pages!Expire,
               Pages!ClearCache

-----------------------------------------------------------------------------
CacheInv == Pages!ClearedIsGone /\ ShownSince

LEMMA ShownStep == ASSUME PageTypes, CacheInv, [Pages!Next]_(Pages!vars) PROVE CacheInv'
<1>1. ASSUME Pages!Write(versions'), UNCHANGED <<pageCache, fill, overtaken>> PROVE CacheInv'
  BY <1>1 DEF Pages!Write, Pages!Contents, Pages!Live, CacheInv, Pages!ClearedIsGone, ShownSince
<1>2. ASSUME UNCHANGED <<pageCache, fill, overtaken, shown>>,
          Pages!Contents(versions)' = Pages!Contents(versions)
      PROVE  CacheInv'
  BY <1>2 DEF CacheInv, Pages!ClearedIsGone, ShownSince
<1>3. ASSUME UNCHANGED <<versions, pageCache, fill, overtaken, shown>> PROVE CacheInv'
  <2>1. Pages!Contents(versions)' = Pages!Contents(versions)
    BY <1>3
  <2> QED BY <1>2, <1>3, <2>1
<1>4. ASSUME NEW e \in Administrator,
             Pages!Insert(e) \/ Pages!SaveInPlace(e) \/ Pages!Archive(e)
                 \/ Pages!InsertVersion(e) \/ Pages!UpdateStatus
      PROVE  CacheInv'
  <2>1. UNCHANGED <<pageCache, fill, overtaken>>
    BY <1>4 DEF Pages!Insert, Pages!SaveInPlace, Pages!Archive, Pages!InsertVersion,
                Pages!UpdateStatus
  <2>2. Pages!Write(versions')
    BY <1>4 DEF Pages!Insert, Pages!SaveInPlace, Pages!Archive, Pages!InsertVersion,
                Pages!UpdateStatus, Pages!Write
  <2> QED BY <1>1, <2>1, <2>2
<1>5. ASSUME Pages!UpdateStatus PROVE CacheInv'
  BY <1>1, <1>5 DEF Pages!UpdateStatus, Pages!Write
<1>6. ASSUME Pages!DeleteOld PROVE CacheInv'
  <2>1. Pages!Live(versions') = Pages!Live(versions)
    BY <1>6, AfterDeletion DEF Pages!Live, Pages!Old
  <2>2. Pages!Contents(versions)' = Pages!Contents(versions)
    BY <1>6, <2>1, AfterDeletion DEF Pages!Contents, Pages!Live
  <2> QED BY <1>2, <1>6, <2>2 DEF Pages!DeleteOld
<1>7. ASSUME Pages!ReadContents PROVE CacheInv'
  BY <1>7 DEF Pages!ReadContents, CacheInv, Pages!ClearedIsGone, ShownSince
<1>8. ASSUME Pages!KeepContents PROVE CacheInv'
  BY <1>8 DEF Pages!KeepContents, CacheInv, Pages!ClearedIsGone, ShownSince, Pages!NoCache,
              PageTypes, CacheRecord
<1>9. ASSUME Pages!Expire \/ Pages!ClearCache PROVE CacheInv'
  BY <1>9 DEF Pages!Expire, Pages!ClearCache, CacheInv, Pages!ClearedIsGone, ShownSince,
              Pages!NoCache
<1> QED BY <1>3, <1>4, <1>5, <1>6, <1>7, <1>8, <1>9 DEF Pages!Next, Pages!vars, Pages!Open,
                                                        Pages!SaveFails, Pages!InsertFails,
                                                        Pages!AddField, Pages!NextDay

-----------------------------------------------------------------------------
LEMMA PageInvStep == ASSUME Pages!ManagedContentAssumption, PageInv, [Pages!Next]_(Pages!vars)
    PROVE  PageInv'
  BY PageTypesStep, WantedStep, AnsweredStep, KeptStep, ShownStep DEF PageInv, KeptInv, CacheInv

THEOREM PagesInvariant == ASSUME Pages!ManagedContentAssumption PROVE Pages!Spec => []PageInv
<1>1. Pages!Init => PageInv
  BY InitPageInv
<1>2. PageInv /\ [Pages!Next]_(Pages!vars) => PageInv'
  BY PageInvStep
<1> QED BY <1>1, <1>2, PTL DEF Pages!Spec

LEMMA PageTypesGive == ASSUME Pages!ManagedContentAssumption, PageTypes PROVE Pages!TypeOK
<1>1. \A i \in DOMAIN versions : versions[i] \in VersionRecord
  BY LenProperties DEF PageTypes
<1>2. \A i \in DOMAIN versions :
         /\ versions[i].fields \in Pages!Fields
         /\ versions[i].status \in {"N", "L", "D", "S", "gone"}
         /\ versions[i].updated \in 0 .. now /\ versions[i].lastLive \in 0 .. now
  BY SMTT(60), <1>1 DEF PageTypes, VersionRecord, VersionStatus
<1>3. now \in 0 .. PageEvents
  BY DEF PageTypes, Pages!ManagedContentAssumption
<1>4. fill.has \subseteq Pages!Fields /\ pageCache.has \subseteq Pages!Fields
          /\ pageCache.since \in 0 .. now
  BY DEF PageTypes, CacheRecord
<1> QED BY <1>2, <1>3, <1>4 DEF PageTypes, Pages!TypeOK

-----------------------------------------------------------------------------
(* ApiRequests: submissions by API (jper/views/webapi.py).                 *)

RequestPlaces == {"start", "create", "archive", "record", "answered", "dead"}
Ids == UNION {{s.items[i].id : i \in DOMAIN s.items} : s \in Requested}
DepositRecord == [note : Nat, ok : BOOLEAN, error : BOOLEAN, id : Nat, abend : BOOLEAN]
ItemPlace == [by : Requester, item : Nat]
RequestAnswer == [status : Nat]
    \cup [status : Nat, success : Seq(Ids), failed : Seq(Ids), created : Seq(Nat),
          lastError : BOOLEAN]
InStep(q) == requestAt[q] \in {"archive", "record"}

RequestTypes ==
    /\ asked \in [Requester -> Requested] /\ requestAt \in [Requester -> RequestPlaces]
    /\ itemAt \in [Requester -> Nat] /\ rec \in [Requester -> DepositRecord]
    /\ success \in [Requester -> Seq(Ids)] /\ failed \in [Requester -> Seq(Ids)]
    /\ created \in [Requester -> Seq(Nat)] /\ lastError \in [Requester -> BOOLEAN]
    /\ replied \in [Requester -> RequestAnswer]
    /\ newNotes \in Seq(ItemPlace) /\ newRecords \in Seq(DepositRecord)
    /\ archive \in [DOMAIN archive -> ItemPlace] /\ DOMAIN archive \subseteq 0 .. Len(newRecords)
    /\ tests \subseteq Requester /\ requestFaults \in [Requester -> 0 .. RequestFaults]

RequestsLinked ==
    /\ \A n \in DOMAIN newNotes : newNotes[n].item \in DOMAIN Requests!Items(newNotes[n].by)
    /\ \A k \in DOMAIN newRecords : newRecords[k].note <= Len(newNotes)
    /\ \A d \in DOMAIN archive : archive[d].item \in DOMAIN Requests!Items(archive[d].by)
    /\ \A q \in Requester :
          /\ itemAt[q] >= 1 /\ itemAt[q] <= Len(Requests!Items(q)) + 1
          /\ InStep(q) => itemAt[q] <= Len(Requests!Items(q))
                 /\ asked[q].what \in {"list", "single"}
          /\ rec[q].note <= Len(newNotes) /\ rec[q].id <= Len(newRecords)

LEMMA ItemsOf ==
    ASSUME Requests!RequestsAssumption, RequestTypes, NEW q \in Requester
    PROVE  /\ asked[q] \in Requested /\ asked[q].what \in Requests!What
           /\ Len(Requests!Items(q)) \in Nat
           /\ DOMAIN Requests!Items(q) = 1 .. Len(Requests!Items(q))
           /\ asked[q].what \in {"single", "validate"} => Len(Requests!Items(q)) = 1
           /\ \A i \in DOMAIN Requests!Items(q) :
                 /\ Requests!Items(q)[i].id \in Ids
                 /\ Requests!Items(q)[i].doc = "empty" => ~Requests!Items(q)[i].valid
<1>1. asked[q] \in Requested
  BY DEF RequestTypes
<1>2. asked[q].items \in Seq(Requests!Range(asked[q].items))
  BY <1>1 DEF Requests!RequestsAssumption
<1>3. Len(Requests!Items(q)) \in Nat /\ DOMAIN Requests!Items(q) = 1 .. Len(Requests!Items(q))
  BY <1>2, LenProperties DEF Requests!Items
<1>4. \A i \in DOMAIN Requests!Items(q) : Requests!Items(q)[i].id \in Ids
  BY <1>1 DEF Requests!Items, Ids
<1> QED BY <1>1, <1>3, <1>4 DEF Requests!RequestsAssumption, Requests!Items

LEMMA InitRequestTypes == ASSUME Requests!RequestsAssumption, Requests!Init
    PROVE  RequestTypes /\ RequestsLinked
<1>1. Requests!NoRec \in DepositRecord /\ Requests!NoRec.note = 0 /\ Requests!NoRec.id = 0
  BY DEF Requests!NoRec, DepositRecord
<1>2. Requests!Waiting \in RequestAnswer
  BY DEF Requests!Waiting, RequestAnswer
<1>3. <<>> \in Seq(Ids) /\ <<>> \in Seq(Nat) /\ <<>> \in Seq(ItemPlace)
          /\ <<>> \in Seq(DepositRecord)
      /\ Len(<<>>) = 0
  OBVIOUS
<1>4. RequestTypes
  BY <1>1, <1>2, <1>3 DEF Requests!Init, RequestTypes, RequestPlaces, Requests!RequestsAssumption
<1>5. \A q \in Requester : Len(Requests!Items(q)) \in Nat
  BY <1>4, ItemsOf
<1> QED BY <1>1, <1>3, <1>4, <1>5 DEF Requests!Init, RequestsLinked, InStep

-----------------------------------------------------------------------------
(* Steps of requests.                                                      *)

StepOf(q) ==
    \/ Requests!Start(q) \/ Requests!Validate(q) \/ Requests!Finish(q)
    \/ Requests!Create(q) \/ Requests!Record(q)
    \/ \E bad \in BOOLEAN : Requests!CreateFails(q, bad) \/ Requests!Archive(q, ~bad)
           \/ Requests!RecordFails(q, bad)

\* The other requests are not affected.
LEMMA RequestRest ==
    ASSUME RequestTypes, NEW q \in Requester, StepOf(q), NEW p \in Requester, p # q
    PROVE  /\ requestAt'[p] = requestAt[p] /\ itemAt'[p] = itemAt[p] /\ rec'[p] = rec[p]
           /\ replied'[p] = replied[p]
           /\ success'[p] = success[p] /\ failed'[p] = failed[p] /\ created'[p] = created[p]
           /\ lastError'[p] = lastError[p] /\ requestFaults'[p] = requestFaults[p]
           /\ p \in tests' <=> p \in tests
<1> USE DEF RequestTypes, Requests!Goto, Requests!Answered, Requests!Fault,
    Requests!handling, Requests!kept
<1>1. CASE Requests!Start(q) \/ Requests!Validate(q) \/ Requests!Finish(q)
  BY <1>1 DEF Requests!Start, Requests!Validate, Requests!Finish
<1>2. CASE Requests!Create(q)
  BY SMTT(60), <1>2 DEF Requests!Create
<1>3. CASE Requests!Record(q)
  BY SMTT(60), <1>3 DEF Requests!Record
<1>4. ASSUME NEW bad \in BOOLEAN, Requests!CreateFails(q, bad)
      PROVE  /\ requestAt'[p] = requestAt[p] /\ itemAt'[p] = itemAt[p] /\ rec'[p] = rec[p]
             /\ replied'[p] = replied[p]
             /\ success'[p] = success[p] /\ failed'[p] = failed[p] /\ created'[p] = created[p]
             /\ lastError'[p] = lastError[p] /\ requestFaults'[p] = requestFaults[p]
             /\ tests' = tests
  BY SMTT(60), <1>4 DEF Requests!CreateFails
<1>5. ASSUME NEW bad \in BOOLEAN, Requests!Archive(q, ~bad)
      PROVE  /\ requestAt'[p] = requestAt[p] /\ itemAt'[p] = itemAt[p] /\ rec'[p] = rec[p]
             /\ replied'[p] = replied[p]
             /\ success'[p] = success[p] /\ failed'[p] = failed[p] /\ created'[p] = created[p]
             /\ lastError'[p] = lastError[p] /\ requestFaults'[p] = requestFaults[p]
             /\ tests' = tests
  BY SMTT(60), <1>5 DEF Requests!Archive
<1>6. ASSUME NEW bad \in BOOLEAN, Requests!RecordFails(q, bad)
      PROVE  /\ requestAt'[p] = requestAt[p] /\ itemAt'[p] = itemAt[p] /\ rec'[p] = rec[p]
             /\ replied'[p] = replied[p]
             /\ success'[p] = success[p] /\ failed'[p] = failed[p] /\ created'[p] = created[p]
             /\ lastError'[p] = lastError[p] /\ requestFaults'[p] = requestFaults[p]
             /\ tests' = tests
  BY SMTT(60), <1>6 DEF Requests!RecordFails
<1> QED BY <1>1, <1>2, <1>3, <1>4, <1>5, <1>6 DEF StepOf

LEMMA OnlyTyped ==
    \A n \in Nat : Requests!Only(n) \in RequestAnswer /\ Requests!Only(n).status = n
  BY SMTT(60) DEF Requests!Only, RequestAnswer

\* What becomes of the tables.
LEMMA NotesGrow ==
    ASSUME RequestTypes, NEW q \in Requester, StepOf(q)
    PROVE  newNotes' = newNotes
        \/ (Requests!Create(q) /\ newNotes' = Append(newNotes, Requests!InHand(q)))
  BY ZenonT(60) DEF StepOf, Requests!Start, Requests!Validate, Requests!Finish, Requests!Create,
         Requests!CreateFails, Requests!Archive, Requests!Record, Requests!RecordFails,
         Requests!kept, Requests!InHand

LEMMA RecordsGrow ==
    ASSUME RequestTypes, NEW q \in Requester, StepOf(q)
    PROVE  \/ newRecords' = newRecords
           \/ /\ Requests!Record(q) /\ Requests!IsPublisher(q)
              /\ newRecords' = Append(newRecords, [rec[q] EXCEPT !.id = Len(newRecords) + 1])
  BY ZenonT(60) DEF StepOf, Requests!Start, Requests!Validate, Requests!Finish, Requests!Create,
         Requests!CreateFails, Requests!Archive, Requests!Record, Requests!RecordFails,
         Requests!kept

LEMMA ArchiveGrows ==
    ASSUME RequestTypes, NEW q \in Requester, StepOf(q)
    PROVE  \/ archive' = archive
           \/ Requests!Archive(q, TRUE)
                  /\ archive' = Requests!With(archive, rec[q].id, Requests!InHand(q))
  BY DEF StepOf, Requests!Start, Requests!Validate, Requests!Finish, Requests!Create,
         Requests!CreateFails, Requests!Archive, Requests!Record, Requests!RecordFails,
         Requests!kept

\* Assignments to one request.
LEMMA Assigned ==
    ASSUME NEW S, NEW f \in [Requester -> S], NEW q \in Requester, NEW x \in S
    PROVE  [f EXCEPT ![q] = x] \in [Requester -> S]
  OBVIOUS

LEMMA PcTyped ==
    ASSUME requestAt \in [Requester -> RequestPlaces], NEW q \in Requester,
        NEW step \in RequestPlaces, Requests!Goto(q, step)
    PROVE  requestAt' \in [Requester -> RequestPlaces]
  BY DEF Requests!Goto

LEMMA AnswerTyped ==
    ASSUME requestAt \in [Requester -> RequestPlaces],
        replied \in [Requester -> RequestAnswer], NEW q \in Requester,
           NEW given \in RequestAnswer, Requests!Answered(q, given)
    PROVE  requestAt' \in [Requester -> RequestPlaces]
        /\ replied' \in [Requester -> RequestAnswer]
<1>1. "answered" \in RequestPlaces
  BY DEF RequestPlaces
<1> QED BY <1>1 DEF Requests!Answered

LEMMA FaultTyped ==
    ASSUME Requests!RequestsAssumption, requestFaults \in [Requester -> 0 .. RequestFaults],
        NEW q \in Requester, Requests!Fault(q)
    PROVE  requestFaults' \in [Requester -> 0 .. RequestFaults]
  BY DEF Requests!Fault, Requests!RequestsAssumption

LEMMA StartTypes ==
    ASSUME Requests!RequestsAssumption, RequestTypes, NEW q \in Requester,
           Requests!Start(q)
    PROVE  RequestTypes'
<1>1. Requests!Refusal(asked[q].acc, asked[q].what) \in {0, 401, 403}
  BY DEF Requests!Refusal
<1>2. Requests!Only(Requests!Refusal(asked[q].acc, asked[q].what)) \in RequestAnswer
  BY <1>1, OnlyTyped
<1>3. "create" \in RequestPlaces /\ requestAt \in [Requester -> RequestPlaces]
          /\ replied \in [Requester -> RequestAnswer]
  BY DEF RequestPlaces, RequestTypes
<1>4. replied' \in [Requester -> RequestAnswer] /\ requestAt' \in [Requester -> RequestPlaces]
  BY <1>2, <1>3, AnswerTyped, PcTyped DEF Requests!Start
<1> QED BY <1>4 DEF Requests!Start, RequestTypes, Requests!handling, Requests!kept

LEMMA ValidateTypes ==
    ASSUME Requests!RequestsAssumption, RequestTypes, NEW q \in Requester, Requests!Validate(q)
          PROVE  RequestTypes'
<1>1. Requests!Only(Requests!Validation(q)) \in RequestAnswer
  BY OnlyTyped DEF Requests!Validation
<1>2. requestAt \in [Requester -> RequestPlaces] /\ replied \in [Requester -> RequestAnswer]
  BY DEF RequestTypes
<1>3. replied' \in [Requester -> RequestAnswer] /\ requestAt' \in [Requester -> RequestPlaces]
  BY <1>1, <1>2, AnswerTyped DEF Requests!Validate
<1>4. tests' \subseteq Requester
  BY DEF Requests!Validate, RequestTypes
<1> QED BY <1>3, <1>4 DEF Requests!Validate, RequestTypes, Requests!handling

LEMMA FinishTypes ==
    ASSUME Requests!RequestsAssumption, RequestTypes, NEW q \in Requester, Requests!Finish(q)
          PROVE  RequestTypes'
<1>1. Requests!Report(q) \in RequestAnswer
  <2>1. success[q] \in Seq(Ids) /\ failed[q] \in Seq(Ids) /\ created[q] \in Seq(Nat)
    BY DEF RequestTypes
  <2>2. (IF failed[q] = <<>> THEN 201 ELSE 202) \in Nat
        /\ (IF Requests!IsPublisher(q) THEN created[q] ELSE <<>>) \in Seq(Nat)
        /\ (Requests!IsPublisher(q) /\ lastError[q]) \in BOOLEAN
    BY <2>1
  <2> QED BY <2>1, <2>2 DEF Requests!Report, RequestAnswer
<1>2. requestAt \in [Requester -> RequestPlaces] /\ replied \in [Requester -> RequestAnswer]
  BY DEF RequestTypes
<1>3. replied' \in [Requester -> RequestAnswer] /\ requestAt' \in [Requester -> RequestPlaces]
  BY <1>1, <1>2, AnswerTyped DEF Requests!Finish
<1> QED BY <1>3 DEF Requests!Finish, RequestTypes, Requests!handling, Requests!kept

LEMMA AfterTyped == \A q, archived : Requests!After(q, archived) \in RequestPlaces
  BY DEF Requests!After, RequestPlaces

LEMMA CreateTypes ==
    ASSUME Requests!RequestsAssumption, RequestTypes, RequestsLinked, NEW q \in Requester,
           Requests!Create(q)
          PROVE  RequestTypes'
<1>0. /\ requestAt \in [Requester -> RequestPlaces] /\ rec \in [Requester -> DepositRecord]
      /\ success \in [Requester -> Seq(Ids)] /\ created \in [Requester -> Seq(Nat)]
      /\ lastError \in [Requester -> BOOLEAN] /\ newNotes \in Seq(ItemPlace)
      /\ itemAt[q] \in Nat
  BY DEF RequestTypes
<1>1. newNotes' \in Seq(ItemPlace) /\ Len(newNotes') = Len(newNotes) + 1 /\ Len(newNotes) \in Nat
  <2>1. [by |-> q, item |-> itemAt[q]] \in ItemPlace
    BY <1>0 DEF ItemPlace
  <2> QED BY <1>0, <2>1, AppendProperties, LenProperties DEF Requests!Create
<1>2. Requests!Item(q).id \in Ids
  <2>1. itemAt[q] \in DOMAIN Requests!Items(q)
    BY <1>0, ItemsOf DEF Requests!Create, Requests!Creating, RequestsLinked
  <2> QED BY <2>1, ItemsOf DEF Requests!Item
<1>3. rec' \in [Requester -> DepositRecord]
  <2>1. [Requests!NoRec EXCEPT !.ok = TRUE, !.note = Len(newNotes')] \in DepositRecord
        /\ [Requests!NoRec EXCEPT !.error = TRUE] \in DepositRecord
    <3>1. \A n \in Nat : [Requests!NoRec EXCEPT !.ok = TRUE, !.note = n] \in DepositRecord
          /\ [Requests!NoRec EXCEPT !.error = TRUE] \in DepositRecord
      BY DEF Requests!NoRec, DepositRecord
    <3>2. Len(newNotes') \in Nat
      BY <1>1
    <3> QED BY <3>1, <3>2
  <2>2. \/ rec' = [rec EXCEPT ![q] = [Requests!NoRec EXCEPT !.ok = TRUE, !.note = Len(newNotes')]]
        \/ rec' = [rec EXCEPT ![q] = [Requests!NoRec EXCEPT !.error = TRUE]]
    BY DEF Requests!Create
  <2> QED BY <1>0, <2>1, <2>2, Assigned
<1>4. success' \in [Requester -> Seq(Ids)] /\ created' \in [Requester -> Seq(Nat)]
  <2>1. Append(success[q], Requests!Item(q).id) \in Seq(Ids)
        /\ Append(created[q], Len(newNotes')) \in Seq(Nat)
    BY <1>0, <1>1, <1>2, AppendProperties
  <2>2. success' = success \/ success' = [success EXCEPT ![q] = Append(success[q],
            Requests!Item(q).id)]
    BY <1>0 DEF Requests!Create
  <2>3. created' = created \/ created' = [created EXCEPT ![q] = Append(created[q],
            Len(newNotes'))]
    BY <1>0 DEF Requests!Create
  <2>4. success' \in [Requester -> Seq(Ids)]
    BY <1>0, <2>1, <2>2, Assigned
  <2>5. created' \in [Requester -> Seq(Nat)]
    BY <1>0, <2>1, <2>3, Assigned
  <2> QED BY <2>4, <2>5
<1>5. requestAt' \in [Requester -> RequestPlaces] /\ lastError' \in [Requester -> BOOLEAN]
  BY <1>0, AfterTyped, PcTyped DEF Requests!Create
<1> QED BY <1>1, <1>3, <1>4, <1>5 DEF Requests!Create, RequestTypes

LEMMA CreateFailsTypes ==
    ASSUME Requests!RequestsAssumption, RequestTypes, RequestsLinked, NEW q \in Requester,
        NEW abend \in BOOLEAN,
           Requests!CreateFails(q, abend)
    PROVE  RequestTypes'
<1>0. /\ requestAt \in [Requester -> RequestPlaces] /\ rec \in [Requester -> DepositRecord]
      /\ failed \in [Requester -> Seq(Ids)] /\ lastError \in [Requester -> BOOLEAN]
      /\ replied \in [Requester -> RequestAnswer]
      /\ requestFaults \in [Requester -> 0 .. RequestFaults]
      /\ itemAt[q] \in Nat /\ "dead" \in RequestPlaces
  BY DEF RequestTypes, RequestPlaces
<1>1. Requests!Item(q).id \in Ids
  <2>1. itemAt[q] \in DOMAIN Requests!Items(q)
    BY <1>0, ItemsOf DEF Requests!CreateFails, Requests!Creating, RequestsLinked
  <2> QED BY <2>1, ItemsOf DEF Requests!Item
<1>2. rec' \in [Requester -> DepositRecord]
  <2>1. [Requests!NoRec EXCEPT !.error = TRUE, !.abend = abend] \in DepositRecord
    BY DEF Requests!NoRec, DepositRecord
  <2>2. \/ rec' = rec
        \/ rec' = [rec EXCEPT ![q] = [Requests!NoRec EXCEPT !.error = TRUE, !.abend = abend]]
    BY DEF Requests!CreateFails
  <2> QED BY <1>0, <2>1, <2>2, Assigned
<1>3. failed' \in [Requester -> Seq(Ids)]
  <2>1. Append(failed[q], Requests!Item(q).id) \in Seq(Ids)
    BY <1>0, <1>1, AppendProperties
  <2>2. failed' = failed \/ failed' = [failed EXCEPT ![q] = Append(failed[q],
            Requests!Item(q).id)]
    BY <1>0 DEF Requests!CreateFails
  <2> QED BY <1>0, <2>1, <2>2, Assigned
<1>4. requestAt' \in [Requester -> RequestPlaces] /\ replied' \in [Requester -> RequestAnswer]
  <2>1. Requests!Only(400) \in RequestAnswer
    BY OnlyTyped
  <2> QED BY <1>0, <2>1, AfterTyped, PcTyped, AnswerTyped DEF Requests!CreateFails
<1>5. requestFaults' \in [Requester -> 0 .. RequestFaults]
  BY <1>0, FaultTyped DEF Requests!CreateFails
<1>6. lastError' \in [Requester -> BOOLEAN]
  BY <1>0 DEF Requests!CreateFails
<1> QED BY <1>2, <1>3, <1>4, <1>5, <1>6 DEF Requests!CreateFails, RequestTypes, Requests!kept

LEMMA ArchiveTypes ==
    ASSUME Requests!RequestsAssumption, RequestTypes, RequestsLinked, NEW q \in Requester,
        NEW written \in BOOLEAN,
           Requests!Archive(q, written)
    PROVE  RequestTypes'
<1>0. /\ requestAt \in [Requester -> RequestPlaces] /\ rec[q] \in DepositRecord
      /\ rec[q].id <= Len(newRecords)
      /\ replied \in [Requester -> RequestAnswer]
      /\ requestFaults \in [Requester -> 0 .. RequestFaults]
      /\ itemAt[q] \in Nat /\ "dead" \in RequestPlaces /\ "record" \in RequestPlaces
      /\ newRecords \in Seq(DepositRecord)
  BY DEF RequestTypes, RequestPlaces, RequestsLinked
<1>1. Requests!InHand(q) \in ItemPlace /\ rec[q].id \in 0 .. Len(newRecords)
  BY <1>0, LenProperties DEF Requests!InHand, ItemPlace, DepositRecord
<1>2. archive' \in [DOMAIN archive' -> ItemPlace]
          /\ DOMAIN archive' \subseteq 0 .. Len(newRecords)
  <2>1. archive \in [DOMAIN archive -> ItemPlace] /\ DOMAIN archive \subseteq 0 .. Len(newRecords)
    BY DEF RequestTypes
  <2>2. archive' = archive \/ archive' = Requests!With(archive, rec[q].id, Requests!InHand(q))
    BY DEF Requests!Archive
  <2>3. CASE archive' = Requests!With(archive, rec[q].id, Requests!InHand(q))
    <3>1. DOMAIN archive' = DOMAIN archive \cup {rec[q].id}
      BY <2>3 DEF Requests!With
    <3>2. archive' \in [DOMAIN archive' -> ItemPlace]
      BY <1>1, <2>1, <2>3, <3>1 DEF Requests!With
    <3> QED BY <1>1, <2>1, <3>1, <3>2
  <2> QED BY <2>1, <2>2, <2>3
<1>3. requestAt' \in [Requester -> RequestPlaces] /\ replied' \in [Requester -> RequestAnswer]
  <2>1. Requests!Only(IF rec[q].ok THEN 201 ELSE 400) \in RequestAnswer
    BY OnlyTyped
  <2> QED BY <1>0, <2>1, PcTyped, AnswerTyped DEF Requests!Archive
<1>4. requestFaults' \in [Requester -> 0 .. RequestFaults]
  BY <1>0, FaultTyped DEF Requests!Archive
<1> QED BY <1>2, <1>3, <1>4 DEF Requests!Archive, RequestTypes, Requests!handling

LEMMA RecordTypes ==
    ASSUME Requests!RequestsAssumption, RequestTypes, RequestsLinked, NEW q \in Requester,
           Requests!Record(q)
          PROVE  RequestTypes'
<1> DEFINE new == [rec[q] EXCEPT !.id = Len(newRecords) + 1]
<1>0. /\ requestAt \in [Requester -> RequestPlaces] /\ rec \in [Requester -> DepositRecord]
      /\ replied \in [Requester -> RequestAnswer] /\ itemAt \in [Requester -> Nat]
      /\ {"dead", "create", "archive"} \subseteq RequestPlaces
  BY DEF RequestTypes, RequestPlaces
<1>1. Len(newRecords) \in Nat /\ newRecords \in Seq(DepositRecord) /\ rec[q] \in DepositRecord
  BY LenProperties DEF RequestTypes
<1>2. new \in DepositRecord
  <2>1. Len(newRecords) + 1 \in Nat
    BY <1>1
  <2> QED BY <1>1, <2>1 DEF DepositRecord
<1> HIDE DEF new
<1>3. newRecords' = newRecords \/ newRecords' = Append(newRecords, new)
  BY DEF Requests!Record, new
<1>4. newRecords' \in Seq(DepositRecord) /\ Len(newRecords') \in Nat
          /\ Len(newRecords') >= Len(newRecords)
  BY <1>1, <1>2, <1>3, AppendProperties
<1>5. rec' \in [Requester -> DepositRecord]
  <2>1. [rec[q] EXCEPT !.id = Len(newRecords')] \in DepositRecord
    BY <1>1, <1>4 DEF DepositRecord
  <2>2. rec' = rec \/ rec' = [rec EXCEPT ![q] = [rec[q] EXCEPT !.id = Len(newRecords')]]
    BY <1>0 DEF Requests!Record
  <2> QED BY <1>0, <2>1, <2>2, Assigned
<1>6. itemAt' \in [Requester -> Nat]
  <2>1. itemAt' = itemAt \/ itemAt' = [itemAt EXCEPT ![q] = itemAt[q] + 1]
    BY DEF Requests!Record
  <2>2. itemAt[q] + 1 \in Nat
    BY <1>0
  <2> QED BY <1>0, <2>1, <2>2, Assigned
<1>7. requestAt' \in [Requester -> RequestPlaces] /\ replied' \in [Requester -> RequestAnswer]
  <2>1. Requests!Only(IF rec[q].ok THEN 201 ELSE 400) \in RequestAnswer
    BY OnlyTyped
  <2> QED BY <1>0, <2>1, PcTyped, AnswerTyped DEF Requests!Record
<1>8. DOMAIN archive \subseteq 0 .. Len(newRecords')
  BY <1>1, <1>4 DEF RequestTypes
<1> QED BY <1>4, <1>5, <1>6, <1>7, <1>8 DEF Requests!Record, RequestTypes

LEMMA RecordFailsTypes ==
    ASSUME Requests!RequestsAssumption, RequestTypes, RequestsLinked, NEW q \in Requester,
        NEW abend \in BOOLEAN,
           Requests!RecordFails(q, abend)
    PROVE  RequestTypes'
<1>0. /\ requestAt \in [Requester -> RequestPlaces] /\ rec \in [Requester -> DepositRecord]
      /\ replied \in [Requester -> RequestAnswer] /\ itemAt \in [Requester -> Nat]
      /\ requestFaults \in [Requester -> 0 .. RequestFaults]
      /\ {"dead", "create", "archive"} \subseteq RequestPlaces
  BY DEF RequestTypes, RequestPlaces
<1>1. rec' \in [Requester -> DepositRecord]
  <2>1. rec[q] \in DepositRecord /\ (rec[q].abend \/ abend) \in BOOLEAN
    BY <1>0
  <2>2. [rec[q] EXCEPT !.abend = rec[q].abend \/ abend] \in DepositRecord
    BY <2>1 DEF DepositRecord
  <2>3. rec' = rec \/ rec' = [rec EXCEPT ![q] = [rec[q] EXCEPT !.abend = rec[q].abend \/ abend]]
    BY <1>0 DEF Requests!RecordFails
  <2> QED BY <1>0, <2>2, <2>3, Assigned
<1>2. itemAt' \in [Requester -> Nat]
  <2>1. itemAt' = itemAt \/ itemAt' = [itemAt EXCEPT ![q] = itemAt[q] + 1]
    BY DEF Requests!RecordFails
  <2>2. itemAt[q] + 1 \in Nat
    BY <1>0
  <2> QED BY <1>0, <2>1, <2>2, Assigned
<1>3. requestAt' \in [Requester -> RequestPlaces] /\ replied' \in [Requester -> RequestAnswer]
  <2>1. Requests!Only(500) \in RequestAnswer
    BY OnlyTyped
  <2> QED BY <1>0, <2>1, PcTyped, AnswerTyped DEF Requests!RecordFails
<1>4. requestFaults' \in [Requester -> 0 .. RequestFaults]
  BY <1>0, FaultTyped DEF Requests!RecordFails
<1> QED BY <1>1, <1>2, <1>3, <1>4 DEF Requests!RecordFails, RequestTypes, Requests!kept

LEMMA RequestTypesStep ==
    ASSUME Requests!RequestsAssumption, RequestTypes, RequestsLinked, NEW q \in Requester, StepOf(q)
          PROVE  RequestTypes'
  BY StartTypes, ValidateTypes, FinishTypes, CreateTypes, CreateFailsTypes, ArchiveTypes,
     RecordTypes, RecordFailsTypes DEF StepOf

-----------------------------------------------------------------------------
(* The tables only grow.                                                   *)

LEMMA NotesAt ==
    ASSUME RequestTypes, NEW q \in Requester, StepOf(q)
    PROVE  /\ Len(newNotes) \in Nat /\ Len(newNotes') \in Nat /\ Len(newNotes) <= Len(newNotes')
           /\ DOMAIN newNotes = 1 .. Len(newNotes) /\ DOMAIN newNotes' = 1 .. Len(newNotes')
           /\ \A n \in DOMAIN newNotes : newNotes'[n] = newNotes[n]
           /\ \A n \in DOMAIN newNotes' \ DOMAIN newNotes :
                 /\ Requests!Create(q) /\ newNotes'[n] = Requests!InHand(q)
                 /\ n = Len(newNotes) + 1 /\ n = Len(newNotes')
           /\ Requests!Create(q) => Len(newNotes') = Len(newNotes) + 1
                  /\ newNotes'[Len(newNotes) + 1] = Requests!InHand(q)
<1>1. newNotes \in Seq(ItemPlace) /\ itemAt[q] \in Nat
  BY DEF RequestTypes
<1>2. Requests!InHand(q) \in ItemPlace
  BY <1>1 DEF Requests!InHand, ItemPlace
<1>3. Len(newNotes) \in Nat /\ DOMAIN newNotes = 1 .. Len(newNotes)
  BY <1>1, LenProperties
<1>4. Requests!Create(q) => newNotes' = Append(newNotes, Requests!InHand(q))
  BY DEF Requests!Create, Requests!InHand
<1>5. CASE newNotes' = newNotes /\ ~Requests!Create(q)
  <2>1. Len(newNotes') = Len(newNotes) /\ DOMAIN newNotes' = DOMAIN newNotes
        /\ \A n \in DOMAIN newNotes : newNotes'[n] = newNotes[n]
    BY <1>5
  <2>2. Len(newNotes) <= Len(newNotes)
    BY <1>3
  <2> QED BY <1>3, <1>5, <2>1, <2>2, Zenon
<1>6. CASE newNotes' = Append(newNotes, Requests!InHand(q)) /\ Requests!Create(q)
  <2>1. /\ newNotes' \in Seq(ItemPlace) /\ Len(newNotes') = Len(newNotes) + 1
        /\ \A n \in 1 .. Len(newNotes) : newNotes'[n] = newNotes[n]
        /\ newNotes'[Len(newNotes) + 1] = Requests!InHand(q)
    BY <1>1, <1>2, <1>6, AppendProperties
  <2>2. DOMAIN newNotes' = 1 .. Len(newNotes')
    BY <2>1, LenProperties
  <2> QED BY <1>3, <1>6, <2>1, <2>2
<1> QED BY <1>4, <1>5, <1>6, NotesGrow

LEMMA RecordsAt ==
    ASSUME RequestTypes, NEW q \in Requester, StepOf(q)
    PROVE  /\ Len(newRecords) \in Nat /\ Len(newRecords') \in Nat
           /\ Len(newRecords) <= Len(newRecords')
           /\ DOMAIN newRecords = 1 .. Len(newRecords)
           /\ DOMAIN newRecords' = 1 .. Len(newRecords')
           /\ \A k \in DOMAIN newRecords : newRecords'[k] = newRecords[k]
           /\ \A k \in DOMAIN newRecords' \ DOMAIN newRecords :
                 /\ Requests!Record(q) /\ Requests!IsPublisher(q)
                 /\ k = Len(newRecords) + 1 /\ k = Len(newRecords')
                 /\ newRecords'[k].note = rec[q].note /\ newRecords'[k].ok = rec[q].ok
                 /\ newRecords'[k].error = rec[q].error
           /\ Requests!Record(q) /\ Requests!IsPublisher(q) =>
                  Len(newRecords') = Len(newRecords) + 1
<1> DEFINE new == [rec[q] EXCEPT !.id = Len(newRecords) + 1]
<1>1. newRecords \in Seq(DepositRecord) /\ rec[q] \in DepositRecord
  BY DEF RequestTypes
<1>2. Len(newRecords) \in Nat /\ DOMAIN newRecords = 1 .. Len(newRecords)
          /\ Len(newRecords) + 1 \in Nat
  BY <1>1, LenProperties
<1>3. new \in DepositRecord /\ new.note = rec[q].note /\ new.ok = rec[q].ok
      /\ new.error = rec[q].error
  BY <1>1, <1>2 DEF DepositRecord
<1>4. Requests!Record(q) /\ Requests!IsPublisher(q) => newRecords' = Append(newRecords, new)
  BY DEF Requests!Record
<1> HIDE DEF new
<1>5. CASE newRecords' = newRecords /\ ~(Requests!Record(q) /\ Requests!IsPublisher(q))
  <2>1. Len(newRecords') = Len(newRecords) /\ DOMAIN newRecords' = DOMAIN newRecords
        /\ \A n \in DOMAIN newRecords : newRecords'[n] = newRecords[n]
    BY <1>5
  <2>2. Len(newRecords) <= Len(newRecords)
    BY <1>2
  <2> QED BY <1>2, <1>5, <2>1, <2>2, Zenon
<1>6. CASE newRecords' = Append(newRecords, new) /\ Requests!Record(q) /\ Requests!IsPublisher(q)
  <2>1. /\ newRecords' \in Seq(DepositRecord) /\ Len(newRecords') = Len(newRecords) + 1
        /\ \A n \in 1 .. Len(newRecords) : newRecords'[n] = newRecords[n]
        /\ newRecords'[Len(newRecords) + 1] = new
    BY <1>1, <1>3, <1>6, AppendProperties
  <2>2. DOMAIN newRecords' = 1 .. Len(newRecords')
    BY <2>1, LenProperties
  <2> QED BY <1>2, <1>3, <1>6, <2>1, <2>2
<1>7. newRecords' = newRecords
          \/ (newRecords' = Append(newRecords, new) /\ Requests!Record(q)
                 /\ Requests!IsPublisher(q))
  BY RecordsGrow DEF new
<1> QED BY <1>4, <1>5, <1>6, <1>7

LEMMA ArchiveAt ==
    ASSUME RequestTypes, NEW q \in Requester, StepOf(q), NEW d \in DOMAIN archive'
    PROVE  \/ d \in DOMAIN archive /\ archive'[d] = archive[d]
           \/ requestAt[q] = "archive" /\ d = rec[q].id /\ archive'[d] = Requests!InHand(q)
<1>1. CASE archive' = archive
  BY <1>1
<1>2. CASE Requests!Archive(q, TRUE)
          /\ archive' = Requests!With(archive, rec[q].id, Requests!InHand(q))
  BY <1>2 DEF Requests!With, Requests!Archive
<1> QED BY <1>1, <1>2, ArchiveGrows

LEMMA AskedStays ==
    ASSUME NEW q \in Requester, StepOf(q)
    PROVE  asked' = asked /\ \A p : Requests!Items(p)' = Requests!Items(p)
        /\ Requests!IsPublisher(p)' = Requests!IsPublisher(p)
<1>1. asked' = asked
  BY DEF StepOf, Requests!Start, Requests!Validate, Requests!Finish, Requests!Create,
         Requests!CreateFails, Requests!Archive, Requests!Record, Requests!RecordFails
<1> QED BY SMTT(60), <1>1 DEF Requests!Items, Requests!IsPublisher

\* What of a request's own the steps may change.
LEMMA HandStep ==
    ASSUME Requests!RequestsAssumption, RequestTypes, RequestsLinked, NEW q \in Requester,
        StepOf(q)
    PROVE  /\ itemAt'[q] >= 1 /\ itemAt'[q] <= Len(Requests!Items(q)) + 1
           /\ InStep(q)' => itemAt'[q] <= Len(Requests!Items(q))
                  /\ asked[q].what \in {"list", "single"}
           /\ rec'[q].note <= Len(newNotes') /\ rec'[q].id <= Len(newRecords')
<1>1. /\ requestAt \in [Requester -> RequestPlaces] /\ itemAt \in [Requester -> Nat]
      /\ itemAt[q] >= 1
      /\ itemAt[q] <= Len(Requests!Items(q)) + 1 /\ Len(Requests!Items(q)) \in Nat
      /\ InStep(q) => itemAt[q] <= Len(Requests!Items(q)) /\ asked[q].what \in {"list", "single"}
  BY ItemsOf DEF RequestTypes, RequestsLinked
<1>2. /\ rec \in [Requester -> DepositRecord] /\ rec[q].note \in Nat /\ rec[q].id \in Nat
      /\ rec[q].note <= Len(newNotes) /\ rec[q].id <= Len(newRecords)
      /\ rec[q].note <= Len(newNotes') /\ rec[q].id <= Len(newRecords')
      /\ 0 <= Len(newNotes') /\ 0 <= Len(newRecords') /\ Len(newNotes') \in Nat
      /\ Len(newRecords') \in Nat
  <2>1. /\ rec \in [Requester -> DepositRecord] /\ rec[q].note \in Nat /\ rec[q].id \in Nat
        /\ rec[q].note <= Len(newNotes) /\ rec[q].id <= Len(newRecords)
    BY DEF RequestTypes, RequestsLinked, DepositRecord
  <2>2. /\ Len(newNotes) \in Nat /\ Len(newRecords) \in Nat /\ Len(newNotes) <= Len(newNotes')
        /\ Len(newRecords) <= Len(newRecords') /\ Len(newNotes') \in Nat
        /\ Len(newRecords') \in Nat
    BY NotesAt, RecordsAt
  <2> QED BY <2>1, <2>2
<1>3. CASE Requests!Start(q) \/ Requests!Validate(q) \/ Requests!Finish(q)
  BY <1>1, <1>2, <1>3 DEF Requests!Start, Requests!Validate, Requests!Finish, Requests!Goto,
                          Requests!Answered, InStep, Requests!handling
<1>4. CASE Requests!Create(q)
  <2>1. itemAt' = itemAt /\ itemAt[q] <= Len(Requests!Items(q))
            /\ asked[q].what \in {"list", "single"}
    BY <1>4 DEF Requests!Create, Requests!Creating
  <2>2. rec'[q] = [Requests!NoRec EXCEPT !.ok = TRUE, !.note = Len(newNotes')]
        \/ rec'[q] = [Requests!NoRec EXCEPT !.error = TRUE]
    BY <1>2, <1>4 DEF Requests!Create
  <2>3. rec'[q].note \in {0, Len(newNotes')} /\ rec'[q].id = 0
    BY <2>2 DEF Requests!NoRec
  <2> QED BY <1>1, <1>2, <2>1, <2>3
<1>5. ASSUME NEW bad \in BOOLEAN, Requests!CreateFails(q, bad)
      PROVE  /\ itemAt' = itemAt /\ itemAt[q] <= Len(Requests!Items(q))
             /\ asked[q].what \in {"list", "single"}
             /\ rec'[q].note \in {0, rec[q].note} /\ rec'[q].id \in {0, rec[q].id}
  <2>1. itemAt' = itemAt /\ itemAt[q] <= Len(Requests!Items(q))
            /\ asked[q].what \in {"list", "single"}
    BY <1>5 DEF Requests!CreateFails, Requests!Creating
  <2>2. rec'[q] = rec[q] \/ rec'[q] = [Requests!NoRec EXCEPT !.error = TRUE, !.abend = bad]
    BY <1>2, <1>5 DEF Requests!CreateFails
  <2> QED BY <2>1, <2>2 DEF Requests!NoRec
<1>6. ASSUME NEW bad \in BOOLEAN, Requests!Archive(q, ~bad)
      PROVE  itemAt' = itemAt /\ rec' = rec /\ InStep(q)
  BY <1>6 DEF Requests!Archive, Requests!handling, InStep
<1>7. CASE Requests!Record(q)
  <2>1. rec'[q].note = rec[q].note /\ rec'[q].id \in {rec[q].id, Len(newRecords')}
    BY <1>2, <1>7 DEF Requests!Record, DepositRecord
  <2>2. InStep(q)
    BY <1>7 DEF Requests!Record, InStep
  <2>3. itemAt'[q] = itemAt[q] \/ (itemAt'[q] = itemAt[q] + 1 /\ requestAt'[q] = "create")
    BY <1>1, <1>7 DEF Requests!Record, Requests!Goto
  <2> QED BY SMTT(60), <1>1, <1>2, <2>1, <2>2, <2>3 DEF InStep
<1>8. ASSUME NEW bad \in BOOLEAN, Requests!RecordFails(q, bad)
      PROVE  /\ itemAt'[q] = itemAt[q] \/ (itemAt'[q] = itemAt[q] + 1 /\ requestAt'[q] = "create")
             /\ rec'[q].note = rec[q].note /\ rec'[q].id = rec[q].id /\ InStep(q)
  <2>1. rec'[q].note = rec[q].note /\ rec'[q].id = rec[q].id
    BY <1>2, <1>8 DEF Requests!RecordFails, DepositRecord
  <2>2. InStep(q)
    BY <1>8 DEF Requests!RecordFails, InStep
  <2>3. itemAt'[q] = itemAt[q] \/ (itemAt'[q] = itemAt[q] + 1 /\ requestAt'[q] = "create")
    BY <1>1, <1>8 DEF Requests!RecordFails, Requests!Goto
  <2> QED BY <2>1, <2>2, <2>3
<1>9. ASSUME NEW bad \in BOOLEAN, Requests!CreateFails(q, bad)
          \/ Requests!Archive(q, ~bad) \/ Requests!RecordFails(q, bad)
      PROVE  /\ itemAt'[q] >= 1 /\ itemAt'[q] <= Len(Requests!Items(q)) + 1
             /\ InStep(q)' => itemAt'[q] <= Len(Requests!Items(q))
                    /\ asked[q].what \in {"list", "single"}
             /\ rec'[q].note <= Len(newNotes') /\ rec'[q].id <= Len(newRecords')
  <2>1. ASSUME Requests!CreateFails(q, bad)
        PROVE  /\ itemAt'[q] >= 1 /\ itemAt'[q] <= Len(Requests!Items(q)) + 1
               /\ InStep(q)' => itemAt'[q] <= Len(Requests!Items(q))
                      /\ asked[q].what \in {"list", "single"}
               /\ rec'[q].note <= Len(newNotes') /\ rec'[q].id <= Len(newRecords')
    BY <1>1, <1>2, <1>5, <2>1
  <2>2. ASSUME Requests!Archive(q, ~bad)
        PROVE  /\ itemAt'[q] >= 1 /\ itemAt'[q] <= Len(Requests!Items(q)) + 1
               /\ InStep(q)' => itemAt'[q] <= Len(Requests!Items(q))
                      /\ asked[q].what \in {"list", "single"}
               /\ rec'[q].note <= Len(newNotes') /\ rec'[q].id <= Len(newRecords')
    BY <1>1, <1>2, <1>6, <2>2
  <2>3. ASSUME Requests!RecordFails(q, bad)
        PROVE  /\ itemAt'[q] >= 1 /\ itemAt'[q] <= Len(Requests!Items(q)) + 1
               /\ InStep(q)' => itemAt'[q] <= Len(Requests!Items(q))
                      /\ asked[q].what \in {"list", "single"}
               /\ rec'[q].note <= Len(newNotes') /\ rec'[q].id <= Len(newRecords')
    BY SMTT(60), <1>1, <1>2, <1>8, <2>3 DEF InStep
  <2> QED BY <1>9, <2>1, <2>2, <2>3
<1> QED BY <1>3, <1>4, <1>7, <1>9 DEF StepOf

LEMMA LinkedStep ==
    ASSUME Requests!RequestsAssumption, RequestTypes, RequestsLinked, NEW q \in Requester, StepOf(q)
          PROVE  RequestsLinked'
<1>0. \A x : asked'[x].items = Requests!Items(x)
  BY AskedStays DEF Requests!Items
<1>1. \A n \in DOMAIN newNotes' : newNotes'[n].item \in DOMAIN asked'[newNotes'[n].by].items
  <2>1. ASSUME NEW n \in DOMAIN newNotes' \ DOMAIN newNotes
        PROVE  newNotes'[n].by = q /\ newNotes'[n].item = itemAt[q]
            /\ itemAt[q] \in DOMAIN Requests!Items(q)
    <3>1. Requests!Create(q) /\ newNotes'[n] = Requests!InHand(q)
      BY <2>1, NotesAt
    <3>2. itemAt[q] <= Len(Requests!Items(q)) /\ itemAt[q] >= 1 /\ itemAt[q] \in Nat
      BY <3>1 DEF Requests!Create, Requests!Creating, RequestsLinked, RequestTypes
    <3>3. itemAt[q] \in DOMAIN Requests!Items(q)
      BY <3>2, ItemsOf
    <3> QED BY <3>1, <3>3 DEF Requests!InHand
  <2>2. ASSUME NEW n \in DOMAIN newNotes
        PROVE  newNotes'[n] = newNotes[n]
            /\ newNotes[n].item \in DOMAIN Requests!Items(newNotes[n].by)
    BY NotesAt DEF RequestsLinked
  <2> QED BY <1>0, <2>1, <2>2
<1>2. \A k \in DOMAIN newRecords' : newRecords'[k].note <= Len(newNotes')
  <2>1. ASSUME NEW k \in DOMAIN newRecords
        PROVE  newRecords'[k] = newRecords[k] /\ newRecords[k].note <= Len(newNotes)
            /\ newRecords[k].note \in Nat
    <3>1. newRecords \in Seq(DepositRecord)
      BY DEF RequestTypes
    <3>2. newRecords[k] \in DepositRecord
      BY <3>1, LenProperties
    <3> QED BY <3>2, RecordsAt DEF RequestsLinked, DepositRecord
  <2>2. Len(newNotes) \in Nat /\ Len(newNotes') \in Nat /\ Len(newNotes) <= Len(newNotes')
    BY NotesAt
  <2>3. rec[q].note <= Len(newNotes) /\ rec[q].note \in Nat
    BY DEF RequestsLinked, RequestTypes, DepositRecord
  <2>4. ASSUME NEW k \in DOMAIN newRecords' \ DOMAIN newRecords
        PROVE  newRecords'[k].note = rec[q].note
    BY <2>4, RecordsAt
  <2> QED BY <2>1, <2>2, <2>3, <2>4
<1>3. ASSUME NEW d \in DOMAIN archive'
      PROVE  archive'[d].item \in DOMAIN asked'[archive'[d].by].items
  <2>1. CASE requestAt[q] = "archive" /\ archive'[d] = Requests!InHand(q)
    <3>1. itemAt[q] <= Len(Requests!Items(q)) /\ itemAt[q] >= 1 /\ itemAt[q] \in Nat
      BY <2>1 DEF RequestsLinked, InStep, RequestTypes
    <3>2. itemAt[q] \in DOMAIN Requests!Items(q)
      BY <3>1, ItemsOf
    <3> QED BY <1>0, <2>1, <3>2 DEF Requests!InHand
  <2>2. CASE d \in DOMAIN archive /\ archive'[d] = archive[d]
    <3>1. archive[d].item \in DOMAIN Requests!Items(archive[d].by)
      BY <2>2 DEF RequestsLinked
    <3> QED BY <1>0, <2>2, <3>1
  <2> QED BY <2>1, <2>2, ArchiveAt
<1>4. ASSUME NEW p \in Requester
      PROVE  /\ itemAt'[p] >= 1 /\ itemAt'[p] <= Len(Requests!Items(p)') + 1
             /\ InStep(p)' => itemAt'[p] <= Len(Requests!Items(p)')
                    /\ asked'[p].what \in {"list", "single"}
             /\ rec'[p].note <= Len(newNotes') /\ rec'[p].id <= Len(newRecords')
  <2>1. CASE p = q
    BY <2>1, HandStep, AskedStays
  <2>2. CASE p # q
    <3>1. /\ rec[p].note \in Nat /\ rec[p].id \in Nat /\ rec[p].note <= Len(newNotes)
          /\ rec[p].id <= Len(newRecords)
      BY DEF RequestTypes, RequestsLinked, DepositRecord
    <3>2. /\ Len(newNotes) \in Nat /\ Len(newRecords) \in Nat /\ Len(newNotes) <= Len(newNotes')
          /\ Len(newRecords) <= Len(newRecords') /\ Len(newNotes') \in Nat
          /\ Len(newRecords') \in Nat
      BY NotesAt, RecordsAt
    <3>3. requestAt'[p] = requestAt[p] /\ itemAt'[p] = itemAt[p] /\ rec'[p] = rec[p]
      BY <2>2, RequestRest
    <3>4. asked' = asked /\ Requests!Items(p)' = Requests!Items(p)
      BY AskedStays
    <3>5. /\ itemAt[p] >= 1 /\ itemAt[p] <= Len(Requests!Items(p)) + 1
          /\ requestAt[p] \in {"archive", "record"} =>
                itemAt[p] <= Len(Requests!Items(p)) /\ asked[p].what \in {"list", "single"}
      BY DEF RequestsLinked, InStep
    <3> QED BY <3>1, <3>2, <3>3, <3>4, <3>5 DEF InStep
  <2> QED BY <2>1, <2>2
<1> QED BY <1>1, <1>2, <1>3, <1>4 DEF RequestsLinked, Requests!Items

-----------------------------------------------------------------------------
(* The invariant.                                                          *)

\* The items of a list that have been dealt with.
Done(q) == {i \in DOMAIN Requests!Items(q) : i < itemAt[q] \/ (i = itemAt[q] /\ InStep(q))}

ListInv(q) ==
    asked[q].what = "list" /\ requestAt[q] # "dead" =>
        /\ Requests!ItemsCreated(q) \subseteq Done(q)
        /\ Requests!InOrder(Requests!Items(q), success[q], Requests!ItemsCreated(q))
        /\ Requests!InOrder(Requests!Items(q), failed[q], Done(q) \ Requests!ItemsCreated(q))
        /\ Len(created[q]) = Len(success[q])
        /\ \A k \in DOMAIN created[q] :
              /\ created[q][k] \in DOMAIN newNotes
              /\ Requests!Items(q)[newNotes[created[q][k]].item].id = success[q][k]

AnswerInv(q) ==
    /\ requestAt[q] # "answered" => replied[q] = Requests!Waiting
    /\ requestAt[q] = "start" => itemAt[q] = 1 /\ success[q] = <<>>
    /\ requestAt[q] = "answered" /\ asked[q].what = "list" =>
          \/ replied[q] = Requests!Report(q) /\ itemAt[q] = Len(Requests!Items(q)) + 1
          \/ Requests!Status(q) \in {400, 401, 403} /\ success[q] = <<>>
    /\ Requests!Status(q) = 201 /\ asked[q].what = "single" => rec[q].ok
    /\ Requests!Status(q) = 200 /\ asked[q].what = "validate_list" =>
           Requests!Valid(q) /\ q \in tests

\* The notification of a single request.
SingleInv(q) ==
    asked[q].what = "single" =>
        /\ requestAt[q] \in {"start", "create"} => Requests!NotesOf(q) = {} /\ rec[q].note = 0
        /\ rec[q].ok => Requests!NotesOf(q) = {rec[q].note}

Recorded(table, n) == \E k \in DOMAIN table : table[k].note = n

\* The record in hand.
RecInv(q) ==
    /\ rec[q].ok <=> rec[q].note # 0
    /\ InStep(q) => rec[q].error = ~rec[q].ok
    /\ InStep(q) /\ rec[q].ok => newNotes[rec[q].note] = Requests!InHand(q)
    /\ asked[q].what = "list" => rec[q].id = 0
    /\ requestAt[q] = "archive" /\ asked[q].what = "list" =>
           rec[q].note = 0 \/ ~Recorded(newRecords, rec[q].note)
    /\ requestAt[q] = "record" =>
           rec[q].id = 0 /\ (rec[q].note = 0 \/ ~Recorded(newRecords, rec[q].note))
    /\ requestAt[q] = "archive" => Requests!IsPublisher(q)
    /\ requestAt[q] = "archive" /\ asked[q].what = "single" =>
          /\ rec[q].id = 0 => ~rec[q].ok
          /\ rec[q].id # 0 => /\ newRecords[rec[q].id].note = rec[q].note
                              /\ newRecords[rec[q].id].ok = rec[q].ok

\* The records and the archive.
DepositTables ==
    /\ \A k \in DOMAIN newRecords :
          /\ newRecords[k].ok <=> newRecords[k].note # 0
          /\ newRecords[k].error = ~newRecords[k].ok
          /\ newRecords[k].note # 0 => Requests!IsPublisher(newNotes[newRecords[k].note].by)
          /\ \A l \in DOMAIN newRecords : newRecords[k].note = newRecords[l].note /\ k # l =>
                 ~newRecords[k].ok
    /\ Requests!ArchiveAgrees

\* The notifications of a publisher that will have no record though they are useful.
Lost(q) ==
    {n \in Requests!NotesOf(q) : /\ ~Recorded(newRecords, n)
        /\ Requests!Useful(Requests!Items(q)[newNotes[n].item])
                                 /\ ~(InStep(q) /\ n = rec[q].note)}
LostInv(q) == Requests!IsPublisher(q) => Cardinality(Lost(q)) <= requestFaults[q]

RequestsInv ==
    /\ RequestTypes /\ RequestsLinked /\ DepositTables
    /\ \A q \in Requester : ListInv(q) /\ AnswerInv(q) /\ SingleInv(q) /\ RecInv(q) /\ LostInv(q)

-----------------------------------------------------------------------------
(* Ids of items, in their order.                                           *)

LEMMA OrderedEmpty == ASSUME NEW items PROVE Requests!InOrder(items, <<>>, {})
<1>1. DOMAIN <<>> = {}
  OBVIOUS
<1> DEFINE place == [k \in {} |-> 0]
<1>2. place \in [DOMAIN <<>> -> {}] /\ Requests!Range(place) = {}
  BY <1>1 DEF Requests!Range
<1> QED BY <1>1, <1>2 DEF Requests!InOrder

LEMMA OrderedNone ==
    ASSUME NEW items, NEW S, Requests!InOrder(items, <<>>, S) PROVE S = {}
<1>1. DOMAIN <<>> = {}
  OBVIOUS
<1>2. PICK place \in [DOMAIN <<>> -> S] : Requests!Range(place) = S
  BY DEF Requests!InOrder
<1> QED BY <1>1, <1>2 DEF Requests!Range

LEMMA OrderedGrows ==
    ASSUME NEW items, NEW X, NEW ids \in Seq(X), NEW S, S \subseteq Nat, NEW i \in Nat,
           items[i].id \in X, \A j \in S : j < i, Requests!InOrder(items, ids, S)
    PROVE  Requests!InOrder(items, Append(ids, items[i].id), S \cup {i})
<1>1. PICK place \in [DOMAIN ids -> S] :
        /\ Requests!Range(place) = S
        /\ \A k, l \in DOMAIN ids : k < l => place[k] < place[l]
        /\ \A k \in DOMAIN ids : ids[k] = items[place[k]].id
  BY DEF Requests!InOrder
<1>2. /\ Len(ids) \in Nat /\ DOMAIN ids = 1 .. Len(ids)
      /\ Append(ids, items[i].id) \in Seq(X)
      /\ Len(Append(ids, items[i].id)) = Len(ids) + 1
      /\ \A k \in 1 .. Len(ids) : Append(ids, items[i].id)[k] = ids[k]
      /\ Append(ids, items[i].id)[Len(ids) + 1] = items[i].id
  BY LenProperties, AppendProperties
<1> DEFINE more == Append(ids, items[i].id)
           wider == [k \in 1 .. Len(ids) + 1 |-> IF k = Len(ids) + 1 THEN i ELSE place[k]]
<1>3. DOMAIN more = 1 .. Len(ids) + 1
  BY <1>2, LenProperties
<1> HIDE DEF more
<1>4. wider \in [DOMAIN more -> S \cup {i}]
  BY <1>1, <1>2, <1>3
<1>5. Requests!Range(wider) = S \cup {i}
  <2>1. ASSUME NEW j \in S PROVE j \in Requests!Range(wider)
    <3>1. PICK k \in DOMAIN ids : place[k] = j
      BY <1>1, <2>1 DEF Requests!Range
    <3>2. k \in 1 .. Len(ids) + 1 /\ k # Len(ids) + 1
      BY <1>2, <3>1
    <3> QED BY <3>1, <3>2 DEF Requests!Range
  <2>2. i \in Requests!Range(wider)
    <3>1. Len(ids) + 1 \in 1 .. Len(ids) + 1
      BY <1>2
    <3> QED BY <3>1 DEF Requests!Range
  <2>3. Requests!Range(wider) \subseteq S \cup {i}
    BY <1>3, <1>4 DEF Requests!Range
  <2> QED BY <2>1, <2>2, <2>3
<1>6. ASSUME NEW k \in DOMAIN more, NEW l \in DOMAIN more, k < l PROVE wider[k] < wider[l]
  <2>1. k \in 1 .. Len(ids) /\ wider[k] = place[k] /\ place[k] \in S
    BY <1>1, <1>2, <1>3, <1>6
  <2>2. CASE l = Len(ids) + 1
    BY <1>3, <2>1, <2>2
  <2>3. CASE l # Len(ids) + 1
    <3>1. l \in 1 .. Len(ids) /\ wider[l] = place[l]
      BY <1>2, <1>3, <2>3
    <3> QED BY <1>1, <1>2, <1>6, <2>1, <3>1
  <2> QED BY <2>2, <2>3
<1>7. ASSUME NEW k \in DOMAIN more PROVE more[k] = items[wider[k]].id
  <2>1. CASE k = Len(ids) + 1
    BY <1>2, <1>3, <2>1 DEF more
  <2>2. CASE k # Len(ids) + 1
    BY <1>1, <1>2, <1>3, <2>2 DEF more
  <2> QED BY <2>1, <2>2
<1> HIDE DEF wider
<1>8. Requests!InOrder(items, more, S \cup {i})
  BY <1>4, <1>5, <1>6, <1>7 DEF Requests!InOrder
<1> QED BY <1>8 DEF more

-----------------------------------------------------------------------------
(* The notifications of a request.                                         *)

LEMMA NotesStep ==
    ASSUME RequestTypes, NEW q \in Requester, StepOf(q), NEW p \in Requester
    PROVE  /\ p # q \/ ~Requests!Create(q) =>
                  Requests!NotesOf(p)' = Requests!NotesOf(p)
                      /\ Requests!ItemsCreated(p)' = Requests!ItemsCreated(p)
           /\ p = q /\ Requests!Create(q) =>
                /\ Requests!NotesOf(p)' = Requests!NotesOf(p) \cup {Len(newNotes) + 1}
                /\ Requests!ItemsCreated(p)' = Requests!ItemsCreated(p) \cup {itemAt[q]}
<1> USE DEF Requests!NotesOf, Requests!ItemsCreated
<1>1. CASE p # q \/ ~Requests!Create(q)
  <2>1. Requests!NotesOf(p)' = Requests!NotesOf(p)
    <3>1. ASSUME NEW n \in DOMAIN newNotes', newNotes'[n].by = p
          PROVE  n \in DOMAIN newNotes /\ newNotes[n].by = p
      <4>1. CASE n \in DOMAIN newNotes
        BY <3>1, <4>1, NotesAt
      <4>2. CASE n \notin DOMAIN newNotes
        <5>1. Requests!Create(q) /\ newNotes'[n] = Requests!InHand(q)
          BY <4>2, NotesAt
        <5> QED BY <1>1, <3>1, <5>1 DEF Requests!InHand
      <4> QED BY <4>1, <4>2
    <3>2. ASSUME NEW n \in DOMAIN newNotes, newNotes[n].by = p
          PROVE  n \in DOMAIN newNotes' /\ newNotes'[n].by = p
      BY <3>2, NotesAt
    <3> QED BY <3>1, <3>2
  <2>2. \A n \in Requests!NotesOf(p) : newNotes'[n] = newNotes[n]
    BY NotesAt
  <2> HIDE DEF Requests!NotesOf
  <2> QED BY <1>1, <2>1, <2>2
<1>2. CASE p = q /\ Requests!Create(q)
  <2> DEFINE new == Len(newNotes) + 1
  <2>1. /\ Len(newNotes) \in Nat /\ new \notin DOMAIN newNotes
        /\ DOMAIN newNotes' = DOMAIN newNotes \cup {new}
        /\ newNotes'[new] = Requests!InHand(q)
               /\ \A n \in DOMAIN newNotes : newNotes'[n] = newNotes[n]
    <3>1. /\ Len(newNotes) \in Nat /\ DOMAIN newNotes = 1 .. Len(newNotes)
          /\ DOMAIN newNotes' = 1 .. Len(newNotes') /\ Len(newNotes') = Len(newNotes) + 1
          /\ newNotes'[Len(newNotes) + 1] = Requests!InHand(q)
                 /\ \A n \in DOMAIN newNotes : newNotes'[n] = newNotes[n]
      BY <1>2, NotesAt
    <3>2. 1 .. Len(newNotes) + 1 = (1 .. Len(newNotes)) \cup {new}
              /\ new \notin 1 .. Len(newNotes)
      BY <3>1
    <3> QED BY <3>1, <3>2
  <2> HIDE DEF new
  <2>2. Requests!InHand(q).by = q /\ Requests!InHand(q).item = itemAt[q]
    BY DEF Requests!InHand
  <2>3. Requests!NotesOf(p)' = Requests!NotesOf(p) \cup {new}
    BY <1>2, <2>1, <2>2
  <2>4. \A n \in Requests!NotesOf(p) : newNotes'[n] = newNotes[n]
    BY <2>1
  <2>5. Requests!ItemsCreated(p)' = {newNotes'[n].item : n \in Requests!NotesOf(p)'}
    BY DEF Requests!ItemsCreated
  <2> HIDE DEF Requests!NotesOf
  <2>6. Requests!ItemsCreated(p)' = Requests!ItemsCreated(p) \cup {itemAt[q]}
    BY <2>1, <2>2, <2>3, <2>4, <2>5
  <2> QED BY <1>2, <2>3, <2>6 DEF new
<1> QED BY <1>1, <1>2

LEMMA NotesOfTyped ==
    ASSUME Requests!RequestsAssumption, RequestTypes, RequestsLinked, NEW p \in Requester
    PROVE  /\ Requests!ItemsCreated(p) \subseteq DOMAIN Requests!Items(p)
           /\ Requests!NotesOf(p) \subseteq Nat \ {0}
           /\ IsFiniteSet(Requests!NotesOf(p)) /\ Requests!NotesOf(p) \subseteq DOMAIN newNotes
<1>1. Len(newNotes) \in Nat /\ DOMAIN newNotes = 1 .. Len(newNotes)
  <2>1. newNotes \in Seq(ItemPlace)
    BY DEF RequestTypes
  <2> QED BY <2>1, LenProperties
<1>2. IsFiniteSet(1 .. Len(newNotes))
  BY <1>1, FS_Interval
<1>3. Requests!NotesOf(p) \subseteq 1 .. Len(newNotes)
  BY <1>1 DEF Requests!NotesOf
<1>4. IsFiniteSet(Requests!NotesOf(p))
  BY <1>2, <1>3, FS_Subset
<1> QED BY <1>1, <1>3, <1>4 DEF Requests!NotesOf, Requests!ItemsCreated, RequestsLinked

-----------------------------------------------------------------------------
(* Lists.                                                                  *)

LEMMA ListOthers ==
    ASSUME Requests!RequestsAssumption, RequestTypes, RequestsLinked, NEW q \in Requester,
        StepOf(q),
           NEW p \in Requester, p # q, ListInv(p)
    PROVE  ListInv(p)'
<1>1. /\ requestAt'[p] = requestAt[p] /\ itemAt'[p] = itemAt[p]
      /\ success'[p] = success[p] /\ failed'[p] = failed[p]
      /\ created'[p] = created[p] /\ asked' = asked /\ Requests!Items(p)' = Requests!Items(p)
  BY RequestRest, AskedStays
<1>2. Requests!ItemsCreated(p)' = Requests!ItemsCreated(p)
  BY NotesStep
<1>3. Done(p)' = Done(p)
  BY <1>1 DEF Done, InStep
<1>4. \A n \in DOMAIN newNotes : n \in DOMAIN newNotes' /\ newNotes'[n] = newNotes[n]
  BY NotesAt
<1> QED BY <1>1, <1>2, <1>3, <1>4 DEF ListInv

\* What is there of a list when an item has been created or has failed, or neither.
LEMMA ListSame ==
    ASSUME Requests!RequestsAssumption, RequestTypes, RequestsLinked, NEW q \in Requester,
        StepOf(q), ListInv(q),
           ~Requests!Create(q), requestAt[q] # "dead"
               \/ requestAt'[q] = "dead", Done(q)' = Done(q), success'[q] = success[q],
           failed'[q] = failed[q], created'[q] = created[q]
    PROVE  ListInv(q)'
<1>1. asked' = asked /\ Requests!Items(q)' = Requests!Items(q)
  BY AskedStays
<1>2. Requests!ItemsCreated(q)' = Requests!ItemsCreated(q)
  BY NotesStep
<1>3. \A n \in DOMAIN newNotes : n \in DOMAIN newNotes' /\ newNotes'[n] = newNotes[n]
  BY NotesAt
<1> QED BY <1>1, <1>2, <1>3 DEF ListInv

LEMMA DoneIs ==
    ASSUME Requests!RequestsAssumption, RequestTypes, RequestsLinked, NEW q \in Requester
    PROVE  /\ itemAt[q] \in Nat /\ itemAt[q] >= 1 /\ Done(q) \subseteq Nat
           /\ ~InStep(q) => Done(q) = 1 .. itemAt[q] - 1
           /\ InStep(q) => Done(q) = 1 .. itemAt[q]
<1>1. /\ itemAt[q] \in Nat /\ itemAt[q] >= 1 /\ itemAt[q] <= Len(Requests!Items(q)) + 1
      /\ Len(Requests!Items(q)) \in Nat
      /\ DOMAIN Requests!Items(q) = 1 .. Len(Requests!Items(q)) /\ InStep(q) =>
             itemAt[q] <= Len(Requests!Items(q))
  BY ItemsOf DEF RequestTypes, RequestsLinked
<1> QED BY <1>1 DEF Done

LEMMA CreateList ==
    ASSUME Requests!RequestsAssumption, RequestTypes, RequestsLinked, RequestTypes',
        RequestsLinked', NEW q \in Requester, ListInv(q), Requests!Create(q)
    PROVE  ListInv(q)'
<1> SUFFICES ASSUME asked[q].what = "list" PROVE ListInv(q)'
  BY AskedStays DEF ListInv, StepOf
<1>0. StepOf(q)
  BY DEF StepOf
<1> DEFINE id == Requests!Items(q)[itemAt[q]].id
           new == Len(newNotes) + 1
<1>1. /\ requestAt[q] = "create" /\ itemAt[q] <= Len(Requests!Items(q))
      /\ Requests!Item(q).valid /\ itemAt' = itemAt /\ failed' = failed
      /\ requestAt'[q] \in {"archive", "record"}
  BY DEF Requests!Create, Requests!Creating, Requests!Goto, Requests!After, RequestTypes
<1>2. itemAt[q] \in Nat /\ itemAt[q] \in DOMAIN Requests!Items(q) /\ id \in Ids
          /\ Requests!Useful(Requests!Item(q))
  <2>1. itemAt[q] \in Nat /\ itemAt[q] >= 1
            /\ DOMAIN Requests!Items(q) = 1 .. Len(Requests!Items(q))
            /\ Len(Requests!Items(q)) \in Nat
    BY DoneIs, ItemsOf
  <2>2. itemAt[q] \in DOMAIN Requests!Items(q)
    BY <1>1, <2>1
  <2> QED BY <1>1, <2>1, <2>2, ItemsOf DEF Requests!Useful, Requests!Item
<1>3. /\ success'[q] = Append(success[q], id) /\ created'[q] = Append(created[q], Len(newNotes'))
      /\ success[q] \in Seq(Ids) /\ created[q] \in Seq(Nat)
  BY <1>2 DEF Requests!Create, RequestTypes, Requests!Item
<1>4. /\ Len(newNotes) \in Nat /\ Len(newNotes') = new /\ new \in DOMAIN newNotes'
      /\ \A n \in DOMAIN newNotes : n \in DOMAIN newNotes' /\ newNotes'[n] = newNotes[n]
      /\ newNotes'[new] = Requests!InHand(q)
  <2>1. /\ Len(newNotes) \in Nat /\ Len(newNotes') = new /\ newNotes'[new] = Requests!InHand(q)
        /\ DOMAIN newNotes' = 1 .. Len(newNotes') /\ DOMAIN newNotes = 1 .. Len(newNotes)
        /\ \A n \in DOMAIN newNotes : newNotes'[n] = newNotes[n]
    BY <1>0, NotesAt
  <2> QED BY <2>1
<1>5. /\ Requests!ItemsCreated(q) \subseteq Done(q)
      /\ Requests!InOrder(Requests!Items(q), success[q], Requests!ItemsCreated(q))
      /\ Requests!InOrder(Requests!Items(q), failed[q], Done(q) \ Requests!ItemsCreated(q))
      /\ Len(created[q]) = Len(success[q])
      /\ \A k \in DOMAIN created[q] :
            /\ created[q][k] \in DOMAIN newNotes
            /\ Requests!Items(q)[newNotes[created[q][k]].item].id = success[q][k]
  BY <1>1 DEF ListInv
<1>6. Requests!ItemsCreated(q)' = Requests!ItemsCreated(q) \cup {itemAt[q]}
  BY <1>0, NotesStep
<1>7. Done(q) = 1 .. itemAt[q] - 1 /\ Done(q)' = Done(q) \cup {itemAt[q]}
          /\ itemAt[q] \notin Done(q)
      /\ \A j \in Done(q) : j < itemAt[q] /\ j \in Nat
  <2>1. ~InStep(q) /\ InStep(q)' /\ itemAt'[q] = itemAt[q] /\ itemAt[q] \in Nat /\ itemAt[q] >= 1
    BY <1>1, DoneIs DEF InStep
  <2>2. Done(q) = 1 .. itemAt[q] - 1
    BY <2>1, DoneIs
  <2>3. Done(q)' = 1 .. itemAt[q]
    BY <1>0, <1>2, <2>1, AskedStays, ItemsOf DEF Done
  <2> QED BY <2>1, <2>2, <2>3
<1> HIDE DEF id, new
<1>8. asked' = asked /\ Requests!Items(q)' = Requests!Items(q)
  BY <1>0, AskedStays
<1>9. Requests!InOrder(Requests!Items(q), success'[q], Requests!ItemsCreated(q)')
  <2>1. Requests!ItemsCreated(q) \subseteq Nat
            /\ \A j \in Requests!ItemsCreated(q) : j < itemAt[q]
    BY <1>5, <1>7
  <2>2. Requests!Items(q)[itemAt[q]].id \in Ids
            /\ success'[q] = Append(success[q], Requests!Items(q)[itemAt[q]].id)
    BY <1>2, <1>3 DEF id
  <2>3. Requests!InOrder(Requests!Items(q), Append(success[q],
            Requests!Items(q)[itemAt[q]].id), Requests!ItemsCreated(q) \cup {itemAt[q]})
    BY <1>2, <1>3, <1>5, <2>1, <2>2, OrderedGrows
  <2> QED BY <1>6, <2>2, <2>3
<1>10. Requests!ItemsCreated(q)' \subseteq Done(q)'
           /\ Done(q)' \ Requests!ItemsCreated(q)' = Done(q) \ Requests!ItemsCreated(q)
  BY <1>5, <1>6, <1>7
<1>11. Len(created'[q]) = Len(success'[q])
  BY <1>3, <1>5, AppendProperties
<1>12. ASSUME NEW k \in DOMAIN created'[q]
       PROVE  /\ created'[q][k] \in DOMAIN newNotes'
              /\ Requests!Items(q)[newNotes'[created'[q][k]].item].id = success'[q][k]
  <2>1. /\ Len(created[q]) \in Nat /\ Len(success[q]) = Len(created[q])
        /\ DOMAIN created[q] = 1 .. Len(created[q])
        /\ \A l \in 1 .. Len(created[q]) : created'[q][l] = created[q][l]
               /\ success'[q][l] = success[q][l]
        /\ created'[q][Len(created[q]) + 1] = new /\ success'[q][Len(created[q]) + 1] = id
        /\ DOMAIN created'[q] = 1 .. Len(created[q]) + 1
    <3>1. new \in Nat /\ created'[q] = Append(created[q], new)
      BY <1>3, <1>4 DEF new
    <3>2. /\ Len(created[q]) \in Nat /\ DOMAIN created[q] = 1 .. Len(created[q])
          /\ Len(success[q]) = Len(created[q])
      BY <1>3, <1>5, LenProperties
    <3>3. /\ \A l \in 1 .. Len(created[q]) : created'[q][l] = created[q][l]
          /\ created'[q][Len(created[q]) + 1] = new
          /\ DOMAIN created'[q] = 1 .. Len(created[q]) + 1
      BY <1>3, <3>1, <3>2, AppendProperties, LenProperties
    <3>4. /\ \A l \in 1 .. Len(created[q]) : success'[q][l] = success[q][l]
          /\ success'[q][Len(created[q]) + 1] = id
      BY SMTT(60), <1>2, <1>3, <3>2, AppendProperties
    <3> QED BY <3>2, <3>3, <3>4
  <2>2. CASE k = Len(created[q]) + 1
    BY <1>4, <2>1, <2>2 DEF Requests!InHand, id
  <2>3. CASE k # Len(created[q]) + 1
    <3>1. k \in DOMAIN created[q] /\ created'[q][k] = created[q][k]
              /\ success'[q][k] = success[q][k]
      BY SMTT(60), <2>1, <2>3
    <3> QED BY <1>4, <1>5, <3>1
  <2> QED BY <2>2, <2>3
<1> QED BY <1>1, <1>8, <1>9, <1>10, <1>11, <1>12, <1>5 DEF ListInv

\* An item fails.
LEMMA CreateFailsList ==
    ASSUME Requests!RequestsAssumption, RequestTypes, RequestsLinked, NEW q \in Requester,
        NEW abend \in BOOLEAN,
           ListInv(q), Requests!CreateFails(q, abend)
    PROVE  ListInv(q)'
<1>0. StepOf(q)
  BY DEF StepOf
<1>1. asked' = asked /\ Requests!Items(q)' = Requests!Items(q)
  BY <1>0, AskedStays
<1> SUFFICES ASSUME asked[q].what = "list", requestAt'[q] # "dead" PROVE ListInv(q)'
  BY <1>1 DEF ListInv
<1>2. /\ requestAt[q] = "create" /\ itemAt[q] <= Len(Requests!Items(q))
      /\ itemAt' = itemAt /\ success' = success
      /\ created' = created /\ newNotes' = newNotes
  BY DEF Requests!CreateFails, Requests!Creating, Requests!kept
<1>3. itemAt[q] \in Nat /\ itemAt[q] \in DOMAIN Requests!Items(q) /\ Requests!Item(q).id \in Ids
  <2>1. itemAt[q] \in Nat /\ itemAt[q] >= 1
            /\ DOMAIN Requests!Items(q) = 1 .. Len(Requests!Items(q))
            /\ Len(Requests!Items(q)) \in Nat
    BY DoneIs, ItemsOf
  <2>2. itemAt[q] \in DOMAIN Requests!Items(q)
    BY <1>2, <2>1
  <2> QED BY <2>1, <2>2, ItemsOf DEF Requests!Item
<1>4. Requests!ItemsCreated(q)' = Requests!ItemsCreated(q)
  BY <1>2 DEF Requests!ItemsCreated, Requests!NotesOf
<1>5. Done(q) = 1 .. itemAt[q] - 1 /\ itemAt[q] \notin Done(q)
          /\ \A j \in Done(q) : j < itemAt[q] /\ j \in Nat
  <2>1. ~InStep(q) /\ itemAt[q] \in Nat
    BY <1>2, <1>3 DEF InStep
  <2>2. Done(q) = 1 .. itemAt[q] - 1
    BY <2>1, DoneIs
  <2> QED BY <2>1, <2>2
<1>6. /\ Requests!ItemsCreated(q) \subseteq Done(q)
      /\ Requests!InOrder(Requests!Items(q), success[q], Requests!ItemsCreated(q))
      /\ Requests!InOrder(Requests!Items(q), failed[q], Done(q) \ Requests!ItemsCreated(q))
      /\ Len(created[q]) = Len(success[q])
      /\ \A k \in DOMAIN created[q] :
            /\ created[q][k] \in DOMAIN newNotes
            /\ Requests!Items(q)[newNotes[created[q][k]].item].id = success[q][k]
  BY <1>2 DEF ListInv
<1>7. CASE Requests!Answered(q, Requests!Only(400)) /\ failed' = failed
  <2>1. requestAt'[q] = "answered"
    BY <1>7 DEF Requests!Answered, RequestTypes
  <2>2. Done(q)' = Done(q)
    BY <1>1, <1>2, <2>1 DEF Done, InStep
  <2> QED BY <1>1, <1>2, <1>4, <1>6, <1>7, <2>2 DEF ListInv
<1>8. CASE Requests!Goto(q, Requests!After(q, Requests!Item(q).doc # Requests!None))
          /\ failed'[q] = Append(failed[q], Requests!Item(q).id)
  <2>1. requestAt'[q] \in {"archive", "record"}
    BY <1>8 DEF Requests!Goto, Requests!After, RequestTypes
  <2>2. Done(q)' = Done(q) \cup {itemAt[q]}
    <3>1. Done(q)' = {i \in DOMAIN Requests!Items(q) : i < itemAt[q] \/ i = itemAt[q]}
      BY <1>1, <1>2, <2>1 DEF Done, InStep
    <3>2. Done(q) = {i \in DOMAIN Requests!Items(q) : i < itemAt[q]}
      BY <1>2 DEF Done, InStep
    <3> QED BY <1>3, <3>1, <3>2
  <2>3. Requests!InOrder(Requests!Items(q), failed'[q], Done(q)' \ Requests!ItemsCreated(q)')
    <3>1. /\ Done(q)' \ Requests!ItemsCreated(q)' =
                (Done(q) \ Requests!ItemsCreated(q)) \cup {itemAt[q]}
          /\ Done(q) \ Requests!ItemsCreated(q) \subseteq Nat
          /\ \A j \in Done(q) \ Requests!ItemsCreated(q) : j < itemAt[q]
      BY <1>4, <1>5, <1>6, <2>2
    <3>2. Requests!Items(q)[itemAt[q]].id \in Ids
              /\ failed'[q] = Append(failed[q], Requests!Items(q)[itemAt[q]].id)
          /\ failed[q] \in Seq(Ids)
      BY <1>3, <1>8 DEF Requests!Item, RequestTypes
    <3>3. Requests!InOrder(Requests!Items(q), Append(failed[q], Requests!Items(q)[itemAt[q]].id),
                  (Done(q) \ Requests!ItemsCreated(q)) \cup {itemAt[q]})
      BY <1>3, <1>6, <3>1, <3>2, OrderedGrows
    <3> QED BY <3>1, <3>2, <3>3
  <2>4. Requests!ItemsCreated(q)' \subseteq Done(q)'
    BY <1>4, <1>6, <2>2
  <2> QED BY <1>1, <1>2, <1>4, <1>6, <2>3, <2>4 DEF ListInv
<1>9. \/ Requests!Answered(q, Requests!Only(400)) /\ failed' = failed
      \/ Requests!Goto(q, Requests!After(q, Requests!Item(q).doc # Requests!None))
             /\ failed'[q] = Append(failed[q], Requests!Item(q).id)
  <2>1. \/ Requests!Goto(q, "dead")
        \/ Requests!Answered(q, Requests!Only(400)) /\ failed' = failed
        \/ Requests!Goto(q, Requests!After(q, Requests!Item(q).doc # Requests!None))
            /\ failed' = [failed EXCEPT ![q] = Append(@, Requests!Item(q).id)]
    BY DEF Requests!CreateFails
  <2>2. ~Requests!Goto(q, "dead")
    BY DEF Requests!Goto, RequestTypes
  <2> QED BY <2>1, <2>2 DEF RequestTypes
<1> QED BY <1>7, <1>8, <1>9

LEMMA ListStep ==
    ASSUME Requests!RequestsAssumption, RequestTypes, RequestsLinked, RequestTypes',
        RequestsLinked', NEW q \in Requester, StepOf(q),
           ListInv(q)
    PROVE  ListInv(q)'
<1>1. asked' = asked /\ Requests!Items(q)' = Requests!Items(q)
  BY AskedStays
<1> SUFFICES ASSUME asked[q].what = "list", requestAt'[q] # "dead" PROVE ListInv(q)'
  BY <1>1 DEF ListInv
<1>2. CASE Requests!Start(q) \/ Requests!Validate(q) \/ Requests!Finish(q)
  <2>1. /\ ~InStep(q) /\ ~InStep(q)' /\ itemAt' = itemAt /\ success' = success /\ failed' = failed
        /\ created' = created /\ ~Requests!Create(q) /\ requestAt[q] # "dead"
    <3>1. newNotes' = newNotes
      BY <1>2 DEF Requests!Start, Requests!Validate, Requests!Finish, Requests!kept
    <3>2. ~Requests!Create(q)
      <4>1. Requests!Create(q) => Len(newNotes') = Len(newNotes) + 1 /\ Len(newNotes) \in Nat
        BY NotesAt
      <4> QED BY <3>1, <4>1
    <3> QED BY <1>2, <3>2 DEF Requests!Start, Requests!Validate, Requests!Finish, Requests!Goto,
                              Requests!Answered, InStep, Requests!handling, RequestTypes
  <2>2. Done(q)' = Done(q)
    BY <1>1, <2>1 DEF Done
  <2> QED BY <2>1, <2>2, ListSame
<1>3. ASSUME NEW bad \in BOOLEAN, Requests!Archive(q, ~bad) PROVE ListInv(q)'
  <2>1. requestAt[q] = "archive" /\ requestAt'[q] = "record" /\ itemAt' = itemAt
    BY <1>3 DEF Requests!Archive, Requests!Goto, RequestTypes
  <2>2. success' = success /\ failed' = failed /\ created' = created /\ ~Requests!Create(q)
    BY <1>3, <2>1 DEF Requests!Archive, Requests!handling, Requests!Create, Requests!Creating
  <2>3. Done(q)' = Done(q)
    BY <1>1, <2>1 DEF Done, InStep
  <2> QED BY <2>1, <2>2, <2>3, ListSame
<1>4. ASSUME \/ Requests!Record(q)
             \/ \E bad \in BOOLEAN : Requests!RecordFails(q, bad)
      PROVE  ListInv(q)'
  <2>1. /\ requestAt[q] = "record" /\ requestAt'[q] = "create" /\ itemAt'[q] = itemAt[q] + 1
        /\ success' = success /\ failed' = failed /\ created' = created
    BY <1>4 DEF Requests!Record, Requests!RecordFails, Requests!Goto, RequestTypes
  <2>2. ~Requests!Create(q)
    BY <2>1 DEF Requests!Create, Requests!Creating
  <2>3. Done(q)' = Done(q)
    <3>1. Done(q)' = {i \in DOMAIN Requests!Items(q) : i < itemAt[q] + 1}
      BY <1>1, <2>1 DEF Done, InStep
    <3>2. Done(q) = {i \in DOMAIN Requests!Items(q) : i < itemAt[q] \/ i = itemAt[q]}
      BY <2>1 DEF Done, InStep
    <3>3. itemAt[q] \in Nat /\ \A i \in DOMAIN Requests!Items(q) : i \in Nat
      BY ItemsOf, DoneIs
    <3> QED BY <3>1, <3>2, <3>3
  <2> QED BY <2>1, <2>2, <2>3, ListSame
<1> QED BY <1>2, <1>3, <1>4, CreateList, CreateFailsList DEF StepOf

-----------------------------------------------------------------------------
(* Answers.                                                                *)

LEMMA AnswerOthers ==
    ASSUME Requests!RequestsAssumption, RequestTypes, RequestsLinked, NEW q \in Requester,
        StepOf(q),
           NEW p \in Requester, p # q, AnswerInv(p)
    PROVE  AnswerInv(p)'
<1>1. /\ requestAt'[p] = requestAt[p] /\ itemAt'[p] = itemAt[p]
      /\ success'[p] = success[p] /\ failed'[p] = failed[p]
      /\ created'[p] = created[p] /\ lastError'[p] = lastError[p] /\ replied'[p] = replied[p]
      /\ rec'[p] = rec[p] /\ (p \in tests' <=> p \in tests)
  BY RequestRest
<1>2. asked' = asked /\ Requests!Items(p)' = Requests!Items(p)
          /\ Requests!IsPublisher(p)' = Requests!IsPublisher(p)
  BY AskedStays
<1>3. Requests!Report(p)' = Requests!Report(p) /\ Requests!Valid(p)' = Requests!Valid(p)
          /\ Requests!Status(p)' = Requests!Status(p)
  BY <1>1, <1>2 DEF Requests!Report, Requests!Valid, Requests!Status
<1> QED BY <1>1, <1>2, <1>3 DEF AnswerInv

LEMMA OnlyStatus == \A n : Requests!Only(n).status = n
  BY DEF Requests!Only

LEMMA AnsweredIs ==
    ASSUME RequestTypes, NEW q \in Requester, NEW given, Requests!Answered(q, given)
    PROVE  requestAt'[q] = "answered" /\ replied'[q] = given
  BY DEF Requests!Answered, RequestTypes

LEMMA GotoIs ==
    ASSUME RequestTypes, NEW q \in Requester, NEW step, Requests!Goto(q, step)
    PROVE  requestAt'[q] = step
  BY DEF Requests!Goto, RequestTypes

LEMMA StartAnswer ==
    ASSUME Requests!RequestsAssumption, RequestTypes, NEW q \in Requester, Requests!Start(q),
        AnswerInv(q)
    PROVE  AnswerInv(q)'
<1>1. requestAt[q] = "start" /\ replied[q] = Requests!Waiting /\ success[q] = <<>>
          /\ asked' = asked /\ success' = success
  BY DEF Requests!Start, AnswerInv, Requests!handling
<1>2. CASE Requests!Answered(q, Requests!Only(Requests!Refusal(asked[q].acc, asked[q].what)))
            /\ Requests!Refusal(asked[q].acc, asked[q].what) # 0
  <2>1. Requests!Status(q)' \in {401, 403} /\ requestAt'[q] = "answered"
    <3>1. Requests!Refusal(asked[q].acc, asked[q].what) \in {401, 403}
      BY <1>2 DEF Requests!Refusal
    <3> QED BY <1>2, <3>1, AnsweredIs, OnlyStatus DEF Requests!Status
  <2> QED BY <1>1, <2>1 DEF AnswerInv
<1>3. CASE Requests!Goto(q, "create") /\ UNCHANGED replied
  <2>1. requestAt'[q] = "create" /\ replied'[q] = Requests!Waiting /\ Requests!Status(q)' = 0
    BY <1>1, <1>3, GotoIs DEF Requests!Status, Requests!Waiting
  <2> QED BY <1>1, <2>1 DEF AnswerInv
<1> QED BY <1>2, <1>3 DEF Requests!Start

LEMMA ValidateAnswer ==
    ASSUME Requests!RequestsAssumption, RequestTypes, NEW q \in Requester,
        Requests!Validate(q), AnswerInv(q)
    PROVE  AnswerInv(q)'
<1>1. /\ asked[q].what \in {"validate", "validate_list"} /\ asked' = asked
      /\ requestAt'[q] = "answered"
      /\ Requests!Status(q)' = Requests!Validation(q) /\ (~Requests!NoObject(q) => q \in tests')
  BY AnsweredIs, OnlyStatus DEF Requests!Validate, Requests!Status
<1>2. asked[q].what = "validate_list" => ~Requests!NoObject(q)
  BY DEF Requests!NoObject
<1>3. Requests!Validation(q) = 200 /\ ~Requests!NoObject(q) => Requests!Valid(q)
  BY DEF Requests!Validation
<1>4. Requests!Valid(q)' = Requests!Valid(q)
  BY <1>1 DEF Requests!Valid, Requests!Items
<1> QED BY <1>1, <1>2, <1>3, <1>4 DEF AnswerInv

LEMMA FinishAnswer ==
    ASSUME Requests!RequestsAssumption, RequestTypes, RequestsLinked, NEW q \in Requester,
        Requests!Finish(q), AnswerInv(q)
    PROVE  AnswerInv(q)'
<1>1. /\ asked[q].what = "list" /\ asked' = asked /\ itemAt' = itemAt
      /\ requestAt'[q] = "answered"
      /\ replied'[q] = Requests!Report(q) /\ itemAt[q] > Len(Requests!Items(q))
  BY AnsweredIs DEF Requests!Finish
<1>2. Requests!Report(q)' = Requests!Report(q)
  BY DEF Requests!Finish, Requests!Report, Requests!handling, Requests!IsPublisher
<1>3. itemAt[q] = Len(Requests!Items(q)) + 1 /\ Requests!Items(q)' = Requests!Items(q)
  <2>1. itemAt[q] <= Len(Requests!Items(q)) + 1 /\ itemAt[q] \in Nat
            /\ Len(Requests!Items(q)) \in Nat
    BY ItemsOf DEF RequestsLinked, RequestTypes
  <2> QED BY <1>1, <2>1 DEF Requests!Items
<1> QED BY <1>1, <1>2, <1>3 DEF AnswerInv

\* A step after which there is no answer.
LEMMA NoAnswer ==
    ASSUME NEW q \in Requester, replied'[q] = Requests!Waiting,
        requestAt'[q] \notin {"start", "answered"}
    PROVE  AnswerInv(q)'
<1>1. Requests!Status(q)' = 0
  BY DEF Requests!Status, Requests!Waiting
<1> QED BY <1>1 DEF AnswerInv

LEMMA CreateAnswer ==
    ASSUME Requests!RequestsAssumption, RequestTypes, NEW q \in Requester,
        Requests!Create(q), AnswerInv(q)
    PROVE  AnswerInv(q)'
<1>1. requestAt[q] = "create" /\ replied' = replied /\ replied[q] = Requests!Waiting
  BY DEF Requests!Create, Requests!Creating, AnswerInv
<1>2. requestAt'[q] \in {"archive", "record"}
  BY GotoIs DEF Requests!Create, Requests!After
<1> QED BY <1>1, <1>2, NoAnswer

LEMMA CreateFailsAnswer ==
    ASSUME Requests!RequestsAssumption, RequestTypes, NEW q \in Requester, NEW abend \in BOOLEAN,
           Requests!CreateFails(q, abend), AnswerInv(q)
    PROVE  AnswerInv(q)'
<1>1. requestAt[q] = "create" /\ replied[q] = Requests!Waiting /\ asked' = asked
          /\ success' = success
  BY DEF Requests!CreateFails, Requests!Creating, AnswerInv
<1>2. CASE Requests!Answered(q, Requests!Only(400)) /\ asked[q].what = "list" /\ success[q] = <<>>
  <2>1. requestAt'[q] = "answered" /\ Requests!Status(q)' = 400
    BY <1>2, AnsweredIs, OnlyStatus DEF Requests!Status
  <2> QED BY <1>1, <1>2, <2>1 DEF AnswerInv
<1>3. CASE Requests!Goto(q, Requests!After(q, Requests!Item(q).doc # Requests!None))
          /\ UNCHANGED replied
  <2>1. requestAt'[q] \in {"archive", "record"}
    BY <1>3, GotoIs DEF Requests!After
  <2> QED BY <1>1, <1>3, <2>1, NoAnswer
<1>4. CASE Requests!Goto(q, "dead") /\ UNCHANGED replied
  <2>1. requestAt'[q] = "dead"
    BY <1>4, GotoIs
  <2> QED BY <1>1, <1>4, <2>1, NoAnswer
<1> QED BY <1>2, <1>3, <1>4 DEF Requests!CreateFails

\* The answer to a single request at the end.
LEMMA LastAnswer ==
    ASSUME Requests!RequestsAssumption, RequestTypes, NEW q \in Requester,
        asked[q].what = "single", asked' = asked,
           Requests!Answered(q, Requests!Only(IF rec[q].ok THEN 201 ELSE 400)), rec' = rec
    PROVE  AnswerInv(q)'
<1>1. requestAt'[q] = "answered" /\ Requests!Status(q)' = IF rec[q].ok THEN 201 ELSE 400
  BY AnsweredIs, OnlyStatus DEF Requests!Status
<1> QED BY <1>1 DEF AnswerInv

LEMMA ArchiveAnswer ==
    ASSUME Requests!RequestsAssumption, RequestTypes, RequestsLinked, NEW q \in Requester,
        NEW written \in BOOLEAN,
           Requests!Archive(q, written), AnswerInv(q)
    PROVE  AnswerInv(q)'
<1>1. /\ requestAt[q] = "archive" /\ replied[q] = Requests!Waiting /\ asked' = asked /\ rec' = rec
      /\ asked[q].what \in {"list", "single"}
  BY DEF Requests!Archive, AnswerInv, Requests!handling, RequestsLinked, InStep
<1>2. CASE Requests!Answered(q, Requests!Only(IF rec[q].ok THEN 201 ELSE 400))
          /\ asked[q].what # "list"
  BY <1>1, <1>2, LastAnswer
<1>3. CASE (Requests!Goto(q, "record") \/ Requests!Goto(q, "dead")) /\ UNCHANGED replied
  <2>1. requestAt'[q] \in {"record", "dead"}
    BY <1>3, GotoIs
  <2> QED BY <1>1, <1>3, <2>1, NoAnswer
<1> QED BY <1>2, <1>3 DEF Requests!Archive

LEMMA RecordAnswer ==
    ASSUME Requests!RequestsAssumption, RequestTypes, RequestsLinked, NEW q \in Requester,
        Requests!Record(q), AnswerInv(q)
    PROVE  AnswerInv(q)'
<1>1. /\ requestAt[q] = "record" /\ replied[q] = Requests!Waiting /\ asked' = asked
      /\ asked[q].what \in {"list", "single"}
  BY DEF Requests!Record, AnswerInv, RequestsLinked, InStep
<1>2. CASE Requests!Answered(q, Requests!Only(IF rec[q].ok THEN 201 ELSE 400))
          /\ asked[q].what # "list" /\ rec' = rec
  BY <1>1, <1>2, LastAnswer
<1>3. CASE (Requests!Goto(q, "create") \/ Requests!Goto(q, "dead")
          \/ Requests!Goto(q, "archive")) /\ UNCHANGED replied
  <2>1. requestAt'[q] \in {"create", "dead", "archive"}
    BY <1>3, GotoIs
  <2> QED BY <1>1, <1>3, <2>1, NoAnswer
<1> QED BY <1>2, <1>3 DEF Requests!Record

LEMMA RecordFailsAnswer ==
    ASSUME Requests!RequestsAssumption, RequestTypes, RequestsLinked, NEW q \in Requester,
        NEW abend \in BOOLEAN,
           Requests!RecordFails(q, abend), AnswerInv(q)
    PROVE  AnswerInv(q)'
<1>1. /\ requestAt[q] = "record" /\ replied[q] = Requests!Waiting /\ asked' = asked
      /\ asked[q].what \in {"list", "single"}
  BY DEF Requests!RecordFails, AnswerInv, RequestsLinked, InStep
<1>2. CASE Requests!Answered(q, Requests!Only(500)) /\ asked[q].what # "list"
  <2>1. requestAt'[q] = "answered" /\ Requests!Status(q)' = 500
    BY <1>2, AnsweredIs, OnlyStatus DEF Requests!Status
  <2> QED BY <1>1, <1>2, <2>1 DEF AnswerInv
<1>3. CASE (Requests!Goto(q, "create") \/ Requests!Goto(q, "dead")
          \/ Requests!Goto(q, "archive")) /\ UNCHANGED replied
  <2>1. requestAt'[q] \in {"create", "dead", "archive"}
    BY <1>3, GotoIs
  <2> QED BY <1>1, <1>3, <2>1, NoAnswer
<1> QED BY <1>2, <1>3 DEF Requests!RecordFails

LEMMA AnswerStep ==
    ASSUME Requests!RequestsAssumption, RequestTypes, RequestsLinked, NEW q \in Requester,
        StepOf(q), AnswerInv(q)
    PROVE  AnswerInv(q)'
  BY StartAnswer, ValidateAnswer, FinishAnswer, CreateAnswer, CreateFailsAnswer, ArchiveAnswer,
     RecordAnswer, RecordFailsAnswer DEF StepOf

-----------------------------------------------------------------------------
(* Single requests.                                                        *)

LEMMA SingleOthers ==
    ASSUME Requests!RequestsAssumption, RequestTypes, RequestsLinked, NEW q \in Requester,
        StepOf(q),
           NEW p \in Requester, p # q, SingleInv(p)
    PROVE  SingleInv(p)'
<1>1. requestAt'[p] = requestAt[p] /\ rec'[p] = rec[p] /\ asked' = asked
  BY RequestRest, AskedStays
<1>2. Requests!NotesOf(p)' = Requests!NotesOf(p)
  BY NotesStep
<1> QED BY <1>1, <1>2 DEF SingleInv

LEMMA SingleStep ==
    ASSUME Requests!RequestsAssumption, RequestTypes, RequestsLinked, NEW q \in Requester,
        StepOf(q), SingleInv(q)
    PROVE  SingleInv(q)'
<1>1. asked' = asked
  BY AskedStays
<1> SUFFICES ASSUME asked[q].what = "single" PROVE SingleInv(q)'
  BY <1>1 DEF SingleInv
<1>2. CASE Requests!Create(q)
  <2>1. requestAt[q] = "create" /\ requestAt'[q] \in {"archive", "record"}
    BY <1>2, GotoIs DEF Requests!Create, Requests!Creating, Requests!After
  <2>2. Requests!NotesOf(q)' = Requests!NotesOf(q) \cup {Len(newNotes) + 1}
            /\ Len(newNotes') = Len(newNotes) + 1
    BY <1>2, NotesStep, NotesAt
  <2>3. Requests!NotesOf(q) = {}
    BY <2>1 DEF SingleInv
  <2>4. rec'[q].ok => rec'[q].note = Len(newNotes')
    <3>1. \/ rec'[q] = [Requests!NoRec EXCEPT !.ok = TRUE, !.note = Len(newNotes')]
          \/ rec'[q] = [Requests!NoRec EXCEPT !.error = TRUE]
      BY <1>2 DEF Requests!Create, RequestTypes
    <3> QED BY <3>1 DEF Requests!NoRec
  <2> QED BY <2>1, <2>2, <2>3, <2>4 DEF SingleInv
<1>3. CASE ~Requests!Create(q)
  <2>1. Requests!NotesOf(q)' = Requests!NotesOf(q)
    BY <1>3, NotesStep
  <2>2. /\ requestAt'[q] \in {"start", "create"} =>
               requestAt[q] \in {"start", "create"} /\ rec'[q] = rec[q]
        /\ rec'[q].ok => rec[q].ok /\ rec'[q].note = rec[q].note
    <3>1. CASE Requests!Start(q) \/ Requests!Validate(q) \/ Requests!Finish(q)
      BY <3>1 DEF Requests!Start, Requests!Validate, Requests!Finish, Requests!handling,
                  RequestTypes
    <3>2. CASE Requests!Record(q)
      <4>1. requestAt'[q] \in {"archive", "dead", "answered"}
        BY <3>2, GotoIs, AnsweredIs DEF Requests!Record
      <4>2. rec'[q].ok = rec[q].ok /\ rec'[q].note = rec[q].note
        BY <3>2 DEF Requests!Record, RequestTypes, DepositRecord
      <4> QED BY <4>1, <4>2
    <3>3. ASSUME NEW bad \in BOOLEAN, Requests!CreateFails(q, bad)
          PROVE  /\ requestAt'[q] \in {"start", "create"} =>
                        requestAt[q] \in {"start", "create"} /\ rec'[q] = rec[q]
                 /\ rec'[q].ok => rec[q].ok /\ rec'[q].note = rec[q].note
      <4>1. requestAt'[q] \in {"archive", "record", "dead", "answered"}
        BY <3>3, GotoIs, AnsweredIs DEF Requests!CreateFails, Requests!After
      <4>2. rec'[q] = rec[q] \/ rec'[q] = [Requests!NoRec EXCEPT !.error = TRUE, !.abend = bad]
        BY <3>3 DEF Requests!CreateFails, RequestTypes
      <4> QED BY <4>1, <4>2 DEF Requests!NoRec
    <3>4. ASSUME NEW bad \in BOOLEAN, Requests!Archive(q, ~bad)
          PROVE  requestAt'[q] \in {"dead", "answered"} /\ rec' = rec
      BY <3>4, GotoIs, AnsweredIs DEF Requests!Archive, Requests!handling
    <3>5. ASSUME NEW bad \in BOOLEAN, Requests!RecordFails(q, bad)
          PROVE  /\ requestAt'[q] \in {"archive", "answered"}
                 /\ rec'[q].ok = rec[q].ok /\ rec'[q].note = rec[q].note
      <4>1. requestAt'[q] \in {"archive", "answered"}
        BY <3>5, GotoIs, AnsweredIs DEF Requests!RecordFails
      <4>2. rec'[q].ok = rec[q].ok /\ rec'[q].note = rec[q].note
        BY <3>5 DEF Requests!RecordFails, RequestTypes, DepositRecord
      <4> QED BY <4>1, <4>2
    <3> QED BY <1>3, <3>1, <3>2, <3>3, <3>4, <3>5 DEF StepOf
  <2> QED BY <2>1, <2>2 DEF SingleInv
<1> QED BY <1>2, <1>3

-----------------------------------------------------------------------------
(* Records.                                                                *)

LEMMA RecordedStep ==
    ASSUME RequestTypes, NEW q \in Requester, StepOf(q), NEW n
    PROVE  Recorded(newRecords', n) <=> Recorded(newRecords, n)
        \/ (Requests!Record(q) /\ Requests!IsPublisher(q) /\ n = rec[q].note)
<1>0. DOMAIN newRecords \subseteq DOMAIN newRecords'
  <2>1. Len(newRecords) \in Nat /\ Len(newRecords') \in Nat /\ Len(newRecords) <= Len(newRecords')
    BY RecordsAt
  <2>2. 1 .. Len(newRecords) \subseteq 1 .. Len(newRecords')
    BY <2>1
  <2>3. DOMAIN newRecords = 1 .. Len(newRecords) /\ DOMAIN newRecords' = 1 .. Len(newRecords')
    BY RecordsAt
  <2> QED BY <2>2, <2>3
<1>1. /\ Len(newRecords) \in Nat /\ DOMAIN newRecords = 1 .. Len(newRecords)
      /\ DOMAIN newRecords' = 1 .. Len(newRecords') /\ Len(newRecords) <= Len(newRecords')
      /\ \A k \in DOMAIN newRecords : newRecords'[k] = newRecords[k]
      /\ \A k \in DOMAIN newRecords' \ DOMAIN newRecords :
            Requests!Record(q) /\ Requests!IsPublisher(q) /\ newRecords'[k].note = rec[q].note
      /\ Requests!Record(q) /\ Requests!IsPublisher(q) => Len(newRecords') = Len(newRecords) + 1
      /\ Len(newRecords') \in Nat
  BY RecordsAt
<1>2. ASSUME Recorded(newRecords', n)
      PROVE  Recorded(newRecords, n)
          \/ (Requests!Record(q) /\ Requests!IsPublisher(q) /\ n = rec[q].note)
  <2>1. PICK k \in DOMAIN newRecords' : newRecords'[k].note = n
    BY SMTT(60), <1>2 DEF Recorded
  <2>2. CASE k \in DOMAIN newRecords
    BY ZenonT(60), <1>1, <2>1, <2>2 DEF Recorded
  <2>3. CASE k \notin DOMAIN newRecords
    BY <1>1, <2>1, <2>3
  <2> QED BY <2>2, <2>3
<1>3. ASSUME Recorded(newRecords, n) PROVE Recorded(newRecords', n)
  <2>1. PICK k \in DOMAIN newRecords : newRecords[k].note = n
    BY <1>3 DEF Recorded
  <2>2. k \in DOMAIN newRecords' /\ newRecords'[k].note = n
    <3>1. k \in DOMAIN newRecords'
      BY <1>0
    <3> QED BY <1>1, <2>1, <3>1, Zenon
  <2> QED BY <2>2 DEF Recorded
<1>4. ASSUME Requests!Record(q), Requests!IsPublisher(q) PROVE Recorded(newRecords', rec[q].note)
  <2>1. Len(newRecords') \in DOMAIN newRecords' \ DOMAIN newRecords
    BY SMTT(60), <1>1, <1>4
  <2>2. newRecords'[Len(newRecords')].note = rec[q].note
    BY <1>1, <2>1
  <2> QED BY <2>1, <2>2 DEF Recorded
<1> QED BY <1>2, <1>3, <1>4

\* What is in hand is a notification.
LEMMA InHandThere ==
    ASSUME RequestTypes, RequestsLinked, NEW p \in Requester, RecInv(p), rec[p].ok
    PROVE  /\ rec[p].note \in DOMAIN newNotes /\ rec[p].note # 0
           /\ InStep(p) => newNotes[rec[p].note] = Requests!InHand(p)
                  /\ newNotes[rec[p].note].by = p
<1>1. rec[p].note \in Nat /\ rec[p].note # 0 /\ rec[p].note <= Len(newNotes)
  BY DEF RequestTypes, RequestsLinked, RecInv, DepositRecord
<1>2. Len(newNotes) \in Nat /\ DOMAIN newNotes = 1 .. Len(newNotes)
  <2>1. newNotes \in Seq(ItemPlace)
    BY DEF RequestTypes
  <2> QED BY <2>1, LenProperties
<1> QED BY <1>1, <1>2 DEF RecInv, Requests!InHand

LEMMA RecOthers ==
    ASSUME Requests!RequestsAssumption, RequestTypes, RequestsLinked, NEW q \in Requester,
        StepOf(q), RecInv(q),
           NEW p \in Requester, p # q, RecInv(p)
    PROVE  RecInv(p)'
<1>1. requestAt'[p] = requestAt[p] /\ itemAt'[p] = itemAt[p] /\ rec'[p] = rec[p]
  BY RequestRest
<1>2. asked' = asked /\ Requests!IsPublisher(p)' = Requests!IsPublisher(p)
  BY AskedStays
<1>3. InStep(p)' = InStep(p) /\ Requests!InHand(p)' = Requests!InHand(p)
  BY <1>1 DEF InStep, Requests!InHand
<1>4. InStep(p) /\ rec[p].ok => newNotes'[rec[p].note] = Requests!InHand(p)
  <2>1. InStep(p) /\ rec[p].ok =>
            rec[p].note \in DOMAIN newNotes /\ newNotes[rec[p].note] = Requests!InHand(p)
    BY InHandThere
  <2> QED BY <2>1, NotesAt
<1>5. InStep(p) /\ rec[p].note # 0 /\ ~Recorded(newRecords, rec[p].note) =>
          ~Recorded(newRecords', rec[p].note)
  <2>1. CASE Requests!Record(q) /\ Requests!IsPublisher(q) /\ rec[p].note = rec[q].note
            /\ InStep(p) /\ rec[p].note # 0
    <3>1. rec[p].ok /\ rec[q].ok /\ InStep(q)
      BY <2>1 DEF RecInv, Requests!Record, InStep
    <3>2. newNotes[rec[p].note].by = p /\ newNotes[rec[q].note].by = q
      BY <2>1, <3>1, InHandThere
    <3> QED BY <2>1, <3>2
  <2>2. \/ Recorded(newRecords', rec[p].note) => Recorded(newRecords, rec[p].note)
        \/ Requests!Record(q) /\ Requests!IsPublisher(q) /\ rec[p].note = rec[q].note
    BY RecordedStep
  <2> QED BY <2>1, <2>2
<1>6. rec[p].id # 0 => newRecords'[rec[p].id] = newRecords[rec[p].id]
  <2>1. rec[p].id <= Len(newRecords) /\ rec[p].id \in Nat
    BY DEF RequestsLinked, RequestTypes, DepositRecord
  <2> QED BY <2>1, RecordsAt
<1>7. requestAt[p] = "archive" \/ requestAt[p] = "record" => InStep(p)
  BY DEF InStep
<1> QED BY <1>1, <1>2, <1>3, <1>4, <1>5, <1>6, <1>7 DEF RecInv

\* A step that leaves the record alone and after which it is not in hand.
LEMMA RecRests ==
    ASSUME NEW q \in Requester, RecInv(q), asked' = asked, rec'[q] = rec[q],
           requestAt'[q] \notin {"archive", "record"}
    PROVE  RecInv(q)'
  BY DEF RecInv, InStep

\* A new record that tells of a failure.
LEMMA RecOfFailure ==
    ASSUME NEW q \in Requester, NEW abend, asked' = asked,
           rec'[q] = [Requests!NoRec EXCEPT !.error = TRUE, !.abend = abend],
           requestAt'[q] = "archive" => Requests!IsPublisher(q)
    PROVE  RecInv(q)'
<1>1. rec'[q].note = 0 /\ ~rec'[q].ok /\ rec'[q].error = TRUE /\ rec'[q].id = 0
          /\ rec'[q].ok = FALSE
  BY DEF Requests!NoRec
<1>2. Requests!IsPublisher(q)' = Requests!IsPublisher(q)
  BY DEF Requests!IsPublisher
<1> QED BY <1>1, <1>2 DEF RecInv

LEMMA CreateRec ==
    ASSUME Requests!RequestsAssumption, RequestTypes, RequestsLinked, NEW q \in Requester,
        Requests!Create(q), RecInv(q)
    PROVE  RecInv(q)'
<1>0. StepOf(q) /\ asked' = asked
  BY DEF StepOf, Requests!Create
<1>1. requestAt'[q] \in {"archive", "record"} /\ (requestAt'[q] = "archive" =>
          Requests!IsPublisher(q) /\ asked[q].what = "list")
  BY GotoIs DEF Requests!Create, Requests!After
<1>2. CASE rec'[q] = [Requests!NoRec EXCEPT !.error = TRUE]
  <2>1. rec'[q].note = 0 /\ ~rec'[q].ok /\ rec'[q].error = TRUE /\ rec'[q].id = 0
        /\ rec'[q].ok = FALSE
    BY <1>2 DEF Requests!NoRec
  <2>2. Requests!IsPublisher(q)' = Requests!IsPublisher(q)
    BY <1>0 DEF Requests!IsPublisher
  <2> QED BY <1>0, <1>1, <2>1, <2>2 DEF RecInv
<1>3. CASE rec'[q] = [Requests!NoRec EXCEPT !.ok = TRUE, !.note = Len(newNotes')]
  <2>1. /\ rec'[q].ok = TRUE /\ rec'[q].note = Len(newNotes') /\ rec'[q].error = FALSE
        /\ rec'[q].id = 0
    BY <1>3 DEF Requests!NoRec
  <2>2. Len(newNotes) \in Nat /\ Len(newNotes') = Len(newNotes) + 1
            /\ newNotes'[Len(newNotes')] = Requests!InHand(q)
    BY <1>0, NotesAt
  <2>3. ~Recorded(newRecords', Len(newNotes'))
    <3>1. ~Recorded(newRecords, Len(newNotes) + 1)
      <4>1. \A k \in DOMAIN newRecords : newRecords[k].note <= Len(newNotes)
                /\ newRecords[k].note \in Nat
        <5>1. newRecords \in Seq(DepositRecord)
          BY DEF RequestTypes
        <5>2. \A k \in DOMAIN newRecords : newRecords[k] \in DepositRecord
          BY <5>1, LenProperties
        <5> QED BY <5>2 DEF RequestsLinked, DepositRecord
      <4> QED BY <2>2, <4>1 DEF Recorded
    <3>2. newRecords' = newRecords
      BY DEF Requests!Create
    <3> QED BY <2>2, <3>1, <3>2 DEF Recorded
  <2>4. Requests!InHand(q)' = Requests!InHand(q)
            /\ Requests!IsPublisher(q)' = Requests!IsPublisher(q)
    BY <1>0 DEF Requests!Create, Requests!InHand, Requests!IsPublisher
  <2>5. rec'[q].note # 0
    BY <2>1, <2>2
  <2>6. asked[q].what = "list" => asked[q].what # "single"
    OBVIOUS
  <2> QED BY <1>0, <1>1, <2>1, <2>2, <2>3, <2>4, <2>5 DEF RecInv
<1> QED BY <1>2, <1>3 DEF Requests!Create, RequestTypes

LEMMA RecordRec ==
    ASSUME Requests!RequestsAssumption, RequestTypes, RequestsLinked, NEW q \in Requester,
        Requests!Record(q), RecInv(q)
    PROVE  RecInv(q)'
<1>0. StepOf(q) /\ asked' = asked /\ requestAt[q] = "record"
  BY DEF StepOf, Requests!Record
<1>1. CASE asked[q].what = "list" \/ ~Requests!IsPublisher(q)
  <2>1. rec' = rec /\ requestAt'[q] \in {"create", "answered", "dead"}
    BY <1>1, GotoIs, AnsweredIs DEF Requests!Record
  <2> QED BY <1>0, <2>1, RecRests
<1>2. CASE asked[q].what # "list" /\ Requests!IsPublisher(q)
  <2>1. requestAt'[q] = "archive" /\ rec' = [rec EXCEPT ![q].id = Len(newRecords')]
            /\ itemAt' = itemAt /\ newNotes' = newNotes
    BY <1>2, GotoIs DEF Requests!Record
  <2>2. rec \in [Requester -> DepositRecord] /\ rec[q] \in DepositRecord
    BY DEF RequestTypes
  <2>3. /\ rec'[q].ok = rec[q].ok /\ rec'[q].note = rec[q].note /\ rec'[q].error = rec[q].error
        /\ rec'[q].id = Len(newRecords')
    BY <2>1, <2>2 DEF DepositRecord
  <2>4. /\ Len(newRecords') # 0 /\ newRecords'[Len(newRecords')].note = rec[q].note
        /\ newRecords'[Len(newRecords')].ok = rec[q].ok
    <3>1. /\ Len(newRecords) \in Nat /\ Len(newRecords') = Len(newRecords) + 1
          /\ DOMAIN newRecords = 1 .. Len(newRecords)
          /\ DOMAIN newRecords' = 1 .. Len(newRecords')
      BY <1>0, <1>2, RecordsAt
    <3>2. Len(newRecords') \in DOMAIN newRecords' \ DOMAIN newRecords
      BY <3>1
    <3> QED BY <1>0, <3>1, <3>2, RecordsAt
  <2>5. Requests!InHand(q)' = Requests!InHand(q) /\ Requests!IsPublisher(q)'
    BY <1>0, <1>2, <2>1 DEF Requests!InHand, Requests!IsPublisher
  <2>6. InStep(q)
    BY <1>0 DEF InStep
  <2> QED BY <1>0, <1>2, <2>1, <2>3, <2>4, <2>5, <2>6 DEF RecInv
<1> QED BY <1>1, <1>2

LEMMA RecordFailsRec ==
    ASSUME Requests!RequestsAssumption, RequestTypes, RequestsLinked, NEW q \in Requester,
        NEW abend \in BOOLEAN,
           Requests!RecordFails(q, abend), RecInv(q)
    PROVE  RecInv(q)'
<1>0. asked' = asked /\ requestAt[q] = "record" /\ Requests!IsPublisher(q)
  BY DEF Requests!RecordFails
<1>1. CASE rec' = rec /\ (Requests!Goto(q, "create") \/ Requests!Goto(q, "dead")
          \/ Requests!Answered(q, Requests!Only(500)))
  <2>1. requestAt'[q] \in {"create", "answered", "dead"}
    BY <1>1, GotoIs, AnsweredIs
  <2> QED BY <1>0, <1>1, <2>1, RecRests
<1>2. CASE /\ asked[q].what # "list" /\ ~rec[q].ok /\ Requests!Goto(q, "archive")
           /\ rec' = [rec EXCEPT ![q].abend = @ \/ abend]
  <2>1. rec \in [Requester -> DepositRecord] /\ rec[q] \in DepositRecord
    BY DEF RequestTypes
  <2>2. /\ rec'[q].ok = rec[q].ok /\ rec'[q].note = rec[q].note /\ rec'[q].error = rec[q].error
        /\ rec'[q].id = rec[q].id
    BY <1>2, <2>1 DEF DepositRecord
  <2>3. requestAt'[q] = "archive" /\ Requests!IsPublisher(q)' /\ InStep(q)
    BY <1>0, <1>2, GotoIs DEF Requests!IsPublisher, InStep
  <2> QED BY <1>0, <1>2, <2>2, <2>3 DEF RecInv
<1> QED BY <1>1, <1>2 DEF Requests!RecordFails

LEMMA RecStep ==
    ASSUME Requests!RequestsAssumption, RequestTypes, RequestsLinked, NEW q \in Requester,
        StepOf(q), RecInv(q)
    PROVE  RecInv(q)'
<1>1. asked' = asked
  BY AskedStays
<1>2. CASE Requests!Start(q) \/ Requests!Validate(q) \/ Requests!Finish(q)
  <2>1. rec' = rec /\ requestAt'[q] \in {"create", "answered"}
    BY <1>2, GotoIs, AnsweredIs DEF Requests!Start, Requests!Validate, Requests!Finish,
                                    Requests!handling
  <2> QED BY <1>1, <2>1, RecRests
<1>3. ASSUME NEW bad \in BOOLEAN, Requests!CreateFails(q, bad) PROVE RecInv(q)'
  <2>1. CASE rec' = rec /\ (Requests!Goto(q, "dead") \/ Requests!Answered(q, Requests!Only(400)))
    <3>1. requestAt'[q] \in {"dead", "answered"}
      BY <2>1, GotoIs, AnsweredIs
    <3> QED BY <1>1, <2>1, <3>1, RecRests
  <2>2. CASE /\ Requests!Goto(q, Requests!After(q, Requests!Item(q).doc # Requests!None))
             /\ rec' = [rec EXCEPT ![q] = [Requests!NoRec EXCEPT !.error = TRUE, !.abend = bad]]
    <3>1. requestAt'[q] = "archive" => Requests!IsPublisher(q)
      BY <2>2, GotoIs DEF Requests!After
    <3>2. rec'[q] = [Requests!NoRec EXCEPT !.error = TRUE, !.abend = bad]
      BY <2>2 DEF RequestTypes
    <3> QED BY <1>1, <3>1, <3>2, RecOfFailure
  <2> QED BY <1>3, <2>1, <2>2 DEF Requests!CreateFails
<1>4. ASSUME NEW bad \in BOOLEAN, Requests!Archive(q, ~bad) PROVE RecInv(q)'
  <2>1. requestAt[q] = "archive" /\ rec' = rec /\ newNotes' = newNotes
            /\ newRecords' = newRecords /\ itemAt' = itemAt
    BY <1>4 DEF Requests!Archive, Requests!handling
  <2>2. \/ requestAt'[q] \in {"dead", "answered"}
        \/ asked[q].what = "list" /\ requestAt'[q] = "record"
    BY <1>4, GotoIs, AnsweredIs DEF Requests!Archive
  <2>3. InStep(q) /\ Requests!InHand(q)' = Requests!InHand(q)
            /\ \A n : Recorded(newRecords', n) <=> Recorded(newRecords, n)
    BY <2>1 DEF InStep, Requests!InHand, Recorded
  <2>4. CASE asked[q].what = "list" /\ requestAt'[q] = "record"
    BY <1>1, <2>1, <2>3, <2>4 DEF RecInv
  <2> QED BY <1>1, <2>1, <2>2, <2>4, RecRests
<1> QED BY <1>2, <1>3, <1>4, CreateRec, RecordRec, RecordFailsRec DEF StepOf

LEMMA TableStep ==
    ASSUME Requests!RequestsAssumption, RequestTypes, RequestsLinked, NEW q \in Requester,
        StepOf(q), RecInv(q), DepositTables
    PROVE  DepositTables'
<1>1. /\ Len(newRecords) \in Nat /\ DOMAIN newRecords = 1 .. Len(newRecords)
      /\ DOMAIN newRecords' = 1 .. Len(newRecords') /\ Len(newRecords) <= Len(newRecords')
      /\ \A k \in DOMAIN newRecords : k \in DOMAIN newRecords' /\ newRecords'[k] = newRecords[k]
      /\ Len(newRecords') \in Nat
  BY RecordsAt
<1>2. \A k \in DOMAIN newRecords' \ DOMAIN newRecords :
         /\ Requests!Record(q) /\ Requests!IsPublisher(q) /\ k = Len(newRecords) + 1
         /\ newRecords'[k].note = rec[q].note /\ newRecords'[k].ok = rec[q].ok
         /\ newRecords'[k].error = rec[q].error
  BY RecordsAt
<1>3. Requests!Record(q) => /\ rec[q].ok <=> rec[q].note # 0
                            /\ rec[q].error = ~rec[q].ok
                            /\ rec[q].ok => ~Recorded(newRecords, rec[q].note)
                                   /\ newNotes[rec[q].note].by = q
  <2>1. Requests!Record(q) => requestAt[q] = "record" /\ InStep(q)
    BY DEF Requests!Record, InStep
  <2> QED BY <2>1, InHandThere DEF RecInv
<1>4. /\ \A p : Requests!IsPublisher(p)' = Requests!IsPublisher(p)
      /\ asked' = asked
      /\ \A n \in DOMAIN newNotes : newNotes'[n] = newNotes[n]
  BY AskedStays, NotesAt
<1>5. \A k \in DOMAIN newRecords' : newRecords'[k].note # 0 =>
          newRecords'[k].note \in DOMAIN newNotes
  <2>1. \A k \in DOMAIN newRecords : newRecords[k].note # 0 =>
            newRecords[k].note \in DOMAIN newNotes
    <3>1. newNotes \in Seq(ItemPlace) /\ newRecords \in Seq(DepositRecord)
      BY DEF RequestTypes
    <3>2. Len(newNotes) \in Nat /\ DOMAIN newNotes = 1 .. Len(newNotes)
          /\ \A k \in DOMAIN newRecords : newRecords[k] \in DepositRecord
      BY <3>1, LenProperties
    <3> QED BY <3>2 DEF RequestsLinked, DepositRecord
  <2>2. Requests!Record(q) /\ rec[q].note # 0 => rec[q].note \in DOMAIN newNotes
    BY <1>3, InHandThere
  <2> QED BY <1>1, <1>2, <2>1, <2>2
<1>6. ASSUME NEW k \in DOMAIN newRecords'
      PROVE  /\ newRecords'[k].ok <=> newRecords'[k].note # 0
             /\ newRecords'[k].error = ~newRecords'[k].ok
             /\ newRecords'[k].note # 0 => Requests!IsPublisher(newNotes'[newRecords'[k].note].by)
             /\ \A l \in DOMAIN newRecords' :
                   newRecords'[k].note = newRecords'[l].note /\ k # l => ~newRecords'[k].ok
  <2>1. /\ newRecords'[k].ok <=> newRecords'[k].note # 0
        /\ newRecords'[k].error = ~newRecords'[k].ok
        /\ newRecords'[k].note # 0 => Requests!IsPublisher(newNotes[newRecords'[k].note].by)
    <3>1. CASE k \in DOMAIN newRecords
      BY <1>1, <3>1 DEF DepositTables
    <3>2. CASE k \notin DOMAIN newRecords
      BY <1>2, <1>3, <3>2
    <3> QED BY <3>1, <3>2
  <2>2. ASSUME NEW l \in DOMAIN newRecords', newRecords'[k].note = newRecords'[l].note,
            k # l, newRecords'[k].ok
        PROVE  FALSE
    <3>1. newRecords'[k].note # 0
      BY <2>1, <2>2
    <3>2. CASE k \in DOMAIN newRecords /\ l \in DOMAIN newRecords
      BY <1>1, <2>2, <3>2 DEF DepositTables
    <3>3. CASE k \in DOMAIN newRecords /\ l \notin DOMAIN newRecords
      <4>1. Requests!Record(q) /\ rec[q].note # 0 /\ newRecords[k].note = rec[q].note
        BY <1>1, <1>2, <2>2, <3>1, <3>3
      <4> QED BY <1>3, <3>3, <4>1 DEF Recorded
    <3>4. CASE l \in DOMAIN newRecords /\ k \notin DOMAIN newRecords
      <4>1. Requests!Record(q) /\ rec[q].note # 0 /\ newRecords[l].note = rec[q].note
        BY <1>1, <1>2, <2>2, <3>1, <3>4
      <4> QED BY <1>3, <3>4, <4>1 DEF Recorded
    <3>5. k \in DOMAIN newRecords \/ l \in DOMAIN newRecords
      BY <1>2, <2>2
    <3> QED BY <3>2, <3>3, <3>4, <3>5
  <2>3. newRecords'[k].note # 0 => newNotes'[newRecords'[k].note] = newNotes[newRecords'[k].note]
    BY <1>4, <1>5
  <2> QED BY <2>1, <2>2, <2>3
<1>7. ASSUME NEW d \in DOMAIN archive' \ {0}
      PROVE  IF newRecords'[d].ok THEN newNotes'[newRecords'[d].note] = archive'[d]
             ELSE asked[archive'[d].by].what = "single"
  <2>1. CASE d \in DOMAIN archive /\ archive'[d] = archive[d]
    <3>1. d \in DOMAIN newRecords
      BY <1>1, <2>1 DEF RequestTypes
    <3>2. newRecords'[d] = newRecords[d] /\ (newRecords[d].ok => newRecords[d].note # 0)
      BY <1>1, <3>1 DEF DepositTables
    <3>3. newRecords[d].ok => newNotes'[newRecords[d].note] = newNotes[newRecords[d].note]
      BY <1>1, <1>4, <1>5, <3>1, <3>2
    <3>4. d \in DOMAIN archive \ {0}
      BY <2>1
    <3> QED BY <2>1, <3>2, <3>3, <3>4 DEF DepositTables, Requests!ArchiveAgrees
  <2>2. CASE requestAt[q] = "archive" /\ d = rec[q].id /\ archive'[d] = Requests!InHand(q)
    <3>1. /\ asked[q].what = "single" /\ newRecords[d].note = rec[q].note
          /\ newRecords[d].ok = rec[q].ok
      BY <2>2 DEF RecInv, RequestsLinked, InStep
    <3>2. d \in DOMAIN newRecords
      <4>1. rec[q].id \in Nat /\ rec[q].id <= Len(newRecords)
        BY DEF RequestTypes, RequestsLinked, DepositRecord
      <4> QED BY <1>1, <2>2, <4>1
    <3>3. newRecords'[d] = newRecords[d]
      BY <1>1, <3>2
    <3>4. Requests!InHand(q).by = q
      BY DEF Requests!InHand
    <3>5. CASE rec[q].ok
      <4>1. rec[q].note \in DOMAIN newNotes /\ newNotes[rec[q].note] = Requests!InHand(q)
        BY <2>2, <3>5, InHandThere DEF InStep
      <4> QED BY ZenonT(60), <1>4, <2>2, <3>1, <3>3, <3>5, <4>1
    <3>6. CASE ~rec[q].ok
      BY <2>2, <3>1, <3>3, <3>4, <3>6
    <3> QED BY <3>5, <3>6
  <2> QED BY <2>1, <2>2, ArchiveAt
<1>8. Requests!ArchiveAgrees'
  BY <1>4, <1>7 DEF Requests!ArchiveAgrees
<1>9. \A x : asked'[x].acc = asked[x].acc
  BY <1>4
<1> QED BY <1>6, <1>8, <1>9 DEF DepositTables, Requests!IsPublisher

-----------------------------------------------------------------------------
(* Notifications without a record.                                         *)

LEMMA OneMore ==
    ASSUME NEW S, IsFiniteSet(S), NEW x
    PROVE  /\ IsFiniteSet(S \cup {x}) /\ Cardinality(S \cup {x}) \in Nat
           /\ Cardinality(S \cup {x}) <= Cardinality(S) + 1
<1>1. /\ IsFiniteSet(S \cup {x})
      /\ Cardinality(S \cup {x}) = IF x \in S THEN Cardinality(S) ELSE Cardinality(S) + 1
  BY FS_AddElement
<1>2. Cardinality(S) \in Nat
  BY FS_CardinalityType
<1> QED BY <1>1, <1>2

LEMMA LostTyped ==
    ASSUME Requests!RequestsAssumption, RequestTypes, RequestsLinked, NEW p \in Requester
    PROVE  /\ IsFiniteSet(Lost(p)) /\ Cardinality(Lost(p)) \in Nat
           /\ requestFaults[p] \in Nat
<1>1. IsFiniteSet(Requests!NotesOf(p)) /\ Lost(p) \subseteq Requests!NotesOf(p)
  BY NotesOfTyped DEF Lost
<1>2. IsFiniteSet(Lost(p))
  BY <1>1, FS_Subset
<1>3. Cardinality(Lost(p)) \in Nat
  BY <1>2, FS_CardinalityType
<1> QED BY <1>2, <1>3 DEF RequestTypes, Requests!RequestsAssumption

LEMMA LostOthers ==
    ASSUME Requests!RequestsAssumption, RequestTypes, RequestsLinked, NEW q \in Requester,
        StepOf(q),
           NEW p \in Requester, p # q, LostInv(p)
    PROVE  LostInv(p)'
<1>1. requestAt'[p] = requestAt[p] /\ rec'[p] = rec[p] /\ requestFaults'[p] = requestFaults[p]
  BY RequestRest
<1>2. Requests!IsPublisher(p)' = Requests!IsPublisher(p) /\ Requests!Items(p)' = Requests!Items(p)
  BY AskedStays
<1>3. Requests!NotesOf(p)' = Requests!NotesOf(p) /\ Requests!NotesOf(p) \subseteq DOMAIN newNotes
  BY NotesStep, NotesOfTyped
<1>4. \A n \in Requests!NotesOf(p) : newNotes'[n] = newNotes[n]
  BY <1>3, NotesAt
<1>5. \A n : Recorded(newRecords, n) => Recorded(newRecords', n)
  BY RecordedStep
<1>6. Lost(p)' \subseteq Lost(p)
  BY <1>1, <1>2, <1>3, <1>4, <1>5 DEF Lost, InStep
<1>7. IsFiniteSet(Lost(p))
  BY LostTyped
<1>8. Cardinality(Lost(p)') <= Cardinality(Lost(p)) /\ Cardinality(Lost(p)') \in Nat
  BY <1>6, <1>7, FS_Subset, FS_CardinalityType
<1>9. Cardinality(Lost(p)) \in Nat /\ requestFaults[p] \in Nat
  BY LostTyped
<1>10. LostInv(p)' <=> (Requests!IsPublisher(p) => Cardinality(Lost(p)') <= requestFaults[p])
  BY <1>1, <1>2 DEF LostInv
<1> QED BY <1>8, <1>9, <1>10 DEF LostInv

LEMMA FaultsStep ==
    ASSUME Requests!RequestsAssumption, RequestTypes, NEW q \in Requester, StepOf(q)
    PROVE  /\ requestFaults[q] \in Nat /\ requestFaults'[q] \in Nat
           /\ requestFaults'[q] >= requestFaults[q]
           /\ (\E bad \in BOOLEAN : Requests!RecordFails(q, bad)) =>
                  requestFaults'[q] = requestFaults[q] + 1
<1>1. requestFaults \in [Requester -> 0 .. RequestFaults] /\ requestFaults[q] \in Nat
  BY DEF RequestTypes, Requests!RequestsAssumption
<1>2. Requests!Fault(q) => requestFaults'[q] = requestFaults[q] + 1
  BY SMTT(60), <1>1 DEF Requests!Fault
<1>3. requestFaults' = requestFaults \/ Requests!Fault(q)
  BY DEF StepOf, Requests!Start, Requests!Validate, Requests!Finish, Requests!Create,
         Requests!CreateFails, Requests!Archive, Requests!Record, Requests!RecordFails,
         Requests!kept
<1>4. (\E bad \in BOOLEAN : Requests!RecordFails(q, bad)) => Requests!Fault(q)
  BY DEF Requests!RecordFails
<1> QED BY <1>1, <1>2, <1>3, <1>4

\* What becomes lost: the notification in hand, when its record could not be saved.
LEMMA LostWhen ==
    ASSUME Requests!RequestsAssumption, RequestTypes, RequestsLinked, NEW q \in Requester,
        StepOf(q), RecInv(q),
           Requests!IsPublisher(q), NEW n \in Lost(q)', n \notin Lost(q)
    PROVE  n = rec[q].note /\ \E bad \in BOOLEAN : Requests!RecordFails(q, bad)
<1>1. /\ n \in Requests!NotesOf(q)' /\ ~Recorded(newRecords', n)
      /\ Requests!Useful(Requests!Items(q)[newNotes'[n].item])
      /\ ~(InStep(q)' /\ n = rec'[q].note)
  BY AskedStays DEF Lost
<1>2. ~Recorded(newRecords, n)
  BY <1>1, RecordedStep
<1>3. CASE n \notin Requests!NotesOf(q)
  <2>1. Requests!Create(q) /\ n = Len(newNotes) + 1 /\ n = Len(newNotes')
            /\ newNotes'[n] = Requests!InHand(q)
    <3>1. Requests!Create(q) /\ n = Len(newNotes) + 1
      BY <1>1, <1>3, NotesStep
    <3> QED BY <3>1, NotesAt
  <2>2. Requests!Useful(Requests!Item(q))
    BY <1>1, <2>1 DEF Requests!InHand, Requests!Item
  <2>3. rec'[q].note = Len(newNotes')
    <3>1. rec'[q] = [Requests!NoRec EXCEPT !.ok = TRUE, !.note = Len(newNotes')]
      BY <2>1, <2>2 DEF Requests!Create, RequestTypes
    <3> QED BY <3>1 DEF Requests!NoRec
  <2>4. InStep(q)'
    BY SMTT(60), <2>1, GotoIs DEF Requests!Create, Requests!After, InStep
  <2> QED BY <1>1, <2>1, <2>3, <2>4
<1>4. CASE n \in Requests!NotesOf(q)
  <2>1. n \in DOMAIN newNotes /\ n # 0 /\ newNotes'[n] = newNotes[n]
    BY <1>4, NotesOfTyped, NotesAt
  <2>2. InStep(q) /\ n = rec[q].note /\ rec[q].ok
    <3>1. InStep(q) /\ n = rec[q].note
      BY <1>1, <1>2, <1>4, <2>1 DEF Lost
    <3> QED BY <2>1, <3>1 DEF RecInv
  <2>3. ~Requests!Record(q)
    BY <1>1, <2>2, RecordedStep
  <2>4. ASSUME NEW bad \in BOOLEAN, Requests!Archive(q, ~bad) PROVE FALSE
    <3>1. rec' = rec /\ requestAt[q] = "archive"
      BY <2>4 DEF Requests!Archive, Requests!handling
    <3>2. ~InStep(q)'
      BY <1>1, <2>2, <3>1
    <3>3. asked[q].what = "single"
      <4>1. asked[q].what # "list"
        BY <2>4, <3>2, GotoIs DEF Requests!Archive, InStep
      <4> QED BY <2>2, <4>1 DEF RequestsLinked
    <3>4. rec[q].id # 0 /\ newRecords[rec[q].id].note = n
      BY <2>2, <3>1, <3>3 DEF RecInv
    <3>5. rec[q].id \in DOMAIN newRecords
      <4>1. rec[q].id \in Nat /\ rec[q].id <= Len(newRecords)
        BY DEF RequestTypes, RequestsLinked, DepositRecord
      <4> QED BY <3>4, <4>1, RecordsAt
    <3> QED BY <1>2, <3>4, <3>5 DEF Recorded
  <2>5. requestAt[q] \in {"archive", "record"}
    BY <2>2 DEF InStep
  <2> QED BY <2>2, <2>3, <2>4, <2>5 DEF StepOf, Requests!Start, Requests!Validate,
                                        Requests!Finish, Requests!Create, Requests!CreateFails,
                                        Requests!Creating
<1> QED BY <1>3, <1>4

LEMMA LostStep ==
    ASSUME Requests!RequestsAssumption, RequestTypes, RequestsLinked, NEW q \in Requester,
        StepOf(q), RecInv(q), LostInv(q)
    PROVE  LostInv(q)'
<1>1. Requests!IsPublisher(q)' = Requests!IsPublisher(q)
  BY AskedStays
<1> SUFFICES ASSUME Requests!IsPublisher(q) PROVE Cardinality(Lost(q)') <= requestFaults'[q]
  BY <1>1 DEF LostInv
<1>2. /\ IsFiniteSet(Lost(q)) /\ Cardinality(Lost(q)) \in Nat
      /\ Cardinality(Lost(q)) <= requestFaults[q]
  BY LostTyped DEF LostInv
<1>3. CASE Lost(q)' \subseteq Lost(q)
  <2>1. Cardinality(Lost(q)') <= Cardinality(Lost(q)) /\ Cardinality(Lost(q)') \in Nat
    BY <1>2, <1>3, FS_Subset, FS_CardinalityType
  <2> QED BY <1>2, <2>1, FaultsStep
<1>4. CASE ~(Lost(q)' \subseteq Lost(q))
  <2>1. /\ Lost(q)' \subseteq Lost(q) \cup {rec[q].note}
        /\ \E bad \in BOOLEAN : Requests!RecordFails(q, bad)
    BY <1>4, LostWhen
  <2>2. requestFaults'[q] = requestFaults[q] + 1 /\ requestFaults[q] \in Nat
    BY <2>1, FaultsStep
  <2>3. /\ IsFiniteSet(Lost(q) \cup {rec[q].note})
        /\ Cardinality(Lost(q) \cup {rec[q].note}) <= Cardinality(Lost(q)) + 1
        /\ Cardinality(Lost(q) \cup {rec[q].note}) \in Nat
    BY <1>2, OneMore
  <2>4. /\ Cardinality(Lost(q)') <= Cardinality(Lost(q) \cup {rec[q].note})
        /\ Cardinality(Lost(q)') \in Nat
    BY <2>1, <2>3, FS_Subset, FS_CardinalityType
  <2> QED BY <1>2, <2>2, <2>3, <2>4
<1> QED BY <1>3, <1>4

-----------------------------------------------------------------------------
(* The invariant holds, and what follows from it.                          *)

LEMMA InitRequestsInv == ASSUME Requests!RequestsAssumption, Requests!Init PROVE RequestsInv
<1>1. RequestTypes /\ RequestsLinked
  BY InitRequestTypes
<1>2. newRecords = <<>> /\ newNotes = <<>> /\ DOMAIN newRecords = {}
          /\ DOMAIN newNotes = {} /\ DOMAIN archive = {}
  BY DEF Requests!Init
<1>3. DepositTables
  BY <1>2 DEF DepositTables, Requests!ArchiveAgrees
<1>4. ASSUME NEW q \in Requester
      PROVE  ListInv(q) /\ AnswerInv(q) /\ SingleInv(q) /\ RecInv(q) /\ LostInv(q)
  <2>1. /\ requestAt[q] = "start" /\ itemAt[q] = 1 /\ rec[q] = Requests!NoRec
        /\ replied[q] = Requests!Waiting
        /\ success[q] = <<>> /\ failed[q] = <<>> /\ created[q] = <<>> /\ requestFaults[q] = 0
    BY DEF Requests!Init
  <2>2. Requests!NotesOf(q) = {} /\ Requests!ItemsCreated(q) = {} /\ Lost(q) = {}
    BY <1>2 DEF Requests!NotesOf, Requests!ItemsCreated, Lost
  <2>3. Done(q) = {}
    <3>1. Done(q) = 1 .. itemAt[q] - 1
      BY <1>1, <2>1, DoneIs DEF InStep
    <3> QED BY <2>1, <3>1
  <2>4. ListInv(q)
    BY <2>1, <2>2, <2>3, OrderedEmpty DEF ListInv
  <2>5. AnswerInv(q)
    BY <2>1 DEF AnswerInv, Requests!Status, Requests!Waiting
  <2>6. SingleInv(q) /\ RecInv(q)
    BY <2>1, <2>2 DEF SingleInv, RecInv, Requests!NoRec, InStep
  <2>7. Cardinality(Lost(q)) = 0
    BY <2>2, FS_EmptySet
  <2> QED BY <2>1, <2>4, <2>5, <2>6, <2>7 DEF LostInv
<1> QED BY <1>1, <1>3, <1>4 DEF RequestsInv

LEMMA RequestsInvStep ==
    ASSUME Requests!RequestsAssumption, RequestsInv, NEW q \in Requester, StepOf(q)
          PROVE  RequestsInv'
<1>1. RequestTypes /\ RequestsLinked /\ DepositTables
      /\ \A p \in Requester : ListInv(p) /\ AnswerInv(p) /\ SingleInv(p) /\ RecInv(p)
             /\ LostInv(p)
  BY DEF RequestsInv
<1>2. RequestTypes' /\ RequestsLinked'
  BY <1>1, RequestTypesStep, LinkedStep
<1>3. DepositTables'
  BY <1>1, TableStep
<1>4. ASSUME NEW p \in Requester
      PROVE  ListInv(p)' /\ AnswerInv(p)' /\ SingleInv(p)' /\ RecInv(p)' /\ LostInv(p)'
  <2>1. CASE p = q
    BY <1>1, <1>2, <2>1, ListStep, AnswerStep, SingleStep, RecStep, LostStep
  <2>2. CASE p # q
    BY <1>1, <2>2, ListOthers, AnswerOthers, SingleOthers, RecOthers, LostOthers
  <2> QED BY <2>1, <2>2
<1> QED BY <1>2, <1>3, <1>4 DEF RequestsInv

LEMMA RequestsInvStutters ==
    ASSUME RequestsInv, UNCHANGED Requests!vars PROVE RequestsInv'
<1>1. /\ asked' = asked /\ requestAt' = requestAt /\ itemAt' = itemAt /\ rec' = rec
      /\ success' = success
      /\ failed' = failed /\ created' = created /\ lastError' = lastError /\ replied' = replied
      /\ newNotes' = newNotes /\ newRecords' = newRecords /\ archive' = archive /\ tests' = tests
      /\ requestFaults' = requestFaults
  BY DEF Requests!vars, Requests!handling, Requests!kept
<1>2. RequestTypes' /\ RequestsLinked' /\ DepositTables'
  BY <1>1 DEF RequestsInv, RequestTypes, RequestsLinked, DepositTables, Requests!ArchiveAgrees,
              Requests!Items, InStep, Requests!IsPublisher
<1>3. ASSUME NEW q \in Requester
      PROVE  /\ Requests!NotesOf(q)' = Requests!NotesOf(q)
             /\ Requests!ItemsCreated(q)' = Requests!ItemsCreated(q) /\ Done(q)' = Done(q)
             /\ Requests!Items(q)' = Requests!Items(q)
             /\ Requests!IsPublisher(q)' = Requests!IsPublisher(q) /\ InStep(q)' = InStep(q)
             /\ Requests!InHand(q)' = Requests!InHand(q)
             /\ Requests!Valid(q)' = Requests!Valid(q) /\ Requests!Report(q)' = Requests!Report(q)
             /\ Lost(q)' = Lost(q) /\ Requests!Status(q)' = Requests!Status(q)
  BY <1>1 DEF Requests!NotesOf, Requests!ItemsCreated, Done, Requests!Items,
              Requests!IsPublisher, InStep, Requests!InHand, Requests!Valid, Requests!Report,
              Lost, Requests!Status
<1>4. ASSUME NEW q \in Requester
      PROVE  ListInv(q)' /\ AnswerInv(q)' /\ SingleInv(q)' /\ RecInv(q)' /\ LostInv(q)'
  <2>1. ListInv(q) /\ AnswerInv(q) /\ SingleInv(q) /\ RecInv(q) /\ LostInv(q)
    BY DEF RequestsInv
  <2>2. ListInv(q)' /\ SingleInv(q)'
    BY <1>1, <1>3, <2>1 DEF ListInv, SingleInv
  <2>3. AnswerInv(q)'
    BY <1>1, <1>3, <2>1 DEF AnswerInv
  <2>4. RecInv(q)' /\ LostInv(q)'
    BY <1>1, <1>3, <2>1 DEF RecInv, LostInv
  <2> QED BY <2>2, <2>3, <2>4
<1> QED BY <1>2, <1>4 DEF RequestsInv

LEMMA RequestsInvariant == ASSUME Requests!RequestsAssumption PROVE Requests!Spec => []RequestsInv
<1>1. Requests!Init => RequestsInv
  BY InitRequestsInv
<1>2. RequestsInv /\ [Requests!Next]_(Requests!vars) => RequestsInv'
  <2>1. ASSUME RequestsInv, Requests!Next PROVE RequestsInv'
    <3>1. PICK q \in Requester : StepOf(q)
      BY <2>1 DEF Requests!Next, StepOf
    <3> QED BY <2>1, <3>1, RequestsInvStep
  <2> QED BY <2>1, RequestsInvStutters
<1> QED BY <1>1, <1>2, PTL DEF Requests!Spec

LEMMA AnswersFollow == ASSUME Requests!RequestsAssumption, RequestsInv PROVE Requests!AnswersTrue
<1> SUFFICES ASSUME NEW q \in Requester
             PROVE  Requests!AnswersTrue!(q)
  BY DEF Requests!AnswersTrue
<1>1. RequestTypes /\ RequestsLinked /\ ListInv(q) /\ AnswerInv(q) /\ SingleInv(q)
  BY DEF RequestsInv
<1>2. Requests!Status(q) # 0 => requestAt[q] = "answered"
  BY <1>1 DEF AnswerInv, Requests!Status, Requests!Waiting
<1>3. asked[q].what = "list" /\ requestAt[q] = "answered" =>
        /\ Requests!ItemsCreated(q) \subseteq Done(q)
        /\ Requests!InOrder(Requests!Items(q), success[q], Requests!ItemsCreated(q))
        /\ Requests!InOrder(Requests!Items(q), failed[q], Done(q) \ Requests!ItemsCreated(q))
        /\ Len(created[q]) = Len(success[q])
        /\ \A k \in DOMAIN created[q] :
               Requests!Items(q)[newNotes[created[q][k]].item].id = success[q][k]
  BY <1>1 DEF ListInv
<1>4. ASSUME asked[q].what = "list", Requests!Status(q) \in {201, 202}
      PROVE  /\ Requests!IsPublisher(q) => Len(replied[q].created) = Len(replied[q].success)
             /\ Requests!InOrder(Requests!Items(q), replied[q].success, Requests!ItemsCreated(q))
             /\ Requests!InOrder(Requests!Items(q), replied[q].failed,
                    DOMAIN Requests!Items(q) \ Requests!ItemsCreated(q))
             /\ \A k \in DOMAIN replied[q].created :
                   Requests!Items(q)[newNotes[replied[q].created[k]].item].id =
                      replied[q].success[k]
             /\ Requests!Status(q) = 201 <=> replied[q].failed = <<>>
  <2>1. requestAt[q] = "answered"
    BY <1>2, <1>4
  <2>2. replied[q] = Requests!Report(q) /\ itemAt[q] = Len(Requests!Items(q)) + 1
    BY <1>1, <1>4, <2>1 DEF AnswerInv
  <2>3. Done(q) = DOMAIN Requests!Items(q)
    <3>1. ~InStep(q) /\ Len(Requests!Items(q)) \in Nat
              /\ DOMAIN Requests!Items(q) = 1 .. Len(Requests!Items(q))
      BY <1>1, <2>1, ItemsOf DEF InStep
    <3>2. Done(q) = 1 .. itemAt[q] - 1
      BY <1>1, <3>1, DoneIs
    <3> QED BY <2>2, <3>1, <3>2
  <2>4. /\ replied[q].success = success[q] /\ replied[q].failed = failed[q]
        /\ replied[q].created = (IF Requests!IsPublisher(q) THEN created[q] ELSE <<>>)
        /\ Requests!Status(q) = (IF failed[q] = <<>> THEN 201 ELSE 202)
    BY <2>2 DEF Requests!Report, Requests!Status
  <2>5. DOMAIN <<>> = {}
    OBVIOUS
  <2> QED BY <1>3, <1>4, <2>1, <2>3, <2>4, <2>5
<1>5. ASSUME asked[q].what = "list", Requests!Status(q) \in {400, 401, 403}
      PROVE  Requests!NotesOf(q) = {}
  <2>1. requestAt[q] = "answered"
    BY <1>2, <1>5
  <2>2. success[q] = <<>>
    <3>1. replied[q] = Requests!Report(q) => Requests!Status(q) \in {201, 202}
      BY DEF Requests!Report, Requests!Status
    <3> QED BY <1>1, <1>5, <2>1, <3>1 DEF AnswerInv
  <2>3. Requests!ItemsCreated(q) = {}
    BY <1>3, <1>5, <2>1, <2>2, OrderedNone
  <2> QED BY <2>3 DEF Requests!ItemsCreated
<1>6. ASSUME asked[q].what = "single", Requests!Status(q) = 201
      PROVE  Cardinality(Requests!NotesOf(q)) = 1
  <2>1. Requests!NotesOf(q) = {rec[q].note}
    BY <1>1, <1>6 DEF AnswerInv, SingleInv
  <2> QED BY <2>1, FS_Singleton
<1>7. asked[q].what = "validate_list" /\ Requests!Status(q) = 200 =>
          Requests!Valid(q) /\ q \in tests
  BY <1>1 DEF AnswerInv
<1> QED BY <1>4, <1>5, <1>6, <1>7, Counting

LEMMA InRange == \A f, n : (\E r \in Requests!Range(f) : r.note = n) <=> Recorded(f, n)
  BY DEF Requests!Range, Recorded

LEMMA RecordsFollow == ASSUME Requests!RequestsAssumption, RequestsInv PROVE Requests!RecordsAgree
<1>1. RequestTypes /\ RequestsLinked /\ DepositTables /\ \A q \in Requester : LostInv(q)
  BY DEF RequestsInv
<1>2. ASSUME NEW q \in Requester, Requests!IsPublisher(q)
      PROVE  Cardinality(Requests!Unrecorded(q) \
                {n \in Requests!NotesOf(q) :
                    ~Requests!Useful(Requests!Items(q)[newNotes[n].item])})
                <= requestFaults[q] + (IF requestAt[q] \in {"archive", "record"} THEN 1 ELSE 0)
  <2> DEFINE left ==
                Requests!Unrecorded(q) \
                    {n \in Requests!NotesOf(q) :
                        ~Requests!Useful(Requests!Items(q)[newNotes[n].item])}
  <2>1. \A n \in left : n \in Requests!NotesOf(q) /\ ~Recorded(newRecords, n)
            /\ Requests!Useful(Requests!Items(q)[newNotes[n].item])
    BY InRange DEF Requests!Unrecorded
  <2> HIDE DEF left
  <2>2. /\ IsFiniteSet(Lost(q)) /\ Cardinality(Lost(q)) \in Nat /\ requestFaults[q] \in Nat
        /\ Cardinality(Lost(q)) <= requestFaults[q]
    BY <1>1, <1>2, LostTyped DEF LostInv
  <2>3. CASE InStep(q)
    <3>1. left \subseteq Lost(q) \cup {rec[q].note}
      BY <2>1 DEF Lost
    <3>2. /\ IsFiniteSet(Lost(q) \cup {rec[q].note})
          /\ Cardinality(Lost(q) \cup {rec[q].note}) <= Cardinality(Lost(q)) + 1
          /\ Cardinality(Lost(q) \cup {rec[q].note}) \in Nat
      BY <2>2, OneMore
    <3>3. Cardinality(left) <= Cardinality(Lost(q) \cup {rec[q].note})
              /\ Cardinality(left) \in Nat
      BY <3>1, <3>2, FS_Subset, FS_CardinalityType
    <3>4. Cardinality(left) <= requestFaults[q] + 1
      BY <2>2, <3>2, <3>3
    <3> QED BY <2>3, <3>4 DEF InStep, left
  <2>4. CASE ~InStep(q)
    <3>1. left \subseteq Lost(q)
      BY <2>1, <2>4 DEF Lost
    <3>2. Cardinality(left) <= Cardinality(Lost(q)) /\ Cardinality(left) \in Nat
      BY <2>2, <3>1, FS_Subset, FS_CardinalityType
    <3>3. Cardinality(left) <= requestFaults[q] + 0
      BY <2>2, <3>2
    <3> QED BY <2>4, <3>3 DEF InStep, left
  <2> QED BY <2>3, <2>4
<1>3. \A r \in Requests!Range(newRecords) : (r.ok <=> r.note # 0) /\ r.error = ~r.ok
  BY <1>1 DEF DepositTables, Requests!Range
<1>4. \A k, l \in DOMAIN newRecords : newRecords[k].note = newRecords[l].note /\ k # l =>
          ~newRecords[k].ok
  BY <1>1 DEF DepositTables
<1>5. ASSUME NEW q \in Requester, ~Requests!IsPublisher(q), NEW n \in Requests!NotesOf(q)
      PROVE  ~\E r \in Requests!Range(newRecords) : r.note = n
  <2>1. n # 0 /\ newNotes[n].by = q
    BY <1>1, NotesOfTyped DEF Requests!NotesOf
  <2>2. ~Recorded(newRecords, n)
    BY <1>1, <1>5, <2>1 DEF DepositTables, Recorded
  <2> QED BY <2>2, InRange
<1> QED BY <1>2, <1>3, <1>4, <1>5, Counting DEF Requests!RecordsAgree

LEMMA RequestsInvGives ==
    ASSUME Requests!RequestsAssumption, RequestsInv
          PROVE  Requests!AnswersTrue /\ Requests!RecordsAgree /\ Requests!ArchiveAgrees
  BY AnswersFollow, RecordsFollow DEF RequestsInv, DepositTables

LEMMA RequestTypesGive == ASSUME Requests!RequestsAssumption, RequestsInv PROVE Requests!TypeOK
<1>1. RequestTypes /\ RequestsLinked
  BY DEF RequestsInv
<1>2. ASSUME NEW q \in Requester PROVE itemAt[q] \in 1 .. Len(Requests!Items(q)) + 1
  <2>1. itemAt[q] \in Nat /\ Len(Requests!Items(q)) \in Nat /\ itemAt[q] >= 1
            /\ itemAt[q] <= Len(Requests!Items(q)) + 1
    BY <1>1, ItemsOf DEF RequestTypes, RequestsLinked
  <2> QED BY <2>1
<1>3. newNotes \in Seq(ItemPlace) /\ newRecords \in Seq(DepositRecord)
  BY <1>1 DEF RequestTypes
<1>4. (\A n \in DOMAIN newNotes : newNotes[n] \in ItemPlace)
          /\ \A k \in DOMAIN newRecords : newRecords[k] \in DepositRecord
  BY <1>3, LenProperties
<1>5. \A n \in Requests!Range(newNotes) : n.by \in Requester
          /\ n.item \in 1 .. Len(Requests!Items(n.by))
  <2>1. \A n \in DOMAIN newNotes : newNotes[n].by \in Requester
            /\ newNotes[n].item \in DOMAIN Requests!Items(newNotes[n].by)
    BY <1>1, <1>4 DEF RequestsLinked, ItemPlace
  <2>2. \A q \in Requester : DOMAIN Requests!Items(q) = 1 .. Len(Requests!Items(q))
    BY <1>1, ItemsOf
  <2> QED BY <2>1, <2>2 DEF Requests!Range
<1>6. \A r \in Requests!Range(newRecords) : r.note \in 0 .. Len(newNotes)
  <2>1. \A k \in DOMAIN newRecords : newRecords[k].note \in Nat
            /\ newRecords[k].note <= Len(newNotes)
    BY <1>1, <1>4 DEF RequestsLinked, DepositRecord
  <2>2. Len(newNotes) \in Nat
    BY <1>3, LenProperties
  <2> QED BY <2>1, <2>2 DEF Requests!Range
<1> QED BY <1>1, <1>2, <1>5, <1>6 DEF Requests!TypeOK, RequestTypes, RequestPlaces

-----------------------------------------------------------------------------
(* Files of notifications.                                                 *)

Given == package.format # "none"
Whole == Content!ZipName(package.format)

\* Somebody needs the archive unpacked, or in another format.
Unpacked == Given /\ \E r \in DOMAIN needs : needs[r] = "unpacked"
Converted == \E r \in DOMAIN needs : Content!Convertible(package.format, needs[r])

LinkFields == {"type", "format", "access", "packaging", "cloc", "url"}
FileTypes ==
    /\ fileStage \in {"received", "refused", "unrouted", "unpacking", "routed", "deleted"}
    /\ package \in Archived /\ pdfs \in PdfsElsewhere
    /\ changed \in 0 .. FileDays /\ fileDay \in 0 .. FileDays /\ routedOn \in 0 .. FileDays
    /\ fileFaultCount \in 0 .. FileFaults
    /\ packaging \in [Fetcher -> {"none", "simple", "unpacked"}]
    /\ DOMAIN needs \subseteq Fetcher
    /\ cache \in [Content!Urls -> {"none", "part", "whole"}]
    /\ unpack \subseteq Content!Writes
    /\ \A l \in links : DOMAIN l = LinkFields

\* What a place of the store holds, if there is anything.
HoldsTrue ==
    /\ ~Given => store = <<>>
    /\ fileStage \in {"received", "refused"} => store = <<>>
    /\ \A path \in DOMAIN store : store[path] \subseteq Content!Names
    /\ Whole \in DOMAIN store => store[Whole] = Content!Names
    /\ \A i \in Content!Writes :
          Content!PathOf(i) \in DOMAIN store => store[Content!PathOf(i)] = Content!NamesOf(i)

\* What is there until it may be deleted.
HoldsAll ==
    fileDay <= FilesKept /\ Given =>
        /\ fileStage \notin {"received", "refused"} => Whole \in DOMAIN store
        /\ fileStage = "unpacking" =>
              \A i \in Content!Writes \ unpack : Content!PathOf(i) \in DOMAIN store
        /\ fileStage \in {"routed", "deleted"} /\ Unpacked =>
              \A i \in Content!Writes : Content!PathOf(i) \in DOMAIN store

\* The links that there are when it has been routed or is being unpacked.
ConvertedLink ==
    Content!Link("package", "zip", "router", "simple", Content!ZipName(package.format),
                 Content!NoUrl)
LinksAre ==
    fileStage \in {"unpacking", "routed", "deleted"} =>
        links = Content!PublicLinks
                  \cup (IF Given THEN {Content!OriginalLink} ELSE {})
                  \cup (IF Given /\ Converted THEN {ConvertedLink} ELSE {})
                  \cup (IF Unpacked /\ fileStage # "unpacking" THEN Content!UnpackedLinks
                        ELSE {})

Days ==
    /\ fileStage \in {"received", "unrouted", "unpacking"} => fileDay <= RoutingTime
    /\ fileStage \in {"routed", "deleted"} => routedOn <= RoutingTime

\* Packagings change only to others that there are; what is left to write is so while the
\* archive is being unpacked, for somebody.
NeedsAre ==
    /\ \A r \in DOMAIN needs :
          packaging[r] = needs[r] \/ packaging[r] \in {"simple", "unpacked"}
    /\ fileStage = "unpacking" => Unpacked /\ unpack # {}

FilesInv ==
    /\ FileTypes /\ HoldsTrue /\ HoldsAll /\ LinksAre /\ Days /\ NeedsAre
    /\ Content!DepositsRecorded

\* PlacesInStore of the store.
LEMMA PlacesInStore ==
    ASSUME NEW format
    PROVE  /\ Content!ZipName(format) # Content!JatsFile
           /\ Content!ZipName(format) # <<>> /\ Content!JatsFile # <<>>
           /\ \A a, b : /\ <<a, b>> # Content!ZipName(format) /\ <<a, b>> # Content!JatsFile
                        /\ <<a, b>> # <<>>
<1>1. Len(Content!ZipName(format)) = 1 /\ Len(Content!JatsFile) = 1 /\ Len(<<>>) = 0
  BY DEF Content!ZipName, Content!JatsFile
<1>2. \A a, b : Len(<<a, b>>) = 2
  OBVIOUS
<1>3. Content!ZipName(format) # Content!JatsFile
  BY DEF Content!ZipName, Content!JatsFile
<1> QED BY <1>1, <1>2, <1>3

LEMMA ArchiveIs ==
    ASSUME Content!ContentAssumption, FileTypes
    PROVE  /\ package.format \in {"none", "simple", "jats"}
           /\ package.files \in Seq(Content!Range(package.files))
           /\ Len(package.files) \in Nat
           /\ DOMAIN package.files = 1 .. Len(package.files)
           /\ \A i, j \in DOMAIN package.files :
                 i # j => package.files[i].name # package.files[j].name
           /\ \A i \in DOMAIN package.files :
                 package.files[i].kind = "pdf" => package.files[i].name # Content!Rest
<1>1. package \in Archived
  BY DEF FileTypes
<1>2. /\ package.format \in {"none", "simple", "jats"}
      /\ package.files \in Seq(Content!Range(package.files))
      /\ \A i, j \in DOMAIN package.files :
            i # j => package.files[i].name # package.files[j].name
      /\ \A i \in DOMAIN package.files :
            package.files[i].kind = "pdf" => package.files[i].name # Content!Rest
  BY <1>1 DEF Content!ContentAssumption, Content!None
<1> QED BY <1>2, LenProperties

\* Each place in the archive that is written has a place of its own in the store.
LEMMA PathsDiffer ==
    ASSUME Content!ContentAssumption, FileTypes,
           NEW i \in Content!Writes, NEW j \in Content!Writes, i # j
    PROVE  Content!PathOf(i) # Content!PathOf(j)
<1>1. ASSUME NEW k \in Content!Writes, ~Content!IsOther(k)
      PROVE  k \in DOMAIN package.files /\ package.files[k].kind = "pdf"
  BY <1>1, ArchiveIs DEF Content!Writes, Content!IsOther, Content!IsPdf
<1>2. Content!IsOther(i) /\ Content!IsOther(j) => FALSE
  BY DEF Content!IsOther
<1>3. Content!PathOf(i)[2] # Content!PathOf(j)[2]
  BY <1>1, <1>2, ArchiveIs DEF Content!PathOf
<1> QED BY <1>3

\* What the places hold: each its own, and together all.
LEMMA PlacesHold ==
    ASSUME Content!ContentAssumption, FileTypes
    PROVE  /\ UNION {Content!NamesOf(i) : i \in Content!Writes} = Content!Names
           /\ \A i, j \in Content!Writes :
                 i # j => Content!NamesOf(i) \cap Content!NamesOf(j) = {}
           /\ \A i \in Content!Writes : Content!NamesOf(i) \subseteq Content!Names
<1> DEFINE F == package.files
<1>1. ASSUME NEW k \in Content!Writes, ~Content!IsOther(k)
      PROVE  /\ k \in DOMAIN F /\ F[k].kind = "pdf"
             /\ Content!NamesOf(k) = {F[k].name}
  BY <1>1, ArchiveIs DEF Content!Writes, Content!IsOther, Content!IsPdf, Content!NamesOf
<1>2. ASSUME NEW k, Content!IsOther(k)
      PROVE  Content!NamesOf(k) = {F[n].name : n \in {m \in DOMAIN F : F[m].kind # "pdf"}}
  BY <1>2 DEF Content!NamesOf, Content!Others, Content!IsPdf, Content!Range
<1>3. Content!Names = {F[n].name : n \in DOMAIN F}
  BY DEF Content!Names, Content!NamesIn, Content!Range
<1>4. ASSUME NEW n \in DOMAIN F, F[n].kind = "pdf"
      PROVE  n \in Content!Writes /\ ~Content!IsOther(n)
  BY <1>4, ArchiveIs DEF Content!Writes, Content!IsOther, Content!IsPdf
<1>5. /\ Len(F) + 1 \in Content!Writes
      /\ \A k : Content!IsOther(k) <=> k = Len(F) + 1
  BY ArchiveIs DEF Content!Writes, Content!IsOther
<1>6. \A k \in Content!Writes : Content!NamesOf(k) \subseteq Content!Names
  BY <1>1, <1>2, <1>3
<1>7. Content!Names \subseteq UNION {Content!NamesOf(i) : i \in Content!Writes}
  <2>1. ASSUME NEW n \in DOMAIN F
        PROVE  \E k \in Content!Writes : F[n].name \in Content!NamesOf(k)
    <3>1. CASE F[n].kind = "pdf"
      BY <1>1, <1>4, <3>1
    <3>2. CASE F[n].kind # "pdf"
      BY <1>2, <1>5, <3>2
    <3> QED BY <3>1, <3>2
  <2> QED BY <1>3, <2>1
<1>8. ASSUME NEW i \in Content!Writes, NEW j \in Content!Writes, i # j
      PROVE  Content!NamesOf(i) \cap Content!NamesOf(j) = {}
  <2>1. CASE ~Content!IsOther(i) /\ ~Content!IsOther(j)
    BY <1>1, <1>8, <2>1, ArchiveIs
  <2>2. CASE Content!IsOther(i) /\ ~Content!IsOther(j)
    BY <1>1, <1>2, <2>2, ArchiveIs
  <2>3. CASE ~Content!IsOther(i) /\ Content!IsOther(j)
    BY <1>1, <1>2, <2>3, ArchiveIs
  <2> QED BY <1>5, <1>8, <2>1, <2>2, <2>3
<1> QED BY <1>6, <1>7, <1>8

-----------------------------------------------------------------------------
(* Steps of notifications' files.                                          *)

LEMMA InitFiles == ASSUME Content!ContentAssumption, Content!Init PROVE FilesInv
<1>1. FileTypes
  <2>1. packaging \in [Fetcher -> {"none", "simple", "unpacked"}]
    BY DEF Content!Init, Content!ContentAssumption, Content!None
  <2> QED BY <2>1 DEF Content!Init, Content!ContentAssumption, Content!None, FileTypes
<1>2. store = <<>> /\ needs = <<>> /\ fileStage = "received" /\ fileDay = 0
  BY DEF Content!Init
<1>3. HoldsTrue /\ HoldsAll /\ LinksAre
  BY <1>2 DEF HoldsTrue, HoldsAll, LinksAre
<1>4. Days /\ NeedsAre
  BY <1>2 DEF Days, NeedsAre, Content!ContentAssumption
<1>5. Content!DepositsRecorded
  BY DEF Content!Init, Content!DepositsRecorded, Content!NoAnswer, Content!None
<1> QED BY <1>1, <1>3, <1>4, <1>5 DEF FilesInv

\* What is said of a package while it is the same.
PackageSame ==
    /\ Given' <=> Given
    /\ Whole' = Whole /\ Content!Names' = Content!Names /\ Content!Writes' = Content!Writes
    /\ Content!UnpackedLinks' = Content!UnpackedLinks
    /\ Content!OriginalLink' = Content!OriginalLink /\ ConvertedLink' = ConvertedLink
    /\ \A i : Content!PathOf(i)' = Content!PathOf(i)
    /\ \A i : Content!NamesOf(i)' = Content!NamesOf(i)
LEMMA OfPackage == ASSUME package' = package PROVE PackageSame
<1>1. (Given' <=> Given) /\ Whole' = Whole
  BY DEF Given, Whole, Content!ZipName
<1>2. Content!Names' = Content!Names
  BY DEF Content!Names, Content!NamesIn
<1>3. Content!Writes' = Content!Writes
  BY DEF Content!Writes, Content!IsOther, Content!IsPdf
<1>4. \A i : Content!PathOf(i)' = Content!PathOf(i)
  BY DEF Content!PathOf, Content!IsOther, Content!Folder, Content!Rest
<1>5. \A i : Content!NamesOf(i)' = Content!NamesOf(i)
  BY DEF Content!NamesOf, Content!IsOther, Content!Others, Content!IsPdf, Content!Range
<1>6. Content!UnpackedLinks' = Content!UnpackedLinks
  BY <1>3, <1>4 DEF Content!UnpackedLinks, Content!UnpackedLink
<1>7. Content!OriginalLink' = Content!OriginalLink /\ ConvertedLink' = ConvertedLink
  BY DEF Content!OriginalLink, ConvertedLink, Content!ZipName
<1> QED BY <1>1, <1>2, <1>3, <1>4, <1>5, <1>6, <1>7 DEF PackageSame

LEMMA UnpackedSame ==
    ASSUME package' = package, needs' = needs
    PROVE  (Unpacked' <=> Unpacked) /\ (Converted' <=> Converted)
  BY DEF Unpacked, Converted, Given, Content!Convertible

LEMMA HoldsTrueKept ==
    ASSUME HoldsTrue, package' = package, store' = store,
           fileStage' \in {"received", "refused"} => fileStage \in {"received", "refused"}
    PROVE  HoldsTrue'
<1>0. PackageSame
  BY OfPackage
<1>1. (~Given)' => store' = <<>>
  BY <1>0 DEF HoldsTrue, PackageSame
<1>2. (\A path \in DOMAIN store : store[path] \subseteq Content!Names)'
  BY <1>0 DEF HoldsTrue, PackageSame
<1>3. (Whole \in DOMAIN store => store[Whole] = Content!Names)'
  BY <1>0 DEF HoldsTrue, PackageSame
<1>4. (\A i \in Content!Writes :
          Content!PathOf(i) \in DOMAIN store => store[Content!PathOf(i)] = Content!NamesOf(i))'
  BY <1>0 DEF HoldsTrue, PackageSame
<1> QED BY <1>1, <1>2, <1>3, <1>4 DEF HoldsTrue

LEMMA HoldsAllKept ==
    ASSUME FileTypes, HoldsAll, package' = package, store' = store, needs' = needs,
           unpack' = unpack, fileDay' >= fileDay, fileDay' \in Nat,
           FilesKept \in Nat,
           \/ fileStage' = fileStage
           \/ fileStage = "routed" /\ fileStage' = "deleted"
           \/ fileStage = "unpacking" /\ fileStage' = "unrouted"
    PROVE  HoldsAll'
<1>0. PackageSame /\ (Unpacked' <=> Unpacked)
  BY OfPackage, UnpackedSame
<1>1. (fileDay <= FilesKept)' => fileDay <= FilesKept
  BY DEF FileTypes
<1>3. ASSUME (fileDay <= FilesKept /\ Given)'
      PROVE  /\ fileStage' \notin {"received", "refused"} => Whole' \in DOMAIN store'
             /\ fileStage' = "unpacking" =>
                   \A i \in Content!Writes' \ unpack' : Content!PathOf(i)' \in DOMAIN store'
             /\ fileStage' \in {"routed", "deleted"} /\ Unpacked' =>
                   \A i \in Content!Writes' : Content!PathOf(i)' \in DOMAIN store'
  BY <1>0, <1>1, <1>3 DEF HoldsAll, PackageSame
<1> QED BY <1>3 DEF HoldsAll

LEMMA LinksKept ==
    ASSUME LinksAre, UNCHANGED <<package, pdfs, needs, links>>,
           \/ fileStage' \notin {"unpacking", "routed", "deleted"}
           \/ fileStage' = fileStage
           \/ fileStage = "routed" /\ fileStage' = "deleted"
    PROVE  LinksAre'
<1>0. PackageSame /\ (Unpacked' <=> Unpacked) /\ (Converted' <=> Converted)
  BY OfPackage, UnpackedSame
<1>1. Content!PublicLinks' = Content!PublicLinks
  BY DEF Content!PublicLinks, Content!Link, Content!Url, Content!NoPath, Content!None
<1> QED BY <1>0, <1>1 DEF LinksAre, PackageSame

LEMMA NoDeposit == ASSUME answer' = Content!NoAnswer PROVE Content!DepositsRecorded'
  BY DEF Content!DepositsRecorded, Content!NoAnswer, Content!None

LEMMA ReceiveFiles ==
    ASSUME Content!ContentAssumption, FilesInv, Content!Receive PROVE FilesInv'
<1>1. FileTypes' /\ package' = package
  BY DEF FilesInv, FileTypes, Content!Receive, Content!Writes, Content!IsOther, Content!IsPdf
<1>0. PackageSame
  BY <1>1, OfPackage
<1>2. Content!DepositsRecorded'
  BY NoDeposit DEF Content!Receive
<1>3. Days' /\ LinksAre'
  BY DEF FilesInv, Days, LinksAre, Content!Receive
<1>4. NeedsAre'
  BY DEF FilesInv, NeedsAre, Content!Receive
<1>5. fileStage = "received" /\ store = <<>> /\ fileStage' \in {"refused", "unrouted"}
  BY DEF FilesInv, HoldsTrue, Content!Receive
<1>6. CASE fileStage' = "refused"
  <2>1. store' = store
    BY <1>6 DEF Content!Receive
  <2>2. HoldsTrue'
    BY <1>1, <1>5, <2>1, HoldsTrueKept DEF FilesInv
  <2>3. HoldsAll'
    BY <1>6 DEF HoldsAll
  <2> QED BY <1>1, <1>2, <1>3, <1>4, <2>2, <2>3 DEF FilesInv
<1>7. CASE fileStage' = "unrouted"
  <2>1. store' = Content!Stored
    BY <1>5, <1>7 DEF Content!Receive
  <2>2. CASE ~Given
    <3>1. store' = <<>>
      BY <2>1, <2>2 DEF Content!Stored, Given, Content!None
    <3>2. HoldsTrue' /\ HoldsAll'
      BY <1>0, <1>7, <2>2, <3>1 DEF HoldsTrue, HoldsAll, PackageSame
    <3> QED BY <1>1, <1>2, <1>3, <1>4, <3>2 DEF FilesInv
  <2>3. CASE Given
    <3>1. /\ DOMAIN store' = {Whole} \cup (IF package.format = "jats" THEN {Content!JatsFile} ELSE {})
          /\ \A path \in DOMAIN store' :
                store'[path] = IF path = Content!JatsFile THEN {f.name : f \in Content!Article}
                               ELSE Content!Names
      BY <2>1, <2>3 DEF Content!Stored, Given, Content!None, Whole
    <3>2. {f.name : f \in Content!Article} \subseteq Content!Names
      BY DEF Content!Article, Content!Names, Content!NamesIn, Content!Range
    <3>3. Whole # Content!JatsFile /\ \A i : Content!PathOf(i) \notin DOMAIN store'
      BY <3>1, PlacesInStore DEF Whole, Content!PathOf
    <3>4. HoldsTrue'
      BY <1>0, <1>7, <2>3, <3>1, <3>2, <3>3 DEF HoldsTrue, PackageSame
    <3>5. HoldsAll'
      BY <1>0, <1>7, <3>1 DEF HoldsAll, PackageSame
    <3> QED BY <1>1, <1>2, <1>3, <1>4, <3>4, <3>5 DEF FilesInv
  <2> QED BY <2>2, <2>3
<1> QED BY <1>5, <1>6, <1>7

LEMMA FileBounds ==
    ASSUME Content!ContentAssumption
    PROVE  /\ FilesKept \in Nat /\ RoutingTime \in Nat /\ DownloadLimit \in Nat
           /\ FileDays \in Nat /\ FileFaults \in Nat
           /\ RoutingTime + DownloadLimit <= FilesKept
  BY DEF Content!ContentAssumption

LEMMA LinksTyped ==
    /\ \A t, f, a, p, c, u : DOMAIN Content!Link(t, f, a, p, c, u) = LinkFields
    /\ \A l \in Content!PublicLinks : DOMAIN l = LinkFields
    /\ \A l \in Content!UnpackedLinks : DOMAIN l = LinkFields
<1>1. \A t, f, a, p, c, u : DOMAIN Content!Link(t, f, a, p, c, u) = LinkFields
  BY DEF Content!Link, LinkFields
<1> QED BY <1>1 DEF Content!PublicLinks, Content!UnpackedLinks, Content!UnpackedLink

LEMMA StartRoutingFiles ==
    ASSUME Content!ContentAssumption, FilesInv,
           NEW matched \in (SUBSET Fetcher) \ {{}}, Content!StartRouting(matched)
    PROVE  FilesInv'
<1> DEFINE required == {packaging[r] : r \in matched}
<1>1. /\ UNCHANGED <<package, pdfs, store, changed, packaging, fileDay, cache, fileFaultCount>>
      /\ fileStage = "unrouted" /\ fileDay <= RoutingTime
      /\ needs' = [r \in matched |-> packaging[r]]
      /\ links' = Content!PublicLinks \cup
                    (IF Given THEN {Content!OriginalLink} \cup Content!Converted(required) ELSE {})
      /\ answer' = Content!NoAnswer
      /\ \/ Given /\ "unpacked" \in required /\ fileStage' = "unpacking"
               /\ unpack' = Content!Writes /\ routedOn' = routedOn
         \/ ~(Given /\ "unpacked" \in required) /\ fileStage' = "routed"
               /\ routedOn' = fileDay /\ unpack' = unpack
  BY DEF Content!StartRouting, Given, Content!None
<1>2. PackageSame
  BY <1>1, OfPackage
<1>3. /\ DOMAIN needs' = matched /\ \A r \in matched : needs'[r] = packaging[r]
      /\ Unpacked' <=> Given /\ "unpacked" \in required
      /\ Converted' <=> \E t \in required : Content!Convertible(package.format, t)
  BY <1>1, <1>2 DEF PackageSame, Unpacked, Converted, Content!Convertible
<1> HIDE DEF required
<1>4. FileTypes'
  <2>1. \A l \in links' : DOMAIN l = LinkFields
    BY <1>1, LinksTyped DEF Content!Converted, Content!OriginalLink
  <2> QED BY <1>1, <1>2, <1>3, <2>1 DEF FilesInv, FileTypes, PackageSame
<1>5. fileDay <= FilesKept
  BY <1>1, FileBounds DEF FilesInv, FileTypes
<1>6. Given => Whole \in DOMAIN store
  BY <1>1, <1>5 DEF FilesInv, HoldsAll
<1>7. HoldsTrue'
  BY <1>1, HoldsTrueKept DEF FilesInv
<1>8. HoldsAll'
  BY <1>1, <1>2, <1>3, <1>6 DEF HoldsAll, PackageSame
<1>9. Given => Content!Converted(required) = IF Converted' THEN {ConvertedLink} ELSE {}
  BY <1>3, <1>6 DEF Content!Converted, ConvertedLink, Whole
<1>10. Content!PublicLinks' = Content!PublicLinks
  BY <1>1 DEF Content!PublicLinks, Content!Link, Content!Url, Content!NoPath, Content!None
<1>11. LinksAre'
  BY <1>1, <1>2, <1>3, <1>9, <1>10 DEF LinksAre, PackageSame
<1>12. Days'
  BY <1>1 DEF Days
<1>13. NeedsAre'
  <2>1. Len(package.files) + 1 \in Content!Writes
    BY ArchiveIs DEF FilesInv, Content!Writes, Content!IsOther
  <2> QED BY <1>1, <1>3, <2>1 DEF NeedsAre
<1>14. Content!DepositsRecorded'
  BY <1>1, NoDeposit
<1> QED BY <1>4, <1>7, <1>8, <1>11, <1>12, <1>13, <1>14 DEF FilesInv

LEMMA UnpackFiles ==
    ASSUME Content!ContentAssumption, FilesInv, Content!Unpack PROVE FilesInv'
<1>1. PICK i \in unpack :
          /\ \A j \in unpack : i <= j
          /\ store' = Content!With(store, Content!PathOf(i), Content!NamesOf(i))
          /\ changed' = IF \E p \in DOMAIN store : p[1] = Content!Folder THEN changed ELSE fileDay
          /\ unpack' = unpack \ {i}
          /\ IF unpack = {i}
             THEN /\ fileStage' = "routed" /\ routedOn' = fileDay
                  /\ links' = links \cup Content!UnpackedLinks
             ELSE UNCHANGED <<fileStage, routedOn, links>>
  BY DEF Content!Unpack
<1>2. /\ fileStage = "unpacking" /\ answer' = Content!NoAnswer
      /\ UNCHANGED <<package, pdfs, packaging, needs, fileDay, cache, fileFaultCount>>
  BY DEF Content!Unpack
<1>3. PackageSame /\ (Unpacked' <=> Unpacked) /\ (Converted' <=> Converted)
  BY <1>2, OfPackage, UnpackedSame
<1>4. FileTypes /\ HoldsTrue /\ HoldsAll /\ LinksAre /\ Days /\ NeedsAre
  BY DEF FilesInv
<1>5. i \in Content!Writes /\ Given /\ Unpacked
  BY <1>2, <1>4 DEF FileTypes, NeedsAre, Unpacked
<1>6. FileTypes'
  <2>1. changed' \in 0 .. FileDays /\ routedOn' \in 0 .. FileDays
    BY <1>1, <1>4 DEF FileTypes
  <2>2. fileStage' \in {"unpacking", "routed"} /\ unpack' \subseteq Content!Writes'
    BY <1>1, <1>2, <1>3, <1>4 DEF FileTypes, PackageSame
  <2>3. \A l \in links' : DOMAIN l = LinkFields
    BY <1>1, <1>4, LinksTyped DEF FileTypes
  <2> QED BY <1>2, <1>4, <2>1, <2>2, <2>3 DEF FileTypes
<1>7. /\ DOMAIN store' = DOMAIN store \cup {Content!PathOf(i)}
      /\ \A path \in DOMAIN store' :
            store'[path] = IF path = Content!PathOf(i) THEN Content!NamesOf(i) ELSE store[path]
  BY <1>1 DEF Content!With
<1>8. Content!NamesOf(i) \subseteq Content!Names
  BY <1>4, <1>5, PlacesHold
<1>9. Content!PathOf(i) # Whole
  BY PlacesInStore DEF Whole, Content!PathOf
<1>10. HoldsTrue'
  <2>1. \A path \in DOMAIN store' : store'[path] \subseteq Content!Names
    BY <1>4, <1>7, <1>8 DEF HoldsTrue
  <2>2. Whole \in DOMAIN store' => store'[Whole] = Content!Names
    BY <1>4, <1>7, <1>9 DEF HoldsTrue
  <2>3. \A k \in Content!Writes : Content!PathOf(k) \in DOMAIN store' =>
            store'[Content!PathOf(k)] = Content!NamesOf(k)
    BY <1>4, <1>5, <1>7, PathsDiffer DEF HoldsTrue
  <2>4. fileStage' \notin {"received", "refused"}
    BY <1>1, <1>2
  <2> QED BY <1>3, <1>5, <2>1, <2>2, <2>3, <2>4 DEF HoldsTrue, PackageSame
<1>11. HoldsAll'
  <2>1. ASSUME fileDay <= FilesKept
        PROVE  /\ Whole \in DOMAIN store'
               /\ \A k \in Content!Writes \ unpack' : Content!PathOf(k) \in DOMAIN store'
    BY <1>1, <1>2, <1>4, <1>5, <1>7, <2>1 DEF HoldsAll
  <2>2. fileStage' \in {"routed", "deleted"} => unpack' = {}
    BY <1>1, <1>2
  <2> QED BY <1>2, <1>3, <2>1, <2>2 DEF HoldsAll, PackageSame
<1>12. LinksAre'
  <2>1. Content!PublicLinks' = Content!PublicLinks
    BY <1>2 DEF Content!PublicLinks, Content!Link, Content!Url, Content!NoPath, Content!None
  <2>2. CASE unpack = {i}
    BY <1>1, <1>2, <1>3, <1>4, <1>5, <2>1, <2>2 DEF LinksAre, PackageSame
  <2>3. CASE unpack # {i}
    BY <1>1, <1>2, <1>3, <1>4, <1>5, <2>1, <2>3 DEF LinksAre, PackageSame
  <2> QED BY <2>2, <2>3
<1>13. Days'
  BY <1>1, <1>2, <1>4 DEF Days
<1>14. NeedsAre'
  BY <1>1, <1>2, <1>3, <1>4 DEF NeedsAre
<1> QED BY <1>2, <1>6, <1>10, <1>11, <1>12, <1>13, <1>14, NoDeposit DEF FilesInv

LEMMA UnpackFailsFiles ==
    ASSUME Content!ContentAssumption, FilesInv, Content!UnpackFails PROVE FilesInv'
<1>1. /\ fileStage = "unpacking" /\ fileStage' = "unrouted" /\ unpack' = {}
      /\ fileFaultCount < FileFaults /\ fileFaultCount' = fileFaultCount + 1
      /\ UNCHANGED <<package, pdfs, store, changed, packaging, needs, links, fileDay, routedOn,
                     cache>>
      /\ answer' = Content!NoAnswer
  BY DEF Content!UnpackFails
<1>2. PackageSame
  BY <1>1, OfPackage
<1>3. FileTypes'
  BY <1>1, FileBounds DEF FilesInv, FileTypes
<1>4. HoldsTrue'
  BY <1>1, HoldsTrueKept DEF FilesInv
<1>5. HoldsAll'
  BY <1>1, <1>2 DEF FilesInv, HoldsAll, PackageSame
<1>6. LinksAre' /\ Days' /\ NeedsAre'
  BY <1>1 DEF FilesInv, LinksAre, Days, NeedsAre
<1> QED BY <1>1, <1>3, <1>4, <1>5, <1>6, NoDeposit DEF FilesInv

\* Steps that leave the links and the files alone.
LEMMA FilesRest ==
    ASSUME Content!ContentAssumption, FilesInv,
           UNCHANGED <<package, pdfs, store, needs, links, unpack>>,
           fileDay' >= fileDay, fileDay' \in Nat,
           \/ fileStage' = fileStage
           \/ fileStage = "routed" /\ fileStage' = "deleted"
    PROVE  HoldsTrue' /\ HoldsAll' /\ LinksAre'
<1>1. FileTypes /\ HoldsTrue /\ HoldsAll /\ LinksAre /\ FilesKept \in Nat
  BY FileBounds DEF FilesInv
<1> QED BY <1>1, HoldsTrueKept, HoldsAllKept, LinksKept

LEMMA NextDayFiles ==
    ASSUME Content!ContentAssumption, FilesInv, Content!NextDay PROVE FilesInv'
<1>1. /\ fileDay < FileDays /\ fileDay' = fileDay + 1
      /\ fileStage \in {"received", "unrouted", "unpacking"} => fileDay < RoutingTime
      /\ UNCHANGED <<fileStage, package, pdfs, store, changed, packaging, needs, links, unpack,
                     routedOn, cache, fileFaultCount>>
      /\ answer' = Content!NoAnswer
  BY DEF Content!NextDay
<1>2. FileTypes'
  BY <1>1, FileBounds, OfPackage DEF FilesInv, FileTypes, PackageSame
<1>3. HoldsTrue' /\ HoldsAll' /\ LinksAre'
  <2>1. fileDay' >= fileDay /\ fileDay' \in Nat
    BY <1>1 DEF FilesInv, FileTypes
  <2> QED BY <1>1, <2>1, FilesRest
<1>4. Days'
  BY <1>1, FileBounds DEF FilesInv, FileTypes, Days
<1>5. NeedsAre'
  BY <1>1, UnpackedSame DEF FilesInv, NeedsAre
<1> QED BY <1>1, <1>2, <1>3, <1>4, <1>5, NoDeposit DEF FilesInv

LEMMA DeleteFilesFiles ==
    ASSUME Content!ContentAssumption, FilesInv, Content!DeleteFiles PROVE FilesInv'
<1>1. /\ fileDay - changed > FilesKept /\ store' = <<>>
      /\ UNCHANGED <<fileStage, package, pdfs, changed, packaging, needs, links, unpack, fileDay,
                     routedOn, cache, fileFaultCount>>
      /\ answer' = Content!NoAnswer
  BY DEF Content!DeleteFiles, Content!OldFiles
<1>2. FileTypes'
  BY <1>1, OfPackage DEF FilesInv, FileTypes, PackageSame
<1>3. HoldsTrue'
  BY <1>1 DEF HoldsTrue
<1>4. HoldsAll'
  <2>1. ~(fileDay <= FilesKept)
    BY <1>1, FileBounds DEF FilesInv, FileTypes
  <2> QED BY <1>1, <2>1 DEF HoldsAll
<1>5. LinksAre'
  BY <1>1, LinksKept DEF FilesInv
<1>6. Days' /\ NeedsAre'
  BY <1>1, UnpackedSame DEF FilesInv, Days, NeedsAre
<1> QED BY <1>1, <1>2, <1>3, <1>4, <1>5, <1>6, NoDeposit DEF FilesInv

\* Steps that change but copies, accounts and the notification's record.
LEMMA OtherFiles ==
    ASSUME Content!ContentAssumption, FilesInv,
           \/ Content!DeleteCopies \/ Content!DeleteNote
           \/ \E r \in Fetcher, pack \in {"simple", "unpacked"} : Content!ChangePackaging(r, pack)
    PROVE  FilesInv'
<1>1. /\ UNCHANGED <<package, pdfs, store, changed, needs, links, unpack, fileDay, routedOn,
                     fileFaultCount>>
      /\ answer' = Content!NoAnswer
  BY DEF Content!DeleteCopies, Content!DeleteNote, Content!ChangePackaging
<1>2. /\ \/ fileStage' = fileStage
         \/ fileStage = "routed" /\ fileStage' = "deleted"
      /\ cache' \in [Content!Urls -> {"none", "part", "whole"}]
      /\ packaging' \in [Fetcher -> {"none", "simple", "unpacked"}]
      /\ \A r \in Fetcher : packaging'[r] = packaging[r] \/ packaging'[r] \in {"simple", "unpacked"}
  BY DEF FilesInv, FileTypes, Content!DeleteCopies, Content!DeleteNote, Content!ChangePackaging,
         Content!None
<1>3. FileTypes'
  BY <1>1, <1>2, OfPackage DEF FilesInv, FileTypes, PackageSame
<1>4. HoldsTrue' /\ HoldsAll' /\ LinksAre'
  <2>1. fileDay' >= fileDay /\ fileDay' \in Nat
    BY <1>1 DEF FilesInv, FileTypes
  <2> QED BY <1>1, <1>2, <2>1, FilesRest
<1>5. Days'
  BY <1>1, <1>2 DEF FilesInv, Days
<1>6. NeedsAre'
  BY <1>1, <1>2, UnpackedSame DEF FilesInv, FileTypes, NeedsAre
<1> QED BY <1>1, <1>3, <1>4, <1>5, <1>6, NoDeposit DEF FilesInv

-----------------------------------------------------------------------------
(* Links.                                                                  *)

\* Each link is one to a PDF file elsewhere, to the archive, or to what it was unpacked to.
IsPublic(l) ==
    /\ l.type = "fulltext" /\ l.format = "pdf" /\ l.access = "public"
    /\ \E i \in DOMAIN pdfs : l.url = Content!Url(pdfs[i].url, pdfs[i].named, i)
IsArchive(l) ==
    /\ l.type = "package" /\ l.format = "zip" /\ l.access # "public" /\ Given
    /\ Content!StorePath(l) = Whole
    /\ l.cloc \in {<<>>, Whole}
IsUnpacked(l) ==
    /\ l.type = "unpackaged" /\ l.access # "public" /\ Unpacked
    /\ \E i \in Content!Writes :
          /\ l = Content!UnpackedLink(Content!PathOf(i))
          /\ l.cloc = Content!PathOf(i) /\ Content!StorePath(l) = Content!PathOf(i)

LEMMA KindOfLink ==
    ASSUME FilesInv, fileStage = "routed", NEW l \in links
    PROVE  IsPublic(l) \/ IsArchive(l) \/ IsUnpacked(l)
<1>1. CASE l \in Content!PublicLinks
  BY <1>1 DEF IsPublic, Content!PublicLinks, Content!Link
<1>2. CASE Given /\ l = Content!OriginalLink
  BY <1>2 DEF IsArchive, Content!OriginalLink, Content!Link, Content!StorePath, Whole
<1>3. CASE Given /\ l = ConvertedLink
  BY <1>3, PlacesInStore DEF IsArchive, ConvertedLink, Content!Link, Content!StorePath, Whole
<1>4. CASE Unpacked /\ l \in Content!UnpackedLinks
  <2>1. PICK i \in Content!Writes : l = Content!UnpackedLink(Content!PathOf(i))
    BY <1>4 DEF Content!UnpackedLinks
  <2>2. l.type = "unpackaged" /\ l.access = "special" /\ l.cloc = Content!PathOf(i)
    BY <2>1 DEF Content!UnpackedLink, Content!Link
  <2>3. Content!StorePath(l) = Content!PathOf(i)
    BY <2>2, PlacesInStore DEF Content!StorePath, Content!PathOf
  <2> QED BY <1>4, <2>1, <2>2, <2>3 DEF IsUnpacked
<1> QED BY <1>1, <1>2, <1>3, <1>4 DEF FilesInv, LinksAre

\* What a link to the archive leads to.
LEMMA InsideArchive ==
    ASSUME FilesInv, NEW l, IsArchive(l)
    PROVE  Content!Inside(l) = IF Whole \in DOMAIN store THEN Content!Names ELSE {}
  BY DEF FilesInv, HoldsTrue, IsArchive, Content!Inside

\* Repositories find the package they need.
LEMMA PackageThere ==
    ASSUME Content!ContentAssumption, FilesInv, fileStage = "routed", Given,
           NEW r \in DOMAIN needs, needs[r] = "simple"
    PROVE  \E l \in links : Content!IsPackage(l, "simple")
<1>1. package.format \in {"simple", "jats"}
  BY ArchiveIs DEF FilesInv, Given
<1>2. CASE package.format = "simple"
  <2>1. Content!OriginalLink \in links
    BY DEF FilesInv, LinksAre
  <2>2. Content!IsPackage(Content!OriginalLink, "simple")
    BY <1>2 DEF Content!IsPackage, Content!OriginalLink, Content!Link
  <2> QED BY <2>1, <2>2
<1>3. CASE package.format = "jats"
  <2>1. Converted
    BY <1>3 DEF Converted, Content!Convertible
  <2>2. ConvertedLink \in links
    BY <2>1 DEF FilesInv, LinksAre
  <2>3. Content!IsPackage(ConvertedLink, "simple")
    BY DEF Content!IsPackage, ConvertedLink, Content!Link
  <2> QED BY <2>2, <2>3
<1> QED BY <1>1, <1>2, <1>3

LEMMA LeastPlace ==
    ASSUME NEW S, S \subseteq Nat, S # {} PROVE \E n \in S : \A m \in S : n <= m
<1> DEFINE R == OpToRel(<, Nat)
<1>1. IsWellFoundedOn(R, Nat)
  BY NatLessThanWellFounded, Zenon
<1>2. \A x, y \in Nat : <<y, x>> \in R <=> y < x
  BY DEF OpToRel
<1> HIDE DEF R
<1>3. PICK n \in S : \A m \in S : ~(<<m, n>> \in R)
  BY <1>1, WFMin
<1>4. ASSUME NEW m \in S PROVE n <= m
  <2>1. n \in Nat /\ m \in Nat
    OBVIOUS
  <2>2. ~(m < n)
    BY <1>2, <1>3, <2>1
  <2> QED BY <2>1, <2>2
<1> QED BY <1>4

\* Of PDF files elsewhere one is found, if there are any, and nothing else.
LEMMA BestThere ==
    ASSUME Content!ContentAssumption, FilesInv, fileStage = "routed"
    PROVE  /\ pdfs # <<>> => Content!BestPdf # {}
           /\ \A l \in Content!BestPdf : l.url.url \in Content!Urls
<1> DEFINE public == {l \in links : l.format = "pdf" /\ l.access = "public"}
           named == {l \in public : l.url.named}
           PlacesOf(S) == {l.url.place : l \in S}
<1>1. /\ pdfs \in Seq([url : Content!Urls, named : BOOLEAN])
      /\ Len(pdfs) \in Nat /\ DOMAIN pdfs = 1 .. Len(pdfs)
      /\ \A i \in DOMAIN pdfs : pdfs[i].url \in Content!Urls
  <2>1. pdfs \in Seq([url : Content!Urls, named : BOOLEAN])
    BY DEF FilesInv, FileTypes, Content!ContentAssumption
  <2> DEFINE R == [url : Content!Urls, named : BOOLEAN]
  <2>2. \A x \in R : x.url \in Content!Urls
    OBVIOUS
  <2>3. pdfs \in Seq(R)
    BY <2>1
  <2> HIDE DEF R
  <2>4. Len(pdfs) \in Nat /\ DOMAIN pdfs = 1 .. Len(pdfs)
    BY <2>3, LenProperties
  <2>5. \A i \in DOMAIN pdfs : pdfs[i] \in R
    BY <2>3, <2>4, ElementOfSeq
  <2> QED BY <2>1, <2>2, <2>4, <2>5
<1>2. ASSUME NEW l \in public
      PROVE  l.url.place \in 1 .. Len(pdfs) /\ l.url.url \in Content!Urls
  <2>1. PICK i \in DOMAIN pdfs : l.url = Content!Url(pdfs[i].url, pdfs[i].named, i)
    BY KindOfLink DEF IsPublic, IsArchive, IsUnpacked
  <2> QED BY <1>1, <2>1 DEF Content!Url
<1>3. ASSUME pdfs # <<>> PROVE public # {}
  <2>1. 1 \in DOMAIN pdfs
    BY <1>1, <1>3, EmptySeq
  <2>2. Content!Link("fulltext", "pdf", "public", Content!None, Content!NoPath,
                     Content!Url(pdfs[1].url, pdfs[1].named, 1)) \in links
    BY <2>1 DEF FilesInv, LinksAre, Content!PublicLinks
  <2> QED BY <2>2 DEF Content!Link
<1>4. Content!BestPdf =
          IF named # {} THEN {l \in named : \A k \in named : k.url.place <= l.url.place}
                        ELSE {l \in public : \A k \in public : l.url.place <= k.url.place}
  BY DEF Content!BestPdf
<1> HIDE DEF public
<1>5. Content!BestPdf \subseteq public
  BY <1>4
<1>6. ASSUME public # {}, named = {} PROVE Content!BestPdf # {}
  <2>1. PICK n \in PlacesOf(public) : \A m \in PlacesOf(public) : n <= m
    <3>1. PlacesOf(public) \subseteq Nat /\ PlacesOf(public) # {}
      BY <1>2, <1>6
    <3> HIDE DEF PlacesOf
    <3> QED BY <3>1, LeastPlace
  <2>2. PICK l \in public : l.url.place = n
    OBVIOUS
  <2>3. \A k \in public : l.url.place <= k.url.place
    BY <2>1, <2>2
  <2> QED BY <1>4, <1>6, <2>3
<1>7. ASSUME named # {} PROVE Content!BestPdf # {}
  <2> DEFINE S == {Len(pdfs) - p : p \in PlacesOf(named)}
  <2>1. PICK n \in S : \A m \in S : n <= m
    <3>1. \A p \in PlacesOf(named) : p \in 1 .. Len(pdfs)
      BY <1>2
    <3>2. PlacesOf(named) # {}
      BY <1>7
    <3>3. \A p \in PlacesOf(named) : Len(pdfs) - p \in Nat
      BY <1>1, <3>1
    <3> HIDE DEF PlacesOf, named
    <3>4. S \subseteq Nat /\ S # {}
      BY <3>2, <3>3
    <3> HIDE DEF S
    <3> QED BY <3>4, LeastPlace
  <2>2. PICK l \in named : Len(pdfs) - l.url.place = n
    OBVIOUS
  <2>3. ASSUME NEW k \in named PROVE k.url.place <= l.url.place
    <3>1. Len(pdfs) - k.url.place \in S
      OBVIOUS
    <3>2. Len(pdfs) - l.url.place <= Len(pdfs) - k.url.place
      BY <2>1, <2>2, <3>1
    <3>3. k.url.place \in 1 .. Len(pdfs) /\ l.url.place \in 1 .. Len(pdfs)
      BY <1>2
    <3> QED BY <1>1, <3>2, <3>3
  <2> QED BY <1>4, <1>7, <2>3
<1> QED BY <1>2, <1>3, <1>5, <1>6, <1>7

LEMMA DepositFiles ==
    ASSUME Content!ContentAssumption, FilesInv, NEW r \in Fetcher,
           NEW fetched \in {"whole", "part", "none"}, Content!Deposit(r, fetched)
    PROVE  FilesInv'
<1> DEFINE pack == packaging[r]
           pkg == IF pack # "unpacked" THEN Content!PackageLink(pack) ELSE {}
           pdf == IF pack # "unpacked" THEN Content!BestPdf ELSE {}
           pkgSent == UNION {Content!Inside(l) : l \in pkg}
           tried == IF pkg = {} \/ pkgSent # {} THEN {l.url.url : l \in pdf} ELSE {}
           missing == {u \in tried : cache[u] = "none"}
           pdfSent == {cache[u] : u \in tried \ missing}
                        \cup (IF missing # {} /\ fetched = "whole" THEN {"whole"} ELSE {})
<1>1. /\ fileStage = "routed" /\ r \in DOMAIN needs
      /\ IF missing # {}
         THEN /\ cache' = [u \in Content!Urls |-> IF u \in missing THEN fetched ELSE cache[u]]
              /\ IF fetched = "whole" THEN UNCHANGED fileFaultCount
                 ELSE fileFaultCount < FileFaults /\ fileFaultCount' = fileFaultCount + 1
         ELSE UNCHANGED <<cache, fileFaultCount>>
      /\ answer' = [kind |-> "deposit", to |-> r,
                    status |-> Content!Status(pkg, pkgSent, pdf, pdfSent),
                    pack |-> pack, names |-> pkgSent, pdf |-> pdfSent]
      /\ UNCHANGED <<fileStage, package, pdfs, store, changed, packaging, needs, links, unpack,
                     fileDay, routedOn>>
  BY DEF Content!Deposit, Content!None
<1>2. PackageSame
  BY <1>1, OfPackage
<1>3. FileTypes'
  <2>1. cache' \in [Content!Urls -> {"none", "part", "whole"}]
    BY <1>1 DEF FilesInv, FileTypes
  <2>2. fileFaultCount' \in 0 .. FileFaults
    BY <1>1, FileBounds DEF FilesInv, FileTypes
  <2> QED BY <1>1, <1>2, <2>1, <2>2 DEF FilesInv, FileTypes, PackageSame
<1>4. HoldsTrue' /\ HoldsAll' /\ LinksAre'
  <2>1. fileDay' >= fileDay /\ fileDay' \in Nat
    BY <1>1 DEF FilesInv, FileTypes
  <2> QED BY <1>1, <2>1, FilesRest
<1>5. Days' /\ NeedsAre'
  BY <1>1, UnpackedSame DEF FilesInv, Days, NeedsAre
<1>6. pkg \subseteq links /\ \A l \in pkg : IsArchive(l)
  <2>1. \A l \in pkg : l \in links /\ l.type = "package"
    BY DEF Content!PackageLink, Content!IsPackage
  <2>2. \A l \in links : l.type = "package" => IsArchive(l)
    BY <1>1, KindOfLink DEF IsPublic, IsUnpacked
  <2> QED BY <2>1, <2>2
<1>7. pkgSent \in {{}, Content!Names}
  <2>1. \A l \in pkg : Content!Inside(l) = IF Whole \in DOMAIN store THEN Content!Names ELSE {}
    BY <1>6, InsideArchive
  <2> HIDE DEF pkg
  <2> QED BY <2>1
<1>8. /\ pack # "unpacked" /\ pdfs # <<>> => pdf # {}
      /\ Given /\ needs[r] = "simple" /\ pack = "simple" => pkg # {}
  BY <1>1, BestThere, PackageThere DEF Content!PackageLink, Content!None
<1>9. needs[r] = "simple" => pack \in {"simple", "unpacked"}
  BY <1>1 DEF FilesInv, NeedsAre
<1>10. pack = "unpacked" => pkg = {} /\ pdf = {}
  OBVIOUS
<1> HIDE DEF pkg, pdf, pack, pkgSent, tried, missing, pdfSent
<1>11. Content!Status(pkg, pkgSent, pdf, pdfSent) =
          IF pkg = {} /\ pdf = {} THEN "none"
          ELSE IF (pkg # {} /\ pkgSent = {}) \/ (pdf # {} /\ pdfSent = {}) THEN "failed"
          ELSE "deposited"
  BY DEF Content!Status, Content!None
<1>12. Content!DepositsRecorded'
  <2>1. answer'.names \in {{}, Content!Names'}
    BY <1>1, <1>2, <1>7 DEF PackageSame
  <2>2. ASSUME answer'.status = "deposited"
        PROVE  /\ answer'.names # {} \/ answer'.pdf # {}
               /\ needs'[answer'.to] = "simple" /\ answer'.pack = "simple"
                     /\ package'.format # Content!None => answer'.names = Content!Names'
               /\ pdfs' # <<>> => answer'.pdf # {}
    BY <1>1, <1>2, <1>7, <1>8, <1>10, <1>11, <2>2 DEF PackageSame, Given, Content!None
  <2>3. ASSUME answer'.status = Content!None
        PROVE  \/ answer'.pack = "unpacked"
               \/ pdfs' = <<>> /\ (package'.format = Content!None \/ needs'[answer'.to] # "simple")
    BY <1>1, <1>8, <1>9, <1>11, <2>3 DEF Given, Content!None
  <2> QED BY <2>1, <2>2, <2>3 DEF Content!DepositsRecorded, Content!None
<1> QED BY <1>3, <1>4, <1>5, <1>12 DEF FilesInv

LEMMA FilesStep ==
    ASSUME Content!ContentAssumption, FilesInv, [Content!Next]_(Content!vars) PROVE FilesInv'
<1>1. CASE Content!Receive
  BY <1>1, ReceiveFiles
<1>2. CASE \E matched \in (SUBSET Fetcher) \ {{}} : Content!StartRouting(matched)
  BY <1>2, StartRoutingFiles
<1>3. CASE Content!Unpack
  BY <1>3, UnpackFiles
<1>4. CASE Content!UnpackFails
  BY <1>4, UnpackFailsFiles
<1>5. CASE \E r \in Fetcher, fetched \in {"whole", "part", "none"} : Content!Deposit(r, fetched)
  BY <1>5, DepositFiles
<1>6. CASE Content!NextDay
  BY <1>6, NextDayFiles
<1>7. CASE Content!DeleteFiles
  BY <1>7, DeleteFilesFiles
<1>8. CASE \/ Content!DeleteCopies \/ Content!DeleteNote
           \/ \E r \in Fetcher, pack \in {"simple", "unpacked"} : Content!ChangePackaging(r, pack)
  BY <1>8, OtherFiles
<1>9. CASE UNCHANGED Content!vars
  <2>1. /\ UNCHANGED <<fileStage, package, pdfs, store, changed, packaging, needs, links, unpack>>
        /\ UNCHANGED <<fileDay, routedOn, cache, answer, fileFaultCount>>
    BY <1>9 DEF Content!vars
  <2>2. PackageSame
    BY <2>1, OfPackage
  <2>3. FileTypes'
    BY <2>1, <2>2 DEF FilesInv, FileTypes, PackageSame
  <2>4. HoldsTrue' /\ HoldsAll' /\ LinksAre'
    <3>1. fileDay' >= fileDay /\ fileDay' \in Nat
      BY <2>1 DEF FilesInv, FileTypes
    <3> QED BY <2>1, <3>1, FilesRest
  <2>5. Days' /\ NeedsAre'
    BY <2>1, UnpackedSame DEF FilesInv, Days, NeedsAre
  <2>6. Content!DepositsRecorded'
    BY <2>1, <2>2 DEF FilesInv, PackageSame, Content!DepositsRecorded
  <2> QED BY <2>3, <2>4, <2>5, <2>6 DEF FilesInv
<1> QED
  BY <1>1, <1>2, <1>3, <1>4, <1>5, <1>6, <1>7, <1>8, <1>9 DEF Content!Next, Content!None

LEMMA FilesInvariant == ASSUME Content!ContentAssumption PROVE Content!Spec => []FilesInv
<1>1. Content!Init => FilesInv
  BY InitFiles
<1>2. FilesInv /\ [Content!Next]_(Content!vars) => FilesInv'
  BY FilesStep
<1> QED BY <1>1, <1>2, PTL DEF Content!Spec

-----------------------------------------------------------------------------
(* What repositories and others get.                                       *)

\* In time, each place that a link leads to is there.
LEMMA AllThere ==
    ASSUME Content!ContentAssumption, FilesInv, Content!InTime
    PROVE  /\ fileStage = "routed"
           /\ Given => Whole \in DOMAIN store
           /\ Unpacked => \A i \in Content!Writes : Content!PathOf(i) \in DOMAIN store
<1>1. fileStage = "routed" /\ fileDay <= FilesKept
  BY FileBounds DEF FilesInv, FileTypes, Days, Content!InTime
<1> QED BY <1>1 DEF FilesInv, HoldsAll, Unpacked

\* To the answer a link's path is the same as to those who choose it.
LEMMA AnswerIs ==
    ASSUME Content!ContentAssumption, FilesInv, fileStage = "routed",
           NEW r \in DOMAIN needs,
           NEW l \in links, l.access # "public", Content!StorePath(l) \in DOMAIN store
    PROVE  Content!Answer(r, l.cloc).names = Content!Inside(l)
<1>1. Content!Allowed(r)
  <2>1. r \in Fetcher /\ r \notin {"sender", "publisher"}
    BY DEF FilesInv, FileTypes, Content!ContentAssumption
  <2> QED BY <2>1 DEF Content!Allowed
<1>2. IsArchive(l) \/ IsUnpacked(l)
  BY KindOfLink DEF IsPublic
<1>3. CASE IsArchive(l)
  <2>1. /\ l.cloc = <<>> => Given
        /\ (IF l.cloc = <<>> THEN Whole ELSE l.cloc) = Content!StorePath(l)
    BY <1>3 DEF IsArchive
  <2> QED BY <1>1, <2>1 DEF Content!Answer, Content!Inside, Whole, Given, Content!None
<1>4. CASE IsUnpacked(l)
  <2>1. l.cloc # <<>> /\ l.cloc = Content!StorePath(l)
    BY <1>4, PlacesInStore DEF IsUnpacked, Content!PathOf
  <2> QED BY <1>1, <2>1 DEF Content!Answer, Content!Inside
<1> QED BY <1>2, <1>3, <1>4

LEMMA LinksLeadHere ==
    ASSUME Content!ContentAssumption, FilesInv PROVE Content!LinksLead
<1> SUFFICES ASSUME Content!InTime
             PROVE  /\ \A l \in links, r \in DOMAIN needs :
                          l.access # "public" =>
                              Content!Answer(r, l.cloc).names = Content!Inside(l)
                    /\ \A l \in Content!OfType("package") : Content!Inside(l) = Content!Names
                    /\ Content!OfType("unpackaged") # {} =>
                          /\ UNION {Content!Inside(l) : l \in Content!OfType("unpackaged")}
                                = Content!Names
                          /\ \A k, l \in Content!OfType("unpackaged") :
                                k # l => Content!Inside(k) \cap Content!Inside(l) = {}
  BY DEF Content!LinksLead
<1>1. /\ fileStage = "routed"
      /\ Given => Whole \in DOMAIN store
      /\ Unpacked => \A i \in Content!Writes : Content!PathOf(i) \in DOMAIN store
  BY AllThere
<1>2. ASSUME NEW l \in links, l.access # "public" PROVE Content!StorePath(l) \in DOMAIN store
  BY <1>1, <1>2, KindOfLink DEF IsPublic, IsArchive, IsUnpacked
<1>3. \A l \in links, r \in DOMAIN needs :
         l.access # "public" => Content!Answer(r, l.cloc).names = Content!Inside(l)
  BY <1>1, <1>2, AnswerIs
<1>4. ASSUME NEW l \in Content!OfType("package") PROVE Content!Inside(l) = Content!Names
  <2>1. IsArchive(l)
    BY <1>1, KindOfLink DEF Content!OfType, IsPublic, IsUnpacked
  <2>2. Whole \in DOMAIN store
    BY <1>1, <2>1 DEF IsArchive
  <2> QED BY <2>1, <2>2, InsideArchive
<1>5. ASSUME NEW l \in Content!OfType("unpackaged")
      PROVE  /\ Unpacked
             /\ \E i \in Content!Writes :
                   /\ l = Content!UnpackedLink(Content!PathOf(i))
                   /\ Content!Inside(l) = Content!NamesOf(i)
  <2>1. IsUnpacked(l)
    BY <1>1, KindOfLink DEF Content!OfType, IsPublic, IsArchive
  <2>2. PICK i \in Content!Writes :
           /\ l = Content!UnpackedLink(Content!PathOf(i))
           /\ Content!StorePath(l) = Content!PathOf(i)
    BY <2>1 DEF IsUnpacked
  <2>3. Content!Inside(l) = Content!NamesOf(i)
    BY <1>1, <2>1, <2>2 DEF IsUnpacked, FilesInv, HoldsTrue, Content!Inside
  <2> QED BY <2>1, <2>2, <2>3 DEF IsUnpacked
<1>6. ASSUME NEW i \in Content!Writes, Unpacked
      PROVE  \E l \in Content!OfType("unpackaged") : Content!Inside(l) = Content!NamesOf(i)
  <2> DEFINE l == Content!UnpackedLink(Content!PathOf(i))
  <2>1. l \in links
    BY <1>1, <1>6 DEF FilesInv, LinksAre, Content!UnpackedLinks
  <2>2. l.type = "unpackaged" /\ l.cloc = Content!PathOf(i)
    BY DEF Content!UnpackedLink, Content!Link
  <2>3. Content!StorePath(l) = Content!PathOf(i)
    BY <2>2, PlacesInStore DEF Content!StorePath, Content!PathOf
  <2>4. Content!Inside(l) = Content!NamesOf(i)
    BY <1>1, <1>6, <2>3 DEF FilesInv, HoldsTrue, Content!Inside
  <2> QED BY <2>1, <2>2, <2>4 DEF Content!OfType
<1>7. ASSUME Content!OfType("unpackaged") # {}
      PROVE  UNION {Content!Inside(l) : l \in Content!OfType("unpackaged")} = Content!Names
  <2>1. Unpacked
    BY <1>5, <1>7
  <2>2. UNION {Content!Inside(l) : l \in Content!OfType("unpackaged")} =
           UNION {Content!NamesOf(i) : i \in Content!Writes}
    BY <1>5, <1>6, <2>1
  <2> QED BY <2>2, PlacesHold DEF FilesInv
<1>8. ASSUME NEW k \in Content!OfType("unpackaged"), NEW l \in Content!OfType("unpackaged"),
             k # l
      PROVE  Content!Inside(k) \cap Content!Inside(l) = {}
  <2>1. PICK i \in Content!Writes : /\ k = Content!UnpackedLink(Content!PathOf(i))
                                   /\ Content!Inside(k) = Content!NamesOf(i)
    BY <1>5
  <2>2. PICK j \in Content!Writes : /\ l = Content!UnpackedLink(Content!PathOf(j))
                                   /\ Content!Inside(l) = Content!NamesOf(j)
    BY <1>5
  <2> QED BY <1>8, <2>1, <2>2, PlacesHold DEF FilesInv
<1> QED BY <1>3, <1>4, <1>7, <1>8

LEMMA NeedsMetHere ==
    ASSUME Content!ContentAssumption, FilesInv PROVE Content!NeedsMet
<1> SUFFICES ASSUME fileStage = "routed", Given, NEW r \in DOMAIN needs
             PROVE  /\ needs[r] = "simple" => \E l \in links : Content!IsPackage(l, "simple")
                    /\ needs[r] = "unpacked" =>
                          \A f \in Content!Range(package.files) : Content!IsPdf(f) =>
                              \E l \in Content!OfType("unpackaged") :
                                  Content!FileOf(l.cloc) = f.name /\ l.format = "pdf"
  BY DEF Content!NeedsMet, Given, Content!None
<1>1. needs[r] = "simple" => \E l \in links : Content!IsPackage(l, "simple")
  BY PackageThere
<1>2. ASSUME needs[r] = "unpacked", NEW i \in DOMAIN package.files,
             package.files[i].kind = "pdf"
      PROVE  \E l \in Content!OfType("unpackaged") :
                Content!FileOf(l.cloc) = package.files[i].name /\ l.format = "pdf"
  <2> DEFINE path == Content!PathOf(i)
             l == Content!UnpackedLink(path)
  <2>1. i \in Content!Writes /\ ~Content!IsOther(i) /\ package.files[i].name # Content!Rest
    BY <1>2, ArchiveIs DEF FilesInv, Content!Writes, Content!IsOther, Content!IsPdf
  <2>2. path = <<Content!Folder, package.files[i].name>>
    BY <2>1 DEF Content!PathOf
  <2>3. l = Content!Link("unpackaged", "pdf", "special", Content!None, path, Content!NoUrl)
    BY <2>1, <2>2 DEF Content!UnpackedLink
  <2>4. Unpacked
    BY <1>2 DEF Unpacked
  <2>5. l \in links
    BY <2>1, <2>4 DEF FilesInv, LinksAre, Content!UnpackedLinks
  <2>6. l.type = "unpackaged" /\ l.format = "pdf" /\ l.cloc = path
    BY <2>3 DEF Content!Link
  <2>7. Content!FileOf(path) = package.files[i].name
    BY <2>2 DEF Content!FileOf
  <2> QED BY <2>5, <2>6, <2>7 DEF Content!OfType
<1> QED BY <1>1, <1>2 DEF Content!Range, Content!IsPdf

LEMMA RequestsAnsweredHere ==
    ASSUME Content!ContentAssumption, FilesInv PROVE Content!RequestsAnswered
<1> SUFFICES ASSUME NEW acc \in Content!Accounts, NEW path \in Content!Paths
             PROVE  /\ acc \notin DOMAIN needs \cup {"sender"} =>
                          Content!Answer(acc, path).names = {}
                    /\ Content!Answer(acc, path).names # {} =>
                          Content!Answer(acc, path).source = "store"
                    /\ Content!Answer(acc, path).source = "store" /\ path = <<>> =>
                          /\ Content!Answer(acc, path).names = Content!Names
                          /\ Content!Answer(acc, path).logged =
                                Content!FileOf(Content!ZipName(package.format))
  BY DEF Content!RequestsAnswered
<1>1. acc \notin DOMAIN needs \cup {"sender"} => ~Content!Allowed(acc)
  BY DEF Content!Accounts, Content!Allowed
<1>2. Whole \in DOMAIN store => store[Whole] = Content!Names
  BY DEF FilesInv, HoldsTrue
<1> QED BY <1>1, <1>2 DEF Content!Answer, Whole

LEMMA FilesInvGives ==
    ASSUME Content!ContentAssumption, FilesInv PROVE ContentKept
  BY LinksLeadHere, NeedsMetHere, RequestsAnsweredHere DEF ContentKept, FilesInv

LEMMA FileTypesGive ==
    ASSUME Content!ContentAssumption, FilesInv PROVE Content!TypeOK
  BY DEF FilesInv, FileTypes, HoldsTrue, Content!TypeOK, Content!None, LinkFields

-----------------------------------------------------------------------------
(* What is recorded.                                                       *)

\* However requests overlap or fail or are repeated, the records of e-mails and notes, the
\* versions of page contents, what is kept of submissions and their answers, and the links and
\* files of notifications are well formed (jper/views/account.py, jper/views/admin.py,
\* jper/models/admin.py, jper/views/webapi.py, jper/routing.py, jper/packages.py).
THEOREM RecordsTyped ==
    RecordingSpec => [](Messages!TypeOK /\ Pages!TypeOK /\ Requests!TypeOK /\ Content!TypeOK)
<1>1. MessageInv => Messages!TypeOK
  BY RecordingAssumption, MessageTypesGive DEF MessageInv
<1>2. PageInv => Pages!TypeOK
  BY RecordingAssumption, PageTypesGive DEF PageInv
<1>3. RequestsInv => Requests!TypeOK
  BY RecordingAssumption, RequestTypesGive
<1>4. FilesInv => Content!TypeOK
  BY RecordingAssumption, FileTypesGive
<1>5. RecordingSpec => []MessageInv /\ []PageInv /\ []RequestsInv /\ []FilesInv
  BY MessagesSpec, PagesSpec, RequestsSpec, ContentSpec, RecordingAssumption,
     MessagesInvariant, PagesInvariant, RequestsInvariant, FilesInvariant
<1> QED BY <1>1, <1>2, <1>3, <1>4, <1>5, PTL

\* A record says what was sent to whom and what became of it, a bulk e-mail that was answered
\* is recorded once for each account and its text agrees with what its records say; what
\* editors were told is saved, what they made live is live, what was live is kept, and no page
\* shows what was replaced before its cache was cleared (jper/views/account.py,
\* jper/views/admin.py, jper/models/admin.py).
THEOREM AdministrationKept == RecordingSpec => []AdministrationInOrder
<1>1. MessageInv /\ PageInv => AdministrationInOrder
  BY MessageInvGives DEF PageInv, AdministrationInOrder
<1>2. RecordingSpec => []MessageInv /\ []PageInv
  BY MessagesSpec, PagesSpec, RecordingAssumption, MessagesInvariant, PagesInvariant
<1> QED BY <1>1, <1>2, PTL

\* The answer to a list of submissions says of each what became of it, in their order, a list
\* that is refused has created nothing, and a single one that is accepted has created one
\* notification; every notification of a publisher has one record, but where saving it failed
\* or a program is just before it, and the archive has under a record's number what was
\* submitted - for any number of requests at the same time, and failures of the database, the
\* store and the archive between any two steps (jper/views/webapi.py).
THEOREM RequestsKept == RecordingSpec => []RequestsInOrder
<1>1. RequestsInv => RequestsInOrder
  BY RecordingAssumption, RequestsInvGives DEF RequestsInOrder
<1>2. RecordingSpec => []RequestsInv
  BY RequestsSpec, RecordingAssumption, RequestsInvariant
<1> QED BY <1>1, <1>2, PTL

\* For as long as repositories are told of them, the links of a notification lead to its
\* files, to all of them and to each once; every repository finds the packaging it needed when
\* it was routed to, who is not meant to have a file gets none, and what the record of a
\* deposit says agrees with what was sent - whatever the archive is, however often routing
\* fails between two files, and when packagings change and files are deleted meanwhile
\* (jper/packages.py, jper/unpacked.py, jper/api.py, jper_sword_out/deposit.py).
THEOREM ContentIsKept == RecordingSpec => []ContentKept
<1>1. FilesInv => ContentKept
  BY RecordingAssumption, FilesInvGives
<1>2. RecordingSpec => []FilesInv
  BY ContentSpec, RecordingAssumption, FilesInvariant
<1> QED BY <1>1, <1>2, PTL
===============================================================================
