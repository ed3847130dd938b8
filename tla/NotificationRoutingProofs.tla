---------------------- MODULE NotificationRoutingProofs ----------------------
(***************************************************************************)
(* Theorems about NotificationRouting: types, and its safety properties,   *)
(* for any number of submissions, harvested items, repositories, articles  *)
(* and faults.                                                             *)
(***************************************************************************)
EXTENDS NotificationRouting, TLAPS

-----------------------------------------------------------------------------
(***************************************************************************)
(* The steps, in groups that change the same things.                       *)
(***************************************************************************)

Sending(s) ==
    \/ InsertNote(s) \/ CommitNote(s) \/ StorePackage(s) \/ StoreFails(s)
    \/ RemoveNote(s) \/ RecordDeposit(s) \/ RecordFails(s) \/ SenderCrash(s)

Taking == \E n \in Note : TakeNotification(n) \/ TakeMalformed(n)

RoutingStep ==
    \/ Match \/ SaveRouted \/ RepackageFails \/ SaveRegister \/ RecordMatch
    \/ RecordMatchFails \/ RouteFails \/ Finally

\* The loop ends, or something is noticed; the tables stay as they are.
LoopStep == EndLoop \/ ScrollerError \/ FoundLast \/ Signal

Deletion == DeleteRows \/ DeleteHarvested \/ TruncateHarvested

\* The end of a run without a deletion.
Stop == NothingToDelete \/ DeletionFails \/ Crash

LEMMA NextCases ==
    ASSUME Next
    PROVE  \/ \E s \in Sub : Sending(s)
           \/ \E i \in Item : Harvest(i)
           \/ \E k \in Kind : StartRun(k)
           \/ Taking \/ RoutingStep \/ LoopStep
           \/ DeleteFiles \/ Deletion \/ Stop
BY DEF Next, Step, Faults, Request, Sending, Taking, RoutingStep, LoopStep, Deletion, Stop

-----------------------------------------------------------------------------
(***************************************************************************)
(* Types.                                                                  *)
(***************************************************************************)

LEMMA InitType == Init => TypeOK
<1> SUFFICES ASSUME Init PROVE TypeOK
  OBVIOUS
<1>1. register \in [Doi -> Register]
  BY DEF Init, Register
<1>2. given \in [Repo -> [Note -> Nat]]
  BY DEF Init
<1> QED BY <1>1, <1>2 DEF Init, TypeOK, Row, Kind, Stage, PC

LEMMA SendingType ==
    ASSUME TypeOK, NEW s \in Sub, Sending(s)
    PROVE  TypeOK'
<1> USE DEF TypeOK, Fault, Note, Row, Kind, Stage, tables, program, history, loop, inHand, lists
<1>0. nextId["publisher"] \in Nat
  OBVIOUS
<1>1. CASE InsertNote(s)
  BY <1>0, <1>1 DEF InsertNote
<1>2. CASE CommitNote(s)
  BY <1>2 DEF CommitNote
<1>3. CASE StorePackage(s)
  BY <1>3 DEF StorePackage
<1>4. CASE StoreFails(s)
  BY <1>4 DEF StoreFails
<1>5. CASE RemoveNote(s)
  BY <1>5 DEF RemoveNote
<1>6. CASE RecordDeposit(s)
  BY <1>6 DEF RecordDeposit
<1>7. CASE RecordFails(s)
  BY <1>7 DEF RecordFails
<1>8. CASE SenderCrash(s)
  BY <1>8 DEF SenderCrash
<1> QED BY <1>1, <1>2, <1>3, <1>4, <1>5, <1>6, <1>7, <1>8 DEF Sending

LEMMA HarvestType ==
    ASSUME TypeOK, NEW i \in Item, Harvest(i)
    PROVE  TypeOK'
<1>1. nextId["harvested"] \in Nat
  BY DEF TypeOK, Kind
<1> QED BY <1>1 DEF Harvest, TypeOK, Note, Row, Kind, program, loop, inHand, lists

LEMMA StartType ==
    ASSUME TypeOK, NEW k \in Kind, StartRun(k)
    PROVE  TypeOK'
BY DEF StartRun, TypeOK, Of, Kind, Note, Waiting, PC, outside, inHand

LEMMA TakingType ==
    ASSUME TypeOK, Taking
    PROVE  TypeOK'
<1>1. PICK n \in Note : TakeNotification(n) \/ TakeMalformed(n)
  BY DEF Taking
<1>2. id[n] \in Nat
  BY DEF TypeOK
<1> USE <1>2 DEF Taken, TypeOK, PC, outside
<1>3. CASE TakeNotification(n)
  BY <1>3 DEF TakeNotification
<1>4. CASE TakeMalformed(n)
  BY <1>4 DEF TakeMalformed
<1> QED BY <1>1, <1>3, <1>4

LEMMA SaveRoutedType ==
    ASSUME TypeOK, cur \in Note, SaveRouted
    PROVE  TypeOK'
<1>1. given' \in [Repo -> [Note -> Nat]]
  <2>1. ASSUME NEW r \in Repo
        PROVE  /\ given[r] \in [Note -> Nat]
               /\ [given[r] EXCEPT ![cur] = given[r][cur] + 1] \in [Note -> Nat]
    <3>1. given[r] \in [Note -> Nat]
      BY DEF TypeOK
    <3>2. given[r][cur] + 1 \in Nat
      BY <3>1
    <3> QED BY <3>1, <3>2
  <2> QED BY <2>1 DEF SaveRouted
<1> QED BY <1>1 DEF SaveRouted, TypeOK, Row, PC, outside, loop, inHand, lists, history

LEMMA SaveRegisterType ==
    ASSUME TypeOK, SaveRegister, DoiOf[cur] \in Doi
    PROVE  TypeOK'
<1>1. /\ register[DoiOf[cur]] \in Register
      /\ [seen |-> TRUE, pub |-> register[DoiOf[cur]].pub \/ cur \in Sub,
          repos |-> register[DoiOf[cur]].repos \cup repos] \in Register
  BY DEF TypeOK, Register
<1>2. register' \in [Doi -> Register]
  BY <1>1 DEF SaveRegister, TypeOK
<1> QED BY <1>2 DEF SaveRegister, TypeOK, PC, outside, loop, inHand, lists, history

LEMMA FinallyType ==
    ASSUME TypeOK, cur \in Of(kind), Finally
    PROVE  TypeOK'
<1>1. Listed => cur \in Sub
  BY DEF Listed, Of
<1>2. noPkg' \in SUBSET Sub /\ withPkg' \in SUBSET Sub
  BY <1>1 DEF Finally, TypeOK
<1> QED BY <1>2 DEF Finally, TypeOK, PC, outside, loop, history

LEMMA RoutingStepType ==
    ASSUME TypeOK, cur # NoNote => cur \in Of(kind),
           cur = NoNote => pc \in {"idle", "loop", "delete", "rows", "truncate"},
           pc = "register" => DoiOf[cur] \in Doi,
           RoutingStep
    PROVE  TypeOK'
<1>0. cur \in Of(kind) /\ cur \in Note
  BY DEF RoutingStep, Match, SaveRouted, RepackageFails, SaveRegister, RecordMatch,
         RecordMatchFails, RouteFails, Finally, TypeOK, Of, Note
<1> USE DEF TypeOK, PC, outside, loop, inHand, lists, history, Fault
<1>1. CASE Match
  BY <1>1 DEF Match
<1>2. CASE SaveRouted
  BY <1>0, <1>2, SaveRoutedType
<1>3. CASE RepackageFails
  BY <1>0, <1>3 DEF RepackageFails
<1>4. CASE SaveRegister
  BY <1>4, SaveRegisterType DEF SaveRegister
<1>5. CASE RecordMatch
  BY <1>5 DEF RecordMatch, Marked
<1>8. CASE RecordMatchFails
  BY <1>0, <1>8 DEF RecordMatchFails, Marked
<1>6. CASE RouteFails
  BY <1>0, <1>6 DEF RouteFails
<1>7. CASE Finally
  BY <1>0, <1>7, FinallyType
<1> QED BY <1>1, <1>2, <1>3, <1>4, <1>5, <1>6, <1>7, <1>8 DEF RoutingStep

LEMMA LoopStepType ==
    ASSUME TypeOK, LoopStep
    PROVE  TypeOK'
<1> USE DEF Fault, TypeOK, PC, outside, loop, inHand, lists, history
<1>1. CASE EndLoop
  BY <1>1 DEF EndLoop
<1>2. CASE ScrollerError
  BY <1>2 DEF ScrollerError
<1>3. CASE FoundLast
  BY <1>3 DEF FoundLast
<1>4. CASE Signal
  BY <1>4 DEF Signal
<1> QED BY <1>1, <1>2, <1>3, <1>4 DEF LoopStep

LEMMA DeleteFilesType ==
    ASSUME TypeOK, DeleteFiles
    PROVE  TypeOK'
BY DEF DeleteFiles, Fault, TypeOK, PC, outside, loop, inHand, lists, history

LEMMA DeletionType ==
    ASSUME TypeOK, Deletion
    PROVE  TypeOK'
<1> USE DEF Ended, TypeOK, PC, Row, Kind, outside, inHand, history
<1>1. CASE DeleteRows
  BY <1>1 DEF DeleteRows
<1>2. CASE DeleteHarvested
  BY <1>2 DEF DeleteHarvested
<1>3. CASE TruncateHarvested
  BY <1>3 DEF TruncateHarvested
<1> QED BY <1>1, <1>2, <1>3 DEF Deletion

LEMMA StopType ==
    ASSUME TypeOK, Stop
    PROVE  TypeOK'
<1>1. noPkg \in SUBSET Note /\ withPkg \in SUBSET Note /\ {cur} \ {NoNote} \in SUBSET Note
  BY DEF TypeOK, Note
<1> USE DEF Ended, Fault, TypeOK, PC, outside, inHand, history
<1>2. CASE NothingToDelete
  BY <1>2 DEF NothingToDelete
<1>3. CASE DeletionFails
  <2>1. failed' = failed \cup noPkg \cup withPkg
    BY <1>3 DEF DeletionFails
  <2>2. failed' \subseteq Note
    BY <1>1, <2>1
  <2>3. /\ row' = row /\ id' = id /\ nextId' = nextId /\ files' = files
        /\ record' = record /\ sender' = sender /\ register' = register
        /\ given' = given /\ kind' = kind
    BY <1>3 DEF DeletionFails
  <2>4. /\ pc' \in PC /\ scroll' \in SUBSET Note /\ cur' \in Note \cup {NoNote}
        /\ lastId' \in Nat /\ packaging' \in {"unbound", "none", "some"}
        /\ repos' \in SUBSET Repo
    BY <1>3 DEF DeletionFails
  <2>5. /\ success' \in BOOLEAN /\ abend' \in BOOLEAN /\ killed' \in BOOLEAN
        /\ noPkg' \in SUBSET Sub /\ withPkg' \in SUBSET Sub
    BY <1>3 DEF DeletionFails
  <2>6. /\ seen' \in SUBSET Note /\ early' \in SUBSET Sub /\ unread' \in SUBSET Note
        /\ faults' \in Nat
    BY <1>3 DEF DeletionFails
  <2> QED BY <2>2, <2>3, <2>4, <2>5, <2>6
<1>4. CASE Crash
  <2>1. failed' = failed \cup noPkg \cup withPkg \cup ({cur} \ {NoNote})
    BY <1>4 DEF Crash
  <2>2. failed' \subseteq Note
    BY <1>1, <2>1
  <2>3. /\ row' = row /\ id' = id /\ nextId' = nextId /\ files' = files
        /\ record' = record /\ sender' = sender /\ register' = register
        /\ given' = given /\ kind' = kind
    BY <1>4 DEF Crash
  <2>4. /\ pc' \in PC /\ scroll' \in SUBSET Note /\ cur' \in Note \cup {NoNote}
        /\ lastId' \in Nat /\ packaging' \in {"unbound", "none", "some"}
        /\ repos' \in SUBSET Repo
    BY <1>4 DEF Crash
  <2>5. /\ success' \in BOOLEAN /\ abend' \in BOOLEAN /\ killed' \in BOOLEAN
        /\ noPkg' \in SUBSET Sub /\ withPkg' \in SUBSET Sub
    BY <1>4 DEF Crash
  <2>6. /\ seen' \in SUBSET Note /\ early' \in SUBSET Sub /\ unread' \in SUBSET Note
        /\ faults' \in Nat
    BY <1>4 DEF Crash
  <2> QED BY <2>2, <2>3, <2>4, <2>5, <2>6
<1> QED BY <1>2, <1>3, <1>4 DEF Stop

-----------------------------------------------------------------------------
(***************************************************************************)
(* The inductive invariant.                                                *)
(***************************************************************************)

\* Where things stand with a row and with the request that brought it.
Live(n) == row[n] \in {"hidden", "unrouted"}

SenderInv ==
    /\ \A s \in Sub :
          /\ sender[s] = "new" => row[s] = "absent"
          /\ sender[s] = "inserting" <=> row[s] = "hidden"
          /\ row[s] = "absent" => sender[s] \in {"new", "dead"}
          /\ row[s] = "routed" /\ s \notin early => sender[s] = "acked"
          /\ sender[s] = "acked" <=> record[s] # "none"
    /\ \A i \in Item : row[i] \in {"absent", "unrouted", "deleted"}

\* The notification in hand, those before it and those behind it.
Arrived(n) == n \in Sub => sender[n] \notin {"new", "inserting"}

Routing == {"match", "save", "register", "record"}

\* What is read stays unrouted, unless its sender takes it back.
Pending(n) ==
    \/ row[n] = "unrouted"
    \/ n \in Sub /\ row[n] = "deleted" /\ sender[n] = "refused"

HandInv ==
    /\ cur = NoNote <=> pc \in {"idle", "loop", "delete", "rows", "truncate"}
    /\ cur # NoNote => /\ cur \in Of(kind) /\ Arrived(cur) /\ cur \notin scroll
                       /\ row[cur] # "absent"
    /\ \A n \in scroll : n \in Of(kind) /\ Arrived(n) /\ Pending(n)
    /\ pc \in {"match", "save"} => Pending(cur)
    /\ pc \in Routing /\ cur \in Sub \ early => sender[cur] = "acked"
    /\ pc \in {"register", "record"} /\ cur \in Sub \ early => row[cur] = "routed"
    /\ success => pc = "finally"
    /\ success /\ cur \in Sub \ early => row[cur] = "routed"
    /\ pc = "finally" /\ ~success /\ row[cur] = "routed" => cur \in failed
    /\ pc = "register" => DoiOf[cur] # NoDoi
    /\ pc = "rows" => kind = "publisher"
    /\ pc = "truncate" => kind = "harvested"
    /\ pc = "idle" => scroll = {} /\ lastId = 0

Lists == noPkg \cup withPkg

ListInv ==
    /\ Lists # {} => pc # "idle" /\ kind = "publisher"
    /\ \A s \in Lists : /\ s # cur /\ s \notin scroll /\ Arrived(s)
                        /\ id[s] <= lastId
                        /\ row[s] = "routed" => s \in failed

\* The ids of a table.
Numbered(n) == IF n \in Sub THEN sender[n] # "new" ELSE row[n] = "unrouted"

IdInv ==
    /\ \A k \in Kind : nextId[k] > 0
    /\ \A k \in Kind : \A n \in Of(k) : Numbered(n) => id[n] > 0 /\ id[n] < nextId[k]
    /\ \A k \in Kind : \A m, n \in Of(k) : Numbered(m) /\ Numbered(n) /\ m # n => id[m] # id[n]
    /\ lastId < nextId[kind]
    /\ cur # NoNote => id[cur] = lastId
    /\ \A n \in scroll : Numbered(n) /\ id[n] > lastId

\* What a run has not seen, and was not being inserted when it began, is behind
\* everything it has read.
Behind(n) == id[n] > lastId /\ \A m \in scroll : id[n] > id[m]

SeenInv ==
    /\ pc # "idle" => \A n \in Of(kind) \ (seen \cup unread \cup scroll) : Live(n) => Behind(n)
    /\ pc = "truncate" => Waiting("harvested") \subseteq seen \cup unread

FilesInv ==
    \A s \in WithPackage \ (early \cup failed) :
        sender[s] \in {"recording", "acked"} /\ row[s] \in {"unrouted", "routed"} =>
            s \in files \/ (pc = "rows" /\ s \in withPkg /\ row[s] = "unrouted")

RecordInv ==
    \A s \in Sub \ (early \cup failed) :
        /\ sender[s] = "acked" /\ ~(s = cur /\ pc \in Routing) =>
              (record[s] = "matched" <=> row[s] = "routed")
        /\ s = cur /\ pc \in Routing => record[s] # "matched"

InRegister(r, m) ==
    /\ register[DoiOf[m]].seen
    /\ r \in register[DoiOf[m]].repos
    /\ m \in Sub => register[DoiOf[m]].pub

RegisterInv ==
    /\ \A r \in Repo, m \in Note \ failed :
          given[r][m] > 0 /\ DoiOf[m] # NoDoi =>
              InRegister(r, m) \/ (pc = "register" /\ m = cur /\ r \in repos)
    /\ pc = "save" => \A r \in repos : ~Skipped(cur, r)

IInv ==
    /\ TypeOK /\ SenderInv /\ HandInv /\ ListInv
    /\ IdInv /\ SeenInv
    /\ FilesInv /\ RecordInv /\ RegisterInv
    /\ DeletedWereSeen /\ GivenIsThere

-----------------------------------------------------------------------------
(* What the groups of steps leave alone.                                   *)

LEMMA SendingFrame ==
    ASSUME NEW s \in Sub, Sending(s)
    PROVE  UNCHANGED <<program, history>>
BY DEF Sending, InsertNote, CommitNote, StorePackage, StoreFails, RemoveNote, RecordDeposit,
       RecordFails, SenderCrash

LEMMA TakingFrame ==
    ASSUME Taking
    PROVE  /\ UNCHANGED <<row, outside, files, record, register, given, kind, killed, repos,
                          success, abend, noPkg, withPkg, unread, faults>>
           /\ early \subseteq early' /\ seen \subseteq seen' /\ failed \subseteq failed'
BY DEF Taking, TakeNotification, TakeMalformed, Taken

LEMMA RoutingStepFrame ==
    ASSUME RoutingStep
    PROVE  /\ UNCHANGED <<outside, files, loop, seen, early, unread>>
           /\ failed \subseteq failed'
           /\ pc \in {"match", "save", "register", "record", "finally"}
BY DEF RoutingStep, Match, SaveRouted, RepackageFails, SaveRegister, RecordMatch,
       RecordMatchFails, RouteFails, Finally, history

LEMMA LoopStepFrame ==
    ASSUME LoopStep
    PROVE  UNCHANGED <<row, outside, files, record, register, given, kind, scroll, lastId,
                       inHand, lists, history>>
BY DEF LoopStep, EndLoop, ScrollerError, FoundLast, Signal, loop

LEMMA DeletionFrame ==
    ASSUME Deletion
    PROVE  /\ UNCHANGED <<id, sender, files, record, register, given, kind, inHand, abend,
                          history, faults>>
           /\ Ended /\ pc' = "idle"
           /\ pc \in {"rows", "delete", "truncate"}
BY DEF Deletion, DeleteRows, DeleteHarvested, TruncateHarvested, outside

LEMMA StopFrame ==
    ASSUME Stop
    PROVE  /\ UNCHANGED <<row, outside, files, record, register, given, kind, seen, early,
                          unread>>
           /\ Ended /\ pc' = "idle"
           /\ failed \subseteq failed'
BY DEF Stop, NothingToDelete, DeletionFails, Crash, history

-----------------------------------------------------------------------------
(* Rows and senders.                                                       *)

LEMMA SenderInit == Init => SenderInv
BY RoutingAssumption DEF Init, SenderInv, Note

LEMMA SenderSending ==
    ASSUME TypeOK, SenderInv, NEW s \in Sub, Sending(s)
    PROVE  SenderInv'
<1>0. /\ early' = early /\ s \in Note /\ s \notin Item
      /\ \A i \in Item : i \in Note
  BY SendingFrame, RoutingAssumption DEF history, Note
<1> USE <1>0 DEF SenderInv, TypeOK, Row, Stage
<1>1. CASE InsertNote(s)
  BY <1>1 DEF InsertNote
<1>2. CASE CommitNote(s)
  BY <1>2 DEF CommitNote
<1>3. CASE StorePackage(s)
  BY <1>3 DEF StorePackage, tables
<1>4. CASE StoreFails(s)
  BY <1>4 DEF StoreFails, tables
<1>5. CASE RemoveNote(s)
  BY <1>5 DEF RemoveNote
<1>6. CASE RecordDeposit(s)
  BY <1>6 DEF RecordDeposit, tables
<1>7. CASE RecordFails(s)
  BY <1>7 DEF RecordFails, tables
<1>8. CASE SenderCrash(s)
  BY <1>8 DEF SenderCrash
<1> QED BY <1>1, <1>2, <1>3, <1>4, <1>5, <1>6, <1>7, <1>8 DEF Sending

LEMMA SenderStep ==
    ASSUME IInv, [Next]_vars
    PROVE  SenderInv'
<1> USE DEF IInv
<1>1. ASSUME NEW s \in Sub, Sending(s) PROVE SenderInv'
  BY <1>1, SenderSending
<1>2. ASSUME NEW i \in Item, Harvest(i) PROVE SenderInv'
  BY <1>2, RoutingAssumption DEF Harvest, SenderInv, TypeOK, Note
<1>3. ASSUME NEW k \in Kind, StartRun(k) PROVE SenderInv'
  BY <1>3 DEF StartRun, SenderInv, outside
<1>4. CASE Taking
  BY <1>4, TakingFrame DEF SenderInv, outside
<1>5. CASE RoutingStep
  <2>1. UNCHANGED <<sender, early>>
    BY <1>5, RoutingStepFrame DEF outside
  <2>2. CASE SaveRouted
    <3>1. cur \in Note /\ cur \notin Item => cur \in Sub
      BY <2>2 DEF SaveRouted, TypeOK, HandInv, Of, Note
    <3>2. cur \in Sub => /\ sender[cur] \notin {"new", "inserting"}
                         /\ cur \notin early => sender[cur] = "acked"
      BY <2>2 DEF SaveRouted, HandInv, Arrived, Routing
    <3> QED BY <2>1, <2>2, <3>1, <3>2, RoutingAssumption
            DEF SaveRouted, SenderInv, TypeOK, Note
  <2>3. CASE RecordMatch \/ RecordMatchFails
    BY <2>1, <2>3 DEF RecordMatch, RecordMatchFails, Marked, SenderInv, TypeOK
  <2>4. CASE ~SaveRouted /\ ~RecordMatch /\ ~RecordMatchFails
    <3>1. row' = row /\ record' = record
      BY <1>5, <2>4 DEF RoutingStep, Match, RepackageFails, SaveRegister, RouteFails, Finally
    <3> QED BY <2>1, <3>1 DEF SenderInv
  <2> QED BY <2>2, <2>3, <2>4
<1>6. CASE LoopStep
  BY <1>6, LoopStepFrame DEF SenderInv, outside, history
<1>7. CASE DeleteFiles
  BY <1>7 DEF DeleteFiles, SenderInv, outside, history
<1>8. CASE Deletion
  <2>1. UNCHANGED <<sender, early, record>>
    BY <1>8, DeletionFrame DEF history
  <2>2. \A n \in Note : row'[n] = row[n] \/ (row[n] = "unrouted" /\ row'[n] = "deleted")
    BY <1>8 DEF Deletion, DeleteRows, DeleteHarvested, TruncateHarvested, RowsUpToMax, Waiting
  <2> QED BY <2>1, <2>2 DEF SenderInv, Note
<1>9. CASE Stop
  BY <1>9, StopFrame DEF SenderInv, outside
<1>10. CASE UNCHANGED vars
  BY <1>10 DEF vars, tables, history, SenderInv
<1> QED BY <1>1, <1>2, <1>3, <1>4, <1>5, <1>6, <1>7, <1>8, <1>9, <1>10, NextCases

-----------------------------------------------------------------------------
(***************************************************************************)
(* The notification in hand.                                               *)
(***************************************************************************)

\* What a request does to notifications, its own among them.
LEMMA SendingRows ==
    ASSUME TypeOK, SenderInv, NEW s \in Sub, Sending(s)
    PROVE  \A n \in Note :
              /\ Arrived(n) => Arrived(n)'
              /\ Arrived(n) => \/ row'[n] = row[n]
                               \/ n \in Sub /\ row'[n] = "deleted" /\ sender'[n] = "refused"
              /\ n \in Sub /\ sender[n] \in {"acked", "refused"} =>
                    row'[n] = row[n] /\ sender'[n] = sender[n]
              /\ Pending(n) /\ Arrived(n) => Pending(n)'
<1>0. s \in Note /\ s \notin Item /\ \A n \in Note : n \in Sub \/ n \in Item
  BY RoutingAssumption DEF Note
<1> USE <1>0 DEF SenderInv, TypeOK, Row, Stage, Arrived, Pending
<1>1. CASE InsertNote(s)
  BY <1>1 DEF InsertNote
<1>2. CASE CommitNote(s)
  BY <1>2 DEF CommitNote
<1>3. CASE StorePackage(s)
  BY <1>3 DEF StorePackage, tables
<1>4. CASE StoreFails(s)
  BY <1>4 DEF StoreFails, tables
<1>5. CASE RemoveNote(s)
  BY <1>5 DEF RemoveNote
<1>6. CASE RecordDeposit(s)
  BY <1>6 DEF RecordDeposit, tables
<1>7. CASE RecordFails(s)
  BY <1>7 DEF RecordFails, tables
<1>8. CASE SenderCrash(s)
  BY <1>8 DEF SenderCrash
<1> QED BY <1>1, <1>2, <1>3, <1>4, <1>5, <1>6, <1>7, <1>8 DEF Sending

LEMMA HandInit == Init => HandInv
BY DEF Init, HandInv, Routing

LEMMA HandSending ==
    ASSUME TypeOK, SenderInv, HandInv, NEW s \in Sub, Sending(s)
    PROVE  HandInv'
<1>1. UNCHANGED <<program, history>>
  BY SendingFrame
<1>2. \A n \in Of(kind) : n \in Note
  BY DEF Of, Note
<1>3. \A n \in Note :
         /\ Arrived(n) => Arrived(n)'
         /\ Arrived(n) => \/ row'[n] = row[n]
                          \/ n \in Sub /\ row'[n] = "deleted" /\ sender'[n] = "refused"
         /\ n \in Sub /\ sender[n] \in {"acked", "refused"} =>
               row'[n] = row[n] /\ sender'[n] = sender[n]
         /\ Pending(n) /\ Arrived(n) => Pending(n)'
  BY SendingRows
<1>4. \A n \in Sub : n \in Note
  BY DEF Note
<1>5. \A n \in scroll : Arrived(n)' /\ Pending(n)'
  BY <1>2, <1>3 DEF HandInv
<1>c. cur' = cur /\ (cur # NoNote => cur \in Note)
  BY <1>1, <1>2 DEF program, inHand, HandInv
<1>6. cur # NoNote => Arrived(cur)' /\ row'[cur] # "absent"
  <2>1. cur # NoNote => Arrived(cur) /\ row[cur] # "absent"
    BY DEF HandInv
  <2> QED BY <1>3, <1>c, <2>1 DEF Arrived
<1>7. pc \in {"match", "save"} => Pending(cur)'
  <2>1. pc \in {"match", "save"} => cur # NoNote /\ Arrived(cur) /\ Pending(cur)
    BY DEF HandInv
  <2> QED BY <1>3, <1>c, <2>1 DEF Arrived, Pending
<1>8. pc \in Routing /\ cur \in Sub \ early => sender'[cur] = "acked"
  BY <1>3, <1>4 DEF HandInv
<1>9. pc \in {"register", "record"} /\ cur \in Sub \ early => row'[cur] = "routed"
  BY <1>3, <1>4 DEF HandInv, Routing
<1>10. success /\ cur \in Sub \ early => row'[cur] = "routed"
  BY <1>3, <1>4 DEF HandInv, SenderInv
<1>11. pc = "finally" /\ ~success /\ row'[cur] = "routed" => cur \in failed
  BY <1>2, <1>3 DEF HandInv
<1> QED BY <1>1, <1>5, <1>6, <1>7, <1>8, <1>9, <1>10, <1>11
        DEF HandInv, program, history, loop, inHand, Of, Routing

LEMMA HandTaking ==
    ASSUME TypeOK, SenderInv, HandInv, Taking
    PROVE  HandInv'
<1>1. PICK n \in Note : TakeNotification(n) \/ TakeMalformed(n)
  BY DEF Taking
<1>2. /\ pc = "loop" /\ ~success /\ n \in scroll /\ n # NoNote
      /\ cur' = n /\ scroll' = scroll \ {n} /\ kind' = kind
      /\ row' = row /\ sender' = sender /\ success' = success
      /\ n \in Of(kind) /\ Arrived(n) /\ Pending(n)
  BY <1>1, RoutingAssumption
     DEF TakeNotification, TakeMalformed, Taken, FirstInScroll, HandInv, outside
<1>3. row[n] \notin {"absent", "routed"}
  BY <1>2 DEF Pending
<1>4. CASE TakeNotification(n)
  <2>1. pc' = "match" /\ (n \in Sub \ early' => sender[n] = "acked")
    BY <1>4 DEF TakeNotification
  <2> QED BY <1>2, <1>3, <2>1 DEF HandInv, Routing, Of, Arrived, Pending
<1>5. CASE TakeMalformed(n)
  <2>1. pc' = "finally"
    BY <1>5 DEF TakeMalformed
  <2> QED BY <1>2, <1>3, <2>1 DEF HandInv, Routing, Of, Arrived, Pending
<1> QED BY <1>1, <1>4, <1>5

LEMMA HandRouting ==
    ASSUME TypeOK, SenderInv, HandInv, RoutingStep
    PROVE  HandInv'
<1>0. /\ UNCHANGED <<sender, kind, scroll, lastId, early>>
      /\ failed \subseteq failed'
  BY RoutingStepFrame DEF outside, loop
<1>00. /\ cur \in Of(kind) => cur \in Note
       /\ \A n \in scroll : n \in Of(kind) /\ n \in Note
       /\ Sub \subseteq Note /\ Item \subseteq Note /\ Sub \cap Item = {}
  BY RoutingAssumption DEF Of, Note, HandInv
<1> USE <1>0
<1>1. CASE Match
  BY <1>1 DEF Match, HandInv, Routing, history, loop, inHand, Of, Arrived, Pending
<1>2. CASE SaveRouted
  <2>1. /\ pc = "save" /\ cur # NoNote /\ cur' = cur /\ success' = success
        /\ pc' = IF DoiOf[cur] = NoDoi THEN "record" ELSE "register"
        /\ cur \in Of(kind) /\ cur \in Note /\ Arrived(cur) /\ cur \notin scroll
        /\ ~success
    BY <1>2, <1>00 DEF SaveRouted, HandInv, inHand
  <2>2. /\ \A n \in Note \ {cur} : row'[n] = row[n]
        /\ cur \in Sub => row'[cur] = "routed"
        /\ row'[cur] # "absent"
    BY <1>2, <2>1 DEF SaveRouted, HandInv, TypeOK
  <2>3. \A n \in scroll : row'[n] = row[n]
    BY <1>00, <2>1, <2>2
  <2>4. \A n \in scroll : n \in Of(kind) /\ Arrived(n)' /\ Pending(n)'
    BY <2>3 DEF HandInv, Arrived, Pending
  <2> QED BY <2>1, <2>2, <2>4 DEF HandInv, Routing, Of, Arrived
<1>3. CASE RepackageFails
  BY <1>3 DEF RepackageFails, HandInv, Routing, inHand, loop, Of, Arrived, Pending
<1>4. CASE SaveRegister
  BY <1>4 DEF SaveRegister, HandInv, Routing, inHand, loop, history, Of, Arrived, Pending
<1>5. CASE RecordMatch
  BY <1>5 DEF RecordMatch, HandInv, Routing, loop, history, Of, Arrived, Pending
<1>8. CASE RecordMatchFails
  BY <1>8 DEF RecordMatchFails, HandInv, Routing, inHand, loop, Of, Arrived, Pending
<1>6. CASE RouteFails
  BY <1>6 DEF RouteFails, HandInv, Routing, inHand, loop, Of, Arrived, Pending
<1>7. CASE Finally
  BY <1>7 DEF Finally, HandInv, Routing, loop, history, Of, Arrived, Pending
<1> QED BY <1>1, <1>2, <1>3, <1>4, <1>5, <1>6, <1>7, <1>8 DEF RoutingStep

LEMMA HandStep ==
    ASSUME IInv, [Next]_vars
    PROVE  HandInv'
<1> USE DEF IInv
<1>1. ASSUME NEW s \in Sub, Sending(s) PROVE HandInv'
  BY <1>1, HandSending
<1>2. ASSUME NEW i \in Item, Harvest(i) PROVE HandInv'
  <2>1. UNCHANGED <<sender, program, early, failed>>
    BY <1>2 DEF Harvest
  <2>2. row[i] = "absent" /\ i \in Note /\ i \notin Sub
    BY <1>2, RoutingAssumption DEF Harvest, Note
  <2>3. row' = [row EXCEPT ![i] = "unrouted"]
    BY <1>2 DEF Harvest
  <2>4. row'[i] = "unrouted" /\ \A n \in Note \ {i} : row'[n] = row[n]
    BY <2>2, <2>3 DEF TypeOK
  <2>5. /\ \A n \in Of(kind) : n \in Note
        /\ \A n \in Sub : n \in Note \ {i}
    BY <2>2 DEF Of, Note
  <2>6. \A n \in scroll : n \in Of(kind) /\ Arrived(n)' /\ Pending(n)'
    BY <2>1, <2>4, <2>5 DEF HandInv, Arrived, Pending
  <2>7. cur # NoNote => /\ row'[cur] = row[cur] /\ row'[cur] # "absent"
    BY <2>2, <2>4, <2>5 DEF HandInv
  <2>8. cur = NoNote => pc \notin {"match", "save", "register", "record", "finally"}
    BY DEF HandInv
  <2>9. \A n \in Sub : row'[n] = row[n]
    BY <2>4, <2>5
  <2> QED BY <2>1, <2>6, <2>7, <2>8, <2>9
          DEF HandInv, program, loop, inHand, Of, Arrived, Pending, Routing
<1>3. ASSUME NEW k \in Kind, StartRun(k) PROVE HandInv'
  <2>1. \A n \in Waiting(k) : n \in Of(k) /\ Arrived(n) /\ row[n] = "unrouted"
    BY <1>3 DEF Waiting, Of, Arrived, SenderInv
  <2> QED BY <1>3, <2>1 DEF StartRun, HandInv, Routing, inHand, outside, Of, Arrived, Pending
<1>4. CASE Taking
  BY <1>4, HandTaking
<1>5. CASE RoutingStep
  BY <1>5, HandRouting
<1>6. CASE LoopStep
  <2>1. UNCHANGED <<row, sender, kind, scroll, lastId, inHand, history>>
    BY <1>6, LoopStepFrame DEF outside
  <2>2. \/ pc = "loop" /\ pc' = "delete"
        \/ pc = "delete" /\ kind = "harvested" /\ pc' = "truncate"
        \/ pc' = pc
    BY <1>6 DEF LoopStep, EndLoop, ScrollerError, FoundLast, Signal
  <2> QED BY <2>1, <2>2 DEF HandInv, inHand, history, Of, Arrived, Pending, Routing
<1>7. CASE DeleteFiles
  BY <1>7 DEF DeleteFiles, HandInv, outside, loop, inHand, history, Of, Arrived, Pending,
              Routing
<1>8. CASE Deletion
  <2>1. cur = NoNote /\ ~success
    BY <1>8, DeletionFrame DEF HandInv
  <2> QED BY <1>8, <2>1, DeletionFrame DEF HandInv, Ended, inHand, Routing
<1>9. CASE Stop
  <2>1. pc' = "idle" /\ scroll' = {} /\ lastId' = 0
    BY <1>9, StopFrame DEF Ended
  <2>2. cur' = NoNote /\ ~success'
    BY <1>9 DEF Stop, NothingToDelete, DeletionFails, Crash, inHand, HandInv
  <2> QED BY <2>1, <2>2 DEF HandInv, Routing
<1>10. CASE UNCHANGED vars
  BY <1>10 DEF vars, tables, history, loop, inHand, lists, HandInv, Of, Arrived, Pending,
               Routing
<1> QED BY <1>1, <1>2, <1>3, <1>4, <1>5, <1>6, <1>7, <1>8, <1>9, <1>10, NextCases

-----------------------------------------------------------------------------
(***************************************************************************)
(* Ids, and the lists of what is to be deleted.                            *)
(***************************************************************************)

LEMMA ListInit == Init => ListInv
BY DEF Init, ListInv, Lists

LEMMA ListStep ==
    ASSUME IInv, [Next]_vars
    PROVE  ListInv'
<1> USE DEF IInv
<1>0. \A s \in Lists : s \in Sub /\ s \in Note
  BY DEF Lists, TypeOK, Note
<1>1. ASSUME NEW s \in Sub, Sending(s) PROVE ListInv'
  <2>1. UNCHANGED <<program, history>>
    BY <1>1, SendingFrame
  <2>2. \A n \in Note : Arrived(n) => /\ Arrived(n)'
                                      /\ row'[n] = "routed" => row[n] = "routed"
    BY <1>1, SendingRows
  <2>3. \A n \in Lists : id'[n] = id[n]
    <3>1. \A n \in Sub : n \in Lists => sender[n] # "new"
      BY DEF ListInv, Arrived
    <3> QED BY <1>0, <1>1, <3>1
            DEF Sending, InsertNote, CommitNote, StorePackage, StoreFails, RemoveNote,
                RecordDeposit, RecordFails, SenderCrash, tables, TypeOK
  <2>4. /\ Lists' = Lists /\ cur' = cur /\ scroll' = scroll /\ lastId' = lastId
        /\ pc' = pc /\ kind' = kind /\ failed' = failed
    BY <2>1 DEF program, lists, loop, inHand, history, Lists
  <2>5. \A n \in Lists : Arrived(n)' /\ (row'[n] = "routed" => n \in failed)
    BY <1>0, <2>2 DEF ListInv
  <2> QED BY <2>3, <2>4, <2>5 DEF ListInv
<1>2. ASSUME NEW i \in Item, Harvest(i) PROVE ListInv'
  <2>1. UNCHANGED <<sender, program, failed>>
    BY <1>2 DEF Harvest
  <2>2. \A s \in Sub : row'[s] = row[s] /\ id'[s] = id[s]
    BY <1>2, RoutingAssumption DEF Harvest, TypeOK, Note
  <2> QED BY <1>0, <2>1, <2>2 DEF ListInv, program, lists, loop, inHand, Lists, Arrived
<1>3. ASSUME NEW k \in Kind, StartRun(k) PROVE ListInv'
  BY <1>3 DEF StartRun, ListInv, Lists
<1>4. CASE Taking
  <2>1. PICK n \in Note : TakeNotification(n) \/ TakeMalformed(n)
    BY <1>4 DEF Taking
  <2>2. /\ pc = "loop" /\ n \in scroll
        /\ cur' = n /\ scroll' = scroll \ {n} /\ lastId' = id[n]
        /\ pc' # "idle" /\ failed \subseteq failed'
    BY <2>1 DEF TakeNotification, TakeMalformed, Taken, FirstInScroll
  <2>3. UNCHANGED <<row, id, sender, kind, noPkg, withPkg>>
    BY <1>4, TakingFrame DEF outside
  <2>4. id[n] > lastId
    BY <2>2 DEF IdInv
  <2>5. \A s \in Lists : id[s] \in Nat
    BY <1>0 DEF TypeOK
  <2>6. lastId \in Nat /\ id[n] \in Nat
    BY DEF TypeOK
  <2> QED BY <2>2, <2>3, <2>4, <2>5, <2>6 DEF ListInv, Lists, Arrived
<1>5. CASE RoutingStep
  <2>1. /\ UNCHANGED <<id, sender, kind, scroll, lastId>>
        /\ failed \subseteq failed' /\ pc # "idle"
    BY <1>5, RoutingStepFrame DEF outside, loop
  <2>2. CASE Finally
    <3>1. pc' # "idle" /\ row' = row /\ cur' = NoNote /\ failed' = failed
      BY <2>2 DEF Finally, history
    <3>2. \A s \in Lists' : s \in Lists \/ (s = cur /\ kind = "publisher" /\ ~success)
      BY <2>2 DEF Finally, Lists, Listed
    <3>3. /\ cur # NoNote /\ cur \in Of(kind) /\ Arrived(cur) /\ cur \notin scroll
          /\ ~success /\ row[cur] = "routed" => cur \in failed
          /\ id[cur] = lastId
      BY <2>2 DEF Finally, HandInv, IdInv
    <3>4. NoNote \notin Sub /\ lastId \in Nat
      BY RoutingAssumption DEF Note, TypeOK
    <3>5. ASSUME NEW s \in Lists'
          PROVE  /\ kind = "publisher" /\ s # NoNote /\ s \notin scroll /\ Arrived(s)
                 /\ id[s] <= lastId
                 /\ row[s] = "routed" => s \in failed
      <4>1. CASE s \in Lists
        BY <1>0, <3>4, <4>1 DEF ListInv
      <4>2. CASE s = cur /\ kind = "publisher" /\ ~success
        BY <3>3, <3>4, <4>2
      <4> QED BY <3>2, <4>1, <4>2
    <3> QED BY <2>1, <3>1, <3>5 DEF ListInv, Arrived
  <2>3. CASE ~Finally
    <3>1. UNCHANGED <<noPkg, withPkg, cur>> /\ pc' # "idle"
      BY <1>5, <2>3 DEF RoutingStep, Match, SaveRouted, RepackageFails, SaveRegister,
                        RecordMatch, RecordMatchFails, RouteFails, inHand, lists
    <3>2. \A s \in Lists : row'[s] = row[s]
      <4>1. \A s \in Lists : s # cur
        BY DEF ListInv
      <4> QED BY <1>0, <1>5, <2>3, <4>1
              DEF RoutingStep, Match, SaveRouted, RepackageFails, SaveRegister, RecordMatch,
                  RecordMatchFails, RouteFails, TypeOK
    <3> QED BY <2>1, <3>1, <3>2 DEF ListInv, Lists, Arrived
  <2> QED BY <2>2, <2>3
<1>6. CASE LoopStep
  <2>1. pc # "idle" /\ pc' # "idle"
    BY <1>6 DEF LoopStep, EndLoop, ScrollerError, FoundLast, Signal
  <2> QED BY <1>6, <2>1, LoopStepFrame
          DEF ListInv, Lists, outside, inHand, lists, history, Arrived
<1>7. CASE DeleteFiles
  BY <1>7 DEF DeleteFiles, ListInv, Lists, outside, loop, inHand, lists, history, Arrived
<1>8. CASE Deletion
  BY <1>8, DeletionFrame DEF Ended, ListInv, Lists
<1>9. CASE Stop
  BY <1>9, StopFrame DEF Ended, ListInv, Lists
<1>10. CASE UNCHANGED vars
  BY <1>10 DEF vars, tables, history, loop, inHand, lists, ListInv, Lists, Arrived
<1> QED BY <1>1, <1>2, <1>3, <1>4, <1>5, <1>6, <1>7, <1>8, <1>9, <1>10, NextCases

LEMMA IdInit == Init => IdInv
BY RoutingAssumption DEF Init, IdInv, Numbered, Of, Kind, Note

LEMMA KindNote ==
    /\ \A k \in Kind : \A n \in Of(k) : n \in Note
    /\ \A n \in Of("publisher") : n \in Sub /\ n \notin Item
    /\ \A n \in Of("harvested") : n \in Item /\ n \notin Sub
    /\ \A n \in Sub : n \in Of("publisher")
    /\ \A n \in Item : n \in Of("harvested")
    /\ \A k \in Kind : k = "publisher" \/ k = "harvested"
    /\ "publisher" \in Kind /\ "harvested" \in Kind
BY RoutingAssumption DEF Of, Note, Kind

\* A new row: it gets the next id of its table, the others keep theirs.
LEMMA IdInsert ==
    ASSUME TypeOK, HandInv, IdInv, NEW k \in Kind, NEW x \in Of(k), x # cur, x \notin scroll,
           id' = [id EXCEPT ![x] = nextId[k]],
           nextId' = [nextId EXCEPT ![k] = @ + 1],
           \A n \in Note \ {x} : Numbered(n)' => Numbered(n),
           \A n \in scroll : Numbered(n)',
           UNCHANGED <<kind, lastId, cur, scroll>>
    PROVE  IdInv'
<1>0. x \in Note /\ \A j \in Kind \ {k} : x \notin Of(j)
  BY KindNote
<1>1. /\ nextId[k] \in Nat /\ nextId[k] > 0 /\ nextId'[k] = nextId[k] + 1
      /\ \A j \in Kind \ {k} : nextId'[j] = nextId[j]
      /\ \A j \in Kind : nextId[j] \in Nat
  BY DEF TypeOK, IdInv
<1>2. id'[x] = nextId[k] /\ \A n \in Note \ {x} : id'[n] = id[n]
  BY <1>0 DEF TypeOK
<1>3. \A n \in Note : id[n] \in Nat
  BY DEF TypeOK
<1>4. \A j \in Kind : nextId'[j] > 0
  BY <1>1 DEF IdInv
<1>5. ASSUME NEW j \in Kind, NEW n \in Of(j), Numbered(n)'
      PROVE  id'[n] > 0 /\ id'[n] < nextId'[j]
  <2>1. CASE n = x
    BY <1>0, <1>1, <1>2, <2>1
  <2>2. CASE n # x
    <3>1. n \in Note /\ Numbered(n) /\ id[n] > 0 /\ id[n] < nextId[j] /\ id'[n] = id[n]
      BY <1>2, <1>5, <2>2, KindNote DEF IdInv
    <3>2. id[n] \in Nat /\ nextId[j] \in Nat /\ nextId'[j] \in {nextId[j], nextId[j] + 1}
      BY <1>1, <1>3, <3>1
    <3> QED BY <3>1, <3>2
  <2> QED BY <2>1, <2>2
<1>6. ASSUME NEW j \in Kind, NEW m \in Of(j), NEW n \in Of(j),
             Numbered(m)', Numbered(n)', m # n
      PROVE  id'[m] # id'[n]
  <2>1. m \in Note /\ n \in Note
    BY KindNote
  <2>2. CASE m = x
    <3>1. j = k /\ Numbered(n) /\ id[n] < nextId[k]
      BY <1>0, <1>6, <2>1, <2>2 DEF IdInv
    <3> QED BY <1>1, <1>2, <1>3, <1>6, <2>1, <2>2, <3>1
  <2>3. CASE n = x
    <3>1. j = k /\ Numbered(m) /\ id[m] < nextId[k]
      BY <1>0, <1>6, <2>1, <2>3 DEF IdInv
    <3> QED BY <1>1, <1>2, <1>3, <1>6, <2>1, <2>3, <3>1
  <2>4. CASE m # x /\ n # x
    BY <1>2, <1>6, <2>1, <2>4 DEF IdInv
  <2> QED BY <2>2, <2>3, <2>4
<1>7. kind \in Kind /\ lastId \in Nat /\ cur \in Note \cup {NoNote}
  BY DEF TypeOK
<1>8. lastId < nextId'[kind]
  BY <1>1, <1>7 DEF IdInv
<1>9. cur # NoNote => id'[cur] = lastId
  BY <1>2, <1>7 DEF IdInv
<1>10. \A n \in scroll : id'[n] > lastId
  BY <1>2, <1>7, KindNote DEF IdInv, HandInv
<1> QED BY <1>4, <1>5, <1>6, <1>8, <1>9, <1>10 DEF IdInv

LEMMA IdStep ==
    ASSUME IInv, [Next]_vars
    PROVE  IdInv'
<1> USE DEF IInv
<1>1. ASSUME NEW s \in Sub, Sending(s) PROVE IdInv'
  <2>1. UNCHANGED <<kind, lastId, cur, scroll>>
    BY <1>1, SendingFrame DEF program, loop, inHand
  <2>2. \A n \in Item : row'[n] = row[n]
    BY <1>1, RoutingAssumption
       DEF Sending, InsertNote, CommitNote, StorePackage, StoreFails, RemoveNote,
           RecordDeposit, RecordFails, SenderCrash, tables, TypeOK, Note
  <2>3. \A n \in Sub : n # s => sender'[n] = sender[n]
    BY <1>1 DEF Sending, InsertNote, CommitNote, StorePackage, StoreFails, RemoveNote,
                RecordDeposit, RecordFails, SenderCrash, TypeOK
  <2>4. \A n \in Note : Numbered(n) => Numbered(n)'
    <3>1. sender'[s] # "new"
      BY <1>1 DEF Sending, InsertNote, CommitNote, StorePackage, StoreFails, RemoveNote,
                  RecordDeposit, RecordFails, SenderCrash, TypeOK
    <3> QED BY <2>2, <2>3, <3>1 DEF Numbered, Note
  <2>5. CASE InsertNote(s)
    <3>1. s # cur /\ s \notin scroll
      BY <2>5, RoutingAssumption DEF InsertNote, HandInv, Arrived, Note
    <3>2. \A n \in Note \ {s} : Numbered(n)' => Numbered(n)
      BY <2>2, <2>3 DEF Numbered, Note
    <3>3. \A n \in scroll : Numbered(n)'
      BY <2>4 DEF IdInv, TypeOK
    <3> QED BY <2>1, <2>5, <3>1, <3>2, <3>3, IdInsert, KindNote DEF InsertNote
  <2>6. CASE ~InsertNote(s)
    <3>1. id' = id /\ nextId' = nextId /\ sender[s] # "new"
      BY <1>1, <2>6 DEF Sending, CommitNote, StorePackage, StoreFails, RemoveNote,
                        RecordDeposit, RecordFails, SenderCrash, tables
    <3>2. \A n \in Note : Numbered(n)' <=> Numbered(n)
      BY <2>2, <2>3, <2>4, <3>1 DEF Numbered, Note
    <3>3. scroll \subseteq Note
      BY DEF TypeOK
    <3> QED BY <2>1, <3>1, <3>2, <3>3, KindNote DEF IdInv
  <2> QED BY <2>5, <2>6
<1>2. ASSUME NEW i \in Item, Harvest(i) PROVE IdInv'
  <2>1. UNCHANGED <<kind, lastId, cur, scroll, sender>>
    BY <1>2 DEF Harvest, program, loop, inHand
  <2>2. i # cur /\ i \notin scroll
    BY <1>2, RoutingAssumption DEF Harvest, HandInv, Pending, Note
  <2>3. row'[i] = "unrouted" /\ \A n \in Note \ {i} : row'[n] = row[n]
    BY <1>2 DEF Harvest, TypeOK, Note
  <2>4. \A n \in Note \ {i} : Numbered(n)' <=> Numbered(n)
    BY <2>1, <2>3 DEF Numbered, Note
  <2>5. \A n \in scroll : Numbered(n)'
    BY <2>2, <2>4 DEF IdInv, TypeOK
  <2> QED BY <1>2, <2>1, <2>2, <2>4, <2>5, IdInsert, KindNote DEF Harvest
<1>3. ASSUME NEW k \in Kind, StartRun(k) PROVE IdInv'
  <2>1. /\ UNCHANGED <<row, id, nextId, sender, cur>>
        /\ kind' = k /\ scroll' = Waiting(k) /\ lastId' = 0
        /\ pc = "idle"
    BY <1>3 DEF StartRun, outside, inHand
  <2>2. \A n \in Waiting(k) : Numbered(n) /\ id[n] > 0
    BY KindNote DEF Waiting, Numbered, SenderInv, IdInv
  <2>3. cur = NoNote
    BY <2>1 DEF HandInv
  <2>4. nextId[k] > 0
    BY DEF IdInv
  <2> QED BY <2>1, <2>2, <2>3, <2>4 DEF IdInv, Numbered
<1>4. CASE Taking
  <2>1. PICK n \in Note : TakeNotification(n) \/ TakeMalformed(n)
    BY <1>4 DEF Taking
  <2>2. /\ n \in scroll /\ \A m \in scroll : id[n] <= id[m]
        /\ cur' = n /\ scroll' = scroll \ {n} /\ lastId' = id[n]
    BY <2>1 DEF TakeNotification, TakeMalformed, Taken, FirstInScroll
  <2>3. UNCHANGED <<row, id, nextId, sender, kind>>
    BY <1>4, TakingFrame DEF outside
  <2>4. /\ \A m \in scroll : Numbered(m) /\ m \in Of(kind) /\ m \in Note /\ id[m] \in Nat
        /\ kind \in Kind
    BY KindNote DEF IdInv, HandInv, TypeOK
  <2>5. \A m \in scroll \ {n} : id[m] > id[n]
    BY <2>2, <2>4 DEF IdInv
  <2>6. id[n] < nextId[kind]
    BY <2>2, <2>4 DEF IdInv
  <2> QED BY <2>2, <2>3, <2>4, <2>5, <2>6 DEF IdInv, Numbered
<1>5. CASE RoutingStep
  <2>1. UNCHANGED <<nextId, id, sender, kind, scroll, lastId>>
    BY <1>5, RoutingStepFrame DEF outside, loop
  <2>2. cur' = cur \/ cur' = NoNote
    BY <1>5 DEF RoutingStep, Match, SaveRouted, RepackageFails, SaveRegister, RecordMatch,
                RecordMatchFails, RouteFails, Finally, inHand
  <2>3. \A n \in Item : row'[n] = row[n]
    BY <1>5, RoutingAssumption
       DEF RoutingStep, Match, SaveRouted, RepackageFails, SaveRegister, RecordMatch,
           RecordMatchFails, RouteFails, Finally, TypeOK, Note
  <2>4. \A n \in Note : Numbered(n)' <=> Numbered(n)
    BY <2>1, <2>3 DEF Numbered, Note
  <2>5. scroll \subseteq Note
    BY DEF TypeOK
  <2> QED BY <2>1, <2>2, <2>4, <2>5, KindNote DEF IdInv
<1>6. CASE LoopStep
  BY <1>6, LoopStepFrame DEF IdInv, outside, inHand, Numbered
<1>7. CASE DeleteFiles
  BY <1>7 DEF DeleteFiles, IdInv, outside, loop, inHand, Numbered
<1>8. CASE Deletion
  <2>1. /\ id' = id /\ sender' = sender /\ kind' = kind /\ cur' = cur
        /\ scroll' = {} /\ lastId' = 0
        /\ cur = NoNote
    BY <1>8, DeletionFrame DEF Ended, inHand, HandInv
  <2>2. \A n \in Note : Numbered(n)' => Numbered(n)
    BY <1>8, <2>1 DEF Deletion, DeleteRows, DeleteHarvested, TruncateHarvested, Numbered
  <2>3. CASE TruncateHarvested
    <3>1. nextId'["harvested"] = 1 /\ nextId'["publisher"] = nextId["publisher"]
      BY <2>3 DEF TruncateHarvested, TypeOK, Kind
    <3>2. \A n \in Item : ~Numbered(n)'
      BY <2>3, RoutingAssumption
         DEF TruncateHarvested, Numbered, Waiting, Of, Note
    <3>3. \A j \in Kind : nextId'[j] > 0
      BY <3>1, KindNote DEF IdInv
    <3>4. kind \in Kind
      BY DEF TypeOK
    <3> QED BY <2>1, <2>2, <3>1, <3>2, <3>3, <3>4, KindNote DEF IdInv
  <2>4. CASE ~TruncateHarvested
    <3>1. nextId' = nextId
      BY <1>8, <2>4 DEF Deletion, DeleteRows, DeleteHarvested, outside
    <3>2. kind \in Kind
      BY DEF TypeOK
    <3> QED BY <2>1, <2>2, <3>1, <3>2, KindNote DEF IdInv
  <2> QED BY <2>3, <2>4
<1>9. CASE Stop
  <2>1. /\ UNCHANGED <<row, id, nextId, sender, kind>>
        /\ scroll' = {} /\ lastId' = 0
    BY <1>9, StopFrame DEF Ended, outside
  <2>2. cur' = NoNote
    BY <1>9 DEF Stop, NothingToDelete, DeletionFails, Crash, inHand, HandInv
  <2>3. kind \in Kind
    BY DEF TypeOK
  <2> QED BY <2>1, <2>2, <2>3 DEF IdInv, Numbered
<1>10. CASE UNCHANGED vars
  BY <1>10 DEF vars, tables, loop, inHand, IdInv, Numbered
<1> QED BY <1>1, <1>2, <1>3, <1>4, <1>5, <1>6, <1>7, <1>8, <1>9, <1>10, NextCases

-----------------------------------------------------------------------------
(***************************************************************************)
(* What a run has seen.                                                    *)
(***************************************************************************)

LEMMA SeenInit == Init => SeenInv
BY DEF Init, SeenInv

\* What was behind stays behind if nothing moves but rows that are no longer live.
LEMMA StaysBehind ==
    ASSUME SeenInv,
           UNCHANGED <<kind, lastId, scroll>>,
           \A n \in Note : n \in Of(kind) => id'[n] = id[n],
           \A n \in Of(kind) : Live(n)' => Live(n),
           seen \subseteq seen', unread \subseteq unread',
           scroll \subseteq Note, kind \in Kind,
           \A n \in scroll : n \in Of(kind),
           pc # "idle", pc' # "truncate" \/ pc = "truncate",
           kind = "harvested" => \A n \in Item : row'[n] = "unrouted" => row[n] = "unrouted",
           pc = "truncate" => kind = "harvested"
    PROVE  SeenInv'
<1>1. ASSUME NEW n \in Of(kind) \ (seen' \cup unread' \cup scroll), Live(n)'
      PROVE  Behind(n)'
  <2>1. Behind(n) /\ n \in Note
    BY <1>1, KindNote DEF SeenInv
  <2> QED BY <2>1 DEF Behind
<1>2. ASSUME pc' = "truncate" PROVE Waiting("harvested")' \subseteq seen' \cup unread'
  <2>1. pc = "truncate" /\ kind = "harvested"
    BY <1>2
  <2>2. \A n \in Of("harvested") : n \in Item
    BY KindNote
  <2> QED BY <2>1, <2>2 DEF SeenInv, Waiting
<1> QED BY <1>1, <1>2 DEF SeenInv

\* A new row is behind everything.
LEMMA InsertBehind ==
    ASSUME TypeOK, HandInv, IdInv, SeenInv,
           NEW x \in Of(kind), x # cur, x \notin scroll,
           id' = [id EXCEPT ![x] = nextId[kind]],
           UNCHANGED <<kind, lastId, scroll, seen, pc>>,
           unread \subseteq unread',
           pc = "truncate" => x \in unread',
           \A n \in Note \ {x} : row'[n] = row[n]
    PROVE  SeenInv'
<1>0. kind \in Kind /\ x \in Note
  BY KindNote DEF TypeOK
<1>1. id'[x] = nextId[kind] /\ \A n \in Note \ {x} : id'[n] = id[n]
  BY <1>0 DEF TypeOK
<1>2. \A n \in scroll : n \in Note \ {x} /\ n \in Of(kind) /\ id[n] < nextId[kind]
                        /\ id'[n] = id[n]
  BY <1>0, <1>1, KindNote DEF HandInv, IdInv
<1>3. ASSUME pc # "idle", NEW n \in Of(kind) \ (seen \cup unread' \cup scroll), Live(n)'
      PROVE  Behind(n)'
  <2>1. CASE n = x
    <3>1. id'[x] > lastId
      BY <1>0, <1>1 DEF IdInv, TypeOK
    <3>2. \A m \in scroll : id'[x] > id'[m]
      BY <1>0, <1>1, <1>2 DEF TypeOK
    <3> QED BY <2>1, <3>1, <3>2 DEF Behind
  <2>2. CASE n # x
    <3>1. n \in Note \ {x}
      BY <1>0, <2>2, KindNote
    <3>2. Behind(n)
      BY <1>3, <3>1 DEF SeenInv, Live
    <3> QED BY <1>1, <1>2, <3>1, <3>2 DEF Behind
  <2> QED BY <2>1, <2>2
<1>4. ASSUME pc = "truncate" PROVE Waiting("harvested")' \subseteq seen \cup unread'
  <2>1. Waiting("harvested")' \subseteq Waiting("harvested") \cup {x}
    BY KindNote DEF Waiting, Kind
  <2>2. Waiting("harvested") \subseteq seen \cup unread
    BY <1>4 DEF SeenInv
  <2> QED BY <1>4, <2>1, <2>2
<1> QED BY <1>3, <1>4 DEF SeenInv

LEMMA SeenStep ==
    ASSUME IInv, [Next]_vars
    PROVE  SeenInv'
<1> USE DEF IInv
<1>0. /\ kind \in Kind /\ scroll \subseteq Note
      /\ \A n \in scroll : n \in Of(kind)
      /\ pc = "truncate" => kind = "harvested"
  BY DEF TypeOK, HandInv
<1>1. ASSUME NEW s \in Sub, Sending(s) PROVE SeenInv'
  <2>1. UNCHANGED <<kind, lastId, cur, scroll, pc, seen, unread>>
    BY <1>1, SendingFrame DEF program, loop, inHand, history
  <2>2. /\ s \in Note /\ s \notin Item
        /\ \A n \in Note \ {s} : row'[n] = row[n]
    BY <1>1, RoutingAssumption
       DEF Sending, InsertNote, CommitNote, StorePackage, StoreFails, RemoveNote,
           RecordDeposit, RecordFails, SenderCrash, tables, TypeOK, Note
  <2>3. CASE pc = "idle"
    BY <2>1, <2>3 DEF SeenInv
  <2>4. CASE pc # "idle" /\ InsertNote(s)
    <3>1. s # cur /\ s \notin scroll
      BY <2>4, RoutingAssumption DEF InsertNote, HandInv, Arrived, Note
    <3>2. id' = [id EXCEPT ![s] = nextId["publisher"]]
      BY <2>4 DEF InsertNote
    <3>3. CASE kind = "publisher"
      <4>1. s \in Of(kind) /\ pc # "truncate"
        BY <1>0, <3>3, KindNote
      <4> QED BY <2>1, <2>2, <3>1, <3>2, <3>3, <4>1, InsertBehind
    <3>4. CASE kind = "harvested"
      <4>1. \A n \in Of(kind) : n \in Item /\ n \in Note \ {s}
        BY <2>2, <3>4, KindNote DEF Kind
      <4>2. \A n \in Of(kind) : id'[n] = id[n] /\ row'[n] = row[n]
        BY <2>2, <3>2, <4>1 DEF TypeOK
      <4>3. /\ \A n \in Of(kind) : Live(n)' => Live(n)
            /\ \A n \in Item : row'[n] = "unrouted" => row[n] = "unrouted"
        BY <3>4, <4>2, KindNote DEF Live
      <4> QED BY <1>0, <2>1, <2>4, <4>2, <4>3, StaysBehind
    <3> QED BY <1>0, <3>3, <3>4 DEF Kind
  <2>5. CASE pc # "idle" /\ ~InsertNote(s)
    <3>1. id' = id /\ (Live(s)' => Live(s))
      BY <1>1, <2>5 DEF Sending, CommitNote, StorePackage, StoreFails, RemoveNote,
                        RecordDeposit, RecordFails, SenderCrash, tables, Live, SenderInv,
                        TypeOK, Note
    <3>2. \A n \in Of(kind) : Live(n)' => Live(n)
      BY <1>0, <2>2, <3>1, KindNote DEF Live
    <3>3. \A n \in Item : row'[n] = row[n]
      BY <2>2 DEF Note
    <3> QED BY <1>0, <2>1, <2>5, <3>1, <3>2, <3>3, StaysBehind
  <2> QED BY <2>3, <2>4, <2>5
<1>2. ASSUME NEW i \in Item, Harvest(i) PROVE SeenInv'
  <2>1. /\ UNCHANGED <<kind, lastId, cur, scroll, pc, seen>>
        /\ unread \subseteq unread'
        /\ pc = "truncate" => i \in unread'
        /\ id' = [id EXCEPT ![i] = nextId["harvested"]]
    BY <1>2 DEF Harvest, program, loop, inHand
  <2>2. /\ i # cur /\ i \notin scroll /\ i \in Note /\ i \notin Sub
        /\ \A n \in Note \ {i} : row'[n] = row[n]
    BY <1>2, RoutingAssumption DEF Harvest, HandInv, Pending, Note, TypeOK
  <2>3. CASE pc = "idle"
    BY <2>1, <2>3 DEF SeenInv
  <2>4. CASE kind = "harvested"
    BY <2>1, <2>2, <2>4, KindNote, InsertBehind
  <2>5. CASE pc # "idle" /\ kind = "publisher"
    <3>1. \A n \in Of(kind) : n \in Note \ {i}
      BY <2>2, <2>5, KindNote DEF Kind
    <3>2. \A n \in Of(kind) : id'[n] = id[n] /\ row'[n] = row[n]
      BY <2>1, <2>2, <3>1 DEF TypeOK
    <3>3. \A n \in Of(kind) : Live(n)' => Live(n)
      BY <3>2 DEF Live
    <3> QED BY <1>0, <2>1, <2>5, <3>2, <3>3, StaysBehind
  <2> QED BY <1>0, <2>3, <2>4, <2>5 DEF Kind
<1>3. ASSUME NEW k \in Kind, StartRun(k) PROVE SeenInv'
  <2>1. /\ row' = row /\ kind' = k /\ scroll' = Waiting(k) /\ pc' = "loop"
        /\ unread' = unread \cup {n \in Of(k) : row[n] = "hidden"}
    BY <1>3 DEF StartRun
  <2> QED BY <2>1 DEF SeenInv, Live, Waiting
<1>4. CASE Taking
  <2>1. PICK n \in Note : TakeNotification(n) \/ TakeMalformed(n)
    BY <1>4 DEF Taking
  <2>2. /\ pc = "loop" /\ pc' \notin {"idle", "truncate"}
        /\ n \in scroll /\ \A m \in scroll : id[n] <= id[m]
        /\ scroll' = scroll \ {n} /\ lastId' = id[n]
        /\ seen' = seen \cup {n}
    BY <2>1 DEF TakeNotification, TakeMalformed, Taken, FirstInScroll
  <2>3. UNCHANGED <<row, id, kind, unread>>
    BY <1>4, TakingFrame DEF outside
  <2> QED BY <2>2, <2>3 DEF SeenInv, Live, Behind
<1>5. CASE RoutingStep
  <2>1. UNCHANGED <<id, kind, scroll, lastId, seen, unread>> /\ pc # "idle"
        /\ pc # "truncate"
    BY <1>5, RoutingStepFrame DEF outside, loop
  <2>2. pc' # "truncate" /\ \A n \in Note : row'[n] = row[n] \/ row'[n] = "routed"
    BY <1>5, <2>1
       DEF RoutingStep, Match, SaveRouted, RepackageFails, SaveRegister, RecordMatch,
           RecordMatchFails, RouteFails, Finally, TypeOK
  <2>3. /\ \A n \in Of(kind) : Live(n)' => Live(n)
        /\ \A n \in Item : row'[n] = "unrouted" => row[n] = "unrouted"
    BY <1>0, <2>2, KindNote DEF Live, Note
  <2> QED BY <1>0, <2>1, <2>2, <2>3, StaysBehind
<1>6. CASE LoopStep
  <2>1. UNCHANGED <<row, id, kind, scroll, lastId, seen, unread>>
    BY <1>6, LoopStepFrame DEF outside, history
  <2>2. CASE FoundLast
    <3>1. pc = "delete" /\ kind = "harvested" /\ IsLast
      BY <2>2 DEF FoundLast
    <3>2. \A i \in Waiting("harvested") : i \in Of(kind) /\ i \in Note /\ id[i] <= lastId
      BY <3>1, KindNote DEF Waiting, IsLast
    <3>3. \A i \in Note : id[i] \in Nat /\ lastId \in Nat
      BY DEF TypeOK
    <3>4. Waiting("harvested") \subseteq seen \cup unread
      <4> SUFFICES ASSUME NEW i \in Waiting("harvested"), i \notin seen \cup unread
                   PROVE  FALSE
        OBVIOUS
      <4>1. CASE i \in scroll
        BY <3>2, <3>3, <4>1 DEF IdInv
      <4>2. CASE i \notin scroll
        BY <3>1, <3>2, <3>3, <4>2 DEF SeenInv, Live, Behind, Waiting
      <4> QED BY <4>1, <4>2
    <3>5. pc' = "truncate"
      BY <2>2 DEF FoundLast
    <3> QED BY <2>1, <3>1, <3>4, <3>5 DEF SeenInv, Live, Behind, Waiting
  <2>3. CASE ~FoundLast
    <3>1. pc # "idle" /\ (pc' # "truncate" \/ pc = "truncate")
      BY <1>6, <2>3 DEF LoopStep, EndLoop, ScrollerError, Signal
    <3> QED BY <2>1, <3>1 DEF SeenInv, Live, Behind, Waiting
  <2> QED BY <2>2, <2>3
<1>7. CASE DeleteFiles
  BY <1>7 DEF DeleteFiles, SeenInv, Live, Behind, outside, loop, history
<1>8. CASE Deletion
  BY <1>8, DeletionFrame DEF SeenInv
<1>9. CASE Stop
  BY <1>9, StopFrame DEF SeenInv
<1>10. CASE UNCHANGED vars
  BY <1>10 DEF vars, tables, loop, history, SeenInv, Live, Behind, Waiting
<1> QED BY <1>1, <1>2, <1>3, <1>4, <1>5, <1>6, <1>7, <1>8, <1>9, <1>10, NextCases

LEMMA DeletedInit == Init => DeletedWereSeen
BY DEF Init, DeletedWereSeen

LEMMA DeletedStep ==
    ASSUME IInv, [Next]_vars
    PROVE  DeletedWereSeen'
<1> USE DEF IInv
<1>1. ASSUME NEW s \in Sub, Sending(s) PROVE DeletedWereSeen'
  <2>1. UNCHANGED <<seen, unread>>
    BY <1>1, SendingFrame DEF history
  <2>2. \A n \in Note :
           row'[n] = "deleted" => \/ row[n] = "deleted" /\ (n \in Sub => sender'[n] = sender[n]
                                                             \/ sender[n] # "refused")
                                  \/ n \in Sub /\ sender'[n] = "refused"
    <3>1. \A n \in Note : Arrived(n) \/ (n \in Sub /\ row[n] \in {"absent", "hidden"})
      BY DEF Arrived, SenderInv
    <3>2. s \in Note /\ \A n \in Note \ {s} : row'[n] = row[n]
      BY <1>1 DEF Sending, InsertNote, CommitNote, StorePackage, StoreFails, RemoveNote,
                  RecordDeposit, RecordFails, SenderCrash, tables, TypeOK, Note
    <3>3. \A n \in Sub : n # s => sender'[n] = sender[n]
      BY <1>1 DEF Sending, InsertNote, CommitNote, StorePackage, StoreFails, RemoveNote,
                  RecordDeposit, RecordFails, SenderCrash, TypeOK
    <3>4. row'[s] = "deleted" => \/ row[s] = "deleted" /\ sender[s] # "refused"
                                 \/ sender'[s] = "refused"
      BY <1>1, <3>2
         DEF Sending, InsertNote, CommitNote, StorePackage, StoreFails, RemoveNote,
             RecordDeposit, RecordFails, SenderCrash, TypeOK, tables, SenderInv
    <3> QED BY <3>2, <3>3, <3>4
  <2> QED BY <2>1, <2>2 DEF DeletedWereSeen
<1>2. ASSUME NEW i \in Item, Harvest(i) PROVE DeletedWereSeen'
  <2>1. /\ row' = [row EXCEPT ![i] = "unrouted"]
        /\ sender' = sender /\ seen' = seen /\ unread \subseteq unread'
    BY <1>2 DEF Harvest
  <2> QED BY <2>1 DEF DeletedWereSeen, TypeOK
<1>3. ASSUME NEW k \in Kind, StartRun(k) PROVE DeletedWereSeen'
  BY <1>3 DEF StartRun, DeletedWereSeen, outside
<1>4. CASE Taking
  BY <1>4, TakingFrame DEF DeletedWereSeen, outside
<1>5. CASE RoutingStep
  <2>1. UNCHANGED <<sender, seen, unread>>
    BY <1>5, RoutingStepFrame DEF outside
  <2>2. \A n \in Note : row'[n] = row[n] \/ row'[n] = "routed"
    BY <1>5 DEF RoutingStep, Match, SaveRouted, RepackageFails, SaveRegister, RecordMatch,
                RecordMatchFails, RouteFails, Finally, TypeOK
  <2> QED BY <2>1, <2>2 DEF DeletedWereSeen
<1>6. CASE LoopStep
  BY <1>6, LoopStepFrame DEF DeletedWereSeen, outside, history
<1>7. CASE DeleteFiles
  BY <1>7 DEF DeleteFiles, DeletedWereSeen, outside, history
<1>8. CASE Deletion
  <2>1. UNCHANGED <<sender, seen, unread>>
    BY <1>8, DeletionFrame DEF history
  <2>2. \A n \in Note : id[n] \in Nat /\ lastId \in Nat
    BY DEF TypeOK
  <2>3. ASSUME pc # "idle", NEW n \in Of(kind), row[n] = "unrouted", id[n] <= lastId
        PROVE  n \in seen \cup unread
    <3>1. n \in Note
      BY KindNote DEF TypeOK
    <3>2. CASE n \in scroll
      BY <2>2, <2>3, <3>1, <3>2 DEF IdInv
    <3>3. CASE n \notin scroll
      BY <2>2, <2>3, <3>1, <3>3 DEF SeenInv, Live, Behind
    <3> QED BY <3>2, <3>3
  <2>4. ASSUME NEW n \in Note, row'[n] = "deleted", row[n] # "deleted"
        PROVE  n \in seen \cup unread
    <3>1. CASE DeleteRows
      <4>1. n \in RowsUpToMax /\ pc = "rows"
        BY <2>4, <3>1 DEF DeleteRows
      <4>2. n \in Sub /\ row[n] = "unrouted"
        BY <4>1 DEF RowsUpToMax
      <4>3. PICK m \in Lists : id[n] <= id[m]
        BY <4>1 DEF RowsUpToMax, Lists
      <4>4. id[m] <= lastId /\ m \in Note
        BY <4>3 DEF ListInv, Lists, TypeOK, Note
      <4>5. id[n] <= lastId
        BY <2>2, <4>3, <4>4
      <4>6. n \in Of(kind)
        BY <4>1, <4>2, KindNote DEF HandInv
      <4> QED BY <2>3, <4>1, <4>2, <4>5, <4>6
    <3>2. CASE DeleteHarvested
      <4>1. n \in Waiting("harvested") /\ id[n] <= lastId /\ pc = "delete"
            /\ kind = "harvested"
        BY <2>4, <3>2 DEF DeleteHarvested
      <4> QED BY <2>3, <4>1 DEF Waiting
    <3>3. CASE TruncateHarvested
      BY <2>4, <3>3 DEF TruncateHarvested, SeenInv
    <3> QED BY <1>8, <3>1, <3>2, <3>3 DEF Deletion
  <2> QED BY <2>1, <2>4 DEF DeletedWereSeen
<1>9. CASE Stop
  BY <1>9, StopFrame DEF DeletedWereSeen, outside
<1>10. CASE UNCHANGED vars
  BY <1>10 DEF vars, tables, history, DeletedWereSeen
<1> QED BY <1>1, <1>2, <1>3, <1>4, <1>5, <1>6, <1>7, <1>8, <1>9, <1>10, NextCases

-----------------------------------------------------------------------------
(***************************************************************************)
(* Packages, deposit records, what repositories are given.                 *)
(***************************************************************************)

LEMMA FilesInit == Init => FilesInv
BY RoutingAssumption DEF Init, FilesInv

LEMMA FilesStep ==
    ASSUME IInv, [Next]_vars
    PROVE  FilesInv'
<1> USE DEF IInv
<1>0. WithPackage \subseteq Sub /\ \A s \in Sub : s \in Note
  BY RoutingAssumption DEF Note
<1>1. ASSUME NEW x \in Sub, Sending(x) PROVE FilesInv'
  <2>1. UNCHANGED <<early, failed, pc, withPkg>>
    BY <1>1, SendingFrame DEF program, history, lists
  <2>2. \A s \in Sub : s # x => row'[s] = row[s] /\ sender'[s] = sender[s]
    BY <1>1 DEF Sending, InsertNote, CommitNote, StorePackage, StoreFails, RemoveNote,
                RecordDeposit, RecordFails, SenderCrash, tables, TypeOK, Note
  <2>3. \A s \in Sub : s # x => (s \in files <=> s \in files')
    BY <1>1 DEF Sending, InsertNote, CommitNote, StorePackage, StoreFails, RemoveNote,
                RecordDeposit, RecordFails, SenderCrash
  <2>4. x \in WithPackage /\ sender'[x] \in {"recording", "acked"} =>
           \/ x \in files'
           \/ /\ sender[x] \in {"recording", "acked"}
              /\ row'[x] = row[x] /\ files' = files
    BY <1>1 DEF Sending, InsertNote, CommitNote, StorePackage, StoreFails, RemoveNote,
                RecordDeposit, RecordFails, SenderCrash, tables, TypeOK
  <2> QED BY <1>0, <2>1, <2>2, <2>3, <2>4 DEF FilesInv
<1>2. ASSUME NEW i \in Item, Harvest(i) PROVE FilesInv'
  <2>1. \A s \in Sub : row'[s] = row[s]
    BY <1>0, <1>2, RoutingAssumption DEF Harvest, TypeOK
  <2> QED BY <1>0, <1>2, <2>1 DEF Harvest, program, lists, FilesInv
<1>3. ASSUME NEW k \in Kind, StartRun(k) PROVE FilesInv'
  BY <1>0, <1>3 DEF StartRun, FilesInv, outside
<1>4. CASE Taking
  <2>1. pc # "rows"
    BY <1>4 DEF Taking, TakeNotification, TakeMalformed, Taken
  <2> QED BY <1>0, <1>4, <2>1, TakingFrame DEF FilesInv, outside
<1>5. CASE RoutingStep
  <2>1. /\ UNCHANGED <<sender, early>> /\ failed \subseteq failed'
        /\ pc # "rows"
    BY <1>5, RoutingStepFrame DEF outside
  <2>2. files' = files
    BY <1>5 DEF RoutingStep, Match, SaveRouted, RepackageFails, SaveRegister, RecordMatch,
                RecordMatchFails, RouteFails, Finally
  <2>3. CASE SaveRouted
    <3>1. \A s \in Sub : s # cur => row'[s] = row[s]
      BY <1>0, <2>3 DEF SaveRouted, TypeOK
    <3>2. cur \in Sub \ early => row[cur] = "unrouted"
      BY <2>3 DEF SaveRouted, HandInv, Routing, Pending
    <3> QED BY <1>0, <2>1, <2>2, <3>1, <3>2 DEF FilesInv
  <2>4. CASE ~SaveRouted
    <3>1. row' = row
      BY <1>5, <2>4 DEF RoutingStep, Match, RepackageFails, SaveRegister, RecordMatch,
                        RecordMatchFails, RouteFails, Finally
    <3> QED BY <2>1, <2>2, <3>1 DEF FilesInv
  <2> QED BY <2>3, <2>4
<1>6. CASE LoopStep
  <2>1. pc' = pc \/ pc # "rows"
    BY <1>6 DEF LoopStep, EndLoop, ScrollerError, FoundLast, Signal
  <2> QED BY <1>6, <2>1, LoopStepFrame DEF FilesInv, outside, lists, history
<1>7. CASE DeleteFiles
  <2>1. /\ pc = "delete" /\ pc' = "rows" /\ files \ withPkg \subseteq files'
        /\ UNCHANGED <<row, sender, withPkg, early, failed>>
    BY <1>7 DEF DeleteFiles, outside, lists, history
  <2>2. \A s \in withPkg : row[s] = "routed" => s \in failed
    BY DEF ListInv, Lists
  <2> QED BY <2>1, <2>2 DEF FilesInv
<1>8. CASE Deletion
  <2>1. UNCHANGED <<sender, files, early, failed>> /\ pc' = "idle"
    BY <1>8, DeletionFrame DEF history
  <2>2. CASE DeleteRows
    <3>1. \A s \in Sub : \/ row'[s] = row[s]
                         \/ row'[s] = "deleted"
      BY <1>0, <2>2 DEF DeleteRows
    <3>2. \A s \in withPkg : row[s] = "unrouted" => row'[s] = "deleted"
      <4>1. \A s \in withPkg : id[s] \in Nat
        BY <1>0 DEF TypeOK
      <4>2. \A s \in withPkg : row[s] = "unrouted" => s \in RowsUpToMax
        BY <1>0, <4>1 DEF RowsUpToMax, TypeOK
      <4> QED BY <1>0, <2>2, <4>2 DEF DeleteRows, TypeOK
    <3> QED BY <1>0, <2>1, <3>1, <3>2 DEF FilesInv
  <2>3. CASE DeleteHarvested \/ TruncateHarvested
    <3>1. \A s \in Sub : row'[s] = row[s]
      BY <1>0, <2>3, KindNote DEF DeleteHarvested, TruncateHarvested, Waiting
    <3>2. pc # "rows"
      BY <2>3 DEF DeleteHarvested, TruncateHarvested
    <3> QED BY <1>0, <2>1, <3>1, <3>2 DEF FilesInv
  <2> QED BY <1>8, <2>2, <2>3 DEF Deletion
<1>9. CASE Stop
  <2>1. UNCHANGED <<row, sender, files, early>>
    BY <1>9, StopFrame DEF outside
  <2>2. pc = "rows" => withPkg \subseteq failed'
    BY <1>9 DEF Stop, NothingToDelete, DeletionFails, Crash
  <2>3. failed \subseteq failed'
    BY <1>9, StopFrame
  <2> QED BY <2>1, <2>2, <2>3 DEF FilesInv
<1>10. CASE UNCHANGED vars
  BY <1>10 DEF vars, tables, history, lists, FilesInv
<1> QED BY <1>1, <1>2, <1>3, <1>4, <1>5, <1>6, <1>7, <1>8, <1>9, <1>10, NextCases

LEMMA RecordInit == Init => RecordInv
BY DEF Init, RecordInv

LEMMA RecordStep ==
    ASSUME IInv, [Next]_vars
    PROVE  RecordInv'
<1> USE DEF IInv
<1>0. \A s \in Sub : s \in Note /\ s # NoNote /\ s \notin Item
  BY RoutingAssumption DEF Note
<1>1. ASSUME NEW x \in Sub, Sending(x) PROVE RecordInv'
  <2>1. UNCHANGED <<early, failed, pc, cur>>
    BY <1>1, SendingFrame DEF program, history, inHand
  <2>2. \A s \in Sub : s # x =>
           row'[s] = row[s] /\ sender'[s] = sender[s] /\ record'[s] = record[s]
    BY <1>1 DEF Sending, InsertNote, CommitNote, StorePackage, StoreFails, RemoveNote,
                RecordDeposit, RecordFails, SenderCrash, tables, TypeOK, Note
  <2>3. CASE RecordDeposit(x)
    <3>1. sender[x] = "recording" /\ record'[x] = "unmatched" /\ row' = row
      BY <2>3 DEF RecordDeposit, tables, TypeOK
    <3>2. x \notin early => row[x] # "routed"
      BY <3>1 DEF SenderInv
    <3> QED BY <2>1, <2>2, <3>1, <3>2 DEF RecordInv
  <2>4. CASE ~RecordDeposit(x)
    <3>1. sender'[x] # "acked" /\ record' = record
      BY <1>1, <2>4 DEF Sending, InsertNote, CommitNote, StorePackage, StoreFails, RemoveNote,
                        RecordFails, SenderCrash, tables, TypeOK
    <3> QED BY <2>1, <2>2, <3>1 DEF RecordInv
  <2> QED BY <2>3, <2>4
<1>2. ASSUME NEW i \in Item, Harvest(i) PROVE RecordInv'
  <2>1. \A s \in Sub : row'[s] = row[s]
    BY <1>0, <1>2 DEF Harvest, TypeOK
  <2> QED BY <1>2, <2>1 DEF Harvest, program, inHand, RecordInv
<1>3. ASSUME NEW k \in Kind, StartRun(k) PROVE RecordInv'
  BY <1>3 DEF StartRun, RecordInv, outside, inHand, Routing
<1>4. CASE Taking
  <2>1. PICK n \in Note : TakeNotification(n) \/ TakeMalformed(n)
    BY <1>4 DEF Taking
  <2>2. /\ pc = "loop" /\ pc' \in {"match", "finally"} /\ cur' = n /\ n \in scroll
        /\ n \in Sub \ early' /\ pc' = "match" => sender[n] = "acked"
    BY <2>1 DEF TakeNotification, TakeMalformed, Taken, FirstInScroll
  <2>3. UNCHANGED <<row, sender, record>> /\ early \subseteq early' /\ failed \subseteq failed'
    BY <1>4, TakingFrame DEF outside
  <2>4. row[n] # "routed"
    BY <2>2 DEF HandInv, Pending
  <2>5. pc \notin Routing
    BY <2>2 DEF Routing
  <2>6. \A s \in Sub \ (early' \cup failed') : s \in Sub \ (early \cup failed)
    BY <2>3
  <2>7. ASSUME NEW s \in Sub \ (early \cup failed)
        PROVE  sender[s] = "acked" => (record[s] = "matched" <=> row[s] = "routed")
    BY <2>5 DEF RecordInv
  <2>8. ASSUME NEW s \in Sub \ (early' \cup failed'), s = n, pc' = "match"
        PROVE  record[s] # "matched"
    BY <2>2, <2>4, <2>6, <2>7, <2>8
  <2> QED BY <2>2, <2>3, <2>6, <2>7, <2>8 DEF RecordInv, Routing
<1>5. CASE RoutingStep
  <2>1. UNCHANGED <<sender, early>> /\ failed \subseteq failed'
    BY <1>5, RoutingStepFrame DEF outside
  <2>2. \A s \in Sub : s # cur => row'[s] = row[s] /\ record'[s] = record[s]
    BY <1>0, <1>5 DEF Marked, RoutingStep, Match, SaveRouted, RepackageFails, SaveRegister,
                      RecordMatch, RecordMatchFails, RouteFails, Finally, TypeOK
  <2>3. cur' = cur \/ cur' = NoNote
    BY <1>5 DEF RoutingStep, Match, SaveRouted, RepackageFails, SaveRegister, RecordMatch,
                RecordMatchFails, RouteFails, Finally, inHand
  <2>4. ASSUME cur \in Sub \ (early \cup failed')
        PROVE  /\ sender[cur] = "acked" /\ ~(cur' = cur /\ pc' \in Routing) =>
                      (record'[cur] = "matched" <=> row'[cur] = "routed")
               /\ cur' = cur /\ pc' \in Routing => record'[cur] # "matched"
    <3>0. cur \notin failed /\ cur \in Note /\ cur # NoNote
      BY <1>0, <2>1, <2>4
    <3>1. CASE Match
      <4>1. pc = "match" /\ cur' = cur /\ row' = row /\ record' = record
        BY <3>1 DEF Match
      <4>2. row[cur] # "routed" /\ record[cur] # "matched"
        BY <2>4, <3>0, <4>1 DEF HandInv, RecordInv, Pending, Routing
      <4> QED BY <4>1, <4>2
    <3>2. CASE SaveRouted
      BY <2>4, <3>0, <3>2 DEF SaveRouted, RecordInv, Routing, inHand
    <3>3. CASE RepackageFails
      BY <2>4, <3>3 DEF RepackageFails
    <3>4. CASE SaveRegister
      BY <2>4, <3>0, <3>4 DEF SaveRegister, RecordInv, Routing, inHand
    <3>5. CASE RecordMatch
      <4>1. pc = "record" /\ pc' = "finally" /\ row' = row
        BY <3>5 DEF RecordMatch
      <4>2. row[cur] = "routed" /\ sender[cur] = "acked"
        BY <2>4, <4>1 DEF HandInv, Routing
      <4>3. record'[cur] = "matched"
        BY <2>4, <3>5, <4>2 DEF RecordMatch, Marked, SenderInv, TypeOK
      <4> QED BY <4>1, <4>2, <4>3 DEF Routing
    <3>6. CASE RecordMatchFails \/ RouteFails
      BY <2>4, <3>6 DEF RecordMatchFails, RouteFails
    <3>7. CASE Finally
      <4>1. pc = "finally" /\ cur' = NoNote /\ row' = row /\ record' = record
        BY <3>7 DEF Finally
      <4> QED BY <2>4, <3>0, <4>1 DEF RecordInv, Routing
    <3> QED BY <1>5, <3>1, <3>2, <3>3, <3>4, <3>5, <3>6, <3>7 DEF RoutingStep
  <2>5. ASSUME NEW s \in Sub \ (early \cup failed'), s # cur
        PROVE  sender[s] = "acked" => (record'[s] = "matched" <=> row'[s] = "routed")
    BY <2>1, <2>2, <2>5 DEF RecordInv
  <2> QED BY <1>0, <2>1, <2>3, <2>4, <2>5 DEF RecordInv
<1>6. CASE LoopStep
  <2>1. (pc \notin Routing /\ pc' \notin Routing) \/ pc' = pc
    BY <1>6 DEF LoopStep, EndLoop, ScrollerError, FoundLast, Signal, Routing
  <2> QED BY <1>6, <2>1, LoopStepFrame DEF RecordInv, outside, inHand, history
<1>7. CASE DeleteFiles
  BY <1>7 DEF DeleteFiles, RecordInv, outside, inHand, history, Routing
<1>8. CASE Deletion
  <2>1. UNCHANGED <<sender, record, early, failed, cur>> /\ pc' = "idle"
        /\ pc \in {"rows", "delete", "truncate"}
    BY <1>8, DeletionFrame DEF history, inHand
  <2>2. \A s \in Sub : row'[s] = row[s] \/ (row[s] = "unrouted" /\ row'[s] = "deleted")
    BY <1>0, <1>8 DEF Deletion, DeleteRows, DeleteHarvested, TruncateHarvested, RowsUpToMax,
                      Waiting
  <2> QED BY <2>1, <2>2 DEF RecordInv, Routing
<1>9. CASE Stop
  <2>1. UNCHANGED <<row, sender, record, early>> /\ failed \subseteq failed' /\ pc' = "idle"
    BY <1>9, StopFrame DEF outside
  <2>2. pc \in Routing => cur \in failed'
    BY <1>9 DEF Stop, NothingToDelete, DeletionFails, Crash, Routing, HandInv
  <2> QED BY <2>1, <2>2 DEF RecordInv, Routing
<1>10. CASE UNCHANGED vars
  BY <1>10 DEF vars, tables, history, inHand, RecordInv
<1> QED BY <1>1, <1>2, <1>3, <1>4, <1>5, <1>6, <1>7, <1>8, <1>9, <1>10, NextCases

LEMMA GivenInit == Init => GivenIsThere
BY DEF Init, GivenIsThere, Note

LEMMA GivenStep ==
    ASSUME IInv, [Next]_vars
    PROVE  GivenIsThere'
<1> USE DEF IInv
<1>0. \A s \in Sub : s \in Note /\ s \notin Item
  BY RoutingAssumption DEF Note
<1>1. ASSUME NEW x \in Sub, Sending(x) PROVE GivenIsThere'
  <2>1. UNCHANGED <<early, given>>
    BY <1>1, SendingFrame DEF program, history
  <2>2. ASSUME NEW s \in Sub \ early, row[s] = "routed" PROVE row'[s] = "routed"
    BY <1>0, <1>1, <2>2, SendingRows DEF SenderInv
  <2> QED BY <2>1, <2>2 DEF GivenIsThere
<1>2. ASSUME NEW i \in Item, Harvest(i) PROVE GivenIsThere'
  <2>1. \A s \in Sub : row'[s] = row[s]
    BY <1>0, <1>2 DEF Harvest, TypeOK
  <2> QED BY <1>2, <2>1 DEF Harvest, program, GivenIsThere
<1>3. ASSUME NEW k \in Kind, StartRun(k) PROVE GivenIsThere'
  BY <1>3 DEF StartRun, GivenIsThere
<1>4. CASE Taking
  BY <1>4, TakingFrame DEF GivenIsThere
<1>5. CASE RoutingStep
  <2>1. early' = early
    BY <1>5, RoutingStepFrame
  <2>2. CASE SaveRouted
    <3>1. \A s \in Sub : s # cur => row'[s] = row[s]
      BY <1>0, <2>2 DEF SaveRouted, TypeOK
    <3>2. cur \in Sub => row'[cur] = "routed"
      BY <1>0, <2>2 DEF SaveRouted, TypeOK
    <3>3. \A r \in Repo, s \in Sub : s # cur => given'[r][s] = given[r][s]
      BY <1>0, <2>2 DEF SaveRouted, TypeOK
    <3> QED BY <2>1, <3>1, <3>2, <3>3 DEF GivenIsThere
  <2>3. CASE ~SaveRouted
    <3>1. row' = row /\ given' = given
      BY <1>5, <2>3 DEF RoutingStep, Match, RepackageFails, SaveRegister, RecordMatch,
                        RecordMatchFails, RouteFails, Finally
    <3> QED BY <2>1, <3>1 DEF GivenIsThere
  <2> QED BY <2>2, <2>3
<1>6. CASE LoopStep
  BY <1>6, LoopStepFrame DEF GivenIsThere, history
<1>7. CASE DeleteFiles
  BY <1>7 DEF DeleteFiles, GivenIsThere, history
<1>8. CASE Deletion
  <2>1. \A s \in Sub : row'[s] = row[s] \/ row[s] = "unrouted"
    BY <1>0, <1>8 DEF Deletion, DeleteRows, DeleteHarvested, TruncateHarvested, RowsUpToMax,
                      Waiting
  <2> QED BY <1>8, <2>1, DeletionFrame DEF GivenIsThere, history
<1>9. CASE Stop
  BY <1>9, StopFrame DEF GivenIsThere
<1>10. CASE UNCHANGED vars
  BY <1>10 DEF vars, tables, history, GivenIsThere
<1> QED BY <1>1, <1>2, <1>3, <1>4, <1>5, <1>6, <1>7, <1>8, <1>9, <1>10, NextCases

LEMMA RegisterInit == Init => RegisterInv
BY DEF Init, RegisterInv, Note

\* Nothing that the register depends on is touched.
LEMMA RegisterKept ==
    ASSUME RegisterInv, UNCHANGED <<register, given>>, failed \subseteq failed',
           pc = "register" => \/ pc' = "register" /\ cur' = cur /\ repos' = repos
                              \/ cur \in failed',
           pc' = "save" => pc = "save" /\ cur' = cur /\ repos' = repos
    PROVE  RegisterInv'
<1>1. ASSUME NEW r \in Repo, NEW m \in Note \ failed', given[r][m] > 0, DoiOf[m] # NoDoi
      PROVE  InRegister(r, m)' \/ (pc' = "register" /\ m = cur' /\ r \in repos')
  <2>1. InRegister(r, m) \/ (pc = "register" /\ m = cur /\ r \in repos)
    BY <1>1 DEF RegisterInv
  <2>2. CASE InRegister(r, m)
    BY <2>2 DEF InRegister
  <2>3. CASE pc = "register" /\ m = cur /\ r \in repos
    BY <1>1, <2>3
  <2> QED BY <2>1, <2>2, <2>3
<1>2. ASSUME pc' = "save", NEW r \in repos' PROVE ~Skipped(cur, r)'
  BY <1>2 DEF RegisterInv, Skipped
<1> QED BY <1>1, <1>2 DEF RegisterInv

LEMMA RegisterStep ==
    ASSUME IInv, [Next]_vars
    PROVE  RegisterInv'
<1> USE DEF IInv
<1>1. ASSUME NEW s \in Sub, Sending(s) PROVE RegisterInv'
  BY <1>1, SendingFrame, RegisterKept DEF program, history, inHand
<1>2. ASSUME NEW i \in Item, Harvest(i) PROVE RegisterInv'
  BY <1>2, RegisterKept DEF Harvest, program, inHand
<1>3. ASSUME NEW k \in Kind, StartRun(k) PROVE RegisterInv'
  BY <1>3, RegisterKept DEF StartRun, inHand
<1>4. CASE Taking
  <2>1. pc = "loop" /\ pc' \in {"match", "finally"}
    BY <1>4 DEF Taking, TakeNotification, TakeMalformed, Taken
  <2> QED BY <1>4, <2>1, TakingFrame, RegisterKept
<1>5. CASE RoutingStep
  <2>1. CASE Match
    <3>1. /\ UNCHANGED <<register, given, failed>>
          /\ pc = "match" /\ pc' \in {"finally", "save"} /\ cur' = cur
          /\ \A r \in repos' : ~Skipped(cur, r)
      BY <2>1 DEF Match, history
    <3> QED BY <3>1 DEF RegisterInv, InRegister, Skipped
  <2>2. CASE SaveRouted
    <3>1. /\ pc = "save" /\ register' = register /\ repos' = repos /\ cur' = cur
          /\ failed' = failed
          /\ pc' = IF DoiOf[cur] = NoDoi THEN "record" ELSE "register"
      BY <2>2 DEF SaveRouted, inHand, history
    <3>2. cur \in Note
      BY <3>1 DEF HandInv, Of, Note
    <3>3. ASSUME NEW r \in Repo, NEW m \in Note, given'[r][m] # given[r][m]
          PROVE  m = cur /\ r \in repos
      BY <2>2, <3>3 DEF SaveRouted, TypeOK
    <3>4. ASSUME NEW r \in Repo, NEW m \in Note \ failed, given'[r][m] > 0, DoiOf[m] # NoDoi
          PROVE  InRegister(r, m)' \/ (pc' = "register" /\ m = cur' /\ r \in repos')
      <4>1. CASE given'[r][m] = given[r][m]
        BY <3>1, <3>4, <4>1 DEF RegisterInv, InRegister
      <4>2. CASE given'[r][m] # given[r][m]
        BY <3>1, <3>3, <3>4, <4>2
      <4> QED BY <4>1, <4>2
    <3> QED BY <3>1, <3>4 DEF RegisterInv
  <2>3. CASE SaveRegister
    <3>1. /\ pc = "register" /\ pc' = "record" /\ UNCHANGED <<given, failed, cur, repos>>
      BY <2>3 DEF SaveRegister, inHand, history
    <3>2. DoiOf[cur] \in Doi
      BY <3>1, RoutingAssumption DEF HandInv, Of, Note
    <3>3. /\ register'[DoiOf[cur]].seen = TRUE
          /\ register'[DoiOf[cur]].pub = (register[DoiOf[cur]].pub \/ cur \in Sub)
          /\ register'[DoiOf[cur]].repos = register[DoiOf[cur]].repos \cup repos
      BY <2>3, <3>2 DEF SaveRegister, TypeOK
    <3>4. \A d \in Doi \ {DoiOf[cur]} : register'[d] = register[d]
      BY <2>3 DEF SaveRegister, TypeOK
    <3>5. ASSUME NEW r \in Repo, NEW m \in Note \ failed, given[r][m] > 0, DoiOf[m] # NoDoi
          PROVE  InRegister(r, m)'
      <4>1. InRegister(r, m) \/ (m = cur /\ r \in repos)
        BY <3>5 DEF RegisterInv
      <4>2. DoiOf[m] \in Doi
        BY <3>5, RoutingAssumption
      <4>3. CASE DoiOf[m] = DoiOf[cur]
        BY <3>3, <4>1, <4>3 DEF InRegister
      <4>4. CASE DoiOf[m] # DoiOf[cur]
        BY <3>4, <4>1, <4>2, <4>4 DEF InRegister
      <4> QED BY <4>3, <4>4
    <3> QED BY <3>1, <3>5 DEF RegisterInv
  <2>4. CASE \/ RepackageFails \/ RecordMatch \/ RecordMatchFails
             \/ RouteFails \/ Finally
    <3>1. UNCHANGED <<register, given>> /\ failed \subseteq failed'
      BY <2>4 DEF RepackageFails, RecordMatch, RecordMatchFails, RouteFails, Finally, history
    <3>2. pc = "register" => cur \in failed'
      BY <2>4 DEF RepackageFails, RecordMatch, RecordMatchFails, RouteFails, Finally
    <3>3. pc' # "save"
      BY <2>4 DEF RepackageFails, RecordMatch, RecordMatchFails, RouteFails, Finally
    <3> QED BY <3>1, <3>2, <3>3, RegisterKept
  <2> QED BY <1>5, <2>1, <2>2, <2>3, <2>4 DEF RoutingStep
<1>6. CASE LoopStep
  <2>1. pc' = pc \/ (pc # "register" /\ pc' # "save")
    BY <1>6 DEF LoopStep, EndLoop, ScrollerError, FoundLast, Signal
  <2> QED BY <1>6, <2>1, LoopStepFrame, RegisterKept DEF history, inHand
<1>7. CASE DeleteFiles
  BY <1>7, RegisterKept DEF DeleteFiles, history
<1>8. CASE Deletion
  BY <1>8, DeletionFrame, RegisterKept DEF history
<1>9. CASE Stop
  <2>1. pc = "register" => cur \in failed'
    BY <1>9 DEF Stop, NothingToDelete, DeletionFails, Crash, HandInv
  <2> QED BY <1>9, <2>1, StopFrame, RegisterKept
<1>10. CASE UNCHANGED vars
  BY <1>10, RegisterKept DEF vars, inHand, history
<1> QED BY <1>1, <1>2, <1>3, <1>4, <1>5, <1>6, <1>7, <1>8, <1>9, <1>10, NextCases

-----------------------------------------------------------------------------
(***************************************************************************)
(* The theorems.                                                           *)
(***************************************************************************)

LEMMA TypeStep ==
    ASSUME IInv, [Next]_vars
    PROVE  TypeOK'
<1> USE DEF IInv
<1>a. /\ cur # NoNote => cur \in Of(kind)
      /\ cur = NoNote => pc \in {"idle", "loop", "delete", "rows", "truncate"}
  BY DEF HandInv
<1>b. pc = "register" => DoiOf[cur] \in Doi
  BY RoutingAssumption DEF HandInv, Of, Note
<1>1. ASSUME NEW s \in Sub, Sending(s) PROVE TypeOK'
  BY <1>1, SendingType
<1>2. ASSUME NEW i \in Item, Harvest(i) PROVE TypeOK'
  BY <1>2, HarvestType
<1>3. ASSUME NEW k \in Kind, StartRun(k) PROVE TypeOK'
  BY <1>3, StartType
<1>4. CASE Taking
  BY <1>4, TakingType
<1>5. CASE RoutingStep
  BY <1>a, <1>b, <1>5, RoutingStepType
<1>6. CASE LoopStep
  BY <1>6, LoopStepType
<1>7. CASE DeleteFiles
  BY <1>7, DeleteFilesType
<1>8. CASE Deletion
  BY <1>8, DeletionType
<1>9. CASE Stop
  BY <1>9, StopType
<1>10. CASE UNCHANGED vars
  BY <1>10 DEF vars, tables, history, loop, inHand, lists, TypeOK
<1> QED BY <1>1, <1>2, <1>3, <1>4, <1>5, <1>6, <1>7, <1>8, <1>9, <1>10, NextCases

LEMMA InitIInv == Init => IInv
BY InitType, SenderInit, HandInit, ListInit, IdInit, SeenInit, FilesInit, RecordInit,
   RegisterInit, DeletedInit, GivenInit
DEF IInv

LEMMA NextIInv ==
    ASSUME IInv, [Next]_vars
    PROVE  IInv'
BY TypeStep, SenderStep, HandStep, ListStep, IdStep, SeenStep, FilesStep, RecordStep,
   RegisterStep, DeletedStep, GivenStep
DEF IInv

\* The inductive invariant.
THEOREM Inductive == Spec => []IInv
<1>1. IInv /\ [Next]_vars => IInv'
  BY NextIInv
<1> QED BY InitIInv, <1>1, PTL DEF Spec

\* Every variable keeps its type.
THEOREM RoutingTypes == Spec => []TypeOK
<1>1. IInv => TypeOK
  BY DEF IInv
<1> QED BY Inductive, <1>1, PTL

\* What _process_unrouted deletes, by "up to this id" or by truncating the table, a
\* run has tried to route or could not read, or its sender has taken back.
THEOREM DeletedSeen == Spec => []DeletedWereSeen
<1>1. IInv => DeletedWereSeen
  BY DEF IInv
<1> QED BY Inductive, <1>1, PTL

\* A routed submission keeps its package: delete_unrouted_notifications_and_files
\* is never handed one, and a sender that has been answered does not remove it.
THEOREM FilesKept == Spec => []RoutedKeepsFiles
<1>1. IInv => RoutedKeepsFiles
  BY RoutingAssumption DEF IInv, RoutedKeepsFiles, FilesInv, SenderInv
<1> QED BY Inductive, <1>1, PTL

\* What is listed for a repository in notification_account is a routed row.
THEOREM GivenThere == Spec => []GivenIsThere
<1>1. IInv => GivenIsThere
  BY DEF IInv
<1> QED BY Inductive, <1>1, PTL

\* The deposit record says "matched" exactly of what has been routed.
THEOREM RecordTrue == Spec => []RecordTellsTruth
<1>1. IInv => RecordTellsTruth
  BY DEF IInv, RecordTellsTruth, RecordInv
<1> QED BY Inductive, <1>1, PTL

LEMMA NoDuplicateStep ==
    ASSUME IInv, Next,
           NEW r \in Repo \ WantsDups, NEW n \in Note, NEW m \in Note \ failed,
           given'[r][n] > given[r][n], given[r][m] > 0,
           DoiOf[m] = DoiOf[n], DoiOf[n] # NoDoi
    PROVE  n \in Sub /\ m \in Item
<1> USE DEF IInv
<1>1. given' # given
  <2>1. given[r][n] \in Nat
    BY DEF TypeOK
  <2> QED BY <2>1
<1>2. SaveRouted
  <2>1. RoutingStep
    <3>1. ~(\E s \in Sub : Sending(s)) /\ ~(\E i \in Item : Harvest(i))
      BY <1>1, SendingFrame DEF Harvest, program
    <3>2. ~(\E k \in Kind : StartRun(k)) /\ ~Taking /\ ~LoopStep /\ ~DeleteFiles
      BY <1>1, TakingFrame, LoopStepFrame DEF StartRun, DeleteFiles
    <3>3. ~Deletion /\ ~Stop
      BY <1>1, DeletionFrame, StopFrame
    <3> QED BY <3>1, <3>2, <3>3, NextCases
  <2> QED BY <1>1, <2>1 DEF RoutingStep, Match, RepackageFails, SaveRegister, RecordMatch,
                           RecordMatchFails, RouteFails, Finally
<1>3. pc = "save" /\ n = cur /\ r \in repos
  <2>1. given[r][n] \in Nat
    BY DEF TypeOK
  <2> QED BY <1>2, <2>1 DEF SaveRouted, TypeOK
<1>4. ~Skipped(n, r)
  BY <1>3 DEF RegisterInv
<1>5. InRegister(r, m)
  BY <1>3 DEF RegisterInv
<1>6. n \in Sub /\ ~register[DoiOf[n]].pub
  BY <1>4, <1>5 DEF Skipped, InRegister
<1>7. m \notin Sub
  BY <1>5, <1>6 DEF InRegister
<1> QED BY <1>6, <1>7 DEF Note

\* check_and_update_doi_register keeps a repository that wants no duplicates from
\* being given an article again, but for the first copy of a publisher after
\* harvested ones.
THEOREM NoDuplicates == Spec => NoUnwantedDuplicate
<1>1. IInv /\ [Next]_vars =>
         [\A r \in Repo \ WantsDups, n \in Note, m \in Note \ failed :
             /\ given'[r][n] > given[r][n] /\ given[r][m] > 0
             /\ DoiOf[m] = DoiOf[n] /\ DoiOf[n] # NoDoi
             => n \in Sub /\ m \in Item]_vars
  <2> SUFFICES ASSUME IInv, Next
               PROVE  \A r \in Repo \ WantsDups, n \in Note, m \in Note \ failed :
                         /\ given'[r][n] > given[r][n] /\ given[r][m] > 0
                         /\ DoiOf[m] = DoiOf[n] /\ DoiOf[n] # NoDoi
                         => n \in Sub /\ m \in Item
    OBVIOUS
  <2> QED BY NoDuplicateStep
<1> QED BY Inductive, <1>1, PTL DEF Spec, NoUnwantedDuplicate

===============================================================================
