--------------------------- MODULE SwordOutProofs ---------------------------
(***************************************************************************)
(* Theorems about SwordOut: the types, the bound on copies, that no        *)
(* notification is passed over, and that SwordOut implements               *)
(* OrderedDelivery.                                                        *)
(***************************************************************************)
EXTENDS SwordOut, TLAPS

-----------------------------------------------------------------------------
(***************************************************************************)
(* Types.  TypeOK needs to know that there is an account, and a            *)
(* notification, while one is being processed.                             *)
(***************************************************************************)

Busy == pc \notin {"idle", "next"}
InHand == pc \in {"email", "emailed", "metadata", "files", "complete", "record"}

TypeInv ==
    /\ TypeOK
    /\ Busy => cur \in Repo
    /\ InHand => note \in Note

LEMMA NewAccountType == NewAccount \in Account
BY DEF NewAccount, Account, Status, NoNote

LEMMA NoPartsType ==
    ASSUME NEW meta \in Outcome, NEW content \in Outcome, NEW completed \in Outcome
    PROVE  /\ NoParts \in Parts
           /\ [NoParts EXCEPT !.meta = meta, !.completed = completed,
                               !.content = content] \in Parts
           /\ [NoParts EXCEPT !.meta = meta, !.completed = completed] \in Parts
           /\ [NoParts EXCEPT !.meta = meta] \in Parts
BY DEF NoParts, Parts, Outcome

LEMMA InitType == Init => TypeInv
<1> SUFFICES ASSUME Init PROVE TypeInv
  OBVIOUS
<1>1. /\ account \in [Repo -> Account]
      /\ mem \in [Repo -> Account]
  BY NewAccountType DEF Init
<1>2. parts \in Parts
  BY NoPartsType DEF Init, Outcome
<1>3. nextNote \in 1 .. MaxNote + 1
  BY SwordOutAssumption DEF Init
<1>4. copies \in [Repo -> [Note -> Nat]]
  BY DEF Init
<1>5. /\ routed \in [Repo -> SUBSET Note]
      /\ late \in [Repo -> SUBSET Note]
      /\ skipped \in [Repo -> SUBSET Note]
  BY DEF Init
<1> QED BY <1>1, <1>2, <1>3, <1>4, <1>5
           DEF Init, TypeInv, TypeOK, NoNote, PC, Busy, InHand

LEMMA RoutedToType ==
    ASSUME TypeInv, NEW n \in Note, NEW repos \in SUBSET Repo, RoutedTo(n, repos)
    PROVE  /\ routed' \in [Repo -> SUBSET Note]
           /\ late' \in [Repo -> SUBSET Note]
           /\ duplicate' \in SUBSET Note
BY DEF TypeInv, TypeOK, RoutedTo

LEMMA RoutingType ==
    ASSUME TypeInv, NEW repos \in SUBSET Repo,
           \/ ReceiveFromPublisher \/ RouteHarvested(repos)
           \/ \E n \in Note : RouteFromPublisher(n, repos)
    PROVE  TypeInv'
<1>1. CASE ReceiveFromPublisher
  BY <1>1, SwordOutAssumption
     DEF TypeInv, TypeOK, ReceiveFromPublisher, run, inHand, admin, Note, Busy, InHand
<1>2. CASE RouteHarvested(repos)
  <2>1. nextNote \in Note BY <1>2, SwordOutAssumption
                             DEF RouteHarvested, TypeInv, TypeOK, Note
  <2>2. /\ routed' \in [Repo -> SUBSET Note]
        /\ late' \in [Repo -> SUBSET Note]
        /\ duplicate' \in SUBSET Note
    BY <1>2, <2>1, RoutedToType DEF RouteHarvested
  <2> QED BY <1>2, <2>1, <2>2, SwordOutAssumption
             DEF TypeInv, TypeOK, RouteHarvested, run, inHand, admin, Note, Busy, InHand
<1>3. ASSUME NEW n \in Note, RouteFromPublisher(n, repos) PROVE TypeInv'
  <2>1. /\ routed' \in [Repo -> SUBSET Note]
        /\ late' \in [Repo -> SUBSET Note]
        /\ duplicate' \in SUBSET Note
    BY <1>3, RoutedToType DEF RouteFromPublisher
  <2> QED BY <1>3, <2>1
             DEF TypeInv, TypeOK, RouteFromPublisher, run, inHand, admin, Busy, InHand
<1> QED BY <1>1, <1>2, <1>3

LEMMA RunType ==
    ASSUME TypeInv, \/ StartRun \/ EndRun
                    \/ \E r \in Repo : SkipAccount(r) \/ BeginAccount(r)
    PROVE  TypeInv'
<1>1. CASE StartRun
  BY <1>1 DEF TypeInv, TypeOK, StartRun, routing, inHand, admin, PC, Busy, InHand
<1>2. CASE EndRun
  BY <1>2 DEF TypeInv, TypeOK, EndRun, routing, inHand, admin, PC, Busy, InHand,
              NewAccount, Account, Status, NoNote
<1>3. ASSUME NEW r \in Repo, SkipAccount(r) PROVE TypeInv'
  BY <1>3 DEF TypeInv, TypeOK, SkipAccount, routing, inHand, admin, PC, Busy, InHand
<1>4. ASSUME NEW r \in Repo, BeginAccount(r) PROVE TypeInv'
  <2>0. mem[r] \in Account BY DEF TypeInv, TypeOK
  <2>1. [mem[r] EXCEPT !.status = "okay"] \in Account BY <2>0 DEF Account, Status
  <2>2. mem' \in [Repo -> Account]
    <3>1. mem' \in {mem, [mem EXCEPT ![r].status = "okay"]}
      BY <1>4 DEF BeginAccount
    <3>2. mem \in [Repo -> Account]
      BY DEF TypeInv, TypeOK
    <3> QED BY <2>1, <3>1, <3>2
  <2>3. save' \in BOOLEAN
    BY <1>4 DEF BeginAccount
  <2> QED BY <1>4, <2>2, <2>3
             DEF TypeInv, TypeOK, BeginAccount, routing, inHand, admin, PC, Busy, InHand
<1> QED BY <1>1, <1>2, <1>3, <1>4

LEMMA LoopType ==
    ASSUME TypeInv, \/ OpenScroller \/ AllSent
                    \/ \E n \in Note : NextNotification(n)
    PROVE  TypeInv'
<1>1. CASE OpenScroller
  BY <1>1 DEF TypeInv, TypeOK, OpenScroller, routing, run, inHand, admin, PC, Busy, InHand
<1>2. CASE AllSent
  <2>1. mem' \in [Repo -> Account]
    BY ZenonT(60), <1>2 DEF TypeInv, TypeOK, AllSent, Account, Status
  <2> QED BY <1>2, <2>1
             DEF TypeInv, TypeOK, AllSent, routing, run, inHand, admin, PC, Busy, InHand
<1>3. ASSUME NEW n \in Note, NextNotification(n) PROVE TypeInv'
  BY <1>3 DEF TypeInv, TypeOK, NextNotification, routing, run, admin, PC, Busy, InHand
<1> QED BY <1>1, <1>2, <1>3

LEMMA GivenType ==
    ASSUME TypeInv, NEW answer \in {"ok", "failed"}, Given(answer)
    PROVE  copies' \in [Repo -> [Note -> Nat]] /\ faults' \in Nat
<1> DEFINE more == [copies EXCEPT ![cur][note] = @ + 1]
<1>1. more \in [Repo -> [Note -> Nat]]
  <2>1. ASSUME NEW r \in Repo PROVE more[r] \in [Note -> Nat]
    <3>1. copies[r] \in [Note -> Nat] /\ \A n \in Note : copies[r][n] + 1 \in Nat
      BY DEF TypeInv, TypeOK
    <3>2. [copies[r] EXCEPT ![note] = @ + 1] \in [Note -> Nat] BY <3>1
    <3>3. more[r] \in {copies[r], [copies[r] EXCEPT ![note] = @ + 1]} BY DEF TypeInv, TypeOK
    <3> QED BY <3>1, <3>2, <3>3
  <2>2. more = [r \in Repo |-> more[r]] BY DEF TypeInv, TypeOK
  <2> QED BY <2>1, <2>2
<1>2. copies' \in {copies, more}
  BY DEF Given
<1>3. faults' \in {faults, faults + 1}
  BY DEF Given, Fault
<1> HIDE DEF more
<1> QED BY <1>1, <1>2, <1>3 DEF TypeInv, TypeOK

LEMMA NotificationType ==
    ASSUME TypeInv, EmailNotification \/ DepositMetadata \/ DepositFiles \/ CompleteDeposit
    PROVE  TypeInv'
<1>1. CASE EmailNotification
  <2>1. copies' \in [Repo -> [Note -> Nat]] /\ faults' \in Nat
    BY <1>1, GivenType DEF EmailNotification
  <2>2. parts' \in Parts
    BY <1>1 DEF EmailNotification, NoParts, Parts, Outcome
  <2> QED BY <1>1, <2>1, <2>2 DEF TypeInv, TypeOK, EmailNotification, routing, run, admin,
                                  PC, Busy, InHand
<1>2. CASE DepositMetadata
  <2>1. copies' \in [Repo -> [Note -> Nat]] /\ faults' \in Nat
    BY <1>2, GivenType DEF DepositMetadata
  <2>2. parts' \in Parts
    BY <1>2 DEF DepositMetadata, NoParts, Parts, Outcome
  <2> QED BY <1>2, <2>1, <2>2 DEF TypeInv, TypeOK, DepositMetadata, routing, run, admin,
                                  PC, Busy, InHand
<1>3. CASE DepositFiles
  BY <1>3 DEF TypeInv, TypeOK, DepositFiles, routing, run, admin, PC, Busy, InHand, Parts,
              Outcome
<1>4. CASE CompleteDeposit
  BY <1>4 DEF TypeInv, TypeOK, CompleteDeposit, routing, run, admin, PC, Busy, InHand,
              Parts, Outcome
<1> QED BY <1>1, <1>2, <1>3, <1>4

\* What happens to an account in memory keeps it an account.
LEMMA FailureType ==
    ASSUME NEW row \in Account, NEW limit \in Nat
    PROVE  WithFailure(row, limit) \in Account
<1>1. row.retries + 1 \in Nat BY DEF Account
<1>2. [row EXCEPT !.status = "failing", !.retries = 0] \in Account
  BY DEF Account, Status
<1>3. [row EXCEPT !.status = "problem", !.retries = @ + 1] \in Account
  BY <1>1 DEF Account, Status
<1> QED BY <1>2, <1>3 DEF WithFailure

LEMMA MarkedType ==
    ASSUME TypeInv, NEW row \in Account
    PROVE  Marked(row) \in Account
BY DEF TypeInv, TypeOK, Marked, Account

LEMMA RecordType ==
    ASSUME TypeInv, InsertRecord \/ SaveAccount
    PROVE  TypeInv'
<1>1. CASE InsertRecord
  <2>1. cur \in Repo /\ note \in Note
    BY <1>1 DEF InsertRecord, TypeInv, Busy, InHand
  <2>2. mem' \in [Repo -> Account]
    <3>1. mem[cur] \in Account BY <2>1 DEF TypeInv, TypeOK
    <3>2. Marked(mem[cur]) \in Account BY <3>1, MarkedType
    <3>3. WithFailure(Marked(mem[cur]), RetryLimit) \in Account
      BY <3>2, FailureType, SwordOutAssumption
    <3> QED BY <1>1, <3>2, <3>3 DEF InsertRecord, TypeInv, TypeOK
  <2>3. records' \in SUBSET Deposit
    BY <1>1, <2>1 DEF InsertRecord, TypeInv, TypeOK, Deposit
  <2> QED BY <1>1, <2>1, <2>2, <2>3
             DEF TypeInv, TypeOK, InsertRecord, routing, admin, PC, Busy, InHand, NoParts,
                 Parts, Outcome, NoNote
<1>2. CASE SaveAccount
  BY <1>2 DEF TypeInv, TypeOK, SaveAccount, routing, inHand, admin, PC, Busy, InHand
<1> QED BY <1>1, <1>2

LEMMA FaultType ==
    ASSUME TypeInv, \/ \E abend \in BOOLEAN : DatabaseError(abend)
                    \/ EmailRecordError \/ UnexpectedError \/ Signal \/ Crash
    PROVE  TypeInv'
<1>1. ASSUME NEW abend \in BOOLEAN, DatabaseError(abend) PROVE TypeInv'
  BY <1>1 DEF TypeInv, TypeOK, DatabaseError, Fault, routing, admin, PC, Busy, InHand,
              NoParts, Parts, Outcome, NoNote
<1>2. CASE EmailRecordError
  <2>1. parts' \in Parts BY <1>2, NoPartsType DEF EmailRecordError, Outcome
  <2> QED BY <1>2, <2>1 DEF TypeInv, TypeOK, EmailRecordError, Fault, routing, run, admin,
                            PC, Busy, InHand
<1>3. CASE UnexpectedError
  <2>1. mem[cur] \in Account BY <1>3 DEF UnexpectedError, TypeInv, TypeOK, Busy
  <2>2. mem' \in [Repo -> Account]
    BY <1>3, <2>1, FailureType DEF UnexpectedError, TypeInv, TypeOK
  <2> QED BY <1>3, <2>2 DEF TypeInv, TypeOK, UnexpectedError, Fault, routing, inHand, admin,
                            PC, Busy, InHand
<1>4. CASE Signal
  BY <1>4 DEF TypeInv, TypeOK, Signal, Fault, routing, inHand, admin, Busy, InHand
<1>5. CASE Crash
  <2>1. mem' \in [Repo -> Account] BY <1>5, NewAccountType DEF Crash
  <2>2. parts' \in Parts BY <1>5, NoPartsType DEF Crash, Outcome
  <2>3. /\ UNCHANGED <<account, routing, records, copies, admin>>
        /\ pc' = "idle" /\ todo' = {} /\ cur' = NoRepo /\ scroll' = {} /\ note' = NoNote
    BY <1>5 DEF Crash
  <2>4. save' \in BOOLEAN /\ killed' \in BOOLEAN
    BY <1>5 DEF Crash
  <2>5. faults' \in Nat
    BY <1>5 DEF Crash, Fault, TypeInv, TypeOK
  <2> QED BY <2>1, <2>2, <2>3, <2>4, <2>5 DEF TypeInv, TypeOK, routing, admin, PC, Busy, InHand, NoNote
<1> QED BY <1>1, <1>2, <1>3, <1>4, <1>5

LEMMA AdministrationType ==
    ASSUME TypeInv, NEW r \in Repo,
           \/ ToggleAccount(r) \/ ToggleRepoStatus(r)
           \/ \E n \in Note : SkipBlockingNote(r, n)
    PROVE  TypeInv'
<1>0. account[r] \in Account BY DEF TypeInv, TypeOK
<1>1. CASE ToggleAccount(r)
  <2>1. WithStatus(account[r], IF account[r].status = "off" THEN "okay" ELSE "off") \in Account
    BY <1>0 DEF WithStatus, Account, Status
  <2>2. account' \in [Repo -> Account]
    BY <1>1, <2>1 DEF TypeInv, TypeOK, ToggleAccount
  <2> QED BY <1>1, <2>2 DEF TypeInv, TypeOK, ToggleAccount, Intervene, routing, run, inHand,
                            Busy, InHand
<1>2. CASE ToggleRepoStatus(r)
  <2>1. WithStatus(account[r], IF account[r].status = "failing" THEN "okay" ELSE "failing") \in Account
    BY <1>0 DEF WithStatus, Account, Status
  <2>2. account' \in [Repo -> Account]
    BY <1>2, <2>1 DEF TypeInv, TypeOK, ToggleRepoStatus
  <2> QED BY <1>2, <2>2 DEF TypeInv, TypeOK, ToggleRepoStatus, Intervene, routing, run,
                            inHand, Busy, InHand
<1>3. ASSUME NEW n \in Note, SkipBlockingNote(r, n) PROVE TypeInv'
  <2>1. SkippedTo(account[r], n) \in Account BY <1>0 DEF SkippedTo, Account, Status
  <2>2. account' \in [Repo -> Account]
    BY <1>3, <2>1 DEF TypeInv, TypeOK, SkipBlockingNote
  <2>3. skipped' \in [Repo -> SUBSET Note]
    BY <1>3 DEF TypeInv, TypeOK, SkipBlockingNote
  <2>4. gui' \in Nat
    BY <1>3 DEF TypeInv, TypeOK, SkipBlockingNote, Intervene
  <2>5. UNCHANGED <<routing, records, copies, pc, mem, run, scroll, inHand, faults>>
    BY <1>3 DEF SkipBlockingNote
  <2> QED BY <2>2, <2>3, <2>4, <2>5
             DEF TypeInv, TypeOK, routing, run, inHand, Busy, InHand
<1> QED BY <1>1, <1>2, <1>3

LEMMA TypeStep == TypeInv /\ [Next]_vars => TypeInv'
<1> SUFFICES ASSUME TypeInv, [Next]_vars PROVE TypeInv'
  OBVIOUS
<1>1. CASE Step
  BY <1>1, RunType, LoopType, NotificationType, RecordType DEF Step
<1>2. CASE Environment
  BY <1>2, RoutingType, FaultType, AdministrationType DEF Environment
<1>3. CASE UNCHANGED vars
  BY <1>3 DEF TypeInv, TypeOK, vars, routing, run, inHand, admin, Busy, InHand
<1> QED BY <1>1, <1>2, <1>3 DEF Next

LEMMA TypeInvariance == Spec => []TypeInv
<1>1. Init => TypeInv BY InitType
<1>2. TypeInv /\ [Next]_vars => TypeInv' BY TypeStep
<1> QED BY <1>1, <1>2, PTL DEF Spec

\* Every variable keeps its type, whatever the accounts, notifications, limits
\* and bounds are.
THEOREM SwordOutTypes == Spec => []TypeOK
<1>1. TypeInv => TypeOK BY DEF TypeInv
<1> QED BY <1>1, TypeInvariance, PTL

-----------------------------------------------------------------------------
(***************************************************************************)
(* Where the program is in the notifications of an account.                *)
(***************************************************************************)

\* Accounts and marks as numbers
LEMMA Numbers ==
    ASSUME TypeInv
    PROVE  /\ Note \subseteq Nat /\ NoNote \in Nat /\ \A n \in Note : n > NoNote
           /\ faults \in Nat
           /\ \A r \in Repo : account[r] \in Account /\ account[r].mark \in Nat
           /\ \A r \in Repo : mem[r] \in Account /\ mem[r].mark \in Nat
           /\ \A r \in Repo, n \in Note : copies[r][n] \in Nat
BY SwordOutAssumption DEF TypeInv, TypeOK, Note, NoNote, Account

\* What the operations on an account do to its mark
LEMMA Marks ==
    ASSUME NEW row \in Account
    PROVE  /\ \A limit \in Nat : WithFailure(row, limit).mark = row.mark
           /\ Marked(row).mark = IF parts.meta = "ok" THEN note ELSE row.mark
           /\ \A status : WithStatus(row, status).mark = row.mark
           /\ \A n \in Note : SkippedTo(row, n).mark = n
           /\ NewAccount.mark = NoNote
BY DEF WithFailure, Marked, WithStatus, SkippedTo, NewAccount, Account

\* The marks in memory change in two actions only.
LEMMA MemMarks ==
    ASSUME TypeInv, [Next]_vars, NEW r \in Repo
    PROVE  \/ mem'[r].mark = mem[r].mark
           \/ StartRun \/ EndRun \/ Crash
           \/ InsertRecord /\ r = cur /\ parts.meta = "ok" /\ mem'[r].mark = note
<1>0. mem[r] \in Account BY Numbers
<1>1. ASSUME NEW s \in Repo, BeginAccount(s) PROVE mem'[r].mark = mem[r].mark
  <2>1. mem'[r] \in {mem[r], [mem[r] EXCEPT !.status = "okay"]}
    BY <1>1 DEF BeginAccount, TypeInv, TypeOK
  <2>2. [mem[r] EXCEPT !.status = "okay"].mark = mem[r].mark
    BY <1>0 DEF Account
  <2> QED BY <2>1, <2>2
<1>2. CASE AllSent
  BY <1>0, <1>2 DEF AllSent, Account, TypeInv, TypeOK
<1>3. CASE InsertRecord
  <2>1. mem'[r] \in {mem[r], Marked(mem[r]), WithFailure(Marked(mem[r]), RetryLimit)}
    BY <1>3 DEF InsertRecord, TypeInv, TypeOK
  <2>2. r # cur => mem'[r] = mem[r]
    BY <1>3 DEF InsertRecord, TypeInv, TypeOK
  <2>3. Marked(mem[r]) \in Account
    BY <1>0, MarkedType
  <2>4. r = cur => mem'[r].mark = Marked(mem[r]).mark
    <3>1. r = cur => mem'[r] \in {Marked(mem[r]), WithFailure(Marked(mem[r]), RetryLimit)}
      BY <1>3 DEF InsertRecord, TypeInv, TypeOK
    <3> QED BY <3>1, <2>3, Marks, SwordOutAssumption
  <2> QED BY <1>0, <1>3, <2>2, <2>4, Marks
<1>4. CASE UnexpectedError
  <2>1. mem'[r] \in {mem[r], WithFailure(mem[r], 0)}
    BY <1>4 DEF UnexpectedError, TypeInv, TypeOK
  <2> QED BY <1>0, <2>1, Marks
<1>5. CASE UNCHANGED mem
  BY <1>5
<1> QED BY <1>1, <1>2, <1>3, <1>4, <1>5
        DEF Next, Step, Environment, vars, ReceiveFromPublisher, RouteHarvested,
            RouteFromPublisher, SkipAccount, OpenScroller, NextNotification,
            EmailNotification, DepositMetadata, DepositFiles, CompleteDeposit, SaveAccount,
            DatabaseError, EmailRecordError, Signal, ToggleAccount, ToggleRepoStatus,
            SkipBlockingNote

\* Switching an account off or on leaves its mark alone.
LEMMA ToggleMarks ==
    ASSUME TypeInv, NEW r \in Repo, ToggleAccount(r) \/ ToggleRepoStatus(r)
    PROVE  \A q \in Repo : account'[q].mark = account[q].mark
<1>0. account[r] \in Account /\ account \in [Repo -> Account]
  BY DEF TypeInv, TypeOK
<1>1. CASE ToggleAccount(r)
  <2>1. account'[r] = WithStatus(account[r],
                                 IF account[r].status = "off" THEN "okay" ELSE "off")
    BY <1>0, <1>1 DEF ToggleAccount
  <2>2. account'[r].mark = account[r].mark BY <1>0, <2>1, Marks
  <2> QED BY <1>0, <1>1, <2>2 DEF ToggleAccount
<1>2. CASE ToggleRepoStatus(r)
  <2>1. account'[r] = WithStatus(account[r],
                                 IF account[r].status = "failing" THEN "okay" ELSE "failing")
    BY <1>0, <1>2 DEF ToggleRepoStatus
  <2>2. account'[r].mark = account[r].mark BY <1>0, <2>1, Marks
  <2> QED BY <1>0, <1>2, <2>2 DEF ToggleRepoStatus
<1> QED BY <1>1, <1>2

\* The account being processed is not looked at again in the same run; the
\* notification in hand is beyond the mark, those to come are beyond it.
Ahead ==
    /\ Busy => cur \notin todo
    /\ pc = "scroll" => \A m \in scroll : m > mem[cur].mark
    /\ InHand => note > mem[cur].mark /\ \A m \in scroll : m > note

LEMMA AheadStep ==
    ASSUME TypeInv, Ahead, [Next]_vars
    PROVE  Ahead'
<1> USE DEF Busy, InHand
<1>1. CASE StartRun \/ EndRun \/ Crash
  BY <1>1 DEF StartRun, EndRun, Crash, Ahead
<1>2. ASSUME NEW r \in Repo, SkipAccount(r) \/ BeginAccount(r) PROVE Ahead'
  BY <1>2 DEF SkipAccount, BeginAccount, Ahead
<1>3. CASE OpenScroller
  BY <1>3 DEF OpenScroller, run, Ahead, MarkOf
<1>4. ASSUME NEW n \in Note, NextNotification(n) PROVE Ahead'
  <2>1. \A m \in scroll' : m > n
    <3>1. \A m \in scroll' : m \in Note /\ n <= m /\ m # n
      BY <1>4 DEF NextNotification, FirstInScroll, TypeInv, TypeOK
    <3> QED BY <3>1, Numbers
  <2> QED BY <1>4, <2>1 DEF NextNotification, FirstInScroll, run, Ahead
<1>5. CASE AllSent
  BY <1>5 DEF AllSent, run, Ahead
<1>6. CASE EmailNotification \/ DepositMetadata \/ DepositFiles \/ CompleteDeposit
  BY <1>6 DEF EmailNotification, DepositMetadata, DepositFiles, CompleteDeposit, run, Ahead
<1>7. CASE InsertRecord
  <2>1. cur \in Repo BY <1>7 DEF InsertRecord, TypeInv
  <2>2. mem'[cur].mark = mem[cur].mark \/ mem'[cur].mark = note
    BY <1>7, <2>1, MemMarks DEF InsertRecord, StartRun, EndRun, Crash, TypeInv, TypeOK
  <2>3. \A m \in scroll' : m \in Note /\ m > note /\ m > mem[cur].mark
    BY <1>7, <2>1, Numbers DEF InsertRecord, Ahead, TypeInv, TypeOK
  <2> QED BY <1>7, <2>2, <2>3 DEF InsertRecord, Ahead
<1>8. CASE SaveAccount
  BY <1>8 DEF SaveAccount, Ahead
<1>9. CASE UnexpectedError \/ Signal
  BY <1>9 DEF UnexpectedError, Signal, inHand, Ahead
<1>10. ASSUME NEW abend \in BOOLEAN, DatabaseError(abend) PROVE Ahead'
  BY <1>10 DEF DatabaseError, Ahead
<1>11. CASE EmailRecordError
  BY <1>11 DEF EmailRecordError, run, Ahead
<1>12. CASE UNCHANGED <<pc, mem, run, scroll, note>>
  BY <1>12 DEF run, Ahead
<1> QED BY <1>1, <1>2, <1>3, <1>4, <1>5, <1>6, <1>7, <1>8, <1>9, <1>10, <1>11, <1>12
        DEF Next, Step, Environment, vars, inHand, ReceiveFromPublisher, RouteHarvested,
            RouteFromPublisher, ToggleAccount, ToggleRepoStatus, SkipBlockingNote

-----------------------------------------------------------------------------
(***************************************************************************)
(* The bound on copies.  A notification beyond the mark was delivered at   *)
(* most as often as there were faults; the mark in question is that of the *)
(* table for an account nobody is processing, that in memory for one the   *)
(* current run processes or has still to process.                          *)
(***************************************************************************)

\* The notification in hand was delivered, but the mark does not show it yet.
Delivered == pc \in {"emailed", "files", "complete", "record"} /\ parts.meta = "ok"

InSession(r) == r \in todo \/ (Busy /\ r = cur)

Settled ==
    \A r \in Repo, n \in Note :
        ~ (Busy /\ r = cur) /\ n > account[r].mark => copies[r][n] <= faults

Pending ==
    \A r \in Repo, n \in Note :
        InSession(r) /\ n > mem[r].mark
        => copies[r][n] <= faults \/ (Delivered /\ r = cur /\ n = note)

\* Until there is something to save, the mark in memory is not beyond that of the
\* table, though administrators may have moved the latter.
Behind ==
    \A r \in Repo : r \in todo \/ (Busy /\ r = cur /\ ~ save)
        => mem[r].mark <= account[r].mark

CopyInv == TypeInv /\ Ahead /\ CopiesBounded /\ Settled /\ Pending /\ Behind

LEMMA InitCopies == Init => CopyInv
<1> SUFFICES ASSUME Init PROVE CopyInv
  OBVIOUS
<1>1. TypeInv BY InitType
<1>2. Ahead BY DEF Init, Ahead, Busy, InHand
<1>3. \A r \in Repo, n \in Note : copies[r][n] = 0 /\ faults = 0
  BY DEF Init
<1>4. Behind BY DEF Init, Behind, Busy
<1> QED BY <1>1, <1>2, <1>3, <1>4 DEF CopyInv, CopiesBounded, Settled, Pending

\* After a fault the bound has grown by one, and everything is below it.
LEMMA FaultCopies ==
    ASSUME CopyInv, TypeInv', Ahead', faults' = faults + 1,
           \A r \in Repo, n \in Note :
               \/ copies'[r][n] = copies[r][n]
               \/ copies[r][n] <= faults /\ copies'[r][n] = copies[r][n] + 1,
           Behind'
    PROVE  CopyInv'
<1>1. \A r \in Repo, n \in Note : copies'[r][n] <= faults'
  BY Numbers DEF CopyInv, CopiesBounded
<1>2. \A r \in Repo, n \in Note : copies'[r][n] \in Nat /\ faults' \in Nat
  BY DEF TypeInv, TypeOK
<1> QED BY <1>1, <1>2 DEF CopyInv, CopiesBounded, Settled, Pending

\* A step that leaves marks and copies alone.
LEMMA SameMarksCopies ==
    ASSUME CopyInv, TypeInv', Ahead', UNCHANGED <<copies, faults>>,
           \A r \in Repo : account'[r].mark = account[r].mark,
           \A r \in Repo : InSession(r)' => InSession(r) /\ mem'[r].mark = mem[r].mark,
           \A r \in Repo : ~ (Busy' /\ r = cur') => ~ (Busy /\ r = cur),
           Delivered => Delivered' /\ note' = note /\ cur' = cur,
           Behind'
    PROVE  CopyInv'
<1>1. CopiesBounded' BY DEF CopyInv, CopiesBounded
<1>2. Settled' BY DEF CopyInv, Settled
<1>3. Pending' BY DEF CopyInv, Pending
<1> QED BY <1>1, <1>2, <1>3 DEF CopyInv

\* The steps of the program between the beginning of an account and its end, the
\* one that marks a notification excepted.
LEMMA BehindStep ==
    ASSUME CopyInv, [Next]_vars
    PROVE  Behind'
<1> USE DEF Busy
<1>0. \A r \in Repo : account[r].mark \in Nat /\ mem[r].mark \in Nat
  BY Numbers DEF CopyInv
<1>1. CASE StartRun
  BY <1>0, <1>1 DEF StartRun, Behind
<1>2. CASE EndRun \/ Crash
  BY <1>2 DEF EndRun, Crash, Behind
<1>3. CASE InsertRecord
  <2>1. \A r \in Repo : r \in todo => mem'[r].mark = mem[r].mark
    BY <1>3, MemMarks
       DEF CopyInv, Ahead, InsertRecord, StartRun, EndRun, Crash, TypeInv, TypeOK
  <2> QED BY <1>3, <2>1 DEF InsertRecord, CopyInv, Behind
<1>4. CASE SaveAccount
  <2>1. \A r \in todo : r \in Repo /\ account'[r] = account[r]
    BY <1>4 DEF SaveAccount, CopyInv, Ahead, TypeInv, TypeOK
  <2> QED BY <1>4, <2>1 DEF SaveAccount, CopyInv, Behind
<1>5. ASSUME NEW r \in Repo, ToggleAccount(r) \/ ToggleRepoStatus(r) PROVE Behind'
  <2>1. \A q \in Repo : account'[q].mark = account[q].mark
    BY <1>5, ToggleMarks DEF CopyInv
  <2> QED BY <1>5, <2>1 DEF ToggleAccount, ToggleRepoStatus, run, CopyInv, Behind
<1>6. ASSUME NEW r \in Repo, NEW n \in Note, SkipBlockingNote(r, n) PROVE Behind'
  <2>1. \A q \in Repo : account'[q].mark \in Nat /\ account'[q].mark >= account[q].mark
    BY <1>0, <1>6, Marks, Numbers DEF SkipBlockingNote, CopyInv, TypeInv, TypeOK
  <2> QED BY <1>0, <1>6, <2>1 DEF SkipBlockingNote, run, CopyInv, Behind
<1>7. ASSUME NEW r \in Repo, SkipAccount(r) \/ BeginAccount(r) PROVE Behind'
  <2>1. \A q \in Repo : mem'[q].mark = mem[q].mark
    BY <1>7, MemMarks DEF SkipAccount, BeginAccount, StartRun, EndRun, Crash, InsertRecord,
                          CopyInv
  <2> QED BY <1>7, <2>1 DEF SkipAccount, BeginAccount, CopyInv, Behind
<1>8. CASE /\ UNCHANGED account
           /\ \A r \in Repo : mem'[r].mark = mem[r].mark
           /\ todo' \subseteq todo
           /\ cur' = cur
           /\ Busy' => Busy
           /\ save' = save \/ save'
  BY <1>8 DEF CopyInv, Behind
<1>9. CASE /\ ~ (StartRun \/ EndRun \/ Crash \/ InsertRecord \/ SaveAccount)
           /\ ~ \E r \in Repo : \/ ToggleAccount(r) \/ ToggleRepoStatus(r)
                                \/ SkipAccount(r) \/ BeginAccount(r)
                                \/ \E n \in Note : SkipBlockingNote(r, n)
  <2>1. \A r \in Repo : mem'[r].mark = mem[r].mark
    BY <1>9, MemMarks DEF CopyInv
  <2>2. /\ UNCHANGED account /\ todo' \subseteq todo /\ cur' = cur /\ (Busy' => Busy)
        /\ save' = save \/ save'
    BY <1>9 DEF Next, Step, Environment, vars, run, ReceiveFromPublisher, RouteHarvested,
                RouteFromPublisher, OpenScroller, NextNotification, AllSent,
                EmailNotification, DepositMetadata, DepositFiles, CompleteDeposit,
                DatabaseError, EmailRecordError, UnexpectedError, Signal
  <2> QED BY <1>8, <2>1, <2>2
<1> QED BY <1>1, <1>2, <1>3, <1>4, <1>5, <1>6, <1>7, <1>9


LEMMA GivenCopies ==
    ASSUME CopyInv, TypeInv', Ahead', Behind', EmailNotification \/ DepositMetadata
    PROVE  CopyInv'
<1> DEFINE Once == \A r \in Repo, n \in Note :
                       copies'[r][n] = IF r = cur /\ n = note THEN copies[r][n] + 1
                                                              ELSE copies[r][n]
<1>1. cur \in Repo /\ note \in Note /\ copies \in [Repo -> [Note -> Nat]]
  BY DEF CopyInv, TypeInv, TypeOK, EmailNotification, DepositMetadata, Busy, InHand
<1>2. ~ Delivered /\ note > mem[cur].mark /\ InSession(cur)
  BY DEF CopyInv, Ahead, EmailNotification, DepositMetadata, Delivered, Busy, InHand,
         InSession
<1>3. copies[cur][note] <= faults
  BY <1>1, <1>2 DEF CopyInv, Pending
<1>4. \/ Once /\ faults' = faults /\ parts'.meta = "ok"
      \/ UNCHANGED <<copies, faults>> /\ parts'.meta # "ok"
      \/ Once /\ faults' = faults + 1
  <2>1. ASSUME NEW answer \in {"ok", "failed"}, Given(answer), parts'.meta = answer
        PROVE  \/ Once /\ faults' = faults /\ parts'.meta = "ok"
               \/ UNCHANGED <<copies, faults>> /\ parts'.meta # "ok"
               \/ Once /\ faults' = faults + 1
    BY <1>1, <2>1 DEF Given, Fault
  <2>2. \E answer \in {"ok", "failed"} : Given(answer) /\ parts'.meta = answer
    BY DEF EmailNotification, DepositMetadata, NoParts
  <2> QED BY <2>1, <2>2
<1>5. /\ pc' \in {"emailed", "files", "record"}
      /\ UNCHANGED <<account, mem, todo, cur, note>>
      /\ Busy /\ Busy'
  BY DEF EmailNotification, DepositMetadata, run, Busy
<1>6. CASE Once /\ faults' = faults + 1
  BY <1>3, <1>6, FaultCopies
<1>7. CASE UNCHANGED <<copies, faults>>
  BY <1>2, <1>5, <1>7, SameMarksCopies DEF InSession
<1>8. CASE Once /\ faults' = faults /\ parts'.meta = "ok"
  <2>1. Delivered' BY <1>5, <1>8 DEF Delivered
  <2>2. CopiesBounded'
    <3>1. faults \in Nat /\ faults' = faults BY <1>8, Numbers DEF CopyInv
    <3> QED BY <1>3, <1>8, <3>1, Numbers DEF CopyInv, CopiesBounded
  <2>3. Settled' BY <1>5, <1>8 DEF CopyInv, Settled
  <2>4. Pending' BY <1>2, <1>5, <1>8, <2>1 DEF CopyInv, Pending, InSession
  <2> QED BY <2>2, <2>3, <2>4 DEF CopyInv
<1> QED BY <1>4, <1>6, <1>7, <1>8

LEMMA InsertRecordCopies ==
    ASSUME CopyInv, TypeInv', Ahead', Behind', InsertRecord
    PROVE  CopyInv'
<1>1. cur \in Repo /\ note \in Note
  BY DEF CopyInv, TypeInv, InsertRecord, Busy, InHand
<1>2. \A r \in Repo : \/ mem'[r].mark = mem[r].mark
                      \/ r = cur /\ parts.meta = "ok" /\ mem'[r].mark = note
  BY MemMarks DEF CopyInv, InsertRecord, StartRun, EndRun, Crash, Next, Step
<1>3. mem'[cur].mark = IF parts.meta = "ok" THEN note ELSE mem[cur].mark
  <2>1. mem[cur] \in Account BY <1>1, Numbers DEF CopyInv
  <2>2. Marked(mem[cur]) \in Account BY <2>1, MarkedType DEF CopyInv
  <2>3. mem'[cur] \in {Marked(mem[cur]), WithFailure(Marked(mem[cur]), RetryLimit)}
    BY <1>1 DEF InsertRecord, CopyInv, TypeInv, TypeOK
  <2> QED BY <2>1, <2>2, <2>3, Marks, SwordOutAssumption
<1>4. /\ UNCHANGED <<account, copies, todo, cur, faults>>
      /\ Busy /\ Busy' /\ note > mem[cur].mark
  BY DEF InsertRecord, CopyInv, Ahead, Busy, InHand
<1>5. CopiesBounded' BY <1>4 DEF CopyInv, CopiesBounded
<1>6. Settled' BY <1>4 DEF CopyInv, Settled
<1>7. Pending'
  <2> SUFFICES ASSUME NEW r \in Repo, NEW n \in Note, InSession(r), n > mem'[r].mark
               PROVE  copies[r][n] <= faults
    BY <1>4 DEF Pending, InSession
  <2>1. CASE r # cur
    BY <1>2, <2>1 DEF CopyInv, Pending
  <2>2. CASE r = cur /\ parts.meta # "ok"
    BY <1>3, <2>2 DEF CopyInv, Pending, Delivered
  <2>3. CASE r = cur /\ parts.meta = "ok"
    <3>1. n > note /\ n > mem[cur].mark
      BY <1>1, <1>3, <1>4, <2>3, Numbers DEF CopyInv
    <3> QED BY <1>1, <2>3, <3>1, Numbers DEF CopyInv, Pending
  <2> QED BY <2>1, <2>2, <2>3
<1> QED BY <1>5, <1>6, <1>7 DEF CopyInv

LEMMA SaveAccountCopies ==
    ASSUME CopyInv, TypeInv', Ahead', Behind', SaveAccount
    PROVE  CopyInv'
<1>1. cur \in Repo /\ Busy /\ ~ Busy' /\ ~ Delivered
  BY DEF CopyInv, TypeInv, SaveAccount, Busy, Delivered
<1>2. UNCHANGED <<copies, faults, mem, todo>>
  BY DEF SaveAccount
<1>3. CopiesBounded' BY <1>2 DEF CopyInv, CopiesBounded
<1>4. Settled'
  <2> SUFFICES ASSUME NEW r \in Repo, NEW n \in Note, n > account'[r].mark
               PROVE  copies[r][n] <= faults
    BY <1>2 DEF Settled
  <2>1. CASE r # cur
    <3>1. account'[r] = account[r]
      BY <1>1, <2>1 DEF SaveAccount, CopyInv, TypeInv, TypeOK
    <3> QED BY <2>1, <3>1 DEF CopyInv, Settled
  <2>2. CASE r = cur
    <3>1. \/ account'[r] = mem[r]
          \/ account'[r] = account[r] /\ mem[r].mark <= account[r].mark
      BY <1>1, <2>2 DEF SaveAccount, CopyInv, Behind, TypeInv, TypeOK
    <3>2. n > mem[r].mark
      BY <3>1, Numbers DEF CopyInv
    <3> QED BY <1>1, <2>2, <3>2 DEF CopyInv, Pending, InSession
  <2> QED BY <2>1, <2>2
<1>5. Pending' BY <1>1, <1>2 DEF CopyInv, Pending, InSession
<1> QED BY <1>3, <1>4, <1>5 DEF CopyInv

LEMMA AdministrationCopies ==
    ASSUME CopyInv, TypeInv', Ahead', Behind', NEW r \in Repo,
           \/ ToggleAccount(r) \/ ToggleRepoStatus(r)
           \/ \E n \in Note : SkipBlockingNote(r, n)
    PROVE  CopyInv'
<1>1. UNCHANGED <<copies, pc, mem, todo, cur, note, parts, faults>>
  BY DEF ToggleAccount, ToggleRepoStatus, SkipBlockingNote, run, inHand
<1>2. \A q \in Repo : /\ account'[q].mark \in Nat
                      /\ account'[q].mark >= account[q].mark
  <2>1. CASE ToggleAccount(r) \/ ToggleRepoStatus(r)
    BY <2>1, ToggleMarks, Numbers DEF CopyInv
  <2>2. ASSUME NEW n \in Note, SkipBlockingNote(r, n)
        PROVE  \A q \in Repo : account'[q].mark \in Nat /\ account'[q].mark >= account[q].mark
    BY <2>2, Marks, Numbers DEF SkipBlockingNote, CopyInv, TypeInv, TypeOK
  <2> QED BY <2>1, <2>2
<1>3. CopiesBounded' BY <1>1 DEF CopyInv, CopiesBounded
<1>4. Settled' BY <1>1, <1>2, Numbers DEF CopyInv, Settled, Busy
<1>5. Pending' BY <1>1 DEF CopyInv, Pending, InSession, Busy, Delivered
<1> QED BY <1>3, <1>4, <1>5 DEF CopyInv

LEMMA CopyStep == CopyInv /\ [Next]_vars => CopyInv'
<1> SUFFICES ASSUME CopyInv, [Next]_vars PROVE CopyInv'
  OBVIOUS
<1>0. TypeInv' /\ Ahead' /\ Behind'
  BY TypeStep, AheadStep, BehindStep DEF CopyInv
<1>1. CASE StartRun
  BY <1>0, <1>1 DEF StartRun, CopyInv, CopiesBounded, Settled, Pending, InSession, Busy
<1>2. CASE EndRun
  BY <1>0, <1>2 DEF EndRun, CopyInv, CopiesBounded, Settled, Pending, InSession, Busy
<1>3. ASSUME NEW r \in Repo, SkipAccount(r) \/ BeginAccount(r) PROVE CopyInv'
  <2>1. \A q \in Repo : mem'[q].mark = mem[q].mark
    BY <1>3, MemMarks DEF SkipAccount, BeginAccount, StartRun, EndRun, Crash, InsertRecord,
                          CopyInv
  <2> QED BY <1>0, <1>3, <2>1, SameMarksCopies
             DEF SkipAccount, BeginAccount, InSession, Busy, Delivered
<1>4. ASSUME \/ OpenScroller \/ AllSent \/ DepositFiles \/ CompleteDeposit
             \/ \E n \in Note : NextNotification(n)
      PROVE  CopyInv'
  <2>1. \A q \in Repo : mem'[q].mark = mem[q].mark
    BY <1>4, MemMarks DEF OpenScroller, AllSent, DepositFiles, CompleteDeposit,
                          NextNotification, StartRun, EndRun, Crash, InsertRecord, CopyInv
  <2>2. /\ UNCHANGED <<account, copies, faults, todo, cur>> /\ Busy /\ Busy'
        /\ Delivered => Delivered' /\ note' = note
    BY <1>4 DEF OpenScroller, AllSent, DepositFiles, CompleteDeposit, NextNotification,
                run, inHand, Busy, Delivered, CopyInv, TypeInv, TypeOK, Parts
  <2> QED BY <1>0, <2>1, <2>2, SameMarksCopies DEF InSession
<1>5. CASE EmailNotification \/ DepositMetadata
  BY <1>0, <1>5, GivenCopies
<1>6. CASE InsertRecord
  BY <1>0, <1>6, InsertRecordCopies
<1>7. CASE SaveAccount
  BY <1>0, <1>7, SaveAccountCopies
<1>8. CASE \/ \E abend \in BOOLEAN : DatabaseError(abend)
           \/ EmailRecordError \/ UnexpectedError \/ Signal \/ Crash
  <2>1. UNCHANGED copies /\ faults' = faults + 1
    BY <1>8 DEF DatabaseError, EmailRecordError, UnexpectedError, Signal, Crash, Fault
  <2> QED BY <1>0, <2>1, FaultCopies
<1>9. ASSUME NEW r \in Repo, \/ ToggleAccount(r) \/ ToggleRepoStatus(r)
                             \/ \E n \in Note : SkipBlockingNote(r, n)
      PROVE  CopyInv'
  BY <1>0, <1>9, AdministrationCopies
<1>10. ASSUME UNCHANGED <<account, copies, faults, pc, mem, todo, cur, note, parts>>
       PROVE  CopyInv'
  BY <1>0, <1>10 DEF CopyInv, CopiesBounded, Settled, Pending, InSession, Busy, Delivered
<1> QED BY <1>1, <1>2, <1>3, <1>4, <1>5, <1>6, <1>7, <1>8, <1>9, <1>10
        DEF Next, Step, Environment, vars, run, inHand, ReceiveFromPublisher,
            RouteHarvested, RouteFromPublisher

\* Without faults a repository gets no notification twice, and each fault costs
\* at most one more copy, whatever administrators do in between.
THEOREM CopiesPerFault == Spec => []CopiesBounded
<1>1. Init => CopyInv BY InitCopies
<1>2. CopyInv /\ [Next]_vars => CopyInv' BY CopyStep
<1>3. CopyInv => CopiesBounded BY DEF CopyInv
<1> QED BY <1>1, <1>2, <1>3, PTL DEF Spec

-----------------------------------------------------------------------------
(***************************************************************************)
(* The inductive invariant.  A notification that is routed in order comes  *)
(* after all there are, so after whatever a mark, a record of a deposit or *)
(* the program in its loop has reached.                                    *)
(***************************************************************************)

Wanted(r) == routed[r] \ late[r]

\* An id is given once, and waits to be routed or is routed.
Ids ==
    /\ unrouted \subseteq 1 .. nextNote - 1
    /\ \A r \in Repo : routed[r] \subseteq (1 .. nextNote - 1) \ unrouted

\* Marks, deposit records and what the program holds are routed notifications.
Known ==
    /\ \A r \in Repo : /\ account[r].mark \in routed[r] \cup {NoNote}
                       /\ mem[r].mark \in routed[r] \cup {NoNote}
    /\ \A d \in records : d.note \in routed[d.repo]
    /\ pc = "scroll" => scroll \subseteq routed[cur]
    /\ InHand => note \in routed[cur] /\ scroll \subseteq routed[cur]

\* Nothing is passed over by the marks in memory, nor by a deposit, be it one that
\* failed, which is what an administrator may skip.
MemPassed ==
    \A r \in Repo : \A n \in Wanted(r) : n <= mem[r].mark => n \in Handled(r)

Tried ==
    \A d \in records : \A n \in Wanted(d.repo) : n < d.note => n \in Handled(d.repo)

\* The loop omits nothing: what the scroller no longer has is dealt with, or in
\* hand, and what it never had comes after all it has.
Following ==
    /\ pc = "scroll" =>
          \A n \in Wanted(cur) \ scroll : n > mem[cur].mark => \A m \in scroll : n > m
    /\ InHand =>
          \A n \in Wanted(cur) : n > mem[cur].mark =>
              /\ n >= note
              /\ n # note /\ n \notin scroll => \A m \in scroll : n > m
    /\ Delivered => note \in Handled(cur)
    /\ pc \in {"emailed", "files", "complete", "record"} => parts.meta # "none"

OrderInv ==
    /\ TypeInv /\ Ahead /\ Ids /\ Known
    /\ NothingPassedOver /\ MemPassed /\ Tried /\ Following

LEMMA InitOrder == Init => OrderInv
<1> SUFFICES ASSUME Init PROVE OrderInv
  OBVIOUS
<1>1. TypeInv BY InitType
<1>2. Ahead BY DEF Init, Ahead, Busy, InHand
<1>3. \A r \in Repo : account[r].mark = NoNote /\ mem[r].mark = NoNote /\ routed[r] = {}
  BY DEF Init, NewAccount
<1>4. Ids /\ Known BY <1>3 DEF Init, Ids, Known, InHand
<1>5. NothingPassedOver /\ MemPassed /\ Tried
  BY <1>3 DEF Init, NothingPassedOver, MemPassed, Tried, Wanted
<1>6. Following BY DEF Init, Following, InHand, Delivered
<1> QED BY <1>1, <1>2, <1>4, <1>5, <1>6 DEF OrderInv

-----------------------------------------------------------------------------
(***************************************************************************)
(* What a step can do to the notifications of a repository.                *)
(***************************************************************************)

\* The steps that route a notification.
Routes(n, repos) ==
    /\ n \in Note /\ n \notin unrouted'
    /\ RoutedTo(n, repos)
    /\ \/ nextNote' = nextNote /\ n \in unrouted /\ unrouted' = unrouted \ {n}
       \/ nextNote' = nextNote + 1 /\ n = nextNote /\ unrouted' = unrouted
    /\ UNCHANGED <<account, records, copies, pc, mem, run, scroll, inHand, admin, faults>>

LEMMA RoutesOrNot ==
    ASSUME TypeInv, Ids, [Next]_vars
    PROVE  \/ \E repos \in SUBSET Repo, n \in Note : Routes(n, repos)
           \/ UNCHANGED <<nextNote, unrouted, routed, duplicate, late>>
           \/ ReceiveFromPublisher
<1>1. ASSUME NEW repos \in SUBSET Repo, RouteHarvested(repos)
      PROVE  nextNote \in Note /\ Routes(nextNote, repos)
  <2>1. nextNote \in Note
    BY <1>1, SwordOutAssumption DEF RouteHarvested, TypeInv, TypeOK, Note
  <2>2. nextNote \notin unrouted
    BY <2>1 DEF Ids, Note
  <2> QED BY <1>1, <2>1, <2>2 DEF RouteHarvested, Routes
<1>2. ASSUME NEW repos \in SUBSET Repo, NEW n \in Note, RouteFromPublisher(n, repos)
      PROVE  Routes(n, repos)
  BY <1>2 DEF RouteFromPublisher, Routes
<1> QED BY <1>1, <1>2
        DEF Next, Step, Environment, vars, routing, StartRun, EndRun, SkipAccount,
            BeginAccount, OpenScroller, AllSent, NextNotification, EmailNotification,
            DepositMetadata, DepositFiles, CompleteDeposit, InsertRecord, SaveAccount,
            DatabaseError, EmailRecordError, UnexpectedError, Signal, Crash, ToggleAccount,
            ToggleRepoStatus, SkipBlockingNote

LEMMA NewestId ==
    ASSUME TypeInv, Ids, NEW n \in Note, NEW repos \in SUBSET Repo, Routes(n, repos)
    PROVE  \A r \in Repo : n \notin routed[r]
BY DEF Routes, Ids, TypeInv, TypeOK, Note

\* A notification that comes to be wanted comes after all that were routed.
LEMMA RoutingGrows ==
    ASSUME TypeInv, Ids, [Next]_vars, NEW r \in Repo
    PROVE  /\ routed[r] \subseteq routed'[r]
           /\ \A n \in Wanted(r)' : n \in Wanted(r) \/ \A m \in routed[r] : n > m
<1>1. CASE UNCHANGED <<routed, late>>
  BY <1>1 DEF Wanted
<1>2. ASSUME NEW n \in Note, NEW repos \in SUBSET Repo, Routes(n, repos)
      PROVE  /\ routed[r] \subseteq routed'[r]
             /\ \A m \in Wanted(r)' : m \in Wanted(r) \/ \A k \in routed[r] : m > k
  <2>1. routed'[r] = IF r \in repos THEN routed[r] \cup {n} ELSE routed[r]
    BY <1>2 DEF Routes, RoutedTo
  <2>2. late'[r] = IF r \in repos /\ \E m \in routed[r] : m > n
                   THEN late[r] \cup {n} ELSE late[r]
    BY <1>2 DEF Routes, RoutedTo
  <2>3. n \notin routed[r] /\ routed[r] \subseteq Note
    BY <1>2, NewestId DEF TypeInv, TypeOK
  <2>4. n \in Wanted(r)' => \A k \in routed[r] : n > k
    BY <2>1, <2>2, <2>3, Numbers DEF Wanted
  <2> QED BY <2>1, <2>2, <2>4 DEF Wanted
<1> QED BY <1>1, <1>2, RoutesOrNot DEF ReceiveFromPublisher

\* What has been dealt with remains so; more is dealt with in two ways.
LEMMA HandledGrows ==
    ASSUME TypeInv, [Next]_vars
    PROVE  \/ \A r \in Repo : Handled(r)' = Handled(r)
           \/ /\ EmailNotification \/ DepositMetadata
              /\ \A r \in Repo : Handled(r)' = IF r = cur THEN Handled(r) \cup {note}
                                                          ELSE Handled(r)
           \/ \E r \in Repo, n \in Note :
                /\ SkipBlockingNote(r, n)
                /\ \A q \in Repo : Handled(q)' = IF q = r THEN Handled(q) \cup {n}
                                                          ELSE Handled(q)
<1>1. CASE UNCHANGED <<copies, skipped>>
  BY <1>1 DEF Handled
<1>2. ASSUME NEW r \in Repo, NEW n \in Note, SkipBlockingNote(r, n)
      PROVE  \A q \in Repo : Handled(q)' = IF q = r THEN Handled(q) \cup {n} ELSE Handled(q)
  BY <1>2 DEF SkipBlockingNote, Handled, TypeInv, TypeOK
<1>3. ASSUME EmailNotification \/ DepositMetadata, copies' # copies
      PROVE  \A r \in Repo : Handled(r)' = IF r = cur THEN Handled(r) \cup {note}
                                                      ELSE Handled(r)
  <2>1. cur \in Repo /\ note \in Note
    BY <1>3 DEF EmailNotification, DepositMetadata, TypeInv, Busy, InHand
  <2>2. copies' = [copies EXCEPT ![cur][note] = @ + 1] /\ UNCHANGED skipped
    BY <1>3 DEF EmailNotification, DepositMetadata, Given, admin
  <2>3. \A r \in Repo, n \in Note : copies[r][n] \in Nat
    BY Numbers
  <2>4. \A r \in Repo, n \in Note :
          copies'[r][n] = IF r = cur /\ n = note THEN copies[r][n] + 1 ELSE copies[r][n]
    BY <2>1, <2>2 DEF TypeInv, TypeOK
  <2>5. \A r \in Repo, n \in Note :
          copies'[r][n] > 0 <=> copies[r][n] > 0 \/ (r = cur /\ n = note)
    BY <2>3, <2>4
  <2> QED BY <2>1, <2>2, <2>5 DEF Handled
<1> QED BY <1>1, <1>2, <1>3
        DEF Next, Step, Environment, vars, admin, StartRun, EndRun, SkipAccount,
            BeginAccount, OpenScroller, AllSent, NextNotification, EmailNotification,
            DepositMetadata, DepositFiles, CompleteDeposit, InsertRecord, SaveAccount,
            DatabaseError, EmailRecordError, UnexpectedError, Signal, Crash, ToggleAccount,
            ToggleRepoStatus, ReceiveFromPublisher, RouteHarvested, RouteFromPublisher

LEMMA StillHandled ==
    ASSUME TypeInv, [Next]_vars, NEW r \in Repo, NEW n \in Handled(r)
    PROVE  n \in Handled(r)'
BY HandledGrows

\* The marks in the table change in two actions only.
LEMMA AccountMarks ==
    ASSUME TypeInv, [Next]_vars, NEW r \in Repo
    PROVE  \/ account'[r].mark = account[r].mark
           \/ SaveAccount /\ account'[r].mark = mem[r].mark
           \/ \E n \in Note : SkipBlockingNote(r, n) /\ account'[r].mark = n
<1>1. CASE SaveAccount
  <2>1. account'[r] \in {account[r], mem[r]}
    BY <1>1 DEF SaveAccount, TypeInv, TypeOK
  <2> QED BY <1>1, <2>1
<1>2. ASSUME NEW q \in Repo, ToggleAccount(q) \/ ToggleRepoStatus(q)
      PROVE  account'[r].mark = account[r].mark
  BY <1>2, ToggleMarks
<1>3. ASSUME NEW q \in Repo, NEW n \in Note, SkipBlockingNote(q, n)
      PROVE  account'[r].mark = IF r = q THEN n ELSE account[r].mark
  BY <1>3, Marks, Numbers DEF SkipBlockingNote, TypeInv, TypeOK
<1>4. CASE UNCHANGED account
  BY <1>4
<1> QED BY <1>1, <1>2, <1>3, <1>4
        DEF Next, Step, Environment, vars, StartRun, EndRun, SkipAccount,
            BeginAccount, OpenScroller, AllSent, NextNotification, EmailNotification,
            DepositMetadata, DepositFiles, CompleteDeposit, InsertRecord,
            DatabaseError, EmailRecordError, UnexpectedError, Signal, Crash,
            ReceiveFromPublisher, RouteHarvested, RouteFromPublisher

LEMMA MemMarksFrom ==
    ASSUME TypeInv, [Next]_vars, NEW r \in Repo
    PROVE  \/ mem'[r].mark \in {mem[r].mark, account[r].mark, NoNote}
           \/ InsertRecord /\ r = cur /\ parts.meta = "ok" /\ mem'[r].mark = note
<1>1. CASE StartRun
  BY <1>1 DEF StartRun
<1>2. CASE EndRun \/ Crash
  BY <1>2 DEF EndRun, Crash, NewAccount
<1> QED BY <1>1, <1>2, MemMarks

-----------------------------------------------------------------------------
(***************************************************************************)
(* Each part of the invariant                                              *)
(***************************************************************************)

LEMMA IdsStep ==
    ASSUME TypeInv, Ids, [Next]_vars
    PROVE  Ids'
<1>0. nextNote \in Nat /\ nextNote >= 1 /\ routed \in [Repo -> SUBSET Note]
  BY SwordOutAssumption DEF TypeInv, TypeOK
<1>1. CASE UNCHANGED <<nextNote, unrouted, routed>>
  BY <1>1 DEF Ids
<1>2. CASE ReceiveFromPublisher
  BY <1>0, <1>2 DEF ReceiveFromPublisher, Ids
<1>3. ASSUME NEW repos \in SUBSET Repo, NEW n \in Note, Routes(n, repos)
      PROVE  Ids'
  <2>1. n \in 1 .. nextNote' - 1
    BY <1>0, <1>3 DEF Routes, Ids, Note
  <2>2. 1 .. nextNote - 1 \subseteq 1 .. nextNote' - 1
    BY <1>0, <1>3 DEF Routes
  <2>3. \A r \in Repo : routed'[r] \subseteq routed[r] \cup {n}
    BY <1>0, <1>3 DEF Routes, RoutedTo
  <2>4. unrouted' \subseteq unrouted /\ n \notin unrouted'
    BY <1>3 DEF Routes
  <2> QED BY <2>1, <2>2, <2>3, <2>4 DEF Ids
<1> QED BY <1>1, <1>2, <1>3, RoutesOrNot

LEMMA KnownStep ==
    ASSUME OrderInv, [Next]_vars
    PROVE  Known'
<1> USE DEF OrderInv
<1>0. \A r \in Repo : routed[r] \subseteq routed'[r]
  BY RoutingGrows
<1>1. InHand => cur \in Repo
  BY DEF TypeInv, InHand, Busy
<1>2. \A r \in Repo : account'[r].mark \in routed'[r] \cup {NoNote}
  <2> SUFFICES ASSUME NEW r \in Repo PROVE account'[r].mark \in routed'[r] \cup {NoNote}
    OBVIOUS
  <2>1. ASSUME NEW n \in Note, SkipBlockingNote(r, n) PROVE n \in routed[r]
    BY <2>1 DEF SkipBlockingNote, Known
  <2> QED BY <1>0, <2>1, AccountMarks DEF Known
<1>3. \A r \in Repo : mem'[r].mark \in routed'[r] \cup {NoNote}
  <2> SUFFICES ASSUME NEW r \in Repo PROVE mem'[r].mark \in routed'[r] \cup {NoNote}
    OBVIOUS
  <2>1. InsertRecord => InHand BY DEF InsertRecord, InHand
  <2> QED BY <1>0, <2>1, MemMarksFrom DEF Known
<1>4. \A d \in records' : d.note \in routed'[d.repo]
  <2>1. \A d \in records : d.repo \in Repo
    BY DEF TypeInv, TypeOK, Deposit
  <2>2. records' = records
        \/ /\ InHand
           /\ records' = records \cup {[repo |-> cur, note |-> note, parts |-> parts]}
    BY DEF Next, Step, Environment, vars, StartRun, EndRun, SkipAccount,
            BeginAccount, OpenScroller, AllSent, NextNotification, EmailNotification,
            DepositMetadata, DepositFiles, CompleteDeposit, InsertRecord, SaveAccount,
            DatabaseError, EmailRecordError, UnexpectedError, Signal, Crash, ToggleAccount,
            ToggleRepoStatus, SkipBlockingNote, ReceiveFromPublisher, RouteHarvested,
            RouteFromPublisher, InHand
  <2> QED BY <1>0, <1>1, <2>1, <2>2 DEF Known
<1>5. \/ ~ InHand' /\ pc' # "scroll"
      \/ OpenScroller
      \/ /\ pc = "scroll" \/ InHand
         /\ cur' = cur /\ scroll' \subseteq scroll /\ (InHand' => note' \in {note} \cup scroll)
         /\ InHand' /\ ~ InHand => note' \in scroll
  BY DEF Next, Step, Environment, vars, StartRun, EndRun, SkipAccount,
            BeginAccount, OpenScroller, AllSent, NextNotification, EmailNotification,
            DepositMetadata, DepositFiles, CompleteDeposit, InsertRecord, SaveAccount,
            DatabaseError, EmailRecordError, UnexpectedError, Signal, Crash, ToggleAccount,
            ToggleRepoStatus, SkipBlockingNote, ReceiveFromPublisher, RouteHarvested,
            RouteFromPublisher, InHand, run, inHand, FirstInScroll
<1>6. CASE OpenScroller
  <2>1. cur \in Repo /\ cur' = cur /\ scroll' \subseteq routed[cur] /\ ~ InHand'
    BY <1>6 DEF OpenScroller, TypeInv, Busy, run, InHand
  <2> QED BY <1>0, <1>2, <1>3, <1>4, <2>1 DEF Known
<1>7. pc = "scroll" \/ InHand => cur \in Repo
  BY DEF TypeInv, InHand, Busy
<1> QED BY <1>0, <1>2, <1>3, <1>4, <1>5, <1>6, <1>7 DEF Known

LEMMA NothingPassedOverStep ==
    ASSUME OrderInv, [Next]_vars
    PROVE  NothingPassedOver'
<1> USE DEF OrderInv
<1> SUFFICES ASSUME NEW r \in Repo, NEW n \in Wanted(r)', n <= account'[r].mark
             PROVE  n \in Handled(r)'
  BY DEF NothingPassedOver, Wanted
<1>0. n \in Note /\ n > NoNote
  <2>1. TypeInv' BY TypeStep
  <2> QED BY <2>1, Numbers DEF TypeInv, TypeOK, Wanted
<1>1. account'[r].mark \in routed[r] \cup {NoNote}
  <2>1. ASSUME NEW m \in Note, SkipBlockingNote(r, m) PROVE m \in routed[r]
    BY <2>1 DEF SkipBlockingNote, Known
  <2> QED BY <2>1, AccountMarks DEF Known
<1>2. routed[r] \subseteq Nat /\ n \in Nat /\ NoNote \in Nat
  BY <1>0, Numbers DEF TypeInv, TypeOK
<1>3. n \in Wanted(r)
  BY <1>0, <1>1, <1>2, RoutingGrows
<1>4. CASE n <= account[r].mark \/ n <= mem[r].mark
  BY <1>3, <1>4, StillHandled DEF NothingPassedOver, MemPassed, Wanted
<1>5. ASSUME NEW m \in Note, SkipBlockingNote(r, m), n <= m PROVE n \in Handled(r)'
  <2>1. CASE n = m
    BY <1>5, <2>1 DEF SkipBlockingNote, Handled, TypeInv, TypeOK
  <2>2. CASE n < m
    BY <1>3, <1>5, <2>2, StillHandled DEF SkipBlockingNote, Tried
  <2> QED BY <1>2, <1>5, <2>1, <2>2, Numbers
<1> QED BY <1>4, <1>5, AccountMarks

\* What is in hand, or given up for the rest of this run, comes first among what
\* the mark in memory has not passed.
LEMMA NoteIsNext ==
    ASSUME OrderInv, InHand
    PROVE  /\ cur \in Repo /\ note \in Note
           /\ \A n \in Wanted(cur) : n < note => n \in Handled(cur)
<1>1. cur \in Repo /\ note \in Note
  BY DEF OrderInv, TypeInv, InHand, Busy
<1>2. ASSUME NEW n \in Wanted(cur), n < note PROVE n \in Handled(cur)
  <2>1. n \in Nat /\ note \in Nat /\ mem[cur].mark \in Nat
    BY <1>1, Numbers DEF OrderInv, TypeInv, TypeOK, Wanted
  <2>2. CASE n <= mem[cur].mark
    BY <1>1, <2>2 DEF OrderInv, MemPassed
  <2>3. CASE n > mem[cur].mark
    BY <1>2, <2>1, <2>3 DEF OrderInv, Following
  <2> QED BY <2>1, <2>2, <2>3
<1> QED BY <1>1, <1>2

LEMMA MemPassedStep ==
    ASSUME OrderInv, [Next]_vars
    PROVE  MemPassed'
<1> USE DEF OrderInv
<1> SUFFICES ASSUME NEW r \in Repo, NEW n \in Wanted(r)', n <= mem'[r].mark
             PROVE  n \in Handled(r)'
  BY DEF MemPassed
<1>0. n \in Note /\ n > NoNote
  <2>1. TypeInv' BY TypeStep
  <2> QED BY <2>1, Numbers DEF TypeInv, TypeOK, Wanted
<1>1. mem'[r].mark \in routed[r] \cup {NoNote}
  <2>1. InsertRecord => InHand BY DEF InsertRecord, InHand
  <2> QED BY <2>1, MemMarksFrom DEF Known
<1>2. routed[r] \subseteq Nat /\ n \in Nat /\ NoNote \in Nat
  BY <1>0, Numbers DEF TypeInv, TypeOK
<1>3. n \in Wanted(r)
  BY <1>0, <1>1, <1>2, RoutingGrows
<1>4. CASE n <= account[r].mark \/ n <= mem[r].mark
  BY <1>3, <1>4, StillHandled DEF NothingPassedOver, MemPassed, Wanted
<1>5. CASE InsertRecord /\ r = cur /\ parts.meta = "ok" /\ mem'[r].mark = note
  <2>1. InHand /\ Delivered BY <1>5 DEF InsertRecord, InHand, Delivered
  <2>2. note \in Handled(cur) BY <2>1 DEF Following
  <2>3. n < note => n \in Handled(cur) BY <1>3, <1>5, <2>1, NoteIsNext
  <2>4. note \in Nat BY <2>1, NoteIsNext, Numbers
  <2>5. n \in Handled(r) BY <1>2, <1>5, <2>2, <2>3, <2>4
  <2> QED BY <2>5, StillHandled
<1>6. n > NoNote /\ ~ (n <= NoNote)
  BY <1>0, <1>2
<1> QED BY <1>4, <1>5, <1>6, MemMarksFrom

LEMMA TriedStep ==
    ASSUME OrderInv, [Next]_vars
    PROVE  Tried'
<1> USE DEF OrderInv
<1> SUFFICES ASSUME NEW d \in records', NEW n \in Wanted(d.repo)', n < d.note
             PROVE  n \in Handled(d.repo)'
  BY DEF Tried
<1>1. CASE d \in records
  <2>1. d.repo \in Repo /\ d.note \in routed[d.repo]
    BY <1>1 DEF Known, TypeInv, TypeOK, Deposit
  <2>2. d.note \in Nat /\ n \in Nat
    <3>1. TypeInv' BY TypeStep
    <3> QED BY <2>1, <3>1, Numbers DEF TypeInv, TypeOK, Wanted
  <2>3. n \in Wanted(d.repo)
    BY <2>1, <2>2, RoutingGrows
  <2> QED BY <1>1, <2>1, <2>3, StillHandled DEF Tried
<1>2. CASE d \notin records
  <2>1. InsertRecord
    BY <1>2 DEF Next, Step, Environment, vars, StartRun, EndRun, SkipAccount,
            BeginAccount, OpenScroller, AllSent, NextNotification, EmailNotification,
            DepositMetadata, DepositFiles, CompleteDeposit, SaveAccount,
            DatabaseError, EmailRecordError, UnexpectedError, Signal, Crash, ToggleAccount,
            ToggleRepoStatus, SkipBlockingNote, ReceiveFromPublisher, RouteHarvested,
            RouteFromPublisher
  <2>2. InHand /\ d.repo = cur /\ d.note = note
    BY <1>2, <2>1 DEF InsertRecord, InHand
  <2>3. n \in Wanted(d.repo)
    BY <2>1 DEF InsertRecord, routing, Wanted
  <2>4. d.repo \in Repo /\ n \in Handled(d.repo)
    BY <2>2, <2>3, NoteIsNext
  <2> QED BY <2>4, StillHandled
<1> QED BY <1>1, <1>2

\* The position in the loop.  What routing adds comes after all that is there.
LEMMA RoutingFollows ==
    ASSUME OrderInv, [Next]_vars,
           UNCHANGED <<pc, cur, scroll, note, parts>>, \A r \in Repo : mem'[r].mark = mem[r].mark
    PROVE  Following'
<1> USE DEF OrderInv
<1>1. pc = "scroll" \/ InHand => cur \in Repo
  BY DEF TypeInv, InHand, Busy
<1>2. CASE cur \in Repo
  <2>1. \A n \in Wanted(cur)' : n \in Wanted(cur) \/ \A m \in routed[cur] : n > m
    BY <1>2, RoutingGrows
  <2>2. \A n \in Wanted(cur)' : n \in Nat
    <3>1. TypeInv' BY TypeStep
    <3> QED BY <1>2, <3>1, Numbers DEF TypeInv, TypeOK, Wanted
  <2>3. note \in Nat BY Numbers DEF TypeInv, TypeOK
  <2>4. pc = "scroll" => \A n \in Wanted(cur)' \ scroll :
                            n > mem[cur].mark => \A m \in scroll : n > m
    BY <2>1 DEF Following, Known
  <2>5. InHand => \A n \in Wanted(cur)' : n > mem[cur].mark =>
              /\ n >= note
              /\ n # note /\ n \notin scroll => \A m \in scroll : n > m
    BY <2>1, <2>2, <2>3 DEF Following, Known
  <2>6. Delivered => note \in Handled(cur)'
    BY <1>2, StillHandled DEF Following
  <2> QED BY <1>2, <2>4, <2>5, <2>6 DEF Following, InHand, Delivered, Wanted
<1> QED BY <1>1, <1>2 DEF Following, InHand, Delivered


LEMMA FollowingStep ==
    ASSUME OrderInv, [Next]_vars
    PROVE  Following'
<1> USE DEF OrderInv
<1>0. TypeInv' /\ \A r \in Repo : routed[r] \subseteq Nat /\ Wanted(r) \subseteq routed[r]
  BY TypeStep, Numbers DEF TypeInv, TypeOK, Wanted
<1>1. CASE /\ UNCHANGED <<pc, cur, scroll, note, parts>>
           /\ \A r \in Repo : mem'[r].mark = mem[r].mark
  BY <1>1, RoutingFollows
<1>2. CASE ~ InHand' /\ pc' # "scroll"
  BY <1>2 DEF Following, InHand, Delivered
<1>3. CASE OpenScroller
  <2>1. cur \in Repo /\ routed[cur] \subseteq Nat /\ mem[cur].mark \in Nat
    BY <1>3, Numbers DEF OpenScroller, TypeInv, TypeOK, Busy
  <2> QED BY <1>3, <2>1 DEF OpenScroller, Following, MarkOf, routing, run, InHand, Delivered,
                            Wanted
<1>4. ASSUME NEW n0 \in Note, NextNotification(n0) PROVE Following'
  <2>1. /\ cur \in Repo /\ cur' = cur /\ mem' = mem /\ Wanted(cur)' = Wanted(cur)
        /\ note' = n0 /\ n0 \in scroll /\ scroll' = scroll \ {n0} /\ pc = "scroll"
        /\ pc' \in {"email", "metadata"}
    BY <1>4 DEF NextNotification, FirstInScroll, run, routing, Wanted, TypeInv, Busy
  <2>2. /\ \A m \in scroll : m \in Nat /\ n0 <= m
        /\ \A n \in Wanted(cur) : n \in Nat
        /\ n0 \in Nat
    BY <1>0, <1>4, <2>1, Numbers DEF NextNotification, FirstInScroll, TypeInv, TypeOK
  <2>3. ASSUME NEW n \in Wanted(cur), n > mem[cur].mark
        PROVE  n >= n0 /\ (n # n0 /\ n \notin scroll' => \A m \in scroll' : n > m)
    BY <2>1, <2>2, <2>3 DEF Following
  <2> QED BY <2>1, <2>3 DEF Following, InHand, Delivered
<1>5. CASE EmailNotification \/ DepositMetadata
  <2>1. /\ cur \in Repo /\ InHand /\ UNCHANGED <<cur, mem, note, scroll>>
        /\ Wanted(cur)' = Wanted(cur) /\ parts'.meta # "none" /\ pc' # "scroll"
    BY <1>5 DEF EmailNotification, DepositMetadata, run, routing, Wanted, InHand, Busy,
                TypeInv, NoParts
  <2>2. Delivered' => note \in Handled(cur)'
    <3>1. ASSUME parts'.meta = "ok" PROVE copies' = [copies EXCEPT ![cur][note] = @ + 1]
      BY <1>5, <3>1 DEF EmailNotification, DepositMetadata, Given, NoParts
    <3>2. ASSUME parts'.meta = "ok" PROVE copies'[cur][note] > 0 /\ note \in Note
      BY <2>1, <3>1, <3>2, Numbers DEF TypeInv, TypeOK, InHand
    <3> QED BY <2>1, <3>2 DEF Delivered, Handled
  <2> QED BY <2>1, <2>2 DEF Following
<1>6. CASE DepositFiles \/ CompleteDeposit
  <2>1. /\ cur \in Repo /\ InHand /\ InHand' /\ UNCHANGED <<cur, mem, note, scroll>>
        /\ Wanted(cur)' = Wanted(cur) /\ parts'.meta = parts.meta /\ pc' # "scroll"
        /\ Handled(cur)' = Handled(cur) /\ (Delivered' => Delivered)
        /\ pc \in {"files", "complete"}
    BY <1>6 DEF DepositFiles, CompleteDeposit, run, routing, Wanted, InHand, Busy, admin,
                TypeInv, TypeOK, Parts, Handled, Delivered
  <2> QED BY <2>1 DEF Following
<1>7. CASE InsertRecord
  <2>1. CASE pc' = "scroll"
    <3>1. /\ cur \in Repo /\ InHand /\ UNCHANGED <<cur, scroll>> /\ ~ InHand'
          /\ Wanted(cur)' = Wanted(cur) /\ parts.meta = "ok"
          /\ mem' = [mem EXCEPT ![cur] = Marked(@)]
      BY <1>7, <2>1 DEF InsertRecord, InHand, routing, Wanted, Busy, TypeInv, TypeOK, Parts,
                        Outcome, Following
    <3>2. mem'[cur].mark = note
      BY <3>1, Marks, Numbers DEF TypeInv, TypeOK
    <3>3. note > mem[cur].mark /\ note \in Nat /\ mem[cur].mark \in Nat
      BY <3>1, Numbers DEF Ahead, TypeInv, TypeOK
    <3>4. ASSUME NEW n \in Wanted(cur) \ scroll, n > note
          PROVE  \A m \in scroll : n > m
      BY <1>0, <3>1, <3>3, <3>4 DEF Following
    <3> QED BY <2>1, <3>1, <3>2, <3>4 DEF Following, Delivered, InHand
  <2>2. CASE pc' # "scroll"
    BY <1>2, <1>7, <2>2 DEF InsertRecord, InHand
  <2> QED BY <2>1, <2>2
<1>8. CASE EmailRecordError
  <2>1. /\ InHand /\ cur \in Repo /\ UNCHANGED <<cur, mem, note, scroll>> /\ pc' = "record"
        /\ Wanted(cur)' = Wanted(cur) /\ parts'.meta = "failed"
    BY <1>8 DEF EmailRecordError, run, routing, Wanted, InHand, Busy, TypeInv, NoParts
  <2> QED BY <2>1 DEF Following, Delivered
<1>9. CASE \/ SaveAccount \/ StartRun \/ EndRun \/ Crash \/ AllSent
           \/ UnexpectedError
           \/ \E r \in Repo : SkipAccount(r) \/ BeginAccount(r)
           \/ \E abend \in BOOLEAN : DatabaseError(abend)
  BY <1>2, <1>9 DEF SaveAccount, StartRun, EndRun, Crash, AllSent, UnexpectedError,
                    SkipAccount, BeginAccount, DatabaseError, InHand
<1>10. CASE UNCHANGED <<pc, mem, cur, scroll, note, parts>>
  BY <1>1, <1>10
<1>11. CASE Step
  BY <1>3, <1>4, <1>5, <1>6, <1>7, <1>9, <1>11 DEF Step
<1>12. CASE Environment
  <2>1. CASE \/ ReceiveFromPublisher \/ Signal
             \/ \E repos \in SUBSET Repo : \/ RouteHarvested(repos)
                                           \/ \E n \in Note : RouteFromPublisher(n, repos)
    BY <1>10, <2>1 DEF ReceiveFromPublisher, RouteHarvested, RouteFromPublisher, Signal,
                       run, inHand
  <2>2. CASE \E r \in Repo : \/ ToggleAccount(r) \/ ToggleRepoStatus(r)
                            \/ \E n \in Note : SkipBlockingNote(r, n)
    BY <1>10, <2>2 DEF ToggleAccount, ToggleRepoStatus, SkipBlockingNote, run, inHand
  <2> QED BY <1>8, <1>9, <1>12, <2>1, <2>2 DEF Environment
<1>13. CASE UNCHANGED vars
  BY <1>10, <1>13 DEF vars, run, inHand
<1> QED BY <1>11, <1>12, <1>13 DEF Next

LEMMA OrderStep == OrderInv /\ [Next]_vars => OrderInv'
BY TypeStep, AheadStep, IdsStep, KnownStep, NothingPassedOverStep, MemPassedStep, TriedStep,
   FollowingStep DEF OrderInv

LEMMA OrderInvariance == Spec => []OrderInv
<1>1. Init => OrderInv BY InitOrder
<1>2. OrderInv /\ [Next]_vars => OrderInv' BY OrderStep
<1> QED BY <1>1, <1>2, PTL DEF Spec

\* The mark of an account never passes a notification, routed in order, that the
\* repository was not given and no administrator gave up, whatever fails and
\* whoever writes the account.
THEOREM NoneLeftOut == Spec => []NothingPassedOver
<1>1. OrderInv => NothingPassedOver BY DEF OrderInv
<1> QED BY <1>1, OrderInvariance, PTL

-----------------------------------------------------------------------------
(***************************************************************************)
(* SwordOut implements OrderedDelivery: routing a notification is Route,   *)
(* a delivery and the skipping of a notification are Handle, unless it has *)
(* been dealt with before; all other steps do not show.                    *)
(***************************************************************************)

dealtWith == [r \in Repo |-> Handled(r)]

LEMMA DeliveryInit == Init => Delivery!Init
BY DEF Init, Delivery!Init, Handled

LEMMA Handling ==
    ASSUME NEW r \in Repo, NEW n \in Note,
           n \in routed[r],
           \A m \in Wanted(r) : m < n => m \in Handled(r),
           UNCHANGED <<routed, late>>,
           \A q \in Repo : Handled(q)' = IF q = r THEN Handled(q) \cup {n} ELSE Handled(q)
    PROVE  [Delivery!Next]_(Delivery!vars)
<1>1. dealtWith' = [dealtWith EXCEPT ![r] = @ \cup {n}]
  BY DEF dealtWith
<1>2. CASE n \in Handled(r)
  <2>1. dealtWith' = dealtWith BY <1>2 DEF dealtWith
  <2> QED BY <2>1 DEF Delivery!vars, dealtWith
<1>3. CASE n \notin Handled(r)
  <2>1. Delivery!Handle(r, n)
    BY <1>1, <1>3 DEF Delivery!Handle, dealtWith, Wanted
  <2> QED BY <2>1 DEF Delivery!Next
<1> QED BY <1>2, <1>3

LEMMA DeliveryStep == OrderInv /\ [Next]_vars => [Delivery!Next]_(Delivery!vars)
<1> SUFFICES ASSUME OrderInv, [Next]_vars PROVE [Delivery!Next]_(Delivery!vars)
  OBVIOUS
<1> USE DEF OrderInv
<1>1. ASSUME NEW repos \in SUBSET Repo, NEW n \in Note, Routes(n, repos)
      PROVE  [Delivery!Next]_(Delivery!vars)
  <2>1. \A r \in Repo : n \notin routed[r]
    BY <1>1, NewestId
  <2>2. dealtWith' = dealtWith
    BY <1>1 DEF Routes, admin, dealtWith, Handled
  <2>3. Delivery!Route(n, repos)
    BY <1>1, <2>1, <2>2 DEF Routes, RoutedTo, Delivery!Route, dealtWith
  <2> QED BY <2>3 DEF Delivery!Next
<1>2. CASE UNCHANGED <<routed, late>> /\ \A r \in Repo : Handled(r)' = Handled(r)
  BY <1>2 DEF Delivery!vars
<1>3. CASE /\ EmailNotification \/ DepositMetadata
           /\ \A r \in Repo : Handled(r)' = IF r = cur THEN Handled(r) \cup {note}
                                                       ELSE Handled(r)
  <2>1. InHand /\ UNCHANGED <<routed, late>>
    BY <1>3 DEF EmailNotification, DepositMetadata, InHand, routing
  <2> QED BY <1>3, <2>1, NoteIsNext, Handling DEF Known
<1>4. ASSUME NEW r \in Repo, NEW n \in Note, SkipBlockingNote(r, n),
             \A q \in Repo : Handled(q)' = IF q = r THEN Handled(q) \cup {n} ELSE Handled(q)
      PROVE  [Delivery!Next]_(Delivery!vars)
  <2>1. UNCHANGED <<routed, late>> /\ n \in routed[r]
    BY <1>4 DEF SkipBlockingNote, routing, Known
  <2>2. \A m \in Wanted(r) : m < n => m \in Handled(r)
    BY <1>4 DEF SkipBlockingNote, Tried
  <2> QED BY <1>4, <2>1, <2>2, Handling
<1>5. UNCHANGED <<routed, late>> \/ \E repos \in SUBSET Repo, n \in Note : Routes(n, repos)
  BY RoutesOrNot DEF ReceiveFromPublisher
<1> QED BY <1>1, <1>2, <1>3, <1>4, <1>5, HandledGrows

\* Whatever fails and whoever intervenes, what happens is what OrderedDelivery
\* promises.
THEOREM ImplementsOrderedDelivery == Spec => DeliversInOrder
<1>1. Init => Delivery!Init BY DeliveryInit
<1>2. OrderInv /\ [Next]_vars => [Delivery!Next]_(Delivery!vars) BY DeliveryStep
<1> QED BY <1>1, <1>2, OrderInvariance, PTL DEF Spec, DeliversInOrder, Delivery!Spec

=============================================================================
