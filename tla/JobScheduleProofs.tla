-------------------------- MODULE JobScheduleProofs --------------------------
(***************************************************************************)
(* Theorems about JobSchedule, for any number of programs, any schedule,   *)
(* any conflicts and any bounds: the types; what holds whatever crashes,   *)
(* restarts and TRUNCATEs of the table happen; and what holds as long as   *)
(* no program truncates the table.  The ids of records are then never used *)
(* twice, and what a program has in memory of its own jobs is what the     *)
(* table holds.  (With a TRUNCATE that fails: see PurgeReloadsAll.)        *)
(***************************************************************************)
EXTENDS JobSchedule, TLAPS

-----------------------------------------------------------------------------
\* The time arithmetic

\* Adding the period until the time lies in the future gives a time.
LEMMA FirstAfterType ==
    ASSUME NEW t \in Nat, NEW every \in Nat \ {0}, NEW time \in Nat
    PROVE  FirstAfter(t, every, time) \in Nat
<1>1. CASE t > time
  BY <1>1 DEF FirstAfter
<1>2. CASE ~(t > time)
  <2> DEFINE n == (time - t) \div every + 1
  <2>1. n \in Nat
    BY <1>2
  <2>2. every * n \in Nat
    <3> HIDE DEF n
    <3> QED BY <2>1
  <2>3. FirstAfter(t, every, time) = t + every * n
    BY <1>2 DEF FirstAfter
  <2> HIDE DEF n
  <2> QED BY <2>2, <2>3
<1> QED BY <1>1, <1>2

\* A time of day, today, is a time.
LEMMA TodayType ==
    ASSUME NEW time \in Nat, NEW timeOfDay \in Time
    PROVE  Today(time, timeOfDay) \in Time
<1>1. time - (time % Day) \in Nat
  BY DayAssumption
<1> QED BY <1>1 DEF Today, Time, NoTime

\* A new job has a well-formed window, and it is not running.
LEMMA JobInitType ==
    ASSUME NEW time \in Nat, NEW start \in Time, NEW every \in Time \ {0},
           NEW end \in Time, NEW prio \in Priority
    PROVE  /\ JobInit(time, start, every, end, prio)
                \in [status : Status, prio : Priority \cup {NEVER},
                     next : Time, end : Time]
           /\ JobInit(time, start, every, end, prio).status # RUNNING
<1> DEFINE earliest == Today(time, start)
           until    == Today(time, end)
           w        == Window(time, start, every, end)
<1>1. earliest \in Time /\ until \in Time
  BY TodayType
<1>2. \A t \in Nat : NextStart(t, every, time) \in Nat
  BY FirstAfterType DEF NextStart, Time, NoTime
<1>3. earliest # NoTime => /\ NextStart(earliest, every, time) \in Time
                           /\ NextStart(earliest + Day, every, time) \in Time
                           /\ earliest + Day \in Time
  BY <1>1, <1>2, DayAssumption DEF Time
<1>4. until # NoTime => until + Day \in Time
  BY <1>1, DayAssumption DEF Time
<1>5. w \in [end : Time, next : Time]
  <2> HIDE DEF earliest, until
  <2>1. w = LET passed == until # NoTime /\ until <= time
            IN  IF earliest # NoTime /\ until # NoTime
                THEN IF earliest > until
                     THEN [end |-> until + Day, next |-> NextStart(earliest, every, time)]
                     ELSE IF passed
                     THEN [end |-> until + Day, next |-> earliest + Day]
                     ELSE [end |-> until, next |-> NextStart(earliest, every, time)]
                ELSE IF earliest # NoTime
                THEN [end |-> NoTime,
                      next |-> NextStart(IF earliest <= time /\ every = NoTime
                                         THEN earliest + Day ELSE earliest, every, time)]
                ELSE [end |-> IF passed THEN until + Day ELSE until, next |-> NoTime]
    BY DEF Window, earliest, until
  <2>2. NoTime \in Time
    BY DEF Time
  <2> QED BY <1>1, <1>3, <1>4, <2>1, <2>2
<1>6. w.next \in Time /\ w.end \in Time
  BY <1>5
<1> HIDE DEF w
<1>7. JobInit(time, start, every, end, prio) =
        IF w.next = NoTime
        THEN [status |-> NoStatus, prio |-> prio, next |-> NoTime, end |-> w.end]
        ELSE IF w.end # NoTime /\ w.next >= w.end
        THEN [status |-> ENDED, prio |-> NEVER, next |-> NoTime, end |-> w.end]
        ELSE IF w.next <= time
        THEN [status |-> FINISHED, prio |-> prio, next |-> NoTime, end |-> w.end]
        ELSE [status |-> PENDING, prio |-> prio, next |-> w.next, end |-> w.end]
  BY DEF JobInit, w
<1>8. /\ NoTime \in Time
      /\ {NoStatus, ENDED, FINISHED, PENDING} \subseteq Status
      /\ RUNNING \notin {NoStatus, ENDED, FINISHED, PENDING}
  BY DEF Time, Status, NoStatus, ENDED, FINISHED, PENDING, RUNNING
<1> QED BY <1>6, <1>7, <1>8

-----------------------------------------------------------------------------
\* Records of the table

\* The priority tells a job from a primer.
LEMMA RowKinds ==
    ASSUME NEW r \in Row \cup {NoRow}
    PROVE  /\ IsJob(r) => r \in JobRow
           /\ IsPrimer(r) => r \in PrimerRow
           /\ r \in JobRow => IsJob(r)
           /\ r \in PrimerRow => IsPrimer(r)
BY NoRowAssumption
   DEF Row, JobRow, PrimerRow, IsJob, IsPrimer, Priority, PRIMER, NEVER

\* What is known of an entry of the schedule.
LEMMA EntryType ==
    ASSUME NEW e \in Entry
    PROVE  /\ ScheduleSpec[e] \in [label : Label \cup {NoLabel}, func : Func,
                                   start : Time, every : Time \ {0}, end : Time,
                                   prio : Priority,
                                   triggers : Seq([label : Label, always : BOOLEAN])]
           /\ e \in Nat
<1> DEFINE EntrySet == [label : Label \cup {NoLabel}, func : Func,
                        start : Time, every : Time \ {0}, end : Time,
                        prio : Priority,
                        triggers : Seq([label : Label, always : BOOLEAN])]
<1>1. ScheduleSpec \in Seq(EntrySet)
  BY JobScheduleAssumption
<1> HIDE DEF EntrySet
<1>2. ScheduleSpec[e] \in EntrySet /\ e \in Nat
  BY <1>1 DEF Entry
<1> QED BY <1>2 DEF EntrySet

\* A new job record is well formed and not running.
LEMMA NewJobType ==
    ASSUME NEW p \in Proc, NEW e \in Entry, NEW time \in Nat
    PROVE  /\ NewJob(p, e, time) \in JobRow
           /\ NewJob(p, e, time).status # RUNNING
           /\ NewJob(p, e, time).owner = p
           /\ NewJob(p, e, time).entry = e
<1> DEFINE s == ScheduleSpec[e]
           v == JobInit(time, s.start, s.every, s.end, s.prio)
<1>1. /\ v \in [status : Status, prio : Priority \cup {NEVER}, next : Time, end : Time]
      /\ v.status # RUNNING
  BY EntryType, JobInitType
<1>2. NewJob(p, e, time) =
        [entry |-> e, owner |-> p, prio |-> v.prio, status |-> v.status,
         next |-> v.next, end |-> v.end, args |-> NoArgs]
  BY DEF NewJob
<1> HIDE DEF v
<1> QED BY <1>1, <1>2 DEF JobRow

\* The in-memory changes of a job keep it well formed, whose it is and which
\* entry of the schedule it stands for; only StartJob marks it as running.
LEMMA TriggeredType ==
    ASSUME NEW r \in JobRow, NEW t \in Nat, NEW a \in Args \cup {NoArgs}
    PROVE  /\ Triggered(r, t, a) \in JobRow
           /\ Triggered(r, t, a).status # RUNNING
           /\ Triggered(r, t, a).owner = r.owner
           /\ Triggered(r, t, a).entry = r.entry
<1> DEFINE next == IF r.next = NoTime \/ r.next > t THEN t ELSE r.next
           args == IF a = NoArgs THEN r.args ELSE a
<1>1. next \in Time /\ args \in Args \cup {NoArgs}
  BY DEF JobRow, Time
<1>2. TRIGGERED \in Status /\ TRIGGERED # RUNNING
  BY DEF Status, TRIGGERED, RUNNING
<1>3. Triggered(r, t, a) = [r EXCEPT !.status = TRIGGERED, !.next = next, !.args = args]
  BY DEF Triggered, JobRow
<1> HIDE DEF next, args
<1> QED BY <1>1, <1>2, <1>3 DEF JobRow

LEMMA EndedType ==
    ASSUME NEW r \in JobRow
    PROVE  /\ Ended(r) \in JobRow
           /\ Ended(r).status # RUNNING
           /\ Ended(r).owner = r.owner
           /\ Ended(r).entry = r.entry
<1>1. ENDED \in Status /\ ENDED # RUNNING /\ NoTime \in Time
  BY DEF Status, ENDED, RUNNING, Time
<1> QED BY <1>1 DEF Ended, JobRow

LEMMA AfterRunType ==
    ASSUME NEW r \in JobRow, NEW res, NEW runTime \in Nat, NEW time \in Nat
    PROVE  /\ AfterRun(r, res, runTime, time) \in JobRow
           /\ AfterRun(r, res, runTime, time).status # RUNNING
           /\ AfterRun(r, res, runTime, time).owner = r.owner
           /\ AfterRun(r, res, runTime, time).entry = r.entry
<1> DEFINE every == ScheduleSpec[r.entry].every
           again == FirstAfter(runTime, every, time)
<1>1. every \in Time \ {0}
  BY EntryType DEF JobRow
<1>2. every # NoTime => again \in Time
  BY <1>1, FirstAfterType DEF Time, NoTime
<1>3. AfterRun(r, res, runTime, time) =
        IF res.flag = "end_job" THEN Ended(r)
        ELSE IF every = NoTime THEN [r EXCEPT !.next = NoTime, !.status = FINISHED]
        ELSE IF TooLate(again, r.end) THEN Ended(r)
        ELSE [r EXCEPT !.next = again, !.status = PENDING]
  BY DEF AfterRun
<1>4. /\ NoTime \in Time
      /\ FINISHED \in Status /\ PENDING \in Status
      /\ FINISHED # RUNNING /\ PENDING # RUNNING
  BY DEF Time, Status, FINISHED, PENDING, RUNNING
<1> HIDE DEF every, again
<1> QED BY ZenonT(60), <1>2, <1>3, <1>4, EndedType DEF JobRow

-----------------------------------------------------------------------------
\* TypeOK alone is not inductive: that a program saves a job record, and one of
\* its own, rests on what its loops range over.

\* The loops of a program range over entries it executes, jobs of its own, and
\* the triggers of the job it has run.
WorkOf(p) ==
    /\ pc[p] \in {"init", "reload"} => work[p] \subseteq OwnEntries(p)
    /\ pc[p] \in {"load", "pass"} =>
          \A i \in work[p] : i \in Id /\ OwnJob(snap[p][i], p)
    /\ pc[p] \in {"run", "trigger"} => cur[p] \in Id /\ OwnJob(CurJob(p), p)
    /\ pc[p] = "trigger" => work[p] \subseteq DOMAIN CurEntry(p).triggers

WorkInv == \A p \in Proc : WorkOf(p)

TypeInv == TypeOK /\ WorkInv

-----------------------------------------------------------------------------
\* What the building blocks of the actions do to the variables

LEMMA SaveType ==
    ASSUME TypeOK, NEW p \in Proc, NEW i \in Id, NEW row \in JobRow, Save(p, i, row)
    PROVE  /\ jobs' \in [Id -> Row \cup {NoRow}]
           /\ snap' \in [Proc -> [Id -> Row \cup {NoRow}]]
BY DEF TypeOK, Save, Updated, Row

LEMMA SaveAndDeleteType ==
    ASSUME TypeOK, NEW i \in Id, NEW row \in JobRow, NEW m, SaveAndDelete(i, row, m)
    PROVE  jobs' \in [Id -> Row \cup {NoRow}]
BY DEF TypeOK, SaveAndDelete, Updated, Row

LEMMA InsertType ==
    ASSUME TypeOK, NEW row \in Row, Insert(row)
    PROVE  /\ jobs' \in [Id -> Row \cup {NoRow}]
           /\ nextId' \in 1 .. MaxId + 1
           /\ nextId \in Id
BY JobScheduleAssumption DEF TypeOK, Insert, Id

LEMMA WithoutOwnedType ==
    ASSUME TypeOK, NEW p \in Proc
    PROVE  WithoutOwned(p) \in [Id -> Row \cup {NoRow}]
BY DEF TypeOK, WithoutOwned

LEMMA ForgetType ==
    ASSUME TypeOK, NEW p \in Proc, Forget(p)
    PROVE  /\ snap' \in [Proc -> [Id -> Row \cup {NoRow}]]
           /\ work' \in [Proc -> SUBSET Nat]
           /\ now' \in [Proc -> Nat]
           /\ cur' \in [Proc -> Id \cup {0}]
BY DEF TypeOK, Forget, EmptyTable

\* A job in memory is a well-formed job record.
LEMMA MemoryType ==
    ASSUME TypeOK, NEW p \in Proc, NEW i \in Id
    PROVE  /\ snap[p][i] \in Row \cup {NoRow}
           /\ jobs[i] \in Row \cup {NoRow}
           /\ OwnJob(snap[p][i], p) => snap[p][i] \in JobRow
           /\ OwnJob(jobs[i], p) => jobs[i] \in JobRow
           /\ IsJob(jobs[i]) => jobs[i] \in JobRow
<1>1. snap[p][i] \in Row \cup {NoRow} /\ jobs[i] \in Row \cup {NoRow}
  BY DEF TypeOK
<1> QED BY <1>1, RowKinds DEF OwnJob

\* An action of one program leaves alone what the invariant says of the others.
LEMMA OthersWork ==
    ASSUME TypeOK, WorkInv, NEW p \in Proc, WorkOf(p)',
           \A q \in Proc \ {p} : /\ pc'[q] = pc[q] /\ work'[q] = work[q]
                                 /\ snap'[q] = snap[q] /\ cur'[q] = cur[q]
    PROVE  WorkInv'
BY DEF WorkInv, WorkOf, CurJob, CurEntry

-----------------------------------------------------------------------------
\* Type correctness, one action at a time

LEMMA InitType == Init => TypeInv
<1> SUFFICES ASSUME Init PROVE TypeInv
  OBVIOUS
<1>1. EmptyTable \in [Id -> Row \cup {NoRow}]
  BY DEF EmptyTable
<1>2. TypeOK
  <2>1. 1 \in 1 .. MaxId + 1 /\ NoTime \in Time
    BY JobScheduleAssumption DEF Time
  <2> QED BY <1>1, <2>1 DEF Init, TypeOK, PC, Flag
<1>3. WorkInv
  BY DEF Init, WorkInv, WorkOf
<1> QED BY <1>2, <1>3 DEF TypeInv

LEMMA RestartType ==
    ASSUME TypeInv, NEW p \in Proc, Restart(p) PROVE TypeInv'
<1>1. OwnEntries(p) \in SUBSET Nat
  BY EntryType DEF OwnEntries
<1>2. TypeOK'
  BY <1>1, WithoutOwnedType DEF TypeInv, TypeOK, Restart, Goto, PC, ghost
<1>3. WorkInv'
  <2>1. WorkOf(p)'
    BY DEF TypeInv, TypeOK, Restart, Goto, WorkOf
  <2> QED BY <2>1, OthersWork DEF TypeInv, TypeOK, Restart, Goto
<1> QED BY <1>2, <1>3 DEF TypeInv

LEMMA AddJobType ==
    ASSUME TypeInv, NEW p \in Proc, AddJob(p) PROVE TypeInv'
<1>1. PICK e \in work[p] :
        /\ Insert(NewJob(p, e, now[p]))
        /\ snap' = [snap EXCEPT ![p][nextId] = NewJob(p, e, now[p])]
        /\ work' = [work EXCEPT ![p] = @ \ {e}]
  BY DEF AddJob
<1>2. e \in Entry /\ now[p] \in Nat
  BY DEF AddJob, TypeInv, TypeOK, WorkInv, WorkOf, OwnEntries
<1>3. NewJob(p, e, now[p]) \in Row
  BY <1>2, NewJobType DEF Row
<1> HIDE DEF Insert
<1>4. TypeOK'
  <2>1. /\ jobs' \in [Id -> Row \cup {NoRow}]
        /\ nextId' \in 1 .. MaxId + 1
        /\ nextId \in Id
    BY <1>1, <1>3, InsertType DEF TypeInv
  <2>2. snap' \in [Proc -> [Id -> Row \cup {NoRow}]] /\ work' \in [Proc -> SUBSET Nat]
    BY <1>1, <1>3, <2>1 DEF TypeInv, TypeOK
  <2> QED BY <2>1, <2>2 DEF TypeInv, TypeOK, AddJob, ghost
<1>5. WorkInv'
  <2>1. WorkOf(p)'
    BY <1>1 DEF TypeInv, TypeOK, AddJob, WorkOf, WorkInv
  <2> QED BY <1>1, <2>1, OthersWork DEF TypeInv, TypeOK, AddJob
<1> QED BY <1>4, <1>5 DEF TypeInv

\* The actions that end with Forget leave nothing in memory to be wrong about.
LEMMA ForgottenWork ==
    ASSUME TypeInv, NEW p \in Proc, Forget(p), NEW l \in PC \ {"trigger", "run"}, Goto(p, l)
    PROVE  WorkInv' /\ pc' \in [Proc -> PC]
<1>1. pc'[p] = l /\ work'[p] = {}
  BY DEF TypeInv, TypeOK, Goto, Forget
<1>2. WorkOf(p)'
  BY <1>1 DEF WorkOf
<1> QED BY <1>2, OthersWork DEF TypeInv, TypeOK, Goto, Forget

LEMMA DeferType ==
    ASSUME TypeInv, NEW p \in Proc, DeferEnd[p] # NoTime
    PROVE  [deferred EXCEPT ![p] = now[p] + DeferEnd[p]] \in [Proc -> Time]
<1>1. now[p] \in Nat /\ DeferEnd[p] \in Nat
  BY JobScheduleAssumption DEF TypeInv, TypeOK, Time
<1> QED BY <1>1 DEF TypeInv, TypeOK, Time

LEMMA InitDoneType ==
    ASSUME TypeInv, NEW p \in Proc, InitDone(p) PROVE TypeInv'
<1>1. PICK l \in {"down", "sleep"} : Goto(p, l)
  BY DEF InitDone
<1>2. WorkInv' /\ pc' \in [Proc -> PC]
  BY <1>1, ForgottenWork DEF InitDone, PC
<1> QED BY <1>2, ForgetType DEF TypeInv, TypeOK, InitDone, db, ghost

LEMMA ReadJobsType ==
    ASSUME TypeInv, NEW p \in Proc, ReadJobs(p) PROVE TypeInv'
<1> DEFINE table == [i \in Id |-> IF jobs[i] # NoRow /\ jobs[i].prio # NEVER
                                  THEN jobs[i] ELSE NoRow]
<1>1. table \in [Id -> Row \cup {NoRow}]
  BY DEF TypeInv, TypeOK
<1>2. /\ snap' = [snap EXCEPT ![p] = table]
      /\ work' = [work EXCEPT ![p] = TooLateJobs(p, table, clock) \cup PrimedJobs(p, table)]
      /\ flag' = [flag EXCEPT ![p] = IF table = EmptyTable THEN "db_empty" ELSE "none"]
      /\ now' = [now EXCEPT ![p] = clock]
      /\ Goto(p, "load")
      /\ UNCHANGED <<db, clock, cur, deferred, ghost, failures>>
  BY DEF ReadJobs
<1> HIDE DEF table
<1>3. TooLateJobs(p, table, clock) \cup PrimedJobs(p, table) \subseteq
        {i \in Id : OwnJob(table[i], p)}
  BY DEF TooLateJobs, PrimedJobs
<1>4. TypeOK'
  <2>1. Id \subseteq Nat
    BY DEF Id
  <2>2. work' \in [Proc -> SUBSET Nat]
    BY <1>2, <1>3, <2>1 DEF TypeInv, TypeOK
  <2> QED BY <1>1, <1>2, <2>2 DEF TypeInv, TypeOK, Goto, PC, Flag, db, ghost
<1>5. WorkInv'
  <2>1. pc'[p] = "load" /\ snap'[p] = table
    BY <1>2 DEF TypeInv, TypeOK, Goto
  <2>2. \A i \in work'[p] : i \in Id /\ OwnJob(snap'[p][i], p)
    BY <1>2, <1>3, <2>1 DEF TypeInv, TypeOK
  <2>3. WorkOf(p)'
    BY <2>1, <2>2 DEF WorkOf
  <2> QED BY <1>2, <2>3, OthersWork DEF TypeInv, TypeOK, Goto
<1> QED BY <1>4, <1>5 DEF TypeInv

LEMMA ExpireJobType ==
    ASSUME TypeInv, NEW p \in Proc, NEW i \in Id, ExpireJob(p, i) PROVE TypeInv'
<1>1. snap[p][i] \in JobRow
  BY MemoryType DEF ExpireJob, TooLateJobs, TypeInv
<1>2. jobs' \in [Id -> Row \cup {NoRow}]
  <2>1. PICK m : SaveAndDelete(i, Ended(snap[p][i]), m)
    BY DEF ExpireJob
  <2> QED BY <1>1, <2>1, EndedType, SaveAndDeleteType DEF TypeInv
<1>3. TypeOK'
  BY <1>2 DEF TypeInv, TypeOK, ExpireJob, ghost
<1>4. WorkInv'
  <2>1. WorkOf(p)'
    BY DEF TypeInv, TypeOK, ExpireJob, WorkInv, WorkOf
  <2> QED BY <2>1, OthersWork DEF TypeInv, TypeOK, ExpireJob
<1> QED BY <1>3, <1>4 DEF TypeInv

LEMMA TriggerPrimedJobType ==
    ASSUME TypeInv, NEW p \in Proc, NEW i \in Id, TriggerPrimedJob(p, i) PROVE TypeInv'
<1>1. PICK m \in PrimersFor(p, LabelOf(snap[p][i])) :
        LET row == Triggered(snap[p][i], snap[p][m].created, snap[p][m].args)
        IN  SaveAndDelete(i, row, {m}) /\ snap' = [snap EXCEPT ![p][i] = row]
  BY DEF TriggerPrimedJob
<1>2. snap[p][i] \in JobRow /\ snap[p][i].owner = p
  BY MemoryType DEF TriggerPrimedJob, TypeInv, WorkInv, WorkOf, OwnJob
<1>3. snap[p][m] \in PrimerRow
  BY MemoryType, RowKinds DEF PrimersFor, TypeInv
<1> DEFINE row == Triggered(snap[p][i], snap[p][m].created, snap[p][m].args)
<1>4. row \in JobRow /\ row.owner = p
  BY <1>2, <1>3, TriggeredType DEF PrimerRow
<1>5. SaveAndDelete(i, row, {m}) /\ snap' = [snap EXCEPT ![p][i] = row]
  BY <1>1
<1> HIDE DEF row
<1>6. jobs' \in [Id -> Row \cup {NoRow}]
  BY <1>4, <1>5, SaveAndDeleteType DEF TypeInv
<1>7. TypeOK'
  BY <1>4, <1>5, <1>6 DEF TypeInv, TypeOK, TriggerPrimedJob, ghost, Row
<1>8. WorkInv'
  <2>1. OwnJob(row, p)
    BY <1>4, RowKinds DEF OwnJob, Row
  <2>2. WorkOf(p)'
    BY <1>5, <2>1 DEF TypeInv, TypeOK, TriggerPrimedJob, WorkInv, WorkOf
  <2> QED BY <1>5, <2>2, OthersWork DEF TypeInv, TypeOK, TriggerPrimedJob
<1> QED BY <1>7, <1>8 DEF TypeInv

LEMMA EndDeferredType ==
    ASSUME TypeInv, NEW p \in Proc, EndDeferred(p) PROVE TypeInv'
<1>1. PICK l \in {"ending", "sleep"} : Goto(p, l)
  BY DEF EndDeferred
<1>2. WorkInv' /\ pc' \in [Proc -> PC]
  BY <1>1, ForgottenWork DEF EndDeferred, PC
<1>3. flag' \in [Proc -> Flag]
  BY DEF EndDeferred, TypeInv, TypeOK, Flag
<1> QED BY <1>2, <1>3, ForgetType DEF TypeInv, TypeOK, EndDeferred, db, ghost

LEMMA EndWithoutJobsType ==
    ASSUME TypeInv, NEW p \in Proc, Forget(p), EndWithoutJobs(p)
    PROVE  WorkInv' /\ pc' \in [Proc -> PC] /\ deferred' \in [Proc -> Time]
<1>1. PICK l \in {"ending", "sleep"} : Goto(p, l)
  BY DEF EndWithoutJobs
<1>2. WorkInv' /\ pc' \in [Proc -> PC]
  BY <1>1, ForgottenWork DEF PC
<1>3. deferred' \in [Proc -> Time]
  BY DeferType DEF EndWithoutJobs, TypeInv, TypeOK
<1> QED BY <1>2, <1>3

LEMMA NoActiveJobsType ==
    ASSUME TypeInv, NEW p \in Proc, NoActiveJobs(p) PROVE TypeInv'
<1>1. WorkInv' /\ pc' \in [Proc -> PC] /\ deferred' \in [Proc -> Time]
  BY EndWithoutJobsType DEF NoActiveJobs
<1> QED BY <1>1, ForgetType DEF TypeInv, TypeOK, NoActiveJobs, db, ghost

LEMMA ReloadScheduleType ==
    ASSUME TypeInv, NEW p \in Proc, ReloadSchedule(p) PROVE TypeInv'
<1>1. OwnEntries(p) \in SUBSET Nat /\ EmptyTable \in [Id -> Row \cup {NoRow}]
  BY EntryType DEF OwnEntries, EmptyTable
<1>2. TypeOK'
  BY <1>1, WithoutOwnedType DEF TypeInv, TypeOK, ReloadSchedule, Goto, PC, ghost
<1>3. WorkInv'
  <2>1. WorkOf(p)'
    BY DEF TypeInv, TypeOK, ReloadSchedule, Goto, WorkOf
  <2> QED BY <2>1, OthersWork DEF TypeInv, TypeOK, ReloadSchedule, Goto
<1> QED BY <1>2, <1>3 DEF TypeInv

LEMMA ReloadDoneType ==
    ASSUME TypeInv, NEW p \in Proc, ReloadDone(p) PROVE TypeInv'
<1>1. WorkInv' /\ pc' \in [Proc -> PC] /\ deferred' \in [Proc -> Time]
  <2>1. CASE ActiveJobs(p) = {}
    BY <2>1, EndWithoutJobsType DEF ReloadDone
  <2>2. CASE ActiveJobs(p) # {}
    BY <2>2, ForgottenWork DEF ReloadDone, PC, TypeInv, TypeOK
  <2> QED BY <2>1, <2>2
<1> QED BY <1>1, ForgetType DEF TypeInv, TypeOK, ReloadDone, db, ghost

LEMMA BeginPassType ==
    ASSUME TypeInv, NEW p \in Proc, BeginPass(p) PROVE TypeInv'
<1>1. CASE DueJobs(p, clock) = {}
  <2>1. WorkInv' /\ pc' \in [Proc -> PC]
    BY <1>1, ForgottenWork DEF BeginPass, PC
  <2> QED BY <1>1, <2>1, ForgetType DEF TypeInv, TypeOK, BeginPass, db, ghost
<1>2. CASE DueJobs(p, clock) # {}
  <2>1. /\ Goto(p, "pass")
        /\ work' = [work EXCEPT ![p] = DueJobs(p, clock)]
        /\ now' = [now EXCEPT ![p] = clock]
        /\ UNCHANGED <<snap, cur, db, clock, flag, deferred, ghost, failures>>
    BY <1>2 DEF BeginPass
  <2>2. DueJobs(p, clock) \subseteq {i \in Id : OwnJob(snap[p][i], p)} /\ Id \subseteq Nat
    BY DEF DueJobs, Id
  <2>3. TypeOK'
    BY <2>1, <2>2 DEF TypeInv, TypeOK, Goto, PC, db, ghost
  <2>4. WorkOf(p)'
    BY <2>1, <2>2 DEF TypeInv, TypeOK, Goto, WorkOf
  <2> QED BY <2>1, <2>3, <2>4, OthersWork DEF TypeInv, TypeOK, Goto
<1> QED BY <1>1, <1>2

\* Where the loop over the due jobs is, there is a job of its own.
LEMMA PassType ==
    ASSUME TypeInv, NEW p \in Proc, NEW i \in Id, IsNext(p, i)
    PROVE  snap[p][i] \in JobRow /\ OwnJob(snap[p][i], p)
BY MemoryType DEF IsNext, TypeInv, WorkInv, WorkOf

LEMMA PassOverLateJobType ==
    ASSUME TypeInv, NEW p \in Proc, NEW i \in Id, PassOverLateJob(p, i) PROVE TypeInv'
<1> DEFINE row == Ended(snap[p][i])
<1>1. row \in JobRow /\ OwnJob(row, p)
  BY PassType, EndedType, RowKinds DEF PassOverLateJob, OwnJob, Row
<1>2. Save(p, i, row)
  BY DEF PassOverLateJob
<1> HIDE DEF row
<1>3. TypeOK'
  BY <1>1, <1>2, SaveType DEF TypeInv, TypeOK, PassOverLateJob, ghost
<1>4. WorkOf(p)'
  BY <1>1, <1>2 DEF TypeInv, TypeOK, PassOverLateJob, IsNext, Save, WorkInv, WorkOf
<1> QED BY <1>2, <1>3, <1>4, OthersWork DEF TypeInv, TypeOK, PassOverLateJob, Save

LEMMA WaitForConflictingJobType ==
    ASSUME TypeInv, NEW p \in Proc, NEW i \in Id, WaitForConflictingJob(p, i)
    PROVE  TypeInv'
<1> DEFINE row  == [snap[p][i] EXCEPT !.status = WAITING]
           rest == {j \in work[p] : snap[p][j].prio # snap[p][i].prio}
<1>1. row \in JobRow /\ OwnJob(row, p)
  <2>1. WAITING \in Status
    BY DEF Status, WAITING
  <2>2. row \in JobRow /\ row.owner = p
    BY <2>1, PassType DEF WaitForConflictingJob, OwnJob, JobRow
  <2> QED BY <2>2, RowKinds DEF OwnJob, Row
<1>2. Save(p, i, row) \/ UNCHANGED <<jobs, snap>>
  BY DEF WaitForConflictingJob
<1>3. work' = [work EXCEPT ![p] = rest] /\ rest \subseteq work[p]
  BY DEF WaitForConflictingJob, TypeInv, TypeOK
<1> HIDE DEF row, rest
<1>4. TypeOK'
  <2>1. jobs' \in [Id -> Row \cup {NoRow}] /\ snap' \in [Proc -> [Id -> Row \cup {NoRow}]]
    BY <1>1, <1>2, SaveType DEF TypeInv, TypeOK
  <2> QED BY <1>3, <2>1 DEF TypeInv, TypeOK, WaitForConflictingJob, ghost
<1>5. WorkOf(p)'
  <2>1. pc'[p] = "pass" /\ work'[p] \subseteq work[p]
    BY <1>3 DEF WaitForConflictingJob, IsNext, TypeInv, TypeOK
  <2>2. \A j \in work[p] : j \in Id /\ OwnJob(snap[p][j], p)
    BY DEF WaitForConflictingJob, IsNext, TypeInv, WorkInv, WorkOf
  <2>3. \A j \in Id : snap'[p][j] \in {snap[p][j], row}
    BY <1>2 DEF Save, TypeInv, TypeOK
  <2>4. \A j \in work'[p] : j \in Id /\ OwnJob(snap'[p][j], p)
    BY <1>1, <2>1, <2>2, <2>3
  <2> QED BY <2>1, <2>4 DEF WorkOf
<1> QED BY <1>2, <1>3, <1>4, <1>5, OthersWork
        DEF TypeInv, TypeOK, WaitForConflictingJob, Save

LEMMA StartJobType ==
    ASSUME TypeInv, NEW p \in Proc, NEW i \in Id, StartJob(p, i) PROVE TypeInv'
<1> DEFINE row == [snap[p][i] EXCEPT !.status = RUNNING]
<1>1. row \in JobRow /\ OwnJob(row, p)
  <2>1. RUNNING \in Status
    BY DEF Status, RUNNING
  <2>2. row \in JobRow /\ row.owner = p
    BY <2>1, PassType DEF StartJob, OwnJob, JobRow
  <2> QED BY <2>2, RowKinds DEF OwnJob, Row
<1>2. Save(p, i, row)
  BY DEF StartJob
<1>3. snap[p][i].args \in Args \cup {NoArgs}
  BY PassType DEF StartJob, JobRow
<1> HIDE DEF row
<1>4. TypeOK'
  BY <1>1, <1>2, <1>3, SaveType DEF TypeInv, TypeOK, StartJob, Goto, PC
<1>5. WorkOf(p)'
  BY SMTT(30), <1>1, <1>2 DEF TypeInv, TypeOK, StartJob, Goto, Save, WorkInv, WorkOf, CurJob
<1> QED BY <1>2, <1>4, <1>5, OthersWork DEF TypeInv, TypeOK, StartJob, Goto, Save

LEMMA NothingToRunType ==
    ASSUME TypeInv, NEW p \in Proc, NothingToRun(p) PROVE TypeInv'
<1>1. WorkInv' /\ pc' \in [Proc -> PC]
  BY ForgottenWork DEF NothingToRun, PC
<1> QED BY <1>1, ForgetType DEF TypeInv, TypeOK, NothingToRun, db, ghost

\* The job whose function is being run, or has been.
LEMMA CurJobType ==
    ASSUME TypeInv, NEW p \in Proc, pc[p] \in {"run", "trigger"}
    PROVE  /\ cur[p] \in Id
           /\ CurJob(p) \in JobRow
           /\ OwnJob(CurJob(p), p)
           /\ CurEntry(p).triggers \in Seq([label : Label, always : BOOLEAN])
           /\ Results[FuncOf(CurJob(p))] \subseteq Result
<1>1. cur[p] \in Id /\ OwnJob(CurJob(p), p)
  BY DEF TypeInv, WorkInv, WorkOf
<1>2. CurJob(p) \in JobRow
  BY <1>1, MemoryType DEF TypeInv, CurJob
<1>3. CurJob(p).entry \in Entry
  BY <1>2 DEF JobRow
<1>4. /\ CurEntry(p).triggers \in Seq([label : Label, always : BOOLEAN])
      /\ FuncOf(CurJob(p)) \in Func
  BY <1>3, EntryType DEF CurEntry, FuncOf
<1> QED BY <1>1, <1>2, <1>4, JobScheduleAssumption

LEMMA FinishJobType ==
    ASSUME TypeInv, NEW p \in Proc, FinishJob(p) PROVE TypeInv'
<1> DEFINE triggers == CurEntry(p).triggers
<1>1. PICK res \in Results[FuncOf(CurJob(p))] :
        /\ Save(p, cur[p], AfterRun(CurJob(p), res, now[p], clock))
        /\ IF res.flag = "exception"
           THEN failures < MaxFail /\ failures' = failures + 1
           ELSE UNCHANGED failures
        /\ flag' = [flag EXCEPT ![p] = res.flag]
        /\ work' = [work EXCEPT ![p] =
                      {k \in DOMAIN triggers : res.count \/ triggers[k].always}]
  BY DEF FinishJob
<1>2. now' \in [Proc -> Nat]
  BY DEF FinishJob, TypeInv, TypeOK
<1>3. /\ cur[p] \in Id /\ CurJob(p) \in JobRow /\ OwnJob(CurJob(p), p)
      /\ triggers \in Seq([label : Label, always : BOOLEAN])
      /\ res \in Result
  BY <1>1, CurJobType DEF FinishJob
<1> DEFINE row == AfterRun(CurJob(p), res, now[p], clock)
           todo == {k \in DOMAIN triggers : res.count \/ triggers[k].always}
<1>4. row \in JobRow /\ row.entry = CurJob(p).entry /\ row.owner = p
  <2>1. now[p] \in Nat /\ clock \in Nat /\ CurJob(p).owner = p
    BY <1>3 DEF TypeInv, TypeOK, OwnJob
  <2> QED BY <1>3, <2>1, AfterRunType
<1>5. OwnJob(row, p)
  BY <1>4, RowKinds DEF OwnJob, Row
<1>6. todo \subseteq DOMAIN triggers /\ DOMAIN triggers \subseteq Nat
  <2> HIDE DEF triggers
  <2> QED BY <1>3
<1>7. Save(p, cur[p], row) /\ work' = [work EXCEPT ![p] = todo]
  BY <1>1
<1> HIDE DEF row, todo
<1>8. TypeOK'
  <2>1. jobs' \in [Id -> Row \cup {NoRow}] /\ snap' \in [Proc -> [Id -> Row \cup {NoRow}]]
    BY <1>3, <1>4, <1>7, SaveType DEF TypeInv
  <2>2. flag' \in [Proc -> Flag]
    BY <1>1, <1>3 DEF TypeInv, TypeOK, Flag, Result
  <2>3. failures' \in Nat
    BY <1>1 DEF TypeInv, TypeOK
  <2>4. work' \in [Proc -> SUBSET Nat]
    BY <1>6, <1>7 DEF TypeInv, TypeOK
  <2> QED BY <1>2, <2>1, <2>2, <2>3, <2>4 DEF TypeInv, TypeOK, FinishJob, Goto, PC, ghost
<1>9. WorkOf(p)'
  <2>1. /\ pc'[p] = "trigger" /\ cur'[p] = cur[p]
        /\ snap'[p][cur[p]] = row
        /\ work'[p] = todo
    BY <1>3, <1>7 DEF TypeInv, TypeOK, FinishJob, Goto, Save
  <2>2. CurJob(p)' = row /\ DOMAIN (CurEntry(p)').triggers = DOMAIN triggers
    BY <1>4, <2>1 DEF CurJob, CurEntry
  <2> QED BY <1>3, <1>5, <1>6, <2>1, <2>2 DEF WorkOf
<1> QED BY <1>7, <1>8, <1>9, OthersWork DEF TypeInv, TypeOK, FinishJob, Goto, Save

LEMMA TriggerNextType ==
    ASSUME TypeInv, NEW p \in Proc, TriggerNext(p) PROVE TypeInv'
<1>1. PICK k \in work[p] :
        /\ work' = [work EXCEPT ![p] = @ \ {k}]
        /\ LET label   == CurEntry(p).triggers[k].label
               matches == {i \in Id : IsJob(snap[p][i]) /\ LabelOf(snap[p][i]) = label}
           IN  \/ UNCHANGED <<db, snap>>
               \/ \E i \in matches :
                  \/ /\ snap[p][i].owner = p
                     /\ Save(p, i, Triggered(snap[p][i], now[p], NoArgs))
                     /\ UNCHANGED nextId
                  \/ /\ Insert([label |-> label, owner |-> p, prio |-> PRIMER,
                                created |-> clock, args |-> NoArgs])
                     /\ UNCHANGED snap
  BY DEF TriggerNext
<1> DEFINE label  == CurEntry(p).triggers[k].label
           primer == [label |-> label, owner |-> p, prio |-> PRIMER,
                      created |-> clock, args |-> NoArgs]
           row(i) == Triggered(snap[p][i], now[p], NoArgs)
<1>2. /\ cur[p] \in Id /\ CurJob(p) \in JobRow /\ OwnJob(CurJob(p), p)
      /\ CurEntry(p).triggers \in Seq([label : Label, always : BOOLEAN])
      /\ k \in DOMAIN CurEntry(p).triggers
  BY <1>1, CurJobType DEF TriggerNext, TypeInv, WorkInv, WorkOf
<1>3. primer \in Row
  <2>1. label \in Label
    <3> DEFINE triggers   == CurEntry(p).triggers
               TriggerSet == [label : Label, always : BOOLEAN]
    <3>1. triggers \in Seq(TriggerSet) /\ k \in DOMAIN triggers
      BY <1>2
    <3> HIDE DEF triggers, TriggerSet
    <3>2. triggers[k] \in TriggerSet
      BY <3>1
    <3> QED BY <3>2 DEF triggers, TriggerSet
  <2> HIDE DEF label
  <2>2. primer \in PrimerRow
    BY <2>1 DEF PrimerRow, TypeInv, TypeOK
  <2> QED BY <2>2 DEF Row
<1>4. ASSUME NEW i \in Id, IsJob(snap[p][i]), snap[p][i].owner = p
      PROVE  /\ row(i) \in JobRow /\ OwnJob(row(i), p)
             /\ row(i).entry = snap[p][i].entry
  <2>1. snap[p][i] \in JobRow
    BY <1>4, MemoryType DEF TypeInv, OwnJob
  <2>2. row(i) \in JobRow /\ row(i).owner = p /\ row(i).entry = snap[p][i].entry
    BY <1>4, <2>1, TriggeredType DEF TypeInv, TypeOK
  <2> HIDE DEF row
  <2> QED BY <2>2, RowKinds DEF OwnJob, Row
<1>5. \/ UNCHANGED <<db, snap>>
      \/ \E i \in Id : /\ IsJob(snap[p][i]) /\ snap[p][i].owner = p
                       /\ Save(p, i, row(i)) /\ UNCHANGED nextId
      \/ Insert(primer) /\ UNCHANGED snap
  BY <1>1
<1> HIDE DEF label, primer, row
<1>6. TypeOK'
  <2>1. /\ jobs' \in [Id -> Row \cup {NoRow}]
        /\ nextId' \in 1 .. MaxId + 1
        /\ snap' \in [Proc -> [Id -> Row \cup {NoRow}]]
    <3>1. CASE UNCHANGED <<db, snap>>
      BY <3>1 DEF TypeInv, TypeOK, db
    <3>2. CASE \E i \in Id : /\ IsJob(snap[p][i]) /\ snap[p][i].owner = p
                             /\ Save(p, i, row(i)) /\ UNCHANGED nextId
      <4>1. PICK i \in Id : /\ IsJob(snap[p][i]) /\ snap[p][i].owner = p
                            /\ Save(p, i, row(i)) /\ UNCHANGED nextId
        BY <3>2
      <4>2. row(i) \in JobRow
        BY <1>4, <4>1
      <4> QED BY <4>1, <4>2, SaveType DEF TypeInv, TypeOK
    <3>3. CASE Insert(primer) /\ UNCHANGED snap
      BY <1>3, <3>3, InsertType DEF TypeInv, TypeOK
    <3> QED BY <1>5, <3>1, <3>2, <3>3
  <2> QED BY <1>1, <2>1 DEF TypeInv, TypeOK, TriggerNext, ghost
<1>7. /\ OwnJob(CurJob(p)', p)
      /\ (CurJob(p)').entry = CurJob(p).entry
      /\ \A q \in Proc \ {p} : snap'[q] = snap[q]
  <2>1. CASE UNCHANGED snap
    BY <1>2, <2>1 DEF CurJob, TriggerNext
  <2>2. CASE \E i \in Id : /\ IsJob(snap[p][i]) /\ snap[p][i].owner = p
                           /\ Save(p, i, row(i))
    BY <1>2, <1>4, <2>2 DEF CurJob, TriggerNext, Save, TypeInv, TypeOK
  <2> QED BY <1>5, <2>1, <2>2 DEF db
<1>8. WorkOf(p)'
  <2>1. /\ pc'[p] = "trigger" /\ cur'[p] = cur[p]
        /\ work'[p] \subseteq work[p]
    BY <1>1 DEF TypeInv, TypeOK, TriggerNext
  <2>2. (CurEntry(p)').triggers = CurEntry(p).triggers
    BY <1>7 DEF CurEntry
  <2>3. work[p] \subseteq DOMAIN CurEntry(p).triggers
    BY DEF TriggerNext, TypeInv, WorkInv, WorkOf
  <2> QED BY <1>2, <1>7, <2>1, <2>2, <2>3 DEF WorkOf
<1> QED BY <1>1, <1>6, <1>7, <1>8, OthersWork DEF TypeInv, TypeOK, TriggerNext

LEMMA AfterJobType ==
    ASSUME TypeInv, NEW p \in Proc, AfterJob(p) PROVE TypeInv'
<1>1. PICK l \in {"ending", "sleep"} : Goto(p, l)
  BY DEF AfterJob
<1>2. WorkInv' /\ pc' \in [Proc -> PC]
  BY <1>1, ForgottenWork DEF AfterJob, PC
<1>3. deferred' \in [Proc -> Time]
  BY DeferType DEF AfterJob, TypeInv, TypeOK
<1> QED BY <1>2, <1>3, ForgetType DEF TypeInv, TypeOK, AfterJob, db, ghost

LEMMA EndScheduleType ==
    ASSUME TypeInv, NEW p \in Proc, EndSchedule(p) PROVE TypeInv'
<1>1. jobs' \in [Id -> Row \cup {NoRow}] /\ nextId' \in 1 .. MaxId + 1
  <2>1. EmptyTable \in [Id -> Row \cup {NoRow}] /\ 1 \in 1 .. MaxId + 1
    BY JobScheduleAssumption DEF EmptyTable
  <2> QED BY <2>1, WithoutOwnedType DEF EndSchedule, TypeInv, TypeOK
<1>2. TypeOK'
  <2>1. NoTime \in Time
    BY DEF Time
  <2> QED BY <1>1, <2>1 DEF TypeInv, TypeOK, EndSchedule, Goto, PC, Flag, ghost
<1>3. WorkOf(p)'
  BY DEF TypeInv, TypeOK, EndSchedule, Goto, WorkOf
<1> QED BY <1>2, <1>3, OthersWork DEF TypeInv, TypeOK, EndSchedule, Goto

LEMMA CrashType ==
    ASSUME TypeInv, NEW p \in Proc, Crash(p) PROVE TypeInv'
<1>1. WorkInv' /\ pc' \in [Proc -> PC]
  BY ForgottenWork DEF Crash, PC
<1>2. /\ flag' \in [Proc -> Flag]
      /\ deferred' \in [Proc -> Time]
      /\ failures' \in Nat
  BY DEF TypeInv, TypeOK, Crash, Flag, Time
<1>3. UNCHANGED <<jobs, nextId, clock, requested, ran>>
  BY DEF Crash, db, ghost
<1>4. /\ snap' \in [Proc -> [Id -> Row \cup {NoRow}]]
      /\ work' \in [Proc -> SUBSET Nat]
      /\ now' \in [Proc -> Nat]
      /\ cur' \in [Proc -> Id \cup {0}]
  BY ForgetType DEF Crash, TypeInv
<1> QED BY <1>1, <1>2, <1>3, <1>4 DEF TypeInv, TypeOK

LEMMA RequestReportType ==
    ASSUME TypeInv, NEW a \in Args, RequestReport(a) PROVE TypeInv'
<1> DEFINE primer == [label |-> GuiLabel, owner |-> Gui, prio |-> PRIMER,
                      created |-> clock, args |-> a]
<1>1. primer \in Row
  BY JobScheduleAssumption DEF Row, PrimerRow, TypeInv, TypeOK
<1>2. Insert(primer)
  BY DEF RequestReport
<1> HIDE DEF primer
<1>3. TypeOK'
  BY <1>1, <1>2, InsertType DEF TypeInv, TypeOK, RequestReport
<1>4. WorkInv'
  BY DEF TypeInv, WorkInv, WorkOf, CurJob, CurEntry, RequestReport
<1> QED BY <1>3, <1>4 DEF TypeInv

\* A step that leaves the programs alone.
LEMMA OtherStepType ==
    ASSUME TypeInv, Tick \/ UNCHANGED vars PROVE TypeInv'
<1>1. UNCHANGED <<jobs, nextId, pc, snap, work, now, cur, flag, deferred,
                  requested, ran, failures>>
  BY DEF Tick, vars, db, ghost
<1>2. clock' \in Nat
  BY DEF TypeInv, TypeOK, Tick, vars
<1>3. TypeOK'
  BY <1>1, <1>2 DEF TypeInv, TypeOK
<1>4. WorkInv'
  BY <1>1 DEF TypeInv, WorkInv, WorkOf, CurJob, CurEntry
<1> QED BY <1>3, <1>4 DEF TypeInv

LEMMA TypeStep == TypeInv /\ [Next]_vars => TypeInv'
<1> SUFFICES ASSUME TypeInv, [Next]_vars PROVE TypeInv'
  OBVIOUS
<1>1. ASSUME NEW p \in Proc, Step(p) PROVE TypeInv'
  BY <1>1, RestartType, AddJobType, InitDoneType, ReadJobsType, ExpireJobType,
     TriggerPrimedJobType, EndDeferredType, NoActiveJobsType, ReloadScheduleType,
     ReloadDoneType, BeginPassType, PassOverLateJobType, WaitForConflictingJobType,
     StartJobType, NothingToRunType, FinishJobType, TriggerNextType, AfterJobType,
     EndScheduleType DEF Step
<1> QED BY <1>1, CrashType, RequestReportType, OtherStepType DEF Next

\* In every reachable state each record of the table is a whole job or a whole
\* primer, the counter is one past an id the model allows, and what a program
\* has in memory are such records: every row that Job.save, Job.delete and the
\* creation of primers write is well formed, the ones that overwrite a record
\* whose id another program's TRUNCATE has handed out again included.
THEOREM TypeCorrect == Spec => []TypeOK
<1>1. Spec => []TypeInv
  BY InitType, TypeStep, PTL DEF Spec
<1>2. TypeInv => TypeOK
  BY DEF TypeInv
<1> QED BY <1>1, <1>2, PTL

-----------------------------------------------------------------------------
(***************************************************************************)
(* The inductive invariant, of one program p.  OneRecordPerEntry is not    *)
(* inductive: after a TRUNCATE the ids of the records a program has in     *)
(* memory belong to anybody, so what counts is that no record of its own   *)
(* sits at an id other than the one in memory.                             *)
(***************************************************************************)

\* p has at most one record for an entry of the schedule ...
Unique(p) ==
    \A i, j \in Id :
        OwnJob(jobs[i], p) /\ OwnJob(jobs[j], p) /\ jobs[i].entry = jobs[j].entry
        => i = j

\* ... none that is RUNNING but the one it runs ...
Real(p) ==
    \A i \in Id : OwnJob(jobs[i], p) /\ jobs[i].status = RUNNING =>
        pc[p] = "down" \/ (pc[p] = "run" /\ cur[p] = i)

\* ... none of an entry it has still to insert, while it creates its schedule ...
Creation(p) ==
    pc[p] \in {"init", "reload"} =>
        \A i \in Id : OwnJob(jobs[i], p) => jobs[i].entry \notin work[p]

\* ... and, from its read of the table to the end of the loop, one job in memory
\* per entry, with the id of its record of that entry, if the table has one.
Memory(p) ==
    pc[p] \in {"load", "pass", "run", "trigger"} =>
        \A i, j \in Id :
            /\ OwnJob(snap[p][j], p)
            /\ \/ OwnJob(jobs[i], p) /\ jobs[i].entry = snap[p][j].entry
               \/ OwnJob(snap[p][i], p) /\ snap[p][i].entry = snap[p][j].entry
            => i = j

OwnInv(p) == Unique(p) /\ Real(p) /\ Creation(p) /\ Memory(p)

IndInv == TypeInv /\ \A p \in Proc : OwnInv(p)

-----------------------------------------------------------------------------
\* An action of p leaves alone what the invariant says of another program, if all
\* it does to job records is to remove some and to write some of its own.
LEMMA OthersOwn ==
    ASSUME IndInv, NEW p \in Proc, OwnInv(p)',
           \A q \in Proc \ {p} : /\ pc'[q] = pc[q] /\ work'[q] = work[q]
                                 /\ snap'[q] = snap[q] /\ cur'[q] = cur[q],
           \A i \in Id : IsJob(jobs'[i]) => jobs'[i] = jobs[i] \/ jobs'[i].owner = p
    PROVE  \A q \in Proc : OwnInv(q)'
<1> SUFFICES ASSUME NEW q \in Proc \ {p} PROVE OwnInv(q)'
  OBVIOUS
<1>1. \A i \in Id : OwnJob(jobs'[i], q) => jobs'[i] = jobs[i]
  BY DEF OwnJob
<1>2. OwnInv(q)
  BY DEF IndInv
<1>3. Unique(q)'
  BY <1>1, <1>2 DEF OwnInv, Unique
<1>4. Real(q)'
  BY <1>1, <1>2 DEF OwnInv, Real
<1>5. Creation(q)'
  BY <1>1, <1>2 DEF OwnInv, Creation
<1>6. Memory(q)'
  BY <1>1, <1>2 DEF OwnInv, Memory
<1> QED BY <1>3, <1>4, <1>5, <1>6 DEF OwnInv

\* p has not touched the table and goes to where it has nothing in memory.
LEMMA ForgottenOwn ==
    ASSUME IndInv, NEW p \in Proc, UNCHANGED jobs,
           pc'[p] \in {"down", "sleep", "ending"},
           pc'[p] = "down" \/ pc[p] \notin {"down", "run"}
    PROVE  OwnInv(p)'
<1>1. OwnInv(p)
  BY DEF IndInv
<1> QED BY <1>1 DEF OwnInv, Unique, Real, Creation, Memory

\* p has no record left.
LEMMA WithoutOwnedOwn ==
    ASSUME IndInv, NEW p \in Proc,
           jobs' = WithoutOwned(p) \/ jobs' = EmptyTable,
           pc'[p] \in {"init", "reload", "down"}
    PROVE  /\ OwnInv(p)'
           /\ \A i \in Id : IsJob(jobs'[i]) => jobs'[i] = jobs[i]
<1>1. \A i \in Id : ~ OwnJob(jobs'[i], p)
  BY DEF WithoutOwned, EmptyTable, OwnJob, IsJob
<1>2. \A i \in Id : IsJob(jobs'[i]) => jobs'[i] = jobs[i]
  BY DEF WithoutOwned, EmptyTable, IsJob
<1> QED BY <1>1, <1>2 DEF OwnInv, Unique, Real, Creation, Memory

\* A record that is not a job has been added: no program is concerned.
LEMMA PrimerOwn ==
    ASSUME IndInv, NEW row, row.prio = PRIMER, Insert(row), UNCHANGED <<snap, pc, cur>>,
           NEW q \in Proc, work'[q] = work[q] \/ pc[q] = "trigger"
    PROVE  /\ OwnInv(q)'
           /\ \A i \in Id : IsJob(jobs'[i]) => jobs'[i] = jobs[i]
<1>1. ~ IsJob(row)
  BY DEF IsJob
<1>2. \A i \in Id : IsJob(jobs'[i]) => jobs'[i] = jobs[i]
  BY <1>1 DEF Insert, IndInv, TypeInv, TypeOK
<1>3. \A i \in Id : OwnJob(jobs'[i], q) => jobs'[i] = jobs[i]
  BY <1>2 DEF OwnJob
<1>4. OwnInv(q)
  BY DEF IndInv
<1> QED BY <1>2, <1>3, <1>4 DEF OwnInv, Unique, Real, Creation, Memory

\* p has saved job i of its memory, under the same entry, or has deleted it.  A
\* record it marks as RUNNING is the one it is about to run, and once it has saved
\* the job it has run no other is.
LEMMA SavedOwn ==
    ASSUME IndInv, NEW p \in Proc, NEW i \in Id, NEW row \in JobRow,
           pc[p] \in {"load", "pass", "run", "trigger"},
           pc'[p] \in {"load", "pass", "run", "trigger"},
           OwnJob(snap[p][i], p),
           row.owner = p, row.entry = snap[p][i].entry,
           pc[p] = "run" => i = cur[p],
           row.status = RUNNING => pc'[p] = "run" /\ cur'[p] = i,
           \A j \in Id : \/ jobs'[j] = NoRow
                         \/ j # i /\ jobs'[j] = jobs[j]
                         \/ j = i /\ jobs'[j] = row,
           \A j \in Id : \/ snap'[p][j] = NoRow
                         \/ j # i /\ snap'[p][j] = snap[p][j]
                         \/ j = i /\ snap'[p][j] = row
    PROVE  /\ OwnInv(p)'
           /\ \A j \in Id : IsJob(jobs'[j]) => jobs'[j] = jobs[j] \/ jobs'[j].owner = p
<1>1. OwnInv(p)
  BY DEF IndInv
<1>2. ~ OwnJob(NoRow, p)
  BY DEF OwnJob, IsJob
<1>3. OwnJob(row, p)
  BY RowKinds DEF OwnJob, Row
<1>4. Unique(p)'
  <2> SUFFICES ASSUME NEW j \in Id, NEW k \in Id,
                      OwnJob(jobs'[j], p), OwnJob(jobs'[k], p),
                      jobs'[j].entry = jobs'[k].entry
               PROVE  j = k
    BY DEF Unique
  <2>1. CASE j # i /\ k # i
    BY <1>1, <1>2, <2>1 DEF OwnInv, Unique
  <2>2. CASE j # i /\ k = i
    BY <1>1, <1>2, <2>2 DEF OwnInv, Memory
  <2>3. CASE j = i /\ k # i
    BY <1>1, <1>2, <2>3 DEF OwnInv, Memory
  <2> QED BY <2>1, <2>2, <2>3
<1>5. Real(p)'
  BY <1>1, <1>2 DEF OwnInv, Real
<1>6. Creation(p)'
  BY DEF Creation
<1>7. Memory(p)'
  <2> SUFFICES ASSUME NEW j \in Id, NEW k \in Id, OwnJob(snap'[p][k], p),
                      \/ OwnJob(jobs'[j], p) /\ jobs'[j].entry = snap'[p][k].entry
                      \/ OwnJob(snap'[p][j], p) /\ snap'[p][j].entry = snap'[p][k].entry
               PROVE  j = k
    BY DEF Memory
  <2>1. OwnJob(snap[p][k], p) /\ snap[p][k].entry = snap'[p][k].entry
    BY <1>2
  <2>2. \/ OwnJob(jobs[j], p) /\ jobs[j].entry = snap[p][k].entry
        \/ OwnJob(snap[p][j], p) /\ snap[p][j].entry = snap[p][k].entry
    BY <1>2, <2>1
  <2> QED BY <1>1, <2>1, <2>2 DEF OwnInv, Memory
<1>8. \A j \in Id : IsJob(jobs'[j]) => jobs'[j] = jobs[j] \/ jobs'[j].owner = p
  BY DEF IsJob
<1> QED BY <1>4, <1>5, <1>6, <1>7, <1>8 DEF OwnInv

\* What Save does, in the terms of SavedOwn.
LEMMA SaveRecords ==
    ASSUME IndInv, NEW p \in Proc, NEW i \in Id, NEW row, Save(p, i, row)
    PROVE  /\ \A j \in Id : \/ jobs'[j] = NoRow
                            \/ j # i /\ jobs'[j] = jobs[j]
                            \/ j = i /\ jobs'[j] = row
           /\ \A j \in Id : \/ snap'[p][j] = NoRow
                            \/ j # i /\ snap'[p][j] = snap[p][j]
                            \/ j = i /\ snap'[p][j] = row
           /\ \A q \in Proc \ {p} : snap'[q] = snap[q]
BY DEF Save, Updated, IndInv, TypeInv, TypeOK

LEMMA SaveAndDeleteRecords ==
    ASSUME IndInv, NEW i \in Id, NEW row, NEW m, SaveAndDelete(i, row, m)
    PROVE  \A j \in Id : \/ jobs'[j] = NoRow
                         \/ j # i /\ jobs'[j] = jobs[j]
                         \/ j = i /\ jobs'[j] = row
BY DEF SaveAndDelete, Updated, IndInv, TypeInv, TypeOK

-----------------------------------------------------------------------------
\* One action at a time

LEMMA InitInv == Init => IndInv
<1> SUFFICES ASSUME Init PROVE IndInv
  OBVIOUS
<1>1. \A p \in Proc, i \in Id : ~ OwnJob(jobs[i], p)
  BY DEF Init, EmptyTable, OwnJob, IsJob
<1>2. \A p \in Proc : OwnInv(p)
  BY <1>1 DEF Init, OwnInv, Unique, Real, Creation, Memory
<1> QED BY <1>2, InitType DEF IndInv

\* The program begins a schedule, or ends it: it removes all its records.
LEMMA RemoveInv ==
    ASSUME IndInv, NEW p \in Proc, Restart(p) \/ ReloadSchedule(p) \/ EndSchedule(p)
    PROVE  \A q \in Proc : OwnInv(q)'
<1>1. /\ jobs' = WithoutOwned(p) \/ jobs' = EmptyTable
      /\ pc'[p] \in {"init", "reload", "down"}
  BY DEF Restart, ReloadSchedule, EndSchedule, Goto, IndInv, TypeInv, TypeOK
<1>2. \A q \in Proc \ {p} : /\ pc'[q] = pc[q] /\ work'[q] = work[q]
                            /\ snap'[q] = snap[q] /\ cur'[q] = cur[q]
  BY DEF Restart, ReloadSchedule, EndSchedule, Goto, IndInv, TypeInv, TypeOK
<1> QED BY <1>1, <1>2, WithoutOwnedOwn, OthersOwn

\* The entry is the next of those still to come, so it has no record yet.
LEMMA AddJobInv ==
    ASSUME IndInv, NEW p \in Proc, AddJob(p) PROVE \A q \in Proc : OwnInv(q)'
<1>1. PICK e \in work[p] :
        /\ Insert(NewJob(p, e, now[p]))
        /\ work' = [work EXCEPT ![p] = @ \ {e}]
  BY DEF AddJob
<1> DEFINE job == NewJob(p, e, now[p])
<1>2. job.status # RUNNING /\ job.owner = p /\ job.entry = e
  <2>1. e \in Entry /\ now[p] \in Nat
    BY DEF AddJob, IndInv, TypeInv, TypeOK, WorkInv, WorkOf, OwnEntries
  <2> QED BY <2>1, NewJobType
<1> HIDE DEF job
<1>3. \A i \in Id : jobs'[i] = jobs[i] \/ (i = nextId /\ jobs'[i] = job)
  BY <1>1 DEF Insert, IndInv, TypeInv, TypeOK, job
<1>4. OwnInv(p) /\ pc[p] \in {"init", "reload"} /\ pc'[p] = pc[p]
  BY DEF IndInv, AddJob
<1>5. \A i \in Id : OwnJob(jobs[i], p) => jobs[i].entry # e
  BY <1>4 DEF OwnInv, Creation
<1>6. Unique(p)'
  BY <1>2, <1>3, <1>4, <1>5 DEF OwnInv, Unique
<1>7. Real(p)'
  BY <1>2, <1>3, <1>4 DEF OwnInv, Real
<1>8. Creation(p)'
  <2>1. work'[p] = work[p] \ {e}
    BY <1>1 DEF IndInv, TypeInv, TypeOK
  <2> QED BY <1>2, <1>3, <1>4, <2>1 DEF OwnInv, Creation
<1>9. Memory(p)'
  BY <1>4 DEF Memory
<1>10. \A i \in Id : IsJob(jobs'[i]) => jobs'[i] = jobs[i] \/ jobs'[i].owner = p
  BY <1>2, <1>3
<1>11. \A q \in Proc \ {p} : /\ pc'[q] = pc[q] /\ work'[q] = work[q]
                             /\ snap'[q] = snap[q] /\ cur'[q] = cur[q]
  BY DEF AddJob, IndInv, TypeInv, TypeOK
<1> QED BY <1>6, <1>7, <1>8, <1>9, <1>10, <1>11, OthersOwn DEF OwnInv

\* The program is done with what it has in memory, or stops dead.
LEMMA ForgetInv ==
    ASSUME IndInv, NEW p \in Proc,
           \/ InitDone(p) \/ EndDeferred(p) \/ NoActiveJobs(p) \/ ReloadDone(p)
           \/ NothingToRun(p) \/ AfterJob(p) \/ Crash(p)
           \/ BeginPass(p) /\ DueJobs(p, clock) = {}
    PROVE  \A q \in Proc : OwnInv(q)'
<1>1. UNCHANGED jobs /\ Forget(p)
  BY DEF InitDone, EndDeferred, NoActiveJobs, ReloadDone, NothingToRun, AfterJob,
         Crash, BeginPass, db
<1>2. PICK l \in {"down", "sleep", "ending"} :
         Goto(p, l) /\ (l = "down" \/ pc[p] \notin {"down", "run"})
  BY DEF InitDone, EndDeferred, NoActiveJobs, ReloadDone, NothingToRun, AfterJob,
         Crash, BeginPass, EndWithoutJobs
<1>3. pc'[p] = l /\ \A q \in Proc \ {p} : /\ pc'[q] = pc[q] /\ work'[q] = work[q]
                                          /\ snap'[q] = snap[q] /\ cur'[q] = cur[q]
  BY <1>1, <1>2 DEF Goto, Forget, IndInv, TypeInv, TypeOK
<1> QED BY <1>1, <1>2, <1>3, ForgottenOwn, OthersOwn

\* What has been read is the table: it has one record per entry.
LEMMA ReadJobsInv ==
    ASSUME IndInv, NEW p \in Proc, ReadJobs(p) PROVE \A q \in Proc : OwnInv(q)'
<1>1. /\ UNCHANGED jobs
      /\ pc[p] = "sleep" /\ pc'[p] = "load"
      /\ \A i \in Id : snap'[p][i] = jobs[i] \/ snap'[p][i] = NoRow
      /\ \A q \in Proc \ {p} : /\ pc'[q] = pc[q] /\ work'[q] = work[q]
                               /\ snap'[q] = snap[q] /\ cur'[q] = cur[q]
  BY DEF ReadJobs, Goto, db, IndInv, TypeInv, TypeOK
<1>2. ~ OwnJob(NoRow, p)
  BY DEF OwnJob, IsJob
<1>3. OwnInv(p)
  BY DEF IndInv
<1>4. OwnInv(p)'
  BY <1>1, <1>2, <1>3 DEF OwnInv, Unique, Real, Creation, Memory
<1> QED BY <1>1, <1>4, OthersOwn

LEMMA BeginPassInv ==
    ASSUME IndInv, NEW p \in Proc, BeginPass(p) PROVE \A q \in Proc : OwnInv(q)'
<1>1. CASE DueJobs(p, clock) = {}
  BY <1>1, ForgetInv
<1>2. CASE DueJobs(p, clock) # {}
  <2>1. /\ UNCHANGED <<jobs, snap, cur>>
        /\ pc[p] = "load" /\ pc'[p] = "pass"
        /\ \A q \in Proc \ {p} : pc'[q] = pc[q] /\ work'[q] = work[q]
    BY <1>2 DEF BeginPass, Goto, db, IndInv, TypeInv, TypeOK
  <2>2. OwnInv(p)
    BY DEF IndInv
  <2>3. OwnInv(p)'
    BY <2>1, <2>2 DEF OwnInv, Unique, Real, Creation, Memory
  <2> QED BY <2>1, <2>3, OthersOwn
<1> QED BY <1>1, <1>2

LEMMA ExpireJobInv ==
    ASSUME IndInv, NEW p \in Proc, NEW i \in Id, ExpireJob(p, i)
    PROVE  \A q \in Proc : OwnInv(q)'
<1> DEFINE row == Ended(snap[p][i])
<1>1. snap[p][i] \in JobRow /\ OwnJob(snap[p][i], p)
  BY MemoryType DEF ExpireJob, TooLateJobs, IndInv, TypeInv
<1>2. row \in JobRow /\ row.owner = p /\ row.entry = snap[p][i].entry /\ row.status # RUNNING
  BY <1>1, EndedType DEF OwnJob
<1>3. \E m : SaveAndDelete(i, row, m)
  BY DEF ExpireJob
<1> HIDE DEF row
<1>4. \A j \in Id : \/ jobs'[j] = NoRow
                    \/ j # i /\ jobs'[j] = jobs[j]
                    \/ j = i /\ jobs'[j] = row
  BY <1>3, SaveAndDeleteRecords
<1>5. /\ pc[p] = "load" /\ UNCHANGED <<pc, cur>>
      /\ \A j \in Id : snap'[p][j] = NoRow \/ (j # i /\ snap'[p][j] = snap[p][j])
      /\ \A q \in Proc \ {p} : snap'[q] = snap[q] /\ work'[q] = work[q]
  BY DEF ExpireJob, IndInv, TypeInv, TypeOK
<1> QED BY <1>1, <1>2, <1>4, <1>5, SavedOwn, OthersOwn

LEMMA TriggerPrimedJobInv ==
    ASSUME IndInv, NEW p \in Proc, NEW i \in Id, TriggerPrimedJob(p, i)
    PROVE  \A q \in Proc : OwnInv(q)'
<1>1. PICK m \in PrimersFor(p, LabelOf(snap[p][i])) :
        LET row == Triggered(snap[p][i], snap[p][m].created, snap[p][m].args)
        IN  SaveAndDelete(i, row, {m}) /\ snap' = [snap EXCEPT ![p][i] = row]
  BY DEF TriggerPrimedJob
<1> DEFINE row == Triggered(snap[p][i], snap[p][m].created, snap[p][m].args)
<1>2. snap[p][i] \in JobRow /\ OwnJob(snap[p][i], p)
  BY MemoryType DEF TriggerPrimedJob, IndInv, TypeInv, WorkInv, WorkOf
<1>3. snap[p][m] \in PrimerRow
  BY MemoryType, RowKinds DEF PrimersFor, IndInv, TypeInv
<1>4. row \in JobRow /\ row.owner = p /\ row.entry = snap[p][i].entry /\ row.status # RUNNING
  BY <1>2, <1>3, TriggeredType DEF PrimerRow, OwnJob
<1>5. SaveAndDelete(i, row, {m}) /\ snap' = [snap EXCEPT ![p][i] = row]
  BY <1>1
<1> HIDE DEF row
<1>6. \A j \in Id : \/ jobs'[j] = NoRow
                    \/ j # i /\ jobs'[j] = jobs[j]
                    \/ j = i /\ jobs'[j] = row
  BY <1>5, SaveAndDeleteRecords
<1>7. /\ pc[p] = "load" /\ UNCHANGED <<pc, cur>>
      /\ \A j \in Id : (j = i /\ snap'[p][j] = row) \/ (j # i /\ snap'[p][j] = snap[p][j])
      /\ \A q \in Proc \ {p} : snap'[q] = snap[q] /\ work'[q] = work[q]
  BY <1>5 DEF TriggerPrimedJob, IndInv, TypeInv, TypeOK
<1> QED BY <1>2, <1>4, <1>6, <1>7, SavedOwn, OthersOwn

LEMMA PassOverLateJobInv ==
    ASSUME IndInv, NEW p \in Proc, NEW i \in Id, PassOverLateJob(p, i)
    PROVE  \A q \in Proc : OwnInv(q)'
<1> DEFINE row == Ended(snap[p][i])
<1>1. snap[p][i] \in JobRow /\ OwnJob(snap[p][i], p)
  BY PassType DEF PassOverLateJob, IndInv
<1>2. row \in JobRow /\ row.owner = p /\ row.entry = snap[p][i].entry /\ row.status # RUNNING
  BY <1>1, EndedType DEF OwnJob
<1>3. Save(p, i, row)
  BY DEF PassOverLateJob
<1> HIDE DEF row
<1>4. /\ pc[p] = "pass" /\ UNCHANGED <<pc, cur>>
      /\ \A q \in Proc \ {p} : work'[q] = work[q]
  BY DEF PassOverLateJob, IsNext, IndInv, TypeInv, TypeOK
<1> QED BY <1>1, <1>2, <1>3, <1>4, SaveRecords, SavedOwn, OthersOwn

LEMMA WaitForConflictingJobInv ==
    ASSUME IndInv, NEW p \in Proc, NEW i \in Id, WaitForConflictingJob(p, i)
    PROVE  \A q \in Proc : OwnInv(q)'
<1> DEFINE row == [snap[p][i] EXCEPT !.status = WAITING]
<1>1. snap[p][i] \in JobRow /\ OwnJob(snap[p][i], p)
  BY PassType DEF WaitForConflictingJob, IndInv
<1>2. row \in JobRow /\ row.owner = p /\ row.entry = snap[p][i].entry /\ row.status # RUNNING
  <2>1. WAITING \in Status /\ WAITING # RUNNING
    BY DEF Status, WAITING, RUNNING
  <2> QED BY <1>1, <2>1 DEF OwnJob, JobRow
<1>3. UNCHANGED <<jobs, snap>> \/ Save(p, i, row)
  BY DEF WaitForConflictingJob
<1> HIDE DEF row
<1>4. /\ pc[p] = "pass" /\ UNCHANGED <<pc, cur>>
      /\ \A q \in Proc \ {p} : work'[q] = work[q]
  BY DEF WaitForConflictingJob, IsNext, IndInv, TypeInv, TypeOK
<1>5. CASE UNCHANGED <<jobs, snap>>
  <2>1. OwnInv(p)
    BY DEF IndInv
  <2>2. OwnInv(p)'
    BY <1>4, <1>5, <2>1 DEF OwnInv, Unique, Real, Creation, Memory
  <2> QED BY <1>4, <1>5, <2>2, OthersOwn
<1>6. CASE Save(p, i, row)
  BY <1>1, <1>2, <1>4, <1>6, SaveRecords, SavedOwn, OthersOwn
<1> QED BY <1>3, <1>5, <1>6

LEMMA StartJobInv ==
    ASSUME IndInv, NEW p \in Proc, NEW i \in Id, StartJob(p, i)
    PROVE  \A q \in Proc : OwnInv(q)'
<1> DEFINE row == [snap[p][i] EXCEPT !.status = RUNNING]
<1>1. snap[p][i] \in JobRow /\ OwnJob(snap[p][i], p)
  BY PassType DEF StartJob, IndInv
<1>2. row \in JobRow /\ row.owner = p /\ row.entry = snap[p][i].entry
  <2>1. RUNNING \in Status
    BY DEF Status, RUNNING
  <2> QED BY <1>1, <2>1 DEF OwnJob, JobRow
<1>3. Save(p, i, row)
  BY DEF StartJob
<1> HIDE DEF row
<1>4. /\ pc[p] = "pass" /\ pc'[p] = "run" /\ cur'[p] = i
      /\ \A q \in Proc \ {p} : pc'[q] = pc[q] /\ cur'[q] = cur[q] /\ work'[q] = work[q]
  BY DEF StartJob, Goto, IsNext, IndInv, TypeInv, TypeOK
<1> QED BY <1>1, <1>2, <1>3, <1>4, SaveRecords, SavedOwn, OthersOwn

LEMMA FinishJobInv ==
    ASSUME IndInv, NEW p \in Proc, FinishJob(p) PROVE \A q \in Proc : OwnInv(q)'
<1>1. PICK res \in Results[FuncOf(CurJob(p))] :
         Save(p, cur[p], AfterRun(CurJob(p), res, now[p], clock))
  BY DEF FinishJob
<1> DEFINE i == cur[p]
           row == AfterRun(CurJob(p), res, now[p], clock)
<1>2. i \in Id /\ snap[p][i] \in JobRow /\ OwnJob(snap[p][i], p)
  BY CurJobType DEF FinishJob, IndInv, CurJob
<1>3. row \in JobRow /\ row.owner = p /\ row.entry = snap[p][i].entry /\ row.status # RUNNING
  <2>1. now[p] \in Nat /\ clock \in Nat
    BY DEF IndInv, TypeInv, TypeOK
  <2> QED BY <1>2, <2>1, AfterRunType DEF OwnJob, CurJob
<1>4. Save(p, i, row)
  BY <1>1
<1>5. /\ pc[p] = "run" /\ pc'[p] = "trigger" /\ UNCHANGED cur
      /\ \A q \in Proc \ {p} : pc'[q] = pc[q] /\ work'[q] = work[q]
  BY DEF FinishJob, Goto, IndInv, TypeInv, TypeOK
<1>6. pc[p] = "run" => i = cur[p]
  OBVIOUS
<1> HIDE DEF i, row
<1> QED BY <1>2, <1>3, <1>4, <1>5, <1>6, SaveRecords, SavedOwn, OthersOwn

LEMMA TriggerNextInv ==
    ASSUME IndInv, NEW p \in Proc, TriggerNext(p) PROVE \A q \in Proc : OwnInv(q)'
<1>1. /\ pc[p] = "trigger" /\ UNCHANGED <<pc, cur>>
      /\ \A q \in Proc \ {p} : work'[q] = work[q]
  BY DEF TriggerNext, IndInv, TypeInv, TypeOK
<1>2. PICK k \in work[p] :
        \/ UNCHANGED <<db, snap>>
        \/ \E i \in Id : /\ IsJob(snap[p][i]) /\ snap[p][i].owner = p
                         /\ Save(p, i, Triggered(snap[p][i], now[p], NoArgs))
        \/ /\ Insert([label |-> CurEntry(p).triggers[k].label, owner |-> p,
                      prio |-> PRIMER, created |-> clock, args |-> NoArgs])
           /\ UNCHANGED snap
  BY DEF TriggerNext
<1>3. CASE UNCHANGED <<db, snap>>
  <2>1. OwnInv(p)
    BY DEF IndInv
  <2>2. OwnInv(p)'
    BY <1>1, <1>3, <2>1 DEF OwnInv, Unique, Real, Creation, Memory, db
  <2> QED BY <1>1, <1>3, <2>2, OthersOwn DEF db
<1>4. CASE \E i \in Id : /\ IsJob(snap[p][i]) /\ snap[p][i].owner = p
                         /\ Save(p, i, Triggered(snap[p][i], now[p], NoArgs))
  <2>1. PICK i \in Id : /\ IsJob(snap[p][i]) /\ snap[p][i].owner = p
                        /\ Save(p, i, Triggered(snap[p][i], now[p], NoArgs))
    BY <1>4
  <2> DEFINE row == Triggered(snap[p][i], now[p], NoArgs)
  <2>2. snap[p][i] \in JobRow /\ OwnJob(snap[p][i], p)
    BY <2>1, MemoryType DEF IndInv, TypeInv, OwnJob
  <2>3. now[p] \in Nat
    BY DEF IndInv, TypeInv, TypeOK
  <2>4. row \in JobRow /\ row.owner = p /\ row.entry = snap[p][i].entry /\ row.status # RUNNING
    BY <2>1, <2>2, <2>3, TriggeredType
  <2>5. Save(p, i, row)
    BY <2>1
  <2> HIDE DEF row
  <2> QED BY <1>1, <2>2, <2>4, <2>5, SaveRecords, SavedOwn, OthersOwn
<1> DEFINE primer == [label |-> CurEntry(p).triggers[k].label, owner |-> p,
                      prio |-> PRIMER, created |-> clock, args |-> NoArgs]
<1>5. CASE Insert(primer) /\ UNCHANGED snap
  <2>1. primer.prio = PRIMER
    OBVIOUS
  <2> HIDE DEF primer
  <2>2. OwnInv(p)' /\ \A i \in Id : IsJob(jobs'[i]) => jobs'[i] = jobs[i]
    BY <1>1, <1>5, <2>1, PrimerOwn
  <2> QED BY <1>1, <1>5, <2>2, OthersOwn
<1> QED BY <1>2, <1>3, <1>4, <1>5

LEMMA RequestReportInv ==
    ASSUME IndInv, NEW a \in Args, RequestReport(a) PROVE \A q \in Proc : OwnInv(q)'
<1> DEFINE primer == [label |-> GuiLabel, owner |-> Gui, prio |-> PRIMER,
                      created |-> clock, args |-> a]
<1>1. primer.prio = PRIMER
  OBVIOUS
<1>2. Insert(primer) /\ UNCHANGED <<snap, pc, cur, work>>
  BY DEF RequestReport
<1> HIDE DEF primer
<1> QED BY <1>1, <1>2, PrimerOwn

LEMMA IndStep == IndInv /\ [Next]_vars => IndInv'
<1> SUFFICES ASSUME IndInv, [Next]_vars PROVE IndInv'
  OBVIOUS
<1>1. TypeInv'
  BY TypeStep DEF IndInv
<1>2. ASSUME NEW p \in Proc, Step(p) PROVE \A q \in Proc : OwnInv(q)'
  BY <1>2, RemoveInv, AddJobInv, ForgetInv, ReadJobsInv, BeginPassInv, ExpireJobInv,
     TriggerPrimedJobInv, PassOverLateJobInv, WaitForConflictingJobInv, StartJobInv,
     FinishJobInv, TriggerNextInv DEF Step
<1>3. ASSUME Tick \/ UNCHANGED vars PROVE \A q \in Proc : OwnInv(q)'
  <2>1. UNCHANGED <<jobs, pc, snap, work, cur>>
    BY <1>3 DEF Tick, vars, db
  <2> QED BY <2>1 DEF IndInv, OwnInv, Unique, Real, Creation, Memory
<1>4. \A q \in Proc : OwnInv(q)'
  BY <1>2, <1>3, ForgetInv, RequestReportInv DEF Next
<1> QED BY <1>1, <1>4 DEF IndInv

LEMMA Invariance == Spec => []IndInv
BY InitInv, IndStep, PTL DEF Spec

-----------------------------------------------------------------------------
\* Schedule.__init__, a reload and an update by id after another program has
\* truncated the table never leave a program with two records of one entry of the
\* schedule.
THEOREM OneRecord == Spec => []OneRecordPerEntry
<1>1. IndInv => OneRecordPerEntry
  <2> SUFFICES ASSUME IndInv, NEW i \in Id, NEW j \in Id,
                      IsJob(jobs[i]), IsJob(jobs[j]),
                      jobs[i].owner = jobs[j].owner, jobs[i].entry = jobs[j].entry
               PROVE  i = j
    BY DEF OneRecordPerEntry
  <2>1. jobs[i].owner \in Proc
    BY RowKinds DEF IndInv, TypeInv, TypeOK, JobRow
  <2> QED BY <2>1 DEF IndInv, OwnInv, Unique, OwnJob
<1> QED BY <1>1, Invariance, PTL

\* A record that is RUNNING is the one its program is running, unless the program
\* is down: no job waits for a conflicting job that nobody will end.
THEOREM RunningRecordsAreReal == Spec => []RunningIsReal
<1>1. IndInv => RunningIsReal
  <2> SUFFICES ASSUME IndInv, NEW i \in Id, IsJob(jobs[i]), jobs[i].status = RUNNING
               PROVE  LET p == jobs[i].owner
                      IN  pc[p] = "down" \/ (pc[p] = "run" /\ cur[p] = i)
    BY DEF RunningIsReal
  <2>1. jobs[i].owner \in Proc
    BY RowKinds DEF IndInv, TypeInv, TypeOK, JobRow
  <2> QED BY <2>1 DEF IndInv, OwnInv, Real, OwnJob
<1> QED BY <1>1, Invariance, PTL

-----------------------------------------------------------------------------
\* No job function purges the schedule.
NoPurge == \A f \in Func : \A res \in Results[f] : res.flag # "purge"

(***************************************************************************)
(* The inductive invariant, of one program p.  MemoryIsCurrent and         *)
(* RunningVisible rest on ids being fresh: a record p has in memory could  *)
(* otherwise be overwritten by an INSERT, or deleted as a primer.          *)
(***************************************************************************)
Current(p) ==
    /\ \A i \in Id : OwnJob(snap[p][i], p) => jobs[i] = snap[p][i]
    /\ \A i \in Id : IsPrimer(snap[p][i]) => ~ IsJob(jobs[i])
    /\ \A i \in Id : i >= nextId => snap[p][i] = NoRow
    /\ pc[p] \in {"down", "sleep", "ending"} => snap[p] = EmptyTable
    /\ pc[p] = "run" => CurJob(p).status = RUNNING
    /\ flag[p] # "purge"

\* Ids are handed out in ascending order.
Fresh == \A i \in Id : i >= nextId => jobs[i] = NoRow

CurrentInv == TypeInv /\ Fresh /\ \A p \in Proc : Current(p)

-----------------------------------------------------------------------------
\* What an action of p does to the table does not concern another program, if it
\* keeps the other's jobs and makes a job of fresh ids and its own jobs only.
LEMMA OthersCurrent ==
    ASSUME CurrentInv, NEW p \in Proc, Current(p)', TypeInv',
           \A q \in Proc \ {p} : /\ pc'[q] = pc[q] /\ snap'[q] = snap[q]
                                 /\ cur'[q] = cur[q] /\ flag'[q] = flag[q],
           nextId' \in {nextId, nextId + 1},
           \A i \in Id : \/ jobs'[i] = jobs[i]
                         \/ i = nextId /\ nextId' = nextId + 1
                         \/ jobs[i] # NoRow /\ (IsPrimer(jobs[i]) \/ jobs[i].owner = p)
                                            /\ (IsJob(jobs'[i]) => IsJob(jobs[i]))
    PROVE  \A q \in Proc : Current(q)'
<1> SUFFICES ASSUME NEW q \in Proc \ {p} PROVE Current(q)'
  OBVIOUS
<1>1. Current(q) /\ nextId \in Nat /\ \A i \in Id : i \in Nat
  BY JobScheduleAssumption DEF CurrentInv, TypeInv, TypeOK, Id
<1>2. \A i \in Id : OwnJob(snap'[q][i], q) => jobs'[i] = snap'[q][i]
  <2> SUFFICES ASSUME NEW i \in Id, OwnJob(snap[q][i], q) PROVE jobs'[i] = snap[q][i]
    OBVIOUS
  <2>1. jobs[i] = snap[q][i] /\ jobs[i] # NoRow /\ ~ IsPrimer(jobs[i]) /\ jobs[i].owner # p
    BY <1>1 DEF Current, OwnJob, IsJob, IsPrimer
  <2>2. i # nextId
    BY <1>1, <2>1 DEF Current
  <2> QED BY <2>1, <2>2
<1>3. \A i \in Id : IsPrimer(snap'[q][i]) => ~ IsJob(jobs'[i])
  <2> SUFFICES ASSUME NEW i \in Id, IsPrimer(snap[q][i]) PROVE ~ IsJob(jobs'[i])
    OBVIOUS
  <2>1. i # nextId
    BY <1>1 DEF Current, IsPrimer
  <2> QED BY <1>1, <2>1 DEF Current
<1>4. \A i \in Id : i >= nextId' => snap'[q][i] = NoRow
  BY <1>1 DEF Current
<1> QED BY <1>1, <1>2, <1>3, <1>4 DEF Current, CurJob

\* p has not touched the table and has nothing in memory.
LEMMA ForgottenCurrent ==
    ASSUME CurrentInv, NEW p \in Proc, UNCHANGED db, Forget(p),
           pc'[p] # "run", flag'[p] # "purge"
    PROVE  Current(p)' /\ Fresh'
<1>1. \A i \in Id : snap'[p][i] = NoRow
  BY DEF Forget, EmptyTable, CurrentInv, TypeInv, TypeOK
<1>2. snap'[p] = EmptyTable
  BY DEF Forget, CurrentInv, TypeInv, TypeOK
<1>3. \A i \in Id : ~ OwnJob(snap'[p][i], p) /\ ~ IsPrimer(snap'[p][i])
  BY <1>1 DEF OwnJob, IsJob, IsPrimer
<1> QED BY <1>1, <1>2, <1>3 DEF Current, Fresh, CurrentInv, db

\* p has saved job i of its memory, and deleted primers it has in memory.
LEMMA SavedCurrent ==
    ASSUME CurrentInv, NEW p \in Proc, NEW i \in Id, NEW row \in JobRow,
           NEW m \in SUBSET Id, \A k \in m : IsPrimer(snap[p][k]),
           OwnJob(snap[p][i], p), row.owner = p,
           SaveAndDelete(i, row, m), UNCHANGED nextId,
           \A j \in Id : j # i => snap'[p][j] = snap[p][j],
           snap'[p][i] \in {row, NoRow},
           pc'[p] \in {"load", "pass", "run", "trigger"},
           pc'[p] = "run" => CurJob(p)'.status = RUNNING,
           flag'[p] # "purge"
    PROVE  /\ Current(p)' /\ Fresh'
           /\ \A j \in Id : \/ jobs'[j] = jobs[j]
                            \/ jobs[j] # NoRow /\ (IsPrimer(jobs[j]) \/ jobs[j].owner = p)
                                               /\ (IsJob(jobs'[j]) => IsJob(jobs[j]))
<1>1. Current(p) /\ Fresh
  BY DEF CurrentInv
<1>2. jobs[i] = snap[p][i] /\ IsJob(jobs[i]) /\ jobs[i].owner = p /\ i \notin m
  BY <1>1 DEF Current, OwnJob, IsJob, IsPrimer
<1>3. /\ jobs'[i] = row
      /\ \A j \in Id : j # i => jobs'[j] = IF j \in m THEN NoRow ELSE jobs[j]
  BY <1>2 DEF SaveAndDelete, Updated, CurrentInv, TypeInv, TypeOK, IsJob
<1>4. \A j \in m : ~ IsJob(jobs[j]) /\ ~ OwnJob(snap[p][j], p)
  BY <1>1 DEF Current, OwnJob, IsJob, IsPrimer
<1>5. IsJob(row) /\ ~ IsPrimer(row)
  <2>1. IsJob(row)
    BY RowKinds DEF Row
  <2> QED BY <2>1 DEF IsJob, IsPrimer
<1>6. ~ IsJob(NoRow) /\ ~ IsPrimer(NoRow) /\ ~ OwnJob(NoRow, p)
  BY DEF IsJob, IsPrimer, OwnJob
<1>7. ~ (i >= nextId)
  BY <1>1, <1>2 DEF Fresh, IsJob
<1>8. Current(p)'
  <2>1. \A j \in Id : OwnJob(snap'[p][j], p) => jobs'[j] = snap'[p][j]
    BY <1>1, <1>3, <1>4, <1>6 DEF Current
  <2>2. \A j \in Id : IsPrimer(snap'[p][j]) => ~ IsJob(jobs'[j])
    BY <1>1, <1>3, <1>5, <1>6 DEF Current
  <2>3. \A j \in Id : j >= nextId' => snap'[p][j] = NoRow
    BY <1>1, <1>7 DEF Current
  <2> QED BY <2>1, <2>2, <2>3 DEF Current
<1>9. Fresh'
  BY <1>1, <1>3, <1>7 DEF Fresh
<1>10. \A j \in m : jobs[j] = NoRow \/ IsPrimer(jobs[j])
  BY <1>4 DEF IsJob, IsPrimer
<1> QED BY <1>2, <1>3, <1>6, <1>8, <1>9, <1>10 DEF IsJob

LEMMA SaveIsSaveAndDelete ==
    ASSUME CurrentInv, NEW p \in Proc, NEW i \in Id, NEW row, Save(p, i, row)
    PROVE  /\ SaveAndDelete(i, row, {})
           /\ \A j \in Id : j # i => snap'[p][j] = snap[p][j]
           /\ snap'[p][i] = row
           /\ \A q \in Proc \ {p} : snap'[q] = snap[q]
<1>1. SaveAndDelete(i, row, {})
  BY DEF Save, SaveAndDelete, Updated, CurrentInv, TypeInv, TypeOK
<1> QED BY <1>1 DEF Save, CurrentInv, TypeInv, TypeOK

\* A primer has been inserted, at an id nobody has in memory.
LEMMA PrimerCurrent ==
    ASSUME CurrentInv, NEW row, row.prio = PRIMER, Insert(row),
           UNCHANGED <<snap, pc, cur, flag>>
    PROVE  Fresh' /\ \A p \in Proc : Current(p)'
<1>1. nextId \in Id /\ nextId' = nextId + 1 /\ nextId \in Nat /\ \A i \in Id : i \in Nat
  BY DEF Insert, CurrentInv, TypeInv, TypeOK, Id
<1>2. jobs'[nextId] = row /\ \A i \in Id : i # nextId => jobs'[i] = jobs[i]
  BY <1>1 DEF Insert, CurrentInv, TypeInv, TypeOK
<1>3. ~ IsJob(row)
  BY DEF IsJob
<1>4. Fresh'
  <2> SUFFICES ASSUME NEW i \in Id, i >= nextId' PROVE jobs'[i] = NoRow
    BY DEF Fresh
  <2>1. i >= nextId /\ i # nextId
    BY <1>1
  <2> QED BY <1>2, <2>1 DEF Fresh, CurrentInv
<1>5. ASSUME NEW p \in Proc PROVE Current(p)'
  <2>1. Current(p)
    BY DEF CurrentInv
  <2>2. ~ OwnJob(snap[p][nextId], p)
    BY <1>1, <2>1 DEF Current, OwnJob, IsJob
  <2>3. \A i \in Id : i >= nextId' => snap'[p][i] = NoRow
    BY <1>1, <2>1 DEF Current
  <2> QED BY <1>2, <1>3, <2>1, <2>2, <2>3 DEF Current, CurJob
<1> QED BY <1>4, <1>5

-----------------------------------------------------------------------------
\* One action at a time

LEMMA InitCurrent == Init => CurrentInv
<1> SUFFICES ASSUME Init PROVE CurrentInv
  OBVIOUS
<1>1. \A p \in Proc, i \in Id : ~ OwnJob(NoRow, p) /\ ~ IsPrimer(NoRow)
  BY DEF OwnJob, IsJob, IsPrimer
<1>2. Fresh /\ \A p \in Proc : Current(p)
  BY <1>1 DEF Init, EmptyTable, Fresh, Current
<1> QED BY <1>2, InitType DEF CurrentInv

\* The program is done with what it has in memory, or stops dead.
LEMMA ForgetCurrent ==
    ASSUME CurrentInv, TypeInv', NEW p \in Proc,
           \/ InitDone(p) \/ EndDeferred(p) \/ NoActiveJobs(p) \/ ReloadDone(p)
           \/ NothingToRun(p) \/ AfterJob(p) \/ Crash(p)
           \/ BeginPass(p) /\ DueJobs(p, clock) = {}
    PROVE  CurrentInv'
<1>1. UNCHANGED db /\ Forget(p)
  BY DEF InitDone, EndDeferred, NoActiveJobs, ReloadDone, NothingToRun, AfterJob,
         Crash, BeginPass
<1>2. PICK l \in {"down", "sleep", "ending"} : Goto(p, l)
  BY DEF InitDone, EndDeferred, NoActiveJobs, ReloadDone, NothingToRun, AfterJob,
         Crash, BeginPass, EndWithoutJobs
<1>3. PICK f \in {flag[p], "end_schedule", "none"} : flag' = [flag EXCEPT ![p] = f]
  <2>1. flag = [flag EXCEPT ![p] = flag[p]]
    BY DEF CurrentInv, TypeInv, TypeOK
  <2> QED BY <2>1 DEF InitDone, EndDeferred, NoActiveJobs, ReloadDone, NothingToRun,
                      AfterJob, Crash, BeginPass
<1>4. /\ pc'[p] = l /\ flag'[p] # "purge"
      /\ \A q \in Proc \ {p} : /\ pc'[q] = pc[q] /\ snap'[q] = snap[q]
                              /\ cur'[q] = cur[q] /\ flag'[q] = flag[q]
  BY <1>1, <1>2, <1>3 DEF Goto, Forget, Current, CurrentInv, TypeInv, TypeOK
<1>5. Current(p)' /\ Fresh'
  BY <1>1, <1>4, ForgottenCurrent
<1>6. nextId' = nextId /\ jobs' = jobs
  BY <1>1 DEF db
<1> QED BY <1>4, <1>5, <1>6, OthersCurrent DEF CurrentInv

\* The program begins a schedule, or ends it: it removes its own records.
LEMMA RemoveCurrent ==
    ASSUME CurrentInv, TypeInv', NEW p \in Proc,
           Restart(p) \/ ReloadSchedule(p) \/ EndSchedule(p)
    PROVE  CurrentInv'
<1>1. Current(p)
  BY DEF CurrentInv
<1>2. jobs' = WithoutOwned(p) /\ UNCHANGED nextId
  BY <1>1 DEF Restart, ReloadSchedule, EndSchedule, Current
<1>3. /\ snap'[p] = EmptyTable
      /\ pc'[p] # "run" /\ flag'[p] # "purge"
      /\ \A q \in Proc \ {p} : /\ pc'[q] = pc[q] /\ snap'[q] = snap[q]
                              /\ cur'[q] = cur[q] /\ flag'[q] = flag[q]
  BY <1>1 DEF Restart, ReloadSchedule, EndSchedule, Goto, Current, CurrentInv, TypeInv, TypeOK
<1>4. \A i \in Id : \/ jobs'[i] = jobs[i]
                    \/ jobs[i] # NoRow /\ jobs[i].owner = p /\ jobs'[i] = NoRow
  BY <1>2 DEF WithoutOwned
<1>5. ~ OwnJob(NoRow, p) /\ ~ IsPrimer(NoRow) /\ ~ IsJob(NoRow)
  BY DEF OwnJob, IsJob, IsPrimer
<1>6. Current(p)'
  <2>1. \A i \in Id : snap'[p][i] = NoRow
    BY <1>3 DEF EmptyTable
  <2> QED BY <1>3, <1>5, <2>1 DEF Current
<1>7. Fresh'
  BY <1>2, <1>4 DEF Fresh, CurrentInv
<1> QED BY <1>2, <1>3, <1>4, <1>5, <1>6, <1>7, OthersCurrent DEF CurrentInv

LEMMA AddJobCurrent ==
    ASSUME CurrentInv, TypeInv', NEW p \in Proc, AddJob(p) PROVE CurrentInv'
<1>1. PICK e \in work[p] :
        /\ Insert(NewJob(p, e, now[p]))
        /\ snap' = [snap EXCEPT ![p][nextId] = NewJob(p, e, now[p])]
  BY DEF AddJob
<1> DEFINE job == NewJob(p, e, now[p])
<1>2. job \in JobRow
  <2>1. e \in Entry /\ now[p] \in Nat
    BY DEF AddJob, CurrentInv, TypeInv, TypeOK, WorkInv, WorkOf, OwnEntries
  <2> QED BY <2>1, NewJobType
<1>3. Insert(job) /\ snap' = [snap EXCEPT ![p][nextId] = job]
  BY <1>1
<1> HIDE DEF job
<1>4. IsJob(job) /\ ~ IsPrimer(job)
  <2>1. IsJob(job)
    BY <1>2, RowKinds DEF Row
  <2> QED BY <2>1 DEF IsJob, IsPrimer
<1>5. nextId \in Id /\ nextId' = nextId + 1 /\ nextId \in Nat /\ \A i \in Id : i \in Nat
  BY <1>3 DEF Insert, CurrentInv, TypeInv, TypeOK, Id
<1>6. /\ jobs'[nextId] = job /\ \A i \in Id : i # nextId => jobs'[i] = jobs[i]
      /\ snap'[p][nextId] = job /\ \A i \in Id : i # nextId => snap'[p][i] = snap[p][i]
      /\ \A q \in Proc \ {p} : snap'[q] = snap[q]
  BY <1>3, <1>5 DEF Insert, CurrentInv, TypeInv, TypeOK
<1>7. pc[p] \in {"init", "reload"} /\ UNCHANGED <<pc, cur, flag>>
  BY DEF AddJob
<1>8. \A i \in Id : i >= nextId' => i >= nextId /\ i # nextId
  BY <1>5
<1>9. Current(p)'
  BY <1>4, <1>6, <1>7, <1>8 DEF Current, CurrentInv
<1>10. Fresh'
  BY <1>6, <1>8 DEF Fresh, CurrentInv
<1> QED BY <1>5, <1>6, <1>7, <1>9, <1>10, OthersCurrent DEF CurrentInv

LEMMA ReadJobsCurrent ==
    ASSUME CurrentInv, TypeInv', NEW p \in Proc, ReadJobs(p) PROVE CurrentInv'
<1>1. /\ UNCHANGED <<jobs, nextId, cur>>
      /\ pc'[p] = "load" /\ flag'[p] # "purge"
      /\ \A i \in Id : snap'[p][i] = jobs[i] \/ snap'[p][i] = NoRow
      /\ \A q \in Proc \ {p} : /\ pc'[q] = pc[q] /\ snap'[q] = snap[q]
                              /\ flag'[q] = flag[q]
  BY DEF ReadJobs, Goto, db, CurrentInv, TypeInv, TypeOK
<1>2. ~ OwnJob(NoRow, p) /\ ~ IsPrimer(NoRow)
  BY DEF OwnJob, IsJob, IsPrimer
<1>3. \A i \in Id : ~ (IsPrimer(jobs[i]) /\ IsJob(jobs[i]))
  BY DEF IsPrimer, IsJob
<1>4. Current(p)' /\ Fresh'
  BY <1>1, <1>2, <1>3 DEF Current, Fresh, CurrentInv
<1> QED BY <1>1, <1>4, OthersCurrent DEF CurrentInv

LEMMA BeginPassCurrent ==
    ASSUME CurrentInv, TypeInv', NEW p \in Proc, BeginPass(p) PROVE CurrentInv'
<1>1. CASE DueJobs(p, clock) = {}
  BY <1>1, ForgetCurrent
<1>2. CASE DueJobs(p, clock) # {}
  <2>1. /\ UNCHANGED <<jobs, nextId, snap, cur, flag>>
        /\ pc[p] = "load" /\ pc'[p] = "pass"
        /\ \A q \in Proc \ {p} : pc'[q] = pc[q]
    BY <1>2 DEF BeginPass, Goto, db, CurrentInv, TypeInv, TypeOK
  <2>2. Current(p)' /\ Fresh'
    BY <2>1 DEF Current, Fresh, CurrentInv
  <2> QED BY <2>1, <2>2, OthersCurrent DEF CurrentInv
<1> QED BY <1>1, <1>2

LEMMA ExpireJobCurrent ==
    ASSUME CurrentInv, TypeInv', NEW p \in Proc, NEW i \in Id, ExpireJob(p, i)
    PROVE  CurrentInv'
<1> DEFINE row == Ended(snap[p][i])
<1>1. snap[p][i] \in JobRow /\ OwnJob(snap[p][i], p)
  BY MemoryType DEF ExpireJob, TooLateJobs, CurrentInv, TypeInv
<1>2. row \in JobRow /\ row.owner = p
  BY <1>1, EndedType DEF OwnJob
<1>3. PICK m \in PrimerChoices(p, LabelOf(snap[p][i])) : SaveAndDelete(i, row, m)
  BY DEF ExpireJob
<1>4. m \in SUBSET Id /\ \A k \in m : IsPrimer(snap[p][k])
  BY DEF PrimerChoices, PrimersFor
<1> HIDE DEF row
<1>5. /\ pc[p] = "load" /\ UNCHANGED <<nextId, pc, cur, flag>>
      /\ \A j \in Id : j # i => snap'[p][j] = snap[p][j]
      /\ snap'[p][i] = NoRow
      /\ \A q \in Proc \ {p} : snap'[q] = snap[q]
  BY DEF ExpireJob, CurrentInv, TypeInv, TypeOK
<1>6. flag[p] # "purge"
  BY DEF CurrentInv, Current
<1> QED BY <1>1, <1>2, <1>3, <1>4, <1>5, <1>6, SavedCurrent, OthersCurrent DEF CurrentInv

LEMMA TriggerPrimedJobCurrent ==
    ASSUME CurrentInv, TypeInv', NEW p \in Proc, NEW i \in Id, TriggerPrimedJob(p, i)
    PROVE  CurrentInv'
<1>1. PICK m \in PrimersFor(p, LabelOf(snap[p][i])) :
        LET row == Triggered(snap[p][i], snap[p][m].created, snap[p][m].args)
        IN  SaveAndDelete(i, row, {m}) /\ snap' = [snap EXCEPT ![p][i] = row]
  BY DEF TriggerPrimedJob
<1> DEFINE row == Triggered(snap[p][i], snap[p][m].created, snap[p][m].args)
<1>2. snap[p][i] \in JobRow /\ OwnJob(snap[p][i], p)
  BY MemoryType DEF TriggerPrimedJob, CurrentInv, TypeInv, WorkInv, WorkOf
<1>3. snap[p][m] \in PrimerRow /\ m \in Id /\ IsPrimer(snap[p][m])
  BY MemoryType, RowKinds DEF PrimersFor, CurrentInv, TypeInv
<1>4. row \in JobRow /\ row.owner = p
  BY <1>2, <1>3, TriggeredType DEF PrimerRow, OwnJob
<1>5. SaveAndDelete(i, row, {m}) /\ snap' = [snap EXCEPT ![p][i] = row]
  BY <1>1
<1> HIDE DEF row
<1>6. {m} \in SUBSET Id /\ \A k \in {m} : IsPrimer(snap[p][k])
  BY <1>3
<1>7. /\ pc[p] = "load" /\ UNCHANGED <<nextId, pc, cur, flag>>
      /\ \A j \in Id : j # i => snap'[p][j] = snap[p][j]
      /\ snap'[p][i] = row
      /\ \A q \in Proc \ {p} : snap'[q] = snap[q]
  BY <1>5 DEF TriggerPrimedJob, CurrentInv, TypeInv, TypeOK
<1>8. flag[p] # "purge"
  BY DEF CurrentInv, Current
<1> QED BY <1>2, <1>4, <1>5, <1>6, <1>7, <1>8, SavedCurrent, OthersCurrent DEF CurrentInv

\* Save in the body of the other actions; the job at cur[p] is RUNNING if p is.
LEMMA SaveCurrent ==
    ASSUME CurrentInv, TypeInv', NEW p \in Proc, NEW i \in Id, NEW row \in JobRow,
           OwnJob(snap[p][i], p), row.owner = p, Save(p, i, row), UNCHANGED nextId,
           pc'[p] \in {"load", "pass", "run", "trigger"},
           pc'[p] = "run" => cur'[p] = i /\ row.status = RUNNING,
           flag'[p] # "purge",
           \A q \in Proc \ {p} : pc'[q] = pc[q] /\ cur'[q] = cur[q] /\ flag'[q] = flag[q]
    PROVE  CurrentInv'
<1>1. /\ SaveAndDelete(i, row, {})
      /\ \A j \in Id : j # i => snap'[p][j] = snap[p][j]
      /\ snap'[p][i] = row
      /\ \A q \in Proc \ {p} : snap'[q] = snap[q]
  BY SaveIsSaveAndDelete
<1>2. pc'[p] = "run" => CurJob(p)'.status = RUNNING
  BY <1>1 DEF CurJob
<1>3. {} \in SUBSET Id /\ \A k \in {} : IsPrimer(snap[p][k])
  OBVIOUS
<1>4. /\ Current(p)' /\ Fresh'
      /\ \A j \in Id : \/ jobs'[j] = jobs[j]
                       \/ jobs[j] # NoRow /\ (IsPrimer(jobs[j]) \/ jobs[j].owner = p)
                                          /\ (IsJob(jobs'[j]) => IsJob(jobs[j]))
  BY <1>1, <1>2, <1>3, SavedCurrent
<1> QED BY <1>1, <1>4, OthersCurrent DEF CurrentInv

LEMMA PassOverLateJobCurrent ==
    ASSUME CurrentInv, TypeInv', NEW p \in Proc, NEW i \in Id, PassOverLateJob(p, i)
    PROVE  CurrentInv'
<1> DEFINE row == Ended(snap[p][i])
<1>1. OwnJob(snap[p][i], p) /\ row \in JobRow /\ row.owner = p
  BY PassType, EndedType DEF PassOverLateJob, CurrentInv, OwnJob
<1>2. Save(p, i, row) /\ UNCHANGED <<nextId, pc, cur, flag>> /\ pc[p] = "pass"
  BY DEF PassOverLateJob, IsNext
<1>3. flag[p] # "purge"
  BY DEF CurrentInv, Current
<1> HIDE DEF row
<1> QED BY <1>1, <1>2, <1>3, SaveCurrent

LEMMA WaitForConflictingJobCurrent ==
    ASSUME CurrentInv, TypeInv', NEW p \in Proc, NEW i \in Id, WaitForConflictingJob(p, i)
    PROVE  CurrentInv'
<1> DEFINE row == [snap[p][i] EXCEPT !.status = WAITING]
<1>1. OwnJob(snap[p][i], p) /\ row \in JobRow /\ row.owner = p
  <2>1. WAITING \in Status
    BY DEF Status, WAITING
  <2> QED BY <2>1, PassType DEF WaitForConflictingJob, CurrentInv, OwnJob, JobRow
<1>2. /\ UNCHANGED <<jobs, snap>> \/ Save(p, i, row)
      /\ UNCHANGED <<nextId, pc, cur, flag>> /\ pc[p] = "pass"
  BY DEF WaitForConflictingJob, IsNext
<1>3. flag[p] # "purge"
  BY DEF CurrentInv, Current
<1> HIDE DEF row
<1>4. CASE UNCHANGED <<jobs, snap>>
  BY <1>2, <1>4 DEF CurrentInv, Fresh, Current, CurJob
<1> QED BY <1>1, <1>2, <1>3, <1>4, SaveCurrent

LEMMA StartJobCurrent ==
    ASSUME CurrentInv, TypeInv', NEW p \in Proc, NEW i \in Id, StartJob(p, i)
    PROVE  CurrentInv'
<1> DEFINE row == [snap[p][i] EXCEPT !.status = RUNNING]
<1>1. OwnJob(snap[p][i], p) /\ row \in JobRow /\ row.owner = p /\ row.status = RUNNING
  <2>1. RUNNING \in Status
    BY DEF Status, RUNNING
  <2> QED BY <2>1, PassType DEF StartJob, CurrentInv, OwnJob, JobRow
<1>2. Save(p, i, row) /\ UNCHANGED <<nextId, flag>>
  BY DEF StartJob
<1>3. /\ pc'[p] = "run" /\ cur'[p] = i
      /\ \A q \in Proc \ {p} : pc'[q] = pc[q] /\ cur'[q] = cur[q]
  BY DEF StartJob, Goto, CurrentInv, TypeInv, TypeOK
<1>4. flag[p] # "purge"
  BY DEF CurrentInv, Current
<1> HIDE DEF row
<1> QED BY <1>1, <1>2, <1>3, <1>4, SaveCurrent

LEMMA FinishJobCurrent ==
    ASSUME NoPurge, CurrentInv, TypeInv', NEW p \in Proc, FinishJob(p)
    PROVE  CurrentInv'
<1>1. PICK res \in Results[FuncOf(CurJob(p))] :
        /\ Save(p, cur[p], AfterRun(CurJob(p), res, now[p], clock))
        /\ flag' = [flag EXCEPT ![p] = res.flag]
  BY DEF FinishJob
<1> DEFINE i == cur[p]
           row == AfterRun(CurJob(p), res, now[p], clock)
<1>2. i \in Id /\ CurJob(p) \in JobRow /\ OwnJob(CurJob(p), p)
  BY CurJobType DEF FinishJob, CurrentInv
<1>3. row \in JobRow /\ row.owner = p
  <2>1. now[p] \in Nat /\ clock \in Nat
    BY DEF CurrentInv, TypeInv, TypeOK
  <2> QED BY <1>2, <2>1, AfterRunType DEF OwnJob
<1>4. res.flag # "purge"
  <2>1. FuncOf(CurJob(p)) \in Func
    BY <1>2, EntryType DEF FuncOf, JobRow
  <2> QED BY <1>1, <2>1 DEF NoPurge
<1>5. Save(p, i, row) /\ UNCHANGED <<nextId, cur>> /\ OwnJob(snap[p][i], p)
  BY <1>1, <1>2 DEF FinishJob, CurJob
<1>6. /\ pc'[p] = "trigger" /\ flag'[p] = res.flag
      /\ \A q \in Proc \ {p} : pc'[q] = pc[q] /\ flag'[q] = flag[q]
  BY <1>1 DEF FinishJob, Goto, CurrentInv, TypeInv, TypeOK
<1> HIDE DEF i, row
<1> QED BY <1>2, <1>3, <1>4, <1>5, <1>6, SaveCurrent

LEMMA TriggerNextCurrent ==
    ASSUME CurrentInv, TypeInv', NEW p \in Proc, TriggerNext(p) PROVE CurrentInv'
<1>1. pc[p] = "trigger" /\ UNCHANGED <<pc, cur, flag>>
  BY DEF TriggerNext
<1>2. flag[p] # "purge"
  BY DEF CurrentInv, Current
<1>3. PICK k \in work[p] :
        \/ UNCHANGED <<db, snap>>
        \/ \E i \in Id : /\ IsJob(snap[p][i]) /\ snap[p][i].owner = p
                         /\ Save(p, i, Triggered(snap[p][i], now[p], NoArgs))
                         /\ UNCHANGED nextId
        \/ /\ Insert([label |-> CurEntry(p).triggers[k].label, owner |-> p,
                      prio |-> PRIMER, created |-> clock, args |-> NoArgs])
           /\ UNCHANGED snap
  BY DEF TriggerNext
<1>4. CASE UNCHANGED <<db, snap>>
  BY <1>1, <1>4 DEF CurrentInv, Fresh, Current, CurJob, db
<1>5. CASE \E i \in Id : /\ IsJob(snap[p][i]) /\ snap[p][i].owner = p
                         /\ Save(p, i, Triggered(snap[p][i], now[p], NoArgs))
                         /\ UNCHANGED nextId
  <2>1. PICK i \in Id : /\ IsJob(snap[p][i]) /\ snap[p][i].owner = p
                        /\ Save(p, i, Triggered(snap[p][i], now[p], NoArgs))
                        /\ UNCHANGED nextId
    BY <1>5
  <2> DEFINE row == Triggered(snap[p][i], now[p], NoArgs)
  <2>2. snap[p][i] \in JobRow /\ OwnJob(snap[p][i], p)
    BY <2>1, MemoryType DEF CurrentInv, TypeInv, OwnJob
  <2>3. now[p] \in Nat
    BY DEF CurrentInv, TypeInv, TypeOK
  <2>4. row \in JobRow /\ row.owner = p
    BY <2>1, <2>2, <2>3, TriggeredType
  <2>5. Save(p, i, row)
    BY <2>1
  <2> HIDE DEF row
  <2> QED BY <1>1, <1>2, <2>1, <2>2, <2>4, <2>5, SaveCurrent
<1> DEFINE primer == [label |-> CurEntry(p).triggers[k].label, owner |-> p,
                      prio |-> PRIMER, created |-> clock, args |-> NoArgs]
<1>6. CASE Insert(primer) /\ UNCHANGED snap
  <2>1. primer.prio = PRIMER
    OBVIOUS
  <2> HIDE DEF primer
  <2> QED BY <1>1, <1>6, <2>1, PrimerCurrent DEF CurrentInv
<1> QED BY <1>3, <1>4, <1>5, <1>6

LEMMA RequestReportCurrent ==
    ASSUME CurrentInv, TypeInv', NEW a \in Args, RequestReport(a) PROVE CurrentInv'
<1> DEFINE primer == [label |-> GuiLabel, owner |-> Gui, prio |-> PRIMER,
                      created |-> clock, args |-> a]
<1>1. primer.prio = PRIMER
  OBVIOUS
<1>2. Insert(primer) /\ UNCHANGED <<snap, pc, cur, flag>>
  BY DEF RequestReport
<1> HIDE DEF primer
<1> QED BY <1>1, <1>2, PrimerCurrent DEF CurrentInv

LEMMA CurrentStep ==
    ASSUME NoPurge PROVE CurrentInv /\ [Next]_vars => CurrentInv'
<1> SUFFICES ASSUME CurrentInv, [Next]_vars PROVE CurrentInv'
  OBVIOUS
<1>1. TypeInv'
  BY TypeStep DEF CurrentInv
<1>2. ASSUME NEW p \in Proc, Step(p) PROVE CurrentInv'
  BY <1>1, <1>2, RemoveCurrent, AddJobCurrent, ForgetCurrent, ReadJobsCurrent,
     BeginPassCurrent, ExpireJobCurrent, TriggerPrimedJobCurrent,
     PassOverLateJobCurrent, WaitForConflictingJobCurrent, StartJobCurrent,
     FinishJobCurrent, TriggerNextCurrent DEF Step
<1>3. ASSUME Tick \/ UNCHANGED vars PROVE CurrentInv'
  <2>1. UNCHANGED <<jobs, nextId, pc, snap, cur, flag>>
    BY <1>3 DEF Tick, vars, db
  <2> QED BY <1>1, <2>1 DEF CurrentInv, Fresh, Current, CurJob
<1> QED BY <1>1, <1>2, <1>3, ForgetCurrent, RequestReportCurrent DEF Next

LEMMA CurrentInvariance == NoPurge => (Spec => []CurrentInv)
<1> SUFFICES ASSUME NoPurge PROVE Spec => []CurrentInv
  OBVIOUS
<1>1. CurrentInv /\ [Next]_vars => CurrentInv'
  BY CurrentStep
<1> QED BY InitCurrent, <1>1, PTL DEF Spec

-----------------------------------------------------------------------------
\* As long as the table is not truncated, what Schedule has in memory of its own
\* jobs between its read of the table and its last update is what the table
\* holds: the whole-row updates of Job.save overwrite no one's change.
THEOREM MemoryCurrent == NoPurge => (Spec => []MemoryIsCurrent)
<1>1. CurrentInv => MemoryIsCurrent
  BY DEF CurrentInv, Current, MemoryIsCurrent
<1> QED BY <1>1, CurrentInvariance, PTL

\* As long as the table is not truncated, a program that runs a job function has
\* the job's record, marked as RUNNING, in the table, where the conflict check of
\* the other programs finds it.
THEOREM RunningJobIsVisible == NoPurge => (Spec => []RunningVisible)
<1>1. CurrentInv => RunningVisible
  <2> SUFFICES ASSUME CurrentInv, NEW p \in Proc, pc[p] = "run"
               PROVE  /\ OwnJob(jobs[cur[p]], p)
                      /\ jobs[cur[p]].entry = CurJob(p).entry
                      /\ jobs[cur[p]].status = RUNNING
    BY DEF RunningVisible
  <2>1. cur[p] \in Id /\ OwnJob(CurJob(p), p)
    BY CurJobType DEF CurrentInv
  <2> QED BY <2>1 DEF CurrentInv, Current, CurJob
<1> QED BY <1>1, CurrentInvariance, PTL

-----------------------------------------------------------------------------
(***************************************************************************)
(* Primers.  A program finds its own primers when it reads the table, and  *)
(* nobody but it can add one; those it has read of others stay what they   *)
(* are until somebody deletes them.  So a program that ends before its     *)
(* deferred end time has no primer left in the table.                      *)
(***************************************************************************)
Queued(p) == {i \in Id : IsPrimer(jobs[i]) /\ jobs[i].owner = p}

Deferral(p) ==
    /\ now[p] <= clock
    /\ \A i \in Id : IsPrimer(snap[p][i]) => jobs[i] \in {snap[p][i], NoRow}
    /\ pc[p] \notin {"sleep", "load", "ending"} => deferred[p] = NoTime
    /\ pc[p] = "load" => \A i \in Queued(p) : snap[p][i] = jobs[i]
    /\ pc[p] = "ending" /\ deferred[p] # NoTime /\ Queued(p) # {} => deferred[p] <= clock

PrimerInv == CurrentInv /\ \A p \in Proc : Deferral(p)

\* A step that neither changes a primer nor makes one of program q.
KeepsPrimers(q) ==
    \A i \in Id : \/ jobs'[i] = jobs[i]
                  \/ jobs'[i] = NoRow
                  \/ IsJob(jobs[i]) /\ IsJob(jobs'[i])
                  \/ i = nextId /\ ~ (IsPrimer(jobs'[i]) /\ jobs'[i].owner = q)

\* A job is not a primer, and no record is neither.
LEMMA JobOrPrimer ==
    /\ \A r : ~ (IsJob(r) /\ IsPrimer(r))
    /\ ~ IsJob(NoRow) /\ ~ IsPrimer(NoRow)
BY DEF IsJob, IsPrimer

\* Such a step of another program leaves alone what is said of q.
LEMMA OthersDeferral ==
    ASSUME PrimerInv, NEW q \in Proc, KeepsPrimers(q), clock' \in Nat, clock' >= clock,
           pc'[q] = pc[q], snap'[q] = snap[q], now'[q] = now[q], deferred'[q] = deferred[q]
    PROVE  Deferral(q)'
<1>1. /\ Deferral(q) /\ Current(q) /\ Fresh
      /\ nextId \in Nat /\ \A i \in Id : i \in Nat
      /\ clock \in Nat /\ now[q] \in Nat /\ deferred[q] \in Int
  BY JobScheduleAssumption
     DEF PrimerInv, CurrentInv, TypeInv, TypeOK, Id, Time, NoTime
<1>2. \A i \in Id : IsPrimer(snap[q][i]) => jobs'[i] \in {snap[q][i], NoRow}
  <2> SUFFICES ASSUME NEW i \in Id, IsPrimer(snap[q][i]) PROVE jobs'[i] \in {snap[q][i], NoRow}
    OBVIOUS
  <2>1. i # nextId
    BY <1>1, JobOrPrimer DEF Current
  <2>2. jobs[i] \in {snap[q][i], NoRow} /\ ~ IsJob(jobs[i])
    BY <1>1 DEF Deferral, Current
  <2> QED BY <2>1, <2>2 DEF KeepsPrimers
<1>3. \A i \in Queued(q)' : i \in Queued(q) /\ jobs'[i] = jobs[i]
  BY JobOrPrimer DEF Queued, KeepsPrimers
<1>4. Queued(q)' # {} => Queued(q) # {}
  BY <1>3
<1>5. pc'[q] = "load" => \A i \in Queued(q)' : snap'[q][i] = jobs'[i]
  BY <1>1, <1>3 DEF Deferral
<1>6. now'[q] <= clock'
  BY <1>1 DEF Deferral
<1>7. pc'[q] = "ending" /\ deferred'[q] # NoTime /\ Queued(q)' # {} => deferred'[q] <= clock'
  BY <1>1, <1>4 DEF Deferral
<1> QED BY <1>1, <1>2, <1>5, <1>6, <1>7 DEF Deferral

\* p forgets what it had in memory without having touched the table; a program
\* that is about to end has no primer left, or need not wait for it.
LEMMA ForgottenDeferral ==
    ASSUME PrimerInv, NEW p \in Proc, UNCHANGED <<db, clock>>, Forget(p),
           pc'[p] \in {"down", "sleep", "ending"},
           pc'[p] = "down" => deferred'[p] = NoTime,
           pc'[p] = "ending" /\ deferred'[p] # NoTime /\ Queued(p) # {}
               => deferred'[p] <= clock,
           \A q \in Proc \ {p} : pc'[q] = pc[q] /\ deferred'[q] = deferred[q]
    PROVE  \A q \in Proc : Deferral(q)'
<1>1. /\ clock \in Nat /\ clock' = clock /\ jobs' = jobs
      /\ snap'[p] = EmptyTable /\ now'[p] = 0
      /\ \A q \in Proc \ {p} : snap'[q] = snap[q] /\ now'[q] = now[q]
  BY DEF PrimerInv, CurrentInv, TypeInv, TypeOK, Forget, db
<1>2. \A i \in Id : ~ IsPrimer(snap'[p][i])
  BY <1>1, JobOrPrimer DEF EmptyTable
<1>3. Queued(p)' = Queued(p)
  BY <1>1 DEF Queued
<1>4. Deferral(p)'
  BY <1>1, <1>2, <1>3 DEF Deferral
<1>5. ASSUME NEW q \in Proc \ {p} PROVE Deferral(q)'
  <2>1. KeepsPrimers(q)
    BY <1>1 DEF KeepsPrimers
  <2> QED BY <1>1, <2>1, OthersDeferral
<1> QED BY <1>4, <1>5

LEMMA ForgetDeferral ==
    ASSUME PrimerInv, NEW p \in Proc,
           \/ InitDone(p) \/ EndDeferred(p) \/ NoActiveJobs(p) \/ ReloadDone(p)
           \/ NothingToRun(p) \/ AfterJob(p) \/ Crash(p)
           \/ BeginPass(p) /\ DueJobs(p, clock) = {}
    PROVE  /\ \A q \in Proc : Deferral(q)'
           /\ UNCHANGED jobs
<1>1. UNCHANGED <<db, clock>> /\ Forget(p) /\ UNCHANGED jobs
  BY DEF InitDone, EndDeferred, NoActiveJobs, ReloadDone, NothingToRun, AfterJob,
         Crash, BeginPass, db
<1>2. PICK l \in {"down", "sleep", "ending"} : Goto(p, l)
  BY DEF InitDone, EndDeferred, NoActiveJobs, ReloadDone, NothingToRun, AfterJob,
         Crash, BeginPass, EndWithoutJobs
<1>3. pc'[p] = l /\ \A q \in Proc \ {p} : pc'[q] = pc[q]
  BY <1>2 DEF Goto, PrimerInv, CurrentInv, TypeInv, TypeOK
<1>4. \A q \in Proc \ {p} : deferred'[q] = deferred[q]
  BY DEF InitDone, EndDeferred, NoActiveJobs, ReloadDone, NothingToRun, AfterJob,
         Crash, BeginPass, EndWithoutJobs, PrimerInv, CurrentInv, TypeInv, TypeOK
<1>5. l = "down" => deferred'[p] = NoTime
  BY <1>2, <1>3 DEF InitDone, EndDeferred, NoActiveJobs, ReloadDone, NothingToRun, AfterJob,
         Crash, BeginPass, EndWithoutJobs, Goto, PrimerInv, Deferral, CurrentInv, TypeInv, TypeOK
<1>6. l = "ending" /\ deferred'[p] # NoTime /\ Queued(p) # {} => deferred'[p] <= clock
  <2>1. CASE EndDeferred(p)
    <3>1. now[p] <= clock /\ \A i \in Queued(p) : snap[p][i] = jobs[i]
      BY <2>1 DEF EndDeferred, PrimerInv, Deferral
    <3>2. Queued(p) # {} => Primed(p) # {}
      BY <3>1 DEF Queued, Primed
    <3>3. l = "ending" => Primed(p) = {} \/ now[p] >= deferred[p]
      BY <1>3, <2>1 DEF EndDeferred, Goto, PrimerInv, CurrentInv, TypeInv, TypeOK
    <3>4. now[p] \in Nat /\ clock \in Nat /\ deferred[p] \in Int /\ deferred' = deferred
      BY <2>1 DEF EndDeferred, PrimerInv, CurrentInv, TypeInv, TypeOK, Time, NoTime
    <3> QED BY <3>1, <3>2, <3>3, <3>4
  <2>2. CASE ~ EndDeferred(p) /\ l = "ending"
    <3>1. NoActiveJobs(p) \/ ReloadDone(p) \/ AfterJob(p)
      BY <1>3, <2>2 DEF InitDone, NothingToRun, Crash, BeginPass, Goto,
                        PrimerInv, CurrentInv, TypeInv, TypeOK
    <3>2. deferred[p] = NoTime
      BY <3>1 DEF NoActiveJobs, ReloadDone, AfterJob, PrimerInv, Deferral
    <3>3. deferred' = deferred
      BY <1>3, <2>2, <3>1 DEF NoActiveJobs, ReloadDone, AfterJob, EndWithoutJobs, Goto,
                        PrimerInv, CurrentInv, TypeInv, TypeOK
    <3> QED BY <3>2, <3>3
  <2> QED BY <2>1, <2>2
<1> QED BY <1>1, <1>3, <1>4, <1>5, <1>6, ForgottenDeferral

\* The program begins a schedule, or ends it; it is not deferring its end then,
\* or the deferred end time has come, or it has no primer to remove.
LEMMA RemoveDeferral ==
    ASSUME PrimerInv, NEW p \in Proc, Restart(p) \/ ReloadSchedule(p) \/ EndSchedule(p)
    PROVE  /\ \A q \in Proc : Deferral(q)'
           /\ jobs' = WithoutOwned(p)
           /\ Queued(p) # {} => deferred[p] = NoTime \/ deferred[p] <= clock
<1>1. Current(p) /\ Deferral(p) /\ clock \in Nat
  BY DEF PrimerInv, CurrentInv, TypeInv, TypeOK
<1>2. jobs' = WithoutOwned(p) /\ clock' = clock
  BY <1>1 DEF Restart, ReloadSchedule, EndSchedule, Current
<1>3. /\ snap'[p] = EmptyTable
      /\ now'[p] <= clock'
      /\ pc'[p] \in {"init", "reload", "down"}
      /\ deferred'[p] = NoTime
      /\ \A q \in Proc \ {p} : /\ pc'[q] = pc[q] /\ snap'[q] = snap[q]
                              /\ now'[q] = now[q] /\ deferred'[q] = deferred[q]
  BY <1>1 DEF Restart, ReloadSchedule, EndSchedule, Goto, Current, Deferral,
              PrimerInv, CurrentInv, TypeInv, TypeOK
<1>4. \A i \in Id : ~ IsPrimer(snap'[p][i])
  BY <1>3, JobOrPrimer DEF EmptyTable
<1>5. Deferral(p)'
  BY <1>3, <1>4 DEF Deferral
<1>6. ASSUME NEW q \in Proc \ {p} PROVE Deferral(q)'
  <2>1. KeepsPrimers(q)
    BY <1>2 DEF KeepsPrimers, WithoutOwned
  <2> QED BY <1>1, <1>2, <1>3, <2>1, OthersDeferral
<1>7. Queued(p) # {} => deferred[p] = NoTime \/ deferred[p] <= clock
  BY <1>1 DEF Restart, ReloadSchedule, EndSchedule, Deferral
<1> QED BY <1>2, <1>5, <1>6, <1>7

\* p has saved job i of its memory, and deleted primers it has in memory.
LEMMA SavedDeferral ==
    ASSUME PrimerInv, NEW p \in Proc, NEW i \in Id, NEW row \in JobRow,
           NEW m \in SUBSET Id, \A k \in m : IsPrimer(snap[p][k]),
           OwnJob(snap[p][i], p), SaveAndDelete(i, row, m), UNCHANGED <<clock, deferred>>,
           \A j \in Id : j # i => snap'[p][j] = snap[p][j],
           snap'[p][i] \in {row, NoRow},
           \/ pc[p] = "load" /\ pc'[p] = "load"
           \/ pc[p] \in {"pass", "run", "trigger"} /\ pc'[p] \in {"pass", "run", "trigger"},
           now'[p] <= clock,
           \A q \in Proc \ {p} : pc'[q] = pc[q] /\ snap'[q] = snap[q] /\ now'[q] = now[q]
    PROVE  /\ \A q \in Proc : Deferral(q)'
           /\ jobs'[i] = row
           /\ \A j \in Id : IsPrimer(jobs[j]) /\ jobs'[j] = NoRow =>
                 j \in m /\ snap[p][j] = jobs[j]
<1>1. Current(p) /\ Deferral(p) /\ clock \in Nat
  BY DEF PrimerInv, CurrentInv, TypeInv, TypeOK
<1>2. jobs[i] = snap[p][i] /\ IsJob(jobs[i]) /\ i \notin m
  BY <1>1, JobOrPrimer DEF Current, OwnJob
<1>3. /\ jobs'[i] = row
      /\ \A j \in Id : j # i => jobs'[j] = IF j \in m THEN NoRow ELSE jobs[j]
  BY <1>2, JobOrPrimer DEF SaveAndDelete, Updated, PrimerInv, CurrentInv, TypeInv, TypeOK
<1>4. IsJob(row) /\ ~ IsPrimer(row)
  BY RowKinds, JobOrPrimer DEF Row
<1>5. \A q \in Proc : KeepsPrimers(q)
  BY <1>2, <1>3, <1>4 DEF KeepsPrimers
<1>6. \A j \in Id : IsPrimer(snap'[p][j]) => jobs'[j] \in {snap'[p][j], NoRow}
  BY <1>1, <1>3, <1>4, JobOrPrimer DEF Deferral
<1>7. \A j \in Queued(p)' : j \in Id /\ j # i /\ j \in Queued(p) /\ jobs'[j] = jobs[j]
  BY <1>3, <1>4, JobOrPrimer DEF Queued
<1>8. Deferral(p)'
  <2>1. ASSUME pc'[p] = "load", NEW j \in Queued(p)' PROVE snap'[p][j] = jobs'[j]
    <3>1. pc[p] = "load" /\ snap[p][j] = jobs[j]
      BY <1>1, <1>7, <2>1 DEF Deferral
    <3> QED BY <1>7, <3>1
  <2>2. pc'[p] \notin {"sleep", "load", "ending"} => deferred'[p] = NoTime
    BY <1>1 DEF Deferral
  <2> QED BY <1>6, <2>1, <2>2 DEF Deferral
<1>9. ASSUME NEW q \in Proc \ {p} PROVE Deferral(q)'
  BY <1>1, <1>5, OthersDeferral
<1>10. \A j \in Id : IsPrimer(jobs[j]) /\ jobs'[j] = NoRow => j \in m /\ snap[p][j] = jobs[j]
  BY <1>1, <1>3, <1>4, JobOrPrimer DEF Deferral
<1> QED BY <1>3, <1>8, <1>9, <1>10

\* A record has been inserted: a job, or a primer by somebody who has run a job or
\* by a web user.
LEMMA InsertedDeferral ==
    ASSUME PrimerInv, NEW row, Insert(row),
           UNCHANGED <<clock, pc, now, deferred>>,
           \A p \in Proc : \/ snap'[p] = snap[p]
                           \/ IsJob(row) /\ snap'[p] = [snap[p] EXCEPT ![nextId] = row],
           row.prio = PRIMER => \A p \in Proc : row.owner = p => pc[p] = "trigger"
    PROVE  /\ \A q \in Proc : Deferral(q)'
           /\ \A j \in Id : IsPrimer(jobs[j]) => jobs'[j] = jobs[j]
<1>1. nextId \in Id /\ clock \in Nat
  BY DEF Insert, PrimerInv, CurrentInv, TypeInv, TypeOK, Id
<1>2. jobs'[nextId] = row /\ \A i \in Id : i # nextId => jobs'[i] = jobs[i]
  BY <1>1 DEF Insert, PrimerInv, CurrentInv, TypeInv, TypeOK
<1>3. jobs[nextId] = NoRow /\ \A p \in Proc : snap[p][nextId] = NoRow
  BY <1>1 DEF PrimerInv, CurrentInv, Fresh, Current, Id
<1>4. ASSUME NEW q \in Proc PROVE Deferral(q)'
  <2>1. Deferral(q)
    BY DEF PrimerInv
  <2>2. \A i \in Id : snap'[q][i] = snap[q][i] \/ (i = nextId /\ IsJob(row) /\ snap'[q][i] = row)
    <3>1. \E S : snap[q] \in [Id -> S]
      BY DEF PrimerInv, CurrentInv, TypeInv, TypeOK
    <3>2. CASE snap'[q] = snap[q]
      BY <3>2
    <3>3. CASE IsJob(row) /\ snap'[q] = [snap[q] EXCEPT ![nextId] = row]
      BY <3>1, <3>3
    <3> QED BY <3>2, <3>3
  <2>3. \A i \in Id : IsPrimer(snap'[q][i]) => jobs'[i] \in {snap'[q][i], NoRow}
    <3>1. ASSUME NEW i \in Id, IsPrimer(snap'[q][i])
          PROVE  jobs'[i] \in {snap'[q][i], NoRow}
      <4>1. snap'[q][i] = snap[q][i] /\ i # nextId
        BY <1>3, <2>2, <3>1, JobOrPrimer
      <4> QED BY <1>2, <2>1, <3>1, <4>1 DEF Deferral
    <3> QED BY <3>1
  <2>4. CASE pc[q] = "trigger"
    BY <2>1, <2>3, <2>4 DEF Deferral
  <2>5. CASE pc[q] # "trigger"
    <3>1. \A i \in Queued(q)' : i # nextId /\ i \in Queued(q) /\ jobs'[i] = jobs[i]
      BY <1>2, <2>5 DEF Queued, IsPrimer
    <3>2. \A i \in Queued(q)' : snap'[q][i] = snap[q][i]
      BY <2>2, <3>1 DEF Queued
    <3>3. Queued(q)' # {} => Queued(q) # {}
      BY <3>1
    <3> QED BY <2>1, <2>3, <3>1, <3>2, <3>3 DEF Deferral
  <2> QED BY <2>4, <2>5
<1> QED BY <1>2, <1>3, <1>4, JobOrPrimer

\* What PrimersHonoured says of a step.
Honoured ==
    \A i \in Id : IsPrimer(jobs[i]) /\ jobs'[i] = NoRow =>
       \/ \E j \in Id : /\ IsJob(jobs'[j])
                        /\ LabelOf(jobs'[j]) = jobs[i].label
                        /\ jobs'[j].status \in {TRIGGERED, ENDED}
       \/ \E p \in Proc : /\ jobs[i].owner = p
                          /\ jobs' = WithoutOwned(p)
                          /\ deferred[p] = NoTime \/ deferred[p] <= clock

PrimerStep == Honoured /\ \A q \in Proc : Deferral(q)'

LEMMA ExpireJobDeferral ==
    ASSUME PrimerInv, NEW p \in Proc, NEW i \in Id, ExpireJob(p, i) PROVE PrimerStep
<1> DEFINE row == Ended(snap[p][i])
<1>1. snap[p][i] \in JobRow /\ OwnJob(snap[p][i], p)
  BY MemoryType DEF ExpireJob, TooLateJobs, PrimerInv, CurrentInv, TypeInv
<1>2. row \in JobRow /\ row.entry = snap[p][i].entry /\ row.status = ENDED
  <2>1. row.status = ENDED
    BY <1>1 DEF Ended, JobRow
  <2> HIDE DEF row
  <2>2. row \in JobRow /\ row.entry = snap[p][i].entry
    BY <1>1, EndedType DEF row
  <2> QED BY <2>1, <2>2
<1>3. PICK m \in PrimerChoices(p, LabelOf(snap[p][i])) : SaveAndDelete(i, row, m)
  BY DEF ExpireJob
<1>4. m \in SUBSET Id /\ \A k \in m : IsPrimer(snap[p][k]) /\ snap[p][k].label = LabelOf(snap[p][i])
  BY DEF PrimerChoices, PrimersFor
<1> HIDE DEF row
<1>5. /\ pc[p] = "load" /\ pc'[p] = "load" /\ UNCHANGED <<clock, deferred>> /\ now'[p] = now[p]
      /\ \A j \in Id : j # i => snap'[p][j] = snap[p][j]
      /\ snap'[p][i] \in {row, NoRow}
      /\ \A q \in Proc \ {p} : pc'[q] = pc[q] /\ snap'[q] = snap[q] /\ now'[q] = now[q]
  BY DEF ExpireJob, PrimerInv, CurrentInv, TypeInv, TypeOK
<1>6. now'[p] <= clock
  BY <1>5 DEF PrimerInv, Deferral
<1>7. /\ \A q \in Proc : Deferral(q)'
      /\ jobs'[i] = row
      /\ \A j \in Id : IsPrimer(jobs[j]) /\ jobs'[j] = NoRow =>
            j \in m /\ snap[p][j] = jobs[j]
  BY <1>1, <1>2, <1>3, <1>4, <1>5, <1>6, SavedDeferral
<1>8. IsJob(row) /\ LabelOf(row) = LabelOf(snap[p][i])
  BY <1>2, RowKinds DEF Row, LabelOf
<1>9. ASSUME NEW j \in Id, IsPrimer(jobs[j]), jobs'[j] = NoRow
      PROVE  IsJob(jobs'[i]) /\ LabelOf(jobs'[i]) = jobs[j].label /\ jobs'[i].status = ENDED
  <2>1. j \in m /\ snap[p][j] = jobs[j] /\ jobs'[i] = row
    BY <1>7, <1>9
  <2> QED BY <1>2, <1>4, <1>8, <2>1
<1> QED BY <1>7, <1>9 DEF PrimerStep, Honoured

LEMMA TriggerPrimedJobDeferral ==
    ASSUME PrimerInv, NEW p \in Proc, NEW i \in Id, TriggerPrimedJob(p, i) PROVE PrimerStep
<1>1. PICK k \in PrimersFor(p, LabelOf(snap[p][i])) :
        LET row == Triggered(snap[p][i], snap[p][k].created, snap[p][k].args)
        IN  SaveAndDelete(i, row, {k}) /\ snap' = [snap EXCEPT ![p][i] = row]
  BY DEF TriggerPrimedJob
<1> DEFINE row == Triggered(snap[p][i], snap[p][k].created, snap[p][k].args)
<1>2. snap[p][i] \in JobRow /\ OwnJob(snap[p][i], p)
  BY MemoryType DEF TriggerPrimedJob, PrimerInv, CurrentInv, TypeInv, WorkInv, WorkOf
<1>3. /\ snap[p][k] \in PrimerRow /\ k \in Id /\ IsPrimer(snap[p][k])
      /\ snap[p][k].label = LabelOf(snap[p][i])
  BY MemoryType, RowKinds DEF PrimersFor, PrimerInv, CurrentInv, TypeInv
<1>4. row \in JobRow /\ row.entry = snap[p][i].entry /\ row.status = TRIGGERED
  <2>1. row.status = TRIGGERED
    BY <1>2 DEF Triggered, JobRow
  <2>2. snap[p][k].created \in Nat /\ snap[p][k].args \in Args \cup {NoArgs}
    BY <1>3 DEF PrimerRow
  <2> HIDE DEF row
  <2>3. row \in JobRow /\ row.entry = snap[p][i].entry
    BY <1>2, <2>2, TriggeredType DEF row
  <2> QED BY <2>1, <2>3
<1>5. SaveAndDelete(i, row, {k}) /\ snap' = [snap EXCEPT ![p][i] = row]
  BY <1>1
<1> HIDE DEF row
<1>6. {k} \in SUBSET Id /\ \A l \in {k} : IsPrimer(snap[p][l])
  BY <1>3
<1>7. /\ pc[p] = "load" /\ pc'[p] = "load" /\ UNCHANGED <<clock, deferred>> /\ now'[p] = now[p]
      /\ \A j \in Id : j # i => snap'[p][j] = snap[p][j]
      /\ snap'[p][i] \in {row, NoRow}
      /\ \A q \in Proc \ {p} : pc'[q] = pc[q] /\ snap'[q] = snap[q] /\ now'[q] = now[q]
  BY <1>5 DEF TriggerPrimedJob, PrimerInv, CurrentInv, TypeInv, TypeOK
<1>8. now'[p] <= clock
  BY <1>7 DEF PrimerInv, Deferral
<1>9. /\ \A q \in Proc : Deferral(q)'
      /\ jobs'[i] = row
      /\ \A j \in Id : IsPrimer(jobs[j]) /\ jobs'[j] = NoRow =>
            j \in {k} /\ snap[p][j] = jobs[j]
  BY <1>2, <1>4, <1>5, <1>6, <1>7, <1>8, SavedDeferral
<1>10. IsJob(row) /\ LabelOf(row) = LabelOf(snap[p][i])
  BY <1>4, RowKinds DEF Row, LabelOf
<1>11. ASSUME NEW j \in Id, IsPrimer(jobs[j]), jobs'[j] = NoRow
       PROVE  IsJob(jobs'[i]) /\ LabelOf(jobs'[i]) = jobs[j].label /\ jobs'[i].status = TRIGGERED
  <2>1. j = k /\ snap[p][j] = jobs[j] /\ jobs'[i] = row
    BY <1>9, <1>11
  <2> QED BY <1>3, <1>4, <1>10, <2>1
<1> QED BY <1>9, <1>11 DEF PrimerStep, Honoured

\* Save in the body of the other actions deletes nothing.
LEMMA SaveDeferral ==
    ASSUME PrimerInv, NEW p \in Proc, NEW i \in Id, NEW row \in JobRow,
           OwnJob(snap[p][i], p), Save(p, i, row), UNCHANGED <<clock, deferred>>,
           pc[p] \in {"pass", "run", "trigger"}, pc'[p] \in {"pass", "run", "trigger"},
           now'[p] <= clock,
           \A q \in Proc \ {p} : pc'[q] = pc[q] /\ now'[q] = now[q]
    PROVE  PrimerStep
<1>1. /\ SaveAndDelete(i, row, {})
      /\ \A j \in Id : j # i => snap'[p][j] = snap[p][j]
      /\ snap'[p][i] = row
      /\ \A q \in Proc \ {p} : snap'[q] = snap[q]
  BY SaveIsSaveAndDelete DEF PrimerInv
<1>2. {} \in SUBSET Id /\ \A k \in {} : IsPrimer(snap[p][k])
  OBVIOUS
<1>3. /\ \A q \in Proc : Deferral(q)'
      /\ \A j \in Id : IsPrimer(jobs[j]) /\ jobs'[j] = NoRow => j \in {}
  BY <1>1, <1>2, SavedDeferral
<1> QED BY <1>3 DEF PrimerStep, Honoured

LEMMA PassDeferral ==
    ASSUME PrimerInv, NEW p \in Proc, NEW i \in Id,
           PassOverLateJob(p, i) \/ WaitForConflictingJob(p, i) \/ StartJob(p, i)
    PROVE  PrimerStep
<1>1. pc[p] = "pass" /\ now[p] <= clock
  BY DEF PassOverLateJob, WaitForConflictingJob, StartJob, IsNext, PrimerInv, Deferral
<1>2. snap[p][i] \in JobRow /\ OwnJob(snap[p][i], p)
  BY PassType DEF PassOverLateJob, WaitForConflictingJob, StartJob, PrimerInv, CurrentInv
<1>3. /\ UNCHANGED <<clock, deferred, now>>
      /\ pc'[p] \in {"pass", "run"}
      /\ \A q \in Proc \ {p} : pc'[q] = pc[q]
  BY <1>1 DEF PassOverLateJob, WaitForConflictingJob, StartJob, Goto,
              PrimerInv, CurrentInv, TypeInv, TypeOK
<1>4. /\ Ended(snap[p][i]) \in JobRow
      /\ [snap[p][i] EXCEPT !.status = WAITING] \in JobRow
      /\ [snap[p][i] EXCEPT !.status = RUNNING] \in JobRow
  <2>1. WAITING \in Status /\ RUNNING \in Status
    BY DEF Status, WAITING, RUNNING
  <2> QED BY <1>2, <2>1, EndedType DEF JobRow
<1>5. UNCHANGED <<jobs, snap>> \/ \E row \in JobRow : Save(p, i, row)
  BY <1>4 DEF PassOverLateJob, WaitForConflictingJob, StartJob
<1>6. CASE UNCHANGED <<jobs, snap>>
  <2>1. clock \in Nat /\ \A q \in Proc : KeepsPrimers(q)
    BY <1>6 DEF KeepsPrimers, PrimerInv, CurrentInv, TypeInv, TypeOK
  <2>2. ASSUME NEW q \in Proc \ {p} PROVE Deferral(q)'
    BY <1>3, <1>6, <2>1, OthersDeferral
  <2>3. Deferral(p)'
    BY <1>1, <1>3, <1>6 DEF PrimerInv, Deferral
  <2>4. Honoured
    BY <1>6, JobOrPrimer DEF Honoured
  <2> QED BY <2>2, <2>3, <2>4 DEF PrimerStep
<1>7. CASE \E row \in JobRow : Save(p, i, row)
  BY <1>1, <1>2, <1>3, <1>7, SaveDeferral
<1> QED BY <1>5, <1>6, <1>7

LEMMA FinishJobDeferral ==
    ASSUME PrimerInv, NEW p \in Proc, FinishJob(p) PROVE PrimerStep
<1>1. PICK res \in Results[FuncOf(CurJob(p))] :
        Save(p, cur[p], AfterRun(CurJob(p), res, now[p], clock))
  BY DEF FinishJob
<1> DEFINE i == cur[p]
           row == AfterRun(CurJob(p), res, now[p], clock)
<1>2. i \in Id /\ CurJob(p) \in JobRow /\ OwnJob(CurJob(p), p)
  BY CurJobType DEF FinishJob, PrimerInv, CurrentInv
<1>3. now[p] \in Nat /\ clock \in Nat /\ now[p] <= clock
  BY DEF PrimerInv, Deferral, CurrentInv, TypeInv, TypeOK
<1>4. row \in JobRow
  BY <1>2, <1>3, AfterRunType
<1>5. Save(p, i, row) /\ OwnJob(snap[p][i], p)
  BY <1>1, <1>2 DEF CurJob
<1>6. /\ pc[p] = "run" /\ pc'[p] = "trigger" /\ UNCHANGED <<clock, deferred>>
      /\ now'[p] \in {now[p], clock}
      /\ \A q \in Proc \ {p} : pc'[q] = pc[q] /\ now'[q] = now[q]
  BY DEF FinishJob, Goto, PrimerInv, CurrentInv, TypeInv, TypeOK
<1>7. now'[p] <= clock
  BY <1>3, <1>6
<1> HIDE DEF i, row
<1> QED BY <1>2, <1>4, <1>5, <1>6, <1>7, SaveDeferral

LEMMA TriggerNextDeferral ==
    ASSUME PrimerInv, NEW p \in Proc, TriggerNext(p) PROVE PrimerStep
<1>1. pc[p] = "trigger" /\ UNCHANGED <<clock, pc, now, deferred>>
  BY DEF TriggerNext
<1>2. now[p] \in Nat /\ clock \in Nat /\ now[p] <= clock
  BY DEF PrimerInv, Deferral, CurrentInv, TypeInv, TypeOK
<1>3. PICK k \in work[p] :
        \/ UNCHANGED <<db, snap>>
        \/ \E i \in Id : /\ IsJob(snap[p][i]) /\ snap[p][i].owner = p
                         /\ Save(p, i, Triggered(snap[p][i], now[p], NoArgs))
                         /\ UNCHANGED nextId
        \/ /\ Insert([label |-> CurEntry(p).triggers[k].label, owner |-> p,
                      prio |-> PRIMER, created |-> clock, args |-> NoArgs])
           /\ UNCHANGED snap
  BY DEF TriggerNext
<1>4. CASE UNCHANGED <<db, snap>>
  <2>1. Honoured
    BY <1>4, JobOrPrimer DEF Honoured, db
  <2>2. \A q \in Proc : Deferral(q)'
    BY <1>1, <1>4 DEF PrimerInv, Deferral, Queued, db
  <2> QED BY <2>1, <2>2 DEF PrimerStep
<1>5. CASE \E i \in Id : /\ IsJob(snap[p][i]) /\ snap[p][i].owner = p
                         /\ Save(p, i, Triggered(snap[p][i], now[p], NoArgs))
                         /\ UNCHANGED nextId
  <2>1. PICK i \in Id : /\ IsJob(snap[p][i]) /\ snap[p][i].owner = p
                        /\ Save(p, i, Triggered(snap[p][i], now[p], NoArgs))
    BY <1>5
  <2> DEFINE row == Triggered(snap[p][i], now[p], NoArgs)
  <2>2. snap[p][i] \in JobRow /\ OwnJob(snap[p][i], p)
    BY <2>1, MemoryType DEF PrimerInv, CurrentInv, TypeInv, OwnJob
  <2>3. row \in JobRow
    BY <1>2, <2>2, TriggeredType
  <2>4. Save(p, i, row)
    BY <2>1
  <2> HIDE DEF row
  <2> QED BY <1>1, <1>2, <2>2, <2>3, <2>4, SaveDeferral
<1> DEFINE primer == [label |-> CurEntry(p).triggers[k].label, owner |-> p,
                      prio |-> PRIMER, created |-> clock, args |-> NoArgs]
<1>6. CASE Insert(primer) /\ UNCHANGED snap
  <2>1. primer.prio = PRIMER /\ primer.owner = p
    OBVIOUS
  <2> HIDE DEF primer
  <2>2. /\ \A q \in Proc : Deferral(q)'
        /\ \A j \in Id : IsPrimer(jobs[j]) => jobs'[j] = jobs[j]
    BY <1>1, <1>6, <2>1, InsertedDeferral
  <2> QED BY <2>2, JobOrPrimer DEF PrimerStep, Honoured
<1> QED BY <1>3, <1>4, <1>5, <1>6

LEMMA AddJobDeferral ==
    ASSUME PrimerInv, NEW p \in Proc, AddJob(p) PROVE PrimerStep
<1>1. PICK e \in work[p] :
        /\ Insert(NewJob(p, e, now[p]))
        /\ snap' = [snap EXCEPT ![p][nextId] = NewJob(p, e, now[p])]
  BY DEF AddJob
<1> DEFINE job == NewJob(p, e, now[p])
<1>2. job \in JobRow
  <2>1. e \in Entry /\ now[p] \in Nat
    BY DEF AddJob, PrimerInv, CurrentInv, TypeInv, TypeOK, WorkInv, WorkOf, OwnEntries
  <2> QED BY <2>1, NewJobType
<1>3. Insert(job) /\ snap' = [snap EXCEPT ![p][nextId] = job]
  BY <1>1
<1> HIDE DEF job
<1>4. IsJob(job) /\ job.prio # PRIMER
  <2>1. IsJob(job)
    BY <1>2, RowKinds DEF Row
  <2> QED BY <2>1 DEF IsJob
<1>5. \A q \in Proc : \/ snap'[q] = snap[q]
                      \/ IsJob(job) /\ snap'[q] = [snap[q] EXCEPT ![nextId] = job]
  BY <1>3, <1>4 DEF PrimerInv, CurrentInv, TypeInv, TypeOK
<1>6. UNCHANGED <<clock, pc, now, deferred>>
  BY DEF AddJob
<1>7. /\ \A q \in Proc : Deferral(q)'
      /\ \A j \in Id : IsPrimer(jobs[j]) => jobs'[j] = jobs[j]
  BY <1>3, <1>4, <1>5, <1>6, InsertedDeferral
<1> QED BY <1>7, JobOrPrimer DEF PrimerStep, Honoured

LEMMA RequestReportDeferral ==
    ASSUME PrimerInv, NEW a \in Args, RequestReport(a) PROVE PrimerStep
<1> DEFINE primer == [label |-> GuiLabel, owner |-> Gui, prio |-> PRIMER,
                      created |-> clock, args |-> a]
<1>1. Insert(primer) /\ UNCHANGED <<clock, pc, now, deferred, snap>>
  BY DEF RequestReport
<1>2. \A p \in Proc : primer.owner # p
  BY JobScheduleAssumption
<1> HIDE DEF primer
<1>3. /\ \A q \in Proc : Deferral(q)'
      /\ \A j \in Id : IsPrimer(jobs[j]) => jobs'[j] = jobs[j]
  BY <1>1, <1>2, InsertedDeferral
<1> QED BY <1>3, JobOrPrimer DEF PrimerStep, Honoured

LEMMA ReadJobsDeferral ==
    ASSUME PrimerInv, NEW p \in Proc, ReadJobs(p) PROVE PrimerStep
<1>1. /\ UNCHANGED <<jobs, clock, deferred>>
      /\ now'[p] = clock /\ pc'[p] = "load" /\ clock \in Nat
      /\ \A i \in Id : snap'[p][i] = IF jobs[i] # NoRow /\ jobs[i].prio # NEVER
                                     THEN jobs[i] ELSE NoRow
      /\ \A q \in Proc \ {p} : pc'[q] = pc[q] /\ snap'[q] = snap[q] /\ now'[q] = now[q]
  BY DEF ReadJobs, Goto, db, PrimerInv, CurrentInv, TypeInv, TypeOK
<1>2. \A i \in Id : IsPrimer(jobs[i]) => snap'[p][i] = jobs[i]
  BY <1>1 DEF IsPrimer, PRIMER, NEVER
<1>3. Deferral(p)'
  <2>1. \A i \in Id : IsPrimer(snap'[p][i]) => jobs'[i] = snap'[p][i]
    BY <1>1, JobOrPrimer
  <2>2. \A i \in Queued(p)' : snap'[p][i] = jobs'[i]
    BY <1>1, <1>2 DEF Queued
  <2> QED BY <1>1, <2>1, <2>2 DEF Deferral
<1>4. ASSUME NEW q \in Proc \ {p} PROVE Deferral(q)'
  <2>1. KeepsPrimers(q)
    BY <1>1 DEF KeepsPrimers
  <2> QED BY <1>1, <2>1, OthersDeferral
<1>5. Honoured
  BY <1>1, JobOrPrimer DEF Honoured
<1> QED BY <1>3, <1>4, <1>5 DEF PrimerStep

LEMMA BeginPassDeferral ==
    ASSUME PrimerInv, NEW p \in Proc, BeginPass(p), DueJobs(p, clock) # {} PROVE PrimerStep
<1>1. /\ UNCHANGED <<jobs, snap, clock, deferred>>
      /\ deferred[p] = NoTime /\ pc'[p] = "pass" /\ now'[p] = clock /\ clock \in Nat
      /\ \A q \in Proc \ {p} : pc'[q] = pc[q] /\ now'[q] = now[q]
  BY DEF BeginPass, Goto, db, PrimerInv, CurrentInv, TypeInv, TypeOK
<1>2. Deferral(p)'
  BY <1>1 DEF Deferral, PrimerInv
<1>3. ASSUME NEW q \in Proc \ {p} PROVE Deferral(q)'
  <2>1. KeepsPrimers(q)
    BY <1>1 DEF KeepsPrimers
  <2> QED BY <1>1, <2>1, OthersDeferral
<1>4. Honoured
  BY <1>1, JobOrPrimer DEF Honoured
<1> QED BY <1>2, <1>3, <1>4 DEF PrimerStep

LEMMA TickDeferral ==
    ASSUME PrimerInv, Tick \/ UNCHANGED vars PROVE PrimerStep
<1>1. UNCHANGED <<jobs, snap, pc, now, deferred>> /\ clock' \in {clock, clock + 1}
  BY DEF Tick, vars, db
<1>2. clock \in Nat /\ clock' \in Nat /\ clock' >= clock
  BY <1>1 DEF PrimerInv, CurrentInv, TypeInv, TypeOK
<1>3. ASSUME NEW q \in Proc PROVE Deferral(q)'
  <2>1. KeepsPrimers(q)
    BY <1>1 DEF KeepsPrimers
  <2> QED BY <1>1, <1>2, <2>1, OthersDeferral
<1>4. Honoured
  BY <1>1, JobOrPrimer DEF Honoured
<1> QED BY <1>3, <1>4 DEF PrimerStep

LEMMA InitPrimer == Init => PrimerInv
<1> SUFFICES ASSUME Init PROVE PrimerInv
  OBVIOUS
<1>1. \A p \in Proc : Deferral(p)
  BY JobOrPrimer DEF Init, EmptyTable, Deferral, Queued
<1> QED BY <1>1, InitCurrent DEF PrimerInv

LEMMA PrimerInductive ==
    ASSUME NoPurge PROVE PrimerInv /\ [Next]_vars => PrimerInv' /\ Honoured
<1> SUFFICES ASSUME PrimerInv, [Next]_vars PROVE PrimerInv' /\ Honoured
  OBVIOUS
<1>1. CurrentInv'
  BY CurrentStep DEF PrimerInv
<1>2. ASSUME NEW p \in Proc,
             \/ InitDone(p) \/ EndDeferred(p) \/ NoActiveJobs(p) \/ ReloadDone(p)
             \/ NothingToRun(p) \/ AfterJob(p) \/ Crash(p)
             \/ BeginPass(p) /\ DueJobs(p, clock) = {}
      PROVE  PrimerStep
  BY <1>2, ForgetDeferral, JobOrPrimer DEF PrimerStep, Honoured
<1>3. ASSUME NEW p \in Proc, Restart(p) \/ ReloadSchedule(p) \/ EndSchedule(p)
      PROVE  PrimerStep
  <2>1. /\ \A q \in Proc : Deferral(q)'
        /\ jobs' = WithoutOwned(p)
        /\ Queued(p) # {} => deferred[p] = NoTime \/ deferred[p] <= clock
    BY <1>3, RemoveDeferral
  <2>2. ASSUME NEW i \in Id, IsPrimer(jobs[i]), jobs'[i] = NoRow
        PROVE  jobs[i].owner = p /\ i \in Queued(p)
    BY <2>1, <2>2, JobOrPrimer DEF WithoutOwned, Queued
  <2> QED BY <2>1, <2>2 DEF PrimerStep, Honoured
<1>4. ASSUME NEW p \in Proc, Step(p) PROVE PrimerStep
  BY <1>2, <1>3, <1>4, AddJobDeferral, ReadJobsDeferral, BeginPassDeferral,
     ExpireJobDeferral, TriggerPrimedJobDeferral, PassDeferral, FinishJobDeferral,
     TriggerNextDeferral DEF Step
<1>5. PrimerStep
  BY <1>2, <1>4, RequestReportDeferral, TickDeferral DEF Next
<1> QED BY <1>1, <1>5 DEF PrimerStep, PrimerInv

\* As long as the table is not truncated, a primer that Schedule.trigger_job or a
\* web user has inserted leaves it only when the job has been triggered by it or
\* has ended, or with all the records of the program that created it, which
\* cannot happen while run_schedule is deferring that program's end.
THEOREM PrimersAreHonoured == NoPurge => (Spec => PrimersHonoured)
<1> SUFFICES ASSUME NoPurge PROVE Spec => PrimersHonoured
  OBVIOUS
<1>1. PrimerInv /\ [Next]_vars => PrimerInv'
  BY PrimerInductive
<1>2. PrimerInv /\ [Next]_vars => Honoured
  BY PrimerInductive
<1>3. Spec => [][Honoured]_vars
  BY InitPrimer, <1>1, <1>2, PTL DEF Spec
<1> QED BY <1>3 DEF PrimersHonoured, Honoured

==============================================================================
