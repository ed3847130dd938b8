----------------------------- MODULE JobSchedule -----------------------------
(***************************************************************************)
(* The job scheduler of PubRouter (router/shared/models/schedule.py): a    *)
(* number of programs ("server_prog": the Scheduler of App1, the Scheduler *)
(* of App2, the Harvester ...) run one schedule between them.  All they    *)
(* share is the MySQL table `job`.  Every program inserts a record for     *)
(* each schedule entry whose function it can execute, then loops: sleep,   *)
(* read the whole table, consume the "primer" records by which the other   *)
(* programs trigger its jobs, run at most one job, trigger the jobs that   *)
(* depend on it.                                                           *)
(*                                                                         *)
(* One action is one stretch of the loop with at most one statement        *)
(* executed by the database, so every interleaving of the programs at      *)
(* the table is in the model.  A program can stop dead at any point        *)
(* (Crash) and is restarted by supervisord (Restart).                      *)
(***************************************************************************)
EXTENDS JobTimes, Sequences

CONSTANTS
    Proc,          \* the programs that run the schedule
    Gui,           \* the web application: it only inserts primers
    Func,          \* names of job functions
    Label,         \* labels by which a job is triggered
    NoLabel,
    ScheduleSpec,  \* SCHEDULER_SPEC: a sequence of entries
    ProcessMap,    \* which functions a program can execute
    Conflicts,     \* SCHEDULER_CONFLICTS: functions a function must not overlap
    Results,       \* what a function may return
    KeepAlive,     \* programs created with end_if_no_jobs=False
    DeferEnd,      \* the defer_end of a program, in ticks
    Args,          \* arguments a web user may give to a triggered job
    NoArgs,
    GuiLabel,      \* the label web users trigger ("REP")
    NoRow,
    MaxId,         \* bound: highest record id handed out by the database
    MaxTime,       \* bound: last tick of the clock
    MaxFail        \* bound: number of crashes and of exceptions in jobs

Id == 1 .. MaxId
Entry == DOMAIN ScheduleSpec

\* What ends a pass through the loop of run_schedule: a job_flag of the job's
\* JobResult, an exception, or an absence of jobs.
Flag == {"none", "end_job", "end_schedule", "purge", "kill", "exception", "db_empty"}

Result == [count : BOOLEAN,
           flag : {"none", "end_job", "end_schedule", "purge", "kill", "exception"}]

ASSUME JobScheduleAssumption ==
    /\ Gui \notin Proc
    /\ NoLabel \notin Label
    /\ NoArgs \notin Args
    /\ GuiLabel \in Label
    /\ ScheduleSpec \in Seq([label : Label \cup {NoLabel}, func : Func,
                             start : Time, every : Time \ {0}, end : Time,
                             prio : Priority,
                             triggers : Seq([label : Label, always : BOOLEAN])])
    /\ ProcessMap \in [Proc -> SUBSET Func]
    /\ Conflicts \in [Func -> SUBSET Func]
    /\ Results \in [Func -> SUBSET Result]
    /\ KeepAlive \subseteq Proc
    /\ DeferEnd \in [Proc -> Time]
    /\ MaxId \in Nat /\ MaxTime \in Nat /\ MaxFail \in Nat

\* A record of table `job` is a job or, with priority PRIMER, a primer.  Of a
\* job's columns those that never change are looked up in the schedule entry.
JobRow == [entry : Entry, owner : Proc, prio : Priority \cup {NEVER},
           status : Status, next : Time, end : Time, args : Args \cup {NoArgs}]
PrimerRow == [label : Label, owner : Proc \cup {Gui}, prio : {PRIMER},
              created : Nat, args : Args \cup {NoArgs}]
Row == JobRow \cup PrimerRow

ASSUME NoRowAssumption == NoRow \notin Row

VARIABLES
    jobs,       \* the table `job`: id -> record
    nextId,     \* its auto-increment counter
    clock,
    pc,         \* where in its program each process is
    snap,       \* sorted_jobs, primed_jobs and running_jobs: the records as read
    work,       \* items the for-loop being executed has left: ids or indexes
    now,        \* Schedule.current_time
    cur,        \* id of the job being run
    flag,       \* how the loop is about to end
    deferred,   \* deferred_end_time
    requested,  \* arguments web users have submitted
    ran,        \* arguments with which a job function was called (history)
    failures

db    == <<jobs, nextId>>
ghost == <<requested, ran>>
vars  == <<jobs, nextId, clock, pc, snap, work, now, cur, flag, deferred,
           requested, ran, failures>>

PC == {"down", "init", "reload", "sleep", "load", "pass", "run", "trigger", "ending"}

EmptyTable == [i \in Id |-> NoRow]

IsPrimer(r) == r # NoRow /\ r.prio = PRIMER
IsJob(r)    == r # NoRow /\ r.prio # PRIMER
OwnJob(r, p) == IsJob(r) /\ r.owner = p

LabelOf(r) == ScheduleSpec[r.entry].label
FuncOf(r)  == ScheduleSpec[r.entry].func

TypeOK ==
    /\ jobs \in [Id -> Row \cup {NoRow}]
    /\ nextId \in 1 .. MaxId + 1
    /\ clock \in Nat
    /\ pc \in [Proc -> PC]
    /\ snap \in [Proc -> [Id -> Row \cup {NoRow}]]
    /\ work \in [Proc -> SUBSET Nat]
    /\ now \in [Proc -> Nat]
    /\ cur \in [Proc -> Id \cup {0}]
    /\ flag \in [Proc -> Flag]
    /\ deferred \in [Proc -> Time]
    /\ requested \in SUBSET Args
    /\ ran \in SUBSET (Args \cup {NoArgs})
    /\ failures \in Nat

Init ==
    /\ jobs = EmptyTable
    /\ nextId = 1
    /\ clock = 0
    /\ pc = [p \in Proc |-> "down"]
    /\ snap = [p \in Proc |-> EmptyTable]
    /\ work = [p \in Proc |-> {}]
    /\ now = [p \in Proc |-> 0]
    /\ cur = [p \in Proc |-> 0]
    /\ flag = [p \in Proc |-> "none"]
    /\ deferred = [p \in Proc |-> NoTime]
    /\ requested = {}
    /\ ran = {}
    /\ failures = 0

-----------------------------------------------------------------------------
\* The statements the database executes.

\* Mutant: the counter skips ids.
InsertSkippingIds(row) ==
    /\ nextId <= MaxId
    /\ jobs' = [jobs EXCEPT ![nextId] = row]
    /\ nextId' = nextId + 3

\* INSERT: the record gets the next auto-increment id.
Insert(row) ==
    /\ nextId <= MaxId
    /\ jobs' = [jobs EXCEPT ![nextId] = row]
    /\ nextId' = nextId + 1

\* UPDATE ... WHERE id = i, of all columns: no effect if there is no such record.
Updated(table, i, row) ==
    [table EXCEPT ![i] = IF @ = NoRow THEN NoRow ELSE row]

\* Mutants: nothing is deleted; everybody's records are.
WithoutNone(p) == jobs
WithoutAny(p)  == EmptyTable

\* DELETE ... WHERE server_prog = p: jobs of p, and primers p created.
WithoutOwned(p) ==
    [i \in Id |-> IF jobs[i] # NoRow /\ jobs[i].owner = p THEN NoRow ELSE jobs[i]]

\* A program's memory once it has nothing to remember of its last loop.
Forget(p) ==
    /\ snap' = [snap EXCEPT ![p] = EmptyTable]
    /\ work' = [work EXCEPT ![p] = {}]
    /\ now' = [now EXCEPT ![p] = 0]
    /\ cur' = [cur EXCEPT ![p] = 0]

Goto(p, label) == pc' = [pc EXCEPT ![p] = label]

-----------------------------------------------------------------------------
\* What a program's memory says.

\* running_jobs: functions that were running when the table was read
Running(p) == {FuncOf(snap[p][i]) : i \in {j \in Id : /\ IsJob(snap[p][j])
                                                      /\ snap[p][j].status = RUNNING}}

\* Mutant: primed_jobs is cleared and not filled.
PrimedNever(p) == {}

\* primed_jobs: labels for which this program already had a primer queued
Primed(p) == {snap[p][i].label : i \in {j \in Id : /\ IsPrimer(snap[p][j])
                                                   /\ snap[p][j].owner = p}}

\* primer_jobs: primers with this label that other programs created
PrimersFor(p, label) ==
    {i \in Id : /\ IsPrimer(snap[p][i])
                /\ snap[p][i].owner # p
                /\ snap[p][i].label = label}

\* this_process_job_count, in memory (jobs that are too late have become ENDED)
ActiveJobs(p) == {i \in Id : OwnJob(snap[p][i], p) /\ snap[p][i].status # ENDED}

Conflicting(p, i) == Conflicts[FuncOf(snap[p][i])] \cap Running(p) # {}

\* trigger_it: the job may start at the given time, or earlier if it could already.
Triggered(row, startAt, args) ==
    [row EXCEPT !.status = TRIGGERED,
                !.next = IF @ = NoTime \/ @ > startAt THEN startAt ELSE @,
                !.args = IF args = NoArgs THEN @ ELSE args]

\* _set_ended_values
Ended(row) == [row EXCEPT !.status = ENDED, !.prio = NEVER, !.next = NoTime]

\* Mutant: the call of update() is missing.
SaveInMemory(p, i, row) ==
    /\ UNCHANGED jobs
    /\ snap' = [snap EXCEPT ![p][i] = row]

\* Save a changed in-memory job: in memory, and in the table if it still has the id.
Save(p, i, row) ==
    /\ jobs' = Updated(jobs, i, row)
    /\ snap' = [snap EXCEPT ![p][i] = row]

-----------------------------------------------------------------------------
\* Starting up

OwnEntries(p) == {e \in Entry : ScheduleSpec[e].func \in ProcessMap[p]}

NewJob(p, e, time) ==
    LET s == ScheduleSpec[e]
        v == JobInit(time, s.start, s.every, s.end, s.prio)
    IN  [entry |-> e, owner |-> p, prio |-> v.prio, status |-> v.status,
         next |-> v.next, end |-> v.end, args |-> NoArgs]

\* supervisord starts the program again; Schedule.__init__ begins by deleting
\* the records an earlier run of the program left behind.
Restart(p) ==
    /\ pc[p] = "down"
    /\ jobs' = WithoutOwned(p)
    /\ Goto(p, "init")
    /\ work' = [work EXCEPT ![p] = OwnEntries(p)]
    /\ now' = [now EXCEPT ![p] = clock]
    /\ UNCHANGED <<nextId, clock, snap, cur, flag, deferred, ghost, failures>>

\* add_job, for the next entry of the schedule that this program executes.
AddJob(p) ==
    /\ pc[p] \in {"init", "reload"}
    /\ \E e \in work[p] :
        /\ \A f \in work[p] : e <= f
        /\ LET job == NewJob(p, e, now[p])
           IN  /\ Insert(job)
               /\ snap' = [snap EXCEPT ![p][nextId] = job]
        /\ work' = [work EXCEPT ![p] = @ \ {e}]
    /\ UNCHANGED <<clock, pc, now, cur, flag, deferred, ghost, failures>>

\* End of _init_and_report_schedule: go into the loop, unless there is nothing
\* this program will ever run (NoJobsScheduled: the program exits).
InitDone(p) ==
    /\ pc[p] = "init"
    /\ work[p] = {}
    /\ Goto(p, IF ActiveJobs(p) = {} THEN "down" ELSE "sleep")
    /\ Forget(p)
    /\ UNCHANGED <<db, clock, flag, deferred, ghost, failures>>

-----------------------------------------------------------------------------
\* Reading the table: _init_job_structs_from_database

TooLateJobs(p, table, time) ==
    {i \in Id : /\ OwnJob(table[i], p)
                /\ table[i].status # RUNNING
                /\ TooLate(time, table[i].end)}

PrimedJobs(p, table) ==
    {i \in Id : /\ OwnJob(table[i], p)
                /\ \E j \in Id : /\ IsPrimer(table[j])
                                 /\ table[j].owner # p
                                 /\ table[j].label = LabelOf(table[i])}

\* The query: all records that have not ended.  Left to do is to look at each
\* own job that is too late to run or has a primer.
ReadJobs(p) ==
    /\ pc[p] = "sleep"
    /\ LET table == [i \in Id |-> IF jobs[i] # NoRow /\ jobs[i].prio # NEVER
                                  THEN jobs[i] ELSE NoRow]
       IN  /\ snap' = [snap EXCEPT ![p] = table]
           /\ work' = [work EXCEPT ![p] =
                         TooLateJobs(p, table, clock) \cup PrimedJobs(p, table)]
           /\ flag' = [flag EXCEPT ![p] =
                         IF table = EmptyTable THEN "db_empty" ELSE "none"]
    /\ now' = [now EXCEPT ![p] = clock]
    /\ Goto(p, "load")
    /\ UNCHANGED <<db, clock, cur, deferred, ghost, failures>>

\* The primer popped for a label: one of those there are, if any (the query
\* does not say which of several primers comes first).
PrimerChoices(p, label) ==
    IF PrimersFor(p, label) = {} THEN {{}} ELSE {{m} : m \in PrimersFor(p, label)}

\* The row is saved and the primer deleted: two statements that only this
\* program's own next read tells apart.
SaveAndDelete(i, row, primers) ==
    jobs' = [j \in Id |-> IF j \in primers THEN NoRow ELSE Updated(jobs, i, row)[j]]

\* An own job whose end time has passed is ended for good; the primer it may
\* have had is deleted all the same.
ExpireJob(p, i) ==
    /\ pc[p] = "load"
    /\ i \in work[p]
    /\ i \in TooLateJobs(p, snap[p], now[p])
    /\ \E m \in PrimerChoices(p, LabelOf(snap[p][i])) :
        SaveAndDelete(i, Ended(snap[p][i]), m)
    /\ snap' = [snap EXCEPT ![p][i] = NoRow]
    /\ work' = [work EXCEPT ![p] = @ \ {i}]
    /\ UNCHANGED <<nextId, clock, pc, now, cur, flag, deferred, ghost, failures>>

\* An own job with a primer is triggered, with the primer's arguments.
TriggerPrimedJob(p, i) ==
    /\ pc[p] = "load"
    /\ i \in work[p]
    /\ i \notin TooLateJobs(p, snap[p], now[p])
    /\ \E m \in PrimersFor(p, LabelOf(snap[p][i])) :
        LET row == Triggered(snap[p][i], snap[p][m].created, snap[p][m].args)
        IN  /\ SaveAndDelete(i, row, {m})
            /\ snap' = [snap EXCEPT ![p][i] = row]
    /\ work' = [work EXCEPT ![p] = @ \ {i}]
    /\ UNCHANGED <<nextId, clock, pc, now, cur, flag, deferred, ghost, failures>>

-----------------------------------------------------------------------------
\* What run_schedule decides before it looks for a job to run

\* The end of the schedule is deferred until the primers this program created
\* have been consumed, or until the deferred end time.
EndDeferred(p) ==
    /\ pc[p] = "load" /\ work[p] = {}
    /\ deferred[p] # NoTime
    /\ IF Primed(p) = {} \/ now[p] >= deferred[p]
       THEN /\ Goto(p, "ending")
            /\ flag' = [flag EXCEPT ![p] = "end_schedule"]
       ELSE /\ Goto(p, "sleep")
            /\ UNCHANGED flag
    /\ Forget(p)
    /\ UNCHANGED <<db, clock, deferred, ghost, failures>>

\* Without an active job the program ends, at once or after a deferment.
EndWithoutJobs(p) ==
    IF flag[p] # "db_empty" /\ DeferEnd[p] # NoTime
    THEN /\ deferred' = [deferred EXCEPT ![p] = now[p] + DeferEnd[p]]
         /\ Goto(p, "sleep")
    ELSE /\ Goto(p, "ending")
         /\ UNCHANGED deferred

NoActiveJobs(p) ==
    /\ pc[p] = "load" /\ work[p] = {}
    /\ deferred[p] = NoTime
    /\ ActiveJobs(p) = {}
    /\ p \notin KeepAlive
    /\ EndWithoutJobs(p)
    /\ Forget(p)
    /\ UNCHANGED <<db, clock, flag, ghost, failures>>

\* ... unless it was created with end_if_no_jobs=False: _init_schedule again.
ReloadSchedule(p) ==
    /\ pc[p] = "load" /\ work[p] = {}
    /\ deferred[p] = NoTime
    /\ ActiveJobs(p) = {}
    /\ p \in KeepAlive
    /\ jobs' = WithoutOwned(p)
    /\ Goto(p, "reload")
    /\ snap' = [snap EXCEPT ![p] = EmptyTable]
    /\ work' = [work EXCEPT ![p] = OwnEntries(p)]
    /\ now' = [now EXCEPT ![p] = clock]
    /\ UNCHANGED <<nextId, clock, cur, flag, deferred, ghost, failures>>

\* After a reload every next start lies in the future, so that the search for
\* a job to run that follows at once finds none.
ReloadDone(p) ==
    /\ pc[p] = "reload"
    /\ work[p] = {}
    /\ IF ActiveJobs(p) = {}
       THEN EndWithoutJobs(p)
       ELSE Goto(p, "sleep") /\ UNCHANGED deferred
    /\ Forget(p)
    /\ UNCHANGED <<db, clock, flag, ghost, failures>>

-----------------------------------------------------------------------------
\* run_next_pending: one pass over the jobs that are due

\* Mutant: only jobs that have a time of their own are run.
StartableNotTriggered == {PENDING, WAITING}

Startable == {TRIGGERED, PENDING, WAITING}

\* Jobs for which can_run does not stop at the first conditions.
DueJobs(p, time) ==
    {i \in Id : /\ OwnJob(snap[p][i], p)
                /\ snap[p][i].status \in Startable
                /\ snap[p][i].next # NoTime
                /\ snap[p][i].next <= time}

BeginPass(p) ==
    /\ pc[p] = "load" /\ work[p] = {}
    /\ deferred[p] = NoTime
    /\ ActiveJobs(p) # {}
    /\ IF DueJobs(p, clock) = {}
       THEN /\ Goto(p, "sleep")
            /\ Forget(p)
       ELSE /\ Goto(p, "pass")
            /\ work' = [work EXCEPT ![p] = DueJobs(p, clock)]
            /\ now' = [now EXCEPT ![p] = clock]
            /\ UNCHANGED <<snap, cur>>
    /\ UNCHANGED <<db, clock, flag, deferred, ghost, failures>>

\* Ascending priority, then next start; the query leaves ties open.
Before(a, b) == a.prio < b.prio \/ (a.prio = b.prio /\ a.next < b.next)

IsNext(p, i) ==
    /\ pc[p] = "pass"
    /\ i \in work[p]
    /\ \A j \in work[p] : ~Before(snap[p][j], snap[p][i])

\* can_run returns False: the next job is looked at.
PassOverLateJob(p, i) ==
    /\ IsNext(p, i)
    /\ TooLate(now[p], snap[p][i].end)
    /\ Save(p, i, Ended(snap[p][i]))
    /\ work' = [work EXCEPT ![p] = @ \ {i}]
    /\ UNCHANGED <<nextId, clock, pc, now, cur, flag, deferred, ghost, failures>>

\* can_run returns None: no further job of this priority is looked at.
WaitForConflictingJob(p, i) ==
    /\ IsNext(p, i)
    /\ ~TooLate(now[p], snap[p][i].end)
    /\ Conflicting(p, i)
    /\ IF snap[p][i].status = WAITING
       THEN UNCHANGED <<jobs, snap>>
       ELSE Save(p, i, [snap[p][i] EXCEPT !.status = WAITING])
    /\ work' = [work EXCEPT ![p] = {j \in @ : snap[p][j].prio # snap[p][i].prio}]
    /\ UNCHANGED <<nextId, clock, pc, now, cur, flag, deferred, ghost, failures>>

\* can_run returns True: Job.run marks the job as running and calls its function.
StartJob(p, i) ==
    /\ IsNext(p, i)
    /\ ~TooLate(now[p], snap[p][i].end)
    /\ ~Conflicting(p, i)
    /\ Save(p, i, [snap[p][i] EXCEPT !.status = RUNNING])
    /\ Goto(p, "run")
    /\ work' = [work EXCEPT ![p] = {}]
    /\ cur' = [cur EXCEPT ![p] = i]
    /\ ran' = ran \cup {snap[p][i].args}
    /\ UNCHANGED <<nextId, clock, now, flag, deferred, requested, failures>>

NothingToRun(p) ==
    /\ pc[p] = "pass"
    /\ work[p] = {}
    /\ Goto(p, "sleep")
    /\ Forget(p)
    /\ UNCHANGED <<db, clock, flag, deferred, ghost, failures>>

-----------------------------------------------------------------------------
\* The job's function returns: the rest of Job.run, then trigger_jobs

CurJob(p)   == snap[p][cur[p]]
CurEntry(p) == ScheduleSpec[CurJob(p).entry]

\* The job record after a run that began at runTime.
AfterRun(row, res, runTime, time) ==
    LET every == ScheduleSpec[row.entry].every
        again == FirstAfter(runTime, every, time)
    IN  IF res.flag = "end_job" THEN Ended(row)
        ELSE IF every = NoTime THEN [row EXCEPT !.next = NoTime, !.status = FINISHED]
        ELSE IF TooLate(again, row.end) THEN Ended(row)
        ELSE [row EXCEPT !.next = again, !.status = PENDING]

FinishJob(p) ==
    /\ pc[p] = "run"
    /\ \E res \in Results[FuncOf(CurJob(p))] :
        /\ Save(p, cur[p], AfterRun(CurJob(p), res, now[p], clock))
        /\ IF res.flag = "exception"
           THEN failures < MaxFail /\ failures' = failures + 1
           ELSE UNCHANGED failures
        /\ flag' = [flag EXCEPT ![p] = res.flag]
        /\ work' = [work EXCEPT ![p] =
                      {k \in DOMAIN CurEntry(p).triggers :
                          res.count \/ CurEntry(p).triggers[k].always}]
        /\ now' = [now EXCEPT ![p] =
                     IF /\ CurEntry(p).triggers = <<>>
                        /\ CurEntry(p).every = NoTime \/ res.flag = "end_job"
                     THEN @ ELSE clock]
    /\ Goto(p, "trigger")
    /\ UNCHANGED <<nextId, clock, cur, deferred, ghost>>

\* trigger_job for the next label: an own job is triggered in the table, another
\* program's by a primer, unless this program had one queued when it last read.
TriggerNext(p) ==
    /\ pc[p] = "trigger"
    /\ \E k \in work[p] :
        /\ \A l \in work[p] : k <= l
        /\ work' = [work EXCEPT ![p] = @ \ {k}]
        /\ LET label   == CurEntry(p).triggers[k].label
               matches == {i \in Id : IsJob(snap[p][i]) /\ LabelOf(snap[p][i]) = label}
           IN  \/ /\ matches = {}
                  /\ UNCHANGED <<db, snap>>
               \/ \E i \in matches :
                  \/ /\ \/ snap[p][i].status = ENDED
                        \/ snap[p][i].owner # p /\ label \in Primed(p)
                     /\ UNCHANGED <<db, snap>>
                  \/ /\ snap[p][i].status # ENDED
                     /\ snap[p][i].owner = p
                     /\ Save(p, i, Triggered(snap[p][i], now[p], NoArgs))
                     /\ UNCHANGED nextId
                  \/ /\ snap[p][i].status # ENDED
                     /\ snap[p][i].owner # p
                     /\ label \notin Primed(p)
                     /\ Insert([label |-> label, owner |-> p, prio |-> PRIMER,
                                created |-> clock, args |-> NoArgs])
                     /\ UNCHANGED snap
    /\ UNCHANGED <<clock, pc, now, cur, flag, deferred, ghost, failures>>

\* Back in run_schedule: an exception of the job is raised, a flag obeyed.
AfterJob(p) ==
    /\ pc[p] = "trigger"
    /\ work[p] = {}
    /\ IF flag[p] \in {"none", "end_job"}
       THEN Goto(p, "sleep") /\ UNCHANGED deferred
       ELSE IF flag[p] = "end_schedule" /\ DeferEnd[p] # NoTime
       THEN /\ deferred' = [deferred EXCEPT ![p] = now[p] + DeferEnd[p]]
            /\ Goto(p, "sleep")
       ELSE Goto(p, "ending") /\ UNCHANGED deferred
    /\ Forget(p)
    /\ UNCHANGED <<db, clock, flag, ghost, failures>>

\* The main program, after run_schedule: TRUNCATE TABLE if the schedule was
\* purged, else only the program's own records are deleted; then it exits.
EndSchedule(p) ==
    /\ pc[p] = "ending"
    /\ IF flag[p] = "purge"
       THEN jobs' = EmptyTable /\ nextId' = 1
       ELSE jobs' = WithoutOwned(p) /\ UNCHANGED nextId
    /\ Goto(p, "down")
    /\ flag' = [flag EXCEPT ![p] = "none"]
    /\ deferred' = [deferred EXCEPT ![p] = NoTime]
    /\ UNCHANGED <<clock, snap, work, now, cur, ghost, failures>>

-----------------------------------------------------------------------------
\* The environment

Crash(p) ==
    /\ pc[p] # "down"
    /\ failures < MaxFail
    /\ failures' = failures + 1
    /\ Goto(p, "down")
    /\ Forget(p)
    /\ flag' = [flag EXCEPT ![p] = "none"]
    /\ deferred' = [deferred EXCEPT ![p] = NoTime]
    /\ UNCHANGED <<db, clock, ghost>>

\* views/reports.py: a web user asks for a report; the view triggers the
\* report job by a primer with the user's arguments.
RequestReport(a) ==
    /\ a \in Args \ requested
    /\ requested' = requested \cup {a}
    /\ Insert([label |-> GuiLabel, owner |-> Gui, prio |-> PRIMER,
               created |-> clock, args |-> a])
    /\ UNCHANGED <<clock, pc, snap, work, now, cur, flag, deferred, ran, failures>>

Tick ==
    /\ clock < MaxTime
    /\ clock' = clock + 1
    /\ UNCHANGED <<db, pc, snap, work, now, cur, flag, deferred, ghost, failures>>

\* What a program does by itself.
Step(p) ==
    \/ Restart(p) \/ AddJob(p) \/ InitDone(p)
    \/ ReadJobs(p)
    \/ \E i \in Id : ExpireJob(p, i) \/ TriggerPrimedJob(p, i)
    \/ EndDeferred(p) \/ NoActiveJobs(p) \/ ReloadSchedule(p) \/ ReloadDone(p)
    \/ BeginPass(p)
    \/ \E i \in Id : \/ PassOverLateJob(p, i)
                     \/ WaitForConflictingJob(p, i)
                     \/ StartJob(p, i)
    \/ NothingToRun(p)
    \/ FinishJob(p) \/ TriggerNext(p) \/ AfterJob(p)
    \/ EndSchedule(p)

Next ==
    \/ \E p \in Proc : Step(p) \/ Crash(p)
    \/ \E a \in Args : RequestReport(a)
    \/ Tick

Spec == Init /\ [][Next]_vars

\* Programs keep running (supervisord restarts them, job functions return) and
\* time passes; crashes and web users owe nothing.
FairSpec == Spec /\ (\A p \in Proc : WF_vars(Step(p))) /\ WF_vars(Tick)

-----------------------------------------------------------------------------
(***************************************************************************)
(* Safety                                                                  *)
(***************************************************************************)

\* A program that is executing a job function has the record of that job, with
\* status RUNNING, in the table: it is what the other programs go by when they
\* check for conflicts (_any_running_job_conflict).
RunningVisible ==
    \A p \in Proc : pc[p] = "run" =>
        /\ OwnJob(jobs[cur[p]], p)
        /\ jobs[cur[p]].entry = CurJob(p).entry
        /\ jobs[cur[p]].status = RUNNING

\* Conversely a record with status RUNNING is being executed, unless its program
\* has stopped dead (and has not yet been restarted): otherwise the jobs that
\* conflict with it would wait for something that never ends.
RunningIsReal ==
    \A i \in Id : IsJob(jobs[i]) /\ jobs[i].status = RUNNING =>
        LET p == jobs[i].owner
        IN  pc[p] = "down" \/ (pc[p] = "run" /\ cur[p] = i)

\* Between its read of the table and its last update a program works on Job
\* objects in memory, and every update writes a whole record: no other program
\* changes the record in between, so no update is lost.
MemoryIsCurrent ==
    \A p \in Proc, i \in Id : OwnJob(snap[p][i], p) => jobs[i] = snap[p][i]

\* A program never has two records for one entry of the schedule, whatever it
\* and the others went through (crashes, restarts, reloads, a TRUNCATE by another
\* program and the reuse of its ids): labels are unique, so that a trigger
\* reaches the one job it is meant for.
OneRecordPerEntry ==
    \A i, j \in Id :
        /\ IsJob(jobs[i]) /\ IsJob(jobs[j])
        /\ jobs[i].owner = jobs[j].owner
        /\ jobs[i].entry = jobs[j].entry
        => i = j

\* What SCHEDULER_CONFLICTS is for: no function runs while one it conflicts
\* with is running in another program.
NoConflictInParallel ==
    \A p, q \in Proc : p # q /\ pc[p] = "run" /\ pc[q] = "run" =>
        FuncOf(CurJob(q)) \notin Conflicts[FuncOf(CurJob(p))]

\* A report that was requested is waiting to be triggered, or is what the report
\* job is about to run with, or has been run: the request of one user is never
\* replaced by that of another.
NoRequestReplaced ==
    \A a \in requested :
        \/ a \in ran
        \/ \E i \in Id : /\ jobs[i] # NoRow
                         /\ jobs[i].args = a

\* A primer leaves the table only when the job it is for has been triggered, or
\* is past its end time, or when the program that created it removes all its
\* records.  That a program does which begins or ends a schedule, but never
\* while it is deferring its end: "defer actual ending until either ALL primer
\* jobs created by this server-prog have been actioned ... or the maximum
\* deferment time has expired" (schedule.py:313, of Schedule.__init__).
PrimersHonoured ==
    [][\A i \in Id : IsPrimer(jobs[i]) /\ jobs'[i] = NoRow =>
          \/ \E j \in Id : /\ IsJob(jobs'[j])
                           /\ LabelOf(jobs'[j]) = jobs[i].label
                           /\ jobs'[j].status \in {TRIGGERED, ENDED}
          \/ \E p \in Proc : /\ jobs[i].owner = p
                             /\ jobs' = WithoutOwned(p)
                             /\ deferred[p] = NoTime \/ deferred[p] <= clock]_vars

(***************************************************************************)
(* Liveness                                                                *)
(***************************************************************************)

HasRecord(p, e) == \E i \in Id : /\ IsJob(jobs[i])
                                 /\ jobs[i].owner = p
                                 /\ jobs[i].entry = e

\* After the shutdown job has purged the table every program gets its whole
\* schedule back.
PurgeReloadsAll ==
    \A p \in Proc :
        [](jobs = EmptyTable => <>(\A e \in OwnEntries(p) : HasRecord(p, e)))

RunsFunc(f) == \E p \in Proc : pc[p] = "run" /\ FuncOf(CurJob(p)) = f

\* A job that has been triggered is run, or its end time passes first.
TriggeredJobRuns ==
    \A e \in Entry :
        (\E i \in Id : /\ IsJob(jobs[i]) /\ jobs[i].entry = e
                       /\ jobs[i].status \in {TRIGGERED, WAITING})
        ~> \/ RunsFunc(ScheduleSpec[e].func)
           \/ \E i \in Id : /\ IsJob(jobs[i]) /\ jobs[i].entry = e
                            /\ jobs[i].status = ENDED

=============================================================================
