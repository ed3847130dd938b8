------------------------------ MODULE JobTimes ------------------------------
(***************************************************************************)
(* The time arithmetic of a scheduled job: Job.init, which turns one entry *)
(* of SCHEDULER_SPEC into the values a new job record starts with, and the *)
(* rescheduling of a repeating job at the end of Job.run                   *)
(* (router/shared/models/schedule.py).                                     *)
(*                                                                         *)
(* Times are whole ticks counted from midnight of the first day; Day is    *)
(* the number of ticks in a day.  A time of day is 0 .. Day - 1.  Python's *)
(* None is NoTime for a time and NoStatus for a status.                    *)
(***************************************************************************)
EXTENDS Integers

CONSTANT Day

ASSUME DayAssumption == Day \in Nat \ {0}

NoTime == -1
Time == Nat \cup {NoTime}

\* Values of Job.status (NoStatus stands for a None status)
NoStatus  == 0
TRIGGERED == 1
PENDING   == 2
WAITING   == 3
RUNNING   == 5
FINISHED  == 9
ENDED     == 99
Status == {NoStatus, TRIGGERED, PENDING, WAITING, RUNNING, FINISHED, ENDED}

\* Values of Job.priority
PRIMER == 0
NEVER  == 99
Priority == 1 .. 4

-----------------------------------------------------------------------------
\* The loops "while t <= now: t += every" of Job.init and Job.run in closed
\* form: the first of t, t + every, t + 2 * every ... that is later than now.
FirstAfter(t, every, now) ==
    IF t > now THEN t ELSE t + every * ((now - t) \div every + 1)

\* _hhmm_str_to_obj: a time of day becomes that time today.
Today(now, timeOfDay) ==
    IF timeOfDay = NoTime THEN NoTime ELSE (now - (now % Day)) + timeOfDay

\* _set_next_start
NextStart(earliest, every, now) ==
    IF every = NoTime THEN earliest ELSE FirstAfter(earliest, every, now)

\* The end time and next start of a new job, before its status is decided.
Window(now, start, every, end) ==
    LET earliest == Today(now, start)
        until    == Today(now, end)
        passed   == until # NoTime /\ until <= now
    IN  IF earliest # NoTime /\ until # NoTime
        THEN IF earliest > until
             THEN [end |-> until + Day, next |-> NextStart(earliest, every, now)]
             ELSE IF passed
             THEN [end |-> until + Day, next |-> earliest + Day]
             ELSE [end |-> until, next |-> NextStart(earliest, every, now)]
        ELSE IF earliest # NoTime
        THEN [end |-> NoTime,
              next |-> NextStart(IF earliest <= now /\ every = NoTime
                                 THEN earliest + Day ELSE earliest, every, now)]
        ELSE [end |-> IF passed THEN until + Day ELSE until, next |-> NoTime]

\* Job.init: what a job created at time now from a schedule entry starts with.
JobInit(now, start, every, end, prio) ==
    LET w == Window(now, start, every, end)
    IN  IF w.next = NoTime
        THEN [status |-> NoStatus, prio |-> prio, next |-> NoTime, end |-> w.end]
        ELSE IF w.end # NoTime /\ w.next >= w.end
        THEN [status |-> ENDED, prio |-> NEVER, next |-> NoTime, end |-> w.end]
        ELSE IF w.next <= now
        THEN [status |-> FINISHED, prio |-> prio, next |-> NoTime, end |-> w.end]
        ELSE [status |-> PENDING, prio |-> prio, next |-> w.next, end |-> w.end]

\* not_too_late, negated
TooLate(time, end) == end # NoTime /\ time > end
=============================================================================
