---------------------------- MODULE MCJobSchedule ----------------------------
(***************************************************************************)
(* Instances of JobSchedule for TLC, cut out of the production schedule.   *)
(***************************************************************************)
EXTENDS JobSchedule, TLC

CONSTANTS app1, app2, harvester, gui, noLabel, noArgs, noRow,
          RH, SO, REP, RO, a1, a2

MCConflicts ==
    [f \in {"harvest", "route_harv", "sword_out", "adhoc_report", "shutdown", "route"} |->
        CASE f = "route_harv"   -> {"harvest"}
          [] f = "route"        -> {"route_harv", "adhoc_report"}
          [] f = "sword_out"    -> {"route", "route_harv", "adhoc_report"}
          [] f = "adhoc_report" -> {"route", "sword_out", "route_harv"}
          [] OTHER              -> {}]
MCFunc == DOMAIN MCConflicts

Returns(count, f) == [count |-> count, flag |-> f]

MCResults ==
    [f \in MCFunc |->
        CASE f = "shutdown" -> {Returns(FALSE, "purge")}
          [] f = "harvest"  -> {Returns(TRUE, "end_schedule")}
          [] f = "adhoc_report" -> {Returns(TRUE, "none")}
          [] OTHER -> {Returns(TRUE, "none"), Returns(FALSE, "none"),
                       Returns(FALSE, "exception")}]

SpecEntry(label, func, start, every, end, prio, triggers) ==
    [label |-> label, func |-> func, start |-> start, every |-> every,
     end |-> end, prio |-> prio, triggers |-> triggers]
On(label)     == [label |-> label, always |-> FALSE]
Always(label) == [label |-> label, always |-> TRUE]

NoDefer == [p \in Proc |-> NoTime]

\* Two schedulers: route_harv and adhoc_report on App1, sword_out on App2.
CoreSchedule == <<
    SpecEntry(RH, "route_harv", 1, NoTime, NoTime, 3, <<Always(SO)>>),
    SpecEntry(SO, "sword_out", NoTime, NoTime, 3, 3, <<>>),
    SpecEntry(REP, "adhoc_report", NoTime, NoTime, NoTime, 2, <<>>) >>
CoreProcessMap ==
    app1 :> {"route_harv", "adhoc_report"} @@ app2 :> {"sword_out"}

\* The Harvester and a scheduler: harvest triggers route_harv, which App1 runs.
\* (In production harvest has no end time; with one, a Harvester that missed it
\* reloads its schedule.)
HarvestSchedule == <<
    SpecEntry(noLabel, "harvest", 1, NoTime, 2, 2, <<On(RH)>>),
    SpecEntry(RH, "route_harv", NoTime, NoTime, 2, 2, <<Always(RO)>>),
    SpecEntry(RO, "route", NoTime, NoTime, NoTime, 3, <<>>) >>
HarvestProcessMap ==
    harvester :> {"harvest"} @@ app1 :> {"route_harv", "sword_out", "route"}
HarvestDefer == [p \in Proc |-> IF p = harvester THEN 2 ELSE NoTime]

\* A schedule with the daily shutdown, on App1, while App2 may be at work.
PurgeSchedule == <<
    SpecEntry(noLabel, "shutdown", 1, NoTime, NoTime, 1, <<>>),
    SpecEntry(RO, "route", 1, 1, NoTime, 3, <<On(SO)>>),
    SpecEntry(SO, "sword_out", NoTime, NoTime, NoTime, 3, <<>>) >>
PurgeProcessMap ==
    app1 :> {"shutdown", "sword_out"} @@ app2 :> {"route"}

\* Two functions that conflict, on two servers: route at its time, adhoc_report
\* when a web user asks for it.
ParallelSchedule == <<
    SpecEntry(RO, "route", 1, NoTime, NoTime, 3, <<>>),
    SpecEntry(REP, "adhoc_report", NoTime, NoTime, NoTime, 2, <<>>) >>
ParallelProcessMap == app1 :> {"adhoc_report"} @@ app2 :> {"route"}
=============================================================================
