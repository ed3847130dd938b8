------------------------------- MODULE Statistics -------------------------------
(***************************************************************************)
(* The figures kept of what goes through the system: once a month the job  *)
(* monthly_jobs (jper/scheduler.py) inserts one row for each institution,  *)
(* publisher and harvester into the tables of statistics                   *)
(* (jper/models/reports.py, the queries in shared/mysql_dao.py), makes the *)
(* reports (jper/reports.py) and notes the month in a file, while articles *)
(* arrive and are routed, institutions go live, old rows are deleted, and  *)
(* an administrator may ask for an analysis of the affiliations.           *)
(*                                                                         *)
(* A month is MonthDays ticks of the clock.  Every statement of the job    *)
(* commits for itself; a crash may come between any two.                   *)
(***************************************************************************)
EXTENDS Integers, FiniteSets

CONSTANTS
    Repo, Publisher, Harvester,
    DOI,
    AffsOf,       \* the affiliations in each article: a set of what they have
    Margin,       \* days_margin of the report of duplicate submissions
    MonthDays,    \* bound: ticks of a month
    KeepMonths,   \* SCHEDULE_NOTIFICATION_KEEP_MONTHS
    MaxClock,     \* bound
    MaxNotes,     \* bound: articles received
    MaxFaults     \* bound: crashes and failed statements

StatisticsAssumption ==
    /\ IsFiniteSet(Repo) /\ IsFiniteSet(Publisher) /\ IsFiniteSet(Harvester)
    /\ Publisher \cap Harvester = {} /\ "unique" \notin Repo
    /\ AffsOf \in [DOI -> SUBSET SUBSET {"org", "id", "place"}]
    /\ {MonthDays, KeepMonths, MaxClock} \subseteq Nat \ {0}
    /\ {Margin, MaxNotes, MaxFaults} \subseteq Nat

VARIABLES
    clock,
    live,         \* live_date of each repository, 0 for none
    deposits,     \* table `pub_deposit`
    history,      \* table `h_history`
    waiting,      \* notifications that are not yet routed
    notes,        \* every notification that was ever routed, with the repositories that
                  \* were live when it was analysed (history)
    deleted,      \* the ids that are no longer in table `notification`
    institutions, publishers, harvesters,   \* the tables monthly_..._stats
    reported,     \* DOIs in each month's report of duplicate submissions
    distributed,  \* notifications and repositories in each month's report to each publisher
    tracker,      \* the month in the file monthtracker.cfg
    job,          \* the statement that the job is at, or "idle"
    analysis,     \* the analysis of affiliations: "none", "sent" or "failed"
    faulty,       \* months whose job was hit by a crash or a failure (history)
    faults

figures == <<institutions, publishers, harvesters, reported, distributed>>
flow    == <<live, deposits, history, waiting, notes>>
vars == <<clock, flow, deleted, figures, tracker, job, analysis, faulty, faults>>

Month(day) == (day - 1) \div MonthDays
ThisMonth == Month(clock)
LastMonth == ThisMonth - 1
InMonth(day, month) == Month(day) = month
FirstDay(month) == month * MonthDays + 1
LastDay(month) == (month + 1) * MonthDays

Received == Cardinality(deposits) + Cardinality(history)

\* Bound: the job of a month has ended on its first day, or, if it was stopped, ends within
\* the month.
TimePasses ==
    /\ clock < MaxClock /\ clock' = clock + 1 /\ job = "idle"
    /\ tracker = ThisMonth \/ (LastMonth \in faulty /\ Month(clock + 1) = ThisMonth)

NoFigures == [key \in {} |-> 0]

TypeOK ==
    /\ clock \in 1 .. MaxClock /\ live \in [Repo -> 0 .. clock]
    /\ \A d \in deposits : d.pub \in Publisher /\ d.doi \in DOI /\ d.day \in 1 .. clock
    /\ \A h \in history : h.harv \in Harvester /\ h.day \in 1 .. clock
    /\ \A n \in notes : n.at \in 1 .. clock /\ n.live \subseteq n.repos
    /\ \A n \in notes : n.repos \in (SUBSET Repo) \ {{}}
    /\ \A n \in waiting : n.from \in Publisher \cup Harvester /\ n.doi \in DOI
    /\ deleted \subseteq {n.id : n \in notes}
    /\ DOMAIN institutions \subseteq {"L", "T"} \X (0 .. ThisMonth) \X (Repo \cup {"unique"})
    /\ DOMAIN publishers \subseteq (0 .. ThisMonth) \X Publisher
    /\ DOMAIN harvesters \subseteq (0 .. ThisMonth) \X Harvester
    /\ tracker \in 0 .. ThisMonth /\ analysis \in {"none", "sent", "failed"}
    /\ faulty \subseteq 0 .. ThisMonth /\ faults \in 0 .. MaxFaults

Init ==
    /\ clock = 1 /\ live = [r \in Repo |-> 0]
    /\ deposits = {} /\ history = {} /\ waiting = {} /\ notes = {} /\ deleted = {}
    /\ institutions = NoFigures /\ publishers = NoFigures /\ harvesters = NoFigures
    /\ reported = NoFigures /\ distributed = NoFigures
    /\ tracker = 0 /\ job = "idle" /\ analysis = "none" /\ faulty = {} /\ faults = 0

-----------------------------------------------------------------------------
(* What the statistics are about.                                          *)

\* A publisher's deposit; of one that failed no notification is made.
Deposit(p, d) ==
    /\ Received < MaxNotes
    /\ \E ok \in BOOLEAN :
          /\ deposits' = deposits \cup
                {[id |-> Received + 1, pub |-> p, doi |-> d, day |-> clock, ok |-> ok, live |-> FALSE]}
          /\ waiting' = IF ok THEN waiting \cup {[id |-> Received + 1, from |-> p, doi |-> d]}
                              ELSE waiting
    /\ UNCHANGED <<clock, live, history, notes, deleted, figures, tracker, job, analysis,
                   faulty, faults>>

\* A run of a harvester, which may find nothing new.
HarvestRun(h) ==
    /\ Received < MaxNotes
    /\ \A e \in history : e.harv = h => e.day < clock
    /\ \/ /\ history' = history \cup {[harv |-> h, day |-> clock, sent |-> FALSE]}
          /\ UNCHANGED waiting
       \/ \E d \in DOI :
             /\ history' = history \cup {[harv |-> h, day |-> clock, sent |-> TRUE]}
             /\ waiting' = waiting \cup {[id |-> Received + 1, from |-> h, doi |-> d]}
    /\ UNCHANGED <<clock, live, deposits, notes, deleted, figures, tracker, job, analysis,
                   faulty, faults>>

\* A notification is matched: the deposit's record has whether a live repository got it.
\* One that matches nothing is deleted.
RouteNote(n, repos) ==
    /\ waiting' = waiting \ {n}
    /\ IF repos = {} THEN UNCHANGED <<notes, deposits>>
       ELSE /\ notes' = notes \cup
                  {[id |-> n.id, from |-> n.from, doi |-> n.doi, at |-> clock, repos |-> repos,
                    content |-> n.from \in Publisher, live |-> {r \in repos : live[r] # 0}]}
            /\ deposits' = {[d EXCEPT !.live = @ \/ (d.id = n.id /\ \E r \in repos : live[r] # 0)] :
                               d \in deposits}
    /\ UNCHANGED <<clock, live, history, deleted, figures, tracker, job, analysis, faulty, faults>>

\* A repository is made live; its page offers it once.
GoLive(r) ==
    /\ live[r] = 0 /\ TimePasses
    /\ live' = [live EXCEPT ![r] = clock + 1]
    /\ UNCHANGED <<deposits, history, waiting, notes, deleted, figures, tracker, job, analysis,
                   faulty, faults>>

Tick ==
    /\ TimePasses
    /\ UNCHANGED <<flow, deleted, figures, tracker, job, analysis, faulty, faults>>

\* delete_old_data.
DeleteOld ==
    /\ deleted' = deleted \cup
          {n.id : n \in {x \in notes : x.at < clock - KeepMonths * MonthDays}}
    /\ deleted' # deleted
    /\ UNCHANGED <<clock, flow, figures, tracker, job, analysis, faulty, faults>>

-----------------------------------------------------------------------------
(* The job of the month.                                                   *)

Table == {n \in notes : n.id \notin deleted}

\* Mutant: whoever is live by now counts as live for all that was sent.
CountedForNow(type, month, r) ==
    {n \in Table : r \in n.repos /\ InMonth(n.at, month) /\ (type = "L") = (live[r] # 0)}

\* What was sent to a repository in a month, as live or as test.
CountedFor(type, month, r) ==
    {n \in Table : /\ r \in n.repos /\ InMonth(n.at, month)
                   /\ IF type = "L" THEN live[r] # 0 /\ n.at >= live[r]
                                    ELSE live[r] = 0 \/ n.at < live[r]}

Figures(counted) ==
    [meta |-> Cardinality({n \in counted : ~n.content}),
     content |-> Cardinality({n \in counted : n.content})]

\* A row for each repository that got something, and one row for each notification once.
RowsByRepo(type, month) ==
    [key \in {k \in {type} \X {month} \X Repo : CountedFor(type, month, k[3]) # {}} |->
        Figures(CountedFor(type, month, key[3]))]
UniqueRow(type, month) ==
    [key \in {<<type, month, "unique">>} |->
        Figures(UNION {CountedFor(type, month, r) : r \in Repo})]

PublisherRows(month) ==
    LET Of(p) == {d \in deposits : d.pub = p /\ InMonth(d.day, month)}
    IN  [key \in {k \in {month} \X Publisher : Of(k[2]) # {}} |->
            [received |-> Cardinality({d \in Of(key[2]) : d.ok}),
             matched |-> Cardinality({d \in Of(key[2]) : d.live})]]

HarvesterRows(month) ==
    LET Runs(h) == {e \in history : e.harv = h /\ InMonth(e.day, month)}
        Matched(h) == {n \in Table : /\ n.from = h /\ InMonth(n.at, month)
                                     /\ \E r \in n.repos : live[r] # 0 /\ n.at >= live[r]}
    IN  [key \in {k \in {month} \X Harvester : Runs(k[2]) # {}} |->
            [received |-> Cardinality({e \in Runs(key[2]) : e.sent}),
             matched |-> Cardinality(Matched(key[2]))]]

With(table, rows) ==
    [key \in DOMAIN table \cup DOMAIN rows |->
        IF key \in DOMAIN table THEN table[key] ELSE rows[key]]

\* The statements in order; those of the institutions are one try block, so the first
\* that fails takes the others with it.
AfterStatement == [rowsL |-> "rowsT", rowsT |-> "uniqueL", uniqueL |-> "uniqueT",
                   uniqueT |-> "publishers", publishers |-> "harvesters",
                   harvesters |-> "reports"]
AfterFailure == [s \in DOMAIN AfterStatement |->
                    IF s \in {"publishers", "harvesters"} THEN AfterStatement[s] ELSE "publishers"]

StartMonth ==
    /\ job = "idle" /\ tracker # ThisMonth
    /\ job' = "rowsL"
    /\ UNCHANGED <<clock, flow, deleted, figures, tracker, analysis, faulty, faults>>

Goes(stepped) == job' = (IF stepped THEN AfterStatement[job] ELSE AfterFailure[job])

\* Mutant: the rows of the month are deleted first, so that the job may begin again;
\* those of the other type go with them.
InsertAfresh(statement, rows) ==
    /\ job = statement
    /\ institutions' = With(rows, [key \in {k \in DOMAIN institutions : k[2] # LastMonth} |->
                                       institutions[key]])
    /\ Goes(TRUE)
    /\ UNCHANGED <<clock, flow, deleted, publishers, harvesters, reported, distributed, tracker,
                   analysis, faulty, faults>>

\* An INSERT ... SELECT: a row that is there already makes it fail as a whole.
InsertInstitutions(statement, rows) ==
    LET new == DOMAIN rows \cap DOMAIN institutions = {}
    IN  /\ job = statement
        /\ institutions' = IF new THEN With(institutions, rows) ELSE institutions
        /\ Goes(new)
        /\ UNCHANGED <<clock, flow, deleted, publishers, harvesters, reported, distributed,
                       tracker, analysis, faulty, faults>>

InsertLive       == InsertInstitutions("rowsL", RowsByRepo("L", LastMonth))
InsertTest       == InsertInstitutions("rowsT", RowsByRepo("T", LastMonth))
InsertLiveUnique == InsertInstitutions("uniqueL", UniqueRow("L", LastMonth))
InsertTestUnique == InsertInstitutions("uniqueT", UniqueRow("T", LastMonth))

InsertPublishers ==
    LET rows == PublisherRows(LastMonth)
        new == DOMAIN rows \cap DOMAIN publishers = {}
    IN  /\ job = "publishers"
        /\ publishers' = IF new THEN With(publishers, rows) ELSE publishers
        /\ Goes(new)
        /\ UNCHANGED <<clock, flow, deleted, institutions, harvesters, reported, distributed,
                       tracker, analysis, faulty, faults>>

InsertHarvesters ==
    LET rows == HarvesterRows(LastMonth)
        new == DOMAIN rows \cap DOMAIN harvesters = {}
    IN  /\ job = "harvesters"
        /\ harvesters' = IF new THEN With(harvesters, rows) ELSE harvesters
        /\ Goes(new)
        /\ UNCHANGED <<clock, flow, deleted, institutions, publishers, reported, distributed,
                       tracker, analysis, faulty, faults>>

-----------------------------------------------------------------------------
(* The reports.                                                            *)

\* Deposits of one DOI that live repositories got, within a margin of some days around
\* the days of the report.  (The beginning is counted from the last day, too.)
QueryFrom(first, last) == last - Margin
QueryTo(first, last) == last + Margin

DuplicateDois(first, last) ==
    LET Of(doi) == {d \in deposits : /\ d.doi = doi /\ d.live
                                     /\ d.day \in QueryFrom(first, last) .. QueryTo(first, last)}
    IN  {doi \in DOI : /\ Cardinality(Of(doi)) > 1
                       /\ \E d \in Of(doi) : d.day \in first .. last}

\* What a publisher is told: its articles, and the repositories among those that got
\* them that are live by now.
Distribution(p, month) ==
    UNION {{<<n.id, r>> : r \in {x \in n.repos : live[x] # 0}} :
              n \in {y \in Table : y.from = p /\ InMonth(y.at, month)}}

\* The files of a month are written, over those of an earlier try.
ReportDuplicates ==
    reported' = With([m \in {LastMonth} |-> DuplicateDois(FirstDay(LastMonth), LastDay(LastMonth))],
                     reported)
ReportTo(told) ==
    distributed' = With([key \in {LastMonth} \X told |-> Distribution(key[2], LastMonth)],
                        distributed)

\* A publisher gets a report if its account says so (report_format) at that time.
Reports ==
    /\ job = "reports"
    /\ ReportDuplicates
    /\ \E told \in SUBSET Publisher : ReportTo(told)
    /\ job' = "track"
    /\ UNCHANGED <<clock, flow, deleted, institutions, publishers, harvesters, tracker,
                   analysis, faulty, faults>>

\* An exception is logged: it ends one report, those to the publishers that are left, or
\* all that follow; the month is noted nevertheless.
ReportsFail ==
    /\ job = "reports" /\ faults < MaxFaults
    /\ ReportDuplicates \/ UNCHANGED reported
    /\ \E told \in SUBSET Publisher : ReportTo(told)
    /\ job' = "track"
    /\ faults' = faults + 1 /\ faulty' = faulty \cup {LastMonth}
    /\ UNCHANGED <<clock, flow, deleted, institutions, publishers, harvesters, tracker,
                   analysis>>

TrackMonth ==
    /\ job = "track" /\ job' = "idle" /\ tracker' = ThisMonth
    /\ UNCHANGED <<clock, flow, deleted, figures, analysis, faulty, faults>>

\* A statement fails for another reason.
StatementFails ==
    /\ job \in DOMAIN AfterStatement /\ faults < MaxFaults
    /\ Goes(FALSE)
    /\ faults' = faults + 1 /\ faulty' = faulty \cup {LastMonth}
    /\ UNCHANGED <<clock, flow, deleted, figures, tracker, analysis>>

\* The program is stopped; the month is not noted, so the job begins again.
Crash ==
    /\ job # "idle" /\ faults < MaxFaults
    /\ job' = "idle"
    /\ faults' = faults + 1 /\ faulty' = faulty \cup {LastMonth}
    /\ UNCHANGED <<clock, flow, deleted, figures, tracker, analysis>>

\* The sum of the figures of some rows, natural numbers: of each row as many as its figure.
SumOver(rows, figure) == Cardinality(UNION {{k} \X (1 .. figure[k]) : k \in rows})

\* The rows of the annual reports: the grand totals are made of the rows before the one
\* of what is unique.
InstitutionTotal(type, month) ==
    LET rows == {k \in DOMAIN institutions : k[1] = type /\ k[2] = month /\ k[3] # "unique"}
    IN  [meta |-> SumOver(rows, [k \in rows |-> institutions[k].meta]),
         content |-> SumOver(rows, [k \in rows |-> institutions[k].content])]

\* Mutant: the totals leave out the rows of those whose articles nobody got.
SourceTotalOfMatched(table, month) ==
    LET rows == {k \in DOMAIN table : k[1] = month /\ table[k].matched # 0}
    IN  [received |-> SumOver(rows, [k \in rows |-> table[k].received]),
         matched |-> SumOver(rows, [k \in rows |-> table[k].matched])]

\* The totals leave out the rows of those from whom nothing was received.
SourceTotal(table, month) ==
    LET rows == {k \in DOMAIN table : k[1] = month /\ table[k].received # 0}
    IN  [received |-> SumOver(rows, [k \in rows |-> table[k].received]),
         matched |-> SumOver(rows, [k \in rows |-> table[k].matched])]

-----------------------------------------------------------------------------
(* The analysis of affiliations, asked for by an administrator.            *)

\* The affiliations that a provider's notifications have; all figures of the analysis are
\* given as percentages of their number.
AffsFrom(p) == {<<n.id, a>> : n \in {x \in Table : x.from = p}, a \in SUBSET {"org", "id", "place"}}
                  \cap UNION {{n.id} \X AffsOf[n.doi] : n \in Table}
\* A line for each provider that has a notification: a division by zero ends it.
\* Bound: asked for on the last day, after the job, when all is routed.
Analyse ==
    /\ analysis = "none" /\ clock = MaxClock /\ tracker = ThisMonth /\ waiting = {}
    /\ analysis' = IF \E n \in Table : AffsFrom(n.from) = {} THEN "failed" ELSE "sent"
    /\ UNCHANGED <<clock, flow, deleted, figures, tracker, job, faulty, faults>>

-----------------------------------------------------------------------------
\* Bound: what happens in the course of a day comes before or after the job, which counts
\* another month.
Flow ==
    /\ job = "idle"
    /\ \/ \E p \in Publisher, d \in DOI : Deposit(p, d)
       \/ \E h \in Harvester : HarvestRun(h)
       \/ \E n \in waiting, repos \in SUBSET Repo : RouteNote(n, repos)
       \/ \E r \in Repo : GoLive(r)
       \/ Tick \/ DeleteOld \/ Analyse

Job ==
    \/ StartMonth \/ InsertLive \/ InsertTest \/ InsertLiveUnique \/ InsertTestUnique
    \/ InsertPublishers \/ InsertHarvesters \/ Reports \/ TrackMonth
    \/ StatementFails \/ ReportsFail \/ Crash

Next == Flow \/ Job

Spec == Init /\ [][Next]_vars

-----------------------------------------------------------------------------
(* Properties.                                                             *)

Done(month) == month \in 0 .. tracker - 1 /\ month \in DOMAIN reported /\ month \notin faulty
Row(table, key, none) == IF key \in DOMAIN table THEN table[key] ELSE none
InstitutionRow(type, month, r) ==
    Row(institutions, <<type, month, r>>, [meta |-> 0, content |-> 0])
Sum(f) == f.meta + f.content

\* The figures of a month agree with what happened in it: every notification that was
\* routed is counted once for each of its repositories, as live or as test, whatever goes
\* live or is deleted meanwhile; once it is unique; a publisher has no more matches than
\* deposits; and a publisher that gets a report is told of every live repository that got
\* its articles (jper/models/reports.py, jper/reports.py).
FiguresAgree ==
    \A month \in 0 .. tracker - 1 : Done(month) =>
        LET In == {n \in notes : InMonth(n.at, month)}
        IN  /\ \A r \in Repo :
                  /\ Sum(InstitutionRow("L", month, r)) = Cardinality({n \in In : r \in n.live})
                  /\ Sum(InstitutionRow("T", month, r)) =
                        Cardinality({n \in In : r \in n.repos \ n.live})
            /\ Sum(InstitutionRow("L", month, "unique")) = Cardinality({n \in In : n.live # {}})
            /\ Sum(InstitutionRow("T", month, "unique")) =
                  Cardinality({n \in In : n.live # n.repos})
            /\ \A p \in Publisher :
                  LET row == Row(publishers, <<month, p>>, [received |-> 0, matched |-> 0])
                  IN  row.matched <= row.received
            /\ \A n \in In : <<month, n.from>> \in DOMAIN distributed =>
                  {n.id} \X n.live \subseteq distributed[<<month, n.from>>]

\* The grand totals of the annual reports are those of the month: no fewer notifications
\* than the unique ones, and every deposit that was accepted (jper/reports.py).
TotalsAgree ==
    \A month \in 0 .. tracker - 1 : Done(month) =>
        /\ Sum(InstitutionTotal("L", month)) >= Sum(InstitutionRow("L", month, "unique"))
        /\ SourceTotal(publishers, month).received =
              Cardinality({d \in deposits : d.ok /\ InMonth(d.day, month)})

\* Once a row is there it stays as it is, also when the job begins again
\* (Database.md: never deleted).
FiguresStay ==
    [][/\ \A key \in DOMAIN institutions :
             key \in DOMAIN institutions' /\ institutions'[key] = institutions[key]
       /\ \A key \in DOMAIN publishers :
             key \in DOMAIN publishers' /\ publishers'[key] = publishers[key]]_figures

\* The report of a month lists the articles that were received twice within it
\* (Misc_Functionality.md, "Duplicate submissions report").
DuplicatesReported ==
    \A month \in DOMAIN reported, d \in deposits, e \in deposits :
        (/\ d # e /\ d.doi = e.doi /\ d.live /\ e.live /\ d.pub = e.pub
         /\ InMonth(d.day, month) /\ InMonth(e.day, month)
         /\ \A n \in notes : n.id \in {d.id, e.id} => InMonth(n.at, month))
        => d.doi \in reported[month]

\* The total of the harvesters' report is the sum of its rows (Misc_Functionality.md:
\* "Has a Grand total row").
HarvesterTotalAddsUp ==
    \A month \in 0 .. ThisMonth :
        LET rows == {k \in DOMAIN harvesters : k[1] = month}
        IN  SourceTotal(harvesters, month).matched =
               SumOver(rows, [k \in rows |-> harvesters[k].matched])

\* The analysis of affiliations is made for every provider (jper/reports.py).
AnalysisMade == analysis # "failed"
===============================================================================
