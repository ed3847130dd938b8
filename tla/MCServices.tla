------------------------------ MODULE MCServices ------------------------------
(***************************************************************************)
(* The components that stand around the routing of notifications, side by  *)
(* side: each behaviour exercises one of them, chosen at the start, with   *)
(* the instance given here, while the others rest in their initial state.  *)
(* They share nothing but the notifications, which each model counts for   *)
(* itself, so nothing is lost by not interleaving them.                    *)
(***************************************************************************)
EXTENDS Integers, TLC

CONSTANTS
    Parts,        \* the components to exercise
    FtpItem, FtpDirectory, FtpWithExtra,   \* FTP: what the publisher uploads
    FtpFaults,    \* bounds of each component: crashes, signals, failures, ...
    HarvestArticle, HarvestPublished, HarvestWanted, HarvestFaulty,   \* Harvester: articles
    HarvestFaults, HarvestDays, HarvestPeriod, HarvestWait,
    EngineNames, EngineLast, EngineInitially, EngineOdd,   \* engines: the provider's list
    EnginePageSize, EngineTryTimes, EngineCursorTries, EngineFetchTries, EngineNotRead,
    EngineChanges, EngineFaults,
    SwordRequests, SwordFaults,
    DoiRepo, DoiLevelPub, DoiLevelHarv, DoiSelective, DoiArticle, DoiNotes,
    MatchOffered, MatchAffiliation, MatchAddress,   \* matching: values, and what they match
    MatchKeys, MatchChanges,
    TestValidator, TestLong,               \* testing: who submits, who keeps the account
    TestNotes, Tests, TestChanges, TestFaults,
    ListNote, ListHarvested, ListPageSize, ListKeepDays,   \* lists
    ListWays, ListClock,
    UserRequests, UserFaults,
    StatAffs,                              \* statistics: what articles' affiliations have
    StatDays, StatNotes, StatFaults

VARIABLES
    part,         \* the component exercised
    jail, old, bad, session, box, ftpErrors, ftpNotes, told, ftpPc, listing, limit,
    cur, left, thing, ftpKilled, partial, resumed, hit, ftpFaultCount,
    today, provider, index, noted, harvestErrors, harvestPc, mem, until, received,
    todo, processed, dbError, allOk, harvestKilled, leftover, repeated, harvestFaultCount,
    engine, engineList, enginePc, at, more, pageLeft, batch, hits, expected, missing, tries,
    loops, found, throughout, grown, shrunk, engineResumed, kept, listChanges,
    engineFaultCount,
    row, files, extracted, worker, made, package, used, uploads, dropped, requests,
    overlapped, swordFailed, swordFaultCount,
    rec, number, last, got, gotPub, missed,
    params, archive, asked, askedThen, inForce,
    acc, mine, recs, testPc, testErrors, noteOf, doomed, note, listed, tests, changes,
    testFaultCount, testFailed,
    clock, listRow, id, nextId, stamp, listPc, way, since, began, page, total, listGot,
    due, excused,
    now, org, user, lock, serving, cookie, token, userUsed, fails, late, userRequests,
    userFaultCount,
    statDay, live, deposits, history, waiting, notes, deleted, institutions, publishers,
    harvesters, reported, distributed, tracker, job, analysis, faulty, statFaultCount

ftpVars == <<jail, old, bad, session, box, ftpErrors, ftpNotes, told, ftpPc, listing, limit,
             cur, left, thing, ftpKilled, partial, resumed, hit, ftpFaultCount>>
harvestVars == <<today, provider, index, noted, harvestErrors, harvestPc, mem, until,
                 received, todo, processed, dbError, allOk, harvestKilled, leftover,
                 repeated, harvestFaultCount>>
engineVars == <<engine, engineList, enginePc, at, more, pageLeft, batch, hits, expected,
                missing, tries, loops, found, throughout, grown, shrunk, engineResumed, kept,
                listChanges, engineFaultCount>>
swordVars == <<row, files, extracted, worker, made, package, used, uploads, dropped,
               requests, overlapped, swordFailed, swordFaultCount>>
doiVars   == <<rec, number, last, got, gotPub, missed>>
matchVars == <<params, archive, asked, askedThen, inForce>>
testVars  == <<acc, mine, recs, testPc, testErrors, noteOf, doomed, note, listed, tests,
               changes, testFaultCount, testFailed>>
listVars  == <<clock, listRow, id, nextId, stamp, listPc, way, since, began, page, total,
               listGot, due, excused>>
userVars  == <<now, org, user, lock, serving, cookie, token, userUsed, fails, late,
               userRequests, userFaultCount>>
statVars  == <<statDay, live, deposits, history, waiting, notes, deleted, institutions,
               publishers, harvesters, reported, distributed, tracker, job, analysis, faulty,
               statFaultCount>>
vars == <<part, ftpVars, harvestVars, engineVars, swordVars, doiVars, matchVars, testVars,
          listVars, userVars, statVars>>

-----------------------------------------------------------------------------
(* FTP: a publisher uploads zip files, some with files to flatten, and     *)
(* directories, which may lack a file that describes the article.          *)

Ftp == INSTANCE FtpIngest WITH
    Item <- FtpItem, NoItem <- "nothing", Directory <- FtpDirectory,
    WithExtra <- FtpWithExtra, MaxFaults <- FtpFaults,
    errors <- ftpErrors, notes <- ftpNotes, pc <- ftpPc, killed <- ftpKilled,
    faults <- ftpFaultCount

(* Harvester: articles by the day they are published.                      *)

MCPublished == "a1" :> 1 @@ "a2" :> 1 @@ "a3" :> 2

Harvest == INSTANCE Harvester WITH
    Article <- HarvestArticle, Published <- HarvestPublished, Wanted <- HarvestWanted,
    Faulty <- HarvestFaulty, Period <- HarvestPeriod, Wait <- HarvestWait,
    MaxDay <- HarvestDays, MaxFaults <- HarvestFaults,
    errors <- harvestErrors, pc <- harvestPc, killed <- harvestKilled,
    faults <- harvestFaultCount

(* The Harvester's engines.                                                *)

Engine == INSTANCE HarvesterEngines WITH
    Last <- EngineLast, Initially <- EngineInitially, Odd <- EngineOdd,
    Engines <- EngineNames, PageSize <- EnginePageSize, TryTimes <- EngineTryTimes,
    CursorTries <- EngineCursorTries, FetchTries <- EngineFetchTries,
    NotRead <- EngineNotRead, MaxChanges <- EngineChanges, MaxFaults <- EngineFaults,
    listed <- engineList, pc <- enginePc, page <- pageLeft, resumed <- engineResumed,
    changes <- listChanges, faults <- engineFaultCount

(* SWORD-in: two requests at a time, a zip file and another file.          *)

Sword == INSTANCE SwordInProofs WITH
    Worker <- {"w1", "w2"}, File <- {"z1", "x"}, Zip <- {"z1"},
    NoFile <- "none", MaxRequests <- SwordRequests, MaxFaults <- SwordFaults,
    parts <- extracted, failed <- swordFailed, faults <- swordFaultCount

(* The register of DOIs: repositories with every setting for duplicates    *)
(* that makes a difference.                                                *)

Author(o, n, k) == [orcid |-> o, affs |-> n, ids |-> k]
Said(s, v, au, l) == [simple |-> s, version |-> v, authors |-> au, licences |-> l]

MCArticle ==
    {Said({}, "none", <<Author(FALSE, 0, 0)>>, <<"unclear">>),
     Said({"pdf"}, "VoR", <<Author(FALSE, 0, 0)>>, <<"closed">>),
     Said({"volume"}, "EVoR", <<Author(TRUE, 0, 0)>>, <<>>),
     Said({}, "none", <<Author(FALSE, 0, 0), Author(FALSE, 0, 0)>>, <<"unclear">>),
     Said({"volume", "language"}, "VoR",
          <<Author(TRUE, 3, 1), Author(FALSE, 0, 0)>>, <<"open", "closed">>)}

MCLevelPub == "none" :> 0 @@ "first" :> 1 @@ "any" :> 5 @@ "picky" :> 6
MCLevelHarv == "none" :> 0 @@ "first" :> 1 @@ "any" :> 5 @@ "picky" :> 0

Doi == INSTANCE DoiRegister WITH
    Repo <- DoiRepo, LevelPub <- DoiLevelPub, LevelHarv <- DoiLevelHarv,
    Selective <- DoiSelective, Article <- DoiArticle, MaxNotes <- DoiNotes

(* Matching parameters: texts over a few letters, with the characters that *)
(* matching and normalisation treat differently.                           *)

MCOffered ==
    [name_variants |-> {<<"a", " ", " ", "b">>, <<"b">>, <<"b", "a", "?">>},
     domains |-> {<<"b">>, <<"a", ".", "b">>, <<"a", "b", "/">>},
     emails |-> {<<"c", "@", "a", "b">>, <<" ">>}]

MCAffiliation == {<<"a", " ", "b">>, <<"c", " ", "a", ".", "b", " ", "a">>, <<"a", "b">>}
MCAddress == {<<"c", "@", "a", "b">>, <<"c", "@", "b">>, <<"c", "@", "a", ".", "b">>}

Match == INSTANCE MatchParams WITH
    Offered <- MatchOffered, Affiliation <- MatchAffiliation, Address <- MatchAddress,
    MaxKeys <- MatchKeys, MaxChanges <- MatchChanges

(* Publisher testing: requests of the API, and the FTP program, which      *)
(* keeps the account for its next submission.                              *)

Testing == INSTANCE PubTesting WITH
    Validator <- TestValidator, Long <- TestLong, MaxNotes <- TestNotes, MaxTests <- Tests,
    MaxChanges <- TestChanges, MaxFaults <- TestFaults,
    pc <- testPc, errors <- testErrors, faults <- testFaultCount, failed <- testFailed

(* Lists by the API: publishers' notifications and harvested ones, deleted *)
(* some days after they were routed.                                       *)

List == INSTANCE NoteList WITH
    Note <- ListNote, Harvested <- ListHarvested, PageSize <- ListPageSize,
    Ways <- ListWays, KeepDays <- ListKeepDays, MaxClock <- ListClock,
    row <- listRow, pc <- listPc, got <- listGot

(* Users: one who logs in with access codes, and another one who is added  *)
(* and needs none; a pause after every wrong password.                     *)

Users == INSTANCE UserAccountsProofs WITH
    User <- {"u1", "u2"}, Existing <- {"u1"}, Browser <- {"b1", "b2"},
    Worker <- {"w1", "w2"}, Direct <- {"u2"}, Limit <- 1, Sleep <- 1, CodeLife <- 1,
    ResetLife <- 1, MaxClock <- 3, MaxRequests <- UserRequests, MaxFaults <- UserFaults,
    used <- userUsed, requests <- userRequests, faults <- userFaultCount

(* Statistics: one repository, publisher and harvester; months of two days, *)
(* of which the table of notifications keeps one.                          *)

Stat == INSTANCE StatisticsProofs WITH
    Repo <- {"r1"}, Publisher <- {"p"}, Harvester <- {"h"}, DOI <- {"d"},
    AffsOf <- [d \in {"d"} |-> StatAffs], Margin <- 0, MonthDays <- 2, KeepMonths <- 1,
    MaxClock <- StatDays, MaxNotes <- StatNotes, MaxFaults <- StatFaults,
    clock <- statDay, faults <- statFaultCount

ASSUME ServicesAssumption ==
    /\ Ftp!FtpAssumption /\ Harvest!HarvesterAssumption /\ Sword!SwordInAssumption
    /\ Doi!RegisterAssumption /\ Match!MatchAssumption /\ Testing!PubTestingAssumption
    /\ List!NoteListAssumption /\ Engine!HarvesterEnginesAssumption
    /\ Users!UserAccountsAssumption /\ Stat!StatisticsAssumption

-----------------------------------------------------------------------------
Init ==
    /\ part \in Parts
    /\ Ftp!Init /\ Harvest!Init /\ Sword!Init /\ Doi!Init /\ Match!Init /\ Testing!Init
    /\ List!Init /\ Engine!Init /\ Users!Init /\ Stat!Init
    /\ bad \subseteq IF part = "ftp" THEN FtpDirectory ELSE {}
    /\ part # "list" => way = CHOOSE w \in ListWays : TRUE
    /\ part # "engines" => engine = CHOOSE e \in EngineNames : TRUE

Others(p) ==
    /\ part = p
    /\ UNCHANGED part
    /\ IF p = "ftp" THEN TRUE ELSE UNCHANGED ftpVars
    /\ IF p = "harvester" THEN TRUE ELSE UNCHANGED harvestVars
    /\ IF p = "sword_in" THEN TRUE ELSE UNCHANGED swordVars
    /\ IF p = "doi" THEN TRUE ELSE UNCHANGED doiVars
    /\ IF p = "match" THEN TRUE ELSE UNCHANGED matchVars
    /\ IF p = "testing" THEN TRUE ELSE UNCHANGED testVars
    /\ IF p = "list" THEN TRUE ELSE UNCHANGED listVars
    /\ IF p = "engines" THEN TRUE ELSE UNCHANGED engineVars
    /\ IF p = "users" THEN TRUE ELSE UNCHANGED userVars
    /\ IF p = "statistics" THEN TRUE ELSE UNCHANGED statVars

\* SWORD-in: the two workers are alike, so when both are idle it is the first one
\* that takes the next request.  Bound: two requests overlap only once, and no other
\* one comes after them.
Overlaps ==
    /\ Sword!Busy = {} => worker'["w2"] = worker["w2"]
    /\ overlapped => requests' = requests

\* Users: the workers are alike as well.
InTurn == (\A w \in {"w1", "w2"} : serving[w].kind = "idle") => serving'["w2"] = serving["w2"]

\* Statistics.  Bound: with a failure or a crash, one article less.
FewArticles == Stat!Received' + statFaultCount' <= StatNotes

Next ==
    \/ Others("ftp") /\ Ftp!Next
    \/ Others("harvester") /\ Harvest!Next
    \/ Others("sword_in") /\ Sword!Next /\ Overlaps
    \/ Others("doi") /\ Doi!Next
    \/ Others("match") /\ Match!Next
    \/ Others("testing") /\ Testing!Next
    \/ Others("list") /\ List!Next
    \/ Others("engines") /\ Engine!Next
    \/ Others("users") /\ Users!Next /\ InTurn
    \/ Others("statistics") /\ Stat!Next /\ FewArticles

Spec == Init /\ [][Next]_vars

\* The fairness of FtpIngest and of Harvester, when they are exercised.
FairSpec ==
    /\ Spec
    /\ WF_ftpVars(part = "ftp" /\ (Ftp!Move \/ Ftp!Process))
    /\ SF_ftpVars(part = "ftp" /\ Ftp!StartMove)
    /\ SF_ftpVars(part = "ftp" /\ Ftp!StartProcess)
    /\ \A i \in FtpItem :
          WF_ftpVars(part = "ftp" /\ jail[i] = "whole" /\ i \notin old /\ Ftp!Age(i))
    /\ WF_harvestVars(part = "harvester" /\ Harvest!Tick)
    /\ WF_harvestVars(part = "harvester" /\ Harvest!StartRun)
    /\ WF_harvestVars(part = "harvester" /\ Harvest!Step)

-----------------------------------------------------------------------------
(* Properties: those of the components, each stated in its module.         *)

\* Every component's variables have their types.
TypeOK ==
    /\ Ftp!TypeOK /\ Harvest!TypeOK /\ Sword!TypeOK
    /\ Doi!TypeOK /\ Match!TypeOK /\ Testing!TypeOK /\ List!TypeOK
    /\ Engine!TypeOK /\ Users!TypeOK /\ Stat!TypeOK

\* FTP: a deposit is always in the publisher's directory, in its box, among the
\* errors, or a notification; it makes one notification, unless a crash or a failure hit
\* it; no file is moved while it is being uploaded; and the publisher is told the true
\* outcome (scheduler.py, move_ftp and processftp).
DepositsKept ==
    Ftp!NothingLost /\ Ftp!OneNotePerDeposit /\ Ftp!FilesMovedWhole /\ Ftp!ToldTheTruth

\* FTP and Harvester: what has been uploaded, and every article of a provider, is dealt
\* with in the end.
EventuallyDone ==
    Ftp!EventuallyDealtWith /\ (part = "harvester" => Harvest!EventuallySettled)

\* Harvester: articles from before the end date have been dealt with, and are made
\* notifications once, unless a run failed (harvester_main.py).
HarvestedOnce == Harvest!BeforeEndDateDealtWith /\ Harvest!NotedOnce

\* Harvester: what a run left over stays in the index.
LeftoversKept == Harvest!LeftoversKept

\* Harvester: between two runs there is a whole period.
RunsOncePerPeriod == Harvest!RunsOncePerPeriod

\* Engines: an engine that has done its work has put every article that was listed into
\* the index, and once (harvester/engine).
EachFoundOnce == Engine!EachFoundOnce

\* Engines: EPMC imports all data, also in another attempt (QueryEngineEPMC.py).
AllImported == Engine!AllImported

\* SWORD-in: the record of a deposit tells whether a notification was made of it, and the
\* package has what is in the container, not what was replaced (models/sword.py).
ContainersInOrder == Sword!RecordTellsTruth /\ Sword!PackageIsCurrent

\* What repositories ask for they get: the register of DOIs lets each have all that it asked
\* for of an article (doi_register.py), and no change of its matching parameters loses it the
\* match of a domain asked for (models/account.py).
AskedIsGiven == Doi!NothingMissed /\ Match!DomainsKeepMatches

\* Register of DOIs: authors with structured affiliations are counted once.
StructAffsCountAuthors == Doi!StructAffsCountAuthors

\* Matching parameters: had_regex says whether there ever were any.
HadRegexRemembered == Match!HadRegexRemembered

\* Matching parameters: what is removed as redundant is caught by what is left.
RedundantCaughtAnyway == Match!RedundantCaughtAnyway

\* Publisher testing: the account is in test from the start of testing to its end, and a
\* test leaves no unrouted notification behind (models/account.py, pub_testing.py).
TestingInOrder == Testing!TestingConsistent /\ Testing!NothingLeftUnrouted

\* Publisher testing: the account counts the tests that there are records of.
StatsMatchRecords == Testing!StatsMatchRecords

\* Publisher testing: an account that was made live stays live.
LiveStays == Testing!LiveStays

\* Publisher testing: only unrouted notifications are deleted.
OnlyUnroutedDeleted == Testing!OnlyUnroutedDeleted

\* Lists by the API: a repository that walks through all pages of its list, and goes
\* on from where it was, overlooks nothing (api.py, webapi.py).
NothingOverlooked == List!NothingOverlooked

\* Lists by the API: what is asked for since a time is listed from that time on.
SinceIsEarliest == List!SinceIsEarliest

\* Users: wrong passwords are counted, and followed by pauses, and an organisation is
\* deleted with its users, whatever is requested at once (views/account.py).
UsersInOrder == Users!FailuresPaced /\ Users!DeletedWithUsers

\* Nothing is given or taken twice: the register of DOIs does not send a repository again
\* what it has (doi_register.py), and a code or a link to log in with is accepted once, in
\* time, if it is the latest (views/account.py).
NothingTwice == Doi!NoUselessDuplicate /\ Users!TokensGood

\* Users: "Need to mark all related AccUser records as deleted also" (views/account.py).
NoOrphans == Users!NoOrphans

\* Users: a request leaves no row locked when it is over.
NoLockLeft == Users!NoLockLeft

\* Statistics: the figures of a month agree with what happened in it
\* (jper/models/reports.py).
FiguresAgree == Stat!FiguresAgree

\* Statistics: the grand totals agree with it, too (jper/reports.py).
TotalsAgree == Stat!TotalsAgree

\* Statistics: what has been written stays (jper/scheduler.py).
FiguresStay == Stat!FiguresStay

\* Statistics: the report of a month names what was received twice in it.
DuplicatesReported == Stat!DuplicatesReported

\* Statistics: the harvesters' grand total is the sum of the rows.
HarvesterTotalAddsUp == Stat!HarvesterTotalAddsUp

\* Statistics: an analysis of affiliations is made whatever there is to analyse.
AnalysisMade == Stat!AnalysisMade
===============================================================================
