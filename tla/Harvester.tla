------------------------------- MODULE Harvester -------------------------------
(***************************************************************************)
(* The Harvester (router/harvester/harvester_main.py): once a day it asks  *)
(* a provider for the articles published since the provider's end date,    *)
(* puts them into a temporary index of Elasticsearch, and makes a          *)
(* notification of each that passes the provider's filter.  An index with  *)
(* records left over is to be kept for the next run.                       *)
(*                                                                         *)
(* One provider is modelled: providers share nothing but the run.          *)
(***************************************************************************)
EXTENDS Integers

CONSTANTS
    Article,
    Published,     \* the day an article is published
    Wanted,        \* articles that pass the filter
    Faulty,        \* those that cannot be converted
    Period,        \* days that the frequency subtracts: 0 daily, 7 weekly
    Wait,          \* wait_window
    MaxDay,        \* bound: the clock
    MaxFaults      \* bound: crashes, signals, errors of provider, index, database

HarvesterAssumption ==
    /\ Published \in [Article -> Nat] /\ Faulty \subseteq Article
    /\ Wanted \subseteq Article
    /\ Period \in Nat /\ Wait \in Nat /\ MaxDay \in Nat /\ MaxFaults \in Nat

VARIABLES
    today,
    provider,   \* the record in table `h_webservice`: end_date, active
    index,      \* the temporary index
    noted,      \* how many notifications were made of an article
    errors,     \* articles counted as failing conversion (num_conversion_faults); the
                \* first five of a page get a record of their own in `h_errors`
    pc,         \* where the program is
    mem,        \* the record as it was read when the run began
    until,      \* until_date
    received,   \* num_recs_harvested is not 0
    todo,       \* what the scroller has left
    processed,  \* processed_ids
    dbError,    \* success is False
    allOk,      \* all_ok
    killed,     \* a signal to end has been received
    leftover,   \* articles that a run left unprocessed in the index (history)
    repeated,   \* articles that were noted in a run that did not save the end
                \* date, or did not remove them from the index (history)
    faults

world == <<today, provider>>
data  == <<index, noted, errors>>
local == <<mem, until, received, todo, processed, dbError, allOk>>
vars == <<world, data, pc, local, killed, leftover, repeated, faults>>

Record == [endDate : Int, active : BOOLEAN]
PC == {"idle", "fetch", "select", "create", "clean", "save"}

TypeOK ==
    /\ today \in Nat /\ provider \in Record
    /\ index \in SUBSET Article /\ noted \in [Article -> Nat] /\ errors \in SUBSET Article
    /\ pc \in PC /\ mem \in Record /\ until \in Int /\ received \in BOOLEAN
    /\ todo \in SUBSET index /\ processed \in SUBSET Article
    /\ dbError \in BOOLEAN /\ allOk \in BOOLEAN /\ killed \in BOOLEAN
    /\ leftover \in SUBSET Article /\ repeated \in SUBSET Article
    /\ pc = "idle" => processed = {} /\ ~killed
    /\ faults \in Nat

Init ==
    /\ today = 1 /\ provider = [endDate |-> 1 - Wait, active |-> TRUE]
    /\ index = {} /\ noted = [a \in Article |-> 0] /\ errors = {}
    /\ pc = "idle" /\ mem = provider /\ until = 0 /\ received = FALSE
    /\ todo = {} /\ processed = {} /\ dbError = FALSE /\ allOk = TRUE
    /\ killed = FALSE /\ leftover = {} /\ repeated = {} /\ faults = 0

Fault == faults < MaxFaults /\ faults' = faults + 1

\* The clock stands still at the bound.
Tick ==
    /\ today' = IF today < MaxDay THEN today + 1 ELSE today
    /\ UNCHANGED <<provider, data, pc, local, killed, leftover, repeated, faults>>

\* HarvesterWebserviceModel.toggle_status
ToggleStatus ==
    /\ Fault
    /\ provider' = [provider EXCEPT !.active = ~@]
    /\ UNCHANGED <<today, data, pc, local, killed, leftover, repeated>>

-----------------------------------------------------------------------------
\* check_frequency
UntilDate == today - Wait - Period

\* harvest_all_providers: the active providers are read
StartRun ==
    /\ pc = "idle"
    /\ provider.active /\ provider.endDate < UntilDate
    /\ mem' = provider /\ until' = UntilDate
    /\ pc' = "fetch"
    /\ UNCHANGED <<world, data, received, todo, processed, dbError, allOk, killed, leftover,
                   repeated, faults>>

\* Mutant: the day before the end date is not asked for.
AskedForLess == {a \in Article : mem.endDate <= Published[a] /\ Published[a] < until - 1}

\* From the end date of the last run to the day before the new one.
AskedFor == {a \in Article : mem.endDate <= Published[a] /\ Published[a] < until}

\* query_engine.execute
Fetch ==
    /\ pc = "fetch" /\ ~killed
    /\ index' = index \cup AskedFor
    /\ received' = (AskedFor # {})
    /\ pc' = "select"
    /\ UNCHANGED <<world, noted, errors, mem, until, todo, processed, dbError, allOk, killed,
                   leftover, repeated, faults>>

\* Error 500: the index is emptied, for another attempt.
RetryFetch ==
    /\ pc = "fetch" /\ ~killed
    /\ Fault
    /\ index' = {}
    /\ UNCHANGED <<world, noted, errors, pc, local, killed, leftover, repeated>>

\* Mutant: the killer remembers a signal for ever.
EndedKilled ==
    /\ pc' = "idle" /\ killed' = killed
    /\ mem' = provider' /\ until' = 0 /\ received' = FALSE
    /\ todo' = {} /\ processed' = {} /\ dbError' = FALSE /\ allOk' = TRUE

Ended ==
    /\ pc' = "idle" /\ killed' = FALSE
    /\ mem' = provider' /\ until' = 0 /\ received' = FALSE
    /\ todo' = {} /\ processed' = {} /\ dbError' = FALSE /\ allOk' = TRUE

\* The run ends, and what it did is not on record.
NotSaved == Ended /\ repeated' = repeated \cup processed

\* Too many attempts, another error, or a signal, which is not waited with: the
\* index is deleted and the end date remains.
DropFetch ==
    /\ pc = "fetch"
    /\ index' = {}
    /\ UNCHANGED <<world, noted, errors, leftover>>
    /\ NotSaved

FetchFails == DropFetch /\ ~killed /\ Fault

FetchKilled == DropFetch /\ killed /\ UNCHANGED faults

\* The filter is applied to all that is in the index, unless nothing was received.
Select ==
    /\ pc = "select"
    /\ todo' = IF received THEN index \cap Wanted ELSE {}
    /\ pc' = "create"
    /\ UNCHANGED <<world, data, mem, until, received, processed, dbError, allOk, killed,
                   leftover, repeated, faults>>

-----------------------------------------------------------------------------
\* create_unrouted_notifications

Take(a) ==
    /\ pc = "create" /\ ~killed
    /\ a \in todo
    /\ todo' = todo \ {a}
    /\ UNCHANGED <<world, index, pc, mem, until, received, allOk, killed, leftover, repeated>>

CreateNote(a) ==
    /\ Take(a)
    /\ a \notin Faulty
    /\ noted' = [noted EXCEPT ![a] = @ + 1]
    /\ processed' = processed \cup {a}
    /\ UNCHANGED <<errors, dbError, faults>>

\* The fault is counted in the message of the run.
ConversionError(a) ==
    /\ Take(a)
    /\ a \in Faulty
    /\ errors' = errors \cup {a}
    /\ processed' = processed \cup {a}
    /\ UNCHANGED <<noted, dbError, faults>>

\* Of an error of the database a record is kept, if that is possible, but the
\* article is none of the processed ones.
DatabaseError(a) ==
    /\ Take(a)
    /\ Fault
    /\ dbError' = TRUE
    /\ UNCHANGED <<noted, errors, processed>>

EndCreate ==
    /\ pc = "create"
    /\ todo = {} /\ ~killed /\ ~dbError
    /\ pc' = "clean"
    /\ UNCHANGED <<world, data, local, killed, leftover, repeated, faults>>

\* After an error of the database, at the end of a page or at the second error; on
\* a signal; when the scroller fails.
BreakOff ==
    /\ pc = "create"
    /\ dbError \/ killed
    /\ allOk' = FALSE /\ todo' = {}
    /\ pc' = "clean"
    /\ UNCHANGED <<world, data, mem, until, received, processed, dbError, killed, leftover,
                   repeated, faults>>

ScrollerError ==
    /\ pc = "create" /\ received
    /\ Fault
    /\ allOk' = FALSE /\ todo' = {}
    /\ pc' = "clean"
    /\ UNCHANGED <<world, data, mem, until, received, processed, dbError, killed, leftover,
                   repeated>>

-----------------------------------------------------------------------------
\* Mutant: what was processed is not removed.
CleanNothing ==
    /\ pc = "clean"
    /\ \/ index' = (IF allOk THEN {} ELSE index) /\ UNCHANGED faults
       \/ ~allOk /\ index' = {} /\ Fault
    /\ leftover' = leftover \cup (IF allOk THEN {} ELSE (index \cap Wanted) \ processed)
    /\ pc' = "save"
    /\ UNCHANGED <<world, noted, errors, local, killed, repeated>>

\* The index is deleted if everything was processed, otherwise what was processed
\* is removed from it; if that fails it is deleted all the same.
CleanIndex ==
    /\ pc = "clean"
    /\ \/ index' = (IF allOk THEN {} ELSE index \ processed) /\ UNCHANGED faults
       \/ ~allOk /\ index' = {} /\ Fault
    /\ leftover' = leftover \cup (IF allOk THEN {} ELSE (index \cap Wanted) \ processed)
    /\ pc' = "save"
    /\ UNCHANGED <<world, noted, errors, local, killed, repeated>>

\* The record is written as it was read, but for the end date.
SaveEndDate ==
    /\ pc = "save"
    /\ provider' = [mem EXCEPT !.endDate = until]
    /\ Ended
    /\ UNCHANGED <<today, data, leftover, repeated, faults>>

\* An exception while the index is deleted or the record updated.
CleanOrSaveFails ==
    /\ \/ pc = "clean" /\ allOk
       \/ pc = "save"
    /\ Fault
    /\ UNCHANGED <<world, data, leftover>>
    /\ NotSaved

Signal ==
    /\ pc # "idle" /\ ~killed
    /\ Fault
    /\ killed' = TRUE
    /\ UNCHANGED <<world, data, pc, local, leftover, repeated>>

\* The program stops dead and is started again.
Crash ==
    /\ pc # "idle"
    /\ Fault
    /\ UNCHANGED <<world, data, leftover>>
    /\ NotSaved

-----------------------------------------------------------------------------
Step ==
    \/ Fetch \/ FetchKilled \/ Select \/ EndCreate \/ BreakOff \/ CleanIndex \/ SaveEndDate
    \/ \E a \in Article : CreateNote(a) \/ ConversionError(a)

Faults ==
    \/ RetryFetch \/ FetchFails \/ ScrollerError \/ CleanOrSaveFails \/ Signal \/ Crash
    \/ \E a \in Article : DatabaseError(a)

Next == Tick \/ ToggleStatus \/ StartRun \/ Step \/ Faults

Spec == Init /\ [][Next]_vars

FairSpec == Spec /\ WF_vars(Tick) /\ WF_vars(StartRun) /\ WF_vars(Step)

-----------------------------------------------------------------------------
(***************************************************************************)
(* Properties                                                              *)
(***************************************************************************)

Settled(a) == noted[a] > 0 \/ a \in errors

\* The end date says what has been dealt with: an article from before it that
\* passes the filter was made a notification, or counted as an error, unless a run
\* was broken off and left it over.
BeforeEndDateDealtWith ==
    \A a \in Wanted \ leftover :
        Published[a] \in 1 - Wait .. provider.endDate - 1 => Settled(a)

\* An article is made a notification only once, unless a run failed to record what
\* it had done.
NotedOnce == \A a \in Article \ repeated : noted[a] <= 1

\* harvester_main.py, harvest_provider_and_create_unrouted_notes: "If we couldn't
\* save some notifications, don't delete the index afterwards so we can send these
\* notifications another time."  What is left over does not vanish from the index.
LeftoversKept ==
    [][\A a \in (leftover \cap index) \ index' : Settled(a)]_vars

\* forms/harvester.py offers to run a provider weekly: between two runs there is a
\* whole period.
RunsOncePerPeriod ==
    [][pc = "idle" /\ pc' = "fetch" => until' - provider.endDate >= Period]_vars

\* Whatever fails, an article is dealt with in the end, if the clock goes on for
\* long enough, the provider stays active and no run left it over.
EventuallySettled ==
    <>(\A a \in Wanted :
          Published[a] \in 1 - Wait .. MaxDay - Wait - Period - 1 =>
              Settled(a) \/ a \in leftover \/ ~provider.active)

=============================================================================
