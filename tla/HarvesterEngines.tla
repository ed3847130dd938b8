--------------------------- MODULE HarvesterEngines ---------------------------
(***************************************************************************)
(* The engines of the Harvester (router/harvester/engine): how each walks  *)
(* through the pages of a provider's answer, and the attempts that         *)
(* get_article_metadata_from_provider makes.  This is what Harvester does  *)
(* in its steps Fetch, RetryFetch and FetchFails, for a list that is not   *)
(* at rest: the provider may list and withdraw articles between requests.  *)
(*                                                                         *)
(* An article is its place in the order of the list.  EPMC and Crossref    *)
(* hand out a cursor, which stands for the last article given; for PubMed  *)
(* and Elsevier the page is a count of articles from the beginning of      *)
(* what is listed at that moment.                                          *)
(***************************************************************************)
EXTENDS Integers, FiniteSets, FiniteSetsExt

CONSTANTS
    Last,          \* articles are 1..Last
    Initially,     \* the listed ones, at the beginning
    Odd,           \* those that cannot be parsed (PubMed), or have no url (Elsevier)
    Engines,
    PageSize,
    TryTimes,      \* TRY_TIMES of the Harvester
    CursorTries,   \* TRIES of the cursor of Crossref
    FetchTries,    \* max_tries of PubMed
    NotRead,       \* None: there was no answer yet
    MaxChanges,    \* bound: changes of the list
    MaxFaults      \* bound: requests that fail, and failures of the index

Article == 1..Last

HarvesterEnginesAssumption ==
    /\ Last \in Nat /\ Initially \subseteq Article /\ Odd \subseteq Article
    /\ Engines \subseteq {"EPMC", "Crossref", "PubMed", "Elsevier"}
    /\ PageSize \in Nat \ {0} /\ TryTimes \in Nat \ {0}
    /\ CursorTries \in Nat \ {0} /\ FetchTries \in Nat \ {0}
    /\ MaxChanges \in Nat /\ MaxFaults \in Nat /\ NotRead \notin Int

VARIABLES
    engine,
    listed,      \* the provider's list of what is asked for
    pc,
    at,          \* the cursor: the last article given, or the start of the page
    more,        \* there is a cursor, a link to the next page, or a full page
    page,        \* the articles of the page that are still to be fetched
    batch,       \* articles to be put into the index
    hits,        \* hits_retrieved, running_total, total
    expected,    \* hit_count, expected_total, total of Elsevier
    missing,     \* missing_prism
    tries,       \* attempts of one request
    loops,       \* attempts at the whole
    found,       \* the temporary index: how often it has an article
    throughout,  \* what was listed from the first request of the attempt on (history)
    grown, shrunk,   \* whether the list changed since then (history)
    resumed,     \* an attempt began where the one before it failed (history)
    kept,        \* the index could not be emptied for another attempt (history)
    changes, faults

place   == <<at, more, page, batch, hits, expected, missing>>
history == <<throughout, grown, shrunk, resumed, kept>>
vars == <<engine, listed, pc, place, tries, loops, found, history, changes, faults>>

ByCursor == engine \in {"EPMC", "Crossref"}

TypeOK ==
    /\ engine \in Engines /\ listed \subseteq Article
    /\ pc \in {"ask", "fetch", "store", "done", "failed"}
    /\ at \in Nat /\ more \in BOOLEAN /\ page \subseteq Article
    /\ batch \in [Article -> Nat] /\ hits \in Nat /\ expected \in Int \cup {NotRead}
    /\ missing \in Nat /\ tries \in 0..CursorTries + FetchTries /\ loops \in 0..TryTimes
    /\ found \in [Article -> Nat] /\ throughout \subseteq Article
    /\ grown \in BOOLEAN /\ shrunk \in BOOLEAN /\ resumed \in BOOLEAN /\ kept \in BOOLEAN
    /\ changes \in 0..MaxChanges /\ faults \in 0..MaxFaults

None == [a \in Article |-> 0]

Init ==
    /\ engine \in Engines /\ listed = Initially
    /\ pc = "ask" /\ at = 0 /\ more = TRUE /\ page = {} /\ batch = None
    /\ hits = 0 /\ expected = NotRead /\ missing = 0 /\ tries = 0 /\ loops = 0
    /\ found = None /\ throughout = {}
    /\ grown = FALSE /\ shrunk = FALSE /\ resumed = FALSE /\ kept = FALSE
    /\ changes = 0 /\ faults = 0

-----------------------------------------------------------------------------
(* The provider.                                                           *)

Asking == pc \in {"ask", "fetch", "store"}

Change == Asking /\ changes < MaxChanges /\ changes' = changes + 1

List(a) ==
    /\ Change
    /\ a \notin listed /\ listed' = listed \cup {a}
    /\ grown' = (grown \/ expected # NotRead)
    /\ UNCHANGED <<engine, pc, place, tries, loops, found, throughout, shrunk, resumed, kept,
                   faults>>

Withdraw(a) ==
    /\ Change
    /\ a \in listed /\ listed' = listed \ {a}
    /\ throughout' = throughout \ {a}
    /\ shrunk' = (shrunk \/ expected # NotRead)
    /\ UNCHANGED <<engine, pc, place, tries, loops, found, grown, resumed, kept, faults>>

\* Where an article is in the list
Position(a) == Cardinality({b \in listed : b <= a})

First(n, S) == {a \in S : Cardinality({b \in S : b <= a}) <= n}

Given ==
    IF ByCursor THEN First(PageSize, {a \in listed : a > at})
    ELSE {a \in listed : Position(a) \in at + 1..at + PageSize}

-----------------------------------------------------------------------------
(* Requests.                                                               *)

FirstAsked == expected = NotRead

\* EPMC and Elsevier remember the total of the first answer, Crossref the last one.
Total == IF engine = "Crossref" \/ FirstAsked THEN Cardinality(listed) ELSE expected

Answered ==
    /\ pc = "ask"
    /\ tries' = 0
    /\ throughout' = IF FirstAsked THEN listed ELSE throughout
    /\ grown' = (grown /\ ~FirstAsked) /\ shrunk' = (shrunk /\ ~FirstAsked)
    /\ UNCHANGED <<engine, listed, loops, found, resumed, kept, changes, faults>>

AsBag(S) == [a \in Article |-> IF a \in S THEN 1 ELSE 0]
Sum(f, g) == [a \in Article |-> f[a] + g[a]]

\* _handle_metadata_from_request, _get_data_from_crossref: an answer without articles
\* is the end.  The last cursor may be missing.
AskByCursor ==
    /\ ByCursor
    /\ Answered
    /\ expected' = Total
    /\ \E next \in BOOLEAN :
          /\ ~next => \A a \in listed : a > at => a \in Given
          /\ more' = next
    /\ IF Given = {}
       THEN pc' = "done" /\ UNCHANGED <<at, batch, hits>>
       ELSE /\ pc' = "store"
            /\ at' = Max(Given)
            /\ batch' = AsBag(Given)
            /\ hits' = hits + Cardinality(Given)
    /\ UNCHANGED <<page, missing>>

\* eSearch: a page that is not full is the last one.
AskPubMed ==
    /\ engine = "PubMed"
    /\ Answered
    /\ expected' = Cardinality(listed)
    /\ more' = (Cardinality(Given) = PageSize)
    /\ page' = Given
    /\ pc' = IF Given = {} THEN "done" ELSE "fetch"
    /\ UNCHANGED <<at, batch, hits, missing>>

\* _get_page_of_search_results: without a "next" link the page is the last one; an
\* empty page ends the iteration as well.
AskElsevier ==
    /\ engine = "Elsevier"
    /\ Answered
    /\ expected' = Total
    /\ more' = (at + PageSize < Cardinality(listed))
    /\ at' = at + PageSize
    /\ page' = Given
    /\ pc' = IF Given = {} THEN "store" ELSE "fetch"
    /\ UNCHANGED <<batch, hits, missing>>

\* eFetch: the articles of a page in one request; what cannot be parsed is left out.
FetchPubMed ==
    /\ engine = "PubMed" /\ pc = "fetch"
    /\ batch' = AsBag(page \ Odd) /\ page' = {}
    /\ hits' = hits + Cardinality(page \ Odd)
    /\ tries' = 0
    /\ pc' = "store"
    /\ UNCHANGED <<engine, listed, at, more, expected, missing, loops, found, history,
                   changes, faults>>

\* ElsevierIterator.__next__: one article after the other.
FetchElsevier ==
    /\ engine = "Elsevier" /\ pc = "fetch"
    /\ LET a == Min(page)
       IN /\ page' = page \ {a}
          /\ IF a \in Odd
             THEN /\ missing' = missing + 1 /\ expected' = expected - 1
                  /\ UNCHANGED batch
             ELSE batch' = Sum(batch, AsBag({a})) /\ UNCHANGED <<missing, expected>>
          /\ pc' = IF page # {a} THEN "fetch" ELSE IF more THEN "ask" ELSE "store"
    /\ UNCHANGED <<engine, listed, at, more, hits, tries, loops, found, history, changes,
                   faults>>

-----------------------------------------------------------------------------
(* Failures.                                                               *)

Fault == faults < MaxFaults /\ faults' = faults + 1

\* Mutant: every engine goes on where it failed.
AtAsItWas == at

\* A new call of execute.  The object of the engine is the same, and EPMC keeps its
\* cursor in it.
AtAnew == IF engine = "EPMC" THEN at ELSE 0

\* Mutant: another attempt goes on with what is in the index.
NotEmptied(inIndex) == found' = inIndex /\ kept' = kept

\* delete_harvester_index_recs: an error is logged and ignored.
Emptied(inIndex) ==
    \/ found' = None /\ UNCHANGED kept
    \/ found' = inIndex /\ kept' = TRUE

\* The exception leaves execute.  After Error 500 there is another attempt, as long as
\* there are any left, otherwise the index is deleted and the run given up.
Raise(inIndex) ==
    \/ /\ loops + 1 < TryTimes
       /\ loops' = loops + 1
       /\ pc' = "ask" /\ at' = AtAnew /\ more' = TRUE
       /\ page' = {} /\ batch' = None /\ hits' = 0 /\ expected' = NotRead /\ missing' = 0
       /\ tries' = 0
       /\ Emptied(inIndex)
       /\ resumed' = (resumed \/ AtAnew # 0)
       /\ throughout' = {} /\ grown' = FALSE /\ shrunk' = FALSE
    \/ /\ pc' = "failed" /\ found' = None
       /\ UNCHANGED <<place, tries, loops, history>>

\* A request is made again by the cursor of Crossref, but for the first one, and by the
\* eFetch of PubMed.
TriesLeft ==
    \/ engine = "Crossref" /\ pc = "ask" /\ at # 0 /\ tries + 1 < CursorTries
    \/ engine = "PubMed" /\ pc = "fetch" /\ tries + 1 < FetchTries

RequestFails ==
    /\ pc \in {"ask", "fetch"}
    /\ engine = "Elsevier" /\ pc = "fetch" => Min(page) \notin Odd
    /\ Fault
    /\ IF TriesLeft
       THEN tries' = tries + 1 /\ UNCHANGED <<pc, place, loops, found, history>>
       ELSE Raise(found)
    /\ UNCHANGED <<engine, listed, changes>>

\* An exception of Elasticsearch is no Error.
StoreFails ==
    /\ pc = "store"
    /\ Fault
    /\ pc' = "failed" /\ found' = None
    /\ UNCHANGED <<engine, listed, place, tries, loops, history, changes>>

-----------------------------------------------------------------------------
\* The loop goes on while there is a cursor and fewer articles than the total were
\* retrieved; in PubMed after a full page.
GoesOn == more /\ (ByCursor => hits < expected)

StorePage ==
    /\ pc = "store" /\ engine # "Elsevier"
    /\ found' = Sum(found, batch) /\ batch' = None
    /\ pc' = IF GoesOn THEN "ask" ELSE "done"
    /\ at' = IF engine = "PubMed" THEN at + PageSize ELSE at
    /\ UNCHANGED <<engine, listed, more, page, hits, expected, missing, tries, loops, history,
                   changes, faults>>

\* Elsevier: everything at the end; it is an error if no result had a url.
StoreAll ==
    /\ pc = "store" /\ engine = "Elsevier"
    /\ IF missing > 0 /\ expected = 0
       THEN Raise(Sum(found, batch))
       ELSE /\ found' = Sum(found, batch) /\ batch' = None
            /\ pc' = "done"
            /\ UNCHANGED <<at, more, page, hits, expected, missing, tries, loops, history>>
    /\ UNCHANGED <<engine, listed, changes, faults>>

Work == AskByCursor \/ AskPubMed \/ AskElsevier \/ FetchPubMed \/ FetchElsevier
        \/ StorePage \/ StoreAll

Next ==
    \/ Work
    \/ RequestFails \/ StoreFails
    \/ \E a \in Article : List(a) \/ Withdraw(a)

Spec == Init /\ [][Next]_vars

-----------------------------------------------------------------------------
(***************************************************************************)
(* Properties                                                              *)
(***************************************************************************)

Expected == throughout \ (IF ByCursor THEN {} ELSE Odd)
Found == {a \in Article : found[a] > 0}

\* A change of the list between two requests that the way an engine counts does not
\* allow for: EPMC stops at the first total, though new articles were among those it was
\* given; Crossref at the last one, though others of those it was given are gone; the
\* others ask for the next page of a list that has moved up.
Overtaken == IF engine = "EPMC" THEN grown ELSE shrunk

\* A change that makes an engine get an article twice: the list has moved down.
Repeating == ~ByCursor /\ grown

\* execute: "Import all data", "we must have now received ALL of them".  When an engine
\* has done its work the index has every article that was listed since its first request,
\* and each of them once, unless the list changed in the wrong direction, EPMC went on
\* where an attempt had failed, or the index could not be emptied for another attempt.
EachFoundOnce ==
    pc = "done" =>
        /\ Overtaken \/ (engine = "EPMC" /\ resumed) \/ Expected \subseteq Found
        /\ Repeating \/ kept \/ \A a \in Article : found[a] <= 1

\* QueryEngineEPMC.py, execute: "Import all data from EPMC using setted variables".
AllImported == pc = "done" /\ engine = "EPMC" /\ ~grown /\ ~shrunk => Expected \subseteq Found
===============================================================================
