-------------------------------- MODULE NoteList --------------------------------
(***************************************************************************)
(* A repository that fetches its notifications by the API instead of being *)
(* sent them: it asks for the list of what was routed to it since an id or *)
(* a date (jper/views/webapi.py, list_repository_routed; jper/api.py,      *)
(* outgoing_notes_list_obj; shared/models/note.py, outgoing_list_obj),     *)
(* page by page, while notifications go on being routed and old ones are   *)
(* deleted (jper/scheduler.py, delete_old_data).  Each request is two      *)
(* queries, a count and a page of the list by LIMIT and OFFSET.            *)
(*                                                                         *)
(* Every notification is one that matches the repository.  A day has two   *)
(* halves, so that a date and a date with a time differ.                   *)
(***************************************************************************)
EXTENDS Naturals, FiniteSets

CONSTANTS
    Note,
    Harvested,   \* those that get their id when they are routed
    PageSize,
    Ways,        \* how the repository asks: since an "id", a "day" or a "time"
    KeepDays,    \* days that notifications are kept
    MaxClock     \* bound: half days

NoteListAssumption ==
    /\ Harvested \subseteq Note /\ PageSize \in Nat \ {0}
    /\ Ways \subseteq {"id", "day", "time"}
    /\ KeepDays \in Nat /\ MaxClock \in Nat /\ IsFiniteSet(Note)

VARIABLES
    clock,
    row,      \* table `notification`
    id,       \* the id of each notification
    nextId,   \* the auto-increment counter
    stamp,    \* analysis_date
    pc,       \* the repository: "idle", about to "count", about to "list"
    way,      \* how it asks
    since,    \* since what
    began,    \* when it began to ask for the first page
    page, total,
    got,      \* the notifications it has received
    due,      \* those that were there when a walk through the pages began (history)
    excused   \* those that no walk need have listed, see Save, Delete (history)

table  == <<row, id, nextId, stamp>>
client == <<pc, way, since, began, page, total, got>>
vars == <<clock, table, client, due, excused>>

Row == {"absent", "unrouted", "analysed", "routed", "deleted"}

TypeOK ==
    /\ clock \in 0 .. MaxClock
    /\ row \in [Note -> Row] /\ id \in [Note -> Nat] /\ nextId \in Nat
    /\ stamp \in [Note -> 0 .. clock]
    /\ pc \in {"idle", "count", "list"} /\ way \in Ways
    /\ since \in Nat /\ began \in 0 .. clock /\ page \in Nat \ {0} /\ total \in Nat
    /\ got \subseteq {n \in Note : row[n] \in {"routed", "deleted"}}
    /\ due \in SUBSET Note /\ excused \in SUBSET Note
    /\ \A m, n \in Note : id[m] = id[n] /\ id[m] # 0 => m = n

Init ==
    /\ clock = 0
    /\ row = [n \in Note |-> "absent"] /\ id = [n \in Note |-> 0] /\ nextId = 1
    /\ stamp = [n \in Note |-> 0]
    /\ pc = "idle" /\ way \in Ways /\ since = 0 /\ began = 0 /\ page = 1 /\ total = 0
    /\ got = {} /\ due = {} /\ excused = {}

Day(t) == t \div 2
Midnight(d) == 2 * d

\* At the bound the clock stands still.
Tick ==
    /\ clock' = IF clock < MaxClock THEN clock + 1 ELSE clock
    /\ UNCHANGED <<table, client, due, excused>>

-----------------------------------------------------------------------------
\* The list.

Routed == {n \in Note : row[n] = "routed"}

\* Mutant: later than the date.
SelectedLater(n) ==
    IF way = "id" THEN id[n] > since ELSE Midnight(Day(stamp[n])) > since

\* all_4rac_since_id, all_4rac_since_date: the day of the analysis is compared.
Selected(n) ==
    IF way = "id" THEN id[n] > since ELSE Midnight(Day(stamp[n])) >= since

Listing == {n \in Routed : Selected(n)}
Position(n) == Cardinality({m \in Listing : id[m] <= id[n]})

\* The list is shorter than the pages that have been fetched.
BehindPages == pc # "idle" /\ Cardinality(Listing) < (page - 1) * PageSize

-----------------------------------------------------------------------------
\* Notifications come in, and are routed in two steps.

Receive(n) ==
    /\ row[n] = "absent"
    /\ row' = [row EXCEPT ![n] = "unrouted"]
    /\ IF n \in Harvested THEN UNCHANGED <<id, nextId>>
       ELSE id' = [id EXCEPT ![n] = nextId] /\ nextId' = nextId + 1
    /\ UNCHANGED <<clock, stamp, client, due, excused>>

\* _create_routed
Analyse(n) ==
    /\ row[n] = "unrouted"
    /\ row' = [row EXCEPT ![n] = "analysed"]
    /\ stamp' = [stamp EXCEPT ![n] = clock]
    /\ UNCHANGED <<clock, id, nextId, client, due, excused>>

\* save_newly_routed.  A repository that asks by id cannot be expected to find what
\* comes behind a higher id, nor what comes when the list has become shorter than the
\* pages it has walked through; one that asks by day what is saved after midnight.  One
\* that comes in front of others between the two queries of a request moves the last
\* of them to a page beyond the total.
Save(n) ==
    /\ row[n] = "analysed"
    /\ row' = [row EXCEPT ![n] = "routed"]
    /\ IF n \in Harvested THEN id' = [id EXCEPT ![n] = nextId] /\ nextId' = nextId + 1
       ELSE UNCHANGED <<id, nextId>>
    /\ LET overtaken == {m \in Note : row[m] \in {"routed", "deleted"} /\ id[m] > id'[n]}
       IN excused' = excused
            \cup {m \in {n} : IF way = "id" THEN overtaken # {} \/ BehindPages
                              ELSE Day(clock) > Day(stamp[n])}
            \cup IF pc = "list" THEN overtaken \ got ELSE {}
    /\ UNCHANGED <<clock, stamp, client, due>>

\* delete_old_data: while a walk goes on, what is behind the deleted ones moves to
\* pages that have been listed already.  An unrouted notification has no analysis
\* date, and is never old.
Old == {n \in Routed : Day(stamp[n]) + KeepDays < Day(clock)}

Delete ==
    /\ Old # {}
    /\ row' = [n \in Note |-> IF n \in Old THEN "deleted" ELSE row[n]]
    /\ excused' = excused \cup IF pc = "idle" THEN {} ELSE Routed \ (got \cup Old)
    /\ UNCHANGED <<clock, id, nextId, stamp, client, due>>

-----------------------------------------------------------------------------
\* Requests

StartWalk ==
    /\ pc = "idle"
    /\ pc' = "count" /\ page' = 1 /\ began' = clock
    /\ due' = due \cup Routed
    /\ UNCHANGED <<clock, table, way, since, total, got, excused>>

Count ==
    /\ pc = "count"
    /\ total' = Cardinality(Listing)
    /\ pc' = "list"
    /\ UNCHANGED <<clock, table, way, since, began, page, got, due, excused>>

OnPage == {n \in Listing : Position(n) \in (page - 1) * PageSize + 1 .. page * PageSize}

Highest(S) == CHOOSE i \in {id[n] : n \in S} : \A n \in S : id[n] <= i

\* From where it asks next time: the highest id, the day or the time of this walk.
NextSince ==
    CASE way = "id"   -> IF got' = {} THEN since ELSE Highest(got')
      [] way = "day"  -> Midnight(Day(began))
      [] way = "time" -> began

List ==
    /\ pc = "list"
    /\ got' = got \cup OnPage
    /\ total' = 0
    /\ IF page * PageSize < total
       THEN pc' = "count" /\ page' = page + 1 /\ UNCHANGED <<since, began>>
       ELSE pc' = "idle" /\ page' = 1 /\ since' = NextSince /\ began' = 0
    /\ UNCHANGED <<clock, table, way, due, excused>>

-----------------------------------------------------------------------------
Next ==
    \/ Tick
    \/ \E n \in Note : Receive(n) \/ Analyse(n) \/ Save(n)
    \/ Delete
    \/ StartWalk \/ Count \/ List

Spec == Init /\ [][Next]_vars

-----------------------------------------------------------------------------
(***************************************************************************)
(* Properties                                                              *)
(***************************************************************************)

\* A repository that walks through all pages, and asks the next time from where it
\* was, has received everything that had been routed when its last walk began and
\* has not been deleted; whatever is routed and deleted meanwhile, save what is
\* excused.
NothingOverlooked ==
    pc = "idle" => \A n \in due \ excused : row[n] = "routed" => n \in got

\* api.py, outgoing_notes_list_obj: since is the "date string for the earliest
\* notification date requested.  Should be of the form YYYY-MM-DDTHH:MM:SSZ".  What
\* was analysed at that time or later is listed.
SinceIsEarliest ==
    pc # "idle" /\ way # "id" => \A n \in Routed : stamp[n] >= since => n \in Listing
=============================================================================
