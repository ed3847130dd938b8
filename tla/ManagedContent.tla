----------------------------- MODULE ManagedContent -----------------------------
(***************************************************************************)
(* Contents of web pages that administrators edit (content_ajax of         *)
(* jper/views/admin.py, CmsHtml of jper/models/admin.py), of one type.  A  *)
(* changed content is a record of its own: the one before it becomes       *)
(* superseded, and is deleted when it has been so for long.  The editor's  *)
(* page sends what it was given and what was entered in its form; who      *)
(* edits is not kept, so what two administrators do to a record meets.     *)
(* The contents shown are kept in a cache for some time.                   *)
(***************************************************************************)
EXTENDS Naturals, Sequences

CONSTANTS
    Editor,
    Bodies, Sorts, Links,      \* what can be entered in the fields of the form
    First,                    \* the content of the first record
    KeepFor, CacheFor,        \* how long superseded records and cached contents are kept
    MaxEvents                 \* bound: events of status and of the form, days, crashes
                              \* and clearings of the cache, together

ManagedContentAssumption ==
    /\ First \in [text : Bodies, sort_value : Sorts]
    /\ KeepFor \in Nat /\ CacheFor \in Nat /\ MaxEvents \in Nat

VARIABLES
    rows,      \* cms_html, by id; entry: the first record of which it is a version
    hasLink,   \* whether the form has got another field by a new version of cms_ctl
    at, form,  \* what each editor does, and the record he was given with what he entered
    now, events,
    fill,      \* the contents that a page has read and not put into the cache yet
    cache,     \* the contents kept
    wanted,    \* history: entries to be live, by what editors did to their records
    answered,  \* history: of what editors were told to be saved: had, sent, has now
    shown,     \* history: what has been live since the cache was cleared
    overtaken  \* history: whether the cache was cleared between the reading and the keeping

vars == <<rows, hasLink, at, form, now, events, fill, cache, wanted, shown,
          answered, overtaken>>

Fields == [text : Bodies, sort_value : Sorts] \cup [text : Bodies, sort_value : Sorts, link : Links]
Entered == {f \in Fields : ("link" \in DOMAIN f) <=> hasLink}
NoForm == [row |-> 0, status |-> "N", fields |-> <<>>]
NoCache == [full |-> FALSE, has |-> {}, since |-> 0]
Live(table) == {i \in DOMAIN table : table[i].status = "L"}
Contents(table) == {table[i].fields : i \in Live(table)}

TypeOK ==
    /\ \A i \in DOMAIN rows :
          /\ rows[i].entry \in 1 .. i /\ rows[i].fields \in Fields
          /\ rows[i].status \in {"N", "L", "D", "S", "gone"}
          /\ rows[i].updated \in 0 .. now /\ rows[i].lastLive \in 0 .. now
    /\ hasLink \in BOOLEAN /\ now \in 0 .. MaxEvents
    /\ at \in [Editor -> {"list", "form", "insert"}]
    /\ \A e \in Editor : form[e].row \in 0 .. Len(rows)
    /\ events \in 0 .. MaxEvents
    /\ fill.has \subseteq Fields /\ cache.has \subseteq Fields /\ cache.since \in 0 .. now
    /\ wanted \subseteq DOMAIN rows /\ overtaken \in BOOLEAN

Event == events < MaxEvents /\ events' = events + 1

NewRow(entry, status, fields) ==
    [entry |-> entry, status |-> status, fields |-> fields, created |-> now, updated |-> now,
     lastLive |-> IF status = "L" THEN now ELSE 0]

Init ==
    /\ \E status \in {"N", "L"} :
          /\ rows = <<[entry |-> 1, status |-> status, fields |-> First, created |-> 0,
                       updated |-> 0, lastLive |-> 0]>>
          /\ wanted = IF status = "L" THEN {1} ELSE {}
    /\ hasLink = FALSE /\ at = [e \in Editor |-> "list"] /\ form = [e \in Editor |-> NoForm]
    /\ now = 0 /\ events = 0
    /\ fill = NoCache /\ cache = NoCache
    /\ shown = {Contents(rows)} /\ answered = {} /\ overtaken = FALSE

-----------------------------------------------------------------------------
(* The table.  Updates set the time of a record when they change it.       *)

Updated(i, status, fields) ==
    LET row == rows[i]
        same == row.status = status /\ row.fields = fields
    IN  [rows EXCEPT ![i] =
            [row EXCEPT !.status = status, !.fields = fields,
                        !.updated = IF same THEN row.updated ELSE now,
                        !.lastLive = IF row.status = "L" THEN now ELSE row.lastLive]]

\* Contents change, and what is shown with them.
Write(table) == rows' = table /\ shown' = shown \cup {Contents(table)}

WantedAfter(i, status) ==
    IF status = "L" THEN wanted \cup {rows[i].entry}
    ELSE IF rows[i].status = "L" THEN wanted \ {rows[i].entry} ELSE wanted

-----------------------------------------------------------------------------
(* Editors.                                                                *)

Insert(e) ==
    /\ at[e] = "list" /\ Event
    /\ \E f \in Entered : Write(Append(rows, NewRow(Len(rows) + 1, "N", f)))
    /\ UNCHANGED <<hasLink, at, form, now, fill, cache, wanted, answered, overtaken>>

\* Drafts and live records can be edited.
Open(e) ==
    /\ at[e] = "list" /\ Event
    /\ \E i \in DOMAIN rows : \E f \in Entered :
          /\ rows[i].status \in {"N", "L"}
          /\ f # rows[i].fields     \* else there are "no changes to save"
          /\ form' = [form EXCEPT ![e] = [row |-> i, status |-> rows[i].status, fields |-> f]]
    /\ at' = [at EXCEPT ![e] = "form"]
    /\ UNCHANGED <<rows, hasLink, now, fill, cache, wanted, shown, answered, overtaken>>

\* What save_and_archive_content finds to differ: of the fields that the record has now.
Differs(e) ==
    LET fields == rows[form[e].row].fields
    IN  {k \in DOMAIN fields : form[e].fields[k] # fields[k]}

\* Nothing is saved if the record is gone, or has a field that the form had not (a KeyError).
Refused(e) ==
    LET row == rows[form[e].row]
    IN  row.status = "gone" \/ ~(DOMAIN row.fields \subseteq DOMAIN form[e].fields)

Back(e, answer) ==
    /\ at' = [at EXCEPT ![e] = "list"] /\ form' = [form EXCEPT ![e] = NoForm]
    /\ answered' = answered \cup answer

SaveFails(e) ==
    /\ at[e] = "form" /\ Refused(e)
    /\ Back(e, {})
    /\ UNCHANGED <<rows, hasLink, now, events, fill, cache, wanted, shown, overtaken>>

\* The whole form, once something differs.
FieldsSaved(e) == IF Differs(e) = {} THEN rows[form[e].row].fields ELSE form[e].fields

\* Another place among the records, and the status that it had when it was opened.
SaveInPlace(e) ==
    LET i == form[e].row
    IN  /\ at[e] = "form" /\ ~Refused(e) /\ Differs(e) \subseteq {"sort_value"}
        /\ Write(Updated(i, form[e].status, FieldsSaved(e)))
        /\ wanted' = WantedAfter(i, form[e].status)
        /\ Back(e, {[had |-> rows[i].fields, sent |-> form[e].fields, has |-> rows'[i].fields]})
        /\ UNCHANGED <<hasLink, now, events, fill, cache, overtaken>>

\* Another content: the record is superseded, which is committed, and then a new one made.
Archive(e) ==
    LET i == form[e].row
    IN  /\ at[e] = "form" /\ ~Refused(e) /\ ~(Differs(e) \subseteq {"sort_value"})
        /\ Write(Updated(i, "S", rows[i].fields))
        /\ wanted' = WantedAfter(i, form[e].status)
        /\ at' = [at EXCEPT ![e] = "insert"]
        /\ UNCHANGED <<hasLink, form, now, events, fill, cache, answered, overtaken>>

InsertVersion(e) ==
    /\ at[e] = "insert"
    /\ Write(Append(rows, NewRow(rows[form[e].row].entry, form[e].status, form[e].fields)))
    /\ Back(e, {[had |-> rows[form[e].row].fields, sent |-> form[e].fields,
                 has |-> form[e].fields]})
    /\ UNCHANGED <<hasLink, now, events, fill, cache, wanted, overtaken>>

\* Then nothing of the entry may be live.
InsertFails(e) ==
    /\ at[e] = "insert" /\ Event
    /\ wanted' = wanted \ {rows[form[e].row].entry}
    /\ Back(e, {})
    /\ UNCHANGED <<rows, hasLink, now, fill, cache, shown, overtaken>>

\* The buttons of a list, which may be an old one.
UpdateStatus ==
    /\ Event
    /\ \E i \in DOMAIN rows, status \in {"N", "L", "D"} :
          /\ rows[i].status \notin {status, "gone"}
          /\ Write(Updated(i, status, rows[i].fields))
          /\ wanted' = WantedAfter(i, status)
    /\ UNCHANGED <<hasLink, at, form, now, fill, cache, answered, overtaken>>

AddField ==
    /\ ~hasLink /\ hasLink' = TRUE /\ Event
    /\ UNCHANGED <<rows, at, form, now, fill, cache, wanted, shown, answered, overtaken>>

\* Requests are answered on the day they are made.
NextDay ==
    /\ Event /\ \A e \in Editor : at[e] # "insert"
    /\ now' = now + 1
    /\ UNCHANGED <<rows, hasLink, at, form, fill, cache, wanted, shown, answered,
                   overtaken>>

\* Mutant: records are old when they were made long ago.
OldByCreation(row) == row.status \in {"D", "S"} /\ row.created + KeepFor < now

Old(row) == row.status \in {"D", "S"} /\ row.updated + KeepFor < now

\* delete_old_data
DeleteOld ==
    /\ \E i \in DOMAIN rows : Old(rows[i])
    /\ rows' = [i \in DOMAIN rows |->
                   IF Old(rows[i]) THEN [rows[i] EXCEPT !.status = "gone"] ELSE rows[i]]
    /\ UNCHANGED <<hasLink, at, form, now, events, fill, cache, wanted, shown, answered,
                   overtaken>>

-----------------------------------------------------------------------------
(* Pages, one at a time: the first that finds no contents kept reads them. *)

ReadContents ==
    /\ ~cache.full /\ ~fill.full
    /\ fill' = [full |-> TRUE, has |-> Contents(rows), since |-> now]
    /\ overtaken' = FALSE
    /\ UNCHANGED <<rows, hasLink, at, form, now, events, cache, wanted, shown, answered>>

KeepContents ==
    /\ fill.full
    /\ cache' = [fill EXCEPT !.since = now] /\ fill' = NoCache
    /\ UNCHANGED <<rows, hasLink, at, form, now, events, wanted, shown, answered,
                   overtaken>>

Expire ==
    /\ cache.full /\ cache.since + CacheFor < now
    /\ cache' = NoCache
    /\ UNCHANGED <<rows, hasLink, at, form, now, events, fill, wanted, shown, answered,
                   overtaken>>

ClearCache ==
    /\ Event
    /\ cache' = NoCache
    /\ shown' = {Contents(rows)}
    /\ overtaken' = fill.full
    /\ UNCHANGED <<rows, hasLink, at, form, now, fill, wanted, answered>>

Next ==
    \/ \E e \in Editor :
          \/ Insert(e) \/ Open(e) \/ SaveFails(e) \/ SaveInPlace(e)
          \/ Archive(e) \/ InsertVersion(e) \/ InsertFails(e)
    \/ UpdateStatus \/ AddField \/ NextDay \/ DeleteOld
    \/ ReadContents \/ KeepContents \/ Expire \/ ClearCache

Spec == Init /\ [][Next]_vars

-----------------------------------------------------------------------------
(* Properties.                                                             *)

\* What editors made live stays live until they say otherwise, be it by saving a record with
\* the status it had when they opened it; a crash between the archiving of a version and the
\* insertion of the next takes it from the pages.
WantedIsLive ==
    \A entry \in wanted :
        \/ \E i \in Live(rows) : rows[i].entry = entry
        \/ \E e \in Editor :
              at[e] = "insert" /\ form[e].status = "L" /\ rows[form[e].row].entry = entry

\* What an editor is told to be saved is saved, unless all that he changed is a field which
\* the record had not.
AnsweredIsSaved ==
    \A a \in answered :
        a.has = a.sent \/ (a.has = a.had /\ \A k \in DOMAIN a.had : a.sent[k] = a.had[k])

\* What was on the pages can be brought back for as long as records are kept.
KeptAfterLive == \A i \in DOMAIN rows : rows[i].status = "gone" => rows[i].lastLive + KeepFor < now

\* After the cache has been cleared, pages show nothing that was replaced before, unless its
\* clearing met a page that had read it.
ClearedIsGone == cache.full => cache.has \in shown \/ overtaken
===============================================================================
