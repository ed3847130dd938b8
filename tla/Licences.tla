------------------------------- MODULE Licences --------------------------------
(***************************************************************************)
(* What becomes of the licences, the embargo and the publication date of   *)
(* an article, from the document it comes in to what a repository is told: *)
(* taken from the JATS file of a publisher (jper/models/jats.py), from a   *)
(* record of Crossref, or given by the API (shared/models/note.py),        *)
(* completed by the publisher's defaults when the notification is routed   *)
(* (jper/routing.py), and marked with the licence that is best on the day  *)
(* it is fetched or deposited (make_outgoing, jper_sword_out/xwalk.py).    *)
(*                                                                         *)
(* A month has MonthDays days; a licence's url is "open", "closed" or      *)
(* "none"; a start or an end of 0 is one that is not known.                *)
(***************************************************************************)
EXTENDS Integers, FiniteSets, Sequences, SequencesExt

CONSTANTS
    Jats,         \* JATS documents
    Crossref,     \* records of Crossref
    Submitted,    \* what publishers give by the API
    Defaults,     \* defaults of publishers
    MonthDays,    \* days of a month
    FirstDay, LastDay   \* bound: the days of the model

LicencesAssumption == MonthDays \in Nat \ {0} /\ FirstDay \in Nat /\ LastDay \in Nat

VARIABLES
    today,
    stage,        \* "source", "rejected", "unrouted" or "routed"
    source,       \* the document
    defaults,     \* the defaults of its publisher
    note          \* the notification

vars == <<today, stage, source, defaults, note>>

\* The end of an embargo of which only the duration is known: "9999-12-31".
Never == 999
NoDate == [day |-> 0, known |-> "none"]
NoEmbargo == [start |-> 0, end |-> 0, duration |-> 0]
NoNote == [via |-> "none", version |-> "none", licences |-> <<>>, embargo |-> NoEmbargo,
           published |-> NoDate]

Url == {"open", "closed", "none"}
Licence == [url : Url, start : Nat]
Dated == [day : Nat, known : {"day", "month", "year", "none"}]
TypeOK ==
    /\ today \in FirstDay .. LastDay
    /\ stage \in {"source", "rejected", "unrouted", "routed"}
    /\ note.via \in {"none", "ftp", "api", "harvest"}
    /\ note.version \in {"none", "AM", "P", "VOR", "EVOR", "CVOR", "C/EVOR"}
    /\ \A i \in DOMAIN note.licences : note.licences[i] \in Licence
    /\ {note.embargo.start, note.embargo.end, note.embargo.duration} \subseteq Nat
    /\ note.published \in Dated

IsOpen(licence) == licence.url = "open"
\* Mutant: licences are read in the order in which they came.
AsGiven(licences) == licences
\* Licences are always read in the order of their starts, those without a start first.
ByStart(licences) == SortSeq(licences, LAMBDA l, m : l.start < m.start)

-----------------------------------------------------------------------------
(* A JATS document: its licence elements, its version and its dates.       *)

\* A licence's address is looked for in ali:license_ref, the attribute, the text.
UrlOf(element) ==
    IF element.ref # "none" THEN element.ref
    ELSE IF element.href # "none" THEN element.href ELSE element.text

Captured(doc) == SelectSeq(doc.licences, LAMBDA e : e.use # "TDM")
Kept(doc) == SelectSeq(Captured(doc), LAMBDA e : UrlOf(e) # "none")
Tagged(doc) == Len(SelectSeq(Captured(doc), LAMBDA e : e.use # "none"))
Uses(doc) == {Kept(doc)[i].use : i \in DOMAIN Kept(doc)}

ForUse(doc, use) == SelectSeq(Kept(doc), LAMBDA e : e.use = use)
IsRecord(version) == version \in {"VOR", "EVOR", "CVOR", "C/EVOR"}

\* The version and its licences, which say what they are for all or none.
Untagged(doc) == Kept(doc) = <<>> \/ Tagged(doc) = 0
VersionOf(doc) ==
    IF doc.version = "none" /\ ~Untagged(doc) THEN CHOOSE use \in Uses(doc) : TRUE ELSE doc.version
LicencesFor(doc) ==
    IF Untagged(doc) THEN Kept(doc)
    ELSE IF ForUse(doc, VersionOf(doc)) # <<>> \/ ~IsRecord(doc.version)
         THEN ForUse(doc, VersionOf(doc))
         ELSE ForUse(doc, "VOR")
\* Whatever use is accepted of a licence is accepted as the version of the article, too
\* (allowed_licence_specific_uses, allowed_article_versions): if it is the same of all, only
\* none at all is refused.
LicencesFit(doc) ==
    /\ \A i \in DOMAIN doc.licences : doc.licences[i].use # "odd"
    /\ \/ Untagged(doc)
       \/ /\ Tagged(doc) = Len(Kept(doc)) /\ LicencesFor(doc) # <<>>
          /\ doc.version = "none" => Cardinality(Uses(doc)) = 1 /\ "none" \notin Uses(doc)

\* Dates of publication in the document, or else those in its history: the most precise,
\* and of those the electronic one.
Publications(dates) == SelectSeq(dates, LAMBDA d : d.type # "other")
PubDates(doc) == IF Publications(doc.dates) # <<>> THEN Publications(doc.dates)
                                                   ELSE Publications(doc.history)
Precision == [year |-> 1, month |-> 2, day |-> 3]
Preference == [other |-> 0, ppub |-> 1, both |-> 2, epub |-> 3]
Rank(d) == 4 * Precision[d.known] + Preference[d.type]
Foremost(doc) ==
    LET dates == PubDates(doc)
    IN  SelectSeq(dates, LAMBDA d : \A i \in DOMAIN dates : Rank(d) >= Rank(dates[i]))
\* The two that sort first must not contradict each other.
DatesFit(doc) ==
    /\ \A d \in Range(doc.dates \o doc.history) : d.known # "wrong"
    /\ Len(Foremost(doc)) > 1 => Foremost(doc)[1].day = Foremost(doc)[2].day
Published(doc) ==
    IF PubDates(doc) = <<>> THEN NoDate
    ELSE [day |-> Foremost(doc)[1].day, known |-> Foremost(doc)[1].known]

FromJats(doc) ==
    LET of(element) == [url |-> UrlOf(element), start |-> element.start]
    IN  [via |-> "ftp", version |-> VersionOf(doc), embargo |-> NoEmbargo,
         licences |-> [i \in DOMAIN LicencesFor(doc) |-> of(LicencesFor(doc)[i])],
         published |-> Published(doc)]

-----------------------------------------------------------------------------
(* A record of Crossref: licences, each of some version.                   *)

Priority == <<"EVOR", "CVOR", "VOR", "P", "AM">>
Better(version, other) ==
    \E i, j \in DOMAIN Priority : Priority[i] = version /\ Priority[j] = other /\ i < j

\* A better open licence than the best so far.
Supersedes(l, best) ==
    IF best.start < today THEN l.start < today /\ Better(l.version, best.version)
    ELSE l.start < best.start \/ (l.start = best.start /\ Better(l.version, best.version))

\* One pass over the licences, for the open ones and for the others.
BestOf(record) ==
    LET known == SelectSeq(record, LAMBDA l : l.version \in Range(Priority))
        opened == SelectSeq(known, IsOpen)
        closed == SelectSeq(known, LAMBDA l : ~IsOpen(l))
        KeepOpen(best, l) == IF Supersedes(l, best) THEN l ELSE best
        KeepClosed(best, l) == IF Better(l.version, best.version) THEN best ELSE l
    IN  IF opened # <<>> THEN <<FoldLeft(KeepOpen, Head(opened), Tail(opened))>>
        ELSE IF closed # <<>> THEN <<FoldLeft(KeepClosed, Head(closed), Tail(closed))>>
        ELSE <<>>

FromCrossref(record) ==
    LET best == BestOf(record)
        same == SelectSeq(record, LAMBDA l : l.version = best[1].version)
    IN  IF best = <<>> THEN [NoNote EXCEPT !.via = "harvest"]
        ELSE [via |-> "harvest", version |-> best[1].version, published |-> NoDate,
              licences |-> [i \in DOMAIN same |-> [url |-> same[i].url, start |-> same[i].start]],
              embargo |-> IF IsOpen(best[1]) /\ best[1].start > today
                          THEN [NoEmbargo EXCEPT !.end = best[1].start] ELSE NoEmbargo]

-----------------------------------------------------------------------------
(* Defaults when the notification is routed.                               *)

Month(day) == (day - 1) \div MonthDays
\* The end of an embargo: to the day, or the last day of its month; of a year nothing
\* is known.
AddMonths(date, months) ==
    IF date.known = "day" THEN date.day + months * MonthDays
    ELSE IF date.known = "month" THEN (Month(date.day) + months + 1) * MonthDays
    ELSE 0

\* The start of the first licence that is open.
FirstOpenStart(licences) ==
    LET opened == SelectSeq(ByStart(licences), IsOpen)
    IN  IF opened = <<>> THEN 0 ELSE opened[1].start

WithText == <<[url |-> "none", start |-> 0]>>
WithDefault(start) == <<[url |-> defaults.url, start |-> start]>>
Embargo(published, months) ==
    [start |-> published.day, end |-> AddMonths(published, months), duration |-> months]

\* Licences but no embargo.
EmbargoFromLicences(n) ==
    [n EXCEPT !.embargo = [NoEmbargo EXCEPT !.end = FirstOpenStart(n.licences)]]

\* An embargo but no licences: something is said only if it came by the API.
TextForEmbargo(n) ==
    IF n.via # "api" \/ (n.embargo.end # 0 /\ n.embargo.end <= today) THEN n
    ELSE IF n.embargo.end # 0 THEN [n EXCEPT !.licences = WithText]
    ELSE IF n.embargo.duration = 0 THEN n
    ELSE IF n.published = NoDate THEN [n EXCEPT !.licences = WithText]
    ELSE [n EXCEPT !.licences = WithText, !.embargo = Embargo(n.published, n.embargo.duration)]

\* Neither: the publisher's defaults, if there are both.
PublisherDefaults(n) ==
    IF defaults.url = "none" \/ defaults.months < 0 THEN n
    ELSE IF n.published # NoDate
         THEN [n EXCEPT !.licences = WithDefault(AddMonths(n.published, defaults.months)),
                        !.embargo = IF defaults.months > 0 THEN Embargo(n.published, defaults.months)
                                                           ELSE @]
    ELSE IF defaults.months > 0
         THEN [n EXCEPT !.licences = WithText,
                        !.embargo = [start |-> 0, end |-> Never, duration |-> defaults.months]]
    ELSE [n EXCEPT !.licences = WithDefault(0)]

Completed(n) ==
    IF n.via = "harvest" THEN n
    ELSE IF n.licences # <<>> THEN IF n.embargo = NoEmbargo THEN EmbargoFromLicences(n) ELSE n
    ELSE IF n.embargo # NoEmbargo THEN TextForEmbargo(n)
    ELSE PublisherDefaults(n)

-----------------------------------------------------------------------------
(* What a repository is told on a day.                                     *)

\* The position of the best licence among those by start, 0 for none: open ones first,
\* then the latest that has begun, then the first.
Mark(best, i, licences) ==
    LET l == licences[i]
    IN  IF l.url = "none" \/ (best # 0 /\ IsOpen(licences[best]) /\ ~IsOpen(l)) THEN best
        ELSE IF best = 0 \/ (IsOpen(l) /\ ~IsOpen(licences[best])) THEN i
        ELSE IF l.start # 0 /\ l.start <= today THEN i ELSE best
BestAt(licences) ==
    LET MarkNext(best, i) == Mark(best, i, licences)
        best == FoldLeft(MarkNext, 0, [i \in DOMAIN licences |-> i])
    IN  IF best = 0 /\ Len(licences) = 1 THEN 1 ELSE best

\* The licence sent as ali:license_ref, and the end of the embargo sent to DSpace.
LicenceRef ==
    LET licences == ByStart(note.licences)
    IN  IF BestAt(licences) # 0 /\ licences[BestAt(licences)].url # "none"
        THEN <<licences[BestAt(licences)]>> ELSE <<>>
EmbargoDate == IF note.embargo.end >= today THEN note.embargo.end ELSE 0

-----------------------------------------------------------------------------
Init ==
    /\ today = FirstDay /\ stage = "source" /\ note = NoNote
    /\ \/ source \in [kind : {"jats"}, doc : Jats] /\ defaults \in Defaults
       \/ source \in [kind : {"crossref"}, doc : Crossref]
          /\ defaults = [url |-> "none", months |-> -1]
       \/ source \in [kind : {"api"}, doc : Submitted] /\ defaults \in Defaults

Receive ==
    /\ stage = "source"
    /\ IF source.kind = "jats" /\ ~(LicencesFit(source.doc) /\ DatesFit(source.doc))
       THEN stage' = "rejected" /\ UNCHANGED note
       ELSE /\ stage' = "unrouted"
            /\ note' = CASE source.kind = "jats" -> FromJats(source.doc)
                         [] source.kind = "crossref" -> FromCrossref(source.doc)
                         [] source.kind = "api" -> source.doc
    /\ UNCHANGED <<today, source, defaults>>

Route ==
    /\ stage = "unrouted"
    /\ stage' = "routed" /\ note' = Completed(note)
    /\ UNCHANGED <<today, source, defaults>>

Tick ==
    /\ today < LastDay /\ stage \in {"unrouted", "routed"}
    /\ today' = today + 1
    /\ UNCHANGED <<stage, source, defaults, note>>

Next == Receive \/ Route \/ Tick

Spec == Init /\ [][Next]_vars

-----------------------------------------------------------------------------
(* Properties.                                                             *)

InForce(licence) == licence.start <= today
OpenNow(licences) == \E l \in Range(licences) : IsOpen(l) /\ InForce(l)
Given == source.kind = "api" /\ source.doc.embargo # NoEmbargo
EndOfDefault == AddMonths(note.published, defaults.months)

\* An embargo that Router found out for itself ends on the day that an open licence comes
\* into force, no earlier and no later, whatever the order of the licences and the day of
\* routing; so no repository is told of an open licence in force while the publisher's
\* default embargo lasts, of articles whose month of publication is known
\* (jper/routing.py, apply_licence_defaults).
EmbargoAgrees ==
    stage = "routed" /\ ~Given /\ note.published.known # "year" =>
        /\ today < note.embargo.end => ~OpenNow(note.licences)
        /\ note.embargo.end \notin {0, Never} =>
              \E l \in Range(note.licences) : l.start = note.embargo.end
        /\ EmbargoDate = 0 /\ defaults.months # 0 /\ (\E l \in Range(note.licences) : IsOpen(l)) =>
              OpenNow(note.licences)

\* The same of every article: the default embargo is also kept to if only the year of
\* publication is known (publisher_settings.html, "Default embargo").
DefaultEmbargoKept ==
    stage = "routed" /\ note.embargo.duration # 0 /\ ~Given =>
        ~OpenNow(note.licences) \/ note.embargo.end \in 1 .. today

\* The licence that repositories are told of is the best one: an open one if there is any,
\* in force if there is such a one, and of those the latest (note.py,
\* _set_best_license_flag).
BestToldOf ==
    stage = "routed" =>
        LET with == {l \in Range(note.licences) : l.url # "none"}
            opened == {l \in with : IsOpen(l)}
            from == IF opened = {} THEN with ELSE opened
            begun == {l \in from : InForce(l)}
        IN  IF with = {} THEN LicenceRef = <<>>
            ELSE /\ LicenceRef # <<>> /\ LicenceRef[1] \in from
                 /\ begun # {} => /\ LicenceRef[1] \in begun
                                  /\ \A l \in begun : l.start <= LicenceRef[1].start
                 /\ begun = {} => \A l \in from : l.start >= LicenceRef[1].start

\* The licences of a notification are those of its version, and Crossref's version is the
\* one that can be read openly first (jats.py, note.py calculate_embargo_and_best_license).
VersionAgrees ==
    stage = "unrouted" /\ note.version # "none" =>
        CASE source.kind = "jats" ->
               \A l \in Range(note.licences) : \E e \in Range(Kept(source.doc)) :
                   /\ UrlOf(e) = l.url /\ e.start = l.start
                   /\ e.use \in {"none", note.version} \/ (e.use = "VOR" /\ IsRecord(note.version))
          [] source.kind = "crossref" ->
               LET opened == {l \in Range(source.doc) : IsOpen(l) /\ l.version \in Range(Priority)}
               IN  /\ Range(note.licences) =
                         {[url |-> l.url, start |-> l.start] :
                             l \in {m \in Range(source.doc) : m.version = note.version}}
                   /\ opened # {} =>
                        LET begun == {l \in opened : l.start < FirstDay}
                            earliest == {l \in opened : \A m \in opened : l.start <= m.start}
                            among == IF begun # {} THEN begun ELSE earliest
                        IN  /\ note.version \in {l.version : l \in among}
                            /\ \A l \in among : ~Better(l.version, note.version)
          [] OTHER -> TRUE

\* Licences that all say what they are for, the same of each, are captured (jats.py,
\* get_licence_and_article_version_details: "if ALL of the licences has specific-use tagged").
TaggedAccepted ==
    source.kind = "jats" /\ stage = "rejected" /\ DatesFit(source.doc) =>
        ~\E use \in {"VOR", "AM"} :
            /\ source.doc.version \in {use, "none"}
            /\ \A e \in Range(source.doc.licences) : e.use = use

\* Publication dates of one type that contradict each other are refused (jats.py,
\* get_history_and_pub_dates: "same date-type, same date-length, but different dates").
ContradictionsRefused ==
    source.kind = "jats" /\ stage # "source" =>
        (stage = "rejected" \/ Cardinality(Range(Foremost(source.doc))) <= 1)
===============================================================================
