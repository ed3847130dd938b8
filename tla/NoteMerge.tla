------------------------------- MODULE NoteMerge -------------------------------
(***************************************************************************)
(* What Router knows of an article when its metadata came twice: in the    *)
(* request of the API and in the JATS file of the package sent with it.    *)
(* The second enhances the first (UnroutedNotification.enhance), authors   *)
(* get the e-mail addresses found in their affiliations                    *)
(* (add_affiliation_email_identifiers), and the result is what matching    *)
(* looks at (match_data); all in shared/models/note.py, called from        *)
(* jper/api.py.                                                            *)
(*                                                                         *)
(* Names of organisations are numbers, in the order of the alphabet, and 0 *)
(* is a name that is missing.  A raw affiliation is the set of what can be *)
(* found in its text, and {} is one that is missing.                       *)
(***************************************************************************)
EXTENDS Integers, FiniteSets, Sequences, SequencesExt

CONSTANTS
    Sources,       \* pairs of metadata: of a request, and of its package
    Email, Postcode   \* what in an affiliation's text is an e-mail address, or a postcode

MergeAssumption == Email \cap Postcode = {}

VARIABLES
    stage,         \* "received", "refused", "enhanced" or "unrouted"
    base, extra,   \* what came
    note           \* the notification

vars == <<stage, base, extra, note>>

None == "none"
AffFields == {"city", "postcode"}

TypeOK ==
    /\ stage \in {"received", "refused", "enhanced", "unrouted"}
    /\ DOMAIN note = {"title", "status", "subjects", "date", "idents", "authors", "funding"}
    /\ \A i \in DOMAIN note.authors :
          /\ DOMAIN note.authors[i] = {"surname", "first", "orcids", "emails", "affs"}
          /\ \A k \in DOMAIN note.authors[i].affs :
                DOMAIN note.authors[i].affs[k] = {"org", "city", "postcode", "ids", "raw"}

-----------------------------------------------------------------------------
(* Flat dictionaries and lists of them.                                    *)

Enhanced(curr, new, keys) ==
    [k \in DOMAIN curr |-> IF k \in keys /\ curr[k] = None THEN new[k] ELSE curr[k]]
Clash(curr, new, keys) ==
    \E k \in keys : curr[k] # None /\ new[k] # None /\ curr[k] # new[k]

\* Identifiers [type, id]: those of a type that is already there must agree, others are
\* added.  All the new ones are compared with the list as it was.
KnownType(curr, ident) == \E i \in DOMAIN curr : curr[i].type = ident.type
WithIdents(curr, new) ==
    IF curr = <<>> THEN new ELSE curr \o SelectSeq(new, LAMBDA ident : ~KnownType(curr, ident))
IdentsClash(curr, new) ==
    \E i \in DOMAIN new : KnownType(curr, new[i]) /\
        curr[SelectInSeq(curr, LAMBDA c : c.type = new[i].type)].id # new[i].id

-----------------------------------------------------------------------------
(* Affiliations of one person, in both sources.                            *)

ByOrg(affs) == SortSeq(affs, LAMBDA a, b : a.org < b.org)
Named(affs) == \A i \in DOMAIN affs : affs[i].org # 0

\* Mutant: after a pair only the new list is moved on.
WalkOn(orig, new) ==
    LET n == Len(orig)
        m == Len(new)
        walk[i \in 1 .. n + 1, j \in 1 .. m + 1] ==
            IF j > m THEN <<>>
            ELSE IF i > n \/ new[j].org < orig[i].org THEN <<<<0, j>>>> \o walk[i, j + 1]
            ELSE IF new[j].org = orig[i].org THEN <<<<i, j>>>> \o walk[i, j + 1]
            ELSE walk[i + 1, j]
    IN  walk[1, 1]

\* The two sorted lists are walked through together: a pair of positions says that the
\* affiliation is in both, <<0, j>> that the j-th of the new ones is to be added.
Walk(orig, new) ==
    LET n == Len(orig)
        m == Len(new)
        walk[i \in 1 .. n + 1, j \in 1 .. m + 1] ==
            IF j > m THEN <<>>
            ELSE IF i > n \/ new[j].org < orig[i].org THEN <<<<0, j>>>> \o walk[i, j + 1]
            ELSE IF new[j].org = orig[i].org THEN <<<<i, j>>>> \o walk[i + 1, j + 1]
            ELSE walk[i + 1, j]
    IN  walk[1, 1]

Paired(orig, new, i) == {p[2] : p \in {q \in Range(Walk(orig, new)) : q[1] = i}}

\* Identifiers of the organisation are merged if both have some.
MergedAff(a, b) ==
    [Enhanced(a, b, AffFields) EXCEPT
        !.raw = IF a.raw = {} THEN b.raw ELSE a.raw,
        !.ids = IF a.ids # {} /\ b.ids # {} THEN a.ids \cup b.ids ELSE a.ids]
AffsClash(a, b) ==
    Clash(a, b, AffFields) \/ (a.raw # {} /\ b.raw # {} /\ a.raw # b.raw)

MergedAffs(affs, others) ==
    IF others = <<>> THEN affs
    ELSE IF affs = <<>> THEN others
    ELSE IF ~Named(others) THEN affs \o others
    ELSE IF ~Named(affs) THEN affs \o ByOrg(others)
    ELSE LET orig == ByOrg(affs)
             new == ByOrg(others)
             added == SelectSeq(Walk(orig, new), LAMBDA p : p[1] = 0)
         IN  [i \in DOMAIN orig |->
                 IF Paired(orig, new, i) = {} THEN orig[i]
                 ELSE MergedAff(orig[i], new[CHOOSE j \in Paired(orig, new, i) : TRUE])]
             \o [k \in DOMAIN added |-> new[added[k][2]]]
SomeAffsClash(affs, others) ==
    /\ affs # <<>> /\ others # <<>> /\ Named(affs) /\ Named(others)
    /\ \E p \in Range(Walk(ByOrg(affs), ByOrg(others))) :
          p[1] # 0 /\ AffsClash(ByOrg(affs)[p[1]], ByOrg(others)[p[2]])

-----------------------------------------------------------------------------
(* Authors.                                                                *)

\* The same surname and an ORCID in common.
SamePerson(p, q) ==
    p.surname # None /\ p.surname = q.surname /\ p.orcids \cap q.orcids # {}
Counterpart(authors, q) == SelectInSeq(authors, LAMBDA p : SamePerson(p, q))

MergedPerson(p, q) ==
    [p EXCEPT !.orcids = @ \cup q.orcids, !.emails = @ \cup q.emails,
              !.affs = MergedAffs(@, q.affs), !.first = IF @ = None THEN q.first ELSE @]

\* One after the other the new authors are merged into their counterparts; then those who
\* have none are added.
MergedInto(authors, q) ==
    LET i == Counterpart(authors, q)
    IN  IF i = 0 THEN authors ELSE [authors EXCEPT ![i] = MergedPerson(@, q)]
MergedAuthors(authors, others) ==
    FoldLeft(MergedInto, authors, others)
        \o SelectSeq(others, LAMBDA q : Counterpart(authors, q) = 0)
\* Whether the merge of others[k] meets a contradiction.
PersonClash(authors, others, k) ==
    LET sofar == FoldLeft(MergedInto, authors, SubSeq(others, 1, k - 1))
        i == Counterpart(sofar, others[k])
    IN  i # 0 /\ SomeAffsClash(sofar[i].affs, others[k].affs)

\* Grants [ids, grants] that have the same numbers and an identifier in common are the same.
SameFunding(f, g) == f.grants # {} /\ f.grants = g.grants /\ f.ids \cap g.ids # {}
MergedFunding(curr, new) ==
    curr \o SelectSeq(new, LAMBDA g : \A i \in DOMAIN curr : ~SameFunding(curr[i], g))

-----------------------------------------------------------------------------
DateParts == {"date", "format"}

\* Single texts are taken over if there is none, the status in any case.

MergedNote(b, e) ==
    [title |-> IF b.title = None THEN e.title ELSE b.title,
     status |-> IF e.status # None THEN e.status ELSE b.status,
     subjects |-> b.subjects \cup e.subjects,
     date |-> Enhanced(b.date, e.date, DateParts), idents |-> WithIdents(b.idents, e.idents),
     authors |-> MergedAuthors(b.authors, e.authors), funding |-> MergedFunding(b.funding, e.funding)]
Contradictory(b, e) ==
    \/ Clash(b.date, e.date, DateParts)
    \/ b.idents # <<>> /\ IdentsClash(b.idents, e.idents)
    \/ \E k \in DOMAIN e.authors : PersonClash(b.authors, e.authors, k)

Init ==
    /\ stage = "received" /\ (\E s \in Sources : base = s[1] /\ extra = s[2]) /\ note = base

\* All contradictions are collected; if there is one, the submission is refused.
Enhance ==
    /\ stage = "received"
    /\ IF Contradictory(base, extra) THEN stage' = "refused" /\ UNCHANGED note
                                     ELSE stage' = "enhanced" /\ note' = MergedNote(base, extra)
    /\ UNCHANGED <<base, extra>>

\* An address that is found in one affiliation only goes to its author, unless there is an
\* address already.  The first pass goes through the affiliations in order and remembers
\* which addresses it met, and which it met again.
FoundIn(authors) ==
    FlattenSeq([i \in DOMAIN authors |->
        [k \in DOMAIN authors[i].affs |-> <<i, authors[i].affs[k].raw \cap Email>>]])
Repeated(found) ==
    LET Met(r, f) == [once |-> r.once \cup f[2], again |-> r.again \cup (r.once \cap f[2])]
    IN  FoldLeft(Met, [once |-> {}, again |-> {}], found).again
WithEmails(authors) ==
    LET found == FoundIn(authors)
        Own(i) == UNION {f[2] : f \in {g \in Range(found) : g[1] = i}}
    IN  [i \in DOMAIN authors |->
            IF authors[i].emails # {} THEN authors[i]
            ELSE [authors[i] EXCEPT !.emails = Own(i) \ Repeated(found)]]

AddEmails ==
    /\ stage = "enhanced"
    /\ stage' = "unrouted" /\ note' = [note EXCEPT !.authors = WithEmails(@)]
    /\ UNCHANGED <<base, extra>>

Next == Enhance \/ AddEmails

Spec == Init /\ [][Next]_vars

-----------------------------------------------------------------------------
(* What matching looks at.                                                 *)

\* The raw text if there is one, or else the parts (without postcode and identifiers).
AffText(a) == IF a.raw # {} THEN a.raw ELSE {ToString(a.org), a.city} \ {"0", None}
AffPostcodes(a) == IF a.raw # {} THEN a.raw \cap Postcode ELSE {a.postcode} \ {None}

AffsOf(n) == UNION {Range(n.authors[i].affs) : i \in DOMAIN n.authors}
MatchData(n) ==
    [texts |-> {AffText(a) : a \in AffsOf(n)},
     postcodes |-> UNION {AffPostcodes(a) : a \in AffsOf(n)},
     org_ids |-> UNION {a.ids : a \in AffsOf(n)},
     emails |-> UNION {n.authors[i].emails : i \in DOMAIN n.authors},
     orcids |-> UNION {n.authors[i].orcids : i \in DOMAIN n.authors},
     grants |-> UNION {n.funding[i].grants : i \in DOMAIN n.funding}]

-----------------------------------------------------------------------------
(* Properties.                                                             *)

Count(S) == Cardinality(S)
CountOrg(affs, org) == Count({i \in DOMAIN affs : affs[i].org = org})
Larger(x, y) == IF x > y THEN x ELSE y
OrgsOf(affs) == {a.org : a \in Range(affs)}
Values(affs, org) ==
    LET of(field, none) == {<<field, a[field]>> : a \in {b \in Range(affs) : b.org = org}}
                              \ {<<field, none>>}
    IN  of("city", None) \cup of("postcode", None) \cup of("raw", {})
CounterpartsOf(p) == {j \in DOMAIN extra.authors : SamePerson(p, extra.authors[j])}
Merged == stage \in {"enhanced", "unrouted"}

\* The authors of the request stay in their places and keep what they had, and every
\* author of the package is merged into one with the same name and ORCID, or added.
AuthorsKept ==
    Merged =>
        /\ \A i \in DOMAIN base.authors :
              LET p == base.authors[i]
                  r == note.authors[i]
              IN  /\ r.surname = p.surname /\ p.orcids \subseteq r.orcids /\ p.emails \subseteq r.emails
                  /\ p.first # None => r.first = p.first
        /\ \A q \in Range(extra.authors) : \E r \in Range(note.authors) :
              /\ r.surname = q.surname /\ q.orcids \subseteq r.orcids /\ q.emails \subseteq r.emails
        /\ Len(note.authors) = Len(base.authors) +
              Count(DOMAIN extra.authors \ UNION {CounterpartsOf(p) : p \in Range(base.authors)})

\* So is all else: what the request says is not replaced, identifiers of a type and grants
\* are not doubled.
FactsMerged ==
    Merged =>
        /\ base.title # None => note.title = base.title
        /\ \A k \in DateParts : {base.date[k], extra.date[k]} \ {None} \subseteq {note.date[k]}
        /\ Range(note.idents) = Range(base.idents) \cup Range(extra.idents)
        /\ \A i, j \in DOMAIN note.idents : i # j => note.idents[i].type # note.idents[j].type
        /\ \A i, j \in DOMAIN note.funding : i # j => note.funding[i] # note.funding[j]
        /\ UNION {f.grants : f \in Range(note.funding)} =
              UNION {f.grants : f \in Range(base.funding \o extra.funding)}

\* Of an author that both sources have, each organisation is there as often as in the
\* source that has it more often, with the values that either of them has.
OrganisationsMerged ==
    Merged =>
        \A i \in DOMAIN base.authors, j \in DOMAIN extra.authors :
            LET p == base.authors[i].affs
                q == extra.authors[j].affs
                r == note.authors[i].affs
            IN  CounterpartsOf(base.authors[i]) = {j} =>
                   /\ Named(p) /\ Named(q) =>
                         \A org \in OrgsOf(p) \cup OrgsOf(q) \cup OrgsOf(r) :
                             CountOrg(r, org) = Larger(CountOrg(p, org), CountOrg(q, org))
                   /\ \A org \in OrgsOf(p) \cup OrgsOf(q) :
                         Values(p, org) \cup Values(q, org) = Values(r, org)

\* A submission is refused if and only if its sources contradict each other: in a part
\* of the date, the identifier of a type, or an organisation that the same author has
\* once in each.
RefusedIfContradictory ==
    stage # "received" =>
        LET dates == {k \in DateParts : None \notin {base.date[k], extra.date[k]}}
            Differ(v, w, none) == v # w /\ v # none /\ w # none
            Once(affs, a) == Named(affs) /\ CountOrg(affs, a.org) = 1
            clash ==
                \/ \E k \in dates : base.date[k] # extra.date[k]
                \/ \E x \in Range(base.idents), y \in Range(extra.idents) :
                      x.type = y.type /\ x.id # y.id
                \/ \E p \in Range(base.authors), q \in Range(extra.authors) :
                      /\ SamePerson(p, q)
                      /\ \E a \in Range(p.affs), b \in Range(q.affs) :
                            /\ a.org = b.org /\ Once(p.affs, a) /\ Once(q.affs, b)
                            /\ \/ Differ(a.city, b.city, None) \/ Differ(a.raw, b.raw, {})
                               \/ Differ(a.postcode, b.postcode, None)
            plain == \A p \in Range(base.authors) \cup Range(extra.authors) :
                        Count(OrgsOf(p.affs)) = Len(p.affs)
        IN  /\ clash => stage = "refused"
            /\ stage = "refused" /\ plain => clash

\* No author gets an e-mail address that is somebody else's: only one that is in no other
\* affiliation, and only an author who had none (add_affiliation_email_identifiers).
EmailsOwn ==
    stage = "unrouted" =>
        LET authors == MergedAuthors(base.authors, extra.authors)
            With(p, e) == {k \in DOMAIN p.affs : e \in p.affs[k].raw}
            Found(e) == {i \in DOMAIN authors : With(authors[i], e) # {}}
        IN  \A i \in DOMAIN authors :
                note.authors[i].emails =
                    IF authors[i].emails # {} THEN authors[i].emails
                    ELSE {e \in Email : Found(e) = {i} /\ Count(With(authors[i], e)) = 1}

\* What would have matched the one or the other of the sources matches the notification
\* (_merge_contrib: "A merge combines *unique* identifiers into a longer list").
MatchDataKept ==
    Merged => \A n \in {base, extra} : \A k \in DOMAIN MatchData(n) :
                  MatchData(n)[k] \subseteq MatchData(note)[k]
===============================================================================
