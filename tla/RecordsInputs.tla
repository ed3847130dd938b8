----------------------------- MODULE RecordsInputs -----------------------------
(***************************************************************************)
(* The documents that MCRecords gives to the modules that read them.       *)
(***************************************************************************)
EXTENDS Integers, Sequences, TLC

-----------------------------------------------------------------------------
(* Licences: months of two days, and the days from the second on.  Licence *)
(* elements of JATS with an address in each place, with and without a      *)
(* start and a use; dates of every type and precision.                     *)

UpTo(S, n) == UNION {[1 .. k -> S] : k \in 0 .. n}

LicenceEl(ref, href, text, start, use) ==
    [ref |-> ref, href |-> href, text |-> text, start |-> start, use |-> use]
LicenceEls ==
    {LicenceEl("open", "none", "closed", 5, "VOR"), LicenceEl("none", "none", "open", 0, "none"),
     LicenceEl("none", "closed", "open", 0, "VOR"), LicenceEl("open", "none", "none", 3, "none"),
     LicenceEl("none", "none", "none", 0, "VOR"), LicenceEl("open", "none", "none", 0, "TDM"),
     LicenceEl("closed", "none", "none", 3, "none"), LicenceEl("open", "none", "none", 4, "AM"),
     LicenceEl("open", "none", "none", 0, "odd"), LicenceEl("open", "none", "none", 6, "none"),
     LicenceEl("closed", "none", "none", 0, "P")}

Date(type, known, day) == [type |-> type, known |-> known, day |-> day]
Dates ==
    {<<>>, <<Date("ppub", "month", 3), Date("epub", "day", 2)>>,
     <<Date("epub", "month", 3), Date("epub", "month", 3), Date("epub", "month", 5)>>,
     <<Date("epub", "year", 1)>>, <<Date("other", "day", 2), Date("both", "month", 3)>>,
     <<Date("ppub", "day", 2), Date("ppub", "day", 4)>>, <<Date("ppub", "wrong", 2)>>}

JatsDocs ==
    [licences : UpTo(LicenceEls, 2), version : {"none", "VOR", "AM", "EVOR"},
     dates : {<<>>, <<Date("epub", "day", 2)>>}, history : {<<>>}]
    \cup [licences : {<<>>}, version : {"none"}, dates : Dates, history : Dates]

CrossrefRecords ==
    UpTo([url : {"open", "closed"}, start : {0, 3, 5},
          version : {"VOR", "EVOR", "AM", "other"}], 2)
    \cup UpTo([url : {"open"}, start : {0, 3, 5}, version : {"VOR", "EVOR", "AM"}], 3)

EmbargoOf(end, duration) == [start |-> 0, end |-> end, duration |-> duration]
SubmittedDocs ==
    [via : {"api"}, version : {"none"},
     licences : UpTo([url : {"open", "closed", "none"}, start : {0, 3, 5}], 2),
     embargo : {EmbargoOf(0, 0), EmbargoOf(4, 0), EmbargoOf(0, 1), EmbargoOf(2, 0)},
     published : {[day |-> 0, known |-> "none"], [day |-> 2, known |-> "day"],
                  [day |-> 3, known |-> "month"], [day |-> 1, known |-> "year"]}]

-----------------------------------------------------------------------------
(* NoteMerge: authors with affiliations at up to three organisations, some of them more   *)
(* than once or without a name.                                            *)

Aff(org, city, ids, raw) ==
    [org |-> org, city |-> city, postcode |-> "none", ids |-> ids, raw |-> raw]
At(org) == Aff(org, "none", {}, {})
Author(first, orcid, emails, affs) ==
    [surname |-> "Noether", first |-> first, orcids |-> {orcid}, emails |-> emails, affs |-> affs]
Article(authors) ==
    [title |-> "none", status |-> "none", subjects |-> {},
     date |-> [date |-> "none", format |-> "none"], idents |-> <<>>, authors |-> authors,
     funding |-> <<>>]

\* Lists of organisations; what is known of one; addresses in the texts of several.
Orgs == UpTo({At(o) : o \in 1 .. 3}, 3) \cup UpTo({At(0), At(1), At(2)}, 2)
Known ==
    UpTo({Aff(1, c, i, r) : c \in {"none", "x", "y"}, i \in {{}, {"ror"}}, r \in {{}, {"t", "zip"}}}, 1)
    \cup {<<Aff(2, "x", {}, {}), At(1)>>, <<At(1), Aff(1, "x", {}, {"u"})>>}
Addresses == UpTo({Aff(o, "none", {}, r) : o \in {1, 2}, r \in {{"e1"}, {"e1", "e2"}, {"t"}}}, 2)
WithFacts(article, date, type, id, grants) ==
    [article EXCEPT !.title = date, !.date = [date |-> date, format |-> "none"],
                    !.idents = <<[type |-> type, id |-> id]>>,
                    !.funding = <<[ids |-> {"funder"}, grants |-> grants]>>]

OneAuthor(first, lists) == {Article(<<Author(first, "o1", {}, affs)>>) : affs \in lists}
Dated(d, type, id, grants) == WithFacts(Article(<<>>), d, type, id, grants)
MergeSources ==
    UNION {OneAuthor("E", lists) \X OneAuthor("none", lists) : lists \in {Orgs, Known}}
    \cup {Article(<<Author("E", "o1", emails, affs), Author("M", "o2", {}, <<>>)>>) :
             emails \in {{}, {"e3"}}, affs \in Addresses}
      \X {Article(<<Author("M", o, {"e4"}, <<>>), Author("none", "o1", {}, affs)>>) :
             o \in {"o2", "o3"}, affs \in Addresses}
    \cup {Dated(d, "doi", "i1", {"g1"}) : d \in {"none", "d1"}}
      \X {Dated(d, t, i, g) : d \in {"none", "d1", "d2"}, t \in {"doi", "pmid"}, i \in {"i1", "i2"},
                              g \in {{"g1"}, {"g1", "g2"}}}

-----------------------------------------------------------------------------
(* JatsContribs: affiliations of a group and outside of groups, with ids and without, two *)
(* contributors with every kind of reference; or a group within another.   *)
AffEl(id, text) == [id |-> id, text |-> text, emails |-> {text}]
Contrib(name, kind, affs, xrefs, mail) ==
    [name |-> name, kind |-> kind, corresp |-> FALSE, emails |-> {}, affs |-> affs,
     xrefs |-> xrefs, mail |-> mail, untyped |-> FALSE]
Untyped(contrib) == [contrib EXCEPT !.untyped = TRUE]
GroupOf(affs, contribs, inside) == [affs |-> affs, contribs |-> contribs, inside |-> inside]
JatsDoc(affs, groups) ==
    [affs |-> affs, groups |-> groups, corresp |-> [rid \in {"c"} |-> {"noether@", "office@"}]]
OuterAffs == {<<>>, <<AffEl("none", "town")>>, <<AffEl("y", "city"), AffEl("x", "hill")>>}
GroupAffs == {<<>>, <<AffEl("none", "hall")>>, <<AffEl("x", "lab")>>,
              <<AffEl("none", "hall"), AffEl("x", "lab"), AffEl("x", "den")>>}
ContribDocs ==
    {JatsDoc(outer,
        <<GroupOf(affs, <<Contrib("noether", k, own, xrefs, <<"c">>),
                          Contrib("artin", "author", <<>>, refs, mail)>>, <<0, 0>>)>>) :
        outer \in OuterAffs, affs \in GroupAffs, own \in {<<>>, <<AffEl("z", "home")>>},
        xrefs \in {<<>>, <<"x", "x">>, <<"y", "z">>}, refs \in {<<>>, <<"x">>, <<"y">>},
        mail \in {<<>>, <<"c">>}, k \in {"author", "other"}}
    \cup
    {JatsDoc(outer,
        <<GroupOf(affs, <<Contrib("none", k, <<>>, <<>>, <<"c">>),
                          Contrib("artin", "author", <<>>, <<"x">>, <<>>)>>, <<0, 0>>),
          GroupOf(inner, <<Contrib("noether", "none", <<>>, <<"x">>, <<"c">>),
                           Contrib("artin", "none", <<>>, <<>>, <<>>)>>, <<1, 1>>)>>) :
        outer \in OuterAffs, affs \in GroupAffs, inner \in {<<>>, <<AffEl("none", "team")>>},
        k \in {"author", "other"}}
    \cup
    {JatsDoc(<<>>,
        <<GroupOf(<<AffEl("none", "hall")>>,
                  <<Contrib("artin", "author", <<>>, <<>>, <<>>),
                    Untyped(Contrib("none", k, <<>>, <<>>, <<>>))>>, <<0, 0>>),
          GroupOf(<<>>, <<Contrib("noether", "none", <<>>, <<>>, <<>>)>>, <<1, 2>>)>>) :
        k \in {"author", "other"}}

-----------------------------------------------------------------------------
(* JatsElements: parts in one another and in formatted text, before and    *)
(* behind text of their own; awards of which something is said twice.      *)

El(tag, key, text, kids, tail) ==
    [tag |-> tag, key |-> key, text |-> text, kids |-> kids, tail |-> tail]
Parts ==
    {El("append", "org", <<"uni">>, <<>>, tail) : tail \in {<<>>, <<"after_uni">>}}
    \cup {El("set", "city", <<"rome">>, <<>>, tail) : tail \in {<<>>, <<"after_rome">>}}
    \cup {El("append", "org", <<"lab">>, <<>>, <<"after_lab">>),
          El("email", "none", <<"e1">>, <<>>, <<"after_e1">>),
          El("id", "ROR", <<"ror">>, <<>>, <<>>), El("id", "none", <<"odd">>, <<>>, <<>>),
          El("id", "GRID", <<"grid">>, <<>>, <<"after_grid">>),
          El("skip", "none", <<"one">>, <<>>, <<"after_one">>)}
Bold(kids, tail) == El("format", "none", <<"bold">>, kids, tail)
Formatted ==
    {Bold(kids, <<"after_bold">>) : kids \in UpTo(Parts, 1)}
    \cup {El("set", "state", <<"lazio">>, <<Bold(<<>>, <<"tail">>)>>, <<"after_lazio">>)}
AffElements ==
    {El("aff", "none", text, kids, <<>>) :
        text \in {<<>>, <<"first">>}, kids \in UpTo(Parts \cup Formatted, 2)}
    \cup {El("aff", "none", <<>>, kids, <<>>) : kids \in [1 .. 3 -> Parts]}

Named(id, type, name) == [id |-> id, type |-> type, name |-> name]
AwardGroups ==
    UpTo([given : {TRUE}, source : UpTo({Named("i1", "none", "n"), Named("i1", "ror", "none"),
                         Named("url", "none", "none"), Named("url", "fundref", "none"),
                         Named("none", "none", "n")}, 2),
          numbers : {<<"g">>}]
         \cup [given : {FALSE}, source : {<<>>}, numbers : {<<"h">>}], 2)
-----------------------------------------------------------------------------
(* NoteContent: archives of a publisher's format or another, with PDF      *)
(* files, and links to PDF files elsewhere.                                *)

File(name, kind) == [name |-> name, kind |-> kind]
NoArchive == [format |-> "none", files |-> <<>>]
Archives ==
    {NoArchive, [format |-> "simple", files |-> <<File("a.pdf", "pdf")>>],
     [format |-> "jats", files |-> <<File("a.xml", "xml"), File("j.xml", "jats"),
                                     File("a.pdf", "pdf"), File("b.PDF", "PDF")>>],
     [format |-> "jats", files |-> <<File("b.xml", "broken"), File("j.xml", "jats")>>]}
LinksToPdfs == {<<>>, <<[url |-> "u", named |-> FALSE], [url |-> "v", named |-> TRUE]>>}
PackagingsOfTwo ==
    {[r \in {"r1", "r2"} |-> IF r = "r1" THEN "simple" ELSE "unpacked"],
     [r \in {"r1", "r2"} |-> IF r = "r1" THEN "none" ELSE "simple"]}

(* NoteVersions: two authors with affiliations of either version or both,  *)
(* and identifiers of funders with more and less of their URIs.            *)

UriOfTypes == [doi |-> [domain |-> "doi.org", first |-> "none"],
               fundref |-> [domain |-> "doi.org", first |-> "10.13039"]]
AffDict(raw, pieces) == [raw |-> raw, parts |-> pieces]
SentAuthors ==
    [affiliation : {<<>>, <<"x">>},
     affiliations : {<<>>, <<AffDict(<<"y">>, <<>>)>>,
                     <<AffDict(<<>>, <<"org", "city">>), AffDict(<<"y">>, <<"org">>)>>}]
Ident(type, id) == [type |-> type, id |-> id]
Idents ==
    <<Ident("fundref", <<"501">>), Ident("fundref", <<"10.13039", "501">>), Ident("odd", <<"1">>),
      Ident("fundref", <<"doi.org", "10.13039", "501">>), Ident("doi", <<"501">>)>>
SentVersions ==
    [vers : {"v3", "v4"}, fields : {{"created", "type", "peer_reviewed", "provider.id", "doi"}},
     pages : {"none", "1-2"}, e_num : {"none", "e1"},
     authors : {<<a, b>> : a \in SentAuthors, b \in SentAuthors}, funding : {<<>>, Idents}]

(* ApiRequests: lists and single notifications, valid and not, of accounts  *)
(* of every kind.                                                          *)

Listed(id, doc, valid) == [id |-> id, doc |-> doc, valid |-> valid]
Good1 == Listed("i1", "d1", TRUE)
Good2 == Listed("i2", "d2", TRUE)
Bad == Listed("i3", "d3", FALSE)
NotObject == Listed("none", "none", FALSE)
Ask(what, acc, items) == [what |-> what, acc |-> acc, items |-> items]
AskedFor ==
    {Ask("list", "publisher", items) : items \in {<<Good1, Bad, Good2>>, <<Good1, Good2, NotObject>>,
                                                 <<Bad, Good1>>, <<>>}}
    \cup {Ask("single", "publisher", <<item>>) :
              item \in {Good1, NotObject, Listed("none", "empty", FALSE)}}
    \cup {Ask("list", "admin", <<Good1, Bad>>), Ask("list", "in_test", <<Good1>>)}
    \cup {Ask("single", acc, <<Good2>>) : acc \in {"admin", "anonymous", "repository", "inactive"}}
    \cup {Ask("validate", "in_test", <<item>>) : item \in {Good1, Bad, Listed("none", "array", FALSE)}}
    \cup {Ask("validate_list", "publisher", <<Bad, Good1>>)}
OneAsked == Ask("list", "publisher", <<>>)
-----------------------------------------------------------------------------
(* SubmissionChecks: a submission in which nothing is wrong, and the ways  *)
(* in which others differ from it, up to two at a time.                    *)

Txt(text) == [is |-> "text", of |-> text]
Padded(text) == [is |-> "padded", of |-> text]
Dict(obj) == [is |-> "dict", of |-> obj]
ListOf(values) == [is |-> "list", of |-> values]
Texts(keys) == [k \in keys |-> Txt(k)]
Id(type, id) == Dict([type |-> Txt(type), id |-> Txt(id)])

GoodAffs == ListOf(<<Dict(Texts({"city", "country"}) @@ ("org" :> Txt("University")))>>)
GoodAuthor(type) ==
    Dict([type |-> Txt(type), name |-> Dict(Texts({"firstname", "surname"})),
          identifier |-> ListOf(<<Id("orcid", "1"), Id("email", "2")>>), affiliations |-> GoodAffs])
Licensed(url, start) == Dict([url |-> url, start |-> start])
GoodSubmission ==
    Dict([event |-> Txt("published"), publication_status |-> Txt("Published"),
          accepted_date |-> Txt("2024-05-06"), ack |-> Txt("thanks"),
          journal |-> Dict(Texts({"title", "volume", "issue"})
                           @@ [publisher |-> ListOf(<<Txt("p")>>), identifier |-> ListOf(<<Id("issn", "3")>>)]),
          article |-> Dict(Texts({"title", "type", "page_range", "start_page", "end_page"})
                           @@ [version |-> Txt("VOR"), language |-> ListOf(<<Txt("en")>>),
                               identifier |-> ListOf(<<Id("pmid", "4"), Id("doi", "10.1/X")>>)]),
          author |-> ListOf(<<GoodAuthor("corresp"), GoodAuthor("author")>>),
          license_ref |-> ListOf(<<Licensed(Txt("open"), Txt("2024-05-06"))>>),
          publication_date |-> Dict([date |-> Txt("2024-05-06"), year |-> Txt("2024"),
                                     month |-> Txt("05"), day |-> Txt("06")])])

Gone == [is |-> "gone"]
Without(obj, key) == [k \in DOMAIN obj \ {key} |-> obj[k]]
RECURSIVE Put(_, _, _)
Put(v, path, new) ==
    IF path = <<>> THEN new
    ELSE LET key == path[1]
             old == IF key \in DOMAIN v.of THEN v.of[key] ELSE [is |-> "none"]
         IN  IF Len(path) = 1 /\ new.is = "gone" THEN [v EXCEPT !.of = Without(v.of, key)]
             ELSE [v EXCEPT !.of = (key :> Put(old, Tail(path), new)) @@ v.of]

Change(path, new) == [path |-> path, new |-> new]
Changes ==
    <<Change(<<>>, GoodSubmission),
      Change(<<"author", 1, "type">>, Txt("corresp author")),
      Change(<<"author", 1, "type">>, Padded("corresp")),
      Change(<<"author", 2, "type">>, Txt("editor")),
      Change(<<"author", 1, "identifier">>, ListOf(<<>>)),
      Change(<<"author", 2, "identifier">>, ListOf(<<Id("orcid", "1"), Id("orcid", "5")>>)),
      Change(<<"author", 2, "identifier">>, Gone),
      Change(<<"author", 2, "name", "firstname">>, Gone),
      Change(<<"author", 2, "name">>, Dict(Texts({"fullname"}))),
      Change(<<"author", 2, "name">>, Gone),
      Change(<<"author", 2, "organisation_name">>, Txt("team")),
      Change(<<"author", 2, "affiliation">>, Txt("as in version 3")),
      Change(<<"author", 1, "affiliations", 1, "org">>, Padded("Department, University")),
      Change(<<"author", 1, "affiliations", 1, "city">>, Padded("")),
      Change(<<"author", 1, "affiliations">>, ListOf(<<>>)),
      Change(<<"author">>, ListOf(<<>>)),
      Change(<<"article", "identifier", 1>>, Id("doi", "5")),
      Change(<<"article", "identifier", 2, "type">>, Padded("doi")),
      Change(<<"article", "identifier", 1, "type">>, Gone),
      Change(<<"article", "identifier", 2, "id">>, Gone),
      Change(<<"article", "version">>, Txt("AO")),
      Change(<<"article", "page_range">>, Gone),
      Change(<<"article", "start_page">>, Gone),
      Change(<<"article", "e_num">>, Txt("e1")),
      Change(<<"article", "language">>, ListOf(<<>>)),
      Change(<<"accepted_date">>, Txt("2024-05")),
      Change(<<"journal", "publisher">>, ListOf(<<Txt("p"), Padded("")>>)),
      Change(<<"journal", "volume">>, Gone),
      Change(<<"license_ref", 2>>, Licensed(Txt("closed"), Txt(""))),
      Change(<<"license_ref", 2>>, Licensed(Txt("open"), Txt("soon"))),
      Change(<<"license_ref", 1, "start">>, Gone),
      Change(<<"license_ref", 1, "url">>, Gone),
      Change(<<"license_ref", 1, "best">>, Txt("true")),
      Change(<<"license_ref">>, ListOf(<<Licensed(Txt("open"), Txt("2024-05-06"))>>
                                      \o [i \in 1 .. 2 |-> Licensed(Txt("closed"), Txt(""))])),
      Change(<<"publication_date", "date">>, Txt("2024-05")),
      Change(<<"publication_date", "date">>, Txt("soon")),
      Change(<<"publication_date", "date">>, Gone),
      Change(<<"publication_date", "month">>, Txt("5")),
      Change(<<"publication_date", "day">>, Gone),
      Change(<<"publication_date">>, Gone),
      Change(<<"publication_status">>, Txt("Submitted")),
      Change(<<"event">>, Gone),
      Change(<<"funding">>, ListOf(<<Dict(Texts({"name", "grant_numbers"})), Dict(Texts({"grant_numbers"}))>>)),
      Change(<<"contributor">>, ListOf(<<GoodAuthor("editor"), Dict(Texts({"organisation_name"}))>>))>>

ChangePairs == {p \in (1 .. Len(Changes)) \X (1 .. Len(Changes)) : p[1] < p[2]}
SubmittedWith(p) ==
    LET a == Changes[p[1]]
        b == Changes[p[2]]
    IN  Put(Put(GoodSubmission, a.path, a.new), b.path, b.new)
===============================================================================
