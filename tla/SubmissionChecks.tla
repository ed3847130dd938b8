---------------------------- MODULE SubmissionChecks ----------------------------
(***************************************************************************)
(* What is checked of the metadata of a submission (validate_metadata of   *)
(* jper/pub_testing.py): whether its fields are there, have a value and an *)
(* allowed one, and what is asked of identifiers, people, dates, licences  *)
(* and page numbers.  What is found is an error, an issue or information;  *)
(* of the messages only where they belong and what they say is kept, the   *)
(* same message about several objects of a list being one.  metadata.x is  *)
(* called x.  The types of values are those that NotificationMetadata      *)
(* enforces (shared/models/note.py).                                       *)
(***************************************************************************)
EXTENDS Naturals, Sequences, FiniteSets, TLC

CONSTANTS
    Docs,       \* the submissions, in a sequence
    Terms,      \* of publishers: route, before or upon publication, default licence
    DateParts,  \* parts of a date, by its text
    ValidParts, \* texts that are years, months and days
    OrgOf,      \* what is looked for in names of organisations, by text
    OpenUrls,   \* addresses of open licences
    LowerOf     \* texts in lower case

VARIABLES note, terms, stage, found, doi

vars == <<note, terms, stage, found, doi>>

-----------------------------------------------------------------------------
(* Values as they are in JSON.  A padded text stands in white space.       *)

None == [is |-> "none"]

Given(obj, key) == IF key \in DOMAIN obj THEN obj[key] ELSE None

Get(doc, path) ==
    LET v == Given(doc.of, path[1])
    IN  IF Len(path) = 1 \/ v.is = "none" THEN v ELSE Given(v.of, path[2])

Stripped(v) == IF v.is = "padded" THEN [is |-> "text", of |-> v.of] ELSE v

IsText(v, text) == v.is = "text" /\ v.of = text

\* Python's not v.
Empty(v) ==
    \/ v.is = "none"
    \/ IsText(v, "")
    \/ v.is = "list" /\ v.of = <<>>
    \/ v.is = "dict" /\ DOMAIN v.of = {}

IsListOfObjects(v) == v.is = "list" /\ v.of # <<>> /\ v.of[1].is = "dict"

Objects(v) == IF IsListOfObjects(v) THEN [i \in DOMAIN v.of |-> v.of[i].of] ELSE <<>>

\* The places of a list whose objects have a key with this value (star_dict).
With(v, key, text) ==
    {i \in DOMAIN Objects(v) : IsText(Stripped(Given(Objects(v)[i], key)), text)}

-----------------------------------------------------------------------------
(* Rules: what is asked of a value, and how necessary it is: "m" mandatory, *)
(* "d" desirable, "o" optional.                                            *)

Anything == [by |-> "any"]
OneOf(values) == [by |-> "one of", values |-> values]
Function(name) == [by |-> "function", name |-> name]
Keys(keys) == [by |-> "keys", keys |-> keys]

Rule(need, rule) == [need |-> need, rule |-> rule]
Each(need, keys) == [k \in keys |-> Rule(need, Anything)]
Field(key, need, rule) == [k \in {key} |-> Rule(need, rule)]

Identifiers == Keys(Each("m", {"type", "id"}))

Name == Keys(Each("m", {"firstname", "surname"}) @@ Each("o", {"fullname", "suffix"}))

AuthorAffiliation ==
    Keys(Field("org", "m", Function("org")) @@ Each("m", {"city", "country"})
         @@ Each("d", {"dept", "street", "postcode", "country_code"})
         @@ Field("identifier", "d", Identifiers) @@ Each("o", {"state", "raw"}))

Authors ==
    Keys(Field("type", "m", Function("author type"))
         @@ Field("affiliations", "m", AuthorAffiliation)
         @@ Field("identifier", "d", Identifiers)
         @@ Each("o", {"organisation_name"}) @@ Field("name", "o", Name))

ContributorAffiliation ==
    Keys(Each("d", {"org", "street", "city", "country", "postcode"})
         @@ Field("identifier", "d", Identifiers)
         @@ Each("o", {"dept", "state", "country_code", "raw"}))

Contributors ==
    Keys(Each("m", {"type"}) @@ Field("affiliations", "o", ContributorAffiliation)
         @@ Field("identifier", "d", Identifiers)
         @@ Each("o", {"organisation_name"}) @@ Field("name", "o", Name))

PublicationDate(t) ==
    Keys(Each(IF t.type = "b" THEN "d" ELSE "m", {"date", "year", "month", "day"})
         @@ Each("o", {"season"})
         @@ Field("publication_format", "o", OneOf({"electronic", "printed", "print"})))

UrlNeed(t) == IF t.type = "b" THEN "d" ELSE IF t.default THEN "o" ELSE "m"

Licences(t) ==
    Keys(Each("o", {"title", "type", "version"}) @@ Field("start", "o", Function("date"))
         @@ Field("url", UrlNeed(t), Function("url")))

Funding ==
    Keys(Each("m", {"name"}) @@ Field("identifier", "d", Identifiers)
         @@ Each("d", {"grant_numbers"}))

\* The rules of fields, by their paths.
CommonRules ==
    Field(<<"contributor">>, "o", Function("contributors"))
    @@ Each("o", {<<"peer_reviewed">>})
    @@ Each("d", {<<"journal", "issue">>, <<"article", "type">>, <<"article", "abstract">>,
                  <<"article", "subject">>, <<"ack">>})
    @@ Field(<<"funding">>, "d", Funding)
    @@ Each("m", {<<"journal", "title">>, <<"journal", "publisher">>, <<"article", "title">>})
    @@ Field(<<"journal", "identifier">>, "m", Identifiers)
    @@ Field(<<"article", "version">>, "m", OneOf({"AM", "P", "VOR", "EVOR", "CVOR", "C/EVOR"}))
    @@ Field(<<"article", "identifier">>, "m", Function("identifiers"))
    @@ Field(<<"author">>, "m", Function("authors"))
    @@ Field(<<"accepted_date">>, "m", Function("date"))
    @@ Field(<<"license_ref">>, "m", Function("licences"))

\* By the route; only the API has events and a status.
RouteRules(t) ==
    IF t.route # "api" THEN Each("d", {<<"article", "language">>})
    ELSE Field(<<"event">>, "o",
               OneOf({"submitted", "accepted", "published", "corrected", "revised"}))
         @@ Field(<<"publication_status">>, "m", OneOf({"Published", "Accepted"}))
         @@ Each("m", {<<"article", "language">>})

TypeRules(t) ==
    LET need == IF t.type = "b" THEN "d" ELSE "m"
    IN  Each(need, {<<"journal", "volume">>})
        @@ Field(<<"article">>, need, Function("pages"))
        @@ Field(<<"publication_date">>, need, Function("publication date"))

-----------------------------------------------------------------------------
(* Checks of a value by a rule (DictValidator).                            *)

LevelOf == [m |-> "error", d |-> "issue", o |-> "info"]
Finding(level, at, what) == [level |-> level, at |-> at, what |-> what]
Error(at, what) == {Finding("error", at, what)}
Issue(at, what) == {Finding("issue", at, what)}
If(condition, findings) == IF condition THEN findings ELSE {}

\* validate_aff_org_value: whether more than an organisation is named.
Overpopulated(text) ==
    LET org == OrgOf[text]
    IN  org.commas > 1 \/ org.problem \/ (org.university /\ org.school)

IsOverpopulated(v) == v.is = "text" /\ v.of \in DOMAIN OrgOf /\ Overpopulated(v.of)

PartsOf(v) == IF v.is = "text" /\ v.of \in DOMAIN DateParts THEN DateParts[v.of] ELSE <<>>

\* The functions for single values.
CheckText(at, v, name) ==
    CASE name = "author type" ->
            IF v.of \in {"author", "corresp"} THEN {}
            ELSE IF v.of = "corresp author" THEN Issue(at, "irregular") ELSE Error(at, "invalid")
      [] name = "org" -> If(IsOverpopulated(v), Issue(at, "overpopulated"))
      [] name = "date" -> If(Len(PartsOf(v)) < 3, Error(at, "no date"))
      [] name = "url" -> If(v.of \notin OpenUrls, Issue(at, "not open"))

CheckValue(at, v, rule, need) ==
    LET s == Stripped(v)
    IN  IF Empty(s)
        THEN {Finding(LevelOf[need], at, IF s.is = "none" THEN "missing" ELSE "empty")}
        ELSE CASE rule.by = "one of" ->
                     If(s.is # "text" \/ s.of \notin rule.values, Error(at, "invalid"))
               [] rule.by = "function" -> CheckText(at, s, rule.name)
               [] OTHER -> {}

RECURSIVE Check(_, _, _, _), CheckObject(_, _, _)

CheckObject(at, obj, rule) ==
    UNION {IF k \in DOMAIN obj
           THEN Check(Append(at, k), obj[k], rule.keys[k].rule, rule.keys[k].need)
           ELSE {Finding(LevelOf[rule.keys[k].need], Append(at, k), "missing")} :
           k \in DOMAIN rule.keys}
    \cup {Finding("error", Append(at, k), "unexpected") : k \in DOMAIN obj \ DOMAIN rule.keys}

CheckObjects(at, v, rule) == UNION {CheckObject(at, Objects(v)[i], rule) : i \in DOMAIN Objects(v)}

Check(at, v, rule, need) ==
    IF rule.by = "keys" /\ v.is = "dict" THEN CheckObject(at, v.of, rule)
    ELSE IF rule.by = "keys" /\ IsListOfObjects(v) THEN CheckObjects(at, v, rule)
    ELSE IF v.is = "list" /\ v.of # <<>> /\ ~IsListOfObjects(v)
         THEN UNION {CheckValue(at, v.of[i], rule, need) : i \in DOMAIN v.of}
         ELSE CheckValue(at, v, rule, need)

-----------------------------------------------------------------------------
(* Checks of particular fields.                                            *)

\* _validate_article_identifier
CheckIdentifiers(at, v) ==
    CheckObjects(at, v, Identifiers) \cup If(Cardinality(With(v, "type", "doi")) # 1, Error(at, "one DOI"))

\* _validate_org_name
IsNameless(obj) ==
    LET name == IF "name" \in DOMAIN obj THEN obj["name"].of ELSE [k \in {} |-> None]
    IN  /\ Empty(Given(name, "firstname")) /\ Empty(Given(name, "surname"))
        /\ Empty(Given(obj, "organisation_name"))

CheckNames(at, v) == If(\E i \in DOMAIN v.of : IsNameless(v.of[i].of), Error(at, "nameless"))

CheckContributors(at, v) == CheckObjects(at, v, Contributors) \cup CheckNames(at, v)

\* The ORCIDs of all the authors, an author and the place of one each.
Orcids(v) ==
    UNION {{<<i, j>> : j \in With(Given(v.of[i].of, "identifier"), "type", "orcid")} : i \in DOMAIN v.of}

CheckAuthors(at, v) ==
    LET orcids == Cardinality(Orcids(v))
        AffsOfOne(i) == Objects(Given(v.of[i].of, "affiliations"))
    IN  CheckObjects(at, v, Authors) \cup CheckNames(at, v)
        \cup If(With(v, "type", "corresp") = {}, Error(at, "nobody corresponds"))
        \cup If(orcids = 0, Error(at, "no ORCID"))
        \cup If(orcids \in 1 .. Len(v.of) - 1, Issue(at, "few ORCIDs"))
        \cup If(\E i \in DOMAIN v.of : \E j \in DOMAIN AffsOfOne(i) :
                   IsOverpopulated(Stripped(Given(AffsOfOne(i)[j], "org"))), Issue(at, "overpopulated"))

\* _validate_date_dict: a date goes before its parts, which must agree with it; the parts
\* are looked at on their own when there is no date or not a good one.
CheckDateParts(at, obj) ==
    LET date == Given(obj, "date")
        parts == PartsOf(date)
        part == <<Given(obj, "year"), Given(obj, "month"), Given(obj, "day")>>
    IN  IF parts # <<>>
        THEN If(Len(parts) < 3, Issue(at, "partial date"))
             \cup If(\E i \in DOMAIN parts : ~IsText(part[i], parts[i]), Error(at, "parts"))
        ELSE If(~Empty(date), Error(at, "no date"))
             \cup If(\E i \in 1 .. 3 : ~Empty(part[i])
                                      /\ (part[i].is # "text" \/ part[i].of \notin ValidParts[i]),
                     Error(at, "parts"))

CheckPublicationDate(at, v, t) ==
    CheckObject(at, v.of, PublicationDate(t)) \cup CheckDateParts(at, v.of)

\* Mutant: all but two licences have a start.
CheckLicencesButTwo(at, v, t) ==
    LET started == {i \in DOMAIN v.of : ~Empty(Stripped(Given(v.of[i].of, "start")))}
    IN  CheckObjects(at, v, Licences(t))
        \cup If(Cardinality(started) + 2 < Len(v.of), Error(at, "starts"))

\* _validate_licences: all but one have a start.
CheckLicences(at, v, t) ==
    LET started == {i \in DOMAIN v.of : ~Empty(Stripped(Given(v.of[i].of, "start")))}
    IN  CheckObjects(at, v, Licences(t))
        \cup If(Cardinality(started) + 1 < Len(v.of), Error(at, "starts"))

\* _validate_page_info
CheckPages(at, v, t) ==
    IF ~Empty(Given(v.of, "page_range"))
    THEN UNION {If(Empty(Given(v.of, k)), Issue(Append(at, k), "missing")) :
                   k \in {"start_page", "end_page"}}
    ELSE If(Empty(Given(v.of, "e_num")),
            {Finding(IF t.type = "b" THEN "issue" ELSE "error", at, "pages")})

CheckField(at, v, rule, need, t) ==
    IF rule.by # "function" \/ Empty(v) THEN Check(at, v, rule, need)
    ELSE CASE rule.name = "identifiers" -> CheckIdentifiers(at, v)
           [] rule.name = "contributors" -> CheckContributors(at, v)
           [] rule.name = "authors" -> CheckAuthors(at, v)
           [] rule.name = "publication date" -> CheckPublicationDate(at, v, t)
           [] rule.name = "licences" -> CheckLicences(at, v, t)
           [] rule.name = "pages" -> CheckPages(at, v, t)
           [] OTHER -> Check(at, v, rule, need)

Findings(doc, t) ==
    LET rules == CommonRules @@ RouteRules(t) @@ TypeRules(t)
    IN  UNION {CheckField(f, Get(doc, f), rules[f].rule, rules[f].need, t) : f \in DOMAIN rules}

-----------------------------------------------------------------------------
\* get_doi_from_note_dict: of the first identifier that is a DOI, unless one before it has
\* no type.
DoiOf(doc) ==
    LET ids == Get(doc, <<"article", "identifier">>)
        Is(i) == "type" \notin DOMAIN ids.of[i].of \/ IsText(ids.of[i].of["type"], "doi")
        first == IF ids.is = "list"
                 THEN {i \in DOMAIN ids.of : Is(i) /\ \A j \in 1 .. i - 1 : ~Is(j)} ELSE {}
        dois == {i \in first : {"type", "id"} \subseteq DOMAIN ids.of[i].of}
    IN  IF dois = {} THEN "none" ELSE LowerOf[ids.of[CHOOSE i \in dois : TRUE].of["id"].of]

Init ==
    /\ \E i \in DOMAIN Docs : note = Docs[i]
    /\ terms \in Terms
    /\ stage = "received" /\ found = {} /\ doi = "none"

ValidateMetadata ==
    /\ stage = "received"
    /\ stage' = "validated"
    /\ found' = Findings(note, terms)
    /\ doi' = DoiOf(note)
    /\ UNCHANGED <<note, terms>>

Next == ValidateMetadata

Spec == Init /\ [][Next]_vars

-----------------------------------------------------------------------------
(* Properties.                                                             *)

TypeOK ==
    /\ stage \in {"received", "validated"} /\ terms \in Terms
    /\ \A f \in found : f.level \in {"error", "issue", "info"}
    /\ stage = "received" => found = {} /\ doi = "none"

HasErrors(findings) == \E f \in findings : f.level = "error"
Valid == stage = "validated" /\ ~HasErrors(found)

Has(obj, keys) == \A k \in keys : ~Empty(Stripped(Given(obj, k)))
HasFields(paths) == \A p \in paths : ~Empty(Stripped(Get(note, p)))

\* What makes an article's record complete, whoever publishes it.
HasAuthors ==
    LET authors == Objects(Get(note, <<"author">>))
        Is(i, type) == With(Given(authors[i], "identifier"), "type", type) # {}
        AffsOfOne(i) == Objects(Given(authors[i], "affiliations"))
    IN  /\ \E i \in DOMAIN authors : Is(i, "orcid")
        /\ With(Get(note, <<"author">>), "type", "corresp") # {}
        /\ \A i \in DOMAIN authors :
              /\ AffsOfOne(i) # <<>>
              /\ \A j \in DOMAIN AffsOfOne(i) : Has(AffsOfOne(i)[j], {"org", "city", "country"})
              /\ IF "name" \in DOMAIN authors[i] THEN Has(authors[i]["name"].of, {"firstname", "surname"})
                 ELSE ~Empty(Given(authors[i], "organisation_name"))

HasDoi == Cardinality(With(Get(note, <<"article", "identifier">>), "type", "doi")) = 1

HasLicences ==
    LET lics == Objects(Get(note, <<"license_ref">>))
    IN  /\ lics # <<>>
        /\ \A i, j \in DOMAIN lics : i # j => Has(lics[i], {"start"}) \/ Has(lics[j], {"start"})
        /\ terms.type = "u" /\ ~terms.default => \A i \in DOMAIN lics : Has(lics[i], {"url"})

\* What is known upon publication: the day of it, and where it is found.
HasPublication ==
    LET date == Get(note, <<"publication_date">>).of
        article == Get(note, <<"article">>).of
    IN  /\ \A i \in DOMAIN PartsOf(date["date"]) :
              IsText(date[<<"year", "month", "day">>[i]], PartsOf(date["date"])[i])
        /\ PartsOf(date["date"]) # <<>>
        /\ Has(date, {"year", "month", "day"})
        /\ HasFields({<<"journal", "volume">>})
        /\ ~Empty(Given(article, "page_range")) \/ ~Empty(Given(article, "e_num"))

\* A submission without errors is complete for the terms of its publisher: no combination of
\* what lists, people and dates lack goes unnoticed.
ValidIsComplete ==
    Valid => /\ HasAuthors /\ HasDoi /\ HasLicences
             /\ HasFields({<<"article", "title">>, <<"article", "version">>,
                           <<"journal", "title">>, <<"journal", "publisher">>,
                           <<"journal", "identifier">>, <<"accepted_date">>})
             /\ terms.type = "u" => HasPublication
             /\ terms.route = "api" =>
                   HasFields({<<"publication_status">>, <<"article", "language">>})

\* The DOI under which a valid submission is recorded is its DOI; white space around the
\* type of an identifier is overlooked by the checks, but not where the DOI is read.
DoiRecorded ==
    Valid =>
        LET ids == Objects(Get(note, <<"article", "identifier">>))
        IN  \A i \in DOMAIN ids :
               IsText(ids[i]["type"], "doi") => doi = LowerOf[ids[i]["id"].of]

\* Terms say how serious it is that something is missing, and nothing else: those of
\* publishers who submit upon publication are the strictest, and what is found is the same.
TermsOnlyWeigh ==
    stage = "validated" =>
        LET strictest == Findings(note, [terms EXCEPT !.type = "u", !.default = FALSE])
            Errors(findings) == {f \in findings : f.level = "error"}
            What(findings) == {<<f.at, f.what>> : f \in findings}
        IN  Errors(found) \subseteq Errors(strictest) /\ What(found) = What(strictest)
===============================================================================
