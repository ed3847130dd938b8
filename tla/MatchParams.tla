------------------------------ MODULE MatchParams ------------------------------
(***************************************************************************)
(* The matching parameters of one repository: how they are loaded, added   *)
(* to, freed of redundant values, archived and brought back                *)
(* (shared/models/account.py, class AccRepoMatchParams), and what they     *)
(* match in a notification (jper/routing.py, match and its functions).     *)
(* Every operation pulls the record for update and commits, so each is one *)
(* action.                                                                 *)
(*                                                                         *)
(* A text is a sequence of characters: letters stand for any word          *)
(* character; "." "@" "/" and " " for what the code looks for; "?" is the  *)
(* one character of a regular expression.  Case is left out.  Lists are    *)
(* sets, as order and repetitions change no match; grants, ORCIDs,         *)
(* postcodes and organisation ids are compared as a whole, like e-mails,   *)
(* and lose repetitions only, so the three keys below show all there is.   *)
(***************************************************************************)
EXTENDS Naturals, Sequences, FiniteSets

CONSTANTS
    Offered,    \* for each key, the values somebody may submit
    Affiliation,    \* the affiliations of notifications
    Address,    \* the e-mail addresses of their authors
    MaxKeys,    \* bound on the keys one request submits values for
    MaxChanges  \* bound on the records of the archive, the one in force included

Key == {"name_variants", "domains", "emails"}

VARIABLES
    params,     \* the record in acc_repo_match_params, NoParams at first
    archive,    \* the records of acc_repo_match_params_archived
    asked,      \* history: the values the parameters in force were asked to have
    askedThen,  \* history: the same for each record of the archive
    inForce     \* history: every configuration there has ever been

vars == <<params, archive, asked, askedThen, inForce>>

NoConfig == [k \in Key |-> {}]
NoParams == [exists |-> FALSE, config |-> NoConfig, has_regex |-> FALSE,
             had_regex |-> FALSE, orig |-> {}]

-----------------------------------------------------------------------------
(* Texts.                                                                  *)

Blank(c) == c = " "
Word(c)  == c \notin {" ", ".", "@", "/", "?"}

\* Is there a word boundary before position i of t?
Boundary(t, i) ==
    (i > 1 /\ Word(t[i - 1])) # (i <= Len(t) /\ Word(t[i]))

\* p is found in t from position i on, character by character.
OccursAt(p, t, i) == \A k \in 1..Len(p) : p[k] = t[i + k - 1]
Starts(p, t)      == {i \in 1..(Len(t) + 1) : i + Len(p) <= Len(t) + 1}
Within(p, t)      == \E i \in Starts(p, t) : OccursAt(p, t, i)
EndsWith(t, p)    == Len(p) <= Len(t) /\ OccursAt(p, t, Len(t) - Len(p) + 1)

\* The same when p is read as a regular expression, "?" already resolved.
MatchesAt(p, t, i) == \A k \in 1..Len(p) : p[k] \in {t[i + k - 1], "."}

\* The expressions p stands for: the character before a "?" may be missing.
Readings(p) ==
    LET Marks == {k \in 2..Len(p) : p[k] = "?"}
    IN  IF Marks = {} THEN {p}
        ELSE LET k == CHOOSE k \in Marks : TRUE
                 rest == SubSeq(p, k + 1, Len(p))
             IN  {SubSeq(p, 1, k - 1) \o rest, SubSeq(p, 1, k - 2) \o rest}

\* text.strip(), and the variant that leaves one space of several.
Strip(t) ==
    LET Solid == {i \in 1..Len(t) : ~Blank(t[i])}
    IN  IF Solid = {} THEN <<>>
        ELSE SubSeq(t, CHOOSE i \in Solid : \A j \in Solid : i <= j,
                       CHOOSE i \in Solid : \A j \in Solid : j <= i)
StripRemoveMultispace(t) ==
    LET s == Strip(t)
        Kept(i) == ~(Blank(s[i]) /\ i > 1 /\ Blank(s[i - 1]))
        f[i \in 0..Len(s)] ==
            IF i = 0 THEN <<>> ELSE IF Kept(i) THEN Append(f[i - 1], s[i]) ELSE f[i - 1]
    IN  f[Len(s)]

\* What is left of a domain given with a path (the scheme is left out).
StripDomain(t) ==
    LET s == Strip(t)
        Slashes == {i \in 1..Len(s) : s[i] = "/"}
    IN  IF Slashes = {} THEN s
        ELSE SubSeq(s, 1, (CHOOSE i \in Slashes : \A j \in Slashes : i <= j) - 1)

Normal(key, t) ==
    CASE key = "name_variants" -> StripRemoveMultispace(t)
      [] key = "domains"       -> StripDomain(t)
      [] key = "emails"        -> Strip(t)

\* What domains look like: no character of a regular expression but the dot, which is
\* followed by a word.  The code takes other texts as well, and may lose their matches.
DomainName(d) ==
    \A i \in 1..Len(d) : d[i] # "?" /\ (d[i] = "." => i < Len(d) /\ Word(d[i + 1]))

MatchAssumption ==
    /\ \A k \in Key : Offered[k] \subseteq Seq(STRING)
    /\ Affiliation \subseteq Seq(STRING) /\ Address \subseteq Seq(STRING)
    /\ \A t \in Offered["domains"] : DomainName(StripDomain(t))
    /\ MaxKeys \in Nat /\ MaxChanges \in Nat

-----------------------------------------------------------------------------
(* Matching a notification.                                                *)

Found(p, t, Closed(_, _)) ==
    \E q \in Readings(p) : \E i \in Starts(q, t) :
        Boundary(t, i) /\ MatchesAt(q, t, i) /\ Closed(t, i + Len(q))

AtEnd(t, i)    == i = Len(t) + 1
Anywhere(t, i) == TRUE

DomainEmail(domain, email)             == Found(domain, email, AtEnd)
AffiliationDomain(domain, affiliation) == Found(domain, affiliation, Boundary)
ExactSubstring(variant, affiliation)   == Found(variant, affiliation, Anywhere)

MatchesAddress(config, email) ==
    \/ \E d \in config["domains"] : DomainEmail(d, email)
    \/ email \in config["emails"]
MatchesAffiliation(config, affiliation) ==
    \/ \E d \in config["domains"] : AffiliationDomain(d, affiliation)
    \/ \E v \in config["name_variants"] : ExactSubstring(v, affiliation)

-----------------------------------------------------------------------------
(* Removing what is redundant.  The code takes each list from its longest  *)
(* value down and drops a value that a shorter one makes redundant.        *)

VariantRedundant(longer, shorter) == Within(shorter, longer)
EmailRedundant(email, domain)     == EndsWith(email, domain)

DomainRedundantWithoutDot(longer, shorter) == EndsWith(longer, shorter)

DomainRedundant(longer, shorter) == EndsWith(longer, <<".">> \o shorter)

WithoutRedundant(config) ==
    LET domains == {d \in config["domains"] :
                        ~\E e \in config["domains"] \ {d} : DomainRedundant(d, e)}
    IN  [name_variants |-> {v \in config["name_variants"] :
             ~\E w \in config["name_variants"] \ {v} : VariantRedundant(v, w)},
         domains |-> domains,
         emails |-> {a \in config["emails"] : ~\E d \in domains : EmailRedundant(a, d)}]

-----------------------------------------------------------------------------
(* The operations.                                                         *)

IncludesRegex(variants) == \E v \in variants : \E i \in 1..Len(v) : v[i] = "?"

Archived(p) == [config |-> p.config, has_regex |-> p.has_regex]

Init ==
    /\ params = NoParams
    /\ archive = <<>>
    /\ asked = NoConfig
    /\ askedThen = <<>>
    /\ inForce = {}

\* The values submitted for the keys K replace those there are, or join them.
Combine(old, new, add) ==
    [k \in Key |-> IF k \notin DOMAIN new THEN old[k]
                   ELSE IF add THEN old[k] \cup new[k] ELSE new[k]]

\* update_match_params when there is no record yet.
Create(new) ==
    LET all == Combine(NoConfig, new, FALSE)
        config == WithoutRedundant(all)
    IN  /\ ~params.exists
        /\ params' = [NoParams EXCEPT !.exists = TRUE, !.config = config,
                                      !.has_regex = IncludesRegex(config["name_variants"])]
        /\ asked' = all
        /\ inForce' = inForce \cup {config}
        /\ UNCHANGED <<archive, askedThen>>

\* The record updated with a configuration, flags included.
Changed(config) ==
    LET uses == IncludesRegex(config["name_variants"])
    IN  [params EXCEPT
            !.config = config,
            !.has_regex = uses,
            !.had_regex = @ \/ params.has_regex,
            !.orig = IF uses /\ ~params.has_regex
                     THEN params.config["name_variants"] ELSE @]

\* update_match_params of a record: POST replaces, PATCH adds.
Update(new, add) ==
    LET config == WithoutRedundant(Combine(params.config, new, add))
    IN  /\ params.exists
        /\ Len(archive) + 1 < MaxChanges
        /\ params' = Changed(config)
        /\ archive' = Append(archive, Archived(params))
        /\ asked' = Combine(asked, new, add)
        /\ askedThen' = Append(askedThen, asked)
        /\ inForce' = inForce \cup {config}

\* revert_to_these_params: the archived record is restored, the current one archived.
RecordAfter(old) == [params EXCEPT !.config = old.config, !.has_regex = old.has_regex]

ArchiveAfterRevert == Append(archive, Archived(params))

Revert(n) ==
    /\ Len(archive) + 1 < MaxChanges
    /\ params' = RecordAfter(archive[n])
    /\ archive' = ArchiveAfterRevert
    /\ asked' = askedThen[n]
    /\ askedThen' = Append(askedThen, asked)
    /\ UNCHANGED inForce

\* What one request may submit: values for some of the keys.  An empty value is
\* dropped from a CSV file and kept from JSON.
Values == [name_variants : SUBSET Offered["name_variants"],
           domains : SUBSET Offered["domains"],
           emails : SUBSET Offered["emails"]]
Submission ==
    {[k \in K |-> v[k]] : K \in {L \in SUBSET Key : Cardinality(L) \in 1..MaxKeys}, v \in Values}
Loaded(s, json) ==
    [k \in DOMAIN s |-> {Normal(k, t) : t \in s[k]} \ (IF json THEN {} ELSE {<<>>})]

Submit ==
    \E s \in Submission, json, add \in BOOLEAN :
        LET new == Loaded(s, json) IN Create(new) \/ Update(new, add)

Next == Submit \/ \E n \in DOMAIN archive : Revert(n)

Spec == Init /\ [][Next]_vars

-----------------------------------------------------------------------------
(* Properties.                                                             *)

TypeOK ==
    /\ \A k \in Key : params.config[k] \in SUBSET {Normal(k, t) : t \in Offered[k]}
    /\ DOMAIN archive = DOMAIN askedThen
    /\ \A n \in DOMAIN archive : archive[n].config \in inForce

\* Does a domain occur in a text as a word of its own, at the text's end or anywhere?
OccursInAddress(d, t)     == EndsWith(t, d) /\ Boundary(t, Len(t) - Len(d) + 1)
OccursInAffiliation(d, t) ==
    \E i \in Starts(d, t) : OccursAt(d, t, i) /\ Boundary(t, i) /\ Boundary(t, i + Len(d))

\* However domains were submitted, added, dropped as redundant, archived and
\* brought back, the parameters in force match every address and affiliation
\* that holds a domain somebody asked for.
DomainsKeepMatches ==
    \A d \in asked["domains"] \ {<<>>} :
        /\ \A t \in Address : OccursInAddress(d, t) => MatchesAddress(params.config, t)
        /\ \A t \in Affiliation :
               OccursInAffiliation(d, t) => MatchesAffiliation(params.config, t)

\* What _remove_redundant_matching_params_and_sort says of itself: a name variant
\* is dropped only when another one catches every affiliation it would catch, an
\* e-mail address only when a domain catches it.
RedundantCaughtAnyway ==
    /\ \A v \in asked["name_variants"], t \in Affiliation :
           ExactSubstring(v, t) => MatchesAffiliation(params.config, t)
    /\ \A a \in asked["emails"] \cap Address : MatchesAddress(params.config, a)

\* What the table's definition says of had_regex: the parameters have included
\* regular expressions in the past.
HadRegexRemembered ==
    (\E c \in inForce : IncludesRegex(c["name_variants"]))
        => params.has_regex \/ params.had_regex
================================================================================
