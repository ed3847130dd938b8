------------------------------ MODULE DoiRegister ------------------------------
(***************************************************************************)
(* Which repositories get another notification about an article they have  *)
(* had before (router/shared/models/doi_register.py, and the loop over the *)
(* repositories in router/jper/routing.py).  Of every article that was     *)
(* routed the register keeps which metadata fields its notifications had,  *)
(* and how many entries some of them: as in the first notification, and    *)
(* accumulated over all of them.  A repository chooses, for publishers and *)
(* for other sources, how much a further notification must add for it to   *)
(* be wanted.                                                              *)
(*                                                                         *)
(* The entry of one article is modelled: entries are independent.          *)
(***************************************************************************)
EXTENDS Integers, Sequences, FiniteSets

CONSTANTS
    Repo,
    LevelPub,      \* duplicates.level_p of each repository
    LevelHarv,     \* duplicates.level_h
    Article,       \* what a notification may say of the article
    Selective,     \* repositories that only some of its notifications match
    MaxNotes       \* bound: notifications about the article

\* Fields that are there or not; an author, with his affiliations that have more
\* than raw text, and those that have an organisation's id; a licence.
Simple == {"pdf", "volume", "language"}
Version == {"none", "VoR", "EVoR"}
AuthorData == [orcid : BOOLEAN, affs : Nat, ids : Nat]
LicenceData == {"open", "closed", "unclear"}

RegisterAssumption ==
    /\ LevelPub \in [Repo -> {0, 1, 5, 6, 9}] /\ LevelHarv \in [Repo -> {0, 1, 5, 6, 9}]
    /\ Selective \subseteq Repo
    /\ \A a \in Article :
          /\ a.simple \subseteq Simple /\ a.version \in Version
          /\ a.authors \in Seq(AuthorData) /\ a.licences \in Seq(LicenceData)
    /\ MaxNotes \in Nat

-----------------------------------------------------------------------------
\* The metrics of a notification

\* _base_eval_dict: the fields, and what each is worth
Rating ==
    [f \in Simple \cup {"VoR", "EVoR", "author", "orcid", "affiliation", "orgId", "open", "other"} |->
        CASE f \in {"pdf", "EVoR"} -> "ultra"
          [] f = "volume"          -> "med"
          [] f = "language"        -> "low"
          [] OTHER                 -> "high"]
Field == DOMAIN Rating
Counter == {"n_auth", "n_orcid", "n_struct_aff", "n_aff_ids", "n_lic"}
Metrics == [bits : SUBSET Field, counts : [Counter -> Nat]]
NoMetrics == [bits |-> {}, counts |-> [c \in Counter |-> 0]]

\* How many entries of a list there are, each taken as often as its value says.
Total(list, value(_)) ==
    Cardinality(UNION {{i} \X (1 .. value(list[i])) : i \in DOMAIN list})

One(condition) == IF condition THEN 1 ELSE 0

Counts(a) ==
    [c \in Counter |->
        CASE c = "n_auth"       -> Len(a.authors)
          [] c = "n_orcid"      -> Total(a.authors, LAMBDA x : One(x.orcid))
          [] c = "n_struct_aff" -> Total(a.authors, LAMBDA x : x.affs)
          [] c = "n_aff_ids"    -> Total(a.authors, LAMBDA x : x.ids)
          [] c = "n_lic"        -> Total(a.licences, LAMBDA x : One(x # "unclear"))]

\* A licence without address and type sets a bit, and is not counted.
Bits(a) ==
    a.simple
    \cup ({a.version} \ {"none"})
    \cup {f \in {"author"} : Counts(a)["n_auth"] > 0}
    \cup {f \in {"orcid"} : Counts(a)["n_orcid"] > 0}
    \cup {f \in {"affiliation"} : Counts(a)["n_struct_aff"] > 0}
    \cup {f \in {"orgId"} : Counts(a)["n_aff_ids"] > 0}
    \cup {IF a.licences[i] = "open" THEN "open" ELSE "other" : i \in DOMAIN a.licences}

\* calc_notification_metrics
MetricsOf == [a \in Article |-> [bits |-> Bits(a), counts |-> Counts(a)]]

\* compare_metrics: fields that are new, counts that have increased (in the code, a
\* change that is none of decreases only)
NewBits(older, newer) == newer.bits \ older.bits
CountsIncreased(older, newer) == \E c \in Counter : newer.counts[c] > older.counts[c]

\* update_cumulative_metrics
Joined(m1, m2) ==
    [bits   |-> m1.bits \cup m2.bits,
     counts |-> [c \in Counter |->
                    IF m2.counts[c] > m1.counts[c] THEN m2.counts[c] ELSE m1.counts[c]]]

-----------------------------------------------------------------------------
VARIABLES
    rec,     \* the entry of the article
    number,  \* how many notifications there were
    last,    \* the last one: its recipients, metrics, and whether it was the first
             \* of a publisher
    got,     \* all that the notifications a repository has got said (history)
    gotPub,  \* repositories that have got one of a publisher (history)
    missed   \* repositories that one did not match that was routed to others (history)

vars == <<rec, number, last, got, gotPub, missed>>

Entry == [seen : BOOLEAN, orig : Metrics, hasCum : BOOLEAN, cum : Metrics, repos : SUBSET Repo,
          pubs : Nat, harvs : Nat, rank : 1 .. 2, pdf : BOOLEAN]
NoEntry == [seen |-> FALSE, orig |-> NoMetrics, hasCum |-> FALSE, cum |-> NoMetrics,
            repos |-> {}, pubs |-> 0, harvs |-> 0, rank |-> 2, pdf |-> FALSE]

TypeOK ==
    /\ rec \in Entry /\ number \in 0 .. MaxNotes
    /\ last \in [to : SUBSET Repo, metrics : Metrics, firstPub : BOOLEAN]
    /\ got \in [Repo -> Metrics] /\ gotPub \in SUBSET Repo /\ missed \in SUBSET Repo
    /\ rec.pubs + rec.harvs <= number
    /\ rec.rank = 1 <=> rec.pubs > 0
    /\ rec.pdf <=> "pdf" \in rec.orig.bits \cup rec.cum.bits
    /\ \A r \in Repo : got[r] # NoMetrics => r \in rec.repos

Init ==
    /\ rec = NoEntry /\ number = 0
    /\ last = [to |-> {}, metrics |-> NoMetrics, firstPub |-> FALSE]
    /\ got = [r \in Repo |-> NoMetrics] /\ gotPub = {} /\ missed = {}

Known == IF rec.hasCum THEN rec.cum ELSE rec.orig

\* Mutant: only fields count.
LevelOfFields(m) ==
    LET new == NewBits(Known, m)
        Adds(rating) == \E f \in new : Rating[f] = rating
    IN IF ~rec.seen THEN 0
       ELSE IF "pdf" \in new \/ "EVoR" \in m.bits THEN 1
       ELSE IF Adds("high") THEN 3
       ELSE IF Adds("med") THEN 4
       ELSE IF Adds("low") THEN 5
       ELSE IF "pdf" \in m.bits THEN 6
       ELSE 9

\* duplicate_doi_check: how important a further notification is
Level(m) ==
    LET new == NewBits(Known, m)
        Adds(rating) == \E f \in new : Rating[f] = rating
    IN IF ~rec.seen THEN 0
       ELSE IF "pdf" \in new \/ "EVoR" \in m.bits THEN 1
       ELSE IF CountsIncreased(Known, m) THEN 2
       ELSE IF Adds("high") THEN 3
       ELSE IF Adds("med") THEN 4
       ELSE IF Adds("low") THEN 5
       ELSE IF "pdf" \in m.bits THEN 6
       ELSE 9

\* The provider's rank: there are two more among the harvested sources.
Source == {"publisher", "harvester"}
Rank(s) == IF s = "publisher" THEN 1 ELSE 2

Counted(m, s) ==
    [rec EXCEPT !.seen = TRUE,
        !.pubs = IF s = "publisher" THEN @ + 1 ELSE @,
        !.harvs = IF s = "publisher" THEN @ ELSE @ + 1,
        !.rank = IF Rank(s) < @ \/ ~rec.seen THEN Rank(s) ELSE @,
        !.pdf = @ \/ "pdf" \in m.bits]

\* The entry as it is saved if the notification is routed.
Updated(m, s) ==
    IF ~rec.seen THEN [Counted(m, s) EXCEPT !.orig = m]
    ELSE IF NewBits(Known, m) # {} \/ CountsIncreased(Known, m)
    THEN [Counted(m, s) EXCEPT !.cum = Joined(Known, m), !.hasCum = TRUE]
    ELSE Counted(m, s)

\* dups_wanted
Wanted(r, s, level) == level <= IF s = "publisher" THEN LevelPub[r] ELSE LevelHarv[r]

FirstOfPublisher(s) == s = "publisher" /\ rec.pubs = 0

\* The loop of route: a repository that has had the article gets the notification if
\* it is the first of a publisher, or wanted.
Recipients(m, s, matching) ==
    {r \in matching : r \in rec.repos =>
        FirstOfPublisher(s) \/ Level(m) = 0 \/ Wanted(r, s, Level(m))}

\* What no repository gets is not routed, and not registered.
Route(a, s, matching) ==
    LET m == MetricsOf[a]
        to == Recipients(m, s, matching)
    IN /\ number < MaxNotes
       /\ number' = number + 1
       /\ last' = [to |-> to, metrics |-> m, firstPub |-> FirstOfPublisher(s)]
       /\ rec' = IF to = {} THEN rec ELSE [Updated(m, s) EXCEPT !.repos = @ \cup to]
       /\ got' = [r \in Repo |-> IF r \in to THEN Joined(got[r], m) ELSE got[r]]
       /\ gotPub' = IF s = "publisher" THEN gotPub \cup to ELSE gotPub
       /\ missed' = IF to = {} THEN missed ELSE missed \cup (Repo \ matching)

\* At the bound nothing more comes.
Idle == number = MaxNotes /\ UNCHANGED vars

Next ==
    \/ \E a \in Article, s \in Source, matching \in SUBSET Repo :
          Repo \ Selective \subseteq matching /\ Route(a, s, matching)
    \/ Idle

Spec == Init /\ [][Next]_vars

-----------------------------------------------------------------------------
(***************************************************************************)
(* Properties                                                              *)
(***************************************************************************)

LevelOf(r) == IF LevelPub[r] < LevelHarv[r] THEN LevelPub[r] ELSE LevelHarv[r]

\* A repository that asks for additional metadata (DUP_ANY_DIFF), and that all
\* notifications matched, has all that is known of the article; one that asks for
\* the first full text (DUP_ULTRA_DIFF) has that; and every one has been sent what
\* a publisher deposited, if a publisher has.
NothingMissed ==
    \A r \in rec.repos \ missed :
        /\ LevelOf(r) >= 5 => got[r] = Known
        /\ LevelOf(r) >= 1 /\ "pdf" \in Known.bits => "pdf" \in got[r].bits
        /\ rec.pubs > 0 => r \in gotPub

\* A repository is not sent again what it has: a duplicate adds a field, or to a
\* count, unless it is a corrected version, the first of a publisher, or the
\* repository asked for more.
NoUselessDuplicate ==
    [][\A r \in last'.to \cap rec.repos :
          \/ last'.firstPub \/ "EVoR" \in last'.metrics.bits
          \/ LevelPub[r] > 5 \/ LevelHarv[r] > 5
          \/ got'[r] # got[r]]_vars

\* doi_register.py, calc_notification_metrics: n_struct_aff is the "number of
\* authors with structured affiliations (if one author has multiple structured
\* affiliations, then n_struct_aff will still be incremented by just 1 ...)"
StructAffsCountAuthors ==
    rec.orig.counts["n_struct_aff"] <= rec.orig.counts["n_auth"]

=============================================================================
