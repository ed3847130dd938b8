------------------------------ MODULE NoteVersions ------------------------------
(***************************************************************************)
(* The two versions of the API.  Publishers submit metadata in the one or  *)
(* the other (_validate_convert_note_to_v4 in jper/views/webapi.py), it is *)
(* kept as version 4, except what was stored before there was one, and is  *)
(* told to repositories in the one or the other (make_outgoing in          *)
(* shared/models/note.py), without what is for Router only.                *)
(*                                                                         *)
(* A text is the sequence of its pieces.                                   *)
(***************************************************************************)
EXTENDS Integers, FiniteSets, Sequences, SequencesExt

CONSTANTS
    Submissions,   \* what publishers send, or what is stored since version 3
    UriOf          \* for a type of identifier its [domain, first], the latter may be None

VARIABLES
    stage,         \* "sent", "refused" or "stored"
    sent, note,    \* what was sent, what is stored
    told           \* what a repository has been told, and in which version

vars == <<stage, sent, note, told>>

None == "none"
Old == "v3"
Latest == "v4"

\* A notification is [vers, fields, pages, e_num, authors, funding], where fields has the
\* names of others that are there.  An author has a text as `affiliation` (version 3) or
\* a sequence of dictionaries [raw, parts] as `affiliations` (version 4); what is not there
\* is empty.
Internal == {"type", "repositories", "metrics", "category", "has_pdf"}
ForProvider == {"provider.id", "provider.route"}

TypeOK ==
    /\ stage \in {"sent", "refused", "stored"} /\ sent \in Submissions
    /\ DOMAIN note = {"vers", "fields", "pages", "e_num", "authors", "funding"}
    /\ \A i \in DOMAIN note.authors : DOMAIN note.authors[i] = {"affiliation", "affiliations"}
    /\ told.api \in {None, Old, Latest}

-----------------------------------------------------------------------------
(* A submission; `vers` is then the version of the address it was sent to. *)

Dict(raw) == [raw |-> raw, parts |-> <<>>]
Converted(author, api) ==
    IF api = Old /\ author.affiliation # <<>>
    THEN [affiliation |-> <<>>, affiliations |-> <<Dict(author.affiliation)>>]
    ELSE author
Unexpected(author, api) ==
    IF api = Old THEN author.affiliation = <<>> /\ author.affiliations # <<>>
                 ELSE author.affiliation # <<>>

\* What was stored as version 3 has no field of version 4.
IsOld(n) == n.vers = Old /\ \A i \in DOMAIN n.authors : n.authors[i].affiliations = <<>>

Nothing == [api |-> None]
Init ==
    /\ \E s \in Submissions : sent = s /\ note = s
    /\ stage \in {"sent"} \cup {st \in {"stored"} : IsOld(sent)}
    /\ told = Nothing

Submit ==
    /\ stage = "sent"
    /\ IF \E i \in DOMAIN sent.authors : Unexpected(sent.authors[i], sent.vers)
       THEN stage' = "refused" /\ UNCHANGED note
       ELSE /\ stage' = "stored"
            /\ note' = [sent EXCEPT !.vers = Latest,
                            !.authors = [i \in DOMAIN @ |-> Converted(@[i], sent.vers)]]
    /\ UNCHANGED <<sent, told>>

-----------------------------------------------------------------------------
(* Telling.                                                                *)

AffText(aff) == IF aff.raw # <<>> THEN aff.raw ELSE aff.parts
Texts(affs) == FlattenSeq([k \in DOMAIN affs |-> AffText(affs[k])])

\* Mutant: the parts of an affiliation with a text are not in the text.
AuthorIfOnlyRaw(author, vers, api) ==
    IF api = Old /\ vers = Latest
    THEN [affiliation |-> FlattenSeq([k \in DOMAIN author.affiliations |-> author.affiliations[k].raw]),
          affiliations |-> <<>>]
    ELSE author

Author(author, vers, api) ==
    CASE api = Old /\ vers = Latest ->
           [affiliation |-> Texts(author.affiliations), affiliations |-> <<>>]
      [] api = Latest /\ vers = Latest ->
           [author EXCEPT !.affiliations =
               [k \in DOMAIN @ |-> [@[k] EXCEPT !.raw = AffText([raw |-> @, parts |-> author.affiliations[k].parts])]]]
      [] api = Latest /\ vers = Old /\ author.affiliation # <<>> ->
           [affiliation |-> <<>>, affiliations |-> <<Dict(author.affiliation)>>]
      [] OTHER -> author

\* An identifier [type, id] that is not a URI becomes one if its type is known.
IsUri(id) == \E type \in DOMAIN UriOf : id[1] = UriOf[type].domain
Uri(ident) ==
    IF IsUri(ident.id) \/ ident.type \notin DOMAIN UriOf THEN ident.id
    ELSE LET uri == UriOf[ident.type]
         IN  IF uri.first # None /\ ident.id[1] # uri.first THEN <<uri.domain, uri.first>> \o ident.id
             ELSE <<uri.domain>> \o ident.id

\* The deletion of the field "doi" is given that text where it wants a list of fields, and
\* deletes the fields named by its letters.
Deleted == Internal \cup ForProvider \cup {"d", "o", "i"}
Renamed(fields) == (fields \ {"created"}) \cup (IF "created" \in fields THEN {"created_date"} ELSE {})
Outgoing(n, api) ==
    LET kept == n.fields \ Deleted
    IN  [api |-> api,
         fields |-> IF api = Latest THEN kept
                    ELSE IF n.vers = Latest THEN Renamed(kept \ {"peer_reviewed", "ack"})
                    ELSE Renamed(kept),
         pages |-> IF api = Old /\ n.vers = Latest /\ n.pages = None THEN n.e_num ELSE n.pages,
         e_num |-> IF api = Old /\ n.vers = Latest THEN None ELSE n.e_num,
         authors |-> [i \in DOMAIN n.authors |-> Author(n.authors[i], n.vers, api)],
         funding |-> [k \in DOMAIN n.funding |-> Uri(n.funding[k])]]

Tell(api) ==
    /\ stage = "stored"
    /\ told' = Outgoing(note, api)
    /\ UNCHANGED <<stage, sent, note>>

Next == Submit \/ (\E api \in {Old, Latest} : Tell(api))

Spec == Init /\ [][Next]_vars

-----------------------------------------------------------------------------
(* Properties.                                                             *)

TextOf(author) == author.affiliation \o Texts(author.affiliations)
Both(author) == author.affiliation # <<>> /\ author.affiliations # <<>>

\* Whatever the versions, each author's affiliations are told as they were sent, in their
\* order and in the form of the version asked for, and so is where the article is.
SentIsTold ==
    told.api # None =>
        /\ \A i \in DOMAIN sent.authors :
              /\ ~Both(sent.authors[i]) => TextOf(told.authors[i]) = TextOf(sent.authors[i])
              /\ (IF told.api = Old THEN told.authors[i].affiliations
                                    ELSE told.authors[i].affiliation) = <<>>
              /\ \A k \in DOMAIN told.authors[i].affiliations :
                    told.authors[i].affiliations[k].raw # <<>>
        /\ sent.pages # None => told.pages = sent.pages
        /\ sent.e_num # None => sent.e_num \in {told.e_num, told.pages} \/ sent.pages # None

\* An identifier of a funder is told as the same URI whether it was sent as one, or without
\* its domain, or without the first segment too.
UrisComplete ==
    told.api # None =>
        \A k \in DOMAIN sent.funding : sent.funding[k].type \in DOMAIN UriOf =>
            LET uri == UriOf[sent.funding[k].type]
            IN  told.funding[k] = <<uri.domain>> \o (IF uri.first = None THEN <<>> ELSE <<uri.first>>)
                                      \o <<Last(sent.funding[k].id)>>

\* What is for Router only is not told.
InternalHidden == told.api # None => told.fields \cap (Internal \cup ForProvider) = {}

\* Neither is the field doi (make_outgoing: "remove metadata.article.doi field (the doi is
\* also in identifier list)").
DoiRemoved == told.api # None => "doi" \notin told.fields

\* What a submission has in a field of the other version is refused, not ignored ("Unexpected
\* field 'affiliations' found").
BothRefused == stage = "stored" => \A i \in DOMAIN sent.authors : ~Both(sent.authors[i])
===============================================================================
