------------------------------ MODULE JatsElements ------------------------------
(***************************************************************************)
(* What is made of single elements of a JATS file (jper/models/jats.py):   *)
(* of an <aff>, a dictionary with what its parts say (the organisation,    *)
(* street, city, ...) and, if there is text outside of these parts, a text *)
(* "raw" in which all is put together again (_walk_aff, _extract_aff); and *)
(* of the <award-group>s, the grants and their funders (grant_funding).    *)
(*                                                                         *)
(* A text is a sequence of words.  An element is [tag, key, text, kids,    *)
(* tail], the tail being the text that follows it.  The tags are           *)
(*   "set"     <city>, <state>, <country>, <postal-code>: the part `key`;  *)
(*   "append"  <institution>, <addr-line>: the part `key`, which these may *)
(*             give several times;                                         *)
(*   "id", "email"  <institution-id>, whose key is its type, <email>;      *)
(*   "skip"    <sup>, <label>, <phone>, whose text is left out;            *)
(*   "format"  any other, such as <bold>.                                  *)
(***************************************************************************)
EXTENDS Integers, FiniteSets, Sequences, SequencesExt

CONSTANTS
    Affs,       \* <aff> elements, with tag "aff"
    Awards      \* <award-group> elements

VARIABLES
    stage,      \* "aff" or "award", and "read"
    element,
    made        \* what was made of it

vars == <<stage, element, made>>

None == "none"

TypeOK ==
    /\ stage \in {"aff", "award", "read"}
    /\ stage # "read" => made = None

-----------------------------------------------------------------------------
(* An affiliation.  `w` is what the walk has so far: parts, the text after *)
(* each part or before all of them ("aff"), and the order of the parts.    *)

At(f, key) == IF key \in DOMAIN f THEN f[key] ELSE <<>>
With(f, key, text) ==
    IF text = <<>> THEN f ELSE [k \in DOMAIN f \cup {key} |-> IF k = key THEN text ELSE f[k]]

Ordered(w, key) == [w EXCEPT !.order = IF key \in Range(@) THEN @ ELSE Append(@, key)]

\* Text that is in none of the parts goes to the part it follows.
Later(w, content, last, text) ==
    IF last = None THEN [w |-> w, content |-> content \o text, last |-> last]
    ELSE [w |-> [w EXCEPT !.raw = With(@, last, At(@, last) \o text)], content |-> content,
          last |-> last]

\* What an element and what follows it adds when all in it has been read.
Closed(w, el, content) ==
    CASE el.tag = "set" ->
            [w EXCEPT !.parts = With(@, el.key, content), !.raw = With(@, el.key, el.tail)]
      [] el.tag = "append" ->
            [Ordered(w, el.key) EXCEPT !.parts = With(@, el.key, At(@, el.key) \o content),
                                       !.raw = With(@, el.key, el.tail)]
      [] el.tag = "email" ->
            [Ordered(w, "email") EXCEPT !.emails = @ \cup Range(content),
                                        !.raw = With(@, "email", el.tail)]
      [] el.tag = "id" -> [w EXCEPT !.ids = @ \o IF el.key = None THEN <<>> ELSE content]
      [] el.tag = "aff" -> [w EXCEPT !.raw = With(@, "aff", content)]

KeyOf(el) ==
    IF el.tag \in {"aff", "email"} THEN el.tag ELSE IF el.tag = "id" THEN None ELSE el.key

\* The walk through an element: what there is then, the text it leaves to the element it is
\* in, and the part that was last.
RECURSIVE Walk(_, _)
Walk(w, el) ==
    LET Kid(r, kid) ==
            LET s == Walk(r.w, kid)
            IN  IF s.last # None THEN [w |-> s.w, content |-> r.content, last |-> s.last]
                ELSE Later(s.w, r.content, r.last, s.content)
        begun == [w |-> IF el.tag \in {"aff", "set"} THEN Ordered(w, KeyOf(el)) ELSE w,
                  content |-> IF el.tag = "skip" THEN <<>> ELSE el.text, last |-> None]
        r == FoldLeft(Kid, begun, el.kids)
    IN  IF el.tag \in {"skip", "format"}
        THEN [Later(r.w, r.content, r.last, el.tail) EXCEPT !.last = None]
        ELSE [w |-> Closed(r.w, el, r.content), content |-> <<>>, last |-> KeyOf(el)]

Nothing == [k \in {} |-> <<>>]
Empty == [parts |-> Nothing, raw |-> Nothing, order |-> <<>>, emails |-> {}, ids |-> <<>>]

\* The parts in the order in which they were met, each with what follows it.
RawText(w) ==
    IF DOMAIN w.raw = {} THEN <<>>
    ELSE FlattenSeq([i \in DOMAIN w.order |->
            At(w.parts, w.order[i]) \o At(w.raw, w.order[i])]) \o w.ids
AffOf(el) ==
    LET w == Walk(Empty, el).w
    IN  [parts |-> w.parts, emails |-> w.emails, ids |-> w.ids, raw |-> RawText(w)]

-----------------------------------------------------------------------------
(* Grants.  An <award-group> is [given, source, numbers]: whether it has a *)
(* <funding-source>, and what is in that, a sequence of [id, type, name].  *)

\* An id is noted once, with the first type that is not the default, "Id".
TypeOf(part) ==
    IF part.type # None THEN part.type ELSE IF part.id = "url" THEN "doi" ELSE "Id"
Noted(ids, part) ==
    IF part.id = None THEN ids
    ELSE LET i == SelectInSeq(ids, LAMBDA x : x.id = part.id)
         IN  IF i = 0 THEN Append(ids, [id |-> part.id, type |-> TypeOf(part)])
             ELSE IF ids[i].type = "Id" THEN [ids EXCEPT ![i].type = TypeOf(part)] ELSE ids
FunderIds(source) == FoldLeft(Noted, <<>>, source)
Funding(awards) ==
    LET known == SelectSeq(awards, LAMBDA a : a.given)
    IN  [i \in DOMAIN known |->
            [ids |-> FunderIds(known[i].source), numbers |-> known[i].numbers,
             name |-> SelectSeq([k \in DOMAIN known[i].source |-> known[i].source[k].name],
                                LAMBDA n : n # None)]]

-----------------------------------------------------------------------------
Init ==
    /\ made = None
    /\ \/ stage = "aff" /\ element \in Affs
       \/ stage = "award" /\ element \in Awards

Read ==
    /\ stage \in {"aff", "award"}
    /\ made' = IF stage = "aff" THEN AffOf(element) ELSE Funding(element)
    /\ stage' = "read"
    /\ UNCHANGED element

Next == Read

Spec == Init /\ [][Next]_vars

-----------------------------------------------------------------------------
(* Properties.                                                             *)

RECURSIVE Within(_), Words(_)
\* All elements in an element, and the text in it and behind it in the order of the file.
Within(el) == {el} \cup UNION {Within(el.kids[i]) : i \in DOMAIN el.kids}
Words(el) ==
    (IF el.tag = "skip" THEN <<>> ELSE el.text)
        \o FlattenSeq([i \in DOMAIN el.kids |-> Words(el.kids[i])]) \o el.tail

IsAff == stage = "read" /\ element \in Affs
Tagged(tags) == {el \in Within(element) : el.tag \in tags}
Emails == UNION {Range(el.text) : el \in Tagged({"email"})}
Ids == {el \in Tagged({"id"}) : el.key # None}
WordsOf(els) == UNION {Range(el.text) : el \in els}
Plain ==
    SelectSeq(Words(element), LAMBDA word : word \notin Emails \cup WordsOf(Tagged({"id"})))
Kept == UNION {Range(made.parts[k]) : k \in DOMAIN made.parts} \cup Range(made.raw)
\* Each part is there once (as is each word), and text follows no identifier.
Once ==
    /\ Cardinality(Range(Words(element))) = Len(Words(element))
    /\ \A e1, e2 \in Tagged({"set", "append", "email"}) : e1 # e2 => KeyOf(e1) # KeyOf(e2)
    /\ \A el \in Tagged({"id"}) : el.tail = <<>>
\* Parts are not within other elements.
Flat == \A i \in DOMAIN element.kids :
            element.kids[i].tag = "format" =>
                Within(element.kids[i]) \cap Tagged({"set", "append", "email"}) = {}

\* Of an affiliation in which each part is there once, every word is kept, once in the
\* text if there is one, which has the order of the file; e-mail addresses are not in it,
\* and identifiers are at its end, but those without a type, which are left out.
TextInOrder ==
    IsAff /\ Once =>
        /\ Range(Plain) \subseteq Kept
        /\ made.raw # <<>> =>
              /\ Len(made.raw) = Len(Plain) + Len(made.ids)
              /\ Flat => made.raw = Plain \o made.ids
        /\ made.emails = Emails /\ Kept \cap Emails = {} /\ Range(made.ids) = WordsOf(Ids)
        /\ Kept \cap WordsOf(Tagged({"id"}) \ Ids) = {}

\* So is text outside of the parts in any case ("Text outside of target XML elements is
\* captured and stored in raw_dict structure").
OtherTextKept == IsAff => Range(Plain) \subseteq Kept

\* A grant is there for each award with a source, in their order; each id of a funder is
\* there once, and has the default type only if no part of the source has another.
FundersNoted ==
    stage = "read" /\ element \in Awards =>
        /\ [i \in DOMAIN made |-> made[i].numbers] =
              LET known == SelectSeq(element, LAMBDA a : a.given)
              IN  [i \in DOMAIN known |-> known[i].numbers]
        /\ \A i \in DOMAIN made : \A k, l \in DOMAIN made[i].ids :
              made[i].ids[k].id = made[i].ids[l].id => k = l
        /\ \A a \in Range(element) : \A part \in Range(a.source) :
              part.id # None => \E f \in Range(made) : \E x \in Range(f.ids) :
                  x.id = part.id /\ (TypeOf(part) # "Id" => x.type # "Id")
===============================================================================
