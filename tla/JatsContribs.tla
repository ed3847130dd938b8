------------------------------ MODULE JatsContribs ------------------------------
(***************************************************************************)
(* Who wrote an article, and where they work, as its JATS file tells       *)
(* (JATS._make_contribs in jper/models/jats.py, and packages.py): the      *)
(* <contrib> elements are read one after the other, first the authors and  *)
(* then the others, and each gets its affiliations and e-mail addresses.   *)
(*                                                                         *)
(* Affiliations are dictionaries, and those of a group without id are the  *)
(* same dictionaries for everybody in the group, so they are objects here: *)
(* `heap` has what each of them holds.  How one is made of its element is  *)
(* in JatsAffiliation.                                                     *)
(***************************************************************************)
EXTENDS Integers, FiniteSets, Sequences, SequencesExt

CONSTANTS
    Docs,        \* what the files have
    NamedIn      \* the addresses that have the surname of someone in front of the @

VARIABLES
    doc, pass,   \* the file, and who of it is being read: "author", "other", or "end";
                 \* "refused" if it is no valid JATS file
    heap,        \* the dictionaries: [text, emails]
    start,       \* those of the groups are behind this position in it
    todo,        \* places <<group, contributor>> still to be read in this pass
    result       \* contributors [at, corresp, emails, affs], the latter being positions

vars == <<doc, pass, heap, start, todo, result>>

None == "none"
NoPlace == <<0, 0>>

\* An <aff> is [id, text, emails], a <contrib> [name, kind, corresp, emails, affs, xrefs,
\* mail, untyped], where xrefs are references to affiliations and mail some to <corresp>,
\* and untyped says that it has an <ext-link> without a type, which is an error.  A group
\* [affs, contribs, inside] may be in the <collab-wrap> of a <contrib>, which is then a
\* group of people without a surname.
Places(d) == UNION {{g} \X DOMAIN d.groups[g].contribs : g \in DOMAIN d.groups}
ContribAt(d, place) == d.groups[place[1]].contribs[place[2]]

TypeOK ==
    /\ pass \in {"author", "other", "end", "refused"} /\ start \in 0 .. Len(heap)
    /\ \A i \in DOMAIN heap : DOMAIN heap[i] = {"text", "emails"}
    /\ Range(todo) \subseteq Places(doc)
    /\ \A i \in DOMAIN result :
          result[i].at \in Places(doc) /\ Range(result[i].affs) \subseteq DOMAIN heap

-----------------------------------------------------------------------------
(* Dictionaries.  Those of affiliations outside of groups are made once,   *)
(* those of groups (<contrib-group>) in each pass.                         *)

DictOf(aff) == [text |-> aff.text, emails |-> aff.emails]
DictsOf(affs) == [i \in DOMAIN affs |-> DictOf(affs[i])]
GroupDicts(d) == FlattenSeq([g \in DOMAIN d.groups |-> DictsOf(d.groups[g].affs)])

\* The affiliations of group g, or outside of groups, and the place of one in the heap.
AffsIn(g) == IF g = 0 THEN doc.affs ELSE doc.groups[g].affs
At(g, i) ==
    IF g = 0 THEN i
    ELSE start + i + FoldLeft(LAMBDA n, h : n + Len(h.affs), 0, SubSeq(doc.groups, 1, g - 1))

\* Those without id, and those under an id, of which the last counts.
Positions(g, Test(_)) ==
    LET chosen == SelectSeq([i \in DOMAIN AffsIn(g) |-> i], Test)
    IN  [k \in DOMAIN chosen |-> At(g, chosen[k])]
WithoutId(g) == Positions(g, LAMBDA i : AffsIn(g)[i].id = None)
IsUnder(g, i, id) == id # None /\ i = SelectLastInSeq(AffsIn(g), LAMBDA a : a.id = id)
Under(g, id) == Positions(g, LAMBDA i : IsUnder(g, i, id))
WithId(g) == Positions(g, LAMBDA i : IsUnder(g, i, AffsIn(g)[i].id))

-----------------------------------------------------------------------------
(* The order of reading: those in the <collab-wrap> of a contributor come  *)
(* before him, and are read whatever their kind.                           *)

PlacesIn(d, g) == [c \in DOMAIN d.groups[g].contribs |-> <<g, c>>]
Inside(d, place) ==
    FlattenSeq([g \in DOMAIN d.groups |->
        IF d.groups[g].inside = place THEN PlacesIn(d, g) ELSE <<>>])
Order(d, kind) ==
    LET Read(place) == IF ContribAt(d, place).kind # kind THEN <<>>
                       ELSE Append(Inside(d, place), place)
        outer == Inside(d, NoPlace)
    IN  FlattenSeq([i \in DOMAIN outer |-> Read(outer[i])])

Init ==
    /\ doc \in Docs
    /\ pass = "author"
    /\ heap = DictsOf(doc.affs) \o GroupDicts(doc)
    /\ start = Len(doc.affs)
    /\ todo = Order(doc, "author")
    /\ result = <<>>

-----------------------------------------------------------------------------
(* One contributor.                                                        *)

\* A reference is followed once, and not if it is to an affiliation of his own; it leads
\* to one of the group, or else to one outside of groups.
Refs(c) ==
    LET own == {c.affs[i].id : i \in DOMAIN c.affs}
        Follow(seen, id) == IF id \in own \cup Range(seen) THEN seen ELSE Append(seen, id)
    IN  FoldLeft(Follow, <<>>, c.xrefs)
Referred(g, c) ==
    LET refs == Refs(c)
    IN  FlattenSeq([i \in DOMAIN refs |->
            IF Under(g, refs[i]) # <<>> THEN Under(g, refs[i]) ELSE Under(0, refs[i])])

Copies(positions) == [i \in DOMAIN positions |-> heap[positions[i]]]
NobodyRefers(g) ==
    \A i \in DOMAIN doc.groups[g].contribs : doc.groups[g].contribs[i].xrefs = <<>>

\* A contributor has the dictionaries of the group that have no id, and new ones: of his
\* own affiliations, and copies of those he refers to.  Who has none of these gets copies
\* of what has no id outside of groups, or of all there is in the group.
NewDicts(g, c) ==
    LET his == DictsOf(c.affs) \o Copies(Referred(g, c))
    IN  IF his # <<>> \/ WithoutId(g) # <<>> THEN his
        ELSE IF WithoutId(0) # <<>> THEN Copies(WithoutId(0))
        ELSE IF NobodyRefers(g) THEN Copies(WithId(g)) ELSE <<>>

\* Whether several contributors refer to a <corresp> element.
IsShared(rid) ==
    LET refs == {<<p, k>> \in Places(doc) \X (1 .. 2) :
                    k \in DOMAIN ContribAt(doc, p).mail /\ ContribAt(doc, p).mail[k] = rid}
    IN  Cardinality(refs) > 1
\* Mutant: all of them go to everyone who refers to it.
CorrespEmailsOfAll(c) == UNION {doc.corresp[rid] : rid \in Range(c.mail)}
\* Addresses of <corresp> elements: those of a shared one go to whom they name.
CorrespEmails(c) ==
    UNION {{e \in doc.corresp[rid] : IsShared(rid) => <<c.name, e>> \in NamedIn} :
              rid \in Range(c.mail)}

\* E-mail addresses are taken out of the dictionaries (_process_contrib).
Read ==
    /\ todo # <<>> /\ ~ContribAt(doc, Head(todo)).untyped
    /\ LET g == Head(todo)[1]
           c == ContribAt(doc, Head(todo))
           all == heap \o NewDicts(g, c)
           affs == WithoutId(g) \o [i \in DOMAIN NewDicts(g, c) |-> Len(heap) + i]
       IN  /\ heap' = [i \in DOMAIN all |->
                          IF i \in Range(affs) THEN [all[i] EXCEPT !.emails = {}] ELSE all[i]]
           /\ result' = Append(result,
                 [at |-> Head(todo), corresp |-> c.corresp \/ c.mail # <<>>, affs |-> affs,
                  emails |-> c.emails \cup CorrespEmails(c)
                                \cup UNION {all[i].emails : i \in Range(affs)}])
    /\ todo' = Tail(todo)
    /\ UNCHANGED <<doc, pass, start>>

\* The whole file is refused for an <ext-link> without a type (InvalidJATSError), once
\* those in the <collab-wrap> have been read.
Refuse ==
    /\ todo # <<>> /\ ContribAt(doc, Head(todo)).untyped
    /\ pass' = "refused" /\ todo' = <<>>
    /\ UNCHANGED <<doc, heap, start, result>>

\* The others are read by another call, which makes new dictionaries for the groups.
NextPass ==
    /\ todo = <<>>
    /\ \/ /\ pass = "author" /\ pass' = "other"
          /\ heap' = heap \o GroupDicts(doc) /\ start' = Len(heap)
          /\ todo' = Order(doc, "other")
       \/ pass = "other" /\ pass' = "end" /\ UNCHANGED <<heap, start, todo>>
    /\ UNCHANGED <<doc, result>>

Next == Read \/ Refuse \/ NextPass

Spec == Init /\ [][Next]_vars

-----------------------------------------------------------------------------
(* Properties.                                                             *)

EveryAff ==
    Range(doc.affs) \cup UNION {Range(doc.groups[g].affs) : g \in DOMAIN doc.groups}
        \cup UNION {Range(ContribAt(doc, p).affs) : p \in Places(doc)}
TextsOf(r) == {heap[i].text : i \in Range(r.affs)}
AffsOf(r) == {a \in EveryAff : a.text \in TextsOf(r)}
EmailsOf(affs) == UNION {a.emails : a \in affs}
\* Affiliations without id of the contributor's group, and those who read them before him.
Common(r) == {a \in Range(doc.groups[r.at[1]].affs) : a.id = None}
IsFirst(i) ==
    \A k \in 1 .. i - 1 :
        result[k].at[1] = result[i].at[1] =>
            (ContribAt(doc, result[k].at).kind # ContribAt(doc, result[i].at).kind
                /\ doc.groups[result[i].at[1]].inside = NoPlace)

\* Everyone is read once, those in the <collab-wrap> of another one before him, unless the
\* file is refused, which it is if and only if somebody has a link without a type.
EveryoneRead ==
    /\ \A i, k \in DOMAIN result : i # k => result[i].at # result[k].at
    /\ pass = "end" => {result[i].at : i \in DOMAIN result} = Places(doc)
    /\ pass \in {"end", "refused"} =>
          (pass = "refused") = (\E p \in Places(doc) : ContribAt(doc, p).untyped)
    /\ \A i \in DOMAIN result : \A p \in Range(Inside(doc, result[i].at)) :
          \E k \in 1 .. i - 1 : result[k].at = p

\* Nobody is left without an affiliation that there is for him: of his own, of the group,
\* under an id he refers to; failing these one without id outside of groups; failing this
\* one of a group nobody in which refers to any.  Nobody gets one of another group, or the
\* own one of another contributor.
AffsGiven ==
    \A i \in DOMAIN result :
        LET r == result[i]
            c == ContribAt(doc, r.at)
            group == doc.groups[r.at[1]]
            ids == {a.id : a \in Range(group.affs \o doc.affs)} \ {None}
        IN  /\ {a \in Range(group.affs) : a.id = None} \cup Range(c.affs) \subseteq AffsOf(r)
            /\ \A x \in Range(c.xrefs) \cap ids : \E a \in AffsOf(r) : a.id = x
            /\ AffsOf(r) \subseteq Range(c.affs \o group.affs \o doc.affs)
            /\ r.affs = <<>> => /\ \A a \in Range(doc.affs) : a.id # None
                                /\ Range(c.xrefs) \cap ids = {}
                                /\ group.affs = <<>> \/ ~NobodyRefers(r.at[1])

\* Everyone gets the addresses in his affiliations, but of those that the whole group has
\* the first one who is read; and none that is only in affiliations of others.  Addresses
\* are not left in affiliations, whose text is shown to everybody.
EmailsGiven ==
    \A i \in DOMAIN result :
        LET r == result[i]
            c == ContribAt(doc, r.at)
            own == EmailsOf(AffsOf(r) \ Common(r)) \cup (IF IsFirst(i) THEN EmailsOf(Common(r)) ELSE {})
            mail == UNION {doc.corresp[rid] : rid \in Range(c.mail)}
        IN  /\ own \cup c.emails \subseteq r.emails
            /\ \A e \in r.emails \ (own \cup c.emails) : e \in mail
            /\ \A k \in DOMAIN result : \A e \in r.emails \cap result[k].emails :
                  i # k => \/ e \in c.emails \cup EmailsOf(AffsOf(r))
                           \/ <<c.name, e>> \in NamedIn
                           \/ \A rid \in Range(c.mail) : e \in doc.corresp[rid] =>
                                 rid \notin Range(ContribAt(doc, result[k].at).mail)
            /\ \A d \in Range(r.affs) : heap[d].emails = {}

\* Everyone gets the addresses in his affiliations ("We store a COPY of dict (not just a
\* reference to it) because we pop the email later").
EmailsOfOwnAffs ==
    \A i \in DOMAIN result : EmailsOf(AffsOf(result[i])) \subseteq result[i].emails
===============================================================================
