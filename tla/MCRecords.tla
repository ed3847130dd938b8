------------------------------- MODULE MCRecords -------------------------------
(***************************************************************************)
(* What becomes of an article's data, and of the article in the end: what  *)
(* is read of its authors, the licences and embargo it comes with, its     *)
(* files, what the API tells of it, and its delivery to repositories by    *)
(* SWORD; and what administrators write (Records).  As in MCServices each  *)
(* behaviour exercises one of the components, while the others rest.       *)
(***************************************************************************)
EXTENDS RecordsInputs, Records

CONSTANTS
    Exercised,    \* the components to exercise
    LicenceDays,  \* Licences: bound
    SentTo, OutFaults, OutGui   \* SwordOut: repositories, bounds

VARIABLES
    part,         \* the component exercised
    jatsDoc, pass, heap, start, contribs, unread,   \* JatsContribs
    elementStage, element, made,
    mergeStage, base, extra, merged,
    toldStage, sent, kept, told,                    \* NoteVersions
    submission, terms, checkStage, found, doi,      \* SubmissionChecks
    today, stage, source, defaults, licensed,
    account, nextNote, unrouted, routed, duplicate, records, copies, pc, mem, todo, cur,
    scroll, note, parts, save, killed, late, skipped, outFaultCount, gui

contribVars == <<jatsDoc, pass, heap, start, contribs, unread>>
elementVars == <<elementStage, element, made>>
mergeVars == <<mergeStage, base, extra, merged>>
toldVars == <<toldStage, sent, kept, told>>
checkVars == <<submission, terms, checkStage, found, doi>>
licenceVars == <<today, stage, source, defaults, licensed>>
outVars == <<account, nextNote, unrouted, routed, duplicate, records, copies, pc, mem, todo,
             cur, scroll, note, parts, save, killed, late, skipped, outFaultCount, gui>>
vars == <<part, contribVars, elementVars, mergeVars, fileVars, toldVars, requestVars,
          checkVars, messageVars, pageVars, licenceVars, outVars>>

-----------------------------------------------------------------------------
(* The components, with documents of RecordsInputs.  Licences: months of   *)
(* two days, and the days from the second on.                              *)

Licence == INSTANCE Licences WITH
    Jats <- JatsDocs, Crossref <- CrossrefRecords, Submitted <- SubmittedDocs,
    Defaults <- {[url |-> "none", months |-> 1], [url |-> "open", months |-> -1],
                 [url |-> "open", months |-> 0], [url |-> "open", months |-> 1]},
    MonthDays <- 2, FirstDay <- 2, LastDay <- LicenceDays, note <- licensed

Contribs == INSTANCE JatsContribs WITH
    Docs <- ContribDocs, NamedIn <- {<<"noether", "noether@">>},
    doc <- jatsDoc, todo <- unread, result <- contribs

Element == INSTANCE JatsElements WITH
    Affs <- AffElements, Awards <- AwardGroups, stage <- elementStage

Merge == INSTANCE NoteMerge WITH
    Sources <- MergeSources, Email <- {"e1", "e2"}, Postcode <- {"zip"},
    stage <- mergeStage, note <- merged

Versions == INSTANCE NoteVersions WITH
    Submissions <- SentVersions, UriOf <- UriOfTypes, stage <- toldStage, note <- kept

(* SubmissionChecks: a date and a month, a good and a bad name of an organisation. *)

Checks == INSTANCE SubmissionChecks WITH
    Docs <- [p \in ChangePairs |-> SubmittedWith(p)],
    Terms <- [route : {"api", "ftp"}, type : {"b", "u"}, default : BOOLEAN],
    DateParts <- "2024-05-06" :> <<"2024", "05", "06">> @@ "2024-05" :> <<"2024", "05">>,
    ValidParts <- <<{"2024"}, {"05", "5"}, {"06"}>>,
    OrgOf <- [o \in {"University", "Department, University"} |->
                [commas |-> 1, problem |-> o # "University", university |-> TRUE,
                 school |-> FALSE]],
    OpenUrls <- {"open"}, LowerOf <- "10.1/X" :> "10.1/x" @@ "5" :> "5",
    note <- submission, stage <- checkStage

(* AccountMessages: two deposits of an account that failed.  ManagedContent: the first text. *)

FailedDeposits == [a \in {"a", "b"} |-> IF a = "a" THEN {"e1", "e2"} ELSE {}]
FirstText == [text |-> "a", sort_value |-> "1"]

(* SWORD-out: one notification, of whose duplicates one repository is told. *)

Out == INSTANCE SwordOut WITH
    Repo <- SentTo, NoRepo <- "nobody", WantsEmail <- SentTo \cap {"r1"}, MaxNote <- 1,
    Doi <- {"a"}, DoiOf <- [n \in {1} |-> "a"], WithFiles <- {}, RetryLimit <- 1,
    MaxFaults <- OutFaults, MaxGui <- OutGui, faults <- outFaultCount

ASSUME RecordsAssumption ==
    /\ Merge!MergeAssumption /\ Licence!LicencesAssumption

-----------------------------------------------------------------------------
Init ==
    /\ part \in Exercised
    /\ Out!Init
    /\ IF part = "contribs" THEN Contribs!Init
       ELSE /\ jatsDoc = "none" /\ pass = "end" /\ heap = <<>> /\ start = 0
            /\ unread = <<>> /\ contribs = <<>>
    /\ IF part = "elements" THEN Element!Init
       ELSE elementStage = "aff" /\ element = "none" /\ made = "none"
    /\ IF part = "merge" THEN Merge!Init
       ELSE mergeStage = "rests" /\ base = "none" /\ extra = "none" /\ merged = "none"
    /\ IF part = "versions" THEN Versions!Init
       ELSE /\ toldStage = "refused" /\ sent = "none" /\ kept = "none" /\ told = "none"
    /\ IF part = "checks" THEN Checks!Init
       ELSE /\ submission = "none" /\ terms = "none" /\ checkStage = "received"
            /\ found = {} /\ doi = "none"
    /\ part # "requests" => asked = [q \in Requester |-> OneAsked]
    /\ part # "content" => package = NoArchive /\ pdfs = <<>>
    /\ RecordingInit
    /\ (part # "pages" => wanted = {}) /\ (part # "content" => packaging["r1"] = "none")
    /\ IF part = "licences" THEN Licence!Init
       ELSE /\ today = 2 /\ stage = "source" /\ source = "none" /\ defaults = "none"
            /\ licensed = "none"

Others(p) ==
    /\ part = p
    /\ UNCHANGED part
    /\ IF p = "contribs" THEN TRUE ELSE UNCHANGED contribVars
    /\ IF p = "elements" THEN TRUE ELSE UNCHANGED elementVars
    /\ IF p = "merge" THEN TRUE ELSE UNCHANGED mergeVars
    /\ IF p = "content" THEN TRUE ELSE UNCHANGED fileVars
    /\ IF p = "versions" THEN TRUE ELSE UNCHANGED toldVars
    /\ IF p = "requests" THEN TRUE ELSE UNCHANGED requestVars
    /\ IF p = "checks" THEN TRUE ELSE UNCHANGED checkVars
    /\ IF p = "messages" THEN TRUE ELSE UNCHANGED messageVars
    /\ IF p = "pages" THEN TRUE ELSE UNCHANGED pageVars
    /\ IF p = "licences" THEN TRUE ELSE UNCHANGED licenceVars
    /\ IF p = "sword_out" THEN TRUE ELSE UNCHANGED outVars

Next ==
    \/ Others("contribs") /\ Contribs!Next
    \/ Others("elements") /\ Element!Next
    \/ Others("merge") /\ Merge!Next
    \/ Others("content") /\ Content!Next
    \/ Others("versions") /\ Versions!Next
    \/ Others("requests") /\ Requests!Next
    \/ Others("checks") /\ Checks!Next
    \/ Others("messages") /\ Messages!Next
    \/ Others("pages") /\ Pages!Next
    \/ Others("licences") /\ Licence!Next
    \/ Others("sword_out") /\ Out!Next

Spec == Init /\ [][Next]_vars

\* The fairness of SwordOut, when it is exercised.
FairSpec ==
    /\ Spec
    /\ WF_outVars(part = "sword_out" /\ Out!Step)
    /\ \A r \in SentTo : SF_outVars(part = "sword_out" /\ Out!BeginAccount(r))

-----------------------------------------------------------------------------
(* Properties: those of the components, each stated in its module.         *)

\* The variables of the component that is exercised have their types.
TypeOK ==
    /\ part = "contribs" => Contribs!TypeOK
    /\ part = "elements" => Element!TypeOK
    /\ part = "merge" => Merge!TypeOK
    /\ part = "content" => Content!TypeOK
    /\ part = "versions" => Versions!TypeOK
    /\ part = "requests" => Requests!TypeOK
    /\ part = "checks" => Checks!TypeOK
    /\ part = "messages" => Messages!TypeOK
    /\ part = "pages" => Pages!TypeOK
    /\ part = "licences" => Licence!TypeOK
    /\ part = "sword_out" => Out!TypeOK

\* NoteMerge: what two sources say of an article becomes one (shared/models/note.py);
\* JatsContribs, JatsElements: everybody is read once and gets his affiliations and their
\* e-mail addresses; of each affiliation the whole text is kept, in its order, and of each
\* grant its funder's identifiers (jper/models/jats.py).  SubmissionChecks: a submission in
\* which no error is found is complete, its DOI is recorded, and the terms of its publisher
\* only say how serious a finding is (jper/pub_testing.py).
MetadataKept ==
    /\ part = "merge" =>
          /\ Merge!AuthorsKept /\ Merge!FactsMerged /\ Merge!OrganisationsMerged
          /\ Merge!RefusedIfContradictory /\ Merge!EmailsOwn
    /\ part = "contribs" =>
          Contribs!EveryoneRead /\ Contribs!AffsGiven /\ Contribs!EmailsGiven
    /\ part = "elements" => Element!TextInOrder /\ Element!FundersNoted
    /\ part = "checks" =>
          Checks!ValidIsComplete /\ Checks!DoiRecorded /\ Checks!TermsOnlyWeigh

\* JatsContribs: everyone gets the e-mail addresses in his affiliations.
EmailsOfOwnAffs == part = "contribs" => Contribs!EmailsOfOwnAffs

\* JatsElements: no text of an affiliation is lost.
OtherTextKept == part = "elements" => Element!OtherTextKept

\* NoteMerge: what would have matched the one or the other source still matches.
MatchDataKept == part = "merge" => Merge!MatchDataKept

\* NoteContent: no part of a file is sent as if it were the file.
CopiesWhole == Content!CopiesWhole

\* NoteContent: all PDF files are unpacked.
AllPdfsUnpacked == Content!AllPdfsUnpacked

\* ApiRequests: each submission of a list has its own place in the archive.
EachArchived == part = "requests" => Requests!EachArchived

\* ApiRequests: what is refused has not been created.
RefusedNotCreated == part = "requests" => Requests!RefusedNotCreated

\* ApiRequests: what is not valid is not called valid.
ValidMeansValid == part = "requests" => Requests!ValidMeansValid

\* NoteVersions: what was sent in one version of the API is told in the other, but what is
\* for Router only (jper/views/webapi.py, shared/models/note.py).
VersionsAgree ==
    part = "versions" =>
        Versions!SentIsTold /\ Versions!UrisComplete /\ Versions!InternalHidden

\* NoteVersions: the field doi is not told.
DoiRemoved == part = "versions" => Versions!DoiRemoved

\* NoteVersions: a field of the other version is refused.
BothRefused == part = "versions" => Versions!BothRefused

\* Licences: an embargo ends when an open licence comes into force, and repositories are
\* told of the best licence of those for the article's version (jper/routing.py,
\* shared/models/note.py, jper/models/jats.py).
LicencesAgree ==
    part = "licences" =>
        Licence!EmbargoAgrees /\ Licence!BestToldOf /\ Licence!VersionAgrees

\* Licences: the default embargo of a publisher is kept to.
DefaultEmbargoKept == part = "licences" => Licence!DefaultEmbargoKept

\* Licences: licences that all say the same use are accepted.
TaggedAccepted == part = "licences" => Licence!TaggedAccepted

\* Licences: contradictory publication dates are refused.
ContradictionsRefused == part = "licences" => Licence!ContradictionsRefused

\* SWORD-out: a notification that was routed in order is given to its repository.
EventuallySent == Out!EventuallySent
===============================================================================
