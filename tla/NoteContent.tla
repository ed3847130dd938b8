------------------------------ MODULE NoteContent ------------------------------
(***************************************************************************)
(* The files of a notification.  They come in an archive, which is stored  *)
(* (jper/packages.py); routing converts or unpacks it as the repositories  *)
(* need it (repackage in jper/routing.py, jper/unpacked.py) and notes      *)
(* links; what the API tells of the notification (make_outgoing) has URLs  *)
(* for these links, with which repositories fetch the files (get_content   *)
(* in jper/api.py); SWORD-out takes the files itself                       *)
(* (jper_sword_out/deposit.py); and after some time notifications and      *)
(* files are deleted, each on its own (jper/scheduler.py).                 *)
(*                                                                         *)
(* A file in an archive is [name, kind]; what a stored file has in it is   *)
(* the set of the names of the archive's files that it holds.  A path in   *)
(* the store is a sequence of names, and <<>> stands for the archive that  *)
(* came, which has a name of its own for each format.  Links are a set: of *)
(* their order only the place of links to PDF files elsewhere matters.     *)
(***************************************************************************)
EXTENDS Integers, FiniteSets, Sequences, Functions

CONSTANTS
    Packages,     \* archives [format, files]; the format None is for no archive
    PdfLinks,     \* sequences of [url, named], links to PDF files elsewhere
    Repo,
    Settings,     \* the packaging that the accounts of repositories may have
    StoreDays,    \* files are deleted when they are older than this
    KeepDays,     \* and notifications when older than this
    LimitDays,    \* the download limit that repositories are told of
    RouteDays,    \* routing comes at most so many days after the archive
    MaxDay, MaxFaults   \* bounds

VARIABLES
    stage,        \* "received", "refused", "unrouted", "unpacking", "routed" or "deleted"
    package, pdfs,   \* what came
    store,        \* what is in the container of the notification: path -> names
    changed,      \* the day the container's directory was last changed
    packaging,    \* the packaging each repository's account has
    needs,        \* the packaging that those it is routed to had then
    links, unpack,   \* links of the notification, places in the archive left to write
    day, routedOn, cache,   \* copies of PDF files kept by SWORD-out: url -> "none", ...
    answer,       \* the deposit just made, and what came of it
    faults

vars == <<stage, package, pdfs, store, changed, packaging, needs, links, unpack, day, routedOn,
          cache, answer, faults>>

None == "none"
Folder == "eprints-rioxx"
Rest == "non-pdf-files.zip"
JatsFile == <<"filesandjats_jats.xml">>
Urls == {pdf.url : pdf \in UNION {Range(s) : s \in PdfLinks}}
Accounts == Repo \cup {"sender", "publisher"}
NamesIn(p) == {f.name : f \in Range(p.files)}
Names == NamesIn(package)

\* A file has a place of its own in an archive; those whose names end in .pdf are not named
\* as what the others are put in.
ContentAssumption ==
    /\ {StoreDays, KeepDays, LimitDays, RouteDays, MaxDay, MaxFaults} \subseteq Nat
    /\ RouteDays + LimitDays <= StoreDays /\ LimitDays <= KeepDays
    /\ Repo \cap {"sender", "publisher"} = {}
    /\ Settings \subseteq [Repo -> {None, "simple", "unpacked"}]
    /\ \A s \in PdfLinks : s \in Seq([url : Urls, named : BOOLEAN])
    /\ \A p \in Packages :
          /\ p.format \in {None, "simple", "jats"} /\ p.files \in Seq(Range(p.files))
          /\ \A i, j \in DOMAIN p.files : i # j => p.files[i].name # p.files[j].name
          /\ \A i \in DOMAIN p.files : p.files[i].kind = "pdf" => p.files[i].name # Rest

NoAnswer == [kind |-> None]
TypeOK ==
    /\ stage \in {"received", "refused", "unrouted", "unpacking", "routed", "deleted"}
    /\ package \in Packages /\ pdfs \in PdfLinks
    /\ \A path \in DOMAIN store : store[path] \subseteq Names
    /\ {changed, day, routedOn} \subseteq 0 .. MaxDay /\ faults \in 0 .. MaxFaults
    /\ packaging \in [Repo -> {None, "simple", "unpacked"}]
    /\ DOMAIN needs \subseteq Repo /\ cache \in [Urls -> {None, "part", "whole"}]
    /\ \A l \in links : DOMAIN l = {"type", "format", "access", "packaging", "cloc", "url"}

-----------------------------------------------------------------------------
(* Receiving an archive (PackageManager.ingest).                           *)

ZipName(format) == IF format = "jats" THEN <<"ArticleFilesJATS.zip">> ELSE <<"ArticleFiles.zip">>

\* The first of the XML files whose root is <article> is the JATS file; one that cannot be
\* read is an error, whether or not there is another.
Article ==
    LET xml == {i \in DOMAIN package.files : package.files[i].kind \in {"jats", "broken"}}
    IN  {package.files[i] : i \in {k \in xml : \A j \in xml : k <= j}}
Readable == package.format # "jats" \/ \E f \in Article : f.kind = "jats"

Stored == IF package.format = None THEN <<>>
          ELSE [path \in {ZipName(package.format)} \cup (IF package.format = "jats" THEN {JatsFile} ELSE {})
                   |-> IF path = JatsFile THEN {f.name : f \in Article} ELSE Names]

Init ==
    /\ stage = "received" /\ package \in Packages /\ pdfs \in PdfLinks
    /\ store = <<>> /\ packaging \in Settings
    /\ needs = <<>> /\ links = {} /\ unpack = {} /\ answer = NoAnswer
    /\ changed = 0 /\ day = 0 /\ routedOn = 0 /\ faults = 0 /\ cache = [u \in Urls |-> None]

Receive ==
    /\ stage = "received"
    /\ IF Readable THEN stage' = "unrouted" /\ store' = Stored
                   ELSE stage' = "refused" /\ UNCHANGED store
    /\ UNCHANGED <<package, pdfs, changed, packaging, needs, links, unpack, day, routedOn, cache,
                   faults>>
    /\ answer' = NoAnswer

-----------------------------------------------------------------------------
(* Routing.                                                                *)

Link(type, format, access, pack, cloc, url) ==
    [type |-> type, format |-> format, access |-> access, packaging |-> pack,
     cloc |-> cloc, url |-> url]
NoPath == <<None>>
Url(url, named, place) == [url |-> url, named |-> named, place |-> place]
NoUrl == Url(None, FALSE, 0)
PublicLinks ==
    {Link("fulltext", "pdf", "public", None, NoPath, Url(pdfs[i].url, pdfs[i].named, i)) :
        i \in DOMAIN pdfs}
OriginalLink == Link("package", "zip", "router", package.format, <<>>, NoUrl)

\* FilesAndJATS is a SimpleZip as it is, so that the same file serves.
Convertible(format, target) == format = "jats" /\ target = "simple"

\* Mutant: the converted package gets the name of its own format.
ConvertedRenamed(required) ==
    IF ~\E t \in required : Convertible(package.format, t) THEN {}
    ELSE {Link("package", "zip", "router", "simple", ZipName("simple"), NoUrl)}

Converted(required) ==
    IF (~\E t \in required : Convertible(package.format, t))
           \/ ZipName(package.format) \notin DOMAIN store THEN {}
    ELSE {Link("package", "zip", "router", "simple", ZipName(package.format), NoUrl)}

\* Files with a name that ends in .pdf are stored one by one, all others together.
IsPdf(f) == f.kind = "pdf"
IsOther(i) == i = Len(package.files) + 1
Others == {f.name : f \in {g \in Range(package.files) : ~IsPdf(g)}}
Writes ==
    {i \in 1 .. Len(package.files) + 1 : IsOther(i) \/ IsPdf(package.files[i])}
PathOf(i) == <<Folder, IF IsOther(i) THEN Rest ELSE package.files[i].name>>
NamesOf(i) == IF IsOther(i) THEN Others ELSE {package.files[i].name}
UnpackedLink(path) ==
    IF path[2] = Rest THEN Link("unpackaged", "zip", "special", "simple", path, NoUrl)
                      ELSE Link("unpackaged", "pdf", "special", None, path, NoUrl)
UnpackedLinks == {UnpackedLink(PathOf(i)) : i \in Writes}

\* The notification is matched, the archive is converted if somebody needs that, and if
\* somebody needs it unpacked, that is next.  Without its archive it is not routed.
StartRouting(matched) ==
    LET required == {packaging[r] : r \in matched}
        given == package.format # None
    IN  /\ stage = "unrouted" /\ day <= RouteDays
        /\ ~(given /\ "unpacked" \in required /\ store = <<>>)
        /\ needs' = [r \in matched |-> packaging[r]]
        /\ links' = PublicLinks \cup (IF given THEN {OriginalLink} \cup Converted(required) ELSE {})
        /\ IF given /\ "unpacked" \in required
           THEN stage' = "unpacking" /\ unpack' = Writes /\ UNCHANGED routedOn
           ELSE stage' = "routed" /\ routedOn' = day /\ UNCHANGED unpack
        /\ UNCHANGED <<package, pdfs, store, changed, packaging, day, cache, faults>>
        /\ answer' = NoAnswer

With(st, path, names) == [p \in DOMAIN st \cup {path} |-> IF p = path THEN names ELSE st[p]]

\* One file after the other is written.  A directory changes when something is new in it.
Unpack ==
    /\ stage = "unpacking"
    /\ \E i \in unpack :
          /\ \A j \in unpack : i <= j
          /\ store' = With(store, PathOf(i), NamesOf(i))
          /\ changed' = IF \E p \in DOMAIN store : p[1] = Folder THEN changed ELSE day
          /\ unpack' = unpack \ {i}
          /\ IF unpack = {i}
             THEN stage' = "routed" /\ routedOn' = day /\ links' = links \cup UnpackedLinks
             ELSE UNCHANGED <<stage, routedOn, links>>
    /\ UNCHANGED <<package, pdfs, packaging, needs, day, cache, faults>>
    /\ answer' = NoAnswer

\* The store fails; the notification stays unrouted and is routed again.
UnpackFails ==
    /\ stage = "unpacking" /\ faults < MaxFaults
    /\ stage' = "unrouted" /\ unpack' = {} /\ faults' = faults + 1
    /\ UNCHANGED <<package, pdfs, store, changed, packaging, needs, links, day, routedOn, cache>>
    /\ answer' = NoAnswer

-----------------------------------------------------------------------------
(* Choosing a link.                                                        *)

\* There is one for each packaging.
IsPackage(link, pack) == link.type = "package" /\ link.packaging = pack
PackageLink(pack) == {l \in links : pack # None /\ IsPackage(l, pack)}

\* Of several PDF files elsewhere, the last that is named as one, or else the first.
BestPdf ==
    LET public == {l \in links : l.format = "pdf" /\ l.access = "public"}
        named == {l \in public : l.url.named}
    IN  IF named # {} THEN {l \in named : \A k \in named : k.url.place <= l.url.place}
                      ELSE {l \in public : \A k \in public : l.url.place <= k.url.place}

\* Where in the store a link leads, and to what.
StorePath(link) == IF link.cloc = <<>> THEN ZipName(link.packaging) ELSE link.cloc
Inside(link) == IF StorePath(link) \in DOMAIN store THEN store[StorePath(link)] ELSE {}

-----------------------------------------------------------------------------
(* A request for a file, of a repository or of the account that sent the   *)
(* notification or of others, with the path of a link or some other.  It   *)
(* changes nothing but the log.                                            *)

Allowed(acc) ==
    CASE acc \in Repo -> acc \in DOMAIN needs
      [] acc = "publisher" -> FALSE
      [] OTHER -> TRUE

FileOf(path) == path[Len(path)]

Answer(acc, path) ==
    LET file == IF path = <<>> THEN ZipName(package.format) ELSE path
        Refused(why) == [source |-> why, names |-> {},
                         logged |-> IF path = <<>> THEN None ELSE FileOf(path)]
    IN  IF stage # "routed" THEN Refused("notfound")
        ELSE IF ~Allowed(acc) THEN Refused("forbidden")
        ELSE IF path = <<>> /\ package.format = None THEN Refused("notfound")
        ELSE IF file \notin DOMAIN store THEN Refused("notfound")
        ELSE [Refused("store") EXCEPT !.logged = FileOf(file), !.names = store[file]]

Paths == {l.cloc : l \in links} \cup {<<>>, JatsFile}

-----------------------------------------------------------------------------
(* A deposit, after that of the metadata.  The package is taken from the   *)
(* store.  A PDF file elsewhere is fetched, unless there is a copy of it   *)
(* already; `fetched` is what becomes of it.  What becomes of uploads to   *)
(* the repository is SwordOut's.                                           *)

Status(pkg, pkgSent, pdf, pdfSent) ==
    IF pkg = {} /\ pdf = {} THEN None
    ELSE IF (pkg # {} /\ pkgSent = {}) \/ (pdf # {} /\ pdfSent = {}) THEN "failed"
    ELSE "deposited"

\* No files are sent if the XML format is one of eprints-rioxx; these are the formats whose
\* only packaging is "unpacked" (REPOSITORY_PACKAGING_OPTIONS), so the packaging says it.
Deposit(r, fetched) ==
    LET files == packaging[r] # "unpacked"
        pkg == IF files THEN PackageLink(packaging[r]) ELSE {}
        pdf == IF files THEN BestPdf ELSE {}
        pkgSent == UNION {Inside(l) : l \in pkg}
        tried == IF pkg = {} \/ pkgSent # {} THEN {l.url.url : l \in pdf} ELSE {}
        missing == {u \in tried : cache[u] = None}
        pdfSent == {cache[u] : u \in tried \ missing}
                      \cup (IF missing # {} /\ fetched = "whole" THEN {"whole"} ELSE {})
    IN  /\ stage = "routed" /\ r \in DOMAIN needs
        /\ IF missing # {}
           THEN /\ cache' = [u \in Urls |-> IF u \in missing THEN fetched ELSE cache[u]]
                /\ IF fetched = "whole" THEN UNCHANGED faults
                   ELSE faults < MaxFaults /\ faults' = faults + 1
           ELSE fetched = None /\ UNCHANGED <<cache, faults>>
        /\ answer' = [kind |-> "deposit", to |-> r, status |-> Status(pkg, pkgSent, pdf, pdfSent),
                      pack |-> packaging[r], names |-> pkgSent, pdf |-> pdfSent]
        /\ UNCHANGED <<stage, package, pdfs, store, changed, packaging, needs, links, unpack, day,
                       routedOn>>

-----------------------------------------------------------------------------
(* Time, deletion, and changes to accounts.                                *)

\* Routing does not take longer than RouteDays.
NextDay ==
    /\ day < MaxDay /\ day' = day + 1
    /\ stage \in {"received", "unrouted", "unpacking"} => day < RouteDays
    /\ stage \notin {"refused", "deleted"}
    /\ UNCHANGED <<stage, package, pdfs, store, changed, packaging, needs, links, unpack,
                   routedOn, cache, faults>>
    /\ answer' = NoAnswer

OldFiles == day - changed > StoreDays

DeleteFiles ==
    /\ store # <<>> /\ OldFiles
    /\ store' = <<>>
    /\ UNCHANGED <<stage, package, pdfs, changed, packaging, needs, links, unpack, day, routedOn,
                   cache, faults>>
    /\ answer' = NoAnswer

\* The temporary store has directories for the copies, which get old sooner.
DeleteCopies ==
    /\ \E u \in Urls : cache[u] # None /\ cache' = [cache EXCEPT ![u] = None]
    /\ UNCHANGED <<stage, package, pdfs, store, changed, packaging, needs, links, unpack, day,
                   routedOn, faults>>
    /\ answer' = NoAnswer

DeleteNote ==
    /\ stage = "routed" /\ day - routedOn > KeepDays
    /\ stage' = "deleted"
    /\ UNCHANGED <<package, pdfs, store, changed, packaging, needs, links, unpack, day, routedOn,
                   cache, faults>>
    /\ answer' = NoAnswer

\* An account is changed once (a bound).
ChangePackaging(r, pack) ==
    /\ stage \in {"unpacking", "routed"} /\ r \in DOMAIN needs /\ packaging[r] = needs[r]
    /\ pack # packaging[r]
    /\ packaging' = [packaging EXCEPT ![r] = pack]
    /\ UNCHANGED <<stage, package, pdfs, store, changed, needs, links, unpack, day, routedOn,
                   cache, faults>>
    /\ answer' = NoAnswer

Next ==
    \/ Receive
    \/ \E matched \in (SUBSET Repo) \ {{}} : StartRouting(matched)
    \/ Unpack \/ UnpackFails
    \/ \E r \in Repo, fetched \in {"whole", "part", None} : Deposit(r, fetched)
    \/ NextDay \/ DeleteFiles \/ DeleteCopies \/ DeleteNote
    \/ \E r \in Repo, pack \in {"simple", "unpacked"} : ChangePackaging(r, pack)

Spec == Init /\ [][Next]_vars

-----------------------------------------------------------------------------
(* Properties.                                                             *)

InTime == stage = "routed" /\ day - routedOn <= LimitDays
OfType(type) == {l \in links : l.type = type}

\* For as long as repositories are told (duplicate e-mails: "90 day file download limit"),
\* each link to Router's own files leads to a file: to the archive as it came, or to one of
\* the files that it was unpacked to, which together have everything in it once.
LinksLead ==
    InTime =>
        /\ \A l \in links, r \in DOMAIN needs :
              l.access # "public" => Answer(r, l.cloc).names = Inside(l)
        /\ \A l \in OfType("package") : Inside(l) = Names
        /\ OfType("unpackaged") # {} =>
              /\ UNION {Inside(l) : l \in OfType("unpackaged")} = Names
              /\ \A k, l \in OfType("unpackaged") : k # l => Inside(k) \cap Inside(l) = {}

\* Every repository finds among the links what its packaging was when it was routed to.
NeedsMet ==
    stage = "routed" /\ package.format # None =>
        \A r \in DOMAIN needs :
            /\ needs[r] = "simple" => \E l \in links : IsPackage(l, "simple")
            /\ needs[r] = "unpacked" =>
                  \A f \in Range(package.files) : IsPdf(f) =>
                      \E l \in OfType("unpackaged") : FileOf(l.cloc) = f.name /\ l.format = "pdf"

\* Who is told of a link gets the file in time, others nothing, and the log says so.
RequestsAnswered ==
    \A acc \in Accounts, path \in Paths :
        LET given == Answer(acc, path)
        IN  /\ acc \notin DOMAIN needs \cup {"sender"} => given.names = {}
            /\ given.names # {} => given.source = "store"
            /\ given.source = "store" /\ path = <<>> =>
                  given.names = Names /\ given.logged = FileOf(ZipName(package.format))

\* A repository gets the whole archive if its packaging is still what it was, and what the
\* record of the deposit says agrees with what was sent.
DepositsRecorded ==
    answer.kind = "deposit" =>
        /\ answer.names \in {{}, Names}
        /\ answer.status = "deposited" =>
              /\ answer.names # {} \/ answer.pdf # {}
              /\ needs[answer.to] = "simple" /\ answer.pack = "simple" /\ package.format # None
                    => answer.names = Names
              /\ pdfs # <<>> => answer.pdf # {}
        /\ answer.status = None =>
              \/ answer.pack = "unpacked"
              \/ pdfs = <<>> /\ (package.format = None \/ needs[answer.to] # "simple")

\* No part of a PDF file is sent as if it were the whole (_cache_content: "See if file was
\* previously cached to disk").
CopiesWhole == answer.kind = "deposit" => "part" \notin answer.pdf

\* All PDF files are unpacked (UnpackEprintsRioxx: "Unpacks all pdf files and creates a new
\* zip without PDF files").
AllPdfsUnpacked ==
    InTime => \A f \in Range(package.files) : f.kind = "PDF" =>
                  \A l \in OfType("unpackaged") : l.format = "zip" => f.name \notin Inside(l)
===============================================================================
