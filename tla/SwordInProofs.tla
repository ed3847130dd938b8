----------------------------- MODULE SwordInProofs -----------------------------
(***************************************************************************)
(* Theorems about SwordIn, for any number of workers, files and requests:  *)
(* types, what the record of a deposit tells, and what a package has in it.*)
(***************************************************************************)
EXTENDS SwordIn, FiniteSets, FiniteSetTheorems, TLAPS

Job(n) ==
    [pc : PC, op : Ops, file : File \cup {NoFile}, final : BOOLEAN, copy : Record,
     pkg : SUBSET (1 .. n)]

\* Requests that have yet to store a file: there are never more uploads than requests.
Pending == {w \in Worker : worker[w].pc \in {"check", "store"}}
Counted ==
    /\ IsFiniteSet(Pending)
    /\ uploads + Cardinality(Pending) <= requests

\* A request that adds or removes one file has its name.
Named ==
    \A w \in Worker :
        \/ worker[w].pc \in {"check", "store", "name"}
        \/ worker[w].pc = "delete" /\ worker[w].op # "empty"
        => worker[w].file \in File

Typed == TypeOK /\ Counted /\ Named

-----------------------------------------------------------------------------
(* Without overlapping requests there is one worker at most.               *)

Alone == ~overlapped => \A v, w \in Busy : v = w

\* A record tells the truth, and still does if nothing more happens.
Truthful(r) == (r.ok <=> made > 0) /\ (r.inProgress => made = 0 /\ ~failed)

Early == {"check", "store", "name", "delete", "rename", "complete", "destroy"}

TruthInv ==
    /\ row.ok => made > 0
    /\ \A w \in Worker : worker[w].copy.ok => made > 0
    /\ \A w \in Worker : worker[w].pc = "clean" => worker[w].copy.ok
    /\ requests = 0 => Busy = {} /\ made = 0 /\ ~failed
    /\ ~overlapped /\ faults = 0 =>
          /\ row.present /\ (\A w \in Worker : worker[w].pc \in Early \cup {"idle"}) => Truthful(row)
          /\ \A w \in Worker :
                /\ worker[w].pc \in Early => Truthful(worker[w].copy)
                /\ worker[w].pc \in {"note", "clean", "save"} =>
                      /\ ~worker[w].copy.inProgress
                      /\ worker[w].copy.ok <=> made > 0

-----------------------------------------------------------------------------
(* What lies in the store is neither replaced nor deleted nor in a package.*)

Lying == parts \cup UNION {files[f] : f \in File}

PackageInv ==
    ~failed /\ ~overlapped =>
        /\ \A f, g \in File : f # g => files[f] \cap files[g] = {}
        /\ parts = {} \/ \E w \in Worker : worker[w].pc \in {"note", "clean"}
        /\ Lying \cap dropped = {}
        /\ (\A w \in Worker : worker[w].pc # "clean") => Lying \cap used = {}
        /\ \A w \in Worker : worker[w].pc = "note" => worker[w].pkg \subseteq Lying

-----------------------------------------------------------------------------
(* What a step does to a worker: its fields pc, copy and pkg change, or it *)
(* is idle again, or begins.                                               *)

Put(w, p, c, k) ==
    /\ worker' \in [Worker -> Job(uploads)]
    /\ \A v \in Worker \ {w} : worker'[v] = worker[v]
    /\ worker'[w].pc = p /\ worker'[w].copy = c /\ worker'[w].pkg = k
    /\ worker'[w].op = worker[w].op /\ worker'[w].file = worker[w].file
    /\ worker'[w].final = worker[w].final

LEMMA Records ==
    /\ NoRecord \in Record /\ [NoRecord EXCEPT !.present = TRUE] \in Record
    /\ \A n \in Nat : Idle \in Job(n)
    /\ \A r \in Record, f \in File : [r EXCEPT !.name = f] \in Record
    /\ \A r \in Record : [r EXCEPT !.inProgress = FALSE] \in Record
    /\ \A r \in Record : [[r EXCEPT !.inProgress = FALSE] EXCEPT !.error = TRUE] \in Record
    /\ \A r \in Record : [r EXCEPT !.ok = TRUE] \in Record
<1>1. NoRecord \in Record /\ [NoRecord EXCEPT !.present = TRUE] \in Record
  BY DEF NoRecord, Record
<1>2. ASSUME NEW n \in Nat PROVE Idle \in Job(n)
  BY <1>1 DEF Idle, Job, PC, Ops
<1>3. ASSUME NEW r \in Record, NEW f \in File PROVE [r EXCEPT !.name = f] \in Record
  BY DEF Record
<1>4. ASSUME NEW r \in Record PROVE [r EXCEPT !.inProgress = FALSE] \in Record
  BY DEF Record
<1>5. ASSUME NEW r \in Record PROVE [r EXCEPT !.error = TRUE] \in Record
  BY DEF Record
<1>6. ASSUME NEW r \in Record PROVE [r EXCEPT !.ok = TRUE] \in Record
  BY DEF Record
<1> QED BY <1>1, <1>2, <1>3, <1>4, <1>5, <1>6

LEMMA PutJob ==
    ASSUME NEW w \in Worker, NEW p \in PC, NEW c \in Record, NEW k \in SUBSET (1 .. uploads),
           worker \in [Worker -> Job(uploads)],
           worker' = [worker EXCEPT ![w] = [worker[w] EXCEPT !.pc = p, !.copy = c, !.pkg = k]]
    PROVE  Put(w, p, c, k)
<1> DEFINE j == [worker[w] EXCEPT !.pc = p, !.copy = c, !.pkg = k]
<1>1. j \in Job(uploads)
  BY DEF Job
<1>2. /\ j.pc = p /\ j.copy = c /\ j.pkg = k
      /\ j.op = worker[w].op /\ j.file = worker[w].file /\ j.final = worker[w].final
  BY DEF Job
<1> QED BY <1>1, <1>2 DEF Put

\* A copy of the record as it is written.
InProgressNoMore(w) == [worker[w].copy EXCEPT !.inProgress = FALSE]

LEMMA Forms ==
    ASSUME worker \in [Worker -> Job(uploads)], NEW w \in Worker
    PROVE  /\ \A p \in PC : Goto(w, p) => Put(w, p, worker[w].copy, worker[w].pkg)
           /\ Fails(w) => Put(w, "save", [InProgressNoMore(w) EXCEPT !.error = TRUE], worker[w].pkg)
           /\ \A pkg \in SUBSET (1 .. uploads) :
                 Packed(w, pkg) => Put(w, "note", InProgressNoMore(w), pkg)
           /\ CreateNote(w) => Put(w, "clean", [worker[w].copy EXCEPT !.ok = TRUE], worker[w].pkg)
<1>1. /\ worker[w].copy \in Record /\ worker[w].pkg \in SUBSET (1 .. uploads)
      /\ InProgressNoMore(w) \in Record
      /\ [InProgressNoMore(w) EXCEPT !.error = TRUE] \in Record
      /\ [worker[w].copy EXCEPT !.ok = TRUE] \in Record
  BY Records DEF Job, InProgressNoMore
<1>2. ASSUME NEW p \in PC, Goto(w, p)
      PROVE  Put(w, p, worker[w].copy, worker[w].pkg)
  <2>1. [worker[w] EXCEPT !.pc = p, !.copy = worker[w].copy, !.pkg = worker[w].pkg]
           = [worker[w] EXCEPT !.pc = p]
    BY DEF Job
  <2> QED BY <1>1, <1>2, <2>1, PutJob DEF Goto
<1>3. ASSUME Fails(w)
      PROVE  Put(w, "save", [InProgressNoMore(w) EXCEPT !.error = TRUE], worker[w].pkg)
  <2> DEFINE c == [InProgressNoMore(w) EXCEPT !.error = TRUE]
  <2>0. c \in Record
    BY <1>1
  <2>2. worker' = [worker EXCEPT ![w] = [worker[w] EXCEPT !.pc = "save", !.copy = c]]
    BY <1>3 DEF Fails, NotInProgress, InProgressNoMore
  <2> HIDE DEF c
  <2>1. [worker[w] EXCEPT !.pc = "save", !.copy = c, !.pkg = worker[w].pkg]
           = [worker[w] EXCEPT !.pc = "save", !.copy = c]
    BY DEF Job
  <2>3. "save" \in PC
    BY DEF PC
  <2>4. Put(w, "save", c, worker[w].pkg)
    BY <1>1, <2>0, <2>1, <2>2, <2>3, PutJob
  <2> QED BY <2>4 DEF c
<1>4. ASSUME NEW pkg \in SUBSET (1 .. uploads), Packed(w, pkg)
      PROVE  Put(w, "note", InProgressNoMore(w), pkg)
  <2>1. worker' = [worker EXCEPT ![w] =
                      [worker[w] EXCEPT !.pc = "note", !.copy = InProgressNoMore(w), !.pkg = pkg]]
    BY <1>4 DEF Packed, NotInProgress, InProgressNoMore
  <2>2. "note" \in PC
    BY DEF PC
  <2> QED BY <1>1, <1>4, <2>1, <2>2, PutJob
<1>5. ASSUME CreateNote(w)
      PROVE  Put(w, "clean", [worker[w].copy EXCEPT !.ok = TRUE], worker[w].pkg)
  <2> DEFINE c == [worker[w].copy EXCEPT !.ok = TRUE]
  <2>0. c \in Record
    BY <1>1
  <2>2. worker' = [worker EXCEPT ![w] = [worker[w] EXCEPT !.pc = "clean", !.copy = c]]
    BY <1>5 DEF CreateNote
  <2> HIDE DEF c
  <2>1. [worker[w] EXCEPT !.pc = "clean", !.copy = c, !.pkg = worker[w].pkg]
           = [worker[w] EXCEPT !.pc = "clean", !.copy = c]
    BY DEF Job
  <2>3. "clean" \in PC
    BY DEF PC
  <2>4. Put(w, "clean", c, worker[w].pkg)
    BY <1>1, <2>0, <2>1, <2>2, <2>3, PutJob
  <2> QED BY <2>4 DEF c
<1> QED BY <1>2, <1>3, <1>4, <1>5

-----------------------------------------------------------------------------
(* Types, with the number of uploads.                                      *)

LEMMA TypedJobs == TypeOK => worker \in [Worker -> Job(uploads)] /\ uploads \in Nat
BY DEF TypeOK, Job

LEMMA MoreUploads ==
    ASSUME NEW n \in Nat
    PROVE  /\ SUBSET (1 .. n) \subseteq SUBSET (1 .. n + 1)
           /\ Job(n) \subseteq Job(n + 1)
<1>1. 1 .. n \subseteq 1 .. n + 1
  OBVIOUS
<1> QED BY <1>1 DEF Job

\* One request less to store its file, or none that stores it.
LEMMA PendingChanges ==
    ASSUME IsFiniteSet(Pending), NEW w \in Worker,
           \A v \in Worker \ {w} : worker'[v] = worker[v]
    PROVE  /\ IsFiniteSet(Pending')
           /\ Cardinality(Pending') \in Nat /\ Cardinality(Pending) \in Nat
           /\ w \notin Pending' => Cardinality(Pending') <= Cardinality(Pending)
           /\ w \in Pending => Cardinality(Pending') <= Cardinality(Pending)
           /\ Cardinality(Pending') <= Cardinality(Pending) + 1
           /\ w \in Pending /\ w \notin Pending' => Cardinality(Pending') = Cardinality(Pending) - 1
<1>1. /\ Pending' \subseteq Pending \cup {w}
      /\ w \notin Pending' => Pending' = Pending \ {w}
      /\ Pending \cup {w} = Pending \/ w \notin Pending
  BY DEF Pending
<1>2. /\ IsFiniteSet(Pending \cup {w})
      /\ Cardinality(Pending \cup {w}) = IF w \in Pending THEN Cardinality(Pending) ELSE Cardinality(Pending) + 1
  BY FS_AddElement
<1>3. /\ IsFiniteSet(Pending \ {w})
      /\ Cardinality(Pending \ {w}) = IF w \in Pending THEN Cardinality(Pending) - 1 ELSE Cardinality(Pending)
  BY FS_RemoveElement
<1>4. IsFiniteSet(Pending') /\ Cardinality(Pending') <= Cardinality(Pending \cup {w})
  BY <1>1, <1>2, FS_Subset
<1>5. Cardinality(Pending) \in Nat /\ Cardinality(Pending') \in Nat
  BY <1>4, FS_CardinalityType
<1>6. w \notin Pending' => Cardinality(Pending') = Cardinality(Pending \ {w})
  BY <1>1
<1> QED BY <1>2, <1>3, <1>4, <1>5, <1>6

LEMMA TypedInit == ASSUME SwordInAssumption, Init PROVE Typed
<1>1. Pending = {}
  BY DEF Init, Pending, Idle
<1>2. IsFiniteSet(Pending) /\ Cardinality(Pending) = 0
  BY <1>1, FS_EmptySet
<1>3. TypeOK
  <2>1. worker \in [Worker -> Job(0)] /\ row \in Record
    BY Records DEF Init
  <2>2. uploads = 0
    BY DEF Init
  <2>3. worker \in [Worker -> Job(uploads)]
    BY <2>1, <2>2
  <2>4. /\ files \in [File -> SUBSET (1 .. uploads)]
        /\ uploads \in 0 .. MaxRequests /\ requests \in 0 .. MaxRequests /\ faults \in 0 .. MaxFaults
    BY DEF Init, SwordInAssumption
  <2> QED BY <2>1, <2>3, <2>4 DEF Init, TypeOK, Job
<1>4. Named
  BY DEF Init, Named, Idle
<1> QED BY <1>2, <1>3, <1>4 DEF Init, Typed, Counted

\* The types and bounds of all but the workers.
Rest ==
    /\ row \in Record /\ files \in [File -> SUBSET (1 .. uploads)]
    /\ parts \in SUBSET (1 .. uploads)
    /\ made \in Nat /\ package \in SUBSET (1 .. uploads) /\ used \in SUBSET (1 .. uploads)
    /\ dropped \in SUBSET (1 .. uploads)
    /\ requests \in 0 .. MaxRequests
    /\ overlapped \in BOOLEAN /\ failed \in BOOLEAN /\ faults \in 0 .. MaxFaults

IdleIsIdle == \A w \in Worker : worker[w].pc = "idle" => worker[w] = Idle

\* A step of a worker that neither begins nor stores a file.
LEMMA TypedByPut ==
    ASSUME Typed, NEW w \in Worker, UNCHANGED <<uploads, requests>>, Rest',
           \/ End(w)
           \/ \E p \in PC \ {"idle"}, c \in Record, k \in SUBSET (1 .. uploads) :
                 /\ Put(w, p, c, k)
                 /\ p \in {"check", "store", "name", "delete"} => worker[w].pc = "check"
    PROVE  Typed'
<1>1. /\ worker \in [Worker -> Job(uploads)] /\ uploads \in Nat /\ Idle \in Job(uploads)
      /\ Counted /\ IdleIsIdle /\ Named
  BY TypedJobs, Records DEF Typed, TypeOK, IdleIsIdle
<1>2. /\ worker' \in [Worker -> Job(uploads)]
      /\ \A v \in Worker \ {w} : worker'[v] = worker[v]
      /\ w \notin Pending' \/ w \in Pending
      /\ worker'[w].pc = "idle" => worker'[w] = Idle
      /\ Named'
  <2>1. CASE End(w)
    <3>1. worker'[w] = Idle /\ Idle.pc = "idle"
      BY <1>1, <2>1 DEF End, Idle
    <3> QED BY <1>1, <2>1, <3>1 DEF End, Pending, Named
  <2>2. ASSUME NEW p \in PC \ {"idle"}, NEW c \in Record, NEW k \in SUBSET (1 .. uploads),
               Put(w, p, c, k),
               p \in {"check", "store", "name", "delete"} => worker[w].pc = "check"
        PROVE  /\ worker' \in [Worker -> Job(uploads)]
               /\ \A v \in Worker \ {w} : worker'[v] = worker[v]
               /\ w \notin Pending' \/ w \in Pending
               /\ worker'[w].pc = "idle" => worker'[w] = Idle
               /\ Named'
    <3>1. Named'
      BY <1>1, <2>2 DEF Put, Named
    <3> QED BY <2>2, <3>1 DEF Put, Pending
  <2> QED BY <2>1, <2>2
<1>3. IsFiniteSet(Pending') /\ Cardinality(Pending') <= Cardinality(Pending)
  BY <1>1, <1>2, PendingChanges DEF Counted
<1>4. Counted'
  <2>1. Cardinality(Pending') \in Nat /\ Cardinality(Pending) \in Nat
    BY <1>1, <1>3, FS_CardinalityType DEF Counted
  <2>2. uploads' = uploads /\ requests' = requests /\ requests \in Nat
    BY DEF Typed, TypeOK
  <2>3. uploads + Cardinality(Pending) <= requests
    BY <1>1 DEF Counted
  <2>4. uploads' + Cardinality(Pending') <= requests'
    BY <1>1, <1>3, <2>1, <2>2, <2>3
  <2> QED BY <1>3, <2>4 DEF Counted
<1>5. IdleIsIdle'
  BY <1>1, <1>2 DEF IdleIsIdle
<1>6. uploads' \in Nat
  BY <1>1
<1>7. TypeOK'
  <2>1. uploads' \in 0 .. MaxRequests
    BY DEF Typed, TypeOK
  <2> QED BY <1>2, <1>4, <1>5, <2>1 DEF TypeOK, Rest, IdleIsIdle, Job
<1> QED BY <1>2, <1>4, <1>7 DEF Typed

\* A request begins with a record that is there.
First == {"check", "delete", "complete", "destroy"}
Begins(w) ==
    /\ At(w, "idle") /\ requests < MaxRequests /\ requests' = requests + 1
    /\ overlapped' = (overlapped \/ Busy # {})
    /\ \/ ~row.present /\ requests = 0 /\ row' = [NoRecord EXCEPT !.present = TRUE]
       \/ row.present /\ row' = row
    /\ \E op \in Ops, f \in File \cup {NoFile}, final \in BOOLEAN, first \in First :
          /\ first = "check" \/ (first = "delete" /\ op # "empty") => f \in File
          /\ worker' = [worker EXCEPT ![w] =
               [pc |-> first, op |-> op, file |-> f, final |-> final, copy |-> row', pkg |-> {}]]
    /\ UNCHANGED <<files, parts, made, package, used, uploads, dropped, failed, faults>>

LEMMA BeginBegins == ASSUME NEW w \in Worker, Begin(w) PROVE Begins(w)
<1>1. ASSUME NEW op \in Ops, NEW f \in File \cup {NoFile}, NEW final \in BOOLEAN, NEW first \in First,
             Start(w, op, f, final, first),
             first = "check" \/ (first = "delete" /\ op # "empty") => f \in File,
             \/ ~row.present /\ requests = 0 /\ row' = [NoRecord EXCEPT !.present = TRUE]
             \/ row.present /\ row' = row
      PROVE  Begins(w)
  BY <1>1 DEF Start, Begins, store, notes
<1>2. {"add", "remove", "empty", "complete", "destroy"} \subseteq Ops /\ {"check", "delete", "complete", "destroy"} \subseteq First
  BY DEF Ops, First
<1> QED BY <1>1, <1>2 DEF Begin, CreateContainer, AddFile, DeleteContent, CompleteContainer, DeleteContainer

LEMMA BeginsJob ==
    ASSUME NEW w \in Worker, worker \in [Worker -> Job(uploads)], row \in Record, Begins(w)
    PROVE  /\ worker' \in [Worker -> Job(uploads)] /\ row' \in Record
           /\ \A v \in Worker \ {w} : worker'[v] = worker[v]
           /\ worker[w].pc = "idle"
           /\ worker'[w].pc \in First /\ worker'[w].copy = row' /\ worker'[w].pkg = {}
           /\ \/ worker'[w].pc = "check"
              \/ worker'[w].pc = "delete" /\ worker'[w].op # "empty"
              => worker'[w].file \in File
<1>1. PICK op \in Ops, f \in File \cup {NoFile}, final \in BOOLEAN, first \in First :
          /\ first = "check" \/ (first = "delete" /\ op # "empty") => f \in File
          /\ worker' = [worker EXCEPT ![w] =
               [pc |-> first, op |-> op, file |-> f, final |-> final, copy |-> row', pkg |-> {}]]
  BY DEF Begins
<1> DEFINE j == [pc |-> first, op |-> op, file |-> f, final |-> final, copy |-> row', pkg |-> {}]
<1>2. row' \in Record
  BY Records DEF Begins
<1>3. j \in Job(uploads)
  BY <1>2 DEF Job, First, PC
<1>4. /\ j.pc \in First /\ j.copy = row' /\ j.pkg = {}
      /\ j.pc = "check" \/ (j.pc = "delete" /\ j.op # "empty") => j.file \in File
  BY <1>1
<1>5. worker' = [worker EXCEPT ![w] = j]
  BY <1>1
<1> HIDE DEF j
<1>6. worker'[w] = j /\ \A v \in Worker \ {w} : worker'[v] = worker[v]
  BY <1>5
<1>7. worker' \in [Worker -> Job(uploads)]
  BY <1>3, <1>5
<1>8. worker[w].pc = "idle"
  BY DEF Begins, At
<1> QED BY <1>2, <1>4, <1>6, <1>7, <1>8

LEMMA TypedBegin ==
    ASSUME SwordInAssumption, Typed, NEW w \in Worker, Begins(w)
    PROVE  Typed'
<1>a. /\ worker \in [Worker -> Job(uploads)] /\ uploads \in Nat /\ row \in Record /\ Counted /\ IdleIsIdle /\ Named
      /\ requests \in Nat /\ MaxRequests \in Nat /\ requests \in 0 .. MaxRequests
  BY TypedJobs DEF Typed, TypeOK, IdleIsIdle, SwordInAssumption
<1>1. /\ worker' \in [Worker -> Job(uploads)] /\ row' \in Record
      /\ \A v \in Worker \ {w} : worker'[v] = worker[v]
      /\ worker'[w].pc \in First
      /\ \/ worker'[w].pc = "check"
         \/ worker'[w].pc = "delete" /\ worker'[w].op # "empty"
         => worker'[w].file \in File
  BY <1>a, BeginsJob
<1>2. uploads' = uploads /\ requests' = requests + 1 /\ requests < MaxRequests
  BY DEF Begins
<1>3. IsFiniteSet(Pending) /\ uploads + Cardinality(Pending) <= requests
  BY <1>a DEF Counted
<1>4. /\ IsFiniteSet(Pending') /\ Cardinality(Pending') <= Cardinality(Pending) + 1
      /\ Cardinality(Pending') \in Nat /\ Cardinality(Pending) \in Nat
  BY <1>1, <1>3, PendingChanges
<1>5. Counted'
  <2>1. uploads' + Cardinality(Pending') <= requests'
    BY <1>a, <1>2, <1>3, <1>4
  <2> QED BY <1>4, <2>1 DEF Counted
<1>6. IdleIsIdle'
  BY <1>a, <1>1 DEF IdleIsIdle, First
<1>7. /\ requests' \in 0 .. MaxRequests /\ uploads' \in 0 .. MaxRequests
  BY <1>a, <1>2 DEF Typed, TypeOK
<1>8. overlapped' \in BOOLEAN
  BY DEF Begins
<1>9. /\ files' = files /\ parts' = parts /\ made' = made /\ package' = package /\ used' = used
      /\ dropped' = dropped /\ failed' = failed /\ faults' = faults
  BY DEF Begins
<1>10. TypeOK'
  BY <1>1, <1>2, <1>6, <1>7, <1>8, <1>9 DEF Typed, TypeOK, IdleIsIdle, Job
<1>11. Named'
  <2>1. worker'[w].pc \notin {"store", "name"}
    BY <1>1 DEF First
  <2> QED BY <1>a, <1>1, <2>1 DEF Named
<1> QED BY <1>5, <1>10, <1>11 DEF Typed

LEMMA TypedStore ==
    ASSUME SwordInAssumption, Typed, NEW w \in Worker, StoreFile(w)
    PROVE  Typed'
<1>a. /\ worker \in [Worker -> Job(uploads)] /\ uploads \in Nat /\ Counted /\ IdleIsIdle /\ Named
      /\ requests \in Nat /\ MaxRequests \in Nat /\ requests \in 0 .. MaxRequests
      /\ Idle \in Job(uploads)
  <2>1. worker \in [Worker -> Job(uploads)] /\ uploads \in Nat /\ Idle \in Job(uploads)
    BY TypedJobs, Records DEF Typed
  <2>2. IdleIsIdle /\ requests \in 0 .. MaxRequests /\ MaxRequests \in Nat
    BY DEF Typed, TypeOK, IdleIsIdle, SwordInAssumption
  <2> QED BY <2>1, <2>2 DEF Typed
<1>b. worker[w].file \in File
  BY <1>a DEF Named, StoreFile, At
<1>1. uploads' = uploads + 1 /\ requests' = requests /\ w \in Pending
  BY DEF StoreFile, At, Pending
<1>2. /\ worker' \in [Worker -> Job(uploads)]
      /\ \A v \in Worker \ {w} : worker'[v] = worker[v]
      /\ \/ worker'[w].pc \in {"name", "complete"} /\ worker'[w].file = worker[w].file
         \/ worker'[w] = Idle
  <2>1. End(w) \/ Goto(w, "name") \/ Goto(w, "complete")
    BY DEF StoreFile, AfterStore
  <2>2. CASE End(w)
    BY <1>a, <2>2 DEF End
  <2>3. ASSUME NEW p \in {"name", "complete"}, Goto(w, p)
        PROVE  /\ worker' \in [Worker -> Job(uploads)]
               /\ \A v \in Worker \ {w} : worker'[v] = worker[v]
               /\ worker'[w].pc \in {"name", "complete"} /\ worker'[w].file = worker[w].file
    <3>1. p \in PC
      BY DEF PC
    <3>2. Put(w, p, worker[w].copy, worker[w].pkg)
      BY <1>a, <2>3, <3>1, Forms
    <3> QED BY <3>2 DEF Put
  <2> QED BY <2>1, <2>2, <2>3
<1>3. w \notin Pending'
  BY <1>2 DEF Pending, Idle
<1>4. IsFiniteSet(Pending) /\ uploads + Cardinality(Pending) <= requests
  BY <1>a DEF Counted
<1>5. /\ IsFiniteSet(Pending') /\ Cardinality(Pending') = Cardinality(Pending) - 1
      /\ Cardinality(Pending') \in Nat /\ Cardinality(Pending) \in Nat
  BY <1>1, <1>2, <1>3, <1>4, PendingChanges
<1>6. /\ uploads' + Cardinality(Pending') <= requests' /\ uploads' \in 0 .. MaxRequests
      /\ requests' \in 0 .. MaxRequests
  BY <1>a, <1>1, <1>4, <1>5
<1>7. IdleIsIdle'
  BY <1>a, <1>2 DEF IdleIsIdle
<1>8. SUBSET (1 .. uploads) \subseteq SUBSET (1 .. uploads') /\ Job(uploads) \subseteq Job(uploads')
  BY <1>a, <1>1, MoreUploads
<1>9. /\ worker' \in [Worker -> Job(uploads')]
      /\ parts' \in SUBSET (1 .. uploads') /\ package' \in SUBSET (1 .. uploads')
      /\ used' \in SUBSET (1 .. uploads')
  <2>1. worker' \in [Worker -> Job(uploads')]
    BY <1>2, <1>8
  <2>2. parts' = parts /\ package' = package /\ used' = used
    BY DEF StoreFile, notes
  <2>3. parts \in SUBSET (1 .. uploads) /\ package \in SUBSET (1 .. uploads) /\ used \in SUBSET (1 .. uploads)
    BY DEF Typed, TypeOK
  <2> QED BY <1>8, <2>1, <2>2, <2>3
<1>10. files' \in [File -> SUBSET (1 .. uploads')] /\ dropped' \in SUBSET (1 .. uploads')
  <2>1. files \in [File -> SUBSET (1 .. uploads)] /\ dropped \in SUBSET (1 .. uploads)
    BY DEF Typed, TypeOK
  <2>2. {uploads + 1} \in SUBSET (1 .. uploads')
    BY <1>a, <1>1
  <2>3. files' = [files EXCEPT ![worker[w].file] = {uploads + 1}]
    BY DEF StoreFile
  <2>4. files' \in [File -> SUBSET (1 .. uploads')]
    BY <1>a, <1>8, <2>1, <2>2, <2>3
  <2>5. dropped' = dropped \cup files[worker[w].file]
    BY DEF StoreFile
  <2>6. dropped' \in SUBSET (1 .. uploads')
    <3>1. files[worker[w].file] \in SUBSET (1 .. uploads') /\ dropped \in SUBSET (1 .. uploads')
      BY ZenonT(60), <1>b, <1>8, <2>1
    <3> QED BY <2>5, <3>1
  <2> QED BY <2>4, <2>6
<1>11. row' = row /\ made' = made /\ overlapped' = overlapped /\ failed' = failed /\ faults' = faults
  BY DEF StoreFile, notes, history
<1>12. TypeOK'
  BY <1>6, <1>7, <1>9, <1>10, <1>11 DEF Typed, TypeOK, IdleIsIdle, Job
<1>13. Named'
  BY <1>a, <1>b, <1>2 DEF Named, Idle
<1> QED BY <1>5, <1>6, <1>12, <1>13 DEF Typed, Counted

LEMMA TypedServe ==
    ASSUME SwordInAssumption, Typed, NEW w \in Worker,
           \/ Serve(w) /\ ~StoreFile(w)
           \/ CreateNoteFails(w)
           \/ Crash(w)
    PROVE  Typed'
<1>a. /\ worker \in [Worker -> Job(uploads)] /\ uploads \in Nat /\ Named
      /\ \A c \in Record, f \in File : [c EXCEPT !.name = f] \in Record
      /\ worker[w].copy \in Record /\ worker[w].pkg \in SUBSET (1 .. uploads)
      /\ InProgressNoMore(w) \in Record /\ [InProgressNoMore(w) EXCEPT !.error = TRUE] \in Record
      /\ [worker[w].copy EXCEPT !.ok = TRUE] \in Record
  BY TypedJobs, Records DEF Typed, Job, InProgressNoMore
<1>b. /\ row \in Record /\ files \in [File -> SUBSET (1 .. uploads)] /\ parts \in SUBSET (1 .. uploads)
      /\ made \in Nat /\ package \in SUBSET (1 .. uploads) /\ used \in SUBSET (1 .. uploads)
      /\ dropped \in SUBSET (1 .. uploads) /\ requests \in 0 .. MaxRequests
      /\ overlapped \in BOOLEAN /\ failed \in BOOLEAN /\ faults \in 0 .. MaxFaults
  BY DEF Typed, TypeOK
<1>p. PC = {"idle", "check", "store", "name", "delete", "rename", "complete", "note", "clean", "save",
            "destroy"}
  BY DEF PC
<1>f. Fault => faults' \in 0 .. MaxFaults
  BY <1>b DEF Fault, SwordInAssumption
<1>u. \A c \in Record : Update(c) => row' \in Record
  BY <1>b DEF Update
<1>1. CASE CheckFile(w)
  <2>1. Rest' /\ UNCHANGED <<uploads, requests>>
    BY <1>b, <1>1 DEF CheckFile, Rest, store, notes, history
  <2>2. End(w) \/ (worker[w].pc = "check" /\ Put(w, "store", worker[w].copy, worker[w].pkg))
    BY <1>a, <1>p, <1>1, Forms DEF CheckFile, At
  <2> QED BY <1>a, <1>p, <2>1, <2>2, TypedByPut
<1>2. CASE NameContainer(w)
  <2> DEFINE copy == [worker[w].copy EXCEPT !.name = worker[w].file]
  <2>1. copy \in Record
    BY <1>a, <1>2 DEF Named, NameContainer, At
  <2>2. Rest' /\ UNCHANGED <<uploads, requests>>
    <3>1. row' \in Record
      BY <1>2, <1>u, <2>1 DEF NameContainer
    <3> QED BY <1>b, <1>2, <3>1 DEF NameContainer, Rest, store, notes, history
  <2> HIDE DEF copy
  <2>3. CASE worker[w].final
    <3>1. worker' = [worker EXCEPT ![w] = [worker[w] EXCEPT !.copy = copy, !.pc = "complete"]]
      BY <1>2, <2>3 DEF NameContainer, copy
    <3>2. [worker[w] EXCEPT !.copy = copy, !.pc = "complete"]
            = [worker[w] EXCEPT !.pc = "complete", !.copy = copy, !.pkg = worker[w].pkg]
      BY <1>a DEF Job
    <3>3. Put(w, "complete", copy, worker[w].pkg)
      BY <1>a, <1>p, <2>1, <3>1, <3>2, PutJob
    <3> QED BY <1>a, <1>p, <2>1, <2>2, <3>3, TypedByPut
  <2>4. CASE ~worker[w].final
    <3>1. End(w)
      BY <1>2, <2>4 DEF NameContainer, End
    <3> QED BY <2>2, <3>1, TypedByPut
  <2> QED BY <2>3, <2>4
<1>3. CASE DeleteFiles(w)
  <2>1. files' \in [File -> SUBSET (1 .. uploads)] /\ parts' \in SUBSET (1 .. uploads)
    <3>1. CASE worker[w].op = "empty"
      BY <1>3, <3>1 DEF DeleteFiles
    <3>2. CASE worker[w].op # "empty"
      BY <1>b, <1>3, <3>2 DEF DeleteFiles
    <3> QED BY <3>1, <3>2
  <2>2. dropped' \in SUBSET (1 .. uploads)
    <3>1. dropped' = dropped \cup UNION {files[f] \ files'[f] : f \in File}
      BY <1>3 DEF DeleteFiles
    <3> QED BY <1>b, <3>1
  <2>3. Rest' /\ UNCHANGED <<uploads, requests>>
    BY <1>b, <1>3, <2>1, <2>2 DEF DeleteFiles, Rest, notes, history
  <2>4. End(w) \/ Put(w, "rename", worker[w].copy, worker[w].pkg)
    BY <1>a, <1>p, <1>3, Forms DEF DeleteFiles
  <2> QED BY <1>a, <1>p, <2>3, <2>4, TypedByPut
<1>4. CASE RenameContainer(w)
  <2>1. PICK f \in File \cup {NoFile} : Update([worker[w].copy EXCEPT !.name = f])
    BY <1>4 DEF RenameContainer, Stored
  <2>2. [worker[w].copy EXCEPT !.name = f] \in Record
    BY <1>a DEF Record
  <2>3. row' \in Record
    BY <1>u, <2>1, <2>2
  <2>4. Rest' /\ UNCHANGED <<uploads, requests>> /\ End(w)
    BY <1>b, <1>4, <2>3 DEF RenameContainer, Rest, store, notes, history
  <2> QED BY <2>4, TypedByPut
<1>5. CASE DestroyContainer(w)
  <2>1. row' \in Record
    BY <1>b, <1>5 DEF DestroyContainer, Record
  <2>2. files' \in [File -> SUBSET (1 .. uploads)] /\ parts' \in SUBSET (1 .. uploads)
    BY <1>5 DEF DestroyContainer
  <2>3. Rest' /\ UNCHANGED <<uploads, requests>> /\ End(w)
    BY <1>b, <1>5, <2>1, <2>2 DEF DestroyContainer, Rest, notes, history
  <2> QED BY <2>3, TypedByPut
<1>6. CASE FlattenZip(w)
  <2>1. PICK z \in File : parts' = parts \cup files[z] /\ files' = [files EXCEPT ![z] = parts'] /\ Packed(w, parts')
    BY <1>6 DEF FlattenZip, Stored
  <2>2. parts' \in SUBSET (1 .. uploads)
    BY <1>b, <2>1
  <2>3. files' \in [File -> SUBSET (1 .. uploads)]
    BY <1>b, <2>1, <2>2
  <2>4. failed' = failed
    BY <2>1 DEF Packed
  <2>5. Rest' /\ UNCHANGED <<uploads, requests>>
    BY <1>b, <1>6, <2>2, <2>3, <2>4 DEF FlattenZip, Rest, notes
  <2>6. Put(w, "note", InProgressNoMore(w), parts')
    BY <1>a, <2>1, <2>2, Forms
  <2> QED BY <1>a, <1>p, <2>2, <2>5, <2>6, TypedByPut
<1>7. CASE BundleFiles(w)
  <2> DEFINE pkg == parts \cup UNION {files[f] : f \in File}
  <2>1. pkg \in SUBSET (1 .. uploads)
    <3> DEFINE all == UNION {files[f] : f \in File}
    <3>1. \A f \in File : files[f] \subseteq 1 .. uploads
      BY <1>b
    <3>2. all \subseteq 1 .. uploads
      BY <3>1
    <3>3. pkg = parts \cup all
      OBVIOUS
    <3> HIDE DEF all, pkg
    <3> QED BY <1>b, <3>2, <3>3
  <2>2. Packed(w, pkg)
    BY <1>7 DEF BundleFiles
  <2> HIDE DEF pkg
  <2>3. failed' = failed
    BY <2>2 DEF Packed
  <2>4. Rest' /\ UNCHANGED <<uploads, requests>>
    BY <1>b, <1>7, <2>3 DEF BundleFiles, Rest, store, notes
  <2>5. Put(w, "note", InProgressNoMore(w), pkg)
    BY <1>a, <2>1, <2>2, Forms
  <2> QED BY <1>a, <1>p, <2>1, <2>4, <2>5, TypedByPut
<1>8. CASE NothingToProcess(w) \/ CreateNoteFails(w)
  <2>1. Fails(w)
    BY <1>8 DEF NothingToProcess, CreateNoteFails
  <2>2. faults' \in 0 .. MaxFaults
    BY <1>b, <1>8, <1>f DEF NothingToProcess, CreateNoteFails
  <2>3. failed' \in BOOLEAN
    BY <2>1 DEF Fails
  <2>4. Rest' /\ UNCHANGED <<uploads, requests>>
    BY <1>b, <1>8, <2>2, <2>3 DEF NothingToProcess, CreateNoteFails, Rest, store, notes
  <2>5. Put(w, "save", [InProgressNoMore(w) EXCEPT !.error = TRUE], worker[w].pkg)
    BY <1>a, <2>1, Forms
  <2> QED BY <1>a, <1>p, <2>4, <2>5, TypedByPut
<1>9. CASE CreateNote(w)
  <2>1. Rest' /\ UNCHANGED <<uploads, requests>>
    BY <1>a, <1>b, <1>9 DEF CreateNote, Rest, store, history
  <2>2. Put(w, "clean", [worker[w].copy EXCEPT !.ok = TRUE], worker[w].pkg)
    BY <1>a, <1>9, Forms
  <2> QED BY <1>a, <1>p, <2>1, <2>2, TypedByPut
<1>10. CASE CleanContainer(w)
  <2>1. files' \in [File -> SUBSET (1 .. uploads)] /\ parts' \in SUBSET (1 .. uploads)
    BY <1>10 DEF CleanContainer
  <2>2. Rest' /\ UNCHANGED <<uploads, requests>>
    BY <1>b, <1>10, <2>1 DEF CleanContainer, Rest, notes, history
  <2>3. Put(w, "save", worker[w].copy, worker[w].pkg)
    BY <1>a, <1>p, <1>10, Forms DEF CleanContainer
  <2> QED BY <1>a, <1>p, <2>2, <2>3, TypedByPut
<1>11. CASE SaveRecord(w)
  <2>1. row' \in Record
    BY <1>a, <1>11, <1>u DEF SaveRecord
  <2>2. Rest' /\ UNCHANGED <<uploads, requests>> /\ End(w)
    BY <1>b, <1>11, <2>1 DEF SaveRecord, Rest, store, notes, history
  <2> QED BY <2>2, TypedByPut
<1>12. CASE Crash(w)
  <2>1. Rest' /\ UNCHANGED <<uploads, requests>> /\ End(w)
    BY <1>b, <1>12, <1>f DEF Crash, Rest, store, notes
  <2> QED BY <2>1, TypedByPut
<1> QED BY <1>1, <1>2, <1>3, <1>4, <1>5, <1>6, <1>7, <1>8, <1>9, <1>10, <1>11, <1>12 DEF Serve

LEMMA TypedStep == ASSUME SwordInAssumption, Typed, [Next]_vars PROVE Typed'
<1>1. ASSUME UNCHANGED vars
      PROVE  Typed'
  <2>1. /\ UNCHANGED <<row, files, parts, worker, made, package, used>>
        /\ UNCHANGED <<uploads, dropped, requests, overlapped, failed, faults>>
    BY <1>1 DEF vars, store, notes, history
  <2> QED BY <2>1 DEF Typed, TypeOK, Counted, Named, Pending
<1>2. ASSUME NEW w \in Worker, Begin(w) PROVE Typed'
  BY <1>2, BeginBegins, TypedBegin
<1>3. ASSUME NEW w \in Worker, Serve(w) \/ CreateNoteFails(w) \/ Crash(w) PROVE Typed'
  BY <1>3, TypedStore, TypedServe
<1> QED BY <1>1, <1>2, <1>3 DEF Next, ReadContainer

-----------------------------------------------------------------------------
(* What a served request does to the record, to its worker's copy of it    *)
(* and to the number of notifications.                                     *)

\* Its copy says what it said about the deposit.
SameCopy(w) ==
    worker'[w].copy.ok = worker[w].copy.ok /\ worker'[w].copy.inProgress = worker[w].copy.inProgress
\* The record is the copy as far as it tells about the deposit.
AsCopy(w) ==
    row.present /\ row'.ok = worker[w].copy.ok /\ row'.inProgress = worker[w].copy.inProgress
Gone == ~row'.present /\ row'.ok = row.ok

Served(w) ==
    \/ /\ worker[w].pc \in Early
       /\ worker'[w] = Idle \/ (worker'[w].pc \in Early /\ SameCopy(w))
       /\ row' = row \/ AsCopy(w) \/ Gone
       /\ UNCHANGED <<made, failed, faults>>
    \/ /\ worker[w].pc = "complete" /\ worker'[w].pc = "note"
       /\ worker'[w].copy.ok = worker[w].copy.ok /\ ~worker'[w].copy.inProgress
       /\ UNCHANGED <<row, made, failed, faults>>
    \/ /\ worker[w].pc \in {"complete", "note"} /\ worker'[w].pc = "save" /\ failed'
       /\ worker'[w].copy.ok = worker[w].copy.ok /\ ~worker'[w].copy.inProgress
       /\ UNCHANGED <<row, made>> /\ (faults' = faults \/ faults' # 0)
    \/ /\ worker[w].pc = "note" /\ worker'[w].pc = "clean"
       /\ worker'[w].copy.ok /\ worker'[w].copy.inProgress = worker[w].copy.inProgress
       /\ made' = made + 1 /\ UNCHANGED <<row, failed, faults>>
    \/ /\ worker[w].pc = "clean" /\ worker'[w].pc = "save" /\ SameCopy(w)
       /\ UNCHANGED <<row, made, failed, faults>>
    \/ /\ worker[w].pc = "save" /\ worker'[w] = Idle
       /\ AsCopy(w) \/ (~row.present /\ row' = row)
       /\ UNCHANGED <<made, failed, faults>>
    \/ /\ worker'[w] = Idle /\ failed' /\ UNCHANGED <<row, made>> /\ faults' # 0

LEMMA ServedForms ==
    ASSUME SwordInAssumption, Typed, NEW w \in Worker, Serve(w) \/ CreateNoteFails(w) \/ Crash(w)
    PROVE  /\ worker[w].pc # "idle" /\ UNCHANGED <<overlapped, requests>>
           /\ \A v \in Worker \ {w} : worker'[v] = worker[v]
           /\ Served(w)
<1>a. /\ worker \in [Worker -> Job(uploads)] /\ row \in Record
      /\ worker[w].copy \in Record /\ worker[w].pkg \in SUBSET (1 .. uploads)
      /\ faults \in Nat
  <2>1. faults \in Nat /\ row \in Record
    BY DEF Typed, TypeOK, SwordInAssumption
  <2>2. worker \in [Worker -> Job(uploads)]
    BY TypedJobs DEF Typed
  <2> QED BY <2>1, <2>2 DEF Job
<1>c. \A r \in Record :
         /\ \A f : [r EXCEPT !.name = f].ok = r.ok /\ [r EXCEPT !.name = f].inProgress = r.inProgress
         /\ [r EXCEPT !.inProgress = FALSE].ok = r.ok /\ ~[r EXCEPT !.inProgress = FALSE].inProgress
         /\ [r EXCEPT !.error = TRUE].ok = r.ok /\ [r EXCEPT !.error = TRUE].inProgress = r.inProgress
         /\ [r EXCEPT !.ok = TRUE].ok /\ [r EXCEPT !.ok = TRUE].inProgress = r.inProgress
         /\ ~[r EXCEPT !.present = FALSE].present /\ [r EXCEPT !.present = FALSE].ok = r.ok
  BY DEF Record
<1>d. /\ InProgressNoMore(w) \in Record
      /\ InProgressNoMore(w).ok = worker[w].copy.ok /\ ~InProgressNoMore(w).inProgress
      /\ [InProgressNoMore(w) EXCEPT !.error = TRUE].ok = worker[w].copy.ok
      /\ ~[InProgressNoMore(w) EXCEPT !.error = TRUE].inProgress
      /\ [worker[w].copy EXCEPT !.ok = TRUE].ok
      /\ [worker[w].copy EXCEPT !.ok = TRUE].inProgress = worker[w].copy.inProgress
  BY <1>a, <1>c, Records DEF InProgressNoMore
<1>p. PC = {"idle", "check", "store", "name", "delete", "rename", "complete", "note", "clean", "save",
            "destroy"}
  BY DEF PC
<1>n. \A n \in Nat : n + 1 # 0
  OBVIOUS
<1>e. End(w) => worker'[w] = Idle /\ \A v \in Worker \ {w} : worker'[v] = worker[v]
  BY <1>a DEF End
<1>g. ASSUME NEW p \in PC, Goto(w, p)
      PROVE  worker'[w].pc = p /\ SameCopy(w) /\ \A v \in Worker \ {w} : worker'[v] = worker[v]
  BY <1>a, <1>g, Forms DEF Put, SameCopy
<1>u. \A c \in Record : Update(c) => row' = row \/ (row.present /\ row' = c)
  BY DEF Update
<1>v. \A c : Update(c) /\ ~row.present => row' = row
  BY DEF Update
<1> HIDE DEF PC
<1>1. CASE CheckFile(w) \/ StoreFile(w) \/ DeleteFiles(w)
  <2>1. \/ End(w)
        \/ \E p \in {"store", "name", "complete", "rename"} : Goto(w, p)
    BY <1>1 DEF CheckFile, StoreFile, DeleteFiles, AfterStore
  <2>2. /\ worker[w].pc \in Early /\ row' = row /\ UNCHANGED <<made, failed, faults, overlapped, requests>>
    BY <1>1 DEF CheckFile, StoreFile, DeleteFiles, At, Early, notes, history
  <2>3. /\ worker'[w] = Idle \/ (worker'[w].pc \in Early /\ SameCopy(w))
        /\ \A v \in Worker \ {w} : worker'[v] = worker[v]
    BY <1>e, <1>g, <1>p, <2>1 DEF Early
  <2> QED BY <2>2, <2>3 DEF Served, Early
<1>2. CASE NameContainer(w)
  <2> DEFINE copy == [worker[w].copy EXCEPT !.name = worker[w].file]
  <2>1. copy.ok = worker[w].copy.ok /\ copy.inProgress = worker[w].copy.inProgress
    BY <1>a, <1>c
  <2>2. /\ Update(copy)
        /\ worker' = [worker EXCEPT ![w] =
             IF worker[w].final THEN [worker[w] EXCEPT !.copy = copy, !.pc = "complete"] ELSE Idle]
    BY <1>2 DEF NameContainer
  <2> HIDE DEF copy
  <2>3. row' = row \/ AsCopy(w)
    BY <2>1, <2>2 DEF Update, AsCopy
  <2>4. /\ worker'[w] = Idle \/ (worker'[w].pc \in Early /\ SameCopy(w))
        /\ \A v \in Worker \ {w} : worker'[v] = worker[v]
    <3>1. LET j == [worker[w] EXCEPT !.copy = copy, !.pc = "complete"]
          IN  j.copy = copy /\ j.pc = "complete"
      BY <1>a DEF Job
    <3>2. \/ worker'[w] = [worker[w] EXCEPT !.copy = copy, !.pc = "complete"]
          \/ worker'[w] = Idle
      BY <1>a, <2>2
    <3>3. \A v \in Worker \ {w} : worker'[v] = worker[v]
      BY <1>a, <2>2
    <3>4. worker'[w] = Idle \/ (worker'[w].copy = copy /\ worker'[w].pc = "complete")
      BY <3>1, <3>2
    <3> QED BY <2>1, <3>3, <3>4 DEF SameCopy, Early
  <2>5. worker[w].pc = "name" /\ UNCHANGED <<made, failed, faults, overlapped, requests>>
    BY <1>2 DEF NameContainer, At, notes, history
  <2> QED BY <2>3, <2>4, <2>5 DEF Served, Early
<1>3. CASE RenameContainer(w)
  <2>1. PICK f : Update([worker[w].copy EXCEPT !.name = f])
    BY <1>3 DEF RenameContainer
  <2>2. row' = row \/ AsCopy(w)
    BY <1>a, <1>c, <2>1 DEF Update, AsCopy
  <2>3. /\ worker[w].pc = "rename" /\ UNCHANGED <<made, failed, faults, overlapped, requests>>
        /\ End(w)
    BY <1>3 DEF RenameContainer, At, notes, history
  <2> QED BY <1>e, <2>2, <2>3 DEF Served, Early
<1>4. CASE DestroyContainer(w)
  <2>1. Gone
    BY <1>a, <1>c, <1>4 DEF DestroyContainer, Gone
  <2>2. /\ worker[w].pc = "destroy" /\ UNCHANGED <<made, failed, faults, overlapped, requests>>
        /\ End(w)
    BY <1>4 DEF DestroyContainer, At, notes, history
  <2> QED BY <1>e, <2>1, <2>2 DEF Served, Early
<1>5. CASE FlattenZip(w) \/ BundleFiles(w)
  <2>1. \E pkg : Packed(w, pkg)
    BY <1>5 DEF FlattenZip, BundleFiles
  <2>2. /\ worker[w].pc = "complete" /\ UNCHANGED <<row, made, faults, overlapped, requests>>
    BY <1>5 DEF FlattenZip, BundleFiles, Completing, At, notes, history
  <2>3. PICK pkg : Packed(w, pkg)
    BY <2>1
  <2>4. /\ failed' = failed
        /\ worker' = [worker EXCEPT ![w] =
              [worker[w] EXCEPT !.pc = "note", !.copy = InProgressNoMore(w), !.pkg = pkg]]
    BY <2>3 DEF Packed, NotInProgress, InProgressNoMore
  <2>5. LET j == [worker[w] EXCEPT !.pc = "note", !.copy = InProgressNoMore(w), !.pkg = pkg]
        IN  j.pc = "note" /\ j.copy = InProgressNoMore(w)
    BY <1>a DEF Job
  <2>6. /\ worker'[w].pc = "note" /\ worker'[w].copy = InProgressNoMore(w)
        /\ \A v \in Worker \ {w} : worker'[v] = worker[v]
    BY <1>a, <2>4, <2>5
  <2> QED BY <1>d, <2>2, <2>4, <2>6 DEF Served
<1>6. CASE NothingToProcess(w) \/ CreateNoteFails(w)
  <2>1. Fails(w) /\ UNCHANGED <<row, made, overlapped, requests>> /\ worker[w].pc \in {"complete", "note"}
    BY <1>6 DEF NothingToProcess, CreateNoteFails, Completing, At, notes
  <2>2. faults' = faults \/ faults' # 0
    BY <1>a, <1>6 DEF NothingToProcess, CreateNoteFails, Fault
  <2>3. Put(w, "save", [InProgressNoMore(w) EXCEPT !.error = TRUE], worker[w].pkg)
    BY <1>a, <2>1, Forms
  <2>4. failed'
    BY <2>1 DEF Fails
  <2> QED BY <1>d, <2>1, <2>2, <2>3, <2>4 DEF Served, Put
<1>7. CASE CreateNote(w)
  <2>1. Put(w, "clean", [worker[w].copy EXCEPT !.ok = TRUE], worker[w].pkg)
    BY <1>a, <1>7, Forms
  <2>2. /\ worker[w].pc = "note" /\ made' = made + 1 /\ UNCHANGED <<row, failed, faults, overlapped, requests>>
    BY <1>7 DEF CreateNote, At, history
  <2> QED BY <1>d, <2>1, <2>2 DEF Served, Put
<1>8. CASE CleanContainer(w)
  <2>1. worker[w].pc = "clean" /\ UNCHANGED <<row, made, failed, faults, overlapped, requests>> /\ Goto(w, "save")
    BY <1>8 DEF CleanContainer, At, notes, history
  <2> QED BY <1>g, <1>p, <2>1 DEF Served
<1>9. CASE SaveRecord(w)
  <2>1. worker[w].pc = "save" /\ UNCHANGED <<made, failed, faults, overlapped, requests>> /\ End(w)
    BY <1>9 DEF SaveRecord, At, notes, history
  <2>2. AsCopy(w) \/ (~row.present /\ row' = row)
    BY <1>9 DEF SaveRecord, Update, AsCopy
  <2> QED BY <1>e, <2>1, <2>2 DEF Served
<1>10. CASE Crash(w)
  <2>1. /\ worker[w].pc # "idle" /\ failed' /\ UNCHANGED <<row, made, overlapped, requests>> /\ End(w)
        /\ faults' = faults + 1
    BY <1>10 DEF Crash, At, notes, Fault
  <2> QED BY <1>a, <1>e, <1>n, <2>1 DEF Served
<1> QED BY <1>1, <1>2, <1>3, <1>4, <1>5, <1>6, <1>7, <1>8, <1>9, <1>10 DEF Serve

-----------------------------------------------------------------------------
(* One worker, if no requests overlap.                                     *)

LEMMA AloneStep ==
    ASSUME SwordInAssumption, Typed, Alone, [Next]_vars
    PROVE  Alone'
<1>a. worker \in [Worker -> Job(uploads)] /\ row \in Record
  BY TypedJobs DEF Typed, TypeOK
<1>1. CASE UNCHANGED vars
  BY <1>1 DEF vars, history, Alone, Busy
<1>2. ASSUME NEW w \in Worker, Begin(w) PROVE Alone'
  <2>1. /\ Begins(w) /\ \A v \in Worker \ {w} : worker'[v] = worker[v]
    BY <1>a, <1>2, BeginBegins, BeginsJob
  <2>2. ~overlapped' => Busy = {}
    BY <2>1 DEF Begins
  <2>3. ~overlapped' => \A v \in Worker \ {w} : v \notin Busy'
    BY <2>1, <2>2 DEF Busy
  <2> QED BY <2>3 DEF Alone, Busy
<1>3. ASSUME NEW w \in Worker, Serve(w) \/ CreateNoteFails(w) \/ Crash(w) PROVE Alone'
  <2>1. Busy' \subseteq Busy /\ overlapped' = overlapped
    BY <1>3, ServedForms DEF Busy
  <2> QED BY <2>1 DEF Alone
<1> QED BY <1>1, <1>2, <1>3 DEF Next, ReadContainer

-----------------------------------------------------------------------------
(* What the record tells.                                                  *)

LEMMA TruthInit == ASSUME SwordInAssumption, Init PROVE TruthInv
BY DEF Init, TruthInv, Idle, NoRecord, Truthful, Busy, Early

LEMMA TruthBegin ==
    ASSUME SwordInAssumption, Typed, Alone, TruthInv, NEW w \in Worker, Begin(w)
    PROVE  TruthInv'
<1>a. worker \in [Worker -> Job(uploads)] /\ row \in Record /\ requests \in Nat /\ made \in Nat
  BY TypedJobs DEF Typed, TypeOK
<1>1. Begins(w)
  BY BeginBegins
<1>2. /\ \A v \in Worker \ {w} : worker'[v] = worker[v]
      /\ worker[w].pc = "idle" /\ worker'[w].pc \in Early \ {"idle"} /\ worker'[w].copy = row'
  BY <1>a, <1>1, BeginsJob DEF First, Early
<1>3. UNCHANGED <<made, failed, faults>> /\ requests' = requests + 1
  BY <1>1 DEF Begins
<1>4. /\ ~overlapped' => ~overlapped /\ \A v \in Worker : worker[v].pc = "idle"
  BY <1>1 DEF Begins, Busy
<1>5. (row' = row /\ row.present) \/ (~row'.ok /\ row'.inProgress /\ requests = 0)
  BY <1>1 DEF Begins, NoRecord
<1>6. row'.ok => made > 0
  BY <1>5 DEF TruthInv
<1>7. requests' # 0
  BY <1>a, <1>3
<1>8. \A v \in Worker :
         /\ worker'[v].copy.ok => made' > 0
         /\ worker'[v].pc = "clean" => worker'[v].copy.ok
  BY <1>2, <1>3, <1>6 DEF TruthInv, Early
<1>9. ASSUME ~overlapped', faults' = 0
      PROVE  /\ Truthful(row)' /\ \A v \in Worker : v = w \/ worker'[v].pc = "idle"
  <2>1. \A v \in Worker : worker[v].pc = "idle"
    BY <1>4, <1>9
  <2>2. CASE row' = row /\ row.present
    <3>1. ~overlapped /\ faults = 0
      BY <1>3, <1>4, <1>9
    <3>2. Truthful(row)
      BY <2>1, <2>2, <3>1 DEF TruthInv
    <3>3. UNCHANGED <<row, made, failed>>
      BY <1>3, <2>2
    <3>4. Truthful(row)'
      BY <3>2, <3>3 DEF Truthful
    <3> QED BY <1>2, <2>1, <3>4
  <2>3. CASE ~row'.ok /\ row'.inProgress /\ requests = 0
    BY <1>a, <1>2, <1>3, <2>1, <2>3 DEF TruthInv, Truthful
  <2> QED BY <1>2, <1>5, <2>1, <2>2, <2>3
<1>10. ASSUME ~overlapped', faults' = 0
       PROVE  /\ row'.present /\ (\A v \in Worker : worker'[v].pc \in Early \cup {"idle"}) => Truthful(row)'
              /\ \A v \in Worker :
                    /\ worker'[v].pc \in Early => Truthful(worker[v].copy)'
                    /\ worker'[v].pc \in {"note", "clean", "save"} =>
                          /\ ~worker'[v].copy.inProgress
                          /\ worker'[v].copy.ok <=> made' > 0
  BY <1>2, <1>9, <1>10 DEF Truthful, Early
<1> QED BY <1>3, <1>6, <1>7, <1>8, <1>10 DEF TruthInv

LEMMA TruthServe ==
    ASSUME SwordInAssumption, Typed, Alone, TruthInv, NEW w \in Worker,
           Serve(w) \/ CreateNoteFails(w) \/ Crash(w)
    PROVE  TruthInv'
<1>a. worker \in [Worker -> Job(uploads)] /\ row \in Record /\ requests \in Nat /\ made \in Nat
  BY TypedJobs DEF Typed, TypeOK
<1>b. /\ worker[w].pc # "idle" /\ UNCHANGED <<overlapped, requests>>
      /\ \A v \in Worker \ {w} : worker'[v] = worker[v]
      /\ Served(w)
  BY ServedForms
<1>c. requests # 0 /\ requests' # 0
  BY <1>b DEF TruthInv, Busy
<1>d. Idle.pc = "idle" /\ ~Idle.copy.ok /\ made' >= made /\ made' \in Nat
  BY <1>a, <1>b DEF Idle, NoRecord, Served
<1>e. worker[w].copy.ok => made > 0
  BY DEF TruthInv
<1>1. row'.ok => made' > 0
  <2>1. row'.ok => row.ok \/ worker[w].copy.ok
    BY <1>b DEF Served, AsCopy, Gone
  <2>2. row.ok => made > 0
    BY DEF TruthInv
  <2>3. made > 0 => made' > 0
    BY <1>a, <1>d
  <2> QED BY <1>e, <2>1, <2>2, <2>3
<1>2. /\ worker'[w].copy.ok => made' > 0
      /\ worker'[w].pc = "clean" => worker'[w].copy.ok
  BY <1>a, <1>b, <1>d, <1>e DEF TruthInv, Served, SameCopy, Early
<1>3. \A v \in Worker :
         /\ worker'[v].copy.ok => made' > 0
         /\ worker'[v].pc = "clean" => worker'[v].copy.ok
  <2>1. ASSUME NEW v \in Worker \ {w}
        PROVE  /\ worker'[v].copy.ok => made' > 0
               /\ worker'[v].pc = "clean" => worker'[v].copy.ok
    BY <1>a, <1>b, <1>d DEF TruthInv
  <2> QED BY <1>2, <2>1
<1>4. ASSUME ~overlapped', faults' = 0
      PROVE  /\ row'.present /\ (\A v \in Worker : worker'[v].pc \in Early \cup {"idle"}) => Truthful(row)'
             /\ \A v \in Worker :
                   /\ worker'[v].pc \in Early => Truthful(worker[v].copy)'
                   /\ worker'[v].pc \in {"note", "clean", "save"} =>
                         /\ ~worker'[v].copy.inProgress
                         /\ worker'[v].copy.ok <=> made' > 0
  <2>1. ~overlapped /\ faults' = 0
    BY <1>b, <1>4
  <2>2. \A v \in Worker \ {w} : worker'[v].pc = "idle" /\ worker[v].pc = "idle"
    BY <1>b, <2>1 DEF Alone, Busy
  <2>3. faults = 0
    BY <1>b, <1>4 DEF Served
  <2>4. /\ worker[w].pc \in Early => Truthful(worker[w].copy)
        /\ row.present /\ worker[w].pc \in Early => Truthful(row)
        /\ worker[w].pc \in {"note", "clean", "save"} =>
              ~worker[w].copy.inProgress /\ (worker[w].copy.ok <=> made > 0)
        /\ worker[w].pc = "clean" => worker[w].copy.ok
    BY <2>1, <2>2, <2>3 DEF TruthInv
  <2>5. /\ worker'[w].pc \in Early => Truthful(worker[w].copy)'
        /\ worker'[w].pc \in {"note", "clean", "save"} =>
              ~worker'[w].copy.inProgress /\ (worker'[w].copy.ok <=> made' > 0)
    BY <1>a, <1>b, <1>d, <1>4, <2>4 DEF Served, SameCopy, Truthful, Early
  <2>6. row'.present /\ worker'[w].pc \in Early \cup {"idle"} => Truthful(row)'
    BY <1>a, <1>b, <1>d, <1>4, <2>4 DEF Served, AsCopy, Gone, Truthful, Early
  <2>7. \A v \in Worker \ {w} : worker'[v].pc \notin Early \cup {"note", "clean", "save"}
    BY <2>2 DEF Early
  <2> QED BY <2>5, <2>6, <2>7
<1>5. requests' = 0 => Busy' = {} /\ made' = 0 /\ ~failed'
  BY <1>c
<1> QED BY <1>1, <1>3, <1>4, <1>5 DEF TruthInv

LEMMA TruthStep ==
    ASSUME SwordInAssumption, Typed, Alone, TruthInv, [Next]_vars
    PROVE  TruthInv'
<1>1. CASE UNCHANGED vars
  BY <1>1 DEF vars, store, notes, history, TruthInv, Truthful, Busy
<1> QED BY <1>1, TruthBegin, TruthServe DEF Next, ReadContainer

-----------------------------------------------------------------------------
(* What is in a package.                                                   *)

Handing == {"note", "clean"}

LEMMA Lies ==
    /\ \A x : x \in Lying <=> x \in parts \/ \E f \in File : x \in files[f]
    /\ \A x : x \in Lying' <=> x \in parts' \/ \E f \in File : x \in files'[f]
BY DEF Lying

LEMMA PackageInit == ASSUME SwordInAssumption, Init PROVE PackageInv
<1>1. Lying = {}
  BY DEF Lying, Init
<1> QED BY <1>1 DEF Init, PackageInv, Idle

\* A step after which no package is handed over, and nothing new is known of.
LEMMA PackageKept ==
    ASSUME PackageInv, ~overlapped, ~failed, NEW w \in Worker,
           \A v \in Worker \ {w} : worker[v].pc = "idle" /\ worker'[v].pc = "idle",
           worker[w].pc \notin Handing, worker'[w].pc \notin Handing,
           used' = used, parts' = {},
           \A f, g \in File : f # g => files'[f] \cap files'[g] = {},
           \A f \in File : files'[f] \cap (dropped' \cup used) = {}
    PROVE  PackageInv'
<1>1. \A v \in Worker : worker'[v].pc \notin Handing
  BY DEF Handing
<1>2. Lying' \cap (dropped' \cup used') = {}
  BY Lies
<1> QED BY <1>1, <1>2 DEF PackageInv, Handing

LEMMA PackageStep ==
    ASSUME SwordInAssumption, Typed, Alone, PackageInv, [Next]_vars
    PROVE  PackageInv'
<1>t. /\ worker \in [Worker -> Job(uploads)] /\ uploads \in Nat /\ row \in Record
      /\ files \in [File -> SUBSET (1 .. uploads)] /\ dropped \in SUBSET (1 .. uploads)
      /\ used \in SUBSET (1 .. uploads) /\ parts \in SUBSET (1 .. uploads)
      /\ failed \in BOOLEAN
  BY TypedJobs DEF Typed, TypeOK
<1>1. CASE UNCHANGED vars
  BY <1>1 DEF vars, store, notes, history, PackageInv, Lying
<1>2. ASSUME NEW w \in Worker, Begin(w), ~failed', ~overlapped' PROVE PackageInv'
  <2>1. /\ Begins(w) /\ \A v \in Worker \ {w} : worker'[v] = worker[v]
        /\ worker[w].pc = "idle" /\ worker'[w].pc \in First
    BY <1>t, <1>2, BeginBegins, BeginsJob
  <2>2. /\ UNCHANGED <<files, parts, dropped, used, failed>> /\ ~overlapped /\ Busy = {}
    BY <1>2, <2>1 DEF Begins
  <2>3. \A v \in Worker : worker[v].pc = "idle"
    BY <2>2 DEF Busy
  <2>4. /\ parts = {} /\ Lying \cap (dropped \cup used) = {}
        /\ \A f, g \in File : f # g => files[f] \cap files[g] = {}
    BY <1>2, <2>2, <2>3 DEF PackageInv
  <2>5. worker[w].pc \notin Handing /\ worker'[w].pc \notin Handing
    BY <2>1 DEF Handing, First
  <2>6. \A f \in File : files'[f] \cap (dropped' \cup used) = {}
    BY <2>2, <2>4, Lies
  <2>7. \A f, g \in File : f # g => files'[f] \cap files'[g] = {}
    BY <2>2, <2>4
  <2>8. parts' = {} /\ used' = used /\ ~failed
    BY <1>2, <2>2, <2>4
  <2>9. \A v \in Worker \ {w} : worker[v].pc = "idle" /\ worker'[v].pc = "idle"
    BY <2>1, <2>3
  <2> QED BY <2>2, <2>5, <2>6, <2>7, <2>8, <2>9, PackageKept
<1>3. ASSUME NEW w \in Worker, Serve(w) \/ CreateNoteFails(w) \/ Crash(w), ~failed', ~overlapped'
      PROVE  PackageInv'
  <2>a. /\ worker[w].pc # "idle" /\ ~overlapped
        /\ \A v \in Worker \ {w} : worker'[v] = worker[v]
        /\ Served(w)
    BY <1>3, ServedForms
  <2>b. ~failed
    BY <1>3, <2>a DEF Served
  <2>c. \A v \in Worker \ {w} : worker[v].pc = "idle" /\ worker'[v].pc = "idle"
    BY <2>a DEF Alone, Busy
  <2>d. /\ \A f, g \in File : f # g => files[f] \cap files[g] = {}
        /\ worker[w].pc \notin Handing => parts = {}
        /\ Lying \cap dropped = {}
        /\ worker[w].pc # "clean" => Lying \cap used = {}
        /\ worker[w].pc = "note" => worker[w].pkg \subseteq Lying
    BY <2>a, <2>b, <2>c DEF PackageInv, Handing
  <2>e. Idle.pc = "idle"
    BY DEF Idle
  <2>f. worker[w].pc \in Early \/ worker[w].pc = "save" =>
           /\ parts = {} /\ Lying \cap used = {}
           /\ \A f \in File : files[f] \cap (dropped \cup used) = {}
    BY <2>d, Lies DEF Early, Handing
  <2>g. End(w) => worker'[w] = Idle
    BY <1>t DEF End
  <2>1. CASE CheckFile(w) \/ NameContainer(w) \/ RenameContainer(w) \/ SaveRecord(w)
    <3>1. /\ worker[w].pc \in {"check", "name", "rename", "save"}
          /\ UNCHANGED <<files, parts, dropped, used>>
      BY <2>1 DEF CheckFile, NameContainer, RenameContainer, SaveRecord, At, store, notes
    <3>2. worker'[w].pc \notin Handing
      BY <2>a, <2>e, <3>1 DEF Served, Handing, Early
    <3>3. /\ \A f \in File : files'[f] \cap (dropped' \cup used) = {}
          /\ \A f, g \in File : f # g => files'[f] \cap files'[g] = {}
          /\ parts' = {} /\ used' = used /\ worker[w].pc \notin Handing
      BY <2>d, <2>f, <3>1 DEF Early, Handing
    <3> QED BY <2>a, <2>b, <2>c, <3>2, <3>3, PackageKept
  <2>2. CASE StoreFile(w)
    <3> DEFINE f == worker[w].file
    <3>1. /\ worker[w].pc = "store" /\ UNCHANGED <<parts, used>>
          /\ files' = [files EXCEPT ![f] = {uploads + 1}] /\ dropped' = dropped \cup files[f]
      BY <2>2 DEF StoreFile, At, notes
    <3>2. f \in File
      BY <3>1 DEF Typed, Named
    <3>3. worker'[w].pc \notin Handing
      BY <2>a, <2>e, <3>1 DEF Served, Handing, Early
    <3>4. \A g \in File : files'[g] = IF g = f THEN {uploads + 1} ELSE files[g]
      BY <1>t, <3>1
    <3>5. /\ \A g \in File : uploads + 1 \notin files[g]
          /\ uploads + 1 \notin dropped \cup used
      BY <1>t
    <3>6. /\ parts' = {} /\ \A g \in File : files[g] \cap (dropped \cup used) = {}
          /\ worker[w].pc \notin Handing
      BY <2>f, <3>1 DEF Early, Handing
    <3> HIDE DEF f
    <3>7. \A g \in File : files'[g] \cap (dropped' \cup used) = {}
      <4>1. ASSUME NEW g \in File, g # f PROVE files[g] \cap (dropped \cup files[f] \cup used) = {}
        BY <2>d, <3>2, <3>6, <4>1
      <4>2. {uploads + 1} \cap (dropped \cup files[f] \cup used) = {}
        BY <3>2, <3>5
      <4> QED BY <3>1, <3>4, <4>1, <4>2
    <3>8. \A g, h \in File : g # h => files'[g] \cap files'[h] = {}
      BY <2>d, <3>4, <3>5
    <3> QED BY <2>a, <2>b, <2>c, <3>1, <3>3, <3>6, <3>7, <3>8, PackageKept
  <2>3. CASE DeleteFiles(w)
    <3>1. /\ worker[w].pc = "delete" /\ used' = used
          /\ dropped' = dropped \cup UNION {files[f] \ files'[f] : f \in File}
      BY <2>3 DEF DeleteFiles, At, notes
    <3>2. /\ parts = {} /\ \A g \in File : files[g] \cap (dropped \cup used) = {}
          /\ worker[w].pc \notin Handing
      BY <2>f, <3>1 DEF Early, Handing
    <3>3. worker'[w].pc \notin Handing
      BY <2>a, <2>e, <3>1 DEF Served, Handing, Early
    <3>4. parts' = {} /\ \A g \in File : files'[g] = {} \/ files'[g] = files[g]
      <4>1. CASE worker[w].op = "empty"
        BY <2>3, <4>1 DEF DeleteFiles
      <4>2. CASE worker[w].op # "empty"
        BY <1>t, <2>3, <3>2, <4>2 DEF DeleteFiles
      <4> QED BY <4>1, <4>2
    <3>5. \A x \in dropped' : x \in dropped \/ \E f \in File : x \in files[f] /\ x \notin files'[f]
      BY <3>1
    <3>6. \A g \in File : files'[g] \cap (dropped' \cup used) = {}
      BY <2>d, <3>2, <3>4, <3>5
    <3>7. \A g, h \in File : g # h => files'[g] \cap files'[h] = {}
      BY <2>d, <3>4
    <3> QED BY <2>a, <2>b, <2>c, <3>1, <3>2, <3>3, <3>4, <3>6, <3>7, PackageKept
  <2>4. CASE DestroyContainer(w) \/ CleanContainer(w)
    <3>1. /\ worker[w].pc \in {"destroy", "clean"}
          /\ files' = [f \in File |-> {}] /\ parts' = {}
      BY <2>4 DEF DestroyContainer, CleanContainer, At
    <3>2. worker'[w].pc \notin Handing
      BY <2>a, <2>e, <3>1 DEF Served, Handing, Early
    <3>3. Lying' = {}
      BY <3>1, Lies
    <3>4. \A v \in Worker : worker'[v].pc \notin Handing
      BY <2>c, <3>2 DEF Handing
    <3> QED BY <3>1, <3>3, <3>4 DEF PackageInv, Handing
  <2>5. CASE FlattenZip(w)
    <3>1. PICK z \in File : /\ parts' = parts \cup files[z] /\ files' = [files EXCEPT ![z] = parts']
                           /\ Packed(w, parts')
      BY <2>5 DEF FlattenZip, Stored
    <3>2. worker[w].pc = "complete" /\ UNCHANGED <<dropped, used>>
      BY <2>5 DEF FlattenZip, Completing, At, notes
    <3>3. parts = {} /\ parts' = files[z] /\ files' = files
      BY <1>t, <2>f, <3>1, <3>2 DEF Early
    <3>4. Lying' = Lying
      BY <3>3, Lies
    <3>5. parts' \in SUBSET (1 .. uploads)
      BY <1>t, <3>3
    <3>6. worker'[w].pc = "note" /\ worker'[w].pkg = parts'
      BY <1>t, <3>1, <3>5, Forms DEF Put
    <3>7. parts' \subseteq Lying'
      BY Lies
    <3>8. /\ \A f, g \in File : f # g => files'[f] \cap files'[g] = {}
          /\ Lying' \cap dropped' = {} /\ Lying' \cap used' = {}
      BY <2>d, <3>2, <3>3, <3>4
    <3>9. \A v \in Worker : worker'[v].pc = "note" => worker'[v].pkg \subseteq Lying'
      BY <2>c, <3>6, <3>7
    <3> QED BY <3>6, <3>8, <3>9 DEF PackageInv, Handing
  <2>6. CASE BundleFiles(w)
    <3>1. /\ Packed(w, Lying) /\ worker[w].pc = "complete" /\ UNCHANGED <<files, parts, dropped, used>>
      BY <2>6 DEF BundleFiles, Lying, Completing, At, store, notes
    <3>2. Lying \in SUBSET (1 .. uploads)
      BY <1>t, Lies
    <3>3. worker'[w].pc = "note" /\ worker'[w].pkg = Lying
      BY <1>t, <3>1, <3>2, Forms DEF Put
    <3>4. Lying' = Lying
      BY <3>1, Lies
    <3>5. \A v \in Worker : worker'[v].pc = "note" => worker'[v].pkg \subseteq Lying'
      BY <2>c, <3>3, <3>4
    <3>6. /\ \A f, g \in File : f # g => files'[f] \cap files'[g] = {}
          /\ Lying' \cap dropped' = {} /\ Lying' \cap used' = {}
      BY <2>d, <3>1, <3>4
    <3> QED BY <3>3, <3>5, <3>6 DEF PackageInv, Handing
  <2>7. CASE CreateNote(w)
    <3>1. /\ worker[w].pc = "note" /\ UNCHANGED <<files, parts, dropped>>
      BY <2>7 DEF CreateNote, At, store
    <3>2. worker'[w].pc = "clean"
      BY <1>t, <2>7, Forms DEF Put
    <3>3. Lying' = Lying
      BY <3>1, Lies
    <3>4. \A v \in Worker : worker'[v].pc # "note"
      BY <2>c, <3>2
    <3>5. \E v \in Worker : worker'[v].pc = "clean"
      BY <3>2
    <3>6. /\ \A f, g \in File : f # g => files'[f] \cap files'[g] = {}
          /\ Lying' \cap dropped' = {}
      BY <2>d, <3>1, <3>3
    <3> QED BY <3>4, <3>5, <3>6 DEF PackageInv
  <2>8. CASE NothingToProcess(w) \/ CreateNoteFails(w) \/ Crash(w)
    BY <1>3, <2>8 DEF NothingToProcess, CreateNoteFails, Crash, Fails
  <2> QED BY <1>3, <2>1, <2>2, <2>3, <2>4, <2>5, <2>6, <2>7, <2>8 DEF Serve
<1>4. ASSUME failed' \/ overlapped' PROVE PackageInv'
  BY <1>4 DEF PackageInv
<1> QED BY <1>1, <1>2, <1>3, <1>4 DEF Next, ReadContainer

-----------------------------------------------------------------------------
Inv == Typed /\ Alone /\ TruthInv /\ PackageInv

LEMMA Invariance == ASSUME SwordInAssumption PROVE Spec => []Inv
<1>1. Init => Inv
  <2> SUFFICES ASSUME Init PROVE Inv
    OBVIOUS
  <2>1. Alone
    <3>1. Busy = {}
      BY DEF Init, Busy, Idle
    <3> QED BY <3>1 DEF Alone
  <2> QED BY <2>1, TypedInit, TruthInit, PackageInit DEF Inv
<1>2. Inv /\ [Next]_vars => Inv'
  BY TypedStep, AloneStep, TruthStep, PackageStep DEF Inv
<1> QED BY <1>1, <1>2, PTL DEF Spec

\* The types of the record, of the container and of the workers' copies; there are
\* never more uploads than requests (add_or_replace_binary_file stores one each).
THEOREM SwordInTypes == ASSUME SwordInAssumption PROVE Spec => []TypeOK
<1>1. Inv => TypeOK
  BY DEF Inv, Typed
<1> QED BY <1>1, Invariance, PTL

\* The record never tells of a notification that was not made, and without overlapping
\* or broken requests it tells exactly whether there is one, whatever failed in
\* _process_completed_deposit and however often the deposit was completed.
THEOREM RecordTold == ASSUME SwordInAssumption PROVE Spec => []RecordTellsTruth
<1>1. Inv => RecordTellsTruth
  <2> SUFFICES ASSUME Inv PROVE RecordTellsTruth
    OBVIOUS
  <2>1. row.ok => made > 0
    BY DEF Inv, TruthInv
  <2>2. ASSUME row.present, Busy = {}, ~overlapped, faults = 0
        PROVE  (row.ok <=> made > 0) /\ (row.inProgress => made = 0 /\ ~failed)
    <3>1. \A w \in Worker : worker[w].pc = "idle"
      BY <2>2 DEF Busy
    <3> QED BY <2>2, <3>1 DEF Inv, TruthInv, Truthful
  <2> QED BY <2>1, <2>2 DEF RecordTellsTruth
<1> QED BY <1>1, Invariance, PTL

\* The package of a notification has nothing in it that was replaced or deleted before,
\* or that is in an earlier notification of the same deposit.
THEOREM PackageCurrent == ASSUME SwordInAssumption PROVE Spec => []PackageIsCurrent
<1>1. Inv => PackageIsCurrent
  <2> SUFFICES ASSUME Inv, NEW w \in Worker, At(w, "note"), ~failed, ~overlapped
               PROVE  worker[w].pkg \cap (dropped \cup used) = {}
    BY DEF PackageIsCurrent
  <2>1. \A v \in Worker : worker[v].pc # "clean"
    <3>1. w \in Busy /\ \A v, u \in Busy : v = u
      BY DEF Inv, Alone, Busy, At
    <3>2. \A v \in Worker : worker[v].pc = "clean" => v \in Busy
      BY DEF Busy
    <3>3. worker[w].pc # "clean"
      BY DEF At
    <3> QED BY <3>1, <3>2, <3>3
  <2>2. /\ Lying \cap dropped = {} /\ Lying \cap used = {}
        /\ worker[w].pkg \subseteq Lying
    BY <2>1 DEF Inv, PackageInv, At
  <2> QED BY <2>2
<1> QED BY <1>1, Invariance, PTL
================================================================================
