---------------------------- MODULE ServicesProofs ----------------------------
(***************************************************************************)
(* What the theorems about the components say of them side by side: each   *)
(* behaviour of the whole is one of each component.  The theorems about    *)
(* the ingest by FTP, publisher testing, the register of DOIs, the         *)
(* Harvester and its engines, matching parameters and lists by the API     *)
(* stand here; those about the others have modules of their own.           *)
(***************************************************************************)
EXTENDS MCServices, SequenceTheorems, FiniteSetTheorems, TLAPS

-----------------------------------------------------------------------------
(* A step of the whole is a step of a component, or leaves it alone.       *)

LEMMA FtpSpec == Spec => Ftp!Spec
<1>1. Init => Ftp!Init
  BY DEF Init
<1>2. [Next]_vars => [Ftp!Next]_(Ftp!vars)
  BY DEF Next, vars, Others, ftpVars, Ftp!vars, Ftp!upload, Ftp!program, Ftp!results
<1> QED BY <1>1, <1>2, PTL DEF Spec, Ftp!Spec

LEMMA HarvestSpec == Spec => Harvest!Spec
<1>1. Init => Harvest!Init
  BY DEF Init
<1>2. [Next]_vars => [Harvest!Next]_(Harvest!vars)
  BY DEF Next, vars, Others, harvestVars, Harvest!vars, Harvest!world, Harvest!data,
         Harvest!local
<1> QED BY <1>1, <1>2, PTL DEF Spec, Harvest!Spec

LEMMA SwordSpec == Spec => Sword!Spec
<1>1. Init => Sword!Init
  BY DEF Init
<1>2. [Next]_vars => [Sword!Next]_(Sword!vars)
  BY DEF Next, vars, Others, swordVars, Sword!vars, Sword!store, Sword!notes, Sword!history
<1> QED BY <1>1, <1>2, PTL DEF Spec, Sword!Spec

LEMMA UsersSpec == Spec => Users!Spec
<1>1. Init => Users!Init
  BY DEF Init
<1>2. [Next]_vars => [Users!Next]_(Users!vars)
  BY DEF Next, vars, Others, userVars, Users!vars, Users!history
<1> QED BY <1>1, <1>2, PTL DEF Spec, Users!Spec

LEMMA ListSpec == Spec => List!Spec
<1>1. Init => List!Init
  BY DEF Init
<1>2. [Next]_vars => [List!Next]_(List!vars)
  BY DEF Next, vars, Others, listVars, List!vars, List!table, List!client
<1> QED BY <1>1, <1>2, PTL DEF Spec, List!Spec

LEMMA DoiSpec == Spec => Doi!Spec
<1>1. Init => Doi!Init
  BY DEF Init
<1>2. [Next]_vars => [Doi!Next]_(Doi!vars)
  BY DEF Next, vars, Others, doiVars, Doi!vars
<1> QED BY <1>1, <1>2, PTL DEF Spec, Doi!Spec

LEMMA StatSpec == Spec => Stat!Spec
<1>1. Init => Stat!Init
  BY DEF Init
<1>2. [Next]_vars => [Stat!Next]_(Stat!vars)
  BY DEF Next, vars, Others, statVars, Stat!vars, Stat!flow, Stat!figures
<1> QED BY <1>1, <1>2, PTL DEF Spec, Stat!Spec

LEMMA EngineSpec == Spec => Engine!Spec
<1>1. Init => Engine!Init
  BY DEF Init
<1>2. [Next]_vars => [Engine!Next]_(Engine!vars)
  BY DEF Next, vars, Others, engineVars, Engine!vars, Engine!place, Engine!history
<1> QED BY <1>1, <1>2, PTL DEF Spec, Engine!Spec

LEMMA MatchSpec == Spec => Match!Spec
<1>1. Init => Match!Init
  BY DEF Init
<1>2. [Next]_vars => [Match!Next]_(Match!vars)
  BY DEF Next, vars, Others, matchVars, Match!vars
<1> QED BY <1>1, <1>2, PTL DEF Spec, Match!Spec

LEMMA TestingSpec == Spec => Testing!Spec
<1>1. Init => Testing!Init
  BY DEF Init
<1>2. [Next]_vars => [Testing!Next]_(Testing!vars)
  BY DEF Next, vars, Others, testVars, Testing!vars, Testing!data,
         Testing!work, Testing!counts
<1> QED BY <1>1, <1>2, PTL DEF Spec, Testing!Spec

-----------------------------------------------------------------------------
(* Ingest by FTP, for all items and directories: types, and what becomes   *)
(* of a deposit.  The inductive invariant says for a deposit that no fault *)
(* has hit what is true of it at each point of its way: in the publisher's *)
(* directory, waiting in its box, in hand, and done with.                  *)

\* The types, in the form that the steps keep: the box of an item is a set of things, and
\* a thing is in hand where one is looked at.
FtpTyped ==
    /\ Ftp!TypeOK
    /\ box \in [FtpItem -> SUBSET Ftp!Thing]
    /\ ftpPc \in {"wrap", "flatten", "half", "zip"} => thing \in Ftp!Thing

Processing == ftpPc \notin {"idle", "check", "move"}

\* The publisher's directory.
UploadsInv ==
    /\ ~session => \A i \in FtpItem : jail[i] # "uploading"
    /\ \A i \in old : jail[i] = "uploading" => i \in FtpDirectory
    /\ ~Processing => \A i \in listing : jail[i] \in {"uploading", "broken", "whole"}
    /\ ftpPc = "move" /\ limit = "any" =>
          \A i \in listing : jail[i] = "uploading" => i \in resumed
    /\ Ftp!FilesMovedWhole

\* Nothing has been made of the item or said about it.
Untouched(i) == ftpNotes[i] = 0 /\ told[i] = {} /\ i \notin ftpErrors

\* No deposit is lost: a box is emptied only when a notification was made of what was in
\* it, or when it is moved to the errors.
KeptInv ==
    /\ Ftp!NothingLost
    /\ \A i \in FtpItem : jail[i] # "moved" => box[i] = {} /\ Untouched(i)
    /\ Processing => \A i \in listing : box[i] # {} /\ i # cur
    /\ cur \in FtpItem => jail[cur] = "moved"
    /\ ftpPc = "entry" => left # {} \/ ftpNotes[cur] > 0
    /\ ftpPc = "record" => ftpNotes[cur] > 0

\* A deposit that waits is one thing of which nothing was made; one that is done with is a
\* notification or among the errors, and the publisher was told which.
Waiting(i) ==
    /\ box[i] # {} => Untouched(i) /\ \E t \in box[i] : box[i] = {t}
    /\ "error" \in told[i] => ftpNotes[i] = 0 /\ i \in ftpErrors
    /\ "ok" \in told[i] => ftpNotes[i] > 0

\* The deposit in hand, at each point of the program.
InHand(i) ==
    /\ ftpPc = "entry" =>
          \/ left = {} /\ ftpNotes[i] = 1 /\ told[i] = {"ok"}
          \/ Untouched(i) /\ \E t \in left : left = {t}
    /\ ftpPc \in {"wrap", "flatten", "half", "zip", "create", "fail"} => left = {} /\ Untouched(i)
    /\ ftpPc = "record" => left = {} /\ ftpNotes[i] = 1 /\ told[i] = {}
    /\ ftpPc = "errors" => ftpNotes[i] = 0 /\ told[i] = {"error"}

OnceInv ==
    \A i \in FtpItem \ hit :
        /\ ftpNotes[i] <= 1
        /\ i # cur => Waiting(i)
        /\ i = cur => InHand(i)

FtpInv == FtpTyped /\ UploadsInv /\ KeptInv /\ OnceInv

-----------------------------------------------------------------------------
(* Types.                                                                  *)

LEMMA Things ==
    /\ Ftp!NoThing \notin Ftp!Thing
    /\ \A form \in {"file", "dir"}, state \in {"raw", "half", "flat"}, gen \in Nat :
          [form |-> form, gen |-> gen, state |-> state] \in Ftp!Thing
    /\ \A t \in Ftp!Thing :
          /\ [form |-> "dir", gen |-> t.gen + 1, state |-> "raw"] \in Ftp!Thing
          /\ [t EXCEPT !.state = "half"] \in Ftp!Thing
          /\ [t EXCEPT !.state = "flat"] \in Ftp!Thing
          /\ [t EXCEPT !.form = "file", !.state = "raw"] \in Ftp!Thing
<1>1. \A t \in Ftp!Thing : t.form \in {"file", "dir"}
  BY DEF Ftp!Thing
<1>2. ASSUME NEW t \in Ftp!Thing
      PROVE  /\ [form |-> "dir", gen |-> t.gen + 1, state |-> "raw"] \in Ftp!Thing
             /\ [t EXCEPT !.state = "half"] \in Ftp!Thing
             /\ [t EXCEPT !.state = "flat"] \in Ftp!Thing
             /\ [t EXCEPT !.form = "file", !.state = "raw"] \in Ftp!Thing
  <2>1. [form |-> "dir", gen |-> t.gen + 1, state |-> "raw"] \in Ftp!Thing
    BY DEF Ftp!Thing
  <2>2. [t EXCEPT !.state = "half"] \in Ftp!Thing
    BY DEF Ftp!Thing
  <2>3. [t EXCEPT !.state = "flat"] \in Ftp!Thing
    BY DEF Ftp!Thing
  <2>4. [t EXCEPT !.form = "file", !.state = "raw"] \in Ftp!Thing
    BY DEF Ftp!Thing
  <2> QED BY <2>1, <2>2, <2>3, <2>4
<1>3. Ftp!NoThing \notin Ftp!Thing
  <2>1. Ftp!NoThing.form = "none"
    BY DEF Ftp!NoThing
  <2> QED BY <1>1, <2>1
<1>4. ASSUME NEW form \in {"file", "dir"}, NEW state \in {"raw", "half", "flat"},
             NEW gen \in Nat
      PROVE  [form |-> form, gen |-> gen, state |-> state] \in Ftp!Thing
  BY DEF Ftp!Thing
<1> QED BY <1>2, <1>3, <1>4

LEMMA FtpTypedInit == ASSUME Ftp!FtpAssumption, Ftp!Init PROVE FtpTyped
BY Things DEF Ftp!FtpAssumption, Ftp!Init, FtpTyped, Ftp!TypeOK, Ftp!Jail, Ftp!PC, Ftp!Thing

LEMMA FtpTypedStep ==
    ASSUME Ftp!FtpAssumption, FtpTyped, [Ftp!Next]_(Ftp!vars)
    PROVE  FtpTyped'
<1> USE DEF FtpTyped, Ftp!TypeOK, Ftp!FtpAssumption
<1>1. CASE Ftp!Publisher
  <2>1. CASE Ftp!Session
    BY <2>1 DEF Ftp!Session, Ftp!results, Ftp!program, Ftp!Jail
  <2>2. ASSUME NEW i \in FtpItem, Ftp!Upload(i) \/ Ftp!Uploaded(i) \/ Ftp!Age(i)
        PROVE  FtpTyped'
    BY <2>2 DEF Ftp!Upload, Ftp!Uploaded, Ftp!Age, Ftp!results, Ftp!program, Ftp!Jail
  <2> QED BY <1>1, <2>1, <2>2 DEF Ftp!Publisher
<1>2. CASE Ftp!StartMove \/ Ftp!CheckSession \/ Ftp!EndMove
  BY <1>2 DEF Ftp!StartMove, Ftp!CheckSession, Ftp!EndMove, Ftp!upload, Ftp!results,
              Ftp!InJail, Ftp!PC
<1>3. ASSUME NEW i \in FtpItem, Ftp!MoveItem(i)
      PROVE  FtpTyped'
  <2> DEFINE t == [form |-> IF i \in FtpDirectory THEN "dir" ELSE "file", gen |-> 0,
                   state |-> "raw"]
  <2>1. t \in Ftp!Thing
    BY Things
  <2>2. box' = [box EXCEPT ![i] = {t}]
    BY <1>3 DEF Ftp!MoveItem
  <2> HIDE DEF t
  <2> QED BY <1>3, <2>1, <2>2 DEF Ftp!MoveItem, Ftp!results, Ftp!Jail
<1>4. ASSUME NEW i \in FtpItem, Ftp!SkipRecent(i) \/ Ftp!MoveFails(i)
      PROVE  FtpTyped'
  BY <1>4 DEF Ftp!SkipRecent, Ftp!MoveFails, Ftp!Fault, Ftp!upload, Ftp!results
<1>5. CASE Ftp!StartProcess \/ Ftp!EndProcess \/ (\E i \in FtpItem : Ftp!TakeBox(i))
  BY <1>5 DEF Ftp!StartProcess, Ftp!EndProcess, Ftp!TakeBox, Ftp!outside, Ftp!upload,
              Ftp!results, Ftp!PC
<1>6. ASSUME NEW t \in left, Ftp!TakeThing(t)
      PROVE  FtpTyped'
  BY <1>6 DEF Ftp!TakeThing, Ftp!outside, Ftp!upload, Ftp!results, Ftp!PC
<1>7. CASE Ftp!Wrap \/ Ftp!BeginFlatten \/ Ftp!EndFlatten
  <2>1. /\ cur \in FtpItem /\ thing \in Ftp!Thing /\ cur' = cur
        /\ thing' \in Ftp!Thing
        /\ box' = Ftp!InBox(thing, thing') \/ box' = box
        /\ ftpPc' \in {"flatten", "half", "zip", "fail"}
    BY <1>7, Things DEF Ftp!Wrap, Ftp!BeginFlatten, Ftp!EndFlatten
  <2>2. box' \in [FtpItem -> SUBSET Ftp!Thing]
    BY <2>1 DEF Ftp!InBox
  <2> QED BY <1>7, <2>1, <2>2 DEF Ftp!Wrap, Ftp!BeginFlatten, Ftp!EndFlatten, Ftp!outside,
                                  Ftp!upload, Ftp!results, Ftp!PC
<1>8. CASE Ftp!ZipDirectory
  <2>1. [thing EXCEPT !.form = "file", !.state = "raw"] \in Ftp!Thing
    BY <1>8, Things DEF Ftp!ZipDirectory
  <2> QED BY <1>8, <2>1 DEF Ftp!ZipDirectory, Ftp!outside, Ftp!upload, Ftp!results, Ftp!PC
<1>9. CASE Ftp!CreateNote \/ Ftp!RecordDeposit \/ Ftp!CreateFails \/ Ftp!RecordFailure
  <2>1. CASE Ftp!CreateNote
    BY <2>1 DEF Ftp!CreateNote, Ftp!outside, Ftp!upload, Ftp!PC
  <2>2. CASE Ftp!RecordDeposit \/ Ftp!RecordFailure
    BY <2>2 DEF Ftp!RecordDeposit, Ftp!RecordFailure, Ftp!outside, Ftp!upload, Ftp!PC
  <2>3. CASE Ftp!CreateFails
    <3>1. cur \in FtpItem /\ ftpKilled' \in BOOLEAN
      BY <2>3 DEF Ftp!CreateFails
    <3>2. hit' \in SUBSET FtpItem /\ ftpFaultCount' \in Nat
      BY <2>3, <3>1 DEF Ftp!CreateFails, Ftp!Fault
    <3> QED BY <2>3, <3>1, <3>2 DEF Ftp!CreateFails, Ftp!outside, Ftp!upload, Ftp!results, Ftp!PC
  <2> QED BY <1>9, <2>1, <2>2, <2>3
<1>10. CASE Ftp!RemoveBox \/ Ftp!RemoveFails \/ Ftp!MoveToErrors
  BY <1>10 DEF Ftp!RemoveBox, Ftp!RemoveFails, Ftp!MoveToErrors, Ftp!Done, Ftp!Fault,
               Ftp!outside, Ftp!upload, Ftp!results, Ftp!PC
<1>11. CASE Ftp!Signal \/ Ftp!Crash
  <2>1. CASE Ftp!Signal
    BY <2>1 DEF Ftp!Signal, Ftp!Fault, Ftp!outside, Ftp!upload, Ftp!results
  <2>2. CASE Ftp!Crash
    <3>1. hit' = hit \/ (cur \in FtpItem /\ hit' = hit \cup {cur})
      BY <2>2 DEF Ftp!Crash
    <3>2. hit' \in SUBSET FtpItem /\ ftpFaultCount' \in Nat
      BY <2>2, <3>1 DEF Ftp!Crash, Ftp!Fault
    <3>3. /\ UNCHANGED <<jail, old, bad, session, resumed, partial, box, ftpErrors, ftpNotes, told>>
          /\ ftpPc' = "idle" /\ listing' = {} /\ limit' = "any" /\ ftpKilled' = FALSE
          /\ cur' = "nothing" /\ left' = {} /\ thing' = Ftp!NoThing
      BY <2>2 DEF Ftp!Crash, Ftp!outside, Ftp!upload, Ftp!results
    <3> QED BY <3>2, <3>3 DEF Ftp!PC
  <2> QED BY <1>11, <2>1, <2>2
<1>12. CASE UNCHANGED Ftp!vars
  BY <1>12 DEF Ftp!vars, Ftp!upload, Ftp!results, Ftp!program
<1> QED
  BY <1>1, <1>2, <1>3, <1>4, <1>5, <1>6, <1>7, <1>8, <1>9, <1>10, <1>11, <1>12
  DEF Ftp!Next, Ftp!Move, Ftp!Process

-----------------------------------------------------------------------------
(* The publisher's directory.                                              *)

LEMMA UploadsStep ==
    ASSUME FtpTyped, UploadsInv, [Ftp!Next]_(Ftp!vars)
    PROVE  UploadsInv'
<1> USE DEF FtpTyped, Ftp!TypeOK, UploadsInv, Processing, Ftp!FilesMovedWhole, Ftp!Jail
<1>1. CASE Ftp!Session
  BY <1>1 DEF Ftp!Session, Ftp!program
<1>2. ASSUME NEW i \in FtpItem, Ftp!Upload(i)
      PROVE  UploadsInv'
  BY <1>2 DEF Ftp!Upload, Ftp!program
<1>3. ASSUME NEW i \in FtpItem, Ftp!Uploaded(i) \/ Ftp!Age(i)
      PROVE  UploadsInv'
  BY <1>3 DEF Ftp!Uploaded, Ftp!Age, Ftp!program
<1>4. CASE Ftp!StartMove
  BY <1>4 DEF Ftp!StartMove, Ftp!upload, Ftp!InJail
<1>5. CASE Ftp!CheckSession \/ Ftp!EndMove
  BY <1>5 DEF Ftp!CheckSession, Ftp!EndMove, Ftp!upload
<1>6. ASSUME NEW i \in FtpItem, Ftp!MoveItem(i)
      PROVE  UploadsInv'
  <2>1. jail[i] = "uploading" => i \in FtpDirectory \/ i \in resumed
    BY <1>6 DEF Ftp!MoveItem, Ftp!MayMove
  <2>2. partial' \subseteq FtpDirectory \cup resumed'
    BY <1>6, <2>1 DEF Ftp!MoveItem
  <2> QED BY <1>6, <2>2 DEF Ftp!MoveItem
<1>7. ASSUME NEW i \in FtpItem, Ftp!SkipRecent(i) \/ Ftp!MoveFails(i)
      PROVE  UploadsInv'
  BY <1>7 DEF Ftp!SkipRecent, Ftp!MoveFails, Ftp!upload
<1>8. CASE \/ Ftp!StartProcess \/ Ftp!Process \/ Ftp!CreateFails
           \/ Ftp!RemoveFails \/ Ftp!Signal \/ Ftp!Crash
  <2>1. /\ UNCHANGED <<jail, old, session, resumed, partial>>
        /\ \/ Processing' \/ (ftpPc' = "idle" /\ listing' = {})
           \/ (ftpPc' = ftpPc /\ listing' = listing /\ limit' = limit)
    BY <1>8 DEF Ftp!StartProcess, Ftp!Process, Ftp!CreateFails, Ftp!RemoveFails, Ftp!Signal,
                Ftp!Crash, Ftp!outside, Ftp!upload,
                Ftp!TakeBox, Ftp!TakeThing, Ftp!EndProcess, Ftp!Wrap, Ftp!BeginFlatten,
                    Ftp!EndFlatten, Ftp!ZipDirectory,
                Ftp!CreateNote, Ftp!RecordDeposit, Ftp!RecordFailure, Ftp!RemoveBox,
                    Ftp!MoveToErrors, Ftp!Done
  <2> QED BY <2>1
<1>9. CASE UNCHANGED Ftp!vars
  BY <1>9 DEF Ftp!vars, Ftp!upload, Ftp!program
<1> QED
  BY <1>1, <1>2, <1>3, <1>4, <1>5, <1>6, <1>7, <1>8, <1>9 DEF Ftp!Next, Ftp!Publisher, Ftp!Move

-----------------------------------------------------------------------------
(* Nothing is lost.                                                        *)

LEMMA KeptStep ==
    ASSUME Ftp!FtpAssumption, FtpTyped, UploadsInv, KeptInv, [Ftp!Next]_(Ftp!vars)
    PROVE  KeptInv'
<1>a. /\ jail \in [FtpItem -> Ftp!Jail] /\ box \in [FtpItem -> SUBSET Ftp!Thing]
      /\ ftpNotes \in [FtpItem -> Nat] /\ told \in [FtpItem -> SUBSET {"ok", "error"}]
      /\ ftpPc \in Ftp!PC /\ cur \in FtpItem \cup {"nothing"} /\ "nothing" \notin FtpItem
      /\ cur = "nothing" <=> ftpPc \in {"idle", "check", "move", "next"}
      /\ listing \subseteq FtpItem
  BY DEF FtpTyped, Ftp!TypeOK, Ftp!FtpAssumption
<1> USE <1>a DEF KeptInv, Ftp!NothingLost, Processing, Untouched
<1>1. CASE Ftp!Session
  BY <1>1 DEF Ftp!Session, Ftp!results, Ftp!program
<1>2. ASSUME NEW i \in FtpItem, Ftp!Upload(i) \/ Ftp!Uploaded(i) \/ Ftp!Age(i)
      PROVE  KeptInv'
  BY <1>2 DEF Ftp!Upload, Ftp!Uploaded, Ftp!Age, Ftp!results, Ftp!program
<1>3. CASE Ftp!StartMove \/ Ftp!CheckSession \/ Ftp!EndMove
  BY <1>3 DEF Ftp!StartMove, Ftp!CheckSession, Ftp!EndMove, Ftp!upload, Ftp!results
<1>4. ASSUME NEW i \in FtpItem, Ftp!MoveItem(i)
      PROVE  KeptInv'
  <2> PICK t : box' = [box EXCEPT ![i] = {t}]
    BY <1>4 DEF Ftp!MoveItem
  <2> QED BY <1>4 DEF Ftp!MoveItem, Ftp!results
<1>5. ASSUME NEW i \in FtpItem, Ftp!SkipRecent(i) \/ Ftp!MoveFails(i)
      PROVE  KeptInv'
  BY <1>5 DEF Ftp!SkipRecent, Ftp!MoveFails, Ftp!upload, Ftp!results
<1>6. CASE Ftp!StartProcess \/ Ftp!EndProcess
  BY <1>6 DEF Ftp!StartProcess, Ftp!EndProcess, Ftp!outside, Ftp!upload, Ftp!results
<1>7. ASSUME NEW i \in FtpItem, Ftp!TakeBox(i)
      PROVE  KeptInv'
  BY <1>7 DEF Ftp!TakeBox, Ftp!outside, Ftp!upload, Ftp!results
<1>8. ASSUME NEW t \in left, Ftp!TakeThing(t)
      PROVE  KeptInv'
  BY <1>8 DEF Ftp!TakeThing, Ftp!outside, Ftp!upload, Ftp!results
<1>9. CASE Ftp!Wrap \/ Ftp!BeginFlatten \/ Ftp!EndFlatten \/ Ftp!ZipDirectory
  <2>1. /\ cur \in FtpItem
        /\ box' = box \/ (box'[cur] # {} /\ box' = [box EXCEPT ![cur] = box'[cur]])
        /\ ftpPc' \in {"flatten", "half", "zip", "fail", "create"}
        /\ UNCHANGED <<jail, ftpErrors, ftpNotes, told, listing, cur>>
    <3>1. \A s, u : (s \cup {u}) # {}
      OBVIOUS
    <3>2. ASSUME box' = Ftp!InBox(thing, thing'), cur \in FtpItem
          PROVE  box'[cur] # {} /\ box' = [box EXCEPT ![cur] = box'[cur]]
      BY <3>1, <3>2 DEF Ftp!InBox
    <3>3. CASE Ftp!Wrap
      BY <3>2, <3>3 DEF Ftp!Wrap, Ftp!outside, Ftp!upload, Ftp!results
    <3>5. CASE Ftp!EndFlatten
      BY <3>2, <3>5 DEF Ftp!EndFlatten, Ftp!outside, Ftp!upload, Ftp!results
    <3>6. CASE Ftp!BeginFlatten
      BY <3>2, <3>6 DEF Ftp!BeginFlatten, Ftp!outside, Ftp!upload, Ftp!results
    <3>4. CASE Ftp!ZipDirectory
      BY <3>1, <3>4 DEF Ftp!ZipDirectory, Ftp!outside, Ftp!upload, Ftp!results
    <3> QED BY <1>9, <3>3, <3>4, <3>5, <3>6
  <2> QED BY <2>1
<1>10. CASE Ftp!CreateNote \/ Ftp!RecordDeposit \/ Ftp!RecordFailure
  BY <1>10 DEF Ftp!CreateNote, Ftp!RecordDeposit, Ftp!RecordFailure, Ftp!outside, Ftp!upload
<1>11. CASE Ftp!CreateFails \/ Ftp!RemoveFails
  BY <1>11 DEF Ftp!CreateFails, Ftp!RemoveFails, Ftp!outside, Ftp!upload, Ftp!results
<1>12. CASE Ftp!RemoveBox \/ Ftp!MoveToErrors
  BY <1>12 DEF Ftp!RemoveBox, Ftp!MoveToErrors, Ftp!Done, Ftp!outside, Ftp!upload, Ftp!results
<1>13. CASE Ftp!Signal \/ Ftp!Crash
  BY <1>13 DEF Ftp!Signal, Ftp!Crash, Ftp!outside, Ftp!upload, Ftp!results
<1>14. CASE UNCHANGED Ftp!vars
  BY <1>14 DEF Ftp!vars, Ftp!upload, Ftp!results, Ftp!program
<1> QED
  BY <1>1, <1>2, <1>3, <1>4, <1>5, <1>6, <1>7, <1>8, <1>9, <1>10, <1>11, <1>12, <1>13, <1>14
  DEF Ftp!Next, Ftp!Publisher, Ftp!Move, Ftp!Process

-----------------------------------------------------------------------------
(* A deposit that no fault hits.                                           *)

LEMMA OnceStep ==
    ASSUME Ftp!FtpAssumption, FtpTyped, UploadsInv, KeptInv, OnceInv, [Ftp!Next]_(Ftp!vars)
    PROVE  OnceInv'
<1>a. /\ box \in [FtpItem -> SUBSET Ftp!Thing] /\ jail \in [FtpItem -> Ftp!Jail]
      /\ ftpNotes \in [FtpItem -> Nat] /\ told \in [FtpItem -> SUBSET {"ok", "error"}]
      /\ ftpPc \in Ftp!PC /\ cur \in FtpItem \cup {"nothing"} /\ "nothing" \notin FtpItem
      /\ cur = "nothing" <=> ftpPc \in {"idle", "check", "move", "next"}
      /\ listing \subseteq FtpItem
  BY DEF FtpTyped, Ftp!TypeOK, Ftp!FtpAssumption
<1>b. /\ \A i \in FtpItem : jail[i] # "moved" => Untouched(i)
      /\ ~Processing => \A i \in FtpItem : i # cur
      /\ Processing => \A i \in listing : i # cur
  BY <1>a DEF KeptInv, Processing
<1> USE <1>a, <1>b DEF OnceInv, Waiting, InHand, Untouched
<1>1. CASE Ftp!Publisher
  BY <1>1 DEF Ftp!Publisher, Ftp!Session, Ftp!Upload, Ftp!Uploaded, Ftp!Age, Ftp!results,
              Ftp!program
<1>2. CASE Ftp!StartMove \/ Ftp!CheckSession \/ Ftp!EndMove
  BY <1>2 DEF Ftp!StartMove, Ftp!CheckSession, Ftp!EndMove, Ftp!upload, Ftp!results
<1>3. ASSUME NEW i \in FtpItem, Ftp!MoveItem(i)
      PROVE  OnceInv'
  <2> PICK t \in {[form |-> IF i \in FtpDirectory THEN "dir" ELSE "file", gen |-> 0, state |-> "raw"]} :
             box' = [box EXCEPT ![i] = {t}]
    BY <1>3 DEF Ftp!MoveItem
  <2>1. Untouched(i)
    BY <1>3 DEF Ftp!MoveItem, UploadsInv, Processing
  <2> QED BY <1>3, <2>1 DEF Ftp!MoveItem, Ftp!results
<1>4. ASSUME NEW i \in FtpItem, Ftp!SkipRecent(i) \/ Ftp!MoveFails(i)
      PROVE  OnceInv'
  BY <1>4 DEF Ftp!SkipRecent, Ftp!MoveFails, Ftp!upload, Ftp!results
<1>5. CASE Ftp!StartProcess \/ Ftp!EndProcess
  BY <1>5 DEF Ftp!StartProcess, Ftp!EndProcess, Ftp!outside, Ftp!upload, Ftp!results
<1>6. ASSUME NEW i \in FtpItem, Ftp!TakeBox(i)
      PROVE  OnceInv'
  <2>1. box[i] # {}
    BY <1>6 DEF Ftp!TakeBox, KeptInv, Processing
  <2> QED BY <1>6, <2>1 DEF Ftp!TakeBox, Ftp!outside, Ftp!upload, Ftp!results
<1>7. ASSUME NEW t \in left, Ftp!TakeThing(t)
      PROVE  OnceInv'
  BY <1>7 DEF Ftp!TakeThing, Ftp!outside, Ftp!upload, Ftp!results
<1>8. CASE Ftp!Wrap \/ Ftp!BeginFlatten \/ Ftp!EndFlatten \/ Ftp!ZipDirectory
  <2>1. /\ cur \in FtpItem
        /\ \A i \in FtpItem : i # cur => box'[i] = box[i]
        /\ ftpPc \in {"wrap", "flatten", "half", "zip"}
        /\ ftpPc' \in {"flatten", "half", "zip", "fail", "create"}
        /\ UNCHANGED <<ftpErrors, ftpNotes, told, listing, cur, left, hit>>
    BY <1>8 DEF Ftp!Wrap, Ftp!BeginFlatten, Ftp!EndFlatten, Ftp!ZipDirectory, Ftp!InBox,
                Ftp!outside, Ftp!upload, Ftp!results
  <2> QED BY <2>1
<1>9. CASE Ftp!CreateNote
  BY <1>9 DEF Ftp!CreateNote, Ftp!outside, Ftp!upload
<1>10. CASE Ftp!RecordDeposit \/ Ftp!RecordFailure
  BY <1>10 DEF Ftp!RecordDeposit, Ftp!RecordFailure, Ftp!outside, Ftp!upload
<1>11. CASE Ftp!CreateFails \/ Ftp!RemoveFails
  BY <1>11 DEF Ftp!CreateFails, Ftp!RemoveFails, Ftp!outside, Ftp!upload, Ftp!results
<1>12. CASE Ftp!RemoveBox
  BY <1>12 DEF Ftp!RemoveBox, Ftp!Done, Ftp!outside, Ftp!upload, Ftp!results
<1>13. CASE Ftp!MoveToErrors
  BY <1>13 DEF Ftp!MoveToErrors, Ftp!Done, Ftp!outside, Ftp!upload
<1>14. CASE Ftp!Signal \/ Ftp!Crash
  BY <1>14 DEF Ftp!Signal, Ftp!Crash, Ftp!outside, Ftp!upload, Ftp!results
<1>15. CASE UNCHANGED Ftp!vars
  BY <1>15 DEF Ftp!vars, Ftp!upload, Ftp!results, Ftp!program
<1> QED
  BY <1>1, <1>2, <1>3, <1>4, <1>5, <1>6, <1>7, <1>8, <1>9, <1>10, <1>11, <1>12, <1>13, <1>14,
     <1>15
  DEF Ftp!Next, Ftp!Move, Ftp!Process

-----------------------------------------------------------------------------
(* The theorems.                                                           *)

LEMMA FtpInvariance == ASSUME Ftp!FtpAssumption PROVE Ftp!Spec => []FtpInv
<1>1. Ftp!Init => FtpInv
  <2>1. ASSUME Ftp!Init PROVE UploadsInv /\ KeptInv /\ OnceInv
    BY <2>1, Ftp!FtpAssumption DEF Ftp!FtpAssumption, Ftp!Init, UploadsInv, KeptInv, OnceInv,
                                   Processing, Ftp!FilesMovedWhole,
           Ftp!NothingLost, Untouched, Waiting, InHand
  <2> QED BY <2>1, FtpTypedInit DEF FtpInv
<1>2. FtpInv /\ [Ftp!Next]_(Ftp!vars) => FtpInv'
  BY FtpTypedStep, UploadsStep, KeptStep, OnceStep DEF FtpInv
<1> QED BY <1>1, <1>2, PTL DEF Ftp!Spec

\* Every variable of the FTP jobs and of the directories they work in keeps its type.
THEOREM FtpTypes == ASSUME Ftp!FtpAssumption PROVE Ftp!Spec => []Ftp!TypeOK
<1>1. FtpInv => Ftp!TypeOK
  BY DEF FtpInv, FtpTyped
<1> QED BY <1>1, FtpInvariance, PTL

\* However crashes, signals and failures interrupt the jobs, a deposit that was taken out
\* of the publisher's directory is in its box, among the errors, or a notification.
THEOREM DepositNotLost == ASSUME Ftp!FtpAssumption PROVE Ftp!Spec => []Ftp!NothingLost
<1>1. FtpInv => Ftp!NothingLost
  BY DEF FtpInv, KeptInv
<1> QED BY <1>1, FtpInvariance, PTL

\* A deposit that no fault hit makes one notification, and its publisher is told of
\* success only if there is one and of failure only if there is none.
THEOREM DepositOnce ==
    ASSUME Ftp!FtpAssumption PROVE Ftp!Spec => [](Ftp!OneNotePerDeposit /\ Ftp!ToldTheTruth)
<1>1. FtpInv => Ftp!OneNotePerDeposit /\ Ftp!ToldTheTruth
  BY DEF FtpInv, OnceInv, Waiting, Ftp!OneNotePerDeposit, Ftp!ToldTheTruth
<1> QED BY <1>1, FtpInvariance, PTL

\* No file is moved while it is being uploaded, although the job looks for a session of
\* the publisher only once, unless its upload was broken off and taken up again.
THEOREM FilesWhole == ASSUME Ftp!FtpAssumption PROVE Ftp!Spec => []Ftp!FilesMovedWhole
<1>1. FtpInv => Ftp!FilesMovedWhole
  BY DEF FtpInv, UploadsInv
<1> QED BY <1>1, FtpInvariance, PTL

-----------------------------------------------------------------------------
(* Publisher testing, for all programs that receive submissions: types,    *)
(* and what every copy of an account satisfies, whichever is written over  *)
(* which.                                                                  *)

\* An administrator's change is one of these to the account record.
Administration ==
    \/ Testing!GoLive
    \/ \E start, end, route \in BOOLEAN : Testing!UpdatePubTest(start, end, route)

Submission(v) ==
    \/ Testing!BeginTest(v) \/ Testing!Validate(v)
    \/ Testing!CreateNote(v) \/ Testing!CreateFails(v)
    \/ Testing!RouteNote(v) \/ Testing!AddProvenance(v) \/ Testing!RouteFails(v)
    \/ Testing!InsertRecord(v) \/ Testing!SaveAccount(v) \/ Testing!EndTest(v)
    \/ Testing!RecordFails(v) \/ Testing!Crash(v)

RoutingJob == Testing!JobReads \/ \E n \in Testing!Note : Testing!JobSettles(n)

LEMMA TestingCases ==
    Testing!Next <=>
        Administration \/ (\E v \in TestValidator : Submission(v)) \/ RoutingJob
BY DEF Testing!Next, Administration, Submission, RoutingJob

-----------------------------------------------------------------------------
(* The account records an administrator can make of one.                   *)

Consistent(a) ==
    /\ a.in_test <=> a.start /\ ~a.end
    /\ a.route_note => a.in_test

SameCounts(a, b) == a.ok = b.ok /\ a.err = b.err /\ a.okSinceErr = b.okSinceErr

LEMMA EndTestingKeeps ==
    ASSUME NEW a \in Testing!Account
    PROVE  /\ Testing!EndTesting(a) \in Testing!Account
           /\ SameCounts(Testing!EndTesting(a), a)
           /\ Testing!EndTesting(a).start = a.start /\ Testing!EndTesting(a).end
           /\ ~Testing!EndTesting(a).in_test /\ ~Testing!EndTesting(a).route_note
BY DEF Testing!EndTesting, Testing!Account, SameCounts

\* What becomes of the account: a consistent record with the same counts.
LEMMA Administered ==
    ASSUME acc \in Testing!Account, Administration
    PROVE  /\ acc' \in Testing!Account
           /\ SameCounts(acc', acc)
           /\ Consistent(acc) => Consistent(acc')
           /\ UNCHANGED <<mine, recs, testPc, Testing!work, note, listed, tests,
                          testFaultCount, testFailed>>
<1>1. CASE Testing!GoLive
  <2> DEFINE a == IF acc.in_test THEN Testing!EndTesting(acc) ELSE acc
  <2>1. /\ a \in Testing!Account /\ SameCounts(a, acc)
        /\ Consistent(acc) => Consistent(a)
    BY EndTestingKeeps DEF SameCounts, Consistent, Testing!Account
  <2>2. acc' = [a EXCEPT !.live = TRUE]
    BY <1>1 DEF Testing!GoLive, Testing!Administer
  <2> HIDE DEF a
  <2>3. /\ acc' \in Testing!Account /\ SameCounts(acc', a)
        /\ Consistent(a) => Consistent(acc')
    BY <2>1, <2>2 DEF Testing!Account, SameCounts, Consistent
  <2> QED BY <1>1, <2>1, <2>3 DEF Testing!GoLive, Testing!Administer, SameCounts
<1>2. ASSUME NEW start \in BOOLEAN, NEW end \in BOOLEAN, NEW route \in BOOLEAN,
             Testing!UpdatePubTest(start, end, route)
      PROVE  /\ acc' \in Testing!Account
             /\ SameCounts(acc', acc)
             /\ Consistent(acc) => Consistent(acc')
             /\ UNCHANGED <<mine, recs, testPc, Testing!work, note, listed, tests,
                            testFaultCount, testFailed>>
  <2> DEFINE s == Testing!StartBox(start)
             a == Testing!Started(acc, s)
             r == Testing!Restarted(a, s)
  <2>1. /\ s \in BOOLEAN
        /\ s = (acc.start \/ start)
    BY DEF Testing!StartBox, Testing!Account
  <2>2. /\ a \in Testing!Account /\ SameCounts(a, acc)
        /\ a.start = (acc.start \/ s) /\ a.end = acc.end
        /\ a.in_test = (acc.in_test \/ (~acc.start /\ s)) /\ a.route_note = acc.route_note
    BY <2>1 DEF Testing!Started, Testing!Account, SameCounts
  <2> HIDE DEF s, a
  <2>3. /\ r \in Testing!Account /\ SameCounts(r, a)
        /\ r.start = a.start /\ ~r.end
        /\ r.in_test = IF a.end THEN s ELSE a.in_test
    BY <2>1, <2>2 DEF Testing!Restarted, Testing!Account, SameCounts
  <2> HIDE DEF r
  <2>4. /\ acc' = IF Testing!EndBox(end) THEN IF a.in_test THEN Testing!EndTesting(a) ELSE a
                  ELSE [r EXCEPT !.route_note = Testing!RouteBox(route)]
        /\ UNCHANGED <<mine, recs, testPc, Testing!work, note, listed, tests,
                       testFaultCount, testFailed>>
    BY <1>2 DEF Testing!UpdatePubTest, Testing!Administer, s, a, r
  <2>5. CASE Testing!EndBox(end)
    <3>1. CASE a.in_test
      <4>1. acc' = Testing!EndTesting(a)
        BY <2>4, <2>5, <3>1
      <4> QED BY <2>2, <2>4, <4>1, EndTestingKeeps DEF SameCounts, Consistent
    <3>2. CASE ~a.in_test
      <4>1. acc' = a
        BY <2>4, <2>5, <3>2
      <4>2. Consistent(acc) => Consistent(a)
        BY <2>1, <2>2, <2>5, <3>2 DEF Consistent, Testing!EndBox, Testing!Account
      <4> QED BY <2>2, <2>4, <4>1, <4>2
    <3> QED BY <3>1, <3>2
  <2>6. CASE ~Testing!EndBox(end)
    <3>1. acc' = [r EXCEPT !.route_note = Testing!RouteBox(route)]
      BY <2>4, <2>6
    <3>2. Testing!RouteBox(route) \in BOOLEAN
      BY DEF Testing!RouteBox, Testing!Account
    <3>3. /\ acc' \in Testing!Account /\ SameCounts(acc', r)
          /\ acc'.start = r.start /\ acc'.end = r.end /\ acc'.in_test = r.in_test
          /\ acc'.route_note = Testing!RouteBox(route)
      BY <2>3, <3>1, <3>2 DEF Testing!Account, SameCounts
    <3>4. Consistent(acc) => Consistent(acc')
      BY <2>1, <2>2, <2>3, <2>6, <3>3 DEF Consistent, Testing!EndBox, Testing!RouteBox,
           Testing!Account
    <3> QED BY <2>2, <2>3, <2>4, <3>3, <3>4 DEF SameCounts
  <2> QED BY <2>5, <2>6
<1> QED BY <1>1, <1>2 DEF Administration

-----------------------------------------------------------------------------
(* Types.                                                                  *)

LEMMA CountedType ==
    ASSUME NEW a \in Testing!Account, NEW e \in BOOLEAN
    PROVE  /\ Testing!Counted(a, e) \in Testing!Account
           /\ Testing!Counted(a, e).ok = IF e THEN a.ok ELSE a.ok + 1
           /\ Testing!Counted(a, e).err = IF e THEN a.err + 1 ELSE a.err
           /\ Testing!Counted(a, e).okSinceErr = IF e THEN 0 ELSE a.okSinceErr + 1
           /\ Consistent(a) => Consistent(Testing!Counted(a, e))
<1> DEFINE c == Testing!Counted(a, e)
<1>0. a.ok \in Nat /\ a.err \in Nat /\ a.okSinceErr \in Nat
  BY DEF Testing!Account
<1>1. CASE e
  <2> DEFINE d == [a EXCEPT !.err = a.err + 1]
  <2>1. c = [d EXCEPT !.okSinceErr = 0]
    BY <1>1 DEF Testing!Counted
  <2>3. /\ d \in Testing!Account /\ d.ok = a.ok /\ d.err = a.err + 1
        /\ d.in_test = a.in_test /\ d.start = a.start /\ d.end = a.end
        /\ d.route_note = a.route_note
    BY <1>0 DEF Testing!Account
  <2> HIDE DEF c, d
  <2>2. /\ c \in Testing!Account /\ c.ok = a.ok /\ c.err = a.err + 1 /\ c.okSinceErr = 0
        /\ c.in_test = a.in_test /\ c.start = a.start /\ c.end = a.end
        /\ c.route_note = a.route_note
    BY <1>0, <2>1, <2>3 DEF Testing!Account
  <2> QED BY <1>1, <2>2 DEF Consistent, c
<1>2. CASE ~e
  <2> DEFINE d == [a EXCEPT !.ok = a.ok + 1]
  <2>1. c = [d EXCEPT !.okSinceErr = a.okSinceErr + 1]
    BY <1>2 DEF Testing!Counted
  <2>3. /\ d \in Testing!Account /\ d.ok = a.ok + 1 /\ d.err = a.err
        /\ d.in_test = a.in_test /\ d.start = a.start /\ d.end = a.end
        /\ d.route_note = a.route_note
    BY <1>0 DEF Testing!Account
  <2> HIDE DEF c, d
  <2>2. /\ c \in Testing!Account /\ c.ok = a.ok + 1 /\ c.err = a.err
        /\ c.okSinceErr = a.okSinceErr + 1
        /\ c.in_test = a.in_test /\ c.start = a.start /\ c.end = a.end
        /\ c.route_note = a.route_note
    BY <1>0, <2>1, <2>3 DEF Testing!Account
  <2> QED BY <1>2, <2>2 DEF Consistent, c
<1> QED BY <1>1, <1>2

LEMMA NewAccountType ==
    Testing!NewAccount \in Testing!Account /\ Consistent(Testing!NewAccount)
BY DEF Testing!NewAccount, Testing!Account, Consistent

LEMMA NoteType == 0 \notin Testing!Note /\ Testing!Note \subseteq Nat
BY DEF Testing!Note

LEMMA TestingInitType == Testing!Init => Testing!TypeOK
BY NewAccountType DEF Testing!Init, Testing!TypeOK, Testing!PC, Testing!Note

LEMMA NotKeptType ==
    ASSUME Testing!TypeOK, NEW v \in TestValidator,
           Testing!NotKept(v) \/ mine' = [mine EXCEPT ![v] = Testing!NewAccount]
    PROVE  mine' \in [TestValidator -> Testing!Account]
BY NewAccountType DEF Testing!TypeOK, Testing!NotKept

LEMMA SubmissionType ==
    ASSUME Testing!TypeOK, NEW v \in TestValidator, Submission(v)
    PROVE  Testing!TypeOK'
<1> USE DEF Testing!TypeOK, Testing!PC, Testing!Goto, Testing!Erroneous, Testing!Fresh,
       Testing!Fault, Testing!data, Testing!work, Testing!counts
<1>1. CASE Testing!BeginTest(v)
  BY <1>1 DEF Testing!BeginTest
<1>2. CASE Testing!Validate(v)
  BY <1>2 DEF Testing!Validate
<1>3. CASE Testing!CreateNote(v)
  BY <1>3, NoteType DEF Testing!CreateNote
<1>4. CASE Testing!CreateFails(v)
  BY <1>4 DEF Testing!CreateFails
<1>5. CASE Testing!RouteNote(v)
  BY <1>5 DEF Testing!RouteNote
<1>6. CASE Testing!AddProvenance(v)
  BY <1>6 DEF Testing!AddProvenance
<1>7. CASE Testing!RouteFails(v)
  BY <1>7 DEF Testing!RouteFails
<1>8. CASE Testing!InsertRecord(v)
  BY <1>8 DEF Testing!InsertRecord
<1>9. CASE Testing!SaveAccount(v)
  <2>1. Testing!Counted(mine[v], testErrors[v]) \in Testing!Account
    BY CountedType
  <2> QED BY <1>9, <2>1 DEF Testing!SaveAccount
<1>10. CASE Testing!EndTest(v)
  BY <1>10, NotKeptType DEF Testing!EndTest, Testing!Removed
<1>11. CASE Testing!RecordFails(v)
  BY <1>11, NotKeptType DEF Testing!RecordFails
<1>12. CASE Testing!Crash(v)
  BY <1>12, NotKeptType DEF Testing!Crash
<1> QED BY <1>1, <1>2, <1>3, <1>4, <1>5, <1>6, <1>7, <1>8, <1>9, <1>10, <1>11, <1>12
        DEF Submission

LEMMA RoutingJobType == Testing!TypeOK /\ RoutingJob => Testing!TypeOK'
BY DEF Testing!TypeOK, RoutingJob, Testing!JobReads, Testing!JobSettles, Testing!data,
     Testing!work, Testing!counts

\* Every variable of PubTesting keeps its type, for any number of programs and
\* every bound.
THEOREM PubTestingTypes == Testing!Spec => []Testing!TypeOK
<1>1. ASSUME Testing!TypeOK, [Testing!Next]_(Testing!vars)
      PROVE  Testing!TypeOK'
  <2>1. CASE Administration
    <3>1. /\ acc' \in Testing!Account
          /\ UNCHANGED <<mine, recs, testPc, Testing!work, note, listed, tests,
                         testFaultCount, testFailed>>
      BY <1>1, <2>1, Administered DEF Testing!TypeOK
    <3> QED BY <1>1, <3>1 DEF Testing!TypeOK, Testing!work
  <2>2. CASE \E v \in TestValidator : Submission(v)
    BY <1>1, <2>2, SubmissionType
  <2>3. CASE RoutingJob
    BY <1>1, <2>3, RoutingJobType
  <2>4. CASE UNCHANGED Testing!vars
    BY <1>1, <2>4 DEF Testing!TypeOK, Testing!vars, Testing!data, Testing!work,
         Testing!counts
  <2> QED BY <1>1, <2>1, <2>2, <2>3, <2>4, TestingCases
<1> QED BY <1>1, TestingInitType, PTL DEF Testing!Spec

-----------------------------------------------------------------------------
(* What a program does to accounts: it takes a copy, counts in its copy,   *)
(* writes it back, or forgets it.  Nothing else happens to any of them.    *)

AccountStep(v) ==
    \/ acc' = acc /\ mine' = mine
    \/ acc' = acc /\ mine' = [mine EXCEPT ![v] = acc]
    \/ acc' = acc /\ mine' = [mine EXCEPT ![v] = Testing!NewAccount]
    \/ /\ testPc[v] = "account"
       /\ mine' = [mine EXCEPT ![v] = Testing!Counted(@, testErrors[v])]
       /\ acc' = mine'[v]

LEMMA SubmissionAccounts ==
    ASSUME NEW v \in TestValidator, Submission(v)
    PROVE  AccountStep(v)
BY DEF Submission, Testing!BeginTest, Testing!Validate, Testing!CreateNote,
     Testing!CreateFails, Testing!RouteNote, Testing!AddProvenance, Testing!RouteFails,
     Testing!InsertRecord, Testing!SaveAccount, Testing!EndTest, Testing!RecordFails,
     Testing!Crash, Testing!NotKept, AccountStep, Testing!data

LEMMA RoutingJobAccounts ==
    RoutingJob => UNCHANGED <<acc, mine, recs, testPc, testErrors>>
BY DEF RoutingJob, Testing!JobReads, Testing!JobSettles, Testing!data, Testing!work

Copies == {acc} \cup {mine[v] : v \in TestValidator}

LEMMA ConsistencyOfCopies ==
    Testing!TestingConsistent <=>
        Consistent(acc) /\ \A v \in TestValidator : Consistent(mine[v])
BY DEF Testing!TestingConsistent, Consistent

LEMMA ConsistencyKept ==
    ASSUME Testing!TypeOK, Testing!TestingConsistent, [Testing!Next]_(Testing!vars)
    PROVE  Testing!TestingConsistent'
<1>0. Consistent(acc) /\ \A v \in TestValidator : Consistent(mine[v])
  BY ConsistencyOfCopies
<1> SUFFICES Consistent(acc') /\ \A v \in TestValidator : Consistent(mine'[v])
  BY DEF Testing!TestingConsistent, Consistent
<1>1. CASE Administration
  <2>1. Consistent(acc') /\ mine' = mine
    BY <1>0, <1>1, Administered DEF Testing!TypeOK
  <2> QED BY <1>0, <2>1
<1>2. ASSUME NEW v \in TestValidator, Submission(v)
      PROVE  Consistent(acc') /\ \A w \in TestValidator : Consistent(mine'[w])
  <2>1. AccountStep(v)
    BY <1>2, SubmissionAccounts
  <2>2. Consistent(Testing!Counted(mine[v], testErrors[v]))
    BY <1>0, CountedType DEF Testing!TypeOK
  <2> QED BY <1>0, <2>1, <2>2, NewAccountType DEF AccountStep, Testing!TypeOK
<1>3. CASE RoutingJob
  BY <1>0, <1>3, RoutingJobAccounts
<1>4. CASE UNCHANGED Testing!vars
  BY <1>0, <1>4 DEF Testing!vars, Testing!data
<1> QED BY <1>1, <1>2, <1>3, <1>4, TestingCases

\* The account record, and every copy that a program may write over it, is in test
\* exactly when testing has been started and not ended, and creates notifications
\* only then: however many programs save old copies, and whatever administrators do.
THEOREM AccountConsistent == Testing!Spec => []Testing!TestingConsistent
<1>1. Testing!Init => Testing!TestingConsistent
  BY NewAccountType, ConsistencyOfCopies DEF Testing!Init
<1> QED BY <1>1, ConsistencyKept, PubTestingTypes, PTL DEF Testing!Spec

-----------------------------------------------------------------------------
(* The counts of an account never exceed the records.  Between the record  *)
(* and the account a program's copy is one behind.                         *)

Within(a) == a.ok <= recs.ok /\ a.err <= recs.err /\ a.okSinceErr <= a.ok

Behind(v) ==
    testPc[v] = "account" => IF testErrors[v] THEN mine[v].err < recs.err
                         ELSE mine[v].ok < recs.ok

Counts ==
    /\ Within(acc)
    /\ \A v \in TestValidator : Within(mine[v]) /\ Behind(v)

LEMMA CountsKept ==
    ASSUME Testing!TypeOK, Counts, [Testing!Next]_(Testing!vars)
    PROVE  Counts'
<1>1. CASE Administration
  <2>1. /\ SameCounts(acc', acc)
        /\ UNCHANGED <<mine, recs, testPc, Testing!work>>
    BY <1>1, Administered DEF Testing!TypeOK
  <2> QED BY <2>1 DEF Counts, Within, Behind, SameCounts, Testing!work
<1>2. ASSUME NEW v \in TestValidator, Submission(v)
      PROVE  Counts'
  <2>1. AccountStep(v)
    BY <1>2, SubmissionAccounts
  <2>2. \A w \in TestValidator \ {v} : testPc'[w] = testPc[w] /\ testErrors'[w] = testErrors[w]
    BY <1>2 DEF Submission, Testing!BeginTest, Testing!Validate, Testing!CreateNote,
         Testing!CreateFails, Testing!RouteNote, Testing!AddProvenance,
         Testing!RouteFails, Testing!InsertRecord, Testing!SaveAccount, Testing!EndTest,
         Testing!RecordFails, Testing!Crash, Testing!Goto, Testing!Erroneous,
         Testing!Fresh, Testing!work, Testing!data, Testing!TypeOK
  <2>3. CASE Testing!InsertRecord(v)
    <3>1. /\ acc' = acc /\ mine' = mine /\ testErrors' = testErrors
          /\ recs' \in [ok : Nat, err : Nat]
          /\ recs'.ok = IF testErrors[v] THEN recs.ok ELSE recs.ok + 1
          /\ recs'.err = IF testErrors[v] THEN recs.err + 1 ELSE recs.err
      BY <2>3 DEF Testing!InsertRecord, Testing!TypeOK, Testing!work
    <3>2. \A a \in Copies : Within(a)'
      BY <3>1 DEF Counts, Within, Copies, Testing!TypeOK, Testing!Account
    <3> QED BY <2>2, <3>1, <3>2 DEF Counts, Within, Behind, Copies, Testing!TypeOK,
               Testing!Account
  <2>4. CASE Testing!SaveAccount(v)
    <3> DEFINE a == Testing!Counted(mine[v], testErrors[v])
    <3>1. /\ recs' = recs /\ testPc'[v] = "end"
          /\ acc' = a /\ mine' = [mine EXCEPT ![v] = a]
      BY <2>4 DEF Testing!SaveAccount, Testing!Goto, Testing!TypeOK
    <3>2. Behind(v) /\ testPc[v] = "account" /\ Within(mine[v])
      BY <2>4 DEF Testing!SaveAccount, Counts
    <3>3. /\ a.ok = IF testErrors[v] THEN mine[v].ok ELSE mine[v].ok + 1
          /\ a.err = IF testErrors[v] THEN mine[v].err + 1 ELSE mine[v].err
          /\ a.okSinceErr = IF testErrors[v] THEN 0 ELSE mine[v].okSinceErr + 1
      BY CountedType DEF Testing!TypeOK
    <3>4. mine[v] \in Testing!Account /\ recs \in [ok : Nat, err : Nat]
      BY DEF Testing!TypeOK
    <3> HIDE DEF a
    <3>5. a.ok <= recs.ok /\ a.err <= recs.err /\ a.okSinceErr <= a.ok
      BY <3>2, <3>3, <3>4 DEF Within, Behind, Testing!Account
    <3> QED BY <2>2, <3>1, <3>5 DEF Counts, Within, Behind, Testing!TypeOK
  <2>5. CASE ~Testing!InsertRecord(v) /\ ~Testing!SaveAccount(v)
    <3>1. recs' = recs /\ testPc'[v] # "account"
      BY <1>2, <2>5 DEF Submission, Testing!BeginTest, Testing!Validate,
           Testing!CreateNote, Testing!CreateFails, Testing!RouteNote,
           Testing!AddProvenance, Testing!RouteFails, Testing!EndTest,
           Testing!RecordFails, Testing!Crash, Testing!Goto, Testing!data, Testing!TypeOK
    <3>2. \/ acc' = acc /\ mine' = mine
          \/ acc' = acc /\ mine' = [mine EXCEPT ![v] = acc]
          \/ acc' = acc /\ mine' = [mine EXCEPT ![v] = Testing!NewAccount]
      BY <1>2, <2>5 DEF Submission, Testing!BeginTest, Testing!Validate,
           Testing!CreateNote, Testing!CreateFails, Testing!RouteNote,
           Testing!AddProvenance, Testing!RouteFails, Testing!EndTest,
           Testing!RecordFails, Testing!Crash, Testing!NotKept, Testing!data
    <3>3. Within(Testing!NewAccount)
      BY DEF Within, Testing!NewAccount, Testing!TypeOK
    <3> QED BY <2>2, <3>1, <3>2, <3>3 DEF Counts, Within, Behind, Testing!TypeOK
  <2> QED BY <2>3, <2>4, <2>5
<1>3. CASE RoutingJob
  BY <1>3, RoutingJobAccounts DEF Counts, Within, Behind
<1>4. CASE UNCHANGED Testing!vars
  BY <1>4 DEF Testing!vars, Testing!data, Testing!work, Counts, Within, Behind
<1> QED BY <1>1, <1>2, <1>3, <1>4, TestingCases

\* The statistics on an account, and on every copy, never count a test of which
\* there is no record.
THEOREM StatisticsNotOverstated == Testing!Spec => []Testing!NeverOverstated
<1>1. Testing!Init => Counts
  BY DEF Testing!Init, Counts, Within, Behind, Testing!NewAccount
<1>2. Counts => Testing!NeverOverstated
  BY DEF Counts, Within, Testing!NeverOverstated
<1> QED BY <1>1, <1>2, CountsKept, PubTestingTypes, PTL DEF Testing!Spec

-----------------------------------------------------------------------------
(* Unrouted notifications.  That a program has created one is not enough:  *)
(* it must be about to route it, or to delete it at the end.               *)

Holds(v) == testPc[v] = "route" \/ (doomed[v] /\ testPc[v] \in {"record", "account", "end"})

Held == \A n \in Testing!Note : note[n] = "unrouted" /\ n \notin testFailed =>
                        \E v \in TestValidator : noteOf[v] = n /\ Holds(v)

LEMMA HeldBySubmission ==
    ASSUME Testing!TypeOK, Held, NEW v \in TestValidator, Submission(v)
    PROVE  Held'
<1>t. /\ testPc \in [TestValidator -> Testing!PC]
      /\ noteOf \in [TestValidator -> Testing!Note \cup {0}]
      /\ doomed \in [TestValidator -> BOOLEAN]
      /\ note \in [Testing!Note -> {"none", "unrouted", "routed", "deleted"}]
      /\ testPc[v] = "route" => noteOf[v] \in Testing!Note
  BY DEF Testing!TypeOK
<1> SUFFICES ASSUME NEW n \in Testing!Note, note'[n] = "unrouted", n \notin testFailed'
             PROVE  \E u \in TestValidator : noteOf'[u] = n /\ Holds(u)'
  BY DEF Held
\* What has become unrouted is in the hands of who created it.
<1>1. CASE Testing!CreateNote(v)
  <2>1. PICK m \in Testing!Note : /\ note' = [note EXCEPT ![m] = "unrouted"]
                         /\ noteOf' = [noteOf EXCEPT ![v] = m]
    BY <1>1 DEF Testing!CreateNote
  <2>2. /\ testPc[v] = "create" /\ testPc' = [testPc EXCEPT ![v] = "route"]
        /\ testFailed' = testFailed /\ doomed' = doomed
    BY <1>1 DEF Testing!CreateNote, Testing!Goto
  <2>3. CASE n = m
    BY <1>t, <2>1, <2>2, <2>3 DEF Holds
  <2>4. CASE n # m
    <3>1. note[n] = "unrouted"
      BY <1>t, <2>1, <2>4
    <3>2. PICK u \in TestValidator : noteOf[u] = n /\ Holds(u)
      BY <2>2, <3>1 DEF Held
    <3>3. u # v
      BY <2>2, <3>2 DEF Holds
    <3> QED BY <1>t, <2>1, <2>2, <3>2, <3>3 DEF Holds
  <2> QED BY <2>3, <2>4
<1>2. CASE ~Testing!CreateNote(v)
  <2>1. note[n] = "unrouted" /\ n \notin testFailed
    BY <1>t, <1>2 DEF Submission, Testing!BeginTest, Testing!Validate,
         Testing!CreateFails, Testing!RouteNote, Testing!AddProvenance,
         Testing!RouteFails, Testing!InsertRecord, Testing!SaveAccount, Testing!EndTest,
         Testing!Removed, Testing!RecordFails, Testing!Crash
  <2>2. PICK u \in TestValidator : noteOf[u] = n /\ Holds(u)
    BY <2>1 DEF Held
  <2>3. CASE u # v
    <3>1. testPc'[u] = testPc[u] /\ doomed'[u] = doomed[u] /\ noteOf'[u] = noteOf[u]
      BY <1>t, <1>2, <2>3 DEF Submission, Testing!BeginTest, Testing!Validate,
           Testing!CreateFails, Testing!RouteNote, Testing!AddProvenance,
           Testing!RouteFails, Testing!InsertRecord, Testing!SaveAccount, Testing!EndTest,
           Testing!RecordFails, Testing!Crash, Testing!Goto, Testing!Fresh, Testing!work
    <3> QED BY <2>2, <3>1 DEF Holds
  <2>4. CASE u = v
    <3>1. CASE Testing!RouteFails(v)
      BY <1>t, <2>2, <2>4, <3>1 DEF Testing!RouteFails, Testing!Goto, Holds
    <3>2. CASE Testing!InsertRecord(v) \/ Testing!SaveAccount(v)
      BY <1>t, <2>2, <2>4, <3>2 DEF Testing!InsertRecord, Testing!SaveAccount,
           Testing!Goto, Holds, Testing!work
    <3>3. CASE Testing!RouteNote(v)
      BY <1>t, <2>2, <2>4, <3>3 DEF Testing!RouteNote
    <3>4. CASE Testing!EndTest(v)
      BY <1>t, <2>2, <2>4, <3>4 DEF Testing!EndTest, Testing!Removed, Holds
    <3>5. CASE Testing!RecordFails(v)
      BY <1>t, <2>2, <2>4, <3>5 DEF Testing!RecordFails, Holds
    <3>6. CASE Testing!Crash(v)
      BY <1>t, <2>2, <2>4, <3>6, NoteType DEF Testing!Crash
    <3>7. CASE \/ Testing!BeginTest(v) \/ Testing!Validate(v)
               \/ Testing!CreateFails(v) \/ Testing!AddProvenance(v)
      BY <2>2, <2>4, <3>7 DEF Testing!BeginTest, Testing!Validate, Testing!CreateFails,
           Testing!AddProvenance, Holds
    <3> QED BY <1>2, <3>1, <3>2, <3>3, <3>4, <3>5, <3>6, <3>7 DEF Submission
  <2> QED BY <2>3, <2>4
<1> QED BY <1>1, <1>2

LEMMA HeldKept ==
    ASSUME Testing!TypeOK, Held, [Testing!Next]_(Testing!vars)
    PROVE  Held'
<1>1. CASE Administration
  <2>1. UNCHANGED <<testPc, noteOf, doomed, note, testFailed>>
    BY <1>1, Administered DEF Testing!TypeOK, Testing!work
  <2> QED BY <2>1 DEF Held, Holds
<1>2. CASE \E v \in TestValidator : Submission(v)
  BY <1>2, HeldBySubmission
<1>3. CASE RoutingJob
  <2>1. /\ UNCHANGED <<testPc, noteOf, doomed, testFailed>>
        /\ \A n \in Testing!Note : note'[n] = "unrouted" => note[n] = "unrouted"
    BY <1>3 DEF RoutingJob, Testing!JobReads, Testing!JobSettles, Testing!work,
         Testing!TypeOK
  <2> QED BY <2>1 DEF Held, Holds
<1>4. CASE UNCHANGED Testing!vars
  BY <1>4 DEF Testing!vars, Testing!work, Held, Holds
<1> QED BY <1>1, <1>2, <1>3, <1>4, TestingCases

\* A notification that a test created and that is still unrouted is one its program is
\* about to route or to delete (pub_testing.py), in whatever order the routing job, other
\* programs and exceptions come, unless an exception or a crash hit that.
THEOREM TestsLeaveNothing == Testing!Spec => []Testing!NothingLeftUnrouted
<1>1. Testing!Init => Held
  BY DEF Testing!Init, Held
<1>2. Held => Testing!NothingLeftUnrouted
  BY DEF Held, Testing!NothingLeftUnrouted
<1> QED BY <1>1, <1>2, HeldKept, PubTestingTypes, PTL DEF Testing!Spec

-----------------------------------------------------------------------------
(* The register of DOIs, for all repositories, with all settings for       *)
(* duplicates, and all that notifications may say.  Metrics are ordered by *)
(* Covers, and joining them is their least upper bound: what is known of   *)
(* the article covers what each repository has got, and grows with it.     *)

\* The component's cardinality is that of the theorems.
LEMMA SameCardinality == ASSUME NEW S PROVE Doi!Cardinality(S) = Cardinality(S)
BY DEF Doi!Cardinality, Cardinality

LEMMA TotalType ==
    ASSUME NEW m \in Nat, NEW n \in [1..m -> Nat]
    PROVE  Cardinality(UNION {{i} \X (1 .. n[i]) : i \in 1..m}) \in Nat
<1> DEFINE f == [i \in 1..m |-> {i} \X (1 .. n[i])]
           T == {{i} \X (1 .. n[i]) : i \in 1..m}
<1>1. ASSUME NEW i \in 1..m PROVE IsFiniteSet({i} \X (1 .. n[i]))
  <2>1. IsFiniteSet(1 .. n[i])
    BY FS_Interval
  <2> QED BY <2>1, FS_Singleton, FS_Product
<1>2. f \in Surjection(1..m, T)
  BY DEF Surjection
<1>3. IsFiniteSet(1..m)
  BY FS_Interval
<1>4. IsFiniteSet(T)
  <2> HIDE DEF T, f
  <2> QED BY <1>2, <1>3, FS_Surjection
<1>5. IsFiniteSet(UNION T)
  <2>1. \A t \in T : IsFiniteSet(t)
    BY <1>1
  <2> HIDE DEF T
  <2> QED BY <1>4, <2>1, FS_UNION
<1> QED BY <1>5, FS_CardinalityType

LEMMA CountsType ==
    ASSUME Doi!RegisterAssumption, NEW a \in DoiArticle
    PROVE  Doi!Counts(a) \in [Doi!Counter -> Nat]
<1>1. a.authors \in Seq(Doi!AuthorData) /\ a.licences \in Seq(Doi!LicenceData)
  BY DEF Doi!RegisterAssumption
<1>2. PICK m \in Nat : a.authors \in [1..m -> Doi!AuthorData]
  BY <1>1
<1>3. PICK k \in Nat : a.licences \in [1..k -> Doi!LicenceData]
  BY <1>1
<1>4. Len(a.authors) \in Nat /\ DOMAIN a.authors = 1..m /\ DOMAIN a.licences = 1..k
  BY <1>1, <1>2, <1>3
<1>5. Doi!Total(a.authors, LAMBDA x : Doi!One(x.orcid)) \in Nat
  <2> DEFINE n == [i \in 1..m |-> Doi!One(a.authors[i].orcid)]
  <2>1. n \in [1..m -> Nat]
    BY <1>2 DEF Doi!AuthorData, Doi!One
  <2>2. Doi!Total(a.authors, LAMBDA x : Doi!One(x.orcid))
          = Cardinality(UNION {{i} \X (1 .. n[i]) : i \in 1..m})
    BY <1>4, SameCardinality DEF Doi!Total
  <2> HIDE DEF n
  <2> QED BY <2>1, <2>2, TotalType
<1>6. Doi!Total(a.authors, LAMBDA x : x.affs) \in Nat
  <2> DEFINE n == [i \in 1..m |-> a.authors[i].affs]
  <2>1. n \in [1..m -> Nat]
    BY <1>2 DEF Doi!AuthorData
  <2>2. Doi!Total(a.authors, LAMBDA x : x.affs)
          = Cardinality(UNION {{i} \X (1 .. n[i]) : i \in 1..m})
    BY <1>4, SameCardinality DEF Doi!Total
  <2> HIDE DEF n
  <2> QED BY <2>1, <2>2, TotalType
<1>7. Doi!Total(a.authors, LAMBDA x : x.ids) \in Nat
  <2> DEFINE n == [i \in 1..m |-> a.authors[i].ids]
  <2>1. n \in [1..m -> Nat]
    BY <1>2 DEF Doi!AuthorData
  <2>2. Doi!Total(a.authors, LAMBDA x : x.ids)
          = Cardinality(UNION {{i} \X (1 .. n[i]) : i \in 1..m})
    BY <1>4, SameCardinality DEF Doi!Total
  <2> HIDE DEF n
  <2> QED BY <2>1, <2>2, TotalType
<1>8. Doi!Total(a.licences, LAMBDA x : Doi!One(x # "unclear")) \in Nat
  <2> DEFINE n == [i \in 1..k |-> Doi!One(a.licences[i] # "unclear")]
  <2>1. n \in [1..k -> Nat]
    BY DEF Doi!One
  <2>2. Doi!Total(a.licences, LAMBDA x : Doi!One(x # "unclear"))
          = Cardinality(UNION {{i} \X (1 .. n[i]) : i \in 1..k})
    BY <1>4, SameCardinality DEF Doi!Total
  <2> HIDE DEF n
  <2> QED BY <2>1, <2>2, TotalType
<1>9. \A c \in Doi!Counter : Doi!Counts(a)[c] \in Nat
  <2> SUFFICES ASSUME NEW c \in Doi!Counter PROVE Doi!Counts(a)[c] \in Nat
    OBVIOUS
  <2>1. Doi!Counts(a)[c] =
          CASE c = "n_auth"       -> Len(a.authors)
            [] c = "n_orcid"      -> Doi!Total(a.authors, LAMBDA x : Doi!One(x.orcid))
            [] c = "n_struct_aff" -> Doi!Total(a.authors, LAMBDA x : x.affs)
            [] c = "n_aff_ids"    -> Doi!Total(a.authors, LAMBDA x : x.ids)
            [] c = "n_lic"        -> Doi!Total(a.licences, LAMBDA x : Doi!One(x # "unclear"))
    BY DEF Doi!Counts
  <2> HIDE DEF Doi!Total
  <2>2. CASE c = "n_auth"
    BY <1>4, <2>1, <2>2
  <2>3. CASE c = "n_orcid"
    BY <1>5, <2>1, <2>3
  <2>4. CASE c = "n_struct_aff"
    BY <1>6, <2>1, <2>4
  <2>5. CASE c = "n_aff_ids"
    BY <1>7, <2>1, <2>5
  <2>6. CASE c = "n_lic"
    BY <1>8, <2>1, <2>6
  <2> QED BY <2>2, <2>3, <2>4, <2>5, <2>6 DEF Doi!Counter
<1> QED BY <1>9 DEF Doi!Counts

\* The metrics of a notification are fields and counts.
LEMMA MetricsType ==
    ASSUME Doi!RegisterAssumption, NEW a \in DoiArticle
    PROVE  Doi!MetricsOf[a] \in Doi!Metrics
<1>1. Doi!Counts(a) \in [Doi!Counter -> Nat]
  BY CountsType
<1>2. Doi!Field = Doi!Simple \cup {"VoR", "EVoR", "author", "orcid", "affiliation", "orgId",
                                 "open", "other"}
  BY DEF Doi!Field, Doi!Rating
<1>3. a.simple \subseteq Doi!Simple /\ a.version \in Doi!Version
  BY DEF Doi!RegisterAssumption
<1>4. Doi!Bits(a) \subseteq Doi!Field
  <2> HIDE DEF Doi!Counts
  <2> QED BY <1>2, <1>3 DEF Doi!Bits, Doi!Version
<1>5. Doi!MetricsOf[a] = [bits |-> Doi!Bits(a), counts |-> Doi!Counts(a)]
  BY DEF Doi!MetricsOf
<1> QED BY <1>1, <1>4, <1>5 DEF Doi!Metrics

LEMMA Ratings ==
    /\ \A f \in Doi!Field : Doi!Rating[f] \in {"ultra", "high", "med", "low"}
    /\ \A f \in Doi!Field : Doi!Rating[f] = "ultra" <=> f \in {"pdf", "EVoR"}
    /\ "pdf" \in Doi!Field /\ "EVoR" \in Doi!Field
BY DEF Doi!Field, Doi!Rating, Doi!Simple

-----------------------------------------------------------------------------
\* Metrics

\* m has all that older has
Covers(m, older) ==
    /\ older.bits \subseteq m.bits
    /\ \A c \in Doi!Counter : older.counts[c] <= m.counts[c]

LEMMA JoinedType ==
    ASSUME NEW m1 \in Doi!Metrics, NEW m2 \in Doi!Metrics
    PROVE  /\ Doi!Joined(m1, m2) \in Doi!Metrics
           /\ Doi!Joined(m1, m2).bits = m1.bits \cup m2.bits
           /\ \A c \in Doi!Counter : Doi!Joined(m1, m2).counts[c] =
                IF m2.counts[c] > m1.counts[c] THEN m2.counts[c] ELSE m1.counts[c]
           /\ Covers(Doi!Joined(m1, m2), m1) /\ Covers(Doi!Joined(m1, m2), m2)
BY DEF Doi!Joined, Doi!Metrics, Covers

\* Two metrics are the same if they have the same fields and counts.
LEMMA SameMetrics ==
    ASSUME NEW m1 \in Doi!Metrics, NEW m2 \in Doi!Metrics, m1.bits = m2.bits,
           \A c \in Doi!Counter : m1.counts[c] = m2.counts[c]
    PROVE  m1 = m2
<1>1. m1.counts = m2.counts
  BY DEF Doi!Metrics
<1> QED BY <1>1 DEF Doi!Metrics

LEMMA NoMetricsType ==
    Doi!NoMetrics \in Doi!Metrics /\ \A m \in Doi!Metrics : Covers(m, Doi!NoMetrics)
BY DEF Doi!NoMetrics, Doi!Metrics, Covers

\* What adds nothing leaves the metrics as they were.
LEMMA NothingJoined ==
    ASSUME NEW m1 \in Doi!Metrics, NEW m2 \in Doi!Metrics, Covers(m1, m2)
    PROVE  Doi!Joined(m1, m2) = m1
<1> DEFINE j == Doi!Joined(m1, m2)
<1>0. /\ j \in Doi!Metrics
      /\ j.bits = m1.bits \cup m2.bits
      /\ \A c \in Doi!Counter : j.counts[c] =
           IF m2.counts[c] > m1.counts[c] THEN m2.counts[c] ELSE m1.counts[c]
  <2> HIDE DEF j
  <2> QED BY JoinedType DEF j
<1>1. j.bits = m1.bits
  BY <1>0 DEF Covers
<1> HIDE DEF j
<1>2. \A c \in Doi!Counter : m1.counts[c] \in Nat /\ m2.counts[c] \in Nat
  BY DEF Doi!Metrics
<1>3. \A c \in Doi!Counter : j.counts[c] = m1.counts[c]
  BY <1>0, <1>2 DEF Covers
<1>4. j = m1
  BY <1>0, <1>1, <1>3, SameMetrics
<1> QED BY <1>4 DEF j

LEMMA JoinedToNothing ==
    ASSUME NEW m \in Doi!Metrics PROVE Doi!Joined(Doi!NoMetrics, m) = m
<1> DEFINE j == Doi!Joined(Doi!NoMetrics, m)
<1>1. /\ Doi!NoMetrics \in Doi!Metrics /\ Doi!NoMetrics.bits = {}
      /\ \A c \in Doi!Counter : Doi!NoMetrics.counts[c] = 0
  BY NoMetricsType DEF Doi!NoMetrics
<1> HIDE DEF j
<1>0. /\ j \in Doi!Metrics
      /\ j.bits = Doi!NoMetrics.bits \cup m.bits
      /\ \A c \in Doi!Counter : j.counts[c] =
           IF m.counts[c] > Doi!NoMetrics.counts[c]
           THEN m.counts[c] ELSE Doi!NoMetrics.counts[c]
  BY <1>1, JoinedType DEF j
<1>2. /\ j.bits = m.bits
      /\ \A c \in Doi!Counter : j.counts[c] = IF m.counts[c] > 0 THEN m.counts[c] ELSE 0
  BY <1>0, <1>1
<1>3. \A c \in Doi!Counter : m.counts[c] \in Nat
  BY DEF Doi!Metrics
<1>4. \A c \in Doi!Counter : j.counts[c] = m.counts[c]
  BY <1>2, <1>3
<1>5. j = m
  BY <1>0, <1>2, <1>4, SameMetrics
<1> QED BY <1>5 DEF j

LEMMA CoversUp ==
    ASSUME NEW m1 \in Doi!Metrics, NEW m2 \in Doi!Metrics, NEW m3 \in Doi!Metrics
    PROVE  /\ Covers(m1, m2) /\ Covers(m2, m3) => Covers(m1, m3)
           /\ Covers(m1, m2) /\ Covers(m1, m3) => Covers(m1, Doi!Joined(m2, m3))
           /\ Covers(m1, m2) <=> Doi!NewBits(m1, m2) = {} /\ ~ Doi!CountsIncreased(m1, m2)
<1>1. \A c \in Doi!Counter :
         m1.counts[c] \in Nat /\ m2.counts[c] \in Nat /\ m3.counts[c] \in Nat
  BY DEF Doi!Metrics
<1>2. Covers(m1, m2) /\ Covers(m2, m3) => Covers(m1, m3)
  BY <1>1 DEF Covers
<1>3. Covers(m1, m2) /\ Covers(m1, m3) => Covers(m1, Doi!Joined(m2, m3))
  BY <1>1, JoinedType DEF Covers
<1>4. Covers(m1, m2) <=> Doi!NewBits(m1, m2) = {} /\ ~ Doi!CountsIncreased(m1, m2)
  BY <1>1 DEF Covers, Doi!NewBits, Doi!CountsIncreased
<1> QED BY <1>2, <1>3, <1>4

-----------------------------------------------------------------------------
\* How important a further notification is

LEMMA Levels ==
    ASSUME NEW m \in Doi!Metrics, Doi!Known \in Doi!Metrics, rec.seen
    PROVE  /\ Doi!Level(m) \in {1, 2, 3, 4, 5, 6, 9}
           /\ Doi!Level(m) > 5 =>
                 Doi!NewBits(Doi!Known, m) = {} /\ ~ Doi!CountsIncreased(Doi!Known, m)
           /\ Doi!Level(m) > 1 => "pdf" \notin Doi!NewBits(Doi!Known, m)
           /\ Doi!Level(m) <= 5 => \/ "EVoR" \in m.bits
                               \/ Doi!NewBits(Doi!Known, m) # {}
                               \/ Doi!CountsIncreased(Doi!Known, m)
<1> DEFINE new == Doi!NewBits(Doi!Known, m)
           adds == Doi!CountsIncreased(Doi!Known, m)
           Adds(rating) == \E f \in new : Doi!Rating[f] = rating
<1>1. Doi!Level(m) =
       IF "pdf" \in new \/ "EVoR" \in m.bits THEN 1
       ELSE IF adds THEN 2
       ELSE IF Adds("high") THEN 3
       ELSE IF Adds("med") THEN 4
       ELSE IF Adds("low") THEN 5
       ELSE IF "pdf" \in m.bits THEN 6
       ELSE 9
  BY DEF Doi!Level
<1>2. new \subseteq Doi!Field /\ new \subseteq m.bits
  BY DEF Doi!NewBits, Doi!Metrics
<1>3. \A f \in Doi!Field :
         Doi!Rating[f] \in {"high", "med", "low"} \/ f = "pdf" \/ f = "EVoR"
  BY Ratings
<1>4. \/ "pdf" \in new \/ "EVoR" \in m.bits \/ Adds("high") \/ Adds("med") \/ Adds("low")
      \/ new = {}
  BY <1>2, <1>3
<1>5. Adds("high") \/ Adds("med") \/ Adds("low") => new # {}
  OBVIOUS
<1>6. "pdf" \in new => new # {}
  OBVIOUS
<1> HIDE DEF new, adds, Adds
<1>7. /\ Doi!Level(m) \in {1, 2, 3, 4, 5, 6, 9}
      /\ Doi!Level(m) > 5 => new = {} /\ ~ adds
      /\ Doi!Level(m) > 1 => "pdf" \notin new
      /\ Doi!Level(m) <= 5 => "EVoR" \in m.bits \/ new # {} \/ adds
  BY <1>1, <1>4, <1>5, <1>6
<1> QED BY <1>7 DEF new, adds

-----------------------------------------------------------------------------
\* The invariant

\* What a repository has got is known; an article that was routed has been got by
\* every repository, except those that it did not match.
EntryKept ==
    /\ ~ rec.seen => rec = Doi!NoEntry
    /\ ~ rec.hasCum => rec.cum = Doi!NoMetrics
    /\ \A r \in DoiRepo : Covers(Doi!Known, got[r])
    /\ rec.seen => DoiRepo \ rec.repos \subseteq missed

RegInv == Doi!TypeOK /\ EntryKept /\ Doi!NothingMissed

\* What is known of the article according to an entry
KnownIn(e) == IF e.hasCum THEN e.cum ELSE e.orig

LEMMA KnownType ==
    ASSUME Doi!TypeOK PROVE Doi!Known \in Doi!Metrics /\ Doi!Known = KnownIn(rec)
BY DEF Doi!TypeOK, Doi!Known, KnownIn, Doi!Entry

LEMMA CoversBoth ==
    ASSUME NEW m1 \in Doi!Metrics, NEW m2 \in Doi!Metrics, NEW m \in Doi!Metrics,
           Covers(m1, m2)
    PROVE  Covers(Doi!Joined(m1, m), Doi!Joined(m2, m)) /\ Covers(Doi!Joined(m1, m), m2)
<1>1. \A c \in Doi!Counter :
         m1.counts[c] \in Nat /\ m2.counts[c] \in Nat /\ m.counts[c] \in Nat
  BY DEF Doi!Metrics
<1>2. /\ Doi!Joined(m1, m).bits = m1.bits \cup m.bits
      /\ \A c \in Doi!Counter : Doi!Joined(m1, m).counts[c] =
                IF m.counts[c] > m1.counts[c] THEN m.counts[c] ELSE m1.counts[c]
  BY JoinedType
<1>3. /\ Doi!Joined(m2, m).bits = m2.bits \cup m.bits
      /\ \A c \in Doi!Counter : Doi!Joined(m2, m).counts[c] =
                IF m.counts[c] > m2.counts[c] THEN m.counts[c] ELSE m2.counts[c]
  BY JoinedType
<1> QED BY <1>1, <1>2, <1>3 DEF Covers

\* The entry of a notification that is routed
LEMMA UpdatedEntry ==
    ASSUME RegInv, NEW m \in Doi!Metrics, NEW s \in Doi!Source
    PROVE  LET e == Doi!Updated(m, s)
           IN /\ e \in Doi!Entry /\ e.seen /\ e.repos = rec.repos
              /\ KnownIn(e) = Doi!Joined(Doi!Known, m)
              /\ ~ e.hasCum => e.cum = Doi!NoMetrics
              /\ e.pdf <=> "pdf" \in e.orig.bits \cup e.cum.bits
              /\ e.pubs + e.harvs = rec.pubs + rec.harvs + 1
              /\ e.pubs = IF s = "publisher" THEN rec.pubs + 1 ELSE rec.pubs
              /\ e.rank = 1 <=> e.pubs > 0
<1> DEFINE e == Doi!Updated(m, s)
           d == Doi!Counted(m, s)
           adds == Doi!NewBits(Doi!Known, m) # {} \/ Doi!CountsIncreased(Doi!Known, m)
<1>1. /\ rec \in Doi!Entry /\ Doi!Known \in Doi!Metrics /\ Doi!Known = KnownIn(rec)
      /\ rec.pdf <=> "pdf" \in rec.orig.bits \cup rec.cum.bits
      /\ rec.rank = 1 <=> rec.pubs > 0
      /\ ~ rec.seen => rec = Doi!NoEntry
      /\ ~ rec.hasCum => rec.cum = Doi!NoMetrics
  BY KnownType DEF RegInv, Doi!TypeOK, EntryKept
<1>2. /\ d \in Doi!Entry /\ d.seen /\ d.repos = rec.repos
      /\ d.orig = rec.orig /\ d.cum = rec.cum /\ d.hasCum = rec.hasCum
      /\ d.pdf <=> rec.pdf \/ "pdf" \in m.bits
      /\ d.pubs = IF s = "publisher" THEN rec.pubs + 1 ELSE rec.pubs
      /\ d.harvs = IF s = "publisher" THEN rec.harvs ELSE rec.harvs + 1
      /\ d.rank = IF Doi!Rank(s) < rec.rank \/ ~ rec.seen THEN Doi!Rank(s) ELSE rec.rank
  <2> DEFINE pubs == IF s = "publisher" THEN rec.pubs + 1 ELSE rec.pubs
             harvs == IF s = "publisher" THEN rec.harvs ELSE rec.harvs + 1
             rank == IF Doi!Rank(s) < rec.rank \/ ~ rec.seen THEN Doi!Rank(s) ELSE rec.rank
             pdf == rec.pdf \/ "pdf" \in m.bits
  <2>1. pubs \in Nat /\ harvs \in Nat
    BY <1>1 DEF Doi!Entry
  <2>2. rank \in 1 .. 2 /\ pdf \in BOOLEAN
    BY <1>1 DEF Doi!Entry, Doi!Rank
  <2>3. d = [rec EXCEPT !.seen = TRUE, !.pubs = pubs, !.harvs = harvs,
                          !.rank = rank, !.pdf = pdf]
    BY <1>1 DEF Doi!Counted, Doi!Entry
  <2> HIDE DEF d, pubs, harvs, rank, pdf
  <2>4. /\ d \in Doi!Entry /\ d.seen /\ d.repos = rec.repos
        /\ d.orig = rec.orig /\ d.cum = rec.cum /\ d.hasCum = rec.hasCum
        /\ d.pdf = pdf /\ d.pubs = pubs /\ d.harvs = harvs /\ d.rank = rank
    BY <1>1, <2>1, <2>2, <2>3 DEF Doi!Entry
  <2> QED BY <2>4 DEF pubs, harvs, rank, pdf
<1>3. d.pubs + d.harvs = rec.pubs + rec.harvs + 1
  BY <1>1, <1>2 DEF Doi!Entry
<1>4. d.rank = 1 <=> d.pubs > 0
  BY <1>1, <1>2 DEF Doi!Entry, Doi!Rank, Doi!Source, Doi!NoEntry
<1>5. /\ Doi!Joined(Doi!Known, m) \in Doi!Metrics
      /\ Doi!Joined(Doi!Known, m).bits = Doi!Known.bits \cup m.bits
  BY <1>1, JoinedType
<1>6. Doi!NoMetrics \in Doi!Metrics /\ Doi!NoMetrics.bits = {}
  BY NoMetricsType DEF Doi!NoMetrics
<1> HIDE DEF d
<1>7. CASE ~ rec.seen
  <2>1. e = [d EXCEPT !.orig = m]
    BY <1>7 DEF Doi!Updated, d
  <2>2. Doi!Known = Doi!NoMetrics /\ ~ rec.hasCum /\ ~ rec.pdf /\ rec.cum = Doi!NoMetrics
    BY <1>1, <1>7 DEF KnownIn, Doi!NoEntry
  <2>3. e \in Doi!Entry /\ e.orig = m /\ e.hasCum = d.hasCum /\ e.cum = d.cum /\ e.seen
        /\ e.repos = d.repos /\ e.pdf = d.pdf /\ e.pubs = d.pubs /\ e.harvs = d.harvs
        /\ e.rank = d.rank
    BY <1>2, <2>1 DEF Doi!Entry
  <2> HIDE DEF e
  <2>4. KnownIn(e) = Doi!Joined(Doi!Known, m)
    BY <1>2, <2>2, <2>3, JoinedToNothing DEF KnownIn
  <2>5. e.pdf <=> "pdf" \in e.orig.bits \cup e.cum.bits
    BY <1>2, <1>6, <2>2, <2>3
  <2>6. ~ e.hasCum => e.cum = Doi!NoMetrics
    BY <1>2, <2>2, <2>3
  <2> QED BY <1>2, <1>3, <1>4, <2>3, <2>4, <2>5, <2>6 DEF e
<1>8. CASE rec.seen /\ adds
  <2>1. e = [d EXCEPT !.cum = Doi!Joined(Doi!Known, m), !.hasCum = TRUE]
    BY <1>8 DEF Doi!Updated, d
  <2>2. e \in Doi!Entry /\ e.orig = d.orig /\ e.hasCum /\ e.seen
        /\ e.cum = Doi!Joined(Doi!Known, m)
        /\ e.repos = d.repos /\ e.pdf = d.pdf /\ e.pubs = d.pubs /\ e.harvs = d.harvs
        /\ e.rank = d.rank
    <3> DEFINE j == Doi!Joined(Doi!Known, m)
    <3>1. j \in Doi!Metrics
      BY <1>5
    <3> HIDE DEF j
    <3>2. e = [d EXCEPT !.cum = j, !.hasCum = TRUE]
      BY <2>1 DEF j
    <3> HIDE DEF e
    <3> QED BY <1>2, <3>1, <3>2 DEF Doi!Entry, j
  <2> HIDE DEF e
  <2>3. KnownIn(e) = Doi!Joined(Doi!Known, m)
    BY <2>2 DEF KnownIn
  <2>4. Doi!Known = IF rec.hasCum THEN rec.cum ELSE rec.orig
    BY DEF Doi!Known
  <2>5. e.pdf <=> "pdf" \in e.orig.bits \cup e.cum.bits
    BY <1>1, <1>2, <1>5, <1>6, <2>2, <2>4
  <2> QED BY <1>2, <1>3, <1>4, <2>2, <2>3, <2>5 DEF e
<1>9. CASE rec.seen /\ ~ adds
  <2>1. e = d
    BY <1>9 DEF Doi!Updated, d
  <2>2. Covers(Doi!Known, m)
    BY <1>1, <1>9, CoversUp
  <2>3. KnownIn(d) = Doi!Joined(Doi!Known, m)
    BY <1>1, <1>2, <2>2, NothingJoined DEF KnownIn
  <2>4. m.bits \subseteq rec.orig.bits \cup rec.cum.bits
    BY <2>2 DEF Covers, Doi!Known
  <2>5. d.pdf <=> "pdf" \in d.orig.bits \cup d.cum.bits
    BY <1>1, <1>2, <2>4
  <2> HIDE DEF e
  <2> QED BY <1>1, <1>2, <1>3, <1>4, <2>1, <2>3, <2>5 DEF e
<1> QED BY <1>7, <1>8, <1>9

\* A repository is passed over only for what adds nothing that it asked for.
LEMMA PassedOver ==
    ASSUME RegInv, Doi!RegisterAssumption, NEW m \in Doi!Metrics, NEW s \in Doi!Source,
           NEW matching \in SUBSET DoiRepo, NEW r \in matching,
           r \notin Doi!Recipients(m, s, matching)
    PROVE  /\ rec.seen /\ r \in rec.repos /\ ~ Doi!FirstOfPublisher(s)
           /\ Doi!LevelOf(r) >= 5 => Doi!Joined(Doi!Known, m) = Doi!Known
           /\ Doi!LevelOf(r) >= 1 => "pdf" \notin Doi!NewBits(Doi!Known, m)
<1>1. /\ r \in rec.repos /\ ~ Doi!FirstOfPublisher(s)
      /\ Doi!Level(m) # 0 /\ ~ Doi!Wanted(r, s, Doi!Level(m))
  BY DEF Doi!Recipients
<1>2. rec.seen
  BY <1>1 DEF RegInv, EntryKept, Doi!NoEntry
<1>3. Doi!Known \in Doi!Metrics
  BY KnownType DEF RegInv
<1>4. DoiLevelPub[r] \in {0, 1, 5, 6, 9} /\ DoiLevelHarv[r] \in {0, 1, 5, 6, 9}
  BY DEF Doi!RegisterAssumption
<1>5. /\ Doi!Level(m) \in {1, 2, 3, 4, 5, 6, 9}
      /\ Doi!Level(m) > 5 =>
            Doi!NewBits(Doi!Known, m) = {} /\ ~ Doi!CountsIncreased(Doi!Known, m)
      /\ Doi!Level(m) > 1 => "pdf" \notin Doi!NewBits(Doi!Known, m)
  BY <1>2, <1>3, Levels
<1>6. Doi!Level(m) > Doi!LevelOf(r)
  BY <1>1, <1>4, <1>5 DEF Doi!Wanted, Doi!LevelOf
<1>7. Doi!LevelOf(r) \in {0, 1, 5, 6, 9}
  BY <1>4 DEF Doi!LevelOf
<1>8. Doi!LevelOf(r) >= 5 => Doi!Joined(Doi!Known, m) = Doi!Known
  <2> SUFFICES ASSUME Doi!LevelOf(r) >= 5 PROVE Doi!Joined(Doi!Known, m) = Doi!Known
    OBVIOUS
  <2>1. Doi!Level(m) > 5
    BY <1>5, <1>6, <1>7
  <2>2. Covers(Doi!Known, m)
    BY <1>3, <1>5, <2>1, CoversUp
  <2> QED BY <1>3, <2>2, NothingJoined
<1>9. Doi!LevelOf(r) >= 1 => Doi!Level(m) > 1
  BY <1>5, <1>6, <1>7
<1> QED BY <1>1, <1>2, <1>5, <1>8, <1>9

-----------------------------------------------------------------------------
\* The steps

LEMMA NothingRouted ==
    ASSUME RegInv, NEW a \in DoiArticle, NEW s \in Doi!Source,
           NEW matching \in SUBSET DoiRepo,
           Doi!RegisterAssumption, Doi!Route(a, s, matching),
           Doi!Recipients(Doi!MetricsOf[a], s, matching) = {}
    PROVE  RegInv'
<1>1. Doi!MetricsOf[a] \in Doi!Metrics
  BY MetricsType
<1>2. /\ rec' = rec /\ number' = number + 1 /\ number < DoiNotes
      /\ gotPub' = gotPub /\ missed' = missed
      /\ last' = [to |-> {}, metrics |-> Doi!MetricsOf[a],
                  firstPub |-> Doi!FirstOfPublisher(s)]
      /\ got' = [r \in DoiRepo |-> got[r]]
  BY DEF Doi!Route
<1>3. got' = got
  BY <1>2 DEF RegInv, Doi!TypeOK
<1>4. Doi!TypeOK'
  BY <1>1, <1>2, <1>3 DEF RegInv, Doi!TypeOK, Doi!RegisterAssumption,
       Doi!FirstOfPublisher, Doi!Entry
<1>5. EntryKept' /\ Doi!NothingMissed'
  BY <1>2, <1>3 DEF RegInv, EntryKept, Doi!NothingMissed, Doi!Known
<1> QED BY <1>4, <1>5 DEF RegInv

LEMMA SomeRouted ==
    ASSUME RegInv, NEW a \in DoiArticle, NEW s \in Doi!Source,
           NEW matching \in SUBSET DoiRepo,
           Doi!RegisterAssumption, Doi!Route(a, s, matching),
           Doi!Recipients(Doi!MetricsOf[a], s, matching) # {}
    PROVE  RegInv'
<1> DEFINE m == Doi!MetricsOf[a]
           to == Doi!Recipients(m, s, matching)
           e == Doi!Updated(m, s)
<1>1. m \in Doi!Metrics
  BY MetricsType
<1>2. /\ number' = number + 1 /\ number < DoiNotes
      /\ rec' = [e EXCEPT !.repos = @ \cup to]
      /\ last' = [to |-> to, metrics |-> m, firstPub |-> Doi!FirstOfPublisher(s)]
      /\ got' = [r \in DoiRepo |-> IF r \in to THEN Doi!Joined(got[r], m) ELSE got[r]]
      /\ gotPub' = IF s = "publisher" THEN gotPub \cup to ELSE gotPub
      /\ missed' = missed \cup (DoiRepo \ matching)
  BY DEF Doi!Route
<1>3. to \subseteq matching /\ to \subseteq DoiRepo
  BY DEF Doi!Recipients
<1>4. /\ e \in Doi!Entry /\ e.seen /\ e.repos = rec.repos
      /\ KnownIn(e) = Doi!Joined(Doi!Known, m)
      /\ ~ e.hasCum => e.cum = Doi!NoMetrics
      /\ e.pdf <=> "pdf" \in e.orig.bits \cup e.cum.bits
      /\ e.pubs + e.harvs = rec.pubs + rec.harvs + 1
      /\ e.pubs = IF s = "publisher" THEN rec.pubs + 1 ELSE rec.pubs
      /\ e.rank = 1 <=> e.pubs > 0
  <2> HIDE DEF m
  <2> QED BY <1>1, UpdatedEntry
<1>5. \A r \in matching \ to :
         /\ rec.seen /\ r \in rec.repos /\ ~ Doi!FirstOfPublisher(s)
         /\ Doi!LevelOf(r) >= 5 => Doi!Joined(Doi!Known, m) = Doi!Known
         /\ Doi!LevelOf(r) >= 1 => "pdf" \notin Doi!NewBits(Doi!Known, m)
  <2> HIDE DEF m
  <2> QED BY <1>1, PassedOver
<1> HIDE DEF m, to, e
<1>6. /\ rec' \in Doi!Entry /\ rec'.seen /\ rec'.repos = rec.repos \cup to
      /\ rec'.orig = e.orig /\ rec'.cum = e.cum /\ rec'.hasCum = e.hasCum
      /\ rec'.pdf = e.pdf /\ rec'.pubs = e.pubs /\ rec'.harvs = e.harvs
      /\ rec'.rank = e.rank
  BY <1>2, <1>3, <1>4 DEF Doi!Entry
<1>7. /\ Doi!Known' = Doi!Joined(Doi!Known, m) /\ Doi!Known \in Doi!Metrics
      /\ Doi!Known'.bits = Doi!Known.bits \cup m.bits
  BY <1>1, <1>4, <1>6, KnownType, JoinedType DEF KnownIn, Doi!Known, RegInv
<1>8. \A r \in DoiRepo : got[r] \in Doi!Metrics /\ Covers(Doi!Known, got[r])
  BY DEF RegInv, Doi!TypeOK, EntryKept
<1>9. \A r \in DoiRepo :
         /\ Doi!Joined(got[r], m) \in Doi!Metrics
         /\ Doi!Joined(got[r], m).bits = got[r].bits \cup m.bits
  BY <1>1, <1>8, JoinedType
<1>10. got' \in [DoiRepo -> Doi!Metrics]
  BY <1>2, <1>8, <1>9
<1>11. Doi!TypeOK'
  <2>1. rec'.pubs + rec'.harvs <= number'
    BY <1>2, <1>4, <1>6 DEF RegInv, Doi!TypeOK, Doi!Entry
  <2>2. rec'.rank = 1 <=> rec'.pubs > 0
    BY <1>4, <1>6
  <2>3. rec'.pdf <=> "pdf" \in rec'.orig.bits \cup rec'.cum.bits
    BY <1>4, <1>6
  <2>4. \A r \in DoiRepo : got'[r] # Doi!NoMetrics => r \in rec'.repos
    BY <1>2, <1>6 DEF RegInv, Doi!TypeOK
  <2>5. number' \in 0 .. DoiNotes
    BY <1>2 DEF RegInv, Doi!TypeOK, Doi!RegisterAssumption
  <2>6. last' \in [to : SUBSET DoiRepo, metrics : Doi!Metrics, firstPub : BOOLEAN]
    BY <1>1, <1>2, <1>3 DEF Doi!FirstOfPublisher
  <2>7. gotPub' \in SUBSET DoiRepo /\ missed' \in SUBSET DoiRepo
    BY <1>2, <1>3 DEF RegInv, Doi!TypeOK
  <2> QED BY <1>6, <1>10, <2>1, <2>2, <2>3, <2>4, <2>5, <2>6, <2>7 DEF Doi!TypeOK
<1>12. EntryKept'
  <2>1. \A r \in DoiRepo : Covers(Doi!Known, got[r])'
    <3> SUFFICES ASSUME NEW r \in DoiRepo PROVE Covers(Doi!Known', got'[r])
      BY DEF Covers
    <3>1. /\ Covers(Doi!Joined(Doi!Known, m), Doi!Joined(got[r], m))
          /\ Covers(Doi!Joined(Doi!Known, m), got[r])
      BY <1>1, <1>7, <1>8, CoversBoth
    <3> QED BY <1>2, <1>7, <3>1
  <2>2. (DoiRepo \ rec.repos \subseteq missed)'
    <3> SUFFICES ASSUME NEW r \in DoiRepo, r \notin rec'.repos PROVE r \in missed'
      OBVIOUS
    <3>1. r \notin matching
      BY <1>5, <1>6
    <3> QED BY <1>2, <3>1
  <2>3. (~ rec.hasCum => rec.cum = Doi!NoMetrics)'
    BY <1>4, <1>6 DEF Doi!NoMetrics
  <2> QED BY <1>6, <2>1, <2>2, <2>3 DEF EntryKept
<1>13. Doi!NothingMissed'
  <2> SUFFICES ASSUME NEW r \in rec'.repos, r \notin missed'
               PROVE  /\ Doi!LevelOf(r) >= 5 => got'[r] = Doi!Known'
                      /\ Doi!LevelOf(r) >= 1 /\ "pdf" \in Doi!Known'.bits =>
                            "pdf" \in got'[r].bits
                      /\ rec'.pubs > 0 => r \in gotPub'
    BY DEF Doi!NothingMissed, Doi!LevelOf
  <2>0. r \in DoiRepo /\ r \in matching /\ r \notin missed
    BY <1>2, <1>6 DEF Doi!Entry
  <2>1. CASE r \notin rec.repos
    <3>1. r \in to /\ ~ rec.seen
      BY <1>5, <2>0, <2>1 DEF RegInv, EntryKept
    <3>2. rec = Doi!NoEntry
      BY <3>1 DEF RegInv, EntryKept
    <3>3. Doi!Known = Doi!NoMetrics /\ got[r] = Doi!NoMetrics /\ rec.pubs = 0
      BY <2>0, <2>1, <3>2 DEF Doi!NoEntry, Doi!Known, RegInv, Doi!TypeOK
    <3>4. got'[r] = Doi!Known'
      BY <1>2, <1>7, <2>0, <3>1, <3>3
    <3>5. rec'.pubs > 0 => r \in gotPub'
      BY <1>2, <1>4, <1>6, <3>1, <3>3
    <3> QED BY <3>4, <3>5
  <2>2. CASE r \in rec.repos
    <3>1. /\ Doi!LevelOf(r) >= 5 => got[r] = Doi!Known
          /\ Doi!LevelOf(r) >= 1 /\ "pdf" \in Doi!Known.bits => "pdf" \in got[r].bits
          /\ rec.pubs > 0 => r \in gotPub
      BY <2>0, <2>2 DEF RegInv, Doi!NothingMissed
    <3>2. CASE r \in to
      <4>1. got'[r] = Doi!Joined(got[r], m) /\ got'[r].bits = got[r].bits \cup m.bits
        BY <1>2, <1>9, <2>0, <3>2
      <4>2. rec'.pubs > 0 => r \in gotPub'
        BY <1>2, <1>4, <1>6, <3>1, <3>2
      <4> QED BY <1>7, <3>1, <4>1, <4>2
    <3>3. CASE r \notin to
      <4>1. /\ ~ Doi!FirstOfPublisher(s)
            /\ Doi!LevelOf(r) >= 5 => Doi!Joined(Doi!Known, m) = Doi!Known
            /\ Doi!LevelOf(r) >= 1 => "pdf" \notin Doi!NewBits(Doi!Known, m)
        BY <1>5, <2>0, <3>3
      <4>2. got'[r] = got[r]
        BY <1>2, <2>0, <3>3
      <4>3. Doi!LevelOf(r) >= 5 => got'[r] = Doi!Known'
        BY <1>7, <3>1, <4>1, <4>2
      <4>4. Doi!LevelOf(r) >= 1 /\ "pdf" \in Doi!Known'.bits => "pdf" \in got'[r].bits
        BY <1>7, <3>1, <4>1, <4>2 DEF Doi!NewBits
      <4>5. rec'.pubs > 0 => r \in gotPub'
        BY <1>2, <1>4, <1>6, <3>1, <4>1 DEF Doi!FirstOfPublisher, RegInv, Doi!TypeOK,
             Doi!Entry
      <4> QED BY <4>3, <4>4, <4>5
    <3> QED BY <3>2, <3>3
  <2> QED BY <2>1, <2>2
<1> QED BY <1>11, <1>12, <1>13 DEF RegInv

LEMMA RegStep == Doi!RegisterAssumption => (RegInv /\ [Doi!Next]_(Doi!vars) => RegInv')
<1> SUFFICES ASSUME Doi!RegisterAssumption, RegInv, [Doi!Next]_(Doi!vars) PROVE RegInv'
  OBVIOUS
<1>1. CASE UNCHANGED Doi!vars
  BY <1>1 DEF Doi!vars, RegInv, Doi!TypeOK, EntryKept, Doi!NothingMissed, Doi!Known,
       Covers
<1>2. ASSUME NEW a \in DoiArticle, NEW s \in Doi!Source, NEW matching \in SUBSET DoiRepo,
             Doi!Route(a, s, matching)
      PROVE  RegInv'
  BY <1>2, NothingRouted, SomeRouted
<1> QED BY <1>1, <1>2 DEF Doi!Next, Doi!Idle

LEMMA RegInit == Doi!RegisterAssumption => (Doi!Init => RegInv)
<1> SUFFICES ASSUME Doi!RegisterAssumption, Doi!Init PROVE RegInv
  OBVIOUS
<1>1. /\ Doi!NoMetrics \in Doi!Metrics /\ Doi!NoMetrics.bits = {}
      /\ Covers(Doi!NoMetrics, Doi!NoMetrics)
  BY NoMetricsType DEF Doi!NoMetrics
<1>2. Doi!Known = Doi!NoMetrics
  BY DEF Doi!Init, Doi!NoEntry, Doi!Known
<1>3. Doi!NoEntry \in Doi!Entry
  BY <1>1 DEF Doi!NoEntry, Doi!Entry
<1>4. Doi!TypeOK
  BY <1>1, <1>3 DEF Doi!Init, Doi!TypeOK, Doi!NoEntry, Doi!RegisterAssumption
<1>5. EntryKept
  BY <1>1, <1>2 DEF Doi!Init, EntryKept, Doi!NoEntry
<1>6. Doi!NothingMissed
  BY DEF Doi!Init, Doi!NothingMissed, Doi!NoEntry
<1> QED BY <1>4, <1>5, <1>6 DEF RegInv

\* What is sent again adds something, or is one of the exceptions.
LEMMA AgainForMore ==
    ASSUME Doi!RegisterAssumption, RegInv, NEW a \in DoiArticle, NEW s \in Doi!Source,
           NEW matching \in SUBSET DoiRepo, Doi!Route(a, s, matching),
           NEW r \in last'.to \cap rec.repos, ~ last'.firstPub,
           "EVoR" \notin last'.metrics.bits, DoiLevelPub[r] <= 5, DoiLevelHarv[r] <= 5
    PROVE  got'[r] # got[r]
<1> DEFINE m == Doi!MetricsOf[a]
<1>1. m \in Doi!Metrics
  BY MetricsType
<1>2. /\ last'.to = Doi!Recipients(m, s, matching) /\ last'.metrics = m
      /\ last'.firstPub = Doi!FirstOfPublisher(s)
      /\ got' = [q \in DoiRepo |-> IF q \in Doi!Recipients(m, s, matching)
                               THEN Doi!Joined(got[q], m) ELSE got[q]]
  BY DEF Doi!Route
<1> HIDE DEF m
<1>3. r \in DoiRepo /\ rec.seen
  BY DEF RegInv, Doi!TypeOK, EntryKept, Doi!Entry, Doi!NoEntry
<1>4. Doi!Known \in Doi!Metrics /\ got[r] \in Doi!Metrics /\ Covers(Doi!Known, got[r])
  BY <1>3, KnownType DEF RegInv, Doi!TypeOK, EntryKept
<1>5. /\ Doi!Level(m) \in {1, 2, 3, 4, 5, 6, 9}
      /\ Doi!Level(m) <= 5 => \/ "EVoR" \in m.bits
                          \/ Doi!NewBits(Doi!Known, m) # {}
                          \/ Doi!CountsIncreased(Doi!Known, m)
  BY <1>1, <1>3, <1>4, Levels
<1>6. Doi!Wanted(r, s, Doi!Level(m))
  BY <1>2, <1>5 DEF Doi!Recipients
<1>7. Doi!Level(m) <= 5
  BY <1>3, <1>5, <1>6 DEF Doi!Wanted, Doi!RegisterAssumption
<1>8. ~ Covers(Doi!Known, m)
  BY <1>1, <1>2, <1>4, <1>5, <1>7, CoversUp
<1>9. ~ Covers(got[r], m)
  BY <1>1, <1>4, <1>8, CoversUp
<1>10. Covers(Doi!Joined(got[r], m), m)
  BY <1>1, <1>4, JoinedType
<1> QED BY <1>2, <1>3, <1>9, <1>10

-----------------------------------------------------------------------------
\* The theorems

\* The register's entry, and what the repositories have got, agree at all times
\* (doi_register.py, dups_wanted and update_cumulative_metrics; routing.py, route).
THEOREM RegisterKept == Doi!RegisterAssumption => (Doi!Spec => []RegInv)
<1> SUFFICES ASSUME Doi!RegisterAssumption PROVE Doi!Spec => []RegInv
  OBVIOUS
<1>1. Doi!Init => RegInv
  BY RegInit
<1>2. RegInv /\ [Doi!Next]_(Doi!vars) => RegInv'
  BY RegStep
<1> QED BY <1>1, <1>2, PTL DEF Doi!Spec

\* A repository that asks for more has all that is known, or the full text, and what a
\* publisher deposited, for all repositories, their settings and notifications.
THEOREM AllHad == Doi!RegisterAssumption => (Doi!Spec => []Doi!NothingMissed)
<1> SUFFICES ASSUME Doi!RegisterAssumption PROVE Doi!Spec => []Doi!NothingMissed
  OBVIOUS
<1>1. RegInv => Doi!NothingMissed
  BY DEF RegInv
<1>2. Doi!Spec => []RegInv
  BY RegisterKept
<1> QED BY <1>1, <1>2, PTL

\* No repository is sent again what it has, apart from the exceptions that the code makes.
THEOREM NoneUseless == Doi!RegisterAssumption => (Doi!Spec => Doi!NoUselessDuplicate)
<1> DEFINE Again(r) == \/ last'.firstPub \/ "EVoR" \in last'.metrics.bits
                       \/ DoiLevelPub[r] > 5 \/ DoiLevelHarv[r] > 5
                       \/ got'[r] # got[r]
           Useful == \A r \in last'.to \cap rec.repos : Again(r)
<1> SUFFICES ASSUME Doi!RegisterAssumption PROVE Doi!Spec => Doi!NoUselessDuplicate
  OBVIOUS
<1>1. Doi!Spec => []RegInv
  BY RegisterKept
<1>2. ASSUME RegInv, Doi!Next PROVE Useful \/ UNCHANGED Doi!vars
  <2>1. CASE Doi!Idle
    BY <2>1 DEF Doi!Idle
  <2>2. ASSUME NEW a \in DoiArticle, NEW s \in Doi!Source, NEW matching \in SUBSET DoiRepo,
               Doi!Route(a, s, matching), NEW r \in last'.to \cap rec.repos
        PROVE  Again(r)
    <3>1. r \in DoiRepo
      BY <1>2 DEF RegInv, Doi!TypeOK, Doi!Entry
    <3>2. DoiLevelPub[r] \in {0, 1, 5, 6, 9} /\ DoiLevelHarv[r] \in {0, 1, 5, 6, 9}
      BY <3>1 DEF Doi!RegisterAssumption
    <3>3. DoiLevelPub[r] <= 5 \/ DoiLevelPub[r] > 5
      BY <3>2
    <3>4. DoiLevelHarv[r] <= 5 \/ DoiLevelHarv[r] > 5
      BY <3>2
    <3> QED BY <1>2, <2>2, <3>3, <3>4, AgainForMore
  <2> QED BY <1>2, <2>1, <2>2 DEF Doi!Next
<1>3. RegInv /\ [Doi!Next]_(Doi!vars) => [Useful]_(Doi!vars)
  BY <1>2
<1> HIDE DEF Useful
<1>4. Doi!Spec => [][Useful]_(Doi!vars)
  BY <1>1, <1>3, PTL DEF Doi!Spec
<1> QED BY <1>4 DEF Doi!NoUselessDuplicate, Useful

-----------------------------------------------------------------------------
(* The Harvester, for any articles, period, waiting time and number of     *)
(* faults: types, that the end date of a provider says what has been dealt *)
(* with, and that an article is made one notification.                     *)

\* What becomes of an article that the scroller gives.
ItemDone(a) ==
    Harvest!CreateNote(a) \/ Harvest!ConversionError(a) \/ Harvest!DatabaseError(a)

\* The scroller is used only while notifications are created.
HarvTyped == Harvest!TypeOK /\ (harvestPc # "create" => todo = {})

-----------------------------------------------------------------------------
(* What has been dealt with.  The articles asked for are in the index when *)
(* it is filtered; then each is in what the scroller has left or processed *)
(* or met an error of the database; then each is processed or left over.   *)

DealtInv ==
    /\ mem.endDate = provider.endDate
    /\ Harvest!BeforeEndDateDealtWith
    /\ \A a \in processed : Harvest!Settled(a)
    /\ harvestPc = "select" =>
           Harvest!AskedFor \subseteq index /\ (received <=> Harvest!AskedFor # {})
    /\ \A a \in Harvest!AskedFor \cap HarvestWanted :
          /\ harvestPc = "create" => a \in index /\ (a \in todo \cup processed \/ dbError)
          /\ harvestPc = "clean" => a \in processed \/ (~allOk /\ a \in index)
          /\ harvestPc = "save" => Harvest!Settled(a) \/ a \in leftover

-----------------------------------------------------------------------------
(* An article is noted once: what was noted in this run is processed, and  *)
(* the scroller is past it; what was noted in an earlier run is not in the *)
(* index, and so old that it is not asked for again.                       *)

HarvBounded ==
    /\ harvestPc = "idle" => \A a \in index : HarvestPublished[a] < Harvest!UntilDate
    /\ harvestPc # "idle" => /\ provider.endDate < until /\ until <= Harvest!UntilDate
                             /\ \A a \in index \cup processed : HarvestPublished[a] < until

HarvOnceInv ==
    /\ todo \cap processed = {}
    /\ harvestPc = "save" => index \cap processed = {}
    /\ harvestPc \in {"fetch", "select"} => processed = {}
    /\ \A a \in HarvestArticle \ repeated :
          /\ noted[a] <= 1
          /\ noted[a] > 0 =>
                \/ a \in processed
                \/ a \notin index /\ HarvestPublished[a] < provider.endDate

-----------------------------------------------------------------------------
(* Types.                                                                  *)

LEMMA HarvTypedInit == ASSUME Harvest!HarvesterAssumption, Harvest!Init PROVE HarvTyped
<1>1. received \in BOOLEAN /\ dbError \in BOOLEAN /\ allOk \in BOOLEAN
          /\ harvestKilled \in BOOLEAN
  BY Zenon DEF Harvest!Init
<1>2. provider \in Harvest!Record /\ mem \in Harvest!Record
  <2>1. 1 - HarvestWait \in Int
    BY DEF Harvest!HarvesterAssumption
  <2> QED BY <2>1 DEF Harvest!Init, Harvest!Record
<1> QED BY <1>1, <1>2 DEF Harvest!Init, HarvTyped, Harvest!TypeOK, Harvest!PC

LEMMA EndedTyped ==
    ASSUME Harvest!Ended, provider' \in Harvest!Record, index' \in SUBSET HarvestArticle
    PROVE  /\ harvestPc' \in Harvest!PC /\ mem' \in Harvest!Record /\ until' \in Int
           /\ received' \in BOOLEAN
           /\ todo' \in SUBSET index' /\ processed' \in SUBSET HarvestArticle
           /\ dbError' \in BOOLEAN /\ allOk' \in BOOLEAN /\ harvestKilled' \in BOOLEAN
           /\ harvestPc' = "idle" => processed' = {} /\ ~harvestKilled'
           /\ harvestPc' # "create" => todo' = {}
<1>1. received' \in BOOLEAN /\ dbError' \in BOOLEAN /\ allOk' \in BOOLEAN
          /\ harvestKilled' \in BOOLEAN
  BY Zenon DEF Harvest!Ended
<1> QED BY <1>1 DEF Harvest!Ended, Harvest!PC

LEMMA HarvTypedStep ==
    ASSUME Harvest!HarvesterAssumption, HarvTyped, [Harvest!Next]_(Harvest!vars)
    PROVE  HarvTyped'
<1>t. /\ today \in Nat /\ provider \in Harvest!Record
      /\ index \in SUBSET HarvestArticle /\ noted \in [HarvestArticle -> Nat]
      /\ harvestErrors \in SUBSET HarvestArticle
      /\ harvestPc \in Harvest!PC /\ mem \in Harvest!Record /\ until \in Int
      /\ received \in BOOLEAN
      /\ todo \in SUBSET index /\ processed \in SUBSET HarvestArticle
      /\ dbError \in BOOLEAN /\ allOk \in BOOLEAN /\ harvestKilled \in BOOLEAN
      /\ leftover \in SUBSET HarvestArticle /\ repeated \in SUBSET HarvestArticle
      /\ harvestPc = "idle" => processed = {} /\ ~harvestKilled
      /\ harvestFaultCount \in Nat
      /\ harvestPc # "create" => todo = {}
  BY DEF HarvTyped, Harvest!TypeOK
<1>a. HarvestPeriod \in Nat /\ HarvestWait \in Nat
  BY DEF Harvest!HarvesterAssumption
<1>f. Harvest!Fault => harvestFaultCount' \in Nat
  BY <1>t DEF Harvest!Fault
<1> USE DEF HarvTyped, Harvest!TypeOK, Harvest!world, Harvest!data, Harvest!local
<1>1. CASE UNCHANGED Harvest!vars
  BY <1>t, <1>1 DEF Harvest!vars
<1>2. CASE Harvest!Tick
  BY <1>t, <1>2 DEF Harvest!Tick
<1>3. CASE Harvest!ToggleStatus
  <2>1. provider' \in Harvest!Record
    BY <1>t, <1>3 DEF Harvest!ToggleStatus, Harvest!Record
  <2> QED BY <1>t, <1>3, <1>f, <2>1 DEF Harvest!ToggleStatus
<1>4. CASE Harvest!StartRun
  BY <1>t, <1>a, <1>4 DEF Harvest!StartRun, Harvest!UntilDate, Harvest!PC
<1>5. CASE Harvest!Fetch
  BY <1>t, <1>5 DEF Harvest!Fetch, Harvest!AskedFor, Harvest!PC
<1>6. CASE Harvest!RetryFetch
  BY <1>t, <1>6, <1>f DEF Harvest!RetryFetch
<1>7. CASE Harvest!FetchFails \/ Harvest!FetchKilled
  <2>1. Harvest!Ended /\ provider' \in Harvest!Record /\ index' \in SUBSET HarvestArticle
            /\ repeated' \in SUBSET HarvestArticle
    BY <1>t, <1>7 DEF Harvest!FetchFails, Harvest!FetchKilled, Harvest!DropFetch,
           Harvest!NotSaved
  <2> QED BY <1>t, <1>7, <1>f, <2>1, EndedTyped
             DEF Harvest!FetchFails, Harvest!FetchKilled, Harvest!DropFetch
<1>8. CASE Harvest!Select
  BY <1>t, <1>8 DEF Harvest!Select, Harvest!PC
<1>9. ASSUME NEW a \in HarvestArticle, ItemDone(a) PROVE HarvTyped'
  <2>1. /\ todo' \in SUBSET index'
        /\ UNCHANGED <<today, provider, index, harvestPc, mem, until, received, allOk>>
        /\ UNCHANGED <<harvestKilled, leftover, repeated>> /\ harvestPc = "create"
    BY <1>t, <1>9 DEF ItemDone, Harvest!CreateNote, Harvest!ConversionError,
           Harvest!DatabaseError, Harvest!Take
  <2>2. /\ noted' \in [HarvestArticle -> Nat] /\ harvestErrors' \in SUBSET HarvestArticle
        /\ processed' \in SUBSET HarvestArticle
        /\ harvestFaultCount' \in Nat
    BY <1>t, <1>9, <1>f DEF ItemDone, Harvest!CreateNote, Harvest!ConversionError,
           Harvest!DatabaseError
  <2>3. dbError' \in BOOLEAN
    <3>1. dbError' = dbError \/ dbError' = TRUE
      BY <1>9, Zenon DEF ItemDone, Harvest!CreateNote, Harvest!ConversionError,
             Harvest!DatabaseError
    <3> QED BY <1>t, <3>1, Zenon
  <2> QED BY <1>t, <2>1, <2>2, <2>3
<1>10. CASE Harvest!EndCreate
  BY <1>t, <1>10 DEF Harvest!EndCreate, Harvest!PC
<1>11. CASE Harvest!BreakOff
  BY <1>t, <1>11 DEF Harvest!BreakOff, Harvest!PC
<1>12. CASE Harvest!ScrollerError
  BY <1>t, <1>12, <1>f DEF Harvest!ScrollerError, Harvest!PC
<1>13. CASE Harvest!CleanIndex
  <2>1. index' \in SUBSET HarvestArticle /\ leftover' \in SUBSET HarvestArticle
            /\ harvestFaultCount' \in Nat
    BY <1>t, <1>13, <1>f DEF Harvest!CleanIndex
  <2> QED BY <1>t, <1>13, <2>1 DEF Harvest!CleanIndex, Harvest!PC
<1>14. CASE Harvest!SaveEndDate
  <2>1. Harvest!Ended /\ provider' \in Harvest!Record /\ index' \in SUBSET HarvestArticle
    BY <1>t, <1>14 DEF Harvest!SaveEndDate, Harvest!Record
  <2> QED BY <1>t, <1>14, <2>1, EndedTyped DEF Harvest!SaveEndDate
<1>15. CASE Harvest!CleanOrSaveFails \/ Harvest!Crash
  <2>1. Harvest!Ended /\ provider' \in Harvest!Record /\ index' \in SUBSET HarvestArticle
            /\ repeated' \in SUBSET HarvestArticle
    BY <1>t, <1>15 DEF Harvest!CleanOrSaveFails, Harvest!Crash, Harvest!NotSaved
  <2> QED BY <1>t, <1>15, <1>f, <2>1, EndedTyped DEF Harvest!CleanOrSaveFails, Harvest!Crash
<1>16. CASE Harvest!Signal
  BY <1>t, <1>16, <1>f DEF Harvest!Signal
<1> QED BY <1>1, <1>2, <1>3, <1>4, <1>5, <1>6, <1>7, <1>8, <1>9, <1>10, <1>11, <1>12,
           <1>13, <1>14, <1>15, <1>16 DEF ItemDone, Harvest!Next, Harvest!Step, Harvest!Faults

-----------------------------------------------------------------------------
(* The end of a run, and what lasts beyond it.                             *)

\* A run that is not saved ends with what was processed among the repeated.
RunBreaks == Harvest!DropFetch \/ Harvest!CleanOrSaveFails \/ Harvest!Crash

LEMMA BreaksForms ==
    ASSUME RunBreaks
    PROVE  /\ UNCHANGED <<today, provider, noted, harvestErrors, leftover>>
           /\ index' = {} \/ index' = index
           /\ harvestPc # "idle" /\ harvestPc' = "idle" /\ mem' = provider' /\ todo' = {}
           /\ processed' = {}
           /\ repeated' = repeated \cup processed
BY DEF RunBreaks, Harvest!DropFetch, Harvest!CleanOrSaveFails, Harvest!Crash, Harvest!NotSaved,
       Harvest!Ended, Harvest!world, Harvest!data

LEMMA HarvNextCases ==
    ASSUME Harvest!Next
    PROVE  \/ Harvest!Tick \/ Harvest!ToggleStatus \/ Harvest!StartRun \/ Harvest!Fetch
           \/ Harvest!RetryFetch \/ RunBreaks \/ Harvest!Select
           \/ \E a \in HarvestArticle : ItemDone(a)
           \/ Harvest!EndCreate \/ Harvest!BreakOff \/ Harvest!ScrollerError
           \/ Harvest!CleanIndex \/ Harvest!SaveEndDate \/ Harvest!Signal
BY DEF ItemDone, Harvest!Next, Harvest!Step, Harvest!Faults, RunBreaks, Harvest!FetchFails,
       Harvest!FetchKilled

LEMMA SettledStays ==
    ASSUME Harvest!HarvesterAssumption, HarvTyped, [Harvest!Next]_(Harvest!vars)
    PROVE  \A a \in HarvestArticle : Harvest!Settled(a) => Harvest!Settled(a)'
<1>1. noted \in [HarvestArticle -> Nat]
  BY DEF HarvTyped, Harvest!TypeOK
<1>2. /\ harvestErrors \subseteq harvestErrors'
      /\ \A a \in HarvestArticle : noted'[a] = noted[a] \/ noted'[a] = noted[a] + 1
  <2>1. CASE \E a \in HarvestArticle : ItemDone(a)
    BY <1>1, <2>1 DEF ItemDone, Harvest!CreateNote, Harvest!ConversionError,
           Harvest!DatabaseError
  <2>2. CASE RunBreaks
    BY <2>2, BreaksForms
  <2>3. CASE \/ Harvest!Tick \/ Harvest!ToggleStatus \/ Harvest!StartRun \/ Harvest!Fetch
             \/ Harvest!RetryFetch \/ Harvest!Select \/ Harvest!EndCreate
             \/ Harvest!BreakOff \/ Harvest!ScrollerError \/ Harvest!CleanIndex
             \/ Harvest!SaveEndDate \/ Harvest!Signal
             \/ UNCHANGED Harvest!vars
    BY <2>3 DEF Harvest!Tick, Harvest!ToggleStatus, Harvest!StartRun, Harvest!Fetch,
           Harvest!RetryFetch, Harvest!Select, Harvest!EndCreate, Harvest!BreakOff,
           Harvest!ScrollerError, Harvest!CleanIndex, Harvest!SaveEndDate, Harvest!Signal,
           Harvest!data, Harvest!vars
  <2> QED BY <2>1, <2>2, <2>3, HarvNextCases
<1>3. ASSUME NEW a \in HarvestArticle, Harvest!Settled(a) PROVE Harvest!Settled(a)'
  <2>1. noted[a] \in Nat
    BY <1>1
  <2> QED BY <1>2, <1>3, <2>1 DEF Harvest!Settled
<1> QED BY <1>3

-----------------------------------------------------------------------------
(* The end date.                                                           *)

LEMMA DealtStep ==
    ASSUME Harvest!HarvesterAssumption, HarvTyped, DealtInv, [Harvest!Next]_(Harvest!vars)
    PROVE  DealtInv'
<1>t. /\ provider \in Harvest!Record /\ mem \in Harvest!Record /\ until \in Int
      /\ index \in SUBSET HarvestArticle /\ todo \in SUBSET index
      /\ processed \in SUBSET HarvestArticle
      /\ noted \in [HarvestArticle -> Nat] /\ HarvestPublished \in [HarvestArticle -> Nat]
      /\ HarvestWanted \subseteq HarvestArticle
  BY DEF HarvTyped, Harvest!TypeOK, Harvest!HarvesterAssumption
<1>s. \A a \in HarvestArticle : Harvest!Settled(a) => Harvest!Settled(a)'
  BY SettledStays
<1>1. CASE UNCHANGED Harvest!vars
  BY <1>1 DEF Harvest!vars, Harvest!world, Harvest!data, Harvest!local, DealtInv,
         Harvest!BeforeEndDateDealtWith, Harvest!Settled, Harvest!AskedFor
\* While the end date remains, what was dealt with before it remains so.
<1>2. ASSUME provider'.endDate = provider.endDate, leftover \subseteq leftover'
      PROVE  Harvest!BeforeEndDateDealtWith'
  BY <1>t, <1>s, <1>2 DEF DealtInv, Harvest!BeforeEndDateDealtWith
\* Steps that change nothing of what is asked for, processed or left over.
<1>3. CASE Harvest!Tick \/ Harvest!ToggleStatus \/ Harvest!Signal
  <2>1. /\ provider'.endDate = provider.endDate
        /\ UNCHANGED <<index, noted, harvestErrors, harvestPc, mem, until, received, todo,
               processed, dbError, allOk>>
        /\ leftover' = leftover
    BY <1>t, <1>3 DEF Harvest!Tick, Harvest!ToggleStatus, Harvest!Signal, Harvest!world,
           Harvest!data, Harvest!local, Harvest!Record
  <2>2. Harvest!BeforeEndDateDealtWith'
    BY <1>2, <2>1
  <2>3. Harvest!AskedFor' = Harvest!AskedFor
            /\ \A a : Harvest!Settled(a)' <=> Harvest!Settled(a)
    BY <2>1 DEF Harvest!AskedFor, Harvest!Settled
  <2> QED BY <2>1, <2>2, <2>3 DEF DealtInv
<1>4. CASE Harvest!StartRun \/ Harvest!RetryFetch
  <2>1. provider' = provider /\ harvestPc' = "fetch" /\ mem'.endDate = provider'.endDate
    BY <1>4 DEF Harvest!StartRun, Harvest!RetryFetch, DealtInv, Harvest!world, Harvest!local
  <2>1a. UNCHANGED <<noted, harvestErrors, leftover, processed>>
    BY <1>4 DEF Harvest!StartRun, Harvest!RetryFetch, Harvest!data, Harvest!local
  <2>2. Harvest!BeforeEndDateDealtWith'
    BY <1>2, <2>1, <2>1a
  <2> QED BY <2>1, <2>1a, <2>2 DEF DealtInv, Harvest!Settled
<1>5. CASE Harvest!Fetch
  <2>1. /\ UNCHANGED <<provider, mem, until, noted, harvestErrors, leftover, processed>>
        /\ harvestPc' = "select" /\ index' = index \cup Harvest!AskedFor
        /\ received' = (Harvest!AskedFor # {})
    BY <1>5 DEF Harvest!Fetch, Harvest!world
  <2>2. Harvest!AskedFor' = Harvest!AskedFor
    BY <2>1 DEF Harvest!AskedFor
  <2>3. Harvest!BeforeEndDateDealtWith'
    BY <1>2, <2>1
  <2> QED BY <2>1, <2>2, <2>3 DEF DealtInv, Harvest!Settled
<1>6. CASE RunBreaks
  <2>1. /\ provider' = provider /\ leftover' = leftover /\ harvestPc' = "idle"
        /\ mem' = provider' /\ processed' = {}
    BY <1>6, BreaksForms
  <2>2. Harvest!BeforeEndDateDealtWith'
    BY <1>2, <2>1
  <2> QED BY <2>1, <2>2 DEF DealtInv
<1>7. CASE Harvest!Select
  <2>1. /\ UNCHANGED <<provider, mem, until, index, noted, harvestErrors, leftover, processed>>
        /\ harvestPc = "select" /\ harvestPc' = "create"
        /\ todo' = IF received THEN index \cap HarvestWanted ELSE {}
    BY <1>7 DEF Harvest!Select, Harvest!world, Harvest!data
  <2>2. Harvest!AskedFor' = Harvest!AskedFor
    BY <2>1 DEF Harvest!AskedFor
  <2>3. Harvest!BeforeEndDateDealtWith'
    BY <1>2, <2>1
  <2>4. \A a \in Harvest!AskedFor \cap HarvestWanted : a \in index /\ a \in todo'
    BY <2>1 DEF DealtInv
  <2> QED BY <2>1, <2>2, <2>3, <2>4 DEF DealtInv, Harvest!Settled
<1>8. ASSUME NEW a \in HarvestArticle, ItemDone(a) PROVE DealtInv'
  <2>1. /\ UNCHANGED <<provider, mem, until, index, leftover>>
        /\ harvestPc = "create" /\ harvestPc' = "create" /\ todo' = todo \ {a}
    BY <1>8 DEF ItemDone, Harvest!CreateNote, Harvest!ConversionError, Harvest!DatabaseError,
           Harvest!Take, Harvest!world
  <2>2. Harvest!AskedFor' = Harvest!AskedFor
    BY <2>1 DEF Harvest!AskedFor
  <2>3. Harvest!BeforeEndDateDealtWith'
    BY <1>2, <2>1
  <2>4. \/ processed' = processed \cup {a} /\ Harvest!Settled(a)' /\ dbError' = dbError
        \/ processed' = processed /\ dbError'
    BY <1>t, <1>8 DEF ItemDone, Harvest!CreateNote, Harvest!ConversionError,
           Harvest!DatabaseError, Harvest!Settled
  <2>5. \A b \in processed' : Harvest!Settled(b)'
    BY <1>t, <1>s, <2>4 DEF DealtInv
  <2>6. \A b \in Harvest!AskedFor \cap HarvestWanted : b \in index'
            /\ (b \in todo' \cup processed' \/ dbError')
    BY <2>1, <2>4 DEF DealtInv
  <2> QED BY <2>1, <2>2, <2>3, <2>5, <2>6 DEF DealtInv
<1>9. CASE Harvest!EndCreate \/ Harvest!BreakOff \/ Harvest!ScrollerError
  <2>1. /\ UNCHANGED <<provider, mem, until, index, noted, harvestErrors, leftover, processed>>
        /\ harvestPc = "create" /\ harvestPc' = "clean"
        /\ ~allOk' \/ (todo = {} /\ ~dbError)
    BY <1>9 DEF Harvest!EndCreate, Harvest!BreakOff, Harvest!ScrollerError, Harvest!world,
           Harvest!data, Harvest!local
  <2>2. Harvest!AskedFor' = Harvest!AskedFor
    BY <2>1 DEF Harvest!AskedFor
  <2>3. Harvest!BeforeEndDateDealtWith'
    BY <1>2, <2>1
  <2>4. \A a \in Harvest!AskedFor \cap HarvestWanted : a \in processed
            \/ (~allOk' /\ a \in index)
    BY <2>1 DEF DealtInv
  <2> QED BY <2>1, <2>2, <2>3, <2>4 DEF DealtInv, Harvest!Settled
<1>10. CASE Harvest!CleanIndex
  <2>1. /\ UNCHANGED <<provider, mem, until, noted, harvestErrors, processed>>
        /\ harvestPc = "clean" /\ harvestPc' = "save"
        /\ leftover' = leftover \cup (IF allOk THEN {} ELSE (index \cap HarvestWanted) \ processed)
    BY <1>10 DEF Harvest!CleanIndex, Harvest!world, Harvest!local
  <2>2. Harvest!AskedFor' = Harvest!AskedFor
    BY <2>1 DEF Harvest!AskedFor
  <2>3. Harvest!BeforeEndDateDealtWith'
    BY <1>2, <2>1
  <2>4. \A a \in Harvest!AskedFor \cap HarvestWanted : Harvest!Settled(a) \/ a \in leftover'
    BY <2>1 DEF DealtInv
  <2> QED BY <2>1, <2>2, <2>3, <2>4 DEF DealtInv, Harvest!Settled
\* The new end date: what is older was dealt with before, or asked for in this run.
<1>11. CASE Harvest!SaveEndDate
  <2>1. /\ UNCHANGED <<noted, harvestErrors, leftover>> /\ harvestPc = "save"
        /\ provider' = [mem EXCEPT !.endDate = until]
        /\ harvestPc' = "idle" /\ mem' = provider' /\ processed' = {}
    BY <1>11 DEF Harvest!SaveEndDate, Harvest!Ended, Harvest!data
  <2>2. provider'.endDate = until
    BY <1>t, <2>1 DEF Harvest!Record
  <2>3. ASSUME NEW a \in HarvestWanted \ leftover,
            HarvestPublished[a] \in 1 - HarvestWait .. until - 1
        PROVE  Harvest!Settled(a)
    <3>1. CASE a \in Harvest!AskedFor
      BY <2>1, <2>3, <3>1 DEF DealtInv
    <3>2. CASE a \notin Harvest!AskedFor
      <4>1. HarvestPublished[a] < provider.endDate
        <5>1. /\ provider.endDate \in Int /\ mem.endDate = provider.endDate
              /\ HarvestPublished[a] \in Nat
              /\ a \in HarvestArticle
          BY <1>t DEF DealtInv, Harvest!Record
        <5>2. ~(mem.endDate <= HarvestPublished[a] /\ HarvestPublished[a] < until)
          BY <3>2, <5>1 DEF Harvest!AskedFor
        <5> QED BY <1>t, <2>3, <5>1, <5>2
      <4>2. HarvestPublished[a] \in 1 - HarvestWait .. provider.endDate - 1
        <5>1. provider.endDate \in Int /\ HarvestPublished[a] \in Nat /\ HarvestWait \in Nat
          BY <1>t DEF Harvest!Record, Harvest!HarvesterAssumption
        <5> QED BY <1>t, <2>3, <4>1, <5>1
      <4> QED BY <2>3, <4>2 DEF DealtInv, Harvest!BeforeEndDateDealtWith
    <3> QED BY <3>1, <3>2
  <2>4. Harvest!BeforeEndDateDealtWith'
    BY <2>1, <2>2, <2>3 DEF Harvest!BeforeEndDateDealtWith, Harvest!Settled
  <2> QED BY <2>1, <2>4 DEF DealtInv
<1> QED BY <1>1, <1>3, <1>4, <1>5, <1>6, <1>7, <1>8, <1>9, <1>10, <1>11, HarvNextCases

LEMMA DealtInit == ASSUME Harvest!HarvesterAssumption, Harvest!Init PROVE DealtInv
<1>1. 1 - HarvestWait .. provider.endDate - 1 = {}
  BY DEF Harvest!Init, Harvest!HarvesterAssumption
<1> QED BY <1>1 DEF Harvest!Init, DealtInv, Harvest!BeforeEndDateDealtWith

-----------------------------------------------------------------------------
(* Noted once.                                                             *)

LEMMA MinusMonotone ==
    ASSUME NEW x \in Nat, NEW y \in Nat, NEW w \in Nat, NEW p \in Nat, x <= y
    PROVE  x - w - p \in Int /\ y - w - p \in Int /\ x - w - p <= y - w - p
OBVIOUS

LEMMA BoundedStep ==
    ASSUME Harvest!HarvesterAssumption, HarvTyped, DealtInv, HarvBounded,
        [Harvest!Next]_(Harvest!vars)
    PROVE  HarvBounded'
<1>t. /\ today \in Nat /\ provider \in Harvest!Record /\ until \in Int
      /\ index \in SUBSET HarvestArticle /\ todo \in SUBSET index
      /\ processed \in SUBSET HarvestArticle
      /\ HarvestPublished \in [HarvestArticle -> Nat] /\ HarvestWait \in Nat
      /\ HarvestPeriod \in Nat
      /\ harvestPc = "idle" => processed = {}
      /\ mem.endDate = provider.endDate
      /\ provider.endDate \in Int
  BY DEF HarvTyped, Harvest!TypeOK, Harvest!HarvesterAssumption, DealtInv, Harvest!Record
<1>u. today' = today => Harvest!UntilDate' = Harvest!UntilDate
  BY DEF Harvest!UntilDate
<1>1. CASE UNCHANGED Harvest!vars
  BY <1>1, <1>u DEF Harvest!vars, Harvest!world, Harvest!data, Harvest!local, HarvBounded
<1>2. CASE Harvest!Tick
  <2>1. /\ UNCHANGED <<provider, index, harvestPc, until, processed>>
        /\ today' \in Nat /\ today <= today'
    BY <1>t, <1>2 DEF Harvest!Tick, Harvest!data, Harvest!local
  <2>2. Harvest!UntilDate \in Int /\ Harvest!UntilDate' \in Int
            /\ Harvest!UntilDate <= Harvest!UntilDate'
    <3>1. today \in Nat /\ today' \in Nat /\ today <= today' /\ HarvestWait \in Nat
              /\ HarvestPeriod \in Nat
      BY <1>t, <2>1
    <3>2. Harvest!UntilDate = today - HarvestWait - HarvestPeriod
      BY DEF Harvest!UntilDate
    <3>3. Harvest!UntilDate' = today' - HarvestWait - HarvestPeriod
      BY DEF Harvest!UntilDate
    <3> QED BY <3>1, <3>2, <3>3, MinusMonotone
  <2>3. \A a \in HarvestArticle : HarvestPublished[a] \in Nat
    BY <1>t
  <2> QED BY <1>t, <2>1, <2>2, <2>3 DEF HarvBounded
<1>3. CASE Harvest!ToggleStatus
  <2>1. /\ provider'.endDate = provider.endDate
        /\ UNCHANGED <<today, index, harvestPc, until, processed>>
    BY <1>t, <1>3 DEF Harvest!ToggleStatus, Harvest!data, Harvest!local, Harvest!Record
  <2> QED BY <1>u, <2>1 DEF HarvBounded
<1>4. CASE Harvest!StartRun
  <2>1. /\ UNCHANGED <<today, provider, index, processed>> /\ harvestPc = "idle"
        /\ harvestPc' = "fetch"
        /\ until' = Harvest!UntilDate /\ provider.endDate < Harvest!UntilDate
    BY <1>4 DEF Harvest!StartRun, Harvest!world, Harvest!data
  <2>2. Harvest!UntilDate \in Int
    BY <1>t DEF Harvest!UntilDate
  <2> QED BY <1>t, <1>u, <2>1, <2>2 DEF HarvBounded
<1>5. CASE Harvest!Fetch
  <2>1. /\ UNCHANGED <<today, provider, until, processed>> /\ harvestPc # "idle"
        /\ harvestPc' # "idle"
        /\ index' = index \cup Harvest!AskedFor
    BY <1>5 DEF Harvest!Fetch, Harvest!world
  <2>2. \A a \in Harvest!AskedFor : HarvestPublished[a] < until
    BY DEF Harvest!AskedFor
  <2> QED BY <1>u, <2>1, <2>2 DEF HarvBounded
<1>6. CASE RunBreaks
  <2>1. /\ UNCHANGED today /\ harvestPc # "idle" /\ harvestPc' = "idle"
        /\ index' \subseteq index
    BY <1>6, BreaksForms
  <2>2. Harvest!UntilDate \in Int /\ \A a \in HarvestArticle : HarvestPublished[a] \in Nat
    BY <1>t DEF Harvest!UntilDate
  <2>3. \A a \in index : HarvestPublished[a] < Harvest!UntilDate
    BY <1>t, <2>1, <2>2 DEF HarvBounded
  <2> QED BY <1>u, <2>1, <2>3 DEF HarvBounded
<1>7. CASE Harvest!RetryFetch \/ Harvest!Select \/ Harvest!EndCreate \/ Harvest!BreakOff
          \/ Harvest!ScrollerError \/ Harvest!CleanIndex \/ Harvest!Signal
  <2>1. UNCHANGED <<today, provider, until>>
    BY <1>7 DEF Harvest!RetryFetch, Harvest!Select, Harvest!EndCreate, Harvest!BreakOff,
           Harvest!ScrollerError, Harvest!CleanIndex, Harvest!Signal, Harvest!world,
           Harvest!local
  <2>2. /\ UNCHANGED processed /\ harvestPc # "idle" /\ harvestPc' # "idle"
        /\ index' \subseteq index
    BY <1>7 DEF Harvest!RetryFetch, Harvest!Select, Harvest!EndCreate, Harvest!BreakOff,
           Harvest!ScrollerError, Harvest!CleanIndex, Harvest!Signal, Harvest!data, Harvest!local
  <2> QED BY <1>u, <2>1, <2>2 DEF HarvBounded
<1>8. ASSUME NEW a \in HarvestArticle, ItemDone(a)
      PROVE  HarvBounded'
  <2>1. /\ UNCHANGED <<today, provider, until, index>> /\ harvestPc # "idle"
        /\ harvestPc' # "idle"
        /\ a \in index /\ processed' \subseteq processed \cup {a}
    BY <1>t, <1>8 DEF ItemDone, Harvest!CreateNote, Harvest!ConversionError,
           Harvest!DatabaseError, Harvest!Take, Harvest!world
  <2> QED BY <1>u, <2>1 DEF HarvBounded
<1>9. CASE Harvest!SaveEndDate
  <2>1. UNCHANGED <<today, index>> /\ harvestPc # "idle" /\ harvestPc' = "idle"
    BY <1>9 DEF Harvest!SaveEndDate, Harvest!Ended, Harvest!data
  <2>2. Harvest!UntilDate \in Int /\ \A a \in HarvestArticle : HarvestPublished[a] \in Nat
    BY <1>t DEF Harvest!UntilDate
  <2>3. \A a \in index : HarvestPublished[a] < Harvest!UntilDate
    BY <1>t, <2>1, <2>2 DEF HarvBounded
  <2> QED BY <1>u, <2>1, <2>3 DEF HarvBounded
<1> QED BY <1>1, <1>2, <1>3, <1>4, <1>5, <1>6, <1>7, <1>8, <1>9, HarvNextCases

LEMMA HarvOnceStep ==
    ASSUME Harvest!HarvesterAssumption, HarvTyped, DealtInv, HarvBounded, HarvOnceInv,
        [Harvest!Next]_(Harvest!vars)
    PROVE  HarvOnceInv'
<1>t. /\ until \in Int /\ provider.endDate \in Int /\ mem.endDate = provider.endDate
      /\ index \in SUBSET HarvestArticle /\ todo \in SUBSET index
      /\ processed \in SUBSET HarvestArticle
      /\ noted \in [HarvestArticle -> Nat] /\ HarvestPublished \in [HarvestArticle -> Nat]
      /\ harvestPc = "idle" => processed = {}
      /\ harvestPc # "create" => todo = {}
      /\ mem \in Harvest!Record
  BY DEF HarvTyped, Harvest!TypeOK, Harvest!HarvesterAssumption, DealtInv, Harvest!Record
<1>p. \A a \in HarvestArticle : HarvestPublished[a] \in Nat /\ noted[a] \in Nat
  BY <1>t
<1>1. CASE UNCHANGED Harvest!vars
  BY <1>1 DEF Harvest!vars, Harvest!world, Harvest!data, Harvest!local, HarvOnceInv
\* What was noted stays as it was while the index only shrinks.
<1>2. CASE \/ Harvest!Tick \/ Harvest!ToggleStatus \/ Harvest!StartRun
           \/ Harvest!RetryFetch \/ Harvest!Select \/ Harvest!EndCreate \/ Harvest!BreakOff
           \/ Harvest!ScrollerError \/ Harvest!CleanIndex \/ Harvest!Signal
  <2>1. UNCHANGED <<noted, processed, repeated>> /\ provider'.endDate = provider.endDate
    BY <1>2, <1>t DEF Harvest!Tick, Harvest!ToggleStatus, Harvest!StartRun, Harvest!RetryFetch,
           Harvest!Select, Harvest!EndCreate, Harvest!BreakOff, Harvest!ScrollerError,
           Harvest!CleanIndex, Harvest!Signal, Harvest!world, Harvest!data, Harvest!local,
           HarvTyped, Harvest!TypeOK, Harvest!Record
  <2>2. index' \subseteq index /\ (harvestPc' = "save" =>
            harvestPc = "save" \/ index' \cap processed = {})
    BY <1>2 DEF Harvest!Tick, Harvest!ToggleStatus, Harvest!StartRun, Harvest!RetryFetch,
           Harvest!Select, Harvest!EndCreate, Harvest!BreakOff, Harvest!ScrollerError,
           Harvest!CleanIndex, Harvest!Signal, Harvest!data, Harvest!local
  <2>3. harvestPc' \in {"fetch", "select"} =>
            harvestPc \in {"fetch", "select"} \/ harvestPc = "idle"
    BY <1>2 DEF Harvest!Tick, Harvest!ToggleStatus, Harvest!StartRun, Harvest!RetryFetch,
           Harvest!Select, Harvest!EndCreate, Harvest!BreakOff, Harvest!ScrollerError,
           Harvest!CleanIndex, Harvest!Signal, Harvest!data, Harvest!local
  <2>4. todo' = todo \/ todo' = {} \/ harvestPc = "select"
    BY <1>2 DEF Harvest!Tick, Harvest!ToggleStatus, Harvest!StartRun, Harvest!RetryFetch,
           Harvest!Select, Harvest!EndCreate, Harvest!BreakOff, Harvest!ScrollerError,
           Harvest!CleanIndex, Harvest!Signal, Harvest!data, Harvest!local
  <2>5. todo' \cap processed' = {}
    BY <2>1, <2>4 DEF HarvOnceInv
  <2> QED BY <1>t, <2>1, <2>2, <2>3, <2>5 DEF HarvOnceInv
<1>3. CASE Harvest!Fetch
  <2>1. /\ UNCHANGED <<provider, noted, processed, todo, repeated>>
        /\ harvestPc = "fetch" /\ harvestPc' = "select" /\ index' = index \cup Harvest!AskedFor
    BY <1>3 DEF Harvest!Fetch, Harvest!world
  <2>2. \A a \in Harvest!AskedFor : ~(HarvestPublished[a] < provider.endDate)
    BY <1>t, <1>p DEF Harvest!AskedFor
  <2>3. \A a \in HarvestArticle \ repeated : noted[a] > 0 =>
            a \notin index' /\ HarvestPublished[a] < provider.endDate
    BY <2>1, <2>2 DEF HarvOnceInv
  <2> QED BY <2>1, <2>3 DEF HarvOnceInv
<1>4. CASE RunBreaks
  <2>1. /\ UNCHANGED <<provider, noted>> /\ index' \subseteq index
        /\ harvestPc' = "idle" /\ todo' = {} /\ processed' = {}
        /\ repeated' = repeated \cup processed
    BY <1>4, BreaksForms
  <2> QED BY <2>1 DEF HarvOnceInv
<1>5. ASSUME NEW a \in HarvestArticle, Harvest!CreateNote(a) PROVE HarvOnceInv'
  <2>1. /\ UNCHANGED <<provider, index, harvestPc, repeated>> /\ harvestPc = "create"
        /\ a \in todo
        /\ todo' = todo \ {a} /\ processed' = processed \cup {a}
        /\ noted' = [noted EXCEPT ![a] = @ + 1]
    BY <1>5 DEF Harvest!CreateNote, Harvest!Take, Harvest!world
  <2>2. a \notin repeated => noted[a] = 0
    BY <1>t, <1>p, <2>1 DEF HarvOnceInv
  <2>3. noted'[a] = noted[a] + 1 /\ \A b \in HarvestArticle \ {a} : noted'[b] = noted[b]
    BY <1>t, <2>1
  <2> QED BY <1>p, <2>1, <2>2, <2>3 DEF HarvOnceInv
<1>6. ASSUME NEW a \in HarvestArticle, Harvest!ConversionError(a) \/ Harvest!DatabaseError(a)
      PROVE  HarvOnceInv'
  <2>1. /\ UNCHANGED <<provider, index, noted, repeated, harvestPc>> /\ harvestPc = "create"
        /\ todo' = todo \ {a}
        /\ processed' = processed \/ processed' = processed \cup {a}
    BY <1>6 DEF Harvest!ConversionError, Harvest!DatabaseError, Harvest!Take, Harvest!world
  <2> QED BY <2>1 DEF HarvOnceInv
<1>7. CASE Harvest!SaveEndDate
  <2>1. /\ UNCHANGED <<index, noted, repeated>> /\ harvestPc = "save" /\ harvestPc' = "idle"
        /\ provider' = [mem EXCEPT !.endDate = until] /\ todo' = {} /\ processed' = {}
    BY <1>7 DEF Harvest!SaveEndDate, Harvest!Ended, Harvest!data
  <2>2. provider'.endDate = until
    BY <1>t, <2>1 DEF Harvest!Record
  <2>3. \A a \in HarvestArticle \ repeated : noted[a] > 0 =>
            a \notin index /\ HarvestPublished[a] < until
    BY <1>t, <1>p, <2>1 DEF HarvOnceInv, HarvBounded
  <2> QED BY <2>1, <2>2, <2>3 DEF HarvOnceInv
<1> QED BY <1>1, <1>2, <1>3, <1>4, <1>5, <1>6, <1>7, HarvNextCases DEF ItemDone

-----------------------------------------------------------------------------
(* The theorems.                                                           *)

HarvInv == HarvTyped /\ DealtInv /\ HarvBounded /\ HarvOnceInv

LEMMA HarvKept == ASSUME Harvest!HarvesterAssumption PROVE Harvest!Spec => []HarvInv
<1>1. Harvest!Init => HarvInv
  <2> SUFFICES ASSUME Harvest!Init PROVE HarvBounded /\ HarvOnceInv
    BY HarvTypedInit, DealtInit DEF HarvInv
  <2> QED BY DEF Harvest!Init, HarvBounded, HarvOnceInv
<1>2. HarvInv /\ [Harvest!Next]_(Harvest!vars) => HarvInv'
  BY HarvTypedStep, DealtStep, BoundedStep, HarvOnceStep DEF HarvInv
<1> QED BY <1>1, <1>2, PTL DEF Harvest!Spec

\* The variables keep their types, the scroller holds only what is in the index, and
\* between two runs nothing is processed and no signal remembered.
THEOREM HarvesterTypes == ASSUME Harvest!HarvesterAssumption
    PROVE  Harvest!Spec => []Harvest!TypeOK
<1>1. HarvInv => Harvest!TypeOK
  BY DEF HarvInv, HarvTyped
<1> QED BY <1>1, HarvKept, PTL

\* harvest_all_providers: whatever fails and whenever the program is stopped, the end
\* date is moved on only over articles that were noted, or counted as errors, or that
\* a run broken off left over.
THEOREM EndDateTrue == ASSUME Harvest!HarvesterAssumption
    PROVE  Harvest!Spec => []Harvest!BeforeEndDateDealtWith
<1>1. HarvInv => Harvest!BeforeEndDateDealtWith
  BY DEF HarvInv, DealtInv
<1> QED BY <1>1, HarvKept, PTL

\* create_unrouted_notifications: what is kept in the index for another run is never
\* what was noted, so that only a run that could not record what it did repeats it.
THEOREM NotedOnlyOnce == ASSUME Harvest!HarvesterAssumption
    PROVE  Harvest!Spec => []Harvest!NotedOnce
<1>1. HarvInv => Harvest!NotedOnce
  BY DEF HarvInv, HarvOnceInv, Harvest!NotedOnce
<1> QED BY <1>1, HarvKept, PTL

-----------------------------------------------------------------------------
(* The engines of the Harvester (HarvesterEngines), for any list, changes  *)
(* of it and failures.  Those with a cursor have what comes up to it, and  *)
(* each article once; those that count have what has a place up to the end *)
(* of the page, as long as the list does not move in the wrong direction.  *)

\* The component's cardinality is that of the theorems.
LEMMA SameCount == ASSUME NEW S PROVE Engine!Cardinality(S) = Cardinality(S)
BY DEF Engine!Cardinality, Cardinality

\* Sets of articles

LEMMA ArticleSets ==
    ASSUME Engine!HarvesterEnginesAssumption, NEW S \in SUBSET Engine!Article
    PROVE  /\ IsFiniteSet(S) /\ Engine!Cardinality(S) \in Nat
           /\ S = {} <=> Engine!Cardinality(S) = 0
           /\ \A T \in SUBSET S : /\ Engine!Cardinality(T) <= Engine!Cardinality(S)
                                  /\ T # S => Engine!Cardinality(T) < Engine!Cardinality(S)
<1>1. IsFiniteSet(Engine!Article)
  BY FS_Interval, SameCount DEF Engine!Article, Engine!HarvesterEnginesAssumption
<1>2. IsFiniteSet(S)
  BY <1>1, FS_Subset, SameCount
<1>3. Engine!Cardinality(S) \in Nat
  BY <1>2, FS_CardinalityType, SameCount
<1>4. ASSUME NEW T \in SUBSET S
      PROVE  Engine!Cardinality(T) <= Engine!Cardinality(S)
             /\ (T # S => Engine!Cardinality(T) < Engine!Cardinality(S))
  <2>1. IsFiniteSet(T) /\ Engine!Cardinality(T) <= Engine!Cardinality(S)
        /\ (Engine!Cardinality(S) = Engine!Cardinality(T) => S = T)
    BY <1>2, FS_Subset, SameCount
  <2>2. Engine!Cardinality(T) \in Nat
    BY <2>1, FS_CardinalityType, SameCount
  <2> QED BY <1>3, <2>1, <2>2
<1> QED BY <1>2, <1>3, <1>4, FS_EmptySet, SameCount

LEMMA LeastNatural ==
    ASSUME NEW T, T \subseteq Nat, T # {} PROVE \E k \in T : \A i \in T : k <= i
<1> DEFINE R == OpToRel(<, Nat)
<1>1. IsWellFoundedOn(R, Nat)
  BY NatLessThanWellFounded, Zenon
<1>2. \A x, y \in Nat : <<y, x>> \in R <=> y < x
  BY DEF OpToRel
<1> HIDE DEF R
<1>3. PICK x \in T : \A y \in T : ~(<<y, x>> \in R)
  BY <1>1, WFMin
<1>4. ASSUME NEW y \in T PROVE x <= y
  <2>1. x \in Nat /\ y \in Nat
    OBVIOUS
  <2>2. ~(<<y, x>> \in R)
    BY <1>3
  <2>3. ~(y < x)
    BY <1>2, <2>1, <2>2, Zenon
  <2> QED BY <2>1, <2>3
<1> QED BY <1>4

\* The first and the last article of a set
LEMMA Ends ==
    ASSUME Engine!HarvesterEnginesAssumption, NEW S \in SUBSET Engine!Article, S # {}
    PROVE  /\ Engine!Min(S) \in S /\ \A a \in S : Engine!Min(S) <= a
           /\ Engine!Max(S) \in S /\ \A a \in S : a <= Engine!Max(S)
<1>1. S \subseteq Nat /\ \A a \in S : a <= EngineLast
  BY DEF Engine!Article, Engine!HarvesterEnginesAssumption
<1>2. \E k \in S : \A a \in S : k <= a
  BY <1>1, LeastNatural
<1>3. \E k \in S : \A a \in S : k >= a
  <2> DEFINE B == {k \in Nat : \A a \in S : a <= k}
  <2>1. EngineLast \in B
    BY <1>1 DEF Engine!HarvesterEnginesAssumption
  <2>2. B \subseteq Nat
    OBVIOUS
  <2>3. PICK m \in B : \A k \in B : m <= k
    BY <2>1, <2>2, LeastNatural
  <2>4. CASE m \in S
    BY <1>1, <2>3, <2>4
  <2>5. CASE m \notin S
    <3>1. \A a \in S : a <= m - 1
      BY <1>1, <2>5
    <3>2. PICK a \in S : TRUE
      OBVIOUS
    <3>3. m - 1 \in Nat
      BY <1>1, <3>1, <3>2
    <3>4. m - 1 \in B
      BY <3>1, <3>3
    <3> QED BY <2>3, <3>4
  <2> QED BY <2>4, <2>5
<1> QED BY <1>2, <1>3 DEF Engine!Min, Engine!Max

\* What is in a set after a place, and up to it
After(S, p) == {a \in S : a > p}
UpTo(S, p) == {a \in S : a <= p}

LEMMA Split ==
    ASSUME Engine!HarvesterEnginesAssumption, NEW S \in SUBSET Engine!Article, NEW p \in Nat
    PROVE  Engine!Cardinality(UpTo(S, p)) + Engine!Cardinality(After(S, p)) =
           Engine!Cardinality(S)
<1>1. S \subseteq Nat
  BY DEF Engine!Article
<1>2. UpTo(S, p) \cup After(S, p) = S /\ UpTo(S, p) \cap After(S, p) = {}
  <2>1. \A a \in S : (a <= p \/ a > p) /\ ~ (a <= p /\ a > p)
    BY <1>1
  <2> QED BY <2>1, Zenon DEF UpTo, After
<1>3. /\ UpTo(S, p) \in SUBSET Engine!Article /\ After(S, p) \in SUBSET Engine!Article
  BY DEF UpTo, After
<1>4. /\ IsFiniteSet(UpTo(S, p)) /\ IsFiniteSet(After(S, p))
      /\ Engine!Cardinality(UpTo(S, p)) \in Nat /\ Engine!Cardinality(After(S, p)) \in Nat
  BY <1>3, ArticleSets
<1>5. Engine!Cardinality({}) = 0
  BY FS_EmptySet, SameCount
<1> HIDE DEF UpTo, After
<1>6. Engine!Cardinality(S) =
      Engine!Cardinality(UpTo(S, p)) + Engine!Cardinality(After(S, p)) - 0
  BY <1>2, <1>4, <1>5, FS_Union, SameCount
<1> QED BY <1>4, <1>6

-----------------------------------------------------------------------------
\* Pages

\* The page after a cursor is the beginning of what comes after it.
LEMMA PageByCursor ==
    ASSUME Engine!HarvesterEnginesAssumption, Engine!TypeOK, Engine!ByCursor
    PROVE  /\ Engine!Given \subseteq After(engineList, at)
           /\ Engine!Given = {} => After(engineList, at) = {}
           /\ \A a \in After(engineList, at), g \in Engine!Given : a < g =>
                 a \in Engine!Given
<1> DEFINE R == After(engineList, at)
           Upto(a) == {b \in R : b <= a}
<1>1. R \in SUBSET Engine!Article /\ R \subseteq Nat
  <2>1. engineList \in SUBSET Engine!Article /\ R \subseteq engineList
    BY DEF Engine!TypeOK, After
  <2>2. Engine!Article \subseteq Nat
    BY DEF Engine!Article
  <2> QED BY <2>1, <2>2
<1>2. Engine!Given = {a \in R : Engine!Cardinality(Upto(a)) <= EnginePageSize}
  BY DEF Engine!Given, Engine!First, After
<1>3. \A a \in R : Upto(a) \in SUBSET Engine!Article
  BY <1>1
<1>4. Engine!Given = {} => R = {}
  <2> SUFFICES ASSUME R # {} PROVE Engine!Given # {}
    OBVIOUS
  <2>1. PICK m \in R : \A a \in R : m <= a
    BY <1>1, LeastNatural
  <2>2. Upto(m) = {m}
    BY <1>1, <2>1
  <2>3. Engine!Cardinality(Upto(m)) = 1
    BY <2>2, FS_Singleton, SameCount
  <2> QED BY <1>2, <2>3 DEF Engine!HarvesterEnginesAssumption
<1>5. ASSUME NEW a \in R, NEW g \in Engine!Given, a < g PROVE a \in Engine!Given
  <2>1. g \in R /\ Engine!Cardinality(Upto(g)) <= EnginePageSize
    BY <1>2
  <2>2. Upto(a) \subseteq Upto(g)
    BY <1>1, <1>5, <2>1
  <2>3. Upto(a) \in SUBSET Engine!Article /\ Upto(g) \in SUBSET Engine!Article
    BY <1>3, <2>1
  <2>4. Engine!Cardinality(Upto(a)) <= Engine!Cardinality(Upto(g))
        /\ Engine!Cardinality(Upto(a)) \in Nat
        /\ Engine!Cardinality(Upto(g)) \in Nat
    <3> HIDE DEF Upto
    <3> QED BY <2>2, <2>3, ArticleSets
  <2> QED BY <1>2, <2>1, <2>4 DEF Engine!HarvesterEnginesAssumption
<1> QED BY <1>2, <1>4, <1>5

\* The next page begins where this one ends.
LEMMA NextByCursor ==
    ASSUME Engine!HarvesterEnginesAssumption, Engine!TypeOK, Engine!ByCursor,
           Engine!Given # {}
    PROVE  LET m == Engine!Max(Engine!Given)
           IN /\ Engine!Given \in SUBSET engineList /\ m \in Engine!Given /\ m > at
              /\ \A a \in engineList : a \in Engine!Given <=> at < a /\ a <= m
              /\ Engine!Cardinality(Engine!Given) + Engine!Cardinality(After(engineList, m))
                    = Engine!Cardinality(After(engineList, at))
              /\ Engine!Cardinality(UpTo(engineList, at)) + Engine!Cardinality(Engine!Given)
                    = Engine!Cardinality(UpTo(engineList, m))
<1> DEFINE m == Engine!Max(Engine!Given)
           R == After(engineList, at)
<1>0. engineList \in SUBSET Engine!Article /\ engineList \subseteq Nat /\ at \in Nat
  BY DEF Engine!TypeOK, Engine!Article
<1>1. Engine!Given \in SUBSET engineList /\ Engine!Given \in SUBSET Engine!Article
      /\ Engine!Given \subseteq R
  BY <1>0, PageByCursor DEF After
<1>2. m \in Engine!Given /\ \A a \in Engine!Given : a <= m
  BY <1>1, Ends
<1> HIDE DEF m
<1>3. m \in Nat /\ m > at /\ m \in engineList
  BY <1>0, <1>1, <1>2 DEF After
<1>4. \A a \in engineList : a \in Engine!Given <=> at < a /\ a <= m
  BY <1>0, <1>1, <1>2, PageByCursor DEF After
<1>5. UpTo(R, m) = Engine!Given /\ After(R, m) = After(engineList, m)
  <2>1. \A a \in engineList : (a \in R <=> a > at) /\ (a > m => a > at)
    BY <1>0, <1>3 DEF After
  <2>2. \A a \in engineList : a \in Engine!Given <=> a \in R /\ a <= m
    BY <1>0, <1>3, <1>4, <2>1
  <2>3. R \subseteq engineList
    BY DEF After
  <2>4. UpTo(R, m) = Engine!Given
    <3> HIDE DEF R
    <3> QED BY <1>1, <2>2, <2>3, Zenon DEF UpTo
  <2>5. After(R, m) = After(engineList, m)
    <3>1. \A a : a \in R /\ a > m <=> a \in engineList /\ a > m
      BY <2>1, <2>3
    <3> HIDE DEF R
    <3> QED BY <3>1, Zenon DEF After
  <2> QED BY <2>4, <2>5
<1>6. R \in SUBSET Engine!Article
  BY <1>0 DEF After
<1>7. Engine!Cardinality(Engine!Given) + Engine!Cardinality(After(engineList, m)) =
      Engine!Cardinality(R)
  <2> HIDE DEF R
  <2> QED BY <1>3, <1>5, <1>6, Split
<1>8. Engine!Cardinality(UpTo(engineList, m)) + Engine!Cardinality(After(engineList, m)) =
      Engine!Cardinality(engineList)
  BY <1>0, <1>3, Split
<1>9. Engine!Cardinality(UpTo(engineList, at)) + Engine!Cardinality(R) =
      Engine!Cardinality(engineList)
  BY <1>0, Split
<1>10. /\ Engine!Cardinality(UpTo(engineList, m)) \in Nat
             /\ Engine!Cardinality(After(engineList, m)) \in Nat
       /\ Engine!Cardinality(UpTo(engineList, at)) \in Nat /\ Engine!Cardinality(R) \in Nat
       /\ Engine!Cardinality(Engine!Given) \in Nat /\ Engine!Cardinality(engineList) \in Nat
  <2>1. UpTo(engineList, m) \in SUBSET Engine!Article
        /\ After(engineList, m) \in SUBSET Engine!Article
        /\ UpTo(engineList, at) \in SUBSET Engine!Article
    BY <1>0 DEF UpTo, After
  <2> HIDE DEF R
  <2> QED BY <1>0, <1>1, <1>6, <2>1, ArticleSets
<1>11. Engine!Cardinality(UpTo(engineList, at)) + Engine!Cardinality(Engine!Given) =
      Engine!Cardinality(UpTo(engineList, m))
  BY <1>7, <1>8, <1>9, <1>10
<1> QED BY <1>1, <1>2, <1>3, <1>4, <1>7, <1>11 DEF m, R

\* The place of an article in a list
Place(S, a) == Engine!Cardinality(UpTo(S, a))

LEMMA PlaceType ==
    ASSUME Engine!HarvesterEnginesAssumption, NEW S \in SUBSET Engine!Article,
           NEW a \in Engine!Article
    PROVE  /\ Place(S, a) \in Nat /\ Place(S, a) <= Engine!Cardinality(S)
                 /\ Engine!Cardinality(S) \in Nat
           /\ a \in S => Place(S, a) >= 1
           /\ \A T \in SUBSET S : Place(T, a) <= Place(S, a) /\ Place(T, a) \in Nat
<1>1. UpTo(S, a) \in SUBSET S /\ UpTo(S, a) \in SUBSET Engine!Article
  BY DEF UpTo
<1>2. a \in S => UpTo(S, a) # {}
  BY DEF UpTo, Engine!Article
<1>3. ASSUME NEW T \in SUBSET S
      PROVE  UpTo(T, a) \in SUBSET UpTo(S, a) /\ UpTo(T, a) \in SUBSET Engine!Article
  BY DEF UpTo
<1>4. Engine!Cardinality(UpTo(S, a)) \in Nat
      /\ (a \in S => Engine!Cardinality(UpTo(S, a)) # 0)
      /\ Engine!Cardinality(UpTo(S, a)) <= Engine!Cardinality(S)
            /\ Engine!Cardinality(S) \in Nat
  <2> HIDE DEF UpTo
  <2> QED BY <1>1, <1>2, ArticleSets
<1>5. ASSUME NEW T \in SUBSET S PROVE Place(T, a) <= Place(S, a) /\ Place(T, a) \in Nat
  <2> HIDE DEF UpTo
  <2> QED BY <1>1, <1>3, ArticleSets DEF Place
<1> QED BY <1>4, <1>5 DEF Place

LEMMA PlaceStrict ==
    ASSUME Engine!HarvesterEnginesAssumption, NEW S \in SUBSET Engine!Article,
           NEW a \in Engine!Article,
           NEW b \in S, a < b
    PROVE  Place(S, a) < Place(S, b)
<1>1. Engine!Article \subseteq Nat
  BY DEF Engine!Article
<1>2. \A c \in S : (c <= a => c <= b) /\ b <= b /\ ~ (b <= a)
  BY <1>1
<1>3. UpTo(S, a) \in SUBSET UpTo(S, b) /\ b \in UpTo(S, b) /\ b \notin UpTo(S, a)
      /\ UpTo(S, b) \in SUBSET Engine!Article
  BY <1>2 DEF UpTo
<1> QED BY <1>3, ArticleSets DEF Place

\* Up to the place of an article every place is taken.
LEMMA PlaceTaken ==
    ASSUME Engine!HarvesterEnginesAssumption, NEW S \in SUBSET Engine!Article,
           NEW k \in Nat,
           NEW b \in S, Place(S, b) > k
    PROVE  \E c \in S : Place(S, c) = k + 1
<1> DEFINE H == {c \in S : Place(S, c) > k}
<1>0. Engine!Article \subseteq Nat
  BY DEF Engine!Article
<1>1. H \subseteq Nat /\ b \in H
  BY <1>0
<1>2. PICK c \in H : \A d \in H : c <= d
  BY <1>1, LeastNatural
<1> DEFINE D == UpTo(S, c) \ {c}
<1>3. c \in S /\ c \in Nat /\ c \in UpTo(S, c) /\ UpTo(S, c) \in SUBSET Engine!Article
  BY <1>0, <1>2 DEF UpTo
<1>4. D \in SUBSET Engine!Article /\ D \subseteq S /\ \A d \in D : d < c /\ d \notin H
  BY <1>0, <1>2, <1>3 DEF UpTo
<1>5. Engine!Cardinality(D) = Place(S, c) - 1 /\ Place(S, c) \in Nat
  <2>1. IsFiniteSet(UpTo(S, c)) /\ Engine!Cardinality(UpTo(S, c)) \in Nat
    BY <1>3, ArticleSets
  <2> QED BY <1>3, <2>1, FS_RemoveElement, SameCount DEF Place
<1>6. Engine!Cardinality(D) <= k
  <2>1. CASE D = {}
    BY <2>1, FS_EmptySet, SameCount
  <2>2. CASE D # {}
    <3>1. Engine!Max(D) \in D /\ \A d \in D : d <= Engine!Max(D)
      BY <1>4, <2>2, Ends
    <3>2. UpTo(S, Engine!Max(D)) = D
      <4> DEFINE m == Engine!Max(D)
      <4>1. m \in D /\ m \in Nat /\ m < c
        BY <1>0, <1>4, <3>1
      <4> HIDE DEF m
      <4>2. \A d \in S : d \in D <=> d <= c /\ d # c
        BY DEF UpTo
      <4>3. \A d \in S : d \in D => d <= m
        BY <3>1 DEF m
      <4>4. \A d \in S : d <= m => d <= c /\ d # c
        BY <1>0, <1>3, <4>1
      <4>5. \A d \in S : d \in D <=> d <= m
        BY <4>2, <4>3, <4>4
      <4> HIDE DEF D
      <4>6. UpTo(S, m) = D
        BY <1>4, <4>5, Zenon DEF UpTo
      <4> QED BY <4>6 DEF m
    <3>3. Engine!Max(D) \in Engine!Article /\ Engine!Max(D) \in S
          /\ ~ (Place(S, Engine!Max(D)) > k)
      BY <1>4, <3>1
    <3>4. Place(S, Engine!Max(D)) \in Nat
      BY <3>3, PlaceType
    <3> QED BY <3>2, <3>3, <3>4 DEF Place
  <2> QED BY <2>1, <2>2
<1>7. Place(S, c) > k
  BY <1>2
<1>8. Place(S, c) = k + 1
  <2> HIDE DEF D, H
  <2> QED BY <1>5, <1>6, <1>7
<1> QED BY <1>3, <1>8

LEMMA PageByPlace ==
    ASSUME Engine!HarvesterEnginesAssumption, Engine!TypeOK, ~ Engine!ByCursor
    PROVE  /\ Engine!Given \in SUBSET engineList
           /\ \A a \in engineList : Engine!Position(a) = Place(engineList, a)
           /\ \A a \in engineList : a \in Engine!Given <=>
                 at < Engine!Position(a) /\ Engine!Position(a) <= at + EnginePageSize
           /\ Engine!Given = {} => \A a \in engineList : Engine!Position(a) <= at
           /\ Engine!Cardinality(Engine!Given) # EnginePageSize =>
                 \A a \in engineList : Engine!Position(a) <= at + EnginePageSize
<1>1. engineList \in SUBSET Engine!Article /\ at \in Nat /\ EnginePageSize \in Nat
      /\ EnginePageSize > 0
  BY DEF Engine!TypeOK, Engine!HarvesterEnginesAssumption
<1>2. \A a \in engineList : Engine!Position(a) = Place(engineList, a)
      /\ Place(engineList, a) \in Nat
  <2>1. \A a \in engineList : Engine!Position(a) = Place(engineList, a)
    BY DEF Engine!Position, Place, UpTo
  <2> QED BY <1>1, <2>1, PlaceType
<1>3. Engine!Given =
      {a \in engineList : Engine!Position(a) \in at + 1 .. at + EnginePageSize}
  BY DEF Engine!Given
<1>4. Engine!Given \in SUBSET engineList
      /\ \A a \in engineList : a \in Engine!Given <=>
            at < Engine!Position(a) /\ Engine!Position(a) <= at + EnginePageSize
  BY <1>1, <1>2, <1>3
<1>5. ASSUME Engine!Given = {}, NEW a \in engineList PROVE Engine!Position(a) <= at
  <2> SUFFICES ASSUME Place(engineList, a) > at PROVE FALSE
    BY <1>1, <1>2
  <2>1. PICK c \in engineList : Place(engineList, c) = at + 1
    BY <1>1, PlaceTaken
  <2> QED BY <1>1, <1>2, <1>4, <1>5, <2>1
<1>6. ASSUME NEW a \in engineList, Engine!Position(a) > at + EnginePageSize
      PROVE  Engine!Cardinality(Engine!Given) = EnginePageSize
  <2> DEFINE I == at + 1 .. at + EnginePageSize
             f == [g \in Engine!Given |-> Place(engineList, g)]
  <2>1. f \in [Engine!Given -> I]
    BY <1>2, <1>3
  <2>2. ASSUME NEW g \in Engine!Given, NEW h \in Engine!Given, g # h PROVE f[g] # f[h]
    <3>1. g \in Nat /\ h \in Nat /\ g \in engineList /\ h \in engineList
      BY <1>1, <1>4 DEF Engine!Article
    <3>2. g < h \/ h < g
      BY <2>2, <3>1
    <3>3. Place(engineList, g) # Place(engineList, h)
      BY <1>1, <1>2, <3>1, <3>2, PlaceStrict
    <3> QED BY <3>3
  <2>3. ASSUME NEW k \in I PROVE \E g \in Engine!Given : f[g] = k
    <3>1. k - 1 \in Nat /\ k \in Nat /\ at < k /\ k <= at + EnginePageSize
      BY <1>1
    <3>2. Place(engineList, a) > k - 1
      BY <1>1, <1>2, <1>6, <3>1
    <3>3. PICK g \in engineList : Place(engineList, g) = (k - 1) + 1
      BY <1>1, <3>1, <3>2, PlaceTaken
    <3>4. Place(engineList, g) = k
      BY <3>1, <3>3
    <3>5. g \in Engine!Given
      BY <1>2, <1>4, <3>1, <3>4
    <3> QED BY <3>4, <3>5
  <2> HIDE DEF f
  <2>4. f \in Bijection(Engine!Given, I)
    <3> HIDE DEF I
    <3>1. f \in Surjection(Engine!Given, I)
      BY <2>1, <2>3 DEF Surjection
    <3>2. f \in Injection(Engine!Given, I)
      <4>1. \A g, h \in Engine!Given : f[g] = f[h] => g = h
        BY <2>2
      <4> QED BY <2>1, <4>1 DEF Injection, IsInjective
    <3> QED BY <3>1, <3>2 DEF Bijection
  <2>5. IsFiniteSet(Engine!Given)
    BY <1>1, <1>4, ArticleSets
  <2>6. Engine!Cardinality(I) = Engine!Cardinality(Engine!Given)
    BY <2>4, <2>5, FS_Bijection, SameCount DEF ExistsBijection
  <2>7. Engine!Cardinality(I) = EnginePageSize
    BY <1>1, FS_Interval, SameCount
  <2> QED BY <2>6, <2>7
<1>7. Engine!Cardinality(Engine!Given) # EnginePageSize =>
      \A a \in engineList : Engine!Position(a) <= at + EnginePageSize
  BY <1>1, <1>2, <1>6
<1> QED BY <1>2, <1>4, <1>5, <1>7

-----------------------------------------------------------------------------
\* The invariant

\* An article is in the index, or about to be put there; or its page has been given.
Has(a) == found[a] + batch[a] > 0
Got(a) == a \in pageLeft \/ Has(a)
Once == \A a \in Engine!Article : found[a] + batch[a] <= 1

Begun ==
    /\ throughout \subseteq engineList
    /\ enginePc # "fetch" => pageLeft = {}
    /\ enginePc = "fetch" => pageLeft # {} /\ ~ Engine!ByCursor
    /\ enginePc # "store" /\ engine # "Elsevier" => batch = Engine!None
    /\ expected = EngineNotRead =>
          /\ enginePc = "ask" /\ batch = Engine!None /\ pageLeft = {} /\ hits = 0
          /\ throughout = {}
          /\ at = 0 \/ (engine = "EPMC" /\ engineResumed)
          /\ kept \/ found = Engine!None

\* EPMC and Crossref: what comes up to the cursor is there, and once.  EPMC expects all
\* that is to come, Crossref, with the last answer, all that has come and is to come.
OnceByCursor ==
    Engine!ByCursor /\ ~ kept => Once /\ \A a \in Engine!Article : Has(a) => a <= at

AllByCursor ==
    Engine!ByCursor /\ ~ (engine = "EPMC" /\ engineResumed) =>
        /\ ~ Engine!Overtaken => \A a \in throughout : a <= at => Has(a)
        /\ enginePc = "store" /\ ~ more => \A a \in throughout : a <= at
        /\ engine = "EPMC" /\ ~ grown /\ expected # EngineNotRead =>
              hits + Engine!Cardinality(After(engineList, at)) <= expected
        /\ engine = "Crossref" /\ ~ shrunk =>
              hits <= Engine!Cardinality(UpTo(engineList, at))
        /\ engine = "Crossref" /\ ~ shrunk /\ enginePc = "store" =>
              hits + Engine!Cardinality(After(throughout, at)) <= expected

\* PubMed and Elsevier: what has a place up to the end of the page is there, and once.
\* PubMed counts a page when it is in the index.
Reached == IF engine = "PubMed"
      /\ enginePc \in {"fetch", "store"} THEN at + EnginePageSize ELSE at

OnceByPlace ==
    ~ Engine!ByCursor /\ ~ kept /\ ~ grown =>
        /\ Once
        /\ \A a \in pageLeft : ~ Has(a)
        /\ \A a \in engineList : Got(a) => Engine!Position(a) <= Reached

AllByPlace ==
    ~ Engine!ByCursor /\ ~ shrunk =>
        /\ \A a \in throughout \ EngineOdd : Engine!Position(a) <= Reached => Got(a)
        /\ enginePc \in {"fetch", "store"} /\ ~ more =>
              \A a \in throughout \ EngineOdd : Got(a)
        /\ engine = "Elsevier" /\ enginePc = "store" =>
              \A a \in throughout \ EngineOdd : Got(a)

Going == Begun /\ OnceByCursor /\ AllByCursor /\ OnceByPlace /\ AllByPlace

EngInv == Engine!TypeOK /\ (Engine!Asking => Going) /\ Engine!EachFoundOnce

-----------------------------------------------------------------------------
\* Bags of articles

LEMMA NoneBag == Engine!None \in [Engine!Article -> Nat] /\ \A a \in Engine!Article :
      Engine!None[a] = 0
BY DEF Engine!None

LEMMA SetBag ==
    ASSUME NEW S
    PROVE  /\ Engine!AsBag(S) \in [Engine!Article -> Nat]
           /\ \A a \in Engine!Article : Engine!AsBag(S)[a] = IF a \in S THEN 1 ELSE 0
BY DEF Engine!AsBag

LEMMA SumBag ==
    ASSUME NEW f \in [Engine!Article -> Nat], NEW g \in [Engine!Article -> Nat]
    PROVE  /\ Engine!Sum(f, g) \in [Engine!Article -> Nat]
           /\ \A a \in Engine!Article : Engine!Sum(f, g)[a] = f[a] + g[a]
BY DEF Engine!Sum

\* A new attempt, or the end of all attempts
LEMMA RaiseInv ==
    ASSUME Engine!HarvesterEnginesAssumption, Engine!TypeOK,
           NEW inIndex \in [Engine!Article -> Nat],
           Engine!Raise(inIndex), UNCHANGED <<engine, engineList, listChanges>>,
                 engineFaultCount' \in 0..EngineFaults
    PROVE  EngInv'
<1> USE DEF Engine!TypeOK
<1>1. CASE enginePc' = "failed" /\ found' = Engine!None
      /\ UNCHANGED <<Engine!place, tries, loops, Engine!history>>
  <2>1. Engine!TypeOK'
    BY <1>1, NoneBag DEF Engine!place, Engine!history
  <2>2. ~ Engine!Asking' /\ Engine!EachFoundOnce'
    BY <1>1 DEF Engine!Asking, Engine!EachFoundOnce
  <2> QED BY <2>1, <2>2 DEF EngInv
<1>2. CASE /\ loops + 1 < EngineTryTimes
           /\ loops' = loops + 1
           /\ enginePc' = "ask" /\ at' = Engine!AtAnew /\ more' = TRUE
           /\ pageLeft' = {} /\ batch' = Engine!None /\ hits' = 0
                 /\ expected' = EngineNotRead /\ missing' = 0
           /\ tries' = 0
           /\ Engine!Emptied(inIndex)
           /\ engineResumed' = (engineResumed \/ Engine!AtAnew # 0)
           /\ throughout' = {} /\ grown' = FALSE /\ shrunk' = FALSE
  <2>1. /\ found' \in [Engine!Article -> Nat] /\ kept' \in BOOLEAN
        /\ (kept' \/ found' = Engine!None)
    BY <1>2, NoneBag DEF Engine!Emptied
  <2>2. Engine!AtAnew \in Nat
        /\ (Engine!AtAnew = 0 \/ (engine = "EPMC" /\ Engine!AtAnew = at))
    BY DEF Engine!AtAnew
  <2>3. Engine!TypeOK'
    <3>1. loops' \in 0..EngineTryTimes /\ tries' \in 0..EngineCursorTries + EngineFetchTries
      BY <1>2 DEF Engine!HarvesterEnginesAssumption
    <3>2. at' \in Nat /\ batch' \in [Engine!Article -> Nat]
          /\ throughout' \subseteq Engine!Article
      BY <1>2, <2>2, NoneBag
    <3>3. engineResumed' \in BOOLEAN
      BY <1>2
    <3>4. /\ more' \in BOOLEAN /\ pageLeft' \subseteq Engine!Article /\ hits' \in Nat
          /\ expected' \in Int \cup {EngineNotRead} /\ missing' \in Nat
          /\ enginePc' \in {"ask", "fetch", "store", "done", "failed"}
          /\ grown' \in BOOLEAN /\ shrunk' \in BOOLEAN
      BY <1>2
    <3> QED BY <2>1, <3>1, <3>2, <3>3, <3>4
  <2>4. Begun'
    <3>1. at' = 0 \/ (engine' = "EPMC" /\ engineResumed')
      BY <1>2, <2>2
    <3>2. batch' = Engine!None' /\ (kept' \/ found' = Engine!None')
      BY <1>2, <2>1 DEF Engine!None
    <3> QED BY <1>2, <3>1, <3>2 DEF Begun
  <2>5. OnceByCursor' /\ OnceByPlace'
    <3>1. ~ kept' => \A a \in Engine!Article : found'[a] + batch'[a] = 0
      BY <1>2, <2>1, NoneBag
    <3>2. ~ kept' => Once' /\ \A a \in Engine!Article : ~ Has(a)'
      BY <3>1 DEF Once, Has
    <3>3. engineList' \subseteq Engine!Article
      BY <2>3
    <3> QED BY <1>2, <3>2, <3>3 DEF OnceByCursor, OnceByPlace, Got
  <2>6. AllByCursor' /\ AllByPlace'
    <3>1. UpTo(engineList', at') \in SUBSET Engine!Article
      BY <2>3 DEF UpTo
    <3>2. Engine!Cardinality(UpTo(engineList', at')) \in Nat
      BY <3>1, ArticleSets
    <3> QED BY <1>2, <3>2 DEF AllByCursor, AllByPlace
  <2>7. Engine!EachFoundOnce'
    BY <1>2 DEF Engine!EachFoundOnce
  <2> QED BY <2>3, <2>4, <2>5, <2>6, <2>7 DEF EngInv, Going
<1> QED BY <1>1, <1>2 DEF Engine!Raise

-----------------------------------------------------------------------------
\* The steps

\* What every request starts from
LEMMA BeforeRequest ==
    ASSUME Engine!HarvesterEnginesAssumption, EngInv, Engine!Answered
    PROVE  /\ Engine!TypeOK /\ Going /\ pageLeft = {}
           /\ engine # "Elsevier" => batch = Engine!None
           /\ throughout' \subseteq engineList /\ throughout' \subseteq Engine!Article
           /\ tries' \in 0..EngineCursorTries + EngineFetchTries
           /\ grown' \in BOOLEAN /\ shrunk' \in BOOLEAN
           /\ Engine!Total \in Int /\ Engine!Total # EngineNotRead
           /\ Engine!Cardinality(engineList) \in Nat
                 /\ Engine!Cardinality(engineList) # EngineNotRead
           /\ Engine!FirstAsked => /\ throughout' = engineList /\ ~ grown' /\ ~ shrunk'
                                   /\ batch = Engine!None /\ hits = 0
                                   /\ at = 0 \/ (engine = "EPMC" /\ engineResumed)
                                   /\ kept \/ found = Engine!None
           /\ ~ Engine!FirstAsked => /\ throughout' = throughout /\ grown' = grown
                                     /\ shrunk' = shrunk
<1>1. Engine!TypeOK /\ Going /\ enginePc = "ask"
  BY DEF EngInv, Engine!Answered, Engine!Asking
<1>2. Engine!Cardinality(engineList) \in Nat
  BY <1>1, ArticleSets DEF Engine!TypeOK
<1>3. Engine!Cardinality(engineList) # EngineNotRead /\ Engine!Total \in Int
      /\ Engine!Total # EngineNotRead
  BY <1>1, <1>2 DEF Engine!Total, Engine!FirstAsked, Engine!TypeOK,
       Engine!HarvesterEnginesAssumption
<1>4. tries' \in 0..EngineCursorTries + EngineFetchTries
  BY DEF Engine!Answered, Engine!HarvesterEnginesAssumption
<1>5. grown' \in BOOLEAN /\ shrunk' \in BOOLEAN
  BY DEF Engine!Answered
<1>6. Begun
  BY <1>1 DEF Going
<1>7. throughout' \subseteq engineList /\ throughout' \subseteq Engine!Article
  BY <1>1, <1>6 DEF Begun, Engine!Answered, Engine!TypeOK
<1>8. pageLeft = {} /\ (engine # "Elsevier" => batch = Engine!None)
  BY <1>1, <1>6 DEF Begun
<1>9. Engine!FirstAsked => /\ throughout' = engineList /\ ~ grown' /\ ~ shrunk'
                           /\ batch = Engine!None /\ hits = 0
                           /\ at = 0 \/ (engine = "EPMC" /\ engineResumed)
                           /\ kept \/ found = Engine!None
  BY <1>6 DEF Begun, Engine!Answered, Engine!FirstAsked
<1>10. ~ Engine!FirstAsked => throughout' = throughout /\ grown' = grown /\ shrunk' = shrunk
  BY <1>1 DEF Engine!Answered, Engine!TypeOK
<1> QED BY <1>1, <1>2, <1>3, <1>4, <1>5, <1>7, <1>8, <1>9, <1>10

\* Where a cursor engine stands before it gets a page
LEMMA BeforePage ==
    ASSUME Engine!HarvesterEnginesAssumption, EngInv, Engine!Answered, Engine!ByCursor
    PROVE  /\ ~ kept => \A a \in Engine!Article : /\ found[a] <= 1
                                                  /\ found[a] > 0 => a <= at
           /\ ~ (engine = "EPMC" /\ engineResumed) /\ ~ Engine!Overtaken' =>
                 \A a \in throughout' : a <= at => found[a] > 0
           /\ engine = "EPMC" /\ ~ engineResumed /\ ~ grown' =>
                 hits + Engine!Cardinality(After(engineList, at)) <= Engine!Total
           /\ engine = "Crossref" /\ ~ shrunk' =>
                 hits <= Engine!Cardinality(UpTo(engineList, at))
<1>1. Engine!TypeOK /\ OnceByCursor /\ AllByCursor /\ batch = Engine!None
  BY BeforeRequest DEF Going, Engine!ByCursor
<1>2. \A a \in Engine!Article : found[a] \in Nat /\ batch[a] = 0
  BY <1>1, NoneBag DEF Engine!TypeOK
<1>3. \A a \in Engine!Article : found[a] + batch[a] = found[a]
  BY <1>2
<1>4. \A a \in Engine!Article : Has(a) <=> found[a] > 0
  BY <1>3 DEF Has
<1>5. ~ kept => \A a \in Engine!Article : found[a] <= 1 /\ (found[a] > 0 => a <= at)
  BY <1>1, <1>3, <1>4 DEF OnceByCursor, Once
<1>6. engineList \in SUBSET Engine!Article /\ at \in Nat
  BY <1>1 DEF Engine!TypeOK
<1>7. /\ Engine!Cardinality(After(engineList, at)) \in Nat
            /\ Engine!Cardinality(UpTo(engineList, at)) \in Nat
      /\ Engine!Cardinality(engineList) \in Nat
      /\ Engine!Cardinality(After(engineList, at)) <= Engine!Cardinality(engineList)
  <2>1. After(engineList, at) \in SUBSET engineList
        /\ UpTo(engineList, at) \in SUBSET engineList
    BY DEF After, UpTo
  <2> HIDE DEF After, UpTo
  <2> QED BY <1>6, <2>1, ArticleSets
<1>8. CASE Engine!FirstAsked
  <2>1. /\ throughout' = engineList /\ hits = 0
        /\ at = 0 \/ (engine = "EPMC" /\ engineResumed)
    BY <1>8, BeforeRequest
  <2>2. Engine!Total = Engine!Cardinality(engineList)
    BY <1>8 DEF Engine!Total
  <2>3. \A a \in throughout' : ~ (a <= 0)
    BY <1>6, <2>1 DEF Engine!Article
  <2> QED BY <1>5, <1>7, <2>1, <2>2, <2>3
<1>9. CASE ~ Engine!FirstAsked
  <2>1. throughout' = throughout /\ grown' = grown /\ shrunk' = shrunk /\ engine' = engine
    BY <1>9, BeforeRequest DEF Engine!Answered
  <2>2. Engine!Overtaken' <=> Engine!Overtaken
    BY <2>1 DEF Engine!Overtaken
  <2>3. throughout \subseteq Engine!Article
    BY <1>1 DEF Engine!TypeOK
  <2>4. engine = "EPMC" => Engine!Total = expected
    BY <1>9 DEF Engine!Total
  <2> QED BY <1>1, <1>4, <1>5, <1>9, <2>1, <2>2, <2>3, <2>4
          DEF AllByCursor, Engine!FirstAsked, Engine!ByCursor
<1> QED BY <1>8, <1>9

LEMMA AskByCursorInv ==
    ASSUME Engine!HarvesterEnginesAssumption, EngInv, Engine!AskByCursor
    PROVE  EngInv'
<1>1. /\ Engine!TypeOK /\ Engine!Answered /\ pageLeft = {} /\ batch = Engine!None
            /\ Engine!Total \in Int
      /\ throughout' \subseteq engineList /\ throughout' \subseteq Engine!Article
      /\ tries' \in 0..EngineCursorTries + EngineFetchTries
      /\ grown' \in BOOLEAN /\ shrunk' \in BOOLEAN /\ expected' \in Int
      /\ expected' # EngineNotRead
  BY BeforeRequest DEF Engine!AskByCursor, Engine!ByCursor
<1>2. /\ engine' = engine /\ engineList' = engineList /\ loops' = loops /\ found' = found
      /\ engineResumed' = engineResumed /\ kept' = kept /\ listChanges' = listChanges
            /\ engineFaultCount' = engineFaultCount
      /\ pageLeft' = {} /\ missing' = missing /\ expected' = Engine!Total
            /\ more' \in BOOLEAN
      /\ ~ more' => \A a \in engineList : a > at => a \in Engine!Given
      /\ Engine!ByCursor /\ Engine!ByCursor'
  BY <1>1 DEF Engine!AskByCursor, Engine!Answered, Engine!ByCursor
<1>3. /\ \A a \in Engine!Article : a \in Nat /\ found[a] \in Nat
      /\ engineList \in SUBSET Engine!Article /\ at \in Nat /\ hits \in Nat
  BY <1>1 DEF Engine!TypeOK, Engine!Article
<1>4. CASE Engine!Given = {}
  <2>1. enginePc' = "done" /\ at' = at /\ batch' = batch /\ hits' = hits
    BY <1>4 DEF Engine!AskByCursor
  <2>2. Engine!TypeOK'
    BY <1>1, <1>2, <2>1 DEF Engine!TypeOK
  <2>3. \A a \in engineList : a <= at
    <3>1. After(engineList, at) = {}
      BY <1>1, <1>2, <1>4, PageByCursor
    <3> QED BY <1>3, <3>1 DEF After
  <2>4. ~ (engine = "EPMC" /\ engineResumed) /\ ~ Engine!Overtaken' =>
        Engine!Expected' \subseteq Engine!Found'
    BY <1>1, <1>2, <1>3, <2>3, BeforePage DEF Engine!Expected, Engine!Found
  <2>5. ~ kept' => \A a \in Engine!Article : found'[a] <= 1
    BY <1>1, <1>2, BeforePage
  <2> QED BY <1>2, <2>1, <2>2, <2>4, <2>5 DEF EngInv, Engine!EachFoundOnce, Engine!Asking
<1>5. CASE Engine!Given # {}
  <2> DEFINE m == Engine!Max(Engine!Given)
  <2>1. /\ enginePc' = "store" /\ at' = m /\ batch' = Engine!AsBag(Engine!Given)
        /\ hits' = hits + Engine!Cardinality(Engine!Given)
    BY <1>5 DEF Engine!AskByCursor
  <2>2. /\ Engine!Given \in SUBSET engineList /\ m \in Engine!Given /\ m > at
        /\ \A a \in engineList : a \in Engine!Given <=> at < a /\ a <= m
        /\ Engine!Cardinality(Engine!Given) + Engine!Cardinality(After(engineList, m))
              = Engine!Cardinality(After(engineList, at))
        /\ Engine!Cardinality(UpTo(engineList, at)) + Engine!Cardinality(Engine!Given)
              = Engine!Cardinality(UpTo(engineList, m))
    BY <1>1, <1>2, <1>5, NextByCursor
  <2> HIDE DEF m
  <2>3. m \in Nat /\ Engine!Given \in SUBSET Engine!Article
        /\ Engine!Cardinality(Engine!Given) \in Nat
    BY <1>3, <2>2, ArticleSets
  <2>4. /\ batch' \in [Engine!Article -> Nat]
        /\ \A a \in Engine!Article : batch'[a] = IF a \in Engine!Given THEN 1 ELSE 0
    BY <2>1, SetBag
  <2>5. Engine!TypeOK'
    BY <1>1, <1>2, <1>3, <2>1, <2>3, <2>4 DEF Engine!TypeOK
  <2>6. Begun'
    BY <1>1, <1>2, <2>1 DEF Begun
  <2>7. OnceByCursor'
    <3> SUFFICES ASSUME ~ kept, NEW a \in Engine!Article
                 PROVE  found[a] + batch'[a] <= 1 /\ (found[a] + batch'[a] > 0 => a <= m)
      BY <1>2, <2>1 DEF OnceByCursor, Once, Has
    <3>1. found[a] <= 1 /\ (found[a] > 0 => a <= at)
      BY <1>1, <1>2, BeforePage
    <3>2. a \in Engine!Given => at < a /\ a <= m
      BY <2>2
    <3>3. a \in Nat /\ found[a] \in Nat
      BY <1>3
    <3>4. CASE a \in Engine!Given
      BY <1>3, <2>4, <3>1, <3>2, <3>3, <3>4
    <3>5. CASE a \notin Engine!Given
      BY <1>3, <2>2, <2>3, <2>4, <3>1, <3>3, <3>5
    <3> QED BY <3>4, <3>5
  <2>8. AllByCursor'
    <3> SUFFICES ASSUME ~ (engine = "EPMC" /\ engineResumed)
                 PROVE  /\ ~ Engine!Overtaken' => \A a \in throughout' : a <= m => Has(a)'
                        /\ ~ more' => \A a \in throughout' : a <= m
                        /\ engine = "EPMC" /\ ~ grown' =>
                              hits' + Engine!Cardinality(After(engineList, m)) <= expected'
                        /\ engine = "Crossref" /\ ~ shrunk' =>
                              /\ hits' <= Engine!Cardinality(UpTo(engineList, m))
                              /\ hits' + Engine!Cardinality(After(throughout', m)) <=
                                    expected'
      <4>1. After(engineList, m) = After(engineList, at)'
            /\ UpTo(engineList, m) = UpTo(engineList, at)'
            /\ After(throughout', m) = After(throughout, at)'
        BY <1>2, <2>1 DEF After, UpTo
      <4> QED BY <1>2, <2>1, <4>1 DEF AllByCursor
    <3>1. ASSUME ~ Engine!Overtaken', NEW a \in throughout', a <= m PROVE Has(a)'
      <4>1. a <= at => found[a] > 0
        BY <1>1, <1>2, <3>1, BeforePage
      <4>2. a \in Engine!Given \/ a <= at
        BY <1>1, <1>3, <2>2, <3>1
      <4>3. a \in Engine!Article /\ found[a] \in Nat /\ batch'[a] \in Nat
        BY <1>1, <1>3, <2>4
      <4> QED BY <1>2, <2>4, <4>1, <4>2, <4>3 DEF Has
    <3>2. ASSUME ~ more', NEW a \in throughout' PROVE a <= m
      BY <1>1, <1>2, <1>3, <2>2, <2>3, <3>2
    <3>3. /\ Engine!Cardinality(After(engineList, m)) \in Nat
                /\ Engine!Cardinality(UpTo(engineList, m)) \in Nat
          /\ Engine!Cardinality(After(engineList, at)) \in Nat
                /\ Engine!Cardinality(UpTo(engineList, at)) \in Nat
          /\ Engine!Cardinality(After(throughout', m)) \in Nat
          /\ Engine!Cardinality(After(throughout', m)) <=
                Engine!Cardinality(After(engineList, m))
      <4>1. /\ After(engineList, m) \in SUBSET Engine!Article
                  /\ UpTo(engineList, m) \in SUBSET Engine!Article
            /\ After(engineList, at) \in SUBSET Engine!Article
                  /\ UpTo(engineList, at) \in SUBSET Engine!Article
            /\ After(throughout', m) \in SUBSET After(engineList, m)
        BY <1>1, <1>3 DEF After, UpTo
      <4>2. After(throughout', m) \in SUBSET Engine!Article
        BY <4>1
      <4> QED BY <4>1, <4>2, ArticleSets
    <3>4. ASSUME engine = "EPMC", ~ grown'
          PROVE  hits' + Engine!Cardinality(After(engineList, m)) <= expected'
      <4>1. hits + Engine!Cardinality(After(engineList, at)) <= Engine!Total
        BY <1>1, <1>2, <3>4, BeforePage
      <4> QED BY <1>1, <1>2, <1>3, <2>1, <2>2, <2>3, <3>3, <4>1
    <3>5. ASSUME engine = "Crossref", ~ shrunk'
          PROVE  /\ hits' <= Engine!Cardinality(UpTo(engineList, m))
                 /\ hits' + Engine!Cardinality(After(throughout', m)) <= expected'
      <4>1. hits <= Engine!Cardinality(UpTo(engineList, at))
        BY <1>1, <1>2, <3>5, BeforePage
      <4>2. hits' <= Engine!Cardinality(UpTo(engineList, m))
        BY <1>3, <2>1, <2>2, <2>3, <3>3, <4>1
      <4>3. expected' = Engine!Cardinality(engineList)
        BY <1>2, <3>5 DEF Engine!Total
      <4>4. Engine!Cardinality(UpTo(engineList, m)) + Engine!Cardinality(After(engineList,
            m))
              = Engine!Cardinality(engineList)
        BY <1>3, <2>3, Split
      <4>5. hits' \in Nat
        BY <2>5 DEF Engine!TypeOK
      <4> QED BY <3>3, <4>2, <4>3, <4>4, <4>5
    <3> QED BY <3>1, <3>2, <3>4, <3>5
  <2>9. OnceByPlace' /\ AllByPlace'
    BY <1>2 DEF OnceByPlace, AllByPlace
  <2> QED BY <2>1, <2>5, <2>6, <2>7, <2>8, <2>9 DEF EngInv, Engine!EachFoundOnce, Going
<1> QED BY <1>4, <1>5

\* What PubMed and Elsevier have when they get a page
LEMMA BeforePlaces ==
    ASSUME Engine!HarvesterEnginesAssumption, EngInv, Engine!Answered, ~ Engine!ByCursor
    PROVE  /\ ~ kept /\ ~ grown' => /\ Once
                                    /\ \A a \in engineList : Has(a) =>
                                          Engine!Position(a) <= at
           /\ ~ shrunk' => \A a \in throughout' \ EngineOdd : Engine!Position(a) <= at =>
                 Has(a)
           /\ Engine!Given \in SUBSET engineList
           /\ \A a \in engineList : /\ Engine!Position(a)' = Engine!Position(a)
                                        /\ Engine!Position(a) \in Nat
                                    /\ Engine!Position(a) <= Engine!Cardinality(engineList)
                                    /\ a \in Engine!Given <=> /\ at < Engine!Position(a)
                                                              /\ Engine!Position(a) <=
                                                                    at + EnginePageSize
           /\ Engine!Given = {} => \A a \in engineList : Engine!Position(a) <= at
           /\ Engine!Cardinality(Engine!Given) # EnginePageSize =>
                 \A a \in engineList : Engine!Position(a) <= at + EnginePageSize
           /\ engineList' = engineList /\ engine' = engine /\ kept' = kept /\ found' = found
           /\ at \in Nat /\ EnginePageSize \in Nat /\ hits \in Nat
<1>1. /\ Engine!TypeOK /\ OnceByPlace /\ AllByPlace /\ pageLeft = {} /\ enginePc = "ask"
      /\ throughout' \subseteq engineList
  BY BeforeRequest DEF Going, Engine!Answered
<1>2. /\ engineList' = engineList /\ engine' = engine /\ kept' = kept /\ found' = found
      /\ engineList \in SUBSET Engine!Article /\ at \in Nat /\ hits \in Nat
      /\ EnginePageSize \in Nat /\ EnginePageSize > 0
  BY <1>1 DEF Engine!Answered, Engine!TypeOK, Engine!HarvesterEnginesAssumption
<1>3. /\ Engine!Given \in SUBSET engineList
      /\ \A a \in engineList : Engine!Position(a) = Place(engineList, a)
      /\ \A a \in engineList : a \in Engine!Given <=>
            at < Engine!Position(a) /\ Engine!Position(a) <= at + EnginePageSize
      /\ Engine!Given = {} => \A a \in engineList : Engine!Position(a) <= at
      /\ Engine!Cardinality(Engine!Given) # EnginePageSize =>
            \A a \in engineList : Engine!Position(a) <= at + EnginePageSize
  BY <1>1, PageByPlace
<1>4. \A a \in engineList : /\ Engine!Position(a) \in Nat /\ Engine!Position(a) >= 1
                            /\ Engine!Position(a) <= Engine!Cardinality(engineList)
  BY <1>2, <1>3, PlaceType
<1>5. \A a \in engineList : Engine!Position(a)' = Engine!Position(a)
  BY <1>2 DEF Engine!Position
<1>6. Reached = at /\ \A a \in Engine!Article : Got(a) <=> Has(a)
  BY <1>1 DEF Reached, Got
<1>7. /\ ~ kept /\ ~ grown' => Once /\ \A a \in engineList : Has(a) =>
            Engine!Position(a) <= at
      /\ ~ shrunk' => \A a \in throughout' \ EngineOdd : Engine!Position(a) <= at => Has(a)
  <2>1. CASE Engine!FirstAsked
    <3>1. throughout' = engineList /\ batch = Engine!None /\ at = 0
          /\ (kept \/ found = Engine!None)
      BY <2>1, BeforeRequest DEF Engine!ByCursor
    <3>2. ~ kept => \A a \in Engine!Article : found[a] + batch[a] = 0
      BY <3>1, NoneBag
    <3> QED BY <1>2, <1>4, <3>1, <3>2 DEF Once, Has
  <2>2. CASE ~ Engine!FirstAsked
    <3>1. throughout' = throughout /\ grown' = grown /\ shrunk' = shrunk
      BY <2>2, BeforeRequest
    <3>2. throughout \subseteq Engine!Article
      BY <1>1 DEF Engine!TypeOK
    <3> QED BY <1>1, <1>2, <1>6, <3>1, <3>2 DEF OnceByPlace, AllByPlace
  <2> QED BY <2>1, <2>2
<1> QED BY <1>2, <1>3, <1>4, <1>5, <1>7

LEMMA AskPubMedInv ==
    ASSUME Engine!HarvesterEnginesAssumption, EngInv, Engine!AskPubMed
    PROVE  EngInv'
<1>1. /\ Engine!TypeOK /\ Engine!Answered /\ pageLeft = {} /\ batch = Engine!None
            /\ ~ Engine!ByCursor
      /\ throughout' \subseteq engineList /\ throughout' \subseteq Engine!Article
      /\ tries' \in 0..EngineCursorTries + EngineFetchTries
      /\ grown' \in BOOLEAN /\ shrunk' \in BOOLEAN /\ Engine!Cardinality(engineList) \in Nat
      /\ Engine!Cardinality(engineList) # EngineNotRead
  BY BeforeRequest DEF Engine!AskPubMed, Engine!ByCursor
<1>2. /\ engine = "PubMed" /\ engine' = "PubMed" /\ engineList' = engineList
            /\ loops' = loops
      /\ found' = found /\ engineResumed' = engineResumed /\ kept' = kept
            /\ listChanges' = listChanges
      /\ engineFaultCount' = engineFaultCount /\ at' = at /\ batch' = batch /\ hits' = hits
      /\ missing' = missing /\ expected' = Engine!Cardinality(engineList)
            /\ pageLeft' = Engine!Given
      /\ more' = (Engine!Cardinality(Engine!Given) = EnginePageSize)
      /\ enginePc' = IF Engine!Given = {} THEN "done" ELSE "fetch"
  BY DEF Engine!AskPubMed, Engine!Answered
<1>3. /\ ~ kept /\ ~ grown' => Once /\ \A a \in engineList : Has(a) =>
            Engine!Position(a) <= at
      /\ ~ shrunk' => \A a \in throughout' \ EngineOdd : Engine!Position(a) <= at => Has(a)
      /\ Engine!Given \in SUBSET engineList
      /\ \A a \in engineList : /\ Engine!Position(a)' = Engine!Position(a)
                                   /\ Engine!Position(a) \in Nat
                               /\ a \in Engine!Given <=> /\ at < Engine!Position(a)
                                                         /\ Engine!Position(a) <=
                                                               at + EnginePageSize
      /\ Engine!Given = {} => \A a \in engineList : Engine!Position(a) <= at
      /\ Engine!Cardinality(Engine!Given) # EnginePageSize =>
            \A a \in engineList : Engine!Position(a) <= at + EnginePageSize
      /\ at \in Nat /\ EnginePageSize \in Nat
  BY <1>1, BeforePlaces
<1>4. engineList \in SUBSET Engine!Article /\ ~ Engine!ByCursor'
  BY <1>1, <1>2 DEF Engine!TypeOK, Engine!ByCursor
<1>5. Engine!TypeOK'
  <2>1. more' \in BOOLEAN /\ enginePc' \in {"ask", "fetch", "store", "done", "failed"}
    BY <1>2
  <2> QED BY <1>1, <1>2, <1>3, <1>4, <2>1 DEF Engine!TypeOK
<1>6. \A a \in Engine!Article : (Has(a)' <=> Has(a)) /\ (Has(a) <=> found[a] > 0)
                         /\ found[a] + batch[a] = found[a]
  <2>1. \A a \in Engine!Article : found[a] \in Nat /\ batch[a] = 0
    BY <1>1, NoneBag DEF Engine!TypeOK
  <2> QED BY <1>2, <2>1 DEF Has
<1>7. CASE Engine!Given = {}
  <2>1. ~ shrunk' => \A a \in throughout' \ EngineOdd : found[a] > 0
    BY <1>1, <1>3, <1>6, <1>7
  <2>2. ~ kept /\ ~ grown' => \A a \in Engine!Article : found[a] <= 1
    BY <1>3, <1>6 DEF Once
  <2>3. Engine!EachFoundOnce'
    BY <1>1, <1>2, <1>4, <2>1, <2>2 DEF Engine!EachFoundOnce, Engine!Overtaken,
         Engine!Repeating, Engine!Expected, Engine!Found
  <2> QED BY <1>2, <1>5, <1>7, <2>3 DEF EngInv, Engine!Asking
<1>8. CASE Engine!Given # {}
  <2>1. enginePc' = "fetch" /\ Reached' = at + EnginePageSize
    BY <1>2, <1>8 DEF Reached
  <2>2. Begun'
    BY <1>1, <1>2, <1>4, <1>8, <2>1 DEF Begun, Engine!None
  <2>3. OnceByPlace'
    <3>1. ASSUME ~ kept, ~ grown'
          PROVE  /\ Once' /\ \A a \in Engine!Given : ~ Has(a)'
                 /\ \A a \in engineList : a \in Engine!Given \/ Has(a)' =>
                       Engine!Position(a)' <= at + EnginePageSize
      <4>1. \A a \in engineList : Has(a) => Engine!Position(a) <= at
        BY <1>3, <3>1
      <4>2. Once' /\ \A a \in Engine!Given : ~ Has(a)'
        BY <1>2, <1>3, <1>4, <1>6, <3>1, <4>1 DEF Once
      <4> QED BY <1>3, <1>4, <1>6, <4>1, <4>2
    <3> QED BY <1>2, <2>1, <3>1 DEF OnceByPlace, Got
  <2>4. AllByPlace'
    <3>1. ASSUME ~ shrunk', NEW a \in throughout' \ EngineOdd, Engine!Position(a) <=
                 at + EnginePageSize
          PROVE  a \in Engine!Given \/ Has(a)'
      BY <1>1, <1>3, <1>4, <1>6, <3>1
    <3>2. ~ more' => \A a \in engineList : Engine!Position(a) <= at + EnginePageSize
      BY <1>2, <1>3
    <3>3. \A a \in throughout' : Engine!Position(a)' = Engine!Position(a)
      BY <1>1, <1>3
    <3> QED BY <1>1, <1>2, <2>1, <3>1, <3>2, <3>3 DEF AllByPlace, Got
  <2>5. OnceByCursor' /\ AllByCursor'
    BY <1>4 DEF OnceByCursor, AllByCursor
  <2> QED BY <1>5, <2>1, <2>2, <2>3, <2>4, <2>5 DEF EngInv, Going, Engine!EachFoundOnce
<1> QED BY <1>7, <1>8

LEMMA AskElsevierInv ==
    ASSUME Engine!HarvesterEnginesAssumption, EngInv, Engine!AskElsevier
    PROVE  EngInv'
<1>1. /\ Engine!TypeOK /\ Engine!Answered /\ pageLeft = {} /\ ~ Engine!ByCursor
      /\ throughout' \subseteq engineList /\ throughout' \subseteq Engine!Article
      /\ tries' \in 0..EngineCursorTries + EngineFetchTries
      /\ grown' \in BOOLEAN /\ shrunk' \in BOOLEAN /\ Engine!Cardinality(engineList) \in Nat
      /\ Engine!Total \in Int /\ Engine!Total # EngineNotRead
  BY BeforeRequest DEF Engine!AskElsevier, Engine!ByCursor
<1>2. /\ engine = "Elsevier" /\ engine' = "Elsevier" /\ engineList' = engineList
            /\ loops' = loops
      /\ found' = found /\ engineResumed' = engineResumed /\ kept' = kept
            /\ listChanges' = listChanges
      /\ engineFaultCount' = engineFaultCount /\ at' = at + EnginePageSize
            /\ batch' = batch /\ hits' = hits
      /\ missing' = missing /\ expected' = Engine!Total /\ pageLeft' = Engine!Given
      /\ more' = (at + EnginePageSize < Engine!Cardinality(engineList))
      /\ enginePc' = IF Engine!Given = {} THEN "store" ELSE "fetch"
  BY DEF Engine!AskElsevier, Engine!Answered
<1>3. /\ ~ kept /\ ~ grown' => Once /\ \A a \in engineList : Has(a) =>
            Engine!Position(a) <= at
      /\ ~ shrunk' => \A a \in throughout' \ EngineOdd : Engine!Position(a) <= at => Has(a)
      /\ Engine!Given \in SUBSET engineList
      /\ \A a \in engineList : /\ Engine!Position(a)' = Engine!Position(a)
                                   /\ Engine!Position(a) \in Nat
                               /\ Engine!Position(a) <= Engine!Cardinality(engineList)
                               /\ a \in Engine!Given <=> /\ at < Engine!Position(a)
                                                         /\ Engine!Position(a) <=
                                                               at + EnginePageSize
      /\ Engine!Given = {} => \A a \in engineList : Engine!Position(a) <= at
      /\ at \in Nat /\ EnginePageSize \in Nat
  BY <1>1, BeforePlaces
<1>4. engineList \in SUBSET Engine!Article /\ ~ Engine!ByCursor'
  BY <1>1, <1>2 DEF Engine!TypeOK, Engine!ByCursor
<1>5. Engine!TypeOK'
  <2>1. more' \in BOOLEAN /\ enginePc' \in {"ask", "fetch", "store", "done", "failed"}
        /\ at' \in Nat
    BY <1>2, <1>3
  <2> QED BY <1>1, <1>2, <1>3, <1>4, <2>1 DEF Engine!TypeOK
<1>6. \A a \in Engine!Article : Has(a)' <=> Has(a)
  BY <1>2 DEF Has
<1>7. Begun'
  BY <1>1, <1>2, <1>4 DEF Begun
<1>8. Reached' = at + EnginePageSize /\ enginePc' \in {"fetch", "store"}
  BY <1>2 DEF Reached
<1>9. OnceByPlace'
  <2>1. ASSUME ~ kept, ~ grown'
        PROVE  /\ Once' /\ \A a \in Engine!Given : ~ Has(a)'
               /\ \A a \in engineList : a \in Engine!Given \/ Has(a)' =>
                     Engine!Position(a)' <= at + EnginePageSize
    <3>1. \A a \in engineList : Has(a) => Engine!Position(a) <= at
      BY <1>3, <2>1
    <3>2. Once' /\ \A a \in Engine!Given : ~ Has(a)'
      BY <1>2, <1>3, <1>4, <1>6, <2>1, <3>1 DEF Once
    <3> QED BY <1>3, <1>4, <1>6, <3>1, <3>2
  <2> QED BY <1>2, <1>8, <2>1 DEF OnceByPlace, Got
<1>10. AllByPlace'
  <2>1. ASSUME ~ shrunk', NEW a \in throughout' \ EngineOdd, Engine!Position(a) <=
               at + EnginePageSize
        PROVE  a \in Engine!Given \/ Has(a)'
    BY <1>1, <1>3, <1>4, <1>6, <2>1
  <2>2. ~ more' => \A a \in engineList : Engine!Position(a) <= at + EnginePageSize
    <3>1. ~ more' => ~ (at + EnginePageSize < Engine!Cardinality(engineList))
      BY <1>2, Zenon
    <3>2. at + EnginePageSize \in Nat /\ Engine!Cardinality(engineList) \in Nat
      BY <1>1, <1>3
    <3> QED BY <1>3, <3>1, <3>2
  <2>3. \A a \in throughout' : Engine!Position(a)' = Engine!Position(a)
    BY <1>1, <1>3
  <2>4. ASSUME ~ shrunk', enginePc' =
               "store", NEW a \in throughout' \ EngineOdd PROVE Has(a)'
    <3>1. Engine!Given = {}
      BY <1>2, <2>4
    <3> QED BY <1>1, <1>3, <1>4, <1>6, <2>4, <3>1
  <2> QED BY <1>1, <1>2, <1>8, <2>1, <2>2, <2>3, <2>4 DEF AllByPlace, Got
<1>11. OnceByCursor' /\ AllByCursor'
  BY <1>4 DEF OnceByCursor, AllByCursor
<1>12. Engine!EachFoundOnce'
  BY <1>8 DEF Engine!EachFoundOnce
<1> QED BY <1>5, <1>7, <1>9, <1>10, <1>11, <1>12 DEF EngInv, Going

LEMMA FetchPubMedInv ==
    ASSUME Engine!HarvesterEnginesAssumption, EngInv, Engine!FetchPubMed
    PROVE  EngInv'
<1>1. /\ Engine!TypeOK /\ Begun /\ OnceByPlace /\ AllByPlace /\ ~ Engine!ByCursor
  BY DEF EngInv, Engine!FetchPubMed, Engine!Asking, Going, Engine!ByCursor
<1>2. /\ engine = "PubMed" /\ enginePc = "fetch" /\ enginePc' = "store" /\ pageLeft' = {}
      /\ engine' = engine /\ engineList' = engineList /\ at' = at /\ more' = more
      /\ expected' = expected /\ missing' = missing /\ loops' = loops /\ found' = found
      /\ throughout' = throughout /\ grown' = grown /\ shrunk' = shrunk
      /\ engineResumed' = engineResumed /\ kept' = kept /\ listChanges' = listChanges
            /\ engineFaultCount' = engineFaultCount
      /\ tries' = 0 /\ hits' = hits + Engine!Cardinality(pageLeft \ EngineOdd)
      /\ batch' = Engine!AsBag(pageLeft \ EngineOdd)
  BY DEF Engine!FetchPubMed, Engine!history
<1>3. pageLeft \in SUBSET Engine!Article /\ hits \in Nat
      /\ \A a \in Engine!Article : found[a] \in Nat /\ batch[a] = 0
  BY <1>1, <1>2, NoneBag DEF Engine!TypeOK, Begun
<1>4. /\ batch' \in [Engine!Article -> Nat]
      /\ \A a \in Engine!Article : batch'[a] = IF a \in pageLeft \ EngineOdd THEN 1 ELSE 0
  BY <1>2, SetBag
<1>5. Engine!TypeOK'
  <2>1. Engine!Cardinality(pageLeft \ EngineOdd) \in Nat
    <3>1. pageLeft \ EngineOdd \in SUBSET Engine!Article
      BY <1>3
    <3> QED BY <3>1, ArticleSets
  <2>2. hits' \in Nat
    BY <1>2, <1>3, <2>1
  <2>3. tries' \in 0..EngineCursorTries + EngineFetchTries
    BY <1>2 DEF Engine!HarvesterEnginesAssumption
  <2> QED BY <1>1, <1>2, <1>4, <2>2, <2>3 DEF Engine!TypeOK
<1>6. Begun'
  BY <1>1, <1>2 DEF Begun
<1>7. Reached' = Reached /\ ~ Engine!ByCursor'
  BY <1>1, <1>2 DEF Reached, Engine!ByCursor
<1>8. \A a \in Engine!Article : /\ Has(a)' => Got(a)
                                /\ a \notin EngineOdd /\ Got(a) => Has(a)'
  BY <1>2, <1>3, <1>4 DEF Has, Got
<1>9. \A a \in engineList : Engine!Position(a)' = Engine!Position(a)
  BY <1>2 DEF Engine!Position
<1>10. engineList \in SUBSET Engine!Article /\ throughout \subseteq engineList
  BY <1>1 DEF Engine!TypeOK, Begun
<1>11. OnceByPlace'
  <2>1. ASSUME ~ kept, ~ grown, NEW a \in Engine!Article PROVE found[a] + batch'[a] <= 1
    <3>1. found[a] + batch[a] <= 1 /\ (a \in pageLeft => ~ (found[a] + batch[a] > 0))
      BY <1>1, <2>1 DEF OnceByPlace, Once, Has
    <3> QED BY <1>3, <1>4, <3>1
  <2>2. ~ kept /\ ~ grown => Once'
    BY <1>2, <2>1 DEF Once
  <2>3. ~ kept /\ ~ grown => \A a \in engineList : Has(a)' =>
        Engine!Position(a)' <= Reached'
    BY <1>1, <1>7, <1>8, <1>9, <1>10 DEF OnceByPlace
  <2> QED BY <1>2, <2>2, <2>3 DEF OnceByPlace, Got
<1>12. AllByPlace'
  BY <1>1, <1>2, <1>7, <1>8, <1>9, <1>10 DEF AllByPlace, Got
<1>13. OnceByCursor' /\ AllByCursor' /\ Engine!EachFoundOnce'
  BY <1>2, <1>7 DEF OnceByCursor, AllByCursor, Engine!EachFoundOnce
<1> QED BY <1>5, <1>6, <1>11, <1>12, <1>13 DEF EngInv, Going

LEMMA FetchElsevierInv ==
    ASSUME Engine!HarvesterEnginesAssumption, EngInv, Engine!FetchElsevier
    PROVE  EngInv'
<1> DEFINE b == Engine!Min(pageLeft)
<1>1. /\ Engine!TypeOK /\ Begun /\ OnceByPlace /\ AllByPlace /\ ~ Engine!ByCursor
  BY DEF EngInv, Engine!FetchElsevier, Engine!Asking, Going, Engine!ByCursor
<1>2. /\ engine = "Elsevier" /\ enginePc = "fetch" /\ pageLeft' = pageLeft \ {b}
      /\ engine' = engine /\ engineList' = engineList /\ at' = at /\ more' = more
      /\ hits' = hits /\ tries' = tries /\ loops' = loops /\ found' = found
      /\ throughout' = throughout /\ grown' = grown /\ shrunk' = shrunk
      /\ engineResumed' = engineResumed /\ kept' = kept /\ listChanges' = listChanges
            /\ engineFaultCount' = engineFaultCount
      /\ b \in EngineOdd =>
            missing' = missing + 1 /\ expected' = expected - 1 /\ batch' = batch
      /\ b \notin EngineOdd => /\ missing' = missing /\ expected' = expected
                               /\ batch' = Engine!Sum(batch, Engine!AsBag({b}))
      /\ enginePc' = IF pageLeft # {b} THEN "fetch" ELSE IF more THEN "ask" ELSE "store"
  BY DEF Engine!FetchElsevier, Engine!history
<1>3. /\ pageLeft \in SUBSET Engine!Article /\ pageLeft # {} /\ expected \in Int
            /\ missing \in Nat
      /\ \A a \in Engine!Article : found[a] \in Nat /\ batch[a] \in Nat
  BY <1>1, <1>2 DEF Engine!TypeOK, Begun
<1>4. b \in pageLeft
  BY <1>3, Ends
<1> HIDE DEF b
<1>5. /\ batch' \in [Engine!Article -> Nat]
      /\ \A a \in Engine!Article :
            batch'[a] = IF a = b /\ b \notin EngineOdd THEN batch[a] + 1 ELSE batch[a]
  <2>1. batch \in [Engine!Article -> Nat]
    BY <1>1 DEF Engine!TypeOK
  <2>2. CASE b \in EngineOdd
    BY <1>2, <2>1, <2>2
  <2>3. CASE b \notin EngineOdd
    <3>1. /\ Engine!AsBag({b}) \in [Engine!Article -> Nat]
          /\ \A a \in Engine!Article : Engine!AsBag({b})[a] = IF a \in {b} THEN 1 ELSE 0
      BY SetBag
    <3>2. batch' = Engine!Sum(batch, Engine!AsBag({b}))
      BY <1>2, <2>3
    <3>3. /\ Engine!Sum(batch, Engine!AsBag({b})) \in [Engine!Article -> Nat]
          /\ \A a \in Engine!Article :
                Engine!Sum(batch, Engine!AsBag({b}))[a] = batch[a] + Engine!AsBag({b})[a]
      BY <2>1, <3>1, SumBag
    <3>4. \A a \in Engine!Article : Engine!AsBag({b})[a] = IF a = b THEN 1 ELSE 0
      BY <3>1
    <3>5. ASSUME NEW a \in Engine!Article
          PROVE  batch'[a] = IF a = b THEN batch[a] + 1 ELSE batch[a]
      <4>1. batch'[a] = batch[a] + Engine!AsBag({b})[a] /\ batch[a] \in Nat
        BY <1>3, <3>2, <3>3
      <4>2. Engine!AsBag({b})[a] = IF a = b THEN 1 ELSE 0
        BY <3>4
      <4> QED BY <4>1, <4>2
    <3> QED BY <2>3, <3>2, <3>3, <3>5
  <2> QED BY <2>2, <2>3
<1>6. expected' \in Int /\ missing' \in Nat /\ enginePc' \in {"ask", "fetch", "store"}
      /\ expected' # EngineNotRead
  BY <1>2, <1>3 DEF Engine!HarvesterEnginesAssumption
<1>7. Engine!TypeOK'
  BY <1>1, <1>2, <1>3, <1>5, <1>6 DEF Engine!TypeOK
<1>8. /\ enginePc' = "fetch" <=> pageLeft' # {}
      /\ enginePc' = "ask" => more
  BY <1>2, <1>4
<1>9. Begun'
  <2>1. ~ Engine!ByCursor'
    BY <1>2 DEF Engine!ByCursor
  <2> QED BY <1>1, <1>2, <1>6, <1>8, <2>1 DEF Begun
<1>10. Reached' = Reached /\ ~ Engine!ByCursor'
  BY <1>1, <1>2 DEF Reached, Engine!ByCursor
<1>11. \A a \in Engine!Article : /\ Got(a)' => Got(a)
                                 /\ a \notin EngineOdd /\ Got(a) => Got(a)'
  BY <1>2, <1>3, <1>4, <1>5 DEF Has, Got
<1>12. \A a \in engineList : Engine!Position(a)' = Engine!Position(a)
  BY <1>2 DEF Engine!Position
<1>13. engineList \in SUBSET Engine!Article /\ throughout \subseteq engineList
  BY <1>1 DEF Engine!TypeOK, Begun
<1>14. OnceByPlace'
  <2>1. ASSUME ~ kept, ~ grown, NEW a \in Engine!Article
        PROVE  found[a] + batch'[a] <= 1
               /\ (a \in pageLeft' => ~ (found[a] + batch'[a] > 0))
    <3>1. found[a] + batch[a] <= 1 /\ (a \in pageLeft => ~ (found[a] + batch[a] > 0))
      BY <1>1, <2>1 DEF OnceByPlace, Once, Has
    <3>2. CASE a = b
      BY <1>2, <1>3, <1>4, <1>5, <3>1, <3>2
    <3>3. CASE a # b
      BY <1>2, <1>3, <1>5, <3>1, <3>3
    <3> QED BY <3>2, <3>3
  <2>2. ~ kept /\ ~ grown => Once' /\ \A a \in pageLeft' : ~ Has(a)'
    <3>1. pageLeft' \subseteq Engine!Article
      BY <1>2, <1>3
    <3> QED BY <1>2, <2>1, <3>1 DEF Once, Has
  <2>3. ~ kept /\ ~ grown => \A a \in engineList : Got(a)' =>
        Engine!Position(a)' <= Reached'
    BY <1>1, <1>10, <1>11, <1>12, <1>13 DEF OnceByPlace
  <2> QED BY <1>2, <2>2, <2>3 DEF OnceByPlace
<1>15. AllByPlace'
  <2>1. ASSUME ~ shrunk, NEW a \in throughout \ EngineOdd
        PROVE  /\ Engine!Position(a)' <= Reached' => Got(a)'
               /\ ~ more => Got(a)'
    BY <1>1, <1>2, <1>10, <1>11, <1>12, <1>13, <2>1 DEF AllByPlace
  <2>2. enginePc' = "store" => ~ more
    BY <1>2
  <2> QED BY <1>2, <2>1, <2>2 DEF AllByPlace
<1>16. OnceByCursor' /\ AllByCursor' /\ Engine!EachFoundOnce'
  BY <1>6, <1>10 DEF OnceByCursor, AllByCursor, Engine!EachFoundOnce
<1> QED BY <1>7, <1>9, <1>14, <1>15, <1>16 DEF EngInv, Going

LEMMA StorePageInv ==
    ASSUME Engine!HarvesterEnginesAssumption, EngInv, Engine!StorePage
    PROVE  EngInv'
<1>1. Engine!TypeOK /\ Begun /\ OnceByPlace /\ AllByPlace /\ OnceByCursor /\ AllByCursor
  BY DEF EngInv, Engine!StorePage, Engine!Asking, Going
<1>2. /\ engine # "Elsevier" /\ enginePc = "store" /\ pageLeft' = pageLeft
      /\ engine' = engine /\ engineList' = engineList /\ more' = more
            /\ expected' = expected
      /\ missing' = missing /\ hits' = hits /\ tries' = tries /\ loops' = loops
      /\ throughout' = throughout /\ grown' = grown /\ shrunk' = shrunk
      /\ engineResumed' = engineResumed /\ kept' = kept /\ listChanges' = listChanges
            /\ engineFaultCount' = engineFaultCount
      /\ found' = Engine!Sum(found, batch) /\ batch' = Engine!None
      /\ enginePc' = IF Engine!GoesOn THEN "ask" ELSE "done"
      /\ at' = IF engine = "PubMed" THEN at + EnginePageSize ELSE at
  BY DEF Engine!StorePage, Engine!history
<1>3. /\ pageLeft = {} /\ expected # EngineNotRead /\ expected \in Int /\ at \in Nat
      /\ EnginePageSize \in Nat /\ hits \in Nat
  BY <1>1, <1>2 DEF Begun, Engine!TypeOK, Engine!HarvesterEnginesAssumption
<1>4. /\ found' \in [Engine!Article -> Nat] /\ batch' \in [Engine!Article -> Nat]
      /\ \A a \in Engine!Article : /\ found'[a] = found[a] + batch[a] /\ batch'[a] = 0
                                   /\ found[a] \in Nat /\ batch[a] \in Nat
  BY <1>1, <1>2, NoneBag, SumBag DEF Engine!TypeOK
<1>5. Engine!TypeOK'
  <2>1. at' \in Nat /\ enginePc' \in {"ask", "fetch", "store", "done", "failed"}
    BY <1>2, <1>3
  <2> QED BY <1>1, <1>2, <1>4, <2>1 DEF Engine!TypeOK
<1>6. \A a \in Engine!Article : /\ found'[a] + batch'[a] = found[a] + batch[a]
                                /\ Has(a)' <=> Has(a)
                                /\ Got(a)' <=> Has(a)
                                /\ Got(a) <=> Has(a)
                                /\ Has(a) <=> found'[a] > 0
  BY <1>2, <1>3, <1>4 DEF Has, Got
<1>7. engineList \in SUBSET Engine!Article /\ throughout \subseteq engineList
      /\ throughout \subseteq Engine!Article
      /\ \A a \in throughout : a \in Nat
  BY <1>1 DEF Engine!TypeOK, Begun, Engine!Article
<1>8. CASE Engine!GoesOn
  <2>1. enginePc' = "ask"
    BY <1>2, <1>8
  <2>2. Begun'
    BY <1>1, <1>2, <1>3, <2>1 DEF Begun, Engine!None
  <2>3. Once' <=> Once
    BY <1>6 DEF Once
  <2>4. Engine!ByCursor => at' = at
    BY <1>2 DEF Engine!ByCursor
  <2>5. Engine!ByCursor' <=> Engine!ByCursor
    BY <1>2 DEF Engine!ByCursor
  <2>6. OnceByCursor'
    BY <1>1, <1>2, <1>6, <2>3, <2>4, <2>5 DEF OnceByCursor
  <2>7. AllByCursor'
    <3>1. Engine!Overtaken' <=> Engine!Overtaken
      BY <1>2 DEF Engine!Overtaken
    <3>2. Engine!ByCursor => After(engineList, at)' = After(engineList, at)
                      /\ UpTo(engineList, at)' = UpTo(engineList, at)
      BY <1>2, <2>4 DEF After, UpTo
    <3> QED BY <1>1, <1>2, <1>6, <1>7, <2>1, <2>4, <2>5, <3>1, <3>2 DEF AllByCursor
  <2>8. ~ Engine!ByCursor => engine = "PubMed"
    <3>1. engine \in {"EPMC", "Crossref", "PubMed", "Elsevier"}
      BY <1>1 DEF Engine!TypeOK, Engine!HarvesterEnginesAssumption
    <3> QED BY <1>2, <3>1 DEF Engine!ByCursor
  <2>9. ~ Engine!ByCursor => Reached' = Reached
    BY <1>2, <2>1, <2>8 DEF Reached
  <2>10. \A a \in engineList : Engine!Position(a)' = Engine!Position(a)
    BY <1>2 DEF Engine!Position
  <2>11. OnceByPlace'
    BY <1>1, <1>2, <1>3, <1>6, <1>7, <2>3, <2>5, <2>9, <2>10 DEF OnceByPlace
  <2>12. AllByPlace'
    BY <1>1, <1>2, <1>6, <1>7, <2>1, <2>5, <2>9, <2>10 DEF AllByPlace
  <2> QED BY <1>5, <2>1, <2>2, <2>6, <2>7, <2>11, <2>12 DEF EngInv, Going,
             Engine!EachFoundOnce
<1>9. CASE ~ Engine!GoesOn
  <2>1. enginePc' = "done"
    BY <1>2, <1>9
  <2>2. ~ more \/ (Engine!ByCursor /\ ~ (hits < expected))
    BY <1>9 DEF Engine!GoesOn
  <2>3. CASE ~ Engine!ByCursor
    <3>1. ~ more
      BY <2>2, <2>3
    <3>2. ~ shrunk => \A a \in throughout \ EngineOdd : Has(a)
      BY <1>1, <1>2, <1>6, <1>7, <2>3, <3>1 DEF AllByPlace
    <3>3. ~ kept /\ ~ grown => Once
      BY <1>1, <2>3 DEF OnceByPlace
    <3>4. ~ shrunk => \A a \in throughout \ EngineOdd : found'[a] > 0
      BY <1>6, <1>7, <3>2
    <3>5. ~ kept /\ ~ grown => \A a \in Engine!Article : found'[a] <= 1
      BY <1>4, <3>3 DEF Once
    <3> QED BY <1>2, <1>5, <1>7, <2>1, <2>3, <3>4, <3>5 DEF EngInv, Engine!Asking,
               Engine!EachFoundOnce, Engine!Overtaken, Engine!Repeating, Engine!Expected,
               Engine!Found, Engine!ByCursor
  <2>4. CASE Engine!ByCursor
    <3>1. ~ kept => \A a \in Engine!Article : found'[a] <= 1
      BY <1>1, <1>4, <2>4 DEF OnceByCursor, Once
    <3>2. ASSUME ~ (engine = "EPMC" /\ engineResumed), ~ Engine!Overtaken,
                 NEW a \in throughout
          PROVE  a <= at
      <4>1. CASE ~ more
        BY <1>1, <1>2, <2>4, <3>2, <4>1 DEF AllByCursor
      <4>2. CASE more
        <5>1. ~ (hits < expected)
          BY <2>2, <4>2
        <5>2. After(engineList, at) \in SUBSET Engine!Article
              /\ After(throughout, at) \in SUBSET Engine!Article
          BY <1>7 DEF After
        <5>3. /\ Engine!Cardinality(After(engineList, at)) \in Nat
              /\ Engine!Cardinality(After(throughout, at)) \in Nat
              /\ After(engineList, at) = {} <=>
                    Engine!Cardinality(After(engineList, at)) = 0
              /\ After(throughout, at) = {} <=>
                    Engine!Cardinality(After(throughout, at)) = 0
          BY <5>2, ArticleSets
        <5>4. CASE engine = "EPMC"
          <6>1. hits + Engine!Cardinality(After(engineList, at)) <= expected
            BY <1>1, <1>3, <2>4, <3>2, <5>4 DEF AllByCursor, Engine!Overtaken
          <6>2. After(engineList, at) = {}
            BY <1>3, <5>1, <5>3, <6>1
          <6> QED BY <1>3, <1>7, <3>2, <6>2 DEF After
        <5>5. CASE engine = "Crossref"
          <6>1. hits + Engine!Cardinality(After(throughout, at)) <= expected
            BY <1>1, <1>2, <1>3, <2>4, <3>2, <5>5 DEF AllByCursor, Engine!Overtaken
          <6>2. After(throughout, at) = {}
            BY <1>3, <5>1, <5>3, <6>1
          <6> QED BY <1>3, <1>7, <3>2, <6>2 DEF After
        <5> QED BY <2>4, <5>4, <5>5 DEF Engine!ByCursor
      <4> QED BY <4>1, <4>2
    <3>3. ~ (engine = "EPMC" /\ engineResumed) /\ ~ Engine!Overtaken =>
             \A a \in throughout : found'[a] > 0
      <4>1. ~ (engine = "EPMC" /\ engineResumed) /\ ~ Engine!Overtaken =>
               \A a \in throughout : Has(a)
        BY <1>1, <2>4, <3>2 DEF AllByCursor
      <4> QED BY <1>6, <1>7, <4>1
    <3>4. Engine!Overtaken' <=> Engine!Overtaken
      BY <1>2 DEF Engine!Overtaken
    <3> QED BY <1>2, <1>5, <1>7, <2>1, <2>4, <3>1, <3>3, <3>4 DEF EngInv, Engine!Asking,
               Engine!EachFoundOnce, Engine!Expected, Engine!Found, Engine!ByCursor
  <2> QED BY <2>3, <2>4
<1> QED BY <1>8, <1>9

LEMMA StoreAllInv ==
    ASSUME Engine!HarvesterEnginesAssumption, EngInv, Engine!StoreAll
    PROVE  EngInv'
<1>1. Engine!TypeOK /\ Begun /\ OnceByPlace /\ AllByPlace /\ ~ Engine!ByCursor
  BY DEF EngInv, Engine!StoreAll, Engine!Asking, Going, Engine!ByCursor
<1>2. /\ engine = "Elsevier" /\ enginePc = "store"
      /\ engine' = engine /\ engineList' = engineList /\ listChanges' = listChanges
            /\ engineFaultCount' = engineFaultCount
  BY DEF Engine!StoreAll
<1>3. /\ Engine!Sum(found, batch) \in [Engine!Article -> Nat]
      /\ \A a \in Engine!Article : Engine!Sum(found, batch)[a] = found[a] + batch[a]
  BY <1>1, SumBag DEF Engine!TypeOK
<1>4. CASE Engine!Raise(Engine!Sum(found, batch))
  <2>1. engineFaultCount' \in 0..EngineFaults
    BY <1>1, <1>2 DEF Engine!TypeOK
  <2> QED BY <1>1, <1>2, <1>3, <1>4, <2>1, RaiseInv
<1>5. CASE /\ found' = Engine!Sum(found, batch) /\ batch' = Engine!None
           /\ enginePc' = "done"
           /\ UNCHANGED <<at, more, pageLeft, hits, expected, missing, tries, loops,
                 Engine!history>>
  <2>1. Engine!TypeOK'
    BY <1>1, <1>2, <1>3, <1>5, NoneBag DEF Engine!TypeOK, Engine!history
  <2>2. pageLeft = {} /\ throughout \subseteq Engine!Article
    BY <1>1, <1>2 DEF Begun, Engine!TypeOK
  <2>3. ~ shrunk => \A a \in throughout \ EngineOdd : found'[a] > 0
    BY <1>1, <1>2, <1>3, <1>5, <2>2 DEF AllByPlace, Got, Has
  <2>4. ~ kept /\ ~ grown => \A a \in Engine!Article : found'[a] <= 1
    BY <1>1, <1>3, <1>5 DEF OnceByPlace, Once
  <2>5. Engine!EachFoundOnce'
    BY <1>1, <1>2, <1>5, <2>2, <2>3, <2>4 DEF Engine!EachFoundOnce, Engine!Overtaken,
         Engine!Repeating, Engine!Expected, Engine!Found, Engine!ByCursor, Engine!history
  <2> QED BY <1>5, <2>1, <2>5 DEF EngInv, Engine!Asking
<1> QED BY <1>4, <1>5 DEF Engine!StoreAll

LEMMA FailureInv ==
    ASSUME Engine!HarvesterEnginesAssumption, EngInv, Engine!RequestFails
           \/ Engine!StoreFails
    PROVE  EngInv'
<1>1. Engine!TypeOK /\ Going
  BY DEF EngInv, Engine!RequestFails, Engine!StoreFails, Engine!Asking
<1>2. /\ engine' = engine /\ engineList' = engineList /\ listChanges' = listChanges
      /\ engineFaultCount' \in 0..EngineFaults
  BY <1>1 DEF Engine!RequestFails, Engine!StoreFails, Engine!Fault, Engine!TypeOK,
       Engine!HarvesterEnginesAssumption
<1>3. CASE Engine!RequestFails /\ Engine!Raise(found)
  BY <1>1, <1>2, <1>3, RaiseInv DEF Engine!TypeOK
<1>4. CASE /\ Engine!TriesLeft /\ tries' = tries + 1 /\ enginePc \in {"ask", "fetch"}
           /\ UNCHANGED <<enginePc, Engine!place, loops, found, Engine!history>>
  <2>1. tries' \in 0..EngineCursorTries + EngineFetchTries
    BY <1>1, <1>4 DEF Engine!TriesLeft, Engine!TypeOK, Engine!HarvesterEnginesAssumption
  <2>2. Engine!TypeOK'
    BY <1>1, <1>2, <1>4, <2>1 DEF Engine!TypeOK, Engine!place, Engine!history
  <2>3. \A a : (Has(a)' <=> Has(a)) /\ (Got(a)' <=> Got(a))
        /\ Engine!Position(a)' = Engine!Position(a)
    BY <1>2, <1>4 DEF Has, Got, Engine!Position, Engine!place
  <2>4. (Once' <=> Once) /\ (Engine!ByCursor' <=> Engine!ByCursor)
        /\ (Engine!Overtaken' <=> Engine!Overtaken)
        /\ Reached' = Reached
    BY <1>2, <1>4 DEF Once, Engine!ByCursor, Engine!Overtaken, Reached, Engine!place,
         Engine!history
  <2>5. /\ After(engineList, at)' = After(engineList, at)
              /\ UpTo(engineList, at)' = UpTo(engineList, at)
        /\ After(throughout, at)' = After(throughout, at)
    BY <1>2, <1>4 DEF After, UpTo, Engine!place, Engine!history
  <2>6. Begun' /\ OnceByCursor' /\ OnceByPlace'
    <3>1. Begun'
      BY <1>1, <1>2, <1>4, <2>4 DEF Going, Begun, Engine!place, Engine!history,
           Engine!None
    <3>2. OnceByCursor' /\ OnceByPlace'
      BY <1>1, <1>2, <1>4, <2>3, <2>4 DEF Going, OnceByCursor, OnceByPlace, Engine!place,
           Engine!history
    <3> QED BY <3>1, <3>2
  <2>7. AllByCursor'
    BY <1>1, <1>2, <1>4, <2>3, <2>4, <2>5 DEF Going, AllByCursor, Engine!place,
         Engine!history
  <2>8. AllByPlace'
    BY <1>1, <1>2, <1>4, <2>3, <2>4 DEF Going, AllByPlace, Engine!place, Engine!history
  <2>9. Engine!EachFoundOnce'
    BY <1>4 DEF Engine!EachFoundOnce
  <2> QED BY <2>2, <2>6, <2>7, <2>8, <2>9 DEF EngInv, Going
<1>5. CASE Engine!StoreFails
  <2>1. Engine!TypeOK'
    BY <1>1, <1>2, <1>5, NoneBag DEF Engine!StoreFails, Engine!TypeOK, Engine!place,
         Engine!history
  <2> QED BY <1>5, <2>1 DEF Engine!StoreFails, EngInv, Engine!Asking, Engine!EachFoundOnce
<1> QED BY <1>3, <1>4, <1>5 DEF Engine!RequestFails

LEMMA ListInv ==
    ASSUME Engine!HarvesterEnginesAssumption, EngInv, NEW b \in Engine!Article,
           Engine!List(b)
    PROVE  EngInv'
<1>1. /\ Engine!TypeOK /\ Begun /\ OnceByPlace /\ AllByPlace /\ OnceByCursor /\ AllByCursor
      /\ enginePc \in {"ask", "fetch", "store"}
  BY DEF EngInv, Engine!List, Engine!Change, Engine!Asking, Going
<1>2. /\ engineList' = engineList \cup {b} /\ grown' = (grown \/ expected # EngineNotRead)
      /\ engine' = engine /\ enginePc' = enginePc /\ at' = at /\ more' = more
            /\ pageLeft' = pageLeft
      /\ batch' = batch /\ hits' = hits /\ expected' = expected /\ missing' = missing
      /\ tries' = tries /\ loops' = loops /\ found' = found
      /\ throughout' = throughout /\ shrunk' = shrunk /\ engineResumed' = engineResumed
      /\ kept' = kept /\ engineFaultCount' = engineFaultCount
      /\ listChanges < EngineChanges /\ listChanges' = listChanges + 1
  BY DEF Engine!List, Engine!Change, Engine!place
<1>3. engineList' \in SUBSET Engine!Article /\ engineList \in SUBSET engineList'
      /\ throughout \subseteq engineList
  BY <1>1, <1>2 DEF Engine!TypeOK, Begun
<1>4. Engine!TypeOK'
  <2>1. listChanges' \in 0..EngineChanges /\ grown' \in BOOLEAN
    BY <1>1, <1>2 DEF Engine!TypeOK, Engine!HarvesterEnginesAssumption
  <2> QED BY <1>1, <1>2, <1>3, <2>1 DEF Engine!TypeOK
<1>5. /\ \A a : (Has(a)' <=> Has(a)) /\ (Got(a)' <=> Got(a))
      /\ (Once' <=> Once) /\ (Engine!ByCursor' <=> Engine!ByCursor) /\ Reached' = Reached
  BY <1>2 DEF Has, Got, Once, Engine!ByCursor, Reached
<1>6. Begun'
  BY <1>1, <1>2, <1>3, <1>5 DEF Begun, Engine!None
<1>7. OnceByCursor'
  BY <1>1, <1>2, <1>5 DEF OnceByCursor
<1>8. ~ grown' => ~ grown /\ expected = EngineNotRead
  BY <1>1, <1>2 DEF Engine!TypeOK
<1>9. AllByCursor'
  <2>1. ~ Engine!Overtaken' => ~ Engine!Overtaken
    BY <1>2, <1>8 DEF Engine!Overtaken
  <2>2. After(throughout, at)' = After(throughout, at)
    BY <1>2 DEF After
  <2>3. /\ Engine!Cardinality(UpTo(engineList, at)) \in Nat
              /\ Engine!Cardinality(UpTo(engineList, at)') \in Nat
        /\ Engine!Cardinality(UpTo(engineList, at)) <=
              Engine!Cardinality(UpTo(engineList, at)')
    <3>1. UpTo(engineList, at) \in SUBSET UpTo(engineList, at)'
          /\ UpTo(engineList, at)' \in SUBSET Engine!Article
      BY <1>2, <1>3 DEF UpTo
    <3>2. UpTo(engineList, at) \in SUBSET Engine!Article
      BY <3>1
    <3> QED BY <3>1, <3>2, ArticleSets
  <2>4. hits \in Nat
    BY <1>1 DEF Engine!TypeOK
  <2>5. engine = "Crossref" /\ Engine!ByCursor /\ ~ shrunk =>
        hits <= Engine!Cardinality(UpTo(engineList, at)')
    BY <1>1, <2>3, <2>4 DEF AllByCursor
  <2> QED BY <1>1, <1>2, <1>5, <1>8, <2>1, <2>2, <2>5 DEF AllByCursor
<1>10. OnceByPlace'
  <2>1. ASSUME ~ kept, ~ grown' PROVE pageLeft = {} /\ \A a \in Engine!Article :
               found[a] + batch[a] = 0
    <3>1. batch = Engine!None /\ found = Engine!None /\ pageLeft = {}
      BY <1>1, <1>8, <2>1 DEF Begun
    <3> QED BY <3>1, NoneBag
  <2>2. ~ kept /\ ~ grown' => pageLeft = {} /\ Once /\ \A a \in Engine!Article : ~ Got(a)
    BY <2>1 DEF Once, Got, Has
  <2> QED BY <1>2, <1>3, <1>5, <2>2 DEF OnceByPlace
<1>11. AllByPlace'
  <2>1. \A a \in throughout : /\ Engine!Position(a) \in Nat /\ Engine!Position(a)' \in Nat
                              /\ Engine!Position(a) <= Engine!Position(a)'
    <3>1. \A a \in throughout : Engine!Position(a) = Place(engineList, a)
          /\ Engine!Position(a)' = Place(engineList', a)
      BY DEF Engine!Position, Place, UpTo
    <3> QED BY <1>3, <3>1, PlaceType
  <2>2. Reached \in Nat
    BY <1>1 DEF Reached, Engine!TypeOK, Engine!HarvesterEnginesAssumption
  <2> QED BY <1>1, <1>2, <1>5, <2>1, <2>2 DEF AllByPlace
<1>12. Engine!EachFoundOnce'
  BY <1>1, <1>2 DEF Engine!EachFoundOnce
<1> QED BY <1>4, <1>6, <1>7, <1>9, <1>10, <1>11, <1>12 DEF EngInv, Going

LEMMA WithdrawInv ==
    ASSUME Engine!HarvesterEnginesAssumption, EngInv, NEW b \in Engine!Article,
           Engine!Withdraw(b)
    PROVE  EngInv'
<1>1. /\ Engine!TypeOK /\ Begun /\ OnceByPlace /\ AllByPlace /\ OnceByCursor /\ AllByCursor
      /\ enginePc \in {"ask", "fetch", "store"}
  BY DEF EngInv, Engine!Withdraw, Engine!Change, Engine!Asking, Going
<1>2. /\ engineList' = engineList \ {b} /\ throughout' = throughout \ {b}
      /\ shrunk' = (shrunk \/ expected # EngineNotRead)
      /\ engine' = engine /\ enginePc' = enginePc /\ at' = at /\ more' = more
            /\ pageLeft' = pageLeft
      /\ batch' = batch /\ hits' = hits /\ expected' = expected /\ missing' = missing
      /\ tries' = tries /\ loops' = loops /\ found' = found
      /\ grown' = grown /\ engineResumed' = engineResumed
      /\ kept' = kept /\ engineFaultCount' = engineFaultCount
      /\ listChanges < EngineChanges /\ listChanges' = listChanges + 1
  BY DEF Engine!Withdraw, Engine!Change, Engine!place
<1>3. engineList \in SUBSET Engine!Article /\ engineList' \in SUBSET engineList
      /\ throughout' \subseteq engineList'
      /\ throughout' \subseteq throughout
  BY <1>1, <1>2 DEF Engine!TypeOK, Begun
<1>4. Engine!TypeOK'
  <2>1. listChanges' \in 0..EngineChanges /\ shrunk' \in BOOLEAN
    BY <1>1, <1>2 DEF Engine!TypeOK, Engine!HarvesterEnginesAssumption
  <2>2. throughout' \subseteq Engine!Article /\ engineList' \subseteq Engine!Article
    BY <1>3
  <2> QED BY <1>1, <1>2, <2>1, <2>2 DEF Engine!TypeOK
<1>5. /\ \A a : (Has(a)' <=> Has(a)) /\ (Got(a)' <=> Got(a))
      /\ (Once' <=> Once) /\ (Engine!ByCursor' <=> Engine!ByCursor) /\ Reached' = Reached
  BY <1>2 DEF Has, Got, Once, Engine!ByCursor, Reached
<1>6. Begun'
  <2>1. expected = EngineNotRead => throughout' = {}
    BY <1>1, <1>3 DEF Begun
  <2> QED BY <1>1, <1>2, <1>3, <1>5, <2>1 DEF Begun, Engine!None
<1>7. OnceByCursor'
  BY <1>1, <1>2, <1>5 DEF OnceByCursor
<1>8. ~ shrunk' => /\ ~ shrunk /\ expected = EngineNotRead /\ throughout' = {} /\ hits = 0
                   /\ enginePc = "ask"
  BY <1>1, <1>2, <1>3 DEF Engine!TypeOK, Begun
<1>9. AllByCursor'
  <2>1. ~ Engine!Overtaken' => ~ Engine!Overtaken
    BY <1>2, <1>8 DEF Engine!Overtaken
  <2>2. /\ Engine!Cardinality(UpTo(engineList, at)') \in Nat
        /\ Engine!Cardinality(After(engineList, at)) \in Nat
              /\ Engine!Cardinality(After(engineList, at)') \in Nat
        /\ Engine!Cardinality(After(engineList, at)') <=
              Engine!Cardinality(After(engineList, at))
    <3>1. /\ UpTo(engineList, at)' \in SUBSET Engine!Article
                /\ After(engineList, at) \in SUBSET Engine!Article
          /\ After(engineList, at)' \in SUBSET After(engineList, at)
      BY <1>2, <1>3 DEF UpTo, After
    <3>2. After(engineList, at)' \in SUBSET Engine!Article
      BY <3>1
    <3> QED BY <3>1, <3>2, ArticleSets
  <2>3. hits \in Nat
    BY <1>1 DEF Engine!TypeOK
  <2>4. ASSUME Engine!ByCursor, ~ (engine = "EPMC" /\ engineResumed), engine =
               "EPMC", ~ grown,
               expected # EngineNotRead
        PROVE  hits + Engine!Cardinality(After(engineList, at)') <= expected
    <3>1. hits + Engine!Cardinality(After(engineList, at)) <= expected
      BY <1>1, <2>4 DEF AllByCursor
    <3>2. expected \in Int
      BY <1>1, <2>4 DEF Engine!TypeOK
    <3> QED BY <2>2, <2>3, <3>1, <3>2
  <2>5. engine = "Crossref" /\ ~ shrunk' =>
        hits <= Engine!Cardinality(UpTo(engineList, at)')
    BY <1>8, <2>2
  <2> QED BY <1>1, <1>2, <1>3, <1>5, <1>8, <2>1, <2>4, <2>5 DEF AllByCursor
<1>10. \A a \in engineList' : /\ Engine!Position(a) \in Nat /\ Engine!Position(a)' \in Nat
                              /\ Engine!Position(a)' <= Engine!Position(a)
  <2>1. \A a \in engineList' : Engine!Position(a) = Place(engineList, a)
        /\ Engine!Position(a)' = Place(engineList', a)
    BY DEF Engine!Position, Place, UpTo
  <2> QED BY <1>3, <2>1, PlaceType
<1>11. OnceByPlace'
  <2>1. Reached \in Nat
    BY <1>1 DEF Reached, Engine!TypeOK, Engine!HarvesterEnginesAssumption
  <2> QED BY <1>1, <1>2, <1>3, <1>5, <1>10, <2>1 DEF OnceByPlace
<1>12. AllByPlace'
  BY <1>8 DEF AllByPlace
<1>13. Engine!EachFoundOnce'
  BY <1>1, <1>2 DEF Engine!EachFoundOnce
<1> QED BY <1>4, <1>6, <1>7, <1>9, <1>11, <1>12, <1>13 DEF EngInv, Going

LEMMA EngInit == ASSUME Engine!HarvesterEnginesAssumption, Engine!Init PROVE EngInv
<1>1. \A a \in Engine!Article : found[a] + batch[a] = 0
  BY NoneBag DEF Engine!Init
<1>2. Engine!TypeOK
  <2>1. 0 \in 0..EngineChanges /\ 0 \in 0..EngineFaults /\ 0 \in 0..EngineTryTimes
        /\ 0 \in 0..EngineCursorTries + EngineFetchTries
    BY DEF Engine!HarvesterEnginesAssumption
  <2> QED BY <2>1, NoneBag DEF Engine!Init, Engine!TypeOK,
             Engine!HarvesterEnginesAssumption
<1>3. Begun
  BY DEF Begun, Engine!Init
<1>4. OnceByCursor /\ OnceByPlace
  <2>1. Once /\ \A a \in Engine!Article : ~ Has(a)
    BY <1>1 DEF Once, Has
  <2> QED BY <1>2, <2>1 DEF OnceByCursor, OnceByPlace, Engine!Init, Engine!TypeOK, Got
<1>5. AllByCursor /\ AllByPlace
  <2>1. UpTo(engineList, at) \in SUBSET Engine!Article
    BY <1>2 DEF UpTo, Engine!TypeOK
  <2>2. Engine!Cardinality(UpTo(engineList, at)) \in Nat
    BY <2>1, ArticleSets
  <2> QED BY <2>2 DEF AllByCursor, AllByPlace, Engine!Init
<1>6. Engine!EachFoundOnce
  BY DEF Engine!EachFoundOnce, Engine!Init
<1> QED BY <1>2, <1>3, <1>4, <1>5, <1>6 DEF EngInv, Going

LEMMA EngRest == ASSUME EngInv, UNCHANGED Engine!vars PROVE EngInv'
<1>1. /\ (Engine!TypeOK' <=> Engine!TypeOK) /\ (Engine!Asking' <=> Engine!Asking)
            /\ (Engine!EachFoundOnce' <=> Engine!EachFoundOnce)
  BY DEF Engine!vars, Engine!place, Engine!history, Engine!TypeOK, Engine!Asking,
       Engine!EachFoundOnce, Engine!Overtaken, Engine!Repeating, Engine!Expected,
       Engine!Found, Engine!ByCursor
<1>2. (Begun' <=> Begun) /\ (OnceByCursor' <=> OnceByCursor)
      /\ (AllByCursor' <=> AllByCursor)
  BY DEF Engine!vars, Engine!place, Engine!history, Begun, OnceByCursor, AllByCursor,
       Once, Has, Engine!None, Engine!ByCursor, Engine!Overtaken, After, UpTo
<1>3. (OnceByPlace' <=> OnceByPlace) /\ (AllByPlace' <=> AllByPlace)
  BY DEF Engine!vars, Engine!place, Engine!history, OnceByPlace, AllByPlace, Once, Has,
       Got, Engine!ByCursor, Reached, Engine!Position
<1> QED BY <1>1, <1>2, <1>3 DEF EngInv, Going

LEMMA EnginesKept ==
    ASSUME Engine!HarvesterEnginesAssumption PROVE Engine!Spec => []EngInv
<1>1. Engine!Init => EngInv
  BY EngInit
<1>2. EngInv /\ [Engine!Next]_(Engine!vars) => EngInv'
  BY AskByCursorInv, AskPubMedInv, AskElsevierInv, FetchPubMedInv, FetchElsevierInv,
       StorePageInv, StoreAllInv, FailureInv, ListInv, WithdrawInv, EngRest
       DEF Engine!Next, Engine!Work
<1> QED BY <1>1, <1>2, PTL DEF Engine!Spec

\* When an engine has done its work the index has every article that was listed from
\* its first request on, and each of them once, but for the changes and failures that
\* the property names.
THEOREM EachArticleOnce ==
    ASSUME Engine!HarvesterEnginesAssumption PROVE Engine!Spec => []Engine!EachFoundOnce
<1>1. EngInv => Engine!EachFoundOnce
  BY DEF EngInv
<1> QED BY <1>1, EnginesKept, PTL

-----------------------------------------------------------------------------
(* Matching parameters (MatchParams), for any texts, as long as domains    *)
(* look like domains.  What is dropped as redundant is below something     *)
(* that is left, what is below one domain and this below another is below  *)
(* the other, and a text that has a domain as a word of its own is matched *)
(* by whatever the domain is below.                                        *)

\* Texts

\* Texts.  The provers do not know that "." is a string.
Char == STRING \cup {"."}
Text == Seq(Char)

\* d is e, or a domain below e.
Under(d, e) == d = e \/ Match!DomainRedundant(d, e)

LEMMA OneCharacter ==
    ASSUME NEW S, NEW c \in S
    PROVE  <<c>> \in Seq(S) /\ Len(<<c>>) = 1 /\ <<c>>[1] = c
<1>1. <<c>> \in Seq(S)
  OBVIOUS
<1>2. Len(<<c>>) = 1
  OBVIOUS
<1>3. <<c>>[1] = c
  OBVIOUS
<1> QED BY <1>1, <1>2, <1>3

\* What it is for one domain to be below another, character by character
LEMMA Below ==
    ASSUME NEW d \in Text, NEW e \in Text
    PROVE  Match!DomainRedundant(d, e) <=>
              /\ Len(e) < Len(d) /\ d[Len(d) - Len(e)] = "."
              /\ \A k \in 1..Len(e) : e[k] = d[Len(d) - Len(e) + k]
<1> DEFINE p == <<".">> \o e
           n == Len(d) - Len(e)
<1>1. Len(d) \in Nat /\ Len(e) \in Nat
  BY DEF Text
<1>2. p \in Text /\ Len(p) = Len(e) + 1 /\ p[1] = "."
      /\ \A k \in 1..Len(e) : p[k + 1] = e[k]
  <2>1. <<".">> \in Seq(Char) /\ Len(<<".">>) = 1 /\ <<".">>[1] = "."
    <3>1. "." \in Char
      BY DEF Char
    <3> QED BY <3>1, OneCharacter
  <2>2. p \in Text
    BY <2>1 DEF Text
  <2>3. Len(p) = 1 + Len(e)
    BY <2>1 DEF Text
  <2>4. p[1] = "."
    BY <1>1, <2>1, <2>3 DEF Text
  <2>5. ASSUME NEW k \in 1..Len(e) PROVE p[k + 1] = e[k]
    BY <1>1, <2>1, <2>3 DEF Text
  <2> HIDE DEF p
  <2> QED BY <1>1, <2>2, <2>3, <2>4, <2>5
<1>3. Match!DomainRedundant(d, e) <=>
      Len(p) <= Len(d) /\ Match!OccursAt(p, d, Len(d) - Len(p) + 1)
  BY Zenon DEF Match!DomainRedundant, Match!EndsWith
<1> HIDE DEF p
<1>4. Len(p) <= Len(d) <=> Len(e) < Len(d)
  BY <1>1, <1>2
<1>5. Len(d) - Len(p) + 1 = n
  BY <1>1, <1>2
<1>6. Match!OccursAt(p, d, n) <=> \A k \in 1..Len(p) : p[k] = d[n + k - 1]
  BY DEF Match!OccursAt
<1>7. (\A k \in 1..Len(p) : p[k] = d[n + k - 1]) <=>
         d[n] = "." /\ \A k \in 1..Len(e) : e[k] = d[n + k]
  <2>1. ASSUME \A k \in 1..Len(p) : p[k] = d[n + k - 1]
        PROVE  d[n] = "." /\ \A k \in 1..Len(e) : e[k] = d[n + k]
    <3>1. 1 \in 1..Len(p) /\ n + 1 - 1 = n
      BY <1>1, <1>2
    <3>2. ASSUME NEW k \in 1..Len(e) PROVE e[k] = d[n + k]
      <4>1. k + 1 \in 1..Len(p) /\ n + (k + 1) - 1 = n + k
        BY <1>1, <1>2
      <4> QED BY <1>2, <2>1, <4>1
    <3> QED BY <1>2, <2>1, <3>1, <3>2
  <2>2. ASSUME d[n] = ".", \A k \in 1..Len(e) : e[k] = d[n + k], NEW k \in 1..Len(p)
        PROVE  p[k] = d[n + k - 1]
    <3>1. CASE k = 1
      <4>1. n + k - 1 = n
        BY <1>1, <3>1
      <4> QED BY <1>2, <2>2, <3>1, <4>1
    <3>2. CASE k # 1
      <4>1. k - 1 \in 1..Len(e) /\ (k - 1) + 1 = k /\ n + (k - 1) = n + k - 1
        BY <1>1, <1>2, <3>2
      <4> QED BY <1>2, <2>2, <4>1
    <3> QED BY <3>1, <3>2
  <2> QED BY <2>1, <2>2
<1> QED BY <1>3, <1>4, <1>5, <1>6, <1>7

LEMMA UnderTransitive ==
    ASSUME NEW d \in Text, NEW e \in Text, NEW f \in Text, Under(d, e), Under(e, f)
    PROVE  Under(d, f)
<1>1. CASE d = e \/ e = f
  BY <1>1 DEF Under
<1>2. CASE Match!DomainRedundant(d, e) /\ Match!DomainRedundant(e, f)
  <2>1. Len(d) \in Nat /\ Len(e) \in Nat /\ Len(f) \in Nat
    BY DEF Text
  <2>2. Len(e) < Len(d) /\ \A k \in 1..Len(e) : e[k] = d[Len(d) - Len(e) + k]
    BY <1>2, Below
  <2>3. Len(f) < Len(e) /\ e[Len(e) - Len(f)] = "."
        /\ \A k \in 1..Len(f) : f[k] = e[Len(e) - Len(f) + k]
    BY <1>2, Below
  <2>4. ASSUME NEW k \in 0..Len(f)
        PROVE  e[Len(e) - Len(f) + k] = d[Len(d) - Len(f) + k]
    <3>1. Len(e) - Len(f) + k \in 1..Len(e)
          /\ Len(d) - Len(e) + (Len(e) - Len(f) + k) = Len(d) - Len(f) + k
      BY <2>1, <2>3
    <3> QED BY <2>2, <3>1
  <2>5. Len(f) < Len(d)
    BY <2>1, <2>2, <2>3
  <2>6. d[Len(d) - Len(f)] = "."
    <3>1. 0 \in 0..Len(f) /\ Len(e) - Len(f) + 0 = Len(e) - Len(f)
          /\ Len(d) - Len(f) + 0 = Len(d) - Len(f)
      BY <2>1
    <3> QED BY <2>3, <2>4, <3>1
  <2>7. \A k \in 1..Len(f) : f[k] = d[Len(d) - Len(f) + k]
    <3>1. \A k \in 1..Len(f) : k \in 0..Len(f)
      BY <2>1
    <3> QED BY <2>3, <2>4, <3>1
  <2> QED BY <2>5, <2>6, <2>7, Below DEF Under
<1> QED BY <1>1, <1>2 DEF Under

\* Of the domains that are dropped each is below one that is left: the shortest one that
\* it is below.
LEMMA DroppedAreBelow ==
    ASSUME NEW S, S \subseteq Text, NEW d \in S
    PROVE  \E e \in S : /\ Under(d, e)
                        /\ ~ \E f \in S \ {e} : Match!DomainRedundant(e, f)
<1> DEFINE T == {Len(e) : e \in {x \in S : Under(d, x)}}
<1>1. T \subseteq Nat
  BY DEF Text
<1>2. T # {}
  BY DEF Under
<1>3. PICK n \in T : \A m \in T : n <= m
  BY <1>1, <1>2, LeastNatural
<1>4. PICK e \in S : Under(d, e) /\ n = Len(e)
  OBVIOUS
<1>5. ASSUME NEW f \in S, Match!DomainRedundant(e, f) PROVE FALSE
  <2>1. d \in Text /\ e \in Text /\ f \in Text
    OBVIOUS
  <2>2. Len(f) < Len(e) /\ Len(f) \in Nat /\ Len(e) \in Nat
    BY <1>5, <2>1, Below DEF Text
  <2>3. Under(d, f)
    BY <1>4, <1>5, <2>1, UnderTransitive DEF Under
  <2>4. Len(f) \in T
    BY <2>3
  <2> QED BY <1>3, <1>4, <2>2, <2>4
<1> QED BY <1>4, <1>5

\* A text that has a domain as a word of its own has what the domain is below.
LEMMA CaughtBy ==
    ASSUME NEW d \in Text, NEW e \in Text, NEW t \in Text, NEW i \in Nat,
           Match!DomainName(d), Under(d, e), i \in Match!Starts(d, t),
                 Match!OccursAt(d, t, i), Match!Boundary(t, i)
    PROVE  \E j \in Match!Starts(e, t) : /\ j + Len(e) = i + Len(d)
                                         /\ Match!Boundary(t, j) /\ Match!MatchesAt(e, t, j)
<1>1. Len(d) \in Nat /\ Len(e) \in Nat /\ Len(t) \in Nat /\ 1 <= i
      /\ i + Len(d) <= Len(t) + 1
  BY DEF Text, Match!Starts
<1>2. \A k \in 1..Len(d) : d[k] = t[i + k - 1]
  BY DEF Match!OccursAt
<1>3. CASE d = e
  <2>1. Match!MatchesAt(e, t, i)
    BY <1>2, <1>3 DEF Match!MatchesAt
  <2> QED BY <1>3, <2>1
<1>4. CASE Match!DomainRedundant(d, e)
  <2> DEFINE n == Len(d) - Len(e)
             j == i + n
  <2>1. Len(e) < Len(d) /\ d[n] = "." /\ \A k \in 1..Len(e) : e[k] = d[n + k]
    BY <1>4, Below
  <2>2. n \in 1..Len(d) /\ j \in Nat
    BY <1>1, <2>1
  <2>3. n < Len(d) /\ Match!Word(d[n + 1])
    BY <2>1, <2>2 DEF Match!DomainName
  <2>4. j \in Match!Starts(e, t) /\ j + Len(e) = i + Len(d)
    BY <1>1, <2>1 DEF Match!Starts
  <2>5. ASSUME NEW k \in 1..Len(e) PROVE e[k] = t[j + k - 1]
    <3>1. n + k \in 1..Len(d) /\ i + (n + k) - 1 = j + k - 1
      BY <1>1, <2>1
    <3> QED BY <1>2, <2>1, <3>1
  <2>6. Match!MatchesAt(e, t, j)
    BY <2>5 DEF Match!MatchesAt
  <2>7. t[j - 1] = "." /\ Match!Word(t[j])
    <3>1. i + n - 1 = j - 1 /\ i + (n + 1) - 1 = j /\ n + 1 \in 1..Len(d)
      BY <1>1, <2>1, <2>3
    <3>2. d[n] = t[i + n - 1] /\ d[n + 1] = t[i + (n + 1) - 1]
      BY <1>2, <2>2, <3>1
    <3> QED BY <2>1, <2>3, <3>1, <3>2
  <2>8. j > 1 /\ j <= Len(t)
    BY <1>1, <2>1, <2>3
  <2>9. Match!Boundary(t, j)
    BY <2>7, <2>8 DEF Match!Boundary, Match!Word
  <2> QED BY <2>4, <2>6, <2>9
<1> QED BY <1>3, <1>4 DEF Under

\* A domain without "?" stands for itself.
LEMMA OneReading ==
    ASSUME NEW e \in Text, \A k \in 1..Len(e) : e[k] # "?"
    PROVE  Match!Readings(e) = {e}
<1>1. {k \in 2..Len(e) : e[k] = "?"} = {}
  BY DEF Text
<1> QED BY <1>1 DEF Match!Readings

LEMMA NameAbove ==
    ASSUME NEW d \in Text, NEW e \in Text, Match!DomainName(d), Under(d, e)
    PROVE  \A k \in 1..Len(e) : e[k] # "?"
<1>1. Len(d) \in Nat /\ Len(e) \in Nat
  BY DEF Text
<1>2. CASE d = e
  BY <1>2 DEF Match!DomainName
<1>3. CASE Match!DomainRedundant(d, e)
  <2>1. Len(e) < Len(d) /\ \A k \in 1..Len(e) : e[k] = d[Len(d) - Len(e) + k]
    BY <1>3, Below
  <2>2. \A k \in 1..Len(e) : Len(d) - Len(e) + k \in 1..Len(d)
    BY <1>1, <2>1
  <2> QED BY <2>1, <2>2 DEF Match!DomainName
<1> QED BY <1>2, <1>3 DEF Under

LEMMA CaughtInAddress ==
    ASSUME NEW d \in Text, NEW e \in Text, NEW t \in Text,
           Match!DomainName(d), Under(d, e), Match!OccursInAddress(d, t)
    PROVE  Match!DomainEmail(e, t)
<1> DEFINE i == Len(t) - Len(d) + 1
<1>1. Len(d) \in Nat /\ Len(t) \in Nat
  BY DEF Text
<1>2. i \in Nat /\ i \in Match!Starts(d, t) /\ Match!OccursAt(d, t, i)
      /\ Match!Boundary(t, i)
      /\ i + Len(d) = Len(t) + 1
  BY <1>1 DEF Match!OccursInAddress, Match!EndsWith, Match!Starts
<1> HIDE DEF i
<1>3. PICK j \in Match!Starts(e, t) : /\ j + Len(e) = i + Len(d)
                                      /\ Match!Boundary(t, j) /\ Match!MatchesAt(e, t, j)
  BY <1>2, CaughtBy
<1>4. Match!AtEnd(t, j + Len(e))
  BY <1>2, <1>3 DEF Match!AtEnd
<1>5. e \in Match!Readings(e)
  BY NameAbove, OneReading
<1> QED BY <1>3, <1>4, <1>5 DEF Match!DomainEmail, Match!Found

LEMMA CaughtInAffiliation ==
    ASSUME NEW d \in Text, NEW e \in Text, NEW t \in Text,
           Match!DomainName(d), Under(d, e), Match!OccursInAffiliation(d, t)
    PROVE  Match!AffiliationDomain(e, t)
<1>1. PICK i \in Match!Starts(d, t) : Match!OccursAt(d, t, i) /\ Match!Boundary(t, i)
      /\ Match!Boundary(t, i + Len(d))
  BY DEF Match!OccursInAffiliation
<1>2. i \in Nat
  BY DEF Match!Starts, Text
<1>3. PICK j \in Match!Starts(e, t) : /\ j + Len(e) = i + Len(d)
                                      /\ Match!Boundary(t, j) /\ Match!MatchesAt(e, t, j)
  BY <1>1, <1>2, CaughtBy
<1>4. e \in Match!Readings(e)
  BY NameAbove, OneReading
<1> QED BY <1>1, <1>3, <1>4 DEF Match!AffiliationDomain, Match!Found

-----------------------------------------------------------------------------
\* What is left of a text

LEMMA GreatestNatural ==
    ASSUME NEW n \in Nat, NEW T, T \subseteq 1..n, T # {}
    PROVE  \E k \in T : \A i \in T : i <= k
<1> DEFINE U == {n - i : i \in T}
<1>1. U \subseteq Nat
  OBVIOUS
<1>2. U # {}
  OBVIOUS
<1>3. PICK m \in U : \A j \in U : m <= j
  BY <1>1, <1>2, LeastNatural
<1>4. PICK k \in T : m = n - k
  OBVIOUS
<1>5. ASSUME NEW i \in T PROVE i <= k
  <2>1. n - i \in U
    OBVIOUS
  <2>2. n - k <= n - i
    BY <1>3, <1>4, <2>1
  <2>3. i \in Nat /\ k \in Nat
    OBVIOUS
  <2> QED BY <2>2, <2>3
<1> QED BY <1>5

LEMMA PartOfText ==
    ASSUME NEW t \in Text, NEW m \in Nat, NEW n \in Nat, 1 <= m, n <= Len(t)
    PROVE  SubSeq(t, m, n) \in Text
<1>1. \A i \in m..n : t[i] \in Char
  BY DEF Text
<1> QED BY <1>1, SubSeqProperties DEF Text

LEMMA Stripped ==
    ASSUME NEW t \in Text PROVE Match!Strip(t) \in Text
<1> DEFINE Solid == {i \in 1..Len(t) : ~Match!Blank(t[i])}
           from == CHOOSE i \in Solid : \A j \in Solid : i <= j
           to == CHOOSE i \in Solid : \A j \in Solid : j <= i
<1>1. Len(t) \in Nat
  BY DEF Text
<1>2. CASE Solid = {}
  <2>1. Match!Strip(t) = <<>>
    BY <1>2 DEF Match!Strip
  <2> QED BY <2>1 DEF Text
<1>3. CASE Solid # {}
  <2>1. Match!Strip(t) = SubSeq(t, from, to)
    BY <1>3 DEF Match!Strip
  <2>2. Solid \subseteq 1..Len(t) /\ Solid \subseteq Nat
    BY <1>1
  <2> HIDE DEF Solid
  <2>3. from \in Solid
    BY <1>3, <2>2, LeastNatural
  <2>4. to \in Solid
    BY <1>1, <1>3, <2>2, GreatestNatural
  <2> HIDE DEF from, to
  <2>5. from \in Nat /\ to \in Nat /\ 1 <= from /\ to <= Len(t)
    BY <1>1, <2>2, <2>3, <2>4
  <2> QED BY <2>1, <2>5, PartOfText
<1> QED BY <1>2, <1>3

LEMMA StrippedDomain ==
    ASSUME NEW t \in Text PROVE Match!StripDomain(t) \in Text
<1> DEFINE s == Match!Strip(t)
           Slashes == {i \in 1..Len(s) : s[i] = "/"}
           from == CHOOSE i \in Slashes : \A j \in Slashes : i <= j
<1>1. s \in Text
  BY Stripped
<1>2. Match!StripDomain(t) = IF Slashes = {} THEN s ELSE SubSeq(s, 1, from - 1)
  BY DEF Match!StripDomain
<1> HIDE DEF s
<1>3. Len(s) \in Nat /\ Slashes \subseteq 1..Len(s) /\ Slashes \subseteq Nat
  BY <1>1 DEF Text
<1> HIDE DEF Slashes
<1>4. CASE Slashes # {}
  <2>1. from \in Slashes
    BY <1>3, <1>4, LeastNatural
  <2> HIDE DEF from
  <2>2. from - 1 \in Nat /\ from - 1 <= Len(s)
    BY <1>3, <2>1
  <2>3. SubSeq(s, 1, from - 1) \in Text
    BY <1>1, <2>2, PartOfText
  <2> QED BY <1>2, <1>4, <2>3
<1> QED BY <1>1, <1>2, <1>4

-----------------------------------------------------------------------------
\* Configurations

ValuesOf(k) == {Match!Normal(k, t) : t \in MatchOffered[k]}

Config == [name_variants : SUBSET ValuesOf("name_variants"),
           domains : SUBSET ValuesOf("domains"),
           emails : SUBSET ValuesOf("emails")]

\* The values of a request
Fits(new) == /\ DOMAIN new \subseteq Match!Key
             /\ \A k \in DOMAIN new : new[k] \subseteq ValuesOf(k)

\* Every domain of one configuration is one of another, or below one.
Caught(wanted, config) ==
    \A d \in wanted["domains"] : \E e \in config["domains"] : Under(d, e)

LEMMA DomainsAreNames ==
    ASSUME Match!MatchAssumption, NEW d \in ValuesOf("domains")
    PROVE  d \in Text /\ Match!DomainName(d)
<1>1. PICK t \in MatchOffered["domains"] : d = Match!Normal("domains", t)
  BY DEF ValuesOf
<1>2. d = Match!StripDomain(t)
  BY <1>1 DEF Match!Normal
<1>3. Match!DomainName(Match!StripDomain(t))
  BY <1>1 DEF Match!MatchAssumption
<1>4. t \in Seq(STRING)
  BY <1>1 DEF Match!MatchAssumption, Match!Key
<1>5. t \in Text
  BY <1>4 DEF Text, Char
<1> QED BY <1>2, <1>3, <1>5, StrippedDomain

LEMMA NoConfigFits == Match!NoConfig \in Config /\ Match!NoConfig["domains"] = {}
BY DEF Match!NoConfig, Config, Match!Key

LEMMA CombinedFits ==
    ASSUME NEW before \in Config, NEW new, Fits(new), NEW add \in BOOLEAN
    PROVE  Match!Combine(before, new, add) \in Config
<1>1. \A k \in Match!Key : before[k] \subseteq ValuesOf(k)
  BY DEF Config, Match!Key
<1> QED BY <1>1 DEF Match!Combine, Config, Fits, Match!Key

LEMMA LessFits ==
    ASSUME NEW c \in Config
    PROVE  /\ Match!WithoutRedundant(c) \in Config
           /\ Match!WithoutRedundant(c)["domains"] =
                 {d \in c["domains"] : ~\E e \in c["domains"] \ {d} :
                       Match!DomainRedundant(d, e)}
<1>1. /\ c["domains"] \subseteq ValuesOf("domains")
      /\ c["emails"] \subseteq ValuesOf("emails")
      /\ c["name_variants"] \subseteq ValuesOf("name_variants")
  BY DEF Config
<1>2. Match!WithoutRedundant(c) \in Config
  BY <1>1 DEF Config, Match!WithoutRedundant
<1>3. Match!WithoutRedundant(c)["domains"] =
        {d \in c["domains"] : ~\E e \in c["domains"] \ {d} : Match!DomainRedundant(d, e)}
  BY DEF Match!WithoutRedundant
<1> QED BY <1>2, <1>3

LEMMA LessCatches ==
    ASSUME Match!MatchAssumption,
           NEW c \in Config PROVE Caught(c, Match!WithoutRedundant(c))
<1>1. c["domains"] \subseteq Text
  BY DomainsAreNames DEF Config
<1>2. ASSUME NEW d \in c["domains"]
      PROVE  \E e \in Match!WithoutRedundant(c)["domains"] : Under(d, e)
  BY <1>1, LessFits, DroppedAreBelow
<1> QED BY <1>2 DEF Caught

LEMMA CaughtTransitive ==
    ASSUME Match!MatchAssumption, NEW a \in Config, NEW b \in Config, NEW c \in Config,
           Caught(a, b), Caught(b, c)
    PROVE  Caught(a, c)
<1>1. /\ a["domains"] \subseteq Text /\ b["domains"] \subseteq Text
      /\ c["domains"] \subseteq Text
  BY DomainsAreNames DEF Config
<1>2. ASSUME NEW d \in a["domains"] PROVE \E f \in c["domains"] : Under(d, f)
  <2>1. PICK e \in b["domains"] : Under(d, e)
    BY DEF Caught
  <2>2. PICK f \in c["domains"] : Under(e, f)
    BY DEF Caught
  <2> QED BY <1>1, <2>1, <2>2, UnderTransitive
<1> QED BY <1>2 DEF Caught

LEMMA CombinedCaught ==
    ASSUME NEW wanted \in Config, NEW config \in Config, Caught(wanted, config),
           NEW new, Fits(new), NEW add \in BOOLEAN
    PROVE  Caught(Match!Combine(wanted, new, add), Match!Combine(config, new, add))
<1>1. ASSUME NEW c \in Config
      PROVE  Match!Combine(c, new, add)["domains"] =
               IF "domains" \notin DOMAIN new THEN c["domains"]
               ELSE IF add THEN c["domains"] \cup new["domains"] ELSE new["domains"]
  BY DEF Match!Combine, Match!Key
<1>2. \A d : Under(d, d)
  BY DEF Under
<1> QED BY <1>1, <1>2 DEF Caught

LEMMA LoadedFits ==
    ASSUME NEW s \in Match!Submission,
           NEW json \in BOOLEAN PROVE Fits(Match!Loaded(s, json))
<1>1. PICK K \in SUBSET Match!Key, v \in Match!Values : s = [k \in K |-> v[k]]
  BY DEF Match!Submission
<1>2. \A k \in Match!Key : v[k] \subseteq MatchOffered[k]
  BY DEF Match!Values, Match!Key
<1>3. DOMAIN s \subseteq Match!Key /\ \A k \in DOMAIN s : s[k] \subseteq MatchOffered[k]
  BY <1>1, <1>2
<1> QED BY <1>3 DEF Fits, Match!Loaded, ValuesOf

-----------------------------------------------------------------------------
\* The invariant

Params == [exists : BOOLEAN, config : Config, has_regex : BOOLEAN, had_regex : BOOLEAN,
           orig : SUBSET ValuesOf("name_variants")]
ArchivedParams == [config : Config, has_regex : BOOLEAN]

\* The parameters in force and those of the archive catch what they were asked to, the
\* archive starts when there are parameters, and every configuration is on record.
MatchInv ==
    /\ params \in Params
    /\ archive \in Seq(ArchivedParams)
    /\ asked \in Config
    /\ askedThen \in Seq(Config)
    /\ Len(archive) = Len(askedThen)
    /\ archive # <<>> => params.exists
    /\ params.exists => params.config \in inForce
    /\ Caught(asked, params.config)
    /\ \A n \in DOMAIN archive : /\ archive[n].config \in inForce
                                  /\ Caught(askedThen[n], archive[n].config)

LEMMA MatchInvInit ==
    ASSUME Match!Init PROVE MatchInv
<1> USE DEF Match!Init
<1>1. params \in Params
  BY NoConfigFits DEF Match!NoParams, Params
<1>2. params.config = Match!NoConfig /\ params.exists = FALSE
  BY DEF Match!NoParams
<1>3. Caught(asked, params.config)
  BY NoConfigFits DEF Caught
<1>4. archive = <<>> /\ askedThen = <<>> /\ Len(<<>>) = 0 /\ DOMAIN <<>> = {}
  OBVIOUS
<1>5. archive \in Seq(ArchivedParams) /\ askedThen \in Seq(Config)
  OBVIOUS
<1>6. \A n \in DOMAIN archive : /\ archive[n].config \in inForce
                                 /\ Caught(askedThen[n], archive[n].config)
  BY <1>4
<1>7. asked \in Config
  BY NoConfigFits
<1> QED BY <1>1, <1>2, <1>3, <1>4, <1>5, <1>6, <1>7 DEF MatchInv

\* What a list is when one is added to it
LEMMA Appended ==
    ASSUME NEW S, NEW s \in Seq(S), NEW x \in S
    PROVE  /\ Append(s, x) \in Seq(S) /\ Append(s, x) # <<>>
           /\ Len(Append(s, x)) = Len(s) + 1
           /\ \A n \in DOMAIN Append(s, x) :
                 \/ n \in DOMAIN s /\ Append(s, x)[n] = s[n]
                 \/ n = Len(s) + 1 /\ Append(s, x)[n] = x
<1>1. /\ Append(s, x) \in Seq(S) /\ Append(s, x) # <<>>
      /\ Len(Append(s, x)) = Len(s) + 1
      /\ \A n \in 1..Len(s) : Append(s, x)[n] = s[n]
      /\ Append(s, x)[Len(s) + 1] = x
  BY AppendProperties
<1>2. DOMAIN Append(s, x) = 1..(Len(s) + 1) /\ DOMAIN s = 1..Len(s) /\ Len(s) \in Nat
  BY <1>1
<1>3. \A n \in 1..(Len(s) + 1) : n \in 1..Len(s) \/ n = Len(s) + 1
  BY <1>2
<1> QED BY <1>1, <1>2, <1>3

\* The archive holds what was in force, and the history what was asked for then.
LEMMA ArchiveGrows ==
    ASSUME MatchInv, params.exists, inForce \subseteq inForce',
           archive' = Append(archive, Match!Archived(params)),
           askedThen' = Append(askedThen, asked)
    PROVE  /\ archive' \in Seq(ArchivedParams) /\ archive' # <<>>
           /\ askedThen' \in Seq(Config)
           /\ Len(archive') = Len(askedThen')
           /\ \A n \in DOMAIN archive' : /\ archive'[n].config \in inForce'
                                          /\ Caught(askedThen'[n], archive'[n].config)
<1> USE DEF MatchInv
<1>1. Match!Archived(params) \in ArchivedParams
      /\ Match!Archived(params).config = params.config
  BY DEF Match!Archived, ArchivedParams, Params
<1>2. archive' \in Seq(ArchivedParams) /\ archive' # <<>>
      /\ Len(archive') = Len(archive) + 1
  BY <1>1, Appended
<1>3. askedThen' \in Seq(Config) /\ Len(askedThen') = Len(askedThen) + 1
  BY Appended
<1>4. ASSUME NEW n \in DOMAIN archive'
      PROVE  archive'[n].config \in inForce' /\ Caught(askedThen'[n], archive'[n].config)
  <2>1. DOMAIN archive' = DOMAIN askedThen' /\ DOMAIN archive = DOMAIN askedThen
        /\ Len(archive) \in Nat /\ DOMAIN archive = 1..Len(archive)
    BY <1>2, <1>3
  <2>2. CASE n \in DOMAIN archive /\ archive'[n] = archive[n]
    <3>1. n # Len(askedThen) + 1
      BY <2>1, <2>2
    <3>2. askedThen'[n] = askedThen[n]
      BY <2>1, <3>1, Appended
    <3> QED BY <2>2, <3>2
  <2>3. CASE n = Len(archive) + 1 /\ archive'[n] = Match!Archived(params)
    <3>1. n \notin DOMAIN askedThen
      BY <2>1, <2>3
    <3>2. askedThen'[n] = asked
      BY <2>1, <3>1, Appended
    <3> QED BY <1>1, <2>3, <3>2
  <2> QED BY <1>1, <2>2, <2>3, Appended
<1> QED BY <1>2, <1>3, <1>4

LEMMA CreateKeeps ==
    ASSUME Match!MatchAssumption, MatchInv, NEW new, Fits(new),
           Match!Create(new) PROVE MatchInv'
<1> DEFINE all == Match!Combine(Match!NoConfig, new, FALSE)
           config == Match!WithoutRedundant(all)
<1>1. /\ ~params.exists
      /\ params' = [Match!NoParams EXCEPT !.exists = TRUE, !.config = config,
                                    !.has_regex =
                                          Match!IncludesRegex(config["name_variants"])]
      /\ asked' = all /\ inForce' = inForce \cup {config}
      /\ UNCHANGED <<archive, askedThen>>
  BY DEF Match!Create
<1>2. all \in Config
  BY NoConfigFits, CombinedFits
<1> HIDE DEF all
<1>3. config \in Config /\ Caught(all, config)
  BY <1>2, LessFits, LessCatches
<1> HIDE DEF config
<1>4. Match!IncludesRegex(config["name_variants"]) \in BOOLEAN
  BY DEF Match!IncludesRegex
<1>5. params' \in Params /\ params'.config = config /\ params'.exists
  BY <1>1, <1>3, <1>4 DEF Match!NoParams, Params
<1>6. archive = <<>>
  BY <1>1 DEF MatchInv
<1>7. \A n \in DOMAIN archive' : /\ archive'[n].config \in inForce'
                                 /\ Caught(askedThen'[n], archive'[n].config)
  BY <1>1, <1>6
<1> QED BY <1>1, <1>2, <1>3, <1>5, <1>6, <1>7 DEF MatchInv

LEMMA UpdateKeeps ==
    ASSUME Match!MatchAssumption, MatchInv, NEW new, Fits(new), NEW add \in BOOLEAN,
           Match!Update(new, add)
    PROVE  MatchInv'
<1> DEFINE all == Match!Combine(params.config, new, add)
           config == Match!WithoutRedundant(all)
           wanted == Match!Combine(asked, new, add)
<1>1. /\ params.exists
      /\ params' = Match!Changed(config)
      /\ archive' = Append(archive, Match!Archived(params))
      /\ asked' = wanted
      /\ askedThen' = Append(askedThen, asked)
      /\ inForce' = inForce \cup {config}
  BY DEF Match!Update
<1>2. params.config \in Config /\ asked \in Config /\ Caught(asked, params.config)
  BY DEF MatchInv, Params
<1>3. all \in Config /\ wanted \in Config /\ Caught(wanted, all)
  BY <1>2, CombinedFits, CombinedCaught
<1> HIDE DEF all, wanted
<1>4. config \in Config /\ Caught(wanted, config)
  BY <1>3, LessFits, LessCatches, CaughtTransitive
<1> HIDE DEF config
<1>5. Match!IncludesRegex(config["name_variants"]) \in BOOLEAN
  BY DEF Match!IncludesRegex
<1>6. params' \in Params /\ params'.config = config /\ params'.exists
  BY <1>1, <1>4, <1>5 DEF MatchInv, Match!Changed, Params, Config
<1>7. /\ archive' \in Seq(ArchivedParams) /\ archive' # <<>>
      /\ askedThen' \in Seq(Config)
      /\ Len(archive') = Len(askedThen')
      /\ \A n \in DOMAIN archive' : /\ archive'[n].config \in inForce'
                                     /\ Caught(askedThen'[n], archive'[n].config)
  BY <1>1, ArchiveGrows
<1> QED BY <1>1, <1>3, <1>4, <1>6, <1>7 DEF MatchInv

LEMMA RevertKeeps ==
    ASSUME MatchInv, NEW n \in DOMAIN archive, Match!Revert(n) PROVE MatchInv'
<1>1. /\ params' = Match!RecordAfter(archive[n])
      /\ archive' = Append(archive, Match!Archived(params))
      /\ asked' = askedThen[n]
      /\ askedThen' = Append(askedThen, asked)
      /\ inForce' = inForce
  BY DEF Match!Revert, Match!ArchiveAfterRevert
<1>2. archive # <<>> /\ params.exists
  BY DEF MatchInv
<1>3. archive[n] \in ArchivedParams /\ askedThen[n] \in Config
  BY DEF MatchInv
<1>4. params' \in Params /\ params'.config = archive[n].config /\ params'.exists
  BY <1>1, <1>2, <1>3 DEF MatchInv, Match!RecordAfter, Params, ArchivedParams
<1>5. /\ archive' \in Seq(ArchivedParams) /\ archive' # <<>>
      /\ askedThen' \in Seq(Config)
      /\ Len(archive') = Len(askedThen')
      /\ \A m \in DOMAIN archive' : /\ archive'[m].config \in inForce'
                                     /\ Caught(askedThen'[m], archive'[m].config)
  BY <1>1, <1>2, ArchiveGrows
<1>6. archive[n].config \in inForce /\ Caught(askedThen[n], archive[n].config)
  BY DEF MatchInv
<1> QED BY <1>1, <1>3, <1>4, <1>5, <1>6 DEF MatchInv

\* A change of the parameters, and bringing back old ones, keeps the invariant.
THEOREM MatchKept ==
    ASSUME Match!MatchAssumption PROVE Match!Spec => []MatchInv
<1>1. ASSUME MatchInv, [Match!Next]_(Match!vars) PROVE MatchInv'
  <2>1. CASE UNCHANGED Match!vars
    <3>1. /\ params' = params /\ archive' = archive /\ asked' = asked
          /\ askedThen' = askedThen /\ inForce' = inForce
      BY <2>1 DEF Match!vars
    <3>2. MatchInv
      BY <1>1
    <3> QED BY <3>1, <3>2, Zenon DEF MatchInv
  <2>2. ASSUME NEW s \in Match!Submission, NEW json \in BOOLEAN, NEW add \in BOOLEAN,
               Match!Create(Match!Loaded(s, json))
                     \/ Match!Update(Match!Loaded(s, json), add)
        PROVE  MatchInv'
    BY <2>2, LoadedFits, CreateKeeps, UpdateKeeps, <1>1
  <2>3. ASSUME NEW n \in DOMAIN archive, Match!Revert(n) PROVE MatchInv'
    BY <2>3, <1>1, RevertKeeps
  <2> QED BY <1>1, <2>1, <2>2, <2>3 DEF Match!Next, Match!Submit
<1> QED BY <1>1, MatchInvInit, PTL DEF Match!Spec

LEMMA MatchTypes ==
    ASSUME MatchInv PROVE Match!TypeOK
<1>1. \A k \in Match!Key :
      params.config[k] \in SUBSET {Match!Normal(k, t) : t \in MatchOffered[k]}
  BY DEF MatchInv, Params, Config, ValuesOf, Match!Key
<1>2. DOMAIN archive = DOMAIN askedThen
  BY DEF MatchInv
<1> QED BY <1>1, <1>2 DEF Match!TypeOK, MatchInv

LEMMA MatchesKept ==
    ASSUME Match!MatchAssumption, MatchInv PROVE Match!DomainsKeepMatches
<1>1. params.config \in Config /\ asked \in Config /\ Caught(asked, params.config)
  BY DEF MatchInv, Params
<1>2. \A e \in ValuesOf("domains") : e \in Text /\ Match!DomainName(e)
  BY DomainsAreNames
<1>3. MatchAddress \subseteq Text /\ MatchAffiliation \subseteq Text
  <2>1. MatchAddress \subseteq Seq(STRING) /\ MatchAffiliation \subseteq Seq(STRING)
    BY DEF Match!MatchAssumption
  <2>2. ASSUME NEW t \in Seq(STRING) PROVE t \in Text
    BY DEF Text, Char
  <2> QED BY <2>1, <2>2
<1>4. ASSUME NEW d \in asked["domains"]
      PROVE  /\ \A t \in MatchAddress :
                   Match!OccursInAddress(d, t) => Match!MatchesAddress(params.config, t)
             /\ \A t \in MatchAffiliation :
                   Match!OccursInAffiliation(d, t) =>
                         Match!MatchesAffiliation(params.config, t)
  <2>1. PICK e \in params.config["domains"] : Under(d, e)
    BY <1>1 DEF Caught
  <2>2. d \in Text /\ Match!DomainName(d) /\ e \in Text
    BY <1>1, <1>2 DEF Config
  <2>3. ASSUME NEW t \in MatchAddress, Match!OccursInAddress(d, t)
        PROVE  Match!MatchesAddress(params.config, t)
    BY <1>3, <2>1, <2>2, <2>3, CaughtInAddress DEF Match!MatchesAddress
  <2>4. ASSUME NEW t \in MatchAffiliation, Match!OccursInAffiliation(d, t)
        PROVE  Match!MatchesAffiliation(params.config, t)
    BY <1>3, <2>1, <2>2, <2>4, CaughtInAffiliation DEF Match!MatchesAffiliation
  <2> QED BY <2>3, <2>4
<1> QED BY <1>4 DEF Match!DomainsKeepMatches

-----------------------------------------------------------------------------
(* NoteList: a walk through the pages of the list overlooks nothing.  What *)
(* the repository has yet to receive has a higher id, or a later day, than *)
(* what it asks for, and a place behind the pages it has listed.           *)

LEMMA ListCounting ==
    /\ \A S : List!Cardinality(S) = Cardinality(S)
    /\ \A S : List!IsFiniteSet(S) <=> IsFiniteSet(S)
  BY DEF List!Cardinality, Cardinality, List!IsFiniteSet, IsFiniteSet

\* What has been given an id, and what the repository has yet to receive.
Numbered == {n \in ListNote : listRow[n] \in {"routed", "deleted"}}
Waits == List!Routed \ (excused \cup listGot)

ListTyped ==
    /\ List!TypeOK
    /\ nextId > 0 /\ \A n \in ListNote : id[n] < nextId
    /\ \A n \in Numbered : id[n] # 0
    /\ \A n \in ListNote : listRow[n] \in {"unrouted", "analysed"}
           /\ n \notin ListHarvested => id[n] # 0
    /\ due \subseteq Numbered

\* What it asks for does not pass over what it has yet to receive.
WalkSinceInv ==
    /\ way = "id" =>
          /\ since = 0 \/ \E m \in listGot : since = id[m]
          /\ \A n \in Waits : id[n] > since /\ \A m \in listGot : id[m] < id[n]
    /\ way = "day" =>
          /\ since <= List!Midnight(List!Day(clock))
          /\ \A n \in Waits :
                IF listPc = "idle" \/ n \in due THEN List!Selected(n)
                ELSE List!Day(stamp[n]) >= List!Day(began)

\* Nor do the pages.
WalkPagesInv ==
    /\ listPc # "idle" =>
          \A n \in Waits : way = "id" \/ n \in due => List!Position(n) > (page - 1) * ListPageSize
    /\ listPc = "list" => \A n \in Waits : n \in due => List!Position(n) <= total

WalkInv == ListTyped /\ WalkSinceInv /\ WalkPagesInv /\ List!NothingOverlooked

-----------------------------------------------------------------------------
(* Places in the list.                                                     *)

LEMMA ListingFinite ==
    ASSUME List!NoteListAssumption
    PROVE  /\ List!IsFiniteSet(List!Listing) /\ List!Cardinality(List!Listing) \in Nat
           /\ \A S \in SUBSET ListNote : List!IsFiniteSet(S) /\ List!Cardinality(S) \in Nat
<1>1. \A S \in SUBSET ListNote : List!IsFiniteSet(S) /\ List!Cardinality(S) \in Nat
  BY FS_Subset, FS_CardinalityType, ListCounting DEF List!NoteListAssumption
<1>2. List!Listing \in SUBSET ListNote
  BY DEF List!Listing, List!Routed
<1> QED BY <1>1, <1>2

LEMMA Bigger ==
    ASSUME List!NoteListAssumption, NEW S \in SUBSET ListNote, NEW T \in SUBSET S
    PROVE  /\ List!Cardinality(S) \in Nat /\ List!Cardinality(T) \in Nat
           /\ List!Cardinality(T) <= List!Cardinality(S)
           /\ T # S => List!Cardinality(T) < List!Cardinality(S)
BY FS_Subset, FS_CardinalityType, ListCounting DEF List!NoteListAssumption

LEMMA Positions ==
    ASSUME List!NoteListAssumption, List!TypeOK
    PROVE  /\ \A n \in ListNote : List!Position(n) \in Nat
           /\ \A n \in List!Listing : List!Position(n) >= 1
                  /\ List!Position(n) <= List!Cardinality(List!Listing)
           /\ \A m, n \in List!Listing : id[m] < id[n] => List!Position(m) < List!Position(n)
<1> DEFINE Upto(n) == {m \in List!Listing : id[m] <= id[n]}
<1>1. List!Listing \in SUBSET ListNote /\ \A n \in ListNote : id[n] \in Nat
  BY DEF List!Listing, List!Routed, List!TypeOK
<1>2. \A n \in ListNote : Upto(n) \in SUBSET List!Listing
          /\ List!Position(n) = List!Cardinality(Upto(n))
  BY DEF List!Position
<1>3. ASSUME NEW n \in List!Listing
      PROVE  List!Position(n) >= 1 /\ List!Position(n) <= List!Cardinality(List!Listing)
  <2>1. n \in Upto(n)
    BY <1>1
  <2>2. {} # Upto(n) /\ {} \in SUBSET Upto(n)
    BY <2>1
  <2>3. List!Cardinality({}) = 0
    BY FS_EmptySet, ListCounting
  <2> HIDE DEF Upto
  <2>4. List!Cardinality(Upto(n)) \in Nat /\ 0 < List!Cardinality(Upto(n))
    BY <1>1, <1>2, <2>2, <2>3, Bigger
  <2>5. List!Cardinality(Upto(n)) <= List!Cardinality(List!Listing)
    BY <1>1, <1>2, Bigger
  <2> QED BY <1>1, <1>2, <2>4, <2>5
<1>4. ASSUME NEW m \in List!Listing, NEW n \in List!Listing, id[m] < id[n]
      PROVE  List!Position(m) < List!Position(n)
  <2>1. Upto(m) \in SUBSET Upto(n) /\ n \in Upto(n) /\ n \notin Upto(m)
    BY <1>1, <1>4
  <2>2. Upto(n) \in SUBSET ListNote
    BY <1>1
  <2> HIDE DEF Upto
  <2> QED BY <1>1, <1>2, <2>1, <2>2, Bigger
<1>5. ASSUME NEW n \in ListNote PROVE List!Position(n) \in Nat
  BY <1>1, <1>2, ListingFinite
<1> QED BY <1>3, <1>4, <1>5

LEMMA NatProduct == ASSUME NEW i \in Nat, NEW j \in Nat PROVE i * j \in Nat
OBVIOUS

LEMMA PagesNat ==
    ASSUME List!NoteListAssumption, ListTyped
    PROVE  page * ListPageSize \in Nat /\ (page - 1) * ListPageSize \in Nat
<1>1. page \in Nat /\ page - 1 \in Nat /\ ListPageSize \in Nat
  BY DEF ListTyped, List!TypeOK, List!NoteListAssumption
<1> QED BY <1>1, NatProduct

LEMMA HighestOf ==
    ASSUME ListTyped, NEW S, S \subseteq ListNote, S # {}
    PROVE  \E m \in S : List!Highest(S) = id[m] /\ \A n \in S : id[n] <= id[m]
<1> DEFINE T == {k \in Nat : \A n \in S : id[n] <= k}
<1>1. \A n \in S : id[n] \in Nat /\ id[n] < nextId
  BY DEF ListTyped, List!TypeOK
<1>2. nextId \in T
  BY <1>1 DEF ListTyped, List!TypeOK
<1>3. PICK k \in T : \A i \in T : k <= i
  BY <1>2, LeastNatural
<1>4. PICK m \in S : id[m] = k
  <2> SUFFICES ASSUME \A n \in S : id[n] # k PROVE FALSE
    OBVIOUS
  <2>1. \A n \in S : id[n] < k
    BY <1>1
  <2>2. k - 1 \in T
    BY <1>1, <2>1
  <2> QED BY <1>3, <2>2
<1>5. \A n \in S : id[n] <= id[m]
  BY <1>4
<1>6. id[m] \in {id[n] : n \in S} /\ \A n \in S : id[n] <= id[m]
  BY <1>5
<1>7. /\ List!Highest(S) \in {id[n] : n \in S}
      /\ \A n \in S : id[n] <= List!Highest(S)
  BY <1>6 DEF List!Highest
<1> QED BY <1>7

-----------------------------------------------------------------------------
(* Types.                                                                  *)

LEMMA WalkInvInit == ASSUME List!NoteListAssumption, List!Init PROVE WalkInv
<1>1. List!Routed = {} /\ Numbered = {} /\ Waits = {}
  BY DEF List!Init, List!Routed, Numbered, Waits
<1>2. ListTyped
  BY <1>1 DEF List!Init, ListTyped, List!TypeOK, List!Row, List!NoteListAssumption
<1>3. WalkSinceInv
  BY <1>1 DEF List!Init, WalkSinceInv, List!Midnight, List!Day
<1> QED BY <1>1, <1>2, <1>3 DEF List!Init, WalkInv, WalkPagesInv, List!NothingOverlooked

LEMMA ListTypedStep == ASSUME List!NoteListAssumption, ListTyped, [List!Next]_(List!vars)
    PROVE  ListTyped'
<1> USE DEF ListTyped, List!TypeOK, Numbered
<1>1. CASE UNCHANGED List!vars
  BY <1>1 DEF List!vars, List!table, List!client
<1>2. CASE List!Tick
  <2>1. clock' \in 0 .. ListClock /\ clock <= clock'
    BY <1>2 DEF List!Tick, List!NoteListAssumption
  <2> QED BY <1>2, <2>1 DEF List!Tick, List!table, List!client
<1>3. ASSUME NEW n \in ListNote, List!Receive(n) PROVE ListTyped'
  <2>1. /\ listRow' \in [ListNote -> List!Row] /\ Numbered' = Numbered
        /\ \A m \in ListNote : listRow'[m] = IF m = n THEN "unrouted" ELSE listRow[m]
    BY <1>3 DEF List!Receive, List!Row
  <2>2. /\ id' \in [ListNote -> Nat] /\ nextId' \in Nat /\ nextId <= nextId'
        /\ \A m \in ListNote : id'[m] = id[m]
               \/ (m = n /\ id'[m] = nextId /\ nextId' = nextId + 1)
        /\ n \notin ListHarvested => id'[n] = nextId
    BY <1>3 DEF List!Receive
  <2>3. /\ \A m \in ListNote : id'[m] < nextId'
        /\ \A l, m \in ListNote : id'[l] = id'[m] /\ id'[l] # 0 => l = m
    BY <2>2
  <2>4. \A m \in Numbered : id'[m] # 0
    BY <1>3, <2>2 DEF List!Receive
  <2>5. \A m \in ListNote : listRow'[m] \in {"unrouted", "analysed"}
            /\ m \notin ListHarvested => id'[m] # 0
    BY <2>1, <2>2
  <2> QED BY <1>3, <2>1, <2>2, <2>3, <2>4, <2>5 DEF List!Receive, List!client
<1>4. ASSUME NEW n \in ListNote, List!Analyse(n) PROVE ListTyped'
  BY <1>4 DEF List!Analyse, List!Row, List!client
<1>5. ASSUME NEW n \in ListNote, List!Save(n) PROVE ListTyped'
  <2>1. /\ listRow' \in [ListNote -> List!Row] /\ Numbered' = Numbered \cup {n}
        /\ \A m \in ListNote : listRow'[m] = IF m = n THEN "routed" ELSE listRow[m]
    BY <1>5 DEF List!Save, List!Row
  <2>2. /\ id' \in [ListNote -> Nat] /\ nextId' \in Nat /\ nextId <= nextId'
        /\ \A m \in ListNote : id'[m] = id[m]
               \/ (m = n /\ id'[m] = nextId /\ nextId' = nextId + 1)
        /\ id'[n] # 0
    BY <1>5 DEF List!Save
  <2>3. /\ \A m \in ListNote : id'[m] < nextId'
        /\ \A l, m \in ListNote : id'[l] = id'[m] /\ id'[l] # 0 => l = m
    BY <2>2
  <2>4. \A m \in Numbered' : id'[m] # 0
    BY <2>1, <2>2
  <2>5. \A m \in ListNote : listRow'[m] \in {"unrouted", "analysed"}
            /\ m \notin ListHarvested => id'[m] # 0
    BY <2>1, <2>2
  <2>6. UNCHANGED <<clock, stamp, List!client, due>> /\ excused' \in SUBSET ListNote
    BY <1>5 DEF List!Save
  <2>7. listGot \subseteq {m \in ListNote : listRow'[m] \in {"routed", "deleted"}}
    BY <2>1
  <2> QED BY <2>1, <2>2, <2>3, <2>4, <2>5, <2>6, <2>7 DEF List!client
<1>6. CASE List!Delete
  <2>1. /\ listRow' \in [ListNote -> List!Row] /\ Numbered' = Numbered
        /\ \A m \in ListNote : listRow'[m] = listRow[m]
               \/ (listRow[m] = "routed" /\ listRow'[m] = "deleted")
    BY <1>6 DEF List!Delete, List!Old, List!Routed, List!Row
  <2>2. excused' \in SUBSET ListNote
    BY <1>6 DEF List!Delete, List!Routed
  <2> QED BY <1>6, <2>1, <2>2 DEF List!Delete, List!client
<1>7. CASE List!StartWalk
  BY <1>7 DEF List!StartWalk, List!Routed, List!table
<1>8. CASE List!Count
  BY <1>8, ListingFinite DEF List!Count, List!table
<1>9. CASE List!List
  <2>1. listGot' \subseteq Numbered
    BY <1>9 DEF List!List, List!OnPage, List!Listing, List!Routed
  <2>2. since' \in Nat
    <3>1. CASE since' = since
      BY <3>1
    <3>2. CASE since' = List!NextSince
      <4>1. List!Midnight(List!Day(began)) \in Nat
        BY DEF List!Midnight, List!Day
      <4>2. listGot' # {} => List!Highest(listGot') \in Nat
        <5> SUFFICES ASSUME listGot' # {} PROVE List!Highest(listGot') \in Nat
          OBVIOUS
        <5>1. PICK m \in listGot' : List!Highest(listGot') = id[m]
          BY <2>1, HighestOf
        <5> QED BY <2>1, <5>1
      <4> QED BY <3>2, <4>1, <4>2 DEF List!NextSince, List!NoteListAssumption
    <3> QED BY <1>9, <3>1, <3>2 DEF List!List
  <2>3. /\ listPc' \in {"idle", "count"} /\ page' \in Nat \ {0} /\ began' \in 0 .. clock
        /\ total' \in Nat
        /\ UNCHANGED <<clock, List!table, way, due, excused>>
    BY <1>9 DEF List!List
  <2> QED BY <2>1, <2>2, <2>3 DEF List!table
<1> QED BY <1>1, <1>2, <1>3, <1>4, <1>5, <1>6, <1>7, <1>8, <1>9 DEF List!Next

LEMMA DayMonotone ==
    ASSUME NEW s \in Nat, NEW t \in Nat, s <= t
    PROVE  /\ List!Day(s) \in Nat /\ List!Day(t) \in Nat /\ List!Day(s) <= List!Day(t)
           /\ List!Midnight(List!Day(s)) \in Nat /\ List!Midnight(List!Day(t)) \in Nat
           /\ List!Midnight(List!Day(s)) <= List!Midnight(List!Day(t))
BY DEF List!Day, List!Midnight

-----------------------------------------------------------------------------
(* Steps that change nothing in the list.                                  *)

SameList ==
    /\ List!Routed' = List!Routed
    /\ \A n \in Numbered : id'[n] = id[n] /\ stamp'[n] = stamp[n]
    /\ way' = way /\ since' = since

LEMMA Unmoved ==
    ASSUME ListTyped, SameList
    PROVE  /\ List!Listing' = List!Listing
           /\ \A n \in List!Routed : List!Selected(n)' = List!Selected(n)
           /\ \A n \in List!Routed : List!Position(n)' = List!Position(n)
<1>1. List!Routed \in SUBSET Numbered
  BY DEF List!Routed, Numbered
<1>2. \A n \in List!Routed : List!Selected(n)' = List!Selected(n)
  BY <1>1 DEF SameList, List!Selected
<1>3. List!Listing' = List!Listing
  BY <1>2 DEF SameList, List!Listing
<1>4. ASSUME NEW n \in List!Routed PROVE List!Position(n)' = List!Position(n)
  <2>1. \A m \in List!Listing : id'[m] = id[m]
    BY <1>1 DEF List!Listing, SameList
  <2>2. id'[n] = id[n]
    BY <1>1 DEF SameList
  <2>3. {m \in List!Listing' : id'[m] <= id'[n]} = {m \in List!Listing : id[m] <= id[n]}
    BY <1>3, <2>1, <2>2
  <2> QED BY <2>3 DEF List!Position
<1> QED BY <1>2, <1>3, <1>4

LEMMA Quiet ==
    ASSUME List!NoteListAssumption, "time" \notin ListWays, WalkInv, ListTyped', SameList,
        clock <= clock',
           UNCHANGED <<listPc, began, page, total, listGot, due, excused>>
    PROVE  WalkInv'
<1>1. Waits' = Waits /\ Waits \in SUBSET List!Routed /\ List!Routed \in SUBSET Numbered
  BY DEF SameList, Waits, List!Routed, Numbered
<1>2. \A n \in Numbered : id'[n] = id[n] /\ stamp'[n] = stamp[n]
  BY DEF SameList
<1>3. \A n \in Waits : List!Position(n)' = List!Position(n)
          /\ List!Selected(n)' = List!Selected(n)
  BY <1>1, Unmoved DEF WalkInv
<1>4. listGot \in SUBSET Numbered
  BY DEF WalkInv, ListTyped, List!TypeOK, Numbered
<1>5. way' = way /\ since' = since
  BY DEF SameList
<1>6. List!Midnight(List!Day(clock)) <= List!Midnight(List!Day(clock'))
          /\ List!Midnight(List!Day(clock)) \in Nat
      /\ List!Midnight(List!Day(clock')) \in Nat
  BY DayMonotone DEF WalkInv, ListTyped, List!TypeOK
<1>7. WalkSinceInv'
  <2>1. way = "id" =>
          /\ since = 0 \/ \E m \in listGot : since = id'[m]
          /\ \A n \in Waits : id'[n] > since /\ \A m \in listGot : id'[m] < id'[n]
    BY <1>1, <1>2, <1>4 DEF WalkInv, WalkSinceInv
  <2>2. way = "day" => since <= List!Midnight(List!Day(clock'))
    BY <1>6 DEF WalkInv, WalkSinceInv, ListTyped, List!TypeOK
  <2>3. ASSUME way = "day", NEW n \in Waits
        PROVE  IF listPc = "idle"
            \/ n \in due THEN List!Selected(n)' ELSE List!Day(stamp'[n]) >= List!Day(began)
    BY <1>1, <1>2, <1>3, <2>3 DEF WalkInv, WalkSinceInv
  <2> QED BY <1>1, <1>5, <2>1, <2>2, <2>3 DEF WalkSinceInv
<1>8. WalkPagesInv'
  BY <1>1, <1>3, <1>5 DEF WalkInv, WalkPagesInv
<1>9. List!NothingOverlooked'
  BY <1>1 DEF WalkInv, List!NothingOverlooked, SameList, List!Routed, ListTyped, List!TypeOK,
              Numbered
<1> QED BY <1>7, <1>8, <1>9 DEF WalkInv

LEMMA QuietSteps ==
    ASSUME List!NoteListAssumption, "time" \notin ListWays, WalkInv, ListTyped'
    PROVE  /\ UNCHANGED List!vars => WalkInv'
           /\ List!Tick => WalkInv'
           /\ \A n \in ListNote : List!Receive(n) \/ List!Analyse(n) => WalkInv'
<1> USE DEF WalkInv, ListTyped, List!TypeOK, SameList, List!Routed, Numbered, List!table,
    List!client
<1>1. ASSUME UNCHANGED List!vars PROVE WalkInv'
  <2>1. SameList /\ clock <= clock'
    BY <1>1 DEF List!vars
  <2> QED BY <1>1, <2>1, Quiet DEF List!vars
<1>2. ASSUME List!Tick PROVE WalkInv'
  <2>1. SameList /\ clock <= clock'
    BY <1>2 DEF List!Tick
  <2> QED BY <1>2, <2>1, Quiet DEF List!Tick
<1>3. ASSUME NEW n \in ListNote, List!Receive(n) PROVE WalkInv'
  <2>1. Numbered' = Numbered /\ List!Routed' = List!Routed /\ n \notin Numbered
    BY <1>3 DEF List!Receive
  <2>2. \A m \in Numbered : id'[m] = id[m]
    BY <1>3, <2>1 DEF List!Receive
  <2>3. SameList /\ clock <= clock'
    BY <1>3, <2>1, <2>2 DEF List!Receive
  <2> QED BY <1>3, <2>3, Quiet DEF List!Receive
<1>4. ASSUME NEW n \in ListNote, List!Analyse(n) PROVE WalkInv'
  <2>1. Numbered' = Numbered /\ List!Routed' = List!Routed /\ n \notin Numbered
    BY <1>4 DEF List!Analyse
  <2>2. \A m \in Numbered : stamp'[m] = stamp[m]
    BY <1>4, <2>1 DEF List!Analyse
  <2>3. SameList /\ clock <= clock'
    BY <1>4, <2>1, <2>2 DEF List!Analyse
  <2> QED BY <1>4, <2>3, Quiet DEF List!Analyse
<1> QED BY <1>1, <1>2, <1>3, <1>4

-----------------------------------------------------------------------------
(* Steps of the repository, and deletion.                                  *)

\* What it waits for is in the list.
LEMMA WaitsListed ==
    ASSUME List!NoteListAssumption, "time" \notin ListWays, WalkInv, NEW n \in Waits,
           way = "id" \/ listPc = "idle" \/ n \in due
    PROVE  n \in List!Listing
<1>1. CASE way = "id"
  BY <1>1 DEF WalkInv, WalkSinceInv, List!Listing, List!Selected, Waits
<1>2. CASE way = "day"
  BY <1>2 DEF WalkInv, WalkSinceInv, List!Listing, Waits
<1> QED BY <1>1, <1>2 DEF WalkInv, ListTyped, List!TypeOK, List!NoteListAssumption

LEMMA StartWalkStep ==
    ASSUME List!NoteListAssumption, "time" \notin ListWays, WalkInv, ListTyped', List!StartWalk
    PROVE  WalkInv'
<1>1. SameList /\ Waits' = Waits
  BY DEF List!StartWalk, SameList, List!Routed, Numbered, Waits, List!table
<1>2. Waits \in SUBSET List!Routed /\ List!Routed \in SUBSET ListNote
  BY DEF Waits, List!Routed
<1>3. \A n \in Waits : List!Position(n)' = List!Position(n)
          /\ List!Selected(n)' = List!Selected(n)
  BY <1>1, <1>2, Unmoved DEF WalkInv
<1>4. WalkSinceInv'
  <2>1. way = "day" => \A n \in Waits : List!Selected(n)' /\ n \in due'
    BY <1>2, <1>3 DEF List!StartWalk, WalkInv, WalkSinceInv
  <2> QED BY <1>1, <2>1 DEF List!StartWalk, WalkInv, WalkSinceInv, List!table
<1>5. WalkPagesInv'
  <2>1. ASSUME NEW n \in Waits PROVE List!Position(n)' > 0
    <3>1. n \in List!Listing
      BY WaitsListed DEF List!StartWalk
    <3> QED BY <1>2, <1>3, <3>1, Positions DEF WalkInv, ListTyped
  <2>2. (page' - 1) * ListPageSize = 0 /\ listPc' = "count"
    BY DEF List!StartWalk, List!NoteListAssumption
  <2> QED BY <1>1, <2>1, <2>2 DEF WalkPagesInv
<1>6. List!NothingOverlooked'
  BY DEF List!StartWalk, List!NothingOverlooked
<1> QED BY <1>4, <1>5, <1>6 DEF WalkInv

LEMMA CountStep ==
    ASSUME List!NoteListAssumption, "time" \notin ListWays, WalkInv, ListTyped', List!Count
    PROVE  WalkInv'
<1>1. SameList /\ Waits' = Waits
  BY DEF List!Count, SameList, List!Routed, Numbered, Waits, List!table
<1>2. Waits \in SUBSET List!Routed /\ List!Routed \in SUBSET ListNote
  BY DEF Waits, List!Routed
<1>3. \A n \in Waits : List!Position(n)' = List!Position(n)
          /\ List!Selected(n)' = List!Selected(n)
  BY <1>1, <1>2, Unmoved DEF WalkInv
<1>4. WalkSinceInv'
  BY <1>1, <1>3 DEF List!Count, WalkInv, WalkSinceInv, List!table
<1>5. WalkPagesInv'
  <2>1. ASSUME NEW n \in Waits, n \in due PROVE List!Position(n) <= total'
    BY <2>1, WaitsListed, Positions DEF List!Count, WalkInv, ListTyped
  <2> QED BY <1>1, <1>3, <2>1 DEF List!Count, WalkInv, WalkPagesInv
<1>6. List!NothingOverlooked'
  BY DEF List!Count, List!NothingOverlooked
<1> QED BY <1>4, <1>5, <1>6 DEF WalkInv

LEMMA DeleteStep ==
    ASSUME List!NoteListAssumption, "time" \notin ListWays, WalkInv, ListTyped', List!Delete
    PROVE  WalkInv'
<1>1. /\ UNCHANGED <<clock, id, nextId, stamp, listPc, way, since, began, page, total,
             listGot, due>>
      /\ List!Routed' \in SUBSET (List!Routed \ List!Old)
  BY DEF List!Delete, List!Routed, List!client, WalkInv, ListTyped, List!TypeOK
<1>2. CASE listPc = "idle"
  <2>1. Waits' \in SUBSET Waits
    BY <1>1, <1>2 DEF List!Delete, Waits
  <2>2. \A n \in Waits : List!Selected(n)' = List!Selected(n)
    BY <1>1 DEF List!Selected
  <2>3. WalkSinceInv'
    BY <1>1, <1>2, <2>1, <2>2 DEF WalkInv, WalkSinceInv
  <2>4. List!NothingOverlooked'
    BY <1>1, <1>2 DEF WalkInv, List!NothingOverlooked, List!Delete, List!Routed, ListTyped,
                      List!TypeOK
  <2> QED BY <1>1, <1>2, <2>3, <2>4 DEF WalkInv, WalkPagesInv
<1>3. CASE listPc # "idle"
  <2>1. Waits' = {}
    BY <1>1, <1>3 DEF List!Delete, Waits
  <2>2. WalkSinceInv'
    BY <1>1, <2>1 DEF WalkInv, WalkSinceInv
  <2> QED BY <1>1, <1>3, <2>1, <2>2 DEF WalkInv, WalkPagesInv, List!NothingOverlooked
<1> QED BY <1>2, <1>3

-----------------------------------------------------------------------------
(* A notification is saved.                                                *)

LEMMA SaveStep ==
    ASSUME List!NoteListAssumption, "time" \notin ListWays, WalkInv, ListTyped',
        NEW n \in ListNote, List!Save(n)
    PROVE  WalkInv'
<1>1. /\ UNCHANGED <<clock, stamp, listPc, way, since, began, page, total, listGot, due>>
      /\ List!Routed' = List!Routed \cup {n} /\ Numbered' = Numbered \cup {n} /\ n \notin Numbered
      /\ List!Routed \in SUBSET Numbered /\ listGot \in SUBSET Numbered /\ n \notin due
      /\ Numbered \in SUBSET ListNote
  BY DEF List!Save, List!client, List!Routed, Numbered, WalkInv, ListTyped, List!TypeOK
<1>2. \A m \in Numbered : id'[m] = id[m]
  BY <1>1 DEF List!Save, WalkInv, ListTyped, List!TypeOK
<1>3. \A m \in Numbered' : id'[m] \in Nat \ {0} /\ (m # n => id'[m] # id'[n])
  BY <1>1 DEF ListTyped, List!TypeOK
<1>4. Waits' \in SUBSET (Waits \cup {n}) /\ Waits \in SUBSET List!Routed
  BY <1>1 DEF Waits, List!Save
\* What comes behind what is saved, or is saved too late, is excused.
<1>5. /\ n \in Waits' /\ way = "id" =>
            /\ \A m \in Numbered : id[m] < id'[n]
            /\ ~List!BehindPages
      /\ n \in Waits' /\ way # "id" => List!Day(clock) <= List!Day(stamp[n])
      /\ \A m \in Waits' : m # n /\ listPc = "list" => id[m] < id'[n]
  <2> DEFINE overtaken == {m \in ListNote : listRow[m] \in {"routed", "deleted"}
      /\ id[m] > id'[n]}
  <2>1. overtaken = {m \in Numbered : id[m] > id'[n]}
    BY DEF Numbered
  <2>2. excused' = excused
            \cup {m \in {n} : IF way = "id" THEN overtaken # {} \/ List!BehindPages
                              ELSE List!Day(clock) > List!Day(stamp[n])}
            \cup IF listPc = "list" THEN overtaken \ listGot ELSE {}
    BY Zenon DEF List!Save
  <2> HIDE DEF overtaken
  <2>3. n \in Waits' /\ way = "id" => overtaken = {} /\ ~List!BehindPages
    BY <2>2 DEF Waits
  <2>4. n \in Waits' /\ way # "id" => ~(List!Day(clock) > List!Day(stamp[n]))
    BY <2>2 DEF Waits
  <2>5. \A m \in Waits' : m # n /\ listPc = "list" => m \notin overtaken /\ m \in Numbered
    BY <1>1, <1>4, <2>2 DEF Waits
  <2>6. \A m \in Numbered : id[m] \in Nat /\ id'[n] \in Nat /\ id[m] # id'[n]
    BY <1>1, <1>2, <1>3
  <2>7. \A m \in Numbered : m \notin overtaken => id[m] < id'[n]
    BY <2>1, <2>6
  <2>8. List!Day(clock) \in Nat /\ List!Day(stamp[n]) \in Nat
    BY DayMonotone DEF WalkInv, ListTyped, List!TypeOK
  <2> QED BY <2>3, <2>4, <2>5, <2>7, <2>8
<1>6. /\ List!Listing' = List!Listing \cup {m \in {n} : List!Selected(n)'}
      /\ \A m \in List!Routed : List!Selected(m)' = List!Selected(m)
  <2>1. \A m \in List!Routed : List!Selected(m)' = List!Selected(m)
    BY <1>1, <1>2 DEF List!Selected
  <2> QED BY <1>1, <2>1 DEF List!Listing
<1>7. n \in Waits' => List!Selected(n)'
  <2>1. CASE way = "id"
    <3>1. since = 0 \/ \E m \in Numbered : since = id[m]
      BY <1>1, <2>1 DEF WalkInv, WalkSinceInv
    <3> QED BY <1>1, <1>3, <1>5, <2>1, <3>1 DEF List!Selected
  <2>2. CASE way = "day"
    <3>1. since <= List!Midnight(List!Day(clock)) /\ clock \in Nat /\ stamp[n] \in Nat
              /\ stamp[n] <= clock
          /\ since \in Nat
      BY <2>2 DEF WalkInv, WalkSinceInv, ListTyped, List!TypeOK
    <3>2. List!Midnight(List!Day(clock)) <= List!Midnight(List!Day(stamp[n])) \/ n \notin Waits'
      <4>1. List!Day(clock) \in Nat /\ List!Day(stamp[n]) \in Nat
        BY <3>1, DayMonotone
      <4>2. n \in Waits' => List!Day(clock) <= List!Day(stamp[n])
        BY <1>5, <2>2
      <4> QED BY <4>1, <4>2 DEF List!Midnight
    <3>3. List!Midnight(List!Day(clock)) \in Nat /\ List!Midnight(List!Day(stamp[n])) \in Nat
      BY <3>1, DayMonotone
    <3>4. n \in Waits' => List!Midnight(List!Day(stamp[n])) >= since
      BY <3>1, <3>2, <3>3
    <3> QED BY <1>1, <2>2, <3>4 DEF List!Selected
  <2> QED BY <2>1, <2>2 DEF WalkInv, ListTyped, List!TypeOK, List!NoteListAssumption
<1>8. WalkSinceInv'
  <2>1. ASSUME way = "id"
        PROVE  /\ since = 0 \/ \E m \in listGot : since = id'[m]
               /\ \A m \in Waits' : id'[m] > since /\ \A k \in listGot : id'[k] < id'[m]
    <3>1. since = 0 \/ \E m \in listGot : since = id'[m]
      BY <1>1, <1>2, <2>1 DEF WalkInv, WalkSinceInv
    <3>2. \A m \in Waits : id'[m] > since /\ \A k \in listGot : id'[k] < id'[m]
      BY <1>1, <1>2, <1>4, <2>1 DEF WalkInv, WalkSinceInv
    <3>3. n \in Waits' => id'[n] > since /\ \A k \in listGot : id'[k] < id'[n]
      BY <1>1, <1>2, <1>5, <1>7, <2>1 DEF List!Selected
    <3> QED BY <1>4, <3>1, <3>2, <3>3
  <2>2. ASSUME way = "day"
        PROVE  /\ since <= List!Midnight(List!Day(clock))
               /\ \A m \in Waits' : IF listPc = "idle" \/ m \in due THEN List!Selected(m)'
                                    ELSE List!Day(stamp[m]) >= List!Day(began)
    <3>1. since <= List!Midnight(List!Day(clock))
      BY <2>2 DEF WalkInv, WalkSinceInv
    <3>2. \A m \in Waits : IF listPc = "idle" \/ m \in due THEN List!Selected(m)'
                           ELSE List!Day(stamp[m]) >= List!Day(began)
      BY <1>4, <1>6, <2>2 DEF WalkInv, WalkSinceInv
    <3>3. n \in Waits' => List!Day(stamp[n]) >= List!Day(began)
      BY <1>5, <2>2, DayMonotone DEF WalkInv, ListTyped, List!TypeOK
    <3> QED BY <1>1, <1>4, <1>7, <3>1, <3>2, <3>3
  <2> QED BY <1>1, <2>1, <2>2 DEF WalkSinceInv
<1>9. /\ List!Listing \in SUBSET List!Listing' /\ List!Listing' \in SUBSET ListNote
      /\ \A m \in List!Listing : id'[m] = id[m] /\ m # n
  BY <1>1, <1>2, <1>6 DEF List!Listing
\* Nothing moves to an earlier page.
<1>10. ASSUME NEW m \in Waits, m \in Waits', m # n
       PROVE  /\ List!Position(m)' \in Nat /\ List!Position(m) \in Nat
              /\ List!Position(m) <= List!Position(m)'
              /\ listPc = "list" => List!Position(m)' = List!Position(m)
  <2> DEFINE before == {k \in List!Listing : id[k] <= id[m]}
             after  == {k \in List!Listing' : id'[k] <= id'[m]}
  <2>1. id'[m] = id[m]
    BY <1>1, <1>2, <1>4
  <2>2. before \in SUBSET after /\ after \in SUBSET ListNote
    BY <1>9, <2>1
  <2>3. listPc = "list" => after = before
    <3>1. listPc = "list" => ~(id'[n] <= id'[m])
      BY <1>1, <1>3, <1>4, <1>5, <1>10, <2>1
    <3> QED BY <1>6, <1>9, <2>1, <3>1
  <2>4. List!Position(m) = List!Cardinality(before) /\ List!Position(m)' = List!Cardinality(after)
    BY DEF List!Position
  <2> HIDE DEF before, after
  <2> QED BY <2>2, <2>3, <2>4, Bigger
<1>11. ASSUME n \in Waits', way = "id", listPc # "idle"
       PROVE  List!Position(n)' > (page - 1) * ListPageSize
  <2> DEFINE upto == {k \in List!Listing' : id'[k] <= id'[n]}
  <2>1. n \in List!Listing'
    BY <1>6, <1>7, <1>11
  <2>2. List!Listing \in SUBSET upto /\ n \in upto /\ n \notin List!Listing
            /\ upto \in SUBSET ListNote
    <3>1. List!Listing \in SUBSET Numbered /\ n \notin List!Listing
      BY <1>1 DEF List!Listing
    <3>2. \A k \in List!Listing : id'[k] <= id'[n]
      BY <1>1, <1>2, <1>3, <1>5, <1>11, <3>1
    <3> QED BY <1>3, <1>9, <2>1, <3>1, <3>2, <1>1
  <2>3. List!Position(n)' = List!Cardinality(upto)
    BY DEF List!Position
  <2> HIDE DEF upto
  <2>4. List!Cardinality(List!Listing) < List!Position(n)'
            /\ List!Cardinality(List!Listing) \in Nat /\ List!Position(n)' \in Nat
    BY <2>2, <2>3, Bigger
  <2>5. ~(List!Cardinality(List!Listing) < (page - 1) * ListPageSize)
    BY <1>5, <1>11 DEF List!BehindPages
  <2>6. (page - 1) * ListPageSize \in Nat
    BY PagesNat DEF WalkInv
  <2> QED BY <2>4, <2>5, <2>6
<1>12. WalkPagesInv'
  <2>1. (page - 1) * ListPageSize \in Nat
    BY PagesNat DEF WalkInv
  <2>2. ASSUME listPc # "idle", NEW m \in Waits', way = "id" \/ m \in due
        PROVE  List!Position(m)' > (page - 1) * ListPageSize
    <3>1. CASE m = n
      BY <1>1, <1>11, <2>2, <3>1
    <3>2. CASE m # n
      <4>1. m \in Waits /\ List!Position(m) > (page - 1) * ListPageSize
        BY <1>4, <2>2, <3>2 DEF WalkInv, WalkPagesInv
      <4>2. List!Position(m)' \in Nat /\ List!Position(m) \in Nat
                /\ List!Position(m) <= List!Position(m)'
        BY <1>10, <3>2, <4>1
      <4> QED BY <2>1, <4>1, <4>2
    <3> QED BY <3>1, <3>2
  <2>3. ASSUME listPc = "list", NEW m \in Waits', m \in due
        PROVE  List!Position(m)' <= total
    BY <1>1, <1>4, <1>10, <2>3 DEF WalkInv, WalkPagesInv
  <2> QED BY <1>1, <2>2, <2>3 DEF WalkPagesInv
<1>13. List!NothingOverlooked'
  <2>1. \A m \in due : listRow'[m] = "routed" => listRow[m] = "routed"
    BY <1>1 DEF List!Save, WalkInv, ListTyped, List!TypeOK
  <2>2. excused \in SUBSET excused'
    BY DEF List!Save
  <2> QED BY <1>1, <2>1, <2>2 DEF WalkInv, List!NothingOverlooked
<1> QED BY <1>8, <1>12, <1>13 DEF WalkInv

-----------------------------------------------------------------------------
(* A page of the list.                                                     *)

LEMMA GivePageStep ==
    ASSUME List!NoteListAssumption, "time" \notin ListWays, WalkInv, ListTyped', List!List
    PROVE  WalkInv'
<1>1. /\ UNCHANGED <<clock, listRow, id, nextId, stamp, way, due, excused>>
      /\ listGot' = listGot \cup List!OnPage /\ listPc = "list"
      /\ List!Routed' = List!Routed /\ Waits' \in SUBSET (Waits \ List!OnPage)
      /\ Waits \in SUBSET List!Routed
      /\ List!Routed \in SUBSET Numbered /\ listGot \in SUBSET Numbered
      /\ Numbered \in SUBSET ListNote
      /\ List!OnPage \in SUBSET List!Listing /\ List!Listing \in SUBSET List!Routed
  BY DEF List!List, List!table, List!Routed, Numbered, Waits, List!OnPage, List!Listing, WalkInv,
         ListTyped, List!TypeOK
<1>2. /\ page * ListPageSize \in Nat /\ (page - 1) * ListPageSize \in Nat
  BY PagesNat DEF WalkInv
\* What is not on this page is on a later one.
<1>3. ASSUME NEW n \in Waits', way = "id" \/ n \in due
      PROVE  n \in List!Listing /\ List!Position(n) \in Nat
          /\ List!Position(n) > page * ListPageSize
  <2>1. n \in List!Listing /\ n \in Waits /\ n \notin List!OnPage
    BY <1>1, <1>3, WaitsListed
  <2>2. List!Position(n) > (page - 1) * ListPageSize /\ List!Position(n) \in Nat
    BY <1>1, <1>3, <2>1, Positions DEF WalkInv, WalkPagesInv, ListTyped, Numbered
  <2>3. List!Position(n) \notin (page - 1) * ListPageSize + 1 .. page * ListPageSize
    BY <2>1 DEF List!OnPage
  <2> QED BY <1>2, <2>1, <2>2, <2>3
<1>4. ASSUME way = "id", NEW n \in Waits', NEW m \in listGot' PROVE id[m] < id[n]
  <2>1. CASE m \in listGot
    BY <1>1, <1>4, <2>1 DEF WalkInv, WalkSinceInv
  <2>2. CASE m \in List!OnPage
    <3>1. List!Position(m) <= page * ListPageSize /\ m \in List!Listing
              /\ List!Position(m) \in Nat
      BY <1>1, <2>2, Positions DEF List!OnPage, WalkInv, ListTyped, Numbered
    <3>2. n \in List!Listing /\ List!Position(n) \in Nat /\ List!Position(n) > page * ListPageSize
      BY <1>3, <1>4
    <3>3. List!Position(m) < List!Position(n)
      BY <1>2, <3>1, <3>2
    <3>4. ~(id[n] < id[m]) /\ id[m] \in Nat /\ id[n] \in Nat /\ (m # n => id[m] # id[n])
      <4>1. ~(id[n] < id[m])
        BY <3>1, <3>2, <3>3, Positions DEF WalkInv, ListTyped
      <4> QED BY <1>1, <3>1, <3>2, <4>1 DEF WalkInv, ListTyped, List!TypeOK
    <3> QED BY <3>1, <3>3, <3>4
  <2> QED BY <1>1, <2>1, <2>2
<1>5. CASE page * ListPageSize < total
  <2>1. listPc' = "count" /\ page' = page + 1 /\ since' = since /\ began' = began
    BY <1>5 DEF List!List
  <2>2. SameList
    BY <1>1, <2>1 DEF SameList, Numbered
  <2>3. \A n \in List!Routed : List!Position(n)' = List!Position(n)
            /\ List!Selected(n)' = List!Selected(n)
    BY <2>2, Unmoved DEF WalkInv
  <2>4. WalkSinceInv'
    <3>1. way = "id" =>
            /\ since = 0 \/ \E m \in listGot' : since = id[m]
            /\ \A n \in Waits' : id[n] > since /\ \A m \in listGot' : id[m] < id[n]
      BY <1>1, <1>4 DEF WalkInv, WalkSinceInv
    <3>2. way = "day" =>
            /\ since <= List!Midnight(List!Day(clock))
            /\ \A n \in Waits' :
                  IF n \in due THEN List!Selected(n)' ELSE List!Day(stamp[n]) >= List!Day(began)
      BY <1>1, <2>3 DEF WalkInv, WalkSinceInv
    <3> QED BY <1>1, <2>1, <3>1, <3>2 DEF WalkSinceInv
  <2>5. WalkPagesInv'
    <3>1. page' - 1 = page
      BY <2>1 DEF WalkInv, ListTyped, List!TypeOK
    <3>2. \A n \in Waits' : way = "id" \/ n \in due =>
              List!Position(n)' > (page' - 1) * ListPageSize
      BY <1>1, <1>3, <2>3, <3>1
    <3> QED BY <1>1, <2>1, <3>2 DEF WalkPagesInv
  <2> QED BY <2>1, <2>4, <2>5 DEF WalkInv, List!NothingOverlooked
<1>6. CASE ~(page * ListPageSize < total)
  <2>1. listPc' = "idle" /\ since' = List!NextSince
    BY <1>6 DEF List!List
  <2>2. \A n \in Waits' : n \notin due
    <3> SUFFICES ASSUME NEW n \in Waits', n \in due PROVE FALSE
      OBVIOUS
    <3>1. List!Position(n) <= total /\ total \in Nat
      BY <1>1 DEF WalkInv, WalkPagesInv, ListTyped, List!TypeOK
    <3>2. List!Position(n) \in Nat /\ List!Position(n) > page * ListPageSize
      BY <1>3
    <3> QED BY <1>2, <1>6, <3>1, <3>2
  <2>3. List!NothingOverlooked'
    BY <1>1, <2>2 DEF List!NothingOverlooked, Waits, List!Routed, WalkInv, ListTyped, Numbered
  <2>4. ASSUME way = "id"
        PROVE  /\ since' = 0 \/ \E m \in listGot' : since' = id[m]
               /\ \A n \in Waits' : id[n] > since' /\ \A m \in listGot' : id[m] < id[n]
    <3>1. CASE listGot' = {}
      <4>1. since' = since /\ listGot = {}
        BY <1>1, <2>1, <2>4, <3>1 DEF List!NextSince
      <4> QED BY <1>1, <2>4, <3>1, <4>1 DEF WalkInv, WalkSinceInv
    <3>2. CASE listGot' # {}
      <4>1. listGot' \in SUBSET ListNote /\ since' = List!Highest(listGot')
        BY <1>1, <2>1, <2>4, <3>2 DEF List!NextSince
      <4>2. PICK m \in listGot' : List!Highest(listGot') = id[m]
        BY <3>2, <4>1, HighestOf DEF WalkInv
      <4>3. \A n \in Waits' : id[m] < id[n]
        BY <1>4, <2>4
      <4>4. \A n \in Waits' : \A k \in listGot' : id[k] < id[n]
        BY <1>4, <2>4
      <4> QED BY <4>1, <4>2, <4>3, <4>4 DEF WalkInv, ListTyped, List!TypeOK
    <3> QED BY <3>1, <3>2
  <2>5. ASSUME way = "day"
        PROVE  /\ since' <= List!Midnight(List!Day(clock))
               /\ \A n \in Waits' : List!Selected(n)'
    <3>1. since' = List!Midnight(List!Day(began))
      BY <2>1, <2>5 DEF List!NextSince
    <3>2. since' <= List!Midnight(List!Day(clock))
      BY <3>1, DayMonotone DEF WalkInv, ListTyped, List!TypeOK
    <3>3. ASSUME NEW n \in Waits' PROVE List!Selected(n)'
      <4>1. List!Day(stamp[n]) >= List!Day(began)
        BY <1>1, <2>2, <2>5 DEF WalkInv, WalkSinceInv
      <4>2. List!Day(stamp[n]) \in Nat /\ List!Day(began) \in Nat
        BY <1>1, DayMonotone DEF WalkInv, ListTyped, List!TypeOK
      <4>3. List!Midnight(List!Day(stamp[n])) >= since'
        BY <3>1, <4>1, <4>2 DEF List!Midnight
      <4> QED BY <1>1, <2>5, <4>3 DEF List!Selected
    <3> QED BY <3>2, <3>3
  <2>6. WalkSinceInv'
    BY <1>1, <2>1, <2>4, <2>5 DEF WalkSinceInv
  <2> QED BY <2>1, <2>3, <2>6 DEF WalkInv, WalkPagesInv
<1> QED BY <1>5, <1>6

-----------------------------------------------------------------------------
LEMMA WalkInvStep ==
    ASSUME List!NoteListAssumption, "time" \notin ListWays, WalkInv, [List!Next]_(List!vars)
    PROVE  WalkInv'
<1>1. ListTyped'
  BY ListTypedStep DEF WalkInv
<1> QED
  BY <1>1, QuietSteps, SaveStep, DeleteStep, StartWalkStep, CountStep, GivePageStep DEF List!Next

\* The table of notifications and the walk of a repository keep their types.
THEOREM NoteListTypes == ASSUME List!NoteListAssumption PROVE List!Spec => []List!TypeOK
<1>1. List!Init => ListTyped
  BY WalkInvInit DEF WalkInv
<1>2. ListTyped => List!TypeOK
  BY DEF ListTyped
<1> QED BY ListTypedStep, <1>1, <1>2, PTL DEF List!Spec

\* A repository that asks by id or by day receives page by page all that was routed
\* before it last began and is still there, however its requests, the saving of others
\* and the deletion of old ones interleave, save what no walk can find (webapi.py, api.py).
THEOREM NothingIsOverlooked ==
    ASSUME List!NoteListAssumption, "time" \notin ListWays
          PROVE  List!Spec => []List!NothingOverlooked
<1>1. WalkInv => List!NothingOverlooked
  BY DEF WalkInv
<1> QED BY WalkInvInit, WalkInvStep, <1>1, PTL DEF List!Spec

-----------------------------------------------------------------------------
\* Whatever the components do side by side, their variables keep their types.
THEOREM ServicesTypes == Spec => []TypeOK
<1>1. /\ Ftp!FtpAssumption /\ Harvest!HarvesterAssumption /\ Sword!SwordInAssumption
      /\ Doi!RegisterAssumption /\ Match!MatchAssumption /\ List!NoteListAssumption
      /\ Engine!HarvesterEnginesAssumption /\ Users!UserAccountsAssumption
      /\ Stat!StatisticsAssumption
  BY ServicesAssumption
<1>2. (RegInv => Doi!TypeOK) /\ (MatchInv => Match!TypeOK) /\ (EngInv => Engine!TypeOK)
  BY MatchTypes DEF RegInv, EngInv
<1>3. Spec => [](Ftp!TypeOK /\ Harvest!TypeOK /\ Sword!TypeOK)
  BY <1>1, FtpSpec, HarvestSpec, SwordSpec, FtpTypes, HarvesterTypes,
     Sword!SwordInTypes, PTL
<1>4. Spec => [](Doi!TypeOK /\ Match!TypeOK /\ Engine!TypeOK)
  BY <1>1, <1>2, DoiSpec, MatchSpec, EngineSpec, RegisterKept, MatchKept, EnginesKept, PTL
<1>5. Spec => [](Testing!TypeOK /\ List!TypeOK /\ Users!TypeOK /\ Stat!TypeOK)
  BY <1>1, TestingSpec, ListSpec, UsersSpec, StatSpec, PubTestingTypes, NoteListTypes,
     Users!UsersTypes, Stat!StatisticsTypes, PTL
<1> QED BY <1>3, <1>4, <1>5, PTL DEF TypeOK

\* FTP: whatever the faults, a deposit is never lost nor made two notifications without
\* a crash or a failure, a file is moved only when it is whole, and the publisher is told
\* what became of it (scheduler.py, move_ftp and processftp).
THEOREM DepositsAreKept == Spec => []DepositsKept
<1>1. Ftp!FtpAssumption
  BY ServicesAssumption
<1> QED BY <1>1, FtpSpec, DepositNotLost, DepositOnce, FilesWhole, PTL DEF DepositsKept

\* Harvester: the end date tells what was dealt with, and an article is noted once, unless
\* a run failed to record what it did (harvester_main.py).
THEOREM HarvestIsOnce == Spec => []HarvestedOnce
<1>1. Harvest!HarvesterAssumption
  BY ServicesAssumption
<1> QED BY <1>1, HarvestSpec, EndDateTrue, NotedOnlyOnce, PTL
        DEF HarvestedOnce

\* Engines: an engine that has done its work has put every article that was listed into
\* the index, and once, however the list changes and requests fail meanwhile, but for what
\* the property names (harvester/engine).
THEOREM EveryArticleFound == Spec => []EachFoundOnce
<1>1. Engine!HarvesterEnginesAssumption
  BY ServicesAssumption
<1> QED BY <1>1, EngineSpec, EachArticleOnce, PTL DEF EachFoundOnce

\* Repositories are given what they ask for.  One that all notifications matched has all
\* that its settings for duplicates ask for, and what a publisher deposited
\* (doi_register.py); and whatever is submitted, added, dropped as redundant, archived and
\* brought back, no address and no affiliation with a domain asked for stays unmatched
\* (models/account.py, routing.py).
THEOREM AskedForIsGiven == Spec => []AskedIsGiven
<1>1. Doi!RegisterAssumption /\ Match!MatchAssumption
  BY ServicesAssumption
<1>2. Match!MatchAssumption /\ MatchInv => Match!DomainsKeepMatches
  BY MatchesKept
<1> QED BY <1>1, <1>2, DoiSpec, MatchSpec, AllHad, MatchKept, PTL DEF AskedIsGiven

\* SWORD-in: whatever two requests at a time do to a container, its record tells whether
\* there is a notification, and the package is not what was replaced (models/sword.py).
THEOREM ContainersAreInOrder == Spec => []ContainersInOrder
<1>1. Sword!SwordInAssumption
  BY ServicesAssumption
<1> QED BY <1>1, SwordSpec, Sword!RecordTold, Sword!PackageCurrent, PTL
        DEF ContainersInOrder

\* Publisher testing: the account is in test exactly while it is being tested, and no test
\* leaves an unrouted notification behind (models/account.py, pub_testing.py).
THEOREM TestingIsInOrder == Spec => []TestingInOrder
BY TestingSpec, AccountConsistent, TestsLeaveNothing, PTL DEF TestingInOrder

\* Users: wrong passwords are counted, with their pauses, and an organisation is deleted
\* with its users, whatever is requested at once (views/account.py).
THEOREM UsersAreInOrder == Spec => []UsersInOrder
<1>1. Users!UserAccountsAssumption
  BY ServicesAssumption
<1> QED BY <1>1, UsersSpec, Users!FailuresArePaced, PTL DEF UsersInOrder

\* Lists by the API: a repository that asks by id or by day, page by page, has received
\* what had been routed when it last began, whatever is routed and deleted meanwhile
\* (api.py, webapi.py).
THEOREM ListsOverlookNothing ==
    ASSUME "time" \notin ListWays PROVE Spec => []NothingOverlooked
<1>1. List!NoteListAssumption
  BY ServicesAssumption
<1> QED BY <1>1, ListSpec, NothingIsOverlooked, PTL DEF NothingOverlooked

\* Nothing is given or taken twice: no useless duplicate is sent (doi_register.py), and a
\* code or a link to log in with is accepted once (views/account.py).
THEOREM NothingIsTwice == Spec => NothingTwice
<1>1. Doi!RegisterAssumption /\ Users!UserAccountsAssumption
  BY ServicesAssumption
<1> QED BY <1>1, DoiSpec, UsersSpec, NoneUseless, Users!TokensAreGood DEF NothingTwice

\* Statistics: the figures of a month whose job is done say what happened in it, though they
\* are computed in the next one (jper/scheduler.py, jper/models/reports.py).
THEOREM FiguresAreTrue == Spec => []FiguresAgree
<1>1. Stat!StatisticsAssumption
  BY ServicesAssumption
<1> QED BY <1>1, StatSpec, Stat!FiguresTrue, PTL DEF FiguresAgree

\* Statistics: the grand totals of the reports are those of the month: no fewer notifications
\* than unique ones, and every deposit that was accepted (jper/reports.py).
THEOREM TotalsAreTrue == Spec => []TotalsAgree
<1>1. Stat!StatisticsAssumption
  BY ServicesAssumption
<1> QED BY <1>1, StatSpec, Stat!TotalsTrue, PTL DEF TotalsAgree

\* Statistics: a row once written stays, also when the job begins again (jper/scheduler.py).
THEOREM RowsAreKept == Spec => FiguresStay
BY StatSpec, Stat!RowsKept DEF FiguresStay
===============================================================================
