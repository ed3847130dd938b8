---------------------------- MODULE StatisticsProofs ----------------------------
(***************************************************************************)
(* Theorems about Statistics, for any repositories, publishers and         *)
(* articles, months of any length and any number of faults: types, that    *)
(* the figures of a month whose statistics are made agree with what        *)
(* happened in it, and that rows stay.  The inductive invariant says what  *)
(* each statement of the monthly job finds and leaves: what it has put in  *)
(* the tables so far is true of the month, what comes after it is not      *)
(* there yet, and none of the month's notifications are deleted.           *)
(***************************************************************************)
EXTENDS Statistics, FiniteSetTheorems, FunctionTheorems, TLAPS

-----------------------------------------------------------------------------
(* Months.                                                                 *)

LEMMA Quotient ==
    ASSUME NEW a \in Nat, NEW b \in Nat \ {0}
    PROVE  /\ a \div b \in Nat
           /\ b * (a \div b) <= a
           /\ a < b * (a \div b) + b
BY SMT

LEMMA MonthOf ==
    ASSUME StatisticsAssumption, NEW d \in Nat \ {0}
    PROVE  /\ Month(d) \in Nat
           /\ MonthDays * Month(d) < d
           /\ d <= MonthDays * Month(d) + MonthDays
<1>1. MonthDays \in Nat \ {0} /\ d - 1 \in Nat
  BY DEF StatisticsAssumption
<1> QED BY <1>1, Quotient DEF Month

LEMMA MonthsPass ==
    ASSUME StatisticsAssumption, NEW d \in Nat \ {0}, NEW e \in Nat \ {0}, d <= e
    PROVE  Month(d) <= Month(e)
<1>1. MonthDays \in Nat \ {0}
  BY DEF StatisticsAssumption
<1> DEFINE k == MonthDays
           a == Month(d)
           b == Month(e)
<1>2. a \in Nat /\ b \in Nat /\ k * a < d /\ e <= k * b + k
  BY MonthOf
<1>3. k * a < k * b + k
  BY <1>1, <1>2
<1> HIDE DEF k, a, b
<1>4. k * b + k = k * (b + 1)
  BY <1>1, <1>2 DEF k
<1>5. ASSUME a >= b + 1 PROVE FALSE
  <2>1. k * a >= k * (b + 1)
    BY <1>1, <1>2, <1>5, Z3 DEF k
  <2> QED BY <1>1, <1>2, <1>3, <1>4, <2>1 DEF k
<1>6. a <= b
  BY <1>2, <1>5
<1> QED BY <1>6 DEF a, b

\* The month after a day is that of the day or the next one, of which it is the first day.
LEMMA NextDay ==
    ASSUME StatisticsAssumption, NEW d \in Nat \ {0}
    PROVE  \/ Month(d + 1) = Month(d)
           \/ Month(d + 1) = Month(d) + 1 /\ d + 1 = FirstDay(Month(d + 1))
<1>1. MonthDays \in Nat \ {0}
  BY DEF StatisticsAssumption
<1> DEFINE k == MonthDays
           a == Month(d)
           b == Month(d + 1)
<1>2. a \in Nat /\ b \in Nat /\ k * a < d /\ d <= k * a + k
  BY MonthOf
<1>3. d + 1 \in Nat \ {0}
  OBVIOUS
<1>4. k * b < d + 1 /\ d + 1 <= k * b + k
  BY <1>3, MonthOf
<1>5. a <= b
  BY <1>3, MonthsPass
<1> HIDE DEF k, a, b
<1>6. k \in Nat \ {0}
  BY <1>1 DEF k
<1>7. CASE b = a
  BY <1>7 DEF a, b
<1>8. CASE b >= a + 1
  <2>1. k * b >= k * (a + 1) /\ k * (a + 1) = k * a + k
    BY <1>2, <1>6, <1>8, Z3
  <2>2. d = k * b
    BY <1>2, <1>4, <1>6, <2>1
  <2>3. k * b = k * (a + 1)
    BY <1>2, <1>4, <1>6, <2>1, <2>2
  <2>4. b = a + 1
    <3>1. ASSUME b >= a + 2 PROVE FALSE
      <4>1. k * b >= k * (a + 2) /\ k * (a + 2) = k * (a + 1) + k
        BY <1>2, <1>6, <3>1, Z3
      <4> QED BY <1>2, <1>6, <2>3, <4>1
    <3> QED BY <1>2, <1>8, <3>1
  <2>5. d + 1 = b * k + 1
    BY <1>2, <1>6, <2>2
  <2> QED BY <2>4, <2>5 DEF a, b, k, FirstDay
<1> QED BY <1>2, <1>5, <1>7, <1>8

-----------------------------------------------------------------------------
(* The inductive invariant.                                                *)

Deposits(day) ==
    [id : Nat, pub : Publisher, doi : DOI, day : 1 .. day, ok : BOOLEAN, live : BOOLEAN]
Runs(day) == [harv : Harvester, day : 1 .. day, sent : BOOLEAN]
Waiting == [id : Nat, from : Publisher \cup Harvester, doi : DOI]
Routed(day) ==
    [id : Nat, from : Publisher \cup Harvester, doi : DOI, at : 1 .. day, repos : SUBSET Repo,
     content : BOOLEAN, live : SUBSET Repo]

\* What goes through the system.
Flows ==
    /\ clock \in 1 .. MaxClock /\ live \in [Repo -> 0 .. clock]
    /\ deposits \subseteq Deposits(clock) /\ IsFiniteSet(deposits)
    /\ history \subseteq Runs(clock) /\ IsFiniteSet(history)
    /\ waiting \subseteq Waiting
    /\ notes \subseteq Routed(clock) /\ IsFiniteSet(notes)
    /\ \A n \in notes : n.repos # {} /\ n.live = {r \in n.repos : live[r] # 0 /\ live[r] <= n.at}
    /\ deleted \subseteq {n.id : n \in notes}
    /\ \A n \in notes : n.id \in deleted => n.at < clock - KeepMonths * MonthDays

\* A number is that of one submission, which is a deposit or a harvested item.
Numbered ==
    /\ \A d \in deposits : d.id \in 1 .. Received /\ (d.live => d.ok)
    /\ \A n \in waiting : n.id \in 1 .. Received
    /\ \A n \in notes : n.id \in 1 .. Received
    /\ \A d, e \in deposits : d.id = e.id => d = e
    /\ \A n, m \in notes : n.id = m.id => n = m
    /\ \A n, m \in waiting : n.id = m.id => n = m
    /\ \A n \in waiting : \A m \in notes : n.id # m.id
    /\ \A n \in waiting : \A d \in deposits : n.id = d.id => d.ok

\* The statements of the job, in their order.
Place == [idle |-> 0, rowsL |-> 1, rowsT |-> 2, uniqueL |-> 3, uniqueT |-> 4, publishers |-> 5,
          harvesters |-> 6, reports |-> 7, track |-> 8]

\* The job of a month is done on the first day of the next one, unless it was stopped.
Timely ==
    /\ job \in DOMAIN Place /\ faults \in 0 .. MaxFaults
    /\ analysis \in {"none", "sent", "failed"}
    /\ tracker \in Nat /\ tracker \in {ThisMonth, LastMonth}
    /\ job # "idle" => tracker = LastMonth
    /\ faulty \subseteq 0 .. LastMonth
    /\ tracker = LastMonth /\ LastMonth \notin faulty => clock = FirstDay(ThisMonth)

Tables ==
    /\ institutions \in [DOMAIN institutions -> [meta : Nat, content : Nat]]
    /\ DOMAIN institutions \subseteq {"L", "T"} \X (0 .. LastMonth) \X (Repo \cup {"unique"})
    /\ publishers \in [DOMAIN publishers -> [received : Nat, matched : Nat]]
    /\ DOMAIN publishers \subseteq (0 .. LastMonth) \X Publisher
    /\ \A key \in DOMAIN publishers : publishers[key].matched <= publishers[key].received
    /\ DOMAIN harvesters \subseteq (0 .. LastMonth) \X Harvester

In(month) == {n \in notes : InMonth(n.at, month)}
SentAs(type, n) == IF type = "L" THEN n.live ELSE n.repos \ n.live

RowsTrue(type, month) ==
    \A r \in Repo :
        Sum(InstitutionRow(type, month, r)) = Cardinality({n \in In(month) : r \in SentAs(type, n)})
UniqueTrue(type, month) ==
    Sum(InstitutionRow(type, month, "unique")) =
        Cardinality({n \in In(month) : SentAs(type, n) # {}})
ToldTrue(month) ==
    \A n \in In(month) : <<month, n.from>> \in DOMAIN distributed =>
        {n.id} \X n.live \subseteq distributed[<<month, n.from>>]

NoRows(type, month) == \A r \in Repo : <<type, month, r>> \notin DOMAIN institutions
NoUnique(type, month) == <<type, month, "unique">> \notin DOMAIN institutions
NoneTold(month) == \A p : <<month, p>> \notin DOMAIN distributed

\* Whether the job of a month is beyond a statement.
Beyond(month, place) == month < tracker \/ (month = tracker /\ Place[job] > place)

\* What the statements have inserted of a month so far is true, and what others will insert is
\* not there.
MonthTrue(month) ==
    /\ IF Beyond(month, 1) THEN RowsTrue("L", month) ELSE NoRows("L", month)
    /\ IF Beyond(month, 2) THEN RowsTrue("T", month) ELSE NoRows("T", month)
    /\ IF Beyond(month, 3) THEN UniqueTrue("L", month) ELSE NoUnique("L", month)
    /\ IF Beyond(month, 4) THEN UniqueTrue("T", month) ELSE NoUnique("T", month)
    /\ IF Beyond(month, 7) THEN ToldTrue(month) ELSE NoneTold(month)

\* So it is of every month whose job was not hit by anything.
Progress == \A month \in Nat \ faulty : MonthTrue(month)

StatInv == Flows /\ Numbered /\ Timely /\ Tables /\ Progress

-----------------------------------------------------------------------------
(* Init, and what several steps have in common.                            *)

LEMMA StatInit == ASSUME StatisticsAssumption, Init PROVE StatInv
<1>1. MonthDays \in Nat \ {0} /\ MaxClock \in Nat \ {0} /\ MaxFaults \in Nat
  BY DEF StatisticsAssumption
<1>2. ThisMonth = 0
  <2>1. Month(1) \in Nat /\ MonthDays * Month(1) < 1
    BY MonthOf
  <2>2. ASSUME Month(1) >= 1 PROVE FALSE
    <3>1. MonthDays * Month(1) >= 1
      BY <1>1, <2>1, <2>2, Z3
    <3> QED BY <1>1, <2>1, <3>1
  <2> QED BY <2>1, <2>2 DEF Init, ThisMonth
<1>3. Cardinality({}) = 0 /\ IsFiniteSet({})
  BY FS_EmptySet
<1>4. Flows
  BY <1>1, <1>3 DEF Init, Flows
<1>5. Numbered
  BY DEF Init, Numbered
<1>6. Timely
  BY <1>1, <1>2 DEF Init, Timely, Place, LastMonth
<1>7. Tables
  BY <1>2 DEF Init, Tables, NoFigures
<1>8. Progress
  <2>1. \A month \in Nat, place \in 1 .. 8 : ~Beyond(month, place)
    BY DEF Init, Beyond, Place
  <2> QED BY <2>1 DEF Init, Progress, MonthTrue, NoRows, NoUnique, NoneTold, NoFigures
<1> QED BY <1>4, <1>5, <1>6, <1>7, <1>8 DEF StatInv

LEMMA ReceivedType ==
    ASSUME Flows
    PROVE  Cardinality(deposits) \in Nat /\ Cardinality(history) \in Nat /\ Received \in Nat
BY FS_CardinalityType DEF Flows, Received

\* Nothing is told of what has been received by figures that have not changed.
LEMMA SameFigures ==
    ASSUME Progress, UNCHANGED <<notes, institutions, distributed, tracker, job, faulty>>
    PROVE  Progress'
BY ZenonT(60)
   DEF Progress, MonthTrue, Beyond, RowsTrue, UniqueTrue, ToldTrue, NoRows, NoUnique, NoneTold,
       In, InstitutionRow, Row

\* A step of the job leaves alone what it counts.
LEMMA SameFlows ==
    ASSUME Flows, Numbered, UNCHANGED <<clock, flow, deleted>>
    PROVE  Flows' /\ Numbered'
BY DEF Flows, Numbered, flow, Received

\* What is received while the job is idle changes no table.
LEMMA SameTables ==
    ASSUME Timely, Tables, UNCHANGED <<clock, tracker, job, faulty, faults, figures>>,
           analysis' \in {"none", "sent", "failed"}
    PROVE  Timely' /\ Tables'
BY DEF Timely, Tables, figures, ThisMonth, LastMonth

-----------------------------------------------------------------------------
(* The flow.                                                               *)

LEMMA DepositKeeps ==
    ASSUME StatisticsAssumption, StatInv, NEW p \in Publisher, NEW d \in DOI, Deposit(p, d)
    PROVE  StatInv'
<1> USE DEF StatInv
<1>1. PICK ok \in BOOLEAN :
         /\ deposits' = deposits \cup
               {[id |-> Received + 1, pub |-> p, doi |-> d, day |-> clock, ok |-> ok,
                 live |-> FALSE]}
         /\ waiting' = IF ok THEN waiting \cup {[id |-> Received + 1, from |-> p, doi |-> d]}
                             ELSE waiting
  BY DEF Deposit
<1> DEFINE new == [id |-> Received + 1, pub |-> p, doi |-> d, day |-> clock, ok |-> ok,
                   live |-> FALSE]
           item == [id |-> Received + 1, from |-> p, doi |-> d]
<1>2. UNCHANGED <<clock, live, history, notes, deleted, figures, tracker, job, analysis,
                  faulty, faults>>
  BY DEF Deposit
<1>3. Received \in Nat /\ Cardinality(deposits) \in Nat /\ Cardinality(history) \in Nat
  BY ReceivedType
<1>4. clock \in Nat \ {0} /\ new \in Deposits(clock) /\ item \in Waiting
  BY <1>3 DEF Flows, Deposits, Waiting
<1>5. new \notin deposits
  BY <1>3 DEF Numbered
<1>6. IsFiniteSet(deposits') /\ Cardinality(deposits') = Cardinality(deposits) + 1
  <2> HIDE DEF new
  <2>1. deposits' = deposits \cup {new}
    BY <1>1 DEF new
  <2> QED BY <1>5, <2>1, FS_AddElement DEF Flows
<1>7. Received' = Received + 1
  BY <1>2, <1>3, <1>6 DEF Received
<1>8. Flows'
  BY <1>1, <1>2, <1>4, <1>6 DEF Flows
<1>9. Numbered'
  <2>1. deposits' = deposits \cup {new} /\ waiting' \subseteq waiting \cup {item}
    BY <1>1
  <2>2. item \in waiting' => ok
    BY <1>1, <1>3 DEF Numbered
  <2>3. \A n \in waiting', e \in deposits' : n.id = e.id => e.ok
    BY <1>3, <2>1, <2>2 DEF Numbered
  <2>4. \A e, f \in deposits' : e.id = f.id => e = f
    <3>1. \A e \in deposits : e.id # Received + 1
      BY <1>3 DEF Numbered
    <3>2. new.id = Received + 1
      OBVIOUS
    <3>3. \A e, f \in deposits : e.id = f.id => e = f
      BY DEF Numbered
    <3> HIDE DEF new
    <3> QED BY <2>1, <3>1, <3>2, <3>3
  <2>5. \A n, m \in waiting' : n.id = m.id => n = m
    BY <1>3, <2>1 DEF Numbered
  <2>6. \A n \in waiting' : n.id \in 1 .. Received' /\ \A m \in notes' : n.id # m.id
    BY <1>2, <1>3, <1>7, <2>1 DEF Numbered
  <2>7. /\ \A e \in deposits' : e.id \in 1 .. Received' /\ (e.live => e.ok)
        /\ \A n \in notes' : n.id \in 1 .. Received'
    BY <1>2, <1>3, <1>7, <2>1 DEF Numbered
  <2> QED BY <1>2, <2>3, <2>4, <2>5, <2>6, <2>7 DEF Numbered
<1>10. Timely' /\ Tables'
  BY <1>2, SameTables DEF Timely
<1>11. Progress'
  BY <1>2, SameFigures DEF figures
<1> QED BY <1>8, <1>9, <1>10, <1>11

LEMMA HarvestRunKeeps ==
    ASSUME StatisticsAssumption, StatInv, NEW h \in Harvester, HarvestRun(h)
    PROVE  StatInv'
<1> USE DEF StatInv
<1>1. UNCHANGED <<clock, live, deposits, notes, deleted, figures, tracker, job, analysis,
                  faulty, faults>>
  BY DEF HarvestRun
<1>2. PICK run \in {[harv |-> h, day |-> clock, sent |-> s] : s \in BOOLEAN} :
         /\ history' = history \cup {run}
         /\ \/ UNCHANGED waiting
            \/ \E d \in DOI :
                  waiting' = waiting \cup {[id |-> Received + 1, from |-> h, doi |-> d]}
  BY DEF HarvestRun
<1>3. Received \in Nat /\ Cardinality(deposits) \in Nat /\ Cardinality(history) \in Nat
  BY ReceivedType
<1>4. clock \in Nat \ {0} /\ run \in Runs(clock)
  BY DEF Flows, Runs
<1>5. run \notin history
  BY <1>4 DEF HarvestRun, Runs
<1>6. IsFiniteSet(history') /\ Cardinality(history') = Cardinality(history) + 1
  BY <1>2, <1>5, FS_AddElement DEF Flows
<1>7. Received' = Received + 1
  BY <1>1, <1>3, <1>6 DEF Received
<1>8. waiting' \subseteq Waiting
  BY <1>2, <1>3 DEF Flows, Waiting
<1>9. Flows'
  BY <1>1, <1>2, <1>4, <1>6, <1>8 DEF Flows
<1>10. Numbered'
  <2>1. CASE UNCHANGED waiting
    BY <1>1, <1>3, <1>7, <2>1 DEF Numbered
  <2>2. ASSUME NEW d \in DOI,
               waiting' = waiting \cup {[id |-> Received + 1, from |-> h, doi |-> d]}
        PROVE  Numbered'
    BY <1>1, <1>3, <1>7, <2>2 DEF Numbered
  <2> QED BY <1>2, <2>1, <2>2
<1>11. Timely' /\ Tables'
  BY <1>1, SameTables DEF Timely
<1>12. Progress'
  BY <1>1, SameFigures DEF figures
<1> QED BY <1>9, <1>10, <1>11, <1>12

LEMMA RoutedType ==
    ASSUME StatisticsAssumption, StatInv, NEW n \in waiting, NEW repos \in SUBSET Repo,
           repos # {}, RouteNote(n, repos)
    PROVE  LET new == [id |-> n.id, from |-> n.from, doi |-> n.doi, at |-> clock, repos |-> repos,
                       content |-> n.from \in Publisher, live |-> {r \in repos : live[r] # 0}]
           IN  /\ notes' = notes \cup {new} /\ new \in Routed(clock)
               /\ new.live = {r \in repos : live[r] # 0 /\ live[r] <= clock}
               /\ new \notin notes /\ new.id \notin deleted
BY DEF RouteNote, StatInv, Flows, Numbered, Waiting, Routed

\* The records of deposits stay as many when one says that it was matched.
LEMMA MarkedDeposits ==
    ASSUME StatInv, NEW id, NEW given \in BOOLEAN,
           \A d \in deposits : d.id = id => d.ok,
           deposits' = {[d EXCEPT !.live = @ \/ (d.id = id /\ given)] : d \in deposits}
    PROVE  /\ IsFiniteSet(deposits') /\ Cardinality(deposits') = Cardinality(deposits)
           /\ deposits' \subseteq Deposits(clock)
           /\ \A d \in deposits' : \E e \in deposits : d.id = e.id /\ d.ok = e.ok
           /\ \A d \in deposits' : d.live => d.ok
           /\ \A d, e \in deposits' : d.id = e.id => d = e
<1> DEFINE Marked(d) == [d EXCEPT !.live = @ \/ (d.id = id /\ given)]
           f == [d \in deposits |-> Marked(d)]
<1>1. \A d \in deposits : d \in Deposits(clock) /\ (d.live => d.ok)
  BY DEF StatInv, Flows, Numbered
<1>2. \A d \in deposits :
         /\ Marked(d) \in Deposits(clock) /\ Marked(d).id = d.id /\ Marked(d).ok = d.ok
         /\ Marked(d).live => d.live \/ d.id = id
  BY <1>1 DEF Deposits
<1>3. deposits' = {Marked(d) : d \in deposits}
  OBVIOUS
<1> HIDE DEF Marked
<1>4. \A d, e \in deposits : Marked(d).id = Marked(e).id => d = e
  BY <1>2 DEF StatInv, Numbered
<1>5. f \in Bijection(deposits, deposits')
  <2>1. f \in [deposits -> deposits'] /\ \A t \in deposits' : \E d \in deposits : f[d] = t
    BY <1>3
  <2>2. \A d, e \in deposits : f[d] = f[e] => d = e
    BY <1>4
  <2> HIDE DEF f
  <2> QED BY <2>1, <2>2, Fun_IsBij
<1>6. ExistsBijection(deposits, deposits')
  BY <1>5 DEF ExistsBijection
<1>7. IsFiniteSet(deposits') /\ Cardinality(deposits') = Cardinality(deposits)
  BY <1>6, FS_Bijection DEF StatInv, Flows
<1> QED BY <1>1, <1>2, <1>3, <1>4, <1>7

\* What is received today is of no month whose figures are there.
LEMMA PastMonths ==
    ASSUME StatisticsAssumption, StatInv, job = "idle",
           UNCHANGED <<institutions, distributed, tracker, job, faulty>>,
           \A n \in notes : n \in notes',
           \A n \in notes' : n \in notes \/ n.at = clock
    PROVE  Progress'
<1>1. clock \in Nat \ {0}
  BY DEF StatInv, Flows, StatisticsAssumption
<1>2. ThisMonth \in Nat
  BY <1>1, MonthOf DEF ThisMonth
<1>3. tracker \in Nat /\ tracker <= ThisMonth
  BY <1>2 DEF StatInv, Timely, LastMonth
<1>4. ASSUME NEW month \in Nat, month < tracker PROVE In(month)' = In(month)
  BY <1>2, <1>3, <1>4 DEF In, InMonth, ThisMonth
<1>5. \A month \in Nat, place \in 1 .. 8 : Beyond(month, place) <=> month < tracker
  BY <1>3 DEF Beyond, Place
<1>6. \A month \in Nat, place \in 1 .. 8 : Beyond(month, place)' <=> month < tracker
  BY <1>3 DEF Beyond, Place
<1>7. ASSUME NEW month \in Nat \ faulty, month < tracker
      PROVE  /\ RowsTrue("L", month)' /\ RowsTrue("T", month)'
             /\ UniqueTrue("L", month)' /\ UniqueTrue("T", month)' /\ ToldTrue(month)'
  <2>1. /\ RowsTrue("L", month) /\ RowsTrue("T", month)
        /\ UniqueTrue("L", month) /\ UniqueTrue("T", month) /\ ToldTrue(month)
    BY <1>5, <1>7 DEF StatInv, Progress, MonthTrue
  <2> QED BY <1>4, <1>7, <2>1 DEF RowsTrue, UniqueTrue, ToldTrue, InstitutionRow, Row
<1>8. ASSUME NEW month \in Nat \ faulty, ~(month < tracker)
      PROVE  /\ NoRows("L", month)' /\ NoRows("T", month)'
             /\ NoUnique("L", month)' /\ NoUnique("T", month)' /\ NoneTold(month)'
  BY <1>5, <1>8 DEF StatInv, Progress, MonthTrue, NoRows, NoUnique, NoneTold
<1> QED BY <1>6, <1>7, <1>8 DEF Progress, MonthTrue

LEMMA RouteNoteKeeps ==
    ASSUME StatisticsAssumption, StatInv, job = "idle",
           NEW n \in waiting, NEW repos \in SUBSET Repo, RouteNote(n, repos)
    PROVE  StatInv'
<1> USE DEF StatInv
<1>1. /\ waiting' = waiting \ {n}
      /\ UNCHANGED <<clock, live, history, deleted, figures, tracker, job, analysis, faulty,
                     faults>>
  BY DEF RouteNote
<1>2. Timely' /\ Tables'
  BY <1>1, SameTables DEF Timely
<1>3. CASE repos = {}
  <2>1. UNCHANGED <<notes, deposits>>
    BY <1>3 DEF RouteNote
  <2>2. Flows'
    BY <1>1, <2>1 DEF Flows
  <2>3. Numbered'
    BY <1>1, <2>1 DEF Numbered, Received
  <2>4. Progress'
    BY <1>1, <2>1, SameFigures DEF figures
  <2> QED BY <1>2, <2>2, <2>3, <2>4
<1>4. CASE repos # {}
  <2> DEFINE new == [id |-> n.id, from |-> n.from, doi |-> n.doi, at |-> clock, repos |-> repos,
                     content |-> n.from \in Publisher, live |-> {r \in repos : live[r] # 0}]
             given == \E r \in repos : live[r] # 0
  <2>1. /\ notes' = notes \cup {new} /\ new \in Routed(clock)
        /\ new.live = {r \in repos : live[r] # 0 /\ live[r] <= clock}
        /\ new \notin notes /\ new.id \notin deleted
    BY <1>4, RoutedType
  <2>2. new.id = n.id /\ new.repos = repos /\ new.at = clock
    OBVIOUS
  <2>3. deposits' = {[d EXCEPT !.live = @ \/ (d.id = n.id /\ given)] : d \in deposits}
    BY <1>4 DEF RouteNote
  <2>4. \A d \in deposits : d.id = n.id => d.ok
    BY DEF Numbered
  <2>5. given \in BOOLEAN
    OBVIOUS
  <2> HIDE DEF new, given
  <2>6. /\ IsFiniteSet(deposits') /\ Cardinality(deposits') = Cardinality(deposits)
        /\ deposits' \subseteq Deposits(clock)
        /\ \A d \in deposits' : \E e \in deposits : d.id = e.id /\ d.ok = e.ok
        /\ \A d \in deposits' : d.live => d.ok
        /\ \A d, e \in deposits' : d.id = e.id => d = e
    BY <2>3, <2>4, <2>5, MarkedDeposits
  <2>7. Received' = Received
    BY <1>1, <2>6 DEF Received
  <2>8. Flows'
    <3>1. IsFiniteSet(notes')
      BY <2>1, FS_AddElement DEF Flows
    <3>2. \A m \in notes' : m.repos # {} /\ m.live = {r \in m.repos : live[r] # 0 /\ live[r] <= m.at}
      BY <1>4, <2>1, <2>2 DEF Flows
    <3>3. /\ deleted \subseteq {m.id : m \in notes'}
          /\ \A m \in notes' : m.id \in deleted => m.at < clock - KeepMonths * MonthDays
      BY <2>1 DEF Flows
    <3> QED BY <1>1, <2>1, <2>6, <3>1, <3>2, <3>3 DEF Flows
  <2>9. Numbered'
    <3>1. \A d \in deposits' : d.id \in 1 .. Received' /\ (d.live => d.ok)
      BY <2>6, <2>7 DEF Numbered
    <3>2. n.id \in 1 .. Received /\ n \notin waiting'
      BY <1>1 DEF Numbered
    <3>3. /\ \A m \in waiting' : m.id \in 1 .. Received'
          /\ \A m \in notes' : m.id \in 1 .. Received'
      BY <1>1, <2>1, <2>2, <2>7, <3>2 DEF Numbered
    <3>4. \A m, o \in notes' : m.id = o.id => m = o
      <4>1. \A m \in notes : m.id # new.id
        BY <2>2 DEF Numbered
      <4>2. \A m, o \in notes : m.id = o.id => m = o
        BY DEF Numbered
      <4> QED BY <2>1, <4>1, <4>2
    <3>5. \A m, o \in waiting' : m.id = o.id => m = o
      BY <1>1 DEF Numbered
    <3>6. \A m \in waiting' : \A o \in notes' : m.id # o.id
      BY <1>1, <2>1, <2>2 DEF Numbered
    <3>7. \A m \in waiting' : \A d \in deposits' : m.id = d.id => d.ok
      BY <1>1, <2>6 DEF Numbered
    <3> QED BY <2>6, <3>1, <3>3, <3>4, <3>5, <3>6, <3>7 DEF Numbered
  <2>10. Progress'
    BY <1>1, <2>1, <2>2, PastMonths DEF figures
  <2> QED BY <1>2, <2>8, <2>9, <2>10
<1> QED BY <1>3, <1>4

\* What a day later is as it was.
LEMMA DayPasses ==
    ASSUME StatisticsAssumption, StatInv, TimePasses,
           UNCHANGED <<deposits, history, waiting, notes, deleted, figures, tracker, job, analysis,
                       faulty, faults>>,
           live' \in [Repo -> 0 .. clock + 1],
           \A r \in Repo : live'[r] = live[r] \/ (live[r] = 0 /\ live'[r] = clock + 1)
    PROVE  StatInv'
<1> USE DEF StatInv
<1>1. /\ clock \in Nat \ {0} /\ MaxClock \in Nat /\ clock' = clock + 1 /\ clock < MaxClock
      /\ job = "idle" /\ KeepMonths \in Nat \ {0} /\ MonthDays \in Nat \ {0}
  BY DEF Flows, StatisticsAssumption, TimePasses
<1>2. ThisMonth \in Nat /\ ThisMonth' = Month(clock + 1)
  BY <1>1, MonthOf DEF ThisMonth
<1>3. \/ ThisMonth' = ThisMonth
      \/ ThisMonth' = ThisMonth + 1 /\ clock + 1 = FirstDay(ThisMonth')
  BY <1>1, <1>2, NextDay DEF ThisMonth
<1>4. Flows'
  <2>1. deposits' \subseteq Deposits(clock + 1) /\ history' \subseteq Runs(clock + 1)
    BY <1>1 DEF Flows, Deposits, Runs
  <2>2. notes' \subseteq Routed(clock + 1)
    BY <1>1 DEF Flows, Routed
  <2>3. ASSUME NEW n \in notes
        PROVE  n.live = {r \in n.repos : live'[r] # 0 /\ live'[r] <= n.at}
    <3>1. n.at \in 1 .. clock /\ n.repos \subseteq Repo
      BY DEF Flows, Routed
    <3>2. \A r \in Repo : live[r] \in 0 .. clock
      BY DEF Flows
    <3>3. \A r \in Repo : (live'[r] # 0 /\ live'[r] <= n.at) <=> (live[r] # 0 /\ live[r] <= n.at)
      BY <1>1, <3>1, <3>2
    <3> QED BY <3>1, <3>3 DEF Flows
  <2>4. ASSUME NEW n \in notes, n.id \in deleted PROVE n.at < clock + 1 - KeepMonths * MonthDays
    <3> DEFINE kept == KeepMonths * MonthDays
    <3>1. n.at \in Nat /\ n.at < clock - kept
      BY <2>4 DEF Flows, Routed
    <3>2. kept \in Nat
      BY <1>1
    <3> HIDE DEF kept
    <3>3. n.at < clock + 1 - kept
      BY <1>1, <3>1, <3>2
    <3> QED BY <3>3 DEF kept
  <2> QED BY <1>1, <2>1, <2>2, <2>3, <2>4 DEF Flows
<1>5. Numbered'
  BY DEF Numbered, Received
<1>6. Timely'
  <2>1. tracker \in Nat /\ tracker \in {ThisMonth, ThisMonth - 1} /\ faulty \subseteq 0 .. ThisMonth - 1
    BY DEF Timely, LastMonth
  <2>2. tracker = ThisMonth \/ (ThisMonth - 1 \in faulty /\ ThisMonth' = ThisMonth)
    BY <1>2 DEF TimePasses, LastMonth
  <2>3. tracker \in {ThisMonth', ThisMonth' - 1} /\ faulty \subseteq 0 .. ThisMonth' - 1
    BY <1>2, <1>3, <2>1, <2>2
  <2>4. tracker = ThisMonth' - 1 /\ ThisMonth' - 1 \notin faulty => clock' = FirstDay(ThisMonth')
    BY <1>1, <1>2, <1>3, <2>1, <2>2
  <2> QED BY <1>1, <2>3, <2>4 DEF Timely, LastMonth, figures
<1>7. Tables'
  <2>1. ThisMonth' \in Nat /\ LastMonth <= LastMonth' /\ LastMonth \in Int /\ LastMonth' \in Int
    BY <1>2, <1>3 DEF LastMonth
  <2>2. 0 .. LastMonth \subseteq 0 .. LastMonth'
    BY <2>1
  <2> QED BY <2>2 DEF Tables, figures
<1>8. Progress'
  BY SameFigures DEF figures
<1> QED BY <1>4, <1>5, <1>6, <1>7, <1>8

LEMMA GoLiveKeeps ==
    ASSUME StatisticsAssumption, StatInv, NEW r \in Repo, GoLive(r) PROVE StatInv'
<1>1. clock \in Nat /\ live \in [Repo -> 0 .. clock]
  BY DEF StatInv, Flows
<1>2. live' = [live EXCEPT ![r] = clock + 1] /\ live[r] = 0 /\ TimePasses
  BY DEF GoLive
<1>3. live' \in [Repo -> 0 .. clock + 1]
  BY <1>1, <1>2
<1>4. \A q \in Repo : live'[q] = live[q] \/ (live[q] = 0 /\ live'[q] = clock + 1)
  BY <1>1, <1>2
<1> QED BY <1>2, <1>3, <1>4, DayPasses DEF GoLive

LEMMA TickKeeps == ASSUME StatisticsAssumption, StatInv, Tick PROVE StatInv'
<1>1. clock \in Nat /\ live \in [Repo -> 0 .. clock] /\ live' = live
  BY DEF StatInv, Flows, Tick, flow
<1>2. live' \in [Repo -> 0 .. clock + 1]
  BY <1>1
<1> QED BY <1>1, <1>2, DayPasses DEF Tick, flow

LEMMA DeleteOldKeeps ==
    ASSUME StatisticsAssumption, StatInv, job = "idle", DeleteOld PROVE StatInv'
<1> USE DEF StatInv
<1>1. /\ deleted' = deleted \cup {n.id : n \in {x \in notes : x.at < clock - KeepMonths * MonthDays}}
      /\ UNCHANGED <<clock, flow, figures, tracker, job, analysis, faulty, faults>>
  BY DEF DeleteOld
<1>2. \A n, m \in notes : n.id = m.id => n = m
  BY DEF Numbered
<1>3. Flows'
  <2>1. deleted' \subseteq {n.id : n \in notes}
    BY <1>1 DEF Flows
  <2>2. \A n \in notes : n.id \in deleted' => n.at < clock - KeepMonths * MonthDays
    BY <1>1, <1>2 DEF Flows
  <2> QED BY <1>1, <2>1, <2>2 DEF Flows, flow
<1>4. Numbered'
  BY <1>1 DEF Numbered, flow, Received
<1>5. Timely' /\ Tables'
  BY <1>1, SameTables DEF Timely
<1>6. Progress'
  BY <1>1, SameFigures DEF figures, flow
<1> QED BY <1>3, <1>4, <1>5, <1>6

LEMMA AnalyseKeeps == ASSUME StatisticsAssumption, StatInv, Analyse PROVE StatInv'
<1> USE DEF StatInv
<1>1. UNCHANGED <<clock, flow, deleted, figures, tracker, job, faulty, faults>>
  BY DEF Analyse
<1>2. analysis' \in {"none", "sent", "failed"}
  BY DEF Analyse
<1>3. Flows' /\ Numbered'
  BY <1>1, SameFlows
<1>4. Timely' /\ Tables'
  BY <1>1, <1>2, SameTables
<1>5. Progress'
  BY <1>1, SameFigures DEF figures, flow
<1> QED BY <1>3, <1>4, <1>5

-----------------------------------------------------------------------------
(* The job.                                                                *)

\* What is not deleted of a month when its job comes in time: all of it.
LEMMA NoneDeletedYet ==
    ASSUME StatisticsAssumption, StatInv, clock = FirstDay(ThisMonth),
           NEW n \in notes, InMonth(n.at, LastMonth)
    PROVE  n.id \notin deleted
<1> DEFINE k == MonthDays
           kept == KeepMonths
           m == ThisMonth
<1>1. k \in Nat \ {0} /\ kept \in Nat \ {0} /\ clock \in Nat \ {0}
  BY DEF StatisticsAssumption, StatInv, Flows
<1>2. m \in Nat /\ n.at \in Nat \ {0}
  BY <1>1, MonthOf DEF ThisMonth, StatInv, Flows, Routed
<1>3. k * (m - 1) < n.at
  BY <1>2, MonthOf DEF InMonth, LastMonth
<1>4. clock = m * k + 1
  BY DEF FirstDay
<1>5. n.id \in deleted => n.at < clock - kept * k
  BY DEF StatInv, Flows
<1> HIDE DEF k, kept, m
<1>6. kept * k >= k
  BY <1>1, Z3
<1>7. k * (m - 1) = m * k - k /\ m * k \in Nat /\ kept * k \in Nat
  BY <1>1, <1>2, Z3
<1> QED BY <1>1, <1>2, <1>3, <1>4, <1>5, <1>6, <1>7

\* What is counted for a repository is what was sent to it.
LEMMA CountedIsSent ==
    ASSUME StatisticsAssumption, StatInv, clock = FirstDay(ThisMonth),
           NEW type \in {"L", "T"}, NEW r \in Repo
    PROVE  CountedFor(type, LastMonth, r) = {n \in In(LastMonth) : r \in SentAs(type, n)}
<1>1. \A n \in notes : InMonth(n.at, LastMonth) => n \in Table
  BY NoneDeletedYet DEF Table
<1>2. \A n \in notes : n.live = {q \in n.repos : live[q] # 0 /\ live[q] <= n.at}
  BY DEF StatInv, Flows
<1>3. live[r] \in Nat /\ \A n \in notes : n.at \in Nat
  BY DEF StatInv, Flows, Routed
<1>4. \A n \in notes : r \in SentAs(type, n) <=>
         /\ r \in n.repos
         /\ IF type = "L" THEN live[r] # 0 /\ n.at >= live[r] ELSE live[r] = 0 \/ n.at < live[r]
  BY <1>2, <1>3 DEF SentAs
<1> QED BY <1>1, <1>4 DEF CountedFor, In, Table

\* Notifications with files and without files are all there are.
LEMMA FiguresAddUp ==
    ASSUME NEW S, IsFiniteSet(S)
    PROVE  Figures(S) \in [meta : Nat, content : Nat] /\ Sum(Figures(S)) = Cardinality(S)
<1> DEFINE A == {n \in S : ~n.content}
           B == {n \in S : n.content}
<1>1. IsFiniteSet(A) /\ IsFiniteSet(B) /\ A \cup B = S /\ A \cap B = {}
  BY FS_Subset
<1>2. Cardinality(A) \in Nat /\ Cardinality(B) \in Nat /\ Cardinality({}) = 0
  BY <1>1, FS_CardinalityType, FS_EmptySet
<1>3. Cardinality(A \cup B) = Cardinality(A) + Cardinality(B) - Cardinality(A \cap B)
  BY <1>1, FS_Union
<1>4. /\ Figures(S) = [meta |-> Cardinality(A), content |-> Cardinality(B)]
      /\ Figures(S).meta = Cardinality(A) /\ Figures(S).content = Cardinality(B)
  BY DEF Figures
<1> HIDE DEF A, B
<1>5. Cardinality(S) = Cardinality(A) + Cardinality(B)
  <2>1. Cardinality(A \cap B) = 0 /\ Cardinality(A \cup B) = Cardinality(S)
    BY <1>1, <1>2, Zenon
  <2> QED BY <1>2, <1>3, <2>1
<1>6. Figures(S) \in [meta : Nat, content : Nat]
  BY <1>2, <1>4
<1> QED BY <1>4, <1>5, <1>6 DEF Sum

LEMMA StartMonthKeeps == ASSUME StatisticsAssumption, StatInv, StartMonth PROVE StatInv'
<1> USE DEF StatInv
<1>1. /\ job = "idle" /\ tracker # ThisMonth /\ job' = "rowsL"
      /\ UNCHANGED <<clock, flow, deleted, figures, tracker, analysis, faulty, faults>>
  BY DEF StartMonth
<1>2. Flows' /\ Numbered'
  BY <1>1, SameFlows
<1>3. Timely'
  BY <1>1 DEF Timely, Place, ThisMonth, LastMonth
<1>4. Tables'
  BY <1>1 DEF Tables, figures, ThisMonth, LastMonth
<1>5. Progress'
  <2>1. \A month \in Nat, place \in 1 .. 8 : Beyond(month, place)' <=> Beyond(month, place)
    BY <1>1 DEF Beyond, Place
  <2>2. ASSUME NEW month \in Nat \ faulty PROVE MonthTrue(month)'
    <3>1. MonthTrue(month)
      BY DEF Progress
    <3>2. \A t : /\ RowsTrue(t, month)' <=> RowsTrue(t, month)
                 /\ UniqueTrue(t, month)' <=> UniqueTrue(t, month)
                 /\ NoRows(t, month)' <=> NoRows(t, month)
                 /\ NoUnique(t, month)' <=> NoUnique(t, month)
      BY <1>1 DEF RowsTrue, UniqueTrue, NoRows, NoUnique, In, InstitutionRow, Row, figures, flow
    <3>3. (ToldTrue(month)' <=> ToldTrue(month)) /\ (NoneTold(month)' <=> NoneTold(month))
      BY <1>1 DEF ToldTrue, NoneTold, In, figures, flow
    <3> QED BY <2>1, <3>1, <3>2, <3>3 DEF MonthTrue
  <2> QED BY <1>1, <2>2 DEF Progress
<1> QED BY <1>2, <1>3, <1>4, <1>5

LEMMA Successors ==
    /\ \A s \in DOMAIN AfterStatement :
          /\ s \in DOMAIN Place /\ AfterStatement[s] \in DOMAIN Place /\ AfterFailure[s] \in DOMAIN Place
          /\ AfterStatement[s] # "idle" /\ AfterFailure[s] # "idle"
          /\ Place[AfterStatement[s]] = Place[s] + 1
    /\ DOMAIN AfterStatement = {"rowsL", "rowsT", "uniqueL", "uniqueT", "publishers", "harvesters"}
BY DEF AfterStatement, AfterFailure, Place

\* A statement that inserts rows of the last month for institutions.
LEMMA InstitutionsInserted ==
    ASSUME StatisticsAssumption, StatInv,
           NEW statement \in {"rowsL", "rowsT", "uniqueL", "uniqueT"}, NEW type \in {"L", "T"},
           NEW rows, rows \in [DOMAIN rows -> [meta : Nat, content : Nat]],
           DOMAIN rows \subseteq {type} \X {LastMonth} \X (Repo \cup {"unique"}),
           LastMonth \notin faulty => DOMAIN rows \cap DOMAIN institutions = {},
           InsertInstitutions(statement, rows)
    PROVE  /\ Flows' /\ Numbered' /\ Timely' /\ Tables'
           /\ LastMonth \notin faulty =>
                 /\ job' = AfterStatement[statement]
                 /\ \A key \in DOMAIN rows :
                       key \in DOMAIN institutions' /\ institutions'[key] = rows[key]
           /\ \A key : key \notin DOMAIN rows =>
                 /\ key \in DOMAIN institutions' <=> key \in DOMAIN institutions
                 /\ key \in DOMAIN institutions => institutions'[key] = institutions[key]
           /\ \A month \in Nat \ faulty : month # LastMonth => MonthTrue(month)'
<1> USE DEF StatInv
<1> DEFINE new == DOMAIN rows \cap DOMAIN institutions = {}
<1>1. /\ job = statement
      /\ institutions' = IF new THEN With(institutions, rows) ELSE institutions
      /\ job' = IF new THEN AfterStatement[job] ELSE AfterFailure[job]
      /\ UNCHANGED <<clock, flow, deleted, publishers, harvesters, reported, distributed, tracker,
                     analysis, faulty, faults>>
  BY DEF InsertInstitutions, Goes
<1>2. Flows' /\ Numbered'
  BY <1>1, SameFlows
<1>3. job \in DOMAIN AfterStatement /\ tracker = LastMonth /\ LastMonth \in Nat
  BY <1>1, Successors DEF Timely
<1>4. job' \in DOMAIN Place /\ job' # "idle"
  BY <1>1, <1>3, Successors
<1>5. Timely'
  BY <1>1, <1>3, <1>4 DEF Timely, ThisMonth, LastMonth
<1>6. /\ DOMAIN institutions' \subseteq DOMAIN institutions \cup DOMAIN rows
      /\ DOMAIN institutions \subseteq DOMAIN institutions'
      /\ \A key \in DOMAIN institutions : institutions'[key] = institutions[key]
      /\ \A key \in DOMAIN institutions' : key \notin DOMAIN institutions => institutions'[key] = rows[key]
      /\ new => DOMAIN institutions' = DOMAIN institutions \cup DOMAIN rows
      /\ institutions' = [key \in DOMAIN institutions' |-> institutions'[key]]
  <2>1. CASE new
    BY <1>1, <2>1 DEF With
  <2>2. CASE ~new
    BY <1>1, <2>2 DEF Tables
  <2> QED BY <2>1, <2>2
<1>7. Tables'
  <2>1. DOMAIN rows \subseteq {"L", "T"} \X (0 .. LastMonth) \X (Repo \cup {"unique"})
    BY <1>3
  <2>2. \A key \in DOMAIN institutions' : institutions'[key] \in [meta : Nat, content : Nat]
    BY <1>6 DEF Tables
  <2>3. institutions' \in [DOMAIN institutions' -> [meta : Nat, content : Nat]]
    BY <1>6, <2>2
  <2>4. LastMonth' = LastMonth /\ UNCHANGED <<publishers, harvesters>>
    BY <1>1 DEF LastMonth, ThisMonth
  <2>5. DOMAIN institutions' \subseteq {"L", "T"} \X (0 .. LastMonth) \X (Repo \cup {"unique"})
    BY <1>6, <2>1 DEF Tables
  <2> QED BY <2>3, <2>4, <2>5 DEF Tables
<1>8. ASSUME NEW month \in Nat \ faulty, month # LastMonth PROVE MonthTrue(month)'
  <2>1. \A place \in 1 .. 8 : Beyond(month, place)' <=> Beyond(month, place)
    BY <1>1, <1>3, <1>8 DEF Beyond
  <2>2. \A t, r : /\ <<t, month, r>> \notin DOMAIN rows
                  /\ <<t, month, r>> \in DOMAIN institutions' <=> <<t, month, r>> \in DOMAIN institutions
    BY <1>6, <1>8
  <2>3. \A t, r : InstitutionRow(t, month, r)' = InstitutionRow(t, month, r)
    BY <1>6, <2>2 DEF InstitutionRow, Row
  <2>4. MonthTrue(month)
    BY <1>8 DEF Progress
  <2> QED BY <1>1, <2>1, <2>2, <2>3, <2>4
          DEF MonthTrue, RowsTrue, UniqueTrue, ToldTrue, NoRows, NoUnique, NoneTold, In, flow
<1> QED BY <1>1, <1>2, <1>5, <1>6, <1>7, <1>8

\* Figures of what is in the table are figures.
LEMMA CountedFigures ==
    ASSUME StatInv, NEW S, S \subseteq notes
    PROVE  /\ IsFiniteSet(S) /\ Figures(S) \in [meta : Nat, content : Nat]
           /\ Sum(Figures(S)) = Cardinality(S)
<1>1. IsFiniteSet(S)
  BY FS_Subset DEF StatInv, Flows
<1> QED BY <1>1, FiguresAddUp

\* The rows for the repositories are of their own month, and not there yet.
LEMMA RowsByRepoType ==
    ASSUME StatisticsAssumption, StatInv, NEW type \in {"L", "T"}
    PROVE  LET rows == RowsByRepo(type, LastMonth)
           IN  /\ rows \in [DOMAIN rows -> [meta : Nat, content : Nat]]
               /\ DOMAIN rows \subseteq {type} \X {LastMonth} \X Repo
               /\ \A r \in Repo :
                     LET key == <<type, LastMonth, r>>
                         counted == CountedFor(type, LastMonth, r)
                     IN  /\ key \in DOMAIN rows <=> counted # {}
                         /\ key \in DOMAIN rows => rows[key] = Figures(counted)
<1> DEFINE rows == RowsByRepo(type, LastMonth)
           Counted(r) == CountedFor(type, LastMonth, r)
           keys == {k \in {type} \X {LastMonth} \X Repo : Counted(k[3]) # {}}
<1>1. rows = [key \in keys |-> Figures(Counted(key[3]))]
  BY DEF RowsByRepo
<1>2. \A r : Counted(r) \subseteq notes
  BY DEF CountedFor, Table
<1>3. \A r : Figures(Counted(r)) \in [meta : Nat, content : Nat]
  BY <1>2, CountedFigures
<1>4. \A key \in {type} \X {LastMonth} \X Repo : key[3] \in Repo
  OBVIOUS
<1> HIDE DEF rows, Counted
<1>5. rows \in [DOMAIN rows -> [meta : Nat, content : Nat]] /\ DOMAIN rows = keys
  BY <1>1, <1>3
<1>6. ASSUME NEW r \in Repo
      PROVE  /\ <<type, LastMonth, r>> \in DOMAIN rows <=> Counted(r) # {}
             /\ <<type, LastMonth, r>> \in DOMAIN rows => rows[<<type, LastMonth, r>>] = Figures(Counted(r))
  <2> DEFINE key == <<type, LastMonth, r>>
  <2>1. key \in {type} \X {LastMonth} \X Repo /\ key[3] = r
    OBVIOUS
  <2> HIDE DEF key
  <2>2. key \in keys <=> Counted(r) # {}
    BY <2>1
  <2>3. key \in keys => rows[key] = Figures(Counted(r))
    BY <1>1, <2>1
  <2> QED BY <1>5, <2>2, <2>3 DEF key
<1> QED BY <1>5, <1>6 DEF rows, Counted

\* The row for what is unique.
LEMMA UniqueRowType ==
    ASSUME StatisticsAssumption, StatInv, NEW type \in {"L", "T"}
    PROVE  LET rows == UniqueRow(type, LastMonth)
               key == <<type, LastMonth, "unique">>
               counted == UNION {CountedFor(type, LastMonth, r) : r \in Repo}
           IN  /\ rows \in [DOMAIN rows -> [meta : Nat, content : Nat]]
               /\ DOMAIN rows = {key} /\ rows[key] = Figures(counted)
<1> DEFINE key == <<type, LastMonth, "unique">>
           counted == UNION {CountedFor(type, LastMonth, r) : r \in Repo}
<1>1. UniqueRow(type, LastMonth) = [k \in {key} |-> Figures(counted)]
  BY DEF UniqueRow
<1>2. counted \subseteq notes
  BY DEF CountedFor, Table
<1>3. Figures(counted) \in [meta : Nat, content : Nat]
  BY <1>2, CountedFigures
<1> HIDE DEF key, counted
<1>4. LET rows == UniqueRow(type, LastMonth)
      IN  /\ rows \in [DOMAIN rows -> [meta : Nat, content : Nat]]
          /\ DOMAIN rows = {key} /\ rows[key] = Figures(counted)
  BY <1>1, <1>3
<1> QED BY <1>4 DEF key, counted

\* On the first day of a month nothing is inserted yet of the last one that is at a statement.
LEMMA AtStatement ==
    ASSUME StatisticsAssumption, StatInv, job \in DOMAIN AfterStatement
    PROVE  /\ LastMonth \in Nat /\ tracker = LastMonth
           /\ LastMonth \notin faulty => clock = FirstDay(ThisMonth) /\ MonthTrue(LastMonth)
           /\ \A place \in 1 .. 8 : Beyond(LastMonth, place) <=> Place[job] > place
<1>1. job # "idle"
  BY Successors DEF AfterStatement
<1>2. LastMonth \in Nat /\ tracker = LastMonth
  BY <1>1 DEF StatInv, Timely
<1> QED BY <1>2 DEF StatInv, Timely, Progress, Beyond

\* The rows for the repositories.
LEMMA RowsInserted ==
    ASSUME StatisticsAssumption, StatInv, NEW type, NEW statement,
           \/ type = "L" /\ statement = "rowsL"
           \/ type = "T" /\ statement = "rowsT",
           InsertInstitutions(statement, RowsByRepo(type, LastMonth))
    PROVE  StatInv'
<1> DEFINE rows == RowsByRepo(type, LastMonth)
           counted(r) == CountedFor(type, LastMonth, r)
<1>1. /\ job = statement /\ Place[job] = IF type = "L" THEN 1 ELSE 2
      /\ job \in DOMAIN AfterStatement /\ AfterStatement[job] \in DOMAIN Place
      /\ Place[AfterStatement[job]] = Place[job] + 1
      /\ type \in {"L", "T"} /\ statement \in {"rowsL", "rowsT", "uniqueL", "uniqueT"}
  BY DEF InsertInstitutions, Place, AfterStatement
<1>2. /\ LastMonth \in Nat /\ tracker = LastMonth
      /\ LastMonth \notin faulty => clock = FirstDay(ThisMonth) /\ MonthTrue(LastMonth)
      /\ \A place \in 1 .. 8 : Beyond(LastMonth, place) <=> Place[job] > place
  BY <1>1, AtStatement
<1>3. /\ rows \in [DOMAIN rows -> [meta : Nat, content : Nat]]
      /\ DOMAIN rows \subseteq {type} \X {LastMonth} \X Repo
      /\ \A r \in Repo : /\ <<type, LastMonth, r>> \in DOMAIN rows <=> counted(r) # {}
                         /\ <<type, LastMonth, r>> \in DOMAIN rows =>
                               rows[<<type, LastMonth, r>>] = Figures(counted(r))
  BY <1>1, RowsByRepoType
<1>4. InsertInstitutions(statement, rows)
  OBVIOUS
<1> HIDE DEF rows
<1>5. LastMonth \notin faulty => NoRows(type, LastMonth)
  BY <1>1, <1>2 DEF MonthTrue
<1>6. LastMonth \notin faulty => DOMAIN rows \cap DOMAIN institutions = {}
  BY <1>3, <1>5 DEF NoRows
<1>7. DOMAIN rows \subseteq {type} \X {LastMonth} \X (Repo \cup {"unique"})
  BY <1>3
<1>8. /\ Flows' /\ Numbered' /\ Timely' /\ Tables'
      /\ LastMonth \notin faulty =>
            /\ job' = AfterStatement[statement]
            /\ \A key \in DOMAIN rows :
                  key \in DOMAIN institutions' /\ institutions'[key] = rows[key]
      /\ \A key : key \notin DOMAIN rows =>
            /\ key \in DOMAIN institutions' <=> key \in DOMAIN institutions
            /\ key \in DOMAIN institutions => institutions'[key] = institutions[key]
      /\ \A month \in Nat \ faulty : month # LastMonth => MonthTrue(month)'
  BY <1>1, <1>3, <1>4, <1>6, <1>7, InstitutionsInserted
<1>9. UNCHANGED <<notes, tracker, faulty, distributed>>
  BY <1>4 DEF InsertInstitutions, flow
<1>10. ASSUME NEW month \in Nat \ faulty, month = LastMonth PROVE MonthTrue(month)'
  <2>1. \A place \in 1 .. 8 : Beyond(month, place)' <=> Place[job] >= place
    BY <1>1, <1>2, <1>8, <1>9, <1>10 DEF Beyond
  <2>2. \A t, r : t # type \/ r \notin Repo => <<t, month, r>> \notin DOMAIN rows
    BY <1>3
  <2>3. \A t, r : t # type \/ r \notin Repo =>
           /\ <<t, month, r>> \in DOMAIN institutions' <=> <<t, month, r>> \in DOMAIN institutions
           /\ InstitutionRow(t, month, r)' = InstitutionRow(t, month, r)
    BY <1>8, <2>2 DEF InstitutionRow, Row
  <2>4. ASSUME NEW r \in Repo
        PROVE  Sum(InstitutionRow(type, month, r)') =
                  Cardinality({n \in In(month) : r \in SentAs(type, n)})
    <3> DEFINE key == <<type, month, r>>
    <3>1. counted(r) = {n \in In(month) : r \in SentAs(type, n)}
      BY <1>1, <1>2, <1>10, CountedIsSent
    <3>2. CASE counted(r) # {}
      <4>1. key \in DOMAIN institutions' /\ institutions'[key] = Figures(counted(r))
        BY <1>3, <1>8, <1>10, <3>2
      <4>2. Sum(Figures(counted(r))) = Cardinality(counted(r))
        BY CountedFigures DEF CountedFor, Table
      <4> QED BY <3>1, <4>1, <4>2, Zenon DEF InstitutionRow, Row
    <3>3. CASE counted(r) = {}
      <4>1. key \notin DOMAIN institutions'
        BY <1>3, <1>5, <1>8, <1>10, <3>3 DEF NoRows
      <4>2. Cardinality(counted(r)) = 0
        BY <3>3, FS_EmptySet, Zenon
      <4>3. InstitutionRow(type, month, r)' = [meta |-> 0, content |-> 0]
        BY <4>1 DEF InstitutionRow, Row
      <4>4. Sum([meta |-> 0, content |-> 0]) = 0
        BY DEF Sum
      <4> QED BY <3>1, <4>2, <4>3, <4>4, Zenon
    <3> QED BY <3>2, <3>3
  <2>5. RowsTrue(type, month)'
    BY <1>9, <2>4 DEF RowsTrue, Sum, In, SentAs
  <2>6. \A t : t # type => /\ RowsTrue(t, month)' <=> RowsTrue(t, month)
                           /\ NoRows(t, month)' <=> NoRows(t, month)
    BY <1>9, <2>3 DEF RowsTrue, NoRows, In, SentAs, Sum
  <2>7. \A t : NoUnique(t, month)' <=> NoUnique(t, month)
    BY <2>3 DEF NoUnique, StatisticsAssumption
  <2>8. MonthTrue(month)
    BY <1>2, <1>10
  <2>11. NoneTold(month)' <=> NoneTold(month)
    BY <1>9 DEF NoneTold
  <2> HIDE DEF counted
  <2>9. CASE type = "L"
    BY <1>1, <1>2, <1>10, <2>1, <2>5, <2>6, <2>7, <2>8, <2>9, <2>11 DEF MonthTrue
  <2>10. CASE type = "T"
    BY <1>1, <1>2, <1>10, <2>1, <2>5, <2>6, <2>7, <2>8, <2>10, <2>11 DEF MonthTrue
  <2> QED BY <1>1, <2>9, <2>10
<1> QED BY <1>8, <1>9, <1>10 DEF StatInv, Progress

\* The row for what is unique.
LEMMA UniqueInserted ==
    ASSUME StatisticsAssumption, StatInv, NEW type, NEW statement,
           \/ type = "L" /\ statement = "uniqueL"
           \/ type = "T" /\ statement = "uniqueT",
           InsertInstitutions(statement, UniqueRow(type, LastMonth))
    PROVE  StatInv'
<1> DEFINE rows == UniqueRow(type, LastMonth)
           counted == UNION {CountedFor(type, LastMonth, r) : r \in Repo}
<1>1. /\ job = statement /\ Place[job] = IF type = "L" THEN 3 ELSE 4
      /\ job \in DOMAIN AfterStatement /\ AfterStatement[job] \in DOMAIN Place
      /\ Place[AfterStatement[job]] = Place[job] + 1
      /\ type \in {"L", "T"} /\ statement \in {"rowsL", "rowsT", "uniqueL", "uniqueT"}
  BY DEF InsertInstitutions, Place, AfterStatement
<1>2. /\ LastMonth \in Nat /\ tracker = LastMonth
      /\ LastMonth \notin faulty => clock = FirstDay(ThisMonth) /\ MonthTrue(LastMonth)
      /\ \A place \in 1 .. 8 : Beyond(LastMonth, place) <=> Place[job] > place
  BY <1>1, AtStatement
<1>3. /\ rows \in [DOMAIN rows -> [meta : Nat, content : Nat]]
      /\ DOMAIN rows = {<<type, LastMonth, "unique">>}
      /\ rows[<<type, LastMonth, "unique">>] = Figures(counted)
  BY <1>1, UniqueRowType
<1>4. InsertInstitutions(statement, rows)
  OBVIOUS
<1> HIDE DEF rows
<1>5. LastMonth \notin faulty => NoUnique(type, LastMonth)
  BY <1>1, <1>2 DEF MonthTrue
<1>6. LastMonth \notin faulty => DOMAIN rows \cap DOMAIN institutions = {}
  BY <1>3, <1>5 DEF NoUnique
<1>7. DOMAIN rows \subseteq {type} \X {LastMonth} \X (Repo \cup {"unique"})
  BY <1>3
<1>8. /\ Flows' /\ Numbered' /\ Timely' /\ Tables'
      /\ LastMonth \notin faulty =>
            /\ job' = AfterStatement[statement]
            /\ \A key \in DOMAIN rows :
                  key \in DOMAIN institutions' /\ institutions'[key] = rows[key]
      /\ \A key : key \notin DOMAIN rows =>
            /\ key \in DOMAIN institutions' <=> key \in DOMAIN institutions
            /\ key \in DOMAIN institutions => institutions'[key] = institutions[key]
      /\ \A month \in Nat \ faulty : month # LastMonth => MonthTrue(month)'
  BY <1>1, <1>3, <1>4, <1>6, <1>7, InstitutionsInserted
<1>9. UNCHANGED <<notes, tracker, faulty, distributed>>
  BY <1>4 DEF InsertInstitutions, flow
<1>10. ASSUME NEW month \in Nat \ faulty, month = LastMonth PROVE MonthTrue(month)'
  <2>1. \A place \in 1 .. 8 : Beyond(month, place)' <=> Place[job] >= place
    BY <1>1, <1>2, <1>8, <1>9, <1>10 DEF Beyond
  <2>2. \A t, r : t # type \/ r \in Repo => <<t, month, r>> \notin DOMAIN rows
    BY <1>3 DEF StatisticsAssumption
  <2>3. \A t, r : t # type \/ r \in Repo =>
           /\ <<t, month, r>> \in DOMAIN institutions' <=> <<t, month, r>> \in DOMAIN institutions
           /\ InstitutionRow(t, month, r)' = InstitutionRow(t, month, r)
    BY <1>8, <2>2 DEF InstitutionRow, Row
  <2>4. Sum(InstitutionRow(type, month, "unique")') =
           Cardinality({n \in In(month) : SentAs(type, n) # {}})
    <3>1. counted = {n \in In(month) : SentAs(type, n) # {}}
      <4>1. \A r \in Repo : CountedFor(type, LastMonth, r) = {n \in In(month) : r \in SentAs(type, n)}
        BY <1>1, <1>2, <1>10, CountedIsSent
      <4>2. \A n \in notes : SentAs(type, n) \subseteq Repo
        BY DEF SentAs, StatInv, Flows, Routed
      <4>3. \A n \in In(month) : n \in notes
        BY DEF In
      <4> QED BY <4>1, <4>2, <4>3
    <3>2. <<type, month, "unique">> \in DOMAIN institutions'
          /\ institutions'[<<type, month, "unique">>] = Figures(counted)
      BY <1>3, <1>8, <1>10
    <3>3. Sum(Figures(counted)) = Cardinality(counted)
      <4>1. counted \subseteq notes
        BY DEF CountedFor, Table
      <4> HIDE DEF counted
      <4> QED BY <4>1, CountedFigures
    <3> HIDE DEF counted
    <3> QED BY <3>1, <3>2, <3>3, Zenon DEF InstitutionRow, Row
  <2>5. UniqueTrue(type, month)'
    BY <1>9, <2>4 DEF UniqueTrue, Sum, In, SentAs
  <2>6. \A t : t # type => /\ UniqueTrue(t, month)' <=> UniqueTrue(t, month)
                           /\ NoUnique(t, month)' <=> NoUnique(t, month)
    BY <1>9, <2>3 DEF UniqueTrue, NoUnique, In, SentAs, Sum
  <2>7. \A t : RowsTrue(t, month)' <=> RowsTrue(t, month)
    BY <1>9, <2>3 DEF RowsTrue, In, SentAs, Sum
  <2>8. MonthTrue(month)
    BY <1>2, <1>10
  <2>11. NoneTold(month)' <=> NoneTold(month)
    BY <1>9 DEF NoneTold
  <2> HIDE DEF counted
  <2>9. CASE type = "L"
    BY <1>1, <1>2, <1>10, <2>1, <2>5, <2>6, <2>7, <2>8, <2>9, <2>11 DEF MonthTrue
  <2>10. CASE type = "T"
    BY <1>1, <1>2, <1>10, <2>1, <2>5, <2>6, <2>7, <2>8, <2>10, <2>11 DEF MonthTrue
  <2> QED BY <1>1, <2>9, <2>10
<1> QED BY <1>8, <1>9, <1>10 DEF StatInv, Progress

\* The reports of a month to publishers are as they were.
SameTold(month) ==
    \A p : /\ <<month, p>> \in DOMAIN distributed' <=> <<month, p>> \in DOMAIN distributed
           /\ <<month, p>> \in DOMAIN distributed =>
                 distributed'[<<month, p>>] = distributed[<<month, p>>]

\* A later statement says nothing new of what institutions got.
LEMMA SameRows ==
    ASSUME Progress, UNCHANGED <<notes, institutions, tracker>>,
           faulty \subseteq faulty',
           NEW M, M \subseteq Nat, Nat \ faulty' \subseteq M,
           \A month \in M : SameTold(month),
           \A month \in M, place \in {1, 2, 3, 4, 7} : Beyond(month, place)' <=> Beyond(month, place)
    PROVE  Progress'
<1>1. ASSUME NEW month \in Nat \ faulty' PROVE MonthTrue(month)'
  <2>1. MonthTrue(month) /\ month \in M
    BY DEF Progress
  <2>2. \A t : /\ RowsTrue(t, month)' <=> RowsTrue(t, month)
               /\ UniqueTrue(t, month)' <=> UniqueTrue(t, month)
               /\ NoRows(t, month)' <=> NoRows(t, month)
               /\ NoUnique(t, month)' <=> NoUnique(t, month)
    BY DEF RowsTrue, UniqueTrue, NoRows, NoUnique, In, InstitutionRow, Row
  <2>3. (ToldTrue(month)' <=> ToldTrue(month)) /\ (NoneTold(month)' <=> NoneTold(month))
    BY <2>1 DEF ToldTrue, NoneTold, SameTold, In
  <2>4. \A place \in {1, 2, 3, 4, 7} : Beyond(month, place)' <=> Beyond(month, place)
    BY <2>1
  <2> QED BY <2>1, <2>2, <2>3, <2>4 DEF MonthTrue
<1> QED BY <1>1 DEF Progress

\* The rows of publishers: matches are deposits that were accepted.
LEMMA PublisherRowsType ==
    ASSUME StatInv, NEW month
    PROVE  LET rows == PublisherRows(month)
           IN  /\ rows \in [DOMAIN rows -> [received : Nat, matched : Nat]]
               /\ DOMAIN rows \subseteq {month} \X Publisher
               /\ \A key \in DOMAIN rows : rows[key].matched <= rows[key].received
<1> DEFINE Of(p) == {d \in deposits : d.pub = p /\ InMonth(d.day, month)}
           Ok(p) == {d \in Of(p) : d.ok}
           Got(p) == {d \in Of(p) : d.live}
           keys == {k \in {month} \X Publisher : Of(k[2]) # {}}
           rows == PublisherRows(month)
<1>1. rows = [key \in keys |-> [received |-> Cardinality(Ok(key[2])),
                                matched |-> Cardinality(Got(key[2]))]]
  BY DEF PublisherRows
<1>2. \A p : Ok(p) \subseteq deposits /\ Got(p) \subseteq Ok(p)
  BY DEF StatInv, Numbered
<1> HIDE DEF Ok, Got, rows
<1>3. ASSUME NEW p
      PROVE  /\ Cardinality(Ok(p)) \in Nat /\ Cardinality(Got(p)) \in Nat
             /\ Cardinality(Got(p)) <= Cardinality(Ok(p))
  <2>1. IsFiniteSet(Ok(p))
    BY <1>2, FS_Subset DEF StatInv, Flows
  <2>2. IsFiniteSet(Got(p)) /\ Cardinality(Got(p)) <= Cardinality(Ok(p))
    BY <1>2, <2>1, FS_Subset
  <2> QED BY <2>1, <2>2, FS_CardinalityType
<1>4. \A key \in keys : /\ rows[key] \in [received : Nat, matched : Nat]
                        /\ rows[key].matched <= rows[key].received
  BY <1>1, <1>3
<1>5. DOMAIN rows = keys /\ keys \subseteq {month} \X Publisher
  BY <1>1
<1>6. rows \in [DOMAIN rows -> [received : Nat, matched : Nat]]
  BY <1>1, <1>4, <1>5
<1> QED BY <1>4, <1>5, <1>6 DEF rows

LEMMA InsertPublishersKeeps ==
    ASSUME StatisticsAssumption, StatInv, InsertPublishers PROVE StatInv'
<1> USE DEF StatInv
<1> DEFINE rows == PublisherRows(LastMonth)
           new == DOMAIN rows \cap DOMAIN publishers = {}
<1>1. /\ job = "publishers" /\ job' = "harvesters"
      /\ publishers' = IF new THEN With(publishers, rows) ELSE publishers
      /\ UNCHANGED <<clock, flow, deleted, institutions, harvesters, reported, distributed,
                     tracker, analysis, faulty, faults>>
  BY DEF InsertPublishers, Goes, AfterStatement, AfterFailure
<1>2. Flows' /\ Numbered'
  BY <1>1, SameFlows
<1>3. LastMonth \in Nat /\ tracker = LastMonth
  BY <1>1 DEF Timely
<1>4. Timely'
  BY <1>1, <1>3 DEF Timely, Place, ThisMonth, LastMonth
<1>5. /\ rows \in [DOMAIN rows -> [received : Nat, matched : Nat]]
      /\ DOMAIN rows \subseteq {LastMonth} \X Publisher
      /\ \A key \in DOMAIN rows : rows[key].matched <= rows[key].received
  BY PublisherRowsType
<1> HIDE DEF rows
<1>6. /\ DOMAIN publishers' \subseteq DOMAIN publishers \cup DOMAIN rows
      /\ publishers' = [key \in DOMAIN publishers' |-> publishers'[key]]
      /\ \A key \in DOMAIN publishers' :
            \/ key \in DOMAIN publishers /\ publishers'[key] = publishers[key]
            \/ key \in DOMAIN rows /\ publishers'[key] = rows[key]
  <2>1. CASE new
    BY <1>1, <2>1 DEF With
  <2>2. CASE ~new
    BY <1>1, <2>2 DEF Tables
  <2> QED BY <2>1, <2>2
<1>7. Tables'
  <2>1. DOMAIN rows \subseteq (0 .. LastMonth) \X Publisher
    BY <1>3, <1>5
  <2>2. DOMAIN publishers' \subseteq (0 .. LastMonth) \X Publisher
    BY <1>6, <2>1 DEF Tables
  <2>3. \A key \in DOMAIN publishers' : /\ publishers'[key] \in [received : Nat, matched : Nat]
                                       /\ publishers'[key].matched <= publishers'[key].received
    BY <1>5, <1>6 DEF Tables
  <2>4. publishers' \in [DOMAIN publishers' -> [received : Nat, matched : Nat]]
    BY <1>6, <2>3
  <2>5. LastMonth' = LastMonth
    BY <1>1 DEF LastMonth, ThisMonth
  <2> QED BY <1>1, <2>2, <2>3, <2>4, <2>5 DEF Tables
<1>8. Progress'
  <2>1. \A month \in Nat, place \in {1, 2, 3, 4, 7} : Beyond(month, place)' <=> Beyond(month, place)
    BY <1>1 DEF Beyond, Place
  <2> QED BY <1>1, <2>1, SameRows DEF SameTold, flow
<1> QED BY <1>2, <1>4, <1>7, <1>8

LEMMA InsertHarvestersKeeps ==
    ASSUME StatisticsAssumption, StatInv, InsertHarvesters PROVE StatInv'
<1> USE DEF StatInv
<1> DEFINE rows == HarvesterRows(LastMonth)
           new == DOMAIN rows \cap DOMAIN harvesters = {}
<1>1. /\ job = "harvesters" /\ job' = "reports"
      /\ harvesters' = IF new THEN With(harvesters, rows) ELSE harvesters
      /\ UNCHANGED <<clock, flow, deleted, institutions, publishers, reported, distributed,
                     tracker, analysis, faulty, faults>>
  BY DEF InsertHarvesters, Goes, AfterStatement, AfterFailure
<1>2. Flows' /\ Numbered'
  BY <1>1, SameFlows
<1>3. LastMonth \in Nat /\ tracker = LastMonth
  BY <1>1 DEF Timely
<1>4. Timely'
  BY <1>1, <1>3 DEF Timely, Place, ThisMonth, LastMonth
<1>5. DOMAIN rows \subseteq {LastMonth} \X Harvester
  BY DEF HarvesterRows
<1> HIDE DEF rows
<1>6. DOMAIN harvesters' \subseteq DOMAIN harvesters \cup DOMAIN rows
  BY <1>1 DEF With
<1>7. Tables'
  <2>1. DOMAIN rows \subseteq (0 .. LastMonth) \X Harvester
    BY <1>3, <1>5
  <2>2. DOMAIN harvesters' \subseteq (0 .. LastMonth) \X Harvester
    BY <1>6, <2>1 DEF Tables
  <2>3. LastMonth' = LastMonth
    BY <1>1 DEF LastMonth, ThisMonth
  <2> QED BY <1>1, <2>2, <2>3 DEF Tables
<1>8. Progress'
  <2>1. \A month \in Nat, place \in {1, 2, 3, 4, 7} : Beyond(month, place)' <=> Beyond(month, place)
    BY <1>1 DEF Beyond, Place
  <2> QED BY <1>1, <2>1, SameRows DEF SameTold, flow
<1> QED BY <1>2, <1>4, <1>7, <1>8

LEMMA ReportsKeeps == ASSUME StatisticsAssumption, StatInv, Reports PROVE StatInv'
<1> USE DEF StatInv
<1>1. PICK told \in SUBSET Publisher : ReportTo(told)
  BY DEF Reports
<1>2. /\ job = "reports" /\ job' = "track"
      /\ UNCHANGED <<clock, flow, deleted, institutions, publishers, harvesters, tracker,
                     analysis, faulty, faults>>
  BY DEF Reports
<1>3. Flows' /\ Numbered'
  BY <1>2, SameFlows
<1>4. LastMonth \in Nat /\ tracker = LastMonth
  BY <1>2 DEF Timely
<1>5. Timely'
  BY <1>2, <1>4 DEF Timely, Place, ThisMonth, LastMonth
<1>6. Tables'
  BY <1>2 DEF Tables, LastMonth, ThisMonth
<1>7. ASSUME NEW month \in Nat \ faulty PROVE MonthTrue(month)'
  <2>1. MonthTrue(month)
    BY DEF Progress
  <2>2. \A place \in {1, 2, 3, 4} : Beyond(month, place)' <=> Beyond(month, place)
    BY <1>2 DEF Beyond, Place
  <2>3. \A t : /\ RowsTrue(t, month)' <=> RowsTrue(t, month)
               /\ UniqueTrue(t, month)' <=> UniqueTrue(t, month)
               /\ NoRows(t, month)' <=> NoRows(t, month)
               /\ NoUnique(t, month)' <=> NoUnique(t, month)
    BY <1>2 DEF RowsTrue, UniqueTrue, NoRows, NoUnique, In, InstitutionRow, Row, flow
  <2>4. CASE month = LastMonth
    <3>1. Beyond(month, 7)'
      BY <1>2, <1>4, <2>4 DEF Beyond, Place
    <3>2. clock = FirstDay(ThisMonth) /\ NoneTold(month)
      BY <1>2, <1>4, <2>1, <2>4 DEF Timely, MonthTrue, Beyond, Place
    <3>3. ASSUME NEW n \in In(month), <<month, n.from>> \in DOMAIN distributed'
          PROVE  {n.id} \X n.live \subseteq distributed'[<<month, n.from>>]
      <4>1. distributed'[<<month, n.from>>] = Distribution(n.from, LastMonth)
        BY <1>1, <2>4, <3>2, <3>3 DEF ReportTo, With, NoneTold
      <4>2. n \in notes /\ InMonth(n.at, LastMonth)
        BY <2>4 DEF In
      <4>3. n \in Table
        BY <3>2, <4>2, NoneDeletedYet DEF Table
      <4>4. \A r \in n.live : r \in n.repos /\ live[r] # 0
        BY <4>2 DEF Flows
      <4>5. {<<n.id, r>> : r \in {x \in n.repos : live[x] # 0}} \subseteq Distribution(n.from, LastMonth)
        BY <4>2, <4>3 DEF Distribution
      <4> QED BY <4>1, <4>4, <4>5
    <3>4. In(month)' = In(month)
      BY <1>2 DEF In, flow
    <3> QED BY <2>1, <2>2, <2>3, <3>1, <3>3, <3>4 DEF MonthTrue, ToldTrue
  <2>5. CASE month # LastMonth
    <3>1. Beyond(month, 7)' <=> Beyond(month, 7)
      BY <1>2, <1>4, <2>5 DEF Beyond
    <3>2. SameTold(month)
      BY <1>1, <2>5 DEF ReportTo, With, SameTold
    <3>3. (ToldTrue(month)' <=> ToldTrue(month)) /\ (NoneTold(month)' <=> NoneTold(month))
      BY <1>2, <3>2 DEF ToldTrue, NoneTold, SameTold, In, flow
    <3> QED BY <2>1, <2>2, <2>3, <3>1, <3>3 DEF MonthTrue
  <2> QED BY <2>4, <2>5
<1> QED BY <1>2, <1>3, <1>5, <1>6, <1>7 DEF Progress

LEMMA TrackMonthKeeps == ASSUME StatisticsAssumption, StatInv, TrackMonth PROVE StatInv'
<1> USE DEF StatInv
<1>1. /\ job = "track" /\ job' = "idle" /\ tracker' = ThisMonth
      /\ UNCHANGED <<clock, flow, deleted, figures, analysis, faulty, faults>>
  BY DEF TrackMonth
<1>2. Flows' /\ Numbered'
  BY <1>1, SameFlows
<1>3. LastMonth \in Nat /\ tracker = LastMonth /\ ThisMonth = LastMonth + 1 /\ ThisMonth \in Nat
  <2>1. ThisMonth \in Nat
    BY MonthOf DEF ThisMonth, Flows, StatisticsAssumption
  <2> QED BY <1>1, <2>1 DEF Timely, LastMonth
<1>4. Timely'
  BY <1>1, <1>3 DEF Timely, Place, ThisMonth, LastMonth
<1>5. Tables'
  BY <1>1 DEF Tables, figures, LastMonth, ThisMonth
<1>6. \A month \in Nat, place \in 1 .. 7 : Beyond(month, place)' <=> Beyond(month, place)
  BY <1>1, <1>3 DEF Beyond, Place
<1>7. ASSUME NEW month \in Nat \ faulty PROVE MonthTrue(month)'
  <2>1. MonthTrue(month)
    BY DEF Progress
  <2>2. \A t : /\ RowsTrue(t, month)' <=> RowsTrue(t, month)
               /\ UniqueTrue(t, month)' <=> UniqueTrue(t, month)
               /\ NoRows(t, month)' <=> NoRows(t, month)
               /\ NoUnique(t, month)' <=> NoUnique(t, month)
               /\ ToldTrue(month)' <=> ToldTrue(month)
               /\ NoneTold(month)' <=> NoneTold(month)
    BY <1>1 DEF RowsTrue, UniqueTrue, NoRows, NoUnique, ToldTrue, NoneTold, In, InstitutionRow,
                Row, flow, figures
  <2> QED BY <1>6, <2>1, <2>2 DEF MonthTrue
<1> QED BY <1>1, <1>2, <1>4, <1>5, <1>7 DEF Progress

\* A failure or a crash: the month is one that was hit.
LEMMA HitKeeps ==
    ASSUME StatisticsAssumption, StatInv, job # "idle", job' \in DOMAIN Place, faults < MaxFaults,
           faults' = faults + 1, faulty' = faulty \cup {LastMonth},
           UNCHANGED <<clock, flow, deleted, institutions, publishers, harvesters, tracker,
                       analysis>>,
           \A month \in Nat \ {LastMonth} : SameTold(month)
    PROVE  StatInv'
<1> USE DEF StatInv
<1>1. Flows' /\ Numbered'
  BY SameFlows
<1>2. LastMonth \in Nat /\ tracker = LastMonth
  BY DEF Timely
<1>3. Timely'
  <2>1. ThisMonth' = ThisMonth /\ LastMonth' = LastMonth
    BY DEF ThisMonth, LastMonth
  <2>2. faults' \in 0 .. MaxFaults
    BY DEF Timely, StatisticsAssumption
  <2>3. faulty' \subseteq 0 .. LastMonth /\ (LastMonth \notin faulty' => LastMonth \notin faulty)
    BY <1>2 DEF Timely
  <2> QED BY <1>2, <2>1, <2>2, <2>3 DEF Timely
<1>4. Tables'
  BY DEF Tables, LastMonth, ThisMonth
<1>5. \A month \in Nat \ {LastMonth}, place \in {1, 2, 3, 4, 7} :
         Beyond(month, place)' <=> Beyond(month, place)
  BY <1>2 DEF Beyond
<1>6. Progress'
  BY <1>5, SameRows DEF flow
<1> QED BY <1>1, <1>3, <1>4, <1>6

LEMMA StatementFailsKeeps == ASSUME StatisticsAssumption, StatInv, StatementFails PROVE StatInv'
<1>1. job \in DOMAIN AfterStatement /\ job # "idle"
  BY Successors DEF StatementFails
<1>2. job' \in DOMAIN Place
  BY <1>1, Successors DEF StatementFails, Goes
<1>3. \A month : SameTold(month)
  BY DEF StatementFails, SameTold, figures
<1> QED BY <1>1, <1>2, <1>3, HitKeeps DEF StatementFails, figures

LEMMA ReportsFailKeeps == ASSUME StatisticsAssumption, StatInv, ReportsFail PROVE StatInv'
<1>1. PICK told \in SUBSET Publisher : ReportTo(told)
  BY DEF ReportsFail
<1>2. \A month \in Nat \ {LastMonth} : SameTold(month)
  BY <1>1 DEF ReportTo, With, SameTold
<1>3. job # "idle" /\ job' \in DOMAIN Place
  BY DEF ReportsFail, Place
<1> QED BY <1>2, <1>3, HitKeeps DEF ReportsFail

LEMMA CrashKeeps == ASSUME StatisticsAssumption, StatInv, Crash PROVE StatInv'
<1>1. \A month : SameTold(month)
  BY DEF Crash, SameTold, figures
<1> QED BY <1>1, HitKeeps DEF Crash, Place, figures

-----------------------------------------------------------------------------
(* The specification.                                                      *)

LEMMA StatNext == ASSUME StatisticsAssumption, StatInv, [Next]_vars PROVE StatInv'
<1>1. CASE UNCHANGED vars
  <2>1. Flows' /\ Numbered'
    BY <1>1, SameFlows DEF StatInv, vars
  <2>2. Timely' /\ Tables'
    BY <1>1, SameTables DEF StatInv, Timely, vars
  <2>3. Progress'
    BY <1>1, SameFigures DEF StatInv, vars, figures, flow
  <2> QED BY <2>1, <2>2, <2>3 DEF StatInv
<1>2. CASE Flow
  BY <1>2, DepositKeeps, HarvestRunKeeps, RouteNoteKeeps, GoLiveKeeps, TickKeeps, DeleteOldKeeps,
     AnalyseKeeps DEF Flow
<1>3. CASE Job
  <2>1. CASE InsertLive \/ InsertTest
    BY <2>1, RowsInserted DEF InsertLive, InsertTest
  <2>2. CASE InsertLiveUnique \/ InsertTestUnique
    BY <2>2, UniqueInserted DEF InsertLiveUnique, InsertTestUnique
  <2> QED BY <1>3, <2>1, <2>2, StartMonthKeeps, InsertPublishersKeeps, InsertHarvestersKeeps,
             ReportsKeeps, TrackMonthKeeps, StatementFailsKeeps, ReportsFailKeeps, CrashKeeps DEF Job
<1> QED BY <1>1, <1>2, <1>3 DEF Next

LEMMA StatTypes == ASSUME StatisticsAssumption, StatInv PROVE TypeOK
<1>1. ThisMonth \in Nat /\ LastMonth = ThisMonth - 1 /\ tracker \in Nat
  BY MonthOf DEF StatInv, Flows, Timely, StatisticsAssumption, ThisMonth, LastMonth
<1>2. 0 .. LastMonth \subseteq 0 .. ThisMonth
  BY <1>1
<1>3. tracker \in 0 .. ThisMonth /\ faulty \subseteq 0 .. ThisMonth
  BY <1>1, <1>2 DEF StatInv, Timely
<1>4. /\ DOMAIN institutions \subseteq {"L", "T"} \X (0 .. ThisMonth) \X (Repo \cup {"unique"})
      /\ DOMAIN publishers \subseteq (0 .. ThisMonth) \X Publisher
      /\ DOMAIN harvesters \subseteq (0 .. ThisMonth) \X Harvester
  BY <1>2 DEF StatInv, Tables
<1>5. /\ \A d \in deposits : d.pub \in Publisher /\ d.doi \in DOI /\ d.day \in 1 .. clock
      /\ \A h \in history : h.harv \in Harvester /\ h.day \in 1 .. clock
      /\ \A n \in waiting : n.from \in Publisher \cup Harvester /\ n.doi \in DOI
  BY DEF StatInv, Flows, Deposits, Runs, Waiting
<1>6. \A n \in notes :
         n.at \in 1 .. clock /\ n.repos \in (SUBSET Repo) \ {{}} /\ n.live \subseteq n.repos
  BY DEF StatInv, Flows, Routed
<1> QED BY <1>3, <1>4, <1>5, <1>6 DEF TypeOK, StatInv, Flows, Timely

LEMMA StatFigures == ASSUME StatisticsAssumption, StatInv PROVE FiguresAgree
<1>1. ASSUME NEW month \in 0 .. tracker - 1, Done(month)
      PROVE  LET M == {n \in notes : InMonth(n.at, month)}
             IN  /\ \A r \in Repo :
                       /\ Sum(InstitutionRow("L", month, r)) = Cardinality({n \in M : r \in n.live})
                       /\ Sum(InstitutionRow("T", month, r)) =
                             Cardinality({n \in M : r \in n.repos \ n.live})
                 /\ Sum(InstitutionRow("L", month, "unique")) = Cardinality({n \in M : n.live # {}})
                 /\ Sum(InstitutionRow("T", month, "unique")) =
                       Cardinality({n \in M : n.live # n.repos})
                 /\ \A p \in Publisher :
                       LET row == Row(publishers, <<month, p>>, [received |-> 0, matched |-> 0])
                       IN  row.matched <= row.received
                 /\ \A n \in M : <<month, n.from>> \in DOMAIN distributed =>
                       {n.id} \X n.live \subseteq distributed[<<month, n.from>>]
  <2> DEFINE M == In(month)
  <2>1. month \in Nat \ faulty /\ month < tracker
    BY <1>1 DEF Done, StatInv, Timely
  <2>2. \A place \in 1 .. 7 : Beyond(month, place)
    BY <2>1 DEF Beyond
  <2>3. /\ RowsTrue("L", month) /\ RowsTrue("T", month)
        /\ UniqueTrue("L", month) /\ UniqueTrue("T", month) /\ ToldTrue(month)
    BY <2>1, <2>2 DEF StatInv, Progress, MonthTrue
  <2>4. \A n : SentAs("L", n) = n.live /\ SentAs("T", n) = n.repos \ n.live
    BY DEF SentAs
  <2>5. \A n \in M : n.live \subseteq n.repos
    BY DEF StatInv, Flows, In
  <2>6. \A r : /\ {n \in M : r \in SentAs("L", n)} = {n \in M : r \in n.live}
               /\ {n \in M : r \in SentAs("T", n)} = {n \in M : r \in n.repos \ n.live}
    BY <2>4
  <2>7. /\ {n \in M : SentAs("L", n) # {}} = {n \in M : n.live # {}}
        /\ {n \in M : SentAs("T", n) # {}} = {n \in M : n.live # n.repos}
    BY <2>4, <2>5
  <2>8. \A r \in Repo :
           /\ Sum(InstitutionRow("L", month, r)) = Cardinality({n \in M : r \in n.live})
           /\ Sum(InstitutionRow("T", month, r)) = Cardinality({n \in M : r \in n.repos \ n.live})
    BY <2>3, <2>6, Zenon DEF RowsTrue
  <2>9. /\ Sum(InstitutionRow("L", month, "unique")) = Cardinality({n \in M : n.live # {}})
        /\ Sum(InstitutionRow("T", month, "unique")) = Cardinality({n \in M : n.live # n.repos})
    BY <2>3, <2>7, Zenon DEF UniqueTrue
  <2>10. ASSUME NEW p \in Publisher
         PROVE  LET row == Row(publishers, <<month, p>>, [received |-> 0, matched |-> 0])
                IN  row.matched <= row.received
    BY DEF Row, StatInv, Tables
  <2>11. \A n \in M : <<month, n.from>> \in DOMAIN distributed =>
            {n.id} \X n.live \subseteq distributed[<<month, n.from>>]
    BY <2>3 DEF ToldTrue
  <2> QED BY <2>8, <2>9, <2>10, <2>11 DEF In
<1> QED BY <1>1 DEF FiguresAgree

\* What is in a table stays in it: rows are only put beside it.
LEMMA RowsStay ==
    ASSUME [Next]_vars
    PROVE  /\ \A key \in DOMAIN institutions :
                 key \in DOMAIN institutions' /\ institutions'[key] = institutions[key]
           /\ \A key \in DOMAIN publishers :
                 key \in DOMAIN publishers' /\ publishers'[key] = publishers[key]
<1>1. CASE UNCHANGED <<institutions, publishers>>
  BY <1>1
<1>2. ASSUME NEW statement, NEW rows, InsertInstitutions(statement, rows)
      PROVE  \A key \in DOMAIN institutions :
                key \in DOMAIN institutions' /\ institutions'[key] = institutions[key]
  BY <1>2 DEF InsertInstitutions, With
<1>3. CASE InsertLive \/ InsertTest \/ InsertLiveUnique \/ InsertTestUnique
  <2>1. UNCHANGED publishers
    BY <1>3 DEF InsertLive, InsertTest, InsertLiveUnique, InsertTestUnique, InsertInstitutions
  <2> QED BY <1>2, <1>3, <2>1 DEF InsertLive, InsertTest, InsertLiveUnique, InsertTestUnique
<1>4. CASE InsertPublishers
  BY <1>4 DEF InsertPublishers, With
<1>5. CASE Flow
  BY <1>1, <1>5 DEF Flow, Deposit, HarvestRun, RouteNote, GoLive, Tick, DeleteOld, Analyse, figures
<1>6. CASE \/ StartMonth \/ InsertHarvesters \/ Reports \/ TrackMonth
            \/ StatementFails \/ ReportsFail \/ Crash
  BY <1>1, <1>6 DEF StartMonth, InsertHarvesters, Reports, TrackMonth, StatementFails,
                    ReportsFail, Crash, figures
<1> QED BY <1>1, <1>3, <1>4, <1>5, <1>6 DEF Next, Job, vars, figures

-----------------------------------------------------------------------------
(* Sums.                                                                   *)

\* The pairs that a sum counts.
Pairs(rows, figure) == UNION {{k} \X (1 .. figure[k]) : k \in rows}

LEMMA PairsFinite ==
    ASSUME NEW rows, IsFiniteSet(rows), NEW figure, \A k \in rows : figure[k] \in Nat
    PROVE  /\ IsFiniteSet(Pairs(rows, figure))
           /\ SumOver(rows, figure) = Cardinality(Pairs(rows, figure))
           /\ SumOver(rows, figure) \in Nat
<1> DEFINE all == {{k} \X (1 .. figure[k]) : k \in rows}
           of == [k \in rows |-> {k} \X (1 .. figure[k])]
<1>1. of \in Surjection(rows, all)
  <2>1. of \in [rows -> all] /\ \A t \in all : \E k \in rows : of[k] = t
    OBVIOUS
  <2> HIDE DEF of, all
  <2> QED BY <2>1, Fun_IsSurj
<1>2. \A t \in all : IsFiniteSet(t)
  <2>1. ASSUME NEW k \in rows PROVE IsFiniteSet({k} \X (1 .. figure[k]))
    <3>1. IsFiniteSet({k})
      BY FS_Singleton
    <3>2. 1 \in Int /\ figure[k] \in Int
      OBVIOUS
    <3>3. IsFiniteSet(1 .. figure[k])
      BY <3>2, FS_Interval
    <3> QED BY <3>1, <3>3, FS_Product
  <2> QED BY <2>1
<1>3. IsFiniteSet(all)
  <2> HIDE DEF of, all
  <2> QED BY <1>1, FS_Surjection
<1>4. IsFiniteSet(UNION all)
  <2> HIDE DEF all
  <2> QED BY <1>2, <1>3, FS_UNION
<1>5. Pairs(rows, figure) = UNION all
  BY DEF Pairs
<1>6. SumOver(rows, figure) = Cardinality(Pairs(rows, figure))
  BY Zenon DEF SumOver, Pairs
<1> QED BY <1>4, <1>5, <1>6, FS_CardinalityType

LEMMA PairsAre ==
    ASSUME NEW rows, NEW figure
    PROVE  \A x : x \in Pairs(rows, figure) <=>
              \E k \in rows : \E i \in 1 .. figure[k] : x = <<k, i>>
BY DEF Pairs

\* All there is, whatever the row.
AllOf(rows, what) == UNION {what[k] : k \in rows}

\* When each figure is the number of something, the sum is at least that of all there is, and
\* just as many if nothing is in two rows.
LEMMA SumOfNumbers ==
    ASSUME NEW rows, IsFiniteSet(rows), NEW figure, NEW what,
           \A k \in rows : IsFiniteSet(what[k]) /\ figure[k] = Cardinality(what[k])
    PROVE  /\ IsFiniteSet(AllOf(rows, what))
           /\ Cardinality(AllOf(rows, what)) <= SumOver(rows, figure)
           /\ (\A k, l \in rows : k # l => what[k] \cap what[l] = {}) =>
                 Cardinality(AllOf(rows, what)) = SumOver(rows, figure)
<1> DEFINE all == AllOf(rows, what)
           count(k) == CHOOSE b : b \in Bijection(1 .. figure[k], what[k])
           pairs == Pairs(rows, figure)
           h == [x \in pairs |-> count(x[1])[x[2]]]
<1>1. ASSUME NEW k \in rows
      PROVE  figure[k] \in Nat /\ count(k) \in Bijection(1 .. figure[k], what[k])
  <2>1. Cardinality(what[k]) \in Nat /\ ExistsBijection(1 .. Cardinality(what[k]), what[k])
    BY FS_CardinalityType
  <2> QED BY <2>1 DEF ExistsBijection
<1> HIDE DEF count
<1>2. ASSUME NEW k \in rows
      PROVE  /\ \A i \in 1 .. figure[k] : count(k)[i] \in what[k]
             /\ \A i, j \in 1 .. figure[k] : count(k)[i] = count(k)[j] => i = j
             /\ \A t \in what[k] : \E i \in 1 .. figure[k] : count(k)[i] = t
  <2>1. count(k) \in [1 .. figure[k] -> what[k]]
    BY <1>1 DEF Bijection, Injection
  <2>2. \A i, j \in 1 .. figure[k] : count(k)[i] = count(k)[j] => i = j
    BY <1>1 DEF Bijection, Injection, IsInjective
  <2>3. \A t \in what[k] : \E i \in 1 .. figure[k] : count(k)[i] = t
    BY <1>1 DEF Bijection, Surjection
  <2> QED BY <2>1, <2>2, <2>3
<1>3. \A x \in pairs : \E k \in rows : \E i \in 1 .. figure[k] :
         x = <<k, i>> /\ x[1] = k /\ x[2] = i /\ h[x] = count(k)[i]
  BY PairsAre
<1>4. \A k \in rows : \A i \in 1 .. figure[k] : <<k, i>> \in pairs /\ h[<<k, i>>] = count(k)[i]
  BY PairsAre
<1>5. h \in [pairs -> all]
  BY <1>2, <1>3 DEF AllOf
<1> HIDE DEF h, pairs
<1>6. ASSUME NEW t \in all PROVE \E x \in pairs : h[x] = t
  <2>1. PICK k \in rows : t \in what[k]
    BY DEF AllOf
  <2>2. PICK i \in 1 .. figure[k] : count(k)[i] = t
    BY <1>2, <2>1
  <2> QED BY <1>4, <2>2
<1>7. h \in Surjection(pairs, all)
  BY <1>5, <1>6, Fun_IsSurj
<1>8. IsFiniteSet(pairs) /\ SumOver(rows, figure) = Cardinality(pairs)
  BY <1>1, PairsFinite DEF pairs
<1>9. ASSUME \A k, l \in rows : k # l => what[k] \cap what[l] = {}
      PROVE  h \in Injection(pairs, all)
  <2>1. ASSUME NEW x \in pairs, NEW y \in pairs, h[x] = h[y] PROVE x = y
    <3>1. PICK k \in rows : \E i \in 1 .. figure[k] : x = <<k, i>> /\ h[x] = count(k)[i]
      BY <1>3
    <3>2. PICK i \in 1 .. figure[k] : x = <<k, i>> /\ h[x] = count(k)[i]
      BY <3>1
    <3>3. PICK l \in rows : \E j \in 1 .. figure[l] : y = <<l, j>> /\ h[y] = count(l)[j]
      BY <1>3
    <3>4. PICK j \in 1 .. figure[l] : y = <<l, j>> /\ h[y] = count(l)[j]
      BY <3>3
    <3>5. h[x] \in what[k] /\ h[y] \in what[l]
      BY <1>2, <3>2, <3>4
    <3>6. k = l
      BY <1>9, <2>1, <3>5
    <3>7. i = j
      BY <1>2, <2>1, <3>2, <3>4, <3>6
    <3> QED BY <3>2, <3>4, <3>6, <3>7
  <2> QED BY <1>5, <2>1, Fun_IsInj
<1>10. IsFiniteSet(all) /\ Cardinality(all) <= Cardinality(pairs)
          /\ (Cardinality(all) = Cardinality(pairs) <=> h \in Injection(pairs, all))
  BY <1>7, <1>8, FS_Surjection
<1> QED BY <1>8, <1>9, <1>10

\* The sum of two figures.
LEMMA SumOfSums ==
    ASSUME NEW rows, IsFiniteSet(rows), NEW f, NEW g, NEW both,
           \A k \in rows : f[k] \in Nat /\ g[k] \in Nat /\ both[k] = f[k] + g[k]
    PROVE  SumOver(rows, f) + SumOver(rows, g) = SumOver(rows, both)
<1> DEFINE F == Pairs(rows, f)
           G == Pairs(rows, g)
           B == Pairs(rows, both)
           Q == B \ F
           shift == [x \in G |-> <<x[1], f[x[1]] + x[2]>>]
<1>1. \A k \in rows : f[k] \in Nat /\ g[k] \in Nat /\ both[k] \in Nat /\ both[k] = f[k] + g[k]
  OBVIOUS
<1>2. /\ IsFiniteSet(F) /\ SumOver(rows, f) = Cardinality(F)
      /\ IsFiniteSet(G) /\ SumOver(rows, g) = Cardinality(G)
      /\ IsFiniteSet(B) /\ SumOver(rows, both) = Cardinality(B)
  BY <1>1, PairsFinite
<1>3. /\ \A x : x \in F <=> \E k \in rows : \E i \in 1 .. f[k] : x = <<k, i>>
      /\ \A x : x \in G <=> \E k \in rows : \E i \in 1 .. g[k] : x = <<k, i>>
      /\ \A x : x \in B <=> \E k \in rows : \E i \in 1 .. both[k] : x = <<k, i>>
  BY PairsAre
<1>4. \A x \in G : \E k \in rows : \E i \in 1 .. g[k] : x = <<k, i>> /\ shift[x] = <<k, f[k] + i>>
  BY <1>3
<1>5. \A k \in rows : \A i \in 1 .. g[k] : <<k, i>> \in G /\ shift[<<k, i>>] = <<k, f[k] + i>>
  BY <1>3
<1>6. \A k \in rows : \A i \in 1 .. both[k] : i \notin 1 .. f[k] => i - f[k] \in 1 .. g[k]
  BY <1>1
<1>7. \A k \in rows : \A i \in 1 .. g[k] : f[k] + i \in 1 .. both[k] /\ f[k] + i \notin 1 .. f[k]
  BY <1>1
<1>8. shift \in [G -> Q]
  <2>1. ASSUME NEW x \in G PROVE shift[x] \in Q
    <3>1. PICK k \in rows : \E i \in 1 .. g[k] : x = <<k, i>> /\ shift[x] = <<k, f[k] + i>>
      BY <1>4
    <3>2. PICK i \in 1 .. g[k] : shift[x] = <<k, f[k] + i>>
      BY <3>1
    <3>3. <<k, f[k] + i>> \in B
      BY <1>3, <1>7
    <3>4. <<k, f[k] + i>> \notin F
      <4>1. ASSUME NEW l \in rows, NEW j \in 1 .. f[l], <<k, f[k] + i>> = <<l, j>> PROVE FALSE
        BY <1>7, <4>1
      <4> QED BY <1>3, <4>1
    <3> QED BY <3>2, <3>3, <3>4
  <2>2. shift = [x \in G |-> shift[x]]
    OBVIOUS
  <2> HIDE DEF shift, Q, G
  <2> QED BY <2>1, <2>2
<1> HIDE DEF shift, F, G, B
<1>9. ASSUME NEW x \in G, NEW y \in G, shift[x] = shift[y] PROVE x = y
  <2>1. PICK k \in rows : \E i \in 1 .. g[k] : x = <<k, i>> /\ shift[x] = <<k, f[k] + i>>
    BY <1>4
  <2>2. PICK i \in 1 .. g[k] : x = <<k, i>> /\ shift[x] = <<k, f[k] + i>>
    BY <2>1
  <2>3. PICK l \in rows : \E j \in 1 .. g[l] : y = <<l, j>> /\ shift[y] = <<l, f[l] + j>>
    BY <1>4
  <2>4. PICK j \in 1 .. g[l] : y = <<l, j>> /\ shift[y] = <<l, f[l] + j>>
    BY <2>3
  <2>5. k = l /\ f[k] + i = f[l] + j
    BY <1>9, <2>2, <2>4
  <2>6. i = j
    BY <1>1, <2>5
  <2> QED BY <2>2, <2>4, <2>5, <2>6
<1>10. ASSUME NEW t \in Q PROVE \E x \in G : shift[x] = t
  <2>1. PICK k \in rows : \E i \in 1 .. both[k] : t = <<k, i>>
    BY <1>3
  <2>2. PICK i \in 1 .. both[k] : t = <<k, i>>
    BY <2>1
  <2>3. i \notin 1 .. f[k]
    BY <1>3, <2>2
  <2>4. i - f[k] \in 1 .. g[k]
    BY <1>6, <2>3
  <2>5. f[k] + (i - f[k]) = i
    BY <1>1
  <2>6. <<k, i - f[k]>> \in G /\ shift[<<k, i - f[k]>>] = <<k, f[k] + (i - f[k])>>
    BY <1>5, <2>4
  <2> QED BY <2>2, <2>5, <2>6
<1>11. shift \in Bijection(G, Q)
  <2> HIDE DEF Q
  <2> QED BY <1>8, <1>9, <1>10, Fun_IsBij
<1>12. Cardinality(Q) = Cardinality(G) /\ IsFiniteSet(Q)
  <2>1. ExistsBijection(G, Q)
    BY <1>11 DEF ExistsBijection
  <2> HIDE DEF Q
  <2> QED BY <1>2, <2>1, FS_Bijection
<1>13. F \subseteq B
  <2>1. \A k \in rows : \A i \in 1 .. f[k] : i \in 1 .. both[k]
    BY <1>1
  <2> QED BY <1>3, <2>1
<1>14. B = F \cup Q /\ F \cap Q = {}
  BY <1>13
<1>15. Cardinality(F) \in Nat /\ Cardinality(G) \in Nat /\ Cardinality(F \cap Q) = 0
  BY <1>2, <1>14, FS_CardinalityType, FS_EmptySet
<1>16. Cardinality(F \cup Q) = Cardinality(F) + Cardinality(Q) - Cardinality(F \cap Q)
  <2> HIDE DEF Q
  <2> QED BY <1>2, <1>12, FS_Union
<1>17. Cardinality(B) = Cardinality(F) + Cardinality(G)
  <2> HIDE DEF Q
  <2> QED BY <1>12, <1>14, <1>15, <1>16
<1> QED BY <1>2, <1>17

-----------------------------------------------------------------------------
(* What was received from publishers.                                      *)

DepositsOf(p, month) == {d \in deposits : d.pub = p /\ d.ok /\ InMonth(d.day, month)}

\* Each publisher with a row has that of its deposits, one without has none.
ReceivedTrue(month) ==
    \A p \in Publisher :
        IF <<month, p>> \in DOMAIN publishers
        THEN publishers[<<month, p>>].received = Cardinality(DepositsOf(p, month))
        ELSE DepositsOf(p, month) = {}
NotReceived(month) == \A p \in Publisher : <<month, p>> \notin DOMAIN publishers
SourceTrue(month) == IF Beyond(month, 5) THEN ReceivedTrue(month) ELSE NotReceived(month)

SourceInv == \A month \in Nat \ faulty : SourceTrue(month)

\* Nothing is told of it by what changes neither the rows nor the number of deposits.
LEMMA SameSource ==
    ASSUME SourceInv, publishers' = publishers, faulty \subseteq faulty',
           NEW M, Nat \ faulty' \subseteq M,
           \A month \in M : Beyond(month, 5)' <=> Beyond(month, 5),
           \A month \in M : Beyond(month, 5) => \A p \in Publisher :
              /\ Cardinality(DepositsOf(p, month))' = Cardinality(DepositsOf(p, month))
              /\ DepositsOf(p, month) = {} => DepositsOf(p, month)' = {}
    PROVE  SourceInv'
<1>1. ASSUME NEW month \in Nat \ faulty' PROVE SourceTrue(month)'
  <2>1. month \in M /\ SourceTrue(month)
    BY DEF SourceInv
  <2>2. Beyond(month, 5)' <=> Beyond(month, 5)
    BY <2>1
  <2>3. CASE Beyond(month, 5)
    <3>1. ReceivedTrue(month)
      BY <2>1, <2>3 DEF SourceTrue
    <3>2. \A p \in Publisher :
             /\ Cardinality(DepositsOf(p, month))' = Cardinality(DepositsOf(p, month))
             /\ DepositsOf(p, month) = {} => DepositsOf(p, month)' = {}
      BY <2>1, <2>3
    <3>3. ASSUME NEW p \in Publisher
          PROVE  IF <<month, p>> \in DOMAIN publishers'
                 THEN publishers'[<<month, p>>].received = Cardinality(DepositsOf(p, month))'
                 ELSE DepositsOf(p, month)' = {}
      <4>1. CASE <<month, p>> \in DOMAIN publishers
        BY <3>1, <3>2, <4>1, Zenon DEF ReceivedTrue
      <4>2. CASE <<month, p>> \notin DOMAIN publishers
        BY <3>1, <3>2, <4>2, Zenon DEF ReceivedTrue
      <4> QED BY <4>1, <4>2
    <3>4. ReceivedTrue(month)'
      BY <3>3, Zenon DEF ReceivedTrue
    <3> QED BY <2>2, <2>3, <3>4 DEF SourceTrue
  <2>4. CASE ~Beyond(month, 5)
    BY <2>1, <2>2, <2>4 DEF SourceTrue, NotReceived
  <2> QED BY <2>3, <2>4
<1> QED BY <1>1 DEF SourceInv

LEMMA SameDeposits ==
    ASSUME SourceInv, UNCHANGED <<publishers, deposits>>, faulty \subseteq faulty',
           NEW M, Nat \ faulty' \subseteq M,
           \A month \in M : Beyond(month, 5)' <=> Beyond(month, 5)
    PROVE  SourceInv'
<1>1. \A p, month : DepositsOf(p, month)' = DepositsOf(p, month)
  BY DEF DepositsOf
<1>2. \A month \in M : Beyond(month, 5) => \A p \in Publisher :
         /\ Cardinality(DepositsOf(p, month))' = Cardinality(DepositsOf(p, month))
         /\ DepositsOf(p, month) = {} => DepositsOf(p, month)' = {}
  BY <1>1
<1> QED BY <1>2, SameSource

\* What is received today is of no month whose row is there.
LEMMA IdleMonths ==
    ASSUME StatisticsAssumption, StatInv, job = "idle"
    PROVE  /\ \A month \in Nat : Beyond(month, 5) => month < ThisMonth
           /\ ThisMonth \in Nat
<1>1. ThisMonth \in Nat
  BY MonthOf DEF ThisMonth, StatInv, Flows, StatisticsAssumption
<1> QED BY <1>1 DEF Beyond, Place, StatInv, Timely, LastMonth

LEMMA DepositSource ==
    ASSUME StatisticsAssumption, StatInv, SourceInv, job = "idle",
           NEW p \in Publisher, NEW d \in DOI, Deposit(p, d)
    PROVE  SourceInv'
<1>1. PICK ok \in BOOLEAN : deposits' = deposits \cup
          {[id |-> Received + 1, pub |-> p, doi |-> d, day |-> clock, ok |-> ok, live |-> FALSE]}
  BY DEF Deposit
<1> DEFINE new == [id |-> Received + 1, pub |-> p, doi |-> d, day |-> clock, ok |-> ok,
                   live |-> FALSE]
<1>2. deposits' = deposits \cup {new} /\ new.day = clock
  BY <1>1
<1> HIDE DEF new
<1>3. UNCHANGED <<publishers, tracker, job, faulty>>
  BY DEF Deposit, figures
<1>4. ASSUME NEW month \in Nat, Beyond(month, 5), NEW q \in Publisher
      PROVE  DepositsOf(q, month)' = DepositsOf(q, month)
  <2>1. ~InMonth(clock, month)
    BY <1>4, IdleMonths DEF InMonth, ThisMonth
  <2> QED BY <1>2, <2>1 DEF DepositsOf
<1>5. \A month \in Nat : Beyond(month, 5) => \A q \in Publisher :
         /\ Cardinality(DepositsOf(q, month))' = Cardinality(DepositsOf(q, month))
         /\ DepositsOf(q, month) = {} => DepositsOf(q, month)' = {}
  BY <1>4
<1>6. \A month \in Nat : Beyond(month, 5)' <=> Beyond(month, 5)
  BY <1>3 DEF Beyond
<1> QED BY <1>3, <1>5, <1>6, SameSource

\* That a deposit is marked as matched does not change how many there are.
LEMMA RouteNoteSource ==
    ASSUME StatisticsAssumption, StatInv, SourceInv,
           NEW n \in waiting, NEW repos \in SUBSET Repo, RouteNote(n, repos)
    PROVE  SourceInv'
<1>1. UNCHANGED <<publishers, tracker, job, faulty>>
  BY DEF RouteNote, figures
<1>2. \A month \in Nat : Beyond(month, 5)' <=> Beyond(month, 5)
  BY <1>1 DEF Beyond
<1>3. CASE repos = {}
  <2>1. deposits' = deposits
    BY <1>3 DEF RouteNote
  <2> QED BY <1>1, <1>2, <2>1, SameDeposits
<1>4. CASE repos # {}
  <2> DEFINE given == \E r \in repos : live[r] # 0
             Marked(d) == [d EXCEPT !.live = @ \/ (d.id = n.id /\ given)]
  <2>1. deposits' = {Marked(d) : d \in deposits}
    BY <1>4 DEF RouteNote
  <2>2. \A d \in deposits : d \in Deposits(clock)
    BY DEF StatInv, Flows
  <2>3. \A d \in deposits : /\ Marked(d).id = d.id /\ Marked(d).ok = d.ok
                            /\ Marked(d).pub = d.pub /\ Marked(d).day = d.day
    BY <2>2 DEF Deposits
  <2> HIDE DEF Marked
  <2>4. \A d, e \in deposits : Marked(d) = Marked(e) => d = e
    BY <2>3 DEF StatInv, Numbered
  <2>5. ASSUME NEW p, NEW month
        PROVE  /\ Cardinality(DepositsOf(p, month)') = Cardinality(DepositsOf(p, month))
               /\ DepositsOf(p, month) = {} => DepositsOf(p, month)' = {}
    <3> DEFINE S == DepositsOf(p, month)
               T == DepositsOf(p, month)'
               f == [d \in S |-> Marked(d)]
    <3>1. S = {d \in deposits : d.pub = p /\ d.ok /\ InMonth(d.day, month)}
      BY DEF DepositsOf
    <3>2. T = {d \in deposits' : d.pub = p /\ d.ok /\ InMonth(d.day, month)}
      BY DEF DepositsOf
    <3> HIDE DEF S, T
    <3>3. \A d \in S : Marked(d) \in T
      BY <2>1, <2>3, <3>1, <3>2
    <3>4. \A t \in T : \E d \in S : t = Marked(d)
      BY <2>1, <2>3, <3>1, <3>2
    <3>5. f \in [S -> T] /\ (\A d, e \in S : f[d] = f[e] => d = e) /\ \A t \in T : \E d \in S : f[d] = t
      BY <2>4, <3>1, <3>3, <3>4
    <3> HIDE DEF f
    <3>6. f \in Bijection(S, T)
      BY <3>5, Fun_IsBij
    <3>7. ExistsBijection(S, T)
      BY <3>6 DEF ExistsBijection
    <3>8. IsFiniteSet(S)
      BY <3>1, FS_Subset DEF StatInv, Flows
    <3>9. Cardinality(T) = Cardinality(S)
      BY <3>7, <3>8, FS_Bijection
    <3>10. S = {} => T = {}
      BY <3>4
    <3> QED BY <3>9, <3>10 DEF S, T
  <2>6. \A month \in Nat : Beyond(month, 5) => \A p \in Publisher :
           /\ Cardinality(DepositsOf(p, month))' = Cardinality(DepositsOf(p, month))
           /\ DepositsOf(p, month) = {} => DepositsOf(p, month)' = {}
    BY <2>5
  <2> QED BY <1>1, <1>2, <2>6, SameSource
<1> QED BY <1>3, <1>4

LEMMA InsertPublishersSource ==
    ASSUME StatisticsAssumption, StatInv, SourceInv, InsertPublishers PROVE SourceInv'
<1> DEFINE rows == PublisherRows(LastMonth)
           new == DOMAIN rows \cap DOMAIN publishers = {}
           Of(p) == {d \in deposits : d.pub = p /\ InMonth(d.day, LastMonth)}
           keys == {k \in {LastMonth} \X Publisher : Of(k[2]) # {}}
<1>1. /\ job = "publishers" /\ job' = "harvesters"
      /\ publishers' = IF new THEN With(publishers, rows) ELSE publishers
      /\ UNCHANGED <<deposits, tracker, faulty>>
  BY DEF InsertPublishers, Goes, AfterStatement, AfterFailure, flow
<1>2. LastMonth \in Nat /\ tracker = LastMonth
  BY <1>1 DEF StatInv, Timely
<1>3. \A p, month : DepositsOf(p, month)' = DepositsOf(p, month)
  BY <1>1 DEF DepositsOf
<1>4. rows = [key \in keys |-> [received |-> Cardinality({d \in Of(key[2]) : d.ok}),
                                matched |-> Cardinality({d \in Of(key[2]) : d.live})]]
  BY DEF PublisherRows
<1>5. \A p : {d \in Of(p) : d.ok} = DepositsOf(p, LastMonth)
  BY DEF DepositsOf
<1>6. DOMAIN rows = keys /\ \A p \in Publisher : <<LastMonth, p>> \in keys =>
         rows[<<LastMonth, p>>].received = Cardinality(DepositsOf(p, LastMonth))
  <2>1. \A key \in keys : rows[key].received = Cardinality({d \in Of(key[2]) : d.ok})
    <3> HIDE DEF keys, Of
    <3> QED BY <1>4
  <2>2. \A p : <<LastMonth, p>>[2] = p
    OBVIOUS
  <2>3. DOMAIN rows = keys
    <3> HIDE DEF keys, Of
    <3> QED BY <1>4
  <2>4. \A key \in keys : rows[key].received = Cardinality(DepositsOf(key[2], LastMonth))
    <3> HIDE DEF keys, Of, rows
    <3> QED BY ZenonT(60), <1>5, <2>1
  <2> HIDE DEF keys, Of, rows
  <2> QED BY <2>2, <2>3, <2>4, Zenon
<1>7. \A p \in Publisher : <<LastMonth, p>> \notin keys => DepositsOf(p, LastMonth) = {}
  BY <1>5
<1>8. \A key \in keys : key[1] = LastMonth /\ key[2] \in Publisher /\ key = <<LastMonth, key[2]>>
  OBVIOUS
<1> HIDE DEF rows, keys, Of
<1>9. ASSUME NEW month \in Nat \ faulty, month = LastMonth PROVE SourceTrue(month)'
  <2>1. ~Beyond(month, 5)
    BY <1>1, <1>2, <1>9 DEF Beyond, Place
  <2>2. NotReceived(month)
    BY <1>9, <2>1 DEF SourceInv, SourceTrue
  <2>3. new
    BY <1>6, <1>8, <1>9, <2>2 DEF NotReceived
  <2>4. publishers' = With(publishers, rows)
    BY <1>1, <2>3
  <2>5. ASSUME NEW p \in Publisher
        PROVE  IF <<month, p>> \in DOMAIN publishers'
               THEN publishers'[<<month, p>>].received = Cardinality(DepositsOf(p, month))
               ELSE DepositsOf(p, month) = {}
    <3>1. <<month, p>> \notin DOMAIN publishers
      BY <2>2 DEF NotReceived
    <3>2. <<month, p>> \in DOMAIN publishers' <=> <<month, p>> \in keys
      BY <1>6, <2>4, <3>1 DEF With
    <3>3. <<month, p>> \in keys => publishers'[<<month, p>>] = rows[<<month, p>>]
      BY <1>6, <2>4, <3>1 DEF With
    <3>4. CASE <<month, p>> \in keys
      BY <1>6, <1>9, <3>2, <3>3, <3>4
    <3>5. CASE <<month, p>> \notin keys
      BY <1>7, <1>9, <3>2, <3>5
    <3> QED BY <3>4, <3>5
  <2>6. ReceivedTrue(month)'
    BY <1>3, <2>5, Zenon DEF ReceivedTrue
  <2>7. Beyond(month, 5)'
    BY <1>1, <1>2, <1>9 DEF Beyond, Place
  <2> QED BY <2>6, <2>7 DEF SourceTrue
<1>10. ASSUME NEW month \in Nat \ faulty, month # LastMonth PROVE SourceTrue(month)'
  <2>1. Beyond(month, 5)' <=> Beyond(month, 5)
    BY <1>1, <1>2, <1>10 DEF Beyond
  <2>2. SourceTrue(month)
    BY DEF SourceInv
  <2>3. \A p : <<month, p>> \notin keys
    BY <1>8, <1>10
  <2>4. \A p : /\ <<month, p>> \in DOMAIN publishers' <=> <<month, p>> \in DOMAIN publishers
               /\ <<month, p>> \in DOMAIN publishers =>
                     publishers'[<<month, p>>] = publishers[<<month, p>>]
    <3>1. CASE new
      BY <1>1, <1>6, <2>3, <3>1 DEF With
    <3>2. CASE ~new
      BY <1>1, <3>2
    <3> QED BY <3>1, <3>2
  <2>5. ReceivedTrue(month) => ReceivedTrue(month)'
    <3>1. ASSUME ReceivedTrue(month), NEW p \in Publisher
          PROVE  IF <<month, p>> \in DOMAIN publishers'
                 THEN publishers'[<<month, p>>].received = Cardinality(DepositsOf(p, month))
                 ELSE DepositsOf(p, month) = {}
      <4>1. CASE <<month, p>> \in DOMAIN publishers
        BY <2>4, <3>1, <4>1, Zenon DEF ReceivedTrue
      <4>2. CASE <<month, p>> \notin DOMAIN publishers
        BY <2>4, <3>1, <4>2, Zenon DEF ReceivedTrue
      <4> QED BY <4>1, <4>2
    <3> QED BY <1>3, <3>1, Zenon DEF ReceivedTrue
  <2>6. NotReceived(month) => NotReceived(month)'
    BY <2>4 DEF NotReceived
  <2> QED BY <2>1, <2>2, <2>5, <2>6 DEF SourceTrue
<1> QED BY <1>1, <1>9, <1>10 DEF SourceInv

LEMMA SourceInit == ASSUME Init PROVE SourceInv
<1>1. \A month \in Nat : ~Beyond(month, 5)
  BY DEF Init, Beyond, Place
<1> QED BY <1>1 DEF Init, SourceInv, SourceTrue, NotReceived, NoFigures

LEMMA SourceNext ==
    ASSUME StatisticsAssumption, StatInv, SourceInv, [Next]_vars PROVE SourceInv'
<1>1. CASE UNCHANGED vars
  <2>1. UNCHANGED <<publishers, deposits, tracker, job, faulty>>
    BY <1>1 DEF vars, figures, flow
  <2> QED BY <2>1, SameDeposits DEF Beyond
<1>2. CASE Flow
  <2>1. job = "idle"
    BY <1>2 DEF Flow
  <2>2. ASSUME UNCHANGED <<publishers, deposits, tracker, job, faulty>> PROVE SourceInv'
    BY <2>2, SameDeposits DEF Beyond
  <2>3. CASE \E h \in Harvester : HarvestRun(h)
    BY <2>2, <2>3 DEF HarvestRun, figures
  <2>4. CASE (\E r \in Repo : GoLive(r)) \/ Tick \/ DeleteOld \/ Analyse
    BY <2>2, <2>4 DEF GoLive, Tick, DeleteOld, Analyse, figures, flow
  <2> QED BY <1>2, <2>1, <2>3, <2>4, DepositSource, RouteNoteSource DEF Flow
<1>3. CASE Job
  <2>1. \A place : Place[place] = Place[place]
    OBVIOUS
  <2>2. CASE StartMonth
    <3>1. /\ job = "idle" /\ job' = "rowsL" /\ UNCHANGED <<publishers, deposits, tracker, faulty>>
      BY <2>2 DEF StartMonth, figures, flow
    <3>2. \A month \in Nat : Beyond(month, 5)' <=> Beyond(month, 5)
      BY <3>1 DEF Beyond, Place
    <3> QED BY <3>1, <3>2, SameDeposits
  <2>3. ASSUME NEW statement \in {"rowsL", "rowsT", "uniqueL", "uniqueT"}, NEW rows,
               InsertInstitutions(statement, rows)
        PROVE  SourceInv'
    <3>1. /\ job = statement /\ UNCHANGED <<publishers, deposits, tracker, faulty>>
          /\ job' \in {AfterStatement[job], AfterFailure[job]}
      BY <2>3 DEF InsertInstitutions, Goes, flow
    <3>2. job' \in {"rowsT", "uniqueL", "uniqueT", "publishers"}
      BY <3>1 DEF AfterStatement, AfterFailure
    <3>3. ~(Place[job] > 5) /\ ~(Place[job'] > 5)
      BY <3>1, <3>2 DEF Place
    <3>4. \A month \in Nat : Beyond(month, 5)' <=> Beyond(month, 5)
      BY <3>1, <3>3 DEF Beyond
    <3> QED BY <3>1, <3>4, SameDeposits
  <2>4. CASE InsertLive \/ InsertTest \/ InsertLiveUnique \/ InsertTestUnique
    BY <2>3, <2>4 DEF InsertLive, InsertTest, InsertLiveUnique, InsertTestUnique
  <2>5. CASE InsertHarvesters \/ Reports
    <3>1. /\ job \in {"harvesters", "reports"} /\ job' \in {"reports", "track"}
          /\ UNCHANGED <<publishers, deposits, tracker, faulty>>
      BY <2>5 DEF InsertHarvesters, Reports, Goes, AfterStatement, AfterFailure, flow
    <3>2. \A month \in Nat : Beyond(month, 5)' <=> Beyond(month, 5)
      BY <3>1 DEF Beyond, Place
    <3> QED BY <3>1, <3>2, SameDeposits
  <2>6. CASE TrackMonth
    <3>1. /\ job = "track" /\ job' = "idle" /\ tracker' = ThisMonth
          /\ UNCHANGED <<publishers, deposits, faulty>>
      BY <2>6 DEF TrackMonth, figures, flow
    <3>2. ThisMonth \in Nat /\ tracker \in Nat /\ ThisMonth = tracker + 1
      <4>1. ThisMonth \in Nat
        BY MonthOf DEF ThisMonth, StatInv, Flows, StatisticsAssumption
      <4> QED BY <3>1, <4>1 DEF StatInv, Timely, LastMonth
    <3>3. \A month \in Nat : Beyond(month, 5)' <=> Beyond(month, 5)
      BY <3>1, <3>2 DEF Beyond, Place
    <3> QED BY <3>1, <3>3, SameDeposits
  <2>7. CASE StatementFails \/ ReportsFail \/ Crash
    <3>1. job # "idle" /\ faulty' = faulty \cup {LastMonth}
          /\ UNCHANGED <<publishers, deposits, tracker>>
      BY <2>7 DEF StatementFails, ReportsFail, Crash, AfterStatement, figures, flow
    <3>2. tracker = LastMonth
      BY <3>1 DEF StatInv, Timely
    <3>3. \A month \in Nat \ {LastMonth} : Beyond(month, 5)' <=> Beyond(month, 5)
      BY <3>1, <3>2 DEF Beyond
    <3>4. Nat \ faulty' \subseteq Nat \ {LastMonth} /\ faulty \subseteq faulty'
      BY <3>1
    <3> QED BY <3>1, <3>3, <3>4, SameDeposits
  <2> QED BY <1>3, <2>2, <2>4, <2>5, <2>6, <2>7, InsertPublishersSource DEF Job
<1> QED BY <1>1, <1>2, <1>3 DEF Next

\* Every article counted once is in the row of some repository.
LEMMA LiveTotals ==
    ASSUME StatisticsAssumption, StatInv, NEW month \in 0 .. tracker - 1, Done(month)
    PROVE  Sum(InstitutionTotal("L", month)) >= Sum(InstitutionRow("L", month, "unique"))
<1> DEFINE rows == {k \in DOMAIN institutions : k[1] = "L" /\ k[2] = month /\ k[3] # "unique"}
           meta == [k \in rows |-> institutions[k].meta]
           content == [k \in rows |-> institutions[k].content]
           both == [k \in rows |-> institutions[k].meta + institutions[k].content]
           sent == [k \in rows |-> {n \in In(month) : k[3] \in n.live}]
           all == AllOf(rows, sent)
           unique == {n \in In(month) : n.live # {}}
<1>1. month \in Nat \ faulty /\ Beyond(month, 1) /\ Beyond(month, 3)
  BY DEF Done, StatInv, Timely, Beyond
<1>2. RowsTrue("L", month) /\ UniqueTrue("L", month)
  BY <1>1 DEF StatInv, Progress, MonthTrue
<1>3. \A k \in rows : /\ k[3] \in Repo /\ k = <<"L", month, k[3]>>
                      /\ k \in DOMAIN institutions
                      /\ institutions[k] \in [meta : Nat, content : Nat]
  BY DEF StatInv, Tables
<1>4. IsFiniteSet(rows)
  <2>1. IsFiniteSet({"L"} \X {month} \X Repo)
    <3>1. IsFiniteSet({"L"}) /\ IsFiniteSet({month})
      BY FS_Singleton
    <3> DEFINE code == [r \in Repo |-> <<"L", month, r>>]
    <3>2. code \in Surjection(Repo, {"L"} \X {month} \X Repo)
      <4>1. code \in [Repo -> {"L"} \X {month} \X Repo]
        OBVIOUS
      <4>2. \A t \in {"L"} \X {month} \X Repo : \E r \in Repo : code[r] = t
        OBVIOUS
      <4> HIDE DEF code
      <4> QED BY <4>1, <4>2, Fun_IsSurj
    <3> HIDE DEF code
    <3> QED BY <3>2, FS_Surjection DEF StatisticsAssumption
  <2>2. rows \subseteq {"L"} \X {month} \X Repo
    BY <1>3
  <2> HIDE DEF rows
  <2> QED BY <2>1, <2>2, FS_Subset
<1>5. /\ meta \in [rows -> Nat] /\ content \in [rows -> Nat]
      /\ \A k \in rows : meta[k] \in Nat /\ content[k] \in Nat /\ both[k] = meta[k] + content[k]
  BY <1>3
<1>6. In(month) \subseteq notes /\ IsFiniteSet(In(month))
  <2>1. In(month) \subseteq notes
    BY DEF In
  <2> QED BY <2>1, FS_Subset DEF StatInv, Flows
<1>7. ASSUME NEW k \in rows PROVE IsFiniteSet(sent[k]) /\ both[k] = Cardinality(sent[k])
  <2>1. sent[k] = {n \in In(month) : k[3] \in SentAs("L", n)} /\ sent[k] \subseteq In(month)
    BY DEF SentAs
  <2>2. Sum(InstitutionRow("L", month, k[3])) = both[k]
    BY <1>3 DEF Sum, InstitutionRow, Row
  <2>3. Sum(InstitutionRow("L", month, k[3])) =
           Cardinality({n \in In(month) : k[3] \in SentAs("L", n)})
    BY <1>2, <1>3 DEF RowsTrue
  <2>4. IsFiniteSet(sent[k])
    BY <1>6, <2>1, FS_Subset
  <2> QED BY <2>1, <2>2, <2>3, <2>4
<1>8. unique \subseteq all
  <2>1. ASSUME NEW n \in unique PROVE n \in all
    <3>1. n \in In(month)
      OBVIOUS
    <3>2. PICK r \in n.live : r \in Repo
      BY <1>6 DEF StatInv, Flows, Routed
    <3> DEFINE S == {m \in In(month) : r \in SentAs("L", m)}
    <3>3. n \in S /\ S \subseteq In(month)
      BY <3>1, <3>2 DEF SentAs
    <3>4. Cardinality(S) # 0
      <4> HIDE DEF S
      <4>1. IsFiniteSet(S)
        BY <1>6, <3>3, FS_Subset
      <4> QED BY <3>3, <4>1, FS_EmptySet
    <3>5. Sum(InstitutionRow("L", month, r)) = Cardinality(S)
      BY <1>2, <3>2 DEF RowsTrue
    <3> HIDE DEF S
    <3>6. <<"L", month, r>> \in DOMAIN institutions
      <4>1. ASSUME <<"L", month, r>> \notin DOMAIN institutions PROVE FALSE
        <5>1. Sum(InstitutionRow("L", month, r)) = 0
          BY <4>1 DEF InstitutionRow, Row, Sum
        <5> QED BY <3>4, <3>5, <5>1
      <4> QED BY <4>1
    <3>7. r # "unique"
      BY <3>2 DEF StatisticsAssumption
    <3>8. <<"L", month, r>> \in rows
      BY <3>6, <3>7
    <3>9. n \in sent[<<"L", month, r>>]
      BY <3>1, <3>2, <3>8
    <3> QED BY <3>8, <3>9 DEF AllOf
  <2> QED BY <2>1
<1>9. InstitutionTotal("L", month) = [meta |-> SumOver(rows, meta), content |-> SumOver(rows, content)]
  BY DEF InstitutionTotal
<1>10. Sum(InstitutionRow("L", month, "unique")) = Cardinality(unique)
  <2>1. unique = {n \in In(month) : SentAs("L", n) # {}}
    BY DEF SentAs
  <2> QED BY <1>2, <2>1, Zenon DEF UniqueTrue
<1> HIDE DEF rows, meta, content, both, sent, unique
<1>11. SumOver(rows, meta) + SumOver(rows, content) = SumOver(rows, both)
  BY <1>4, <1>5, SumOfSums
<1>12. IsFiniteSet(all) /\ Cardinality(all) <= SumOver(rows, both)
  BY <1>4, <1>7, SumOfNumbers
<1> HIDE DEF all
<1>13. IsFiniteSet(unique) /\ Cardinality(unique) <= Cardinality(all)
  BY <1>8, <1>12, FS_Subset
<1>14. SumOver(rows, both) \in Nat
  BY <1>4, <1>5, PairsFinite
<1>15. Sum(InstitutionTotal("L", month)) = SumOver(rows, both)
  BY <1>9, <1>11 DEF Sum
<1>16. Cardinality(unique) \in Nat /\ Cardinality(all) \in Nat
  BY <1>12, <1>13, FS_CardinalityType
<1> QED BY <1>10, <1>12, <1>13, <1>14, <1>15, <1>16

\* Every accepted deposit is in the row of its publisher.
LEMMA ReceivedTotal ==
    ASSUME StatisticsAssumption, StatInv, SourceInv, NEW month \in 0 .. tracker - 1, Done(month)
    PROVE  SourceTotal(publishers, month).received =
              Cardinality({d \in deposits : d.ok /\ InMonth(d.day, month)})
<1> DEFINE rows == {k \in DOMAIN publishers : k[1] = month /\ publishers[k].received # 0}
           figure == [k \in rows |-> publishers[k].received]
           what == [k \in rows |-> DepositsOf(k[2], month)]
           all == AllOf(rows, what)
           these == {d \in deposits : d.ok /\ InMonth(d.day, month)}
<1>1. month \in Nat \ faulty /\ Beyond(month, 5)
  BY DEF Done, StatInv, Timely, Beyond
<1>2. ReceivedTrue(month)
  BY <1>1 DEF SourceInv, SourceTrue
<1>3. \A k \in rows : k[2] \in Publisher /\ k = <<month, k[2]>> /\ k \in DOMAIN publishers
  BY DEF StatInv, Tables
<1>4. IsFiniteSet(rows)
  <2>1. IsFiniteSet({month} \X Publisher)
    BY FS_Singleton, FS_Product DEF StatisticsAssumption
  <2>2. rows \subseteq {month} \X Publisher
    BY <1>3
  <2> HIDE DEF rows
  <2> QED BY <2>1, <2>2, FS_Subset
<1>5. \A p : DepositsOf(p, month) \subseteq deposits /\ IsFiniteSet(DepositsOf(p, month))
  <2>1. \A p : DepositsOf(p, month) \subseteq deposits
    BY DEF DepositsOf
  <2> QED BY <2>1, FS_Subset DEF StatInv, Flows
<1>6. ASSUME NEW k \in rows PROVE IsFiniteSet(what[k]) /\ figure[k] = Cardinality(what[k])
  <2>1. publishers[<<month, k[2]>>].received = Cardinality(DepositsOf(k[2], month))
    BY <1>2, <1>3 DEF ReceivedTrue
  <2> QED BY <1>3, <1>5, <2>1
<1>7. \A k, l \in rows : k # l => what[k] \cap what[l] = {}
  <2>1. \A k, l \in rows : k # l => k[2] # l[2]
    BY <1>3
  <2> QED BY <2>1 DEF DepositsOf
<1>8. all \subseteq these
  BY DEF DepositsOf, AllOf
<1>9. ASSUME NEW d \in these PROVE d \in all
  <2>1. d \in deposits /\ d.pub \in Publisher /\ d \in DepositsOf(d.pub, month)
    BY DEF StatInv, Flows, Deposits, DepositsOf
  <2>2. <<month, d.pub>> \in DOMAIN publishers
    BY <1>2, <2>1 DEF ReceivedTrue
  <2>3. publishers[<<month, d.pub>>].received = Cardinality(DepositsOf(d.pub, month))
    BY <1>2, <2>1, <2>2 DEF ReceivedTrue
  <2>4. Cardinality(DepositsOf(d.pub, month)) # 0
    BY <1>5, <2>1, FS_EmptySet
  <2>5. <<month, d.pub>> \in rows
    BY <2>2, <2>3, <2>4
  <2>6. d \in what[<<month, d.pub>>]
    BY <2>1, <2>5
  <2> QED BY <2>5, <2>6 DEF AllOf
<1>10. all = these
  BY <1>8, <1>9
<1>11. SourceTotal(publishers, month).received = SumOver(rows, figure)
  BY DEF SourceTotal
<1> HIDE DEF rows, figure, what, these
<1>12. Cardinality(all) = SumOver(rows, figure)
  BY <1>4, <1>6, <1>7, SumOfNumbers
<1> QED BY <1>10, <1>11, <1>12 DEF these

-----------------------------------------------------------------------------
(* The theorems.                                                           *)

LEMMA StatKept == ASSUME StatisticsAssumption PROVE Spec => []StatInv
<1>1. Init => StatInv
  BY StatInit
<1>2. StatInv /\ [Next]_vars => StatInv'
  BY StatNext
<1> QED BY <1>1, <1>2, PTL DEF Spec

\* The variables keep their types, whatever statement of the job fails and whenever the
\* program stops: only notifications that are there are deleted, and the job of a month
\* writes no row of a later one (jper/scheduler.py, monthly_jobs).
THEOREM StatisticsTypes == ASSUME StatisticsAssumption PROVE Spec => []TypeOK
<1>1. StatInv => TypeOK
  BY StatTypes
<1> QED BY <1>1, StatKept, PTL

\* monthly_jobs: the figures of a month whose job is done, with no fault in it, are those
\* of what was routed in the month, to live repositories and to others, counted once in
\* the rows of unique notifications, and each publisher is told of what was matched.
THEOREM FiguresTrue == ASSUME StatisticsAssumption PROVE Spec => []FiguresAgree
<1>1. StatInv => FiguresAgree
  BY StatFigures
<1> QED BY <1>1, StatKept, PTL

\* monthly_jobs: a row that is in a table of figures stays as it is, also when the job is
\* begun again after a crash: an insert of rows that are there fails as a whole.
THEOREM RowsKept == Spec => FiguresStay
<1>1. [Next]_vars =>
        [/\ \A key \in DOMAIN institutions :
               key \in DOMAIN institutions' /\ institutions'[key] = institutions[key]
         /\ \A key \in DOMAIN publishers :
               key \in DOMAIN publishers' /\ publishers'[key] = publishers[key]]_figures
  BY RowsStay
<1> QED BY <1>1, PTL DEF Spec, FiguresStay

LEMMA SourceKept == ASSUME StatisticsAssumption PROVE Spec => [](StatInv /\ SourceInv)
<1>1. Init => SourceInv
  BY SourceInit
<1>2. StatInv /\ SourceInv /\ [Next]_vars => SourceInv'
  BY SourceNext
<1> QED BY <1>1, <1>2, StatKept, PTL DEF Spec

\* The grand totals of the reports of a month whose job is done, with no fault in it: there
\* are no fewer notifications in the rows of the repositories than there are unique ones, and
\* those of the publishers say of every deposit that was accepted, whatever was routed late or
\* deleted meanwhile (jper/reports.py).
THEOREM TotalsTrue == ASSUME StatisticsAssumption PROVE Spec => []TotalsAgree
<1>1. StatInv /\ SourceInv => TotalsAgree
  BY LiveTotals, ReceivedTotal DEF TotalsAgree
<1> QED BY <1>1, SourceKept, PTL
================================================================================
