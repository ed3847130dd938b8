-------------------------- MODULE UserAccountsProofs --------------------------
(***************************************************************************)
(* Theorems about UserAccounts, for any users, browsers, workers, limits   *)
(* and times: what requests served at once do to a user's record.          *)
(*                                                                         *)
(* The inductive invariant: a worker that serves a request holds the lock  *)
(* of the record it read, which is as it read it (Served); so wrong        *)
(* passwords are counted one after another (Paced), the token in a record  *)
(* is the latest one and was not used (Latest), and the users of an        *)
(* organisation that has been deleted are locked by the worker that        *)
(* deletes them, or are deleted (DeletedWithUsers).                        *)
(***************************************************************************)
EXTENDS UserAccounts, SequenceTheorems, TLAPS

Token == [value : Nat, expiry : Nat]
Issued == [kind : {"code", "reset"}, user : User, at : Nat]
Service == [kind : Kind, user : User \cup {NoUser}, arg : Nat, browser : Browser, rec : Account]

UserTypes ==
    /\ now \in 0..MaxClock /\ org \in {"on", "deleted"}
    /\ user \in [User -> Account]
    /\ lock \in [User -> Worker \cup {NoWorker}]
    /\ serving \in [Worker -> Service]
    /\ cookie \in [Browser -> 0..Len(token)]
    /\ token \in Seq(Issued) /\ used \in Seq(Nat) /\ Len(used) = Len(token)
    /\ fails \in [User -> Seq(Nat)]
    /\ \A u \in User : \A i \in 1..Len(fails[u]) : fails[u][i] \in 0..now
    /\ late \in SUBSET User
    /\ requests \in 0..MaxRequests /\ faults \in 0..MaxFaults

LEMMA AccountValues ==
    ASSUME UserAccountsAssumption
    PROVE  /\ Unused \in Account /\ New \in Account /\ NoToken \in Token
           /\ NotServing \in Service
           /\ Unused.is = "none" /\ Unused.count = 0
           /\ Unused.code = NoToken /\ Unused.reset = NoToken
           /\ New.is = "on" /\ New.count = 0 /\ New.code = NoToken /\ New.reset = NoToken
           /\ NoToken.value = 0
           /\ NotServing.kind = "idle" /\ NotServing.user = NoUser
<1>1. NoToken \in Token /\ NoToken.value = 0
  BY DEF NoToken, Expiring, Token
<1>2. /\ Unused \in Account /\ Unused.is = "none" /\ Unused.count = 0
      /\ Unused.code = NoToken /\ Unused.reset = NoToken
  BY <1>1 DEF Unused, Account, Token
<1>3. New = [is |-> "on", count |-> 0, failed |-> 0, code |-> NoToken, reset |-> NoToken]
  BY DEF New, Unused
<1>4. /\ New \in Account /\ New.is = "on" /\ New.count = 0
      /\ New.code = NoToken /\ New.reset = NoToken
  BY <1>1, <1>3 DEF Account, Token
<1>5. AnyBrowser \in Browser
  BY DEF AnyBrowser, UserAccountsAssumption
<1>6. /\ NotServing \in Service /\ NotServing.kind = "idle" /\ NotServing.user = NoUser
  BY <1>2, <1>5 DEF NotServing, Idle, Service, Kind
<1> QED BY <1>1, <1>2, <1>4, <1>6

LEMMA ServiceOf ==
    ASSUME UserAccountsAssumption, UserTypes, NEW k \in Kind, NEW u \in User, NEW n \in Nat,
           NEW b \in Browser
    PROVE  /\ Serving(k, u, n, b) \in Service
           /\ Serving(k, u, n, b).kind = k /\ Serving(k, u, n, b).user = u
           /\ Serving(k, u, n, b).arg = n /\ Serving(k, u, n, b).rec = user[u]
           /\ AnyBrowser \in Browser
<1>1. user[u] \in Account
  BY DEF UserTypes
<1>2. AnyBrowser \in Browser
  BY DEF AnyBrowser, UserAccountsAssumption
<1> QED BY <1>1, <1>2 DEF Serving, Service

-----------------------------------------------------------------------------
(* What the steps have in common.                                          *)

Locked == {"login", "code", "ask", "reset", "edit", "delete"}

\* A request reads a record and takes its lock.
Reading(w, u) ==
    /\ serving[w].kind = "idle" /\ user[u].is = "on" /\ Free(w, u)
    /\ lock' = [lock EXCEPT ![u] = w]
    /\ \E k \in Locked, n \in Nat, b \in Browser :
          /\ serving' = [serving EXCEPT ![w] = Serving(k, u, n, b)]
          /\ k \in {"code", "reset"} =>
                n \in 1..Len(token) /\ token[n].kind = k /\ token[n].user = u
    /\ requests' \in 0..MaxRequests
    /\ UNCHANGED <<now, org, user, cookie, history, faults>>

LEMMA BeginForms ==
    ASSUME UserAccountsAssumption, UserTypes, NEW w \in Worker, Begin(w)
    PROVE  (\E u \in User : Reading(w, u)) \/ AddUser(w) \/ DeleteOrg(w)
<1>1. AnyBrowser \in Browser
  BY DEF AnyBrowser, UserAccountsAssumption
<1>2. ASSUME NEW k \in Locked, NEW u \in User, NEW n \in Nat, NEW b \in Browser,
             Read(w, k, u, n, b),
             k \in {"code", "reset"} =>
                n \in 1..Len(token) /\ token[n].kind = k /\ token[n].user = u
      PROVE  Reading(w, u)
  <2>1. /\ serving[w].kind = "idle" /\ user[u].is = "on" /\ Free(w, u)
        /\ lock' = [lock EXCEPT ![u] = w]
        /\ serving' = [serving EXCEPT ![w] = Serving(k, u, n, b)]
        /\ UNCHANGED <<now, org, user, cookie, history, faults>>
    BY <1>2 DEF Read
  <2>2. requests' \in 0..MaxRequests
    BY <1>2 DEF Read, Request, UserTypes, UserAccountsAssumption
  <2> QED BY <1>2, <2>1, <2>2 DEF Reading
<1>3. CASE Login(w)
  BY <1>1, <1>2, <1>3 DEF Login, Locked
<1>4. CASE TokenLogin(w)
  <2>1. PICK b \in Browser, n \in 1..Len(token) :
           token[n].kind = "code" /\ Read(w, "code", token[n].user, n, b)
    BY <1>4 DEF TokenLogin
  <2>2. token[n].user \in User /\ n \in Nat
    <3>1. token[n] \in Issued
      BY <2>1, ElementOfSeq DEF UserTypes
    <3> QED BY <3>1 DEF Issued
  <2> QED BY <1>2, <2>1, <2>2 DEF Locked
<1>5. CASE ResetPassword(w)
  <2>1. PICK n \in 1..Len(token) :
           token[n].kind = "reset" /\ Read(w, "reset", token[n].user, n, AnyBrowser)
    BY <1>5 DEF ResetPassword
  <2>2. token[n].user \in User /\ n \in Nat
    <3>1. token[n] \in Issued
      BY <2>1, ElementOfSeq DEF UserTypes
    <3> QED BY <3>1 DEF Issued
  <2> QED BY <1>1, <1>2, <2>1, <2>2 DEF Locked
<1>6. CASE AskReset(w)
  BY <1>1, <1>2, <1>6 DEF AskReset, Locked
<1>7. CASE EditUser(w)
  BY <1>1, <1>2, <1>7 DEF EditUser, Locked
<1>8. CASE DeleteUser(w)
  BY <1>1, <1>2, <1>8 DEF DeleteUser, Locked
<1> QED BY <1>3, <1>4, <1>5, <1>6, <1>7, <1>8 DEF Begin

\* What a handler does to the record q of a user u that it holds, to the failures
\* that were counted, and to the tokens.
FailuresKept(u, q) == q.count = user[u].count /\ q.failed = user[u].failed /\ fails' = fails
FailureAdded(u, q) ==
    /\ ~MustWait(user[u])
    /\ q.count = user[u].count + 1 /\ q.failed = now
    /\ fails' = [fails EXCEPT ![u] = Append(@, now)]
FailuresForgotten(u, q) == q.count = 0 /\ fails' = [fails EXCEPT ![u] = <<>>]

Life(k) == IF k = "code" THEN CodeLife ELSE ResetLife
Other(k) == IF k = "code" THEN "reset" ELSE "code"
TokensKept(u, q) ==
    /\ q.code \in {user[u].code, NoToken} /\ q.reset \in {user[u].reset, NoToken}
    /\ UNCHANGED <<token, used>>
TokenUsed(u, q, k) ==
    /\ q[k] = NoToken /\ q[Other(k)] = user[u][Other(k)]
    /\ \E n \in 1..Len(token) :
          /\ token[n].kind = k /\ token[n].user = u /\ Valid(user[u][k], n)
          /\ used' = [used EXCEPT ![n] = @ + 1]
    /\ UNCHANGED token
TokenIssued(u, q, k) ==
    /\ q[k] = Expiring(Len(token) + 1, now + Life(k))
    /\ q[Other(k)] \in {user[u][Other(k)], NoToken}
    /\ Issue(k, u)

Saves(w, q) ==
    /\ user' = [user EXCEPT ![serving[w].user] = q]
    /\ lock' \in [User -> Worker \cup {NoWorker}]
    /\ \A x \in User : lock'[x] = lock[x] \/ (lock[x] = w /\ lock'[x] = NoWorker)
    /\ \/ serving' = [serving EXCEPT ![w] = NotServing]
       \/ serving[w].kind = "code" /\ serving' = [serving EXCEPT ![w].kind = "session"]
    /\ cookie' = cookie \/ \E b \in Browser : cookie' = [cookie EXCEPT ![b] = Len(token')]
    /\ UNCHANGED <<now, org, requests, faults>>

Handles(w, q) ==
    LET u == serving[w].user
    IN /\ Saves(w, q) /\ q.is \in {user[u].is, "deleted"}
       /\ FailuresKept(u, q) \/ FailureAdded(u, q) \/ FailuresForgotten(u, q)
       /\ \/ TokensKept(u, q)
          \/ \E k \in {"code", "reset"} : TokenUsed(u, q, k) \/ TokenIssued(u, q, k)
       /\ late' = late

\* A worker that serves a request holds the lock of the record it read, which is as
\* it read it.
Holds(w) ==
    LET u == serving[w].user
    IN /\ u \in User /\ lock[u] = w /\ user[u].is = "on" /\ serving[w].rec = user[u]
       /\ serving[w].kind \in {"code", "reset"} =>
             LET n == serving[w].arg
             IN n \in 1..Len(token) /\ token[n].kind = serving[w].kind /\ token[n].user = u

LEMMA Released ==
    ASSUME UserTypes, NEW w \in Worker, EndTransaction(w)
    PROVE  /\ lock' \in [User -> Worker \cup {NoWorker}]
           /\ \A x \in User : lock'[x] = lock[x] \/ (lock[x] = w /\ lock'[x] = NoWorker)
BY DEF EndTransaction, UserTypes

LEMMA WriteSaves ==
    ASSUME UserTypes, NEW w \in Worker, NEW q, Write(w, q),
           \/ serving' = [serving EXCEPT ![w] = NotServing]
           \/ serving[w].kind = "code" /\ serving' = [serving EXCEPT ![w].kind = "session"],
           cookie' = cookie \/ \E b \in Browser : cookie' = [cookie EXCEPT ![b] = Len(token')],
           UNCHANGED <<now, org, requests, faults>>
    PROVE  Saves(w, q)
BY Released DEF Write, Saves

LEMMA LoginHandled ==
    ASSUME UserAccountsAssumption, UserTypes, NEW w \in Worker, Holds(w), FinishLogin(w)
    PROVE  \E q \in Account : Handles(w, q)
<1> DEFINE u == serving[w].user
<1>1. /\ u \in User /\ serving[w].rec = user[u] /\ user[u] \in Account /\ serving[w].browser \in Browser
      /\ user[u].code \in Token /\ user[u].reset \in Token
  BY DEF Holds, UserTypes, Service, Account, Token
<1>2. /\ serving' = [serving EXCEPT ![w] = NotServing]
      /\ UNCHANGED <<now, org, late, requests, faults>>
  BY DEF FinishLogin, Done
<1>3. now \in Nat /\ NoToken \in Token /\ token \in Seq(Issued)
  BY AccountValues DEF UserTypes
<1>4. CASE MustWait(user[u]) /\ EndTransaction(w) /\ UNCHANGED <<user, cookie, token, used, fails>>
  <2>1. user' = [user EXCEPT ![u] = user[u]]
    BY <1>1, <1>4 DEF UserTypes
  <2>2. Handles(w, user[u])
    BY <1>2, <1>4, <2>1, Released DEF Handles, Saves, FailuresKept, TokensKept
  <2> QED BY <1>1, <2>2
<1>5. CASE /\ ~MustWait(user[u]) /\ Write(w, [user[u] EXCEPT !.count = @ + 1, !.failed = now])
           /\ fails' = [fails EXCEPT ![u] = Append(@, now)]
           /\ NoneIssued /\ UNCHANGED cookie
  <2> DEFINE q == [user[u] EXCEPT !.count = @ + 1, !.failed = now]
  <2>1. /\ q \in Account
        /\ q.is = user[u].is /\ q.count = user[u].count + 1 /\ q.failed = now
        /\ q.code = user[u].code /\ q.reset = user[u].reset
    <3>1. user[u].count + 1 \in Nat
      BY <1>1 DEF Account
    <3>2. /\ q.is = user[u].is /\ q.count = user[u].count + 1 /\ q.failed = now
          /\ q.code = user[u].code /\ q.reset = user[u].reset
      BY <1>1 DEF Account
    <3>3. q \in Account
      BY <1>1, <1>3, <3>1 DEF Account
    <3> QED BY <3>2, <3>3
  <2>2. Saves(w, q)
    BY <1>2, <1>5, WriteSaves
  <2> HIDE DEF q
  <2>3. Handles(w, q)
    <3>1. FailureAdded(u, q)
      BY <1>5, <2>1 DEF FailureAdded
    <3>2. TokensKept(u, q)
      BY <1>5, <2>1 DEF TokensKept, NoneIssued
    <3> QED BY <1>2, <2>1, <2>2, <3>1, <3>2 DEF Handles
  <2> QED BY <2>1, <2>3
<1>6. CASE /\ Write(w, [user[u] EXCEPT !.count = 0, !.code = NoToken])
           /\ fails' = [fails EXCEPT ![u] = <<>>]
           /\ NoneIssued /\ UNCHANGED cookie
  <2> DEFINE q == [user[u] EXCEPT !.count = 0, !.code = NoToken]
  <2>1. /\ q \in Account /\ q.is = user[u].is /\ q.count = 0
        /\ q.code = NoToken /\ q.reset = user[u].reset
    BY <1>1, <1>3 DEF Account, Token
  <2>2. Saves(w, q)
    BY <1>2, <1>6, WriteSaves
  <2> HIDE DEF q
  <2>3. Handles(w, q)
    <3>1. FailuresForgotten(u, q)
      BY <1>6, <2>1 DEF FailuresForgotten
    <3>2. TokensKept(u, q)
      BY <1>6, <2>1 DEF TokensKept, NoneIssued
    <3> QED BY <1>2, <2>1, <2>2, <3>1, <3>2 DEF Handles
  <2> QED BY <2>1, <2>3
<1>7. CASE /\ Write(w, [user[u] EXCEPT !.count = 0, !.code = Expiring(Len(token) + 1, now + CodeLife)])
           /\ fails' = [fails EXCEPT ![u] = <<>>]
           /\ Issue("code", u)
           /\ cookie' = [cookie EXCEPT ![serving[w].browser] = Len(token) + 1]
  <2> DEFINE t == Expiring(Len(token) + 1, now + CodeLife)
             q == [user[u] EXCEPT !.count = 0, !.code = t]
  <2>1. t \in Token
    BY <1>3 DEF Expiring, Token, UserAccountsAssumption
  <2>3. Len(token') = Len(token) + 1
    BY <1>1, <1>3, <1>7 DEF Issue, Issued
  <2>6. cookie' = [cookie EXCEPT ![serving[w].browser] = Len(token')]
    BY <1>7, <2>3
  <2>2. Saves(w, q)
    BY <1>1, <1>2, <1>7, <2>6, WriteSaves
  <2>t. t = Expiring(Len(token) + 1, now + Life("code"))
    BY DEF Life
  <2> HIDE DEF t
  <2>4. /\ q \in Account /\ q.is = user[u].is /\ q.count = 0
        /\ q.code = t /\ q.reset = user[u].reset
    BY <1>1, <2>1 DEF Account, Token
  <2> HIDE DEF q
  <2>5. TokenIssued(u, q, "code")
    BY <1>7, <2>4, <2>t DEF TokenIssued, Other
  <2>8. FailuresForgotten(u, q)
    BY <1>7, <2>4 DEF FailuresForgotten
  <2>7. Handles(w, q)
    BY <1>2, <2>2, <2>4, <2>5, <2>8 DEF Handles
  <2> QED BY <2>4, <2>7
<1> QED BY <1>1, <1>4, <1>5, <1>6, <1>7 DEF FinishLogin

LEMMA CodeHandled ==
    ASSUME UserAccountsAssumption, UserTypes, NEW w \in Worker, Holds(w), FinishTokenLogin(w)
    PROVE  \E q \in Account : Handles(w, q)
<1> DEFINE u == serving[w].user
           n == serving[w].arg
           q == [user[u] EXCEPT !.code = NoToken]
           good == Valid(user[u].code, n) /\ cookie[serving[w].browser] = n
<1>1. /\ u \in User /\ serving[w].rec = user[u] /\ user[u] \in Account /\ NoToken \in Token
      /\ serving[w].kind = "code" /\ n \in 1..Len(token) /\ token[n].kind = "code" /\ token[n].user = u
  BY AccountValues DEF Holds, UserTypes, FinishTokenLogin
<1>2. /\ q \in Account /\ q.is = user[u].is /\ q.count = user[u].count
      /\ q.failed = user[u].failed /\ q.code = NoToken /\ q.reset = user[u].reset
  BY <1>1 DEF Account, Token
<1>3. Write(w, q)
  BY <1>1 DEF FinishTokenLogin
<1>4. /\ UNCHANGED <<now, org, cookie, fails, late, requests, faults>>
      /\ IF good THEN Use(n) ELSE NoneIssued
      /\ IF good THEN serving' = [serving EXCEPT ![w].kind = "session"] ELSE Done(w)
  BY <1>1 DEF FinishTokenLogin
<1>5. Saves(w, q)
  BY <1>1, <1>3, <1>4, WriteSaves DEF Done
<1> HIDE DEF q
<1>6. FailuresKept(u, q)
  BY <1>2, <1>4 DEF FailuresKept
<1>7. TokensKept(u, q) \/ TokenUsed(u, q, "code")
  <2>1. CASE good
    BY <1>1, <1>2, <1>4, <2>1 DEF TokenUsed, Other, Use
  <2>2. CASE ~good
    BY <1>2, <1>4, <2>2 DEF TokensKept, NoneIssued
  <2> QED BY <2>1, <2>2
<1> QED BY <1>2, <1>4, <1>5, <1>6, <1>7 DEF Handles

LEMMA AskHandled ==
    ASSUME UserAccountsAssumption, UserTypes, NEW w \in Worker, Holds(w), FinishAskReset(w)
    PROVE  \E q \in Account : Handles(w, q)
<1> DEFINE u == serving[w].user
           t == Expiring(Len(token) + 1, now + ResetLife)
           q == [user[u] EXCEPT !.reset = t]
<1>1. /\ u \in User /\ serving[w].rec = user[u] /\ user[u] \in Account
      /\ now \in Nat /\ token \in Seq(Issued)
  BY DEF Holds, UserTypes
<1>2. /\ Write(w, q) /\ Issue("reset", u) /\ Done(w)
      /\ UNCHANGED <<now, org, cookie, fails, late, requests, faults>>
  BY <1>1 DEF FinishAskReset
<1>3. t \in Token
  BY <1>1 DEF Expiring, Token, UserAccountsAssumption
<1>4. Saves(w, q)
  BY <1>2, WriteSaves DEF Done
<1>5. t = Expiring(Len(token) + 1, now + Life("reset"))
  BY DEF Life
<1> HIDE DEF t
<1>6. /\ q \in Account /\ q.is = user[u].is /\ q.count = user[u].count
      /\ q.failed = user[u].failed /\ q.code = user[u].code /\ q.reset = t
  BY <1>1, <1>3 DEF Account, Token
<1> HIDE DEF q
<1>7. FailuresKept(u, q)
  BY <1>2, <1>6 DEF FailuresKept
<1>8. TokenIssued(u, q, "reset")
  BY <1>2, <1>5, <1>6 DEF TokenIssued, Other
<1> QED BY <1>2, <1>4, <1>6, <1>7, <1>8 DEF Handles

LEMMA ResetHandled ==
    ASSUME UserAccountsAssumption, UserTypes, NEW w \in Worker, Holds(w), FinishReset(w)
    PROVE  \E q \in Account : Handles(w, q)
<1> DEFINE u == serving[w].user
           n == serving[w].arg
           q == [user[u] EXCEPT !.reset = NoToken, !.count = 0]
<1>1. /\ u \in User /\ serving[w].rec = user[u] /\ user[u] \in Account /\ NoToken \in Token
      /\ lock \in [User -> Worker \cup {NoWorker}] /\ user \in [User -> Account]
      /\ serving[w].kind = "reset" /\ n \in 1..Len(token) /\ token[n].kind = "reset" /\ token[n].user = u
  BY AccountValues DEF Holds, UserTypes, FinishReset
<1>2. Done(w) /\ UNCHANGED <<now, org, cookie, late, requests, faults>>
  BY DEF FinishReset
<1>3. CASE UNCHANGED <<user, token, used, fails>> /\ (lock' = lock \/ EndTransaction(w))
  <2>1. user' = [user EXCEPT ![u] = user[u]]
    BY <1>1, <1>3
  <2>2. Saves(w, user[u])
    BY <1>1, <1>2, <1>3, <2>1, Released DEF Saves, Done
  <2>3. FailuresKept(u, user[u]) /\ TokensKept(u, user[u])
    BY <1>3 DEF FailuresKept, TokensKept
  <2>4. Handles(w, user[u])
    BY <1>2, <2>2, <2>3 DEF Handles
  <2> QED BY <1>1, <2>4
<1>4. CASE /\ Valid(user[u].reset, n) /\ Write(w, q) /\ Use(n)
           /\ fails' = [fails EXCEPT ![u] = <<>>]
  <2>1. /\ q \in Account /\ q.is = user[u].is /\ q.count = 0
        /\ q.code = user[u].code /\ q.reset = NoToken
    BY <1>1 DEF Account, Token
  <2>2. Saves(w, q)
    BY <1>2, <1>4, WriteSaves DEF Done
  <2> HIDE DEF q
  <2>3. FailuresForgotten(u, q)
    BY <1>4, <2>1 DEF FailuresForgotten
  <2>4. TokenUsed(u, q, "reset")
    BY <1>1, <1>4, <2>1 DEF TokenUsed, Other, Use
  <2> QED BY <1>2, <2>1, <2>2, <2>3, <2>4 DEF Handles
<1> QED BY <1>1, <1>3, <1>4 DEF FinishReset

LEMMA EditHandled ==
    ASSUME UserAccountsAssumption, UserTypes, NEW w \in Worker, Holds(w), FinishEdit(w)
    PROVE  \E q \in Account : Handles(w, q)
<1> DEFINE u == serving[w].user
           q == [user[u] EXCEPT !.reset = NoToken, !.count = 0]
<1>1. /\ u \in User /\ serving[w].rec = user[u] /\ user[u] \in Account /\ NoToken \in Token
  BY AccountValues DEF Holds, UserTypes
<1>2. /\ NoneIssued /\ Done(w)
      /\ UNCHANGED <<now, org, cookie, late, requests, faults>>
  BY DEF FinishEdit
<1>3. CASE serving[w].arg # 1
  <2>1. Write(w, user[u]) /\ fails' = fails
    BY <1>1, <1>3 DEF FinishEdit
  <2>2. Saves(w, user[u])
    BY <1>2, <2>1, WriteSaves DEF Done
  <2>3. FailuresKept(u, user[u]) /\ TokensKept(u, user[u])
    BY <1>2, <2>1 DEF FailuresKept, TokensKept, NoneIssued
  <2>4. Handles(w, user[u])
    BY <1>2, <2>2, <2>3 DEF Handles
  <2> QED BY <1>1, <2>4
<1>4. CASE serving[w].arg = 1
  <2>1. /\ q \in Account /\ q.is = user[u].is /\ q.count = 0
        /\ q.code = user[u].code /\ q.reset = NoToken
    BY <1>1 DEF Account, Token
  <2>2. Write(w, q) /\ fails' = [fails EXCEPT ![u] = <<>>]
    BY <1>1, <1>4 DEF FinishEdit
  <2>3. Saves(w, q)
    BY <1>2, <2>2, WriteSaves DEF Done
  <2> HIDE DEF q
  <2>4. FailuresForgotten(u, q) /\ TokensKept(u, q)
    BY <1>2, <2>1, <2>2 DEF FailuresForgotten, TokensKept, NoneIssued
  <2> QED BY <1>2, <2>1, <2>3, <2>4 DEF Handles
<1> QED BY <1>3, <1>4

LEMMA DeleteHandled ==
    ASSUME UserAccountsAssumption, UserTypes, NEW w \in Worker, Holds(w), FinishDelete(w)
    PROVE  \E q \in Account : Handles(w, q)
<1> DEFINE u == serving[w].user
           q == [user[u] EXCEPT !.is = "deleted"]
<1>1. u \in User /\ serving[w].rec = user[u] /\ user[u] \in Account
  BY DEF Holds, UserTypes
<1>2. /\ Write(w, q) /\ Done(w)
      /\ UNCHANGED <<now, org, cookie, token, used, fails, late, requests, faults>>
  BY <1>1 DEF FinishDelete, history
<1>3. /\ q \in Account /\ q.is = "deleted" /\ q.count = user[u].count
      /\ q.failed = user[u].failed /\ q.code = user[u].code /\ q.reset = user[u].reset
  BY <1>1 DEF Account
<1>4. Saves(w, q)
  BY <1>2, WriteSaves DEF Done
<1> HIDE DEF q
<1>5. FailuresKept(u, q) /\ TokensKept(u, q)
  BY <1>2, <1>3 DEF FailuresKept, TokensKept
<1> QED BY <1>2, <1>3, <1>4, <1>5 DEF Handles

\* A user is added, or written by a login that found no organisation.
Adds(w, q) ==
    LET u == serving[w].user
    IN /\ serving[w].kind = "add"
       /\ Saves(w, q) /\ q.is = "on" /\ q.count = 0 /\ fails' = fails
       /\ TokenIssued(u, q, "reset")
       /\ late' = IF org = "deleted" THEN late \cup {u} ELSE late

LEMMA AddForm ==
    ASSUME UserAccountsAssumption, UserTypes, NEW w \in Worker, FinishAdd(w)
    PROVE  \E q \in Account : Adds(w, q)
<1> DEFINE u == serving[w].user
           t == Expiring(Len(token) + 1, now + ResetLife)
           q == [New EXCEPT !.reset = t]
<1>1. /\ New \in Account /\ New.is = "on" /\ New.count = 0 /\ New.code = NoToken
      /\ now \in Nat /\ token \in Seq(Issued)
  BY AccountValues DEF UserTypes
<1>2. /\ serving[w].kind = "add" /\ Write(w, q) /\ Issue("reset", u) /\ Done(w)
      /\ late' = IF org = "deleted" THEN late \cup {u} ELSE late
      /\ UNCHANGED <<now, org, cookie, fails, requests, faults>>
  BY DEF FinishAdd
<1>3. t \in Token
  BY <1>1 DEF Expiring, Token, UserAccountsAssumption
<1>4. Saves(w, q)
  BY <1>2, WriteSaves DEF Done
<1>5. t = Expiring(Len(token) + 1, now + Life("reset"))
  BY DEF Life
<1> HIDE DEF t
<1>6. q \in Account /\ q.is = "on" /\ q.count = 0 /\ q.code = NoToken /\ q.reset = t
  BY <1>1, <1>3 DEF Account, Token
<1> HIDE DEF q
<1>7. TokenIssued(u, q, "reset")
  BY <1>2, <1>5, <1>6 DEF TokenIssued, Other
<1> QED BY <1>2, <1>4, <1>6, <1>7 DEF Adds

-----------------------------------------------------------------------------
(* What every worker may rely on.                                          *)

Deleting(w) == serving[w].kind \in {"delete_org", "delete_users"}

Serves(w) ==
    LET u == serving[w].user
    IN /\ serving[w].kind \in Locked => Holds(w)
       /\ serving[w].kind = "session" =>
             u \in User /\ user[u].is # "none" /\ serving[w].rec.is = "on"
       /\ serving[w].kind = "add" =>
             /\ u \in User /\ user[u].is = "none"
             /\ \A x \in Worker \ {w} : serving[x].kind = "add" => serving[x].user # u
       /\ Deleting(w) => org = "deleted" /\ \A x \in Worker \ {w} : ~Deleting(x)
       /\ serving[w].kind = "delete_users" =>
             \A v \in User \ late : user[v].is = "on" => lock[v] = w

Served == \A w \in Worker : Serves(w)

LEMMA StepForms ==
    ASSUME UserAccountsAssumption, UserTypes, Served, [Next]_vars
    PROVE  \/ UNCHANGED vars \/ Tick
           \/ \E w \in Worker :
                 \/ (\E u \in User : Reading(w, u)) \/ AddUser(w) \/ DeleteOrg(w)
                 \/ serving[w].kind \in Locked /\ Holds(w) /\ \E q \in Account : Handles(w, q)
                 \/ (\E q \in Account : Adds(w, q))
                 \/ OpenSession(w) \/ ReadUsers(w) \/ DeleteUsers(w) \/ Stop(w)
<1> SUFFICES ASSUME NEW w \in Worker, Finish(w), ~FinishAdd(w),
                    ~OpenSession(w), ~ReadUsers(w), ~DeleteUsers(w)
             PROVE  serving[w].kind \in Locked /\ Holds(w) /\ \E q \in Account : Handles(w, q)
  BY BeginForms, AddForm DEF Next, Finish
<1>1. serving[w].kind \in Locked
  BY DEF Finish, FinishLogin, FinishTokenLogin, FinishAskReset, FinishReset, FinishEdit,
         FinishDelete, Locked
<1>2. Holds(w)
  BY <1>1 DEF Served, Serves
<1> QED BY <1>1, <1>2, LoginHandled, CodeHandled, AskHandled, ResetHandled, EditHandled,
           DeleteHandled DEF Finish

-----------------------------------------------------------------------------
(* Types.                                                                  *)

LEMMA UserTypesInit == ASSUME UserAccountsAssumption, Init PROVE UserTypes
<1>1. user \in [User -> Account] /\ serving \in [Worker -> Service]
  BY AccountValues DEF Init
<1>2. /\ token = <<>> /\ token \in Seq(Issued) /\ Len(token) = 0
      /\ used \in Seq(Nat) /\ Len(used) = 0
      /\ fails \in [User -> Seq(Nat)]
  BY DEF Init
<1>3. \A u \in User : \A i \in 1..Len(fails[u]) : fails[u][i] \in 0..now
  BY DEF Init
<1> QED BY <1>1, <1>2, <1>3 DEF Init, UserTypes, UserAccountsAssumption

LEMMA TokenTypes ==
    ASSUME UserAccountsAssumption, UserTypes, NEW u \in User, NEW q,
           \/ TokensKept(u, q)
           \/ \E k \in {"code", "reset"} : TokenUsed(u, q, k) \/ TokenIssued(u, q, k)
    PROVE  /\ token' \in Seq(Issued) /\ used' \in Seq(Nat) /\ Len(used') = Len(token')
           /\ Len(token') \in Nat /\ Len(token) <= Len(token')
           /\ \A n \in 1..Len(token) : token'[n] = token[n]
<1>1. token \in Seq(Issued) /\ used \in Seq(Nat) /\ Len(used) = Len(token) /\ now \in Nat
  BY DEF UserTypes
<1>2. CASE TokensKept(u, q)
  BY <1>1, <1>2 DEF TokensKept
<1>3. ASSUME NEW k \in {"code", "reset"}, TokenUsed(u, q, k)
      PROVE  /\ token' = token /\ used' \in Seq(Nat) /\ Len(used') = Len(used)
  <2>1. PICK n \in 1..Len(token) : used' = [used EXCEPT ![n] = @ + 1]
    BY <1>3 DEF TokenUsed
  <2>2. used[n] + 1 \in Nat
    <3>1. used[n] \in Nat
      BY <1>1, <2>1, ElementOfSeq
    <3> QED BY <3>1
  <2>3. used' = [used EXCEPT ![n] = used[n] + 1]
    BY <2>1
  <2> QED BY <1>1, <1>3, <2>2, <2>3, ExceptSeq DEF TokenUsed
<1>4. ASSUME NEW k \in {"code", "reset"}, TokenIssued(u, q, k)
      PROVE  /\ token' \in Seq(Issued) /\ used' \in Seq(Nat) /\ Len(used') = Len(token')
             /\ Len(token') = Len(token) + 1
             /\ \A n \in 1..Len(token) : token'[n] = token[n]
  <2>1. /\ token' = Append(token, [kind |-> k, user |-> u, at |-> now])
        /\ used' = Append(used, 0)
    BY <1>4 DEF TokenIssued, Issue
  <2>2. [kind |-> k, user |-> u, at |-> now] \in Issued
    BY <1>1 DEF Issued
  <2> QED BY <1>1, <2>1, <2>2, AppendProperties
<1> QED BY <1>1, <1>2, <1>3, <1>4

LEMMA FailTypes ==
    ASSUME UserAccountsAssumption, UserTypes, NEW u \in User, NEW q,
           FailuresKept(u, q) \/ FailureAdded(u, q) \/ FailuresForgotten(u, q)
    PROVE  /\ fails' \in [User -> Seq(Nat)]
           /\ \A x \in User : \A i \in 1..Len(fails'[x]) : fails'[x][i] \in 0..now
<1>1. fails \in [User -> Seq(Nat)] /\ now \in Nat
      /\ \A x \in User : \A i \in 1..Len(fails[x]) : fails[x][i] \in 0..now
  BY DEF UserTypes
<1>2. CASE FailuresKept(u, q)
  BY <1>1, <1>2 DEF FailuresKept
<1>3. CASE FailureAdded(u, q)
  <2>1. fails' = [fails EXCEPT ![u] = Append(fails[u], now)]
    BY <1>3 DEF FailureAdded
  <2>2. fails[u] \in Seq(Nat)
    BY <1>1
  <2>3. /\ Append(fails[u], now) \in Seq(Nat) /\ Len(Append(fails[u], now)) = Len(fails[u]) + 1
        /\ \A i \in 1..Len(fails[u]) : Append(fails[u], now)[i] = fails[u][i]
        /\ Append(fails[u], now)[Len(fails[u]) + 1] = now
    BY <1>1, <2>2, AppendProperties
  <2>4. ASSUME NEW i \in 1..Len(fails[u]) + 1 PROVE Append(fails[u], now)[i] \in 0..now
    BY <1>1, <2>2, <2>3
  <2> QED BY <1>1, <2>1, <2>3, <2>4
<1>4. CASE FailuresForgotten(u, q)
  <2>1. fails' = [fails EXCEPT ![u] = <<>>] /\ <<>> \in Seq(Nat) /\ Len(<<>>) = 0
    BY <1>4 DEF FailuresForgotten
  <2> QED BY <1>1, <2>1
<1> QED BY <1>2, <1>3, <1>4

LEMMA SavesTypes ==
    ASSUME UserAccountsAssumption, UserTypes, NEW w \in Worker, NEW q \in Account, Saves(w, q),
           serving[w].user \in User, Len(token') \in Nat, Len(token) <= Len(token')
    PROVE  /\ user' \in [User -> Account] /\ lock' \in [User -> Worker \cup {NoWorker}]
           /\ serving' \in [Worker -> Service]
           /\ cookie' \in [Browser -> 0..Len(token')]
           /\ now' = now /\ org' = org /\ requests' = requests /\ faults' = faults
<1>1. /\ user \in [User -> Account] /\ serving \in [Worker -> Service]
      /\ cookie \in [Browser -> 0..Len(token)] /\ Len(token) \in Nat
  BY DEF UserTypes
<1>2. user' \in [User -> Account]
  BY <1>1 DEF Saves
<1>3. serving' \in [Worker -> Service]
  <2>1. CASE serving' = [serving EXCEPT ![w] = NotServing]
    BY <1>1, <2>1, AccountValues
  <2>2. CASE serving' = [serving EXCEPT ![w].kind = "session"]
    <3>1. [serving[w] EXCEPT !.kind = "session"] \in Service
      BY <1>1 DEF Service, Kind
    <3>2. serving' = [serving EXCEPT ![w] = [serving[w] EXCEPT !.kind = "session"]]
      BY <2>2
    <3> HIDE <2>2
    <3> QED BY <1>1, <3>1, <3>2
  <2> QED BY <2>1, <2>2 DEF Saves
<1>4. cookie' \in [Browser -> 0..Len(token')]
  <2>1. cookie \in [Browser -> 0..Len(token')]
    BY <1>1
  <2>2. Len(token') \in 0..Len(token')
    OBVIOUS
  <2> QED BY <2>1, <2>2 DEF Saves
<1> QED BY <1>2, <1>3, <1>4 DEF Saves

\* A service of which only the kind changes, or a new one.
LEMMA ServiceTypes ==
    ASSUME UserAccountsAssumption, UserTypes, NEW w \in Worker, NEW s \in Service,
           serving' = [serving EXCEPT ![w] = s]
    PROVE  serving' \in [Worker -> Service]
BY DEF UserTypes

LEMMA UserTypesStep ==
    ASSUME UserAccountsAssumption, UserTypes, Served, [Next]_vars
    PROVE  UserTypes'
<1> USE DEF UserTypes
<1>1. CASE UNCHANGED vars
  BY <1>1 DEF vars, history
<1>2. CASE Tick
  <2>1. now' \in 0..MaxClock /\ now' = now + 1 /\ now \in Nat
    BY <1>2 DEF Tick, UserAccountsAssumption
  <2>2. \A u \in User : \A i \in 1..Len(fails[u]) : fails[u][i] \in 0..now'
    BY <2>1
  <2> QED BY <1>2, <2>1, <2>2 DEF Tick, history
<1>3. ASSUME NEW w \in Worker, NEW u \in User, Reading(w, u) PROVE UserTypes'
  <2>1. serving' \in [Worker -> Service]
    <3>1. PICK k \in Locked, n \in Nat, b \in Browser :
             serving' = [serving EXCEPT ![w] = Serving(k, u, n, b)]
      BY <1>3 DEF Reading
    <3>2. Serving(k, u, n, b) \in Service
      BY ServiceOf DEF Locked, Kind
    <3> QED BY <3>1, <3>2, ServiceTypes
  <2> QED BY <1>3, <2>1 DEF Reading, history
<1>4. ASSUME NEW w \in Worker, AddUser(w) PROVE UserTypes'
  <2>1. serving' \in [Worker -> Service]
    <3>1. PICK u \in User : serving' = [serving EXCEPT ![w] = Serving("add", u, 0, AnyBrowser)]
      BY <1>4 DEF AddUser
    <3>2. Serving("add", u, 0, AnyBrowser) \in Service
      <4>1. AnyBrowser \in Browser
        BY DEF AnyBrowser, UserAccountsAssumption
      <4> QED BY <4>1, ServiceOf DEF Kind
    <3> QED BY <3>1, <3>2, ServiceTypes
  <2>2. requests' \in 0..MaxRequests
    BY <1>4 DEF AddUser, Request, UserAccountsAssumption
  <2> QED BY <1>4, <2>1, <2>2 DEF AddUser, history
<1>5. ASSUME NEW w \in Worker, DeleteOrg(w) PROVE UserTypes'
  <2>1. serving' \in [Worker -> Service]
    <3>1. serving' = [serving EXCEPT ![w] = [NotServing EXCEPT !.kind = "delete_org"]]
      BY <1>5 DEF DeleteOrg
    <3>2. [NotServing EXCEPT !.kind = "delete_org"] \in Service
      BY AccountValues DEF Service, Kind
    <3> QED BY <3>1, <3>2, ServiceTypes
  <2>2. requests' \in 0..MaxRequests
    BY <1>5 DEF DeleteOrg, Request, UserAccountsAssumption
  <2> QED BY <1>5, <2>1, <2>2 DEF DeleteOrg, history
<1>6. ASSUME NEW w \in Worker, serving[w].user \in User, NEW q \in Account, Handles(w, q)
      PROVE  UserTypes'
  <2> DEFINE u == serving[w].user
  <2>1. /\ Saves(w, q)
        /\ FailuresKept(u, q) \/ FailureAdded(u, q) \/ FailuresForgotten(u, q)
        /\ TokensKept(u, q) \/ \E k \in {"code", "reset"} : TokenUsed(u, q, k) \/ TokenIssued(u, q, k)
        /\ late' = late
    BY <1>6 DEF Handles
  <2>2. /\ token' \in Seq(Issued) /\ used' \in Seq(Nat) /\ Len(used') = Len(token')
        /\ Len(token') \in Nat /\ Len(token) <= Len(token')
    BY <1>6, <2>1, TokenTypes
  <2>3. /\ fails' \in [User -> Seq(Nat)]
        /\ \A x \in User : \A i \in 1..Len(fails'[x]) : fails'[x][i] \in 0..now
    BY <1>6, <2>1, FailTypes
  <2>4. /\ user' \in [User -> Account] /\ lock' \in [User -> Worker \cup {NoWorker}]
        /\ serving' \in [Worker -> Service]
        /\ cookie' \in [Browser -> 0..Len(token')]
        /\ now' = now /\ org' = org /\ requests' = requests /\ faults' = faults
    BY <1>6, <2>1, <2>2, SavesTypes
  <2> QED BY <2>1, <2>2, <2>3, <2>4
<1>7. ASSUME NEW w \in Worker, NEW q \in Account, Adds(w, q) PROVE UserTypes'
  <2> DEFINE u == serving[w].user
  <2>1. /\ u \in User /\ Saves(w, q) /\ fails' = fails /\ TokenIssued(u, q, "reset")
        /\ late' \in SUBSET User
    BY <1>7 DEF Adds, Served, Serves
  <2>2. /\ token' \in Seq(Issued) /\ used' \in Seq(Nat) /\ Len(used') = Len(token')
        /\ Len(token') \in Nat /\ Len(token) <= Len(token')
    BY <2>1, TokenTypes
  <2>4. /\ user' \in [User -> Account] /\ lock' \in [User -> Worker \cup {NoWorker}]
        /\ serving' \in [Worker -> Service]
        /\ cookie' \in [Browser -> 0..Len(token')]
        /\ now' = now /\ org' = org /\ requests' = requests /\ faults' = faults
    BY <2>1, <2>2, SavesTypes
  <2> QED BY <2>1, <2>2, <2>4
<1>8. ASSUME NEW w \in Worker, OpenSession(w) PROVE UserTypes'
  <2>1. serving[w].user \in User /\ serving[w].rec \in Account /\ NoToken \in Token
    BY <1>8, AccountValues DEF OpenSession, Served, Serves, Service
  <2>2. user' \in [User -> Account] /\ late' \in SUBSET User
    <3>1. [serving[w].rec EXCEPT !.code = NoToken] \in Account
      BY <2>1 DEF Account, Token
    <3> QED BY <1>8, <2>1, <3>1 DEF OpenSession
  <2>3. serving' \in [Worker -> Service]
    BY <1>8, AccountValues, ServiceTypes DEF OpenSession, Done
  <2> QED BY <1>8, <2>2, <2>3 DEF OpenSession
<1>9. ASSUME NEW w \in Worker, ReadUsers(w) PROVE UserTypes'
  <2>1. serving' \in [Worker -> Service]
    <3>1. [serving[w] EXCEPT !.kind = "delete_users"] \in Service
      BY DEF Service, Kind
    <3>2. serving' = [serving EXCEPT ![w] = [serving[w] EXCEPT !.kind = "delete_users"]]
      BY <1>9 DEF ReadUsers
    <3> QED BY <3>1, <3>2, ServiceTypes
  <2>2. lock' \in [User -> Worker \cup {NoWorker}]
    BY <1>9 DEF ReadUsers
  <2> QED BY <1>9, <2>1, <2>2 DEF ReadUsers, history
<1>10. ASSUME NEW w \in Worker, DeleteUsers(w) PROVE UserTypes'
  <2>1. serving' \in [Worker -> Service]
    BY <1>10, AccountValues, ServiceTypes DEF DeleteUsers, Done
  <2>2. lock' \in [User -> Worker \cup {NoWorker}]
    BY <1>10, Released DEF DeleteUsers
  <2>3. user' \in [User -> Account]
    <3>1. \A u \in User : [user[u] EXCEPT !.is = "deleted"] \in Account
      BY DEF Account
    <3> QED BY <1>10, <3>1 DEF DeleteUsers
  <2> QED BY <1>10, <2>1, <2>2, <2>3 DEF DeleteUsers, history
<1>11. ASSUME NEW w \in Worker, Stop(w) PROVE UserTypes'
  <2>1. serving' \in [Worker -> Service]
    BY <1>11, AccountValues, ServiceTypes DEF Stop, Done
  <2>2. lock' \in [User -> Worker \cup {NoWorker}]
    BY <1>11, Released DEF Stop
  <2>3. faults' \in 0..MaxFaults /\ late' \in SUBSET User
    BY <1>11 DEF Stop, UserAccountsAssumption
  <2> QED BY <1>11, <2>1, <2>2, <2>3 DEF Stop
<1> QED BY <1>1, <1>2, <1>3, <1>4, <1>5, <1>6, <1>7, <1>8, <1>9, <1>10, <1>11, StepForms DEF Holds

-----------------------------------------------------------------------------
(* What a step of a worker does to what the others rely on.                *)

Gentle(w) ==
    /\ \A x \in Worker \ {w} : serving'[x] = serving[x]
    /\ \A u \in User : lock[u] \in Worker \ {w} /\ user[u].is = "on" =>
                           lock'[u] = lock[u] /\ user'[u] = user[u]
    /\ \A u \in User :
          /\ user[u].is = "none" =>
                user'[u] = user[u] \/ (serving[w].kind = "add" /\ serving[w].user = u)
          /\ user[u].is # "none" => user'[u].is # "none"
          /\ user'[u].is = "on" => user[u].is = "on" \/ u \in late' \/ org = "on"
    /\ late \subseteq late' /\ (org = "deleted" => org' = "deleted")
    /\ serving'[w].kind \in {"delete_org", "delete_users"} => Deleting(w) \/ org = "on"
    /\ serving'[w].kind = "add" =>
          \/ serving'[w] = serving[w]
          \/ \A x \in Worker : serving[x].user # serving'[w].user
    /\ \A n \in 1..Len(token) : n \in 1..Len(token') /\ token'[n] = token[n]

LEMMA OthersServe ==
    ASSUME UserAccountsAssumption, UserTypes, Served, NEW w \in Worker, Gentle(w),
           NEW x \in Worker \ {w}
    PROVE  Serves(x)'
<1> DEFINE u == serving[x].user
<1>1. serving'[x] = serving[x] /\ Serves(x)
  BY DEF Gentle, Served
<1>2. serving[x].kind \in Locked => Holds(x)'
  <2> HAVE serving[x].kind \in Locked
  <2>1. Holds(x)
    BY <1>1 DEF Serves
  <2>2. u \in User /\ lock'[u] = lock[u] /\ user'[u] = user[u]
    BY <2>1 DEF Holds, Gentle
  <2>3. \A n \in 1..Len(token) : n \in 1..Len(token') /\ token'[n] = token[n]
    BY DEF Gentle
  <2> QED BY <1>1, <2>1, <2>2, <2>3 DEF Holds
<1>3. serving[x].kind = "session" => u \in User /\ user'[u].is # "none" /\ serving[x].rec.is = "on"
  BY <1>1 DEF Serves, Gentle
<1>4. ASSUME serving[x].kind = "add"
      PROVE  /\ u \in User /\ user'[u].is = "none"
             /\ \A y \in Worker \ {x} : serving'[y].kind = "add" => serving'[y].user # u
  <2>1. /\ u \in User /\ user[u].is = "none"
        /\ \A y \in Worker \ {x} : serving[y].kind = "add" => serving[y].user # u
    BY <1>1, <1>4 DEF Serves
  <2>2. user'[u] = user[u]
    BY <2>1 DEF Gentle
  <2>3. serving'[w].kind = "add" => serving'[w].user # u
    BY <2>1 DEF Gentle
  <2>4. \A y \in Worker \ {w} : serving'[y] = serving[y]
    BY DEF Gentle
  <2> QED BY <2>1, <2>2, <2>3, <2>4
<1>5. ASSUME Deleting(x)
      PROVE  org' = "deleted" /\ \A y \in Worker \ {x} : ~Deleting(y)'
  <2>1. org = "deleted" /\ \A y \in Worker \ {x} : ~Deleting(y)
    BY <1>1, <1>5 DEF Serves
  <2> QED BY <2>1 DEF Gentle, Deleting
<1>6. ASSUME serving[x].kind = "delete_users", NEW v \in User \ late', user'[v].is = "on"
      PROVE  lock'[v] = x
  <2>1. org = "deleted"
    BY <1>1, <1>6 DEF Serves, Deleting
  <2>2. v \in User \ late /\ user[v].is = "on"
    BY <1>6, <2>1 DEF Gentle
  <2>3. lock[v] = x
    BY <1>1, <1>6, <2>2 DEF Serves
  <2> QED BY <2>2, <2>3 DEF Gentle
<1> QED BY <1>1, <1>2, <1>3, <1>4, <1>5, <1>6 DEF Serves, Deleting

LEMMA SavedOne ==
    ASSUME UserTypes, NEW w \in Worker, NEW q, Saves(w, q), serving[w].user \in User
    PROVE  /\ user'[serving[w].user] = q
           /\ \A x \in User : x # serving[w].user => user'[x] = user[x]
           /\ \A x \in Worker \ {w} : serving'[x] = serving[x]
           /\ \/ serving'[w] = NotServing
              \/ /\ serving[w].kind = "code" /\ serving'[w].kind = "session"
                 /\ serving'[w].user = serving[w].user /\ serving'[w].rec = serving[w].rec
           /\ \A x \in User : lock'[x] = lock[x] \/ (lock[x] = w /\ lock'[x] = NoWorker)
           /\ now' = now /\ org' = org
<1>1. user \in [User -> Account] /\ serving \in [Worker -> Service]
  BY DEF UserTypes
<1>2. CASE serving' = [serving EXCEPT ![w] = NotServing]
  BY <1>1, <1>2 DEF Saves
<1>3. CASE serving[w].kind = "code" /\ serving' = [serving EXCEPT ![w].kind = "session"]
  <2>1. serving[w] \in Service
    BY <1>1
  <2>2. serving' = [serving EXCEPT ![w] = [serving[w] EXCEPT !.kind = "session"]]
    BY <1>3
  <2> DEFINE s == [serving[w] EXCEPT !.kind = "session"]
  <2>3. s.kind = "session" /\ s.user = serving[w].user /\ s.rec = serving[w].rec
    BY <2>1 DEF Service
  <2>4. serving'[w] = s /\ \A x \in Worker \ {w} : serving'[x] = serving[x]
    BY <1>1, <2>2
  <2> HIDE DEF s
  <2> QED BY <1>1, <1>3, <2>3, <2>4 DEF Saves
<1> QED BY <1>2, <1>3 DEF Saves

LEMMA ReadingServed ==
    ASSUME UserAccountsAssumption, UserTypes, Served, NEW w \in Worker, NEW u \in User,
           Reading(w, u)
    PROVE  Gentle(w) /\ Serves(w)'
<1>1. PICK k \in Locked, n \in Nat, b \in Browser :
         /\ serving' = [serving EXCEPT ![w] = Serving(k, u, n, b)]
         /\ k \in {"code", "reset"} => n \in 1..Len(token) /\ token[n].kind = k /\ token[n].user = u
  BY DEF Reading
<1> DEFINE s == Serving(k, u, n, b)
<1>2. /\ s.kind = k /\ s.user = u /\ s.arg = n /\ s.rec = user[u] /\ k \in Kind
  BY ServiceOf DEF Locked, Kind
<1> HIDE DEF s
<1>3. serving'[w] = s /\ \A x \in Worker \ {w} : serving'[x] = serving[x]
  BY <1>1 DEF UserTypes, s
<1>4. /\ user[u].is = "on" /\ lock[u] \in {w, NoWorker} /\ lock' = [lock EXCEPT ![u] = w]
      /\ UNCHANGED <<org, user, token, late>> /\ serving[w].kind = "idle"
  BY DEF Reading, Free, history
<1>5. lock'[u] = w /\ \A v \in User \ {u} : lock'[v] = lock[v]
  BY <1>4 DEF UserTypes
<1>6. NoWorker \notin Worker /\ k \notin {"add", "session", "delete_org", "delete_users"}
  BY DEF UserAccountsAssumption, Locked
<1>7. Gentle(w)
  BY <1>2, <1>3, <1>4, <1>5, <1>6 DEF Gentle
<1>8. Holds(w)'
  BY <1>1, <1>2, <1>3, <1>4, <1>5 DEF Holds
<1> QED BY <1>2, <1>3, <1>6, <1>7, <1>8 DEF Serves, Deleting

\* A worker that serves nothing relies on nothing.
LEMMA IdleServes ==
    ASSUME UserAccountsAssumption, NEW w \in Worker, serving'[w] = NotServing
    PROVE  /\ Serves(w)' /\ serving'[w].kind \notin {"delete_org", "delete_users", "add"}
           /\ ~Deleting(w)'
BY AccountValues DEF Serves, Deleting, Locked

LEMMA AddUserServed ==
    ASSUME UserAccountsAssumption, UserTypes, Served, NEW w \in Worker, AddUser(w)
    PROVE  Gentle(w) /\ Serves(w)'
<1>1. PICK u \in User :
         /\ user[u].is = "none" /\ \A x \in Worker : serving[x].user # u
         /\ serving' = [serving EXCEPT ![w] = Serving("add", u, 0, AnyBrowser)]
  BY DEF AddUser
<1> DEFINE s == Serving("add", u, 0, AnyBrowser)
<1>2. s.kind = "add" /\ s.user = u
  BY DEF Serving
<1> HIDE DEF s
<1>3. serving'[w] = s /\ \A x \in Worker \ {w} : serving'[x] = serving[x]
  BY <1>1 DEF UserTypes, s
<1>4. UNCHANGED <<org, user, lock, token, late>>
  BY DEF AddUser, history
<1>5. Gentle(w)
  BY <1>1, <1>2, <1>3, <1>4 DEF Gentle
<1> QED BY <1>1, <1>2, <1>3, <1>4, <1>5 DEF Serves, Deleting, Locked

LEMMA DeleteOrgServed ==
    ASSUME UserAccountsAssumption, UserTypes, Served, NEW w \in Worker, DeleteOrg(w)
    PROVE  Gentle(w) /\ Serves(w)'
<1> DEFINE s == [NotServing EXCEPT !.kind = "delete_org"]
<1>1. s.kind = "delete_org"
  BY AccountValues DEF Service
<1>2. serving' = [serving EXCEPT ![w] = s]
  BY DEF DeleteOrg
<1> HIDE DEF s
<1>3. serving'[w] = s /\ \A x \in Worker \ {w} : serving'[x] = serving[x]
  BY <1>2 DEF UserTypes
<1>4. org = "on" /\ org' = "deleted" /\ UNCHANGED <<user, lock, token, late>>
  BY DEF DeleteOrg, history
<1>5. Gentle(w)
  BY <1>1, <1>3, <1>4 DEF Gentle
<1>6. \A x \in Worker \ {w} : ~Deleting(x)
  BY <1>4 DEF Served, Serves
<1> QED BY <1>1, <1>3, <1>4, <1>5, <1>6 DEF Serves, Deleting, Locked

LEMMA HandlesServed ==
    ASSUME UserAccountsAssumption, UserTypes, Served, NEW w \in Worker, NEW q \in Account,
           serving[w].kind \in Locked, Holds(w), Handles(w, q)
    PROVE  Gentle(w) /\ Serves(w)'
<1> DEFINE u == serving[w].user
<1>1. /\ u \in User /\ lock[u] = w /\ user[u].is = "on" /\ serving[w].rec = user[u]
  BY DEF Holds
<1>2. /\ Saves(w, q) /\ q.is \in {user[u].is, "deleted"} /\ late' = late
      /\ TokensKept(u, q) \/ \E k \in {"code", "reset"} : TokenUsed(u, q, k) \/ TokenIssued(u, q, k)
  BY DEF Handles
<1>3. /\ user'[u] = q
      /\ \A x \in User : x # u => user'[x] = user[x]
      /\ \A x \in Worker \ {w} : serving'[x] = serving[x]
      /\ \/ serving'[w] = NotServing
         \/ /\ serving[w].kind = "code" /\ serving'[w].kind = "session"
            /\ serving'[w].user = u /\ serving'[w].rec = serving[w].rec
      /\ \A x \in User : lock'[x] = lock[x] \/ (lock[x] = w /\ lock'[x] = NoWorker)
      /\ org' = org
  BY <1>1, <1>2, SavedOne
<1>4. \A n \in 1..Len(token) : n \in 1..Len(token') /\ token'[n] = token[n]
  <2>1. /\ Len(token') \in Nat /\ Len(token) <= Len(token')
        /\ \A n \in 1..Len(token) : token'[n] = token[n]
    BY <1>1, <1>2, TokenTypes
  <2>2. Len(token) \in Nat
    BY DEF UserTypes
  <2> QED BY <2>1, <2>2
<1>5. Serves(w)' /\ serving'[w].kind \notin {"delete_org", "delete_users", "add"}
  <2>1. CASE serving'[w] = NotServing
    BY <2>1, IdleServes
  <2>2. CASE /\ serving'[w].kind = "session" /\ serving'[w].user = u
             /\ serving'[w].rec = serving[w].rec
    BY <1>1, <1>2, <1>3, <2>2 DEF Serves, Deleting, Locked
  <2> QED BY <1>3, <2>1, <2>2
<1> QED BY <1>1, <1>2, <1>3, <1>4, <1>5 DEF Gentle

LEMMA AddsServed ==
    ASSUME UserAccountsAssumption, UserTypes, Served, NEW w \in Worker, NEW q \in Account,
           Adds(w, q)
    PROVE  Gentle(w) /\ Serves(w)'
<1> DEFINE u == serving[w].user
<1>1. u \in User /\ user[u].is = "none" /\ serving[w].kind = "add"
  BY DEF Adds, Served, Serves
<1>2. /\ Saves(w, q) /\ q.is = "on" /\ TokenIssued(u, q, "reset")
      /\ late' = IF org = "deleted" THEN late \cup {u} ELSE late
  BY DEF Adds
<1>3. /\ user'[u] = q
      /\ \A x \in User : x # u => user'[x] = user[x]
      /\ \A x \in Worker \ {w} : serving'[x] = serving[x]
      /\ serving'[w] = NotServing
      /\ \A x \in User : lock'[x] = lock[x] \/ (lock[x] = w /\ lock'[x] = NoWorker)
      /\ org' = org
  BY <1>1, <1>2, SavedOne
<1>4. \A n \in 1..Len(token) : n \in 1..Len(token') /\ token'[n] = token[n]
  <2>1. /\ Len(token') \in Nat /\ Len(token) <= Len(token')
        /\ \A n \in 1..Len(token) : token'[n] = token[n]
    BY <1>1, <1>2, TokenTypes
  <2>2. Len(token) \in Nat
    BY DEF UserTypes
  <2> QED BY <2>1, <2>2
<1>5. late \subseteq late' /\ (user'[u].is = "on" => u \in late' \/ org = "on")
  BY <1>2 DEF UserTypes
<1>6. Serves(w)' /\ serving'[w].kind \notin {"delete_org", "delete_users", "add"}
  BY <1>3, IdleServes
<1>7. \A x \in User : user[x].is = "on" => x # u
  BY <1>1
<1>8. q.is # "none"
  BY <1>2
<1> QED BY <1>1, <1>3, <1>4, <1>5, <1>6, <1>7, <1>8 DEF Gentle

LEMMA OpenSessionServed ==
    ASSUME UserAccountsAssumption, UserTypes, Served, NEW w \in Worker, OpenSession(w)
    PROVE  Gentle(w) /\ Serves(w)'
<1> DEFINE u == serving[w].user
           again == [serving[w].rec EXCEPT !.code = NoToken]
<1>1. /\ u \in User /\ user[u].is # "none" /\ serving[w].rec.is = "on" /\ serving[w].rec \in Account
  BY DEF OpenSession, Served, Serves, UserTypes, Service
<1>2. again.is = "on"
  BY <1>1 DEF Account
<1>3. /\ serving'[w] = NotServing
      /\ \A x \in Worker \ {w} : serving'[x] = serving[x]
  BY DEF OpenSession, Done, UserTypes
<1>4. UNCHANGED <<org, lock, token>>
  BY DEF OpenSession
<1>5. CASE org = "on" /\ UNCHANGED <<user, late>>
  BY <1>3, <1>4, <1>5, IdleServes DEF Gentle
<1>6. CASE org = "deleted" /\ Free(w, u) /\ user' = [user EXCEPT ![u] = again] /\ late' = late \cup {u}
  <2> HIDE DEF again
  <2>1. user'[u] = again /\ \A x \in User : x # u => user'[x] = user[x]
    BY <1>1, <1>6 DEF UserTypes
  <2>2. lock[u] \notin Worker \ {w}
    BY <1>6 DEF Free, UserAccountsAssumption
  <2> QED BY <1>1, <1>2, <1>3, <1>4, <1>6, <2>1, <2>2, IdleServes DEF Gentle
<1> QED BY <1>5, <1>6 DEF OpenSession

LEMMA ReadUsersServed ==
    ASSUME UserAccountsAssumption, UserTypes, Served, NEW w \in Worker, ReadUsers(w)
    PROVE  Gentle(w) /\ Serves(w)'
<1> DEFINE s == [serving[w] EXCEPT !.kind = "delete_users"]
<1>1. s.kind = "delete_users"
  BY DEF UserTypes, Service
<1>2. serving' = [serving EXCEPT ![w] = s]
  BY DEF ReadUsers
<1> HIDE DEF s
<1>3. serving'[w] = s /\ \A x \in Worker \ {w} : serving'[x] = serving[x]
  BY <1>2 DEF UserTypes
<1>4. /\ UNCHANGED <<org, user, token, late>>
      /\ \A v \in User : user[v].is = "on" => lock[v] \in {w, NoWorker} /\ lock'[v] = w
      /\ \A v \in User : user[v].is # "on" => lock'[v] = lock[v]
      /\ serving[w].kind = "delete_org"
  BY DEF ReadUsers, history, Free
<1>5. Deleting(w) /\ Serves(w) /\ NoWorker \notin Worker
  BY <1>4 DEF Deleting, Served, UserAccountsAssumption
<1>6. Gentle(w)
  BY <1>1, <1>3, <1>4, <1>5 DEF Gentle
<1>7. \A x \in Worker \ {w} : ~Deleting(x)'
  BY <1>3, <1>5 DEF Serves, Deleting
<1> QED BY <1>1, <1>3, <1>4, <1>5, <1>6, <1>7 DEF Serves, Deleting, Locked

LEMMA DeleteUsersServed ==
    ASSUME UserAccountsAssumption, UserTypes, Served, NEW w \in Worker, DeleteUsers(w)
    PROVE  Gentle(w) /\ Serves(w)'
<1>1. /\ serving'[w] = NotServing
      /\ \A x \in Worker \ {w} : serving'[x] = serving[x]
  BY DEF DeleteUsers, Done, UserTypes
<1>2. /\ UNCHANGED <<org, token, late>>
      /\ \A v \in User : user'[v] = IF lock[v] = w /\ user[v].is = "on"
                                    THEN [user[v] EXCEPT !.is = "deleted"] ELSE user[v]
  BY DEF DeleteUsers, history
<1>3. \A v \in User : [user[v] EXCEPT !.is = "deleted"].is = "deleted"
  BY DEF UserTypes, Account
<1>4. \A v \in User : user'[v] = user[v] \/ (lock[v] = w /\ user[v].is = "on" /\ user'[v].is = "deleted")
  BY <1>2, <1>3
<1>5. \A v \in User : lock'[v] = lock[v] \/ (lock[v] = w /\ lock'[v] = NoWorker)
  BY Released DEF DeleteUsers
<1> QED BY <1>1, <1>2, <1>4, <1>5, IdleServes DEF Gentle

LEMMA StopServed ==
    ASSUME UserAccountsAssumption, UserTypes, Served, NEW w \in Worker, Stop(w)
    PROVE  Gentle(w) /\ Serves(w)'
<1>1. /\ serving'[w] = NotServing
      /\ \A x \in Worker \ {w} : serving'[x] = serving[x]
  BY DEF Stop, Done, UserTypes
<1>2. UNCHANGED <<org, user, token>> /\ late \subseteq late'
  BY DEF Stop
<1>3. \A v \in User : lock'[v] = lock[v] \/ (lock[v] = w /\ lock'[v] = NoWorker)
  BY Released DEF Stop
<1> QED BY <1>1, <1>2, <1>3, IdleServes DEF Gentle

LEMMA ServedStep ==
    ASSUME UserAccountsAssumption, UserTypes, Served, [Next]_vars
    PROVE  /\ Served'
           /\ UNCHANGED vars \/ Tick \/ \E w \in Worker : Gentle(w)
<1>1. ASSUME NEW w \in Worker, Gentle(w), Serves(w)' PROVE Served'
  BY <1>1, OthersServe DEF Served
<1>2. CASE UNCHANGED vars \/ Tick
  <2>1. UNCHANGED <<org, user, lock, serving, token, late>>
    BY <1>2 DEF vars, Tick, history
  <2> QED BY <1>2, <2>1 DEF Served, Serves, Holds, Deleting
<1> QED BY <1>1, <1>2, StepForms, ReadingServed, AddUserServed, DeleteOrgServed, HandlesServed,
           AddsServed, OpenSessionServed, ReadUsersServed, DeleteUsersServed, StopServed

-----------------------------------------------------------------------------
(* An organisation is deleted with its users.                              *)

LEMMA GoneWhile ==
    ASSUME UserTypes, DeletedWithUsers, NEW w \in Worker, Gentle(w), ~Deleting(w), org' = org
    PROVE  DeletedWithUsers'
<1> SUFFICES ASSUME org = "deleted", ~ \E x \in Worker : Deleting(x)',
                    NEW u \in User \ late', user'[u].is = "on"
             PROVE  FALSE
  BY DEF DeletedWithUsers, Deleting
<1>1. \A x \in Worker : ~Deleting(x)
  <2> SUFFICES ASSUME NEW x \in Worker \ {w} PROVE ~Deleting(x)
    OBVIOUS
  <2> QED BY DEF Gentle, Deleting
<1>2. u \notin late /\ user[u].is = "on"
  BY DEF Gentle
<1> QED BY <1>1, <1>2 DEF DeletedWithUsers, Deleting

LEMMA GoneStep ==
    ASSUME UserAccountsAssumption, UserTypes, Served, DeletedWithUsers, [Next]_vars
    PROVE  DeletedWithUsers'
<1>1. CASE UNCHANGED vars \/ Tick
  <2>1. UNCHANGED <<org, user, serving, late>>
    BY <1>1 DEF vars, Tick, history
  <2> QED BY <1>1, <2>1 DEF DeletedWithUsers
<1>2. ASSUME NEW w \in Worker, NEW u \in User, Reading(w, u) PROVE DeletedWithUsers'
  BY <1>2, ReadingServed, GoneWhile DEF Reading, Deleting
<1>3. ASSUME NEW w \in Worker, AddUser(w) PROVE DeletedWithUsers'
  BY <1>3, AddUserServed, GoneWhile DEF AddUser, Deleting
<1>4. ASSUME NEW w \in Worker, DeleteOrg(w) PROVE DeletedWithUsers'
  <2>1. [NotServing EXCEPT !.kind = "delete_org"].kind = "delete_org"
    BY AccountValues DEF Service
  <2>2. serving'[w].kind = "delete_org"
    BY <1>4, <2>1 DEF DeleteOrg, UserTypes
  <2> QED BY <2>2 DEF DeletedWithUsers
<1>5. ASSUME NEW w \in Worker, serving[w].kind \in Locked, Holds(w), NEW q \in Account,
             Handles(w, q)
      PROVE  DeletedWithUsers'
  <2>1. org' = org /\ ~Deleting(w)
    BY <1>5 DEF Handles, Saves, Deleting, Locked
  <2> QED BY <1>5, <2>1, HandlesServed, GoneWhile
<1>6. ASSUME NEW w \in Worker, NEW q \in Account, Adds(w, q) PROVE DeletedWithUsers'
  <2>1. org' = org /\ ~Deleting(w)
    BY <1>6 DEF Adds, Saves, Deleting
  <2> QED BY <1>6, <2>1, AddsServed, GoneWhile
<1>7. ASSUME NEW w \in Worker, OpenSession(w) PROVE DeletedWithUsers'
  BY <1>7, OpenSessionServed, GoneWhile DEF OpenSession, Deleting
<1>8. ASSUME NEW w \in Worker, ReadUsers(w) PROVE DeletedWithUsers'
  <2>1. [serving[w] EXCEPT !.kind = "delete_users"].kind = "delete_users"
    BY DEF UserTypes, Service
  <2>2. serving'[w].kind = "delete_users"
    BY <1>8, <2>1 DEF ReadUsers, UserTypes
  <2> QED BY <2>2 DEF DeletedWithUsers
<1>9. ASSUME NEW w \in Worker, DeleteUsers(w) PROVE DeletedWithUsers'
  <2> SUFFICES ASSUME NEW u \in User \ late, user'[u].is = "on" PROVE FALSE
    BY <1>9 DEF DeletedWithUsers, DeleteUsers, history
  <2>1. user[u] \in Account
    BY DEF UserTypes
  <2>2. [user[u] EXCEPT !.is = "deleted"].is = "deleted"
    BY <2>1 DEF Account
  <2>3. user'[u] = IF lock[u] = w /\ user[u].is = "on"
                   THEN [user[u] EXCEPT !.is = "deleted"] ELSE user[u]
    BY <1>9 DEF DeleteUsers
  <2>4. user[u].is = "on" => lock[u] = w
    BY <1>9 DEF DeleteUsers, Served, Serves
  <2> QED BY <2>2, <2>3, <2>4
<1>10. ASSUME NEW w \in Worker, Stop(w) PROVE DeletedWithUsers'
  <2>1. CASE Deleting(w)
    <3>1. \A u \in User \ late' : user'[u].is # "on"
      BY <1>10, <2>1 DEF Stop, Deleting
    <3> QED BY <3>1 DEF DeletedWithUsers
  <2>2. CASE ~Deleting(w)
    BY <1>10, <2>2, StopServed, GoneWhile DEF Stop
  <2> QED BY <2>1, <2>2
<1> QED BY <1>1, <1>2, <1>3, <1>4, <1>5, <1>6, <1>7, <1>8, <1>9, <1>10, StepForms

-----------------------------------------------------------------------------
(* Wrong passwords are counted, with pauses.                               *)

Pause(n) == (n \div Limit) * Sleep

PacedOf(u) ==
    /\ user[u].count = Len(fails[u])
    /\ Len(fails[u]) > 0 => user[u].failed = fails[u][Len(fails[u])]
    /\ \A i \in 2..Len(fails[u]) :
          (i - 1) % Limit = 0 => fails[u][i] - fails[u][i - 1] >= Pause(i - 1)
    /\ user[u].is = "none" => Len(fails[u]) = 0

Paced == \A u \in User \ late : PacedOf(u)

LEMMA PacedLike ==
    ASSUME UserTypes, NEW u \in User, PacedOf(u), fails'[u] = fails[u],
           user'[u].count = user[u].count, user'[u].failed = user[u].failed,
           user'[u].is = "none" => user[u].is = "none"
    PROVE  PacedOf(u)'
BY DEF PacedOf, Pause

LEMMA PacedNone ==
    ASSUME NEW u \in User, fails'[u] = <<>>, user'[u].count = 0
    PROVE  PacedOf(u)'
<1>1. Len(fails'[u]) = 0
  OBVIOUS
<1> QED BY <1>1 DEF PacedOf

LEMMA PacedMore ==
    ASSUME UserAccountsAssumption, UserTypes, NEW u \in User, PacedOf(u), ~MustWait(user[u]),
           user'[u].count = user[u].count + 1, user'[u].failed = now, user'[u].is # "none",
           fails'[u] = Append(fails[u], now)
    PROVE  PacedOf(u)'
<1> DEFINE s == fails[u]
           n == Len(fails[u])
<1>1. s \in Seq(Nat) /\ n \in Nat /\ now \in Nat /\ user[u] \in Account
  BY DEF UserTypes
<1>2. /\ Len(fails'[u]) = n + 1 /\ fails'[u][n + 1] = now
      /\ \A i \in 1..n : fails'[u][i] = s[i]
  BY <1>1, AppendProperties
<1>3. ASSUME NEW i \in 2..n + 1, (i - 1) % Limit = 0
      PROVE  fails'[u][i] - fails'[u][i - 1] >= Pause(i - 1)
  <2>1. CASE i <= n
    <3>1. i \in 2..n /\ i \in 1..n /\ i - 1 \in 1..n
      BY <1>1, <2>1
    <3> QED BY <1>2, <1>3, <3>1 DEF PacedOf
  <2>2. CASE i = n + 1
    <3>1. i - 1 = n /\ n > 0 /\ n \in 1..n
      BY <1>1, <2>2
    <3>2. user[u].count = n /\ user[u].failed = s[n]
      BY <3>1 DEF PacedOf
    <3>3. ~(now < s[n] + Pause(n))
      BY <1>3, <3>1, <3>2 DEF MustWait, Pause
    <3>4. s[n] \in Nat
      BY <1>1, <3>1, ElementOfSeq
    <3>5. Pause(n) \in Int
      BY <1>1 DEF Pause, UserAccountsAssumption
    <3>6. fails'[u][i] = now /\ fails'[u][i - 1] = s[n]
      BY <1>2, <2>2, <3>1
    <3>7. now - s[n] >= Pause(n)
      BY <1>1, <3>3, <3>4, <3>5
    <3> QED BY <3>1, <3>6, <3>7
  <2> QED BY <1>1, <2>1, <2>2
<1>4. user[u].count = n
  BY DEF PacedOf
<1>5. Pause(0)' = Pause(0)
  BY DEF Pause
<1>6. \A i \in 2..Len(fails'[u]) :
         (i - 1) % Limit = 0 => fails'[u][i] - fails'[u][i - 1] >= Pause(i - 1)
  BY <1>2, <1>3
<1> HIDE DEF s, n
<1> QED BY <1>1, <1>2, <1>4, <1>6 DEF PacedOf, Pause

LEMMA PacedStep ==
    ASSUME UserAccountsAssumption, UserTypes, Served, Paced, [Next]_vars
    PROVE  Paced'
<1>1. ASSUME UNCHANGED <<user, fails>>, late \subseteq late' PROVE Paced'
  BY <1>1, PacedLike DEF Paced
<1>2. CASE UNCHANGED vars \/ Tick
  BY <1>1, <1>2 DEF vars, Tick, history
<1>3. ASSUME NEW w \in Worker,
             (\E u \in User : Reading(w, u)) \/ AddUser(w) \/ DeleteOrg(w) \/ ReadUsers(w)
      PROVE  Paced'
  BY <1>1, <1>3 DEF Reading, AddUser, DeleteOrg, ReadUsers, history
<1>4. ASSUME NEW w \in Worker, Stop(w) PROVE Paced'
  BY <1>1, <1>4 DEF Stop
<1>5. ASSUME NEW w \in Worker, DeleteUsers(w) PROVE Paced'
  <2> SUFFICES ASSUME NEW u \in User \ late PROVE PacedOf(u)'
    BY <1>5 DEF Paced, DeleteUsers, history
  <2>1. user[u] \in Account
    BY DEF UserTypes
  <2>2. LET d == [user[u] EXCEPT !.is = "deleted"]
        IN d.is = "deleted" /\ d.count = user[u].count /\ d.failed = user[u].failed
    BY <2>1 DEF Account
  <2>3. user'[u] \in {user[u], [user[u] EXCEPT !.is = "deleted"]} /\ fails'[u] = fails[u]
    BY <1>5 DEF DeleteUsers, history
  <2> QED BY <2>2, <2>3, PacedLike DEF Paced
<1>6. ASSUME NEW w \in Worker, OpenSession(w) PROVE Paced'
  <2>1. CASE UNCHANGED <<user, late>>
    BY <1>1, <1>6, <2>1 DEF OpenSession
  <2>2. CASE /\ user' = [user EXCEPT ![serving[w].user] = [serving[w].rec EXCEPT !.code = NoToken]]
             /\ late' = late \cup {serving[w].user}
    <3> SUFFICES ASSUME NEW u \in User \ late' PROVE PacedOf(u)'
      BY DEF Paced
    <3>1. u \notin late /\ user'[u] = user[u] /\ fails'[u] = fails[u]
      BY <1>6, <2>2 DEF OpenSession, UserTypes
    <3> QED BY <3>1, PacedLike DEF Paced
  <2> QED BY <1>6, <2>1, <2>2 DEF OpenSession
<1>7. ASSUME NEW w \in Worker, serving[w].kind \in Locked, Holds(w), NEW q \in Account,
             Handles(w, q)
      PROVE  Paced'
  <2>1. PICK u \in User : u = serving[w].user /\ user[u].is = "on"
    BY <1>7 DEF Holds
  <2>2. /\ user'[u] = q /\ \A x \in User : x # u => user'[x] = user[x]
    BY <1>7, <2>1, SavedOne DEF Handles
  <2>3. /\ q.is \in {user[u].is, "deleted"} /\ late' = late
        /\ FailuresKept(u, q) \/ FailureAdded(u, q) \/ FailuresForgotten(u, q)
    BY <1>7, <2>1 DEF Handles
  <2>4. ASSUME NEW x \in User \ late, x # u PROVE PacedOf(x)'
    <3>1. fails'[x] = fails[x]
      BY <2>3, <2>4 DEF FailuresKept, FailureAdded, FailuresForgotten, UserTypes
    <3> QED BY <2>2, <2>4, <3>1, PacedLike DEF Paced
  <2>5. ASSUME u \notin late PROVE PacedOf(u)'
    <3>1. PacedOf(u) /\ q.is # "none"
      BY <2>1, <2>3, <2>5 DEF Paced
    <3>2. CASE FailuresKept(u, q)
      BY <2>1, <2>2, <3>1, <3>2, PacedLike DEF FailuresKept
    <3>3. CASE FailureAdded(u, q)
      <4>1. fails'[u] = Append(fails[u], now)
        BY <2>1, <3>3 DEF FailureAdded, UserTypes
      <4> QED BY <2>1, <2>2, <3>1, <3>3, <4>1, PacedMore DEF FailureAdded
    <3>4. CASE FailuresForgotten(u, q)
      <4>1. fails'[u] = <<>>
        BY <2>1, <3>4 DEF FailuresForgotten, UserTypes
      <4> QED BY <2>1, <2>2, <3>4, <4>1, PacedNone DEF FailuresForgotten
    <3> QED BY <2>3, <3>2, <3>3, <3>4
  <2> QED BY <2>3, <2>4, <2>5 DEF Paced
<1>8. ASSUME NEW w \in Worker, NEW q \in Account, Adds(w, q) PROVE Paced'
  <2>1. PICK u \in User : u = serving[w].user /\ user[u].is = "none"
    BY <1>8 DEF Adds, Served, Serves
  <2>2. user'[u] = q /\ \A x \in User : x # u => user'[x] = user[x]
    BY <1>8, <2>1, SavedOne DEF Adds
  <2>3. q.is = "on" /\ q.count = 0 /\ fails' = fails /\ late \subseteq late'
    BY <1>8, <2>1 DEF Adds
  <2>4. ASSUME NEW x \in User \ late, x # u PROVE PacedOf(x)'
    BY <2>2, <2>3, <2>4, PacedLike DEF Paced
  <2>5. ASSUME u \notin late PROVE PacedOf(u)'
    <3>1. Len(fails[u]) = 0 /\ fails[u] \in Seq(Nat)
      BY <2>1, <2>5 DEF Paced, PacedOf, UserTypes
    <3>2. fails[u] = <<>>
      BY <3>1, EmptySeq
    <3> QED BY <2>1, <2>2, <2>3, <3>2, PacedNone
  <2> QED BY <2>3, <2>4, <2>5 DEF Paced
<1> QED BY <1>2, <1>3, <1>4, <1>5, <1>6, <1>7, <1>8, StepForms

-----------------------------------------------------------------------------
(* The token in a user's record is the latest one, and was not used.       *)

LatestOf(u, k) ==
    LET n == user[u][k].value
    IN n # 0 =>
          /\ n \in 1..Len(token) /\ token[n].kind = k /\ token[n].user = u /\ used[n] = 0
          /\ user[u][k].expiry = token[n].at + Life(k)
          /\ \A m \in n + 1..Len(token) : token[m].user # u \/ token[m].kind # k

Latest == \A u \in User \ late : \A k \in {"code", "reset"} : LatestOf(u, k)

TokensGoodStep ==
    \A n \in 1..Len(token) :
        used'[n] # used[n] /\ token[n].user \notin late =>
            /\ used[n] = 0
            /\ now <= token[n].at + Life(token[n].kind)
            /\ \A m \in n + 1..Len(token) :
                  token[m].user # token[n].user \/ token[m].kind # token[n].kind

LEMMA LatestNone ==
    ASSUME NEW u \in User, NEW k \in {"code", "reset"}, user'[u][k] = NoToken
    PROVE  LatestOf(u, k)'
BY DEF LatestOf, NoToken, Expiring

LEMMA LatestLike ==
    ASSUME NEW u \in User, NEW k \in {"code", "reset"}, LatestOf(u, k),
           user'[u][k] = user[u][k], UNCHANGED <<token, used>>
    PROVE  LatestOf(u, k)'
BY DEF LatestOf, Life

\* Another token is used.
LEMMA LatestUsed ==
    ASSUME UserTypes, NEW u \in User, NEW k \in {"code", "reset"}, LatestOf(u, k),
           user'[u][k] = user[u][k], token' = token,
           NEW n \in 1..Len(token), token[n].user # u \/ token[n].kind # k,
           used' = [used EXCEPT ![n] = @ + 1]
    PROVE  LatestOf(u, k)'
<1>1. used \in Seq(Nat) /\ Len(used) = Len(token)
  BY DEF UserTypes
<1>2. \A m \in 1..Len(token) : m # n => used'[m] = used[m]
  BY <1>1
<1> QED BY <1>2 DEF LatestOf, Life

\* Another one is issued.
LEMMA LatestKept ==
    ASSUME UserTypes, NEW u \in User, NEW k \in {"code", "reset"}, LatestOf(u, k),
           user'[u][k] = user[u][k],
           NEW x \in User, NEW l \in {"code", "reset"}, Issue(l, x), x # u \/ l # k
    PROVE  LatestOf(u, k)'
<1> DEFINE n == user[u][k].value
           t == [kind |-> l, user |-> x, at |-> now]
<1>1. /\ token \in Seq(Issued) /\ used \in Seq(Nat) /\ Len(used) = Len(token) /\ now \in Nat
      /\ user[u] \in Account /\ Len(token) \in Nat
  BY DEF UserTypes
<1>2. t \in Issued /\ t.user = x /\ t.kind = l
  BY <1>1 DEF Issued
<1>3. token' = Append(token, t) /\ used' = Append(used, 0)
  BY DEF Issue
<1> HIDE DEF t
<1>4. /\ Len(token') = Len(token) + 1 /\ token'[Len(token) + 1] = t
      /\ \A m \in 1..Len(token) : token'[m] = token[m] /\ used'[m] = used[m]
  BY <1>1, <1>2, <1>3, AppendProperties
<1> SUFFICES ASSUME n # 0
             PROVE  /\ n \in 1..Len(token') /\ token'[n].kind = k /\ token'[n].user = u
                    /\ used'[n] = 0
                    /\ user'[u][k].expiry = token'[n].at + Life(k)
                    /\ \A m \in n + 1..Len(token') : token'[m].user # u \/ token'[m].kind # k
  BY DEF LatestOf, Life
<1>5. /\ n \in 1..Len(token) /\ token[n].kind = k /\ token[n].user = u /\ used[n] = 0
      /\ user[u][k].expiry = token[n].at + Life(k)
      /\ \A m \in n + 1..Len(token) : token[m].user # u \/ token[m].kind # k
  BY DEF LatestOf
<1>6. ASSUME NEW m \in n + 1..Len(token') PROVE token'[m].user # u \/ token'[m].kind # k
  <2>1. CASE m \in n + 1..Len(token)
    <3>1. m \in 1..Len(token)
      BY <1>1, <1>5, <2>1
    <3> QED BY <1>4, <1>5, <2>1, <3>1
  <2>2. CASE m = Len(token) + 1
    BY <1>2, <1>4, <2>2
  <2> QED BY <1>1, <1>4, <1>5, <2>1, <2>2
<1>7. n \in 1..Len(token')
  BY <1>1, <1>4, <1>5
<1> QED BY <1>4, <1>5, <1>6, <1>7

\* This one is issued.
LEMMA LatestIssued ==
    ASSUME UserAccountsAssumption, UserTypes, NEW u \in User, NEW k \in {"code", "reset"},
           user'[u][k] = Expiring(Len(token) + 1, now + Life(k)), Issue(k, u)
    PROVE  LatestOf(u, k)'
<1> DEFINE n == Len(token) + 1
           t == [kind |-> k, user |-> u, at |-> now]
<1>1. /\ token \in Seq(Issued) /\ used \in Seq(Nat) /\ Len(used) = Len(token) /\ now \in Nat
      /\ Len(token) \in Nat
  BY DEF UserTypes
<1>2. t \in Issued /\ t.user = u /\ t.kind = k /\ t.at = now
  BY <1>1 DEF Issued
<1>3. token' = Append(token, t) /\ used' = Append(used, 0)
  BY DEF Issue
<1> HIDE DEF t
<1>4. Len(token') = n /\ token'[n] = t
  BY <1>1, <1>2, <1>3, AppendProperties
<1>5. used'[n] = 0
  BY <1>1, <1>3, AppendProperties
<1>6. user'[u][k].value = n /\ user'[u][k].expiry = now + Life(k)
  BY DEF Expiring
<1>7. n \in 1..Len(token') /\ \A m \in n + 1..Len(token') : FALSE
  BY <1>1, <1>4
<1> HIDE DEF n
<1> QED BY <1>2, <1>4, <1>5, <1>6, <1>7 DEF LatestOf, Life

\* What becomes of the tokens when a record u is written.
LEMMA LatestWritten ==
    ASSUME UserAccountsAssumption, UserTypes, Latest, NEW u \in User, NEW q,
           user'[u] = q, \A x \in User : x # u => user'[x] = user[x], late \subseteq late',
           \/ TokensKept(u, q)
           \/ \E k \in {"code", "reset"} : TokenUsed(u, q, k) \/ TokenIssued(u, q, k)
    PROVE  Latest' /\ TokensGoodStep
<1>1. CASE TokensKept(u, q)
  <2>1. ASSUME NEW x \in User \ late, NEW k \in {"code", "reset"} PROVE LatestOf(x, k)'
    <3>1. user'[x][k] \in {user[x][k], NoToken}
      BY <1>1 DEF TokensKept
    <3>2. UNCHANGED <<token, used>> /\ LatestOf(x, k)
      BY <1>1, <2>1 DEF TokensKept, Latest
    <3> QED BY <3>1, <3>2, LatestLike, LatestNone
  <2> QED BY <1>1, <2>1 DEF Latest, TokensGoodStep, TokensKept
<1>2. ASSUME NEW k \in {"code", "reset"}, TokenUsed(u, q, k) PROVE Latest' /\ TokensGoodStep
  <2>1. PICK n \in 1..Len(token) :
           /\ token[n].kind = k /\ token[n].user = u /\ Valid(user[u][k], n)
           /\ used' = [used EXCEPT ![n] = @ + 1]
    BY <1>2 DEF TokenUsed
  <2>2. token' = token /\ q[k] = NoToken /\ q[Other(k)] = user[u][Other(k)]
    BY <1>2 DEF TokenUsed
  <2>3. ASSUME NEW x \in User \ late, NEW l \in {"code", "reset"} PROVE LatestOf(x, l)'
    <3>1. LatestOf(x, l)
      BY <2>3 DEF Latest
    <3>2. CASE x = u /\ l = k
      BY <2>2, <3>2, LatestNone
    <3>3. CASE x # u \/ l # k
      <4>1. user'[x][l] = user[x][l]
        BY <2>2, <3>3 DEF Other
      <4> QED BY <2>1, <2>2, <3>1, <3>3, <4>1, LatestUsed
    <3> QED BY <3>2, <3>3
  <2>4. ASSUME NEW m \in 1..Len(token), used'[m] # used[m], token[m].user \notin late
        PROVE  /\ used[m] = 0
               /\ now <= token[m].at + Life(token[m].kind)
               /\ \A i \in m + 1..Len(token) :
                     token[i].user # token[m].user \/ token[i].kind # token[m].kind
    <3>1. used \in Seq(Nat) /\ Len(used) = Len(token)
      BY DEF UserTypes
    <3>2. m = n
      BY <2>1, <2>4, <3>1
    <3>3. LatestOf(u, k)
      BY <2>1, <2>4, <3>2 DEF Latest
    <3> QED BY <2>1, <3>2, <3>3 DEF LatestOf, Valid
  <2> QED BY <2>3, <2>4 DEF Latest, TokensGoodStep
<1>3. ASSUME NEW k \in {"code", "reset"}, TokenIssued(u, q, k) PROVE Latest' /\ TokensGoodStep
  <2>1. /\ q[k] = Expiring(Len(token) + 1, now + Life(k))
        /\ q[Other(k)] \in {user[u][Other(k)], NoToken} /\ Issue(k, u)
    BY <1>3 DEF TokenIssued
  <2>2. ASSUME NEW x \in User \ late, NEW l \in {"code", "reset"} PROVE LatestOf(x, l)'
    <3>1. LatestOf(x, l)
      BY <2>2 DEF Latest
    <3>2. CASE x = u /\ l = k
      BY <2>1, <3>2, LatestIssued
    <3>3. CASE x # u \/ l # k
      <4>1. user'[x][l] \in {user[x][l], NoToken}
        BY <2>1, <3>3 DEF Other
      <4> QED BY <2>1, <3>1, <3>3, <4>1, LatestKept, LatestNone
    <3> QED BY <3>2, <3>3
  <2>3. \A m \in 1..Len(token) : used'[m] = used[m]
    BY <2>1, AppendProperties DEF Issue, UserTypes
  <2> QED BY <2>2, <2>3 DEF Latest, TokensGoodStep
<1> QED BY <1>1, <1>2, <1>3

LEMMA LatestStep ==
    ASSUME UserAccountsAssumption, UserTypes, Served, Latest, [Next]_vars
    PROVE  Latest' /\ TokensGoodStep
<1>1. ASSUME UNCHANGED <<user, token, used>>, late \subseteq late' PROVE Latest' /\ TokensGoodStep
  BY <1>1, LatestLike DEF Latest, TokensGoodStep
<1>2. CASE UNCHANGED vars \/ Tick
  BY <1>1, <1>2 DEF vars, Tick, history
<1>3. ASSUME NEW w \in Worker,
             (\E u \in User : Reading(w, u)) \/ AddUser(w) \/ DeleteOrg(w) \/ ReadUsers(w)
      PROVE  Latest' /\ TokensGoodStep
  BY <1>1, <1>3 DEF Reading, AddUser, DeleteOrg, ReadUsers, history
<1>4. ASSUME NEW w \in Worker, Stop(w) PROVE Latest' /\ TokensGoodStep
  BY <1>1, <1>4 DEF Stop
<1>5. ASSUME NEW w \in Worker, DeleteUsers(w) PROVE Latest' /\ TokensGoodStep
  <2>1. ASSUME NEW u \in User, NEW k \in {"code", "reset"} PROVE user'[u][k] = user[u][k]
    <3>1. user[u] \in Account
      BY DEF UserTypes
    <3>2. [user[u] EXCEPT !.is = "deleted"][k] = user[u][k]
      BY <3>1 DEF Account
    <3> QED BY <1>5, <3>2 DEF DeleteUsers
  <2> QED BY <1>5, <2>1, LatestLike DEF DeleteUsers, history, Latest, TokensGoodStep
<1>6. ASSUME NEW w \in Worker, OpenSession(w) PROVE Latest' /\ TokensGoodStep
  <2>1. CASE UNCHANGED <<user, late>>
    BY <1>1, <1>6, <2>1 DEF OpenSession
  <2>2. CASE /\ user' = [user EXCEPT ![serving[w].user] = [serving[w].rec EXCEPT !.code = NoToken]]
             /\ late' = late \cup {serving[w].user}
    <3>1. ASSUME NEW u \in User \ late', NEW k \in {"code", "reset"} PROVE LatestOf(u, k)'
      <4>1. u \notin late /\ user'[u] = user[u]
        BY <2>2, <3>1 DEF UserTypes
      <4> QED BY <1>6, <4>1, LatestLike DEF Latest, OpenSession
    <3> QED BY <1>6, <3>1 DEF Latest, TokensGoodStep, OpenSession
  <2> QED BY <1>6, <2>1, <2>2 DEF OpenSession
<1>7. ASSUME NEW w \in Worker, serving[w].kind \in Locked, Holds(w), NEW q \in Account,
             Handles(w, q)
      PROVE  Latest' /\ TokensGoodStep
  <2>1. PICK u \in User : u = serving[w].user
    BY <1>7 DEF Holds
  <2>2. /\ user'[u] = q /\ \A x \in User : x # u => user'[x] = user[x]
    BY <1>7, <2>1, SavedOne DEF Handles
  <2> QED BY <1>7, <2>1, <2>2, LatestWritten DEF Handles
<1>8. ASSUME NEW w \in Worker, NEW q \in Account, Adds(w, q) PROVE Latest' /\ TokensGoodStep
  <2>1. PICK u \in User : u = serving[w].user
    BY <1>8 DEF Adds, Served, Serves
  <2>2. /\ user'[u] = q /\ \A x \in User : x # u => user'[x] = user[x]
    BY <1>8, <2>1, SavedOne DEF Adds
  <2>3. TokenIssued(u, q, "reset") /\ late \subseteq late'
    BY <1>8, <2>1 DEF Adds
  <2> QED BY <2>2, <2>3, LatestWritten
<1> QED BY <1>2, <1>3, <1>4, <1>5, <1>6, <1>7, <1>8, StepForms

-----------------------------------------------------------------------------
(* The theorems.                                                           *)

Inv == UserTypes /\ Served /\ DeletedWithUsers /\ Paced /\ Latest

LEMMA InvInit == ASSUME UserAccountsAssumption, Init PROVE Inv
<1>1. UserTypes
  BY UserTypesInit
<1>2. /\ \A w \in Worker : serving[w] = NotServing
      /\ \A u \in User : user[u] \in {New, Unused} /\ fails[u] = <<>>
      /\ org = "on"
  BY DEF Init
<1>3. Served
  BY <1>2, AccountValues DEF Served, Serves, Locked, Deleting
<1>4. DeletedWithUsers
  BY <1>2 DEF DeletedWithUsers
<1>5. ASSUME NEW u \in User PROVE PacedOf(u)
  <2>1. Len(fails[u]) = 0 /\ user[u].count = 0
    BY <1>2, AccountValues
  <2>2. \A i \in 2..Len(fails[u]) : FALSE
    BY <2>1
  <2> HIDE <1>2
  <2> QED BY <2>1, <2>2 DEF PacedOf
<1>6. ASSUME NEW u \in User, NEW k \in {"code", "reset"} PROVE LatestOf(u, k)
  <2>1. user[u][k] = NoToken
    BY <1>2, AccountValues
  <2> QED BY <2>1, AccountValues DEF LatestOf
<1> QED BY <1>1, <1>3, <1>4, <1>5, <1>6 DEF Inv, Latest, Paced

LEMMA InvStep ==
    ASSUME UserAccountsAssumption, Inv, [Next]_vars PROVE Inv' /\ TokensGoodStep
BY UserTypesStep, ServedStep, GoneStep, PacedStep, LatestStep DEF Inv

LEMMA InvHolds == ASSUME UserAccountsAssumption PROVE Spec => []Inv
<1>1. Init => Inv
  BY InvInit
<1>2. Inv /\ [Next]_vars => Inv'
  BY InvStep
<1> QED BY <1>1, <1>2, PTL DEF Spec

\* Every variable of the user accounts keeps its type.
THEOREM UsersTypes == ASSUME UserAccountsAssumption PROVE Spec => []TypeOK
<1>1. Inv => TypeOK
  <2> SUFFICES ASSUME UserTypes PROVE TypeOK
    BY DEF Inv
  <2>1. \A n \in 1..Len(token) : token[n] \in Issued
    BY ElementOfSeq DEF UserTypes
  <2> QED BY <2>1 DEF TypeOK, UserTypes, Issued, Service
<1> QED BY <1>1, InvHolds, PTL

\* Wrong passwords tried at once are all counted, and after every Limit of them none is
\* checked until the pause is over; and an organisation is deleted with its users, except
\* one that a login or a form wrote meanwhile, or if the worker stopped (views/account.py).
THEOREM FailuresArePaced ==
    ASSUME UserAccountsAssumption PROVE Spec => [](FailuresPaced /\ DeletedWithUsers)
<1>1. Inv => FailuresPaced /\ DeletedWithUsers
  BY DEF Inv, Paced, PacedOf, Pause, FailuresPaced
<1> QED BY <1>1, InvHolds, PTL

\* An access code or a link to set a password is accepted once, in time, and only if it is
\* the latest of its kind, whatever other requests are served meanwhile (token_login,
\* reset_password).
THEOREM TokensAreGood == ASSUME UserAccountsAssumption PROVE Spec => TokensGood
<1>1. Inv /\ [Next]_vars => [TokensGoodStep]_vars
  BY InvStep
<1>2. TokensGoodStep => \A n \in 1..Len(token) :
          used'[n] # used[n] /\ token[n].user \notin late =>
              /\ used[n] = 0
              /\ now <= token[n].at + (IF token[n].kind = "code" THEN CodeLife ELSE ResetLife)
              /\ \A m \in n + 1..Len(token) :
                    token[m].user # token[n].user \/ token[m].kind # token[n].kind
  BY DEF TokensGoodStep, Life
<1> QED BY <1>1, <1>2, InvHolds, PTL DEF Spec, TokensGood
================================================================================
