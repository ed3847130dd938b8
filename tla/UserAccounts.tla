----------------------------- MODULE UserAccounts -----------------------------
(***************************************************************************)
(* The user accounts of an organisation (router/jper/views/account.py and  *)
(* class AccUser): logging in by password and access code, resetting a     *)
(* password, adding, editing and deleting users, and deleting the          *)
(* organisation with all its users.                                        *)
(*                                                                         *)
(* Requests are served by concurrent workers.  One that may change a       *)
(* user's record reads it FOR UPDATE: the row is locked until the          *)
(* transaction of the worker ends, and no other worker reads it for update *)
(* meanwhile.  So a request is two steps: the record is read, then the     *)
(* handler decides by what it read and writes.                             *)
(*                                                                         *)
(* Usernames are left out: a unique index keeps them apart.                *)
(***************************************************************************)
EXTENDS Integers, Sequences

CONSTANTS
    User,          \* the records of users, of one organisation
    Existing,      \* those that exist at the beginning
    Browser,
    Worker,
    Direct,        \* users with direct_login: no access code is asked for
    Limit,         \* FAILED_LOGIN_LIMIT
    Sleep,         \* FAILED_LOGIN_SLEEP_SECS
    CodeLife,      \* how long an access code is valid: 5 minutes
    ResetLife,     \* how long a reset token is valid: a week
    MaxClock,      \* bound: the clock
    MaxRequests,   \* bound: requests
    MaxFaults      \* bound: workers that stop dead

NoWorker == "nobody"
NoUser == "no user"

UserAccountsAssumption ==
    /\ Existing \subseteq User /\ Direct \subseteq User
    /\ NoUser \notin User /\ NoWorker \notin Worker /\ Browser # {}
    /\ Limit \in Nat \ {0} /\ Sleep \in Nat /\ CodeLife \in Nat /\ ResetLife \in Nat
    /\ MaxClock \in Nat /\ MaxRequests \in Nat /\ MaxFaults \in Nat

VARIABLES
    now,
    org,         \* the record of the organisation: "on" or "deleted"
    user,        \* table `acc_user`
    lock,        \* the worker in whose transaction a user's row was read for update
    serving,     \* the request a worker is serving, with the record it read
    cookie,      \* the cookie that came with a browser's last access code, or 0
    token,       \* the tokens that were issued (history)
    used,        \* how often each opened a session or reset a password (history)
    fails,       \* when wrong passwords were checked, since the last reset (history)
    late,        \* users that a request added or wrote when the organisation had been
                 \* deleted, or that its deletion stopped short of (history)
    requests, faults

vars == <<now, org, user, lock, serving, cookie, token, used, fails, late, requests, faults>>
history == <<token, used, fails, late>>

Expiring(n, at) == [value |-> n, expiry |-> at]
NoToken == Expiring(0, 0)

\* failed_login_count, last_failed, login_token, reset_token, deleted
Account == [is : {"none", "on", "deleted"}, count : Nat, failed : Nat,
            code : [value : Nat, expiry : Nat], reset : [value : Nat, expiry : Nat]]

Unused == [is |-> "none", count |-> 0, failed |-> 0, code |-> NoToken, reset |-> NoToken]
New == [Unused EXCEPT !.is = "on"]

Kind == {"idle", "login", "code", "session", "ask", "reset", "add", "edit", "delete",
         "delete_org", "delete_users"}

Serving(kind, u, arg, b) ==
    [kind |-> kind, user |-> u, arg |-> arg, browser |-> b,
     rec |-> IF u \in User THEN user[u] ELSE Unused]

Idle(b) == [kind |-> "idle", user |-> NoUser, arg |-> 0, browser |-> b, rec |-> Unused]
AnyBrowser == CHOOSE b \in Browser : TRUE
NotServing == Idle(AnyBrowser)

TypeOK ==
    /\ now \in 0..MaxClock /\ org \in {"on", "deleted"}
    /\ user \in [User -> Account]
    /\ lock \in [User -> Worker \cup {NoWorker}]
    /\ \A w \in Worker :
          /\ serving[w].kind \in Kind /\ serving[w].user \in User \cup {NoUser}
          /\ serving[w].arg \in Nat /\ serving[w].browser \in Browser
          /\ serving[w].rec \in Account
    /\ cookie \in [Browser -> 0..Len(token)]
    /\ \A n \in 1..Len(token) :
          token[n] \in [kind : {"code", "reset"}, user : User, at : Nat]
    /\ Len(used) = Len(token)
    /\ \A u \in User : \A i \in 1..Len(fails[u]) : fails[u][i] \in 0..now
    /\ late \subseteq User
    /\ requests \in 0..MaxRequests /\ faults \in 0..MaxFaults

Init ==
    /\ now = 0 /\ org = "on"
    /\ user = [u \in User |-> IF u \in Existing THEN New ELSE Unused]
    /\ lock = [u \in User |-> NoWorker]
    /\ serving = [w \in Worker |-> NotServing]
    /\ cookie = [b \in Browser |-> 0]
    /\ token = <<>> /\ used = <<>> /\ fails = [u \in User |-> <<>>] /\ late = {}
    /\ requests = 0 /\ faults = 0

Tick ==
    /\ now < MaxClock
    /\ now' = now + 1
    /\ UNCHANGED <<org, user, lock, serving, cookie, history, requests, faults>>

-----------------------------------------------------------------------------
(* Reading.                                                                *)

Request == requests < MaxRequests /\ requests' = requests + 1

Free(w, u) == lock[u] \in {w, NoWorker}

\* Mutant: the record is read without FOR UPDATE.
ReadOnly(w, kind, u, arg, b) ==
    /\ serving[w].kind = "idle"
    /\ user[u].is = "on"
    /\ Request
    /\ lock' = lock
    /\ serving' = [serving EXCEPT ![w] = Serving(kind, u, arg, b)]
    /\ UNCHANGED <<now, org, user, cookie, history, faults>>

\* AccUser.pull(..., for_update=True): a record that is not deleted
Read(w, kind, u, arg, b) ==
    /\ serving[w].kind = "idle"
    /\ user[u].is = "on" /\ Free(w, u)
    /\ Request
    /\ lock' = [lock EXCEPT ![u] = w]
    /\ serving' = [serving EXCEPT ![w] = Serving(kind, u, arg, b)]
    /\ UNCHANGED <<now, org, user, cookie, history, faults>>

\* login: with a password that is wrong (0) or right (1), or a right one and the request
\* to let the user in without an access code, "emergency" (2)
Login(w) ==
    \E u \in User, b \in Browser, right \in 0..2 :
        Read(w, "login", u, right, b)

\* token_login: with a code that has been mailed to the user
TokenLogin(w) ==
    \E b \in Browser, n \in 1..Len(token) :
        token[n].kind = "code" /\ Read(w, "code", token[n].user, n, b)

\* reset_token, admin_reset_token
AskReset(w) == \E u \in User : Read(w, "ask", u, 0, AnyBrowser)

\* reset_password (POST): with a link that has been handed out
ResetPassword(w) ==
    \E n \in 1..Len(token) :
        token[n].kind = "reset" /\ Read(w, "reset", token[n].user, n, AnyBrowser)

\* user_account (POST): with a new password (1) or without (0)
EditUser(w) == \E u \in User, new \in {0, 1} : Read(w, "edit", u, new, AnyBrowser)

DeleteUser(w) == \E u \in User : Read(w, "delete", u, 0, AnyBrowser)

\* add_user_acc, register: the organisation is read, and is there
AddUser(w) ==
    /\ serving[w].kind = "idle"
    /\ org = "on"
    /\ Request
    /\ \E u \in User :
          /\ user[u].is = "none" /\ \A x \in Worker : serving[x].user # u
          /\ serving' = [serving EXCEPT ![w] = Serving("add", u, 0, AnyBrowser)]
    /\ UNCHANGED <<now, org, user, lock, cookie, history, faults>>

\* delete_org_acc: the organisation is marked first, and committed
DeleteOrg(w) ==
    /\ serving[w].kind = "idle"
    /\ org = "on"
    /\ Request
    /\ org' = "deleted"
    /\ serving' = [serving EXCEPT ![w] = [NotServing EXCEPT !.kind = "delete_org"]]
    /\ UNCHANGED <<now, user, lock, cookie, history, faults>>

-----------------------------------------------------------------------------
(* Writing.                                                                *)

\* The transaction of the worker ends, with all its locks.
EndTransaction(w) == lock' = [u \in User |-> IF lock[u] = w THEN NoWorker ELSE lock[u]]

Done(w) == serving' = [serving EXCEPT ![w] = NotServing]

Write(w, rec) == user' = [user EXCEPT ![serving[w].user] = rec] /\ EndTransaction(w)

Issue(kind, u) ==
    /\ token' = Append(token, [kind |-> kind, user |-> u, at |-> now])
    /\ used' = Append(used, 0)

Use(n) == used' = [used EXCEPT ![n] = @ + 1] /\ UNCHANGED token

NoneIssued == UNCHANGED <<token, used>>

Valid(t, n) == t.value = n /\ t.value # 0 /\ now <= t.expiry

\* After every Limit failures the next attempt has to wait, longer each time.
MustWait(rec) ==
    /\ rec.count > 0 /\ rec.count % Limit = 0
    /\ now < rec.failed + (rec.count \div Limit) * Sleep

FinishLogin(w) ==
    LET u == serving[w].user  b == serving[w].browser  rec == serving[w].rec
        wrong == serving[w].arg = 0  bypass == serving[w].arg = 2
        n == Len(token) + 1
    IN /\ serving[w].kind = "login"
       /\ \/ MustWait(rec)
             /\ EndTransaction(w)
             /\ UNCHANGED <<user, cookie, token, used, fails>>
          \/ ~MustWait(rec) /\ wrong
             /\ Write(w, [rec EXCEPT !.count = @ + 1, !.failed = now])
             /\ fails' = [fails EXCEPT ![u] = Append(@, now)]
             /\ NoneIssued /\ UNCHANGED cookie
          \/ ~MustWait(rec) /\ ~wrong
             /\ (u \in Direct \/ bypass)
             /\ Write(w, [rec EXCEPT !.count = 0, !.code = NoToken])
             /\ fails' = [fails EXCEPT ![u] = <<>>]
             /\ NoneIssued /\ UNCHANGED cookie
          \/ ~MustWait(rec) /\ ~wrong
             /\ ~(u \in Direct \/ bypass)
             /\ Write(w, [rec EXCEPT !.count = 0, !.code = Expiring(n, now + CodeLife)])
             /\ fails' = [fails EXCEPT ![u] = <<>>]
             /\ Issue("code", u)
             /\ cookie' = [cookie EXCEPT ![b] = n]
       /\ Done(w)
       /\ UNCHANGED <<now, org, late, requests, faults>>

\* Mutant: the code remains when it has been used.
FinishKeepingCode(w) ==
    LET rec == serving[w].rec  n == serving[w].arg
        good == Valid(rec.code, n) /\ cookie[serving[w].browser] = n
    IN /\ serving[w].kind = "code"
       /\ Write(w, IF good THEN rec ELSE [rec EXCEPT !.code = NoToken])
       /\ IF good THEN Use(n) ELSE NoneIssued
       /\ IF good THEN serving' = [serving EXCEPT ![w].kind = "session"] ELSE Done(w)
       /\ UNCHANGED <<now, org, cookie, fails, late, requests, faults>>

\* The code is void after any attempt; the right one is accepted once, from the
\* browser that asked for it.
FinishTokenLogin(w) ==
    LET rec == serving[w].rec  n == serving[w].arg
        good == Valid(rec.code, n) /\ cookie[serving[w].browser] = n
    IN /\ serving[w].kind = "code"
       /\ Write(w, [rec EXCEPT !.code = NoToken])
       /\ IF good THEN Use(n) ELSE NoneIssued
       /\ IF good THEN serving' = [serving EXCEPT ![w].kind = "session"] ELSE Done(w)
       /\ UNCHANGED <<now, org, cookie, fails, late, requests, faults>>

\* _update_user_acc_n_login looks for the organisation when it has written the user.
\* If it is gone token_login writes the record it read once more, without the lock.
OpenSession(w) ==
    LET u == serving[w].user
        again == [serving[w].rec EXCEPT !.code = NoToken]
    IN /\ serving[w].kind = "session"
       /\ \/ org = "on" /\ UNCHANGED <<user, late>>
          \/ /\ org = "deleted" /\ Free(w, u)
             /\ user' = [user EXCEPT ![u] = again]
             /\ late' = late \cup {u}
       /\ Done(w)
       /\ UNCHANGED <<now, org, lock, cookie, token, used, fails, requests, faults>>

FinishAskReset(w) ==
    LET u == serving[w].user
    IN /\ serving[w].kind = "ask"
       /\ Write(w, [serving[w].rec EXCEPT !.reset =
                        Expiring(Len(token) + 1, now + ResetLife)])
       /\ Issue("reset", u)
       /\ Done(w)
       /\ UNCHANGED <<now, org, cookie, fails, late, requests, faults>>

\* With a token that is not valid the handler returns without ending the
\* transaction; with a form that is not valid it is rolled back.
FinishReset(w) ==
    LET u == serving[w].user  rec == serving[w].rec  n == serving[w].arg
    IN /\ serving[w].kind = "reset"
       /\ \/ ~Valid(rec.reset, n)
             /\ UNCHANGED <<user, lock, token, used, fails>>
          \/ Valid(rec.reset, n)
             /\ EndTransaction(w)
             /\ UNCHANGED <<user, token, used, fails>>
          \/ Valid(rec.reset, n)
             /\ Write(w, [rec EXCEPT !.reset = NoToken, !.count = 0])
             /\ Use(n)
             /\ fails' = [fails EXCEPT ![u] = <<>>]
       /\ Done(w)
       /\ UNCHANGED <<now, org, cookie, late, requests, faults>>

FinishEdit(w) ==
    LET u == serving[w].user  rec == serving[w].rec
        new == serving[w].arg = 1
    IN /\ serving[w].kind = "edit"
       /\ Write(w, IF new THEN [rec EXCEPT !.reset = NoToken, !.count = 0] ELSE rec)
       /\ fails' = IF new THEN [fails EXCEPT ![u] = <<>>] ELSE fails
       /\ NoneIssued
       /\ Done(w)
       /\ UNCHANGED <<now, org, cookie, late, requests, faults>>

FinishDelete(w) ==
    /\ serving[w].kind = "delete"
    /\ Write(w, [serving[w].rec EXCEPT !.is = "deleted"])
    /\ Done(w)
    /\ UNCHANGED <<now, org, cookie, history, requests, faults>>

\* _create_new_user_acc: with a link to set the password
FinishAdd(w) ==
    LET u == serving[w].user
    IN /\ serving[w].kind = "add"
       /\ Write(w, [New EXCEPT !.reset = Expiring(Len(token) + 1, now + ResetLife)])
       /\ Issue("reset", u)
       /\ late' = IF org = "deleted" THEN late \cup {u} ELSE late
       /\ Done(w)
       /\ UNCHANGED <<now, org, cookie, fails, requests, faults>>

ReadUsers(w) ==
    /\ serving[w].kind = "delete_org"
    /\ \A u \in User : user[u].is = "on" => Free(w, u)
    /\ lock' = [u \in User |-> IF user[u].is = "on" THEN w ELSE lock[u]]
    /\ serving' = [serving EXCEPT ![w].kind = "delete_users"]
    /\ UNCHANGED <<now, org, user, cookie, history, requests, faults>>

\* All users of the organisation, in one transaction.
DeleteUsers(w) ==
    /\ serving[w].kind = "delete_users"
    /\ user' = [u \in User |-> IF lock[u] = w /\ user[u].is = "on"
                               THEN [user[u] EXCEPT !.is = "deleted"] ELSE user[u]]
    /\ EndTransaction(w) /\ Done(w)
    /\ UNCHANGED <<now, org, cookie, history, requests, faults>>

\* The worker stops dead, and its transaction is rolled back.
Stop(w) ==
    /\ serving[w].kind # "idle"
    /\ faults < MaxFaults /\ faults' = faults + 1
    /\ late' = IF serving[w].kind \in {"delete_org", "delete_users"}
               THEN late \cup {u \in User : user[u].is = "on"} ELSE late
    /\ EndTransaction(w) /\ Done(w)
    /\ UNCHANGED <<now, org, user, cookie, token, used, fails, requests>>

-----------------------------------------------------------------------------
Begin(w) ==
    \/ Login(w) \/ TokenLogin(w) \/ AskReset(w) \/ ResetPassword(w) \/ EditUser(w)
    \/ DeleteUser(w) \/ AddUser(w) \/ DeleteOrg(w)

Finish(w) ==
    \/ FinishLogin(w) \/ FinishTokenLogin(w) \/ OpenSession(w) \/ FinishAskReset(w)
    \/ FinishReset(w) \/ FinishEdit(w) \/ FinishDelete(w) \/ FinishAdd(w) \/ ReadUsers(w) \/ DeleteUsers(w)

Next == Tick \/ \E w \in Worker : Begin(w) \/ Finish(w) \/ Stop(w)

Spec == Init /\ [][Next]_vars

-----------------------------------------------------------------------------
(***************************************************************************)
(* Properties                                                              *)
(***************************************************************************)

\* views/account.py, login: every wrong password is counted, also when several are tried
\* at once, and after every Limit of them none is checked until the pause is over, which
\* grows.
FailuresPaced ==
    \A u \in User \ late :
        /\ user[u].count = Len(fails[u])
        /\ \A i \in 2..Len(fails[u]) :
              (i - 1) % Limit = 0 =>
                  fails[u][i] - fails[u][i - 1] >= ((i - 1) \div Limit) * Sleep

\* token_login, reset_password: a token is accepted once, while it has not expired, and
\* only if no newer one of its kind was issued to the user.
TokensGood ==
    [][\A n \in 1..Len(token) :
          used'[n] # used[n] /\ token[n].user \notin late =>
              /\ used[n] = 0
              /\ now <= token[n].at + (IF token[n].kind = "code" THEN CodeLife ELSE ResetLife)
              /\ \A m \in n + 1..Len(token) :
                    token[m].user # token[n].user \/ token[m].kind # token[n].kind]_vars

\* views/account.py, delete_org_acc: when an organisation is deleted all its users
\* are and stay so, except one whom a login or a form wrote meanwhile, or if the
\* worker stops.
DeletedWithUsers ==
    org = "deleted" =>
        \/ \E w \in Worker : serving[w].kind \in {"delete_org", "delete_users"}
        \/ \A u \in User \ late : user[u].is # "on"

\* "Need to mark all related AccUser records as deleted also".
NoOrphans ==
    org = "deleted" =>
        \/ \E w \in Worker : serving[w].kind \in {"delete_org", "delete_users"}
        \/ \A u \in User : user[u].is # "on"

\* A worker that serves no request holds no lock.
NoLockLeft == \A u \in User : lock[u] # NoWorker => serving[lock[u]].kind # "idle"
===============================================================================
