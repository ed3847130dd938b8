---------------------------- MODULE OrderedDelivery ----------------------------
(***************************************************************************)
(* What delivery to the repositories promises, whatever happens on the way *)
(* (process_account in router/jper_sword_out/deposit.py: notifications are *)
(* sent in ascending order of their ids): a notification that is routed to *)
(* a repository is dealt with, that is delivered or given up for good, and *)
(* none is dealt with before those with lower ids that were there earlier. *)
(***************************************************************************)
EXTENDS Integers

CONSTANTS Repo, Note

VARIABLES
    routed,     \* the notifications of each repository
    late,       \* those that came after one with a higher id
    handled     \* those that have been dealt with

vars == <<routed, late, handled>>

Init ==
    /\ routed  = [r \in Repo |-> {}]
    /\ late    = [r \in Repo |-> {}]
    /\ handled = [r \in Repo |-> {}]

Route(n, repos) ==
    /\ \A r \in repos : n \notin routed[r]
    /\ routed' = [r \in Repo |-> IF r \in repos THEN routed[r] \cup {n} ELSE routed[r]]
    /\ late' = [r \in Repo |-> IF r \in repos /\ \E m \in routed[r] : m > n
                               THEN late[r] \cup {n} ELSE late[r]]
    /\ UNCHANGED handled

Handle(r, n) ==
    /\ n \in routed[r] \ handled[r]
    /\ \A m \in routed[r] \ late[r] : m < n => m \in handled[r]
    /\ handled' = [handled EXCEPT ![r] = @ \cup {n}]
    /\ UNCHANGED <<routed, late>>

Next ==
    \E n \in Note : \/ \E repos \in SUBSET Repo : Route(n, repos)
                    \/ \E r \in Repo : Handle(r, n)

Spec == Init /\ [][Next]_vars

================================================================================
