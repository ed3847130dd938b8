------------------------- MODULE MCNotificationRouting -------------------------
(***************************************************************************)
(* Instances of NotificationRouting for TLC.                               *)
(***************************************************************************)
EXTENDS NotificationRouting, TLC

CONSTANTS r1, s1, s2, i1, i2, noNote, art, noDoi

\* The first submission and the first harvested item are about the same article.
MCDoiOf == [n \in Note |-> IF n \in {s1, i1} THEN art ELSE noDoi]

\* Some of the notifications have been dealt with before: items were tried and
\* deleted, submissions refused.  What remains is two submissions and an item, or
\* two items.
MCInit ==
    \E gone \in {{i2}, {s1, s2}} :
        /\ row = [n \in Note |-> IF n \in gone THEN "deleted" ELSE "absent"]
        /\ id = [n \in Note |-> IF n \notin gone THEN 0 ELSE IF n = s2 THEN 2 ELSE 1]
        /\ nextId = [k \in Kind |-> IF k = "publisher" /\ s2 \in gone THEN 3 ELSE 1]
        /\ files = {}
        /\ record = [s \in Sub |-> "none"]
        /\ sender = [s \in Sub |-> IF s \in gone THEN "refused" ELSE "new"]
        /\ register = [d \in Doi |-> [seen |-> FALSE, pub |-> FALSE, repos |-> {}]]
        /\ given = [r \in Repo |-> [n \in Note |-> 0]]
        /\ pc = "idle" /\ kind = "publisher"
        /\ scroll = {} /\ cur = NoNote /\ lastId = 0
        /\ packaging = "unbound" /\ repos = {}
        /\ success = FALSE /\ abend = FALSE /\ killed = FALSE
        /\ noPkg = {} /\ withPkg = {}
        /\ seen = gone \cap Item /\ early = {} /\ failed = {} /\ unread = {}
        /\ faults = 0

MCSpec == MCInit /\ [][Next]_vars /\ Fairness

================================================================================
