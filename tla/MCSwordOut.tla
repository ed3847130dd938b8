------------------------------ MODULE MCSwordOut ------------------------------
(***************************************************************************)
(* Instances of SwordOut for TLC.                                          *)
(***************************************************************************)
EXTENDS SwordOut, TLC

CONSTANTS r1, r2, noRepo, artA, artB

\* Notification 1 comes with files; the second one about its article is 2.
MCDoiOf == [n \in Note |-> IF n \in {1, 2} THEN artA ELSE artB]

===============================================================================
