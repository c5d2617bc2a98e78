---------------------------- MODULE MCUserSearch ----------------------------
(***************************************************************************)
(* Instances of UserSearch for TLC.  Users u2 and u3 have the same name,   *)
(* so that one search lists both.                                          *)
(***************************************************************************)
EXTENDS UserSearch

CONSTANTS d1, d2, a, b, c, u1, u2, u3

HostOfPages == [p \in Pages |-> IF p = c THEN d2 ELSE d1]
NamesOfUsers == [u \in Users |-> IF u = u1 THEN "kari" ELSE "ola"]
ThreeThenOne == [p \in Pages |-> IF p = a THEN 3 ELSE 1]
OneAccount == [d \in Devices |-> u2]

=============================================================================
