------------------------------ MODULE MCNewGame ------------------------------
(***************************************************************************)
(* Instances of NewGame for TLC: one connected phone "d1", one that may be *)
(* offline "d2".  Page "a" and "b" run on d1, page "c" on d2.              *)
(***************************************************************************)
EXTENDS NewGame

CONSTANTS d1, d2, a, b, c, u1, u2

HostOfPages == [p \in Pages |-> IF p = c THEN d2 ELSE d1]

\* Each phone its own account; the same account on both; d2 without one.
TwoAccounts == [d \in Devices |-> IF d = d1 THEN u1 ELSE u2]
OneAccount == [d \in Devices |-> u1]
EndedSession == [d \in Devices |-> IF d = d1 THEN u1 ELSE null]

\* d1 may draw the id 1 of the game that exists; d2 draws 3.
ApartDraws == [d \in Devices |-> IF d = d1 THEN {1, 2} ELSE {3}]
\* Both phones may draw every id.
SameDraws == [d \in Devices |-> GameIds]

\* Presses of Start: at most one per page, or two on page c.
OncePerPage == [p \in Pages |-> 1]
TwiceOnC == [p \in Pages |-> IF p = c THEN 2 ELSE 1]

AllPaths == GamePaths \union MirrorPaths

\* Game 1 is on the board.
OneGame == [x \in Paths |-> IF x = GamePath(1)
                            THEN [gameid |-> 1, form |-> EmptyDraft]
                            ELSE NoDoc]

ASSUME ApartAssumption ==
    Draws = ApartDraws => DrawsApart /\ CopiesApart

=============================================================================
