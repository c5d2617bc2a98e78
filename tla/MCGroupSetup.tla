---------------------------- MODULE MCGroupSetup ----------------------------
(***************************************************************************)
(* Instances of GroupSetup for TLC: NewGroup page "p1" with the Friends    *)
(* pages "f1" and "f2" on phone d1, page "p2" with "f3" on phone d2.       *)
(***************************************************************************)
EXTENDS GroupSetup

CONSTANTS d1, d2, p1, p2, f1, f2, f3, u1, u2

HostOfPages == [p \in Pages |-> IF p \in {p2, f3} THEN d2 ELSE d1]
BelowOfPages == [f \in FriendsPages |-> IF f = f3 THEN p2 ELSE p1]

OnceOnF2 == [f \in FriendsPages |-> IF f = f2 THEN 1 ELSE 0]
TwiceOnD1 == [f \in FriendsPages |-> IF Host[f] = d1 THEN 2 ELSE 0]

OneAccount == [d \in Devices |-> u1]
TwoAccounts == [d \in Devices |-> IF d = d1 THEN u1 ELSE u2]

=============================================================================
