------------------------------- MODULE MCLogin -------------------------------
(***************************************************************************)
(* Instances of Login for TLC.                                             *)
(***************************************************************************)
EXTENDS Login

AllUserPaths == {UserPath(u) : u \in Emails}

\* Addresses and names are interchangeable.
Interchangeable == Permutations(Emails) \union Permutations(Names)

=============================================================================
