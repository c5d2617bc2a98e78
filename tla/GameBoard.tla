------------------------------ MODULE GameBoard ------------------------------
(***************************************************************************)
(* What "Start game" promises: the group has a board of games, every user  *)
(* a shelf with the games that user started.  A game is put on the board   *)
(* once, under an id nobody has used, and is never replaced; afterwards    *)
(* the same document is put on the shelf of the user who started it.       *)
(***************************************************************************)
CONSTANTS GameIds, Users, Drafts, NoGame, FirstBoard, FirstShelf

VARIABLES board,  \* board[g]: the game with id g
          shelf   \* shelf[u][g]: the copy of game g kept with user u

GameDoc(g, f) == [gameid |-> g, form |-> f]

Init == board = FirstBoard /\ shelf = FirstShelf

\* A game with the form contents f gets the free id g.
Publish(g, f) ==
    /\ board[g] = NoGame
    /\ board' = [board EXCEPT ![g] = GameDoc(g, f)]
    /\ UNCHANGED shelf

\* User u gets a copy of a published game.
Shelve(u, g) ==
    /\ board[g] # NoGame
    /\ shelf[u][g] = NoGame
    /\ shelf' = [shelf EXCEPT ![u][g] = board[g]]
    /\ UNCHANGED board

Next == \/ \E g \in GameIds, f \in Drafts : Publish(g, f)
        \/ \E u \in Users, g \in GameIds : Shelve(u, g)

Spec == Init /\ [][Next]_<<board, shelf>>

=============================================================================
