----------------------------- MODULE WriteOrder -----------------------------
(***************************************************************************)
(* What the Firestore client promises about the writes of one device: the  *)
(* writes of a user reach the backend while that user is signed in, in the *)
(* order in which they were made, each of them at least once, and a write  *)
(* is settled only when the backend has applied or refused it.  What was   *)
(* applied but not settled may be applied again, together with everything  *)
(* after it.                                                               *)
(*                                                                         *)
(* todo and done are the unacknowledged part of outbox[d] and the count    *)
(* applied[d] - acked[d] of module Firestore, on which the pages rest.     *)
(***************************************************************************)
EXTENDS Naturals, Sequences

CONSTANTS Keys,     \* the documents
          Values,   \* what a document can hold
          Bad,      \* the writes the backend may refuse
          NoValue   \* no document

VARIABLES todo,  \* the current user's writes that are not settled, oldest first
          away,  \* those of the other user
          done,  \* how many of them the backend has applied this time
          doc    \* doc[k]: what the backend holds at k

vars == <<todo, away, done, doc>>

Init == todo = <<>> /\ away = <<>> /\ done = 0 /\ doc = [k \in Keys |-> NoValue]

\* The application writes value v to document k.
Issue(k, v) ==
    /\ todo' = Append(todo, [key |-> k, value |-> v])
    /\ UNCHANGED <<away, done, doc>>

\* The backend applies the next write.
Apply ==
    /\ done < Len(todo)
    /\ LET w == todo[done + 1] IN doc' = [doc EXCEPT ![w.key] = w.value]
    /\ done' = done + 1
    /\ UNCHANGED <<todo, away>>

\* The oldest write is settled: the backend has it, or will never take it.
Settle == done > 0 /\ todo' = Tail(todo) /\ done' = done - 1 /\ UNCHANGED <<away, doc>>

Refuse ==
    /\ done = 0 /\ todo # <<>> /\ Head(todo).value \in Bad
    /\ todo' = Tail(todo)
    /\ UNCHANGED <<away, done, doc>>

\* The connection breaks: all unsettled writes are sent again.
Forget == done' = 0 /\ UNCHANGED <<todo, away, doc>>

\* The users change places; nothing of one is sent in the name of the other.
ChangeUser == todo' = away /\ away' = todo /\ done' = 0 /\ UNCHANGED doc

\* Somebody else writes document k.
Interfere(k, v) == doc' = [doc EXCEPT ![k] = v] /\ UNCHANGED <<todo, away, done>>

Next ==
    \/ \E k \in Keys, v \in Values : Issue(k, v) \/ Interfere(k, v)
    \/ Apply \/ Settle \/ Refuse \/ Forget \/ ChangeUser

Spec == Init /\ [][Next]_vars

=============================================================================
