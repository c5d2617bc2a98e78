------------------------------ MODULE Firestore ------------------------------
(***************************************************************************)
(* The document store as the pages of the app use it: the Cloud Firestore  *)
(* client of ios/Pods/FirebaseFirestore, one per device, and the backend   *)
(* they share.                                                             *)
(*                                                                         *)
(* A path is a record [coll, id]: a collection and a document id in it.    *)
(* setData replaces the whole document.  A write goes to the device's      *)
(* mutation queue; the device sees it at once.  The backend applies queued *)
(* writes in order and acknowledges each; what was applied but not yet     *)
(* acknowledged when the write stream breaks or the process dies is sent,  *)
(* and applied, again.  An acknowledged write stays in the queue until the *)
(* device's view of the backend includes it (FSTLocalStore.heldBatch-      *)
(* Results).  Module WriteClient has the machinery behind this.            *)
(*                                                                         *)
(* A one-time read (getDocuments, get) is a call, an answer computed by    *)
(* the client, and the delivery of that answer to the Dart isolate: three  *)
(* separate steps, so an answer may be stale when the page's callback      *)
(* runs.  Answers are delivered in the order in which they were computed   *)
(* (one worker queue, one main queue); calls may be answered in any order. *)
(***************************************************************************)
EXTENDS Naturals, Sequences, SequencesExt

CONSTANTS Devices,  \* the phones
          Flaky,    \* the devices that may lose their connection
          Paths,    \* the document paths the application can name
          NoDoc     \* "no document at this path"

ASSUME FlakyAssumption == Flaky \subseteq Devices

VARIABLES store,    \* store[x]: the document the backend holds at path x
          cache,    \* cache[d][x]: what device d last learnt about path x
          outbox,   \* outbox[d]: the mutation queue of d, oldest write first
          applied,  \* applied[d]: how many of them the backend has applied
          acked,    \* acked[d]: how many of those d knows to be applied
          learnt,   \* learnt[d]: the paths of applied writes of d's queue whose
                    \* cached document is newer than the last of those writes
          calls,    \* calls[d]: reads of d that are not answered yet
          replies   \* replies[d]: answers on their way to the Dart callbacks

sendVars == <<applied, acked, learnt>>
fsVars == <<store, cache, outbox, sendVars, calls, replies>>

(***************************************************************************)
(* Writes.                                                                 *)
(***************************************************************************)

\* queue with one more write: document(path).setData(data).
SetData(queue, path, data) == Append(queue, [path |-> path, data |-> data])

\* The document at path x as seen through a queue of pending writes: the
\* last write wins, the base document shows where there is none.
LocalDocument(base, queue, x) ==
    LET writes == {i \in DOMAIN queue : queue[i].path = x}
    IN  IF writes = {} THEN base[x] ELSE queue[Max(writes)].data

LocalView(base, queue) == [x \in Paths |-> LocalDocument(base, queue, x)]

\* The backend applies the next write of d.
ApplyWrite(d) ==
    /\ applied[d] < Len(outbox[d])
    /\ LET w == outbox[d][applied[d] + 1]
       IN  /\ store' = [store EXCEPT ![w.path] = w.data]
           /\ learnt' = [learnt EXCEPT ![d] = @ \ {w.path}]
    /\ applied' = [applied EXCEPT ![d] = @ + 1]
    /\ UNCHANGED <<cache, outbox, acked, calls, replies>>

\* The acknowledgement of the next applied write reaches d.
AckWrite(d) ==
    /\ acked[d] < applied[d]
    /\ acked' = [acked EXCEPT ![d] = @ + 1]
    /\ UNCHANGED <<store, cache, outbox, applied, learnt, calls, replies>>

\* The paths of the first n writes of a queue.
Written(queue, n) == {queue[i].path : i \in 1 .. n}

\* The oldest acknowledged write leaves the queue for the cache, unless the
\* cache has a newer document.  Where a later write of that path is already
\* applied, learnt does not tell and both are possible.
ReleaseWrite(d) ==
    /\ acked[d] > 0
    /\ LET w == Head(outbox[d])
           later == Written(Tail(outbox[d]), applied[d] - 1)
       IN  /\ \/ w.path \notin learnt[d] /\ cache' = [cache EXCEPT ![d][w.path] = w.data]
              \/ w.path \in learnt[d] \union later /\ UNCHANGED cache
           /\ learnt' = [learnt EXCEPT ![d] = @ \intersect later]
    /\ outbox' = [outbox EXCEPT ![d] = Tail(@)]
    /\ applied' = [applied EXCEPT ![d] = @ - 1]
    /\ acked' = [acked EXCEPT ![d] = @ - 1]
    /\ UNCHANGED <<store, calls, replies>>

\* The write stream of d breaks before some acknowledgements came through;
\* the new one starts with the first write that is not acknowledged.
BreakStream(d) ==
    /\ d \in Flaky
    /\ acked[d] < applied[d]
    /\ applied' = [applied EXCEPT ![d] = acked[d]]
    /\ UNCHANGED <<store, cache, outbox, acked, learnt, calls, replies>>

\* The process on d ends and the client starts again from what is on disk:
\* the cache and the queue.  Acknowledged writes that were still held are
\* dropped without going to the cache.
RestartClient(d) ==
    /\ outbox' = [outbox EXCEPT ![d] = SubSeq(@, acked[d] + 1, Len(@))]
    /\ applied' = [applied EXCEPT ![d] = 0]
    /\ acked' = [acked EXCEPT ![d] = 0]
    /\ learnt' = [learnt EXCEPT ![d] = {}]
    /\ calls' = [calls EXCEPT ![d] = <<>>]
    /\ replies' = [replies EXCEPT ![d] = <<>>]
    /\ UNCHANGED <<store, cache>>

(***************************************************************************)
(* One-time reads.                                                         *)
(***************************************************************************)

\* collection(coll).where(field, isEqualTo: value), asked by a page.
Where(page, coll, field, value) ==
    [page |-> page, coll |-> coll, field |-> field, value |-> value]

\* document(path).get(): a query for one document key.  A document that is
\* missing and one that cannot be had offline both leave the callback with
\* nothing to do, so both are the empty answer.
Get(page, path) == Where(page, path.coll, "documentID", path.id)

\* The paths of a view that a query matches.
Matching(view, q) ==
    {x \in Paths : /\ x.coll = q.coll
                   /\ view[x] # NoDoc
                   /\ IF q.field = "documentID"
                      THEN x.id = q.value
                      ELSE view[x][q.field] = q.value}

Snapshot(view, q) == [call |-> q, docs |-> {view[x] : x \in Matching(view, q)}]

\* Call i of d is answered: it leaves the calls, its answer joins the replies.
Answered(d, i, answer) ==
    /\ calls' = [calls EXCEPT ![d] = RemoveAt(@, i)]
    /\ replies' = [replies EXCEPT ![d] = Append(@, answer)]
    /\ UNCHANGED <<store, outbox, applied, acked>>

\* Connected: the backend's result, overlaid with the device's own pending
\* writes.  What the backend sent stays in the cache.
AnswerFromServer(d, i) ==
    LET q == calls[d][i]
        sent == Matching(store, q)
    IN  /\ Answered(d, i, Snapshot(LocalView(store, outbox[d]), q))
        /\ cache' = [cache EXCEPT ![d] =
                        [x \in Paths |-> IF x \in sent THEN store[x] ELSE @[x]]]
        /\ learnt' = [learnt EXCEPT ![d] =
                        @ \union (sent \intersect Written(outbox[d], applied[d]))]

\* Offline: the same question put to the cache.  The default source of a
\* read falls back to it, and an empty result is a result like any other.
AnswerFromCache(d, i) ==
    /\ d \in Flaky
    /\ Answered(d, i, Snapshot(LocalView(cache[d], outbox[d]), calls[d][i]))
    /\ UNCHANGED <<cache, learnt>>

\* The oldest answer of d is handed to a callback, which issues new reads.
Deliver(d, newCalls) ==
    /\ replies' = [replies EXCEPT ![d] = Tail(@)]
    /\ calls' = [calls EXCEPT ![d] = @ \o newCalls]

\* No read of d is on its way.
Idle(d) == calls[d] = <<>> /\ replies[d] = <<>>

\* Acknowledged writes are applied, applied ones are in the queue.
SendTypeOK ==
    /\ applied \in [Devices -> Nat]
    /\ acked \in [Devices -> Nat]
    /\ learnt \in [Devices -> SUBSET Paths]
    /\ \A d \in Devices : acked[d] <= applied[d] /\ applied[d] <= Len(outbox[d])

\* A device that has never talked to the backend; the backend holds docs.
FirestoreInit(docs) ==
    /\ store = docs
    /\ cache = [d \in Devices |-> [x \in Paths |-> NoDoc]]
    /\ outbox = [d \in Devices |-> <<>>]
    /\ applied = [d \in Devices |-> 0]
    /\ acked = [d \in Devices |-> 0]
    /\ learnt = [d \in Devices |-> {}]
    /\ calls = [d \in Devices |-> <<>>]
    /\ replies = [d \in Devices |-> <<>>]

=============================================================================
