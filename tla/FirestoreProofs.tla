--------------------------- MODULE FirestoreProofs ---------------------------
(***************************************************************************)
(* Lemmas about the operators of module Firestore, used by the proofs of   *)
(* the pages.                                                              *)
(***************************************************************************)
EXTENDS Firestore, QueueLemmas

\* The local view of a document is the base document, or a pending write's.
LEMMA LocalDocumentCases ==
    ASSUME NEW S, NEW base, NEW x, NEW queue \in Seq(S)
    PROVE  \/ /\ \A i \in DOMAIN queue : queue[i].path # x
              /\ LocalDocument(base, queue, x) = base[x]
           \/ \E i \in DOMAIN queue : /\ queue[i].path = x
                                      /\ LocalDocument(base, queue, x) = queue[i].data
<1>. DEFINE writes == {i \in DOMAIN queue : queue[i].path = x}
<1>1. CASE writes = {}
  BY <1>1 DEF LocalDocument
<1>2. CASE writes # {}
  <2>1. Len(queue) \in Nat /\ writes \subseteq 1..Len(queue)
    BY LenProperties
  <2>2. Max(writes) \in writes
    BY <1>2, <2>1, MaxPosition
  <2>. QED  BY <1>2, <2>2 DEF LocalDocument
<1>. QED  BY <1>1, <1>2

\* Write i is the last one for path x in a queue; there is none.
LastWrite(queue, x, i) ==
    /\ i \in DOMAIN queue /\ queue[i].path = x
    /\ \A j \in DOMAIN queue : j > i => queue[j].path # x

NotWritten(queue, x) == \A j \in DOMAIN queue : queue[j].path # x

\* The last write wins, the base document shows where there is none.
LEMMA LastWriteWins ==
    ASSUME NEW S, NEW base, NEW x, NEW queue \in Seq(S)
    PROVE  /\ \/ NotWritten(queue, x)
              \/ \E i \in DOMAIN queue : LastWrite(queue, x, i)
           /\ NotWritten(queue, x) => LocalDocument(base, queue, x) = base[x]
           /\ \A i \in DOMAIN queue :
                 LastWrite(queue, x, i) => LocalDocument(base, queue, x) = queue[i].data
<1>. DEFINE writes == {i \in DOMAIN queue : queue[i].path = x}
<1>1. Len(queue) \in Nat /\ DOMAIN queue = 1..Len(queue) /\ writes \subseteq 1..Len(queue)
  BY LenProperties
<1>2. CASE writes = {}
  BY <1>2 DEF LocalDocument, NotWritten, LastWrite
<1>3. CASE writes # {}
  <2>. DEFINE m == Max(writes)
  <2>1. m \in writes /\ \A y \in writes : y <= m
    BY <1>1, <1>3, MaxPosition
  <2>2. LocalDocument(base, queue, x) = queue[m].data
    BY <1>3 DEF LocalDocument
  <2>. HIDE DEF m
  <2>3. LastWrite(queue, x, m)
    BY <1>1, <2>1 DEF LastWrite
  <2>4. \A i \in DOMAIN queue : LastWrite(queue, x, i) => i = m
    BY <1>1, <2>1 DEF LastWrite
  <2>. QED  BY <1>1, <2>1, <2>2, <2>3, <2>4 DEF NotWritten
<1>. QED  BY <1>2, <1>3

-----------------------------------------------------------------------------
(***************************************************************************)
(* The mutation queue.                                                     *)
(***************************************************************************)

\* The queue of d has lost its first n writes, all of them applied; the
\* backend, and the queues of the other devices, are as before.
Dropped(d, n) ==
    /\ n \in 0..applied[d]
    /\ Len(outbox'[d]) = Len(outbox[d]) - n
    /\ \A j \in DOMAIN outbox'[d] :
          j + n \in DOMAIN outbox[d] /\ outbox'[d][j] = outbox[d][j + n]
    /\ applied'[d] + n <= applied[d]
    /\ \A e \in Devices : e # d => outbox'[e] = outbox[e] /\ applied'[e] = applied[e]
    /\ store' = store

\* A release drops one write, a restart all those that are acknowledged.
LEMMA DropSteps ==
    ASSUME NEW W, outbox \in [Devices -> Seq(W)], \A w \in W : w.path \in Paths,
           SendTypeOK, NEW d \in Devices, ReleaseWrite(d) \/ RestartClient(d)
    PROVE  /\ SendTypeOK' /\ outbox' \in [Devices -> Seq(W)]
           /\ \E n \in 0..acked[d] : Dropped(d, n)
<1>0. /\ acked[d] \in Nat /\ applied[d] \in Nat /\ Len(outbox[d]) \in Nat
      /\ acked[d] <= applied[d] /\ applied[d] <= Len(outbox[d])
      /\ outbox[d] \in Seq(W)
  BY LenProperties DEF SendTypeOK
<1>1. CASE ReleaseWrite(d)
  <2>1. /\ outbox' = [outbox EXCEPT ![d] = Tail(outbox[d])]
        /\ applied' = [applied EXCEPT ![d] = applied[d] - 1]
        /\ acked' = [acked EXCEPT ![d] = acked[d] - 1]
        /\ store' = store /\ acked[d] > 0
    BY <1>1 DEF ReleaseWrite
  <2>2. outbox[d] # <<>>
    BY <1>0, <2>1, EmptySeq
  <2>3. /\ Tail(outbox[d]) \in Seq(W) /\ Len(Tail(outbox[d])) = Len(outbox[d]) - 1
        /\ \A j \in DOMAIN Tail(outbox[d]) :
              j + 1 \in DOMAIN outbox[d] /\ Tail(outbox[d])[j] = outbox[d][j + 1]
    BY <1>0, <2>2, TailElements, HeadTailProperties
  <2>4. learnt' \in [Devices -> SUBSET Paths]
    <3>. DEFINE later == Written(Tail(outbox[d]), applied[d] - 1)
    <3>1. learnt' = [learnt EXCEPT ![d] = learnt[d] \intersect later]
      BY <1>1 DEF ReleaseWrite
    <3>. HIDE DEF later
    <3>. QED  BY <3>1 DEF SendTypeOK
  <2>5. SendTypeOK' /\ outbox' \in [Devices -> Seq(W)]
    <3>1. outbox' \in [Devices -> Seq(W)]
      BY <2>1, <2>3
    <3>2. acked[d] - 1 \in Nat /\ applied[d] - 1 \in Nat
          /\ acked[d] - 1 <= applied[d] - 1
          /\ applied[d] - 1 <= Len(Tail(outbox[d]))
      BY <1>0, <2>1, <2>3
    <3>3. /\ applied' \in [Devices -> Nat] /\ acked' \in [Devices -> Nat]
      BY <2>1, <3>2 DEF SendTypeOK
    <3>4. ASSUME NEW e \in Devices
          PROVE  acked'[e] <= applied'[e] /\ applied'[e] <= Len(outbox'[e])
      <4>1. CASE e = d
        BY <2>1, <3>2, <4>1 DEF SendTypeOK
      <4>2. CASE e # d
        BY <2>1, <4>2 DEF SendTypeOK
      <4>. QED  BY <4>1, <4>2
    <3>. QED  BY <2>4, <3>1, <3>3, <3>4 DEF SendTypeOK
  <2>6. 1 \in 0..acked[d] /\ 1 \in 0..applied[d] /\ applied[d] - 1 + 1 <= applied[d]
    BY <1>0, <2>1
  <2>7. Dropped(d, 1)
    BY <2>1, <2>3, <2>6 DEF Dropped, SendTypeOK
  <2>. QED  BY <2>5, <2>6, <2>7
<1>2. CASE RestartClient(d)
  <2>. DEFINE n == acked[d]
              r == SubSeq(outbox[d], n + 1, Len(outbox[d]))
  <2>1. /\ outbox' = [outbox EXCEPT ![d] = r]
        /\ applied' = [applied EXCEPT ![d] = 0]
        /\ acked' = [acked EXCEPT ![d] = 0]
        /\ learnt' = [learnt EXCEPT ![d] = {}]
        /\ store' = store
    BY <1>2 DEF RestartClient
  <2>2. n \in 0..Len(outbox[d]) /\ n \in 0..applied[d] /\ n \in 0..acked[d]
        /\ 0 + n <= applied[d]
    BY <1>0
  <2>3. /\ r \in Seq(W) /\ Len(r) = Len(outbox[d]) - n
        /\ \A j \in DOMAIN r : j + n \in DOMAIN outbox[d] /\ r[j] = outbox[d][j + n]
    BY <1>0, <2>2, SuffixElements
  <2>. HIDE DEF n, r
  <2>4. Len(r) >= 0
    BY <1>0, <2>2, <2>3
  <2>5. SendTypeOK' /\ outbox' \in [Devices -> Seq(W)]
    BY <1>0, <2>1, <2>3, <2>4 DEF SendTypeOK
  <2>6. Dropped(d, n)
    BY <2>1, <2>2, <2>3 DEF Dropped, SendTypeOK
  <2>. QED  BY <2>2, <2>5, <2>6
<1>. QED  BY <1>1, <1>2

\* The steps of a write on its way leave the queue as it is.
LEMMA SendSteps ==
    ASSUME NEW W, outbox \in [Devices -> Seq(W)],
           SendTypeOK, NEW d \in Devices,
           ApplyWrite(d) \/ AckWrite(d) \/ BreakStream(d)
    PROVE  SendTypeOK' /\ outbox' = outbox
<1>0. /\ acked[d] \in Nat /\ applied[d] \in Nat /\ Len(outbox[d]) \in Nat
      /\ acked[d] <= applied[d] /\ applied[d] <= Len(outbox[d])
  BY LenProperties DEF SendTypeOK
<1>1. CASE ApplyWrite(d)
  <2>. PICK x : learnt' = [learnt EXCEPT ![d] = learnt[d] \ {x}]
    BY <1>1 DEF ApplyWrite
  <2>1. learnt' \in [Devices -> SUBSET Paths]
    BY DEF SendTypeOK
  <2>. QED  BY <1>0, <1>1, <2>1 DEF ApplyWrite, SendTypeOK
<1>2. CASE AckWrite(d)
  BY <1>0, <1>2 DEF AckWrite, SendTypeOK
<1>3. CASE BreakStream(d)
  BY <1>0, <1>3 DEF BreakStream, SendTypeOK
<1>. QED  BY <1>1, <1>2, <1>3

\* Writing more leaves the counts in range.
LEMMA GrowStep ==
    ASSUME NEW W, outbox \in [Devices -> Seq(W)], SendTypeOK, NEW d \in Devices,
           NEW s \in Seq(W), Len(s) >= Len(outbox[d]),
           outbox' = [outbox EXCEPT ![d] = s], UNCHANGED sendVars
    PROVE  SendTypeOK'
<1>1. /\ applied[d] \in Nat /\ applied[d] <= Len(outbox[d])
      /\ Len(outbox[d]) \in Nat /\ Len(s) \in Nat
  BY LenProperties DEF SendTypeOK
<1>2. applied[d] <= Len(s)
  BY <1>1
<1>. QED  BY <1>2 DEF SendTypeOK, sendVars

-----------------------------------------------------------------------------
(***************************************************************************)
(* The types of the client's state, for documents D and queries Q, and how *)
(* the steps of the client keep them.                                      *)
(***************************************************************************)

WritesOf(D) == [path : Paths, data : D]
AnswersOf(D, Q) == [call : Q, docs : SUBSET D]

FsTypeOK(D, Q) ==
    /\ store \in [Paths -> D \union {NoDoc}]
    /\ cache \in [Devices -> [Paths -> D \union {NoDoc}]]
    /\ outbox \in [Devices -> Seq(WritesOf(D))]
    /\ SendTypeOK
    /\ calls \in [Devices -> Seq(Q)]
    /\ replies \in [Devices -> Seq(AnswersOf(D, Q))]

LEMMA PendingTypes ==
    ASSUME NEW D, NEW Q, FsTypeOK(D, Q), NEW d \in Devices, NEW i \in DOMAIN outbox[d]
    PROVE  /\ outbox[d][i] \in WritesOf(D)
           /\ outbox[d][i].path \in Paths /\ outbox[d][i].data \in D
<1>1. outbox[d] \in Seq(WritesOf(D))
  BY DEF FsTypeOK
<1>2. outbox[d][i] \in WritesOf(D)
  BY <1>1, Elements
<1>. QED  BY <1>2 DEF WritesOf

\* A view is made of documents, and so is the answer to a query.
LEMMA ViewAnswer ==
    ASSUME NEW D, NEW Q, NEW base \in [Paths -> D \union {NoDoc}],
           NEW queue \in Seq(WritesOf(D)), NEW q \in Q
    PROVE  /\ LocalView(base, queue) \in [Paths -> D \union {NoDoc}]
           /\ Snapshot(LocalView(base, queue), q) \in AnswersOf(D, Q)
           /\ Snapshot(LocalView(base, queue), q).call = q
<1>. DEFINE view == LocalView(base, queue)
<1>1. \A i \in DOMAIN queue : queue[i].data \in D
  <2>1. \A i \in DOMAIN queue : queue[i] \in WritesOf(D)
    BY Elements
  <2>. QED  BY <2>1 DEF WritesOf
<1>2. ASSUME NEW x \in Paths PROVE LocalDocument(base, queue, x) \in D \union {NoDoc}
  BY <1>1, LocalDocumentCases
<1>3. view \in [Paths -> D \union {NoDoc}]
  BY <1>2 DEF LocalView
<1>. HIDE DEF view
<1>4. \A x \in Matching(view, q) : view[x] \in D
  BY <1>3 DEF Matching
<1>5. Snapshot(view, q) \in AnswersOf(D, Q) /\ Snapshot(view, q).call = q
  BY <1>4 DEF Snapshot, AnswersOf
<1>. QED  BY <1>3, <1>5 DEF view

\* A write on its way from the queue to the backend and to the cache.
LEMMA SyncTypes ==
    ASSUME NEW D, NEW Q, FsTypeOK(D, Q), NEW d \in Devices,
           ApplyWrite(d) \/ AckWrite(d) \/ ReleaseWrite(d) \/ BreakStream(d)
    PROVE  FsTypeOK(D, Q)' /\ UNCHANGED <<calls, replies>>
<1>1. UNCHANGED <<calls, replies>>
  BY DEF ApplyWrite, AckWrite, ReleaseWrite, BreakStream
<1>2. /\ outbox \in [Devices -> Seq(WritesOf(D))] /\ SendTypeOK
      /\ \A w \in WritesOf(D) : w.path \in Paths /\ w.data \in D
      /\ outbox[d] \in Seq(WritesOf(D))
  BY DEF FsTypeOK, WritesOf
<1>3. SendTypeOK' /\ outbox' \in [Devices -> Seq(WritesOf(D))]
  BY <1>2, DropSteps, SendSteps
<1>4. store' \in [Paths -> D \union {NoDoc}]
  <2>1. CASE ApplyWrite(d)
    <3>. DEFINE w == outbox[d][applied[d] + 1]
    <3>1. applied[d] + 1 \in DOMAIN outbox[d]
      BY <1>2, <2>1, LenProperties DEF ApplyWrite, SendTypeOK
    <3>2. w.path \in Paths /\ w.data \in D
      BY <3>1, PendingTypes
    <3>3. store' = [store EXCEPT ![w.path] = w.data]
      BY <2>1 DEF ApplyWrite
    <3>. HIDE DEF w
    <3>. QED  BY <3>2, <3>3 DEF FsTypeOK
  <2>2. CASE AckWrite(d) \/ ReleaseWrite(d) \/ BreakStream(d)
    BY <2>2 DEF AckWrite, ReleaseWrite, BreakStream, FsTypeOK
  <2>. QED  BY <2>1, <2>2
<1>5. cache' \in [Devices -> [Paths -> D \union {NoDoc}]]
  <2>1. CASE ReleaseWrite(d)
    <3>. DEFINE w == Head(outbox[d])
    <3>1. outbox[d] # <<>>
      BY <2>1, <1>2, EmptySeq DEF ReleaseWrite, SendTypeOK
    <3>2. w \in WritesOf(D)
      BY <1>2, <3>1, TailElements
    <3>3. w.path \in Paths /\ w.data \in D \union {NoDoc}
      BY <1>2, <3>2
    <3>4. \/ cache' = [cache EXCEPT ![d] = [cache[d] EXCEPT ![w.path] = w.data]]
          \/ cache' = cache
      BY <2>1 DEF ReleaseWrite
    <3>. HIDE DEF w
    <3>5. cache \in [Devices -> [Paths -> D \union {NoDoc}]]
      BY DEF FsTypeOK
    <3>6. [cache[d] EXCEPT ![w.path] = w.data] \in [Paths -> D \union {NoDoc}]
      BY <3>3, <3>5
    <3>. QED  BY <3>4, <3>5, <3>6
  <2>2. CASE ApplyWrite(d) \/ AckWrite(d) \/ BreakStream(d)
    BY <2>2 DEF AckWrite, ApplyWrite, BreakStream, FsTypeOK
  <2>. QED  BY <2>1, <2>2
<1>. QED  BY <1>1, <1>3, <1>4, <1>5 DEF FsTypeOK

\* Where a call of device e comes from, when none is new.
CallsAreOld(e) ==
    \A j \in DOMAIN calls'[e] : \E k \in DOMAIN calls[e] : calls'[e][j] = calls[e][k]

RepliesAreOld(e) ==
    \A j \in DOMAIN replies'[e] : \E k \in DOMAIN replies[e] :
        replies'[e][j] = replies[e][k]

\* An answer, from the backend or from the cache, is an answer to a call.
LEMMA AnswerTypes ==
    ASSUME NEW D, NEW Q, FsTypeOK(D, Q), NEW d \in Devices, NEW i \in DOMAIN calls[d],
           AnswerFromServer(d, i) \/ AnswerFromCache(d, i)
    PROVE  /\ FsTypeOK(D, Q)' /\ UNCHANGED <<store, outbox, applied, acked>>
           /\ \A e \in Devices : CallsAreOld(e)
           /\ \A e \in Devices : \A j \in DOMAIN replies'[e] :
                 \/ \E k \in DOMAIN replies[e] : replies'[e][j] = replies[e][k]
                 \/ \E k \in DOMAIN calls[e] : replies'[e][j].call = calls[e][k]
<1>1. /\ store \in [Paths -> D \union {NoDoc}] /\ cache[d] \in [Paths -> D \union {NoDoc}]
      /\ cache \in [Devices -> [Paths -> D \union {NoDoc}]]
      /\ outbox[d] \in Seq(WritesOf(D))
      /\ calls \in [Devices -> Seq(Q)] /\ replies \in [Devices -> Seq(AnswersOf(D, Q))]
      /\ calls[d] \in Seq(Q) /\ replies[d] \in Seq(AnswersOf(D, Q))
      /\ calls[d][i] \in Q
  BY Elements DEF FsTypeOK
<1>2. PICK a : /\ Answered(d, i, a)
               /\ a \in AnswersOf(D, Q) /\ a.call = calls[d][i]
  <2>1. CASE AnswerFromServer(d, i)
    BY <1>1, <2>1, ViewAnswer DEF AnswerFromServer
  <2>2. CASE AnswerFromCache(d, i)
    <3>. DEFINE base == cache[d]
                a == Snapshot(LocalView(base, outbox[d]), calls[d][i])
    <3>1. Answered(d, i, a) /\ base \in [Paths -> D \union {NoDoc}]
      BY <1>1, <2>2 DEF AnswerFromCache
    <3>. HIDE DEF base
    <3>2. outbox[d] \in Seq(WritesOf(D)) /\ calls[d][i] \in Q
      BY <1>1
    <3>3. a.call = calls[d][i]
      BY DEF Snapshot
    <3>4. a \in AnswersOf(D, Q)
      BY <3>1, <3>2, ViewAnswer
    <3>. QED  BY <3>1, <3>3, <3>4
  <2>. QED  BY <2>1, <2>2
<1>3. /\ calls' = [calls EXCEPT ![d] = RemoveAt(calls[d], i)]
      /\ replies' = [replies EXCEPT ![d] = Append(replies[d], a)]
      /\ UNCHANGED <<store, outbox, applied, acked>>
  BY <1>2 DEF Answered
<1>4. /\ RemoveAt(calls[d], i) \in Seq(Q)
      /\ \A j \in DOMAIN RemoveAt(calls[d], i) :
            \E k \in DOMAIN calls[d] : RemoveAt(calls[d], i)[j] = calls[d][k]
  BY <1>1, RemoveAtProperties
<1>5. /\ Append(replies[d], a) \in Seq(AnswersOf(D, Q))
      /\ \A j \in DOMAIN Append(replies[d], a) :
            \/ Append(replies[d], a)[j] = a
            \/ \E k \in DOMAIN replies[d] : Append(replies[d], a)[j] = replies[d][k]
  BY <1>1, <1>2, AppendElements
<1>6. cache' \in [Devices -> [Paths -> D \union {NoDoc}]]
  <2>2. CASE AnswerFromServer(d, i)
    <3>. DEFINE sent == Matching(store, calls[d][i])
    <3>1. cache' = [cache EXCEPT ![d] =
                      [x \in Paths |-> IF x \in sent THEN store[x] ELSE cache[d][x]]]
      BY <2>2 DEF AnswerFromServer
    <3>. HIDE DEF sent
    <3>. QED  BY <1>1, <3>1
  <2>3. CASE AnswerFromCache(d, i)
    BY <1>1, <2>3 DEF AnswerFromCache
  <2>. QED  BY <2>2, <2>3
<1>7. SendTypeOK'
  <2>1. learnt' \in [Devices -> SUBSET Paths]
    <3>1. CASE AnswerFromServer(d, i)
      <4>. DEFINE w == Written(outbox[d], applied[d])
                  sent == Matching(store, calls[d][i])
      <4>1. sent \subseteq Paths
        BY DEF Matching
      <4>2. learnt' = [learnt EXCEPT ![d] = learnt[d] \union (sent \intersect w)]
        BY <3>1 DEF AnswerFromServer
      <4>. HIDE DEF w, sent
      <4>. QED  BY <4>1, <4>2 DEF FsTypeOK, SendTypeOK
    <3>2. CASE AnswerFromCache(d, i)
      BY <3>2 DEF AnswerFromCache, FsTypeOK, SendTypeOK
    <3>. QED  BY <3>1, <3>2
  <2>. QED  BY <1>3, <2>1 DEF FsTypeOK, SendTypeOK
<1>8. FsTypeOK(D, Q)'
  BY <1>3, <1>4, <1>5, <1>6, <1>7 DEF FsTypeOK
<1>9. ASSUME NEW e \in Devices
      PROVE  /\ CallsAreOld(e)
             /\ \A j \in DOMAIN replies'[e] :
                 \/ \E k \in DOMAIN replies[e] : replies'[e][j] = replies[e][k]
                 \/ \E k \in DOMAIN calls[e] : replies'[e][j].call = calls[e][k]
  <2>1. CASE e # d
    BY <1>1, <1>3, <2>1 DEF CallsAreOld
  <2>2. CASE e = d
    <3>1. calls'[d] = RemoveAt(calls[d], i) /\ replies'[d] = Append(replies[d], a)
      BY <1>1, <1>3
    <3>2. CallsAreOld(e)
      BY <1>4, <2>2, <3>1 DEF CallsAreOld
    <3>3. ASSUME NEW j \in DOMAIN replies'[e]
          PROVE  \/ \E k \in DOMAIN replies[e] : replies'[e][j] = replies[e][k]
                 \/ \E k \in DOMAIN calls[e] : replies'[e][j].call = calls[e][k]
      BY <1>2, <1>5, <2>2, <3>1
    <3>. QED  BY <3>2, <3>3
  <2>. QED  BY <2>1, <2>2
<1>. QED  BY <1>3, <1>8, <1>9

\* The oldest answer is handed to its callback.
LEMMA DeliverTypes ==
    ASSUME NEW D, NEW Q, FsTypeOK(D, Q), NEW d \in Devices, replies[d] # <<>>
    PROVE  /\ Head(replies[d]) \in AnswersOf(D, Q)
           /\ 1 \in DOMAIN replies[d] /\ Head(replies[d]) = replies[d][1]
           /\ Deliver(d, <<>>) =>
                 /\ calls' = calls
                 /\ replies' \in [Devices -> Seq(AnswersOf(D, Q))]
                 /\ \A e \in Devices : RepliesAreOld(e)
<1>1. /\ calls \in [Devices -> Seq(Q)] /\ replies \in [Devices -> Seq(AnswersOf(D, Q))]
      /\ replies[d] \in Seq(AnswersOf(D, Q)) /\ calls[d] \in Seq(Q)
  BY DEF FsTypeOK
<1>2. /\ Head(replies[d]) \in AnswersOf(D, Q) /\ Tail(replies[d]) \in Seq(AnswersOf(D, Q))
      /\ 1 \in DOMAIN replies[d] /\ Head(replies[d]) = replies[d][1]
      /\ \A j \in DOMAIN Tail(replies[d]) :
            j + 1 \in DOMAIN replies[d] /\ Tail(replies[d])[j] = replies[d][j + 1]
  BY <1>1, TailElements
<1>3. ASSUME Deliver(d, <<>>)
      PROVE  /\ calls' = calls
             /\ replies' \in [Devices -> Seq(AnswersOf(D, Q))]
             /\ \A e \in Devices : RepliesAreOld(e)
  <2>1. /\ replies' = [replies EXCEPT ![d] = Tail(replies[d])]
        /\ calls' = [calls EXCEPT ![d] = calls[d] \o <<>>]
    BY <1>3 DEF Deliver
  <2>2. calls' = calls
    BY <1>1, <2>1, ConcatEmptySeq
  <2>3. ASSUME NEW e \in Devices PROVE RepliesAreOld(e)
    <3>1. CASE e = d
      BY <1>1, <1>2, <2>1, <3>1 DEF RepliesAreOld
    <3>2. CASE e # d
      BY <1>1, <2>1, <3>2 DEF RepliesAreOld
    <3>. QED  BY <3>1, <3>2
  <2>. QED  BY <1>1, <1>2, <2>1, <2>2, <2>3
<1>. QED  BY <1>2, <1>3

\* The client starts again after a kill.
LEMMA RestartTypes ==
    ASSUME NEW D, NEW Q, FsTypeOK(D, Q), NEW d \in Devices, RestartClient(d)
    PROVE  /\ FsTypeOK(D, Q)'
           /\ \A e \in Devices : CallsAreOld(e) /\ RepliesAreOld(e)
           /\ calls'[d] = <<>> /\ replies'[d] = <<>>
<1>1. /\ outbox \in [Devices -> Seq(WritesOf(D))] /\ SendTypeOK
      /\ \A w \in WritesOf(D) : w.path \in Paths
      /\ calls \in [Devices -> Seq(Q)] /\ replies \in [Devices -> Seq(AnswersOf(D, Q))]
  BY DEF FsTypeOK, WritesOf
<1>2. SendTypeOK' /\ outbox' \in [Devices -> Seq(WritesOf(D))]
  BY <1>1, DropSteps
<1>3. /\ calls' = [calls EXCEPT ![d] = <<>>]
      /\ replies' = [replies EXCEPT ![d] = <<>>]
      /\ UNCHANGED <<store, cache>>
  BY DEF RestartClient
<1>4. FsTypeOK(D, Q)'
  BY <1>1, <1>2, <1>3, EmptySeq DEF FsTypeOK
<1>5. ASSUME NEW e \in Devices PROVE CallsAreOld(e) /\ RepliesAreOld(e)
  BY <1>1, <1>3 DEF CallsAreOld, RepliesAreOld
<1>. QED  BY <1>1, <1>3, <1>4, <1>5

=============================================================================
