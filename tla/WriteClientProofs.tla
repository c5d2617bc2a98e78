-------------------------- MODULE WriteClientProofs --------------------------
(***************************************************************************)
(* The write path of the Firestore client keeps its invariants, for every  *)
(* number of documents, writes and faults and every size of the pipeline.  *)
(***************************************************************************)
EXTENDS WriteClient, QueueLemmas

(***************************************************************************)
(* The inductive invariant.  The queue consists of the batches that are    *)
(* held, those that are in the pipeline, and the rest, in this order; the  *)
(* last acknowledged id and the last id seen are where these parts end.    *)
(***************************************************************************)

Ids == Nat \union {Unknown}

\* Row n of the table is the last one with an id of at most id.
IsRow(batches, id, n) ==
    /\ n \in 0 .. Len(batches)
    /\ \A i \in 1 .. Len(batches) : batches[i].batchID <= id <=> i <= n

\* Batch ids below next grow along the queue.
Increasing(batches, next) ==
    \A i \in 1 .. Len(batches) :
        /\ batches[i].batchID < next
        /\ \A j \in 1 .. Len(batches) : i < j => batches[i].batchID < batches[j].batchID

\* The id behind which the pipeline is filled.
SeenUpTo(seen, ackedID) == IF seen > ackedID THEN seen ELSE ackedID

\* The batches of the queue from position h on that are in the pipeline.
InPipeline(batches, h, pipeline) ==
    /\ h + Len(pipeline) <= Len(batches)
    /\ \A i \in 1 .. Len(pipeline) : pipeline[i] = batches[h + i]

\* The pipeline is a part of the queue, and ends where seen and ackedID say.
Aligned(batches, ackedID, seen, h, pipeline) ==
    /\ ackedID \in Ids /\ seen \in Ids /\ h \in Nat
    /\ pipeline \in Seq(Batches) /\ Len(pipeline) <= MaxPending
    /\ InPipeline(batches, h, pipeline)
    /\ IsRow(batches, SeenUpTo(seen, ackedID), h + Len(pipeline))

QueueInv ==
    /\ Increasing(queue, nextBatchID)
    /\ lastAcked < nextBatchID /\ lastBatchSeen < nextBatchID
    /\ Len(held) <= Len(queue)
    /\ \A i \in 1 .. Len(held) : held[i].batch = queue[i]
    /\ held # <<>> => queue[Len(held)].batchID = lastAcked
    /\ IsRow(queue, lastAcked, Len(held))

PipeInv == Aligned(queue, lastAcked, lastBatchSeen, Len(held), pendingWrites)

\* A queue that is left behind by its user is as good as when it was left.
AwayInv ==
    /\ Increasing(away.queue, nextBatchID)
    /\ away.queue # <<>> => Last(away.queue).batchID >= away.lastAcked
    /\ \A i \in 1 .. Len(away.queue) :
          away.queue[i].batchID <= away.lastAcked =>
              \E j \in 1 .. Len(log) : log[j].value = away.queue[i].value

\* Requests and responses under way are those of the pipeline.
StreamInv ==
    /\ handshake => stream = "Open" /\ Len(down) + Len(up) = Len(pendingWrites)
    /\ ~handshake => Len(down) = 0 /\ Len(up) = 0
    /\ stream \in {"Auth", "Open", "Backoff"} /\ ~handshake => pendingWrites # <<>>
    /\ idle => handshake /\ pendingWrites = <<>>
    /\ \A i \in 1 .. Len(up) : up[i] = pendingWrites[Len(down) + i]

DownInv ==
    /\ \A i \in 1 .. Len(down) :
          IF down[i] = Refused
          THEN i = Len(down) /\ pendingWrites[i].value \in Bad
          ELSE down[i] \in 1 .. Len(log) /\ log[down[i]] = Content(pendingWrites[i])
    /\ \A i, j \in 1 .. Len(down) : i < j /\ down[j] # Refused => down[i] < down[j]

\* Versions grow from the results that are held to the responses under way.
HeldInv ==
    /\ held # <<>> => targets # {}
    /\ \A i \in 1 .. Len(held) :
          /\ held[i].version > snapVersion
          /\ held[i].version \in 1 .. Len(log)
          /\ log[held[i].version] = Content(held[i].batch)
          /\ \A j \in 1 .. Len(held) : i < j => held[i].version < held[j].version
          /\ \A j \in 1 .. Len(down) : down[j] # Refused => held[i].version < down[j]

WatchInv == watch.version <= Len(log)

\* Together with the types and the fate of every write, this is inductive.
IInv ==
    /\ TypeOK
    /\ QueueInv /\ PipeInv /\ AwayInv
    /\ StreamInv /\ DownInv
    /\ HeldInv /\ WatchInv
    /\ NothingLost

-----------------------------------------------------------------------------
(***************************************************************************)
(* The table of batches.                                                   *)
(***************************************************************************)

LEMMA BatchTypes ==
    ASSUME NEW q \in Seq(Batches)
    PROVE  /\ Len(q) \in Nat /\ DOMAIN q = 1 .. Len(q)
           /\ \A i \in 1 .. Len(q) : /\ q[i] \in Batches /\ q[i].batchID \in Nat
                                     /\ q[i].key \in Keys /\ q[i].value \in 1 .. MaxWrites
<1>1. Len(q) \in Nat /\ DOMAIN q = 1 .. Len(q)
  BY LenProperties
<1>2. \A i \in 1 .. Len(q) : q[i] \in Batches
  BY ElementOfSeq
<1>. QED  BY <1>1, <1>2 DEF Batches

\* A row that is where the id belongs is the one that Seek finds.
LEMMA RowIs ==
    ASSUME NEW q \in Seq(Batches), NEW id, NEW n, IsRow(q, id, n)
    PROVE  RowOf(q, id) = n
<1>. DEFINE T == {i \in DOMAIN q : q[i].batchID <= id} \union {0}
<1>1. Len(q) \in Nat /\ DOMAIN q = 1 .. Len(q)
  BY BatchTypes
<1>2. T \subseteq Int
  BY <1>1
<1>3. n \in T /\ \A y \in T : y <= n
  <2>1. n \in 0 .. Len(q) /\ \A i \in 1 .. Len(q) : q[i].batchID <= id <=> i <= n
    BY DEF IsRow
  <2>2. n \in T
    BY <1>1, <2>1
  <2>3. ASSUME NEW y \in T PROVE y <= n
    BY <1>1, <2>1
  <2>. QED  BY <2>2, <2>3
<1>. HIDE DEF T
<1>4. Max(T) = n
  BY <1>2, <1>3, MaxIs
<1>. QED  BY <1>4 DEF RowOf, T

\* In a queue whose ids increase, every id has its row.
LEMMA RowExists ==
    ASSUME NEW q \in Seq(Batches), NEW next, Increasing(q, next), NEW id \in Int
    PROVE  IsRow(q, id, RowOf(q, id))
<1>. DEFINE T == {i \in DOMAIN q : q[i].batchID <= id} \union {0}
            r == RowOf(q, id)
<1>1. /\ Len(q) \in Nat /\ DOMAIN q = 1 .. Len(q)
      /\ \A i \in 1 .. Len(q) : q[i].batchID \in Nat
  BY BatchTypes
<1>2. T \subseteq Int /\ T # {} /\ \A y \in T : y <= Len(q)
  BY <1>1
<1>3. r \in T /\ \A y \in T : y <= r
  <2>1. r = Max(T)
    BY DEF RowOf
  <2>. HIDE DEF T, r
  <2>2. Len(q) \in Int
    BY <1>1
  <2>3. Max(T) \in T /\ \A y \in T : y <= Max(T)
    BY <1>2, <2>2, MaxElement, Zenon
  <2>. QED  BY <2>1, <2>3, Zenon
<1>. HIDE DEF r
<1>4. r \in 0 .. Len(q)
  BY <1>1, <1>3
<1>5. ASSUME NEW i \in 1 .. Len(q) PROVE q[i].batchID <= id <=> i <= r
  <2>1. CASE i <= r
    <3>1. r \in 1 .. Len(q) /\ q[r].batchID <= id
      BY <1>1, <1>3, <2>1
    <3>2. CASE i = r
      BY <2>1, <3>1, <3>2
    <3>3. CASE i < r
      <4>1. q[i].batchID < q[r].batchID
        BY <3>1, <3>3 DEF Increasing
      <4>. QED  BY <1>1, <2>1, <3>1, <4>1
    <3>. QED  BY <1>1, <1>4, <2>1, <3>2, <3>3
  <2>2. CASE q[i].batchID <= id
    <3>1. i \in T
      BY <1>1, <2>2
    <3>. QED  BY <1>3, <2>2, <3>1
  <2>. QED  BY <2>1, <2>2
<1>. QED  BY <1>4, <1>5 DEF IsRow, r

\* Each batch is in the row of its id.
LEMMA RowOfBatch ==
    ASSUME NEW q \in Seq(Batches), NEW next, Increasing(q, next), NEW n \in 1 .. Len(q)
    PROVE  IsRow(q, q[n].batchID, n)
<1>1. Len(q) \in Nat /\ \A i \in 1 .. Len(q) : q[i].batchID \in Nat
  BY BatchTypes
<1>2. ASSUME NEW i \in 1 .. Len(q) PROVE q[i].batchID <= q[n].batchID <=> i <= n
  <2>1. /\ i < n => q[i].batchID < q[n].batchID
        /\ n < i => q[n].batchID < q[i].batchID
    BY DEF Increasing
  <2>2. q[i].batchID \in Nat /\ q[n].batchID \in Nat
    BY <1>1
  <2>3. i < n \/ i = n \/ n < i
    BY <1>1
  <2>. QED  BY <1>1, <2>1, <2>2, <2>3
<1>. QED  BY <1>1, <1>2 DEF IsRow

\* Batches at the beginning of the queue are removed.
LEMMA RemoveOldest ==
    ASSUME NEW q \in Seq(Batches), NEW next, Increasing(q, next),
           NEW n \in 0 .. Len(q), NEW gone \in Seq(Batches), Len(gone) = n,
           \A i \in 1 .. n : gone[i] = q[i]
    PROVE  RemoveBatches(q, gone) = SubSeq(q, n + 1, Len(q))
<1>1. Len(q) \in Nat /\ n \in Nat
  BY BatchTypes
<1>2. CASE n = 0
  <2>1. gone = <<>>
    BY <1>2, EmptySeq
  <2>2. SubSeq(q, 1, Len(q)) = q
    BY SubSeqFull
  <2>. QED  BY <1>2, <2>1, <2>2 DEF RemoveBatches
<1>3. CASE n # 0
  <2>1. gone # <<>>
    BY <1>1, <1>3, EmptySeq
  <2>2. 1 \in 1 .. n /\ n \in 1 .. n /\ 1 \in 1 .. Len(q) /\ n \in 1 .. Len(q)
    BY <1>1, <1>3
  <2>3. Head(gone) = q[1] /\ Last(gone) = q[n]
    BY <2>1, <2>2 DEF Last
  <2>4. RowOf(q, q[1].batchID) = 1 /\ RowOf(q, q[n].batchID) = n
    BY <2>2, RowOfBatch, RowIs
  <2>5. SubSeq(q, 1, 1 - 1) = <<>>
    BY SubSeqEmpty
  <2>6. SubSeq(q, n + 1, Len(q)) \in Seq(Batches)
    <3>1. Len(q) \in n .. Len(q)
      BY <1>1
    <3>. QED  BY <3>1, SliceElements
  <2>7. <<>> \o SubSeq(q, n + 1, Len(q)) = SubSeq(q, n + 1, Len(q))
    BY <2>6, ConcatEmptySeq
  <2>. QED  BY <2>1, <2>3, <2>4, <2>5, <2>7 DEF RemoveBatches, BatchesAfter
<1>. QED  BY <1>2, <1>3

\* One batch is removed.
LEMMA RemoveOne ==
    ASSUME NEW q \in Seq(Batches), NEW next, Increasing(q, next), NEW n \in 1 .. Len(q)
    PROVE  /\ RemoveBatches(q, <<q[n]>>) \in Seq(Batches)
           /\ Len(RemoveBatches(q, <<q[n]>>)) = Len(q) - 1
           /\ \A i \in 1 .. Len(q) - 1 :
                 RemoveBatches(q, <<q[n]>>)[i] = IF i < n THEN q[i] ELSE q[i + 1]
<1>. DEFINE front == SubSeq(q, 1, n - 1)
            back == SubSeq(q, n + 1, Len(q))
<1>1. Len(q) \in Nat
  BY BatchTypes
<1>2. RowOf(q, q[n].batchID) = n
  BY RowOfBatch, RowIs
<1>3. RemoveBatches(q, <<q[n]>>) = front \o back
  <2>1. Head(<<q[n]>>) = q[n] /\ Last(<<q[n]>>) = q[n] /\ <<q[n]>> # <<>>
    BY DEF Last
  <2>. QED  BY <1>2, <2>1 DEF RemoveBatches, BatchesAfter
<1>4. /\ front \in Seq(Batches) /\ Len(front) = n - 1
      /\ \A i \in 1 .. n - 1 : front[i] = q[i]
  <2>1. 0 \in 0 .. Len(q) /\ n - 1 \in 0 .. Len(q) /\ front = SubSeq(q, 0 + 1, n - 1)
    BY <1>1
  <2>2. /\ front \in Seq(Batches) /\ Len(front) = n - 1 - 0
        /\ \A i \in 1 .. n - 1 - 0 : front[i] = q[0 + i]
    BY <2>1, SliceElements
  <2>. HIDE DEF front
  <2>. QED  BY <1>1, <2>2
<1>5. /\ back \in Seq(Batches) /\ Len(back) = Len(q) - n
      /\ \A i \in 1 .. Len(q) - n : back[i] = q[n + i]
  <2>1. n \in 0 .. Len(q) /\ Len(q) \in n .. Len(q)
    BY <1>1
  <2>. QED  BY <2>1, SliceElements
<1>. HIDE DEF front, back
<1>6. /\ front \o back \in Seq(Batches)
      /\ Len(front \o back) = Len(front) + Len(back)
      /\ \A i \in 1 .. Len(front) : (front \o back)[i] = front[i]
      /\ \A i \in 1 .. Len(back) : (front \o back)[Len(front) + i] = back[i]
  <2>1. front \in Seq(Batches) /\ back \in Seq(Batches)
    BY <1>4, <1>5
  <2>. QED  BY <2>1, ConcatElements
<1>7. Len(front) + Len(back) = Len(q) - 1
  BY <1>1, <1>4, <1>5
<1>8. ASSUME NEW i \in 1 .. Len(q) - 1
      PROVE  (front \o back)[i] = IF i < n THEN q[i] ELSE q[i + 1]
  <2>1. CASE i < n
    <3>1. i \in 1 .. n - 1 /\ i \in 1 .. Len(front)
      BY <1>1, <1>4, <2>1
    <3>. QED  BY <1>4, <1>6, <2>1, <3>1
  <2>2. CASE ~(i < n)
    <3>. DEFINE j == i - (n - 1)
    <3>1. j \in 1 .. Len(q) - n /\ Len(front) + j = i /\ n + j = i + 1
      BY <1>1, <1>4, <2>2
    <3>2. (front \o back)[Len(front) + j] = back[j] /\ back[j] = q[n + j]
      <4>. HIDE DEF j
      <4>. QED  BY <1>5, <1>6, <3>1
    <3>. QED  BY <2>2, <3>1, <3>2
  <2>. QED  BY <2>1, <2>2
<1>. QED  BY <1>3, <1>6, <1>7, <1>8

-----------------------------------------------------------------------------
(***************************************************************************)
(* fillWritePipeline.                                                      *)
(***************************************************************************)

\* What is taken from the queue extends the pipeline to the batch that was
\* seen last, or is nothing.
LEMMA TakeBatches ==
    ASSUME NEW q \in Seq(Batches), NEW next, Increasing(q, next),
           NEW ackedID, NEW seen, NEW h, NEW pipeline, Aligned(q, ackedID, seen, h, pipeline),
           NEW new, new = NextBatches(q, SeenUpTo(seen, ackedID), Room(pipeline)),
           NEW seen2, seen2 = IF new = <<>> THEN seen ELSE Last(new).batchID
    PROVE  /\ new \in Seq(Batches) /\ Aligned(q, ackedID, seen2, h, pipeline \o new)
           /\ Len(pipeline \o new) = Len(pipeline) + Len(new)
           /\ \A i \in 1 .. Len(new) : new[i] = (pipeline \o new)[Len(pipeline) + i]
           /\ seen2 = seen \/ \E i \in 1 .. Len(q) : seen2 = q[i].batchID
<1>. DEFINE p == Len(pipeline)
            row == h + p
            n == Room(pipeline)
            end == IF row + n < Len(q) THEN row + n ELSE Len(q)
<1>0. /\ ackedID \in Ids /\ seen \in Ids /\ h \in Nat
      /\ pipeline \in Seq(Batches) /\ Len(pipeline) <= MaxPending
      /\ InPipeline(q, h, pipeline)
      /\ IsRow(q, SeenUpTo(seen, ackedID), h + Len(pipeline))
  BY DEF Aligned
<1>1. /\ Len(q) \in Nat /\ p \in Nat
      /\ \A i \in 1 .. Len(q) : q[i] \in Batches /\ q[i].batchID \in Nat
  BY <1>0, BatchTypes
<1>2. row \in 0 .. Len(q) /\ n \in Nat /\ p + n = MaxPending
  BY <1>0, <1>1, ClientAssumption DEF InPipeline, Room
<1>3. end \in row .. Len(q) /\ end - row <= n
  BY <1>1, <1>2
<1>4. new = SubSeq(q, row + 1, end)
  BY <1>0, RowIs DEF NextBatches
<1>. HIDE DEF end, row, n, p
<1>5. /\ new \in Seq(Batches) /\ Len(new) = end - row
      /\ \A i \in 1 .. end - row : new[i] = q[row + i]
  BY <1>2, <1>3, <1>4, SliceElements
<1>6. /\ pipeline \o new \in Seq(Batches) /\ Len(pipeline \o new) = p + Len(new)
      /\ \A i \in 1 .. p : (pipeline \o new)[i] = pipeline[i]
      /\ \A i \in 1 .. Len(new) : (pipeline \o new)[p + i] = new[i]
  <2>1. new \in Seq(Batches)
    BY <1>5
  <2>. QED  BY <1>0, <2>1, ConcatElements DEF p
<1>7. h + (p + Len(new)) = end /\ p + Len(new) <= MaxPending /\ Len(new) \in Nat
  BY <1>0, <1>1, <1>2, <1>3, <1>5 DEF row
<1>8. \A i \in 1 .. Len(new) : new[i] = (pipeline \o new)[p + i]
  BY <1>6
<1>9. InPipeline(q, h, pipeline \o new)
  <2>1. h + Len(pipeline \o new) <= Len(q)
    BY <1>0, <1>1, <1>3, <1>6, <1>7
  <2>2. ASSUME NEW i \in 1 .. p + Len(new)
        PROVE  (pipeline \o new)[i] = q[h + i]
    <3>1. CASE i <= p
      <4>1. i \in 1 .. p
        BY <1>1, <1>7, <3>1
      <4>. QED  BY <1>0, <1>6, <4>1 DEF InPipeline, p
    <3>2. CASE ~(i <= p)
      <4>. DEFINE j == i - p
      <4>1. j \in 1 .. Len(new) /\ j \in 1 .. end - row /\ p + j = i /\ row + j = h + i
        BY <1>0, <1>1, <1>5, <1>7, <3>2 DEF row
      <4>2. (pipeline \o new)[p + j] = new[j] /\ new[j] = q[row + j]
        <5>. HIDE DEF j
        <5>. QED  BY <1>5, <1>6, <4>1
      <4>. QED  BY <4>1, <4>2
    <3>. QED  BY <3>1, <3>2
  <2>. QED  BY <1>6, <2>1, <2>2 DEF InPipeline
<1>10. CASE new = <<>>
  <2>1. end = row /\ seen2 = seen
    BY <1>1, <1>2, <1>3, <1>5, <1>10, EmptySeq
  <2>2. h + Len(pipeline \o new) = h + Len(pipeline)
    BY <1>6, <1>7, <2>1 DEF row, p
  <2>. QED  BY <1>0, <1>5, <1>6, <1>7, <1>8, <1>9, <2>1, <2>2 DEF Aligned, p
<1>11. CASE new # <<>>
  <2>1. Len(new) \in Nat \ {0}
    BY <1>5, <1>11, EmptySeq
  <2>2. end \in 1 .. Len(q) /\ row < end /\ row + Len(new) = end /\ Len(new) \in 1 .. end - row
    BY <1>1, <1>2, <1>3, <1>5, <2>1
  <2>3. seen2 = q[end].batchID
    BY <1>5, <1>11, <2>2 DEF Last
  <2>4. IsRow(q, q[end].batchID, end)
    BY <2>2, RowOfBatch
  <2>5. ~(q[end].batchID <= SeenUpTo(seen, ackedID))
    BY <1>0, <1>1, <1>2, <2>2 DEF IsRow, row, p
  <2>6. q[end].batchID \in Nat /\ ackedID \in Int /\ seen \in Int
    BY <1>0, <1>1, <2>2 DEF Ids, Unknown
  <2>7. q[end].batchID > ackedID
    BY <2>5, <2>6 DEF SeenUpTo
  <2>8. SeenUpTo(seen2, ackedID) = q[end].batchID
    BY <2>3, <2>7 DEF SeenUpTo
  <2>9. IsRow(q, SeenUpTo(seen2, ackedID), h + Len(pipeline \o new))
    BY <1>6, <1>7, <2>4, <2>8
  <2>10. seen2 \in Ids /\ \E i \in 1 .. Len(q) : seen2 = q[i].batchID
    BY <2>2, <2>3, <2>6 DEF Ids
  <2>. QED  BY <1>0, <1>5, <1>6, <1>7, <1>8, <1>9, <2>9, <2>10 DEF Aligned, p
<1>. QED  BY <1>10, <1>11

States == {"Initial", "Auth", "Open", "Backoff", "Error"}

\* The stream, the requests and m responses fit the pipeline.
Fits(pipeline, state, requests, m) ==
    /\ state \in States /\ requests \in Seq(Batches) /\ m \in Nat
    /\ handshake \in BOOLEAN /\ idle \in BOOLEAN
    /\ state = "Open" /\ handshake => m + Len(requests) = Len(pipeline)
    /\ ~(state = "Open" /\ handshake) => m = 0 /\ Len(requests) = 0
    /\ state \in {"Auth", "Backoff"} => pipeline # <<>>
    /\ state = "Open" /\ ~handshake => pipeline # <<>>
    /\ idle => handshake /\ pipeline = <<>>
    /\ \A i \in 1 .. Len(requests) : requests[i] = pipeline[m + i]

\* What the pipeline, the stream and the requests are like afterwards.
Filled(q, h, ackedID, pipeline) ==
    /\ up' \in Seq(Batches)
    /\ stream' \in States /\ handshake' \in BOOLEAN /\ idle' \in BOOLEAN
    /\ Aligned(q, ackedID, lastBatchSeen', h, pendingWrites')
    /\ lastBatchSeen' = lastBatchSeen \/ \E i \in 1 .. Len(q) : lastBatchSeen' = q[i].batchID
    /\ Len(pipeline) <= Len(pendingWrites')
    /\ \A i \in 1 .. Len(pipeline) : pendingWrites'[i] = pipeline[i]
    /\ StreamInv'

\* The types it comes with.
LEMMA FilledTypes ==
    ASSUME NEW q, NEW h, NEW ackedID, NEW pipeline, Filled(q, h, ackedID, pipeline)
    PROVE  /\ up' \in Seq(Batches) /\ pendingWrites' \in Seq(Batches)
           /\ Len(pendingWrites') <= MaxPending
           /\ lastBatchSeen' \in Nat \union {Unknown}
           /\ stream' \in {"Initial", "Auth", "Open", "Backoff", "Error"}
           /\ handshake' \in BOOLEAN /\ idle' \in BOOLEAN
BY DEF Filled, Aligned, Ids, States

\* fillWritePipeline keeps the pipeline in step with the queue, and the
\* requests in step with the pipeline.
LEMMA FillKeeps ==
    ASSUME NEW q \in Seq(Batches), NEW next, Increasing(q, next), NEW ackedID, NEW h,
           NEW pipeline, Aligned(q, ackedID, lastBatchSeen, h, pipeline),
           NEW state, NEW requests, Fits(pipeline, state, requests, Len(down')),
           FillWritePipeline(q, ackedID, pipeline, state, requests)
    PROVE  Filled(q, h, ackedID, pipeline)
<1>. DEFINE new == NextBatches(q, SeenUpTo(lastBatchSeen, ackedID), Room(pipeline))
            ready == state = "Open" /\ handshake
            sent == IF ready THEN new ELSE <<>>
            all == pipeline \o new
            m == Len(down')
<1>1. /\ pendingWrites' = all
      /\ lastBatchSeen' = IF new = <<>> THEN lastBatchSeen ELSE Last(new).batchID
      /\ stream' = StreamAfter(state, all)
      /\ handshake' = ready
      /\ up' = requests \o sent
      /\ idle' = IdleTimer(state, all, sent)
  BY DEF FillWritePipeline, SeenUpTo
<1>2. /\ new \in Seq(Batches) /\ Aligned(q, ackedID, lastBatchSeen', h, all)
      /\ Len(all) = Len(pipeline) + Len(new)
      /\ \A i \in 1 .. Len(new) : new[i] = all[Len(pipeline) + i]
      /\ lastBatchSeen' = lastBatchSeen \/ \E i \in 1 .. Len(q) : lastBatchSeen' = q[i].batchID
  <2>. HIDE DEF new
  <2>1. new = NextBatches(q, SeenUpTo(lastBatchSeen, ackedID), Room(pipeline))
    BY DEF new
  <2>2. lastBatchSeen' = IF new = <<>> THEN lastBatchSeen ELSE Last(new).batchID
    BY <1>1
  <2>. QED  BY <2>1, <2>2, TakeBatches
<1>. HIDE DEF new, m
<1>3. /\ state \in States /\ requests \in Seq(Batches) /\ m \in Nat
      /\ handshake \in BOOLEAN /\ idle \in BOOLEAN
      /\ ready => m + Len(requests) = Len(pipeline)
      /\ ~ready => m = 0 /\ Len(requests) = 0
      /\ state \in {"Auth", "Backoff"} => pipeline # <<>>
      /\ state = "Open" /\ ~handshake => pipeline # <<>>
      /\ idle => handshake /\ pipeline = <<>>
      /\ \A i \in 1 .. Len(requests) : requests[i] = pipeline[m + i]
  BY DEF Fits, m
<1>4. /\ pipeline \in Seq(Batches) /\ all \in Seq(Batches)
      /\ Len(pipeline) \in Nat /\ Len(new) \in Nat /\ Len(requests) \in Nat
  BY <1>2, <1>3, LenProperties DEF Aligned
<1>5. \A i \in 1 .. Len(pipeline) : all[i] = pipeline[i]
  <2>1. new \in Seq(Batches)
    BY <1>2
  <2>. QED  BY <1>4, <2>1, ConcatElements
<1>. HIDE DEF all
<1>6. ready \in BOOLEAN /\ stream' \in States
  <2>1. StreamAfter(state, all) \in States
    BY <1>3 DEF StreamAfter, States
  <2>. QED  BY <1>1, <2>1
<1>7. sent \in Seq(Batches) /\ Len(sent) = IF ready THEN Len(new) ELSE 0
  BY <1>2, EmptySeq
<1>8. (pipeline = <<>> <=> Len(pipeline) = 0) /\ (all = <<>> <=> Len(all) = 0)
  BY <1>4, EmptySeq
<1>9. /\ up' \in Seq(Batches) /\ Len(up') = Len(requests) + Len(sent)
      /\ \A i \in 1 .. Len(requests) : up'[i] = requests[i]
      /\ \A i \in 1 .. Len(sent) : up'[Len(requests) + i] = sent[i]
  <2>1. requests \in Seq(Batches) /\ sent \in Seq(Batches)
    BY <1>3, <1>7
  <2>. HIDE DEF sent
  <2>. QED  BY <1>1, <2>1, ConcatElements
<1>10. Len(sent) \in Nat /\ Len(up') \in Nat
  BY <1>4, <1>7, <1>9
<1>11. ASSUME NEW i \in 1 .. Len(up') PROVE up'[i] = all[m + i]
  <2>1. CASE i <= Len(requests)
    <3>1. i \in 1 .. Len(requests) /\ m + i \in 1 .. Len(pipeline)
      BY <1>3, <1>4, <1>10, <2>1
    <3>. QED  BY <1>3, <1>5, <1>9, <3>1
  <2>2. CASE ~(i <= Len(requests))
    <3>. DEFINE j == i - Len(requests)
    <3>1. j \in 1 .. Len(sent) /\ Len(requests) + j = i
      BY <1>4, <1>9, <1>10, <2>2
    <3>2. ready /\ sent = new
      BY <1>6, <1>7, <3>1
    <3>3. Len(pipeline) + j = m + i
      <4>1. m + Len(requests) = Len(pipeline)
        BY <1>3, <3>2
      <4>2. m \in Int /\ Len(requests) \in Int /\ i \in Int
        BY <1>3, <1>4, <1>10
      <4>. QED  BY <4>1, <4>2
    <3>. HIDE DEF j, sent
    <3>4. up'[Len(requests) + j] = sent[j]
      BY <1>9, <3>1
    <3>5. new[j] = all[Len(pipeline) + j]
      BY <1>2, <3>1, <3>2
    <3>. QED  BY <3>1, <3>2, <3>3, <3>4, <3>5
  <2>. QED  BY <2>1, <2>2
<1>12. idle' \in BOOLEAN /\ (idle' => ready /\ all = <<>>)
  <2>1. idle' = (state = "Open" /\ (all = <<>> \/ (idle /\ sent = <<>>)))
    BY <1>1 DEF IdleTimer
  <2>2. CASE all = <<>>
    <3>1. pipeline = <<>>
      BY <1>2, <1>4, <1>8, <2>2
    <3>. QED  BY <1>3, <2>1, <2>2, <3>1
  <2>3. CASE all # <<>>
    <3>1. CASE idle /\ sent = <<>> /\ state = "Open"
      <4>1. ready /\ pipeline = <<>> /\ Len(sent) = 0
        BY <1>3, <1>7, <3>1, EmptySeq
      <4>2. Len(all) = 0
        BY <1>2, <1>7, <1>8, <4>1
      <4>. QED  BY <1>8, <2>3, <4>2
    <3>. QED  BY <2>1, <2>3, <3>1
  <2>. QED  BY <2>2, <2>3
<1>13. StreamInv'
  <2>1. handshake' => stream' = "Open" /\ m + Len(up') = Len(all)
    <3>. SUFFICES ASSUME ready
                  PROVE  stream' = "Open" /\ m + Len(up') = Len(all)
      BY <1>1
    <3>1. stream' = "Open"
      BY <1>1 DEF StreamAfter, IsStarted
    <3>2. m + Len(requests) = Len(pipeline) /\ Len(sent) = Len(new)
      BY <1>3, <1>7
    <3>. HIDE DEF ready, sent
    <3>3. m + Len(up') = Len(all)
      <4>1. Len(up') = Len(requests) + Len(sent) /\ Len(all) = Len(pipeline) + Len(new)
        BY <1>2, <1>9
      <4>2. m \in Int /\ Len(requests) \in Int /\ Len(new) \in Int
        BY <1>3, <1>4
      <4>. QED  BY <3>2, <4>1, <4>2
    <3>. QED  BY <3>1, <3>3
  <2>2. ~handshake' => m = 0 /\ Len(up') = 0
    BY <1>1, <1>3, <1>6, <1>7, <1>9
  <2>3. stream' \in {"Auth", "Open", "Backoff"} /\ ~handshake' => all # <<>>
    <3>. SUFFICES ASSUME all = <<>>, ~ready,
                         stream' \in {"Auth", "Open", "Backoff"}
                  PROVE  FALSE
      BY <1>1
    <3>1. pipeline = <<>>
      BY <1>2, <1>4, <1>8
    <3>2. stream' = state
      BY <1>1 DEF StreamAfter
    <3>. QED  BY <1>3, <3>1, <3>2
  <2>4. idle' => handshake' /\ all = <<>>
    BY <1>1, <1>12
  <2>. QED  BY <1>1, <1>11, <2>1, <2>2, <2>3, <2>4 DEF StreamInv, m
<1>14. Len(pipeline) <= Len(all)
  BY <1>2, <1>4
<1>. QED  BY <1>1, <1>2, <1>5, <1>6, <1>9, <1>12, <1>13, <1>14 DEF Filled

-----------------------------------------------------------------------------
(***************************************************************************)
(* Steps of the stream and of the backend, which leave the queue and the   *)
(* pipeline as they are.                                                   *)
(***************************************************************************)

Entries == [key : Keys, value : 0 .. MaxWrites]
Results == [batch : Batches, version : Nat]

LEMMA Lengths ==
    ASSUME TypeOK
    PROVE  /\ Len(queue) \in Nat /\ Len(held) \in Nat /\ Len(pendingWrites) \in Nat
           /\ Len(up) \in Nat /\ Len(down) \in Nat /\ Len(log) \in Nat
           /\ \A i \in 1 .. Len(held) : held[i] \in Results
           /\ \A i \in 1 .. Len(down) : down[i] \in Nat
           /\ \A i \in 1 .. Len(log) : log[i] \in Entries
<1>. USE DEF TypeOK, Entries, Results
<1>1. Len(queue) \in Nat /\ Len(pendingWrites) \in Nat /\ Len(up) \in Nat
  BY LenProperties
<1>2. Len(held) \in Nat /\ \A i \in 1 .. Len(held) : held[i] \in Results
  BY LenProperties, ElementOfSeq
<1>3. Len(down) \in Nat /\ \A i \in 1 .. Len(down) : down[i] \in Nat
  BY LenProperties, ElementOfSeq
<1>4. Len(log) \in Nat /\ \A i \in 1 .. Len(log) : log[i] \in Entries
  BY LenProperties, ElementOfSeq
<1>. QED  BY <1>1, <1>2, <1>3, <1>4

\* Entries stay in the log.
LogKept == \A i \in 1 .. Len(log) : i \in 1 .. Len(log') /\ log'[i] = log[i]

\* Steps that touch only the stream and what is under way on it.
LEMMA QueuesStay ==
    ASSUME IInv, UNCHANGED <<localVars, pendingWrites, lastBatchSeen, written>>,
           TypeOK', LogKept
    PROVE  QueueInv' /\ PipeInv' /\ AwayInv' /\ NothingLost'
<1>1. QueueInv'
  BY DEF IInv, QueueInv, Increasing, IsRow, localVars, diskVars
<1>2. PipeInv'
  BY DEF IInv, PipeInv, localVars, diskVars
<1>3. AwayInv'
  BY DEF IInv, AwayInv, Increasing, localVars, diskVars, LogKept
<1>4. NothingLost'
  <2>1. DOMAIN log = 1 .. Len(log) /\ DOMAIN log' = 1 .. Len(log')
    BY LenProperties DEF IInv, TypeOK
  <2>. QED  BY <2>1 DEF IInv, NothingLost, localVars, diskVars, LogKept
<1>. QED  BY <1>1, <1>2, <1>3, <1>4

\* The token arrives, or the delay is over: a new rpc, nothing under way.
LEMMA StartsKeep == ASSUME IInv, TokenArrives \/ BackoffEnds PROVE IInv'
<1>1. /\ UNCHANGED <<localVars, pendingWrites, lastBatchSeen, written>> /\ log' = log
      /\ UNCHANGED <<targets, handshake, idle, up, down, watch, faults>>
      /\ stream \in {"Auth", "Backoff"} /\ stream' \in {"Auth", "Open"}
  BY DEF TokenArrives, BackoffEnds
<1>2. TypeOK'
  BY <1>1 DEF IInv, TypeOK, localVars, diskVars
<1>3. StreamInv'
  BY <1>1 DEF IInv, StreamInv
<1>4. DownInv' /\ HeldInv' /\ WatchInv'
  BY <1>1 DEF IInv, DownInv, HeldInv, WatchInv, localVars, diskVars
<1>. QED  BY <1>1, <1>2, <1>3, <1>4, QueuesStay DEF IInv, LogKept

\* The handshake is answered: the requests of the whole pipeline go out.
LEMMA HandshakeKeeps == ASSUME IInv, HandshakeCompletes PROVE IInv'
<1>1. /\ UNCHANGED <<localVars, pendingWrites, lastBatchSeen, written>> /\ log' = log
      /\ UNCHANGED <<targets, stream, down, watch, faults>>
      /\ stream = "Open" /\ ~handshake /\ handshake' = TRUE /\ up' = pendingWrites
      /\ idle' = (idle /\ pendingWrites = <<>>)
  BY DEF HandshakeCompletes
<1>2. Len(pendingWrites) \in Nat
  BY Lengths DEF IInv
<1>3. Len(down) = 0 /\ ~idle
  BY <1>1 DEF IInv, StreamInv
<1>4. TypeOK'
  BY <1>1 DEF IInv, TypeOK, localVars, diskVars
<1>5. StreamInv'
  <2>1. ASSUME NEW i \in 1 .. Len(up') PROVE up'[i] = pendingWrites'[Len(down') + i]
    <3>1. Len(down') + i = i
      BY <1>1, <1>2, <1>3
    <3>. QED  BY <1>1, <3>1
  <2>2. Len(down') + Len(up') = Len(pendingWrites')
    BY <1>1, <1>2, <1>3
  <2>3. stream' = "Open" /\ handshake' /\ ~idle'
    BY <1>1, <1>3
  <2>. QED  BY <2>1, <2>2, <2>3 DEF StreamInv
<1>6. DownInv' /\ HeldInv' /\ WatchInv'
  BY <1>1 DEF IInv, DownInv, HeldInv, WatchInv, localVars, diskVars
<1>. QED  BY <1>1, <1>4, <1>5, <1>6, QueuesStay DEF IInv, LogKept

\* closeWithFinalState, after an error or by the idle timer.
LEMMA ClosesKeep == ASSUME IInv, StreamFails \/ IdleCloses PROVE IInv'
<1>1. PICK final \in {"Error", "Initial"} : CloseStream(final)
  BY DEF StreamFails, IdleCloses
<1>2. /\ UNCHANGED <<localVars, pendingWrites, lastBatchSeen, written>> /\ log' = log
      /\ UNCHANGED <<targets, watch>>
      /\ stream' = StreamAfter(final, pendingWrites)
      /\ handshake' = FALSE /\ idle' = FALSE /\ up' = <<>> /\ down' = <<>>
  BY <1>1 DEF CloseStream
<1>3. Len(up') = 0 /\ Len(down') = 0 /\ up' \in Seq(Batches) /\ down' \in Seq(Nat)
  BY <1>2, EmptySeq
<1>4. faults' \in Nat
  BY DEF StreamFails, IdleCloses, IInv, TypeOK
<1>5. /\ stream' \in States
      /\ stream' \in {"Auth", "Open", "Backoff"} => pendingWrites # <<>>
  BY <1>2 DEF StreamAfter, IsStarted, States
<1>6. TypeOK'
  BY <1>2, <1>3, <1>4, <1>5 DEF IInv, TypeOK, localVars, diskVars, States
<1>7. StreamInv' /\ DownInv'
  BY <1>2, <1>3, <1>5 DEF StreamInv, DownInv
<1>8. HeldInv' /\ WatchInv'
  BY <1>2, <1>3 DEF IInv, HeldInv, WatchInv, localVars, diskVars
<1>. QED  BY <1>2, <1>6, <1>7, <1>8, QueuesStay DEF IInv, LogKept

LEMMA LogGrows ==
    ASSUME TypeOK, NEW e \in Entries, log' = Append(log, e)
    PROVE  /\ log' \in Seq(Entries) /\ Len(log') = Len(log) + 1 /\ LogKept
           /\ log'[Len(log')] = e /\ Len(log') \in 1 .. Len(log')
<1>1. log \in Seq(Entries) /\ Len(log) \in Nat
  BY Lengths DEF TypeOK, Entries
<1>2. /\ log' \in Seq(Entries) /\ Len(log') = Len(log) + 1
      /\ \A i \in 1 .. Len(log) : log'[i] = log[i]
      /\ log'[Len(log) + 1] = e
  BY <1>1, AppendProperties
<1>. QED  BY <1>1, <1>2 DEF LogKept

\* The backend answers the first request.
LEMMA AnswerKeeps ==
    ASSUME IInv, Serving, NEW r \in Nat, down' = Append(down, r), up' = Tail(up),
           UNCHANGED <<pendingWrites, stream, handshake, idle>>
    PROVE  /\ StreamInv' /\ down' \in Seq(Nat) /\ up' \in Seq(Batches)
           /\ Len(down') = Len(down) + 1 /\ down'[Len(down')] = r
           /\ \A i \in 1 .. Len(down) : down'[i] = down[i] /\ down[i] # Refused
           /\ Head(up) = pendingWrites[Len(down')] /\ Head(up) \in Batches
<1>1. /\ up \in Seq(Batches) /\ down \in Seq(Nat) /\ up # <<>>
      /\ Len(up) \in Nat \ {0} /\ Len(down) \in Nat
  BY Lengths, EmptySeq DEF IInv, TypeOK, Serving
<1>2. /\ Tail(up) \in Seq(Batches) /\ Len(Tail(up)) = Len(up) - 1
      /\ \A i \in 1 .. Len(Tail(up)) : Tail(up)[i] = up[i + 1]
      /\ Head(up) \in Batches /\ Head(up) = up[1]
  BY <1>1, HeadTailProperties
<1>3. /\ down' \in Seq(Nat) /\ Len(down') = Len(down) + 1
      /\ \A i \in 1 .. Len(down) : down'[i] = down[i]
      /\ down'[Len(down) + 1] = r
  BY <1>1, AppendProperties
<1>4. \A i \in 1 .. Len(down) : down[i] # Refused
  BY DEF Serving, Contains
<1>5. /\ handshake /\ stream = "Open" /\ Len(down) + Len(up) = Len(pendingWrites)
      /\ ~idle
  <2>1. handshake /\ stream = "Open" /\ Len(down) + Len(up) = Len(pendingWrites)
    BY <1>1 DEF IInv, StreamInv
  <2>2. Len(pendingWrites) # 0
    BY <1>1, <2>1
  <2>3. Len(<<>>) = 0
    OBVIOUS
  <2>4. pendingWrites # <<>>
    BY <2>2, <2>3
  <2>. QED  BY <2>1, <2>4 DEF IInv, StreamInv
<1>6. Head(up) = pendingWrites[Len(down) + 1]
  BY <1>1, <1>2 DEF IInv, StreamInv
<1>7. Len(down') + Len(up') = Len(pendingWrites)
  BY <1>1, <1>2, <1>3, <1>5
<1>8. ASSUME NEW i \in 1 .. Len(up') PROVE up'[i] = pendingWrites[Len(down') + i]
  <2>1. i + 1 \in 1 .. Len(up) /\ Len(down) + (i + 1) = Len(down') + i
    BY <1>1, <1>2, <1>3
  <2>2. up[i + 1] = pendingWrites[Len(down) + (i + 1)]
    BY <2>1 DEF IInv, StreamInv
  <2>. QED  BY <1>2, <2>1, <2>2
<1>9. StreamInv'
  BY <1>5, <1>7, <1>8 DEF StreamInv
<1>. QED  BY <1>2, <1>3, <1>4, <1>6, <1>9

LEMMA BackendCommitsKeeps == ASSUME IInv, BackendCommits PROVE IInv'
<1>. DEFINE e == [key |-> Head(up).key, value |-> Head(up).value]
<1>1. /\ UNCHANGED <<localVars, pendingWrites, lastBatchSeen, written>>
      /\ UNCHANGED <<targets, stream, handshake, idle, watch, faults>>
      /\ Serving /\ log' = Append(log, e)
      /\ down' = Append(down, Len(log')) /\ up' = Tail(up)
  BY DEF BackendCommits
<1>2. Head(up) \in Batches
  <2>1. up \in Seq(Batches) /\ up # <<>>
    BY <1>1 DEF IInv, TypeOK, Serving
  <2>. QED  BY <2>1, HeadTailProperties
<1>3. e \in Entries /\ e = Content(Head(up))
  BY <1>2 DEF Batches, Entries, Content
<1>4. /\ Len(log) \in Nat /\ Len(down) \in Nat /\ Len(held) \in Nat
      /\ \A i \in 1 .. Len(down) : down[i] \in Nat
      /\ \A i \in 1 .. Len(held) : held[i].version \in Nat
  BY Lengths DEF IInv, Results
<1>. HIDE DEF e
<1>5. /\ log' \in Seq(Entries) /\ Len(log') = Len(log) + 1 /\ LogKept
      /\ log'[Len(log')] = e /\ Len(log') \in 1 .. Len(log')
  BY <1>1, <1>3, LogGrows DEF IInv
<1>6. /\ StreamInv' /\ down' \in Seq(Nat) /\ up' \in Seq(Batches)
      /\ Len(down') = Len(down) + 1 /\ down'[Len(down')] = Len(log')
      /\ \A i \in 1 .. Len(down) : down'[i] = down[i] /\ down[i] # Refused
      /\ Head(up) = pendingWrites[Len(down')]
  <2>1. Len(log') \in Nat
    BY <1>4, <1>5
  <2>. QED  BY <1>1, <2>1, AnswerKeeps
<1>7. TypeOK'
  BY <1>1, <1>5, <1>6 DEF IInv, TypeOK, localVars, diskVars, Entries
<1>8. ASSUME NEW i \in 1 .. Len(down)
      PROVE  /\ down'[i] = down[i] /\ down[i] # Refused /\ down[i] \in 1 .. Len(log)
             /\ down[i] \in 1 .. Len(log') /\ log'[down[i]] = Content(pendingWrites[i])
             /\ down[i] < Len(log')
  <2>1. down[i] \in 1 .. Len(log) /\ log[down[i]] = Content(pendingWrites[i])
    BY <1>6 DEF IInv, DownInv
  <2>2. down[i] \in 1 .. Len(log') /\ log'[down[i]] = log[down[i]]
    BY <1>5, <2>1 DEF LogKept
  <2>3. down[i] < Len(log')
    BY <1>4, <1>5, <2>1
  <2>. QED  BY <1>6, <2>1, <2>2, <2>3
<1>9. DownInv'
  <2>1. ASSUME NEW i \in 1 .. Len(down')
        PROVE  IF down'[i] = Refused
               THEN i = Len(down') /\ pendingWrites'[i].value \in Bad
               ELSE down'[i] \in 1 .. Len(log') /\ log'[down'[i]] = Content(pendingWrites'[i])
    <3>1. CASE i = Len(down')
      <4>1. down'[i] = Len(log') /\ Len(log') # Refused
        BY <1>4, <1>5, <1>6, <3>1 DEF Refused
      <4>2. log'[down'[i]] = Content(pendingWrites[i])
        BY <1>3, <1>5, <1>6, <3>1, <4>1
      <4>. QED  BY <1>1, <1>5, <4>1, <4>2
    <3>2. CASE i # Len(down')
      <4>1. i \in 1 .. Len(down)
        BY <1>4, <1>6, <3>2
      <4>. QED  BY <1>1, <1>8, <4>1
    <3>. QED  BY <3>1, <3>2
  <2>2. ASSUME NEW i \in 1 .. Len(down'), NEW j \in 1 .. Len(down'),
               i < j, down'[j] # Refused
        PROVE  down'[i] < down'[j]
    <3>1. i \in 1 .. Len(down)
      BY <1>4, <1>6, <2>2
    <3>2. CASE j = Len(down')
      BY <1>6, <1>8, <3>1, <3>2
    <3>3. CASE j # Len(down')
      <4>1. j \in 1 .. Len(down)
        BY <1>4, <1>6, <3>3
      <4>2. down[i] < down[j]
        BY <1>8, <2>2, <3>1, <4>1 DEF IInv, DownInv
      <4>. QED  BY <1>8, <3>1, <4>1, <4>2
    <3>. QED  BY <3>2, <3>3
  <2>. QED  BY <2>1, <2>2 DEF DownInv
<1>10. HeldInv'
  <2>0. UNCHANGED <<held, targets, snapVersion>>
    BY <1>1 DEF localVars, diskVars
  <2>1. held # <<>> => targets # {}
    BY DEF IInv, HeldInv
  <2>2. ASSUME NEW i \in 1 .. Len(held)
        PROVE  /\ held[i].version > snapVersion
               /\ held[i].version \in 1 .. Len(log')
               /\ log'[held[i].version] = Content(held[i].batch)
               /\ \A j \in 1 .. Len(held) : i < j => held[i].version < held[j].version
               /\ \A j \in 1 .. Len(down') : down'[j] # Refused => held[i].version < down'[j]
    <3>1. /\ held[i].version > snapVersion
          /\ held[i].version \in 1 .. Len(log)
          /\ log[held[i].version] = Content(held[i].batch)
          /\ \A j \in 1 .. Len(held) : i < j => held[i].version < held[j].version
          /\ \A j \in 1 .. Len(down) : down[j] # Refused => held[i].version < down[j]
      BY DEF IInv, HeldInv
    <3>2. held[i].version \in 1 .. Len(log') /\ log'[held[i].version] = log[held[i].version]
      BY <1>5, <3>1 DEF LogKept
    <3>3. held[i].version < Len(log')
      BY <1>4, <1>5, <3>1
    <3>4. ASSUME NEW j \in 1 .. Len(down'), down'[j] # Refused
          PROVE  held[i].version < down'[j]
      <4>1. CASE j = Len(down')
        BY <1>6, <3>3, <4>1
      <4>2. CASE j # Len(down')
        <5>1. j \in 1 .. Len(down)
          BY <1>4, <1>6, <4>2
        <5>. QED  BY <1>8, <3>1, <5>1
      <4>. QED  BY <4>1, <4>2
    <3>. QED  BY <3>1, <3>2, <3>4
  <2>. QED  BY <2>0, <2>1, <2>2 DEF HeldInv
<1>11. WatchInv'
  BY <1>1, <1>4, <1>5 DEF IInv, WatchInv, TypeOK
<1>. QED  BY <1>1, <1>5, <1>6, <1>7, <1>9, <1>10, <1>11, QueuesStay DEF IInv

LEMMA BackendRefusesKeeps == ASSUME IInv, BackendRefuses PROVE IInv'
<1>1. /\ UNCHANGED <<localVars, pendingWrites, lastBatchSeen, written>> /\ log' = log
      /\ UNCHANGED <<targets, stream, handshake, idle, watch, faults>>
      /\ Serving /\ Head(up).value \in Bad
      /\ down' = Append(down, Refused) /\ up' = Tail(up)
  BY DEF BackendRefuses
<1>2. Len(down) \in Nat
  BY Lengths DEF IInv
<1>3. /\ StreamInv' /\ down' \in Seq(Nat) /\ up' \in Seq(Batches)
      /\ Len(down') = Len(down) + 1 /\ down'[Len(down')] = Refused
      /\ \A i \in 1 .. Len(down) : down'[i] = down[i] /\ down[i] # Refused
      /\ Head(up) = pendingWrites[Len(down')]
  <2>1. Refused \in Nat
    BY DEF Refused
  <2>. QED  BY <1>1, <2>1, AnswerKeeps
<1>4. TypeOK'
  BY <1>1, <1>3 DEF IInv, TypeOK, localVars, diskVars
<1>5. ASSUME NEW i \in 1 .. Len(down')
      PROVE  i = Len(down') \/ i \in 1 .. Len(down)
  BY <1>2, <1>3
<1>6. DownInv'
  <2>1. ASSUME NEW i \in 1 .. Len(down')
        PROVE  IF down'[i] = Refused
               THEN i = Len(down') /\ pendingWrites'[i].value \in Bad
               ELSE down'[i] \in 1 .. Len(log') /\ log'[down'[i]] = Content(pendingWrites'[i])
    <3>1. CASE i = Len(down')
      BY <1>1, <1>3, <3>1
    <3>2. CASE i \in 1 .. Len(down)
      BY <1>1, <1>3, <3>2 DEF IInv, DownInv
    <3>. QED  BY <1>5, <3>1, <3>2
  <2>2. ASSUME NEW i \in 1 .. Len(down'), NEW j \in 1 .. Len(down'),
               i < j, down'[j] # Refused
        PROVE  down'[i] < down'[j]
    <3>1. j \in 1 .. Len(down)
      BY <1>3, <1>5, <2>2
    <3>2. i \in 1 .. Len(down)
      BY <1>2, <2>2, <3>1
    <3>. QED  BY <1>3, <2>2, <3>1, <3>2 DEF IInv, DownInv
  <2>. QED  BY <2>1, <2>2 DEF DownInv
<1>7. HeldInv'
  <2>0. UNCHANGED <<held, targets, snapVersion>>
    BY <1>1 DEF localVars, diskVars
  <2>1. ASSUME NEW i \in 1 .. Len(held), NEW j \in 1 .. Len(down'), down'[j] # Refused
        PROVE  held[i].version < down'[j]
    BY <1>3, <1>5, <2>1 DEF IInv, HeldInv
  <2>. QED  BY <1>1, <2>0, <2>1 DEF IInv, HeldInv
<1>8. WatchInv'
  BY <1>1 DEF IInv, WatchInv
<1>. QED  BY <1>1, <1>3, <1>4, <1>6, <1>7, <1>8, QueuesStay DEF IInv, LogKept

LEMMA OtherWritesKeeps == ASSUME IInv, NEW k \in Keys, OtherWrites(k) PROVE IInv'
<1>. DEFINE e == [key |-> k, value |-> Other]
<1>1. /\ UNCHANGED <<localVars, pendingWrites, lastBatchSeen, written>>
      /\ UNCHANGED <<targets, stream, handshake, idle, up, down, watch, faults>>
      /\ log' = Append(log, e)
  BY DEF OtherWrites, pipeVars
<1>2. e \in Entries
  BY ClientAssumption DEF Entries, Other
<1>. HIDE DEF e
<1>3. Len(log) \in Nat
  BY Lengths DEF IInv
<1>4. log' \in Seq(Entries) /\ Len(log') = Len(log) + 1 /\ LogKept
  BY <1>1, <1>2, LogGrows DEF IInv
<1>5. TypeOK'
  BY <1>1, <1>4 DEF IInv, TypeOK, localVars, diskVars, Entries
<1>6. StreamInv'
  BY <1>1 DEF IInv, StreamInv
<1>7. DownInv'
  BY <1>1, <1>4 DEF IInv, DownInv, LogKept
<1>8. HeldInv'
  <2>1. UNCHANGED <<held, targets, snapVersion, down>>
    BY <1>1 DEF localVars, diskVars
  <2>. QED  BY <1>4, <2>1 DEF IInv, HeldInv, LogKept
<1>9. WatchInv'
  BY <1>1, <1>3, <1>4 DEF IInv, WatchInv, TypeOK
<1>. QED  BY <1>1, <1>4, <1>5, <1>6, <1>7, <1>8, <1>9, QueuesStay DEF IInv

\* The watch stream is told something, or a page starts to listen.
LEMMA WatchKeeps ==
    ASSUME IInv, BackendNotifies \/ \E k \in Keys : Listen(k)
    PROVE  IInv'
<1>1. /\ UNCHANGED <<localVars, pendingWrites, lastBatchSeen, written>> /\ log' = log
      /\ UNCHANGED <<stream, handshake, idle, up, down, faults>>
  BY DEF BackendNotifies, Listen, pipeVars
<1>2. /\ targets' \subseteq Keys /\ (targets # {} => targets' # {})
      /\ watch' \in [version : Nat, keys : SUBSET Keys] /\ watch'.version <= Len(log)
  <2>1. CASE BackendNotifies
    <3>1. targets' = targets /\ watch' = [version |-> Len(log), keys |-> targets]
      BY <2>1 DEF BackendNotifies
    <3>2. Len(log) \in Nat /\ targets \subseteq Keys
      BY Lengths DEF IInv, TypeOK
    <3>. QED  BY <3>1, <3>2
  <2>2. ASSUME NEW k \in Keys, Listen(k)
        PROVE  /\ targets' \subseteq Keys /\ (targets # {} => targets' # {})
               /\ watch' = watch
    BY <2>2 DEF Listen, IInv, TypeOK
  <2>. QED  BY <2>1, <2>2 DEF IInv, TypeOK, WatchInv
<1>3. TypeOK'
  BY <1>1, <1>2 DEF IInv, TypeOK, localVars, diskVars
<1>4. StreamInv' /\ DownInv'
  BY <1>1 DEF IInv, StreamInv, DownInv
<1>5. HeldInv' /\ WatchInv'
  <2>1. UNCHANGED <<held, snapVersion>>
    BY <1>1 DEF localVars, diskVars
  <2>. QED  BY <1>1, <1>2, <2>1 DEF IInv, HeldInv, WatchInv
<1>. QED  BY <1>1, <1>3, <1>4, <1>5, QueuesStay DEF IInv, LogKept

-----------------------------------------------------------------------------
(***************************************************************************)
(* Write.                                                                  *)
(***************************************************************************)

LEMMA InQueues ==
    ASSUME NEW q \in Seq(Batches), NEW a \in Seq(Batches), NEW n
    PROVE  (\E b \in Range(q \o a) : b.value = n) <=>
           \/ \E i \in 1 .. Len(q) : q[i].value = n
           \/ \E i \in 1 .. Len(a) : a[i].value = n
<1>1. Range(q \o a) = Range(q) \union Range(a)
  BY RangeConcatenation
<1>2. Range(q) = {q[i] : i \in 1 .. Len(q)} /\ Range(a) = {a[i] : i \in 1 .. Len(a)}
  BY RangeEquality
<1>. QED  BY <1>1, <1>2

\* Write n is in one of the queues or in the log.
Kept(q, a, entries, n) ==
    \/ \E i \in 1 .. Len(q) : q[i].value = n
    \/ \E i \in 1 .. Len(a) : a[i].value = n
    \/ \E i \in 1 .. Len(entries) : entries[i].value = n

LEMMA KeptBefore ==
    ASSUME IInv, NEW n \in (1 .. written) \ Bad
    PROVE  Kept(queue, away.queue, log, n)
<1>. DEFINE a == away.queue
<1>1. /\ queue \in Seq(Batches) /\ a \in Seq(Batches)
      /\ DOMAIN log = 1 .. Len(log)
  BY LenProperties DEF IInv, TypeOK
<1>2. \/ \E b \in Range(queue \o a) : b.value = n
      \/ \E i \in DOMAIN log : log[i].value = n
  BY DEF IInv, NothingLost
<1>. HIDE DEF a
<1>3. (\E b \in Range(queue \o a) : b.value = n) <=>
      \/ \E i \in 1 .. Len(queue) : queue[i].value = n
      \/ \E i \in 1 .. Len(a) : a[i].value = n
  <2>1. queue \in Seq(Batches) /\ a \in Seq(Batches)
    BY <1>1
  <2>. QED  BY <2>1, InQueues
<1>4. Kept(queue, a, log, n)
  BY <1>1, <1>2, <1>3 DEF Kept
<1>. QED  BY <1>4 DEF a

LEMMA KeptAfter ==
    ASSUME TypeOK', \A n \in (1 .. written') \ Bad : Kept(queue', away'.queue, log', n)
    PROVE  NothingLost'
<1>. DEFINE q == queue'
            a == away'.queue
<1>1. q \in Seq(Batches) /\ a \in Seq(Batches) /\ DOMAIN log' = 1 .. Len(log')
  BY LenProperties DEF TypeOK
<1>2. \A n : (\E b \in Range(q \o a) : b.value = n) <=>
            \/ \E i \in 1 .. Len(q) : q[i].value = n
            \/ \E i \in 1 .. Len(a) : a[i].value = n
  <2>1. q \in Seq(Batches) /\ a \in Seq(Batches)
    BY <1>1
  <2>. HIDE DEF q, a
  <2>. QED  BY <2>1, InQueues
<1>3. ASSUME NEW n \in (1 .. written') \ Bad
      PROVE  \/ \E b \in Range(q \o a) : b.value = n
             \/ \E i \in DOMAIN log' : log'[i].value = n
  <2>1. Kept(q, a, log', n)
    OBVIOUS
  <2>. HIDE DEF q, a
  <2>. QED  BY <1>1, <1>2, <2>1 DEF Kept
<1>. QED  BY <1>3 DEF NothingLost

\* What the invariant says of the pipeline when it is filled as it stands.
LEMMA StreamFits ==
    ASSUME IInv
    PROVE  Fits(pendingWrites, stream, up, Len(down))
<1>1. Len(up) \in Nat /\ Len(down) \in Nat /\ Len(pendingWrites) \in Nat
  BY Lengths DEF IInv
<1>2. stream \in States /\ up \in Seq(Batches) /\ handshake \in BOOLEAN /\ idle \in BOOLEAN
  BY DEF IInv, TypeOK, States
<1>. QED  BY <1>1, <1>2 DEF IInv, StreamInv, Fits

\* Responses under way stay those of the pipeline when it grows.
LEMMA DownStays ==
    ASSUME IInv, down' = down, log' = log,
           \A i \in 1 .. Len(pendingWrites) : pendingWrites'[i] = pendingWrites[i]
    PROVE  DownInv'
<1>1. Len(up) \in Nat /\ Len(down) \in Nat /\ Len(pendingWrites) \in Nat
  BY Lengths DEF IInv
<1>2. \A i \in 1 .. Len(down) : i \in 1 .. Len(pendingWrites)
  <2>1. handshake \in BOOLEAN
    BY DEF IInv, TypeOK
  <2>. QED  BY <1>1, <2>1 DEF IInv, StreamInv
<1>3. \A i \in 1 .. Len(down) : pendingWrites'[i] = pendingWrites[i]
  BY <1>2
<1>. QED  BY <1>3 DEF IInv, DownInv

LEMMA WriteKeeps == ASSUME IInv, NEW k \in Keys, Write(k) PROVE IInv'
<1>. DEFINE b == [batchID |-> nextBatchID, key |-> k, value |-> written + 1]
            h == Len(held)
<1>1. /\ written < MaxWrites /\ written' = written + 1
      /\ queue' = Append(queue, b) /\ nextBatchID' = nextBatchID + 1
      /\ FillWritePipeline(queue', lastAcked, pendingWrites, stream, up)
      /\ UNCHANGED <<lastAcked, away, held, cache, targets, snapVersion, down, watch, log, faults>>
  BY DEF Write
<1>2. /\ b \in Batches /\ nextBatchID \in Nat /\ written \in Nat
      /\ lastAcked \in Int /\ lastBatchSeen \in Int /\ queue \in Seq(Batches)
  BY <1>1, ClientAssumption DEF IInv, TypeOK, Batches, Unknown
<1>3. b.batchID = nextBatchID /\ b.value = written + 1
  OBVIOUS
<1>. HIDE DEF b
<1>4. /\ queue' \in Seq(Batches) /\ Len(queue') = Len(queue) + 1
      /\ \A i \in 1 .. Len(queue) : queue'[i] = queue[i]
      /\ queue'[Len(queue) + 1] = b /\ Len(queue) \in Nat /\ h \in Nat
  BY <1>1, <1>2, AppendProperties, Lengths DEF IInv
<1>5. \A i \in 1 .. Len(queue') : i = Len(queue) + 1 \/ i \in 1 .. Len(queue)
  BY <1>4
<1>6. \A i \in 1 .. Len(queue) : queue[i].batchID \in Nat /\ queue[i].batchID < nextBatchID
  BY <1>2, BatchTypes DEF IInv, QueueInv, Increasing
<1>7. Increasing(queue', nextBatchID')
  <2>1. ASSUME NEW i \in 1 .. Len(queue')
        PROVE  queue'[i].batchID < nextBatchID'
    BY <1>1, <1>2, <1>3, <1>4, <1>5, <1>6
  <2>2. ASSUME NEW i \in 1 .. Len(queue'), NEW j \in 1 .. Len(queue'), i < j
        PROVE  queue'[i].batchID < queue'[j].batchID
    <3>1. i \in 1 .. Len(queue)
      BY <1>4, <2>2
    <3>2. CASE j = Len(queue) + 1
      BY <1>3, <1>4, <1>6, <3>1, <3>2
    <3>3. CASE j \in 1 .. Len(queue)
      BY <1>4, <2>2, <3>1, <3>3 DEF IInv, QueueInv, Increasing
    <3>. QED  BY <1>5, <3>2, <3>3
  <2>. QED  BY <2>1, <2>2 DEF Increasing
<1>8. ASSUME NEW id \in Int, id < nextBatchID, NEW n, IsRow(queue, id, n)
      PROVE  IsRow(queue', id, n)
  <2>1. n \in 0 .. Len(queue') /\ n \in 0 .. Len(queue)
    BY <1>4, <1>8 DEF IsRow
  <2>2. ASSUME NEW i \in 1 .. Len(queue') PROVE queue'[i].batchID <= id <=> i <= n
    <3>1. CASE i = Len(queue) + 1
      <4>1. ~(i <= n)
        BY <1>4, <2>1, <3>1
      <4>2. ~(nextBatchID <= id)
        BY <1>2, <1>8
      <4>. QED  BY <1>3, <1>4, <3>1, <4>1, <4>2
    <3>2. CASE i \in 1 .. Len(queue)
      BY <1>4, <1>8, <3>2 DEF IsRow
    <3>. QED  BY <1>5, <3>1, <3>2
  <2>. QED  BY <2>1, <2>2 DEF IsRow
<1>9. Aligned(queue', lastAcked, lastBatchSeen, h, pendingWrites)
  <2>1. Aligned(queue, lastAcked, lastBatchSeen, h, pendingWrites)
    BY DEF IInv, PipeInv
  <2>2. SeenUpTo(lastBatchSeen, lastAcked) \in Int /\ SeenUpTo(lastBatchSeen, lastAcked) < nextBatchID
    BY <1>2 DEF IInv, QueueInv, SeenUpTo
  <2>3. IsRow(queue', SeenUpTo(lastBatchSeen, lastAcked), h + Len(pendingWrites))
    BY <1>8, <2>1, <2>2 DEF Aligned
  <2>4. InPipeline(queue', h, pendingWrites)
    <3>1. InPipeline(queue, h, pendingWrites) /\ Len(pendingWrites) \in Nat
      BY <2>1, Lengths DEF Aligned, IInv
    <3>2. h + Len(pendingWrites) <= Len(queue')
      BY <1>4, <3>1 DEF InPipeline
    <3>3. ASSUME NEW i \in 1 .. Len(pendingWrites) PROVE pendingWrites[i] = queue'[h + i]
      <4>1. h + i \in 1 .. Len(queue) /\ pendingWrites[i] = queue[h + i]
        BY <1>4, <3>1 DEF InPipeline
      <4>. QED  BY <1>4, <4>1
    <3>. QED  BY <3>2, <3>3 DEF InPipeline
  <2>. QED  BY <2>1, <2>3, <2>4 DEF Aligned
<1>10. Filled(queue', h, lastAcked, pendingWrites)
  <2>1. Fits(pendingWrites, stream, up, Len(down'))
    BY <1>1, StreamFits
  <2>. QED  BY <1>1, <1>4, <1>7, <1>9, <2>1, FillKeeps
<1>11. TypeOK'
  <2>1. TypeOK
    BY DEF IInv
  <2>. QED  BY <1>1, <1>2, <1>4, <1>10, <2>1, FilledTypes DEF TypeOK
<1>12. QueueInv'
  <2>1. lastAcked' < nextBatchID'
    BY <1>1, <1>2 DEF IInv, QueueInv
  <2>2. lastBatchSeen' < nextBatchID'
    <3>1. lastBatchSeen' = lastBatchSeen \/ \E i \in 1 .. Len(queue') : lastBatchSeen' = queue'[i].batchID
      BY <1>10 DEF Filled
    <3>2. lastBatchSeen < nextBatchID'
      BY <1>1, <1>2 DEF IInv, QueueInv
    <3>. QED  BY <1>7, <3>1, <3>2 DEF Increasing
  <2>3. Len(held') <= Len(queue')
    BY <1>1, <1>4 DEF IInv, QueueInv
  <2>4. ASSUME NEW i \in 1 .. Len(held) PROVE i \in 1 .. Len(queue) /\ held[i].batch = queue'[i]
    BY <1>4 DEF IInv, QueueInv
  <2>5. held # <<>> => queue'[Len(held)].batchID = lastAcked
    <3>1. held # <<>> => Len(held) \in 1 .. Len(held)
      BY <1>4, EmptySeq DEF IInv, TypeOK
    <3>. QED  BY <1>4, <2>4, <3>1 DEF IInv, QueueInv
  <2>6. IsRow(queue', lastAcked, h)
    BY <1>2, <1>8 DEF IInv, QueueInv
  <2>. QED  BY <1>1, <1>7, <2>1, <2>2, <2>3, <2>4, <2>5, <2>6 DEF QueueInv
<1>13. PipeInv'
  BY <1>1, <1>10 DEF PipeInv, Filled
<1>14. AwayInv'
  <2>1. away.queue \in Seq(Batches)
    BY DEF IInv, TypeOK
  <2>2. \A i \in 1 .. Len(away.queue) : away.queue[i].batchID \in Nat
    BY <2>1, BatchTypes
  <2>3. Increasing(away.queue, nextBatchID')
    <3>1. Increasing(away.queue, nextBatchID)
      BY DEF IInv, AwayInv
    <3>2. ASSUME NEW i \in 1 .. Len(away.queue) PROVE away.queue[i].batchID < nextBatchID'
      <4>1. away.queue[i].batchID \in Nat /\ away.queue[i].batchID < nextBatchID
        BY <2>2, <3>1 DEF Increasing
      <4>. QED  BY <1>1, <1>2, <4>1
    <3>. QED  BY <3>1, <3>2 DEF Increasing
  <2>. QED  BY <1>1, <2>3 DEF IInv, AwayInv
<1>15. StreamInv' /\ DownInv'
  BY <1>1, <1>10, DownStays DEF Filled
<1>16. HeldInv' /\ WatchInv'
  BY <1>1 DEF IInv, HeldInv, WatchInv
<1>17. NothingLost'
  <2>1. ASSUME NEW n \in (1 .. written') \ Bad PROVE Kept(queue', away'.queue, log', n)
    <3>1. CASE n = written + 1
      <4>1. Len(queue) + 1 \in 1 .. Len(queue')
        BY <1>4
      <4>. QED  BY <1>3, <1>4, <3>1, <4>1 DEF Kept
    <3>2. CASE n # written + 1
      <4>1. n \in (1 .. written) \ Bad
        BY <1>1, <1>2, <3>2
      <4>2. Kept(queue, away.queue, log, n)
        BY <4>1, KeptBefore
      <4>3. \A i \in 1 .. Len(queue) : i \in 1 .. Len(queue')
        BY <1>4
      <4>. QED  BY <1>1, <1>4, <4>2, <4>3 DEF Kept
    <3>. QED  BY <3>1, <3>2
  <2>. QED  BY <1>11, <2>1, KeptAfter
<1>. QED  BY <1>11, <1>12, <1>13, <1>14, <1>15, <1>16, <1>17 DEF IInv

-----------------------------------------------------------------------------
(***************************************************************************)
(* Responses: the write is acknowledged, and held or released.             *)
(***************************************************************************)

\* The queue without its oldest n batches.
LEMMA DropOldest ==
    ASSUME NEW q \in Seq(Batches), NEW next, Increasing(q, next), NEW n \in 0 .. Len(q),
           NEW r, r = SubSeq(q, n + 1, Len(q))
    PROVE  /\ r \in Seq(Batches) /\ Len(r) = Len(q) - n
           /\ \A i \in 1 .. Len(r) : n + i \in 1 .. Len(q) /\ r[i] = q[n + i]
           /\ Increasing(r, next)
           /\ \A id, m : IsRow(q, id, m) /\ n <= m => IsRow(r, id, m - n)
<1>1. Len(q) \in Nat
  BY BatchTypes
<1>2. Len(q) \in n .. Len(q)
  BY <1>1
<1>3. r \in Seq(Batches) /\ Len(r) = Len(q) - n /\ \A i \in 1 .. Len(q) - n : r[i] = q[n + i]
  BY <1>2, SliceElements
<1>4. \A i \in 1 .. Len(r) : n + i \in 1 .. Len(q) /\ r[i] = q[n + i]
  BY <1>1, <1>3
<1>5. Increasing(r, next)
  <2>1. ASSUME NEW i \in 1 .. Len(r) PROVE r[i].batchID < next
    BY <1>4 DEF Increasing
  <2>2. ASSUME NEW i \in 1 .. Len(r), NEW j \in 1 .. Len(r), i < j
        PROVE  r[i].batchID < r[j].batchID
    <3>1. n + i < n + j
      BY <1>1, <1>3, <2>2
    <3>. QED  BY <1>4, <3>1 DEF Increasing
  <2>. QED  BY <2>1, <2>2 DEF Increasing
<1>6. ASSUME NEW id, NEW m, IsRow(q, id, m), n <= m PROVE IsRow(r, id, m - n)
  <2>1. m \in 0 .. Len(q) /\ \A i \in 1 .. Len(q) : q[i].batchID <= id <=> i <= m
    BY <1>6 DEF IsRow
  <2>2. m - n \in 0 .. Len(r)
    BY <1>1, <1>3, <1>6, <2>1
  <2>3. ASSUME NEW i \in 1 .. Len(r) PROVE r[i].batchID <= id <=> i <= m - n
    <3>1. n + i <= m <=> i <= m - n
      BY <1>1, <1>3, <2>1
    <3>. QED  BY <1>4, <2>1, <3>1
  <2>. QED  BY <2>2, <2>3 DEF IsRow
<1>. QED  BY <1>3, <1>4, <1>5, <1>6

\* The first write of the pipeline is the oldest one that is not
\* acknowledged.
LEMMA OldestInPipeline ==
    ASSUME IInv, pendingWrites # <<>>
    PROVE  LET b == Head(pendingWrites)
               h == Len(held)
           IN  /\ h \in Nat /\ h + 1 \in 1 .. Len(queue)
               /\ b \in Batches /\ b = queue[h + 1] /\ b = pendingWrites[1]
               /\ IsRow(queue, b.batchID, h + 1)
               /\ b.batchID \in Nat /\ b.batchID > lastAcked /\ b.batchID < nextBatchID
               /\ Tail(pendingWrites) \in Seq(Batches)
               /\ Len(Tail(pendingWrites)) = Len(pendingWrites) - 1
               /\ Len(pendingWrites) \in Nat \ {0}
               /\ \A i \in 1 .. Len(pendingWrites) - 1 :
                     Tail(pendingWrites)[i] = pendingWrites[i + 1]
<1>. DEFINE b == Head(pendingWrites)
            h == Len(held)
<1>1. /\ Len(queue) \in Nat /\ h \in Nat /\ lastAcked \in Int
      /\ queue \in Seq(Batches) /\ pendingWrites \in Seq(Batches)
  BY Lengths DEF IInv, TypeOK, Unknown
<1>2. Len(pendingWrites) \in Nat \ {0}
  BY <1>1, EmptySeq, LenProperties
<1>3. /\ Tail(pendingWrites) \in Seq(Batches) /\ b \in Batches /\ b = pendingWrites[1]
      /\ Len(Tail(pendingWrites)) = Len(pendingWrites) - 1
      /\ \A i \in 1 .. Len(Tail(pendingWrites)) :
            Tail(pendingWrites)[i] = pendingWrites[i + 1]
  BY <1>1, HeadTailProperties
<1>4. h + 1 \in 1 .. Len(queue) /\ b = queue[h + 1]
  BY <1>1, <1>2, <1>3 DEF IInv, PipeInv, Aligned, InPipeline
<1>. HIDE DEF b, h
<1>5. IsRow(queue, b.batchID, h + 1) /\ b.batchID < nextBatchID
  BY <1>1, <1>4, RowOfBatch DEF IInv, QueueInv, Increasing
<1>6. b.batchID \in Nat
  BY <1>3 DEF Batches
<1>7. ~(queue[h + 1].batchID <= lastAcked)
  BY <1>1, <1>4 DEF IInv, QueueInv, IsRow, h
<1>8. b.batchID > lastAcked
  BY <1>1, <1>4, <1>6, <1>7
<1>. QED  BY <1>1, <1>2, <1>3, <1>4, <1>5, <1>6, <1>8 DEF b, h

\* When it is acknowledged, the rest of the pipeline follows it.
LEMMA AckMoves ==
    ASSUME IInv, pendingWrites # <<>>
    PROVE  Aligned(queue, Head(pendingWrites).batchID, lastBatchSeen, Len(held) + 1,
                   Tail(pendingWrites))
<1>. DEFINE b == Head(pendingWrites)
            h == Len(held)
            p == Len(pendingWrites)
            old == SeenUpTo(lastBatchSeen, lastAcked)
            new == SeenUpTo(lastBatchSeen, b.batchID)
<1>1. /\ h \in Nat /\ h + 1 \in 1 .. Len(queue) /\ b = queue[h + 1]
      /\ IsRow(queue, b.batchID, h + 1)
      /\ b.batchID \in Nat /\ b.batchID > lastAcked
      /\ Tail(pendingWrites) \in Seq(Batches) /\ Len(Tail(pendingWrites)) = p - 1
      /\ p \in Nat \ {0}
      /\ \A i \in 1 .. p - 1 : Tail(pendingWrites)[i] = pendingWrites[i + 1]
  BY OldestInPipeline
<1>2. /\ lastAcked \in Ids /\ lastBatchSeen \in Ids /\ p <= MaxPending
      /\ InPipeline(queue, h, pendingWrites) /\ IsRow(queue, old, h + p)
  BY DEF IInv, PipeInv, Aligned
<1>3. Len(queue) \in Nat /\ lastAcked \in Int /\ lastBatchSeen \in Int /\ queue \in Seq(Batches)
  BY <1>2, Lengths DEF IInv, TypeOK, Ids, Unknown
<1>. HIDE DEF b, h, p
<1>4. IsRow(queue, new, h + p)
  <2>1. CASE lastBatchSeen > b.batchID
    <3>1. new = old
      BY <1>1, <1>3, <2>1 DEF SeenUpTo
    <3>. QED  BY <1>2, <3>1
  <2>2. CASE ~(lastBatchSeen > b.batchID)
    <3>1. new = b.batchID /\ old \in Int /\ old <= b.batchID
      BY <1>1, <1>3, <2>2 DEF SeenUpTo
    <3>. HIDE DEF old, new
    <3>2. h + p = h + 1
      <4>. SUFFICES ASSUME h + p # h + 1 PROVE FALSE
        OBVIOUS
      <4>1. h + 2 \in 1 .. Len(queue) /\ h + 2 <= h + p /\ ~(h + 2 <= h + 1)
        BY <1>1, <1>2, <1>3 DEF IsRow
      <4>2. queue[h + 2].batchID <= old /\ ~(queue[h + 2].batchID <= b.batchID)
        BY <1>1, <1>2, <4>1 DEF IsRow
      <4>3. queue[h + 2].batchID \in Nat
        BY <1>3, <4>1, BatchTypes
      <4>. QED  BY <1>1, <3>1, <4>2, <4>3
    <3>. QED  BY <1>1, <3>1, <3>2
  <2>. QED  BY <2>1, <2>2
<1>5. h + 1 + (p - 1) = h + p /\ p - 1 <= MaxPending /\ h + 1 \in Nat
  BY <1>1, <1>2, ClientAssumption
<1>6. InPipeline(queue, h + 1, Tail(pendingWrites))
  <2>1. h + p <= Len(queue) /\ \A i \in 1 .. p : pendingWrites[i] = queue[h + i]
    BY <1>2 DEF InPipeline, p
  <2>2. ASSUME NEW i \in 1 .. p - 1 PROVE Tail(pendingWrites)[i] = queue[h + 1 + i]
    <3>1. i + 1 \in 1 .. p /\ h + (i + 1) = h + 1 + i
      BY <1>1
    <3>. QED  BY <1>1, <2>1, <3>1
  <2>. QED  BY <1>1, <1>5, <2>1, <2>2 DEF InPipeline
<1>. QED  BY <1>1, <1>2, <1>4, <1>5, <1>6 DEF Aligned, Ids, b, h, p

Docs == [value : 0 .. MaxWrites, version : Nat]

\* applyBatchResult leaves a document alone or replaces it by the result of
\* a later write.
LEMMA ResultsApplied ==
    ASSUME NEW docs \in [Keys -> Docs], NEW results \in Seq(Results)
    PROVE  /\ ApplyBatchResults(docs, results) \in [Keys -> Docs]
           /\ \A k \in Keys :
                 /\ ApplyBatchResults(docs, results)[k].version >= docs[k].version
                 /\ (\A i, j \in 1 .. Len(results) : i < j => results[i].version < results[j].version)
                    => \A i \in 1 .. Len(results) :
                          results[i].batch.key = k =>
                              ApplyBatchResults(docs, results)[k].version >= results[i].version
<1>. DEFINE newer(k) == {i \in DOMAIN results : /\ results[i].batch.key = k
                                                /\ Replaces(results[i], docs[k])}
            doc(k) == IF newer(k) = {} THEN docs[k]
                      ELSE [value |-> results[Max(newer(k))].batch.value,
                            version |-> results[Max(newer(k))].version]
<1>1. ApplyBatchResults(docs, results) = [k \in Keys |-> doc(k)]
  BY DEF ApplyBatchResults
<1>2. /\ Len(results) \in Nat /\ DOMAIN results = 1 .. Len(results)
      /\ \A i \in 1 .. Len(results) : results[i] \in Results
  BY LenProperties, ElementOfSeq
<1>3. \A i \in 1 .. Len(results) : /\ results[i].batch.value \in 0 .. MaxWrites
                                   /\ results[i].version \in Nat
  BY <1>2, ClientAssumption DEF Results, Batches
<1>4. ASSUME NEW k \in Keys
      PROVE  /\ doc(k) \in Docs
             /\ doc(k).version >= docs[k].version
             /\ (\A i, j \in 1 .. Len(results) : i < j => results[i].version < results[j].version)
                => \A i \in 1 .. Len(results) :
                      results[i].batch.key = k => doc(k).version >= results[i].version
  <2>1. docs[k] \in Docs /\ docs[k].version \in Nat
    BY DEF Docs
  <2>2. newer(k) \subseteq 1 .. Len(results)
    BY <1>2
  <2>3. CASE newer(k) = {}
    <3>1. doc(k) = docs[k]
      BY <2>3
    <3>2. ASSUME NEW i \in 1 .. Len(results), results[i].batch.key = k
          PROVE  docs[k].version >= results[i].version
      <4>1. ~(results[i].version > docs[k].version)
        BY <1>2, <2>3, <3>2 DEF Replaces
      <4>. QED  BY <1>3, <2>1, <4>1
    <3>. HIDE DEF doc, newer
    <3>. QED  BY <2>1, <3>1, <3>2
  <2>4. CASE newer(k) # {}
    <3>. DEFINE m == Max(newer(k))
    <3>1. m \in newer(k) /\ \A i \in newer(k) : i <= m
      <4>. HIDE DEF newer
      <4>. QED  BY <1>2, <2>2, <2>4, MaxPosition
    <3>2. doc(k) = [value |-> results[m].batch.value, version |-> results[m].version]
      BY <2>4
    <3>. HIDE DEF m, doc
    <3>3. m \in 1 .. Len(results) /\ results[m].version > docs[k].version
      BY <1>2, <3>1 DEF Replaces
    <3>4. doc(k) \in Docs /\ doc(k).version = results[m].version
      BY <1>3, <3>2, <3>3 DEF Docs
    <3>5. ASSUME \A i, j \in 1 .. Len(results) : i < j => results[i].version < results[j].version,
                 NEW i \in 1 .. Len(results), results[i].batch.key = k
          PROVE  results[m].version >= results[i].version
      <4>1. results[i].version \in Nat /\ results[m].version \in Nat /\ m \in Nat
        BY <1>3, <3>3
      <4>2. CASE results[i].version > docs[k].version
        <5>1. i \in newer(k)
          BY <1>2, <3>5, <4>2 DEF Replaces
        <5>2. i <= m
          BY <3>1, <5>1
        <5>3. i = m \/ i < m
          BY <4>1, <5>2
        <5>. QED  BY <3>3, <3>5, <4>1, <5>3
      <4>3. CASE ~(results[i].version > docs[k].version)
        BY <2>1, <3>3, <4>1, <4>3
      <4>. QED  BY <4>2, <4>3
    <3>6. doc(k).version >= docs[k].version
      BY <1>3, <2>1, <3>3, <3>4
    <3>. QED  BY <3>4, <3>5, <3>6
  <2>. QED  BY <2>3, <2>4
<1>. HIDE DEF doc
<1>. QED  BY <1>1, <1>4

\* The first response is that of the first write of the pipeline, and the
\* stream fits the rest of it.
LEMMA FirstResponse ==
    ASSUME IInv, down # <<>>
    PROVE  /\ pendingWrites # <<>> /\ ~idle
           /\ Len(down) \in Nat \ {0} /\ Len(down) <= Len(pendingWrites)
           /\ Tail(down) \in Seq(Nat) /\ Len(Tail(down)) = Len(down) - 1
           /\ \A i \in 1 .. Len(down) - 1 : Tail(down)[i] = down[i + 1]
           /\ Head(down) = down[1]
           /\ Fits(Tail(pendingWrites), stream, up, Len(Tail(down)))
<1>1. /\ down \in Seq(Nat) /\ up \in Seq(Batches) /\ stream \in States
      /\ handshake \in BOOLEAN /\ idle \in BOOLEAN
      /\ Len(up) \in Nat /\ Len(pendingWrites) \in Nat
  BY Lengths DEF IInv, TypeOK, States
<1>2. Len(down) \in Nat \ {0}
  BY <1>1, EmptySeq, LenProperties
<1>3. /\ Tail(down) \in Seq(Nat) /\ Len(Tail(down)) = Len(down) - 1 /\ Head(down) = down[1]
      /\ \A i \in 1 .. Len(Tail(down)) : Tail(down)[i] = down[i + 1]
  BY <1>1, HeadTailProperties
<1>4. handshake /\ stream = "Open" /\ Len(down) + Len(up) = Len(pendingWrites)
  BY <1>1, <1>2 DEF IInv, StreamInv
<1>5. Len(pendingWrites) # 0 /\ Len(down) <= Len(pendingWrites)
  BY <1>1, <1>2, <1>4
<1>6. pendingWrites # <<>>
  <2>1. Len(<<>>) = 0
    OBVIOUS
  <2>. QED  BY <1>5, <2>1
<1>7. ~idle
  BY <1>6 DEF IInv, StreamInv
<1>8. /\ Len(Tail(pendingWrites)) = Len(pendingWrites) - 1
      /\ \A i \in 1 .. Len(pendingWrites) - 1 : Tail(pendingWrites)[i] = pendingWrites[i + 1]
  BY <1>6, OldestInPipeline
<1>9. ASSUME NEW i \in 1 .. Len(up)
      PROVE  up[i] = Tail(pendingWrites)[Len(Tail(down)) + i]
  <2>. DEFINE j == Len(Tail(down)) + i
  <2>1. j \in 1 .. Len(pendingWrites) - 1 /\ j + 1 = Len(down) + i
    BY <1>1, <1>2, <1>3, <1>4
  <2>2. up[i] = pendingWrites[Len(down) + i]
    BY DEF IInv, StreamInv
  <2>. HIDE DEF j
  <2>3. Tail(pendingWrites)[j] = pendingWrites[j + 1]
    BY <1>8, <2>1
  <2>. QED  BY <2>1, <2>2, <2>3 DEF j
<1>10. Len(Tail(down)) \in Nat /\ Len(Tail(down)) + Len(up) = Len(Tail(pendingWrites))
  BY <1>1, <1>2, <1>3, <1>4, <1>8
<1>11. Fits(Tail(pendingWrites), stream, up, Len(Tail(down)))
  BY <1>1, <1>4, <1>7, <1>9, <1>10 DEF Fits
<1>. QED  BY <1>2, <1>3, <1>5, <1>6, <1>7, <1>11

\* The responses after the first one are those of the rest of the pipeline.
LEMMA NextResponses ==
    ASSUME IInv, down # <<>>, down' = Tail(down), log' = log,
           \A i \in 1 .. Len(Tail(pendingWrites)) : pendingWrites'[i] = Tail(pendingWrites)[i]
    PROVE  /\ DownInv'
           /\ \A i \in 1 .. Len(down') : i + 1 \in 1 .. Len(down) /\ down'[i] = down[i + 1]
<1>1. /\ pendingWrites # <<>> /\ Len(down) \in Nat \ {0} /\ Len(down) <= Len(pendingWrites)
      /\ Len(down') = Len(down) - 1
      /\ \A i \in 1 .. Len(down) - 1 : down'[i] = down[i + 1]
  BY FirstResponse
<1>2. /\ Len(Tail(pendingWrites)) = Len(pendingWrites) - 1 /\ Len(pendingWrites) \in Nat
      /\ \A i \in 1 .. Len(pendingWrites) - 1 : Tail(pendingWrites)[i] = pendingWrites[i + 1]
  BY <1>1, OldestInPipeline
<1>3. ASSUME NEW i \in 1 .. Len(down')
      PROVE  /\ i + 1 \in 1 .. Len(down) /\ down'[i] = down[i + 1]
             /\ pendingWrites'[i] = pendingWrites[i + 1]
  <2>1. /\ i \in 1 .. Len(down) - 1 /\ i + 1 \in 1 .. Len(down)
        /\ i \in 1 .. Len(pendingWrites) - 1
    BY <1>1, <1>2
  <2>. QED  BY <1>1, <1>2, <2>1
<1>4. ASSUME NEW i \in 1 .. Len(down')
      PROVE  IF down'[i] = Refused
             THEN i = Len(down') /\ pendingWrites'[i].value \in Bad
             ELSE down'[i] \in 1 .. Len(log') /\ log'[down'[i]] = Content(pendingWrites'[i])
  <2>1. IF down[i + 1] = Refused
        THEN i + 1 = Len(down) /\ pendingWrites[i + 1].value \in Bad
        ELSE down[i + 1] \in 1 .. Len(log) /\ log[down[i + 1]] = Content(pendingWrites[i + 1])
    BY <1>3 DEF IInv, DownInv
  <2>2. i + 1 = Len(down) => i = Len(down')
    <3>. DEFINE m == Len(down')
    <3>1. i \in Int /\ Len(down) \in Int /\ m = Len(down) - 1
      BY <1>1
    <3>. HIDE DEF m
    <3>2. i + 1 = Len(down) => i = m
      BY <3>1
    <3>. QED  BY <3>2 DEF m
  <2>. QED  BY <1>3, <2>1, <2>2
<1>5. ASSUME NEW i \in 1 .. Len(down'), NEW j \in 1 .. Len(down'), i < j, down'[j] # Refused
      PROVE  down'[i] < down'[j]
  <2>1. i + 1 < j + 1
    BY <1>1, <1>5
  <2>2. i + 1 \in 1 .. Len(down) /\ j + 1 \in 1 .. Len(down) /\ down[j + 1] # Refused
    BY <1>3, <1>5
  <2>3. down[i + 1] < down[j + 1]
    BY <2>1, <2>2 DEF IInv, DownInv
  <2>. QED  BY <1>3, <2>3
<1>. QED  BY <1>3, <1>4, <1>5 DEF DownInv

\* Writes that leave the queue are in the log or refused.
LEMMA WritesKept ==
    ASSUME IInv, TypeOK', LogKept, written' = written, away' = away,
           \A i \in 1 .. Len(queue) :
              \/ \E j \in 1 .. Len(queue') : queue'[j] = queue[i]
              \/ \E j \in 1 .. Len(log) : log[j].value = queue[i].value
              \/ queue[i].value \in Bad
    PROVE  NothingLost'
<1>1. ASSUME NEW n \in (1 .. written) \ Bad PROVE Kept(queue', away.queue, log', n)
  <2>1. Kept(queue, away.queue, log, n)
    BY KeptBefore
  <2>2. ASSUME NEW i \in 1 .. Len(queue), queue[i].value = n
        PROVE  Kept(queue', away.queue, log', n)
    BY <2>2 DEF Kept, LogKept
  <2>. QED  BY <2>1, <2>2 DEF Kept, LogKept
<1>. QED  BY <1>1, KeptAfter

\* A response whose write is held: the queue stays.
LEMMA HoldKeeps ==
    ASSUME IInv, ResponseArrives,
           held' = Append(held, [batch |-> Head(pendingWrites), version |-> Head(down)]),
           UNCHANGED <<queue, cache>>,
           (targets # {} /\ Head(down) > snapVersion) \/ held # <<>>
    PROVE  IInv'
<1>. DEFINE b == Head(pendingWrites)
            r == [batch |-> b, version |-> Head(down)]
            h == Len(held)
<1>1. /\ down # <<>> /\ Head(down) # Refused /\ down' = Tail(down)
      /\ lastAcked' = b.batchID
      /\ FillWritePipeline(queue, b.batchID, Tail(pendingWrites), stream, up)
      /\ UNCHANGED <<nextBatchID, away, targets, snapVersion, watch, log, written, faults>>
  BY DEF ResponseArrives
<1>2. /\ pendingWrites # <<>> /\ Len(down) \in Nat \ {0}
      /\ Tail(down) \in Seq(Nat) /\ Head(down) = down[1]
      /\ Fits(Tail(pendingWrites), stream, up, Len(down'))
  BY <1>1, FirstResponse
<1>3. /\ h \in Nat /\ h + 1 \in 1 .. Len(queue)
      /\ b \in Batches /\ b = queue[h + 1] /\ b = pendingWrites[1]
      /\ IsRow(queue, b.batchID, h + 1)
      /\ b.batchID \in Nat /\ b.batchID > lastAcked /\ b.batchID < nextBatchID
  BY <1>2, OldestInPipeline
<1>4. Aligned(queue, b.batchID, lastBatchSeen, h + 1, Tail(pendingWrites))
  BY <1>2, AckMoves
<1>5. queue \in Seq(Batches) /\ Increasing(queue, nextBatchID) /\ Len(queue) \in Nat
  BY Lengths DEF IInv, TypeOK, QueueInv
<1>6. /\ r \in Results /\ r.batch = b /\ r.version = down[1]
      /\ 1 \in 1 .. Len(down) /\ down[1] \in Nat
  <2>1. 1 \in 1 .. Len(down)
    BY <1>2
  <2>2. down[1] \in Nat
    BY <2>1, Lengths DEF IInv
  <2>. QED  BY <1>2, <1>3, <2>1, <2>2 DEF Results
<1>7. /\ held \in Seq(Results) /\ held' = Append(held, r)
      /\ \A i \in 1 .. h : held[i].version \in Nat
  BY Lengths DEF IInv, TypeOK, Results
<1>. HIDE DEF b, r
<1>8. /\ held' \in Seq(Results) /\ Len(held') = h + 1
      /\ \A i \in 1 .. h : held'[i] = held[i]
      /\ held'[h + 1] = r
  BY <1>6, <1>7, AppendProperties
<1>. HIDE DEF h
<1>9. \A i \in 1 .. Len(held') : i \in 1 .. h \/ i = h + 1
  BY <1>3, <1>8
<1>10. Filled(queue, h + 1, b.batchID, Tail(pendingWrites))
  BY <1>1, <1>2, <1>4, <1>5, FillKeeps
<1>11. TypeOK'
  <2>1. TypeOK
    BY DEF IInv
  <2>. QED  BY <1>1, <1>2, <1>3, <1>8, <1>10, <2>1, FilledTypes DEF TypeOK, Ids, Results
<1>12. QueueInv'
  <2>1. lastBatchSeen' < nextBatchID
    BY <1>5, <1>10 DEF Filled, Increasing, IInv, QueueInv
  <2>2. ASSUME NEW i \in 1 .. Len(held') PROVE held'[i].batch = queue[i]
    BY <1>3, <1>6, <1>8, <1>9 DEF IInv, QueueInv, h
  <2>3. Len(held') <= Len(queue)
    BY <1>3, <1>5, <1>8
  <2>. QED  BY <1>1, <1>3, <1>5, <1>8, <2>1, <2>2, <2>3 DEF QueueInv
<1>13. PipeInv'
  BY <1>1, <1>8, <1>10 DEF PipeInv, Filled
<1>14. AwayInv'
  BY <1>1 DEF IInv, AwayInv
<1>15. StreamInv'
  BY <1>10 DEF Filled
<1>16. /\ DownInv'
       /\ \A i \in 1 .. Len(down') : i + 1 \in 1 .. Len(down) /\ down'[i] = down[i + 1]
  <2>1. \A i \in 1 .. Len(Tail(pendingWrites)) : pendingWrites'[i] = Tail(pendingWrites)[i]
    BY <1>10 DEF Filled
  <2>. QED  BY <1>1, <2>1, NextResponses
<1>17. /\ down[1] \in 1 .. Len(log) /\ log[down[1]] = Content(b)
       /\ down[1] > snapVersion /\ targets # {}
       /\ \A i \in 1 .. h : held[i].version < down[1]
  <2>1. down[1] # Refused
    BY <1>1, <1>2
  <2>2. down[1] \in 1 .. Len(log) /\ log[down[1]] = Content(b)
    BY <1>3, <1>6, <2>1 DEF IInv, DownInv
  <2>3. \A i \in 1 .. h : held[i].version < down[1] /\ held[i].version > snapVersion
    BY <1>6, <2>1 DEF IInv, HeldInv, h
  <2>4. held # <<>> => 1 \in 1 .. h
    BY <1>3, <1>7, EmptySeq DEF h
  <2>5. snapVersion \in Nat
    BY DEF IInv, TypeOK
  <2>6. down[1] > snapVersion
    BY <1>2, <1>6, <1>7, <2>3, <2>4, <2>5
  <2>7. targets # {}
    BY DEF IInv, HeldInv
  <2>. QED  BY <2>2, <2>3, <2>6, <2>7
<1>18. \A j \in 1 .. Len(down') : down'[j] # Refused =>
          down[1] < down'[j] /\ \A i \in 1 .. h : held[i].version < down'[j]
  <2>1. ASSUME NEW j \in 1 .. Len(down'), down'[j] # Refused
        PROVE  down[1] < down'[j] /\ \A i \in 1 .. h : held[i].version < down'[j]
    <3>1. j + 1 \in 1 .. Len(down) /\ down'[j] = down[j + 1] /\ down[j + 1] # Refused
      BY <1>16, <2>1
    <3>2. 1 < j + 1
      BY <2>1
    <3>3. down[1] < down[j + 1]
      BY <1>6, <3>1, <3>2 DEF IInv, DownInv
    <3>. QED  BY <3>1, <3>3 DEF IInv, HeldInv, h
  <2>. QED  BY <2>1
<1>19. HeldInv'
  <2>1. ASSUME NEW i \in 1 .. Len(held')
        PROVE  /\ held'[i].version > snapVersion
               /\ held'[i].version \in 1 .. Len(log)
               /\ log[held'[i].version] = Content(held'[i].batch)
               /\ \A j \in 1 .. Len(down') : down'[j] # Refused => held'[i].version < down'[j]
    <3>1. CASE i = h + 1
      BY <1>6, <1>8, <1>17, <1>18, <3>1
    <3>2. CASE i \in 1 .. h
      BY <1>8, <1>18, <3>2 DEF IInv, HeldInv, h
    <3>. QED  BY <1>9, <3>1, <3>2
  <2>2. ASSUME NEW i \in 1 .. Len(held'), NEW j \in 1 .. Len(held'), i < j
        PROVE  held'[i].version < held'[j].version
    <3>1. i \in 1 .. h
      BY <1>3, <1>8, <2>2
    <3>2. CASE j = h + 1
      BY <1>6, <1>8, <1>17, <3>1, <3>2
    <3>3. CASE j \in 1 .. h
      BY <1>8, <2>2, <3>1, <3>3 DEF IInv, HeldInv, h
    <3>. QED  BY <1>9, <3>2, <3>3
  <2>. QED  BY <1>1, <1>17, <2>1, <2>2 DEF HeldInv
<1>20. WatchInv'
  BY <1>1 DEF IInv, WatchInv
<1>21. NothingLost'
  <2>1. \A i \in 1 .. Len(queue) : \E j \in 1 .. Len(queue') : queue'[j] = queue[i]
    OBVIOUS
  <2>2. LogKept
    BY <1>1 DEF LogKept
  <2>. QED  BY <1>1, <1>11, <2>1, <2>2, WritesKept
<1>. QED  BY <1>11, <1>12, <1>13, <1>14, <1>15, <1>16, <1>19, <1>20, <1>21 DEF IInv

\* A response whose write is released at once: nothing is held, and the
\* oldest batch of the queue goes.
LEMMA ReleaseAtOnceKeeps ==
    ASSUME IInv, ResponseArrives, held = <<>>, held' = held,
           ReleaseBatchResults(cache, <<[batch |-> Head(pendingWrites), version |-> Head(down)]>>)
    PROVE  IInv'
<1>. DEFINE b == Head(pendingWrites)
            r == [batch |-> b, version |-> Head(down)]
<1>1. /\ down # <<>> /\ Head(down) # Refused /\ down' = Tail(down)
      /\ lastAcked' = b.batchID
      /\ FillWritePipeline(queue', b.batchID, Tail(pendingWrites), stream, up)
      /\ UNCHANGED <<nextBatchID, away, targets, snapVersion, watch, log, written, faults>>
  BY DEF ResponseArrives
<1>2. /\ pendingWrites # <<>> /\ Len(down) \in Nat \ {0}
      /\ Tail(down) \in Seq(Nat) /\ Head(down) = down[1]
      /\ Fits(Tail(pendingWrites), stream, up, Len(down'))
  BY <1>1, FirstResponse
<1>3. Len(held) = 0
  OBVIOUS
<1>4. /\ 1 \in 1 .. Len(queue) /\ b \in Batches /\ b = queue[1] /\ b = pendingWrites[1]
      /\ IsRow(queue, b.batchID, 1)
      /\ b.batchID \in Nat /\ b.batchID < nextBatchID
  <2>1. Len(held) + 1 = 1
    BY <1>3
  <2>. QED  BY <1>2, <2>1, OldestInPipeline
<1>5. Aligned(queue, b.batchID, lastBatchSeen, 1, Tail(pendingWrites))
  <2>1. Len(held) + 1 = 1
    BY <1>3
  <2>. QED  BY <1>2, <2>1, AckMoves
<1>6. queue \in Seq(Batches) /\ Increasing(queue, nextBatchID) /\ Len(queue) \in Nat
  BY Lengths DEF IInv, TypeOK, QueueInv
<1>7. r \in Results /\ 1 \in 1 .. Len(down) /\ down[1] \in Nat
  <2>1. 1 \in 1 .. Len(down)
    BY <1>2
  <2>2. down[1] \in Nat
    BY <2>1, Lengths DEF IInv
  <2>. QED  BY <1>2, <1>4, <2>1, <2>2 DEF Results
<1>8. cache' \in [Keys -> Docs]
  <2>1. <<r>> \in Seq(Results) /\ cache \in [Keys -> Docs]
    BY <1>7 DEF IInv, TypeOK, Docs
  <2>2. cache' = ApplyBatchResults(cache, <<r>>)
    BY DEF ReleaseBatchResults
  <2>. HIDE DEF r
  <2>. QED  BY <2>1, <2>2, ResultsApplied
<1>9. queue' = SubSeq(queue, 1 + 1, Len(queue))
  <2>. DEFINE gone == [i \in DOMAIN <<r>> |-> <<r>>[i].batch]
  <2>1. queue' = RemoveBatches(queue, gone)
    BY DEF ReleaseBatchResults
  <2>2. gone = <<b>>
    OBVIOUS
  <2>3. gone \in Seq(Batches) /\ Len(gone) = 1 /\ \A i \in 1 .. 1 : gone[i] = queue[i]
    BY <1>4, <2>2
  <2>4. 1 \in 0 .. Len(queue)
    BY <1>6, <1>4
  <2>. HIDE DEF gone
  <2>. QED  BY <1>6, <2>1, <2>3, <2>4, RemoveOldest
<1>. HIDE DEF b, r
<1>10. /\ queue' \in Seq(Batches) /\ Len(queue') = Len(queue) - 1
       /\ \A i \in 1 .. Len(queue') : 1 + i \in 1 .. Len(queue) /\ queue'[i] = queue[1 + i]
       /\ Increasing(queue', nextBatchID)
       /\ \A id, m : IsRow(queue, id, m) /\ 1 <= m => IsRow(queue', id, m - 1)
  <2>. DEFINE n == 1
  <2>1. n \in 0 .. Len(queue) /\ queue' = SubSeq(queue, n + 1, Len(queue))
    BY <1>4, <1>6, <1>9
  <2>. HIDE DEF n
  <2>2. /\ queue' \in Seq(Batches) /\ Len(queue') = Len(queue) - n
        /\ \A i \in 1 .. Len(queue') : n + i \in 1 .. Len(queue) /\ queue'[i] = queue[n + i]
        /\ Increasing(queue', nextBatchID)
        /\ \A id, m : IsRow(queue, id, m) /\ n <= m => IsRow(queue', id, m - n)
    BY <1>6, <2>1, DropOldest
  <2>. QED  BY <2>2 DEF n
<1>11. Aligned(queue', b.batchID, lastBatchSeen, 0, Tail(pendingWrites))
  <2>. DEFINE t == Tail(pendingWrites)
              id == SeenUpTo(lastBatchSeen, b.batchID)
  <2>1. /\ t \in Seq(Batches) /\ Len(t) <= MaxPending /\ b.batchID \in Ids /\ lastBatchSeen \in Ids
        /\ InPipeline(queue, 1, t) /\ IsRow(queue, id, 1 + Len(t))
    BY <1>5 DEF Aligned
  <2>. HIDE DEF t, id
  <2>2. Len(t) \in Nat
    BY <2>1, LenProperties
  <2>3. 1 <= 1 + Len(t) /\ 1 + Len(t) - 1 = 0 + Len(t)
    BY <2>2
  <2>4. IsRow(queue', id, 1 + Len(t) - 1)
    BY <1>10, <2>1, <2>3
  <2>5. InPipeline(queue', 0, t)
    <3>1. 1 + Len(t) <= Len(queue) /\ \A i \in 1 .. Len(t) : t[i] = queue[1 + i]
      BY <2>1 DEF InPipeline
    <3>2. 0 + Len(t) <= Len(queue')
      BY <1>6, <1>10, <2>2, <3>1
    <3>3. ASSUME NEW i \in 1 .. Len(t) PROVE t[i] = queue'[0 + i]
      <4>1. i \in 1 .. Len(queue') /\ 0 + i = i
        BY <1>6, <1>10, <2>2, <3>1
      <4>. QED  BY <1>10, <3>1, <4>1
    <3>. QED  BY <3>2, <3>3 DEF InPipeline
  <2>. QED  BY <2>1, <2>3, <2>4, <2>5 DEF Aligned, t, id
<1>12. Filled(queue', 0, b.batchID, Tail(pendingWrites))
  BY <1>1, <1>2, <1>10, <1>11, FillKeeps
<1>13. TypeOK'
  <2>1. TypeOK
    BY DEF IInv
  <2>. QED  BY <1>1, <1>2, <1>4, <1>8, <1>10, <1>12, <2>1, FilledTypes DEF TypeOK, Ids, Docs
<1>14. QueueInv'
  <2>1. lastBatchSeen' < nextBatchID
    BY <1>10, <1>12 DEF Filled, Increasing, IInv, QueueInv
  <2>2. 1 - 1 = 0 /\ 1 <= 1
    OBVIOUS
  <2>3. IsRow(queue', b.batchID, 0)
    BY <1>4, <1>10, <2>2
  <2>4. Len(held') = 0 /\ Len(queue') \in Nat
    BY <1>10, LenProperties
  <2>5. Len(held') <= Len(queue') /\ \A i \in 1 .. Len(held') : FALSE
    BY <2>4
  <2>. QED  BY <1>1, <1>4, <1>10, <2>1, <2>3, <2>4, <2>5 DEF QueueInv
<1>15. PipeInv'
  BY <1>1, <1>3, <1>12 DEF PipeInv, Filled
<1>16. AwayInv'
  BY <1>1 DEF IInv, AwayInv
<1>17. StreamInv'
  BY <1>12 DEF Filled
<1>18. DownInv'
  <2>1. \A i \in 1 .. Len(Tail(pendingWrites)) : pendingWrites'[i] = Tail(pendingWrites)[i]
    BY <1>12 DEF Filled
  <2>. QED  BY <1>1, <2>1, NextResponses
<1>19. HeldInv' /\ WatchInv'
  BY <1>1, <1>3 DEF IInv, HeldInv, WatchInv
<1>20. NothingLost'
  <2>1. down[1] \in 1 .. Len(log) /\ log[down[1]].value = queue[1].value
    <3>1. log[down[1]] = Content(b) /\ down[1] \in 1 .. Len(log)
      BY <1>1, <1>2, <1>4, <1>7 DEF IInv, DownInv
    <3>. QED  BY <1>4, <3>1 DEF Content
  <2>2. ASSUME NEW i \in 1 .. Len(queue), i # 1
        PROVE  \E j \in 1 .. Len(queue') : queue'[j] = queue[i]
    <3>. DEFINE j == i - 1
    <3>1. j \in 1 .. Len(queue') /\ 1 + j = i
      BY <1>6, <1>10, <2>2
    <3>. HIDE DEF j
    <3>. QED  BY <1>10, <3>1
  <2>3. LogKept
    BY <1>1 DEF LogKept
  <2>. QED  BY <1>1, <1>13, <2>1, <2>2, <2>3, WritesKept
<1>. QED  BY <1>13, <1>14, <1>15, <1>16, <1>17, <1>18, <1>19, <1>20 DEF IInv

LEMMA ResponseKeeps == ASSUME IInv, ResponseArrives PROVE IInv'
<1>. DEFINE r == [batch |-> Head(pendingWrites), version |-> Head(down)]
<1>1. CASE (targets # {} /\ Head(down) > snapVersion) \/ held # <<>>
  <2>1. held' = Append(held, r) /\ UNCHANGED <<queue, cache>>
    BY <1>1 DEF ResponseArrives
  <2>. QED  BY <1>1, <2>1, HoldKeeps
<1>2. CASE ~((targets # {} /\ Head(down) > snapVersion) \/ held # <<>>)
  <2>1. ReleaseBatchResults(cache, <<r>>) /\ held' = held /\ held = <<>>
    BY <1>2 DEF ResponseArrives
  <2>. QED  BY <2>1, ReleaseAtOnceKeeps
<1>. QED  BY <1>1, <1>2

-----------------------------------------------------------------------------
(***************************************************************************)
(* A permanent error: the first write of the pipeline is rejected.         *)
(***************************************************************************)

LEMMA ErrorKeeps == ASSUME IInv, ErrorArrives PROVE IInv'
<1>. DEFINE b == Head(pendingWrites)
            h == Len(held)
            p == Len(pendingWrites)
            t == Tail(pendingWrites)
<1>1. /\ down # <<>> /\ Head(down) = Refused /\ down' = <<>>
      /\ queue' = RemoveBatches(queue, <<b>>)
      /\ FillWritePipeline(queue', lastAcked, t, "Initial", <<>>)
      /\ UNCHANGED <<nextBatchID, lastAcked, away, held, cache, targets, snapVersion,
                     watch, log, written, faults>>
  BY DEF ErrorArrives
<1>2. pendingWrites # <<>> /\ ~idle /\ Len(down) \in Nat \ {0} /\ Head(down) = down[1]
  BY <1>1, FirstResponse
<1>3. /\ h \in Nat /\ h + 1 \in 1 .. Len(queue)
      /\ b \in Batches /\ b = queue[h + 1] /\ b = pendingWrites[1]
      /\ t \in Seq(Batches) /\ Len(t) = p - 1 /\ p \in Nat \ {0}
      /\ \A i \in 1 .. p - 1 : t[i] = pendingWrites[i + 1]
  BY <1>2, OldestInPipeline
<1>4. /\ queue \in Seq(Batches) /\ Increasing(queue, nextBatchID) /\ Len(queue) \in Nat
      /\ \A i \in 1 .. h : held[i].batch = queue[i]
  BY Lengths DEF IInv, TypeOK, QueueInv
<1>5. /\ queue' \in Seq(Batches) /\ Len(queue') = Len(queue) - 1
      /\ \A i \in 1 .. Len(queue) - 1 :
            queue'[i] = IF i < h + 1 THEN queue[i] ELSE queue[i + 1]
  <2>. DEFINE n == h + 1
  <2>1. n \in 1 .. Len(queue) /\ b = queue[n]
    BY <1>3
  <2>. HIDE DEF n, b
  <2>2. /\ queue' \in Seq(Batches) /\ Len(queue') = Len(queue) - 1
        /\ \A i \in 1 .. Len(queue) - 1 :
              queue'[i] = IF i < n THEN queue[i] ELSE queue[i + 1]
    BY <1>1, <1>4, <2>1, RemoveOne
  <2>. QED  BY <2>2 DEF n
<1>. HIDE DEF b, h, p, t
<1>6. \A i \in 1 .. Len(queue') :
         \/ i \in 1 .. h /\ i \in 1 .. Len(queue) /\ queue'[i] = queue[i]
         \/ i > h /\ i + 1 \in 1 .. Len(queue) /\ queue'[i] = queue[i + 1]
  <2>1. ASSUME NEW i \in 1 .. Len(queue'), i < h + 1
        PROVE  i \in 1 .. h /\ i \in 1 .. Len(queue) /\ queue'[i] = queue[i]
    BY <1>3, <1>4, <1>5, <2>1
  <2>2. ASSUME NEW i \in 1 .. Len(queue'), ~(i < h + 1)
        PROVE  i > h /\ i + 1 \in 1 .. Len(queue) /\ queue'[i] = queue[i + 1]
    BY <1>3, <1>4, <1>5, <2>2
  <2>. QED  BY <2>1, <2>2
<1>7. Increasing(queue', nextBatchID)
  <2>1. ASSUME NEW i \in 1 .. Len(queue') PROVE queue'[i].batchID < nextBatchID
    BY <1>4, <1>6 DEF Increasing
  <2>2. ASSUME NEW i \in 1 .. Len(queue'), NEW j \in 1 .. Len(queue'), i < j
        PROVE  queue'[i].batchID < queue'[j].batchID
    <3>1. PICK x \in 1 .. Len(queue) : queue'[i] = queue[x] /\ x = IF i <= h THEN i ELSE i + 1
      BY <1>3, <1>5, <1>6
    <3>2. PICK y \in 1 .. Len(queue) : queue'[j] = queue[y] /\ y = IF j <= h THEN j ELSE j + 1
      BY <1>3, <1>5, <1>6
    <3>3. x < y
      BY <1>3, <1>4, <1>5, <2>2, <3>1, <3>2
    <3>. QED  BY <1>4, <3>1, <3>2, <3>3 DEF Increasing
  <2>. QED  BY <2>1, <2>2 DEF Increasing
<1>8. ASSUME NEW id, NEW m, IsRow(queue, id, m), h + 1 <= m PROVE IsRow(queue', id, m - 1)
  <2>1. m \in 0 .. Len(queue) /\ \A i \in 1 .. Len(queue) : queue[i].batchID <= id <=> i <= m
    BY <1>8 DEF IsRow
  <2>2. m - 1 \in 0 .. Len(queue')
    BY <1>3, <1>4, <1>5, <1>8, <2>1
  <2>3. ASSUME NEW i \in 1 .. Len(queue') PROVE queue'[i].batchID <= id <=> i <= m - 1
    <3>1. CASE i \in 1 .. h /\ i \in 1 .. Len(queue) /\ queue'[i] = queue[i]
      BY <1>3, <1>8, <2>1, <3>1
    <3>2. CASE i > h /\ i + 1 \in 1 .. Len(queue) /\ queue'[i] = queue[i + 1]
      <4>1. i + 1 <= m <=> i <= m - 1
        BY <1>4, <1>5, <2>1
      <4>. QED  BY <2>1, <3>2, <4>1
    <3>. QED  BY <1>6, <3>1, <3>2
  <2>. QED  BY <2>2, <2>3 DEF IsRow
<1>9. IsRow(queue', lastAcked, h)
  <2>1. IsRow(queue, lastAcked, h)
    BY DEF IInv, QueueInv, h
  <2>2. h \in 0 .. Len(queue')
    BY <1>3, <1>4, <1>5
  <2>3. ASSUME NEW i \in 1 .. Len(queue') PROVE queue'[i].batchID <= lastAcked <=> i <= h
    <3>1. CASE i \in 1 .. h /\ i \in 1 .. Len(queue) /\ queue'[i] = queue[i]
      BY <2>1, <3>1 DEF IsRow
    <3>2. CASE i > h /\ i + 1 \in 1 .. Len(queue) /\ queue'[i] = queue[i + 1]
      <4>1. ~(i + 1 <= h) /\ ~(i <= h)
        BY <1>3, <1>4, <3>2
      <4>. QED  BY <2>1, <3>2, <4>1 DEF IsRow
    <3>. QED  BY <1>6, <3>1, <3>2
  <2>. QED  BY <2>2, <2>3 DEF IsRow
<1>10. Aligned(queue', lastAcked, lastBatchSeen, h, t)
  <2>1. /\ lastAcked \in Ids /\ lastBatchSeen \in Ids /\ p <= MaxPending
        /\ InPipeline(queue, h, pendingWrites)
        /\ IsRow(queue, SeenUpTo(lastBatchSeen, lastAcked), h + p)
    BY DEF IInv, PipeInv, Aligned, h, p
  <2>2. p - 1 <= MaxPending
    BY <1>3, <2>1, ClientAssumption
  <2>3. IsRow(queue', SeenUpTo(lastBatchSeen, lastAcked), h + (p - 1))
    <3>. DEFINE m == h + p
                id == SeenUpTo(lastBatchSeen, lastAcked)
    <3>1. h + 1 <= m /\ m - 1 = h + (p - 1)
      BY <1>3
    <3>2. IsRow(queue, id, m)
      BY <2>1
    <3>. HIDE DEF m, id
    <3>3. IsRow(queue', id, m - 1)
      BY <1>8, <3>1, <3>2
    <3>. QED  BY <3>1, <3>3 DEF id
  <2>4. InPipeline(queue', h, t)
    <3>1. h + p <= Len(queue) /\ \A i \in 1 .. p : pendingWrites[i] = queue[h + i]
      BY <2>1 DEF InPipeline, p
    <3>2. h + Len(t) <= Len(queue')
      BY <1>3, <1>4, <1>5, <3>1
    <3>3. ASSUME NEW i \in 1 .. Len(t) PROVE t[i] = queue'[h + i]
      <4>1. /\ i \in 1 .. p - 1 /\ i + 1 \in 1 .. p /\ h + (i + 1) = h + i + 1
            /\ h + i \in 1 .. Len(queue) - 1 /\ ~(h + i < h + 1)
        BY <1>3, <1>4, <1>5, <3>1
      <4>2. queue'[h + i] = queue[h + i + 1]
        BY <1>5, <4>1
      <4>. QED  BY <1>3, <3>1, <4>1, <4>2
    <3>. QED  BY <3>2, <3>3 DEF InPipeline
  <2>. QED  BY <1>3, <2>1, <2>2, <2>3, <2>4 DEF Aligned
<1>11. Filled(queue', h, lastAcked, t)
  <2>1. Len(down') = 0 /\ <<>> \in Seq(Batches) /\ Len(<<>>) = 0
    BY <1>1
  <2>2. handshake \in BOOLEAN /\ idle \in BOOLEAN
    BY DEF IInv, TypeOK
  <2>3. Fits(t, "Initial", <<>>, Len(down'))
    BY <1>2, <2>1, <2>2 DEF Fits, States
  <2>. QED  BY <1>1, <1>5, <1>7, <1>10, <2>3, FillKeeps
<1>12. TypeOK'
  <2>1. TypeOK /\ down' \in Seq(Nat)
    BY <1>1 DEF IInv
  <2>. QED  BY <1>1, <1>5, <1>11, <2>1, FilledTypes DEF TypeOK
<1>13. QueueInv'
  <2>1. lastBatchSeen' < nextBatchID
    BY <1>7, <1>11 DEF Filled, Increasing, IInv, QueueInv
  <2>2. h <= Len(queue')
    BY <1>3, <1>4, <1>5
  <2>3. \A i \in 1 .. h : queue'[i] = queue[i]
    BY <1>3, <1>4, <1>5
  <2>4. held # <<>> => h \in 1 .. h
    BY <1>3, EmptySeq DEF IInv, TypeOK, h
  <2>5. held # <<>> => queue'[h].batchID = lastAcked
    BY <2>3, <2>4 DEF IInv, QueueInv, h
  <2>6. lastAcked < nextBatchID
    BY DEF IInv, QueueInv
  <2>. QED  BY <1>1, <1>4, <1>7, <1>9, <2>1, <2>2, <2>3, <2>5, <2>6 DEF QueueInv, h
<1>14. PipeInv'
  BY <1>1, <1>11 DEF PipeInv, Filled, h
<1>15. AwayInv' /\ WatchInv'
  BY <1>1 DEF IInv, AwayInv, WatchInv
<1>16. StreamInv' /\ DownInv'
  BY <1>1, <1>11 DEF Filled, DownInv
<1>17. HeldInv'
  BY <1>1 DEF IInv, HeldInv
<1>18. NothingLost'
  <2>1. queue[h + 1].value \in Bad
    <3>1. 1 \in 1 .. Len(down)
      BY <1>2
    <3>. QED  BY <1>1, <1>2, <1>3, <3>1 DEF IInv, DownInv
  <2>2. ASSUME NEW i \in 1 .. Len(queue), i # h + 1
        PROVE  \E j \in 1 .. Len(queue') : queue'[j] = queue[i]
    <3>1. CASE i < h + 1
      <4>1. i \in 1 .. Len(queue') /\ i \in 1 .. Len(queue) - 1
        BY <1>3, <1>4, <1>5, <3>1
      <4>. QED  BY <1>5, <3>1, <4>1
    <3>2. CASE ~(i < h + 1)
      <4>. DEFINE j == i - 1
      <4>1. /\ j \in 1 .. Len(queue') /\ j \in 1 .. Len(queue) - 1 /\ ~(j < h + 1)
            /\ j + 1 = i
        BY <1>3, <1>4, <1>5, <2>2, <3>2
      <4>. HIDE DEF j
      <4>. QED  BY <1>5, <4>1
    <3>. QED  BY <3>1, <3>2
  <2>3. LogKept
    BY <1>1 DEF LogKept
  <2>. QED  BY <1>1, <1>12, <2>1, <2>2, <2>3, WritesKept
<1>. QED  BY <1>12, <1>13, <1>14, <1>15, <1>16, <1>17, <1>18 DEF IInv

-----------------------------------------------------------------------------
(***************************************************************************)
(* releaseHeldBatchResults.                                                *)
(***************************************************************************)

\* The results of the first n held batches are applied, and the first of
\* those that stay is newer than what the client knows.
ReleasesFirst(docs, active, version, n) ==
    /\ n < Len(held) => active # {} /\ ~(held[n + 1].version <= version)
    /\ cache' = ApplyBatchResults(docs, SubSeq(held, 1, n))
    /\ queue' = SubSeq(queue, n + 1, Len(queue))
    /\ held' = SubSeq(held, n + 1, Len(held))

LEMMA Released ==
    ASSUME IInv, NEW docs, NEW active, NEW version,
           ReleaseHeldBatchResults(docs, active, version)
    PROVE  \E n \in 0 .. Len(held) : ReleasesFirst(docs, active, version, n)
<1>. DEFINE T == {i \in 0 .. Len(held) :
                    \A j \in 1 .. i : held[j].version <= version \/ active = {}}
            n == Max(T)
            results == SubSeq(held, 1, n)
<1>1. /\ Len(held) \in Nat /\ held \in Seq(Results)
      /\ queue \in Seq(Batches) /\ Len(queue) \in Nat
      /\ Increasing(queue, nextBatchID) /\ Len(held) <= Len(queue)
      /\ \A i \in 1 .. Len(held) : held[i].batch = queue[i] /\ held[i].batch \in Batches
  BY Lengths DEF IInv, TypeOK, QueueInv, Results
<1>2. n \in T /\ \A y \in T : y <= n
  <2>1. T \subseteq Int /\ (\A y \in T : y <= Len(held)) /\ Len(held) \in Int
    BY <1>1
  <2>2. 0 \in T
    <3>1. 0 \in 0 .. Len(held) /\ \A j \in 1 .. 0 : FALSE
      BY <1>1
    <3>. QED  BY <3>1
  <2>. HIDE DEF T
  <2>. QED  BY <2>1, <2>2, MaxElement
<1>3. /\ cache' = ApplyBatchResults(docs, results)
      /\ queue' = RemoveBatches(queue, [i \in DOMAIN results |-> results[i].batch])
      /\ held' = SubSeq(held, n + 1, Len(held))
  BY DEF ReleaseHeldBatchResults, ReleaseBatchResults
<1>4. n \in 0 .. Len(held) /\ \A j \in 1 .. n : held[j].version <= version \/ active = {}
  BY <1>2
<1>5. n < Len(held) => active # {} /\ ~(held[n + 1].version <= version)
  <2>. SUFFICES ASSUME n < Len(held), active = {} \/ held[n + 1].version <= version
                PROVE  FALSE
    OBVIOUS
  <2>1. n + 1 \in 0 .. Len(held) /\ \A j \in 1 .. n + 1 : j \in 1 .. n \/ j = n + 1
    <3>. HIDE DEF n
    <3>. QED  BY <1>1, <1>4
  <2>2. n + 1 \in T
    BY <1>4, <2>1
  <2>3. ~(n + 1 <= n)
    <3>. HIDE DEF n
    <3>. QED  BY <1>4
  <2>. QED  BY <1>2, <2>2, <2>3
<1>. HIDE DEF n, T
<1>6. queue' = SubSeq(queue, n + 1, Len(queue))
  <2>. DEFINE gone == [i \in DOMAIN results |-> results[i].batch]
  <2>1. /\ results \in Seq(Results) /\ Len(results) = n
        /\ \A i \in 1 .. n : results[i] = held[i]
    <3>1. 0 \in 0 .. Len(held) /\ n \in 0 .. Len(held) /\ results = SubSeq(held, 0 + 1, n)
      BY <1>1, <1>4
    <3>2. /\ results \in Seq(Results) /\ Len(results) = n - 0
          /\ \A i \in 1 .. n - 0 : results[i] = held[0 + i]
      BY <1>1, <3>1, SliceElements
    <3>. HIDE DEF results
    <3>. QED  BY <1>4, <3>2
  <2>. HIDE DEF results
  <2>2. DOMAIN results = 1 .. n
    BY <2>1, LenProperties
  <2>3. gone = [i \in 1 .. n |-> results[i].batch]
    BY <2>2
  <2>4. \A i \in 1 .. n : i \in 1 .. Len(held) /\ gone[i] = queue[i] /\ gone[i] \in Batches
    <3>1. \A i \in 1 .. n : i \in 1 .. Len(held) /\ gone[i] = held[i].batch
      BY <1>1, <1>4, <2>1, <2>3
    <3>. HIDE DEF gone
    <3>. QED  BY <1>1, <3>1
  <2>5. gone \in Seq(Batches) /\ Len(gone) = n
    <3>1. gone \in [1 .. n -> Batches] /\ n \in Nat
      BY <1>1, <1>4, <2>3, <2>4
    <3>. HIDE DEF gone
    <3>. QED  BY <3>1, SeqDef, LenProperties
  <2>6. n \in 0 .. Len(queue)
    BY <1>1, <1>4
  <2>. HIDE DEF gone
  <2>. QED  BY <1>1, <1>3, <2>4, <2>5, <2>6, RemoveOldest DEF gone
<1>7. ReleasesFirst(docs, active, version, n)
  BY <1>3, <1>5, <1>6 DEF ReleasesFirst
<1>. QED  BY <1>4, <1>7

LEMMA QueueDrops ==
    ASSUME IInv, NEW n \in 0 .. Len(queue), queue' = SubSeq(queue, n + 1, Len(queue))
    PROVE  /\ queue' \in Seq(Batches) /\ Len(queue') = Len(queue) - n
           /\ \A i \in 1 .. Len(queue') : n + i \in 1 .. Len(queue) /\ queue'[i] = queue[n + i]
           /\ Increasing(queue', nextBatchID)
           /\ \A id, m : IsRow(queue, id, m) /\ n <= m => IsRow(queue', id, m - n)
<1>1. queue \in Seq(Batches) /\ Increasing(queue, nextBatchID)
  BY DEF IInv, TypeOK, QueueInv
<1>. QED  BY <1>1, DropOldest

LEMMA ReleaseKeeps ==
    ASSUME IInv, NEW docs \in [Keys -> Docs], ReleaseHeldBatchResults(docs, targets', snapVersion'),
           snapVersion' \in Nat, targets' \subseteq Keys,
           watch' \in [version : Nat, keys : SUBSET Keys], watch'.version <= Len(log),
           UNCHANGED <<nextBatchID, lastAcked, away, pendingWrites, lastBatchSeen>>,
           UNCHANGED <<stream, handshake, idle, up, down, log, written, faults>>
    PROVE  IInv'
<1>. DEFINE h == Len(held)
<1>0. PICK n \in 0 .. h : ReleasesFirst(docs, targets', snapVersion', n)
  BY Released
<1>1. /\ n < h => targets' # {} /\ ~(held[n + 1].version <= snapVersion')
      /\ cache' = ApplyBatchResults(docs, SubSeq(held, 1, n))
      /\ queue' = SubSeq(queue, n + 1, Len(queue))
      /\ held' = SubSeq(held, n + 1, Len(held))
  BY <1>0 DEF ReleasesFirst
<1>2. /\ h \in Nat /\ held \in Seq(Results)
      /\ queue \in Seq(Batches) /\ Len(queue) \in Nat
      /\ Increasing(queue, nextBatchID) /\ h <= Len(queue)
      /\ \A i \in 1 .. h : held[i].batch = queue[i] /\ held[i].version \in Nat
  BY Lengths DEF IInv, TypeOK, QueueInv, Results
<1>3. cache' \in [Keys -> Docs]
  <2>. DEFINE r == SubSeq(held, 1, n)
  <2>1. 0 \in 0 .. Len(held) /\ n \in 0 .. Len(held) /\ r = SubSeq(held, 0 + 1, n)
    BY <1>2
  <2>2. r \in Seq(Results)
    BY <1>2, <2>1, SliceElements
  <2>. HIDE DEF r
  <2>. QED  BY <1>1, <2>2, ResultsApplied DEF r
<1>4. /\ queue' \in Seq(Batches) /\ Len(queue') = Len(queue) - n
      /\ \A i \in 1 .. Len(queue') : n + i \in 1 .. Len(queue) /\ queue'[i] = queue[n + i]
      /\ Increasing(queue', nextBatchID)
      /\ \A id, m : IsRow(queue, id, m) /\ n <= m => IsRow(queue', id, m - n)
  <2>1. n \in 0 .. Len(queue)
    BY <1>2
  <2>2. queue' = SubSeq(queue, n + 1, Len(queue))
    BY <1>1
  <2>. QED  BY <2>1, <2>2, QueueDrops
<1>5. /\ held' \in Seq(Results) /\ Len(held') = h - n
      /\ \A i \in 1 .. Len(held') : n + i \in 1 .. h /\ held'[i] = held[n + i]
  <2>1. n \in 0 .. Len(held) /\ Len(held) \in n .. Len(held)
    BY <1>2
  <2>2. /\ held' \in Seq(Results) /\ Len(held') = Len(held) - n
        /\ \A i \in 1 .. Len(held) - n : held'[i] = held[n + i]
    BY <1>1, <1>2, <2>1, SliceElements
  <2>. QED  BY <1>2, <2>2
<1>. HIDE DEF h
<1>6. TypeOK'
  BY <1>3, <1>4, <1>5 DEF IInv, TypeOK, Docs, Results
<1>7. Len(held') \in Nat /\ (held' # <<>> => Len(held') \in 1 .. Len(held') /\ n < h)
  <2>1. Len(held') \in Nat /\ (held' # <<>> => Len(held') # 0)
    BY <1>5, EmptySeq, LenProperties
  <2>. QED  BY <1>2, <1>5, <2>1
<1>8. QueueInv'
  <2>1. Len(held') <= Len(queue')
    BY <1>2, <1>4, <1>5
  <2>2. ASSUME NEW i \in 1 .. Len(held') PROVE held'[i].batch = queue'[i]
    <3>1. i \in 1 .. Len(queue')
      BY <1>2, <1>4, <1>5
    <3>. QED  BY <1>2, <1>4, <1>5, <3>1
  <2>3. held' # <<>> => queue'[Len(held')].batchID = lastAcked
    <3>. SUFFICES ASSUME held' # <<>> PROVE queue'[Len(held')].batchID = lastAcked
      OBVIOUS
    <3>1. Len(held') \in 1 .. Len(queue') /\ n + Len(held') = h
      BY <1>2, <1>4, <1>5, <1>7, <2>1
    <3>2. held # <<>>
      <4>1. h # 0 /\ Len(<<>>) = 0
        BY <1>2, <1>7
      <4>. QED  BY <4>1 DEF h
    <3>3. queue[h].batchID = lastAcked
      BY <3>2 DEF IInv, QueueInv, h
    <3>. QED  BY <1>4, <3>1, <3>3
  <2>4. IsRow(queue', lastAcked, Len(held'))
    <3>1. IsRow(queue, lastAcked, h) /\ n <= h
      BY <1>2 DEF IInv, QueueInv, h
    <3>. QED  BY <1>4, <1>5, <3>1
  <2>5. lastAcked < nextBatchID /\ lastBatchSeen < nextBatchID
    BY DEF IInv, QueueInv
  <2>. QED  BY <1>4, <2>1, <2>2, <2>3, <2>4, <2>5 DEF QueueInv
<1>9. PipeInv'
  <2>. DEFINE p == Len(pendingWrites)
              id == SeenUpTo(lastBatchSeen, lastAcked)
              m == h + p
  <2>1. /\ lastAcked \in Ids /\ lastBatchSeen \in Ids /\ p <= MaxPending
        /\ pendingWrites \in Seq(Batches)
        /\ InPipeline(queue, h, pendingWrites) /\ IsRow(queue, id, m)
    BY DEF IInv, PipeInv, Aligned, h
  <2>2. p \in Nat
    BY Lengths DEF IInv
  <2>3. n <= m /\ m - n = Len(held') + p
    BY <1>2, <1>5, <2>2
  <2>. HIDE DEF m, id
  <2>4. IsRow(queue', id, m - n)
    BY <1>4, <2>1, <2>3
  <2>5. InPipeline(queue', Len(held'), pendingWrites)
    <3>1. h + p <= Len(queue) /\ \A i \in 1 .. p : pendingWrites[i] = queue[h + i]
      BY <2>1 DEF InPipeline
    <3>2. Len(held') + p <= Len(queue')
      BY <1>2, <1>4, <1>5, <2>2, <3>1
    <3>3. ASSUME NEW i \in 1 .. p PROVE pendingWrites[i] = queue'[Len(held') + i]
      <4>. DEFINE j == Len(held') + i
      <4>1. j \in 1 .. Len(queue') /\ n + j = h + i
        BY <1>2, <1>4, <1>5, <2>2, <3>1
      <4>. HIDE DEF j
      <4>2. queue'[j] = queue[n + j]
        BY <1>4, <4>1
      <4>. QED  BY <3>1, <4>1, <4>2 DEF j
    <3>. QED  BY <3>2, <3>3 DEF InPipeline
  <2>. QED  BY <1>7, <2>1, <2>3, <2>4, <2>5 DEF PipeInv, Aligned, id
<1>10. AwayInv' /\ StreamInv' /\ DownInv'
  BY DEF IInv, AwayInv, StreamInv, DownInv
<1>11. HeldInv'
  <2>1. held' # <<>> => targets' # {}
    BY <1>1, <1>7 DEF h
  <2>2. ASSUME NEW i \in 1 .. Len(held')
        PROVE  /\ held'[i].version > snapVersion'
               /\ held'[i].version \in 1 .. Len(log)
               /\ log[held'[i].version] = Content(held'[i].batch)
               /\ \A j \in 1 .. Len(held') : i < j => held'[i].version < held'[j].version
               /\ \A j \in 1 .. Len(down) : down[j] # Refused => held'[i].version < down[j]
    <3>1. n + i \in 1 .. h /\ held'[i] = held[n + i]
      BY <1>5
    <3>2. /\ held[n + i].version \in 1 .. Len(log)
          /\ log[held[n + i].version] = Content(held[n + i].batch)
          /\ \A j \in 1 .. Len(down) : down[j] # Refused => held[n + i].version < down[j]
      BY <3>1 DEF IInv, HeldInv, h
    <3>3. ASSUME NEW j \in 1 .. Len(held'), i < j
          PROVE  held'[i].version < held'[j].version
      <4>1. n + i < n + j
        BY <1>2, <1>7, <3>3
      <4>2. n + j \in 1 .. h /\ held'[j] = held[n + j]
        BY <1>5
      <4>. QED  BY <3>1, <4>1, <4>2 DEF IInv, HeldInv, h
    <3>4. held'[i].version > snapVersion'
      <4>1. n + 1 \in 1 .. h /\ n < h
        BY <1>2, <3>1
      <4>2. held[n + 1].version \in Nat /\ ~(held[n + 1].version <= snapVersion')
        BY <1>1, <1>2, <4>1 DEF h
      <4>3. n + i = n + 1 \/ n + 1 < n + i
        BY <1>2, <1>7
      <4>4. n + 1 < n + i => held[n + 1].version < held[n + i].version
        BY <3>1, <4>1 DEF IInv, HeldInv, h
      <4>5. held[n + i].version \in Nat
        BY <1>2, <3>1
      <4>. QED  BY <3>1, <4>2, <4>3, <4>4, <4>5
    <3>. QED  BY <3>1, <3>2, <3>3, <3>4
  <2>. QED  BY <2>1, <2>2 DEF HeldInv
<1>12. WatchInv'
  BY DEF WatchInv
<1>13. NothingLost'
  <2>1. ASSUME NEW i \in 1 .. Len(queue)
        PROVE  \/ \E j \in 1 .. Len(queue') : queue'[j] = queue[i]
               \/ \E j \in 1 .. Len(log) : log[j].value = queue[i].value
    <3>1. CASE i <= n
      <4>1. i \in 1 .. h
        BY <1>2, <3>1
      <4>2. held[i].version \in 1 .. Len(log) /\ log[held[i].version] = Content(queue[i])
        BY <1>2, <4>1 DEF IInv, HeldInv, h
      <4>3. log[held[i].version].value = queue[i].value
        BY <4>2 DEF Content
      <4>. QED  BY <4>2, <4>3
    <3>2. CASE ~(i <= n)
      <4>. DEFINE j == i - n
      <4>1. j \in 1 .. Len(queue') /\ n + j = i
        BY <1>2, <1>4, <3>2
      <4>. HIDE DEF j
      <4>. QED  BY <1>4, <4>1
    <3>. QED  BY <3>1, <3>2
  <2>2. LogKept
    BY DEF LogKept
  <2>. QED  BY <1>6, <2>1, <2>2, WritesKept
<1>. QED  BY <1>6, <1>8, <1>9, <1>10, <1>11, <1>12, <1>13 DEF IInv

LEMMA UnlistenKeeps == ASSUME IInv, NEW k \in Keys, Unlisten(k) PROVE IInv'
<1>1. /\ targets' = targets \ {k} /\ UNCHANGED <<nextBatchID, lastAcked, away, snapVersion>>
      /\ UNCHANGED <<pendingWrites, lastBatchSeen>>
      /\ UNCHANGED <<stream, handshake, idle, up, down, log, written, faults>>
      /\ watch' = IF targets' = {} THEN NoSnapshot ELSE [watch EXCEPT !.keys = @ \ {k}]
  BY DEF Unlisten, pipeVars
<1>2. /\ targets' \subseteq Keys /\ snapVersion' \in Nat /\ cache \in [Keys -> Docs]
      /\ watch \in [version : Nat, keys : SUBSET Keys] /\ watch.version <= Len(log)
      /\ Len(log) \in Nat
  BY <1>1, Lengths DEF IInv, TypeOK, Docs, WatchInv
<1>3. watch' \in [version : Nat, keys : SUBSET Keys] /\ watch'.version <= Len(log)
  <2>1. CASE targets' = {}
    BY <1>1, <1>2, <2>1 DEF NoSnapshot
  <2>2. CASE targets' # {}
    BY <1>1, <1>2, <2>2
  <2>. QED  BY <2>1, <2>2
<1>4. CASE targets' = {}
  <2>1. ReleaseHeldBatchResults(cache, targets', snapVersion')
    BY <1>1, <1>4 DEF Unlisten
  <2>. QED  BY <1>1, <1>2, <1>3, <2>1, ReleaseKeeps
<1>5. CASE targets' # {}
  <2>1. UNCHANGED <<localVars, pendingWrites, lastBatchSeen, written>> /\ log' = log
    BY <1>1, <1>5 DEF Unlisten, localVars, diskVars
  <2>2. TypeOK'
    BY <1>1, <1>2, <1>3, <2>1 DEF IInv, TypeOK, localVars, diskVars
  <2>3. StreamInv' /\ DownInv'
    BY <1>1 DEF IInv, StreamInv, DownInv
  <2>4. UNCHANGED <<held, snapVersion>>
    BY <2>1 DEF localVars, diskVars
  <2>5. HeldInv' /\ WatchInv'
    BY <1>1, <1>3, <1>5, <2>4 DEF IInv, HeldInv, WatchInv
  <2>. QED  BY <2>1, <2>2, <2>3, <2>5, QueuesStay DEF IInv, LogKept
<1>. QED  BY <1>4, <1>5

\* VersionOf is a position of the log.
LEMMA VersionIs ==
    ASSUME NEW k, NEW n \in Nat
    PROVE  /\ VersionOf(k, n) \in 0 .. n
           /\ VersionOf(k, n) # 0 => log[VersionOf(k, n)].key = k
           /\ \A i \in 1 .. n : log[i].key = k => i <= VersionOf(k, n)
<1>. DEFINE T == {i \in 1 .. n : log[i].key = k} \union {0}
<1>1. T \subseteq Int /\ T # {} /\ (\A y \in T : y <= n) /\ n \in Int
  OBVIOUS
<1>2. Max(T) \in T /\ \A y \in T : y <= Max(T)
  <2>. HIDE DEF T
  <2>. QED  BY <1>1, MaxElement, Zenon
<1>3. VersionOf(k, n) = Max(T)
  BY DEF VersionOf
<1>. HIDE DEF VersionOf
<1>4. \A i \in 1 .. n : log[i].key = k => i \in T
  OBVIOUS
<1>5. VersionOf(k, n) \in T
  BY <1>2, <1>3
<1>. QED  BY <1>2, <1>3, <1>4, <1>5

\* The documents of a snapshot are not older than what they replace.
LEMMA SnapshotTypes ==
    ASSUME IInv
    PROVE  [k \in Keys |->
              LET v == VersionOf(k, watch.version)
              IN  IF k \in watch.keys /\ v > cache[k].version
                  THEN [value |-> log[v].value, version |-> v]
                  ELSE cache[k]] \in [Keys -> Docs]
<1>1. /\ watch.version \in Nat /\ watch.version <= Len(log) /\ Len(log) \in Nat
      /\ \A i \in 1 .. Len(log) : log[i] \in Entries
      /\ \A k \in Keys : cache[k] \in Docs
  BY Lengths DEF IInv, TypeOK, WatchInv, Docs
<1>2. ASSUME NEW k \in Keys, NEW v, v = VersionOf(k, watch.version), v > cache[k].version
      PROVE  [value |-> log[v].value, version |-> v] \in Docs
  <2>1. v \in 0 .. watch.version
    BY <1>1, <1>2, VersionIs
  <2>2. cache[k].version \in Nat
    BY <1>1 DEF Docs
  <2>3. v \in 1 .. Len(log)
    BY <1>1, <1>2, <2>1, <2>2
  <2>. QED  BY <1>1, <2>1, <2>3 DEF Docs, Entries
<1>. QED  BY <1>1, <1>2

LEMMA SnapshotKeeps == ASSUME IInv, SnapshotArrives PROVE IInv'
<1>. DEFINE docs == [k \in Keys |->
                        LET v == VersionOf(k, watch.version)
                        IN  IF k \in watch.keys /\ v > cache[k].version
                            THEN [value |-> log[v].value, version |-> v]
                            ELSE cache[k]]
<1>1. /\ ReleaseHeldBatchResults(docs, targets, watch.version)
      /\ snapVersion' = watch.version /\ watch' = NoSnapshot
      /\ UNCHANGED <<nextBatchID, lastAcked, away, targets, pendingWrites, lastBatchSeen>>
      /\ UNCHANGED <<stream, handshake, idle, up, down, log, written, faults>>
  BY DEF SnapshotArrives, pipeVars
<1>2. docs \in [Keys -> Docs]
  BY SnapshotTypes
<1>. HIDE DEF docs
<1>3. /\ snapVersion' \in Nat /\ targets' \subseteq Keys
      /\ watch' \in [version : Nat, keys : SUBSET Keys] /\ watch'.version <= Len(log)
  <2>1. Len(log) \in Nat
    BY Lengths DEF IInv
  <2>. QED  BY <1>1, <2>1 DEF IInv, TypeOK, NoSnapshot
<1>4. ReleaseHeldBatchResults(docs, targets', snapVersion')
  BY <1>1
<1>. QED  BY <1>1, <1>2, <1>3, <1>4, ReleaseKeeps

-----------------------------------------------------------------------------
(***************************************************************************)
(* A new process, or a new user: batch ids start again behind what is in   *)
(* the queues, and acknowledged batches are dropped.                       *)
(***************************************************************************)

\* The next batch id is beyond both queues.
LEMMA NextIsBehind ==
    ASSUME NEW q \in Seq(Batches), NEW a \in Seq(Batches), NEW old \in Nat,
           Increasing(q, old), Increasing(a, old),
           NEW next, next = Max({b.batchID : b \in Range(q \o a)} \union {Unknown}) + 1
    PROVE  next \in Nat /\ Increasing(q, next) /\ Increasing(a, next)
<1>. DEFINE T == {b.batchID : b \in Range(q \o a)} \union {Unknown}
<1>1. Range(q \o a) = Range(q) \union Range(a)
  BY RangeConcatenation
<1>2. Range(q) = {q[i] : i \in 1 .. Len(q)} /\ Range(a) = {a[i] : i \in 1 .. Len(a)}
  BY RangeEquality
<1>3. /\ \A i \in 1 .. Len(q) : q[i].batchID \in Nat
      /\ \A i \in 1 .. Len(a) : a[i].batchID \in Nat
  BY BatchTypes
<1>4. /\ \A i \in 1 .. Len(q) : q[i].batchID < old
      /\ \A i \in 1 .. Len(a) : a[i].batchID < old
  BY DEF Increasing
<1>5. \A b \in Range(q \o a) : b.batchID \in Nat /\ b.batchID < old
  BY <1>1, <1>2, <1>3, <1>4
<1>6. T \subseteq Int /\ T # {} /\ (\A y \in T : y <= old) /\ Unknown \in T /\ old \in Int
  BY <1>5 DEF Unknown
<1>7. /\ \A i \in 1 .. Len(q) : q[i].batchID \in T
      /\ \A i \in 1 .. Len(a) : a[i].batchID \in T
  BY <1>1, <1>2
<1>8. next = Max(T) + 1
  OBVIOUS
<1>. HIDE DEF T
<1>9. Max(T) \in T /\ \A y \in T : y <= Max(T)
  BY <1>6, MaxElement, Zenon
<1>10. Max(T) \in Int /\ Unknown <= Max(T)
  BY <1>6, <1>9
<1>11. next \in Nat /\ \A y \in T : y < next
  <2>1. next \in Nat
    BY <1>8, <1>10 DEF Unknown
  <2>2. ASSUME NEW y \in T PROVE y < next
    <3>1. y \in Int /\ y <= Max(T)
      BY <1>6, <1>9
    <3>. QED  BY <1>8, <1>10, <3>1
  <2>. QED  BY <2>1, <2>2
<1>. QED  BY <1>7, <1>11 DEF Increasing

\* The batches that stay are those beyond the acknowledged id.
LEMMA AckedDropped ==
    ASSUME NEW q \in Seq(Batches), NEW next, Increasing(q, next), NEW id \in Int,
           NEW kept, kept = BatchesAfter(q, id)
    PROVE  /\ kept \in Seq(Batches) /\ Increasing(kept, next) /\ IsRow(kept, id, 0)
           /\ \A i \in 1 .. Len(q) :
                 q[i].batchID <= id \/ \E j \in 1 .. Len(kept) : kept[j] = q[i]
<1>. DEFINE n == RowOf(q, id)
<1>1. IsRow(q, id, n) /\ kept = SubSeq(q, n + 1, Len(q))
  BY RowExists DEF BatchesAfter
<1>. HIDE DEF n
<1>2. n \in 0 .. Len(q) /\ Len(q) \in Nat
  BY <1>1, BatchTypes DEF IsRow
<1>3. /\ kept \in Seq(Batches) /\ Len(kept) = Len(q) - n
      /\ \A i \in 1 .. Len(kept) : n + i \in 1 .. Len(q) /\ kept[i] = q[n + i]
      /\ Increasing(kept, next)
      /\ \A x, m : IsRow(q, x, m) /\ n <= m => IsRow(kept, x, m - n)
  BY <1>1, <1>2, DropOldest
<1>4. n <= n /\ n - n = 0
  BY <1>2
<1>5. IsRow(kept, id, 0)
  BY <1>1, <1>3, <1>4
<1>6. ASSUME NEW i \in 1 .. Len(q), ~(q[i].batchID <= id)
      PROVE  \E j \in 1 .. Len(kept) : kept[j] = q[i]
  <2>. DEFINE j == i - n
  <2>1. ~(i <= n)
    BY <1>1, <1>6 DEF IsRow
  <2>2. j \in 1 .. Len(kept) /\ n + j = i
    BY <1>2, <1>3, <2>1
  <2>. HIDE DEF j
  <2>. QED  BY <1>3, <2>2
<1>. QED  BY <1>3, <1>5, <1>6

\* The pipeline of a new stream.
LEMMA FirstFill ==
    ASSUME NEW q \in Seq(Batches), NEW next \in Nat, Increasing(q, next),
           NEW id \in Ids, IsRow(q, id, 0),
           NEW first, first = NextBatches(q, id, Room(<<>>)),
           NEW seen, seen = IF first = <<>> THEN Unknown ELSE Last(first).batchID
    PROVE  first \in Seq(Batches) /\ Aligned(q, id, seen, 0, first) /\ seen < next
<1>1. SeenUpTo(Unknown, id) = id /\ Unknown \in Ids
  BY DEF SeenUpTo, Ids, Unknown
<1>2. Aligned(q, id, Unknown, 0, <<>>)
  <2>1. Len(<<>>) = 0 /\ <<>> \in Seq(Batches) /\ Len(q) \in Nat
    BY BatchTypes
  <2>2. InPipeline(q, 0, <<>>)
    BY <2>1 DEF InPipeline
  <2>3. 0 <= MaxPending /\ 0 + 0 = 0 /\ 0 \in Nat
    BY ClientAssumption
  <2>. QED  BY <1>1, <2>1, <2>2, <2>3 DEF Aligned
<1>3. /\ first \in Seq(Batches) /\ Aligned(q, id, seen, 0, <<>> \o first)
      /\ seen = Unknown \/ \E i \in 1 .. Len(q) : seen = q[i].batchID
  <2>. DEFINE none == <<>>
  <2>1. Aligned(q, id, Unknown, 0, none) /\ first = NextBatches(q, SeenUpTo(Unknown, id), Room(none))
    BY <1>1, <1>2
  <2>. HIDE DEF none
  <2>2. first \in Seq(Batches) /\ Aligned(q, id, seen, 0, none \o first)
    BY <2>1, TakeBatches
  <2>3. seen = Unknown \/ \E i \in 1 .. Len(q) : seen = q[i].batchID
    BY <2>1, TakeBatches
  <2>. QED  BY <2>2, <2>3 DEF none
<1>4. <<>> \o first = first
  BY <1>3, ConcatEmptySeq
<1>5. seen < next
  BY <1>3 DEF Increasing, Unknown
<1>. QED  BY <1>3, <1>4, <1>5

\* Every batch of the queue that counts as acknowledged is in the log.
AckedInLog(q, id) ==
    \A i \in 1 .. Len(q) :
        q[i].batchID <= id => \E j \in 1 .. Len(log) : log[j].value = q[i].value

\* The state after a start, but for the targets and the queue that is put
\* away.
Started(q, others) ==
    /\ queue' \in Seq(Batches) /\ nextBatchID' \in Nat /\ lastAcked' \in Ids
    /\ up' \in Seq(Batches) /\ down' \in Seq(Nat)
    /\ stream' \in States /\ handshake' \in BOOLEAN /\ idle' \in BOOLEAN
    /\ faults' \in Nat /\ watch' = NoSnapshot /\ held' = <<>>
    /\ UNCHANGED <<cache, snapVersion, log, written>>
    /\ Increasing(q, nextBatchID') /\ Increasing(others, nextBatchID')
    /\ QueueInv' /\ PipeInv' /\ StreamInv' /\ DownInv' /\ WatchInv'
    /\ \A i \in 1 .. Len(q) :
          \/ \E j \in 1 .. Len(queue') : queue'[j] = q[i]
          \/ \E j \in 1 .. Len(log) : log[j].value = q[i].value

LEMMA StartKeeps ==
    ASSUME IInv, NEW q \in Seq(Batches), NEW others \in Seq(Batches), NEW onDisk \in Ids,
           Increasing(q, nextBatchID), Increasing(others, nextBatchID),
           AckedInLog(q, onDisk), StartClient(q, onDisk, others)
    PROVE  Started(q, others)
<1>. DEFINE next == Max({b.batchID : b \in Range(q \o others)} \union {Unknown}) + 1
            id == AckedOnStart(onDisk, next)
            kept == BatchesAfter(q, id)
            first == NextBatches(kept, id, Room(<<>>))
            seen == IF first = <<>> THEN Unknown ELSE Last(first).batchID
<1>1. /\ faults' = faults + 1 /\ nextBatchID' = next /\ lastAcked' = id /\ queue' = kept
      /\ held' = <<>> /\ watch' = NoSnapshot /\ pendingWrites' = first
      /\ lastBatchSeen' = seen /\ stream' = StreamAfter("Initial", first)
      /\ handshake' = FALSE /\ idle' = FALSE /\ up' = <<>> /\ down' = <<>>
      /\ UNCHANGED <<cache, snapVersion, log, written>>
  BY DEF StartClient
<1>2. next \in Nat /\ Increasing(q, next) /\ Increasing(others, next)
  <2>. HIDE DEF next
  <2>1. nextBatchID \in Nat
    BY DEF IInv, TypeOK
  <2>. QED  BY <2>1, NextIsBehind DEF next
<1>. HIDE DEF next
<1>3. id \in Ids /\ id \in Int /\ id < next /\ (id = Unknown \/ id = onDisk)
  BY <1>2 DEF AckedOnStart, Ids, Unknown
<1>. HIDE DEF id
<1>4. /\ kept \in Seq(Batches) /\ Increasing(kept, next) /\ IsRow(kept, id, 0)
      /\ \A i \in 1 .. Len(q) :
            q[i].batchID <= id \/ \E j \in 1 .. Len(kept) : kept[j] = q[i]
  <2>. HIDE DEF kept
  <2>. QED  BY <1>2, <1>3, AckedDropped DEF kept
<1>. HIDE DEF kept
<1>5. first \in Seq(Batches) /\ Aligned(kept, id, seen, 0, first) /\ seen < next
  <2>. HIDE DEF first, seen
  <2>. QED  BY <1>2, <1>3, <1>4, FirstFill DEF first, seen
<1>. HIDE DEF first, seen
<1>6. Len(<<>>) = 0 /\ <<>> \in Seq(Batches) /\ <<>> \in Seq(Nat)
  OBVIOUS
<1>7. /\ Len(up') = 0 /\ Len(down') = 0 /\ Len(held') = 0
      /\ up' \in Seq(Batches) /\ down' \in Seq(Nat)
  BY <1>1, <1>6
<1>8. QueueInv'
  <2>1. Len(kept) \in Nat
    BY <1>4, LenProperties
  <2>2. 0 <= Len(kept) /\ \A i \in 1 .. 0 : FALSE
    BY <2>1
  <2>. QED  BY <1>1, <1>3, <1>4, <1>5, <1>7, <2>2 DEF QueueInv
<1>9. PipeInv'
  BY <1>1, <1>5, <1>7 DEF PipeInv
<1>10. /\ stream' \in States
       /\ stream' \in {"Auth", "Open", "Backoff"} => pendingWrites' # <<>>
  BY <1>1 DEF StreamAfter, IsStarted, States
<1>11. StreamInv' /\ DownInv'
  BY <1>1, <1>7, <1>10 DEF StreamInv, DownInv
<1>12. WatchInv'
  <2>1. Len(log) \in Nat
    BY Lengths DEF IInv
  <2>. QED  BY <1>1, <2>1 DEF WatchInv, NoSnapshot
<1>13. ASSUME NEW i \in 1 .. Len(q), q[i].batchID <= id
       PROVE  \E j \in 1 .. Len(log) : log[j].value = q[i].value
  <2>1. q[i].batchID \in Nat
    BY BatchTypes
  <2>2. id = onDisk
    BY <1>3, <1>13, <2>1 DEF Unknown
  <2>. QED  BY <1>13, <2>2 DEF AckedInLog
<1>14. faults' \in Nat
  BY <1>1 DEF IInv, TypeOK
<1>. QED  BY <1>1, <1>2, <1>3, <1>4, <1>7, <1>8, <1>9, <1>10, <1>11, <1>12, <1>13, <1>14
          DEF Started

LEMMA StartedTypes ==
    ASSUME IInv, NEW q, NEW others, Started(q, others), targets' \subseteq Keys,
           away' \in [queue : Seq(Batches), lastAcked : Nat \union {Unknown}]
    PROVE  TypeOK' /\ HeldInv'
<1>1. watch' \in [version : Nat, keys : SUBSET Keys] /\ held' \in Seq(Results) /\ Len(held') = 0
  BY DEF Started, NoSnapshot
<1>2. HeldInv'
  BY <1>1 DEF Started, HeldInv
<1>3. TypeOK'
  BY <1>1 DEF Started, IInv, TypeOK, PipeInv, Aligned, Ids, States, Results
<1>. QED  BY <1>2, <1>3

\* What the invariant says of the queue of the current user.
LEMMA CurrentQueue ==
    ASSUME IInv
    PROVE  /\ queue \in Seq(Batches) /\ Increasing(queue, nextBatchID) /\ lastAcked \in Ids
           /\ AckedInLog(queue, lastAcked)
           /\ queue # <<>> => Last(queue).batchID >= lastAcked
<1>. DEFINE h == Len(held)
<1>1. /\ queue \in Seq(Batches) /\ Increasing(queue, nextBatchID) /\ lastAcked \in Ids
      /\ Len(queue) \in Nat /\ h \in Nat /\ h <= Len(queue) /\ IsRow(queue, lastAcked, h)
  BY Lengths DEF IInv, TypeOK, QueueInv, Ids
<1>2. AckedInLog(queue, lastAcked)
  <2>1. ASSUME NEW i \in 1 .. Len(queue), queue[i].batchID <= lastAcked
        PROVE  \E j \in 1 .. Len(log) : log[j].value = queue[i].value
    <3>1. i \in 1 .. h
      BY <1>1, <2>1 DEF IsRow
    <3>2. held[i].version \in 1 .. Len(log) /\ log[held[i].version] = Content(queue[i])
      BY <3>1 DEF IInv, QueueInv, HeldInv
    <3>3. log[held[i].version].value = queue[i].value
      BY <3>2 DEF Content
    <3>. QED  BY <3>2, <3>3
  <2>. QED  BY <2>1 DEF AckedInLog
<1>3. ASSUME queue # <<>> PROVE Last(queue).batchID >= lastAcked
  <2>1. Len(queue) \in 1 .. Len(queue) /\ Last(queue) = queue[Len(queue)]
    BY <1>1, <1>3, EmptySeq DEF Last
  <2>2. queue[Len(queue)].batchID \in Nat /\ lastAcked \in Int
    BY <1>1, <2>1, BatchTypes DEF Ids, Unknown
  <2>3. CASE h = Len(queue)
    <3>1. held # <<>>
      <4>1. h # 0 /\ Len(<<>>) = 0
        BY <2>1, <2>3
      <4>. QED  BY <4>1
    <3>. QED  BY <2>1, <2>2, <2>3, <3>1 DEF IInv, QueueInv
  <2>4. CASE h # Len(queue)
    <3>1. ~(Len(queue) <= h)
      BY <1>1, <2>4
    <3>2. ~(queue[Len(queue)].batchID <= lastAcked)
      BY <1>1, <2>1, <3>1 DEF IsRow
    <3>. QED  BY <2>1, <2>2, <3>2
  <2>. QED  BY <2>3, <2>4
<1>. QED  BY <1>1, <1>2, <1>3

\* ... and of the queue that is put away.
LEMMA AwayQueue ==
    ASSUME IInv
    PROVE  /\ away.queue \in Seq(Batches) /\ Increasing(away.queue, nextBatchID)
           /\ away.lastAcked \in Ids /\ AckedInLog(away.queue, away.lastAcked)
BY DEF IInv, TypeOK, AwayInv, AckedInLog, Ids

LEMMA RestartKeeps == ASSUME IInv, Restart PROVE IInv'
<1>1. StartClient(queue, lastAcked, away.queue) /\ targets' = {} /\ away' = away
  BY DEF Restart
<1>2. Started(queue, away.queue)
  BY <1>1, CurrentQueue, AwayQueue, StartKeeps
<1>3. TypeOK' /\ HeldInv'
  BY <1>1, <1>2, StartedTypes DEF IInv, TypeOK
<1>4. AwayInv'
  BY <1>1, <1>2 DEF Started, IInv, AwayInv
<1>5. NothingLost'
  <2>1. log' = log /\ written' = written
    BY <1>2 DEF Started
  <2>2. LogKept
    BY <2>1 DEF LogKept
  <2>. QED  BY <1>1, <1>2, <1>3, <2>1, <2>2, WritesKept DEF Started
<1>. QED  BY <1>2, <1>3, <1>4, <1>5 DEF Started, IInv

LEMMA UserDidChangeKeeps == ASSUME IInv, UserDidChange PROVE IInv'
<1>1. /\ StartClient(away.queue, away.lastAcked, queue) /\ targets' = targets
      /\ away' = [queue |-> queue, lastAcked |-> lastAcked]
  BY DEF UserDidChange
<1>2. Started(away.queue, queue)
  BY <1>1, CurrentQueue, AwayQueue, StartKeeps
<1>3. away'.queue = queue /\ away'.lastAcked = lastAcked /\ log' = log /\ written' = written
  BY <1>1, <1>2 DEF Started
<1>4. TypeOK' /\ HeldInv'
  BY <1>1, <1>2, StartedTypes DEF IInv, TypeOK
<1>5. AwayInv'
  <2>1. Increasing(queue, nextBatchID')
    BY <1>2 DEF Started
  <2>. QED  BY <1>3, <2>1, CurrentQueue DEF AwayInv, AckedInLog
<1>6. NothingLost'
  <2>1. ASSUME NEW n \in (1 .. written') \ Bad PROVE Kept(queue', away'.queue, log', n)
    <3>1. Kept(queue, away.queue, log, n)
      BY <1>3, <2>1, KeptBefore
    <3>2. \A i \in 1 .. Len(away.queue) :
             \/ \E j \in 1 .. Len(queue') : queue'[j] = away.queue[i]
             \/ \E j \in 1 .. Len(log) : log[j].value = away.queue[i].value
      BY <1>2 DEF Started
    <3>. QED  BY <1>3, <3>1, <3>2 DEF Kept
  <2>. QED  BY <1>4, <2>1, KeptAfter
<1>. QED  BY <1>2, <1>4, <1>5, <1>6 DEF Started, IInv

-----------------------------------------------------------------------------
(***************************************************************************)
(* The invariants.                                                         *)
(***************************************************************************)

LEMMA IInvInit == Init => IInv
<1>. SUFFICES ASSUME Init PROVE IInv
  OBVIOUS
<1>. USE DEF Init
<1>1. Len(<<>>) = 0 /\ \A S : <<>> \in Seq(S)
  OBVIOUS
<1>2. TypeOK
  <2>1. cache \in [Keys -> [value : 0 .. MaxWrites, version : Nat]]
    BY ClientAssumption DEF Other
  <2>2. watch \in [version : Nat, keys : SUBSET Keys] /\ targets \subseteq Keys
    BY DEF NoSnapshot
  <2>3. away \in [queue : Seq(Batches), lastAcked : Nat \union {Unknown}]
    BY <1>1
  <2>4. Len(pendingWrites) <= MaxPending
    BY <1>1, ClientAssumption
  <2>5. /\ queue \in Seq(Batches) /\ pendingWrites \in Seq(Batches) /\ up \in Seq(Batches)
        /\ held \in Seq([batch : Batches, version : Nat]) /\ down \in Seq(Nat)
        /\ log \in Seq([key : Keys, value : 0 .. MaxWrites])
    BY <1>1
  <2>. QED  BY <2>1, <2>2, <2>3, <2>4, <2>5 DEF TypeOK
<1>3. IsRow(queue, lastAcked, 0) /\ Increasing(queue, nextBatchID)
  BY <1>1 DEF IsRow, Increasing
<1>4. QueueInv
  BY <1>1, <1>3 DEF QueueInv, Unknown
<1>5. PipeInv
  BY <1>1, ClientAssumption DEF PipeInv, Aligned, InPipeline, IsRow, Ids
<1>6. AwayInv /\ StreamInv /\ DownInv /\ HeldInv /\ WatchInv
  BY <1>1 DEF AwayInv, Increasing, StreamInv, DownInv, HeldInv, WatchInv, NoSnapshot
<1>7. NothingLost
  BY DEF NothingLost
<1>. QED  BY <1>2, <1>4, <1>5, <1>6, <1>7 DEF IInv

\* Nothing of the state has changed.
LEMMA IInvStutter == ASSUME IInv, UNCHANGED vars PROVE IInv'
<1>1. /\ UNCHANGED <<localVars, pendingWrites, lastBatchSeen, written>> /\ log' = log
      /\ UNCHANGED <<targets, stream, handshake, idle, up, down, watch, faults>>
  BY DEF vars, pipeVars
<1>2. TypeOK'
  BY <1>1 DEF IInv, TypeOK, localVars, diskVars
<1>3. StreamInv' /\ DownInv' /\ HeldInv' /\ WatchInv'
  BY <1>1 DEF IInv, StreamInv, DownInv, HeldInv, WatchInv, localVars, diskVars
<1>. QED  BY <1>1, <1>2, <1>3, QueuesStay DEF IInv, LogKept

LEMMA IInvStep == IInv /\ [Next]_vars => IInv'
<1>. SUFFICES ASSUME IInv, [Next]_vars PROVE IInv'
  OBVIOUS
<1>1. ASSUME NEW k \in Keys, Write(k) PROVE IInv'
  BY <1>1, WriteKeeps
<1>2. ASSUME NEW k \in Keys, OtherWrites(k) PROVE IInv'
  BY <1>2, OtherWritesKeeps
<1>3. ASSUME NEW k \in Keys, Listen(k) PROVE IInv'
  BY <1>3, WatchKeeps
<1>4. ASSUME NEW k \in Keys, Unlisten(k) PROVE IInv'
  BY <1>4, UnlistenKeeps
<1>5. CASE TokenArrives \/ BackoffEnds
  BY <1>5, StartsKeep
<1>6. CASE HandshakeCompletes
  BY <1>6, HandshakeKeeps
<1>7. CASE StreamFails \/ IdleCloses
  BY <1>7, ClosesKeep
<1>8. CASE Restart
  BY <1>8, RestartKeeps
<1>9. CASE UserDidChange
  BY <1>9, UserDidChangeKeeps
<1>10. CASE BackendCommits
  BY <1>10, BackendCommitsKeeps
<1>11. CASE BackendRefuses
  BY <1>11, BackendRefusesKeeps
<1>12. CASE BackendNotifies
  BY <1>12, WatchKeeps
<1>13. CASE ResponseArrives
  BY <1>13, ResponseKeeps
<1>14. CASE ErrorArrives
  BY <1>14, ErrorKeeps
<1>15. CASE SnapshotArrives
  BY <1>15, SnapshotKeeps
<1>16. CASE UNCHANGED vars
  BY <1>16, IInvStutter
<1>. QED  BY <1>1, <1>2, <1>3, <1>4, <1>5, <1>6, <1>7, <1>8, <1>9, <1>10, <1>11,
             <1>12, <1>13, <1>14, <1>15, <1>16 DEF Next

LEMMA IInvAlways == Spec => []IInv
BY IInvInit, IInvStep, PTL DEF Spec

\* Whatever is written, lost, refused, killed or signed in: the state keeps
\* its types, and the pipeline never holds more than kMaxPendingWrites.
THEOREM ClientTypes == Spec => []TypeOK
<1>1. IInv => TypeOK
  BY DEF IInv
<1>. QED  BY <1>1, IInvAlways, PTL

\* The part of the queue that is not acknowledged is what follows the held
\* batches.
LEMMA Unacked ==
    ASSUME IInv
    PROVE  LET rest == BatchesAfter(queue, lastAcked)
               h == Len(held)
           IN  /\ h \in 0 .. Len(queue)
               /\ rest \in Seq(Batches) /\ Len(rest) = Len(queue) - h
               /\ \A i \in 1 .. Len(rest) : h + i \in 1 .. Len(queue) /\ rest[i] = queue[h + i]
<1>. DEFINE rest == BatchesAfter(queue, lastAcked)
            h == Len(held)
<1>1. /\ queue \in Seq(Batches) /\ Increasing(queue, nextBatchID)
      /\ IsRow(queue, lastAcked, h)
  BY DEF IInv, TypeOK, QueueInv
<1>2. h \in 0 .. Len(queue)
  BY <1>1 DEF IsRow
<1>3. rest = SubSeq(queue, h + 1, Len(queue))
  BY <1>1, RowIs DEF BatchesAfter
<1>. HIDE DEF h, rest
<1>4. /\ rest \in Seq(Batches) /\ Len(rest) = Len(queue) - h
      /\ \A i \in 1 .. Len(rest) : h + i \in 1 .. Len(queue) /\ rest[i] = queue[h + i]
  BY <1>1, <1>2, <1>3, DropOldest
<1>. QED  BY <1>2, <1>4 DEF h, rest

LEMMA MatchFollows == IInv => ResponsesMatch
<1>. SUFFICES ASSUME IInv PROVE ResponsesMatch
  OBVIOUS
<1>. DEFINE rest == BatchesAfter(queue, lastAcked)
            h == Len(held)
            p == Len(pendingWrites)
<1>1. /\ h \in 0 .. Len(queue) /\ rest \in Seq(Batches) /\ Len(rest) = Len(queue) - h
      /\ \A i \in 1 .. Len(rest) : rest[i] = queue[h + i]
  BY Unacked
<1>2. /\ Len(queue) \in Nat /\ p \in Nat /\ Len(up) \in Nat /\ Len(down) \in Nat
      /\ pendingWrites \in Seq(Batches)
      /\ DOMAIN up = 1 .. Len(up) /\ DOMAIN down = 1 .. Len(down)
  BY Lengths, LenProperties DEF IInv, TypeOK
<1>3. h + p <= Len(queue) /\ \A i \in 1 .. p : pendingWrites[i] = queue[h + i]
  BY DEF IInv, PipeInv, Aligned, InPipeline
<1>. HIDE DEF rest, h, p
<1>4. p <= Len(rest) /\ p \in 0 .. Len(rest) /\ 0 \in 0 .. Len(rest)
  BY <1>1, <1>2, <1>3
<1>5. SubSeq(pendingWrites, 1, p) = pendingWrites
  BY <1>2, SubSeqFull DEF p
<1>6. SubSeq(rest, 1, p) = pendingWrites
  <2>. DEFINE s == SubSeq(rest, 1, p)
  <2>1. /\ s \in Seq(Batches) /\ Len(s) = p - 0
        /\ \A i \in 1 .. p - 0 : s[i] = rest[0 + i]
    <3>1. s = SubSeq(rest, 0 + 1, p)
      OBVIOUS
    <3>. QED  BY <1>1, <1>4, <3>1, SliceElements
  <2>. HIDE DEF s
  <2>2. Len(s) = Len(pendingWrites)
    BY <1>2, <2>1 DEF p
  <2>3. \A i \in 1 .. Len(s) : s[i] = pendingWrites[i]
    <3>1. ASSUME NEW i \in 1 .. p PROVE s[i] = pendingWrites[i]
      <4>1. i \in 1 .. p - 0 /\ 0 + i = i /\ i \in 1 .. Len(rest)
        BY <1>2, <1>4
      <4>. QED  BY <1>1, <1>3, <2>1, <4>1
    <3>. QED  BY <2>2, <3>1 DEF p
  <2>. QED  BY <1>2, <2>1, <2>2, <2>3, SeqEqual DEF s
<1>7. IsPrefix(pendingWrites, rest)
  BY <1>4, <1>5, <1>6 DEF IsPrefix, p
<1>8. Len(down) + Len(up) <= p
  <2>1. handshake \in BOOLEAN
    BY DEF IInv, TypeOK
  <2>. QED  BY <1>2, <2>1 DEF IInv, StreamInv, p
<1>. QED  BY <1>2, <1>7, <1>8 DEF IInv, DownInv, StreamInv, ResponsesMatch, rest, p

\* Responses carry no batch id, and yet none is taken for that of another
\* write: for every size of the pipeline and every order of broken streams,
\* rejected writes, restarts and changes of the user.
THEOREM MatchByPosition == Spec => []ResponsesMatch
BY MatchFollows, IInvAlways, PTL

\* No write is lost between the device's queues and the backend.
THEOREM WritesAreKept == Spec => []NothingLost
<1>1. IInv => NothingLost
  BY DEF IInv
<1>. QED  BY <1>1, IInvAlways, PTL

LEMMA IdsFollow == IInv => IdsIncrease
<1>. SUFFICES ASSUME IInv PROVE IdsIncrease
  OBVIOUS
<1>1. /\ lastAcked < nextBatchID /\ Increasing(queue, nextBatchID)
      /\ queue \in Seq(Batches) /\ Len(queue) \in Nat /\ DOMAIN queue = 1 .. Len(queue)
  BY BatchTypes DEF IInv, QueueInv, TypeOK
<1>2. ASSUME NEW i \in 1 .. Len(queue)
      PROVE  /\ queue[i].batchID < nextBatchID
             /\ \A j \in 1 .. i - 1 : queue[j].batchID < queue[i].batchID
  <2>1. ASSUME NEW j \in 1 .. i - 1 PROVE j \in 1 .. Len(queue) /\ j < i
    BY <1>1
  <2>. QED  BY <1>1, <2>1 DEF Increasing
<1>3. ASSUME NEW b \in Range(pendingWrites) PROVE b.batchID > lastAcked
  <2>1. /\ pendingWrites \in Seq(Batches) /\ Len(pendingWrites) \in Nat
        /\ Len(held) \in Nat /\ lastAcked \in Int
    BY Lengths DEF IInv, TypeOK, Unknown
  <2>2. PICK i \in 1 .. Len(pendingWrites) : b = pendingWrites[i]
    BY <2>1, RangeEquality
  <2>3. Len(held) + i \in 1 .. Len(queue) /\ b = queue[Len(held) + i]
    BY <1>1, <2>1, <2>2 DEF IInv, PipeInv, Aligned, InPipeline
  <2>4. ~(Len(held) + i <= Len(held))
    BY <2>1
  <2>5. ~(b.batchID <= lastAcked)
    BY <2>3, <2>4 DEF IInv, QueueInv, IsRow
  <2>6. b.batchID \in Nat
    BY <1>1, <2>3, BatchTypes
  <2>. QED  BY <2>1, <2>5, <2>6
<1>4. away.lastAcked >= nextBatchID => away.queue = <<>>
  <2>. SUFFICES ASSUME away.lastAcked >= nextBatchID, away.queue # <<>> PROVE FALSE
    OBVIOUS
  <2>. DEFINE a == away.queue
  <2>1. a \in Seq(Batches) /\ away.lastAcked \in Int /\ nextBatchID \in Int
    BY DEF IInv, TypeOK, Unknown
  <2>2. Increasing(a, nextBatchID) /\ Last(a).batchID >= away.lastAcked /\ a # <<>>
    BY DEF IInv, AwayInv
  <2>. HIDE DEF a
  <2>3. Len(a) \in 1 .. Len(a)
    BY <2>1, <2>2, EmptySeq, LenProperties
  <2>4. a[Len(a)].batchID \in Nat /\ a[Len(a)].batchID < nextBatchID
    BY <2>1, <2>2, <2>3, BatchTypes DEF Increasing
  <2>. QED  BY <2>1, <2>2, <2>4 DEF Last
<1>. QED  BY <1>1, <1>2, <1>3, <1>4 DEF IdsIncrease

\* Batch ids increase along the queue and beyond what was acknowledged, also
\* after they started again: the assertions of FSTLevelDBMutationQueue hold.
THEOREM IdsAreFresh == Spec => []IdsIncrease
BY IdsFollow, IInvAlways, PTL

LEMMA ContentsOf ==
    ASSUME NEW q \in Seq(Batches)
    PROVE  /\ Contents(q) \in Seq(Entries) /\ Len(Contents(q)) = Len(q)
           /\ \A i \in 1 .. Len(q) : Contents(q)[i] = Content(q[i])
<1>1. /\ Len(q) \in Nat /\ DOMAIN q = 1 .. Len(q)
      /\ \A i \in 1 .. Len(q) : q[i].key \in Keys /\ q[i].value \in 1 .. MaxWrites
  BY BatchTypes
<1>2. \A i \in 1 .. Len(q) : Content(q[i]) \in Entries
  BY <1>1, ClientAssumption DEF Content, Entries
<1>3. Contents(q) = [i \in 1 .. Len(q) |-> Content(q[i])]
  BY <1>1 DEF Contents
<1>4. Contents(q) \in [1 .. Len(q) -> Entries]
  BY <1>2, <1>3
<1>5. Contents(q) \in Seq(Entries) /\ Len(Contents(q)) = Len(q)
  <2>. DEFINE c == Contents(q)
  <2>1. c \in [1 .. Len(q) -> Entries]
    BY <1>4
  <2>. HIDE DEF c
  <2>2. c \in Seq(Entries) /\ Len(c) = Len(q)
    BY <1>1, <2>1, SeqDef, LenProperties
  <2>. QED  BY <2>2 DEF c
<1>. QED  BY <1>3, <1>5

LEMMA HeldFollows == IInv => HeldIsReleased
<1>. SUFFICES ASSUME IInv PROVE HeldIsReleased
  OBVIOUS
<1>. DEFINE rest == BatchesAfter(queue, lastAcked)
            h == Len(held)
            front == [i \in DOMAIN held |-> Content(held[i].batch)]
            back == Contents(rest)
            all == Contents(queue)
<1>1. /\ h \in 0 .. Len(queue) /\ rest \in Seq(Batches) /\ Len(rest) = Len(queue) - h
      /\ \A i \in 1 .. Len(rest) : h + i \in 1 .. Len(queue) /\ rest[i] = queue[h + i]
  BY Unacked
<1>2. /\ h \in Nat /\ DOMAIN held = 1 .. h /\ Len(queue) \in Nat /\ queue \in Seq(Batches)
      /\ \A i \in 1 .. h : held[i].batch = queue[i]
  BY Lengths, LenProperties DEF IInv, TypeOK, QueueInv
<1>3. all \in Seq(Entries) /\ Len(all) = Len(queue) /\ \A i \in 1 .. Len(queue) : all[i] = Content(queue[i])
  BY <1>2, ContentsOf
<1>4. back \in Seq(Entries) /\ Len(back) = Len(rest) /\ \A i \in 1 .. Len(rest) : back[i] = Content(rest[i])
  <2>. HIDE DEF rest
  <2>. QED  BY <1>1, ContentsOf
<1>5. front \in Seq(Entries) /\ Len(front) = h /\ \A i \in 1 .. h : front[i] = all[i]
  <2>0. \A i \in 1 .. h : i \in 1 .. Len(queue) /\ all[i] \in Entries
    <3>. HIDE DEF all, h
    <3>. QED  BY <1>1, <1>2, <1>3, ElementOfSeq
  <2>1. front = [i \in 1 .. h |-> all[i]]
    <3>1. \A i \in 1 .. h : Content(held[i].batch) = all[i]
      <4>. HIDE DEF all, h
      <4>. QED  BY <1>2, <1>3, <2>0
    <3>. HIDE DEF all, h
    <3>. QED  BY <1>2, <3>1
  <2>. HIDE DEF front, all, h
  <2>2. front \in [1 .. h -> Entries]
    BY <2>0, <2>1
  <2>. QED  BY <1>2, <2>1, <2>2, SeqDef, LenProperties
<1>. HIDE DEF rest, h, front, back, all
<1>6. all = front \o back
  <2>. DEFINE t == front \o back
  <2>1. /\ t \in Seq(Entries) /\ Len(t) = Len(front) + Len(back)
        /\ \A i \in 1 .. Len(front) : t[i] = front[i]
        /\ \A i \in 1 .. Len(back) : t[Len(front) + i] = back[i]
    <3>1. front \in Seq(Entries) /\ back \in Seq(Entries)
      BY <1>4, <1>5
    <3>. QED  BY <3>1, ConcatElements
  <2>. HIDE DEF t
  <2>2. Len(all) = Len(t)
    BY <1>1, <1>2, <1>3, <1>4, <1>5, <2>1
  <2>3. ASSUME NEW i \in 1 .. Len(all) PROVE all[i] = t[i]
    <3>1. CASE i <= h
      <4>1. i \in 1 .. h /\ i \in 1 .. Len(front)
        BY <1>2, <1>3, <1>5, <3>1
      <4>. QED  BY <1>5, <2>1, <4>1
    <3>2. CASE ~(i <= h)
      <4>. DEFINE j == i - h
      <4>1. j \in 1 .. Len(rest) /\ j \in 1 .. Len(back) /\ h + j = i /\ Len(front) + j = i
        BY <1>1, <1>2, <1>3, <1>4, <1>5, <3>2
      <4>2. i \in 1 .. Len(queue)
        BY <1>3
      <4>. HIDE DEF j
      <4>3. t[i] = back[j]
        BY <2>1, <4>1
      <4>4. back[j] = Content(queue[i])
        BY <1>1, <1>4, <4>1
      <4>. QED  BY <1>3, <4>2, <4>3, <4>4
    <3>. QED  BY <3>1, <3>2
  <2>4. all = t
    BY <1>3, <2>1, <2>2, <2>3, SeqEqual
  <2>. QED  BY <2>4 DEF t
<1>7. /\ held # <<>> => targets # {}
      /\ \A i \in DOMAIN held : held[i].version > snapVersion
  BY <1>2 DEF IInv, HeldInv, h
<1>. QED  BY <1>6, <1>7 DEF HeldIsReleased, rest, front, back, all

\* An acknowledged write is never held back without a target whose next
\* snapshot releases it, and what is held is the acknowledged part of the
\* queue.
THEOREM HeldOnlyForSnapshots == Spec => []HeldIsReleased
BY HeldFollows, IInvAlways, PTL

LEMMA IdleFollows == IInv => IdleHasNoWork
<1>. SUFFICES ASSUME IInv, idle PROVE pendingWrites = <<>> /\ up = <<>> /\ down = <<>>
  BY DEF IdleHasNoWork
<1>1. /\ up \in Seq(Batches) /\ down \in Seq(Nat) /\ Len(up) \in Nat /\ Len(down) \in Nat
  BY Lengths DEF IInv, TypeOK
<1>2. pendingWrites = <<>> /\ Len(down) + Len(up) = Len(pendingWrites)
  BY DEF IInv, StreamInv
<1>3. Len(<<>>) = 0
  OBVIOUS
<1>4. Len(down) = 0 /\ Len(up) = 0
  BY <1>1, <1>2, <1>3
<1>. QED  BY <1>1, <1>2, <1>4, EmptySeq

\* The idle timer never closes a stream with a request, a response or a
\* write under way.
THEOREM IdleIsIdle == Spec => []IdleHasNoWork
BY IdleFollows, IInvAlways, PTL

=============================================================================
