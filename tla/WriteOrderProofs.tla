--------------------------- MODULE WriteOrderProofs ---------------------------
(***************************************************************************)
(* What the write path of the Firestore client promises from step to step: *)
(* documents never go back to an older version, and the writes of the      *)
(* device are those of WriteOrder.                                         *)
(***************************************************************************)
EXTENDS WriteClientProofs

(***************************************************************************)
(* Versions.                                                               *)
(***************************************************************************)

\* The versions of a document and of the results held for it.
KnownSet(results, k, version) ==
    {version} \union
    {results[i].version : i \in {j \in DOMAIN results : results[j].batch.key = k}}

LEMMA KnownIs ==
    ASSUME NEW results \in Seq(Results), NEW k, NEW version \in Nat, NEW bound \in Nat, version <= bound,
           \A i \in 1 .. Len(results) : results[i].version <= bound
    PROVE  /\ Max(KnownSet(results, k, version)) \in Nat /\ version <= Max(KnownSet(results, k, version))
           /\ \A i \in 1 .. Len(results) :
                 results[i].batch.key = k => results[i].version <= Max(KnownSet(results, k, version))
           /\ \/ Max(KnownSet(results, k, version)) = version
              \/ \E i \in 1 .. Len(results) :
                    results[i].batch.key = k /\ Max(KnownSet(results, k, version)) = results[i].version
<1>. DEFINE T == KnownSet(results, k, version)
<1>1. /\ Len(results) \in Nat /\ DOMAIN results = 1 .. Len(results)
      /\ \A i \in 1 .. Len(results) : results[i].version \in Nat
  <2>1. \A i \in 1 .. Len(results) : results[i] \in Results
    BY ElementOfSeq
  <2>. QED  BY <2>1, LenProperties DEF Results
<1>2. T = KnownSet(results, k, version)
  OBVIOUS
<1>3. T \subseteq Int /\ T # {} /\ (\A y \in T : y <= bound) /\ bound \in Int
  BY <1>1 DEF KnownSet
<1>4. /\ version \in T
      /\ \A i \in 1 .. Len(results) : results[i].batch.key = k => results[i].version \in T
      /\ \A y \in T : y = version \/ \E i \in 1 .. Len(results) :
                                         results[i].batch.key = k /\ y = results[i].version
  BY <1>1 DEF KnownSet
<1>. HIDE DEF T
<1>5. Max(T) \in T /\ \A y \in T : y <= Max(T)
  BY <1>3, MaxElement, Zenon
<1>6. Max(T) \in Nat
  BY <1>1, <1>4, <1>5
<1>. QED  BY <1>2, <1>4, <1>5, <1>6

LEMMA KnownBounds ==
    ASSUME IInv, NEW k \in Keys
    PROVE  /\ KnownVersion(k) \in Nat /\ cache[k].version <= KnownVersion(k)
           /\ \A i \in 1 .. Len(held) :
                 held[i].batch.key = k => held[i].version <= KnownVersion(k)
           /\ \/ KnownVersion(k) = cache[k].version
              \/ \E i \in 1 .. Len(held) :
                    held[i].batch.key = k /\ KnownVersion(k) = held[i].version
<1>. DEFINE v == cache[k].version
            T == KnownSet(held, k, v)
            bound == v + Len(log)
<1>1. v \in Nat /\ held \in Seq(Results) /\ Len(log) \in Nat
  BY Lengths DEF IInv, TypeOK, Results
<1>2. bound \in Nat /\ v <= bound
  BY <1>1
<1>3. \A i \in 1 .. Len(held) : held[i].version <= bound
  <2>1. \A i \in 1 .. Len(held) : held[i].version \in 1 .. Len(log)
    BY DEF IInv, HeldInv
  <2>. HIDE DEF v
  <2>. QED  BY <1>1, <2>1
<1>4. KnownVersion(k) = Max(T)
  BY DEF KnownVersion, KnownSet
<1>. HIDE DEF v, bound, T
<1>5. /\ Max(T) \in Nat /\ v <= Max(T)
      /\ \A i \in 1 .. Len(held) : held[i].batch.key = k => held[i].version <= Max(T)
      /\ \/ Max(T) = v
         \/ \E i \in 1 .. Len(held) : held[i].batch.key = k /\ Max(T) = held[i].version
  BY <1>1, <1>2, <1>3, KnownIs DEF T
<1>. QED  BY <1>4, <1>5 DEF v

LEMMA KnownBoundsNext ==
    ASSUME IInv', NEW k \in Keys
    PROVE  /\ KnownVersion(k)' \in Nat /\ cache'[k].version <= KnownVersion(k)'
           /\ \A i \in 1 .. Len(held') :
                 held'[i].batch.key = k => held'[i].version <= KnownVersion(k)'
<1>. DEFINE v == cache'[k].version
            s == held'
            T == KnownSet(s, k, v)
            bound == v + Len(log')
<1>1. v \in Nat /\ s \in Seq(Results) /\ Len(log') \in Nat
  BY LenProperties DEF IInv, TypeOK, Results
<1>2. bound \in Nat /\ v <= bound
  BY <1>1
<1>3. \A i \in 1 .. Len(s) : s[i].version <= bound
  <2>1. \A i \in 1 .. Len(s) : s[i].version \in 1 .. Len(log')
    BY DEF IInv, HeldInv
  <2>. HIDE DEF v
  <2>. QED  BY <1>1, <2>1
<1>4. KnownVersion(k)' = Max(T)
  BY DEF KnownVersion, KnownSet
<1>. HIDE DEF v, s, bound, T
<1>5. /\ Max(T) \in Nat /\ v <= Max(T)
      /\ \A i \in 1 .. Len(s) : s[i].batch.key = k => s[i].version <= Max(T)
  BY <1>1, <1>2, <1>3, KnownIs DEF T
<1>. QED  BY <1>4, <1>5 DEF v, s

\* What is known stays known if it is held on or goes to the cache.
LEMMA KnownGrows ==
    ASSUME IInv, IInv', NEW k \in Keys, cache'[k].version >= cache[k].version,
           \A i \in 1 .. Len(held) :
              held[i].batch.key = k =>
                 \/ cache'[k].version >= held[i].version
                 \/ \E j \in 1 .. Len(held') : held'[j] = held[i]
    PROVE  KnownVersion(k)' >= KnownVersion(k)
<1>1. /\ KnownVersion(k)' \in Nat /\ cache'[k].version <= KnownVersion(k)'
      /\ \A i \in 1 .. Len(held') :
            held'[i].batch.key = k => held'[i].version <= KnownVersion(k)'
  BY KnownBoundsNext
<1>2. cache'[k].version \in Nat /\ cache[k].version \in Nat
  BY DEF IInv, TypeOK
<1>3. CASE KnownVersion(k) = cache[k].version
  <2>. DEFINE x == KnownVersion(k)'
              y == cache'[k].version
  <2>1. x \in Nat /\ y \in Nat /\ y <= x /\ y >= cache[k].version
    BY <1>1, <1>2
  <2>. HIDE DEF x, y
  <2>2. x >= cache[k].version
    BY <1>2, <2>1
  <2>. QED  BY <1>3, <2>2 DEF x
<1>4. ASSUME NEW i \in 1 .. Len(held), held[i].batch.key = k, KnownVersion(k) = held[i].version
      PROVE  KnownVersion(k)' >= KnownVersion(k)
  <2>. DEFINE x == KnownVersion(k)'
              y == cache'[k].version
              z == held[i].version
  <2>1. x \in Nat /\ y \in Nat /\ y <= x
    BY <1>1, <1>2
  <2>2. z \in Nat
    BY Lengths DEF IInv, Results
  <2>3. y >= z \/ z <= x
    BY <1>1, <1>4
  <2>. HIDE DEF x, y, z
  <2>4. x >= z
    BY <2>1, <2>2, <2>3
  <2>. QED  BY <1>4, <2>4 DEF x, z
<1>. QED  BY <1>3, <1>4, KnownBounds

\* A step from which the cache and the results for document k come out
\* newer, or as they were.
Newer(k) ==
    /\ cache'[k].version >= cache[k].version
    /\ \A i \in 1 .. Len(held) :
          held[i].batch.key = k =>
             \/ cache'[k].version >= held[i].version
             \/ \E j \in 1 .. Len(held') : held'[j] = held[i]

LEMMA SameIsNewer ==
    ASSUME IInv, cache' = cache, held' = held, NEW k \in Keys
    PROVE  Newer(k)
<1>1. cache[k].version \in Nat
  BY DEF IInv, TypeOK
<1>. QED  BY <1>1 DEF Newer

\* Released results go to the cache in the order of their versions.
LEMMA ReleaseIsNewer ==
    ASSUME IInv, NEW docs \in [Keys -> Docs], NEW active, NEW version,
           ReleaseHeldBatchResults(docs, active, version),
           NEW k \in Keys, docs[k].version >= cache[k].version
    PROVE  Newer(k)
<1>0. PICK n \in 0 .. Len(held) : ReleasesFirst(docs, active, version, n)
  BY Released, Zenon
<1>1. /\ cache' = ApplyBatchResults(docs, SubSeq(held, 1, n))
      /\ held' = SubSeq(held, n + 1, Len(held))
  BY <1>0 DEF ReleasesFirst
<1>. DEFINE r == SubSeq(held, 1, n)
            new == ApplyBatchResults(docs, r)
<1>2. held \in Seq(Results) /\ Len(held) \in Nat
  BY Lengths DEF IInv, TypeOK, Results
<1>3. r \in Seq(Results) /\ Len(r) = n /\ \A i \in 1 .. n : r[i] = held[i]
  <2>1. 0 \in 0 .. Len(held) /\ n \in 0 .. Len(held) /\ r = SubSeq(held, 0 + 1, n)
    BY <1>2
  <2>2. r \in Seq(Results) /\ Len(r) = n - 0 /\ \A i \in 1 .. n - 0 : r[i] = held[0 + i]
    BY <1>2, <2>1, SliceElements
  <2>. HIDE DEF r
  <2>. QED  BY <2>2
<1>4. \A i \in 1 .. Len(held) - n : held'[i] = held[n + i] /\ Len(held') = Len(held) - n
  <2>1. n \in 0 .. Len(held) /\ Len(held) \in n .. Len(held)
    BY <1>2
  <2>2. held' = SubSeq(held, n + 1, Len(held))
    BY <1>1
  <2>. QED  BY <1>2, <2>1, <2>2, SliceElements
<1>. HIDE DEF r
<1>5. /\ new \in [Keys -> Docs] /\ new[k].version >= docs[k].version
      /\ (\A i, j \in 1 .. Len(r) : i < j => r[i].version < r[j].version)
         => \A i \in 1 .. Len(r) : r[i].batch.key = k => new[k].version >= r[i].version
  BY <1>3, ResultsApplied
<1>6. \A i, j \in 1 .. Len(r) : i < j => r[i].version < r[j].version
  <2>1. \A i \in 1 .. n : i \in 1 .. Len(held)
    BY <1>2
  <2>. QED  BY <1>3, <2>1 DEF IInv, HeldInv
<1>7. cache' = new
  BY <1>1 DEF r
<1>. HIDE DEF new
<1>8. new[k].version >= cache[k].version
  <2>1. new[k].version \in Nat /\ docs[k].version \in Nat /\ cache[k].version \in Nat
    BY <1>5 DEF Docs, IInv, TypeOK
  <2>. QED  BY <1>5, <2>1
<1>9. ASSUME NEW i \in 1 .. Len(held), held[i].batch.key = k
      PROVE  new[k].version >= held[i].version \/ \E j \in 1 .. Len(held') : held'[j] = held[i]
  <2>1. CASE i <= n
    <3>1. i \in 1 .. n
      BY <1>2, <2>1
    <3>. QED  BY <1>3, <1>5, <1>6, <1>9, <3>1
  <2>2. CASE ~(i <= n)
    <3>. DEFINE j == i - n
    <3>1. j \in 1 .. Len(held) - n /\ n + j = i
      BY <1>2, <2>2
    <3>. HIDE DEF j
    <3>2. held'[j] = held[n + j] /\ j \in 1 .. Len(held')
      BY <1>4, <3>1
    <3>. QED  BY <3>1, <3>2
  <2>. QED  BY <2>1, <2>2
<1>. QED  BY <1>7, <1>8, <1>9 DEF Newer

LEMMA ResponseIsNewer == ASSUME IInv, ResponseArrives, NEW k \in Keys PROVE Newer(k)
<1>. DEFINE r == [batch |-> Head(pendingWrites), version |-> Head(down)]
<1>1. cache[k].version \in Nat /\ held \in Seq(Results) /\ Len(held) \in Nat
  BY Lengths DEF IInv, TypeOK, Results
<1>2. CASE held' = Append(held, r) /\ cache' = cache
  <2>. HIDE DEF r
  <2>1. \A i \in 1 .. Len(held) : i \in 1 .. Len(held') /\ held'[i] = held[i]
    <3>1. \A i \in 1 .. Len(held) : i \in 1 .. Len(held) + 1
      BY <1>1
    <3>. QED  BY <1>1, <1>2, <3>1
  <2>. QED  BY <1>1, <1>2, <2>1 DEF Newer
<1>3. CASE ReleaseBatchResults(cache, <<r>>) /\ held' = held
  <2>1. down # <<>>
    BY DEF ResponseArrives
  <2>2. pendingWrites # <<>> /\ Len(down) \in Nat \ {0} /\ Head(down) = down[1]
    BY <2>1, FirstResponse
  <2>3. Head(pendingWrites) \in Batches /\ Head(down) \in Nat
    <3>1. 1 \in 1 .. Len(down)
      BY <2>2
    <3>. QED  BY <2>2, <3>1, OldestInPipeline, Lengths DEF IInv
  <2>4. <<r>> \in Seq(Results) /\ cache \in [Keys -> Docs]
    BY <2>3 DEF IInv, TypeOK, Docs, Results
  <2>5. cache' = ApplyBatchResults(cache, <<r>>)
    BY <1>3 DEF ReleaseBatchResults
  <2>. HIDE DEF r
  <2>6. cache'[k].version >= cache[k].version
    BY <2>4, <2>5, ResultsApplied
  <2>. QED  BY <1>3, <2>6 DEF Newer
<1>. QED  BY <1>2, <1>3 DEF ResponseArrives

LEMMA SnapshotIsNewer == ASSUME IInv, SnapshotArrives, NEW k \in Keys PROVE Newer(k)
<1>. DEFINE docs == [x \in Keys |->
                        LET v == VersionOf(x, watch.version)
                        IN  IF x \in watch.keys /\ v > cache[x].version
                            THEN [value |-> log[v].value, version |-> v]
                            ELSE cache[x]]
<1>1. ReleaseHeldBatchResults(docs, targets, watch.version)
  BY DEF SnapshotArrives
<1>2. docs \in [Keys -> Docs]
  BY SnapshotTypes
<1>3. docs[k].version >= cache[k].version
  <2>. DEFINE v == VersionOf(k, watch.version)
  <2>1. v \in Int /\ cache[k].version \in Nat
    <3>1. watch.version \in Nat
      BY DEF IInv, TypeOK
    <3>2. v \in 0 .. watch.version
      BY <3>1, VersionIs
    <3>. QED  BY <3>1, <3>2 DEF IInv, TypeOK
  <2>2. docs[k] = IF k \in watch.keys /\ v > cache[k].version
                  THEN [value |-> log[v].value, version |-> v] ELSE cache[k]
    OBVIOUS
  <2>. HIDE DEF docs, v
  <2>. QED  BY <2>1, <2>2
<1>. HIDE DEF docs
<1>. QED  BY <1>1, <1>2, <1>3, ReleaseIsNewer

LEMMA UnlistenIsNewer ==
    ASSUME IInv, NEW x \in Keys, Unlisten(x), NEW k \in Keys PROVE Newer(k)
<1>1. cache \in [Keys -> Docs] /\ cache[k].version >= cache[k].version
  BY DEF IInv, TypeOK, Docs
<1>2. CASE targets' = {}
  <2>1. ReleaseHeldBatchResults(cache, {}, snapVersion)
    BY <1>2 DEF Unlisten
  <2>. QED  BY <1>1, <2>1, ReleaseIsNewer
<1>3. CASE targets' # {}
  BY <1>3, SameIsNewer DEF Unlisten
<1>. QED  BY <1>2, <1>3

\* Every step of a process that goes on.
LEMMA StepIsNewer ==
    ASSUME IInv, [Next]_vars, NEW k \in Keys
    PROVE  Newer(k) \/ ((Restart \/ UserDidChange) /\ cache' = cache)
<1>1. CASE UNCHANGED <<cache, held>>
  BY <1>1, SameIsNewer
<1>2. ASSUME NEW x \in Keys, Write(x) PROVE UNCHANGED <<cache, held>>
  BY <1>2 DEF Write
<1>3. ASSUME NEW x \in Keys, OtherWrites(x) \/ Listen(x) PROVE UNCHANGED <<cache, held>>
  BY <1>3 DEF OtherWrites, Listen, localVars, diskVars
<1>4. ASSUME NEW x \in Keys, Unlisten(x) PROVE Newer(k)
  BY <1>4, UnlistenIsNewer
<1>5. CASE TokenArrives \/ HandshakeCompletes \/ BackoffEnds \/ UNCHANGED vars
  BY <1>1, <1>5 DEF TokenArrives, HandshakeCompletes, BackoffEnds, vars, localVars, diskVars
<1>6. CASE StreamFails \/ IdleCloses
  BY <1>1, <1>6 DEF StreamFails, IdleCloses, CloseStream, localVars, diskVars
<1>7. CASE BackendCommits \/ BackendRefuses \/ BackendNotifies
  BY <1>1, <1>7 DEF BackendCommits, BackendRefuses, BackendNotifies, localVars, diskVars
<1>8. CASE Restart \/ UserDidChange
  BY <1>8 DEF Restart, UserDidChange, StartClient
<1>9. CASE ErrorArrives
  BY <1>1, <1>9 DEF ErrorArrives
<1>10. CASE ResponseArrives
  BY <1>10, ResponseIsNewer
<1>11. CASE SnapshotArrives
  BY <1>11, SnapshotIsNewer
<1>. QED  BY <1>1, <1>2, <1>3, <1>4, <1>5, <1>6, <1>7, <1>8, <1>9, <1>10, <1>11 DEF Next

\* What a step does to the versions of document k.
LEMMA VersionsGrow ==
    ASSUME IInv, IInv', [Next]_vars, NEW k \in Keys
    PROVE  /\ cache'[k].version >= cache[k].version
           /\ Restart \/ UserDidChange \/ KnownVersion(k)' >= KnownVersion(k)
<1>1. CASE Newer(k)
  BY <1>1, KnownGrows DEF Newer
<1>2. CASE (Restart \/ UserDidChange) /\ cache' = cache
  <2>1. cache[k].version \in Nat
    BY DEF IInv, TypeOK
  <2>. QED  BY <1>2, <2>1
<1>. QED  BY <1>1, <1>2, StepIsNewer

\* Whichever order acknowledgements and snapshots come in, and however many
\* results are held, the cache never goes back to an older version of a
\* document, and while a process lives the device does not fall behind an
\* acknowledged write.
THEOREM VersionsNeverFall == Spec => NeverBackwards
<1>1. IInv /\ IInv' /\ [Next]_vars =>
         [\A k \in Keys : /\ cache'[k].version >= cache[k].version
                          /\ \/ Restart \/ UserDidChange
                             \/ KnownVersion(k)' >= KnownVersion(k)]_vars
  BY VersionsGrow
<1>. QED  BY <1>1, IInvAlways, PTL DEF Spec, NeverBackwards

-----------------------------------------------------------------------------
(***************************************************************************)
(* The variables of WriteOrder, as the client has them.                    *)
(***************************************************************************)

Todo == Contents(BatchesAfter(queue, lastAcked))
Away == Contents(BatchesAfter(away.queue, away.lastAcked))
Done == IF Contains(down, Refused) THEN Len(down) - 1 ELSE Len(down)
Doc == [k \in Keys |-> LET v == VersionOf(k, Len(log))
                       IN  IF v = 0 THEN Other ELSE log[v].value]

\* The contents of a queue behind row n.
LEMMA ContentsAfter ==
    ASSUME NEW q \in Seq(Batches), NEW next, Increasing(q, next), NEW id, NEW n, IsRow(q, id, n)
    PROVE  LET t == Contents(BatchesAfter(q, id))
           IN  /\ t \in Seq(Entries) /\ Len(t) = Len(q) - n
               /\ \A i \in 1 .. Len(q) - n : t[i] = Content(q[n + i])
<1>. DEFINE rest == BatchesAfter(q, id)
            t == Contents(rest)
<1>1. n \in 0 .. Len(q) /\ rest = SubSeq(q, n + 1, Len(q))
  BY RowIs DEF IsRow, BatchesAfter
<1>. HIDE DEF rest
<1>2. /\ rest \in Seq(Batches) /\ Len(rest) = Len(q) - n
      /\ \A i \in 1 .. Len(rest) : n + i \in 1 .. Len(q) /\ rest[i] = q[n + i]
  BY <1>1, DropOldest
<1>3. t \in Seq(Entries) /\ Len(t) = Len(rest) /\ \A i \in 1 .. Len(rest) : t[i] = Content(rest[i])
  BY <1>2, ContentsOf
<1>. HIDE DEF t
<1>. QED  BY <1>2, <1>3 DEF t, rest

\* The unacknowledged writes, now and after the step.
LEMMA TodoIs ==
    ASSUME IInv
    PROVE  /\ Todo \in Seq(Entries) /\ Len(Todo) = Len(queue) - Len(held)
           /\ Len(held) \in 0 .. Len(queue) /\ Len(queue) \in Nat /\ Len(held) \in Nat
           /\ \A i \in 1 .. Len(Todo) : Todo[i] = Content(queue[Len(held) + i])
<1>1. /\ queue \in Seq(Batches) /\ Increasing(queue, nextBatchID)
      /\ IsRow(queue, lastAcked, Len(held)) /\ Len(queue) \in Nat /\ Len(held) \in Nat
  BY Lengths DEF IInv, TypeOK, QueueInv
<1>2. Len(held) \in 0 .. Len(queue)
  BY <1>1 DEF IsRow
<1>3. /\ Todo \in Seq(Entries) /\ Len(Todo) = Len(queue) - Len(held)
      /\ \A i \in 1 .. Len(queue) - Len(held) : Todo[i] = Content(queue[Len(held) + i])
  BY <1>1, ContentsAfter DEF Todo
<1>. QED  BY <1>1, <1>2, <1>3

LEMMA TodoNext ==
    ASSUME IInv'
    PROVE  /\ Todo' \in Seq(Entries) /\ Len(Todo') = Len(queue') - Len(held')
           /\ Len(held') \in 0 .. Len(queue') /\ Len(queue') \in Nat /\ Len(held') \in Nat
           /\ \A i \in 1 .. Len(Todo') : Todo'[i] = Content(queue'[Len(held') + i])
<1>. DEFINE q == queue'
            h == Len(held')
            id == lastAcked'
            t == Contents(BatchesAfter(q, id))
<1>1. /\ q \in Seq(Batches) /\ Increasing(q, nextBatchID')
      /\ IsRow(q, id, h) /\ Len(q) \in Nat /\ h \in Nat
  BY LenProperties DEF IInv, TypeOK, QueueInv
<1>2. h \in 0 .. Len(q)
  BY <1>1 DEF IsRow
<1>3. Todo' = t
  BY DEF Todo
<1>. HIDE DEF q, h, id
<1>4. /\ t \in Seq(Entries) /\ Len(t) = Len(q) - h
      /\ \A i \in 1 .. Len(q) - h : t[i] = Content(q[h + i])
  BY <1>1, ContentsAfter
<1>. HIDE DEF t
<1>. QED  BY <1>1, <1>2, <1>3, <1>4 DEF q, h

\* The queue may lose acknowledged batches at its beginning.
LEMMA TodoStays ==
    ASSUME IInv, IInv', Len(queue') - Len(held') = Len(queue) - Len(held),
           \A i \in 1 .. Len(queue) - Len(held) :
              queue'[Len(held') + i] = queue[Len(held) + i]
    PROVE  Todo' = Todo
<1>. DEFINE t == Todo'
<1>1. /\ Todo \in Seq(Entries) /\ Len(Todo) = Len(queue) - Len(held)
      /\ \A i \in 1 .. Len(Todo) : Todo[i] = Content(queue[Len(held) + i])
  BY TodoIs
<1>2. /\ t \in Seq(Entries) /\ Len(t) = Len(queue') - Len(held')
      /\ \A i \in 1 .. Len(t) : t[i] = Content(queue'[Len(held') + i])
  BY TodoNext
<1>. HIDE DEF t
<1>3. Len(t) = Len(Todo) /\ \A i \in 1 .. Len(t) : t[i] = Todo[i]
  BY <1>1, <1>2
<1>4. t = Todo
  BY <1>1, <1>2, <1>3, SeqEqual
<1>. QED  BY <1>4 DEF t

\* The oldest unacknowledged write is settled.
LEMMA TodoLosesHead ==
    ASSUME IInv, IInv', Len(queue) - Len(held) \in Nat \ {0},
           Len(queue') - Len(held') = Len(queue) - Len(held) - 1,
           \A i \in 1 .. Len(queue) - Len(held) - 1 :
              queue'[Len(held') + i] = queue[Len(held) + (i + 1)]
    PROVE  Todo # <<>> /\ Todo' = Tail(Todo) /\ Head(Todo) = Todo[1]
<1>. DEFINE t == Todo'
            n == Len(queue) - Len(held)
<1>1. /\ Todo \in Seq(Entries) /\ Len(Todo) = n
      /\ \A i \in 1 .. n : Todo[i] = Content(queue[Len(held) + i])
  BY TodoIs
<1>2. /\ t \in Seq(Entries) /\ Len(t) = n - 1
      /\ \A i \in 1 .. n - 1 : t[i] = Content(queue[Len(held) + (i + 1)])
  BY TodoNext
<1>. HIDE DEF t
<1>3. n \in Nat \ {0}
  OBVIOUS
<1>. HIDE DEF n
<1>4. Todo # <<>>
  <2>1. Len(<<>>) = 0
    OBVIOUS
  <2>. QED  BY <1>1, <1>3, <2>1
<1>5. /\ Tail(Todo) \in Seq(Entries) /\ Len(Tail(Todo)) = n - 1 /\ Head(Todo) = Todo[1]
      /\ \A i \in 1 .. Len(Tail(Todo)) : Tail(Todo)[i] = Todo[i + 1]
  BY <1>1, <1>4, HeadTailProperties
<1>6. ASSUME NEW i \in 1 .. Len(t) PROVE t[i] = Tail(Todo)[i]
  <2>1. i \in 1 .. n - 1 /\ i + 1 \in 1 .. n
    BY <1>2, <1>3
  <2>. QED  BY <1>1, <1>2, <1>5, <2>1
<1>7. t = Tail(Todo)
  BY <1>2, <1>5, <1>6, SeqEqual
<1>. QED  BY <1>4, <1>5, <1>7 DEF t

\* The last write to each document is in force.
DocOf(entries) ==
    [k \in Keys |->
        LET v == Max({i \in 1 .. Len(entries) : entries[i].key = k} \union {0})
        IN  IF v = 0 THEN Other ELSE entries[v].value]

LEMMA DocAppend ==
    ASSUME NEW entries \in Seq(Entries), NEW e \in Entries
    PROVE  DocOf(Append(entries, e)) = [DocOf(entries) EXCEPT ![e.key] = e.value]
<1>. DEFINE n == Len(entries)
            new == Append(entries, e)
            T(k) == {i \in 1 .. n : entries[i].key = k} \union {0}
            U(k) == {i \in 1 .. n + 1 : new[i].key = k} \union {0}
            before(k) == IF Max(T(k)) = 0 THEN Other ELSE entries[Max(T(k))].value
            after(k) == IF Max(U(k)) = 0 THEN Other ELSE new[Max(U(k))].value
<1>1. /\ n \in Nat /\ new \in Seq(Entries) /\ Len(new) = n + 1
      /\ \A i \in 1 .. n : new[i] = entries[i]
      /\ new[n + 1] = e
  BY AppendProperties, LenProperties
<1>2. DocOf(entries) = [k \in Keys |-> before(k)]
  BY DEF DocOf
<1>3. DocOf(new) = [k \in Keys |-> after(k)]
  BY <1>1 DEF DocOf
<1>. HIDE DEF n, new
<1>4. ASSUME NEW k \in Keys PROVE after(k) = IF k = e.key THEN e.value ELSE before(k)
  <2>1. CASE k = e.key
    <3>1. U(k) \subseteq Int /\ n + 1 \in U(k) /\ \A y \in U(k) : y <= n + 1
      BY <1>1, <2>1
    <3>2. Max(U(k)) = n + 1
      <4>. HIDE DEF U
      <4>. QED  BY <3>1, MaxIs
    <3>3. n + 1 # 0
      BY <1>1
    <3>. QED  BY <1>1, <2>1, <3>2, <3>3
  <2>2. CASE k # e.key
    <3>1. U(k) = T(k)
      <4>1. \A i : i \in 1 .. n + 1 <=> i \in 1 .. n \/ i = n + 1
        BY <1>1
      <4>2. \A i \in 1 .. n : new[i].key = k <=> entries[i].key = k
        BY <1>1
      <4>. QED  BY <1>1, <2>2, <4>1, <4>2
    <3>2. T(k) \subseteq Int /\ T(k) # {} /\ (\A y \in T(k) : y <= n) /\ n \in Int
      BY <1>1
    <3>3. Max(T(k)) \in T(k)
      <4>. HIDE DEF T
      <4>. QED  BY <3>2, MaxElement, Zenon
    <3>4. Max(T(k)) # 0 => Max(T(k)) \in 1 .. n
      BY <3>3
    <3>5. Max(U(k)) = Max(T(k))
      BY <3>1
    <3>. HIDE DEF T, U
    <3>. QED  BY <1>1, <2>2, <3>4, <3>5
  <2>. QED  BY <2>1, <2>2
<1>5. e.key \in Keys
  BY DEF Entries
<1>. HIDE DEF before, after
<1>6. DocOf(new) = [DocOf(entries) EXCEPT ![e.key] = e.value]
  BY <1>2, <1>3, <1>4, <1>5
<1>. QED  BY <1>6 DEF new

LEMMA DocIs == Doc = DocOf(log) /\ Doc' = DocOf(log')
BY DEF Doc, DocOf, VersionOf

\* The backend takes a write.
LEMMA DocChanges ==
    ASSUME IInv, NEW e \in Entries, log' = Append(log, e)
    PROVE  Doc' = [Doc EXCEPT ![e.key] = e.value]
<1>1. log \in Seq(Entries)
  BY DEF IInv, TypeOK, Entries
<1>2. DocOf(Append(log, e)) = [DocOf(log) EXCEPT ![e.key] = e.value]
  BY <1>1, DocAppend
<1>. QED  BY <1>2, DocIs

\* Steps of WriteOrder.
LEMMA IsIssue ==
    ASSUME NEW k \in Keys, NEW v \in 0 .. MaxWrites,
           Todo' = Append(Todo, [key |-> k, value |-> v]), UNCHANGED <<Away, Done, Doc>>
    PROVE  Promise!Next
<1>1. Promise!Issue(k, v)
  BY DEF Todo, Away, Done, Doc, Promise!Issue
<1>. QED  BY <1>1 DEF Promise!Next

LEMMA IsInterfere ==
    ASSUME NEW k \in Keys, NEW v \in 0 .. MaxWrites,
           Doc' = [Doc EXCEPT ![k] = v], UNCHANGED <<Todo, Away, Done>>
    PROVE  Promise!Next
<1>1. Promise!Interfere(k, v)
  BY DEF Todo, Away, Done, Doc, Promise!Interfere
<1>. QED  BY <1>1 DEF Promise!Next

LEMMA IsApply ==
    ASSUME Done < Len(Todo),
           Doc' = [Doc EXCEPT ![Todo[Done + 1].key] = Todo[Done + 1].value],
           Done' = Done + 1, UNCHANGED <<Todo, Away>>
    PROVE  Promise!Next
<1>1. Promise!Apply
  BY DEF Todo, Away, Done, Doc, Promise!Apply
<1>. QED  BY <1>1 DEF Promise!Next

LEMMA IsSettle ==
    ASSUME Done > 0, Todo' = Tail(Todo), Done' = Done - 1, UNCHANGED <<Away, Doc>>
    PROVE  Promise!Next
<1>1. Promise!Settle
  BY DEF Todo, Away, Done, Doc, Promise!Settle
<1>. QED  BY <1>1 DEF Promise!Next

LEMMA IsRefuse ==
    ASSUME Done = 0, Todo # <<>>, Head(Todo).value \in Bad, Todo' = Tail(Todo),
           UNCHANGED <<Away, Done, Doc>>
    PROVE  Promise!Next
<1>1. Promise!Refuse
  BY DEF Todo, Away, Done, Doc, Promise!Refuse
<1>. QED  BY <1>1 DEF Promise!Next

LEMMA IsForget == ASSUME Done' = 0, UNCHANGED <<Todo, Away, Doc>> PROVE Promise!Next
<1>1. Promise!Forget
  BY DEF Todo, Away, Done, Doc, Promise!Forget
<1>. QED  BY <1>1 DEF Promise!Next

LEMMA IsChangeUser ==
    ASSUME Todo' = Away, Away' = Todo, Done' = 0, Doc' = Doc PROVE Promise!Next
<1>1. Promise!ChangeUser
  BY DEF Todo, Away, Done, Doc, Promise!ChangeUser
<1>. QED  BY <1>1 DEF Promise!Next

LEMMA IsStutter == ASSUME UNCHANGED <<Todo, Away, Done, Doc>> PROVE UNCHANGED Promise!vars
BY DEF Todo, Away, Done, Doc, Promise!vars

\* Steps that leave the queues alone.
LEMMA QueuesSame ==
    /\ UNCHANGED <<queue, lastAcked>> => Todo' = Todo
    /\ UNCHANGED away => Away' = Away
    /\ UNCHANGED down => Done' = Done
    /\ UNCHANGED log => Doc' = Doc
<1>1. UNCHANGED log => Doc' = Doc
  BY DocIs
<1>. QED  BY <1>1 DEF Todo, Away, Done

LEMMA NothingUnderWay == ASSUME down' = <<>> PROVE Done' = 0
<1>1. Len(down') = 0
  OBVIOUS
<1>2. ~Contains(down', Refused)
  BY <1>1 DEF Contains
<1>. QED  BY <1>1, <1>2 DEF Done

LEMMA WriteIsIssue == ASSUME IInv, IInv', NEW k \in Keys, Write(k) PROVE Promise!Next
<1>. DEFINE b == [batchID |-> nextBatchID, key |-> k, value |-> written + 1]
            e == [key |-> k, value |-> written + 1]
            t == Todo'
            n == Len(queue) - Len(held)
<1>1. /\ written < MaxWrites /\ queue' = Append(queue, b)
      /\ UNCHANGED <<away, held, down, log>>
  BY DEF Write
<1>2. /\ b \in Batches /\ written + 1 \in 0 .. MaxWrites /\ queue \in Seq(Batches)
  BY <1>1, ClientAssumption DEF IInv, TypeOK, Batches
<1>3. e \in Entries /\ Content(b) = e
  BY <1>2 DEF Entries, Content
<1>. HIDE DEF b
<1>4. /\ Len(queue') = Len(queue) + 1 /\ queue'[Len(queue) + 1] = b
      /\ \A i \in 1 .. Len(queue) : queue'[i] = queue[i]
  BY <1>1, <1>2, AppendProperties
<1>5. /\ Todo \in Seq(Entries) /\ Len(Todo) = n
      /\ Len(held) \in 0 .. Len(queue) /\ Len(queue) \in Nat /\ Len(held) \in Nat
      /\ \A i \in 1 .. Len(Todo) : Todo[i] = Content(queue[Len(held) + i])
  BY TodoIs
<1>6. /\ t \in Seq(Entries) /\ Len(t) = Len(queue') - Len(held')
      /\ \A i \in 1 .. Len(t) : t[i] = Content(queue'[Len(held') + i])
  BY TodoNext
<1>. HIDE DEF t, e, n
<1>7. /\ Append(Todo, e) \in Seq(Entries) /\ Len(Append(Todo, e)) = n + 1
      /\ \A i \in 1 .. n : Append(Todo, e)[i] = Todo[i]
      /\ Append(Todo, e)[n + 1] = e
  BY <1>3, <1>5, AppendProperties
<1>8. n \in Nat /\ Len(t) = n + 1
  BY <1>1, <1>4, <1>5, <1>6 DEF n
<1>9. ASSUME NEW i \in 1 .. n + 1 PROVE t[i] = Append(Todo, e)[i]
  <2>1. CASE i = n + 1
    <3>1. Len(held) + i = Len(queue) + 1
      BY <1>5, <2>1 DEF n
    <3>2. t[i] = Content(queue'[Len(held) + i])
      BY <1>1, <1>6, <1>8
    <3>. QED  BY <1>3, <1>4, <1>7, <2>1, <3>1, <3>2
  <2>2. CASE i # n + 1
    <3>1. i \in 1 .. n
      BY <1>8, <2>2
    <3>2. Len(held) + i \in 1 .. Len(queue)
      BY <1>5, <3>1 DEF n
    <3>3. t[i] = Content(queue'[Len(held) + i]) /\ Todo[i] = Content(queue[Len(held) + i])
      BY <1>1, <1>5, <1>6, <1>8, <3>1
    <3>. QED  BY <1>4, <1>7, <3>1, <3>2, <3>3
  <2>. QED  BY <2>1, <2>2
<1>10. t = Append(Todo, e)
  BY <1>6, <1>7, <1>8, <1>9, SeqEqual
<1>11. UNCHANGED <<Away, Done, Doc>>
  BY <1>1, QueuesSame
<1>. QED  BY <1>2, <1>10, <1>11, IsIssue DEF t, e

LEMMA OtherIsInterfere ==
    ASSUME IInv, NEW k \in Keys, OtherWrites(k) PROVE Promise!Next
<1>. DEFINE e == [key |-> k, value |-> Other]
<1>1. log' = Append(log, e) /\ UNCHANGED <<queue, lastAcked, away, down>>
  BY DEF OtherWrites, localVars, diskVars
<1>2. e \in Entries /\ Other \in 0 .. MaxWrites /\ e.key = k /\ e.value = Other
  BY ClientAssumption DEF Entries, Other
<1>. HIDE DEF e
<1>3. Doc' = [Doc EXCEPT ![e.key] = e.value]
  BY <1>1, <1>2, DocChanges
<1>. QED  BY <1>1, <1>2, <1>3, QueuesSame, IsInterfere

\* While the backend reads requests, every response is that of a write it
\* has applied.
LEMMA ServingDone ==
    ASSUME IInv, Serving
    PROVE  /\ Done = Len(down) /\ Done \in Nat /\ Done < Len(Todo)
           /\ up # <<>> /\ Head(up) \in Batches
           /\ Todo[Done + 1] = Content(Head(up))
<1>1. /\ up # <<>> /\ ~Contains(down, Refused) /\ up \in Seq(Batches)
      /\ Len(down) \in Nat /\ Len(up) \in Nat /\ Len(pendingWrites) \in Nat
  BY Lengths DEF Serving, IInv, TypeOK
<1>2. Done = Len(down)
  BY <1>1 DEF Done
<1>3. Len(up) \in Nat \ {0} /\ Head(up) = up[1] /\ Head(up) \in Batches
  BY <1>1, EmptySeq, HeadTailProperties
<1>4. handshake /\ Len(down) + Len(up) = Len(pendingWrites)
  BY <1>1, <1>3 DEF IInv, StreamInv
<1>5. Head(up) = pendingWrites[Len(down) + 1]
  BY <1>3 DEF IInv, StreamInv
<1>6. /\ Len(Todo) = Len(queue) - Len(held) /\ Len(queue) \in Nat /\ Len(held) \in Nat
      /\ \A i \in 1 .. Len(Todo) : Todo[i] = Content(queue[Len(held) + i])
  BY TodoIs
<1>7. /\ Len(held) + Len(pendingWrites) <= Len(queue)
      /\ \A i \in 1 .. Len(pendingWrites) : pendingWrites[i] = queue[Len(held) + i]
  BY DEF IInv, PipeInv, Aligned, InPipeline
<1>8. /\ Len(down) < Len(Todo) /\ Len(down) + 1 \in 1 .. Len(Todo)
      /\ Len(down) + 1 \in 1 .. Len(pendingWrites)
  BY <1>1, <1>3, <1>4, <1>6, <1>7
<1>9. Todo[Len(down) + 1] = Content(Head(up))
  BY <1>5, <1>6, <1>7, <1>8
<1>. QED  BY <1>1, <1>2, <1>3, <1>8, <1>9

LEMMA CommitIsApply == ASSUME IInv, BackendCommits PROVE Promise!Next
<1>. DEFINE e == Content(Head(up))
<1>1. /\ Serving /\ log' = Append(log, e)
      /\ down' = Append(down, Len(log')) /\ UNCHANGED <<queue, lastAcked, away>>
  BY DEF BackendCommits, localVars, diskVars, Content
<1>2. /\ Done = Len(down) /\ Done \in Nat /\ Done < Len(Todo)
      /\ Head(up) \in Batches /\ Todo[Done + 1] = e
  BY <1>1, ServingDone
<1>3. e \in Entries /\ e.value = Head(up).value
  BY <1>2, ClientAssumption DEF Content, Entries, Batches
<1>. HIDE DEF e
<1>4. Doc' = [Doc EXCEPT ![e.key] = e.value]
  BY <1>1, <1>3, DocChanges
<1>5. Len(log') \in Nat \ {0}
  <2>1. Len(log) \in Nat
    BY Lengths DEF IInv
  <2>. QED  BY <1>1, <1>3, <2>1, LogGrows DEF IInv
<1>6. Done' = Done + 1
  <2>1. down \in Seq(Nat) /\ ~Contains(down, Refused)
    BY <1>1 DEF IInv, TypeOK, Serving
  <2>2. /\ Len(down') = Len(down) + 1 /\ down'[Len(down) + 1] = Len(log')
        /\ \A i \in 1 .. Len(down) : down'[i] = down[i]
    BY <1>1, <1>5, <2>1, AppendProperties
  <2>3. ~Contains(down', Refused)
    <3>1. ASSUME NEW i \in 1 .. Len(down') PROVE down'[i] # Refused
      <4>1. i \in 1 .. Len(down) \/ i = Len(down) + 1
        BY <1>2, <2>2
      <4>. QED  BY <1>5, <2>1, <2>2, <4>1 DEF Contains, Refused
    <3>. QED  BY <3>1 DEF Contains
  <2>. QED  BY <1>2, <2>2, <2>3 DEF Done
<1>7. UNCHANGED <<Todo, Away>>
  BY <1>1, QueuesSame
<1>. QED  BY <1>1, <1>2, <1>3, <1>4, <1>6, <1>7, IsApply

LEMMA RefuseIsStutter == ASSUME IInv, BackendRefuses PROVE UNCHANGED Promise!vars
<1>1. Serving /\ down' = Append(down, Refused) /\ UNCHANGED <<queue, lastAcked, away, log>>
  BY DEF BackendRefuses, localVars, diskVars
<1>2. Done = Len(down) /\ Done \in Nat
  BY <1>1, ServingDone
<1>3. Done' = Done
  <2>1. down \in Seq(Nat) /\ Refused \in Nat
    BY DEF IInv, TypeOK, Refused
  <2>2. Len(down') = Len(down) + 1 /\ down'[Len(down) + 1] = Refused
    BY <1>1, <2>1, AppendProperties
  <2>3. Len(down) + 1 \in 1 .. Len(down')
    BY <1>2, <2>2
  <2>4. Contains(down', Refused)
    BY <2>2, <2>3 DEF Contains
  <2>5. Done' = Len(down') - 1
    BY <2>4 DEF Done
  <2>. QED  BY <1>2, <2>2, <2>5
<1>. QED  BY <1>1, <1>3, QueuesSame, IsStutter

\* What a response does to the queue and to what is held.
LEMMA ResponseMoves ==
    ASSUME IInv, ResponseArrives
    PROVE  /\ Len(queue) - Len(held) \in Nat \ {0}
           /\ Len(queue') - Len(held') = Len(queue) - Len(held) - 1
           /\ \A i \in 1 .. Len(queue) - Len(held) - 1 :
                 queue'[Len(held') + i] = queue[Len(held) + (i + 1)]
<1>. DEFINE r == [batch |-> Head(pendingWrites), version |-> Head(down)]
            h == Len(held)
<1>0. down # <<>>
  BY DEF ResponseArrives
<1>1. pendingWrites # <<>> /\ Len(down) \in Nat \ {0} /\ Head(down) = down[1]
  BY <1>0, FirstResponse
<1>2. /\ h \in Nat /\ h + 1 \in 1 .. Len(queue)
      /\ Head(pendingWrites) \in Batches /\ Head(pendingWrites) = queue[h + 1]
  BY <1>1, OldestInPipeline
<1>3. /\ Len(queue) \in Nat /\ held \in Seq(Results) /\ queue \in Seq(Batches)
      /\ Increasing(queue, nextBatchID)
  BY Lengths DEF IInv, TypeOK, QueueInv, Results
<1>4. r \in Results
  <2>1. 1 \in 1 .. Len(down)
    BY <1>1
  <2>2. Head(down) \in Nat
    BY <1>1, <2>1, Lengths DEF IInv
  <2>. QED  BY <1>2, <2>2 DEF Results
<1>5. Len(queue) - h \in Nat \ {0}
  <2>. HIDE DEF h
  <2>. QED  BY <1>2, <1>3
<1>6. CASE held' = Append(held, r) /\ queue' = queue
  <2>. HIDE DEF r
  <2>1. Len(held') = h + 1
    BY <1>3, <1>4, <1>6, AppendProperties
  <2>. HIDE DEF h
  <2>2. Len(queue') - Len(held') = Len(queue) - h - 1
    BY <1>2, <1>3, <1>6, <2>1
  <2>3. ASSUME NEW i \in 1 .. Len(queue) - h - 1
        PROVE  queue'[Len(held') + i] = queue[h + (i + 1)]
    <3>1. h + 1 + i = h + (i + 1)
      BY <1>2, <1>3
    <3>. QED  BY <1>6, <2>1, <3>1
  <2>. QED  BY <1>5, <2>2, <2>3 DEF h
<1>7. CASE held = <<>> /\ held' = held /\ ReleaseBatchResults(cache, <<r>>)
  <2>. DEFINE gone == [i \in DOMAIN <<r>> |-> <<r>>[i].batch]
  <2>1. h = 0 /\ Len(held') = 0
    BY <1>7
  <2>2. queue' = RemoveBatches(queue, gone)
    BY <1>7 DEF ReleaseBatchResults
  <2>3. gone = <<queue[1]>>
    BY <1>2, <2>1
  <2>4. 1 \in 1 .. Len(queue)
    BY <1>2, <1>3, <2>1
  <2>. HIDE DEF gone, r
  <2>5. /\ Len(queue') = Len(queue) - 1
        /\ \A i \in 1 .. Len(queue) - 1 : queue'[i] = IF i < 1 THEN queue[i] ELSE queue[i + 1]
    BY <1>3, <2>2, <2>3, <2>4, RemoveOne
  <2>6. Len(queue') - Len(held') = Len(queue) - h - 1
    BY <1>3, <2>1, <2>5
  <2>7. ASSUME NEW i \in 1 .. Len(queue) - h - 1
        PROVE  queue'[Len(held') + i] = queue[h + (i + 1)]
    <3>1. i \in 1 .. Len(queue) - 1 /\ ~(i < 1)
      BY <1>3, <2>1
    <3>2. Len(held') + i = i /\ h + (i + 1) = i + 1
      BY <2>1, <3>1
    <3>. QED  BY <2>5, <3>1, <3>2
  <2>. QED  BY <1>5, <2>6, <2>7
<1>. QED  BY <1>6, <1>7 DEF ResponseArrives

LEMMA ResponseIsSettle == ASSUME IInv, IInv', ResponseArrives PROVE Promise!Next
<1>1. down # <<>> /\ Head(down) # Refused /\ down' = Tail(down) /\ UNCHANGED <<away, log>>
  BY DEF ResponseArrives
<1>2. /\ Len(down) \in Nat \ {0} /\ Len(down') = Len(down) - 1 /\ Head(down) = down[1]
      /\ \A i \in 1 .. Len(down) - 1 : down'[i] = down[i + 1]
  BY <1>1, FirstResponse
<1>3. Todo' = Tail(Todo)
  BY ResponseMoves, TodoLosesHead
<1>4. Contains(down', Refused) <=> Contains(down, Refused)
  <2>1. ASSUME NEW i \in 1 .. Len(down'), down'[i] = Refused
        PROVE  \E j \in 1 .. Len(down) : down[j] = Refused
    <3>1. i \in 1 .. Len(down) - 1 /\ i + 1 \in 1 .. Len(down)
      BY <1>2
    <3>. QED  BY <1>2, <2>1, <3>1
  <2>2. ASSUME NEW j \in 1 .. Len(down), down[j] = Refused
        PROVE  \E i \in 1 .. Len(down') : down'[i] = Refused
    <3>. DEFINE i == j - 1
    <3>1. j # 1
      BY <1>1, <1>2, <2>2
    <3>2. i \in 1 .. Len(down) - 1 /\ i + 1 = j
      BY <1>2, <3>1
    <3>. HIDE DEF i
    <3>. QED  BY <1>2, <2>2, <3>2
  <2>. QED  BY <2>1, <2>2 DEF Contains
<1>5. Contains(down, Refused) => Len(down) # 1
  <2>1. ASSUME NEW j \in 1 .. Len(down), down[j] = Refused PROVE Len(down) # 1
    BY <1>1, <1>2, <2>1
  <2>. QED  BY <2>1 DEF Contains
<1>6. Done > 0 /\ Done' = Done - 1
  <2>1. CASE Contains(down, Refused)
    <3>1. Done = Len(down) - 1 /\ Done' = Len(down') - 1
      BY <1>4, <2>1 DEF Done
    <3>. QED  BY <1>2, <1>5, <2>1, <3>1
  <2>2. CASE ~Contains(down, Refused)
    <3>1. Done = Len(down) /\ Done' = Len(down')
      BY <1>4, <2>2 DEF Done
    <3>. QED  BY <1>2, <3>1
  <2>. QED  BY <2>1, <2>2
<1>. QED  BY <1>1, <1>3, <1>6, QueuesSame, IsSettle

LEMMA ErrorIsRefuse == ASSUME IInv, IInv', ErrorArrives PROVE Promise!Next
<1>. DEFINE h == Len(held)
            n == Len(queue) - h
<1>1. /\ down # <<>> /\ Head(down) = Refused /\ down' = <<>>
      /\ queue' = RemoveBatches(queue, <<Head(pendingWrites)>>)
      /\ UNCHANGED <<away, held, log>>
  BY DEF ErrorArrives
<1>2. pendingWrites # <<>> /\ Len(down) \in Nat \ {0} /\ Head(down) = down[1]
  BY <1>1, FirstResponse
<1>3. /\ h \in Nat /\ h + 1 \in 1 .. Len(queue)
      /\ Head(pendingWrites) = queue[h + 1] /\ Head(pendingWrites) = pendingWrites[1]
  BY <1>2, OldestInPipeline
<1>4. Len(queue) \in Nat /\ queue \in Seq(Batches) /\ Increasing(queue, nextBatchID)
  BY Lengths DEF IInv, TypeOK, QueueInv
<1>5. 1 \in 1 .. Len(down) /\ Len(down) = 1 /\ pendingWrites[1].value \in Bad
  <2>1. 1 \in 1 .. Len(down)
    BY <1>2
  <2>. QED  BY <1>1, <1>2, <2>1 DEF IInv, DownInv
<1>6. Done = 0 /\ Done' = 0
  <2>1. Contains(down, Refused)
    BY <1>1, <1>2, <1>5 DEF Contains
  <2>2. Done' = 0
    BY <1>1, NothingUnderWay
  <2>. QED  BY <1>5, <2>1, <2>2 DEF Done
<1>7. /\ Len(queue') = Len(queue) - 1
      /\ \A i \in 1 .. Len(queue) - 1 :
            queue'[i] = IF i < h + 1 THEN queue[i] ELSE queue[i + 1]
  <2>. DEFINE m == h + 1
  <2>1. m \in 1 .. Len(queue) /\ queue' = RemoveBatches(queue, <<queue[m]>>)
    BY <1>1, <1>3
  <2>. HIDE DEF m
  <2>2. /\ Len(queue') = Len(queue) - 1
        /\ \A i \in 1 .. Len(queue) - 1 :
              queue'[i] = IF i < m THEN queue[i] ELSE queue[i + 1]
    BY <1>4, <2>1, RemoveOne
  <2>. QED  BY <2>2 DEF m
<1>8. Len(held') = h
  BY <1>1
<1>. HIDE DEF h
<1>9. n \in Nat \ {0} /\ Len(queue') - Len(held') = n - 1
  BY <1>3, <1>4, <1>7, <1>8
<1>10. ASSUME NEW i \in 1 .. n - 1 PROVE queue'[Len(held') + i] = queue[h + (i + 1)]
  <2>1. /\ h + i \in 1 .. Len(queue) - 1 /\ ~(h + i < h + 1)
        /\ h + i + 1 = h + (i + 1)
    BY <1>3, <1>4
  <2>2. queue'[h + i] = queue[h + i + 1]
    BY <1>7, <2>1
  <2>. QED  BY <1>8, <2>1, <2>2
<1>11. Todo # <<>> /\ Todo' = Tail(Todo) /\ Head(Todo) = Todo[1]
  BY <1>9, <1>10, TodoLosesHead DEF h
<1>12. Head(Todo).value \in Bad
  <2>1. /\ Len(Todo) = n
        /\ \A i \in 1 .. Len(Todo) : Todo[i] = Content(queue[h + i])
    BY TodoIs DEF h
  <2>2. 1 \in 1 .. Len(Todo)
    <3>. HIDE DEF n
    <3>. QED  BY <1>9, <2>1
  <2>3. Todo[1] = Content(pendingWrites[1])
    BY <1>3, <2>1, <2>2
  <2>. QED  BY <1>5, <1>11, <2>3 DEF Content
<1>. QED  BY <1>1, <1>6, <1>11, <1>12, QueuesSame, IsRefuse

\* Released batches are acknowledged ones.
LEMMA ReleaseIsStutter ==
    ASSUME IInv, IInv', NEW docs, NEW active, NEW version,
           ReleaseHeldBatchResults(docs, active, version), UNCHANGED <<away, down, log>>
    PROVE  UNCHANGED Promise!vars
<1>. DEFINE h == Len(held)
<1>0. PICK n \in 0 .. Len(held) : ReleasesFirst(docs, active, version, n)
  BY Released, Zenon
<1>1. /\ queue' = SubSeq(queue, n + 1, Len(queue))
      /\ held' = SubSeq(held, n + 1, Len(held))
  BY <1>0 DEF ReleasesFirst
<1>2. /\ h \in Nat /\ held \in Seq(Results)
      /\ Len(queue) \in Nat /\ h <= Len(queue)
  BY Lengths DEF IInv, TypeOK, QueueInv, Results
<1>3. /\ Len(queue') = Len(queue) - n
      /\ \A i \in 1 .. Len(queue') : queue'[i] = queue[n + i]
  <2>1. n \in 0 .. Len(queue)
    BY <1>2
  <2>. QED  BY <1>1, <2>1, QueueDrops
<1>4. Len(held') = h - n
  <2>1. n \in 0 .. Len(held) /\ Len(held) \in n .. Len(held)
    BY <1>2
  <2>. QED  BY <1>1, <1>2, <2>1, SliceElements
<1>5. n \in 0 .. h
  OBVIOUS
<1>. HIDE DEF h
<1>6. Len(queue') - Len(held') = Len(queue) - h
  BY <1>2, <1>3, <1>4, <1>5
<1>7. ASSUME NEW i \in 1 .. Len(queue) - h PROVE queue'[Len(held') + i] = queue[h + i]
  <2>. DEFINE j == Len(held') + i
  <2>1. j \in 1 .. Len(queue') /\ n + j = h + i
    BY <1>2, <1>3, <1>4, <1>5
  <2>. HIDE DEF j
  <2>2. queue'[j] = queue[n + j]
    BY <1>3, <2>1
  <2>. QED  BY <2>1, <2>2 DEF j
<1>8. Todo' = Todo
  BY <1>6, <1>7, TodoStays DEF h
<1>. QED  BY <1>8, QueuesSame, IsStutter

\* Batches are dropped on a start exactly if they are acknowledged, although
\* batch ids, and with them the last acknowledged id, may start again.
LEMMA StartTodo ==
    ASSUME IInv, NEW q \in Seq(Batches), NEW others \in Seq(Batches), NEW onDisk \in Ids,
           Increasing(q, nextBatchID), Increasing(others, nextBatchID),
           q # <<>> => Last(q).batchID >= onDisk, StartClient(q, onDisk, others)
    PROVE  Todo' = Contents(BatchesAfter(q, onDisk)) /\ Done' = 0 /\ Doc' = Doc
<1>. DEFINE next == Max({b.batchID : b \in Range(q \o others)} \union {Unknown}) + 1
            id == AckedOnStart(onDisk, next)
            kept == BatchesAfter(q, id)
<1>1. lastAcked' = id /\ queue' = kept /\ down' = <<>> /\ log' = log
  BY DEF StartClient
<1>2. next \in Nat /\ Increasing(q, next)
  <2>. HIDE DEF next
  <2>1. nextBatchID \in Nat
    BY DEF IInv, TypeOK
  <2>. QED  BY <2>1, NextIsBehind DEF next
<1>. HIDE DEF next
<1>3. id \in Int /\ onDisk \in Int
  BY <1>2 DEF AckedOnStart, Ids, Unknown
<1>4. kept = BatchesAfter(q, onDisk)
  <2>1. CASE id = onDisk
    BY <2>1
  <2>2. CASE id # onDisk
    <3>1. onDisk >= next
      BY <2>2 DEF AckedOnStart
    <3>2. q = <<>>
      <4>. SUFFICES ASSUME q # <<>> PROVE FALSE
        OBVIOUS
      <4>1. Len(q) \in 1 .. Len(q) /\ Last(q) = q[Len(q)]
        BY EmptySeq, LenProperties DEF Last
      <4>2. Last(q).batchID \in Nat /\ Last(q).batchID < next
        BY <1>2, <4>1, BatchTypes DEF Increasing
      <4>. QED  BY <1>2, <1>3, <3>1, <4>2
    <3>3. Len(q) = 0
      BY <3>2
    <3>4. IsRow(q, id, 0) /\ IsRow(q, onDisk, 0)
      BY <3>3 DEF IsRow
    <3>5. RowOf(q, id) = 0 /\ RowOf(q, onDisk) = 0
      BY <3>4, RowIs
    <3>. QED  BY <3>5 DEF BatchesAfter
  <2>. QED  BY <2>1, <2>2
<1>. HIDE DEF id
<1>5. kept \in Seq(Batches) /\ IsRow(kept, id, 0)
  <2>. HIDE DEF kept
  <2>. QED  BY <1>2, <1>3, AckedDropped DEF kept
<1>. HIDE DEF kept
<1>6. BatchesAfter(kept, id) = kept
  <2>1. RowOf(kept, id) = 0
    BY <1>5, RowIs
  <2>2. SubSeq(kept, 1, Len(kept)) = kept
    BY <1>5, SubSeqFull
  <2>. QED  BY <2>1, <2>2 DEF BatchesAfter
<1>7. Todo' = Contents(kept)
  BY <1>1, <1>6 DEF Todo
<1>. QED  BY <1>1, <1>4, <1>7, NothingUnderWay, QueuesSame

LEMMA RestartIsForget == ASSUME IInv, Restart PROVE Promise!Next
<1>1. StartClient(queue, lastAcked, away.queue) /\ away' = away
  BY DEF Restart
<1>2. Todo' = Contents(BatchesAfter(queue, lastAcked)) /\ Done' = 0 /\ Doc' = Doc
  BY <1>1, CurrentQueue, AwayQueue, StartTodo
<1>3. Todo' = Todo /\ Away' = Away
  BY <1>1, <1>2, QueuesSame DEF Todo
<1>. QED  BY <1>2, <1>3, IsForget

LEMMA UserIsChangeUser == ASSUME IInv, UserDidChange PROVE Promise!Next
<1>1. /\ StartClient(away.queue, away.lastAcked, queue)
      /\ away' = [queue |-> queue, lastAcked |-> lastAcked]
  BY DEF UserDidChange
<1>2. away.queue # <<>> => Last(away.queue).batchID >= away.lastAcked
  BY DEF IInv, AwayInv
<1>3. Todo' = Contents(BatchesAfter(away.queue, away.lastAcked)) /\ Done' = 0 /\ Doc' = Doc
  BY <1>1, <1>2, CurrentQueue, AwayQueue, StartTodo
<1>4. away'.queue = queue /\ away'.lastAcked = lastAcked
  BY <1>1
<1>5. Todo' = Away /\ Away' = Todo
  BY <1>3, <1>4 DEF Todo, Away
<1>. QED  BY <1>3, <1>5, IsChangeUser

LEMMA CloseIsForget == ASSUME IInv, StreamFails \/ IdleCloses PROVE Promise!Next
<1>1. down' = <<>> /\ UNCHANGED <<queue, lastAcked, away, log>>
  BY DEF StreamFails, IdleCloses, CloseStream, localVars, diskVars
<1>2. Done' = 0
  BY <1>1, NothingUnderWay
<1>. QED  BY <1>1, <1>2, QueuesSame, IsForget

LEMMA PromiseInit == Init => Promise!Init
<1>. SUFFICES ASSUME Init PROVE Promise!Init
  OBVIOUS
<1>1. IInv
  BY IInvInit
<1>2. Todo = <<>> /\ Away = <<>>
  <2>1. /\ queue = <<>> /\ away.queue = <<>> /\ away.lastAcked = lastAcked
        /\ Len(queue) = 0 /\ Len(held) = 0
    BY DEF Init
  <2>2. Todo \in Seq(Entries) /\ Len(Todo) = Len(queue) - Len(held)
    BY <1>1, TodoIs
  <2>3. Todo = <<>>
    BY <2>1, <2>2, EmptySeq
  <2>. QED  BY <2>1, <2>3 DEF Todo, Away
<1>3. Done = 0
  <2>1. Len(down) = 0
    BY DEF Init
  <2>. QED  BY <2>1 DEF Done, Contains
<1>4. Doc = [k \in Keys |-> Other]
  <2>1. Len(log) = 0
    BY DEF Init
  <2>2. \A k : VersionOf(k, Len(log)) = 0
    BY <2>1, VersionIs
  <2>. QED  BY <2>2 DEF Doc
<1>. QED  BY <1>2, <1>3, <1>4 DEF Todo, Away, Done, Doc, Promise!Init

LEMMA PromiseStep ==
    ASSUME IInv, IInv', [Next]_vars
    PROVE  [Promise!Next]_(Promise!vars)
<1>1. ASSUME NEW k \in Keys, Write(k) PROVE Promise!Next
  BY <1>1, WriteIsIssue
<1>2. ASSUME NEW k \in Keys, OtherWrites(k) PROVE Promise!Next
  BY <1>2, OtherIsInterfere
<1>3. CASE UNCHANGED <<queue, lastAcked, away, down, log>>
  BY <1>3, QueuesSame, IsStutter
<1>4. ASSUME NEW k \in Keys, Listen(k) PROVE UNCHANGED <<queue, lastAcked, away, down, log>>
  BY <1>4 DEF Listen, localVars, diskVars
<1>5. ASSUME NEW k \in Keys, Unlisten(k) PROVE UNCHANGED Promise!vars
  <2>1. UNCHANGED <<lastAcked, away, down, log>>
    BY <1>5 DEF Unlisten
  <2>2. CASE targets' = {}
    <3>1. ReleaseHeldBatchResults(cache, {}, snapVersion)
      BY <1>5, <2>2 DEF Unlisten
    <3>. QED  BY <2>1, <3>1, ReleaseIsStutter
  <2>3. CASE targets' # {}
    <3>1. UNCHANGED queue
      BY <1>5, <2>3 DEF Unlisten
    <3>. QED  BY <2>1, <3>1, QueuesSame, IsStutter
  <2>. QED  BY <2>2, <2>3
<1>6. CASE TokenArrives \/ HandshakeCompletes \/ BackoffEnds \/ BackendNotifies
  BY <1>3, <1>6 DEF TokenArrives, HandshakeCompletes, BackoffEnds, BackendNotifies,
                    localVars, diskVars
<1>7. CASE StreamFails \/ IdleCloses
  BY <1>7, CloseIsForget
<1>8. CASE Restart
  BY <1>8, RestartIsForget
<1>9. CASE UserDidChange
  BY <1>9, UserIsChangeUser
<1>10. CASE BackendCommits
  BY <1>10, CommitIsApply
<1>11. CASE BackendRefuses
  BY <1>11, RefuseIsStutter
<1>12. CASE ResponseArrives
  BY <1>12, ResponseIsSettle
<1>13. CASE ErrorArrives
  BY <1>13, ErrorIsRefuse
<1>14. CASE SnapshotArrives
  <2>. DEFINE docs == [k \in Keys |->
                          LET v == VersionOf(k, watch.version)
                          IN  IF k \in watch.keys /\ v > cache[k].version
                              THEN [value |-> log[v].value, version |-> v]
                              ELSE cache[k]]
  <2>1. /\ ReleaseHeldBatchResults(docs, targets, watch.version)
        /\ UNCHANGED <<away, down, log>>
    BY <1>14 DEF SnapshotArrives
  <2>. HIDE DEF docs
  <2>. QED  BY <2>1, ReleaseIsStutter
<1>15. CASE UNCHANGED vars
  BY <1>3, <1>15 DEF vars, localVars, diskVars
<1>. QED  BY <1>1, <1>2, <1>3, <1>4, <1>5, <1>6, <1>7, <1>8, <1>9, <1>10, <1>11,
             <1>12, <1>13, <1>14, <1>15 DEF Next

\* The write path of the client implements WriteOrder: the writes of each
\* user reach the backend in the order they were made, each at least once,
\* and none is settled before the backend has applied or refused it.
THEOREM ClientKeepsWriteOrder == Spec => ImplementsWriteOrder
<1>1. IInv /\ IInv' /\ [Next]_vars => [Promise!Next]_(Promise!vars)
  BY PromiseStep
<1>. QED  BY <1>1, PromiseInit, IInvAlways, PTL DEF Spec, ImplementsWriteOrder, Promise!Spec

=============================================================================
