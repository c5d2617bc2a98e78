---------------------------- MODULE NewGameProofs ----------------------------
(***************************************************************************)
(* Theorems about NewGame, for any number of phones, pages, users and ids, *)
(* and that it implements GameBoard.                                       *)
(***************************************************************************)
EXTENDS NewGame, FirestoreProofs

Docs == GameDocs \union {NoDoc}
Writes == [path : Paths, data : GameDocs]
Replies == [call : Queries, docs : SUBSET GameDocs]

-----------------------------------------------------------------------------
(***************************************************************************)
(* Paths and views.                                                        *)
(***************************************************************************)

\* The paths _saveGame writes to are paths of the application.
LEMMA PathsOfAGame ==
    ASSUME NEW g \in GameIds, NEW u \in Users \union {null}
    PROVE  GamePath(g) \in Paths /\ MirrorPath(u, g) \in Paths
BY PathsAssumption DEF GamePaths, MirrorPaths

\* The paths of games and of copies are different for different games.
LEMMA PathsDiffer ==
    /\ \A g, h : GamePath(g) = GamePath(h) => g = h
    /\ \A u, v, g, h : MirrorPath(u, g) = MirrorPath(v, h) => u = v /\ g = h
    /\ \A u, g, h : GamePath(g) # MirrorPath(u, h)
    /\ \A u, g : GamePath(g).id = g /\ MirrorPath(u, g).id = g
BY DEF GamePath, MirrorPath, GamesColl, UserGamesColl

\* Every path is that of a game or that of a copy.
LEMMA PathCases ==
    ASSUME NEW x \in Paths
    PROVE  /\ x.id \in GameIds
           /\ \/ x = GamePath(x.id)
              \/ \E u \in Users \union {null} : x = MirrorPath(u, x.id)
BY PathsAssumption, PathsDiffer DEF GamePaths, MirrorPaths

\* Pending writes over a store of game documents give game documents.
LEMMA LocalViewType ==
    ASSUME NEW base \in [Paths -> Docs], NEW queue \in Seq(Writes)
    PROVE  LocalView(base, queue) \in [Paths -> Docs]
<1>. SUFFICES ASSUME NEW x \in Paths
              PROVE  LocalDocument(base, queue, x) \in Docs
  BY DEF LocalView
<1>1. \A i \in DOMAIN queue : queue[i] \in Writes
  BY Elements
<1>2. \A i \in DOMAIN queue : queue[i].data \in GameDocs
  BY <1>1 DEF Writes
<1>. QED  BY <1>2, LocalDocumentCases DEF Docs

\* The answer to a query consists of game documents.
LEMMA SnapshotType ==
    ASSUME NEW view \in [Paths -> Docs], NEW q \in Queries
    PROVE  Snapshot(view, q) \in Replies
<1>1. \A x \in Matching(view, q) : view[x] \in GameDocs
  BY DEF Matching, Docs
<1>. QED  BY <1>1 DEF Snapshot, Replies

-----------------------------------------------------------------------------
(***************************************************************************)
(* Type correctness.                                                       *)
(***************************************************************************)

TypeInv == TypeOK /\ Asking

LEMMA TypeInvInit == Init => TypeInv
BY DraftsAssumption, SeedAssumption, PressesAssumption, EmptySeq
   DEF Init, FirestoreInit, PageInit, TypeInv, TypeOK, SendTypeOK, PageTypeOK,
       Asking

\* Only a drawn id is saved, so both writes are well formed.
LEMMA SaveGameType ==
    ASSUME TypeOK, NEW p \in Pages, gameId[p] \in GameIds,
           NEW queue \in Seq(Writes)
    PROVE  SaveGame(queue, p) \in Seq(Writes) /\ Len(SaveGame(queue, p)) >= Len(queue)
<1>. DEFINE game == [gameid |-> gameId[p], form |-> draft[p]]
<1>1. game \in GameDocs
  BY DEF TypeOK, GameDocs
<1>2. /\ GamePath(gameId[p]) \in Paths
      /\ MirrorPath(mCurrentUser[p], gameId[p]) \in Paths
  BY PathsOfAGame DEF TypeOK, PageTypeOK
<1>. HIDE DEF game
<1>3. /\ [path |-> GamePath(gameId[p]), data |-> game] \in Writes
      /\ [path |-> MirrorPath(mCurrentUser[p], gameId[p]), data |-> game] \in Writes
  BY <1>1, <1>2 DEF Writes
<1>4. SaveGame(queue, p) \in Seq(Writes) /\ Len(SaveGame(queue, p)) = Len(queue) + 1 + 1
  BY <1>3, AppendProperties DEF SaveGame, SetData, game
<1>. QED  BY <1>4, LenProperties

\* An answer, from the backend or from the cache, is well typed and does not
\* disturb the pages.
LEMMA AnswerType ==
    ASSUME TypeInv, NEW d \in Devices, NEW i \in DOMAIN calls[d], Answer(d, i)
    PROVE  TypeInv'
<1>1. /\ store \in [Paths -> Docs] /\ cache[d] \in [Paths -> Docs]
      /\ outbox[d] \in Seq(Writes)
      /\ calls[d] \in Seq(Queries) /\ replies[d] \in Seq(Replies)
      /\ calls[d][i] \in Queries
  BY Elements DEF TypeInv, TypeOK, Docs, Writes, Replies
<1>2. PICK view \in [Paths -> Docs] :
          Answered(d, i, Snapshot(view, calls[d][i]))
  BY <1>1, LocalViewType DEF Answer, AnswerFromServer, AnswerFromCache
<1>3. cache' \in [Devices -> [Paths -> Docs]]
  <2>1. cache \in [Devices -> [Paths -> Docs]]
    BY DEF TypeInv, TypeOK, Docs
  <2>2. CASE AnswerFromServer(d, i)
    <3>. DEFINE sent == Matching(store, calls[d][i])
    <3>1. cache' = [cache EXCEPT ![d] =
                      [x \in Paths |-> IF x \in sent THEN store[x] ELSE cache[d][x]]]
      BY <2>2 DEF AnswerFromServer
    <3>. HIDE DEF sent
    <3>. QED  BY <1>1, <2>1, <3>1
  <2>3. CASE AnswerFromCache(d, i)
    BY <2>1, <2>3 DEF AnswerFromCache
  <2>. QED  BY <2>2, <2>3 DEF Answer
<1>4. Snapshot(view, calls[d][i]) \in Replies
  BY <1>1, <1>2, SnapshotType
<1>5. /\ RemoveAt(calls[d], i) \in Seq(Queries)
      /\ \A j \in DOMAIN RemoveAt(calls[d], i) :
            \E k \in DOMAIN calls[d] : RemoveAt(calls[d], i)[j] = calls[d][k]
  BY <1>1, RemoveAtProperties
<1>6. LET r == Append(replies[d], Snapshot(view, calls[d][i]))
      IN  /\ r \in Seq(Replies)
          /\ \A j \in DOMAIN r : \/ r[j] = Snapshot(view, calls[d][i])
                                 \/ \E k \in DOMAIN replies[d] : r[j] = replies[d][k]
  BY <1>1, <1>4, AppendElements
<1>7. SendTypeOK'
  <2>1. UNCHANGED <<outbox, applied, acked>>
    BY <1>2 DEF Answered
  <2>2. learnt' \in [Devices -> SUBSET Paths]
    <3>1. CASE AnswerFromServer(d, i)
      <4>. DEFINE w == Written(outbox[d], applied[d])
                  sent == Matching(store, calls[d][i])
      <4>1. sent \subseteq Paths
        BY DEF Matching
      <4>2. learnt' = [learnt EXCEPT ![d] = learnt[d] \union (sent \intersect w)]
        BY <3>1 DEF AnswerFromServer
      <4>. HIDE DEF w, sent
      <4>. QED  BY <4>1, <4>2 DEF TypeInv, TypeOK, SendTypeOK
    <3>2. CASE AnswerFromCache(d, i)
      BY <3>2 DEF AnswerFromCache, TypeInv, TypeOK, SendTypeOK
    <3>. QED  BY <3>1, <3>2 DEF Answer
  <2>. QED  BY <2>1, <2>2 DEF TypeInv, TypeOK, SendTypeOK
<1>8. TypeOK'
  BY <1>2, <1>3, <1>5, <1>6, <1>7
     DEF Answer, Answered, TypeInv, TypeOK, PageTypeOK, pageVars, formVars,
         Docs, Writes, Replies
<1>9. Asking'
  <2>1. gameId' = gameId /\ Snapshot(view, calls[d][i]).call = calls[d][i]
    BY DEF Answer, formVars, Snapshot
  <2>2. /\ calls' = [calls EXCEPT ![d] = RemoveAt(calls[d], i)]
        /\ replies' = [replies EXCEPT ![d] =
                          Append(replies[d], Snapshot(view, calls[d][i]))]
    BY <1>2 DEF Answered
  <2>. SUFFICES ASSUME NEW e \in Devices
                PROVE  /\ \A j \in DOMAIN calls'[e] :
                             gameId[calls'[e][j].page] \in GameIds
                       /\ \A j \in DOMAIN replies'[e] :
                             gameId[replies'[e][j].call.page] \in GameIds
    BY <2>1 DEF Asking
  <2>3. CASE e # d
    BY <2>2, <2>3 DEF TypeInv, TypeOK, Asking
  <2>4. CASE e = d
    <3>1. /\ calls'[d] = RemoveAt(calls[d], i)
          /\ replies'[d] = Append(replies[d], Snapshot(view, calls[d][i]))
      BY <2>2 DEF TypeInv, TypeOK
    <3>. QED  BY <1>5, <1>6, <2>1, <2>4, <3>1 DEF TypeInv, Asking
  <2>. QED  BY <2>3, <2>4
<1>. QED  BY <1>8, <1>9 DEF TypeInv

LEMMA WritePaths ==
    ASSUME TypeOK
    PROVE  /\ outbox \in [Devices -> Seq(Writes)]
           /\ \A w \in Writes : w.path \in Paths /\ w.data \in GameDocs
BY DEF TypeOK, Writes

\* A write on its way from the queue to the backend and to the cache.
LEMMA SyncType ==
    ASSUME TypeInv, NEW d \in Devices, Sync(d)
    PROVE  TypeInv'
<1>. USE DEF TypeInv
<1>1. UNCHANGED <<calls, replies, pageVars, formVars>>
  BY DEF Sync, Apply, Ack, Release, Break, ApplyWrite, AckWrite, ReleaseWrite,
         BreakStream
<1>2. SendTypeOK' /\ outbox' \in [Devices -> Seq(Writes)]
  BY WritePaths, DropSteps, SendSteps DEF Sync, Apply, Ack, Release, Break, TypeOK
<1>3. outbox[d] \in Seq(Writes) /\ \A i \in DOMAIN outbox[d] : outbox[d][i] \in Writes
  BY WritePaths, Elements
<1>4. store' \in [Paths -> Docs]
  <2>1. CASE Apply(d)
    <3>. DEFINE w == outbox[d][applied[d] + 1]
    <3>1. applied[d] + 1 \in DOMAIN outbox[d]
      BY <1>3, <2>1, LenProperties DEF Apply, ApplyWrite, TypeOK, SendTypeOK
    <3>2. w.path \in Paths /\ w.data \in GameDocs
      BY <1>3, <3>1, WritePaths
    <3>3. store' = [store EXCEPT ![w.path] = w.data]
      BY <2>1 DEF Apply, ApplyWrite
    <3>. HIDE DEF w
    <3>. QED  BY <3>2, <3>3 DEF TypeOK, Docs
  <2>2. CASE Ack(d) \/ Release(d) \/ Break(d)
    BY <2>2 DEF Ack, Release, Break, AckWrite, ReleaseWrite, BreakStream, TypeOK, Docs
  <2>. QED  BY <2>1, <2>2 DEF Sync
<1>5. cache' \in [Devices -> [Paths -> Docs]]
  <2>1. CASE Release(d)
    <3>. DEFINE w == Head(outbox[d])
    <3>1. outbox[d] # <<>>
      BY <2>1, EmptySeq DEF Release, ReleaseWrite, TypeOK, SendTypeOK
    <3>2. w \in Writes
      BY <1>3, <3>1, TailElements
    <3>3. w.path \in Paths /\ w.data \in GameDocs
      BY <3>2, WritePaths
    <3>4. \/ cache' = [cache EXCEPT ![d] = [cache[d] EXCEPT ![w.path] = w.data]]
          \/ cache' = cache
      BY <2>1 DEF Release, ReleaseWrite
    <3>. HIDE DEF w
    <3>5. cache \in [Devices -> [Paths -> Docs]] /\ w.data \in Docs
      BY <3>3 DEF TypeOK, Docs
    <3>6. [cache[d] EXCEPT ![w.path] = w.data] \in [Paths -> Docs]
      BY <3>3, <3>5
    <3>. QED  BY <3>4, <3>5, <3>6
  <2>2. CASE Apply(d) \/ Ack(d) \/ Break(d)
    BY <2>2 DEF Apply, Ack, Break, AckWrite, ApplyWrite, BreakStream, TypeOK, Docs
  <2>. QED  BY <2>1, <2>2 DEF Sync
<1>6. TypeOK'
  BY <1>1, <1>2, <1>4, <1>5
     DEF TypeOK, PageTypeOK, pageVars, formVars, Docs, Writes
<1>7. Asking'
  BY <1>1 DEF formVars, Asking
<1>. QED  BY <1>6, <1>7

LEMMA TypeInvStep == TypeInv /\ [Next]_vars => TypeInv'
<1>. SUFFICES ASSUME TypeInv, [Next]_vars PROVE TypeInv'
  OBVIOUS
<1>. USE DEF TypeInv
<1>0. ASSUME UNCHANGED <<outbox, sendVars>> PROVE SendTypeOK'
  BY <1>0 DEF TypeOK, SendTypeOK, sendVars
<1>1. ASSUME NEW p \in Pages, OpenPage(p) PROVE TypeInv'
  BY <1>0, <1>1 DEF OpenPage, InitState, fsVars, formVars, TypeOK, PageTypeOK, Asking
<1>2. ASSUME NEW p \in Pages, FindUser(p) PROVE TypeInv'
  <2>1. Session[Host[p]] \in Users \union {null}
    BY SessionAssumption, HostAssumption
  <2>. QED  BY <1>0, <1>2, <2>1 DEF FindUser, UserIdFound, fsVars, formVars, TypeOK,
                              PageTypeOK, Asking
<1>3. ASSUME NEW p \in Pages, NEW f \in Drafts, Edit(p, f) PROVE TypeInv'
  BY <1>0, <1>3 DEF Edit, fsVars, pageVars, TypeOK, PageTypeOK, Asking
<1>4. ASSUME NEW p \in Pages, NEW g \in GameIds, PressStart(p, g) PROVE TypeInv'
  <2>. DEFINE d == Host[p]
              q == GameIdQuery(p, g)
  <2>1. d \in Devices
    BY HostAssumption
  <2>2. q \in Queries /\ q.page = p
    BY DEF GameIdQuery, Where, Queries
  <2>. HIDE DEF d, q
  <2>3. /\ Append(calls[d], q) \in Seq(Queries)
        /\ \A j \in DOMAIN Append(calls[d], q) :
              \/ Append(calls[d], q)[j] = q
              \/ \E k \in DOMAIN calls[d] : Append(calls[d], q)[j] = calls[d][k]
    BY <2>1, <2>2, AppendElements DEF TypeOK
  <2>4. /\ calls' = [calls EXCEPT ![d] = Append(calls[d], q)]
        /\ gameId' = [gameId EXCEPT ![p] = g]
        /\ presses' = [presses EXCEPT ![p] = presses[p] + 1]
        /\ presses[p] < MaxPresses[p]
        /\ UNCHANGED <<store, cache, outbox, sendVars, replies, pageVars,
                       gameIdAvailable, draft>>
    BY <1>4 DEF PressStart, d, q
  <2>5. TypeOK'
    <3>1. /\ presses' \in [Pages -> Nat]
          /\ \A q1 \in Pages : presses'[q1] <= MaxPresses[q1]
      <4>1. /\ presses \in [Pages -> Nat] /\ MaxPresses \in [Pages -> Nat]
            /\ \A q1 \in Pages : presses[q1] <= MaxPresses[q1]
        BY PressesAssumption DEF TypeOK
      <4>2. presses[p] + 1 \in Nat /\ presses[p] + 1 <= MaxPresses[p]
        BY <2>4, <4>1
      <4>. QED  BY <2>4, <4>1, <4>2
    <3>. QED  BY <1>0, <2>1, <2>3, <2>4, <3>1 DEF TypeOK, PageTypeOK, pageVars
  <2>6. Asking'
    BY <2>1, <2>2, <2>3, <2>4 DEF TypeOK, Asking
  <2>. QED  BY <2>5, <2>6
<1>5. ASSUME NEW p \in Pages, Cancel(p) PROVE TypeInv'
  BY <1>0, <1>5 DEF Cancel, Pop, fsVars, formVars, TypeOK, PageTypeOK, Asking
<1>6. ASSUME NEW d \in Devices, replies[d] # <<>>
      PROVE  /\ Head(replies[d]).call \in Queries
             /\ Head(replies[d]).call.page \in Pages
             /\ gameId[Head(replies[d]).call.page] \in GameIds
             /\ Tail(replies[d]) \in Seq(Replies)
             /\ \A j \in DOMAIN Tail(replies[d]) :
                   \E k \in DOMAIN replies[d] : Tail(replies[d])[j] = replies[d][k]
  <2>1. replies[d] \in Seq(Replies)
    BY DEF TypeOK, Replies
  <2>2. /\ Tail(replies[d]) \in Seq(Replies) /\ Head(replies[d]) \in Replies
        /\ 1 \in DOMAIN replies[d] /\ Head(replies[d]) = replies[d][1]
        /\ \A j \in DOMAIN Tail(replies[d]) :
              \E k \in DOMAIN replies[d] : Tail(replies[d])[j] = replies[d][k]
    BY <1>6, <2>1, TailElements
  <2>3. Head(replies[d]).call \in Queries
    BY <2>2 DEF Replies
  <2>. QED  BY <2>2, <2>3 DEF Asking, Queries
<1>7. ASSUME NEW d \in Devices, IdIsFree(d) PROVE TypeInv'
  <2>. DEFINE p == Head(replies[d]).call.page
  <2>1. /\ p \in Pages /\ gameId[p] \in GameIds
        /\ Tail(replies[d]) \in Seq(Replies)
        /\ \A j \in DOMAIN Tail(replies[d]) :
              \E k \in DOMAIN replies[d] : Tail(replies[d])[j] = replies[d][k]
    BY <1>6, <1>7 DEF IdIsFree
  <2>2. /\ outbox' = [outbox EXCEPT ![d] = SaveGame(outbox[d], p)]
        /\ gameIdAvailable' = [gameIdAvailable EXCEPT ![p] = TRUE]
        /\ replies' = [replies EXCEPT ![d] = Tail(replies[d])]
        /\ calls' = [calls EXCEPT ![d] = calls[d] \o <<>>]
        /\ UNCHANGED <<store, cache, sendVars, pageVars, gameId, draft, presses>>
    BY <1>7 DEF IdIsFree, Deliver
  <2>. HIDE DEF p
  <2>3. /\ SaveGame(outbox[d], p) \in Seq(Writes)
        /\ Len(SaveGame(outbox[d], p)) >= Len(outbox[d])
    BY <2>1, SaveGameType DEF TypeOK, Writes
  <2>4. calls' = calls
    BY <2>2, ConcatEmptySeq DEF TypeOK
  <2>. HIDE DEF TypeInv
  <2>5. SendTypeOK'
    BY <2>2, <2>3, GrowStep DEF TypeInv, TypeOK, Writes
  <2>6. TypeOK'
    BY <2>1, <2>2, <2>3, <2>4, <2>5
       DEF TypeInv, TypeOK, PageTypeOK, pageVars, Writes, Replies
  <2>7. Asking'
    BY <2>1, <2>2, <2>4 DEF TypeInv, TypeOK, Asking
  <2>. QED  BY <2>6, <2>7 DEF TypeInv
<1>8. ASSUME NEW d \in Devices, NEW g \in GameIds, IdIsTaken(d, g) PROVE TypeInv'
  <2>. DEFINE p == Head(replies[d]).call.page
              q == GameIdQuery(p, g)
  <2>1. /\ p \in Pages
        /\ Tail(replies[d]) \in Seq(Replies)
        /\ \A j \in DOMAIN Tail(replies[d]) :
              \E k \in DOMAIN replies[d] : Tail(replies[d])[j] = replies[d][k]
    BY <1>6, <1>8 DEF IdIsTaken
  <2>2. /\ gameIdAvailable' = [gameIdAvailable EXCEPT ![p] = FALSE]
        /\ gameId' = [gameId EXCEPT ![p] = g]
        /\ replies' = [replies EXCEPT ![d] = Tail(replies[d])]
        /\ calls' = [calls EXCEPT ![d] = calls[d] \o <<q>>]
        /\ UNCHANGED <<store, cache, outbox, sendVars, pageVars, draft, presses>>
    BY <1>8 DEF IdIsTaken, Deliver
  <2>3. q \in Queries /\ q.page = p
    BY <2>1 DEF GameIdQuery, Where, Queries
  <2>. HIDE DEF p, q
  <2>4. calls[d] \o <<q>> = Append(calls[d], q)
    BY <2>3, AppendIsConcat DEF TypeOK
  <2>5. /\ Append(calls[d], q) \in Seq(Queries)
        /\ \A j \in DOMAIN Append(calls[d], q) :
              \/ Append(calls[d], q)[j] = q
              \/ \E k \in DOMAIN calls[d] : Append(calls[d], q)[j] = calls[d][k]
    BY <2>3, AppendElements DEF TypeOK
  <2>6. TypeOK'
    BY <1>0, <2>1, <2>2, <2>4, <2>5 DEF TypeOK, PageTypeOK, pageVars, Replies
  <2>7. Asking'
    BY <2>1, <2>2, <2>3, <2>4, <2>5 DEF TypeOK, Asking
  <2>. QED  BY <2>6, <2>7
<1>9. ASSUME NEW d \in Devices, AnswerLost(d) PROVE TypeInv'
  <2>1. /\ Tail(replies[d]) \in Seq(Replies)
        /\ \A j \in DOMAIN Tail(replies[d]) :
              \E k \in DOMAIN replies[d] : Tail(replies[d])[j] = replies[d][k]
    BY <1>6, <1>9 DEF AnswerLost
  <2>2. /\ replies' = [replies EXCEPT ![d] = Tail(replies[d])]
        /\ calls' = [calls EXCEPT ![d] = calls[d] \o <<>>]
        /\ UNCHANGED <<store, cache, outbox, sendVars, pageVars, formVars>>
    BY <1>9 DEF AnswerLost, Deliver
  <2>3. calls' = calls
    BY <2>2, ConcatEmptySeq DEF TypeOK
  <2>4. TypeOK'
    BY <1>0, <2>1, <2>2, <2>3
       DEF TypeOK, PageTypeOK, pageVars, formVars, Replies
  <2>5. Asking'
    BY <2>1, <2>2, <2>3 DEF TypeOK, formVars, Asking
  <2>. QED  BY <2>4, <2>5
<1>10. ASSUME NEW d \in Devices, Sync(d) PROVE TypeInv'
  BY <1>10, SyncType
<1>11. ASSUME NEW d \in Devices, Kill(d) PROVE TypeInv'
  <2>1. /\ calls' = [calls EXCEPT ![d] = <<>>]
        /\ replies' = [replies EXCEPT ![d] = <<>>]
        /\ UNCHANGED <<userFound, mCurrentUser, store, cache, formVars>>
        /\ RestartClient(d)
    BY <1>11 DEF Kill, KillProcess, RestartClient
  <2>2. /\ life' \in [Pages -> {"unborn", "mounted", "disposed"}]
        /\ asked' \in SUBSET Pages
    BY <1>11 DEF Kill, KillProcess, TypeOK, PageTypeOK
  <2>3. TypeOK'
    <3>1. /\ calls' \in [Devices -> Seq(Queries)]
          /\ replies' \in [Devices -> Seq(Replies)]
      BY <2>1, EmptySeq DEF TypeOK, Replies
    <3>2. SendTypeOK' /\ outbox' \in [Devices -> Seq(Writes)]
      BY <2>1, WritePaths, DropSteps DEF TypeOK
    <3>. QED  BY <2>1, <2>2, <3>1, <3>2 DEF TypeOK, PageTypeOK, formVars, Replies, Writes
  <2>4. Asking'
    BY <2>1 DEF TypeOK, formVars, Asking
  <2>. QED  BY <2>3, <2>4
<1>12. ASSUME UNCHANGED vars PROVE TypeInv'
  BY <1>0, <1>12 DEF vars, fsVars, pageVars, formVars, TypeOK, PageTypeOK, Asking
<1>. QED
  BY <1>1, <1>2, <1>3, <1>4, <1>5, <1>7, <1>8, <1>9, <1>10, <1>11, <1>12,
     AnswerType DEF Next, User, Client

\* Every reachable state of the New game page is well typed: in particular
\* _saveGame never builds a path or a document from an id that is null.
THEOREM TypeCorrect == Spec => []TypeOK
<1>1. TypeInv => TypeOK
  BY DEF TypeInv
<1>. QED  BY <1>1, TypeInvInit, TypeInvStep, PTL DEF Spec

-----------------------------------------------------------------------------
(***************************************************************************)
(* Copies follow their games.                                              *)
(***************************************************************************)

\* The pending writes of a device are writes.
LEMMA WriteTypes ==
    ASSUME TypeOK, NEW d \in Devices, NEW i \in DOMAIN outbox[d]
    PROVE  /\ outbox[d][i] \in Writes
           /\ outbox[d][i].path \in Paths
           /\ outbox[d][i].data \in GameDocs /\ outbox[d][i].data # NoDoc
<1>1. outbox[d] \in Seq(Writes)
  BY DEF TypeOK, Writes
<1>2. outbox[d][i] \in Writes
  BY <1>1, Elements
<1>. QED  BY <1>2, DocsAssumption DEF Writes

\* The queue of a phone after _saveGame.
LEMMA SaveGameQueue ==
    ASSUME TypeOK, NEW p \in Pages, gameId[p] \in GameIds,
           NEW queue \in Seq(Writes)
    PROVE  LET game == [gameid |-> gameId[p], form |-> draft[p]]
               n == Len(queue)
               s == SaveGame(queue, p)
           IN  /\ n \in Nat /\ DOMAIN queue = 1..n /\ DOMAIN s = 1..(n + 2)
               /\ \A i \in 1..n : s[i] = queue[i]
               /\ s[n + 1] = [path |-> GamePath(gameId[p]), data |-> game]
               /\ s[n + 2] = [path |-> MirrorPath(mCurrentUser[p], gameId[p]),
                              data |-> game]
<1>. DEFINE game == [gameid |-> gameId[p], form |-> draft[p]]
            w1 == [path |-> GamePath(gameId[p]), data |-> game]
            w2 == [path |-> MirrorPath(mCurrentUser[p], gameId[p]), data |-> game]
            mid == Append(queue, w1)
            s == Append(mid, w2)
<1>1. w1 \in Writes /\ w2 \in Writes
  <2>1. game \in GameDocs
    BY DEF TypeOK, GameDocs
  <2>2. /\ GamePath(gameId[p]) \in Paths
        /\ MirrorPath(mCurrentUser[p], gameId[p]) \in Paths
    BY PathsOfAGame DEF TypeOK, PageTypeOK
  <2>. HIDE DEF game
  <2>. QED  BY <2>1, <2>2 DEF Writes
<1>2. SaveGame(queue, p) = s
  BY DEF SaveGame, SetData
<1>. HIDE DEF w1, w2
<1>3. /\ mid \in Seq(Writes) /\ Len(mid) = Len(queue) + 1
      /\ \A i \in 1..Len(queue) : mid[i] = queue[i]
      /\ mid[Len(queue) + 1] = w1
  BY <1>1, AppendProperties
<1>. HIDE DEF mid
<1>4. /\ s \in Seq(Writes) /\ Len(s) = Len(mid) + 1
      /\ \A i \in 1..Len(mid) : s[i] = mid[i]
      /\ s[Len(mid) + 1] = w2
  BY <1>1, <1>3, AppendProperties
<1>. HIDE DEF s
<1>5. /\ Len(queue) \in Nat /\ DOMAIN queue = 1..Len(queue)
      /\ DOMAIN s = 1..Len(s)
  BY <1>4, LenProperties
<1>6. /\ Len(s) = Len(queue) + 2 /\ s[Len(queue) + 2] = w2
      /\ s[Len(queue) + 1] = w1
      /\ \A i \in 1..Len(queue) : s[i] = queue[i]
  BY <1>3, <1>4, <1>5
<1>. QED  BY <1>2, <1>5, <1>6 DEF w1, w2


\* Pending write i of d is kept under its own id, is in the backend if it is
\* applied, and if it is a copy then its game is in the backend or ahead of
\* it in the queue.
CopyFollows(d, i) ==
    LET w == outbox[d][i]
        game == GamePath(w.path.id)
    IN  /\ w.data.gameid = w.path.id
        /\ i <= applied[d] => store[w.path] # NoDoc
        /\ \/ w.path = game
           \/ store[game] # NoDoc
           \/ \E j \in 1..(i - 1) : outbox[d][j].path = game

ShelfInv ==
    /\ ShelfNeedsGame
    /\ \A d \in Devices : \A i \in DOMAIN outbox[d] : CopyFollows(d, i)

LEMMA ShelfInvInit == Init => ShelfInv
<1>. SUFFICES ASSUME Init PROVE ShelfInv
  OBVIOUS
<1>1. \A d \in Devices : DOMAIN outbox[d] = {}
  BY DEF Init, FirestoreInit
<1>. QED  BY <1>1, SeedAssumption DEF Init, FirestoreInit, ShelfInv, ShelfNeedsGame

\* _saveGame queues the copy right behind its game.
LEMMA IdIsFreeShelf ==
    ASSUME TypeInv, ShelfInv, NEW d \in Devices, IdIsFree(d)
    PROVE  ShelfInv'
<1>. USE DEF TypeInv
<1>. DEFINE p == Head(replies[d]).call.page
            g == gameId[p]
            u == mCurrentUser[p]
            game == [gameid |-> g, form |-> draft[p]]
            n == Len(outbox[d])
            s == SaveGame(outbox[d], p)
<1>1. /\ replies[d] # <<>>
      /\ outbox' = [outbox EXCEPT ![d] = s]
      /\ store' = store /\ applied' = applied
  BY DEF IdIsFree, sendVars
<1>2. p \in Pages /\ g \in GameIds
  <2>1. replies[d] \in Seq(Replies)
    BY DEF TypeOK, Replies
  <2>2. /\ 1 \in DOMAIN replies[d] /\ Head(replies[d]) = replies[d][1]
        /\ Head(replies[d]) \in Replies
    BY <1>1, <2>1, TailElements
  <2>. QED  BY <2>2 DEF Asking, Replies, Queries
<1>3. outbox[d] \in Seq(Writes)
  BY DEF TypeOK, Writes
<1>4. /\ n \in Nat /\ DOMAIN outbox[d] = 1..n /\ DOMAIN s = 1..(n + 2)
      /\ \A i \in 1..n : s[i] = outbox[d][i]
      /\ s[n + 1] = [path |-> GamePath(g), data |-> game]
      /\ s[n + 2] = [path |-> MirrorPath(u, g), data |-> game]
  BY <1>2, <1>3, SaveGameQueue
<1>5. game.gameid = g /\ applied[d] \in Nat /\ applied[d] <= n
  BY DEF TypeOK, SendTypeOK
<1>. HIDE DEF p, g, u, game, n, s
<1>6. outbox'[d] = s /\ \A e \in Devices : e # d => outbox'[e] = outbox[e]
  BY <1>1 DEF TypeOK
<1>7. ASSUME NEW e \in Devices, NEW i \in DOMAIN outbox'[e]
      PROVE  CopyFollows(e, i)'
  <2>1. CASE e # d
    BY <1>1, <1>6, <2>1 DEF ShelfInv, CopyFollows
  <2>2. CASE e = d /\ i \in 1..n
    <3>1. CopyFollows(d, i)
      BY <1>4, <2>2 DEF ShelfInv
    <3>2. s[i] = outbox[d][i] /\ \A j \in 1..(i - 1) : s[j] = outbox[d][j]
      BY <1>4, <2>2
    <3>. QED  BY <1>1, <1>6, <2>2, <3>1, <3>2 DEF CopyFollows
  <2>3. CASE e = d /\ i = n + 1
    <3>1. ~(i <= applied[d])
      BY <1>4, <1>5, <2>3
    <3>. QED  BY <1>1, <1>4, <1>5, <1>6, <2>3, <3>1, PathsDiffer DEF CopyFollows
  <2>4. CASE e = d /\ i = n + 2
    <3>1. n + 1 \in 1..(i - 1) /\ ~(i <= applied[d])
      BY <1>4, <1>5, <2>4
    <3>2. s[n + 1].path = GamePath(g) /\ s[i].path = MirrorPath(u, g)
          /\ s[i].data.gameid = g /\ s[i].path.id = g
      BY <1>4, <1>5, <2>4, PathsDiffer
    <3>. QED  BY <1>1, <1>6, <2>4, <3>1, <3>2 DEF CopyFollows
  <2>. QED  BY <1>4, <1>6, <2>1, <2>2, <2>3, <2>4
<1>8. ShelfNeedsGame'
  BY <1>1 DEF ShelfInv, ShelfNeedsGame, WellKept
<1>. QED  BY <1>7, <1>8 DEF ShelfInv

\* The next write reaches the backend; nothing is ever deleted there.
LEMMA ApplyShelf ==
    ASSUME TypeInv, ShelfInv, NEW d \in Devices, Apply(d)
    PROVE  ShelfInv'
<1>. USE DEF TypeInv
<1>. DEFINE k == applied[d] + 1
            w == outbox[d][k]
            game == GamePath(w.path.id)
<1>1. /\ outbox' = outbox
      /\ store' = [store EXCEPT ![w.path] = w.data]
      /\ applied' = [applied EXCEPT ![d] = k]
  BY DEF Apply, ApplyWrite
<1>2. /\ applied[d] \in Nat /\ k \in DOMAIN outbox[d]
      /\ \A e \in Devices : DOMAIN outbox[e] \subseteq Nat
  BY LenProperties DEF Apply, ApplyWrite, TypeOK, SendTypeOK
<1>3. w.path \in Paths /\ w.data # NoDoc
  BY <1>2, WriteTypes
<1>4. ASSUME NEW j \in 1..(k - 1) PROVE store[outbox[d][j].path] # NoDoc
  <2>1. j \in DOMAIN outbox[d] /\ j <= applied[d]
    BY <1>2, LenProperties DEF TypeOK
  <2>. QED  BY <2>1 DEF ShelfInv, CopyFollows
<1>5. w.data.gameid = w.path.id /\ (w.path = game \/ store[game] # NoDoc)
  <2>1. CopyFollows(d, k)
    BY <1>2 DEF ShelfInv
  <2>. QED  BY <1>4, <2>1 DEF CopyFollows
<1>6. /\ store'[w.path] = w.data
      /\ \A x \in Paths : x # w.path => store'[x] = store[x]
      /\ \A x \in Paths : store[x] # NoDoc => store'[x] # NoDoc
  BY <1>1, <1>3 DEF TypeOK
<1>7. /\ applied'[d] = k
      /\ \A e \in Devices : e # d => applied'[e] = applied[e]
  BY <1>1 DEF TypeOK, SendTypeOK
<1>. HIDE DEF w, game
<1>8. ShelfNeedsGame'
  <2>1. ASSUME NEW x \in Paths, store'[x] # NoDoc PROVE store'[x].gameid = x.id
    <3>1. CASE x = w.path
      BY <1>5, <1>6, <3>1
    <3>2. CASE x # w.path
      BY <1>6, <2>1, <3>2 DEF ShelfInv, ShelfNeedsGame, WellKept
    <3>. QED  BY <3>1, <3>2
  <2>2. ASSUME NEW u \in Users \union {null}, NEW g \in GameIds,
               store'[MirrorPath(u, g)] # NoDoc
        PROVE  store'[GamePath(g)] # NoDoc
    <3>0. GamePath(g) \in Paths /\ MirrorPath(u, g) \in Paths
      BY PathsOfAGame
    <3>1. CASE MirrorPath(u, g) = w.path
      <4>1. game = GamePath(g) /\ w.path # GamePath(g)
        BY <3>1, PathsDiffer DEF game
      <4>. QED  BY <1>5, <1>6, <3>0, <4>1
    <3>2. CASE MirrorPath(u, g) # w.path
      <4>1. store[MirrorPath(u, g)] # NoDoc
        BY <1>6, <2>2, <3>0, <3>2
      <4>2. store[GamePath(g)] # NoDoc
        BY <4>1 DEF ShelfInv, ShelfNeedsGame, WellKept
      <4>. QED  BY <1>6, <3>0, <4>2
    <3>. QED  BY <3>1, <3>2
  <2>. QED  BY <2>1, <2>2 DEF ShelfNeedsGame, WellKept
<1>9. ASSUME NEW e \in Devices, NEW i \in DOMAIN outbox'[e]
      PROVE  CopyFollows(e, i)'
  <2>1. i \in DOMAIN outbox[e] /\ CopyFollows(e, i)
    BY <1>1 DEF ShelfInv
  <2>2. /\ outbox[e][i].path \in Paths
        /\ GamePath(outbox[e][i].path.id) \in Paths
    BY <2>1, WriteTypes, PathCases, PathsOfAGame
  <2>3. i <= applied'[e] => store'[outbox[e][i].path] # NoDoc
    <3>1. CASE i <= applied[e]
      BY <1>6, <2>1, <2>2, <3>1 DEF CopyFollows
    <3>2. CASE e = d /\ i = k
      BY <1>3, <1>6, <3>2 DEF w
    <3>3. CASE ~(i <= applied[e]) /\ ~(e = d /\ i = k)
      <4>1. i \in Nat
        BY <1>2, <2>1
      <4>2. ~(i <= applied'[e])
        BY <1>2, <1>7, <3>3, <4>1
      <4>. QED  BY <4>2
    <3>. QED  BY <3>1, <3>2, <3>3
  <2>. QED  BY <1>1, <1>6, <2>1, <2>2, <2>3 DEF CopyFollows
<1>. QED  BY <1>8, <1>9 DEF ShelfInv

\* Applied writes leave the queue: what followed them finds them in the
\* backend.
LEMMA DropShelf ==
    ASSUME TypeInv, ShelfInv, NEW d \in Devices, TypeInv', NEW n, Dropped(d, n)
    PROVE  ShelfInv'
<1>. USE DEF TypeInv
<1>1. /\ n \in Nat /\ n <= applied[d] /\ applied[d] \in Nat
      /\ applied'[d] \in Nat /\ applied'[d] + n <= applied[d]
      /\ store' = store
  BY DEF Dropped, TypeOK, SendTypeOK
<1>2. ASSUME NEW e \in Devices, NEW i \in DOMAIN outbox'[e]
      PROVE  CopyFollows(e, i)'
  <2>1. CASE e # d
    <3>1. outbox'[e] = outbox[e] /\ applied'[e] = applied[e]
      BY <2>1 DEF Dropped
    <3>. QED  BY <1>1, <1>2, <3>1 DEF ShelfInv, CopyFollows
  <2>2. CASE e = d
    <3>. DEFINE k == i + n
                game == GamePath(outbox[d][k].path.id)
    <3>1. k \in DOMAIN outbox[d] /\ outbox'[d][i] = outbox[d][k]
      BY <2>2 DEF Dropped
    <3>2. /\ DOMAIN outbox[d] = 1..Len(outbox[d]) /\ Len(outbox[d]) \in Nat
          /\ DOMAIN outbox'[d] = 1..Len(outbox'[d]) /\ Len(outbox'[d]) \in Nat
          /\ i \in 1..Len(outbox'[d])
      BY <2>2, LenProperties DEF TypeOK
    <3>3. CopyFollows(d, k)
      BY <3>1 DEF ShelfInv
    <3>4. i <= applied'[d] => k <= applied[d]
      BY <1>1, <3>2
    <3>5. ASSUME NEW j \in 1..(k - 1), outbox[d][j].path = game
          PROVE  \/ store[game] # NoDoc
                 \/ \E l \in 1..(i - 1) : outbox'[d][l].path = game
      <4>1. CASE j <= n
        <5>1. j \in DOMAIN outbox[d] /\ j <= applied[d]
          BY <1>1, <3>1, <3>2, <4>1
        <5>. QED  BY <3>5, <5>1 DEF ShelfInv, CopyFollows
      <4>2. CASE ~(j <= n)
        <5>1. j - n \in 1..(i - 1) /\ j - n \in DOMAIN outbox'[d] /\ j - n + n = j
          BY <1>1, <3>2, <4>2
        <5>2. outbox'[d][j - n] = outbox[d][j]
          BY <5>1 DEF Dropped
        <5>. QED  BY <3>5, <5>1, <5>2
      <4>. QED  BY <4>1, <4>2
    <3>. HIDE DEF k
    <3>. QED  BY <1>1, <2>2, <3>1, <3>3, <3>4, <3>5 DEF CopyFollows
  <2>. QED  BY <2>1, <2>2
<1>. QED  BY <1>1, <1>2 DEF ShelfInv, ShelfNeedsGame, WellKept

\* An acknowledgement or a broken stream: what counts as applied may only
\* become less.
LEMMA CountShelf ==
    ASSUME TypeInv, ShelfInv, NEW d \in Devices, Ack(d) \/ Break(d)
    PROVE  ShelfInv'
<1>. USE DEF TypeInv
<1>1. /\ UNCHANGED <<store, outbox>>
      /\ \A e \in Devices : applied'[e] \in Nat /\ applied'[e] <= applied[e]
                             /\ applied[e] \in Nat
  <2>1. /\ applied \in [Devices -> Nat] /\ acked \in [Devices -> Nat]
        /\ acked[d] <= applied[d]
    BY DEF TypeOK, SendTypeOK
  <2>2. CASE Ack(d)
    BY <2>1, <2>2 DEF Ack, AckWrite
  <2>3. CASE Break(d)
    BY <2>1, <2>3 DEF Break, BreakStream
  <2>. QED  BY <2>2, <2>3
<1>2. ASSUME NEW e \in Devices, NEW i \in DOMAIN outbox[e]
      PROVE  CopyFollows(e, i)'
  <2>1. i \in Nat
    BY LenProperties DEF TypeOK
  <2>2. i <= applied'[e] => i <= applied[e]
    BY <1>1, <2>1
  <2>. QED  BY <1>1, <2>2 DEF ShelfInv, CopyFollows
<1>. QED  BY <1>1, <1>2 DEF ShelfInv, ShelfNeedsGame, WellKept

LEMMA ShelfInvStep ==
    ASSUME TypeInv, ShelfInv, [Next]_vars
    PROVE  ShelfInv'
<1>1. ASSUME UNCHANGED <<store, outbox, applied>> PROVE ShelfInv'
  BY <1>1 DEF ShelfInv, ShelfNeedsGame, WellKept, CopyFollows
<1>2. \/ UNCHANGED <<store, outbox, applied>>
      \/ \E d \in Devices : IdIsFree(d) \/ Sync(d) \/ Kill(d)
  BY DEF Next, User, Client, OpenPage, FindUser, Edit, PressStart, Cancel,
         IdIsTaken, AnswerLost, Answer, AnswerFromServer, AnswerFromCache,
         Answered, vars, fsVars, sendVars
<1>3. ASSUME NEW d \in Devices, Release(d) \/ Kill(d) PROVE ShelfInv'
  <2>1. TypeInv'
    BY TypeInvStep
  <2>2. ReleaseWrite(d) \/ RestartClient(d)
    BY <1>3 DEF Release, Kill, KillProcess
  <2>3. \E n : Dropped(d, n)
    <3>1. TypeOK /\ SendTypeOK
      BY DEF TypeInv, TypeOK
    <3>2. \E n \in 0..acked[d] : Dropped(d, n)
      BY <2>2, <3>1, WritePaths, DropSteps
    <3>. QED  BY <3>2
  <2>. QED  BY <2>1, <2>3, DropShelf
<1>. QED  BY <1>1, <1>2, <1>3, IdIsFreeShelf, ApplyShelf, CountShelf DEF Sync

\* For any phones, pages, users, ids and sessions, whatever is pressed twice,
\* drawn twice, lost or killed: users/<uid>/games never names a game that the
\* group does not have, because _saveGame queues the group's document first.
THEOREM ShelfSafe == Spec => []ShelfNeedsGame
<1>1. Init => TypeInv /\ ShelfInv
  BY TypeInvInit, ShelfInvInit
<1>2. (TypeInv /\ ShelfInv) /\ [Next]_vars => (TypeInv /\ ShelfInv)'
  BY TypeInvStep, ShelfInvStep
<1>3. ShelfInv => ShelfNeedsGame
  BY DEF ShelfInv
<1>. QED  BY <1>1, <1>2, <1>3, PTL DEF Spec

-----------------------------------------------------------------------------
(***************************************************************************)
(* Whose documents a phone writes.                                         *)
(***************************************************************************)

\* The form of a page is there only after its user, who is somebody, was
\* found; nobody asks for the user of that page again.
UserKnown(p) ==
    /\ p \in asked => life[p] # "unborn"
    /\ userFound[p] => /\ life[p] # "unborn" /\ p \notin asked
                       /\ mCurrentUser[p] = Session[Host[p]]
                       /\ Session[Host[p]] # null

\* A page of d that has pressed Start.
Asker(d, p) ==
    p \in Pages /\ Host[p] = d /\ userFound[p] /\ gameId[p] \in Draws[d]

\* The paths _saveGame can write to from d.
OwnPath(d, x) ==
    /\ x.id \in Draws[d] /\ Session[d] # null
    /\ x = GamePath(x.id) \/ x = MirrorPath(Session[d], x.id)

AskersInv ==
    \A d \in Devices :
        /\ \A i \in DOMAIN calls[d] : Asker(d, calls[d][i].page)
        /\ \A i \in DOMAIN replies[d] : Asker(d, replies[d][i].call.page)

\* Every phone writes to its own paths, the others keep what they had.
OwnInv ==
    /\ \A p \in Pages : UserKnown(p)
    /\ AskersInv
    /\ \A d \in Devices : \A i \in DOMAIN outbox[d] : OwnPath(d, outbox[d][i].path)
    /\ \A x \in Paths : (\A d \in Devices : ~OwnPath(d, x)) => store[x] = Seed[x]

LEMMA ClientTypeOK ==
    ASSUME TypeOK
    PROVE  FsTypeOK(GameDocs, Queries)
BY DEF TypeOK, FsTypeOK, WritesOf, AnswersOf

LEMMA OwnInvInit == Init => OwnInv
<1>. SUFFICES ASSUME Init PROVE OwnInv
  OBVIOUS
<1>1. \A d \in Devices : outbox[d] = <<>> /\ calls[d] = <<>> /\ replies[d] = <<>>
  BY DEF Init, FirestoreInit
<1>2. \A d \in Devices : DOMAIN outbox[d] = {} /\ DOMAIN calls[d] = {}
                         /\ DOMAIN replies[d] = {}
  BY <1>1
<1>3. store = Seed /\ \A p \in Pages : UserKnown(p)
  BY DEF Init, FirestoreInit, PageInit, UserKnown
<1>. QED  BY <1>2, <1>3 DEF OwnInv, AskersInv

\* What is known of a page's user stays so.
LEMMA UserKnownStep ==
    ASSUME TypeInv, OwnInv, [Next]_vars
    PROVE  /\ \A p \in Pages : UserKnown(p)'
           /\ \A p \in Pages : userFound[p] => userFound'[p]
                                    /\ mCurrentUser'[p] = mCurrentUser[p]
<1>. USE DEF TypeInv
<1>0. \A p \in Pages : UserKnown(p)
  BY DEF OwnInv
<1>1. CASE UNCHANGED pageVars
  BY <1>0, <1>1 DEF pageVars, UserKnown
<1>2. ASSUME NEW p \in Pages, OpenPage(p) PROVE
           /\ \A q \in Pages : UserKnown(q)'
           /\ \A q \in Pages : userFound[q] => userFound'[q]
                                    /\ mCurrentUser'[q] = mCurrentUser[q]
  BY <1>0, <1>2 DEF OpenPage, InitState, TypeOK, PageTypeOK, UserKnown
<1>3. ASSUME NEW p \in Pages, FindUser(p) PROVE
           /\ \A q \in Pages : UserKnown(q)'
           /\ \A q \in Pages : userFound[q] => userFound'[q]
                                    /\ mCurrentUser'[q] = mCurrentUser[q]
  <2>1. /\ p \in asked /\ asked' = asked \ {p} /\ life' = life
        /\ mCurrentUser' = [mCurrentUser EXCEPT ![p] = Session[Host[p]]]
        /\ userFound' = [userFound EXCEPT ![p] = Session[Host[p]] # null]
    BY <1>3 DEF FindUser, UserIdFound
  <2>2. /\ userFound \in [Pages -> BOOLEAN]
        /\ mCurrentUser \in [Pages -> Users \union {null}]
    BY DEF TypeOK, PageTypeOK
  <2>3. ~userFound[p] /\ life[p] # "unborn"
    BY <1>0, <2>1 DEF UserKnown
  <2>4. ASSUME NEW q \in Pages
        PROVE  UserKnown(q)' /\ (userFound[q] => userFound'[q]
                                    /\ mCurrentUser'[q] = mCurrentUser[q])
    <3>1. CASE q = p
      <4>1. /\ userFound'[p] = (Session[Host[p]] # null)
            /\ mCurrentUser'[p] = Session[Host[p]]
        BY <2>1, <2>2
      <4>. QED  BY <2>1, <2>3, <3>1, <4>1 DEF UserKnown
    <3>2. CASE q # p
      <4>1. userFound'[q] = userFound[q] /\ mCurrentUser'[q] = mCurrentUser[q]
        BY <2>1, <2>2, <3>2
      <4>. QED  BY <1>0, <2>1, <4>1 DEF UserKnown
    <3>. QED  BY <3>1, <3>2
  <2>. QED  BY <2>4
<1>4. ASSUME NEW p \in Pages, Cancel(p) PROVE
           /\ \A q \in Pages : UserKnown(q)'
           /\ \A q \in Pages : userFound[q] => userFound'[q]
                                    /\ mCurrentUser'[q] = mCurrentUser[q]
  BY <1>0, <1>4 DEF Cancel, Pop, TypeOK, PageTypeOK, UserKnown
<1>5. ASSUME NEW d \in Devices, Kill(d) PROVE
           /\ \A q \in Pages : UserKnown(q)'
           /\ \A q \in Pages : userFound[q] => userFound'[q]
                                    /\ mCurrentUser'[q] = mCurrentUser[q]
  <2>1. /\ \A q \in Pages : life'[q] = life[q] \/ life'[q] = "disposed"
        /\ asked' \subseteq asked /\ UNCHANGED <<userFound, mCurrentUser>>
    BY <1>5 DEF Kill, KillProcess
  <2>. QED  BY <1>0, <2>1 DEF UserKnown
<1>6. \/ UNCHANGED pageVars
      \/ \E p \in Pages : OpenPage(p) \/ FindUser(p) \/ Cancel(p)
      \/ \E d \in Devices : Kill(d)
  BY DEF Next, User, Client, Sync, Edit, PressStart, IdIsFree, IdIsTaken, AnswerLost,
         Apply, Ack, Release, Break, Answer, vars
<1>. QED  BY <1>1, <1>2, <1>3, <1>4, <1>5, <1>6

\* A page that has asked goes on to hold an id of its phone's generator.
LEMMA AskerStays ==
    ASSUME TypeInv, OwnInv, [Next]_vars, NEW d \in Devices, NEW p, Asker(d, p)
    PROVE  Asker(d, p)'
<1>. USE DEF TypeInv
<1>1. p \in Pages /\ Host[p] = d /\ userFound[p] /\ gameId[p] \in Draws[d]
  BY DEF Asker
<1>2. userFound'[p]
  BY <1>1, UserKnownStep
<1>3. gameId'[p] \in Draws[d]
  <2>1. CASE gameId' = gameId
    BY <1>1, <2>1
  <2>2. ASSUME NEW q \in Pages, NEW g \in GameIds, PressStart(q, g)
        PROVE  gameId'[p] \in Draws[d]
    <3>1. g \in Draws[Host[q]] /\ gameId' = [gameId EXCEPT ![q] = g]
      BY <2>2 DEF PressStart
    <3>. QED  BY <1>1, <3>1 DEF TypeOK
  <2>3. ASSUME NEW e \in Devices, NEW g \in GameIds, IdIsTaken(e, g)
        PROVE  gameId'[p] \in Draws[d]
    <3>. DEFINE q == Head(replies[e]).call.page
    <3>1. /\ replies[e] # <<>> /\ g \in Draws[e]
          /\ gameId' = [gameId EXCEPT ![q] = g]
      BY <2>3 DEF IdIsTaken
    <3>2. 1 \in DOMAIN replies[e] /\ Head(replies[e]) = replies[e][1]
      BY <3>1, ClientTypeOK, DeliverTypes
    <3>3. Asker(e, q)
      BY <3>2 DEF OwnInv, AskersInv
    <3>. HIDE DEF q
    <3>. QED  BY <1>1, <3>1, <3>3 DEF Asker, TypeOK
  <2>. QED
    BY <2>1, <2>2, <2>3 DEF Next, User, Client, Sync, OpenPage, FindUser, Edit, Cancel,
       IdIsFree, AnswerLost, Kill, Apply, Ack, Release, Break, Answer, vars, formVars
<1>. QED  BY <1>1, <1>2, <1>3 DEF Asker

\* Only a page that has asked is asked for, and only it is answered.
LEMMA AskersStep ==
    ASSUME TypeInv, OwnInv, [Next]_vars
    PROVE  AskersInv'
<1>. USE DEF TypeInv
<1>0. FsTypeOK(GameDocs, Queries)
  BY ClientTypeOK
<1>1. ASSUME NEW d \in Devices
      PROVE  /\ \A i \in DOMAIN calls[d] : \A p : p = calls[d][i].page => Asker(d, p)'
             /\ \A i \in DOMAIN replies[d] :
                   \A p : p = replies[d][i].call.page => Asker(d, p)'
  <2>1. ASSUME NEW i \in DOMAIN calls[d], NEW p, p = calls[d][i].page
        PROVE  Asker(d, p)'
    <3>1. Asker(d, p)
      BY <2>1 DEF OwnInv, AskersInv
    <3>. QED  BY <3>1, AskerStays
  <2>2. ASSUME NEW i \in DOMAIN replies[d], NEW p, p = replies[d][i].call.page
        PROVE  Asker(d, p)'
    <3>1. Asker(d, p)
      BY <2>2 DEF OwnInv, AskersInv
    <3>. QED  BY <3>1, AskerStays
  <2>. QED  BY <2>1, <2>2
<1>2. ASSUME \A d \in Devices :
                /\ \A j \in DOMAIN calls'[d] :
                      \/ \E k \in DOMAIN calls[d] : calls'[d][j] = calls[d][k]
                      \/ Asker(d, calls[d][j].page)'
                /\ \A j \in DOMAIN replies'[d] :
                      \/ \E k \in DOMAIN replies[d] : replies'[d][j] = replies[d][k]
                      \/ \E k \in DOMAIN calls[d] : replies'[d][j].call = calls[d][k]
      PROVE  AskersInv'
  <2>. SUFFICES ASSUME NEW d \in Devices
                PROVE  /\ \A j \in DOMAIN calls'[d] : Asker(d, calls[d][j].page)'
                       /\ \A j \in DOMAIN replies'[d] : Asker(d, replies[d][j].call.page)'
    BY DEF AskersInv
  <2>2. ASSUME NEW j \in DOMAIN calls'[d] PROVE Asker(d, calls[d][j].page)'
    <3>1. ASSUME NEW k \in DOMAIN calls[d], calls'[d][j] = calls[d][k]
          PROVE  Asker(d, calls[d][j].page)'
      <4>1. \A p : p = calls[d][k].page => Asker(d, p)'
        BY <1>1
      <4>. QED  BY <3>1, <4>1 DEF Asker
    <3>. QED  BY <1>2, <3>1
  <2>3. ASSUME NEW j \in DOMAIN replies'[d] PROVE Asker(d, replies[d][j].call.page)'
    <3>1. ASSUME NEW k \in DOMAIN replies[d], replies'[d][j] = replies[d][k]
          PROVE  Asker(d, replies[d][j].call.page)'
      <4>1. \A p : p = replies[d][k].call.page => Asker(d, p)'
        BY <1>1
      <4>. QED  BY <3>1, <4>1 DEF Asker
    <3>2. ASSUME NEW k \in DOMAIN calls[d], replies'[d][j].call = calls[d][k]
          PROVE  Asker(d, replies[d][j].call.page)'
      <4>1. \A p : p = calls[d][k].page => Asker(d, p)'
        BY <1>1
      <4>. QED  BY <3>2, <4>1 DEF Asker
    <3>. QED  BY <1>2, <3>1, <3>2
  <2>. QED  BY <2>2, <2>3
<1>3. ASSUME \A d \in Devices : CallsAreOld(d) /\ RepliesAreOld(d)
      PROVE  AskersInv'
  BY <1>2, <1>3 DEF CallsAreOld, RepliesAreOld
<1>4. CASE UNCHANGED <<calls, replies>>
  <2>1. \A d \in Devices : CallsAreOld(d) /\ RepliesAreOld(d)
    BY <1>4 DEF CallsAreOld, RepliesAreOld
  <2>. QED  BY <1>3, <2>1
<1>5. CASE \E d \in Devices : Sync(d)
  BY <1>4, <1>5 DEF Sync, Apply, Ack, Release, Break, ApplyWrite, AckWrite,
                    ReleaseWrite, BreakStream
<1>6. ASSUME NEW d \in Devices, Kill(d) PROVE AskersInv'
  <2>1. RestartClient(d)
    BY <1>6 DEF Kill, KillProcess
  <2>2. \A e \in Devices : CallsAreOld(e) /\ RepliesAreOld(e)
    BY <1>0, <2>1, RestartTypes
  <2>. QED  BY <1>3, <2>2
<1>7. ASSUME NEW d \in Devices, IdIsFree(d) \/ AnswerLost(d) PROVE AskersInv'
  <2>1. replies[d] # <<>> /\ Deliver(d, <<>>)
    BY <1>7 DEF IdIsFree, AnswerLost
  <2>2. calls' = calls /\ \A e \in Devices : RepliesAreOld(e)
    BY <1>0, <2>1, DeliverTypes
  <2>3. \A e \in Devices : CallsAreOld(e)
    BY <2>2 DEF CallsAreOld
  <2>. QED  BY <1>3, <2>2, <2>3
<1>8. ASSUME NEW d \in Devices, NEW i \in DOMAIN calls[d], Answer(d, i)
      PROVE  AskersInv'
  <2>1. AnswerFromServer(d, i) \/ AnswerFromCache(d, i)
    BY <1>8 DEF Answer
  <2>2. /\ \A e \in Devices : CallsAreOld(e)
        /\ \A e \in Devices : \A j \in DOMAIN replies'[e] :
              \/ \E k \in DOMAIN replies[e] : replies'[e][j] = replies[e][k]
              \/ \E k \in DOMAIN calls[e] : replies'[e][j].call = calls[e][k]
    BY <1>0, <2>1, AnswerTypes
  <2>. QED  BY <1>2, <2>2 DEF CallsAreOld
<1>9. ASSUME NEW d \in Devices, NEW q \in Queries, Asker(d, q.page)',
             calls' = [calls EXCEPT ![d] = Append(calls[d], q)],
             \A e \in Devices : RepliesAreOld(e)
      PROVE  AskersInv'
  <2>1. calls \in [Devices -> Seq(Queries)] /\ calls[d] \in Seq(Queries)
    BY DEF TypeOK
  <2>2. \A j \in DOMAIN Append(calls[d], q) :
           \/ Append(calls[d], q)[j] = q
           \/ \E k \in DOMAIN calls[d] : Append(calls[d], q)[j] = calls[d][k]
    BY <2>1, AppendElements
  <2>3. ASSUME NEW e \in Devices, NEW j \in DOMAIN calls'[e]
        PROVE  \/ \E k \in DOMAIN calls[e] : calls'[e][j] = calls[e][k]
               \/ Asker(e, calls[e][j].page)'
    <3>1. CASE e # d
      BY <1>9, <2>1, <2>3, <3>1
    <3>2. CASE e = d
      <4>1. calls'[e] = Append(calls[d], q)
        BY <1>9, <2>1, <3>2
      <4>2. CASE calls'[e][j] = q
        BY <1>9, <3>2, <4>2 DEF Asker
      <4>. QED  BY <2>2, <2>3, <3>2, <4>1, <4>2
    <3>. QED  BY <3>1, <3>2
  <2>. QED  BY <1>2, <1>9, <2>3 DEF RepliesAreOld
<1>10. ASSUME NEW p \in Pages, NEW g \in GameIds, PressStart(p, g) PROVE AskersInv'
  <2>. DEFINE d == Host[p]
              q == GameIdQuery(p, g)
  <2>1. /\ calls' = [calls EXCEPT ![d] = Append(calls[d], q)]
        /\ replies' = replies /\ userFound' = userFound /\ userFound[p]
        /\ g \in Draws[d] /\ gameId' = [gameId EXCEPT ![p] = g]
    BY <1>10 DEF PressStart, FormShown, pageVars
  <2>2. d \in Devices /\ q \in Queries /\ q.page = p
    BY HostAssumption DEF GameIdQuery, Where, Queries
  <2>3. Asker(d, p)'
    BY <2>1 DEF Asker, TypeOK
  <2>4. Asker(d, q.page)'
    BY <2>2, <2>3 DEF Asker
  <2>5. \A e \in Devices : RepliesAreOld(e)
    BY <2>1 DEF RepliesAreOld
  <2>. HIDE DEF d, q
  <2>. QED  BY <1>9, <2>1, <2>2, <2>4, <2>5
<1>11. ASSUME NEW d \in Devices, NEW g \in GameIds, IdIsTaken(d, g) PROVE AskersInv'
  <2>. PICK p : p = Head(replies[d]).call.page
    OBVIOUS
  <2>. PICK q : q = GameIdQuery(p, g)
    OBVIOUS
  <2>1. /\ replies[d] # <<>>
        /\ replies' = [replies EXCEPT ![d] = Tail(replies[d])]
        /\ calls' = [calls EXCEPT ![d] = calls[d] \o <<q>>]
    BY <1>11 DEF IdIsTaken, Deliver
  <2>2. 1 \in DOMAIN replies[d] /\ Head(replies[d]) = replies[d][1]
    BY <1>0, <2>1, DeliverTypes
  <2>3. Asker(d, p)
    BY <2>2 DEF OwnInv, AskersInv
  <2>4. q \in Queries /\ q.page = p
    BY <2>3 DEF GameIdQuery, Where, Queries, Asker
  <2>5. Asker(d, p)'
    BY <2>3, AskerStays
  <2>6. Asker(d, q.page)'
    BY <2>4, <2>5
  <2>7. calls[d] \o <<q>> = Append(calls[d], q)
    BY <2>4, AppendIsConcat DEF TypeOK
  <2>8. \A e \in Devices : RepliesAreOld(e)
    <3>1. replies \in [Devices -> Seq(Replies)] /\ replies[d] \in Seq(Replies)
      BY DEF TypeOK, Replies
    <3>2. \A j \in DOMAIN Tail(replies[d]) :
             \E k \in DOMAIN replies[d] : Tail(replies[d])[j] = replies[d][k]
      BY <2>1, <3>1, TailElements
    <3>. QED  BY <2>1, <3>1, <3>2 DEF RepliesAreOld
  <2>. QED  BY <1>9, <2>1, <2>4, <2>6, <2>7, <2>8
<1>12. \/ UNCHANGED <<calls, replies>>
       \/ \E d \in Devices : Sync(d) \/ Kill(d) \/ IdIsFree(d) \/ AnswerLost(d)
       \/ \E d \in Devices : \E i \in DOMAIN calls[d] : Answer(d, i)
       \/ \E d \in Devices : \E g \in GameIds : IdIsTaken(d, g)
       \/ \E p \in Pages : \E g \in GameIds : PressStart(p, g)
  BY DEF Next, User, Client, OpenPage, FindUser, Edit, Cancel, vars, fsVars
<1>. QED  BY <1>4, <1>5, <1>6, <1>7, <1>8, <1>10, <1>11, <1>12

\* The page of an answer saves under the account and an id of its phone.
LEMMA SavesOwn ==
    ASSUME TypeInv, OwnInv, NEW d \in Devices, IdIsFree(d)
    PROVE  \E p \in Pages :
              /\ p = Head(replies[d]).call.page
              /\ gameId[p] \in Draws[d] /\ gameId[p] \in GameIds
              /\ mCurrentUser[p] = Session[d] /\ Session[d] # null
              /\ outbox' = [outbox EXCEPT ![d] = SaveGame(outbox[d], p)]
              /\ UNCHANGED <<store, applied>>
<1>. USE DEF TypeInv
<1>. PICK p : p = Head(replies[d]).call.page
  OBVIOUS
<1>1. /\ replies[d] # <<>> /\ UNCHANGED <<store, applied>>
      /\ outbox' = [outbox EXCEPT ![d] = SaveGame(outbox[d], p)]
  BY DEF IdIsFree, sendVars
<1>2. 1 \in DOMAIN replies[d] /\ Head(replies[d]) = replies[d][1]
  BY <1>1, ClientTypeOK, DeliverTypes
<1>3. Asker(d, p) /\ gameId[p] \in GameIds
  BY <1>2 DEF OwnInv, AskersInv, Asking
<1>4. mCurrentUser[p] = Session[d] /\ Session[d] # null
  BY <1>3 DEF OwnInv, UserKnown, Asker
<1>. QED  BY <1>1, <1>3, <1>4 DEF Asker

\* What _saveGame queues goes to paths of the phone's own.
LEMMA OwnWritesStep ==
    ASSUME TypeInv, OwnInv, [Next]_vars
    PROVE  \A d \in Devices : \A i \in DOMAIN outbox'[d] : OwnPath(d, outbox'[d][i].path)
<1>. USE DEF TypeInv
<1>0. \A d \in Devices : \A i \in DOMAIN outbox[d] : OwnPath(d, outbox[d][i].path)
  BY DEF OwnInv
<1>1. CASE outbox' = outbox
  BY <1>0, <1>1
<1>2. ASSUME NEW d \in Devices, Release(d) \/ Kill(d), NEW e \in Devices,
             NEW i \in DOMAIN outbox'[e]
      PROVE  OwnPath(e, outbox'[e][i].path)
  <2>1. ReleaseWrite(d) \/ RestartClient(d)
    BY <1>2 DEF Release, Kill, KillProcess
  <2>2. \E n \in 0..acked[d] : Dropped(d, n)
    BY <2>1, WritePaths, DropSteps DEF TypeOK
  <2>. PICK n : Dropped(d, n)
    BY <2>2
  <2>3. CASE e # d
    BY <1>0, <1>2, <2>3 DEF Dropped
  <2>4. CASE e = d
    <3>1. i + n \in DOMAIN outbox[d] /\ outbox'[d][i] = outbox[d][i + n]
      BY <1>2, <2>4 DEF Dropped
    <3>. QED  BY <1>0, <2>4, <3>1
  <2>. QED  BY <2>3, <2>4
<1>3. ASSUME NEW d \in Devices, IdIsFree(d), NEW e \in Devices,
             NEW i \in DOMAIN outbox'[e]
      PROVE  OwnPath(e, outbox'[e][i].path)
  <2>. PICK p \in Pages :
              /\ gameId[p] \in Draws[d] /\ gameId[p] \in GameIds
              /\ mCurrentUser[p] = Session[d] /\ Session[d] # null
              /\ outbox' = [outbox EXCEPT ![d] = SaveGame(outbox[d], p)]
    BY <1>3, SavesOwn
  <2>1. CASE e # d
    BY <1>0, <1>3, <2>1 DEF TypeOK
  <2>2. CASE e = d
    <3>. DEFINE n == Len(outbox[d])
                s == SaveGame(outbox[d], p)
                g == gameId[p]
                game == [gameid |-> g, form |-> draft[p]]
    <3>1. outbox[d] \in Seq(Writes) /\ outbox'[d] = s
      BY DEF TypeOK, Writes
    <3>2. /\ n \in Nat /\ DOMAIN outbox[d] = 1..n /\ DOMAIN s = 1..(n + 2)
          /\ \A j \in 1..n : s[j] = outbox[d][j]
          /\ s[n + 1] = [path |-> GamePath(g), data |-> game]
          /\ s[n + 2] = [path |-> MirrorPath(mCurrentUser[p], g), data |-> game]
      BY <3>1, SaveGameQueue
    <3>3. OwnPath(d, GamePath(g)) /\ OwnPath(d, MirrorPath(Session[d], g))
      BY PathsDiffer DEF OwnPath
    <3>. HIDE DEF n, s, g, game
    <3>4. i \in 1..n \/ i = n + 1 \/ i = n + 2
      BY <1>3, <2>2, <3>1, <3>2
    <3>. QED  BY <1>0, <2>2, <3>1, <3>2, <3>3, <3>4
  <2>. QED  BY <2>1, <2>2
<1>4. \/ outbox' = outbox
      \/ \E d \in Devices : IdIsFree(d) \/ Release(d) \/ Kill(d)
  BY DEF Next, User, Client, Sync, OpenPage, FindUser, Edit, PressStart, Cancel,
         IdIsTaken, AnswerLost, Apply, ApplyWrite, Ack, AckWrite, Break, BreakStream,
         Answer, AnswerFromServer, AnswerFromCache, Answered, vars, fsVars
<1>. QED  BY <1>1, <1>2, <1>3, <1>4

\* A write that reaches the backend changes one document, of its phone's own.
LEMMA StoreStep ==
    ASSUME TypeInv, OwnInv, [Next]_vars
    PROVE  \A x \in Paths : (\A d \in Devices : ~OwnPath(d, x)) => store'[x] = Seed[x]
<1>. USE DEF TypeInv
<1>0. \A x \in Paths : (\A d \in Devices : ~OwnPath(d, x)) => store[x] = Seed[x]
  BY DEF OwnInv
<1>1. CASE store' = store
  BY <1>0, <1>1
<1>2. ASSUME NEW d \in Devices, Apply(d), NEW x \in Paths,
             \A e \in Devices : ~OwnPath(e, x)
      PROVE  store'[x] = Seed[x]
  <2>. PICK w : w = outbox[d][applied[d] + 1]
    OBVIOUS
  <2>1. /\ applied[d] < Len(outbox[d])
        /\ store' = [store EXCEPT ![w.path] = w.data]
    BY <1>2 DEF Apply, ApplyWrite
  <2>2. applied[d] + 1 \in DOMAIN outbox[d]
    BY <2>1, LenProperties DEF TypeOK, SendTypeOK
  <2>3. OwnPath(d, w.path)
    BY <2>2 DEF OwnInv
  <2>4. x # w.path
    BY <1>2, <2>3
  <2>. QED  BY <1>0, <1>2, <2>1, <2>4 DEF TypeOK
<1>3. store' = store \/ \E d \in Devices : Apply(d)
  BY DEF Next, User, Client, Sync, OpenPage, FindUser, Edit, PressStart, Cancel,
       IdIsFree, IdIsTaken, AnswerLost, Kill, KillProcess, RestartClient, Ack,
       AckWrite, Release, ReleaseWrite, Break, BreakStream, Answer,
       AnswerFromServer, AnswerFromCache, Answered, vars, fsVars
<1>. QED  BY <1>1, <1>2, <1>3

LEMMA OwnInvStep == TypeInv /\ OwnInv /\ [Next]_vars => OwnInv'
<1>. SUFFICES ASSUME TypeInv, OwnInv, [Next]_vars PROVE OwnInv'
  OBVIOUS
<1>1. \A d \in Devices : \A i \in DOMAIN outbox'[d] : OwnPath(d, outbox[d][i].path)'
  BY OwnWritesStep DEF OwnPath
<1>2. \A x \in Paths : (\A d \in Devices : ~OwnPath(d, x)') => store'[x] = Seed[x]
  BY StoreStep DEF OwnPath
<1>. QED  BY <1>1, <1>2, UserKnownStep, AskersStep DEF OwnInv

LEMMA OwnMeansNoNull == OwnInv => NoNullUser
<1>. SUFFICES ASSUME OwnInv, NEW g \in GameIds
              PROVE  /\ store[MirrorPath(null, g)] = NoDoc
                     /\ \A d \in Devices : \A i \in DOMAIN outbox[d] :
                           outbox[d][i].path # MirrorPath(null, g)
  BY DEF NoNullUser
<1>1. \A d \in Devices : ~OwnPath(d, MirrorPath(null, g))
  BY PathsDiffer DEF OwnPath
<1>2. MirrorPath(null, g) \in Paths
  BY PathsOfAGame
<1>. QED  BY <1>1, <1>2, NullSeedAssumption DEF OwnInv

\* For any phones, pages, sessions that have ended and builds: no document is
\* queued for, or stored below, users/null, because the form that starts a
\* save is shown only after the user was found.
THEOREM NobodySaves == Spec => []NoNullUser
<1>1. Init => TypeInv /\ OwnInv
  BY TypeInvInit, OwnInvInit
<1>2. (TypeInv /\ OwnInv) /\ [Next]_vars => (TypeInv /\ OwnInv)'
  BY TypeInvStep, OwnInvStep
<1>. QED  BY <1>1, <1>2, OwnMeansNoNull, PTL DEF Spec

-----------------------------------------------------------------------------
(***************************************************************************)
(* The two documents of a save agree.                                      *)
(***************************************************************************)

\* What the backend has at x when the queue of d has been sent.
Final(d, x) == LocalDocument(store, outbox[d], x)

\* The backend has an applied write unless a later one is still to come.
Landed(d) ==
    \A x \in Paths : \A i \in DOMAIN outbox[d] :
        LastWrite(outbox[d], x, i) /\ i <= applied[d] => store[x] = outbox[d][i].data

\* Once the queue of d has been sent, copies and games of d agree.
CopiesWillAgree(d) ==
    Session[d] # null =>
        \A g \in Draws[d] :
            Final(d, MirrorPath(Session[d], g)) # NoDoc =>
                Final(d, MirrorPath(Session[d], g)) = Final(d, GamePath(g))

CopiesInv == \A d \in Devices : Landed(d) /\ CopiesWillAgree(d)

LEMMA CopiesInvInit == CopiesApart /\ Init => CopiesInv
<1>. SUFFICES ASSUME CopiesApart, Init, NEW d \in Devices
              PROVE  Landed(d) /\ CopiesWillAgree(d)
  BY DEF CopiesInv
<1>1. outbox[d] = <<>> /\ DOMAIN outbox[d] = {} /\ store = Seed
  BY DEF Init, FirestoreInit
<1>2. \A x : Final(d, x) = store[x]
  BY <1>1 DEF Final, LocalDocument
<1>3. ASSUME Session[d] # null, NEW g \in Draws[d]
      PROVE  Seed[MirrorPath(Session[d], g)] # NoDoc =>
                Seed[MirrorPath(Session[d], g)] = Seed[GamePath(g)]
  BY <1>3, SessionAssumption, DrawsAssumption DEF CopiesApart
<1>. QED  BY <1>1, <1>2, <1>3 DEF Landed, CopiesWillAgree

\* Steps that leave alone what the backend will have in the end.
KeepsFinal(d) ==
    Landed(d)' /\ \A x \in Paths : OwnPath(d, x) => Final(d, x)' = Final(d, x)

LEMMA KeepingSuffices ==
    ASSUME NEW d \in Devices, CopiesWillAgree(d), KeepsFinal(d)
    PROVE  CopiesWillAgree(d)'
<1>. SUFFICES ASSUME Session[d] # null, NEW g \in Draws[d]
              PROVE  Final(d, MirrorPath(Session[d], g))' # NoDoc =>
                       Final(d, MirrorPath(Session[d], g))' = Final(d, GamePath(g))'
  BY DEF CopiesWillAgree
<1>1. /\ g \in GameIds /\ Session[d] \in Users \union {null}
  BY DrawsAssumption, SessionAssumption
<1>2. /\ GamePath(g) \in Paths /\ MirrorPath(Session[d], g) \in Paths
      /\ OwnPath(d, GamePath(g)) /\ OwnPath(d, MirrorPath(Session[d], g))
  BY <1>1, PathsOfAGame, PathsDiffer DEF OwnPath
<1>. QED  BY <1>2 DEF CopiesWillAgree, KeepsFinal

\* Phones that draw different ids write to different paths.
LEMMA OwnPathsApart ==
    ASSUME CopiesApart, NEW d \in Devices, NEW e \in Devices, d # e, NEW x,
           OwnPath(d, x)
    PROVE  ~OwnPath(e, x)
BY DEF CopiesApart, OwnPath

LEMMA ApplyFinal ==
    ASSUME CopiesApart, TypeInv, OwnInv, NEW e \in Devices, Apply(e),
           NEW d \in Devices, Landed(d)
    PROVE  KeepsFinal(d)
<1>. USE DEF TypeInv
<1>. PICK k : k = applied[e] + 1
  OBVIOUS
<1>. PICK w : w = outbox[e][k]
  OBVIOUS
<1>1. /\ applied[e] < Len(outbox[e]) /\ outbox' = outbox
      /\ store' = [store EXCEPT ![w.path] = w.data]
      /\ applied' = [applied EXCEPT ![e] = k]
  BY DEF Apply, ApplyWrite
<1>2. k \in DOMAIN outbox[e] /\ k \in Nat /\ applied[e] \in Nat /\ outbox[d] \in Seq(Writes)
  <2>1. applied[e] \in Nat /\ outbox[e] \in Seq(Writes) /\ outbox[d] \in Seq(Writes)
    BY DEF TypeOK, SendTypeOK, Writes
  <2>2. Len(outbox[e]) \in Nat /\ DOMAIN outbox[e] = 1..Len(outbox[e])
    BY <2>1, LenProperties
  <2>. QED  BY <1>1, <2>1, <2>2
<1>3. /\ DOMAIN outbox[d] \subseteq Nat /\ w.path \in Paths /\ OwnPath(e, w.path)
  <2>1. DOMAIN outbox[d] \subseteq Nat
    BY <1>2, LenProperties
  <2>2. w.path \in Paths
    BY <1>2, WriteTypes
  <2>3. OwnPath(e, w.path)
    BY <1>2 DEF OwnInv
  <2>. QED  BY <2>1, <2>2, <2>3
<1>4. /\ store'[w.path] = w.data
      /\ \A x \in Paths : x # w.path => store'[x] = store[x]
  BY <1>1, <1>3 DEF TypeOK
<1>5. CASE e = d
  <2>1. ASSUME NEW x \in Paths, NEW i \in DOMAIN outbox[d],
               LastWrite(outbox[d], x, i), i <= k
        PROVE  store'[x] = outbox[d][i].data
    <3>1. CASE i = k
      BY <1>4, <1>5, <2>1, <3>1 DEF LastWrite
    <3>2. CASE i # k
      <4>1. i <= applied[d] /\ k > i
        BY <1>2, <1>3, <1>5, <2>1, <3>2
      <4>2. x # w.path
        BY <1>2, <1>5, <2>1, <4>1 DEF LastWrite
      <4>. QED  BY <1>4, <2>1, <4>1, <4>2 DEF Landed
    <3>. QED  BY <3>1, <3>2
  <2>2. applied'[d] = k /\ outbox'[d] = outbox[d]
    BY <1>1, <1>5 DEF TypeOK, SendTypeOK
  <2>3. Landed(d)'
    BY <2>1, <2>2 DEF Landed
  <2>4. ASSUME NEW x \in Paths
        PROVE  LocalDocument(store', outbox[d], x) = LocalDocument(store, outbox[d], x)
    <3>1. CASE NotWritten(outbox[d], x)
      <4>1. x # w.path
        BY <1>2, <1>5, <3>1 DEF NotWritten
      <4>. QED  BY <1>2, <1>4, <3>1, <4>1, LastWriteWins
    <3>2. ASSUME NEW i \in DOMAIN outbox[d], LastWrite(outbox[d], x, i)
          PROVE  LocalDocument(store', outbox[d], x) = LocalDocument(store, outbox[d], x)
      BY <1>2, <3>2, LastWriteWins
    <3>. QED  BY <1>2, <3>1, <3>2, LastWriteWins
  <2>. QED  BY <2>2, <2>3, <2>4 DEF KeepsFinal, Final
<1>6. CASE e # d
  <2>1. applied'[d] = applied[d] /\ outbox'[d] = outbox[d]
    BY <1>1, <1>6 DEF TypeOK, SendTypeOK
  <2>2. ~OwnPath(d, w.path)
    BY <1>3, <1>6, OwnPathsApart
  <2>3. Landed(d)'
    <3>1. ASSUME NEW x \in Paths, NEW i \in DOMAIN outbox[d],
                 LastWrite(outbox[d], x, i), i <= applied[d]
          PROVE  store'[x] = outbox[d][i].data
      <4>1. OwnPath(d, x)
        BY <3>1 DEF LastWrite, OwnInv
      <4>. QED  BY <1>4, <2>2, <3>1, <4>1 DEF Landed
    <3>. QED  BY <2>1, <3>1 DEF Landed
  <2>4. ASSUME NEW x \in Paths, OwnPath(d, x)
        PROVE  LocalDocument(store', outbox[d], x) = LocalDocument(store, outbox[d], x)
    BY <1>4, <2>2, <2>4 DEF LocalDocument
  <2>. QED  BY <2>1, <2>3, <2>4 DEF KeepsFinal, Final
<1>. QED  BY <1>5, <1>6

\* An acknowledgement or a broken stream.
LEMMA CountFinal ==
    ASSUME TypeInv, NEW e \in Devices, Ack(e) \/ Break(e),
           NEW d \in Devices, Landed(d)
    PROVE  KeepsFinal(d)
<1>. USE DEF TypeInv
<1>1. /\ UNCHANGED <<store, outbox>>
      /\ applied'[d] \in Nat /\ applied'[d] <= applied[d] /\ applied[d] \in Nat
  <2>1. /\ applied \in [Devices -> Nat] /\ acked \in [Devices -> Nat]
        /\ acked[e] <= applied[e]
    BY DEF TypeOK, SendTypeOK
  <2>2. CASE Ack(e)
    BY <2>1, <2>2 DEF Ack, AckWrite
  <2>3. CASE Break(e)
    BY <2>1, <2>3 DEF Break, BreakStream
  <2>. QED  BY <2>2, <2>3
<1>2. \A i \in DOMAIN outbox[d] : i \in Nat
  BY LenProperties DEF TypeOK
<1>3. \A i \in DOMAIN outbox[d] : i <= applied'[d] => i <= applied[d]
  BY <1>1, <1>2
<1>. QED  BY <1>1, <1>3 DEF KeepsFinal, Landed, Final

\* Writes that leave the queue are in the backend, or replaced by later ones.
LEMMA DropFinal ==
    ASSUME TypeInv, TypeInv', NEW e \in Devices, NEW n, Dropped(e, n),
           NEW d \in Devices, Landed(d)
    PROVE  KeepsFinal(d)
<1>. USE DEF TypeInv
<1>1. /\ n \in Nat /\ n <= applied[e] /\ applied[e] \in Nat
      /\ applied'[e] \in Nat /\ applied'[e] + n <= applied[e]
      /\ store' = store
  BY DEF Dropped, TypeOK, SendTypeOK
<1>2. CASE e # d
  BY <1>1, <1>2 DEF Dropped, KeepsFinal, Landed, Final
<1>3. CASE e = d
  <2>. PICK q : q = outbox[d]
    OBVIOUS
  <2>. PICK r : r = outbox'[d]
    OBVIOUS
  <2>1. /\ q \in Seq(Writes) /\ r \in Seq(Writes)
        /\ Len(q) \in Nat /\ DOMAIN q = 1..Len(q) /\ DOMAIN r = 1..Len(r)
        /\ Len(r) \in Nat /\ Len(r) = Len(q) - n
        /\ \A j \in DOMAIN r : r[j] = q[j + n]
    BY <1>3, LenProperties DEF TypeOK, Dropped, Writes
  <2>2. ASSUME NEW x \in Paths, NEW i \in DOMAIN r, LastWrite(r, x, i)
        PROVE  i + n \in DOMAIN q /\ LastWrite(q, x, i + n)
    <3>1. i + n \in DOMAIN q /\ q[i + n].path = x
      <4>1. i + n \in DOMAIN q
        BY <1>1, <2>1
      <4>2. q[i + n] = r[i] /\ r[i].path = x
        BY <2>1, <2>2 DEF LastWrite
      <4>. QED  BY <4>1, <4>2
    <3>2. ASSUME NEW j \in DOMAIN q, j > i + n PROVE q[j].path # x
      <4>1. j - n \in DOMAIN r /\ j - n > i /\ (j - n) + n = j
        BY <1>1, <2>1, <3>2
      <4>2. r[j - n] = q[j] /\ r[j - n].path # x
        BY <2>1, <2>2, <4>1 DEF LastWrite
      <4>. QED  BY <4>2
    <3>. QED  BY <3>1, <3>2 DEF LastWrite
  <2>3. ASSUME NEW x \in Paths, NotWritten(r, x), NEW i \in DOMAIN q, LastWrite(q, x, i)
        PROVE  i <= n
    <3>1. CASE i > n
      <4>1. i - n \in DOMAIN r /\ (i - n) + n = i
        BY <1>1, <2>1, <3>1
      <4>2. r[i - n] = q[i]
        BY <2>1, <4>1
      <4>. QED  BY <2>3, <4>1, <4>2 DEF NotWritten, LastWrite
    <3>. QED  BY <1>1, <2>1, <3>1
  <2>4. Landed(d)'
    <3>1. ASSUME NEW x \in Paths, NEW i \in DOMAIN r, LastWrite(r, x, i), i <= applied'[d]
          PROVE  store[x] = r[i].data
      <4>1. i + n <= applied[d]
        BY <1>1, <1>3, <2>1, <3>1
      <4>2. store[x] = q[i + n].data
        BY <2>2, <3>1, <4>1 DEF Landed
      <4>. QED  BY <2>1, <4>2
    <3>. QED  BY <1>1, <3>1 DEF Landed
  <2>5. ASSUME NEW x \in Paths
        PROVE  LocalDocument(store, r, x) = LocalDocument(store, q, x)
    <3>1. ASSUME NEW i \in DOMAIN r, LastWrite(r, x, i)
          PROVE  LocalDocument(store, r, x) = LocalDocument(store, q, x)
      <4>1. LocalDocument(store, r, x) = r[i].data
        BY <2>1, <3>1, LastWriteWins
      <4>2. LocalDocument(store, q, x) = q[i + n].data
        BY <2>1, <2>2, <3>1, LastWriteWins
      <4>. QED  BY <2>1, <4>1, <4>2
    <3>2. CASE NotWritten(r, x) /\ NotWritten(q, x)
      BY <2>1, <3>2, LastWriteWins
    <3>3. ASSUME NotWritten(r, x), NEW i \in DOMAIN q, LastWrite(q, x, i)
          PROVE  LocalDocument(store, r, x) = LocalDocument(store, q, x)
      <4>1. i <= applied[d]
        BY <1>1, <1>3, <2>1, <2>3, <3>3
      <4>2. store[x] = q[i].data
        BY <3>3, <4>1 DEF Landed
      <4>3. LocalDocument(store, r, x) = store[x]
        BY <2>1, <3>3, LastWriteWins
      <4>4. LocalDocument(store, q, x) = q[i].data
        BY <2>1, <3>3, LastWriteWins
      <4>. QED  BY <4>2, <4>3, <4>4
    <3>. QED  BY <2>1, <3>1, <3>2, <3>3, LastWriteWins
  <2>. QED  BY <1>1, <2>4, <2>5 DEF KeepsFinal, Final
<1>. QED  BY <1>2, <1>3

\* _saveGame queues the game and its copy together, from the same fields.
LEMMA SaveFinal ==
    ASSUME TypeInv, OwnInv, NEW e \in Devices, IdIsFree(e),
           NEW d \in Devices, Landed(d), CopiesWillAgree(d)
    PROVE  Landed(d)' /\ CopiesWillAgree(d)'
<1>. USE DEF TypeInv
<1>. PICK p \in Pages :
              /\ gameId[p] \in Draws[e] /\ gameId[p] \in GameIds
              /\ mCurrentUser[p] = Session[e] /\ Session[e] # null
              /\ outbox' = [outbox EXCEPT ![e] = SaveGame(outbox[e], p)]
              /\ UNCHANGED <<store, applied>>
  BY SavesOwn
<1>1. CASE e # d
  <2>1. outbox'[d] = outbox[d]
    BY <1>1 DEF TypeOK
  <2>. QED  BY <2>1 DEF Landed, CopiesWillAgree, Final
<1>2. CASE e = d
  <2>. PICK q : q = outbox[d]
    OBVIOUS
  <2>. PICK s : s = outbox'[d]
    OBVIOUS
  <2>. PICK g : g = gameId[p]
    OBVIOUS
  <2>. PICK game : game = [gameid |-> g, form |-> draft[p]]
    OBVIOUS
  <2>. DEFINE n == Len(q)
              x == GamePath(g)
              y == MirrorPath(Session[d], g)
  <2>1. q \in Seq(Writes) /\ s = SaveGame(q, p) /\ applied[d] \in Nat /\ applied[d] <= n
    BY <1>2 DEF TypeOK, Writes, SendTypeOK
  <2>2. /\ n \in Nat /\ DOMAIN q = 1..n /\ DOMAIN s = 1..(n + 2)
        /\ \A j \in 1..n : s[j] = q[j]
        /\ s[n + 1] = [path |-> x, data |-> game]
        /\ s[n + 2] = [path |-> MirrorPath(mCurrentUser[p], g), data |-> game]
    BY <2>1, SaveGameQueue
  <2>3. /\ s[n + 1].path = x /\ s[n + 1].data = game
        /\ s[n + 2].path = y /\ s[n + 2].data = game
    BY <1>2, <2>2
  <2>4. s \in Seq(Writes) /\ x # y
    BY <2>1, SaveGameType, PathsDiffer
  <2>. HIDE DEF n, x, y
  <2>5. Landed(d)'
    <3>1. ASSUME NEW z \in Paths, NEW i \in DOMAIN s, LastWrite(s, z, i), i <= applied[d]
          PROVE  store[z] = s[i].data
      <4>1. i \in 1..n /\ s[i] = q[i]
        BY <2>1, <2>2, <3>1
      <4>2. ASSUME NEW j \in DOMAIN q, j > i PROVE q[j].path # z
        <5>1. j \in DOMAIN s /\ s[j] = q[j]
          BY <2>2
        <5>2. s[j].path # z
          BY <3>1, <4>2, <5>1 DEF LastWrite
        <5>. QED  BY <5>1, <5>2
      <4>3. LastWrite(q, z, i)
        BY <2>2, <3>1, <4>1, <4>2 DEF LastWrite
      <4>. QED  BY <2>2, <3>1, <4>1, <4>3 DEF Landed
    <3>. QED  BY <3>1 DEF Landed
  <2>6. LastWrite(s, x, n + 1) /\ LastWrite(s, y, n + 2)
    <3>1. n + 1 \in DOMAIN s /\ n + 2 \in DOMAIN s
      BY <2>2
    <3>2. \A j \in DOMAIN s : j > n + 1 => j = n + 2
      BY <2>2
    <3>3. \A j \in DOMAIN s : ~(j > n + 2)
      BY <2>2
    <3>. QED  BY <2>3, <2>4, <3>1, <3>2, <3>3 DEF LastWrite
  <2>7. Final(d, x)' = game /\ Final(d, y)' = game
    <3>1. n + 1 \in DOMAIN s /\ n + 2 \in DOMAIN s
      BY <2>2
    <3>2. LocalDocument(store', s, x) = s[n + 1].data
      BY <2>4, <2>6, <3>1, LastWriteWins
    <3>3. LocalDocument(store', s, y) = s[n + 2].data
      BY <2>4, <2>6, <3>1, LastWriteWins
    <3>. QED  BY <2>3, <3>2, <3>3 DEF Final
  <2>8. ASSUME NEW z \in Paths, z # x, z # y PROVE Final(d, z)' = Final(d, z)
    <3>1. CASE NotWritten(q, z)
      <4>1. ASSUME NEW j \in DOMAIN s PROVE s[j].path # z
        <5>1. j \in 1..n \/ j = n + 1 \/ j = n + 2
          BY <2>2
        <5>. QED  BY <2>2, <2>3, <2>8, <3>1, <5>1 DEF NotWritten
      <4>2. NotWritten(s, z)
        BY <4>1 DEF NotWritten
      <4>3. LocalDocument(store, s, z) = store[z]
        BY <2>4, <4>2, LastWriteWins
      <4>4. LocalDocument(store, q, z) = store[z]
        BY <2>1, <3>1, LastWriteWins
      <4>. QED  BY <4>3, <4>4 DEF Final
    <3>2. ASSUME NEW i \in DOMAIN q, LastWrite(q, z, i)
          PROVE  Final(d, z)' = Final(d, z)
      <4>1. i \in DOMAIN s /\ s[i] = q[i]
        BY <2>2
      <4>2. ASSUME NEW j \in DOMAIN s, j > i PROVE s[j].path # z
        <5>1. j \in 1..n \/ j = n + 1 \/ j = n + 2
          BY <2>2
        <5>2. CASE j \in 1..n
          BY <2>2, <3>2, <4>2, <5>2 DEF LastWrite
        <5>. QED  BY <2>3, <2>8, <5>1, <5>2
      <4>3. LastWrite(s, z, i)
        BY <3>2, <4>1, <4>2 DEF LastWrite
      <4>4. LocalDocument(store, s, z) = s[i].data
        BY <2>4, <4>1, <4>3, LastWriteWins
      <4>5. LocalDocument(store, q, z) = q[i].data
        BY <2>1, <3>2, LastWriteWins
      <4>. QED  BY <4>1, <4>4, <4>5 DEF Final
    <3>. QED  BY <2>1, <3>1, <3>2, LastWriteWins
  <2>9. ASSUME Session[d] # null, NEW h \in Draws[d]
        PROVE  Final(d, MirrorPath(Session[d], h))' # NoDoc =>
                  Final(d, MirrorPath(Session[d], h))' = Final(d, GamePath(h))'
    <3>1. CASE h = g
      BY <2>7, <3>1 DEF x, y
    <3>2. CASE h # g
      <4>1. h \in GameIds /\ Session[d] \in Users \union {null}
        BY DrawsAssumption, SessionAssumption
      <4>2. GamePath(h) \in Paths /\ MirrorPath(Session[d], h) \in Paths
        BY <4>1, PathsOfAGame
      <4>3. /\ GamePath(h) # x /\ GamePath(h) # y
            /\ MirrorPath(Session[d], h) # x /\ MirrorPath(Session[d], h) # y
        BY <3>2, PathsDiffer DEF x, y
      <4>. QED  BY <2>8, <2>9, <4>2, <4>3 DEF CopiesWillAgree
    <3>. QED  BY <3>1, <3>2
  <2>. QED  BY <2>5, <2>9 DEF CopiesWillAgree
<1>. QED  BY <1>1, <1>2

LEMMA CopiesInvStep ==
    ASSUME CopiesApart, TypeInv, OwnInv, CopiesInv, [Next]_vars
    PROVE  CopiesInv'
<1>. SUFFICES ASSUME NEW d \in Devices PROVE Landed(d)' /\ CopiesWillAgree(d)'
  BY DEF CopiesInv
<1>0. Landed(d) /\ CopiesWillAgree(d)
  BY DEF CopiesInv
<1>1. ASSUME KeepsFinal(d) PROVE Landed(d)' /\ CopiesWillAgree(d)'
  BY <1>0, <1>1, KeepingSuffices DEF KeepsFinal
<1>2. CASE UNCHANGED <<store, outbox, applied>>
  BY <1>0, <1>2 DEF Landed, CopiesWillAgree, Final
<1>3. ASSUME NEW e \in Devices, Release(e) \/ Kill(e)
      PROVE  Landed(d)' /\ CopiesWillAgree(d)'
  <2>1. TypeInv'
    BY TypeInvStep
  <2>2. ReleaseWrite(e) \/ RestartClient(e)
    BY <1>3 DEF Release, Kill, KillProcess
  <2>3. TypeOK /\ SendTypeOK
    BY DEF TypeInv, TypeOK
  <2>4. \E n \in 0..acked[e] : Dropped(e, n)
    BY <2>2, <2>3, WritePaths, DropSteps
  <2>5. KeepsFinal(d)
    BY <1>0, <2>1, <2>4, DropFinal
  <2>. QED  BY <1>1, <2>5
<1>4. ASSUME NEW e \in Devices, Apply(e) PROVE Landed(d)' /\ CopiesWillAgree(d)'
  BY <1>0, <1>1, <1>4, ApplyFinal
<1>5. ASSUME NEW e \in Devices, Ack(e) \/ Break(e)
      PROVE  Landed(d)' /\ CopiesWillAgree(d)'
  BY <1>0, <1>1, <1>5, CountFinal
<1>6. ASSUME NEW e \in Devices, IdIsFree(e) PROVE Landed(d)' /\ CopiesWillAgree(d)'
  BY <1>0, <1>6, SaveFinal
<1>7. \/ UNCHANGED <<store, outbox, applied>>
      \/ \E e \in Devices : IdIsFree(e) \/ Sync(e) \/ Kill(e)
  BY DEF Next, User, Client, OpenPage, FindUser, Edit, PressStart, Cancel,
         IdIsTaken, AnswerLost, Answer, AnswerFromServer, AnswerFromCache,
         Answered, vars, fsVars, sendVars
<1>. QED  BY <1>2, <1>3, <1>4, <1>5, <1>6, <1>7 DEF Sync

LEMMA CopiesInvSuffices ==
    ASSUME CopiesApart, TypeInv, OwnInv, CopiesInv
    PROVE  CopiesAgree
<1>. SUFFICES ASSUME NEW u \in Users, NEW g \in GameIds,
                     Settled(GamePath(g)), Settled(MirrorPath(u, g)),
                     store[MirrorPath(u, g)] # NoDoc
              PROVE  store[MirrorPath(u, g)] = store[GamePath(g)]
  BY DEF CopiesAgree
<1>. DEFINE x == GamePath(g)
            y == MirrorPath(u, g)
<1>0. x \in Paths /\ y \in Paths /\ x.id = g /\ y.id = g
  BY PathsOfAGame, PathsDiffer
<1>1. CASE \E d \in Devices : OwnPath(d, y)
  <2>. PICK d \in Devices : OwnPath(d, y)
    BY <1>1
  <2>1. g \in Draws[d] /\ Session[d] # null /\ u = Session[d]
    BY <1>0, PathsDiffer DEF OwnPath
  <2>2. outbox[d] \in Seq(Writes)
    BY DEF TypeInv, TypeOK, Writes
  <2>3. NotWritten(outbox[d], x) /\ NotWritten(outbox[d], y)
    BY DEF Settled, NotWritten
  <2>4. Final(d, x) = store[x] /\ Final(d, y) = store[y]
    BY <2>2, <2>3, LastWriteWins DEF Final
  <2>. QED  BY <2>1, <2>4 DEF CopiesInv, CopiesWillAgree
<1>2. CASE \A d \in Devices : ~OwnPath(d, y)
  <2>1. store[y] = Seed[y]
    BY <1>0, <1>2 DEF OwnInv
  <2>2. Seed[y] = Seed[x] /\ \A d \in Devices : g \in Draws[d] => u = Session[d]
    BY <2>1 DEF CopiesApart
  <2>3. ASSUME NEW d \in Devices PROVE g \notin Draws[d]
    <3>1. CASE g \in Draws[d]
      <4>1. u = Session[d] /\ Session[d] # null
        BY <2>2, <3>1, NullAssumption
      <4>2. OwnPath(d, y)
        BY <1>0, <3>1, <4>1 DEF OwnPath
      <4>. QED  BY <1>2, <4>2
    <3>. QED  BY <3>1
  <2>4. \A d \in Devices : ~OwnPath(d, x)
    BY <1>0, <2>3 DEF OwnPath
  <2>5. store[x] = Seed[x]
    BY <1>0, <2>4 DEF OwnInv
  <2>. QED  BY <2>1, <2>2, <2>5
<1>. QED  BY <1>1, <1>2

\* For any phones, pages and accounts whose phones draw different ids: once
\* its writes are through, the copy on a user's list is the game of the
\* group, also when the form was edited and Start pressed again during a
\* check, when writes were sent twice and when the app was killed in between.
THEOREM CopiesEndEqual == CopiesApart => (Spec => []CopiesAgree)
<1>. SUFFICES ASSUME CopiesApart PROVE Spec => []CopiesAgree
  OBVIOUS
<1>. DEFINE Inv == TypeInv /\ OwnInv /\ CopiesInv
<1>1. Init => Inv
  BY TypeInvInit, OwnInvInit, CopiesInvInit
<1>2. Inv /\ [Next]_vars => Inv'
  BY TypeInvStep, OwnInvStep, CopiesInvStep
<1>3. Inv => CopiesAgree
  BY CopiesInvSuffices
<1>. QED  BY <1>1, <1>2, <1>3, PTL DEF Spec

-----------------------------------------------------------------------------
(***************************************************************************)
(* NewGame implements GameBoard, provided that phones draw different ids,  *)
(* nobody presses Start during a check and no phone that may be offline is *)
(* killed.                                                                 *)
(***************************************************************************)

Careful == DrawsApart /\ ~Overlap /\ Flaky \intersect MayDie = {}

\* A device whose check is through has no other.
LEMMA OneReply ==
    ASSUME TypeOK, NEW d \in Devices, ChecksOK(d), replies[d] # <<>>
    PROVE  /\ calls[d] = <<>> /\ Tail(replies[d]) = <<>>
           /\ 1 \in DOMAIN replies[d] /\ Head(replies[d]) = replies[d][1]
           /\ Head(replies[d]) \in Replies
<1>1. replies[d] \in Seq(Replies) /\ calls[d] \in Seq(Queries)
  BY DEF TypeOK, Replies
<1>2. Len(replies[d]) \in Nat \ {0} /\ Len(calls[d]) \in Nat
  BY <1>1, LenProperties, EmptySeq
<1>3. Len(calls[d]) + Len(replies[d]) <= 1
  BY DEF ChecksOK
<1>4. \A m, n \in Nat : m + n <= 1 /\ n # 0 => m = 0 /\ n = 1
  OBVIOUS
<1>5. Len(calls[d]) = 0 /\ Len(replies[d]) = 1
  BY <1>2, <1>3, <1>4
<1>6. calls[d] = <<>>
  BY <1>1, <1>5, EmptySeq
<1>7. /\ Tail(replies[d]) \in Seq(Replies) /\ Len(Tail(replies[d])) = 0
  BY <1>1, <1>5, HeadTailProperties
<1>8. Tail(replies[d]) = <<>>
  BY <1>7, EmptySeq
<1>. QED  BY <1>1, <1>6, <1>8, TailElements

-----------------------------------------------------------------------------
(***************************************************************************)
(* The answer to a check.                                                  *)
(***************************************************************************)

\* An answer without a document says that the id is free where it was asked.
LEMMA EmptyAnswer ==
    ASSUME NEW base \in [Paths -> Docs], NEW queue \in Seq(Writes),
           NEW q \in Queries, NEW g \in GameIds, q.value = g,
           \/ \E i \in DOMAIN queue : queue[i].path = GamePath(g)
           \/ base[GamePath(g)] # NoDoc => base[GamePath(g)].gameid = g,
           \A i \in DOMAIN queue :
              queue[i].path = GamePath(g) => queue[i].data.gameid = g,
           Snapshot(LocalView(base, queue), q).docs = {}
    PROVE  /\ base[GamePath(g)] = NoDoc
           /\ \A i \in DOMAIN queue : queue[i].path # GamePath(g)
<1>. DEFINE x == GamePath(g)
            view == LocalView(base, queue)
<1>1. x \in Paths /\ x.coll = GamesColl
  BY PathsOfAGame DEF GamePath
<1>2. q.coll = GamesColl /\ q.field = "gameid"
  BY DEF Queries
<1>3. \A y \in Paths : y \notin Matching(view, q)
  BY DEF Snapshot
<1>4. view[x] = LocalDocument(base, queue, x)
  BY <1>1 DEF LocalView
<1>. HIDE DEF view, x
<1>5. ~(view[x] # NoDoc /\ view[x]["gameid"] = g)
  BY <1>1, <1>2, <1>3 DEF Matching
<1>6. ASSUME NEW i \in DOMAIN queue PROVE queue[i].data \in GameDocs
  <2>1. queue[i] \in Writes
    BY Elements
  <2>. QED  BY <2>1 DEF Writes
<1>7. CASE /\ \A i \in DOMAIN queue : queue[i].path # x
           /\ LocalDocument(base, queue, x) = base[x]
  BY <1>4, <1>5, <1>7 DEF x
<1>8. CASE \E i \in DOMAIN queue : /\ queue[i].path = x
                                   /\ LocalDocument(base, queue, x) = queue[i].data
  <2>1. PICK i \in DOMAIN queue : /\ queue[i].path = x
                                  /\ LocalDocument(base, queue, x) = queue[i].data
    BY <1>8
  <2>2. view[x] \in GameDocs /\ view[x].gameid = g
    BY <1>4, <1>6, <2>1 DEF x
  <2>. QED  BY <1>5, <2>2, DocsAssumption
<1>. QED  BY <1>7, <1>8, LocalDocumentCases

-----------------------------------------------------------------------------
(***************************************************************************)
(* The invariant, action by action.                                        *)
(***************************************************************************)

WritesOK(d) == \A i \in DOMAIN outbox[d] : WriteOK(d, i)

LEMMA PublishInvInit == Careful /\ Init => PublishInv
<1>. SUFFICES ASSUME Careful, Init PROVE PublishInv
  OBVIOUS
<1>1. ShelfNeedsGame
  BY SeedAssumption DEF Init, FirestoreInit, ShelfNeedsGame
<1>2. ASSUME NEW d \in Devices
      PROVE ChecksOK(d) /\ WritesOK(d) /\ CacheOK(d)
  <2>1. /\ calls[d] = <<>> /\ replies[d] = <<>> /\ outbox[d] = <<>>
        /\ learnt[d] = {}
    BY DEF Init, FirestoreInit
  <2>2. ChecksOK(d) /\ WritesOK(d)
    BY <2>1 DEF ChecksOK, WritesOK
  <2>3. CacheOK(d)
    <3>. SUFFICES ASSUME d \in Flaky, NEW g \in Draws[d]
                  PROVE  cache[d][GamePath(g)] = store[GamePath(g)]
      BY <2>1 DEF CacheOK
    <3>1. GamePath(g) \in Paths
      BY DrawsAssumption, PathsAssumption DEF GamePaths
    <3>. QED  BY <3>1 DEF Init, FirestoreInit, Careful, DrawsApart
  <2>. QED  BY <2>2, <2>3
<1>. QED  BY <1>1, <1>2 DEF PublishInv, WritesOK

\* With the documents, the caches and the queues unchanged only the checks
\* can be disturbed.
LEMMA ChecksSuffice ==
    ASSUME PublishInv, UNCHANGED <<store, cache, outbox, sendVars>>,
           \A d \in Devices : ChecksOK(d)'
    PROVE  PublishInv'
BY DEF PublishInv, ShelfNeedsGame, WellKept, WriteOK, CacheOK, sendVars

\* The checks of the other phones are not disturbed by what d does with its
\* own pages: their pages and their queues are not those of d.
LEMMA OtherChecks ==
    ASSUME PublishInv, NEW d \in Devices, NEW e \in Devices, e # d,
           calls'[e] = calls[e], replies'[e] = replies[e],
           \A p \in Pages : Host[p] # d => gameId'[p] = gameId[p],
           TypeOK, store' = store, outbox'[e] = outbox[e]
    PROVE  ChecksOK(e)'
<1>1. ChecksOK(e)
  BY DEF PublishInv
<1>2. \A r \in Queries : HoldsItsId(e, r) => HoldsItsId(e, r)'
  BY DEF HoldsItsId, Queries
<1>3. \A h : IsFree(e, h) => IsFree(e, h)'
  BY DEF IsFree
<1>4. /\ \A i \in DOMAIN calls[e] : calls[e][i] \in Queries
      /\ \A i \in DOMAIN replies[e] : replies[e][i].call \in Queries
  <2>1. calls[e] \in Seq(Queries) /\ replies[e] \in Seq(Replies)
    BY DEF TypeOK, Replies
  <2>2. \A i \in DOMAIN replies[e] : replies[e][i] \in Replies
    BY <2>1, Elements
  <2>. QED  BY <2>1, <2>2, Elements DEF Replies
<1>. QED  BY <1>1, <1>2, <1>3, <1>4 DEF ChecksOK

\* Page p draws g and asks about it, and that is the only check of its phone.
LEMMA OneNewCheck ==
    ASSUME TypeOK, PublishInv, NEW p \in Pages, NEW g \in Draws[Host[p]],
           calls' = [calls EXCEPT ![Host[p]] = <<GameIdQuery(p, g)>>],
           replies' = [replies EXCEPT ![Host[p]] = <<>>],
           gameId' = [gameId EXCEPT ![p] = g],
           UNCHANGED <<store, cache, outbox, sendVars>>
    PROVE  PublishInv'
<1>. DEFINE d == Host[p]
            q == GameIdQuery(p, g)
<1>1. d \in Devices /\ q.page = p /\ q.value = g
  BY HostAssumption DEF GameIdQuery, Where
<1>2. calls'[d] = <<q>> /\ replies'[d] = <<>> /\ gameId'[p] = g
  BY <1>1 DEF TypeOK
<1>3. HoldsItsId(d, q)'
  BY <1>1, <1>2 DEF HoldsItsId
<1>4. \A e \in Devices : e # d => ChecksOK(e)'
  BY <1>1, OtherChecks DEF TypeOK
<1>. HIDE DEF d, q
<1>5. /\ Len(<<q>>) = 1 /\ DOMAIN <<q>> = {1} /\ <<q>>[1] = q
      /\ Len(replies'[d]) = 0 /\ DOMAIN (replies'[d]) = {}
  BY <1>2
<1>6. Len(calls'[d]) + Len(replies'[d]) <= 1
  <2>1. Len(calls'[d]) = 1 /\ Len(replies'[d]) = 0
    BY <1>2, <1>5
  <2>. QED  BY ONLY <2>1
<1>7. ChecksOK(d)'
  BY <1>2, <1>3, <1>5, <1>6 DEF ChecksOK
<1>. QED  BY <1>4, <1>7, ChecksSuffice

\* No check of phone d is left in flight.
LEMMA NoMoreChecks ==
    ASSUME TypeOK, PublishInv, NEW d \in Devices,
           calls' = [calls EXCEPT ![d] = <<>>],
           replies' = [replies EXCEPT ![d] = <<>>],
           UNCHANGED <<store, cache, outbox, sendVars, gameId>>
    PROVE  PublishInv'
<1>1. calls'[d] = <<>> /\ replies'[d] = <<>>
  BY DEF TypeOK
<1>2. ChecksOK(d)'
  <2>1. /\ Len(calls'[d]) = 0 /\ Len(replies'[d]) = 0
        /\ DOMAIN (calls'[d]) = {} /\ DOMAIN (replies'[d]) = {}
    BY <1>1
  <2>2. Len(calls'[d]) + Len(replies'[d]) <= 1
    BY ONLY <2>1
  <2>. QED  BY <2>1, <2>2 DEF ChecksOK
<1>3. \A e \in Devices : e # d => ChecksOK(e)'
  BY OtherChecks DEF TypeOK
<1>. QED  BY <1>2, <1>3, ChecksSuffice

\* Start is pressed only when no check of the phone is in flight.
LEMMA PressStartKeeps ==
    ASSUME Careful, TypeInv, PublishInv,
           NEW p \in Pages, NEW g \in GameIds, PressStart(p, g)
    PROVE  PublishInv'
<1>1. /\ calls[Host[p]] = <<>> /\ replies[Host[p]] = <<>> /\ g \in Draws[Host[p]]
      /\ calls' = [calls EXCEPT ![Host[p]] =
                      Append(calls[Host[p]], GameIdQuery(p, g))]
      /\ gameId' = [gameId EXCEPT ![p] = g]
      /\ UNCHANGED <<store, cache, outbox, sendVars, replies>>
  BY DEF PressStart, Careful, Idle
<1>2. calls' = [calls EXCEPT ![Host[p]] = <<GameIdQuery(p, g)>>]
  BY <1>1
<1>3. replies' = [replies EXCEPT ![Host[p]] = <<>>]
  BY <1>1, HostAssumption DEF TypeInv, TypeOK
<1>. QED  BY <1>1, <1>2, <1>3, OneNewCheck DEF TypeInv

\* The page that gets an answer is a page of the phone it was asked on and
\* holds the id of the check.
LEMMA AnsweredPage ==
    ASSUME TypeOK, PublishInv, NEW d \in Devices, replies[d] # <<>>
    PROVE  LET r == Head(replies[d])
               p == r.call.page
           IN  /\ p \in Pages /\ Host[p] = d
               /\ gameId[p] = r.call.value /\ gameId[p] \in Draws[d]
               /\ r.docs = {} => IsFree(d, gameId[p])
<1>1. ChecksOK(d)
  BY DEF PublishInv
<1>2. 1 \in DOMAIN replies[d] /\ Head(replies[d]) = replies[d][1]
      /\ Head(replies[d]) \in Replies
  BY <1>1, OneReply
<1>3. /\ HoldsItsId(d, Head(replies[d]).call)
      /\ Head(replies[d]).docs = {} => IsFree(d, Head(replies[d]).call.value)
  BY <1>1, <1>2 DEF ChecksOK
<1>. QED  BY <1>2, <1>3 DEF HoldsItsId, Replies, Queries

LEMMA IdIsTakenKeeps ==
    ASSUME TypeInv, PublishInv,
           NEW d \in Devices, NEW g \in GameIds, IdIsTaken(d, g)
    PROVE  PublishInv'
<1>. DEFINE p == Head(replies[d]).call.page
            q == GameIdQuery(p, g)
<1>1. /\ replies[d] # <<>> /\ g \in Draws[d]
      /\ gameId' = [gameId EXCEPT ![p] = g]
      /\ replies' = [replies EXCEPT ![d] = Tail(replies[d])]
      /\ calls' = [calls EXCEPT ![d] = calls[d] \o <<q>>]
      /\ UNCHANGED <<store, cache, outbox, sendVars>>
  BY DEF IdIsTaken, Deliver
<1>2. p \in Pages /\ Host[p] = d
  BY <1>1, AnsweredPage DEF TypeInv
<1>3. calls[d] = <<>> /\ Tail(replies[d]) = <<>>
  BY <1>1, OneReply DEF TypeInv, PublishInv
<1>. HIDE DEF p
<1>4. calls' = [calls EXCEPT ![Host[p]] = <<q>>]
  <2>1. <<>> \o <<q>> = <<q>>
    OBVIOUS
  <2>. QED  BY <1>1, <1>2, <1>3, <2>1
<1>5. replies' = [replies EXCEPT ![Host[p]] = <<>>]
  BY <1>1, <1>2, <1>3
<1>. QED  BY <1>1, <1>2, <1>4, <1>5, OneNewCheck DEF TypeInv

LEMMA AnswerLostKeeps ==
    ASSUME TypeInv, PublishInv, NEW d \in Devices, AnswerLost(d)
    PROVE  PublishInv'
<1>1. /\ replies[d] # <<>>
      /\ replies' = [replies EXCEPT ![d] = Tail(replies[d])]
      /\ calls' = [calls EXCEPT ![d] = calls[d] \o <<>>]
      /\ UNCHANGED <<store, cache, outbox, sendVars, gameId>>
  BY DEF AnswerLost, Deliver, formVars
<1>2. calls[d] = <<>> /\ Tail(replies[d]) = <<>>
  BY <1>1, OneReply DEF TypeInv, PublishInv
<1>3. /\ calls' = [calls EXCEPT ![d] = <<>>]
      /\ replies' = [replies EXCEPT ![d] = <<>>]
  <2>1. calls[d] \o <<>> = <<>>
    BY <1>2, ConcatEmptySeq DEF TypeInv, TypeOK
  <2>. QED  BY <1>1, <1>2, <2>1
<1>. QED  BY <1>1, <1>3, NoMoreChecks DEF TypeInv

\* A free id has no copies either, in the backend or on their way.
LEMMA FreeHasNoCopies ==
    ASSUME TypeOK, PublishInv, NEW d \in Devices, NEW g \in GameIds,
           IsFree(d, g), NEW u \in Users \union {null}
    PROVE  /\ store[MirrorPath(u, g)] = NoDoc
           /\ \A i \in DOMAIN outbox[d] : outbox[d][i].path # MirrorPath(u, g)
<1>1. store[MirrorPath(u, g)] = NoDoc
  BY DEF PublishInv, ShelfNeedsGame, WellKept, IsFree
<1>2. ASSUME NEW i \in DOMAIN outbox[d], outbox[d][i].path = MirrorPath(u, g)
      PROVE  FALSE
  <2>1. /\ WriteOK(d, i) /\ outbox[d][i].data # NoDoc
        /\ outbox[d][i].path.id = g /\ outbox[d][i].path # GamePath(g)
    BY <1>2, WriteTypes, PathsDiffer DEF PublishInv
  <2>2. \/ store[GamePath(g)] = outbox[d][i].data
        \/ \E j \in 1..(i - 1) : outbox[d][j].path = GamePath(g)
    BY <2>1 DEF WriteOK
  <2>3. 1..(i - 1) \subseteq DOMAIN outbox[d]
    <3>1. outbox[d] \in Seq(Writes)
      BY DEF TypeOK, Writes
    <3>2. Len(outbox[d]) \in Nat /\ DOMAIN outbox[d] = 1..Len(outbox[d])
      BY <3>1, LenProperties
    <3>. QED  BY <3>2
  <2>. QED  BY <2>1, <2>2, <2>3 DEF IsFree
<1>. QED  BY <1>1, <1>2

\* The answer was empty and is still true: the two new writes are for paths
\* with no document and no other write.
LEMMA IdIsFreeKeeps ==
    ASSUME TypeInv, PublishInv, NEW d \in Devices, IdIsFree(d)
    PROVE  PublishInv'
<1>. USE DEF TypeInv
<1>. DEFINE p == Head(replies[d]).call.page
            g == gameId[p]
            u == mCurrentUser[p]
            game == [gameid |-> g, form |-> draft[p]]
            n == Len(outbox[d])
            s == SaveGame(outbox[d], p)
<1>1. /\ replies[d] # <<>> /\ Head(replies[d]).docs = {}
      /\ outbox' = [outbox EXCEPT ![d] = s]
      /\ replies' = [replies EXCEPT ![d] = Tail(replies[d])]
      /\ calls' = [calls EXCEPT ![d] = calls[d] \o <<>>]
      /\ UNCHANGED <<store, cache, sendVars, gameId>>
  BY DEF IdIsFree, Deliver
<1>2. p \in Pages /\ g \in Draws[d] /\ IsFree(d, g)
  BY <1>1, AnsweredPage
<1>3. g \in GameIds /\ u \in Users \union {null} /\ outbox[d] \in Seq(Writes)
  BY <1>2, DrawsAssumption DEF TypeOK, PageTypeOK, Writes
<1>4. calls[d] = <<>> /\ Tail(replies[d]) = <<>>
  BY <1>1, OneReply DEF PublishInv
<1>5. /\ n \in Nat /\ DOMAIN outbox[d] = 1..n /\ DOMAIN s = 1..(n + 2)
      /\ \A i \in 1..n : s[i] = outbox[d][i]
      /\ s[n + 1] = [path |-> GamePath(g), data |-> game]
      /\ s[n + 2] = [path |-> MirrorPath(u, g), data |-> game]
  BY <1>2, <1>3, SaveGameQueue
<1>6. /\ store[MirrorPath(u, g)] = NoDoc /\ store[GamePath(g)] = NoDoc
      /\ \A i \in 1..n : /\ outbox[d][i].path # MirrorPath(u, g)
                         /\ outbox[d][i].path # GamePath(g)
  <2>1. /\ store[MirrorPath(u, g)] = NoDoc
        /\ \A i \in DOMAIN outbox[d] : outbox[d][i].path # MirrorPath(u, g)
    <3>. HIDE DEF u, g
    <3>. QED  BY <1>2, <1>3, FreeHasNoCopies
  <2>2. /\ store[GamePath(g)] = NoDoc
        /\ \A i \in DOMAIN outbox[d] : outbox[d][i].path # GamePath(g)
    BY <1>2 DEF IsFree
  <2>. QED  BY <1>5, <2>1, <2>2
<1>7. game.gameid = g /\ applied[d] \in Nat /\ applied[d] <= n
  BY DEF TypeOK, SendTypeOK
<1>. HIDE DEF p, g, u, game, n, s
<1>8. /\ outbox'[d] = s /\ \A e \in Devices : e # d => outbox'[e] = outbox[e]
      /\ applied' = applied /\ learnt' = learnt
  BY <1>1 DEF TypeOK, sendVars
<1>9. ASSUME NEW e \in Devices PROVE ChecksOK(e)'
  <2>1. CASE e = d
    <3>1. calls[d] \o <<>> = <<>>
      BY <1>4, ConcatEmptySeq DEF TypeOK
    <3>2. calls'[d] = <<>> /\ replies'[d] = <<>>
      BY <1>1, <1>4, <3>1 DEF TypeOK
    <3>3. /\ Len(calls'[d]) = 0 /\ Len(replies'[d]) = 0
          /\ DOMAIN (calls'[d]) = {} /\ DOMAIN (replies'[d]) = {}
      BY <3>2
    <3>4. Len(calls'[d]) + Len(replies'[d]) <= 1
      BY ONLY <3>3
    <3>. QED  BY <2>1, <3>3, <3>4 DEF ChecksOK
  <2>2. CASE e # d
    BY <1>1, <1>8, <2>2, OtherChecks DEF TypeOK
  <2>. QED  BY <2>1, <2>2
<1>10. ASSUME NEW e \in Devices, NEW i \in DOMAIN outbox'[e] PROVE WriteOK(e, i)'
  <2>1. CASE e # d
    BY <1>1, <1>8, <2>1 DEF PublishInv, WriteOK
  <2>2. CASE e = d
    <3>0. i \in 1..(n + 2)
      BY <1>5, <1>8, <2>2
    <3>1. CASE i \in 1..n
      <4>1. WriteOK(d, i) /\ s[i] = outbox[d][i]
        BY <1>5, <3>1 DEF PublishInv
      <4>2. \A j \in 1..(n + 2) : s[j].path = s[i].path => j = i
        <5>. SUFFICES ASSUME NEW j \in 1..(n + 2), s[j].path = s[i].path
                      PROVE  j = i
          OBVIOUS
        <5>1. s[i].path # GamePath(g) /\ s[i].path # MirrorPath(u, g)
          BY <1>6, <3>1, <4>1
        <5>2. /\ s[n + 1].path = GamePath(g) /\ s[n + 2].path = MirrorPath(u, g)
          BY <1>5
        <5>3. j # n + 1 /\ j # n + 2
          BY <5>1, <5>2
        <5>4. j \in 1..n
          BY <1>5, <5>3
        <5>. QED  BY <1>5, <4>1, <5>4 DEF WriteOK
      <4>3. \A j \in 1..(i - 1) : s[j] = outbox[d][j]
        BY <1>5, <3>1
      <4>. DEFINE v == outbox[d][i]
                  gp == GamePath(v.path.id)
      <4>4. /\ v.path.id \in Draws[d] /\ v.data.gameid = v.path.id
            /\ store[v.path] \in {NoDoc, v.data}
            /\ i <= applied[d] => store[v.path] = v.data
            /\ \/ v.path = gp
               \/ store[gp] = v.data
               \/ \E j \in 1..(i - 1) : outbox[d][j] = [path |-> gp, data |-> v.data]
        BY <4>1 DEF WriteOK
      <4>5. outbox'[e][i] = v /\ DOMAIN (outbox'[e]) = 1..(n + 2)
        BY <1>5, <1>8, <2>2, <4>1
      <4>. HIDE DEF v, gp
      <4>6. \/ v.path = gp
            \/ store[gp] = v.data
            \/ \E j \in 1..(i - 1) : outbox'[e][j] = [path |-> gp, data |-> v.data]
        BY <1>8, <2>2, <4>3, <4>4
      <4>7. \A j \in DOMAIN outbox'[e] : outbox'[e][j].path = v.path => j = i
        BY <1>8, <2>2, <4>2, <4>5
      <4>. QED  BY <1>1, <1>8, <2>2, <4>4, <4>5, <4>6, <4>7 DEF WriteOK, gp
    <3>2. CASE i = n + 1
      <4>1. /\ s[i].path = GamePath(g) /\ s[i].data.gameid = g
            /\ GamePath(g).id = g
        BY <1>5, <1>7, <3>2, PathsDiffer
      <4>2. /\ \A j \in 1..(n + 2) : s[j].path = GamePath(g) => j = i
            /\ ~(i <= applied[d])
        BY <1>5, <1>6, <1>7, <3>2, PathsDiffer
      <4>. QED  BY <1>1, <1>2, <1>5, <1>6, <1>8, <2>2, <4>1, <4>2 DEF WriteOK
    <3>3. CASE i = n + 2
      <4>1. /\ s[i].path = MirrorPath(u, g) /\ s[i].data = game
            /\ s[i].data.gameid = g /\ MirrorPath(u, g).id = g
        BY <1>5, <1>7, <3>3, PathsDiffer
      <4>2. /\ \A j \in 1..(n + 2) : s[j].path = MirrorPath(u, g) => j = i
            /\ ~(i <= applied[d])
        BY <1>5, <1>6, <1>7, <3>3, PathsDiffer
      <4>3. n + 1 \in 1..(i - 1)
        BY <1>5, <3>3
      <4>. QED  BY <1>1, <1>2, <1>5, <1>6, <1>8, <2>2, <4>1, <4>2, <4>3
                   DEF WriteOK
    <3>. QED  BY <1>5, <3>0, <3>1, <3>2, <3>3
  <2>. QED  BY <2>1, <2>2
<1>11. ShelfNeedsGame'
  BY <1>1 DEF PublishInv, ShelfNeedsGame, WellKept
<1>12. ASSUME NEW e \in Devices PROVE CacheOK(e)'
  <2>1. \A i \in DOMAIN outbox[e] :
           i \in DOMAIN outbox'[e] /\ outbox'[e][i] = outbox[e][i]
    BY <1>5, <1>8
  <2>. QED  BY <1>1, <1>8, <2>1 DEF PublishInv, CacheOK
<1>. QED  BY <1>9, <1>10, <1>11, <1>12 DEF PublishInv

\* What a pending write of one phone means to the others: nothing.
LEMMA ForeignWrite ==
    ASSUME Careful, PublishInv, NEW d \in Devices, NEW i \in DOMAIN outbox[d],
           NEW e \in Devices, e # d, NEW g \in Draws[e]
    PROVE  \A x : x.id = g => outbox[d][i].path # x
<1>1. outbox[d][i].path.id \in Draws[d]
  BY DEF PublishInv, WriteOK
<1>. QED  BY <1>1 DEF Careful, DrawsApart

\* The next write of d reaches the backend, perhaps again.  No other write is
\* for its path, and every copy finds its game.
LEMMA NextWrite ==
    ASSUME TypeOK, PublishInv, NEW d \in Devices, applied[d] < Len(outbox[d])
    PROVE  LET k == applied[d] + 1
               w == outbox[d][k]
           IN  /\ applied[d] \in Nat /\ k \in DOMAIN outbox[d]
               /\ w.path \in Paths /\ w.data \in GameDocs /\ w.data # NoDoc
               /\ w.path.id \in Draws[d] /\ w.data.gameid = w.path.id
               /\ store[w.path] \in {NoDoc, w.data}
               /\ \A j \in DOMAIN outbox[d] : outbox[d][j].path = w.path => j = k
               /\ w.path = GamePath(w.path.id) \/ store[GamePath(w.path.id)] = w.data
<1>. DEFINE k == applied[d] + 1
            w == outbox[d][k]
<1>1. /\ applied[d] \in Nat /\ k \in DOMAIN outbox[d]
      /\ DOMAIN outbox[d] = 1..Len(outbox[d]) /\ Len(outbox[d]) \in Nat
  BY LenProperties DEF TypeOK, SendTypeOK
<1>2. w.path \in Paths /\ w.data \in GameDocs /\ w.data # NoDoc
  BY <1>1, WriteTypes
<1>3. ASSUME NEW j \in 1..(k - 1)
      PROVE  store[outbox[d][j].path] = outbox[d][j].data
  <2>1. j \in DOMAIN outbox[d] /\ j <= applied[d]
    BY <1>1
  <2>. QED  BY <2>1 DEF PublishInv, WriteOK
<1>4. WriteOK(d, k)
  BY <1>1 DEF PublishInv
<1>. HIDE DEF k
<1>5. w.path = GamePath(w.path.id) \/ store[GamePath(w.path.id)] = w.data
  <2>1. ASSUME NEW j \in 1..(k - 1),
               outbox[d][j] = [path |-> GamePath(w.path.id), data |-> w.data]
        PROVE  store[GamePath(w.path.id)] = w.data
    BY <1>3, <2>1
  <2>. QED  BY <1>4, <2>1 DEF WriteOK
<1>6. /\ w.path.id \in Draws[d] /\ w.data.gameid = w.path.id
      /\ store[w.path] \in {NoDoc, w.data}
      /\ \A j \in DOMAIN outbox[d] : outbox[d][j].path = w.path => j = k
  BY <1>4 DEF WriteOK
<1>. QED  BY <1>1, <1>2, <1>5, <1>6 DEF k

LEMMA ApplyKeeps ==
    ASSUME Careful, TypeInv, PublishInv, NEW d \in Devices, Apply(d)
    PROVE  PublishInv'
<1>. USE DEF TypeInv
<1>. DEFINE k == applied[d] + 1
            w == outbox[d][k]
<1>1. /\ applied[d] < Len(outbox[d])
      /\ store' = [store EXCEPT ![w.path] = w.data]
      /\ applied' = [applied EXCEPT ![d] = k]
      /\ learnt' = [learnt EXCEPT ![d] = learnt[d] \ {w.path}]
      /\ UNCHANGED <<outbox, cache, calls, replies, gameId>>
  BY DEF Apply, ApplyWrite, formVars
<1>2. /\ applied[d] \in Nat /\ k \in DOMAIN outbox[d]
      /\ w.path \in Paths /\ w.data \in GameDocs /\ w.data # NoDoc
      /\ w.path.id \in Draws[d] /\ w.data.gameid = w.path.id
      /\ store[w.path] \in {NoDoc, w.data}
      /\ \A j \in DOMAIN outbox[d] : outbox[d][j].path = w.path => j = k
      /\ w.path = GamePath(w.path.id) \/ store[GamePath(w.path.id)] = w.data
  BY <1>1, NextWrite
<1>3. /\ applied'[d] = k /\ \A e \in Devices : e # d => applied'[e] = applied[e]
      /\ \A e \in Devices : applied[e] \in Nat
  BY <1>1 DEF TypeOK, SendTypeOK
<1>. HIDE DEF w
<1>6. /\ store'[w.path] = w.data
      /\ \A x \in Paths : x # w.path => store'[x] = store[x]
      /\ \A x \in Paths : store[x] # NoDoc => store'[x] = store[x]
  BY <1>1, <1>2 DEF TypeOK
<1>7. ASSUME NEW e \in Devices, e # d, NEW x \in Paths, x.id \in Draws[e]
      PROVE  store'[x] = store[x]
  <2>1. x # w.path
    BY <1>2, <1>7, ForeignWrite DEF w
  <2>. QED  BY <1>6, <2>1
<1>8. ShelfNeedsGame'
  <2>1. ASSUME NEW x \in Paths, store'[x] # NoDoc PROVE store'[x].gameid = x.id
    <3>1. CASE x = w.path
      BY <1>2, <1>6, <3>1
    <3>2. CASE x # w.path
      BY <1>6, <2>1, <3>2 DEF PublishInv, ShelfNeedsGame, WellKept
    <3>. QED  BY <3>1, <3>2
  <2>2. ASSUME NEW u \in Users \union {null}, NEW g \in GameIds,
               store'[MirrorPath(u, g)] # NoDoc
        PROVE  store'[GamePath(g)] # NoDoc
    <3>0. GamePath(g) \in Paths /\ MirrorPath(u, g) \in Paths
      BY PathsOfAGame
    <3>1. CASE MirrorPath(u, g) = w.path
      <4>1. w.path.id = g /\ w.path # GamePath(g)
        BY <3>1, PathsDiffer
      <4>2. store[GamePath(g)] = w.data
        BY <1>2, <4>1
      <4>. QED  BY <1>2, <1>6, <3>0, <4>2
    <3>2. CASE MirrorPath(u, g) # w.path
      <4>1. store[MirrorPath(u, g)] # NoDoc
        BY <1>6, <2>2, <3>0, <3>2
      <4>2. store[GamePath(g)] # NoDoc
        BY <4>1 DEF PublishInv, ShelfNeedsGame, WellKept
      <4>. QED  BY <1>6, <3>0, <4>2
    <3>. QED  BY <3>1, <3>2
  <2>. QED  BY <2>1, <2>2 DEF ShelfNeedsGame, WellKept
<1>9. ASSUME NEW e \in Devices PROVE ChecksOK(e)'
  <2>1. ChecksOK(e)
    BY DEF PublishInv
  <2>2. ASSUME NEW g \in Draws[e], IsFree(e, g) PROVE IsFree(e, g)'
    <3>0. GamePath(g) \in Paths /\ GamePath(g).id = g
      BY DrawsAssumption, PathsOfAGame, PathsDiffer
    <3>1. CASE e = d
      BY <1>1, <1>2, <1>6, <2>2, <3>0, <3>1 DEF IsFree, w
    <3>2. CASE e # d
      BY <1>1, <1>7, <2>2, <3>0, <3>2 DEF IsFree
    <3>. QED  BY <3>1, <3>2
  <2>. QED  BY <1>1, <2>1, <2>2 DEF ChecksOK, HoldsItsId
<1>10. ASSUME NEW e \in Devices, NEW i \in DOMAIN outbox[e] PROVE WriteOK(e, i)'
  <2>. DEFINE v == outbox[e][i]
              game == GamePath(v.path.id)
  <2>1. /\ WriteOK(e, i) /\ v.path \in Paths /\ v.data # NoDoc /\ game \in Paths
        /\ game.id = v.path.id /\ v.path.id \in Draws[e]
    BY WriteTypes, PathCases, PathsOfAGame, PathsDiffer DEF PublishInv, WriteOK
  <2>2. CASE e # d
    <3>1. store'[v.path] = store[v.path] /\ store'[game] = store[game]
      BY <1>7, <2>1, <2>2
    <3>. QED  BY <1>1, <1>3, <2>1, <2>2, <3>1 DEF WriteOK
  <2>3. CASE e = d
    <3>1. CASE i = k
      <4>1. store'[v.path] = v.data /\ v = w
        BY <1>6, <2>3, <3>1 DEF w
      <4>2. v.path = game \/ store'[game] = v.data
        BY <1>2, <1>6, <2>1, <4>1
      <4>. QED  BY <1>1, <2>1, <2>3, <4>1, <4>2 DEF WriteOK
    <3>2. CASE i # k
      <4>1. v.path # w.path
        BY <1>2, <2>3, <3>2
      <4>2. store'[v.path] = store[v.path]
        BY <1>6, <2>1, <4>1
      <4>3. store[game] = v.data => store'[game] = v.data
        BY <1>6, <2>1
      <4>4. i \in Nat
        BY LenProperties DEF TypeOK
      <4>5. i <= applied'[d] => i <= applied[d]
        BY <1>2, <1>3, <3>2, <4>4
      <4>. QED  BY <1>1, <2>1, <2>3, <4>2, <4>3, <4>5 DEF WriteOK
    <3>. QED  BY <3>1, <3>2
  <2>. QED  BY <2>2, <2>3
<1>11. ASSUME NEW e \in Devices PROVE CacheOK(e)'
  <2>1. CacheOK(e) /\ learnt[e] \subseteq Paths
    BY DEF PublishInv, TypeOK, SendTypeOK
  <2>2. ASSUME NEW x \in learnt'[e]
        PROVE  x.id \in Draws[e] /\ cache'[e][x] = store'[x]
    <3>1. CASE e = d
      <4>1. x \in learnt[d] /\ x # w.path /\ x \in Paths
        BY <1>1, <2>1, <3>1 DEF TypeOK, SendTypeOK
      <4>. QED  BY <1>1, <1>6, <2>1, <3>1, <4>1 DEF CacheOK
    <3>2. CASE e # d
      <4>1. x \in learnt[e] /\ x \in Paths
        BY <1>1, <2>1, <3>2 DEF TypeOK, SendTypeOK
      <4>. QED  BY <1>1, <1>7, <2>1, <3>2, <4>1 DEF CacheOK
    <3>. QED  BY <3>1, <3>2
  <2>3. ASSUME e \in Flaky, NEW g \in Draws[e]
        PROVE  \/ cache'[e][GamePath(g)] = store'[GamePath(g)]
               \/ \E i \in DOMAIN outbox'[e] : outbox'[e][i].path = GamePath(g)
    <3>0. GamePath(g) \in Paths /\ GamePath(g).id = g
      BY DrawsAssumption, PathsOfAGame, PathsDiffer
    <3>1. CASE e = d /\ w.path = GamePath(g)
      BY <1>1, <1>2, <3>1 DEF w
    <3>2. CASE ~(e = d /\ w.path = GamePath(g))
      <4>1. store'[GamePath(g)] = store[GamePath(g)]
        BY <1>6, <1>7, <3>0, <3>2
      <4>. QED  BY <1>1, <2>1, <2>3, <4>1 DEF CacheOK
    <3>. QED  BY <3>1, <3>2
  <2>. QED  BY <2>2, <2>3 DEF CacheOK
<1>. QED  BY <1>1, <1>8, <1>9, <1>10, <1>11 DEF PublishInv

\* Applied writes leave the queue of d.  What is left is as it was, and
\* copies find the games that left in the backend.
LEMMA DropWrites ==
    ASSUME TypeInv, TypeInv', PublishInv, NEW d \in Devices, NEW n, Dropped(d, n)
    PROVE  /\ ShelfNeedsGame'
           /\ \A e \in Devices : \A i \in DOMAIN outbox'[e] : WriteOK(e, i)'
<1>. USE DEF TypeInv
<1>1. /\ n \in Nat /\ n <= applied[d] /\ applied[d] \in Nat
      /\ applied'[d] \in Nat /\ applied'[d] + n <= applied[d]
      /\ store' = store
  BY DEF Dropped, TypeOK, SendTypeOK
<1>2. ASSUME NEW e \in Devices, NEW i \in DOMAIN outbox'[e]
      PROVE  WriteOK(e, i)'
  <2>1. CASE e # d
    <3>1. outbox'[e] = outbox[e] /\ applied'[e] = applied[e]
      BY <2>1 DEF Dropped
    <3>. QED  BY <1>1, <1>2, <3>1 DEF PublishInv, WriteOK
  <2>2. CASE e = d
    <3>. DEFINE k == i + n
                v == outbox[d][k]
                game == GamePath(v.path.id)
    <3>1. k \in DOMAIN outbox[d] /\ outbox'[d][i] = v
      BY <2>2 DEF Dropped
    <3>2. /\ DOMAIN outbox[d] = 1..Len(outbox[d]) /\ Len(outbox[d]) \in Nat
          /\ DOMAIN outbox'[d] = 1..Len(outbox'[d]) /\ Len(outbox'[d]) \in Nat
          /\ i \in 1..Len(outbox'[d])
      BY <2>2, LenProperties DEF TypeOK
    <3>3. WriteOK(d, k)
      BY <3>1 DEF PublishInv
    <3>4. i <= applied'[d] => k <= applied[d]
      BY <1>1, <3>2
    <3>5. ASSUME NEW j \in 1..(k - 1),
                 outbox[d][j] = [path |-> game, data |-> v.data]
          PROVE  \/ store[game] = v.data
                 \/ \E l \in 1..(i - 1) :
                       outbox'[d][l] = [path |-> game, data |-> v.data]
      <4>1. CASE j <= n
        <5>1. j \in DOMAIN outbox[d] /\ j <= applied[d]
          BY <1>1, <3>1, <3>2, <4>1
        <5>2. store[outbox[d][j].path] = outbox[d][j].data
          BY <5>1 DEF PublishInv, WriteOK
        <5>. QED  BY <3>5, <5>2
      <4>2. CASE ~(j <= n)
        <5>1. j - n \in 1..(i - 1) /\ j - n \in DOMAIN outbox'[d] /\ j - n + n = j
          BY <1>1, <3>2, <4>2
        <5>2. outbox'[d][j - n] = outbox[d][j]
          BY <5>1 DEF Dropped
        <5>. QED  BY <3>5, <5>1, <5>2
      <4>. QED  BY <4>1, <4>2
    <3>6. ASSUME NEW j \in DOMAIN outbox'[d], outbox'[d][j].path = v.path
          PROVE  j = i
      <4>1. j + n \in DOMAIN outbox[d] /\ outbox[d][j + n].path = v.path
        BY <3>6 DEF Dropped
      <4>2. j + n = k
        BY <3>3, <4>1 DEF WriteOK
      <4>. QED  BY <1>1, <3>2, <4>2
    <3>. HIDE DEF k
    <3>7. /\ v.path.id \in Draws[d] /\ v.data.gameid = v.path.id
          /\ store[v.path] \in {NoDoc, v.data}
          /\ k <= applied[d] => store[v.path] = v.data
          /\ \/ v.path = game
             \/ store[game] = v.data
             \/ \E j \in 1..(k - 1) : outbox[d][j] = [path |-> game, data |-> v.data]
      BY <3>3 DEF WriteOK
    <3>. HIDE DEF v, game
    <3>8. \/ v.path = game
          \/ store[game] = v.data
          \/ \E j \in 1..(i - 1) : outbox'[d][j] = [path |-> game, data |-> v.data]
      BY <3>5, <3>7
    <3>. QED  BY <1>1, <2>2, <3>1, <3>4, <3>6, <3>7, <3>8 DEF WriteOK, game
  <2>. QED  BY <2>1, <2>2
<1>. QED  BY <1>1, <1>2 DEF PublishInv, ShelfNeedsGame, WellKept

\* A queue that only lost writes makes no free id taken.
LEMMA DropChecks ==
    ASSUME PublishInv, NEW d \in Devices, NEW n, Dropped(d, n), NEW e \in Devices,
           calls'[e] = calls[e], replies'[e] = replies[e], gameId' = gameId
    PROVE  ChecksOK(e)'
<1>1. ChecksOK(e)
  BY DEF PublishInv
<1>2. \A q : HoldsItsId(e, q) => HoldsItsId(e, q)'
  BY DEF HoldsItsId
<1>3. \A g : IsFree(e, g) => IsFree(e, g)'
  BY DEF IsFree, Dropped
<1>. QED  BY <1>1, <1>2, <1>3 DEF ChecksOK

\* A released write is in the cache, or the cache has what the backend has.
LEMMA ReleaseKeeps ==
    ASSUME Careful, TypeInv, TypeInv', PublishInv, NEW d \in Devices, Release(d)
    PROVE  PublishInv'
<1>. USE DEF TypeInv
<1>. DEFINE w == Head(outbox[d])
            later == Written(Tail(outbox[d]), applied[d] - 1)
<1>1. /\ acked[d] > 0
      /\ outbox' = [outbox EXCEPT ![d] = Tail(outbox[d])]
      /\ \/ /\ w.path \notin learnt[d]
            /\ cache' = [cache EXCEPT ![d] = [cache[d] EXCEPT ![w.path] = w.data]]
         \/ w.path \in learnt[d] \union later /\ cache' = cache
      /\ learnt' = [learnt EXCEPT ![d] = learnt[d] \intersect later]
      /\ UNCHANGED <<store, calls, replies, gameId>>
  BY DEF Release, ReleaseWrite, formVars
<1>2. /\ outbox[d] \in Seq(Writes) /\ outbox[d] # <<>> /\ 1 <= applied[d]
      /\ applied[d] \in Nat /\ applied[d] <= Len(outbox[d]) /\ Len(outbox[d]) \in Nat
  <2>1. /\ outbox[d] \in Seq(Writes) /\ applied[d] \in Nat /\ acked[d] \in Nat
        /\ acked[d] <= applied[d] /\ applied[d] <= Len(outbox[d])
        /\ Len(outbox[d]) \in Nat
    BY LenProperties DEF TypeOK, SendTypeOK, Writes
  <2>2. 1 <= applied[d] /\ Len(outbox[d]) # 0
    BY <1>1, <2>1
  <2>. QED  BY <2>1, <2>2, EmptySeq
<1>3. /\ 1 \in DOMAIN outbox[d] /\ w = outbox[d][1]
      /\ \A j \in DOMAIN Tail(outbox[d]) :
            j + 1 \in DOMAIN outbox[d] /\ Tail(outbox[d])[j] = outbox[d][j + 1]
      /\ Len(Tail(outbox[d])) = Len(outbox[d]) - 1
      /\ DOMAIN Tail(outbox[d]) = 1..(Len(outbox[d]) - 1)
  <2>1. /\ Tail(outbox[d]) \in Seq(Writes)
        /\ Len(Tail(outbox[d])) = Len(outbox[d]) - 1
    BY <1>2, HeadTailProperties
  <2>. QED  BY <1>2, <2>1, TailElements, LenProperties
<1>4. /\ WriteOK(d, 1) /\ w.path \in Paths
      /\ \A j \in DOMAIN outbox[d] : outbox[d][j].path = w.path => j = 1
      /\ store[w.path] = w.data
  <2>1. WriteOK(d, 1) /\ w.path \in Paths
    BY <1>3, WriteTypes DEF PublishInv
  <2>. QED  BY <1>2, <1>3, <2>1 DEF WriteOK
<1>5. w.path \notin later
  <2>. SUFFICES ASSUME w.path \in later PROVE FALSE
    OBVIOUS
  <2>1. PICK i \in 1..(applied[d] - 1) : Tail(outbox[d])[i].path = w.path
    BY DEF Written
  <2>2. i \in DOMAIN Tail(outbox[d]) /\ i + 1 # 1
    BY <1>2, <1>3
  <2>. QED  BY <1>3, <1>4, <2>1, <2>2
<1>6. PICK n : Dropped(d, n)
  <2>1. TypeOK /\ SendTypeOK /\ ReleaseWrite(d)
    BY DEF TypeOK, Release
  <2>2. \E n \in 0..acked[d] : Dropped(d, n)
    BY <2>1, WritePaths, DropSteps
  <2>. QED  BY <2>2
<1>. HIDE DEF w, later
<1>7. /\ \A x \in Paths : x # w.path => cache'[d][x] = cache[d][x]
      /\ \/ cache'[d][w.path] = store[w.path]
         \/ w.path \in learnt[d] /\ cache' = cache
      /\ w.path \in learnt[d] => cache' = cache
      /\ \A e \in Devices : e # d => cache'[e] = cache[e] /\ learnt'[e] = learnt[e]
      /\ learnt'[d] \subseteq learnt[d]
  BY <1>1, <1>4, <1>5 DEF TypeOK, SendTypeOK
<1>8. ASSUME NEW e \in Devices PROVE CacheOK(e)'
  <2>1. CacheOK(e) /\ learnt[e] \subseteq Paths
    BY DEF PublishInv, TypeOK, SendTypeOK
  <2>2. CASE e # d
    BY <1>1, <1>6, <1>7, <2>1, <2>2 DEF CacheOK, Dropped
  <2>3. CASE e = d
    <3>1. ASSUME NEW x \in learnt'[d]
          PROVE  x.id \in Draws[d] /\ cache'[d][x] = store'[x]
      BY <1>1, <1>7, <2>1, <2>3 DEF CacheOK
    <3>2. ASSUME d \in Flaky, NEW g \in Draws[d]
          PROVE  \/ cache'[d][GamePath(g)] = store'[GamePath(g)]
                 \/ \E i \in DOMAIN outbox'[d] : outbox'[d][i].path = GamePath(g)
      <4>0. GamePath(g) \in Paths
        BY DrawsAssumption, PathsOfAGame
      <4>1. CASE GamePath(g) = w.path
        BY <1>1, <1>7, <2>1, <2>3, <4>1 DEF CacheOK
      <4>2. CASE GamePath(g) # w.path
        <5>1. cache'[d][GamePath(g)] = cache[d][GamePath(g)]
          BY <1>7, <4>0, <4>2
        <5>2. ASSUME NEW i \in DOMAIN outbox[d], outbox[d][i].path = GamePath(g)
              PROVE  \E j \in DOMAIN outbox'[d] : outbox'[d][j].path = GamePath(g)
          <6>1. i # 1
            BY <1>3, <4>2, <5>2
          <6>2. /\ i \in 1..Len(outbox[d])
                /\ outbox'[d] = Tail(outbox[d])
            BY <1>1, <1>2, LenProperties DEF TypeOK
          <6>3. i - 1 \in 1..(Len(outbox[d]) - 1) /\ i - 1 + 1 = i
            BY <1>2, <6>1, <6>2
          <6>. QED  BY <1>3, <5>2, <6>2, <6>3
        <5>. QED  BY <1>1, <2>1, <2>3, <3>2, <5>1, <5>2 DEF CacheOK
      <4>. QED  BY <4>1, <4>2
    <3>. QED  BY <2>3, <3>1, <3>2 DEF CacheOK
  <2>. QED  BY <2>2, <2>3
<1>. QED  BY <1>1, <1>6, <1>8, DropWrites, DropChecks DEF PublishInv

\* A restart forgets what is in flight; only a phone that is always connected
\* may be restarted, and nothing is asked of its cache.
LEMMA KillKeeps ==
    ASSUME Careful, TypeInv, TypeInv', PublishInv, NEW d \in Devices, Kill(d)
    PROVE  PublishInv'
<1>. USE DEF TypeInv
<1>1. /\ d \in MayDie /\ RestartClient(d) /\ gameId' = gameId
      /\ calls' = [calls EXCEPT ![d] = <<>>]
      /\ replies' = [replies EXCEPT ![d] = <<>>]
      /\ learnt' = [learnt EXCEPT ![d] = {}]
      /\ UNCHANGED <<store, cache>>
  BY DEF Kill, KillProcess, RestartClient, formVars
<1>2. PICK n : Dropped(d, n)
  <2>1. TypeOK /\ SendTypeOK
    BY DEF TypeOK
  <2>2. \E n \in 0..acked[d] : Dropped(d, n)
    BY <1>1, <2>1, WritePaths, DropSteps
  <2>. QED  BY <2>2
<1>3. ASSUME NEW e \in Devices PROVE ChecksOK(e)'
  <2>1. CASE e = d
    <3>1. calls'[d] = <<>> /\ replies'[d] = <<>>
      BY <1>1 DEF TypeOK
    <3>2. /\ Len(calls'[d]) = 0 /\ Len(replies'[d]) = 0
          /\ DOMAIN (calls'[d]) = {} /\ DOMAIN (replies'[d]) = {}
      BY <3>1
    <3>3. Len(calls'[d]) + Len(replies'[d]) <= 1
      BY ONLY <3>2
    <3>. QED  BY <2>1, <3>2, <3>3 DEF ChecksOK
  <2>2. CASE e # d
    <3>1. calls'[e] = calls[e] /\ replies'[e] = replies[e]
      BY <1>1, <2>2 DEF TypeOK
    <3>. QED  BY <1>1, <1>2, <3>1, DropChecks
  <2>. QED  BY <2>1, <2>2
<1>4. ASSUME NEW e \in Devices PROVE CacheOK(e)'
  <2>1. CASE e = d
    <3>1. learnt'[d] = {} /\ d \notin Flaky
      BY <1>1 DEF Careful, TypeOK, SendTypeOK
    <3>. QED  BY <2>1, <3>1 DEF CacheOK
  <2>2. CASE e # d
    <3>1. learnt'[e] = learnt[e] /\ outbox'[e] = outbox[e]
      BY <1>1, <1>2, <2>2 DEF TypeOK, SendTypeOK, Dropped
    <3>. QED  BY <1>1, <3>1 DEF PublishInv, CacheOK
  <2>. QED  BY <2>1, <2>2
<1>. QED  BY <1>2, <1>3, <1>4, DropWrites DEF PublishInv

\* An acknowledgement or a broken stream.
LEMMA CountKeeps ==
    ASSUME TypeInv, PublishInv, NEW d \in Devices, Ack(d) \/ Break(d)
    PROVE  PublishInv'
<1>. USE DEF TypeInv
<1>1. /\ UNCHANGED <<store, cache, outbox, learnt, calls, replies, gameId>>
      /\ \A e \in Devices : applied'[e] \in Nat /\ applied'[e] <= applied[e]
                             /\ applied[e] \in Nat
  <2>1. /\ applied \in [Devices -> Nat] /\ acked \in [Devices -> Nat]
        /\ acked[d] <= applied[d]
    BY DEF TypeOK, SendTypeOK
  <2>2. CASE Ack(d)
    BY <2>1, <2>2 DEF Ack, AckWrite, formVars
  <2>3. CASE Break(d)
    BY <2>1, <2>3 DEF Break, BreakStream, formVars
  <2>. QED  BY <2>2, <2>3
<1>2. ASSUME NEW e \in Devices, NEW i \in DOMAIN outbox[e]
      PROVE  WriteOK(e, i)'
  <2>1. i \in Nat
    BY LenProperties DEF TypeOK
  <2>2. i <= applied'[e] => i <= applied[e]
    BY <1>1, <2>1
  <2>. QED  BY <1>1, <2>2 DEF PublishInv, WriteOK
<1>3. ASSUME NEW e \in Devices PROVE ChecksOK(e)' /\ CacheOK(e)'
  <2>1. ChecksOK(e) /\ CacheOK(e)
    BY DEF PublishInv
  <2>2. \A q : HoldsItsId(e, q) => HoldsItsId(e, q)'
    BY <1>1 DEF HoldsItsId
  <2>3. \A g : IsFree(e, g) => IsFree(e, g)'
    BY <1>1 DEF IsFree
  <2>4. ChecksOK(e)'
    BY <1>1, <2>1, <2>2, <2>3 DEF ChecksOK
  <2>. QED  BY <1>1, <2>1, <2>4 DEF CacheOK
<1>. QED  BY <1>1, <1>2, <1>3 DEF PublishInv, ShelfNeedsGame, WellKept

\* An answer without a game is true when it is computed, from the backend or
\* offline: the phone remembers the games under its own ids.
LEMMA AnswerKeeps ==
    ASSUME TypeInv, PublishInv, NEW d \in Devices,
           NEW i \in DOMAIN calls[d], Answer(d, i)
    PROVE  PublishInv'
<1>. USE DEF TypeInv
<1>. PICK q : q = calls[d][i]
  OBVIOUS
<1>. DEFINE g == q.value
            x == GamePath(g)
<1>1. /\ store \in [Paths -> Docs] /\ cache[d] \in [Paths -> Docs]
      /\ outbox[d] \in Seq(Writes) /\ calls[d] \in Seq(Queries)
      /\ replies[d] \in Seq(Replies) /\ q \in Queries
  BY Elements DEF TypeOK, Docs, Writes, Replies
<1>2. /\ HoldsItsId(d, q) /\ g \in Draws[d] /\ g \in GameIds
      /\ x \in Paths /\ x.id = g
  <2>1. HoldsItsId(d, q)
    BY DEF PublishInv, ChecksOK
  <2>2. g \in Draws[d] /\ g \in GameIds
    BY <1>1, <2>1 DEF HoldsItsId, Queries
  <2>. QED  BY <2>1, <2>2, PathsOfAGame, PathsDiffer
<1>3. RemoveAt(calls[d], i) = <<>> /\ replies[d] = <<>>
  <2>1. /\ Len(calls[d]) \in Nat \ {0} /\ Len(replies[d]) \in Nat
        /\ RemoveAt(calls[d], i) \in Seq(Queries)
        /\ Len(RemoveAt(calls[d], i)) = Len(calls[d]) - 1
    <3>1. /\ Len(calls[d]) \in Nat /\ Len(replies[d]) \in Nat
          /\ DOMAIN calls[d] = 1..Len(calls[d])
      BY <1>1, LenProperties
    <3>2. Len(calls[d]) # 0
      BY <3>1
    <3>3. /\ RemoveAt(calls[d], i) \in Seq(Queries)
          /\ Len(RemoveAt(calls[d], i)) = Len(calls[d]) - 1
      BY <1>1, RemoveAtProperties
    <3>. QED  BY <3>1, <3>2, <3>3
  <2>2. Len(calls[d]) + Len(replies[d]) <= 1
    BY DEF PublishInv, ChecksOK
  <2>3. \A m, n \in Nat : m + n <= 1 /\ m # 0 => m - 1 = 0 /\ n = 0
    OBVIOUS
  <2>4. Len(RemoveAt(calls[d], i)) = 0 /\ Len(replies[d]) = 0
    BY <2>1, <2>2, <2>3
  <2>. QED  BY <1>1, <2>1, <2>4, EmptySeq
<1>4. PICK base \in [Paths -> Docs] :
         /\ Answered(d, i, Snapshot(LocalView(base, outbox[d]), q))
         /\ \/ base[x] = store[x]
            \/ \E j \in DOMAIN outbox[d] : outbox[d][j].path = x
  <2>1. CASE AnswerFromServer(d, i)
    BY <1>1, <2>1 DEF AnswerFromServer
  <2>2. CASE AnswerFromCache(d, i)
    <3>1. \/ cache[d][x] = store[x]
          \/ \E j \in DOMAIN outbox[d] : outbox[d][j].path = x
      BY <1>2, <2>2 DEF AnswerFromCache, PublishInv, CacheOK
    <3>. QED  BY <1>1, <2>2, <3>1 DEF AnswerFromCache
  <2>. QED  BY <2>1, <2>2 DEF Answer
<1>. PICK r : r = Snapshot(LocalView(base, outbox[d]), q)
  OBVIOUS
<1>5. r.docs = {} => IsFree(d, g)
  <2>1. \/ \E j \in DOMAIN outbox[d] : outbox[d][j].path = x
        \/ base[x] # NoDoc => base[x].gameid = g
    BY <1>2, <1>4 DEF PublishInv, ShelfNeedsGame, WellKept
  <2>2. \A j \in DOMAIN outbox[d] :
           outbox[d][j].path = x => outbox[d][j].data.gameid = g
    <3>1. ASSUME NEW j \in DOMAIN outbox[d]
          PROVE  outbox[d][j].data.gameid = outbox[d][j].path.id
      <4>1. WriteOK(d, j)
        BY DEF PublishInv
      <4>. QED  BY <4>1 DEF WriteOK
    <3>. QED  BY <1>2, <3>1
  <2>3. g \in GameIds /\ q \in Queries /\ q.value = g
    BY <1>1, <1>2
  <2>. HIDE DEF g
  <2>. PICK queue : queue = outbox[d]
    OBVIOUS
  <2>4. queue \in Seq(Writes) /\ r = Snapshot(LocalView(base, queue), q)
    BY <1>1
  <2>5. /\ \/ \E j \in DOMAIN queue : queue[j].path = GamePath(g)
           \/ base[GamePath(g)] # NoDoc => base[GamePath(g)].gameid = g
        /\ \A j \in DOMAIN queue :
              queue[j].path = GamePath(g) => queue[j].data.gameid = g
    BY <2>1, <2>2
  <2>6. ASSUME r.docs = {}
        PROVE  /\ base[GamePath(g)] = NoDoc
               /\ \A j \in DOMAIN queue : queue[j].path # GamePath(g)
    BY <2>3, <2>4, <2>5, <2>6, EmptyAnswer
  <2>. QED  BY <1>4, <2>6 DEF IsFree
<1>6. r.call = q
  BY DEF Snapshot
<1>7. /\ calls' = [calls EXCEPT ![d] = RemoveAt(calls[d], i)]
      /\ replies' = [replies EXCEPT ![d] = Append(replies[d], r)]
      /\ UNCHANGED <<store, outbox, applied, gameId>>
  BY <1>4 DEF Answered, Answer, formVars
<1>. HIDE DEF g, x
<1>8. calls'[d] = <<>> /\ replies'[d] = <<r>>
  BY <1>3, <1>7 DEF TypeOK
<1>9. ASSUME NEW e \in Devices PROVE ChecksOK(e)'
  <2>1. CASE e = d
    <3>1. /\ Len(<<r>>) = 1 /\ DOMAIN <<r>> = {1} /\ <<r>>[1] = r
          /\ Len(calls'[d]) = 0 /\ DOMAIN (calls'[d]) = {}
      BY <1>8
    <3>2. Len(calls'[d]) + Len(replies'[d]) <= 1
      <4>1. Len(calls'[d]) = 0 /\ Len(replies'[d]) = 1
        BY <1>8, <3>1
      <4>. QED  BY ONLY <4>1
    <3>3. HoldsItsId(d, r.call)' /\ (r.docs = {} => IsFree(d, r.call.value)')
      BY <1>2, <1>5, <1>6, <1>7 DEF HoldsItsId, IsFree, g
    <3>. QED  BY <1>8, <2>1, <3>1, <3>2, <3>3 DEF ChecksOK
  <2>2. CASE e # d
    BY <1>7, <2>2, OtherChecks DEF TypeOK
  <2>. QED  BY <2>1, <2>2
<1>10. ShelfNeedsGame' /\ \A e \in Devices : WritesOK(e)'
  <2>1. ShelfNeedsGame'
    BY <1>7 DEF PublishInv, ShelfNeedsGame, WellKept
  <2>2. ASSUME NEW e \in Devices PROVE WritesOK(e)'
    <3>1. WritesOK(e)
      BY DEF PublishInv, WritesOK
    <3>. QED  BY <1>7, <3>1 DEF WritesOK, WriteOK
  <2>. QED  BY <2>1, <2>2
<1>11. ASSUME NEW e \in Devices PROVE CacheOK(e)'
  <2>1. CacheOK(e) /\ learnt[e] \subseteq Paths
    BY DEF PublishInv, TypeOK, SendTypeOK
  <2>2. CASE AnswerFromServer(d, i) /\ e = d
    <3>. DEFINE sent == Matching(store, calls[d][i])
                own == Written(outbox[d], applied[d])
    <3>1. /\ cache' = [cache EXCEPT ![d] =
                [y \in Paths |-> IF y \in sent THEN store[y] ELSE cache[d][y]]]
          /\ learnt' = [learnt EXCEPT ![d] = learnt[d] \union (sent \intersect own)]
      BY <2>2 DEF AnswerFromServer
    <3>2. ASSUME NEW y \in own PROVE y.id \in Draws[d]
      <4>1. PICK j \in 1..applied[d] : y = outbox[d][j].path
        BY DEF Written
      <4>2. j \in DOMAIN outbox[d]
        BY LenProperties DEF TypeOK, SendTypeOK
      <4>. QED  BY <4>1, <4>2 DEF PublishInv, WriteOK
    <3>3. sent \subseteq Paths
      BY DEF Matching
    <3>. HIDE DEF sent, own
    <3>4. /\ cache'[d] = [y \in Paths |-> IF y \in sent THEN store[y] ELSE cache[d][y]]
          /\ learnt'[d] = learnt[d] \union (sent \intersect own)
      BY <3>1 DEF TypeOK, SendTypeOK
    <3>5. ASSUME NEW y \in Paths, cache[d][y] = store[y] \/ y \in sent
          PROVE  cache'[d][y] = store[y]
      BY <3>4, <3>5
    <3>6. ASSUME NEW y \in learnt'[d]
          PROVE  y.id \in Draws[d] /\ cache'[d][y] = store'[y]
      <4>1. y \in Paths /\ (y \in learnt[d] \/ (y \in sent /\ y \in own))
        BY <2>1, <2>2, <3>3, <3>4
      <4>2. y.id \in Draws[d]
        BY <2>1, <2>2, <3>2, <4>1 DEF CacheOK
      <4>3. cache'[d][y] = store[y]
        BY <2>1, <2>2, <3>5, <4>1 DEF CacheOK
      <4>. QED  BY <1>7, <4>2, <4>3
    <3>7. ASSUME d \in Flaky, NEW h \in Draws[d]
          PROVE  \/ cache'[d][GamePath(h)] = store'[GamePath(h)]
                 \/ \E j \in DOMAIN outbox'[d] : outbox'[d][j].path = GamePath(h)
      <4>1. GamePath(h) \in Paths
        BY DrawsAssumption, PathsOfAGame
      <4>. QED  BY <1>7, <2>1, <2>2, <3>5, <3>7, <4>1 DEF CacheOK
    <3>. QED  BY <2>2, <3>6, <3>7 DEF CacheOK
  <2>3. CASE AnswerFromCache(d, i) \/ e # d
    <3>1. cache'[e] = cache[e] /\ learnt'[e] = learnt[e]
      BY <2>3 DEF Answer, AnswerFromServer, AnswerFromCache, TypeOK, SendTypeOK
    <3>. QED  BY <1>7, <2>1, <3>1 DEF CacheOK
  <2>. QED  BY <2>2, <2>3 DEF Answer
<1>. QED  BY <1>9, <1>10, <1>11 DEF PublishInv, WritesOK

LEMMA PublishInvStep ==
    ASSUME Careful, TypeInv, PublishInv, [Next]_vars
    PROVE  PublishInv'
<1>1. ASSUME UNCHANGED <<fsVars, gameId>> PROVE PublishInv'
  <2>1. ASSUME NEW d \in Devices PROVE ChecksOK(d)'
    <3>1. ChecksOK(d) /\ calls' = calls /\ replies' = replies
      BY <1>1 DEF fsVars, PublishInv
    <3>2. \A q : HoldsItsId(d, q) => HoldsItsId(d, q)'
      BY <1>1 DEF HoldsItsId
    <3>3. \A g : IsFree(d, g) => IsFree(d, g)'
      BY <1>1 DEF fsVars, IsFree
    <3>. QED  BY <3>1, <3>2, <3>3 DEF ChecksOK
  <2>. QED  BY <1>1, <2>1, ChecksSuffice DEF fsVars
<1>2. ASSUME NEW p \in Pages, OpenPage(p) \/ FindUser(p) \/ Cancel(p)
                              \/ \E f \in Drafts : Edit(p, f)
      PROVE  PublishInv'
  BY <1>1, <1>2 DEF OpenPage, FindUser, Cancel, Edit, formVars
<1>3. CASE UNCHANGED vars
  BY <1>1, <1>3 DEF vars, formVars
<1>4. TypeInv'
  BY TypeInvStep
<1>. QED
  BY <1>2, <1>3, <1>4, PressStartKeeps, IdIsTakenKeeps, IdIsFreeKeeps,
     AnswerLostKeeps, KillKeeps, ApplyKeeps, CountKeeps, ReleaseKeeps, AnswerKeeps
     DEF Next, User, Client, Sync

\* For any number of phones, pages, users and ids: as long as phones draw
\* different ids, nobody presses Start during a check and no phone that may
\* be offline is killed, the answer of checkGameId is still true when _saveGame acts on it.
THEOREM PublishingSafe == Careful => (Spec => []PublishInv)
<1>. SUFFICES ASSUME Careful PROVE Spec => []PublishInv
  OBVIOUS
<1>1. Init => PublishInv /\ TypeInv
  BY PublishInvInit, TypeInvInit
<1>2. (PublishInv /\ TypeInv) /\ [Next]_vars => (PublishInv /\ TypeInv)'
  BY PublishInvStep, TypeInvStep
<1>. QED  BY <1>1, <1>2, PTL DEF Spec

-----------------------------------------------------------------------------
(***************************************************************************)
(* The refinement.                                                         *)
(***************************************************************************)

\* A write to a path without a document publishes a game, or shelves a copy.
LEMMA FirstApplied ==
    ASSUME TypeInv, NEW w, w.path \in Paths, w.data \in GameDocs, w.data # NoDoc,
           w.data.gameid = w.path.id, store[w.path] = NoDoc,
           w.path = GamePath(w.path.id) \/ store[GamePath(w.path.id)] = w.data,
           store' = [store EXCEPT ![w.path] = w.data]
    PROVE  \/ \E g \in GameIds, f \in Drafts : Board!Publish(g, f)
           \/ \E u \in Users, g \in GameIds : Board!Shelve(u, g)
           \/ UNCHANGED <<BoardOf(store), ShelfOf(store)>>
<1>. USE DEF TypeInv
<1>. PICK g : g = w.path.id
  OBVIOUS
<1>5. \A x \in Paths : store'[x] = IF x = w.path THEN w.data ELSE store[x]
  BY DEF TypeOK
<1>6. \A h \in GameIds, v \in Users \union {null} :
         GamePath(h) \in Paths /\ MirrorPath(v, h) \in Paths
  BY PathsOfAGame
<1>7. g \in GameIds
  BY PathCases
<1>8. CASE w.path = GamePath(g)
  <2>. PICK f : f = w.data.form
    OBVIOUS
  <2>1. f \in Drafts /\ w.data = [gameid |-> g, form |-> f]
    BY DEF GameDocs
  <2>2. BoardOf(store)[g] = NoDoc
    BY <1>7, <1>8 DEF BoardOf
  <2>3. BoardOf(store)' = [BoardOf(store) EXCEPT ![g] = [gameid |-> g, form |-> f]]
    <3>1. \A h \in GameIds : store'[GamePath(h)] =
             IF h = g THEN w.data ELSE store[GamePath(h)]
      BY <1>5, <1>6, <1>8, PathsDiffer
    <3>. QED  BY <1>7, <2>1, <3>1 DEF BoardOf
  <2>4. ShelfOf(store)' = ShelfOf(store)
    BY <1>5, <1>6, <1>8, PathsDiffer DEF ShelfOf
  <2>5. Board!Publish(g, f)
    BY <2>2, <2>3, <2>4 DEF Board!Publish, Board!GameDoc
  <2>. QED  BY <1>7, <2>1, <2>5
<1>9. CASE w.path # GamePath(g)
  <2>0. PICK u \in Users \union {null} : w.path = MirrorPath(u, g)
    BY <1>9, PathCases
  <2>1. store[GamePath(g)] = w.data
    BY <1>9
  <2>2. BoardOf(store)' = BoardOf(store)
    BY <1>5, <1>6, <2>0, PathsDiffer DEF BoardOf
  <2>3. CASE u \in Users
    <3>1. BoardOf(store)[g] = w.data
      BY <1>7, <2>1 DEF BoardOf
    <3>2. ShelfOf(store)[u][g] = NoDoc
      BY <1>7, <2>0, <2>3 DEF ShelfOf
    <3>3. ShelfOf(store)' = [ShelfOf(store) EXCEPT ![u][g] = w.data]
      <4>1. \A v \in Users, h \in GameIds : store'[MirrorPath(v, h)] =
               IF v = u /\ h = g THEN w.data ELSE store[MirrorPath(v, h)]
        BY <1>5, <1>6, <2>0, PathsDiffer
      <4>. DEFINE row == [h \in GameIds |-> store[MirrorPath(u, h)]]
                  newRow == [h \in GameIds |-> store'[MirrorPath(u, h)]]
      <4>2. newRow = [row EXCEPT ![g] = w.data]
        BY <1>7, <2>3, <4>1
      <4>3. \A v \in Users : v # u =>
               [h \in GameIds |-> store'[MirrorPath(v, h)]]
                  = [h \in GameIds |-> store[MirrorPath(v, h)]]
        BY <4>1
      <4>4. ShelfOf(store)[u] = row /\ ShelfOf(store)'[u] = newRow
        BY <2>3 DEF ShelfOf
      <4>. HIDE DEF row, newRow
      <4>5. ShelfOf(store)' = [ShelfOf(store) EXCEPT ![u] = newRow]
        BY ONLY <2>3, <4>3, <4>4 DEF ShelfOf
      <4>. QED  BY <4>2, <4>4, <4>5
    <3>4. Board!Shelve(u, g)
      BY <2>2, <3>1, <3>2, <3>3 DEF Board!Shelve
    <3>. QED  BY <1>7, <2>3, <3>4
  <2>4. CASE u = null
    <3>1. ShelfOf(store)' = ShelfOf(store)
      BY <1>5, <1>6, <2>0, <2>4, NullAssumption, PathsDiffer DEF ShelfOf
    <3>. QED  BY <2>2, <3>1
  <2>. QED  BY <2>3, <2>4
<1>. QED  BY <1>8, <1>9

\* The documents change only when a write reaches the backend.
LEMMA OnlyApplyStores ==
    ASSUME [Next]_vars
    PROVE  store' = store \/ \E d \in Devices : Apply(d)
BY DEF Next, User, Client, Sync, OpenPage, FindUser, Edit, PressStart, Cancel,
       IdIsFree, IdIsTaken, AnswerLost, Kill, KillProcess, RestartClient, Ack,
       AckWrite, Release, ReleaseWrite, Break, BreakStream, Answer,
       AnswerFromServer, AnswerFromCache, Answered, vars, fsVars

\* A write that reaches the backend publishes a game, or shelves a copy of
\* one that is published, or (below users/null) is nobody's, or was there.
LEMMA ApplyImplements ==
    ASSUME TypeInv, PublishInv, NEW d \in Devices, Apply(d)
    PROVE  \/ \E g \in GameIds, f \in Drafts : Board!Publish(g, f)
           \/ \E u \in Users, g \in GameIds : Board!Shelve(u, g)
           \/ UNCHANGED <<BoardOf(store), ShelfOf(store)>>
<1>. USE DEF TypeInv
<1>. PICK w : w = outbox[d][applied[d] + 1]
  OBVIOUS
<1>1. /\ applied[d] < Len(outbox[d])
      /\ store' = [store EXCEPT ![w.path] = w.data]
  BY DEF Apply, ApplyWrite
<1>2. /\ w.path \in Paths /\ w.data \in GameDocs /\ w.data # NoDoc
      /\ w.data.gameid = w.path.id /\ store[w.path] \in {NoDoc, w.data}
      /\ w.path = GamePath(w.path.id) \/ store[GamePath(w.path.id)] = w.data
  BY <1>1, NextWrite
<1>3. CASE store[w.path] = w.data
  <2>1. store' = store
    BY <1>1, <1>2, <1>3 DEF TypeOK
  <2>. QED  BY <2>1 DEF BoardOf, ShelfOf
<1>4. CASE store[w.path] = NoDoc
  BY <1>1, <1>2, <1>4, FirstApplied
<1>. QED  BY <1>2, <1>3, <1>4

\* For any number of phones, pages, users and ids: as long as phones draw
\* different ids, nobody presses Start during a check and no phone that may
\* be offline is killed, checkGameId and _saveGame implement GameBoard, so a
\* published game is never replaced, not even by a write that is sent again.
THEOREM ImplementsBoard == Careful => (Spec => ImplementsGameBoard)
<1>. SUFFICES ASSUME Careful PROVE Spec => ImplementsGameBoard
  OBVIOUS
<1>1. Init => Board!Init
  BY DEF Init, FirestoreInit, Board!Init, BoardOf, ShelfOf
<1>2. ASSUME PublishInv, TypeInv, [Next]_vars
      PROVE  [Board!Next]_<<BoardOf(store), ShelfOf(store)>>
  <2>1. CASE store' = store
    BY <2>1 DEF BoardOf, ShelfOf
  <2>2. CASE \E d \in Devices : Apply(d)
    BY <1>2, <2>2, ApplyImplements DEF Board!Next
  <2>. QED  BY <1>2, <2>1, <2>2, OnlyApplyStores
<1>3. Init => PublishInv /\ TypeInv
  BY PublishInvInit, TypeInvInit
<1>4. (PublishInv /\ TypeInv) /\ [Next]_vars => (PublishInv /\ TypeInv)'
  BY PublishInvStep, TypeInvStep
<1>. QED  BY <1>1, <1>2, <1>3, <1>4, PTL DEF Spec, ImplementsGameBoard, Board!Spec

=============================================================================
