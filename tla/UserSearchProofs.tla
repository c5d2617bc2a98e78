-------------------------- MODULE UserSearchProofs --------------------------
(***************************************************************************)
(* Theorems about UserSearch, for any number of phones, pages and users.   *)
(***************************************************************************)
EXTENDS UserSearch, FirestoreProofs

Profiles == {Profile(u) : u \in Users}

\* What _fetch asks: one user's document.
Fetches == [page : Pages, coll : {<<"users">>}, field : {"documentID"}, value : Users]

(***************************************************************************)
(* FiledAsTapped is not inductive: it says nothing of the caches, the      *)
(* queues, and the fetches and answers on their way.  Sound says what a    *)
(* document may be, wherever a copy of it is; it only grows weaker as      *)
(* taps are added.  FetchesTapped is why _add keeps it: as long as the     *)
(* answer about w is on its way, the field holds a user v who was tapped   *)
(* while it was.                                                           *)
(***************************************************************************)
Sound(taps, x, doc) ==
    \/ \E u \in Users : x = UserPath(u) /\ doc = Profile(u)
    \/ \E p \in Pages : \E u \in Owners(p), v \in Users, w \in Users :
          x = FriendPath(u, v) /\ <<w, v>> \in taps[p] /\ doc = Profile(w)

DocsSound ==
    /\ \A x \in Paths : store[x] # NoDoc => Sound(tapped, x, store[x])
    /\ \A d \in Devices, x \in Paths : cache[d][x] # NoDoc => Sound(tapped, x, cache[d][x])
    /\ \A d \in Devices : \A i \in DOMAIN outbox[d] :
          Sound(tapped, outbox[d][i].path, outbox[d][i].data)

\* A fetch of device d: its page lives there and has its user, in the field,
\* beside the one it asks for.
FetchTapped(d, q) ==
    /\ Host[q.page] = d
    /\ searchedUserId[q.page] \in Users
    /\ <<q.value, searchedUserId[q.page]>> \in tapped[q.page]

FetchesTapped ==
    /\ \A d \in Devices : \A i \in DOMAIN calls[d] : FetchTapped(d, calls[d][i])
    /\ \A d \in Devices : \A i \in DOMAIN replies[d] :
          /\ FetchTapped(d, replies[d][i].call)
          /\ replies[d][i].docs \subseteq {Profile(replies[d][i].call.value)}

Fields ==
    /\ mCurrentUser \in [Pages -> Users \union {null}]
    /\ \A p \in Pages : mCurrentUser[p] \in Owners(p)
    /\ searchedUserId \in [Pages -> Users \union {null}]
    /\ friend \in [Pages -> [brukernavn : Names \union {null}, uid : Users \union {null}]]
    /\ shown \in [Pages -> SUBSET Users]
    /\ tapped \in [Pages -> SUBSET (Users \X Users)]

SearchInv == FsTypeOK(Profiles, Fetches) /\ Fields /\ DocsSound /\ FetchesTapped

LEMMA OwnersAre == \A p \in Pages : Owners(p) \subseteq Users \union {null}
BY SessionAssumption, HostAssumption DEF Owners

\* A user's document is none of the friend documents.
LEMMA UserPaths ==
    ASSUME NEW x \in Paths, x.coll = <<"users">>
    PROVE  \E u \in Users : x = UserPath(u) /\ x.id = u
<1>1. ASSUME NEW u, NEW v PROVE FriendPath(u, v).coll # <<"users">>
  BY DEF FriendPath
<1>2. x \in SearchPaths
  BY SearchAssumption
<1>. QED  BY <1>1, <1>2 DEF SearchPaths, UserPath

LEMMA FriendPaths ==
    ASSUME NEW u \in Users \union {null}, NEW v \in Users
    PROVE  FriendPath(u, v) \in Paths
<1>1. FriendPath(u, v) \in SearchPaths
  BY DEF SearchPaths
<1>. QED  BY <1>1, SearchAssumption

\* What was sound stays so as taps are added.
LEMMA SoundStays ==
    ASSUME \A p \in Pages : tapped[p] \subseteq tapped'[p], NEW x, NEW doc, Sound(tapped, x, doc)
    PROVE  Sound(tapped', x, doc)
<1>1. ASSUME NEW u \in Users, x = UserPath(u), doc = Profile(u) PROVE Sound(tapped', x, doc)
  BY <1>1 DEF Sound
<1>2. ASSUME NEW p \in Pages, NEW v \in Users, NEW w \in Users, NEW u \in Owners(p),
             x = FriendPath(u, v), <<w, v>> \in tapped[p], doc = Profile(w)
      PROVE  Sound(tapped', x, doc)
  <2>1. <<w, v>> \in tapped'[p]
    BY <1>2
  <2>. QED  BY <1>2, <2>1 DEF Sound
<1>. QED  BY <1>1, <1>2 DEF Sound

LEMMA SearchInit == Init => SearchInv
<1>. SUFFICES ASSUME Init PROVE SearchInv
  OBVIOUS
<1>1. /\ FirestoreInit([x \in Paths |-> IF \E u \in Users : x = UserPath(u)
                                        THEN Profile(x.id) ELSE NoDoc])
      /\ mCurrentUser = [p \in Pages |-> null] /\ searchedUserId = [p \in Pages |-> null]
      /\ friend = [p \in Pages |-> [brukernavn |-> null, uid |-> null]]
      /\ shown = [p \in Pages |-> {}] /\ tapped = [p \in Pages |-> {}]
  BY DEF Init, PageInit
<1>2. ASSUME NEW x \in Paths
      PROVE  /\ store[x] \in Profiles \union {NoDoc}
             /\ store[x] # NoDoc => Sound(tapped, x, store[x])
  <2>1. store[x] = IF \E u \in Users : x = UserPath(u) THEN Profile(x.id) ELSE NoDoc
    BY <1>1 DEF FirestoreInit
  <2>2. ASSUME NEW u \in Users, x = UserPath(u)
        PROVE  store[x] = Profile(u) /\ store[x] \in Profiles
    BY <2>1, <2>2 DEF UserPath, Profiles
  <2>. QED  BY <2>1, <2>2 DEF Sound
<1>3. /\ store \in [Paths -> Profiles \union {NoDoc}]
      /\ cache = [d \in Devices |-> [x \in Paths |-> NoDoc]]
      /\ \A d \in Devices : outbox[d] = <<>> /\ calls[d] = <<>> /\ replies[d] = <<>>
  BY <1>1, <1>2 DEF FirestoreInit
<1>4. FsTypeOK(Profiles, Fetches)
  BY <1>1, <1>3, EmptySeq DEF FirestoreInit, FsTypeOK, SendTypeOK
<1>5. Fields
  BY <1>1 DEF Fields, Owners
<1>6. DocsSound
  BY <1>2, <1>3 DEF DocsSound
<1>7. FetchesTapped
  BY <1>3 DEF FetchesTapped
<1>. QED  BY <1>4, <1>5, <1>6, <1>7 DEF SearchInv

-----------------------------------------------------------------------------
(***************************************************************************)
(* The documents.                                                          *)
(***************************************************************************)

\* The document at a user's path is that user's profile.
LEMMA UserDocument ==
    ASSUME NEW u \in Users, NEW doc, Sound(tapped, UserPath(u), doc)
    PROVE  doc = Profile(u)
<1>1. ASSUME NEW a, NEW b PROVE FriendPath(a, b) # UserPath(u)
  BY DEF FriendPath, UserPath
<1>2. ASSUME NEW a, UserPath(u) = UserPath(a) PROVE a = u
  BY <1>2 DEF UserPath
<1>. QED  BY <1>1, <1>2 DEF Sound

\* So the answer to a fetch is the profile asked for, also with pending
\* writes of the device on top.
LEMMA FetchedProfile ==
    ASSUME SearchInv, NEW d \in Devices, NEW q \in Fetches,
           NEW base \in [Paths -> Profiles \union {NoDoc}],
           \A x \in Paths : base[x] # NoDoc => Sound(tapped, x, base[x])
    PROVE  Snapshot(LocalView(base, outbox[d]), q).docs \subseteq {Profile(q.value)}
<1>. DEFINE view == LocalView(base, outbox[d])
<1>1. outbox[d] \in Seq(WritesOf(Profiles))
  BY DEF SearchInv, FsTypeOK
<1>2. ASSUME NEW x \in Paths, view[x] # NoDoc PROVE Sound(tapped, x, view[x])
  <2>1. view[x] = LocalDocument(base, outbox[d], x)
    BY DEF LocalView
  <2>2. CASE view[x] = base[x]
    BY <1>2, <2>2
  <2>3. ASSUME NEW i \in DOMAIN outbox[d], outbox[d][i].path = x, view[x] = outbox[d][i].data
        PROVE  Sound(tapped, x, view[x])
    <3>1. Sound(tapped, outbox[d][i].path, outbox[d][i].data)
      BY DEF SearchInv, DocsSound
    <3>. QED  BY <2>3, <3>1
  <2>. QED  BY <1>1, <2>1, <2>2, <2>3, LocalDocumentCases
<1>. HIDE DEF view
<1>3. ASSUME NEW x \in Matching(view, q) PROVE view[x] = Profile(q.value)
  <2>1. x \in Paths /\ x.coll = <<"users">> /\ view[x] # NoDoc /\ x.id = q.value
    BY <1>3 DEF Matching, Fetches
  <2>2. PICK u \in Users : x = UserPath(u) /\ x.id = u
    BY <2>1, UserPaths
  <2>. QED  BY <1>2, <2>1, <2>2, UserDocument
<1>4. Snapshot(view, q).docs = {view[x] : x \in Matching(view, q)}
  BY DEF Snapshot
<1>. QED  BY <1>3, <1>4 DEF view

\* A queue, a cache and a store that hold what they held, or one another's
\* documents, and no new tap.
LEMMA SyncSound ==
    ASSUME SearchInv, NEW d \in Devices, UNCHANGED tapped,
           \/ ApplyWrite(d) \/ AckWrite(d) \/ ReleaseWrite(d) \/ BreakStream(d)
           \/ RestartClient(d)
    PROVE  DocsSound'
<1>. USE DEF FsTypeOK
<1>0. /\ outbox \in [Devices -> Seq(WritesOf(Profiles))] /\ SendTypeOK
      /\ \A w \in WritesOf(Profiles) : w.path \in Paths
      /\ store \in [Paths -> Profiles \union {NoDoc}]
      /\ cache \in [Devices -> [Paths -> Profiles \union {NoDoc}]]
      /\ outbox[d] \in Seq(WritesOf(Profiles))
  BY DEF SearchInv, WritesOf
<1>1. \A x, doc : Sound(tapped, x, doc) => Sound(tapped', x, doc)
  BY SoundStays DEF SearchInv, Fields
<1>2. ASSUME NEW e \in Devices, NEW i \in DOMAIN outbox'[e]
      PROVE  \E j \in DOMAIN outbox[e] : outbox'[e][i] = outbox[e][j]
  <2>1. CASE outbox' = outbox
    BY <1>2, <2>1
  <2>2. ASSUME NEW n, Dropped(d, n) PROVE \E j \in DOMAIN outbox[e] : outbox'[e][i] = outbox[e][j]
    BY <1>2, <2>2 DEF Dropped
  <2>. QED  BY <1>0, <2>1, <2>2, DropSteps, SendSteps
<1>3. ASSUME NEW e \in Devices, NEW i \in DOMAIN outbox'[e]
      PROVE  Sound(tapped', outbox'[e][i].path, outbox'[e][i].data)
  <2>1. PICK j \in DOMAIN outbox[e] : outbox'[e][i] = outbox[e][j]
    BY <1>2
  <2>2. Sound(tapped, outbox[e][j].path, outbox[e][j].data)
    BY DEF SearchInv, DocsSound
  <2>. QED  BY <1>1, <2>1, <2>2
<1>4. ASSUME NEW x \in Paths, store'[x] # NoDoc PROVE Sound(tapped', x, store'[x])
  <2>1. CASE store' = store
    BY <1>1, <1>4, <2>1 DEF SearchInv, DocsSound
  <2>2. CASE ApplyWrite(d)
    <3>. DEFINE w == outbox[d][applied[d] + 1]
    <3>1. applied[d] + 1 \in DOMAIN outbox[d]
      BY <1>0, <2>2, LenProperties DEF ApplyWrite, SendTypeOK
    <3>2. Sound(tapped, w.path, w.data)
      BY <3>1 DEF SearchInv, DocsSound
    <3>3. store' = [store EXCEPT ![w.path] = w.data]
      BY <2>2 DEF ApplyWrite
    <3>. HIDE DEF w
    <3>4. store'[x] = store[x] \/ (x = w.path /\ store'[x] = w.data)
      BY <1>0, <3>3
    <3>. QED  BY <1>1, <1>4, <3>2, <3>4 DEF SearchInv, DocsSound
  <2>. QED  BY <2>1, <2>2 DEF AckWrite, ReleaseWrite, BreakStream, RestartClient
<1>5. ASSUME NEW e \in Devices, NEW x \in Paths, cache'[e][x] # NoDoc
      PROVE  Sound(tapped', x, cache'[e][x])
  <2>1. CASE cache' = cache
    BY <1>1, <1>5, <2>1 DEF SearchInv, DocsSound
  <2>2. CASE ReleaseWrite(d)
    <3>. DEFINE w == Head(outbox[d])
    <3>1. outbox[d] # <<>>
      BY <1>0, <2>2, EmptySeq DEF ReleaseWrite, SendTypeOK
    <3>2. 1 \in DOMAIN outbox[d] /\ w = outbox[d][1]
      BY <1>0, <3>1, TailElements
    <3>3. Sound(tapped, w.path, w.data)
      BY <3>2 DEF SearchInv, DocsSound
    <3>4. \/ cache' = [cache EXCEPT ![d] = [cache[d] EXCEPT ![w.path] = w.data]]
          \/ cache' = cache
      BY <2>2 DEF ReleaseWrite
    <3>. HIDE DEF w
    <3>5. w.path \in Paths
      BY <1>0, <3>2, Elements
    <3>6. cache'[e][x] = cache[e][x] \/ (x = w.path /\ cache'[e][x] = w.data)
      <4>1. CASE e = d
        BY <1>0, <3>4, <3>5, <4>1
      <4>2. CASE e # d
        BY <1>0, <3>4, <4>2
      <4>. QED  BY <4>1, <4>2
    <3>. QED  BY <1>1, <1>5, <3>3, <3>6 DEF SearchInv, DocsSound
  <2>. QED  BY <2>1, <2>2 DEF AckWrite, ApplyWrite, BreakStream, RestartClient
<1>. QED  BY <1>3, <1>4, <1>5 DEF DocsSound

-----------------------------------------------------------------------------
(***************************************************************************)
(* The steps.                                                              *)
(***************************************************************************)

\* Fetches and answers stay in order when no button is pressed.
LEMMA OldFetches ==
    ASSUME FetchesTapped, UNCHANGED <<searchedUserId, tapped>>,
           \A e \in Devices : CallsAreOld(e),
           \A e \in Devices : \A j \in DOMAIN replies'[e] :
              \/ \E k \in DOMAIN replies[e] : replies'[e][j] = replies[e][k]
              \/ /\ \E k \in DOMAIN calls[e] : replies'[e][j].call = calls[e][k]
                 /\ replies'[e][j].docs \subseteq {Profile(replies'[e][j].call.value)}
    PROVE  FetchesTapped'
<1>1. ASSUME NEW e \in Devices, NEW q, FetchTapped(e, q)
      PROVE  /\ Host[q.page] = e /\ searchedUserId'[q.page] \in Users
             /\ <<q.value, searchedUserId'[q.page]>> \in tapped'[q.page]
  BY <1>1 DEF FetchTapped
<1>2. ASSUME NEW e \in Devices, NEW j \in DOMAIN calls'[e] PROVE FetchTapped(e, calls[e][j])'
  <2>1. PICK k \in DOMAIN calls[e] : calls'[e][j] = calls[e][k]
    BY <1>2 DEF CallsAreOld
  <2>2. FetchTapped(e, calls[e][k])
    BY DEF FetchesTapped
  <2>. QED  BY <1>1, <2>1, <2>2 DEF FetchTapped
<1>3. ASSUME NEW e \in Devices, NEW j \in DOMAIN replies'[e]
      PROVE  /\ FetchTapped(e, replies[e][j].call)'
             /\ replies'[e][j].docs \subseteq {Profile(replies'[e][j].call.value)}
  <2>1. /\ \/ \E k \in DOMAIN replies[e] : replies'[e][j].call = replies[e][k].call
           \/ \E k \in DOMAIN calls[e] : replies'[e][j].call = calls[e][k]
        /\ replies'[e][j].docs \subseteq {Profile(replies'[e][j].call.value)}
    BY <1>3 DEF FetchesTapped
  <2>2. PICK q : q = replies'[e][j].call /\ FetchTapped(e, q)
    BY <2>1 DEF FetchesTapped
  <2>. QED  BY <1>1, <2>1, <2>2 DEF FetchTapped
<1>. QED  BY <1>2, <1>3 DEF FetchesTapped

\* Steps that touch neither the client nor the taps.
LEMMA QuietSearch ==
    ASSUME SearchInv, UNCHANGED <<fsVars, searchedUserId, friend, tapped>>,
           mCurrentUser' \in [Pages -> Users \union {null}],
           \A p \in Pages : mCurrentUser'[p] \in Owners(p),
           shown' \in [Pages -> SUBSET Users]
    PROVE  SearchInv'
<1>1. FsTypeOK(Profiles, Fetches)' /\ DocsSound' /\ FetchesTapped'
  BY DEF SearchInv, FsTypeOK, SendTypeOK, DocsSound, FetchesTapped, FetchTapped,
         fsVars, sendVars
<1>2. Fields'
  BY DEF SearchInv, Fields, Owners
<1>. QED  BY <1>1, <1>2 DEF SearchInv

LEMMA StreamStep ==
    ASSUME SearchInv, NEW p \in Pages, StreamAnswer(p)
    PROVE  SearchInv'
<1>. PICK found : found = Matching(store, Where(p, <<"users">>, "brukernavn", queryText[p]))
  OBVIOUS
<1>. PICK d : d = Host[p]
  OBVIOUS
<1>1. /\ shown' = [shown EXCEPT ![p] = {x.id : x \in found}]
      /\ cache' = [cache EXCEPT ![d] =
                     [x \in Paths |-> IF x \in found THEN store[x] ELSE cache[d][x]]]
      /\ UNCHANGED <<store, outbox, sendVars, calls, replies, mCurrentUser,
                     searchedUserId, friend, tapped>>
  BY DEF StreamAnswer, pageVars
<1>2. found \subseteq Paths /\ \A x \in found : x.coll = <<"users">>
  BY DEF Matching, Where
<1>3. \A x \in found : x.id \in Users
  BY <1>2, UserPaths
<1>4. Fields'
  BY <1>1, <1>3 DEF SearchInv, Fields, Owners
<1>5. d \in Devices
  BY HostAssumption
<1>6. /\ store \in [Paths -> Profiles \union {NoDoc}]
      /\ cache \in [Devices -> [Paths -> Profiles \union {NoDoc}]]
      /\ FsTypeOK(Profiles, Fetches)
  BY DEF SearchInv, FsTypeOK
<1>7. [x \in Paths |-> IF x \in found THEN store[x] ELSE cache[d][x]]
          \in [Paths -> Profiles \union {NoDoc}]
  BY <1>5, <1>6
<1>8. /\ cache' \in [Devices -> [Paths -> Profiles \union {NoDoc}]]
      /\ \A e \in Devices, x \in Paths :
            cache'[e][x] = cache[e][x] \/ cache'[e][x] = store[x]
  BY <1>1, <1>5, <1>6, <1>7
<1>9. FsTypeOK(Profiles, Fetches)'
  BY <1>1, <1>6, <1>8 DEF FsTypeOK, SendTypeOK, sendVars
<1>10. DocsSound'
  BY <1>1, <1>8 DEF SearchInv, DocsSound
<1>11. FetchesTapped'
  BY <1>1 DEF SearchInv, FetchesTapped, FetchTapped
<1>. QED  BY <1>4, <1>9, <1>10, <1>11 DEF SearchInv

\* The button.  The fetches of the page that are under way are those that
\* the history variable adds, with the user who is in the field now.
LEMMA TapStep ==
    ASSUME SearchInv, NEW p \in Pages, NEW v \in Users, TapAdd(p, v)
    PROVE  SearchInv'
<1>. PICK d : d = Host[p]
  OBVIOUS
<1>. PICK q : q = Get(p, UserPath(v))
  OBVIOUS
<1>. PICK busy : busy = Fetching(p)
  OBVIOUS
<1>1. /\ searchedUserId' = [searchedUserId EXCEPT ![p] = v]
      /\ calls' = [calls EXCEPT ![d] = Append(calls[d], q)]
      /\ tapped' = [tapped EXCEPT ![p] = tapped[p] \union {<<w, v>> : w \in busy \union {v}}]
      /\ UNCHANGED <<store, cache, outbox, sendVars, replies, mCurrentUser, friend, shown>>
  BY DEF TapAdd, pageVars
<1>2. q \in Fetches /\ q.page = p /\ q.value = v
  BY DEF Get, Where, UserPath, Fetches
<1>3. /\ d \in Devices /\ FsTypeOK(Profiles, Fetches) /\ Fields
      /\ calls \in [Devices -> Seq(Fetches)] /\ calls[d] \in Seq(Fetches)
      /\ replies[d] \in Seq(AnswersOf(Profiles, Fetches))
  BY HostAssumption DEF SearchInv, FsTypeOK
<1>. PICK s : s = Append(calls[d], q)
  OBVIOUS
<1>4. /\ s \in Seq(Fetches)
      /\ \A j \in DOMAIN s : s[j] = q \/ \E k \in DOMAIN calls[d] : s[j] = calls[d][k]
  BY <1>2, <1>3, AppendElements
<1>5. /\ calls' \in [Devices -> Seq(Fetches)] /\ calls'[d] = s
      /\ \A e \in Devices : e # d => calls'[e] = calls[e]
  BY <1>1, <1>3, <1>4
<1>6. FsTypeOK(Profiles, Fetches)'
  BY <1>1, <1>3, <1>5 DEF FsTypeOK, SendTypeOK, sendVars
<1>7. busy \subseteq Users
  <2>1. ASSUME NEW i \in DOMAIN calls[d] PROVE calls[d][i].value \in Users
    <3>1. calls[d][i] \in Fetches
      BY <1>3, Elements
    <3>. QED  BY <3>1 DEF Fetches
  <2>2. ASSUME NEW i \in DOMAIN replies[d] PROVE replies[d][i].call.value \in Users
    <3>1. replies[d][i] \in AnswersOf(Profiles, Fetches)
      BY <1>3, Elements
    <3>. QED  BY <3>1 DEF AnswersOf, Fetches
  <2>. QED  BY <2>1, <2>2 DEF Fetching
<1>8. /\ searchedUserId' \in [Pages -> Users \union {null}] /\ searchedUserId'[p] = v
      /\ tapped' \in [Pages -> SUBSET (Users \X Users)]
      /\ \A w \in busy \union {v} : <<w, v>> \in tapped'[p]
      /\ \A r \in Pages : tapped[r] \subseteq tapped'[r]
      /\ \A r \in Pages : r # p => searchedUserId'[r] = searchedUserId[r]
  BY <1>1, <1>3, <1>7 DEF Fields
<1>9. Fields'
  BY <1>1, <1>3, <1>8 DEF Fields, Owners
<1>10. DocsSound'
  <2>1. \A x, doc : Sound(tapped, x, doc) => Sound(tapped', x, doc)
    BY <1>8, SoundStays
  <2>. QED  BY <1>1, <2>1 DEF SearchInv, DocsSound
<1>11. ASSUME NEW e \in Devices, NEW f \in Fetches, FetchTapped(e, f),
              f.page = p => f.value \in busy
       PROVE  FetchTapped(e, f)'
  <2>1. f.page \in Pages
    BY DEF Fetches
  <2>2. CASE f.page = p
    BY <1>8, <1>11, <2>2 DEF FetchTapped
  <2>3. CASE f.page # p
    BY <1>8, <1>11, <2>1, <2>3 DEF FetchTapped
  <2>. QED  BY <2>2, <2>3
<1>12. ASSUME NEW e \in Devices, NEW i \in DOMAIN calls[e]
       PROVE  /\ calls[e][i] \in Fetches /\ FetchTapped(e, calls[e][i])
              /\ calls[e][i].page = p => calls[e][i].value \in busy
  <2>1. calls[e] \in Seq(Fetches) /\ FetchTapped(e, calls[e][i])
    BY <1>3 DEF SearchInv, FetchesTapped
  <2>2. calls[e][i].page = p => e = d
    BY <2>1 DEF FetchTapped
  <2>. QED  BY <2>1, <2>2, Elements DEF Fetching
<1>13. ASSUME NEW e \in Devices, NEW i \in DOMAIN replies[e]
       PROVE  /\ replies[e][i].call \in Fetches /\ FetchTapped(e, replies[e][i].call)
              /\ replies[e][i].call.page = p => replies[e][i].call.value \in busy
  <2>1. /\ replies[e] \in Seq(AnswersOf(Profiles, Fetches))
        /\ FetchTapped(e, replies[e][i].call)
    BY <1>3 DEF SearchInv, FetchesTapped, FsTypeOK
  <2>2. replies[e][i].call.page = p => e = d
    BY <2>1 DEF FetchTapped
  <2>3. replies[e][i].call \in Fetches
    <3>1. replies[e][i] \in AnswersOf(Profiles, Fetches)
      BY <2>1, Elements
    <3>. QED  BY <3>1 DEF AnswersOf
  <2>. QED  BY <2>1, <2>2, <2>3 DEF Fetching
<1>14. ASSUME NEW e \in Devices, NEW j \in DOMAIN calls'[e] PROVE FetchTapped(e, calls[e][j])'
  <2>. PICK f : f = calls'[e][j]
    OBVIOUS
  <2>1. (e = d /\ f = q) \/ \E k \in DOMAIN calls[e] : f = calls[e][k]
    <3>1. CASE e = d
      BY <1>4, <1>5, <1>14, <3>1
    <3>2. CASE e # d
      BY <1>5, <1>14, <3>2
    <3>. QED  BY <3>1, <3>2
  <2>2. FetchTapped(d, q)'
    BY <1>2, <1>8 DEF FetchTapped
  <2>3. FetchTapped(e, f)'
    BY <1>11, <1>12, <2>1, <2>2
  <2>. QED  BY <2>3 DEF FetchTapped
<1>15. ASSUME NEW e \in Devices, NEW j \in DOMAIN replies'[e]
       PROVE  /\ FetchTapped(e, replies[e][j].call)'
              /\ replies'[e][j].docs \subseteq {Profile(replies'[e][j].call.value)}
  <2>1. replies' = replies
    BY <1>1
  <2>2. FetchTapped(e, replies[e][j].call)'
    BY <1>11, <1>13, <1>15, <2>1 DEF FetchTapped
  <2>. QED  BY <1>15, <2>1, <2>2 DEF SearchInv, FetchesTapped
<1>16. FetchesTapped'
  BY <1>14, <1>15 DEF FetchesTapped
<1>. QED  BY <1>6, <1>9, <1>10, <1>16 DEF SearchInv

\* The callback of _fetch: the fields get the profile that was asked for,
\* the path is built from whom the field names by now, and both were
\* together at a tap.
LEMMA FetchStep ==
    ASSUME SearchInv, NEW d \in Devices, FetchAnswer(d)
    PROVE  SearchInv'
<1>. PICK r : r = Head(replies[d])
  OBVIOUS
<1>. PICK p : p = r.call.page
  OBVIOUS
<1>. PICK path : path = FriendPath(mCurrentUser[p], searchedUserId[p])
  OBVIOUS
<1>0. FsTypeOK(Profiles, Fetches) /\ Fields
  BY DEF SearchInv
<1>1. /\ replies[d] # <<>> /\ Deliver(d, <<>>)
      /\ UNCHANGED <<store, cache, sendVars, mCurrentUser, searchedUserId, shown, tapped>>
      /\ \/ UNCHANGED <<friend, outbox>>
         \/ \E profile \in r.docs :
               /\ friend' = [friend EXCEPT ![p] = profile]
               /\ outbox' = [outbox EXCEPT ![d] = Add(outbox[d], p, friend'[p])]
  BY DEF FetchAnswer, pageVars
<1>2. /\ r \in AnswersOf(Profiles, Fetches)
      /\ 1 \in DOMAIN replies[d] /\ r = replies[d][1]
      /\ calls' = calls
      /\ replies' \in [Devices -> Seq(AnswersOf(Profiles, Fetches))]
      /\ \A e \in Devices : RepliesAreOld(e)
  BY <1>0, <1>1, DeliverTypes
<1>3. /\ p \in Pages /\ r.call.value \in Users /\ r.docs \subseteq {Profile(r.call.value)}
      /\ searchedUserId[p] \in Users /\ <<r.call.value, searchedUserId[p]>> \in tapped[p]
      /\ mCurrentUser[p] \in Users \union {null} /\ mCurrentUser[p] \in Owners(p)
  <2>1. p \in Pages /\ r.call.value \in Users
    BY <1>2 DEF AnswersOf, Fetches
  <2>2. FetchTapped(d, r.call) /\ r.docs \subseteq {Profile(r.call.value)}
    BY <1>2 DEF SearchInv, FetchesTapped
  <2>3. searchedUserId[p] \in Users /\ <<r.call.value, searchedUserId[p]>> \in tapped[p]
    BY <2>2 DEF FetchTapped
  <2>4. mCurrentUser[p] \in Users \union {null} /\ mCurrentUser[p] \in Owners(p)
    BY <1>0, <2>1 DEF Fields
  <2>. QED  BY <2>1, <2>2, <2>3, <2>4
<1>w. PICK w : w = [path |-> path, data |-> Profile(r.call.value)]
  OBVIOUS
<1>4. /\ path \in Paths /\ w \in WritesOf(Profiles)
      /\ Profile(r.call.value) \in [brukernavn : Names \union {null}, uid : Users \union {null}]
  <2>1. path \in Paths
    BY <1>3, FriendPaths
  <2>2. Profile(r.call.value) \in Profiles
    BY <1>3 DEF Profiles
  <2>3. NameOf[r.call.value] \in Names
    BY <1>3, SearchAssumption
  <2>4. Profile(r.call.value) \in [brukernavn : Names \union {null}, uid : Users \union {null}]
    BY <1>3, <2>3 DEF Profile
  <2>. QED  BY <1>w, <2>1, <2>2, <2>4 DEF WritesOf
<1>5. Sound(tapped, w.path, w.data)
  BY <1>w, <1>3 DEF Sound
<1>6. \/ UNCHANGED <<friend, outbox>>
      \/ /\ friend' = [friend EXCEPT ![p] = Profile(r.call.value)]
         /\ outbox' = [outbox EXCEPT ![d] = Append(outbox[d], w)]
  <2>1. ASSUME NEW profile \in r.docs, friend' = [friend EXCEPT ![p] = profile],
               outbox' = [outbox EXCEPT ![d] = Add(outbox[d], p, friend'[p])]
        PROVE  /\ friend' = [friend EXCEPT ![p] = Profile(r.call.value)]
               /\ outbox' = [outbox EXCEPT ![d] = Append(outbox[d], w)]
    <3>1. profile = Profile(r.call.value) /\ friend'[p] = profile
      BY <1>0, <1>3, <2>1 DEF Fields
    <3>. QED  BY <1>w, <2>1, <3>1 DEF Add, SetData
  <2>. QED  BY <1>1, <2>1
<1>7. Fields'
  <2>1. friend' \in [Pages -> [brukernavn : Names \union {null}, uid : Users \union {null}]]
    BY <1>0, <1>4, <1>6 DEF Fields
  <2>. QED  BY <1>0, <1>1, <2>1 DEF Fields, Owners
<1>8. /\ outbox \in [Devices -> Seq(WritesOf(Profiles))] /\ SendTypeOK
      /\ outbox[d] \in Seq(WritesOf(Profiles))
  BY <1>0 DEF FsTypeOK
<1>9. ASSUME UNCHANGED <<friend, outbox>> PROVE FsTypeOK(Profiles, Fetches)' /\ DocsSound'
  <2>1. FsTypeOK(Profiles, Fetches)'
    BY <1>0, <1>1, <1>2, <1>9 DEF FsTypeOK, SendTypeOK, sendVars
  <2>2. DocsSound'
    BY <1>1, <1>9 DEF SearchInv, DocsSound
  <2>. QED  BY <2>1, <2>2
<1>10. ASSUME outbox' = [outbox EXCEPT ![d] = Append(outbox[d], w)]
       PROVE  FsTypeOK(Profiles, Fetches)' /\ DocsSound'
  <2>. PICK s : s = Append(outbox[d], w)
    OBVIOUS
  <2>1. /\ s \in Seq(WritesOf(Profiles)) /\ Len(s) >= Len(outbox[d])
        /\ \A j \in DOMAIN s : s[j] = w \/ \E k \in DOMAIN outbox[d] : s[j] = outbox[d][k]
    <3>1. /\ s \in Seq(WritesOf(Profiles)) /\ Len(s) = Len(outbox[d]) + 1
          /\ Len(outbox[d]) \in Nat
      BY <1>4, <1>8, AppendProperties, LenProperties
    <3>2. Len(s) >= Len(outbox[d])
      BY <3>1
    <3>3. \A j \in DOMAIN s : s[j] = w \/ \E k \in DOMAIN outbox[d] : s[j] = outbox[d][k]
      BY <1>4, <1>8, AppendElements
    <3>. QED  BY <3>1, <3>2, <3>3
  <2>2. SendTypeOK'
    BY <1>1, <1>8, <1>10, <2>1, GrowStep
  <2>3. FsTypeOK(Profiles, Fetches)'
    BY <1>0, <1>1, <1>2, <1>8, <1>10, <2>1, <2>2 DEF FsTypeOK
  <2>4. ASSUME NEW e \in Devices, NEW i \in DOMAIN outbox'[e]
        PROVE  Sound(tapped, outbox'[e][i].path, outbox'[e][i].data)
    <3>1. outbox'[e][i] = w \/ \E k \in DOMAIN outbox[e] : outbox'[e][i] = outbox[e][k]
      <4>1. CASE e = d
        <5>1. outbox'[d] = s
          BY <1>8, <1>10
        <5>. QED  BY <2>1, <2>4, <4>1, <5>1
      <4>2. CASE e # d
        <5>1. outbox'[e] = outbox[e]
          BY <1>8, <1>10, <4>2
        <5>. QED  BY <2>4, <5>1
      <4>. QED  BY <4>1, <4>2
    <3>. QED  BY <1>5, <3>1 DEF SearchInv, DocsSound
  <2>5. DocsSound'
    BY <1>1, <2>4 DEF SearchInv, DocsSound
  <2>. QED  BY <2>3, <2>5
<1>11. \A e \in Devices : CallsAreOld(e)
  BY <1>2 DEF CallsAreOld
<1>12. FetchesTapped'
  BY <1>1, <1>2, <1>11, OldFetches DEF SearchInv, RepliesAreOld
<1>. QED  BY <1>6, <1>7, <1>9, <1>10, <1>12 DEF SearchInv

LEMMA ClientStep ==
    ASSUME SearchInv, NEW d \in Devices, Sync(d) \/ Kill(d)
    PROVE  SearchInv'
<1>0. FsTypeOK(Profiles, Fetches)
  BY DEF SearchInv
<1>1. UNCHANGED <<mCurrentUser, searchedUserId, friend, shown, tapped>>
  BY DEF Sync, Apply, Ack, Release, Break, Kill, KillProcess, pageVars, searchVars
<1>2. Fields'
  BY <1>1 DEF SearchInv, Fields, Owners
<1>3. \/ ApplyWrite(d) \/ AckWrite(d) \/ ReleaseWrite(d) \/ BreakStream(d)
      \/ RestartClient(d)
  BY DEF Sync, Apply, Ack, Release, Break, Kill, KillProcess
<1>4. DocsSound'
  BY <1>1, <1>3, SyncSound
<1>5. CASE ApplyWrite(d) \/ AckWrite(d) \/ ReleaseWrite(d) \/ BreakStream(d)
  <2>1. FsTypeOK(Profiles, Fetches)' /\ UNCHANGED <<calls, replies>>
    BY <1>0, <1>5, SyncTypes
  <2>2. FetchesTapped'
    BY <1>1, <2>1, OldFetches DEF SearchInv, CallsAreOld
  <2>. QED  BY <1>2, <1>4, <2>1, <2>2 DEF SearchInv
<1>6. CASE RestartClient(d)
  <2>1. /\ FsTypeOK(Profiles, Fetches)'
        /\ \A e \in Devices : CallsAreOld(e) /\ RepliesAreOld(e)
    BY <1>0, <1>6, RestartTypes
  <2>2. FetchesTapped'
    BY <1>1, <2>1, OldFetches DEF SearchInv, RepliesAreOld
  <2>. QED  BY <1>2, <1>4, <2>1, <2>2 DEF SearchInv
<1>. QED  BY <1>3, <1>5, <1>6

LEMMA AnswerStep ==
    ASSUME SearchInv, NEW d \in Devices, NEW i \in DOMAIN calls[d], Answer(d, i)
    PROVE  SearchInv'
<1>. PICK q : q = calls[d][i]
  OBVIOUS
<1>0. /\ FsTypeOK(Profiles, Fetches)
      /\ UNCHANGED <<mCurrentUser, searchedUserId, friend, shown, tapped>>
      /\ AnswerFromServer(d, i) \/ AnswerFromCache(d, i)
  BY DEF SearchInv, Answer, pageVars, searchVars
<1>1. /\ FsTypeOK(Profiles, Fetches)' /\ UNCHANGED <<store, outbox>>
      /\ \A e \in Devices : CallsAreOld(e)
  BY <1>0, AnswerTypes
<1>2. /\ calls[d] \in Seq(Fetches) /\ replies \in [Devices -> Seq(AnswersOf(Profiles, Fetches))]
      /\ store \in [Paths -> Profiles \union {NoDoc}]
      /\ cache \in [Devices -> [Paths -> Profiles \union {NoDoc}]]
  BY <1>0 DEF FsTypeOK
<1>3. q \in Fetches
  BY <1>2, Elements
<1>4. PICK base : /\ base \in [Paths -> Profiles \union {NoDoc}]
                  /\ \A x \in Paths : base[x] # NoDoc => Sound(tapped, x, base[x])
                  /\ Answered(d, i, Snapshot(LocalView(base, outbox[d]), q))
  <2>1. CASE AnswerFromServer(d, i)
    BY <1>2, <2>1 DEF AnswerFromServer, SearchInv, DocsSound
  <2>2. CASE AnswerFromCache(d, i)
    <3>. PICK c : c = cache[d]
      OBVIOUS
    <3>1. /\ c \in [Paths -> Profiles \union {NoDoc}]
          /\ \A x \in Paths : c[x] # NoDoc => Sound(tapped, x, c[x])
      BY <1>2 DEF SearchInv, DocsSound
    <3>2. Answered(d, i, Snapshot(LocalView(c, outbox[d]), q))
      BY <2>2 DEF AnswerFromCache
    <3>. QED  BY <3>1, <3>2
  <2>. QED  BY <1>0, <2>1, <2>2
<1>. PICK a : a = Snapshot(LocalView(base, outbox[d]), q)
  OBVIOUS
<1>5. /\ a.call = q /\ a.docs \subseteq {Profile(q.value)}
      /\ a \in AnswersOf(Profiles, Fetches)
  <2>1. outbox[d] \in Seq(WritesOf(Profiles))
    BY <1>0 DEF FsTypeOK
  <2>2. /\ Snapshot(LocalView(base, outbox[d]), q) \in AnswersOf(Profiles, Fetches)
        /\ Snapshot(LocalView(base, outbox[d]), q).call = q
    <3>. PICK o : o = outbox[d]
      OBVIOUS
    <3>1. o \in Seq(WritesOf(Profiles)) /\ base \in [Paths -> Profiles \union {NoDoc}]
      BY <1>4, <2>1
    <3>2. /\ Snapshot(LocalView(base, o), q) \in AnswersOf(Profiles, Fetches)
          /\ Snapshot(LocalView(base, o), q).call = q
      BY <1>3, <3>1, ViewAnswer
    <3>. QED  BY <3>2
  <2>3. a.docs \subseteq {Profile(q.value)}
    BY <1>3, <1>4, FetchedProfile
  <2>. QED  BY <2>2, <2>3
<1>6. replies' = [replies EXCEPT ![d] = Append(replies[d], a)]
  BY <1>4 DEF Answered
<1>7. ASSUME NEW e \in Devices, NEW j \in DOMAIN replies'[e]
      PROVE  \/ \E k \in DOMAIN replies[e] : replies'[e][j] = replies[e][k]
             \/ /\ \E k \in DOMAIN calls[e] : replies'[e][j].call = calls[e][k]
                /\ replies'[e][j].docs \subseteq {Profile(replies'[e][j].call.value)}
  <2>1. CASE e = d
    <3>1. replies[d] \in Seq(AnswersOf(Profiles, Fetches)) /\ replies'[d] = Append(replies[d], a)
      BY <1>2, <1>6
    <3>2. replies'[d][j] = a \/ \E k \in DOMAIN replies[d] : replies'[d][j] = replies[d][k]
      BY <1>5, <1>7, <2>1, <3>1, AppendElements
    <3>. QED  BY <1>5, <2>1, <3>2
  <2>2. CASE e # d
    BY <1>2, <1>6, <1>7, <2>2
  <2>. QED  BY <2>1, <2>2
<1>8. FetchesTapped'
  BY <1>0, <1>1, <1>7, OldFetches DEF SearchInv
<1>9. ASSUME NEW e \in Devices, NEW x \in Paths
      PROVE  cache'[e][x] = cache[e][x] \/ cache'[e][x] = store[x]
  <2>1. CASE AnswerFromServer(d, i)
    <3>. PICK sent : sent = Matching(store, calls[d][i])
      OBVIOUS
    <3>1. cache' = [cache EXCEPT ![d] =
                      [y \in Paths |-> IF y \in sent THEN store[y] ELSE cache[d][y]]]
      BY <2>1 DEF AnswerFromServer
    <3>. QED  BY <1>2, <3>1
  <2>2. CASE AnswerFromCache(d, i)
    BY <2>2 DEF AnswerFromCache
  <2>. QED  BY <1>0, <2>1, <2>2
<1>10. DocsSound'
  BY <1>0, <1>1, <1>9 DEF SearchInv, DocsSound
<1>11. Fields'
  BY <1>0 DEF SearchInv, Fields, Owners
<1>. QED  BY <1>1, <1>8, <1>10, <1>11 DEF SearchInv

LEMMA SearchStep == SearchInv /\ [Next]_vars => SearchInv'
<1>. SUFFICES ASSUME SearchInv, [Next]_vars PROVE SearchInv'
  OBVIOUS
<1>0. /\ mCurrentUser \in [Pages -> Users \union {null}] /\ shown \in [Pages -> SUBSET Users]
      /\ \A p \in Pages : mCurrentUser[p] \in Owners(p)
  BY DEF SearchInv, Fields
<1>1. ASSUME NEW p \in Pages, OpenTab(p) \/ LeaveTab(p) PROVE SearchInv'
  BY <1>0, <1>1, QuietSearch DEF OpenTab, LeaveTab, InitState, Pop, searchVars
<1>2. ASSUME NEW p \in Pages, FindUser(p) PROVE SearchInv'
  <2>1. Session[Host[p]] \in Users \union {null}
    BY SessionAssumption, HostAssumption
  <2>2. mCurrentUser' = [mCurrentUser EXCEPT ![p] = Session[Host[p]]]
    BY <1>2 DEF FindUser, UserIdFound
  <2>3. /\ mCurrentUser' \in [Pages -> Users \union {null}]
        /\ \A r \in Pages : mCurrentUser'[r] \in Owners(r)
    BY <1>0, <2>1, <2>2 DEF Owners
  <2>. QED  BY <1>0, <1>2, <2>3, QuietSearch DEF FindUser, searchVars
<1>3. ASSUME NEW p \in Pages, NEW name \in Names, Submit(p, name) PROVE SearchInv'
  <2>1. shown' \in [Pages -> SUBSET Users]
    BY <1>0, <1>3 DEF Submit
  <2>. QED  BY <1>0, <1>3, <2>1, QuietSearch DEF Submit, pageVars
<1>4. CASE UNCHANGED vars
  BY <1>0, <1>4, QuietSearch DEF vars, pageVars, searchVars
<1>. QED  BY <1>1, <1>2, <1>3, <1>4, StreamStep, TapStep, FetchStep, ClientStep, AnswerStep DEF Next

\* For any phones, pages and users, however many fetches of a page overlap
\* and whenever the tab is left or the process killed: every friend document
\* in the backend stands on a list of the page's own user (or under null),
\* under a user tapped there, and describes that user or one whose fetch was
\* under way at that tap, never a third one and never a mix of two.
THEOREM TapsAreFiled == Spec => []FiledAsTapped
<1>1. SearchInv => FiledAsTapped
  <2>. SUFFICES ASSUME SearchInv, NEW u \in Users \union {null}, NEW v \in Users, Listed(u, v)
                PROVE  \E p \in Pages, w \in Users :
                          /\ u \in Owners(p) /\ <<w, v>> \in tapped[p]
                          /\ store[FriendPath(u, v)] = Profile(w)
    BY DEF FiledAsTapped
  <2>1. FriendPath(u, v) \in Paths
    BY FriendPaths
  <2>2. Sound(tapped, FriendPath(u, v), store[FriendPath(u, v)])
    BY <2>1 DEF SearchInv, DocsSound, Listed
  <2>3. \A t : FriendPath(u, v) # UserPath(t)
    BY DEF FriendPath, UserPath
  <2>4. ASSUME NEW t, NEW y, FriendPath(u, v) = FriendPath(t, y) PROVE u = t /\ v = y
    BY <2>4 DEF FriendPath
  <2>. QED  BY <2>2, <2>3, <2>4 DEF Sound
<1>. QED  BY <1>1, SearchInit, SearchStep, PTL DEF Spec

=============================================================================
