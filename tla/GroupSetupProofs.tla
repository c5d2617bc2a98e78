-------------------------- MODULE GroupSetupProofs --------------------------
(***************************************************************************)
(* Theorems about GroupSetup, for any number of phones, pages, users,      *)
(* group ids and types.                                                    *)
(***************************************************************************)
EXTENDS GroupSetup, FirestoreProofs

-----------------------------------------------------------------------------
(***************************************************************************)
(* Documents that refer to a group, and the paths at which one is.         *)
(***************************************************************************)

\* The group that doc at path x refers to is at one of the paths in there.
Backed(there, x, doc) ==
    /\ \A u \in Users \union {null} :
          x = CreationPath(u) =>
              u # null /\ doc \in Notes /\ GroupPath(doc.type, doc.id) \in there
    /\ \A u \in Users, g \in GroupIds :
          x = UserGroupPath(u, g) => \E t \in GroupTypes : GroupPath(t, g) \in there
    /\ \A t \in GroupTypes, g \in GroupIds :
          x = MemberPath(t, g) => GroupPath(t, g) \in there

PathsOf(queue) == {queue[j].path : j \in DOMAIN queue}

\* A queue in which the group is there, or comes, before what refers to it.
QueueBacked(there, queue) ==
    \A i \in DOMAIN queue :
        Backed(there \union {queue[j].path : j \in 1 .. i - 1}, queue[i].path, queue[i].data)

\* The paths the backend holds, and those that phone d has or is sending.
Held == {x \in Paths : Present(x)}
Coming(d) == Held \union PathsOf(outbox[d])

(***************************************************************************)
(* NoDanglingGroup is not inductive: the order of the writes is kept by    *)
(* the queues, and Next writes what an answer told the page.  The          *)
(* invariant follows a reference from the write to the answers and the     *)
(* fields it ends up in.                                                   *)
(***************************************************************************)

IdQueries ==
    {Where(p, <<"groups", t, g>>, "groupid", g) :
        p \in GroupPages, t \in GroupTypes, g \in GroupIds}
StatusQueries == {StatusQuery(f, u) : f \in FriendsPages, u \in Users}
SetupQueries == IdQueries \union StatusQueries

SetupTypeOK ==
    /\ FsTypeOK(SetupDocs, SetupQueries)
    /\ PageTypeOK
    /\ groupId \in [GroupPages -> GroupIds \union {null}]
    /\ groupType \in [GroupPages -> GroupTypes]
    /\ groupText \in [GroupPages -> GroupTexts]

\* The form of a page is there only after its user was found, who is
\* somebody; nobody asks for the user of that page again.
UserKnown(p) ==
    /\ p \in asked => life[p] # "unborn"
    /\ userFound[p] => life[p] # "unborn" /\ p \notin asked /\ mCurrentUser[p] \in Users

\* A page of d that has pressed "Create group", or a Friends page of d.
Asker(d, p) ==
    /\ p \in Pages /\ Host[p] = d
    /\ p \in GroupPages => userFound[p] /\ groupId[p] \in GroupIds

AskersInv ==
    \A d \in Devices :
        /\ \A i \in DOMAIN calls[d] : Asker(d, calls[d][i].page)
        /\ \A i \in DOMAIN replies[d] : Asker(d, replies[d][i].call.page)

\* A note whose group phone d has or is sending.
GoodNote(d, note) == note \in Notes /\ GroupPath(note.type, note.id) \in Coming(d)

AnswersInv ==
    \A d \in Devices : \A i \in DOMAIN replies[d] :
        replies[d][i].call \in StatusQueries =>
            \A note \in replies[d][i].docs : GoodNote(d, note)

\* What a Friends page knows of the group.
FieldsOK(f) ==
    \/ type[f] = null /\ group[f] = null
    \/ GoodNote(Host[f], [id |-> group[f], type |-> type[f]])

FieldsInv ==
    /\ DOMAIN type = FriendsPages /\ DOMAIN group = FriendsPages
    /\ \A f \in FriendsPages : FieldsOK(f)

DocsInv ==
    /\ \A d \in Devices : \A i \in 1 .. applied[d] : outbox[d][i].path \in Held
    /\ \A d \in Devices : QueueBacked(Held, outbox[d])
    /\ \A x \in Held : Backed(Held, x, store[x])
    /\ \A d \in Devices : \A x \in Paths :
          cache[d][x] # NoDoc => Backed(Held, x, cache[d][x])

SetupInv ==
    /\ SetupTypeOK
    /\ \A p \in Pages : UserKnown(p)
    /\ AskersInv
    /\ AnswersInv
    /\ FieldsInv
    /\ DocsInv

-----------------------------------------------------------------------------
(***************************************************************************)
(* Paths.                                                                  *)
(***************************************************************************)

LEMMA PathsOfAGroup ==
    ASSUME NEW t \in GroupTypes, NEW g \in GroupIds
    PROVE  /\ GroupPath(t, g) \in Paths /\ MemberPath(t, g) \in Paths
           /\ MemberPath(null, null) \in Paths
           /\ \A u \in Users : UserGroupPath(u, g) \in Paths /\ CreationPath(u) \in Paths
BY SetupAssumption DEF SetupPaths

\* The collections are told apart by their length and their words.
LEMMA CollsDiffer ==
    ASSUME NEW t, NEW g, NEW u, NEW v, NEW h
    PROVE  /\ GroupPath(t, g) # CreationPath(u) /\ GroupPath(t, g) # UserGroupPath(u, h)
           /\ GroupPath(t, g) # MemberPath(v, h)
           /\ CreationPath(u) # UserGroupPath(v, h) /\ CreationPath(u) # MemberPath(v, h)
           /\ UserGroupPath(u, g) # MemberPath(v, h)
           /\ CreationPath(u) = CreationPath(v) => u = v
           /\ UserGroupPath(u, g) = UserGroupPath(v, h) => g = h
           /\ MemberPath(t, g) = MemberPath(v, h) => t = v /\ g = h
<1>1. /\ GroupPath(t, g).coll = <<"groups", t, "groups">>
      /\ UserGroupPath(u, g).coll = <<"users", u, "groups">> /\ UserGroupPath(u, g).id = g
      /\ UserGroupPath(u, h).coll = <<"users", u, "groups">>
      /\ UserGroupPath(v, h).coll = <<"users", v, "groups">> /\ UserGroupPath(v, h).id = h
      /\ CreationPath(u).coll = <<"users", u, "creation">>
      /\ CreationPath(v).coll = <<"users", v, "creation">>
      /\ MemberPath(t, g).coll = <<"groups", t, "groups", g, "members">>
      /\ MemberPath(v, h).coll = <<"groups", v, "groups", h, "members">>
  BY DEF GroupPath, UserGroupPath, CreationPath, MemberPath, MembersColl
<1>2. "users" # "groups" /\ "creation" # "groups"
  OBVIOUS
<1>3. ASSUME NEW a, NEW b, NEW c, NEW a2, NEW b2, NEW c2, <<a, b, c>> = <<a2, b2, c2>>
      PROVE  a = a2 /\ b = b2 /\ c = c2
  BY <1>3
<1>4. ASSUME NEW a, NEW b, NEW c, NEW a2, NEW b2, NEW c2, NEW d2, NEW e2
      PROVE  <<a, b, c>> # <<a2, b2, c2, d2, e2>>
  OBVIOUS
<1>5. ASSUME <<"groups", t, "groups", g, "members">> = <<"groups", v, "groups", h, "members">>
      PROVE  t = v /\ g = h
  BY <1>5
<1>6. GroupPath(t, g) # CreationPath(u) /\ GroupPath(t, g) # UserGroupPath(u, h)
  BY <1>1, <1>2, <1>3
<1>7. CreationPath(u) # UserGroupPath(v, h)
  BY <1>1, <1>2, <1>3
<1>8. /\ GroupPath(t, g) # MemberPath(v, h) /\ CreationPath(u) # MemberPath(v, h)
      /\ UserGroupPath(u, g) # MemberPath(v, h)
  BY <1>1, <1>4
<1>9. /\ CreationPath(u) = CreationPath(v) => u = v
      /\ UserGroupPath(u, g) = UserGroupPath(v, h) => g = h
  BY <1>1, <1>3
<1>10. MemberPath(t, g) = MemberPath(v, h) => t = v /\ g = h
  BY <1>1, <1>5
<1>. QED  BY <1>6, <1>7, <1>8, <1>9, <1>10

\* The one path that a question for the note of u matches.
LEMMA NotePath ==
    ASSUME NEW x \in Paths, NEW u \in Users, x.coll = <<"users", u, "creation">>
    PROVE  x = CreationPath(u)
<1>1. x \in SetupPaths
  BY SetupAssumption
<1>2. ASSUME NEW a, NEW b, NEW c, <<a, b, c>> = <<"users", u, "creation">>
      PROVE  a = "users" /\ b = u /\ c = "creation"
  BY <1>2
<1>3. "users" # "groups" /\ "creation" # "groups"
  OBVIOUS
<1>4. ASSUME NEW t, NEW g PROVE x # GroupPath(t, g)
  BY <1>2, <1>3 DEF GroupPath
<1>5. ASSUME NEW v, NEW g PROVE x # UserGroupPath(v, g)
  BY <1>2, <1>3 DEF UserGroupPath
<1>6. ASSUME NEW t, NEW g PROVE x # MemberPath(t, g)
  BY DEF MemberPath, MembersColl
<1>7. ASSUME NEW v, x = CreationPath(v) PROVE v = u
  BY <1>2, <1>7 DEF CreationPath
<1>. QED  BY <1>1, <1>4, <1>5, <1>6, <1>7 DEF SetupPaths

\* What each of the four kinds of documents needs.
LEMMA Needs ==
    ASSUME NEW there, NEW doc, NEW t, NEW g, NEW u
    PROVE  /\ Backed(there, GroupPath(t, g), doc)
           /\ t \in GroupTypes /\ GroupPath(t, g) \in there
                 => Backed(there, UserGroupPath(u, g), doc)
           /\ u \in Users /\ doc \in Notes /\ GroupPath(doc.type, doc.id) \in there
                 => Backed(there, CreationPath(u), doc)
           /\ GroupPath(t, g) \in there => Backed(there, MemberPath(t, g), doc)
           /\ t \notin GroupTypes => Backed(there, MemberPath(t, g), doc)
<1>1. Backed(there, GroupPath(t, g), doc)
  BY CollsDiffer DEF Backed
<1>2. ASSUME t \in GroupTypes, GroupPath(t, g) \in there
      PROVE  Backed(there, UserGroupPath(u, g), doc)
  BY <1>2, CollsDiffer DEF Backed
<1>3. ASSUME u \in Users, doc \in Notes, GroupPath(doc.type, doc.id) \in there
      PROVE  Backed(there, CreationPath(u), doc)
  BY <1>3, CollsDiffer, NullAssumption DEF Backed
<1>4. ASSUME GroupPath(t, g) \in there \/ t \notin GroupTypes
      PROVE  Backed(there, MemberPath(t, g), doc)
  BY <1>4, CollsDiffer DEF Backed
<1>. QED  BY <1>1, <1>2, <1>3, <1>4

-----------------------------------------------------------------------------
(***************************************************************************)
(* Queues.                                                                 *)
(***************************************************************************)

LEMMA BackedMore ==
    ASSUME NEW there, NEW more, there \subseteq more, NEW x, NEW doc, Backed(there, x, doc)
    PROVE  Backed(more, x, doc)
BY DEF Backed

LEMMA QueueMore ==
    ASSUME NEW there, NEW more, there \subseteq more, NEW queue, QueueBacked(there, queue)
    PROVE  QueueBacked(more, queue)
<1>. SUFFICES ASSUME NEW i \in DOMAIN queue
              PROVE  Backed(more \union {queue[j].path : j \in 1 .. i - 1},
                            queue[i].path, queue[i].data)
  BY DEF QueueBacked
<1>1. Backed(there \union {queue[j].path : j \in 1 .. i - 1}, queue[i].path, queue[i].data)
  BY DEF QueueBacked
<1>. QED  BY <1>1, BackedMore

\* new is queue with one more write, for path x.
Longer(W, there, queue, new, x) ==
    /\ new \in Seq(W) /\ QueueBacked(there, new)
    /\ PathsOf(new) = PathsOf(queue) \union {x}
    /\ Len(new) = Len(queue) + 1
    /\ \A i \in DOMAIN queue : new[i] = queue[i]

\* A write whose group is there, or in the queue, is added.
LEMMA QueueAppend ==
    ASSUME NEW W, NEW queue \in Seq(W), NEW w \in W, NEW there, QueueBacked(there, queue),
           Backed(there \union PathsOf(queue), w.path, w.data)
    PROVE  Longer(W, there, queue, Append(queue, w), w.path)
<1>. PICK new : new = Append(queue, w)
  OBVIOUS
<1>. PICK n : n = Len(queue)
  OBVIOUS
<1>1. /\ n \in Nat /\ DOMAIN queue = 1..n /\ DOMAIN new = 1..(n + 1)
      /\ new \in Seq(W) /\ Len(new) = n + 1
      /\ \A k \in 1..n : new[k] = queue[k]
      /\ new[n + 1] = w
  BY LenProperties, AppendProperties
<1>2. PathsOf(new) = PathsOf(queue) \union {w.path}
  <2>1. ASSUME NEW x \in PathsOf(new) PROVE x \in PathsOf(queue) \union {w.path}
    <3>1. PICK k \in 1..(n + 1) : x = new[k].path
      BY <1>1 DEF PathsOf
    <3>2. CASE k = n + 1
      BY <1>1, <3>1, <3>2
    <3>3. CASE k # n + 1
      <4>1. k \in 1..n
        BY <1>1, <3>3
      <4>. QED  BY <1>1, <3>1, <4>1 DEF PathsOf
    <3>. QED  BY <3>2, <3>3
  <2>2. n + 1 \in 1..(n + 1) /\ \A k \in 1..n : k \in 1..(n + 1)
    BY <1>1
  <2>3. PathsOf(queue) \subseteq PathsOf(new)
    BY <1>1, <2>2 DEF PathsOf
  <2>4. w.path \in PathsOf(new)
    BY <1>1, <2>2 DEF PathsOf
  <2>. QED  BY <2>1, <2>3, <2>4
<1>3. QueueBacked(there, new)
  <2>. SUFFICES ASSUME NEW i \in 1..(n + 1)
                PROVE  Backed(there \union {new[j].path : j \in 1 .. i - 1},
                              new[i].path, new[i].data)
    BY <1>1 DEF QueueBacked
  <2>1. \A j \in 1 .. i - 1 : j \in 1..n /\ new[j] = queue[j]
    BY <1>1
  <2>2. {new[j].path : j \in 1 .. i - 1} = {queue[j].path : j \in 1 .. i - 1}
    BY <2>1
  <2>3. CASE i = n + 1
    <3>1. i - 1 = n
      BY <1>1, <2>3
    <3>2. {queue[j].path : j \in 1 .. i - 1} = PathsOf(queue)
      BY <1>1, <3>1 DEF PathsOf
    <3>. QED  BY <1>1, <2>2, <2>3, <3>2
  <2>4. CASE i # n + 1
    <3>1. i \in 1..n
      BY <1>1, <2>4
    <3>2. new[i] = queue[i]
      BY <1>1, <3>1
    <3>3. Backed(there \union {queue[j].path : j \in 1 .. i - 1}, queue[i].path, queue[i].data)
      BY <1>1, <3>1 DEF QueueBacked
    <3>. QED  BY <2>2, <3>2, <3>3
  <2>. QED  BY <2>3, <2>4
<1>. QED  BY <1>1, <1>2, <1>3 DEF Longer

\* The first n writes, whose paths are there, leave a queue.
LEMMA QueueDrop ==
    ASSUME NEW W, NEW queue \in Seq(W), NEW rest \in Seq(W), NEW n \in Nat, NEW there,
           Len(rest) = Len(queue) - n, QueueBacked(there, queue),
           \A j \in DOMAIN rest : j + n \in DOMAIN queue /\ rest[j] = queue[j + n],
           \A i \in DOMAIN queue : i <= n => queue[i].path \in there
    PROVE  /\ QueueBacked(there, rest)
           /\ PathsOf(queue) \subseteq there \union PathsOf(rest)
<1>1. /\ Len(queue) \in Nat /\ Len(rest) \in Nat
      /\ DOMAIN queue = 1..Len(queue) /\ DOMAIN rest = 1..Len(rest)
  BY LenProperties
<1>2. ASSUME NEW k \in DOMAIN queue, k > n
      PROVE  k - n \in DOMAIN rest /\ rest[k - n] = queue[k]
  <2>1. k - n \in 1..Len(rest) /\ (k - n) + n = k
    BY <1>1, <1>2
  <2>. QED  BY <1>1, <2>1
<1>3. PathsOf(queue) \subseteq there \union PathsOf(rest)
  <2>. SUFFICES ASSUME NEW k \in DOMAIN queue
                PROVE  queue[k].path \in there \union PathsOf(rest)
    BY DEF PathsOf
  <2>1. CASE k <= n
    BY <2>1
  <2>2. CASE k > n
    BY <1>2, <2>2 DEF PathsOf
  <2>. QED  BY <1>1, <2>1, <2>2
<1>4. ASSUME NEW i \in DOMAIN rest
      PROVE  Backed(there \union {rest[j].path : j \in 1 .. i - 1}, rest[i].path, rest[i].data)
  <2>1. i + n \in DOMAIN queue /\ rest[i] = queue[i + n]
    OBVIOUS
  <2>2. Backed(there \union {queue[j].path : j \in 1 .. (i + n) - 1}, rest[i].path, rest[i].data)
    BY <2>1 DEF QueueBacked
  <2>3. ASSUME NEW j \in 1 .. (i + n) - 1
        PROVE  queue[j].path \in there \union {rest[k].path : k \in 1 .. i - 1}
    <3>1. j \in DOMAIN queue
      BY <1>1, <2>1
    <3>2. CASE j <= n
      BY <3>1, <3>2
    <3>3. CASE j > n
      <4>1. j - n \in 1 .. i - 1
        BY <1>1, <3>3
      <4>. QED  BY <1>2, <3>1, <3>3, <4>1
    <3>. QED  BY <1>1, <3>2, <3>3
  <2>. DEFINE old == there \union {queue[j].path : j \in 1 .. (i + n) - 1}
              new == there \union {rest[j].path : j \in 1 .. i - 1}
  <2>4. old \subseteq new
    BY <2>3
  <2>5. Backed(old, rest[i].path, rest[i].data)
    BY <2>2
  <2>6. Backed(new, rest[i].path, rest[i].data)
    <3>. HIDE DEF old, new
    <3>. QED  BY <2>4, <2>5, BackedMore
  <2>. QED  BY <2>6
<1>. QED  BY <1>3, <1>4 DEF QueueBacked

-----------------------------------------------------------------------------
(***************************************************************************)
(* The pages: what is known of a page's user stays so.                     *)
(***************************************************************************)

PagesOK ==
    /\ PageTypeOK
    /\ groupId \in [GroupPages -> GroupIds \union {null}]
    /\ groupType \in [GroupPages -> GroupTypes]
    /\ groupText \in [GroupPages -> GroupTexts]
    /\ \A p \in Pages : UserKnown(p)

\* A page that may get an answer goes on to be one.
PagesStep ==
    /\ PagesOK'
    /\ \A d \in Devices : \A p : Asker(d, p) => Asker(d, p)'

LEMMA SetupInit == Init => SetupInv
<1>. SUFFICES ASSUME Init PROVE SetupInv
  OBVIOUS
<1>1. FsTypeOK(SetupDocs, SetupQueries)
  BY EmptySeq DEF Init, FirestoreInit, FsTypeOK, SendTypeOK
<1>2. SetupTypeOK /\ \A p \in Pages : UserKnown(p)
  BY <1>1, GroupAssumption DEF Init, PageInit, NewGroupInit, SetupTypeOK, PageTypeOK, UserKnown
<1>3. \A d \in Devices : calls[d] = <<>> /\ replies[d] = <<>> /\ outbox[d] = <<>>
                         /\ applied[d] = 0
  BY DEF Init, FirestoreInit
<1>4. AskersInv /\ AnswersInv
  BY <1>3 DEF AskersInv, AnswersInv
<1>5. FieldsInv
  BY DEF Init, FriendsInit, FieldsInv, FieldsOK
<1>6. Held = {} /\ \A d \in Devices, x \in Paths : cache[d][x] = NoDoc
  BY DEF Init, FirestoreInit, Held, Present
<1>7. DocsInv
  <2>1. \A d \in Devices : 1 .. applied[d] = {} /\ DOMAIN outbox[d] = {}
    BY <1>3
  <2>. QED  BY <1>6, <2>1 DEF DocsInv, QueueBacked
<1>. QED  BY <1>2, <1>4, <1>5, <1>7 DEF SetupInv

\* Steps of the users of pages that are no steps of the pages themselves.
LEMMA QuietPages ==
    ASSUME PagesOK, UNCHANGED <<pageVars, groupId, groupType, groupText>>
    PROVE  PagesStep
BY DEF PagesOK, PagesStep, pageVars, PageTypeOK, UserKnown, Asker

LEMMA OpenStep ==
    ASSUME PagesOK, NEW f \in Pages, InitState(f), UNCHANGED <<groupType, groupText>>,
           groupId' \in [GroupPages -> GroupIds \union {null}],
           \A q \in GroupPages : groupId[q] \in GroupIds => groupId'[q] \in GroupIds
    PROVE  PagesStep
<1>1. /\ life[f] = "unborn" /\ life' = [life EXCEPT ![f] = "mounted"]
      /\ asked' = asked \union {f} /\ UNCHANGED <<userFound, mCurrentUser>>
  BY DEF InitState
<1>2. PageTypeOK' /\ \A q \in Pages : UserKnown(q)'
  BY <1>1 DEF PagesOK, PageTypeOK, UserKnown
<1>3. \A d \in Devices : \A q : Asker(d, q) => Asker(d, q)'
  BY <1>1 DEF Asker
<1>. QED  BY <1>2, <1>3 DEF PagesOK, PagesStep

LEMMA FindStep ==
    ASSUME PagesOK, NEW p \in Pages, FindUser(p)
    PROVE  PagesStep
<1>1. /\ p \in asked /\ asked' = asked \ {p} /\ life' = life
      /\ mCurrentUser' = [mCurrentUser EXCEPT ![p] = Session[Host[p]]]
      /\ userFound' = [userFound EXCEPT ![p] = Session[Host[p]] # null]
      /\ UNCHANGED <<groupId, groupType, groupText>>
  BY DEF FindUser, UserIdFound, groupVars
<1>2. /\ userFound \in [Pages -> BOOLEAN] /\ mCurrentUser \in [Pages -> Users \union {null}]
      /\ asked \subseteq Pages /\ Session[Host[p]] \in Users \union {null}
  BY SessionAssumption, HostAssumption DEF PagesOK, PageTypeOK
<1>3. ~userFound[p] /\ life[p] # "unborn"
  BY <1>1 DEF PagesOK, UserKnown
<1>4. PageTypeOK'
  BY <1>1, <1>2 DEF PagesOK, PageTypeOK
<1>5. ASSUME NEW q \in Pages PROVE UserKnown(q)' /\ (userFound[q] => userFound'[q])
  <2>1. CASE q = p
    <3>1. /\ userFound'[p] = (Session[Host[p]] # null)
          /\ mCurrentUser'[p] = Session[Host[p]]
      BY <1>1, <1>2
    <3>. QED  BY <1>1, <1>2, <1>3, <2>1, <3>1 DEF UserKnown
  <2>2. CASE q # p
    <3>1. userFound'[q] = userFound[q] /\ mCurrentUser'[q] = mCurrentUser[q]
      BY <1>1, <1>2, <2>2
    <3>. QED  BY <1>1, <3>1 DEF PagesOK, UserKnown
  <2>. QED  BY <2>1, <2>2
<1>6. \A d \in Devices : \A q : Asker(d, q) => Asker(d, q)'
  BY <1>1, <1>5 DEF Asker
<1>. QED  BY <1>1, <1>4, <1>5, <1>6 DEF PagesOK, PagesStep

\* A page is closed, or all those of a phone are.
LEMMA CloseStep ==
    ASSUME PagesOK, life' \in [Pages -> {"unborn", "mounted", "disposed"}],
           \A q \in Pages : life'[q] = life[q] \/ life'[q] = "disposed",
           asked' \subseteq asked,
           UNCHANGED <<userFound, mCurrentUser, groupId, groupType, groupText>>
    PROVE  PagesStep
BY DEF PagesOK, PagesStep, PageTypeOK, UserKnown, Asker

LEMMA EveryPagesStep ==
    ASSUME SetupInv, [Next]_vars
    PROVE  PagesStep
<1>0. PagesOK
  BY DEF SetupInv, SetupTypeOK, PagesOK
<1>1. ASSUME NEW p \in GroupPages, OpenNewGroup(p) PROVE PagesStep
  <2>1. p \in Pages /\ InitState(p) /\ UNCHANGED <<groupId, groupType, groupText>>
    BY <1>1, SetupAssumption DEF OpenNewGroup, groupVars
  <2>2. groupId \in [GroupPages -> GroupIds \union {null}]
    BY <1>0 DEF PagesOK
  <2>. QED  BY <1>0, <2>1, <2>2, OpenStep
<1>2. ASSUME NEW p \in GroupPages, NEW text \in GroupTexts, NEW t \in GroupTypes,
             Edit(p, text, t)
      PROVE  PagesStep
  <2>1. /\ UNCHANGED <<pageVars, groupId>>
        /\ groupText' = [groupText EXCEPT ![p] = text]
        /\ groupType' = [groupType EXCEPT ![p] = t]
    BY <1>2 DEF Edit, EditGroup
  <2>2. groupText' \in [GroupPages -> GroupTexts] /\ groupType' \in [GroupPages -> GroupTypes]
    BY <1>0, <2>1 DEF PagesOK
  <2>. QED  BY <1>0, <2>1, <2>2 DEF PagesOK, PagesStep, pageVars, PageTypeOK, UserKnown, Asker
<1>3. ASSUME NEW p \in GroupPages, NEW g \in GroupIds, NEW f \in FriendsPages, Create(p, g, f)
      PROVE  PagesStep
  <2>1. /\ f \in Pages /\ InitState(f) /\ UNCHANGED <<groupType, groupText>>
        /\ groupId' = [groupId EXCEPT ![p] = g]
    BY <1>3, SetupAssumption DEF Create, InitHomee, SetGroupId
  <2>2. /\ groupId' \in [GroupPages -> GroupIds \union {null}]
        /\ \A q \in GroupPages : groupId[q] \in GroupIds => groupId'[q] \in GroupIds
    BY <1>0, <2>1 DEF PagesOK
  <2>. QED  BY <1>0, <2>1, <2>2, OpenStep
<1>4. ASSUME NEW p \in Pages, Back(p) PROVE PagesStep
  <2>1. /\ life' = [life EXCEPT ![p] = "disposed"]
        /\ UNCHANGED <<asked, userFound, mCurrentUser, groupId, groupType, groupText>>
    BY <1>4 DEF Back, Pop, groupVars
  <2>2. /\ life' \in [Pages -> {"unborn", "mounted", "disposed"}]
        /\ \A q \in Pages : life'[q] = life[q] \/ life'[q] = "disposed"
    BY <1>0, <2>1 DEF PagesOK, PageTypeOK
  <2>. QED  BY <1>0, <2>1, <2>2, CloseStep
<1>5. ASSUME NEW p \in Pages, FindUser(p) PROVE PagesStep
  BY <1>0, <1>5, FindStep
<1>6. ASSUME NEW d \in Devices, Kill(d) PROVE PagesStep
  <2>1. /\ life' = [p \in Pages |-> IF Host[p] = d /\ life[p] = "mounted"
                                    THEN "disposed" ELSE life[p]]
        /\ asked' \subseteq asked
        /\ UNCHANGED <<userFound, mCurrentUser, groupId, groupType, groupText>>
    BY <1>6 DEF Kill, KillProcess, groupVars
  <2>2. /\ life' \in [Pages -> {"unborn", "mounted", "disposed"}]
        /\ \A q \in Pages : life'[q] = life[q] \/ life'[q] = "disposed"
    BY <1>0, <2>1 DEF PagesOK, PageTypeOK
  <2>. QED  BY <1>0, <2>1, <2>2, CloseStep
<1>7. CASE UNCHANGED <<pageVars, groupVars>>
  BY <1>0, <1>7, QuietPages DEF groupVars
<1>8. \/ UNCHANGED <<pageVars, groupVars>>
      \/ User \/ \E p \in Pages : FindUser(p)
      \/ \E d \in Devices : Kill(d)
  BY DEF Next, Client, Sync, GroupIdAnswer, GroupStatusAnswer, Apply, Ack, Release, Break,
         Answer, vars
<1>9. ASSUME NEW f \in FriendsPages, Tap(f) \/ PressNext(f)
      PROVE  UNCHANGED <<pageVars, groupVars>>
  BY <1>9 DEF Tap, PressNext
<1>. QED  BY <1>1, <1>2, <1>3, <1>4, <1>5, <1>6, <1>7, <1>8, <1>9 DEF User

-----------------------------------------------------------------------------
(***************************************************************************)
(* The documents: what is there, or on its way, never goes.                *)
(***************************************************************************)

Grows == Held \subseteq Held' /\ \A d \in Devices : Coming(d) \subseteq Coming(d)'

\* The backend and the queues stay; a cache may learn what the backend has.
LEMMA QuietDocs ==
    ASSUME DocsInv, UNCHANGED <<store, outbox>>,
           \A d \in Devices : \/ applied'[d] = applied[d]
                              \/ applied[d] \in Nat /\ applied'[d] \in 0 .. applied[d],
           \A d \in Devices, x \in Paths :
              cache'[d][x] = cache[d][x] \/ cache'[d][x] = store[x]
    PROVE  DocsInv' /\ Grows
<1>1. Held' = Held
  BY DEF Held, Present
<1>2. \A d \in Devices : Coming(d)' = Coming(d)
  BY <1>1 DEF Coming, PathsOf
<1>3. ASSUME NEW d \in Devices, NEW x \in Paths, cache'[d][x] # NoDoc
      PROVE  Backed(Held, x, cache'[d][x])
  <2>1. CASE cache'[d][x] = cache[d][x]
    BY <1>3, <2>1 DEF DocsInv
  <2>2. CASE cache'[d][x] = store[x]
    <3>1. x \in Held
      BY <1>3, <2>2 DEF Held, Present
    <3>. QED  BY <2>2, <3>1 DEF DocsInv
  <2>. QED  BY <2>1, <2>2
<1>4. ASSUME NEW d \in Devices, NEW i \in 1 .. applied'[d] PROVE outbox[d][i].path \in Held
  <2>1. i \in 1 .. applied[d]
    OBVIOUS
  <2>. QED  BY <2>1 DEF DocsInv
<1>5. \A d \in Devices : QueueBacked(Held, outbox[d])
  BY DEF DocsInv
<1>6. \A x \in Held : Backed(Held, x, store[x])
  BY DEF DocsInv
<1>7. DocsInv'
  <2>1. \A d \in Devices : QueueBacked(Held', outbox'[d])
    BY <1>1, <1>5
  <2>2. \A x \in Held' : Backed(Held', x, store'[x])
    BY <1>1, <1>6
  <2>3. \A d \in Devices : \A i \in 1 .. applied'[d] : outbox'[d][i].path \in Held'
    BY <1>1, <1>4
  <2>4. \A d \in Devices : \A x \in Paths :
            cache'[d][x] # NoDoc => Backed(Held', x, cache'[d][x])
    BY <1>1, <1>3
  <2>. QED  BY <2>1, <2>2, <2>3, <2>4 DEF DocsInv
<1>. QED  BY <1>1, <1>2, <1>7 DEF Grows

\* Writes are added to a queue.
LEMMA MoreDocs ==
    ASSUME DocsInv, SendTypeOK, NEW W, outbox \in [Devices -> Seq(W)],
           NEW d \in Devices, NEW new \in Seq(W), QueueBacked(Held, new),
           PathsOf(outbox[d]) \subseteq PathsOf(new),
           \A i \in DOMAIN outbox[d] : new[i] = outbox[d][i],
           outbox' = [outbox EXCEPT ![d] = new], UNCHANGED <<store, cache, applied>>
    PROVE  DocsInv' /\ Grows
<1>1. Held' = Held
  BY DEF Held, Present
<1>2. outbox'[d] = new /\ \A e \in Devices : e # d => outbox'[e] = outbox[e]
  OBVIOUS
<1>3. ASSUME NEW e \in Devices
      PROVE  Coming(e) \subseteq Coming(e)' /\ QueueBacked(Held, outbox'[e])
  <2>1. CASE e = d
    <3>1. PathsOf(outbox[d]) \subseteq PathsOf(outbox'[d]) /\ QueueBacked(Held, outbox'[d])
      BY <1>2
    <3>2. Coming(d)' = Held' \union PathsOf(outbox'[d])
      BY DEF Coming, PathsOf
    <3>3. Coming(d) \subseteq Coming(d)'
      BY <1>1, <3>1, <3>2 DEF Coming
    <3>. QED  BY <2>1, <3>1, <3>3
  <2>2. CASE e # d
    BY <1>1, <1>2, <2>2 DEF Coming, PathsOf, DocsInv
  <2>. QED  BY <2>1, <2>2
<1>4. ASSUME NEW e \in Devices, NEW i \in 1 .. applied[e] PROVE outbox'[e][i].path \in Held
  <2>1. outbox[e][i].path \in Held
    BY DEF DocsInv
  <2>2. i \in DOMAIN outbox[e]
    <3>1. /\ applied[e] \in Nat /\ applied[e] <= Len(outbox[e])
          /\ Len(outbox[e]) \in Nat /\ DOMAIN outbox[e] = 1 .. Len(outbox[e])
      BY LenProperties DEF SendTypeOK
    <3>. QED  BY <3>1
  <2>3. outbox'[e][i] = outbox[e][i]
    BY <1>2, <2>2
  <2>. QED  BY <2>1, <2>3
<1>5. DocsInv'
  <2>1. \A e \in Devices : QueueBacked(Held', outbox'[e])
    BY <1>1, <1>3
  <2>2. \A x \in Held' : Backed(Held', x, store'[x])
    BY <1>1 DEF DocsInv
  <2>3. \A e \in Devices : \A i \in 1 .. applied'[e] : outbox'[e][i].path \in Held'
    BY <1>1, <1>4
  <2>4. \A e \in Devices : \A x \in Paths :
            cache'[e][x] # NoDoc => Backed(Held', x, cache'[e][x])
    BY <1>1 DEF DocsInv
  <2>. QED  BY <2>1, <2>2, <2>3, <2>4 DEF DocsInv
<1>. QED  BY <1>1, <1>3, <1>5 DEF Grows

\* Acknowledged writes leave the queue, for the cache or not.
LEMMA DropDocs ==
    ASSUME DocsInv, NEW D, NEW Q, FsTypeOK(D, Q), NEW d \in Devices,
           ReleaseWrite(d) \/ RestartClient(d)
    PROVE  DocsInv' /\ Grows
<1>0. /\ outbox \in [Devices -> Seq(WritesOf(D))] /\ SendTypeOK
      /\ \A w \in WritesOf(D) : w.path \in Paths
      /\ cache \in [Devices -> [Paths -> D \union {NoDoc}]]
  BY DEF FsTypeOK, WritesOf
<1>1. PICK n \in 0 .. acked[d] : Dropped(d, n)
  BY <1>0, DropSteps
<1>2. outbox' \in [Devices -> Seq(WritesOf(D))] /\ SendTypeOK'
  BY <1>0, DropSteps
<1>3. store' = store /\ Held' = Held
  BY <1>1 DEF Dropped, Held, Present
<1>4. n \in 0 .. applied[d] /\ applied[d] \in Nat /\ n \in Nat /\ acked[d] \in Nat
      /\ acked[d] <= applied[d]
  BY <1>0, <1>1 DEF Dropped, SendTypeOK
<1>5. /\ QueueBacked(Held, outbox'[d])
      /\ PathsOf(outbox[d]) \subseteq Held \union PathsOf(outbox'[d])
  <2>. PICK queue : queue = outbox[d]
    OBVIOUS
  <2>. PICK rest : rest = outbox'[d]
    OBVIOUS
  <2>. PICK there : there = Held
    OBVIOUS
  <2>1. queue \in Seq(WritesOf(D)) /\ rest \in Seq(WritesOf(D))
    BY <1>0, <1>2
  <2>2. /\ Len(rest) = Len(queue) - n
        /\ \A j \in DOMAIN rest : j + n \in DOMAIN queue /\ rest[j] = queue[j + n]
    BY <1>1 DEF Dropped
  <2>3. QueueBacked(there, queue)
    BY DEF DocsInv
  <2>4. ASSUME NEW i \in DOMAIN queue, i <= n PROVE queue[i].path \in there
    <3>1. i \in 1 .. Len(queue)
      BY <2>1, LenProperties
    <3>2. i \in 1 .. applied[d]
      BY <1>4, <2>4, <3>1
    <3>. QED  BY <3>2 DEF DocsInv
  <2>. QED  BY <1>4, <2>1, <2>2, <2>3, <2>4, QueueDrop
<1>6. ASSUME NEW e \in Devices
      PROVE  Coming(e) \subseteq Coming(e)' /\ QueueBacked(Held, outbox'[e])
  <2>1. CASE e = d
    BY <1>3, <1>5, <2>1 DEF Coming, PathsOf
  <2>2. CASE e # d
    <3>1. outbox'[e] = outbox[e]
      BY <1>1, <2>2 DEF Dropped
    <3>. QED  BY <1>3, <3>1 DEF Coming, PathsOf, DocsInv
  <2>. QED  BY <2>1, <2>2
<1>7. ASSUME NEW e \in Devices, NEW i \in 1 .. applied'[e] PROVE outbox'[e][i].path \in Held
  <2>1. CASE e # d
    BY <1>1, <1>7, <2>1 DEF Dropped, DocsInv
  <2>2. CASE e = d
    <3>1. applied'[d] + n <= applied[d] /\ applied'[d] \in Nat
          /\ applied'[d] <= Len(outbox'[d])
      BY <1>1, <1>2 DEF Dropped, SendTypeOK
    <3>2. i + n \in 1 .. applied[d]
      BY <1>4, <1>7, <2>2, <3>1
    <3>3. i \in DOMAIN outbox'[d]
      <4>1. outbox'[d] \in Seq(WritesOf(D))
        BY <1>2
      <4>2. DOMAIN outbox'[d] = 1 .. Len(outbox'[d]) /\ Len(outbox'[d]) \in Nat
        BY <4>1, LenProperties
      <4>. QED  BY <1>7, <2>2, <3>1, <4>2
    <3>4. outbox'[d][i] = outbox[d][i + n]
      BY <1>1, <3>3 DEF Dropped
    <3>. QED  BY <2>2, <3>2, <3>4 DEF DocsInv
  <2>. QED  BY <2>1, <2>2
<1>8. ASSUME NEW e \in Devices, NEW x \in Paths, cache'[e][x] # NoDoc
      PROVE  Backed(Held, x, cache'[e][x])
  <2>1. CASE cache'[e][x] = cache[e][x]
    BY <1>8, <2>1 DEF DocsInv
  <2>2. CASE ReleaseWrite(d) /\ cache'[e][x] # cache[e][x]
    <3>. PICK w : w = Head(outbox[d])
      OBVIOUS
    <3>1. cache' = [cache EXCEPT ![d][w.path] = w.data] /\ acked[d] > 0
      BY <2>2 DEF ReleaseWrite
    <3>2. outbox[d] \in Seq(WritesOf(D)) /\ 1 \in 1 .. applied[d] /\ Len(outbox[d]) \in Nat
          /\ DOMAIN outbox[d] = 1 .. Len(outbox[d]) /\ applied[d] <= Len(outbox[d])
      BY <1>0, <1>4, <3>1, LenProperties DEF SendTypeOK
    <3>3. 1 \in DOMAIN outbox[d]
      BY <1>4, <3>2
    <3>4. w = outbox[d][1]
      BY <3>2, <3>3, TailElements
    <3>5. x = w.path /\ cache'[e][x] = w.data
      BY <1>0, <2>2, <3>1
    <3>6. Backed(Held \union {outbox[d][j].path : j \in 1 .. 1 - 1}, w.path, w.data)
      BY <3>3, <3>4 DEF DocsInv, QueueBacked
    <3>7. 1 .. 1 - 1 = {}
      OBVIOUS
    <3>8. Held \union {outbox[d][j].path : j \in 1 .. 1 - 1} = Held
      BY <3>7
    <3>. QED  BY <3>5, <3>6, <3>8
  <2>. QED  BY <2>1, <2>2 DEF RestartClient
<1>9. DocsInv'
  <2>1. \A e \in Devices : QueueBacked(Held', outbox'[e])
    BY <1>3, <1>6
  <2>2. \A x \in Held' : Backed(Held', x, store'[x])
    BY <1>3 DEF DocsInv
  <2>3. \A e \in Devices : \A i \in 1 .. applied'[e] : outbox'[e][i].path \in Held'
    BY <1>3, <1>7
  <2>4. \A e \in Devices : \A x \in Paths :
            cache'[e][x] # NoDoc => Backed(Held', x, cache'[e][x])
    BY <1>3, <1>8
  <2>. QED  BY <2>1, <2>2, <2>3, <2>4 DEF DocsInv
<1>. QED  BY <1>3, <1>6, <1>9 DEF Grows

\* The backend applies the next write of a queue: what that write needs is
\* there, because the writes before it are applied.
LEMMA ApplyDocs ==
    ASSUME DocsInv, FsTypeOK(SetupDocs, SetupQueries), NEW d \in Devices, ApplyWrite(d)
    PROVE  DocsInv' /\ Grows
<1>. PICK n : n = applied[d]
  OBVIOUS
<1>. PICK w : w = outbox[d][n + 1]
  OBVIOUS
<1>1. /\ store \in [Paths -> SetupDocs \union {NoDoc}] /\ SendTypeOK
      /\ outbox[d] \in Seq(WritesOf(SetupDocs))
  BY DEF FsTypeOK
<1>2. /\ n \in Nat /\ n < Len(outbox[d]) /\ Len(outbox[d]) \in Nat
      /\ DOMAIN outbox[d] = 1 .. Len(outbox[d])
  BY <1>1, LenProperties DEF ApplyWrite, SendTypeOK
<1>3. n + 1 \in DOMAIN outbox[d]
  BY <1>2
<1>4. w.path \in Paths /\ w.data \in SetupDocs /\ w.data # NoDoc
  BY <1>3, PendingTypes, SetupDocsAssumption
<1>5. /\ store' = [store EXCEPT ![w.path] = w.data]
      /\ applied' = [applied EXCEPT ![d] = applied[d] + 1]
      /\ UNCHANGED <<cache, outbox>>
  BY DEF ApplyWrite
<1>6. store'[w.path] = w.data /\ \A x \in Paths : x # w.path => store'[x] = store[x]
  BY <1>1, <1>4, <1>5
<1>7. Held' = Held \union {w.path}
  BY <1>4, <1>6 DEF Held, Present
<1>8. Held \subseteq Held' /\ \A e \in Devices : Coming(e) \subseteq Coming(e)'
  BY <1>5, <1>7 DEF Coming, PathsOf
<1>9. Backed(Held, w.path, w.data)
  <2>. DEFINE before == {outbox[d][j].path : j \in 1 .. (n + 1) - 1}
  <2>1. Backed(Held \union before, w.path, w.data)
    BY <1>3 DEF DocsInv, QueueBacked
  <2>2. (n + 1) - 1 = applied[d]
    BY <1>2
  <2>3. before \subseteq Held
    BY <2>2 DEF DocsInv
  <2>. HIDE DEF before
  <2>4. Held \union before = Held
    BY <2>3
  <2>. QED  BY <2>1, <2>4
<1>10. \A e \in Devices : QueueBacked(Held', outbox'[e])
  <2>. PICK more : more = Held'
    OBVIOUS
  <2>1. ASSUME NEW e \in Devices PROVE QueueBacked(more, outbox[e])
    <3>1. QueueBacked(Held, outbox[e]) /\ Held \subseteq more
      BY <1>8 DEF DocsInv
    <3>. QED  BY <3>1, QueueMore
  <2>. QED  BY <1>5, <2>1
<1>11. ASSUME NEW x \in Held' PROVE Backed(Held', x, store'[x])
  <2>. PICK more : more = Held'
    OBVIOUS
  <2>1. Held \subseteq more
    BY <1>8
  <2>2. CASE x = w.path
    <3>1. Backed(more, w.path, w.data)
      BY <1>9, <2>1, BackedMore
    <3>. QED  BY <1>6, <2>2, <3>1
  <2>3. CASE x # w.path
    <3>1. x \in Held /\ x \in Paths
      BY <1>7, <2>3 DEF Held
    <3>2. Backed(Held, x, store[x])
      BY <3>1 DEF DocsInv
    <3>3. Backed(more, x, store[x])
      BY <2>1, <3>2, BackedMore
    <3>. QED  BY <1>6, <2>3, <3>1, <3>3
  <2>. QED  BY <2>2, <2>3
<1>12. ASSUME NEW e \in Devices, NEW i \in 1 .. applied'[e] PROVE outbox'[e][i].path \in Held'
  <2>1. CASE i \in 1 .. applied[e]
    BY <1>5, <1>8, <2>1 DEF DocsInv
  <2>2. CASE i \notin 1 .. applied[e]
    <3>1. e = d
      BY <1>1, <1>5, <2>2 DEF SendTypeOK
    <3>2. applied'[d] = n + 1
      BY <1>1, <1>5 DEF SendTypeOK
    <3>3. i = n + 1
      BY <1>2, <2>2, <3>1, <3>2
    <3>. QED  BY <1>5, <1>7, <3>1, <3>3
  <2>. QED  BY <2>1, <2>2
<1>13. ASSUME NEW e \in Devices, NEW x \in Paths, cache'[e][x] # NoDoc
       PROVE  Backed(Held', x, cache'[e][x])
  <2>. PICK more : more = Held'
    OBVIOUS
  <2>. PICK doc : doc = cache[e][x]
    OBVIOUS
  <2>1. Held \subseteq more /\ Backed(Held, x, doc) /\ cache'[e][x] = doc
    BY <1>5, <1>8, <1>13 DEF DocsInv
  <2>2. Backed(more, x, doc)
    BY <2>1, BackedMore
  <2>. QED  BY <2>1, <2>2
<1>. QED  BY <1>8, <1>10, <1>11, <1>12, <1>13 DEF DocsInv, Grows

-----------------------------------------------------------------------------
(***************************************************************************)
(* The reads and the fields: an answer that was good stays good.           *)
(***************************************************************************)

LEMMA NotesStayGood ==
    ASSUME Grows, NEW d \in Devices, NEW note, GoodNote(d, note)
    PROVE  GoodNote(d, note)'
BY DEF Grows, GoodNote

LEMMA OldReads ==
    ASSUME AskersInv, AnswersInv, PagesStep, Grows,
           \A d \in Devices : CallsAreOld(d) /\ RepliesAreOld(d)
    PROVE  AskersInv' /\ AnswersInv'
<1>1. ASSUME NEW d \in Devices, NEW i \in DOMAIN calls'[d], NEW p, p = calls'[d][i].page
      PROVE  Asker(d, p)'
  <2>1. PICK k \in DOMAIN calls[d] : calls'[d][i] = calls[d][k]
    BY DEF CallsAreOld
  <2>2. Asker(d, p)
    BY <1>1, <2>1 DEF AskersInv
  <2>. QED  BY <2>2 DEF PagesStep
<1>2. ASSUME NEW d \in Devices, NEW i \in DOMAIN replies'[d], NEW r, r = replies'[d][i],
             NEW p, p = r.call.page
      PROVE  /\ Asker(d, p)'
             /\ r.call \in StatusQueries => \A note \in r.docs : GoodNote(d, note)'
  <2>1. PICK k \in DOMAIN replies[d] : r = replies[d][k]
    BY <1>2 DEF RepliesAreOld
  <2>2. Asker(d, p)
    BY <1>2, <2>1 DEF AskersInv
  <2>3. Asker(d, p)'
    BY <2>2 DEF PagesStep
  <2>4. ASSUME r.call \in StatusQueries, NEW note \in r.docs PROVE GoodNote(d, note)'
    <3>1. GoodNote(d, note)
      BY <2>1, <2>4 DEF AnswersInv
    <3>. QED  BY <3>1, NotesStayGood
  <2>. QED  BY <2>3, <2>4
<1>3. AskersInv'
  BY <1>1, <1>2 DEF AskersInv, Asker
<1>4. AnswersInv'
  BY <1>2 DEF AnswersInv, GoodNote
<1>. QED  BY <1>3, <1>4

LEMMA OldFields ==
    ASSUME FieldsInv, Grows, UNCHANGED <<type, group>>
    PROVE  FieldsInv'
<1>. SUFFICES ASSUME NEW f \in FriendsPages PROVE FieldsOK(f)'
  BY DEF FieldsInv
<1>1. FieldsOK(f) /\ f \in Pages /\ Host[f] \in Devices
  BY SetupAssumption, HostAssumption DEF FieldsInv
<1>2. CASE type[f] = null /\ group[f] = null
  BY <1>2 DEF FieldsOK
<1>3. CASE GoodNote(Host[f], [id |-> group[f], type |-> type[f]])
  <2>. PICK note : note = [id |-> group[f], type |-> type[f]]
    OBVIOUS
  <2>1. GoodNote(Host[f], note)'
    BY <1>1, <1>3, NotesStayGood
  <2>. QED  BY <2>1 DEF FieldsOK, GoodNote
<1>. QED  BY <1>1, <1>2, <1>3 DEF FieldsOK

-----------------------------------------------------------------------------
(***************************************************************************)
(* The steps.                                                              *)
(***************************************************************************)

\* Neither a read nor a document is touched.
LEMMA QuietStep ==
    ASSUME SetupInv, PagesStep, UNCHANGED <<fsVars, type, group>>
    PROVE  SetupInv'
<1>1. UNCHANGED <<store, cache, outbox, applied, acked, learnt, calls, replies>>
  BY DEF fsVars, sendVars
<1>2. FsTypeOK(SetupDocs, SetupQueries)'
  BY <1>1 DEF SetupInv, SetupTypeOK, FsTypeOK, SendTypeOK
<1>3. DocsInv' /\ Grows
  <2>1. DocsInv /\ UNCHANGED <<store, outbox>>
    BY <1>1 DEF SetupInv
  <2>2. \A e \in Devices : \/ applied'[e] = applied[e]
                           \/ applied[e] \in Nat /\ applied'[e] \in 0 .. applied[e]
    BY <1>1
  <2>3. \A e \in Devices, x \in Paths :
            cache'[e][x] = cache[e][x] \/ cache'[e][x] = store[x]
    BY <1>1
  <2>. QED  BY <2>1, <2>2, <2>3, QuietDocs
<1>4. AskersInv' /\ AnswersInv'
  BY <1>1, <1>3, OldReads DEF SetupInv, CallsAreOld, RepliesAreOld
<1>5. FieldsInv'
  BY <1>3, OldFields DEF SetupInv
<1>. QED  BY <1>2, <1>3, <1>4, <1>5 DEF SetupInv, SetupTypeOK, PagesStep, PagesOK

\* A page asks.
LEMMA CallStep ==
    ASSUME SetupInv, PagesStep, NEW d \in Devices, NEW q \in SetupQueries,
           NEW p, p = q.page, Asker(d, p)',
           calls' = [calls EXCEPT ![d] = Append(calls[d], q)],
           UNCHANGED <<store, cache, outbox, sendVars, replies, type, group>>
    PROVE  SetupInv'
<1>1. UNCHANGED <<store, cache, outbox, applied, acked, learnt, replies>>
  BY DEF sendVars
<1>2. /\ FsTypeOK(SetupDocs, SetupQueries)
      /\ calls \in [Devices -> Seq(SetupQueries)] /\ calls[d] \in Seq(SetupQueries)
  BY DEF SetupInv, SetupTypeOK, FsTypeOK
<1>. PICK s : s = Append(calls[d], q)
  OBVIOUS
<1>3. /\ s \in Seq(SetupQueries)
      /\ \A j \in DOMAIN s : s[j] = q \/ \E k \in DOMAIN calls[d] : s[j] = calls[d][k]
  BY <1>2, AppendElements
<1>4. /\ calls' \in [Devices -> Seq(SetupQueries)] /\ calls'[d] = s
      /\ \A e \in Devices : e # d => calls'[e] = calls[e]
  BY <1>2, <1>3
<1>5. FsTypeOK(SetupDocs, SetupQueries)'
  BY <1>1, <1>2, <1>4 DEF FsTypeOK, SendTypeOK
<1>6. DocsInv' /\ Grows
  <2>1. DocsInv /\ UNCHANGED <<store, outbox>>
    BY <1>1 DEF SetupInv
  <2>2. \A e \in Devices : \/ applied'[e] = applied[e]
                           \/ applied[e] \in Nat /\ applied'[e] \in 0 .. applied[e]
    BY <1>1
  <2>3. \A e \in Devices, x \in Paths :
            cache'[e][x] = cache[e][x] \/ cache'[e][x] = store[x]
    BY <1>1
  <2>. QED  BY <2>1, <2>2, <2>3, QuietDocs
<1>7. FieldsInv'
  BY <1>6, OldFields DEF SetupInv
<1>8. ASSUME NEW e \in Devices, NEW i \in DOMAIN calls'[e], NEW r, r = calls'[e][i].page
      PROVE  Asker(e, r)'
  <2>1. CASE e = d /\ calls'[e][i] = q
    BY <1>8, <2>1
  <2>2. CASE \E k \in DOMAIN calls[e] : calls'[e][i] = calls[e][k]
    <3>1. Asker(e, r)
      BY <1>8, <2>2 DEF SetupInv, AskersInv
    <3>. QED  BY <3>1 DEF PagesStep
  <2>3. CASE e = d
    BY <1>3, <1>4, <1>8, <2>1, <2>2, <2>3
  <2>4. CASE e # d
    BY <1>4, <1>8, <2>2, <2>4
  <2>. QED  BY <2>3, <2>4
<1>9. ASSUME NEW e \in Devices, NEW i \in DOMAIN replies[e], NEW r, r = replies[e][i].call.page
      PROVE  Asker(e, r)'
  <2>1. Asker(e, r)
    BY <1>9 DEF SetupInv, AskersInv
  <2>. QED  BY <2>1 DEF PagesStep
<1>10. AskersInv'
  BY <1>1, <1>8, <1>9 DEF AskersInv, Asker
<1>11. ASSUME NEW e \in Devices, NEW i \in DOMAIN replies[e],
              replies[e][i].call \in StatusQueries, NEW note \in replies[e][i].docs
       PROVE  GoodNote(e, note)'
  <2>1. GoodNote(e, note)
    BY <1>11 DEF SetupInv, AnswersInv
  <2>. QED  BY <1>6, <2>1, NotesStayGood
<1>12. AnswersInv'
  BY <1>1, <1>11 DEF AnswersInv, GoodNote
<1>. QED  BY <1>5, <1>6, <1>7, <1>10, <1>12 DEF SetupInv, SetupTypeOK, PagesStep, PagesOK

\* A page writes, perhaps in the callback of an answer.
LEMMA WriteStep ==
    ASSUME SetupInv, PagesStep, NEW d \in Devices, NEW new \in Seq(WritesOf(SetupDocs)),
           QueueBacked(Held, new), Len(new) >= Len(outbox[d]),
           PathsOf(outbox[d]) \subseteq PathsOf(new),
           \A i \in DOMAIN outbox[d] : new[i] = outbox[d][i],
           outbox' = [outbox EXCEPT ![d] = new], calls' = calls,
           replies' \in [Devices -> Seq(AnswersOf(SetupDocs, SetupQueries))],
           \A e \in Devices : RepliesAreOld(e),
           UNCHANGED <<store, cache, sendVars, type, group>>
    PROVE  SetupInv'
<1>1. /\ FsTypeOK(SetupDocs, SetupQueries) /\ SendTypeOK /\ DocsInv
      /\ outbox \in [Devices -> Seq(WritesOf(SetupDocs))]
      /\ UNCHANGED <<store, cache, applied>>
  BY DEF SetupInv, SetupTypeOK, FsTypeOK, sendVars
<1>2. DocsInv' /\ Grows
  BY <1>1, MoreDocs
<1>3. SendTypeOK'
  BY <1>1, GrowStep
<1>4. outbox' \in [Devices -> Seq(WritesOf(SetupDocs))]
  BY <1>1
<1>5. FsTypeOK(SetupDocs, SetupQueries)'
  BY <1>1, <1>3, <1>4 DEF FsTypeOK
<1>6. \A e \in Devices : CallsAreOld(e)
  BY DEF CallsAreOld
<1>7. AskersInv' /\ AnswersInv'
  BY <1>2, <1>6, OldReads DEF SetupInv
<1>8. FieldsInv'
  BY <1>2, OldFields DEF SetupInv
<1>. QED  BY <1>2, <1>5, <1>7, <1>8 DEF SetupInv, SetupTypeOK, PagesStep, PagesOK

\* The three writes of SaveGroup.
SaveWrites(p, w1, w2, w3) ==
    /\ w1.path = GroupPath(groupType[p], groupId[p])
    /\ w2.path = UserGroupPath(mCurrentUser[p], groupId[p])
    /\ w3.path = CreationPath(mCurrentUser[p])
    /\ w3.data = [id |-> groupId[p], type |-> groupType[p]]

LEMMA SaveGroupWrites ==
    ASSUME SetupInv, NEW d \in Devices, NEW p \in GroupPages, Asker(d, p), NEW queue
    PROVE  \E w1, w2, w3 \in WritesOf(SetupDocs) :
              /\ SaveGroup(queue, p) = Append(Append(Append(queue, w1), w2), w3)
              /\ SaveWrites(p, w1, w2, w3)
<1>. DEFINE u == mCurrentUser[p]
            g == groupId[p]
            t == groupType[p]
            doc == [groupid |-> g, text |-> groupText[p], host |-> u]
            note == [id |-> g, type |-> t]
            w1 == [path |-> GroupPath(t, g), data |-> doc]
            w2 == [path |-> UserGroupPath(u, g), data |-> doc]
            w3 == [path |-> CreationPath(u), data |-> note]
<1>1. SaveGroup(queue, p) = Append(Append(Append(queue, w1), w2), w3)
  BY DEF SaveGroup, SetData
<1>2. p \in Pages /\ u \in Users /\ g \in GroupIds /\ t \in GroupTypes /\ groupText[p] \in GroupTexts
  BY SetupAssumption DEF SetupInv, SetupTypeOK, Asker, UserKnown
<1>3. /\ GroupPath(t, g) \in Paths /\ UserGroupPath(u, g) \in Paths /\ CreationPath(u) \in Paths
  BY <1>2, PathsOfAGroup
<1>4. doc \in SetupDocs /\ note \in SetupDocs
  BY <1>2 DEF SetupDocs, Groups, Notes
<1>5. /\ w1 \in WritesOf(SetupDocs) /\ w2 \in WritesOf(SetupDocs) /\ w3 \in WritesOf(SetupDocs)
  BY <1>3, <1>4 DEF WritesOf
<1>6. SaveWrites(p, w1, w2, w3)
  BY DEF SaveWrites
<1>. HIDE DEF w1, w2, w3
<1>. QED  BY <1>1, <1>5, <1>6

\* The group comes first.
LEMMA SaveGroupQueue ==
    ASSUME SetupInv, NEW d \in Devices, NEW p \in GroupPages, Asker(d, p)
    PROVE  LET new == SaveGroup(outbox[d], p)
           IN  /\ new \in Seq(WritesOf(SetupDocs))
               /\ QueueBacked(Held, new) /\ Len(new) >= Len(outbox[d])
               /\ PathsOf(outbox[d]) \subseteq PathsOf(new)
               /\ \A i \in DOMAIN outbox[d] : new[i] = outbox[d][i]
<1>. PICK q0 : q0 = outbox[d]
  OBVIOUS
<1>1. PICK w1, w2, w3 \in WritesOf(SetupDocs) :
         /\ SaveGroup(q0, p) = Append(Append(Append(q0, w1), w2), w3)
         /\ SaveWrites(p, w1, w2, w3)
  BY SaveGroupWrites
<1>5. /\ w1 \in WritesOf(SetupDocs) /\ w2 \in WritesOf(SetupDocs) /\ w3 \in WritesOf(SetupDocs)
  OBVIOUS
<1>7. /\ \A there : Backed(there, w1.path, w1.data)
      /\ \A there : w1.path \in there => Backed(there, w2.path, w2.data)
      /\ \A there : w1.path \in there => Backed(there, w3.path, w3.data)
  <2>. PICK u : u = mCurrentUser[p]
    OBVIOUS
  <2>. PICK g : g = groupId[p]
    OBVIOUS
  <2>. PICK t : t = groupType[p]
    OBVIOUS
  <2>1. p \in Pages /\ u \in Users /\ g \in GroupIds /\ t \in GroupTypes
    BY SetupAssumption DEF SetupInv, SetupTypeOK, Asker, UserKnown
  <2>2. /\ w1.path = GroupPath(t, g) /\ w2.path = UserGroupPath(u, g)
        /\ w3.path = CreationPath(u) /\ w3.data = [id |-> g, type |-> t]
    BY <1>1 DEF SaveWrites
  <2>3. w3.data \in Notes /\ w3.data.type = t /\ w3.data.id = g
    BY <2>1, <2>2 DEF Notes
  <2>4. \A there : Backed(there, w1.path, w1.data)
    BY <2>2, Needs
  <2>5. \A there : w1.path \in there => Backed(there, w2.path, w2.data)
    BY <2>1, <2>2, Needs
  <2>6. \A there : w1.path \in there => Backed(there, w3.path, w3.data)
    BY <2>1, <2>2, <2>3, Needs
  <2>. QED  BY <2>4, <2>5, <2>6
<1>8. q0 \in Seq(WritesOf(SetupDocs)) /\ QueueBacked(Held, q0)
  BY DEF SetupInv, SetupTypeOK, FsTypeOK, DocsInv
<1>. PICK q1 : q1 = Append(q0, w1)
  OBVIOUS
<1>. PICK q2 : q2 = Append(q1, w2)
  OBVIOUS
<1>. PICK q3 : q3 = Append(q2, w3)
  OBVIOUS
<1>9. /\ q1 \in Seq(WritesOf(SetupDocs)) /\ QueueBacked(Held, q1)
      /\ PathsOf(q1) = PathsOf(q0) \union {w1.path} /\ Len(q1) = Len(q0) + 1
      /\ \A i \in DOMAIN q0 : q1[i] = q0[i]
  <2>1. /\ q0 \in Seq(WritesOf(SetupDocs)) /\ w1 \in WritesOf(SetupDocs)
        /\ QueueBacked(Held, q0)
        /\ Backed(Held \union PathsOf(q0), w1.path, w1.data)
    BY <1>5, <1>7, <1>8
  <2>2. Longer(WritesOf(SetupDocs), Held, q0, q1, w1.path)
    BY <2>1, QueueAppend
  <2>. QED  BY <2>2 DEF Longer
<1>10. w1.path \in Held \union PathsOf(q1)
  BY <1>9
<1>11. /\ q2 \in Seq(WritesOf(SetupDocs)) /\ QueueBacked(Held, q2)
       /\ PathsOf(q2) = PathsOf(q1) \union {w2.path} /\ Len(q2) = Len(q1) + 1
       /\ \A i \in DOMAIN q1 : q2[i] = q1[i]
  <2>1. /\ q1 \in Seq(WritesOf(SetupDocs)) /\ w2 \in WritesOf(SetupDocs)
        /\ QueueBacked(Held, q1)
        /\ Backed(Held \union PathsOf(q1), w2.path, w2.data)
    BY <1>5, <1>7, <1>9, <1>10
  <2>2. Longer(WritesOf(SetupDocs), Held, q1, q2, w2.path)
    BY <2>1, QueueAppend
  <2>. QED  BY <2>2 DEF Longer
<1>12. w1.path \in Held \union PathsOf(q2)
  BY <1>9, <1>11
<1>13. /\ q3 \in Seq(WritesOf(SetupDocs)) /\ QueueBacked(Held, q3)
       /\ PathsOf(q3) = PathsOf(q2) \union {w3.path} /\ Len(q3) = Len(q2) + 1
       /\ \A i \in DOMAIN q2 : q3[i] = q2[i]
  <2>1. /\ q2 \in Seq(WritesOf(SetupDocs)) /\ w3 \in WritesOf(SetupDocs)
        /\ QueueBacked(Held, q2)
        /\ Backed(Held \union PathsOf(q2), w3.path, w3.data)
    BY <1>5, <1>7, <1>11, <1>12
  <2>2. Longer(WritesOf(SetupDocs), Held, q2, q3, w3.path)
    BY <2>1, QueueAppend
  <2>. QED  BY <2>2 DEF Longer
<1>14. /\ Len(q0) \in Nat /\ DOMAIN q0 = 1 .. Len(q0) /\ DOMAIN q1 = 1 .. Len(q1)
       /\ DOMAIN q2 = 1 .. Len(q2)
  BY <1>8, <1>9, <1>11, LenProperties
<1>15. Len(q3) >= Len(q0) /\ \A i \in DOMAIN q0 : i \in DOMAIN q1 /\ i \in DOMAIN q2
  BY <1>9, <1>11, <1>13, <1>14
<1>16. \A i \in DOMAIN q0 : q3[i] = q0[i]
  BY <1>9, <1>11, <1>13, <1>15
<1>17. PathsOf(q0) \subseteq PathsOf(q3)
  BY <1>9, <1>11, <1>13
<1>18. SaveGroup(outbox[d], p) = q3
  BY <1>1
<1>. QED  BY <1>13, <1>15, <1>16, <1>17, <1>18

\* The head of the answers of d, once it is delivered.
LEMMA HeadAnswer ==
    ASSUME SetupInv, NEW d \in Devices, replies[d] # <<>>, Deliver(d, <<>>),
           NEW r, r = Head(replies[d])
    PROVE  /\ r \in AnswersOf(SetupDocs, SetupQueries) /\ Asker(d, r.call.page)
           /\ r.call \in StatusQueries => \A note \in r.docs : GoodNote(d, note)
           /\ calls' = calls /\ \A e \in Devices : RepliesAreOld(e)
           /\ replies' \in [Devices -> Seq(AnswersOf(SetupDocs, SetupQueries))]
<1>1. /\ r \in AnswersOf(SetupDocs, SetupQueries)
      /\ 1 \in DOMAIN replies[d] /\ r = replies[d][1]
      /\ calls' = calls /\ \A e \in Devices : RepliesAreOld(e)
      /\ replies' \in [Devices -> Seq(AnswersOf(SetupDocs, SetupQueries))]
  BY DeliverTypes DEF SetupInv, SetupTypeOK
<1>. QED  BY <1>1 DEF SetupInv, AskersInv, AnswersInv

LEMMA GroupIdAnswerStep ==
    ASSUME SetupInv, PagesStep, NEW d \in Devices, GroupIdAnswer(d)
    PROVE  SetupInv'
<1>. PICK r : r = Head(replies[d])
  OBVIOUS
<1>. PICK p : p = r.call.page
  OBVIOUS
<1>1. /\ replies[d] # <<>> /\ p \in GroupPages /\ Deliver(d, <<>>)
      /\ outbox' = outbox \/ outbox' = [outbox EXCEPT ![d] = SaveGroup(outbox[d], p)]
      /\ UNCHANGED <<store, cache, sendVars, type, group>>
  BY DEF GroupIdAnswer, friendsVars
<1>2. /\ Asker(d, p) /\ calls' = calls /\ \A e \in Devices : RepliesAreOld(e)
      /\ replies' \in [Devices -> Seq(AnswersOf(SetupDocs, SetupQueries))]
  BY <1>1, HeadAnswer
<1>. PICK old : old = outbox[d]
  OBVIOUS
<1>3. CASE outbox' = [outbox EXCEPT ![d] = SaveGroup(outbox[d], p)]
  <2>. PICK new : new = SaveGroup(outbox[d], p)
    OBVIOUS
  <2>1. /\ new \in Seq(WritesOf(SetupDocs))
        /\ QueueBacked(Held, new) /\ Len(new) >= Len(outbox[d])
        /\ PathsOf(outbox[d]) \subseteq PathsOf(new)
        /\ \A i \in DOMAIN outbox[d] : new[i] = outbox[d][i]
    BY <1>1, <1>2, SaveGroupQueue
  <2>. QED  BY <1>1, <1>2, <1>3, <2>1, WriteStep
<1>4. CASE outbox' = outbox
  <2>1. outbox \in [Devices -> Seq(WritesOf(SetupDocs))]
    BY DEF SetupInv, SetupTypeOK, FsTypeOK
  <2>2. /\ old \in Seq(WritesOf(SetupDocs)) /\ QueueBacked(Held, old)
        /\ outbox' = [outbox EXCEPT ![d] = old]
    BY <1>4, <2>1 DEF SetupInv, DocsInv
  <2>3. Len(old) >= Len(outbox[d])
    BY <2>2, LenProperties
  <2>. QED  BY <1>1, <1>2, <2>2, <2>3, WriteStep
<1>. QED  BY <1>1, <1>3, <1>4

\* The write of Next.
MemberWrite(f) == [path |-> MemberPath(type[f], group[f]), data |-> <<>>]

LEMMA MemberNeeds ==
    ASSUME SetupInv, NEW f \in FriendsPages, NEW w, w = MemberWrite(f)
    PROVE  /\ w \in WritesOf(SetupDocs) /\ w.path = MemberPath(type[f], group[f])
           /\ Backed(Held \union PathsOf(outbox[Host[f]]), w.path, w.data)
<1>. PICK t : t = type[f]
  OBVIOUS
<1>. PICK g : g = group[f]
  OBVIOUS
<1>. PICK there : there = Held \union PathsOf(outbox[Host[f]])
  OBVIOUS
<1>1. FieldsOK(f)
  BY DEF SetupInv, FieldsInv
<1>2. \/ t = null /\ g = null
      \/ t \in GroupTypes /\ g \in GroupIds /\ GroupPath(t, g) \in there
  BY <1>1 DEF FieldsOK, GoodNote, Notes, Coming
<1>3. MemberPath(t, g) \in Paths /\ Backed(there, MemberPath(t, g), <<>>)
  <2>1. CASE t = null /\ g = null
    <3>1. t \notin GroupTypes /\ MemberPath(t, g) \in Paths
      BY <2>1, SetupDocsAssumption, SetupAssumption DEF SetupPaths
    <3>. QED  BY <3>1, Needs
  <2>2. CASE t \in GroupTypes /\ g \in GroupIds /\ GroupPath(t, g) \in there
    BY <2>2, Needs, PathsOfAGroup
  <2>. QED  BY <1>2, <2>1, <2>2
<1>4. w.path = MemberPath(t, g) /\ w.data = <<>>
  BY DEF MemberWrite
<1>5. w \in WritesOf(SetupDocs)
  BY <1>3 DEF MemberWrite, WritesOf, SetupDocs
<1>. QED  BY <1>3, <1>4, <1>5

LEMMA PressNextStep ==
    ASSUME SetupInv, PagesStep, NEW f \in FriendsPages, PressNext(f)
    PROVE  SetupInv'
<1>. PICK d : d = Host[f]
  OBVIOUS
<1>. PICK w : w = MemberWrite(f)
  OBVIOUS
<1>. PICK new : new = Append(outbox[d], w)
  OBVIOUS
<1>1. /\ outbox' = [outbox EXCEPT ![d] = new]
      /\ UNCHANGED <<store, cache, sendVars, calls, replies, type, group>>
  BY DEF PressNext, AddToFireStore, SetData, MemberWrite
<1>2. d \in Devices
  BY SetupAssumption, HostAssumption
<1>4. w \in WritesOf(SetupDocs) /\ Backed(Held \union PathsOf(outbox[d]), w.path, w.data)
  BY MemberNeeds
<1>6. /\ outbox[d] \in Seq(WritesOf(SetupDocs)) /\ QueueBacked(Held, outbox[d])
      /\ replies \in [Devices -> Seq(AnswersOf(SetupDocs, SetupQueries))]
  BY <1>2 DEF SetupInv, SetupTypeOK, FsTypeOK, DocsInv
<1>7. /\ new \in Seq(WritesOf(SetupDocs)) /\ QueueBacked(Held, new)
      /\ PathsOf(outbox[d]) \subseteq PathsOf(new) /\ Len(new) = Len(outbox[d]) + 1
      /\ \A i \in DOMAIN outbox[d] : new[i] = outbox[d][i]
  <2>. PICK old : old = outbox[d]
    OBVIOUS
  <2>1. /\ old \in Seq(WritesOf(SetupDocs)) /\ w \in WritesOf(SetupDocs)
        /\ QueueBacked(Held, old) /\ Backed(Held \union PathsOf(old), w.path, w.data)
    BY <1>4, <1>6
  <2>2. Longer(WritesOf(SetupDocs), Held, old, new, w.path)
    BY <2>1, QueueAppend
  <2>. QED  BY <2>2 DEF Longer
<1>8. Len(new) >= Len(outbox[d])
  BY <1>6, <1>7, LenProperties
<1>9. \A e \in Devices : RepliesAreOld(e)
  BY <1>1 DEF RepliesAreOld
<1>. QED  BY <1>1, <1>2, <1>6, <1>7, <1>8, <1>9, WriteStep

\* A question for a note is answered with a note whose group is there or on
\* its way, from whatever base of backed documents the answer is computed.
LEMMA StatusDocs ==
    ASSUME SetupInv, NEW d \in Devices, NEW base,
           \A x \in Paths : base[x] # NoDoc => Backed(Held, x, base[x]),
           NEW q \in StatusQueries, NEW note \in Snapshot(LocalView(base, outbox[d]), q).docs
    PROVE  GoodNote(d, note)
<1>. PICK queue : queue = outbox[d]
  OBVIOUS
<1>1. PICK f \in FriendsPages, u \in Users : q = StatusQuery(f, u)
  BY DEF StatusQueries
<1>2. q.coll = <<"users", u, "creation">>
  BY <1>1 DEF StatusQuery, Get, Where
<1>3. PICK x \in Paths : /\ x.coll = q.coll /\ note = LocalDocument(base, queue, x)
                         /\ LocalDocument(base, queue, x) # NoDoc
  BY DEF Snapshot, Matching, LocalView
<1>4. x = CreationPath(u)
  BY <1>2, <1>3, NotePath
<1>5. queue \in Seq(WritesOf(SetupDocs)) /\ QueueBacked(Held, queue)
  BY DEF SetupInv, SetupTypeOK, FsTypeOK, DocsInv
<1>6. ASSUME NEW there, there \subseteq Coming(d), Backed(there, x, note)
      PROVE  GoodNote(d, note)
  BY <1>4, <1>6 DEF Backed, GoodNote
<1>7. Held \subseteq Coming(d) /\ PathsOf(queue) \subseteq Coming(d)
  BY DEF Coming
<1>8. CASE note = base[x]
  <2>1. Backed(Held, x, note)
    BY <1>3, <1>8
  <2>. QED  BY <1>6, <1>7, <2>1
<1>9. ASSUME NEW i \in DOMAIN queue, queue[i].path = x, note = queue[i].data
      PROVE  GoodNote(d, note)
  <2>. DEFINE before == {queue[j].path : j \in 1 .. i - 1}
  <2>1. Backed(Held \union before, x, note)
    BY <1>5, <1>9 DEF QueueBacked
  <2>2. DOMAIN queue = 1 .. Len(queue) /\ Len(queue) \in Nat
    BY <1>5, LenProperties
  <2>3. \A j \in 1 .. i - 1 : j \in DOMAIN queue
    BY <2>2
  <2>4. before \subseteq PathsOf(queue)
    BY <2>3 DEF PathsOf
  <2>. HIDE DEF before
  <2>5. Held \union before \subseteq Coming(d)
    BY <1>7, <2>4
  <2>. QED  BY <1>6, <2>1, <2>5
<1>. QED  BY <1>3, <1>5, <1>8, <1>9, LocalDocumentCases

LEMMA AnswerStep ==
    ASSUME SetupInv, PagesStep, NEW d \in Devices, NEW i \in DOMAIN calls[d], Answer(d, i)
    PROVE  SetupInv'
<1>. PICK q : q = calls[d][i]
  OBVIOUS
<1>0. /\ FsTypeOK(SetupDocs, SetupQueries) /\ DocsInv /\ UNCHANGED <<type, group>>
      /\ AnswerFromServer(d, i) \/ AnswerFromCache(d, i)
  BY DEF SetupInv, SetupTypeOK, Answer, friendsVars
<1>1. /\ FsTypeOK(SetupDocs, SetupQueries)' /\ UNCHANGED <<store, outbox, applied>>
      /\ \A e \in Devices : CallsAreOld(e)
      /\ \A e \in Devices : \A j \in DOMAIN replies'[e] :
            \/ \E k \in DOMAIN replies[e] : replies'[e][j] = replies[e][k]
            \/ \E k \in DOMAIN calls[e] : replies'[e][j].call = calls[e][k]
  BY <1>0, AnswerTypes
<1>2. PICK a : /\ replies' = [replies EXCEPT ![d] = Append(replies[d], a)]
               /\ a.call \in StatusQueries => \A note \in a.docs : GoodNote(d, note)
  <2>1. CASE AnswerFromServer(d, i)
    <3>. PICK a : a = Snapshot(LocalView(store, outbox[d]), q)
      OBVIOUS
    <3>1. replies' = [replies EXCEPT ![d] = Append(replies[d], a)] /\ a.call = q
      BY <2>1 DEF AnswerFromServer, Answered, Snapshot
    <3>2. \A x \in Paths : store[x] # NoDoc => Backed(Held, x, store[x])
      BY <1>0 DEF DocsInv, Held, Present
    <3>3. ASSUME q \in StatusQueries, NEW note \in a.docs PROVE GoodNote(d, note)
      BY <3>2, <3>3, StatusDocs
    <3>. QED  BY <3>1, <3>3
  <2>2. CASE AnswerFromCache(d, i)
    <3>. PICK base : base = cache[d]
      OBVIOUS
    <3>. PICK a : a = Snapshot(LocalView(base, outbox[d]), q)
      OBVIOUS
    <3>1. replies' = [replies EXCEPT ![d] = Append(replies[d], a)] /\ a.call = q
      BY <2>2 DEF AnswerFromCache, Answered, Snapshot
    <3>2. \A x \in Paths : base[x] # NoDoc => Backed(Held, x, base[x])
      BY <1>0 DEF DocsInv
    <3>3. ASSUME q \in StatusQueries, NEW note \in a.docs PROVE GoodNote(d, note)
      BY <3>2, <3>3, StatusDocs
    <3>. QED  BY <3>1, <3>3
  <2>. QED  BY <1>0, <2>1, <2>2
<1>3. DocsInv' /\ Grows
  <2>1. ASSUME NEW e \in Devices, NEW x \in Paths
        PROVE  cache'[e][x] = cache[e][x] \/ cache'[e][x] = store[x]
    <3>1. cache \in [Devices -> [Paths -> SetupDocs \union {NoDoc}]]
      BY <1>0 DEF FsTypeOK
    <3>2. CASE AnswerFromServer(d, i)
      <4>1. PICK sent : cache' = [cache EXCEPT ![d] =
                           [y \in Paths |-> IF y \in sent THEN store[y] ELSE cache[d][y]]]
        BY <3>2 DEF AnswerFromServer
      <4>. QED  BY <3>1, <4>1
    <3>3. CASE AnswerFromCache(d, i)
      BY <3>3 DEF AnswerFromCache
    <3>. QED  BY <1>0, <3>2, <3>3
  <2>2. \A e \in Devices : \/ applied'[e] = applied[e]
                           \/ applied[e] \in Nat /\ applied'[e] \in 0 .. applied[e]
    BY <1>1
  <2>3. DocsInv /\ UNCHANGED <<store, outbox>>
    BY <1>0, <1>1
  <2>. QED  BY <2>1, <2>2, <2>3, QuietDocs
<1>4. FieldsInv'
  BY <1>0, <1>3, OldFields DEF SetupInv
<1>5. ASSUME NEW e \in Devices, NEW j \in DOMAIN calls'[e], NEW p, p = calls'[e][j].page
      PROVE  Asker(e, p)'
  <2>1. PICK k \in DOMAIN calls[e] : calls'[e][j] = calls[e][k]
    BY <1>1 DEF CallsAreOld
  <2>2. Asker(e, p)
    BY <1>5, <2>1 DEF SetupInv, AskersInv
  <2>. QED  BY <2>2 DEF PagesStep
<1>6. ASSUME NEW e \in Devices, NEW j \in DOMAIN replies'[e], NEW p,
             p = replies'[e][j].call.page
      PROVE  Asker(e, p)'
  <2>1. Asker(e, p)
    BY <1>1, <1>6 DEF SetupInv, AskersInv
  <2>. QED  BY <2>1 DEF PagesStep
<1>7. AskersInv'
  BY <1>5, <1>6 DEF AskersInv, Asker
<1>8. ASSUME NEW e \in Devices, NEW j \in DOMAIN replies'[e], NEW r, r = replies'[e][j],
             r.call \in StatusQueries, NEW note \in r.docs
      PROVE  GoodNote(e, note)'
  <2>1. (e = d /\ r = a) \/ \E k \in DOMAIN replies[e] : r = replies[e][k]
    <3>. PICK S : S = AnswersOf(SetupDocs, SetupQueries)
      OBVIOUS
    <3>0. replies \in [Devices -> Seq(S)] /\ replies' \in [Devices -> Seq(S)]
      BY <1>0, <1>1 DEF FsTypeOK
    <3>1. CASE e # d
      BY <1>2, <1>8, <3>0, <3>1
    <3>2. CASE e = d
      <4>. PICK s : s = replies[d]
        OBVIOUS
      <4>1. s \in Seq(S) /\ replies'[d] = Append(s, a)
        BY <1>2, <3>0
      <4>2. /\ Len(s) \in Nat /\ DOMAIN s = 1 .. Len(s)
            /\ DOMAIN Append(s, a) = 1 .. (Len(s) + 1)
            /\ \A k \in 1 .. Len(s) : Append(s, a)[k] = s[k]
            /\ Append(s, a)[Len(s) + 1] = a
        BY <4>1, LenProperties
      <4>. QED  BY <1>8, <3>2, <4>1, <4>2
    <3>. QED  BY <3>1, <3>2
  <2>2. GoodNote(e, note)
    BY <1>2, <1>8, <2>1 DEF SetupInv, AnswersInv
  <2>. QED  BY <1>3, <2>2, NotesStayGood
<1>9. AnswersInv'
  BY <1>8 DEF AnswersInv, GoodNote
<1>. QED  BY <1>1, <1>3, <1>4, <1>7, <1>9 DEF SetupInv, SetupTypeOK, PagesStep, PagesOK

\* A write on its way, and a kill.
LEMMA SyncStep ==
    ASSUME SetupInv, PagesStep, NEW d \in Devices, Sync(d) \/ Kill(d)
    PROVE  SetupInv'
<1>0. /\ FsTypeOK(SetupDocs, SetupQueries) /\ DocsInv /\ SendTypeOK /\ UNCHANGED <<type, group>>
      /\ outbox \in [Devices -> Seq(WritesOf(SetupDocs))]
  BY DEF SetupInv, SetupTypeOK, FsTypeOK, Sync, Apply, Ack, Release, Break, Kill, friendsVars
<1>1. ApplyWrite(d) \/ AckWrite(d) \/ ReleaseWrite(d) \/ BreakStream(d) \/ RestartClient(d)
  BY DEF Sync, Apply, Ack, Release, Break, Kill, KillProcess
<1>2. /\ FsTypeOK(SetupDocs, SetupQueries)'
      /\ \A e \in Devices : CallsAreOld(e) /\ RepliesAreOld(e)
  <2>1. CASE RestartClient(d)
    BY <1>0, <2>1, RestartTypes
  <2>2. CASE ApplyWrite(d) \/ AckWrite(d) \/ ReleaseWrite(d) \/ BreakStream(d)
    BY <1>0, <2>2, SyncTypes DEF CallsAreOld, RepliesAreOld
  <2>. QED  BY <1>1, <2>1, <2>2
<1>3. DocsInv' /\ Grows
  <2>1. CASE ApplyWrite(d)
    BY <1>0, <2>1, ApplyDocs
  <2>2. CASE ReleaseWrite(d) \/ RestartClient(d)
    BY <1>0, <2>2, DropDocs
  <2>3. CASE AckWrite(d) \/ BreakStream(d)
    <3>1. UNCHANGED <<store, outbox>> /\ UNCHANGED cache
      BY <2>3 DEF AckWrite, BreakStream
    <3>2. \A e \in Devices, x \in Paths :
              cache'[e][x] = cache[e][x] \/ cache'[e][x] = store[x]
      BY <3>1
    <3>3. \A e \in Devices : \/ applied'[e] = applied[e]
                             \/ applied[e] \in Nat /\ applied'[e] \in 0 .. applied[e]
      <4>1. CASE AckWrite(d)
        BY <4>1 DEF AckWrite
      <4>2. CASE BreakStream(d)
        BY <1>0, <4>2 DEF BreakStream, SendTypeOK
      <4>. QED  BY <2>3, <4>1, <4>2
    <3>. QED  BY <1>0, <3>1, <3>2, <3>3, QuietDocs
  <2>. QED  BY <1>1, <2>1, <2>2, <2>3
<1>4. AskersInv' /\ AnswersInv'
  BY <1>2, <1>3, OldReads DEF SetupInv
<1>5. FieldsInv'
  BY <1>0, <1>3, OldFields DEF SetupInv
<1>. QED  BY <1>2, <1>3, <1>4, <1>5 DEF SetupInv, SetupTypeOK, PagesStep, PagesOK

\* The answer of getGroupStatus: the page takes the group from a good note.
LEMMA GroupStatusStep ==
    ASSUME SetupInv, PagesStep, NEW d \in Devices, GroupStatusAnswer(d)
    PROVE  SetupInv'
<1>. PICK r : r = Head(replies[d])
  OBVIOUS
<1>. PICK f : f = r.call.page
  OBVIOUS
<1>1. /\ replies[d] # <<>> /\ f \in FriendsPages /\ GroupStatus(f, r) /\ Deliver(d, <<>>)
      /\ UNCHANGED <<store, cache, outbox, sendVars>>
  BY DEF GroupStatusAnswer
<1>2. /\ r \in AnswersOf(SetupDocs, SetupQueries) /\ Asker(d, f)
      /\ r.call \in StatusQueries => \A note \in r.docs : GoodNote(d, note)
      /\ calls' = calls /\ \A e \in Devices : RepliesAreOld(e)
      /\ replies' \in [Devices -> Seq(AnswersOf(SetupDocs, SetupQueries))]
  BY <1>1, HeadAnswer
<1>3. r.call \in StatusQueries
  <2>1. r.call \in SetupQueries
    BY <1>2 DEF AnswersOf
  <2>2. r.call \notin IdQueries
    BY <1>1, SetupAssumption DEF IdQueries, Where
  <2>. QED  BY <2>1, <2>2 DEF SetupQueries
<1>4. UNCHANGED <<store, cache, outbox, applied, acked, learnt>>
  BY <1>1 DEF sendVars
<1>5. FsTypeOK(SetupDocs, SetupQueries)'
  BY <1>2, <1>4 DEF SetupInv, SetupTypeOK, FsTypeOK, SendTypeOK
<1>6. DocsInv' /\ Grows
  <2>1. DocsInv /\ UNCHANGED <<store, outbox>>
    BY <1>4 DEF SetupInv
  <2>2. \A e \in Devices : \/ applied'[e] = applied[e]
                           \/ applied[e] \in Nat /\ applied'[e] \in 0 .. applied[e]
    BY <1>4
  <2>3. \A e \in Devices, x \in Paths :
            cache'[e][x] = cache[e][x] \/ cache'[e][x] = store[x]
    BY <1>4
  <2>. QED  BY <2>1, <2>2, <2>3, QuietDocs
<1>7. \A e \in Devices : CallsAreOld(e)
  BY <1>2 DEF CallsAreOld
<1>8. AskersInv' /\ AnswersInv'
  BY <1>2, <1>6, <1>7, OldReads DEF SetupInv
<1>9. FieldsInv'
  <2>1. CASE UNCHANGED <<type, group>>
    BY <1>6, <2>1, OldFields DEF SetupInv
  <2>2. ASSUME NEW note \in r.docs,
               group' = [group EXCEPT ![f] = note.id],
               type' = [type EXCEPT ![f] = note.type]
        PROVE  FieldsInv'
    <3>1. DOMAIN type = FriendsPages /\ DOMAIN group = FriendsPages
      BY DEF SetupInv, FieldsInv
    <3>2. DOMAIN type' = FriendsPages /\ DOMAIN group' = FriendsPages
      BY <2>2, <3>1
    <3>3. GoodNote(d, note)' /\ Host[f] = d /\ note \in Notes
      BY <1>2, <1>3, <1>6, NotesStayGood DEF GoodNote, Asker
    <3>4. ASSUME NEW h \in FriendsPages PROVE FieldsOK(h)'
      <4>1. CASE h = f
        <5>1. type'[f] = note.type /\ group'[f] = note.id
          BY <1>1, <2>2, <3>1
        <5>2. note = [id |-> note.id, type |-> note.type]
          BY <3>3 DEF Notes
        <5>. QED  BY <3>3, <4>1, <5>1, <5>2 DEF FieldsOK, GoodNote
      <4>2. CASE h # f
        <5>1. type'[h] = type[h] /\ group'[h] = group[h]
          BY <2>2, <3>1, <4>2
        <5>2. FieldsOK(h) /\ Host[h] \in Devices
          BY SetupAssumption, HostAssumption DEF SetupInv, FieldsInv
        <5>3. CASE type[h] = null /\ group[h] = null
          BY <5>1, <5>3 DEF FieldsOK
        <5>4. CASE GoodNote(Host[h], [id |-> group[h], type |-> type[h]])
          <6>. PICK old : old = [id |-> group[h], type |-> type[h]]
            OBVIOUS
          <6>1. GoodNote(Host[h], old)'
            BY <1>6, <5>2, <5>4, NotesStayGood
          <6>. QED  BY <5>1, <6>1 DEF FieldsOK, GoodNote
        <5>. QED  BY <5>2, <5>3, <5>4 DEF FieldsOK
      <4>. QED  BY <4>1, <4>2
    <3>. QED  BY <3>2, <3>4 DEF FieldsInv
  <2>3. \/ UNCHANGED <<type, group>>
        \/ \E note \in r.docs : /\ group' = [group EXCEPT ![f] = note.id]
                                /\ type' = [type EXCEPT ![f] = note.type]
    BY <1>1 DEF GroupStatus, friendsVars
  <2>. QED  BY <2>1, <2>2, <2>3
<1>. QED  BY <1>5, <1>6, <1>8, <1>9 DEF SetupInv, SetupTypeOK, PagesStep, PagesOK

LEMMA CreateStep ==
    ASSUME SetupInv, PagesStep, NEW p \in GroupPages, NEW g \in GroupIds,
           NEW f \in FriendsPages, Create(p, g, f)
    PROVE  SetupInv'
<1>. PICK d : d = Host[p]
  OBVIOUS
<1>. PICK q : q = GroupIdQuery(p, g)
  OBVIOUS
<1>1. /\ FormShown(p) /\ groupId' = [groupId EXCEPT ![p] = g] /\ UNCHANGED userFound
      /\ calls' = [calls EXCEPT ![d] = Append(calls[d], q)]
      /\ UNCHANGED <<store, cache, outbox, sendVars, replies, type, group>>
  BY DEF Create, SetGroupId, InitHomee, InitState, friendsVars
<1>2. p \in Pages /\ d \in Devices
  BY SetupAssumption, HostAssumption
<1>3. groupType[p] \in GroupTypes /\ groupId'[p] = g
  BY <1>1 DEF SetupInv, SetupTypeOK
<1>4. q \in SetupQueries /\ q.page = p
  BY <1>3 DEF SetupQueries, IdQueries, GroupIdQuery, Where
<1>5. Asker(d, p)'
  BY <1>1, <1>2, <1>3 DEF Asker, FormShown
<1>. QED  BY <1>1, <1>2, <1>4, <1>5, CallStep

LEMMA TapStep ==
    ASSUME SetupInv, PagesStep, NEW f \in FriendsPages, Tap(f)
    PROVE  SetupInv'
<1>. PICK d : d = Host[f]
  OBVIOUS
<1>. PICK q : q = StatusQuery(f, mCurrentUser[f])
  OBVIOUS
<1>1. /\ FormShown(f)
      /\ calls' = [calls EXCEPT ![d] = calls[d]]
           \/ calls' = [calls EXCEPT ![d] = Append(calls[d], q)]
      /\ UNCHANGED <<store, cache, outbox, sendVars, replies, type, group>>
  BY DEF Tap, TapFriend
<1>2. f \in Pages /\ d \in Devices /\ f \notin GroupPages
  BY SetupAssumption, HostAssumption
<1>3. mCurrentUser[f] \in Users
  BY <1>1, <1>2 DEF SetupInv, UserKnown, FormShown
<1>4. q \in SetupQueries /\ q.page = f
  BY <1>3 DEF SetupQueries, StatusQueries, StatusQuery, Get, Where
<1>5. Asker(d, f)'
  BY <1>2 DEF Asker
<1>6. CASE calls' = [calls EXCEPT ![d] = Append(calls[d], q)]
  BY <1>1, <1>2, <1>4, <1>5, <1>6, CallStep
<1>7. CASE calls' = [calls EXCEPT ![d] = calls[d]]
  <2>1. calls' = calls
    BY <1>7 DEF SetupInv, SetupTypeOK, FsTypeOK
  <2>. QED  BY <1>1, <2>1, QuietStep DEF fsVars
<1>. QED  BY <1>1, <1>6, <1>7

LEMMA SetupStep == SetupInv /\ [Next]_vars => SetupInv'
<1>. SUFFICES ASSUME SetupInv, [Next]_vars PROVE SetupInv'
  OBVIOUS
<1>0. PagesStep
  BY EveryPagesStep
<1>1. ASSUME NEW p, NEW text, NEW t, OpenNewGroup(p) \/ FindUser(p) \/ Back(p) \/ Edit(p, text, t)
      PROVE  UNCHANGED <<fsVars, type, group>>
  BY <1>1 DEF OpenNewGroup, FindUser, Back, Edit, friendsVars
<1>2. CASE UNCHANGED <<fsVars, type, group>>
  BY <1>0, <1>2, QuietStep
<1>3. CASE UNCHANGED vars
  BY <1>2, <1>3 DEF vars, friendsVars
<1>4. CASE User
  BY <1>0, <1>1, <1>2, <1>4, CreateStep, TapStep, PressNextStep DEF User
<1>5. ASSUME NEW p \in Pages, FindUser(p) PROVE SetupInv'
  BY <1>1, <1>2, <1>5
<1>6. ASSUME NEW d \in Devices, Client(d) \/ Kill(d) PROVE SetupInv'
  BY <1>0, <1>6, GroupIdAnswerStep, GroupStatusStep, SyncStep, AnswerStep DEF Client
<1>. QED  BY <1>3, <1>4, <1>5, <1>6 DEF Next

\* For any phones, pages, users, group ids and types, whatever order the
\* reads are answered in, whether a write is applied once or again, and
\* whenever the app is killed: no note, no copy on a user's list and no
\* member below a group that Next was told about refers to a group that is
\* not in the backend.
THEOREM NoGroupDangles == Spec => []NoDanglingGroup
<1>1. SetupInv => NoDanglingGroup
  <2>. SUFFICES ASSUME SetupInv PROVE NoDanglingGroup
    OBVIOUS
  <2>1. \A x \in Paths : Present(x) => Backed(Held, x, store[x])
    BY DEF SetupInv, DocsInv, Held
  <2>2. \A x \in Held : Present(x)
    BY DEF Held
  <2>3. ~Present(CreationPath(null))
    <3>1. CreationPath(null) \in Paths
      BY SetupAssumption DEF SetupPaths
    <3>. QED  BY <2>1, <3>1 DEF Backed
  <2>4. ASSUME NEW u \in Users, Present(CreationPath(u)), NEW note, note = store[CreationPath(u)]
        PROVE  Present(GroupPath(note.type, note.id))
    <3>1. CreationPath(u) \in Paths
      BY SetupAssumption DEF SetupPaths
    <3>. QED  BY <2>1, <2>2, <2>4, <3>1 DEF Backed
  <2>5. ASSUME NEW u \in Users, NEW g \in GroupIds, Present(UserGroupPath(u, g))
        PROVE  \E t \in GroupTypes : Present(GroupPath(t, g))
    <3>1. UserGroupPath(u, g) \in Paths
      BY SetupAssumption DEF SetupPaths
    <3>. QED  BY <2>1, <2>2, <2>5, <3>1 DEF Backed
  <2>6. ASSUME NEW t \in GroupTypes, NEW g \in GroupIds, Present(MemberPath(t, g))
        PROVE  Present(GroupPath(t, g))
    <3>1. MemberPath(t, g) \in Paths
      BY SetupAssumption DEF SetupPaths
    <3>. QED  BY <2>1, <2>2, <2>6, <3>1 DEF Backed
  <2>. QED  BY <2>3, <2>4, <2>5, <2>6 DEF NoDanglingGroup
<1>. QED  BY <1>1, SetupInit, SetupStep, PTL DEF Spec

-----------------------------------------------------------------------------
(***************************************************************************)
(* StatusIsCurrent.  It needs a user who waits for the check, an account   *)
(* on one phone only, and no second NewGroup page on a phone whose         *)
(* callbacks still run after it is closed (a release build).               *)
(***************************************************************************)

OneAccountEach == \A d, e \in Devices : Session[d] = Session[e] /\ Session[d] # null => d = e
NoLateSaves == DebugBuild \/ \A p, q \in GroupPages : Host[p] = Host[q] => p = q
Orderly == Unhurried /\ OneAccountEach /\ NoLateSaves

(***************************************************************************)
(* What a device shows at path x, now and until x is written again, is     *)
(* note: sto and cac are the backend's and the cached document at x, n     *)
(* writes of queue are applied, and new says that the cached document is   *)
(* newer than those.                                                       *)
(***************************************************************************)
Shows(queue, n, sto, cac, new, x, note) ==
    /\ \A i \in DOMAIN queue : LastWrite(queue, x, i) =>
          /\ queue[i].data = note
          /\ i <= n => sto = note /\ (new => cac = note)
    /\ NotWritten(queue, x) => sto = note /\ cac = note

LEMMA ShowsOther ==
    ASSUME NEW W, NEW queue \in Seq(W), NEW w \in W, NEW n, NEW sto, NEW cac, NEW new, NEW x,
           NEW note, Shows(queue, n, sto, cac, new, x, note), w.path # x
    PROVE  Shows(Append(queue, w), n, sto, cac, new, x, note)
<1>. PICK r : r = Append(queue, w)
  OBVIOUS
<1>. PICK m : m = Len(queue)
  OBVIOUS
<1>1. /\ m \in Nat /\ DOMAIN queue = 1 .. m /\ DOMAIN r = 1 .. (m + 1) /\ r[m + 1] = w
      /\ \A k \in 1 .. m : r[k] = queue[k]
  BY LenProperties, AppendProperties
<1>2. ASSUME NEW i \in DOMAIN r, LastWrite(r, x, i) PROVE i \in DOMAIN queue /\ LastWrite(queue, x, i)
  <2>1. i # m + 1 /\ r[i].path = x
    BY <1>1, <1>2 DEF LastWrite
  <2>2. i \in 1 .. m
    BY <1>1, <2>1
  <2>3. ASSUME NEW j \in 1 .. m, j > i PROVE queue[j].path # x
    <3>1. j \in 1 .. (m + 1) /\ r[j] = queue[j]
      BY <1>1
    <3>. QED  BY <1>1, <1>2, <2>3, <3>1 DEF LastWrite
  <2>. QED  BY <1>1, <2>1, <2>2, <2>3 DEF LastWrite
<1>3. ASSUME NotWritten(r, x) PROVE NotWritten(queue, x)
  <2>1. \A j \in 1 .. m : j \in 1 .. (m + 1)
    BY <1>1
  <2>. QED  BY <1>1, <1>3, <2>1 DEF NotWritten
<1>4. \A i \in DOMAIN r : LastWrite(r, x, i) => i \in DOMAIN queue /\ r[i] = queue[i]
  BY <1>1, <1>2
<1>. QED  BY <1>2, <1>3, <1>4 DEF Shows

LEMMA ShowsNew ==
    ASSUME NEW W, NEW queue \in Seq(W), NEW w \in W, NEW n \in 0 .. Len(queue), NEW sto, NEW cac,
           NEW new, NEW x, NEW note, w.path = x, w.data = note
    PROVE  Shows(Append(queue, w), n, sto, cac, new, x, note)
<1>. PICK r : r = Append(queue, w)
  OBVIOUS
<1>. PICK m : m = Len(queue)
  OBVIOUS
<1>1. /\ m \in Nat /\ DOMAIN r = 1 .. (m + 1) /\ r[m + 1] = w /\ n \in 0 .. m
  BY LenProperties, AppendProperties
<1>2. m + 1 \in 1 .. (m + 1)
  BY <1>1
<1>3. ASSUME NEW i \in DOMAIN r, LastWrite(r, x, i) PROVE i = m + 1 /\ ~(i <= n)
  <2>1. ~(m + 1 > i)
    BY <1>1, <1>2, <1>3 DEF LastWrite
  <2>. QED  BY <1>1, <2>1
<1>4. ~NotWritten(r, x)
  BY <1>1, <1>2 DEF NotWritten
<1>. QED  BY <1>1, <1>3, <1>4 DEF Shows

\* The next write is applied.
LEMMA ShowsApplied ==
    ASSUME NEW queue, NEW n \in Nat, DOMAIN queue \subseteq Nat, n + 1 \in DOMAIN queue,
           NEW sto, NEW cac, NEW new, NEW x, NEW note, NEW sto2, NEW new2,
           Shows(queue, n, sto, cac, new, x, note),
           queue[n + 1].path = x => sto2 = queue[n + 1].data /\ ~new2,
           queue[n + 1].path # x => sto2 = sto /\ (new2 => new)
    PROVE  Shows(queue, n + 1, sto2, cac, new2, x, note)
<1>1. ASSUME NEW i \in DOMAIN queue, LastWrite(queue, x, i), i <= n + 1
      PROVE  sto2 = note /\ (new2 => cac = note)
  <2>1. CASE i = n + 1
    BY <1>1, <2>1 DEF LastWrite, Shows
  <2>2. CASE i # n + 1
    <3>1. i <= n /\ n + 1 > i
      BY <1>1, <2>2
    <3>2. queue[n + 1].path # x
      BY <1>1, <3>1 DEF LastWrite
    <3>. QED  BY <1>1, <3>1, <3>2 DEF Shows
  <2>. QED  BY <2>1, <2>2
<1>2. ASSUME NotWritten(queue, x) PROVE sto2 = note /\ cac = note
  BY <1>2 DEF NotWritten, Shows
<1>3. \A i \in DOMAIN queue : LastWrite(queue, x, i) => queue[i].data = note
  BY DEF Shows
<1>. QED  BY <1>1, <1>2, <1>3 DEF Shows

\* Some writes count as not applied again.
LEMMA ShowsLess ==
    ASSUME NEW queue, NEW n \in Nat, NEW m \in 0 .. n, DOMAIN queue \subseteq Nat,
           NEW sto, NEW cac, NEW new, NEW x, NEW note, Shows(queue, n, sto, cac, new, x, note)
    PROVE  Shows(queue, m, sto, cac, new, x, note)
<1>1. \A i \in DOMAIN queue : i <= m => i <= n
  OBVIOUS
<1>. QED  BY <1>1 DEF Shows

\* The cache learns what the backend has.
LEMMA ShowsLearnt ==
    ASSUME NEW queue, NEW n, NEW sto, NEW cac, NEW new, NEW x, NEW note,
           Shows(queue, n, sto, cac, new, x, note), NEW new2
    PROVE  Shows(queue, n, sto, sto, new2, x, note)
BY DEF Shows

\* The oldest write, which is applied, leaves the queue for the cache, or is
\* dropped for what is newer.
LEMMA ShowsReleased ==
    ASSUME NEW W, NEW queue \in Seq(W), queue # <<>>, NEW n \in Nat, n >= 1,
           NEW sto, NEW cac, NEW new, NEW x, NEW note, NEW cac2, NEW new2,
           Shows(queue, n, sto, cac, new, x, note), new2 => new,
           Head(queue).path # x => cac2 = cac,
           Head(queue).path = x =>
              \/ cac2 = Head(queue).data /\ ~new
              \/ cac2 = cac /\ new
              \/ cac2 = cac /\ \E j \in DOMAIN Tail(queue) : Tail(queue)[j].path = x
    PROVE  Shows(Tail(queue), n - 1, sto, cac2, new2, x, note)
<1>. PICK r : r = Tail(queue)
  OBVIOUS
<1>. PICK w : w = Head(queue)
  OBVIOUS
<1>1. /\ r \in Seq(W) /\ 1 \in DOMAIN queue /\ w = queue[1]
      /\ \A j \in DOMAIN r : j + 1 \in DOMAIN queue /\ r[j] = queue[j + 1]
  BY TailElements
<1>2. /\ DOMAIN queue = 1 .. Len(queue) /\ Len(queue) \in Nat /\ Len(r) = Len(queue) - 1
      /\ DOMAIN r = 1 .. Len(r) /\ Len(r) \in Nat
  BY <1>1, LenProperties, HeadTailProperties
<1>3. ASSUME NEW k \in DOMAIN queue, k # 1 PROVE k - 1 \in DOMAIN r /\ r[k - 1] = queue[k]
  <2>1. k - 1 \in 1 .. Len(r) /\ (k - 1) + 1 = k
    BY <1>2, <1>3
  <2>. QED  BY <1>1, <1>2, <2>1
<1>4. ASSUME NEW i \in DOMAIN r, LastWrite(r, x, i)
      PROVE  i + 1 \in DOMAIN queue /\ LastWrite(queue, x, i + 1) /\ r[i] = queue[i + 1]
  <2>1. i + 1 \in DOMAIN queue /\ r[i] = queue[i + 1] /\ r[i].path = x
    BY <1>1, <1>4 DEF LastWrite
  <2>2. ASSUME NEW k \in DOMAIN queue, k > i + 1 PROVE queue[k].path # x
    <3>1. k # 1 /\ k - 1 > i
      BY <1>2, <2>2
    <3>. QED  BY <1>3, <1>4, <3>1 DEF LastWrite
  <2>. QED  BY <2>1, <2>2 DEF LastWrite
<1>5. ASSUME NEW i \in DOMAIN r, LastWrite(r, x, i), i <= n - 1
      PROVE  sto = note /\ (new2 => cac2 = note)
  <2>1. i + 1 <= n
    BY <1>2, <1>5
  <2>2. sto = note /\ (new => cac = note)
    BY <1>4, <1>5, <2>1 DEF Shows
  <2>. QED  BY <2>2
<1>6. ASSUME NotWritten(r, x) PROVE sto = note /\ cac2 = note
  <2>1. \A k \in DOMAIN queue : k # 1 => queue[k].path # x
    BY <1>3, <1>6 DEF NotWritten
  <2>2. CASE w.path # x
    <3>1. NotWritten(queue, x)
      BY <1>1, <2>1, <2>2 DEF NotWritten
    <3>. QED  BY <2>2, <3>1 DEF Shows
  <2>3. CASE w.path = x
    <3>1. LastWrite(queue, x, 1)
      <4>1. \A k \in DOMAIN queue : k > 1 => k # 1
        BY <1>2
      <4>. QED  BY <1>1, <2>1, <2>3, <4>1 DEF LastWrite
    <3>2. w.data = note /\ sto = note /\ (new => cac = note)
      BY <1>1, <3>1 DEF Shows
    <3>3. ~\E j \in DOMAIN r : r[j].path = x
      BY <1>6 DEF NotWritten
    <3>. QED  BY <2>3, <3>2, <3>3
  <2>. QED  BY <2>2, <2>3
<1>7. \A i \in DOMAIN r : LastWrite(r, x, i) => r[i].data = note
  BY <1>4 DEF Shows
<1>. QED  BY <1>5, <1>6, <1>7 DEF Shows

LEMMA ShowsView ==
    ASSUME NEW W, NEW queue \in Seq(W), NEW n, NEW sto, NEW cac, NEW new, NEW x, NEW note,
           Shows(queue, n, sto, cac, new, x, note), NEW base, base[x] \in {sto, cac}
    PROVE  LocalDocument(base, queue, x) = note
<1>1. CASE NotWritten(queue, x)
  BY <1>1, LastWriteWins DEF Shows
<1>2. ASSUME NEW i \in DOMAIN queue, LastWrite(queue, x, i) PROVE LocalDocument(base, queue, x) = note
  BY <1>2, LastWriteWins DEF Shows
<1>. QED  BY <1>1, <1>2, LastWriteWins

\* Device d shows note to a question for the note of its user.
NoteIs(d, note) ==
    LET x == CreationPath(Session[d])
    IN  Shows(outbox[d], applied[d], store[x], cache[d][x], x \in learnt[d], x, note)

NoteOf(p) == [id |-> groupId[p], type |-> groupType[p]]

\* A question of page p is on its way.
Asking(d, p) ==
    \/ \E i \in DOMAIN calls[d] : calls[d][i].page = p
    \/ \E i \in DOMAIN replies[d] : replies[d][i].call.page = p

\* Users and phones go together: the user of a page, the notes a phone
\* writes, and the notes it asks for.
OwnUser == \A p \in Pages : userFound[p] => mCurrentUser[p] = Session[Host[p]]

OwnNotes ==
    \A d \in Devices : \A i \in DOMAIN outbox[d] : \A u \in Users :
        outbox[d][i].path = CreationPath(u) => u = Session[d]

OwnCalls ==
    \A d \in Devices : \A i \in DOMAIN calls[d] :
        calls[d][i].page \in FriendsPages =>
            calls[d][i] = StatusQuery(calls[d][i].page, Session[d])

OnePage ==
    \A p, q \in GroupPages :
        Host[p] = Host[q] /\ life[p] = "mounted" /\ life[q] = "mounted" => p = q

\* The note that Friends page f is to find is on its way or there; there, as
\* soon as f asks for it; and f knows of no other.
Finds(f, note) ==
    /\ Asking(Host[f], Below[f]) \/ NoteIs(Host[f], note)
    /\ Asking(Host[f], f) => NoteIs(Host[f], note)
    /\ \A i \in DOMAIN replies[Host[f]] :
          replies[Host[f]][i].call.page = f => replies[Host[f]][i].docs \subseteq {note}
    /\ getStatus[f] => group[f] = note.id /\ type[f] = note.type

Opened(f) ==
    life[f] = "mounted" => /\ life[Below[f]] = "mounted" /\ userFound[Below[f]]
                           /\ Finds(f, NoteOf(Below[f]))

Unopened(f) == life[f] = "unborn" => ~getStatus[f] /\ ~Asking(Host[f], f)

StatusInv ==
    /\ DOMAIN getStatus = FriendsPages
    /\ OwnUser
    /\ OwnNotes
    /\ OwnCalls
    /\ OnePage
    /\ \A f \in FriendsPages : Opened(f) /\ Unopened(f)

LEMMA StatusInit == Init => StatusInv
<1>. SUFFICES ASSUME Init PROVE StatusInv
  OBVIOUS
<1>1. /\ \A d \in Devices : outbox[d] = <<>> /\ calls[d] = <<>> /\ replies[d] = <<>>
      /\ \A p \in Pages : life[p] = "unborn" /\ ~userFound[p]
      /\ DOMAIN getStatus = FriendsPages /\ \A f \in FriendsPages : ~getStatus[f]
  BY DEF Init, FirestoreInit, PageInit, FriendsInit
<1>2. OwnUser /\ OwnNotes /\ OwnCalls
  BY <1>1 DEF OwnUser, OwnNotes, OwnCalls
<1>3. OnePage
  BY <1>1, SetupAssumption DEF OnePage
<1>4. \A f \in FriendsPages : f \in Pages /\ Host[f] \in Devices
  BY SetupAssumption, HostAssumption
<1>5. \A f \in FriendsPages : Opened(f) /\ Unopened(f)
  BY <1>1, <1>4 DEF Opened, Unopened, Asking
<1>. QED  BY <1>1, <1>2, <1>3, <1>5 DEF StatusInv

\* Writes of a user's phone are the only ones of its note.
LEMMA OthersNotes ==
    ASSUME OneAccountEach, OwnNotes, NEW d \in Devices, Session[d] \in Users,
           NEW e \in Devices, e # d, NEW i \in DOMAIN outbox[e]
    PROVE  outbox[e][i].path # CreationPath(Session[d])
BY NullAssumption DEF OneAccountEach, OwnNotes

\* A write on its way, or an answer, leaves what a phone shows.
LEMMA NoteKept ==
    ASSUME SetupInv, OneAccountEach, OwnNotes, NEW d \in Devices, Session[d] \in Users,
           NEW note, NoteIs(d, note), NEW e \in Devices,
           Sync(e) \/ \E i \in DOMAIN calls[e] : Answer(e, i)
    PROVE  NoteIs(d, note)'
<1>. PICK x : x = CreationPath(Session[d])
  OBVIOUS
<1>a. x \in Paths
  BY SetupAssumption DEF SetupPaths
<1>0. /\ FsTypeOK(SetupDocs, SetupQueries) /\ SendTypeOK /\ x \in Paths
      /\ store \in [Paths -> SetupDocs \union {NoDoc}]
      /\ cache \in [Devices -> [Paths -> SetupDocs \union {NoDoc}]]
      /\ outbox \in [Devices -> Seq(WritesOf(SetupDocs))]
      /\ applied \in [Devices -> Nat] /\ acked \in [Devices -> Nat]
      /\ learnt \in [Devices -> SUBSET Paths]
  BY <1>a DEF SetupInv, SetupTypeOK, FsTypeOK, SendTypeOK
<1>. PICK queue : queue = outbox[d]
  OBVIOUS
<1>. PICK n : n = applied[d]
  OBVIOUS
<1>1. Shows(queue, n, store[x], cache[d][x], x \in learnt[d], x, note)
  BY DEF NoteIs
<1>2. /\ queue \in Seq(WritesOf(SetupDocs)) /\ Len(queue) \in Nat /\ DOMAIN queue = 1 .. Len(queue)
      /\ DOMAIN queue \subseteq Nat /\ n \in Nat /\ n <= Len(queue)
      /\ acked[d] \in Nat /\ acked[d] <= n
  BY <1>0, LenProperties DEF SendTypeOK
<1>3. SUFFICES Shows(outbox'[d], applied'[d], store'[x], cache'[d][x], x \in learnt'[d], x, note)
  BY DEF NoteIs
<1>4. CASE ApplyWrite(e)
  <2>. PICK k : k = applied[e] + 1
    OBVIOUS
  <2>. PICK w : w = outbox[e][k]
    OBVIOUS
  <2>1. /\ store' = [store EXCEPT ![w.path] = w.data]
        /\ learnt' = [learnt EXCEPT ![e] = learnt[e] \ {w.path}]
        /\ applied' = [applied EXCEPT ![e] = applied[e] + 1]
        /\ UNCHANGED <<cache, outbox>> /\ applied[e] < Len(outbox[e])
    BY <1>4 DEF ApplyWrite
  <2>2. outbox[e] \in Seq(WritesOf(SetupDocs)) /\ applied[e] \in Nat
    BY <1>0
  <2>3. k \in DOMAIN outbox[e]
    BY <2>1, <2>2, LenProperties
  <2>4. w.path \in Paths
    BY <1>0, <2>3, PendingTypes
  <2>5. CASE e = d
    <3>1. k = n + 1 /\ w = queue[n + 1] /\ n + 1 \in DOMAIN queue
      BY <2>3, <2>5
    <3>2. applied'[d] = n + 1 /\ outbox'[d] = queue /\ cache'[d][x] = cache[d][x]
      BY <1>0, <2>1, <2>5
    <3>3. w.path = x => store'[x] = w.data /\ ~(x \in learnt'[d])
      BY <1>0, <2>1, <2>4, <2>5
    <3>4. w.path # x => store'[x] = store[x] /\ (x \in learnt'[d] => x \in learnt[d])
      BY <1>0, <2>1, <2>4, <2>5
    <3>5. Shows(queue, n + 1, store'[x], cache[d][x], x \in learnt'[d], x, note)
      <4>. PICK sto2 : sto2 = store'[x]
        OBVIOUS
      <4>. DEFINE new2 == x \in learnt'[d]
      <4>1. /\ queue[n + 1].path = x => sto2 = queue[n + 1].data /\ ~new2
            /\ queue[n + 1].path # x => sto2 = store[x] /\ (new2 => x \in learnt[d])
        BY <3>1, <3>3, <3>4
      <4>2. n \in Nat /\ DOMAIN queue \subseteq Nat /\ n + 1 \in DOMAIN queue
        BY <1>2, <3>1
      <4>. HIDE DEF new2
      <4>3. Shows(queue, n + 1, sto2, cache[d][x], new2, x, note)
        BY <1>1, <4>1, <4>2, ShowsApplied, Zenon
      <4>. QED  BY <4>3 DEF new2
    <3>. QED  BY <3>2, <3>5
  <2>6. CASE e # d
    <3>1. w.path # x
      BY <2>3, <2>6, OthersNotes
    <3>2. store'[x] = store[x] /\ applied'[d] = n /\ outbox'[d] = queue
          /\ learnt'[d] = learnt[d] /\ cache'[d][x] = cache[d][x]
      BY <1>0, <2>1, <2>4, <2>6, <3>1
    <3>. QED  BY <1>1, <3>2
  <2>. QED  BY <2>5, <2>6
<1>5. CASE AckWrite(e)
  BY <1>1, <1>5 DEF AckWrite
<1>6. CASE BreakStream(e)
  <2>1. /\ applied' = [applied EXCEPT ![e] = acked[e]]
        /\ UNCHANGED <<store, cache, outbox, learnt>>
    BY <1>6 DEF BreakStream
  <2>2. applied'[d] \in 0 .. n
    BY <1>0, <1>2, <2>1
  <2>3. Shows(queue, applied'[d], store[x], cache[d][x], x \in learnt[d], x, note)
    BY <1>1, <1>2, <2>2, ShowsLess
  <2>. QED  BY <2>1, <2>3
<1>7. CASE ReleaseWrite(e)
  <2>1. CASE e # d
    <3>1. outbox'[d] = outbox[d] /\ applied'[d] = applied[d] /\ store' = store
          /\ learnt'[d] = learnt[d] /\ cache'[d] = cache[d]
      BY <1>0, <1>7, <2>1 DEF ReleaseWrite
    <3>. QED  BY <1>1, <3>1
  <2>2. CASE e = d
    <3>. PICK w : w = Head(queue)
      OBVIOUS
    <3>. PICK later : later = Written(Tail(queue), n - 1)
      OBVIOUS
    <3>1. /\ acked[d] > 0 /\ store' = store
          /\ outbox' = [outbox EXCEPT ![d] = Tail(queue)]
          /\ applied' = [applied EXCEPT ![d] = n - 1]
          /\ learnt' = [learnt EXCEPT ![d] = learnt[d] \intersect later]
          /\ \/ w.path \notin learnt[d] /\ cache' = [cache EXCEPT ![d][w.path] = w.data]
             \/ w.path \in learnt[d] \union later /\ UNCHANGED cache
      BY <1>7, <2>2 DEF ReleaseWrite
    <3>2. n >= 1 /\ queue # <<>>
      BY <1>2, <3>1
    <3>3. w \in WritesOf(SetupDocs)
      BY <1>2, <3>2, TailElements
    <3>4. w.path \in Paths
      BY <3>3 DEF WritesOf
    <3>5. outbox'[d] = Tail(queue) /\ applied'[d] = n - 1 /\ store'[x] = store[x]
          /\ (x \in learnt'[d] => x \in learnt[d])
      BY <1>0, <3>1
    <3>6. w.path # x => cache'[d][x] = cache[d][x]
      BY <1>0, <3>1, <3>4
    <3>7. ASSUME x \in later PROVE \E j \in DOMAIN Tail(queue) : Tail(queue)[j].path = x
      <4>1. PICK j \in 1 .. n - 1 : Tail(queue)[j].path = x
        BY <3>7 DEF Written
      <4>2. Tail(queue) \in Seq(WritesOf(SetupDocs)) /\ Len(Tail(queue)) = Len(queue) - 1
        BY <1>2, <3>2, HeadTailProperties
      <4>3. DOMAIN Tail(queue) = 1 .. Len(queue) - 1
        BY <4>2, LenProperties
      <4>4. j \in 1 .. Len(queue) - 1
        BY <1>2, <4>1
      <4>. QED  BY <4>1, <4>3, <4>4
    <3>8. w.path = x =>
             \/ cache'[d][x] = w.data /\ ~(x \in learnt[d])
             \/ cache'[d][x] = cache[d][x] /\ x \in learnt[d]
             \/ cache'[d][x] = cache[d][x] /\ \E j \in DOMAIN Tail(queue) : Tail(queue)[j].path = x
      BY <1>0, <3>1, <3>7
    <3>9. Shows(Tail(queue), n - 1, store[x], cache'[d][x], x \in learnt'[d], x, note)
      <4>. PICK cac2 : cac2 = cache'[d][x]
        OBVIOUS
      <4>. DEFINE new2 == x \in learnt'[d]
      <4>1. /\ new2 => x \in learnt[d]
            /\ Head(queue).path # x => cac2 = cache[d][x]
            /\ Head(queue).path = x =>
                  \/ cac2 = Head(queue).data /\ ~(x \in learnt[d])
                  \/ cac2 = cache[d][x] /\ x \in learnt[d]
                  \/ cac2 = cache[d][x] /\ \E j \in DOMAIN Tail(queue) : Tail(queue)[j].path = x
        BY <3>5, <3>6, <3>8
      <4>2. n \in Nat /\ n >= 1 /\ queue # <<>> /\ queue \in Seq(WritesOf(SetupDocs))
        BY <1>2, <3>2
      <4>. HIDE DEF new2
      <4>3. Shows(Tail(queue), n - 1, store[x], cac2, new2, x, note)
        BY <1>1, <4>1, <4>2, ShowsReleased, Zenon
      <4>. QED  BY <4>3 DEF new2
    <3>. QED  BY <3>5, <3>9
  <2>. QED  BY <2>1, <2>2
<1>8. ASSUME NEW i \in DOMAIN calls[e], AnswerFromServer(e, i) \/ AnswerFromCache(e, i)
      PROVE  Shows(outbox'[d], applied'[d], store'[x], cache'[d][x], x \in learnt'[d], x, note)
  <2>1. UNCHANGED <<store, outbox, applied>>
    BY <1>8 DEF AnswerFromServer, AnswerFromCache, Answered
  <2>2. CASE cache'[d][x] = cache[d][x] /\ (x \in learnt'[d] <=> x \in learnt[d])
    BY <1>1, <2>1, <2>2
  <2>3. CASE cache'[d][x] = store[x]
    BY <1>1, <2>1, <2>3, ShowsLearnt
  <2>4. CASE AnswerFromServer(e, i)
    <3>. PICK sent : sent = Matching(store, calls[e][i])
      OBVIOUS
    <3>. PICK written : written = Written(outbox[e], applied[e])
      OBVIOUS
    <3>1. /\ cache' = [cache EXCEPT ![e] =
                          [y \in Paths |-> IF y \in sent THEN store[y] ELSE cache[e][y]]]
          /\ learnt' = [learnt EXCEPT ![e] = learnt[e] \union (sent \intersect written)]
      BY <2>4 DEF AnswerFromServer
    <3>2. CASE e # d
      BY <1>0, <2>2, <3>1, <3>2
    <3>3. CASE e = d /\ x \in sent
      BY <1>0, <2>3, <3>1, <3>3
    <3>4. CASE e = d /\ x \notin sent
      BY <1>0, <2>2, <3>1, <3>4
    <3>. QED  BY <3>2, <3>3, <3>4
  <2>5. CASE AnswerFromCache(e, i)
    BY <2>2, <2>5 DEF AnswerFromCache
  <2>. QED  BY <1>8, <2>4, <2>5
<1>. QED  BY <1>4, <1>5, <1>6, <1>7, <1>8 DEF Sync, Apply, Ack, Release, Break, Answer

\* Friends page f stays open over an unchanged NewGroup page.
Stays(f) ==
    /\ life[f] = "mounted" /\ life'[f] = "mounted" /\ life'[Below[f]] = "mounted"
    /\ userFound'[Below[f]]
    /\ groupId'[Below[f]] = groupId[Below[f]] /\ groupType'[Below[f]] = groupType[Below[f]]

\* What a step may do with the pages: a Friends page is opened only by
\* "Create group", and keeps the page below it as it is.
PageMove ==
    /\ OwnUser' /\ OnePage'
    /\ \A f \in FriendsPages :
          /\ life'[f] = "unborn" => life[f] = "unborn"
          /\ life'[f] = "mounted" => Stays(f) \/ \E g \in GroupIds : Create(Below[f], g, f)

LEMMA OpenBelow ==
    ASSUME StatusInv, NEW f \in FriendsPages, life[f] = "mounted"
    PROVE  life[Below[f]] = "mounted" /\ userFound[Below[f]]
BY DEF StatusInv, Opened

\* Nothing happens to the pages and to the fields of those that are covered.
LEMMA MoveNothing ==
    ASSUME StatusInv, UNCHANGED pageVars,
           \A f \in FriendsPages : life[f] = "mounted" =>
              groupId'[Below[f]] = groupId[Below[f]] /\ groupType'[Below[f]] = groupType[Below[f]]
    PROVE  PageMove
<1>1. UNCHANGED <<life, userFound, mCurrentUser>>
  BY DEF pageVars
<1>2. OwnUser' /\ OnePage'
  BY <1>1 DEF StatusInv, OwnUser, OnePage
<1>3. \A f \in FriendsPages : life'[f] = "mounted" => Stays(f)
  BY <1>1, OpenBelow DEF Stays
<1>. QED  BY <1>1, <1>2, <1>3 DEF PageMove

LEMMA PageMoves ==
    ASSUME SetupInv, StatusInv, [Next]_vars
    PROVE  PageMove
<1>0. /\ life \in [Pages -> {"unborn", "mounted", "disposed"}]
      /\ userFound \in [Pages -> BOOLEAN] /\ mCurrentUser \in [Pages -> Users \union {null}]
      /\ groupId \in [GroupPages -> GroupIds \union {null}]
      /\ groupType \in [GroupPages -> GroupTypes]
      /\ OwnUser /\ OnePage
  BY DEF SetupInv, SetupTypeOK, PageTypeOK, StatusInv
<1>a. /\ \A f \in FriendsPages : f \in Pages /\ Below[f] \in GroupPages /\ f \notin GroupPages
                                  /\ Host[Below[f]] = Host[f]
      /\ \A p \in GroupPages : p \in Pages
  BY SetupAssumption
<1>1. ASSUME NEW p \in GroupPages, OpenNewGroup(p) PROVE PageMove
  <2>1. /\ life[p] = "unborn" /\ life' = [life EXCEPT ![p] = "mounted"] /\ Reachable(p)
        /\ UNCHANGED <<userFound, mCurrentUser, groupId, groupType>>
    BY <1>1 DEF OpenNewGroup, InitState, groupVars
  <2>2. OwnUser'
    BY <1>0, <2>1 DEF OwnUser
  <2>3. OnePage'
    BY <1>0, <1>a, <2>1 DEF OnePage, Reachable
  <2>4. ASSUME NEW f \in FriendsPages, life'[f] = "mounted" PROVE Stays(f)
    <3>1. life[f] = "mounted"
      BY <1>0, <1>a, <2>1, <2>4
    <3>. QED  BY <1>0, <1>a, <2>1, <2>4, <3>1, OpenBelow DEF Stays
  <2>5. \A f \in FriendsPages : life'[f] = "unborn" => life[f] = "unborn"
    BY <1>0, <1>a, <2>1
  <2>. QED  BY <2>2, <2>3, <2>4, <2>5 DEF PageMove
<1>2. ASSUME NEW p \in GroupPages, NEW text, NEW t, Edit(p, text, t) PROVE PageMove
  <2>1. /\ UNCHANGED <<pageVars, groupId>> /\ OnTop(p)
        /\ groupType' = [groupType EXCEPT ![p] = t]
    BY <1>2 DEF Edit, EditGroup
  <2>2. \A f \in FriendsPages : life[f] = "mounted" => Below[f] # p
    BY <2>1 DEF OnTop
  <2>. QED  BY <1>0, <1>a, <2>1, <2>2, MoveNothing
<1>3. ASSUME NEW p \in GroupPages, NEW g \in GroupIds, NEW f \in FriendsPages, Create(p, g, f)
      PROVE  PageMove
  <2>1. /\ life[f] = "unborn" /\ life' = [life EXCEPT ![f] = "mounted"] /\ Below[f] = p
        /\ UNCHANGED <<userFound, mCurrentUser, groupType>> /\ OnTop(p)
        /\ groupId' = [groupId EXCEPT ![p] = g]
    BY <1>3 DEF Create, InitHomee, InitState, SetGroupId
  <2>2. OwnUser'
    BY <1>0, <2>1 DEF OwnUser
  <2>3. OnePage'
    BY <1>0, <1>a, <2>1 DEF OnePage
  <2>4. ASSUME NEW h \in FriendsPages, h # f, life'[h] = "mounted" PROVE Stays(h)
    <3>1. life[h] = "mounted" /\ Below[h] # p /\ Below[h] # f
      BY <1>0, <1>a, <2>1, <2>4 DEF OnTop
    <3>. QED  BY <1>0, <1>a, <2>1, <2>4, <3>1, OpenBelow DEF Stays
  <2>5. \A h \in FriendsPages : life'[h] = "unborn" => life[h] = "unborn"
    BY <1>0, <1>a, <2>1
  <2>6. \E k \in GroupIds : Create(Below[f], k, f)
    BY <1>3, <2>1
  <2>. QED  BY <2>2, <2>3, <2>4, <2>5, <2>6 DEF PageMove
<1>4. ASSUME NEW p \in Pages, Back(p) PROVE PageMove
  <2>1. /\ life' = [life EXCEPT ![p] = "disposed"]
        /\ UNCHANGED <<userFound, mCurrentUser, groupId, groupType>>
        /\ p \in GroupPages => OnTop(p)
    BY <1>4 DEF Back, Pop, groupVars
  <2>2. OwnUser'
    BY <1>0, <2>1 DEF OwnUser
  <2>3. OnePage'
    BY <1>0, <1>a, <2>1 DEF OnePage
  <2>4. ASSUME NEW f \in FriendsPages, life'[f] = "mounted" PROVE Stays(f)
    <3>1. life[f] = "mounted" /\ Below[f] # p
      BY <1>0, <1>a, <2>1, <2>4 DEF OnTop
    <3>. QED  BY <1>0, <1>a, <2>1, <2>4, <3>1, OpenBelow DEF Stays
  <2>5. \A f \in FriendsPages : life'[f] = "unborn" => life[f] = "unborn"
    BY <1>0, <1>a, <2>1
  <2>. QED  BY <2>2, <2>3, <2>4, <2>5 DEF PageMove
<1>5. ASSUME NEW p \in Pages, FindUser(p) PROVE PageMove
  <2>1. /\ mCurrentUser' = [mCurrentUser EXCEPT ![p] = Session[Host[p]]]
        /\ userFound' = [userFound EXCEPT ![p] = Session[Host[p]] # null]
        /\ UNCHANGED <<life, groupId, groupType>> /\ p \in asked
    BY <1>5 DEF FindUser, UserIdFound, groupVars
  <2>2. OwnUser'
    BY <1>0, <2>1 DEF OwnUser
  <2>3. OnePage'
    BY <1>0, <2>1 DEF OnePage
  <2>4. ASSUME NEW f \in FriendsPages, life'[f] = "mounted" PROVE Stays(f)
    <3>1. life[f] = "mounted" /\ life[Below[f]] = "mounted" /\ userFound[Below[f]]
      BY <2>1, <2>4, OpenBelow
    <3>2. Below[f] # p
      BY <1>a, <2>1, <3>1 DEF SetupInv, UserKnown
    <3>3. userFound'[Below[f]]
      BY <1>0, <1>a, <2>1, <3>1, <3>2
    <3>. QED  BY <2>1, <3>1, <3>3 DEF Stays
  <2>5. \A f \in FriendsPages : life'[f] = "unborn" => life[f] = "unborn"
    BY <2>1
  <2>. QED  BY <2>2, <2>3, <2>4, <2>5 DEF PageMove
<1>6. ASSUME NEW d \in Devices, Kill(d) PROVE PageMove
  <2>1. /\ life' = [p \in Pages |-> IF Host[p] = d /\ life[p] = "mounted"
                                    THEN "disposed" ELSE life[p]]
        /\ UNCHANGED <<userFound, mCurrentUser, groupId, groupType>>
    BY <1>6 DEF Kill, KillProcess, groupVars
  <2>2. \A p \in Pages : /\ life'[p] = "unborn" => life[p] = "unborn"
                         /\ life'[p] = "mounted" <=> life[p] = "mounted" /\ Host[p] # d
    BY <2>1
  <2>3. OwnUser'
    BY <1>0, <2>1 DEF OwnUser
  <2>4. OnePage'
    BY <1>0, <1>a, <2>2 DEF OnePage
  <2>5. ASSUME NEW f \in FriendsPages, life'[f] = "mounted" PROVE Stays(f)
    BY <1>a, <2>1, <2>2, <2>5, OpenBelow DEF Stays
  <2>. QED  BY <1>a, <2>2, <2>3, <2>4, <2>5 DEF PageMove
<1>7. CASE UNCHANGED <<pageVars, groupVars>>
  BY <1>7, MoveNothing DEF groupVars
<1>8. \/ UNCHANGED <<pageVars, groupVars>>
      \/ User \/ \E p \in Pages : FindUser(p)
      \/ \E d \in Devices : Kill(d)
  BY DEF Next, Client, Sync, GroupIdAnswer, GroupStatusAnswer, Apply, Ack, Release, Break,
         Answer, vars
<1>9. ASSUME NEW f \in FriendsPages, Tap(f) \/ PressNext(f)
      PROVE  UNCHANGED <<pageVars, groupVars>>
  BY <1>9 DEF Tap, PressNext
<1>. QED  BY <1>1, <1>2, <1>3, <1>4, <1>5, <1>6, <1>7, <1>8, <1>9 DEF User

\* Which pages are asking, after a question, an answer and a delivery.
LEMMA AskingCall ==
    ASSUME NEW Q, calls \in [Devices -> Seq(Q)], NEW e \in Devices, NEW q \in Q,
           calls' = [calls EXCEPT ![e] = Append(calls[e], q)], replies' = replies,
           NEW d \in Devices, NEW p
    PROVE  Asking(d, p)' <=> Asking(d, p) \/ (d = e /\ q.page = p)
<1>1. CASE d # e
  <2>1. calls'[d] = calls[d]
    BY <1>1
  <2>. QED  BY <1>1, <2>1 DEF Asking
<1>2. CASE d = e
  <2>. PICK s : s = calls[d]
    OBVIOUS
  <2>. PICK r : r = Append(s, q)
    OBVIOUS
  <2>. PICK m : m = Len(s)
    OBVIOUS
  <2>1. s \in Seq(Q) /\ calls'[d] = r
    BY <1>2
  <2>2. /\ m \in Nat /\ DOMAIN s = 1 .. m /\ DOMAIN r = 1 .. (m + 1) /\ r[m + 1] = q
        /\ \A k \in 1 .. m : r[k] = s[k]
    BY <2>1, LenProperties, AppendProperties
  <2>3. m + 1 \in 1 .. (m + 1) /\ \A k \in 1 .. m : k \in 1 .. (m + 1)
        /\ \A j \in 1 .. (m + 1) : j # m + 1 => j \in 1 .. m
    BY <2>2
  <2>4. (\E i \in DOMAIN r : r[i].page = p) <=> (\E i \in DOMAIN s : s[i].page = p) \/ q.page = p
    BY <2>2, <2>3
  <2>. QED  BY <1>2, <2>1, <2>4 DEF Asking
<1>. QED  BY <1>1, <1>2

LEMMA AskingAnswer ==
    ASSUME NEW D, NEW Q, FsTypeOK(D, Q), NEW e \in Devices, NEW i \in DOMAIN calls[e],
           AnswerFromServer(e, i) \/ AnswerFromCache(e, i), NEW d \in Devices, NEW p
    PROVE  Asking(d, p)' <=> Asking(d, p)
<1>1. PICK a : /\ calls' = [calls EXCEPT ![e] = RemoveAt(calls[e], i)]
               /\ replies' = [replies EXCEPT ![e] = Append(replies[e], a)]
               /\ a.call = calls[e][i]
  BY DEF AnswerFromServer, AnswerFromCache, Answered, Snapshot
<1>2. /\ calls \in [Devices -> Seq(Q)] /\ replies \in [Devices -> Seq(AnswersOf(D, Q))]
  BY DEF FsTypeOK
<1>3. CASE d # e
  <2>1. calls'[d] = calls[d] /\ replies'[d] = replies[d]
    BY <1>1, <1>2, <1>3
  <2>. QED  BY <2>1 DEF Asking
<1>4. CASE d = e
  <2>. PICK s : s = calls[e]
    OBVIOUS
  <2>. PICK s2 : s2 = RemoveAt(s, i)
    OBVIOUS
  <2>. PICK t : t = replies[e]
    OBVIOUS
  <2>. PICK t2 : t2 = Append(t, a)
    OBVIOUS
  <2>1. /\ s \in Seq(Q) /\ t \in Seq(AnswersOf(D, Q)) /\ i \in DOMAIN s
        /\ calls'[e] = s2 /\ replies'[e] = t2
    BY <1>1, <1>2
  <2>2. /\ \A j \in DOMAIN s2 : \E k \in DOMAIN s : s2[j] = s[k]
        /\ \A k \in DOMAIN s : k # i => \E j \in DOMAIN s2 : s2[j] = s[k]
    BY <2>1, RemoveAtProperties, RemoveAtKeeps
  <2>. PICK m : m = Len(t)
    OBVIOUS
  <2>3. /\ m \in Nat /\ DOMAIN t = 1 .. m /\ DOMAIN t2 = 1 .. (m + 1) /\ t2[m + 1] = a
        /\ \A k \in 1 .. m : t2[k] = t[k]
    BY <2>1, LenProperties
  <2>4. m + 1 \in 1 .. (m + 1) /\ \A k \in 1 .. m : k \in 1 .. (m + 1)
        /\ \A j \in 1 .. (m + 1) : j # m + 1 => j \in 1 .. m
    BY <2>3
  <2>5. (\E j \in DOMAIN t2 : t2[j].call.page = p) <=>
            (\E j \in DOMAIN t : t[j].call.page = p) \/ s[i].page = p
    BY <1>1, <2>3, <2>4
  <2>6. (\E j \in DOMAIN s : s[j].page = p) <=>
            (\E j \in DOMAIN s2 : s2[j].page = p) \/ s[i].page = p
    <3>1. ASSUME NEW j \in DOMAIN s, s[j].page = p
          PROVE  (\E k \in DOMAIN s2 : s2[k].page = p) \/ s[i].page = p
      <4>1. CASE j = i
        BY <3>1, <4>1
      <4>2. CASE j # i
        <5>1. PICK k \in DOMAIN s2 : s2[k] = s[j]
          BY <2>2, <4>2
        <5>. QED  BY <3>1, <5>1
      <4>. QED  BY <4>1, <4>2
    <3>2. ASSUME NEW j \in DOMAIN s2, s2[j].page = p
          PROVE  \E k \in DOMAIN s : s[k].page = p
      <4>1. PICK k \in DOMAIN s : s2[j] = s[k]
        BY <2>2
      <4>. QED  BY <3>2, <4>1
    <3>. QED  BY <2>1, <3>1, <3>2
  <2>7. Asking(d, p) <=> \/ \E j \in DOMAIN s : s[j].page = p
                         \/ \E j \in DOMAIN t : t[j].call.page = p
    BY <1>4 DEF Asking
  <2>8. Asking(d, p)' <=> \/ \E j \in DOMAIN s2 : s2[j].page = p
                          \/ \E j \in DOMAIN t2 : t2[j].call.page = p
    BY <1>4, <2>1 DEF Asking
  <2>. QED  BY <2>5, <2>6, <2>7, <2>8
<1>. QED  BY <1>3, <1>4

LEMMA AskingDelivered ==
    ASSUME NEW D, NEW Q, FsTypeOK(D, Q), NEW e \in Devices, replies[e] # <<>>,
           Deliver(e, <<>>), NEW d \in Devices, NEW p
    PROVE  /\ Asking(d, p)' => Asking(d, p)
           /\ Asking(d, p) => Asking(d, p)' \/ (d = e /\ Head(replies[e]).call.page = p)
<1>1. calls' = calls /\ RepliesAreOld(d)
  BY DeliverTypes
<1>2. replies' = [replies EXCEPT ![e] = Tail(replies[e])]
      /\ replies \in [Devices -> Seq(AnswersOf(D, Q))]
  BY DEF Deliver, FsTypeOK
<1>3. Asking(d, p)' => Asking(d, p)
  BY <1>1 DEF Asking, RepliesAreOld
<1>4. CASE d # e
  <2>1. replies'[d] = replies[d]
    BY <1>2, <1>4
  <2>. QED  BY <1>1, <1>3, <2>1 DEF Asking
<1>5. CASE d = e
  <2>. PICK s : s = replies[e]
    OBVIOUS
  <2>. PICK r : r = Tail(s)
    OBVIOUS
  <2>1. s \in Seq(AnswersOf(D, Q)) /\ replies'[e] = r
    BY <1>2
  <2>2. /\ 1 \in DOMAIN s /\ Head(s) = s[1] /\ r \in Seq(AnswersOf(D, Q))
        /\ \A j \in DOMAIN r : j + 1 \in DOMAIN s /\ r[j] = s[j + 1]
    BY <2>1, TailElements
  <2>3. /\ DOMAIN s = 1 .. Len(s) /\ Len(s) \in Nat /\ DOMAIN r = 1 .. Len(s) - 1
    BY <2>1, <2>2, LenProperties, HeadTailProperties
  <2>4. ASSUME NEW k \in DOMAIN s, s[k].call.page = p, k # 1
        PROVE  \E j \in DOMAIN r : r[j].call.page = p
    <3>1. k - 1 \in DOMAIN r /\ (k - 1) + 1 = k
      BY <2>3, <2>4
    <3>2. r[k - 1] = s[k]
      BY <2>2, <3>1
    <3>. QED  BY <2>4, <3>1, <3>2
  <2>5. ASSUME Asking(d, p), ~(Head(s).call.page = p) PROVE Asking(d, p)'
    <3>1. CASE \E i \in DOMAIN calls[d] : calls[d][i].page = p
      BY <1>1, <3>1 DEF Asking
    <3>2. CASE \E k \in DOMAIN s : s[k].call.page = p
      <4>1. \E j \in DOMAIN r : r[j].call.page = p
        BY <2>2, <2>4, <2>5, <3>2
      <4>. QED  BY <1>5, <2>1, <4>1 DEF Asking
    <3>. QED  BY <1>5, <2>5, <3>1, <3>2 DEF Asking
  <2>. QED  BY <1>3, <1>5, <2>5
<1>. QED  BY <1>4, <1>5

\* What a step may do with the reads, the writes and the fields of the
\* Friends pages: a page that was not there knows nothing, one that stays
\* goes on to find the note.
ClientMove ==
    /\ DOMAIN getStatus' = FriendsPages /\ OwnNotes' /\ OwnCalls'
    /\ \A f \in FriendsPages :
          /\ life[f] = "unborn" => ~getStatus'[f] /\ ~Asking(Host[f], f)'
          /\ Stays(f) => \A note : note = NoteOf(Below[f]) => Finds(f, note)'

LEMMA FindsStep ==
    ASSUME NEW f \in FriendsPages, NEW note, Finds(f, note),
           NoteIs(Host[f], note) => NoteIs(Host[f], note)',
           Asking(Host[f], Below[f]) => Asking(Host[f], Below[f])' \/ NoteIs(Host[f], note)',
           Asking(Host[f], f)' => Asking(Host[f], f) \/ NoteIs(Host[f], note)',
           \A j \in DOMAIN replies'[Host[f]] :
              replies'[Host[f]][j].call.page = f => replies'[Host[f]][j].docs \subseteq {note},
           getStatus'[f] => group'[f] = note.id /\ type'[f] = note.type
    PROVE  Finds(f, note)'
BY DEF Finds

\* A Friends page that stays: its phone, its user, and the note it is after.
LEMMA StaysFacts ==
    ASSUME SetupInv, StatusInv, NEW f \in FriendsPages, Stays(f)
    PROVE  /\ Host[f] \in Devices /\ Below[f] \in GroupPages /\ Host[Below[f]] = Host[f]
           /\ Below[f] # f /\ Session[Host[f]] \in Users
           /\ life[Below[f]] = "mounted" /\ Finds(f, NoteOf(Below[f]))
<1>1. /\ f \in Pages /\ Below[f] \in GroupPages /\ Below[f] \in Pages
      /\ Host[Below[f]] = Host[f] /\ Below[f] # f /\ Host[f] \in Devices
  BY SetupAssumption, HostAssumption
<1>2. /\ life[Below[f]] = "mounted" /\ userFound[Below[f]] /\ Finds(f, NoteOf(Below[f]))
  BY DEF Stays, StatusInv, Opened
<1>3. mCurrentUser[Below[f]] \in Users /\ mCurrentUser[Below[f]] = Session[Host[f]]
  BY <1>1, <1>2 DEF SetupInv, UserKnown, StatusInv, OwnUser
<1>. QED  BY <1>1, <1>2, <1>3

LEMMA UnbornFacts ==
    ASSUME StatusInv, NEW f \in FriendsPages, life[f] = "unborn"
    PROVE  Host[f] \in Devices /\ ~getStatus[f] /\ ~Asking(Host[f], f)
BY SetupAssumption, HostAssumption DEF StatusInv, Unopened

\* Old replies tell a Friends page what they told it before.
LEMMA OldDocs ==
    ASSUME NEW f \in FriendsPages, NEW note, Finds(f, note), RepliesAreOld(Host[f]),
           NEW j \in DOMAIN replies'[Host[f]], replies'[Host[f]][j].call.page = f
    PROVE  replies'[Host[f]][j].docs \subseteq {note}
<1>1. PICK k \in DOMAIN replies[Host[f]] : replies'[Host[f]][j] = replies[Host[f]][k]
  BY DEF RepliesAreOld
<1>. QED  BY <1>1 DEF Finds

\* Notes and calls of a phone's own.
LEMMA OwnCallsOld ==
    ASSUME OwnCalls, \A e \in Devices : CallsAreOld(e)
    PROVE  OwnCalls'
BY DEF OwnCalls, CallsAreOld

LEMMA NoteSame ==
    ASSUME NEW d, NEW note, UNCHANGED <<store, cache, outbox, applied, learnt>>
    PROVE  NoteIs(d, note)' <=> NoteIs(d, note)
BY DEF NoteIs

\* Nothing happens to the client and the Friends pages.
LEMMA ClientRests ==
    ASSUME SetupInv, StatusInv, UNCHANGED <<fsVars, getStatus, type, group>>
    PROVE  ClientMove
<1>1. UNCHANGED <<store, cache, outbox, applied, learnt, calls, replies>>
  BY DEF fsVars, sendVars
<1>2. DOMAIN getStatus' = FriendsPages /\ OwnNotes' /\ OwnCalls'
  BY <1>1 DEF StatusInv, OwnNotes, OwnCalls
<1>3. \A d, p : Asking(d, p)' <=> Asking(d, p)
  BY <1>1 DEF Asking
<1>4. \A d, note : NoteIs(d, note)' <=> NoteIs(d, note)
  BY <1>1 DEF NoteIs
<1>5. ASSUME NEW f \in FriendsPages, life[f] = "unborn"
      PROVE  ~getStatus'[f] /\ ~Asking(Host[f], f)'
  BY <1>3, <1>5, UnbornFacts
<1>6. ASSUME NEW f \in FriendsPages, Stays(f), NEW note, note = NoteOf(Below[f])
      PROVE  Finds(f, note)'
  <2>1. Finds(f, note)
    BY <1>6, StaysFacts
  <2>. QED  BY <1>1, <1>3, <1>4, <2>1 DEF Finds
<1>. QED  BY <1>2, <1>5, <1>6 DEF ClientMove

\* A question is asked; when a Friends page asks, its note is there.
LEMMA CallMove ==
    ASSUME SetupInv, StatusInv, NEW e \in Devices, NEW q \in SetupQueries,
           calls' = [calls EXCEPT ![e] = Append(calls[e], q)],
           UNCHANGED <<store, cache, outbox, sendVars, replies, getStatus, type, group>>,
           q.page \in FriendsPages =>
              /\ life[q.page] # "unborn" /\ q = StatusQuery(q.page, Session[e])
              /\ \A p : ~Asking(e, p)
    PROVE  ClientMove
<1>0. FsTypeOK(SetupDocs, SetupQueries) /\ calls \in [Devices -> Seq(SetupQueries)]
      /\ calls[e] \in Seq(SetupQueries)
  BY DEF SetupInv, SetupTypeOK, FsTypeOK
<1>1. UNCHANGED <<store, cache, outbox, applied, learnt, replies>>
  BY DEF sendVars
<1>2. \A d \in Devices : \A p : Asking(d, p)' <=> Asking(d, p) \/ (d = e /\ q.page = p)
  BY <1>0, AskingCall
<1>3. DOMAIN getStatus' = FriendsPages /\ OwnNotes'
  BY <1>1 DEF StatusInv, OwnNotes
<1>. PICK s : s = Append(calls[e], q)
  OBVIOUS
<1>4. /\ calls'[e] = s /\ \A d \in Devices : d # e => calls'[d] = calls[d]
      /\ \A j \in DOMAIN s : s[j] = q \/ \E k \in DOMAIN calls[e] : s[j] = calls[e][k]
  BY <1>0, AppendElements
<1>5. OwnCalls'
  <2>. SUFFICES ASSUME NEW d \in Devices, NEW j \in DOMAIN calls'[d],
                       calls'[d][j].page \in FriendsPages
                PROVE  calls'[d][j] = StatusQuery(calls'[d][j].page, Session[d])
    BY DEF OwnCalls, StatusQuery, Get, Where
  <2>1. CASE d = e /\ calls'[d][j] = q
    BY <2>1
  <2>2. CASE \E k \in DOMAIN calls[d] : calls'[d][j] = calls[d][k]
    BY <2>2 DEF StatusInv, OwnCalls
  <2>3. CASE d = e
    BY <1>4, <2>1, <2>2, <2>3
  <2>4. CASE d # e
    BY <1>4, <2>2, <2>4
  <2>. QED  BY <2>3, <2>4
<1>6. ASSUME NEW f \in FriendsPages, life[f] = "unborn"
      PROVE  ~getStatus'[f] /\ ~Asking(Host[f], f)'
  BY <1>2, <1>6, UnbornFacts
<1>7. ASSUME NEW f \in FriendsPages, Stays(f), NEW note, note = NoteOf(Below[f])
      PROVE  Finds(f, note)'
  <2>. PICK d : d = Host[f]
    OBVIOUS
  <2>. PICK p : p = Below[f]
    OBVIOUS
  <2>1. Finds(f, note) /\ d \in Devices
    BY <1>7, StaysFacts
  <2>2. NoteIs(d, note)' <=> NoteIs(d, note)
    BY <1>1, NoteSame
  <2>3. Asking(d, p) => Asking(d, p)'
    BY <1>2, <2>1
  <2>4. Asking(d, f)' => Asking(d, f) \/ NoteIs(d, note)'
    <3>1. CASE d = e /\ q.page = f
      BY <2>1, <2>2, <3>1 DEF Finds
    <3>. QED  BY <1>2, <2>1, <3>1
  <2>5. \A j \in DOMAIN replies'[d] :
            replies'[d][j].call.page = f => replies'[d][j].docs \subseteq {note}
    BY <1>1, <2>1 DEF Finds
  <2>6. getStatus'[f] => group'[f] = note.id /\ type'[f] = note.type
    BY <2>1 DEF Finds
  <2>. QED  BY <2>1, <2>2, <2>3, <2>4, <2>5, <2>6, FindsStep
<1>. QED  BY <1>3, <1>5, <1>6, <1>7 DEF ClientMove

LEMMA CreateMove ==
    ASSUME SetupInv, StatusInv, NEW p \in GroupPages, NEW g \in GroupIds,
           NEW f \in FriendsPages, Create(p, g, f)
    PROVE  ClientMove
<1>. PICK e : e = Host[p]
  OBVIOUS
<1>. PICK q : q = GroupIdQuery(p, g)
  OBVIOUS
<1>1. /\ calls' = [calls EXCEPT ![e] = Append(calls[e], q)]
      /\ UNCHANGED <<store, cache, outbox, sendVars, replies, getStatus, type, group>>
  BY DEF Create, InitHomee, friendsVars
<1>2. e \in Devices /\ p \notin FriendsPages /\ groupType[p] \in GroupTypes
  BY SetupAssumption, HostAssumption DEF SetupInv, SetupTypeOK
<1>3. q \in SetupQueries /\ q.page = p
  BY <1>2 DEF SetupQueries, IdQueries, GroupIdQuery, Where
<1>. QED  BY <1>1, <1>2, <1>3, CallMove

LEMMA TapMove ==
    ASSUME Unhurried, SetupInv, StatusInv, NEW f \in FriendsPages, Tap(f)
    PROVE  ClientMove
<1>. PICK e : e = Host[f]
  OBVIOUS
<1>. PICK q : q = StatusQuery(f, mCurrentUser[f])
  OBVIOUS
<1>1. /\ FormShown(f) /\ Idle(e)
      /\ calls' = [calls EXCEPT ![e] = calls[e]]
           \/ calls' = [calls EXCEPT ![e] = Append(calls[e], q)]
      /\ UNCHANGED <<store, cache, outbox, sendVars, replies, getStatus, type, group>>
  BY DEF Tap, TapFriend
<1>2. f \in Pages /\ e \in Devices
  BY SetupAssumption, HostAssumption
<1>3. mCurrentUser[f] \in Users /\ mCurrentUser[f] = Session[e]
  BY <1>1, <1>2 DEF SetupInv, UserKnown, FormShown, StatusInv, OwnUser
<1>4. q \in SetupQueries /\ q.page = f /\ q = StatusQuery(f, Session[e])
  BY <1>3 DEF SetupQueries, StatusQueries, StatusQuery, Get, Where
<1>5. life[f] # "unborn" /\ \A p : ~Asking(e, p)
  BY <1>1 DEF FormShown, Idle, Asking
<1>6. CASE calls' = [calls EXCEPT ![e] = Append(calls[e], q)]
  BY <1>1, <1>2, <1>4, <1>5, <1>6, CallMove
<1>7. CASE calls' = [calls EXCEPT ![e] = calls[e]]
  <2>1. calls' = calls
    BY <1>7 DEF SetupInv, SetupTypeOK, FsTypeOK
  <2>. QED  BY <1>1, <2>1, ClientRests DEF fsVars
<1>. QED  BY <1>1, <1>6, <1>7

\* A phone's own notes, when its new writes are such notes or no notes.
LEMMA OwnNotesStep ==
    ASSUME OwnNotes,
           \A e \in Devices : \A j \in DOMAIN outbox'[e] :
              \/ \E k \in DOMAIN outbox[e] : outbox'[e][j] = outbox[e][k]
              \/ \A u \in Users : outbox'[e][j].path = CreationPath(u) => u = Session[e]
    PROVE  OwnNotes'
BY DEF OwnNotes, CreationPath

LEMMA PressNextMove ==
    ASSUME SetupInv, StatusInv, NEW g \in FriendsPages, PressNext(g)
    PROVE  ClientMove
<1>. PICK e : e = Host[g]
  OBVIOUS
<1>. PICK w : w = MemberWrite(g)
  OBVIOUS
<1>. PICK new : new = Append(outbox[e], w)
  OBVIOUS
<1>1. /\ outbox' = [outbox EXCEPT ![e] = new]
      /\ UNCHANGED <<store, cache, sendVars, calls, replies, getStatus, type, group>>
  BY DEF PressNext, AddToFireStore, SetData, MemberWrite
<1>2. /\ e \in Devices /\ w \in WritesOf(SetupDocs) /\ \A u : w.path # CreationPath(u)
  <2>1. e \in Devices
    BY SetupAssumption, HostAssumption
  <2>2. w \in WritesOf(SetupDocs) /\ w.path = MemberPath(type[g], group[g])
    BY MemberNeeds
  <2>3. \A u : CreationPath(u) # MemberPath(type[g], group[g])
    BY CollsDiffer
  <2>. QED  BY <2>1, <2>2, <2>3
<1>3. /\ outbox \in [Devices -> Seq(WritesOf(SetupDocs))] /\ outbox[e] \in Seq(WritesOf(SetupDocs))
  BY <1>2 DEF SetupInv, SetupTypeOK, FsTypeOK
<1>4. /\ outbox'[e] = new /\ \A d \in Devices : d # e => outbox'[d] = outbox[d]
      /\ \A j \in DOMAIN new : new[j] = w \/ \E k \in DOMAIN outbox[e] : new[j] = outbox[e][k]
      /\ UNCHANGED <<store, cache, applied, learnt, calls, replies>>
  BY <1>1, <1>2, <1>3, AppendElements DEF sendVars
<1>5. OwnNotes'
  <2>1. \A d \in Devices : \A j \in DOMAIN outbox'[d] :
           \/ \E k \in DOMAIN outbox[d] : outbox'[d][j] = outbox[d][k]
           \/ \A u \in Users : outbox'[d][j].path = CreationPath(u) => u = Session[d]
    BY <1>2, <1>4
  <2>. QED  BY <2>1, OwnNotesStep DEF StatusInv
<1>6. DOMAIN getStatus' = FriendsPages /\ OwnCalls'
  BY <1>1 DEF StatusInv, OwnCalls
<1>7. \A d, p : Asking(d, p)' <=> Asking(d, p)
  BY <1>4 DEF Asking
<1>8. ASSUME NEW f \in FriendsPages, life[f] = "unborn"
      PROVE  ~getStatus'[f] /\ ~Asking(Host[f], f)'
  BY <1>1, <1>7, <1>8, UnbornFacts
<1>9. ASSUME NEW d \in Devices, NEW note, NoteIs(d, note) PROVE NoteIs(d, note)'
  <2>1. CASE d # e
    BY <1>4, <1>9, <2>1 DEF NoteIs
  <2>2. CASE d = e
    <3>. PICK x : x = CreationPath(Session[d])
      OBVIOUS
    <3>1. Shows(outbox[e], applied[e], store[x], cache[e][x], x \in learnt[e], x, note)
      BY <1>9, <2>2 DEF NoteIs
    <3>2. w.path # x
      BY <1>2
    <3>3. Shows(Append(outbox[e], w), applied[e], store[x], cache[e][x], x \in learnt[e], x, note)
      BY <1>2, <1>3, <3>1, <3>2, ShowsOther, Zenon
    <3>. QED  BY <1>4, <2>2, <3>3 DEF NoteIs
  <2>. QED  BY <2>1, <2>2
<1>10. ASSUME NEW f \in FriendsPages, Stays(f), NEW note, note = NoteOf(Below[f])
       PROVE  Finds(f, note)'
  <2>1. Finds(f, note) /\ Host[f] \in Devices
    BY <1>10, StaysFacts
  <2>. QED  BY <1>1, <1>4, <1>7, <1>9, <2>1 DEF Finds
<1>. QED  BY <1>5, <1>6, <1>8, <1>10 DEF ClientMove

LEMMA WritesDropped ==
    ASSUME SetupInv, OwnNotes, NEW e \in Devices, ReleaseWrite(e) \/ RestartClient(e)
    PROVE  OwnNotes'
<1>1. /\ outbox \in [Devices -> Seq(WritesOf(SetupDocs))] /\ SendTypeOK
      /\ \A w \in WritesOf(SetupDocs) : w.path \in Paths
  BY DEF SetupInv, SetupTypeOK, FsTypeOK, WritesOf
<1>2. PICK n \in 0 .. acked[e] : Dropped(e, n)
  BY <1>1, DropSteps
<1>3. \A d \in Devices : \A j \in DOMAIN outbox'[d] :
         \E k \in DOMAIN outbox[d] : outbox'[d][j] = outbox[d][k]
  <2>. SUFFICES ASSUME NEW d \in Devices, NEW j \in DOMAIN outbox'[d]
                PROVE  \E k \in DOMAIN outbox[d] : outbox'[d][j] = outbox[d][k]
    OBVIOUS
  <2>1. CASE d = e
    BY <1>2, <2>1 DEF Dropped
  <2>2. CASE d # e
    BY <1>2, <2>2 DEF Dropped
  <2>. QED  BY <2>1, <2>2
<1>. QED  BY <1>3, OwnNotesStep

LEMMA SyncMove ==
    ASSUME OneAccountEach, SetupInv, StatusInv, NEW e \in Devices, Sync(e)
    PROVE  ClientMove
<1>1. UNCHANGED <<calls, replies, getStatus, type, group>>
  BY DEF Sync, Apply, Ack, Release, Break, ApplyWrite, AckWrite, ReleaseWrite, BreakStream, friendsVars
<1>2. OwnNotes'
  <2>1. CASE ReleaseWrite(e)
    BY <2>1, WritesDropped DEF StatusInv
  <2>2. CASE outbox' = outbox
    BY <2>2 DEF StatusInv, OwnNotes
  <2>. QED  BY <2>1, <2>2 DEF Sync, Apply, Ack, Release, Break, ApplyWrite, AckWrite, BreakStream
<1>3. DOMAIN getStatus' = FriendsPages /\ OwnCalls'
  BY <1>1 DEF StatusInv, OwnCalls
<1>4. \A d, p : Asking(d, p)' <=> Asking(d, p)
  BY <1>1 DEF Asking
<1>5. ASSUME NEW f \in FriendsPages, life[f] = "unborn"
      PROVE  ~getStatus'[f] /\ ~Asking(Host[f], f)'
  BY <1>1, <1>4, <1>5, UnbornFacts
<1>6. ASSUME NEW f \in FriendsPages, Stays(f), NEW note, note = NoteOf(Below[f])
      PROVE  Finds(f, note)'
  <2>1. Finds(f, note) /\ Host[f] \in Devices /\ Session[Host[f]] \in Users
    BY <1>6, StaysFacts
  <2>2. NoteIs(Host[f], note) => NoteIs(Host[f], note)'
    BY <2>1, NoteKept DEF StatusInv
  <2>. QED  BY <1>1, <1>4, <2>1, <2>2 DEF Finds
<1>. QED  BY <1>2, <1>3, <1>5, <1>6 DEF ClientMove

\* A phone that is killed has no page left that could stay.
LEMMA KillMove ==
    ASSUME SetupInv, StatusInv, NEW e \in Devices, Kill(e)
    PROVE  ClientMove
<1>0. /\ FsTypeOK(SetupDocs, SetupQueries) /\ calls \in [Devices -> Seq(SetupQueries)]
      /\ outbox \in [Devices -> Seq(WritesOf(SetupDocs))]
      /\ applied \in [Devices -> Nat] /\ learnt \in [Devices -> SUBSET Paths]
      /\ replies \in [Devices -> Seq(AnswersOf(SetupDocs, SetupQueries))]
  BY DEF SetupInv, SetupTypeOK, FsTypeOK, SendTypeOK
<1>1. /\ RestartClient(e) /\ UNCHANGED <<getStatus, type, group>>
      /\ life' = [p \in Pages |-> IF Host[p] = e /\ life[p] = "mounted"
                                  THEN "disposed" ELSE life[p]]
  BY DEF Kill, KillProcess, friendsVars
<1>2. OwnNotes'
  BY <1>1, WritesDropped DEF StatusInv
<1>3. \A d \in Devices : CallsAreOld(d) /\ RepliesAreOld(d)
  BY <1>0, <1>1, RestartTypes
<1>4. DOMAIN getStatus' = FriendsPages /\ OwnCalls'
  BY <1>1, <1>3, OwnCallsOld DEF StatusInv
<1>5. \A d \in Devices : \A p : Asking(d, p)' => Asking(d, p)
  BY <1>3 DEF Asking, CallsAreOld, RepliesAreOld
<1>6. ASSUME NEW f \in FriendsPages, life[f] = "unborn"
      PROVE  ~getStatus'[f] /\ ~Asking(Host[f], f)'
  BY <1>1, <1>5, <1>6, UnbornFacts
<1>7. ASSUME NEW f \in FriendsPages, Stays(f), NEW note, note = NoteOf(Below[f])
      PROVE  Finds(f, note)'
  <2>. PICK d : d = Host[f]
    OBVIOUS
  <2>1. Finds(f, note) /\ d \in Devices
    BY <1>7, StaysFacts
  <2>2. d # e
    <3>1. f \in Pages
      BY SetupAssumption
    <3>. QED  BY <1>1, <1>7, <3>1 DEF Stays
  <2>3. /\ outbox'[d] = outbox[d] /\ applied'[d] = applied[d] /\ learnt'[d] = learnt[d]
        /\ calls'[d] = calls[d] /\ replies'[d] = replies[d] /\ UNCHANGED <<store, cache>>
    BY <1>0, <1>1, <2>1, <2>2 DEF RestartClient
  <2>4. NoteIs(d, note)' <=> NoteIs(d, note)
    BY <2>3 DEF NoteIs
  <2>5. \A p : Asking(d, p)' <=> Asking(d, p)
    BY <2>3 DEF Asking
  <2>. QED  BY <1>1, <2>1, <2>3, <2>4, <2>5 DEF Finds
<1>. QED  BY <1>2, <1>4, <1>6, <1>7 DEF ClientMove

\* A phone that shows the note answers the question for it with that note.
LEMMA NoteDocs ==
    ASSUME SetupInv, NEW d \in Devices, Session[d] \in Users, NEW note, NoteIs(d, note), NEW f,
           NEW base, base = store \/ base = cache[d]
    PROVE  Snapshot(LocalView(base, outbox[d]), StatusQuery(f, Session[d])).docs \subseteq {note}
<1>. PICK u : u = Session[d]
  OBVIOUS
<1>. PICK q : q = StatusQuery(f, u)
  OBVIOUS
<1>. PICK view : view = LocalView(base, outbox[d])
  OBVIOUS
<1>. PICK x : x = CreationPath(u)
  OBVIOUS
<1>1. q.coll = <<"users", u, "creation">>
  BY DEF StatusQuery, Get, Where
<1>2. x \in Paths
  BY SetupAssumption DEF SetupPaths
<1>3. \A y \in Matching(view, q) : y = x
  <2>. SUFFICES ASSUME NEW y \in Matching(view, q) PROVE y = x
    OBVIOUS
  <2>1. y \in Paths /\ y.coll = <<"users", u, "creation">>
    BY <1>1 DEF Matching
  <2>. QED  BY <2>1, NotePath
<1>4. view[x] = LocalDocument(base, outbox[d], x)
  BY <1>2 DEF LocalView
<1>5. /\ Shows(outbox[d], applied[d], store[x], cache[d][x], x \in learnt[d], x, note)
      /\ outbox[d] \in Seq(WritesOf(SetupDocs)) /\ base[x] \in {store[x], cache[d][x]}
  BY DEF NoteIs, SetupInv, SetupTypeOK, FsTypeOK
<1>6. LocalDocument(base, outbox[d], x) = note
  <2>. DEFINE new == x \in learnt[d]
  <2>1. Shows(outbox[d], applied[d], store[x], cache[d][x], new, x, note)
    BY <1>5
  <2>2. outbox[d] \in Seq(WritesOf(SetupDocs))
    BY <1>5
  <2>3. base[x] \in {store[x], cache[d][x]}
    BY <1>5
  <2>. HIDE DEF new
  <2>. QED  BY ONLY <2>1, <2>2, <2>3, ShowsView
<1>. QED  BY <1>3, <1>4, <1>6 DEF Snapshot

LEMMA AnswerMove ==
    ASSUME OneAccountEach, SetupInv, StatusInv, NEW e \in Devices,
           NEW i \in DOMAIN calls[e], Answer(e, i)
    PROVE  ClientMove
<1>. PICK q : q = calls[e][i]
  OBVIOUS
<1>0. /\ FsTypeOK(SetupDocs, SetupQueries) /\ UNCHANGED <<getStatus, type, group>>
      /\ AnswerFromServer(e, i) \/ AnswerFromCache(e, i)
  BY DEF SetupInv, SetupTypeOK, Answer, friendsVars
<1>1. outbox' = outbox /\ \A d \in Devices : CallsAreOld(d)
  BY <1>0, AnswerTypes
<1>2. OwnNotes' /\ OwnCalls' /\ DOMAIN getStatus' = FriendsPages
  BY <1>0, <1>1, OwnCallsOld DEF StatusInv, OwnNotes
<1>3. \A d \in Devices : \A p : Asking(d, p)' <=> Asking(d, p)
  BY <1>0, AskingAnswer
<1>4. ASSUME NEW f \in FriendsPages, life[f] = "unborn"
      PROVE  ~getStatus'[f] /\ ~Asking(Host[f], f)'
  BY <1>0, <1>3, <1>4, UnbornFacts
<1>5. PICK base, a : /\ base = store \/ base = cache[e]
                     /\ a = Snapshot(LocalView(base, outbox[e]), q)
                     /\ replies' = [replies EXCEPT ![e] = Append(replies[e], a)]
  BY <1>0 DEF AnswerFromServer, AnswerFromCache, Answered
<1>6. /\ a.call = q /\ replies \in [Devices -> Seq(AnswersOf(SetupDocs, SetupQueries))]
      /\ FsTypeOK(SetupDocs, SetupQueries)'
  BY <1>0, <1>5, AnswerTypes DEF Snapshot, FsTypeOK
<1>7. ASSUME NEW j \in DOMAIN replies'[e]
      PROVE  replies'[e][j] = a \/ \E k \in DOMAIN replies[e] : replies'[e][j] = replies[e][k]
  <2>. PICK s : s = replies[e]
    OBVIOUS
  <2>. PICK r : r = Append(s, a)
    OBVIOUS
  <2>1. replies'[e] = r /\ s \in Seq(AnswersOf(SetupDocs, SetupQueries))
    BY <1>5, <1>6
  <2>2. /\ Len(s) \in Nat /\ DOMAIN s = 1 .. Len(s) /\ DOMAIN r = 1 .. (Len(s) + 1)
        /\ r[Len(s) + 1] = a /\ \A k \in 1 .. Len(s) : r[k] = s[k]
    BY <2>1, LenProperties
  <2>3. j = Len(s) + 1 \/ j \in 1 .. Len(s)
    BY <1>7, <2>1, <2>2
  <2>. QED  BY <2>1, <2>2, <2>3
<1>8. ASSUME NEW f \in FriendsPages, Stays(f), NEW note, note = NoteOf(Below[f])
      PROVE  Finds(f, note)'
  <2>. PICK d : d = Host[f]
    OBVIOUS
  <2>1. Finds(f, note) /\ d \in Devices /\ Session[d] \in Users
    BY <1>8, StaysFacts
  <2>2. NoteIs(d, note) => NoteIs(d, note)'
    BY <2>1, NoteKept DEF StatusInv
  <2>3. Asking(d, Below[f]) => Asking(d, Below[f])'
    BY <1>3, <2>1
  <2>4. Asking(d, f)' => Asking(d, f)
    BY <1>3, <2>1
  <2>5. \A k \in DOMAIN replies[d] : replies[d][k].call.page = f => replies[d][k].docs \subseteq {note}
    BY <2>1 DEF Finds
  <2>6. ASSUME NEW j \in DOMAIN replies'[d], replies'[d][j].call.page = f
        PROVE  replies'[d][j].docs \subseteq {note}
    <3>1. CASE d # e
      <4>1. replies'[d] = replies[d]
        BY <1>5, <1>6, <3>1
      <4>. QED  BY <2>5, <2>6, <4>1
    <3>2. CASE \E k \in DOMAIN replies[d] : replies'[d][j] = replies[d][k]
      BY <2>5, <2>6, <3>2
    <3>3. CASE d = e /\ replies'[d][j] = a
      <4>1. q.page = f /\ Asking(d, f)
        BY <1>6, <2>6, <3>3 DEF Asking
      <4>2. NoteIs(d, note)
        BY <2>1, <4>1 DEF Finds
      <4>3. q = StatusQuery(f, Session[d])
        BY <3>3, <4>1 DEF StatusInv, OwnCalls
      <4>4. Snapshot(LocalView(base, outbox[d]), StatusQuery(f, Session[d])).docs \subseteq {note}
        BY <1>5, <2>1, <3>3, <4>2, NoteDocs
      <4>. QED  BY <1>5, <3>3, <4>3, <4>4
    <3>. QED  BY <1>7, <3>1, <3>2, <3>3
  <2>7. getStatus'[f] => group'[f] = note.id /\ type'[f] = note.type
    BY <1>0, <2>1 DEF Finds
  <2>. QED  BY <2>1, <2>2, <2>3, <2>4, <2>6, <2>7, FindsStep
<1>. QED  BY <1>2, <1>4, <1>8 DEF ClientMove

\* Page p of phone e saves its group: the phone writes its own note, and
\* shows it from then on.
LEMMA NoteSaved ==
    ASSUME SetupInv, OwnUser, OwnNotes, NEW e \in Devices, NEW p \in GroupPages, Asker(e, p),
           outbox' = [outbox EXCEPT ![e] = SaveGroup(outbox[e], p)],
           UNCHANGED <<store, cache, sendVars>>, NEW note, note = NoteOf(p)
    PROVE  OwnNotes' /\ NoteIs(e, note)'
<1>. PICK q0 : q0 = outbox[e]
  OBVIOUS
<1>1. PICK w1, w2, w3 \in WritesOf(SetupDocs) :
         /\ SaveGroup(q0, p) = Append(Append(Append(q0, w1), w2), w3)
         /\ SaveWrites(p, w1, w2, w3)
  BY SaveGroupWrites
<1>. PICK q1 : q1 = Append(q0, w1)
  OBVIOUS
<1>. PICK q2 : q2 = Append(q1, w2)
  OBVIOUS
<1>. PICK q3 : q3 = Append(q2, w3)
  OBVIOUS
<1>2. /\ mCurrentUser[p] = Session[e] /\ outbox \in [Devices -> Seq(WritesOf(SetupDocs))]
      /\ q0 \in Seq(WritesOf(SetupDocs)) /\ applied[e] \in Nat /\ applied[e] <= Len(q0)
  BY DEF Asker, OwnUser, SetupInv, SetupTypeOK, FsTypeOK, SendTypeOK
<1>3. /\ outbox'[e] = q3 /\ \A d \in Devices : d # e => outbox'[d] = outbox[d]
      /\ UNCHANGED <<store, cache, applied, learnt>>
  BY <1>1, <1>2 DEF sendVars
<1>4. w3.path = CreationPath(Session[e]) /\ w3.data = note
  BY <1>1, <1>2 DEF SaveWrites, NoteOf
<1>5. (\A u : w1.path # CreationPath(u)) /\ (\A u : w2.path # CreationPath(u))
  <2>1. /\ w1.path = GroupPath(groupType[p], groupId[p])
        /\ w2.path = UserGroupPath(mCurrentUser[p], groupId[p])
    BY <1>1 DEF SaveWrites
  <2>2. ASSUME NEW t, NEW g, NEW u, NEW v, NEW h
        PROVE  /\ GroupPath(t, g) # CreationPath(u) /\ GroupPath(t, g) # MemberPath(v, h)
               /\ CreationPath(u) # UserGroupPath(v, h)
    BY ONLY CollsDiffer
  <2>. QED  BY <2>1, <2>2
<1>6. /\ q1 \in Seq(WritesOf(SetupDocs)) /\ q2 \in Seq(WritesOf(SetupDocs))
      /\ Len(q2) = Len(q0) + 2 /\ Len(q0) \in Nat
  BY <1>2, LenProperties
<1>7. NoteIs(e, note)'
  <2>. PICK x : x = CreationPath(Session[e])
    OBVIOUS
  <2>. DEFINE new == x \in learnt[e]
  <2>1. applied[e] \in 0 .. Len(q2)
    BY <1>2, <1>6
  <2>2. w3.path = x /\ w3.data = note
    BY <1>4
  <2>. HIDE DEF new
  <2>3. Shows(Append(q2, w3), applied[e], store[x], cache[e][x], new, x, note)
    BY <1>6, <2>1, <2>2, ShowsNew
  <2>. USE DEF new
  <2>. QED  BY <1>3, <2>3 DEF NoteIs
<1>8. ASSUME NEW d \in Devices, NEW j \in DOMAIN outbox'[d]
      PROVE  \/ \E k \in DOMAIN outbox[d] : outbox'[d][j] = outbox[d][k]
             \/ \A u \in Users : outbox'[d][j].path = CreationPath(u) => u = Session[d]
  <2>1. CASE d # e
    BY <1>3, <1>8, <2>1
  <2>2. CASE d = e
    <3>1. j \in DOMAIN q3 /\ outbox'[d] = q3
      BY <1>3, <1>8, <2>2
    <3>2. q3[j] = w3 \/ \E k \in DOMAIN q2 : q3[j] = q2[k]
      BY <1>6, <3>1, AppendElements
    <3>3. \A k \in DOMAIN q2 : q2[k] = w2 \/ \E l \in DOMAIN q1 : q2[k] = q1[l]
      BY <1>6, AppendElements
    <3>4. \A k \in DOMAIN q1 : q1[k] = w1 \/ \E l \in DOMAIN q0 : q1[k] = q0[l]
      BY <1>2, AppendElements
    <3>5. q3[j] \in {w1, w2, w3} \/ \E k \in DOMAIN q0 : q3[j] = q0[k]
      <4>1. CASE q3[j] = w3
        BY <4>1
      <4>2. ASSUME NEW k \in DOMAIN q2, q3[j] = q2[k]
            PROVE  q3[j] \in {w1, w2, w3} \/ \E l \in DOMAIN q0 : q3[j] = q0[l]
        <5>1. CASE q2[k] = w2
          BY <4>2, <5>1
        <5>2. ASSUME NEW l \in DOMAIN q1, q2[k] = q1[l]
              PROVE  q3[j] \in {w1, w2, w3} \/ \E n \in DOMAIN q0 : q3[j] = q0[n]
          <6>1. q3[j] = q1[l]
            BY <4>2, <5>2
          <6>2. q1[l] = w1 \/ \E n \in DOMAIN q0 : q1[l] = q0[n]
            BY <3>4
          <6>. QED  BY ONLY <6>1, <6>2
        <5>. QED  BY <3>3, <5>1, <5>2
      <4>. QED  BY <3>2, <4>1, <4>2
    <3>6. \A u : CreationPath(Session[e]) = CreationPath(u) => u = Session[e]
      BY CollsDiffer
    <3>. QED  BY <1>4, <1>5, <2>2, <3>1, <3>5, <3>6
  <2>. QED  BY <2>1, <2>2
<1>9. OwnNotes'
  BY <1>8, OwnNotesStep
<1>. QED  BY <1>7, <1>9

LEMMA GroupIdMove ==
    ASSUME NoLateSaves, SetupInv, StatusInv, NEW e \in Devices, GroupIdAnswer(e)
    PROVE  ClientMove
<1>. PICK r : r = Head(replies[e])
  OBVIOUS
<1>. PICK p : p = r.call.page
  OBVIOUS
<1>0. FsTypeOK(SetupDocs, SetupQueries) /\ OwnUser /\ OwnNotes /\ OnePage
      /\ outbox \in [Devices -> Seq(WritesOf(SetupDocs))]
  BY DEF SetupInv, SetupTypeOK, StatusInv, FsTypeOK
<1>1. /\ replies[e] # <<>> /\ p \in GroupPages /\ Deliver(e, <<>>)
      /\ RunsSetState(p) => outbox' = [outbox EXCEPT ![e] = SaveGroup(outbox[e], p)]
      /\ ~RunsSetState(p) => outbox' = outbox
      /\ UNCHANGED <<store, cache, sendVars, getStatus, type, group>>
  BY DEF GroupIdAnswer, friendsVars
<1>2. /\ Asker(e, p) /\ calls' = calls /\ \A d \in Devices : RepliesAreOld(d)
  BY <1>1, HeadAnswer
<1>3. \A d \in Devices : \A b : /\ Asking(d, b)' => Asking(d, b)
                                /\ Asking(d, b) => Asking(d, b)' \/ (d = e /\ p = b)
  BY <1>0, <1>1, AskingDelivered
<1>4. RunsSetState(p) => OwnNotes' /\ \A note : note = NoteOf(p) => NoteIs(e, note)'
  <2>. SUFFICES ASSUME RunsSetState(p), NEW note, note = NoteOf(p)
                PROVE  OwnNotes' /\ NoteIs(e, note)'
    OBVIOUS
  <2>1. /\ outbox' = [outbox EXCEPT ![e] = SaveGroup(outbox[e], p)]
        /\ UNCHANGED <<store, cache, sendVars>>
    BY <1>1
  <2>. QED  BY <1>0, <1>1, <1>2, <2>1, NoteSaved
<1>5. OwnNotes'
  <2>1. CASE ~RunsSetState(p)
    BY <1>0, <1>1, <2>1 DEF OwnNotes
  <2>. QED  BY <1>4, <2>1
<1>6. DOMAIN getStatus' = FriendsPages /\ OwnCalls'
  BY <1>1, <1>2 DEF StatusInv, OwnCalls
<1>7. ASSUME NEW f \in FriendsPages, life[f] = "unborn"
      PROVE  ~getStatus'[f] /\ ~Asking(Host[f], f)'
  BY <1>1, <1>3, <1>7, UnbornFacts
<1>8. ASSUME NEW f \in FriendsPages, Stays(f), NEW note, note = NoteOf(Below[f])
      PROVE  Finds(f, note)'
  <2>. PICK d : d = Host[f]
    OBVIOUS
  <2>1. /\ Finds(f, note) /\ d \in Devices /\ Below[f] \in GroupPages /\ Host[Below[f]] = d
        /\ life[Below[f]] = "mounted"
    BY <1>8, StaysFacts
  <2>2. \A j \in DOMAIN replies'[d] : replies'[d][j].call.page = f => replies'[d][j].docs \subseteq {note}
    BY <1>2, <2>1, OldDocs
  <2>3. getStatus'[f] => group'[f] = note.id /\ type'[f] = note.type
    BY <1>1, <2>1 DEF Finds
  <2>4. Asking(d, f)' => Asking(d, f)
    BY <1>3, <2>1
  <2>5. CASE d = e /\ RunsSetState(p)
    <3>1. Host[p] = d
      BY <1>2, <2>5 DEF Asker
    <3>2. p = Below[f]
      BY <1>0, <1>1, <2>1, <2>5, <3>1 DEF RunsSetState, OnePage, NoLateSaves
    <3>3. NoteIs(d, note)'
      BY <1>4, <1>8, <2>5, <3>2
    <3>. QED  BY <2>1, <2>2, <2>3, <2>4, <3>3, FindsStep
  <2>6. CASE ~(d = e /\ RunsSetState(p))
    <3>1. outbox'[d] = outbox[d] /\ UNCHANGED <<store, cache, applied, learnt>>
      BY <1>0, <1>1, <2>1, <2>6 DEF sendVars
    <3>2. NoteIs(d, note) => NoteIs(d, note)'
      BY <3>1 DEF NoteIs
    <3>3. ~(d = e /\ p = Below[f])
      BY <2>1, <2>6 DEF RunsSetState
    <3>4. Asking(d, Below[f]) => Asking(d, Below[f])'
      BY <1>3, <2>1, <3>3
    <3>. QED  BY <2>1, <2>2, <2>3, <2>4, <3>2, <3>4, FindsStep
  <2>. QED  BY <2>5, <2>6
<1>. QED  BY <1>5, <1>6, <1>7, <1>8 DEF ClientMove

LEMMA GroupStatusMove ==
    ASSUME SetupInv, StatusInv, NEW e \in Devices, GroupStatusAnswer(e)
    PROVE  ClientMove
<1>. PICK r : r = Head(replies[e])
  OBVIOUS
<1>. PICK g : g = r.call.page
  OBVIOUS
<1>0. /\ FsTypeOK(SetupDocs, SetupQueries) /\ DOMAIN getStatus = FriendsPages
      /\ DOMAIN type = FriendsPages /\ DOMAIN group = FriendsPages
  BY DEF SetupInv, SetupTypeOK, StatusInv, FieldsInv
<1>1. /\ replies[e] # <<>> /\ g \in FriendsPages /\ Deliver(e, <<>>) /\ GroupStatus(g, r)
      /\ UNCHANGED <<store, cache, outbox, applied, learnt>>
  BY DEF GroupStatusAnswer, sendVars
<1>2. /\ Host[g] = e /\ calls' = calls /\ \A d \in Devices : RepliesAreOld(d)
      /\ 1 \in DOMAIN replies[e] /\ r = replies[e][1]
  BY <1>0, <1>1, HeadAnswer, DeliverTypes DEF Asker
<1>3. \A d \in Devices : \A b : /\ Asking(d, b)' => Asking(d, b)
                                /\ Asking(d, b) => Asking(d, b)' \/ (d = e /\ g = b)
  BY <1>0, <1>1, AskingDelivered
<1>4. \/ UNCHANGED <<getStatus, type, group>>
      \/ \E note \in r.docs :
            /\ group' = [group EXCEPT ![g] = note.id]
            /\ type' = [type EXCEPT ![g] = note.type]
            /\ getStatus' = [getStatus EXCEPT ![g] = TRUE]
  BY <1>1 DEF GroupStatus, friendsVars
<1>5. /\ DOMAIN getStatus' = FriendsPages
      /\ \A f \in FriendsPages : f # g =>
            getStatus'[f] = getStatus[f] /\ group'[f] = group[f] /\ type'[f] = type[f]
  BY <1>0, <1>4
<1>6. OwnNotes' /\ OwnCalls'
  BY <1>1, <1>2 DEF StatusInv, OwnNotes, OwnCalls
<1>7. Asking(e, g)
  BY <1>2 DEF Asking
<1>8. ASSUME NEW f \in FriendsPages, life[f] = "unborn"
      PROVE  ~getStatus'[f] /\ ~Asking(Host[f], f)'
  <2>1. Host[f] \in Devices /\ ~getStatus[f] /\ ~Asking(Host[f], f)
    BY <1>8, UnbornFacts
  <2>2. f # g
    BY <1>2, <1>7, <2>1
  <2>. QED  BY <1>3, <1>5, <2>1, <2>2
<1>9. ASSUME NEW f \in FriendsPages, Stays(f), NEW note, note = NoteOf(Below[f])
      PROVE  Finds(f, note)'
  <2>. PICK d : d = Host[f]
    OBVIOUS
  <2>1. Finds(f, note) /\ d \in Devices /\ Below[f] \in GroupPages
    BY <1>9, StaysFacts
  <2>2. \A j \in DOMAIN replies'[d] : replies'[d][j].call.page = f => replies'[d][j].docs \subseteq {note}
    BY <1>2, <2>1, OldDocs
  <2>3. Asking(d, f)' => Asking(d, f)
    BY <1>3, <2>1
  <2>4. Asking(d, Below[f]) => Asking(d, Below[f])'
    BY <1>1, <1>3, <2>1, SetupAssumption
  <2>5. NoteIs(d, note) => NoteIs(d, note)'
    BY <1>1, NoteSame
  <2>6. getStatus'[f] => group'[f] = note.id /\ type'[f] = note.type
    <3>1. getStatus[f] => group[f] = note.id /\ type[f] = note.type
      BY <2>1 DEF Finds
    <3>2. CASE f # g \/ UNCHANGED <<getStatus, type, group>>
      BY <1>5, <3>1, <3>2
    <3>3. CASE f = g /\ ~UNCHANGED <<getStatus, type, group>>
      <4>1. PICK found \in r.docs : /\ group' = [group EXCEPT ![g] = found.id]
                                    /\ type' = [type EXCEPT ![g] = found.type]
        BY <1>4, <3>3
      <4>2. r.docs \subseteq {note}
        BY <1>2, <2>1, <3>3 DEF Finds
      <4>3. found = note
        BY <4>2
      <4>. QED  BY <1>0, <3>3, <4>1, <4>3
    <3>. QED  BY <3>2, <3>3
  <2>. QED  BY <2>1, <2>2, <2>3, <2>4, <2>5, <2>6, FindsStep
<1>. QED  BY <1>5, <1>6, <1>8, <1>9 DEF ClientMove

LEMMA ClientMoves ==
    ASSUME Orderly, SetupInv, StatusInv, [Next]_vars
    PROVE  ClientMove
<1>0. Unhurried /\ OneAccountEach /\ NoLateSaves
  BY DEF Orderly
<1>1. ASSUME NEW p, NEW text, NEW t, OpenNewGroup(p) \/ FindUser(p) \/ Back(p) \/ Edit(p, text, t)
      PROVE  UNCHANGED <<fsVars, getStatus, type, group>>
  BY <1>1 DEF OpenNewGroup, FindUser, Back, Edit, friendsVars
<1>2. CASE UNCHANGED <<fsVars, getStatus, type, group>>
  BY <1>2, ClientRests
<1>3. CASE UNCHANGED vars
  BY <1>2, <1>3 DEF vars, friendsVars
<1>4. CASE User
  BY <1>0, <1>1, <1>2, <1>4, CreateMove, TapMove, PressNextMove DEF User
<1>5. ASSUME NEW p \in Pages, FindUser(p) PROVE ClientMove
  BY <1>1, <1>2, <1>5
<1>6. ASSUME NEW d \in Devices, Client(d) \/ Kill(d) PROVE ClientMove
  BY <1>0, <1>6, GroupIdMove, GroupStatusMove, SyncMove, AnswerMove, KillMove DEF Client
<1>. QED  BY <1>3, <1>4, <1>5, <1>6 DEF Next

\* "Create group" opens a Friends page that knows nothing yet, while the
\* page below asks about the id of its new group.
LEMMA CreateOpens ==
    ASSUME SetupInv, StatusInv, NEW f \in FriendsPages, NEW g \in GroupIds,
           Create(Below[f], g, f), NEW note
    PROVE  /\ life'[Below[f]] = "mounted" /\ userFound'[Below[f]]
           /\ Finds(f, note)'
<1>. PICK p : p = Below[f]
  OBVIOUS
<1>. PICK d : d = Host[f]
  OBVIOUS
<1>. PICK q : q = GroupIdQuery(p, g)
  OBVIOUS
<1>1. /\ f \in Pages /\ p \in GroupPages /\ p \in Pages /\ p # f /\ Host[p] = d /\ d \in Devices
  BY SetupAssumption, HostAssumption
<1>2. /\ FormShown(p) /\ life[f] = "unborn" /\ life' = [life EXCEPT ![f] = "mounted"]
      /\ UNCHANGED <<userFound, replies, getStatus>>
      /\ calls' = [calls EXCEPT ![d] = Append(calls[d], q)]
  BY <1>1 DEF Create, SetGroupId, InitHomee, InitState, friendsVars
<1>3. life \in [Pages -> {"unborn", "mounted", "disposed"}]
      /\ calls \in [Devices -> Seq(SetupQueries)] /\ groupType[p] \in GroupTypes
  BY <1>1 DEF SetupInv, SetupTypeOK, PageTypeOK, FsTypeOK
<1>4. life'[p] = "mounted" /\ userFound'[p]
  BY <1>1, <1>2, <1>3 DEF FormShown
<1>5. q \in SetupQueries /\ q.page = p
  BY <1>1, <1>3 DEF SetupQueries, IdQueries, GroupIdQuery, Where
<1>6. \A e \in Devices : \A b : Asking(e, b)' <=> Asking(e, b) \/ (e = d /\ q.page = b)
  <2>1. /\ calls \in [Devices -> Seq(SetupQueries)] /\ d \in Devices /\ q \in SetupQueries
        /\ calls' = [calls EXCEPT ![d] = Append(calls[d], q)] /\ replies' = replies
    BY <1>1, <1>2, <1>3, <1>5
  <2>2. ASSUME NEW e \in Devices, NEW b
        PROVE  Asking(e, b)' <=> Asking(e, b) \/ (e = d /\ q.page = b)
    BY ONLY <2>1, AskingCall, e \in Devices
  <2>. QED  BY <2>2
<1>7. ~getStatus[f] /\ ~Asking(d, f)
  BY <1>2, UnbornFacts
<1>8. Asking(d, p)' /\ ~Asking(d, f)'
  BY <1>1, <1>5, <1>6, <1>7
<1>9. \A i \in DOMAIN replies[d] : replies[d][i].call.page # f
  BY <1>7 DEF Asking
<1>10. Finds(f, note)'
  BY <1>2, <1>7, <1>8, <1>9 DEF Finds
<1>. QED  BY <1>4, <1>10

LEMMA StatusStep == Orderly /\ SetupInv /\ StatusInv /\ [Next]_vars => StatusInv'
<1>. SUFFICES ASSUME Orderly, SetupInv, StatusInv, [Next]_vars PROVE StatusInv'
  OBVIOUS
<1>1. PageMove /\ ClientMove
  BY PageMoves, ClientMoves
<1>2. DOMAIN getStatus' = FriendsPages /\ OwnUser' /\ OwnNotes' /\ OwnCalls' /\ OnePage'
  BY <1>1 DEF PageMove, ClientMove
<1>3. ASSUME NEW f \in FriendsPages PROVE Unopened(f)'
  BY <1>1 DEF PageMove, ClientMove, Unopened
<1>4. ASSUME NEW f \in FriendsPages, life'[f] = "mounted"
      PROVE  /\ life'[Below[f]] = "mounted" /\ userFound'[Below[f]]
             /\ \A note : note = NoteOf(Below[f])' => Finds(f, note)'
  <2>1. CASE Stays(f)
    <3>1. NoteOf(Below[f])' = NoteOf(Below[f])
      BY <2>1 DEF Stays, NoteOf
    <3>2. \A note : note = NoteOf(Below[f]) => Finds(f, note)'
      BY <1>1, <2>1 DEF ClientMove
    <3>3. life'[Below[f]] = "mounted" /\ userFound'[Below[f]]
      BY <2>1 DEF Stays
    <3>. QED  BY <3>1, <3>2, <3>3
  <2>2. ASSUME NEW g \in GroupIds, Create(Below[f], g, f)
        PROVE  /\ life'[Below[f]] = "mounted" /\ userFound'[Below[f]]
               /\ \A note : Finds(f, note)'
    BY <2>2, CreateOpens
  <2>3. Stays(f) \/ \E g \in GroupIds : Create(Below[f], g, f)
    BY <1>1, <1>4 DEF PageMove
  <2>. QED  BY <2>1, <2>2, <2>3
<1>5. ASSUME NEW f \in FriendsPages PROVE Opened(f)'
  <2>1. ASSUME life'[f] = "mounted" PROVE Finds(f, NoteOf(Below[f]))'
    BY <1>4, <2>1 DEF Finds
  <2>. QED  BY <1>4, <2>1 DEF Opened
<1>. QED  BY <1>2, <1>3, <1>5 DEF StatusInv

\* For a user who waits for the check before touching the friends, with each
\* account on one phone and no NewGroup page left behind that still saves:
\* for any number of phones, pages, users and groups, and however the writes
\* and the reads of getGroupStatus travel, a Friends page that knows a group
\* knows the one that the page below it has created.
THEOREM FriendsAddToTheirGroup == Orderly => (Spec => []StatusIsCurrent)
<1>1. SetupInv /\ StatusInv => StatusIsCurrent
  <2>. SUFFICES ASSUME StatusInv, NEW f \in FriendsPages, life[f] = "mounted", getStatus[f]
                PROVE  group[f] = groupId[Below[f]] /\ type[f] = groupType[Below[f]]
    BY DEF StatusIsCurrent
  <2>1. Finds(f, NoteOf(Below[f]))
    BY DEF StatusInv, Opened
  <2>2. group[f] = NoteOf(Below[f]).id /\ type[f] = NoteOf(Below[f]).type
    BY <2>1 DEF Finds
  <2>. QED  BY <2>2 DEF NoteOf
<1>. SUFFICES ASSUME Orderly PROVE Spec => []StatusIsCurrent
  OBVIOUS
<1>2. SetupInv /\ StatusInv /\ [Next]_vars => (SetupInv /\ StatusInv)'
  BY SetupStep, StatusStep
<1>3. Init => SetupInv /\ StatusInv
  BY SetupInit, StatusInit
<1>. QED  BY <1>1, <1>2, <1>3, PTL DEF Spec

=============================================================================
