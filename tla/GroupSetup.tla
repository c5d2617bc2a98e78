----------------------------- MODULE GroupSetup -----------------------------
(***************************************************************************)
(* Creating a group: NewGroup and the Friends page it pushes on top of     *)
(* itself.  The button "Create group" starts the check of the id and       *)
(* opens Friends in the same turn, so the group and its note are written   *)
(* while the user is already choosing its members.                         *)
(***************************************************************************)
EXTENDS NewGroup, Friends

CONSTANTS Below,    \* Below[f]: the NewGroup page that opens page f
          Unhurried \* the user waits until the check is through before
                    \* touching the friends or pressing Next

SetupPaths ==
    {GroupPath(t, g) : t \in GroupTypes, g \in GroupIds}
    \union {UserGroupPath(u, g) : u \in Users, g \in GroupIds}
    \union {CreationPath(u) : u \in Users \union {null}}
    \union {MemberPath(t, g) : t \in GroupTypes, g \in GroupIds}
    \union {MemberPath(null, null)}

ASSUME SetupAssumption ==
    /\ Pages = GroupPages \union FriendsPages
    /\ GroupPages \intersect FriendsPages = {}
    /\ Below \in [FriendsPages -> GroupPages]
    /\ \A f \in FriendsPages : Host[f] = Host[Below[f]]
    /\ MaxTouches \in [FriendsPages -> Nat]
    /\ Unhurried \in BOOLEAN
    /\ Paths = SetupPaths

\* The documents the two pages write: a group, the note, an empty map.
Groups == [groupid : GroupIds, text : GroupTexts, host : Users]
Notes == [id : GroupIds, type : GroupTypes]
SetupDocs == Groups \union Notes \union {<<>>}

ASSUME SetupDocsAssumption == NoDoc \notin SetupDocs /\ null \notin GroupTypes

vars == <<fsVars, pageVars, groupVars, friendsVars>>

Init ==
    /\ FirestoreInit([x \in Paths |-> NoDoc])
    /\ PageInit
    /\ NewGroupInit
    /\ FriendsInit

\* Page p is not under a Friends page.
OnTop(p) == \A f \in FriendsPages : Below[f] = p => life[f] # "mounted"

OpenNewGroup(p) ==
    /\ Reachable(p)
    /\ InitState(p)
    /\ UNCHANGED <<fsVars, groupVars, friendsVars>>

FindUser(p) == UserIdFound(p) /\ UNCHANGED <<fsVars, groupVars, friendsVars>>

Edit(p, text, t) ==
    /\ OnTop(p)
    /\ EditGroup(p, text, t)
    /\ UNCHANGED <<fsVars, pageVars, friendsVars>>

\* The button "Create group": setGroupId, then Navigator.push of Friends.
Create(p, g, f) ==
    LET d == Host[p]
    IN  /\ OnTop(p) /\ Below[f] = p
        /\ SetGroupId(p, g)
        /\ InitHomee(f)
        /\ calls' = [calls EXCEPT ![d] = Append(@, GroupIdQuery(p, g))]
        /\ UNCHANGED <<store, cache, outbox, sendVars, replies>>

\* Mutant of GroupIdAnswer: the answer counts only while the page is on top.
GroupIdAnswer_OnTop(d) ==
    LET p == Head(replies[d]).call.page
    IN  /\ replies[d] # <<>> /\ p \in GroupPages
        /\ outbox' = IF RunsSetState(p) /\ OnTop(p)
                     THEN [outbox EXCEPT ![d] = SaveGroup(@, p)]
                     ELSE outbox
        /\ Deliver(d, <<>>)
        /\ UNCHANGED <<store, cache, sendVars, pageVars, groupVars, friendsVars>>

\* The answer of checkGroupId: the three writes of _saveGroup and creation.
\* The other branch, a new draw, needs a document where none is stored.
GroupIdAnswer(d) ==
    LET p == Head(replies[d]).call.page
    IN  /\ replies[d] # <<>> /\ p \in GroupPages
        /\ outbox' = IF RunsSetState(p)
                     THEN [outbox EXCEPT ![d] = SaveGroup(@, p)]
                     ELSE outbox
        /\ Deliver(d, <<>>)
        /\ UNCHANGED <<store, cache, sendVars, pageVars, groupVars, friendsVars>>

GroupStatusAnswer(d) ==
    LET r == Head(replies[d])
    IN  /\ replies[d] # <<>> /\ r.call.page \in FriendsPages
        /\ GroupStatus(r.call.page, r)
        /\ Deliver(d, <<>>)
        /\ UNCHANGED <<store, cache, outbox, sendVars, pageVars, groupVars>>

Tap(f) ==
    /\ Unhurried => Idle(Host[f])
    /\ TapFriend(f) /\ UNCHANGED <<pageVars, groupVars>>

PressNext(f) ==
    /\ Unhurried => Idle(Host[f])
    /\ AddToFireStore(f) /\ UNCHANGED <<pageVars, groupVars>>

Back(p) ==
    /\ p \in GroupPages => OnTop(p)
    /\ Pop(p) /\ UNCHANGED <<fsVars, groupVars, friendsVars>>

Kill(d) == KillProcess(d) /\ UNCHANGED <<groupVars, friendsVars>>

Apply(d) == ApplyWrite(d) /\ UNCHANGED <<pageVars, groupVars, friendsVars>>
Ack(d) == AckWrite(d) /\ UNCHANGED <<pageVars, groupVars, friendsVars>>
Release(d) == ReleaseWrite(d) /\ UNCHANGED <<pageVars, groupVars, friendsVars>>
Break(d) == BreakStream(d) /\ UNCHANGED <<pageVars, groupVars, friendsVars>>

Sync(d) == Apply(d) \/ Ack(d) \/ Release(d) \/ Break(d)

Answer(d, i) ==
    /\ AnswerFromServer(d, i) \/ AnswerFromCache(d, i)
    /\ UNCHANGED <<pageVars, groupVars, friendsVars>>

User ==
    \/ \E p \in GroupPages :
          \/ OpenNewGroup(p)
          \/ \E text \in GroupTexts, t \in GroupTypes : Edit(p, text, t)
          \/ \E g \in GroupIds, f \in FriendsPages : Create(p, g, f)
    \/ \E f \in FriendsPages : Tap(f) \/ PressNext(f)
    \/ \E p \in Pages : Back(p)

Client(d) ==
    \/ GroupIdAnswer(d)
    \/ GroupStatusAnswer(d)
    \/ Sync(d)
    \/ \E i \in DOMAIN calls[d] : Answer(d, i)

Next ==
    \/ User
    \/ \E p \in Pages : FindUser(p)
    \/ \E d \in Devices : Client(d) \/ Kill(d)

Spec == Init /\ [][Next]_vars

Fairness ==
    \A d \in Devices :
        /\ WF_vars(GroupIdAnswer(d))
        /\ WF_vars(GroupStatusAnswer(d))
        /\ WF_vars(Apply(d)) /\ SF_vars(Ack(d))
        /\ WF_vars(\E i \in DOMAIN calls[d] : Answer(d, i))

FairSpec == Spec /\ Fairness

-----------------------------------------------------------------------------
(***************************************************************************)
(* Properties.                                                             *)
(***************************************************************************)

Present(x) == store[x] # NoDoc

\* The backend never holds a reference to a group it does not hold: neither
\* the note in creation/0, nor the host's copy, nor a document among the
\* members of a group that Next was told about.  There is no note of null.
\* What Next writes below groups/null, told of no group, is exempt.
NoDanglingGroup ==
    /\ ~Present(CreationPath(null))
    /\ \A u \in Users :
          Present(CreationPath(u)) =>
              LET note == store[CreationPath(u)]
              IN  Present(GroupPath(note.type, note.id))
    /\ \A u \in Users, g \in GroupIds :
          Present(UserGroupPath(u, g)) =>
              \E t \in GroupTypes : Present(GroupPath(t, g))
    /\ \A t \in GroupTypes, g \in GroupIds :
          Present(MemberPath(t, g)) => Present(GroupPath(t, g))

\* "Add to group": once the Friends page knows a group, it is the group that
\* the page below has just created.
StatusIsCurrent ==
    \A f \in FriendsPages :
        life[f] = "mounted" /\ getStatus[f]
            => /\ group[f] = groupId[Below[f]]
               /\ type[f] = groupType[Below[f]]

\* "Create group" is answered in the end, although the Friends page covers
\* the page that waits for checkGroupId: the id that page holds is that of a
\* group among its user's, unless the page was closed.
CreateSettles ==
    \A p \in GroupPages :
        <>[](life[p] = "mounted" /\ creates[p] > 0
                => Present(UserGroupPath(mCurrentUser[p], groupId[p])))

=============================================================================
