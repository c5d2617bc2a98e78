------------------------------ MODULE NewGroup ------------------------------
(***************************************************************************)
(* The "New group" page (pages/group/sub/newGroup.dart).  "Create group"   *)
(* draws an id, asks Firestore about it and, when the answer is there,     *)
(* writes the group, the host's copy of it and users/<uid>/creation/0, the *)
(* note from which the next page learns which group was created.           *)
(*                                                                         *)
(* checkGroupId asks collection groups/<type>/<id>, but groups are stored  *)
(* in groups/<type>/groups: no document is ever in the collection asked,   *)
(* every id counts as free, and a group with the same id is replaced.      *)
(***************************************************************************)
EXTENDS Page

CONSTANTS GroupPages,   \* the pages that are NewGroupStates
          GroupIds,     \* the range of Random().nextInt(999999999)
          GroupTypes,   \* the tiles of publicAndPrivate that are used
          GroupTexts,   \* contents of the name and info fields
          MaxCreates    \* bound on the presses of "Create group" on a page

GroupPath(t, g) == [coll |-> <<"groups", t, "groups">>, id |-> g]
UserGroupPath(u, g) == [coll |-> <<"users", u, "groups">>, id |-> g]

\* users/<u>/creation/0; the id is a tuple because ids that add() makes are.
CreationPath(u) == [coll |-> <<"users", u, "creation">>, id |-> <<"0">>]

ASSUME GroupAssumption ==
    /\ GroupPages \subseteq Pages
    /\ "public" \in GroupTypes /\ GroupTypes \subseteq {"public", "private"}
    /\ "unnamed" \in GroupTexts
    /\ MaxCreates \in Nat
    /\ \A t \in GroupTypes, g \in GroupIds : GroupPath(t, g) \in Paths

VARIABLES groupId, groupType,  \* fields of each NewGroupState
          groupText,           \* _groupName and _groupInfo
          creates              \* creates[p]: presses of "Create group"

groupVars == <<groupId, groupType, groupText, creates>>

NewGroupInit ==
    /\ groupId = [p \in GroupPages |-> null]
    /\ groupType = [p \in GroupPages |-> "public"]
    /\ groupText = [p \in GroupPages |-> "unnamed"]
    /\ creates = [p \in GroupPages |-> 0]

\* The text fields, and the two list tiles of publicAndPrivate.
EditGroup(p, text, type) ==
    /\ FormShown(p)
    /\ groupText' = [groupText EXCEPT ![p] = text]
    /\ groupType' = [groupType EXCEPT ![p] = type]
    /\ UNCHANGED <<groupId, creates>>

\* The collection and the field checkGroupId asks.
GroupIdQuery(p, g) == Where(p, <<"groups", groupType[p], g>>, "groupid", g)

\* setGroupId, as far as the answer of checkGroupId.
SetGroupId(p, g) ==
    /\ FormShown(p)
    /\ creates[p] < MaxCreates
    /\ creates' = [creates EXCEPT ![p] = @ + 1]
    /\ groupId' = [groupId EXCEPT ![p] = g]
    /\ UNCHANGED <<groupType, groupText>>

\* Mutant of SaveGroup: creation() runs before _saveGroup().
SaveGroup_NoteFirst(queue, p) ==
    LET u == mCurrentUser[p]
        g == groupId[p]
        group == [groupid |-> g, text |-> groupText[p], host |-> u]
    IN  SetData(SetData(SetData(queue, CreationPath(u),
                                [id |-> g, type |-> groupType[p]]),
                        GroupPath(groupType[p], g), group),
                UserGroupPath(u, g), group)

\* Mutant of SaveGroup: only the first group of a page gets a note.
SaveGroup_NoteOnce(queue, p) ==
    LET u == mCurrentUser[p]
        g == groupId[p]
        group == [groupid |-> g, text |-> groupText[p], host |-> u]
        saved == SetData(SetData(queue, GroupPath(groupType[p], g), group),
                         UserGroupPath(u, g), group)
    IN  IF creates[p] = 1
        THEN SetData(saved, CreationPath(u), [id |-> g, type |-> groupType[p]])
        ELSE saved

\* _saveGroup and creation: three writes from the fields as they are now.
SaveGroup(queue, p) ==
    LET u == mCurrentUser[p]
        g == groupId[p]
        group == [groupid |-> g, text |-> groupText[p], host |-> u]
    IN  SetData(SetData(SetData(queue, GroupPath(groupType[p], g), group),
                        UserGroupPath(u, g), group),
                CreationPath(u), [id |-> g, type |-> groupType[p]])

=============================================================================
