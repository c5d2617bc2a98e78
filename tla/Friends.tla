------------------------------- MODULE Friends -------------------------------
(***************************************************************************)
(* The page that follows "Create group": Homee in friends/friends.dart.    *)
(* It lists the user's friends under the title "Add to group"; a tap looks *)
(* up which group was created last, "Next" adds a document to that group's *)
(* members.                                                                *)
(*                                                                         *)
(* The map data that Next adds is never filled (addToMap is commented      *)
(* out), and what getUser reads is not used, so neither has a variable.    *)
(***************************************************************************)
EXTENDS Page

CONSTANTS FriendsPages, \* the pages that are HomeeStates
          MaxTouches    \* MaxTouches[f]: bound on the taps and presses of Next on f

VARIABLES getStatus, type, group,  \* fields of each HomeeState (groupId is
                                   \* called group here)
          touches                  \* touches[f]: taps and presses of Next so far

friendsVars == <<getStatus, type, group, touches>>

MembersColl(t, g) == <<"groups", t, "groups", g, "members">>

\* Where add() puts its document.  The id it makes up is left out: all the
\* documents are the empty map, so one path stands for "at least one".
MemberPath(t, g) == [coll |-> MembersColl(t, g), id |-> <<"auto">>]

FriendsInit ==
    /\ getStatus = [f \in FriendsPages |-> FALSE]
    /\ type = [f \in FriendsPages |-> null]
    /\ group = [f \in FriendsPages |-> null]
    /\ touches = [f \in FriendsPages |-> 0]

\* The path of the note that getGroupStatus reads for user u.
StatusQuery(f, u) == Get(f, [coll |-> <<"users", u, "creation">>, id |-> <<"0">>])

\* initState.  userIdFound waits for the user, getGroupStatus does not: it
\* reads users/null/creation/0.  Nothing is ever stored there (NoDanglingGroup
\* of GroupSetup), so its callback does nothing and the read is left out.
InitHomee(f) ==
    /\ InitState(f)
    /\ UNCHANGED friendsVars

\* A tap on a friend: ask for the group unless it is known.
TapFriend(f) ==
    /\ FormShown(f)
    /\ touches[f] < MaxTouches[f]
    /\ touches' = [touches EXCEPT ![f] = @ + 1]
    /\ calls' = [calls EXCEPT ![Host[f]] =
                    IF getStatus[f] THEN @
                    ELSE Append(@, StatusQuery(f, mCurrentUser[f]))]
    /\ UNCHANGED <<store, cache, outbox, sendVars, replies, getStatus, type, group>>

\* The callback of getGroupStatus; r is the answer.
GroupStatus(f, r) ==
    IF r.docs # {} /\ RunsSetState(f)
    THEN \E note \in r.docs :
            /\ group' = [group EXCEPT ![f] = note.id]
            /\ type' = [type EXCEPT ![f] = note.type]
            /\ getStatus' = [getStatus EXCEPT ![f] = TRUE]
            /\ UNCHANGED touches
    ELSE UNCHANGED friendsVars

\* The button "Next" in the title bar, which is there from the first frame:
\* _addToFireStore adds the empty map.
AddToFireStore(f) ==
    /\ life[f] = "mounted"
    /\ touches[f] < MaxTouches[f]
    /\ touches' = [touches EXCEPT ![f] = @ + 1]
    /\ outbox' = [outbox EXCEPT ![Host[f]] =
                     SetData(@, MemberPath(type[f], group[f]), <<>>)]
    /\ UNCHANGED <<store, cache, sendVars, calls, replies, getStatus, type, group>>

=============================================================================
