-------------------------------- MODULE Page --------------------------------
(***************************************************************************)
(* What the pages of the app that talk to Firestore have in common: the    *)
(* life of a State object, the question who is signed in that initState    *)
(* asks, and what a callback does when its page is gone.                   *)
(*                                                                         *)
(* NewGameState, NewGroupState, GamePageState and HomeeState repeat the    *)
(* same userIdFound / _getCurrentUser code; the form behind it is built    *)
(* only once userFound is TRUE.                                            *)
(***************************************************************************)
EXTENDS Firestore

CONSTANTS Users,       \* the accounts
          null,        \* Dart's null
          Session,     \* Session[d]: the account Firebase has on device d
          Pages,       \* the State objects that can be created
          Host,        \* Host[p]: the device page p runs on
          DebugBuild,  \* TRUE: assertions are compiled in
          MayDie       \* the devices on which the system may kill the app

\* Firebase may have ended the session (signOutByForceWithUserID) while the
\* app still shows the signed-in pages: nothing in RootPage listens to it.
ASSUME SessionAssumption == Session \in [Devices -> Users \union {null}]
ASSUME NullAssumption == null \notin Users
ASSUME HostAssumption == Host \in [Pages -> Devices]
ASSUME BuildAssumption == DebugBuild \in BOOLEAN /\ MayDie \subseteq Devices

VARIABLES life,         \* "unborn", "mounted" or "disposed"
          asked,        \* pages whose auth.currentUser() is outstanding
          userFound,    \* the field userFound of each page
          mCurrentUser  \* the field mCurrentUser of each page

pageVars == <<life, asked, userFound, mCurrentUser>>

PageTypeOK ==
    /\ life \in [Pages -> {"unborn", "mounted", "disposed"}]
    /\ asked \in SUBSET Pages
    /\ userFound \in [Pages -> BOOLEAN]
    /\ mCurrentUser \in [Pages -> Users \union {null}]

PageInit ==
    /\ life = [p \in Pages |-> "unborn"]
    /\ asked = {}
    /\ userFound = [p \in Pages |-> FALSE]
    /\ mCurrentUser = [p \in Pages |-> null]

\* The button or tab that opens a page is covered, or gone, while another
\* page of the phone is there.
Reachable(p) == \A q \in Pages : Host[q] = Host[p] => life[q] # "mounted"

\* Navigator.push: the State is created and initState calls userIdFound.
InitState(p) ==
    /\ life[p] = "unborn"
    /\ life' = [life EXCEPT ![p] = "mounted"]
    /\ asked' = asked \union {p}
    /\ UNCHANGED <<userFound, mCurrentUser>>

\* Mutant of UserIdFound: a user that is null counts as found.
UserIdFound_NullCounts(p) ==
    /\ p \in asked
    /\ asked' = asked \ {p}
    /\ mCurrentUser' = [mCurrentUser EXCEPT ![p] = Session[Host[p]]]
    /\ userFound' = [userFound EXCEPT ![p] = TRUE]
    /\ UNCHANGED life

\* The answer of auth.currentUser().  With no session the print in
\* _getCurrentUser concatenates null and throws: userFound is never set.
UserIdFound(p) ==
    /\ p \in asked
    /\ asked' = asked \ {p}
    /\ mCurrentUser' = [mCurrentUser EXCEPT ![p] = Session[Host[p]]]
    /\ userFound' = [userFound EXCEPT ![p] = Session[Host[p]] # null]
    /\ UNCHANGED life

\* The form is on the screen.
FormShown(p) == life[p] = "mounted" /\ userFound[p]

\* Navigator.pop, by the Cancel button or the system's back button.
Pop(p) ==
    /\ life[p] = "mounted"
    /\ life' = [life EXCEPT ![p] = "disposed"]
    /\ UNCHANGED <<asked, userFound, mCurrentUser>>

\* setState(fn) of a disposed page: the assertion at its head throws in a
\* debug build; a release build runs fn and throws afterwards.
RunsSetState(p) == life[p] = "mounted" \/ ~DebugBuild

\* The system kills the process, with or without one of these pages on the
\* screen: pages and reads in flight are gone.
KillProcess(d) ==
    /\ d \in MayDie
    /\ life' = [p \in Pages |-> IF Host[p] = d /\ life[p] = "mounted"
                                THEN "disposed" ELSE life[p]]
    /\ asked' = {p \in asked : Host[p] # d}
    /\ RestartClient(d)
    /\ UNCHANGED <<userFound, mCurrentUser>>

=============================================================================
