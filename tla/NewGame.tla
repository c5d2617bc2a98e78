------------------------------- MODULE NewGame -------------------------------
(***************************************************************************)
(* The "New game" page (pages/group/sub/newGame_page.dart): the host fills *)
(* in a form and presses Start; the page draws a random id, asks Firestore *)
(* whether a game with that id exists, draws again if so, and otherwise    *)
(* writes the game to groups/gutta/games and to users/<uid>/games.         *)
(*                                                                         *)
(* Pressing Start does not close the page, disable the button or wait for  *)
(* the answer, and the save reads the field gameId, not the id that was    *)
(* asked about.                                                            *)
(***************************************************************************)
EXTENDS Page

CONSTANTS GameIds,     \* the range of Random().nextInt(999999999)
          Draws,       \* Draws[d]: the ids the generator of d comes up with
          Drafts,      \* contents of the form's fields
          EmptyDraft,  \* the fields before anything is entered
          Seed,        \* the documents in the backend at the start
          Overlap,     \* Start may be pressed while a check is in flight
          MaxPresses   \* MaxPresses[p]: bound on the presses of Start on page p

-----------------------------------------------------------------------------
(***************************************************************************)
(* Paths and documents.                                                    *)
(***************************************************************************)

GamesColl == <<"groups", "gutta", "games">>
UserGamesColl(u) == <<"users", u, "games">>

GamePath(g) == [coll |-> GamesColl, id |-> g]
MirrorPath(u, g) == [coll |-> UserGamesColl(u), id |-> g]

GamePaths == {GamePath(g) : g \in GameIds}
MirrorPaths == {MirrorPath(u, g) : u \in Users \union {null}, g \in GameIds}

GameDocs == [gameid : GameIds, form : Drafts]

\* Documents are stored under their own id, and a user's copy of a game is
\* never there without the game.
WellKept(docs) ==
    /\ \A x \in Paths : docs[x] # NoDoc => docs[x].gameid = x.id
    /\ \A u \in Users \union {null}, g \in GameIds :
          docs[MirrorPath(u, g)] # NoDoc => docs[GamePath(g)] # NoDoc

ASSUME PathsAssumption == Paths = GamePaths \union MirrorPaths
ASSUME DocsAssumption == NoDoc \notin GameDocs
ASSUME DrawsAssumption == Draws \in [Devices -> SUBSET GameIds]
ASSUME DraftsAssumption == EmptyDraft \in Drafts
ASSUME SeedAssumption ==
    /\ Seed \in [Paths -> GameDocs \union {NoDoc}]
    /\ WellKept(Seed)
ASSUME NullSeedAssumption == \A g \in GameIds : Seed[MirrorPath(null, g)] = NoDoc
ASSUME PressesAssumption == MaxPresses \in [Pages -> Nat] /\ Overlap \in BOOLEAN

-----------------------------------------------------------------------------

VARIABLES gameId,           \* fields of each NewGameState
          gameIdAvailable,
          draft,            \* _gameName ... _gameInfo
          presses           \* presses[p]: how often Start was pressed

formVars == <<gameId, gameIdAvailable, draft, presses>>
vars == <<fsVars, pageVars, formVars>>

Init ==
    /\ FirestoreInit(Seed)
    /\ PageInit
    /\ gameId = [p \in Pages |-> null]
    /\ gameIdAvailable = [p \in Pages |-> FALSE]
    /\ draft = [p \in Pages |-> EmptyDraft]
    /\ presses = [p \in Pages |-> 0]

OpenPage(p) == Reachable(p) /\ InitState(p) /\ UNCHANGED <<fsVars, formVars>>

FindUser(p) == UserIdFound(p) /\ UNCHANGED <<fsVars, formVars>>

\* onChanged of a text field, the slider, the date and the time picker.
Edit(p, f) ==
    /\ FormShown(p)
    /\ draft' = [draft EXCEPT ![p] = f]
    /\ UNCHANGED <<fsVars, pageVars, gameId, gameIdAvailable, presses>>

\* The read that checkGameId starts for id g.
GameIdQuery(p, g) == Where(p, GamesColl, "gameid", g)

\* Mutant of PressStart: the drawn id is not kept in the field gameId.
PressStart_IdNotKept(p, g) ==
    LET d == Host[p]
    IN  /\ FormShown(p)
        /\ presses[p] < MaxPresses[p]
        /\ Overlap \/ Idle(d)
        /\ g \in Draws[d]
        /\ presses' = [presses EXCEPT ![p] = @ + 1]
        /\ calls' = [calls EXCEPT ![d] = Append(@, GameIdQuery(p, g))]
        /\ UNCHANGED <<store, cache, outbox, sendVars, replies, pageVars, gameId,
                       gameIdAvailable, draft>>

\* The button Start: setGameId draws g, checkGameId asks about it.
PressStart(p, g) ==
    LET d == Host[p]
    IN  /\ FormShown(p)
        /\ presses[p] < MaxPresses[p]
        /\ Overlap \/ Idle(d)
        /\ g \in Draws[d]
        /\ presses' = [presses EXCEPT ![p] = @ + 1]
        /\ gameId' = [gameId EXCEPT ![p] = g]
        /\ calls' = [calls EXCEPT ![d] = Append(@, GameIdQuery(p, g))]
        /\ UNCHANGED <<store, cache, outbox, sendVars, replies, pageVars,
                       gameIdAvailable, draft>>

\* Mutant of SaveGame: the user's copy is written first.
SaveGame_CopyFirst(queue, p) ==
    LET game == [gameid |-> gameId[p], form |-> draft[p]]
    IN  SetData(SetData(queue, MirrorPath(mCurrentUser[p], gameId[p]), game),
                GamePath(gameId[p]), game)

\* Mutant of SaveGame: the copy leaves out what was entered in the form.
SaveGame_CopyBlank(queue, p) ==
    SetData(SetData(queue, GamePath(gameId[p]),
                    [gameid |-> gameId[p], form |-> draft[p]]),
            MirrorPath(mCurrentUser[p], gameId[p]),
            [gameid |-> gameId[p], form |-> EmptyDraft])

\* _saveGame: the queue with its two writes, the group's before the user's.
SaveGame(queue, p) ==
    LET game == [gameid |-> gameId[p], form |-> draft[p]]
    IN  SetData(SetData(queue, GamePath(gameId[p]), game),
                MirrorPath(mCurrentUser[p], gameId[p]), game)

\* Mutant of IdIsFree: the answer is not looked at.
IdIsFree_Unchecked(d) ==
    /\ replies[d] # <<>>
    /\ LET p == Head(replies[d]).call.page
       IN  /\ RunsSetState(p)
           /\ gameIdAvailable' = [gameIdAvailable EXCEPT ![p] = TRUE]
           /\ outbox' = [outbox EXCEPT ![d] = SaveGame(@, p)]
    /\ Deliver(d, <<>>)
    /\ UNCHANGED <<store, cache, sendVars, pageVars, gameId, draft, presses>>

\* The callback of checkGameId finds no such game: save.
IdIsFree(d) ==
    /\ replies[d] # <<>>
    /\ LET r == Head(replies[d])
           p == r.call.page
       IN  /\ RunsSetState(p)
           /\ r.docs = {}
           /\ gameIdAvailable' = [gameIdAvailable EXCEPT ![p] = TRUE]
           /\ outbox' = [outbox EXCEPT ![d] = SaveGame(@, p)]
    /\ Deliver(d, <<>>)
    /\ UNCHANGED <<store, cache, sendVars, pageVars, gameId, draft, presses>>

\* Mutant of IdIsTaken: a new id is drawn but not asked about.
IdIsTaken_NotAsked(d, g) ==
    /\ replies[d] # <<>>
    /\ LET r == Head(replies[d])
           p == r.call.page
       IN  /\ RunsSetState(p)
           /\ r.docs # {}
           /\ g \in Draws[d]
           /\ gameIdAvailable' = [gameIdAvailable EXCEPT ![p] = FALSE]
           /\ gameId' = [gameId EXCEPT ![p] = g]
           /\ Deliver(d, <<>>)
    /\ UNCHANGED <<store, cache, outbox, sendVars, pageVars, draft, presses>>

\* The callback finds a game with this id: draw and ask again.
IdIsTaken(d, g) ==
    /\ replies[d] # <<>>
    /\ LET r == Head(replies[d])
           p == r.call.page
       IN  /\ RunsSetState(p)
           /\ r.docs # {}
           /\ g \in Draws[d]
           /\ gameIdAvailable' = [gameIdAvailable EXCEPT ![p] = FALSE]
           /\ gameId' = [gameId EXCEPT ![p] = g]
           /\ Deliver(d, <<GameIdQuery(p, g)>>)
    /\ UNCHANGED <<store, cache, outbox, sendVars, pageVars, draft, presses>>

\* The callback of a disposed page in a debug build: setState throws.
AnswerLost(d) ==
    /\ replies[d] # <<>>
    /\ ~RunsSetState(Head(replies[d]).call.page)
    /\ Deliver(d, <<>>)
    /\ UNCHANGED <<store, cache, outbox, sendVars, pageVars, formVars>>

Cancel(p) == Pop(p) /\ UNCHANGED <<fsVars, formVars>>

Kill(d) == KillProcess(d) /\ UNCHANGED formVars

Apply(d) == ApplyWrite(d) /\ UNCHANGED <<pageVars, formVars>>
Ack(d) == AckWrite(d) /\ UNCHANGED <<pageVars, formVars>>
Release(d) == ReleaseWrite(d) /\ UNCHANGED <<pageVars, formVars>>
Break(d) == BreakStream(d) /\ UNCHANGED <<pageVars, formVars>>

Sync(d) == Apply(d) \/ Ack(d) \/ Release(d) \/ Break(d)

Answer(d, i) ==
    /\ AnswerFromServer(d, i) \/ AnswerFromCache(d, i)
    /\ UNCHANGED <<pageVars, formVars>>

User(p) ==
    \/ OpenPage(p)
    \/ \E f \in Drafts : Edit(p, f)
    \/ \E g \in GameIds : PressStart(p, g)
    \/ Cancel(p)

Client(d) ==
    \/ IdIsFree(d)
    \/ \E g \in GameIds : IdIsTaken(d, g)
    \/ AnswerLost(d)
    \/ Sync(d)
    \/ \E i \in DOMAIN calls[d] : Answer(d, i)

Next ==
    \/ \E p \in Pages : User(p) \/ FindUser(p)
    \/ \E d \in Devices : Client(d) \/ Kill(d)

Spec == Init /\ [][Next]_vars

\* Reads are answered, answers reach their callbacks and writes reach the
\* backend; a generator that is asked again and again comes up with every
\* id it can draw.
Fairness ==
    \A d \in Devices :
        /\ WF_vars(IdIsFree(d))
        /\ WF_vars(AnswerLost(d))
        /\ WF_vars(Apply(d)) /\ SF_vars(Ack(d))
        /\ WF_vars(\E i \in DOMAIN calls[d] : Answer(d, i))
        /\ \A g \in GameIds : SF_vars(IdIsTaken(d, g))

FairSpec == Spec /\ Fairness

-----------------------------------------------------------------------------
(***************************************************************************)
(* Properties.                                                             *)
(***************************************************************************)

Queries == [page : Pages, coll : {GamesColl}, field : {"gameid"},
            value : GameIds]

\* The types of the fields of NewGameState, of the documents that _saveGame
\* writes and of the reads that checkGameId starts.
TypeOK ==
    /\ PageTypeOK
    /\ store \in [Paths -> GameDocs \union {NoDoc}]
    /\ cache \in [Devices -> [Paths -> GameDocs \union {NoDoc}]]
    /\ outbox \in [Devices -> Seq([path : Paths, data : GameDocs])]
    /\ SendTypeOK
    /\ calls \in [Devices -> Seq(Queries)]
    /\ replies \in [Devices -> Seq([call : Queries, docs : SUBSET GameDocs])]
    /\ gameId \in [Pages -> GameIds \union {null}]
    /\ gameIdAvailable \in [Pages -> BOOLEAN]
    /\ draft \in [Pages -> Drafts]
    /\ presses \in [Pages -> Nat]
    /\ \A p \in Pages : presses[p] <= MaxPresses[p]

\* A page whose check is in flight holds an id: _saveGame never formats null.
Asking ==
    \A d \in Devices :
        /\ \A i \in DOMAIN calls[d] : gameId[calls[d][i].page] \in GameIds
        /\ \A i \in DOMAIN replies[d] :
              gameId[replies[d][i].call.page] \in GameIds

\* A user's list of games (users/<uid>/games) never
\* names a game the group does not have, whatever is pressed, lost, killed
\* or drawn twice: _saveGame queues the group's document first.
ShelfNeedsGame == WellKept(store)

\* Nothing is queued for, or stored below, users/null: the form is shown
\* only after userIdFound got past the print of the user's id.
NoNullUser ==
    \A g \in GameIds :
        /\ store[MirrorPath(null, g)] = NoDoc
        /\ \A d \in Devices : \A i \in DOMAIN outbox[d] :
              outbox[d][i].path # MirrorPath(null, g)

\* No write for path x is on its way to the backend.
Settled(x) ==
    \A d \in Devices : \A i \in DOMAIN outbox[d] : outbox[d][i].path # x

\* Two phones do not draw the same id, and the copies that are there at the
\* start agree with their games and are not of a game that another user's
\* phone can draw.
CopiesApart ==
    /\ \A d, e \in Devices : d # e => Draws[d] \intersect Draws[e] = {}
    /\ \A u \in Users, g \in GameIds :
          Seed[MirrorPath(u, g)] # NoDoc =>
              /\ Seed[MirrorPath(u, g)] = Seed[GamePath(g)]
              /\ \A d \in Devices : g \in Draws[d] => u = Session[d]

\* The two documents of _saveGame agree once both are written, even if the
\* form was edited or Start pressed again while the id was being checked.
CopiesAgree ==
    \A u \in Users, g \in GameIds :
        LET x == GamePath(g)
            y == MirrorPath(u, g)
        IN  Settled(x) /\ Settled(y) /\ store[y] # NoDoc => store[y] = store[x]

\* Every press of Start is answered in the end: the id the page holds is
\* that of a game on its user's list, unless the page was closed.
StartSettles ==
    \A p \in Pages :
        <>[](life[p] = "mounted" /\ presses[p] > 0
                => store[MirrorPath(mCurrentUser[p], gameId[p])] # NoDoc)

-----------------------------------------------------------------------------
(***************************************************************************)
(* What the check of the id is for, under the assumptions it needs: two    *)
(* phones do not draw the same id (an offline phone none that exists),     *)
(* nobody presses Start during a check, and a phone that may be offline is *)
(* not killed, since a restart forgets acknowledged writes that were held. *)
(***************************************************************************)

DrawsApart ==
    /\ \A d, e \in Devices : d # e => Draws[d] \intersect Draws[e] = {}
    /\ \A d \in Flaky : \A g \in Draws[d] : Seed[GamePath(g)] = NoDoc

BoardOf(docs) == [g \in GameIds |-> docs[GamePath(g)]]
ShelfOf(docs) == [u \in Users |-> [g \in GameIds |-> docs[MirrorPath(u, g)]]]

Board == INSTANCE GameBoard WITH
            NoGame <- NoDoc,
            FirstBoard <- BoardOf(Seed), FirstShelf <- ShelfOf(Seed),
            board <- BoardOf(store), shelf <- ShelfOf(store)

\* Every step of the backend's documents publishes a game under an id that
\* was free, or copies a published game to its host's list: a published
\* game is never replaced by checkGameId and _saveGame.
ImplementsGameBoard == Board!Spec

\* The page of a check in flight on d still holds the id it asked about.
HoldsItsId(d, q) ==
    /\ Host[q.page] = d
    /\ gameId[q.page] = q.value
    /\ q.value \in Draws[d]

\* No game with id g is in the backend or on its way from d.
IsFree(d, g) ==
    /\ store[GamePath(g)] = NoDoc
    /\ \A i \in DOMAIN outbox[d] : outbox[d][i].path # GamePath(g)

\* At most one check of d is in flight, and when it found no game that is
\* still true when its callback runs.
ChecksOK(d) ==
    /\ Len(calls[d]) + Len(replies[d]) <= 1
    /\ \A i \in DOMAIN calls[d] : HoldsItsId(d, calls[d][i])
    /\ \A i \in DOMAIN replies[d] :
          /\ HoldsItsId(d, replies[d][i].call)
          /\ replies[d][i].docs = {} => IsFree(d, replies[d][i].call.value)

\* Write i of d is the only one for its path, new to the backend unless it is
\* sent again, and a copy whose game is in the backend or ahead in the queue.
WriteOK(d, i) ==
    LET w == outbox[d][i]
        game == GamePath(w.path.id)
    IN  /\ w.path.id \in Draws[d]
        /\ w.data.gameid = w.path.id
        /\ store[w.path] \in {NoDoc, w.data}
        /\ i <= applied[d] => store[w.path] = w.data
        /\ \A j \in DOMAIN outbox[d] : outbox[d][j].path = w.path => j = i
        /\ \/ w.path = game
           \/ store[game] = w.data
           \/ \E j \in 1..(i - 1) : outbox[d][j] = [path |-> game, data |-> w.data]

\* A phone that may be offline knows the games under the ids it can draw,
\* from its cache or because they are in its queue; what it learnt of its own
\* writes is what the backend has.
CacheOK(d) ==
    /\ \A x \in learnt[d] : x.id \in Draws[d] /\ cache[d][x] = store[x]
    /\ d \in Flaky =>
          \A g \in Draws[d] :
              \/ cache[d][GamePath(g)] = store[GamePath(g)]
              \/ \E i \in DOMAIN outbox[d] : outbox[d][i].path = GamePath(g)

\* Why checkGameId and _saveGame keep the promise of GameBoard although they
\* are separate steps: answers stay true, queued games are new, copies follow
\* their games, and own games are remembered offline.
PublishInv ==
    /\ ShelfNeedsGame
    /\ \A d \in Devices :
          /\ ChecksOK(d)
          /\ \A i \in DOMAIN outbox[d] : WriteOK(d, i)
          /\ CacheOK(d)

=============================================================================
