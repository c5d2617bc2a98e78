# TLA+ models of the p0ker app

The repository is a Flutter app (`src/lib`, about 2900 lines of Dart) in which
people who play poker together register, look each other up, create groups and
announce games. There is no server code: the pages talk directly to Firebase
Authentication and Cloud Firestore. Everything else in the tree (`ios/Pods`,
`build`, the Android and iOS runners) is vendored or generated.

The logic that can go wrong is in the asynchronous parts of the pages. A page
asks a question in one turn of the event loop, goes on accepting touches, and
acts on the answer in a later turn from fields that may have changed; what it
then writes is several independent documents. There is no transaction, no lock
and no unique key anywhere, so every guarantee comes from the order of steps.
That is what the modules here model.

## Inventory

### Components, their state and their operations

| Component | Source | State | Operations |
|---|---|---|---|
| RootPage | `root_page.dart` | `authStatus` | `initState` (asks `currentUser`), `onSignIn` |
| Login page | `pages/login/login.dart` | `_username`, `_email`, `usernameAvailable`, form type, the text fields | `moveToRegister`, `moveToLogin`, `checkUsername`, `validateAndSubmit`, `saveUserData` |
| Auth | `auth.dart` | none of its own (Firebase keeps the session) | `currentUser`, `signIn`, `createUser` |
| New game page | `pages/group/sub/newGame_page.dart` | `gameId`, `gameIdAvailable`, `_game*`, `userFound`, `mCurrentUser` | editing, Start (`setGameId`, `checkGameId`), `_saveGame`, Cancel |
| New group page | `pages/group/sub/newGroup.dart` | `groupId`, `groupType`, name and info, `userFound`, `mCurrentUser` | editing, Create group (`setGroupId`, `checkGroupId`), `_saveGroup`, `creation`, Cancel |
| Friends page | `friends/friends.dart` | `group`, `type`, `getStatus`, `userFound`, `mCurrentUser` | tap on a friend (`getGroupStatus`), Next (`_addToFireStore`) |
| User search tab | `pages/userSearch/user_search.dart` | `queryText`, `searchedUserId`, `friendUsername`, `friendUserId`, the global `_fresh` | submit, the stream of results, the add button (`_fetch`, `_add`) |
| Groups tab | `pages/group/game_page.dart` | `userFound`, `mCurrentUser` | a stream of `users/<uid>/groups`; opens the page New |
| New page | `pages/group/sub/new.dart` | none | opens New game and New group |
| Bottom navigation | `bottom_nav.dart` | the chosen tab | `onTap` creates and disposes the tabs |
| Firestore client | vendored, `ios/Pods/FirebaseFirestore` | mutation queue, cache | `setData`, `add`, `getDocuments`, `get`, `snapshots` |
| its write path | `FSTRemoteStore`, `FSTStream`, `FSTLocalStore`, `FSTLevelDBMutationQueue` | pipeline, write stream, batch ids, held results, snapshot version | `fillWritePipeline`, the stream's callbacks and timers, `acknowledgeBatchWithResult`, `rejectBatchID`, `applyRemoteEvent`, `start`, `userDidChange` |
| Firebase Authentication | vendored | accounts, session | as called by Auth |
| Table, template home page, widgets, constants | `Games/`, `pages/login/home_page.dart`, `widgets/`, `utils/`, `tools/` | none that is used | layout |

### How they interact

* RootPage hands `onSignIn` to the Login page; the answer of `signIn` or
  `createUser` calls it and RootPage replaces the Login page.
* Pages are pushed on a stack. New game and New group cover New; Create group
  pushes the Friends page on top of New group, which stays alive under it and
  still waits for its answer.
* New group and Friends communicate through a document:
  `users/<uid>/creation/0`, written by the one, read by the other.
* User search reads the profiles that Login writes.
* Nothing reads `users/<uid>/games`, the user's copies of games.
* Every page writes through the one Firestore client of the phone. A change of
  the user (a sign-in) swaps its mutation queue and restarts its streams.
* Every page has its own copy of "who is signed in", asked for in `initState`.

### What is hard about it

* Callbacks run late, on pages that have been edited, pressed again, covered or
  disposed. `setState` on a disposed page throws: in a debug build before the
  function it is given runs, in a release build after.
* A check ("is this id, this name free?") and the write that relies on it are
  separate round trips, and other phones act in between.
* One logical operation is two or three documents. The process may be killed,
  or the connection lost, between any two.
* Offline, a question is answered from the local cache, where what is not known
  looks like what does not exist.
* The client sends a write again when the acknowledgement was lost, drops what
  it knows about acknowledged writes when it starts again, and keeps the writes
  of a user who is not signed in.
* A session may end while pages that need it are open; `null` then becomes part
  of a path.

`PROJECT.json` lists these as hazards, each at the line where it bites.

### What makes each component correct

* **New game**: a game that was published is not replaced by another; the
  user's list never names a game that is not there; the two copies agree; every
  press of Start ends in a game; nothing is filed under `users/null`.
* **New group and Friends**: nothing refers to a group that is not there; the
  friends are added to the group that was just created; every press of Create
  group ends in a group.
* **Login and RootPage**: the home page needs a session; a late answer of
  `initState` does not undo a sign-in; a profile belongs to the account it is
  filed under; every account gets a profile; names are unique.
* **User search**: a friend entry is about one user, is filed under that user,
  and belongs to the user who tapped; a tap has an effect; the list shows what
  was searched last.
* **Write path of the client**: writes arrive in order and at least once, only
  a refused write is rejected, an acknowledgement meets its own write, the cache
  never goes back to an older version, and every write of the user who is signed
  in is settled.

## Modules

| Module | Models | Uses |
|---|---|---|
| `Firestore` | the store: backend, per-phone cache, mutation queue, reads in flight | |
| `WriteClient` | the client's machinery behind `setData`: pipeline, write stream, acknowledgements | |
| `WriteOrder` | what that machinery promises, in the terms of `Firestore` | |
| `Page` | what the pages share: life of a State, `userIdFound`, `setState` after disposal, kill | `Firestore` |
| `NewGame` | the New game page on any number of phones | `Page` |
| `GameBoard` | what New game promises: games are published once, then copied | |
| `NewGroup`, `Friends` | the two pages | `Page` |
| `GroupSetup` | the two composed: Create group pushes Friends | `NewGroup`, `Friends` |
| `UserSearch` | the search tab, with the bottom navigation that creates and disposes it | `Page` |
| `Login` | Login page, RootPage, Auth, Firebase Authentication | `Firestore` |
| `QueueLemmas`, `FirestoreProofs` | lemmas about sequences and about the store, for all the proofs | |
| `NewGameProofs`, `LoginProofs`, `UserSearchProofs`, `GroupSetupProofs`, `WriteClientProofs` | theorems about the module of that name | `FirestoreProofs`, `QueueLemmas` |
| `WriteOrderProofs` | the client implements `WriteOrder` | `WriteClientProofs` |
| `MC*` | the values the configurations use | |

### Firestore

A path is a record of a collection and a document id. `SetData` appends to the
phone's `outbox`. `ApplyWrite` is the backend taking the next write of a phone,
`AckWrite` the phone hearing of it, and `ReleaseWrite` the write leaving the
queue for the cache, later, because the client holds acknowledged writes until
its view of the backend has caught up. `BreakStream` loses the acknowledgements
that are under way: `applied` falls back to `acked`, and those writes are applied
a second time. `RestartClient` keeps cache and queue, except for acknowledged
writes that were still held: these are dropped without going to the cache, as
`startMutationQueue` does. `learnt` tells where the cache already has something
newer than an acknowledged write, which the release then does not replace.

A read is three steps: the page puts it in `calls`; the client answers
it (`AnswerFromServer`, or `AnswerFromCache` on a phone in `Flaky`) with the
documents that match at that moment, overlaid with the phone's own pending
writes (`LocalView`); the answer waits in `replies` until the callback runs
(`Deliver`). Calls may be answered in any order, answers are delivered in the
order in which they were computed.

`Firestore` is vendored code, modelled from how the pages use it and from the
behaviour of the client in `ios/Pods`. Documents that a page never looks into
are single values.

### WriteClient and WriteOrder

`WriteClient` is one phone's client, the backend it writes to and the watch
stream beside it, at the level of the vendored Objective-C++:

| Action | Code |
|---|---|
| `Write` | `locallyWriteMutations`, `addMutationBatch`, then `fillWritePipeline` |
| `TokenArrives`, `HandshakeCompletes` | `resumeStartWithToken`, `writeStreamDidCompleteHandshake` |
| `StreamFails`, `BackoffEnds`, `IdleCloses` | token error or transient error of the rpc, the two timers; all through `closeWithFinalState` |
| `BackendCommits`, `BackendRefuses`, `OtherWrites`, `BackendNotifies` | the backend |
| `ResponseArrives` | `writeStreamDidReceiveResponse`, `acknowledgeBatchWithResult`, refill |
| `ErrorArrives` | a permanent error: `handleWriteError`, `rejectBatchID`, refill |
| `Listen`, `Unlisten`, `SnapshotArrives` | `allocateQuery`, `releaseQuery`, `applyRemoteEvent` |
| `Restart`, `UserDidChange` | a new process; another user: `startMutationQueue`, new streams, refill |

Each is one block on the client's worker queue. Every block that ends in
`fillWritePipeline` has it as its last conjunct. A version is a position in the
backend's `log`. Requests and responses of the current rpc are the queues `up`
and `down`; closing the stream forgets both. That a request which the client has
given up is not applied after the next stream has opened is assumed of the
backend. Batch ids are kept apart from the writes (`value`), since a restart
uses ids again.

`Bad` holds the writes that the backend *may* refuse, at any attempt: it may take
them at another one. That covers writes that are wrong or not allowed, and also
sound ones: `isPermanentWriteError` (`FSTDatastore.mm:150`) counts `ABORTED` and
`FAILED_PRECONDITION` as permanent, and `handleWriteError` then drops the first
write of the pipeline for good. The theorems hold for any `Bad`, so any write may
meet such an error; what they promise of a write in `Bad` is only that it does no
harm to the others. Two things are assumed of the backend: an error of the
stream that counts as permanent comes instead of the response to the oldest
unanswered request, and that attempt has not applied the write.

A snapshot that is on its way when the last target goes is dropped (`Unlisten`),
as when the watch stream ends at that moment. In the code it may still be
processed; then nothing is held and no document is listened to, and only
`lastRemoteSnapshotVersion` moves.

`WriteOrder` is the promise: the unsettled writes `todo` of the current user, how
many of them the backend has (`done`), and the backend's documents. A write is
applied in its turn, settled when applied or refused, and forgetting `done` is
all a fault can do. These are the unacknowledged part of `outbox[d]` and
`applied[d] - acked[d]` of `Firestore`, so `ImplementsWriteOrder` is what entitles
the pages' modules to `ApplyWrite`, `AckWrite` and `BreakStream`. `Firestore` has no
refused writes: the repository has no security rules.

### Page

`life[p]` is unborn, mounted or disposed. A State is created once, so a page
that is opened again is another member of `Pages`. `asked` holds the pages
whose `currentUser` is outstanding. A page is opened only while no other page
of that phone covers the button (`Reachable`). With no session the answer makes
`_getCurrentUser` throw before `userFound` is set, so the form never appears:
`UserIdFound`. `RunsSetState` says whether a callback of a page still does its
work. `KillProcess` may come at any time on a phone in `MayDie`, with or without
a page on the screen, so also between the last page and its last write.

### NewGame and GameBoard

| Action | Code |
|---|---|
| `OpenPage`, `FindUser` | `Navigator.push`, `initState`, `userIdFound` |
| `Edit` | the `onChanged` handlers of the form |
| `PressStart` | the button Start: `setGameId`, `checkGameId` |
| `IdIsFree` | the callback of `checkGameId` with an empty answer, including `_saveGame` |
| `IdIsTaken` | the same with a game found: draw and ask again |
| `AnswerLost` | the callback on a disposed page in a debug build |
| `Apply`, `Ack`, `Release`, `Break`, `Answer` | the Firestore client |
| `Cancel`, `Kill` | `Navigator.pop`, the system |

The contents of the form are one value out of `Drafts`. `Draws[d]` is the set of
ids the generator of phone `d` comes up with, so that runs and theorems can say
whether two phones may draw the same one. `Overlap` says whether users press
Start while a check is in flight.

`GameBoard` is the abstract specification: a board of games and each user's
shelf of copies; a step publishes a game under a free id or copies a published
game to a shelf. The refinement mapping reads board and shelves off the
backend's documents (`BoardOf`, `ShelfOf`).

### NewGroup, Friends, GroupSetup

`Create` is the whole button: `setGroupId` with its question, and the push of
the Friends page. `GroupIdAnswer` is the callback with its three writes. The
query is the one in the code, which asks the collection `groups/<type>/<id>`
although groups are stored in `groups/<type>/groups`; it therefore finds
nothing and every id counts as free. `Tap` is `getGroupStatus` of the friend's
tile with its guard on `getStatus`, `PressNext` is `_addToFireStore`.

### UserSearch

`Submit`, `StreamAnswer`, `TapAdd`, `FetchAnswer` are `onSubmitted`, the
builder's stream, the add button with `_fetch`, and its callback with `_add`.
The callback first sets `friend`, which is the fields `friendUsername` and
`friendUserId` as one record (they are set together), and `_add` writes what
`friend` holds under the uid that `searchedUserId` holds by then, to the list of
whoever `mCurrentUser` is. The fields of a page outlive each of its fetches.
`fresh` is the file's global and is reset by a kill only, so a second page finds
it set. The history variable `tapped` is read by the properties only: it holds
the pairs of a user whose profile was being fetched and a user tapped meanwhile.

### Login

Accounts are named by their e-mail address. `PressRegister` is `checkUsername`,
`UsernameAnswer` its callback with the first half of `validateAndSubmit`;
`AuthAnswer` is what follows the `await`, and the callback of RootPage's
`initState`. Firebase acts on a call in `AuthSucceeds`, `AuthFails` or
`AuthResponseLost` (the account is made but the phone does not hear of it), the
app hears of it later. The validators test the text as typed; `Trim` is applied
to what is stored. A sign-in changes the user of the Firestore client, too
(`UserDidChange`): the queue of the user before is kept in `parked`, and goes on
when that user is back.

## Runs

Those with "holds" finish without error. The others show that what a text of
the app says of the program is not what the code does; `findings` in
`PROJECT.json` quotes the text.

| Run | Question | Result |
|---|---|---|
| `newgame_careful` | Do checkGameId and _saveGame implement `GameBoard` when phones draw different ids and hosts wait for a check? Two phones, one sometimes offline, the other killed at will. Also the types and `PublishInv`, the invariant of the proof. | holds |
| `newgame_impatient` | Start pressed again and the form edited during a check, kills between the writes: do the two copies of a game agree once written, and is there ever a copy without its game? | holds |
| `newgame_live` | Does a press of Start end in a game although taken ids are drawn first, also offline? Does a phone without a session file anything under `users/null`? | holds |
| `login_impatient` | Typing and pressing while calls are under way: is the home page only shown with a session, does RootPage end up showing what Firebase says, does every account get a profile if the connection holds and nothing is killed? | holds |
| `login_patient` | Two phones registering the same addresses, one killed or offline at any point: is a profile filed under the account it describes, and does a restarted app show the session? | holds if users wait for an answer |
| `login_taken` | Are names unique ("Brukernavn er opptatt")? | violated: both phones check before either writes |
| `group_hurried` | One account on two phones: does a note, an entry on a user's list or a member below a group that Next knew refer to a group that is not stored? | holds |
| `group_unhurried` | A user who waits for the check: do friends go to the group just created? Does Create group end in a group although Friends covers the form? | holds |
| `group_stale` | The first question for a user who does not wait ("Add to group") | violated: the note of the group before is used |
| `search_overlap` | Overlapping fetches, kills, two search tabs one after the other: does a friend entry mix users other than by a tap during a fetch, or stand on a list of somebody else? Does a tap on its own put the right entry on the tapper's own list? Does a later tab, which finds `_fresh` set, show what was searched last? | holds |
| `search_misfiled` | Is an entry filed under the user it is about ("Add user to friend-list.")? | violated: a second tap overwrites the field `searchedUserId` before the first fetch is answered |
| `write_client` | Does the client's write path implement `WriteOrder`, and is every write of the user who is signed in settled? Is a response ever matched to another write, a write lost, an id taken for an acknowledged one, a held write forgotten, a busy stream closed as idle, the cache set back? | holds |

Three more weaknesses are in the models without a run of their own, because
there the code has no guard at all that a property could be about: a name of
white space passes the validator and is stored empty (`login.dart:147`); Next on
the Friends page works before the group is known and writes below `groups/null`
(`friends.dart:66`); `_add` of the search tab may run before the user is known
and writes below `users/null` (`user_search.dart:134`).

Each property of a run that holds is paired in `PROJECT.json` with a mutant, a
changed definition that stands for a plausible slip in that code (the copy
written before the game, the answer not looked at, `form.save()` forgotten ...),
under which TLC finds the property violated. The mutants are next to the
definitions they change.

### Bounds

* `MaxPresses`, `MaxCreates`, `MaxTouches`, `MaxSteps`, `MaxOps` bound what
  users do. Two presses on a page are what an overlap takes, and two creations
  are what a stale note takes; the first search tab has
  a submit and two taps that may overlap, the second one the submit that finds
  `_fresh` set.
  `MaxOps` = 4 allows a launch, a registration, a kill with a second launch and
  another attempt.
* In `write_client` three writes go through a pipeline of two (ten in the code),
  so that one has to wait; the second may be refused, so that a rejection has
  neighbours on both sides. `MaxFaults` = 2 allows the two restarts that it takes
  to lose a write through ids that are used again, or a change of the user and
  back. One document is enough for every race between versions, and one other
  writer makes the versions differ. The safety properties are proved without
  these bounds.
* Two phones are enough for each race: the code has no operation in which three
  phones meet, and one of the two is in `Flaky` so that connected and offline
  phones meet. `Flaky` phones also lose acknowledgements. In `NewGame` the ids are: one that is taken, one that is free,
  and one for the other phone.
* `Drafts`, `GroupTexts` have one or two values: the properties tell contents
  apart only by being equal or not.
* The symmetry of `MCLogin` permutes addresses and names, which the module only
  compares; it is used in the safety run only. Phones are not
  interchangeable because `Flaky` and `MayDie` tell them apart.
* `DebugBuild` is TRUE in some runs and FALSE in others. Safety runs mostly take
  the release build, where late callbacks do more; the liveness of New game,
  Create group and the search tab (and with it `FiledAsTapped`, whose theorem is
  about both) is checked for the debug build, where they do less.

Deadlock is checked in `write_client` only. In the others users may stop, every
bound ends in a state where nothing is left to press, and that is no fault.

### Fairness

Only what the client libraries guarantee is fair: the stream of the search tab
delivers, a read is answered (by the
backend, or offline by the cache), an answer is handed to its callback, a queued
write is sent until the backend has it and the phone knows, the result of a call of Auth reaches the
app. Nothing a user does is fair, nor is a kill, nor that `currentUser`
answers. In `Login` even the reads are not needed.

The acknowledgement is strongly fair, because a stream that breaks again and
again takes it away each time: a connection that never holds for the length of
one round trip for ever is excluded. In `WriteClient` faults are bounded, and
weak fairness of the timers, the token, the backend and the responses is enough
for `WritesSettle`; user actions, faults and the idle timer are not fair.

`IdIsTaken(d, g)` is strongly fair for each `g`: the page draws again until an
id is free, and a random generator that is asked again and again comes up with
every id it can draw. With weak fairness it could draw the taken id for ever,
which has probability zero.

In `newgame_live` the phones draw from three ids, one of them taken, and press
Start twice in all, so that a free id is always left; with 10^9 ids the code
need not handle the case that none is.

`StartSettles`, `CreateSettles`, `TapSettles` and `SearchSettles` except pages that
were closed: the answer may then be dropped, depending on the build.
`TapSettles` is about users who are known before the answer is there and about
taps without another fetch under way; what happens otherwise is in
`FiledAsTapped` and `search_misfiled`.

## Proofs

Checked by TLAPS for every value of the constants that satisfies the named
assumptions. Every invariant and every safety property a passing run checks is
also a theorem; the run shows it on a small instance and its mutant shows that
it can fail.

The inductive invariants were checked with TLC on the instances of the runs
before they were proved. `PublishInv` is one of the properties of
`newgame_careful`.

### New game (`NewGameProofs`)

* **`TypeCorrect`**: `Spec => []TypeOK`. `TypeOK` alone is not inductive:
  `_saveGame` builds a document from the field `gameId`, which is null before
  the first press. `Asking` says that a page with a check in flight holds an id;
  `TypeInv` is the conjunction.
* **`ShelfSafe`**: `Spec => []ShelfNeedsGame`, with no assumption about draws,
  presses, kills or connections. The property speaks of the backend, but why it
  holds is in the queues: `CopyFollows` says that each queued copy of a game has
  the game in the backend or ahead of it in the same queue. Saving appends game
  and copy in this order (`IdIsFreeShelf`), the backend applies in order
  (`ApplyShelf`) even when it applies again, what leaves the queue has been
  applied (`DropShelf`), and documents are replaced but never removed.
* **`NobodySaves`**: `Spec => []NoNullUser`. `OwnInv` follows the user from
  `userFound` to the page that asks, and from there to the paths in its phone's
  queue: each phone writes to paths of its own session, and the rest of the
  backend is what it was at the start. `NullSeedAssumption` says that nothing was
  below `users/null` then.
* **`CopiesEndEqual`**: `CopiesApart => (Spec => []CopiesAgree)`. What has to
  hold at every moment is that the two documents agree as they *will* be when
  the phone's queue has been sent (`CopiesWillAgree`), and that what was applied
  has landed unless a later write of that path is still to come (`Landed`).
  `CopiesApart` is needed: two phones that draw the same id write the game of
  one user and the copy of the other.
* **`PublishingSafe`**: under `Careful`, `PublishInv` is an invariant. `Careful`
  is `DrawsApart`, `~Overlap` and `Flaky \intersect MayDie = {}`: phones do not
  draw each other's ids, a phone that may be offline draws none that existed
  before, nobody presses Start during a check, and a phone that may be offline
  is not killed. The last is needed because a restart forgets acknowledged
  writes that were held: offline, the phone would then find the id of its own
  game free. `PublishInv` says that a phone has at most one check in flight, that
  a check which found nothing is still right when its callback runs
  (`ChecksOK`), that a queued write is new to the backend, or is what the backend
  has if it was applied, and is the only one for its path (`WriteOK`), and that a
  phone remembers its own games offline (`CacheOK`). The last is what makes an
  answer from the cache trustworthy.
* **`ImplementsBoard`**: under `Careful`, the pages implement `GameBoard`. By
  `PublishInv` the first application of a game fills a free place of the board
  and that of a copy finds its game; a second application changes nothing, and
  every other action leaves the documents alone.

`Careful` is an assumption about people and about chance: with ids below 10^9 a
collision of two draws is unlikely, and the button Start has no guard of its
own. `ShelfSafe` and `NobodySaves` need none of it.

### Write path of the client (`WriteClientProofs`, `WriteOrderProofs`)

All from one invariant, `IInv`, and `ClientAssumption` (the pipeline takes at
least one write). Its core is a picture of the queue: first the batches that are
acknowledged and held, then those in the pipeline, then the rest.
`lastAcknowledgedBatchId` and `lastBatchSeen` are where these parts end (`QueueInv`,
`PipeInv`, by `IsRow`); the responses and requests of the stream are, in this
order, those of the pipeline (`StreamInv`, `DownInv`); versions grow from what is
held to what is under way (`HeldInv`); and the queue of the user who is away has
the same shape (`AwayInv`). No part is inductive without the others: the pipeline
is filled behind an id, so matching responses by position is right only if ids
grow, and ids that start again after a restart grow only because the last
acknowledged id was reset.

* **`ClientTypes`**, **`MatchByPosition`**, **`WritesAreKept`**, **`IdsAreFresh`**,
  **`HeldOnlyForSnapshots`**, **`IdleIsIdle`**: `TypeOK`, `ResponsesMatch`,
  `NothingLost`, `IdsIncrease`, `HeldIsReleased`, `IdleHasNoWork`.
* **`VersionsNeverFall`**: `Spec => NeverBackwards`, an action property.
* **`ClientKeepsWriteOrder`**: `Spec => ImplementsWriteOrder`, the refinement of
  `WriteOrder`, one lemma for each action. With it the steps `ApplyWrite`,
  `AckWrite` and `BreakStream` of `Firestore` rest on a theorem about the client
  and not on its documentation.

### Login and RootPage (`LoginProofs`)

* **`LoginTypes`**: `Spec => []TypeOK`, from `TypeInv`: while a `createUser` or its
  result is under way the two fields that `saveUserData` reads are set.
  `LoginAssumption` says that null is neither an address nor a name.
* **`HomeIsForUsers`**, **`PageShowsSession`**: `HomeNeedsSession` and
  `SessionShown`, from `SessionInv`: a result with a user is there only while
  somebody is signed in, an outdated "nobody" has a result with a user behind
  it, and whoever is signed in is shown, asked for, or about to be shown.
* **`ProfilesAreTrue`**: `Patient => (Spec => []ProfileTellsTruth)`. `TruthInv`: a
  patient user has at most one thing under way, so the field `_email` is still
  what `createUser` was called with; and every queued profile, also in the
  queues of users who are away, is about the account it is filed under.

### New group and Friends (`GroupSetupProofs`)

* **`NoGroupDangles`**: `Spec => []NoDanglingGroup`, with no assumption about
  users; members below `groups/null` are exempt, as in the property. Next writes what an answer told the page, and the answer may have been
  computed from writes that are still in the queue. `SetupInv` follows a
  reference to a group from the queue to the backend, the cache, the answers and
  the fields it ends up in: wherever it is, the group is in the backend or
  earlier in the queue of that phone.
* **`FriendsAddToTheirGroup`**: `Orderly => (Spec => []StatusIsCurrent)`. `Orderly`
  has three parts, and TLC finds the property violated when one is dropped: the
  user waits for the check (`Unhurried`; without it, run `group_stale`); no
  account is on two phones (the other phone's note would be found); in a release
  build a phone has one NewGroup page (the late callback of a page that was
  closed would write its note over the new one; in a debug build it does not
  run). `StatusInv` says of an open Friends page that the check of the page
  below is still under way or the phone *shows* the note of that page's group,
  and that it shows it as soon as the Friends page asks. `Shows` is what makes
  this inductive: the last write of the note's path in the queue is this note; if
  it is applied the backend has it, and if the cache is newer the cache has it;
  if none is left in the queue both have it. So it stays through sending,
  sending again, acknowledging, releasing and answering, online and offline.

### User search (`UserSearchProofs`)

* **`TapsAreFiled`**: `Spec => []FiledAsTapped`, for any number of overlapping
  fetches and both builds. The property speaks of the backend; `SearchInv` says
  what a document may be wherever a copy of it is (`Sound`, `DocsSound`: backend,
  caches and queues), since offline a fetch is answered from cache and queue, and
  that every fetch and answer on its way is about a user who was being fetched
  when the user now in `searchedUserId` was tapped (`FetchesTapped`). The second
  is what a tap could break for the fetches that are under way, and what `_add`
  relies on: it joins the answer and the field. `Sound` grows weaker with every
  tap, so what was written earlier stays sound (`SoundStays`).

### Only model-checked

`StartSettles`, `CreateSettles`, `TapSettles`, `SearchSettles`,
`RegisteredHasProfile` and `WritesSettle` are liveness under fairness, which is outside what the prover
does. The properties of the runs that show a violation are false.

The helpers on queues (`RowOf`, `BatchesAfter`, `RemoveBatches`) are written with
positions and not with a filter: what a recursive filter returns for every
sequence would need an induction that none of the provers can do.

## Not modelled

* Security rules: there are none in the repository. Refused writes are in
  `WriteClient`, not in the pages' modules.
* Query views, limbo documents, existence filters and resume tokens of the watch
  stream, and the online state: the pages' modules have their effect, an answer
  from the backend or from the cache.
* Eviction from the cache; transactions and batches, which the app does not use.
* Passwords and texts that are no address: Firebase refuses them, which is
  `AuthFails`.
* A session that ends is `Session[d] = null` from the start; it does not end
  during a behaviour.
* `getUser` and `addToGroup` in `friends.dart` (nothing reads or calls them),
  `onSignOut` and `signOut` (not reachable), `Table`, the template home page and
  the widgets.
* The Groups tab: display of a stream. The widget test is the counter test of the
  Flutter template and is about none of this code.
* The contents of the New game form: the slider and the pickers show values that
  are not stored until they are moved. A test of that one widget shows it.

## Plan

Done: `Firestore` with resent writes and held acknowledgements, `Page`, `NewGame`
with `GameBoard`, `Login` with the change of the user, `NewGroup`, `Friends`,
`GroupSetup`, `UserSearch`, `WriteClient` with `WriteOrder`; every safety property
of their runs is proved, as are the two refinements.

Next, in this order:

1. An abstract specification of groups that `GroupSetup` implements: a group is
   there before its note, its copy and its members.
2. The steps of `Firestore` as an implementation of `WriteOrder`, per phone, so
   that the link between the client and the pages' modules is a theorem from
   both sides.
3. Action properties of the pages: what a callback on a closed page may change.
