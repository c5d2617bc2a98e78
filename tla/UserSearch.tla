----------------------------- MODULE UserSearch -----------------------------
(***************************************************************************)
(* The user search tab (pages/userSearch/user_search.dart).  A submitted   *)
(* name starts a stream of the users with that name; the button beside a   *)
(* user remembers that user's uid in a field, fetches the profile and,     *)
(* when it is there, puts it into two more fields and writes these to the  *)
(* friends of the current user, under the uid the first field holds by     *)
(* then.                                                                   *)
(*                                                                         *)
(* Unlike the other pages this one does not wait for _getCurrentUser.      *)
(* The tab is disposed when another tab is chosen; the flag _fresh is a    *)
(* global of the file and survives it.                                     *)
(***************************************************************************)
EXTENDS Page

CONSTANTS Names,      \* user names
          NameOf,     \* NameOf[u]: the brukernavn in the profile of u
          MaxSteps    \* MaxSteps[p]: bound on the submits and taps of page p

UserPath(u) == [coll |-> <<"users">>, id |-> u]
FriendPath(u, v) == [coll |-> <<"users", u, "friends">>, id |-> v]
Profile(u) == [brukernavn |-> NameOf[u], uid |-> u]

SearchPaths ==
    {UserPath(u) : u \in Users}
    \union {FriendPath(u, v) : u \in Users \union {null}, v \in Users}

ASSUME SearchAssumption ==
    /\ NameOf \in [Users -> Names]
    /\ MaxSteps \in [Pages -> Nat]
    /\ Paths = SearchPaths

VARIABLES fresh,          \* fresh[d]: the global _fresh of the app on d
          queryText,      \* fields of each _DisplaySearchState
          searchedUserId,
          friend,         \* friend[p]: its fields friendUsername, friendUserId
          shown,          \* shown[p]: the users the stream has delivered
          steps,          \* steps[p]: submits and taps so far
          tapped          \* history: see TapAdd

searchVars == <<fresh, queryText, searchedUserId, friend, shown, steps, tapped>>
vars == <<fsVars, pageVars, searchVars>>

Init ==
    /\ FirestoreInit([x \in Paths |-> IF \E u \in Users : x = UserPath(u)
                                      THEN Profile(x.id) ELSE NoDoc])
    /\ PageInit
    /\ fresh = [d \in Devices |-> FALSE]
    /\ queryText = [p \in Pages |-> null]
    /\ searchedUserId = [p \in Pages |-> null]
    /\ friend = [p \in Pages |-> [brukernavn |-> null, uid |-> null]]
    /\ shown = [p \in Pages |-> {}]
    /\ steps = [p \in Pages |-> 0]
    /\ tapped = [p \in Pages |-> {}]

\* The third tab is chosen.
OpenTab(p) ==
    /\ Reachable(p)
    /\ InitState(p)
    /\ UNCHANGED <<fsVars, searchVars>>

FindUser(p) == UserIdFound(p) /\ UNCHANGED <<fsVars, searchVars>>

\* Mutant of Submit: a query is taken only while _fresh is not set.
Submit_OnceFresh(p, name) ==
    /\ life[p] = "mounted" /\ steps[p] < MaxSteps[p]
    /\ steps' = [steps EXCEPT ![p] = @ + 1]
    /\ queryText' = IF fresh[Host[p]] THEN queryText ELSE [queryText EXCEPT ![p] = name]
    /\ fresh' = [fresh EXCEPT ![Host[p]] = TRUE]
    /\ shown' = [shown EXCEPT ![p] = {}]
    /\ UNCHANGED <<fsVars, pageVars, searchedUserId, friend, tapped>>

\* onSubmitted: a new query, and with the next frame a new stream.
Submit(p, name) ==
    /\ life[p] = "mounted" /\ steps[p] < MaxSteps[p]
    /\ steps' = [steps EXCEPT ![p] = @ + 1]
    /\ queryText' = [queryText EXCEPT ![p] = name]
    /\ fresh' = [fresh EXCEPT ![Host[p]] = TRUE]
    /\ shown' = [shown EXCEPT ![p] = {}]
    /\ UNCHANGED <<fsVars, pageVars, searchedUserId, friend, tapped>>

\* _putInBody: there is a stream if a name was submitted.  A State that
\* finds _fresh set by an earlier one has no name; _fireSearch throws on it
\* and catches that.
Streaming(p) == life[p] = "mounted" /\ fresh[Host[p]] /\ queryText[p] # null

\* The stream of _fireSearch delivers the users with this name; what the
\* backend sent stays in the cache.
StreamAnswer(p) ==
    LET q == Where(p, <<"users">>, "brukernavn", queryText[p])
        found == Matching(store, q)
    IN  /\ Streaming(p)
        /\ shown' = [shown EXCEPT ![p] = {x.id : x \in found}]
        /\ cache' = [cache EXCEPT ![Host[p]] =
                        [x \in Paths |-> IF x \in found THEN store[x] ELSE @[x]]]
        /\ UNCHANGED <<store, outbox, sendVars, calls, replies, pageVars,
                       fresh, queryText, searchedUserId, friend, steps, tapped>>

\* The users whose profiles are being fetched for page p.
Fetching(p) ==
    LET h == Host[p]
    IN  {calls[h][i].value : i \in {j \in DOMAIN calls[h] : calls[h][j].page = p}}
        \union {replies[h][i].call.value :
                   i \in {j \in DOMAIN replies[h] : replies[h][j].call.page = p}}

\* The button beside user v: remember the uid, _fetch the profile.  The
\* history variable tapped[p] holds <<w, v>> if v was tapped on page p while
\* the profile of w was being fetched, which w = v is from the tap on.
TapAdd(p, v) ==
    LET d == Host[p]
    IN  /\ Streaming(p) /\ v \in shown[p] /\ steps[p] < MaxSteps[p]
        /\ steps' = [steps EXCEPT ![p] = @ + 1]
        /\ searchedUserId' = [searchedUserId EXCEPT ![p] = v]
        /\ calls' = [calls EXCEPT ![d] = Append(@, Get(p, UserPath(v)))]
        /\ tapped' = [tapped EXCEPT ![p] = @ \union {<<w, v>> : w \in Fetching(p) \union {v}}]
        /\ UNCHANGED <<store, cache, outbox, sendVars, replies, pageVars,
                       fresh, queryText, friend, shown>>

\* Mutant of Add: the path is built from the field currentUserId, which is
\* declared beside mCurrentUser and never set.
Add_OtherField(queue, p, fields) ==
    SetData(queue, FriendPath(null, searchedUserId[p]), fields)

\* _add: what the two fields hold goes to the friends of the current user.
Add(queue, p, fields) ==
    SetData(queue, FriendPath(mCurrentUser[p], searchedUserId[p]), fields)

\* Mutant of FetchAnswer: _add is called before the fields are set.
FetchAnswer_AddsFirst(d) ==
    /\ replies[d] # <<>>
    /\ LET r == Head(replies[d])
           p == r.call.page
       IN  IF r.docs # {} /\ RunsSetState(p)
           THEN \E profile \in r.docs :
                   /\ friend' = [friend EXCEPT ![p] = profile]
                   /\ outbox' = [outbox EXCEPT ![d] = Add(@, p, friend[p])]
           ELSE UNCHANGED <<friend, outbox>>
    /\ Deliver(d, <<>>)
    /\ UNCHANGED <<store, cache, sendVars, pageVars,
                   fresh, queryText, searchedUserId, shown, steps, tapped>>

\* The callback of _fetch: the profile goes to the fields, then _add.
FetchAnswer(d) ==
    /\ replies[d] # <<>>
    /\ LET r == Head(replies[d])
           p == r.call.page
       IN  IF r.docs # {} /\ RunsSetState(p)
           THEN \E profile \in r.docs :
                   /\ friend' = [friend EXCEPT ![p] = profile]
                   /\ outbox' = [outbox EXCEPT ![d] = Add(@, p, friend'[p])]
           ELSE UNCHANGED <<friend, outbox>>
    /\ Deliver(d, <<>>)
    /\ UNCHANGED <<store, cache, sendVars, pageVars,
                   fresh, queryText, searchedUserId, shown, steps, tapped>>

\* Another tab is chosen (onTap in bottom_nav.dart).
LeaveTab(p) == Pop(p) /\ UNCHANGED <<fsVars, searchVars>>

\* A new process starts with _fresh = false.
Kill(d) ==
    /\ KillProcess(d)
    /\ fresh' = [fresh EXCEPT ![d] = FALSE]
    /\ UNCHANGED <<queryText, searchedUserId, friend, shown, steps, tapped>>

Apply(d) == ApplyWrite(d) /\ UNCHANGED <<pageVars, searchVars>>
Ack(d) == AckWrite(d) /\ UNCHANGED <<pageVars, searchVars>>
Release(d) == ReleaseWrite(d) /\ UNCHANGED <<pageVars, searchVars>>
Break(d) == BreakStream(d) /\ UNCHANGED <<pageVars, searchVars>>

Sync(d) == Apply(d) \/ Ack(d) \/ Release(d) \/ Break(d)

Answer(d, i) ==
    /\ AnswerFromServer(d, i) \/ AnswerFromCache(d, i)
    /\ UNCHANGED <<pageVars, searchVars>>

Next ==
    \/ \E p \in Pages :
          \/ OpenTab(p) \/ FindUser(p) \/ StreamAnswer(p) \/ LeaveTab(p)
          \/ \E name \in Names : Submit(p, name)
          \/ \E v \in Users : TapAdd(p, v)
    \/ \E d \in Devices :
          \/ FetchAnswer(d) \/ Sync(d) \/ Kill(d)
          \/ \E i \in DOMAIN calls[d] : Answer(d, i)

Spec == Init /\ [][Next]_vars

Fairness ==
    /\ \A p \in Pages : WF_vars(StreamAnswer(p))
    /\ \A d \in Devices :
        /\ WF_vars(FetchAnswer(d))
        /\ WF_vars(Apply(d)) /\ SF_vars(Ack(d))
        /\ WF_vars(\E i \in DOMAIN calls[d] : Answer(d, i))

FairSpec == Spec /\ Fairness

-----------------------------------------------------------------------------
(***************************************************************************)
(* Properties.                                                             *)
(***************************************************************************)

\* Friend documents in the backend, as pairs of owner and key.
Listed(u, v) == store[FriendPath(u, v)] # NoDoc

\* The uids under which a page files friends: its user's, or null while
\* that user is not known.
Owners(p) == {Session[Host[p]], null}

\* A friend document under users/<u>/friends/<v> comes from a tap on v on a
\* page of u, and is the profile of v or of a user whose fetch was under way
\* on that page when v was tapped: however taps, late callbacks, kills and
\* resent writes overlap, nothing else mixes users (_fetch and _add, with
\* the fields searchedUserId, friendUsername and friendUserId).
FiledAsTapped ==
    \A u \in Users \union {null}, v \in Users :
        Listed(u, v) =>
            \E p \in Pages, w \in Users :
                /\ u \in Owners(p) /\ <<w, v>> \in tapped[p]
                /\ store[FriendPath(u, v)] = Profile(w)

\* "Add user to friend-list": the document under users/<u>/friends/<v> is
\* about user v.
FriendFiledRight ==
    \A u \in Users \union {null}, v \in Users :
        Listed(u, v) => store[FriendPath(u, v)].uid = v

\* A tap with no other fetch of the page under way, by a user who is known
\* before the answer is there, gets the user tapped (if others are tapped
\* meanwhile, the last of them) onto that user's own list, under the right
\* uid and with the right name, unless the page goes (_fetch, _add).
TapSettles ==
    \A p \in Pages :
        (/\ life[p] = "mounted" /\ mCurrentUser[p] # null
         /\ Fetching(p) = {searchedUserId[p]})
        ~> (\/ life[p] # "mounted"
            \/ \E v \in Users :
                  /\ searchedUserId[p] = v
                  /\ store[FriendPath(mCurrentUser[p], v)] = Profile(v))

\* A page on which names were submitted ends up with the users of the last
\* one, also when it found _fresh set by an earlier page, unless it goes
\* (onSubmitted, _putInBody, _fireSearch).
SearchSettles ==
    <>[](\A p \in Pages :
            life[p] = "mounted" /\ steps[p] > 0
                => /\ queryText[p] \in Names
                   /\ shown[p] = {u \in Users : NameOf[u] = queryText[p]})

=============================================================================
