-------------------------------- MODULE Login --------------------------------
(***************************************************************************)
(* Signing in and registering: RootPage (root_page.dart), the Login page   *)
(* (pages/login/login.dart), the wrapper Auth (auth.dart) and Firebase     *)
(* Authentication as the app uses it.                                      *)
(*                                                                         *)
(* There is one RootPage per running app.  While authStatus is notSignedIn *)
(* it shows a Login page, otherwise MyHomePage.  An account is named by    *)
(* its e-mail address, which also stands for its uid: Firebase gives an    *)
(* address one account.  Passwords are left out: a signIn may fail.        *)
(*                                                                         *)
(* A registration takes three round trips that nothing ties together:      *)
(* checkUsername asks Firestore for the name, createUser makes the         *)
(* account, saveUserData writes the profile, each from the fields of the   *)
(* page at the time it runs.                                               *)
(***************************************************************************)
EXTENDS Firestore

CONSTANTS Emails,    \* addresses, and with them the accounts
          Names,     \* user names
          null,      \* Dart's null
          Blank,     \* the empty text
          Spaces,    \* a text of white space only
          Patient,   \* the user leaves the form alone while it is at work
          MayDie,    \* the devices on which the system may kill the app
          MaxOps     \* bound on launches, and on presses per launch

ASSUME LoginAssumption ==
    /\ null \notin Emails \union Names \union {Blank, Spaces}
    /\ Blank \notin Emails \union Names
    /\ Spaces \notin Emails \union Names \union {Blank}
    /\ Patient \in BOOLEAN
    /\ MayDie \subseteq Devices
    /\ MaxOps \in Nat

\* val.trim().toLowerCase(): the validators look at the text before it.
Trim(text) == IF text = Spaces THEN Blank ELSE text

UserPath(uid) == [coll |-> <<"users">>, id |-> uid]
UserDoc(uid, email, name) == [uid |-> uid, email |-> email, brukernavn |-> name]

ASSUME UserPathsAssumption == Paths = {UserPath(u) : u \in Emails}

VARIABLES accounts,           \* the accounts Firebase knows
          session,            \* session[d]: who Firebase has signed in on d
          parked,             \* parked[d][u]: the mutation queue of u on d while
                              \* somebody else is signed in there
          up,                 \* up[d]: the app is running
          authStatus,         \* field of RootPageState: "signedIn", "notSignedIn"
          formType,           \* fields of LoginState: "login", "register"
          _username, _email,
          usernameAvailable,
          nameText, emailText,\* what the form's text fields show
          authCalls,          \* calls of Auth on their way to Firebase
          authReplies,        \* their results on their way back
          ops                 \* ops[d]: launches and presses left

loginVars == <<formType, _username, _email, usernameAvailable, nameText, emailText>>
authVars == <<accounts, session, parked, authCalls, authReplies>>
vars == <<fsVars, authVars, loginVars, up, authStatus, ops>>

-----------------------------------------------------------------------------

\* RootPage shows the Login page.
LoginShown(d) == up[d] /\ authStatus[d] = "notSignedIn"

\* The user touches the form.
AtForm(d) ==
    /\ LoginShown(d)
    /\ Patient => Idle(d) /\ authCalls[d] = <<>> /\ authReplies[d] = <<>>

\* The fields of a LoginState that was just created.
FreshLogin(d) ==
    /\ formType' = [formType EXCEPT ![d] = "login"]
    /\ _username' = [_username EXCEPT ![d] = null]
    /\ _email' = [_email EXCEPT ![d] = null]
    /\ usernameAvailable' = [usernameAvailable EXCEPT ![d] = FALSE]
    /\ nameText' = [nameText EXCEPT ![d] = Blank]
    /\ emailText' = [emailText EXCEPT ![d] = Blank]

AuthCall(d, op, email) ==
    authCalls' = [authCalls EXCEPT ![d] = Append(@, [op |-> op, email |-> email])]

\* main, initState of RootPage: the app asks who is signed in and shows the
\* Login page until it knows.
Launch(d) ==
    /\ ~up[d] /\ ops[d] > 0
    /\ ops' = [ops EXCEPT ![d] = @ - 1]
    /\ up' = [up EXCEPT ![d] = TRUE]
    /\ authStatus' = [authStatus EXCEPT ![d] = "notSignedIn"]
    /\ FreshLogin(d)
    /\ AuthCall(d, "currentUser", null)
    /\ UNCHANGED <<fsVars, accounts, session, parked, authReplies>>

\* Text is entered.  The name's field exists on the register form only.  A
\* text that is no address makes Firebase refuse, like a wrong password
\* (AuthFails), and is left out.
Enter(d, name, email) ==
    /\ AtForm(d)
    /\ nameText' = [nameText EXCEPT ![d] =
                       IF formType[d] = "register" THEN name ELSE @]
    /\ emailText' = [emailText EXCEPT ![d] = email]
    /\ UNCHANGED <<fsVars, authVars, up, authStatus, ops,
                   formType, _username, _email, usernameAvailable>>

\* moveToRegister, moveToLogin: the form is reset and replaced.
MoveTo(d, type) ==
    /\ AtForm(d)
    /\ formType[d] # type
    /\ formType' = [formType EXCEPT ![d] = type]
    /\ nameText' = [nameText EXCEPT ![d] = Blank]
    /\ emailText' = [emailText EXCEPT ![d] = Blank]
    /\ UNCHANGED <<fsVars, authVars, up, authStatus, ops,
                   _username, _email, usernameAvailable>>

\* The validators of the form's fields accept.
Valid(d) ==
    /\ emailText[d] # Blank
    /\ formType[d] = "register" => nameText[d] # Blank

\* Mutant of ValidateAndSubmit: form.save() is forgotten.
ValidateAndSubmit_NotSaved(d, available) ==
    /\ UNCHANGED <<_email, _username>>
    /\ IF Valid(d) /\ formType[d] = "login" THEN AuthCall(d, "signIn", emailText[d])
       ELSE IF Valid(d) /\ available THEN AuthCall(d, "createUser", emailText[d])
       ELSE UNCHANGED authCalls

\* validateAndSubmit up to its await: save the form, then call Firebase.
\* available is the value of usernameAvailable at this point.
ValidateAndSubmit(d, available) ==
    IF Valid(d)
    THEN /\ _email' = [_email EXCEPT ![d] = emailText[d]]
         /\ _username' = [_username EXCEPT ![d] =
                             IF formType[d] = "register" THEN Trim(nameText[d]) ELSE @]
         /\ IF formType[d] = "login" THEN AuthCall(d, "signIn", emailText[d])
            ELSE IF available THEN AuthCall(d, "createUser", emailText[d])
            ELSE UNCHANGED authCalls
    ELSE UNCHANGED <<_email, _username, authCalls>>

\* The button "Login".
PressLogin(d) ==
    /\ AtForm(d) /\ ops[d] > 0
    /\ formType[d] = "login"
    /\ ops' = [ops EXCEPT ![d] = @ - 1]
    /\ ValidateAndSubmit(d, usernameAvailable[d])
    /\ UNCHANGED <<fsVars, accounts, session, parked, authReplies, up, authStatus,
                   formType, usernameAvailable, nameText, emailText>>

\* The button "Create an account": checkUsername takes the name from the
\* text field, unvalidated, and asks who has it.
PressRegister(d) ==
    /\ AtForm(d) /\ ops[d] > 0
    /\ formType[d] = "register"
    /\ ops' = [ops EXCEPT ![d] = @ - 1]
    /\ _username' = [_username EXCEPT ![d] = Trim(nameText[d])]
    /\ calls' = [calls EXCEPT ![d] =
                    Append(@, Where(d, <<"users">>, "brukernavn",
                                    Trim(nameText[d])))]
    /\ UNCHANGED <<store, cache, outbox, sendVars, replies, authVars, up, authStatus,
                   formType, _email, usernameAvailable, nameText, emailText>>

\* The callback of checkUsername on a page that is still there.
UsernameAnswer(d) ==
    /\ LoginShown(d)
    /\ replies[d] # <<>>
    /\ LET free == Head(replies[d]).docs = {}
       IN  /\ usernameAvailable' = [usernameAvailable EXCEPT ![d] = free]
           /\ IF free THEN ValidateAndSubmit(d, TRUE)
              ELSE UNCHANGED <<_email, _username, authCalls>>
    /\ Deliver(d, <<>>)
    /\ UNCHANGED <<store, cache, outbox, sendVars, accounts, session, parked,
                   authReplies, up, authStatus, ops, formType, nameText, emailText>>

\* The callback after RootPage replaced the page: setState throws, or the
\* form's key has no state any more and validateAndSave does.
UsernameAnswerLost(d) ==
    /\ ~LoginShown(d)
    /\ replies[d] # <<>>
    /\ Deliver(d, <<>>)
    /\ UNCHANGED <<store, cache, outbox, sendVars, authVars, loginVars, up, authStatus, ops>>

-----------------------------------------------------------------------------
(***************************************************************************)
(* Firebase Authentication.  A call has its effect when Firebase handles   *)
(* it; the result reaches the app later.  user is null for a failure.      *)
(***************************************************************************)

\* Firestore is told who is signed in.  Each account has a mutation queue of
\* its own on a phone; only that of the current one is sent.
UserDidChange(d, user) ==
    /\ session' = [session EXCEPT ![d] = user]
    /\ IF user = session[d] THEN UNCHANGED <<outbox, sendVars, parked>>
       ELSE /\ parked' = [parked EXCEPT
                  ![d][session[d]] = SubSeq(outbox[d], acked[d] + 1, Len(outbox[d])),
                  ![d][user] = <<>>]
            /\ outbox' = [outbox EXCEPT ![d] = parked[d][user]]
            /\ applied' = [applied EXCEPT ![d] = 0]
            /\ acked' = [acked EXCEPT ![d] = 0]
            /\ learnt' = [learnt EXCEPT ![d] = {}]

AuthResult(d, i, user) ==
    /\ authCalls' = [authCalls EXCEPT ![d] = RemoveAt(@, i)]
    /\ authReplies' = [authReplies EXCEPT ![d] =
                          Append(@, [op |-> authCalls[d][i].op, user |-> user])]
    /\ UNCHANGED <<store, cache, calls, replies, loginVars, up, authStatus, ops>>

\* currentUser reads the session; signIn to an account and createUser with
\* an unused address open one.
AuthSucceeds(d, i) ==
    LET c == authCalls[d][i]
    IN  \/ /\ c.op = "currentUser"
           /\ AuthResult(d, i, session[d])
           /\ UNCHANGED <<accounts, session, outbox, sendVars, parked>>
        \/ /\ c.op = "signIn" /\ c.email \in accounts
           /\ UserDidChange(d, c.email)
           /\ AuthResult(d, i, c.email)
           /\ UNCHANGED accounts
        \/ /\ c.op = "createUser" /\ c.email \notin accounts
           /\ accounts' = accounts \union {c.email}
           /\ UserDidChange(d, c.email)
           /\ AuthResult(d, i, c.email)

\* A wrong or weak password, an unknown or a used address, no connection.
AuthFails(d, i) ==
    LET c == authCalls[d][i]
    IN  /\ c.op # "currentUser"
        /\ AuthResult(d, i, null)
        /\ UNCHANGED <<accounts, session, outbox, sendVars, parked>>

\* The connection breaks after Firebase made the account and before the
\* phone heard of it: createUser fails, but the account is there.
AuthResponseLost(d, i) ==
    LET c == authCalls[d][i]
    IN  /\ d \in Flaky
        /\ c.op = "createUser" /\ c.email \notin accounts
        /\ accounts' = accounts \union {c.email}
        /\ AuthResult(d, i, null)
        /\ UNCHANGED <<session, outbox, sendVars, parked>>

\* AuthAnswer up to a status and a condition for saveUserData.
AuthAnswerWith(d, status, saves) ==
    LET r == Head(authReplies[d])
    IN  /\ authReplies[d] # <<>>
        /\ authReplies' = [authReplies EXCEPT ![d] = Tail(@)]
        /\ authStatus' = [authStatus EXCEPT ![d] = status]
        /\ outbox' = [outbox EXCEPT ![d] =
                         IF r.op = "createUser" /\ r.user # null /\ saves
                         THEN SetData(@, UserPath(r.user),
                                      UserDoc(r.user, _email[d], _username[d]))
                         ELSE @]
        /\ UNCHANGED <<store, cache, sendVars, calls, replies, accounts, session,
                       parked, authCalls, loginVars, up, ops>>

\* Mutant of AuthAnswer: onSignIn is called whatever signIn came back with.
AuthAnswer_AlwaysHome(d) ==
    /\ authReplies[d] # <<>>
    /\ LET r == Head(authReplies[d])
       IN  AuthAnswerWith(d, IF r.op = "currentUser" /\ r.user = null
                             THEN "notSignedIn" ELSE "signedIn", TRUE)

\* Mutant of AuthAnswer: every failure leads back to the Login page.
AuthAnswer_BackOnError(d) ==
    /\ authReplies[d] # <<>>
    /\ AuthAnswerWith(d, IF Head(authReplies[d]).user = null
                         THEN "notSignedIn" ELSE "signedIn", TRUE)

\* Mutant of AuthAnswer: saveUserData only while the page is shown.
AuthAnswer_SaveIfShown(d) ==
    /\ authReplies[d] # <<>>
    /\ LET r == Head(authReplies[d])
       IN  AuthAnswerWith(d, IF r.user # null THEN "signedIn"
                             ELSE IF r.op = "currentUser" THEN "notSignedIn"
                             ELSE authStatus[d], LoginShown(d))

\* The rest of validateAndSubmit after its await, and the callback in
\* initState of RootPage.  onSignIn and saveUserData also work when the
\* page is gone: they use the fields of its State, and no setState is before
\* them.
AuthAnswer(d) ==
    /\ authReplies[d] # <<>>
    /\ authReplies' = [authReplies EXCEPT ![d] = Tail(@)]
    /\ LET r == Head(authReplies[d])
       IN  /\ authStatus' = [authStatus EXCEPT ![d] =
                                IF r.user # null THEN "signedIn"
                                ELSE IF r.op = "currentUser" THEN "notSignedIn"
                                ELSE @]
           /\ outbox' = [outbox EXCEPT ![d] =
                            IF r.op = "createUser" /\ r.user # null
                            THEN SetData(@, UserPath(r.user),
                                         UserDoc(r.user, _email[d], _username[d]))
                            ELSE @]
    /\ UNCHANGED <<store, cache, sendVars, calls, replies, accounts, session,
                   parked, authCalls, loginVars, up, ops>>

\* The system kills the app.  Firebase keeps the session and the queue of
\* writes on disk; everything else of the app is gone.
Kill(d) ==
    /\ d \in MayDie /\ up[d]
    /\ up' = [up EXCEPT ![d] = FALSE]
    /\ authStatus' = [authStatus EXCEPT ![d] = "notSignedIn"]
    /\ FreshLogin(d)
    /\ RestartClient(d)
    /\ authCalls' = [authCalls EXCEPT ![d] = <<>>]
    /\ authReplies' = [authReplies EXCEPT ![d] = <<>>]
    /\ UNCHANGED <<accounts, session, parked, ops>>

Apply(d) == ApplyWrite(d) /\ UNCHANGED <<authVars, loginVars, up, authStatus, ops>>
Ack(d) == AckWrite(d) /\ UNCHANGED <<authVars, loginVars, up, authStatus, ops>>
Release(d) == ReleaseWrite(d) /\ UNCHANGED <<authVars, loginVars, up, authStatus, ops>>
Break(d) == BreakStream(d) /\ UNCHANGED <<authVars, loginVars, up, authStatus, ops>>

Sync(d) == Apply(d) \/ Ack(d) \/ Release(d) \/ Break(d)

Answer(d, i) ==
    /\ AnswerFromServer(d, i) \/ AnswerFromCache(d, i)
    /\ UNCHANGED <<authVars, loginVars, up, authStatus, ops>>

Init ==
    /\ FirestoreInit([x \in Paths |-> NoDoc])
    /\ accounts = {}
    /\ session = [d \in Devices |-> null]
    /\ parked = [d \in Devices |-> [u \in Emails \union {null} |-> <<>>]]
    /\ up = [d \in Devices |-> FALSE]
    /\ authStatus = [d \in Devices |-> "notSignedIn"]
    /\ formType = [d \in Devices |-> "login"]
    /\ _username = [d \in Devices |-> null]
    /\ _email = [d \in Devices |-> null]
    /\ usernameAvailable = [d \in Devices |-> FALSE]
    /\ nameText = [d \in Devices |-> Blank]
    /\ emailText = [d \in Devices |-> Blank]
    /\ authCalls = [d \in Devices |-> <<>>]
    /\ authReplies = [d \in Devices |-> <<>>]
    /\ ops = [d \in Devices |-> MaxOps]

User(d) ==
    \/ Launch(d)
    \/ \E n \in Names \union {Blank, Spaces}, e \in Emails : Enter(d, n, e)
    \/ \E t \in {"login", "register"} : MoveTo(d, t)
    \/ PressLogin(d)
    \/ PressRegister(d)

Firebase(d) ==
    \/ \E i \in DOMAIN authCalls[d] :
          AuthSucceeds(d, i) \/ AuthFails(d, i) \/ AuthResponseLost(d, i)
    \/ Sync(d)
    \/ \E i \in DOMAIN calls[d] : Answer(d, i)

App(d) == UsernameAnswer(d) \/ UsernameAnswerLost(d) \/ AuthAnswer(d)

Next == \E d \in Devices : User(d) \/ Firebase(d) \/ App(d) \/ Kill(d)

Spec == Init /\ [][Next]_vars

\* Results reach the app and writes reach the backend.
Fairness == \A d \in Devices : WF_vars(AuthAnswer(d)) /\ WF_vars(Apply(d)) /\ SF_vars(Ack(d))

FairSpec == Spec /\ Fairness

-----------------------------------------------------------------------------
(***************************************************************************)
(* Properties.                                                             *)
(***************************************************************************)

UserDocs == [uid : Emails, email : Emails, brukernavn : Names \union {Blank}]
ProfileWrites == [path : Paths, data : UserDocs]
MaybeDocs == [Paths -> UserDocs \union {NoDoc}]
NameQueries == [page : Devices, coll : {<<"users">>}, field : {"brukernavn"},
                value : Names \union {Blank}]

\* Types of the fields of RootPageState and LoginState, of the calls of Auth
\* and of the profiles saveUserData writes: none is built from a null field.
TypeOK ==
    /\ store \in MaybeDocs
    /\ cache \in [Devices -> MaybeDocs]
    /\ outbox \in [Devices -> Seq(ProfileWrites)]
    /\ parked \in [Devices -> [Emails \union {null} -> Seq(ProfileWrites)]]
    /\ SendTypeOK
    /\ calls \in [Devices -> Seq(NameQueries)]
    /\ replies \in [Devices -> Seq([call : NameQueries, docs : SUBSET UserDocs])]
    /\ accounts \subseteq Emails
    /\ session \in [Devices -> Emails \union {null}]
    /\ up \in [Devices -> BOOLEAN]
    /\ authStatus \in [Devices -> {"signedIn", "notSignedIn"}]
    /\ formType \in [Devices -> {"login", "register"}]
    /\ _username \in [Devices -> Names \union {Blank, null}]
    /\ _email \in [Devices -> Emails \union {null}]
    /\ usernameAvailable \in [Devices -> BOOLEAN]
    /\ nameText \in [Devices -> Names \union {Blank, Spaces}]
    /\ emailText \in [Devices -> Emails \union {Blank}]
    /\ authCalls \in [Devices -> Seq([op : {"currentUser", "signIn", "createUser"},
                                      email : Emails \union {null}])]
    /\ authReplies \in [Devices -> Seq([op : {"currentUser", "signIn", "createUser"},
                                        user : Emails \union {null}])]
    /\ ops \in [Devices -> 0..MaxOps]

\* MyHomePage is shown only on a phone where Firebase has signed somebody in,
\* whatever the user presses while calls of Auth are under way.  That
\* Firebase may end a session later is the business of the pages (Page).
HomeNeedsSession ==
    \A d \in Devices : authStatus[d] = "signedIn" => session[d] \in accounts

\* Once the calls of Auth have come back, RootPage shows what Firebase says:
\* the late answer to the question initState asked does not undo a sign-in.
SessionShown ==
    \A d \in Devices :
        up[d] /\ authCalls[d] = <<>> /\ authReplies[d] = <<>>
            => (authStatus[d] = "signedIn" <=> session[d] # null)

\* A profile is filed under the account it describes, and that account is
\* there, if the user waits for an answer before touching the form again:
\* saveUserData takes the uid from the answer and the address from a field.
ProfileTellsTruth ==
    \A u \in Emails :
        LET doc == store[UserPath(u)]
        IN  doc # NoDoc => u \in accounts /\ doc.uid = u /\ doc.email = u

\* The profile of u waits in the queue of an account that is not signed in
\* on its phone any more.
ProfileParked(u) ==
    \E d \in Devices : \E v \in Emails \union {null} :
        \E i \in DOMAIN parked[d][v] : parked[d][v][i].path = UserPath(u)

\* Who got an account gets a profile, if the connection holds and the app
\* is not killed between createUser and saveUserData: it is written, or left
\* in the queue of an account that another sign-in on the phone displaced.
RegisteredHasProfile ==
    \A u \in Emails :
        u \in accounts ~> store[UserPath(u)] # NoDoc \/ ProfileParked(u)

\* "Brukernavn er opptatt": two users never have the same name.
NamesUnique ==
    \A u, v \in Emails :
        LET a == store[UserPath(u)]
            b == store[UserPath(v)]
        IN  u # v /\ a # NoDoc /\ b # NoDoc => a.brukernavn # b.brukernavn

=============================================================================
