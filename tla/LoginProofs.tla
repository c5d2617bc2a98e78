----------------------------- MODULE LoginProofs -----------------------------
(***************************************************************************)
(* Theorems about Login, for any number of phones, addresses and names.    *)
(***************************************************************************)
EXTENDS Login, FirestoreProofs

AuthOps == {"currentUser", "signIn", "createUser"}
AuthCalls == [op : AuthOps, email : Emails \union {null}]
AuthReplies == [op : AuthOps, user : Emails \union {null}]

-----------------------------------------------------------------------------
(***************************************************************************)
(* Type correctness, in three parts: the Firestore client, Firebase        *)
(* Authentication, and the fields of the pages.                            *)
(***************************************************************************)

AuthTypeOK ==
    /\ parked \in [Devices -> [Emails \union {null} -> Seq(ProfileWrites)]]
    /\ accounts \subseteq Emails
    /\ session \in [Devices -> Emails \union {null}]
    /\ authCalls \in [Devices -> Seq(AuthCalls)]
    /\ authReplies \in [Devices -> Seq(AuthReplies)]

PageTypeOK ==
    /\ up \in [Devices -> BOOLEAN]
    /\ authStatus \in [Devices -> {"signedIn", "notSignedIn"}]
    /\ formType \in [Devices -> {"login", "register"}]
    /\ _username \in [Devices -> Names \union {Blank, null}]
    /\ _email \in [Devices -> Emails \union {null}]
    /\ usernameAvailable \in [Devices -> BOOLEAN]
    /\ nameText \in [Devices -> Names \union {Blank, Spaces}]
    /\ emailText \in [Devices -> Emails \union {Blank}]
    /\ ops \in [Devices -> 0..MaxOps]

LEMMA TypeParts ==
    TypeOK <=> FsTypeOK(UserDocs, NameQueries) /\ AuthTypeOK /\ PageTypeOK
BY DEF TypeOK, FsTypeOK, WritesOf, AnswersOf, AuthTypeOK, PageTypeOK, MaybeDocs,
       ProfileWrites, AuthCalls, AuthReplies, AuthOps

\* The fields saveUserData reads are set.
Registering(d) == _email[d] # null /\ _username[d] # null

\* A call of Auth carries an address, and one of createUser, or its result,
\* is there only while the fields of the page are set.  No call outlives the
\* app.
Pending(d) ==
    /\ ~up[d] => authCalls[d] = <<>> /\ authReplies[d] = <<>>
    /\ \A i \in DOMAIN authCalls[d] :
          /\ authCalls[d][i].op # "currentUser" => authCalls[d][i].email \in Emails
          /\ authCalls[d][i].op = "createUser" => Registering(d)
    /\ \A i \in DOMAIN authReplies[d] :
          authReplies[d][i].op = "createUser" => Registering(d)

TypeInv == TypeOK /\ \A d \in Devices : Pending(d)

LEMMA TypeInvInit == Init => TypeInv
<1>. SUFFICES ASSUME Init PROVE TypeInv
  OBVIOUS
<1>1. AuthTypeOK
  BY EmptySeq DEF Init, AuthTypeOK
<1>2. PageTypeOK
  BY LoginAssumption DEF Init, PageTypeOK
<1>3. FsTypeOK(UserDocs, NameQueries)
  BY EmptySeq DEF Init, FirestoreInit, FsTypeOK, SendTypeOK
<1>4. \A d \in Devices : authCalls[d] = <<>> /\ authReplies[d] = <<>>
  BY DEF Init
<1>5. \A d \in Devices : Pending(d)
  BY <1>4 DEF Pending
<1>. QED  BY <1>1, <1>2, <1>3, <1>5, TypeParts DEF TypeInv

\* Trimmed names are names or empty.
LEMMA TrimType ==
    ASSUME NEW text \in Names \union {Blank, Spaces}
    PROVE  Trim(text) \in Names \union {Blank}
BY DEF Trim

\* Nothing of phone e's pages and of its dealings with Firebase changes.
SameLogin(e) ==
    /\ up'[e] = up[e] /\ authStatus'[e] = authStatus[e]
    /\ session'[e] = session[e]
    /\ authCalls'[e] = authCalls[e] /\ authReplies'[e] = authReplies[e]
    /\ _email'[e] = _email[e] /\ _username'[e] = _username[e]

\* A call of Auth is added.
LEMMA AuthCallTypes ==
    ASSUME AuthTypeOK, NEW d \in Devices, NEW op \in AuthOps,
           NEW email \in Emails \union {null}, AuthCall(d, op, email)
    PROVE  /\ authCalls' \in [Devices -> Seq(AuthCalls)]
           /\ \A e \in Devices : e # d => authCalls'[e] = authCalls[e]
           /\ authCalls'[d] = Append(authCalls[d], [op |-> op, email |-> email])
           /\ \A j \in DOMAIN authCalls'[d] :
                 \/ authCalls'[d][j] = [op |-> op, email |-> email]
                 \/ \E k \in DOMAIN authCalls[d] : authCalls'[d][j] = authCalls[d][k]
<1>. DEFINE c == [op |-> op, email |-> email]
<1>1. c \in AuthCalls /\ authCalls \in [Devices -> Seq(AuthCalls)]
      /\ authCalls[d] \in Seq(AuthCalls)
  BY DEF AuthCalls, AuthTypeOK
<1>2. authCalls' = [authCalls EXCEPT ![d] = Append(authCalls[d], c)]
  BY DEF AuthCall
<1>. HIDE DEF c
<1>3. /\ Append(authCalls[d], c) \in Seq(AuthCalls)
      /\ \A j \in DOMAIN Append(authCalls[d], c) :
            \/ Append(authCalls[d], c)[j] = c
            \/ \E k \in DOMAIN authCalls[d] : Append(authCalls[d], c)[j] = authCalls[d][k]
  BY <1>1, AppendElements
<1>4. /\ authCalls'[d] = Append(authCalls[d], c)
      /\ authCalls' \in [Devices -> Seq(AuthCalls)]
      /\ \A e \in Devices : e # d => authCalls'[e] = authCalls[e]
  BY <1>1, <1>2, <1>3
<1>. QED  BY <1>3, <1>4 DEF c

\* validateAndSubmit up to its await.
LEMMA SubmitTypes ==
    ASSUME TypeInv, NEW d \in Devices, NEW available, ValidateAndSubmit(d, available)
    PROVE  /\ authCalls' \in [Devices -> Seq(AuthCalls)]
           /\ _email' \in [Devices -> Emails \union {null}]
           /\ _username' \in [Devices -> Names \union {Blank, null}]
           /\ \A e \in Devices : e # d => /\ authCalls'[e] = authCalls[e]
                                          /\ _email'[e] = _email[e]
                                          /\ _username'[e] = _username[e]
           /\ Registering(d) => Registering(d)'
           /\ \A j \in DOMAIN authCalls'[d] :
                 \/ \E k \in DOMAIN authCalls[d] : authCalls'[d][j] = authCalls[d][k]
                 \/ /\ authCalls'[d][j].op # "currentUser"
                    /\ authCalls'[d][j].email \in Emails
                    /\ authCalls'[d][j].email = _email'[d]
                    /\ authCalls'[d][j].op = "createUser" => Registering(d)'
<1>0. AuthTypeOK /\ PageTypeOK
  BY TypeParts DEF TypeInv
<1>1. /\ _email \in [Devices -> Emails \union {null}]
      /\ _username \in [Devices -> Names \union {Blank, null}]
      /\ emailText \in [Devices -> Emails \union {Blank}]
      /\ nameText[d] \in Names \union {Blank, Spaces}
      /\ authCalls \in [Devices -> Seq(AuthCalls)]
  BY <1>0 DEF PageTypeOK, AuthTypeOK
<1>2. CASE ~Valid(d)
  <2>1. UNCHANGED <<_email, _username, authCalls>>
    BY <1>2 DEF ValidateAndSubmit
  <2>. QED  BY <1>1, <2>1 DEF Registering
<1>3. CASE Valid(d)
  <2>. PICK email : email = emailText[d]
    OBVIOUS
  <2>1. email \in Emails /\ email # null
    BY <1>1, <1>3, LoginAssumption DEF Valid
  <2>2. /\ _email' = [_email EXCEPT ![d] = email]
        /\ _username' = [_username EXCEPT ![d] =
              IF formType[d] = "register" THEN Trim(nameText[d]) ELSE _username[d]]
    BY <1>3 DEF ValidateAndSubmit
  <2>. PICK name : name = Trim(nameText[d])
    OBVIOUS
  <2>3. name \in Names \union {Blank} /\ name # null
    BY <1>1, TrimType, LoginAssumption
  <2>4. /\ _email' \in [Devices -> Emails \union {null}]
        /\ _username' \in [Devices -> Names \union {Blank, null}]
        /\ \A e \in Devices : e # d => /\ _email'[e] = _email[e]
                                       /\ _username'[e] = _username[e]
        /\ _email'[d] = email
        /\ _username'[d] = IF formType[d] = "register" THEN name ELSE _username[d]
    BY <1>1, <2>1, <2>2, <2>3
  <2>5. /\ Registering(d) => Registering(d)'
        /\ formType[d] = "register" => Registering(d)'
    BY <2>1, <2>3, <2>4 DEF Registering
  <2>6. ASSUME NEW op \in {"signIn", "createUser"}, AuthCall(d, op, email),
               op = "createUser" => formType[d] = "register"
        PROVE  /\ authCalls' \in [Devices -> Seq(AuthCalls)]
               /\ \A e \in Devices : e # d => authCalls'[e] = authCalls[e]
               /\ \A j \in DOMAIN authCalls'[d] :
                     \/ \E k \in DOMAIN authCalls[d] : authCalls'[d][j] = authCalls[d][k]
                     \/ /\ authCalls'[d][j].op # "currentUser"
                        /\ authCalls'[d][j].email = email
                        /\ authCalls'[d][j].op = "createUser" => Registering(d)'
    <3>1. op \in AuthOps /\ op # "currentUser"
      BY DEF AuthOps
    <3>2. /\ authCalls' \in [Devices -> Seq(AuthCalls)]
          /\ \A e \in Devices : e # d => authCalls'[e] = authCalls[e]
          /\ \A j \in DOMAIN authCalls'[d] :
                 \/ authCalls'[d][j] = [op |-> op, email |-> email]
                 \/ \E k \in DOMAIN authCalls[d] : authCalls'[d][j] = authCalls[d][k]
      BY <1>0, <2>1, <2>6, <3>1, AuthCallTypes
    <3>. QED  BY <2>5, <2>6, <3>1, <3>2
  <2>7. CASE authCalls' = authCalls
    BY <1>1, <2>4, <2>5, <2>7
  <2>8. \/ authCalls' = authCalls
        \/ AuthCall(d, "signIn", email)
        \/ formType[d] = "register" /\ AuthCall(d, "createUser", email)
    <3>1. formType[d] \in {"login", "register"}
      BY <1>0 DEF PageTypeOK
    <3>. QED  BY <1>3, <3>1 DEF ValidateAndSubmit
  <2>. QED  BY <2>1, <2>4, <2>5, <2>6, <2>7, <2>8
<1>. QED  BY <1>2, <1>3

\* Firebase has handled call i of d.
Handled(d, i, user) ==
    /\ authCalls' \in [Devices -> Seq(AuthCalls)]
    /\ authReplies' \in [Devices -> Seq(AuthReplies)]
    /\ \A e \in Devices : e # d => /\ authCalls'[e] = authCalls[e]
                                   /\ authReplies'[e] = authReplies[e]
    /\ Len(authCalls'[d]) = Len(authCalls[d]) - 1
    /\ \A j \in DOMAIN authCalls'[d] :
          \E k \in DOMAIN authCalls[d] : authCalls'[d][j] = authCalls[d][k]
    /\ \A k \in DOMAIN authCalls[d] :
          k # i => \E j \in DOMAIN authCalls'[d] : authCalls'[d][j] = authCalls[d][k]
    /\ authReplies'[d] = Append(authReplies[d], [op |-> authCalls[d][i].op, user |-> user])

LEMMA ResultTypes ==
    ASSUME AuthTypeOK, NEW d \in Devices, NEW i \in DOMAIN authCalls[d],
           NEW user \in Emails \union {null}, AuthResult(d, i, user)
    PROVE  /\ Handled(d, i, user)
           /\ authCalls[d][i] \in AuthCalls
<1>1. /\ authCalls \in [Devices -> Seq(AuthCalls)] /\ authCalls[d] \in Seq(AuthCalls)
      /\ authReplies \in [Devices -> Seq(AuthReplies)] /\ authReplies[d] \in Seq(AuthReplies)
      /\ authCalls[d][i] \in AuthCalls
  BY Elements DEF AuthTypeOK
<1>. DEFINE r == [op |-> authCalls[d][i].op, user |-> user]
<1>2. r \in AuthReplies
  BY <1>1 DEF AuthCalls, AuthReplies
<1>3. /\ authCalls' = [authCalls EXCEPT ![d] = RemoveAt(authCalls[d], i)]
      /\ authReplies' = [authReplies EXCEPT ![d] = Append(authReplies[d], r)]
  BY DEF AuthResult
<1>. HIDE DEF r
<1>4. /\ RemoveAt(authCalls[d], i) \in Seq(AuthCalls)
      /\ Len(RemoveAt(authCalls[d], i)) = Len(authCalls[d]) - 1
      /\ \A j \in DOMAIN RemoveAt(authCalls[d], i) :
            \E k \in DOMAIN authCalls[d] : RemoveAt(authCalls[d], i)[j] = authCalls[d][k]
  BY <1>1, RemoveAtProperties
<1>5. \A k \in DOMAIN authCalls[d] : k # i =>
          \E j \in DOMAIN RemoveAt(authCalls[d], i) :
             RemoveAt(authCalls[d], i)[j] = authCalls[d][k]
  BY <1>1, RemoveAtKeeps
<1>6. Append(authReplies[d], r) \in Seq(AuthReplies)
  BY <1>1, <1>2, AppendElements
<1>7. /\ authCalls'[d] = RemoveAt(authCalls[d], i)
      /\ authReplies'[d] = Append(authReplies[d], r)
      /\ authCalls' \in [Devices -> Seq(AuthCalls)]
      /\ authReplies' \in [Devices -> Seq(AuthReplies)]
      /\ \A e \in Devices : e # d => /\ authCalls'[e] = authCalls[e]
                                     /\ authReplies'[e] = authReplies[e]
  BY <1>1, <1>3, <1>4, <1>6
<1>. QED  BY <1>1, <1>4, <1>5, <1>7 DEF Handled, r

\* Another account: its own mutation queue comes, that of the last one goes.
LEMMA UserChangeTypes ==
    ASSUME TypeOK, NEW d \in Devices, NEW user \in Emails, UserDidChange(d, user)
    PROVE  /\ session' \in [Devices -> Emails \union {null}]
           /\ session'[d] = user
           /\ \A e \in Devices : e # d => session'[e] = session[e]
           /\ parked' \in [Devices -> [Emails \union {null} -> Seq(ProfileWrites)]]
           /\ outbox' \in [Devices -> Seq(ProfileWrites)]
           /\ SendTypeOK'
           /\ \A e \in Devices : \A i \in DOMAIN outbox'[e] :
                 \/ \E k \in DOMAIN outbox[e] : outbox'[e][i] = outbox[e][k]
                 \/ \E k \in DOMAIN parked[e][user] : outbox'[e][i] = parked[e][user][k]
           /\ \A e \in Devices, v \in Emails \union {null} : \A i \in DOMAIN parked'[e][v] :
                 \/ \E k \in DOMAIN outbox[e] : parked'[e][v][i] = outbox[e][k]
                 \/ \E k \in DOMAIN parked[e][v] : parked'[e][v][i] = parked[e][v][k]
<1>. DEFINE who == Emails \union {null}
<1>1. /\ session \in [Devices -> who] /\ SendTypeOK
      /\ parked \in [Devices -> [who -> Seq(ProfileWrites)]]
      /\ outbox \in [Devices -> Seq(ProfileWrites)] /\ outbox[d] \in Seq(ProfileWrites)
      /\ session[d] \in who /\ user \in who
  BY DEF TypeOK
<1>2. session' = [session EXCEPT ![d] = user]
  BY DEF UserDidChange
<1>3. CASE user = session[d]
  <2>1. UNCHANGED <<outbox, applied, acked, learnt, parked>>
    BY <1>3 DEF UserDidChange, sendVars
  <2>2. SendTypeOK'
    BY <1>1, <2>1 DEF SendTypeOK
  <2>. QED  BY <1>1, <1>2, <2>1, <2>2
<1>4. CASE user # session[d]
  <2>. PICK rest : rest = SubSeq(outbox[d], acked[d] + 1, Len(outbox[d]))
    OBVIOUS
  <2>. PICK mine : mine = parked[d]
    OBVIOUS
  <2>. PICK last : last = session[d]
    OBVIOUS
  <2>1. /\ parked' = [parked EXCEPT ![d] = [mine EXCEPT ![last] = rest, ![user] = <<>>]]
        /\ outbox' = [outbox EXCEPT ![d] = mine[user]]
        /\ applied' = [applied EXCEPT ![d] = 0]
        /\ acked' = [acked EXCEPT ![d] = 0]
        /\ learnt' = [learnt EXCEPT ![d] = {}]
    BY <1>1, <1>4 DEF UserDidChange
  <2>2. acked[d] \in 0..Len(outbox[d])
    <3>1. acked[d] \in Nat /\ applied[d] \in Nat /\ Len(outbox[d]) \in Nat
          /\ acked[d] <= applied[d] /\ applied[d] <= Len(outbox[d])
      BY <1>1, LenProperties DEF SendTypeOK
    <3>. QED  BY <3>1
  <2>3. /\ rest \in Seq(ProfileWrites)
        /\ \A j \in DOMAIN rest : \E k \in DOMAIN outbox[d] : rest[j] = outbox[d][k]
    <3>1. /\ rest \in Seq(ProfileWrites)
          /\ \A j \in DOMAIN rest :
                j + acked[d] \in DOMAIN outbox[d] /\ rest[j] = outbox[d][j + acked[d]]
      BY <1>1, <2>2, SuffixElements
    <3>. QED  BY <3>1
  <2>4. mine \in [who -> Seq(ProfileWrites)] /\ mine[user] \in Seq(ProfileWrites)
        /\ <<>> \in Seq(ProfileWrites)
    BY <1>1, EmptySeq
  <2>. HIDE DEF who
  <2>. PICK new : new = [mine EXCEPT ![last] = rest, ![user] = <<>>]
    OBVIOUS
  <2>5. /\ new \in [who -> Seq(ProfileWrites)]
        /\ \A v \in who : new[v] = <<>> \/ new[v] = rest \/ new[v] = mine[v]
    BY <1>1, <2>3, <2>4
  <2>6. /\ parked' \in [Devices -> [who -> Seq(ProfileWrites)]]
        /\ outbox' \in [Devices -> Seq(ProfileWrites)]
        /\ parked'[d] = new /\ outbox'[d] = mine[user]
        /\ \A e \in Devices : e # d => parked'[e] = parked[e] /\ outbox'[e] = outbox[e]
    BY <1>1, <2>1, <2>4, <2>5
  <2>7. SendTypeOK'
    <3>1. Len(mine[user]) \in Nat
      BY <2>4, LenProperties
    <3>2. applied' \in [Devices -> Nat] /\ acked' \in [Devices -> Nat]
          /\ learnt' \in [Devices -> SUBSET Paths]
      BY <1>1, <2>1 DEF SendTypeOK
    <3>3. ASSUME NEW e \in Devices
          PROVE  acked'[e] <= applied'[e] /\ applied'[e] <= Len(outbox'[e])
      <4>1. CASE e = d
        BY <1>1, <2>1, <2>6, <3>1, <4>1 DEF SendTypeOK
      <4>2. CASE e # d
        BY <1>1, <2>1, <2>6, <4>2 DEF SendTypeOK
      <4>. QED  BY <4>1, <4>2
    <3>. QED  BY <3>2, <3>3 DEF SendTypeOK
  <2>8. ASSUME NEW e \in Devices, NEW i \in DOMAIN outbox'[e]
        PROVE  \/ \E k \in DOMAIN outbox[e] : outbox'[e][i] = outbox[e][k]
               \/ \E k \in DOMAIN parked[e][user] : outbox'[e][i] = parked[e][user][k]
    BY <2>6, <2>8
  <2>9. ASSUME NEW e \in Devices, NEW v \in who, NEW i \in DOMAIN parked'[e][v]
        PROVE  \/ \E k \in DOMAIN outbox[e] : parked'[e][v][i] = outbox[e][k]
               \/ \E k \in DOMAIN parked[e][v] : parked'[e][v][i] = parked[e][v][k]
    <3>1. CASE e # d
      BY <2>6, <2>9, <3>1
    <3>2. CASE e = d
      <4>1. parked'[e][v] = <<>> \/ parked'[e][v] = rest \/ parked'[e][v] = mine[v]
        BY <2>5, <2>6, <3>2
      <4>2. CASE parked'[e][v] = <<>>
        BY <2>9, <4>2
      <4>3. CASE parked'[e][v] = rest
        BY <2>3, <2>9, <3>2, <4>3
      <4>4. CASE parked'[e][v] = mine[v]
        BY <2>9, <3>2, <4>4
      <4>. QED  BY <4>1, <4>2, <4>3, <4>4
    <3>. QED  BY <3>1, <3>2
  <2>. QED  BY <1>1, <1>2, <2>6, <2>7, <2>8, <2>9 DEF who
<1>. QED  BY <1>3, <1>4

-----------------------------------------------------------------------------
(***************************************************************************)
(* One lemma per action: it keeps the types, and other phones out of it.   *)
(***************************************************************************)

StepOK(d) ==
    /\ TypeOK'
    /\ Pending(d)'
    /\ \A e \in Devices : e # d => SameLogin(e)

LEMMA Untouched ==
    ASSUME TypeInv, NEW d \in Devices, TypeOK',
           UNCHANGED <<up, authStatus, session, authCalls, authReplies, _email, _username>>
    PROVE  StepOK(d)
BY DEF TypeInv, Pending, Registering, SameLogin, StepOK

LEMMA TypesKept ==
    ASSUME TypeInv
    PROVE  /\ FsTypeOK(UserDocs, NameQueries) /\ AuthTypeOK /\ PageTypeOK
           /\ UNCHANGED fsVars => FsTypeOK(UserDocs, NameQueries)'
           /\ UNCHANGED authVars => AuthTypeOK'
<1>1. FsTypeOK(UserDocs, NameQueries) /\ AuthTypeOK /\ PageTypeOK
  BY TypeParts DEF TypeInv
<1>2. UNCHANGED fsVars => FsTypeOK(UserDocs, NameQueries)'
  BY <1>1 DEF fsVars, sendVars, FsTypeOK, SendTypeOK
<1>3. UNCHANGED authVars => AuthTypeOK'
  BY <1>1 DEF authVars, AuthTypeOK
<1>. QED  BY <1>1, <1>2, <1>3

LEMMA NewTypes ==
    FsTypeOK(UserDocs, NameQueries)' /\ AuthTypeOK' /\ PageTypeOK' => TypeOK'
BY TypeParts, PTL

\* A page that was just created.
LEMMA FreshTypes ==
    ASSUME PageTypeOK, NEW d \in Devices, FreshLogin(d), NEW b \in BOOLEAN,
           up' = [up EXCEPT ![d] = b],
           authStatus' = [authStatus EXCEPT ![d] = "notSignedIn"],
           ops' \in [Devices -> 0..MaxOps]
    PROVE  /\ PageTypeOK'
           /\ up'[d] = b
           /\ \A e \in Devices : e # d => /\ up'[e] = up[e]
                                          /\ authStatus'[e] = authStatus[e]
                                          /\ _email'[e] = _email[e]
                                          /\ _username'[e] = _username[e]
BY DEF FreshLogin, PageTypeOK

LEMMA LaunchOK ==
    ASSUME TypeInv, NEW d \in Devices, Launch(d)
    PROVE  StepOK(d)
<1>0. FsTypeOK(UserDocs, NameQueries) /\ AuthTypeOK /\ PageTypeOK
  BY TypesKept
<1>1. /\ ~up[d] /\ ops[d] > 0 /\ ops' = [ops EXCEPT ![d] = ops[d] - 1]
      /\ up' = [up EXCEPT ![d] = TRUE]
      /\ authStatus' = [authStatus EXCEPT ![d] = "notSignedIn"]
      /\ FreshLogin(d) /\ AuthCall(d, "currentUser", null)
      /\ UNCHANGED <<fsVars, accounts, session, parked, authReplies>>
  BY DEF Launch
<1>2. ops' \in [Devices -> 0..MaxOps]
  <2>1. ops \in [Devices -> 0..MaxOps] /\ MaxOps \in Nat
    BY <1>0, LoginAssumption DEF PageTypeOK
  <2>2. ops[d] - 1 \in 0..MaxOps
    BY <1>1, <2>1
  <2>. QED  BY <1>1, <2>1, <2>2
<1>3. /\ PageTypeOK' /\ up'[d] = TRUE
      /\ \A e \in Devices : e # d => /\ up'[e] = up[e]
                                     /\ authStatus'[e] = authStatus[e]
                                     /\ _email'[e] = _email[e]
                                     /\ _username'[e] = _username[e]
  BY <1>0, <1>1, <1>2, FreshTypes
<1>4. "currentUser" \in AuthOps /\ null \in Emails \union {null}
  BY DEF AuthOps
<1>5. /\ authCalls' \in [Devices -> Seq(AuthCalls)]
      /\ \A e \in Devices : e # d => authCalls'[e] = authCalls[e]
      /\ \A j \in DOMAIN authCalls'[d] :
             \/ authCalls'[d][j] = [op |-> "currentUser", email |-> null]
             \/ \E k \in DOMAIN authCalls[d] : authCalls'[d][j] = authCalls[d][k]
  BY <1>0, <1>1, <1>4, AuthCallTypes
<1>6. authCalls[d] = <<>> /\ authReplies'[d] = <<>>
  BY <1>1 DEF TypeInv, Pending
<1>7. FsTypeOK(UserDocs, NameQueries)' /\ AuthTypeOK'
  BY <1>0, <1>1, <1>5, TypesKept DEF AuthTypeOK
<1>8. Pending(d)'
  <2>1. \A j \in DOMAIN authCalls'[d] : authCalls'[d][j].op = "currentUser"
    BY <1>5, <1>6
  <2>2. DOMAIN authReplies'[d] = {}
    BY <1>6
  <2>. QED  BY <1>3, <2>1, <2>2 DEF Pending
<1>. QED  BY <1>1, <1>3, <1>5, <1>7, <1>8, NewTypes DEF StepOK, SameLogin

LEMMA KillOK ==
    ASSUME TypeInv, NEW d \in Devices, Kill(d)
    PROVE  StepOK(d)
<1>0. FsTypeOK(UserDocs, NameQueries) /\ AuthTypeOK /\ PageTypeOK
  BY TypesKept
<1>1. /\ up' = [up EXCEPT ![d] = FALSE] /\ ops' = ops
      /\ authStatus' = [authStatus EXCEPT ![d] = "notSignedIn"]
      /\ FreshLogin(d) /\ RestartClient(d)
      /\ authCalls' = [authCalls EXCEPT ![d] = <<>>]
      /\ authReplies' = [authReplies EXCEPT ![d] = <<>>]
      /\ UNCHANGED <<accounts, session, parked>>
  BY DEF Kill
<1>2. ops' \in [Devices -> 0..MaxOps]
  BY <1>0, <1>1 DEF PageTypeOK
<1>3. /\ PageTypeOK' /\ up'[d] = FALSE
      /\ \A e \in Devices : e # d => /\ up'[e] = up[e]
                                     /\ authStatus'[e] = authStatus[e]
                                     /\ _email'[e] = _email[e]
                                     /\ _username'[e] = _username[e]
  BY <1>0, <1>1, <1>2, FreshTypes
<1>4. FsTypeOK(UserDocs, NameQueries)'
  BY <1>0, <1>1, RestartTypes
<1>5. /\ AuthTypeOK'
      /\ authCalls'[d] = <<>> /\ authReplies'[d] = <<>>
      /\ \A e \in Devices : e # d => /\ authCalls'[e] = authCalls[e]
                                     /\ authReplies'[e] = authReplies[e]
  BY <1>0, <1>1, EmptySeq DEF AuthTypeOK
<1>6. Pending(d)'
  BY <1>5 DEF Pending
<1>. QED  BY <1>1, <1>3, <1>4, <1>5, <1>6, NewTypes DEF StepOK, SameLogin

LEMMA EnterOK ==
    ASSUME TypeInv, NEW d \in Devices, NEW n \in Names \union {Blank, Spaces},
           NEW m \in Emails, Enter(d, n, m)
    PROVE  StepOK(d)
<1>0. FsTypeOK(UserDocs, NameQueries) /\ AuthTypeOK /\ PageTypeOK
  BY TypesKept
<1>1. FsTypeOK(UserDocs, NameQueries)' /\ AuthTypeOK'
  BY TypesKept DEF Enter
<1>2. PageTypeOK'
  BY <1>0 DEF Enter, PageTypeOK
<1>3. UNCHANGED <<up, authStatus, session, authCalls, authReplies, _email, _username>>
  BY DEF Enter, authVars
<1>. QED  BY <1>1, <1>2, <1>3, NewTypes, Untouched

LEMMA MoveToOK ==
    ASSUME TypeInv, NEW d \in Devices, NEW t \in {"login", "register"}, MoveTo(d, t)
    PROVE  StepOK(d)
<1>0. FsTypeOK(UserDocs, NameQueries) /\ AuthTypeOK /\ PageTypeOK
  BY TypesKept
<1>1. FsTypeOK(UserDocs, NameQueries)' /\ AuthTypeOK'
  BY TypesKept DEF MoveTo
<1>2. PageTypeOK'
  BY <1>0 DEF MoveTo, PageTypeOK
<1>3. UNCHANGED <<up, authStatus, session, authCalls, authReplies, _email, _username>>
  BY DEF MoveTo, authVars
<1>. QED  BY <1>1, <1>2, <1>3, NewTypes, Untouched

\* A submitted form leaves calls of Auth behind that carry what was saved.
LEMMA SubmitOK ==
    ASSUME TypeInv, NEW d \in Devices, up[d], NEW available, ValidateAndSubmit(d, available),
           UNCHANGED <<up, authStatus, accounts, session, parked, authReplies>>
    PROVE  /\ AuthTypeOK' /\ Pending(d)'
           /\ \A e \in Devices : e # d => SameLogin(e)
<1>0. AuthTypeOK
  BY TypesKept
<1>1. /\ authCalls' \in [Devices -> Seq(AuthCalls)]
      /\ \A e \in Devices : e # d => /\ authCalls'[e] = authCalls[e]
                                     /\ _email'[e] = _email[e]
                                     /\ _username'[e] = _username[e]
      /\ Registering(d) => Registering(d)'
      /\ \A j \in DOMAIN authCalls'[d] :
            \/ \E k \in DOMAIN authCalls[d] : authCalls'[d][j] = authCalls[d][k]
            \/ /\ authCalls'[d][j].op # "currentUser"
               /\ authCalls'[d][j].email \in Emails
               /\ authCalls'[d][j].op = "createUser" => Registering(d)'
  BY SubmitTypes
<1>2. AuthTypeOK'
  BY <1>0, <1>1 DEF AuthTypeOK
<1>. QED  BY <1>1, <1>2 DEF TypeInv, Pending, SameLogin

LEMMA PressLoginOK ==
    ASSUME TypeInv, NEW d \in Devices, PressLogin(d)
    PROVE  StepOK(d)
<1>0. FsTypeOK(UserDocs, NameQueries) /\ AuthTypeOK /\ PageTypeOK
  BY TypesKept
<1>1. /\ up[d] /\ ops[d] > 0 /\ ops' = [ops EXCEPT ![d] = ops[d] - 1]
      /\ ValidateAndSubmit(d, usernameAvailable[d])
      /\ UNCHANGED <<fsVars, accounts, session, parked, authReplies, up, authStatus,
                     formType, usernameAvailable, nameText, emailText>>
  BY DEF PressLogin, AtForm, LoginShown
<1>2. FsTypeOK(UserDocs, NameQueries)'
  BY <1>1, TypesKept
<1>3. ops' \in [Devices -> 0..MaxOps]
  <2>1. ops \in [Devices -> 0..MaxOps] /\ MaxOps \in Nat
    BY <1>0, LoginAssumption DEF PageTypeOK
  <2>2. ops[d] - 1 \in 0..MaxOps
    BY <1>1, <2>1
  <2>. QED  BY <1>1, <2>1, <2>2
<1>4. /\ _email' \in [Devices -> Emails \union {null}]
      /\ _username' \in [Devices -> Names \union {Blank, null}]
  BY <1>1, SubmitTypes
<1>5. PageTypeOK'
  BY <1>0, <1>1, <1>3, <1>4 DEF PageTypeOK
<1>6. AuthTypeOK' /\ Pending(d)' /\ \A e \in Devices : e # d => SameLogin(e)
  BY <1>1, SubmitOK
<1>. QED  BY <1>2, <1>5, <1>6, NewTypes DEF StepOK

LEMMA PressRegisterOK ==
    ASSUME TypeInv, NEW d \in Devices, PressRegister(d)
    PROVE  StepOK(d)
<1>0. FsTypeOK(UserDocs, NameQueries) /\ AuthTypeOK /\ PageTypeOK
  BY TypesKept
<1>. PICK name : name = Trim(nameText[d])
  OBVIOUS
<1>. PICK q : q = Where(d, <<"users">>, "brukernavn", name)
  OBVIOUS
<1>1. /\ ops[d] > 0 /\ ops' = [ops EXCEPT ![d] = ops[d] - 1]
      /\ _username' = [_username EXCEPT ![d] = name]
      /\ calls' = [calls EXCEPT ![d] = Append(calls[d], q)]
      /\ UNCHANGED <<store, cache, outbox, sendVars, replies, authVars, up, authStatus,
                     formType, _email, usernameAvailable, nameText, emailText>>
  BY DEF PressRegister
<1>2. name \in Names \union {Blank} /\ name # null
  BY <1>0, TrimType, LoginAssumption DEF PageTypeOK
<1>3. q \in NameQueries
  BY <1>2 DEF NameQueries, Where
<1>4. ops' \in [Devices -> 0..MaxOps]
  <2>1. ops \in [Devices -> 0..MaxOps] /\ MaxOps \in Nat
    BY <1>0, LoginAssumption DEF PageTypeOK
  <2>2. ops[d] - 1 \in 0..MaxOps
    BY <1>1, <2>1
  <2>. QED  BY <1>1, <2>1, <2>2
<1>5. PageTypeOK'
  BY <1>0, <1>1, <1>2, <1>4 DEF PageTypeOK
<1>6. FsTypeOK(UserDocs, NameQueries)'
  <2>1. calls \in [Devices -> Seq(NameQueries)] /\ calls[d] \in Seq(NameQueries)
    BY <1>0 DEF FsTypeOK
  <2>2. Append(calls[d], q) \in Seq(NameQueries)
    BY <1>3, <2>1, AppendElements
  <2>3. calls' \in [Devices -> Seq(NameQueries)]
    BY <1>1, <2>1, <2>2
  <2>. QED  BY <1>0, <1>1, <2>3 DEF FsTypeOK, SendTypeOK, sendVars
<1>7. AuthTypeOK'
  BY <1>1, TypesKept
<1>8. /\ UNCHANGED <<up, authStatus, session, authCalls, authReplies, _email>>
      /\ _username'[d] = name /\ \A e \in Devices : e # d => _username'[e] = _username[e]
  BY <1>0, <1>1 DEF authVars, PageTypeOK
<1>9. Pending(d)'
  <2>1. Registering(d) => Registering(d)'
    BY <1>2, <1>8 DEF Registering
  <2>. QED  BY <1>8, <2>1 DEF TypeInv, Pending
<1>. QED  BY <1>5, <1>6, <1>7, <1>8, <1>9, NewTypes DEF StepOK, SameLogin

\* The types of the client after an answer was delivered.
LEMMA DeliveredTypes ==
    ASSUME FsTypeOK(UserDocs, NameQueries), NEW d \in Devices, replies[d] # <<>>,
           Deliver(d, <<>>), UNCHANGED <<store, cache, outbox, sendVars>>
    PROVE  FsTypeOK(UserDocs, NameQueries)' /\ calls' = calls
<1>1. /\ calls' = calls
      /\ replies' \in [Devices -> Seq(AnswersOf(UserDocs, NameQueries))]
  BY DeliverTypes
<1>. QED  BY <1>1 DEF FsTypeOK, SendTypeOK, sendVars

LEMMA UsernameAnswerOK ==
    ASSUME TypeInv, NEW d \in Devices, UsernameAnswer(d)
    PROVE  StepOK(d)
<1>0. FsTypeOK(UserDocs, NameQueries) /\ AuthTypeOK /\ PageTypeOK
  BY TypesKept
<1>. PICK free \in BOOLEAN : free = (Head(replies[d]).docs = {})
  OBVIOUS
<1>1. /\ up[d] /\ replies[d] # <<>>
      /\ usernameAvailable' = [usernameAvailable EXCEPT ![d] = free]
      /\ \/ ValidateAndSubmit(d, TRUE)
         \/ UNCHANGED <<_email, _username, authCalls>>
      /\ Deliver(d, <<>>)
      /\ UNCHANGED <<store, cache, outbox, sendVars, accounts, session, parked,
                     authReplies, up, authStatus, ops, formType, nameText, emailText>>
  BY DEF UsernameAnswer, LoginShown
<1>2. FsTypeOK(UserDocs, NameQueries)'
  BY <1>0, <1>1, DeliveredTypes
<1>3. /\ _email' \in [Devices -> Emails \union {null}]
      /\ _username' \in [Devices -> Names \union {Blank, null}]
  BY <1>0, <1>1, SubmitTypes DEF PageTypeOK
<1>4. PageTypeOK'
  BY <1>0, <1>1, <1>3 DEF PageTypeOK
<1>5. CASE ValidateAndSubmit(d, TRUE)
  <2>1. AuthTypeOK' /\ Pending(d)' /\ \A e \in Devices : e # d => SameLogin(e)
    BY <1>1, <1>5, SubmitOK
  <2>. QED  BY <1>2, <1>4, <2>1, NewTypes DEF StepOK
<1>6. CASE UNCHANGED <<_email, _username, authCalls>>
  <2>1. AuthTypeOK'
    BY <1>0, <1>1, <1>6 DEF AuthTypeOK
  <2>. QED  BY <1>1, <1>2, <1>4, <1>6, <2>1, NewTypes, Untouched
<1>. QED  BY <1>1, <1>5, <1>6

LEMMA PagesAlone ==
    ASSUME TypeInv, NEW d \in Devices, FsTypeOK(UserDocs, NameQueries)',
           UNCHANGED <<authVars, loginVars, up, authStatus, ops>>
    PROVE  StepOK(d)
<1>1. AuthTypeOK' /\ PageTypeOK
  BY TypesKept
<1>2. PageTypeOK'
  BY <1>1 DEF PageTypeOK, loginVars
<1>3. UNCHANGED <<up, authStatus, session, authCalls, authReplies, _email, _username>>
  BY DEF authVars, loginVars
<1>. QED  BY <1>1, <1>2, <1>3, NewTypes, Untouched

\* A late answer, a write on its way, an answer of Firestore.
LEMMA ClientStepsOK ==
    ASSUME TypeInv, NEW d \in Devices,
           \/ UsernameAnswerLost(d) \/ Sync(d)
           \/ \E i \in DOMAIN calls[d] : Answer(d, i)
    PROVE  StepOK(d) /\ UNCHANGED <<authVars, loginVars, up, authStatus, ops>>
<1>0. FsTypeOK(UserDocs, NameQueries)
  BY TypesKept
<1>1. UNCHANGED <<authVars, loginVars, up, authStatus, ops>>
  BY DEF UsernameAnswerLost, Sync, Apply, Ack, Release, Break, Answer
<1>2. CASE UsernameAnswerLost(d)
  <2>1. FsTypeOK(UserDocs, NameQueries)'
    BY <1>0, <1>2, DeliveredTypes DEF UsernameAnswerLost
  <2>. QED  BY <1>1, <2>1, PagesAlone
<1>3. CASE Sync(d)
  <2>1. ApplyWrite(d) \/ AckWrite(d) \/ ReleaseWrite(d) \/ BreakStream(d)
    BY <1>3 DEF Sync, Apply, Ack, Release, Break
  <2>2. FsTypeOK(UserDocs, NameQueries)'
    BY <1>0, <2>1, SyncTypes
  <2>. QED  BY <1>1, <2>2, PagesAlone
<1>4. ASSUME NEW i \in DOMAIN calls[d], Answer(d, i) PROVE StepOK(d)
  <2>1. AnswerFromServer(d, i) \/ AnswerFromCache(d, i)
    BY <1>4 DEF Answer
  <2>2. FsTypeOK(UserDocs, NameQueries)'
    BY <1>0, <2>1, AnswerTypes
  <2>. QED  BY <1>1, <2>2, PagesAlone
<1>. QED  BY <1>1, <1>2, <1>3, <1>4

\* What Firebase can make of call i of d, and the user it answers with.
AuthStep(d, i, user) ==
    /\ AuthResult(d, i, user)
    /\ accounts \subseteq accounts' /\ accounts' \subseteq Emails
    /\ \/ /\ UNCHANGED <<session, outbox, sendVars, parked>>
          /\ user = IF authCalls[d][i].op = "currentUser" THEN session[d] ELSE null
       \/ /\ user \in accounts' /\ user = authCalls[d][i].email
          /\ authCalls[d][i].op # "currentUser"
          /\ UserDidChange(d, user)

LEMMA AuthSteps ==
    ASSUME TypeInv, NEW d \in Devices, NEW i \in DOMAIN authCalls[d],
           AuthSucceeds(d, i) \/ AuthFails(d, i) \/ AuthResponseLost(d, i)
    PROVE  \E user \in Emails \union {null} : AuthStep(d, i, user)
<1>. PICK c : c = authCalls[d][i]
  OBVIOUS
<1>0. /\ AuthTypeOK /\ accounts \subseteq Emails /\ session[d] \in Emails \union {null}
      /\ c.op # "currentUser" => c.email \in Emails
  BY TypesKept DEF TypeInv, Pending, AuthTypeOK
<1>1. CASE c.op = "currentUser" /\ AuthResult(d, i, session[d])
           /\ UNCHANGED <<accounts, session, outbox, sendVars, parked>>
  BY <1>0, <1>1 DEF AuthStep
<1>2. CASE c.op = "signIn" /\ c.email \in accounts /\ UserDidChange(d, c.email)
           /\ AuthResult(d, i, c.email) /\ UNCHANGED accounts
  <2>1. AuthStep(d, i, c.email)
    BY <1>0, <1>2 DEF AuthStep
  <2>. QED  BY <1>0, <1>2, <2>1
<1>3. CASE c.op = "createUser" /\ accounts' = accounts \union {c.email}
           /\ UserDidChange(d, c.email) /\ AuthResult(d, i, c.email)
  <2>1. AuthStep(d, i, c.email)
    BY <1>0, <1>3 DEF AuthStep
  <2>. QED  BY <1>0, <1>3, <2>1
<1>4. CASE AuthFails(d, i)
  <2>1. AuthStep(d, i, null)
    BY <1>0, <1>4 DEF AuthStep, AuthFails
  <2>. QED  BY <2>1
<1>5. CASE AuthResponseLost(d, i)
  <2>1. /\ c.op = "createUser" /\ accounts' = accounts \union {c.email}
        /\ AuthResult(d, i, null) /\ UNCHANGED <<session, outbox, sendVars, parked>>
    BY <1>5 DEF AuthResponseLost
  <2>2. AuthStep(d, i, null)
    BY <1>0, <2>1 DEF AuthStep
  <2>. QED  BY <2>2
<1>6. ASSUME AuthSucceeds(d, i)
      PROVE  \/ c.op = "currentUser" /\ AuthResult(d, i, session[d])
                /\ UNCHANGED <<accounts, session, outbox, sendVars, parked>>
             \/ c.op = "signIn" /\ c.email \in accounts /\ UserDidChange(d, c.email)
                /\ AuthResult(d, i, c.email) /\ UNCHANGED accounts
             \/ c.op = "createUser" /\ accounts' = accounts \union {c.email}
                /\ UserDidChange(d, c.email) /\ AuthResult(d, i, c.email)
  BY <1>6 DEF AuthSucceeds
<1>. QED  BY <1>1, <1>2, <1>3, <1>4, <1>5, <1>6

LEMMA AuthStepOK ==
    ASSUME TypeInv, NEW d \in Devices, NEW i \in DOMAIN authCalls[d],
           NEW user \in Emails \union {null}, AuthStep(d, i, user)
    PROVE  StepOK(d) /\ Handled(d, i, user)
<1>0. FsTypeOK(UserDocs, NameQueries) /\ AuthTypeOK /\ PageTypeOK /\ TypeOK
  BY TypesKept DEF TypeInv
<1>1. /\ AuthResult(d, i, user)
      /\ UNCHANGED <<store, cache, calls, replies, up, authStatus, loginVars, ops>>
  BY DEF AuthStep, AuthResult
<1>2. Handled(d, i, user)
  BY <1>0, <1>1, ResultTypes
<1>3. /\ session' \in [Devices -> Emails \union {null}]
      /\ \A e \in Devices : e # d => session'[e] = session[e]
      /\ parked' \in [Devices -> [Emails \union {null} -> Seq(ProfileWrites)]]
      /\ outbox' \in [Devices -> Seq(ProfileWrites)]
      /\ SendTypeOK'
  <2>1. CASE UNCHANGED <<session, outbox, sendVars, parked>>
    BY <1>0, <2>1 DEF TypeOK, SendTypeOK, sendVars
  <2>2. CASE user \in accounts' /\ UserDidChange(d, user)
    <3>1. user \in Emails
      BY <2>2 DEF AuthStep
    <3>. QED  BY <1>0, <2>2, <3>1, UserChangeTypes
  <2>. QED  BY <2>1, <2>2 DEF AuthStep
<1>4. FsTypeOK(UserDocs, NameQueries)'
  BY <1>0, <1>1, <1>3 DEF FsTypeOK, ProfileWrites, WritesOf
<1>5. PageTypeOK'
  BY <1>0, <1>1 DEF PageTypeOK, loginVars
<1>6. AuthTypeOK'
  BY <1>2, <1>3 DEF AuthTypeOK, Handled, AuthStep
<1>7. _email' = _email /\ _username' = _username /\ up' = up
  BY <1>1 DEF loginVars
<1>8. Pending(d)'
  <2>1. Registering(d) <=> Registering(d)'
    BY <1>7 DEF Registering
  <2>2. up[d]
    BY DEF TypeInv, Pending
  <2>3. \A j \in DOMAIN authCalls'[d] :
           \E k \in DOMAIN authCalls[d] : authCalls'[d][j] = authCalls[d][k]
    BY <1>2 DEF Handled
  <2>4. ASSUME NEW j \in DOMAIN authReplies'[d], authReplies'[d][j].op = "createUser"
        PROVE  Registering(d)
    <3>. DEFINE r == [op |-> authCalls[d][i].op, user |-> user]
    <3>1. authReplies'[d] = Append(authReplies[d], r) /\ authReplies[d] \in Seq(AuthReplies)
      BY <1>0, <1>2 DEF Handled, AuthTypeOK
    <3>2. authCalls[d] \in Seq(AuthCalls)
      BY <1>0 DEF AuthTypeOK
    <3>3. authCalls[d][i] \in AuthCalls
      BY <3>2, Elements
    <3>4. r \in AuthReplies
      BY <3>3 DEF AuthCalls, AuthReplies
    <3>. HIDE DEF r
    <3>5. authReplies'[d][j] = r \/ \E k \in DOMAIN authReplies[d] :
                                       authReplies'[d][j] = authReplies[d][k]
      BY <2>4, <3>1, <3>4, AppendElements
    <3>6. CASE authReplies'[d][j] = r
      BY <2>4, <3>6 DEF r, TypeInv, Pending
    <3>. QED  BY <2>4, <3>5, <3>6 DEF TypeInv, Pending
  <2>. QED  BY <1>7, <2>1, <2>2, <2>3, <2>4 DEF TypeInv, Pending
<1>9. \A e \in Devices : e # d => SameLogin(e)
  BY <1>1, <1>2, <1>3, <1>7 DEF SameLogin, Handled
<1>. QED  BY <1>2, <1>4, <1>5, <1>6, <1>8, <1>9, NewTypes DEF StepOK

\* The profile saveUserData writes has an owner, an address and a name.
LEMMA AuthAnswerOK ==
    ASSUME TypeInv, NEW d \in Devices, AuthAnswer(d)
    PROVE  /\ StepOK(d)
           /\ Head(authReplies[d]) \in AuthReplies
           /\ 1 \in DOMAIN authReplies[d] /\ Head(authReplies[d]) = authReplies[d][1]
           /\ authReplies'[d] = Tail(authReplies[d])
           /\ \A j \in DOMAIN authReplies'[d] :
                 /\ j + 1 \in DOMAIN authReplies[d]
                 /\ authReplies'[d][j] = authReplies[d][j + 1]
<1>0. FsTypeOK(UserDocs, NameQueries) /\ AuthTypeOK /\ PageTypeOK
  BY TypesKept
<1>. PICK r : r = Head(authReplies[d])
  OBVIOUS
<1>1. /\ authReplies[d] # <<>>
      /\ authReplies' = [authReplies EXCEPT ![d] = Tail(authReplies[d])]
      /\ authStatus' = [authStatus EXCEPT ![d] =
                          IF r.user # null THEN "signedIn"
                          ELSE IF r.op = "currentUser" THEN "notSignedIn"
                          ELSE authStatus[d]]
      /\ outbox' = [outbox EXCEPT ![d] =
                      IF r.op = "createUser" /\ r.user # null
                      THEN Append(outbox[d], [path |-> UserPath(r.user),
                                 data |-> UserDoc(r.user, _email[d], _username[d])])
                      ELSE outbox[d]]
      /\ UNCHANGED <<store, cache, sendVars, calls, replies, accounts, session,
                     parked, authCalls, loginVars, up, ops>>
  BY DEF AuthAnswer, SetData
<1>2. authReplies \in [Devices -> Seq(AuthReplies)] /\ authReplies[d] \in Seq(AuthReplies)
  BY <1>0 DEF AuthTypeOK
<1>3. /\ Tail(authReplies[d]) \in Seq(AuthReplies) /\ r \in AuthReplies
      /\ 1 \in DOMAIN authReplies[d] /\ r = authReplies[d][1]
      /\ \A j \in DOMAIN Tail(authReplies[d]) :
            j + 1 \in DOMAIN authReplies[d] /\ Tail(authReplies[d])[j] = authReplies[d][j + 1]
  BY <1>1, <1>2, TailElements
<1>4. /\ authReplies'[d] = Tail(authReplies[d])
      /\ authReplies' \in [Devices -> Seq(AuthReplies)]
      /\ \A e \in Devices : e # d => authReplies'[e] = authReplies[e]
  BY <1>1, <1>2, <1>3
<1>5. FsTypeOK(UserDocs, NameQueries)'
  <2>. PICK w : w = [path |-> UserPath(r.user),
                     data |-> UserDoc(r.user, _email[d], _username[d])]
    OBVIOUS
  <2>1. CASE r.op = "createUser" /\ r.user # null
    <3>1. Registering(d) /\ r.user \in Emails
      BY <1>3, <2>1 DEF TypeInv, Pending, AuthReplies
    <3>2. UserPath(r.user) \in Paths
      BY <3>1, UserPathsAssumption
    <3>3. UserDoc(r.user, _email[d], _username[d]) \in UserDocs
      BY <1>0, <3>1 DEF Registering, PageTypeOK, UserDoc, UserDocs
    <3>4. w \in WritesOf(UserDocs)
      BY <3>2, <3>3 DEF WritesOf
    <3>5. /\ outbox \in [Devices -> Seq(WritesOf(UserDocs))]
          /\ outbox[d] \in Seq(WritesOf(UserDocs)) /\ SendTypeOK
      BY <1>0 DEF FsTypeOK
    <3>6. /\ Append(outbox[d], w) \in Seq(WritesOf(UserDocs))
          /\ Len(Append(outbox[d], w)) = Len(outbox[d]) + 1
          /\ Len(outbox[d]) \in Nat
      BY <3>4, <3>5, AppendProperties, LenProperties
    <3>7. outbox' = [outbox EXCEPT ![d] = Append(outbox[d], w)]
      BY <1>1, <2>1
    <3>8. Len(Append(outbox[d], w)) >= Len(outbox[d])
      BY <3>6
    <3>9. SendTypeOK'
      BY <1>1, <3>5, <3>6, <3>7, <3>8, GrowStep
    <3>. QED  BY <1>0, <1>1, <3>5, <3>6, <3>7, <3>9 DEF FsTypeOK
  <2>2. CASE ~(r.op = "createUser" /\ r.user # null)
    <3>1. outbox' = outbox
      BY <1>0, <1>1, <2>2 DEF FsTypeOK
    <3>. QED  BY <1>0, <1>1, <3>1 DEF FsTypeOK, SendTypeOK, sendVars
  <2>. QED  BY <2>1, <2>2
<1>6. AuthTypeOK'
  BY <1>0, <1>1, <1>4 DEF AuthTypeOK
<1>7. PageTypeOK' /\ \A e \in Devices : e # d => authStatus'[e] = authStatus[e]
  BY <1>0, <1>1 DEF PageTypeOK, loginVars
<1>8. _email' = _email /\ _username' = _username
  BY <1>1 DEF loginVars
<1>9. Pending(d)'
  <2>1. up[d]
    BY <1>1 DEF TypeInv, Pending
  <2>2. Registering(d) <=> Registering(d)'
    BY <1>8 DEF Registering
  <2>. QED  BY <1>1, <1>3, <1>4, <2>1, <2>2 DEF TypeInv, Pending
<1>10. \A e \in Devices : e # d => SameLogin(e)
  BY <1>1, <1>4, <1>7, <1>8 DEF SameLogin
<1>. QED  BY <1>3, <1>4, <1>5, <1>6, <1>7, <1>9, <1>10, NewTypes DEF StepOK

LEMMA EveryStepOK ==
    ASSUME TypeInv, NEW d \in Devices, User(d) \/ Firebase(d) \/ App(d) \/ Kill(d)
    PROVE  StepOK(d)
<1>1. CASE User(d)
  BY <1>1, LaunchOK, EnterOK, MoveToOK, PressLoginOK, PressRegisterOK DEF User
<1>2. CASE Firebase(d)
  <2>1. ASSUME NEW i \in DOMAIN authCalls[d],
               AuthSucceeds(d, i) \/ AuthFails(d, i) \/ AuthResponseLost(d, i)
        PROVE  StepOK(d)
    BY <2>1, AuthSteps, AuthStepOK
  <2>. QED  BY <1>2, <2>1, ClientStepsOK DEF Firebase
<1>3. CASE App(d)
  BY <1>3, UsernameAnswerOK, ClientStepsOK, AuthAnswerOK DEF App
<1>4. CASE Kill(d)
  BY <1>4, KillOK
<1>. QED  BY <1>1, <1>2, <1>3, <1>4

LEMMA TypeInvStep == TypeInv /\ [Next]_vars => TypeInv'
<1>. SUFFICES ASSUME TypeInv, [Next]_vars PROVE TypeInv'
  OBVIOUS
<1>1. ASSUME NEW d \in Devices, User(d) \/ Firebase(d) \/ App(d) \/ Kill(d)
      PROVE  TypeInv'
  <2>1. StepOK(d)
    BY <1>1, EveryStepOK
  <2>2. ASSUME NEW e \in Devices, e # d PROVE Pending(e)'
    BY <2>1, <2>2 DEF StepOK, SameLogin, TypeInv, Pending, Registering
  <2>. QED  BY <2>1, <2>2 DEF StepOK, TypeInv
<1>2. CASE UNCHANGED vars
  <2>1. FsTypeOK(UserDocs, NameQueries)' /\ AuthTypeOK' /\ PageTypeOK
    BY <1>2, TypesKept DEF vars
  <2>2. PageTypeOK'
    BY <1>2, <2>1 DEF vars, loginVars, PageTypeOK
  <2>. QED  BY <1>2, <2>1, <2>2, NewTypes
            DEF vars, authVars, loginVars, TypeInv, Pending, Registering
<1>. QED  BY <1>1, <1>2 DEF Next

\* For any phones, addresses and names, in whatever order forms are
\* submitted and answers come back: saveUserData never writes a profile from
\* a field that is null, and never to the path of a user that is null.
THEOREM LoginTypes == Spec => []TypeOK
<1>1. TypeInv => TypeOK
  BY DEF TypeInv
<1>. QED  BY <1>1, TypeInvInit, TypeInvStep, PTL DEF Spec

-----------------------------------------------------------------------------
(***************************************************************************)
(* RootPage and the session.  Neither HomeNeedsSession nor SessionShown is *)
(* inductive: they say nothing of the results that are on their way.  What *)
(* holds throughout: a result with a user is there only while Firebase has *)
(* somebody signed in, the answer "nobody" to the question of initState,   *)
(* if it is out of date, has a result with a user behind it, and whoever   *)
(* is signed in is shown, or asked for, or about to be shown.              *)
(***************************************************************************)

\* The question initState asked has not reached Firebase.
Asks(d) == \E j \in DOMAIN authCalls[d] : authCalls[d][j].op = "currentUser"

\* A result with a user is on its way, behind the first n.
Tells(d, n) == \E i \in DOMAIN authReplies[d] : i > n /\ authReplies[d][i].user # null

SaysNobody(r) == r.op = "currentUser" /\ r.user = null

SessionOK(d) ==
    /\ session[d] # null => session[d] \in accounts
    /\ authStatus[d] = "signedIn" => session[d] # null
    /\ Tells(d, 0) => session[d] # null
    /\ session[d] # null =>
          \A i \in DOMAIN authReplies[d] : SaysNobody(authReplies[d][i]) => Tells(d, i)
    /\ session[d] # null /\ up[d] =>
          authStatus[d] = "signedIn" \/ Asks(d) \/ Tells(d, 0)

SessionInv == TypeInv /\ \A d \in Devices : SessionOK(d)

LEMMA SessionInit == Init => SessionInv
<1>. SUFFICES ASSUME Init PROVE SessionInv
  OBVIOUS
<1>1. TypeInv
  BY TypeInvInit
<1>2. \A d \in Devices : session[d] = null /\ authReplies[d] = <<>>
                         /\ authStatus[d] = "notSignedIn"
  BY DEF Init
<1>3. ASSUME NEW d \in Devices PROVE SessionOK(d)
  BY <1>2 DEF SessionOK, Tells
<1>. QED  BY <1>1, <1>3 DEF SessionInv

\* A question that was asked is not forgotten when the form is submitted.
LEMMA SubmitAsks ==
    ASSUME TypeInv, NEW d \in Devices, NEW available, ValidateAndSubmit(d, available), Asks(d)
    PROVE  Asks(d)'
<1>0. authCalls \in [Devices -> Seq(AuthCalls)] /\ authCalls[d] \in Seq(AuthCalls)
  BY TypesKept DEF AuthTypeOK
<1>1. ASSUME NEW c, authCalls' = [authCalls EXCEPT ![d] = Append(authCalls[d], c)],
             c \in AuthCalls
      PROVE  Asks(d)'
  <2>1. authCalls'[d] = Append(authCalls[d], c)
    BY <1>0, <1>1
  <2>2. /\ Len(authCalls[d]) \in Nat /\ DOMAIN authCalls[d] = 1..Len(authCalls[d])
        /\ DOMAIN Append(authCalls[d], c) = 1..(Len(authCalls[d]) + 1)
        /\ \A k \in 1..Len(authCalls[d]) : Append(authCalls[d], c)[k] = authCalls[d][k]
    BY <1>0, <1>1, LenProperties, AppendProperties
  <2>3. PICK j \in 1..Len(authCalls[d]) : authCalls[d][j].op = "currentUser"
    BY <2>2 DEF Asks
  <2>4. j \in DOMAIN Append(authCalls[d], c) /\ Append(authCalls[d], c)[j] = authCalls[d][j]
    BY <2>2
  <2>. QED  BY <2>1, <2>3, <2>4 DEF Asks
<1>2. emailText[d] \in Emails \union {Blank}
  BY TypesKept DEF PageTypeOK
<1>3. \/ authCalls' = authCalls
      \/ emailText[d] \in Emails /\ \E op \in AuthOps : AuthCall(d, op, emailText[d])
  BY <1>2 DEF ValidateAndSubmit, Valid, AuthOps
<1>4. CASE authCalls' = authCalls
  BY <1>4 DEF Asks
<1>5. ASSUME NEW op \in AuthOps, emailText[d] \in Emails, AuthCall(d, op, emailText[d])
      PROVE  Asks(d)'
  <2>. PICK c : c = [op |-> op, email |-> emailText[d]]
    OBVIOUS
  <2>1. c \in AuthCalls
    BY <1>5 DEF AuthCalls
  <2>2. authCalls' = [authCalls EXCEPT ![d] = Append(authCalls[d], c)]
    BY <1>5 DEF AuthCall
  <2>. QED  BY <1>1, <2>1, <2>2
<1>. QED  BY <1>3, <1>4, <1>5

\* Steps that leave the session, the results and RootPage alone.
LEMMA QuietSession ==
    ASSUME NEW d \in Devices, SessionOK(d), Asks(d) => Asks(d)',
           UNCHANGED <<accounts, session, authReplies, up, authStatus>>
    PROVE  SessionOK(d)'
BY DEF SessionOK, Tells

LEMMA UserSession ==
    ASSUME SessionInv, NEW d \in Devices, User(d)
    PROVE  SessionOK(d)' /\ accounts' = accounts
<1>0. TypeInv /\ SessionOK(d)
  BY DEF SessionInv
<1>1. CASE Launch(d)
  <2>1. /\ authStatus' = [authStatus EXCEPT ![d] = "notSignedIn"]
        /\ AuthCall(d, "currentUser", null)
        /\ UNCHANGED <<accounts, session, authReplies>>
        /\ ~up[d]
    BY <1>1 DEF Launch
  <2>2. authReplies'[d] = <<>> /\ authStatus'[d] = "notSignedIn"
    BY <1>0, <2>1, TypesKept DEF TypeInv, Pending, PageTypeOK
  <2>3. Asks(d)'
    <3>. PICK c : c = [op |-> "currentUser", email |-> null]
      OBVIOUS
    <3>1. c \in AuthCalls /\ c.op = "currentUser"
      BY DEF AuthCalls, AuthOps
    <3>2. authCalls \in [Devices -> Seq(AuthCalls)] /\ authCalls[d] \in Seq(AuthCalls)
      BY <1>0, TypesKept DEF AuthTypeOK
    <3>3. authCalls'[d] = Append(authCalls[d], c)
      BY <2>1, <3>2 DEF AuthCall
    <3>4. /\ Len(authCalls[d]) + 1 \in DOMAIN Append(authCalls[d], c)
          /\ Append(authCalls[d], c)[Len(authCalls[d]) + 1] = c
      <4>1. /\ Len(authCalls[d]) \in Nat
            /\ DOMAIN Append(authCalls[d], c) = 1..(Len(authCalls[d]) + 1)
            /\ Append(authCalls[d], c)[Len(authCalls[d]) + 1] = c
        BY <3>1, <3>2, LenProperties, AppendProperties
      <4>. QED  BY <4>1
    <3>. QED  BY <3>1, <3>3, <3>4 DEF Asks
  <2>4. ~Tells(d, 0)' /\ DOMAIN authReplies'[d] = {}
    BY <2>2 DEF Tells
  <2>. QED  BY <1>0, <2>1, <2>2, <2>3, <2>4 DEF SessionOK
<1>2. CASE \/ \E n \in Names \union {Blank, Spaces}, e \in Emails : Enter(d, n, e)
           \/ \E t \in {"login", "register"} : MoveTo(d, t)
           \/ PressRegister(d)
  <2>1. UNCHANGED <<accounts, session, authReplies, up, authStatus, authCalls>>
    BY <1>2 DEF Enter, MoveTo, PressRegister, authVars
  <2>2. Asks(d) => Asks(d)'
    BY <2>1 DEF Asks
  <2>. QED  BY <1>0, <2>1, <2>2, QuietSession
<1>3. CASE PressLogin(d)
  <2>1. /\ ValidateAndSubmit(d, usernameAvailable[d])
        /\ UNCHANGED <<accounts, session, authReplies, up, authStatus>>
    BY <1>3 DEF PressLogin
  <2>2. Asks(d) => Asks(d)'
    BY <1>0, <2>1, SubmitAsks
  <2>. QED  BY <1>0, <2>1, <2>2, QuietSession
<1>. QED  BY <1>1, <1>2, <1>3 DEF User

\* Firebase handles a call: a sign-in has its result last in the queue, and
\* the question of initState is answered with the session as it is.
LEMMA AuthSession ==
    ASSUME SessionInv, NEW d \in Devices, NEW i \in DOMAIN authCalls[d],
           NEW user \in Emails \union {null}, AuthStep(d, i, user)
    PROVE  SessionOK(d)'
<1>0. TypeInv /\ SessionOK(d) /\ TypeOK
  BY DEF SessionInv, TypeInv
<1>1. Handled(d, i, user) /\ TypeOK'
  BY <1>0, AuthStepOK DEF StepOK
<1>2. accounts \subseteq accounts' /\ accounts' \subseteq Emails /\ up' = up /\ authStatus' = authStatus
  BY DEF AuthStep, AuthResult
<1>. PICK r : r = [op |-> authCalls[d][i].op, user |-> user]
  OBVIOUS
<1>. PICK n : n = Len(authReplies[d])
  OBVIOUS
<1>3. /\ authReplies[d] \in Seq(AuthReplies)
      /\ authCalls[d] \in Seq(AuthCalls)
  BY <1>0, TypesKept DEF AuthTypeOK
<1>4. r \in AuthReplies /\ r.op = authCalls[d][i].op /\ r.user = user
  <2>1. authCalls[d][i] \in AuthCalls
    BY <1>3, Elements
  <2>. QED  BY <2>1 DEF AuthCalls, AuthReplies
<1>5. /\ n \in Nat /\ DOMAIN authReplies[d] = 1..n
      /\ DOMAIN authReplies'[d] = 1..(n + 1)
      /\ \A k \in 1..n : authReplies'[d][k] = authReplies[d][k]
      /\ authReplies'[d][n + 1] = r
  <2>1. authReplies'[d] = Append(authReplies[d], r)
    BY <1>1 DEF Handled
  <2>2. /\ n \in Nat /\ DOMAIN authReplies[d] = 1..n
        /\ DOMAIN Append(authReplies[d], r) = 1..(n + 1)
        /\ \A k \in 1..n : Append(authReplies[d], r)[k] = authReplies[d][k]
        /\ Append(authReplies[d], r)[n + 1] = r
    BY <1>3, <1>4, LenProperties, AppendProperties
  <2>. QED  BY <2>1, <2>2
<1>6. CASE user # null /\ session'[d] = user /\ user \in accounts'
  <2>1. \A m \in 0..n : Tells(d, m)'
    <3>. SUFFICES ASSUME NEW m \in 0..n PROVE Tells(d, m)'
      OBVIOUS
    <3>1. n + 1 \in 1..(n + 1) /\ n + 1 > m
      BY <1>5
    <3>. QED  BY <1>4, <1>5, <1>6, <3>1 DEF Tells
  <2>2. 0 \in 0..n
    BY <1>5
  <2>3. ASSUME NEW k \in DOMAIN authReplies'[d], SaysNobody(authReplies'[d][k])
        PROVE  Tells(d, k)'
    <3>1. k # n + 1
      BY <1>4, <1>5, <1>6, <2>3 DEF SaysNobody
    <3>2. k \in 0..n
      BY <1>5, <3>1
    <3>. QED  BY <2>1, <3>2
  <2>. QED  BY <1>6, <2>1, <2>2, <2>3 DEF SessionOK
<1>7. ASSUME user = null, session'[d] = session[d],
             authCalls[d][i].op # "currentUser" \/ session[d] = null
      PROVE  SessionOK(d)'
  <2>1. \A m \in Nat : Tells(d, m) => Tells(d, m)'
    <3>. SUFFICES ASSUME NEW m \in Nat, Tells(d, m) PROVE Tells(d, m)'
      OBVIOUS
    <3>1. PICK k \in 1..n : k > m /\ authReplies[d][k].user # null
      BY <1>5 DEF Tells
    <3>2. k \in 1..(n + 1)
      BY <1>5
    <3>. QED  BY <1>5, <3>1, <3>2 DEF Tells
  <2>2. Tells(d, 0)' => Tells(d, 0)
    <3>. SUFFICES ASSUME Tells(d, 0)' PROVE Tells(d, 0)
      OBVIOUS
    <3>1. PICK k \in 1..(n + 1) : k > 0 /\ authReplies'[d][k].user # null
      BY <1>5 DEF Tells
    <3>2. k # n + 1
      BY <1>4, <1>5, <1>7, <3>1
    <3>3. k \in 1..n
      BY <1>5, <3>2
    <3>. QED  BY <1>5, <3>1, <3>3 DEF Tells
  <2>3. CASE session[d] = null
    BY <1>0, <1>2, <1>7, <2>2, <2>3 DEF SessionOK
  <2>4. CASE authCalls[d][i].op # "currentUser" /\ session[d] # null
    <3>1. Asks(d) => Asks(d)'
      <4>. SUFFICES ASSUME Asks(d) PROVE Asks(d)'
        OBVIOUS
      <4>1. PICK k \in DOMAIN authCalls[d] : authCalls[d][k].op = "currentUser"
        BY DEF Asks
      <4>2. k # i
        BY <2>4, <4>1
      <4>3. PICK j \in DOMAIN authCalls'[d] : authCalls'[d][j] = authCalls[d][k]
        BY <1>1, <4>2 DEF Handled
      <4>. QED  BY <4>1, <4>3 DEF Asks
    <3>2. ASSUME NEW k \in DOMAIN authReplies'[d], SaysNobody(authReplies'[d][k])
          PROVE  Tells(d, k)'
      <4>1. k # n + 1
        BY <1>4, <1>5, <2>4, <3>2 DEF SaysNobody
      <4>2. k \in 1..n /\ k \in Nat
        BY <1>5, <4>1
      <4>3. Tells(d, k)
        BY <1>0, <1>5, <2>4, <3>2, <4>2 DEF SessionOK
      <4>. QED  BY <2>1, <4>2, <4>3
    <3>3. Tells(d, 0) => Tells(d, 0)'
      BY <2>1
    <3>. QED  BY <1>0, <1>2, <1>7, <2>2, <2>4, <3>1, <3>2, <3>3 DEF SessionOK
  <2>. QED  BY <1>7, <2>3, <2>4
<1>8. \/ user # null /\ session'[d] = user /\ user \in accounts'
      \/ /\ user = null /\ session'[d] = session[d]
         /\ authCalls[d][i].op # "currentUser" \/ session[d] = null
  <2>1. CASE session' = session /\ user = IF authCalls[d][i].op = "currentUser"
                                          THEN session[d] ELSE null
    BY <1>0, <1>2, <2>1 DEF SessionOK
  <2>2. CASE user \in accounts' /\ UserDidChange(d, user)
    <3>1. session'[d] = user
      BY <1>0, <1>2, <2>2, UserChangeTypes
    <3>2. user # null
      BY <1>2, <2>2, LoginAssumption
    <3>. QED  BY <2>2, <3>1, <3>2
  <2>. QED  BY <2>1, <2>2 DEF AuthStep
<1>. QED  BY <1>6, <1>7, <1>8

\* A result reaches the app: if it says "nobody" and is out of date, the one
\* that says who is behind it.
LEMMA AnswerSession ==
    ASSUME SessionInv, NEW d \in Devices, AuthAnswer(d)
    PROVE  SessionOK(d)' /\ accounts' = accounts
<1>0. TypeInv /\ SessionOK(d)
  BY DEF SessionInv
<1>. PICK r : r = Head(authReplies[d])
  OBVIOUS
<1>. PICK n : n = Len(authReplies[d])
  OBVIOUS
<1>1. /\ r \in AuthReplies /\ r = authReplies[d][1] /\ 1 \in DOMAIN authReplies[d]
      /\ authReplies'[d] = Tail(authReplies[d])
      /\ \A j \in DOMAIN authReplies'[d] :
            j + 1 \in DOMAIN authReplies[d] /\ authReplies'[d][j] = authReplies[d][j + 1]
  BY <1>0, AuthAnswerOK
<1>2. /\ authStatus'[d] = IF r.user # null THEN "signedIn"
                          ELSE IF r.op = "currentUser" THEN "notSignedIn"
                          ELSE authStatus[d]
      /\ UNCHANGED <<accounts, session, authCalls, up>>
  <2>1. d \in DOMAIN authStatus
    BY <1>0, TypesKept DEF PageTypeOK
  <2>. QED  BY <2>1 DEF AuthAnswer
<1>3. authReplies[d] \in Seq(AuthReplies) /\ authReplies[d] # <<>>
  BY <1>0, TypesKept DEF AuthTypeOK, AuthAnswer
<1>4. /\ n \in Nat \ {0} /\ DOMAIN authReplies[d] = 1..n
      /\ DOMAIN authReplies'[d] = 1..(n - 1)
  <2>1. Len(Tail(authReplies[d])) = n - 1 /\ Tail(authReplies[d]) \in Seq(AuthReplies)
    BY <1>3, HeadTailProperties
  <2>2. /\ n \in Nat /\ DOMAIN authReplies[d] = 1..n
        /\ DOMAIN Tail(authReplies[d]) = 1..(n - 1)
    BY <1>3, <2>1, LenProperties
  <2>. QED  BY <1>1, <2>2
<1>5. ASSUME NEW m \in Nat PROVE Tells(d, m + 1) => Tells(d, m)'
  <2>. SUFFICES ASSUME Tells(d, m + 1) PROVE Tells(d, m)'
    OBVIOUS
  <2>1. PICK k \in 1..n : k > m + 1 /\ authReplies[d][k].user # null
    BY <1>4 DEF Tells
  <2>2. k - 1 \in 1..(n - 1) /\ k - 1 > m /\ (k - 1) + 1 = k
    BY <1>4, <2>1
  <2>3. authReplies'[d][k - 1] = authReplies[d][k]
    BY <1>1, <1>4, <2>2
  <2>. QED  BY <1>4, <2>1, <2>2, <2>3 DEF Tells
<1>6. Tells(d, 0)' => Tells(d, 0)
  <2>. SUFFICES ASSUME Tells(d, 0)' PROVE Tells(d, 0)
    OBVIOUS
  <2>1. PICK k \in 1..(n - 1) : authReplies'[d][k].user # null
    BY <1>4 DEF Tells
  <2>2. k + 1 \in 1..n /\ k + 1 > 0
    BY <1>4
  <2>3. authReplies'[d][k] = authReplies[d][k + 1]
    BY <1>1, <1>4
  <2>. QED  BY <1>4, <2>1, <2>2, <2>3 DEF Tells
<1>7. ASSUME session[d] # null, NEW k \in DOMAIN authReplies'[d], SaysNobody(authReplies'[d][k])
      PROVE  Tells(d, k)'
  <2>1. SaysNobody(authReplies[d][k + 1]) /\ k + 1 \in DOMAIN authReplies[d] /\ k \in Nat
    BY <1>1, <1>4, <1>7
  <2>2. Tells(d, k + 1)
    BY <1>0, <1>7, <2>1 DEF SessionOK
  <2>. QED  BY <1>5, <2>1, <2>2
<1>8. r.user # null => session[d] # null
  <2>. SUFFICES ASSUME r.user # null PROVE Tells(d, 0)
    BY <1>0 DEF SessionOK
  <2>. QED  BY <1>1 DEF Tells
<1>9. ASSUME r.user = null, session[d] # null, up[d]
      PROVE  authStatus'[d] = "signedIn" \/ Asks(d)' \/ Tells(d, 0)'
  <2>1. Tells(d, 1) => Tells(d, 0)'
    BY <1>5
  <2>2. CASE r.op = "currentUser"
    BY <1>0, <1>1, <1>9, <2>1, <2>2 DEF SessionOK, SaysNobody
  <2>3. CASE r.op # "currentUser"
    <3>1. Tells(d, 0) => Tells(d, 1)
      <4>. SUFFICES ASSUME Tells(d, 0) PROVE Tells(d, 1)
        OBVIOUS
      <4>1. PICK k \in 1..n : authReplies[d][k].user # null
        BY <1>4 DEF Tells
      <4>2. k # 1
        BY <1>1, <1>9, <4>1
      <4>3. k > 1
        BY <1>4, <4>2
      <4>. QED  BY <1>4, <4>1, <4>3 DEF Tells
    <3>2. Asks(d) <=> Asks(d)'
      BY <1>2 DEF Asks
    <3>. QED  BY <1>0, <1>2, <1>9, <2>1, <2>3, <3>1, <3>2 DEF SessionOK
  <2>. QED  BY <2>2, <2>3
<1>. QED  BY <1>0, <1>2, <1>6, <1>7, <1>8, <1>9 DEF SessionOK

\* A late answer of Firestore, and what Firestore does by itself.
LEMMA ClientSession ==
    ASSUME NEW d \in Devices, SessionOK(d),
           UNCHANGED <<authVars, loginVars, up, authStatus, ops>>
    PROVE  SessionOK(d)' /\ accounts' = accounts
<1>1. UNCHANGED <<accounts, session, authReplies, authCalls, up, authStatus>>
  BY DEF authVars
<1>2. Asks(d) => Asks(d)'
  BY <1>1 DEF Asks
<1>. QED  BY <1>1, <1>2, QuietSession

LEMMA DeviceSession ==
    ASSUME SessionInv, NEW d \in Devices, User(d) \/ Firebase(d) \/ App(d) \/ Kill(d)
    PROVE  SessionOK(d)' /\ accounts \subseteq accounts'
<1>0. TypeInv /\ SessionOK(d)
  BY DEF SessionInv
<1>1. CASE User(d)
  BY <1>1, UserSession
<1>2. CASE Firebase(d)
  <2>1. ASSUME NEW i \in DOMAIN authCalls[d],
               AuthSucceeds(d, i) \/ AuthFails(d, i) \/ AuthResponseLost(d, i)
        PROVE  SessionOK(d)' /\ accounts \subseteq accounts'
    <3>1. PICK user \in Emails \union {null} : AuthStep(d, i, user)
      BY <1>0, <2>1, AuthSteps
    <3>. QED  BY <3>1, AuthSession DEF AuthStep
  <2>2. CASE Sync(d) \/ \E i \in DOMAIN calls[d] : Answer(d, i)
    <3>1. UNCHANGED <<authVars, loginVars, up, authStatus, ops>>
      BY <1>0, <2>2, ClientStepsOK
    <3>. QED  BY <1>0, <3>1, ClientSession
  <2>. QED  BY <1>2, <2>1, <2>2 DEF Firebase
<1>3. CASE App(d)
  <2>1. CASE UsernameAnswer(d)
    <3>1. /\ UNCHANGED <<accounts, session, authReplies, up, authStatus>>
          /\ ValidateAndSubmit(d, TRUE) \/ authCalls' = authCalls
      BY <2>1 DEF UsernameAnswer
    <3>2. Asks(d) => Asks(d)'
      <4>1. CASE authCalls' = authCalls
        BY <4>1 DEF Asks
      <4>. QED  BY <1>0, <3>1, <4>1, SubmitAsks
    <3>. QED  BY <1>0, <3>1, <3>2, QuietSession
  <2>2. CASE UsernameAnswerLost(d)
    <3>1. UNCHANGED <<authVars, loginVars, up, authStatus, ops>>
      BY <1>0, <2>2, ClientStepsOK
    <3>. QED  BY <1>0, <3>1, ClientSession
  <2>3. CASE AuthAnswer(d)
    BY <2>3, AnswerSession
  <2>. QED  BY <1>3, <2>1, <2>2, <2>3 DEF App
<1>4. CASE Kill(d)
  <2>1. /\ up' = [up EXCEPT ![d] = FALSE]
        /\ authStatus' = [authStatus EXCEPT ![d] = "notSignedIn"]
        /\ authReplies' = [authReplies EXCEPT ![d] = <<>>]
        /\ UNCHANGED <<accounts, session>>
    BY <1>4 DEF Kill
  <2>2. authReplies'[d] = <<>> /\ authStatus'[d] = "notSignedIn" /\ ~up'[d]
    BY <1>0, <2>1, TypesKept DEF AuthTypeOK, PageTypeOK
  <2>3. ~Tells(d, 0)' /\ DOMAIN authReplies'[d] = {}
    BY <2>2 DEF Tells
  <2>. QED  BY <1>0, <2>1, <2>2, <2>3 DEF SessionOK
<1>. QED  BY <1>1, <1>2, <1>3, <1>4

LEMMA SessionStep == SessionInv /\ [Next]_vars => SessionInv'
<1>. SUFFICES ASSUME SessionInv, [Next]_vars PROVE SessionInv'
  OBVIOUS
<1>0. TypeInv'
  BY TypeInvStep DEF SessionInv
<1>1. ASSUME NEW d \in Devices, User(d) \/ Firebase(d) \/ App(d) \/ Kill(d)
      PROVE  \A e \in Devices : SessionOK(e)'
  <2>1. SessionOK(d)' /\ accounts \subseteq accounts'
    BY <1>1, DeviceSession
  <2>2. ASSUME NEW e \in Devices, e # d PROVE SessionOK(e)'
    <3>1. SameLogin(e) /\ SessionOK(e)
      BY <1>1, <2>2, EveryStepOK DEF StepOK, SessionInv
    <3>. QED  BY <2>1, <3>1 DEF SameLogin, SessionOK, Tells, Asks
  <2>. QED  BY <2>1, <2>2
<1>2. ASSUME UNCHANGED vars, NEW e \in Devices PROVE SessionOK(e)'
  BY <1>2, ClientSession DEF vars, SessionInv
<1>. QED  BY <1>0, <1>1, <1>2 DEF Next, SessionInv

\* For any phones and whatever is pressed while calls of Auth are under way:
\* RootPage shows MyHomePage only where Firebase has somebody signed in who
\* has an account.
THEOREM HomeIsForUsers == Spec => []HomeNeedsSession
<1>1. SessionInv => HomeNeedsSession
  BY DEF SessionInv, SessionOK, HomeNeedsSession
<1>. QED  BY <1>1, SessionInit, SessionStep, PTL DEF Spec

\* Once the calls of Auth have come back, RootPage shows what Firebase says:
\* the late answer to the question of initState does not undo a sign-in, and
\* no sign-in goes unseen.
THEOREM PageShowsSession == Spec => []SessionShown
<1>1. SessionInv => SessionShown
  <2>. SUFFICES ASSUME SessionInv, NEW d \in Devices, up[d],
                       authCalls[d] = <<>>, authReplies[d] = <<>>
                PROVE  authStatus[d] = "signedIn" <=> session[d] # null
    BY DEF SessionShown
  <2>1. ~Asks(d) /\ ~Tells(d, 0)
    BY DEF Asks, Tells
  <2>. QED  BY <2>1 DEF SessionInv, SessionOK
<1>. QED  BY <1>1, SessionInit, SessionStep, PTL DEF Spec

-----------------------------------------------------------------------------
(***************************************************************************)
(* Profiles tell the truth, if the user waits.  saveUserData files what    *)
(* the page's field says under the account Firebase answered with: the two *)
(* agree because a user who waits never has two things under way, so that  *)
(* the field is still what createUser was called with.                     *)
(***************************************************************************)

\* How many calls and answers of phone d are under way.
UnderWay(d) ==
    Len(calls[d]) + Len(replies[d]) + Len(authCalls[d]) + Len(authReplies[d])

WaitOK(d) ==
    /\ UnderWay(d) <= 1
    /\ ~up[d] => Idle(d)
    /\ \A i \in DOMAIN authCalls[d] :
          authCalls[d][i].op = "createUser" => authCalls[d][i].email = _email[d]
    /\ \A i \in DOMAIN authReplies[d] :
          LET r == authReplies[d][i]
          IN  r.op = "createUser" /\ r.user # null => r.user = _email[d] /\ r.user \in accounts

\* A write of a profile, to the path of the account it describes, which is
\* one of those in known.
Truthful(known, w) ==
    w.path.id \in known /\ w.data.uid = w.path.id /\ w.data.email = w.path.id

QueuesTellTruth ==
    \A d \in Devices :
        /\ \A i \in DOMAIN outbox[d] : Truthful(accounts, outbox[d][i])
        /\ \A v \in Emails \union {null} :
              \A i \in DOMAIN parked[d][v] : Truthful(accounts, parked[d][v][i])

TruthInv ==
    /\ TypeInv
    /\ \A d \in Devices : WaitOK(d)
    /\ QueuesTellTruth
    /\ ProfileTellsTruth

LengthsOK(d) ==
    /\ Len(calls[d]) \in Nat /\ (calls[d] = <<>> <=> Len(calls[d]) = 0)
    /\ Len(replies[d]) \in Nat /\ (replies[d] = <<>> <=> Len(replies[d]) = 0)
    /\ Len(authCalls[d]) \in Nat /\ (authCalls[d] = <<>> <=> Len(authCalls[d]) = 0)
    /\ Len(authReplies[d]) \in Nat /\ (authReplies[d] = <<>> <=> Len(authReplies[d]) = 0)

LEMMA Lengths == TypeOK => \A d \in Devices : LengthsOK(d)
<1>. SUFFICES ASSUME TypeOK, NEW d \in Devices PROVE LengthsOK(d)
  OBVIOUS
<1>1. /\ calls[d] \in Seq(NameQueries)
      /\ replies[d] \in Seq(AnswersOf(UserDocs, NameQueries))
      /\ authCalls[d] \in Seq(AuthCalls) /\ authReplies[d] \in Seq(AuthReplies)
  BY TypeParts DEF FsTypeOK, AuthTypeOK
<1>. QED  BY <1>1, LenProperties, EmptySeq DEF LengthsOK

LEMMA NewLengths == TypeOK' => \A d \in Devices : LengthsOK(d)'
<1>1. TypeOK' => (\A d \in Devices : LengthsOK(d))'
  BY Lengths, PTL
<1>. QED  BY <1>1

LEMMA TruthInit == Init => TruthInv
<1>. SUFFICES ASSUME Init PROVE TruthInv
  OBVIOUS
<1>1. TypeInv /\ TypeOK
  BY TypeInvInit DEF TypeInv
<1>2. \A d \in Devices : /\ calls[d] = <<>> /\ replies[d] = <<>>
                         /\ authCalls[d] = <<>> /\ authReplies[d] = <<>>
                         /\ outbox[d] = <<>>
                         /\ \A v \in Emails \union {null} : parked[d][v] = <<>>
  BY DEF Init, FirestoreInit
<1>3. ASSUME NEW d \in Devices PROVE WaitOK(d)
  <2>1. UnderWay(d) <= 1
    <3>1. LengthsOK(d)
      BY <1>1, Lengths
    <3>2. /\ Len(calls[d]) = 0 /\ Len(replies[d]) = 0
          /\ Len(authCalls[d]) = 0 /\ Len(authReplies[d]) = 0
      BY <1>2, <3>1 DEF LengthsOK
    <3>. QED  BY <3>2 DEF UnderWay
  <2>. QED  BY <1>2, <2>1 DEF WaitOK, Idle
<1>4. QueuesTellTruth
  BY <1>2 DEF QueuesTellTruth
<1>5. ProfileTellsTruth
  BY UserPathsAssumption DEF Init, FirestoreInit, ProfileTellsTruth
<1>. QED  BY <1>1, <1>3, <1>4, <1>5 DEF TruthInv

\* A patient user's phone has nothing under way when the form is touched.
LEMMA FormIsQuiet ==
    ASSUME Patient, NEW d \in Devices, AtForm(d)
    PROVE  /\ up[d] /\ calls[d] = <<>> /\ replies[d] = <<>>
           /\ authCalls[d] = <<>> /\ authReplies[d] = <<>>
BY DEF AtForm, LoginShown, Idle

\* A phone with nothing under way submits the form.
LEMMA QuietSubmit ==
    ASSUME TypeInv, NEW d \in Devices, NEW available, ValidateAndSubmit(d, available),
           up[d], up' = up, TypeOK', authCalls[d] = <<>>, authReplies'[d] = <<>>,
           Len(calls'[d]) + Len(replies'[d]) = 0
    PROVE  WaitOK(d)'
<1>1. Len(authCalls'[d]) <= 1
  <2>1. authCalls \in [Devices -> Seq(AuthCalls)] /\ authCalls[d] \in Seq(AuthCalls)
        /\ emailText[d] \in Emails \union {Blank}
    BY TypesKept DEF AuthTypeOK, PageTypeOK
  <2>2. Len(authCalls[d]) = 0
    BY <2>1, EmptySeq
  <2>3. \/ authCalls' = authCalls
        \/ emailText[d] \in Emails /\ \E op \in AuthOps : AuthCall(d, op, emailText[d])
    BY <2>1 DEF ValidateAndSubmit, Valid, AuthOps
  <2>4. CASE authCalls' = authCalls
    BY <2>2, <2>4
  <2>5. ASSUME NEW op \in AuthOps, emailText[d] \in Emails, AuthCall(d, op, emailText[d])
        PROVE  Len(authCalls'[d]) <= 1
    <3>. PICK c : c = [op |-> op, email |-> emailText[d]]
      OBVIOUS
    <3>1. c \in AuthCalls
      BY <2>5 DEF AuthCalls
    <3>2. authCalls'[d] = Append(authCalls[d], c)
      BY <2>1, <2>5 DEF AuthCall
    <3>3. Len(Append(authCalls[d], c)) = Len(authCalls[d]) + 1
      BY <2>1, <3>1, AppendProperties
    <3>. QED  BY <2>2, <3>2, <3>3
  <2>. QED  BY <2>3, <2>4, <2>5
<1>2. \A j \in DOMAIN authCalls'[d] :
         \/ \E k \in DOMAIN authCalls[d] : authCalls'[d][j] = authCalls[d][k]
         \/ authCalls'[d][j].email = _email'[d]
  BY SubmitTypes
<1>3. \A j \in DOMAIN authCalls'[d] : authCalls'[d][j].email = _email'[d]
  BY <1>2
<1>4. UnderWay(d)' <= 1
  <2>1. LengthsOK(d)'
    BY NewLengths
  <2>2. /\ Len(calls'[d]) \in Nat /\ Len(replies'[d]) \in Nat
        /\ Len(authCalls'[d]) \in Nat /\ Len(authReplies'[d]) = 0
    BY <2>1 DEF LengthsOK
  <2>3. \A a, b, c \in Nat : a + b = 0 /\ c <= 1 => a + b + c + 0 <= 1
    OBVIOUS
  <2>4. Len(calls'[d]) + Len(replies'[d]) + Len(authCalls'[d]) + 0 <= 1
    BY <1>1, <2>2, <2>3
  <2>. QED  BY <2>2, <2>4 DEF UnderWay
<1>. QED  BY <1>3, <1>4 DEF WaitOK

\* The reads of the other phones are as before.
OtherReads(d) == \A e \in Devices : e # d => calls'[e] = calls[e] /\ replies'[e] = replies[e]

LEMMA UserWaits ==
    ASSUME Patient, TruthInv, NEW d \in Devices, User(d)
    PROVE  /\ WaitOK(d)' /\ OtherReads(d)
           /\ UNCHANGED <<store, outbox, parked, accounts>>
<1>0. /\ TypeInv /\ TypeOK /\ WaitOK(d) /\ LengthsOK(d)
      /\ FsTypeOK(UserDocs, NameQueries) /\ AuthTypeOK /\ PageTypeOK
  BY TypesKept, Lengths DEF TruthInv, TypeInv
<1>1. TypeOK' /\ LengthsOK(d)'
  BY <1>0, EveryStepOK, NewLengths DEF StepOK
<1>2. UNCHANGED <<store, outbox, parked, accounts>>
  BY DEF User, Launch, Enter, MoveTo, PressLogin, PressRegister, fsVars, authVars
<1>3. CASE Launch(d)
  <2>1. /\ ~up[d] /\ up' = [up EXCEPT ![d] = TRUE]
        /\ AuthCall(d, "currentUser", null)
        /\ UNCHANGED <<calls, replies, authReplies>>
    BY <1>3 DEF Launch, fsVars
  <2>2. calls[d] = <<>> /\ replies[d] = <<>> /\ authCalls[d] = <<>> /\ authReplies[d] = <<>>
    BY <1>0, <2>1 DEF WaitOK, Idle, TypeInv, Pending
  <2>3. /\ authCalls'[d] = Append(authCalls[d], [op |-> "currentUser", email |-> null])
        /\ \A j \in DOMAIN authCalls'[d] :
              \/ authCalls'[d][j] = [op |-> "currentUser", email |-> null]
              \/ \E k \in DOMAIN authCalls[d] : authCalls'[d][j] = authCalls[d][k]
    <3>1. "currentUser" \in AuthOps /\ null \in Emails \union {null}
      BY DEF AuthOps
    <3>. QED  BY <1>0, <2>1, <3>1, AuthCallTypes
  <2>4. \A j \in DOMAIN authCalls'[d] : authCalls'[d][j].op = "currentUser"
    BY <2>2, <2>3
  <2>5. Len(authCalls'[d]) = 1
    <3>. PICK c : c = [op |-> "currentUser", email |-> null]
      OBVIOUS
    <3>1. c \in AuthCalls /\ authCalls[d] \in Seq(AuthCalls)
      BY <1>0 DEF AuthCalls, AuthOps, AuthTypeOK
    <3>2. Len(Append(authCalls[d], c)) = Len(authCalls[d]) + 1
      BY <3>1, AppendProperties
    <3>. QED  BY <1>0, <2>2, <2>3, <3>2 DEF LengthsOK
  <2>6. Len(calls'[d]) = 0 /\ Len(replies'[d]) = 0 /\ Len(authReplies'[d]) = 0
    BY <1>1, <2>1, <2>2 DEF LengthsOK
  <2>7. UnderWay(d)' <= 1
    BY <2>5, <2>6 DEF UnderWay
  <2>8. up'[d] /\ DOMAIN authReplies'[d] = {}
    BY <1>0, <2>1, <2>2 DEF PageTypeOK
  <2>. QED  BY <1>2, <2>1, <2>4, <2>7, <2>8 DEF WaitOK, OtherReads
<1>4. CASE \/ \E n \in Names \union {Blank, Spaces}, e \in Emails : Enter(d, n, e)
           \/ \E t \in {"login", "register"} : MoveTo(d, t)
  <2>1. UNCHANGED <<calls, replies, authCalls, authReplies, up, _email>>
    BY <1>4 DEF Enter, MoveTo, fsVars, authVars
  <2>. QED  BY <1>0, <1>2, <2>1 DEF WaitOK, UnderWay, Idle, OtherReads
<1>5. CASE PressLogin(d)
  <2>1. /\ ValidateAndSubmit(d, usernameAvailable[d]) /\ AtForm(d)
        /\ UNCHANGED <<calls, replies, authReplies, up>>
    BY <1>5 DEF PressLogin, fsVars
  <2>2. /\ up[d] /\ calls[d] = <<>> /\ replies[d] = <<>>
        /\ authCalls[d] = <<>> /\ authReplies[d] = <<>>
    BY <2>1, FormIsQuiet
  <2>3. Len(calls'[d]) + Len(replies'[d]) = 0 /\ authReplies'[d] = <<>>
    BY <1>0, <2>1, <2>2 DEF LengthsOK
  <2>4. WaitOK(d)'
    BY <1>0, <1>1, <2>1, <2>2, <2>3, QuietSubmit
  <2>. QED  BY <1>2, <2>1, <2>4 DEF OtherReads
<1>6. CASE PressRegister(d)
  <2>. PICK q : q = Where(d, <<"users">>, "brukernavn", Trim(nameText[d]))
    OBVIOUS
  <2>1. /\ calls' = [calls EXCEPT ![d] = Append(calls[d], q)] /\ AtForm(d)
        /\ UNCHANGED <<replies, authCalls, authReplies, up>>
    BY <1>6 DEF PressRegister, authVars
  <2>2. /\ up[d] /\ calls[d] = <<>> /\ replies[d] = <<>>
        /\ authCalls[d] = <<>> /\ authReplies[d] = <<>>
    BY <2>1, FormIsQuiet
  <2>3. q \in NameQueries
    BY <1>0, TrimType DEF NameQueries, Where, PageTypeOK
  <2>4. calls \in [Devices -> Seq(NameQueries)] /\ calls[d] \in Seq(NameQueries)
    BY <1>0 DEF FsTypeOK
  <2>5. Len(Append(calls[d], q)) = Len(calls[d]) + 1
    BY <2>3, <2>4, AppendProperties
  <2>6. Len(calls'[d]) = 1 /\ OtherReads(d)
    BY <1>0, <2>1, <2>2, <2>4, <2>5 DEF LengthsOK, OtherReads
  <2>7. Len(replies'[d]) = 0 /\ Len(authCalls'[d]) = 0 /\ Len(authReplies'[d]) = 0
    BY <1>1, <2>1, <2>2 DEF LengthsOK
  <2>8. UnderWay(d)' <= 1
    BY <2>6, <2>7 DEF UnderWay
  <2>. QED  BY <1>2, <2>1, <2>2, <2>6, <2>8 DEF WaitOK
<1>. QED  BY <1>2, <1>3, <1>4, <1>5, <1>6 DEF User

\* Firebase handles a call.
LEMMA AuthWaits ==
    ASSUME TruthInv, NEW d \in Devices, NEW i \in DOMAIN authCalls[d],
           NEW user \in Emails \union {null}, AuthStep(d, i, user)
    PROVE  WaitOK(d)'
<1>0. TypeInv /\ TypeOK /\ WaitOK(d) /\ LengthsOK(d)
  BY Lengths DEF TruthInv, TypeInv
<1>1. Handled(d, i, user) /\ TypeOK'
  BY <1>0, AuthStepOK DEF StepOK
<1>2. /\ accounts \subseteq accounts' /\ accounts' \subseteq Emails
      /\ UNCHANGED <<up, calls, replies, _email>>
  BY DEF AuthStep, AuthResult, loginVars
<1>. PICK r : r = [op |-> authCalls[d][i].op, user |-> user]
  OBVIOUS
<1>3. authReplies[d] \in Seq(AuthReplies) /\ authCalls[d] \in Seq(AuthCalls)
  BY <1>0, TypesKept DEF AuthTypeOK
<1>4. r \in AuthReplies /\ r.op = authCalls[d][i].op /\ r.user = user
  <2>1. authCalls[d][i] \in AuthCalls
    BY <1>3, Elements
  <2>. QED  BY <2>1 DEF AuthCalls, AuthReplies
<1>5. authReplies'[d] = Append(authReplies[d], r) /\ Len(authCalls'[d]) = Len(authCalls[d]) - 1
  BY <1>1 DEF Handled
<1>6. UnderWay(d)' <= 1
  <2>1. Len(authReplies'[d]) = Len(authReplies[d]) + 1
    BY <1>3, <1>4, <1>5, AppendProperties
  <2>2. \A a, b, c, e \in Nat : a + b + c + e <= 1 => a + b + (c - 1) + (e + 1) <= 1
    OBVIOUS
  <2>3. Len(calls[d]) + Len(replies[d]) + (Len(authCalls[d]) - 1) + (Len(authReplies[d]) + 1) <= 1
    BY <1>0, <2>2 DEF WaitOK, UnderWay, LengthsOK
  <2>. QED  BY <1>2, <1>5, <2>1, <2>3 DEF UnderWay
<1>7. up[d]
  BY <1>0 DEF TypeInv, Pending
<1>8. ASSUME NEW j \in DOMAIN authCalls'[d], authCalls'[d][j].op = "createUser"
      PROVE  authCalls'[d][j].email = _email'[d]
  <2>1. PICK k \in DOMAIN authCalls[d] : authCalls'[d][j] = authCalls[d][k]
    BY <1>1 DEF Handled
  <2>. QED  BY <1>0, <1>2, <1>8, <2>1 DEF WaitOK
<1>9. r.op = "createUser" /\ r.user # null => r.user = _email[d] /\ r.user \in accounts'
  BY <1>0, <1>4 DEF WaitOK, AuthStep
<1>10. ASSUME NEW j \in DOMAIN authReplies'[d], authReplies'[d][j].op = "createUser",
              authReplies'[d][j].user # null
       PROVE  authReplies'[d][j].user = _email'[d] /\ authReplies'[d][j].user \in accounts'
  <2>1. \/ authReplies'[d][j] = r
        \/ \E k \in DOMAIN authReplies[d] : authReplies'[d][j] = authReplies[d][k]
    BY <1>3, <1>4, <1>5, <1>10, AppendElements
  <2>2. CASE authReplies'[d][j] = r
    BY <1>2, <1>9, <1>10, <2>2
  <2>3. ASSUME NEW k \in DOMAIN authReplies[d], authReplies'[d][j] = authReplies[d][k]
        PROVE  authReplies'[d][j].user = _email[d] /\ authReplies'[d][j].user \in accounts
    BY <1>0, <1>10, <2>3 DEF WaitOK
  <2>. QED  BY <1>2, <2>1, <2>2, <2>3
<1>. QED  BY <1>2, <1>6, <1>7, <1>8, <1>10 DEF WaitOK

\* Steps of the Firestore client: an answer takes the place of its call.
LEMMA AnswerWaits ==
    ASSUME TruthInv, NEW d \in Devices, NEW i \in DOMAIN calls[d], Answer(d, i)
    PROVE  WaitOK(d)' /\ OtherReads(d)
<1>0. /\ TypeInv /\ TypeOK /\ WaitOK(d) /\ LengthsOK(d)
      /\ FsTypeOK(UserDocs, NameQueries)
  BY TypesKept, Lengths DEF TruthInv, TypeInv
<1>1. UNCHANGED <<accounts, authCalls, authReplies, up, _email>>
  BY DEF Answer, authVars, loginVars
<1>2. /\ calls \in [Devices -> Seq(NameQueries)] /\ calls[d] \in Seq(NameQueries)
      /\ replies \in [Devices -> Seq(AnswersOf(UserDocs, NameQueries))]
      /\ replies[d] \in Seq(AnswersOf(UserDocs, NameQueries))
      /\ store \in [Paths -> UserDocs \union {NoDoc}]
      /\ cache[d] \in [Paths -> UserDocs \union {NoDoc}]
      /\ outbox[d] \in Seq(WritesOf(UserDocs))
  BY <1>0 DEF FsTypeOK
<1>3. calls[d][i] \in NameQueries
  BY <1>2, Elements
<1>4. PICK a \in AnswersOf(UserDocs, NameQueries) :
         /\ calls' = [calls EXCEPT ![d] = RemoveAt(calls[d], i)]
         /\ replies' = [replies EXCEPT ![d] = Append(replies[d], a)]
  <2>1. /\ Snapshot(LocalView(store, outbox[d]), calls[d][i]) \in AnswersOf(UserDocs, NameQueries)
        /\ Snapshot(LocalView(cache[d], outbox[d]), calls[d][i]) \in AnswersOf(UserDocs, NameQueries)
    BY <1>2, <1>3, ViewAnswer
  <2>. QED  BY <2>1 DEF Answer, AnswerFromServer, AnswerFromCache, Answered
<1>5. /\ calls'[d] = RemoveAt(calls[d], i) /\ replies'[d] = Append(replies[d], a)
      /\ OtherReads(d)
  BY <1>2, <1>4 DEF OtherReads
<1>6. Len(calls'[d]) = Len(calls[d]) - 1 /\ Len(replies'[d]) = Len(replies[d]) + 1
  BY <1>2, <1>5, RemoveAtProperties, AppendProperties
<1>7. UnderWay(d)' <= 1
  <2>1. \A m, n, c, e \in Nat : m + n + c + e <= 1 => (m - 1) + (n + 1) + c + e <= 1
    OBVIOUS
  <2>2. (Len(calls[d]) - 1) + (Len(replies[d]) + 1) + Len(authCalls[d]) + Len(authReplies[d]) <= 1
    BY <1>0, <2>1 DEF WaitOK, UnderWay, LengthsOK
  <2>. QED  BY <1>1, <1>6, <2>2 DEF UnderWay
<1>8. up[d]
  BY <1>0 DEF WaitOK, Idle
<1>. QED  BY <1>0, <1>1, <1>5, <1>7, <1>8 DEF WaitOK

\* An answer of Firestore is delivered: nothing else was under way.
LEMMA Delivered ==
    ASSUME TruthInv, NEW d \in Devices, replies[d] # <<>>, Deliver(d, <<>>)
    PROVE  /\ up[d] /\ OtherReads(d)
           /\ Len(calls'[d]) = 0 /\ Len(replies'[d]) = 0
           /\ authCalls[d] = <<>> /\ authReplies[d] = <<>>
           /\ Len(authCalls[d]) = 0 /\ Len(authReplies[d]) = 0
<1>0. WaitOK(d) /\ LengthsOK(d) /\ FsTypeOK(UserDocs, NameQueries)
  BY TypesKept, Lengths DEF TruthInv, TypeInv
<1>1. \A a, b, c, e \in Nat : a + b + c + e <= 1 /\ b # 0 => b = 1 /\ a = 0 /\ c = 0 /\ e = 0
  OBVIOUS
<1>2. /\ Len(replies[d]) = 1 /\ Len(calls[d]) = 0
      /\ Len(authCalls[d]) = 0 /\ Len(authReplies[d]) = 0
  <2>1. UnderWay(d) <= 1 /\ Len(replies[d]) # 0
    BY <1>0 DEF WaitOK, LengthsOK
  <2>2. /\ Len(calls[d]) \in Nat /\ Len(replies[d]) \in Nat
        /\ Len(authCalls[d]) \in Nat /\ Len(authReplies[d]) \in Nat
    BY <1>0 DEF LengthsOK
  <2>. QED  BY <1>1, <2>1, <2>2 DEF UnderWay
<1>3. /\ replies \in [Devices -> Seq(AnswersOf(UserDocs, NameQueries))]
      /\ replies[d] \in Seq(AnswersOf(UserDocs, NameQueries))
  BY <1>0 DEF FsTypeOK
<1>4. Len(Tail(replies[d])) = Len(replies[d]) - 1
  BY <1>3, HeadTailProperties
<1>5. calls' = calls
  BY <1>0, DeliverTypes
<1>6. replies' = [replies EXCEPT ![d] = Tail(replies[d])]
  BY DEF Deliver
<1>7. OtherReads(d) /\ Len(calls'[d]) = 0 /\ Len(replies'[d]) = 0
  BY <1>2, <1>3, <1>4, <1>5, <1>6 DEF OtherReads
<1>. QED  BY <1>0, <1>2, <1>7 DEF WaitOK, Idle, LengthsOK

LEMMA UsernameWaits ==
    ASSUME TruthInv, NEW d \in Devices, UsernameAnswer(d) \/ UsernameAnswerLost(d)
    PROVE  /\ WaitOK(d)' /\ OtherReads(d)
           /\ UNCHANGED <<store, outbox, parked, accounts>>
<1>0. TypeInv /\ TypeOK
  BY DEF TruthInv, TypeInv
<1>1. /\ replies[d] # <<>> /\ Deliver(d, <<>>)
      /\ UNCHANGED <<store, outbox, parked, accounts, authReplies, up>>
      /\ ValidateAndSubmit(d, TRUE) \/ UNCHANGED authCalls
  BY DEF UsernameAnswer, UsernameAnswerLost, authVars
<1>2. /\ up[d] /\ OtherReads(d)
      /\ Len(calls'[d]) = 0 /\ Len(replies'[d]) = 0
      /\ authCalls[d] = <<>> /\ authReplies[d] = <<>>
      /\ Len(authCalls[d]) = 0 /\ Len(authReplies[d]) = 0
  BY <1>1, Delivered
<1>3. TypeOK'
  BY <1>0, UsernameAnswerOK, ClientStepsOK DEF StepOK
<1>4. CASE ValidateAndSubmit(d, TRUE)
  <2>1. Len(calls'[d]) + Len(replies'[d]) = 0
    BY <1>2
  <2>2. WaitOK(d)'
    BY <1>0, <1>1, <1>2, <1>3, <1>4, <2>1, QuietSubmit
  <2>. QED  BY <1>1, <1>2, <2>2
<1>5. CASE UNCHANGED authCalls
  <2>1. UnderWay(d)' <= 1
    BY <1>1, <1>2, <1>5 DEF UnderWay
  <2>. QED  BY <1>1, <1>2, <1>5, <2>1 DEF WaitOK
<1>. QED  BY <1>1, <1>4, <1>5

\* A result is delivered: the profile it makes saveUserData write is that
\* of the account, whose address the field still holds.
LEMMA AnswerTruth ==
    ASSUME TruthInv, NEW d \in Devices, AuthAnswer(d)
    PROVE  /\ WaitOK(d)' /\ OtherReads(d) /\ QueuesTellTruth'
           /\ UNCHANGED <<store, accounts>>
<1>0. /\ TypeInv /\ TypeOK /\ WaitOK(d) /\ LengthsOK(d) /\ QueuesTellTruth
      /\ FsTypeOK(UserDocs, NameQueries)
  BY TypesKept, Lengths DEF TruthInv, TypeInv
<1>. PICK r : r = Head(authReplies[d])
  OBVIOUS
<1>1. /\ r \in AuthReplies /\ 1 \in DOMAIN authReplies[d] /\ r = authReplies[d][1]
      /\ authReplies'[d] = Tail(authReplies[d])
      /\ \A j \in DOMAIN authReplies'[d] :
            j + 1 \in DOMAIN authReplies[d] /\ authReplies'[d][j] = authReplies[d][j + 1]
  BY <1>0, AuthAnswerOK
<1>2. /\ authReplies[d] # <<>>
      /\ UNCHANGED <<store, calls, replies, accounts, parked, authCalls, up, _email>>
  BY DEF AuthAnswer, loginVars
<1>3. UnderWay(d)' <= 1
  <2>1. authReplies[d] \in Seq(AuthReplies)
    BY <1>0, TypesKept DEF AuthTypeOK
  <2>2. Len(authReplies'[d]) = Len(authReplies[d]) - 1
    BY <1>1, <1>2, <2>1, HeadTailProperties
  <2>3. \A a, b, c, e \in Nat : a + b + c + e <= 1 => a + b + c + (e - 1) <= 1
    OBVIOUS
  <2>4. Len(calls[d]) + Len(replies[d]) + Len(authCalls[d]) + (Len(authReplies[d]) - 1) <= 1
    BY <1>0, <2>3 DEF WaitOK, UnderWay, LengthsOK
  <2>. QED  BY <1>2, <2>2, <2>4 DEF UnderWay
<1>4. up[d]
  BY <1>0, <1>2 DEF TypeInv, Pending
<1>5. WaitOK(d)'
  BY <1>0, <1>1, <1>2, <1>3, <1>4 DEF WaitOK
<1>6. ASSUME NEW e \in Devices, NEW i \in DOMAIN outbox'[e]
      PROVE  Truthful(accounts', outbox'[e][i])
  <2>. PICK w : w = [path |-> UserPath(r.user), data |-> UserDoc(r.user, _email[d], _username[d])]
    OBVIOUS
  <2>1. outbox \in [Devices -> Seq(WritesOf(UserDocs))] /\ outbox[d] \in Seq(WritesOf(UserDocs))
    BY <1>0 DEF FsTypeOK
  <2>2. accounts' = accounts
    BY <1>2
  <2>3. outbox' = [outbox EXCEPT ![d] = IF r.op = "createUser" /\ r.user # null
                                        THEN Append(outbox[d], w) ELSE outbox[d]]
    BY DEF AuthAnswer, SetData
  <2>4. CASE ~(e = d /\ r.op = "createUser" /\ r.user # null)
    <3>1. outbox'[e] = outbox[e]
      BY <2>1, <2>3, <2>4
    <3>. QED  BY <1>0, <1>6, <2>2, <3>1 DEF QueuesTellTruth
  <2>5. CASE e = d /\ r.op = "createUser" /\ r.user # null
    <3>1. r.user = _email[d] /\ r.user \in accounts
      BY <1>0, <1>1, <2>5 DEF WaitOK
    <3>2. Truthful(accounts, w)
      BY <3>1 DEF Truthful, UserPath, UserDoc
    <3>3. w \in WritesOf(UserDocs)
      <4>1. Registering(d) /\ r.user \in Emails
        BY <1>0, <1>1, <2>5 DEF TypeInv, Pending, AuthReplies
      <4>2. UserPath(r.user) \in Paths
        BY <4>1, UserPathsAssumption
      <4>3. UserDoc(r.user, _email[d], _username[d]) \in UserDocs
        BY <1>0, <4>1, TypesKept DEF Registering, PageTypeOK, UserDoc, UserDocs
      <4>. QED  BY <4>2, <4>3 DEF WritesOf
    <3>4. outbox'[e] = Append(outbox[d], w)
      BY <2>1, <2>3, <2>5
    <3>5. outbox'[e][i] = w \/ \E k \in DOMAIN outbox[d] : outbox'[e][i] = outbox[d][k]
      BY <1>6, <2>1, <3>3, <3>4, AppendElements
    <3>. QED  BY <1>0, <2>2, <3>2, <3>5 DEF QueuesTellTruth
  <2>. QED  BY <2>4, <2>5
<1>7. QueuesTellTruth'
  <2>1. \A e \in Devices, v \in Emails \union {null} :
            \A i \in DOMAIN parked'[e][v] : Truthful(accounts', parked'[e][v][i])
    BY <1>0, <1>2 DEF QueuesTellTruth
  <2>. QED  BY <1>6, <2>1 DEF QueuesTellTruth
<1>. QED  BY <1>2, <1>5, <1>7 DEF OtherReads

\* Queues that only have writes of queues from before.
LEMMA QueuesKept ==
    ASSUME QueuesTellTruth, accounts \subseteq accounts',
           \A e \in Devices : \A i \in DOMAIN outbox'[e] :
              \/ \E k \in DOMAIN outbox[e] : outbox'[e][i] = outbox[e][k]
              \/ \E v \in Emails \union {null} : \E k \in DOMAIN parked[e][v] :
                    outbox'[e][i] = parked[e][v][k],
           \A e \in Devices, v \in Emails \union {null} : \A i \in DOMAIN parked'[e][v] :
              \/ \E k \in DOMAIN outbox[e] : parked'[e][v][i] = outbox[e][k]
              \/ \E k \in DOMAIN parked[e][v] : parked'[e][v][i] = parked[e][v][k]
    PROVE  QueuesTellTruth'
<1>1. \A w : Truthful(accounts, w) => Truthful(accounts', w)
  BY DEF Truthful
<1>2. ASSUME NEW e \in Devices, NEW i \in DOMAIN outbox'[e]
      PROVE  Truthful(accounts', outbox'[e][i])
  <2>1. Truthful(accounts, outbox'[e][i])
    BY <1>2 DEF QueuesTellTruth
  <2>. QED  BY <1>1, <2>1
<1>3. ASSUME NEW e \in Devices, NEW v \in Emails \union {null}, NEW i \in DOMAIN parked'[e][v]
      PROVE  Truthful(accounts', parked'[e][v][i])
  <2>1. Truthful(accounts, parked'[e][v][i])
    BY <1>3 DEF QueuesTellTruth
  <2>. QED  BY <1>1, <2>1
<1>. QED  BY <1>2, <1>3 DEF QueuesTellTruth

\* Queues that stay, while accounts may be added.
LEMMA SameQueues ==
    ASSUME QueuesTellTruth, accounts \subseteq accounts', UNCHANGED <<outbox, parked>>
    PROVE  QueuesTellTruth'
BY DEF QueuesTellTruth, Truthful

\* What the backend holds stays, while accounts may be added.
LEMMA SameStore ==
    ASSUME ProfileTellsTruth, accounts \subseteq accounts', store' = store
    PROVE  ProfileTellsTruth'
BY DEF ProfileTellsTruth

\* What an action keeps of the truth, for any patient user.
TruthStep(d) ==
    WaitOK(d)' /\ OtherReads(d) /\ QueuesTellTruth' /\ ProfileTellsTruth'
        /\ accounts \subseteq accounts'

LEMMA AuthTruth ==
    ASSUME TruthInv, NEW d \in Devices, NEW i \in DOMAIN authCalls[d],
           AuthSucceeds(d, i) \/ AuthFails(d, i) \/ AuthResponseLost(d, i)
    PROVE  TruthStep(d)
<1>0. TypeInv /\ TypeOK /\ QueuesTellTruth /\ ProfileTellsTruth
  BY DEF TruthInv, TypeInv
<1>1. PICK user \in Emails \union {null} : AuthStep(d, i, user)
  BY <1>0, AuthSteps
<1>2. /\ accounts \subseteq accounts' /\ accounts' \subseteq Emails
      /\ UNCHANGED <<store, calls, replies>>
  BY <1>1 DEF AuthStep, AuthResult
<1>3. WaitOK(d)'
  BY <1>1, AuthWaits
<1>4. QueuesTellTruth'
  <2>1. CASE UNCHANGED <<outbox, parked>>
    BY <1>0, <1>2, <2>1, SameQueues
  <2>2. CASE user \in accounts' /\ UserDidChange(d, user)
    <3>1. user \in Emails
      BY <1>2, <2>2
    <3>2. /\ \A e \in Devices : \A j \in DOMAIN outbox'[e] :
                \/ \E k \in DOMAIN outbox[e] : outbox'[e][j] = outbox[e][k]
                \/ \E k \in DOMAIN parked[e][user] : outbox'[e][j] = parked[e][user][k]
          /\ \A e \in Devices, v \in Emails \union {null} : \A j \in DOMAIN parked'[e][v] :
                \/ \E k \in DOMAIN outbox[e] : parked'[e][v][j] = outbox[e][k]
                \/ \E k \in DOMAIN parked[e][v] : parked'[e][v][j] = parked[e][v][k]
      BY <1>0, <2>2, <3>1, UserChangeTypes
    <3>. QED  BY <1>0, <1>2, <3>1, <3>2, QueuesKept
  <2>. QED  BY <1>1, <2>1, <2>2 DEF AuthStep
<1>5. ProfileTellsTruth'
  BY <1>0, <1>2, SameStore
<1>. QED  BY <1>2, <1>3, <1>4, <1>5 DEF TruthStep, OtherReads

\* The app is killed; the queue of writes comes back from disk.
LEMMA KillTruth ==
    ASSUME TruthInv, NEW d \in Devices, Kill(d)
    PROVE  TruthStep(d)
<1>0. /\ TypeInv /\ TypeOK /\ QueuesTellTruth /\ ProfileTellsTruth
      /\ FsTypeOK(UserDocs, NameQueries) /\ AuthTypeOK /\ PageTypeOK
  BY TypesKept DEF TruthInv, TypeInv
<1>1. /\ RestartClient(d)
      /\ authCalls' = [authCalls EXCEPT ![d] = <<>>]
      /\ authReplies' = [authReplies EXCEPT ![d] = <<>>]
      /\ UNCHANGED <<accounts, parked>>
  BY DEF Kill
<1>2. /\ calls' = [calls EXCEPT ![d] = <<>>] /\ replies' = [replies EXCEPT ![d] = <<>>]
      /\ store' = store
  BY <1>1 DEF RestartClient
<1>3. /\ calls'[d] = <<>> /\ replies'[d] = <<>>
      /\ authCalls'[d] = <<>> /\ authReplies'[d] = <<>>
      /\ OtherReads(d)
  BY <1>0, <1>1, <1>2 DEF FsTypeOK, AuthTypeOK, OtherReads
<1>4. LengthsOK(d)'
  BY <1>0, KillOK, NewLengths DEF StepOK
<1>5. /\ Len(calls'[d]) = 0 /\ Len(replies'[d]) = 0
      /\ Len(authCalls'[d]) = 0 /\ Len(authReplies'[d]) = 0
  BY <1>3, <1>4 DEF LengthsOK
<1>6. UnderWay(d)' <= 1
  BY <1>5 DEF UnderWay
<1>7. WaitOK(d)'
  BY <1>3, <1>6 DEF WaitOK, Idle
<1>8. QueuesTellTruth'
  <2>1. /\ outbox \in [Devices -> Seq(WritesOf(UserDocs))] /\ SendTypeOK
        /\ \A w \in WritesOf(UserDocs) : w.path \in Paths
    BY <1>0 DEF FsTypeOK, WritesOf
  <2>2. PICK n : Dropped(d, n)
    BY <1>1, <2>1, DropSteps
  <2>3. \A e \in Devices : \A j \in DOMAIN outbox'[e] :
           \E k \in DOMAIN outbox[e] : outbox'[e][j] = outbox[e][k]
    BY <2>2 DEF Dropped
  <2>. QED  BY <1>0, <1>1, <2>3, QueuesKept
<1>. QED  BY <1>0, <1>1, <1>2, <1>3, <1>7, <1>8, SameStore DEF TruthStep

\* Writes reach the backend: what it holds then was in the queue.
LEMMA SyncTruth ==
    ASSUME TruthInv, NEW d \in Devices, Sync(d)
    PROVE  TruthStep(d)
<1>0. /\ TypeInv /\ TypeOK /\ WaitOK(d) /\ QueuesTellTruth /\ ProfileTellsTruth
      /\ FsTypeOK(UserDocs, NameQueries)
  BY TypesKept DEF TruthInv, TypeInv
<1>1. UNCHANGED <<authCalls, authReplies, accounts, parked, up, _email>>
  BY DEF Sync, Apply, Ack, Release, Break, authVars, loginVars
<1>2. ApplyWrite(d) \/ AckWrite(d) \/ ReleaseWrite(d) \/ BreakStream(d)
  BY DEF Sync, Apply, Ack, Release, Break
<1>3. UNCHANGED <<calls, replies>>
  BY <1>0, <1>2, SyncTypes
<1>4. WaitOK(d)' /\ OtherReads(d)
  BY <1>0, <1>1, <1>3 DEF WaitOK, UnderWay, Idle, OtherReads
<1>5. /\ outbox \in [Devices -> Seq(WritesOf(UserDocs))] /\ SendTypeOK
      /\ \A w \in WritesOf(UserDocs) : w.path \in Paths
  BY <1>0 DEF FsTypeOK, WritesOf
<1>6. QueuesTellTruth'
  <2>1. CASE ReleaseWrite(d)
    <3>1. PICK n : Dropped(d, n)
      BY <1>5, <2>1, DropSteps
    <3>2. \A e \in Devices : \A j \in DOMAIN outbox'[e] :
             \E k \in DOMAIN outbox[e] : outbox'[e][j] = outbox[e][k]
      BY <3>1 DEF Dropped
    <3>. QED  BY <1>0, <1>1, <3>2, QueuesKept
  <2>2. CASE outbox' = outbox
    BY <1>0, <1>1, <2>2, SameQueues
  <2>. QED  BY <1>2, <1>5, <2>1, <2>2, SendSteps
<1>7. ProfileTellsTruth'
  <2>1. CASE ApplyWrite(d)
    <3>. PICK w : w = outbox[d][applied[d] + 1]
      OBVIOUS
    <3>1. store' = [store EXCEPT ![w.path] = w.data] /\ applied[d] < Len(outbox[d])
      BY <2>1 DEF ApplyWrite
    <3>2. applied[d] + 1 \in DOMAIN outbox[d]
      <4>1. applied[d] \in Nat /\ Len(outbox[d]) \in Nat /\ DOMAIN outbox[d] = 1..Len(outbox[d])
        BY <1>5, LenProperties DEF SendTypeOK
      <4>. QED  BY <3>1, <4>1
    <3>3. Truthful(accounts, w)
      BY <1>0, <3>2 DEF QueuesTellTruth
    <3>4. store \in [Paths -> UserDocs \union {NoDoc}]
      BY <1>0 DEF FsTypeOK
    <3>5. ASSUME NEW u \in Emails, store'[UserPath(u)] # NoDoc
          PROVE  /\ u \in accounts /\ store'[UserPath(u)].uid = u
                 /\ store'[UserPath(u)].email = u
      <4>0. UserPath(u) \in Paths /\ UserPath(u).id = u
        BY UserPathsAssumption DEF UserPath
      <4>1. CASE w.path = UserPath(u)
        <5>1. store'[UserPath(u)] = w.data
          BY <3>1, <3>4, <4>0, <4>1
        <5>. QED  BY <3>3, <4>0, <4>1, <5>1 DEF Truthful
      <4>2. CASE w.path # UserPath(u)
        <5>1. store'[UserPath(u)] = store[UserPath(u)]
          BY <3>1, <3>4, <4>0, <4>2
        <5>. QED  BY <1>0, <3>5, <5>1 DEF ProfileTellsTruth
      <4>. QED  BY <4>1, <4>2
    <3>. QED  BY <1>1, <3>5 DEF ProfileTellsTruth
  <2>2. CASE store' = store
    BY <1>0, <1>1, <2>2, SameStore
  <2>. QED  BY <1>2, <2>1, <2>2 DEF AckWrite, ReleaseWrite, BreakStream
<1>. QED  BY <1>1, <1>4, <1>6, <1>7 DEF TruthStep

LEMMA DeviceTruth ==
    ASSUME Patient, TruthInv, NEW d \in Devices, User(d) \/ Firebase(d) \/ App(d) \/ Kill(d)
    PROVE  TruthStep(d)
<1>0. TypeInv /\ QueuesTellTruth /\ ProfileTellsTruth
  BY DEF TruthInv
<1>1. ASSUME WaitOK(d)', OtherReads(d), UNCHANGED <<store, outbox, parked, accounts>>
      PROVE  TruthStep(d)
  BY <1>0, <1>1, SameQueues, SameStore DEF TruthStep
<1>2. CASE User(d)
  BY <1>1, <1>2, UserWaits
<1>3. CASE Firebase(d)
  <2>1. ASSUME NEW i \in DOMAIN calls[d], Answer(d, i) PROVE TruthStep(d)
    <3>1. UNCHANGED <<store, outbox, parked, accounts>>
      BY <2>1 DEF Answer, AnswerFromServer, AnswerFromCache, Answered, authVars
    <3>. QED  BY <1>1, <2>1, <3>1, AnswerWaits
  <2>. QED  BY <1>3, <2>1, AuthTruth, SyncTruth DEF Firebase
<1>4. CASE App(d)
  <2>1. CASE AuthAnswer(d)
    <3>1. /\ WaitOK(d)' /\ OtherReads(d) /\ QueuesTellTruth'
          /\ UNCHANGED <<store, accounts>>
      BY <2>1, AnswerTruth
    <3>. QED  BY <1>0, <3>1, SameStore DEF TruthStep
  <2>. QED  BY <1>1, <1>4, <2>1, UsernameWaits DEF App
<1>. QED  BY <1>2, <1>3, <1>4, KillTruth

LEMMA TruthInvStep == Patient /\ TruthInv /\ [Next]_vars => TruthInv'
<1>. SUFFICES ASSUME Patient, TruthInv, [Next]_vars PROVE TruthInv'
  OBVIOUS
<1>0. TypeInv' /\ TypeInv
  BY TypeInvStep DEF TruthInv
<1>1. ASSUME NEW d \in Devices, User(d) \/ Firebase(d) \/ App(d) \/ Kill(d)
      PROVE  TruthInv'
  <2>1. TruthStep(d)
    BY <1>1, DeviceTruth
  <2>2. ASSUME NEW e \in Devices, e # d PROVE WaitOK(e)'
    <3>1. SameLogin(e) /\ WaitOK(e)
      BY <1>0, <1>1, <2>2, EveryStepOK DEF StepOK, TruthInv
    <3>2. calls'[e] = calls[e] /\ replies'[e] = replies[e] /\ accounts \subseteq accounts'
      BY <2>1, <2>2 DEF TruthStep, OtherReads
    <3>. QED  BY <3>1, <3>2 DEF SameLogin, WaitOK, UnderWay, Idle
  <2>. QED  BY <1>0, <2>1, <2>2 DEF TruthStep, TruthInv
<1>2. CASE UNCHANGED vars
  <2>1. UNCHANGED <<store, outbox, calls, replies, accounts, parked, authCalls,
                    authReplies, up, _email>>
    BY <1>2 DEF vars, fsVars, authVars, loginVars
  <2>2. QueuesTellTruth' /\ ProfileTellsTruth'
    BY <2>1, SameQueues, SameStore DEF TruthInv
  <2>3. \A d \in Devices : WaitOK(d)'
    BY <2>1 DEF TruthInv, WaitOK, UnderWay, Idle
  <2>. QED  BY <1>0, <2>2, <2>3 DEF TruthInv
<1>. QED  BY <1>1, <1>2 DEF Next

\* For any phones, addresses and names: where users wait for an answer
\* before they touch the form again, every profile the backend holds is
\* filed under the account it describes, and that account is there, although
\* saveUserData takes the uid from the answer and the address from a field,
\* and whatever is lost, sent twice or killed on the way.
THEOREM ProfilesAreTrue == Patient => (Spec => []ProfileTellsTruth)
<1>1. TruthInv => ProfileTellsTruth
  BY DEF TruthInv
<1>2. ASSUME Patient PROVE Spec => []ProfileTellsTruth
  <2>1. TruthInv /\ [Next]_vars => TruthInv'
    BY <1>2, TruthInvStep
  <2>. QED  BY <1>1, <2>1, TruthInit, PTL DEF Spec
<1>. QED  BY <1>2

=============================================================================
