---------------------------- MODULE SignUpProofs ----------------------------
(* Proofs that sign-up never leaves half an account and never hands out a  *)
(* token for nothing, for any number of clients and any sets of emails,    *)
(* mobile numbers and passwords.                                           *)
EXTENDS SignUp, TLAPS

AuthIds == {a.id : a \in auths}
UserIds == {u.id : u \in users}

(* What the transaction of handler r holds at each of its steps: a User    *)
(* document is pending unless the account already has one.                 *)
TxnInv(r) ==
  /\ pc[r] \in {"find", "auth", "user", "commit", "reply"} => dto[r] \in SignUpDto
  /\ pc[r] \in {"idle", "find", "auth", "reply"} => txn[r] = NoTxn
  /\ pc[r] \in {"user", "commit"} => /\ txn[r].auth \in Auth
                                     /\ txn[r].auth.email = dto[r].email
  /\ pc[r] = "user" => txn[r].user = None
  /\ pc[r] = "commit" =>
       \/ txn[r].user = None /\ txn[r].auth.id \in UserIds
       \/ /\ txn[r].user \in User
          /\ txn[r].user.id = txn[r].auth.id /\ txn[r].user.email = txn[r].auth.email

(* A pending Auth document has an id that was given, and the email that    *)
(* every other version of the document has.                                *)
PendingInv(r) ==
  txn[r].auth # None =>
    /\ txn[r].auth.id <= lastId
    /\ \A a \in auths : a.id = txn[r].auth.id => a.email = txn[r].auth.email
    /\ \A q \in Requests :
         /\ txn[q].auth # None
         /\ txn[q].auth.id = txn[r].auth.id
         => txn[q].auth.email = txn[r].auth.email

(* The account handler r has a token for is stored. *)
Stored(id, email) == \E a \in auths : a.id = id /\ a.email = email

(* A sign-up refused for its email names the email of a stored user. *)
ConflictInv(r) == out[r].status = "conflict" /\ dto[r].email # None =>
                    \E u \in users : u.email = dto[r].email

TokenInv(r) ==
  /\ ConflictInv(r)
  /\ pc[r] = "reply" => out[r].status = "signing"
  /\ out[r].status = "ok" => pc[r] = "idle"
  /\ pc[r] = "reply" \/ out[r].status = "ok" => Stored(out[r].id, dto[r].email)

(* The two documents of an account have one email. *)
SameEmail == \A a \in auths, u \in users : a.id = u.id => a.email = u.email

IInv == /\ TypeOK
        /\ AuthsHaveUsers
        /\ \A a \in auths : a.id <= lastId
        /\ \A a, b \in auths : a.id = b.id => a = b
        /\ SameEmail
        /\ \A r \in Requests : TxnInv(r) /\ PendingInv(r) /\ TokenInv(r)

-----------------------------------------------------------------------------

LEMMA InitIInv == Init => IInv
<1> SUFFICES ASSUME Init PROVE IInv
  OBVIOUS
<1>1. TypeOK
  <2>1. overlapped \in BOOLEAN
    BY Zenon DEF Init
  <2>2. QED
    BY <2>1, MaxAccountsAssumption DEF Init, TypeOK, NoTxn, Answers
<1>2. AuthsHaveUsers
  BY DEF Init, AuthsHaveUsers
<1>3. \A r \in Requests : TxnInv(r) /\ PendingInv(r) /\ TokenInv(r)
  BY DEF Init, TxnInv, PendingInv, TokenInv, ConflictInv, NoTxn
<1>4. QED
  BY <1>1, <1>2, <1>3 DEF IInv, Init, SameEmail

(* A step that writes no document and leaves the transactions open or ends *)
(* one preserves everything but what is said of the handler that takes it. *)
LEMMA SameDatabase ==
  ASSUME IInv, UNCHANGED <<database, lastId>>, NEW r \in Requests,
         TypeOK', TxnInv(r)', TokenInv(r)',
         txn' \in {txn, [txn EXCEPT ![r] = NoTxn]},
         \A q \in Requests \ {r} : /\ pc'[q] = pc[q] /\ dto'[q] = dto[q]
                                   /\ out'[q] = out[q]
  PROVE  IInv'
<1> USE DEF IInv, database
<1>1. /\ AuthsHaveUsers' /\ SameEmail' /\ \A a \in auths' : a.id <= lastId'
      /\ \A a, b \in auths' : a.id = b.id => a = b
  BY DEF AuthsHaveUsers, SameEmail
<1>2. ASSUME NEW q \in Requests PROVE TxnInv(q)' /\ TokenInv(q)'
  <2>1. CASE q = r
    BY <2>1
  <2>2. CASE q # r
    <3>1. txn'[q] = txn[q]
      BY <2>2 DEF TypeOK
    <3>2. QED
      BY <2>2, <3>1 DEF TxnInv, TokenInv, ConflictInv, Stored, UserIds
  <2>3. QED
    BY <2>1, <2>2
<1>3. ASSUME NEW q \in Requests PROVE PendingInv(q)'
  <2>1. \A p \in Requests : txn'[p].auth # None => txn'[p] = txn[p]
    BY DEF NoTxn, TypeOK
  <2>2. QED
    BY <2>1 DEF PendingInv
<1>4. QED
  BY <1>1, <1>2, <1>3

LEMMA ReceiveIInv ==
  ASSUME IInv, NEW r \in Requests, Receive(r)
  PROVE  IInv'
<1>1. TypeOK'
  BY DEF IInv, Receive, TypeOK, database, Answers
<1>2. TxnInv(r)' /\ TokenInv(r)'
  BY DEF IInv, Receive, TypeOK, TxnInv, TokenInv, ConflictInv, NoTxn
<1>3. QED
  BY <1>1, <1>2, SameDatabase DEF IInv, Receive, TypeOK

(* A handler that ends without a token. *)
LEMMA AnswerIInv ==
  ASSUME IInv, NEW r \in Requests, NEW answer \in [status : {"none", "conflict", "error"}],
         Answer(r, answer), UNCHANGED <<database, lastId>>,
         answer.status = "conflict" /\ dto[r].email # None =>
           \E u \in users : u.email = dto[r].email
  PROVE  IInv'
<1>1. TypeOK'
  BY DEF IInv, Answer, TypeOK, database, Answers, NoTxn
<1>2. TxnInv(r)' /\ TokenInv(r)'
  BY DEF IInv, Answer, TypeOK, TxnInv, TokenInv, ConflictInv, database
<1>3. QED
  BY <1>1, <1>2, SameDatabase DEF IInv, Answer, TypeOK

LEMMA FindOneIInv ==
  ASSUME IInv, NEW r \in Requests, FindOne(r)
  PROVE  IInv'
<1>1. CASE WithEmail(dto[r].email) # {} /\ Answer(r, [status |-> "conflict"])
  <2>1. PICK a \in auths : a.email = dto[r].email
    BY <1>1 DEF WithEmail
  <2>2. \E u \in users : u.id = a.id
    BY DEF IInv, AuthsHaveUsers
  <2>3. \E u \in users : u.email = dto[r].email
    BY <2>1, <2>2 DEF IInv, SameEmail
  <2>4. QED
    BY <1>1, <2>3, AnswerIInv DEF FindOne
<1>2. CASE Await(r, "auth") /\ UNCHANGED txn
  <2>1. TypeOK'
    BY <1>2 DEF IInv, FindOne, Await, TypeOK, database
  <2>2. TxnInv(r)' /\ TokenInv(r)'
    BY <1>2 DEF IInv, FindOne, Await, TypeOK, TxnInv, TokenInv, ConflictInv, database
  <2>3. QED
    BY <1>2, <2>1, <2>2, SameDatabase DEF IInv, FindOne, Await, TypeOK
<1>3. QED
  BY <1>1, <1>2 DEF FindOne

(* A new Auth document, or a new version of a committed one, is pending.   *)
LEMMA PendingAuth ==
  ASSUME IInv, NEW r \in Requests, pc[r] = "auth", NEW a \in Auth, a.email = dto[r].email,
         txn' = [txn EXCEPT ![r].auth = a], Await(r, "user"), UNCHANGED database,
         lastId' \in lastId .. MaxAccounts, a.id <= lastId',
         \/ a.id > lastId
         \/ \E b \in auths : b.id = a.id /\ b.email = a.email
  PROVE  IInv'
<1> USE DEF database
<1>1. TypeOK'
  BY MaxAccountsAssumption DEF IInv, TypeOK, Await
<1>2. lastId \in Int /\ lastId' \in Int /\ a.id \in Int
  BY MaxAccountsAssumption DEF IInv, TypeOK, Auth, Ids
<1>3. /\ \A b \in auths : b.id \in Int /\ b.id <= lastId
      /\ \A b \in auths : b.id = a.id => b.email = a.email
  BY <1>2 DEF IInv, TypeOK, Auth, Ids
<1>4. ASSUME NEW q \in Requests, txn[q].auth # None
      PROVE  /\ txn[q].auth.id \in Int /\ txn[q].auth.id <= lastId
             /\ txn[q].auth.id = a.id => txn[q].auth.email = a.email
  BY <1>2, <1>3, <1>4 DEF IInv, TypeOK, Auth, Ids, PendingInv
<1>5. txn'[r] = [auth |-> a, user |-> None]
  BY DEF IInv, TypeOK, TxnInv, NoTxn
<1>6. \A q \in Requests \ {r} : txn'[q] = txn[q] /\ pc'[q] = pc[q]
  BY DEF IInv, TypeOK, Await
<1>7. ASSUME NEW q \in Requests PROVE TxnInv(q)' /\ TokenInv(q)'
  <2>1. CASE q = r
    BY <1>5, <2>1 DEF IInv, TypeOK, TxnInv, TokenInv, ConflictInv, Await
  <2>2. CASE q # r
    BY <1>6, <2>2 DEF IInv, TxnInv, TokenInv, ConflictInv, Await, Stored, UserIds
  <2>3. QED
    BY <2>1, <2>2
<1>8. ASSUME NEW q \in Requests PROVE PendingInv(q)'
  <2>1. \A p \in Requests : p # r => txn'[p].auth = txn[p].auth
    BY <1>6
  <2>2. txn'[r].auth = a
    BY <1>5
  <2>3. \A p \in Requests : txn'[p].auth # None =>
          /\ txn'[p].auth.id <= lastId'
          /\ txn'[p].auth.id = a.id => txn'[p].auth.email = a.email
    BY <1>2, <1>4, <2>1, <2>2
  <2>4. QED
    BY <1>3, <2>1, <2>2, <2>3 DEF IInv, PendingInv
<1>9. QED
  BY <1>1, <1>2, <1>3, <1>7, <1>8 DEF IInv, AuthsHaveUsers, SameEmail

LEMMA UpsertAuthIInv ==
  ASSUME IInv, NEW r \in Requests, UpsertAuth(r)
  PROVE  IInv'
<1>1. /\ pc[r] = "auth" /\ dto[r] \in SignUpDto /\ UNCHANGED database
      /\ lastId \in 0 .. MaxAccounts /\ auths \subseteq Auth
  BY DEF IInv, TypeOK, TxnInv, UpsertAuth
<1>2. dto[r].email \in Emails \cup {None} /\ dto[r].password \in Passwords
  BY <1>1 DEF SignUpDto
<1>3. CASE /\ WithEmail(dto[r].email) = {} /\ lastId < MaxAccounts /\ lastId' = lastId + 1
           /\ txn' = [txn EXCEPT ![r].auth = [id |-> lastId', email |-> dto[r].email,
                                              password |-> dto[r].password]]
           /\ Await(r, "user")
  <2> DEFINE a == [id |-> lastId', email |-> dto[r].email, password |-> dto[r].password]
  <2>1. lastId' \in Ids /\ lastId' \in lastId .. MaxAccounts /\ lastId' > lastId
    BY <1>1, <1>3, MaxAccountsAssumption DEF Ids
  <2>2. a \in Auth /\ a.email = dto[r].email /\ a.id = lastId' /\ lastId' <= lastId'
    BY <1>2, <2>1, MaxAccountsAssumption DEF Auth, Ids
  <2> HIDE DEF a
  <2>3. txn' = [txn EXCEPT ![r].auth = a]
    BY <1>3 DEF a
  <2>4. QED
    BY <1>1, <1>3, <2>1, <2>2, <2>3, PendingAuth
<1>4. ASSUME NEW b \in WithEmail(dto[r].email),
             txn' = [txn EXCEPT ![r].auth = [b EXCEPT !.password = dto[r].password]],
             Await(r, "user"), UNCHANGED lastId
      PROVE  IInv'
  <2> DEFINE a == [b EXCEPT !.password = dto[r].password]
  <2>1. b \in auths /\ b \in Auth /\ b.email = dto[r].email
    BY <1>1 DEF WithEmail
  <2>2. a \in Auth /\ a.id = b.id /\ a.email = b.email
    BY <1>2, <2>1 DEF Auth
  <2>3. lastId' \in lastId .. MaxAccounts /\ a.id <= lastId'
    BY <1>1, <1>4, <2>1, <2>2, MaxAccountsAssumption DEF IInv
  <2> HIDE DEF a
  <2>4. txn' = [txn EXCEPT ![r].auth = a]
    BY <1>4 DEF a
  <2>5. QED
    BY <1>1, <1>4, <2>1, <2>2, <2>3, <2>4, PendingAuth
<1>5. CASE Answer(r, [status |-> "error"]) /\ UNCHANGED lastId
  BY <1>1, <1>5, AnswerIInv
<1>6. QED
  BY <1>3, <1>4, <1>5 DEF UpsertAuth

LEMMA UpsertUserIInv ==
  ASSUME IInv, NEW r \in Requests, UpsertUser(r)
  PROVE  IInv'
<1> USE DEF database
<1>1. /\ pc[r] = "user" /\ dto[r] \in SignUpDto /\ UNCHANGED <<database, lastId>>
      /\ txn[r].auth \in Auth /\ txn[r].auth.email = dto[r].email /\ txn[r].user = None
  BY DEF IInv, TxnInv, UpsertUser
<1>2. /\ NewUser(r) \in User
      /\ NewUser(r).id = txn[r].auth.id /\ NewUser(r).email = txn[r].auth.email
  BY <1>1 DEF NewUser, User, Auth, SignUpDto
<1>3. TypeOK'
  BY <1>2 DEF IInv, TypeOK, UpsertUser, Await
<1>4. \A q \in Requests : txn'[q].auth = txn[q].auth
  BY DEF IInv, TypeOK, UpsertUser
<1>5. \A q \in Requests \ {r} : txn'[q] = txn[q] /\ pc'[q] = pc[q]
  BY DEF IInv, TypeOK, UpsertUser, Await
<1>6. \/ txn'[r] = txn[r] /\ txn[r].auth.id \in UserIds
      \/ txn'[r].user = NewUser(r)
  BY DEF IInv, TypeOK, UpsertUser, UserIds
<1>7. ASSUME NEW q \in Requests PROVE TxnInv(q)' /\ TokenInv(q)'
  <2>1. CASE q = r
    BY <1>1, <1>2, <1>4, <1>6, <2>1 DEF IInv, TypeOK, TxnInv, TokenInv, ConflictInv, UpsertUser, Await, UserIds
  <2>2. CASE q # r
    BY <1>1, <1>5, <2>2 DEF IInv, TxnInv, TokenInv, ConflictInv, UpsertUser, Await, Stored, UserIds
  <2>3. QED
    BY <2>1, <2>2
<1>8. \A q \in Requests : PendingInv(q)'
  BY <1>1, <1>4 DEF IInv, PendingInv
<1>9. QED
  BY <1>1, <1>3, <1>7, <1>8 DEF IInv, AuthsHaveUsers, SameEmail

(* A committed transaction: both documents are stored, under one id. *)
LEMMA AppliedInv ==
  ASSUME IInv, NEW r \in Requests, pc[r] = "commit", Applied(r), UNCHANGED <<dto, lastId>>,
         txn' = [txn EXCEPT ![r] = NoTxn],
         \A q \in Requests \ {r} : pc'[q] = pc[q] /\ out'[q] = out[q]
  PROVE  /\ auths' \subseteq Auth /\ users' \subseteq User
         /\ AuthsHaveUsers'
         /\ \A a \in auths' : a.id <= lastId'
         /\ \A a, b \in auths' : a.id = b.id => a = b
         /\ SameEmail' /\ users \subseteq users'
         /\ \E a \in auths' : a.id = txn[r].auth.id /\ a.email = dto[r].email
         /\ \A q \in Requests : PendingInv(q)'
         /\ \A q \in Requests \ {r} : TxnInv(q)' /\ TokenInv(q)'
<1> DEFINE t == txn[r]
<1>1. /\ t.auth \in Auth /\ t.auth.email = dto[r].email /\ t.auth # None
      /\ \/ t.user = None /\ t.auth.id \in UserIds
         \/ /\ t.user \in User /\ t.user # None
            /\ t.user.id = t.auth.id /\ t.user.email = t.auth.email
  BY NoneAssumption DEF IInv, TxnInv
<1>2. /\ auths' = {a \in auths : a.id # t.auth.id} \cup {t.auth}
      /\ users' = IF t.user = None THEN users ELSE users \cup {t.user}
  BY DEF Applied
<1>3. \A q \in Requests \ {r} : txn'[q] = txn[q]
  BY DEF IInv, TypeOK
<1>4. txn'[r] = NoTxn
  BY DEF IInv, TypeOK
<1> HIDE DEF t
<1>5. auths' \subseteq Auth /\ users' \subseteq User
  BY <1>1, <1>2 DEF IInv, TypeOK
<1>6. /\ AuthIds' = AuthIds \cup {t.auth.id}
      /\ UserIds' = UserIds \cup {t.auth.id}
  BY <1>1, <1>2 DEF AuthIds, UserIds
<1>7. AuthsHaveUsers'
  BY <1>6 DEF IInv, AuthsHaveUsers, AuthIds, UserIds
<1>8. \A a \in auths' : a.id <= lastId'
  BY <1>1, <1>2 DEF IInv, PendingInv, t
<1>9. \A a, b \in auths' : a.id = b.id => a = b
  BY <1>2 DEF IInv
<1>10. \A a \in auths : a.id = t.auth.id => a.email = t.auth.email
  BY <1>1 DEF IInv, PendingInv, t
<1>11. \A id, email : Stored(id, email) => Stored(id, email)'
  BY <1>2, <1>10 DEF Stored
<1>12. \E a \in auths' : a.id = txn[r].auth.id /\ a.email = dto[r].email
  BY <1>1, <1>2 DEF t
<1>13. ASSUME NEW q \in Requests PROVE PendingInv(q)'
  <2>1. \A p \in Requests : txn'[p].auth # None => p # r /\ txn'[p].auth = txn[p].auth
    BY <1>3, <1>4 DEF NoTxn
  <2>2. ASSUME txn'[q].auth # None, NEW a \in auths', a.id = txn'[q].auth.id
        PROVE  a.email = txn'[q].auth.email
    <3>1. CASE a = t.auth
      BY <1>1, <2>1, <2>2, <3>1 DEF IInv, PendingInv, t
    <3>2. CASE a \in auths
      BY <2>1, <2>2, <3>2 DEF IInv, PendingInv
    <3>3. QED
      BY <1>2, <2>2, <3>1, <3>2
  <2>3. QED
    BY <2>1, <2>2 DEF IInv, PendingInv
<1>14. \A u \in users : u.id = t.auth.id => u.email = t.auth.email
  BY <1>10 DEF IInv, AuthsHaveUsers, SameEmail
<1>15. SameEmail' /\ users \subseteq users'
  BY <1>1, <1>2, <1>14 DEF IInv, SameEmail
<1>16. ASSUME NEW q \in Requests \ {r} PROVE TxnInv(q)' /\ TokenInv(q)'
  BY <1>3, <1>6, <1>11, <1>15 DEF IInv, TxnInv, TokenInv, ConflictInv
<1>17. QED
  BY <1>5, <1>7, <1>8, <1>9, <1>12, <1>13, <1>15, <1>16

LEMMA CommitIInv ==
  ASSUME IInv, NEW r \in Requests, Commit(r)
  PROVE  IInv'
<1>1. pc[r] = "commit" /\ Applied(r) /\ UNCHANGED <<dto, lastId>>
  BY DEF Commit, SignIn, Answer
<1>2. txn' = [txn EXCEPT ![r] = NoTxn]
  BY DEF Commit, SignIn, Answer
<1>3. \A q \in Requests \ {r} : pc'[q] = pc[q] /\ out'[q] = out[q]
  BY DEF IInv, TypeOK, Commit, SignIn, Answer
<1>4. /\ auths' \subseteq Auth /\ users' \subseteq User
      /\ AuthsHaveUsers'
      /\ \A a \in auths' : a.id <= lastId'
      /\ \A a, b \in auths' : a.id = b.id => a = b
      /\ SameEmail' /\ users \subseteq users'
      /\ \E a \in auths' : a.id = txn[r].auth.id /\ a.email = dto[r].email
      /\ \A q \in Requests : PendingInv(q)'
      /\ \A q \in Requests \ {r} : TxnInv(q)' /\ TokenInv(q)'
  BY <1>1, <1>2, <1>3, AppliedInv
<1>5. txn[r].auth.id \in Ids /\ dto[r] \in SignUpDto
  BY <1>1 DEF IInv, TxnInv, Auth
<1>6. TypeOK'
  <2>1. /\ out' \in [Requests -> Answers]
        /\ txn' \in [Requests -> [auth : Auth \cup {None}, user : User \cup {None}]]
    BY <1>2, <1>5 DEF IInv, TypeOK, Commit, SignIn, Answer, Answers, NoTxn
  <2>2. QED
    BY <1>1, <1>4, <2>1 DEF IInv, TypeOK, Commit, SignIn, Answer
<1>7. TxnInv(r)' /\ TokenInv(r)'
  <2>1. CASE SignIn(r)
    BY <1>1, <1>4, <1>5, <2>1 DEF IInv, TypeOK, SignIn, TxnInv, TokenInv, ConflictInv, Stored
  <2>2. CASE Answer(r, [status |-> "error"])
    BY <1>1, <1>5, <2>2 DEF IInv, TypeOK, Answer, TxnInv, TokenInv, ConflictInv
  <2>3. QED
    BY <2>1, <2>2 DEF Commit
<1>8. QED
  BY <1>4, <1>6, <1>7 DEF IInv

LEMMA ReplyIInv ==
  ASSUME IInv, NEW r \in Requests, Reply(r)
  PROVE  IInv'
<1>1. pc[r] = "reply" /\ out[r].status = "signing" /\ out[r].id \in Ids
  BY DEF IInv, TypeOK, Reply, TokenInv, ConflictInv, Answers
<1>2. TypeOK'
  BY <1>1 DEF IInv, TypeOK, Reply, Answer, Answers, NoTxn, database
<1>3. TxnInv(r)' /\ TokenInv(r)'
  BY <1>1 DEF IInv, TypeOK, Reply, Answer, TxnInv, TokenInv, ConflictInv, Stored, database
<1>4. QED
  BY <1>2, <1>3, SameDatabase DEF IInv, TypeOK, Reply, Answer

LEMMA LostIInv ==
  ASSUME IInv, NEW r \in Requests, Crash(r) \/ Expire(r)
  PROVE  IInv'
<1>1. TypeOK'
  BY DEF IInv, TypeOK, Crash, Expire, Await, NoTxn, database
<1>2. TxnInv(r)' /\ TokenInv(r)'
  BY DEF IInv, TypeOK, Crash, Expire, Await, TxnInv, TokenInv, ConflictInv, database
<1>3. QED
  BY <1>1, <1>2, SameDatabase DEF IInv, TypeOK, Crash, Expire, Await

LEMMA NextIInv == IInv /\ [Next]_vars => IInv'
<1> SUFFICES ASSUME IInv, [Next]_vars PROVE IInv'
  OBVIOUS
<1>1. ASSUME NEW r \in Requests, Receive(r) PROVE IInv'
  BY <1>1, ReceiveIInv
<1>2. ASSUME NEW r \in Requests, FindOne(r) PROVE IInv'
  BY <1>2, FindOneIInv
<1>3. ASSUME NEW r \in Requests, UpsertAuth(r) PROVE IInv'
  BY <1>3, UpsertAuthIInv
<1>4. ASSUME NEW r \in Requests, UpsertUser(r) PROVE IInv'
  BY <1>4, UpsertUserIInv
<1>5. ASSUME NEW r \in Requests, Commit(r) PROVE IInv'
  BY <1>5, CommitIInv
<1>6. ASSUME NEW r \in Requests, Reply(r) PROVE IInv'
  BY <1>6, ReplyIInv
<1>7. ASSUME NEW r \in Requests, Fail(r) PROVE IInv'
  BY <1>7, AnswerIInv DEF Fail
<1>8. ASSUME NEW r \in Requests, Crash(r) \/ Expire(r) PROVE IInv'
  BY <1>8, LostIInv
<1>9. CASE UNCHANGED vars
  BY <1>9 DEF vars, database, IInv, TypeOK, AuthsHaveUsers, SameEmail, TxnInv, PendingInv,
     TokenInv, ConflictInv, Stored, UserIds
<1>10. QED
  BY <1>1, <1>2, <1>3, <1>4, <1>5, <1>6, <1>7, <1>8, <1>9 DEF Next, Step

-----------------------------------------------------------------------------
(* Sign-ups that run alone.                                                *)

(* No other handler runs, so nothing is stored between the look for an     *)
(* account and the commit of a new one.                                    *)
SerialInv ==
  ~overlapped =>
    /\ \A q, r \in Requests : pc[q] # "idle" /\ pc[r] # "idle" => q = r
    /\ \A r \in Requests :
         /\ pc[r] \in {"auth", "user", "commit"} => WithEmail(dto[r].email) = {}
         /\ pc[r] \in {"user", "commit"} => txn[r].auth.id \notin AuthIds

LEMMA InitSerial == Init => SerialInv
BY DEF Init, SerialInv

(* A handler that writes no document leaves the others as they were. *)
LEMMA SerialStep ==
  ASSUME IInv, SerialInv, NEW r \in Requests, UNCHANGED <<auths, overlapped>>,
         pc[r] # "idle",
         \A q \in Requests \ {r} : /\ pc'[q] = pc[q] /\ dto'[q] = dto[q]
                                   /\ txn'[q] = txn[q],
         ~overlapped =>
           /\ pc'[r] \in {"auth", "user", "commit"} => WithEmail(dto'[r].email) = {}
           /\ pc'[r] \in {"user", "commit"} => txn'[r].auth.id \notin AuthIds
  PROVE  SerialInv'
<1>1. \A email : WithEmail(email)' = WithEmail(email)
  BY DEF WithEmail
<1>2. AuthIds' = AuthIds
  BY DEF AuthIds
<1>3. SUFFICES ASSUME ~overlapped PROVE SerialInv'
  BY DEF SerialInv
<1>4. \A q \in Requests \ {r} : pc[q] = "idle" /\ pc'[q] = "idle"
  BY <1>3 DEF SerialInv
<1>5. QED
  BY <1>1, <1>2, <1>3, <1>4 DEF SerialInv

LEMMA ReceiveSerial ==
  ASSUME IInv, SerialInv, NEW r \in Requests, Receive(r)
  PROVE  SerialInv'
<1>1. SUFFICES ASSUME ~overlapped' PROVE SerialInv'
  BY DEF SerialInv
<1>2. \A q \in Requests \ {r} : pc[q] = "idle" /\ pc'[q] = "idle"
  BY <1>1 DEF Receive, IInv, TypeOK
<1>3. pc'[r] = "find"
  BY DEF Receive, IInv, TypeOK
<1>4. QED
  BY <1>2, <1>3 DEF SerialInv

(* An account is found only by a handler that another one has overtaken. *)
LEMMA UpsertAuthSerial ==
  ASSUME IInv, SerialInv, NEW r \in Requests, UpsertAuth(r)
  PROVE  SerialInv'
<1>1. /\ pc[r] = "auth" /\ auths \subseteq Auth /\ UNCHANGED <<auths, overlapped>>
      /\ lastId \in 0 .. MaxAccounts
      /\ \A a \in auths : a.id <= lastId
  BY DEF UpsertAuth, IInv, TypeOK, database, Answer, Await
<1>2. \A q \in Requests \ {r} : pc'[q] = pc[q] /\ dto'[q] = dto[q] /\ txn'[q] = txn[q]
  BY DEF UpsertAuth, IInv, TypeOK, Answer, Await
<1>3. SUFFICES ASSUME ~overlapped
               PROVE  /\ pc'[r] \in {"auth", "user", "commit"} => WithEmail(dto'[r].email) = {}
                      /\ pc'[r] \in {"user", "commit"} => txn'[r].auth.id \notin AuthIds
  BY <1>1, <1>2, SerialStep
<1>4. WithEmail(dto[r].email) = {}
  BY <1>1, <1>3 DEF SerialInv
<1>5. /\ lastId' = lastId + 1
      /\ txn' = [txn EXCEPT ![r].auth = [id |-> lastId', email |-> dto[r].email,
                                         password |-> dto[r].password]]
      /\ dto' = dto
  BY <1>4 DEF UpsertAuth, Await
<1>6. txn'[r].auth.id = lastId + 1
  BY <1>5 DEF IInv, TypeOK
<1>7. lastId + 1 \notin AuthIds
  BY <1>1, MaxAccountsAssumption DEF AuthIds, Auth, Ids
<1>8. QED
  BY <1>4, <1>5, <1>6, <1>7

LEMMA OtherSerial ==
  ASSUME IInv, SerialInv, NEW r \in Requests,
         FindOne(r) \/ UpsertUser(r) \/ Reply(r) \/ Fail(r) \/ Crash(r) \/ Expire(r)
  PROVE  SerialInv'
<1>1. UNCHANGED <<auths, overlapped>> /\ pc[r] # "idle"
  BY DEF FindOne, UpsertUser, Reply, Fail, Crash, Expire, Answer, Await, database
<1>2. \A q \in Requests \ {r} : pc'[q] = pc[q] /\ dto'[q] = dto[q] /\ txn'[q] = txn[q]
  BY DEF FindOne, UpsertUser, Reply, Fail, Crash, Expire, Answer, Await, IInv, TypeOK
<1>3. CASE FindOne(r)
  <2>1. pc'[r] = "auth" => WithEmail(dto'[r].email) = {}
    BY <1>3 DEF FindOne, Answer, Await, IInv, TypeOK
  <2>2. pc'[r] \notin {"user", "commit"}
    BY <1>3 DEF FindOne, Answer, Await, IInv, TypeOK
  <2>3. QED
    BY <1>1, <1>2, <2>1, <2>2, SerialStep
<1>4. CASE UpsertUser(r)
  <2>1. pc[r] = "user" /\ txn'[r].auth = txn[r].auth /\ dto' = dto
    BY <1>4 DEF UpsertUser, Await, IInv, TypeOK
  <2>2. QED
    BY <1>1, <1>2, <2>1, SerialStep DEF SerialInv
<1>5. CASE Reply(r) \/ Fail(r) \/ Crash(r) \/ Expire(r)
  <2>1. pc'[r] \notin {"auth", "user", "commit"}
    BY <1>5 DEF Reply, Fail, Crash, Expire, Answer, Await, IInv, TypeOK
  <2>2. QED
    BY <1>1, <1>2, <2>1, SerialStep
<1>6. QED
  BY <1>3, <1>4, <1>5

LEMMA CommitSerial ==
  ASSUME IInv, SerialInv, NEW r \in Requests, Commit(r)
  PROVE  SerialInv'
<1>1. /\ pc[r] = "commit" /\ UNCHANGED overlapped
      /\ pc'[r] \notin {"auth", "user", "commit"}
      /\ \A q \in Requests \ {r} : pc'[q] = pc[q]
  BY DEF Commit, SignIn, Answer, IInv, TypeOK
<1>2. SUFFICES ASSUME ~overlapped PROVE SerialInv'
  BY <1>1 DEF SerialInv
<1>3. \A q \in Requests \ {r} : pc'[q] = "idle"
  BY <1>1, <1>2 DEF SerialInv
<1>4. QED
  BY <1>1, <1>3 DEF SerialInv

LEMMA NextSerial == IInv /\ SerialInv /\ [Next]_vars => SerialInv'
<1> SUFFICES ASSUME IInv, SerialInv, [Next]_vars PROVE SerialInv'
  OBVIOUS
<1>1. ASSUME NEW r \in Requests, Receive(r) PROVE SerialInv'
  BY <1>1, ReceiveSerial
<1>2. ASSUME NEW r \in Requests, UpsertAuth(r) PROVE SerialInv'
  BY <1>2, UpsertAuthSerial
<1>3. ASSUME NEW r \in Requests, Commit(r) PROVE SerialInv'
  BY <1>3, CommitSerial
<1>4. ASSUME NEW r \in Requests,
             FindOne(r) \/ UpsertUser(r) \/ Reply(r) \/ Fail(r) \/ Crash(r) \/ Expire(r)
      PROVE  SerialInv'
  BY <1>4, OtherSerial
<1>5. CASE UNCHANGED vars
  BY <1>5 DEF vars, database, SerialInv, WithEmail, AuthIds
<1>6. QED
  BY <1>1, <1>2, <1>3, <1>4, <1>5 DEF Next, Step

(* The commit of a sign-up that ran alone registers its email. *)
LEMMA CommitRegisters ==
  ASSUME IInv, SerialInv, NEW r \in Requests, Commit(r), ~overlapped
  PROVE  Registry!RegistryNext
<1> DEFINE t == txn[r].auth
<1>1. /\ pc[r] = "commit" /\ t \in Auth /\ t.email = dto[r].email
      /\ t.id \notin AuthIds /\ WithEmail(dto[r].email) = {}
  BY DEF Commit, IInv, TxnInv, SerialInv
<1>2. auths' = {a \in auths : a.id # t.id} \cup {t}
  BY DEF Commit, Applied
<1> HIDE DEF t
<1>3. auths' = auths \cup {t}
  BY <1>1, <1>2 DEF AuthIds
<1>4. Registered' = Registered \cup {[email |-> t.email, password |-> t.password]}
  BY <1>3 DEF Registered
<1>5. \A a \in Registered : a.email # t.email
  BY <1>1 DEF Registered, WithEmail
<1>6. t.email \in Emails \cup {None} /\ t.password \in Passwords
  BY <1>1 DEF Auth
<1>7. Registry!Register(t.email, t.password)
  BY <1>4, <1>5 DEF Registry!Register
<1>8. QED
  BY <1>6, <1>7 DEF Registry!RegistryNext

LEMMA StepRegisters ==
  ASSUME IInv, SerialInv, [Next]_vars
  PROVE  [overlapped' \/ Registry!RegistryNext]_Registered
<1>1. ASSUME NEW r \in Requests, Commit(r)
      PROVE  overlapped' \/ Registry!RegistryNext
  BY <1>1, CommitRegisters DEF Commit, SignIn, Answer
<1>2. ASSUME NEW r \in Requests,
             \/ Receive(r) \/ FindOne(r) \/ UpsertAuth(r) \/ UpsertUser(r)
             \/ Reply(r) \/ Fail(r) \/ Crash(r) \/ Expire(r)
      PROVE  UNCHANGED auths
  BY <1>2 DEF Receive, FindOne, UpsertAuth, UpsertUser, Reply, Fail, Crash, Expire, database
<1>3. UNCHANGED vars => UNCHANGED auths
  BY DEF vars, database
<1>4. UNCHANGED auths => UNCHANGED Registered
  BY DEF Registered
<1>5. QED
  BY <1>1, <1>2, <1>3, <1>4 DEF Next, Step

-----------------------------------------------------------------------------
(* The results.                                                            *)

LEMMA SpecIInv == Spec => []IInv
BY InitIInv, NextIInv, PTL DEF Spec

(* Every step of signUp keeps the documents, the transactions and the      *)
(* answers well-formed (auth.service.ts:44-101).                           *)
THEOREM TypeCorrect == Spec => []TypeOK
<1>1. IInv => TypeOK
  BY DEF IInv
<1>2. QED
  BY <1>1, SpecIInv, PTL

(* However many sign-ups race, fail, crash or lose their commit, there is  *)
(* an Auth document for a User document and a User for an Auth: the        *)
(* transaction of auth.service.ts:65-93 never stores one of them alone.    *)
THEOREM AuthsAlwaysHaveUsers == Spec => []AuthsHaveUsers
<1>1. IInv => AuthsHaveUsers
  BY DEF IInv
<1>2. QED
  BY <1>1, SpecIInv, PTL

(* A client that got a token (auth.service.ts:94) has an account with its  *)
(* email, and later sign-ups never take it away or give it another email.  *)
THEOREM TokensNameAccounts == Spec => []TokenNamesAccount
<1>1. IInv => TokenNamesAccount
  BY DEF IInv, TokenInv, ConflictInv, Stored, TokenNamesAccount
<1>2. QED
  BY <1>1, SpecIInv, PTL

(* A sign-up with an email is refused only for a stored user with that     *)
(* email: the Auth document found outside the transaction has its User     *)
(* document, with the same email (auth.service.ts:52-57).                  *)
THEOREM ConflictsNameUsers == Spec => []ConflictsAreReal
<1>1. IInv => ConflictsAreReal
  BY DEF IInv, TokenInv, ConflictInv, ConflictsAreReal
<1>2. QED
  BY <1>1, SpecIInv, PTL

(* A sign-up that runs alone registers an email nobody has and touches no  *)
(* other account, wherever it fails (auth.service.ts:52-93): what two of   *)
(* them break, they break by overlapping.                                  *)
THEOREM SerialSignUpsRegister == Spec => KeepsRegistry
<1>1. Init => Registry!RegistryInit
  BY DEF Init, Registered, Registry!RegistryInit
<1>2. IInv /\ SerialInv /\ [Next]_vars
        => [overlapped' \/ Registry!RegistryNext]_Registered
  BY StepRegisters
<1>3. Spec => []SerialInv
  BY InitSerial, NextSerial, SpecIInv, PTL DEF Spec
<1>4. QED
  BY <1>1, <1>2, <1>3, SpecIInv, PTL DEF Spec, KeepsRegistry
=============================================================================
