------------------------------- MODULE SignUp -------------------------------
(***************************************************************************)
(* AuthService.signUp, run by several clients at the same time.            *)
(*                                                                         *)
(* The existing account is looked for before the transaction is opened.    *)
(* The transaction then upserts the Auth document by email and the User    *)
(* document by the id of the first; MongoDB runs it on a snapshot taken at *)
(* its first operation and refuses a write to a document that another open *)
(* transaction has written.  No index keeps emails unique.                 *)
(*                                                                         *)
(* A sign-up by mobile number has no email: the filter {email: undefined}  *)
(* reaches MongoDB as {email: null}, so None is one more email here.       *)
(*                                                                         *)
(* A handler whose process dies leaves its transaction open until MongoDB  *)
(* expires it; one that throws aborts it.                                  *)
(***************************************************************************)
EXTENDS Integers, FiniteSets

CONSTANTS Requests,    \* sign-ups that may run at the same time
          Emails,
          Mobiles,
          Passwords,
          MaxAccounts, \* bound: accounts ever created
          None         \* undefined

Ids == 1 .. MaxAccounts

VARIABLES
  auths,  \* committed Auth documents
  users,  \* committed User documents
  pc,     \* what each handler is waiting for
  dto,    \* the SignUpDto each handler serves
  txn,    \* the uncommitted writes of each handler's transaction
  out,    \* the last answer of each handler, "signing" until it is sent
  lastId, \* the last id MongoDB gave
  overlapped \* history: the last sign-up that began was not alone

database == <<auths, users>>
vars     == <<database, pc, dto, txn, out, lastId, overlapped>>

SignUpDto == { d \in [email : Emails \cup {None}, mobile : Mobiles \cup {None},
                      password : Passwords] : d.email = None => d.mobile # None }

Auth == [id : Ids, email : Emails \cup {None}, password : Passwords]
User == [id : Ids, email : Emails \cup {None}, mobile : Mobiles \cup {None}]
NoTxn == [auth |-> None, user |-> None]

Answers == [status : {"none", "conflict", "error"}]
           \cup [status : {"signing", "ok"}, id : Ids]

ASSUME MaxAccountsAssumption == MaxAccounts \in Nat
ASSUME NoneAssumption == /\ None \notin Emails \cup Mobiles
                         /\ None \notin SignUpDto \cup Auth \cup User

-----------------------------------------------------------------------------

Init == /\ auths = {} /\ users = {}
        /\ pc  = [r \in Requests |-> "idle"]
        /\ dto = [r \in Requests |-> None]
        /\ txn = [r \in Requests |-> NoTxn]
        /\ out = [r \in Requests |-> [status |-> "none"]]
        /\ lastId = 0
        /\ overlapped = FALSE

(* Handler r ends with an answer; what it did not commit is gone. *)
Answer(r, answer) == /\ pc'  = [pc EXCEPT ![r] = "idle"]
                     /\ txn' = [txn EXCEPT ![r] = NoTxn]
                     /\ out' = [out EXCEPT ![r] = answer]
                     /\ UNCHANGED <<dto, overlapped>>

Await(r, step) == /\ pc' = [pc EXCEPT ![r] = step]
                  /\ UNCHANGED <<dto, out, overlapped>>

Receive(r) ==
  /\ pc[r] = "idle"
  /\ \E d \in SignUpDto : dto' = [dto EXCEPT ![r] = d]
  /\ pc'  = [pc EXCEPT ![r] = "find"]
  /\ out' = [out EXCEPT ![r] = [status |-> "none"]]
  /\ overlapped' = \E q \in Requests \ {r} : pc[q] # "idle"
  /\ UNCHANGED <<database, txn, lastId>>

WithEmail(email) == {a \in auths : a.email = email}

(* Mutant of FindOne: the account found is not a reason to stop. *)
FindOneIgnored(r) ==
  /\ pc[r] = "find"
  /\ Await(r, "auth")
  /\ UNCHANGED <<database, txn, lastId>>

(* findOne({ email }), outside the transaction *)
FindOne(r) ==
  /\ pc[r] = "find"
  /\ \/ /\ WithEmail(dto[r].email) # {}
        /\ Answer(r, [status |-> "conflict"])
     \/ /\ WithEmail(dto[r].email) = {}
        /\ Await(r, "auth")
        /\ UNCHANGED txn
  /\ UNCHANGED <<database, lastId>>

(* The documents written by the open transactions of other handlers. *)
WrittenByOthers(r) == {txn[q].auth.id : q \in {p \in Requests \ {r} : txn[p].auth # None}}

(* findOneAndUpdate with upsert, the first operation of the transaction:   *)
(* insert, update the document that has the email by now, or conflict.     *)
UpsertAuth(r) ==
  /\ pc[r] = "auth"
  /\ LET d == dto[r] IN
       \/ /\ WithEmail(d.email) = {}
          /\ lastId < MaxAccounts
          /\ lastId' = lastId + 1
          /\ txn' = [txn EXCEPT ![r].auth =
                       [id |-> lastId', email |-> d.email, password |-> d.password]]
          /\ Await(r, "user")
       \/ \E a \in WithEmail(d.email) :
            /\ a.id \notin WrittenByOthers(r)
            /\ txn' = [txn EXCEPT ![r].auth = [a EXCEPT !.password = d.password]]
            /\ Await(r, "user")
            /\ UNCHANGED lastId
       \/ \E a \in WithEmail(d.email) :
            /\ a.id \in WrittenByOthers(r)
            /\ Answer(r, [status |-> "error"])
            /\ UNCHANGED lastId
  /\ UNCHANGED database

(* Mutant of NewUser: the user is given the mobile number only. *)
NewUserWithoutEmail(r) == [id |-> txn[r].auth.id, email |-> None, mobile |-> dto[r].mobile]

(* Mutant of NewUser: the document is not given the id of the account. *)
NewUserWithoutId(r) == [id |-> None, email |-> dto[r].email, mobile |-> dto[r].mobile]

(* The User document of the account. *)
NewUser(r) == [id |-> txn[r].auth.id, email |-> dto[r].email, mobile |-> dto[r].mobile]

(* Mutant of UpsertUser: the session is not passed on. *)
UpsertUserNoSession(r) ==
  /\ pc[r] = "user"
  /\ users' = users \cup {NewUser(r)}
  /\ Await(r, "commit")
  /\ UNCHANGED <<auths, txn, lastId>>

(* findOneAndUpdate with $setOnInsert only: a user that exists stays. *)
UpsertUser(r) ==
  /\ pc[r] = "user"
  /\ txn' = IF \E u \in users : u.id = txn[r].auth.id THEN txn
            ELSE [txn EXCEPT ![r].user = NewUser(r)]
  /\ Await(r, "commit")
  /\ UNCHANGED <<database, lastId>>

Applied(r) ==
  LET t == txn[r] IN
    /\ auths' = {a \in auths : a.id # t.auth.id} \cup {t.auth}
    /\ users' = IF t.user = None THEN users ELSE users \cup {t.user}

(* The transaction is over and auth, with its _id, goes to signIn. *)
SignIn(r) == /\ pc'  = [pc EXCEPT ![r] = "reply"]
             /\ txn' = [txn EXCEPT ![r] = NoTxn]
             /\ out' = [out EXCEPT ![r] = [status |-> "signing", id |-> txn[r].auth.id]]
             /\ UNCHANGED <<dto, overlapped>>

(* Mutant of Commit: commitTransaction is not awaited. *)
CommitNotAwaited(r) ==
  /\ pc[r] = "commit"
  /\ Applied(r) \/ UNCHANGED database
  /\ SignIn(r)
  /\ UNCHANGED lastId

(* commitTransaction.  When it fails, with or without having taken effect, *)
(* so does the abortTransaction of the catch block.                        *)
Commit(r) ==
  /\ pc[r] = "commit"
  /\ \/ Applied(r) /\ SignIn(r)
     \/ Applied(r) /\ Answer(r, [status |-> "error"])
  /\ UNCHANGED lastId

(* endSession, then the answer of the controller *)
Reply(r) ==
  /\ pc[r] = "reply"
  /\ Answer(r, [status |-> "ok", id |-> out[r].id])
  /\ UNCHANGED <<database, lastId>>

(* An awaited call throws: abortTransaction, and an error for an answer. *)
Fail(r) ==
  /\ pc[r] \notin {"idle", "lost"}
  /\ Answer(r, [status |-> "error"])
  /\ UNCHANGED <<database, lastId>>

(* The process dies: its transaction stays open. *)
Crash(r) ==
  /\ pc[r] \notin {"idle", "lost"}
  /\ Await(r, "lost")
  /\ UNCHANGED <<database, txn, lastId>>

(* MongoDB aborts the transaction of a lost session. *)
Expire(r) ==
  /\ pc[r] = "lost"
  /\ pc'  = [pc EXCEPT ![r] = "idle"]
  /\ txn' = [txn EXCEPT ![r] = NoTxn]
  /\ UNCHANGED <<database, dto, out, lastId, overlapped>>

Step(r) == FindOne(r) \/ UpsertAuth(r) \/ UpsertUser(r) \/ Commit(r) \/ Reply(r)

Next == \E r \in Requests : Receive(r) \/ Step(r) \/ Fail(r) \/ Crash(r) \/ Expire(r)

Spec == Init /\ [][Next]_vars

-----------------------------------------------------------------------------
(* Properties.                                                             *)

(* The variables hold what the schemas and the handlers allow. *)
TypeOK ==
  /\ auths \subseteq Auth /\ users \subseteq User
  /\ pc \in [Requests -> {"idle", "find", "auth", "user", "commit", "reply", "lost"}]
  /\ dto \in [Requests -> SignUpDto \cup {None}]
  /\ txn \in [Requests -> [auth : Auth \cup {None}, user : User \cup {None}]]
  /\ out \in [Requests -> Answers]
  /\ lastId \in 0 .. MaxAccounts
  /\ overlapped \in BOOLEAN

(* Whatever fails, and whichever sign-ups run at the same time, an account *)
(* has its Auth and its User document or neither: the transaction of       *)
(* auth.service.ts:65-93 covers both.                                      *)
AuthsHaveUsers == {a.id : a \in auths} = {u.id : u \in users}

(* The token of an answered sign-up (auth.service.ts:93-94, 222-231) names *)
(* an account that is stored, with the email that signed up.               *)
TokenNamesAccount ==
  \A r \in Requests : out[r].status = "ok" =>
    \E a \in auths : a.id = out[r].id /\ a.email = dto[r].email

(* auth.schema.ts:78 names email as unique, and sign-up.e2e-spec.ts:89-101 *)
(* expects 409 for an account that already exists.                         *)
OneAccountPerEmail ==
  \A a, b \in auths : a.email = b.email /\ a.email # None => a = b

(* lang/en.ts:21: a sign-up is refused because a user with its credential, *)
(* an email or a mobile number, already exists.                            *)
ConflictNamesDuplicate ==
  \A r \in Requests : out[r].status = "conflict" =>
    \E u \in users : \/ u.email = dto[r].email /\ u.email # None
                     \/ u.mobile = dto[r].mobile /\ u.mobile # None

(* The true part of that answer: a sign-up with an email is refused only   *)
(* if a user with that email is stored, although what is looked for,       *)
(* outside any transaction, is its Auth document (auth.service.ts:52-57).  *)
ConflictsAreReal ==
  \A r \in Requests : out[r].status = "conflict" /\ dto[r].email # None =>
    \E u \in users : u.email = dto[r].email

(* The accounts, read as the registry of module AccountRegistry. *)
Registered == {[email |-> a.email, password |-> a.password] : a \in auths}

Registry == INSTANCE AccountRegistry WITH
  Emails <- Emails \cup {None}, registered <- Registered

(* A sign-up that runs alone registers an email nobody has or changes no   *)
(* account, whichever of its steps fails and whatever overlapping sign-ups *)
(* have stored before it (auth.service.ts:52-93).                          *)
KeepsRegistry ==
  Registry!RegistryInit /\ [][overlapped' \/ Registry!RegistryNext]_Registered
=============================================================================
