------------------------ MODULE CrudResourceProofs ------------------------
(***************************************************************************)
(* Type correctness of the CRUD base, that a soft deletion is final, that  *)
(* what handlers answer was true while their requests ran, and that        *)
(* requests which do not overlap implement Resource.                       *)
(*                                                                         *)
(* TypeOK is not inductive: a handler writes to the document it has found, *)
(* so what it holds must fit the step it is at (Protocol), and the         *)
(* document must be one that the collection has had (ids up to lastId).    *)
(***************************************************************************)
EXTENDS CrudResource, TLAPS

ObjectOps == {"findOne", "remove", "patch", "update"}

Types ==
  /\ config \in Configs
  /\ docs \in [Ids -> Document \cup {None}]
  /\ pc \in [Requests -> Steps]
  /\ call \in [Requests -> Calls \cup {NoCall}]
  /\ held \in [Requests -> Found \cup {None}]
  /\ out \in [Requests -> Answers \cup {None}]
  /\ lastId \in 0 .. MaxDocs
  /\ overlapped \in BOOLEAN

Seen == seen \in [Requests -> SUBSET (Values \cup {None, "free", "taken"})]

(* What handler r serves and holds at each step. *)
Protocol(r) ==
  /\ pc[r] \in {"idle", "object"} => held[r] = None
  /\ pc[r] \in {"create", "insert"} => call[r].op = "create"
  /\ pc[r] = "object" => call[r].op \in ObjectOps
  /\ pc[r] = "save"   => call[r].op = "patch"
  /\ pc[r] = "upsert" => call[r].op = "update"
  /\ pc[r] = "delete" => call[r].op = "remove"
  /\ pc[r] \in {"save", "upsert", "delete"} => held[r] \in Found
  /\ pc[r] = "upsert" /\ call[r].by = "_id" => held[r].id = call[r].id /\ call[r].id <= lastId
  /\ pc[r] = "delete" /\ config.softDelete => docs[held[r].id] # None

(* No document has an id yet to be given. *)
Collection == \A i \in Ids : i > lastId => docs[i] = None

Core == Types /\ Collection /\ \A r \in Requests : Protocol(r)

IInv == Core /\ Seen

(* What a resource that deletes softly has, it keeps. *)
Kept == /\ lastId <= lastId'
        /\ config.softDelete => \A i \in Ids : docs[i] # None => docs'[i] # None

-----------------------------------------------------------------------------

LEMMA CallTypes ==
  ASSUME NEW c \in Calls
  PROVE  /\ c.op \in {"create"} \cup ObjectOps
         /\ c.op = "create" => c \in Create
         /\ c.op \in {"patch", "update"} => c \in Updates
         /\ c.op \in {"findOne", "remove"} => c \in ById
  BY CallsAssumption DEF Create, ById, Updates, ObjectOps

(* What an update takes from its body, and what it makes of a document.    *)
Bodies == [key : Keys \cup {None}, value : Values, deleted : Flags]

LEMMA BodyType ==
  ASSUME NEW c \in Updates
  PROVE  /\ Body(c) \in Bodies /\ Body(c).value = c.value
         /\ Body(c).deleted = "false" => ~config.updateFillables /\ c.deleted = "false"
         /\ ~Unpicked(c) => Body(c).key = None /\ Body(c).deleted = "absent"
  BY DEF Updates, Bodies, Body, Flags, Unpicked

LEMMA FillType ==
  ASSUME NEW d \in Document, NEW b \in Bodies
  PROVE  /\ Fill(d, b) \in Document /\ Fill(d, b).value = b.value
         /\ d.deleted /\ b.deleted # "false" => Fill(d, b).deleted
         /\ b.deleted = "absent" => (Fill(d, b).deleted <=> d.deleted)
         /\ b.key = None => Fill(d, b).key = d.key
  BY DEF Document, Bodies, Flags, Fill

LEMMA SaveType ==
  ASSUME NEW d \in Document, NEW b \in Bodies, NEW h \in Found
  PROVE  /\ Save(d, b, h) \in Document
         /\ b.value # h.value => Save(d, b, h).value = b.value
         /\ d.deleted /\ b.deleted # "false" => Save(d, b, h).deleted
         /\ b.deleted = "absent" => (Save(d, b, h).deleted <=> d.deleted)
         /\ b.key = None => Save(d, b, h).key = d.key
<1> DEFINE e == [b EXCEPT !.key   = IF b.key = h.key THEN None ELSE b.key,
                          !.value = IF b.value = h.value THEN d.value ELSE b.value]
<1>1. /\ e \in Bodies /\ e.deleted = b.deleted /\ (b.key = None => e.key = None)
      /\ b.value # h.value => e.value = b.value
  BY DEF Bodies, Document
<1>2. Save(d, b, h) = Fill(d, e)
  BY DEF Save
<1> HIDE DEF e
<1> QED BY <1>1, <1>2, FillType

(* What a request sees has the type of a history. *)
LEMMA SightType ==
  ASSUME NEW d \in [Ids -> Document \cup {None}], NEW c \in Calls \cup {NoCall}, 
         NEW h \in Found \cup {None}
  PROVE  Sight(d, c, h) \subseteq Values \cup {None, "free", "taken"}
<1> DEFINE target == IF h = None THEN Named(d, c) ELSE {h.id}
<1>1. CASE c.op = "create"
  BY <1>1 DEF Sight
<1>2. CASE c.op \in ObjectOps
  <2>1. target \subseteq Ids
    BY <1>2 DEF Named, Found, ObjectOps
  <2>2. \A i \in target : d[i] # None => d[i].value \in Values
    BY <2>1 DEF Document
  <2>3. Sight(d, c, h) = {d[i].value : i \in {j \in target : d[j] # None}}
                         \cup (IF \E i \in target : Live(d, i) THEN {} ELSE {None})
    BY <1>2 DEF Sight, ObjectOps
  <2> QED BY <2>2, <2>3
<1>3. CASE c.op = "none"
  BY <1>3 DEF Sight
<1> QED BY <1>1, <1>2, <1>3, CallTypes DEF NoCall

LEMMA InitIInv == Init => IInv
<1> SUFFICES ASSUME Init PROVE IInv
  OBVIOUS
<1>1. Types
  <2>1. overlapped \in BOOLEAN
    BY Zenon DEF Init
  <2> QED BY <2>1, BoundAssumption DEF Init, Types, Steps
<1>2. Seen
  BY DEF Init, Seen
<1>3. Collection
  BY DEF Init, Collection
<1>4. ASSUME NEW r \in Requests PROVE Protocol(r)
  BY DEF Init, Protocol, NoCall
<1> QED BY <1>1, <1>2, <1>3, <1>4 DEF IInv, Core

-----------------------------------------------------------------------------
(* A step of one handler leaves the others' part of the invariant alone.   *)
LEMMA OthersProtocol ==
  ASSUME Core, NEW r \in Requests, Kept, UNCHANGED config, lastId' \in 0 .. MaxDocs,
         \A q \in Requests \ {r} : pc'[q] = pc[q] /\ call'[q] = call[q] /\ held'[q] = held[q]
  PROVE  \A q \in Requests \ {r} : Protocol(q)'
<1> SUFFICES ASSUME NEW q \in Requests \ {r} PROVE Protocol(q)'
  OBVIOUS
<1>1. Protocol(q) /\ Types
  BY DEF Core
<1>2. call'[q].by = "_id" /\ pc'[q] = "upsert" => call'[q].id <= lastId'
  <2>1. SUFFICES ASSUME call[q].by = "_id", pc[q] = "upsert" PROVE call[q].id <= lastId'
    OBVIOUS
  <2>2. call[q].id \in Int
    BY <1>1, <2>1, CallTypes, BoundAssumption DEF Types, Protocol, NoCall, Updates, Ids
  <2>3. QED
    BY <1>1, <2>1, <2>2, BoundAssumption DEF Kept, Protocol, Types
<1>3. pc'[q] = "delete" /\ config'.softDelete => docs'[held'[q].id] # None
  BY <1>1 DEF Kept, Protocol, Found
<1> QED BY <1>1, <1>2, <1>3 DEF Protocol

(* A handler has its answer. *)
LEMMA AnswerCore ==
  ASSUME Core, NEW r \in Requests, pc[r] # "idle", NEW answer \in Answers,
         Answer(r, answer), Kept, UNCHANGED <<config, overlapped>>,
         lastId' \in 0 .. MaxDocs, docs' \in [Ids -> Document \cup {None}], Collection'
  PROVE  Core'
<1>1. Types'
  <2>1. overlapped' \in BOOLEAN
    BY Zenon DEF Core, Types
  <2>2. QED
    BY <2>1 DEF Core, Types, Answer, Steps
<1>2. Protocol(r)'
  BY DEF Core, Types, Answer, Protocol
<1>3. \A q \in Requests \ {r} : Protocol(q)'
  <2>1. \A q \in Requests \ {r} : pc'[q] = pc[q] /\ call'[q] = call[q] /\ held'[q] = held[q]
    BY DEF Core, Types, Answer
  <2>2. QED
    BY <2>1, OthersProtocol
<1> QED BY <1>1, <1>2, <1>3 DEF Core

LEMMA ReceiveCore ==
  ASSUME Core, NEW r \in Requests, Receive(r), UNCHANGED config
  PROVE  Core'
<1>1. PICK c \in Calls :
        /\ call' = [call EXCEPT ![r] = c]
        /\ pc' = [pc EXCEPT ![r] = IF c.op = "create" THEN "create" ELSE "object"]
  BY DEF Receive
<1>2. Types'
  <2>1. overlapped' \in BOOLEAN
    <3>1. overlapped \in BOOLEAN
      BY DEF Core, Types
    <3>2. QED
      BY <3>1, Zenon DEF Receive
  <2>2. QED
    BY <1>1, <2>1, CallTypes DEF Core, Types, Receive, Steps
<1>3. Protocol(r)'
  BY <1>1, CallTypes DEF Core, Types, Receive, Protocol
<1>4. \A q \in Requests \ {r} : Protocol(q)'
  <2>1. \A q \in Requests \ {r} : pc'[q] = pc[q] /\ call'[q] = call[q] /\ held'[q] = held[q]
    BY <1>1 DEF Core, Types, Receive
  <2>2. QED
    BY <2>1, OthersProtocol, BoundAssumption DEF Receive, Kept, Core, Types
<1> QED BY <1>2, <1>3, <1>4 DEF Core, Collection, Receive

LEMMA FinishCore ==
  ASSUME Core, NEW r \in Requests, Finish(r), UNCHANGED config
  PROVE  Core'
<1>1. Types'
  <2>1. overlapped' \in BOOLEAN
    BY Zenon DEF Core, Types, Finish
  <2>2. QED
    BY <2>1 DEF Core, Types, Finish, Steps
<1>2. Protocol(r)'
  BY DEF Core, Types, Finish, Protocol, NoCall
<1>3. \A q \in Requests \ {r} : Protocol(q)'
  <2>1. \A q \in Requests \ {r} : pc'[q] = pc[q] /\ call'[q] = call[q] /\ held'[q] = held[q]
    BY DEF Core, Types, Finish
  <2>2. QED
    BY <2>1, OthersProtocol, BoundAssumption DEF Finish, Kept, Core, Types
<1> QED BY <1>1, <1>2, <1>3 DEF Core, Collection, Finish

(* A handler awaits its next step with what it has found. *)
LEMMA AwaitCore ==
  ASSUME Core, NEW r \in Requests, NEW step \in Steps, Await(r, step),
         NEW h \in Found \cup {None}, held' = [held EXCEPT ![r] = h],
         UNCHANGED <<config, docs, lastId, overlapped>>, Protocol(r)'
  PROVE  Core'
<1>1. Types'
  <2>1. overlapped' \in BOOLEAN
    BY Zenon DEF Core, Types
  <2>2. QED
    BY <2>1 DEF Core, Types, Await
<1>2. \A q \in Requests \ {r} : Protocol(q)'
  <2>1. \A q \in Requests \ {r} : pc'[q] = pc[q] /\ call'[q] = call[q] /\ held'[q] = held[q]
    BY DEF Core, Types, Await
  <2>2. QED
    BY <2>1, OthersProtocol, BoundAssumption DEF Kept, Core, Types
<1> QED BY <1>1, <1>2 DEF Core, Collection

LEMMA RetrieveExistingCore ==
  ASSUME Core, NEW r \in Requests, RetrieveExisting(r), UNCHANGED config
  PROVE  Core'
<1>1. UNCHANGED <<docs, lastId, overlapped>>
  BY DEF RetrieveExisting
<1>2. Kept /\ Collection' /\ lastId' \in 0 .. MaxDocs /\ docs' \in [Ids -> Document \cup {None}]
  BY <1>1, BoundAssumption DEF Core, Types, Kept, Collection
<1>3. ASSUME Await(r, "insert"), UNCHANGED held PROVE Core'
  <2>1. held' = [held EXCEPT ![r] = held[r]] /\ held[r] \in Found \cup {None}
    BY <1>3 DEF Core, Types
  <2>2. Protocol(r)'
    BY <1>3 DEF Core, Types, Protocol, Await, RetrieveExisting
  <2>3. QED
    BY <1>1, <1>3, <2>1, <2>2, AwaitCore DEF Steps
<1>4. ASSUME Answer(r, Failed("conflict")) PROVE Core'
  <2>1. Failed("conflict") \in Answers
    BY DEF Answers, Failed
  <2>2. QED
    BY <1>1, <1>2, <1>4, <2>1, AnswerCore DEF RetrieveExisting
<1>5. ASSUME NEW i \in Existing(docs, call[r].key),
             Answer(r, [status |-> "duplicate", value |-> docs[i].value])
      PROVE  Core'
  <2>1. docs[i].value \in Values
    BY DEF Existing, LiveDocs, Live, Core, Types, Document
  <2>2. [status |-> "duplicate", value |-> docs[i].value] \in Answers
    BY <2>1 DEF Answers
  <2>3. QED
    BY <1>1, <1>2, <1>5, <2>2, AnswerCore DEF RetrieveExisting
<1> QED BY <1>3, <1>4, <1>5 DEF RetrieveExisting

LEMMA InsertCore ==
  ASSUME Core, NEW r \in Requests, Insert(r), UNCHANGED config
  PROVE  Core'
<1>1. call[r] \in Create
  BY CallTypes DEF Insert, Core, Types, Protocol, NoCall
<1>2. lastId' \in Ids /\ lastId' = lastId + 1 /\ lastId \in Int
  BY BoundAssumption DEF Insert, Core, Types, Ids
<1> DEFINE new == [publicId |-> lastId', key |-> call[r].key, value |-> call[r].value,
                   deleted |-> ~config.fillables /\ call[r].deleted = "true"]
<1>3. new \in Document
  BY <1>1, <1>2 DEF Document, Create
<1>4. docs' = [docs EXCEPT ![lastId'] = new]
  BY DEF Insert
<1> HIDE DEF new
<1>7. docs' \in [Ids -> Document \cup {None}]
  BY <1>3, <1>4 DEF Core, Types
<1>8. Kept
  BY <1>2, <1>3, <1>4, NoneAssumption DEF Kept, Core, Types
<1>5. Collection'
  BY <1>2, BoundAssumption DEF Collection, Insert, Core, Types, Ids
<1>6. Ok(call[r].value) \in Answers
  BY <1>1 DEF Ok, Answers, Create
<1>9. pc[r] # "idle" /\ lastId' \in 0 .. MaxDocs
  BY <1>2, BoundAssumption DEF Insert, Ids
<1>10. Answer(r, Ok(call[r].value)) /\ UNCHANGED <<config, overlapped>>
  BY Zenon DEF Insert
<1> QED BY <1>5, <1>6, <1>7, <1>8, <1>9, <1>10, AnswerCore

LEMMA FindObjectCore ==
  ASSUME Core, NEW r \in Requests, FindObject(r), UNCHANGED config
  PROVE  Core'
<1> DEFINE c     == call[r]
           found == {i \in Named(docs, c) : Live(docs, i)}
<1>1. UNCHANGED <<config, docs, lastId, overlapped>>
  BY Zenon DEF FindObject
<1>2. Kept /\ Collection' /\ lastId' \in 0 .. MaxDocs /\ docs' \in [Ids -> Document \cup {None}]
  BY <1>1, BoundAssumption DEF Core, Types, Kept, Collection
<1>3. c.op \in ObjectOps
  BY DEF FindObject, Core, Protocol
<1>4. \A i \in found : /\ i \in Ids /\ docs[i] # None /\ docs[i].value \in Values
                       /\ docs[i].key \in Keys \cup {None}
                       /\ i <= lastId
                       /\ c.by = "_id" => i = c.id
  BY BoundAssumption DEF Core, Types, Collection, Named, Live, Document, Ids
<1>5. ASSUME NEW answer \in Answers, Answer(r, answer) PROVE Core'
  BY <1>1, <1>2, <1>5, AnswerCore DEF FindObject
<1>6. ASSUME NEW i \in found, c.op # "findOne", Await(r, NextStep(c.op)),
             held' = [held EXCEPT ![r] = [id |-> i, key |-> docs[i].key, value |-> docs[i].value]]
      PROVE  Core'
  <2>1. NextStep(c.op) \in Steps
    BY <1>3, <1>6 DEF NextStep, Steps, ObjectOps
  <2>2. [id |-> i, key |-> docs[i].key, value |-> docs[i].value] \in Found
    BY <1>4 DEF Found
  <2>3. Protocol(r)'
    <3>1. pc'[r] = NextStep(c.op) /\ call'[r] = c
      BY <1>6 DEF Await, Core, Types
    <3>2. held'[r] = [id |-> i, key |-> docs[i].key, value |-> docs[i].value]
      BY <1>6 DEF Core, Types
    <3>3. QED
      BY <1>1, <1>3, <1>4, <1>6, <2>2, <3>1, <3>2 DEF Protocol, NextStep, ObjectOps
  <2>4. QED
    BY <1>1, <1>6, <2>1, <2>2, <2>3, AwaitCore
<1>7. \A i \in found : Ok(docs[i].value) \in Answers
  BY <1>4 DEF Ok, Answers
<1>8. Failed("error") \in Answers /\ Failed("not_found") \in Answers
  BY DEF Failed, Answers
<1> QED BY <1>5, <1>6, <1>7, <1>8 DEF FindObject

(* What is written to a document of the collection. *)
LEMMA WriteKept ==
  ASSUME Core, NEW i \in Ids, NEW d \in Document, docs' = [docs EXCEPT ![i] = d],
         lastId' \in {lastId, lastId + 1}, lastId' <= MaxDocs, i <= lastId',
         UNCHANGED config
  PROVE  /\ Kept /\ Collection' /\ lastId' \in 0 .. MaxDocs
         /\ docs' \in [Ids -> Document \cup {None}]
<1>1. lastId \in Int /\ lastId' \in Int /\ lastId <= lastId'
  BY BoundAssumption DEF Core, Types
<1> QED BY <1>1, BoundAssumption, NoneAssumption DEF Kept, Collection, Core, Types, Ids

LEMMA SavePatchCore ==
  ASSUME Core, NEW r \in Requests, SavePatch(r), UNCHANGED config
  PROVE  Core'
<1> DEFINE i     == held[r].id
           value == call[r].value
           new   == Save(docs[i], Body(call[r]), held[r])
<1>1. i \in Ids /\ value \in Values /\ call[r] \in Updates /\ held[r] \in Found
  BY CallTypes DEF SavePatch, Core, Types, Protocol, Found, NoCall, Updates
<1>2. UNCHANGED <<config, lastId, overlapped>>
  BY Zenon DEF SavePatch
<1>3. Kept /\ Collection' /\ lastId' \in 0 .. MaxDocs /\ docs' \in [Ids -> Document \cup {None}]
  <2>1. CASE docs' = docs
    BY <1>2, <2>1, BoundAssumption DEF Core, Types, Kept, Collection
  <2>2. CASE docs[i] # None /\ docs' = [docs EXCEPT ![i] = new]
    <3>1. new \in Document
      BY <1>1, <2>2, BodyType, SaveType DEF Core, Types
    <3>2. i <= lastId /\ lastId <= MaxDocs
      BY <1>1, <2>2, BoundAssumption DEF Core, Types, Collection, Ids
    <3> HIDE DEF new
    <3>3. QED
      BY <1>1, <1>2, <2>2, <3>1, <3>2, WriteKept
  <2>3. QED
    BY <2>1, <2>2 DEF SavePatch
<1>4. Failed("error") \in Answers /\ Ok(value) \in Answers
  BY <1>1 DEF Failed, Ok, Answers
<1> QED BY <1>2, <1>3, <1>4, AnswerCore DEF SavePatch

LEMMA UpsertCore ==
  ASSUME Core, NEW r \in Requests, Upsert(r), UNCHANGED config
  PROVE  Core'
<1> DEFINE i     == call[r].id
           value == call[r].value
           first == [publicId |-> lastId', key |-> None, value |-> value, deleted |-> FALSE]
           changed == Fill(docs[i], Body(call[r]))
           new   == Fill(first, Body(call[r]))
<1>1. call[r] \in Updates /\ i \in Ids /\ value \in Values
  BY CallTypes DEF Upsert, Core, Types, Protocol, NoCall, Updates
<1>2. UNCHANGED <<config, overlapped>>
  BY Zenon DEF Upsert
<1>3. Kept /\ Collection' /\ lastId' \in 0 .. MaxDocs /\ docs' \in [Ids -> Document \cup {None}]
  <2>1. CASE UNCHANGED <<docs, lastId>>
    BY <1>2, <2>1, BoundAssumption DEF Core, Types, Kept, Collection
  <2>2. CASE docs[i] # None /\ docs' = [docs EXCEPT ![i] = changed] /\ UNCHANGED lastId
    <3>1. changed \in Document
      BY <1>1, <2>2, BodyType, FillType DEF Core, Types
    <3>2. i <= lastId /\ lastId <= MaxDocs
      BY <1>1, <2>2, BoundAssumption DEF Core, Types, Collection, Ids
    <3> HIDE DEF changed
    <3>3. QED
      BY <1>1, <1>2, <2>2, <3>1, <3>2, WriteKept
  <2>3. CASE /\ call[r].by = "_id" /\ docs[i] = None /\ lastId < MaxDocs
             /\ lastId' = lastId + 1 /\ docs' = [docs EXCEPT ![i] = new]
    <3>1. lastId \in Int /\ lastId' <= MaxDocs /\ lastId' \in Ids /\ i <= lastId'
      BY <1>1, <2>3, BoundAssumption DEF Core, Types, Protocol, Upsert, Ids
    <3>2. new \in Document
      <4>1. first \in Document
        BY <1>1, <3>1 DEF Document
      <4> QED BY <1>1, <4>1, BodyType, FillType
    <3> HIDE DEF new
    <3>3. QED
      BY <1>1, <1>2, <2>3, <3>1, <3>2, WriteKept
  <2>4. QED
    BY <2>1, <2>2, <2>3 DEF Upsert
<1>4. Failed("error") \in Answers /\ Ok(value) \in Answers
  BY <1>1 DEF Failed, Ok, Answers
<1> QED BY <1>2, <1>3, <1>4, AnswerCore DEF Upsert

LEMMA DeleteCore ==
  ASSUME Core, NEW r \in Requests, Delete(r), UNCHANGED config
  PROVE  Core'
<1> DEFINE i == held[r].id
<1>1. i \in Ids
  BY DEF Delete, Core, Protocol, Found
<1>2. Answer(r, [status |-> "removed"]) /\ UNCHANGED <<config, lastId, overlapped>>
  BY Zenon DEF Delete
<1>3. Kept /\ Collection' /\ lastId' \in 0 .. MaxDocs /\ docs' \in [Ids -> Document \cup {None}]
  <2>1. CASE ~config.softDelete /\ docs' = [docs EXCEPT ![i] = None]
    BY <1>1, <1>2, <2>1, BoundAssumption DEF Core, Types, Kept, Collection
  <2>2. CASE config.softDelete /\ docs' = [docs EXCEPT ![i].deleted = TRUE]
    <3>1. docs[i] # None
      BY <2>2 DEF Delete, Core, Protocol
    <3>2. [docs[i] EXCEPT !.deleted = TRUE] \in Document
      BY <1>1, <3>1 DEF Core, Types, Document
    <3>3. i <= lastId /\ lastId <= MaxDocs
      BY <1>1, <3>1, BoundAssumption DEF Core, Types, Collection, Ids
    <3>4. QED
      BY <1>1, <1>2, <2>2, <3>2, <3>3, WriteKept
  <2>3. QED
    BY <2>1, <2>2 DEF Delete
<1>4. [status |-> "removed"] \in Answers
  BY DEF Answers
<1> QED BY <1>2, <1>3, <1>4, AnswerCore DEF Delete

-----------------------------------------------------------------------------

LEMMA NextIInv ==
  ASSUME IInv, [Next]_vars
  PROVE  IInv'
<1>1. CASE UNCHANGED vars
  BY <1>1 DEF vars, IInv, Core, Types, Seen, Collection, Protocol
<1>2. CASE Next
  <2>1. Core'
    BY <1>2, ReceiveCore, FinishCore, RetrieveExistingCore, InsertCore, FindObjectCore, SavePatchCore, UpsertCore, DeleteCore
    DEF Next, Step, Creating, OnObject, IInv
  <2>2. \A r \in Requests :
          Sight(docs', call'[r], held'[r]) \subseteq Values \cup {None, "free", "taken"}
    BY <2>1, SightType DEF Core, Types, Protocol
  <2>3. Seen'
    BY <1>2, <2>2 DEF Next, Observe, IInv, Seen
  <2>4. QED
    BY <2>1, <2>3 DEF IInv
<1> QED BY <1>1, <1>2

LEMMA SpecIInv == Spec => []IInv
  BY InitIInv, NextIInv, PTL DEF Spec

(* Documents, and what handlers hold and answer, keep their types for any  *)
(* number of concurrent requests on any collection: an update that inserts *)
(* a removed document again makes one like the others                      *)
(* (base.controller.ts:60-311).                                            *)
THEOREM TypeCorrect == Spec => []TypeOK
<1>1. IInv => TypeOK
  BY DEF IInv, Core, Types, Seen, TypeOK, Found
<1> QED BY <1>1, SpecIInv, PTL

(* Where config says softDelete, a deletion is final, whatever handlers    *)
(* found the document before, unless a body that nothing is picked from    *)
(* says deleted: false (base.service.ts:49-63, 71-77, 108-110).            *)
THEOREM DeletionIsFinal == Spec => SoftDeletedStays
<1> DEFINE Revived(i) == \E r \in Requests : Writes(r) /\ held[r].id = i
                            /\ ~config.updateFillables /\ call[r].deleted = "false"
           Stays == \A i \in Ids : config.softDelete /\ docs[i] # None /\ docs[i].deleted
                      => \/ docs'[i] # None /\ docs'[i].deleted
                         \/ Revived(i)
<1>1. ASSUME IInv, [Next]_vars PROVE [Stays]_vars
  <2>1. SUFFICES ASSUME Next, NEW i \in Ids, config.softDelete, docs[i] # None, docs[i].deleted
                 PROVE  (docs'[i] # None /\ docs'[i].deleted) \/ Revived(i)
    BY <1>1
  <2>2. PICK r \in Requests : Receive(r) \/ Step(r) \/ Finish(r)
    BY <2>1 DEF Next
  <2>3. docs[i] \in Document /\ config.softDelete /\ i <= lastId /\ lastId \in Int
    BY <1>1, <2>1, BoundAssumption DEF IInv, Core, Types, Collection, Ids
  <2>4. docs \in [Ids -> Document \cup {None}] /\ Protocol(r)
    BY <1>1 DEF IInv, Core, Types
  <2>5. CASE UNCHANGED docs
    BY <2>1, <2>5
  <2>6. CASE Insert(r)
    BY <2>1, <2>3, <2>4, <2>6 DEF Insert
  <2>7. ASSUME NEW d \in Document, docs' = [docs EXCEPT ![i] = d], d.deleted
        PROVE  docs'[i] # None /\ docs'[i].deleted
    BY <2>4, <2>7, NoneAssumption
  <2>8. ASSUME NEW j, docs' = [docs EXCEPT ![j] = docs'[j]], j # i
        PROVE  docs'[i] # None /\ docs'[i].deleted
    BY <2>1, <2>4, <2>8
  <2>9. CASE SavePatch(r)
    <3> DEFINE body == Body(call[r])
    <3>1. /\ call[r] \in Updates /\ held[r] \in Found /\ pc[r] = "save" /\ pc'[r] = "reply"
      BY <1>1, <2>4, <2>9, CallTypes
         DEF SavePatch, Answer, IInv, Core, Types, Protocol, NoCall
    <3>2. CASE body.deleted = "false" /\ held[r].id = i
      BY <3>1, <3>2, BodyType DEF Writes
    <3>3. CASE body.deleted # "false" /\ held[r].id = i
      <4>1. Save(docs[i], body, held[r]) \in Document /\ Save(docs[i], body, held[r]).deleted
        BY <2>1, <2>3, <3>1, <3>3, BodyType, SaveType
      <4>2. docs' = [docs EXCEPT ![i] = Save(docs[i], body, held[r])]
        BY <2>1, <2>9, <3>3 DEF SavePatch
      <4> QED BY <2>7, <4>1, <4>2
    <3>4. CASE held[r].id # i
      BY <2>1, <2>4, <2>9, <3>4 DEF SavePatch
    <3> QED BY <3>2, <3>3, <3>4
  <2>10. CASE Upsert(r)
    <3> DEFINE body == Body(call[r])
    <3>1. /\ call[r] \in Updates /\ pc[r] = "upsert" /\ pc'[r] = "reply"
      BY <1>1, <2>4, <2>10, CallTypes
         DEF Upsert, Answer, IInv, Core, Types, Protocol, NoCall
    <3>2. CASE call[r].by = "_id" /\ body.deleted = "false" /\ call[r].id = i
      BY <2>4, <3>1, <3>2, BodyType DEF Writes, Protocol
    <3>3. CASE call[r].by = "_id" /\ body.deleted # "false" /\ call[r].id = i
      <4>1. Fill(docs[i], body) \in Document /\ Fill(docs[i], body).deleted
        BY <2>1, <2>3, <3>1, <3>3, BodyType, FillType
      <4>2. docs' = [docs EXCEPT ![i] = Fill(docs[i], body)]
        BY <2>1, <2>10, <3>3 DEF Upsert
      <4> QED BY <2>7, <4>1, <4>2
    <3>4. CASE call[r].by = "publicId" \/ call[r].id # i
      BY <2>1, <2>4, <2>10, <3>4 DEF Upsert
    <3> QED BY <3>1, <3>2, <3>3, <3>4 DEF Updates
  <2>11. CASE Delete(r)
    <3>1. [docs[i] EXCEPT !.deleted = TRUE] \in Document
      BY <2>3 DEF Document
    <3>2. CASE held[r].id = i
      BY <2>3, <2>7, <2>11, <3>1, <3>2 DEF Delete, Document
    <3>3. CASE held[r].id # i
      BY <2>1, <2>4, <2>11, <3>3 DEF Delete
    <3> QED BY <3>2, <3>3
  <2> QED BY <2>2, <2>5, <2>6, <2>9, <2>10, <2>11
     DEF Step, Creating, OnObject, Receive, Finish, RetrieveExisting, FindObject
<1> QED BY <1>1, SpecIInv, PTL DEF Spec, SoftDeletedStays

-----------------------------------------------------------------------------
(* What a handler relies on when it answers, it has seen.                  *)
Relied(r) ==
  /\ pc[r] = "insert" => "free" \in seen[r]
  /\ pc[r] \in {"save", "upsert", "delete"} => held[r].value \in seen[r]
  /\ pc[r] = "reply" =>
       LET status == out[r].status IN
         /\ status \in {"not_found", "removed"} => None \in seen[r]
         /\ status \in {"conflict", "duplicate"} => "taken" \in seen[r]
         /\ status = "ok" =>
              (IF call[r].op = "create" THEN "free" ELSE out[r].value) \in seen[r]

SeenInv == \A r \in Requests : Relied(r)

(* A handler has all that it had seen, and what it sees after the step.    *)
LEMMA SeenGrows ==
  ASSUME IInv, Observe, NEW r \in Requests, pc'[r] # "idle"
  PROVE  seen[r] \subseteq seen'[r] /\ Sight(docs', call'[r], held'[r]) \subseteq seen'[r]
  BY DEF Observe

(* Of the document it holds, or those it asks for.                         *)
LEMMA SightOfObject ==
  ASSUME NEW d, NEW c, NEW h, c.op \in ObjectOps
  PROVE  LET target == IF h = None THEN Named(d, c) ELSE {h.id} IN
           /\ \A i \in target : d[i] # None => d[i].value \in Sight(d, c, h)
           /\ (\A i \in target : ~Live(d, i)) => None \in Sight(d, c, h)
<1> DEFINE target == IF h = None THEN Named(d, c) ELSE {h.id}
<1>1. Sight(d, c, h) = {d[i].value : i \in {j \in target : d[j] # None}}
                       \cup (IF \E i \in target : Live(d, i) THEN {} ELSE {None})
  BY DEF Sight, ObjectOps
<1> HIDE DEF target
<1>2. /\ \A i \in target : d[i] # None => d[i].value \in Sight(d, c, h)
      /\ (\A i \in target : ~Live(d, i)) => None \in Sight(d, c, h)
  BY <1>1
<1> QED BY <1>2 DEF target

LEMMA OthersRelied ==
  ASSUME IInv, SeenInv, Observe, NEW q \in Requests,
         pc'[q] = pc[q], call'[q] = call[q], held'[q] = held[q], out'[q] = out[q]
  PROVE  Relied(q)'
<1>1. pc[q] # "idle" => seen[q] \subseteq seen'[q]
  BY SeenGrows
<1> QED BY <1>1 DEF SeenInv, Relied

(* A handler has the answer, and what the answer says it has seen.         *)
LEMMA AnswerRelied ==
  ASSUME IInv, Observe, NEW r \in Requests, NEW answer, Answer(r, answer),
         answer.status \in {"not_found", "removed"} => None \in seen'[r],
         answer.status \in {"conflict", "duplicate"} => "taken" \in seen'[r],
         answer.status = "ok" =>
           (IF call[r].op = "create" THEN "free" ELSE answer.value) \in seen'[r]
  PROVE  Relied(r)'
<1>1. pc'[r] = "reply" /\ out'[r] = answer /\ call'[r] = call[r]
  BY DEF Answer, IInv, Core, Types
<1> QED BY <1>1 DEF Relied

LEMMA CreateRelied ==
  ASSUME IInv, SeenInv, Observe, NEW r \in Requests, RetrieveExisting(r) \/ Insert(r)
  PROVE  Relied(r)'
<1>1. call[r].op = "create" /\ call'[r] = call[r] /\ pc'[r] # "idle"
  BY DEF RetrieveExisting, Insert, Await, Answer, IInv, Core, Types, Protocol
<1>2. Sight(docs', call[r], held'[r]) =
        {IF Existing(docs', call[r].key) = {} THEN "free" ELSE "taken"}
  BY <1>1 DEF Sight
<1>3. seen[r] \subseteq seen'[r] /\ Sight(docs', call[r], held'[r]) \subseteq seen'[r]
  BY <1>1, SeenGrows
<1>4. ASSUME Existing(docs, call[r].key) = {}, Await(r, "insert"), UNCHANGED docs
      PROVE  Relied(r)'
  <2>1. pc'[r] = "insert" /\ "free" \in seen'[r]
    BY <1>2, <1>3, <1>4 DEF Await, IInv, Core, Types
  <2>2. QED
    BY <2>1 DEF Relied
<1>5. ASSUME Existing(docs, call[r].key) # {}, UNCHANGED docs,
             NEW answer, answer.status \in {"conflict", "duplicate"}, Answer(r, answer)
      PROVE  Relied(r)'
  <2>1. "taken" \in seen'[r]
    BY <1>2, <1>3, <1>5
  <2>2. QED
    BY <1>5, <2>1, AnswerRelied
<1>6. CASE Insert(r)
  <2>1. "free" \in seen'[r]
    BY <1>3, <1>6 DEF Insert, SeenInv, Relied
  <2>2. Answer(r, Ok(call[r].value))
    BY <1>6 DEF Insert
  <2>3. QED
    BY <1>1, <2>1, <2>2, AnswerRelied DEF Ok
<1>7. CASE RetrieveExisting(r)
  <2>1. CASE Existing(docs, call[r].key) = {} /\ Await(r, "insert")
    BY <1>4, <1>7, <2>1 DEF RetrieveExisting
  <2>2. CASE Existing(docs, call[r].key) # {} /\ Answer(r, Failed("conflict"))
    BY <1>5, <1>7, <2>2 DEF RetrieveExisting, Failed
  <2>3. CASE \E i \in Existing(docs, call[r].key) :
               Answer(r, [status |-> "duplicate", value |-> docs[i].value])
    <3>1. PICK i \in Existing(docs, call[r].key) :
            Answer(r, [status |-> "duplicate", value |-> docs[i].value])
      BY <2>3
    <3>2. UNCHANGED docs
      BY <1>7 DEF RetrieveExisting
    <3>3. QED
      BY <1>5, <3>1, <3>2
  <2>4. QED
    BY <1>7, <2>1, <2>2, <2>3 DEF RetrieveExisting
<1> QED BY <1>6, <1>7

LEMMA FindObjectRelied ==
  ASSUME IInv, Observe, NEW r \in Requests, FindObject(r)
  PROVE  Relied(r)'
<1> DEFINE c     == call[r]
           found == {i \in Named(docs, c) : Live(docs, i)}
<1>1. c.op \in ObjectOps /\ held[r] = None /\ pc[r] = "object"
  BY DEF FindObject, IInv, Core, Protocol
<1>2. UNCHANGED docs /\ call'[r] = c /\ pc'[r] # "idle"
  BY <1>1 DEF FindObject, Answer, Await, NextStep, IInv, Core, Types, ObjectOps
<1>3. Sight(docs, c, held'[r]) \subseteq seen'[r]
  BY <1>2, SeenGrows
<1>4. ASSUME NEW answer, Answer(r, answer), answer.status = "error"
      PROVE  Relied(r)'
  BY <1>4, AnswerRelied
<1>5. ASSUME found = {}, Answer(r, Failed("not_found")) PROVE Relied(r)'
  <2>1. held'[r] = None
    BY <1>1, <1>5 DEF Answer
  <2>2. None \in seen'[r]
    BY <1>1, <1>3, <1>5, <2>1, SightOfObject
  <2>3. QED
    BY <1>5, <2>2, AnswerRelied DEF Failed
<1>6. ASSUME NEW i \in found, c.op = "findOne", Answer(r, Ok(docs[i].value))
      PROVE  Relied(r)'
  <2>1. held'[r] = None
    BY <1>1, <1>6 DEF Answer
  <2>2. docs[i] # None /\ i \in Named(docs, c)
    BY DEF Live
  <2>3. docs[i].value \in seen'[r]
    BY <1>1, <1>3, <2>1, <2>2, SightOfObject
  <2>4. QED
    BY <1>6, <2>3, AnswerRelied DEF Ok
<1>7. ASSUME NEW i \in found, c.op # "findOne", Await(r, NextStep(c.op)),
             held' = [held EXCEPT ![r] = [id |-> i, key |-> docs[i].key, value |-> docs[i].value]]
      PROVE  Relied(r)'
  <2>1. held'[r] = [id |-> i, key |-> docs[i].key, value |-> docs[i].value] /\ docs[i] # None
    BY <1>7 DEF IInv, Core, Types, Live
  <2>2. i \in Ids /\ docs[i].value \in Values /\ docs[i].key \in Keys \cup {None}
    BY <2>1 DEF IInv, Core, Types, Named, Document
  <2>3. held'[r] # None
    BY <2>1, <2>2, NoneAssumption DEF Found
  <2>4. held'[r].value \in seen'[r]
    BY <1>1, <1>3, <2>1, <2>3, SightOfObject
  <2>5. pc'[r] \in {"save", "upsert", "delete"}
    BY <1>1, <1>7 DEF Await, NextStep, IInv, Core, Types, ObjectOps
  <2>6. QED
    BY <2>4, <2>5 DEF Relied
<1> QED BY <1>4, <1>5, <1>6, <1>7 DEF FindObject, Failed

LEMMA SavePatchRelied ==
  ASSUME IInv, SeenInv, Observe, NEW r \in Requests, SavePatch(r)
  PROVE  Relied(r)'
<1> DEFINE i     == held[r].id
           value == call[r].value
<1>1. /\ held[r] \in Found /\ call[r].op = "patch" /\ pc[r] = "save"
      /\ docs \in [Ids -> Document \cup {None}]
  BY DEF SavePatch, IInv, Core, Types, Protocol
<1>2. call'[r] = call[r] /\ held'[r] = held[r] /\ pc'[r] = "reply"
  BY DEF SavePatch, Answer, IInv, Core, Types
<1>3. seen[r] \subseteq seen'[r] /\ Sight(docs', call[r], held[r]) \subseteq seen'[r]
  BY <1>2, SeenGrows
<1>4. CASE Answer(r, Failed("error"))
  BY <1>4, AnswerRelied DEF Failed
<1>5. CASE docs[i] # None /\ Answer(r, Ok(value))
  <2>1. value \in seen'[r]
    <3>1. CASE value = held[r].value
      BY <1>1, <1>3, <3>1 DEF SeenInv, Relied
    <3>2. CASE value # held[r].value
      <4> DEFINE d == Save(docs[i], Body(call[r]), held[r])
      <4>1. docs' = [docs EXCEPT ![i] = d]
        BY <1>5 DEF SavePatch
      <4>2. d \in Document /\ d.value = value
        <5>1. call[r] \in Updates /\ docs[i] \in Document
          BY <1>1, <1>5, CallTypes DEF IInv, Core, Types, NoCall, Found
        <5> QED BY <1>1, <3>2, <5>1, BodyType, SaveType
      <4> HIDE DEF d
      <4>3. docs'[i] # None /\ docs'[i].value = value /\ i \in {held[r].id}
        BY <1>1, <4>1, <4>2, NoneAssumption DEF Found
      <4>4. held[r] # None /\ "patch" \in ObjectOps
        BY <1>1, NoneAssumption DEF ObjectOps
      <4>5. QED
        BY <1>1, <1>3, <4>3, <4>4, SightOfObject
    <3>3. QED
      BY <3>1, <3>2
  <2>2. QED
    BY <1>1, <1>5, <2>1, AnswerRelied DEF Ok
<1> QED BY <1>4, <1>5 DEF SavePatch

LEMMA UpsertRelied ==
  ASSUME IInv, SeenInv, Observe, NEW r \in Requests, Upsert(r)
  PROVE  Relied(r)'
<1> DEFINE i     == call[r].id
           value == call[r].value
<1>1. /\ held[r] \in Found /\ call[r].op = "update"
      /\ docs \in [Ids -> Document \cup {None}]
      /\ call[r].by = "_id" => held[r].id = i
  BY DEF Upsert, IInv, Core, Types, Protocol
<1>2. call'[r] = call[r] /\ held'[r] = held[r] /\ pc'[r] = "reply"
  BY DEF Upsert, Answer, IInv, Core, Types
<1>3. Sight(docs', call[r], held[r]) \subseteq seen'[r]
  BY <1>2, SeenGrows
<1>4. CASE Answer(r, Failed("error"))
  BY <1>4, AnswerRelied DEF Failed
<1>5. CASE call[r].by = "_id" /\ Answer(r, Ok(value))
  <2>1. value \in Values /\ i \in Ids
    BY <1>1, <1>5, CallTypes DEF IInv, Core, Types, NoCall, Updates, Found
  <2>2. docs'[i] # None /\ docs'[i].value = value
    <3> DEFINE body  == Body(call[r])
               first == [publicId |-> lastId', key |-> None, value |-> value,
                         deleted |-> FALSE]
    <3>3. body \in Bodies /\ body.value = value
      BY <1>1, CallTypes, BodyType DEF IInv, Core, Types, NoCall
    <3>4. ASSUME NEW d \in Document, docs'[i] = Fill(d, body)
          PROVE  docs'[i] # None /\ docs'[i].value = value
      BY <3>3, <3>4, FillType, NoneAssumption
    <3>1. CASE docs[i] # None
      <4>1. docs'[i] = Fill(docs[i], body) /\ docs[i] \in Document
        BY <1>1, <1>5, <2>1, <3>1 DEF Upsert, Answer
      <4> QED BY <3>4, <4>1
    <3>2. CASE docs[i] = None
      <4>1. docs'[i] = Fill(first, body)
        BY <1>1, <1>5, <2>1, <3>2 DEF Upsert
      <4>2. lastId' \in Ids
        BY <1>5, <3>2, BoundAssumption DEF Upsert, IInv, Core, Types, Ids
      <4>3. first \in Document
        BY <2>1, <4>2 DEF Document
      <4> HIDE DEF first
      <4> QED BY <3>4, <4>1, <4>3
    <3>5. QED
      BY <3>1, <3>2
  <2>3. held[r] # None /\ "update" \in ObjectOps /\ i \in {held[r].id}
    BY <1>1, <1>5, NoneAssumption DEF ObjectOps
  <2>4. value \in seen'[r]
    BY <1>1, <1>3, <2>2, <2>3, SightOfObject
  <2>5. QED
    BY <1>1, <1>5, <2>4, AnswerRelied DEF Ok
<1> QED BY <1>4, <1>5 DEF Upsert

LEMMA DeleteRelied ==
  ASSUME IInv, Observe, NEW r \in Requests, Delete(r)
  PROVE  Relied(r)'
<1> DEFINE i == held[r].id
<1>1. /\ held[r] \in Found /\ call[r].op = "remove"
      /\ docs \in [Ids -> Document \cup {None}]
  BY DEF Delete, IInv, Core, Types, Protocol
<1>2. call'[r] = call[r] /\ held'[r] = held[r] /\ pc'[r] = "reply"
  BY DEF Delete, Answer, IInv, Core, Types
<1>3. Sight(docs', call[r], held[r]) \subseteq seen'[r]
  BY <1>2, SeenGrows
<1>4. ~Live(docs', i)
  <2>1. CASE docs' = [docs EXCEPT ![i] = None]
    BY <1>1, <2>1 DEF Live, Found
  <2>2. CASE config.softDelete /\ docs' = [docs EXCEPT ![i].deleted = TRUE]
    <3>1. docs[i] \in Document /\ i \in Ids
      BY <1>1, <2>2 DEF Delete, IInv, Core, Protocol, Found
    <3>2. QED
      BY <1>1, <2>2, <3>1 DEF Live, Document
  <2>3. QED
    BY <2>1, <2>2 DEF Delete
<1>5. held[r] # None /\ "remove" \in ObjectOps
  BY <1>1, NoneAssumption DEF ObjectOps
<1>6. None \in seen'[r]
  BY <1>1, <1>3, <1>4, <1>5, SightOfObject
<1> QED BY <1>6, AnswerRelied DEF Delete

LEMMA NextSeenInv ==
  ASSUME IInv, SeenInv, [Next]_vars
  PROVE  SeenInv'
<1>1. CASE UNCHANGED vars
  BY <1>1 DEF vars, SeenInv, Relied
<1>2. CASE Next
  <2>1. PICK r \in Requests : Receive(r) \/ Step(r) \/ Finish(r)
    BY <1>2 DEF Next
  <2>2. Observe
    BY <1>2 DEF Next
  <2>3. \A q \in Requests \ {r} :
          pc'[q] = pc[q] /\ call'[q] = call[q] /\ held'[q] = held[q] /\ out'[q] = out[q]
    BY <2>1 DEF IInv, Core, Types, Step, Creating, OnObject, Receive, Finish, RetrieveExisting, Insert, FindObject, SavePatch, Upsert, Delete, Await, Answer
  <2>4. ASSUME Receive(r) \/ Finish(r) PROVE Relied(r)'
    <3>1. pc'[r] \in {"idle", "create", "object"}
      BY <2>4 DEF IInv, Core, Types, Receive, Finish
    <3>2. QED
      BY <3>1 DEF Relied
  <2>5. Relied(r)'
    <3>1. UNCHANGED config
      BY <1>2 DEF Next
    <3>2. QED
      BY <2>1, <2>2, <2>4, <3>1, CreateRelied, FindObjectRelied,
         SavePatchRelied, UpsertRelied, DeleteRelied DEF Step, Creating, OnObject
  <2>6. \A q \in Requests \ {r} : Relied(q)'
    BY <2>2, <2>3, OthersRelied
  <2>7. QED
    BY <2>5, <2>6 DEF SeenInv
<1> QED BY <1>1, <1>2

(* Whatever other handlers write meanwhile, what a handler answers was     *)
(* true at some time while its request ran: what it returns was stored,    *)
(* what it removed or did not find was not there, a key was free or taken  *)
(* (base.controller.ts:77-102, 203-204, 242-253, 291-301).                 *)
THEOREM AnswersAreTrue == Spec => []AnswersWereTrue
<1>1. Init => SeenInv
  BY DEF Init, SeenInv, Relied
<1>2. SeenInv => AnswersWereTrue
  BY DEF SeenInv, Relied, AnswersWereTrue
<1> QED BY <1>1, <1>2, NextSeenInv, SpecIInv, PTL DEF Spec

-----------------------------------------------------------------------------
(* A request that has run alone since it began: no other is under way, and *)
(* what it found is still so.                                              *)
Fresh(r) ==
  /\ pc[r] = "insert" => Existing(docs, call[r].key) = {}
  /\ pc[r] \in {"save", "upsert", "delete"} => Live(docs, held[r].id)

AloneInv ==
  ~overlapped => /\ \A q, r \in Requests : q # r => pc[q] = "idle" \/ pc[r] = "idle"
                 /\ \A r \in Requests : Fresh(r)

(* A handler that is under way leaves the others idle. *)
LEMMA AloneStep ==
  ASSUME IInv, AloneInv, NEW r \in Requests, Receive(r) \/ Step(r) \/ Finish(r),
         UNCHANGED config, ~overlapped'
  PROVE  /\ Receive(r) \/ Fresh(r)
         /\ \A q \in Requests \ {r} : pc[q] = "idle" /\ pc'[q] = "idle"
<1>1. (Receive(r) \/ Fresh(r)) /\ \A q \in Requests \ {r} : pc[q] = "idle"
  <2>1. CASE Receive(r)
    BY <2>1 DEF Receive
  <2>2. CASE Step(r) \/ Finish(r)
    <3>1. pc[r] # "idle" /\ ~overlapped
      BY <2>2 DEF Step, Creating, OnObject, Finish, RetrieveExisting, Insert, FindObject, SavePatch, Upsert, Delete
    <3> QED BY <3>1 DEF AloneInv
  <2> QED BY <2>1, <2>2
<1>2. \A q \in Requests \ {r} : pc'[q] = pc[q]
  BY DEF IInv, Core, Types, Step, Creating, OnObject, Receive, Finish, RetrieveExisting, Insert, FindObject,
     SavePatch, Upsert, Delete, Await, Answer
<1> QED BY <1>1, <1>2

LEMMA FreshStep ==
  ASSUME IInv, AloneInv, NEW r \in Requests, Receive(r) \/ Step(r) \/ Finish(r),
         UNCHANGED config, ~overlapped'
  PROVE  Fresh(r)'
<1>1. CASE Receive(r)
  <2>1. pc'[r] \in {"create", "object"}
    BY <1>1 DEF Receive, IInv, Core, Types
  <2> QED BY <2>1 DEF Fresh
<1>2. CASE Finish(r)
  <2>1. pc'[r] = "idle"
    BY <1>2 DEF Finish, IInv, Core, Types
  <2> QED BY <2>1 DEF Fresh
<1>3. ASSUME NEW answer, Answer(r, answer) PROVE Fresh(r)'
  <2>1. pc'[r] = "reply"
    BY <1>3 DEF Answer, IInv, Core, Types
  <2> QED BY <2>1 DEF Fresh
<1>4. CASE RetrieveExisting(r)
  <2>1. CASE Existing(docs, call[r].key) = {} /\ Await(r, "insert")
    <3>1. pc'[r] = "insert" /\ call' = call /\ docs' = docs
      BY <1>4, <2>1 DEF RetrieveExisting, Await, IInv, Core, Types
    <3> QED BY <2>1, <3>1 DEF Fresh, Existing, LiveDocs, Live
  <2> QED BY <1>3, <1>4, <2>1 DEF RetrieveExisting
<1>5. CASE FindObject(r)
  <2>1. ASSUME NEW i \in Named(docs, call[r]), Live(docs, i), call[r].op # "findOne",
               held' = [held EXCEPT ![r] = [id |-> i, key |-> docs[i].key, value |-> docs[i].value]],
               Await(r, NextStep(call[r].op))
        PROVE  Fresh(r)'
    <3>1. call[r].op \in {"patch", "update", "remove"}
      BY <1>5, <2>1 DEF FindObject, IInv, Core, Protocol, ObjectOps
    <3>2. pc'[r] \in {"save", "upsert", "delete"} /\ held'[r].id = i /\ docs' = docs
      BY <1>5, <2>1, <3>1 DEF FindObject, Await, NextStep, IInv, Core, Types
    <3> QED BY <2>1, <3>2 DEF Fresh, Live
  <2> QED BY <1>3, <1>5, <2>1 DEF FindObject
<1>6. CASE Insert(r) \/ SavePatch(r) \/ Upsert(r) \/ Delete(r)
  BY <1>3, <1>6 DEF Insert, SavePatch, Upsert, Delete
<1> QED BY <1>1, <1>2, <1>4, <1>5, <1>6 DEF Step, Creating, OnObject

LEMMA NextAloneInv ==
  ASSUME IInv, AloneInv, [Next]_vars
  PROVE  AloneInv'
<1>1. CASE UNCHANGED vars
  BY <1>1 DEF vars, AloneInv, Fresh, Existing, LiveDocs, Live
<1>2. CASE Next
  <2> SUFFICES ASSUME ~overlapped'
               PROVE  /\ \A q, s \in Requests : q # s => pc'[q] = "idle" \/ pc'[s] = "idle"
                      /\ \A q \in Requests : Fresh(q)'
    BY DEF AloneInv
  <2>1. PICK r \in Requests : Receive(r) \/ Step(r) \/ Finish(r)
    BY <1>2 DEF Next
  <2>2. UNCHANGED config
    BY <1>2 DEF Next
  <2>3. \A q \in Requests \ {r} : pc'[q] = "idle"
    BY <2>1, <2>2, AloneStep
  <2>4. \A q \in Requests \ {r} : Fresh(q)'
    BY <2>3 DEF Fresh
  <2>5. Fresh(r)'
    BY <2>1, <2>2, FreshStep
  <2> QED BY <2>3, <2>4, <2>5
<1> QED BY <1>1, <1>2

(* What the resource stores of a live document. *)
Row(d) == [key |-> d.key, value |-> d.value]

LEMMA StoredLive ==
  ASSUME IInv
  PROVE  /\ DOMAIN Stored = Ids
         /\ \A i \in Ids : Stored[i] = IF Live(docs, i) THEN Row(docs[i]) ELSE None
         /\ Promise!Alive = LiveDocs(docs)
<1>1. \A d \in Document : Row(d) # None
  <2>1. \A d \in Document : Row(d) \in [key : Keys \cup {None}, value : Values]
    BY DEF Row, Document
  <2> QED BY <2>1, NoneAssumption
<1>2. \A i \in Ids : Live(docs, i) => docs[i] \in Document
  BY DEF Live, IInv, Core, Types
<1>3. \A i \in Ids : Stored[i] = IF Live(docs, i) THEN Row(docs[i]) ELSE None
  BY DEF Stored, Row
<1> QED BY <1>1, <1>2, <1>3 DEF Stored, Promise!Alive, LiveDocs

(* A document of a live one's id takes its place. *)
LEMMA StoredExcept ==
  ASSUME IInv, NEW i \in Ids, NEW d \in Document, docs' = [docs EXCEPT ![i] = d], ~d.deleted
  PROVE  Stored' = [Stored EXCEPT ![i] = Row(d)]
<1>1. docs \in [Ids -> Document \cup {None}] /\ d # None
  BY NoneAssumption DEF IInv, Core, Types
<1>2. \A j \in Ids : Live(docs', j) <=> (j = i \/ Live(docs, j))
  BY <1>1 DEF Live
<1>3. \A j \in Ids : Live(docs', j) => Row(docs'[j]) = IF j = i THEN Row(d) ELSE Row(docs[j])
  BY <1>1
<1> QED BY <1>1, <1>2, <1>3 DEF Stored, Row

LEMMA StoredWithout ==
  ASSUME IInv, NEW i \in Ids, docs' = [docs EXCEPT ![i] = docs'[i]], ~Live(docs', i)
  PROVE  Stored' = [Stored EXCEPT ![i] = None]
<1>1. docs \in [Ids -> Document \cup {None}]
  BY DEF IInv, Core, Types
<1>2. \A j \in Ids \ {i} : docs'[j] = docs[j]
  BY <1>1
<1>3. \A j \in Ids \ {i} : Live(docs', j) <=> Live(docs, j)
  BY <1>2 DEF Live
<1> QED BY <1>2, <1>3 DEF Stored

LEMMA InsertAdds ==
  ASSUME IInv, NEW r \in Requests, Fresh(r), Insert(r), UNCHANGED config, ~Unpicked(call[r])
  PROVE  Promise!ResourceNext
<1> DEFINE i == lastId + 1
           c == call[r]
           d == [publicId |-> i, key |-> c.key, value |-> c.value,
                 deleted |-> ~config.fillables /\ c.deleted = "true"]
<1>1. c \in Create
  BY CallTypes DEF Insert, IInv, Core, Types, Protocol, NoCall
<1>2. i \in Ids /\ lastId' = i /\ lastId \in Nat /\ docs' = [docs EXCEPT ![i] = d]
  BY BoundAssumption DEF Insert, IInv, Core, Types, Ids
<1>3. d \in Document /\ ~d.deleted
  BY <1>1, <1>2 DEF Document, Create, Unpicked
<1>4. ~Live(docs, i) /\ i \notin Gone
  BY <1>2 DEF IInv, Core, Collection, Live, Gone
<1>5. Stored' = [Stored EXCEPT ![i] = Row(d)]
  BY <1>2, <1>3, StoredExcept
<1>6. Gone' = Gone
  <2>1. \A j \in Ids : Live(docs', j) <=> (j = i \/ Live(docs, j))
    BY <1>2, <1>3, NoneAssumption DEF Live, IInv, Core, Types
  <2>2. 1 .. lastId' = (1 .. lastId) \cup {i} /\ 1 .. lastId \subseteq Ids /\ i \notin 1 .. lastId
    BY <1>2, BoundAssumption DEF IInv, Core, Types, Ids
  <2> QED BY <1>2, <2>1, <2>2 DEF Gone
<1>7. config.uniques => \A j \in LiveDocs(docs) : docs[j].key # c.key
  BY DEF Fresh, Insert, Existing
<1>8. config.uniques => \A j \in Promise!Alive : Stored[j].key # c.key
  BY <1>7, StoredLive DEF LiveDocs, Row
<1>9. Promise!Add(i, c.key, c.value)
  BY <1>2, <1>4, <1>5, <1>6, <1>8, StoredLive DEF Promise!Add, LiveDocs, Row
<1> QED BY <1>1, <1>2, <1>9 DEF Promise!ResourceNext, Create

(* A write that leaves the key and deleted alone changes a live document.  *)
LEMMA WriteChanges ==
  ASSUME IInv, NEW i \in Ids, Live(docs, i), NEW d \in Document,
         d.key = docs[i].key, d.deleted <=> docs[i].deleted,
         docs' = [docs EXCEPT ![i] = d], UNCHANGED <<config, lastId>>
  PROVE  Promise!ResourceNext
<1> DEFINE value == d.value
<1>1. docs[i] \in Document /\ ~docs[i].deleted
  BY DEF Live, IInv, Core, Types
<1>2. d \in Document /\ ~d.deleted /\ value \in Values
  BY <1>1 DEF Document
<1>3. docs' = [docs EXCEPT ![i] = d]
  OBVIOUS
<1>4. Stored' = [Stored EXCEPT ![i] = Row(d)]
  BY <1>2, <1>3, StoredExcept
<1>5. Stored[i] = Row(docs[i]) /\ i \in Promise!Alive
  BY StoredLive DEF LiveDocs
<1>6. [Row(docs[i]) EXCEPT !.value = value] = Row(d)
  BY <1>2 DEF Row
<1>7. Stored' = [Stored EXCEPT ![i].value = value]
  BY <1>4, <1>5, <1>6
<1>8. Gone' = Gone
  <2>1. \A j \in Ids : Live(docs', j) <=> Live(docs, j)
    BY <1>2, <1>3, NoneAssumption DEF Live, IInv, Core, Types
  <2>2. 1 .. lastId \subseteq Ids
    BY BoundAssumption DEF IInv, Core, Types, Ids
  <2> QED BY <2>1, <2>2 DEF Gone
<1>9. Promise!Change(i, value)
  BY <1>5, <1>7, <1>8 DEF Promise!Change
<1> QED BY <1>2, <1>9 DEF Promise!ResourceNext

LEMMA DeleteRemoves ==
  ASSUME IInv, NEW r \in Requests, Fresh(r), Delete(r), UNCHANGED config
  PROVE  Promise!ResourceNext
<1> DEFINE i == held[r].id
<1>1. i \in Ids /\ Live(docs, i) /\ lastId' = lastId
  BY DEF Delete, Fresh, IInv, Core, Protocol, Found
<1>2. docs[i] \in Document /\ docs \in [Ids -> Document \cup {None}]
  BY <1>1 DEF Live, IInv, Core, Types
<1>3. docs' = [docs EXCEPT ![i] = docs'[i]] /\ ~Live(docs', i)
  <2>1. CASE docs' = [docs EXCEPT ![i] = None]
    BY <1>1, <1>2, <2>1 DEF Live
  <2>2. CASE docs' = [docs EXCEPT ![i].deleted = TRUE]
    <3>1. [docs[i] EXCEPT !.deleted = TRUE].deleted
      BY <1>2 DEF Document
    <3> QED BY <1>1, <1>2, <2>2, <3>1 DEF Live
  <2> QED BY <2>1, <2>2 DEF Delete
<1>4. Stored' = [Stored EXCEPT ![i] = None]
  BY <1>1, <1>3, StoredWithout
<1>5. Gone' = Gone \cup {i}
  <2>1. \A j \in Ids \ {i} : Live(docs', j) <=> Live(docs, j)
    BY <1>2, <1>3 DEF Live
  <2>2. 1 .. lastId \subseteq Ids /\ i \in 1 .. lastId
    BY <1>1, BoundAssumption DEF IInv, Core, Types, Collection, Live, Ids
  <2> QED BY <1>1, <1>3, <2>1, <2>2 DEF Gone
<1>6. Promise!Remove(i)
  BY <1>1, <1>4, <1>5, StoredLive DEF Promise!Remove, LiveDocs
<1> QED BY <1>1, <1>6 DEF Promise!ResourceNext

LEMMA ResourceStep ==
  ASSUME IInv, AloneInv, [Next]_vars
  PROVE  [\/ overlapped'
          \/ \E r \in Requests : Writes(r) /\ Unpicked(call[r])
          \/ Promise!ResourceNext]_(Promise!resource)
<1> SUFFICES ASSUME ~overlapped', \A r \in Requests : Writes(r) => ~Unpicked(call[r])
             PROVE  Promise!ResourceNext \/ UNCHANGED Promise!resource
  OBVIOUS
<1>1. ASSUME UNCHANGED <<config, docs, lastId>> PROVE UNCHANGED Promise!resource
  BY <1>1 DEF Promise!resource, Stored, Gone, Live
<1>2. CASE UNCHANGED vars
  BY <1>1, <1>2 DEF vars
<1>3. CASE Next
  <2>1. PICK r \in Requests : Receive(r) \/ Step(r) \/ Finish(r)
    BY <1>3 DEF Next
  <2>2. UNCHANGED config
    BY <1>3 DEF Next
  <2>3. Step(r) => Fresh(r)
    <3>1. Step(r) => pc[r] # "idle"
      BY DEF Step, Creating, OnObject, RetrieveExisting, Insert, FindObject, SavePatch, Upsert, Delete
    <3> QED BY <2>1, <2>2, <3>1, AloneStep DEF Receive
  <2>4. CASE Receive(r) \/ Finish(r) \/ RetrieveExisting(r) \/ FindObject(r)
    BY <1>1, <2>2, <2>4 DEF Receive, Finish, RetrieveExisting, FindObject
  <2>5. CASE Insert(r)
    <3>1. Writes(r)
      BY <2>5 DEF Insert, Answer, Writes, IInv, Core, Types
    <3> QED BY <2>2, <2>3, <2>5, <3>1, InsertAdds DEF Step, Creating
  <2>6. CASE SavePatch(r)
    <3> DEFINE i == held[r].id
               d == Save(docs[i], Body(call[r]), held[r])
    <3>1. /\ i \in Ids /\ Live(docs, i) /\ docs[i] \in Document
          /\ call[r] \in Updates /\ held[r] \in Found /\ ~Unpicked(call[r])
      BY <2>3, <2>6, CallTypes DEF Step, OnObject, SavePatch, Answer, Writes, Fresh, Live,
         IInv, Core, Types, Protocol, Found, NoCall
    <3>2. d \in Document /\ d.key = docs[i].key /\ (d.deleted <=> docs[i].deleted)
      BY <3>1, BodyType, SaveType
    <3>3. docs' = [docs EXCEPT ![i] = d] /\ UNCHANGED lastId
      BY <2>6, <3>1 DEF SavePatch, Live
    <3> HIDE DEF d
    <3> QED BY <2>2, <3>1, <3>2, <3>3, WriteChanges
  <2>7. CASE Upsert(r)
    <3> DEFINE i == call[r].id
               d == Fill(docs[i], Body(call[r]))
    <3>1. CASE call[r].by = "publicId"
      BY <1>1, <2>2, <2>7, <3>1 DEF Upsert
    <3>2. CASE call[r].by = "_id"
      <4>1. /\ i \in Ids /\ Live(docs, i) /\ docs[i] \in Document
            /\ call[r] \in Updates /\ ~Unpicked(call[r])
        BY <2>3, <2>7, <3>2, CallTypes DEF Step, OnObject, Upsert, Answer, Writes, Fresh,
           Live, IInv, Core, Types, Protocol, Found, NoCall, Updates
      <4>2. d \in Document /\ d.key = docs[i].key /\ (d.deleted <=> docs[i].deleted)
        BY <4>1, BodyType, FillType
      <4>3. docs' = [docs EXCEPT ![i] = d] /\ UNCHANGED lastId
        BY <2>7, <3>2, <4>1 DEF Upsert, Live
      <4> HIDE DEF d
      <4> QED BY <2>2, <4>1, <4>2, <4>3, WriteChanges
    <3> QED BY <2>7, <3>1, <3>2 DEF Upsert
  <2>8. CASE Delete(r)
    BY <2>2, <2>3, <2>8, DeleteRemoves DEF Step, Creating, OnObject
  <2> QED BY <2>1, <2>4, <2>5, <2>6, <2>7, <2>8 DEF Step, Creating, OnObject
<1> QED BY <1>2, <1>3

(* Each step of a request that runs alone is one of Resource, whatever the *)
(* overlapping ones before it stored, for any collection, any              *)
(* configuration and any calls, but for the bodies that set a key or       *)
(* deleted where nothing is picked from them (base.controller.ts:60-311,   *)
(* base.service.ts:49-53, 71-75).                                          *)
THEOREM SerialRequestsKeepResource == Spec => KeepsResource
<1>1. Init => AloneInv
  BY DEF Init, AloneInv, Fresh
<1>2. Init => Promise!ResourceInit
  BY BoundAssumption, ConfigAssumption
     DEF Init, Promise!ResourceInit, Stored, Gone, Live, Config
<1> QED
  BY <1>1, <1>2, SpecIInv, NextAloneInv, ResourceStep, PTL DEF Spec, KeepsResource
=============================================================================
