---------------------------- MODULE CrudResource ----------------------------
(***************************************************************************)
(* The CRUD base: BaseController and BaseService on one collection.        *)
(*                                                                         *)
(* A handler finds what it needs, checks, and writes with one call; other  *)
(* handlers run between its awaited calls.  The configuration is that of   *)
(* the schema's static config(), merged over BaseAbstract's defaults.      *)
(* GET /, which lists documents, is in module Listing.                     *)
(*                                                                         *)
(* A document has a unique key (the fields of config.uniques, None when    *)
(* the body lacks them: it is then one more value, null, of the filter),   *)
(* a value (its other fields) and the field deleted.  A body may name any  *)
(* of them.  A resource that lists fillables takes only those from it:     *)
(* updateFillables, which no key and no deleted are among, from a patch or *)
(* an update, and fillables, which deleted is not among, from a create.    *)
(* An empty list, which is the default, picks nothing: all is taken.       *)
(***************************************************************************)
EXTENDS Integers

CONSTANTS Requests, \* handlers that may run at the same time
          Calls,    \* the requests the clients make
          Configs,  \* the configurations of resources
          Keys, Values,
          MaxDocs,  \* bound: documents ever created
          None      \* undefined

Ids == 1 .. MaxDocs

VARIABLES
  config,     \* the configuration of the resource
  docs,       \* the collection, by _id
  pc,         \* what each handler is waiting for
  call,       \* the request each handler serves
  held,       \* what each handler has found: an _id and its value
  out,        \* the answer each handler is about to send
  lastId,     \* the last id given
  seen,       \* history: what each request could have seen while it ran
  overlapped  \* history: the last request that began was not alone

vars == <<config, docs, pc, call, held, out, lastId, seen, overlapped>>

Config == [softDelete : BOOLEAN, uniques : BOOLEAN, returnDuplicate : BOOLEAN,
           user : BOOLEAN, \* a guard sets req.user
           fillables : BOOLEAN, updateFillables : BOOLEAN] \* the list is not empty

Document == [publicId : Ids, key : Keys \cup {None}, value : Values, deleted : BOOLEAN]
Found    == [id : Ids, key : Keys \cup {None}, value : Values] \* what a handler holds

Flags == {"absent", "true", "false"} \* the field deleted of a body

Create  == [op : {"create"}, key : Keys \cup {None}, value : Values, deleted : Flags]
ById    == [op : {"findOne", "remove"}, by : {"_id", "publicId"}, id : Ids]
Updates == [op : {"patch", "update"}, by : {"_id", "publicId"}, id : Ids,
            key : Keys \cup {None}, value : Values, deleted : Flags]
NoCall  == [op |-> "none"]

ASSUME BoundAssumption == MaxDocs \in Nat
ASSUME CallsAssumption == Calls \subseteq Create \cup ById \cup Updates
ASSUME ConfigAssumption == Configs \subseteq Config
ASSUME NoneAssumption ==
  None \notin Keys \cup Values \cup Document \cup Found
             \cup [key : Keys \cup {None}, value : Values]

-----------------------------------------------------------------------------
(* Queries and bodies.                                                     *)

(* The condition deleted: false. *)
Live(d, i) == d[i] # None /\ ~d[i].deleted

LiveDocs(d) == {i \in Ids : Live(d, i)}

(* findObject's condition: _id for an ObjectId, else publicId *)
Named(d, c) == {i \in Ids : /\ d[i] # None
                            /\ (IF c.by = "_id" THEN i ELSE d[i].publicId) = c.id}

(* Mutant of Existing: a key that the body lacks is not looked for. *)
ExistingGiven(d, key) ==
  {i \in LiveDocs(d) : config.uniques /\ key # None /\ d[i].key = key}

(* retrieveExistingResource *)
Existing(d, key) == {i \in LiveDocs(d) : config.uniques /\ d[i].key = key}

(* A request whose body names what config does not pick its fields from.   *)
Unpicked(c) ==
  \/ c.op = "create" /\ ~config.fillables /\ c.deleted = "true"
  \/ c.op \in {"patch", "update"} /\ ~config.updateFillables
     /\ (c.key # None \/ c.deleted # "absent")

(* What an update takes from its body: _.pick(obj, ...updateFillables). *)
Body(c) == [key     |-> IF config.updateFillables THEN None ELSE c.key,
            value   |-> c.value,
            deleted |-> IF config.updateFillables THEN "absent" ELSE c.deleted]

(* Document d with the fields that body names. *)
Fill(d, body) ==
  [d EXCEPT !.key     = IF body.key = None THEN d.key ELSE body.key,
            !.value   = body.value,
            !.deleted = (d.deleted \/ body.deleted = "true") /\ body.deleted # "false"]

(* save() leaves alone the fields that are as they were in the document    *)
(* found, which never holds deleted (select: false).                       *)
Save(d, body, h) ==
  Fill(d, [body EXCEPT !.key   = IF body.key = h.key THEN None ELSE body.key,
                       !.value = IF body.value = h.value THEN d.value ELSE body.value])

-----------------------------------------------------------------------------
(* What request c, whose handler has found h, sees of the collection d.    *)

Sight(d, c, h) ==
  LET target == IF h = None THEN Named(d, c) ELSE {h.id} IN
    CASE c.op = "create" -> {IF Existing(d, c.key) = {} THEN "free" ELSE "taken"}
      [] c.op \in {"findOne", "remove", "patch", "update"} ->
           {d[i].value : i \in {j \in target : d[j] # None}}
           \cup (IF \E i \in target : Live(d, i) THEN {} ELSE {None})
      [] OTHER -> {}

Observe ==
  seen' = [r \in Requests |-> IF pc'[r] = "idle" THEN {}
                              ELSE seen[r] \cup Sight(docs', call'[r], held'[r])]

-----------------------------------------------------------------------------

Init == /\ config \in Configs
        /\ docs = [i \in Ids |-> None]
        /\ pc   = [r \in Requests |-> "idle"]
        /\ call = [r \in Requests |-> NoCall]
        /\ held = [r \in Requests |-> None]
        /\ out  = [r \in Requests |-> None]
        /\ lastId = 0
        /\ seen = [r \in Requests |-> {}]
        /\ overlapped = FALSE

(* Handler r goes on to wait for step. *)
Await(r, step) == pc' = [pc EXCEPT ![r] = step] /\ UNCHANGED <<call, out>>

(* Handler r has its answer, and hands it to getResponse or to next(). *)
Answer(r, answer) == /\ pc'  = [pc EXCEPT ![r] = "reply"]
                     /\ out' = [out EXCEPT ![r] = answer]
                     /\ UNCHANGED <<call, held>>

Failed(status) == [status |-> status]
Ok(value)      == [status |-> "ok", value |-> value]

Receive(r) ==
  /\ pc[r] = "idle"
  /\ \E c \in Calls :
       /\ call' = [call EXCEPT ![r] = c]
       /\ pc' = [pc EXCEPT ![r] = IF c.op = "create" THEN "create" ELSE "object"]
  /\ overlapped' = \E q \in Requests \ {r} : pc[q] # "idle"
  /\ UNCHANGED <<docs, held, out, lastId>>

(* The answer is sent, or the request fails or dies with its process. *)
Finish(r) ==
  /\ pc[r] # "idle"
  /\ pc'   = [pc EXCEPT ![r] = "idle"]
  /\ call' = [call EXCEPT ![r] = NoCall]
  /\ held' = [held EXCEPT ![r] = None]
  /\ out'  = [out EXCEPT ![r] = None]
  /\ UNCHANGED <<docs, lastId, overlapped>>

-----------------------------------------------------------------------------
(* create: look for an existing resource, then save a new one.             *)

RetrieveExisting(r) ==
  /\ pc[r] = "create"
  /\ LET found == Existing(docs, call[r].key) IN
       \/ /\ found = {}
          /\ Await(r, "insert") /\ UNCHANGED held
       \/ /\ found # {} /\ ~config.returnDuplicate
          /\ Answer(r, Failed("conflict"))
       \/ /\ config.returnDuplicate
          /\ \E i \in found : Answer(r, [status |-> "duplicate", value |-> docs[i].value])
  /\ UNCHANGED <<docs, lastId, overlapped>>

(* createNewObject *)
Insert(r) ==
  /\ pc[r] = "insert"
  /\ lastId < MaxDocs
  /\ lastId' = lastId + 1
  /\ docs' = [docs EXCEPT ![lastId'] =
                [publicId |-> lastId', key |-> call[r].key, value |-> call[r].value,
                 deleted |-> ~config.fillables /\ call[r].deleted = "true"]]
  /\ Answer(r, Ok(call[r].value))
  /\ UNCHANGED overlapped

-----------------------------------------------------------------------------
(* findOne, patch, update and remove: find the object, then write.         *)

(* What a handler does after findObject. *)
NextStep(op) == CASE op = "patch"  -> "save"
                  [] op = "update" -> "upsert"
                  [] op = "remove" -> "delete"

(* remove reads req.user.walletAddress first, and throws without a user. *)
FindObject(r) ==
  /\ pc[r] = "object"
  /\ LET c     == call[r]
         found == {i \in Named(docs, c) : Live(docs, i)}
     IN \/ /\ c.op = "remove" /\ ~config.user
           /\ Answer(r, Failed("error"))
        \/ /\ c.op = "remove" => config.user
           /\ found = {}
           /\ Answer(r, Failed("not_found"))
        \/ /\ c.op = "findOne"
           /\ \E i \in found : Answer(r, Ok(docs[i].value))
        \/ /\ c.op # "findOne"
           /\ c.op = "remove" => config.user
           /\ \E i \in found :
                held' = [held EXCEPT ![r] =
                           [id |-> i, key |-> docs[i].key, value |-> docs[i].value]]
           /\ Await(r, NextStep(c.op))
  /\ UNCHANGED <<docs, lastId, overlapped>>

(* Mutant of SavePatch: the document is written as it was found. *)
SavePatchWhole(r) ==
  /\ pc[r] = "save"
  /\ LET i == held[r].id IN
       /\ docs[i] # None
       /\ docs' = [docs EXCEPT ![i].value = call[r].value, ![i].deleted = FALSE]
  /\ Answer(r, Ok(call[r].value))
  /\ UNCHANGED <<lastId, overlapped>>

(* Mutant of SavePatch: that nothing was matched is not an error. *)
SavePatchUnmatched(r) ==
  /\ pc[r] = "save"
  /\ LET i == held[r].id IN
       docs' = IF docs[i] = None THEN docs ELSE [docs EXCEPT ![i].value = call[r].value]
  /\ Answer(r, Ok(call[r].value))
  /\ UNCHANGED <<lastId, overlapped>>

(* patchUpdate: save() writes what differs from the document found, to the *)
(* document with its _id, and throws when there is none.                   *)
SavePatch(r) ==
  /\ pc[r] = "save"
  /\ LET i     == held[r].id
         value == call[r].value
     IN \/ /\ docs[i] = None
           /\ Answer(r, Failed("error"))
           /\ UNCHANGED docs
        \/ /\ docs[i] # None
           /\ docs' = [docs EXCEPT ![i] = Save(docs[i], Body(call[r]), held[r])]
           /\ Answer(r, Ok(value))
  /\ UNCHANGED <<lastId, overlapped>>

(* Mutant of Upsert: $setOnInsert is left out. *)
UpsertUnnamed(r) ==
  /\ pc[r] = "upsert" /\ call[r].by = "_id"
  /\ LET i == call[r].id
         d == IF docs[i] # None THEN docs[i]
              ELSE [publicId |-> None, key |-> None, value |-> None, deleted |-> FALSE]
     IN  docs' = [docs EXCEPT ![i] = [d EXCEPT !.value = call[r].value]]
  /\ Answer(r, Ok(call[r].value))
  /\ UNCHANGED <<lastId, overlapped>>

(* updateObject takes id for an _id, which a public id is not, and inserts *)
(* the document when it is no longer there.                                *)
Upsert(r) ==
  /\ pc[r] = "upsert"
  /\ LET i     == call[r].id
         value == call[r].value
     IN \/ /\ call[r].by = "publicId"
           /\ Answer(r, Failed("error"))
           /\ UNCHANGED <<docs, lastId>>
        \/ /\ call[r].by = "_id" /\ docs[i] # None
           /\ docs' = [docs EXCEPT ![i] = Fill(docs[i], Body(call[r]))]
           /\ Answer(r, Ok(value))
           /\ UNCHANGED lastId
        \/ /\ call[r].by = "_id" /\ docs[i] = None
           /\ lastId < MaxDocs
           /\ lastId' = lastId + 1
           /\ docs' = [docs EXCEPT ![i] =
                         Fill([publicId |-> lastId', key |-> None, value |-> value,
                               deleted |-> FALSE], Body(call[r]))]
           /\ Answer(r, Ok(value))
  /\ UNCHANGED overlapped

(* deleteObject: save() with deleted: true, to a document that is there    *)
(* since such a resource removes none; or remove(), which does not mind    *)
(* that there is nothing to remove.                                        *)
Delete(r) ==
  /\ pc[r] = "delete"
  /\ LET i == held[r].id IN
       \/ /\ ~config.softDelete
          /\ docs' = [docs EXCEPT ![i] = None]
       \/ /\ config.softDelete
          /\ docs' = [docs EXCEPT ![i].deleted = TRUE]
  /\ Answer(r, [status |-> "removed"])
  /\ UNCHANGED <<lastId, overlapped>>

-----------------------------------------------------------------------------

Creating(r) == RetrieveExisting(r) \/ Insert(r)

OnObject(r) == FindObject(r) \/ SavePatch(r) \/ Upsert(r) \/ Delete(r)

Step(r) == Creating(r) \/ OnObject(r)

Next == /\ \E r \in Requests : Receive(r) \/ Step(r) \/ Finish(r)
        /\ Observe
        /\ UNCHANGED config

Spec == Init /\ [][Next]_vars
-----------------------------------------------------------------------------
(* Properties.                                                             *)

Steps == {"idle", "create", "insert", "object", "save", "upsert", "delete", "reply"}

Answers == [status : {"conflict", "error", "not_found", "removed"}]
           \cup [status : {"ok", "duplicate"}, value : Values]

(* A step in which r writes what its body names. *)
Writes(r) == pc[r] \in {"insert", "save", "upsert"} /\ pc'[r] = "reply"

(* The variables hold what the schema and the handlers allow. *)
TypeOK ==
  /\ config \in Configs
  /\ docs \in [Ids -> Document \cup {None}]
  /\ pc \in [Requests -> Steps]
  /\ call \in [Requests -> Calls \cup {NoCall}]
  /\ held \in [Requests -> Found \cup {None}]
  /\ out \in [Requests -> Answers \cup {None}]
  /\ lastId \in 0 .. MaxDocs
  /\ seen \in [Requests -> SUBSET (Values \cup {None, "free", "taken"})]
  /\ overlapped \in BOOLEAN

(* Where config says softDelete, a document that is deleted stays deleted, *)
(* whichever patches and updates found it before, unless the body of one   *)
(* that picks nothing says deleted: false (base.service.ts:49-63, 71-77,   *)
(* 108-110).                                                               *)
SoftDeletedStays ==
  [][\A i \in Ids :
       config.softDelete /\ docs[i] # None /\ docs[i].deleted
       => \/ docs'[i] # None /\ docs'[i].deleted
          \/ \E r \in Requests : Writes(r) /\ held[r].id = i
                               /\ ~config.updateFillables /\ call[r].deleted = "false"]_vars

(* What a handler answers was true at some time while its request ran: the *)
(* value it returns was stored, what it removed or did not find was not    *)
(* there, the key it took was free and the one it refused was taken,       *)
(* however many handlers wrote meanwhile (base.controller.ts:77-102,       *)
(* 203-204, 242-253, 291-301).                                             *)
AnswersWereTrue ==
  \A r \in Requests : pc[r] = "reply" =>
    LET status == out[r].status IN
      /\ status \in {"not_found", "removed"} => None \in seen[r]
      /\ status \in {"conflict", "duplicate"} => "taken" \in seen[r]
      /\ status = "ok" => (IF call[r].op = "create" THEN "free" ELSE out[r].value) \in seen[r]

(* The collection, read as the resource of module Resource. *)
Stored == [i \in Ids |-> IF Live(docs, i)
                         THEN [key |-> docs[i].key, value |-> docs[i].value] ELSE None]

Gone == {i \in 1 .. lastId : ~Live(docs, i)}

Promise == INSTANCE Resource WITH
  Keys <- Keys \cup {None}, unique <- config.uniques, live <- Stored, gone <- Gone

(* Every step of a request that runs alone is one of Resource, whatever    *)
(* overlapping requests have stored before it: unique keys, changes to     *)
(* what lives only, and removal for good.  What is excepted are the bodies *)
(* that set a key or deleted where the lists of fillables are empty        *)
(* (base.controller.ts:60-311, base.service.ts:49-53, 71-75).              *)
KeepsResource ==
  /\ Promise!ResourceInit
  /\ [][\/ overlapped'
        \/ \E r \in Requests : Writes(r) /\ Unpicked(call[r])
        \/ Promise!ResourceNext]_(Promise!resource)
=============================================================================
