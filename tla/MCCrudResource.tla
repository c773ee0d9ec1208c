--------------------------- MODULE MCCrudResource ---------------------------
(* The requests and configurations of the run of CrudResource.             *)
EXTENDS CrudResource, TLC

(* A patch or an update by _id may name a key or deleted: false, and a     *)
(* patch or a create deleted: true.                                        *)
SomeCalls == UNION {
  {c \in Create : c.deleted = "absent" \/ (c.deleted = "true" /\ c.key # None)}, ById,
  {c \in Updates : /\ c.by = "_id" \/ (c.key = None /\ c.deleted = "absent")
                   /\ c.key = None \/ c.deleted = "absent"
                   /\ c.deleted = "true" => c.op = "patch"} }

(* returnDuplicate matters where there are unique keys, user to remove;    *)
(* the lists of fillables are empty, which is the default, or not.         *)
SomeConfigs == {c \in Config :
  /\ c.returnDuplicate => c.uniques /\ ~c.softDelete
  /\ c.user = c.uniques
  /\ c.uniques \/ c.softDelete
  /\ c.fillables = c.updateFillables
  /\ c.fillables \/ (c.softDelete /\ c.uniques)}

(* A field that a list of fillables drops need not be in the body; where   *)
(* the lists are empty, objects are found by _id, to change or remove.     *)
WhatIsRead == \A r \in Requests :
  LET c == call[r] IN
    IF c.op \in {"patch", "update"}
    THEN IF config.updateFillables THEN c.key = None /\ c.deleted = "absent" ELSE c.by = "_id"
    ELSE IF c.op = "create" THEN config.fillables => c.deleted = "absent"
    ELSE c.op \in {"findOne", "remove"} /\ ~config.updateFillables =>
           c.op = "remove" /\ c.by = "_id"

Symmetry == Permutations(Requests) \cup Permutations(Values)
=============================================================================
