------------------------------ MODULE Resource ------------------------------
(***************************************************************************)
(* What a resource of the CRUD base promises, request by request: a        *)
(* document is added under a key no other live document has, changed while *)
(* it lives, and gone for good once it is removed.                         *)
(***************************************************************************)
CONSTANTS Ids, Keys, Values, None

VARIABLES unique, \* whether the resource names a unique key
          live,   \* the documents that live, None for the other ids
          gone    \* ids of documents that lived

resource == <<unique, live, gone>>

Alive == {i \in Ids : live[i] # None}

ResourceInit == /\ unique \in BOOLEAN
                /\ live = [i \in Ids |-> None]
                /\ gone = {}

Add(i, key, value) ==
  /\ i \notin Alive \cup gone
  /\ unique => \A j \in Alive : live[j].key # key
  /\ live' = [live EXCEPT ![i] = [key |-> key, value |-> value]]
  /\ UNCHANGED <<unique, gone>>

Change(i, value) ==
  /\ i \in Alive
  /\ live' = [live EXCEPT ![i].value = value]
  /\ UNCHANGED <<unique, gone>>

Remove(i) ==
  /\ i \in Alive
  /\ live' = [live EXCEPT ![i] = None]
  /\ gone' = gone \cup {i}
  /\ UNCHANGED unique

ResourceNext ==
  \E i \in Ids :
    \/ \E key \in Keys, value \in Values : Add(i, key, value)
    \/ \E value \in Values : Change(i, value)
    \/ Remove(i)
=============================================================================
