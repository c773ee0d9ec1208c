---------------------------- MODULE JobDelivery ----------------------------
(* What the job queue promises: a job reaches its provider at most once.   *)
(* It may not reach it at all.                                             *)
CONSTANT Jobs

VARIABLES pending,   \* submitted, and not settled yet
          delivered, \* given to the provider
          dropped    \* never to be delivered

delivery == <<pending, delivered, dropped>>

DeliveryInit == pending = {} /\ delivered = {} /\ dropped = {}

Submit(j) == /\ j \notin pending \cup delivered \cup dropped
             /\ pending' = pending \cup {j}
             /\ UNCHANGED <<delivered, dropped>>

Deliver(j) == /\ j \in pending
              /\ pending'   = pending \ {j}
              /\ delivered' = delivered \cup {j}
              /\ UNCHANGED dropped

(* A crash drops several jobs at once, submitted or about to be. *)
Drop(S) == /\ S \cap delivered = {}
           /\ pending' = pending \ S
           /\ dropped' = dropped \cup S
           /\ UNCHANGED delivered

DeliveryNext == \/ \E j \in Jobs : Submit(j) \/ Deliver(j)
                \/ \E S \in SUBSET Jobs : Drop(S)

DeliverySpec == DeliveryInit /\ [][DeliveryNext]_delivery
=============================================================================
