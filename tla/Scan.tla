-------------------------------- MODULE Scan --------------------------------
(***************************************************************************)
(* What an iteration over a collection promises while the collection       *)
(* changes: it delivers objects in such an order that whatever stays in    *)
(* the collection is never passed over, and it is over only when all of    *)
(* that has been delivered.                                                *)
(***************************************************************************)
EXTENDS Naturals

CONSTANT Uuids

VARIABLES
  staying,    \* objects that have been in the collection from the start
  delivered,  \* objects delivered
  over        \* whether an iteration has come to its end

scanVars == <<staying, delivered, over>>

Init == staying \subseteq Uuids /\ delivered = {} /\ over = FALSE

Leave(u) ==
  /\ staying' = staying \ {u}
  /\ UNCHANGED <<delivered, over>>

Deliver(u) ==
  /\ \A v \in staying : v < u => v \in delivered
  /\ delivered' = delivered \cup {u}
  /\ UNCHANGED <<staying, over>>

End ==
  /\ staying \subseteq delivered
  /\ over' = TRUE
  /\ UNCHANGED <<staying, delivered>>

Next == End \/ \E u \in Uuids : Leave(u) \/ Deliver(u)

Spec == Init /\ [][Next]_scanVars
=============================================================================
