------------------------------ MODULE Delivery ------------------------------
(***************************************************************************)
(* What a batch stream promises to the application, while the server       *)
(* refuses nothing and no stream is renewed: entries are accepted one by   *)
(* one, each gets the outcome that is its own, at its place among the      *)
(* entries of its kind, for good, in whatever order outcomes arrive; and   *)
(* when the stream is over, which it is only once the application has      *)
(* closed it, nothing accepted before that is without an outcome, and      *)
(* nothing that is read then ever changes.                                 *)
(***************************************************************************)
EXTENDS Naturals, Sequences

CONSTANTS Entries, Kinds, KindOf, Places, OutcomeOf, NoOutcome

VARIABLES
  accepted,   \* accepted[k]: entries of kind k accepted, in order
  outcome,    \* outcome[k][i]: what is known of the entry at place i, from 0
  closed,     \* whether the application has closed the stream
  due,        \* due[k]: how many entries had been accepted by then
  over        \* whether the stream has ended

deliveryVars == <<accepted, outcome, closed, due, over>>

Init ==
  /\ accepted = [k \in Kinds |-> <<>>]
  /\ outcome = [k \in Kinds |-> [i \in Places |-> NoOutcome]]
  /\ closed = FALSE /\ due = [k \in Kinds |-> 0]
  /\ over = FALSE

Accept(e) ==
  /\ \A k \in Kinds : \A i \in DOMAIN accepted[k] : accepted[k][i] # e
  /\ accepted' = [accepted EXCEPT ![KindOf[e]] = Append(@, e)]
  /\ UNCHANGED <<outcome, closed, due, over>>

Close ==
  /\ ~closed
  /\ closed' = TRUE /\ due' = [k \in Kinds |-> Len(accepted[k])]
  /\ UNCHANGED <<accepted, outcome, over>>

Report(k, i) ==
  /\ ~over /\ i < Len(accepted[k]) /\ outcome[k][i] = NoOutcome
  /\ outcome' = [outcome EXCEPT ![k][i] = OutcomeOf[accepted[k][i + 1]]]
  /\ UNCHANGED <<accepted, closed, due, over>>

End ==
  /\ closed /\ ~over
  /\ \A k \in Kinds, i \in Places : i < due[k] => outcome[k][i] # NoOutcome
  /\ over' = TRUE
  /\ UNCHANGED <<accepted, outcome, closed, due>>

Next ==
  \/ \E e \in Entries : Accept(e)
  \/ Close \/ End
  \/ \E k \in Kinds, i \in Places : Report(k, i)

Spec == Init /\ [][Next]_deliveryVars
=============================================================================
