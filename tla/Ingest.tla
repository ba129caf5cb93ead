-------------------------------- MODULE Ingest ------------------------------
(***************************************************************************)
(* ingest of src/src/collections/data/index.ts: a Batcher whose calls are  *)
(* the objects of ingest one after the other, then stop; what it returns   *)
(* are the uuids and errors that the Batcher holds by index, put in order. *)
(***************************************************************************)
EXTENDS Batcher

UuidAt(i) == successes["obj"][i]
ErrorAt(i) == errors["obj"][i]

\* Mutant: only the uuids are counted.
UuidCount == Cardinality({i \in Indices : UuidAt(i) # NoKey})

\* Object.keys(uuids).length + Object.keys(errors).length
ResultCount == UuidCount + Cardinality({i \in Indices : ErrorAt(i) # NoEntry})

\* The loop over as many indices, from 0: a uuid before an error, and nothing
\* for an index that has neither.
Pushed == {i \in Indices : i < ResultCount /\ (UuidAt(i) # NoKey \/ ErrorAt(i) # NoEntry)}
ResponseAt(i) ==
  IF UuidAt(i) # NoKey THEN [uuid |-> UuidAt(i), error |-> NoEntry]
  ELSE [uuid |-> NoKey, error |-> ErrorAt(i)]

\* The j-th of a set of indices.
NthOf(S, j) == CHOOSE i \in S : Cardinality({h \in S : h < i}) = j - 1
AllResponses == [j \in 1 .. Cardinality(Pushed) |-> ResponseAt(NthOf(Pushed, j))]

\* What ingest should return for object e.
ResponseTo(e) ==
  IF e \in Failing THEN [uuid |-> NoKey, error |-> e]
  ELSE [uuid |-> KeyOf[e], error |-> NoEntry]

\* When ingest returns after a stream that ended well, allResponses has one
\* response for each of its objects, in their order, each the object's own, if
\* their uuids differ and nothing was refused or renewed: no index is missing
\* among the results, whatever the order in which they came.  (ingest awaits
\* every add before it calls stop.)
IngestAnswersAll ==
  Undisturbed /\ DistinctKeys =>
    (rx = "ended" /\ stopping = "resolved" /\ Len(accepted["obj"]) = acceptedAtStop["obj"]
       => AllResponses = [i \in DOMAIN accepted["obj"] |-> ResponseTo(accepted["obj"][i])])
=============================================================================
