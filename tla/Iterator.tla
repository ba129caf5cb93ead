------------------------------ MODULE Iterator ------------------------------
(***************************************************************************)
(* The Iterator of src/src/collections/iterator/index.ts: loops over one   *)
(* Iterator, each a sequence of calls of next, and a collection that       *)
(* changes meanwhile.                                                      *)
(*                                                                         *)
(* The cursor belongs to the Iterator: every loop reads it when it calls   *)
(* next, and sets it when its answer arrives.  A query may fail; the loop  *)
(* then ends, and the application may start it again on the same Iterator. *)
(* Uuids are numbers, in the order in which Weaviate lists objects.        *)
(***************************************************************************)
EXTENDS Naturals, FiniteSets, FiniteSetsExt

CONSTANTS
  Uuids,             \* the uuids objects may have
  Loops,             \* the loops over the Iterator
  IteratorCacheSize, \* ITERATOR_CACHE_SIZE, the limit of a query
  MaxChanges,        \* bound: insertions and removals of objects
  MaxFailures        \* bound: failed queries

ASSUME UuidsAssumption == Uuids \subseteq Nat \ {0}
ASSUME BoundsAssumption ==
  IteratorCacheSize \in Nat \ {0} /\ MaxChanges \in Nat /\ MaxFailures \in Nat

VARIABLES
  last,        \* the cursor, 0 when undefined
  loop,        \* loop[l]: where loop l stands
  after,       \* after[l]: the cursor l's query was sent with
  page,        \* page[l]: the answer on its way to l
  present,     \* the objects of the collection
  changes, failures,
  staying,     \* history: objects present since the Iterator was made
  delivered,   \* history: objects that loops have returned
  repeated,    \* history: whether an object came again, or too late
  overlapped   \* history: whether two calls of next were ever in flight

iteratorVars == <<last, loop, after, page, present, changes, failures, staying,
                  delivered, repeated, overlapped>>
historyVars == <<staying, delivered, repeated, overlapped>>

IteratorInit ==
  /\ last = 0
  /\ loop = [l \in Loops |-> "out"]
  /\ after = [l \in Loops |-> 0]
  /\ page = [l \in Loops |-> {}]
  /\ present \in SUBSET Uuids
  /\ changes = 0 /\ failures = 0
  /\ staying = present
  /\ delivered = {}
  /\ repeated = FALSE /\ overlapped = FALSE

InFlight(l) == loop[l] \in {"asked", "answered"}

\* next sends a query from the cursor: at the start of a loop, after the body
\* of a for await, or in a new loop after a failure.
CallNext(l) ==
  /\ loop[l] \in {"out", "body", "failed"}
  /\ loop' = [loop EXCEPT ![l] = "asked"]
  /\ after' = [after EXCEPT ![l] = last]
  /\ overlapped' = (overlapped \/ \E k \in Loops : InFlight(k))
  /\ UNCHANGED <<last, page, present, changes, failures, staying, delivered, repeated>>

\* What Weaviate answers: the first objects after the cursor.
Listed(cursor, objects) ==
  LET Later == {u \in objects : u > cursor}
  IN  {u \in Later : Cardinality({v \in Later : v < u}) < IteratorCacheSize}

Answer(l) ==
  /\ loop[l] = "asked"
  /\ loop' = [loop EXCEPT ![l] = "answered"]
  /\ page' = [page EXCEPT ![l] = Listed(after[l], present)]
  /\ UNCHANGED <<last, after, present, changes, failures, historyVars>>

\* shift: the object of a page that is returned.
First(objects) == CHOOSE u \in objects : \A v \in objects : u <= v

\* Mutants: the cursor moves past the whole page, as if the cache were used;
\* it does not move.
LastOfPage(objects) == CHOOSE u \in objects : \A v \in objects : v <= u
SameCursor(objects) == last

\* The cursor after a page.
Cursor(objects) == First(objects)

\* The answer arrives: an empty page ends the loop.
Receive(l) ==
  /\ loop[l] = "answered"
  /\ page' = [page EXCEPT ![l] = {}]
  /\ \/ /\ page[l] = {}
        /\ loop' = [loop EXCEPT ![l] = "done"]
        /\ UNCHANGED <<last, delivered, repeated>>
     \/ /\ page[l] # {}
        /\ loop' = [loop EXCEPT ![l] = "body"]
        /\ last' = Cursor(page[l])
        /\ repeated' = (repeated \/ \E u \in delivered : First(page[l]) <= u)
        /\ delivered' = delivered \cup {First(page[l])}
  /\ UNCHANGED <<after, present, changes, failures, staying, overlapped>>

\* The query fails, or its answer is lost: next rejects and the loop ends.
QueryFails(l) ==
  /\ InFlight(l) /\ failures < MaxFailures
  /\ failures' = failures + 1
  /\ loop' = [loop EXCEPT ![l] = "failed"]
  /\ page' = [page EXCEPT ![l] = {}]
  /\ UNCHANGED <<last, after, present, changes, historyVars>>

\* Clients insert and remove objects.
Change(u) ==
  /\ changes < MaxChanges
  /\ changes' = changes + 1
  /\ \/ u \notin present /\ present' = present \cup {u} /\ UNCHANGED staying
     \/ u \in present /\ present' = present \ {u} /\ staying' = staying \ {u}
  /\ UNCHANGED <<last, loop, after, page, failures, delivered, repeated, overlapped>>

IteratorNext ==
  \/ \E l \in Loops : CallNext(l) \/ Answer(l) \/ Receive(l) \/ QueryFails(l)
  \/ \E u \in Uuids : Change(u)

\* A for await calls next after each body, the server answers, and the event
\* loop runs the continuation.  Whether a loop is started, or started again
\* after a failure, is the application's choice.
IteratorFairness ==
  WF_iteratorVars(\E l \in Loops : (loop[l] = "body" /\ CallNext(l)) \/ Answer(l) \/ Receive(l))

IteratorSpec == IteratorInit /\ [][IteratorNext]_iteratorVars /\ IteratorFairness

-----------------------------------------------------------------------------
\* Types of the state; the other properties say what the histories hold.
IteratorTypeOK ==
  /\ last \in Uuids \cup {0}
  /\ loop \in [Loops -> {"out", "asked", "answered", "body", "done", "failed"}]
  /\ after \in [Loops -> Uuids \cup {0}]
  /\ page \in [Loops -> SUBSET Uuids]
  /\ present \subseteq Uuids /\ staying \subseteq present
  /\ delivered \subseteq Uuids
  /\ repeated \in BOOLEAN /\ overlapped \in BOOLEAN
  /\ changes \in Nat /\ failures \in Nat

\* An object comes twice, or after a later one, only when two calls of next
\* were in flight at once: loops that share an Iterator but not the time of
\* their calls, and loops started again after a failure, repeat nothing.
RepeatsNeedOverlap == repeated => overlapped

\* What has been passed by the cursor was delivered, unless it left the
\* collection: objects that come and go, failures and loops that share the
\* cursor never make an iteration skip one.
NothingSkipped == \A u \in staying : u <= last => u \in delivered

S == INSTANCE Scan WITH over <- (\E l \in Loops : loop[l] = "done")

\* The loops over one Iterator together are a scan of the collection: they
\* pass nothing over, and a loop that ends has seen all that stayed delivered
\* by one of them.
ImplementsScan == S!Spec

\* Every loop ends, so that time and again none is under way: the cursor does
\* not go round in circles, even when late answers move it back.
LoopEnds == []<>(\A l \in Loops : loop[l] \in {"out", "done", "failed"})
=============================================================================
