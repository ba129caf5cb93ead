---------------------------- MODULE IteratorProofs --------------------------
(***************************************************************************)
(* Proofs about Iterator, for every set of uuids, every limit of a query   *)
(* and any number of loops, changes and failures; last of all, that the    *)
(* loops over one Iterator together implement Scan.                        *)
(***************************************************************************)
EXTENDS Iterator, FiniteSetTheorems, WellFoundedInduction, TLAPS

-----------------------------------------------------------------------------
(***************************************************************************)
(* What a page holds: its first object is the first after the cursor.      *)
(***************************************************************************)
LEMMA NatHasNoDescent ==
  \E R : IsWellFoundedOn(R, Nat) /\ R = {ss \in Nat \X Nat : ss[1] < ss[2]}
<1>1. \E R : IsWellFoundedOn(R, Nat) /\ R = OpToRel(<, Nat)
  BY NatLessThanWellFounded, Zenon
<1>2. OpToRel(<, Nat) = {ss \in Nat \X Nat : ss[1] < ss[2]}
  BY Zenon DEF OpToRel
<1> QED
  BY <1>1, <1>2, Zenon

LEMMA SmallestExists ==
  ASSUME NEW T, T \subseteq Nat, T # {}
  PROVE  \E x \in T : \A y \in T : x <= y
<1>1. PICK R : IsWellFoundedOn(R, Nat) /\ R = {ss \in Nat \X Nat : ss[1] < ss[2]}
  BY NatHasNoDescent
<1>2. PICK x \in T : \A y \in T : <<y, x>> \notin R
  BY <1>1, WFMin
<1>3. ASSUME NEW y \in T PROVE x <= y
  <2>1. x \in Nat /\ y \in Nat /\ <<y, x>> \in Nat \X Nat
    OBVIOUS
  <2>2. ~(y < x)
    BY <1>1, <1>2, <2>1
  <2> QED
    BY <2>1, <2>2
<1> QED
  BY <1>3

LEMMA FirstIsSmallest ==
  ASSUME NEW objects, objects \subseteq Nat, objects # {}
  PROVE  First(objects) \in objects /\ \A u \in objects : First(objects) <= u
BY SmallestExists DEF First

LEMMA ListedHasFirst ==
  ASSUME NEW cursor \in Nat, NEW objects, objects \subseteq Nat
  PROVE  /\ Listed(cursor, objects) \subseteq {u \in objects : u > cursor}
         /\ \A u \in objects : u > cursor =>
              Listed(cursor, objects) # {} /\ First(Listed(cursor, objects)) <= u
<1> DEFINE Later == {u \in objects : u > cursor}
<1>1. Listed(cursor, objects) \subseteq Later
  BY DEF Listed
<1>2. ASSUME NEW u \in objects, u > cursor
      PROVE  Listed(cursor, objects) # {} /\ First(Listed(cursor, objects)) <= u
  <2>1. PICK least \in Later : \A v \in Later : least <= v
    BY <1>2, SmallestExists
  <2>2. {v \in Later : v < least} = {}
    <3> SUFFICES ASSUME NEW v \in Later, v < least PROVE FALSE
      OBVIOUS
    <3>1. v \in Nat /\ least \in Nat /\ least <= v
      BY <2>1
    <3> QED
      BY <3>1
  <2>3. least \in Listed(cursor, objects)
    <3>1. Cardinality({v \in Later : v < least}) = 0
      BY <2>2, FS_EmptySet
    <3> QED
      BY <3>1, BoundsAssumption DEF Listed
  <2>4. First(Listed(cursor, objects)) <= least
    BY <1>1, <2>3, FirstIsSmallest
  <2>5. Listed(cursor, objects) \subseteq Nat
    BY <1>1
  <2>6. First(Listed(cursor, objects)) \in Nat
    BY <2>3, <2>5, FirstIsSmallest
  <2> QED
    BY <1>2, <2>1, <2>3, <2>4, <2>6
<1> QED
  BY <1>1, <1>2

-----------------------------------------------------------------------------
(***************************************************************************)
(* The inductive invariant.                                                *)
(***************************************************************************)
\* A query was sent from a cursor that had passed nothing over.
SentFromDelivered ==
  \A l \in Loops : InFlight(l) => \A u \in staying : u <= after[l] => u \in delivered

\* A page starts with the first object after its cursor, or an earlier one that
\* has come since; it has one if anything that stayed is left.
PagesAreNext ==
  \A l \in Loops : loop[l] = "answered" =>
    /\ \A u \in page[l] : u > after[l]
    /\ \A u \in staying : u > after[l] => page[l] # {} /\ First(page[l]) <= u

\* A loop ends when everything that stayed has been delivered.
DoneIsAll == (\E l \in Loops : loop[l] = "done") => staying \subseteq delivered

\* Without overlap one query is in flight, sent from the cursor, and nothing
\* after the cursor has been delivered.
OneAtATime ==
  ~overlapped =>
    /\ ~repeated
    /\ \A l \in Loops : InFlight(l) => after[l] = last
    /\ \A k, l \in Loops : InFlight(k) /\ InFlight(l) => k = l
    /\ \A u \in delivered : u <= last

IInv ==
  /\ IteratorTypeOK
  /\ NothingSkipped /\ SentFromDelivered /\ PagesAreNext /\ DoneIsAll
  /\ OneAtATime

-----------------------------------------------------------------------------
LEMMA InitIInv == IteratorInit => IInv
<1> SUFFICES ASSUME IteratorInit PROVE IInv
  OBVIOUS
<1> USE UuidsAssumption DEF IteratorInit
<1>1. IteratorTypeOK
  <2>1. /\ last \in Uuids \cup {0} /\ after \in [Loops -> Uuids \cup {0}]
        /\ page \in [Loops -> SUBSET Uuids]
        /\ present \subseteq Uuids /\ staying \subseteq present
        /\ delivered \subseteq Uuids /\ changes \in Nat /\ failures \in Nat
    OBVIOUS
  <2>2. loop \in [Loops -> {"out", "asked", "answered", "body", "done", "failed"}]
    OBVIOUS
  <2>3. repeated \in BOOLEAN /\ overlapped \in BOOLEAN
    BY Zenon
  <2> QED
    BY <2>1, <2>2, <2>3, Zenon DEF IteratorTypeOK
<1>2. \A l \in Loops : loop[l] = "out"
  OBVIOUS
<1>3. NothingSkipped
  BY DEF NothingSkipped
<1>4. SentFromDelivered /\ PagesAreNext /\ DoneIsAll /\ OneAtATime
  BY <1>2 DEF SentFromDelivered, PagesAreNext, DoneIsAll, OneAtATime, InFlight
<1> QED
  BY <1>1, <1>3, <1>4 DEF IInv

\* The types that make the comparisons of uuids meaningful.
LEMMA Numbers ==
  ASSUME IteratorTypeOK
  PROVE  /\ last \in Nat /\ staying \subseteq Nat /\ delivered \subseteq Nat
         /\ present \subseteq Nat
         /\ \A l \in Loops : after[l] \in Nat /\ page[l] \subseteq Nat
<1>1. Uuids \subseteq Nat
  BY UuidsAssumption
<1>2. last \in Nat /\ present \subseteq Nat /\ delivered \subseteq Nat
  BY <1>1 DEF IteratorTypeOK
<1>3. staying \subseteq Nat
  BY <1>2 DEF IteratorTypeOK
<1>4. \A l \in Loops : after[l] \in Nat /\ page[l] \subseteq Nat
  <2> SUFFICES ASSUME NEW l \in Loops PROVE after[l] \in Nat /\ page[l] \subseteq Nat
    OBVIOUS
  <2>1. after[l] \in Uuids \cup {0} /\ page[l] \in SUBSET Uuids
    BY DEF IteratorTypeOK
  <2>2. after[l] \in Nat
    <3>1. Uuids \cup {0} \subseteq Nat
      BY <1>1
    <3> QED
      BY <2>1, <3>1, Zenon
  <2>3. page[l] \subseteq Nat
    BY <1>1, <2>1
  <2> QED
    BY <2>2, <2>3
<1> QED
  BY <1>2, <1>3, <1>4

LEMMA CallNextIInv ==
  ASSUME IInv, NEW l \in Loops, CallNext(l)
  PROVE  IInv'
<1> USE DEF IInv
<1>1. /\ loop[l] \in {"out", "body", "failed"}
      /\ loop' = [loop EXCEPT ![l] = "asked"]
      /\ after' = [after EXCEPT ![l] = last]
      /\ overlapped' = (overlapped \/ \E k \in Loops : InFlight(k))
      /\ UNCHANGED <<last, page, present, changes, failures, staying, delivered, repeated>>
  BY DEF CallNext
<1>2. IteratorTypeOK'
  <2>1. overlapped' \in BOOLEAN
    BY <1>1, Zenon
  <2> QED
    BY <1>1, <2>1 DEF IteratorTypeOK
<1>3. \A k \in Loops : k # l => loop'[k] = loop[k] /\ after'[k] = after[k]
  BY <1>1 DEF IteratorTypeOK
<1>4. loop'[l] = "asked" /\ after'[l] = last
  BY <1>1 DEF IteratorTypeOK
<1>5. NothingSkipped' /\ SentFromDelivered'
  BY <1>1, <1>3, <1>4 DEF NothingSkipped, SentFromDelivered, InFlight
<1>6. PagesAreNext' /\ DoneIsAll'
  BY <1>1, <1>3, <1>4 DEF PagesAreNext, DoneIsAll
<1>7. OneAtATime'
  BY <1>1, <1>3, <1>4 DEF OneAtATime, InFlight
<1> QED
  BY <1>2, <1>5, <1>6, <1>7

LEMMA AnswerIInv ==
  ASSUME IInv, NEW l \in Loops, Answer(l)
  PROVE  IInv'
<1> USE DEF IInv
<1>1. /\ loop[l] = "asked"
      /\ loop' = [loop EXCEPT ![l] = "answered"]
      /\ page' = [page EXCEPT ![l] = Listed(after[l], present)]
      /\ UNCHANGED <<last, after, present, changes, failures, staying, delivered, repeated,
                     overlapped>>
  BY DEF Answer, historyVars
<1>2. /\ Listed(after[l], present) \subseteq {u \in present : u > after[l]}
      /\ \A u \in present : u > after[l] =>
           Listed(after[l], present) # {} /\ First(Listed(after[l], present)) <= u
  BY Numbers, ListedHasFirst
<1>3. IteratorTypeOK'
  BY <1>1, <1>2 DEF IteratorTypeOK
<1>4. /\ \A k \in Loops : k # l => loop'[k] = loop[k] /\ page'[k] = page[k]
      /\ loop'[l] = "answered" /\ page'[l] = Listed(after[l], present)
  BY <1>1 DEF IteratorTypeOK
<1>5. \A k \in Loops : InFlight(k)' <=> InFlight(k)
  BY <1>1, <1>4 DEF InFlight
<1>6. NothingSkipped' /\ SentFromDelivered' /\ OneAtATime'
  BY <1>1, <1>5 DEF NothingSkipped, SentFromDelivered, OneAtATime
<1>7. PagesAreNext'
  BY <1>1, <1>2, <1>4 DEF PagesAreNext, IteratorTypeOK
<1>8. DoneIsAll'
  BY <1>1, <1>4 DEF DoneIsAll
<1> QED
  BY <1>3, <1>6, <1>7, <1>8

LEMMA ReceiveIInv ==
  ASSUME IInv, NEW l \in Loops, Receive(l)
  PROVE  IInv'
<1> USE DEF IInv
<1>1. /\ loop[l] = "answered" /\ InFlight(l)
      /\ page' = [page EXCEPT ![l] = {}]
      /\ UNCHANGED <<after, present, changes, failures, staying, overlapped>>
  BY DEF Receive, InFlight
<1>2. CASE page[l] = {}
  <2>1. loop' = [loop EXCEPT ![l] = "done"] /\ UNCHANGED <<last, delivered, repeated>>
    BY <1>2 DEF Receive
  <2>2. \A u \in staying : u <= after[l]
    BY <1>1, <1>2, Numbers DEF PagesAreNext
  <2>3. staying \subseteq delivered
    BY <1>1, <2>2 DEF SentFromDelivered
  <2>4. IteratorTypeOK'
    BY <1>1, <2>1 DEF IteratorTypeOK
  <2>5. /\ \A k \in Loops : k # l => loop'[k] = loop[k] /\ page'[k] = page[k]
        /\ loop'[l] = "done"
    BY <1>1, <2>1 DEF IteratorTypeOK
  <2>6. \A k \in Loops : InFlight(k)' => InFlight(k)
    BY <2>5 DEF InFlight
  <2>7. NothingSkipped' /\ SentFromDelivered' /\ OneAtATime'
    BY <1>1, <2>1, <2>6 DEF NothingSkipped, SentFromDelivered, OneAtATime
  <2>8. PagesAreNext' /\ DoneIsAll'
    BY <1>1, <2>1, <2>3, <2>5 DEF PagesAreNext, DoneIsAll
  <2> QED
    BY <2>4, <2>7, <2>8
<1>3. CASE page[l] # {}
  <2> DEFINE first == First(page[l])
  <2>1. /\ loop' = [loop EXCEPT ![l] = "body"]
        /\ last' = first
        /\ repeated' = (repeated \/ \E u \in delivered : first <= u)
        /\ delivered' = delivered \cup {first}
    BY <1>3 DEF Receive, Cursor
  <2>2. first \in page[l] /\ first \in Uuids /\ first \in Nat
    BY <1>3, Numbers, FirstIsSmallest, UuidsAssumption DEF IteratorTypeOK
  <2>3. first > after[l] /\ \A u \in staying : u > after[l] => first <= u
    BY <1>1, <2>2 DEF PagesAreNext
  <2> HIDE DEF first
  <2>4. IteratorTypeOK'
    <3>1. repeated' \in BOOLEAN
      BY <2>1, Zenon
    <3> QED
      BY <1>1, <2>1, <2>2, <3>1 DEF IteratorTypeOK
  <2>5. /\ \A k \in Loops : k # l => loop'[k] = loop[k] /\ page'[k] = page[k]
        /\ loop'[l] = "body"
    BY <1>1, <2>1 DEF IteratorTypeOK
  <2>6. \A k \in Loops : InFlight(k)' => InFlight(k) /\ k # l
    BY <2>5 DEF InFlight
  <2>7. NothingSkipped'
    <3> SUFFICES ASSUME NEW u \in staying, u <= first PROVE u \in delivered \cup {first}
      BY <1>1, <2>1 DEF NothingSkipped
    <3>1. CASE u <= after[l]
      BY <1>1, <3>1 DEF SentFromDelivered
    <3>2. CASE u > after[l]
      BY <2>2, <2>3, <3>2, Numbers
    <3> QED
      BY <3>1, <3>2, Numbers
  <2>8. SentFromDelivered' /\ DoneIsAll'
    BY <1>1, <2>1, <2>5, <2>6 DEF SentFromDelivered, DoneIsAll
  <2>9. PagesAreNext'
    BY <1>1, <2>5 DEF PagesAreNext
  <2>10. OneAtATime'
    <3> SUFFICES ASSUME ~overlapped
                 PROVE  /\ ~repeated'
                        /\ \A k \in Loops : ~InFlight(k)'
                        /\ \A u \in delivered' : u <= last'
      BY <1>1 DEF OneAtATime
    <3>1. \A u \in delivered : u < first
      BY <1>1, <2>2, <2>3, Numbers DEF OneAtATime
    <3>2. \A k \in Loops : ~InFlight(k)'
      BY <1>1, <2>6 DEF OneAtATime
    <3>3. ~repeated'
      <4>1. ~repeated
        BY DEF OneAtATime
      <4>2. ~\E u \in delivered : first <= u
        BY <2>2, <3>1, Numbers
      <4> QED
        BY <2>1, <4>1, <4>2, Zenon
    <3>4. \A u \in delivered' : u <= last'
      BY <2>1, <2>2, <3>1, Numbers
    <3> QED
      BY <3>2, <3>3, <3>4
  <2> QED
    BY <2>4, <2>7, <2>8, <2>9, <2>10
<1> QED
  BY <1>2, <1>3

LEMMA QueryFailsIInv ==
  ASSUME IInv, NEW l \in Loops, QueryFails(l)
  PROVE  IInv'
<1> USE DEF IInv
<1>1. /\ failures' = failures + 1
      /\ loop' = [loop EXCEPT ![l] = "failed"]
      /\ page' = [page EXCEPT ![l] = {}]
      /\ UNCHANGED <<last, after, present, changes, staying, delivered, repeated, overlapped>>
  BY DEF QueryFails, historyVars
<1>2. IteratorTypeOK'
  BY <1>1 DEF IteratorTypeOK
<1>3. /\ \A k \in Loops : k # l => loop'[k] = loop[k] /\ page'[k] = page[k]
      /\ loop'[l] = "failed"
  BY <1>1 DEF IteratorTypeOK
<1>4. \A k \in Loops : InFlight(k)' => InFlight(k)
  BY <1>3 DEF InFlight
<1>5. NothingSkipped' /\ SentFromDelivered' /\ OneAtATime'
  BY <1>1, <1>4 DEF NothingSkipped, SentFromDelivered, OneAtATime
<1>6. PagesAreNext' /\ DoneIsAll'
  BY <1>1, <1>3 DEF PagesAreNext, DoneIsAll
<1> QED
  BY <1>2, <1>5, <1>6

LEMMA ChangeIInv ==
  ASSUME IInv, NEW u \in Uuids, Change(u)
  PROVE  IInv'
<1> USE DEF IInv
<1>1. /\ staying' \subseteq staying /\ staying' \subseteq present'
      /\ present' \subseteq Uuids /\ changes' = changes + 1
      /\ UNCHANGED <<last, loop, after, page, failures, delivered, repeated, overlapped>>
  BY DEF Change, IteratorTypeOK
<1>2. IteratorTypeOK'
  BY <1>1 DEF IteratorTypeOK
<1>3. NothingSkipped' /\ SentFromDelivered' /\ OneAtATime'
  BY <1>1 DEF NothingSkipped, SentFromDelivered, OneAtATime, InFlight
<1>4. PagesAreNext' /\ DoneIsAll'
  BY <1>1 DEF PagesAreNext, DoneIsAll
<1> QED
  BY <1>2, <1>3, <1>4

LEMMA NextIInv == IInv /\ [IteratorNext]_iteratorVars => IInv'
<1> SUFFICES ASSUME IInv, [IteratorNext]_iteratorVars PROVE IInv'
  OBVIOUS
<1>1. CASE UNCHANGED iteratorVars
  BY <1>1 DEF iteratorVars, IInv, IteratorTypeOK, NothingSkipped, SentFromDelivered,
              PagesAreNext, DoneIsAll, OneAtATime, InFlight
<1> QED
  BY <1>1, CallNextIInv, AnswerIInv, ReceiveIInv, QueryFailsIInv, ChangeIInv
  DEF IteratorNext

LEMMA Invariant == IteratorSpec => []IInv
BY InitIInv, NextIInv, PTL DEF IteratorSpec

-----------------------------------------------------------------------------
\* The Iterator's state keeps its types.
THEOREM TypeCorrect == IteratorSpec => []IteratorTypeOK
BY Invariant, PTL DEF IInv

\* No object that stays is ever passed over (Iterator.next).
THEOREM NoneSkipped == IteratorSpec => []NothingSkipped
BY Invariant, PTL DEF IInv

\* Objects repeat only when two calls of next are in flight (Iterator.next).
THEOREM NoRepeatWithoutOverlap == IteratorSpec => []RepeatsNeedOverlap
<1>1. IInv => RepeatsNeedOverlap
  BY DEF IInv, OneAtATime, RepeatsNeedOverlap
<1> QED
  BY Invariant, <1>1, PTL

(***************************************************************************)
(* Refinement: an object is delivered when it is received, a scan is over  *)
(* when the first loop is done.                                            *)
(***************************************************************************)
LEMMA InitScans == IteratorInit => S!Init
BY DEF IteratorInit, S!Init

LEMMA StepScans ==
  ASSUME IInv, [IteratorNext]_iteratorVars
  PROVE  [S!Next]_<<staying, delivered, \E l \in Loops : loop[l] = "done">>
<1> DEFINE over == \E l \in Loops : loop[l] = "done"
<1>1. ASSUME NEW l \in Loops, CallNext(l) \/ Answer(l) \/ QueryFails(l)
      PROVE  UNCHANGED <<staying, delivered>> /\ over' = over
  <2>1. loop[l] # "done" /\ loop'[l] # "done"
    BY <1>1 DEF CallNext, Answer, QueryFails, InFlight, IInv, IteratorTypeOK
  <2>2. \A k \in Loops : k # l => loop'[k] = loop[k]
    BY <1>1 DEF CallNext, Answer, QueryFails, IInv, IteratorTypeOK
  <2>3. over' = over
    BY <2>1, <2>2
  <2> QED
    BY <1>1, <2>3 DEF CallNext, Answer, QueryFails, historyVars
<1>2. ASSUME NEW l \in Loops, Receive(l), page[l] = {}
      PROVE  S!End
  <2>1. staying' = staying /\ delivered' = delivered /\ loop'[l] = "done"
    BY <1>2 DEF Receive, IInv, IteratorTypeOK
  <2>2. IInv'
    BY <1>2, ReceiveIInv
  <2>3. staying \subseteq delivered
    BY <2>1, <2>2 DEF IInv, DoneIsAll
  <2>4. over' = TRUE
    BY <2>1
  <2> QED
    BY <2>1, <2>3, <2>4 DEF S!End
<1>3. ASSUME NEW l \in Loops, Receive(l), page[l] # {}
      PROVE  \E u \in Uuids : S!Deliver(u)
  <2>1. First(page[l]) \in page[l] /\ First(page[l]) \in Uuids
    BY <1>3, Numbers, FirstIsSmallest DEF IInv, IteratorTypeOK
  <2>2. /\ staying' = staying /\ last' = First(page[l])
        /\ delivered' = delivered \cup {First(page[l])}
        /\ loop' = [loop EXCEPT ![l] = "body"] /\ loop[l] = "answered"
    BY <1>3 DEF Receive, Cursor
  <2>3. over' = over
    <3>1. loop[l] # "done" /\ loop'[l] # "done"
      BY <2>2 DEF IInv, IteratorTypeOK
    <3>2. \A k \in Loops : k # l => loop'[k] = loop[k]
      BY <2>2 DEF IInv, IteratorTypeOK
    <3> QED
      BY <3>1, <3>2
  <2>4. IInv'
    BY <1>3, ReceiveIInv
  <2>5. \A v \in staying : v < First(page[l]) => v \in delivered
    BY <2>1, <2>2, <2>4, UuidsAssumption DEF IInv, NothingSkipped, IteratorTypeOK
  <2> QED
    BY <2>1, <2>2, <2>3, <2>5 DEF S!Deliver
<1>4. ASSUME NEW u \in Uuids, Change(u)
      PROVE  S!Leave(u) \/ UNCHANGED <<staying, delivered, over>>
  <2>1. UNCHANGED <<delivered, loop>> /\ (staying' = staying \/ staying' = staying \ {u})
    BY <1>4 DEF Change
  <2> QED
    BY <2>1 DEF S!Leave
<1>5. CASE UNCHANGED iteratorVars
  BY <1>5 DEF iteratorVars
<1> QED
  BY <1>1, <1>2, <1>3, <1>4, <1>5 DEF IteratorNext, S!Next

\* The loops over one Iterator together deliver a scan of the collection
\* (Iterator.next): whatever stays is delivered, in order, before any ends.
THEOREM LoopsScan == IteratorSpec => ImplementsScan
<1>1. IInv /\ [IteratorNext]_iteratorVars => [S!Next]_S!scanVars
  BY StepScans DEF S!scanVars
<1> QED
  BY Invariant, InitScans, <1>1, PTL DEF IteratorSpec, ImplementsScan, S!Spec
=============================================================================
