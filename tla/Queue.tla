-------------------------------- MODULE Queue -------------------------------
(***************************************************************************)
(* The Queue of src/src/collections/data/batch.ts: two deques, one of      *)
(* promises and one of the resolvers of the promises that have no value    *)
(* yet.  A promise is named by the order of its creation in _add, so       *)
(* valueOf[p] is what promise p was resolved with, or NoItem.              *)
(*                                                                         *)
(* A reader is a caller of pull: the batcher has one, its request          *)
(* generator, which always pulls with a timeout.  awaited[r] is the        *)
(* promise of reader r's outstanding pull, 0 when there is none.           *)
(* JavaScript runs a resolved promise's continuation (a microtask) before  *)
(* any timer, so the timer of a pull whose promise is resolved never       *)
(* fires: mainPromise clears it first.                                     *)
(***************************************************************************)
EXTENDS Naturals, Sequences, FiniteSets

CONSTANTS
  Items,       \* what can be pushed
  NoItem,      \* the value of an unresolved promise
  Readers,     \* the callers of pull
  MaxPushes    \* bound: pushes in one behaviour

ASSUME NoItemAssumption == NoItem \notin Items
ASSUME MaxPushesAssumption == MaxPushes \in Nat

VARIABLES
  promises,    \* deque of promises
  resolvers,   \* deque of the promises whose resolver is still unused
  valueOf,     \* valueOf[p]: the item promise p was resolved with, or NoItem
  awaited,     \* awaited[r]: promise of r's outstanding pull, or 0
  pushed,      \* history: the items pushed, in order
  pulled       \* history: the promises whose values pulls returned, in order

queueVars == <<promises, resolvers, valueOf, awaited, pushed, pulled>>

QueueInit ==
  /\ promises = <<>>
  /\ resolvers = <<>>
  /\ valueOf = <<>>
  /\ awaited = [r \in Readers |-> 0]
  /\ pushed = <<>>
  /\ pulled = <<>>

NewPromise == Len(valueOf) + 1

\* Mutant: the resolver is read but left in the deque.
PeekResolver(rs) == [used |-> Head(rs), left |-> rs]

\* The resolver a push uses, and the resolvers it leaves.
PopResolver(rs) == [used |-> Head(rs), left |-> Tail(rs)]

\* push: resolve the oldest open promise, creating one if there is none.
Push(item) ==
  /\ Len(pushed) < MaxPushes
  /\ pushed' = Append(pushed, item)
  /\ \/ /\ resolvers = <<>>
        /\ promises' = Append(promises, NewPromise)
        /\ valueOf' = Append(valueOf, item)
        /\ UNCHANGED resolvers
     \/ /\ resolvers # <<>>
        /\ valueOf' = [valueOf EXCEPT ![PopResolver(resolvers).used] = item]
        /\ resolvers' = PopResolver(resolvers).left
        /\ UNCHANGED promises
  /\ UNCHANGED <<awaited, pulled>>

\* Mutant: the promise is read but left in the deque.
PeekPromise(ps) == [taken |-> Head(ps), left |-> ps]

\* The promise a pull takes, and the promises it leaves.
PopPromise(ps) == [taken |-> Head(ps), left |-> Tail(ps)]

\* pull: take the oldest promise, creating one if there is none.
Pull(r) ==
  /\ awaited[r] = 0
  /\ \/ /\ promises = <<>>
        /\ awaited' = [awaited EXCEPT ![r] = NewPromise]
        /\ valueOf' = Append(valueOf, NoItem)
        /\ resolvers' = Append(resolvers, NewPromise)
        /\ UNCHANGED promises
     \/ /\ promises # <<>>
        /\ awaited' = [awaited EXCEPT ![r] = PopPromise(promises).taken]
        /\ promises' = PopPromise(promises).left
        /\ UNCHANGED <<resolvers, valueOf>>
  /\ UNCHANGED <<pushed, pulled>>

\* mainPromise wins the race: the pull returns the promise's value.
Deliver(r) ==
  /\ awaited[r] # 0
  /\ valueOf[awaited[r]] # NoItem
  /\ pulled' = Append(pulled, awaited[r])
  /\ awaited' = [awaited EXCEPT ![r] = 0]
  /\ UNCHANGED <<promises, resolvers, valueOf, pushed>>

\* Mutant: the promise of the pull that timed out is forgotten.
NoReadd(ps, p) == ps

\* _readd: the promise of a pull that timed out goes back to the front.
Readd(ps, p) == <<p>> \o ps

\* The timer wins the race: the pull returns null.
Timeout(r) ==
  /\ awaited[r] # 0
  /\ valueOf[awaited[r]] = NoItem
  /\ promises' = Readd(promises, awaited[r])
  /\ awaited' = [awaited EXCEPT ![r] = 0]
  /\ UNCHANGED <<resolvers, valueOf, pushed, pulled>>

ReaderStep(r) == Pull(r) \/ Deliver(r) \/ Timeout(r)

QueueNext ==
  \/ \E item \in Items : Push(item)
  \/ \E r \in Readers : ReaderStep(r)

\* The event loop runs the continuation of a resolved promise, and the
\* generator pulls again after every pull that has returned.
QueueFairness == \A r \in Readers : WF_queueVars(Pull(r)) /\ WF_queueVars(Deliver(r))

QueueSpec == QueueInit /\ [][QueueNext]_queueVars /\ QueueFairness

-----------------------------------------------------------------------------
\* Types of the state; ExactlyOnce bounds the promises by the created ones.
QueueTypeOK ==
  /\ valueOf \in Seq(Items \cup {NoItem})
  /\ promises \in Seq(Nat)
  /\ resolvers \in Seq(Nat)
  /\ awaited \in [Readers -> Nat]
  /\ pushed \in Seq(Items)
  /\ pulled \in Seq(Nat)

\* The promises created so far.
Promises == 1 .. Len(valueOf)

\* The promises a sequence holds.
Elems(s) == {s[i] : i \in 1 .. Len(s)}
NoRepeat(s) == \A i, j \in 1 .. Len(s) : s[i] = s[j] => i = j

\* Readers with an outstanding pull, and the promises they wait for.
Waiting == {r \in Readers : awaited[r] # 0}
InHand == {awaited[r] : r \in Waiting}

\* The i-th push resolves the i-th promise, whoever will read it: pulls that
\* time out and pulls that overtake each other never redirect an item.
ResolvedInOrder ==
  /\ Len(pushed) <= Len(valueOf)
  /\ \A p \in Promises : valueOf[p] = IF p <= Len(pushed) THEN pushed[p] ELSE NoItem

\* Every promise is in exactly one place: in the deque, in the hands of one
\* reader, or returned by one pull.  With ResolvedInOrder this says that no
\* item is lost or returned twice, however pulls, time-outs and pushes
\* interleave (push, pull and the timer callback of pull).
ExactlyOnce ==
  /\ NoRepeat(promises) /\ NoRepeat(pulled)
  /\ \A r, s \in Waiting : awaited[r] = awaited[s] => r = s
  /\ Elems(promises) \cap Elems(pulled) = {}
  /\ InHand \cap (Elems(promises) \cup Elems(pulled)) = {}
  /\ Elems(promises) \cup Elems(pulled) \cup InHand = Promises

\* Every item is returned once and in its turn, however pulls, time-outs and
\* pushes interleave: push i resolves promise i, and each promise has one place.
EachOnceInOrder == ResolvedInOrder /\ ExactlyOnce

\* get length
Length == Len(promises) - Len(resolvers)

\* length is the backlog: the items pushed and not returned, less one for
\* every pull that waits.  The getter subtracts two sizes that are both
\* disturbed by a pull's time-out.
LengthIsBacklog ==
  Length = Len(pushed) - Len(pulled) - Cardinality(Waiting)

\* What readers get and what length counts are the items pushed: none is lost,
\* repeated, overtaken or miscounted (push, pull and its timer, length).
ItemsAccountedFor == EachOnceInOrder /\ LengthIsBacklog

\* Items that wait are all returned in the end, even when pulls keep timing
\* out around them (push, pull and its timer): as pushes stop at MaxPushes, time
\* and again nothing waits.
PushedIsPulled == []<>(Len(pulled) = Len(pushed))

-----------------------------------------------------------------------------
(***************************************************************************)
(* With one reader the queue implements Fifo: the buffer is what the       *)
(* reader's promise and the deque hold, less the unresolved promises,      *)
(* which are as many as the unused resolvers.                              *)
(***************************************************************************)
Reader == CHOOSE r \in Readers : TRUE

Held == (IF awaited[Reader] = 0 THEN <<>> ELSE <<awaited[Reader]>>) \o promises

Backlog == [i \in 1 .. Len(Held) - Len(resolvers) |-> valueOf[Held[i]]]

Returned == [i \in 1 .. Len(pulled) |-> valueOf[pulled[i]]]

F == INSTANCE Fifo WITH buffer <- Backlog, taken <- Returned

\* With one reader, pushes and pulls behave as a first-in first-out channel
\* (unit.test.ts: "should push and pull items in FIFO order"), time-outs
\* being stuttering steps.
ImplementsFifo == F!Spec
=============================================================================
