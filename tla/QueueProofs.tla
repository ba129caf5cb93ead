----------------------------- MODULE QueueProofs ----------------------------
(***************************************************************************)
(* Proofs about Queue, for any items, any number of readers and any bound  *)
(* on the pushes.                                                          *)
(***************************************************************************)
EXTENDS Queue, SequenceTheorems, FiniteSetTheorems, TLAPS

\* The unused resolvers are those of the newest promises, in order.
OpenPromises ==
  /\ Len(resolvers) = Len(valueOf) - Len(pushed)
  /\ \A i \in 1 .. Len(resolvers) : resolvers[i] = Len(pushed) + i

\* The inductive invariant: PopResolver finds the promise that the next push
\* is to resolve only because OpenPromises holds.
IInv == QueueTypeOK /\ OpenPromises /\ ResolvedInOrder

\* A position lies among the resolved promises, next to them, or beyond.
LEMMA Trichotomy ==
  ASSUME NEW p \in Nat, NEW n \in Nat
  PROVE  p <= n \/ p = n + 1 \/ p > n + 1
OBVIOUS

\* Appending the successor of the last number keeps a sequence consecutive.
LEMMA AppendConsecutive ==
  ASSUME NEW s \in Seq(Nat), NEW n \in Nat,
         \A i \in 1 .. Len(s) : s[i] = n + i
  PROVE  LET t == Append(s, n + Len(s) + 1)
         IN  \A i \in 1 .. Len(t) : t[i] = n + i
<1> DEFINE t == Append(s, n + Len(s) + 1)
<1>1. /\ Len(t) = Len(s) + 1
      /\ \A i \in 1 .. Len(s) : t[i] = s[i]
      /\ t[Len(s) + 1] = n + Len(s) + 1
  BY AppendProperties
<1> HIDE DEF t
<1>2. ASSUME NEW i \in 1 .. Len(t) PROVE t[i] = n + i
  <2>1. CASE i <= Len(s)
    BY <1>1, <2>1
  <2>2. CASE i = Len(s) + 1
    BY <1>1, <2>2
  <2> QED BY <1>1, <2>1, <2>2
<1> QED BY <1>2 DEF t

-----------------------------------------------------------------------------
\* Types are kept by every step.
LEMMA NextTypeOK == IInv /\ [QueueNext]_queueVars => QueueTypeOK'
<1> SUFFICES ASSUME IInv, [QueueNext]_queueVars PROVE QueueTypeOK'
  OBVIOUS
<1> USE DEF IInv, QueueTypeOK
<1>1. ASSUME NEW item \in Items, Push(item) PROVE QueueTypeOK'
  <2>1. pushed' \in Seq(Items)
    BY <1>1, AppendProperties DEF Push
  <2>2. CASE resolvers = <<>>
    <3>1. NewPromise \in Nat
      BY DEF NewPromise
    <3>2. /\ promises' = Append(promises, NewPromise)
          /\ valueOf' = Append(valueOf, item) /\ item \in Items \cup {NoItem}
      BY <1>1, <2>2 DEF Push
    <3>3. promises' \in Seq(Nat)
      BY <3>1, <3>2, AppendProperties
    <3>4. valueOf' \in Seq(Items \cup {NoItem})
      BY <3>2, AppendProperties
    <3> QED BY <1>1, <2>1, <2>2, <3>3, <3>4 DEF Push
  <2>3. CASE resolvers # <<>>
    <3>1. valueOf' = [valueOf EXCEPT ![Head(resolvers)] = item] /\ resolvers' = Tail(resolvers)
      BY <1>1, <2>3 DEF Push, PopResolver
    <3>2. Head(resolvers) = Len(pushed) + 1 /\ Len(pushed) + 1 <= Len(valueOf)
      BY <2>3 DEF OpenPromises
    <3>3. valueOf' \in Seq(Items \cup {NoItem})
      BY <3>1, <3>2, ExceptSeq
    <3>4. resolvers' \in Seq(Nat)
      BY <2>3, <3>1, HeadTailProperties
    <3> QED BY <1>1, <2>1, <2>3, <3>3, <3>4 DEF Push
  <2> QED BY <2>2, <2>3
<1>2. ASSUME NEW r \in Readers, Pull(r) PROVE QueueTypeOK'
  <2>1. CASE promises = <<>>
    <3>1. NewPromise \in Nat
      BY DEF NewPromise
    <3>2. /\ valueOf' = Append(valueOf, NoItem) /\ NoItem \in Items \cup {NoItem}
          /\ resolvers' = Append(resolvers, NewPromise)
      BY <1>2, <2>1 DEF Pull
    <3>3. valueOf' \in Seq(Items \cup {NoItem})
      BY <3>2, AppendProperties
    <3>4. resolvers' \in Seq(Nat)
      BY <3>1, <3>2, AppendProperties
    <3>5. awaited' \in [Readers -> Nat]
      BY <1>2, <2>1, <3>1 DEF Pull
    <3> QED BY <1>2, <2>1, <3>3, <3>4, <3>5 DEF Pull
  <2>2. CASE promises # <<>>
    <3>1. Head(promises) \in Nat /\ Tail(promises) \in Seq(Nat)
      BY <2>2, HeadTailProperties
    <3> QED BY <1>2, <2>2, <3>1 DEF Pull, PopPromise
  <2> QED BY <2>1, <2>2
<1>3. ASSUME NEW r \in Readers, Deliver(r) PROVE QueueTypeOK'
  BY <1>3 DEF Deliver
<1>4. ASSUME NEW r \in Readers, Timeout(r) PROVE QueueTypeOK'
  BY <1>4 DEF Timeout, Readd
<1>5. CASE UNCHANGED queueVars
  BY <1>5 DEF queueVars
<1> QED BY <1>1, <1>2, <1>3, <1>4, <1>5 DEF QueueNext, ReaderStep

\* Pushes resolve the promises in the order of their creation.
LEMMA NextResolvedInOrder ==
  IInv /\ [QueueNext]_queueVars => OpenPromises' /\ ResolvedInOrder'
<1> SUFFICES ASSUME IInv, [QueueNext]_queueVars PROVE OpenPromises' /\ ResolvedInOrder'
  OBVIOUS
<1> USE DEF IInv, QueueTypeOK, OpenPromises, ResolvedInOrder, Promises
<1>1. ASSUME NEW item \in Items, Push(item) PROVE OpenPromises' /\ ResolvedInOrder'
  <2>1. /\ Len(pushed') = Len(pushed) + 1
        /\ \A p \in 1 .. Len(pushed) : pushed'[p] = pushed[p]
        /\ pushed'[Len(pushed) + 1] = item
    BY <1>1, AppendProperties DEF Push
  <2>2. CASE resolvers = <<>>
    <3>1. resolvers' = <<>> /\ valueOf' = Append(valueOf, item)
      BY <1>1, <2>2 DEF Push
    <3>2. /\ Len(valueOf') = Len(valueOf) + 1
          /\ \A p \in 1 .. Len(valueOf) : valueOf'[p] = valueOf[p]
          /\ valueOf'[Len(valueOf) + 1] = item
      BY <3>1, AppendProperties
    <3>3. Len(pushed) = Len(valueOf)
      BY <2>2
    <3> QED BY <2>1, <2>2, <3>1, <3>2, <3>3
  <2>3. CASE resolvers # <<>>
    <3>1. Head(resolvers) = Len(pushed) + 1 /\ Len(pushed) + 1 <= Len(valueOf)
      BY <2>3
    <3>2. valueOf' = [valueOf EXCEPT ![Len(pushed) + 1] = item] /\ resolvers' = Tail(resolvers)
      BY <1>1, <2>3, <3>1 DEF Push, PopResolver
    <3>3. /\ Len(valueOf') = Len(valueOf)
          /\ \A p \in 1 .. Len(valueOf) :
               valueOf'[p] = IF p = Len(pushed) + 1 THEN item ELSE valueOf[p]
      BY <3>1, <3>2, ExceptSeq
    <3>4. /\ Len(resolvers') = Len(resolvers) - 1
          /\ \A i \in 1 .. Len(resolvers') : resolvers'[i] = resolvers[i + 1]
      BY <2>3, <3>2, HeadTailProperties
    <3>5. OpenPromises'
      BY <2>1, <3>3, <3>4
    <3>6. ResolvedInOrder'
      <4> SUFFICES ASSUME NEW p \in 1 .. Len(valueOf)
                   PROVE  valueOf'[p] = IF p <= Len(pushed') THEN pushed'[p] ELSE NoItem
        BY <2>1, <3>1, <3>3
      <4>1. CASE p <= Len(pushed)
        BY <4>1, <2>1, <3>3
      <4>2. CASE p = Len(pushed) + 1
        BY <4>2, <2>1, <3>3
      <4>3. CASE p > Len(pushed) + 1
        BY <4>3, <2>1, <3>3
      <4>4. p \in Nat /\ Len(pushed) \in Nat
        OBVIOUS
      <4>5. p <= Len(pushed) \/ p = Len(pushed) + 1 \/ p > Len(pushed) + 1
        BY <4>4, Trichotomy
      <4> QED BY <4>1, <4>2, <4>3, <4>5, Zenon
    <3> QED BY <3>5, <3>6
  <2> QED BY <2>2, <2>3
<1>2. ASSUME NEW r \in Readers, Pull(r) PROVE OpenPromises' /\ ResolvedInOrder'
  <2>1. CASE promises = <<>>
    <3>1. /\ valueOf' = Append(valueOf, NoItem)
          /\ resolvers' = Append(resolvers, Len(valueOf) + 1)
          /\ pushed' = pushed
      BY <1>2, <2>1 DEF Pull, NewPromise
    <3>2. /\ Len(valueOf') = Len(valueOf) + 1
          /\ \A p \in 1 .. Len(valueOf) : valueOf'[p] = valueOf[p]
          /\ valueOf'[Len(valueOf) + 1] = NoItem
      BY <3>1, AppendProperties
    <3>3. Len(valueOf) + 1 \in Nat
      OBVIOUS
    <3>4. /\ Len(resolvers') = Len(resolvers) + 1
          /\ \A i \in 1 .. Len(resolvers) : resolvers'[i] = resolvers[i]
          /\ resolvers'[Len(resolvers) + 1] = Len(valueOf) + 1
      BY <3>1, <3>3, AppendProperties
    <3>5. OpenPromises'
      <4>1. Len(resolvers') = Len(valueOf') - Len(pushed')
        BY <3>1, <3>2, <3>4
      <4>2. /\ resolvers' = Append(resolvers, Len(pushed) + Len(resolvers) + 1)
            /\ Len(pushed) \in Nat
        BY <3>1
      <4>3. \A i \in 1 .. Len(resolvers') : resolvers'[i] = Len(pushed) + i
        BY <4>2, AppendConsecutive
      <4> QED BY <3>1, <4>1, <4>3
    <3>6. ResolvedInOrder'
      BY <3>1, <3>2
    <3> QED BY <3>5, <3>6
  <2>2. CASE promises # <<>>
    BY <1>2, <2>2 DEF Pull
  <2> QED BY <2>1, <2>2
<1>3. ASSUME NEW r \in Readers, Deliver(r) PROVE OpenPromises' /\ ResolvedInOrder'
  BY <1>3 DEF Deliver
<1>4. ASSUME NEW r \in Readers, Timeout(r) PROVE OpenPromises' /\ ResolvedInOrder'
  BY <1>4 DEF Timeout
<1>5. CASE UNCHANGED queueVars
  BY <1>5 DEF queueVars
<1> QED BY <1>1, <1>2, <1>3, <1>4, <1>5 DEF QueueNext, ReaderStep

LEMMA InitIInv == QueueInit => IInv
BY DEF QueueInit, IInv, QueueTypeOK, OpenPromises, ResolvedInOrder, Promises

\* Every reachable state of the queue satisfies the inductive invariant.
LEMMA Invariance == QueueSpec => []IInv
<1>1. IInv /\ [QueueNext]_queueVars => IInv'
  BY NextTypeOK, NextResolvedInOrder DEF IInv
<1> QED BY <1>1, InitIInv, PTL DEF QueueSpec

\* Every behaviour of the queue keeps the types.
THEOREM TypeCorrect == QueueSpec => []QueueTypeOK
<1>1. IInv => QueueTypeOK
  BY DEF IInv
<1> QED BY <1>1, Invariance, PTL

\* The i-th push resolves the i-th promise, for any number of readers whose
\* pulls time out and overtake each other.
THEOREM PushesResolveInOrder == QueueSpec => []ResolvedInOrder
<1>1. IInv => ResolvedInOrder
  BY DEF IInv
<1> QED BY <1>1, Invariance, PTL
-----------------------------------------------------------------------------
\* What the deque operations do to the promises a sequence holds.
LEMMA AppendElems ==
  ASSUME NEW s \in Seq(Nat), NEW e \in Nat
  PROVE  /\ Elems(Append(s, e)) = Elems(s) \cup {e}
         /\ NoRepeat(s) /\ e \notin Elems(s) => NoRepeat(Append(s, e))
<1> DEFINE t == Append(s, e)
<1>1. /\ Len(t) = Len(s) + 1
      /\ \A i \in 1 .. Len(s) : t[i] = s[i]
      /\ t[Len(s) + 1] = e
  BY AppendProperties
<1> HIDE DEF t
<1>2. Elems(t) = Elems(s) \cup {e}
  <2>1. ASSUME NEW i \in 1 .. Len(t) PROVE t[i] \in Elems(s) \cup {e}
    <3>1. CASE i \in 1 .. Len(s)
      BY <3>1, <1>1 DEF Elems
    <3>2. CASE i = Len(s) + 1
      BY <3>2, <1>1
    <3> QED BY <3>1, <3>2, <1>1
  <2>2. ASSUME NEW i \in 1 .. Len(s) PROVE s[i] \in Elems(t)
    BY <1>1 DEF Elems
  <2>3. e \in Elems(t)
    BY <1>1 DEF Elems
  <2> QED BY <2>1, <2>2, <2>3 DEF Elems
<1>3. ASSUME NoRepeat(s), e \notin Elems(s) PROVE NoRepeat(t)
  <2> SUFFICES ASSUME NEW i \in 1 .. Len(t), NEW j \in 1 .. Len(t), t[i] = t[j]
               PROVE  i = j
    BY DEF NoRepeat
  <2>1. CASE i \in 1 .. Len(s) /\ j \in 1 .. Len(s)
    BY <2>1, <1>1, <1>3 DEF NoRepeat
  <2>2. CASE i \in 1 .. Len(s) /\ j = Len(s) + 1
    BY <2>2, <1>1, <1>3 DEF Elems
  <2>3. CASE i = Len(s) + 1 /\ j \in 1 .. Len(s)
    BY <2>3, <1>1, <1>3 DEF Elems
  <2> QED BY <2>1, <2>2, <2>3, <1>1
<1> QED BY <1>2, <1>3 DEF t

LEMMA TailElems ==
  ASSUME NEW s \in Seq(Nat), s # <<>>, NoRepeat(s)
  PROVE  /\ Head(s) \in Elems(s)
         /\ Elems(Tail(s)) = Elems(s) \ {Head(s)}
         /\ NoRepeat(Tail(s))
<1> DEFINE t == Tail(s)
<1>1. /\ t \in Seq(Nat)
      /\ Len(t) = Len(s) - 1
      /\ \A i \in 1 .. Len(t) : t[i] = s[i + 1]
      /\ Head(s) = s[1]
      /\ Len(s) \in Nat /\ Len(s) >= 1
  BY HeadTailProperties
<1> HIDE DEF t
<1>2. Head(s) \in Elems(s)
  BY <1>1 DEF Elems
<1>3. ASSUME NEW i \in 1 .. Len(t) PROVE t[i] \in Elems(s) \ {Head(s)}
  <2>1. i + 1 \in 1 .. Len(s) /\ 1 \in 1 .. Len(s) /\ i + 1 # 1
    BY <1>1
  <2> QED BY <1>1, <2>1 DEF Elems, NoRepeat
<1>4. ASSUME NEW i \in 1 .. Len(s), s[i] # Head(s) PROVE s[i] \in Elems(t)
  <2>1. i - 1 \in 1 .. Len(t) /\ (i - 1) + 1 = i
    BY <1>1, <1>4
  <2>2. t[i - 1] = s[i]
    BY <1>1, <2>1
  <2> QED BY <2>1, <2>2 DEF Elems
<1>5. Elems(t) = Elems(s) \ {Head(s)}
  BY <1>3, <1>4 DEF Elems
<1>6. NoRepeat(t)
  <2> SUFFICES ASSUME NEW i \in 1 .. Len(t), NEW j \in 1 .. Len(t), t[i] = t[j]
               PROVE  i = j
    BY DEF NoRepeat
  <2>1. i + 1 \in 1 .. Len(s) /\ j + 1 \in 1 .. Len(s) /\ s[i + 1] = s[j + 1]
    BY <1>1
  <2>2. i + 1 = j + 1
    BY <2>1 DEF NoRepeat
  <2> QED BY <2>2
<1> QED BY <1>2, <1>5, <1>6 DEF t

LEMMA ReaddElems ==
  ASSUME NEW s \in Seq(Nat), NEW e \in Nat
  PROVE  /\ Elems(Readd(s, e)) = Elems(s) \cup {e}
         /\ NoRepeat(s) /\ e \notin Elems(s) => NoRepeat(Readd(s, e))
<1> DEFINE t == Readd(s, e)
<1>0. <<e>> \in Seq(Nat) /\ Len(<<e>>) = 1 /\ <<e>>[1] = e
  OBVIOUS
<1>1. /\ Len(t) = Len(s) + 1
      /\ t[1] = e
      /\ \A i \in 1 .. Len(t) : t[i] = IF i <= 1 THEN <<e>>[i] ELSE s[i - 1]
  BY <1>0, ConcatProperties DEF Readd
<1>2. Len(s) \in Nat
  OBVIOUS
<1> HIDE DEF t
<1>3. \A i \in 1 .. Len(s) : i + 1 \in 1 .. Len(t) /\ t[i + 1] = s[i]
  BY <1>1, <1>2
<1>4. \A i \in 1 .. Len(t) : i # 1 => i - 1 \in 1 .. Len(s) /\ t[i] = s[i - 1]
  BY <1>1, <1>2
<1>5. Elems(t) = Elems(s) \cup {e}
  <2>1. ASSUME NEW i \in 1 .. Len(t) PROVE t[i] \in Elems(s) \cup {e}
    <3>1. CASE i = 1
      BY <3>1, <1>1
    <3>2. CASE i # 1
      BY <3>2, <1>4 DEF Elems
    <3> QED BY <3>1, <3>2
  <2>2. ASSUME NEW i \in 1 .. Len(s) PROVE s[i] \in Elems(t)
    BY <1>3 DEF Elems
  <2>3. e \in Elems(t)
    BY <1>1, <1>2 DEF Elems
  <2> QED BY <2>1, <2>2, <2>3 DEF Elems
<1>6. ASSUME NoRepeat(s), e \notin Elems(s) PROVE NoRepeat(t)
  <2> SUFFICES ASSUME NEW i \in 1 .. Len(t), NEW j \in 1 .. Len(t), t[i] = t[j]
               PROVE  i = j
    BY DEF NoRepeat
  <2>1. CASE i # 1 /\ j # 1
    <3>1. i - 1 \in 1 .. Len(s) /\ j - 1 \in 1 .. Len(s) /\ s[i - 1] = s[j - 1]
      BY <2>1, <1>4
    <3>2. i - 1 = j - 1
      BY <3>1, <1>6 DEF NoRepeat
    <3> QED BY <3>2
  <2>2. CASE i = 1 /\ j # 1
    BY <2>2, <1>1, <1>4, <1>6 DEF Elems
  <2>3. CASE i # 1 /\ j = 1
    BY <2>3, <1>1, <1>4, <1>6 DEF Elems
  <2> QED BY <2>1, <2>2, <2>3
<1> QED BY <1>5, <1>6 DEF t

\* A pull that starts, and a pull that ends, change InHand by its promise.
NoneShared == \A r, s \in Waiting : awaited[r] = awaited[s] => r = s

LEMMA PullInHand ==
  ASSUME awaited \in [Readers -> Nat], NEW r \in Readers, NEW p \in Nat,
         awaited[r] = 0, p # 0, awaited' = [awaited EXCEPT ![r] = p]
  PROVE  /\ InHand' = InHand \cup {p}
         /\ NoneShared /\ p \notin InHand => NoneShared'
<1>1. \A s \in Readers : awaited'[s] = IF s = r THEN p ELSE awaited[s]
  OBVIOUS
<1>2. Waiting' = Waiting \cup {r}
  BY <1>1 DEF Waiting
<1> QED BY <1>1, <1>2 DEF InHand, Waiting, NoneShared

LEMMA ReturnInHand ==
  ASSUME awaited \in [Readers -> Nat], NEW r \in Readers,
         awaited[r] # 0, NoneShared, awaited' = [awaited EXCEPT ![r] = 0]
  PROVE  /\ awaited[r] \in InHand
         /\ InHand' = InHand \ {awaited[r]}
         /\ NoneShared'
<1>1. \A s \in Readers : awaited'[s] = IF s = r THEN 0 ELSE awaited[s]
  OBVIOUS
<1>2. Waiting' = Waiting \ {r} /\ r \in Waiting
  BY <1>1 DEF Waiting
<1> QED BY <1>1, <1>2 DEF InHand, Waiting, NoneShared

\* Every step keeps every promise in exactly one place.
LEMMA NextExactlyOnce == IInv /\ ExactlyOnce /\ [QueueNext]_queueVars => ExactlyOnce'
<1> SUFFICES ASSUME IInv, ExactlyOnce, [QueueNext]_queueVars PROVE ExactlyOnce'
  OBVIOUS
<1>0. /\ promises \in Seq(Nat) /\ pulled \in Seq(Nat) /\ awaited \in [Readers -> Nat]
      /\ Len(valueOf) \in Nat /\ NewPromise \in Nat /\ NewPromise # 0
  BY DEF IInv, QueueTypeOK, NewPromise
<1>a. /\ NoRepeat(promises) /\ NoRepeat(pulled) /\ NoneShared
      /\ Elems(promises) \cap Elems(pulled) = {}
      /\ InHand \cap (Elems(promises) \cup Elems(pulled)) = {}
      /\ Elems(promises) \cup Elems(pulled) \cup InHand = Promises
  BY DEF ExactlyOnce, NoneShared
<1>b. NewPromise \notin Promises
  BY <1>0 DEF Promises, NewPromise
<1>c. ASSUME NEW x, valueOf' = Append(valueOf, x) PROVE Promises' = Promises \cup {NewPromise}
  <2>1. Len(valueOf') = Len(valueOf) + 1
    BY <1>c DEF IInv, QueueTypeOK
  <2> QED BY <2>1, <1>0 DEF Promises, NewPromise
<1>1. ASSUME NEW item \in Items, Push(item) PROVE ExactlyOnce'
  <2>1. UNCHANGED <<awaited, pulled>>
    BY <1>1 DEF Push
  <2>2. InHand' = InHand /\ Elems(pulled)' = Elems(pulled) /\ (NoneShared' <=> NoneShared)
    BY <2>1 DEF InHand, Waiting, NoneShared
  <2>3. CASE resolvers = <<>>
    <3>1. promises' = Append(promises, NewPromise) /\ valueOf' = Append(valueOf, item)
      BY <1>1, <2>3 DEF Push
    <3>2. Elems(promises') = Elems(promises) \cup {NewPromise} /\ NoRepeat(promises')
      BY <3>1, <1>0, <1>a, <1>b, AppendElems
    <3>3. Promises' = Promises \cup {NewPromise}
      BY <3>1, <1>c
    <3> QED BY <1>a, <1>b, <2>1, <2>2, <3>2, <3>3 DEF ExactlyOnce, NoneShared
  <2>4. CASE resolvers # <<>>
    <3>1. promises' = promises /\ Len(valueOf') = Len(valueOf)
      BY <1>1, <2>4 DEF Push, IInv, QueueTypeOK
    <3>2. Promises' = Promises
      BY <3>1 DEF Promises
    <3> QED BY <1>a, <2>1, <2>2, <3>1, <3>2 DEF ExactlyOnce, NoneShared
  <2> QED BY <2>3, <2>4
<1>2. ASSUME NEW r \in Readers, Pull(r) PROVE ExactlyOnce'
  <2>0. awaited[r] = 0 /\ pulled' = pulled
    BY <1>2 DEF Pull
  <2>1. CASE promises = <<>>
    <3>1. /\ awaited' = [awaited EXCEPT ![r] = NewPromise]
          /\ valueOf' = Append(valueOf, NoItem) /\ promises' = promises
      BY <1>2, <2>1 DEF Pull
    <3>2. InHand' = InHand \cup {NewPromise} /\ NoneShared'
      BY <3>1, <2>0, <1>0, <1>a, <1>b, PullInHand
    <3>3. Promises' = Promises \cup {NewPromise}
      BY <3>1, <1>c
    <3> QED BY <1>a, <1>b, <2>0, <3>1, <3>2, <3>3 DEF ExactlyOnce, NoneShared
  <2>2. CASE promises # <<>>
    <3>1. /\ awaited' = [awaited EXCEPT ![r] = Head(promises)]
          /\ promises' = Tail(promises) /\ valueOf' = valueOf
      BY <1>2, <2>2 DEF Pull, PopPromise
    <3>2. /\ Head(promises) \in Elems(promises)
          /\ Elems(promises') = Elems(promises) \ {Head(promises)}
          /\ NoRepeat(promises')
      BY <3>1, <2>2, <1>0, <1>a, TailElems
    <3>3. Head(promises) \in Nat /\ Head(promises) # 0
      BY <3>2, <1>a, <1>0 DEF Promises
    <3>4. InHand' = InHand \cup {Head(promises)} /\ NoneShared'
      BY <3>1, <3>2, <3>3, <2>0, <1>0, <1>a, PullInHand
    <3>5. Promises' = Promises
      BY <3>1 DEF Promises
    <3> QED BY <1>a, <2>0, <3>2, <3>4, <3>5 DEF ExactlyOnce, NoneShared
  <2> QED BY <2>1, <2>2
<1>3. ASSUME NEW r \in Readers, Deliver(r) PROVE ExactlyOnce'
  <2>1. /\ awaited[r] # 0 /\ awaited[r] \in Nat
        /\ pulled' = Append(pulled, awaited[r])
        /\ awaited' = [awaited EXCEPT ![r] = 0]
        /\ promises' = promises /\ valueOf' = valueOf
    BY <1>3, <1>0 DEF Deliver
  <2>2. awaited[r] \in InHand /\ InHand' = InHand \ {awaited[r]} /\ NoneShared'
    BY <2>1, <1>0, <1>a, ReturnInHand
  <2>3. Elems(pulled') = Elems(pulled) \cup {awaited[r]} /\ NoRepeat(pulled')
    BY <2>1, <2>2, <1>0, <1>a, AppendElems
  <2>4. Promises' = Promises
    BY <2>1 DEF Promises
  <2> QED BY <1>a, <2>1, <2>2, <2>3, <2>4 DEF ExactlyOnce, NoneShared
<1>4. ASSUME NEW r \in Readers, Timeout(r) PROVE ExactlyOnce'
  <2>1. /\ awaited[r] # 0 /\ awaited[r] \in Nat
        /\ promises' = Readd(promises, awaited[r])
        /\ awaited' = [awaited EXCEPT ![r] = 0]
        /\ pulled' = pulled /\ valueOf' = valueOf
    BY <1>4, <1>0 DEF Timeout
  <2>2. awaited[r] \in InHand /\ InHand' = InHand \ {awaited[r]} /\ NoneShared'
    BY <2>1, <1>0, <1>a, ReturnInHand
  <2>3. Elems(promises') = Elems(promises) \cup {awaited[r]} /\ NoRepeat(promises')
    BY <2>1, <2>2, <1>0, <1>a, ReaddElems
  <2>4. Promises' = Promises
    BY <2>1 DEF Promises
  <2> QED BY <1>a, <2>1, <2>2, <2>3, <2>4 DEF ExactlyOnce, NoneShared
<1>5. CASE UNCHANGED queueVars
  BY <1>5 DEF queueVars, ExactlyOnce, InHand, Waiting, Promises
<1> QED BY <1>1, <1>2, <1>3, <1>4, <1>5 DEF QueueNext, ReaderStep

\* No item is lost and none is returned twice, for any number of readers and
\* whatever the interleaving of pushes, pulls and their time-outs.
THEOREM NothingLostOrRepeated == QueueSpec => []ExactlyOnce
<1>1. QueueInit => ExactlyOnce
  BY DEF QueueInit, ExactlyOnce, NoRepeat, Elems, InHand, Waiting, Promises
<1> QED BY <1>1, NextExactlyOnce, Invariance, PTL DEF QueueSpec

\* The queue returns every item once and in its turn (push, pull and the timer
\* callback of pull).
THEOREM ItemsComeOnceInOrder == QueueSpec => []EachOnceInOrder
BY PushesResolveInOrder, NothingLostOrRepeated, PTL DEF EachOnceInOrder

-----------------------------------------------------------------------------
\* Every promise that was created is in the deque, was returned by a pull, or
\* is in the hands of a reader: there are finitely many of these, whatever the
\* set of readers.
Counted ==
  /\ IsFiniteSet(Waiting)
  /\ Len(valueOf) = Len(promises) + Len(pulled) + Cardinality(Waiting)

\* A pull that starts adds its reader to Waiting, and one that ends removes it.
LEMMA WaitingChanges ==
  ASSUME awaited \in [Readers -> Nat], IsFiniteSet(Waiting), NEW r \in Readers, NEW p \in Nat,
         awaited' = [awaited EXCEPT ![r] = p]
  PROVE  /\ IsFiniteSet(Waiting') /\ Cardinality(Waiting) \in Nat
         /\ awaited[r] = 0 /\ p # 0 => Cardinality(Waiting') = Cardinality(Waiting) + 1
         /\ awaited[r] # 0 /\ p = 0 => Cardinality(Waiting') = Cardinality(Waiting) - 1
<1>1. \A s \in Readers : awaited'[s] = IF s = r THEN p ELSE awaited[s]
  OBVIOUS
<1>2. Waiting' = IF p = 0 THEN Waiting \ {r} ELSE Waiting \cup {r}
  BY <1>1 DEF Waiting
<1>3. r \in Waiting <=> awaited[r] # 0
  BY DEF Waiting
<1>4. Cardinality(Waiting) \in Nat
  BY FS_CardinalityType
<1>5. CASE p = 0
  BY <1>2, <1>3, <1>4, <1>5, FS_RemoveElement
<1>6. CASE p # 0
  BY <1>2, <1>3, <1>4, <1>6, FS_AddElement
<1> QED BY <1>5, <1>6

LEMMA NextCounted == IInv /\ ExactlyOnce /\ Counted /\ [QueueNext]_queueVars => Counted'
<1> SUFFICES ASSUME IInv, ExactlyOnce, Counted, [QueueNext]_queueVars PROVE Counted'
  OBVIOUS
<1>0. /\ promises \in Seq(Nat) /\ pulled \in Seq(Nat) /\ awaited \in [Readers -> Nat]
      /\ valueOf \in Seq(Items \cup {NoItem}) /\ resolvers \in Seq(Nat)
      /\ Len(valueOf) \in Nat /\ NewPromise \in Nat /\ NewPromise # 0
      /\ Len(promises) \in Nat /\ Len(pulled) \in Nat
      /\ IsFiniteSet(Waiting) /\ Cardinality(Waiting) \in Nat
      /\ Len(valueOf) = Len(promises) + Len(pulled) + Cardinality(Waiting)
  BY FS_CardinalityType DEF IInv, QueueTypeOK, NewPromise, Counted
<1>1. ASSUME NEW item \in Items, Push(item) PROVE Counted'
  <2>1. Waiting' = Waiting /\ pulled' = pulled
    BY <1>1 DEF Push, Waiting
  <2>2. CASE resolvers = <<>>
    <3>1. Len(promises') = Len(promises) + 1 /\ Len(valueOf') = Len(valueOf) + 1
      BY <1>0, <1>1, <2>2 DEF Push
    <3> QED BY <1>0, <2>1, <3>1 DEF Counted
  <2>3. CASE resolvers # <<>>
    <3>1. promises' = promises /\ Len(valueOf') = Len(valueOf)
      BY <1>0, <1>1, <2>3 DEF Push
    <3> QED BY <1>0, <2>1, <3>1 DEF Counted
  <2> QED BY <2>2, <2>3
<1>2. ASSUME NEW r \in Readers, Pull(r) PROVE Counted'
  <2>0. awaited[r] = 0 /\ pulled' = pulled
    BY <1>2 DEF Pull
  <2>1. CASE promises = <<>>
    <3>1. /\ awaited' = [awaited EXCEPT ![r] = NewPromise]
          /\ Len(valueOf') = Len(valueOf) + 1 /\ promises' = promises
      BY <1>0, <1>2, <2>1 DEF Pull
    <3>2. IsFiniteSet(Waiting') /\ Cardinality(Waiting') = Cardinality(Waiting) + 1
      BY <1>0, <2>0, <3>1, WaitingChanges
    <3> QED BY <1>0, <2>0, <3>1, <3>2 DEF Counted
  <2>2. CASE promises # <<>>
    <3>1. /\ awaited' = [awaited EXCEPT ![r] = Head(promises)]
          /\ valueOf' = valueOf /\ promises' = Tail(promises)
      BY <1>2, <2>2 DEF Pull, PopPromise
    <3>2. Len(promises') = Len(promises) - 1
      BY <1>0, <2>2, <3>1, HeadTailProperties
    <3>3. Head(promises) \in Nat /\ Head(promises) # 0
      <4>1. Head(promises) \in Elems(promises)
        BY <1>0, <2>2, TailElems DEF ExactlyOnce
      <4>2. Head(promises) \in 1 .. Len(valueOf)
        BY <4>1 DEF ExactlyOnce, Promises
      <4> QED BY <1>0, <4>2
    <3>4. IsFiniteSet(Waiting') /\ Cardinality(Waiting') = Cardinality(Waiting) + 1
      BY <1>0, <2>0, <3>1, <3>3, WaitingChanges
    <3> QED BY <1>0, <2>0, <3>1, <3>2, <3>4 DEF Counted
  <2> QED BY <2>1, <2>2
<1>3. ASSUME NEW r \in Readers, Deliver(r) PROVE Counted'
  <2>1. /\ awaited[r] # 0 /\ awaited' = [awaited EXCEPT ![r] = 0]
        /\ promises' = promises /\ valueOf' = valueOf /\ Len(pulled') = Len(pulled) + 1
    BY <1>0, <1>3 DEF Deliver
  <2>2. IsFiniteSet(Waiting') /\ Cardinality(Waiting') = Cardinality(Waiting) - 1
    BY <1>0, <2>1, WaitingChanges
  <2> QED BY <1>0, <2>1, <2>2 DEF Counted
<1>4. ASSUME NEW r \in Readers, Timeout(r) PROVE Counted'
  <2>1. /\ awaited[r] # 0 /\ awaited' = [awaited EXCEPT ![r] = 0]
        /\ pulled' = pulled /\ valueOf' = valueOf
        /\ promises' = <<awaited[r]>> \o promises /\ awaited[r] \in Nat
    BY <1>0, <1>4 DEF Timeout, Readd
  <2>2. Len(promises') = Len(promises) + 1
    BY <1>0, <2>1
  <2>3. IsFiniteSet(Waiting') /\ Cardinality(Waiting') = Cardinality(Waiting) - 1
    BY <1>0, <2>1, WaitingChanges
  <2> QED BY <1>0, <2>1, <2>2, <2>3 DEF Counted
<1>5. CASE UNCHANGED queueVars
  BY <1>5 DEF queueVars, Counted, Waiting
<1> QED BY <1>1, <1>2, <1>3, <1>4, <1>5 DEF QueueNext, ReaderStep

\* The getter length is the backlog less the pulls that wait, for any number
\* of readers: it subtracts two sizes, and each time-out disturbs both.
THEOREM LengthIsTheBacklog == QueueSpec => []LengthIsBacklog
<1>1. QueueInit => Counted
  <2> SUFFICES ASSUME QueueInit PROVE Counted
    OBVIOUS
  <2>1. Waiting = {} /\ promises = <<>> /\ pulled = <<>> /\ valueOf = <<>>
    BY DEF QueueInit, Waiting
  <2> QED BY <2>1, FS_EmptySet DEF Counted
<1>2. IInv /\ Counted => LengthIsBacklog
  <2> SUFFICES ASSUME IInv, Counted PROVE LengthIsBacklog
    OBVIOUS
  <2>1. /\ Len(valueOf) \in Nat /\ Len(pulled) \in Nat /\ Len(promises) \in Nat
        /\ Len(resolvers) = Len(valueOf) - Len(pushed) /\ Len(pushed) \in Nat
        /\ Cardinality(Waiting) \in Nat
        /\ Len(valueOf) = Len(promises) + Len(pulled) + Cardinality(Waiting)
    BY FS_CardinalityType DEF IInv, QueueTypeOK, OpenPromises, Counted
  <2> QED BY <2>1 DEF LengthIsBacklog, Length
<1> QED BY <1>1, <1>2, NextCounted, Invariance, NothingLostOrRepeated, PTL DEF QueueSpec

\* No item is lost, repeated, overtaken or miscounted, for any number of
\* readers whose time-outs race any number of pushes.
THEOREM ItemsAreAccountedFor == QueueSpec => []ItemsAccountedFor
BY ItemsComeOnceInOrder, LengthIsTheBacklog, PTL DEF ItemsAccountedFor

-----------------------------------------------------------------------------
(***************************************************************************)
(* The refinement: with one reader the queue is a first-in first-out       *)
(* channel.  Its promises are then used in the order of their creation:    *)
(* a time-out puts a promise back where it was taken from.                 *)
(***************************************************************************)
OneReader == Readers = {Reader}

\* The pulls return the promises 1, 2, ..., and the next ones are held in
\* order, in the reader's hands and then in the deque.
InTurn ==
  /\ \A i \in 1 .. Len(pulled) : pulled[i] = i
  /\ \A i \in 1 .. Len(Held) : Held[i] = Len(pulled) + i
  /\ Len(valueOf) = Len(pulled) + Len(Held)
  /\ Len(pulled) <= Len(pushed)

\* What the reader holds, whether it waits or not.
LEMMA HeldIs ==
  ASSUME QueueTypeOK, OneReader
  PROVE  /\ awaited[Reader] \in Nat /\ Held \in Seq(Nat)
         /\ awaited[Reader] = 0 => Held = promises
         /\ awaited[Reader] # 0 =>
              /\ Len(Held) = Len(promises) + 1
              /\ Held[1] = awaited[Reader]
              /\ \A i \in 1 .. Len(promises) : Held[i + 1] = promises[i]
<1>1. awaited[Reader] \in Nat /\ promises \in Seq(Nat)
  BY DEF QueueTypeOK, OneReader
<1>2. CASE awaited[Reader] = 0
  BY <1>1, <1>2 DEF Held
<1>3. CASE awaited[Reader] # 0
  <2>1. Held = <<awaited[Reader]>> \o promises
    BY <1>3 DEF Held
  <2>2. /\ <<awaited[Reader]>> \in Seq(Nat) /\ Len(<<awaited[Reader]>>) = 1
        /\ <<awaited[Reader]>>[1] = awaited[Reader]
    BY <1>1
  <2>3. /\ Held \in Seq(Nat) /\ Len(Held) = Len(promises) + 1
        /\ \A i \in 1 .. Len(promises) + 1 :
             Held[i] = IF i <= 1 THEN <<awaited[Reader]>>[i] ELSE promises[i - 1]
    BY <1>1, <2>1, <2>2, ConcatProperties
  <2>4. Len(promises) \in Nat
    BY <1>1
  <2>5. Held[1] = awaited[Reader]
    BY <2>2, <2>3, <2>4
  <2>6. ASSUME NEW i \in 1 .. Len(promises) PROVE Held[i + 1] = promises[i]
    BY <2>3, <2>4
  <2> QED BY <1>1, <1>3, <2>3, <2>5, <2>6
<1> QED BY <1>2, <1>3

\* Every step of the one reader, and every push, keeps the promises in turn.
LEMMA NextInTurn ==
  ASSUME OneReader, IInv, IInv', InTurn, [QueueNext]_queueVars
  PROVE  InTurn'
<1>0. /\ promises \in Seq(Nat) /\ pulled \in Seq(Nat) /\ valueOf \in Seq(Items \cup {NoItem})
      /\ Len(promises) \in Nat /\ Len(pulled) \in Nat /\ Len(valueOf) \in Nat
      /\ Len(pushed) \in Nat /\ QueueTypeOK /\ QueueTypeOK' /\ awaited \in [Readers -> Nat]
      /\ pushed \in Seq(Items) /\ Reader \in Readers
      /\ NewPromise = Len(valueOf) + 1 /\ Held \in Seq(Nat) /\ Len(Held) \in Nat
  BY HeldIs DEF IInv, QueueTypeOK, NewPromise, OneReader
<1>1. /\ awaited[Reader] \in Nat /\ Held \in Seq(Nat)
      /\ awaited[Reader] = 0 => Held = promises
      /\ awaited[Reader] # 0 =>
           /\ Len(Held) = Len(promises) + 1
           /\ Held[1] = awaited[Reader]
           /\ \A i \in 1 .. Len(promises) : Held[i + 1] = promises[i]
  BY <1>0, HeldIs
<1>2. /\ awaited[Reader]' \in Nat /\ Held' \in Seq(Nat)
      /\ awaited[Reader]' = 0 => Held' = promises'
      /\ awaited[Reader]' # 0 =>
           /\ Len(Held') = Len(promises') + 1
           /\ Held'[1] = awaited[Reader]'
           /\ \A i \in 1 .. Len(promises') : Held'[i + 1] = promises'[i]
  <2>1. awaited'[Reader] \in Nat /\ promises' \in Seq(Nat)
    BY <1>0 DEF QueueTypeOK
  <2>2. CASE awaited'[Reader] = 0
    BY <2>1, <2>2 DEF Held
  <2>3. CASE awaited'[Reader] # 0
    <3> DEFINE a == awaited'[Reader]
    <3>1. Held' = <<a>> \o promises'
      BY <2>3 DEF Held
    <3>2. <<a>> \in Seq(Nat) /\ Len(<<a>>) = 1 /\ <<a>>[1] = a
      BY <2>1
    <3>3. /\ Held' \in Seq(Nat) /\ Len(Held') = Len(promises') + 1
          /\ \A i \in 1 .. Len(promises') + 1 :
               Held'[i] = IF i <= 1 THEN <<a>>[i] ELSE promises'[i - 1]
      BY <2>1, <3>1, <3>2, ConcatProperties
    <3>4. Len(promises') \in Nat
      BY <2>1
    <3>5. Held'[1] = a
      BY <3>2, <3>3, <3>4
    <3>6. ASSUME NEW i \in 1 .. Len(promises') PROVE Held'[i + 1] = promises'[i]
      BY <3>3, <3>4
    <3> QED BY <2>1, <2>3, <3>3, <3>5, <3>6
  <2> QED BY <2>2, <2>3
<1>a. /\ \A i \in 1 .. Len(pulled) : pulled[i] = i
      /\ \A i \in 1 .. Len(Held) : Held[i] = Len(pulled) + i
      /\ Len(valueOf) = Len(pulled) + Len(Held)
      /\ Len(pulled) <= Len(pushed)
  BY DEF InTurn
<1>3. ASSUME NEW item \in Items, Push(item) PROVE InTurn'
  <2>1. /\ awaited' = awaited /\ pulled' = pulled /\ Len(pushed') = Len(pushed) + 1
    BY <1>0, <1>3 DEF Push
  <2>2. CASE resolvers = <<>>
    <3>1. promises' = Append(promises, NewPromise) /\ Len(valueOf') = Len(valueOf) + 1
      BY <1>0, <1>3, <2>2 DEF Push
    <3>2. /\ Held' = Append(Held, NewPromise)
      <4>1. CASE awaited[Reader] = 0
        BY <1>1, <1>2, <2>1, <3>1, <4>1
      <4>2. CASE awaited[Reader] # 0
        BY <1>0, <2>1, <3>1, <4>2 DEF Held
      <4> QED BY <4>1, <4>2
    <3>3. Len(Held') = Len(Held) + 1
      BY <1>0, <3>2
    <3>4. NewPromise = Len(pulled) + Len(Held) + 1
      BY <1>0, <1>a
    <3>5. \A i \in 1 .. Len(Held') : Held'[i] = Len(pulled) + i
      <4>1. Held' = Append(Held, Len(pulled) + Len(Held) + 1)
        BY <3>2, <3>4
      <4> QED BY <1>0, <1>a, <4>1, AppendConsecutive
    <3> QED BY <1>0, <1>a, <2>1, <3>1, <3>3, <3>5 DEF InTurn
  <2>3. CASE resolvers # <<>>
    <3>1. promises' = promises /\ Len(valueOf') = Len(valueOf)
      BY <1>0, <1>3, <2>3 DEF Push, IInv, QueueTypeOK
    <3>2. Held' = Held
      BY <2>1, <3>1 DEF Held
    <3> QED BY <1>0, <1>a, <2>1, <3>1, <3>2 DEF InTurn
  <2> QED BY <2>2, <2>3
<1>4. ASSUME NEW r \in Readers, Pull(r) PROVE InTurn'
  <2>0. r = Reader
    BY DEF OneReader
  <2>1. awaited[Reader] = 0 /\ pushed' = pushed /\ pulled' = pulled /\ Held = promises
    BY <1>1, <1>4, <2>0 DEF Pull
  <2>2. CASE promises = <<>>
    <3>1. /\ awaited'[Reader] = Len(valueOf) + 1 /\ promises' = <<>>
          /\ Len(valueOf') = Len(valueOf) + 1
      BY <1>0, <1>4, <2>0, <2>2 DEF Pull
    <3>2. Len(Held') = 1 /\ Held'[1] = Len(valueOf) + 1
      BY <1>0, <1>2, <3>1
    <3>3. Len(Held) = 0 /\ Len(valueOf) = Len(pulled)
      <4>1. Held = <<>>
        BY <2>1, <2>2
      <4>2. Len(Held) = 0
        BY <4>1
      <4> QED BY <1>0, <1>a, <4>2
    <3>4. \A i \in 1 .. Len(Held') : Held'[i] = Len(pulled) + i
      <4> SUFFICES ASSUME NEW i \in 1 .. Len(Held') PROVE Held'[i] = Len(pulled) + i
        OBVIOUS
      <4>1. i = 1
        BY <3>2
      <4> QED BY <1>0, <3>2, <3>3, <4>1
    <3> QED BY <1>0, <1>a, <2>1, <3>1, <3>2, <3>3, <3>4 DEF InTurn
  <2>3. CASE promises # <<>>
    <3>1. awaited'[Reader] = Head(promises) /\ promises' = Tail(promises) /\ valueOf' = valueOf
      BY <1>0, <1>4, <2>0, <2>3 DEF Pull, PopPromise
    <3>2. /\ Head(promises) = promises[1] /\ Len(promises') = Len(promises) - 1
          /\ \A i \in 1 .. Len(promises') : promises'[i] = promises[i + 1]
          /\ Len(promises) >= 1
      BY <1>0, <2>3, <3>1, HeadTailProperties
    <3>3. promises[1] = Len(pulled) + 1
      BY <1>0, <1>a, <2>1, <3>2
    <3>4. /\ Len(Held') = Len(promises) /\ Held'[1] = promises[1]
          /\ \A i \in 1 .. Len(promises) - 1 : Held'[i + 1] = promises[i + 1]
      BY <1>0, <1>2, <3>1, <3>2, <3>3
    <3>5. ASSUME NEW i \in 1 .. Len(promises) PROVE Held'[i] = promises[i]
      <4>1. CASE i = 1
        BY <3>4, <4>1
      <4>2. CASE i # 1
        <5>1. i - 1 \in 1 .. Len(promises) - 1 /\ (i - 1) + 1 = i
          BY <1>0, <4>2
        <5> QED BY <3>4, <5>1
      <4> QED BY <4>1, <4>2
    <3> QED BY <1>0, <1>a, <2>1, <3>1, <3>4, <3>5 DEF InTurn
  <2> QED BY <2>2, <2>3
<1>5. ASSUME NEW r \in Readers, Deliver(r) PROVE InTurn'
  <2>0. r = Reader
    BY DEF OneReader
  <2>1. /\ awaited[Reader] # 0 /\ awaited'[Reader] = 0 /\ valueOf[awaited[Reader]] # NoItem
        /\ pulled' = Append(pulled, awaited[Reader])
        /\ promises' = promises /\ valueOf' = valueOf /\ pushed' = pushed
    BY <1>0, <1>5, <2>0 DEF Deliver
  <2>2. awaited[Reader] = Len(pulled) + 1 /\ Len(Held) = Len(promises) + 1
    <3>1. Len(Held) = Len(promises) + 1 /\ Held[1] = awaited[Reader]
      BY <1>1, <2>1
    <3>2. 1 \in 1 .. Len(Held)
      BY <1>0, <3>1
    <3>3. Held[1] = Len(pulled) + 1
      BY <1>a, <3>2
    <3> QED BY <3>1, <3>3
  <2>3. Len(pulled') = Len(pulled) + 1 /\ \A i \in 1 .. Len(pulled') : pulled'[i] = i
    BY <1>0, <1>a, <2>1, <2>2, AppendProperties
  <2>4. Held' = promises
    BY <1>2, <2>1
  <2>5. ASSUME NEW i \in 1 .. Len(promises) PROVE promises[i] = Len(pulled) + 1 + i
    <3>1. i + 1 \in 1 .. Len(Held) /\ Held[i + 1] = promises[i]
      BY <1>0, <1>1, <2>1, <2>2
    <3>2. Held[i + 1] = Len(pulled) + (i + 1)
      BY <1>a, <3>1
    <3> QED BY <1>0, <3>1, <3>2
  <2>6. Len(pulled) + 1 <= Len(pushed)
    <3>1. Len(pulled) + 1 \in Promises
      BY <1>0, <1>a, <2>2 DEF Promises
    <3> QED BY <1>0, <2>1, <2>2, <3>1 DEF IInv, ResolvedInOrder
  <2> QED BY <1>0, <1>a, <2>1, <2>2, <2>3, <2>4, <2>5, <2>6 DEF InTurn
<1>6. ASSUME NEW r \in Readers, Timeout(r) PROVE InTurn'
  <2>0. r = Reader
    BY DEF OneReader
  <2>1. /\ awaited[Reader] # 0 /\ awaited'[Reader] = 0
        /\ promises' = <<awaited[Reader]>> \o promises
        /\ UNCHANGED <<pulled, valueOf, pushed>>
    BY <1>0, <1>6, <2>0 DEF Timeout, Readd
  <2>2. Held' = <<awaited[Reader]>> \o promises
    BY <1>2, <2>1
  <2>3. Held' = Held
    BY <2>1, <2>2 DEF Held
  <2> QED BY <1>0, <1>a, <2>1, <2>3 DEF InTurn
<1>7. CASE UNCHANGED queueVars
  <2>1. Held' = Held
    BY <1>7 DEF queueVars, Held
  <2> QED BY <1>a, <1>7, <2>1 DEF queueVars, InTurn
<1> QED BY <1>3, <1>4, <1>5, <1>6, <1>7 DEF QueueNext, ReaderStep

\* The buffer is what was pushed and not pulled, and the reader took the rest.
NotPulled == [i \in 1 .. Len(pushed) - Len(pulled) |-> pushed[Len(pulled) + i]]
Pulled == [i \in 1 .. Len(pulled) |-> pushed[i]]

LEMMA InTurnMaps == IInv /\ InTurn => Backlog = NotPulled /\ Returned = Pulled
<1> SUFFICES ASSUME IInv, InTurn PROVE Backlog = NotPulled /\ Returned = Pulled
  OBVIOUS
<1>0. /\ Len(pulled) \in Nat /\ Len(valueOf) \in Nat /\ Len(pushed) \in Nat
      /\ Len(resolvers) = Len(valueOf) - Len(pushed)
      /\ Len(pushed) <= Len(valueOf) /\ Len(pulled) <= Len(pushed)
      /\ Len(valueOf) = Len(pulled) + Len(Held)
      /\ \A p \in 1 .. Len(pushed) : valueOf[p] = pushed[p]
  BY DEF IInv, QueueTypeOK, OpenPromises, ResolvedInOrder, Promises, InTurn
<1>1. Len(Held) = Len(valueOf) - Len(pulled)
  <2>1. Len(Held) \in Nat
    BY DEF IInv, QueueTypeOK, Held
  <2> QED BY <1>0, <2>1
<1>2. Len(Held) - Len(resolvers) = Len(pushed) - Len(pulled)
  BY <1>0, <1>1
<1>3. ASSUME NEW i \in 1 .. Len(pushed) - Len(pulled)
      PROVE  valueOf[Held[i]] = pushed[Len(pulled) + i]
  <2>1. i \in 1 .. Len(Held) /\ Len(pulled) + i \in 1 .. Len(pushed)
    BY <1>0, <1>1
  <2> QED BY <1>0, <2>1 DEF InTurn
<1>4. ASSUME NEW i \in 1 .. Len(pulled) PROVE valueOf[pulled[i]] = pushed[i]
  <2>1. i \in 1 .. Len(pushed)
    BY <1>0
  <2> QED BY <1>0, <2>1 DEF InTurn
<1> QED BY <1>2, <1>3, <1>4 DEF Backlog, Returned, NotPulled, Pulled

LEMMA NextInTurnMaps == (IInv /\ InTurn)' => (Backlog = NotPulled /\ Returned = Pulled)'
BY InTurnMaps, PTL

\* The sequences of InTurnMaps, item by item.
LEMMA NotPulledIs ==
  IInv /\ InTurn =>
    /\ Len(pulled) \in Nat /\ Len(pushed) \in Nat
    /\ NotPulled \in Seq(Items) /\ Len(NotPulled) = Len(pushed) - Len(pulled)
    /\ \A i \in 1 .. Len(NotPulled) : NotPulled[i] = pushed[Len(pulled) + i]
    /\ Pulled \in Seq(Items) /\ Len(Pulled) = Len(pulled)
    /\ \A i \in 1 .. Len(Pulled) : Pulled[i] = pushed[i]
<1> SUFFICES ASSUME IInv, InTurn
             PROVE  /\ Len(pulled) \in Nat /\ Len(pushed) \in Nat
                    /\ NotPulled \in Seq(Items) /\ Len(NotPulled) = Len(pushed) - Len(pulled)
                    /\ \A i \in 1 .. Len(NotPulled) : NotPulled[i] = pushed[Len(pulled) + i]
                    /\ Pulled \in Seq(Items) /\ Len(Pulled) = Len(pulled)
                    /\ \A i \in 1 .. Len(Pulled) : Pulled[i] = pushed[i]
  OBVIOUS
<1>1. /\ pushed \in Seq(Items) /\ Len(pulled) \in Nat /\ Len(pushed) \in Nat
      /\ Len(pulled) <= Len(pushed)
  BY DEF IInv, QueueTypeOK, InTurn
<1>2. \A i \in 1 .. Len(pushed) - Len(pulled) : pushed[Len(pulled) + i] \in Items
  BY <1>1
<1> QED BY <1>1, <1>2 DEF NotPulled, Pulled

LEMMA NextNotPulledIs ==
  (IInv /\ InTurn)' =>
    (/\ Len(pulled) \in Nat /\ Len(pushed) \in Nat
     /\ NotPulled \in Seq(Items) /\ Len(NotPulled) = Len(pushed) - Len(pulled)
     /\ \A i \in 1 .. Len(NotPulled) : NotPulled[i] = pushed[Len(pulled) + i]
     /\ Pulled \in Seq(Items) /\ Len(Pulled) = Len(pulled)
     /\ \A i \in 1 .. Len(Pulled) : Pulled[i] = pushed[i])'
BY NotPulledIs, PTL

\* A step of the queue is a step of the channel or leaves it as it was.
LEMMA NextMaps ==
  ASSUME OneReader, IInv, IInv', InTurn, InTurn', [QueueNext]_queueVars
  PROVE  [F!Next]_(F!fifoVars)
<1> DEFINE B == NotPulled
           R == Pulled
<1>1. Backlog = B /\ Returned = R /\ Backlog' = B' /\ Returned' = R'
  BY InTurnMaps, NextInTurnMaps
<1>2. /\ Len(pulled) \in Nat /\ Len(pushed) \in Nat
      /\ B \in Seq(Items) /\ Len(B) = Len(pushed) - Len(pulled)
      /\ \A i \in 1 .. Len(B) : B[i] = pushed[Len(pulled) + i]
      /\ R \in Seq(Items) /\ Len(R) = Len(pulled)
      /\ \A i \in 1 .. Len(R) : R[i] = pushed[i]
  BY NotPulledIs
<1>3. /\ Len(pulled') \in Nat /\ Len(pushed') \in Nat
      /\ B' \in Seq(Items) /\ Len(B') = Len(pushed') - Len(pulled')
      /\ \A i \in 1 .. Len(B') : B'[i] = pushed'[Len(pulled') + i]
      /\ R' \in Seq(Items) /\ Len(R') = Len(pulled')
      /\ \A i \in 1 .. Len(R') : R'[i] = pushed'[i]
  BY NextNotPulledIs
<1>0. pushed \in Seq(Items) /\ pulled \in Seq(Nat) /\ Len(pulled) <= Len(pushed)
  BY DEF IInv, QueueTypeOK, InTurn
<1>4. ASSUME NEW item \in Items, Push(item) PROVE F!Put(item)
  <2>1. pushed' = Append(pushed, item) /\ pulled' = pulled
    BY <1>4 DEF Push
  <2>2. /\ Len(pushed') = Len(pushed) + 1 /\ pushed'[Len(pushed) + 1] = item
        /\ \A i \in 1 .. Len(pushed) : pushed'[i] = pushed[i]
    BY <1>0, <2>1, AppendProperties
  <2> HIDE DEF B, R
  <2>3. R' = R
    <3>1. Len(R') = Len(R) /\ \A i \in 1 .. Len(R') : R'[i] = R[i]
      BY <1>0, <1>2, <1>3, <2>1, <2>2
    <3> QED BY <1>2, <1>3, <3>1, SeqEqual
  <2>4. B' = Append(B, item)
    <3>1. /\ Append(B, item) \in Seq(Items)
          /\ Len(Append(B, item)) = Len(B) + 1
          /\ \A i \in 1 .. Len(B) : Append(B, item)[i] = B[i]
          /\ Append(B, item)[Len(B) + 1] = item
      BY <1>2, AppendProperties
    <3>2. Len(B') = Len(B) + 1
      BY <1>2, <1>3, <2>1, <2>2
    <3>3. ASSUME NEW i \in 1 .. Len(B') PROVE B'[i] = Append(B, item)[i]
      <4>1. CASE i \in 1 .. Len(B)
        <5>1. Len(pulled) + i \in 1 .. Len(pushed)
          BY <1>2, <4>1
        <5> QED BY <1>2, <1>3, <2>1, <2>2, <3>1, <4>1, <5>1
      <4>2. CASE i = Len(B) + 1
        <5>1. Len(pulled) + i = Len(pushed) + 1
          BY <1>2, <4>2
        <5> QED BY <1>3, <2>1, <2>2, <3>1, <4>2, <5>1
      <4> QED BY <1>2, <3>2, <4>1, <4>2
    <3> QED BY <1>3, <3>1, <3>2, <3>3, SeqEqual
  <2> QED BY <1>1, <2>3, <2>4 DEF F!Put
<1>5. ASSUME NEW r \in Readers, Pull(r) PROVE UNCHANGED <<Backlog, Returned>>
  BY <1>5, <1>1 DEF Pull, NotPulled, Pulled
<1>6. ASSUME NEW r \in Readers, Deliver(r) PROVE F!Take
  <2>1. pushed' = pushed /\ Len(pulled') = Len(pulled) + 1
    BY <1>0, <1>6 DEF Deliver
  <2> HIDE DEF B, R
  <2>2. B # <<>> /\ Len(B) >= 1 /\ Head(B) = pushed[Len(pulled) + 1]
    <3>1. Len(B) >= 1
      BY <1>2, <1>3, <2>1
    <3>2. B # <<>> /\ Head(B) = B[1]
      BY <1>2, <3>1
    <3>3. B[1] = pushed[Len(pulled) + 1]
      BY <1>2, <3>1
    <3> QED BY <3>1, <3>2, <3>3
  <2>3. B' = Tail(B)
    <3>1. /\ Tail(B) \in Seq(Items) /\ Len(Tail(B)) = Len(B) - 1
          /\ \A i \in 1 .. Len(Tail(B)) : Tail(B)[i] = B[i + 1]
      BY <1>2, <2>2, HeadTailProperties
    <3>2. Len(B') = Len(B) - 1
      BY <1>2, <1>3, <2>1
    <3>3. ASSUME NEW i \in 1 .. Len(B') PROVE B'[i] = Tail(B)[i]
      <4>1. i + 1 \in 1 .. Len(B) /\ Len(pulled') + i = Len(pulled) + (i + 1)
        BY <1>2, <2>1, <3>2
      <4> QED BY <1>2, <1>3, <2>1, <3>1, <3>2, <4>1
    <3> QED BY <1>3, <3>1, <3>2, <3>3, SeqEqual
  <2>4. R' = Append(R, Head(B))
    <3>1. Head(B) \in Items
      BY <1>2, <2>2, HeadTailProperties
    <3>2. /\ Append(R, Head(B)) \in Seq(Items)
          /\ Len(Append(R, Head(B))) = Len(R) + 1
          /\ \A i \in 1 .. Len(R) : Append(R, Head(B))[i] = R[i]
          /\ Append(R, Head(B))[Len(R) + 1] = Head(B)
      BY <1>2, <3>1, AppendProperties
    <3>3. ASSUME NEW i \in 1 .. Len(R') PROVE R'[i] = Append(R, Head(B))[i]
      <4>1. CASE i \in 1 .. Len(R)
        BY <1>2, <1>3, <2>1, <3>2, <4>1
      <4>2. CASE i = Len(R) + 1
        BY <1>2, <1>3, <2>1, <2>2, <3>2, <4>2
      <4> QED BY <1>2, <1>3, <2>1, <4>1, <4>2
    <3> QED BY <1>2, <1>3, <2>1, <3>2, <3>3, SeqEqual
  <2> QED BY <1>1, <2>2, <2>3, <2>4 DEF F!Take
<1>7. ASSUME NEW r \in Readers, Timeout(r) PROVE UNCHANGED <<Backlog, Returned>>
  BY <1>7, <1>1 DEF Timeout, NotPulled, Pulled
<1>8. ASSUME UNCHANGED queueVars PROVE UNCHANGED <<Backlog, Returned>>
  BY <1>8, <1>1 DEF queueVars, NotPulled, Pulled
<1> QED BY <1>4, <1>5, <1>6, <1>7, <1>8 DEF QueueNext, ReaderStep, F!Next, F!fifoVars

\* With one reader the queue is a first-in first-out channel (unit.test.ts:
\* "should push and pull items in FIFO order"): what a pull returns is the
\* oldest item not yet returned, and its time-outs are invisible.
THEOREM ImplementsFifoForOneReader ==
  ASSUME OneReader
  PROVE  QueueSpec => ImplementsFifo
<1>1. QueueInit => InTurn
  BY DEF QueueInit, InTurn, Held, OneReader
<1>2. IInv /\ IInv' /\ InTurn /\ [QueueNext]_queueVars => InTurn'
  BY NextInTurn
<1>3. QueueInit => F!Init
  BY DEF QueueInit, F!Init, Backlog, Returned, Held, OneReader
<1>4. IInv /\ IInv' /\ InTurn /\ InTurn' /\ [QueueNext]_queueVars => [F!Next]_(F!fifoVars)
  BY NextMaps
<1> QED BY <1>1, <1>2, <1>3, <1>4, Invariance, PTL DEF QueueSpec, ImplementsFifo, F!Spec
=============================================================================
