---------------------------- MODULE BatcherProofs ---------------------------
(***************************************************************************)
(* Proofs about Batcher and Ingest, for every number of entries, their     *)
(* kinds, keys and sizes, every batch size and every number of events.     *)
(***************************************************************************)
EXTENDS Ingest, SequenceTheorems, FiniteSetTheorems, TLAPS

-----------------------------------------------------------------------------
(***************************************************************************)
(* Types of the operators the actions are built from.                      *)
(***************************************************************************)
LEMMA EmptyReqType == EmptyReq \in Requests
BY DEF EmptyReq, Requests

LEMMA KindType == ASSUME NEW e \in Entries PROVE KindOf[e] \in Kinds
BY EntriesAssumption

LEMMA KeysFinite == IsFiniteSet(Keys)
<1>1. IsFiniteSet(Entries)
  BY EntriesAssumption, FS_Interval DEF Entries
<1>2. [e \in Entries |-> KeyOf[e]] \in Surjection(Entries, Keys)
  BY DEF Keys, Surjection
<1> QED BY <1>1, <1>2, FS_Surjection

LEMMA EntriesType == Entries \subseteq Nat \ {0}
BY EntriesAssumption DEF Entries

\* Packing an entry keeps a request a request.
LEMMA WithEntryType ==
  ASSUME NEW r \in Requests, NEW e \in Entries
  PROVE  WithEntry(r, e) \in Requests
<1>1. r[KindOf[e]] \in Seq(Entries)
  BY KindType DEF Requests
<1>2. Append(r[KindOf[e]], e) \in Seq(Entries)
  BY <1>1, AppendProperties
<1> QED BY <1>2 DEF WithEntry, Requests

LEMMA KeysOfType ==
  ASSUME NEW s \in Seq(Entries)
  PROVE  KeysOf(s) \subseteq Keys
<1>1. \A i \in DOMAIN s : s[i] \in Entries
  OBVIOUS
<1> QED BY <1>1 DEF KeysOf, EntriesOf, Keys

LEMMA InReqType ==
  ASSUME NEW r \in Requests
  PROVE  InReq(r) \subseteq Entries
<1>1. ASSUME NEW k \in Kinds PROVE EntriesOf(r[k]) \subseteq Entries
  <2>1. r[k] \in Seq(Entries)
    BY DEF Requests
  <2>2. \A i \in DOMAIN r[k] : r[k][i] \in Entries
    BY <2>1
  <2> QED BY <2>2 DEF EntriesOf
<1> QED BY <1>1 DEF InReq

\* Sending a request keeps the types of what was sent.
LEMMA SendType ==
  ASSUME NEW r \in Requests, unacked \in Seq(Requests), sent \in Requests, Send(r)
  PROVE  unacked' \in Seq(Requests) /\ sent' \in Requests
<1>1. unacked' \in Seq(Requests)
  BY AppendProperties DEF Send
<1>2. ASSUME NEW k \in Kinds PROVE sent[k] \o r[k] \in Seq(Entries)
  BY ConcatProperties DEF Requests
<1>3. sent' \in Requests
  BY <1>2 DEF Send, Requests
<1> QED BY <1>1, <1>3

\* The entries that go back to the queue are entries.
LEMMA CachedSeq ==
  ASSUME NEW s \in Seq(Entries),
         cache \in [Keys -> [entry : Entries \cup {NoEntry}, index : Nat]]
  PROVE  Cached(s) \in Seq(Entries \cup {NoEntry})
<1>1. ASSUME NEW i \in 1 .. Len(s) PROVE cache[KeyOf[s[i]]].entry \in Entries \cup {NoEntry}
  BY DEF Keys
<1>2. Cached(s) = [i \in 1 .. Len(s) |-> cache[KeyOf[s[i]]].entry]
  BY DEF Cached
<1> QED BY <1>1, <1>2

LEMMA SeqRestrict ==
  ASSUME NEW S, NEW T, NEW s \in Seq(S), \A i \in 1 .. Len(s) : s[i] \in T
  PROVE  s \in Seq(T)
OBVIOUS

LEMMA RequeueType ==
  ASSUME NEW m, m["obj"] \in Seq(Entries), m["ref"] \in Seq(Entries),
         cache \in [Keys -> [entry : Entries \cup {NoEntry}, index : Nat]],
         NoEntry \notin EntriesOf(Cached(m["obj"]) \o Cached(m["ref"]))
  PROVE  Requeue(m) \in Seq(Entries)
<1> DEFINE S == Entries \cup {NoEntry}
           r == Cached(m["obj"]) \o Cached(m["ref"])
<1>1. r \in Seq(S)
  BY CachedSeq, ConcatProperties
<1>2. NoEntry \notin EntriesOf(r) /\ Requeue(m) = r
  BY DEF Requeue
<1> HIDE DEF r
<1>3. DOMAIN r = 1 .. Len(r) /\ \A i \in 1 .. Len(r) : r[i] \in S
  BY <1>1
<1>4. \A i \in 1 .. Len(r) : r[i] \in Entries
  BY <1>2, <1>3 DEF EntriesOf
<1> QED BY <1>1, <1>2, <1>4, SeqRestrict

-----------------------------------------------------------------------------
(***************************************************************************)
(* Type correctness: initially, and one lemma for each party's steps.      *)
(***************************************************************************)
LEMMA InitTypeOK == Init => TypeOK
<1> SUFFICES ASSUME Init PROVE TypeOK
  OBVIOUS
<1>1. [k \in Kinds |-> <<>>] \in Requests /\ EmptyReq \in Requests
  BY EmptyReqType DEF EmptyReq
<1>2. batchSize \in Nat \ {0} /\ budget \in [Events -> Nat]
  BY SizesAssumption, BudgetAssumption DEF Init
<1>3. cache \in [Keys -> [entry : Entries \cup {NoEntry}, index : Nat]]
  BY DEF Init, NotCached
<1>4. /\ call \in [Entries -> {"idle", "waiting", "added", "rejected"}]
      /\ snapshot \in [Entries -> Nat]
      /\ inflight \in [Kinds -> SUBSET Keys]
      /\ index \in [Kinds -> Nat] /\ acceptedAtStop \in [Kinds -> Nat]
  BY DEF Init
<1>5. /\ successes \in [Kinds -> [Indices -> Keys \cup {NoKey}]]
      /\ errors \in [Kinds -> [Indices -> Entries \cup {NoEntry}]]
  BY DEF Init
<1>6. pending \in Requests /\ req \in Requests /\ accepted \in Requests /\ sent \in Requests
  BY <1>1 DEF Init
<1>7. queue \in Seq(Entries) /\ unacked \in Seq(Requests)
  BY DEF Init
<1>8. /\ isStarted \in BOOLEAN /\ isShuttingDown \in BOOLEAN
      /\ isOom \in BOOLEAN /\ isRenewingStream \in BOOLEAN
  BY ZenonT(20) DEF Init
<1>9. /\ stopping \in {"no", "waiting", "resolved", "threw"}
      /\ pc \in {"closed", "waitStarted", "top", "pull", "window", "oomSleep"}
      /\ rx \in {"connecting", "open", "reconnecting", "ended", "failed"}
      /\ hand \in Entries \cup {NoEntry} /\ retries \in 0 .. 5
      /\ unreported \subseteq Entries /\ settled \subseteq Entries
  BY DEF Init
<1> QED BY <1>2, <1>3, <1>4, <1>5, <1>6, <1>7, <1>8, <1>9 DEF TypeOK

LEMMA AppTypeOK ==
  ASSUME TypeOK,
         Stop \/ StopReturns \/ Terminated \/ Poll \/ \E e \in Entries : Add(e) \/ AddResumes(e)
  PROVE  TypeOK'
<1>1. ASSUME NEW e \in Entries, Push(e)
      PROVE  queue' \in Seq(Entries) /\ accepted' \in Requests
  <2>1. queue' \in Seq(Entries)
    BY <1>1, AppendProperties DEF Push, TypeOK
  <2>2. accepted' = WithEntry(accepted, e)
    BY <1>1 DEF Push, WithEntry
  <2> QED BY <2>1, <2>2, WithEntryType DEF TypeOK
<1>2. ASSUME NEW e \in Entries, Add(e) PROVE TypeOK'
  <2> DEFINE n == Cardinality(inflight[KindOf[e]])
  <2>1. n \in Nat
    BY KindType, KeysFinite, FS_Subset, FS_CardinalityType DEF TypeOK
  <2> HIDE DEF n
  <2>2. /\ queue' \in Seq(Entries) /\ accepted' \in Requests
        /\ call' \in [Entries -> {"idle", "waiting", "added", "rejected"}]
        /\ snapshot' \in [Entries -> Nat]
    BY <1>1, <1>2, <2>1 DEF Add, TypeOK, n
  <2> QED BY <1>2, <2>2 DEF Add, TypeOK, flagVars, resultVars, genVars, rxVars, srvVars
<1>3. ASSUME NEW e \in Entries, AddResumes(e) PROVE TypeOK'
  <2>1. queue' \in Seq(Entries) /\ accepted' \in Requests
    BY <1>1, <1>3 DEF AddResumes
  <2> QED BY <1>3, <2>1 DEF AddResumes, TypeOK, flagVars, resultVars, genVars, rxVars, srvVars
<1>4. ASSUME Stop PROVE TypeOK'
  <2>1. acceptedAtStop' \in [Kinds -> Nat]
    BY <1>4 DEF Stop, TypeOK, Requests
  <2> QED BY <1>4, <2>1 DEF Stop, TypeOK, flagVars, resultVars, genVars, rxVars, srvVars
<1>5. ASSUME StopReturns PROVE TypeOK'
  BY <1>5 DEF StopReturns, TypeOK, flagVars, resultVars, genVars, rxVars, srvVars
<1>6. ASSUME Terminated \/ Poll PROVE TypeOK'
  BY <1>6 DEF Terminated, Poll, TypeOK, vars, appVars, flagVars, resultVars, genVars, rxVars, srvVars
<1> QED BY <1>2, <1>3, <1>4, <1>5, <1>6

\* The generator sleeps before a yield only with an entry in its hand.
HandHeld == pc = "window" => hand \in Entries

LEMMA GeneratorTypeOK ==
  ASSUME TypeOK, HandHeld, Generator
  PROVE  TypeOK'
<1> USE DEF appVars, flagVars, resultVars, genVars, rxVars, srvVars
<1>1. ASSUME Begin PROVE TypeOK'
  BY <1>1 DEF Begin, TypeOK
<1>2. ASSUME LeaveOnShutdown PROVE TypeOK'
  BY <1>2 DEF LeaveOnShutdown, SaveReq, TypeOK
<1>3. ASSUME RenewStream PROVE TypeOK'
  <2>1. isRenewingStream' \in BOOLEAN
    BY <1>3 DEF RenewStream
  <2>2. budget' \in [Events -> Nat]
    BY <1>3 DEF RenewStream, Spend, TypeOK, Events
  <2> QED BY <1>3, <2>1, <2>2 DEF RenewStream, TypeOK
<1>4. ASSUME PauseOnOom PROVE TypeOK'
  BY <1>4 DEF PauseOnOom, SaveReq, TypeOK
<1>5. ASSUME LeaveOnOom PROVE TypeOK'
  BY <1>5 DEF LeaveOnOom, TypeOK
<1>6. ASSUME Wait PROVE TypeOK'
  BY <1>6 DEF Wait, TypeOK
<1>7. ASSUME PullNothing PROVE TypeOK'
  BY <1>7 DEF PullNothing, TypeOK
<1>8. ASSUME Finish PROVE TypeOK'
  <2>1. unacked' \in Seq(Requests) /\ sent' \in Requests
    BY <1>8, SendType DEF Finish, TypeOK
  <2> QED BY <1>8, <2>1, EmptyReqType DEF Finish, TypeOK
<1>9. ASSUME PullEntry PROVE TypeOK'
  <2> DEFINE e == Head(queue)
  <2>1. e \in Entries /\ queue' \in Seq(Entries)
    BY <1>9, HeadTailProperties DEF PullEntry, TypeOK
  <2>2. KeyOf[e] \in Keys /\ IndexOf(e) \in Nat
    BY <2>1, KindType DEF Keys, IndexOf, TypeOK
  <2>3. cache' \in [Keys -> [entry : Entries \cup {NoEntry}, index : Nat]]
    BY <1>9, <2>1, <2>2 DEF PullEntry, TypeOK
  <2>a. KindOf[e] \in Kinds /\ WithEntry(req, e) \in Requests
    BY <2>1, KindType, WithEntryType DEF TypeOK
  <2>4. ASSUME Pack(e, req, totalSize)
        PROVE  req' \in Requests /\ index' \in [Kinds -> Nat] /\ pc' = "top"
    BY <2>a, <2>4 DEF Pack, TypeOK
  <2>5. /\ req' \in Requests /\ index' \in [Kinds -> Nat]
        /\ pc' \in {"closed", "window", "top"}
        /\ hand' \in Entries \cup {NoEntry}
        /\ rx' \in {rx, "failed"}
    BY <1>9, <2>1, <2>4 DEF PullEntry, TypeOK
  <2> QED BY <1>9, <2>1, <2>3, <2>5 DEF PullEntry, TypeOK
<1>10. ASSUME YieldAndPack PROVE TypeOK'
  <2>1. hand \in Entries /\ KindOf[hand] \in Kinds
    BY <1>10, KindType DEF YieldAndPack, HandHeld
  <2>2. inflight' \in [Kinds -> SUBSET Keys]
    <3>1. KeysOf(req[KindOf[hand]]) \subseteq Keys
      BY <2>1, KeysOfType DEF TypeOK, Requests
    <3> QED BY <1>10, <2>1, <3>1 DEF YieldAndPack, TypeOK
  <2>3. unacked' \in Seq(Requests) /\ sent' \in Requests
    BY <1>10, SendType DEF YieldAndPack, TypeOK
  <2>4. /\ req' = WithEntry(EmptyReq, hand)
        /\ index' = [index EXCEPT ![KindOf[hand]] = @ + 1]
        /\ pc' = "top"
    BY <1>10 DEF YieldAndPack, Pack, AfterYield
  <2>5. req' \in Requests /\ index' \in [Kinds -> Nat]
    BY <2>1, <2>4, EmptyReqType, WithEntryType DEF TypeOK
  <2> QED BY <1>10, <2>2, <2>3, <2>4, <2>5 DEF YieldAndPack, TypeOK
<1> QED BY <1>1, <1>2, <1>3, <1>4, <1>5, <1>6, <1>7, <1>8, <1>9, <1>10 DEF Generator

LEMMA ReceiverTypeOK ==
  ASSUME TypeOK, Receiver
  PROVE  TypeOK'
<1> USE DEF appVars, flagVars, resultVars, genVars, rxVars, srvVars
<1>1. ASSUME NEW event \in Events, Spend(event) PROVE budget' \in [Events -> Nat]
  BY <1>1 DEF Spend, TypeOK
<1>2. ASSUME NEW m \in Requests PROVE AfterAnswer(m) \in [Kinds -> SUBSET Keys]
  BY DEF AfterAnswer, TypeOK
<1>3. ASSUME unacked # <<>>
      PROVE  Head(unacked) \in Requests /\ Tail(unacked) \in Seq(Requests)
  BY <1>3, HeadTailProperties DEF TypeOK
<1>4. ASSUME Connect PROVE TypeOK'
  BY <1>4 DEF Connect, TypeOK
<1>5. ASSUME RecvStarted PROVE TypeOK'
  <2>1. isStarted' \in BOOLEAN
    BY <1>5 DEF RecvStarted
  <2> QED BY <1>5, <2>1 DEF RecvStarted, TypeOK
<1>6. ASSUME RecvAcks PROVE TypeOK'
  <2>1. /\ inflight' \in [Kinds -> SUBSET Keys]
        /\ unacked' \in Seq(Requests)
        /\ unreported' \subseteq Entries
    BY <1>2, <1>3, <1>6, InReqType DEF RecvAcks, TypeOK
  <2> QED BY <1>6, <2>1 DEF RecvAcks, TypeOK
<1>7. ASSUME RecvBackoff PROVE TypeOK'
  <2>1. budget' \in [Events -> Nat] /\ batchSize' \in Nat \ {0}
    BY <1>1, <1>7, SizesAssumption DEF RecvBackoff, Events
  <2> QED BY <1>7, <2>1 DEF RecvBackoff, TypeOK
<1>8. ASSUME RecvOutOfMemory PROVE TypeOK'
  <2> DEFINE m == Head(unacked)
  <2>1. m \in Requests /\ Tail(unacked) \in Seq(Requests)
    BY <1>3, <1>8 DEF RecvOutOfMemory
  <2>2. isOom' \in BOOLEAN
    BY <1>8 DEF RecvOutOfMemory
  <2>3. budget' \in [Events -> Nat]
    BY <1>1, <1>8 DEF RecvOutOfMemory, Events
  <2>4. CASE NoEntry \in EntriesOf(Cached(m["obj"]) \o Cached(m["ref"]))
    BY <1>8, <2>2, <2>3, <2>4 DEF RecvOutOfMemory, TypeOK
  <2>5. CASE NoEntry \notin EntriesOf(Cached(m["obj"]) \o Cached(m["ref"]))
    <3>1. m["obj"] \in Seq(Entries) /\ m["ref"] \in Seq(Entries)
      BY <2>1 DEF Requests, Kinds
    <3>2. Requeue(m) \in Seq(Entries)
      BY <2>5, <3>1, RequeueType DEF TypeOK
    <3>3. queue' \in Seq(Entries)
      <4>1. queue' = queue \o Requeue(m) /\ queue \in Seq(Entries)
        BY <1>8, <2>5 DEF RecvOutOfMemory, TypeOK
      <4> QED BY <3>2, <4>1, ConcatProperties
    <3>4. inflight' \in [Kinds -> SUBSET Keys] /\ unacked' \in Seq(Requests)
      BY <1>2, <1>8, <2>1, <2>5 DEF RecvOutOfMemory
    <3>5. UNCHANGED <<rx, pc>>
      BY <1>8, <2>5 DEF RecvOutOfMemory
    <3> QED BY <1>8, <2>2, <2>3, <3>3, <3>4, <3>5 DEF RecvOutOfMemory, TypeOK
  <2> QED BY <2>4, <2>5
<1>9. ASSUME RecvShuttingDown PROVE TypeOK'
  <2>1. isShuttingDown' \in BOOLEAN /\ isOom' \in BOOLEAN
    BY <1>9 DEF RecvShuttingDown
  <2>2. budget' \in [Events -> Nat]
    BY <1>1, <1>9 DEF RecvShuttingDown, Events
  <2> QED BY <1>9, <2>1, <2>2 DEF RecvShuttingDown, TypeOK
<1>10. ASSUME NEW e \in Entries, RecvResult(e) PROVE TypeOK'
  <2> DEFINE key == KeyOf[e]
             k == KindOf[e]
             cached == cache[key]
  <2>1. /\ key \in Keys /\ k \in Kinds
        /\ cached \in [entry : Entries \cup {NoEntry}, index : Nat]
    BY KindType DEF Keys, TypeOK
  <2>a. /\ cache' \in {cache, [cache EXCEPT ![key] = NotCached]}
        /\ successes' \in {successes, [successes EXCEPT ![k][cached.index] = key]}
        /\ errors' \in {errors, [errors EXCEPT ![k][cached.index] = cached.entry]}
    BY <1>10 DEF RecvResult
  <2>b. /\ NotCached \in [entry : Entries \cup {NoEntry}, index : Nat]
        /\ cached.entry \in Entries \cup {NoEntry}
    BY <2>1 DEF NotCached
  <2>c. /\ cache \in [Keys -> [entry : Entries \cup {NoEntry}, index : Nat]]
        /\ successes \in [Kinds -> [Indices -> Keys \cup {NoKey}]]
        /\ errors \in [Kinds -> [Indices -> Entries \cup {NoEntry}]]
    BY DEF TypeOK
  <2> HIDE DEF key, k, cached
  <2>2. cache' \in [Keys -> [entry : Entries \cup {NoEntry}, index : Nat]]
    BY <2>a, <2>b, <2>c
  <2>3. successes' \in [Kinds -> [Indices -> Keys \cup {NoKey}]]
    <3>1. [successes[k] EXCEPT ![cached.index] = key] \in [Indices -> Keys \cup {NoKey}]
      BY <2>1, <2>c
    <3> QED BY <2>a, <2>c, <3>1
  <2>4. errors' \in [Kinds -> [Indices -> Entries \cup {NoEntry}]]
    <3>1. [errors[k] EXCEPT ![cached.index] = cached.entry]
            \in [Indices -> Entries \cup {NoEntry}]
      BY <2>1, <2>b, <2>c
    <3> QED BY <2>a, <2>c, <3>1
  <2> QED BY <1>10, <2>2, <2>3, <2>4 DEF RecvResult, TypeOK
<1>11. ASSUME RecvEnd PROVE TypeOK'
  <2>1. isStarted' \in BOOLEAN /\ isRenewingStream' \in BOOLEAN
    BY <1>11 DEF RecvEnd, TypeOK
  <2> QED BY <1>11, <2>1 DEF RecvEnd, TypeOK
<1>12. ASSUME Reconnect PROVE TypeOK'
  <2>1. isStarted' \in BOOLEAN
    BY <1>12 DEF Reconnect
  <2> QED BY <1>12, <2>1 DEF Reconnect, TypeOK
<1>13. ASSUME ReconnectFails PROVE TypeOK'
  <2>1. budget' \in [Events -> Nat]
    BY <1>1, <1>13 DEF ReconnectFails, Events
  <2>2. retries' \in 0 .. 5 /\ rx' \in {rx, "failed"}
    BY <1>13 DEF ReconnectFails, GiveUp, TypeOK
  <2> QED BY <1>13, <2>1, <2>2 DEF ReconnectFails, TypeOK
<1>14. ASSUME RecvError PROVE TypeOK'
  <2>1. budget' \in [Events -> Nat]
    BY <1>1, <1>14 DEF RecvError, Events
  <2> QED BY <1>14, <2>1 DEF RecvError, TypeOK
<1> QED BY <1>4, <1>5, <1>6, <1>7, <1>8, <1>9, <1>10, <1>11, <1>12, <1>13, <1>14
        DEF Receiver

-----------------------------------------------------------------------------
(***************************************************************************)
(* The keys in flight.  InflightSound is inductive with the types: a yield *)
(* adds the request whose keys it counts, and an answer takes both away.   *)
(***************************************************************************)
IInv == TypeOK /\ HandHeld /\ InflightSound

LEMMA NextTypeOK == TypeOK /\ HandHeld /\ [Next]_vars => TypeOK'
<1> SUFFICES ASSUME TypeOK, HandHeld, [Next]_vars PROVE TypeOK'
  OBVIOUS
<1>1. CASE UNCHANGED vars
  BY <1>1, AppTypeOK DEF Terminated, vars, TypeOK, appVars, flagVars, resultVars, genVars,
                         rxVars, srvVars
<1>2. CASE Next
  BY <1>2, AppTypeOK, GeneratorTypeOK, ReceiverTypeOK DEF Next
<1> QED BY <1>1, <1>2

LEMMA NextHandHeld == TypeOK /\ HandHeld /\ [Next]_vars => HandHeld'
<1> SUFFICES ASSUME TypeOK, HandHeld, [Next]_vars PROVE HandHeld'
  OBVIOUS
<1> USE DEF HandHeld, appVars, flagVars, resultVars, genVars, rxVars, srvVars
<1>1. ASSUME PullEntry PROVE HandHeld'
  <2>1. Head(queue) \in Entries
    BY <1>1, HeadTailProperties DEF PullEntry, TypeOK
  <2> QED BY <1>1, <2>1 DEF PullEntry, Pack
<1>2. ASSUME Generator, ~PullEntry PROVE HandHeld'
  BY <1>2 DEF Generator, Begin, LeaveOnShutdown, RenewStream, PauseOnOom, LeaveOnOom, Wait,
              PullNothing, Finish, YieldAndPack, Pack
<1>3. ASSUME Receiver PROVE HandHeld'
  BY <1>3 DEF Receiver, Connect, RecvStarted, RecvAcks, RecvBackoff, RecvOutOfMemory,
              RecvShuttingDown, RecvEnd, Reconnect, ReconnectFails, RecvError, RecvResult
<1>4. ASSUME NEW e \in Entries, Add(e) \/ AddResumes(e) PROVE HandHeld'
  BY <1>4 DEF Add, AddResumes
<1>5. ASSUME Stop \/ StopReturns PROVE HandHeld'
  BY <1>5 DEF Stop, StopReturns
<1>6. CASE UNCHANGED vars
  BY <1>6 DEF vars
<1> QED BY <1>1, <1>2, <1>3, <1>4, <1>5, <1>6 DEF Next, Terminated, Poll

\* Yielding request r: what was to be answered still is, and r too.
LEMMA SendKeepsUnacked ==
  ASSUME NEW r \in Requests, unacked \in Seq(Requests), unacked' = Append(unacked, r)
  PROVE  /\ \A i \in DOMAIN unacked : i \in DOMAIN unacked' /\ unacked'[i] = unacked[i]
         /\ \E i \in DOMAIN unacked' : unacked'[i] = r
BY AppendProperties

\* A key in flight after an answer belongs to a request not yet answered.
LEMMA AnswerKeepsSound ==
  ASSUME TypeOK, InflightSound, unacked # <<>>,
         unacked' = Tail(unacked), inflight' = AfterAnswer(Head(unacked))
  PROVE  InflightSound'
<1>1. /\ unacked \in Seq(Requests) /\ DOMAIN unacked = 1 .. Len(unacked)
      /\ Head(unacked) = unacked[1]
      /\ unacked' \in Seq(Requests) /\ Len(unacked') = Len(unacked) - 1
      /\ \A i \in 1 .. Len(unacked') : unacked'[i] = unacked[i + 1]
  BY HeadTailProperties DEF TypeOK
<1> SUFFICES ASSUME NEW k \in Kinds, NEW key \in inflight'[k]
             PROVE  \E j \in DOMAIN unacked' : key \in KeysOf(unacked'[j][k])
  BY DEF InflightSound
<1>2. key \in inflight[k] /\ key \notin KeysOf(unacked[1][k])
  BY <1>1 DEF AfterAnswer
<1>3. PICK i \in 1 .. Len(unacked) : key \in KeysOf(unacked[i][k])
  BY <1>1, <1>2 DEF InflightSound
<1>4. i - 1 \in 1 .. Len(unacked') /\ unacked'[i - 1] = unacked[i]
  BY <1>1, <1>2, <1>3
<1> QED BY <1>1, <1>3, <1>4

LEMMA NextInflightSound == IInv /\ [Next]_vars => InflightSound'
<1> SUFFICES ASSUME IInv, [Next]_vars PROVE InflightSound'
  OBVIOUS
<1> USE DEF appVars, flagVars, resultVars, genVars, rxVars, srvVars
<1>0. TypeOK /\ HandHeld /\ InflightSound
  BY DEF IInv
<1>1. ASSUME UNCHANGED <<inflight, unacked>> PROVE InflightSound'
  BY <1>0, <1>1 DEF InflightSound
<1>2. ASSUME Finish PROVE InflightSound'
  <2>1. CASE UNCHANGED unacked
    BY <1>1, <1>2, <2>1 DEF Finish
  <2>2. CASE Send(req)
    <3>1. req \in Requests /\ unacked' = Append(unacked, req) /\ inflight' = inflight
      BY <1>0, <1>2, <2>2 DEF Finish, Send, TypeOK
    <3>2. \A i \in DOMAIN unacked : i \in DOMAIN unacked' /\ unacked'[i] = unacked[i]
      BY <1>0, <3>1, SendKeepsUnacked DEF TypeOK
    <3> QED BY <1>0, <3>1, <3>2 DEF InflightSound
  <2> QED BY <1>2, <2>1, <2>2 DEF Finish
<1>3. ASSUME YieldAndPack PROVE InflightSound'
  <2> DEFINE k == KindOf[hand]
  <2>1. /\ req \in Requests /\ unacked' = Append(unacked, req)
        /\ inflight' = [inflight EXCEPT ![k] = KeysOf(req[k])]
    BY <1>0, <1>3 DEF YieldAndPack, Send, TypeOK
  <2>2. /\ \A i \in DOMAIN unacked : i \in DOMAIN unacked' /\ unacked'[i] = unacked[i]
        /\ \E i \in DOMAIN unacked' : unacked'[i] = req
    BY <1>0, <2>1, SendKeepsUnacked DEF TypeOK
  <2> SUFFICES ASSUME NEW l \in Kinds, NEW key \in inflight'[l]
               PROVE  \E j \in DOMAIN unacked' : key \in KeysOf(unacked'[j][l])
    BY DEF InflightSound
  <2>3. CASE l = k
    <3>1. key \in KeysOf(req[l])
      BY <1>0, <2>1, <2>3 DEF TypeOK
    <3> QED BY <2>2, <3>1
  <2>4. CASE l # k
    <3>1. key \in inflight[l]
      BY <1>0, <2>1, <2>4 DEF TypeOK
    <3> QED BY <1>0, <2>2, <3>1 DEF InflightSound
  <2> QED BY <2>3, <2>4
<1>4. ASSUME Generator, ~Finish, ~YieldAndPack PROVE InflightSound'
  BY <1>1, <1>4 DEF Generator, Begin, LeaveOnShutdown, RenewStream, PauseOnOom, LeaveOnOom,
                    Wait, PullNothing, PullEntry
<1>5. ASSUME RecvAcks PROVE InflightSound'
  BY <1>0, <1>5, AnswerKeepsSound DEF RecvAcks
<1>6. ASSUME RecvOutOfMemory PROVE InflightSound'
  BY <1>0, <1>1, <1>6, AnswerKeepsSound DEF RecvOutOfMemory
<1>7. ASSUME Receiver, ~RecvAcks, ~RecvOutOfMemory PROVE InflightSound'
  BY <1>1, <1>7 DEF Receiver, Connect, RecvStarted, RecvBackoff, RecvShuttingDown, RecvEnd,
                    Reconnect, ReconnectFails, RecvError, RecvResult
<1>8. ASSUME NEW e \in Entries, Add(e) \/ AddResumes(e) PROVE InflightSound'
  BY <1>1, <1>8 DEF Add, AddResumes
<1>9. ASSUME Stop \/ StopReturns PROVE InflightSound'
  BY <1>1, <1>9 DEF Stop, StopReturns
<1>10. CASE UNCHANGED vars
  BY <1>1, <1>10 DEF vars
<1> QED BY <1>2, <1>3, <1>4, <1>5, <1>6, <1>7, <1>8, <1>9, <1>10 DEF Next, Terminated, Poll

\* Every reachable state satisfies the inductive invariant.
LEMMA Invariance == Spec => []IInv
<1>1. Init => IInv
  <2>1. Init => HandHeld /\ InflightSound
    BY DEF Init, HandHeld, InflightSound
  <2> QED BY <2>1, InitTypeOK DEF IInv
<1>2. IInv /\ [Next]_vars => IInv'
  BY NextTypeOK, NextHandHeld, NextInflightSound DEF IInv
<1> QED BY <1>1, <1>2, PTL DEF Spec

\* Every behaviour of the batcher keeps the types.
THEOREM TypeCorrect == Spec => []TypeOK
<1>1. IInv => TypeOK
  BY DEF IInv
<1> QED BY <1>1, Invariance, PTL

\* Whatever the server answers, refuses or interrupts, every key the batcher
\* counts as in flight belongs to a request the server has still to answer.
THEOREM NothingForgottenInFlight == Spec => []InflightSound
<1>1. IInv => InflightSound
  BY DEF IInv
<1> QED BY <1>1, Invariance, PTL

-----------------------------------------------------------------------------
(***************************************************************************)
(* The stream's phases: where the generator stands when the receiver is    *)
(* not reading, what the flags tell of the past, and how many attempts to  *)
(* reconnect have failed.                                                  *)
(***************************************************************************)
Budgeted == \A event \in Events : budget[event] <= Budget[event]

FlagsFounded ==
  /\ isOom => ~Unspent("oom")
  /\ isRenewingStream => ~Unspent("renew")
  /\ pc = "oomSleep" => ~Unspent("oom")

Phases ==
  /\ rx # "open" => pc = "closed"
  /\ rx # "failed" => (hand # NoEntry <=> pc = "window")

AttemptsCounted ==
  rx = "reconnecting" => retries <= Budget["reconnectFails"] - budget["reconnectFails"]

\* What LeaveOnShutdown kept is what the next stream starts with, and a stream
\* that reads the queue has nothing kept before it.
Leftover ==
  rx # "failed" /\ Unspent("oom") =>
    /\ ~isShuttingDown => pending = EmptyReq
    /\ pc \in {"pull", "window"} => pending = EmptyReq
    /\ Unspent("renew") /\ pc \in {"closed", "waitStarted"} => pending = req

StreamInv == Budgeted /\ FlagsFounded /\ Phases /\ AttemptsCounted /\ Leftover

\* Spending an event leaves the others, and makes this one spent for good.
LEMMA SpendSpends ==
  ASSUME TypeOK, Budgeted, NEW event \in Events, Spend(event)
  PROVE  /\ Budgeted' /\ ~Unspent(event)'
         /\ budget'[event] = budget[event] - 1
         /\ \A other \in Events \ {event} :
              budget'[other] = budget[other] /\ (Unspent(other)' <=> Unspent(other))
<1>1. /\ budget \in [Events -> Nat] /\ Budget \in [Events -> Nat]
      /\ budget[event] > 0 /\ budget' = [budget EXCEPT ![event] = @ - 1]
  BY BudgetAssumption DEF TypeOK, Spend
<1> QED BY <1>1 DEF Budgeted, Unspent

LEMMA InitStreamInv == Init => StreamInv
<1>1. Budget \in [Events -> Nat]
  BY BudgetAssumption
<1> QED BY <1>1 DEF Init, StreamInv, Budgeted, FlagsFounded, Phases, AttemptsCounted, Leftover

\* What is spent stays spent.
LEMMA SpentForGood ==
  ASSUME TypeOK, Budgeted, [Next]_vars
  PROVE  /\ Budgeted'
         /\ \A event \in Events : Unspent(event)' => Unspent(event)
<1> USE DEF appVars, flagVars, resultVars, genVars, rxVars, srvVars
<1>1. ASSUME NEW event \in Events, Spend(event)
      PROVE  Budgeted' /\ \A other \in Events : Unspent(other)' => Unspent(other)
  BY <1>1, SpendSpends
<1>2. ASSUME UNCHANGED budget
      PROVE  Budgeted' /\ \A other \in Events : Unspent(other)' => Unspent(other)
  BY <1>2 DEF Budgeted, Unspent
<1>3. ASSUME RenewStream \/ RecvBackoff \/ RecvOutOfMemory \/ RecvShuttingDown
             \/ ReconnectFails \/ RecvError
      PROVE  \E event \in Events : Spend(event)
  BY <1>3 DEF RenewStream, RecvBackoff, RecvOutOfMemory, RecvShuttingDown, ReconnectFails,
              RecvError, Events
<1>4. ASSUME Generator, ~RenewStream PROVE UNCHANGED budget
  BY <1>4 DEF Generator, Begin, LeaveOnShutdown, PauseOnOom, LeaveOnOom, Wait, PullNothing,
              Finish, PullEntry, YieldAndPack
<1>5. ASSUME Receiver, ~RecvBackoff, ~RecvOutOfMemory, ~RecvShuttingDown, ~ReconnectFails,
             ~RecvError
      PROVE  UNCHANGED budget
  BY <1>5 DEF Receiver, Connect, RecvStarted, RecvAcks, RecvEnd, Reconnect, RecvResult
<1>6. ASSUME NEW e \in Entries, Add(e) \/ AddResumes(e) PROVE UNCHANGED budget
  BY <1>6 DEF Add, AddResumes
<1>7. ASSUME Stop \/ StopReturns \/ UNCHANGED vars PROVE UNCHANGED budget
  BY <1>7 DEF Stop, StopReturns, vars
<1>8. (\E event \in Events : Spend(event)) \/ UNCHANGED budget
  BY <1>3, <1>4, <1>5, <1>6, <1>7 DEF Next, Terminated, Poll
<1> QED BY <1>1, <1>2, <1>8

\* The undisturbed past of a state is that of the one before.
LEMMA UndisturbedBefore ==
  ASSUME TypeOK, Budgeted, [Next]_vars
  PROVE  Undisturbed' => Undisturbed
BY SpentForGood DEF Undisturbed, Events

LEMMA NextStreamInv == TypeOK /\ HandHeld /\ StreamInv /\ [Next]_vars => StreamInv'
<1> SUFFICES ASSUME TypeOK, HandHeld, StreamInv, [Next]_vars PROVE StreamInv'
  OBVIOUS
<1> USE DEF appVars, flagVars, resultVars, genVars, rxVars, srvVars
<1>0. Budgeted /\ FlagsFounded /\ Phases /\ AttemptsCounted /\ Leftover
  BY DEF StreamInv
<1>a. Budgeted' /\ (Undisturbed' => Undisturbed)
      /\ (Unspent("oom")' => Unspent("oom")) /\ (Unspent("renew")' => Unspent("renew"))
  BY <1>0, SpentForGood, UndisturbedBefore DEF Events
<1>1. FlagsFounded'
  <2>1. ASSUME RecvOutOfMemory PROVE FlagsFounded'
    <3>1. ~Unspent("oom")'
      BY <1>0, <2>1, SpendSpends DEF RecvOutOfMemory, Events
    <3> QED BY <1>0, <1>a, <2>1, <3>1 DEF RecvOutOfMemory, FlagsFounded
  <2>2. ASSUME RenewStream PROVE FlagsFounded'
    <3>1. ~Unspent("renew")'
      BY <1>0, <2>2, SpendSpends DEF RenewStream, Events
    <3> QED BY <1>0, <1>a, <2>2, <3>1 DEF RenewStream, FlagsFounded
  <2>3. ASSUME isOom' => isOom, isRenewingStream' => isRenewingStream,
               pc' = "oomSleep" => pc = "oomSleep" \/ isOom
        PROVE  FlagsFounded'
    BY <1>0, <1>a, <2>3 DEF FlagsFounded
  <2>4. ASSUME Generator, ~RenewStream PROVE FlagsFounded'
    <3>1. UNCHANGED <<isOom, isRenewingStream>>
      BY <2>4 DEF Generator, Begin, LeaveOnShutdown, PauseOnOom, LeaveOnOom, Wait,
                  PullNothing, Finish, PullEntry, YieldAndPack
    <3>2. pc' = "oomSleep" => isOom
      BY <2>4 DEF Generator, Begin, LeaveOnShutdown, PauseOnOom, LeaveOnOom, Wait,
                  PullNothing, Finish, PullEntry, YieldAndPack, Pack
    <3> QED BY <2>3, <3>1, <3>2
  <2>5. ASSUME Receiver, ~RecvOutOfMemory PROVE FlagsFounded'
    <3>1. CASE RecvShuttingDown \/ RecvEnd
      BY <2>3, <3>1 DEF RecvShuttingDown, RecvEnd
    <3>2. CASE ~RecvShuttingDown /\ ~RecvEnd
      <4>1. UNCHANGED <<isOom, isRenewingStream>>
        BY <2>5, <3>2 DEF Receiver, Connect, RecvStarted, RecvAcks, RecvBackoff, Reconnect,
                          ReconnectFails, RecvError, RecvResult
      <4>2. pc' \in {pc, "closed", "waitStarted"}
        BY <2>5, <3>2 DEF Receiver, Connect, RecvStarted, RecvAcks, RecvBackoff, Reconnect,
                          ReconnectFails, RecvError, RecvResult
      <4> QED BY <2>3, <4>1, <4>2
    <3> QED BY <3>1, <3>2
  <2>6. ASSUME NEW e \in Entries, Add(e) \/ AddResumes(e) PROVE FlagsFounded'
    BY <2>3, <2>6 DEF Add, AddResumes
  <2>7. ASSUME Stop \/ StopReturns \/ UNCHANGED vars PROVE FlagsFounded'
    BY <2>3, <2>7 DEF Stop, StopReturns, vars
  <2> QED BY <2>1, <2>2, <2>4, <2>5, <2>6, <2>7 DEF Next, Terminated, Poll
<1>2. Phases'
  <2>1. ASSUME PullEntry PROVE Phases'
    <3>1. Head(queue) # NoEntry
      BY <2>1, HeadTailProperties, EntriesType DEF PullEntry, TypeOK, NoEntry
    <3> QED BY <1>0, <2>1, <3>1 DEF Phases, PullEntry, Pack
  <2>2. ASSUME Generator, ~PullEntry PROVE Phases'
    BY <1>0, <2>2 DEF Phases, Generator, Begin, LeaveOnShutdown, RenewStream, PauseOnOom,
                      LeaveOnOom, Wait, PullNothing, Finish, YieldAndPack, Pack
  <2>3. ASSUME Receiver PROVE Phases'
    BY <1>0, <2>3 DEF Phases, Receiver, Connect, RecvStarted, RecvAcks, RecvBackoff,
                      RecvOutOfMemory, RecvShuttingDown, RecvEnd, Reconnect, ReconnectFails,
                      RecvError, RecvResult
  <2>4. ASSUME NEW e \in Entries, Add(e) \/ AddResumes(e) PROVE Phases'
    BY <1>0, <2>4 DEF Phases, Add, AddResumes
  <2>5. ASSUME Stop \/ StopReturns \/ UNCHANGED vars PROVE Phases'
    BY <1>0, <2>5 DEF Phases, Stop, StopReturns, vars
  <2> QED BY <2>1, <2>2, <2>3, <2>4, <2>5 DEF Next, Terminated, Poll
<1>3. AttemptsCounted'
  <2>0. /\ budget["reconnectFails"] \in Nat /\ Budget["reconnectFails"] \in Nat
        /\ budget["reconnectFails"] <= Budget["reconnectFails"]
        /\ budget'["reconnectFails"] <= Budget["reconnectFails"]
    BY <1>0, <1>a, BudgetAssumption DEF TypeOK, Budgeted, Events
  <2>1. ASSUME ReconnectFails PROVE AttemptsCounted'
    <3>1. budget'["reconnectFails"] = budget["reconnectFails"] - 1
      BY <1>0, <2>1, SpendSpends DEF ReconnectFails, Events
    <3> QED BY <1>0, <2>0, <2>1, <3>1 DEF ReconnectFails, AttemptsCounted, TypeOK
  <2>2. ASSUME RecvEnd PROVE AttemptsCounted'
    BY <2>0, <2>2 DEF RecvEnd, AttemptsCounted
  <2>3. ASSUME rx' = "reconnecting" => rx = "reconnecting" /\ retries' = retries,
               budget'["reconnectFails"] = budget["reconnectFails"]
        PROVE  AttemptsCounted'
    BY <1>0, <2>3 DEF AttemptsCounted
  <2>4. ASSUME NEW event \in Events \ {"reconnectFails"}, Spend(event)
        PROVE  budget'["reconnectFails"] = budget["reconnectFails"]
    BY <1>0, <2>4, SpendSpends DEF Events
  <2>5. ASSUME Generator PROVE AttemptsCounted'
    <3>1. rx' \in {rx, "failed"}
      BY <2>5 DEF Generator, Begin, LeaveOnShutdown, RenewStream, PauseOnOom, LeaveOnOom, Wait,
                  PullNothing, Finish, PullEntry, YieldAndPack
    <3>2. retries' = retries
      BY <2>5 DEF Generator, Begin, LeaveOnShutdown, RenewStream, PauseOnOom, LeaveOnOom, Wait,
                  PullNothing, Finish, PullEntry, YieldAndPack
    <3>3. budget'["reconnectFails"] = budget["reconnectFails"]
      <4>1. CASE RenewStream
        BY <2>4, <4>1 DEF RenewStream, Events
      <4>2. CASE ~RenewStream
        BY <2>5, <4>2 DEF Generator, Begin, LeaveOnShutdown, PauseOnOom, LeaveOnOom, Wait,
                          PullNothing, Finish, PullEntry, YieldAndPack
      <4> QED BY <4>1, <4>2
    <3> QED BY <2>3, <3>1, <3>2, <3>3
  <2>6. ASSUME Receiver, ~RecvEnd, ~ReconnectFails PROVE AttemptsCounted'
    <3>1. rx' = "reconnecting" => rx = "reconnecting" /\ retries' = retries
      BY <2>6 DEF Receiver, Connect, RecvStarted, RecvAcks, RecvBackoff, RecvOutOfMemory,
                  RecvShuttingDown, Reconnect, RecvError, RecvResult
    <3>2. budget'["reconnectFails"] = budget["reconnectFails"]
      <4>1. CASE RecvBackoff \/ RecvOutOfMemory \/ RecvShuttingDown \/ RecvError
        <5>1. PICK event \in {"backoff", "oom", "shutdown", "error"} : Spend(event)
          BY <4>1 DEF RecvBackoff, RecvOutOfMemory, RecvShuttingDown, RecvError
        <5> QED BY <2>4, <5>1 DEF Events
      <4>2. CASE ~(RecvBackoff \/ RecvOutOfMemory \/ RecvShuttingDown \/ RecvError)
        BY <2>6, <4>2 DEF Receiver, Connect, RecvStarted, RecvAcks, Reconnect, RecvResult
      <4> QED BY <4>1, <4>2
    <3> QED BY <2>3, <3>1, <3>2
  <2>7. ASSUME NEW e \in Entries, Add(e) \/ AddResumes(e) PROVE AttemptsCounted'
    BY <2>3, <2>7 DEF Add, AddResumes
  <2>8. ASSUME Stop \/ StopReturns \/ UNCHANGED vars PROVE AttemptsCounted'
    BY <2>3, <2>8 DEF Stop, StopReturns, vars
  <2> QED BY <2>1, <2>2, <2>5, <2>6, <2>7, <2>8 DEF Next, Terminated, Poll
<1>4. Leftover'
  <2> SUFFICES ASSUME rx' # "failed", Unspent("oom")'
               PROVE  /\ ~isShuttingDown' => pending' = EmptyReq
                      /\ pc' \in {"pull", "window"} => pending' = EmptyReq
                      /\ Unspent("renew")' /\ pc' \in {"closed", "waitStarted"} => pending' = req'
    BY DEF Leftover
  <2>1. Unspent("oom") /\ ~isOom /\ (Unspent("renew")' => Unspent("renew"))
    BY <1>0, <1>a DEF FlagsFounded
  <2>2. ASSUME Generator PROVE Leftover'
    <3>1. CASE RenewStream
      <4>1. ~Unspent("renew")'
        BY <1>0, <3>1, SpendSpends DEF RenewStream, Events
      <4> QED BY <1>0, <2>1, <3>1, <4>1 DEF Leftover, RenewStream
    <3>2. CASE PullEntry
      BY <1>0, <2>1, <3>2 DEF Leftover, PullEntry, Pack
    <3>3. CASE Begin \/ LeaveOnShutdown
      BY <1>0, <2>1, <3>3 DEF Leftover, Begin, LeaveOnShutdown, SaveReq
    <3>4. CASE PauseOnOom
      BY <2>1, <3>4 DEF PauseOnOom
    <3>5. CASE LeaveOnOom
      BY <1>0, <2>1, <3>5 DEF LeaveOnOom, FlagsFounded
    <3>6. CASE Wait \/ PullNothing \/ Finish
      BY <1>0, <2>1, <3>6 DEF Leftover, Wait, PullNothing, Finish
    <3>7. CASE YieldAndPack
      BY <1>0, <2>1, <3>7 DEF Leftover, YieldAndPack, Pack
    <3> QED BY <2>2, <3>1, <3>2, <3>3, <3>4, <3>5, <3>6, <3>7 DEF Generator
  <2>3. ASSUME Receiver PROVE Leftover'
    <3>1. CASE RecvOutOfMemory
      <4>1. ~Unspent("oom")'
        BY <1>0, <3>1, SpendSpends DEF RecvOutOfMemory, Events
      <4> QED BY <4>1
    <3>2. CASE ~RecvOutOfMemory
      BY <1>0, <2>1, <2>3, <3>2
         DEF Leftover, Receiver, Connect, RecvStarted, RecvAcks, RecvBackoff, RecvShuttingDown,
             RecvEnd, Reconnect, ReconnectFails, RecvError, RecvResult, Phases
    <3> QED BY <3>1, <3>2
  <2>4. ASSUME NEW e \in Entries, Add(e) \/ AddResumes(e) PROVE Leftover'
    BY <1>0, <2>1, <2>4 DEF Leftover, Add, AddResumes
  <2>5. ASSUME Stop \/ StopReturns \/ UNCHANGED vars PROVE Leftover'
    BY <1>0, <2>1, <2>5 DEF Leftover, Stop, StopReturns, vars
  <2>6. Leftover'
    BY <2>2, <2>3, <2>4, <2>5 DEF Next, Terminated, Poll
  <2> QED BY <2>6 DEF Leftover
<1> QED BY <1>a, <1>1, <1>2, <1>3, <1>4 DEF StreamInv

LEMMA StreamInvariance == Spec => []StreamInv
<1>1. IInv /\ StreamInv /\ [Next]_vars => StreamInv'
  BY NextStreamInv DEF IInv
<1> QED BY <1>1, InitStreamInv, Invariance, PTL DEF Spec

\* A server that is shutting down is given up only after six failed attempts
\* to reconnect, however often it shuts down (reconnect).
THEOREM SixAttempts == Spec => GivesUpAfterSixAttempts
<1> DEFINE SixFailed == Budget["reconnectFails"] - budget'["reconnectFails"] >= 6
           Patient == rx = "reconnecting" /\ rx' = "failed" => SixFailed
<1>1. ASSUME TypeOK, StreamInv, [Next]_vars, rx = "reconnecting", rx' = "failed"
      PROVE  SixFailed
  <2>0. /\ Budgeted /\ AttemptsCounted /\ pc = "closed" /\ rx # "failed" /\ rx # "open"
        /\ budget["reconnectFails"] \in Nat /\ Budget["reconnectFails"] \in Nat
        /\ retries \in Nat
    BY <1>1, BudgetAssumption DEF StreamInv, Phases, TypeOK, Events
  <2>1. ReconnectFails
    <3> USE DEF appVars, flagVars, resultVars, genVars, rxVars, srvVars
    <3>1. ~Generator
      BY <1>1, <2>0 DEF Generator, Begin, LeaveOnShutdown, RenewStream, PauseOnOom, LeaveOnOom,
                        Wait, PullNothing, Finish, PullEntry, YieldAndPack
    <3>2. ~\E e \in Entries : Add(e) \/ AddResumes(e)
      BY <1>1 DEF Add, AddResumes
    <3>3. ~Stop /\ ~StopReturns /\ ~UNCHANGED vars
      BY <1>1 DEF Stop, StopReturns, vars
    <3>4. Receiver => ReconnectFails
      BY <1>1 DEF Receiver, Connect, RecvStarted, RecvAcks, RecvBackoff, RecvOutOfMemory,
                  RecvShuttingDown, RecvEnd, Reconnect, RecvError, RecvResult
    <3> QED BY <1>1, <3>1, <3>2, <3>3, <3>4 DEF Next, Terminated, Poll
  <2>2. retries >= 5 /\ Spend("reconnectFails")
    BY <1>1, <2>1 DEF ReconnectFails, GiveUp
  <2>3. budget'["reconnectFails"] = budget["reconnectFails"] - 1
    BY <1>1, <2>0, <2>2, SpendSpends DEF Events
  <2> QED BY <1>1, <2>0, <2>2, <2>3 DEF AttemptsCounted
<1>2. IInv /\ StreamInv /\ [Next]_vars => [Patient]_vars
  BY <1>1 DEF IInv
<1>3. Spec => [][Patient]_vars
  BY <1>2, Invariance, StreamInvariance, PTL DEF Spec
<1> QED BY <1>3 DEF GivesUpAfterSixAttempts

-----------------------------------------------------------------------------
(***************************************************************************)
(* Sizes: what a request weighs, and that it fits when it is sent.         *)
(***************************************************************************)
\* The interval from 1 counts to its end.
LEMMA CountingInterval ==
  ASSUME NEW n \in Nat
  PROVE  IsFiniteSet(1 .. n) /\ Cardinality(1 .. n) = n
<1>1. IsFiniteSet(1 .. n) /\ Cardinality(1 .. n) = IF 1 > n THEN 0 ELSE n - 1 + 1
  BY FS_Interval
<1> QED BY <1>1

LEMMA BytesFinite ==
  ASSUME NEW s \in Seq(Entries), NEW Bytes \in [Entries -> Nat]
  PROVE  IsFiniteSet(BytesOf(s, Bytes)) /\ TotalOf(s, Bytes) \in Nat
<1> DEFINE Part(i) == {i} \X (1 .. Bytes[s[i]])
           Parts == {Part(i) : i \in DOMAIN s}
<1>1. IsFiniteSet(DOMAIN s)
  BY FS_Interval
<1>2. [i \in DOMAIN s |-> Part(i)] \in Surjection(DOMAIN s, Parts)
  BY DEF Surjection
<1>3. IsFiniteSet(Parts)
  BY <1>1, <1>2, FS_Surjection
<1>4. ASSUME NEW i \in DOMAIN s PROVE IsFiniteSet(Part(i))
  <2>1. Bytes[s[i]] \in Nat
    OBVIOUS
  <2>2. IsFiniteSet(1 .. Bytes[s[i]])
    BY <2>1, FS_Interval
  <2>3. IsFiniteSet({i})
    BY FS_Singleton
  <2> QED BY <2>2, <2>3, FS_Product
<1>5. IsFiniteSet(UNION Parts)
  BY <1>3, <1>4, FS_UNION
<1>6. IsFiniteSet(BytesOf(s, Bytes))
  BY <1>5 DEF BytesOf
<1> QED BY <1>6, FS_CardinalityType DEF TotalOf

LEMMA TotalOfNone == ASSUME NEW Bytes PROVE TotalOf(<<>>, Bytes) = 0
<1>1. BytesOf(<<>>, Bytes) = {}
  BY DEF BytesOf
<1> QED BY <1>1, FS_EmptySet DEF TotalOf

\* An entry adds its bytes to the sequence it is appended to.
LEMMA TotalOfAppend ==
  ASSUME NEW s \in Seq(Entries), NEW e \in Entries, NEW Bytes \in [Entries -> Nat]
  PROVE  TotalOf(Append(s, e), Bytes) = TotalOf(s, Bytes) + Bytes[e]
<1> DEFINE t == Append(s, e)
           New == {Len(s) + 1} \X (1 .. Bytes[e])
           Old == BytesOf(s, Bytes)
<1>0. Bytes[e] \in Nat
  OBVIOUS
<1>1. /\ DOMAIN t = DOMAIN s \cup {Len(s) + 1} /\ Len(s) + 1 \notin DOMAIN s
      /\ t[Len(s) + 1] = e /\ \A i \in DOMAIN s : t[i] = s[i]
  BY AppendProperties
<1>2. BytesOf(t, Bytes) = Old \cup New
  BY <1>1 DEF BytesOf
<1>3. Old \cap New = {}
  BY <1>1 DEF BytesOf
<1>4. IsFiniteSet(New) /\ Cardinality(New) = Bytes[e]
  <2>1. IsFiniteSet(1 .. Bytes[e]) /\ Cardinality(1 .. Bytes[e]) = Bytes[e]
    BY <1>0, CountingInterval
  <2>2. IsFiniteSet({Len(s) + 1}) /\ Cardinality({Len(s) + 1}) = 1
    BY FS_Singleton
  <2>3. IsFiniteSet(New) /\ Cardinality(New) = Cardinality({Len(s) + 1}) * Cardinality(1 .. Bytes[e])
    BY <2>1, <2>2, FS_Product
  <2> QED BY <1>0, <2>1, <2>2, <2>3
<1>5. IsFiniteSet(Old) /\ Cardinality(Old) \in Nat
  BY BytesFinite, FS_CardinalityType
<1> HIDE DEF Old, New
<1>6. Cardinality(Old \cup New) = Cardinality(Old) + Cardinality(New) - Cardinality({})
  BY <1>3, <1>4, <1>5, FS_Union
<1>7. Cardinality(Old \cup New) = Cardinality(Old) + Bytes[e]
  BY <1>0, <1>4, <1>5, <1>6, FS_EmptySet
<1> QED BY <1>2, <1>7 DEF TotalOf, Old

\* What the entries of a request take together.
Weight(r, Bytes) == TotalOf(r["obj"], Bytes) + TotalOf(r["ref"], Bytes)

LEMMA WeightType ==
  ASSUME NEW r \in Requests, NEW Bytes \in [Entries -> Nat]
  PROVE  Weight(r, Bytes) \in Nat
BY BytesFinite DEF Weight, Requests, Kinds

LEMMA WeightOfEmpty == ASSUME NEW Bytes PROVE Weight(EmptyReq, Bytes) = 0
<1>1. EmptyReq["obj"] = <<>> /\ EmptyReq["ref"] = <<>>
  BY DEF EmptyReq, Kinds
<1>2. TotalOf(<<>>, Bytes) = 0
  BY TotalOfNone
<1>3. Weight(EmptyReq, Bytes) = 0 + 0
  BY <1>1, <1>2 DEF Weight
<1> QED BY <1>3

\* Packing an entry adds its bytes to the request.
LEMMA WeightWith ==
  ASSUME NEW r \in Requests, NEW e \in Entries, NEW Bytes \in [Entries -> Nat]
  PROVE  Weight(WithEntry(r, e), Bytes) = Weight(r, Bytes) + Bytes[e]
<1>1. /\ r["obj"] \in Seq(Entries) /\ r["ref"] \in Seq(Entries) /\ Bytes[e] \in Nat
      /\ TotalOf(r["obj"], Bytes) \in Nat /\ TotalOf(r["ref"], Bytes) \in Nat
  BY BytesFinite DEF Requests, Kinds
<1>2. CASE KindOf[e] = "obj"
  <2>1. /\ WithEntry(r, e)["obj"] = Append(r["obj"], e)
        /\ WithEntry(r, e)["ref"] = r["ref"]
    BY <1>2 DEF WithEntry, Requests, Kinds
  <2>2. TotalOf(Append(r["obj"], e), Bytes) = TotalOf(r["obj"], Bytes) + Bytes[e]
    BY <1>1, TotalOfAppend
  <2> QED BY <1>1, <2>1, <2>2 DEF Weight
<1>3. CASE KindOf[e] = "ref"
  <2>1. /\ WithEntry(r, e)["ref"] = Append(r["ref"], e)
        /\ WithEntry(r, e)["obj"] = r["obj"]
    BY <1>3 DEF WithEntry, Requests, Kinds
  <2>2. TotalOf(Append(r["ref"], e), Bytes) = TotalOf(r["ref"], Bytes) + Bytes[e]
    BY <1>1, TotalOfAppend
  <2>3. Weight(WithEntry(r, e), Bytes) = TotalOf(r["obj"], Bytes) + (TotalOf(r["ref"], Bytes) + Bytes[e])
    BY <2>1, <2>2 DEF Weight
  <2> QED BY <1>1, <2>3 DEF Weight
<1> QED BY <1>2, <1>3, KindType DEF Kinds

\* The length of a message takes one byte, and one more for each limit at most.
LEMMA PrefixIs ==
  ASSUME NEW n \in Nat
  PROVE  /\ PrefixOf(n) \in Nat /\ Cardinality(Limits) \in Nat
         /\ 1 <= PrefixOf(n) /\ PrefixOf(n) <= 1 + Cardinality(Limits)
<1> DEFINE S == {limit \in Limits : limit <= n}
<1>1. S \subseteq Limits /\ IsFiniteSet(Limits)
  BY SizesAssumption
<1> HIDE DEF S
<1>2. /\ IsFiniteSet(S) /\ Cardinality(S) <= Cardinality(Limits)
      /\ Cardinality(S) \in Nat /\ Cardinality(Limits) \in Nat
  BY <1>1, FS_Subset, FS_CardinalityType
<1>3. PrefixOf(n) = 1 + Cardinality(S)
  BY DEF PrefixOf, S
<1> QED BY <1>2, <1>3

\* A longer message is not encoded in fewer bytes.
LEMMA FieldGrows ==
  ASSUME NEW m \in Nat, NEW n \in Nat, m <= n
  PROVE  FieldSize(m) <= FieldSize(n)
<1> DEFINE S == {limit \in Limits : limit <= m}
           T == {limit \in Limits : limit <= n}
<1>0. Limits \subseteq Nat /\ IsFiniteSet(Limits)
  BY SizesAssumption
<1>1. S \subseteq T /\ T \subseteq Limits /\ IsFiniteSet(Limits)
  <2>1. ASSUME NEW limit \in Limits, limit <= m PROVE limit <= n
    BY <1>0, <2>1
  <2> QED BY <1>0, <2>1
<1>2. PrefixOf(m) = 1 + Cardinality(S) /\ PrefixOf(n) = 1 + Cardinality(T)
  BY DEF PrefixOf
<1> HIDE DEF S, T
<1>3. IsFiniteSet(T)
  BY <1>1, FS_Subset
<1>4. Cardinality(S) <= Cardinality(T) /\ Cardinality(S) \in Nat /\ Cardinality(T) \in Nat
  BY <1>1, <1>3, FS_Subset, FS_CardinalityType
<1> QED BY <1>2, <1>4 DEF FieldSize

LEMMA BytesType ==
  /\ InList \in [Entries -> Nat] /\ Beyond \in [Entries -> Nat]
  /\ \A e \in Entries : InList[e] <= Estimate(e) + Beyond[e] /\ Estimate(e) \in Nat
<1> SUFFICES ASSUME NEW e \in Entries
             PROVE  /\ FieldSize(SizeOf[e]) \in Nat
                    /\ Cardinality(Overhead + 1 .. 1 + PrefixOf(SizeOf[e])) \in Nat
                    /\ Estimate(e) \in Nat
                    /\ FieldSize(SizeOf[e])
                         <= Estimate(e) + Cardinality(Overhead + 1 .. 1 + PrefixOf(SizeOf[e]))
  BY DEF InList, Beyond
<1> DEFINE p == 1 + PrefixOf(SizeOf[e])
<1>1. SizeOf[e] \in Nat /\ Overhead \in Nat /\ p \in Nat
  BY EntriesAssumption, SizesAssumption, PrefixIs
<1>2. FieldSize(SizeOf[e]) = p + SizeOf[e] /\ Estimate(e) = SizeOf[e] + Overhead
  BY <1>1 DEF FieldSize, Estimate
<1> HIDE DEF p
<1>3. /\ IsFiniteSet(Overhead + 1 .. p)
      /\ Cardinality(Overhead + 1 .. p) = IF Overhead + 1 > p THEN 0 ELSE p - (Overhead + 1) + 1
  BY <1>1, FS_Interval
<1> QED BY <1>1, <1>2, <1>3 DEF p

\* The size of a request is what its entries take in the lists, three tags and
\* three lengths.
LEMMA ReqSizeIs ==
  ASSUME NEW r \in Requests
  PROVE  /\ ReqSize(r) \in Nat /\ Cardinality(Limits) \in Nat /\ Weight(r, InList) \in Nat
         /\ 6 + Weight(r, InList) <= ReqSize(r)
         /\ ReqSize(r) <= 6 + 3 * Cardinality(Limits) + Weight(r, InList)
<1> DEFINE o == TotalOf(r["obj"], InList)
           f == TotalOf(r["ref"], InList)
<1>1. o \in Nat /\ f \in Nat
  BY BytesFinite, BytesType DEF Requests, Kinds
<1> HIDE DEF o, f
<1>2. ASSUME NEW n \in Nat
      PROVE  /\ FieldSize(n) \in Nat /\ Cardinality(Limits) \in Nat
             /\ 2 + n <= FieldSize(n) /\ FieldSize(n) <= 2 + Cardinality(Limits) + n
  BY PrefixIs DEF FieldSize
<1> DEFINE s == FieldSize(o) + FieldSize(f)
<1>3. s \in Nat /\ 4 + o + f <= s /\ s <= 4 + 2 * Cardinality(Limits) + o + f
  BY <1>1, <1>2
<1>4. ReqSize(r) = FieldSize(s) /\ Weight(r, InList) = o + f
  BY DEF ReqSize, Weight, o, f
<1> HIDE DEF s
<1> QED BY <1>1, <1>2, <1>3, <1>4

LEMMA BaseIsLeast ==
  ASSUME NEW r \in Requests
  PROVE  Base \in Nat /\ Base <= ReqSize(r)
<1> DEFINE o == TotalOf(r["obj"], InList)
           f == TotalOf(r["ref"], InList)
<1>1. o \in Nat /\ f \in Nat /\ 0 <= o /\ 0 <= f
  BY BytesFinite, BytesType DEF Requests, Kinds
<1>2. ReqSize(r) = FieldSize(FieldSize(o) + FieldSize(f)) /\ Base = FieldSize(FieldSize(0) + FieldSize(0))
  BY TotalOfNone DEF ReqSize, Base, EmptyReq, Kinds
<1> HIDE DEF o, f
<1>3. FieldSize(0) <= FieldSize(o) /\ FieldSize(0) <= FieldSize(f)
  BY <1>1, FieldGrows
<1>4. \A n \in Nat : FieldSize(n) \in Nat
  BY PrefixIs DEF FieldSize
<1>5. FieldSize(FieldSize(0) + FieldSize(0)) <= FieldSize(FieldSize(o) + FieldSize(f))
  BY <1>1, <1>3, <1>4, FieldGrows
<1> QED BY <1>1, <1>2, <1>4, <1>5

\* What a request takes at least can be sent but for what is not counted, or it
\* is one reference too large in itself.
Fits(r) ==
  \/ 6 + Weight(r, InList) < MaxMessageSize + Weight(r, Beyond)
  \/ \E e \in Entries : Oversize(e) /\ r = WithEntry(EmptyReq, e)

\* What the running total of a request may be.
Larger == [e \in Entries |-> InList[e] + Estimate(e)]
Total(n, r) ==
  /\ n \in Nat
  /\ 6 + Weight(r, InList) <= n + Weight(r, Beyond)
  /\ n <= 6 + 3 * Cardinality(Limits) + Weight(r, Larger)

\* The running total falls behind what is packed by no more than what is not
\* counted, an entry held for the next request is not too large, and whatever
\* may still be sent fits.
SizesInv ==
  /\ emptyReqSize \in Nat /\ Base <= emptyReqSize
  /\ pc \in {"top", "pull", "window"} => Total(totalSize, req)
  /\ pc = "window" => ~TooLarge(hand)
  /\ Fits(pending) /\ Fits(req)
  /\ \A i \in DOMAIN unacked : Fits(unacked[i])

LEMMA LargerType == Larger \in [Entries -> Nat]
BY BytesType DEF Larger

LEMMA EmptyReqFits == Fits(EmptyReq)
<1>1. 6 + 0 <= Base /\ Base \in Nat /\ MaxMessageSize \in Nat
  BY EmptyReqType, ReqSizeIs, WeightOfEmpty, SizesAssumption DEF Base
<1>2. Weight(EmptyReq, InList) = 0 /\ Weight(EmptyReq, Beyond) = 0
  BY WeightOfEmpty
<1> QED BY <1>1, <1>2, EmptyReqAssumption DEF Fits

\* More bytes for each entry are more for a request.
LEMMA WeightGrows ==
  ASSUME NEW r \in Requests, NEW A \in [Entries -> Nat], NEW B \in [Entries -> Nat],
         \A e \in Entries : A[e] <= B[e]
  PROVE  Weight(r, A) <= Weight(r, B)
<1>1. ASSUME NEW s \in Seq(Entries) PROVE TotalOf(s, A) <= TotalOf(s, B)
  <2>1. BytesOf(s, A) \subseteq BytesOf(s, B)
    <3> SUFFICES ASSUME NEW i \in DOMAIN s, NEW b \in 1 .. A[s[i]] PROVE b \in 1 .. B[s[i]]
      BY DEF BytesOf
    <3>1. s[i] \in Entries
      OBVIOUS
    <3>2. A[s[i]] \in Nat /\ B[s[i]] \in Nat /\ A[s[i]] <= B[s[i]]
      BY <3>1
    <3> QED BY <3>2
  <2>2. IsFiniteSet(BytesOf(s, B))
    BY BytesFinite
  <2> QED BY <2>1, <2>2, FS_Subset DEF TotalOf
<1>2. /\ r["obj"] \in Seq(Entries) /\ r["ref"] \in Seq(Entries)
  BY DEF Requests, Kinds
<1>3. /\ TotalOf(r["obj"], A) \in Nat /\ TotalOf(r["ref"], A) \in Nat
      /\ TotalOf(r["obj"], B) \in Nat /\ TotalOf(r["ref"], B) \in Nat
  BY <1>2, BytesFinite
<1> QED BY <1>1, <1>2, <1>3 DEF Weight

\* A stream starts with the size of what it has.
LEMMA TotalOfReq ==
  ASSUME NEW r \in Requests
  PROVE  Total(ReqSize(r), r)
<1>1. /\ ReqSize(r) \in Nat /\ Cardinality(Limits) \in Nat
      /\ 6 + Weight(r, InList) <= ReqSize(r)
      /\ ReqSize(r) <= 6 + 3 * Cardinality(Limits) + Weight(r, InList)
  BY ReqSizeIs
<1>2. Weight(r, InList) \in Nat /\ Weight(r, Beyond) \in Nat /\ Weight(r, Larger) \in Nat
  BY WeightType, BytesType, LargerType
<1>3. \A e \in Entries : InList[e] <= Larger[e]
  BY BytesType DEF Larger
<1>4. Weight(r, InList) <= Weight(r, Larger)
  BY <1>3, BytesType, LargerType, WeightGrows
<1> QED BY <1>1, <1>2, <1>4 DEF Total

\* An entry is added with its estimate.
LEMMA TotalWith ==
  ASSUME NEW r \in Requests, NEW e \in Entries, NEW n, Total(n, r)
  PROVE  /\ Total(n + Estimate(e), WithEntry(r, e))
         /\ n + Estimate(e) < MaxMessageSize => Fits(WithEntry(r, e))
<1> DEFINE q == WithEntry(r, e)
<1>1. /\ n \in Nat /\ 6 + Weight(r, InList) <= n + Weight(r, Beyond)
      /\ n <= 6 + 3 * Cardinality(Limits) + Weight(r, Larger)
  BY DEF Total
<1>2. /\ Weight(q, InList) = Weight(r, InList) + InList[e]
      /\ Weight(q, Beyond) = Weight(r, Beyond) + Beyond[e]
      /\ Weight(q, Larger) = Weight(r, Larger) + Larger[e]
  BY WeightWith, BytesType, LargerType
<1>3. /\ Weight(r, InList) \in Nat /\ Weight(r, Beyond) \in Nat /\ Weight(r, Larger) \in Nat
      /\ InList[e] \in Nat /\ Beyond[e] \in Nat /\ Estimate(e) \in Nat
      /\ InList[e] <= Estimate(e) + Beyond[e] /\ Larger[e] = InList[e] + Estimate(e)
      /\ MaxMessageSize \in Nat /\ Cardinality(Limits) \in Nat
  BY WeightType, BytesType, LargerType, SizesAssumption, FS_CardinalityType DEF Larger
<1> HIDE DEF q
<1>4. 6 + Weight(q, InList) <= n + Estimate(e) + Weight(q, Beyond)
  BY <1>1, <1>2, <1>3
<1>5. n + Estimate(e) <= 6 + 3 * Cardinality(Limits) + Weight(q, Larger)
  BY <1>1, <1>2, <1>3
<1>6. n + Estimate(e) < MaxMessageSize => 6 + Weight(q, InList) < MaxMessageSize + Weight(q, Beyond)
  BY <1>1, <1>2, <1>3, <1>4
<1> QED BY <1>1, <1>3, <1>4, <1>5, <1>6 DEF Total, Fits, q

LEMMA InitSizesInv == Init => SizesInv
<1> SUFFICES ASSUME Init PROVE SizesInv
  OBVIOUS
<1>1. pc = "closed" /\ req = EmptyReq /\ pending = EmptyReq /\ unacked = <<>> /\ emptyReqSize = Base
  BY DEF Init
<1>2. Base \in Nat
  BY EmptyReqType, BaseIsLeast
<1> QED BY <1>1, <1>2, EmptyReqFits DEF SizesInv

LEMMA NextSizesInv == TypeOK /\ HandHeld /\ SizesInv /\ [Next]_vars => SizesInv'
<1> SUFFICES ASSUME TypeOK, HandHeld, SizesInv, [Next]_vars PROVE SizesInv'
  OBVIOUS
<1> USE DEF appVars, flagVars, resultVars, genVars, rxVars, srvVars
<1>0. /\ req \in Requests /\ pending \in Requests /\ unacked \in Seq(Requests)
      /\ Base \in Nat /\ MaxMessageSize \in Nat
  BY SizesAssumption, EmptyReqType, BaseIsLeast DEF TypeOK
<1>1. ASSUME UNCHANGED <<req, pending, totalSize, emptyReqSize, hand, unacked>>,
             pc' = "window" => pc = "window",
             pc' \in {"top", "pull"} => pc \in {"top", "pull"}
      PROVE  SizesInv'
  BY <1>1 DEF SizesInv, TooLarge
<1>2. ASSUME Begin PROVE SizesInv'
  <2>1. ReqSize(pending) \in Nat /\ Base <= ReqSize(pending) /\ Total(ReqSize(pending), pending)
    BY <1>0, ReqSizeIs, BaseIsLeast, TotalOfReq
  <2> QED BY <1>2, <2>1 DEF Begin, SizesInv
<1>3. ASSUME LeaveOnShutdown \/ PauseOnOom PROVE SizesInv'
  BY <1>3 DEF LeaveOnShutdown, PauseOnOom, SaveReq, SizesInv
<1>4. ASSUME RenewStream \/ LeaveOnOom \/ Wait \/ PullNothing PROVE SizesInv'
  BY <1>1, <1>4 DEF RenewStream, LeaveOnOom, Wait, PullNothing
<1>5. ASSUME Send(req) PROVE \A i \in DOMAIN unacked' : Fits(unacked'[i])
  <2>1. unacked' = Append(unacked, req)
    BY <1>5 DEF Send
  <2> QED BY <1>0, <2>1, AppendProperties DEF SizesInv
<1>6. ASSUME Finish PROVE SizesInv'
  <2>1. \A i \in DOMAIN unacked' : Fits(unacked'[i])
    BY <1>5, <1>6 DEF Finish, SizesInv
  <2>2. /\ req' = EmptyReq /\ pc' = "closed" /\ pending' = pending
        /\ emptyReqSize' = emptyReqSize
    BY <1>6 DEF Finish
  <2> QED BY <2>1, <2>2, EmptyReqFits DEF SizesInv
<1>7. ASSUME PullEntry PROVE SizesInv'
  <2> DEFINE e == Head(queue)
  <2>1. e \in Entries /\ Estimate(e) \in Nat
    BY <1>7, HeadTailProperties, BytesType DEF PullEntry, TypeOK
  <2>2. Total(totalSize, req) /\ totalSize \in Nat
    BY <1>7 DEF PullEntry, SizesInv, Total
  <2>3. /\ UNCHANGED <<pending, unacked, emptyReqSize>>
        /\ \/ UNCHANGED req /\ pc' = "closed"
           \/ UNCHANGED <<req, totalSize>> /\ pc' = "window" /\ hand' = e /\ ~TooLarge(e)
           \/ /\ req' = WithEntry(req, e) /\ totalSize' = totalSize + Estimate(e) /\ pc' = "top"
              /\ totalSize + Estimate(e) < MaxMessageSize
    BY <1>0, <1>7, <2>1, <2>2 DEF PullEntry, Pack, NeedsYield
  <2>5. CASE UNCHANGED req /\ pc' = "closed"
    BY <2>3, <2>5 DEF SizesInv
  <2>6. CASE UNCHANGED <<req, totalSize>> /\ pc' = "window" /\ hand' = e /\ ~TooLarge(e)
    BY <2>2, <2>3, <2>6 DEF SizesInv, TooLarge
  <2>7. CASE /\ req' = WithEntry(req, e) /\ totalSize' = totalSize + Estimate(e) /\ pc' = "top"
             /\ totalSize + Estimate(e) < MaxMessageSize
    <3>1. Total(totalSize', req') /\ Fits(req')
      BY <1>0, <2>1, <2>2, <2>7, TotalWith
    <3> QED BY <2>3, <2>7, <3>1 DEF SizesInv
  <2> QED BY <2>3, <2>5, <2>6, <2>7
<1>8. ASSUME YieldAndPack PROVE SizesInv'
  <2>1. hand \in Entries /\ Estimate(hand) \in Nat /\ KindOf[hand] \in Kinds /\ ~TooLarge(hand)
    BY <1>8, KindType, BytesType DEF YieldAndPack, HandHeld, SizesInv
  <2>2. /\ req' = WithEntry(EmptyReq, hand) /\ totalSize' = Base + Estimate(hand) /\ pc' = "top"
        /\ UNCHANGED <<pending, emptyReqSize>> /\ Send(req)
    BY <1>8 DEF YieldAndPack, Pack, AfterYield
  <2>3. Total(Base, EmptyReq)
    BY EmptyReqType, TotalOfReq DEF Base
  <2>4. /\ Total(totalSize', req')
        /\ Base + Estimate(hand) < MaxMessageSize => Fits(req')
    BY <2>1, <2>2, <2>3, EmptyReqType, TotalWith
  <2>5. Fits(req')
    <3>1. CASE Base + Estimate(hand) < MaxMessageSize
      BY <2>4, <3>1
    <3>2. CASE ~(Base + Estimate(hand) < MaxMessageSize)
      <4>1. KindOf[hand] = "ref"
        BY <1>0, <2>1, <3>2 DEF TooLarge, SizesInv, Kinds
      <4>2. Oversize(hand)
        BY <1>0, <2>1, <3>2, <4>1 DEF Oversize
      <4> QED BY <2>1, <2>2, <4>2 DEF Fits
    <3> QED BY <3>1, <3>2
  <2> QED BY <1>5, <2>2, <2>4, <2>5 DEF SizesInv
<1>9. ASSUME unacked # <<>>, unacked' = Tail(unacked),
             UNCHANGED <<req, pending, totalSize, emptyReqSize, hand>>, pc' \in {pc, "closed"}
      PROVE  SizesInv'
  <2>1. \A i \in DOMAIN unacked' : i + 1 \in DOMAIN unacked /\ unacked'[i] = unacked[i + 1]
    BY <1>0, <1>9, HeadTailProperties
  <2> QED BY <1>9, <2>1 DEF SizesInv, TooLarge
<1>10. ASSUME RecvAcks PROVE SizesInv'
  BY <1>9, <1>10 DEF RecvAcks
<1>11. ASSUME RecvOutOfMemory PROVE SizesInv'
  <2>1. \/ UNCHANGED unacked /\ pc' = "closed"
        \/ unacked' = Tail(unacked) /\ unacked # <<>> /\ pc' = pc
    BY <1>11 DEF RecvOutOfMemory
  <2>2. UNCHANGED <<req, pending, totalSize, emptyReqSize, hand>>
    BY <1>11 DEF RecvOutOfMemory
  <2> QED BY <1>1, <1>9, <2>1, <2>2
<1>12. ASSUME Receiver, ~RecvAcks, ~RecvOutOfMemory PROVE SizesInv'
  <2>1. UNCHANGED <<req, pending, totalSize, emptyReqSize, hand, unacked>>
    BY <1>12 DEF Receiver, Connect, RecvStarted, RecvBackoff, RecvShuttingDown, RecvEnd,
                 Reconnect, ReconnectFails, RecvError, RecvResult
  <2>2. pc' \in {pc, "closed", "waitStarted"}
    BY <1>12 DEF Receiver, Connect, RecvStarted, RecvBackoff, RecvShuttingDown, RecvEnd,
                 Reconnect, ReconnectFails, RecvError, RecvResult
  <2> QED BY <1>1, <2>1, <2>2
<1>13. ASSUME NEW e \in Entries, Add(e) \/ AddResumes(e) PROVE SizesInv'
  BY <1>1, <1>13 DEF Add, AddResumes
<1>14. ASSUME Stop \/ StopReturns \/ UNCHANGED vars PROVE SizesInv'
  BY <1>1, <1>14 DEF Stop, StopReturns, vars
<1> QED BY <1>2, <1>3, <1>4, <1>6, <1>7, <1>8, <1>10, <1>11, <1>12, <1>13, <1>14
        DEF Next, Generator, Terminated, Poll

\* A request exceeds the message size by the bytes of lengths that are not
\* counted at most, but for a single reference that is too large in itself, and
\* the generator's total falls behind what it packed by no more: for any sizes,
\* overhead, batch sizes and streams (generateStreamRequests).
THEOREM RequestsAlwaysFit == Spec => []RequestsFit
<1>1. IInv /\ SizesInv /\ [Next]_vars => SizesInv'
  BY NextSizesInv DEF IInv
<1>2. ASSUME NEW r \in Requests, NEW n \in Nat, 6 + Weight(r, InList) <= n + Weight(r, Beyond)
      PROVE  ReqSize(r) <= n + Uncounted(r)
  <2>1. /\ ReqSize(r) \in Nat /\ Cardinality(Limits) \in Nat /\ Weight(r, InList) \in Nat
        /\ ReqSize(r) <= 6 + 3 * Cardinality(Limits) + Weight(r, InList)
    BY ReqSizeIs
  <2>2. /\ TotalOf(r["obj"], Beyond) \in Nat /\ TotalOf(r["ref"], Beyond) \in Nat
    BY BytesFinite, BytesType DEF Requests, Kinds
  <2> QED BY <1>2, <2>1, <2>2 DEF Uncounted, Weight
<1>3. ASSUME NEW r \in Requests, 6 + Weight(r, InList) < MaxMessageSize + Weight(r, Beyond)
      PROVE  ReqSize(r) < MaxMessageSize + Uncounted(r)
  <2>1. /\ ReqSize(r) \in Nat /\ Cardinality(Limits) \in Nat /\ Weight(r, InList) \in Nat
        /\ ReqSize(r) <= 6 + 3 * Cardinality(Limits) + Weight(r, InList)
    BY ReqSizeIs
  <2>2. /\ TotalOf(r["obj"], Beyond) \in Nat /\ TotalOf(r["ref"], Beyond) \in Nat
        /\ MaxMessageSize \in Nat
    BY BytesFinite, BytesType, SizesAssumption DEF Requests, Kinds
  <2> QED BY <1>3, <2>1, <2>2 DEF Uncounted, Weight
<1>4. IInv /\ SizesInv => RequestsFit
  <2> SUFFICES ASSUME TypeOK, SizesInv PROVE RequestsFit
    BY DEF IInv
  <2>1. req \in Requests /\ \A i \in DOMAIN unacked : unacked[i] \in Requests
    BY DEF TypeOK
  <2>2. pc \in {"top", "pull", "window"} => ReqSize(req) <= totalSize + Uncounted(req)
    BY <1>2, <2>1 DEF SizesInv, Total
  <2>3. ASSUME NEW i \in DOMAIN unacked
        PROVE  \/ ReqSize(unacked[i]) < MaxMessageSize + Uncounted(unacked[i])
               \/ \E e \in Entries : Oversize(e) /\ unacked[i] = WithEntry(EmptyReq, e)
    BY <1>3, <2>1 DEF SizesInv, Fits
  <2> QED BY <2>2, <2>3 DEF RequestsFit
<1> QED BY <1>1, <1>4, InitSizesInv, Invariance, PTL DEF Spec

-----------------------------------------------------------------------------
(***************************************************************************)
(* The pipeline: calls, queue and what the generator has taken, as         *)
(* sequences of one kind.                                                  *)
(***************************************************************************)
OneIf(c) == IF c THEN 1 ELSE 0

\* The places of kind k among the first n of s.
PlacesOf(s, n, k) == {i \in 1 .. n : KindOf[s[i]] = k}

LEMMA CountType ==
  ASSUME NEW s, NEW n \in Nat, NEW k
  PROVE  /\ IsFiniteSet(PlacesOf(s, n, k))
         /\ CountOf(s, n, k) = Cardinality(PlacesOf(s, n, k))
         /\ CountOf(s, n, k) \in Nat
<1>1. IsFiniteSet(1 .. n)
  BY CountingInterval
<1>2. PlacesOf(s, n, k) \in SUBSET (1 .. n)
  BY DEF PlacesOf
<1>3. IsFiniteSet(PlacesOf(s, n, k))
  BY <1>1, <1>2, FS_Subset
<1>4. Cardinality(PlacesOf(s, n, k)) \in Nat
  BY <1>3, FS_CardinalityType
<1>5. CountOf(s, n, k) = Cardinality(PlacesOf(s, n, k))
  BY DEF PlacesOf, CountOf
<1> QED BY <1>3, <1>4, <1>5

\* Nothing is counted in no entries.
LEMMA CountNone == ASSUME NEW s, NEW k PROVE CountOf(s, 0, k) = 0
<1>1. {i \in 1 .. 0 : KindOf[s[i]] = k} = {}
  OBVIOUS
<1> QED BY <1>1, FS_EmptySet DEF CountOf

\* One entry more is counted if it is of the kind.
LEMMA CountStep ==
  ASSUME NEW s, NEW n \in Nat, NEW k
  PROVE  CountOf(s, n + 1, k) = CountOf(s, n, k) + OneIf(KindOf[s[n + 1]] = k)
<1> DEFINE S == PlacesOf(s, n, k)
           T == PlacesOf(s, n + 1, k)
<1>0. n + 1 \in Nat /\ n + 1 \notin S
  BY DEF PlacesOf
<1>1. /\ IsFiniteSet(S) /\ Cardinality(S) \in Nat
      /\ CountOf(s, n, k) = Cardinality(S) /\ CountOf(s, n + 1, k) = Cardinality(T)
  BY <1>0, CountType, FS_CardinalityType
<1>2. CASE KindOf[s[n + 1]] = k
  <2>1. T = S \cup {n + 1}
    BY <1>2 DEF PlacesOf
  <2>2. Cardinality(S \cup {n + 1}) = Cardinality(S) + 1
    BY <1>0, <1>1, FS_AddElement
  <2> QED BY <1>1, <1>2, <2>1, <2>2 DEF OneIf
<1>3. CASE KindOf[s[n + 1]] # k
  <2>1. T = S
    BY <1>3 DEF PlacesOf
  <2> QED BY <1>1, <1>3, <2>1 DEF OneIf
<1> QED BY <1>2, <1>3

\* More entries count no less, and an entry of the kind counts.
LEMMA CountMonotonic ==
  ASSUME NEW s, NEW m \in Nat, NEW n \in Nat, m <= n, NEW k
  PROVE  CountOf(s, m, k) <= CountOf(s, n, k)
<1>1. PlacesOf(s, m, k) \in SUBSET PlacesOf(s, n, k)
  BY DEF PlacesOf
<1> QED BY <1>1, CountType, FS_Subset

LEMMA CountPositive ==
  ASSUME NEW s, NEW n \in Nat \ {0}, NEW k, KindOf[s[n]] = k
  PROVE  CountOf(s, n, k) >= 1
<1>1. n - 1 \in Nat /\ (n - 1) + 1 = n
  OBVIOUS
<1>2. CountOf(s, (n - 1) + 1, k) = CountOf(s, n - 1, k) + OneIf(KindOf[s[(n - 1) + 1]] = k)
  BY <1>1, CountStep
<1>3. CountOf(s, n - 1, k) \in Nat
  BY <1>1, CountType
<1> QED BY <1>1, <1>2, <1>3 DEF OneIf

\* Sequences that agree on their first n entries count alike.
LEMMA CountAgrees ==
  ASSUME NEW s, NEW t, NEW n \in Nat, NEW k, \A i \in 1 .. n : s[i] = t[i]
  PROVE  CountOf(s, n, k) = CountOf(t, n, k)
<1>1. PlacesOf(s, n, k) = PlacesOf(t, n, k)
  BY DEF PlacesOf
<1> QED BY <1>1, CountType

\* Without its head a sequence counts one less if the head is of the kind.
LEMMA CountTail ==
  ASSUME NEW s \in Seq(Entries), s # <<>>, NEW n \in Nat, n < Len(s), NEW k
  PROVE  CountOf(s, n + 1, k) = CountOf(Tail(s), n, k) + OneIf(KindOf[Head(s)] = k)
<1> DEFINE S == PlacesOf(Tail(s), n, k)
           T == {i \in 2 .. n + 1 : KindOf[s[i]] = k}
           U == PlacesOf(s, n + 1, k)
<1>0. /\ IsFiniteSet(S) /\ CountOf(Tail(s), n, k) = Cardinality(S)
      /\ CountOf(s, n + 1, k) = Cardinality(U)
  BY CountType
<1>1. Head(s) = s[1] /\ \A i \in 1 .. n : Tail(s)[i] = s[i + 1]
  BY HeadTailProperties
<1>2. Cardinality(S) = Cardinality(T) /\ IsFiniteSet(T)
  <2> DEFINE f == [i \in S |-> i + 1]
  <2>0. S \subseteq Nat /\ T \subseteq Nat
    BY DEF PlacesOf
  <2>1. ASSUME NEW j \in T PROVE j - 1 \in S
    <3>1. j - 1 \in 1 .. n /\ Tail(s)[j - 1] = s[j]
      BY <1>1
    <3> QED BY <3>1 DEF PlacesOf
  <2>2. \A i \in S : i + 1 \in T
    BY <1>1 DEF PlacesOf
  <2> HIDE DEF S, T
  <2>3. f \in Bijection(S, T)
    <3>1. f \in [S -> T]
      BY <2>2
    <3>2. \A a, b \in S : f[a] = f[b] => a = b
      BY <2>0
    <3>3. \A j \in T : j - 1 \in S /\ f[j - 1] = j
      BY <2>0, <2>1
    <3> QED BY <3>1, <3>2, <3>3 DEF Bijection, Injection, Surjection, IsInjective
  <2>5. ExistsBijection(S, T)
    BY <2>3 DEF ExistsBijection
  <2> QED BY <1>0, <2>5, FS_Bijection
<1>3. Cardinality(T) \in Nat /\ 1 \notin T
  BY <1>2, FS_CardinalityType
<1>4. CASE KindOf[Head(s)] = k
  <2>0. 1 \in U
    BY <1>1, <1>4 DEF PlacesOf
  <2>1. U = T \cup {1}
    BY <2>0 DEF PlacesOf
  <2>2. Cardinality(T \cup {1}) = Cardinality(T) + 1
    BY <1>2, <1>3, FS_AddElement
  <2>3. Cardinality(U) = Cardinality(T) + 1
    BY <2>1, <2>2
  <2>4. OneIf(KindOf[Head(s)] = k) = 1
    BY <1>4 DEF OneIf
  <2> HIDE DEF S, T, U
  <2> QED BY <1>0, <1>2, <2>3, <2>4
<1>5. CASE KindOf[Head(s)] # k
  <2>1. U = T
    BY <1>1, <1>5 DEF PlacesOf
  <2>2. OneIf(KindOf[Head(s)] = k) = 0
    BY <1>5 DEF OneIf
  <2> HIDE DEF S, T, U
  <2> QED BY <1>0, <1>2, <1>3, <2>1, <2>2
<1> QED BY <1>4, <1>5

\* What the calls of kind k added (a) is what was taken (t), and then what is
\* of kind k in the queue (q).
Flows(a, t, q, k) ==
  /\ Len(a) = Len(t) + CountOf(q, Len(q), k)
  /\ \A i \in DOMAIN t : a[i] = t[i]
  /\ \A j \in DOMAIN q : KindOf[q[j]] = k => a[Len(t) + CountOf(q, j, k)] = q[j]

\* A call adds its entry at the end of both.
LEMMA FlowsPush ==
  ASSUME NEW a \in Seq(Entries), NEW t \in Seq(Entries), NEW q \in Seq(Entries),
         NEW e \in Entries, NEW k, Flows(a, t, q, k),
         NEW b, b = IF KindOf[e] = k THEN Append(a, e) ELSE a
  PROVE  Flows(b, t, Append(q, e), k)
<1> DEFINE p == Append(q, e)
           n == Len(q)
           C(j) == CountOf(q, j, k)
           D(j) == CountOf(p, j, k)
<1>1. /\ n \in Nat /\ Len(t) \in Nat /\ Len(a) \in Nat
      /\ p \in Seq(Entries) /\ Len(p) = n + 1 /\ p[n + 1] = e
      /\ \A i \in 1 .. n : p[i] = q[i]
  BY AppendProperties
<1>2. ASSUME NEW j \in 0 .. n PROVE D(j) = C(j) /\ C(j) \in Nat /\ C(j) <= C(n)
  <2>1. j \in Nat /\ j <= n /\ \A i \in 1 .. j : p[i] = q[i]
    BY <1>1
  <2> HIDE DEF p
  <2>2. D(j) = C(j)
    BY <2>1, CountAgrees
  <2>3. C(j) \in Nat /\ C(j) <= C(n)
    BY <1>1, <2>1, CountType, CountMonotonic
  <2> QED BY <2>2, <2>3
<1>3. D(n + 1) = C(n) + OneIf(KindOf[e] = k)
  <2> HIDE DEF p
  <2>1. D(n + 1) = D(n) + OneIf(KindOf[p[n + 1]] = k)
    BY <1>1, CountStep
  <2> QED BY <1>1, <1>2, <2>1
<1>4. Len(a) = Len(t) + C(n) /\ C(n) \in Nat
  BY <1>1, <1>2 DEF Flows
<1> HIDE DEF p, C, D
<1>5. CASE KindOf[e] = k
  <2>0. OneIf(KindOf[e] = k) = 1
    BY <1>5 DEF OneIf
  <2>1. b = Append(a, e) /\ Len(b) = Len(a) + 1 /\ b[Len(a) + 1] = e
        /\ \A i \in 1 .. Len(a) : b[i] = a[i]
    BY <1>5, AppendProperties
  <2>2. Len(b) = Len(t) + D(Len(p))
    BY <1>1, <1>3, <1>4, <2>0, <2>1
  <2>3. \A i \in DOMAIN t : b[i] = t[i]
    <3>1. \A i \in DOMAIN t : i \in 1 .. Len(a) /\ a[i] = t[i]
      BY <1>1, <1>4 DEF Flows
    <3> QED BY <2>1, <3>1
  <2>4. ASSUME NEW j \in DOMAIN p, KindOf[p[j]] = k PROVE b[Len(t) + D(j)] = p[j]
    <3>1. CASE j = n + 1
      BY <1>1, <1>3, <1>4, <2>0, <2>1, <3>1
    <3>2. CASE j # n + 1
      <4>1. j \in 1 .. n /\ p[j] = q[j]
        BY <1>1, <2>4, <3>2
      <4>2. D(j) = C(j) /\ C(j) <= C(n) /\ C(j) \in Nat
        BY <1>2, <4>1
      <4>3. C(j) >= 1
        BY <2>4, <4>1, CountPositive DEF C
      <4>4. a[Len(t) + C(j)] = q[j]
        BY <2>4, <4>1 DEF Flows, C
      <4> QED BY <1>1, <1>4, <2>1, <4>1, <4>2, <4>3, <4>4
    <3> QED BY <3>1, <3>2
  <2> QED BY <2>2, <2>3, <2>4 DEF Flows, p, D
<1>6. CASE KindOf[e] # k
  <2>0. OneIf(KindOf[e] = k) = 0
    BY <1>6 DEF OneIf
  <2>1. b = a /\ Len(b) = Len(t) + D(Len(p))
    BY <1>1, <1>3, <1>4, <1>6, <2>0
  <2>2. ASSUME NEW j \in DOMAIN p, KindOf[p[j]] = k PROVE b[Len(t) + D(j)] = p[j]
    <3>1. j \in 1 .. n /\ p[j] = q[j]
      BY <1>1, <1>6, <2>2
    <3>2. a[Len(t) + C(j)] = q[j] /\ D(j) = C(j)
      BY <1>2, <2>2, <3>1 DEF Flows, C
    <3> QED BY <2>1, <3>1, <3>2
  <2>3. \A i \in DOMAIN t : b[i] = t[i]
    BY <2>1 DEF Flows
  <2> QED BY <2>1, <2>2, <2>3 DEF Flows, p, D
<1> QED BY <1>5, <1>6

\* The generator takes the entry at the head.
LEMMA FlowsPull ==
  ASSUME NEW a \in Seq(Entries), NEW t \in Seq(Entries), NEW q \in Seq(Entries),
         q # <<>>, NEW k, Flows(a, t, q, k),
         NEW u, u = IF KindOf[Head(q)] = k THEN Append(t, Head(q)) ELSE t
  PROVE  Flows(a, u, Tail(q), k)
<1> DEFINE e == Head(q)
           p == Tail(q)
           n == Len(p)
           o == OneIf(KindOf[e] = k)
           C(j) == CountOf(q, j, k)
           D(j) == CountOf(p, j, k)
<1>1. /\ n \in Nat /\ Len(q) = n + 1 /\ Len(t) \in Nat /\ Len(a) \in Nat
      /\ p \in Seq(Entries) /\ e = q[1] /\ e \in Entries
      /\ \A i \in 1 .. n : p[i] = q[i + 1]
  BY HeadTailProperties
<1>2. ASSUME NEW j \in 0 .. n PROVE C(j + 1) = D(j) + o /\ D(j) \in Nat /\ C(j + 1) \in Nat
  <2>1. j \in Nat /\ j < Len(q)
    BY <1>1
  <2> QED BY <2>1, CountTail, CountType
<1>3. Len(a) = Len(t) + C(n + 1) /\ o \in {0, 1}
  BY <1>1 DEF Flows, OneIf
<1>4. ASSUME NEW j \in DOMAIN p, KindOf[p[j]] = k PROVE a[Len(t) + o + D(j)] = p[j]
  <2>1. j + 1 \in DOMAIN q /\ q[j + 1] = p[j] /\ j \in 0 .. n
    BY <1>1
  <2>2. a[Len(t) + C(j + 1)] = p[j]
    BY <1>4, <2>1 DEF Flows
  <2>3. Len(t) + C(j + 1) = Len(t) + o + D(j)
    BY <1>1, <1>2, <1>3, <2>1
  <2> QED BY <2>2, <2>3
<1>5. CASE KindOf[e] = k
  <2>1. u = Append(t, e) /\ Len(u) = Len(t) + 1 /\ u[Len(t) + 1] = e
        /\ DOMAIN u = 1 .. Len(t) + 1 /\ \A i \in 1 .. Len(t) : u[i] = t[i]
    BY <1>1, <1>5, AppendProperties
  <2>2. o = 1
    BY <1>5 DEF OneIf
  <2>3. a[Len(t) + 1] = e
    <3>1. C(1) = 1
      <4>1. C(0 + 1) = D(0) + o
        BY <1>1, <1>2
      <4>2. D(0) = 0
        BY CountNone
      <4> QED BY <2>2, <4>1, <4>2
    <3>2. a[Len(t) + C(1)] = q[1]
      BY <1>1, <1>5 DEF Flows
    <3> QED BY <1>1, <3>1, <3>2
  <2> HIDE DEF o, p, C, D
  <2>4. \A i \in DOMAIN u : a[i] = u[i]
    <3>1. \A i \in 1 .. Len(t) : a[i] = t[i]
      BY DEF Flows
    <3> QED BY <1>1, <2>1, <2>3, <3>1
  <2>5. Len(a) = Len(u) + D(n)
    <3>1. n \in 0 .. n
      BY <1>1
    <3>2. C(n + 1) = D(n) + o /\ D(n) \in Nat
      BY <1>2, <3>1
    <3>3. Len(a) = Len(t) + (D(n) + 1)
      BY <1>3, <2>2, <3>2
    <3>4. Len(u) = Len(t) + 1 /\ Len(t) \in Nat
      BY <1>1, <2>1
    <3>5. \A x, y, z \in Nat : x + (y + 1) = (x + 1) + y
      OBVIOUS
    <3> QED BY <3>2, <3>3, <3>4, <3>5, Zenon
  <2>6. \A j \in DOMAIN p : KindOf[p[j]] = k => a[Len(u) + D(j)] = p[j]
    BY <1>4, <2>1, <2>2
  <2> QED BY <2>4, <2>5, <2>6 DEF Flows, p, D
<1>6. CASE KindOf[e] # k
  <2>1. u = t
    BY <1>6
  <2>2. o = 0
    BY <1>6 DEF OneIf
  <2> HIDE DEF o, p, C, D
  <2>3. Len(a) = Len(u) + D(n)
    BY <1>1, <1>2, <1>3, <2>1, <2>2
  <2>4. \A j \in DOMAIN p : KindOf[p[j]] = k => a[Len(u) + D(j)] = p[j]
    BY <1>1, <1>4, <2>1, <2>2
  <2>5. \A i \in DOMAIN u : a[i] = u[i]
    BY <2>1 DEF Flows
  <2> QED BY <2>3, <2>4, <2>5 DEF Flows, p, D
<1> QED BY <1>5, <1>6

-----------------------------------------------------------------------------
LEMMA ConcatAppend ==
  ASSUME NEW s \in Seq(Entries), NEW t \in Seq(Entries), NEW e \in Entries
  PROVE  s \o Append(t, e) = Append(s \o t, e)
<1> DEFINE u == <<e>>
<1>1. u \in Seq(Entries) /\ s \o t \in Seq(Entries)
  BY ConcatProperties
<1>2. Append(t, e) = t \o u /\ Append(s \o t, e) = (s \o t) \o u
  BY <1>1, AppendIsConcat
<1> HIDE DEF u
<1>3. (s \o t) \o u = s \o (t \o u)
  BY <1>1, ConcatAssociative
<1> QED BY <1>2, <1>3

LEMMA PipelineFlows ==
  Pipeline <=> (rx # "failed" /\ Undisturbed =>
                  \A k \in Kinds : Flows(accepted[k], Taken(k), queue, k))
BY DEF Pipeline, Flows

LEMMA HandOfType ==
  ASSUME TypeOK, NEW k \in Kinds
  PROVE  /\ HandOf(k) \in Seq(Entries)
         /\ hand = NoEntry => HandOf(k) = <<>>
         /\ hand \in Entries => HandOf(k) = IF KindOf[hand] = k THEN <<hand>> ELSE <<>>
BY EntriesType DEF HandOf, TypeOK, NoEntry

LEMMA TakenType ==
  ASSUME TypeOK, NEW k \in Kinds
  PROVE  /\ sent[k] \in Seq(Entries) /\ req[k] \in Seq(Entries) /\ accepted[k] \in Seq(Entries)
         /\ Taken(k) \in Seq(Entries)
         /\ Len(Taken(k)) = Len(sent[k]) + Len(req[k]) + Len(HandOf(k))
<1>1. /\ sent[k] \in Seq(Entries) /\ req[k] \in Seq(Entries) /\ accepted[k] \in Seq(Entries)
      /\ HandOf(k) \in Seq(Entries)
  BY HandOfType DEF TypeOK, Requests
<1>2. /\ sent[k] \o req[k] \in Seq(Entries)
      /\ Len(sent[k] \o req[k]) = Len(sent[k]) + Len(req[k])
  BY <1>1, ConcatProperties
<1>3. /\ Taken(k) \in Seq(Entries)
      /\ Len(Taken(k)) = Len(sent[k] \o req[k]) + Len(HandOf(k))
  BY <1>1, <1>2, ConcatProperties DEF Taken
<1> QED BY <1>1, <1>2, <1>3

\* A failed stream stays failed.
LEMMA FailedForGood == [Next]_vars /\ rx = "failed" => rx' = "failed"
<1> SUFFICES ASSUME [Next]_vars, rx = "failed" PROVE rx' = "failed"
  OBVIOUS
<1> USE DEF appVars, flagVars, resultVars, genVars, rxVars, srvVars
<1>1. Generator => rx' = "failed"
  BY DEF Generator, Begin, LeaveOnShutdown, RenewStream, PauseOnOom, LeaveOnOom, Wait,
         PullNothing, Finish, PullEntry, YieldAndPack
<1>2. Receiver => rx' = "failed"
  BY DEF Receiver, Connect, RecvStarted, RecvAcks, RecvBackoff, RecvOutOfMemory,
         RecvShuttingDown, RecvEnd, Reconnect, ReconnectFails, RecvError, RecvResult
<1>3. Stop \/ StopReturns \/ UNCHANGED vars => rx' = "failed"
  BY DEF Stop, StopReturns, vars
<1>4. (\E e \in Entries : Add(e) \/ AddResumes(e)) => rx' = "failed"
  BY DEF Add, AddResumes
<1> QED BY <1>1, <1>2, <1>3, <1>4 DEF Next, Terminated, Poll

\* A request that is sent stays taken.
LEMMA TakenSent ==
  ASSUME TypeOK, HandHeld, Phases, rx # "failed", Finish \/ YieldAndPack, NEW k \in Kinds
  PROVE  Taken(k)' = Taken(k)
<1> USE DEF appVars, flagVars, resultVars, genVars, rxVars, srvVars
<1>0. /\ sent[k] \in Seq(Entries) /\ req[k] \in Seq(Entries) /\ Taken(k) \in Seq(Entries)
      /\ sent[k] \o req[k] \in Seq(Entries)
  BY TakenType, ConcatProperties
<1>1. ASSUME Finish PROVE Taken(k)' = Taken(k)
  <2>1. hand = NoEntry /\ hand' = NoEntry
    BY <1>1 DEF Finish, Phases
  <2>2. HandOf(k) = <<>> /\ HandOf(k)' = <<>> /\ req'[k] = <<>>
    BY <1>1, <2>1 DEF HandOf, Finish, EmptyReq
  <2>3. sent'[k] = sent[k] \o req[k]
    <3>1. CASE HasEntries(req)
      BY <1>1, <3>1 DEF Finish, Send
    <3>2. CASE ~HasEntries(req)
      <4>1. req[k] = <<>> /\ sent' = sent
        BY <1>1, <3>2 DEF Finish, HasEntries, Kinds
      <4> QED BY <1>0, <4>1, ConcatEmptySeq
    <3> QED BY <3>1, <3>2
  <2> QED BY <1>0, <2>2, <2>3, ConcatEmptySeq DEF Taken
<1>2. ASSUME YieldAndPack PROVE Taken(k)' = Taken(k)
  <2>1. /\ hand \in Entries /\ hand' = NoEntry
        /\ sent'[k] = sent[k] \o req[k]
        /\ req' = WithEntry(EmptyReq, hand)
    BY <1>2 DEF YieldAndPack, HandHeld, Send, Pack, AfterYield
  <2>2. HandOf(k)' = <<>>
    BY <2>1 DEF HandOf
  <2>3. req'[k] = HandOf(k)
    BY <2>1, HandOfType, KindType DEF WithEntry, EmptyReq
  <2>4. Taken(k)' = sent'[k] \o req'[k]
    <3>1. sent'[k] \o req'[k] \in Seq(Entries)
      BY <1>0, <2>1, <2>3, HandOfType, ConcatProperties
    <3> QED BY <2>2, <3>1, ConcatEmptySeq DEF Taken
  <2> QED BY <2>1, <2>3, <2>4 DEF Taken
<1> QED BY <1>1, <1>2

\* What the generator has taken changes only when it pulls an entry: packing,
\* yielding and keeping a request for the next stream move entries along.
LEMMA TakenKept ==
  ASSUME TypeOK, TypeOK', HandHeld, Phases, Leftover, [Next]_vars, rx' # "failed", rx # "failed",
         Undisturbed, ~PullEntry, ~RecvOutOfMemory, ~RenewStream, NEW k \in Kinds
  PROVE  Taken(k)' = Taken(k)
<1> USE DEF appVars, flagVars, resultVars, genVars, rxVars, srvVars
<1>1. ASSUME UNCHANGED <<sent, req, hand>> PROVE Taken(k)' = Taken(k)
  BY <1>1 DEF Taken, HandOf
<1>2. ASSUME Begin PROVE Taken(k)' = Taken(k)
  <2>1. req' = req
    BY <1>2 DEF Begin, Leftover, Undisturbed
  <2> QED BY <1>1, <1>2, <2>1 DEF Begin
<1>3. ASSUME Finish \/ YieldAndPack PROVE Taken(k)' = Taken(k)
  BY <1>3, TakenSent
<1>5. ASSUME Generator PROVE Taken(k)' = Taken(k)
  <2>1. ASSUME ~Begin, ~Finish, ~YieldAndPack PROVE UNCHANGED <<sent, req, hand>>
    BY <1>5, <2>1 DEF Generator, LeaveOnShutdown, PauseOnOom, LeaveOnOom, Wait, PullNothing
  <2> QED BY <1>1, <1>2, <1>3, <2>1
<1>6. ASSUME Receiver PROVE UNCHANGED <<sent, req, hand>>
  BY <1>6 DEF Receiver, Connect, RecvStarted, RecvAcks, RecvBackoff, RecvShuttingDown, RecvEnd,
              Reconnect, ReconnectFails, RecvError, RecvResult
<1>7. ASSUME NEW e \in Entries, Add(e) \/ AddResumes(e) PROVE UNCHANGED <<sent, req, hand>>
  BY <1>7 DEF Add, AddResumes
<1>8. ASSUME Stop \/ StopReturns \/ UNCHANGED vars PROVE UNCHANGED <<sent, req, hand>>
  BY <1>8 DEF Stop, StopReturns, vars
<1> QED BY <1>1, <1>5, <1>6, <1>7, <1>8 DEF Next, Terminated, Poll

\* A pull takes the head of the queue.
LEMMA TakenPulled ==
  ASSUME TypeOK, Phases, PullEntry, rx' # "failed", NEW k \in Kinds
  PROVE  /\ queue # <<>> /\ queue' = Tail(queue) /\ UNCHANGED <<accepted, sent>>
         /\ Taken(k)' = IF KindOf[Head(queue)] = k THEN Append(Taken(k), Head(queue)) ELSE Taken(k)
<1> DEFINE e == Head(queue)
<1>1. /\ e \in Entries /\ queue # <<>> /\ queue' = Tail(queue) /\ UNCHANGED <<accepted, sent>>
      /\ KindOf[e] \in Kinds
  BY HeadTailProperties, KindType DEF PullEntry, TypeOK, srvVars
<1>2. hand = NoEntry
  <2>1. pc = "pull" /\ rx # "failed"
    BY DEF PullEntry
  <2> QED BY <2>1 DEF Phases
<1>3. /\ sent[k] \in Seq(Entries) /\ req[k] \in Seq(Entries) /\ sent[k] \o req[k] \in Seq(Entries)
  BY TakenType, ConcatProperties
<1>4. Taken(k) = sent[k] \o req[k]
  BY <1>2, <1>3, HandOfType, ConcatEmptySeq DEF Taken
<1>5. CASE hand' = e /\ req' = req
  <2>1. HandOf(k)' = IF KindOf[e] = k THEN <<e>> ELSE <<>>
    BY <1>1, <1>5, EntriesType DEF HandOf, NoEntry
  <2>2. Taken(k)' = (sent[k] \o req[k]) \o HandOf(k)'
    BY <1>1, <1>5 DEF Taken
  <2>3. Append(Taken(k), e) = (sent[k] \o req[k]) \o <<e>>
    BY <1>1, <1>3, <1>4, AppendIsConcat
  <2>4. Taken(k) = (sent[k] \o req[k]) \o <<>>
    BY <1>3, <1>4, ConcatEmptySeq
  <2>5. Taken(k)' = IF KindOf[e] = k THEN Append(Taken(k), e) ELSE Taken(k)
    BY <2>1, <2>2, <2>3, <2>4
  <2> QED BY <1>1, <2>5
<1>6. CASE hand' = hand /\ req' = WithEntry(req, e)
  <2>1. HandOf(k)' = <<>>
    BY <1>2, <1>6 DEF HandOf
  <2>2. req'[k] = IF KindOf[e] = k THEN Append(req[k], e) ELSE req[k]
    BY <1>1, <1>6 DEF WithEntry, TypeOK, Requests
  <2>3. req'[k] \in Seq(Entries)
    BY <1>1, <1>3, <2>2, AppendProperties
  <2>4. Taken(k)' = sent[k] \o req'[k]
    <3>1. sent[k] \o req'[k] \in Seq(Entries)
      BY <1>3, <2>3, ConcatProperties
    <3> QED BY <1>1, <2>1, <3>1, ConcatEmptySeq DEF Taken
  <2>5. sent[k] \o Append(req[k], e) = Append(sent[k] \o req[k], e)
    BY <1>1, <1>3, ConcatAppend
  <2>6. Taken(k)' = IF KindOf[e] = k THEN Append(Taken(k), e) ELSE Taken(k)
    BY <1>4, <2>2, <2>4, <2>5
  <2> QED BY <1>1, <2>6
<1>7. ~TooLarge(e)
  BY DEF PullEntry
<1>8. (hand' = e /\ req' = req) \/ (hand' = hand /\ req' = WithEntry(req, e))
  BY <1>7 DEF PullEntry, Pack
<1> QED BY <1>1, <1>5, <1>6, <1>8

LEMMA InitPipeline == Init => Pipeline
<1> SUFFICES ASSUME Init, NEW k \in Kinds PROVE Flows(accepted[k], Taken(k), queue, k)
  BY PipelineFlows
<1>1. /\ accepted[k] = <<>> /\ sent[k] = <<>> /\ req[k] = <<>> /\ hand = NoEntry /\ queue = <<>>
  BY DEF Init, EmptyReq
<1>2. Taken(k) = <<>>
  BY <1>1 DEF Taken, HandOf
<1>3. CountOf(<<>>, 0, k) = 0
  BY CountNone
<1> QED BY <1>1, <1>2, <1>3 DEF Flows

LEMMA NextPipeline ==
  TypeOK /\ TypeOK' /\ HandHeld /\ StreamInv /\ Pipeline /\ [Next]_vars => Pipeline'
<1> SUFFICES ASSUME TypeOK, TypeOK', HandHeld, StreamInv, Pipeline, [Next]_vars,
                    rx' # "failed", Undisturbed', NEW k \in Kinds
             PROVE  Flows(accepted[k], Taken(k), queue, k)'
  BY PipelineFlows DEF Pipeline, Flows
<1> USE DEF appVars, flagVars, resultVars, genVars, rxVars, srvVars
<1>0. /\ Budgeted /\ Phases /\ Leftover
      /\ Undisturbed /\ rx # "failed" /\ Unspent("oom")' /\ Unspent("renew")'
      /\ Flows(accepted[k], Taken(k), queue, k)
      /\ accepted[k] \in Seq(Entries) /\ Taken(k) \in Seq(Entries) /\ queue \in Seq(Entries)
  BY FailedForGood, UndisturbedBefore, PipelineFlows, TakenType DEF StreamInv, Undisturbed, TypeOK
<1>1. ~RecvOutOfMemory /\ ~RenewStream
  BY <1>0, SpendSpends DEF RecvOutOfMemory, RenewStream, Events
<1>2. ASSUME ~PullEntry PROVE Taken(k)' = Taken(k)
  BY <1>0, <1>1, <1>2, TakenKept
<1>3. ASSUME NEW e \in Entries, Push(e), ~PullEntry PROVE Flows(accepted[k], Taken(k), queue, k)'
  <2>1. queue' = Append(queue, e)
        /\ accepted'[k] = IF KindOf[e] = k THEN Append(accepted[k], e) ELSE accepted[k]
    BY <1>3 DEF Push, TypeOK, Requests
  <2>2. Flows(accepted'[k], Taken(k), Append(queue, e), k)
    BY <1>0, <2>1, FlowsPush
  <2> QED BY <1>2, <1>3, <2>1, <2>2
<1>4. ASSUME UNCHANGED <<queue, accepted>>, ~PullEntry PROVE Flows(accepted[k], Taken(k), queue, k)'
  BY <1>0, <1>2, <1>4
<1>5. ASSUME PullEntry PROVE Flows(accepted[k], Taken(k), queue, k)'
  <2>1. /\ queue # <<>> /\ queue' = Tail(queue) /\ accepted' = accepted
        /\ Taken(k)' = IF KindOf[Head(queue)] = k THEN Append(Taken(k), Head(queue)) ELSE Taken(k)
    BY <1>0, <1>5, TakenPulled
  <2>2. Flows(accepted[k], Taken(k)', Tail(queue), k)
    BY <1>0, <2>1, FlowsPull
  <2> QED BY <2>1, <2>2
<1>6. ASSUME NEW e \in Entries, Add(e) \/ AddResumes(e)
      PROVE  (Push(e) \/ UNCHANGED <<queue, accepted>>) /\ pc' = pc
  BY <1>6 DEF Add, AddResumes
<1>7. PullEntry => pc' # pc
  BY DEF PullEntry, Pack
<1>8. Generator /\ ~PullEntry => UNCHANGED <<queue, accepted>>
  BY DEF Generator, Begin, LeaveOnShutdown, RenewStream, PauseOnOom, LeaveOnOom, Wait,
         PullNothing, Finish, YieldAndPack
<1>9. Receiver => UNCHANGED <<queue, accepted>>
  BY <1>1 DEF Receiver, Connect, RecvStarted, RecvAcks, RecvBackoff, RecvShuttingDown, RecvEnd,
              Reconnect, ReconnectFails, RecvError, RecvResult
<1>10. Stop \/ StopReturns \/ UNCHANGED vars => UNCHANGED <<queue, accepted>>
  BY DEF Stop, StopReturns, vars
<1> QED BY <1>3, <1>4, <1>5, <1>6, <1>7, <1>8, <1>9, <1>10 DEF Next, Terminated, Poll

\* Undisturbed, the pipeline neither drops, nor repeats, nor reorders an entry
\* between the calls and the server.
THEOREM PipelineFlowsInOrder == Spec => []Pipeline
<1>1. IInv /\ IInv' /\ StreamInv /\ Pipeline /\ [Next]_vars => Pipeline'
  BY NextPipeline DEF IInv
<1> QED BY <1>1, InitPipeline, Invariance, StreamInvariance, PTL DEF Spec

-----------------------------------------------------------------------------
(***************************************************************************)
(* Results: the index an entry is cached under is its place among the      *)
(* calls of its kind.                                                      *)
(***************************************************************************)
\* Entry e was the (i + 1)-th of kind k that calls added.
Recorded(k, i, e) == i < Len(accepted[k]) /\ accepted[k][i + 1] = e

\* While the generator reads, it numbers what it has taken; only a stream that
\* leaves at once starts again from nothing.
Numbered ==
  /\ rx = "reconnecting" => isShuttingDown
  /\ rx # "failed" /\ Undisturbed =>
       /\ (rx = "connecting" \/ pc = "waitStarted") /\ ~isShuttingDown =>
            \A k \in Kinds : sent[k] = <<>> /\ req[k] = <<>>
       /\ pc \in {"pull", "window"} \/ (pc = "top" /\ ~isShuttingDown) =>
            \A k \in Kinds : index[k] = Len(sent[k]) + Len(req[k])

CachedRight(key) ==
  LET c == cache[key]
  IN  c # NotCached =>
        c.entry \in Entries /\ KeyOf[c.entry] = key /\ Recorded(KindOf[c.entry], c.index, c.entry)

ResultsInv ==
  /\ Numbered
  /\ Undisturbed => \A key \in Keys : CachedRight(key)
  /\ ResultsMatchCalls

LEMMA InitResultsInv == Init => ResultsInv
<1> SUFFICES ASSUME Init PROVE ResultsInv
  OBVIOUS
<1>1. /\ \A k \in Kinds : sent[k] = <<>> /\ req[k] = <<>>
      /\ \A key \in Keys : cache[key] = NotCached
      /\ rx = "connecting" /\ pc = "closed"
      /\ \A k \in Kinds, i \in Indices : successes[k][i] = NoKey /\ errors[k][i] = NoEntry
  BY DEF Init, EmptyReq
<1> QED BY <1>1 DEF ResultsInv, Numbered, CachedRight, ResultsMatchCalls

LEMMA NextNumbered ==
  TypeOK /\ HandHeld /\ StreamInv /\ Numbered /\ [Next]_vars => Numbered'
<1> SUFFICES ASSUME TypeOK, HandHeld, StreamInv, Numbered, [Next]_vars PROVE Numbered'
  OBVIOUS
<1> USE DEF appVars, flagVars, resultVars, genVars, rxVars, srvVars
<1>0. /\ Budgeted /\ Phases /\ Leftover /\ FlagsFounded
      /\ req \in Requests /\ sent \in Requests /\ index \in [Kinds -> Nat]
      /\ \A k \in Kinds : sent[k] \in Seq(Entries) /\ req[k] \in Seq(Entries)
  BY TakenType DEF StreamInv, TypeOK
<1>1. rx' # "failed" /\ Undisturbed' =>
        /\ rx # "failed" /\ Undisturbed /\ ~isOom /\ ~isRenewingStream
        /\ ~RecvOutOfMemory /\ ~RenewStream
  <2>1. ASSUME Undisturbed' PROVE ~RecvOutOfMemory /\ ~RenewStream
    BY <1>0, <2>1, SpendSpends DEF RecvOutOfMemory, RenewStream, Events, Undisturbed
  <2> QED BY <1>0, <2>1, FailedForGood, UndisturbedBefore DEF FlagsFounded, Undisturbed
<1>2. rx' = "reconnecting" => isShuttingDown'
  <2>1. Generator => rx' \in {rx, "failed"} /\ isShuttingDown' = isShuttingDown
    BY DEF Generator, Begin, LeaveOnShutdown, RenewStream, PauseOnOom, LeaveOnOom, Wait,
           PullNothing, Finish, PullEntry, YieldAndPack
  <2>2. ASSUME Receiver PROVE rx' # "reconnecting" \/ isShuttingDown'
    <3>1. CASE RecvEnd \/ RecvShuttingDown
      BY <3>1 DEF RecvEnd, RecvShuttingDown
    <3>2. CASE ~RecvEnd /\ ~RecvShuttingDown
      <4>1. isShuttingDown' = isShuttingDown
        BY <2>2, <3>2 DEF Receiver, Connect, RecvStarted, RecvAcks, RecvBackoff,
             RecvOutOfMemory, Reconnect, ReconnectFails, RecvError, RecvResult
      <4>2. rx' = "reconnecting" => rx = "reconnecting"
        BY <2>2, <3>2 DEF Receiver, Connect, RecvStarted, RecvAcks, RecvBackoff,
             RecvOutOfMemory, Reconnect, ReconnectFails, RecvError, RecvResult
      <4> QED BY <4>1, <4>2 DEF Numbered
    <3> QED BY <3>1, <3>2
  <2>3. (\E e \in Entries : Add(e) \/ AddResumes(e)) => UNCHANGED <<rx, isShuttingDown>>
    BY DEF Add, AddResumes
  <2>4. Stop \/ StopReturns \/ UNCHANGED vars => UNCHANGED <<rx, isShuttingDown>>
    BY DEF Stop, StopReturns, vars
  <2> QED BY <2>1, <2>2, <2>3, <2>4 DEF Numbered, Next, Terminated, Poll
<1> SUFFICES ASSUME rx' # "failed", Undisturbed'
             PROVE  /\ (rx' = "connecting" \/ pc' = "waitStarted") /\ ~isShuttingDown' =>
                         \A k \in Kinds : sent'[k] = <<>> /\ req'[k] = <<>>
                    /\ pc' \in {"pull", "window"} \/ (pc' = "top" /\ ~isShuttingDown') =>
                         \A k \in Kinds : index'[k] = Len(sent'[k]) + Len(req'[k])
  BY <1>2 DEF Numbered
<1>3. ASSUME UNCHANGED <<sent, req, index, isShuttingDown>>,
             (rx' = "connecting" \/ pc' = "waitStarted") /\ ~isShuttingDown'
               => rx = "connecting" \/ pc = "waitStarted",
             pc' = "window" => pc = "window",
             pc' = "pull" => pc = "pull" \/ (pc = "top" /\ ~isShuttingDown),
             pc' = "top" => pc \in {"pull", "top"}
      PROVE  Numbered'
  BY <1>1, <1>2, <1>3 DEF Numbered
<1>4. ASSUME Begin PROVE Numbered'
  <2>1. /\ sent' = sent /\ req' = pending /\ req' = req /\ isShuttingDown' = isShuttingDown /\ pc' = "top"
        /\ rx' = "open" /\ pc = "waitStarted" /\ \A k \in Kinds : index'[k] = 0
    BY <1>0, <1>1, <1>4 DEF Begin, Phases, Leftover, Undisturbed
  <2>2. ~isShuttingDown => \A k \in Kinds : sent[k] = <<>> /\ req[k] = <<>>
    BY <1>1, <2>1 DEF Numbered
  <2>3. ASSUME ~isShuttingDown, NEW k \in Kinds
        PROVE  index'[k] = Len(sent'[k]) + Len(req'[k])
    <3>1. sent'[k] = <<>> /\ req'[k] = <<>> /\ index'[k] = 0
      BY <2>1, <2>2, <2>3
    <3> QED BY <3>1
  <2> QED BY <1>2, <2>1, <2>3 DEF Numbered
<1>5. ASSUME LeaveOnShutdown \/ Finish PROVE Numbered'
  <2>1. pc' = "closed" /\ rx' = rx /\ rx = "open"
    BY <1>0, <1>1, <1>5 DEF LeaveOnShutdown, Finish, Phases
  <2> QED BY <1>2, <2>1 DEF Numbered
<1>6. ASSUME PauseOnOom \/ LeaveOnOom PROVE FALSE
  BY <1>0, <1>1, <1>6 DEF PauseOnOom, LeaveOnOom, FlagsFounded, Undisturbed
<1>7. ASSUME Wait \/ PullNothing PROVE Numbered'
  BY <1>3, <1>7 DEF Wait, PullNothing
<1>8. ASSUME PullEntry PROVE Numbered'
  <2> DEFINE e == Head(queue)
  <2>1. e \in Entries /\ KindOf[e] \in Kinds
    BY <1>8, HeadTailProperties, KindType DEF PullEntry, TypeOK
  <2>2. /\ UNCHANGED <<sent, isShuttingDown>> /\ rx' = "open" /\ pc = "pull"
        /\ \/ UNCHANGED <<req, index>> /\ pc' = "window"
           \/ /\ req' = WithEntry(req, e) /\ pc' = "top"
              /\ index' = [index EXCEPT ![KindOf[e]] = @ + 1]
    BY <1>0, <1>1, <1>8 DEF PullEntry, Pack, Phases
  <2>3. \A k \in Kinds : index[k] = Len(sent[k]) + Len(req[k])
    BY <1>1, <2>2 DEF Numbered
  <2>4. CASE UNCHANGED <<req, index>> /\ pc' = "window"
    BY <1>2, <2>2, <2>3, <2>4 DEF Numbered
  <2>5. CASE /\ req' = WithEntry(req, e) /\ pc' = "top"
             /\ index' = [index EXCEPT ![KindOf[e]] = @ + 1]
    <3>1. ASSUME NEW k \in Kinds PROVE index'[k] = Len(sent'[k]) + Len(req'[k])
      <4>1. req'[k] = IF KindOf[e] = k THEN Append(req[k], e) ELSE req[k]
        BY <1>0, <2>1, <2>5 DEF WithEntry, Requests
      <4>2. Len(Append(req[k], e)) = Len(req[k]) + 1 /\ Len(sent[k]) \in Nat /\ Len(req[k]) \in Nat
        BY <1>0, <2>1, AppendProperties, LenProperties
      <4>3. index'[k] = IF KindOf[e] = k THEN index[k] + 1 ELSE index[k]
        BY <1>0, <2>1, <2>5
      <4>4. index[k] = Len(sent[k]) + Len(req[k]) /\ sent'[k] = sent[k]
        BY <2>2, <2>3
      <4>5. CASE KindOf[e] = k
        <5>1. Len(req'[k]) = Len(req[k]) + 1 /\ index'[k] = index[k] + 1
          BY <4>1, <4>2, <4>3, <4>5
        <5>2. \A x, y \in Nat : (x + y) + 1 = x + (y + 1)
          OBVIOUS
        <5> QED BY <4>2, <4>4, <5>1, <5>2, Zenon
      <4>6. CASE KindOf[e] # k
        BY <4>1, <4>3, <4>4, <4>6
      <4> QED BY <4>5, <4>6
    <3> QED BY <1>2, <2>2, <2>5, <3>1 DEF Numbered
  <2> QED BY <2>2, <2>4, <2>5
<1>9. ASSUME YieldAndPack PROVE Numbered'
  <2>1. /\ hand \in Entries /\ KindOf[hand] \in Kinds
        /\ \A k \in Kinds : sent'[k] = sent[k] \o req[k]
        /\ req' = WithEntry(EmptyReq, hand) /\ pc' = "top" /\ pc = "window"
        /\ index' = [index EXCEPT ![KindOf[hand]] = @ + 1] /\ rx' = rx /\ rx = "open"
    BY <1>0, <1>1, <1>9, KindType DEF YieldAndPack, HandHeld, Send, Pack, AfterYield, Phases
  <2>2. ASSUME NEW k \in Kinds PROVE index'[k] = Len(sent'[k]) + Len(req'[k])
    <3>1. Len(sent'[k]) = Len(sent[k]) + Len(req[k])
          /\ Len(sent[k]) \in Nat /\ Len(req[k]) \in Nat
      BY <1>0, <2>1, ConcatProperties, LenProperties
    <3>2. Len(req'[k]) = OneIf(KindOf[hand] = k)
      <4>1. CASE KindOf[hand] = k
        BY <2>1, <4>1 DEF WithEntry, EmptyReq, OneIf
      <4>2. CASE KindOf[hand] # k
        BY <2>1, <4>2 DEF WithEntry, EmptyReq, OneIf
      <4> QED BY <4>1, <4>2
    <3>3. index[k] = Len(sent[k]) + Len(req[k])
      BY <1>1, <2>1 DEF Numbered
    <3>4. index'[k] = IF KindOf[hand] = k THEN index[k] + 1 ELSE index[k]
      BY <1>0, <2>1
    <3>5. CASE KindOf[hand] = k
      BY <3>1, <3>2, <3>3, <3>4, <3>5 DEF OneIf
    <3>6. CASE KindOf[hand] # k
      BY <3>1, <3>2, <3>3, <3>4, <3>6 DEF OneIf
    <3> QED BY <3>5, <3>6
  <2> QED BY <1>2, <2>1, <2>2 DEF Numbered
<1>10. ASSUME Generator PROVE Numbered'
  BY <1>1, <1>4, <1>5, <1>6, <1>7, <1>8, <1>9, <1>10 DEF Generator
<1>11. ASSUME RecvEnd \/ Reconnect \/ Connect PROVE Numbered'
  <2>1. rx' = "connecting" \/ pc' = "waitStarted" => rx = "connecting" \/ isShuttingDown
    BY <1>0, <1>1, <1>11 DEF RecvEnd, Reconnect, Connect, Numbered, Phases
  <2>2. UNCHANGED <<sent, req, index, isShuttingDown>> /\ (pc' = pc \/ pc' = "waitStarted")
    BY <1>11 DEF RecvEnd, Reconnect, Connect
  <2>3. pc = "waitStarted" \/ pc = "closed"
    BY <1>0, <1>1, <1>11 DEF RecvEnd, Reconnect, Connect, Phases
  <2> QED BY <1>3, <2>1, <2>2, <2>3
<1>12. ASSUME RecvShuttingDown PROVE Numbered'
  BY <1>1, <1>2, <1>12 DEF RecvShuttingDown, Numbered
<1>13. ASSUME Receiver PROVE Numbered'
  <2>1. ASSUME ~RecvEnd, ~Reconnect, ~Connect, ~RecvShuttingDown
        PROVE  UNCHANGED <<sent, req, index, isShuttingDown, pc>> /\ rx' \in {rx, "failed"}
    BY <1>1, <1>13, <2>1 DEF Receiver, RecvStarted, RecvAcks, RecvBackoff, ReconnectFails,
              RecvError, RecvResult
  <2> QED BY <1>3, <1>11, <1>12, <2>1
<1>14. ASSUME NEW e \in Entries, Add(e) \/ AddResumes(e) PROVE Numbered'
  BY <1>3, <1>14 DEF Add, AddResumes
<1>15. ASSUME Stop \/ StopReturns \/ UNCHANGED vars PROVE Numbered'
  BY <1>3, <1>15 DEF Stop, StopReturns, vars
<1>16. Numbered'
  BY <1>10, <1>13, <1>14, <1>15 DEF Next, Terminated, Poll
<1> QED BY <1>16 DEF Numbered

\* The entry at the head of the queue is the next of its kind.
LEMMA FlowsHead ==
  ASSUME NEW a \in Seq(Entries), NEW t \in Seq(Entries), NEW q \in Seq(Entries),
         q # <<>>, Flows(a, t, q, KindOf[Head(q)])
  PROVE  Len(t) < Len(a) /\ a[Len(t) + 1] = Head(q)
<1> DEFINE e == Head(q)
           u == Append(t, e)
           n == CountOf(Tail(q), Len(Tail(q)), KindOf[e])
<1>1. e \in Entries /\ Tail(q) \in Seq(Entries)
  BY HeadTailProperties
<1>2. Flows(a, u, Tail(q), KindOf[e])
  BY FlowsPull
<1>3. u \in Seq(Entries) /\ Len(u) = Len(t) + 1 /\ u[Len(t) + 1] = e /\ Len(t) + 1 \in DOMAIN u
  BY <1>1, AppendProperties
<1>4. n \in Nat
  BY <1>1, CountType, LenProperties
<1> HIDE DEF u, n
<1>5. Len(a) = Len(t) + 1 + n
  BY <1>2, <1>3 DEF Flows, n
<1>6. a[Len(t) + 1] = e
  BY <1>2, <1>3 DEF Flows
<1> QED BY <1>4, <1>5, <1>6

\* What was recorded stays recorded: calls only append.
LEMMA CallsAppend ==
  ASSUME TypeOK, [Next]_vars
  PROVE  UNCHANGED accepted \/ \E e \in Entries : Push(e)
<1> USE DEF appVars, flagVars, resultVars, genVars, rxVars, srvVars
<1>1. (\E e \in Entries : Add(e) \/ AddResumes(e)) => UNCHANGED accepted \/ \E e \in Entries : Push(e)
  BY DEF Add, AddResumes
<1>2. Generator => UNCHANGED accepted
  BY DEF Generator, Begin, LeaveOnShutdown, RenewStream, PauseOnOom, LeaveOnOom, Wait,
         PullNothing, Finish, PullEntry, YieldAndPack
<1>3. Receiver => UNCHANGED accepted
  BY DEF Receiver, Connect, RecvStarted, RecvAcks, RecvBackoff, RecvOutOfMemory,
         RecvShuttingDown, RecvEnd, Reconnect, ReconnectFails, RecvError, RecvResult
<1>4. Stop \/ StopReturns \/ UNCHANGED vars => UNCHANGED accepted
  BY DEF Stop, StopReturns, vars
<1> QED BY <1>1, <1>2, <1>3, <1>4 DEF Next, Terminated, Poll

LEMMA RecordedKept ==
  ASSUME TypeOK, [Next]_vars, NEW k \in Kinds, NEW i \in Nat, i < Len(accepted[k])
  PROVE  i < Len(accepted'[k]) /\ accepted'[k][i + 1] = accepted[k][i + 1]
<1>1. accepted[k] \in Seq(Entries) /\ accepted \in Requests
  BY TakenType DEF TypeOK
<1>2. CASE UNCHANGED accepted
  BY <1>2
<1>3. ASSUME NEW e \in Entries, Push(e)
      PROVE  i < Len(accepted'[k]) /\ accepted'[k][i + 1] = accepted[k][i + 1]
  <2>1. accepted'[k] = IF KindOf[e] = k THEN Append(accepted[k], e) ELSE accepted[k]
    BY <1>1, <1>3 DEF Push, Requests
  <2>2. /\ Len(Append(accepted[k], e)) = Len(accepted[k]) + 1
        /\ Append(accepted[k], e)[i + 1] = accepted[k][i + 1]
    BY <1>1, AppendProperties
  <2>3. Len(accepted[k]) \in Nat
    BY <1>1, LenProperties
  <2> QED BY <2>1, <2>2, <2>3
<1> QED BY <1>2, <1>3, CallsAppend

\* The entry pulled is the next of its kind, and is numbered so.
LEMMA PulledIsNext ==
  ASSUME TypeOK, StreamInv, Pipeline, Numbered, PullEntry, Undisturbed
  PROVE  LET e == Head(queue)
             k == KindOf[e]
         IN  /\ e \in Entries /\ k \in Kinds /\ KeyOf[e] \in Keys
             /\ accepted' = accepted
             /\ cache' = [cache EXCEPT ![KeyOf[e]] = [entry |-> e, index |-> Len(Taken(k))]]
             /\ Len(Taken(k)) < Len(accepted[k]) /\ accepted[k][Len(Taken(k)) + 1] = e
<1> DEFINE e == Head(queue)
           k == KindOf[e]
<1>1. /\ queue # <<>> /\ pc = "pull" /\ queue \in Seq(Entries)
      /\ e \in Entries /\ k \in Kinds /\ KeyOf[e] \in Keys
      /\ accepted' = accepted
      /\ cache' = [cache EXCEPT ![KeyOf[e]] = [entry |-> e, index |-> index[k]]]
  BY HeadTailProperties, KindType DEF PullEntry, TypeOK, IndexOf, Keys
<1>2. rx # "failed" /\ hand = NoEntry
  BY <1>1 DEF StreamInv, Phases
<1>3. index[k] = Len(Taken(k))
  <2>1. index[k] = Len(sent[k]) + Len(req[k])
    BY <1>1, <1>2 DEF Numbered
  <2>2. HandOf(k) = <<>>
    BY <1>2 DEF HandOf
  <2>3. Len(sent[k]) \in Nat /\ Len(req[k]) \in Nat
    BY <1>1, TakenType, LenProperties
  <2>4. Len(Taken(k)) = Len(sent[k]) + Len(req[k]) + Len(HandOf(k))
    BY <1>1, TakenType
  <2> HIDE DEF k
  <2> QED BY <2>1, <2>2, <2>3, <2>4
<1>4. Len(Taken(k)) < Len(accepted[k]) /\ accepted[k][Len(Taken(k)) + 1] = e
  <2>1. Flows(accepted[k], Taken(k), queue, k)
    BY <1>1, <1>2, PipelineFlows
  <2>2. accepted[k] \in Seq(Entries) /\ Taken(k) \in Seq(Entries)
    BY <1>1, TakenType
  <2> QED BY <1>1, <2>1, <2>2, FlowsHead
<1> QED BY <1>1, <1>3, <1>4

LEMMA NextCachedRight ==
  ASSUME TypeOK, HandHeld, StreamInv, Pipeline, ResultsInv, [Next]_vars, Undisturbed',
         NEW key \in Keys
  PROVE  CachedRight(key)'
<1> USE DEF appVars, flagVars, resultVars, genVars, rxVars, srvVars
<1>0. /\ Undisturbed /\ CachedRight(key) /\ Budgeted /\ Phases /\ Numbered
      /\ cache \in [Keys -> [entry : Entries \cup {NoEntry}, index : Nat]]
  BY UndisturbedBefore DEF StreamInv, ResultsInv, TypeOK
<1>1. ASSUME cache'[key] \in {cache[key], NotCached} PROVE CachedRight(key)'
  <2> DEFINE c == cache[key]
  <2>1. CASE cache'[key] = NotCached
    BY <2>1 DEF CachedRight
  <2>2. CASE cache'[key] = cache[key] /\ c # NotCached
    <3>1. /\ c.entry \in Entries /\ KeyOf[c.entry] = key /\ c.index \in Nat
          /\ c.index < Len(accepted[KindOf[c.entry]])
          /\ accepted[KindOf[c.entry]][c.index + 1] = c.entry
      BY <1>0, <2>2 DEF CachedRight, Recorded
    <3>2. Recorded(KindOf[c.entry], c.index, c.entry)'
      BY <2>2, <3>1, KindType, RecordedKept DEF Recorded
    <3> QED BY <2>2, <3>1, <3>2 DEF CachedRight
  <2> QED BY <1>1, <2>1, <2>2
<1>2. ASSUME PullEntry PROVE CachedRight(key)'
  <2> DEFINE e == Head(queue)
             k == KindOf[e]
  <2>1. /\ e \in Entries /\ k \in Kinds /\ KeyOf[e] \in Keys
        /\ accepted' = accepted
        /\ cache' = [cache EXCEPT ![KeyOf[e]] = [entry |-> e, index |-> Len(Taken(k))]]
        /\ Len(Taken(k)) < Len(accepted[k]) /\ accepted[k][Len(Taken(k)) + 1] = e
    BY <1>0, <1>2, PulledIsNext
  <2>2. CASE key = KeyOf[e]
    <3>1. cache'[key] = [entry |-> e, index |-> Len(Taken(k))]
      BY <1>0, <2>1, <2>2
    <3> QED BY <2>1, <2>2, <3>1 DEF CachedRight, Recorded
  <2>3. CASE key # KeyOf[e]
    BY <1>0, <1>1, <2>1, <2>3
  <2> QED BY <2>2, <2>3
<1>3. ASSUME NEW e \in Entries, RecvResult(e) PROVE CachedRight(key)'
  BY <1>0, <1>1, <1>3 DEF RecvResult
<1>4. Generator /\ ~PullEntry => UNCHANGED cache
  BY DEF Generator, Begin, LeaveOnShutdown, RenewStream, PauseOnOom, LeaveOnOom, Wait,
         PullNothing, Finish, YieldAndPack
<1>5. Receiver /\ ~(\E e \in Entries : RecvResult(e)) => UNCHANGED cache
  BY DEF Receiver, Connect, RecvStarted, RecvAcks, RecvBackoff, RecvOutOfMemory,
         RecvShuttingDown, RecvEnd, Reconnect, ReconnectFails, RecvError
<1>6. Stop \/ StopReturns \/ UNCHANGED vars => UNCHANGED cache
  BY DEF Stop, StopReturns, vars
<1>7. (\E e \in Entries : Add(e) \/ AddResumes(e)) => UNCHANGED cache
  BY DEF Add, AddResumes
<1> QED BY <1>1, <1>2, <1>3, <1>4, <1>5, <1>6, <1>7 DEF Next, Terminated, Poll

LEMMA NextResultsMatch ==
  ASSUME TypeOK, HandHeld, StreamInv, Pipeline, ResultsInv, [Next]_vars
  PROVE  ResultsMatchCalls'
<1> USE DEF appVars, flagVars, resultVars, genVars, rxVars, srvVars
<1> SUFFICES ASSUME Undisturbed', NEW k \in Kinds, NEW i \in Indices
             PROVE  /\ successes'[k][i] # NoKey =>
                         i < Len(accepted'[k]) /\ successes'[k][i] = KeyOf[accepted'[k][i + 1]]
                    /\ errors'[k][i] # NoEntry =>
                         i < Len(accepted'[k]) /\ errors'[k][i] = accepted'[k][i + 1]
  BY DEF ResultsMatchCalls
<1> DEFINE GoodKey(key) ==
             key # NoKey => i < Len(accepted'[k]) /\ key = KeyOf[accepted'[k][i + 1]]
           GoodEntry(e) ==
             e # NoEntry => i < Len(accepted'[k]) /\ e = accepted'[k][i + 1]
<1>0. /\ Undisturbed /\ i \in Nat
      /\ successes[k][i] # NoKey =>
           i < Len(accepted[k]) /\ successes[k][i] = KeyOf[accepted[k][i + 1]]
      /\ errors[k][i] # NoEntry =>
           i < Len(accepted[k]) /\ errors[k][i] = accepted[k][i + 1]
  BY UndisturbedBefore DEF StreamInv, ResultsInv, ResultsMatchCalls, Indices
<1>1. GoodKey(successes[k][i]) /\ GoodEntry(errors[k][i])
  BY <1>0, RecordedKept
<1>2. UNCHANGED <<successes, errors>> \/ \E e \in Entries : RecvResult(e)
  <2>1. Generator => UNCHANGED <<successes, errors>>
    BY DEF Generator, Begin, LeaveOnShutdown, RenewStream, PauseOnOom, LeaveOnOom, Wait,
           PullNothing, Finish, PullEntry, YieldAndPack
  <2>2. Receiver /\ ~(\E e \in Entries : RecvResult(e)) => UNCHANGED <<successes, errors>>
    BY DEF Receiver, Connect, RecvStarted, RecvAcks, RecvBackoff, RecvOutOfMemory,
           RecvShuttingDown, RecvEnd, Reconnect, ReconnectFails, RecvError
  <2>3. Stop \/ StopReturns \/ UNCHANGED vars => UNCHANGED <<successes, errors>>
    BY DEF Stop, StopReturns, vars
  <2>4. (\E e \in Entries : Add(e) \/ AddResumes(e)) => UNCHANGED <<successes, errors>>
    BY DEF Add, AddResumes
  <2> QED BY <2>1, <2>2, <2>3, <2>4 DEF Next, Terminated, Poll
<1>3. ASSUME NEW e \in Entries, RecvResult(e)
      PROVE  GoodKey(successes'[k][i]) /\ GoodEntry(errors'[k][i])
  <2> DEFINE key == KeyOf[e]
             c == cache[key]
             h == KindOf[e]
  <2>1. /\ key \in Keys /\ h \in Kinds /\ c.index \in Nat
        /\ successes \in [Kinds -> [Indices -> Keys \cup {NoKey}]]
        /\ errors \in [Kinds -> [Indices -> Entries \cup {NoEntry}]]
    BY KindType DEF TypeOK, Keys
  <2>2. CASE c = NotCached
    BY <1>1, <1>3, <2>2 DEF RecvResult
  <2>3. CASE c # NotCached
    <3>1. /\ c.entry \in Entries /\ KeyOf[c.entry] = key /\ KindOf[c.entry] = h
          /\ c.index < Len(accepted[h]) /\ accepted[h][c.index + 1] = c.entry
      BY <1>0, <2>1, <2>3, KeysAssumption DEF ResultsInv, CachedRight, Recorded
    <3>2. c.index < Len(accepted'[h]) /\ accepted'[h][c.index + 1] = c.entry
      BY <2>1, <3>1, RecordedKept
    <3>3. \/ errors' = [errors EXCEPT ![h][c.index] = c.entry] /\ UNCHANGED successes
          \/ successes' = [successes EXCEPT ![h][c.index] = key] /\ UNCHANGED errors
      BY <1>3, <2>3 DEF RecvResult
    <3>4. CASE k = h /\ i = c.index
      <4>1. GoodKey(key) /\ GoodEntry(c.entry)
        BY <3>1, <3>2, <3>4
      <4>2. successes'[k][i] \in {key, successes[k][i]} /\ errors'[k][i] \in {c.entry, errors[k][i]}
        BY <2>1, <3>3, <3>4
      <4> QED BY <1>1, <4>1, <4>2
    <3>5. CASE ~(k = h /\ i = c.index)
      <4>1. successes'[k][i] = successes[k][i] /\ errors'[k][i] = errors[k][i]
        BY <2>1, <3>3, <3>5
      <4> QED BY <1>1, <4>1
    <3> QED BY <3>4, <3>5
  <2> QED BY <2>2, <2>3
<1>4. GoodKey(successes'[k][i]) /\ GoodEntry(errors'[k][i])
  BY <1>1, <1>2, <1>3
<1> QED BY <1>4

LEMMA ResultsInvariance == Spec => []ResultsInv
<1>1. IInv /\ StreamInv /\ Pipeline /\ ResultsInv /\ [Next]_vars => ResultsInv'
  BY NextNumbered, NextCachedRight, NextResultsMatch DEF IInv, ResultsInv
<1> QED BY <1>1, InitResultsInv, Invariance, StreamInvariance, PipelineFlowsInOrder, PTL DEF Spec

\* A result is recorded under the place of its call among the calls of its
\* kind, undisturbed, for every interleaving.
THEOREM ResultsUnderTheirCalls == Spec => []ResultsMatchCalls
<1>1. ResultsInv => ResultsMatchCalls
  BY DEF ResultsInv
<1> QED BY <1>1, ResultsInvariance, PTL

-----------------------------------------------------------------------------
(***************************************************************************)
(* A stream that ends well: every entry taken is answered under its place, *)
(* or cached under it; every entry cached is on its way to an answer.      *)
(***************************************************************************)
\* The calls add each entry once, with its kind.
CallsDistinct ==
  \A k \in Kinds :
    /\ \A i \in DOMAIN accepted[k] : KindOf[accepted[k][i]] = k /\ call[accepted[k][i]] = "added"
    /\ \A i, j \in DOMAIN accepted[k] : accepted[k][i] = accepted[k][j] => i = j
    /\ acceptedAtStop[k] <= Len(accepted[k])

Answered(k, p) ==
  successes[k][p - 1] = KeyOf[accepted[k][p]] \/ errors[k][p - 1] = accepted[k][p]

WithServer == unreported \cup UNION {InReq(unacked[i]) : i \in DOMAIN unacked}

Tracked ==
  rx # "failed" /\ Undisturbed /\ DistinctKeys =>
    \A k \in Kinds :
      /\ \A p \in 1 .. Len(Taken(k)) :
           \/ Answered(k, p)
           \/ cache[KeyOf[accepted[k][p]]] = [entry |-> accepted[k][p], index |-> p - 1]
      /\ \A p \in 1 .. Len(sent[k]) : Answered(k, p) \/ accepted[k][p] \in WithServer

NothingStray ==
  rx # "failed" /\ Undisturbed =>
    \A key \in Keys : cache[key] # NotCached =>
      cache[key].entry \in InReq(req) \cup EntriesOf(InHand) \cup WithServer

\* The generator has closed a stream whose server is not shutting down because
\* stop was called and nothing was queued.
Closing ==
  Undisturbed /\ ~isShuttingDown /\ (rx = "ended" \/ (rx = "open" /\ pc = "closed")) =>
    /\ stopping # "no" /\ req = EmptyReq
    /\ \A k \in Kinds : acceptedAtStop[k] <= Len(sent[k])

Quiet == rx = "ended" => unacked = <<>> /\ unreported = {} /\ ~isShuttingDown

EndInv == CallsDistinct /\ Tracked /\ NothingStray /\ Closing /\ Quiet

LEMMA NextCallsDistinct == TypeOK /\ CallsDistinct /\ [Next]_vars => CallsDistinct'
<1> SUFFICES ASSUME TypeOK, CallsDistinct, [Next]_vars PROVE CallsDistinct'
  OBVIOUS
<1> USE DEF appVars, flagVars, resultVars, genVars, rxVars, srvVars
<1>0. /\ accepted \in Requests /\ \A k \in Kinds : accepted[k] \in Seq(Entries)
      /\ \A k \in Kinds : Len(accepted[k]) \in Nat /\ acceptedAtStop[k] \in Nat
      /\ call \in [Entries -> {"idle", "waiting", "added", "rejected"}]
  BY TakenType, LenProperties DEF TypeOK
<1>1. ASSUME UNCHANGED <<accepted, acceptedAtStop>>,
             \A e \in Entries : call[e] = "added" => call'[e] = "added"
      PROVE  CallsDistinct'
  BY <1>0, <1>1 DEF CallsDistinct
<1>2. ASSUME NEW e \in Entries, Push(e), call[e] # "added", call' = [call EXCEPT ![e] = "added"],
             UNCHANGED acceptedAtStop
      PROVE  CallsDistinct'
  <2> SUFFICES ASSUME NEW k \in Kinds
               PROVE  /\ \A i \in DOMAIN accepted'[k] :
                           KindOf[accepted'[k][i]] = k /\ call'[accepted'[k][i]] = "added"
                      /\ \A i, j \in DOMAIN accepted'[k] :
                           accepted'[k][i] = accepted'[k][j] => i = j
                      /\ acceptedAtStop'[k] <= Len(accepted'[k])
    BY DEF CallsDistinct
  <2> DEFINE a == accepted[k]
             b == Append(a, e)
  <2>1. /\ a \in Seq(Entries) /\ Len(a) \in Nat /\ acceptedAtStop[k] <= Len(a)
        /\ \A i \in DOMAIN a : KindOf[a[i]] = k /\ call[a[i]] = "added"
        /\ \A i, j \in DOMAIN a : a[i] = a[j] => i = j
    BY <1>0 DEF CallsDistinct
  <2>2. accepted'[k] = IF KindOf[e] = k THEN b ELSE a
    BY <1>0, <1>2 DEF Push, Requests
  <2>3. /\ Len(b) = Len(a) + 1 /\ DOMAIN b = 1 .. Len(a) + 1 /\ DOMAIN a = 1 .. Len(a)
        /\ b[Len(a) + 1] = e /\ \A i \in 1 .. Len(a) : b[i] = a[i]
    BY <2>1, AppendProperties
  <2>4. \A f \in Entries : call[f] = "added" => call'[f] = "added" /\ f # e
    BY <1>0, <1>2
  <2>5. call'[e] = "added" /\ acceptedAtStop[k] \in Nat
    BY <1>0, <1>2
  <2>6. \A i \in 1 .. Len(a) : a[i] \in Entries /\ call'[a[i]] = "added" /\ a[i] # e
    BY <2>1, <2>4
  <2> HIDE DEF a, b
  <2>7. CASE KindOf[e] = k
    <3>1. /\ \A i \in DOMAIN b : KindOf[b[i]] = k /\ call'[b[i]] = "added"
          /\ \A i, j \in DOMAIN b : b[i] = b[j] => i = j
      BY <2>1, <2>3, <2>5, <2>6, <2>7
    <3>2. acceptedAtStop[k] <= Len(b)
      BY <2>1, <2>3, <2>5
    <3> QED BY <1>2, <2>2, <2>7, <3>1, <3>2
  <2>8. CASE KindOf[e] # k
    BY <1>2, <2>1, <2>2, <2>3, <2>6, <2>8
  <2> QED BY <2>7, <2>8
<1>3. ASSUME NEW e \in Entries, Add(e) PROVE CallsDistinct'
  <2>1. UNCHANGED acceptedAtStop /\ call[e] = "idle"
    BY <1>3 DEF Add
  <2>2. \/ call' = [call EXCEPT ![e] = "added"] /\ Push(e)
        \/ UNCHANGED accepted /\ call' \in {[call EXCEPT ![e] = "rejected"], [call EXCEPT ![e] = "waiting"]}
    BY <1>3 DEF Add
  <2>3. CASE call' = [call EXCEPT ![e] = "added"] /\ Push(e)
    BY <1>2, <2>1, <2>3
  <2>4. CASE UNCHANGED accepted /\ call' \in {[call EXCEPT ![e] = "rejected"], [call EXCEPT ![e] = "waiting"]}
    <3>1. \A f \in Entries : call[f] = "added" => call'[f] = "added"
      BY <1>0, <2>1, <2>4
    <3> QED BY <1>1, <2>1, <2>4, <3>1
  <2> QED BY <2>2, <2>3, <2>4
<1>4. ASSUME NEW e \in Entries, AddResumes(e) PROVE CallsDistinct'
  BY <1>2, <1>4 DEF AddResumes
<1>5. ASSUME Stop PROVE CallsDistinct'
  <2>1. \A k \in Kinds : acceptedAtStop'[k] = Len(accepted[k]) /\ accepted' = accepted /\ call' = call
    BY <1>5 DEF Stop
  <2> QED BY <1>0, <2>1 DEF CallsDistinct
<1>6. Generator => UNCHANGED <<accepted, acceptedAtStop, call>>
  BY DEF Generator, Begin, LeaveOnShutdown, RenewStream, PauseOnOom, LeaveOnOom, Wait,
         PullNothing, Finish, PullEntry, YieldAndPack
<1>7. Receiver => UNCHANGED <<accepted, acceptedAtStop, call>>
  BY DEF Receiver, Connect, RecvStarted, RecvAcks, RecvBackoff, RecvOutOfMemory,
         RecvShuttingDown, RecvEnd, Reconnect, ReconnectFails, RecvError, RecvResult
<1>8. StopReturns \/ UNCHANGED vars => UNCHANGED <<accepted, acceptedAtStop, call>>
  BY DEF StopReturns, vars
<1> QED BY <1>1, <1>3, <1>4, <1>5, <1>6, <1>7, <1>8 DEF Next, Terminated, Poll

LEMMA InitCallsDistinct == Init => CallsDistinct
<1> SUFFICES ASSUME Init, NEW k \in Kinds PROVE accepted[k] = <<>> /\ acceptedAtStop[k] = 0
  BY DEF CallsDistinct
<1> QED BY DEF Init

\* There are no more calls than entries.
LEMMA CallsBounded ==
  ASSUME TypeOK, CallsDistinct, NEW k \in Kinds
  PROVE  Len(accepted[k]) <= N
<1> DEFINE a == accepted[k]
<1>1. a \in Seq(Entries) /\ Len(a) \in Nat /\ \A i, j \in DOMAIN a : a[i] = a[j] => i = j
  BY TakenType, LenProperties DEF CallsDistinct
<1>2. a \in Injection(1 .. Len(a), Entries)
  BY <1>1 DEF Injection, IsInjective
<1>3. IsFiniteSet(Entries) /\ Cardinality(Entries) = N
  BY EntriesAssumption, CountingInterval DEF Entries
<1>4. IsFiniteSet(1 .. Len(a)) /\ Cardinality(1 .. Len(a)) = Len(a)
  BY <1>1, CountingInterval
<1>5. Cardinality(1 .. Len(a)) <= Cardinality(Entries)
  BY <1>2, <1>3, FS_Injection
<1> QED BY <1>3, <1>4, <1>5

LEMMA NextQuiet == TypeOK /\ Phases /\ Quiet /\ [Next]_vars => Quiet'
<1> SUFFICES ASSUME TypeOK, Phases, Quiet, [Next]_vars, rx' = "ended"
             PROVE  unacked' = <<>> /\ unreported' = {} /\ ~isShuttingDown'
  BY DEF Quiet
<1> USE DEF appVars, flagVars, resultVars, genVars, rxVars, srvVars
<1>1. ASSUME UNCHANGED <<rx, unacked, unreported, isShuttingDown>>
      PROVE  unacked' = <<>> /\ unreported' = {} /\ ~isShuttingDown'
  BY <1>1 DEF Quiet
<1>2. Generator => rx = "open" \/ rx = "failed"
  BY DEF Phases, Generator, Begin, LeaveOnShutdown, RenewStream, PauseOnOom, LeaveOnOom, Wait,
         PullNothing, Finish, PullEntry, YieldAndPack
<1>3. Generator => rx' \in {rx, "failed"}
  BY DEF Generator, Begin, LeaveOnShutdown, RenewStream, PauseOnOom, LeaveOnOom, Wait,
         PullNothing, Finish, PullEntry, YieldAndPack
<1>4. RecvEnd => unacked' = <<>> /\ unreported' = {} /\ ~isShuttingDown'
  BY DEF RecvEnd
<1>5. Receiver => RecvEnd
  BY DEF Receiver, Connect, RecvStarted, RecvAcks, RecvBackoff, RecvOutOfMemory,
         RecvShuttingDown, Reconnect, ReconnectFails, RecvError, RecvResult
<1>6. (\E e \in Entries : Add(e) \/ AddResumes(e))
        => UNCHANGED <<rx, unacked, unreported, isShuttingDown>>
  BY DEF Add, AddResumes
<1>7. Stop \/ StopReturns \/ UNCHANGED vars => UNCHANGED <<rx, unacked, unreported, isShuttingDown>>
  BY DEF Stop, StopReturns, vars
<1> QED BY <1>1, <1>2, <1>3, <1>4, <1>5, <1>6, <1>7 DEF Next, Terminated, Poll

LEMMA NextClosing ==
  TypeOK /\ StreamInv /\ Pipeline /\ CallsDistinct /\ Closing /\ [Next]_vars => Closing'
<1> SUFFICES ASSUME TypeOK, StreamInv, Pipeline, CallsDistinct, Closing, [Next]_vars,
                    Undisturbed', ~isShuttingDown', rx' = "ended" \/ (rx' = "open" /\ pc' = "closed")
             PROVE  /\ stopping' # "no" /\ req' = EmptyReq
                    /\ \A k \in Kinds : acceptedAtStop'[k] <= Len(sent'[k])
  BY DEF Closing
<1> USE DEF appVars, flagVars, resultVars, genVars, rxVars, srvVars
<1> DEFINE Closed == /\ stopping # "no" /\ req = EmptyReq
                     /\ \A k \in Kinds : acceptedAtStop[k] <= Len(sent[k])
           WasClosed == rx = "ended" \/ (rx = "open" /\ pc = "closed")
<1>0. /\ Budgeted /\ Phases /\ Undisturbed /\ ~isOom /\ pc # "oomSleep" /\ rx # "failed"
      /\ ~RecvOutOfMemory /\ ~RenewStream
  <2>1. Budgeted /\ Phases /\ FlagsFounded
    BY DEF StreamInv
  <2>2. ~RecvOutOfMemory /\ ~RenewStream
    BY <2>1, SpendSpends DEF RecvOutOfMemory, RenewStream, Events, Undisturbed
  <2>3. Undisturbed /\ rx # "failed"
    BY <2>1, UndisturbedBefore, FailedForGood
  <2> QED BY <2>1, <2>2, <2>3 DEF FlagsFounded, Undisturbed
<1>1. ~isShuttingDown /\ WasClosed => Closed
  BY <1>0 DEF Closing
<1>2. ASSUME Finish PROVE Closed'
  <2>1. stopping' # "no" /\ req' = EmptyReq /\ queue = <<>> /\ hand = NoEntry
        /\ acceptedAtStop' = acceptedAtStop
    BY <1>0, <1>2 DEF Finish, isStopped, Phases
  <2>2. ASSUME NEW k \in Kinds PROVE acceptedAtStop'[k] <= Len(sent'[k])
    <3>1. /\ sent[k] \in Seq(Entries) /\ req[k] \in Seq(Entries)
          /\ Len(Taken(k)) = Len(sent[k]) + Len(req[k]) + Len(HandOf(k))
          /\ Len(sent[k]) \in Nat /\ Len(req[k]) \in Nat
      BY TakenType, LenProperties
    <3>2. Len(accepted[k]) = Len(Taken(k)) + CountOf(queue, Len(queue), k)
      BY <1>0, PipelineFlows DEF Flows
    <3>3. CountOf(queue, Len(queue), k) = 0 /\ Len(HandOf(k)) = 0
      BY <2>1, CountNone DEF HandOf
    <3>4. Len(accepted[k]) = Len(sent[k]) + Len(req[k])
      BY <3>1, <3>2, <3>3
    <3>5. Len(sent'[k]) = Len(sent[k]) + Len(req[k])
      <4>1. CASE HasEntries(req)
        <5>1. sent'[k] = sent[k] \o req[k]
          BY <1>2, <4>1 DEF Finish, Send
        <5> QED BY <3>1, <5>1, ConcatProperties
      <4>2. CASE ~HasEntries(req)
        <5>1. sent'[k] = sent[k] /\ req[k] = <<>>
          BY <1>2, <4>2 DEF Finish, HasEntries, Kinds
        <5> QED BY <3>1, <5>1
      <4> QED BY <4>1, <4>2
    <3>6. acceptedAtStop[k] <= Len(accepted[k])
      BY DEF CallsDistinct
    <3> QED BY <2>1, <3>4, <3>5, <3>6
  <2> QED BY <2>1, <2>2
<1>3. ASSUME Generator, ~Finish PROVE FALSE
  <2>1. rx = "open" /\ pc # "closed"
    BY <1>0, <1>3 DEF Phases, Generator, Begin, LeaveOnShutdown, PauseOnOom, LeaveOnOom, Wait,
                      PullNothing, PullEntry, YieldAndPack
  <2>2. rx' # "open" \/ pc' # "closed"
    BY <1>0, <1>3 DEF Generator, Begin, LeaveOnShutdown, PauseOnOom, LeaveOnOom, Wait,
                      PullNothing, PullEntry, Pack, YieldAndPack
  <2>3. rx' \in {rx, "failed"}
    BY <1>3 DEF Generator, Begin, LeaveOnShutdown, RenewStream, PauseOnOom, LeaveOnOom, Wait,
                PullNothing, PullEntry, YieldAndPack
  <2> QED BY <2>1, <2>2, <2>3
<1>4. ASSUME UNCHANGED <<stopping, acceptedAtStop, req, sent>>, WasClosed, ~isShuttingDown PROVE Closed'
  BY <1>1, <1>4
<1>5. ASSUME Receiver PROVE Closed'
  <2>1. UNCHANGED <<stopping, acceptedAtStop, req, sent>>
    BY <1>5 DEF Receiver, Connect, RecvStarted, RecvAcks, RecvBackoff, RecvOutOfMemory,
         RecvShuttingDown, RecvEnd, Reconnect, ReconnectFails, RecvError, RecvResult
  <2>2. ~isShuttingDown
    BY <1>0, <1>5 DEF Receiver, Connect, RecvStarted, RecvAcks, RecvBackoff,
         RecvShuttingDown, RecvEnd, Reconnect, ReconnectFails, RecvError, RecvResult
  <2>3. WasClosed
    BY <1>0, <1>5 DEF Receiver, Connect, RecvStarted, RecvAcks, RecvBackoff,
         RecvShuttingDown, RecvEnd, Reconnect, ReconnectFails, RecvError, RecvResult
  <2> QED BY <1>4, <2>1, <2>2, <2>3
<1>6. ASSUME NEW e \in Entries, Add(e) \/ AddResumes(e) PROVE Closed'
  BY <1>4, <1>6 DEF Add, AddResumes
<1>7. ASSUME Stop PROVE Closed'
  <2>1. WasClosed /\ ~isShuttingDown /\ stopping = "no"
    BY <1>7 DEF Stop
  <2> QED BY <1>1, <2>1
<1>8. ASSUME StopReturns \/ UNCHANGED vars PROVE Closed'
  <2>1. WasClosed /\ ~isShuttingDown /\ UNCHANGED <<acceptedAtStop, req, sent>>
        /\ stopping' \in {stopping, "resolved"}
    BY <1>8 DEF StopReturns, vars
  <2> QED BY <1>1, <2>1
<1>9. Closed'
  BY <1>2, <1>3, <1>5, <1>6, <1>7, <1>8 DEF Next, Terminated, Poll
<1> QED BY <1>9

LEMMA EntriesOfAppend ==
  ASSUME NEW s \in Seq(Entries), NEW e \in Entries
  PROVE  EntriesOf(Append(s, e)) = EntriesOf(s) \cup {e}
<1> DEFINE t == Append(s, e)
<1>1. /\ DOMAIN t = DOMAIN s \cup {Len(s) + 1} /\ t[Len(s) + 1] = e
      /\ \A i \in DOMAIN s : t[i] = s[i]
  BY AppendProperties
<1> HIDE DEF t
<1>2. EntriesOf(t) = EntriesOf(s) \cup {e}
  BY <1>1 DEF EntriesOf
<1> QED BY <1>2 DEF t

LEMMA InReqEmpty == InReq(EmptyReq) = {}
BY DEF InReq, EmptyReq, EntriesOf

LEMMA InReqWithEntry ==
  ASSUME NEW r \in Requests, NEW e \in Entries
  PROVE  InReq(WithEntry(r, e)) = InReq(r) \cup {e}
<1>1. \A k \in Kinds : r[k] \in Seq(Entries) /\ KindOf[e] \in Kinds
  BY KindType DEF Requests
<1>2. \A k \in Kinds : WithEntry(r, e)[k] = IF k = KindOf[e] THEN Append(r[k], e) ELSE r[k]
  BY <1>1 DEF WithEntry, Requests
<1>3. \A k \in Kinds : EntriesOf(WithEntry(r, e)[k])
                         = IF k = KindOf[e] THEN EntriesOf(r[k]) \cup {e} ELSE EntriesOf(r[k])
  BY <1>1, <1>2, EntriesOfAppend
<1>4. \A q, x : x \in InReq(q) <=> \E k \in Kinds : x \in EntriesOf(q[k])
  BY DEF InReq
<1>5. ASSUME NEW x PROVE x \in InReq(WithEntry(r, e)) <=> x \in InReq(r) \cup {e}
  <2>1. x \in InReq(WithEntry(r, e)) <=> \E k \in Kinds : x \in EntriesOf(WithEntry(r, e)[k])
    BY <1>4
  <2>2. x \in InReq(r) <=> \E k \in Kinds : x \in EntriesOf(r[k])
    BY <1>4
  <2>3. \A k \in Kinds : x \in EntriesOf(WithEntry(r, e)[k])
                            <=> x \in EntriesOf(r[k]) \/ (k = KindOf[e] /\ x = e)
    BY <1>3
  <2> QED BY <2>1, <2>2, <2>3, KindType
<1> QED BY <1>5

LEMMA HasNoEntries ==
  ASSUME NEW r \in Requests, ~HasEntries(r)
  PROVE  r = EmptyReq
BY DEF HasEntries, EmptyReq, Requests, Kinds

\* What a step does to the requests with the server.
LEMMA WithServerSend ==
  ASSUME TypeOK, Send(req), UNCHANGED unreported
  PROVE  WithServer' = WithServer \cup InReq(req)
<1>1. /\ unacked' = Append(unacked, req) /\ unacked \in Seq(Requests) /\ req \in Requests
  BY DEF Send, TypeOK
<1>2. /\ DOMAIN unacked' = DOMAIN unacked \cup {Len(unacked) + 1} /\ unacked'[Len(unacked) + 1] = req
      /\ \A i \in DOMAIN unacked : unacked'[i] = unacked[i]
  BY <1>1, AppendProperties
<1>3. \A x : x \in WithServer <=> x \in unreported \/ \E i \in DOMAIN unacked : x \in InReq(unacked[i])
  BY DEF WithServer
<1>4. \A x : x \in WithServer' <=> x \in unreported' \/ \E i \in DOMAIN unacked' : x \in InReq(unacked'[i])
  BY DEF WithServer
<1>5. ASSUME NEW x PROVE x \in WithServer' <=> x \in WithServer \cup InReq(req)
  BY <1>2, <1>3, <1>4
<1> QED BY <1>5

LEMMA WithServerAck ==
  ASSUME TypeOK, RecvAcks
  PROVE  WithServer' = WithServer
<1>1. /\ unacked # <<>> /\ unacked' = Tail(unacked) /\ unacked \in Seq(Requests)
      /\ unreported' = unreported \cup InReq(Head(unacked))
  BY DEF RecvAcks, TypeOK
<1>2. /\ Head(unacked) = unacked[1] /\ 1 \in DOMAIN unacked
      /\ \A i \in DOMAIN unacked' : i + 1 \in DOMAIN unacked /\ unacked'[i] = unacked[i + 1]
      /\ \A i \in DOMAIN unacked : i = 1 \/ (i - 1 \in DOMAIN unacked' /\ unacked'[i - 1] = unacked[i])
  BY <1>1, HeadTailProperties
<1>3. UNION {InReq(unacked[i]) : i \in DOMAIN unacked}
        = InReq(unacked[1]) \cup UNION {InReq(unacked'[i]) : i \in DOMAIN unacked'}
  BY <1>2
<1> QED BY <1>1, <1>2, <1>3 DEF WithServer

\* What is packed, held or with the server.
Held == InReq(req) \cup EntriesOf(InHand) \cup WithServer

LEMMA InHandEntries ==
  EntriesOf(InHand) = IF hand = NoEntry THEN {} ELSE {hand}
BY DEF EntriesOf, InHand

\* Undisturbed, an entry held stays so until its result is received.
LEMMA HeldMoves ==
  ASSUME TypeOK, HandHeld, StreamInv, [Next]_vars, rx' # "failed", Undisturbed'
  PROVE  /\ ~PullEntry /\ ~(\E e \in Entries : RecvResult(e)) => Held' = Held /\ cache' = cache
         /\ PullEntry => Held' = Held \cup {Head(queue)} /\ Head(queue) \in Entries
         /\ \A e \in Entries : RecvResult(e) =>
              Held \ {e} \subseteq Held' /\ unacked' = unacked /\ unreported' = unreported \ {e}
<1> USE DEF appVars, flagVars, resultVars, genVars, rxVars, srvVars
<1>0. /\ Budgeted /\ Phases /\ Undisturbed /\ rx # "failed" /\ Leftover
      /\ ~RecvOutOfMemory /\ ~RenewStream /\ req \in Requests
  <2>1. Budgeted /\ Phases
    BY DEF StreamInv
  <2>2. ~RecvOutOfMemory /\ ~RenewStream
    BY <2>1, SpendSpends DEF RecvOutOfMemory, RenewStream, Events, Undisturbed
  <2> QED BY <2>1, <2>2, UndisturbedBefore, FailedForGood DEF StreamInv, TypeOK
<1>1. ASSUME UNCHANGED <<req, hand, unacked, unreported>> PROVE Held' = Held
  BY <1>1 DEF Held, InHand, WithServer
<1>2. ASSUME Begin PROVE Held' = Held /\ cache' = cache
  <2>1. req' = req
    BY <1>0, <1>2 DEF Begin, Leftover, Undisturbed
  <2> QED BY <1>1, <1>2, <2>1 DEF Begin
<1>3. ASSUME Finish PROVE Held' = Held /\ cache' = cache
  <2>1. /\ hand = NoEntry /\ hand' = hand /\ req' = EmptyReq /\ UNCHANGED <<unreported, cache>>
    BY <1>0, <1>3 DEF Finish, Phases
  <2>2. CASE HasEntries(req)
    <3>1. WithServer' = WithServer \cup InReq(req)
      BY <1>3, <2>1, <2>2, WithServerSend DEF Finish
    <3> QED BY <2>1, <3>1, InReqEmpty, InHandEntries DEF Held, InHand
  <2>3. CASE ~HasEntries(req)
    <3>1. req = EmptyReq /\ unacked' = unacked
      BY <1>0, <1>3, <2>3, HasNoEntries DEF Finish
    <3> QED BY <1>1, <2>1, <3>1
  <2> QED BY <2>2, <2>3
<1>4. ASSUME YieldAndPack PROVE Held' = Held /\ cache' = cache
  <2>1. /\ hand \in Entries /\ hand # NoEntry /\ hand' = NoEntry /\ UNCHANGED <<unreported, cache>>
        /\ Send(req) /\ req' = WithEntry(EmptyReq, hand)
    BY <1>4, EntriesType DEF YieldAndPack, HandHeld, Pack, AfterYield, NoEntry
  <2>2. InReq(req') = {hand}
    BY <2>1, InReqEmpty, EmptyReqType, InReqWithEntry
  <2>3. WithServer' = WithServer \cup InReq(req)
    BY <2>1, WithServerSend
  <2>4. EntriesOf(InHand) = {hand} /\ EntriesOf(InHand)' = {}
    BY <2>1 DEF InHand, EntriesOf
  <2> QED BY <2>1, <2>2, <2>3, <2>4 DEF Held
<1>5. ASSUME PullEntry PROVE Held' = Held \cup {Head(queue)} /\ Head(queue) \in Entries
  <2> DEFINE e == Head(queue)
  <2>1. /\ e \in Entries /\ e # NoEntry /\ hand = NoEntry /\ UNCHANGED <<unreported, unacked>>
        /\ \/ req' = req /\ hand' = e
           \/ req' = WithEntry(req, e) /\ hand' = hand
    <3>1. e \in Entries /\ e # NoEntry
      BY <1>5, HeadTailProperties, EntriesType DEF PullEntry, TypeOK, NoEntry
    <3>2. ~TooLarge(e)
      BY <1>0, <1>5 DEF PullEntry
    <3> QED BY <1>0, <1>5, <3>1, <3>2 DEF PullEntry, Pack, Phases
  <2>2. EntriesOf(InHand) = {} /\ EntriesOf(InHand)' = IF hand' = NoEntry THEN {} ELSE {hand'}
    BY <2>1 DEF InHand, EntriesOf
  <2>3. InReq(WithEntry(req, e)) = InReq(req) \cup {e}
    BY <1>0, <2>1, InReqWithEntry
  <2>4. WithServer' = WithServer
    BY <2>1 DEF WithServer
  <2> QED BY <2>1, <2>2, <2>3, <2>4 DEF Held
<1>6. ASSUME RecvAcks PROVE Held' = Held /\ cache' = cache
  <2>1. UNCHANGED <<req, hand, cache>> /\ WithServer' = WithServer
    BY <1>6, WithServerAck DEF RecvAcks
  <2> QED BY <2>1 DEF Held, InHand
<1>7. ASSUME NEW e \in Entries, RecvResult(e)
      PROVE  Held \ {e} \subseteq Held' /\ unacked' = unacked /\ unreported' = unreported \ {e}
  <2>1. UNCHANGED <<req, hand, unacked>> /\ unreported' = unreported \ {e}
    BY <1>7 DEF RecvResult
  <2> QED BY <2>1 DEF Held, InHand, WithServer
<1>8. ASSUME Generator, ~PullEntry PROVE Held' = Held /\ cache' = cache
  <2>1. CASE Begin \/ Finish \/ YieldAndPack
    BY <1>2, <1>3, <1>4, <2>1
  <2>2. CASE ~(Begin \/ Finish \/ YieldAndPack)
    <3>1. UNCHANGED <<req, hand, unacked, unreported, cache>>
      BY <1>0, <1>8, <2>2 DEF Generator, LeaveOnShutdown, PauseOnOom, LeaveOnOom, Wait, PullNothing
    <3> QED BY <1>1, <3>1
  <2> QED BY <2>1, <2>2
<1>9. ASSUME Receiver, ~(\E e \in Entries : RecvResult(e)) PROVE Held' = Held /\ cache' = cache
  <2>1. CASE ~RecvAcks
    <3>1. UNCHANGED <<req, hand, unacked, unreported, cache>>
      BY <1>0, <1>9, <2>1 DEF Receiver, Connect, RecvStarted, RecvBackoff,
         RecvShuttingDown, RecvEnd, Reconnect, ReconnectFails, RecvError
    <3> QED BY <1>1, <3>1
  <2> QED BY <1>6, <2>1
<1>10. ASSUME NEW e \in Entries, Add(e) \/ AddResumes(e) PROVE Held' = Held /\ cache' = cache
  BY <1>1, <1>10 DEF Add, AddResumes
<1>11. ASSUME Stop \/ StopReturns \/ UNCHANGED vars PROVE Held' = Held /\ cache' = cache
  BY <1>1, <1>11 DEF Stop, StopReturns, vars
<1> QED BY <1>5, <1>7, <1>8, <1>9, <1>10, <1>11 DEF Next, Terminated, Poll

LEMMA NextNothingStray ==
  TypeOK /\ HandHeld /\ StreamInv /\ ResultsInv /\ NothingStray /\ [Next]_vars => NothingStray'
<1> SUFFICES ASSUME TypeOK, HandHeld, StreamInv, ResultsInv, NothingStray, [Next]_vars,
                    rx' # "failed", Undisturbed', NEW key \in Keys, cache'[key] # NotCached
             PROVE  cache'[key].entry \in Held'
  BY DEF NothingStray, Held
<1>0. /\ cache \in [Keys -> [entry : Entries \cup {NoEntry}, index : Nat]]
      /\ rx # "failed" /\ Undisturbed
      /\ cache[key] # NotCached => cache[key].entry \in Held /\ KeyOf[cache[key].entry] = key
  BY FailedForGood, UndisturbedBefore DEF TypeOK, StreamInv, NothingStray, Held, ResultsInv, CachedRight
<1>1. CASE PullEntry
  <2> DEFINE e == Head(queue)
  <2>1. e \in Entries /\ Held' = Held \cup {e}
    BY <1>1, HeldMoves
  <2>2. cache' = [cache EXCEPT ![KeyOf[e]] = [entry |-> e, index |-> IndexOf(e)]]
    BY <1>1 DEF PullEntry
  <2>3. cache'[key] = cache[key] \/ cache'[key].entry = e
    BY <1>0, <2>2
  <2> QED BY <1>0, <2>1, <2>3
<1>2. ASSUME NEW e \in Entries, RecvResult(e) PROVE cache'[key].entry \in Held'
  <2>1. Held \ {e} \subseteq Held'
    BY <1>2, HeldMoves
  <2>2. cache'[key] = cache[key] /\ (key = KeyOf[e] => cache[key] = NotCached)
    BY <1>0, <1>2 DEF RecvResult
  <2> QED BY <1>0, <2>1, <2>2
<1>3. CASE ~PullEntry /\ ~(\E e \in Entries : RecvResult(e))
  BY <1>0, <1>3, HeldMoves
<1> QED BY <1>1, <1>2, <1>3

\* Places are indices.
LEMMA PlaceIsIndex ==
  ASSUME TypeOK, CallsDistinct, NEW k \in Kinds, NEW p \in 1 .. Len(accepted[k])
  PROVE  p - 1 \in Indices
<1>1. Len(accepted[k]) \in Nat /\ Len(accepted[k]) <= N
  BY CallsBounded, TakenType, LenProperties
<1>2. Budget["oom"] \in Nat /\ N \in Nat
  BY BudgetAssumption, EntriesAssumption DEF Events
<1>3. \A m \in Nat : N <= N * (m + 1)
  BY <1>2
<1>4. p - 1 \in Nat /\ p - 1 <= N
  BY <1>1, <1>2
<1>5. N * (Budget["oom"] + 1) \in Nat /\ N <= N * (Budget["oom"] + 1)
  BY <1>2, <1>3
<1> HIDE DEF Indices
<1> QED BY <1>2, <1>4, <1>5 DEF Indices

\* What is answered stays answered, and a result answers the place its entry
\* is cached under.
LEMMA AnsweredKept ==
  ASSUME TypeOK, StreamInv, Pipeline, ResultsInv, CallsDistinct, [Next]_vars, Undisturbed',
         NEW k \in Kinds, NEW p \in 1 .. Len(accepted[k])
  PROVE  /\ Answered(k, p) => Answered(k, p)'
         /\ \A e \in Entries :
              RecvResult(e) /\ accepted[k][p] = e /\ cache[KeyOf[e]] = [entry |-> e, index |-> p - 1]
                => Answered(k, p)'
<1> USE DEF appVars, flagVars, resultVars, genVars, rxVars, srvVars
<1> DEFINE a == accepted[k][p]
<1>0. /\ Undisturbed /\ p - 1 \in Indices /\ p - 1 \in Nat /\ p - 1 < Len(accepted[k]) /\ (p - 1) + 1 = p
      /\ successes \in [Kinds -> [Indices -> Keys \cup {NoKey}]]
      /\ errors \in [Kinds -> [Indices -> Entries \cup {NoEntry}]]
      /\ Len(accepted[k]) \in Nat
  BY PlaceIsIndex, UndisturbedBefore, TakenType, LenProperties DEF StreamInv, TypeOK
<1>1. accepted'[k][p] = a
  BY <1>0, RecordedKept
<1>2. ASSUME UNCHANGED <<successes, errors>> PROVE Answered(k, p) => Answered(k, p)'
  BY <1>1, <1>2 DEF Answered
<1>3. ASSUME NEW e \in Entries, RecvResult(e), cache[KeyOf[e]] # NotCached
      PROVE  LET c == cache[KeyOf[e]]
             IN  /\ Answered(k, p) => Answered(k, p)'
                 /\ a = e /\ c = [entry |-> e, index |-> p - 1] => Answered(k, p)'
  <2> DEFINE c == cache[KeyOf[e]]
             h == KindOf[e]
  <2>1. /\ KeyOf[e] \in Keys /\ h \in Kinds
        /\ c.entry \in Entries /\ KeyOf[c.entry] = KeyOf[e] /\ KindOf[c.entry] = h
        /\ accepted[h][c.index + 1] = c.entry
    <3>1. KeyOf[e] \in Keys /\ h \in Kinds
      BY KindType DEF Keys
    <3>2. CachedRight(KeyOf[e])
      BY <1>0, <3>1 DEF ResultsInv
    <3>3. /\ c.entry \in Entries /\ KeyOf[c.entry] = KeyOf[e]
          /\ accepted[KindOf[c.entry]][c.index + 1] = c.entry
      BY <1>3, <3>2 DEF CachedRight, Recorded
    <3> QED BY <3>1, <3>3, KeysAssumption
  <2>2. \/ errors' = [errors EXCEPT ![h][c.index] = c.entry] /\ UNCHANGED successes
        \/ successes' = [successes EXCEPT ![h][c.index] = KeyOf[e]] /\ UNCHANGED errors
    BY <1>3 DEF RecvResult
  <2>3. CASE k = h /\ p - 1 = c.index
    <3>1. c.entry = a /\ KeyOf[e] = KeyOf[a]
      BY <1>0, <2>1, <2>3
    <3>2. successes'[k][p - 1] = KeyOf[a] \/ errors'[k][p - 1] = a
      <4>1. CASE errors' = [errors EXCEPT ![h][c.index] = c.entry]
        BY <1>0, <2>3, <3>1, <4>1
      <4>2. CASE successes' = [successes EXCEPT ![h][c.index] = KeyOf[e]]
        BY <1>0, <2>3, <3>1, <4>2
      <4> QED BY <2>2, <4>1, <4>2
    <3> QED BY <1>1, <3>2 DEF Answered
  <2>4. CASE ~(k = h /\ p - 1 = c.index)
    <3>1. successes'[k][p - 1] = successes[k][p - 1] /\ errors'[k][p - 1] = errors[k][p - 1]
      BY <1>0, <2>1, <2>2, <2>4
    <3>2. Answered(k, p) => Answered(k, p)'
      BY <1>1, <3>1 DEF Answered
    <3>3. ~(a = e /\ c = [entry |-> e, index |-> p - 1])
      <4>1. a = e => h = k
        <5>1. p \in DOMAIN accepted[k]
          BY TakenType
        <5> QED BY <5>1 DEF CallsDistinct
      <4> QED BY <2>4, <4>1
    <3> QED BY <3>2, <3>3
  <2> QED BY <2>3, <2>4
<1>4. UNCHANGED <<successes, errors>> \/ \E e \in Entries : RecvResult(e)
  <2>1. Generator => UNCHANGED <<successes, errors>>
    BY DEF Generator, Begin, LeaveOnShutdown, RenewStream, PauseOnOom, LeaveOnOom, Wait,
           PullNothing, Finish, PullEntry, YieldAndPack
  <2>2. Receiver /\ ~(\E e \in Entries : RecvResult(e)) => UNCHANGED <<successes, errors>>
    BY DEF Receiver, Connect, RecvStarted, RecvAcks, RecvBackoff, RecvOutOfMemory,
           RecvShuttingDown, RecvEnd, Reconnect, ReconnectFails, RecvError
  <2>3. Stop \/ StopReturns \/ UNCHANGED vars => UNCHANGED <<successes, errors>>
    BY DEF Stop, StopReturns, vars
  <2>4. (\E e \in Entries : Add(e) \/ AddResumes(e)) => UNCHANGED <<successes, errors>>
    BY DEF Add, AddResumes
  <2> QED BY <2>1, <2>2, <2>3, <2>4 DEF Next, Terminated, Poll
<1>5. ASSUME NEW e \in Entries, RecvResult(e), cache[KeyOf[e]] = NotCached
      PROVE  UNCHANGED <<successes, errors>>
  BY <1>5 DEF RecvResult
<1>6. \A e \in Entries : [entry |-> e, index |-> p - 1] # NotCached
  <2>1. ASSUME NEW e \in Entries PROVE [entry |-> e, index |-> p - 1].entry # NotCached.entry
    BY EntriesType DEF NotCached, NoEntry
  <2> QED BY <2>1
<1> QED BY <1>2, <1>3, <1>4, <1>5, <1>6

LEMMA ConcatLeft ==
  ASSUME NEW s \in Seq(Entries), NEW t \in Seq(Entries), NEW p \in 1 .. Len(s)
  PROVE  (s \o t)[p] = s[p]
<1>1. p \in 1 .. Len(s) + Len(t) /\ p <= Len(s)
  BY LenProperties
<1> QED BY <1>1, ConcatProperties

LEMMA ConcatRight ==
  ASSUME NEW s \in Seq(Entries), NEW t \in Seq(Entries),
         NEW p \in 1 .. Len(s) + Len(t), p > Len(s)
  PROVE  (s \o t)[p] = t[p - Len(s)] /\ p - Len(s) \in DOMAIN t
<1>1. Len(s) \in Nat /\ Len(t) \in Nat /\ DOMAIN t = 1 .. Len(t) /\ ~(p <= Len(s))
  BY LenProperties
<1>2. (s \o t)[p] = t[p - Len(s)]
  BY <1>1, ConcatProperties
<1> QED BY <1>1, <1>2

\* What is sent goes to the server, which answers or holds it.
LEMMA ServerMoves ==
  ASSUME TypeOK, StreamInv, [Next]_vars, Undisturbed'
  PROVE  /\ ~(\E e \in Entries : RecvResult(e)) =>
              \/ WithServer \subseteq WithServer' /\ UNCHANGED sent
              \/ Send(req) /\ WithServer' = WithServer \cup InReq(req)
         /\ \A e \in Entries : RecvResult(e) => WithServer \ {e} \subseteq WithServer' /\ UNCHANGED sent
<1> USE DEF appVars, flagVars, resultVars, genVars, rxVars, srvVars
<1>0. ~RecvOutOfMemory
  BY SpendSpends DEF StreamInv, RecvOutOfMemory, Events, Undisturbed
<1>1. ASSUME UNCHANGED <<unacked, unreported>> PROVE WithServer' = WithServer
  BY <1>1 DEF WithServer
<1>2. ASSUME NEW e \in Entries, RecvResult(e)
      PROVE  WithServer \ {e} \subseteq WithServer' /\ UNCHANGED sent
  <2>1. UNCHANGED <<unacked, sent>> /\ unreported' = unreported \ {e}
    BY <1>2 DEF RecvResult
  <2> QED BY <2>1 DEF WithServer
<1>3. ASSUME Generator
      PROVE  \/ WithServer \subseteq WithServer' /\ UNCHANGED sent
             \/ Send(req) /\ WithServer' = WithServer \cup InReq(req)
  <2>1. unreported' = unreported /\ (UNCHANGED <<unacked, sent>> \/ Send(req))
    BY <1>3 DEF Generator, Begin, LeaveOnShutdown, RenewStream, PauseOnOom, LeaveOnOom, Wait,
           PullNothing, Finish, PullEntry, YieldAndPack
  <2> QED BY <1>1, <2>1, WithServerSend
<1>4. ASSUME Receiver, ~(\E e \in Entries : RecvResult(e))
      PROVE  WithServer' = WithServer /\ UNCHANGED sent
  <2>1. CASE RecvAcks
    BY <2>1, WithServerAck DEF RecvAcks
  <2>2. CASE ~RecvAcks
    <3>1. UNCHANGED <<unacked, unreported, sent>>
      BY <1>0, <1>4, <2>2 DEF Receiver, Connect, RecvStarted, RecvBackoff,
           RecvShuttingDown, RecvEnd, Reconnect, ReconnectFails, RecvError
    <3> QED BY <1>1, <3>1
  <2> QED BY <2>1, <2>2
<1>5. ASSUME NEW e \in Entries, Add(e) \/ AddResumes(e)
      PROVE  WithServer' = WithServer /\ UNCHANGED sent
  BY <1>1, <1>5 DEF Add, AddResumes
<1>6. ASSUME Stop \/ StopReturns \/ UNCHANGED vars PROVE WithServer' = WithServer /\ UNCHANGED sent
  BY <1>1, <1>6 DEF Stop, StopReturns, vars
<1> QED BY <1>2, <1>3, <1>4, <1>5, <1>6 DEF Next, Terminated, Poll

LEMMA NextTracked ==
  ASSUME TypeOK, TypeOK', HandHeld, StreamInv, Pipeline, Pipeline', ResultsInv, CallsDistinct,
         Tracked, [Next]_vars
  PROVE  Tracked'
<1> SUFFICES ASSUME rx' # "failed", Undisturbed', DistinctKeys, NEW k \in Kinds
             PROVE  /\ \A p \in 1 .. Len(Taken(k)') :
                         \/ Answered(k, p)'
                         \/ cache'[KeyOf[accepted'[k][p]]] = [entry |-> accepted'[k][p], index |-> p - 1]
                    /\ \A p \in 1 .. Len(sent'[k]) : Answered(k, p)' \/ accepted'[k][p] \in WithServer'
  BY DEF Tracked, DistinctKeys
<1> DEFINE a(p) == accepted[k][p]
           InCache(p) == cache[KeyOf[a(p)]] = [entry |-> a(p), index |-> p - 1]
           all == Len(accepted[k])
           taken == Len(Taken(k))
           gone == Len(sent[k])
           packed == Len(req[k])
<1>0. /\ Undisturbed /\ rx # "failed" /\ Budgeted /\ Phases /\ Leftover /\ Numbered
      /\ ~RecvOutOfMemory /\ ~RenewStream
      /\ sent[k] \in Seq(Entries) /\ req[k] \in Seq(Entries) /\ accepted[k] \in Seq(Entries)
      /\ Taken(k) \in Seq(Entries)
      /\ cache \in [Keys -> [entry : Entries \cup {NoEntry}, index : Nat]]
  <2>1. Budgeted /\ Phases /\ Leftover /\ Numbered
    BY DEF StreamInv, ResultsInv
  <2>2. ~RecvOutOfMemory /\ ~RenewStream
    BY <2>1, SpendSpends DEF RecvOutOfMemory, RenewStream, Events, Undisturbed
  <2> QED BY <2>1, <2>2, TakenType, UndisturbedBefore, FailedForGood DEF TypeOK
<1>1. /\ taken \in Nat /\ gone \in Nat /\ packed \in Nat /\ all \in Nat
      /\ gone + packed <= taken /\ taken <= all
      /\ \A p \in 1 .. taken : a(p) = Taken(k)[p]
  <2> DEFINE held == Len(HandOf(k))
             queued == CountOf(queue, Len(queue), k)
  <2>1. Flows(accepted[k], Taken(k), queue, k)
    BY <1>0, PipelineFlows
  <2>2. queue \in Seq(Entries) /\ HandOf(k) \in Seq(Entries)
    BY HandOfType DEF TypeOK
  <2>3. queued \in Nat
    BY <2>2, CountType, LenProperties
  <2>4. taken \in Nat /\ gone \in Nat /\ packed \in Nat /\ all \in Nat /\ held \in Nat
    BY <1>0, <2>2, LenProperties
  <2>5. all = taken + queued /\ \A p \in 1 .. taken : a(p) = Taken(k)[p]
    BY <1>0, <2>1 DEF Flows
  <2>6. taken = gone + packed + held
    BY TakenType
  <2> HIDE DEF all, taken, gone, packed, held, queued
  <2> QED BY <2>3, <2>4, <2>5, <2>6
<1> HIDE DEF all, taken, gone, packed
<1>2. ASSUME NEW p \in 1 .. all
      PROVE  /\ accepted'[k][p] = a(p) /\ a(p) \in Entries /\ KeyOf[a(p)] \in Keys /\ KindOf[a(p)] = k
             /\ Answered(k, p) => Answered(k, p)'
             /\ \A e \in Entries : RecvResult(e) /\ a(p) = e /\ InCache(p) => Answered(k, p)'
  <2>0. p \in 1 .. Len(accepted[k])
    BY DEF all
  <2>1. p - 1 \in Nat /\ p - 1 < Len(accepted[k]) /\ (p - 1) + 1 = p /\ p \in DOMAIN accepted[k]
    BY <1>0, <1>1, <2>0 DEF all
  <2>2. accepted'[k][p] = a(p)
    <3>1. \A i \in Nat : i < Len(accepted[k]) => accepted'[k][i + 1] = accepted[k][i + 1]
      BY RecordedKept
    <3> QED BY <2>1, <3>1
  <2>3. a(p) \in Entries /\ KindOf[a(p)] = k
    BY <1>0, <2>1 DEF CallsDistinct
  <2> QED BY <2>0, <2>2, <2>3, AnsweredKept DEF Keys
<1>3. \A p \in 1 .. taken :
        Answered(k, p) \/ InCache(p)
  BY <1>0 DEF Tracked, taken
<1>4. \A p \in 1 .. gone : Answered(k, p) \/ a(p) \in WithServer
  BY <1>0 DEF Tracked, gone
\* Up to what was taken before the step.
<1>5. ASSUME NEW p \in 1 .. taken
      PROVE  \/ Answered(k, p)'
             \/ cache'[KeyOf[accepted'[k][p]]] = [entry |-> accepted'[k][p], index |-> p - 1]
  <2>1. /\ p \in 1 .. all /\ accepted'[k][p] = a(p)
        /\ a(p) \in Entries /\ KeyOf[a(p)] \in Keys /\ KindOf[a(p)] = k
    <3>1. p \in 1 .. all
      BY <1>1
    <3> QED BY <1>2, <3>1
  <2>2. CASE Answered(k, p)
    BY <1>2, <2>1, <2>2
  <2>3. CASE InCache(p)
    <3>1. CASE PullEntry
      <4> DEFINE e == Head(queue)
      <4>1. /\ e \in Entries
            /\ cache' = [cache EXCEPT ![KeyOf[e]] = [entry |-> e, index |-> Len(Taken(KindOf[e]))]]
            /\ Len(Taken(KindOf[e])) < Len(accepted[KindOf[e]])
            /\ accepted[KindOf[e]][Len(Taken(KindOf[e])) + 1] = e
        BY <1>0, <3>1, PulledIsNext
      <4>2. KeyOf[e] # KeyOf[a(p)]
        <5>1. SUFFICES ASSUME KeyOf[e] = KeyOf[a(p)] PROVE FALSE
          OBVIOUS
        <5>2. e = a(p) /\ KindOf[e] = k
          BY <2>1, <4>1, <5>1 DEF DistinctKeys
        <5>3. taken < all /\ accepted[k][taken + 1] = accepted[k][p]
          BY <4>1, <5>2 DEF taken, all
        <5>a. taken + 1 \in DOMAIN accepted[k] /\ p \in DOMAIN accepted[k]
          BY <1>0, <1>1, <2>1, <5>3 DEF all
        <5>4. taken + 1 = p
          BY <5>3, <5>a DEF CallsDistinct
        <5> QED BY <1>1, <5>4
      <4> QED BY <1>0, <2>1, <2>3, <4>1, <4>2
    <3>2. ASSUME NEW e \in Entries, RecvResult(e)
          PROVE  \/ Answered(k, p)'
                 \/ cache'[KeyOf[accepted'[k][p]]] = [entry |-> accepted'[k][p], index |-> p - 1]
      <4>1. CASE a(p) = e
        BY <1>2, <2>1, <2>3, <3>2, <4>1
      <4>2. CASE a(p) # e
        <5>1. KeyOf[a(p)] # KeyOf[e]
          BY <2>1, <4>2 DEF DistinctKeys
        <5>2. cache'[KeyOf[a(p)]] = cache[KeyOf[a(p)]]
          BY <1>0, <2>1, <3>2, <5>1 DEF RecvResult
        <5> QED BY <2>1, <2>3, <5>2
      <4> QED BY <4>1, <4>2
    <3>3. CASE ~PullEntry /\ ~(\E e \in Entries : RecvResult(e))
      BY <2>1, <2>3, <3>3, HeldMoves
    <3> QED BY <3>1, <3>2, <3>3
  <2> QED BY <1>3, <2>2, <2>3
<1>6. ASSUME NEW p \in 1 .. Len(Taken(k)')
      PROVE  \/ Answered(k, p)'
             \/ cache'[KeyOf[accepted'[k][p]]] = [entry |-> accepted'[k][p], index |-> p - 1]
  <2>1. CASE ~PullEntry
    <3>1. Taken(k)' = Taken(k)
      BY <1>0, <2>1, TakenKept
    <3> QED BY <1>5, <3>1 DEF taken
  <2>2. CASE PullEntry
    <3> DEFINE e == Head(queue)
    <3>1. Taken(k)' = IF KindOf[e] = k THEN Append(Taken(k), e) ELSE Taken(k)
      BY <1>0, <2>2, TakenPulled
    <3>2. /\ e \in Entries /\ accepted' = accepted /\ KeyOf[e] \in Keys
          /\ cache' = [cache EXCEPT ![KeyOf[e]] = [entry |-> e, index |-> Len(Taken(KindOf[e]))]]
          /\ accepted[KindOf[e]][Len(Taken(KindOf[e])) + 1] = e
      BY <1>0, <2>2, PulledIsNext
    <3>3. CASE KindOf[e] # k
      BY <1>5, <3>1, <3>3 DEF taken
    <3>4. CASE KindOf[e] = k
      <4>1. Len(Taken(k)') = taken + 1
        BY <1>0, <3>1, <3>2, <3>4, AppendProperties DEF taken
      <4>2. CASE p = taken + 1
        <5>1. accepted'[k][p] = e /\ p - 1 = taken
          BY <1>1, <3>2, <3>4, <4>2 DEF taken
        <5>2. cache'[KeyOf[e]] = [entry |-> e, index |-> taken]
          BY <1>0, <3>2, <3>4 DEF taken
        <5> QED BY <5>1, <5>2
      <4>3. CASE p # taken + 1
        <5>1. p \in 1 .. taken
          BY <1>1, <4>1, <4>3
        <5> QED BY <1>5, <5>1
      <4> QED BY <4>2, <4>3
    <3> QED BY <3>3, <3>4
  <2> QED BY <2>1, <2>2
<1>7. ASSUME NEW p \in 1 .. Len(sent'[k])
      PROVE  Answered(k, p)' \/ accepted'[k][p] \in WithServer'
  <2>1. ASSUME NEW e \in Entries, RecvResult(e)
        PROVE  Answered(k, p)' \/ accepted'[k][p] \in WithServer'
    <3>1. sent' = sent /\ WithServer \ {e} \subseteq WithServer'
      BY <2>1, ServerMoves
    <3>2. p \in 1 .. gone /\ p \in 1 .. taken /\ p \in 1 .. all
      <4>1. p \in 1 .. gone
        BY <3>1 DEF gone
      <4> QED BY <1>1, <4>1
    <3>3. CASE a(p) = e
      BY <1>2, <1>3, <2>1, <3>2, <3>3
    <3>4. CASE a(p) # e
      BY <1>2, <1>4, <3>1, <3>2, <3>4
    <3> QED BY <3>3, <3>4
  <2>2. CASE WithServer \subseteq WithServer' /\ UNCHANGED sent
    <3>1. p \in 1 .. gone /\ p \in 1 .. all
      <4>1. p \in 1 .. gone
        BY <2>2 DEF gone
      <4> QED BY <1>1, <4>1
    <3> QED BY <1>2, <1>4, <2>2, <3>1
  <2>3. CASE Send(req) /\ WithServer' = WithServer \cup InReq(req)
    <3>1. sent'[k] = sent[k] \o req[k]
      BY <2>3 DEF Send
    <3>2. Len(sent'[k]) = gone + packed
      BY <1>0, <3>1, ConcatProperties DEF gone, packed
    <3>3. p \in 1 .. taken /\ p \in 1 .. all
      BY <1>1, <3>2
    <3>4. CASE p <= gone
      <4>1. p \in 1 .. gone
        BY <1>1, <3>4
      <4> QED BY <1>2, <1>4, <2>3, <3>3, <4>1
    <3>5. CASE p > gone
      <4>1. p \in 1 .. Len(sent[k]) + Len(req[k]) /\ p > Len(sent[k])
        BY <3>2, <3>5 DEF gone, packed
      <4>2. (sent[k] \o req[k])[p] = req[k][p - Len(sent[k])] /\ p - Len(sent[k]) \in DOMAIN req[k]
        BY <1>0, <4>1, ConcatRight
      <4>3. Taken(k)[p] = (sent[k] \o req[k])[p]
        <5>1. sent[k] \o req[k] \in Seq(Entries) /\ HandOf(k) \in Seq(Entries)
              /\ p \in 1 .. Len(sent[k] \o req[k])
          BY <1>0, <4>1, HandOfType, ConcatProperties
        <5> QED BY <5>1, ConcatLeft DEF Taken
      <4>4. a(p) \in InReq(req)
        <5>1. a(p) = req[k][p - Len(sent[k])]
          BY <1>1, <3>3, <4>2, <4>3
        <5> QED BY <4>2, <5>1 DEF InReq, EntriesOf
      <4> QED BY <1>2, <2>3, <3>3, <4>4
    <3> QED BY <1>1, <3>4, <3>5
  <2> QED BY <2>1, <2>2, <2>3, ServerMoves
<1> QED BY <1>6, <1>7

LEMMA InitEndInv == Init => EndInv
<1> SUFFICES ASSUME Init PROVE EndInv
  OBVIOUS
<1>1. /\ rx = "connecting" /\ \A key \in Keys : cache[key] = NotCached
      /\ \A k \in Kinds : sent[k] = <<>> /\ req[k] = <<>> /\ hand = NoEntry
  BY DEF Init, EmptyReq
<1>2. ASSUME NEW k \in Kinds PROVE Len(Taken(k)) = 0 /\ Len(sent[k]) = 0
  <2>1. sent[k] = <<>> /\ Taken(k) = <<>>
    BY <1>1 DEF Taken, HandOf
  <2> QED BY <2>1
<1>3. Tracked
  BY <1>2 DEF Tracked
<1> QED BY <1>1, <1>3, InitCallsDistinct DEF EndInv, NothingStray, Closing, Quiet

LEMMA EndInvariance == Spec => []EndInv
<1>1. IInv /\ IInv' /\ StreamInv /\ Pipeline /\ Pipeline' /\ ResultsInv /\ EndInv /\ [Next]_vars => EndInv'
  BY NextCallsDistinct, NextTracked, NextNothingStray, NextClosing, NextQuiet
     DEF IInv, EndInv, StreamInv
<1> QED BY <1>1, InitEndInv, Invariance, StreamInvariance, PipelineFlowsInOrder, ResultsInvariance,
           PTL DEF Spec

\* When the stream has ended well, each entry added before stop has its result
\* under its place, and nothing is left in the caches or in flight.
THEOREM EndsWell == Spec => []EndsClean
<1>1. ASSUME TypeOK, InflightSound, StreamInv, Pipeline, EndInv, Undisturbed, DistinctKeys,
             rx = "ended"
      PROVE  EndedComplete /\ NothingLeftBehind
  <2>1. /\ unacked = <<>> /\ unreported = {} /\ ~isShuttingDown /\ rx # "open" /\ rx # "failed"
    BY <1>1 DEF EndInv, Quiet
  <2>2. /\ req = EmptyReq /\ \A k \in Kinds : acceptedAtStop[k] <= Len(sent[k])
    BY <1>1, <2>1 DEF EndInv, Closing
  <2>3. hand = NoEntry
    BY <1>1, <2>1 DEF StreamInv, Phases
  <2>4. WithServer = {}
    BY <2>1 DEF WithServer
  <2>5. EndedComplete
    <3>1. ASSUME NEW k \in Kinds, NEW i \in 1 .. acceptedAtStop[k] PROVE Answered(k, i)
      <4>1. acceptedAtStop[k] \in Nat /\ Len(sent[k]) \in Nat
        BY <1>1, TakenType, LenProperties DEF TypeOK
      <4>2. i \in 1 .. Len(sent[k])
        BY <2>2, <4>1
      <4> QED BY <1>1, <2>1, <2>4, <4>2 DEF EndInv, Tracked
    <3> QED BY <3>1 DEF EndedComplete, Answered
  <2>6. \A key \in Keys : cache[key] = NotCached
    <3>1. InReq(req) \cup EntriesOf(InHand) \cup WithServer = {}
      BY <2>2, <2>3, <2>4, InReqEmpty DEF InHand, EntriesOf
    <3> QED BY <1>1, <2>1, <3>1 DEF EndInv, NothingStray
  <2>7. \A k \in Kinds : inflight[k] = {}
    BY <1>1, <2>1 DEF InflightSound
  <2> QED BY <2>5, <2>6, <2>7 DEF NothingLeftBehind
<1>2. IInv /\ StreamInv /\ Pipeline /\ EndInv => EndsClean
  BY <1>1 DEF IInv, EndsClean, EndedComplete, NothingLeftBehind
<1> QED BY <1>2, Invariance, StreamInvariance, PipelineFlowsInOrder, EndInvariance, PTL

-----------------------------------------------------------------------------
(***************************************************************************)
(* No entry is sent twice, and none is lost.  What is kept of a request    *)
(* while no stream reads the queue is in pending, otherwise in req.        *)
(***************************************************************************)
Live == IF pc \in {"closed", "waitStarted", "oomSleep"} THEN pending ELSE req

\* What was or will be sent of kind k without reading the queue.
Holds(k) == sent[k] \o Live[k] \o HandOf(k)

NoRepeats(s) == \A i, j \in DOMAIN s : s[i] = s[j] => i = j
Added == {e \in Entries : call[e] = "added"}

OnePlace(k) ==
  /\ NoRepeats(Holds(k))
  /\ EntriesOf(Holds(k)) \subseteq Added
  /\ EntriesOf(Holds(k)) \cap EntriesOf(queue) = {}

QueuedOnce ==
  Unspent("oom") =>
    /\ SentOnce
    /\ rx # "failed" =>
         /\ NoRepeats(queue) /\ EntriesOf(queue) \subseteq Added
         /\ \A k \in Kinds : OnePlace(k)

OwnKey(e) == \A f \in Entries \ {e} : KeyOf[f] # KeyOf[e]

\* The cache finds an entry with a key of its own from its pull to its result.
Reached == InReq(req) \cup InReq(pending) \cup EntriesOf(InHand) \cup WithServer

CachedUntilSettled ==
  \A e \in Reached : OwnKey(e) => e \in settled \/ cache[KeyOf[e]].entry = e

Somewhere == EntriesOf(queue) \cup EntriesOf(InHand) \cup InReq(Live) \cup WithServer \cup settled

Kept ==
  rx # "failed" /\ Unspent("renew") =>
    \A k \in Kinds : \A e \in EntriesOf(accepted[k]) : OwnKey(e) => e \in Somewhere

OnceInv == QueuedOnce /\ CachedUntilSettled /\ Kept

LEMMA NoRepeatsAppend ==
  ASSUME NEW s \in Seq(Entries), NEW e \in Entries, NoRepeats(s), e \notin EntriesOf(s)
  PROVE  NoRepeats(Append(s, e))
<1> DEFINE t == Append(s, e)
           n == Len(s)
<1>1. /\ n \in Nat /\ DOMAIN s = 1 .. n /\ DOMAIN t = 1 .. n + 1 /\ t[n + 1] = e
      /\ \A i \in 1 .. n : t[i] = s[i]
  BY AppendProperties, LenProperties
<1>2. /\ \A i \in DOMAIN s : s[i] # e
      /\ \A i, j \in DOMAIN s : s[i] = s[j] => i = j
  BY DEF EntriesOf, NoRepeats
<1> HIDE DEF t, n
<1>3. \A i, j \in DOMAIN t : t[i] = t[j] => i = j
  BY <1>1, <1>2
<1> QED BY <1>3 DEF NoRepeats, t

\* The head of a sequence without repetitions is not in its tail.
LEMMA NoRepeatsTail ==
  ASSUME NEW s \in Seq(Entries), s # <<>>, NoRepeats(s)
  PROVE  NoRepeats(Tail(s)) /\ EntriesOf(Tail(s)) = EntriesOf(s) \ {Head(s)}
<1> DEFINE t == Tail(s)
           n == Len(s)
<1>1. /\ n \in Nat /\ n > 0 /\ DOMAIN s = 1 .. n /\ DOMAIN t = 1 .. n - 1 /\ Head(s) = s[1]
      /\ \A i \in 1 .. n - 1 : t[i] = s[i + 1]
  BY HeadTailProperties, LenProperties, EmptySeq
<1>2. \A i, j \in DOMAIN s : s[i] = s[j] => i = j
  BY DEF NoRepeats
<1> HIDE DEF t, n
<1>3. \A i, j \in DOMAIN t : t[i] = t[j] => i = j
  <2> SUFFICES ASSUME NEW i \in DOMAIN t, NEW j \in DOMAIN t, t[i] = t[j] PROVE i = j
    OBVIOUS
  <2>1. i + 1 \in DOMAIN s /\ j + 1 \in DOMAIN s /\ s[i + 1] = s[j + 1]
    BY <1>1
  <2>2. i + 1 = j + 1
    BY <1>2, <2>1
  <2> QED BY <1>1, <2>2
<1>4. ASSUME NEW x PROVE x \in EntriesOf(t) <=> x \in EntriesOf(s) /\ x # s[1]
  <2>1. ASSUME NEW i \in DOMAIN t, x = t[i] PROVE x \in EntriesOf(s) /\ x # s[1]
    <3>1. i + 1 \in DOMAIN s /\ x = s[i + 1] /\ 1 \in DOMAIN s /\ i + 1 # 1
      BY <1>1, <2>1
    <3> QED BY <1>2, <3>1 DEF EntriesOf
  <2>2. ASSUME NEW i \in DOMAIN s, x = s[i], x # s[1] PROVE x \in EntriesOf(t)
    <3>1. i - 1 \in DOMAIN t /\ t[i - 1] = x
      BY <1>1, <2>2
    <3> QED BY <3>1 DEF EntriesOf
  <2> QED BY <2>1, <2>2 DEF EntriesOf
<1> QED BY <1>1, <1>3, <1>4 DEF NoRepeats, t

LEMMA PrefixOnce ==
  ASSUME NEW s \in Seq(Entries), NEW t \in Seq(Entries)
  PROVE  /\ EntriesOf(s) \subseteq EntriesOf(s \o t)
         /\ NoRepeats(s \o t) => NoRepeats(s)
<1> DEFINE u == s \o t
<1>1. /\ DOMAIN s = 1 .. Len(s) /\ DOMAIN u = 1 .. Len(s) + Len(t)
      /\ Len(s) \in Nat /\ Len(t) \in Nat
      /\ \A i \in 1 .. Len(s) : u[i] = s[i]
  BY ConcatProperties, LenProperties
<1>2. \A i \in DOMAIN s : i \in DOMAIN u /\ u[i] = s[i]
  BY <1>1
<1> HIDE DEF u
<1> QED BY <1>2 DEF EntriesOf, NoRepeats, u

LEMMA HoldsType ==
  ASSUME TypeOK, NEW k \in Kinds
  PROVE  /\ Live \in Requests /\ Live[k] \in Seq(Entries) /\ Holds(k) \in Seq(Entries)
         /\ sent[k] \in Seq(Entries) /\ sent[k] \o Live[k] \in Seq(Entries)
         /\ pc \in {"top", "pull", "window"} => Holds(k) = Taken(k)
<1>1. Live \in Requests
  BY DEF Live, TypeOK
<1>2. Live[k] \in Seq(Entries) /\ sent[k] \in Seq(Entries) /\ HandOf(k) \in Seq(Entries)
  BY <1>1, TakenType, HandOfType DEF Requests
<1>3. sent[k] \o Live[k] \in Seq(Entries)
  BY <1>2, ConcatProperties
<1>4. Holds(k) \in Seq(Entries)
  BY <1>2, <1>3, ConcatProperties DEF Holds
<1> QED BY <1>1, <1>2, <1>3, <1>4 DEF Holds, Taken, Live

\* What is held of kind k changes only when the generator pulls an entry, or
\* renews the stream and drops what it has packed.
LEMMA HoldsMove ==
  ASSUME TypeOK, HandHeld, StreamInv, [Next]_vars, rx # "failed", rx' # "failed",
         Unspent("oom"), Unspent("oom")', NEW k \in Kinds
  PROVE  /\ ~PullEntry /\ ~RenewStream => Holds(k)' = Holds(k)
         /\ PullEntry => Holds(k)' = IF KindOf[Head(queue)] = k THEN Append(Holds(k), Head(queue))
                                     ELSE Holds(k)
         /\ RenewStream => Holds(k)' = sent[k]
<1> USE DEF appVars, flagVars, resultVars, genVars, rxVars, srvVars
<1>0. /\ Budgeted /\ FlagsFounded /\ Phases /\ Leftover
      /\ ~isOom /\ pc # "oomSleep" /\ ~RecvOutOfMemory
  <2>1. Budgeted /\ FlagsFounded /\ Phases /\ Leftover
    BY DEF StreamInv
  <2>2. ~RecvOutOfMemory
    BY <2>1, SpendSpends DEF RecvOutOfMemory, Events
  <2> QED BY <2>1, <2>2 DEF FlagsFounded
<1>1. ASSUME UNCHANGED <<sent, hand>>, Live' = Live PROVE Holds(k)' = Holds(k)
  BY <1>1 DEF Holds, HandOf
<1>2. ASSUME UNCHANGED <<sent, hand, pc, pending, req>> PROVE Holds(k)' = Holds(k)
  BY <1>1, <1>2 DEF Live
<1>3. ASSUME Finish PROVE Holds(k)' = Holds(k)
  <2>1. /\ pc = "pull" /\ pc' = "closed" /\ req' = EmptyReq /\ pending' = pending
        /\ pending = EmptyReq
    BY <1>0, <1>3 DEF Finish, Leftover
  <2>2. Holds(k)' = Taken(k)'
    BY <2>1 DEF Holds, Taken, Live
  <2>3. Taken(k)' = Taken(k)
    BY <1>0, <1>3, TakenSent
  <2> QED BY <2>1, <2>2, <2>3, HoldsType
<1>4. ASSUME YieldAndPack PROVE Holds(k)' = Holds(k)
  <2>1. pc = "window" /\ pc' = "top"
    BY <1>4 DEF YieldAndPack, Pack
  <2>2. Holds(k)' = Taken(k)'
    BY <2>1 DEF Holds, Taken, Live
  <2>3. Taken(k)' = Taken(k)
    BY <1>0, <1>4, TakenSent
  <2> QED BY <2>1, <2>2, <2>3, HoldsType
<1>5. ASSUME PullEntry
      PROVE  Holds(k)' = IF KindOf[Head(queue)] = k THEN Append(Holds(k), Head(queue)) ELSE Holds(k)
  <2>1. pc = "pull" /\ pc' \in {"top", "window"}
    BY <1>5 DEF PullEntry, Pack
  <2>2. Holds(k)' = Taken(k)'
    BY <2>1 DEF Holds, Taken, Live
  <2>3. Taken(k)' = IF KindOf[Head(queue)] = k THEN Append(Taken(k), Head(queue)) ELSE Taken(k)
    BY <1>0, <1>5, TakenPulled
  <2> QED BY <2>1, <2>2, <2>3, HoldsType
<1>6. ASSUME RenewStream PROVE Holds(k)' = sent[k]
  <2>1. /\ pending = EmptyReq /\ pc' = "closed" /\ UNCHANGED <<pending, sent, hand>>
        /\ hand = NoEntry
    BY <1>0, <1>6 DEF RenewStream, Leftover, Phases
  <2>2. Live'[k] = <<>> /\ HandOf(k)' = <<>>
    BY <2>1 DEF Live, HandOf, EmptyReq
  <2> QED BY <2>1, <2>2, HoldsType, ConcatEmptySeq DEF Holds
<1>7. ASSUME Begin \/ LeaveOnShutdown \/ Wait \/ PullNothing PROVE Holds(k)' = Holds(k)
  BY <1>1, <1>7 DEF Begin, LeaveOnShutdown, SaveReq, Wait, PullNothing, Live
<1>8. ASSUME Generator, ~PullEntry, ~RenewStream PROVE Holds(k)' = Holds(k)
  <2>1. ~PauseOnOom /\ ~LeaveOnOom
    BY <1>0 DEF PauseOnOom, LeaveOnOom
  <2> QED BY <1>3, <1>4, <1>7, <1>8, <2>1 DEF Generator
<1>9. ASSUME Connect PROVE Holds(k)' = Holds(k)
  <2>1. pc = "closed" /\ pc' = "waitStarted" /\ UNCHANGED <<sent, hand, pending>>
    BY <1>0, <1>9 DEF Connect, Phases
  <2> QED BY <1>1, <2>1 DEF Live
<1>10. ASSUME Receiver PROVE Holds(k)' = Holds(k)
  <2>1. ~Connect => UNCHANGED <<sent, hand, pc, pending, req>>
    BY <1>0, <1>10 DEF Receiver, RecvStarted, RecvAcks, RecvBackoff, RecvShuttingDown, RecvEnd,
                       Reconnect, ReconnectFails, RecvError, RecvResult
  <2> QED BY <1>2, <1>9, <2>1
<1>11. ASSUME NEW e \in Entries, Add(e) \/ AddResumes(e) PROVE Holds(k)' = Holds(k)
  BY <1>2, <1>11 DEF Add, AddResumes
<1>12. ASSUME Stop \/ StopReturns \/ UNCHANGED vars PROVE Holds(k)' = Holds(k)
  BY <1>2, <1>12 DEF Stop, StopReturns, vars
<1> QED BY <1>5, <1>6, <1>8, <1>10, <1>11, <1>12 DEF Next, Terminated, Poll

\* Only a call adds to the queue, an entry that was not added before, and only
\* a pull takes from it, unless the server refuses a request.
LEMMA QueueMoves ==
  ASSUME TypeOK, [Next]_vars, rx' # "failed", ~RecvOutOfMemory
  PROVE  \/ Added \subseteq Added' /\ queue' = queue /\ ~PullEntry
         \/ Added' = Added /\ queue' = Tail(queue) /\ PullEntry
         \/ /\ \E e \in Entries : /\ e \notin Added /\ Added' = Added \cup {e}
                                  /\ queue' = Append(queue, e)
            /\ ~PullEntry /\ ~RenewStream
<1> USE DEF appVars, flagVars, resultVars, genVars, rxVars, srvVars
<1>0. call \in [Entries -> {"idle", "waiting", "added", "rejected"}]
  BY DEF TypeOK
<1>1. ASSUME PullEntry PROVE Added' = Added /\ queue' = Tail(queue)
  BY <1>1 DEF PullEntry, Added
<1>2. ASSUME Generator, ~PullEntry PROVE Added' = Added /\ queue' = queue
  BY <1>2 DEF Generator, Begin, LeaveOnShutdown, RenewStream, PauseOnOom, LeaveOnOom, Wait,
              PullNothing, Finish, YieldAndPack, Added
<1>3. ASSUME Receiver PROVE Added' = Added /\ queue' = queue
  BY <1>3 DEF Receiver, Connect, RecvStarted, RecvAcks, RecvBackoff, RecvShuttingDown, RecvEnd,
              Reconnect, ReconnectFails, RecvError, RecvResult, Added
<1>4. ASSUME Stop \/ StopReturns \/ UNCHANGED vars PROVE Added' = Added /\ queue' = queue
  BY <1>4 DEF Stop, StopReturns, vars, Added
<1>5. ASSUME NEW e \in Entries, call[e] # "added", call' = [call EXCEPT ![e] = "added"], Push(e)
      PROVE  e \notin Added /\ Added' = Added \cup {e} /\ queue' = Append(queue, e)
  BY <1>0, <1>5 DEF Added, Push
<1>6. ASSUME NEW e \in Entries, call[e] # "added", queue' = queue,
             call' \in {[call EXCEPT ![e] = "rejected"], [call EXCEPT ![e] = "waiting"]}
      PROVE  Added \subseteq Added' /\ queue' = queue
  BY <1>0, <1>6 DEF Added
<1>7. ASSUME NEW e \in Entries, Add(e) \/ AddResumes(e)
      PROVE  /\ pc' = pc /\ call[e] # "added"
             /\ \/ call' = [call EXCEPT ![e] = "added"] /\ Push(e)
                \/ queue' = queue /\ call' \in {[call EXCEPT ![e] = "rejected"], [call EXCEPT ![e] = "waiting"]}
  BY <1>7 DEF Add, AddResumes
<1>8. PullEntry \/ RenewStream => pc' # pc
  BY DEF PullEntry, Pack, RenewStream
<1>9. ASSUME NEW e \in Entries, Add(e) \/ AddResumes(e)
      PROVE  /\ ~PullEntry /\ ~RenewStream
             /\ \/ Added \subseteq Added' /\ queue' = queue
                \/ e \notin Added /\ Added' = Added \cup {e} /\ queue' = Append(queue, e)
  BY <1>5, <1>6, <1>7, <1>8, <1>9
<1>10. CASE PullEntry
  BY <1>1, <1>10
<1>11. CASE ~PullEntry
  BY <1>2, <1>3, <1>4, <1>9, <1>11 DEF Next, Terminated, Poll
<1> QED BY <1>10, <1>11

LEMMA NextOnePlace ==
  ASSUME TypeOK, HandHeld, StreamInv, [Next]_vars, rx # "failed", rx' # "failed",
         Unspent("oom"), Unspent("oom")',
         NoRepeats(queue), EntriesOf(queue) \subseteq Added, \A k \in Kinds : OnePlace(k)
  PROVE  /\ NoRepeats(queue') /\ EntriesOf(queue') \subseteq Added'
         /\ \A k \in Kinds : OnePlace(k)'
<1>0. /\ ~RecvOutOfMemory /\ queue \in Seq(Entries)
      /\ \A k \in Kinds : Holds(k) \in Seq(Entries) /\ sent[k] \in Seq(Entries)
  <2>1. ~RecvOutOfMemory
    BY SpendSpends DEF StreamInv, RecvOutOfMemory, Events
  <2> QED BY <2>1, HoldsType DEF TypeOK
<1>1. CASE Added \subseteq Added' /\ queue' = queue /\ ~PullEntry
  <2> SUFFICES ASSUME NEW k \in Kinds PROVE OnePlace(k)'
    BY <1>1
  <2>1. CASE ~RenewStream
    BY <1>1, <2>1, HoldsMove DEF OnePlace
  <2>2. CASE RenewStream
    <3>1. Holds(k)' = sent[k]
      BY <2>2, HoldsMove
    <3>2. /\ EntriesOf(sent[k]) \subseteq EntriesOf(Holds(k)) /\ NoRepeats(sent[k])
      <4>1. /\ Live[k] \in Seq(Entries) /\ sent[k] \o Live[k] \in Seq(Entries)
            /\ HandOf(k) \in Seq(Entries) /\ NoRepeats(Holds(k))
        BY HoldsType, HandOfType DEF OnePlace
      <4>2. /\ EntriesOf(sent[k] \o Live[k]) \subseteq EntriesOf(Holds(k))
            /\ NoRepeats(sent[k] \o Live[k])
        BY <4>1, PrefixOnce DEF Holds
      <4> QED BY <1>0, <4>1, <4>2, PrefixOnce
    <3> QED BY <1>1, <3>1, <3>2 DEF OnePlace
  <2> QED BY <2>1, <2>2
<1>2. CASE Added' = Added /\ queue' = Tail(queue) /\ PullEntry
  <2> DEFINE e == Head(queue)
  <2>1. queue # <<>>
    BY <1>2 DEF PullEntry
  <2>2. e \in Entries /\ e \in EntriesOf(queue)
    BY <1>0, <2>1, HeadTailProperties, EmptySeq DEF EntriesOf
  <2>3. NoRepeats(queue') /\ EntriesOf(queue') = EntriesOf(queue) \ {e}
    BY <1>0, <1>2, <2>1, NoRepeatsTail
  <2>4. ASSUME NEW k \in Kinds PROVE OnePlace(k)'
    <3>1. Holds(k)' = IF KindOf[e] = k THEN Append(Holds(k), e) ELSE Holds(k)
      BY <1>2, HoldsMove
    <3>2. /\ NoRepeats(Append(Holds(k), e))
          /\ EntriesOf(Append(Holds(k), e)) = EntriesOf(Holds(k)) \cup {e}
      BY <1>0, <2>2, NoRepeatsAppend, EntriesOfAppend DEF OnePlace
    <3> HIDE DEF e
    <3>3. NoRepeats(Holds(k)') /\ EntriesOf(Holds(k)') \subseteq EntriesOf(Holds(k)) \cup {e}
      BY <3>1, <3>2 DEF OnePlace
    <3> QED BY <1>2, <2>2, <2>3, <3>3 DEF OnePlace
  <2> QED BY <1>2, <2>3, <2>4
<1>3. CASE /\ \E e \in Entries : /\ e \notin Added /\ Added' = Added \cup {e}
                                 /\ queue' = Append(queue, e)
           /\ ~PullEntry /\ ~RenewStream
  <2>1. PICK e \in Entries : /\ e \notin Added /\ Added' = Added \cup {e}
                             /\ queue' = Append(queue, e)
    BY <1>3
  <2>2. NoRepeats(queue') /\ EntriesOf(queue') = EntriesOf(queue) \cup {e}
    BY <1>0, <2>1, NoRepeatsAppend, EntriesOfAppend
  <2>3. ASSUME NEW k \in Kinds PROVE OnePlace(k)'
    <3>1. Holds(k)' = Holds(k)
      BY <1>3, HoldsMove
    <3> QED BY <2>1, <2>2, <3>1 DEF OnePlace
  <2> QED BY <2>1, <2>2, <2>3
<1> QED BY <1>0, <1>1, <1>2, <1>3, QueueMoves

\* A request is sent by a stream that has not failed.
LEMMA SentMoves ==
  ASSUME Phases, [Next]_vars, rx' = "failed"
  PROVE  sent' = sent
<1> USE DEF appVars, flagVars, resultVars, genVars, rxVars, srvVars
<1>1. ~Finish /\ ~YieldAndPack
  BY DEF Phases, Finish, YieldAndPack, Pack
<1>2. Generator => sent' = sent
  BY <1>1 DEF Generator, Begin, LeaveOnShutdown, RenewStream, PauseOnOom, LeaveOnOom, Wait,
              PullNothing, PullEntry
<1>3. Receiver => sent' = sent
  BY DEF Receiver, Connect, RecvStarted, RecvAcks, RecvBackoff, RecvOutOfMemory,
         RecvShuttingDown, RecvEnd, Reconnect, ReconnectFails, RecvError, RecvResult
<1>4. Stop \/ StopReturns \/ UNCHANGED vars => sent' = sent
  BY DEF Stop, StopReturns, vars
<1>5. (\E e \in Entries : Add(e) \/ AddResumes(e)) => sent' = sent
  BY DEF Add, AddResumes
<1> QED BY <1>2, <1>3, <1>4, <1>5 DEF Next, Terminated, Poll

LEMMA NextQueuedOnce ==
  TypeOK /\ TypeOK' /\ HandHeld /\ StreamInv /\ QueuedOnce /\ [Next]_vars => QueuedOnce'
<1> SUFFICES ASSUME TypeOK, TypeOK', HandHeld, StreamInv, QueuedOnce, [Next]_vars,
                    Unspent("oom")'
             PROVE  QueuedOnce'
  BY DEF QueuedOnce
<1>1. /\ Unspent("oom") /\ SentOnce /\ Phases /\ (rx' # "failed" => rx # "failed")
      /\ rx # "failed" => /\ NoRepeats(queue) /\ EntriesOf(queue) \subseteq Added
                          /\ \A k \in Kinds : OnePlace(k)
  BY SpentForGood, FailedForGood DEF StreamInv, QueuedOnce, Events
<1>2. CASE rx' = "failed"
  <2>1. sent' = sent
    BY <1>1, <1>2, SentMoves
  <2> QED BY <1>1, <1>2, <2>1 DEF QueuedOnce, SentOnce
<1>3. CASE rx' # "failed"
  <2>1. /\ NoRepeats(queue') /\ EntriesOf(queue') \subseteq Added'
        /\ \A k \in Kinds : OnePlace(k)'
    BY <1>1, <1>3, NextOnePlace
  <2>2. ASSUME NEW k \in Kinds PROVE NoRepeats(sent'[k])
    <3>1. /\ Live'[k] \in Seq(Entries) /\ sent'[k] \o Live'[k] \in Seq(Entries)
          /\ HandOf(k)' \in Seq(Entries) /\ sent'[k] \in Seq(Entries)
          /\ Holds(k)' = (sent'[k] \o Live'[k]) \o HandOf(k)' /\ NoRepeats(Holds(k)')
      <4>1. sent' \in Requests /\ Live' \in Requests /\ hand' \in Entries \cup {NoEntry}
        BY DEF TypeOK, Live
      <4>2. sent'[k] \in Seq(Entries) /\ Live'[k] \in Seq(Entries)
        BY <4>1 DEF Requests
      <4>3. HandOf(k)' \in Seq(Entries)
        BY <4>1 DEF HandOf
      <4> QED BY <2>1, <4>2, <4>3, ConcatProperties DEF OnePlace, Holds
    <3>2. NoRepeats(sent'[k] \o Live'[k])
      BY <3>1, PrefixOnce
    <3> QED BY <3>1, <3>2, PrefixOnce
  <2>3. SentOnce'
    BY <2>2 DEF SentOnce, NoRepeats
  <2> QED BY <2>1, <2>3 DEF QueuedOnce
<1> QED BY <1>2, <1>3

LEMMA HeadOrTail ==
  ASSUME NEW S, NEW s \in Seq(S), s # <<>>
  PROVE  /\ Head(s) = s[1] /\ Head(s) \in S /\ Tail(s) \in Seq(S) /\ 1 \in DOMAIN s
         /\ \A i \in DOMAIN s : i = 1 \/ \E j \in DOMAIN Tail(s) : Tail(s)[j] = s[i]
         /\ \A j \in DOMAIN Tail(s) : \E i \in DOMAIN s : s[i] = Tail(s)[j]
<1>1. /\ Len(s) \in Nat /\ Len(s) > 0 /\ DOMAIN s = 1 .. Len(s) /\ DOMAIN Tail(s) = 1 .. Len(s) - 1
      /\ \A i \in 1 .. Len(s) - 1 : Tail(s)[i] = s[i + 1]
      /\ Tail(s) \in Seq(S) /\ Head(s) = s[1] /\ Head(s) \in S
  BY HeadTailProperties, LenProperties, EmptySeq
<1>2. ASSUME NEW i \in DOMAIN s, i # 1 PROVE \E j \in DOMAIN Tail(s) : Tail(s)[j] = s[i]
  <2>1. i - 1 \in DOMAIN Tail(s) /\ Tail(s)[i - 1] = s[i]
    BY <1>1, <1>2
  <2> QED BY <2>1
<1>3. ASSUME NEW j \in DOMAIN Tail(s) PROVE \E i \in DOMAIN s : s[i] = Tail(s)[j]
  <2>1. j + 1 \in DOMAIN s /\ s[j + 1] = Tail(s)[j]
    BY <1>1
  <2> QED BY <2>1
<1> QED BY <1>1, <1>2, <1>3

\* A request the server refuses leaves it.
LEMMA WithServerRefuses ==
  ASSUME TypeOK, unacked # <<>>, unacked' = Tail(unacked), UNCHANGED unreported
  PROVE  /\ WithServer' \subseteq WithServer
         /\ WithServer \subseteq WithServer' \cup InReq(Head(unacked))
         /\ Head(unacked) \in Requests
<1>1. unacked \in Seq(Requests)
  BY DEF TypeOK
<1>2. /\ Head(unacked) = unacked[1] /\ Head(unacked) \in Requests
      /\ \A i \in DOMAIN unacked : i = 1 \/ \E j \in DOMAIN unacked' : unacked'[j] = unacked[i]
      /\ \A j \in DOMAIN unacked' : \E i \in DOMAIN unacked : unacked[i] = unacked'[j]
  BY <1>1, HeadOrTail
<1>3. \A x : x \in WithServer <=> x \in unreported \/ \E i \in DOMAIN unacked : x \in InReq(unacked[i])
  BY DEF WithServer
<1>4. \A x : x \in WithServer' <=> x \in unreported' \/ \E i \in DOMAIN unacked' : x \in InReq(unacked'[i])
  BY DEF WithServer
<1>5. ASSUME NEW x \in WithServer' PROVE x \in WithServer
  BY <1>2, <1>3, <1>4
<1>6. ASSUME NEW x \in WithServer PROVE x \in WithServer' \cup InReq(Head(unacked))
  BY <1>2, <1>3, <1>4
<1> QED BY <1>2, <1>5, <1>6

\* An entry is reached by being pulled.
LEMMA ReachedGrows ==
  ASSUME TypeOK, HandHeld, [Next]_vars
  PROVE  IF PullEntry THEN Reached' \subseteq Reached \cup {Head(queue)} ELSE Reached' \subseteq Reached
<1> USE DEF appVars, flagVars, resultVars, genVars, rxVars, srvVars
<1>1. ASSUME UNCHANGED <<req, pending, hand>>, WithServer' \subseteq WithServer
      PROVE  Reached' \subseteq Reached
  BY <1>1 DEF Reached, InHand
<1>2. ASSUME UNCHANGED <<req, pending, hand, unacked, unreported>> PROVE Reached' \subseteq Reached
  BY <1>2 DEF Reached, InHand, WithServer
<1>3. ASSUME Finish PROVE Reached' \subseteq Reached
  <2>1. req' = EmptyReq /\ UNCHANGED <<pending, hand, unreported>>
    BY <1>3 DEF Finish
  <2>2. WithServer' \subseteq WithServer \cup InReq(req)
    <3>1. CASE HasEntries(req)
      BY <1>3, <2>1, <3>1, WithServerSend DEF Finish
    <3>2. CASE ~HasEntries(req)
      BY <1>3, <2>1, <3>2 DEF Finish, WithServer
    <3> QED BY <3>1, <3>2
  <2> QED BY <2>1, <2>2, InReqEmpty DEF Reached, InHand
<1>4. ASSUME YieldAndPack PROVE Reached' \subseteq Reached
  <2>1. /\ hand \in Entries /\ hand # NoEntry /\ hand' = NoEntry /\ UNCHANGED <<pending, unreported>>
        /\ Send(req) /\ req' = WithEntry(EmptyReq, hand)
    BY <1>4, EntriesType DEF YieldAndPack, HandHeld, Pack, AfterYield, NoEntry
  <2>2. InReq(req') = {hand}
    BY <2>1, InReqEmpty, EmptyReqType, InReqWithEntry
  <2>3. WithServer' = WithServer \cup InReq(req)
    BY <2>1, WithServerSend
  <2>4. EntriesOf(InHand) = {hand} /\ EntriesOf(InHand)' = {}
    BY <2>1 DEF InHand, EntriesOf
  <2> QED BY <2>1, <2>2, <2>3, <2>4 DEF Reached
<1>5. ASSUME PullEntry PROVE Reached' \subseteq Reached \cup {Head(queue)}
  <2> DEFINE e == Head(queue)
  <2>1. /\ e \in Entries /\ req \in Requests /\ UNCHANGED <<unreported, unacked, pending>>
        /\ req' \in {req, WithEntry(req, e)} /\ hand' \in {hand, e}
    BY <1>5, HeadTailProperties DEF PullEntry, TypeOK, Pack
  <2>2. InReq(req') \subseteq InReq(req) \cup {e}
    BY <2>1, InReqWithEntry
  <2>3. EntriesOf(InHand)' \subseteq EntriesOf(InHand) \cup {e}
    BY <2>1 DEF InHand, EntriesOf
  <2> QED BY <2>1, <2>2, <2>3 DEF Reached, WithServer
<1>6. ASSUME Begin \/ LeaveOnShutdown \/ PauseOnOom PROVE Reached' \subseteq Reached
  <2>1. /\ UNCHANGED <<hand, unacked, unreported>>
        /\ (req' = pending /\ pending' = pending) \/ (pending' = req /\ req' = req)
    BY <1>6 DEF Begin, LeaveOnShutdown, PauseOnOom, SaveReq
  <2> QED BY <2>1 DEF Reached, InHand, WithServer
<1>7. ASSUME RenewStream \/ LeaveOnOom \/ Wait \/ PullNothing PROVE Reached' \subseteq Reached
  BY <1>2, <1>7 DEF RenewStream, LeaveOnOom, Wait, PullNothing
<1>8. ASSUME RecvAcks PROVE Reached' \subseteq Reached
  BY <1>1, <1>8, WithServerAck DEF RecvAcks
<1>9. ASSUME RecvOutOfMemory PROVE Reached' \subseteq Reached
  <2>1. UNCHANGED <<req, pending, hand, unreported>>
    BY <1>9 DEF RecvOutOfMemory
  <2>2. CASE unacked' = unacked
    BY <1>2, <2>1, <2>2
  <2>3. CASE unacked # <<>> /\ unacked' = Tail(unacked)
    BY <1>1, <2>1, <2>3, WithServerRefuses
  <2> QED BY <1>9, <2>2, <2>3 DEF RecvOutOfMemory
<1>10. ASSUME NEW e \in Entries, RecvResult(e) PROVE Reached' \subseteq Reached
  BY <1>1, <1>10 DEF RecvResult, WithServer
<1>11. ASSUME Receiver PROVE Reached' \subseteq Reached
  <2>1. CASE RecvAcks \/ RecvOutOfMemory \/ \E e \in Entries : RecvResult(e)
    BY <1>8, <1>9, <1>10, <2>1
  <2>2. CASE ~(RecvAcks \/ RecvOutOfMemory \/ \E e \in Entries : RecvResult(e))
    BY <1>2, <1>11, <2>2 DEF Receiver, Connect, RecvStarted, RecvBackoff, RecvShuttingDown,
                             RecvEnd, Reconnect, ReconnectFails, RecvError
  <2> QED BY <2>1, <2>2
<1>12. ASSUME NEW e \in Entries, Add(e) \/ AddResumes(e) PROVE Reached' \subseteq Reached
  BY <1>2, <1>12 DEF Add, AddResumes
<1>13. ASSUME Stop \/ StopReturns \/ UNCHANGED vars PROVE Reached' \subseteq Reached
  BY <1>2, <1>13 DEF Stop, StopReturns, vars
<1>14. ~PullEntry => Reached' \subseteq Reached
  BY <1>3, <1>4, <1>6, <1>7, <1>11, <1>12, <1>13 DEF Next, Terminated, Poll, Generator
<1> QED BY <1>5, <1>14

LEMMA ReachedType ==
  ASSUME TypeOK
  PROVE  Reached \subseteq Entries
<1>1. InReq(req) \subseteq Entries /\ InReq(pending) \subseteq Entries
  BY InReqType DEF TypeOK
<1>2. EntriesOf(InHand) \subseteq Entries
  BY InHandEntries DEF TypeOK
<1>3. \A i \in DOMAIN unacked : unacked[i] \in Requests
  BY DEF TypeOK
<1>4. \A i \in DOMAIN unacked : InReq(unacked[i]) \subseteq Entries
  BY <1>3, InReqType
<1>5. unreported \subseteq Entries
  BY DEF TypeOK
<1> QED BY <1>1, <1>2, <1>4, <1>5 DEF Reached, WithServer

LEMMA NextCachedUntilSettled ==
  TypeOK /\ HandHeld /\ CachedUntilSettled /\ [Next]_vars => CachedUntilSettled'
<1> SUFFICES ASSUME TypeOK, HandHeld, CachedUntilSettled, [Next]_vars,
                    NEW e \in Reached', OwnKey(e)
             PROVE  e \in settled' \/ cache'[KeyOf[e]].entry = e
  BY DEF CachedUntilSettled, OwnKey
<1> USE DEF appVars, flagVars, resultVars, genVars, rxVars, srvVars
<1>0. /\ cache \in [Keys -> [entry : Entries \cup {NoEntry}, index : Nat]]
      /\ \A f \in Entries : KeyOf[f] \in Keys
  BY DEF TypeOK, Keys
<1>1. ASSUME e \in Reached, cache' = cache, settled \subseteq settled'
      PROVE  e \in settled' \/ cache'[KeyOf[e]].entry = e
  BY <1>1 DEF CachedUntilSettled
<1>2. CASE PullEntry
  <2> DEFINE f == Head(queue)
  <2>1. /\ f \in Entries /\ e \in Reached \cup {f} /\ settled' = settled
        /\ cache' = [cache EXCEPT ![KeyOf[f]] = [entry |-> f, index |-> IndexOf(f)]]
    BY <1>2, ReachedGrows, HeadTailProperties DEF PullEntry, TypeOK
  <2> HIDE DEF f
  <2>2. CASE e = f
    BY <1>0, <2>1, <2>2
  <2>3. CASE e # f
    <3>1. e \in Reached /\ KeyOf[f] # KeyOf[e] /\ KeyOf[e] \in Keys
      BY <1>0, <2>1, <2>3, ReachedType DEF OwnKey
    <3>2. cache'[KeyOf[e]] = cache[KeyOf[e]]
      BY <1>0, <2>1, <3>1
    <3> QED BY <2>1, <3>1, <3>2 DEF CachedUntilSettled
  <2> QED BY <2>2, <2>3
<1>3. ASSUME NEW f \in Entries, RecvResult(f)
      PROVE  e \in settled' \/ cache'[KeyOf[e]].entry = e
  <2>1. /\ settled' = settled \cup {f}
        /\ cache' = cache \/ cache' = [cache EXCEPT ![KeyOf[f]] = NotCached]
    BY <1>3 DEF RecvResult
  <2>2. e \in Reached
    <3>1. ~PullEntry
      BY <1>3 DEF PullEntry, RecvResult
    <3> QED BY <3>1, ReachedGrows
  <2>3. CASE e = f
    BY <2>1, <2>3
  <2>4. CASE e # f
    <3>1. KeyOf[f] # KeyOf[e] /\ KeyOf[e] \in Keys
      BY <1>0, <2>2, <2>4, ReachedType DEF OwnKey
    <3>2. cache'[KeyOf[e]] = cache[KeyOf[e]]
      BY <1>0, <2>1, <3>1
    <3> QED BY <2>1, <2>2, <3>2 DEF CachedUntilSettled
  <2> QED BY <2>3, <2>4
<1>4. ASSUME Generator, ~PullEntry PROVE cache' = cache /\ settled' = settled
  BY <1>4 DEF Generator, Begin, LeaveOnShutdown, RenewStream, PauseOnOom, LeaveOnOom, Wait,
              PullNothing, Finish, YieldAndPack
<1>5. ASSUME Receiver, ~ \E f \in Entries : RecvResult(f) PROVE cache' = cache /\ settled' = settled
  BY <1>5 DEF Receiver, Connect, RecvStarted, RecvAcks, RecvBackoff, RecvOutOfMemory,
              RecvShuttingDown, RecvEnd, Reconnect, ReconnectFails, RecvError
<1>6. ASSUME NEW f \in Entries, Add(f) \/ AddResumes(f) PROVE cache' = cache /\ settled' = settled
  BY <1>6 DEF Add, AddResumes
<1>7. Stop \/ StopReturns \/ UNCHANGED vars => cache' = cache /\ settled' = settled
  BY DEF Stop, StopReturns, vars
<1>8. ASSUME ~PullEntry, ~ \E f \in Entries : RecvResult(f)
      PROVE  e \in Reached /\ cache' = cache /\ settled' = settled
  BY <1>4, <1>5, <1>6, <1>7, <1>8, ReachedGrows DEF Next, Terminated, Poll
<1> QED BY <1>1, <1>2, <1>3, <1>8

LEMMA ConcatEntries ==
  ASSUME NEW S, NEW s \in Seq(S), NEW t \in Seq(S)
  PROVE  EntriesOf(s \o t) = EntriesOf(s) \cup EntriesOf(t)
<1> DEFINE u == s \o t
<1>1. /\ Len(s) \in Nat /\ Len(t) \in Nat /\ DOMAIN u = 1 .. Len(s) + Len(t)
      /\ DOMAIN s = 1 .. Len(s) /\ DOMAIN t = 1 .. Len(t)
      /\ \A i \in DOMAIN u : u[i] = IF i <= Len(s) THEN s[i] ELSE t[i - Len(s)]
  BY ConcatProperties, LenProperties
<1> HIDE DEF u
<1>2. ASSUME NEW x PROVE x \in EntriesOf(u) <=> x \in EntriesOf(s) \/ x \in EntriesOf(t)
  <2>1. ASSUME NEW i \in DOMAIN u, x = u[i] PROVE x \in EntriesOf(s) \/ x \in EntriesOf(t)
    <3>1. CASE i <= Len(s)
      BY <1>1, <2>1, <3>1 DEF EntriesOf
    <3>2. CASE ~(i <= Len(s))
      <4>1. i - Len(s) \in DOMAIN t /\ x = t[i - Len(s)]
        BY <1>1, <2>1, <3>2
      <4> QED BY <4>1 DEF EntriesOf
    <3> QED BY <3>1, <3>2
  <2>2. ASSUME NEW i \in DOMAIN s, x = s[i] PROVE x \in EntriesOf(u)
    <3>1. i \in DOMAIN u /\ u[i] = x
      BY <1>1, <2>2
    <3> QED BY <3>1 DEF EntriesOf
  <2>3. ASSUME NEW i \in DOMAIN t, x = t[i] PROVE x \in EntriesOf(u)
    <3>1. /\ i + Len(s) \in DOMAIN u /\ ~(i + Len(s) <= Len(s)) /\ (i + Len(s)) - Len(s) = i
      BY <1>1, <2>3
    <3>2. u[i + Len(s)] = x
      BY <1>1, <2>3, <3>1
    <3> QED BY <3>1, <3>2 DEF EntriesOf
  <2> QED BY <2>1, <2>2, <2>3 DEF EntriesOf
<1> QED BY <1>2 DEF u

\* A refused entry is queued again when the cache still finds it.
LEMMA RequeuedIfCached ==
  ASSUME TypeOK, NEW m \in Requests, NEW e \in InReq(m), cache[KeyOf[e]].entry = e,
         NoEntry \notin EntriesOf(Cached(m["obj"]) \o Cached(m["ref"]))
  PROVE  Requeue(m) \in Seq(Entries) /\ e \in EntriesOf(Requeue(m))
<1>1. /\ m["obj"] \in Seq(Entries) /\ m["ref"] \in Seq(Entries)
      /\ cache \in [Keys -> [entry : Entries \cup {NoEntry}, index : Nat]]
  BY DEF Requests, Kinds, TypeOK
<1>2. /\ Cached(m["obj"]) \in Seq(Entries \cup {NoEntry})
      /\ Cached(m["ref"]) \in Seq(Entries \cup {NoEntry})
  BY <1>1, CachedSeq
<1>3. EntriesOf(Requeue(m)) = EntriesOf(Cached(m["obj"])) \cup EntriesOf(Cached(m["ref"]))
  BY <1>2, ConcatEntries DEF Requeue
<1>4. PICK k \in Kinds : e \in EntriesOf(m[k])
  BY DEF InReq
<1>5. PICK i \in DOMAIN m[k] : m[k][i] = e
  BY <1>4 DEF EntriesOf
<1>6. i \in DOMAIN Cached(m[k]) /\ Cached(m[k])[i] = e
  BY <1>5 DEF Cached
<1>7. e \in EntriesOf(Cached(m[k]))
  BY <1>6 DEF EntriesOf
<1>8. Requeue(m) \in Seq(Entries)
  BY <1>1, RequeueType
<1> QED BY <1>3, <1>7, <1>8 DEF Kinds

\* An entry that is held stays somewhere, whatever the step.
LEMMA SomewhereStays ==
  ASSUME TypeOK, HandHeld, StreamInv, CachedUntilSettled, [Next]_vars,
         rx # "failed", rx' # "failed", Unspent("renew")', NEW e \in Somewhere, OwnKey(e)
  PROVE  e \in Somewhere'
<1> USE DEF appVars, flagVars, resultVars, genVars, rxVars, srvVars
<1>0. /\ Phases /\ Budgeted /\ ~RenewStream
      /\ queue \in Seq(Entries) /\ req \in Requests /\ unacked \in Seq(Requests)
  <2>1. Phases /\ Budgeted
    BY DEF StreamInv
  <2>2. ~RenewStream
    BY <2>1, SpendSpends DEF RenewStream, Events
  <2> QED BY <2>1, <2>2 DEF TypeOK
<1>1. ASSUME UNCHANGED <<queue, hand, settled>>, InReq(Live) \cup WithServer \subseteq InReq(Live') \cup WithServer'
      PROVE  e \in Somewhere'
  BY <1>1 DEF Somewhere, InHand
<1>2. ASSUME UNCHANGED <<queue, hand, settled, unacked, unreported>>, Live' = Live
      PROVE  e \in Somewhere'
  BY <1>2 DEF Somewhere, InHand, WithServer
<1>3. ASSUME Finish PROVE e \in Somewhere'
  <2>1. UNCHANGED <<queue, hand, settled, unreported>> /\ Live = req
    BY <1>3 DEF Finish, Live
  <2>2. InReq(req) \cup WithServer \subseteq WithServer'
    <3>1. CASE HasEntries(req)
      BY <1>3, <2>1, <3>1, WithServerSend DEF Finish
    <3>2. CASE ~HasEntries(req)
      BY <1>0, <1>3, <2>1, <3>2, HasNoEntries, InReqEmpty DEF Finish, WithServer
    <3> QED BY <3>1, <3>2
  <2> QED BY <1>1, <2>1, <2>2
<1>4. ASSUME YieldAndPack PROVE e \in Somewhere'
  <2>1. /\ hand \in Entries /\ hand # NoEntry /\ hand' = NoEntry /\ UNCHANGED <<queue, settled, unreported>>
        /\ Send(req) /\ req' = WithEntry(EmptyReq, hand) /\ Live = req /\ Live' = req'
    BY <1>4, EntriesType DEF YieldAndPack, HandHeld, Pack, AfterYield, NoEntry, Live
  <2>2. InReq(Live') = {hand}
    BY <2>1, InReqEmpty, EmptyReqType, InReqWithEntry
  <2>3. WithServer' = WithServer \cup InReq(req)
    BY <2>1, WithServerSend
  <2>4. EntriesOf(InHand) = {hand}
    BY <2>1 DEF InHand, EntriesOf
  <2> QED BY <2>1, <2>2, <2>3, <2>4 DEF Somewhere
<1>5. ASSUME PullEntry PROVE e \in Somewhere'
  <2> DEFINE f == Head(queue)
  <2>1. /\ f \in Entries /\ f # NoEntry /\ hand = NoEntry /\ UNCHANGED <<unreported, unacked, settled>>
        /\ queue # <<>> /\ queue' = Tail(queue) /\ Live = req /\ Live' = req'
        /\ \/ req' = req /\ hand' = f
           \/ req' = WithEntry(req, f) /\ hand' = hand
    <3>1. f \in Entries /\ f # NoEntry /\ queue # <<>> /\ queue' = Tail(queue)
      BY <1>5, HeadTailProperties, EntriesType DEF PullEntry, TypeOK, NoEntry
    <3>2. ~TooLarge(f) /\ pc = "pull" /\ hand = NoEntry
      BY <1>0, <1>5 DEF PullEntry, Phases
    <3>3. pc' \in {"top", "window"} /\ UNCHANGED <<unreported, unacked, settled>>
          /\ \/ req' = req /\ hand' = f
             \/ req' = WithEntry(req, f) /\ hand' = hand
      BY <1>5, <3>2 DEF PullEntry, Pack
    <3> QED BY <3>1, <3>2, <3>3 DEF Live
  <2>2. EntriesOf(queue) \subseteq {f} \cup EntriesOf(queue')
    <3>1. \A i \in DOMAIN queue : queue[i] = f \/ \E j \in DOMAIN queue' : queue'[j] = queue[i]
      BY <1>0, <2>1, HeadOrTail
    <3> HIDE DEF f
    <3> QED BY <3>1 DEF EntriesOf
  <2>3. EntriesOf(InHand) = {} /\ EntriesOf(InHand)' = IF hand' = NoEntry THEN {} ELSE {hand'}
    BY <2>1 DEF InHand, EntriesOf
  <2>4. InReq(WithEntry(req, f)) = InReq(req) \cup {f}
    BY <1>0, <2>1, InReqWithEntry
  <2>5. WithServer' = WithServer
    BY <2>1 DEF WithServer
  <2> HIDE DEF f
  <2>6. InReq(req) \cup {f} \subseteq InReq(Live') \cup EntriesOf(InHand)'
    BY <2>1, <2>3, <2>4
  <2> QED BY <2>1, <2>2, <2>3, <2>5, <2>6 DEF Somewhere
<1>6. ASSUME Begin \/ LeaveOnShutdown \/ PauseOnOom \/ LeaveOnOom \/ Wait \/ PullNothing
      PROVE  e \in Somewhere'
  BY <1>2, <1>6 DEF Begin, LeaveOnShutdown, PauseOnOom, LeaveOnOom, Wait, PullNothing, SaveReq, Live
<1>7. ASSUME RecvAcks PROVE e \in Somewhere'
  <2>1. WithServer' = WithServer /\ UNCHANGED <<queue, hand, settled, pc, req, pending>>
    BY <1>7, WithServerAck DEF RecvAcks
  <2> QED BY <1>1, <2>1 DEF Live
<1>8. ASSUME RecvOutOfMemory PROVE e \in Somewhere'
  <2> DEFINE m == Head(unacked)
  <2>1. /\ unacked # <<>> /\ unacked' = Tail(unacked) /\ queue' = queue \o Requeue(m)
        /\ UNCHANGED <<unreported, hand, settled, pc, req, pending>>
        /\ NoEntry \notin EntriesOf(Cached(m["obj"]) \o Cached(m["ref"]))
    BY <1>8 DEF RecvOutOfMemory
  <2>2. m \in Requests /\ WithServer \subseteq WithServer' \cup InReq(m)
    BY <2>1, WithServerRefuses
  <2>3. Requeue(m) \in Seq(Entries) /\ InReq(m) \subseteq WithServer
    <3>1. m = unacked[1] /\ 1 \in DOMAIN unacked
      BY <1>0, <2>1, HeadOrTail
    <3>2. m["obj"] \in Seq(Entries) /\ m["ref"] \in Seq(Entries)
      BY <2>2 DEF Requests, Kinds
    <3>3. Requeue(m) \in Seq(Entries)
      BY <2>1, <3>2, RequeueType DEF TypeOK
    <3> QED BY <3>1, <3>3 DEF WithServer
  <2> HIDE DEF m
  <2>4. EntriesOf(queue') = EntriesOf(queue) \cup EntriesOf(Requeue(m))
    BY <1>0, <2>1, <2>3, ConcatEntries
  <2>5. ASSUME e \in InReq(m), e \notin settled PROVE e \in EntriesOf(Requeue(m))
    <3>1. cache[KeyOf[e]].entry = e
      BY <2>3, <2>5 DEF CachedUntilSettled, Reached
    <3> QED BY <2>1, <2>2, <2>5, <3>1, RequeuedIfCached
  <2>6. Live' = Live /\ InHand' = InHand
    BY <2>1 DEF Live, InHand
  <2> QED BY <2>1, <2>2, <2>4, <2>5, <2>6 DEF Somewhere
<1>9. ASSUME NEW f \in Entries, RecvResult(f) PROVE e \in Somewhere'
  <2>1. /\ UNCHANGED <<queue, hand, unacked, pc, req, pending>>
        /\ unreported' = unreported \ {f} /\ settled' = settled \cup {f}
    BY <1>9 DEF RecvResult
  <2>2. Live' = Live /\ InHand' = InHand
    BY <2>1 DEF Live, InHand
  <2>3. WithServer \subseteq WithServer' \cup {f}
    BY <2>1 DEF WithServer
  <2> QED BY <2>1, <2>2, <2>3 DEF Somewhere
<1>10. ASSUME Connect PROVE e \in Somewhere'
  <2>1. pc = "closed" /\ pc' = "waitStarted"
    BY <1>0, <1>10 DEF Connect, Phases
  <2> QED BY <1>2, <1>10, <2>1 DEF Connect, Live
<1>11. ASSUME Receiver PROVE e \in Somewhere'
  <2>1. CASE RecvAcks \/ RecvOutOfMemory \/ Connect \/ \E f \in Entries : RecvResult(f)
    BY <1>7, <1>8, <1>9, <1>10, <2>1
  <2>2. CASE ~(RecvAcks \/ RecvOutOfMemory \/ Connect \/ \E f \in Entries : RecvResult(f))
    <3>1. UNCHANGED <<queue, hand, settled, unacked, unreported, pc, req, pending>>
      BY <1>11, <2>2 DEF Receiver, RecvStarted, RecvBackoff, RecvShuttingDown,
                         RecvEnd, Reconnect, ReconnectFails, RecvError
    <3> QED BY <1>2, <3>1 DEF Live
  <2> QED BY <2>1, <2>2
<1>12. ASSUME NEW f \in Entries, Add(f) \/ AddResumes(f) PROVE e \in Somewhere'
  <2>1. /\ queue' = queue \/ queue' = Append(queue, f)
        /\ UNCHANGED <<hand, settled, unacked, unreported, pc, req, pending>>
    BY <1>12 DEF Add, AddResumes, Push
  <2>2. EntriesOf(queue) \subseteq EntriesOf(queue')
    BY <1>0, <2>1, EntriesOfAppend
  <2> QED BY <2>1, <2>2 DEF Somewhere, Live, InHand, WithServer
<1>13. ASSUME Stop \/ StopReturns \/ UNCHANGED vars PROVE e \in Somewhere'
  BY <1>2, <1>13 DEF Stop, StopReturns, vars, Live
<1> QED BY <1>0, <1>3, <1>4, <1>5, <1>6, <1>11, <1>12, <1>13 DEF Next, Terminated, Poll, Generator

LEMMA NextKept ==
  TypeOK /\ HandHeld /\ StreamInv /\ CachedUntilSettled /\ Kept /\ [Next]_vars => Kept'
<1> SUFFICES ASSUME TypeOK, HandHeld, StreamInv, CachedUntilSettled, Kept, [Next]_vars,
                    rx' # "failed", Unspent("renew")', NEW k \in Kinds,
                    NEW e \in EntriesOf(accepted'[k]), OwnKey(e)
             PROVE  e \in Somewhere'
  BY DEF Kept, OwnKey
<1> USE DEF appVars, flagVars, resultVars, genVars, rxVars, srvVars
<1>0. /\ rx # "failed" /\ Unspent("renew") /\ queue \in Seq(Entries) /\ accepted \in Requests
      /\ accepted[k] \in Seq(Entries)
  BY FailedForGood, SpentForGood DEF StreamInv, Events, TypeOK, Requests
<1>1. ASSUME e \in EntriesOf(accepted[k]) PROVE e \in Somewhere'
  <2>1. e \in Somewhere
    BY <1>0, <1>1 DEF Kept
  <2> QED BY <1>0, <2>1, SomewhereStays
<1>2. ASSUME NEW f \in Entries, Push(f) PROVE e \in Somewhere'
  <2>1. EntriesOf(queue') = EntriesOf(queue) \cup {f}
    BY <1>0, <1>2, EntriesOfAppend DEF Push
  <2>2. accepted'[k] \in {accepted[k], Append(accepted[k], f)}
    BY <1>0, <1>2 DEF Push, Requests
  <2>3. EntriesOf(Append(accepted[k], f)) = EntriesOf(accepted[k]) \cup {f}
    BY <1>0, EntriesOfAppend
  <2>4. e \in EntriesOf(accepted[k]) \/ e = f
    BY <2>2, <2>3
  <2> QED BY <1>1, <2>1, <2>4 DEF Somewhere
<1>3. ASSUME NEW f \in Entries, Add(f) \/ AddResumes(f) PROVE Push(f) \/ accepted' = accepted
  BY <1>3 DEF Add, AddResumes
<1>4. Generator => accepted' = accepted
  BY DEF Generator, Begin, LeaveOnShutdown, RenewStream, PauseOnOom, LeaveOnOom, Wait,
         PullNothing, Finish, PullEntry, YieldAndPack
<1>5. Receiver => accepted' = accepted
  BY DEF Receiver, Connect, RecvStarted, RecvAcks, RecvBackoff, RecvOutOfMemory,
         RecvShuttingDown, RecvEnd, Reconnect, ReconnectFails, RecvError, RecvResult
<1>6. Stop \/ StopReturns \/ UNCHANGED vars => accepted' = accepted
  BY DEF Stop, StopReturns, vars
<1> QED BY <1>1, <1>2, <1>3, <1>4, <1>5, <1>6 DEF Next, Terminated, Poll

LEMMA InitOnceInv == Init => OnceInv
<1> SUFFICES ASSUME Init PROVE OnceInv
  OBVIOUS
<1>1. /\ queue = <<>> /\ hand = NoEntry /\ req = EmptyReq /\ pending = EmptyReq /\ pc = "closed"
      /\ unacked = <<>> /\ unreported = {}
      /\ \A k \in Kinds : sent[k] = <<>> /\ accepted[k] = <<>> /\ req[k] = <<>> /\ pending[k] = <<>>
  BY DEF Init, EmptyReq
<1>2. \A k \in Kinds : Holds(k) = <<>>
  BY <1>1 DEF Holds, Live, HandOf
<1>3. EntriesOf(<<>>) = {} /\ NoRepeats(<<>>)
  BY DEF EntriesOf, NoRepeats
<1>4. QueuedOnce
  <2>1. \A k \in Kinds : NoRepeats(sent[k]) /\ OnePlace(k)
    BY <1>1, <1>2, <1>3 DEF OnePlace
  <2> QED BY <1>1, <1>3, <2>1 DEF QueuedOnce, SentOnce, NoRepeats
<1>5. Reached = {}
  BY <1>1, InReqEmpty, InHandEntries DEF Reached, WithServer
<1>6. Kept
  BY <1>1, <1>3 DEF Kept
<1> QED BY <1>4, <1>5, <1>6 DEF OnceInv, CachedUntilSettled

LEMMA OnceInvariance == Spec => []OnceInv
<1>1. IInv /\ IInv' /\ StreamInv /\ OnceInv /\ [Next]_vars => OnceInv'
  BY NextQueuedOnce, NextCachedUntilSettled, NextKept DEF IInv, OnceInv
<1> QED BY <1>1, InitOnceInv, Invariance, StreamInvariance, PTL DEF Spec

\* Every entry goes to the server, and once: none is sent twice while the server
\* refuses nothing, whether it shuts down or the stream is renewed, and none
\* with a key of its own is lost while no stream is renewed, whether the server
\* shuts down or runs out of memory (generateStreamRequests, do, restart).
THEOREM NoneLostOrSentTwice == Spec => []EachSentOnce
<1>1. OnceInv => EachSentOnce
  <2> SUFFICES ASSUME OnceInv PROVE EachSentOnce
    OBVIOUS
  <2>1. SentOnce
    BY DEF OnceInv, QueuedOnce, SentOnce
  <2>2. InReq(Live) \subseteq InReq(req) \cup InReq(pending)
    BY DEF Live
  <2>3. Somewhere \subseteq EntriesOf(queue) \cup EntriesOf(InHand) \cup InReq(req)
               \cup InReq(pending) \cup unreported \cup settled
               \cup UNION {InReq(unacked[j]) : j \in DOMAIN unacked}
    BY <2>2 DEF Somewhere, WithServer
  <2>4. NoneLost
    BY <2>3 DEF OnceInv, Kept, NoneLost, OwnKey
  <2> QED BY <2>1, <2>4 DEF EachSentOnce
<1> QED BY <1>1, OnceInvariance, PTL

-----------------------------------------------------------------------------
(***************************************************************************)
(* What ingest returns: a result tells what became of an entry, and the    *)
(* indices of the results of a stream that ended well are those of the     *)
(* calls.                                                                  *)
(***************************************************************************)
KeysFound == \A key \in Keys : cache[key] # NotCached => KeyOf[cache[key].entry] = key

ResultsTold ==
  DistinctKeys =>
    \A k \in Kinds, i \in Indices :
      /\ successes[k][i] # NoKey => \E e \in Entries \ Failing : successes[k][i] = KeyOf[e]
      /\ errors[k][i] # NoEntry => errors[k][i] \in Failing

Told == KeysFound /\ ResultsTold

LEMMA NextKeysFound == TypeOK /\ KeysFound /\ [Next]_vars => KeysFound'
<1> SUFFICES ASSUME TypeOK, KeysFound, [Next]_vars, NEW key \in Keys, cache'[key] # NotCached
             PROVE  KeyOf[cache'[key].entry] = key
  BY DEF KeysFound
<1> USE DEF appVars, flagVars, resultVars, genVars, rxVars, srvVars
<1>0. cache \in [Keys -> [entry : Entries \cup {NoEntry}, index : Nat]]
  BY DEF TypeOK
<1>1. ASSUME PullEntry PROVE KeyOf[cache'[key].entry] = key
  <2> DEFINE e == Head(queue)
  <2>1. cache' = [cache EXCEPT ![KeyOf[e]] = [entry |-> e, index |-> IndexOf(e)]]
    BY <1>1 DEF PullEntry
  <2>2. CASE key = KeyOf[e]
    BY <1>0, <2>1, <2>2
  <2>3. CASE key # KeyOf[e]
    BY <1>0, <2>1, <2>3 DEF KeysFound
  <2> QED BY <2>2, <2>3
<1>2. ASSUME NEW e \in Entries, RecvResult(e) PROVE KeyOf[cache'[key].entry] = key
  <2>1. cache' = cache \/ cache' = [cache EXCEPT ![KeyOf[e]] = NotCached]
    BY <1>2 DEF RecvResult
  <2> QED BY <1>0, <2>1 DEF KeysFound
<1>3. ASSUME Generator, ~PullEntry PROVE cache' = cache
  BY <1>3 DEF Generator, Begin, LeaveOnShutdown, RenewStream, PauseOnOom, LeaveOnOom, Wait,
              PullNothing, Finish, YieldAndPack
<1>4. ASSUME Receiver, ~ \E e \in Entries : RecvResult(e) PROVE cache' = cache
  BY <1>4 DEF Receiver, Connect, RecvStarted, RecvAcks, RecvBackoff, RecvOutOfMemory,
              RecvShuttingDown, RecvEnd, Reconnect, ReconnectFails, RecvError
<1>5. ASSUME NEW e \in Entries, Add(e) \/ AddResumes(e) PROVE cache' = cache
  BY <1>5 DEF Add, AddResumes
<1>6. Stop \/ StopReturns \/ UNCHANGED vars => cache' = cache
  BY DEF Stop, StopReturns, vars
<1>7. cache' = cache => KeyOf[cache'[key].entry] = key
  BY DEF KeysFound
<1> QED BY <1>1, <1>2, <1>3, <1>4, <1>5, <1>6, <1>7 DEF Next, Terminated, Poll

LEMMA NextResultsTold == TypeOK /\ KeysFound /\ ResultsTold /\ [Next]_vars => ResultsTold'
<1> DEFINE GoodKey(key) == key # NoKey => \E e \in Entries \ Failing : key = KeyOf[e]
           GoodEntry(e) == e # NoEntry => e \in Failing
<1> SUFFICES ASSUME TypeOK, KeysFound, ResultsTold, [Next]_vars, DistinctKeys,
                    NEW k \in Kinds, NEW i \in Indices
             PROVE  GoodKey(successes'[k][i]) /\ GoodEntry(errors'[k][i])
  BY DEF ResultsTold, DistinctKeys
<1> USE DEF appVars, flagVars, resultVars, genVars, rxVars, srvVars
<1>1. GoodKey(successes[k][i]) /\ GoodEntry(errors[k][i])
  BY DEF ResultsTold
<1>2. ASSUME NEW e \in Entries, RecvResult(e)
      PROVE  GoodKey(successes'[k][i]) /\ GoodEntry(errors'[k][i])
  <2> DEFINE key == KeyOf[e]
             c == cache[key]
             h == KindOf[e]
  <2>1. /\ key \in Keys /\ h \in Kinds /\ c.entry \in Entries \cup {NoEntry}
        /\ successes \in [Kinds -> [Indices -> Keys \cup {NoKey}]]
        /\ errors \in [Kinds -> [Indices -> Entries \cup {NoEntry}]]
    BY KindType DEF TypeOK, Keys
  <2>2. CASE c = NotCached
    BY <1>1, <1>2, <2>2 DEF RecvResult
  <2>3. CASE c # NotCached /\ e \in Failing
    <3>1. /\ errors' = [errors EXCEPT ![h][c.index] = c.entry] /\ UNCHANGED successes
      BY <1>2, <2>3 DEF RecvResult
    <3>2. GoodEntry(c.entry)
      <4>1. KeyOf[c.entry] = KeyOf[e]
        BY <2>1, <2>3 DEF KeysFound
      <4> QED BY <2>1, <2>3, <4>1 DEF DistinctKeys
    <3>3. errors'[k][i] \in {c.entry, errors[k][i]}
      BY <2>1, <3>1
    <3> QED BY <1>1, <3>1, <3>2, <3>3
  <2>4. CASE c # NotCached /\ e \notin Failing
    <3>1. successes' = [successes EXCEPT ![h][c.index] = key] /\ UNCHANGED errors
      BY <1>2, <2>4 DEF RecvResult
    <3>2. GoodKey(key)
      BY <2>4
    <3>3. successes'[k][i] \in {key, successes[k][i]}
      BY <2>1, <3>1
    <3> QED BY <1>1, <3>1, <3>2, <3>3
  <2> QED BY <2>2, <2>3, <2>4
<1>3. Generator => UNCHANGED <<successes, errors>>
  BY DEF Generator, Begin, LeaveOnShutdown, RenewStream, PauseOnOom, LeaveOnOom, Wait,
         PullNothing, Finish, PullEntry, YieldAndPack
<1>4. Receiver /\ ~(\E e \in Entries : RecvResult(e)) => UNCHANGED <<successes, errors>>
  BY DEF Receiver, Connect, RecvStarted, RecvAcks, RecvBackoff, RecvOutOfMemory,
         RecvShuttingDown, RecvEnd, Reconnect, ReconnectFails, RecvError
<1>5. Stop \/ StopReturns \/ UNCHANGED vars => UNCHANGED <<successes, errors>>
  BY DEF Stop, StopReturns, vars
<1>6. (\E e \in Entries : Add(e) \/ AddResumes(e)) => UNCHANGED <<successes, errors>>
  BY DEF Add, AddResumes
<1>7. UNCHANGED <<successes, errors>> => GoodKey(successes'[k][i]) /\ GoodEntry(errors'[k][i])
  BY <1>1
<1> QED BY <1>2, <1>3, <1>4, <1>5, <1>6, <1>7 DEF Next, Terminated, Poll

LEMMA ToldInvariance == Spec => []Told
<1>1. Init => Told
  <2> SUFFICES ASSUME Init PROVE Told
    OBVIOUS
  <2>1. /\ \A key \in Keys : cache[key] = NotCached
        /\ \A k \in Kinds, i \in Indices : successes[k][i] = NoKey /\ errors[k][i] = NoEntry
    BY DEF Init
  <2> QED BY <2>1 DEF Told, KeysFound, ResultsTold
<1>2. IInv /\ Told /\ [Next]_vars => Told'
  BY NextKeysFound, NextResultsTold DEF IInv, Told
<1> QED BY <1>1, <1>2, Invariance, PTL DEF Spec

LEMMA FirstIndices ==
  ASSUME NEW n \in Nat
  PROVE  IsFiniteSet(0 .. n - 1) /\ Cardinality(0 .. n - 1) = n
<1>1. 0 \in Int /\ n - 1 \in Int
  OBVIOUS
<1>2. /\ IsFiniteSet(0 .. n - 1)
      /\ Cardinality(0 .. n - 1) = IF 0 > n - 1 THEN 0 ELSE (n - 1) - 0 + 1
  BY <1>1, FS_Interval
<1> QED BY <1>2

LEMMA NthOfFirst ==
  ASSUME NEW n \in Nat, NEW j \in 1 .. n
  PROVE  NthOf(0 .. n - 1, j) = j - 1
<1> DEFINE S == 0 .. n - 1
           Below(i) == {h \in S : h < i}
<1>1. ASSUME NEW i \in S PROVE Cardinality(Below(i)) = i
  <2>1. Below(i) = 0 .. i - 1 /\ i \in Nat
    OBVIOUS
  <2> QED BY <2>1, FirstIndices
<1>2. NthOf(S, j) = CHOOSE i \in S : Cardinality(Below(i)) = j - 1
  BY DEF NthOf
<1>3. j - 1 \in S
  OBVIOUS
<1> HIDE DEF S, Below
<1>4. \A i \in S : Cardinality(Below(i)) = j - 1 <=> i = j - 1
  BY <1>1
<1> QED BY <1>2, <1>3, <1>4 DEF S

\* What the results are when each call has one.
LEMMA EachCallAnswered ==
  ASSUME TypeOK, CallsDistinct, ResultsMatchCalls, ResultsTold, EndedComplete, Undisturbed, DistinctKeys,
         rx = "ended", Len(accepted["obj"]) = acceptedAtStop["obj"], NEW i \in Indices
  PROVE  LET a == accepted["obj"] IN
         /\ i < Len(a) => IF a[i + 1] \in Failing THEN UuidAt(i) = NoKey /\ ErrorAt(i) = a[i + 1]
                          ELSE UuidAt(i) = KeyOf[a[i + 1]] /\ ErrorAt(i) = NoEntry
         /\ ~(i < Len(a)) => UuidAt(i) = NoKey /\ ErrorAt(i) = NoEntry
<1> DEFINE a == accepted["obj"]
           u == UuidAt(i)
           e == ErrorAt(i)
<1>1. /\ "obj" \in Kinds /\ i \in Nat /\ Len(a) \in Nat /\ a \in Seq(Entries)
  BY BudgetAssumption, EntriesAssumption, LenProperties
     DEF Kinds, Indices, TypeOK, Requests, Events
<1>2. /\ u # NoKey => i < Len(a) /\ u = KeyOf[a[i + 1]]
      /\ e # NoEntry => i < Len(a) /\ e = a[i + 1]
  BY <1>1 DEF ResultsMatchCalls, UuidAt, ErrorAt
<1>3. /\ u # NoKey => \E f \in Entries \ Failing : u = KeyOf[f]
      /\ e # NoEntry => e \in Failing
  BY <1>1 DEF ResultsTold, UuidAt, ErrorAt
<1>4. ASSUME i < Len(a)
      PROVE  /\ a[i + 1] \in Entries /\ a[i + 1] # NoEntry /\ KeyOf[a[i + 1]] # NoKey
             /\ u = KeyOf[a[i + 1]] \/ e = a[i + 1]
  <2>1. i + 1 \in 1 .. Len(a) /\ (i + 1) - 1 = i
    BY <1>1, <1>4
  <2>2. a[i + 1] \in Entries /\ KeyOf[a[i + 1]] \in Keys
    BY <1>1, <2>1 DEF Keys
  <2>3. successes["obj"][(i + 1) - 1] = KeyOf[a[i + 1]] \/ errors["obj"][(i + 1) - 1] = a[i + 1]
    BY <1>1, <2>1 DEF EndedComplete
  <2>4. u = KeyOf[a[i + 1]] \/ e = a[i + 1]
    BY <2>1, <2>3 DEF UuidAt, ErrorAt
  <2>5. a[i + 1] # NoEntry /\ KeyOf[a[i + 1]] # NoKey
    BY <2>2, EntriesType, KeysAssumption DEF NoEntry
  <2> QED BY <2>2, <2>4, <2>5
<1> HIDE DEF u, e, a
<1>5. ASSUME i < Len(a), a[i + 1] \in Failing PROVE u = NoKey /\ e = a[i + 1]
  <2>1. u = NoKey
    BY <1>2, <1>3, <1>4, <1>5 DEF DistinctKeys
  <2> QED BY <1>4, <1>5, <2>1
<1>6. ASSUME i < Len(a), a[i + 1] \notin Failing PROVE u = KeyOf[a[i + 1]] /\ e = NoEntry
  <2>1. e = NoEntry
    BY <1>2, <1>3, <1>4, <1>6
  <2> QED BY <1>4, <1>6, <2>1
<1>7. ASSUME ~(i < Len(a)) PROVE u = NoKey /\ e = NoEntry
  BY <1>2, <1>7
<1> QED BY <1>5, <1>6, <1>7 DEF u, e, a

\* When ingest returns after a stream that ended well it has one response for
\* each of its objects, in their order (ingest, uuids and objErrors).
THEOREM IngestReturnsAll == Spec => []IngestAnswersAll
<1>1. ASSUME TypeOK, CallsDistinct, ResultsMatchCalls, ResultsTold, EndsClean, Undisturbed, DistinctKeys,
             rx = "ended", Len(accepted["obj"]) = acceptedAtStop["obj"]
      PROVE  AllResponses = [i \in DOMAIN accepted["obj"] |-> ResponseTo(accepted["obj"][i])]
  <2> DEFINE a == accepted["obj"]
             n == Len(a)
             U == {i \in Indices : UuidAt(i) # NoKey}
             E == {i \in Indices : ErrorAt(i) # NoEntry}
  <2>1. /\ "obj" \in Kinds /\ n \in Nat /\ a \in Seq(Entries) /\ DOMAIN a = 1 .. n
    BY <1>1, LenProperties DEF Kinds, TypeOK, Requests
  <2>2. \A i \in 0 .. n - 1 : i \in Indices /\ i + 1 \in 1 .. n
    <3> SUFFICES ASSUME NEW i \in 0 .. n - 1 PROVE i \in Indices /\ i + 1 \in 1 .. n
      OBVIOUS
    <3>1. i + 1 \in 1 .. n /\ (i + 1) - 1 = i
      BY <2>1
    <3> QED BY <1>1, <2>1, <3>1, PlaceIsIndex
  <2>3. /\ \A i \in Indices : i \in Nat
        /\ \A i \in Indices : i < n =>
              IF a[i + 1] \in Failing THEN UuidAt(i) = NoKey /\ ErrorAt(i) = a[i + 1]
              ELSE UuidAt(i) = KeyOf[a[i + 1]] /\ ErrorAt(i) = NoEntry
        /\ \A i \in Indices : ~(i < n) => UuidAt(i) = NoKey /\ ErrorAt(i) = NoEntry
    BY <1>1, EachCallAnswered DEF EndsClean, Indices
  <2>4. \A i \in 1 .. n : a[i] \in Entries /\ a[i] # NoEntry /\ KeyOf[a[i]] # NoKey
    <3>1. \A i \in 1 .. n : a[i] \in Entries /\ KeyOf[a[i]] \in Keys
      BY <2>1 DEF Keys
    <3> QED BY <3>1, EntriesType, KeysAssumption DEF NoEntry
  <2> HIDE DEF a, n
  <2>5. /\ U \cup E = 0 .. n - 1 /\ U \cap E = {}
    BY <2>1, <2>2, <2>3, <2>4
  <2> HIDE DEF U, E
  <2>6. ResultCount = n
    <3>1. IsFiniteSet(U) /\ IsFiniteSet(E)
      BY <2>1, <2>5, FirstIndices, FS_Subset
    <3>2. Cardinality(U \cup E) = Cardinality(U) + Cardinality(E)
      <4>1. /\ Cardinality(U \cup E) = Cardinality(U) + Cardinality(E) - Cardinality(U \cap E)
            /\ Cardinality(U \cap E) = 0
        BY <2>5, <3>1, FS_Union, FS_EmptySet
      <4>2. Cardinality(U) \in Nat /\ Cardinality(E) \in Nat
        BY <3>1, FS_CardinalityType
      <4> QED BY <4>1, <4>2
    <3> QED BY <2>1, <2>5, <3>2, FirstIndices DEF ResultCount, UuidCount, U, E
  <2>7. Pushed = 0 .. n - 1
    <3>1. \A i \in Indices : UuidAt(i) # NoKey \/ ErrorAt(i) # NoEntry <=> i \in U \cup E
      BY DEF U, E
    <3> QED BY <2>1, <2>2, <2>5, <2>6, <3>1 DEF Pushed
  <2>8. AllResponses = [j \in 1 .. n |-> ResponseAt(j - 1)]
    <3>1. Cardinality(Pushed) = n
      BY <2>1, <2>7, FirstIndices
    <3>2. \A j \in 1 .. n : NthOf(Pushed, j) = j - 1
      BY <2>1, <2>7, NthOfFirst
    <3> QED BY <3>1, <3>2 DEF AllResponses
  <2>9. ASSUME NEW j \in 1 .. n PROVE ResponseAt(j - 1) = ResponseTo(a[j])
    <3>1. j - 1 \in 0 .. n - 1 /\ (j - 1) + 1 = j /\ j - 1 < n
      BY <2>1
    <3>2. IF a[j] \in Failing THEN UuidAt(j - 1) = NoKey /\ ErrorAt(j - 1) = a[j]
          ELSE UuidAt(j - 1) = KeyOf[a[j]] /\ ErrorAt(j - 1) = NoEntry
      BY <2>2, <2>3, <3>1
    <3> QED BY <2>4, <3>2 DEF ResponseAt, ResponseTo
  <2>10. AllResponses = [j \in 1 .. n |-> ResponseTo(a[j])]
    BY <2>8, <2>9
  <2> QED BY <2>1, <2>10 DEF a
<1>2. IInv /\ EndInv /\ ResultsMatchCalls /\ Told /\ EndsClean => IngestAnswersAll
  BY <1>1 DEF IInv, EndInv, Told, IngestAnswersAll
<1> QED BY <1>2, Invariance, EndInvariance, ResultsUnderTheirCalls, ToldInvariance, EndsWell, PTL
-----------------------------------------------------------------------------
(***************************************************************************)
(* Refinement: an entry is accepted when a call pushes it, its outcome is  *)
(* known when its result is recorded, and the stream is over when start    *)
(* returns.                                                                *)
(***************************************************************************)
\* What a step leaves that touches neither calls nor results.
Undelivered ==
  /\ UNCHANGED <<accepted, successes, errors, acceptedAtStop>>
  /\ (stopping' # "no") = (stopping # "no")
  /\ (rx' = "ended") = (rx = "ended")

LEMMA UndeliveredStutters == Undelivered => UNCHANGED Promised!deliveryVars
<1> SUFFICES ASSUME Undelivered PROVE UNCHANGED Promised!deliveryVars
  OBVIOUS
<1>1. Results' = Results
  BY DEF Undelivered, Results
<1> QED BY <1>1, Zenon DEF Undelivered, Promised!deliveryVars

LEMMA InitDelivers == Init => Promised!Init
<1> SUFFICES ASSUME Init PROVE Promised!Init
  OBVIOUS
<1>1. Results = [k \in Kinds |-> [i \in Indices |-> ResultIs(NoKey, NoEntry)]]
  <2>1. \A k \in Kinds : \A i \in Indices : successes[k][i] = NoKey /\ errors[k][i] = NoEntry
    BY DEF Init
  <2> QED BY <2>1, Zenon DEF Results
<1> QED BY <1>1, Zenon DEF Init, Promised!Init

\* A call that is accepted, of an entry that was not.
LEMMA PushDelivers ==
  ASSUME TypeOK, CallsDistinct, NEW e \in Entries, call[e] # "added", Push(e),
         UNCHANGED <<successes, errors, acceptedAtStop, stopping, rx>>
  PROVE  Promised!Accept(e)
<1>1. \A k \in Kinds : \A i \in DOMAIN accepted[k] : accepted[k][i] # e
  BY DEF CallsDistinct
<1>2. accepted' = [accepted EXCEPT ![KindOf[e]] = Append(@, e)]
  BY DEF Push
<1>3. Results' = Results
  BY DEF Results
<1> QED BY <1>1, <1>2, <1>3, Zenon DEF Promised!Accept

LEMMA AppDelivers ==
  ASSUME TypeOK, CallsDistinct,
         Stop \/ StopReturns \/ \E e \in Entries : Add(e) \/ AddResumes(e)
  PROVE  [Promised!Next]_Promised!deliveryVars
<1> USE DEF appVars, flagVars, resultVars, genVars, rxVars, srvVars
<1>1. CASE Stop
  <2>1. /\ stopping = "no" /\ stopping' # "no" /\ acceptedAtStop' = [k \in Kinds |-> Len(accepted[k])]
        /\ UNCHANGED <<accepted, successes, errors, rx>>
    BY <1>1 DEF Stop
  <2>2. Results' = Results
    BY <2>1 DEF Results
  <2>3. Promised!Close
    BY <2>1, <2>2, Zenon DEF Promised!Close
  <2> QED BY <2>3 DEF Promised!Next
<1>2. CASE StopReturns
  <2>1. Undelivered
    BY <1>2 DEF StopReturns, Undelivered
  <2> QED BY <2>1, UndeliveredStutters
<1>3. ASSUME NEW e \in Entries, Add(e) \/ AddResumes(e) PROVE [Promised!Next]_Promised!deliveryVars
  <2>1. UNCHANGED <<successes, errors, acceptedAtStop, stopping, rx>> /\ call[e] # "added"
    BY <1>3 DEF Add, AddResumes
  <2>2. accepted' = accepted \/ Push(e)
    BY <1>3 DEF Add, AddResumes
  <2>3. CASE accepted' = accepted
    BY <2>1, <2>3, UndeliveredStutters DEF Undelivered
  <2>4. CASE Push(e)
    BY <2>1, <2>4, PushDelivers DEF Promised!Next
  <2> QED BY <2>2, <2>3, <2>4
<1> QED BY <1>1, <1>2, <1>3

LEMMA GeneratorDelivers ==
  ASSUME Phases, Generator
  PROVE  Undelivered
<1> USE DEF appVars, flagVars, resultVars, genVars, rxVars, srvVars
<1>1. UNCHANGED <<accepted, successes, errors, acceptedAtStop, stopping>>
  BY DEF Generator, Begin, LeaveOnShutdown, RenewStream, PauseOnOom, LeaveOnOom, Wait,
         PullNothing, Finish, PullEntry, YieldAndPack
<1>2. rx' = rx \/ (rx = "open" /\ rx' = "failed")
  BY DEF Generator, Begin, LeaveOnShutdown, RenewStream, PauseOnOom, LeaveOnOom, Wait,
         PullNothing, Finish, PullEntry, YieldAndPack, Phases
<1> QED BY <1>1, <1>2 DEF Undelivered

\* The stream ends when everything accepted before stop has its result.
LEMMA EndDelivers ==
  ASSUME TypeOK, EndInv, EndedComplete', Undisturbed, RecvEnd, rx' = "ended"
  PROVE  Promised!End
<1> USE DEF appVars, flagVars, resultVars, genVars, rxVars, srvVars
<1>1. /\ rx = "open" /\ pc = "closed" /\ ~isShuttingDown
      /\ UNCHANGED <<accepted, acceptedAtStop, stopping, successes, errors>>
  BY DEF RecvEnd
<1>2. stopping # "no"
  BY <1>1 DEF EndInv, Closing
<1>3. ASSUME NEW k \in Kinds, NEW i \in Indices, i < acceptedAtStop[k]
      PROVE  Results[k][i] # ResultIs(NoKey, NoEntry)
  <2>1. /\ i \in Nat /\ acceptedAtStop[k] \in Nat /\ accepted[k] \in Seq(Entries)
        /\ Len(accepted[k]) \in Nat /\ acceptedAtStop[k] <= Len(accepted[k])
    <3>1. accepted[k] \in Seq(Entries) /\ Len(accepted[k]) \in Nat
      BY TakenType, LenProperties
    <3>2. acceptedAtStop[k] \in Nat /\ acceptedAtStop[k] <= Len(accepted[k])
      BY DEF TypeOK, EndInv, CallsDistinct
    <3> QED BY <3>1, <3>2, BudgetAssumption, EntriesAssumption DEF Indices, Events
  <2>2. i + 1 \in 1 .. acceptedAtStop[k] /\ (i + 1) - 1 = i /\ i + 1 \in 1 .. Len(accepted[k])
    BY <1>3, <2>1
  <2>3. successes[k][i] = KeyOf[accepted[k][i + 1]] \/ errors[k][i] = accepted[k][i + 1]
    BY <1>1, <2>2 DEF EndedComplete
  <2>4. accepted[k][i + 1] \in Entries /\ KeyOf[accepted[k][i + 1]] \in Keys
    BY <2>1, <2>2 DEF Keys
  <2>5. successes[k][i] # NoKey \/ errors[k][i] # NoEntry
    BY <2>3, <2>4, EntriesType, KeysAssumption DEF NoEntry
  <2>6. Results[k][i] = ResultIs(successes[k][i], errors[k][i])
    BY DEF Results
  <2> QED BY <2>5, <2>6 DEF ResultIs
<1>4. Results' = Results
  BY <1>1 DEF Results
<1> QED BY <1>1, <1>2, <1>3, <1>4, Zenon DEF Promised!End

\* A function of functions that differs from another at one place.
LEMMA SetNested ==
  ASSUME NEW K, NEW I, NEW F, NEW G,
         F = [l \in K |-> [j \in I |-> F[l][j]]], G = [l \in K |-> [j \in I |-> G[l][j]]],
         NEW k \in K, NEW i \in I, NEW v,
         \A l \in K : \A j \in I : G[l][j] = IF l = k /\ j = i THEN v ELSE F[l][j]
  PROVE  G = [F EXCEPT ![k][i] = v]
<1>1. /\ DOMAIN F = K /\ DOMAIN G = K
      /\ \A l \in K : F[l] = [j \in I |-> F[l][j]]
      /\ \A l \in K : G[l] = [j \in I |-> G[l][j]]
  <2> DEFINE f == [l \in K |-> [j \in I |-> F[l][j]]]
             g == [l \in K |-> [j \in I |-> G[l][j]]]
  <2>1. DOMAIN f = K /\ DOMAIN g = K /\ \A l \in K : f[l] = [j \in I |-> F[l][j]] /\ g[l] = [j \in I |-> G[l][j]]
    OBVIOUS
  <2>2. F = f /\ G = g
    OBVIOUS
  <2> HIDE DEF f, g
  <2> QED BY <2>1, <2>2
<1>2. G[k] = [F[k] EXCEPT ![i] = v]
  <2>1. DOMAIN F[k] = I /\ \A j \in I : G[k][j] = IF j = i THEN v ELSE F[k][j]
    BY <1>1
  <2>2. [F[k] EXCEPT ![i] = v] = [j \in I |-> IF j = i THEN v ELSE F[k][j]]
    BY <2>1
  <2>3. [j \in I |-> G[k][j]] = [j \in I |-> IF j = i THEN v ELSE F[k][j]]
    BY <2>1
  <2> QED BY <1>1, <2>2, <2>3
<1>3. ASSUME NEW l \in K, l # k PROVE G[l] = F[l]
  <2>1. [j \in I |-> G[l][j]] = [j \in I |-> F[l][j]]
    BY <1>3
  <2> QED BY <1>1, <2>1
<1>4. [F EXCEPT ![k][i] = v] = [l \in K |-> IF l = k THEN [F[k] EXCEPT ![i] = v] ELSE F[l]]
  BY <1>1
<1>5. G = [l \in K |-> G[l]]
  BY <1>1
<1> QED BY <1>2, <1>3, <1>4, <1>5

\* A result is recorded at the place of its call; one that was there said the
\* same.
LEMMA ResultDelivers ==
  ASSUME TypeOK, CallsDistinct, ResultsInv, ResultsTold, Undisturbed, DistinctKeys,
         NEW e \in Entries, RecvResult(e)
  PROVE  [Promised!Next]_Promised!deliveryVars
<1> USE DEF appVars, flagVars, resultVars, genVars, rxVars, srvVars
<1> DEFINE c == cache[KeyOf[e]]
           k == KindOf[e]
           i == c.index
<1>1. /\ rx = "open" /\ UNCHANGED <<accepted, acceptedAtStop, stopping, rx>>
      /\ k \in Kinds /\ KeyOf[e] \in Keys
  BY KindType DEF RecvResult, Keys
<1>2. CASE c = NotCached
  <2>1. Undelivered
    BY <1>1, <1>2 DEF RecvResult, Undelivered
  <2> QED BY <2>1, UndeliveredStutters
<1>3. CASE c # NotCached
  <2>1. c.entry = e /\ i < Len(accepted[k]) /\ accepted[k][i + 1] = e
    BY <1>1, <1>3 DEF ResultsInv, CachedRight, Recorded, DistinctKeys
  <2>2. i \in Indices
    <3>1. i \in Nat /\ Len(accepted[k]) \in Nat
      BY <1>1, TakenType, LenProperties DEF TypeOK
    <3>2. i + 1 \in 1 .. Len(accepted[k]) /\ (i + 1) - 1 = i
      BY <2>1, <3>1
    <3> QED BY <1>1, <3>2, PlaceIsIndex
  <2>3. IF e \in Failing
        THEN errors' = [errors EXCEPT ![k][i] = e] /\ successes' = successes
        ELSE successes' = [successes EXCEPT ![k][i] = KeyOf[e]] /\ errors' = errors
    BY <1>3, <2>1 DEF RecvResult
  <2>4. /\ successes \in [Kinds -> [Indices -> Keys \cup {NoKey}]]
        /\ errors \in [Kinds -> [Indices -> Entries \cup {NoEntry}]]
    BY DEF TypeOK
  <2> DEFINE s == successes[k][i]
             r == errors[k][i]
  <2>5. /\ s # NoKey => s = KeyOf[e] /\ e \notin Failing
        /\ r # NoEntry => r = e /\ e \in Failing
    <3>1. /\ s # NoKey => s = KeyOf[accepted[k][i + 1]]
          /\ r # NoEntry => r = accepted[k][i + 1]
      BY <1>1, <2>2 DEF ResultsInv, ResultsMatchCalls
    <3>2. /\ s # NoKey => \E f \in Entries \ Failing : s = KeyOf[f]
          /\ r # NoEntry => r \in Failing
      BY <1>1, <2>2 DEF ResultsTold
    <3> QED BY <2>1, <3>1, <3>2 DEF DistinctKeys
  <2>6. ASSUME NEW l \in Kinds, NEW j \in Indices
        PROVE  ResultIs(successes'[l][j], errors'[l][j]) =
                 IF l = k /\ j = i THEN ResultOf[e] ELSE ResultIs(successes[l][j], errors[l][j])
    <3>1. ResultOf[e] = IF e \in Failing THEN ResultIs(NoKey, e) ELSE ResultIs(KeyOf[e], NoEntry)
      BY DEF ResultOf
    <3>2. CASE l = k /\ j = i
      <4>1. CASE e \in Failing
        <5>1. errors'[l][j] = e /\ successes'[l][j] = NoKey
          BY <1>1, <2>2, <2>3, <2>4, <2>5, <3>2, <4>1
        <5> QED BY <3>1, <3>2, <4>1, <5>1
      <4>2. CASE e \notin Failing
        <5>1. successes'[l][j] = KeyOf[e] /\ errors'[l][j] = NoEntry
          BY <1>1, <2>2, <2>3, <2>4, <2>5, <3>2, <4>2
        <5> QED BY <3>1, <3>2, <4>2, <5>1
      <4> QED BY <4>1, <4>2
    <3>3. CASE ~(l = k /\ j = i)
      <4>1. successes'[l][j] = successes[l][j] /\ errors'[l][j] = errors[l][j]
        BY <1>1, <2>2, <2>3, <2>4, <3>3
      <4> QED BY <3>3, <4>1
    <3> QED BY <3>2, <3>3
  <2> HIDE DEF c, k, i
  <2>7. /\ Results = [l \in Kinds |-> [j \in Indices |-> Results[l][j]]]
        /\ Results' = [l \in Kinds |-> [j \in Indices |-> Results'[l][j]]]
        /\ \A l \in Kinds : \A j \in Indices :
             Results'[l][j] = IF l = k /\ j = i THEN ResultOf[e] ELSE Results[l][j]
    <3>1. /\ Results = [l \in Kinds |-> [j \in Indices |-> ResultIs(successes[l][j], errors[l][j])]]
          /\ Results' = [l \in Kinds |-> [j \in Indices |-> ResultIs(successes'[l][j], errors'[l][j])]]
      BY Zenon DEF Results
    <3>2. \A l \in Kinds : \A j \in Indices :
            /\ Results[l][j] = ResultIs(successes[l][j], errors[l][j])
            /\ Results'[l][j] = ResultIs(successes'[l][j], errors'[l][j])
      BY <3>1
    <3>3. /\ Results = [l \in Kinds |-> [j \in Indices |-> Results[l][j]]]
          /\ Results' = [l \in Kinds |-> [j \in Indices |-> Results'[l][j]]]
      BY <3>1, <3>2, Zenon
    <3> QED BY <2>6, <3>2, <3>3
  <2>8. Results[k][i] = ResultIs(s, r)
    BY <1>1, <2>2 DEF Results
  <2>9. CASE Results[k][i] = ResultIs(NoKey, NoEntry)
    <3>1. Promised!Report(k, i)
      <4>1. Results' = [Results EXCEPT ![k][i] = ResultOf[accepted[k][i + 1]]]
        BY <1>1, <2>1, <2>2, <2>7, SetNested
      <4>2. i < Len(accepted[k]) /\ rx # "ended"
        BY <1>1, <2>1
      <4> QED BY <1>1, <2>9, <4>1, <4>2, Zenon DEF Promised!Report
    <3> QED BY <1>1, <2>2, <3>1 DEF Promised!Next
  <2>10. CASE Results[k][i] # ResultIs(NoKey, NoEntry)
    <3>1. ResultOf[e] = Results[k][i]
      BY <2>5, <2>8, <2>10 DEF ResultOf
    <3>2. \A l \in Kinds : \A j \in Indices : Results'[l][j] = Results[l][j]
      BY <2>7, <3>1
    <3>3. Results' = Results
      BY <2>7, <3>2, Zenon
    <3> QED BY <1>1, <3>3, Zenon DEF Promised!deliveryVars
  <2> QED BY <2>9, <2>10
<1> QED BY <1>2, <1>3

LEMMA StepDelivers ==
  ASSUME IInv, StreamInv, EndInv, ResultsInv, Told, DistinctKeys, Undisturbed, Undisturbed',
         EndsClean', [Next]_vars
  PROVE  [Promised!Next]_Promised!deliveryVars
<1> USE DEF appVars, flagVars, resultVars, genVars, rxVars, srvVars
<1>0. TypeOK /\ Phases /\ CallsDistinct /\ ResultsTold
  BY DEF IInv, StreamInv, EndInv, Told
<1>1. CASE Generator
  BY <1>0, <1>1, GeneratorDelivers, UndeliveredStutters
<1>2. ASSUME NEW e \in Entries, RecvResult(e) PROVE [Promised!Next]_Promised!deliveryVars
  BY <1>0, <1>2, ResultDelivers
<1>3. CASE RecvEnd
  <2>1. CASE rx' = "ended"
    <3>1. EndedComplete'
      BY <2>1 DEF EndsClean, DistinctKeys
    <3> QED BY <1>0, <1>3, <2>1, <3>1, EndDelivers DEF Promised!Next
  <2>2. CASE rx' # "ended"
    <3>1. Undelivered
      BY <1>3, <2>2 DEF RecvEnd, Undelivered
    <3> QED BY <3>1, UndeliveredStutters
  <2> QED BY <2>1, <2>2
<1>4. ASSUME Receiver, ~RecvEnd, \A e \in Entries : ~RecvResult(e) PROVE [Promised!Next]_Promised!deliveryVars
  <2>1. UNCHANGED <<accepted, successes, errors, acceptedAtStop, stopping>>
    BY <1>4 DEF Receiver, Connect, RecvStarted, RecvAcks, RecvBackoff, RecvOutOfMemory,
         RecvShuttingDown, Reconnect, ReconnectFails, RecvError
  <2>2. rx # "ended" /\ rx' # "ended"
    BY <1>4 DEF Receiver, Connect, RecvStarted, RecvAcks, RecvBackoff, RecvOutOfMemory,
         RecvShuttingDown, Reconnect, ReconnectFails, RecvError
  <2> QED BY <2>1, <2>2, UndeliveredStutters DEF Undelivered
<1>5. CASE UNCHANGED vars
  BY <1>5, UndeliveredStutters DEF vars, Undelivered
<1> QED BY <1>0, <1>1, <1>2, <1>3, <1>4, <1>5, AppDelivers DEF Next, Terminated, Poll

\* A batch stream implements Delivery: with keys of their own, and while nothing
\* is refused or renewed, entries get their own results at their places, for
\* good, and all of those accepted before stop do before it returns.
THEOREM StreamDelivers ==
  ASSUME DistinctKeys
  PROVE  Spec /\ []Undisturbed => ImplementsDelivery
<1>1. IInv /\ StreamInv /\ EndInv /\ ResultsInv /\ Told /\ Undisturbed /\ Undisturbed'
        /\ EndsClean' /\ [Next]_vars => [Promised!Next]_Promised!deliveryVars
  BY StepDelivers
<1> QED BY <1>1, InitDelivers, Invariance, StreamInvariance, EndInvariance, ResultsInvariance,
           ToldInvariance, EndsWell, PTL DEF Spec, ImplementsDelivery, Promised!Spec

-----------------------------------------------------------------------------
(***************************************************************************)
(* Flow control.  While the batch size never grows, every request that the *)
(* server has to answer, but for the last one before the stream is closed, *)
(* filled the batch of a kind whose keys are still in flight.              *)
(***************************************************************************)
\* An entry fits beside as many others as a request may have.
SmallEntries ==
  \A r \in Requests, e \in Entries :
    (\A k \in Kinds : Len(r[k]) <= InitialBatchSize) =>
      6 + 3 * Cardinality(Limits) + Weight(r, Larger) + Estimate(e) < MaxMessageSize

\* The entries of a request are of their kinds and no two are the same.
WellPacked(r) ==
  \A k \in Kinds : NoRepeats(r[k]) /\ \A x \in EntriesOf(r[k]) : KindOf[x] = k

InAll(u) == UNION {InReq(u[i]) : i \in DOMAIN u}

\* Each of the entries added is in one place at most: in the queue q, packed in
\* r, in the hand h, or in one of the requests u.
Apart(q, r, h, u, added) ==
  /\ NoRepeats(q) /\ WellPacked(r) /\ \A i \in DOMAIN u : WellPacked(u[i])
  /\ \A i, j \in DOMAIN u : i # j => InReq(u[i]) \cap InReq(u[j]) = {}
  /\ EntriesOf(q) \cap (InReq(r) \cup h \cup InAll(u)) = {}
  /\ InReq(r) \cap (h \cup InAll(u)) = {}
  /\ h \cap InAll(u) = {}
  /\ EntriesOf(q) \cup InReq(r) \cup h \cup InAll(u) \subseteq added

AllApart == Apart(queue, Live, EntriesOf(InHand), unacked, Added)

\* What was kept for another stream waits until the server is well again, and a
\* new stream has nothing to answer.
NothingKept ==
  /\ pending # EmptyReq => isOom \/ isShuttingDown
  /\ pc \in {"pull", "window"} => pending = EmptyReq
  /\ pc = "top" => pending = EmptyReq \/ pending = req
  /\ rx \in {"connecting", "reconnecting", "ended"} => unacked = <<>>

WithinBatch(r) == \A k \in Kinds : Len(r[k]) <= InitialBatchSize

BatchesBounded ==
  /\ batchSize <= InitialBatchSize
  /\ WithinBatch(req) /\ WithinBatch(pending) /\ \A i \in DOMAIN unacked : WithinBatch(unacked[i])
  /\ pc = "window" => Len(req[KindOf[hand]]) >= batchSize

\* Each of the first n requests of u filled a batch of size b of a kind of its
\* own, and its keys of that kind are in flight.
Fills(g, n, u, flight, b) ==
  /\ \A i, j \in 1 .. n : g[i] = g[j] => i = j
  /\ \A i \in 1 .. n : KeysOf(u[i][g[i]]) \subseteq flight[g[i]] /\ Len(u[i][g[i]]) >= b

\* Of the requests the server has to answer, the first ones filled their batch:
\* all of them, or all but the last, which Finish sent.
FirstOnesFill(u, flight, b, closed) ==
  \E n \in 0 .. Len(u) :
    /\ n = Len(u) \/ (closed /\ Len(u) = n + 1)
    /\ \E g \in [1 .. n -> Kinds] : Fills(g, n, u, flight, b)

FillsTheirBatch == FirstOnesFill(unacked, inflight, batchSize, pc = "closed")

LEMMA InAllAppend ==
  ASSUME NEW u \in Seq(Requests), NEW r \in Requests
  PROVE  /\ InAll(Append(u, r)) = InAll(u) \cup InReq(r)
         /\ DOMAIN Append(u, r) = DOMAIN u \cup {Len(u) + 1} /\ Len(u) + 1 \notin DOMAIN u
         /\ \A i \in DOMAIN u : Append(u, r)[i] = u[i]
         /\ Append(u, r)[Len(u) + 1] = r
<1> DEFINE v == Append(u, r)
<1>1. /\ Len(u) \in Nat /\ DOMAIN u = 1 .. Len(u) /\ DOMAIN v = 1 .. Len(u) + 1
      /\ \A i \in 1 .. Len(u) : v[i] = u[i]
      /\ v[Len(u) + 1] = r
  BY AppendProperties, LenProperties
<1> HIDE DEF v
<1>2. /\ DOMAIN v = DOMAIN u \cup {Len(u) + 1} /\ Len(u) + 1 \notin DOMAIN u
      /\ \A i \in DOMAIN u : v[i] = u[i]
  BY <1>1
<1>3. ASSUME NEW x PROVE x \in InAll(v) <=> x \in InAll(u) \/ x \in InReq(r)
  BY <1>1, <1>2 DEF InAll
<1> QED BY <1>1, <1>2, <1>3 DEF v

LEMMA InAllTail ==
  ASSUME NEW u \in Seq(Requests), u # <<>>
  PROVE  /\ Head(u) = u[1] /\ Head(u) \in Requests /\ 1 \in DOMAIN u /\ Tail(u) \in Seq(Requests)
         /\ \A j \in DOMAIN Tail(u) : j + 1 \in DOMAIN u /\ j + 1 # 1 /\ Tail(u)[j] = u[j + 1]
         /\ \A i, j \in DOMAIN Tail(u) : i + 1 = j + 1 => i = j
         /\ InAll(u) = InReq(Head(u)) \cup InAll(Tail(u))
<1> DEFINE v == Tail(u)
<1>1. /\ Len(u) \in Nat /\ Len(u) > 0 /\ DOMAIN u = 1 .. Len(u) /\ DOMAIN v = 1 .. Len(u) - 1
      /\ \A i \in 1 .. Len(u) - 1 : v[i] = u[i + 1]
      /\ v \in Seq(Requests) /\ Head(u) = u[1] /\ Head(u) \in Requests
  BY HeadTailProperties, LenProperties, EmptySeq
<1>2. \A i \in DOMAIN u : i = 1 \/ \E j \in DOMAIN v : v[j] = u[i]
  BY HeadOrTail
<1> HIDE DEF v
<1>3. \A j \in DOMAIN v : j + 1 \in DOMAIN u /\ j + 1 # 1 /\ v[j] = u[j + 1]
  BY <1>1
<1>4. 1 \in DOMAIN u /\ \A i, j \in DOMAIN v : i + 1 = j + 1 => i = j
  BY <1>1
<1>5. ASSUME NEW x PROVE x \in InAll(u) <=> x \in InReq(u[1]) \/ x \in InAll(v)
  <2>1. ASSUME NEW i \in DOMAIN u, x \in InReq(u[i]) PROVE x \in InReq(u[1]) \/ x \in InAll(v)
    BY <1>2, <2>1 DEF InAll
  <2>2. ASSUME NEW j \in DOMAIN v, x \in InReq(v[j]) PROVE x \in InAll(u)
    <3>1. j + 1 \in DOMAIN u /\ x \in InReq(u[j + 1])
      BY <1>3, <2>2
    <3> QED BY <3>1 DEF InAll
  <2> QED BY <1>4, <2>1, <2>2 DEF InAll
<1> QED BY <1>1, <1>3, <1>4, <1>5 DEF v

LEMMA WellPackedEmpty == WellPacked(EmptyReq)
BY DEF WellPacked, EmptyReq, NoRepeats, EntriesOf

LEMMA WellPackedWith ==
  ASSUME NEW r \in Requests, NEW e \in Entries, WellPacked(r), e \notin InReq(r)
  PROVE  WellPacked(WithEntry(r, e))
<1> DEFINE w == WithEntry(r, e)
<1>1. \A k \in Kinds : r[k] \in Seq(Entries) /\ w[k] = IF k = KindOf[e] THEN Append(r[k], e) ELSE r[k]
  BY KindType DEF WithEntry, Requests
<1>2. ASSUME NEW k \in Kinds PROVE NoRepeats(w[k]) /\ \A x \in EntriesOf(w[k]) : KindOf[x] = k
  <2>1. /\ e \notin EntriesOf(r[k]) /\ r[k] \in Seq(Entries) /\ NoRepeats(r[k])
        /\ \A x \in EntriesOf(r[k]) : KindOf[x] = k
    BY <1>1 DEF InReq, WellPacked
  <2>2. /\ NoRepeats(Append(r[k], e)) /\ EntriesOf(Append(r[k], e)) = EntriesOf(r[k]) \cup {e}
    BY <2>1, NoRepeatsAppend, EntriesOfAppend
  <2> HIDE DEF w
  <2>3. CASE k = KindOf[e]
    <3>1. w[k] = Append(r[k], e)
      BY <1>1, <2>3
    <3> QED BY <2>1, <2>2, <2>3, <3>1
  <2>4. CASE k # KindOf[e]
    <3>1. w[k] = r[k]
      BY <1>1, <2>4
    <3> QED BY <2>1, <3>1
  <2> QED BY <2>3, <2>4
<1> QED BY <1>2 DEF WellPacked, w

\* How the places change: a request is dropped, an entry is added to the queue,
\* pulled, packed, and sent with others, and the server answers or refuses.
LEMMA ApartShrinks ==
  ASSUME NEW q, NEW r, NEW h, NEW u, NEW a, NEW b, Apart(q, r, h, u, a), a \subseteq b
  PROVE  Apart(q, r, h, u, b) /\ Apart(q, EmptyReq, h, u, b)
BY InReqEmpty, WellPackedEmpty DEF Apart

LEMMA ApartAdded ==
  ASSUME NEW q \in Seq(Entries), NEW r, NEW h, NEW u, NEW a, NEW e \in Entries,
         Apart(q, r, h, u, a), e \notin a
  PROVE  Apart(Append(q, e), r, h, u, a \cup {e})
<1>1. /\ EntriesOf(Append(q, e)) = EntriesOf(q) \cup {e} /\ NoRepeats(Append(q, e))
  BY EntriesOfAppend, NoRepeatsAppend DEF Apart
<1>2. e \notin InReq(r) \cup h \cup InAll(u)
  BY DEF Apart
<1> QED BY <1>1, <1>2 DEF Apart

LEMMA ApartPulled ==
  ASSUME NEW q \in Seq(Entries), q # <<>>, NEW r, NEW u, NEW a, Apart(q, r, {}, u, a)
  PROVE  /\ Head(q) \in Entries /\ Head(q) \notin InReq(r)
         /\ Apart(Tail(q), r, {Head(q)}, u, a)
         /\ Apart(Tail(q), r, {}, u, a)
<1> DEFINE e == Head(q)
<1>1. e \in Entries /\ e \in EntriesOf(q)
  BY HeadTailProperties, EmptySeq DEF EntriesOf
<1>2. NoRepeats(Tail(q)) /\ EntriesOf(Tail(q)) = EntriesOf(q) \ {e}
  BY NoRepeatsTail DEF Apart
<1> HIDE DEF e
<1>3. /\ e \notin InReq(r) /\ e \notin InAll(u) /\ e \in a
  BY <1>1 DEF Apart
<1>4. Apart(Tail(q), r, {e}, u, a)
  BY <1>2, <1>3 DEF Apart
<1>5. Apart(Tail(q), r, {}, u, a)
  BY <1>2 DEF Apart
<1> QED BY <1>1, <1>3, <1>4, <1>5 DEF e

LEMMA ApartPacked ==
  ASSUME NEW q, NEW r \in Requests, NEW u, NEW a, NEW e \in Entries, Apart(q, r, {e}, u, a)
  PROVE  Apart(q, WithEntry(r, e), {}, u, a)
<1>1. InReq(WithEntry(r, e)) = InReq(r) \cup {e}
  BY InReqWithEntry
<1>2. WellPacked(WithEntry(r, e))
  BY WellPackedWith DEF Apart
<1> QED BY <1>1, <1>2 DEF Apart

LEMMA ApartSent ==
  ASSUME NEW q, NEW r \in Requests, NEW h, NEW u \in Seq(Requests), NEW a, Apart(q, r, h, u, a)
  PROVE  Apart(q, EmptyReq, h, Append(u, r), a)
<1> DEFINE v == Append(u, r)
           n == Len(u) + 1
<1>1. /\ InAll(v) = InAll(u) \cup InReq(r) /\ DOMAIN v = DOMAIN u \cup {n} /\ n \notin DOMAIN u
      /\ \A i \in DOMAIN u : v[i] = u[i]
      /\ v[n] = r
  BY InAllAppend
<1> HIDE DEF v, n
<1>2. \A i \in DOMAIN v : WellPacked(v[i])
  BY <1>1 DEF Apart
<1>3. \A i \in DOMAIN u : InReq(u[i]) \subseteq InAll(u)
  BY DEF InAll
<1>4. \A i, j \in DOMAIN v : i # j => InReq(v[i]) \cap InReq(v[j]) = {}
  <2> SUFFICES ASSUME NEW i \in DOMAIN v, NEW j \in DOMAIN v, i # j
               PROVE  InReq(v[i]) \cap InReq(v[j]) = {}
    OBVIOUS
  <2>1. CASE i \in DOMAIN u /\ j \in DOMAIN u
    BY <1>1, <2>1 DEF Apart
  <2>2. CASE i = n \/ j = n
    BY <1>1, <1>3, <2>2 DEF Apart
  <2> QED BY <1>1, <2>1, <2>2
<1> QED BY <1>1, <1>2, <1>4, InReqEmpty, WellPackedEmpty DEF Apart, v

LEMMA ApartAnswered ==
  ASSUME NEW q, NEW r, NEW h, NEW u \in Seq(Requests), u # <<>>, NEW a, Apart(q, r, h, u, a)
  PROVE  Apart(q, r, h, Tail(u), a) /\ InReq(Head(u)) \cap InAll(Tail(u)) = {}
<1> DEFINE v == Tail(u)
<1>1. /\ \A j \in DOMAIN v : j + 1 \in DOMAIN u /\ j + 1 # 1 /\ v[j] = u[j + 1]
      /\ \A i, j \in DOMAIN v : i + 1 = j + 1 => i = j
      /\ InAll(u) = InReq(u[1]) \cup InAll(v) /\ Head(u) = u[1] /\ 1 \in DOMAIN u
  BY InAllTail
<1> HIDE DEF v
<1>2. \A i \in DOMAIN v : WellPacked(v[i])
  BY <1>1 DEF Apart
<1>3. \A i, j \in DOMAIN v : i # j => InReq(v[i]) \cap InReq(v[j]) = {}
  BY <1>1 DEF Apart
<1>4. \A j \in DOMAIN v : InReq(u[1]) \cap InReq(v[j]) = {}
  BY <1>1 DEF Apart
<1>5. InReq(u[1]) \cap InAll(v) = {}
  BY <1>4 DEF InAll
<1> QED BY <1>1, <1>2, <1>3, <1>5 DEF Apart, v

LEMMA NoRepeatsConcat ==
  ASSUME NEW s \in Seq(Entries), NEW t \in Seq(Entries), NoRepeats(s), NoRepeats(t),
         EntriesOf(s) \cap EntriesOf(t) = {}
  PROVE  NoRepeats(s \o t)
<1> DEFINE u == s \o t
<1>1. /\ Len(s) \in Nat /\ Len(t) \in Nat /\ DOMAIN u = 1 .. Len(s) + Len(t)
      /\ DOMAIN s = 1 .. Len(s) /\ DOMAIN t = 1 .. Len(t)
      /\ \A i \in DOMAIN u : u[i] = IF i <= Len(s) THEN s[i] ELSE t[i - Len(s)]
  BY ConcatProperties, LenProperties
<1> HIDE DEF u
<1>2. \A i \in DOMAIN u : IF i <= Len(s) THEN i \in DOMAIN s /\ u[i] = s[i] /\ u[i] \in EntriesOf(s)
                          ELSE i - Len(s) \in DOMAIN t /\ u[i] = t[i - Len(s)] /\ u[i] \in EntriesOf(t)
  <2> SUFFICES ASSUME NEW i \in DOMAIN u
               PROVE  IF i <= Len(s) THEN i \in DOMAIN s /\ u[i] = s[i] /\ u[i] \in EntriesOf(s)
                      ELSE i - Len(s) \in DOMAIN t /\ u[i] = t[i - Len(s)] /\ u[i] \in EntriesOf(t)
    OBVIOUS
  <2>1. CASE i <= Len(s)
    <3>1. i \in DOMAIN s /\ u[i] = s[i]
      BY <1>1, <2>1
    <3> QED BY <2>1, <3>1 DEF EntriesOf
  <2>2. CASE ~(i <= Len(s))
    <3>1. i - Len(s) \in DOMAIN t /\ u[i] = t[i - Len(s)]
      BY <1>1, <2>2
    <3> QED BY <2>2, <3>1 DEF EntriesOf
  <2> QED BY <2>1, <2>2
<1>3. ASSUME NEW i \in DOMAIN u, NEW j \in DOMAIN u, u[i] = u[j] PROVE i = j
  <2>1. CASE i <= Len(s) /\ j <= Len(s)
    BY <1>2, <1>3, <2>1 DEF NoRepeats
  <2>2. CASE ~(i <= Len(s)) /\ ~(j <= Len(s))
    <3>1. i - Len(s) = j - Len(s)
      BY <1>2, <1>3, <2>2 DEF NoRepeats
    <3> QED BY <1>1, <3>1
  <2>3. CASE (i <= Len(s)) # (j <= Len(s))
    BY <1>2, <1>3, <2>3
  <2> QED BY <2>1, <2>2, <2>3
<1> QED BY <1>3 DEF NoRepeats, u

LEMMA ApartRefused ==
  ASSUME NEW q \in Seq(Entries), NEW r, NEW h, NEW u \in Seq(Requests), u # <<>>, NEW a,
         Apart(q, r, h, u, a), NEW s \in Seq(Entries), NoRepeats(s), EntriesOf(s) = InReq(Head(u))
  PROVE  Apart(q \o s, r, h, Tail(u), a)
<1>1. InAll(u) = InReq(Head(u)) \cup InAll(Tail(u))
  BY InAllTail
<1>2. Apart(q, r, h, Tail(u), a) /\ InReq(Head(u)) \cap InAll(Tail(u)) = {}
  BY ApartAnswered
<1>3. EntriesOf(q \o s) = EntriesOf(q) \cup EntriesOf(s)
  BY ConcatEntries
<1>4. /\ EntriesOf(s) \cap EntriesOf(q) = {} /\ EntriesOf(s) \cap (InReq(r) \cup h) = {}
      /\ EntriesOf(s) \subseteq a
  BY <1>1 DEF Apart
<1>5. NoRepeats(q \o s)
  BY <1>4, NoRepeatsConcat DEF Apart
<1> QED BY <1>2, <1>3, <1>4, <1>5 DEF Apart

LEMMA NextNothingKept == TypeOK /\ HandHeld /\ Phases /\ NothingKept /\ [Next]_vars => NothingKept'
<1> SUFFICES ASSUME TypeOK, HandHeld, Phases, NothingKept, [Next]_vars PROVE NothingKept'
  OBVIOUS
<1> USE DEF appVars, flagVars, resultVars, genVars, rxVars, srvVars
<1>1. ASSUME isOom \/ isShuttingDown => isOom' \/ isShuttingDown', UNCHANGED <<pending, req>>,
             pc' \in {pc, "closed", "waitStarted"}, rx' \in {rx, "failed", "open"},
             unacked = <<>> => unacked' = <<>>
      PROVE  NothingKept'
  BY <1>1 DEF NothingKept
<1>2. ASSUME Begin \/ LeaveOnShutdown \/ PauseOnOom PROVE NothingKept'
  BY <1>2 DEF Begin, LeaveOnShutdown, PauseOnOom, SaveReq, NothingKept
<1>3. ASSUME RenewStream \/ LeaveOnOom \/ Wait \/ PullNothing PROVE NothingKept'
  BY <1>3 DEF RenewStream, LeaveOnOom, Wait, PullNothing, NothingKept
<1>4. ASSUME Finish PROVE NothingKept'
  BY <1>4 DEF Finish, NothingKept, Phases
<1>5. ASSUME PullEntry PROVE NothingKept'
  BY <1>5 DEF PullEntry, Pack, NothingKept, Phases
<1>6. ASSUME YieldAndPack PROVE NothingKept'
  BY <1>6 DEF YieldAndPack, Pack, NothingKept, Phases
<1>7. ASSUME RecvEnd \/ Reconnect PROVE NothingKept'
  BY <1>7 DEF RecvEnd, Reconnect, NothingKept, Phases
<1>8. ASSUME RecvAcks \/ RecvOutOfMemory PROVE NothingKept'
  BY <1>1, <1>8 DEF RecvAcks, RecvOutOfMemory
<1>9. ASSUME Connect \/ RecvStarted \/ RecvBackoff \/ RecvShuttingDown \/ ReconnectFails \/ RecvError
      PROVE  NothingKept'
  BY <1>1, <1>9 DEF Connect, RecvStarted, RecvBackoff, RecvShuttingDown, ReconnectFails, RecvError
<1>10. ASSUME NEW e \in Entries, RecvResult(e) \/ Add(e) \/ AddResumes(e) PROVE NothingKept'
  BY <1>1, <1>10 DEF RecvResult, Add, AddResumes
<1>11. ASSUME Stop \/ StopReturns \/ UNCHANGED vars PROVE NothingKept'
  BY <1>1, <1>11 DEF Stop, StopReturns, vars
<1> QED BY <1>2, <1>3, <1>4, <1>5, <1>6, <1>7, <1>8, <1>9, <1>10, <1>11
        DEF Next, Generator, Receiver, Terminated, Poll

\* When every entry has a key of its own, the entries of a request that is
\* refused are queued again, each once.
LEMMA RequeuedOnce ==
  ASSUME TypeOK, KeysFound, DistinctKeys, NEW m \in Requests, WellPacked(m),
         NoEntry \notin EntriesOf(Cached(m["obj"]) \o Cached(m["ref"]))
  PROVE  Requeue(m) \in Seq(Entries) /\ NoRepeats(Requeue(m)) /\ EntriesOf(Requeue(m)) = InReq(m)
<1>1. /\ m["obj"] \in Seq(Entries) /\ m["ref"] \in Seq(Entries) /\ Kinds = {"obj", "ref"}
      /\ cache \in [Keys -> [entry : Entries \cup {NoEntry}, index : Nat]]
  BY DEF Requests, Kinds, TypeOK
<1>2. /\ Cached(m["obj"]) \in Seq(Entries \cup {NoEntry})
      /\ Cached(m["ref"]) \in Seq(Entries \cup {NoEntry})
  BY <1>1, CachedSeq
<1>3. /\ NoEntry \notin EntriesOf(Cached(m["obj"]))
      /\ NoEntry \notin EntriesOf(Cached(m["ref"]))
  BY <1>2, ConcatEntries
<1>4. ASSUME NEW s \in Seq(Entries), NoEntry \notin EntriesOf(Cached(s)) PROVE Cached(s) = s
  <2>1. ASSUME NEW i \in DOMAIN s PROVE cache[KeyOf[s[i]]].entry = s[i]
    <3>1. s[i] \in Entries /\ KeyOf[s[i]] \in Keys /\ i \in DOMAIN Cached(s)
      BY DEF Keys, Cached
    <3>2. cache[KeyOf[s[i]]].entry = Cached(s)[i]
      BY DEF Cached
    <3>3. cache[KeyOf[s[i]]].entry # NoEntry
      BY <1>4, <3>1, <3>2 DEF EntriesOf
    <3>4. cache[KeyOf[s[i]]].entry \in Entries /\ cache[KeyOf[s[i]]] # NotCached
      BY <1>1, <3>1, <3>3 DEF NotCached
    <3>5. KeyOf[cache[KeyOf[s[i]]].entry] = KeyOf[s[i]]
      BY <3>1, <3>4 DEF KeysFound
    <3> QED BY <3>1, <3>4, <3>5 DEF DistinctKeys
  <2>2. Cached(s) = [i \in DOMAIN s |-> s[i]]
    BY <2>1 DEF Cached
  <2> QED BY <2>2
<1>5. Requeue(m) = m["obj"] \o m["ref"]
  BY <1>1, <1>3, <1>4 DEF Requeue
<1>6. EntriesOf(m["obj"]) \cap EntriesOf(m["ref"]) = {}
  BY <1>1 DEF WellPacked
<1>7. NoRepeats(m["obj"] \o m["ref"])
  BY <1>1, <1>6, NoRepeatsConcat DEF WellPacked
<1>8. EntriesOf(m["obj"] \o m["ref"]) = EntriesOf(m["obj"]) \cup EntriesOf(m["ref"])
  BY <1>1, ConcatEntries
<1>9. EntriesOf(m["obj"] \o m["ref"]) = InReq(m)
  BY <1>1, <1>8 DEF InReq
<1> QED BY <1>1, <1>5, <1>7, <1>9, ConcatProperties

LEMMA NextAllApart ==
  DistinctKeys /\ TypeOK /\ HandHeld /\ Phases /\ KeysFound /\ NothingKept /\ AllApart
    /\ [Next]_vars => AllApart'
<1> SUFFICES ASSUME DistinctKeys, TypeOK, HandHeld, Phases, KeysFound, NothingKept, AllApart,
                    [Next]_vars
             PROVE  AllApart'
  OBVIOUS
<1> USE DEF appVars, flagVars, resultVars, genVars, rxVars, srvVars
<1> DEFINE h == EntriesOf(InHand)
<1>0. /\ req \in Requests /\ pending \in Requests /\ unacked \in Seq(Requests)
      /\ queue \in Seq(Entries) /\ Live \in Requests /\ EmptyReq \in Requests
      /\ Apart(queue, Live, h, unacked, Added)
  BY EmptyReqType DEF TypeOK, Live, AllApart
<1>1. ASSUME UNCHANGED <<queue, hand, unacked, call>>, Live' \in {Live, EmptyReq} PROVE AllApart'
  <2>1. h' = h /\ Added' = Added
    BY <1>1 DEF InHand, Added
  <2>2. Apart(queue, Live', h, unacked, Added)
    BY <1>0, <1>1, ApartShrinks
  <2> QED BY <1>1, <2>1, <2>2 DEF AllApart
<1>2. ASSUME Generator, ~Finish, ~PullEntry, ~YieldAndPack PROVE AllApart'
  <2>1. UNCHANGED <<queue, hand, unacked, call>>
    BY <1>2 DEF Generator, Begin, LeaveOnShutdown, RenewStream, PauseOnOom, LeaveOnOom, Wait, PullNothing
  <2>2. Live' \in {Live, EmptyReq}
    BY <1>2 DEF Generator, Begin, LeaveOnShutdown, RenewStream, PauseOnOom, LeaveOnOom, Wait,
                PullNothing, SaveReq, Live, NothingKept
  <2> QED BY <1>1, <2>1, <2>2
<1>3. ASSUME Finish PROVE AllApart'
  <2>1. /\ UNCHANGED <<queue, hand, call>> /\ Live' = EmptyReq /\ Live = req
        /\ unacked' \in {unacked, Append(unacked, req)}
    BY <1>3 DEF Finish, Live, NothingKept, Send
  <2>2. h' = h /\ Added' = Added
    <3>1. UNCHANGED <<hand, call>>
      BY <2>1
    <3> QED BY <3>1 DEF InHand, Added
  <2>3. Apart(queue, EmptyReq, h, unacked', Added)
    <3>1. Apart(queue, EmptyReq, h, unacked, Added)
      BY <1>0, ApartShrinks
    <3>2. Apart(queue, EmptyReq, h, Append(unacked, req), Added)
      BY <1>0, <2>1, ApartSent
    <3> QED BY <2>1, <3>1, <3>2
  <2> QED BY <2>1, <2>2, <2>3 DEF AllApart
<1>4. ASSUME YieldAndPack PROVE AllApart'
  <2>1. /\ UNCHANGED <<queue, call>> /\ Live = req /\ Live' = WithEntry(EmptyReq, hand)
        /\ unacked' = Append(unacked, req) /\ hand' = NoEntry
        /\ hand \in Entries /\ hand # NoEntry
    BY <1>4, EntriesType DEF YieldAndPack, HandHeld, Pack, AfterYield, Live, Send, NoEntry
  <2>2. h = {hand} /\ h' = {} /\ Added' = Added
    BY <2>1 DEF InHand, EntriesOf, Added
  <2>3. Apart(queue, EmptyReq, {hand}, Append(unacked, req), Added)
    BY <1>0, <2>1, <2>2, ApartSent
  <2>4. Apart(queue, WithEntry(EmptyReq, hand), {}, Append(unacked, req), Added)
    BY <1>0, <2>1, <2>3, ApartPacked
  <2> QED BY <2>1, <2>2, <2>4 DEF AllApart
<1>5. ASSUME PullEntry PROVE AllApart'
  <2> DEFINE e == Head(queue)
  <2>1. /\ pc = "pull" /\ queue # <<>> /\ hand = NoEntry /\ queue' = Tail(queue)
        /\ UNCHANGED <<unacked, call, pending>> /\ Live = req /\ pending = EmptyReq
        /\ \/ hand' = NoEntry /\ Live' = EmptyReq
           \/ hand' = e /\ Live' = req
           \/ hand' = NoEntry /\ Live' = WithEntry(req, e)
    BY <1>5 DEF PullEntry, Phases, NothingKept, Live, Pack
  <2>2. h = {} /\ Added' = Added
    BY <2>1 DEF InHand, EntriesOf, Added
  <2>3. /\ e \in Entries
        /\ Apart(Tail(queue), req, {e}, unacked, Added)
        /\ Apart(Tail(queue), req, {}, unacked, Added)
    BY <1>0, <2>1, <2>2, ApartPulled
  <2>4. Apart(Tail(queue), WithEntry(req, e), {}, unacked, Added)
    BY <1>0, <2>3, ApartPacked
  <2>5. Apart(Tail(queue), EmptyReq, {}, unacked, Added)
    BY <2>3, ApartShrinks
  <2>6. e # NoEntry
    BY <2>3, EntriesType DEF NoEntry
  <2>7. h' = IF hand' = e THEN {e} ELSE {}
    BY <2>1, <2>6 DEF InHand, EntriesOf
  <2> HIDE DEF e, h
  <2> QED BY <2>1, <2>2, <2>3, <2>4, <2>5, <2>6, <2>7 DEF AllApart, h
<1>6. ASSUME RecvAcks PROVE AllApart'
  <2>1. UNCHANGED <<queue, hand, call, pc, pending, req>> /\ unacked # <<>> /\ unacked' = Tail(unacked)
    BY <1>6 DEF RecvAcks
  <2>2. h' = h /\ Added' = Added /\ Live' = Live
    BY <2>1 DEF InHand, Added, Live
  <2>3. Apart(queue, Live, h, Tail(unacked), Added)
    BY <1>0, <2>1, ApartAnswered
  <2> QED BY <2>1, <2>2, <2>3 DEF AllApart
<1>7. ASSUME RecvOutOfMemory PROVE AllApart'
  <2> DEFINE m == Head(unacked)
  <2>1. /\ UNCHANGED <<hand, call, pending, req>> /\ unacked # <<>>
        /\ \/ UNCHANGED <<queue, unacked>> /\ pc' = "closed"
           \/ /\ NoEntry \notin EntriesOf(Cached(m["obj"]) \o Cached(m["ref"]))
              /\ queue' = queue \o Requeue(m) /\ unacked' = Tail(unacked) /\ pc' = pc
    BY <1>7 DEF RecvOutOfMemory
  <2>2. CASE UNCHANGED <<queue, unacked>> /\ pc' = "closed"
    <3>1. Live' \in {Live, EmptyReq}
      BY <2>1, <2>2 DEF Live, NothingKept, TypeOK
    <3> QED BY <1>1, <2>1, <2>2, <3>1
  <2>3. CASE /\ NoEntry \notin EntriesOf(Cached(m["obj"]) \o Cached(m["ref"]))
             /\ queue' = queue \o Requeue(m) /\ unacked' = Tail(unacked) /\ pc' = pc
    <3>1. m \in Requests /\ m = unacked[1] /\ 1 \in DOMAIN unacked
      BY <1>0, <2>1, InAllTail
    <3>2. WellPacked(m)
      BY <1>0, <3>1 DEF Apart
    <3>3. Requeue(m) \in Seq(Entries) /\ NoRepeats(Requeue(m)) /\ EntriesOf(Requeue(m)) = InReq(m)
      BY <2>3, <3>1, <3>2, RequeuedOnce
    <3>4. Apart(queue \o Requeue(m), Live, h, Tail(unacked), Added)
      BY <1>0, <2>1, <3>3, ApartRefused
    <3>5. h' = h /\ Added' = Added /\ Live' = Live
      BY <2>1, <2>3 DEF InHand, Added, Live
    <3> QED BY <2>3, <3>4, <3>5 DEF AllApart
  <2> QED BY <2>1, <2>2, <2>3
<1>8. ASSUME Receiver, ~RecvAcks, ~RecvOutOfMemory PROVE AllApart'
  <2>1. UNCHANGED <<queue, hand, unacked, call>>
    BY <1>8 DEF Receiver, Connect, RecvStarted, RecvBackoff, RecvShuttingDown, RecvEnd,
                Reconnect, ReconnectFails, RecvError, RecvResult
  <2>2. Live' \in {Live, EmptyReq}
    <3>1. /\ UNCHANGED <<pending, req>>
          /\ pc' \in {pc, "closed"} \/ (rx = "connecting" /\ pc' = "waitStarted")
      BY <1>8 DEF Receiver, Connect, RecvStarted, RecvBackoff, RecvShuttingDown, RecvEnd,
                  Reconnect, ReconnectFails, RecvError, RecvResult
    <3>2. CASE pc' = pc
      BY <3>1, <3>2 DEF Live
    <3>3. CASE pc' = "closed"
      BY <3>1, <3>3 DEF Live, NothingKept, TypeOK
    <3>4. CASE rx = "connecting" /\ pc' = "waitStarted"
      BY <3>1, <3>4 DEF Live, Phases
    <3> QED BY <3>1, <3>2, <3>3, <3>4
  <2> QED BY <1>1, <2>1, <2>2
<1>9. ASSUME NEW e \in Entries, Add(e) \/ AddResumes(e) PROVE AllApart'
  <2>1. /\ UNCHANGED <<hand, unacked, pc, pending, req>> /\ call[e] # "added"
        /\ \/ call' = [call EXCEPT ![e] = "added"] /\ queue' = Append(queue, e)
           \/ queue' = queue /\ call' \in {[call EXCEPT ![e] = "rejected"], [call EXCEPT ![e] = "waiting"]}
    BY <1>9 DEF Add, AddResumes, Push
  <2>2. h' = h /\ Live' = Live /\ call \in [Entries -> {"idle", "waiting", "added", "rejected"}]
    BY <2>1 DEF InHand, Live, TypeOK
  <2>3. CASE call' = [call EXCEPT ![e] = "added"] /\ queue' = Append(queue, e)
    <3>1. e \notin Added /\ Added' = Added \cup {e}
      BY <2>1, <2>2, <2>3 DEF Added
    <3>2. Apart(Append(queue, e), Live, h, unacked, Added \cup {e})
      BY <1>0, <3>1, ApartAdded
    <3> QED BY <2>1, <2>2, <2>3, <3>1, <3>2 DEF AllApart
  <2>4. CASE queue' = queue /\ call' \in {[call EXCEPT ![e] = "rejected"], [call EXCEPT ![e] = "waiting"]}
    <3>1. Added \subseteq Added'
      BY <2>1, <2>2, <2>4 DEF Added
    <3>2. Apart(queue, Live, h, unacked, Added')
      BY <1>0, <3>1, ApartShrinks
    <3> QED BY <2>1, <2>2, <2>4, <3>2 DEF AllApart
  <2> QED BY <2>1, <2>3, <2>4
<1>10. ASSUME Stop \/ StopReturns \/ UNCHANGED vars PROVE AllApart'
  <2>1. UNCHANGED <<queue, hand, unacked, call, pc, pending, req>>
    BY <1>10 DEF Stop, StopReturns, vars
  <2> QED BY <1>1, <2>1 DEF Live
<1> QED BY <1>2, <1>3, <1>4, <1>5, <1>6, <1>7, <1>8, <1>9, <1>10 DEF Next, Terminated, Poll

LEMMA WithinBatchWith ==
  ASSUME NEW r \in Requests, NEW e \in Entries, WithinBatch(r), Len(r[KindOf[e]]) < InitialBatchSize
  PROVE  WithinBatch(WithEntry(r, e))
<1>1. InitialBatchSize \in Nat /\ \A k \in Kinds : r[k] \in Seq(Entries) /\ Len(r[k]) \in Nat
  BY SizesAssumption, LenProperties DEF Requests
<1>2. \A k \in Kinds : WithEntry(r, e)[k] = IF k = KindOf[e] THEN Append(r[k], e) ELSE r[k]
  BY KindType DEF WithEntry, Requests
<1>3. \A k \in Kinds : Len(Append(r[k], e)) = Len(r[k]) + 1
  BY <1>1, AppendProperties
<1>4. ASSUME NEW k \in Kinds PROVE Len(WithEntry(r, e)[k]) <= InitialBatchSize
  <2>1. CASE k = KindOf[e]
    <3>1. /\ WithEntry(r, e)[k] = Append(r[k], e) /\ Len(r[k]) < InitialBatchSize
          /\ InitialBatchSize \in Nat /\ Len(r[k]) \in Nat
      BY <1>1, <1>2, <2>1
    <3>2. Len(WithEntry(r, e)[k]) = Len(r[k]) + 1
      BY <1>3, <3>1
    <3> QED BY <3>1, <3>2
  <2>2. CASE k # KindOf[e]
    BY <1>2, <2>2 DEF WithinBatch
  <2> QED BY <2>1, <2>2
<1> QED BY <1>4 DEF WithinBatch

LEMMA WithinBatchEmpty == WithinBatch(EmptyReq)
<1>1. \A k \in Kinds : Len(EmptyReq[k]) = 0
  BY DEF EmptyReq
<1> QED BY <1>1, SizesAssumption DEF WithinBatch

LEMMA NextBatchesBounded ==
  SmallEntries /\ TypeOK /\ HandHeld /\ SizesInv /\ BatchesBounded /\ [Next]_vars
    /\ batchSize' <= batchSize => BatchesBounded'
<1> SUFFICES ASSUME SmallEntries, TypeOK, TypeOK', HandHeld, SizesInv, BatchesBounded, [Next]_vars,
                    batchSize' <= batchSize
             PROVE  BatchesBounded'
  BY NextTypeOK
<1> USE DEF appVars, flagVars, resultVars, genVars, rxVars, srvVars
<1>0. /\ req \in Requests /\ pending \in Requests /\ unacked \in Seq(Requests)
      /\ InitialBatchSize \in Nat \ {0} /\ batchSize \in Nat /\ batchSize' \in Nat
      /\ batchSize' <= InitialBatchSize
      /\ \A k \in Kinds : Len(req[k]) \in Nat
  <2>1. /\ req \in Requests /\ pending \in Requests /\ unacked \in Seq(Requests)
        /\ InitialBatchSize \in Nat \ {0} /\ batchSize \in Nat /\ batchSize' \in Nat
    BY SizesAssumption DEF TypeOK
  <2>2. batchSize <= InitialBatchSize
    BY DEF BatchesBounded
  <2>3. \A k \in Kinds : Len(req[k]) \in Nat
    BY <2>1, LenProperties DEF Requests
  <2> QED BY <2>1, <2>2, <2>3
<1>1. ASSUME UNCHANGED <<req, pending, hand, unacked>>, pc' = "window" => pc = "window"
      PROVE  BatchesBounded'
  <2>1. pc' = "window" => Len(req'[KindOf[hand']]) >= batchSize'
    <3> SUFFICES ASSUME pc' = "window" PROVE Len(req[KindOf[hand]]) >= batchSize'
      BY <1>1
    <3>1. Len(req[KindOf[hand]]) >= batchSize /\ KindOf[hand] \in Kinds
      BY <1>1, KindType DEF BatchesBounded, HandHeld
    <3> QED BY <1>0, <3>1
  <2> QED BY <1>0, <1>1, <2>1 DEF BatchesBounded
<1>2. ASSUME Begin \/ LeaveOnShutdown \/ PauseOnOom PROVE BatchesBounded'
  <2>1. /\ UNCHANGED <<unacked>> /\ pc' # "window"
        /\ WithinBatch(req') /\ WithinBatch(pending')
    BY <1>2 DEF Begin, LeaveOnShutdown, PauseOnOom, SaveReq, BatchesBounded
  <2> QED BY <1>0, <2>1 DEF BatchesBounded
<1>3. ASSUME RenewStream \/ LeaveOnOom \/ Wait \/ PullNothing PROVE BatchesBounded'
  BY <1>1, <1>3 DEF RenewStream, LeaveOnOom, Wait, PullNothing
<1>4. ASSUME NEW i \in DOMAIN Append(unacked, req) PROVE WithinBatch(Append(unacked, req)[i])
  <2>1. i \in DOMAIN unacked \/ i = Len(unacked) + 1
    BY <1>0, InAllAppend
  <2> QED BY <1>0, <2>1, InAllAppend DEF BatchesBounded
<1>5. ASSUME Finish PROVE BatchesBounded'
  <2>1. /\ unacked' \in {unacked, Append(unacked, req)} /\ req' = EmptyReq /\ pc' # "window"
        /\ UNCHANGED pending
    BY <1>5 DEF Finish, Send
  <2>2. \A i \in DOMAIN unacked' : WithinBatch(unacked'[i])
    BY <1>4, <2>1 DEF BatchesBounded
  <2> QED BY <1>0, <2>1, <2>2, WithinBatchEmpty DEF BatchesBounded
<1>6. ASSUME YieldAndPack PROVE BatchesBounded'
  <2>1. /\ unacked' = Append(unacked, req) /\ req' = WithEntry(EmptyReq, hand) /\ pc' # "window"
        /\ UNCHANGED pending /\ hand \in Entries /\ KindOf[hand] \in Kinds
    BY <1>6, KindType DEF YieldAndPack, Pack, AfterYield, Send, HandHeld
  <2>2. Len(EmptyReq[KindOf[hand]]) < InitialBatchSize
    BY <1>0, <2>1 DEF EmptyReq
  <2>3. WithinBatch(req')
    BY <2>1, <2>2, EmptyReqType, WithinBatchEmpty, WithinBatchWith
  <2>4. \A i \in DOMAIN unacked' : WithinBatch(unacked'[i])
    BY <1>4, <2>1
  <2> QED BY <1>0, <2>1, <2>3, <2>4 DEF BatchesBounded
<1>7. ASSUME PullEntry PROVE BatchesBounded'
  <2> DEFINE e == Head(queue)
             n == Len(req[KindOf[e]])
  <2>1. /\ UNCHANGED <<pending, unacked, batchSize>>
        /\ \/ UNCHANGED req /\ pc' = "closed"
           \/ UNCHANGED req /\ pc' = "window" /\ hand' = e /\ NeedsYield(e)
           \/ req' = WithEntry(req, e) /\ pc' = "top" /\ ~NeedsYield(e)
    BY <1>7 DEF PullEntry, Pack
  <2>2. e \in Entries /\ KindOf[e] \in Kinds /\ n \in Nat
    BY <1>0, <1>7, KindType, HeadTailProperties DEF PullEntry, TypeOK
  <2>3. Total(totalSize, req) /\ WithinBatch(req)
    BY <1>7 DEF PullEntry, SizesInv, BatchesBounded
  <2>4. 6 + 3 * Cardinality(Limits) + Weight(req, Larger) + Estimate(e) < MaxMessageSize
    BY <1>0, <2>2, <2>3 DEF SmallEntries, WithinBatch
  <2>5. NeedsYield(e) <=> n >= batchSize
    <3>1. /\ Weight(req, Larger) \in Nat /\ Cardinality(Limits) \in Nat /\ Estimate(e) \in Nat
          /\ MaxMessageSize \in Nat
      BY <1>0, <2>2, WeightType, LargerType, BytesType, SizesAssumption, FS_CardinalityType
    <3>2. totalSize + Estimate(e) < MaxMessageSize
      BY <2>3, <2>4, <3>1 DEF Total
    <3> QED BY <1>0, <2>2, <2>3, <3>1, <3>2 DEF NeedsYield, Total
  <2>6. CASE UNCHANGED req /\ pc' = "closed"
    BY <1>0, <2>1, <2>6 DEF BatchesBounded
  <2>7. CASE UNCHANGED req /\ pc' = "window" /\ hand' = e /\ NeedsYield(e)
    <3>1. Len(req'[KindOf[hand']]) >= batchSize'
      BY <2>1, <2>5, <2>7
    <3> QED BY <1>0, <2>1, <2>7, <3>1 DEF BatchesBounded
  <2>8. CASE req' = WithEntry(req, e) /\ pc' = "top" /\ ~NeedsYield(e)
    <3>1. n < InitialBatchSize
      BY <1>0, <2>1, <2>2, <2>5, <2>8
    <3>2. WithinBatch(req')
      BY <1>0, <2>2, <2>3, <2>8, <3>1, WithinBatchWith
    <3> QED BY <1>0, <2>1, <2>8, <3>2 DEF BatchesBounded
  <2> QED BY <2>1, <2>6, <2>7, <2>8
<1>8. ASSUME unacked # <<>>, unacked' = Tail(unacked), UNCHANGED <<req, pending, hand>>, pc' = pc
      PROVE  BatchesBounded'
  <2>1. \A i \in DOMAIN unacked' : WithinBatch(unacked'[i])
    BY <1>0, <1>8, InAllTail DEF BatchesBounded
  <2>2. pc' = "window" => Len(req'[KindOf[hand']]) >= batchSize'
    <3> SUFFICES ASSUME pc' = "window" PROVE Len(req[KindOf[hand]]) >= batchSize'
      BY <1>8
    <3>1. Len(req[KindOf[hand]]) >= batchSize /\ KindOf[hand] \in Kinds
      BY <1>8, KindType DEF BatchesBounded, HandHeld
    <3> QED BY <1>0, <3>1
  <2> QED BY <1>0, <1>8, <2>1, <2>2 DEF BatchesBounded
<1>9. ASSUME RecvAcks PROVE BatchesBounded'
  BY <1>8, <1>9 DEF RecvAcks
<1>10. ASSUME RecvOutOfMemory PROVE BatchesBounded'
  <2>1. \/ UNCHANGED unacked /\ pc' = "closed"
        \/ unacked' = Tail(unacked) /\ unacked # <<>> /\ pc' = pc
    BY <1>10 DEF RecvOutOfMemory
  <2>2. UNCHANGED <<req, pending, hand>>
    BY <1>10 DEF RecvOutOfMemory
  <2> QED BY <1>1, <1>8, <2>1, <2>2
<1>11. ASSUME Receiver, ~RecvAcks, ~RecvOutOfMemory PROVE BatchesBounded'
  <2>1. UNCHANGED <<req, pending, hand, unacked>>
    BY <1>11 DEF Receiver, Connect, RecvStarted, RecvBackoff, RecvShuttingDown, RecvEnd,
                 Reconnect, ReconnectFails, RecvError, RecvResult
  <2>2. pc' \in {pc, "closed", "waitStarted"}
    BY <1>11 DEF Receiver, Connect, RecvStarted, RecvBackoff, RecvShuttingDown, RecvEnd,
                 Reconnect, ReconnectFails, RecvError, RecvResult
  <2> QED BY <1>1, <2>1, <2>2
<1>12. ASSUME NEW e \in Entries, Add(e) \/ AddResumes(e) PROVE BatchesBounded'
  BY <1>1, <1>12 DEF Add, AddResumes
<1>13. ASSUME Stop \/ StopReturns \/ UNCHANGED vars PROVE BatchesBounded'
  BY <1>1, <1>13 DEF Stop, StopReturns, vars
<1> QED BY <1>2, <1>3, <1>5, <1>6, <1>7, <1>9, <1>10, <1>11, <1>12, <1>13
        DEF Next, Generator, Terminated, Poll

\* A window in which the keys of a request are in flight counts all its entries.
LEMMA InFlightCounts ==
  ASSUME DistinctKeys, NEW s \in Seq(Entries), NoRepeats(s), NEW F \in SUBSET Keys, KeysOf(s) \subseteq F
  PROVE  Len(s) <= Cardinality(F) /\ Cardinality(F) \in Nat
<1> DEFINE n == Len(s)
           f == [i \in 1 .. n |-> KeyOf[s[i]]]
<1>1. n \in Nat /\ DOMAIN s = 1 .. n /\ \A i \in 1 .. n : s[i] \in Entries
  BY LenProperties
<1>2. IsFiniteSet(F) /\ Cardinality(F) \in Nat
  BY KeysFinite, FS_Subset, FS_CardinalityType
<1>3. IsFiniteSet(1 .. n) /\ Cardinality(1 .. n) = n
  BY <1>1, CountingInterval
<1> HIDE DEF n
<1>4. f \in [1 .. n -> F]
  BY <1>1 DEF KeysOf, EntriesOf
<1>5. \A i, j \in 1 .. n : f[i] = f[j] => i = j
  BY <1>1 DEF DistinctKeys, NoRepeats
<1>6. f \in Injection(1 .. n, F)
  BY <1>4, <1>5 DEF Injection, IsInjective
<1>7. Cardinality(1 .. n) <= Cardinality(F)
  BY <1>2, <1>6, FS_Injection
<1> QED BY <1>2, <1>3, <1>7 DEF n

\* The keys of two requests with no entry in common are different.
LEMMA KeysApart ==
  ASSUME DistinctKeys, NEW r \in Requests, NEW m \in Requests, InReq(r) \cap InReq(m) = {}, NEW k \in Kinds
  PROVE  KeysOf(r[k]) \cap KeysOf(m[k]) = {}
<1>1. EntriesOf(r[k]) \subseteq InReq(r) /\ EntriesOf(m[k]) \subseteq InReq(m)
  BY DEF InReq
<1>2. InReq(r) \subseteq Entries /\ InReq(m) \subseteq Entries
  BY InReqType
<1> QED BY <1>1, <1>2 DEF KeysOf, DistinctKeys

LEMMA NothingToFill ==
  ASSUME NEW flight, NEW b, NEW closed
  PROVE  FirstOnesFill(<<>>, flight, b, closed)
<1>1. Len(<<>>) = 0 /\ 0 \in 0 .. 0
  OBVIOUS
<1>2. PICK g \in [1 .. 0 -> Kinds] : TRUE
  BY [i \in 1 .. 0 |-> "obj"] \in [1 .. 0 -> Kinds]
<1>3. Fills(g, 0, <<>>, flight, b)
  BY DEF Fills
<1> QED BY <1>1, <1>2, <1>3 DEF FirstOnesFill

LEMMA FillKept ==
  ASSUME NEW u \in Seq(Requests), NEW flight, NEW b \in Nat, NEW c \in Nat, c <= b,
         NEW closed, NEW closed2, closed => closed2, FirstOnesFill(u, flight, b, closed)
  PROVE  FirstOnesFill(u, flight, c, closed2)
<1>1. PICK n \in 0 .. Len(u) : /\ n = Len(u) \/ (closed /\ Len(u) = n + 1)
                               /\ \E g \in [1 .. n -> Kinds] : Fills(g, n, u, flight, b)
  BY DEF FirstOnesFill
<1>2. PICK g \in [1 .. n -> Kinds] : Fills(g, n, u, flight, b)
  BY <1>1
<1>3. \A i \in 1 .. n : u[i][g[i]] \in Seq(Entries) /\ Len(u[i][g[i]]) \in Nat
  BY LenProperties DEF Requests
<1>4. Fills(g, n, u, flight, c)
  BY <1>2, <1>3 DEF Fills
<1> QED BY <1>1, <1>4 DEF FirstOnesFill

LEMMA FillLast ==
  ASSUME NEW u \in Seq(Requests), NEW r \in Requests, NEW flight, NEW b,
         FirstOnesFill(u, flight, b, FALSE)
  PROVE  FirstOnesFill(Append(u, r), flight, b, TRUE)
<1> DEFINE n == Len(u)
           v == Append(u, r)
<1>1. PICK g \in [1 .. n -> Kinds] : Fills(g, n, u, flight, b)
  BY DEF FirstOnesFill
<1>2. n \in Nat /\ Len(v) = n + 1 /\ \A i \in 1 .. n : v[i] = u[i]
  BY AppendProperties, LenProperties
<1> HIDE DEF n, v
<1>3. Fills(g, n, v, flight, b)
  BY <1>1, <1>2 DEF Fills
<1> QED BY <1>1, <1>2, <1>3 DEF FirstOnesFill, v

\* A request of a kind of which the window was open is one more.
LEMMA FillNext ==
  ASSUME DistinctKeys, NEW u \in Seq(Requests), \A i \in DOMAIN u : WellPacked(u[i]),
         NEW r \in Requests, NEW flight \in [Kinds -> SUBSET Keys], NEW b \in Nat, NEW k \in Kinds,
         FirstOnesFill(u, flight, b, FALSE), Cardinality(flight[k]) < b, Len(r[k]) >= b
  PROVE  FirstOnesFill(Append(u, r), [flight EXCEPT ![k] = KeysOf(r[k])], b, FALSE)
<1> DEFINE n == Len(u)
           v == Append(u, r)
           w == [flight EXCEPT ![k] = KeysOf(r[k])]
<1>1. PICK g \in [1 .. n -> Kinds] : Fills(g, n, u, flight, b)
  BY DEF FirstOnesFill
<1> DEFINE f == [i \in 1 .. n + 1 |-> IF i = n + 1 THEN k ELSE g[i]]
<1>2. /\ n \in Nat /\ DOMAIN u = 1 .. n /\ Len(v) = n + 1 /\ v[n + 1] = r
      /\ \A i \in 1 .. n : v[i] = u[i] /\ u[i] \in Requests
  BY AppendProperties, LenProperties
<1>3. /\ \A i, j \in 1 .. n : g[i] = g[j] => i = j
      /\ \A i \in 1 .. n : KeysOf(u[i][g[i]]) \subseteq flight[g[i]] /\ Len(u[i][g[i]]) >= b
  BY <1>1 DEF Fills
<1> HIDE DEF n, v
<1>4. ASSUME NEW i \in 1 .. n PROVE g[i] # k
  <2> SUFFICES ASSUME g[i] = k PROVE FALSE
    OBVIOUS
  <2>1. /\ u[i][k] \in Seq(Entries) /\ NoRepeats(u[i][k]) /\ flight[k] \in SUBSET Keys
        /\ KeysOf(u[i][k]) \subseteq flight[k] /\ Len(u[i][k]) >= b
    BY <1>2, <1>3 DEF Requests, WellPacked
  <2>2. Len(u[i][k]) <= Cardinality(flight[k]) /\ Cardinality(flight[k]) \in Nat
    BY <2>1, InFlightCounts
  <2>3. Len(u[i][k]) \in Nat
    BY <2>1, LenProperties
  <2> QED BY <2>1, <2>2, <2>3
<1>5. /\ f \in [1 .. n + 1 -> Kinds] /\ f[n + 1] = k
      /\ \A i \in 1 .. n : f[i] = g[i] /\ i # n + 1
      /\ \A i \in 1 .. n + 1 : i = n + 1 \/ i \in 1 .. n
  BY <1>1, <1>2
<1>6. w[k] = KeysOf(r[k]) /\ \A i \in 1 .. n : w[g[i]] = flight[g[i]]
  BY <1>1, <1>4
<1> HIDE DEF f, w
<1>7. \A i, j \in 1 .. n + 1 : f[i] = f[j] => i = j
  BY <1>3, <1>4, <1>5
<1>8. \A i \in 1 .. n + 1 : KeysOf(v[i][f[i]]) \subseteq w[f[i]] /\ Len(v[i][f[i]]) >= b
  BY <1>2, <1>3, <1>5, <1>6
<1>9. Fills(f, n + 1, v, w, b)
  BY <1>7, <1>8 DEF Fills
<1>10. n + 1 \in 0 .. Len(v) /\ n + 1 = Len(v)
  BY <1>2
<1>11. FirstOnesFill(v, w, b, FALSE)
  BY <1>5, <1>9, <1>10 DEF FirstOnesFill
<1> QED BY <1>11 DEF v, w

\* The oldest request is answered: its keys are none of the others'.
LEMMA FillAnswered ==
  ASSUME DistinctKeys, NEW u \in Seq(Requests), u # <<>>,
         \A i, j \in DOMAIN u : i # j => InReq(u[i]) \cap InReq(u[j]) = {},
         NEW flight \in [Kinds -> SUBSET Keys], NEW b, NEW closed, FirstOnesFill(u, flight, b, closed)
  PROVE  FirstOnesFill(Tail(u), [k \in Kinds |-> flight[k] \ KeysOf(Head(u)[k])], b, closed)
<1> DEFINE v == Tail(u)
           w == [k \in Kinds |-> flight[k] \ KeysOf(Head(u)[k])]
<1>1. PICK n \in 0 .. Len(u) : /\ n = Len(u) \/ (closed /\ Len(u) = n + 1)
                               /\ \E g \in [1 .. n -> Kinds] : Fills(g, n, u, flight, b)
  BY DEF FirstOnesFill
<1>2. PICK g \in [1 .. n -> Kinds] : Fills(g, n, u, flight, b)
  BY <1>1
<1>3. /\ Len(u) \in Nat /\ Len(u) > 0 /\ DOMAIN u = 1 .. Len(u) /\ Len(v) = Len(u) - 1
      /\ Head(u) = u[1] /\ v \in Seq(Requests)
      /\ \A i \in 1 .. Len(u) : u[i] \in Requests
      /\ \A i \in 1 .. Len(u) - 1 : v[i] = u[i + 1]
  BY HeadTailProperties, LenProperties, EmptySeq
<1> HIDE DEF v, w
<1>4. /\ \A i, j \in 1 .. n : g[i] = g[j] => i = j
      /\ \A i \in 1 .. n : KeysOf(u[i][g[i]]) \subseteq flight[g[i]] /\ Len(u[i][g[i]]) >= b
  BY <1>2 DEF Fills
<1>a. /\ n = Len(u) \/ (closed /\ Len(u) = n + 1)
      /\ n \in Nat /\ Len(u) \in Nat /\ Len(u) > 0 /\ Len(v) = Len(u) - 1 /\ n <= Len(u)
  <2>1. Len(u) \in Nat /\ Len(u) > 0 /\ Len(v) = Len(u) - 1
    BY <1>3
  <2>2. n \in Nat /\ n <= Len(u)
    BY <2>1
  <2> QED BY <1>1, <2>1, <2>2
<1>5. CASE n = 0
  <2>1. Len(v) = 0
    BY <1>a, <1>5
  <2>2. v = <<>>
    BY <1>3, <2>1, EmptySeq
  <2>3. FirstOnesFill(<<>>, w, b, closed)
    BY NothingToFill
  <2>4. FirstOnesFill(v, w, b, closed)
    BY <2>2, <2>3
  <2> QED BY <2>4 DEF v, w
<1>6. CASE n # 0
  <2> DEFINE p == n - 1
             f == [i \in 1 .. p |-> g[i + 1]]
  <2>1. /\ p \in 0 .. Len(v) /\ (p = Len(v) \/ (closed /\ Len(v) = p + 1))
        /\ \A i \in 1 .. p : i + 1 \in 1 .. n /\ i + 1 # 1 /\ i + 1 \in 1 .. Len(u) /\ i \in 1 .. Len(u) - 1
        /\ \A i, j \in 1 .. p : i + 1 = j + 1 => i = j
    <3>1. /\ n \in Nat /\ n > 0 /\ n <= Len(u) /\ p \in Nat /\ Len(v) \in Nat /\ n = p + 1 /\ Len(v) = Len(u) - 1
      BY <1>a, <1>6
    <3>2. p = Len(v) \/ (closed /\ Len(v) = p + 1)
      BY <1>a, <3>1
    <3> HIDE DEF p
    <3>3. p \in 0 .. Len(v)
      BY <3>1
    <3>4. \A i \in 1 .. p : i + 1 \in 1 .. n /\ i + 1 # 1 /\ i + 1 \in 1 .. Len(u) /\ i \in 1 .. Len(u) - 1
      BY <1>a, <3>1
    <3> QED BY <3>2, <3>3, <3>4
  <2>2. f \in [1 .. p -> Kinds] /\ \A i \in 1 .. p : f[i] = g[i + 1] /\ v[i] = u[i + 1]
    BY <1>2, <1>3, <2>1
  <2> HIDE DEF p, f
  <2>3. \A i, j \in 1 .. p : f[i] = f[j] => i = j
    BY <1>4, <2>1, <2>2
  <2>4. ASSUME NEW i \in 1 .. p PROVE KeysOf(v[i][f[i]]) \subseteq w[f[i]] /\ Len(v[i][f[i]]) >= b
    <3> DEFINE k == f[i]
    <3>1. /\ k \in Kinds /\ v[i] = u[i + 1] /\ k = g[i + 1] /\ u[i + 1] \in Requests /\ Head(u) \in Requests
          /\ KeysOf(u[i + 1][k]) \subseteq flight[k] /\ Len(u[i + 1][k]) >= b
      <4>1. /\ i + 1 \in 1 .. n /\ i + 1 \in 1 .. Len(u) /\ v[i] = u[i + 1] /\ k = g[i + 1] /\ 1 \in 1 .. Len(u)
        BY <1>a, <2>1, <2>2
      <4>2. k \in Kinds /\ u[i + 1] \in Requests /\ Head(u) \in Requests
        BY <1>3, <2>2, <4>1
      <4> HIDE DEF k
      <4> QED BY <1>4, <4>1, <4>2
    <3>2. 1 \in DOMAIN u /\ i + 1 \in DOMAIN u /\ i + 1 # 1 /\ Head(u) = u[1]
      <4>1. i + 1 \in 1 .. Len(u) /\ i + 1 # 1 /\ 1 \in 1 .. Len(u)
        BY <1>a, <2>1
      <4> QED BY <1>3, <4>1
    <3>3. InReq(u[i + 1]) \cap InReq(Head(u)) = {}
      BY <3>2
    <3>4. KeysOf(u[i + 1][k]) \cap KeysOf(Head(u)[k]) = {}
      BY <3>1, <3>3, KeysApart
    <3>5. w[k] = flight[k] \ KeysOf(Head(u)[k])
      BY <3>1 DEF w
    <3> QED BY <3>1, <3>4, <3>5
  <2>5. Fills(f, p, v, w, b)
    BY <2>3, <2>4 DEF Fills
  <2>6. FirstOnesFill(v, w, b, closed)
    BY <2>1, <2>2, <2>5 DEF FirstOnesFill
  <2> QED BY <2>6 DEF v, w
<1> QED BY <1>5, <1>6

LEMMA NextFillsTheirBatch ==
  DistinctKeys /\ TypeOK /\ HandHeld /\ Phases /\ NothingKept /\ AllApart /\ BatchesBounded
    /\ FillsTheirBatch /\ [Next]_vars /\ batchSize' <= batchSize => FillsTheirBatch'
<1> SUFFICES ASSUME DistinctKeys, TypeOK, TypeOK', HandHeld, Phases, NothingKept, AllApart,
                    BatchesBounded, FillsTheirBatch, [Next]_vars, batchSize' <= batchSize
             PROVE  FillsTheirBatch'
  BY NextTypeOK
<1> USE DEF appVars, flagVars, resultVars, genVars, rxVars, srvVars
<1>0. /\ req \in Requests /\ unacked \in Seq(Requests) /\ batchSize \in Nat /\ batchSize' \in Nat
      /\ inflight \in [Kinds -> SUBSET Keys]
      /\ FirstOnesFill(unacked, inflight, batchSize, pc = "closed")
  BY DEF TypeOK, FillsTheirBatch
<1>a. /\ \A i \in DOMAIN unacked : WellPacked(unacked[i])
      /\ \A i, j \in DOMAIN unacked : i # j => InReq(unacked[i]) \cap InReq(unacked[j]) = {}
  BY DEF AllApart, Apart
<1>1. ASSUME UNCHANGED <<unacked, inflight>>, pc = "closed" => pc' = "closed" PROVE FillsTheirBatch'
  <2>1. FirstOnesFill(unacked, inflight, batchSize', pc' = "closed")
    BY <1>0, <1>1, FillKept
  <2> QED BY <1>1, <2>1 DEF FillsTheirBatch
<1>2. ASSUME Generator, ~Finish, ~YieldAndPack PROVE FillsTheirBatch'
  <2>1. UNCHANGED <<unacked, inflight>> /\ pc # "closed"
    BY <1>2 DEF Generator, Begin, LeaveOnShutdown, RenewStream, PauseOnOom, LeaveOnOom, Wait,
                PullNothing, PullEntry
  <2> QED BY <1>1, <2>1
<1>3. ASSUME Finish PROVE FillsTheirBatch'
  <2>1. /\ pc = "pull" /\ pc' = "closed" /\ UNCHANGED <<inflight, batchSize>>
        /\ unacked' \in {unacked, Append(unacked, req)}
    BY <1>3 DEF Finish, Send
  <2>2. CASE unacked' = unacked
    BY <1>1, <2>1, <2>2
  <2>3. CASE unacked' = Append(unacked, req)
    <3>1. FirstOnesFill(unacked, inflight, batchSize, FALSE)
      BY <1>0, <2>1, FillKept
    <3>2. FirstOnesFill(Append(unacked, req), inflight, batchSize, TRUE)
      BY <1>0, <3>1, FillLast
    <3>3. (pc' = "closed") = TRUE
      BY <2>1
    <3> QED BY <2>1, <2>3, <3>2, <3>3 DEF FillsTheirBatch
  <2> QED BY <2>1, <2>2, <2>3
<1>4. ASSUME YieldAndPack PROVE FillsTheirBatch'
  <2> DEFINE k == KindOf[hand]
  <2>1. /\ pc = "window" /\ pc' = "top" /\ UNCHANGED batchSize
        /\ unacked' = Append(unacked, req) /\ inflight' = [inflight EXCEPT ![k] = KeysOf(req[k])]
        /\ Cardinality(inflight[k]) < batchSize
    BY <1>4 DEF YieldAndPack, Pack, Send, WindowOpen
  <2>2. k \in Kinds /\ Len(req[k]) >= batchSize
    BY <2>1, KindType DEF HandHeld, BatchesBounded
  <2> HIDE DEF k
  <2>3. FirstOnesFill(unacked, inflight, batchSize, FALSE)
    BY <1>0, <2>1, FillKept
  <2>4. FirstOnesFill(Append(unacked, req), [inflight EXCEPT ![k] = KeysOf(req[k])], batchSize, FALSE)
    BY <1>0, <1>a, <2>1, <2>2, <2>3, FillNext
  <2>5. (pc' = "closed") = FALSE
    BY <2>1
  <2> QED BY <2>1, <2>4, <2>5 DEF FillsTheirBatch
<1>5. ASSUME unacked # <<>>, unacked' = Tail(unacked), inflight' = AfterAnswer(Head(unacked)),
             UNCHANGED <<pc, batchSize>>
      PROVE  FillsTheirBatch'
  <2>1. FirstOnesFill(Tail(unacked), [k \in Kinds |-> inflight[k] \ KeysOf(Head(unacked)[k])],
                      batchSize, pc = "closed")
    BY <1>0, <1>a, <1>5, FillAnswered
  <2> QED BY <1>5, <2>1 DEF FillsTheirBatch, AfterAnswer
<1>6. ASSUME RecvAcks PROVE FillsTheirBatch'
  BY <1>5, <1>6 DEF RecvAcks
<1>7. ASSUME RecvOutOfMemory PROVE FillsTheirBatch'
  <2>1. \/ UNCHANGED <<unacked, inflight>> /\ pc' = "closed"
        \/ /\ unacked' = Tail(unacked) /\ unacked # <<>> /\ inflight' = AfterAnswer(Head(unacked))
           /\ UNCHANGED <<pc, batchSize>>
    BY <1>7 DEF RecvOutOfMemory
  <2> QED BY <1>1, <1>5, <2>1
<1>8. ASSUME Connect PROVE FillsTheirBatch'
  <2>1. unacked = <<>> /\ unacked' = unacked
    BY <1>8 DEF Connect, NothingKept
  <2> QED BY <2>1, NothingToFill DEF FillsTheirBatch
<1>9. ASSUME Receiver, ~RecvAcks, ~RecvOutOfMemory, ~Connect PROVE FillsTheirBatch'
  <2>1. UNCHANGED <<unacked, inflight>> /\ pc' \in {pc, "closed"}
    BY <1>9 DEF Receiver, RecvStarted, RecvBackoff, RecvShuttingDown, RecvEnd,
                Reconnect, ReconnectFails, RecvError, RecvResult
  <2> QED BY <1>1, <2>1
<1>10. ASSUME NEW e \in Entries, Add(e) \/ AddResumes(e) PROVE FillsTheirBatch'
  BY <1>1, <1>10 DEF Add, AddResumes
<1>11. ASSUME Stop \/ StopReturns \/ UNCHANGED vars PROVE FillsTheirBatch'
  BY <1>1, <1>11 DEF Stop, StopReturns, vars
<1> QED BY <1>2, <1>3, <1>4, <1>6, <1>7, <1>8, <1>9, <1>10, <1>11 DEF Next, Terminated, Poll

\* The requests the server has to answer are of different kinds, but for one.
LEMMA FilledIsBounded ==
  ASSUME TypeOK, BatchesBounded, FillsTheirBatch
  PROVE  FlowControl
<1>0. /\ Len(unacked) \in Nat /\ IsFiniteSet(Kinds) /\ Cardinality(Kinds) = 2
      /\ WithinBatch(pending) /\ \A i \in DOMAIN unacked : WithinBatch(unacked[i])
  <2>1. IsFiniteSet({"obj"}) /\ Cardinality({"obj"}) = 1
    BY FS_Singleton
  <2>2. IsFiniteSet({"obj"} \cup {"ref"}) /\ Cardinality({"obj"} \cup {"ref"}) = 2
    BY <2>1, FS_AddElement
  <2>3. Kinds = {"obj"} \cup {"ref"}
    BY DEF Kinds
  <2>4. Len(unacked) \in Nat
    BY LenProperties DEF TypeOK
  <2> QED BY <2>2, <2>3, <2>4 DEF BatchesBounded
<1>1. PICK n \in 0 .. Len(unacked) :
        /\ n = Len(unacked) \/ (pc = "closed" /\ Len(unacked) = n + 1)
        /\ \E g \in [1 .. n -> Kinds] : Fills(g, n, unacked, inflight, batchSize)
  BY DEF FillsTheirBatch, FirstOnesFill
<1>2. PICK g \in [1 .. n -> Kinds] : Fills(g, n, unacked, inflight, batchSize)
  BY <1>1
<1>3. g \in Injection(1 .. n, Kinds)
  BY <1>2 DEF Fills, Injection, IsInjective
<1>4. n \in Nat /\ Cardinality(1 .. n) = n
  BY <1>0, CountingInterval
<1>5. Cardinality(1 .. n) <= Cardinality(Kinds)
  BY <1>0, <1>3, FS_Injection
<1>6. Len(unacked) <= Cardinality(Kinds) + 1
  BY <1>0, <1>1, <1>4, <1>5
<1>7. \A i \in DOMAIN unacked : Len(unacked[i]["obj"]) <= InitialBatchSize
  BY <1>0 DEF WithinBatch, Kinds
<1> QED BY <1>6, <1>7 DEF FlowControl

FlowInv == KeysFound /\ SizesInv /\ NothingKept /\ AllApart /\ BatchesBounded /\ FillsTheirBatch

LEMMA InitFlowInv == Init => FlowInv
<1> SUFFICES ASSUME Init PROVE FlowInv
  OBVIOUS
<1>1. /\ pc = "closed" /\ req = EmptyReq /\ pending = EmptyReq /\ unacked = <<>> /\ hand = NoEntry
      /\ queue = <<>> /\ batchSize = InitialBatchSize /\ \A key \in Keys : cache[key] = NotCached
  BY DEF Init
<1>2. KeysFound /\ NothingKept
  BY <1>1 DEF KeysFound, NothingKept
<1>3. AllApart
  <2>1. Live = EmptyReq /\ EntriesOf(InHand) = {}
    BY <1>1 DEF Live, InHand, EntriesOf
  <2>2. NoRepeats(<<>>) /\ EntriesOf(<<>>) = {} /\ InAll(<<>>) = {}
    BY DEF NoRepeats, EntriesOf, InAll
  <2>3. Apart(<<>>, EmptyReq, {}, <<>>, Added)
    BY <2>2, InReqEmpty, WellPackedEmpty DEF Apart
  <2> QED BY <1>1, <2>1, <2>3 DEF AllApart
<1>4. BatchesBounded
  BY <1>1, SizesAssumption, WithinBatchEmpty DEF BatchesBounded
<1>5. FillsTheirBatch
  BY <1>1, NothingToFill DEF FillsTheirBatch
<1> QED BY <1>2, <1>3, <1>4, <1>5, InitSizesInv DEF FlowInv

\* While the batch size never grows, and when entries have keys of their own and
\* are small enough to fill their requests, the server has at most one full
\* request of each kind and a last one to answer, and none has more objects than
\* the first batch size (the sleep before a yield in generateStreamRequests).
THEOREM StaysUnderControl ==
  ASSUME DistinctKeys, SmallEntries
  PROVE  Spec /\ [][batchSize' <= batchSize]_batchSize => []FlowControl
<1>1. ASSUME IInv, StreamInv, FlowInv, [Next]_vars, [batchSize' <= batchSize]_batchSize PROVE FlowInv'
  <2>1. TypeOK /\ HandHeld /\ Phases /\ batchSize' <= batchSize
    BY <1>1 DEF IInv, StreamInv, TypeOK
  <2>2. KeysFound' /\ SizesInv'
    BY <1>1, <2>1, NextKeysFound, NextSizesInv DEF FlowInv
  <2>3. NothingKept' /\ AllApart'
    BY <1>1, <2>1, NextNothingKept, NextAllApart DEF FlowInv
  <2>4. BatchesBounded' /\ FillsTheirBatch'
    BY <1>1, <2>1, NextBatchesBounded, NextFillsTheirBatch DEF FlowInv
  <2> QED BY <2>2, <2>3, <2>4 DEF FlowInv
<1>2. IInv /\ FlowInv => FlowControl
  BY FilledIsBounded DEF IInv, FlowInv
<1>3. IInv /\ StreamInv /\ FlowInv /\ [Next]_vars /\ [batchSize' <= batchSize]_batchSize => FlowInv'
  BY <1>1
<1> QED BY <1>2, <1>3, InitFlowInv, Invariance, StreamInvariance, PTL DEF Spec

=============================================================================
