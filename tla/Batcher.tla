------------------------------- MODULE Batcher ------------------------------
(***************************************************************************)
(* The client side of server-side batching: the Batcher class and the      *)
(* Batch.stream wrapper of src/src/collections/data/batch.ts.              *)
(*                                                                         *)
(* Four parties share the fields of one Batcher on one event loop, so an   *)
(* action is the code between two awaits:                                  *)
(*   - the application, which calls addObject, addReference and stop;      *)
(*   - the generator generateStreamRequests, which pulls the queue, packs  *)
(*     requests and yields them to the transport;                          *)
(*   - the receiver, do and start, which handles the server's messages     *)
(*     and reconnects or restarts the stream when it ends;                 *)
(*   - the server with the transport, external, seen through the messages  *)
(*     it receives and sends.  A message of the server is sent and         *)
(*     received in one step: how long it travels only the server could     *)
(*     tell.  It closes a stream without error only after the client did   *)
(*     and after it has acknowledged and reported everything it got.       *)
(*                                                                         *)
(* An entry is one addObject or addReference call, numbered in the order   *)
(* of the calls.  The queue is the first-in first-out channel that Queue   *)
(* implements for its one reader.                                          *)
(***************************************************************************)
EXTENDS Naturals, Sequences, FiniteSets

CONSTANTS
  N,                 \* number of entries
  KindOf,            \* KindOf[e]: "obj" or "ref"
  KeyOf,             \* KeyOf[e]: the uuid of an object, the beacon of a reference
  SizeOf,            \* SizeOf[e]: the bytes e is encoded in
  Overhead,          \* PER_OBJECT_OVERHEAD, 4
  Limits,            \* where the length of a message takes a byte more: 2^7, 2^14, ...
  Failing,           \* the entries the server answers with an error
  MaxMessageSize,    \* connection.grpcMaxMessageLength
  InitialBatchSize,  \* the batch size before any backoff message
  BackoffSizes,      \* the batch sizes a backoff message may ask for
  IsWcdOnGcp,        \* whether streams are renewed before GCP ends them
  Budget             \* bound: how often each event of Events may happen

Entries == 1 .. N
Kinds == {"obj", "ref"}
Keys == {KeyOf[e] : e \in Entries}
Events == {"backoff", "oom", "shutdown", "error", "renew", "reconnectFails"}

NoEntry == 0
NoKey == "none"

ASSUME EntriesAssumption ==
  /\ N \in Nat
  /\ KindOf \in [Entries -> Kinds]
  /\ SizeOf \in [Entries -> Nat]
  /\ Failing \subseteq Entries
ASSUME KeysAssumption ==   \* a uuid is never a beacon
  /\ NoKey \notin Keys
  /\ \A e, f \in Entries : KeyOf[e] = KeyOf[f] => KindOf[e] = KindOf[f]
ASSUME SizesAssumption ==
  /\ Overhead \in Nat /\ Limits \subseteq Nat /\ IsFiniteSet(Limits) /\ MaxMessageSize \in Nat
  /\ InitialBatchSize \in Nat \ {0}
  /\ BackoffSizes \subseteq Nat \ {0}
ASSUME BudgetAssumption == IsWcdOnGcp \in BOOLEAN /\ Budget \in [Events -> Nat]

VARIABLES
  \* the application
  call,              \* call[e]: what became of the call that adds e
  snapshot,          \* snapshot[e]: the in-flight count e's call was given
  stopping,          \* what became of the call of stop
  \* flags and fields of the Batcher
  isStarted, isShuttingDown, isOom, isRenewingStream,
  batchSize,
  inflight,          \* inflight[k]: keys of the last request yielded for kind k
  cache,             \* objsCache and refsCache: [entry, index] by key
  pending,           \* pendingObjs and pendingRefs, as a request
  queue,
  successes,         \* uuids and beacons: key by index
  errors,            \* objErrors and refErrors: entry by index
  \* the generator
  pc, req, hand, index, totalSize, emptyReqSize,
  \* the receiver
  rx, retries,
  \* the server
  unacked,           \* requests received and not acknowledged
  unreported,        \* entries acknowledged whose result is not sent
  \* bounds and histories
  budget,
  accepted,          \* accepted[k]: entries of kind k pushed by calls, in order
  acceptedAtStop,    \* acceptedAtStop[k]: how many of them when stop was called
  sent,              \* sent[k]: entries of kind k sent, in order
  settled            \* entries whose result has been received

appVars == <<call, snapshot, stopping, acceptedAtStop>>
flagVars == <<isStarted, isShuttingDown, isOom, isRenewingStream>>
resultVars == <<cache, successes, errors, settled>>
genVars == <<pc, req, hand, index, totalSize, emptyReqSize>>
rxVars == <<rx, retries>>
srvVars == <<unacked, unreported>>

vars == <<appVars, flagVars, batchSize, inflight, resultVars, pending, queue,
          genVars, rxVars, srvVars, budget, accepted, sent>>

-----------------------------------------------------------------------------
\* Requests: the entries of each kind, in the order of packing.
EmptyReq == [k \in Kinds |-> <<>>]
WithEntry(r, e) == [r EXCEPT ![KindOf[e]] = Append(@, e)]
EntriesOf(s) == {s[i] : i \in DOMAIN s}
InReq(r) == UNION {EntriesOf(r[k]) : k \in Kinds}
KeysOf(s) == {KeyOf[e] : e \in EntriesOf(s)}

\* A message of n bytes within another: a tag of one byte, the length in as
\* many as it takes, and the message.
PrefixOf(n) == 1 + Cardinality({limit \in Limits : limit <= n})
FieldSize(n) == 1 + PrefixOf(n) + n

\* What the entries of s take together when e takes Bytes[e]: each byte is
\* named by its entry's place and its own.
BytesOf(s, Bytes) == UNION {{i} \X (1 .. Bytes[s[i]]) : i \in DOMAIN s}
TotalOf(s, Bytes) == Cardinality(BytesOf(s, Bytes))

\* An entry as a message in a list, the two lists in the data, and the data in
\* the request.
InList == [e \in Entries |-> FieldSize(SizeOf[e])]
ReqSize(r) == FieldSize(FieldSize(TotalOf(r["obj"], InList)) + FieldSize(TotalOf(r["ref"], InList)))

Base == ReqSize(EmptyReq)

\* objSize and refSize: what an entry is taken to add to a request.
Estimate(e) == SizeOf[e] + Overhead

ASSUME EmptyReqAssumption == Base < MaxMessageSize

\* Indices grow by one for every object or reference pulled in a stream.
Indices == 0 .. N * (Budget["oom"] + 1)

NotCached == [entry |-> NoEntry, index |-> 0]

Spend(event) ==
  /\ budget[event] > 0
  /\ budget' = [budget EXCEPT ![event] = @ - 1]

\* Whether an event has not happened yet.
Unspent(event) == budget[event] = Budget[event]

Init ==
  /\ call = [e \in Entries |-> "idle"]
  /\ snapshot = [e \in Entries |-> 0]
  /\ stopping = "no"
  /\ isStarted = FALSE /\ isShuttingDown = FALSE
  /\ isOom = FALSE /\ isRenewingStream = FALSE
  /\ batchSize = InitialBatchSize
  /\ inflight = [k \in Kinds |-> {}]
  /\ cache = [key \in Keys |-> NotCached]
  /\ pending = EmptyReq
  /\ queue = <<>>
  /\ successes = [k \in Kinds |-> [i \in Indices |-> NoKey]]
  /\ errors = [k \in Kinds |-> [i \in Indices |-> NoEntry]]
  /\ pc = "closed" /\ req = EmptyReq /\ hand = NoEntry
  /\ index = [k \in Kinds |-> 0]
  /\ totalSize = Base /\ emptyReqSize = Base
  /\ rx = "connecting" /\ retries = 0
  /\ unacked = <<>> /\ unreported = {}
  /\ budget = Budget
  /\ accepted = [k \in Kinds |-> <<>>]
  /\ acceptedAtStop = [k \in Kinds |-> 0]
  /\ sent = [k \in Kinds |-> <<>>]
  /\ settled = {}

-----------------------------------------------------------------------------
(***************************************************************************)
(* The application.                                                        *)
(***************************************************************************)
Called == {e \in Entries : call[e] # "idle"}

\* acceptNext: whether an add that was given the in-flight count n waits.
MustWait(n) == n >= batchSize \/ isShuttingDown \/ isOom

Push(e) ==
  /\ queue' = Append(queue, e)
  /\ accepted' = [accepted EXCEPT ![KindOf[e]] = Append(@, e)]

\* addObject and addReference: check() throws once the stream has failed,
\* acceptNext once stop was called.
Add(e) ==
  /\ call[e] = "idle" /\ \A f \in 1 .. e - 1 : call[f] # "idle"
  /\ LET n == Cardinality(inflight[KindOf[e]])
     IN  \/ /\ rx = "failed" \/ stopping # "no"
            /\ call' = [call EXCEPT ![e] = "rejected"]
            /\ UNCHANGED <<snapshot, queue, accepted>>
         \/ /\ rx # "failed" /\ stopping = "no" /\ MustWait(n)
            /\ call' = [call EXCEPT ![e] = "waiting"]
            /\ snapshot' = [snapshot EXCEPT ![e] = n]
            /\ UNCHANGED <<queue, accepted>>
         \/ /\ rx # "failed" /\ stopping = "no" /\ ~MustWait(n)
            /\ call' = [call EXCEPT ![e] = "added"]
            /\ Push(e)
            /\ UNCHANGED snapshot
  /\ UNCHANGED <<stopping, acceptedAtStop, flagVars, batchSize, inflight, resultVars, pending,
                 genVars, rxVars, srvVars, budget, sent>>

\* acceptNext's loop ends: the count it compares is the one it was given.
AddResumes(e) ==
  /\ call[e] = "waiting" /\ ~MustWait(snapshot[e])
  /\ call' = [call EXCEPT ![e] = "added"]
  /\ Push(e)
  /\ UNCHANGED <<snapshot, stopping, acceptedAtStop, flagVars, batchSize, inflight,
                 resultVars, pending, genVars, rxVars, srvVars, budget, sent>>

\* stop: check() throws once the stream has failed; else the flag is set and
\* the caller awaits context.
Stop ==
  /\ stopping = "no"
  /\ stopping' = IF rx = "failed" THEN "threw" ELSE "waiting"
  /\ acceptedAtStop' = [k \in Kinds |-> Len(accepted[k])]
  /\ UNCHANGED <<call, snapshot, flagVars, batchSize, inflight, resultVars,
                 pending, queue, genVars, rxVars, srvVars, budget, accepted, sent>>

\* context is start().catch(...): it resolves whether start resolved or threw.
StopReturns ==
  /\ stopping = "waiting" /\ rx \in {"ended", "failed"}
  /\ stopping' = "resolved"
  /\ UNCHANGED <<call, snapshot, acceptedAtStop, flagVars, batchSize, inflight, resultVars,
                 pending, queue, genVars, rxVars, srvVars, budget, accepted, sent>>

isStopped == stopping \in {"waiting", "resolved"}

-----------------------------------------------------------------------------
(***************************************************************************)
(* The generator of the stream's requests.                                 *)
(***************************************************************************)
\* yield req: the transport sends it.
Send(r) ==
  /\ unacked' = Append(unacked, r)
  /\ sent' = [k \in Kinds |-> sent[k] \o r[k]]

\* The server has said it is ready: the first request starts with the
\* entries the previous stream left over.
Begin ==
  /\ pc = "waitStarted" /\ isStarted
  /\ pc' = "top"
  /\ req' = pending
  /\ emptyReqSize' = ReqSize(pending) /\ totalSize' = ReqSize(pending)
  /\ index' = [k \in Kinds |-> 0]
  /\ UNCHANGED <<appVars, flagVars, batchSize, inflight, resultVars, pending, queue,
                 hand, rxVars, srvVars, budget, accepted, sent>>

\* Mutant: what was packed is not kept for the next stream.
ForgetReq(r) == pending

\* What is kept of the request being packed when the generator gives up.
SaveReq(r) == r

\* The top of the loop: the server is shutting down.
LeaveOnShutdown ==
  /\ pc = "top" /\ isShuttingDown
  /\ pending' = SaveReq(req)
  /\ pc' = "closed"
  /\ UNCHANGED <<appVars, flagVars, batchSize, inflight, resultVars, queue, req, hand,
                 index, totalSize, emptyReqSize, rxVars, srvVars, budget, accepted, sent>>

\* ... the stream is older than GCP_STREAM_TIMEOUT: it yields stop.
RenewStream ==
  /\ pc = "top" /\ ~isShuttingDown
  /\ IsWcdOnGcp /\ Spend("renew")
  /\ isRenewingStream' = TRUE
  /\ pc' = "closed"
  /\ UNCHANGED <<appVars, isStarted, isShuttingDown, isOom, batchSize, inflight,
                 resultVars, pending, queue, req, hand, index, totalSize, emptyReqSize,
                 rxVars, srvVars, accepted, sent>>

\* ... the server is out of memory: save the request and sleep ...
PauseOnOom ==
  /\ pc = "top" /\ ~isShuttingDown /\ isOom
  /\ pending' = SaveReq(req)
  /\ pc' = "oomSleep"
  /\ UNCHANGED <<appVars, flagVars, batchSize, inflight, resultVars, queue, req, hand,
                 index, totalSize, emptyReqSize, rxVars, srvVars, budget, accepted, sent>>

\* ... once: the return follows the first sleep.
LeaveOnOom ==
  /\ pc = "oomSleep"
  /\ pc' = "closed"
  /\ UNCHANGED <<appVars, flagVars, batchSize, inflight, resultVars, pending, queue,
                 req, hand, index, totalSize, emptyReqSize, rxVars, srvVars, budget,
                 accepted, sent>>

\* ... or all is well: wait for an entry.
Wait ==
  /\ pc = "top" /\ ~isShuttingDown /\ ~isOom
  /\ pc' = "pull"
  /\ UNCHANGED <<appVars, flagVars, batchSize, inflight, resultVars, pending, queue,
                 req, hand, index, totalSize, emptyReqSize, rxVars, srvVars, budget,
                 accepted, sent>>

\* Mutant: only the objects packed are looked at.
HasObjects(r) == r["obj"] # <<>>

\* Whether there is anything left to yield before stop.
HasEntries(r) == r["obj"] # <<>> \/ r["ref"] # <<>>

\* The pull times out and stop was not called: look at the flags again.
PullNothing ==
  /\ pc = "pull" /\ queue = <<>> /\ ~isStopped
  /\ pc' = "top"
  /\ UNCHANGED <<appVars, flagVars, batchSize, inflight, resultVars, pending, queue,
                 req, hand, index, totalSize, emptyReqSize, rxVars, srvVars, budget,
                 accepted, sent>>

\* The pull times out and stop was called: yield what is packed, then stop.
Finish ==
  /\ pc = "pull" /\ queue = <<>> /\ isStopped
  /\ IF HasEntries(req) THEN Send(req) ELSE UNCHANGED <<unacked, sent>>
  /\ req' = EmptyReq
  /\ pc' = "closed"
  /\ UNCHANGED <<appVars, flagVars, batchSize, inflight, resultVars, pending, queue,
                 hand, index, totalSize, emptyReqSize, rxVars, unreported, budget,
                 accepted>>

\* Mutant: one object more than the batch size is packed.
NeedsYieldOffByOne(e) ==
  \/ totalSize + Estimate(e) >= MaxMessageSize
  \/ Len(req[KindOf[e]]) > batchSize

\* Whether e has no room in the request being packed.
NeedsYield(e) ==
  \/ totalSize + Estimate(e) >= MaxMessageSize
  \/ Len(req[KindOf[e]]) >= batchSize

\* Whether e can never be sent; references are not checked.
TooLarge(e) == KindOf[e] = "obj" /\ Estimate(e) + emptyReqSize >= MaxMessageSize

\* Mutant: objects and references are numbered together.
SharedIndex(e) == index["obj"] + index["ref"]

\* The index under which e's result will be reported.
IndexOf(e) == index[KindOf[e]]

Pack(e, r, size) ==
  /\ req' = WithEntry(r, e)
  /\ totalSize' = size + Estimate(e)
  /\ index' = [index EXCEPT ![KindOf[e]] = @ + 1]
  /\ pc' = "top"

\* An entry is pulled and cached: it is too large, or it has to wait for the
\* request before it to be sent, or it is packed.
PullEntry ==
  /\ pc = "pull" /\ queue # <<>>
  /\ queue' = Tail(queue)
  /\ LET e == Head(queue)
     IN  /\ cache' = [cache EXCEPT ![KeyOf[e]] = [entry |-> e, index |-> IndexOf(e)]]
         /\ \/ /\ TooLarge(e)
               /\ pc' = "closed" /\ rx' = "failed"
               /\ UNCHANGED <<req, hand, index, totalSize>>
            \/ /\ ~TooLarge(e) /\ NeedsYield(e)
               /\ pc' = "window" /\ hand' = e
               /\ UNCHANGED <<req, index, totalSize, rx>>
            \/ /\ ~TooLarge(e) /\ ~NeedsYield(e)
               /\ Pack(e, req, totalSize)
               /\ UNCHANGED <<hand, rx>>
  /\ UNCHANGED <<appVars, flagVars, batchSize, inflight, successes, errors, settled,
                 pending, emptyReqSize, retries, srvVars, budget, accepted, sent>>

\* Mutant: the size of the new request does not count its frame.
NoFrame(r) == [reqLeft |-> EmptyReq, size |-> 0]

\* The request that is packed after r was yielded.
AfterYield(r) == [reqLeft |-> EmptyReq, size |-> Base]

\* Mutant: the sleep does not look at the keys in flight.
AlwaysOpen(k) == TRUE

\* The sleep before a yield ends when there is room for another request.
WindowOpen(k) == Cardinality(inflight[k]) < batchSize

\* The request has room in flight: yield it, start a new one with the entry.
YieldAndPack ==
  /\ pc = "window"
  /\ LET k == KindOf[hand]
     IN  /\ WindowOpen(k)
         /\ inflight' = [inflight EXCEPT ![k] = KeysOf(req[k])]
         /\ Send(req)
         /\ Pack(hand, AfterYield(req).reqLeft, AfterYield(req).size)
  /\ hand' = NoEntry
  /\ UNCHANGED <<appVars, flagVars, batchSize, resultVars, pending, queue,
                 emptyReqSize, rxVars, unreported, budget, accepted>>

Generator ==
  \/ Begin \/ LeaveOnShutdown \/ RenewStream \/ PauseOnOom \/ LeaveOnOom
  \/ Wait \/ PullNothing \/ Finish \/ PullEntry \/ YieldAndPack

-----------------------------------------------------------------------------
(***************************************************************************)
(* The receiver: do, start, reconnect and restart.                         *)
(***************************************************************************)
\* do opens the stream; the transport starts the generator.
Connect ==
  /\ rx = "connecting"
  /\ rx' = "open" /\ pc' = "waitStarted"
  /\ UNCHANGED <<appVars, flagVars, batchSize, inflight, resultVars, pending, queue,
                 req, hand, index, totalSize, emptyReqSize, retries, srvVars, budget,
                 accepted, sent>>

\* The server is ready for data.
RecvStarted ==
  /\ rx = "open" /\ ~isStarted
  /\ isStarted' = TRUE
  /\ UNCHANGED <<appVars, isShuttingDown, isOom, isRenewingStream, batchSize, inflight,
                 resultVars, pending, queue, genVars, rxVars, srvVars, budget, accepted,
                 sent>>

\* Mutant: an answer leaves its keys in flight.
AckNothing(m) == inflight

\* What is in flight once the server has answered request m.
AfterAnswer(m) == [k \in Kinds |-> inflight[k] \ KeysOf(m[k])]

\* The server acknowledges the oldest request.
RecvAcks ==
  /\ rx = "open" /\ unacked # <<>>
  /\ inflight' = AfterAnswer(Head(unacked))
  /\ unacked' = Tail(unacked)
  /\ unreported' = unreported \cup InReq(Head(unacked))
  /\ UNCHANGED <<appVars, flagVars, batchSize, resultVars, pending, queue, genVars,
                 rxVars, budget, accepted, sent>>

\* The server asks for another batch size.
RecvBackoff ==
  /\ rx = "open" /\ Spend("backoff")
  /\ batchSize' \in BackoffSizes
  /\ UNCHANGED <<appVars, flagVars, inflight, resultVars, pending, queue, genVars,
                 rxVars, srvVars, accepted, sent>>

\* The entries that go back to the queue when the server refuses m, from the
\* caches: the latest entry with the key.
Cached(s) == [i \in DOMAIN s |-> cache[KeyOf[s[i]]].entry]

\* Mutant: the references refused are not queued again.
RequeueObjects(m) == Cached(m["obj"])

Requeue(m) == Cached(m["obj"]) \o Cached(m["ref"])

\* The server has no memory for the oldest request.  A key that is no longer
\* cached makes the handler throw.
RecvOutOfMemory ==
  /\ rx = "open" /\ ~isShuttingDown /\ unacked # <<>> /\ Spend("oom")
  /\ isOom' = TRUE
  /\ LET m == Head(unacked)
     IN  IF NoEntry \in EntriesOf(Cached(m["obj"]) \o Cached(m["ref"]))
         THEN /\ rx' = "failed" /\ pc' = "closed"
              /\ UNCHANGED <<queue, inflight, unacked>>
         ELSE /\ queue' = queue \o Requeue(m)
              /\ inflight' = AfterAnswer(m)
              /\ unacked' = Tail(unacked)
              /\ UNCHANGED <<rx, pc>>
  /\ UNCHANGED <<appVars, isStarted, isShuttingDown, isRenewingStream, batchSize,
                 resultVars, pending, req, hand, index, totalSize, emptyReqSize, retries,
                 unreported, accepted, sent>>

\* The server is about to shut down.
RecvShuttingDown ==
  /\ rx = "open" /\ Spend("shutdown")
  /\ isShuttingDown' = TRUE
  /\ isOom' = FALSE
  /\ UNCHANGED <<appVars, isStarted, isRenewingStream, batchSize, inflight, resultVars,
                 pending, queue, genVars, rxVars, srvVars, accepted, sent>>

\* The result of an entry: do looks the key up in the cache and start records
\* it under the cached index.  A key that is not cached is skipped.
RecvResult(e) ==
  /\ rx = "open" /\ e \in unreported
  /\ unreported' = unreported \ {e}
  /\ settled' = settled \cup {e}
  /\ LET key == KeyOf[e]
         k == KindOf[e]
         cached == cache[key]
     IN  \/ /\ cached = NotCached
            /\ UNCHANGED <<cache, successes, errors>>
         \/ /\ cached # NotCached
            /\ cache' = [cache EXCEPT ![key] = NotCached]
            /\ IF e \in Failing
               THEN /\ errors' = [errors EXCEPT ![k][cached.index] = cached.entry]
                    /\ UNCHANGED successes
               ELSE /\ successes' = [successes EXCEPT ![k][cached.index] = key]
                    /\ UNCHANGED errors
  /\ UNCHANGED <<appVars, flagVars, batchSize, inflight, pending, queue, genVars, rxVars,
                 unacked, budget, accepted, sent>>

\* The server has closed the stream: what start does next.
RecvEnd ==
  /\ rx = "open" /\ pc = "closed" /\ unacked = <<>> /\ unreported = {}
  /\ \/ /\ isShuttingDown
        /\ rx' = "reconnecting" /\ retries' = 0
        /\ UNCHANGED <<isStarted, isRenewingStream>>
     \/ /\ ~isShuttingDown /\ isRenewingStream
        /\ rx' = "connecting"
        /\ isRenewingStream' = FALSE /\ isStarted' = FALSE
        /\ UNCHANGED retries
     \/ /\ ~isShuttingDown /\ ~isRenewingStream
        /\ rx' = "ended"
        /\ UNCHANGED <<retries, isStarted, isRenewingStream>>
  /\ UNCHANGED <<appVars, isShuttingDown, isOom, batchSize, inflight, resultVars,
                 pending, queue, genVars, srvVars, budget, accepted, sent>>

\* reconnect succeeds, and restart starts a new stream.
Reconnect ==
  /\ rx = "reconnecting"
  /\ rx' = "connecting" /\ isStarted' = FALSE
  /\ UNCHANGED <<appVars, isShuttingDown, isOom, isRenewingStream, batchSize, inflight,
                 resultVars, pending, queue, genVars, retries, srvVars, budget, accepted,
                 sent>>

\* Mutant: one attempt too few.
GiveUpEarly == retries >= 4

\* reconnect's catch: the sixth attempt was the last.
GiveUp == retries >= 5

\* reconnect fails: try again after a sleep, five times.
ReconnectFails ==
  /\ rx = "reconnecting" /\ Spend("reconnectFails")
  /\ \/ /\ GiveUp
        /\ rx' = "failed"
        /\ UNCHANGED retries
     \/ /\ ~GiveUp
        /\ retries' = retries + 1
        /\ UNCHANGED rx
  /\ UNCHANGED <<appVars, flagVars, batchSize, inflight, resultVars, pending, queue,
                 genVars, srvVars, accepted, sent>>

\* The stream fails: do throws and start with it.
RecvError ==
  /\ rx \in {"connecting", "open"} /\ Spend("error")
  /\ rx' = "failed" /\ pc' = "closed"
  /\ UNCHANGED <<appVars, flagVars, batchSize, inflight, resultVars, pending, queue, req,
                 hand, index, totalSize, emptyReqSize, retries, srvVars, accepted, sent>>

Receiver ==
  \/ Connect \/ RecvStarted \/ RecvAcks \/ RecvBackoff \/ RecvOutOfMemory
  \/ RecvShuttingDown \/ RecvEnd \/ Reconnect \/ ReconnectFails \/ RecvError
  \/ \E e \in Entries : RecvResult(e)

\* The loops of acceptNext and of the sleep before a yield go round.
Poll ==
  /\ \/ \E e \in Entries : call[e] = "waiting" /\ MustWait(snapshot[e])
     \/ pc = "window" /\ ~WindowOpen(KindOf[hand])
  /\ UNCHANGED vars

\* Nothing is left to do: the stream is over and stop has returned.
Terminated ==
  /\ rx \in {"ended", "failed"} /\ stopping \in {"resolved", "threw"}
  /\ UNCHANGED vars

Next ==
  \/ Stop \/ StopReturns
  \/ \E e \in Entries : Add(e) \/ AddResumes(e)
  \/ Generator
  \/ Receiver
  \/ Poll
  \/ Terminated

\* The event loop runs every continuation and timer; the server starts a
\* stream, acknowledges, reports and closes.
Fairness ==
  /\ WF_vars(Generator)
  /\ WF_vars(StopReturns)
  /\ \A e \in Entries : WF_vars(AddResumes(e)) /\ WF_vars(RecvResult(e))
  /\ WF_vars(Connect) /\ WF_vars(RecvStarted) /\ WF_vars(RecvAcks)
  /\ WF_vars(RecvEnd) /\ WF_vars(Reconnect)

Spec == Init /\ [][Next]_vars /\ Fairness

-----------------------------------------------------------------------------
(***************************************************************************)
(* Properties.                                                             *)
(***************************************************************************)
Requests == [Kinds -> Seq(Entries)]

\* Types of the state; RequestsFit says what the sizes are.
TypeOK ==
  /\ call \in [Entries -> {"idle", "waiting", "added", "rejected"}]
  /\ snapshot \in [Entries -> Nat]
  /\ stopping \in {"no", "waiting", "resolved", "threw"}
  /\ isStarted \in BOOLEAN /\ isShuttingDown \in BOOLEAN
  /\ isOom \in BOOLEAN /\ isRenewingStream \in BOOLEAN
  /\ batchSize \in Nat \ {0}
  /\ inflight \in [Kinds -> SUBSET Keys]
  /\ cache \in [Keys -> [entry : Entries \cup {NoEntry}, index : Nat]]
  /\ pending \in Requests /\ req \in Requests
  /\ queue \in Seq(Entries)
  /\ successes \in [Kinds -> [Indices -> Keys \cup {NoKey}]]
  /\ errors \in [Kinds -> [Indices -> Entries \cup {NoEntry}]]
  /\ pc \in {"closed", "waitStarted", "top", "pull", "window", "oomSleep"}
  /\ hand \in Entries \cup {NoEntry}
  /\ index \in [Kinds -> Nat]
  /\ rx \in {"connecting", "open", "reconnecting", "ended", "failed"}
  /\ retries \in 0 .. 5
  /\ unacked \in Seq(Requests) /\ unreported \subseteq Entries
  /\ budget \in [Events -> Nat]
  /\ acceptedAtStop \in [Kinds -> Nat]
  /\ accepted \in Requests /\ sent \in Requests
  /\ settled \subseteq Entries

InHand == IF hand = NoEntry THEN <<>> ELSE <<hand>>
HandOf(k) == IF hand # NoEntry /\ KindOf[hand] = k THEN <<hand>> ELSE <<>>

\* What the generator has taken of kind k: sent, packed, and in its hand.
Taken(k) == sent[k] \o req[k] \o HandOf(k)

\* How many of the first n entries of s are of kind k.
CountOf(s, n, k) == Cardinality({i \in 1 .. n : KindOf[s[i]] = k})

\* The server has refused no request and no stream was renewed.
Undisturbed == Unspent("oom") /\ Unspent("renew")

\* No two entries have the same key.
DistinctKeys == \A e, f \in Entries : KeyOf[e] = KeyOf[f] => e = f

\* While the server neither refuses a request nor the stream is renewed, what
\* the calls added is, in order and once each, what was sent, what is packed,
\* what the generator holds and what is queued (generateStreamRequests): the
\* j-th entry queued is, counting its kind, the next after those taken.
Pipeline ==
  rx # "failed" /\ Undisturbed =>
    \A k \in Kinds :
      /\ Len(accepted[k]) = Len(Taken(k)) + CountOf(queue, Len(queue), k)
      /\ \A i \in DOMAIN Taken(k) : accepted[k][i] = Taken(k)[i]
      /\ \A j \in DOMAIN queue : KindOf[queue[j]] = k =>
           accepted[k][Len(Taken(k)) + CountOf(queue, j, k)] = queue[j]

\* uuids(), beacons(), objErrors() and refErrors() report a result under the
\* position of its call among the calls of its kind, as long as the server has
\* refused no request and no stream was renewed.
ResultsMatchCalls ==
  Undisturbed => \A k \in Kinds, i \in Indices :
    /\ successes[k][i] # NoKey =>
         i < Len(accepted[k]) /\ successes[k][i] = KeyOf[accepted[k][i + 1]]
    /\ errors[k][i] # NoEntry =>
         i < Len(accepted[k]) /\ errors[k][i] = accepted[k][i + 1]

\* When the stream has ended well after stop was called, every entry whose
\* call had been accepted by then has a result (the promise of stop).
EndedComplete ==
  rx = "ended" =>
    \A k \in Kinds : \A i \in 1 .. acceptedAtStop[k] :
      \/ successes[k][i - 1] = KeyOf[accepted[k][i]]
      \/ errors[k][i - 1] = accepted[k][i]

\* What uuids(), beacons(), objErrors() and refErrors() hold at one index, and
\* what they should hold for an entry.
ResultIs(key, error) == [key |-> key, error |-> error]
Results == [k \in Kinds |-> [i \in Indices |-> ResultIs(successes[k][i], errors[k][i])]]
ResultOf ==
  [e \in Entries |-> IF e \in Failing THEN ResultIs(NoKey, e) ELSE ResultIs(KeyOf[e], NoEntry)]

Promised == INSTANCE Delivery WITH
       Places <- Indices, OutcomeOf <- ResultOf, NoOutcome <- ResultIs(NoKey, NoEntry),
       outcome <- Results, closed <- stopping # "no", due <- acceptedAtStop,
       over <- rx = "ended"

\* A batch stream implements Delivery as long as entries have keys of their own
\* and nothing is refused or renewed (addObject, addReference, stop and uuids,
\* beacons, objErrors, refErrors): results are never changed once given, nor
\* after the stream has ended, and those of all calls before stop are there.
ImplementsDelivery == Promised!Spec

\* A reference that is too large by itself; only objects are checked.
Oversize(e) == KindOf[e] = "ref" /\ Base + Estimate(e) >= MaxMessageSize

\* What the generator does not count: the longer lengths of the two lists and of
\* the data, and what the tag and the length of an entry take beyond Overhead.
Beyond ==
  [e \in Entries |-> Cardinality(Overhead + 1 .. 1 + PrefixOf(SizeOf[e]))]
Uncounted(r) ==
  3 * Cardinality(Limits) + TotalOf(r["obj"], Beyond) + TotalOf(r["ref"], Beyond)

\* A request exceeds the server's message size by what is not counted at most,
\* unless it is one reference that is too large in itself; and the running total
\* never falls behind what is packed by more, whatever was sent, kept or refused
\* before (PER_OBJECT_OVERHEAD, "to avoid hitting the gRPC max message size").
RequestsFit ==
  /\ \A i \in DOMAIN unacked :
       \/ ReqSize(unacked[i]) < MaxMessageSize + Uncounted(unacked[i])
       \/ \E e \in Entries : Oversize(e) /\ unacked[i] = WithEntry(EmptyReq, e)
  /\ pc \in {"top", "pull", "window"} => ReqSize(req) <= totalSize + Uncounted(req)

\* A stream that has ended well leaves nothing in the caches or in flight.
NothingLeftBehind ==
  rx = "ended" =>
    /\ \A key \in Keys : cache[key] = NotCached
    /\ \A k \in Kinds : inflight[k] = {}

\* A stream that has ended well has answered everything and left nothing, when
\* every entry has a key of its own and nothing was refused or renewed.
EndsClean ==
  Undisturbed /\ DistinctKeys => EndedComplete /\ NothingLeftBehind

\* Every key counted as in flight belongs to a request the server has still
\* to answer, so the sleep before a yield always ends.
InflightSound ==
  \A k \in Kinds :
    inflight[k] \subseteq UNION {KeysOf(unacked[i][k]) : i \in DOMAIN unacked}

\* With a batch size that never grows, entries small enough to fill their
\* requests and no key twice in one, the server has at most one full request of
\* each kind and the last one to answer (the sleep before a yield).
FlowControl ==
  /\ Len(unacked) <= Cardinality(Kinds) + 1
  /\ \A i \in DOMAIN unacked : Len(unacked[i]["obj"]) <= InitialBatchSize

\* While no stream is renewed, no entry with a key of its own is lost between
\* its call and its result, whether the server runs out of memory or shuts
\* down: it is queued, in the generator's hand, packed, kept for the next
\* stream, with the server, or settled.
NoneLost ==
  rx # "failed" /\ Unspent("renew") =>
    \A k \in Kinds : \A e \in EntriesOf(accepted[k]) :
      (\A f \in Entries \ {e} : KeyOf[f] # KeyOf[e]) =>
        e \in EntriesOf(queue) \cup EntriesOf(InHand) \cup InReq(req)
               \cup InReq(pending) \cup unreported \cup settled
               \cup UNION {InReq(unacked[j]) : j \in DOMAIN unacked}

\* No entry is sent twice as long as the server refuses none, whether the stream
\* is renewed or the server shuts down.
SentOnce ==
  Unspent("oom") =>
  \A k \in Kinds : \A i, j \in DOMAIN sent[k] : sent[k][i] = sent[k][j] => i = j

\* Every entry goes to the server, and once, whatever shuts down or is refused.
EachSentOnce == NoneLost /\ SentOnce

\* The sleep before a yield ends.
WindowOpens == (pc = "window") ~> (pc # "window")

\* Once stop is called, it returns, unless the server shuts down.
StopReturnsEventually ==
  (stopping = "waiting") ~> (stopping = "resolved" \/ isShuttingDown)

\* The stream makes progress: the sleep before a yield ends, and so does stop.
Progresses == WindowOpens /\ StopReturnsEventually

\* "wait until there's room in the batch and the server is healthy before
\* accepting more objects": an add that waits is accepted or refused.
AddsAreAccepted ==
  \A e \in Entries : (call[e] = "waiting") ~> (call[e] # "waiting")

\* "Reconnected, resuming batch ingestion...": when the client has reconnected
\* after a shutdown of the server and stop has been called, so that no request
\* waits for more entries, what was added is sent.
IngestionResumes ==
  \A e \in Entries :
    call[e] = "added" /\ ~Unspent("shutdown") /\ rx = "connecting" /\ stopping = "waiting"
      ~> rx = "failed" \/ \E k \in Kinds : e \in EntriesOf(sent[k])

\* The client gives up a server that is shutting down only after six attempts
\* to reconnect have failed.
GivesUpAfterSixAttempts ==
  [][rx = "reconnecting" /\ rx' = "failed"
       => Budget["reconnectFails"] - budget'["reconnectFails"] >= 6]_vars

\* "ensure that error is thrown when stopping the batch too"
StopReportsFailure == stopping = "resolved" => rx # "failed"

=============================================================================
