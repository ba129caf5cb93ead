------------------------------- MODULE Tenants ------------------------------
(***************************************************************************)
(* update of src/src/collections/tenants/index.ts, which activate,         *)
(* deactivate and offload call.                                            *)
(*                                                                         *)
(* Its tenants are cut into chunks (Serialize.tenants), the requests of    *)
(* all chunks are sent at once, and a for await takes their answers in the *)
(* order of the chunks.  A request that fails ends the loop when its turn  *)
(* comes: what other chunks did is not undone and their results are lost.  *)
(* A failure that comes before its turn, or after the loop has ended, is a *)
(* rejection that nobody handles.                                          *)
(*                                                                         *)
(* The timer of a request is cleared when the headers of its answer arrive *)
(* (fetchWithTimeout of connection/http.ts): nothing bounds the reading of *)
(* a body.                                                                 *)
(*                                                                         *)
(* A tenant is its name; a call sets all its tenants to one status, which  *)
(* stands here for the call itself, except that one may be invalid.        *)
(***************************************************************************)
EXTENDS Naturals, Sequences, FiniteSets, FiniteSetsExt, SequencesExt

CONSTANTS
  Calls,          \* calls of update
  Tenants,        \* the tenants of the collection
  TenantsOf,      \* TenantsOf[c]: the sequence of tenants c names
  InvalidStatus,  \* calls with an activity status that is not known
  ChunkSize       \* 100 in the code

NoCall == "nobody"   \* the call that set the status of a tenant nobody updated

ASSUME CallsAssumption ==
  /\ NoCall \notin Calls
  /\ TenantsOf \in [Calls -> Seq(Tenants)]
  /\ InvalidStatus \subseteq Calls
  /\ ChunkSize \in Nat \ {0}

VARIABLES
  loopOf,    \* loopOf[c]: where the loop of call c stands
  chunk,     \* chunk[c]: the requests of c, in the order of the chunks
  turn,      \* turn[c]: the chunk whose answer the loop awaits
  out,       \* out[c]: the tenants returned so far
  active     \* active[t]: the call that set tenant t's status, or NoCall

tenantsVars == <<loopOf, chunk, turn, out, active>>

TenantsInit ==
  /\ loopOf = [c \in Calls |-> "idle"]
  /\ chunk = [c \in Calls |-> <<>>]
  /\ turn = [c \in Calls |-> 1]
  /\ out = [c \in Calls |-> <<>>]
  /\ active = [t \in Tenants |-> NoCall]

-----------------------------------------------------------------------------

\* Math.ceil(tenants.length / 100)
Chunks(n) == (n + ChunkSize - 1) \div ChunkSize

\* slice(i * 100, (i + 1) * 100), for i from 1.
Slice(c, i) ==
  SubSeq(TenantsOf[c], (i - 1) * ChunkSize + 1, Min({i * ChunkSize, Len(TenantsOf[c])}))

\* update is called: an invalid status throws before anything is sent.
Update(c) ==
  /\ loopOf[c] = "idle"
  /\ \/ /\ c \in InvalidStatus
        /\ loopOf' = [loopOf EXCEPT ![c] = "threw"]
        /\ UNCHANGED chunk
     \/ /\ c \notin InvalidStatus
        /\ loopOf' = [loopOf EXCEPT ![c] = "waiting"]
        /\ chunk' = [chunk EXCEPT ![c] = [i \in 1..Chunks(Len(TenantsOf[c])) |-> "sent"]]
  /\ UNCHANGED <<turn, out, active>>

\* Weaviate serves a chunk: its tenants all change, or none does.
Serve(c, i) ==
  /\ chunk[c][i] = "sent"
  /\ chunk' = [chunk EXCEPT ![c][i] = "served"]
  /\ active' = [t \in Tenants |-> IF t \in ToSet(Slice(c, i)) THEN c ELSE active[t]]
  /\ UNCHANGED <<loopOf, turn, out>>

\* Its answer arrives, the headers and then the body.
ChunkArrives(c, i) ==
  /\ chunk[c][i] = "served"
  /\ chunk' = [chunk EXCEPT ![c][i] = "answered"]
  /\ UNCHANGED <<loopOf, turn, out, active>>

\* A chunk is refused or times out, or its answer is lost.
ChunkFails(c, i) ==
  /\ chunk[c][i] \in {"sent", "served"}
  /\ chunk' = [chunk EXCEPT ![c][i] = "failed"]
  /\ UNCHANGED <<loopOf, turn, out, active>>

\* Mutant: the loop passes a failure over.
AwaitedPastFailures(c) ==
  {i \in DOMAIN chunk[c] : /\ i >= turn[c] /\ chunk[c][i] = "answered"
                           /\ \A j \in turn[c] .. (i - 1) : chunk[c][j] = "failed"}

\* The answer the loop awaits, when it is there.
Awaited(c) == {i \in DOMAIN chunk[c] : i = turn[c] /\ chunk[c][i] = "answered"}

\* The loop takes the results of a chunk ...
Take(c) ==
  /\ loopOf[c] = "waiting"
  /\ \E i \in Awaited(c) :
       /\ out' = [out EXCEPT ![c] = @ \o Slice(c, i)]
       /\ turn' = [turn EXCEPT ![c] = i + 1]
  /\ UNCHANGED <<loopOf, chunk, active>>

\* ... and ends after the last, or at a chunk that failed.
LoopEnd(c) ==
  /\ loopOf[c] = "waiting"
  /\ \/ turn[c] > Len(chunk[c]) /\ loopOf' = [loopOf EXCEPT ![c] = "resolved"]
     \/ /\ turn[c] <= Len(chunk[c]) /\ chunk[c][turn[c]] = "failed"
        /\ loopOf' = [loopOf EXCEPT ![c] = "rejected"]
  /\ UNCHANGED <<chunk, turn, out, active>>

TenantsNext ==
  \E c \in Calls :
    \/ Update(c) \/ Take(c) \/ LoopEnd(c)
    \/ \E i \in DOMAIN chunk[c] : Serve(c, i) \/ ChunkArrives(c, i) \/ ChunkFails(c, i)

\* The timer of a request whose headers are awaited fires, and continuations
\* run; the body of an answer need not arrive.
TenantsFairness ==
  WF_tenantsVars(\E c \in Calls :
    \/ Take(c) \/ LoopEnd(c)
    \/ \E i \in DOMAIN chunk[c] : chunk[c][i] = "sent" /\ ChunkFails(c, i))

TenantsSpec == TenantsInit /\ [][TenantsNext]_tenantsVars /\ TenantsFairness

-----------------------------------------------------------------------------
\* Types of the state.
TenantsTypeOK ==
  /\ loopOf \in [Calls -> {"idle", "waiting", "threw", "resolved", "rejected"}]
  /\ chunk \in [Calls -> Seq({"sent", "served", "answered", "failed"})]
  /\ turn \in [Calls -> Nat]
  /\ out \in [Calls -> Seq(Tenants)]
  /\ active \in [Tenants -> Calls \cup {NoCall}]

\* An update that resolves returns the tenants it was given, each once and in
\* their order, and Weaviate has changed them all, whatever the order of the
\* answers: a tenant in another status was changed by another call.
ResolvedMeansAll ==
  \A c \in Calls : loopOf[c] = "resolved" =>
    /\ out[c] = TenantsOf[c]
    /\ \A t \in ToSet(TenantsOf[c]) : active[t] # NoCall
    /\ \A i \in DOMAIN chunk[c] : chunk[c][i] = "answered"

\* An update that rejects had a chunk that failed, and every chunk before it
\* was applied: its results are what the rejection hides.
RejectedAtFirstFailure ==
  \A c \in Calls : loopOf[c] = "rejected" =>
    /\ chunk[c][turn[c]] = "failed"
    /\ \A i \in 1..(turn[c] - 1) : chunk[c][i] = "answered"
    /\ IsStrictPrefix(out[c], TenantsOf[c])

\* Resolved or rejected, an update tells which of its chunks were applied.
UpdateAnswersTruly == ResolvedMeansAll /\ RejectedAtFirstFailure

\* Every update settles, however its chunks fail, or waits for the body of the
\* answer whose turn it is.
UpdateSettles ==
  []<>(\A c \in Calls : loopOf[c] = "waiting" =>
        turn[c] \in DOMAIN chunk[c] /\ chunk[c][turn[c]] = "served")
=============================================================================
