----------------------------- MODULE Connection -----------------------------
(***************************************************************************)
(* ConnectionGRPC of src/src/connection/grpc.ts: the channel to the        *)
(* server, opened by use, replaced by reconnect (which every batch stream  *)
(* calls when it breaks) and closed by close, and the calls made over it   *)
(* (sendWithTimeout of src/src/grpc/base.ts).  A call chooses the channel  *)
(* after the login, and awaits again before it sends: the check of the     *)
(* server's version, timers of the serializer.                             *)
(*                                                                         *)
(* Channels are numbered.  A channel that is closed fails the calls sent   *)
(* on it afterwards; those sent before may still be answered.              *)
(***************************************************************************)
EXTENDS Naturals, FiniteSets

CONSTANTS
  Requests,       \* calls over the channel
  WithSignal,     \* those with an abort signal of the caller
  Streams,        \* batch streams, which reconnect
  MaxReconnects   \* bound: reconnections

ASSUME RequestsAssumption == WithSignal \subseteq Requests /\ MaxReconnects \in Nat

VARIABLES
  client,      \* what the application holds: nothing, a client, a closed one
  connect,     \* where ConnectionGRPC.connect stands
  check,       \* where the check of the server's version stands
  current,     \* the channel in use, this.grpc; 0 before the first
  channels,    \* the channels that are open
  opened,      \* how many have been opened
  stream,      \* stream[s]: where the reconnection of s stands
  call,        \* call[r]: where request r stands
  via,         \* via[r]: the channel in use when r was called, then the one r chose
  error,       \* error[r]: what r was rejected with
  reconnects,
  chosenAt,    \* history: chosenAt[r]: the reconnections before r chose its channel
  cause,       \* history: cause[r]: why r was rejected
  late         \* history: whether a stream reconnected after close

connectionVars == <<client, connect, check, current, channels, opened, stream, call, via,
                    error, reconnects, chosenAt, cause, late>>
openingVars == <<client, connect, check>>
channelVars == <<current, channels, opened>>
callVars == <<call, via, error, chosenAt, cause>>

ConnectionInit ==
  /\ client = "none" /\ connect = "none" /\ check = "none"
  /\ current = 0 /\ channels = {} /\ opened = 0
  /\ stream = [s \in Streams |-> "idle"]
  /\ call = [r \in Requests |-> "idle"]
  /\ via = [r \in Requests |-> 0]
  /\ error = [r \in Requests |-> "none"]
  /\ chosenAt = [r \in Requests |-> 0]
  /\ cause = [r \in Requests |-> "none"]
  /\ reconnects = 0 /\ late = FALSE

-----------------------------------------------------------------------------
\* A channel is opened in place of those that stay open.
Opens(others) ==
  /\ opened' = opened + 1
  /\ current' = opened + 1
  /\ channels' = others \cup {opened + 1}

\* use: connect and the check of the version run side by side.
Use ==
  /\ client = "none" /\ connect = "none"
  /\ client' = "opening" /\ connect' = "meta" /\ check' = "pending"
  /\ UNCHANGED <<channelVars, stream, callVars, reconnects, late>>

\* use with skipInitChecks: a channel is opened and nothing is asked.
UseUnchecked ==
  /\ client = "none" /\ connect = "none"
  /\ client' = "held" /\ connect' = "connected" /\ check' = "skipped"
  /\ Opens({})
  /\ UNCHANGED <<stream, callVars, reconnects, late>>

\* The headers of an answer arrive, or its request fails; the timer of the
\* request is cleared, and the body is read (fetchWithTimeout).
CheckHeaders ==
  /\ check = "pending" /\ check' \in {"reading", "failed"}
  /\ UNCHANGED <<client, connect, channelVars, stream, callVars, reconnects, late>>

CheckEnds ==
  /\ check = "reading" /\ check' \in {"passed", "failed"}
  /\ UNCHANGED <<client, connect, channelVars, stream, callVars, reconnects, late>>

MetaHeaders ==
  /\ connect = "meta" /\ connect' \in {"length", "failed"}
  /\ UNCHANGED <<client, check, channelVars, stream, callVars, reconnects, late>>

\* connect: the size of messages arrives, a channel is opened and asked for its
\* health; or the body breaks.
MetaArrives ==
  /\ connect = "length"
  /\ \/ connect' = "health" /\ Opens({})
     \/ connect' = "failed" /\ UNCHANGED channelVars
  /\ UNCHANGED <<client, check, stream, callVars, reconnects, late>>

\* connection.close(), when the server says that it does not serve.
ClosedIfUnhealthy == channels \ {current}

\* health: serving, not serving, or it throws (a time-out, an error).
ConnectHealth ==
  /\ connect = "health"
  /\ \/ connect' = "connected" /\ UNCHANGED channels
     \/ connect' = "failed" /\ channels' = ClosedIfUnhealthy
     \/ connect' = "threw" /\ UNCHANGED channels
  /\ UNCHANGED <<client, check, current, opened, stream, callVars, reconnects, late>>

\* Promise.all of the two.
UseSettles ==
  /\ client = "opening"
  /\ \/ connect = "connected" /\ check = "passed" /\ client' = "held"
     \/ (connect \in {"failed", "threw"} \/ check = "failed") /\ client' = "rejected"
  /\ UNCHANGED <<connect, check, channelVars, stream, callVars, reconnects, late>>

\* close
Close ==
  /\ client = "held"
  /\ client' = "closed"
  /\ channels' = channels \ {current}
  /\ UNCHANGED <<connect, check, current, opened, stream, callVars, reconnects, late>>

-----------------------------------------------------------------------------
\* Mutant: reconnect leaves the channel it replaces open.
KeptOpen == channels

\* reconnect closes the channel before it opens another.
ClosedFirst == channels \ {current}

Reconnect(s) ==
  /\ client \in {"held", "closed"} /\ reconnects < MaxReconnects
  /\ stream[s] \in {"idle", "threw"}
  /\ stream' = [stream EXCEPT ![s] = "health"]
  /\ Opens(ClosedFirst)
  /\ reconnects' = reconnects + 1
  /\ late' = (late \/ client = "closed")
  /\ UNCHANGED <<openingVars, callVars>>

\* Its health check ends, perhaps after another stream has replaced the channel.
ReconnectHealth(s) ==
  /\ stream[s] = "health"
  /\ \E end \in {"idle", "threw"} : stream' = [stream EXCEPT ![s] = end]
  /\ UNCHANGED <<openingVars, channelVars, callVars, reconnects, late>>

-----------------------------------------------------------------------------
\* search, aggregate, tenants, batch: first the login.
CallOver(r) ==
  /\ client \in {"held", "closed"} /\ call[r] = "idle"
  /\ call' = [call EXCEPT ![r] = "login"]
  /\ via' = [via EXCEPT ![r] = current]
  /\ UNCHANGED <<openingVars, channelVars, stream, error, chosenAt, cause, reconnects, late>>

\* Mutant: the channel is the one that was in use when the call was made.
ChannelAtCall(r) == via[r]

\* this.grpc, read when the token is there.
ChannelOf(r) == current

\* The call gets its channel; what it sends is not ready yet.
Choose(r) ==
  /\ call[r] = "login"
  /\ call' = [call EXCEPT ![r] = "chosen"]
  /\ via' = [via EXCEPT ![r] = ChannelOf(r)]
  /\ chosenAt' = [chosenAt EXCEPT ![r] = reconnects]
  /\ UNCHANGED <<openingVars, channelVars, stream, error, cause, reconnects, late>>

\* What the request is rejected with: what is neither a time-out nor an abort
\* becomes the call's own error.
ErrorOf(why, r) ==
  IF why \in {"closed", "failed"} THEN "failed" ELSE IF r \in WithSignal THEN "abort" ELSE "timeout"

Rejected(r, why) ==
  /\ call' = [call EXCEPT ![r] = "rejected"]
  /\ cause' = [cause EXCEPT ![r] = why]
  /\ error' = [error EXCEPT ![r] = ErrorOf(why, r)]
  /\ UNCHANGED <<openingVars, channelVars, stream, via, chosenAt, reconnects, late>>

\* What is awaited before the request fails: the login, the version's check,
\* the serializer.
FailsUnsent(r) == call[r] \in {"login", "chosen"} /\ Rejected(r, "failed")

\* The request is sent over the channel chosen, and fails on one that is closed.
SendOver(r) ==
  /\ call[r] = "chosen"
  /\ \/ /\ via[r] \in channels
        /\ call' = [call EXCEPT ![r] = "sent"]
        /\ UNCHANGED <<openingVars, channelVars, stream, via, error, chosenAt, cause,
                       reconnects, late>>
     \/ via[r] \notin channels /\ Rejected(r, "closed")

Answered(r) ==
  /\ call[r] = "sent"
  /\ \/ /\ call' = [call EXCEPT ![r] = "resolved"]
        /\ UNCHANGED <<openingVars, channelVars, stream, via, error, chosenAt, cause,
                       reconnects, late>>
     \/ Rejected(r, "failed")

\* AbortSignal.any: the timer's signal and the caller's abort the request.
TimerAborts(r) == TRUE

TimesOut(r) == TimerAborts(r) /\ call[r] = "sent" /\ Rejected(r, "timeout")

CallerAborts(r) == r \in WithSignal /\ call[r] = "sent" /\ Rejected(r, "abort")

\* The channel was closed under the request.
ClosedUnder(r) == via[r] \notin channels /\ call[r] = "sent" /\ Rejected(r, "closed")

ConnectionNext ==
  \/ Use \/ UseUnchecked \/ CheckHeaders \/ CheckEnds \/ MetaHeaders \/ MetaArrives
  \/ ConnectHealth \/ UseSettles \/ Close
  \/ \E s \in Streams : Reconnect(s) \/ ReconnectHealth(s)
  \/ \E r \in Requests :
       \/ CallOver(r) \/ Choose(r) \/ FailsUnsent(r) \/ SendOver(r) \/ Answered(r)
       \/ TimesOut(r) \/ CallerAborts(r) \/ ClosedUnder(r)

\* Timers fire: the requests of use have a time-out for the headers of their
\* answers, its health check has one, and so has a request that was sent.  No
\* timer runs while a body is read (CheckEnds, MetaArrives).
ConnectionFairness ==
  /\ WF_connectionVars(CheckHeaders \/ MetaHeaders \/ ConnectHealth \/ UseSettles)
  /\ WF_connectionVars(\E r \in Requests : TimesOut(r))

ConnectionSpec == ConnectionInit /\ [][ConnectionNext]_connectionVars /\ ConnectionFairness

-----------------------------------------------------------------------------
\* Types of the state.
ConnectionTypeOK ==
  /\ client \in {"none", "opening", "held", "rejected", "closed"}
  /\ connect \in {"none", "meta", "length", "health", "connected", "failed", "threw"}
  /\ check \in {"none", "pending", "reading", "passed", "failed", "skipped"}
  /\ opened \in Nat /\ current \in 0..opened /\ channels \subseteq 1..opened
  /\ stream \in [Streams -> {"idle", "health", "threw"}]
  /\ call \in [Requests -> {"idle", "login", "chosen", "sent", "resolved", "rejected"}]
  /\ via \in [Requests -> 0..opened]
  /\ error \in [Requests -> {"none", "failed", "abort", "timeout"}]
  /\ chosenAt \in [Requests -> Nat]
  /\ cause \in [Requests -> {"none", "failed", "closed", "abort", "timeout"}]
  /\ reconnects \in Nat /\ late \in BOOLEAN

\* However the streams' reconnections overlap, no channel but the one in use is
\* open, and it is open unless the client was closed.
OneChannel ==
  /\ channels \subseteq {current}
  /\ client = "held" => current \in channels

\* A channel that nobody can close any more comes from one of three causes: the
\* health check of use threw, the check of the version failed while connect
\* went on, or a stream reconnected after close.
LeaksAreKnown ==
  /\ client = "rejected" /\ channels # {} => connect = "threw" \/ check = "failed"
  /\ client = "closed" /\ channels # {} => late

\* Every channel is accounted for: the one in use, or left open for a cause.
ChannelsAccountedFor == OneChannel /\ LeaksAreKnown

\* A request meets a closed channel only when the application closed the client
\* or a stream replaced the channel after the request had chosen it, before it
\* was sent or while it was: a reconnection during the login costs no request.
StaleOnlyIfReplaced ==
  \A r \in Requests :
    cause[r] = "closed" => client = "closed" \/ reconnects > chosenAt[r]

\* "If the error is an abort error caused by the caller's abort signal, we
\* re-throw it": an abort that is thrown is the caller's own (sendWithTimeout).
AbortIsTheCallers == \A r \in Requests : error[r] = "abort" => cause[r] = "abort"

\* Time and again no request is under way, and use is settled or waits for a
\* body, for which there is no timer.
ConnectionSettles ==
  []<>(/\ client = "opening" => connect = "length" \/ check = "reading"
       /\ \A r \in Requests : call[r] # "sent")
=============================================================================
