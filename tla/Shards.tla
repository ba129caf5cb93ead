-------------------------------- MODULE Shards ------------------------------
(***************************************************************************)
(* The two ways to set the status of shards: updateShards of               *)
(* src/src/collections/config/index.ts and the ShardsUpdater builder of    *)
(* src/src/schema/shardsUpdater.ts.                                        *)
(*                                                                         *)
(* Both ask for the shards first (updateShards only without names), then   *)
(* send one request for each shard, all at once.  updateShards rejects at  *)
(* the first failure, while other requests are under way, and otherwise    *)
(* reads the shards again; the builder waits for all of them, and keeps    *)
(* the errors for its next do.  A call is one updateShards or one builder; *)
(* a builder may be started again.                                         *)
(*                                                                         *)
(* The timer of a request is cleared when the headers of its answer arrive *)
(* (fetchWithTimeout of connection/http.ts): nothing bounds the reading of *)
(* a body.                                                                 *)
(***************************************************************************)
EXTENDS Naturals, FiniteSets

CONSTANTS
  Callers,      \* calls of updateShards and builders
  Builders,     \* the builders among them
  Shards,       \* the shards of the collection
  Names,        \* Names[c]: the shards c names, all of them for a builder
  Asked,        \* Asked[c]: whether c has to ask for the shards
  StatusOf,     \* StatusOf[c]: the status c sets
  MaxRestarts   \* bound: how often a builder's do is called again

Statuses == {"READY", "READONLY"}

ASSUME CallersAssumption ==
  /\ Builders \subseteq Callers
  /\ Names \in [Callers -> SUBSET Shards \ {{}}]
  /\ Asked \in [Callers -> BOOLEAN]
  /\ \A c \in Callers : (c \in Builders => Asked[c]) /\ (Asked[c] => Names[c] = Shards)
  /\ StatusOf \in [Callers -> Statuses]
  /\ MaxRestarts \in Nat

VARIABLES
  caller,    \* caller[c]: where call c stands
  put,       \* put[c][s]: c's request for shard s
  status,    \* status[s]: the status of a shard in Weaviate
  report,    \* report[c]: the statuses c returns
  errors,    \* the builders that hold errors
  restarts

shardsVars == <<caller, put, status, report, errors, restarts>>

NotSent == [s \in Shards |-> "none"]

ShardsInit ==
  /\ caller = [c \in Callers |-> "idle"]
  /\ put = [c \in Callers |-> NotSent]
  /\ status \in [Shards -> Statuses]
  /\ report = [c \in Callers |-> NotSent]
  /\ errors = {}
  /\ restarts = 0

CallerAt(c, from, to) ==
  /\ caller[c] = from
  /\ caller' = [caller EXCEPT ![c] = to]

\* The requests that a call sends at once.
Sending(c) == [s \in Shards |-> IF s \in Names[c] THEN "sent" ELSE "none"]

\* updateShards or do is called.
UpdateShards(c) ==
  /\ \/ Asked[c] /\ CallerAt(c, "idle", "asking") /\ UNCHANGED put
     \/ ~Asked[c] /\ CallerAt(c, "idle", "setting") /\ put' = [put EXCEPT ![c] = Sending(c)]
  /\ UNCHANGED <<status, report, errors, restarts>>

\* The headers of the list of the shards arrive ...
ListHeaders(c) ==
  /\ CallerAt(c, "asking", "listing")
  /\ UNCHANGED <<put, status, report, errors, restarts>>

\* ... and the list.
ListArrives(c) ==
  /\ CallerAt(c, "listing", "setting")
  /\ put' = [put EXCEPT ![c] = Sending(c)]
  /\ UNCHANGED <<status, report, errors, restarts>>

\* Weaviate serves a request for one shard.
SetStatus(c, s) ==
  /\ put[c][s] = "sent"
  /\ put' = [put EXCEPT ![c][s] = "set"]
  /\ status' = [status EXCEPT ![s] = StatusOf[c]]
  /\ UNCHANGED <<caller, report, errors, restarts>>

\* Its answer arrives, the headers and then the body.
SetArrives(c, s) ==
  /\ put[c][s] = "set"
  /\ put' = [put EXCEPT ![c][s] = "done"]
  /\ UNCHANGED <<caller, status, report, errors, restarts>>

\* A request fails, before or after it was served: it is refused, times out or
\* the connection breaks.  Promise.all rejects the call; the builder's catch
\* keeps the error.
SetFails(c, s) ==
  /\ put[c][s] \in {"sent", "set"}
  /\ put' = [put EXCEPT ![c][s] = "failed"]
  /\ \/ c \in Builders /\ errors' = errors \cup {c} /\ UNCHANGED caller
     \/ c \notin Builders /\ UNCHANGED errors
        /\ caller' = [caller EXCEPT ![c] = "rejected"]
  /\ UNCHANGED <<status, report, restarts>>

\* Mutant: one answer is enough.
AnyDone(c) == \E s \in Names[c] : put[c][s] = "done"

\* Promise.all is settled and has not rejected.
AllSettled(c) == \A s \in Names[c] : put[c][s] \in {"done", "failed"}

\* Then updateShards asks for the shards again ...
AskReport(c) ==
  /\ c \notin Builders
  /\ AllSettled(c)
  /\ CallerAt(c, "setting", "reporting")
  /\ UNCHANGED <<put, status, report, errors, restarts>>

\* ... which are read while other calls run ...
ReadReport(c) ==
  /\ CallerAt(c, "reporting", "reported")
  /\ report' = [report EXCEPT ![c] = status]
  /\ UNCHANGED <<put, status, errors, restarts>>

\* ... and returned; the builder returns the answers it got, or rejects when
\* it holds an error.
Return(c) ==
  /\ \/ CallerAt(c, "reported", "resolved") /\ UNCHANGED report
     \/ /\ c \in Builders /\ AllSettled(c) /\ c \notin errors
        /\ CallerAt(c, "setting", "resolved")
        /\ report' = [report EXCEPT ![c] = [s \in Shards |-> StatusOf[c]]]
     \/ /\ c \in Builders /\ AllSettled(c) /\ c \in errors
        /\ CallerAt(c, "setting", "rejected")
        /\ UNCHANGED report
  /\ UNCHANGED <<put, status, errors, restarts>>

\* The list of the shards, the first or the last, does not arrive.
ListFails(c) ==
  /\ \E at \in {"asking", "listing", "reporting", "reported"} : CallerAt(c, at, "rejected")
  /\ UNCHANGED <<put, status, report, errors, restarts>>

\* The builder's do is called again: with errors from before it is refused.
Again(c) ==
  /\ c \in Builders /\ restarts < MaxRestarts
  /\ caller[c] \in {"resolved", "rejected"}
  /\ restarts' = restarts + 1
  /\ put' = [put EXCEPT ![c] = NotSent]
  /\ caller' = [caller EXCEPT ![c] = IF c \in errors THEN "refused" ELSE "asking"]
  /\ UNCHANGED <<status, report, errors>>

ShardsNext ==
  \E c \in Callers :
    \/ UpdateShards(c) \/ ListHeaders(c) \/ ListArrives(c) \/ AskReport(c) \/ ReadReport(c)
    \/ Return(c) \/ ListFails(c) \/ Again(c)
    \/ \E s \in Shards : SetStatus(c, s) \/ SetArrives(c, s) \/ SetFails(c, s)

\* The requests whose headers are awaited, so that their timers run.
ListAwaited(c) == caller[c] \in {"asking", "reporting"}
SetAwaited(c, s) == put[c][s] = "sent"

\* Timers fire, and continuations run: those of bodies that have arrived are
\* not forced, for a body need not arrive.  Whether a call is made is the
\* application's choice.
ShardsFairness ==
  WF_shardsVars(\E c \in Callers :
    \/ ListAwaited(c) /\ ListFails(c)
    \/ caller[c] = "setting" /\ (AskReport(c) \/ Return(c))
    \/ \E s \in Shards : SetAwaited(c, s) /\ SetFails(c, s))

ShardsSpec == ShardsInit /\ [][ShardsNext]_shardsVars /\ ShardsFairness

-----------------------------------------------------------------------------
\* Types of the state.
ShardsTypeOK ==
  /\ caller \in [Callers -> {"idle", "asking", "listing", "setting", "reporting", "reported",
                             "resolved", "rejected", "refused"}]
  /\ put \in [Callers -> [Shards -> {"none", "sent", "set", "done", "failed"}]]
  /\ status \in [Shards -> Statuses]
  /\ report \in [Callers -> [Shards -> Statuses \cup {"none"}]]
  /\ errors \subseteq Builders
  /\ restarts \in Nat

\* A call that wants another status for the shard.
Rival(c, s) ==
  \E d \in Callers : s \in Names[d] /\ StatusOf[d] # StatusOf[c] /\ caller[d] # "idle"

\* A call resolves only after Weaviate has set every shard it names, whatever
\* failed or overlapped, and a shard has another status only when a call that
\* wants another was made (updateShards; updateShards of ShardsUpdater).
ResolvedMeansSet ==
  \A c \in Callers : caller[c] = "resolved" =>
    \A s \in Names[c] :
      /\ put[c][s] = "done"
      /\ status[s] = StatusOf[c] \/ Rival(c, s)

\* The report of a call shows its own status for the shards it names, unless a
\* call that wants another status named them too.
ReportShowsUpdate ==
  \A c \in Callers : caller[c] = "resolved" =>
    \A s \in Names[c] : report[c][s] = StatusOf[c] \/ Rival(c, s)

\* A builder is never done while one of its requests is under way; it is after
\* a call of updateShards rejected that requests go on.
BuilderWaits ==
  \A c \in Builders : caller[c] \in {"resolved", "rejected", "refused"} =>
    \A s \in Shards : put[c][s] \notin {"sent", "set"}

\* What a call reports is so, though requests of one call go on after another's
\* failed: done, every shard is set, the report shows it and no builder has a
\* request left under way.
ShardsReportTruly == ResolvedMeansSet /\ ReportShowsUpdate /\ BuilderWaits

\* Every call settles, or waits for the body of an answer: time and again no
\* list and no request for a shard is awaited under a timer, and a call whose
\* requests have all settled goes on.
ShardsSettle ==
  []<>(\A c \in Callers :
        /\ ~ListAwaited(c) /\ \A s \in Shards : ~SetAwaited(c, s)
        /\ caller[c] = "setting" => \E s \in Names[c] : put[c][s] = "set")
=============================================================================
