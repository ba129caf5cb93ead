---------------------------- MODULE Classification --------------------------
(***************************************************************************)
(* The wait for a classification, src/src/classifications/scheduler.ts: a  *)
(* time-out and an interval race with each other and with the polls of the *)
(* interval, which are asked whether or not the one before was answered    *)
(* and may be answered in another order.                                   *)
(***************************************************************************)
EXTENDS Naturals

CONSTANT MaxPolls   \* bound: how often the interval fires before the time-out

ASSUME MaxPollsAssumption == MaxPolls \in Nat

VARIABLES
  waits,      \* waitForCompletion
  wait,       \* where the promise of do stands
  interval,   \* whether the interval is set
  timeout,    \* whether the time-out is set
  polls,      \* how many polls have been asked
  poll,       \* poll[i]: where poll i stands, or the status in its answer
  job         \* the classification, on the server

classificationVars == <<waits, wait, interval, timeout, polls, poll, job>>

Ended == {"completed", "failed"}

ClassificationInit ==
  /\ waits \in BOOLEAN
  /\ wait = "idle" /\ interval = FALSE /\ timeout = FALSE
  /\ polls = 0 /\ poll = [i \in 1..MaxPolls |-> "none"]
  /\ job = "none"

-----------------------------------------------------------------------------
\* do
Schedule ==
  /\ wait = "idle" /\ wait' = "posting"
  /\ UNCHANGED <<waits, interval, timeout, polls, poll, job>>

\* The request is answered, and sets both timers if the caller waits; or fails.
Posted ==
  /\ wait = "posting"
  /\ \/ /\ job' = "running"
        /\ wait' = IF waits THEN "waiting" ELSE "resolved"
        /\ interval' = waits /\ timeout' = waits
     \/ /\ wait' = "rejected"
        /\ UNCHANGED <<interval, timeout, job>>
  /\ UNCHANGED <<waits, polls, poll>>

\* The server ends the classification.
JobEnds ==
  /\ job = "running"
  /\ job' \in Ended
  /\ UNCHANGED <<waits, wait, interval, timeout, polls, poll>>

\* The interval fires and polls.
IntervalFires ==
  /\ interval /\ polls < MaxPolls
  /\ polls' = polls + 1
  /\ poll' = [poll EXCEPT ![polls + 1] = "asked"]
  /\ UNCHANGED <<waits, wait, interval, timeout, job>>

\* The server answers a poll; or the poll fails, which nothing handles.
PollAnswered(i) ==
  /\ poll[i] = "asked"
  /\ \E answer \in {job, "lost"} : poll' = [poll EXCEPT ![i] = answer]
  /\ UNCHANGED <<waits, wait, interval, timeout, polls, job>>

\* Mutants: any end will do; any answer clears the time-out.
SettlesAtEnd(i) == poll[i] \in Ended
ClearedByAnyAnswer(i) == FALSE

\* Only the status completed settles the promise: a classification that failed
\* is polled until the time-out.
Settles(i) == poll[i] = "completed"

\* The time-out is cleared with the interval, by the answer that settles.
TimeoutAfter(i) == timeout /\ ~Settles(i)

\* clearInterval, by the time-out.
IntervalAfterTimeout == FALSE

\* The answer arrives.  When the promise is settled, resolve does nothing.
PollArrives(i) ==
  /\ poll[i] \in {"running", "completed", "failed"}
  /\ poll' = [poll EXCEPT ![i] = "lost"]
  /\ interval' = (interval /\ ~Settles(i))
  /\ timeout' = TimeoutAfter(i)
  /\ wait' = IF wait = "waiting" /\ Settles(i) THEN "resolved" ELSE wait
  /\ UNCHANGED <<waits, polls, job>>

TimeoutFires ==
  /\ timeout
  /\ timeout' = FALSE /\ interval' = IntervalAfterTimeout
  /\ wait' = IF wait = "waiting" THEN "rejected" ELSE wait
  /\ UNCHANGED <<waits, polls, poll, job>>

ClassificationNext ==
  \/ Schedule \/ Posted \/ JobEnds \/ IntervalFires \/ TimeoutFires
  \/ \E i \in 1..MaxPolls : PollAnswered(i) \/ PollArrives(i)

\* A timer that is set fires.  Whether a request is answered is left open: no
\* timer limits the wait for the body of an answer.
ClassificationFairness == WF_classificationVars(TimeoutFires)

ClassificationSpec ==
  ClassificationInit /\ [][ClassificationNext]_classificationVars /\ ClassificationFairness

-----------------------------------------------------------------------------
\* Types of the state.
ClassificationTypeOK ==
  /\ waits \in BOOLEAN
  /\ wait \in {"idle", "posting", "waiting", "resolved", "rejected"}
  /\ interval \in BOOLEAN /\ timeout \in BOOLEAN
  /\ polls \in 0..MaxPolls
  /\ poll \in [1..MaxPolls -> {"none", "asked", "running", "completed", "failed", "lost"}]
  /\ job \in {"none", "running", "completed", "failed"}

\* Whatever the order of the answers, a wait resolves only for a classification
\* that has completed; one that failed is reported as a time-out.
ResolvedMeansCompleted == waits /\ wait = "resolved" => job = "completed"

\* The timers are set as long as the promise is pending and no longer: nothing
\* is polled for after it, and no late answer finds a timer to clear.
TimersWhileWaiting == (interval <=> wait = "waiting") /\ (timeout <=> wait = "waiting")

\* A wait reports what became of the classification and leaves no timer behind.
WaitIsTrue == ResolvedMeansCompleted /\ TimersWhileWaiting

\* A wait ends, though every poll may fail and the classification too.
WaitEnds == []<>(wait # "waiting")
=============================================================================
