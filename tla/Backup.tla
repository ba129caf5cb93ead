------------------------------- MODULE Backup -------------------------------
(***************************************************************************)
(* Backups and restores that a client starts, waits for and cancels: the   *)
(* functions of src/src/collections/backup/client.ts and the builders      *)
(* BackupCreator and BackupRestorer of src/src/backup.                     *)
(*                                                                         *)
(* Weaviate runs one creation and one restoration of a backup id, beside   *)
(* any number of clients.  It is external: a job runs once, ends in        *)
(* success or failure, or is cancelled, and then keeps its status.  A      *)
(* request is served and answered in two steps, and may fail at any time,  *)
(* served or not: the connection breaks, it times out, or it is refused    *)
(* for lack of permission.                                                 *)
(***************************************************************************)
EXTENDS Naturals

CONSTANTS
  Waiters,      \* the calls that start a job
  ApiOf,        \* ApiOf[w]: "client" (collections/backup) or "builder"
  Cancellers    \* the calls of cancel

ASSUME CallsAssumption ==
  /\ ApiOf \in [Waiters -> {"client", "builder"}]
  /\ Waiters \cap Cancellers = {}

Operations == {"creation", "restoration"}
Ended == {"SUCCESS", "FAILED", "CANCELED"}
Statuses == {"STARTED"} \cup Ended
NoReply == "no reply"
Failure == "failure"       \* a network error, a time-out, 401 or 403
Refused == "refused"       \* another status of 400 or more
NotFound == "404"

VARIABLES
  job,          \* job[op]: the status of the job, or "none"
  op,           \* op[w]: the operation w asks for
  wait,         \* wait[w]: the condition of w's polling loop
  pc, reply,    \* of each call
  result        \* what each call resolved or rejected with

Calls == Waiters \cup Cancellers
vars == <<job, op, wait, pc, reply, result>>

Init ==
  /\ \E s \in {"none", "SUCCESS"} :     \* the backup may exist already
       job = [o \in Operations |-> IF o = "creation" THEN s ELSE "none"]
  /\ op = [c \in Calls |-> "none"]
  /\ wait = [w \in Waiters |-> FALSE]
  /\ pc = [c \in Calls |-> "idle"]
  /\ reply = [c \in Calls |-> NoReply]
  /\ result = [c \in Calls |-> "none"]

-----------------------------------------------------------------------------
\* Weaviate, and the network.
MayRun(o) == job[o] = "none" /\ (o = "restoration" => job["creation"] = "SUCCESS")

Answer(c, r) == reply' = [reply EXCEPT ![c] = r]

ServeStart(w) ==
  /\ pc[w] = "starting" /\ reply[w] = NoReply
  /\ \/ /\ MayRun(op[w])
        /\ \E s \in {"STARTED", "FAILED"} :
             job' = [job EXCEPT ![op[w]] = s] /\ Answer(w, s)
     \/ /\ ~MayRun(op[w])
        /\ Answer(w, Refused)
        /\ UNCHANGED job
  /\ UNCHANGED <<op, wait, pc, result>>

ServeStatus(w) ==
  /\ pc[w] = "polling" /\ reply[w] = NoReply
  /\ Answer(w, job[op[w]])
  /\ UNCHANGED <<job, op, wait, pc, result>>

ServeCancel(c) ==
  /\ pc[c] = "cancelling" /\ reply[c] = NoReply
  /\ \/ /\ job[op[c]] = "STARTED"
        /\ job' = [job EXCEPT ![op[c]] = "CANCELED"] /\ Answer(c, "204")
     \/ /\ job[op[c]] = "none"
        /\ Answer(c, NotFound) /\ UNCHANGED job
     \/ /\ job[op[c]] \in Ended
        /\ Answer(c, Refused) /\ UNCHANGED job
  /\ UNCHANGED <<op, wait, pc, result>>

\* The request is never served, or its answer is lost.
Fail(c) ==
  /\ pc[c] \in {"starting", "polling", "cancelling"} /\ reply[c] # Failure
  /\ Answer(c, Failure)
  /\ UNCHANGED <<job, op, wait, pc, result>>

Finish(o) ==
  /\ job[o] = "STARTED"
  /\ \E s \in {"SUCCESS", "FAILED"} : job' = [job EXCEPT ![o] = s]
  /\ UNCHANGED <<op, wait, pc, reply, result>>

-----------------------------------------------------------------------------
\* The clients.
Send(c, p) ==
  /\ pc' = [pc EXCEPT ![c] = p]
  /\ reply' = [reply EXCEPT ![c] = NoReply]

Return(c, r) ==
  /\ pc' = [pc EXCEPT ![c] = "done"]
  /\ reply' = [reply EXCEPT ![c] = NoReply]
  /\ result' = [result EXCEPT ![c] = r]

Start(w) ==
  /\ pc[w] = "idle"
  /\ Send(w, "starting")
  /\ \E o \in Operations : op' = [op EXCEPT ![w] = o]
  /\ UNCHANGED <<job, wait, result>>

\* The answer to the request that starts the job: with waitForCompletion the
\* call polls.  The client turns every error and a FAILED status into
\* WeaviateBackupFailed.
Started(w) ==
  /\ pc[w] = "starting" /\ reply[w] # NoReply
  /\ LET error == reply[w] \in {Failure, Refused}
         failed == ApiOf[w] = "client" /\ reply[w] = "FAILED"
     IN  \/ /\ error \/ failed
            /\ Return(w, IF ApiOf[w] = "client" THEN "WeaviateBackupFailed" ELSE "error")
            /\ UNCHANGED wait
         \/ /\ ~error /\ ~failed
            /\ Return(w, "resolved")
            /\ UNCHANGED wait
         \/ /\ ~error /\ ~failed
            /\ Send(w, "polling")
            /\ wait' = [wait EXCEPT ![w] = TRUE]
            /\ UNCHANGED result
  /\ UNCHANGED <<job, op>>

\* Mutant: a job that was cancelled is waited for further.
EndedNotCanceled == {"SUCCESS", "FAILED"}

\* The statuses that end the wait.
EndsWait == Ended

\* Mutant: a failure is taken for a cancellation.
FailedIsCanceled(w, s) ==
  IF ApiOf[w] = "client" /\ s # "SUCCESS" THEN "WeaviateBackupCanceled" ELSE s

\* What a status that ends the wait becomes: the builder resolves with it.
ResultOf(w, s) ==
  CASE ApiOf[w] = "builder" \/ s = "SUCCESS" -> s
    [] ApiOf[w] = "client" /\ s = "FAILED" -> "WeaviateBackupFailed"
    [] ApiOf[w] = "client" /\ s = "CANCELED" -> "WeaviateBackupCanceled"

\* After a success the client sleeps once more before it returns.
LastSleep(w) == IF ApiOf[w] = "client" THEN {"SUCCESS"} ELSE {}

\* The answer to a poll: the wait ends, or a sleep follows.
Polled(w) ==
  /\ pc[w] = "polling" /\ reply[w] # NoReply
  /\ \/ /\ reply[w] = Failure
        /\ Return(w, "error")
        /\ UNCHANGED wait
     \/ /\ reply[w] \in EndsWait \ LastSleep(w)
        /\ Return(w, ResultOf(w, reply[w]))
        /\ UNCHANGED wait
     \/ /\ reply[w] \notin (EndsWait \ LastSleep(w)) \cup {Failure}
        /\ Send(w, "sleeping")
        /\ wait' = [wait EXCEPT ![w] = reply[w] \notin LastSleep(w)]
        /\ UNCHANGED result
  /\ UNCHANGED <<job, op>>

\* The sleep is over.
Wake(w) ==
  /\ pc[w] = "sleeping"
  /\ \/ wait[w] /\ Send(w, "polling") /\ UNCHANGED result
     \/ ~wait[w] /\ Return(w, ResultOf(w, "SUCCESS"))
  /\ UNCHANGED <<job, op, wait>>

Cancel(c) ==
  /\ pc[c] = "idle"
  /\ Send(c, "cancelling")
  /\ \E o \in Operations : op' = [op EXCEPT ![c] = o]
  /\ UNCHANGED <<job, wait, result>>

\* Mutant: every error means that nothing was cancelled.
ErrorsAreFalse(r) == IF r = "204" THEN "true" ELSE "false"

\* What cancel makes of the answer: its catch looks at unexpected status
\* codes only.
CancelResult(r) ==
  CASE r = NotFound -> "false"
    [] r = Refused -> "WeaviateBackupCancellationError"
    [] OTHER -> "true"

Cancelled(c) ==
  /\ pc[c] = "cancelling" /\ reply[c] # NoReply
  /\ Return(c, CancelResult(reply[c]))
  /\ UNCHANGED <<job, op, wait>>

WaiterStep(w) == Started(w) \/ Polled(w) \/ Wake(w)
Serve(c) == ServeStart(c) \/ ServeStatus(c)

\* Every call has returned and no job runs.
Terminated ==
  /\ \A c \in Calls : pc[c] = "done"
  /\ \A o \in Operations : job[o] # "STARTED"
  /\ UNCHANGED vars

Next ==
  \/ \E w \in Waiters : Start(w) \/ WaiterStep(w) \/ Serve(w)
  \/ \E c \in Cancellers : Cancel(c) \/ ServeCancel(c) \/ Cancelled(c)
  \/ \E c \in Calls : Fail(c)
  \/ \E o \in Operations : Finish(o)
  \/ Terminated

\* Timers and continuations run; Weaviate answers and ends its jobs.
Fairness ==
  /\ \A w \in Waiters : WF_vars(WaiterStep(w)) /\ WF_vars(Serve(w))
  /\ \A o \in Operations : WF_vars(Finish(o))

Spec == Init /\ [][Next]_vars /\ Fairness

-----------------------------------------------------------------------------
(***************************************************************************)
(* Properties.                                                             *)
(***************************************************************************)
ResultsOf(api) ==
  IF api = "client"
    THEN {"none", "resolved", "error", "SUCCESS", "WeaviateBackupFailed", "WeaviateBackupCanceled"}
    ELSE {"none", "resolved", "error"} \cup Ended
CancelResults == {"none", "true", "false", "WeaviateBackupCancellationError"}

\* Types of the state.
TypeOK ==
  /\ job \in [Operations -> Statuses \cup {"none"}]
  /\ op \in [Calls -> Operations \cup {"none"}] /\ wait \in [Waiters -> BOOLEAN]
  /\ \A c \in Calls : op[c] = "none" <=> pc[c] = "idle"
  /\ pc \in [Calls -> {"idle", "starting", "polling", "sleeping", "cancelling", "done"}]
  /\ reply \in [Calls -> Statuses \cup {NoReply, Failure, Refused, NotFound, "204"}]
  /\ result \in [Calls -> ResultsOf("client") \cup ResultsOf("builder") \cup CancelResults]
  /\ \A w \in Waiters : result[w] \in ResultsOf(ApiOf[w])
  /\ \A c \in Cancellers : result[c] \in CancelResults
  /\ \A c \in Calls : result[c] # "none" <=> pc[c] = "done"

\* A call that waited and returned how the job ended tells how its own job
\* ended, whatever was cancelled meanwhile and whichever answers were lost
\* (create and restore with waitForCompletion).
OutcomeIsTrue ==
  \A w \in Waiters :
    /\ result[w] \in Ended => job[op[w]] = result[w]
    /\ result[w] = "WeaviateBackupCanceled" => job[op[w]] = "CANCELED"

\* A waiting call returns, also when another client cancels its job.
WaitEnds ==
  \A w \in Waiters : pc[w] \in {"polling", "sleeping"} ~> pc[w] = "done"

\* Some cancel call that is in flight, or did not deny it, stands behind every
\* cancelled job: false and WeaviateBackupCancellationError come from calls
\* that did not cancel it, although an answer may be lost after the request
\* was served (cancel).
DenialIsTrue ==
  \A o \in Operations : job[o] = "CANCELED" =>
    \E c \in Cancellers :
      /\ op[c] = o
      /\ pc[c] = "cancelling" \/ result[c] \notin {"false", "WeaviateBackupCancellationError"}

\* "Whether the backup was canceled.": cancel resolves with true only when
\* it was.
TrueMeansCanceled ==
  \A c \in Cancellers : result[c] = "true" => job[op[c]] = "CANCELED"
=============================================================================
