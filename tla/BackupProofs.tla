---------------------------- MODULE BackupProofs ----------------------------
(***************************************************************************)
(* Proofs about Backup, for any number of waiters and cancellers: a call   *)
(* that waited tells how its own job ended, and a cancel call that denies  *)
(* having cancelled a job did not.                                         *)
(*                                                                         *)
(* A step of a call changes the variables of that call only, and a job     *)
(* that ended keeps its status: what is to be proved of a step is the      *)
(* invariant of the call that takes it (lemma Frame).                      *)
(***************************************************************************)
EXTENDS Backup, TLAPS

\* What a call may have been answered, by what it asked for.
Replies(c) ==
  /\ pc[c] \in {"idle", "sleeping", "done"} => reply[c] = NoReply
  /\ pc[c] = "starting" => reply[c] \in {NoReply, Failure, Refused, "STARTED", "FAILED"}
  /\ pc[c] = "polling" => reply[c] \in Statuses \cup {NoReply, Failure}
  /\ pc[c] = "cancelling" => reply[c] \in {NoReply, Failure, Refused, NotFound, "204"}

\* A waiter that was told its job runs has a job; an answer that ends the wait
\* is still true when it arrives; the last sleep follows a success; and what
\* a waiter returned is so.
WaiterInv(w) ==
  /\ pc[w] # "cancelling"
  /\ pc[w] \in {"polling", "sleeping"} \/ (pc[w] = "starting" /\ reply[w] \in Statuses)
       => job[op[w]] \in Statuses
  /\ pc[w] = "polling" /\ reply[w] \in Ended => job[op[w]] = reply[w]
  /\ pc[w] = "sleeping" /\ ~wait[w] => job[op[w]] = "SUCCESS"
  /\ result[w] \in Ended => job[op[w]] = result[w]
  /\ result[w] = "WeaviateBackupCanceled" => job[op[w]] = "CANCELED"

CallInv(c) ==
  /\ Replies(c)
  /\ c \in Waiters => WaiterInv(c)
  /\ c \in Cancellers => pc[c] \in {"idle", "cancelling", "done"}

\* The call that cancelled a job was told so, or lost its answer.
Culprit(c, o) ==
  /\ op[c] = o
  /\ \/ pc[c] = "cancelling" /\ reply[c] \in {"204", Failure}
     \/ pc[c] = "done" /\ result[c] = "true"

Accounted ==
  \A o \in Operations : job[o] = "CANCELED" => \E c \in Cancellers : Culprit(c, o)

IInv == TypeOK /\ (\A c \in Calls : CallInv(c)) /\ Accounted

\* A job keeps its last status.
JobGrows ==
  \A o \in Operations :
    /\ job[o] \in Statuses => job'[o] \in Statuses
    /\ job[o] \in Ended => job'[o] = job[o]

\* No job becomes cancelled.
NoneCancelled ==
  \A o \in Operations : job'[o] = "CANCELED" => job[o] = "CANCELED"

\* The variables of call d.
Same(d) ==
  /\ op'[d] = op[d] /\ pc'[d] = pc[d] /\ reply'[d] = reply[d] /\ result'[d] = result[d]
  /\ d \in Waiters => wait'[d] = wait[d]

\* The invariant of a call whose variables a step leaves alone survives it.
LEMMA SameKeeps ==
  ASSUME TypeOK, TypeOK', JobGrows, NEW d \in Calls, CallInv(d), Same(d)
  PROVE  CallInv(d)'
<1>1. pc[d] # "idle" => op[d] \in Operations
  BY DEF TypeOK
<1>2. result[d] # "none" => pc[d] # "idle"
  BY DEF TypeOK
<1>3. Replies(d)'
  BY DEF CallInv, Replies, Same
<1>4. ASSUME d \in Waiters PROVE WaiterInv(d)'
  <2>1. WaiterInv(d)
    BY <1>4 DEF CallInv
  <2>2. CASE pc[d] = "idle"
    <3>1. result[d] = "none"
      BY <2>2, <1>2
    <3> QED
      BY <3>1, <2>1, <2>2 DEF WaiterInv, Same, Ended
  <2>3. CASE pc[d] # "idle"
    <3>1. op[d] \in Operations
      BY <1>1, <2>3
    <3>2. /\ job[op[d]] \in Statuses => job'[op[d]] \in Statuses
          /\ job[op[d]] \in Ended => job'[op[d]] = job[op[d]]
      BY <3>1 DEF JobGrows
    <3> QED
      BY <3>2, <2>1, <1>4 DEF WaiterInv, Same, Ended
  <2> QED
    BY <2>2, <2>3
<1>5. d \in Cancellers => pc'[d] \in {"idle", "cancelling", "done"}
  BY DEF CallInv, Same
<1> QED
  BY <1>3, <1>4, <1>5 DEF CallInv

\* A step of call c preserves the invariant if it preserves that of c.
LEMMA Frame ==
  ASSUME IInv, TypeOK', JobGrows, NEW c \in Calls, \A d \in Calls \ {c} : Same(d),
         CallInv(c)', Accounted'
  PROVE  IInv'
<1>1. ASSUME NEW d \in Calls \ {c} PROVE CallInv(d)'
  BY <1>1, SameKeeps DEF IInv
<1> QED
  BY <1>1 DEF IInv

\* A step of a waiter that cancels nothing leaves the cancelled jobs accounted for.
LEMMA AccountedKept ==
  ASSUME IInv, NoneCancelled, NEW w \in Waiters, \A d \in Calls \ {w} : Same(d)
  PROVE  Accounted'
<1> SUFFICES ASSUME NEW o \in Operations, job'[o] = "CANCELED"
             PROVE  \E c \in Cancellers : Culprit(c, o)'
  BY DEF Accounted
<1>1. PICK c \in Cancellers : Culprit(c, o)
  BY DEF IInv, Accounted, NoneCancelled
<1>2. c # w /\ c \in Calls
  BY CallsAssumption DEF Calls
<1>3. Culprit(c, o)'
  BY <1>1, <1>2 DEF Same, Culprit
<1> QED
  BY <1>3

LEMMA InitEstablishes == Init => IInv
<1> SUFFICES ASSUME Init PROVE IInv
  OBVIOUS
<1>1. TypeOK
  BY CallsAssumption
  DEF Init, TypeOK, Calls, ResultsOf, CancelResults, Operations, Statuses, Ended, NoReply, Failure, Refused, NotFound
<1>2. \A c \in Calls : CallInv(c)
  BY DEF Init, CallInv, Replies, WaiterInv, Calls, Operations, Statuses, Ended, NoReply, Failure, Refused, NotFound
<1>3. Accounted
  BY DEF Init, Accounted
<1> QED
  BY <1>1, <1>2, <1>3 DEF IInv

\* A waiter returns r.
LEMMA WaiterReturns ==
  ASSUME IInv, NEW w \in Waiters, pc[w] # "idle", NEW r \in ResultsOf(ApiOf[w]) \ {"none"},
         Return(w, r), UNCHANGED <<job, op>>,
         wait' \in [Waiters -> BOOLEAN], \A x \in Waiters \ {w} : wait'[x] = wait[x],
         r \in Ended => job[op[w]] = r,
         r = "WeaviateBackupCanceled" => job[op[w]] = "CANCELED"
  PROVE  IInv'
<1> USE DEF Operations, Statuses, Ended, NoReply, Failure, Refused, NotFound
<1>1. w \in Calls /\ w \notin Cancellers
  BY CallsAssumption DEF Calls
<1>2. TypeOK /\ JobGrows /\ NoneCancelled
  BY DEF IInv, JobGrows, NoneCancelled
<1>3. pc' = [pc EXCEPT ![w] = "done"] /\ reply' = [reply EXCEPT ![w] = NoReply]
      /\ result' = [result EXCEPT ![w] = r]
  BY DEF Return
<1>4. ApiOf[w] \in {"client", "builder"}
  BY CallsAssumption
<1>5. r \in ResultsOf("client") \cup ResultsOf("builder") /\ r # "none"
  BY <1>4
<1>6. \A d \in Calls \ {w} : Same(d)
  BY <1>1, <1>2, <1>3 DEF TypeOK, Same
<1>7. /\ op'[w] = op[w] /\ pc'[w] = "done" /\ reply'[w] = NoReply /\ result'[w] = r
  BY <1>1, <1>2, <1>3 DEF TypeOK
<1>8. TypeOK'
  <2>1. job' \in [Operations -> Statuses \cup {"none"}] /\ op' \in [Calls -> Operations \cup {"none"}]
    BY <1>2 DEF TypeOK
  <2>2. /\ pc' \in [Calls -> {"idle", "starting", "polling", "sleeping", "cancelling", "done"}]
        /\ reply' \in [Calls -> Statuses \cup {NoReply, Failure, Refused, NotFound, "204"}]
    BY <1>2, <1>3 DEF TypeOK
  <2>3. result' \in [Calls -> ResultsOf("client") \cup ResultsOf("builder") \cup CancelResults]
    BY <1>2, <1>3, <1>5 DEF TypeOK
  <2>4. /\ \A x \in Waiters : result'[x] \in ResultsOf(ApiOf[x])
        /\ \A c \in Cancellers : result'[c] \in CancelResults
    BY <1>1, <1>2, <1>6, <1>7 DEF TypeOK, Same, Calls
  <2>5. ASSUME NEW c \in Calls
        PROVE  (op'[c] = "none" <=> pc'[c] = "idle") /\ (result'[c] # "none" <=> pc'[c] = "done")
    <3>1. CASE c = w
      BY <3>1, <1>1, <1>2, <1>5, <1>7 DEF TypeOK
    <3>2. CASE c # w
      BY <3>2, <1>2, <1>6 DEF TypeOK, Same
    <3> QED
      BY <3>1, <3>2
  <2> QED
    BY <2>1, <2>2, <2>3, <2>4, <2>5 DEF TypeOK
<1>9. CallInv(w)'
  BY <1>1, <1>7 DEF CallInv, Replies, WaiterInv
<1>10. Accounted'
  BY <1>2, <1>6, AccountedKept
<1> QED
  BY <1>1, <1>2, <1>6, <1>8, <1>9, <1>10, Frame

\* A waiter sends a request or sleeps.
LEMMA WaiterSends ==
  ASSUME IInv, NEW w \in Waiters, pc[w] # "done", NEW p \in {"starting", "polling", "sleeping"},
         Send(w, p), UNCHANGED <<job, result>>,
         op' \in [Calls -> Operations \cup {"none"}], op'[w] # "none",
         \A d \in Calls \ {w} : op'[d] = op[d],
         wait' \in [Waiters -> BOOLEAN], \A x \in Waiters \ {w} : wait'[x] = wait[x],
         p # "starting" => job[op'[w]] \in Statuses,
         p = "sleeping" /\ ~wait'[w] => job[op'[w]] = "SUCCESS"
  PROVE  IInv'
<1> USE DEF Operations, Statuses, Ended, NoReply, Failure, Refused, NotFound
<1>1. w \in Calls /\ w \notin Cancellers
  BY CallsAssumption DEF Calls
<1>2. TypeOK /\ JobGrows /\ NoneCancelled
  BY DEF IInv, JobGrows, NoneCancelled
<1>3. pc' = [pc EXCEPT ![w] = p] /\ reply' = [reply EXCEPT ![w] = NoReply]
  BY DEF Send
<1>4. \A d \in Calls \ {w} : Same(d)
  BY <1>1, <1>2, <1>3 DEF TypeOK, Same
<1>5. pc'[w] = p /\ reply'[w] = NoReply /\ result'[w] = "none"
  BY <1>1, <1>2, <1>3 DEF TypeOK
<1>6. TypeOK'
  <2>1. /\ pc' \in [Calls -> {"idle", "starting", "polling", "sleeping", "cancelling", "done"}]
        /\ reply' \in [Calls -> Statuses \cup {NoReply, Failure, Refused, NotFound, "204"}]
    BY <1>2, <1>3 DEF TypeOK
  <2>2. ASSUME NEW c \in Calls
        PROVE  (op'[c] = "none" <=> pc'[c] = "idle") /\ (result'[c] # "none" <=> pc'[c] = "done")
    <3>1. CASE c = w
      <4>1. pc'[w] # "idle" /\ pc'[w] # "done" /\ op'[w] # "none" /\ result'[w] = "none"
        BY <1>5
      <4> QED
        BY <4>1, <3>1
    <3>2. CASE c # w
      <4>1. Same(c)
        BY <3>2, <1>4
      <4>2. (op[c] = "none" <=> pc[c] = "idle") /\ (result[c] # "none" <=> pc[c] = "done")
        BY <1>2 DEF TypeOK
      <4> QED
        BY <4>1, <4>2 DEF Same
    <3> QED
      BY <3>1, <3>2
  <2> QED
    BY <2>1, <2>2, <1>2 DEF TypeOK
<1>7. CallInv(w)'
  BY <1>1, <1>5 DEF CallInv, Replies, WaiterInv
<1>8. Accounted'
  BY <1>2, <1>4, AccountedKept
<1> QED
  BY <1>1, <1>2, <1>4, <1>6, <1>7, <1>8, Frame

\* A call is answered r, as Replies allows it.
LEMMA Answered ==
  ASSUME IInv, NEW c \in Calls, pc[c] \in {"starting", "polling", "cancelling"},
         NEW r \in Statuses \cup {Failure, Refused, NotFound, "204"},
         Answer(c, r), UNCHANGED <<op, wait, pc, result>>,
         job' \in [Operations -> Statuses \cup {"none"}], JobGrows, Replies(c)',
         r \in Statuses => job'[op[c]] \in Statuses,
         pc[c] = "polling" /\ r \in Ended => job'[op[c]] = r
  PROVE  TypeOK' /\ (\A d \in Calls \ {c} : Same(d)) /\ CallInv(c)' /\ reply'[c] = r
<1> USE DEF Operations, Statuses, Ended, NoReply, Failure, Refused, NotFound
<1>1. TypeOK /\ CallInv(c)
  BY DEF IInv
<1>2. reply' = [reply EXCEPT ![c] = r]
  BY DEF Answer
<1>3. \A d \in Calls \ {c} : Same(d)
  BY <1>1, <1>2 DEF TypeOK, Same
<1>4. reply'[c] = r
  BY <1>1, <1>2 DEF TypeOK
<1>5. TypeOK'
  BY <1>1, <1>2 DEF TypeOK
<1>6. op[c] \in Operations /\ result[c] = "none"
  <2>1. pc[c] # "idle" /\ pc[c] # "done"
    OBVIOUS
  <2>2. op[c] \in Operations \cup {"none"} /\ (op[c] = "none" <=> pc[c] = "idle")
        /\ (result[c] # "none" <=> pc[c] = "done")
    BY <1>1 DEF TypeOK
  <2> QED
    BY <2>1, <2>2
<1>7. job[op[c]] \in Statuses => job'[op[c]] \in Statuses
  BY <1>6 DEF JobGrows
<1>8. CallInv(c)'
  BY <1>1, <1>4, <1>6, <1>7 DEF CallInv, WaiterInv
<1> QED
  BY <1>3, <1>4, <1>5, <1>8

LEMMA StartPreserves == ASSUME IInv, NEW w \in Waiters, Start(w) PROVE IInv'
<1> USE DEF Operations, Statuses, Ended, NoReply, Failure, Refused, NotFound
<1>1. w \in Calls /\ TypeOK
  BY DEF Calls, IInv
<1>2. PICK o \in Operations : op' = [op EXCEPT ![w] = o]
  BY DEF Start
<1>4. /\ op' \in [Calls -> Operations \cup {"none"}] /\ op'[w] # "none"
      /\ \A d \in Calls \ {w} : op'[d] = op[d]
  BY <1>1, <1>2 DEF TypeOK
<1>5. wait' \in [Waiters -> BOOLEAN] /\ \A x \in Waiters \ {w} : wait'[x] = wait[x]
  BY <1>1 DEF TypeOK, Start
<1> QED
  BY <1>4, <1>5, WaiterSends DEF Start

\* The job of w is created here, or not at all.
LEMMA ServeStartPreserves == ASSUME IInv, NEW w \in Waiters, ServeStart(w) PROVE IInv'
<1> USE DEF Operations, Statuses, Ended, NoReply, Failure, Refused, NotFound
<1>1. w \in Calls /\ TypeOK /\ pc[w] = "starting" /\ op[w] \in Operations
  BY DEF Calls, IInv, TypeOK, ServeStart
<1>2. /\ UNCHANGED <<op, wait, pc, result>> /\ NoneCancelled /\ JobGrows
      /\ job' \in [Operations -> Statuses \cup {"none"}]
  <2>1. UNCHANGED <<op, wait, pc, result>>
    BY DEF ServeStart
  <2>2. CASE UNCHANGED job
    <3>1. NoneCancelled /\ JobGrows /\ job' \in [Operations -> Statuses \cup {"none"}]
      BY <2>2, <1>1 DEF NoneCancelled, JobGrows, TypeOK
    <3> QED
      BY <3>1, <2>1
  <2>3. CASE MayRun(op[w]) /\ \E s \in {"STARTED", "FAILED"} : job' = [job EXCEPT ![op[w]] = s]
    <3>1. PICK s \in {"STARTED", "FAILED"} : job' = [job EXCEPT ![op[w]] = s]
      BY <2>3
    <3>2. job[op[w]] = "none"
      BY <2>3 DEF MayRun
    <3>3. job' \in [Operations -> Statuses \cup {"none"}]
      BY <3>1, <1>1 DEF TypeOK
    <3>4. \A o \in Operations : job'[o] = IF o = op[w] THEN s ELSE job[o]
      BY <3>1, <1>1 DEF TypeOK
    <3>5. NoneCancelled /\ JobGrows
      BY <3>2, <3>4 DEF NoneCancelled, JobGrows
    <3> QED
      BY <3>3, <3>5, <2>1
  <2> QED
    BY <2>2, <2>3 DEF ServeStart
<1>3. PICK r \in {"STARTED", "FAILED", Refused} :
        Answer(w, r) /\ (r \in Statuses => job'[op[w]] \in Statuses)
  BY <1>1 DEF ServeStart, TypeOK
<1>4. Replies(w)'
  BY <1>1, <1>2, <1>3 DEF Replies, Answer, TypeOK
<1>5. TypeOK' /\ (\A d \in Calls \ {w} : Same(d)) /\ CallInv(w)'
  BY <1>1, <1>2, <1>3, <1>4, Answered
<1>6. Accounted'
  BY <1>2, <1>5, AccountedKept
<1> QED
  BY <1>1, <1>2, <1>5, <1>6, Frame

\* A status that ended the job is the last one.
LEMMA ServeStatusPreserves == ASSUME IInv, NEW w \in Waiters, ServeStatus(w) PROVE IInv'
<1> USE DEF Operations, Statuses, Ended, NoReply, Failure, Refused, NotFound
<1>1. w \in Calls /\ TypeOK /\ pc[w] = "polling"
  BY DEF Calls, IInv, ServeStatus
<1>2. job[op[w]] \in Statuses
  BY <1>1 DEF IInv, CallInv, WaiterInv
<1>3. UNCHANGED <<job, op, wait, pc, result>> /\ Answer(w, job[op[w]])
  BY DEF ServeStatus
<1>4. NoneCancelled /\ JobGrows /\ job' \in [Operations -> Statuses \cup {"none"}]
  BY <1>1, <1>3 DEF NoneCancelled, JobGrows, TypeOK
<1>5. Replies(w)'
  BY <1>1, <1>2, <1>3 DEF Replies, Answer, TypeOK
<1>6. TypeOK' /\ (\A d \in Calls \ {w} : Same(d)) /\ CallInv(w)'
  BY <1>1, <1>2, <1>3, <1>4, <1>5, Answered
<1>7. Accounted'
  BY <1>4, <1>6, AccountedKept
<1> QED
  BY <1>1, <1>4, <1>6, <1>7, Frame

LEMMA StartedPreserves == ASSUME IInv, NEW w \in Waiters, Started(w) PROVE IInv'
<1> USE DEF Operations, Statuses, Ended, NoReply, Failure, Refused, NotFound
<1>1. w \in Calls /\ TypeOK /\ pc[w] = "starting" /\ op[w] # "none"
  BY DEF Calls, IInv, TypeOK, Started
<1>2. reply[w] \in {Failure, Refused} \/ job[op[w]] \in Statuses
  BY <1>1 DEF IInv, CallInv, Replies, WaiterInv, Started
<1>3. /\ UNCHANGED <<job, op>> /\ wait' \in [Waiters -> BOOLEAN]
      /\ \A x \in Waiters \ {w} : wait'[x] = wait[x]
  BY <1>1 DEF Started, TypeOK
<1>4. CASE \E r \in {"WeaviateBackupFailed", "error", "resolved"} :
             Return(w, r) /\ (r = "WeaviateBackupFailed" <=> r # "resolved" /\ ApiOf[w] = "client")
  <2>1. PICK r \in {"WeaviateBackupFailed", "error", "resolved"} :
          Return(w, r) /\ r \in ResultsOf(ApiOf[w]) \ {"none"}
    BY <1>4, CallsAssumption DEF ResultsOf
  <2> QED
    BY <2>1, <1>1, <1>3, WaiterReturns
<1>5. CASE reply[w] \notin {Failure, Refused} /\ Send(w, "polling") /\ UNCHANGED result
  <2>1. op' \in [Calls -> Operations \cup {"none"}]
    BY <1>1, <1>3 DEF TypeOK
  <2> QED
    BY <2>1, <1>1, <1>2, <1>3, <1>5, WaiterSends
<1> QED
  BY <1>4, <1>5 DEF Started

\* The answer that ends the wait is how the job ended.
LEMMA PolledPreserves == ASSUME IInv, NEW w \in Waiters, Polled(w) PROVE IInv'
<1> USE DEF Operations, Statuses, Ended, NoReply, Failure, Refused, NotFound
<1> DEFINE api == ApiOf[w]
<1>1. w \in Calls /\ TypeOK /\ pc[w] = "polling" /\ op[w] # "none" /\ api \in {"client", "builder"}
  BY CallsAssumption DEF Calls, IInv, TypeOK, Polled
<1>2. job[op[w]] \in Statuses /\ (reply[w] \in Ended => job[op[w]] = reply[w])
      /\ reply[w] \in Statuses \cup {Failure}
  BY <1>1 DEF IInv, CallInv, Replies, WaiterInv, Polled
<1>3. /\ UNCHANGED <<job, op>> /\ op' \in [Calls -> Operations \cup {"none"}]
      /\ wait' \in [Waiters -> BOOLEAN] /\ \A x \in Waiters \ {w} : wait'[x] = wait[x]
  BY <1>1 DEF Polled, TypeOK
<1>4. CASE Return(w, "error")
  <2>1. "error" \in ResultsOf(api) \ {"none"}
    BY DEF ResultsOf
  <2> QED
    BY <2>1, <1>1, <1>3, <1>4, WaiterReturns
<1>5. CASE reply[w] \in EndsWait \ LastSleep(w) /\ Return(w, ResultOf(w, reply[w]))
  <2> DEFINE r == ResultOf(w, reply[w])
  <2>1. /\ r \in ResultsOf(api) \ {"none"}
        /\ r \in Ended => job[op[w]] = r
        /\ r = "WeaviateBackupCanceled" => job[op[w]] = "CANCELED"
    BY <1>1, <1>2, <1>5 DEF EndsWait, LastSleep, ResultOf, ResultsOf
  <2> HIDE DEF r
  <2> QED
    BY <2>1, <1>1, <1>3, <1>5, WaiterReturns DEF r
<1>6. CASE /\ reply[w] \notin (EndsWait \ LastSleep(w)) \cup {Failure}
           /\ Send(w, "sleeping") /\ UNCHANGED result
           /\ wait' = [wait EXCEPT ![w] = reply[w] \notin LastSleep(w)]
  <2>1. wait'[w] = (reply[w] \notin LastSleep(w))
    BY <1>1, <1>6 DEF TypeOK
  <2>2. ~wait'[w] => job[op'[w]] = "SUCCESS"
    BY <2>1, <1>2, <1>3 DEF LastSleep
  <2> QED
    BY <2>2, <1>1, <1>2, <1>3, <1>6, WaiterSends
<1> QED
  BY <1>4, <1>5, <1>6 DEF Polled

LEMMA WakePreserves == ASSUME IInv, NEW w \in Waiters, Wake(w) PROVE IInv'
<1> USE DEF Operations, Statuses, Ended, NoReply, Failure, Refused, NotFound
<1>1. w \in Calls /\ TypeOK /\ pc[w] = "sleeping" /\ op[w] # "none"
  BY DEF Calls, IInv, TypeOK, Wake
<1>2. job[op[w]] \in Statuses /\ (~wait[w] => job[op[w]] = "SUCCESS")
  BY <1>1 DEF IInv, CallInv, WaiterInv
<1>3. UNCHANGED <<job, op, wait>> /\ op' \in [Calls -> Operations \cup {"none"}] /\ wait' \in [Waiters -> BOOLEAN]
  BY <1>1 DEF Wake, TypeOK
<1>4. CASE wait[w] /\ Send(w, "polling") /\ UNCHANGED result
  BY <1>1, <1>2, <1>3, <1>4, WaiterSends
<1>5. CASE ~wait[w] /\ Return(w, ResultOf(w, "SUCCESS"))
  <2>1. ResultOf(w, "SUCCESS") = "SUCCESS" /\ "SUCCESS" \in ResultsOf(ApiOf[w]) \ {"none"}
    BY DEF ResultOf, ResultsOf
  <2> QED
    BY <2>1, <1>1, <1>2, <1>3, <1>5, WaiterReturns
<1> QED
  BY <1>4, <1>5 DEF Wake

\* A cancel call changes only itself, or is answered.
LEMMA CancelPreserves == ASSUME IInv, NEW c \in Cancellers, Cancel(c) PROVE IInv'
<1> USE DEF Operations, Statuses, Ended, NoReply, Failure, Refused, NotFound
<1>1. c \in Calls /\ c \notin Waiters /\ TypeOK /\ pc[c] = "idle"
  BY CallsAssumption DEF Calls, IInv, Cancel
<1>2. PICK o \in Operations : op' = [op EXCEPT ![c] = o]
  BY DEF Cancel
<1>3. /\ pc' = [pc EXCEPT ![c] = "cancelling"] /\ reply' = [reply EXCEPT ![c] = NoReply]
      /\ UNCHANGED <<job, wait, result>>
  BY DEF Cancel, Send
<1>4. \A d \in Calls \ {c} : Same(d)
  BY <1>1, <1>2, <1>3 DEF TypeOK, Same
<1>5. op'[c] = o /\ pc'[c] = "cancelling" /\ reply'[c] = NoReply /\ result'[c] = "none"
  BY <1>1, <1>2, <1>3 DEF TypeOK
<1>6. TypeOK'
  <2>1. /\ op' \in [Calls -> Operations \cup {"none"}]
        /\ pc' \in [Calls -> {"idle", "starting", "polling", "sleeping", "cancelling", "done"}]
        /\ reply' \in [Calls -> Statuses \cup {NoReply, Failure, Refused, NotFound, "204"}]
    BY <1>1, <1>2, <1>3 DEF TypeOK
  <2>2. ASSUME NEW d \in Calls
        PROVE  (op'[d] = "none" <=> pc'[d] = "idle") /\ (result'[d] # "none" <=> pc'[d] = "done")
    <3>1. CASE d = c
      BY <3>1, <1>5
    <3>2. CASE d # c
      BY <3>2, <1>1, <1>4 DEF TypeOK, Same
    <3> QED
      BY <3>1, <3>2
  <2> QED
    BY <2>1, <2>2, <1>1, <1>3 DEF TypeOK
<1>7. CallInv(c)'
  BY <1>1, <1>5 DEF CallInv, Replies
<1>8. Accounted'
  <2> SUFFICES ASSUME NEW p \in Operations, job'[p] = "CANCELED"
               PROVE  \E d \in Cancellers : Culprit(d, p)'
    BY DEF Accounted
  <2>1. PICK d \in Cancellers : Culprit(d, p)
    BY <1>3 DEF IInv, Accounted
  <2>2. d # c /\ d \in Calls
    BY <2>1, <1>1 DEF Culprit, Calls
  <2> QED
    BY <2>1, <2>2, <1>4 DEF Same, Culprit
<1>9. JobGrows
  BY <1>3 DEF JobGrows
<1> QED
  BY <1>1, <1>4, <1>6, <1>7, <1>8, <1>9, Frame

\* The call that cancels the job is its culprit.
LEMMA ServeCancelPreserves == ASSUME IInv, NEW c \in Cancellers, ServeCancel(c) PROVE IInv'
<1> USE DEF Operations, Statuses, Ended, NoReply, Failure, Refused, NotFound
<1>1. c \in Calls /\ c \notin Waiters /\ TypeOK /\ pc[c] = "cancelling" /\ op[c] \in Operations
      /\ reply[c] = NoReply
  <2>1. c \in Calls /\ c \notin Waiters /\ TypeOK
    BY CallsAssumption DEF Calls, IInv
  <2>2. pc[c] = "cancelling" /\ reply[c] = NoReply
    BY DEF ServeCancel
  <2> QED
    BY <2>1, <2>2 DEF TypeOK
<1>2. UNCHANGED <<op, wait, pc, result>>
  BY DEF ServeCancel
<1>3. CASE job[op[c]] = "STARTED" /\ job' = [job EXCEPT ![op[c]] = "CANCELED"] /\ Answer(c, "204")
  <2>1. JobGrows /\ job' \in [Operations -> Statuses \cup {"none"}]
    BY <1>1, <1>3 DEF JobGrows, TypeOK
  <2>2. Replies(c)'
    BY <1>1, <1>2, <1>3 DEF Replies, Answer, TypeOK
  <2>3. TypeOK' /\ (\A d \in Calls \ {c} : Same(d)) /\ CallInv(c)' /\ reply'[c] = "204"
    BY <1>1, <1>2, <1>3, <2>1, <2>2, Answered
  <2>4. Accounted'
    <3> SUFFICES ASSUME NEW o \in Operations, job'[o] = "CANCELED"
                 PROVE  \E d \in Cancellers : Culprit(d, o)'
      BY DEF Accounted
    <3>1. CASE o = op[c]
      BY <3>1, <1>1, <1>2, <2>3 DEF Culprit
    <3>2. CASE o # op[c]
      <4>1. job[o] = "CANCELED"
        BY <3>2, <1>1, <1>3 DEF TypeOK
      <4>2. PICK d \in Cancellers : Culprit(d, o)
        BY <4>1 DEF IInv, Accounted
      <4>3. d # c /\ d \in Calls
        BY <4>2, <3>2 DEF Culprit, Calls
      <4> QED
        BY <4>2, <4>3, <2>3 DEF Culprit, Same
    <3> QED
      BY <3>1, <3>2
  <2> QED
    BY <1>1, <2>1, <2>3, <2>4, Frame
<1>4. CASE UNCHANGED job /\ \E r \in {NotFound, Refused} : Answer(c, r)
  <2>1. JobGrows /\ job' \in [Operations -> Statuses \cup {"none"}]
    BY <1>1, <1>4 DEF JobGrows, TypeOK
  <2>2. PICK r \in {NotFound, Refused} : Answer(c, r)
    BY <1>4
  <2>3. Replies(c)'
    BY <1>1, <1>2, <2>2 DEF Replies, Answer, TypeOK
  <2>4. TypeOK' /\ (\A d \in Calls \ {c} : Same(d)) /\ CallInv(c)'
    BY <1>1, <1>2, <2>1, <2>2, <2>3, Answered
  <2>5. Accounted'
    <3> SUFFICES ASSUME NEW o \in Operations, job'[o] = "CANCELED"
                 PROVE  \E d \in Cancellers : Culprit(d, o)'
      BY DEF Accounted
    <3>1. PICK d \in Cancellers : Culprit(d, o)
      BY <1>4 DEF IInv, Accounted
    <3>2. d # c /\ d \in Calls
      BY <3>1, <1>1 DEF Culprit, Calls
    <3> QED
      BY <3>1, <3>2, <2>4 DEF Culprit, Same
  <2> QED
    BY <1>1, <2>1, <2>4, <2>5, Frame
<1> QED
  BY <1>3, <1>4 DEF ServeCancel

\* A call that lost its answer returns true: it may be the culprit.
LEMMA CancelledPreserves == ASSUME IInv, NEW c \in Cancellers, Cancelled(c) PROVE IInv'
<1> USE DEF Operations, Statuses, Ended, NoReply, Failure, Refused, NotFound
<1> DEFINE r == CancelResult(reply[c])
<1>1. c \in Calls /\ c \notin Waiters /\ TypeOK /\ pc[c] = "cancelling" /\ op[c] # "none"
  BY CallsAssumption DEF Calls, IInv, TypeOK, Cancelled
<1>2. UNCHANGED <<job, op, wait>> /\ Return(c, r)
  BY DEF Cancelled
<1>3. r \in CancelResults \ {"none"} /\ (reply[c] \in {"204", Failure} => r = "true")
  BY DEF CancelResult, CancelResults
<1> HIDE DEF r
<1>4. /\ pc' = [pc EXCEPT ![c] = "done"] /\ reply' = [reply EXCEPT ![c] = NoReply]
      /\ result' = [result EXCEPT ![c] = r]
  BY <1>2 DEF Return
<1>5. \A d \in Calls \ {c} : Same(d)
  BY <1>1, <1>2, <1>4 DEF TypeOK, Same
<1>6. op'[c] = op[c] /\ pc'[c] = "done" /\ reply'[c] = NoReply /\ result'[c] = r
  BY <1>1, <1>2, <1>4 DEF TypeOK
<1>7. TypeOK'
  <2>1. /\ pc' \in [Calls -> {"idle", "starting", "polling", "sleeping", "cancelling", "done"}]
        /\ reply' \in [Calls -> Statuses \cup {NoReply, Failure, Refused, NotFound, "204"}]
    BY <1>1, <1>4 DEF TypeOK
  <2>2. result' \in [Calls -> ResultsOf("client") \cup ResultsOf("builder") \cup CancelResults]
    BY <1>1, <1>3, <1>4 DEF TypeOK
  <2>3. /\ \A x \in Waiters : result'[x] \in ResultsOf(ApiOf[x])
        /\ \A d \in Cancellers : result'[d] \in CancelResults
    BY <1>1, <1>3, <1>5, <1>6 DEF TypeOK, Same, Calls
  <2>4. ASSUME NEW d \in Calls
        PROVE  (op'[d] = "none" <=> pc'[d] = "idle") /\ (result'[d] # "none" <=> pc'[d] = "done")
    <3>1. CASE d = c
      BY <3>1, <1>1, <1>3, <1>6
    <3>2. CASE d # c
      BY <3>2, <1>1, <1>5 DEF TypeOK, Same
    <3> QED
      BY <3>1, <3>2
  <2> QED
    BY <2>1, <2>2, <2>3, <2>4, <1>1, <1>2 DEF TypeOK
<1>8. CallInv(c)'
  BY <1>1, <1>6 DEF CallInv, Replies
<1>9. Accounted'
  <2> SUFFICES ASSUME NEW o \in Operations, job'[o] = "CANCELED"
               PROVE  \E d \in Cancellers : Culprit(d, o)'
    BY DEF Accounted
  <2>1. PICK d \in Cancellers : Culprit(d, o)
    BY <1>2 DEF IInv, Accounted
  <2>2. CASE d = c
    BY <2>1, <2>2, <1>1, <1>3, <1>6 DEF Culprit
  <2>3. CASE d # c
    <3>1. d \in Calls
      BY DEF Calls
    <3> QED
      BY <3>1, <2>1, <2>3, <1>5 DEF Culprit, Same
  <2> QED
    BY <2>2, <2>3
<1>10. JobGrows
  BY <1>2 DEF JobGrows
<1> QED
  BY <1>1, <1>5, <1>7, <1>8, <1>9, <1>10, Frame

\* Whatever was answered is lost: the culprit remains one.
LEMMA FailPreserves == ASSUME IInv, NEW c \in Calls, Fail(c) PROVE IInv'
<1> USE DEF Operations, Statuses, Ended, NoReply, Failure, Refused, NotFound
<1>1. TypeOK /\ pc[c] \in {"starting", "polling", "cancelling"} /\ Answer(c, Failure)
      /\ UNCHANGED <<job, op, wait, pc, result>>
  BY DEF IInv, Fail
<1>2. JobGrows /\ job' \in [Operations -> Statuses \cup {"none"}]
  BY <1>1 DEF JobGrows, TypeOK
<1>3. Replies(c)'
  BY <1>1 DEF Replies, Answer, TypeOK
<1>4. TypeOK' /\ (\A d \in Calls \ {c} : Same(d)) /\ CallInv(c)' /\ reply'[c] = Failure
  BY <1>1, <1>2, <1>3, Answered
<1>5. Accounted'
  <2> SUFFICES ASSUME NEW o \in Operations, job'[o] = "CANCELED"
               PROVE  \E d \in Cancellers : Culprit(d, o)'
    BY DEF Accounted
  <2>1. PICK d \in Cancellers : Culprit(d, o)
    BY <1>1 DEF IInv, Accounted
  <2>2. CASE d = c
    BY <2>1, <2>2, <1>1, <1>4 DEF Culprit
  <2>3. CASE d # c
    <3>1. d \in Calls
      BY DEF Calls
    <3> QED
      BY <3>1, <2>1, <2>3, <1>4 DEF Culprit, Same
  <2> QED
    BY <2>2, <2>3
<1> QED
  BY <1>2, <1>4, <1>5, Frame

\* A job ends once.
LEMMA FinishPreserves == ASSUME IInv, NEW o \in Operations, Finish(o) PROVE IInv'
<1> USE DEF Operations, Statuses, Ended, NoReply, Failure, Refused, NotFound
<1>1. TypeOK /\ job[o] = "STARTED" /\ UNCHANGED <<op, wait, pc, reply, result>>
  BY DEF IInv, Finish
<1>2. PICK s \in {"SUCCESS", "FAILED"} : job' = [job EXCEPT ![o] = s]
  BY DEF Finish
<1>3. TypeOK'
  BY <1>1, <1>2 DEF TypeOK
<1>4. JobGrows /\ NoneCancelled
  BY <1>1, <1>2 DEF JobGrows, NoneCancelled, TypeOK
<1>5. \A d \in Calls : Same(d)
  BY <1>1 DEF Same
<1>6. \A d \in Calls : CallInv(d)'
  BY <1>1, <1>3, <1>4, <1>5, SameKeeps DEF IInv
<1>7. Accounted'
  BY <1>1, <1>4 DEF IInv, Accounted, NoneCancelled, Culprit
<1> QED
  BY <1>3, <1>6, <1>7 DEF IInv

LEMMA NextPreserves == IInv /\ [Next]_vars => IInv'
<1> SUFFICES ASSUME IInv, [Next]_vars PROVE IInv'
  OBVIOUS
<1>1. ASSUME NEW w \in Waiters, Start(w) \/ WaiterStep(w) \/ Serve(w) PROVE IInv'
  BY <1>1, StartPreserves, StartedPreserves, PolledPreserves, WakePreserves,
     ServeStartPreserves, ServeStatusPreserves DEF WaiterStep, Serve
<1>2. ASSUME NEW c \in Cancellers, Cancel(c) \/ ServeCancel(c) \/ Cancelled(c) PROVE IInv'
  BY <1>2, CancelPreserves, ServeCancelPreserves, CancelledPreserves
<1>3. ASSUME NEW c \in Calls, Fail(c) PROVE IInv'
  BY <1>3, FailPreserves
<1>4. ASSUME NEW o \in Operations, Finish(o) PROVE IInv'
  BY <1>4, FinishPreserves
<1>5. CASE UNCHANGED vars
  <2>1. \A d \in Calls : CallInv(d)'
    BY <1>5 DEF IInv, vars, CallInv, Replies, WaiterInv
  <2> QED
    BY <2>1, <1>5 DEF IInv, vars, TypeOK, Accounted, Culprit
<1> QED
  BY <1>1, <1>2, <1>3, <1>4, <1>5 DEF Next, Terminated

LEMMA Invariance == Spec => []IInv
BY InitEstablishes, NextPreserves, PTL DEF Spec

\* Type correctness, and that a call has a result once it has returned.
THEOREM TypeCorrect == Spec => []TypeOK
<1>1. IInv => TypeOK
  BY DEF IInv
<1> QED
  BY <1>1, Invariance, PTL

\* A call that waited tells how its own job ended (create and restore with
\* waitForCompletion, and the builders).
THEOREM OutcomesAreTrue == Spec => []OutcomeIsTrue
<1>1. IInv => OutcomeIsTrue
  BY DEF IInv, CallInv, WaiterInv, OutcomeIsTrue, Calls
<1> QED
  BY <1>1, Invariance, PTL

\* A cancel call that denies having cancelled its job did not (cancel).
THEOREM DenialsAreTrue == Spec => []DenialIsTrue
<1>1. IInv => DenialIsTrue
  BY DEF IInv, Accounted, Culprit, DenialIsTrue
<1> QED
  BY <1>1, Invariance, PTL
=============================================================================
