-------------------------- MODULE CollectionProofs --------------------------
(***************************************************************************)
(* Proofs about the parts of a collection handle.  Of those that keep      *)
(* state across awaits: the calls that set the status of shards (Shards),  *)
(* for any callers, shards and failures; insertMany (Insert), for any      *)
(* number of objects and attempts; the chunked update of tenants           *)
(* (Tenants), for any calls, tenants and size of the chunks; and the       *)
(* updates of a configuration that read, merge and write it (Config), for  *)
(* any updates.  Of those that serialize: the references that filters      *)
(* share (Filter), for any number of them; values (Values), for lists of   *)
(* any length; and the vectors of a search (Search), for any number of     *)
(* names, and for rows of any number and length.                           *)
(***************************************************************************)
EXTENDS Insert, Shards, Tenants, Config, Filter, Values, Search, SequenceTheorems, FiniteSetTheorems, TLAPS

-----------------------------------------------------------------------------
(***************************************************************************)
(* Shards.  What is known of a request is known of its call: a request is  *)
(* for a shard the call names, and one that failed is on record, in the    *)
(* builder's errors or in the rejection of the call.                       *)
(***************************************************************************)
\* The states in which a call has requests, and those after all are answered.
HasSent == {"setting", "reporting", "reported", "resolved"}
HasAll == {"reporting", "reported", "resolved"}

RequestsFounded ==
  \A c \in Callers, s \in Shards :
    /\ put[c][s] # "none" => s \in Names[c] /\ caller[c] \notin {"idle", "asking", "listing", "refused"}
    /\ put[c][s] = "failed" => IF c \in Builders THEN c \in errors ELSE caller[c] = "rejected"

CallsFounded ==
  \A c \in Callers :
    /\ caller[c] \in HasSent => \A s \in Names[c] : put[c][s] # "none"
    /\ caller[c] \in HasAll => \A s \in Names[c] : put[c][s] = "done"
    /\ caller[c] \in {"reporting", "reported"} => c \notin Builders

\* A shard that was set shows it, unless a rival call was made.
SetShows ==
  \A c \in Callers, s \in Shards :
    put[c][s] \in {"set", "done"} => status[s] = StatusOf[c] \/ Rival(c, s)

ReportsFounded ==
  \A c \in Callers : caller[c] \in {"reported", "resolved"} =>
    \A s \in Names[c] : report[c][s] = StatusOf[c] \/ Rival(c, s)

ShardsIInv ==
  /\ ShardsTypeOK
  /\ RequestsFounded /\ CallsFounded /\ SetShows /\ ReportsFounded /\ BuilderWaits

LEMMA ShardsInitIInv == ShardsInit => ShardsIInv
<1> SUFFICES ASSUME ShardsInit PROVE ShardsIInv
  OBVIOUS
<1> USE CallersAssumption DEF ShardsInit, NotSent
<1>1. ShardsTypeOK
  BY DEF ShardsTypeOK
<1>2. RequestsFounded /\ CallsFounded /\ SetShows /\ ReportsFounded /\ BuilderWaits
  BY DEF RequestsFounded, CallsFounded, SetShows, ReportsFounded, BuilderWaits, HasSent, HasAll
<1> QED BY <1>1, <1>2 DEF ShardsIInv

\* A call once made stays a rival.
LEMMA RivalsRemain ==
  ASSUME ShardsTypeOK, \A d \in Callers : caller[d] # "idle" => caller'[d] # "idle",
         NEW c \in Callers, NEW s \in Shards, Rival(c, s)
  PROVE  Rival(c, s)'
BY DEF Rival

\* Every step keeps the types.
LEMMA ShardsNextTypeOK == ShardsTypeOK /\ [ShardsNext]_shardsVars => ShardsTypeOK'
<1> SUFFICES ASSUME ShardsTypeOK, [ShardsNext]_shardsVars PROVE ShardsTypeOK'
  OBVIOUS
<1> USE CallersAssumption DEF ShardsTypeOK, CallerAt
<1>0. /\ \A c \in Callers : Sending(c) \in [Shards -> {"none", "sent", "set", "done", "failed"}]
      /\ NotSent \in [Shards -> {"none", "sent", "set", "done", "failed"}]
  BY DEF Sending, NotSent
<1>1. ASSUME NEW c \in Callers, UpdateShards(c) PROVE ShardsTypeOK'
  <2>1. caller' = [caller EXCEPT ![c] = "asking"] \/ caller' = [caller EXCEPT ![c] = "setting"]
    BY <1>1 DEF UpdateShards
  <2>2. put' = put \/ put' = [put EXCEPT ![c] = Sending(c)]
    BY <1>1 DEF UpdateShards
  <2>3. UNCHANGED <<status, report, errors, restarts>>
    BY <1>1 DEF UpdateShards
  <2>4. put' \in [Callers -> [Shards -> {"none", "sent", "set", "done", "failed"}]]
    <3>1. CASE put' = put
      BY <3>1
    <3>2. CASE put' = [put EXCEPT ![c] = Sending(c)]
      <4> DEFINE p == Sending(c)
      <4>1. p \in [Shards -> {"none", "sent", "set", "done", "failed"}]
        BY <1>0
      <4>2. put' = [put EXCEPT ![c] = p]
        BY <3>2
      <4> HIDE DEF p
      <4> QED BY <4>1, <4>2
    <3> QED BY <2>2, <3>1, <3>2
  <2>5. caller' \in [Callers -> {"idle", "asking", "listing", "setting", "reporting", "reported",
                                 "resolved", "rejected", "refused"}]
    BY <2>1
  <2> QED BY <2>3, <2>4, <2>5
<1>2. ASSUME NEW c \in Callers, ListArrives(c) PROVE ShardsTypeOK'
  BY <1>0, <1>2 DEF ListArrives
<1>3. ASSUME NEW c \in Callers, NEW s \in Shards, SetStatus(c, s) PROVE ShardsTypeOK'
  BY <1>3 DEF SetStatus
<1>4. ASSUME NEW c \in Callers, NEW s \in Shards, SetArrives(c, s) PROVE ShardsTypeOK'
  BY <1>4 DEF SetArrives
<1>5. ASSUME NEW c \in Callers, NEW s \in Shards, SetFails(c, s) PROVE ShardsTypeOK'
  BY <1>5 DEF SetFails
<1>6. ASSUME NEW c \in Callers, AskReport(c) PROVE ShardsTypeOK'
  BY <1>6 DEF AskReport
<1>7. ASSUME NEW c \in Callers, ReadReport(c) PROVE ShardsTypeOK'
  <2>1. report' = [report EXCEPT ![c] = status] /\ caller' = [caller EXCEPT ![c] = "reported"]
        /\ UNCHANGED <<put, status, errors, restarts>>
    BY <1>7 DEF ReadReport
  <2>2. report' \in [Callers -> [Shards -> Statuses \cup {"none"}]]
    BY <2>1
  <2> QED BY <2>1, <2>2
<1>8. ASSUME NEW c \in Callers, Return(c) PROVE ShardsTypeOK'
  <2>1. /\ caller' = [caller EXCEPT ![c] = "resolved"] \/ caller' = [caller EXCEPT ![c] = "rejected"]
        /\ report' = report \/ report' = [report EXCEPT ![c] = [s \in Shards |-> StatusOf[c]]]
        /\ UNCHANGED <<put, status, errors, restarts>>
    BY <1>8 DEF Return
  <2>2. report' \in [Callers -> [Shards -> Statuses \cup {"none"}]]
    BY <2>1
  <2> QED BY <2>1, <2>2
<1>9. ASSUME NEW c \in Callers, ListFails(c) PROVE ShardsTypeOK'
  BY <1>9 DEF ListFails
<1>10. ASSUME NEW c \in Callers, Again(c) PROVE ShardsTypeOK'
  BY <1>0, <1>10 DEF Again
<1>11. ASSUME NEW c \in Callers, ListHeaders(c) PROVE ShardsTypeOK'
  BY <1>11 DEF ListHeaders
<1>12. CASE UNCHANGED shardsVars
  BY <1>12 DEF shardsVars
<1> QED BY <1>1, <1>2, <1>3, <1>4, <1>5, <1>6, <1>7, <1>8, <1>9, <1>10, <1>11, <1>12 DEF ShardsNext

\* A call is never idle again.
LEMMA NeverIdleAgain ==
  ASSUME ShardsTypeOK, [ShardsNext]_shardsVars, NEW d \in Callers, caller[d] # "idle"
  PROVE  caller'[d] # "idle"
BY DEF ShardsTypeOK, ShardsNext, shardsVars, UpdateShards, ListHeaders, ListArrives, SetStatus,
       SetArrives, SetFails, AskReport, ReadReport, Return, ListFails, Again, CallerAt

\* Every step keeps what is known of the requests and the calls.
LEMMA ShardsNextIInv == ShardsIInv /\ [ShardsNext]_shardsVars => ShardsIInv'
<1> SUFFICES ASSUME ShardsIInv, [ShardsNext]_shardsVars PROVE ShardsIInv'
  OBVIOUS
<1>0. ShardsTypeOK /\ ShardsTypeOK' /\ RequestsFounded /\ CallsFounded /\ SetShows
      /\ ReportsFounded /\ BuilderWaits
  BY ShardsNextTypeOK DEF ShardsIInv
<1>a. \A c \in Callers, s \in Shards : Rival(c, s) => Rival(c, s)'
  BY <1>0, RivalsRemain, NeverIdleAgain
<1>b. \A c \in Callers : Names[c] \subseteq Shards /\ (c \in Builders => Names[c] = Shards)
  BY CallersAssumption
<1> USE DEF ShardsTypeOK, RequestsFounded, CallsFounded, BuilderWaits, HasSent, HasAll, CallerAt
\* A call changes, and of its requests at most those it makes.
<1>1. ASSUME NEW c \in Callers, NEW to,
             caller' = [caller EXCEPT ![c] = to],
             put' = put \/ put' = [put EXCEPT ![c] = Sending(c)],
             UNCHANGED <<status, errors>>
      PROVE  SetShows'
  <2> SUFFICES ASSUME NEW d \in Callers, NEW s \in Shards, put'[d][s] \in {"set", "done"}
               PROVE  status[s] = StatusOf[d] \/ Rival(d, s)'
    BY <1>1 DEF SetShows
  <2>0. ASSUME put' = [put EXCEPT ![c] = Sending(c)], d = c PROVE FALSE
    <3>1. put'[d][s] = Sending(c)[s]
      BY <1>0, <2>0
    <3> QED BY <3>1 DEF Sending
  <2>1. put[d][s] \in {"set", "done"}
    BY <1>0, <1>1, <2>0
  <2> QED BY <1>0, <1>a, <2>1 DEF SetShows
<1>2. ASSUME NEW c \in Callers, UpdateShards(c) \/ ListHeaders(c) \/ ListArrives(c)
      PROVE  ShardsIInv'
  <2>1. \/ /\ \E to \in {"asking", "listing"} : caller' = [caller EXCEPT ![c] = to]
           /\ put' = put /\ caller[c] \in {"idle", "asking"}
        \/ /\ caller' = [caller EXCEPT ![c] = "setting"] /\ put' = [put EXCEPT ![c] = Sending(c)]
           /\ caller[c] \in {"idle", "listing"}
    BY <1>2 DEF UpdateShards, ListHeaders, ListArrives
  <2>2. UNCHANGED <<status, report, errors, restarts>>
    BY <1>2 DEF UpdateShards, ListHeaders, ListArrives
  <2>3. SetShows'
    BY <1>1, <2>1, <2>2
  <2>4. ReportsFounded'
    BY <1>0, <1>a, <1>b, <2>1, <2>2 DEF ReportsFounded
  <2>5. RequestsFounded'
    BY <1>0, <2>1, <2>2 DEF Sending
  <2>6. CallsFounded'
    <3>1. CASE /\ \E to \in {"asking", "listing"} : caller' = [caller EXCEPT ![c] = to]
               /\ put' = put
      BY <1>0, <1>b, <3>1
    <3>2. CASE /\ caller' = [caller EXCEPT ![c] = "setting"]
               /\ put' = [put EXCEPT ![c] = Sending(c)]
      <4>1. \A s \in Names[c] : put'[c][s] = "sent"
        BY <1>0, <1>b, <3>2 DEF Sending
      <4>2. \A d \in Callers : d # c => put'[d] = put[d] /\ caller'[d] = caller[d]
        BY <1>0, <3>2
      <4>3. caller'[c] = "setting"
        BY <1>0, <3>2
      <4>4. ASSUME NEW d \in Callers
            PROVE  /\ caller'[d] \in HasSent => \A s \in Names[d] : put'[d][s] # "none"
                   /\ caller'[d] \in HasAll => \A s \in Names[d] : put'[d][s] = "done"
                   /\ caller'[d] \in {"reporting", "reported"} => d \notin Builders
        <5>1. CASE d = c
          BY <4>1, <4>3, <5>1
        <5>2. CASE d # c
          BY <1>0, <4>2, <5>2
        <5> QED BY <5>1, <5>2
      <4> QED BY <4>4
    <3> QED BY <2>1, <3>1, <3>2
  <2>7. BuilderWaits'
    <3>1. \A d \in Callers : d # c => put'[d] = put[d] /\ caller'[d] = caller[d]
      BY <1>0, <2>1
    <3>2. caller'[c] \in {"asking", "listing", "setting"} /\ Builders \subseteq Callers
      BY <1>0, <2>1, CallersAssumption
    <3> HIDE DEF ShardsTypeOK
    <3> QED BY <1>0, <3>1, <3>2
  <2> QED BY <1>0, <2>3, <2>4, <2>5, <2>6, <2>7 DEF ShardsIInv
<1>3. ASSUME NEW c \in Callers, NEW s \in Shards, SetStatus(c, s) PROVE ShardsIInv'
  <2>1. /\ put[c][s] = "sent" /\ put' = [put EXCEPT ![c][s] = "set"]
        /\ status' = [status EXCEPT ![s] = StatusOf[c]]
        /\ UNCHANGED <<caller, report, errors, restarts>>
    BY <1>3 DEF SetStatus
  <2>2. s \in Names[c] /\ caller[c] # "idle"
    BY <1>0, <2>1
  <2>3. SetShows'
    <3> SUFFICES ASSUME NEW d \in Callers, NEW t \in Shards, put'[d][t] \in {"set", "done"}
                 PROVE  status'[t] = StatusOf[d] \/ Rival(d, t)'
      BY DEF SetShows
    <3>1. CASE t = s
      <4>1. status'[s] = StatusOf[c]
        BY <1>0, <2>1
      <4>2. StatusOf[d] # StatusOf[c] => Rival(d, s)'
        BY <2>1, <2>2 DEF Rival
      <4> QED BY <3>1, <4>1, <4>2
    <3>2. CASE t # s
      <4>1. put[d][t] = put'[d][t] /\ status'[t] = status[t]
        BY <1>0, <2>1, <3>2
      <4> QED BY <1>0, <1>a, <4>1 DEF SetShows
    <3> QED BY <3>1, <3>2
  <2>4. ReportsFounded'
    BY <1>0, <1>a, <1>b, <2>1 DEF ReportsFounded
  <2>5. \A d \in Callers, t \in Shards :
          put'[d][t] = IF d = c /\ t = s THEN "set" ELSE put[d][t]
    BY <1>0, <2>1
  <2>6. RequestsFounded'
    BY <1>0, <2>1, <2>2, <2>5
  <2>7. CallsFounded' /\ BuilderWaits'
    BY <1>0, <1>b, <2>1, <2>5
  <2> QED BY <1>0, <2>3, <2>4, <2>6, <2>7 DEF ShardsIInv
<1>4. ASSUME NEW c \in Callers, NEW s \in Shards, SetArrives(c, s) PROVE ShardsIInv'
  <2>1. /\ put[c][s] = "set" /\ put' = [put EXCEPT ![c][s] = "done"]
        /\ UNCHANGED <<caller, status, report, errors, restarts>>
    BY <1>4 DEF SetArrives
  <2>5. \A d \in Callers, t \in Shards :
          put'[d][t] = IF d = c /\ t = s THEN "done" ELSE put[d][t]
    BY <1>0, <2>1
  <2>3. SetShows'
    BY <1>0, <1>a, <2>1, <2>5 DEF SetShows
  <2>4. ReportsFounded'
    BY <1>0, <1>a, <1>b, <2>1 DEF ReportsFounded
  <2>6. RequestsFounded' /\ CallsFounded' /\ BuilderWaits'
    BY <1>0, <1>b, <2>1, <2>5
  <2> QED BY <1>0, <2>3, <2>4, <2>6 DEF ShardsIInv
<1>5. ASSUME NEW c \in Callers, NEW s \in Shards, SetFails(c, s) PROVE ShardsIInv'
  <2>1. /\ put[c][s] \in {"sent", "set"} /\ put' = [put EXCEPT ![c][s] = "failed"]
        /\ UNCHANGED <<status, report, restarts>>
    BY <1>5 DEF SetFails
  <2>2. \/ c \in Builders /\ errors' = errors \cup {c} /\ caller' = caller
        \/ c \notin Builders /\ errors' = errors /\ caller' = [caller EXCEPT ![c] = "rejected"]
    BY <1>5 DEF SetFails
  <2>5. \A d \in Callers, t \in Shards :
          put'[d][t] = IF d = c /\ t = s THEN "failed" ELSE put[d][t]
    BY <1>0, <2>1
  <2>3. SetShows'
    BY <1>0, <1>a, <2>1, <2>5 DEF SetShows
  <2>4. ReportsFounded'
    BY <1>0, <1>a, <1>b, <2>1, <2>2 DEF ReportsFounded
  <2>6. RequestsFounded'
    BY <1>0, <2>1, <2>2, <2>5
  <2>8. caller[c] \notin HasAll
    BY <1>0, <2>1
  <2>9. CallsFounded'
    BY <1>0, <1>b, <2>1, <2>2, <2>5, <2>8
  <2>7. BuilderWaits'
    <3>1. \A d \in Builders : d \in Callers /\ caller'[d] = caller[d]
      BY <1>0, <2>2, CallersAssumption
    <3> HIDE DEF ShardsTypeOK
    <3> QED BY <1>0, <2>5, <3>1
  <2> QED BY <1>0, <2>3, <2>4, <2>6, <2>7, <2>9 DEF ShardsIInv
<1>6. ASSUME NEW c \in Callers, AskReport(c) PROVE ShardsIInv'
  <2>1. /\ c \notin Builders /\ caller[c] = "setting" /\ caller' = [caller EXCEPT ![c] = "reporting"]
        /\ UNCHANGED <<put, status, report, errors, restarts>>
    BY <1>6 DEF AskReport
  <2>2. \A s \in Names[c] : put[c][s] = "done"
    BY <1>0, <1>b, <1>6, <2>1 DEF AskReport, AllSettled
  <2>3. SetShows'
    BY <1>1, <2>1
  <2>4. ReportsFounded'
    BY <1>0, <1>a, <1>b, <2>1 DEF ReportsFounded
  <2>5. RequestsFounded' /\ CallsFounded' /\ BuilderWaits'
    BY <1>0, <1>b, <2>1, <2>2
  <2> QED BY <1>0, <2>3, <2>4, <2>5 DEF ShardsIInv
<1>7. ASSUME NEW c \in Callers, ReadReport(c) PROVE ShardsIInv'
  <2>1. /\ caller[c] = "reporting" /\ caller' = [caller EXCEPT ![c] = "reported"]
        /\ report' = [report EXCEPT ![c] = status]
        /\ UNCHANGED <<put, status, errors, restarts>>
    BY <1>7 DEF ReadReport
  <2>3. SetShows'
    BY <1>1, <2>1
  <2>4. ReportsFounded'
    <3> SUFFICES ASSUME NEW d \in Callers, caller'[d] \in {"reported", "resolved"},
                        NEW s \in Names[d]
                 PROVE  report'[d][s] = StatusOf[d] \/ Rival(d, s)'
      BY DEF ReportsFounded
    <3>1. s \in Shards
      BY <1>b
    <3>2. CASE d = c
      <4>1. put[c][s] = "done" /\ report'[c][s] = status[s]
        BY <1>0, <2>1, <3>2
      <4> QED BY <1>0, <1>a, <3>1, <3>2, <4>1 DEF SetShows
    <3>3. CASE d # c
      BY <1>0, <1>a, <2>1, <3>1, <3>3 DEF ReportsFounded
    <3> QED BY <3>2, <3>3
  <2>5. RequestsFounded' /\ CallsFounded' /\ BuilderWaits'
    BY <1>0, <1>b, <2>1
  <2> QED BY <1>0, <2>3, <2>4, <2>5 DEF ShardsIInv
<1>8. ASSUME NEW c \in Callers, Return(c) PROVE ShardsIInv'
  <2>0. UNCHANGED <<put, status, errors, restarts>>
    BY <1>8 DEF Return
  <2>1. \/ /\ caller[c] = "reported" /\ caller' = [caller EXCEPT ![c] = "resolved"]
           /\ report' = report
        \/ /\ c \in Builders /\ AllSettled(c) /\ c \notin errors /\ caller[c] = "setting"
           /\ caller' = [caller EXCEPT ![c] = "resolved"]
           /\ report' = [report EXCEPT ![c] = [s \in Shards |-> StatusOf[c]]]
        \/ /\ c \in Builders /\ AllSettled(c) /\ caller[c] = "setting"
           /\ caller' = [caller EXCEPT ![c] = "rejected"]
           /\ report' = report
    BY <1>8 DEF Return
  <2>2. caller'[c] = "resolved" => \A s \in Names[c] : put[c][s] = "done"
    BY <1>0, <1>b, <2>1 DEF AllSettled
  <2>3. SetShows'
    BY <1>1, <2>0, <2>1
  <2>4. ReportsFounded'
    <3> SUFFICES ASSUME NEW d \in Callers, caller'[d] \in {"reported", "resolved"},
                        NEW s \in Names[d]
                 PROVE  report'[d][s] = StatusOf[d] \/ Rival(d, s)'
      BY DEF ReportsFounded
    <3>1. s \in Shards
      BY <1>b
    <3>2. CASE caller[d] \in {"reported", "resolved"} /\ report'[d] = report[d]
      BY <1>0, <1>a, <3>1, <3>2 DEF ReportsFounded
    <3>3. CASE d = c /\ report' = [report EXCEPT ![c] = [t \in Shards |-> StatusOf[c]]]
      BY <1>0, <3>1, <3>3
    <3> QED BY <1>0, <2>1, <3>2, <3>3
  <2>5. c \in Builders => \A s \in Shards : put[c][s] \notin {"sent", "set"}
    BY <1>0, <1>b, <2>1 DEF AllSettled
  <2>6. RequestsFounded'
    <3>1. \A s \in Shards : put[c][s] = "failed" => c \in Builders
      BY <1>0, <2>1
    <3> QED BY <1>0, <2>0, <2>1, <3>1
  <2>7. CallsFounded'
    BY <1>0, <2>0, <2>1, <2>2
  <2>8. BuilderWaits'
    <3>1. \A d \in Callers : d # c => caller'[d] = caller[d]
      BY <1>0, <2>1
    <3> HIDE DEF ShardsTypeOK
    <3> QED BY <1>0, <2>0, <2>5, <3>1, CallersAssumption
  <2> QED BY <1>0, <2>3, <2>4, <2>6, <2>7, <2>8 DEF ShardsIInv
<1>9. ASSUME NEW c \in Callers, ListFails(c) PROVE ShardsIInv'
  <2>1. /\ caller[c] \in {"asking", "listing", "reporting", "reported"}
        /\ caller' = [caller EXCEPT ![c] = "rejected"]
        /\ UNCHANGED <<put, status, report, errors, restarts>>
    BY <1>9 DEF ListFails
  <2>2. SetShows'
    BY <1>1, <2>1
  <2>3. ReportsFounded'
    BY <1>0, <1>a, <1>b, <2>1 DEF ReportsFounded
  <2>4. c \in Builders => \A s \in Shards : put[c][s] = "none"
    BY <1>0, <2>1
  <2>5. RequestsFounded' /\ CallsFounded' /\ BuilderWaits'
    BY <1>0, <1>b, <2>1, <2>4
  <2> QED BY <1>0, <2>2, <2>3, <2>5 DEF ShardsIInv
<1>10. ASSUME NEW c \in Callers, Again(c) PROVE ShardsIInv'
  <2>1. /\ c \in Builders /\ put' = [put EXCEPT ![c] = NotSent]
        /\ \E to \in {"refused", "asking"} : caller' = [caller EXCEPT ![c] = to]
        /\ UNCHANGED <<status, report, errors>>
    BY <1>10 DEF Again
  <2>2. \A d \in Callers, t \in Shards : put'[d][t] = IF d = c THEN "none" ELSE put[d][t]
    BY <1>0, <2>1 DEF NotSent
  <2>3. SetShows'
    BY <1>0, <1>a, <2>1, <2>2 DEF SetShows
  <2>4. ReportsFounded'
    BY <1>0, <1>a, <1>b, <2>1 DEF ReportsFounded
  <2>5. RequestsFounded' /\ CallsFounded' /\ BuilderWaits'
    BY <1>0, <1>b, <2>1, <2>2
  <2> QED BY <1>0, <2>3, <2>4, <2>5 DEF ShardsIInv
<1>11. CASE UNCHANGED shardsVars
  BY <1>0, <1>11 DEF shardsVars, ShardsIInv, SetShows, ReportsFounded, Rival
<1> QED BY <1>2, <1>3, <1>4, <1>5, <1>6, <1>7, <1>8, <1>9, <1>10, <1>11 DEF ShardsNext

LEMMA ShardsInvariant == ShardsSpec => []ShardsIInv
BY ShardsInitIInv, ShardsNextIInv, PTL DEF ShardsSpec

\* A call that resolves has set every shard it names and reports it, unless a
\* rival call was made, and no builder that is done has a request under way,
\* for any number of calls, shards and failures (updateShards, ShardsUpdater).
THEOREM ShardsAreReported == ShardsSpec => []ShardsReportTruly
<1>1. ShardsIInv => ShardsReportTruly
  <2> SUFFICES ASSUME ShardsIInv PROVE ShardsReportTruly
    OBVIOUS
  <2>1. \A c \in Callers : Names[c] \subseteq Shards
    BY CallersAssumption
  <2>2. ResolvedMeansSet
    BY <2>1 DEF ShardsIInv, CallsFounded, SetShows, HasAll, ResolvedMeansSet
  <2> QED BY <2>2 DEF ShardsIInv, ReportsFounded, ReportShowsUpdate, ShardsReportTruly
<1> QED BY <1>1, ShardsInvariant, PTL

-----------------------------------------------------------------------------
(***************************************************************************)
(* insertMany.  The timers map the objects in their order, and the request *)
(* waits for all of them: the uuid of an object, chosen when it is mapped, *)
(* is then its position, in every attempt.                                 *)
(***************************************************************************)
InOrder ==
  /\ Len(mapped) <= nextObject - 1
  /\ Len(mapped) = nextObject - 1 => \A i \in 1..Len(mapped) : mapped[i] = i

SentWithAll ==
  /\ request # "none" \/ insertion \in {"sent", "resolved"} => Len(mapped) = Objects
  /\ insertion = "resolved" => request = "served"

StoredFounded ==
  /\ stored \subseteq 1..Objects
  /\ request = "none" => stored = {}
  /\ request = "served" => (1..Objects) \ invalid \subseteq stored

ResponsesFounded ==
  insertion = "resolved" =>
    responses = [i \in 1..Objects |-> IF i \in invalid THEN 0 ELSE UuidOf(i)]

InsertIInv ==
  InsertTypeOK /\ InOrder /\ SentWithAll /\ StoredFounded /\ ResponsesFounded

LEMMA InsertInitIInv == InsertInit => InsertIInv
<1> SUFFICES ASSUME InsertInit PROVE InsertIInv
  OBVIOUS
<1> USE InsertAssumption DEF InsertInit
<1>1. InsertTypeOK
  BY DEF InsertTypeOK
<1> QED BY <1>1 DEF InsertIInv, InOrder, SentWithAll, StoredFounded, ResponsesFounded

\* A timer of iterate that fires.
LEMMA IterateIInv ==
  ASSUME InsertIInv, Iterate, UNCHANGED <<throwing, attempts, request, invalid, stored, responses>>,
         insertion' \in {"idle", "serializing", "sent", "resolved", "rejected"},
         insertion' \in {"sent", "resolved"} => insertion' = insertion
  PROVE  InsertIInv'
<1> USE InsertAssumption
<1>1. /\ nextObject \in 1..Objects /\ nextObject' = nextObject + 1
      /\ mapped \in Seq(1..Objects) /\ Len(mapped) \in Nat
      /\ InsertTypeOK /\ InOrder /\ SentWithAll /\ StoredFounded /\ ResponsesFounded
  BY DEF InsertIInv, InsertTypeOK, Iterate
<1>2. request = "none" /\ insertion' \notin {"sent", "resolved"}
  BY <1>1 DEF SentWithAll, InOrder
<1>3. CASE nextObject \in throwing
  <2>1. mapped' = mapped
    BY <1>3 DEF Iterate
  <2>2. InOrder'
    BY <1>1, <2>1 DEF InOrder
  <2> QED BY <1>1, <1>2, <2>1, <2>2
      DEF InsertIInv, InsertTypeOK, SentWithAll, StoredFounded, ResponsesFounded
<1>4. CASE nextObject \notin throwing
  <2>1. mapped' = Append(mapped, nextObject)
    BY <1>4 DEF Iterate
  <2>2. /\ mapped' \in Seq(1..Objects) /\ Len(mapped') = Len(mapped) + 1
        /\ \A i \in 1..Len(mapped) : mapped'[i] = mapped[i]
        /\ mapped'[Len(mapped) + 1] = nextObject
    BY <1>1, <2>1, AppendProperties
  <2>3. InOrder'
    BY <1>1, <2>2 DEF InOrder
  <2> QED BY <1>1, <1>2, <2>2, <2>3
      DEF InsertIInv, InsertTypeOK, SentWithAll, StoredFounded, ResponsesFounded
<1> QED BY <1>3, <1>4

LEMMA InsertNextIInv == InsertIInv /\ [InsertNext]_insertVars => InsertIInv'
<1> SUFFICES ASSUME InsertIInv, [InsertNext]_insertVars PROVE InsertIInv'
  OBVIOUS
<1> USE InsertAssumption
<1>1. /\ nextObject \in 1..(Objects + 1)
      /\ mapped \in Seq(1..Objects) /\ Len(mapped) \in Nat
      /\ InsertTypeOK /\ InOrder /\ SentWithAll /\ StoredFounded /\ ResponsesFounded
  BY DEF InsertIInv, InsertTypeOK
\* Once all are mapped, each is at its position.
<1>2. Len(mapped) >= Objects => Len(mapped) = Objects /\ \A i \in 1..Objects : mapped[i] = i
  BY <1>1 DEF InOrder
<1>3. CASE CallInsertMany
  BY <1>1, <1>3, IterateIInv DEF CallInsertMany
<1>4. CASE IterateTimer
  BY <1>1, <1>4, IterateIInv DEF IterateTimer, InsertTypeOK
<1>5. CASE SendObjects
  <2>1. /\ insertion' = "sent" /\ request' = "sent" /\ Len(mapped) = Objects
        /\ UNCHANGED <<throwing, nextObject, mapped, attempts, invalid, stored, responses>>
    BY <1>2, <1>5 DEF SendObjects, AllMapped
  <2> QED BY <1>1, <2>1 DEF InsertIInv, InsertTypeOK, InOrder, SentWithAll, StoredFounded,
                           ResponsesFounded
<1>6. CASE ServeObjects
  <2>1. /\ request = "sent" /\ request' = "served"
        /\ invalid' \subseteq 1..Len(mapped)
        /\ stored' = stored \cup {UuidOf(mapped[i]) : i \in DOMAIN mapped \ invalid'}
        /\ UNCHANGED <<throwing, insertion, nextObject, mapped, attempts, responses>>
    BY <1>1, <1>6 DEF ServeObjects
  <2>2. /\ Len(mapped) = Objects /\ insertion # "resolved"
        /\ \A i \in 1..Objects : mapped[i] = i
    BY <1>1, <1>2, <2>1 DEF SentWithAll
  <2>3. stored' = stored \cup ((1..Objects) \ invalid')
    BY <1>1, <2>1, <2>2 DEF UuidOf
  <2>4. StoredFounded'
    BY <1>1, <2>1, <2>3 DEF StoredFounded
  <2>5. InsertTypeOK'
    BY <1>1, <2>1, <2>2, <2>4 DEF InsertTypeOK, StoredFounded
  <2> QED BY <1>1, <2>1, <2>2, <2>4, <2>5 DEF InsertIInv, InOrder, SentWithAll, ResponsesFounded
<1>7. CASE Retry
  BY <1>1, <1>7 DEF Retry, InsertIInv, InsertTypeOK, InOrder, SentWithAll, StoredFounded,
                    ResponsesFounded
<1>8. CASE InsertFails
  BY <1>1, <1>8 DEF InsertFails, InsertIInv, InsertTypeOK, InOrder, SentWithAll, StoredFounded,
                    ResponsesFounded
<1>9. CASE ReplyArrives
  <2>1. /\ insertion = "sent" /\ request = "served" /\ insertion' = "resolved"
        /\ responses' = Responses
        /\ UNCHANGED <<throwing, nextObject, mapped, attempts, request, invalid, stored>>
    BY <1>9 DEF ReplyArrives
  <2>2. Len(mapped) = Objects /\ \A i \in 1..Objects : mapped[i] = i
    BY <1>1, <1>2, <2>1 DEF SentWithAll
  <2>3. DOMAIN mapped = 1..Objects
    BY <1>1, <2>2
  <2>4. responses' = [i \in 1..Objects |-> IF i \in invalid THEN 0 ELSE UuidOf(i)]
    BY <2>1, <2>2, <2>3 DEF Responses, UuidOf
  <2>5. responses' \in Seq(0..Objects)
    BY <2>4 DEF UuidOf
  <2> QED BY <1>1, <2>1, <2>2, <2>4, <2>5
      DEF InsertIInv, InsertTypeOK, InOrder, SentWithAll, StoredFounded, ResponsesFounded
<1>10. CASE UNCHANGED insertVars
  BY <1>1, <1>10 DEF insertVars, InsertIInv, InsertTypeOK, InOrder, SentWithAll, StoredFounded,
                     ResponsesFounded
<1> QED BY <1>3, <1>4, <1>5, <1>6, <1>7, <1>8, <1>9, <1>10 DEF InsertNext

LEMMA InsertInvariant == InsertSpec => []InsertIInv
BY InsertInitIInv, InsertNextIInv, PTL DEF InsertSpec

\* An insertMany that resolves has one response for each object, at its place,
\* and however often its request was sent again and served, it stored no object
\* twice (insertMany, Serialize.batchObjects, Deserialize.batchObjects).
THEOREM InsertsOnce == InsertSpec => []InsertedOnce
<1>1. InsertIInv => InsertedOnce
  <2> SUFFICES ASSUME InsertIInv PROVE InsertedOnce
    OBVIOUS
  <2> USE InsertAssumption
  <2>1. OneResponseEach
    <3> SUFFICES ASSUME insertion = "resolved"
                 PROVE  /\ Len(responses) = Objects
                        /\ \A i \in 1..Objects :
                             IF i \in invalid THEN responses[i] = 0
                             ELSE responses[i] = UuidOf(i) /\ responses[i] \in stored
      BY DEF OneResponseEach
    <3>1. responses = [i \in 1..Objects |-> IF i \in invalid THEN 0 ELSE UuidOf(i)]
      BY DEF InsertIInv, ResponsesFounded
    <3>2. (1..Objects) \ invalid \subseteq stored
      BY DEF InsertIInv, SentWithAll, StoredFounded
    <3>3. responses \in Seq(0..Objects)
      BY DEF InsertIInv, InsertTypeOK
    <3>4. Len(responses) = Objects
      BY <3>1, <3>3
    <3> QED BY <3>1, <3>2, <3>4 DEF UuidOf
  <2>2. StoredOnce
    <3>1. Len(mapped) \in Nat
      BY DEF InsertIInv, InsertTypeOK
    <3>2. stored \subseteq 1..Len(mapped)
      BY <3>1 DEF InsertIInv, SentWithAll, StoredFounded
    <3>3. IsFiniteSet(1..Len(mapped)) /\ Cardinality(1..Len(mapped)) = Len(mapped)
      <4> DEFINE n == Len(mapped)
      <4>1. n \in Int /\ 1 \in Int /\ (IF 1 > n THEN 0 ELSE n - 1 + 1) = n
        BY <3>1
      <4> HIDE DEF n
      <4>2. IsFiniteSet(1..n) /\ Cardinality(1..n) = IF 1 > n THEN 0 ELSE n - 1 + 1
        BY <4>1, FS_Interval
      <4> QED BY <4>1, <4>2 DEF n
    <3>4. Cardinality(stored) <= Cardinality(1..Len(mapped))
      BY <3>2, <3>3, FS_Subset
    <3> QED BY <3>3, <3>4 DEF StoredOnce
  <2> QED BY <2>1, <2>2 DEF InsertedOnce
<1> QED BY <1>1, InsertInvariant, PTL

-----------------------------------------------------------------------------
(***************************************************************************)
(* Tenants.  The first chunks of a call, put together, are the tenants up  *)
(* to where the last of them ends, which is the end only of the last.      *)
(***************************************************************************)
LEMMA MinOfTwo ==
  ASSUME NEW a \in Nat, NEW b \in Nat
  PROVE  Min({a, b}) = IF a <= b THEN a ELSE b
<1>1. \E x \in {a, b} : \A y \in {a, b} : x <= y
  <2>1. CASE a <= b
    BY <2>1
  <2>2. CASE b <= a
    BY <2>2
  <2> QED BY <2>1, <2>2
<1>2. Min({a, b}) \in {a, b} /\ \A y \in {a, b} : Min({a, b}) <= y
  BY <1>1 DEF Min
<1> QED BY <1>2

\* Rounding up a quotient.
LEMMA RoundUp ==
  ASSUME NEW n \in Nat, NEW k \in Nat \ {0}
  PROVE  LET q == (n + k - 1) \div k
         IN  q \in Nat /\ q * k >= n /\ (q > 0 => (q - 1) * k < n)
OBVIOUS

LEMMA Monotone ==
  ASSUME NEW a \in Nat, NEW b \in Nat, NEW k \in Nat, a <= b
  PROVE  a * k <= b * k
OBVIOUS

\* Where the first i chunks of call c end.
EndOf(c, i) == Min({i * ChunkSize, Len(TenantsOf[c])})
ChunksOf(c) == Chunks(Len(TenantsOf[c]))

LEMMA EndsAre ==
  ASSUME NEW c \in Calls
  PROVE  /\ TenantsOf[c] \in Seq(Tenants) /\ Len(TenantsOf[c]) \in Nat /\ ChunksOf(c) \in Nat
         /\ EndOf(c, 0) = 0 /\ EndOf(c, ChunksOf(c)) = Len(TenantsOf[c])
         /\ \A i \in 1..ChunksOf(c) :
              /\ EndOf(c, i - 1) \in 0..Len(TenantsOf[c]) /\ EndOf(c, i - 1) < Len(TenantsOf[c])
              /\ EndOf(c, i) \in EndOf(c, i - 1)..Len(TenantsOf[c])
              /\ Slice(c, i) = SubSeq(TenantsOf[c], EndOf(c, i - 1) + 1, EndOf(c, i))
<1> DEFINE n == Len(TenantsOf[c])
           q == ChunksOf(c)
           at(i) == i * ChunkSize
<1>1. TenantsOf[c] \in Seq(Tenants) /\ n \in Nat /\ ChunkSize \in Nat \ {0}
  BY CallsAssumption
<1>2. q \in Nat /\ at(q) >= n /\ (q > 0 => at(q - 1) < n) /\ at(0) = 0
  <2>1. q = (n + ChunkSize - 1) \div ChunkSize
    BY DEF ChunksOf, Chunks
  <2> HIDE DEF n, q
  <2>2. q \in Nat /\ at(q) >= n /\ (q > 0 => at(q - 1) < n)
    BY <1>1, <2>1, RoundUp
  <2>3. at(0) = 0
    BY <1>1
  <2> QED BY <2>2, <2>3
<1>3. \A i \in Nat : at(i) \in Nat
  BY <1>1
<1>4. \A i, j \in Nat : i <= j => at(i) <= at(j)
  BY <1>1, Monotone
<1>5. ASSUME NEW i \in Nat PROVE EndOf(c, i) = IF at(i) <= n THEN at(i) ELSE n
  <2> HIDE DEF n
  <2>1. EndOf(c, i) = Min({at(i), n})
    BY DEF EndOf, n
  <2>2. at(i) \in Nat
    BY <1>3
  <2> QED BY <1>1, <2>1, <2>2, MinOfTwo
<1>6. ASSUME NEW i \in 1..q
      PROVE  Slice(c, i) = SubSeq(TenantsOf[c], at(i - 1) + 1, EndOf(c, i))
  BY DEF Slice, EndOf
<1> HIDE DEF n, q, at
<1>7. EndOf(c, 0) = 0 /\ EndOf(c, q) = n
  BY <1>1, <1>2, <1>3, <1>5
<1>8. ASSUME NEW i \in 1..q
      PROVE  /\ EndOf(c, i - 1) \in 0..n /\ EndOf(c, i - 1) < n
             /\ EndOf(c, i) \in EndOf(c, i - 1)..n
             /\ EndOf(c, i - 1) = at(i - 1)
  <2>1. i \in Nat /\ i - 1 \in Nat /\ q - 1 \in Nat /\ i - 1 <= q - 1 /\ i - 1 <= i
    BY <1>2
  <2>2. at(i - 1) <= at(q - 1) /\ at(i - 1) <= at(i) /\ at(i - 1) \in Nat /\ at(i) \in Nat
        /\ at(q - 1) \in Nat
    BY <1>3, <1>4, <2>1
  <2>3. at(i - 1) < n
    BY <1>1, <1>2, <2>2
  <2>4. EndOf(c, i - 1) = at(i - 1) /\ EndOf(c, i) = IF at(i) <= n THEN at(i) ELSE n
    BY <1>1, <1>5, <2>1, <2>2, <2>3
  <2> QED BY <1>1, <2>2, <2>3, <2>4
<1> QED BY <1>1, <1>2, <1>6, <1>7, <1>8 DEF n, q

\* A call that has begun has all its chunks, and its loop has taken the answers
\* to the first ones.
Begun(c) == loopOf[c] \in {"waiting", "resolved", "rejected"}

ChunksSent ==
  \A c \in Calls : IF Begun(c) THEN Len(chunk[c]) = ChunksOf(c) ELSE chunk[c] = <<>>

TurnsFounded ==
  \A c \in Calls :
    /\ turn[c] \in 1..(ChunksOf(c) + 1)
    /\ ~Begun(c) => turn[c] = 1
    /\ out[c] = SubSeq(TenantsOf[c], 1, EndOf(c, turn[c] - 1))
    /\ \A i \in 1..(turn[c] - 1) : chunk[c][i] = "answered"

\* A chunk that was served changed its tenants, and they stay changed.
ServedApplied ==
  \A c \in Calls, i \in Nat :
    i \in 1..Len(chunk[c]) /\ chunk[c][i] \in {"served", "answered"} =>
      \A j \in EndOf(c, i - 1) + 1 .. EndOf(c, i) : active[TenantsOf[c][j]] # NoCall
TakenApplied ==
  \A c \in Calls : \A j \in 1..EndOf(c, turn[c] - 1) : active[TenantsOf[c][j]] # NoCall

EndsFounded ==
  \A c \in Calls :
    /\ loopOf[c] = "resolved" => turn[c] = ChunksOf(c) + 1
    /\ loopOf[c] = "rejected" => turn[c] <= ChunksOf(c) /\ chunk[c][turn[c]] = "failed"

TenantsIInv ==
  TenantsTypeOK /\ ChunksSent /\ TurnsFounded /\ ServedApplied /\ TakenApplied /\ EndsFounded

LEMMA TenantsInitIInv == TenantsInit => TenantsIInv
<1> SUFFICES ASSUME TenantsInit PROVE TenantsIInv
  OBVIOUS
<1>1. \A c \in Calls : /\ loopOf[c] = "idle" /\ chunk[c] = <<>> /\ Len(chunk[c]) = 0
                       /\ turn[c] = 1 /\ out[c] = <<>>
  BY DEF TenantsInit
<1>2. TenantsTypeOK
  BY CallsAssumption DEF TenantsInit, TenantsTypeOK
<1>3. ASSUME NEW c \in Calls
      PROVE  EndOf(c, turn[c] - 1) = 0 /\ SubSeq(TenantsOf[c], 1, 0) = <<>> /\ ChunksOf(c) \in Nat
  BY <1>1, EndsAre, SubSeqEmpty
<1>4. ChunksSent /\ ServedApplied /\ EndsFounded
  BY <1>1 DEF ChunksSent, ServedApplied, EndsFounded, Begun
<1>5. TurnsFounded
  <2> SUFFICES ASSUME NEW c \in Calls
               PROVE  /\ turn[c] \in 1..(ChunksOf(c) + 1)
                      /\ ~Begun(c) => turn[c] = 1
                      /\ out[c] = SubSeq(TenantsOf[c], 1, EndOf(c, turn[c] - 1))
                      /\ \A i \in 1..(turn[c] - 1) : chunk[c][i] = "answered"
    BY DEF TurnsFounded
  <2>1. ~Begun(c) /\ turn[c] = 1 /\ turn[c] - 1 = 0
    BY <1>1 DEF Begun
  <2>2. out[c] = SubSeq(TenantsOf[c], 1, EndOf(c, turn[c] - 1))
    BY <1>1, <1>3, Zenon
  <2> QED BY <1>3, <2>1, <2>2
<1>6. TakenApplied
  BY <1>3 DEF TakenApplied
<1> QED BY <1>2, <1>4, <1>5, <1>6 DEF TenantsIInv

\* What was taken are tenants of the call.
LEMMA EndWithin ==
  ASSUME NEW d \in Calls, NEW k \in 1..(ChunksOf(d) + 1)
  PROVE  /\ EndOf(d, k - 1) \in 0..Len(TenantsOf[d])
         /\ \A j \in 1..EndOf(d, k - 1) : TenantsOf[d][j] \in Tenants
<1>1. /\ TenantsOf[d] \in Seq(Tenants) /\ Len(TenantsOf[d]) \in Nat /\ ChunksOf(d) \in Nat
      /\ EndOf(d, ChunksOf(d)) = Len(TenantsOf[d])
      /\ \A i \in 1..ChunksOf(d) : EndOf(d, i - 1) \in 0..Len(TenantsOf[d])
  BY EndsAre
<1>2. EndOf(d, k - 1) \in 0..Len(TenantsOf[d])
  <2>1. CASE k \in 1..ChunksOf(d)
    BY <1>1, <2>1
  <2>2. CASE k = ChunksOf(d) + 1
    <3>1. k - 1 = ChunksOf(d)
      BY <1>1, <2>2
    <3> QED BY <1>1, <3>1
  <2> QED BY <1>1, <2>1, <2>2
<1> QED BY <1>1, <1>2

\* The tenants of a chunk.
LEMMA SliceIs ==
  ASSUME NEW d \in Calls, NEW k \in 1..ChunksOf(d), NEW j \in EndOf(d, k - 1) + 1 .. EndOf(d, k)
  PROVE  TenantsOf[d][j] \in Tenants /\ TenantsOf[d][j] \in ToSet(Slice(d, k))
<1> DEFINE T == TenantsOf[d]
           a == EndOf(d, k - 1)
           b == EndOf(d, k)
           s == Slice(d, k)
<1>1. /\ T \in Seq(Tenants) /\ a \in Nat /\ b \in a..Len(T) /\ Len(T) \in Nat
      /\ s = SubSeq(T, a + 1, b)
  BY EndsAre
<1> HIDE DEF T, a, b, s
<1>2. j \in a + 1 .. b
  BY DEF a, b
<1>3. \A m \in a + 1 .. b : T[m] \in Tenants
  BY <1>1
<1>4. /\ s \in Seq(Tenants) /\ Len(s) = IF a + 1 <= b THEN b - (a + 1) + 1 ELSE 0
      /\ \A m \in 1 .. b - (a + 1) + 1 : s[m] = T[a + 1 + m - 1]
  BY <1>1, <1>3, SubSeqProperties
<1>5. j - a \in 1 .. b - (a + 1) + 1 /\ j - a \in 1..Len(s) /\ a + 1 + (j - a) - 1 = j
  BY <1>1, <1>2, <1>4
<1>6. s[j - a] = T[j]
  BY <1>4, <1>5
<1>7. T[j] \in ToSet(s)
  BY <1>4, <1>5, <1>6 DEF ToSet
<1> QED BY <1>2, <1>3, <1>7 DEF T, s

LEMMA SliceWithin ==
  ASSUME NEW d \in Calls, NEW k \in 1..ChunksOf(d)
  PROVE  Slice(d, k) \in Seq(Tenants) /\ ToSet(Slice(d, k)) \subseteq Tenants
<1>1. /\ TenantsOf[d] \in Seq(Tenants) /\ EndOf(d, k - 1) \in Nat /\ Len(TenantsOf[d]) \in Nat
      /\ EndOf(d, k) \in EndOf(d, k - 1)..Len(TenantsOf[d])
      /\ Slice(d, k) = SubSeq(TenantsOf[d], EndOf(d, k - 1) + 1, EndOf(d, k))
  BY EndsAre
<1>2. \A m \in EndOf(d, k - 1) + 1 .. EndOf(d, k) : TenantsOf[d][m] \in Tenants
  BY <1>1
<1>3. Slice(d, k) \in Seq(Tenants)
  BY <1>1, <1>2, SubSeqProperties
<1> QED BY <1>3 DEF ToSet

\* A request of a chunk changes: to "answered" only from "served", and it is
\* neither answered nor failed before.
LEMMA ChunkChanges ==
  ASSUME TenantsIInv, NEW c \in Calls, NEW i \in DOMAIN chunk[c],
         NEW to \in {"served", "answered", "failed"},
         chunk[c][i] \in {"sent", "served"}, to = "answered" => chunk[c][i] = "served",
         chunk' = [chunk EXCEPT ![c][i] = to],
         UNCHANGED <<loopOf, turn, out>>,
         active' \in [Tenants -> Calls \cup {NoCall}],
         \A t \in Tenants : active[t] # NoCall => active'[t] # NoCall,
         to = "served" => \A t \in ToSet(Slice(c, i)) : active'[t] # NoCall
  PROVE  TenantsIInv'
<1>0. TenantsTypeOK /\ ChunksSent /\ TurnsFounded /\ ServedApplied /\ TakenApplied /\ EndsFounded
  BY DEF TenantsIInv
<1>a. /\ chunk \in [Calls -> Seq({"sent", "served", "answered", "failed"})]
      /\ chunk[c] \in Seq({"sent", "served", "answered", "failed"}) /\ i \in 1..Len(chunk[c])
  BY <1>0 DEF TenantsTypeOK
<1>1. /\ chunk'[c] \in Seq({"sent", "served", "answered", "failed"})
      /\ Len(chunk'[c]) = Len(chunk[c])
      /\ \A k \in 1..Len(chunk[c]) : chunk'[c][k] = IF k = i THEN to ELSE chunk[c][k]
      /\ \A d \in Calls : d # c => chunk'[d] = chunk[d]
  <2> DEFINE row == [chunk[c] EXCEPT ![i] = to]
  <2>1. chunk' = [chunk EXCEPT ![c] = row]
    OBVIOUS
  <2>2. row \in Seq({"sent", "served", "answered", "failed"}) /\ Len(row) = Len(chunk[c])
        /\ \A k \in 1..Len(chunk[c]) : row[k] = IF k = i THEN to ELSE chunk[c][k]
    BY <1>a, ExceptSeq
  <2>3. chunk'[c] = row /\ \A d \in Calls : d # c => chunk'[d] = chunk[d]
    BY <1>a, <2>1
  <2> HIDE DEF row
  <2> QED BY <2>2, <2>3
<1>2. \A d \in Calls : Len(chunk'[d]) = Len(chunk[d]) /\ chunk'[d] \in Seq({"sent", "served", "answered", "failed"})
  BY <1>1, <1>a
<1>3. TenantsTypeOK'
  <2>1. chunk' \in [Calls -> Seq({"sent", "served", "answered", "failed"})]
    BY <1>2, <1>a
  <2> QED BY <1>0, <2>1 DEF TenantsTypeOK
<1>b. Begun(c) /\ Len(chunk[c]) = ChunksOf(c) /\ i \in 1..ChunksOf(c)
  BY <1>0, <1>a DEF ChunksSent
<1>4. ChunksSent'
  <2>1. \A d \in Calls : (Begun(d)' <=> Begun(d)) /\ (d # c => chunk'[d] = chunk[d])
    BY <1>1 DEF Begun
  <2> QED BY <1>0, <1>1, <1>b, <2>1 DEF ChunksSent
<1>5. \A d \in Calls, k \in Nat : k \in 1..(turn[d] - 1) => chunk'[d][k] = chunk[d][k]
  <2> SUFFICES ASSUME NEW k \in 1..(turn[c] - 1) PROVE chunk'[c][k] = chunk[c][k]
    BY <1>0, <1>1 DEF TurnsFounded
  <2>1. chunk[c][k] = "answered"
    BY <1>0 DEF TurnsFounded
  <2>2. k \in 1..Len(chunk[c])
    BY <1>0, <1>b, EndsAre DEF TurnsFounded
  <2> QED BY <1>1, <2>1, <2>2
<1>6. TurnsFounded'
  <2> SUFFICES ASSUME NEW d \in Calls
               PROVE  /\ turn[d] \in 1..(ChunksOf(d) + 1)
                      /\ ~Begun(d) => turn[d] = 1
                      /\ out[d] = SubSeq(TenantsOf[d], 1, EndOf(d, turn[d] - 1))
                      /\ \A k \in 1..(turn[d] - 1) : chunk'[d][k] = "answered"
    BY DEF TurnsFounded, Begun
  <2> QED BY <1>0, <1>5 DEF TurnsFounded
\* What a chunk changed stays changed.
<1>c. ASSUME NEW d \in Calls, NEW k \in 1..ChunksOf(d),
             NEW j \in EndOf(d, k - 1) + 1 .. EndOf(d, k)
      PROVE  /\ active[TenantsOf[d][j]] # NoCall => active'[TenantsOf[d][j]] # NoCall
             /\ d = c /\ k = i /\ to = "served" => active'[TenantsOf[d][j]] # NoCall
  BY SliceIs
<1>7. ServedApplied'
  <2> SUFFICES ASSUME NEW d \in Calls, NEW k \in 1..Len(chunk'[d]),
                      chunk'[d][k] \in {"served", "answered"},
                      NEW j \in EndOf(d, k - 1) + 1 .. EndOf(d, k)
               PROVE  active'[TenantsOf[d][j]] # NoCall
    BY DEF ServedApplied, EndOf
  <2>1. k \in 1..Len(chunk[d]) /\ k \in Nat
    BY <1>2
  <2>2. Len(chunk[d]) = ChunksOf(d)
    BY <1>0, <2>1 DEF ChunksSent
  <2>3. CASE d = c /\ k = i /\ to = "served"
    BY <1>c, <2>1, <2>2, <2>3
  <2>4. CASE ~(d = c /\ k = i /\ to = "served")
    <3>1. chunk[d][k] \in {"served", "answered"}
      BY <1>1, <2>1, <2>4
    <3>2. active[TenantsOf[d][j]] # NoCall
      BY <1>0, <2>1, <3>1 DEF ServedApplied
    <3> QED BY <1>c, <2>1, <2>2, <3>2
  <2> QED BY <2>3, <2>4
<1>8. TakenApplied'
  <2> SUFFICES ASSUME NEW d \in Calls, NEW j \in 1..EndOf(d, turn[d] - 1)
               PROVE  active'[TenantsOf[d][j]] # NoCall
    BY DEF TakenApplied, EndOf
  <2>1. active[TenantsOf[d][j]] # NoCall
    BY <1>0 DEF TakenApplied
  <2>2. TenantsOf[d][j] \in Tenants
    BY <1>0, EndWithin DEF TurnsFounded
  <2> QED BY <2>1, <2>2
<1>9. EndsFounded'
  <2> SUFFICES ASSUME NEW d \in Calls, loopOf[d] = "rejected"
               PROVE  turn[d] <= ChunksOf(d) /\ chunk'[d][turn[d]] = "failed"
    BY <1>0 DEF EndsFounded
  <2>1. turn[d] <= ChunksOf(d) /\ chunk[d][turn[d]] = "failed" /\ turn[d] >= 1 /\ turn[d] \in Nat
    BY <1>0, EndsAre DEF EndsFounded, TurnsFounded
  <2> QED BY <1>1, <1>b, <2>1
<1> QED BY <1>3, <1>4, <1>6, <1>7, <1>8, <1>9 DEF TenantsIInv

LEMMA TenantsNextIInv == TenantsIInv /\ [TenantsNext]_tenantsVars => TenantsIInv'
<1> SUFFICES ASSUME TenantsIInv, [TenantsNext]_tenantsVars PROVE TenantsIInv'
  OBVIOUS
<1>0. TenantsTypeOK /\ ChunksSent /\ TurnsFounded /\ ServedApplied /\ TakenApplied /\ EndsFounded
  BY DEF TenantsIInv
<1>a. /\ chunk \in [Calls -> Seq({"sent", "served", "answered", "failed"})]
      /\ loopOf \in [Calls -> {"idle", "waiting", "threw", "resolved", "rejected"}]
      /\ turn \in [Calls -> Nat] /\ out \in [Calls -> Seq(Tenants)]
      /\ active \in [Tenants -> Calls \cup {NoCall}]
  BY <1>0 DEF TenantsTypeOK
<1>1. ASSUME NEW c \in Calls, Update(c) PROVE TenantsIInv'
  <2>0. loopOf[c] = "idle" /\ UNCHANGED <<turn, out, active>>
    BY <1>1 DEF Update
  <2>1. CASE c \in InvalidStatus
    <3>1. loopOf' = [loopOf EXCEPT ![c] = "threw"] /\ chunk' = chunk
      BY <1>1, <2>1 DEF Update
    <3>2. \A d \in Calls : (Begun(d)' <=> Begun(d)) /\ (d # c => loopOf'[d] = loopOf[d])
      BY <1>a, <2>0, <3>1 DEF Begun
    <3>3. TenantsTypeOK'
      BY <1>0, <2>0, <3>1 DEF TenantsTypeOK
    <3>4. ChunksSent' /\ TurnsFounded' /\ ServedApplied' /\ TakenApplied'
      BY <1>0, <2>0, <3>1, <3>2 DEF ChunksSent, TurnsFounded, ServedApplied, TakenApplied, EndOf
    <3>5. EndsFounded'
      BY <1>0, <1>a, <2>0, <3>1 DEF EndsFounded
    <3> QED BY <3>3, <3>4, <3>5 DEF TenantsIInv
  <2>2. CASE c \notin InvalidStatus
    <3> DEFINE row == [i \in 1..ChunksOf(c) |-> "sent"]
    <3>1. /\ loopOf' = [loopOf EXCEPT ![c] = "waiting"] /\ chunk' = [chunk EXCEPT ![c] = row]
      BY <1>1, <2>2 DEF Update, ChunksOf
    <3>2. ChunksOf(c) \in Nat
      BY EndsAre
    <3>3. /\ row \in Seq({"sent", "served", "answered", "failed"}) /\ Len(row) = ChunksOf(c)
          /\ \A i \in 1..Len(row) : row[i] = "sent"
      BY <3>2
    <3> HIDE DEF row
    <3>4. \A d \in Calls : /\ chunk'[d] = IF d = c THEN row ELSE chunk[d]
                           /\ loopOf'[d] = IF d = c THEN "waiting" ELSE loopOf[d]
                           /\ Begun(d)' <=> d = c \/ Begun(d)
      BY <1>a, <3>1 DEF Begun
    <3>5. TenantsTypeOK'
      BY <1>0, <2>0, <3>1, <3>3 DEF TenantsTypeOK
    <3>6. ChunksSent'
      BY <1>0, <3>3, <3>4 DEF ChunksSent
    <3>7. turn[c] = 1
      BY <1>0, <2>0 DEF TurnsFounded, Begun
    <3>8. TurnsFounded'
      <4> SUFFICES ASSUME NEW d \in Calls
                   PROVE  /\ turn[d] \in 1..(ChunksOf(d) + 1)
                          /\ ~Begun(d)' => turn[d] = 1
                          /\ out[d] = SubSeq(TenantsOf[d], 1, EndOf(d, turn[d] - 1))
                          /\ \A k \in 1..(turn[d] - 1) : chunk'[d][k] = "answered"
        BY <2>0 DEF TurnsFounded
      <4> QED BY <1>0, <3>4, <3>7 DEF TurnsFounded
    <3>9. ServedApplied'
      <4> SUFFICES ASSUME NEW d \in Calls, NEW i \in Nat, i \in 1..Len(chunk'[d]),
                          chunk'[d][i] \in {"served", "answered"},
                          NEW j \in EndOf(d, i - 1) + 1 .. EndOf(d, i)
                   PROVE  active[TenantsOf[d][j]] # NoCall
        BY <2>0 DEF ServedApplied, EndOf
      <4>1. d # c
        BY <3>3, <3>4
      <4> QED BY <1>0, <3>4, <4>1 DEF ServedApplied
    <3>10. TakenApplied' /\ EndsFounded'
      BY <1>0, <2>0, <3>4 DEF TakenApplied, EndsFounded, EndOf
    <3> QED BY <3>5, <3>6, <3>8, <3>9, <3>10 DEF TenantsIInv
  <2> QED BY <2>1, <2>2
<1>2. ASSUME NEW c \in Calls, NEW i \in DOMAIN chunk[c], Serve(c, i) PROVE TenantsIInv'
  <2>1. /\ chunk[c][i] = "sent" /\ chunk' = [chunk EXCEPT ![c][i] = "served"]
        /\ active' = [t \in Tenants |-> IF t \in ToSet(Slice(c, i)) THEN c ELSE active[t]]
        /\ UNCHANGED <<loopOf, turn, out>>
    BY <1>2 DEF Serve
  <2>2. /\ active' \in [Tenants -> Calls \cup {NoCall}] /\ c # NoCall
        /\ \A t \in Tenants : active[t] # NoCall => active'[t] # NoCall
    BY <1>a, <2>1, CallsAssumption
  <2>3. \A t \in ToSet(Slice(c, i)) : active'[t] # NoCall
    <3>1. i \in 1..ChunksOf(c)
      <4>1. i \in 1..Len(chunk[c])
        BY <1>a
      <4> QED BY <1>0, <4>1 DEF ChunksSent
    <3>2. ToSet(Slice(c, i)) \subseteq Tenants
      BY <3>1, SliceWithin
    <3> QED BY <2>1, <2>2, <3>2
  <2> QED BY <2>1, <2>2, <2>3, ChunkChanges
<1>3. ASSUME NEW c \in Calls, NEW i \in DOMAIN chunk[c], ChunkArrives(c, i) PROVE TenantsIInv'
  <2>1. /\ chunk[c][i] = "served" /\ chunk' = [chunk EXCEPT ![c][i] = "answered"]
        /\ UNCHANGED <<loopOf, turn, out, active>>
    BY <1>3 DEF ChunkArrives
  <2>2. /\ active' \in [Tenants -> Calls \cup {NoCall}]
        /\ \A t \in Tenants : active[t] # NoCall => active'[t] # NoCall
    BY <1>a, <2>1
  <2> QED BY <2>1, <2>2, ChunkChanges
<1>4. ASSUME NEW c \in Calls, NEW i \in DOMAIN chunk[c], ChunkFails(c, i) PROVE TenantsIInv'
  <2>1. /\ chunk[c][i] \in {"sent", "served"} /\ chunk' = [chunk EXCEPT ![c][i] = "failed"]
        /\ UNCHANGED <<loopOf, turn, out, active>>
    BY <1>4 DEF ChunkFails
  <2>2. /\ active' \in [Tenants -> Calls \cup {NoCall}]
        /\ \A t \in Tenants : active[t] # NoCall => active'[t] # NoCall
    BY <1>a, <2>1
  <2> QED BY <2>1, <2>2, ChunkChanges
<1>5. ASSUME NEW c \in Calls, Take(c) PROVE TenantsIInv'
  <2> DEFINE i == turn[c]
  <2>1. /\ loopOf[c] = "waiting" /\ i \in DOMAIN chunk[c] /\ chunk[c][i] = "answered"
        /\ out' = [out EXCEPT ![c] = @ \o Slice(c, i)] /\ turn' = [turn EXCEPT ![c] = i + 1]
        /\ UNCHANGED <<loopOf, chunk, active>>
    BY <1>5 DEF Take, Awaited
  <2>2. /\ i \in 1..ChunksOf(c) /\ i \in 1..Len(chunk[c]) /\ i \in Nat /\ Begun(c)
        /\ out[c] = SubSeq(TenantsOf[c], 1, EndOf(c, i - 1))
        /\ \A k \in 1..(i - 1) : chunk[c][k] = "answered"
    <3>1. i \in 1..Len(chunk[c])
      BY <1>a, <2>1
    <3> QED BY <1>0, <2>1, <3>1 DEF ChunksSent, TurnsFounded, Begun
  <2>3. /\ TenantsOf[c] \in Seq(Tenants) /\ Len(TenantsOf[c]) \in Nat /\ ChunksOf(c) \in Nat
        /\ EndOf(c, i - 1) \in 0..Len(TenantsOf[c])
        /\ EndOf(c, i) \in EndOf(c, i - 1)..Len(TenantsOf[c])
        /\ Slice(c, i) = SubSeq(TenantsOf[c], EndOf(c, i - 1) + 1, EndOf(c, i))
        /\ Slice(c, i) \in Seq(Tenants)
    BY <2>2, EndsAre, SliceWithin
  <2>4. out[c] \o Slice(c, i) = SubSeq(TenantsOf[c], 1, EndOf(c, i))
    <3> DEFINE T == TenantsOf[c]
               a == EndOf(c, i - 1)
               b == EndOf(c, i)
    <3>1. /\ T \in Seq(Tenants) /\ 1 \in 1 .. Len(T) + 1 /\ a \in 1 - 1 .. Len(T) /\ b \in a .. Len(T)
      BY <2>3
    <3>2. out[c] = SubSeq(T, 1, a) /\ Slice(c, i) = SubSeq(T, a + 1, b)
      BY <2>2, <2>3
    <3> HIDE DEF T, a, b
    <3>3. SubSeq(T, 1, a) \o SubSeq(T, a + 1, b) = SubSeq(T, 1, b)
      BY <3>1, ConcatAdjacentSubSeq
    <3> QED BY <3>2, <3>3 DEF T, b
  <2>5. \A d \in Calls : /\ turn'[d] = IF d = c THEN i + 1 ELSE turn[d]
                         /\ out'[d] = IF d = c THEN out[c] \o Slice(c, i) ELSE out[d]
    BY <1>a, <2>1
  <2>6. out[c] \o Slice(c, i) \in Seq(Tenants)
    BY <1>a, <2>3
  <2> DEFINE more == out[c] \o Slice(c, i)
  <2>7. TenantsTypeOK'
    <3>1. turn' \in [Calls -> Nat]
      BY <1>a, <2>1, <2>2
    <3>2. out' \in [Calls -> Seq(Tenants)]
      <4>1. out' = [out EXCEPT ![c] = more] /\ more \in Seq(Tenants)
        BY <2>1, <2>6
      <4> HIDE DEF more
      <4> QED BY <1>a, <4>1
    <3> QED BY <1>0, <2>1, <3>1, <3>2 DEF TenantsTypeOK
  <2>8. TurnsFounded'
    <3> SUFFICES ASSUME NEW d \in Calls
                 PROVE  /\ turn'[d] \in 1..(ChunksOf(d) + 1)
                        /\ ~Begun(d) => turn'[d] = 1
                        /\ out'[d] = SubSeq(TenantsOf[d], 1, EndOf(d, turn'[d] - 1))
                        /\ \A k \in 1..(turn'[d] - 1) : chunk[d][k] = "answered"
      BY <2>1 DEF TurnsFounded, Begun, EndOf
    <3>1. CASE d = c
      <4>1. turn'[c] = i + 1 /\ (i + 1) - 1 = i
        BY <2>2, <2>5
      <4>2. out'[c] = more
        BY <2>5, Zenon
      <4>3. \A k \in 1..i : chunk[c][k] = "answered"
        BY <2>1, <2>2
      <4>4. turn'[c] \in 1..(ChunksOf(c) + 1) /\ Begun(c)
        BY <2>2, <2>3, <4>1
      <4>5. out'[c] = SubSeq(TenantsOf[c], 1, EndOf(c, turn'[c] - 1))
        BY <2>4, <4>1, <4>2, Zenon
      <4>6. \A k \in 1..(turn'[c] - 1) : chunk[c][k] = "answered"
        BY <4>1, <4>3, Zenon
      <4> QED BY <3>1, <4>4, <4>5, <4>6, Zenon
    <3>2. CASE d # c
      BY <1>0, <2>5, <3>2 DEF TurnsFounded
    <3> QED BY <3>1, <3>2
  <2>9. TakenApplied'
    <3> SUFFICES ASSUME NEW d \in Calls, NEW j \in 1..EndOf(d, turn'[d] - 1)
                 PROVE  active[TenantsOf[d][j]] # NoCall
      BY <2>1 DEF TakenApplied, EndOf
    <3>1. CASE d = c
      <4>1. j \in 1..EndOf(c, i)
        <5>1. turn'[c] = i + 1 /\ (i + 1) - 1 = i
          BY <2>2, <2>5
        <5> QED BY <3>1, <5>1
      <4>2. j \in 1..EndOf(c, i - 1) \/ j \in EndOf(c, i - 1) + 1 .. EndOf(c, i)
        BY <2>3, <4>1
      <4> QED BY <1>0, <2>1, <2>2, <3>1, <4>2 DEF TakenApplied, ServedApplied
    <3>2. CASE d # c
      BY <1>0, <2>5, <3>2 DEF TakenApplied
    <3> QED BY <3>1, <3>2
  <2>10. ChunksSent'
    BY <1>0, <2>1 DEF ChunksSent, Begun, ChunksOf
  <2>12. ServedApplied'
    BY <1>0, <2>1 DEF ServedApplied, EndOf
  <2>11. EndsFounded'
    BY <1>0, <2>1, <2>5 DEF EndsFounded
  <2> QED BY <2>7, <2>8, <2>9, <2>10, <2>11, <2>12 DEF TenantsIInv
<1>6. ASSUME NEW c \in Calls, LoopEnd(c) PROVE TenantsIInv'
  <2>1. /\ loopOf[c] = "waiting" /\ UNCHANGED <<chunk, turn, out, active>>
        /\ \/ turn[c] > Len(chunk[c]) /\ loopOf' = [loopOf EXCEPT ![c] = "resolved"]
           \/ /\ turn[c] <= Len(chunk[c]) /\ chunk[c][turn[c]] = "failed"
              /\ loopOf' = [loopOf EXCEPT ![c] = "rejected"]
    BY <1>6 DEF LoopEnd
  <2>2. /\ Len(chunk[c]) = ChunksOf(c) /\ turn[c] \in 1..(ChunksOf(c) + 1) /\ ChunksOf(c) \in Nat
    BY <1>0, <2>1, EndsAre DEF ChunksSent, TurnsFounded, Begun
  <2>3. \A d \in Calls : (Begun(d)' <=> Begun(d)) /\ (d # c => loopOf'[d] = loopOf[d])
    BY <1>a, <2>1 DEF Begun
  <2>4. TenantsTypeOK'
    BY <1>0, <2>1 DEF TenantsTypeOK
  <2>5. ChunksSent'
    BY <1>0, <2>1, <2>3 DEF ChunksSent, ChunksOf
  <2>7. TurnsFounded'
    BY <1>0, <2>1, <2>3 DEF TurnsFounded, EndOf, ChunksOf
  <2>8. ServedApplied'
    BY <1>0, <2>1 DEF ServedApplied, EndOf
  <2>9. TakenApplied'
    BY <1>0, <2>1 DEF TakenApplied, EndOf
  <2>6. EndsFounded'
    BY <1>0, <1>a, <2>1, <2>2, <2>3 DEF EndsFounded
  <2> QED BY <2>4, <2>5, <2>6, <2>7, <2>8, <2>9 DEF TenantsIInv
<1>7. CASE UNCHANGED tenantsVars
  <2>1. UNCHANGED <<loopOf, chunk, turn, out, active>>
    BY <1>7 DEF tenantsVars
  <2>2. TenantsTypeOK' /\ ChunksSent'
    BY <1>0, <2>1 DEF TenantsTypeOK, ChunksSent, Begun, ChunksOf
  <2>3. TurnsFounded'
    BY <1>0, <2>1 DEF TurnsFounded, Begun, EndOf, ChunksOf
  <2>4. ServedApplied'
    BY <1>0, <2>1 DEF ServedApplied, EndOf
  <2>5. TakenApplied'
    BY <1>0, <2>1 DEF TakenApplied, EndOf
  <2>6. EndsFounded'
    BY <1>0, <2>1 DEF EndsFounded, ChunksOf
  <2> QED BY <2>2, <2>3, <2>4, <2>5, <2>6 DEF TenantsIInv
<1> QED BY <1>1, <1>2, <1>3, <1>4, <1>5, <1>6, <1>7 DEF TenantsNext

LEMMA TenantsInvariant == TenantsSpec => []TenantsIInv
BY TenantsInitIInv, TenantsNextIInv, PTL DEF TenantsSpec

\* An update of tenants that resolves returns the tenants it was given, in their
\* order, all of them changed; one that rejects applied every chunk before the
\* one that failed, whatever the order of the answers and the size of the
\* chunks (update, Serialize.tenants).
THEOREM UpdatesAnswerTruly == TenantsSpec => []UpdateAnswersTruly
<1>1. TenantsIInv => ResolvedMeansAll
  <2> SUFFICES ASSUME TenantsIInv, NEW c \in Calls, loopOf[c] = "resolved"
               PROVE  /\ out[c] = TenantsOf[c]
                      /\ \A t \in ToSet(TenantsOf[c]) : active[t] # NoCall
                      /\ \A i \in DOMAIN chunk[c] : chunk[c][i] = "answered"
    BY DEF ResolvedMeansAll
  <2>1. /\ TenantsOf[c] \in Seq(Tenants) /\ ChunksOf(c) \in Nat /\ Len(TenantsOf[c]) \in Nat
        /\ EndOf(c, ChunksOf(c)) = Len(TenantsOf[c])
    BY EndsAre
  <2>2. turn[c] = ChunksOf(c) + 1 /\ turn[c] - 1 = ChunksOf(c) /\ Len(chunk[c]) = ChunksOf(c)
    BY <2>1 DEF TenantsIInv, EndsFounded, ChunksSent, Begun
  <2>3. out[c] = TenantsOf[c]
    <3>1. out[c] = SubSeq(TenantsOf[c], 1, Len(TenantsOf[c]))
      BY <2>1, <2>2 DEF TenantsIInv, TurnsFounded
    <3> QED BY <2>1, <3>1, SubSeqFull
  <2>4. \A j \in 1..Len(TenantsOf[c]) : active[TenantsOf[c][j]] # NoCall
    BY <2>1, <2>2 DEF TenantsIInv, TakenApplied
  <2>5. \A t \in ToSet(TenantsOf[c]) : active[t] # NoCall
    BY <2>1, <2>4 DEF ToSet
  <2>6. DOMAIN chunk[c] = 1..ChunksOf(c)
    BY <2>2 DEF TenantsIInv, TenantsTypeOK
  <2> QED BY <2>2, <2>3, <2>5, <2>6 DEF TenantsIInv, TurnsFounded
<1>2. TenantsIInv => RejectedAtFirstFailure
  <2> SUFFICES ASSUME TenantsIInv, NEW c \in Calls, loopOf[c] = "rejected"
               PROVE  /\ chunk[c][turn[c]] = "failed"
                      /\ \A i \in 1..(turn[c] - 1) : chunk[c][i] = "answered"
                      /\ IsStrictPrefix(out[c], TenantsOf[c])
    BY DEF RejectedAtFirstFailure
  <2>1. turn[c] \in 1..ChunksOf(c) /\ chunk[c][turn[c]] = "failed"
    BY EndsAre DEF TenantsIInv, EndsFounded, TurnsFounded
  <2> DEFINE T == TenantsOf[c]
             a == EndOf(c, turn[c] - 1)
             o == out[c]
  <2>2. T \in Seq(Tenants) /\ a \in 0..Len(T) /\ a < Len(T) /\ Len(T) \in Nat
    BY <2>1, EndsAre
  <2>3. o = SubSeq(T, 1, a)
    BY DEF TenantsIInv, TurnsFounded
  <2> HIDE DEF T, a, o
  <2>4. Len(o) = a
    BY <2>2, <2>3
  <2>5. o \in Seq(Tenants)
    BY <2>2, <2>3
  <2>6. IsPrefix(o, T)
    <3>1. SubSeq(o, 1, Len(o)) = o
      BY <2>5, SubSeqFull
    <3> QED BY <2>2, <2>3, <2>4, <3>1 DEF IsPrefix
  <2>7. o # T
    BY <2>2, <2>4
  <2>8. IsStrictPrefix(out[c], TenantsOf[c])
    BY <2>6, <2>7 DEF IsStrictPrefix, o, T
  <2> QED BY <2>1, <2>8 DEF TenantsIInv, TurnsFounded
<1> QED BY <1>1, <1>2, TenantsInvariant, PTL DEF UpdateAnswersTruly

-----------------------------------------------------------------------------
(***************************************************************************)
(* Config: what a merge makes of a schema.                                 *)
(***************************************************************************)
AtMostOne(S) == \A x, y \in S : x = y

SoundSchema(s) ==
  /\ \A v \in Vectors \ FlatVectors : AtMostOne(s.quantizers[v])
  /\ \A v \in FlatVectors : ~({"pq", "bq"} \subseteq s.quantizers[v])
  /\ AtMostOne(s.modules) /\ Azure \notin s.modules

\* The name under which the generative module of an update is stored.
StoredModule(u) == IF Generative[u] = Azure THEN OpenAI ELSE Generative[u]

\* Kept, of any schema.
KeptIn(s, u, others) ==
  /\ \A x \in Mentions[u] : s.settings[x] = u \/ \E v \in others : x \in Mentions[v]
  /\ Generative[u] # NoModule =>
       \/ StoredModule(u) \in s.modules
       \/ \E v \in others : Generative[v] \notin {NoModule, Generative[u]}
  /\ Enables(u) => QuantizerOf[u] \in s.quantizers[VectorOf[u]]

LEMMA SingleSets ==
  ASSUME NEW S
  PROVE  /\ IsFiniteSet(S) /\ Cardinality(S) <= 1 => AtMostOne(S)
         /\ AtMostOne(S) => Cardinality(S) <= 1
<1>1. ASSUME IsFiniteSet(S), Cardinality(S) <= 1 PROVE AtMostOne(S)
  <2>1. Cardinality(S) \in Nat
    BY <1>1, FS_CardinalityType
  <2>2. Cardinality(S) = 0 \/ Cardinality(S) = 1
    BY <1>1, <2>1
  <2>3. S = {} \/ \E x : S = {x}
    BY <1>1, <2>2, FS_EmptySet, FS_Singleton
  <2> QED BY <2>3 DEF AtMostOne
<1>2. ASSUME AtMostOne(S) PROVE Cardinality(S) <= 1
  <2>1. S = {} \/ \E x : S = {x}
    BY <1>2 DEF AtMostOne
  <2>2. Cardinality(S) = 0 \/ Cardinality(S) = 1
    BY <2>1, FS_EmptySet, FS_Singleton, Zenon
  <2> QED BY <2>2
<1> QED BY <1>1, <1>2

LEMMA MergeIs ==
  ASSUME NEW s \in Schemas, NEW u \in Updaters
  PROVE  /\ Merge(s, u) \in Schemas
         /\ \A x \in Settings : Merge(s, u).settings[x] = IF x \in Mentions[u] THEN u ELSE s.settings[x]
         /\ Merge(s, u).modules = IF Generative[u] = NoModule THEN s.modules
                                  ELSE MergeGenerative(s.modules, u)
         /\ \A v \in Vectors : Merge(s, u).quantizers[v]
                                 = IF Enables(u) /\ v = VectorOf[u]
                                   THEN s.quantizers[v] \cup {QuantizerOf[u]} ELSE s.quantizers[v]
<1>1. /\ s.settings \in [Settings -> Updaters \cup {Unset}]
      /\ s.modules \in SUBSET ({Generative[w] : w \in Updaters} \cup {OpenAI})
      /\ s.quantizers \in [Vectors -> SUBSET ({QuantizerOf[w] : w \in Updaters}
                                              \cup UNION {FirstQuantizer[v] : v \in Vectors})]
  BY DEF Schemas
<1>2. /\ Merge(s, u).settings = MergeSettings(s.settings, u)
      /\ Merge(s, u).modules = IF Generative[u] = NoModule THEN s.modules
                               ELSE MergeGenerative(s.modules, u)
      /\ Merge(s, u).quantizers = IF Enables(u)
           THEN [s.quantizers EXCEPT ![VectorOf[u]] = @ \cup {QuantizerOf[u]}]
           ELSE s.quantizers
      /\ DOMAIN Merge(s, u) = {"settings", "modules", "quantizers"}
  BY DEF Merge
<1>3. /\ MergeSettings(s.settings, u) \in [Settings -> Updaters \cup {Unset}]
      /\ \A x \in Settings : MergeSettings(s.settings, u)[x]
                               = IF x \in Mentions[u] THEN u ELSE s.settings[x]
  BY <1>1 DEF MergeSettings
<1>4. MergeGenerative(s.modules, u) \in SUBSET ({Generative[w] : w \in Updaters} \cup {OpenAI})
  BY <1>1 DEF MergeGenerative
<1>5. /\ Merge(s, u).quantizers \in [Vectors -> SUBSET ({QuantizerOf[w] : w \in Updaters}
                                                  \cup UNION {FirstQuantizer[v] : v \in Vectors})]
      /\ \A v \in Vectors : Merge(s, u).quantizers[v]
                              = IF Enables(u) /\ v = VectorOf[u]
                                THEN s.quantizers[v] \cup {QuantizerOf[u]} ELSE s.quantizers[v]
  <2>1. CASE Enables(u)
    BY <1>1, <1>2, <2>1 DEF Enables, UpdatesVector
  <2>2. CASE ~Enables(u)
    BY <1>1, <1>2, <2>2
  <2> QED BY <2>1, <2>2
<1>6. Merge(s, u) \in Schemas
  BY <1>1, <1>2, <1>3, <1>4, <1>5 DEF Schemas, Merge
<1> QED BY <1>2, <1>3, <1>5, <1>6

\* The generative module named replaces the other.
LEMMA ModulesAre ==
  ASSUME NEW modules, AtMostOne(modules), Azure \notin modules, NEW u \in Updaters
  PROVE  MergeGenerative(modules, u) = {StoredModule(u)}
<1> DEFINE others == {m \in modules : m # Generative[u]}
           left == IF others = {} THEN modules ELSE modules \ {CHOOSE m \in others : TRUE}
<1>1. MergeGenerative(modules, u) = left \cup {StoredModule(u)}
  BY DEF MergeGenerative, StoredModule
<1>2. left \subseteq {StoredModule(u)}
  <2>1. CASE others = {}
    BY <2>1 DEF StoredModule
  <2>2. CASE others # {}
    <3>1. (CHOOSE m \in others : TRUE) \in others
      BY <2>2
    <3> QED BY <2>2, <3>1 DEF AtMostOne
  <2> QED BY <2>1, <2>2
<1> QED BY <1>1, <1>2

\* A merge that does not throw leaves a sound schema sound.
LEMMA MergeSound ==
  ASSUME NEW s \in Schemas, NEW u \in Updaters, SoundSchema(s), ~Refused(s, u)
  PROVE  SoundSchema(Merge(s, u))
<1>1. ASSUME NEW v \in Vectors \ FlatVectors PROVE AtMostOne(Merge(s, u).quantizers[v])
  <2>1. v \in Vectors /\ AtMostOne(s.quantizers[v])
    BY <1>1 DEF SoundSchema
  <2>2. CASE Enables(u) /\ v = VectorOf[u]
    <3>1. \A q \in s.quantizers[v] : q = QuantizerOf[u]
      BY <2>2 DEF Refused, HasOtherQuantizer, Enables
    <3>2. Merge(s, u).quantizers[v] = s.quantizers[v] \cup {QuantizerOf[u]}
      BY <2>1, <2>2, MergeIs
    <3> QED BY <3>1, <3>2 DEF AtMostOne
  <2>3. CASE ~(Enables(u) /\ v = VectorOf[u])
    <3>1. Merge(s, u).quantizers[v] = s.quantizers[v]
      BY <2>1, <2>3, MergeIs
    <3> QED BY <2>1, <3>1
  <2> QED BY <2>2, <2>3
<1>2. ASSUME NEW v \in FlatVectors PROVE ~({"pq", "bq"} \subseteq Merge(s, u).quantizers[v])
  <2>1. v \in Vectors /\ ~({"pq", "bq"} \subseteq s.quantizers[v])
    BY <1>2, UpdatersAssumption DEF SoundSchema
  <2>2. CASE Enables(u) /\ v = VectorOf[u]
    <3>1. QuantizerOf[u] = "bq" /\ UpdatesVector(u) /\ VectorOf[u] \in FlatVectors
      BY <2>2 DEF Enables
    <3>2. "pq" \notin s.quantizers[v]
      <4>1. "pq" # "bq" /\ {"pq", QuantizerOf[u]} = {"pq", "bq"}
        BY <3>1
      <4> QED BY <2>2, <3>1, <4>1 DEF Refused, HasOtherQuantizer
    <3>3. Merge(s, u).quantizers[v] = s.quantizers[v] \cup {"bq"}
      BY <2>1, <2>2, <3>1, MergeIs
    <3> QED BY <3>2, <3>3
  <2>3. CASE ~(Enables(u) /\ v = VectorOf[u])
    <3>1. Merge(s, u).quantizers[v] = s.quantizers[v]
      BY <2>1, <2>3, MergeIs
    <3> QED BY <2>1, <3>1
  <2> QED BY <2>2, <2>3
<1>3. AtMostOne(Merge(s, u).modules) /\ Azure \notin Merge(s, u).modules
  <2>1. CASE Generative[u] = NoModule
    BY <2>1, MergeIs DEF SoundSchema
  <2>2. CASE Generative[u] # NoModule
    <3>1. Merge(s, u).modules = {StoredModule(u)}
      BY <2>2, MergeIs, ModulesAre DEF SoundSchema
    <3> QED BY <3>1 DEF AtMostOne, StoredModule, Azure, OpenAI
  <2> QED BY <2>1, <2>2
<1> QED BY <1>1, <1>2, <1>3 DEF SoundSchema

\* It shows what the update asks for, and keeps what earlier ones asked for.
LEMMA MergeShows ==
  ASSUME NEW s \in Schemas, NEW u \in Updaters
  PROVE  KeptIn(Merge(s, u), u, {})
<1>1. StoredModule(u) \in MergeGenerative(s.modules, u)
  BY DEF MergeGenerative, StoredModule
<1>2. Mentions[u] \subseteq Settings
  BY UpdatersAssumption
<1>3. \A x \in Mentions[u] : Merge(s, u).settings[x] = u
  BY <1>2, MergeIs
<1>4. Generative[u] # NoModule => StoredModule(u) \in Merge(s, u).modules
  BY <1>1, MergeIs
<1>5. ASSUME Enables(u) PROVE QuantizerOf[u] \in Merge(s, u).quantizers[VectorOf[u]]
  <2>1. VectorOf[u] \in Vectors
    BY <1>5 DEF Enables, UpdatesVector
  <2>2. Merge(s, u).quantizers[VectorOf[u]] = s.quantizers[VectorOf[u]] \cup {QuantizerOf[u]}
    BY <1>5, <2>1, MergeIs
  <2> QED BY <2>2
<1> QED BY <1>3, <1>4, <1>5 DEF KeptIn

LEMMA MergeKeeps ==
  ASSUME NEW s \in Schemas, NEW u \in Updaters, NEW w \in Updaters, NEW others,
         KeptIn(s, w, others)
  PROVE  KeptIn(Merge(s, u), w, others \cup {u})
<1> DEFINE m == Merge(s, u)
<1>1. ASSUME NEW x \in Mentions[w]
      PROVE  m.settings[x] = w \/ \E v \in others \cup {u} : x \in Mentions[v]
  <2>1. x \in Settings
    BY UpdatersAssumption
  <2> QED BY <2>1, MergeIs DEF KeptIn
<1>2. ASSUME Generative[w] # NoModule
      PROVE  \/ StoredModule(w) \in m.modules
             \/ \E v \in others \cup {u} : Generative[v] \notin {NoModule, Generative[w]}
  <2>1. CASE Generative[u] = NoModule
    BY <1>2, <2>1, MergeIs DEF KeptIn
  <2>2. CASE Generative[u] = Generative[w]
    <3>1. StoredModule(w) \in MergeGenerative(s.modules, u)
      BY <2>2 DEF MergeGenerative, StoredModule
    <3> QED BY <1>2, <2>2, <3>1, MergeIs
  <2>3. CASE Generative[u] \notin {NoModule, Generative[w]}
    BY <2>3
  <2> QED BY <2>1, <2>2, <2>3
<1>3. ASSUME Enables(w) PROVE QuantizerOf[w] \in m.quantizers[VectorOf[w]]
  <2>1. VectorOf[w] \in Vectors /\ QuantizerOf[w] \in s.quantizers[VectorOf[w]]
    BY <1>3 DEF Enables, UpdatesVector, KeptIn
  <2>2. \A v \in Vectors : s.quantizers[v] \subseteq m.quantizers[v]
    <3> SUFFICES ASSUME NEW v \in Vectors PROVE s.quantizers[v] \subseteq m.quantizers[v]
      OBVIOUS
    <3>1. CASE Enables(u) /\ v = VectorOf[u]
      <4>1. m.quantizers[v] = s.quantizers[v] \cup {QuantizerOf[u]}
        BY <3>1, MergeIs
      <4> QED BY <4>1
    <3>2. CASE ~(Enables(u) /\ v = VectorOf[u])
      <4>1. m.quantizers[v] = s.quantizers[v]
        BY <3>2, MergeIs
      <4> QED BY <4>1
    <3> QED BY <3>1, <3>2
  <2> QED BY <2>1, <2>2
<1> QED BY <1>1, <1>2, <1>3 DEF KeptIn

-----------------------------------------------------------------------------
(***************************************************************************)
(* Config: every schema that a call holds, and the one in Weaviate, is     *)
(* sound and shows the writes before it, as far as none of them was put    *)
(* back.  Such a schema is known by the number of writes it has seen.      *)
(***************************************************************************)
Later(w, i, n) == {w[j] : j \in (i + 1)..n}

\* One of the writes w after the i-th had not read it.
PutBack(w, read, i, n) == \E v \in Later(w, i, n) : w[i] \notin read[v]

\* s shows the first n of the writes w, but for those of more.
ShowsFirst(s, w, read, n, more) ==
  \A i \in 1..n : KeptIn(s, w[i], Later(w, i, n) \cup more) \/ PutBack(w, read, i, n)

SchemaShows == ShowsFirst(schema, written, seen, Len(written), {})

CopyShows ==
  \A u \in Updaters : update[u] \in {"read", "writing"} =>
    /\ SoundSchema(copy[u])
    /\ \E n \in 0..Len(written) :
         /\ seen[u] = {written[j] : j \in 1..n}
         /\ update[u] = "read" => ShowsFirst(copy[u], written, seen, n, {})
         /\ update[u] = "writing" => ShowsFirst(copy[u], written, seen, n, {u})
    /\ update[u] = "writing" => KeptIn(copy[u], u, {})

WrittenOnce ==
  /\ \A u \in Updaters : update[u] \in {"idle", "reading", "read", "writing"} =>
       \A i \in 1..Len(written) : written[i] # u
  /\ \A i, j \in 1..Len(written) : written[i] = written[j] => i = j

ConfigIInv ==
  ConfigTypeOK /\ SoundSchema(schema) /\ SchemaShows /\ CopyShows /\ WrittenOnce

LEMMA NewSchemaSound == NewSchema \in Schemas /\ SoundSchema(NewSchema)
<1>1. FirstQuantizer \in [Vectors -> SUBSET ({QuantizerOf[u] : u \in Updaters}
                                            \cup UNION {FirstQuantizer[v] : v \in Vectors})]
  BY UpdatersAssumption
<1>2. [s \in Settings |-> Unset] \in [Settings -> Updaters \cup {Unset}]
  OBVIOUS
<1>3. NewSchema \in Schemas
  BY <1>1, <1>2 DEF NewSchema, Schemas
<1>4. \A v \in Vectors : AtMostOne(NewSchema.quantizers[v])
  BY UpdatersAssumption, SingleSets DEF NewSchema
<1>5. \A v \in FlatVectors : ~({"pq", "bq"} \subseteq NewSchema.quantizers[v])
  BY <1>4, UpdatersAssumption DEF AtMostOne
<1> QED BY <1>3, <1>4, <1>5 DEF SoundSchema, AtMostOne, NewSchema

LEMMA ConfigInitIInv == ConfigInit => ConfigIInv
<1> SUFFICES ASSUME ConfigInit PROVE ConfigIInv
  OBVIOUS
<1>1. ConfigTypeOK
  BY NewSchemaSound, UpdatersAssumption DEF ConfigInit, ConfigTypeOK
<1>2. Len(written) = 0
  BY DEF ConfigInit
<1>3. SchemaShows /\ CopyShows /\ WrittenOnce
  BY <1>2 DEF ConfigInit, SchemaShows, ShowsFirst, CopyShows, WrittenOnce
<1> QED BY <1>1, <1>3, NewSchemaSound DEF ConfigIInv, ConfigInit

\* What a schema shows depends on the first writes and on what they had read.
LEMMA ShowsAlike ==
  ASSUME NEW s, NEW w, NEW x, NEW read, NEW reads, NEW more, NEW n \in Nat,
         \A i \in 1..n : x[i] = w[i] /\ reads[w[i]] = read[w[i]],
         ShowsFirst(s, w, read, n, more)
  PROVE  ShowsFirst(s, x, reads, n, more)
<1> SUFFICES ASSUME NEW i \in 1..n
             PROVE  KeptIn(s, x[i], Later(x, i, n) \cup more) \/ PutBack(x, reads, i, n)
  BY DEF ShowsFirst
<1>1. \A j \in (i + 1)..n : j \in 1..n
  OBVIOUS
<1>2. Later(x, i, n) = Later(w, i, n) /\ x[i] = w[i]
  BY <1>1, Zenon DEF Later
<1>3. \A v \in Later(w, i, n) : reads[v] = read[v]
  BY <1>1, Zenon DEF Later
<1>4. KeptIn(s, w[i], Later(w, i, n) \cup more) \/ PutBack(w, read, i, n)
  BY Zenon DEF ShowsFirst
<1>5. PutBack(w, read, i, n) => PutBack(x, reads, i, n)
  BY <1>2, <1>3, Zenon DEF PutBack
<1> QED BY <1>2, <1>4, <1>5, Zenon

\* A call that neither reads nor writes does not change what schemas show.
LEMMA KeepsShowing ==
  ASSUME ConfigIInv, UNCHANGED <<schema, written, seen>>, ConfigTypeOK', CopyShows',
         \A u \in Updaters : update'[u] \in {"idle", "reading", "read", "writing"} =>
                               update[u] \in {"idle", "reading", "read", "writing"}
  PROVE  ConfigIInv'
<1>1. SchemaShows'
  BY DEF ConfigIInv, SchemaShows
<1>2. WrittenOnce'
  BY DEF ConfigIInv, WrittenOnce
<1> QED BY <1>1, <1>2 DEF ConfigIInv

LEMMA CopiesKeepShowing ==
  ASSUME CopyShows, UNCHANGED <<copy, schema, written, seen>>,
         \A u \in Updaters : update'[u] \in {"read", "writing"} => update[u] = update'[u]
  PROVE  CopyShows'
BY DEF CopyShows

\* A merged schema shows what the one it was read from showed, and the update.
LEMMA MergeShowsFirst ==
  ASSUME ConfigTypeOK, NEW s \in Schemas, NEW u \in Updaters, NEW n \in 0..Len(written),
         ShowsFirst(s, written, seen, n, {})
  PROVE  ShowsFirst(Merge(s, u), written, seen, n, {u})
<1> SUFFICES ASSUME NEW i \in 1..n, ~PutBack(written, seen, i, n)
             PROVE  KeptIn(Merge(s, u), written[i], Later(written, i, n) \cup {u})
  BY DEF ShowsFirst
<1>1. written[i] \in Updaters
  BY DEF ConfigTypeOK
<1>2. KeptIn(s, written[i], Later(written, i, n) \cup {})
  BY DEF ShowsFirst
<1>3. KeptIn(s, written[i], Later(written, i, n))
  BY <1>2
<1> QED BY <1>1, <1>3, MergeKeeps

\* Once it is written, the schema shows every write so far.
LEMMA WriteShows ==
  ASSUME ConfigIInv, NEW u \in Updaters, Write(u)
  PROVE  SchemaShows'
<1> DEFINE N == Len(written)
           x == written'
<1>1. /\ update[u] = "writing" /\ schema' = copy[u] /\ written' = Append(written, u)
      /\ seen' = seen /\ written \in Seq(Updaters)
  BY DEF Write, Goes, ConfigIInv, ConfigTypeOK
<1>2. /\ N \in Nat /\ Len(x) = N + 1 /\ x[N + 1] = u
      /\ \A i \in 1..N : x[i] = written[i]
  BY <1>1
<1>3. PICK n \in 0..N : /\ seen[u] = {written[j] : j \in 1..n}
                        /\ ShowsFirst(copy[u], written, seen, n, {u})
  BY <1>1 DEF ConfigIInv, CopyShows
<1>4. KeptIn(copy[u], u, {})
  BY <1>1 DEF ConfigIInv, CopyShows
<1>a. SUFFICES ShowsFirst(copy[u], x, seen, N + 1, {})
  BY <1>1, <1>2 DEF SchemaShows
<1> HIDE DEF x
<1>b. SUFFICES ASSUME NEW i \in 1..(N + 1)
               PROVE  KeptIn(copy[u], x[i], Later(x, i, N + 1)) \/ PutBack(x, seen, i, N + 1)
  <2>1. \A k \in 1..(N + 1) : Later(x, k, N + 1) \cup {} = Later(x, k, N + 1)
    OBVIOUS
  <2> QED BY <1>b, <2>1 DEF ShowsFirst
<1>c. \A j, k \in 1..N : written[j] = written[k] => j = k
  BY DEF ConfigIInv, WrittenOnce
<1> HIDE DEF N
<1>5. CASE i = N + 1
  <2>1. Later(x, i, N + 1) = {}
    BY <1>2, <1>5 DEF Later
  <2> QED BY <1>2, <1>4, <1>5, <2>1
<1>6. CASE i \in 1..N /\ i \notin 1..n
  <2>1. \A j \in 1..n : written[i] # written[j]
    BY <1>2, <1>3, <1>6, <1>c
  <2>2. x[i] \notin seen[u]
    BY <1>2, <1>3, <1>6, <2>1
  <2>3. u \in Later(x, i, N + 1)
    BY <1>2, <1>6 DEF Later
  <2> QED BY <2>2, <2>3 DEF PutBack
<1>7. CASE i \in 1..n
  <2>0. i \in Nat /\ n \in Nat /\ i <= n /\ n <= N
    BY <1>2, <1>3, <1>7
  <2>1. (i + 1)..n \subseteq (i + 1)..(N + 1) /\ N + 1 \in (i + 1)..(N + 1)
    BY <1>2, <2>0
  <2>2. \A j \in (i + 1)..n : x[j] = written[j]
    BY <1>2, <2>0
  <2>3. Later(written, i, n) \cup {u} \subseteq Later(x, i, N + 1) /\ x[i] = written[i]
    <3>1. x[N + 1] = u /\ x[i] = written[i]
      BY <1>2, <2>0
    <3> QED BY <2>1, <2>2, <3>1, Zenon DEF Later
  <2>4. CASE PutBack(written, seen, i, n)
    BY <2>3, <2>4 DEF PutBack
  <2>5. CASE KeptIn(copy[u], written[i], Later(written, i, n) \cup {u})
    BY <2>3, <2>5 DEF KeptIn
  <2> QED BY <1>3, <1>7, <2>4, <2>5 DEF ShowsFirst
<1> QED BY <1>2, <1>3, <1>5, <1>6, <1>7

LEMMA ConfigNextIInv == ConfigIInv /\ [ConfigNext]_configVars => ConfigIInv'
<1> SUFFICES ASSUME ConfigIInv, [ConfigNext]_configVars PROVE ConfigIInv'
  OBVIOUS
<1>0. ConfigTypeOK /\ SoundSchema(schema) /\ SchemaShows /\ CopyShows /\ WrittenOnce
  BY DEF ConfigIInv
<1>1. ASSUME NEW u \in Updaters, CallUpdate(u) PROVE ConfigIInv'
  <2>1. /\ update[u] = "idle" /\ update' = [update EXCEPT ![u] = "reading"]
        /\ UNCHANGED <<copy, schema, lost, written, seen>>
    BY <1>1 DEF CallUpdate, Goes
  <2>2. ConfigTypeOK'
    BY <1>0, <2>1 DEF ConfigTypeOK
  <2>3. \A w \in Updaters : update'[w] # update[w] => update[w] = "idle" /\ update'[w] = "reading"
    BY <1>0, <2>1 DEF ConfigTypeOK
  <2>4. CopyShows'
    BY <1>0, <2>1, <2>3, CopiesKeepShowing
  <2> QED BY <2>1, <2>2, <2>3, <2>4, KeepsShowing
<1>2. ASSUME NEW u \in Updaters, Read(u) PROVE ConfigIInv'
  <2>1. /\ update[u] = "reading" /\ update' = [update EXCEPT ![u] = "read"]
        /\ copy' = [copy EXCEPT ![u] = schema] /\ seen' = [seen EXCEPT ![u] = ToSet(written)]
        /\ UNCHANGED <<schema, lost, written>>
    BY <1>2 DEF Read, Goes
  <2>2. ToSet(written) = {written[j] : j \in 1..Len(written)} /\ ToSet(written) \subseteq Updaters
    BY <1>0 DEF ConfigTypeOK, ToSet
  <2>3. ConfigTypeOK'
    BY <1>0, <2>1, <2>2 DEF ConfigTypeOK
  <2>4. /\ \A w \in Updaters : w # u => /\ update'[w] = update[w] /\ copy'[w] = copy[w]
                                        /\ seen'[w] = seen[w]
        /\ update'[u] = "read" /\ copy'[u] = schema /\ seen'[u] = ToSet(written)
    BY <1>0, <2>1 DEF ConfigTypeOK
  <2>5. /\ Len(written) \in Nat /\ Len(written) \in 0..Len(written)
        /\ \A i \in 1..Len(written) : written[i] \in Updaters /\ written[i] # u
    BY <1>0, <2>1 DEF ConfigTypeOK, WrittenOnce
  <2>6. ASSUME NEW s, NEW n \in 0..Len(written), NEW more, ShowsFirst(s, written, seen, n, more)
        PROVE  ShowsFirst(s, written', seen', n, more)
    <3>1. \A i \in 1..n : written'[i] = written[i] /\ seen'[written[i]] = seen[written[i]]
      BY <2>1, <2>4, <2>5
    <3>2. n \in Nat
      OBVIOUS
    <3> QED BY <2>6, <3>1, <3>2, ShowsAlike
  <2>7. SchemaShows'
    BY <1>0, <2>1, <2>5, <2>6 DEF SchemaShows
  <2>8. CopyShows'
    <3> SUFFICES ASSUME NEW w \in Updaters, update'[w] \in {"read", "writing"}
                 PROVE  /\ SoundSchema(copy'[w])
                        /\ \E n \in 0..Len(written) :
                             /\ seen'[w] = {written[j] : j \in 1..n}
                             /\ update'[w] = "read" =>
                                  ShowsFirst(copy'[w], written', seen', n, {})
                             /\ update'[w] = "writing" =>
                                  ShowsFirst(copy'[w], written', seen', n, {w})
                        /\ update'[w] = "writing" => KeptIn(copy'[w], w, {})
      BY <2>1 DEF CopyShows
    <3>1. CASE w = u
      <4>1. ShowsFirst(schema, written', seen', Len(written), {})
        BY <1>0, <2>5, <2>6 DEF SchemaShows
      <4> QED BY <1>0, <2>2, <2>4, <2>5, <3>1, <4>1
    <3>2. CASE w # u
      <4>1. update'[w] = update[w] /\ copy'[w] = copy[w] /\ seen'[w] = seen[w]
        BY <2>4, <3>2
      <4>2. PICK n \in 0..Len(written) :
                  /\ seen[w] = {written[j] : j \in 1..n}
                  /\ update[w] = "read" => ShowsFirst(copy[w], written, seen, n, {})
                  /\ update[w] = "writing" => ShowsFirst(copy[w], written, seen, n, {w})
        BY <1>0, <4>1 DEF CopyShows
      <4>3. /\ update'[w] = "read" => ShowsFirst(copy'[w], written', seen', n, {})
            /\ update'[w] = "writing" => ShowsFirst(copy'[w], written', seen', n, {w})
        BY <2>6, <4>1, <4>2
      <4> QED BY <1>0, <4>1, <4>2, <4>3 DEF CopyShows
    <3> QED BY <3>1, <3>2
  <2>9. WrittenOnce'
    BY <1>0, <2>1, <2>4 DEF WrittenOnce
  <2> QED BY <1>0, <2>1, <2>3, <2>7, <2>8, <2>9 DEF ConfigIInv, SoundSchema
<1>3. ASSUME NEW u \in Updaters, MergeAndSend(u) PROVE ConfigIInv'
  <2>1. update[u] = "read" /\ UNCHANGED <<schema, lost, written, seen>>
    BY <1>3 DEF MergeAndSend, Goes
  <2>2. CASE update' = [update EXCEPT ![u] = "threw"] /\ UNCHANGED copy
    <3>1. ConfigTypeOK'
      BY <1>0, <2>1, <2>2 DEF ConfigTypeOK
    <3>2. /\ \A w \in Updaters : w # u => update'[w] = update[w]
          /\ update'[u] = "threw"
      BY <1>0, <2>2 DEF ConfigTypeOK
    <3>3. CopyShows'
      BY <1>0, <2>1, <2>2, <3>2, CopiesKeepShowing
    <3> QED BY <2>1, <3>1, <3>2, <3>3, KeepsShowing
  <2>3. CASE /\ ~Refused(copy[u], u) /\ update' = [update EXCEPT ![u] = "writing"]
             /\ copy' = [copy EXCEPT ![u] = Merge(copy[u], u)]
    <3>1. copy[u] \in Schemas /\ SoundSchema(copy[u]) /\ Merge(copy[u], u) \in Schemas
      BY <1>0, <2>1, MergeIs DEF ConfigTypeOK, CopyShows
    <3>2. ConfigTypeOK'
      BY <1>0, <2>1, <2>3, <3>1 DEF ConfigTypeOK
    <3>3. /\ \A w \in Updaters : w # u => update'[w] = update[w] /\ copy'[w] = copy[w]
          /\ update'[u] = "writing" /\ copy'[u] = Merge(copy[u], u)
      BY <1>0, <2>3 DEF ConfigTypeOK
    <3>4. CopyShows'
      <4> SUFFICES ASSUME NEW w \in Updaters, update'[w] \in {"read", "writing"}
                   PROVE  /\ SoundSchema(copy'[w])
                          /\ \E n \in 0..Len(written) :
                               /\ seen[w] = {written[j] : j \in 1..n}
                               /\ update'[w] = "read" =>
                                    ShowsFirst(copy'[w], written, seen, n, {})
                               /\ update'[w] = "writing" =>
                                    ShowsFirst(copy'[w], written, seen, n, {w})
                          /\ update'[w] = "writing" => KeptIn(copy'[w], w, {})
        BY <2>1 DEF CopyShows
      <4>1. CASE w = u
        <5>1. PICK n \in 0..Len(written) : /\ seen[u] = {written[j] : j \in 1..n}
                                           /\ ShowsFirst(copy[u], written, seen, n, {})
          BY <1>0, <2>1 DEF CopyShows
        <5>2. ShowsFirst(copy'[u], written, seen, n, {u})
          BY <1>0, <3>1, <3>3, <5>1, MergeShowsFirst
        <5>3. SoundSchema(copy'[u]) /\ KeptIn(copy'[u], u, {})
          BY <2>3, <3>1, <3>3, MergeSound, MergeShows
        <5> QED BY <3>3, <4>1, <5>1, <5>2, <5>3
      <4>2. CASE w # u
        BY <1>0, <3>3, <4>2 DEF CopyShows
      <4> QED BY <4>1, <4>2
    <3> QED BY <2>1, <3>2, <3>3, <3>4, KeepsShowing
  <2> QED BY <1>3, <2>2, <2>3 DEF MergeAndSend, Goes
<1>4. ASSUME NEW u \in Updaters, Write(u) PROVE ConfigIInv'
  <2>1. /\ update[u] = "writing" /\ update' = [update EXCEPT ![u] = "written"]
        /\ schema' = copy[u] /\ written' = Append(written, u) /\ UNCHANGED <<copy, lost, seen>>
    BY <1>4 DEF Write, Goes
  <2>2. ConfigTypeOK'
    BY <1>0, <2>1 DEF ConfigTypeOK
  <2>3. SoundSchema(schema)' /\ SchemaShows'
    BY <1>0, <1>4, <2>1, WriteShows DEF CopyShows, SoundSchema
  <2>4. /\ \A w \in Updaters : w # u => update'[w] = update[w]
        /\ update'[u] = "written"
    BY <1>0, <2>1 DEF ConfigTypeOK
  <2>5. /\ Len(written) \in Nat /\ Len(written') = Len(written) + 1
        /\ written'[Len(written) + 1] = u
        /\ \A i \in 1..Len(written) : written'[i] = written[i] /\ written[i] # u
    BY <1>0, <2>1 DEF ConfigTypeOK, WrittenOnce
  <2>6. WrittenOnce'
    BY <1>0, <2>4, <2>5 DEF WrittenOnce
  <2>7. CopyShows'
    <3> SUFFICES ASSUME NEW w \in Updaters, update'[w] \in {"read", "writing"}
                 PROVE  /\ SoundSchema(copy[w])
                        /\ \E n \in 0..Len(written') :
                             /\ seen[w] = {written'[j] : j \in 1..n}
                             /\ update'[w] = "read" =>
                                  ShowsFirst(copy[w], written', seen, n, {})
                             /\ update'[w] = "writing" =>
                                  ShowsFirst(copy[w], written', seen, n, {w})
                        /\ update'[w] = "writing" => KeptIn(copy[w], w, {})
      BY <2>1 DEF CopyShows
    <3>1. update[w] = update'[w]
      BY <2>4
    <3>2. PICK n \in 0..Len(written) :
                /\ seen[w] = {written[j] : j \in 1..n}
                /\ update[w] = "read" => ShowsFirst(copy[w], written, seen, n, {})
                /\ update[w] = "writing" => ShowsFirst(copy[w], written, seen, n, {w})
      BY <1>0, <3>1 DEF CopyShows
    <3>3. /\ n \in Nat /\ n \in 0..Len(written')
          /\ \A i \in 1..n : written'[i] = written[i]
      BY <2>5
    <3>4. seen[w] = {written'[j] : j \in 1..n}
      BY <3>2, <3>3, Zenon
    <3>5. /\ update'[w] = "read" => ShowsFirst(copy[w], written', seen, n, {})
          /\ update'[w] = "writing" => ShowsFirst(copy[w], written', seen, n, {w})
      BY <3>1, <3>2, <3>3, ShowsAlike
    <3> QED BY <1>0, <3>1, <3>3, <3>4, <3>5 DEF CopyShows
  <2> QED BY <2>2, <2>3, <2>6, <2>7 DEF ConfigIInv
<1>5. ASSUME NEW u \in Updaters, NEW to \in {"resolved", "failed"},
             update' = [update EXCEPT ![u] = to], lost' \in Nat,
             UNCHANGED <<copy, schema, written, seen>>
      PROVE  ConfigIInv'
  <2>1. ConfigTypeOK'
    BY <1>0, <1>5 DEF ConfigTypeOK
  <2>2. \A w \in Updaters : update'[w] = update[w] \/ update'[w] \in {"resolved", "failed"}
    BY <1>0, <1>5 DEF ConfigTypeOK
  <2>3. CopyShows'
    BY <1>0, <1>5, <2>2, CopiesKeepShowing
  <2> QED BY <1>5, <2>1, <2>2, <2>3, KeepsShowing
<1>6. ASSUME NEW u \in Updaters, Resolve(u) \/ RequestFails(u) PROVE ConfigIInv'
  <2>1. \E to \in {"resolved", "failed"} : update' = [update EXCEPT ![u] = to]
    BY <1>6 DEF Resolve, RequestFails, Goes
  <2>2. lost' \in Nat /\ UNCHANGED <<copy, schema, written, seen>>
    BY <1>0, <1>6 DEF Resolve, RequestFails, ConfigTypeOK
  <2> QED BY <1>5, <2>1, <2>2
<1>7. CASE UNCHANGED configVars
  <2>1. UNCHANGED <<update, copy, schema, lost, written, seen>>
    BY <1>7 DEF configVars
  <2>2. ConfigTypeOK'
    BY <1>0, <2>1 DEF ConfigTypeOK
  <2>3. CopyShows'
    BY <1>0, <2>1, CopiesKeepShowing
  <2> QED BY <2>1, <2>2, <2>3, KeepsShowing
<1> QED BY <1>1, <1>2, <1>3, <1>4, <1>6, <1>7 DEF ConfigNext

LEMMA ConfigInvariant == ConfigSpec => []ConfigIInv
BY ConfigInitIInv, ConfigNextIInv, PTL DEF ConfigSpec

\* However updates of a collection overlap, its schema has one quantizer for a
\* vector and one generative module, and shows what every written update asked
\* for, unless a later one asked for something else or had not read it
\* (ConfigClient.update, MergeWithExisting).
THEOREM MergesStaySound == ConfigSpec => []MergesAreSound
<1>1. ConfigIInv => OneOfEach
  BY SingleSets DEF ConfigIInv, SoundSchema, OneOfEach
<1>2. ConfigIInv => LostToOverlapOnly
  <2> SUFFICES ASSUME ConfigIInv, NEW i \in 1..Len(written),
                      NEW later, later = {written[j] : j \in (i + 1)..Len(written)}
               PROVE  Kept(written[i], later) \/ \E v \in later : ~After(v, written[i])
    <3>1. DOMAIN written = 1..Len(written)
      BY DEF ConfigIInv, ConfigTypeOK
    <3> QED BY <3>1, Zenon DEF LostToOverlapOnly
  <2>1. later = Later(written, i, Len(written)) /\ later = later \cup {}
    BY DEF Later
  <2>2. KeptIn(schema, written[i], later) \/ PutBack(written, seen, i, Len(written))
    BY <2>1 DEF ConfigIInv, SchemaShows, ShowsFirst
  <2>3. KeptIn(schema, written[i], later) => Kept(written[i], later)
    BY DEF KeptIn, Kept, StoredModule
  <2> QED BY <2>1, <2>2, <2>3 DEF PutBack, After
<1> QED BY <1>1, <1>2, ConfigInvariant, PTL DEF MergesAreSound

-----------------------------------------------------------------------------
(***************************************************************************)
(* Filter.  A chain has at most two references: the first is a FilterRef's *)
(* or FilterProperty's own, and the second, that byRef made, is shared and *)
(* nobody's first.                                                         *)
(***************************************************************************)
FirstsAmong(holders) == {holders[h].first : h \in DOMAIN holders}
OwnFirsts(holders) == \A g, h \in DOMAIN holders : holders[g].first = holders[h].first => g = h

\* The references that are nobody's first.
SharedIn(links, froms, props) == 1 .. Len(links) \ (FirstsAmong(froms) \cup FirstsAmong(props))

\* A holder's chain goes on with a shared reference if two or more were asked
\* for, or its FilterRef was used by byRef; and it has the links at both ends.
Shares(h) == h.used \/ Len(h.asked) > 1
ChainRight(h, links, next, shared) ==
  /\ h.asked # <<>> /\ h.first \in 1 .. Len(links) /\ links[h.first] = h.asked[1]
  /\ Shares(h) => next[h.first] \in shared
  /\ ~Shares(h) => next[h.first] \in {0, Leaf}
  /\ ~h.used /\ Len(h.asked) > 1 => links[next[h.first]] = h.asked[Len(h.asked)]

ChainsRight ==
  LET shared == SharedIn(linkOn, refs, properties)
  IN  /\ \A r \in DOMAIN refs :
           ChainRight(refs[r], linkOn, target, shared) /\ target[refs[r].first] # Leaf
      /\ \A p \in DOMAIN properties : ChainRight(properties[p], linkOn, target, shared)
      /\ \A i \in shared : target[i] \in {0, Leaf}

NoFirstTwice ==
  OwnFirsts(refs) /\ OwnFirsts(properties) /\ FirstsAmong(refs) \cap FirstsAmong(properties) = {}

\* A chain ends in a property only when a condition was made of it.
LeavesFounded ==
  /\ \A p \in DOMAIN properties : target[properties[p].first] = Leaf =>
       \E d \in DOMAIN conditions : conditions[d].by = p
  /\ \A i \in SharedIn(linkOn, refs, properties) : target[i] = Leaf =>
       \E d \in DOMAIN conditions : SharesChain(conditions[d].by)

FilterIInv == FilterTypeOK /\ NoFirstTwice /\ ChainsRight /\ LeavesFounded /\ FreshRefsWork

\* What the elements of a sequence are.
LEMMA ElementsOf ==
  ASSUME NEW S, NEW s \in Seq(S)
  PROVE  /\ Len(s) \in Nat /\ DOMAIN s = 1 .. Len(s) /\ s \in [1 .. Len(s) -> S]
         /\ \A i \in DOMAIN s : s[i] \in S
BY LenProperties

LEMMA LargerSeq ==
  ASSUME NEW S, NEW T, S \subseteq T, NEW s \in Seq(S)
  PROVE  s \in Seq(T)
BY SeqMonotonic

LEMMA SeqFrom ==
  ASSUME NEW S, NEW n \in Nat, NEW s \in [1 .. n -> S]
  PROVE  s \in Seq(S) /\ Len(s) = n /\ DOMAIN s = 1 .. n
<1>1. s \in Seq(S) /\ DOMAIN s = 1 .. n
  BY SeqDef
<1> QED BY <1>1, LenProperties

\* Sequences with one or two elements more.
LEMMA OneMore ==
  ASSUME NEW S, NEW s \in Seq(S), NEW a \in S
  PROVE  /\ Append(s, a) \in Seq(S) /\ Len(Append(s, a)) = Len(s) + 1 /\ Len(s) \in Nat
         /\ \A i \in 1 .. Len(s) : Append(s, a)[i] = s[i]
         /\ Append(s, a)[Len(s) + 1] = a
         /\ DOMAIN s = 1 .. Len(s) /\ DOMAIN Append(s, a) = DOMAIN s \cup {Len(s) + 1}
         /\ Len(s) + 1 \notin DOMAIN s
<1>1. /\ Append(s, a) \in Seq(S) /\ Len(Append(s, a)) = Len(s) + 1 /\ Len(s) \in Nat
      /\ \A i \in 1 .. Len(s) : Append(s, a)[i] = s[i]
      /\ Append(s, a)[Len(s) + 1] = a
      /\ DOMAIN s = 1 .. Len(s) /\ DOMAIN Append(s, a) = 1 .. Len(s) + 1
  BY AppendProperties, LenProperties
<1> QED BY <1>1

LEMMA TwoMore ==
  ASSUME NEW S, NEW s \in Seq(S), NEW a \in S, NEW b \in S
  PROVE  /\ s \o <<a, b>> \in Seq(S) /\ Len(s \o <<a, b>>) = Len(s) + 2 /\ Len(s) \in Nat
         /\ \A i \in 1 .. Len(s) : (s \o <<a, b>>)[i] = s[i]
         /\ (s \o <<a, b>>)[Len(s) + 1] = a /\ (s \o <<a, b>>)[Len(s) + 2] = b
<1> DEFINE t == <<a, b>>
           u == s \o t
<1>1. t \in Seq(S) /\ Len(t) = 2 /\ t[1] = a /\ t[2] = b
  OBVIOUS
<1> HIDE DEF t
<1>2. /\ u \in Seq(S) /\ Len(u) = Len(s) + Len(t) /\ Len(s) \in Nat
      /\ \A i \in 1 .. Len(s) + Len(t) : u[i] = IF i <= Len(s) THEN s[i] ELSE t[i - Len(s)]
  BY <1>1, ConcatProperties, LenProperties
<1> HIDE DEF u
<1>3. Len(u) = Len(s) + 2 /\ \A i \in 1 .. Len(s) : u[i] = s[i]
  BY <1>1, <1>2
<1>4. /\ Len(s) + 1 \in 1 .. Len(s) + Len(t) /\ ~(Len(s) + 1 <= Len(s)) /\ (Len(s) + 1) - Len(s) = 1
      /\ Len(s) + 2 \in 1 .. Len(s) + Len(t) /\ ~(Len(s) + 2 <= Len(s)) /\ (Len(s) + 2) - Len(s) = 2
  BY <1>1, <1>2
<1>5. u[Len(s) + 1] = a /\ u[Len(s) + 2] = b
  BY <1>1, <1>2, <1>4
<1> QED BY <1>2, <1>3, <1>5 DEF u, t

LEMMA PairOf == ASSUME NEW a, NEW b PROVE <<a>> \o <<b>> = <<a, b>>
<1> DEFINE S == {a, b}
           t == <<a>> \o <<b>>
           u == <<a, b>>
<1>1. <<a>> \in Seq(S) /\ <<b>> \in Seq(S) /\ u \in Seq(S)
  OBVIOUS
<1>2. Len(t) = 2 /\ t[1] = a /\ t[2] = b /\ Len(u) = 2 /\ u[1] = a /\ u[2] = b
  BY <1>1
<1>3. t \in Seq(S)
  BY <1>1, ConcatProperties
<1> HIDE DEF t, u, S
<1>4. \A i \in 1 .. Len(t) : t[i] = u[i]
  BY <1>2
<1>5. t = u
  BY <1>1, <1>2, <1>3, <1>4, SeqEqual
<1> QED BY <1>5 DEF t, u

\* Chains of at most two references.
Deep(next, n) ==
  \A j \in 1 .. n : next[j] \in 1 .. MaxReferences =>
    next[j] \in 1 .. n /\ next[next[j]] \notin 1 .. MaxReferences

LEMMA ChainIs ==
  ASSUME NEW next, NEW i \in 1 .. Len(linkOn), Deep(next, Len(linkOn))
  PROVE  Chain(next, i) = IF next[i] \in 1 .. MaxReferences THEN <<i, next[i]>> ELSE <<i>>
<1> DEFINE n == Len(linkOn)
           S == 1 .. MaxReferences
           IsChain(f) == f = [j \in 1 .. n |-> <<j>> \o (IF next[j] \in S THEN f[next[j]] ELSE <<>>)]
           w == [j \in 1 .. n |-> IF next[j] \in S THEN <<j, next[j]>> ELSE <<j>>]
           f == CHOOSE g : IsChain(g)
<1>0. \A j : <<j>> \o <<>> = <<j>>
  OBVIOUS
<1>1. IsChain(w)
  <2>1. ASSUME NEW j \in 1 .. n PROVE w[j] = <<j>> \o (IF next[j] \in S THEN w[next[j]] ELSE <<>>)
    <3>1. CASE next[j] \in S
      <4>1. w[next[j]] = <<next[j]>> /\ w[j] = <<j, next[j]>>
        BY <3>1 DEF Deep
      <4>2. <<j>> \o <<next[j]>> = <<j, next[j]>>
        BY PairOf
      <4> QED BY <3>1, <4>1, <4>2
    <3>2. CASE next[j] \notin S
      <4>1. w[j] = <<j>>
        BY <3>2
      <4> QED BY <1>0, <3>2, <4>1
    <3> QED BY <3>1, <3>2
  <2> QED BY <2>1, Zenon
<1>2. IsChain(f)
  BY <1>1, Zenon
<1>3. Chain(next, i) = f[i]
  BY Zenon DEF Chain
<1> HIDE DEF f
<1>4. \A j \in 1 .. n : f[j] = <<j>> \o (IF next[j] \in S THEN f[next[j]] ELSE <<>>)
  BY <1>2
<1>5. CASE next[i] \in S
  <2>1. f[next[i]] = <<next[i]>> \o <<>>
    BY <1>4, <1>5 DEF Deep
  <2>2. f[i] = <<i>> \o f[next[i]]
    BY <1>4, <1>5
  <2>3. <<i>> \o <<next[i]>> = <<i, next[i]>>
    BY PairOf
  <2> QED BY <1>0, <1>3, <1>5, <2>1, <2>2, <2>3
<1>6. CASE next[i] \notin S
  <2>1. f[i] = <<i>> \o <<>>
    BY <1>4, <1>6
  <2> QED BY <1>0, <1>3, <1>6, <2>1
<1> QED BY <1>5, <1>6

LEMMA FilterBasics ==
  ASSUME FilterTypeOK
  PROVE  /\ linkOn \in Seq(Links) /\ Len(linkOn) \in Nat /\ Len(linkOn) <= MaxReferences
         /\ DOMAIN linkOn = 1 .. Len(linkOn)
         /\ target \in Seq(0 .. Leaf) /\ Len(target) = Len(linkOn)
         /\ DOMAIN target = 1 .. Len(linkOn)
         /\ refs \in Seq(Holders) /\ DOMAIN refs = 1 .. Len(refs) /\ Len(refs) \in Nat
         /\ properties \in Seq(Holders) /\ DOMAIN properties = 1 .. Len(properties)
         /\ Len(properties) \in Nat
         /\ MaxReferences \in Nat /\ Leaf = MaxReferences + 1
<1>1. /\ linkOn \in Seq(Links) /\ Len(linkOn) <= MaxReferences
      /\ target \in [1 .. Len(linkOn) -> 0 .. Leaf]
      /\ refs \in Seq(Holders) /\ properties \in Seq(Holders)
  BY DEF FilterTypeOK
<1>2. Len(linkOn) \in Nat /\ DOMAIN linkOn = 1 .. Len(linkOn)
  BY <1>1, LenProperties
<1>3. target \in Seq(0 .. Leaf) /\ Len(target) = Len(linkOn) /\ DOMAIN target = 1 .. Len(linkOn)
  BY <1>1, <1>2, SeqFrom
<1>4. /\ DOMAIN refs = 1 .. Len(refs) /\ Len(refs) \in Nat
      /\ DOMAIN properties = 1 .. Len(properties) /\ Len(properties) \in Nat
  BY <1>1, LenProperties
<1> QED BY <1>1, <1>2, <1>3, <1>4, FilterAssumption DEF Leaf

\* What more references, and the changes of other chains, leave as it was.
LEMMA ChainKept ==
  ASSUME NEW h, NEW links, NEW next, NEW shared, NEW links2, NEW next2, NEW shared2,
         ChainRight(h, links, next, shared), shared \subseteq 1 .. Len(links), shared \subseteq shared2,
         Len(links) \in Nat, Len(links2) \in Nat, Len(links) <= Len(links2),
         \A i \in 1 .. Len(links) : links2[i] = links[i],
         next2[h.first] = next[h.first]
  PROVE  ChainRight(h, links2, next2, shared2)
<1>1. h.first \in 1 .. Len(links) /\ h.first \in 1 .. Len(links2)
  BY DEF ChainRight
<1>2. Shares(h) => next[h.first] \in shared2 /\ links2[next[h.first]] = links[next[h.first]]
  BY DEF ChainRight
<1> QED BY <1>1, <1>2 DEF ChainRight, Shares

LEMMA ByIn ==
  ASSUME FilterTypeOK PROVE \A c \in DOMAIN conditions : conditions[c].by \in DOMAIN properties
<1>1. conditions \in Seq([by : 1 .. Len(properties), path : Seq(Links)])
  BY DEF FilterTypeOK
<1>2. \A c \in DOMAIN conditions : conditions[c] \in [by : 1 .. Len(properties), path : Seq(Links)]
  BY <1>1, ElementsOf
<1>3. DOMAIN properties = 1 .. Len(properties)
  BY FilterBasics
<1> QED BY <1>2, <1>3

LEMMA WorkKept ==
  ASSUME FilterTypeOK, FreshRefsWork, conditions' = conditions,
         \A p \in DOMAIN properties : properties'[p] = properties[p]
  PROVE  FreshRefsWork'
<1>1. \A c \in DOMAIN conditions : conditions[c].by \in DOMAIN properties
  BY ByIn
<1>2. \A c \in DOMAIN conditions : MadeBy(c)' = MadeBy(c) /\ Threw(c)' = Threw(c)
  BY <1>1 DEF MadeBy, Threw
<1>3. FreshRefsKeepEnds'
  BY <1>2 DEF FreshRefsWork, FreshRefsKeepEnds
<1>4. \A c \in DOMAIN conditions : SharesChain(conditions[c].by)' = SharesChain(conditions[c].by)
  BY <1>1 DEF SharesChain
<1>5. ThrowsOnlyWhenReused'
  <2> SUFFICES ASSUME NEW c \in DOMAIN conditions, Threw(c)
               PROVE  \E d \in 1 .. (c - 1) :
                        \/ conditions[d].by = conditions[c].by
                        \/ SharesChain(conditions[d].by)' /\ SharesChain(conditions[c].by)'
    BY <1>2 DEF ThrowsOnlyWhenReused
  <2>1. PICK d \in 1 .. (c - 1) : \/ conditions[d].by = conditions[c].by
                                  \/ SharesChain(conditions[d].by) /\ SharesChain(conditions[c].by)
    BY DEF FreshRefsWork, ThrowsOnlyWhenReused
  <2>2. d \in DOMAIN conditions
    <3>1. conditions \in Seq([by : 1 .. Len(properties), path : Seq(Links)])
      BY DEF FilterTypeOK
    <3>2. DOMAIN conditions = 1 .. Len(conditions) /\ Len(conditions) \in Nat
      BY <3>1, LenProperties
    <3> QED BY <3>2
  <2> QED BY <1>4, <2>1, <2>2
<1> QED BY <1>3, <1>5 DEF FreshRefsWork

LEMMA FirstsAmongAppend ==
  ASSUME NEW S, NEW s \in Seq(S), NEW h \in S, OwnFirsts(s), h.first \notin FirstsAmong(s)
  PROVE  FirstsAmong(Append(s, h)) = FirstsAmong(s) \cup {h.first} /\ OwnFirsts(Append(s, h))
<1> DEFINE t == Append(s, h)
           n == Len(s) + 1
<1>1. /\ DOMAIN t = DOMAIN s \cup {n} /\ n \notin DOMAIN s /\ t[n] = h
      /\ \A i \in DOMAIN s : t[i] = s[i]
  BY OneMore
<1> HIDE DEF t, n
<1>2. FirstsAmong(t) = FirstsAmong(s) \cup {h.first}
  BY <1>1 DEF FirstsAmong
<1>3. OwnFirsts(t)
  BY <1>1 DEF OwnFirsts, FirstsAmong
<1> QED BY <1>2, <1>3 DEF t

LEMMA FilterInitIInv == FilterInit => FilterIInv
<1> SUFFICES ASSUME FilterInit PROVE FilterIInv
  OBVIOUS
<1>1. linkOn = <<>> /\ target = <<>> /\ refs = <<>> /\ properties = <<>> /\ conditions = <<>>
  BY DEF FilterInit
<1>2. /\ Len(linkOn) = 0 /\ DOMAIN refs = {} /\ DOMAIN properties = {} /\ DOMAIN conditions = {}
      /\ 1 .. Len(linkOn) = {}
  BY <1>1
<1>3. FilterTypeOK
  <2>1. /\ linkOn \in Seq(Links) /\ refs \in Seq(Holders) /\ properties \in Seq(Holders)
        /\ conditions \in Seq([by : 1 .. Len(properties), path : Seq(Links)])
    BY <1>1
  <2>2. target \in [1 .. 0 -> 0 .. Leaf]
    BY <1>1
  <2> QED BY <1>2, <2>1, <2>2, FilterAssumption DEF FilterTypeOK
<1>4. NoFirstTwice
  BY <1>2 DEF NoFirstTwice, OwnFirsts, FirstsAmong
<1>5. ChainsRight /\ LeavesFounded
  BY <1>2 DEF ChainsRight, LeavesFounded, SharedIn
<1>6. FreshRefsWork
  BY <1>2 DEF FreshRefsWork, FreshRefsKeepEnds, ThrowsOnlyWhenReused
<1> QED BY <1>3, <1>4, <1>5, <1>6 DEF FilterIInv

\* The types of what is kept when references are added.
LEMMA TypesKept ==
  ASSUME FilterTypeOK, Len(linkOn)' \in Nat, Len(linkOn) <= Len(linkOn)'
  PROVE  /\ refs \in Seq(Holders') /\ properties \in Seq(Holders')
         /\ \A h \in Holders : h \in Holders'
<1>1. Holders \subseteq Holders'
  <2>1. 1 .. Len(linkOn) \subseteq 1 .. Len(linkOn)'
    BY FilterBasics
  <2> QED BY <2>1 DEF Holders
<1>2. \A s \in Seq(Holders) : s \in Seq(Holders')
  BY <1>1
<1> QED BY <1>1, <1>2, FilterBasics

LEMMA ByRefIInv ==
  ASSUME FilterIInv, NEW link \in Links, ByRef(link)
  PROVE  FilterIInv'
<1> DEFINE n == Len(linkOn)
           m == Len(refs) + 1
           new == Holder(n + 1, <<link>>, FALSE)
           shared == SharedIn(linkOn, refs, properties)
<1>0. /\ FilterTypeOK /\ NoFirstTwice /\ ChainsRight /\ LeavesFounded /\ FreshRefsWork
      /\ UNCHANGED <<properties, conditions>>
  BY DEF FilterIInv, ByRef
<1>1. /\ linkOn' \in Seq(Links) /\ Len(linkOn)' = n + 1 /\ n \in Nat /\ n + 1 <= MaxReferences
      /\ \A i \in 1 .. n : linkOn'[i] = linkOn[i]
      /\ linkOn'[n + 1] = link
  BY <1>0, FilterBasics, OneMore DEF ByRef, MayMake, New
<1>2. /\ target' \in [1 .. n + 1 -> 0 .. Leaf]
      /\ \A i \in 1 .. n : target'[i] = target[i]
      /\ target'[n + 1] = 0
  <2>1. target' = Append(target, 0) /\ 0 \in 0 .. Leaf
    BY <1>0, FilterBasics DEF ByRef
  <2>2. target' \in Seq(0 .. Leaf) /\ Len(target') = n + 1
    BY <1>0, <2>1, FilterBasics, OneMore
  <2>3. /\ target \in Seq(0 .. Leaf) /\ Len(target) = n
        /\ \A i \in 1 .. n : target'[i] = target[i]
        /\ target'[n + 1] = 0
    BY <1>0, <2>1, FilterBasics, OneMore
  <2>4. target' \in [1 .. n + 1 -> 0 .. Leaf]
    BY <2>2, ElementsOf
  <2> QED BY <2>3, <2>4
<1>3. /\ new.first = n + 1 /\ new.asked = <<link>> /\ new.used = FALSE /\ refs' = Append(refs, new)
      /\ new \in Holders' /\ new.asked # <<>> /\ Len(new.asked) = 1 /\ new.asked[1] = link
  BY <1>1 DEF Holder, ByRef, New, Holders
<1> HIDE DEF new
<1>4. /\ refs \in Seq(Holders') /\ properties \in Seq(Holders')
      /\ FirstsAmong(refs) \cup FirstsAmong(properties) \subseteq 1 .. n
  <2>1. \A h \in Holders : h.first \in 1 .. n
    BY DEF Holders
  <2> QED BY <1>0, <1>1, <2>1, FilterBasics, TypesKept DEF FirstsAmong
<1>5. /\ refs' \in Seq(Holders') /\ refs'[m] = new /\ DOMAIN refs' = DOMAIN refs \cup {m}
      /\ m \notin DOMAIN refs /\ \A r \in DOMAIN refs : refs'[r] = refs[r]
  BY <1>3, <1>4, OneMore
<1> HIDE DEF m
<1>6. FilterTypeOK'
  BY <1>0, <1>1, <1>2, <1>4, <1>5 DEF FilterTypeOK
<1>7. NoFirstTwice' /\ FirstsAmong(refs') = FirstsAmong(refs) \cup {n + 1}
  <2>1. n + 1 \notin FirstsAmong(refs) \cup FirstsAmong(properties)
    BY <1>1, <1>4
  <2>2. FirstsAmong(refs') = FirstsAmong(refs) \cup {n + 1} /\ OwnFirsts(refs')
    BY <1>0, <1>3, <1>4, <2>1, FirstsAmongAppend DEF NoFirstTwice
  <2> QED BY <1>0, <2>1, <2>2 DEF NoFirstTwice
<1>8. shared' = shared /\ shared \subseteq 1 .. n
  <2>1. 1 .. n + 1 = (1 .. n) \cup {n + 1}
    BY <1>1
  <2>2. n + 1 \notin 1 .. n
    BY <1>1
  <2> QED BY <1>0, <1>1, <1>7, <2>1, <2>2 DEF SharedIn
<1> HIDE DEF shared
<1>9. \A r \in DOMAIN refs : refs[r].first \in 1 .. n
  BY <1>4 DEF FirstsAmong
<1>10. \A p \in DOMAIN properties : properties[p].first \in 1 .. n
  BY <1>4 DEF FirstsAmong
<1>11. \A h : ChainRight(h, linkOn, target, shared) /\ h.first \in 1 .. n
               => ChainRight(h, linkOn', target', shared')
  <2> SUFFICES ASSUME NEW h, ChainRight(h, linkOn, target, shared), h.first \in 1 .. n
               PROVE  ChainRight(h, linkOn', target', shared')
    OBVIOUS
  <2>1. target'[h.first] = target[h.first] /\ n + 1 \in Nat /\ n <= n + 1
    BY <1>1, <1>2
  <2> QED BY <1>1, <1>8, <2>1, ChainKept
<1>12. ChainRight(new, linkOn', target', shared')
  BY <1>1, <1>2, <1>3 DEF ChainRight, Shares
<1>13. target'[n + 1] # Leaf
  BY <1>2, FilterAssumption DEF Leaf
<1>14. ChainsRight'
  <2>1. ASSUME NEW r \in DOMAIN refs' PROVE ChainRight(refs'[r], linkOn', target', shared') /\ target'[refs'[r].first] # Leaf
    <3>1. CASE r \in DOMAIN refs
      <4>1. ChainRight(refs[r], linkOn, target, shared) /\ target[refs[r].first] # Leaf
        BY <1>0, <3>1 DEF ChainsRight, shared
      <4> QED BY <1>2, <1>5, <1>9, <1>11, <3>1, <4>1
    <3>2. CASE r = m
      BY <1>3, <1>5, <1>12, <1>13, <3>2
    <3> QED BY <1>5, <3>1, <3>2
  <2>2. ASSUME NEW p \in DOMAIN properties PROVE ChainRight(properties[p], linkOn', target', shared')
    BY <1>0, <1>10, <1>11, <2>2 DEF ChainsRight, shared
  <2>3. \A i \in shared' : target'[i] \in {0, Leaf}
    BY <1>0, <1>2, <1>8 DEF ChainsRight, shared
  <2> QED BY <1>0, <2>1, <2>2, <2>3 DEF ChainsRight, shared
<1>15. LeavesFounded'
  <2>1. \A p \in DOMAIN properties : target'[properties[p].first] = target[properties[p].first]
    BY <1>2, <1>10
  <2>2. \A i \in shared' : i \in shared /\ target'[i] = target[i]
    BY <1>2, <1>8
  <2>3. \A d \in DOMAIN conditions : SharesChain(conditions[d].by)' = SharesChain(conditions[d].by)
    BY <1>0 DEF SharesChain
  <2> QED BY <1>0, <2>1, <2>2, <2>3 DEF LeavesFounded, shared
<1>16. FreshRefsWork'
  BY <1>0, WorkKept
<1> QED BY <1>6, <1>7, <1>14, <1>15, <1>16 DEF FilterIInv

LEMMA ByRefOnIInv ==
  ASSUME FilterIInv, NEW r \in DOMAIN refs, NEW link \in Links, ByRefOn(r, link)
  PROVE  FilterIInv'
<1> DEFINE n == Len(linkOn)
           m == Len(refs) + 1
           f == refs[r].first
           before == refs[r].asked
           used == [refs EXCEPT ![r].used = TRUE]
           new == Holder(n + 2, Append(before, link), FALSE)
           shared == SharedIn(linkOn, refs, properties)
<1>0. /\ FilterTypeOK /\ NoFirstTwice /\ ChainsRight /\ LeavesFounded /\ FreshRefsWork
      /\ UNCHANGED <<properties, conditions>>
  BY DEF FilterIInv, ByRefOn
<1>1. /\ f \in 1 .. n /\ before \in Seq(Links) /\ refs[r] \in Holders
      /\ linkOn[f] \in Links /\ linkOn[f] = before[1] /\ before # <<>>
  <2>1. refs[r] \in Holders
    BY <1>0, FilterBasics, ElementsOf
  <2>2. f \in 1 .. n /\ before \in Seq(Links)
    BY <2>1 DEF Holders
  <2>3. linkOn[f] \in Links
    BY <1>0, <2>2, FilterBasics, ElementsOf
  <2>4. linkOn[f] = before[1] /\ before # <<>>
    BY <1>0 DEF ChainsRight, ChainRight
  <2> QED BY <2>1, <2>2, <2>3, <2>4
<1>2. /\ linkOn' \in Seq(Links) /\ Len(linkOn)' = n + 2 /\ n \in Nat /\ n + 2 <= MaxReferences
      /\ \A i \in 1 .. n : linkOn'[i] = linkOn[i]
      /\ linkOn'[n + 1] = link /\ linkOn'[n + 2] = linkOn[f]
  <2>1. linkOn' = linkOn \o <<link, linkOn[f]>> /\ n + 2 <= MaxReferences
    BY DEF ByRefOn, MayMake
  <2>2. linkOn \in Seq(Links)
    BY <1>0, FilterBasics
  <2> QED BY <1>1, <2>1, <2>2, TwoMore
<1>3. /\ target' \in [1 .. n + 2 -> 0 .. Leaf]
      /\ \A i \in 1 .. n : i # f => target'[i] = target[i]
      /\ target'[f] = n + 1 /\ target'[n + 1] = 0 /\ target'[n + 2] = n + 1
  <2> DEFINE t == [target EXCEPT ![f] = n + 1]
             S == 0 .. Leaf
  <2>1. target' = t \o <<0, n + 1>> /\ 0 \in S /\ n + 1 \in S
    BY <1>0, <1>2, FilterBasics DEF ByRefOn, New
  <2>2. target \in [1 .. n -> S]
    BY <1>0 DEF FilterTypeOK
  <2>3. t \in [1 .. n -> S] /\ t[f] = n + 1 /\ \A i \in 1 .. n : i # f => t[i] = target[i]
    BY <1>1, <2>1, <2>2
  <2> HIDE DEF t, S
  <2>4. t \in Seq(S) /\ Len(t) = n
    BY <1>2, <2>3, SeqFrom
  <2>5. /\ target' \in Seq(S) /\ Len(target') = n + 2
        /\ \A i \in 1 .. n : target'[i] = t[i]
        /\ target'[n + 1] = 0 /\ target'[n + 2] = n + 1
    <3> DEFINE a == 0
               b == n + 1
    <3>1. a \in S /\ b \in S
      BY <2>1
    <3> HIDE DEF a, b
    <3>2. /\ t \o <<a, b>> \in Seq(S) /\ Len(t \o <<a, b>>) = Len(t) + 2
          /\ \A i \in 1 .. Len(t) : (t \o <<a, b>>)[i] = t[i]
          /\ (t \o <<a, b>>)[Len(t) + 1] = a /\ (t \o <<a, b>>)[Len(t) + 2] = b
      BY <2>4, <3>1, TwoMore
    <3>3. target' = t \o <<a, b>>
      BY <2>1 DEF a, b
    <3> QED BY <2>4, <3>2, <3>3 DEF a, b
  <2>6. target' \in [1 .. n + 2 -> S]
    BY <2>5, ElementsOf
  <2> QED BY <1>1, <2>3, <2>5, <2>6 DEF S
<1>4. /\ new.first = n + 2 /\ new.asked \in Seq(Links) /\ new.used = FALSE
      /\ new \in Holders' /\ new.asked # <<>> /\ Len(new.asked) > 1
      /\ new.asked[1] = linkOn[f] /\ new.asked[Len(new.asked)] = link
  <2> DEFINE a == Append(before, link)
  <2>1. /\ a \in Seq(Links) /\ Len(a) = Len(before) + 1 /\ a[Len(before) + 1] = link
        /\ \A i \in 1 .. Len(before) : a[i] = before[i]
    BY <1>1, OneMore
  <2>2. Len(before) \in Nat /\ Len(before) # 0
    BY <1>1, LenProperties, EmptySeq
  <2>3. a # <<>> /\ Len(a) > 1 /\ a[1] = linkOn[f] /\ a[Len(a)] = link
    BY <1>1, <2>1, <2>2
  <2>4. new.first = n + 2 /\ new.asked = a /\ new.used = FALSE
    BY DEF Holder
  <2>5. new \in Holders'
    BY <1>2, <2>1 DEF Holder, Holders
  <2> HIDE DEF a, new
  <2> QED BY <2>1, <2>3, <2>4, <2>5
<1>5. /\ refs \in Seq(Holders') /\ properties \in Seq(Holders')
      /\ FirstsAmong(refs) \cup FirstsAmong(properties) \subseteq 1 .. n
  <2>1. \A h \in Holders : h.first \in 1 .. n
    BY DEF Holders
  <2>2. n <= Len(linkOn)' /\ Len(linkOn)' \in Nat
    BY <1>2
  <2>3. /\ \A i \in DOMAIN refs : refs[i] \in Holders
        /\ \A i \in DOMAIN properties : properties[i] \in Holders
    BY <1>0, FilterBasics, ElementsOf
  <2> QED BY <1>0, <2>1, <2>2, <2>3, TypesKept DEF FirstsAmong
<1>6. /\ used \in Seq(Holders') /\ Len(used) = Len(refs) /\ DOMAIN used = DOMAIN refs
      /\ used[r].first = f /\ used[r].asked = before /\ used[r].used = TRUE
      /\ \A i \in DOMAIN refs : i # r => used[i] = refs[i]
      /\ refs' = Append(used, new)
  <2>1. refs' = Append(used, new)
    <3>1. refs' = Append(used, Holder((n + 1) + 1, Append(before, link), FALSE))
      BY Zenon DEF ByRefOn, New
    <3>2. (n + 1) + 1 = n + 2
      BY <1>2
    <3> QED BY <3>1, <3>2
  <2>2. refs \in [1 .. Len(refs) -> Holders'] /\ Len(refs) \in Nat /\ DOMAIN refs = 1 .. Len(refs)
    BY <1>5, ElementsOf
  <2>3. used[r] = [refs[r] EXCEPT !.used = TRUE] /\ \A i \in DOMAIN refs : i # r => used[i] = refs[i]
    BY <2>2
  <2>4. [refs[r] EXCEPT !.used = TRUE] \in Holders'
    <3>1. refs[r] \in Holders'
      BY <2>2
    <3> QED BY <3>1 DEF Holders
  <2>5. used[r].first = f /\ used[r].asked = before /\ used[r].used = TRUE
    BY <1>1, <2>3 DEF Holders
  <2>6. used \in [1 .. Len(refs) -> Holders']
    BY <2>2, <2>3, <2>4
  <2> HIDE DEF used, new
  <2>7. used \in Seq(Holders') /\ Len(used) = Len(refs) /\ DOMAIN used = DOMAIN refs
    BY <2>2, <2>6, SeqFrom
  <2> QED BY <2>1, <2>3, <2>5, <2>7
<1> HIDE DEF new, used
<1>7. /\ refs' \in Seq(Holders') /\ refs'[m] = new /\ DOMAIN refs' = DOMAIN refs \cup {m}
      /\ m \notin DOMAIN refs /\ m # r
      /\ \A i \in DOMAIN refs : refs'[i] = used[i]
  <2> DEFINE t == Append(used, new)
  <2>1. used \in Seq(Holders') /\ new \in Holders'
    BY <1>4, <1>6
  <2>2. /\ t \in Seq(Holders') /\ t[Len(used) + 1] = new
        /\ \A i \in 1 .. Len(used) : t[i] = used[i]
        /\ DOMAIN used = 1 .. Len(used) /\ DOMAIN t = DOMAIN used \cup {Len(used) + 1}
        /\ Len(used) + 1 \notin DOMAIN used
    BY <2>1, OneMore
  <2> HIDE DEF t
  <2>3. refs' = t /\ Len(used) = Len(refs) /\ DOMAIN used = DOMAIN refs
    BY <1>6 DEF t
  <2> QED BY <2>2, <2>3
<1> HIDE DEF m
<1>8. FilterTypeOK'
  BY <1>0, <1>2, <1>3, <1>5, <1>7 DEF FilterTypeOK
<1>9. NoFirstTwice' /\ FirstsAmong(refs') = FirstsAmong(refs) \cup {n + 2}
  <2>1. \A i \in DOMAIN refs : used[i].first = refs[i].first
    BY <1>6
  <2>2. FirstsAmong(used) = FirstsAmong(refs) /\ OwnFirsts(used)
    BY <1>0, <1>6, <2>1 DEF FirstsAmong, OwnFirsts, NoFirstTwice
  <2>3. n + 2 \notin FirstsAmong(refs) \cup FirstsAmong(properties)
    BY <1>2, <1>5
  <2>4. FirstsAmong(refs') = FirstsAmong(refs) \cup {n + 2} /\ OwnFirsts(refs')
    BY <1>4, <1>6, <2>2, <2>3, FirstsAmongAppend
  <2> QED BY <1>0, <2>3, <2>4 DEF NoFirstTwice
<1>10. shared' = shared \cup {n + 1} /\ shared \subseteq 1 .. n /\ f \notin shared
  <2>1. 1 .. n + 2 = (1 .. n) \cup {n + 1, n + 2}
    BY <1>2
  <2>2. n + 1 \notin 1 .. n /\ n + 2 \notin 1 .. n /\ n + 1 # n + 2
    BY <1>2
  <2>3. f \in FirstsAmong(refs)
    BY DEF FirstsAmong
  <2>4. n + 1 \notin FirstsAmong(refs) \cup FirstsAmong(properties) \cup {n + 2}
    BY <1>5, <2>2
  <2> QED BY <1>0, <1>2, <1>5, <1>9, <2>1, <2>2, <2>3, <2>4 DEF SharedIn
<1> HIDE DEF shared
<1>11. \A i \in DOMAIN refs : refs[i].first \in 1 .. n /\ (i # r => refs[i].first # f)
  BY <1>0, <1>5 DEF FirstsAmong, NoFirstTwice, OwnFirsts
<1>12. \A p \in DOMAIN properties : properties[p].first \in 1 .. n /\ properties[p].first # f
  BY <1>0, <1>5 DEF FirstsAmong, NoFirstTwice
<1> HIDE DEF f, before
<1>13. \A h : ChainRight(h, linkOn, target, shared) /\ h.first \in 1 .. n /\ h.first # f
               => ChainRight(h, linkOn', target', shared')
  <2> SUFFICES ASSUME NEW h, ChainRight(h, linkOn, target, shared), h.first \in 1 .. n, h.first # f
               PROVE  ChainRight(h, linkOn', target', shared')
    OBVIOUS
  <2>1. target'[h.first] = target[h.first]
    BY <1>3
  <2>2. n \in Nat /\ Len(linkOn') = n + 2 /\ n + 2 \in Nat /\ n <= n + 2
    BY <1>2
  <2>3. shared \subseteq shared' /\ shared \subseteq 1 .. n
    BY <1>10
  <2>4. \A i \in 1 .. n : linkOn'[i] = linkOn[i]
    BY <1>2
  <2> QED BY <2>1, <2>2, <2>3, <2>4, ChainKept
<1>14. ChainRight(new, linkOn', target', shared') /\ target'[n + 2] # Leaf
  <2>1. n + 2 \in 1 .. Len(linkOn') /\ n + 1 # Leaf
    BY <1>2, FilterAssumption DEF Leaf
  <2> QED BY <1>2, <1>3, <1>4, <1>10, <2>1 DEF ChainRight, Shares
<1>15. ChainRight(used[r], linkOn', target', shared') /\ target'[f] # Leaf
  <2>1. f \in 1 .. Len(linkOn') /\ n + 1 # Leaf
    BY <1>1, <1>2, FilterAssumption DEF Leaf
  <2> QED BY <1>1, <1>2, <1>3, <1>6, <1>10, <2>1 DEF ChainRight, Shares
<1>16. ChainsRight'
  <2>1. ASSUME NEW i \in DOMAIN refs' PROVE ChainRight(refs'[i], linkOn', target', shared') /\ target'[refs'[i].first] # Leaf
    <3>1. CASE i \in DOMAIN refs /\ i # r
      <4>1. ChainRight(refs[i], linkOn, target, shared) /\ target[refs[i].first] # Leaf
        BY <1>0, <3>1 DEF ChainsRight, shared
      <4>2. refs'[i] = refs[i]
        BY <1>6, <1>7, <3>1
      <4> QED BY <1>3, <1>11, <1>13, <3>1, <4>1, <4>2
    <3>2. CASE i = r
      BY <1>6, <1>7, <1>15, <3>2
    <3>3. CASE i = m
      BY <1>4, <1>7, <1>14, <3>3
    <3> QED BY <1>7, <3>1, <3>2, <3>3
  <2>2. ASSUME NEW p \in DOMAIN properties PROVE ChainRight(properties[p], linkOn', target', shared')
    BY <1>0, <1>12, <1>13, <2>2 DEF ChainsRight, shared
  <2>3. \A i \in shared' : target'[i] \in {0, Leaf}
    BY <1>0, <1>3, <1>10 DEF ChainsRight, shared
  <2> QED BY <1>0, <2>1, <2>2, <2>3 DEF ChainsRight, shared
<1>17. LeavesFounded'
  <2>1. \A p \in DOMAIN properties : target'[properties[p].first] = target[properties[p].first]
    BY <1>3, <1>12
  <2>2. \A i \in shared' : target'[i] = Leaf => i \in shared /\ target'[i] = target[i]
    <3>1. target'[n + 1] # Leaf
      BY <1>3, FilterAssumption DEF Leaf
    <3> QED BY <1>3, <1>10, <3>1
  <2>3. \A d \in DOMAIN conditions : SharesChain(conditions[d].by)' = SharesChain(conditions[d].by)
    BY <1>0 DEF SharesChain
  <2> QED BY <1>0, <2>1, <2>2, <2>3 DEF LeavesFounded, shared
<1>18. FreshRefsWork'
  BY <1>0, WorkKept
<1> QED BY <1>8, <1>9, <1>16, <1>17, <1>18 DEF FilterIInv

LEMMA ByPropertyIInv ==
  ASSUME FilterIInv, NEW r \in DOMAIN refs, ByProperty(r)
  PROVE  FilterIInv'
<1> DEFINE n == Len(linkOn)
           m == Len(properties) + 1
           f == refs[r].first
           new == [refs[r] EXCEPT !.first = n + 1]
           shared == SharedIn(linkOn, refs, properties)
<1>0. /\ FilterTypeOK /\ NoFirstTwice /\ ChainsRight /\ LeavesFounded /\ FreshRefsWork
      /\ UNCHANGED <<refs, conditions>>
  BY DEF FilterIInv, ByProperty
<1>1. /\ f \in 1 .. n /\ refs[r] \in Holders /\ linkOn[f] \in Links /\ target[f] \in 0 .. Leaf
      /\ target[f] # Leaf /\ ChainRight(refs[r], linkOn, target, shared)
  <2>1. refs[r] \in Holders
    BY <1>0, FilterBasics, ElementsOf
  <2>2. f \in 1 .. n
    BY <2>1 DEF Holders
  <2>3. linkOn[f] \in Links /\ target[f] \in 0 .. Leaf
    BY <1>0, <2>2, FilterBasics, ElementsOf
  <2>4. target[f] # Leaf /\ ChainRight(refs[r], linkOn, target, shared)
    BY <1>0 DEF ChainsRight
  <2> QED BY <2>1, <2>2, <2>3, <2>4
<1>2. /\ linkOn' \in Seq(Links) /\ Len(linkOn)' = n + 1 /\ n \in Nat /\ n + 1 <= MaxReferences
      /\ \A i \in 1 .. n : linkOn'[i] = linkOn[i]
      /\ linkOn'[n + 1] = linkOn[f]
  BY <1>0, <1>1, FilterBasics, OneMore DEF ByProperty, MayMake, New
<1>3. /\ target' \in [1 .. n + 1 -> 0 .. Leaf]
      /\ \A i \in 1 .. n : target'[i] = target[i]
      /\ target'[n + 1] = target[f]
  <2>1. target' = Append(target, target[f])
    BY DEF ByProperty
  <2>2. target \in Seq(0 .. Leaf) /\ Len(target) = n
    BY <1>0, FilterBasics
  <2>3. /\ target' \in Seq(0 .. Leaf) /\ Len(target') = n + 1
        /\ \A i \in 1 .. n : target'[i] = target[i]
        /\ target'[n + 1] = target[f]
    BY <1>1, <2>1, <2>2, OneMore
  <2>4. target' \in [1 .. n + 1 -> 0 .. Leaf]
    BY <2>3, ElementsOf
  <2> QED BY <2>3, <2>4
<1>4. /\ refs \in Seq(Holders') /\ properties \in Seq(Holders')
      /\ FirstsAmong(refs) \cup FirstsAmong(properties) \subseteq 1 .. n
  <2>1. \A h \in Holders : h.first \in 1 .. n
    BY DEF Holders
  <2>2. n <= Len(linkOn)' /\ Len(linkOn)' \in Nat
    BY <1>2
  <2>3. /\ \A i \in DOMAIN refs : refs[i] \in Holders
        /\ \A i \in DOMAIN properties : properties[i] \in Holders
    BY <1>0, FilterBasics, ElementsOf
  <2> QED BY <1>0, <2>1, <2>2, <2>3, TypesKept DEF FirstsAmong
<1>5. /\ properties' = Append(properties, new) /\ new \in Holders'
      /\ new.first = n + 1 /\ new.asked = refs[r].asked /\ new.used = refs[r].used
  <2>1. properties' = Append(properties, new)
    BY Zenon DEF ByProperty, Copy, New
  <2>2. new.first = n + 1 /\ new.asked = refs[r].asked /\ new.used = refs[r].used
    BY <1>1 DEF Holders
  <2>3. new \in Holders'
    BY <1>1, <1>2 DEF Holders
  <2> QED BY <2>1, <2>2, <2>3
<1> HIDE DEF new
<1>6. /\ properties' \in Seq(Holders') /\ properties'[m] = new /\ Len(properties') = m
      /\ Len(properties) \in Nat /\ DOMAIN properties' = DOMAIN properties \cup {m}
      /\ m \notin DOMAIN properties
      /\ \A p \in DOMAIN properties : properties'[p] = properties[p]
  BY <1>4, <1>5, OneMore
<1>7. FilterTypeOK'
  <2>1. conditions \in Seq([by : 1 .. Len(properties), path : Seq(Links)])
    BY <1>0 DEF FilterTypeOK
  <2>2. 1 .. Len(properties) \subseteq 1 .. Len(properties')
    BY <1>6
  <2>3. [by : 1 .. Len(properties), path : Seq(Links)] \subseteq [by : 1 .. Len(properties'), path : Seq(Links)]
    BY <2>2
  <2>4. conditions' \in Seq([by : 1 .. Len(properties'), path : Seq(Links)])
    <3>1. conditions \in Seq([by : 1 .. Len(properties'), path : Seq(Links)])
      BY <2>1, <2>3, LargerSeq
    <3> QED BY <1>0, <3>1
  <2> QED BY <1>0, <1>2, <1>3, <1>4, <1>6, <2>4 DEF FilterTypeOK
<1> HIDE DEF m
<1>8. NoFirstTwice' /\ FirstsAmong(properties') = FirstsAmong(properties) \cup {n + 1}
  <2>1. n + 1 \notin FirstsAmong(refs) \cup FirstsAmong(properties)
    BY <1>2, <1>4
  <2>2. FirstsAmong(properties') = FirstsAmong(properties) \cup {n + 1} /\ OwnFirsts(properties')
    BY <1>0, <1>4, <1>5, <2>1, FirstsAmongAppend DEF NoFirstTwice
  <2> QED BY <1>0, <2>1, <2>2 DEF NoFirstTwice
<1>9. shared' = shared /\ shared \subseteq 1 .. n
  <2>1. 1 .. n + 1 = (1 .. n) \cup {n + 1}
    BY <1>2
  <2>2. n + 1 \notin 1 .. n
    BY <1>2
  <2> QED BY <1>0, <1>2, <1>8, <2>1, <2>2 DEF SharedIn
<1> HIDE DEF shared
<1>10. \A i \in DOMAIN refs : refs[i].first \in 1 .. n
  BY <1>4 DEF FirstsAmong
<1>11. \A p \in DOMAIN properties : properties[p].first \in 1 .. n
  BY <1>4 DEF FirstsAmong
<1>12. \A h : ChainRight(h, linkOn, target, shared) /\ h.first \in 1 .. n
               => ChainRight(h, linkOn', target', shared')
  <2> SUFFICES ASSUME NEW h, ChainRight(h, linkOn, target, shared), h.first \in 1 .. n
               PROVE  ChainRight(h, linkOn', target', shared')
    OBVIOUS
  <2>1. target'[h.first] = target[h.first] /\ n + 1 \in Nat /\ n <= n + 1
    BY <1>2, <1>3
  <2> QED BY <1>2, <1>9, <2>1, ChainKept
<1>13. ChainRight(new, linkOn', target', shared') /\ target'[n + 1] # Leaf
  <2>1. n + 1 \in 1 .. Len(linkOn')
    BY <1>2
  <2>2. Shares(new) = Shares(refs[r])
    BY <1>5 DEF Shares
  <2>3. Shares(refs[r]) => target[f] \in shared /\ linkOn'[target[f]] = linkOn[target[f]]
    BY <1>1, <1>2, <1>9 DEF ChainRight
  <2>4. ~new.used /\ Len(new.asked) > 1 => Shares(refs[r])
    BY <1>5 DEF Shares
  <2> QED BY <1>1, <1>2, <1>3, <1>5, <1>9, <2>1, <2>2, <2>3, <2>4 DEF ChainRight
<1>14. ChainsRight'
  <2>1. ASSUME NEW i \in DOMAIN refs PROVE ChainRight(refs[i], linkOn', target', shared') /\ target'[refs[i].first] # Leaf
    BY <1>0, <1>3, <1>10, <1>12, <2>1 DEF ChainsRight, shared
  <2>2. ASSUME NEW p \in DOMAIN properties' PROVE ChainRight(properties'[p], linkOn', target', shared')
    <3>1. CASE p \in DOMAIN properties
      <4>1. ChainRight(properties[p], linkOn, target, shared)
        BY <1>0, <3>1 DEF ChainsRight, shared
      <4> QED BY <1>6, <1>11, <1>12, <3>1, <4>1
    <3>2. CASE p = m
      BY <1>6, <1>13, <3>2
    <3> QED BY <1>6, <3>1, <3>2
  <2>3. \A i \in shared' : target'[i] \in {0, Leaf}
    BY <1>0, <1>3, <1>9 DEF ChainsRight, shared
  <2> QED BY <1>0, <2>1, <2>2, <2>3 DEF ChainsRight, shared
<1>15. LeavesFounded'
  <2>1. ASSUME NEW p \in DOMAIN properties', target'[properties'[p].first] = Leaf
        PROVE  \E d \in DOMAIN conditions : conditions[d].by = p
    <3>1. p # m
      BY <1>5, <1>6, <1>13, <2>1
    <3>2. p \in DOMAIN properties /\ target[properties[p].first] = Leaf
      BY <1>3, <1>6, <1>11, <2>1, <3>1
    <3> QED BY <1>0, <3>2 DEF LeavesFounded
  <2>2. \A i \in shared' : i \in shared /\ target'[i] = target[i]
    BY <1>3, <1>9
  <2>3. \A d \in DOMAIN conditions : conditions[d].by \in DOMAIN properties
    BY <1>0, ByIn
  <2>4. \A d \in DOMAIN conditions : SharesChain(conditions[d].by)' = SharesChain(conditions[d].by)
    BY <1>0, <1>6, <2>3 DEF SharesChain
  <2> QED BY <1>0, <2>1, <2>2, <2>4 DEF LeavesFounded, shared
<1>16. FreshRefsWork'
  BY <1>0, <1>6, WorkKept
<1> QED BY <1>7, <1>8, <1>14, <1>15, <1>16 DEF FilterIInv

\* Sequences of one and of two, and the links along chains of them.
LEMMA OfOne ==
  ASSUME NEW S, NEW s \in Seq(S), s # <<>>, ~(Len(s) > 1)
  PROVE  Len(s) = 1 /\ s = <<s[1]>>
<1>1. Len(s) = 1 /\ s[1] \in S
  <2>1. Len(s) \in Nat /\ Len(s) # 0 /\ s \in [1 .. Len(s) -> S]
    BY LenProperties, EmptySeq
  <2>2. Len(s) = 1
    BY <2>1
  <2> QED BY <2>1, <2>2
<1>2. <<s[1]>> \in Seq(S) /\ Len(<<s[1]>>) = 1 /\ <<s[1]>>[1] = s[1]
  BY <1>1
<1> QED BY <1>1, <1>2, SeqEqual

LEMMA PathOfOne ==
  ASSUME NEW i, linkOn[i] \in Links
  PROVE  Path(<<i>>) = <<linkOn[i]>> /\ Path(<<i>>) \in Seq(Links) /\ Path(<<i>>) # <<>>
<1> DEFINE a == linkOn[i]
           s == Path(<<i>>)
<1>1. DOMAIN <<i>> = 1 .. 1
  OBVIOUS
<1>2. s = [k \in 1 .. 1 |-> linkOn[<<i>>[k]]]
  BY <1>1 DEF Path
<1>3. s \in [1 .. 1 -> Links] /\ s[1] = a
  BY <1>2
<1>4. s \in Seq(Links) /\ Len(s) = 1
  BY <1>3, SeqFrom
<1> HIDE DEF s
<1>5. s # <<>> /\ s = <<s[1]>>
  <2>1. s # <<>>
    <3>1. Len(<<>>) = 0
      OBVIOUS
    <3>2. Len(s) # Len(<<>>)
      BY <1>4, <3>1
    <3> QED BY <3>2, Zenon
  <2>2. ~(Len(s) > 1)
    BY <1>4
  <2> QED BY <1>4, <2>1, <2>2, OfOne
<1> QED BY <1>3, <1>4, <1>5 DEF s

LEMMA PathOfTwo ==
  ASSUME NEW i, NEW j, linkOn[i] \in Links, linkOn[j] \in Links
  PROVE  /\ Path(<<i, j>>) = <<linkOn[i], linkOn[j]>>
         /\ Path(<<i, j>>) \in Seq(Links) /\ Path(<<i, j>>) # <<>>
<1> DEFINE a == linkOn[i]
           b == linkOn[j]
           s == Path(<<i, j>>)
           t == <<a, b>>
<1>1. DOMAIN <<i, j>> = 1 .. 2
  OBVIOUS
<1>2. s = [k \in 1 .. 2 |-> linkOn[<<i, j>>[k]]]
  BY <1>1 DEF Path
<1>3. s \in [1 .. 2 -> Links] /\ s[1] = a /\ s[2] = b
  BY <1>2
<1>4. s \in Seq(Links) /\ Len(s) = 2
  BY <1>3, SeqFrom
<1>5. t \in Seq(Links) /\ Len(t) = 2 /\ t[1] = a /\ t[2] = b
  OBVIOUS
<1> HIDE DEF s, t
<1>6. s = t
  BY <1>3, <1>4, <1>5, SeqEqual
<1>7. s # <<>>
  <2>1. Len(<<>>) = 0
    OBVIOUS
  <2>2. Len(s) # Len(<<>>)
    BY <1>4, <2>1
  <2> QED BY <2>2, Zenon
<1> QED BY <1>4, <1>6, <1>7 DEF s, t

LEMMA ConditionIInv ==
  ASSUME FilterIInv, NEW p \in DOMAIN properties, Condition(p)
  PROVE  FilterIInv'
<1> DEFINE n == Len(linkOn)
           m == Len(conditions) + 1
           h == properties[p]
           f == h.first
           chain == Chain(target, f)
           last == IF Shares(h) THEN target[f] ELSE f
           keeps == target[last] # Leaf
           new == [by |-> p, path |-> IF keeps THEN Path(chain) ELSE <<>>]
           shared == SharedIn(linkOn, refs, properties)
           T == [by : 1 .. Len(properties), path : Seq(Links)]
<1>0. /\ FilterTypeOK /\ NoFirstTwice /\ ChainsRight /\ LeavesFounded /\ FreshRefsWork
      /\ UNCHANGED <<linkOn, refs, properties>>
  BY DEF FilterIInv, Condition
<1>1. /\ f \in 1 .. n /\ h \in Holders /\ n \in Nat /\ n <= MaxReferences /\ MaxReferences \in Nat
      /\ ChainRight(h, linkOn, target, shared) /\ Leaf = MaxReferences + 1
  <2>1. h \in Holders
    BY <1>0, FilterBasics, ElementsOf
  <2>2. f \in 1 .. n
    BY <2>1 DEF Holders
  <2>3. ChainRight(h, linkOn, target, shared)
    BY <1>0 DEF ChainsRight
  <2> QED BY <1>0, <2>1, <2>2, <2>3, FilterBasics
<1>2. /\ \A i \in shared : i \in 1 .. n /\ target[i] \in {0, Leaf}
      /\ \A i \in 1 .. n : i \notin shared => target[i] \in shared \cup {0, Leaf}
      /\ 0 \notin 1 .. MaxReferences /\ Leaf \notin 1 .. MaxReferences
  <2>1. \A i \in shared : i \in 1 .. n /\ target[i] \in {0, Leaf}
    BY <1>0 DEF ChainsRight, SharedIn
  <2>2. ASSUME NEW i \in 1 .. n, i \notin shared PROVE target[i] \in shared \cup {0, Leaf}
    <3>1. i \in FirstsAmong(refs) \cup FirstsAmong(properties)
      BY <2>2 DEF SharedIn
    <3>2. CASE i \in FirstsAmong(refs)
      BY <1>0, <3>2 DEF FirstsAmong, ChainsRight, ChainRight
    <3>3. CASE i \in FirstsAmong(properties)
      BY <1>0, <3>3 DEF FirstsAmong, ChainsRight, ChainRight
    <3> QED BY <3>1, <3>2, <3>3
  <2>3. 0 \notin 1 .. MaxReferences /\ Leaf \notin 1 .. MaxReferences
    BY <1>1
  <2> QED BY <2>1, <2>2, <2>3
<1>3. /\ \A q \in DOMAIN properties : properties[q].first \in 1 .. n /\ properties[q].first \notin shared
      /\ \A r \in DOMAIN refs : refs[r].first \in 1 .. n /\ refs[r].first \notin shared
      /\ \A q \in DOMAIN properties : properties[q].first = f => q = p
      /\ \A r \in DOMAIN refs : refs[r].first # f
  <2>1. \A q \in DOMAIN properties : properties[q].first \in 1 .. n
    BY <1>0 DEF ChainsRight, ChainRight
  <2>2. \A r \in DOMAIN refs : refs[r].first \in 1 .. n
    BY <1>0 DEF ChainsRight, ChainRight
  <2>3. /\ \A q \in DOMAIN properties : properties[q].first \notin shared
        /\ \A r \in DOMAIN refs : refs[r].first \notin shared
    BY DEF SharedIn, FirstsAmong
  <2>4. /\ \A q \in DOMAIN properties : properties[q].first = f => q = p
        /\ \A r \in DOMAIN refs : refs[r].first # f
    BY <1>0 DEF NoFirstTwice, OwnFirsts, FirstsAmong
  <2> QED BY <2>1, <2>2, <2>3, <2>4
<1> HIDE DEF shared
<1>4. /\ Shares(h) => last \in shared /\ last # f
      /\ ~Shares(h) => last = f /\ last \notin shared
      /\ last \in 1 .. n /\ h.asked # <<>> /\ linkOn[f] = h.asked[1]
      /\ ~h.used /\ Len(h.asked) > 1 => linkOn[last] = h.asked[Len(h.asked)]
  <2>1. f \notin shared
    BY <1>3
  <2>2. Shares(h) => target[f] \in shared
    BY <1>1 DEF ChainRight
  <2>3. ~h.used /\ Len(h.asked) > 1 => linkOn[last] = h.asked[Len(h.asked)]
    BY <1>1 DEF ChainRight, Shares
  <2> QED BY <1>1, <1>2, <2>1, <2>2, <2>3 DEF ChainRight
<1>5. Deep(target, n)
  BY <1>2 DEF Deep
<1>6. /\ chain = IF Shares(h) THEN <<f, last>> ELSE <<f>>
      /\ chain[Len(chain)] = last
  <2>1. chain = IF target[f] \in 1 .. MaxReferences THEN <<f, target[f]>> ELSE <<f>>
    BY <1>1, <1>5, ChainIs
  <2>2. Shares(h) => target[f] \in 1 .. MaxReferences
    BY <1>1, <1>2, <1>4
  <2>3. ~Shares(h) => target[f] \notin 1 .. MaxReferences
    BY <1>1, <1>2 DEF ChainRight
  <2>4. chain = IF Shares(h) THEN <<f, last>> ELSE <<f>>
    BY <2>1, <2>2, <2>3
  <2>5. \A a, b : <<a>>[Len(<<a>>)] = a /\ <<a, b>>[Len(<<a, b>>)] = b
    OBVIOUS
  <2>6. ~Shares(h) => last = f
    BY <1>4
  <2> HIDE DEF last, f, h, chain
  <2> QED BY <2>4, <2>5, <2>6
<1>7. target' = [target EXCEPT ![last] = Leaf]
  BY <1>6 DEF Condition, LastOf
<1>8. /\ target' \in [1 .. n -> 0 .. Leaf] /\ target'[last] = Leaf
      /\ \A i \in 1 .. n : i # last => target'[i] = target[i]
  <2>1. target \in [1 .. n -> 0 .. Leaf]
    BY <1>0 DEF FilterTypeOK
  <2>2. Leaf \in 0 .. Leaf
    BY <1>1
  <2> QED BY <1>4, <1>7, <2>1, <2>2
<1>9. Chain(target', f) = chain
  <2>1. Deep(target', n)
    BY <1>2, <1>4, <1>5, <1>8 DEF Deep
  <2>2. Chain(target', f) = IF target'[f] \in 1 .. MaxReferences THEN <<f, target'[f]>> ELSE <<f>>
    BY <1>1, <2>1, ChainIs
  <2>3. CASE Shares(h)
    <3>1. target'[f] = last /\ last \in 1 .. MaxReferences
      BY <1>1, <1>4, <1>8, <2>3
    <3> QED BY <1>6, <2>2, <2>3, <3>1
  <2>4. CASE ~Shares(h)
    <3>1. target'[f] \notin 1 .. MaxReferences
      BY <1>2, <1>4, <1>8, <2>4
    <3> QED BY <1>6, <2>2, <2>4, <3>1
  <2> QED BY <2>3, <2>4
<1>10. conditions' = Append(conditions, new)
  <2>1. conditions' = Append(conditions,
           [by |-> p, path |-> IF target[LastOf(chain)] = Leaf THEN <<>> ELSE Path(Chain(target', f))])
    BY Zenon DEF Condition
  <2>2. LastOf(chain) = last
    BY <1>6 DEF LastOf
  <2> QED BY <1>9, <2>1, <2>2
<1>11. /\ Path(chain) = IF Shares(h) THEN <<linkOn[f], linkOn[last]>> ELSE <<linkOn[f]>>
       /\ Path(chain) \in Seq(Links) /\ Path(chain) # <<>>
  <2>1. linkOn[f] \in Links /\ linkOn[last] \in Links
    BY <1>0, <1>1, <1>4, FilterBasics, ElementsOf
  <2>2. CASE Shares(h)
    BY <1>6, <2>1, <2>2, PathOfTwo
  <2>3. CASE ~Shares(h)
    BY <1>6, <2>1, <2>3, PathOfOne
  <2> QED BY <2>2, <2>3
<1> HIDE DEF chain
<1>12. /\ new \in T /\ new.by = p /\ (keeps => new.path = Path(chain)) /\ (~keeps => new.path = <<>>)
  <2>1. p \in 1 .. Len(properties)
    BY <1>0, FilterBasics
  <2> HIDE DEF keeps
  <2> QED BY <1>11, <2>1
<1> HIDE DEF new, T
<1>13. /\ conditions' \in Seq(T) /\ conditions'[m] = new /\ DOMAIN conditions' = DOMAIN conditions \cup {m}
       /\ DOMAIN conditions = 1 .. Len(conditions) /\ Len(conditions) \in Nat
       /\ m \notin DOMAIN conditions
       /\ \A c \in DOMAIN conditions : conditions'[c] = conditions[c]
  <2>1. conditions \in Seq(T)
    BY <1>0 DEF FilterTypeOK, T
  <2> QED BY <1>10, <1>12, <2>1, OneMore
<1> HIDE DEF last, keeps
<1>14. FilterTypeOK'
  BY <1>0, <1>8, <1>13 DEF FilterTypeOK, Holders, T
<1>15. NoFirstTwice' /\ shared' = shared
  BY <1>0 DEF NoFirstTwice, shared, SharedIn
<1>16. ASSUME NEW g, ChainRight(g, linkOn, target, shared), g.first # last
       PROVE  ChainRight(g, linkOn, target', shared)
  BY <1>8, <1>16 DEF ChainRight
<1>17. ChainsRight'
  <2>1. \A r \in DOMAIN refs : ChainRight(refs[r], linkOn, target', shared) /\ target'[refs[r].first] # Leaf
    <3>1. \A r \in DOMAIN refs : ChainRight(refs[r], linkOn, target, shared) /\ target[refs[r].first] # Leaf
      BY <1>0 DEF ChainsRight, shared
    <3>2. \A r \in DOMAIN refs : refs[r].first # last /\ refs[r].first \in 1 .. n
      BY <1>3, <1>4
    <3> QED BY <1>8, <1>16, <3>1, <3>2
  <2>2. ASSUME NEW q \in DOMAIN properties PROVE ChainRight(properties[q], linkOn, target', shared)
    <3>1. ChainRight(properties[q], linkOn, target, shared)
      BY <1>0 DEF ChainsRight, shared
    <3>2. CASE properties[q].first # last
      BY <1>16, <3>1, <3>2
    <3>3. CASE properties[q].first = last
      <4>1. q = p /\ ~Shares(h) /\ last = f
        BY <1>3, <1>4, <3>3
      <4>2. target'[h.first] = Leaf
        BY <1>8, <4>1
      <4> QED BY <1>1, <4>1, <4>2 DEF ChainRight, Shares
    <3> QED BY <3>2, <3>3
  <2>3. \A i \in shared : target'[i] \in {0, Leaf}
    BY <1>2, <1>8
  <2> QED BY <1>0, <1>15, <2>1, <2>2, <2>3 DEF ChainsRight, shared
<1>18. LeavesFounded'
  <2>1. ASSUME NEW q \in DOMAIN properties, target'[properties[q].first] = Leaf
        PROVE  \E d \in DOMAIN conditions' : conditions'[d].by = q
    <3>1. CASE properties[q].first = last
      BY <1>3, <1>4, <1>12, <1>13, <3>1
    <3>2. CASE properties[q].first # last
      <4>1. target[properties[q].first] = Leaf
        BY <1>3, <1>8, <2>1, <3>2
      <4>2. PICK d \in DOMAIN conditions : conditions[d].by = q
        BY <1>0, <4>1 DEF LeavesFounded
      <4> QED BY <1>13, <4>2
    <3> QED BY <3>1, <3>2
  <2>2. ASSUME NEW i \in shared, target'[i] = Leaf
        PROVE  \E d \in DOMAIN conditions' : SharesChain(conditions'[d].by)
    <3>1. CASE i = last
      <4>1. SharesChain(p)
        BY <1>4, <2>2, <3>1 DEF SharesChain, Shares
      <4> QED BY <1>12, <1>13, <4>1
    <3>2. CASE i # last
      <4>1. target[i] = Leaf
        BY <1>2, <1>8, <2>2, <3>2
      <4>2. PICK d \in DOMAIN conditions : SharesChain(conditions[d].by)
        BY <1>0, <2>2, <4>1 DEF LeavesFounded, shared
      <4> QED BY <1>13, <4>2
    <3> QED BY <3>1, <3>2
  <2>3. \A q : SharesChain(q)' = SharesChain(q)
    BY <1>0 DEF SharesChain
  <2>4. \A d : SharesChain(conditions[d].by)' = SharesChain(conditions'[d].by)
    BY <1>0 DEF SharesChain
  <2> QED BY <1>0, <1>15, <2>1, <2>2, <2>4 DEF LeavesFounded, shared
<1>19. FreshRefsKeepEnds'
  <2> SUFFICES ASSUME NEW c \in DOMAIN conditions', conditions'[c].path # <<>>,
                      ~properties[conditions'[c].by].used
               PROVE  conditions'[c].path = EndsOf(properties[conditions'[c].by].asked)
    BY <1>0 DEF FreshRefsKeepEnds, Threw, MadeBy
  <2>1. CASE c \in DOMAIN conditions
    BY <1>0, <1>13, <2>1 DEF FreshRefsWork, FreshRefsKeepEnds, Threw, MadeBy
  <2>2. CASE c = m
    <3>1. conditions'[c] = new /\ conditions'[c].by = p /\ keeps /\ ~h.used
      BY <1>12, <1>13, <2>2
    <3>2. conditions'[c].path = Path(chain)
      BY <1>12, <3>1
    <3>3. CASE Len(h.asked) > 1
      <4>1. Path(chain) = <<linkOn[f], linkOn[last]>>
        BY <1>11, <3>3 DEF Shares
      <4>2. EndsOf(h.asked) = <<h.asked[1], h.asked[Len(h.asked)]>>
        BY <1>1, <3>3, LenProperties DEF EndsOf, Holders
      <4> QED BY <1>4, <3>1, <3>2, <3>3, <4>1, <4>2
    <3>4. CASE ~(Len(h.asked) > 1)
      <4>1. Path(chain) = <<linkOn[f]>>
        BY <1>11, <3>1, <3>4 DEF Shares
      <4>2. EndsOf(h.asked) = h.asked /\ h.asked = <<h.asked[1]>>
        <5>1. h.asked \in Seq(Links) /\ h.asked # <<>>
          BY <1>1, <1>4 DEF Holders
        <5> QED BY <3>4, <5>1, OfOne DEF EndsOf
      <4> QED BY <1>4, <3>1, <3>2, <4>1, <4>2
    <3> QED BY <3>3, <3>4
  <2> QED BY <1>13, <2>1, <2>2
<1>20. ThrowsOnlyWhenReused'
  <2> SUFFICES ASSUME NEW c \in DOMAIN conditions', conditions'[c].path = <<>>
               PROVE  \E d \in 1 .. (c - 1) :
                        \/ conditions'[d].by = conditions'[c].by
                        \/ SharesChain(conditions'[d].by) /\ SharesChain(conditions'[c].by)
    BY <1>0 DEF ThrowsOnlyWhenReused, Threw, SharesChain
  <2>1. CASE c \in DOMAIN conditions
    <3>1. PICK d \in 1 .. (c - 1) : \/ conditions[d].by = conditions[c].by
                                    \/ SharesChain(conditions[d].by) /\ SharesChain(conditions[c].by)
      BY <1>0, <1>13, <2>1 DEF FreshRefsWork, ThrowsOnlyWhenReused, Threw
    <3>2. d \in DOMAIN conditions
      BY <1>13, <2>1
    <3> QED BY <1>13, <2>1, <3>1, <3>2
  <2>2. CASE c = m
    <3>1. conditions'[c] = new /\ conditions'[c].by = p /\ target[last] = Leaf
      BY <1>11, <1>12, <1>13, <2>2 DEF keeps
    <3>2. \A d \in DOMAIN conditions : d \in 1 .. (c - 1) /\ conditions'[d] = conditions[d]
      BY <1>13, <2>2
    <3>3. CASE Shares(h)
      <4>1. PICK d \in DOMAIN conditions : SharesChain(conditions[d].by)
        BY <1>0, <1>4, <3>1, <3>3 DEF LeavesFounded, shared
      <4>2. SharesChain(p)
        BY <3>3 DEF SharesChain, Shares
      <4> QED BY <3>1, <3>2, <4>1, <4>2
    <3>4. CASE ~Shares(h)
      <4>1. PICK d \in DOMAIN conditions : conditions[d].by = p
        BY <1>0, <1>4, <3>1, <3>4 DEF LeavesFounded
      <4> QED BY <3>1, <3>2, <4>1
    <3> QED BY <3>3, <3>4
  <2> QED BY <1>13, <2>1, <2>2
<1> QED BY <1>14, <1>15, <1>17, <1>18, <1>19, <1>20 DEF FilterIInv, FreshRefsWork

LEMMA FilterStepIInv == FilterIInv /\ [FilterNext]_filterVars => FilterIInv'
<1> SUFFICES ASSUME FilterIInv, [FilterNext]_filterVars PROVE FilterIInv'
  OBVIOUS
<1>1. CASE UNCHANGED filterVars
  BY <1>1 DEF filterVars, FilterIInv, FilterTypeOK, Holders, NoFirstTwice, ChainsRight,
              LeavesFounded, SharesChain, FreshRefsWork, FreshRefsKeepEnds,
              ThrowsOnlyWhenReused, Threw, MadeBy
<1>2. ASSUME NEW link \in Links, ByRef(link) PROVE FilterIInv'
  BY <1>2, ByRefIInv
<1>3. ASSUME NEW link \in Links, NEW r \in DOMAIN refs, ByRefOn(r, link) PROVE FilterIInv'
  BY <1>3, ByRefOnIInv
<1>4. ASSUME NEW r \in DOMAIN refs, ByProperty(r) PROVE FilterIInv'
  BY <1>4, ByPropertyIInv
<1>5. ASSUME NEW p \in DOMAIN properties, Condition(p) PROVE FilterIInv'
  BY <1>5, ConditionIInv
<1> QED BY <1>1, <1>2, <1>3, <1>4, <1>5 DEF FilterNext

LEMMA FilterInvariant == FilterSpec => []FilterIInv
BY FilterInitIInv, FilterStepIInv, PTL DEF FilterSpec

\* However many references are made, followed further and shared between
\* FilterRefs (byRef, byProperty and the conditions of classes.ts): a condition
\* whose FilterRef was not used by byRef before follows the first and the last
\* link asked for, and targetPath throws only for chains that were used before.
THEOREM FreshRefsAreFollowed == FilterSpec => []FreshRefsWork
BY FilterInvariant, PTL DEF FilterIInv

-----------------------------------------------------------------------------
(***************************************************************************)
(* Values.  What the guards say of a value that is no list is what they    *)
(* say of its kind; of a list they hold when it is empty or all of a kind. *)
(***************************************************************************)
IsValue(v, kinds) ==
  /\ v.list \in BOOLEAN
  /\ \E m \in Nat : v.of \in [1 .. m -> kinds] /\ (~v.list => m = 1)

LEMMA EmptyIs == DOMAIN <<>> = {}
OBVIOUS

LEMMA ValueOf ==
  ASSUME NEW v, NEW kinds, IsValue(v, kinds)
  PROVE  /\ v.list \in BOOLEAN /\ \A i \in DOMAIN v.of : v.of[i] \in kinds
         /\ v.of # <<>> => 1 \in DOMAIN v.of
         /\ v.of = <<>> => v.list /\ DOMAIN v.of = {}
         /\ ~v.list => DOMAIN v.of = {1} /\ 1 .. 1 = {1}
<1>1. PICK m \in Nat : v.of \in [1 .. m -> kinds] /\ (~v.list => m = 1)
  BY DEF IsValue
<1>2. DOMAIN v.of = 1 .. m /\ \A i \in DOMAIN v.of : v.of[i] \in kinds
  BY <1>1
<1>3. v.of # <<>> => 1 \in DOMAIN v.of
  <2>1. v.of \in Seq(kinds) /\ Len(v.of) = m
    BY <1>1, SeqFrom
  <2>2. v.of # <<>> => m # 0
    BY <2>1, EmptySeq
  <2>3. m # 0 => 1 \in 1 .. m
    OBVIOUS
  <2> QED BY <1>2, <2>2, <2>3
<1>4. v.of = <<>> => DOMAIN v.of = {}
  BY Zenon, EmptyIs
<1>5. 1 .. 1 = {1}
  OBVIOUS
<1>6. ~v.list => DOMAIN v.of = {1}
  BY <1>1, <1>2, <1>5
<1>7. v.of = <<>> => v.list
  BY <1>4, <1>6
<1> QED BY <1>1, <1>2, <1>3, <1>4, <1>5, <1>6, <1>7 DEF IsValue

LEMMA GuardsOfLists ==
  ASSUME NEW v, NEW kinds, IsValue(v, kinds), v.list
  PROVE  /\ v.of = <<>> => \A K : AllAre(v, K)
         /\ Mixed(v) => \A k : ~AllAre(v, {k})
         /\ v.of # <<>> /\ ~Mixed(v) =>
              /\ \A i \in DOMAIN v.of : v.of[i] = v.of[1]
              /\ \A K : AllAre(v, K) <=> v.of[1] \in K
         /\ \A K : ~Is(v, K)
<1>1. v.of = <<>> => \A K : AllAre(v, K)
  BY ValueOf DEF AllAre
<1>2. Mixed(v) => \A k : ~AllAre(v, {k})
  BY DEF Mixed, AllAre
<1>3. v.of # <<>> /\ ~Mixed(v) => \A i \in DOMAIN v.of : v.of[i] = v.of[1]
  BY ValueOf DEF Mixed
<1>4. v.of # <<>> /\ ~Mixed(v) => \A K : AllAre(v, K) <=> v.of[1] \in K
  BY <1>3, ValueOf DEF AllAre
<1>5. \A K : ~Is(v, K)
  BY DEF Is
<1> QED BY <1>1, <1>2, <1>3, <1>4, <1>5

LEMMA GuardsOfOne ==
  ASSUME NEW v, ~v.list
  PROVE  /\ \A K : Is(v, K) <=> v.of[1] \in K
         /\ \A K : ~AllAre(v, K)
         /\ ~Mixed(v)
BY DEF Is, AllAre, Mixed

\* The fields a filter sets, one by one.
LEMMA FieldsAre ==
  ASSUME NEW v
  PROVE  \A f : f \in Fields(v) <=>
           \/ f = "Text" /\ Is(v, {"text", "date"})
           \/ f = "Int" /\ Is(v, {"int"})
           \/ f = "Number" /\ Is(v, Floats)
           \/ f = "Boolean" /\ Is(v, {"bool"})
           \/ f = "Geo" /\ Is(v, {"georange"})
           \/ f = "TextArray" /\ (AllAre(v, {"text"}) \/ AllAre(v, {"date"}))
           \/ f = "IntArray" /\ AllAre(v, {"int"})
           \/ f = "NumberArray" /\ AllAre(v, Floats)
           \/ f = "BooleanArray" /\ AllAre(v, {"bool"})
BY DEF Fields

\* Of a list that some guard of filters takes, the guards say what they say of
\* the type of its elements; of another they say nothing.
LEMMA GuardsOfUntyped ==
  ASSUME NEW v, v.list, Untyped(v)
  PROVE  /\ ~AllAre(v, {"text"}) /\ ~AllAre(v, {"int"}) /\ ~AllAre(v, {"bool"})
         /\ ~AllAre(v, {"date"}) /\ ~AllAre(v, Floats)
<1>1. \A K : AllAre(v, K) =>
        \E x, y \in K : TypeOf(x) # TypeOf(y) \/ x = "georange"
  BY DEF Untyped, AllAre
<1> QED BY <1>1 DEF TypeOf, Floats

LEMMA GuardsOfTyped ==
  ASSUME NEW v, IsValue(v, FilterKinds), v.list, v.of # <<>>, ~Untyped(v), NEW t, t = TypeOf(v.of[1])
  PROVE  /\ t \in {"text", "int", "float", "bool", "date"}
         /\ \A k \in {"text", "int", "bool", "date"} : AllAre(v, {k}) <=> t = k
         /\ AllAre(v, Floats) <=> t = "float"
<1>1. 1 \in DOMAIN v.of /\ \A i \in DOMAIN v.of : v.of[i] \in FilterKinds
  BY ValueOf
<1>2. \A i \in DOMAIN v.of : TypeOf(v.of[i]) = t /\ v.of[i] # "georange"
  BY <1>1 DEF Untyped
<1>3. \A x \in FilterKinds : /\ x # "georange" => TypeOf(x) \in {"text", "int", "float", "bool", "date"}
                             /\ x \in Floats <=> TypeOf(x) = "float"
                             /\ \A k \in {"text", "int", "bool", "date"} : x = k <=> TypeOf(x) = k
  BY DEF TypeOf, Floats, FilterKinds
<1>4. t \in {"text", "int", "float", "bool", "date"}
  BY <1>1, <1>2, <1>3
<1>5. ASSUME NEW k \in {"text", "int", "bool", "date"} PROVE AllAre(v, {k}) <=> t = k
  BY <1>1, <1>2, <1>3 DEF AllAre
<1>6. AllAre(v, Floats) <=> t = "float"
  BY <1>1, <1>2, <1>3 DEF AllAre
<1> QED BY <1>4, <1>5, <1>6

LEMMA FiltersSame ==
  ASSUME NEW v, IsValue(v, FilterKinds)
  PROVE  /\ v.of = <<>> => RestField(v) = "TextArray" /\ Cardinality(Fields(v)) = 4
         /\ Untyped(v) => RestField(v) = "throws" /\ Fields(v) = {}
         /\ v.of # <<>> /\ ~Untyped(v) =>
              Fields(v) = {CASE RestField(v) = "Date" -> "Text"
                             [] RestField(v) = "DateArray" -> "TextArray"
                             [] OTHER -> RestField(v)}
<1> DEFINE k == v.of[1]
           t == TypeOf(v.of[1])
           rest == RestField(v)
           fields == Fields(v)
           one == CASE rest = "Date" -> "Text" [] rest = "DateArray" -> "TextArray" [] OTHER -> rest
<1>1. CASE v.of = <<>>
  <2>1. v.list /\ (\A K : AllAre(v, K)) /\ \A K : ~Is(v, K)
    BY <1>1, ValueOf, GuardsOfLists
  <2>2. rest = "TextArray"
    BY <2>1 DEF RestField
  <2>3. fields = {"TextArray", "IntArray", "NumberArray", "BooleanArray"}
    BY <2>1, FieldsAre
  <2>4. Cardinality(fields) = 4
    <3> DEFINE c1 == {"TextArray"}
               c2 == c1 \cup {"IntArray"}
               c3 == c2 \cup {"NumberArray"}
    <3>1. IsFiniteSet(c1) /\ Cardinality(c1) = 1
      BY FS_Singleton
    <3>2. IsFiniteSet(c2) /\ Cardinality(c2) = 2
      BY <3>1, FS_AddElement
    <3>3. IsFiniteSet(c3) /\ Cardinality(c3) = 3
      BY <3>2, FS_AddElement
    <3>4. fields = c3 \cup {"BooleanArray"} /\ "BooleanArray" \notin c3
      BY <2>3
    <3> QED BY <3>3, <3>4, FS_AddElement
  <2>5. ~Untyped(v)
    BY <1>1, ValueOf DEF Untyped
  <2> QED BY <1>1, <2>2, <2>4, <2>5
<1>2. CASE v.of # <<>> /\ Untyped(v)
  <2>1. v.list /\ \A K : ~Is(v, K)
    BY <1>2 DEF Untyped, Is
  <2>2. rest = "throws"
    BY <1>2, <2>1, GuardsOfUntyped DEF RestField
  <2>3. fields = {}
    BY <1>2, <2>1, GuardsOfUntyped, FieldsAre
  <2> QED BY <1>2, <2>2, <2>3
<1>3. CASE v.of # <<>> /\ ~Untyped(v) /\ v.list
  <2>1. \A K : ~Is(v, K)
    BY <1>3 DEF Is
  <2>2. /\ t \in {"text", "int", "float", "bool", "date"}
        /\ AllAre(v, {"text"}) <=> t = "text"
        /\ AllAre(v, {"int"}) <=> t = "int"
        /\ AllAre(v, {"bool"}) <=> t = "bool"
        /\ AllAre(v, {"date"}) <=> t = "date"
        /\ AllAre(v, Floats) <=> t = "float"
    BY <1>3, GuardsOfTyped
  <2> HIDE DEF t
  <2>3. fields = {one}
    <3>1. CASE t = "text"
      BY <2>1, <2>2, <3>1, FieldsAre DEF RestField
    <3>2. CASE t = "int"
      BY <2>1, <2>2, <3>2, FieldsAre DEF RestField
    <3>3. CASE t = "float"
      BY <2>1, <2>2, <3>3, FieldsAre DEF RestField
    <3>4. CASE t = "bool"
      BY <2>1, <2>2, <3>4, FieldsAre DEF RestField
    <3>5. CASE t = "date"
      BY <2>1, <2>2, <3>5, FieldsAre DEF RestField
    <3> QED BY <2>2, <3>1, <3>2, <3>3, <3>4, <3>5
  <2> HIDE DEF one, fields
  <2> QED BY <1>3, <2>3 DEF one, fields
<1>4. CASE v.of # <<>> /\ ~v.list
  <2>1. /\ (\A K : Is(v, K) <=> k \in K) /\ (\A K : ~AllAre(v, K)) /\ ~Untyped(v)
        /\ k \in FilterKinds
    BY <1>4, ValueOf, GuardsOfOne DEF Untyped
  <2> HIDE DEF k
  <2>2. fields = {one}
    <3>1. CASE k = "text"
      BY <2>1, <3>1, FieldsAre DEF RestField, Floats
    <3>2. CASE k = "int"
      BY <2>1, <3>2, FieldsAre DEF RestField, Floats
    <3>3. CASE k \in Floats
      BY <2>1, <3>3, FieldsAre DEF RestField, Floats
    <3>4. CASE k = "bool"
      BY <2>1, <3>4, FieldsAre DEF RestField, Floats
    <3>5. CASE k = "date"
      BY <2>1, <3>5, FieldsAre DEF RestField, Floats
    <3>6. CASE k = "georange"
      BY <2>1, <3>6, FieldsAre DEF RestField, Floats
    <3> QED BY <2>1, <3>1, <3>2, <3>3, <3>4, <3>5, <3>6 DEF FilterKinds, Floats
  <2> HIDE DEF one, fields
  <2> QED BY <1>4, <2>1, <2>2 DEF one, fields
<1> QED BY <1>1, <1>2, <1>3, <1>4, ValueOf

\* What the field holds.
LEMMA ContentSame ==
  ASSUME NEW v, IsValue(v, FilterKinds), NEW i \in DOMAIN v.of
  PROVE  RestContent(v)[i] = GrpcContent(v)[i] <=> v.of[i] # "nonFinite"
<1>1. v.of[i] \in FilterKinds
  BY ValueOf
<1>2. RestContent(v)[i] = Json(v.of[i]) /\ GrpcContent(v)[i] = Iso(v.of[i])
  BY DEF RestContent, GrpcContent
<1> QED BY <1>1, <1>2 DEF Json, Iso, FilterKinds

\* What insertMany sends, by the guard that holds first.
LEMMA BatchOfList ==
  ASSUME NEW v, IsValue(v, Kinds), v.list, NEW batch, batch = BatchSends(v)
  PROVE  /\ batch.list = v.list
         /\ v.of = <<>> => batch.of = [i \in DOMAIN v.of |-> v.of[i]]
         /\ Mixed(v) => batch.of = [i \in DOMAIN v.of |-> Struct(v.of[i])]
         /\ v.of # <<>> /\ ~Mixed(v) =>
              batch.of = IF v.of[1] = "date" THEN [i \in DOMAIN v.of |-> Iso(v.of[i])]
                         ELSE IF v.of[1] \in {"null", "nonFinite", "numberOnly", "geo", "phone"}
                         THEN [i \in DOMAIN v.of |-> Struct(v.of[i])]
                         ELSE [i \in DOMAIN v.of |-> v.of[i]]
<1> DEFINE k == v.of[1]
<1>1. CASE v.of = <<>>
  <2>1. ~Mixed(v)
    BY <1>1, ValueOf DEF Mixed
  <2>2. batch = [field |-> "emptyListProps", list |-> v.list, of |-> [i \in DOMAIN v.of |-> v.of[i]]]
    BY <1>1 DEF BatchSends
  <2> QED BY <1>1, <2>1, <2>2
<1>2. CASE v.of # <<>> /\ Mixed(v)
  <2>1. (\A x : ~AllAre(v, {x})) /\ \A K : ~Is(v, K)
    BY <1>2, GuardsOfLists
  <2>2. batch = [field |-> "nonRefProperties", list |-> v.list, of |-> [i \in DOMAIN v.of |-> Struct(v.of[i])]]
    BY <1>2, <2>1 DEF BatchSends, AllDates, IsPhone
  <2> QED BY <1>2, <2>2
<1>3. CASE v.of # <<>> /\ ~Mixed(v)
  <2>1. (\A K : AllAre(v, K) <=> k \in K) /\ (\A K : ~Is(v, K)) /\ k \in Kinds
    BY <1>3, ValueOf, GuardsOfLists
  <2> HIDE DEF k
  <2>2. CASE k = "date"
    <3>1. batch = [field |-> "textArrayProperties", list |-> v.list, of |-> [i \in DOMAIN v.of |-> Iso(v.of[i])]]
      BY <1>3, <2>1, <2>2 DEF BatchSends, AllDates
    <3> QED BY <1>3, <2>2, <3>1 DEF k
  <2>3. CASE k \in {"null", "nonFinite", "numberOnly", "geo", "phone"}
    <3>1. batch = [field |-> "nonRefProperties", list |-> v.list, of |-> [i \in DOMAIN v.of |-> Struct(v.of[i])]]
      BY <1>3, <2>1, <2>3 DEF BatchSends, AllDates, IsPhone
    <3> QED BY <1>3, <2>3, <3>1 DEF k
  <2>4. CASE k \in {"text", "int", "float", "bool", "nested"}
    <3>1. PICK field : batch = [field |-> field, list |-> v.list, of |-> [i \in DOMAIN v.of |-> v.of[i]]]
      <4>1. CASE k = "text"
        BY <1>3, <2>1, <4>1 DEF BatchSends, AllDates
      <4>2. CASE k = "int"
        BY <1>3, <2>1, <4>2 DEF BatchSends, AllDates
      <4>3. CASE k = "float"
        BY <1>3, <2>1, <4>3 DEF BatchSends, AllDates
      <4>4. CASE k = "bool"
        BY <1>3, <2>1, <4>4 DEF BatchSends, AllDates
      <4>5. CASE k = "nested"
        BY <1>3, <2>1, <4>5 DEF BatchSends, AllDates, IsPhone
      <4> QED BY <2>4, <4>1, <4>2, <4>3, <4>4, <4>5
    <3> QED BY <1>3, <2>4, <3>1 DEF k
  <2> QED BY <2>1, <2>2, <2>3, <2>4 DEF Kinds, ObjectKinds
<1> QED BY <1>1, <1>2, <1>3

LEMMA BatchOfOne ==
  ASSUME NEW v, IsValue(v, Kinds), ~v.list, NEW batch, batch = BatchSends(v)
  PROVE  /\ batch.list = v.list
         /\ batch.of = IF IsPhone(v) THEN [i \in DOMAIN v.of |-> "input"]
                       ELSE [i \in DOMAIN v.of |-> Iso(v.of[i])]
<1> DEFINE k == v.of[1]
<1>1. /\ \A K : Is(v, K) <=> k \in K
      /\ \A K : ~AllAre(v, K)
      /\ k \in Kinds /\ v.of # <<>> /\ \A i \in DOMAIN v.of : v.of[i] = k
  BY ValueOf, GuardsOfOne
<1> HIDE DEF k
<1>2. CASE k = "date"
  <2>1. batch = [field |-> "nonRefProperties", list |-> v.list, of |-> [i \in DOMAIN v.of |-> Iso(v.of[i])]]
    BY <1>1, <1>2 DEF BatchSends, AllDates
  <2>2. ~IsPhone(v)
    BY <1>1, <1>2 DEF IsPhone
  <2> QED BY <2>1, <2>2
<1>3. CASE k \in {"phone", "numberOnly"}
  <2>1. IsPhone(v)
    BY <1>1, <1>3 DEF IsPhone
  <2>2. batch = [field |-> "nonRefProperties", list |-> v.list, of |-> [i \in DOMAIN v.of |-> "input"]]
    BY <1>1, <1>3, <2>1 DEF BatchSends, AllDates
  <2> QED BY <2>1, <2>2
<1>4. CASE k \in {"geo", "nested"}
  <2>1. ~IsPhone(v)
    BY <1>1, <1>4 DEF IsPhone
  <2>2. PICK field : batch = [field |-> field, list |-> v.list, of |-> [i \in DOMAIN v.of |-> v.of[i]]]
    BY <1>1, <1>4, <2>1 DEF BatchSends, AllDates
  <2>3. \A i \in DOMAIN v.of : Iso(v.of[i]) = v.of[i]
    BY <1>1, <1>4 DEF Iso
  <2> QED BY <2>1, <2>2, <2>3
<1>5. CASE k \in {"text", "int", "float", "nonFinite", "bool", "null"}
  <2>1. ~IsPhone(v)
    BY <1>1, <1>5 DEF IsPhone
  <2>2. batch = [field |-> "nonRefProperties", list |-> v.list, of |-> [i \in DOMAIN v.of |-> Struct(v.of[i])]]
    BY <1>1, <1>5, <2>1 DEF BatchSends, AllDates
  <2>3. \A i \in DOMAIN v.of : Iso(v.of[i]) = Struct(v.of[i])
    BY <1>1, <1>5 DEF Iso, Struct
  <2> QED BY <2>1, <2>2, <2>3
<1> QED BY <1>1, <1>2, <1>3, <1>4, <1>5 DEF Kinds, ObjectKinds

\* Whether an element is the same both ways.
SameElement(v, i) == v.of[i] # "nonFinite" /\ ~(v.of[i] = "date" /\ Mixed(v))

LEMMA DataSame ==
  ASSUME NEW v, IsValue(v, Kinds), NEW batch, batch = BatchSends(v), NEW rest, rest = RestSends(v)
  PROVE  /\ batch.list = rest.list /\ DOMAIN batch.of = DOMAIN rest.of
         /\ \A i \in DOMAIN v.of : batch.of[i] = rest.of[i] <=> SameElement(v, i)
<1>1. \A i \in DOMAIN v.of : v.of[i] \in Kinds
  BY ValueOf
<1>2. /\ rest.list = v.list
      /\ ~IsPhone(v) => rest.of = [i \in DOMAIN v.of |-> Json(v.of[i])]
  BY DEF RestSends, RestContent
<1>3. ASSUME NEW i \in DOMAIN v.of
      PROVE  /\ Struct(v.of[i]) = Json(v.of[i]) <=> v.of[i] \notin {"nonFinite", "date"}
             /\ Iso(v.of[i]) = Json(v.of[i]) <=> v.of[i] # "nonFinite"
             /\ v.of[i] = Json(v.of[i]) <=> v.of[i] \notin {"nonFinite", "date"}
  BY <1>1 DEF Struct, Iso, Json, Kinds, ObjectKinds
<1>4. CASE v.list
  <2>1. /\ batch.list = rest.list
        /\ rest.of = [i \in DOMAIN v.of |-> Json(v.of[i])]
    BY <1>2, <1>4, BatchOfList DEF IsPhone, Is
  <2>2. CASE v.of = <<>>
    <3>1. batch.of = [i \in DOMAIN v.of |-> v.of[i]] /\ DOMAIN v.of = {}
      BY <1>4, <2>2, ValueOf, BatchOfList
    <3> QED BY <2>1, <3>1
  <2>3. CASE Mixed(v)
    <3>1. batch.of = [i \in DOMAIN v.of |-> Struct(v.of[i])]
      BY <1>4, <2>3, BatchOfList
    <3> QED BY <1>3, <2>1, <2>3, <3>1 DEF SameElement
  <2>4. CASE v.of # <<>> /\ ~Mixed(v)
    <3>1. \A i \in DOMAIN v.of : v.of[i] = v.of[1]
      BY <1>4, <2>4, GuardsOfLists
    <3>2. CASE v.of[1] = "date"
      <4>1. batch.of = [i \in DOMAIN v.of |-> Iso(v.of[i])]
        BY <1>4, <2>4, <3>2, BatchOfList
      <4> QED BY <1>3, <2>1, <2>4, <4>1 DEF SameElement
    <3>3. CASE v.of[1] # "date"
      <4>1. \/ batch.of = [i \in DOMAIN v.of |-> Struct(v.of[i])]
            \/ batch.of = [i \in DOMAIN v.of |-> v.of[i]]
        BY <1>4, <2>4, <3>3, BatchOfList
      <4>2. \A i \in DOMAIN v.of : SameElement(v, i) <=> v.of[i] \notin {"nonFinite", "date"}
        BY <2>4, <3>1, <3>3 DEF SameElement
      <4> QED BY <1>3, <2>1, <4>1, <4>2
    <3> QED BY <3>2, <3>3
  <2> QED BY <2>2, <2>3, <2>4
<1>5. CASE ~v.list
  <2>1. ~Mixed(v) /\ batch.list = rest.list
    BY <1>2, <1>5, BatchOfOne DEF Mixed
  <2>2. CASE IsPhone(v)
    <3>1. batch.of = [i \in DOMAIN v.of |-> "input"]
      BY <1>5, <2>2, BatchOfOne
    <3>2. DOMAIN v.of = 1 .. 1 /\ DOMAIN v.of = {1}
      BY <1>5, ValueOf
    <3>3. rest.of = <<"input">>
      BY <2>2 DEF RestSends
    <3>4. DOMAIN <<"input">> = 1 .. 1 /\ <<"input">>[1] = "input"
      OBVIOUS
    <3>5. v.of[1] # "nonFinite" /\ v.of[1] # "date"
      BY <2>2 DEF IsPhone, Is
    <3> QED BY <2>1, <3>1, <3>2, <3>3, <3>4, <3>5 DEF SameElement
  <2>3. CASE ~IsPhone(v)
    <3>1. batch.of = [i \in DOMAIN v.of |-> Iso(v.of[i])]
      BY <1>5, <2>3, BatchOfOne
    <3> QED BY <1>2, <1>3, <2>1, <2>3, <3>1 DEF SameElement
  <2> QED BY <2>2, <2>3
<1> QED BY <1>4, <1>5, ValueOf

LEMMA GivenAreValues ==
  ASSUME NEW kinds, NEW v \in Given(kinds)
  PROVE  IsValue(v, kinds)
<1>1. CASE v \in [list : {FALSE}, of : {<<k>> : k \in kinds}]
  <2>1. PICK k \in kinds : v.of = <<k>>
    BY <1>1
  <2>2. v.of \in [1 .. 1 -> kinds]
    BY <2>1
  <2>3. v.list \in {FALSE}
    BY <1>1
  <2>4. v.list = FALSE /\ v.list \in BOOLEAN
    BY <2>3, Zenon
  <2> QED BY <2>2, <2>4 DEF IsValue
<1>2. CASE v \in [list : {TRUE}, of : Lists(kinds)]
  <2>1. PICK m \in 0 .. MaxList : v.of \in [1 .. m -> kinds]
    BY <1>2 DEF Lists, SeqOf
  <2>2. m \in Nat
    BY <2>1, ValuesAssumption
  <2>3. v.list \in {TRUE}
    BY <1>2
  <2>4. v.list = TRUE /\ v.list \in BOOLEAN
    BY <2>3, Zenon
  <2> QED BY <2>1, <2>2, <2>4 DEF IsValue
<1> QED BY <1>1, <1>2 DEF Given

\* Whatever the length of a list, a filter means the same by filtersGRPC and by
\* filtersREST and a property the same by batchProperties and restProperties,
\* but for numbers that are not finite, which are null over REST alone, and for
\* the lists that one of the two refuses or loses (serialize/index.ts).
THEOREM ValuesMeanTheSame == ValuesSpec => []SameBothWays
<1>1. FilterSameBothWays
  <2> SUFFICES ASSUME given \in Given(FilterKinds) PROVE FilterSameBothWays
    BY DEF FilterSameBothWays
  <2>1. IsValue(given, FilterKinds)
    BY GivenAreValues
  <2> QED BY <2>1, FiltersSame, ContentSame DEF FilterSameBothWays
<1>2. DataSameBothWays
  <2> SUFFICES ASSUME given \in Given(Kinds) PROVE DataSameBothWays
    BY DEF DataSameBothWays
  <2>1. IsValue(given, Kinds)
    BY GivenAreValues
  <2> QED BY <2>1, DataSame DEF DataSameBothWays, SameElement
<1>3. SameBothWays
  BY <1>1, <1>2 DEF SameBothWays
<1> QED BY <1>3, PTL

-----------------------------------------------------------------------------
(***************************************************************************)
(* Search.  In a buffer for rows of one length, dimension, each number is  *)
(* written once, where vectorsFromBytes reads it.                          *)
(***************************************************************************)
LEMMA Multiples ==
  ASSUME NEW n \in Nat, NEW d \in Nat \ {0}
  PROVE  n * d \in Nat /\ (n * d) % d = 0 /\ (n * d) \div d = n
<1>1. n * d \in Nat
  OBVIOUS
<1>2. (n * d) \div d = n
  OBVIOUS
<1>3. (n * d) % d = 0
  OBVIOUS
<1> QED BY <1>1, <1>2, <1>3

\* Where row i is, among n rows of length d.
LEMMA RowIn ==
  ASSUME NEW n \in Nat, NEW d \in Nat \ {0}, NEW i \in 1 .. n
  PROVE  /\ (i - 1) * d \in Nat /\ i * d = (i - 1) * d + d /\ i * d <= n * d /\ n * d \in Nat
<1>1. (i - 1) * d \in Nat /\ i * d = (i - 1) * d + d
  OBVIOUS
<1>2. (n - i) * d \in Nat /\ n * d = i * d + (n - i) * d /\ i * d \in Nat
  <2>1. n - i \in Nat
    OBVIOUS
  <2> QED BY <2>1
<1> QED BY <1>1, <1>2

\* No other row is there.
LEMMA RowsApart ==
  ASSUME NEW d \in Nat \ {0}, NEW i \in Nat \ {0}, NEW h \in Nat \ {0}, NEW k \in Nat,
         k - (i - 1) * d \in 1 .. d, k - (h - 1) * d \in 1 .. d
  PROVE  i = h
<1>1. ASSUME NEW x \in Nat \ {0}, NEW y \in Nat \ {0}, x < y, k - (y - 1) * d \in 1 .. d
      PROVE  k - (x - 1) * d > d
  <2> DEFINE z == y - x - 1
  <2>1. z \in Nat /\ y - 1 = (x - 1) + 1 + z /\ x - 1 \in Nat
    BY <1>1
  <2> HIDE DEF z
  <2>2. (y - 1) * d = (x - 1) * d + d + z * d
    BY <2>1
  <2>3. z * d \in Nat /\ (y - 1) * d \in Nat /\ (x - 1) * d \in Nat
    BY <2>1
  <2> QED BY <1>1, <2>2, <2>3
<1>2. (i - 1) * d \in Nat /\ (h - 1) * d \in Nat
  OBVIOUS
<1>3. CASE i < h
  BY <1>1, <1>2, <1>3
<1>4. CASE h < i
  BY <1>1, <1>2, <1>4
<1> QED BY <1>3, <1>4

LEMMA RowsAre ==
  ASSUME NEW rows \in Rows
  PROVE  /\ rows \in Seq(Seq(Nat)) /\ Len(rows) \in Nat \ {0} /\ DOMAIN rows = 1 .. Len(rows)
         /\ \A i \in DOMAIN rows : /\ rows[i] \in Seq(Nat) /\ Len(rows[i]) \in Nat \ {0}
                                   /\ DOMAIN rows[i] = 1 .. Len(rows[i])
<1>1. PICK lengths \in SeqOf(1 .. MaxDimension, MaxRows) :
        lengths # <<>> /\ rows = [i \in DOMAIN lengths |-> Row(i, lengths[i])]
  BY DEF Rows
<1>2. PICK n \in Nat : lengths \in [1 .. n -> 1 .. MaxDimension]
  BY SearchAssumption DEF SeqOf
<1>3. n # 0
  <2>1. lengths \in Seq(1 .. MaxDimension) /\ Len(lengths) = n
    BY <1>2, SeqFrom
  <2> QED BY <1>1, <2>1, EmptySeq
<1>4. \A i \in 1 .. n : lengths[i] \in Nat \ {0} /\ rows[i] = Row(i, lengths[i])
  BY <1>1, <1>2, SearchAssumption
<1>5. ASSUME NEW i \in 1 .. n
      PROVE  rows[i] \in Seq(Nat) /\ Len(rows[i]) = lengths[i] /\ DOMAIN rows[i] = 1 .. lengths[i]
  <2>1. Row(i, lengths[i]) \in [1 .. lengths[i] -> Nat]
    BY <1>4 DEF Row
  <2> QED BY <1>4, <2>1, SeqFrom
<1>6. rows \in [1 .. n -> Seq(Nat)]
  BY <1>1, <1>2, <1>5
<1>7. rows \in Seq(Seq(Nat)) /\ Len(rows) = n /\ DOMAIN rows = 1 .. n
  BY <1>6, SeqFrom
<1> QED BY <1>3, <1>4, <1>5, <1>7

\* What is read back of n slots for rows of length d.
ReadAs(back, slots, n, d, S) ==
  /\ back = [i \in 1 .. n |-> back[i]]
  /\ \A i \in 1 .. n :
       /\ back[i] \in Seq(S) /\ Len(back[i]) = d
       /\ \A j \in 1 .. d : back[i][j] = slots[(i - 1) * d + j]

LEMMA ReadsRows ==
  ASSUME NEW n \in Nat \ {0}, NEW d \in Nat \ {0}, NEW bytes, NEW S,
         bytes.dimension = d, NEW size \in Nat, size = n * d, bytes.slots \in [1 .. size -> S],
         NEW back, back = FromBytes(bytes)
  PROVE  ReadAs(back, bytes.slots, n, d, S)
<1> DEFINE slots == bytes.slots
           sub == [i \in 1 .. n |-> SubSeq(slots, (i - 1) * d + 1, i * d)]
<1>1. Len(slots) = n * d /\ n * d \in Nat
  BY Multiples, SeqFrom
<1>2. (n * d) % d = 0 /\ (n * d) \div d = n /\ d # 0
  BY Multiples
<1>3. FromBytes(bytes) = sub
  <2>1. ~(bytes.dimension = 0 \/ Len(slots) % bytes.dimension # 0) /\ Len(slots) \div d = n
    BY <1>1, <1>2
  <2> HIDE DEF slots
  <2>2. FromBytes(bytes) = [i \in 1 .. Len(slots) \div bytes.dimension |->
          SubSeq(slots, (i - 1) * bytes.dimension + 1, i * bytes.dimension)]
    BY <2>1, Zenon DEF FromBytes, slots
  <2> QED BY <2>1, <2>2
<1>4. ASSUME NEW i \in 1 .. n
      PROVE  /\ SubSeq(slots, (i - 1) * d + 1, i * d) \in Seq(S)
             /\ Len(SubSeq(slots, (i - 1) * d + 1, i * d)) = d
             /\ \A j \in 1 .. d : SubSeq(slots, (i - 1) * d + 1, i * d)[j] = slots[(i - 1) * d + j]
  <2> DEFINE from == (i - 1) * d + 1
             to == i * d
             s == SubSeq(slots, from, to)
  <2>1. from - 1 \in Nat /\ to = from - 1 + d /\ to <= n * d /\ n * d \in Nat /\ from \in Nat
    BY RowIn
  <2>2. from \in Int /\ to \in Int /\ from <= to /\ to - from + 1 = d
    BY <2>1
  <2>3. \A k \in from .. to : slots[k] \in S
    <3>1. from .. to \subseteq 1 .. n * d
      BY <2>1
    <3> QED BY <3>1
  <2> HIDE DEF from, to, slots
  <2>4. s \in Seq(S) /\ Len(s) = d /\ \A j \in 1 .. d : s[j] = slots[from + j - 1]
    BY <2>2, <2>3, SubSeqProperties
  <2>5. \A j \in 1 .. d : from + j - 1 = (i - 1) * d + j
    BY <2>1 DEF from
  <2>6. \A j \in 1 .. d : s[j] = slots[(i - 1) * d + j]
    BY <2>4, <2>5
  <2> QED BY <2>4, <2>6 DEF from, to
<1>5. \A i \in 1 .. n : sub[i] = SubSeq(slots, (i - 1) * d + 1, i * d)
  OBVIOUS
<1> HIDE DEF slots, sub
<1>6. \A i \in 1 .. n :
        /\ sub[i] \in Seq(S) /\ Len(sub[i]) = d
        /\ \A j \in 1 .. d : sub[i][j] = slots[(i - 1) * d + j]
  <2> SUFFICES ASSUME NEW i \in 1 .. n
               PROVE  /\ sub[i] \in Seq(S) /\ Len(sub[i]) = d
                      /\ \A j \in 1 .. d : sub[i][j] = slots[(i - 1) * d + j]
    OBVIOUS
  <2> DEFINE s == SubSeq(slots, (i - 1) * d + 1, i * d)
  <2>1. s \in Seq(S) /\ Len(s) = d /\ \A j \in 1 .. d : s[j] = slots[(i - 1) * d + j]
    BY <1>4
  <2>2. sub[i] = s
    BY <1>5
  <2> HIDE DEF s
  <2> QED BY <2>1, <2>2
<1>7. sub = [i \in 1 .. n |-> sub[i]]
  BY <1>5 DEF sub
<1> QED BY <1>3, <1>6, <1>7, Zenon DEF slots, ReadAs

LEMMA BelowWord ==
  ASSUME NEW d \in Nat, NEW w \in Nat, d < w
  PROVE  d % w = d
OBVIOUS

LEMMA Within ==
  ASSUME NEW b \in Nat, NEW d \in Nat, NEW e \in Nat, b + d <= e, NEW j \in 1 .. d
  PROVE  b + j \in 1 .. e /\ b + j \in Nat /\ (b + j) - b = j
OBVIOUS

LEMMA MaxOfOne ==
  ASSUME NEW i \in Nat
  PROVE  Max({i}) = i
<1>1. \A y \in {i} : i >= y
  OBVIOUS
<1> QED BY <1>1 DEF Max

\* Rows of one length are written without a gap, none over another.
LEMMA WritesRows ==
  ASSUME NEW rows \in Rows, \A i \in DOMAIN rows : Len(rows[i]) = Len(rows[1])
  PROVE  /\ ~ToBytes(rows).throws
         /\ \A i \in DOMAIN rows, j \in 1 .. Len(rows[1]) :
              ToBytes(rows).slots[(i - 1) * Len(rows[1]) + j] = rows[i][j]
<1> DEFINE n == Len(rows)
           d == Len(rows[1])
           bytes == ToBytes(rows)
           slot(k, by) == IF by = {} THEN 0
                          ELSE LET i == Max(by) IN rows[i][k - (i - 1) * d]
<1>1. /\ n \in Nat \ {0} /\ DOMAIN rows = 1 .. n /\ d \in Nat \ {0}
      /\ \A i \in 1 .. n : Len(rows[i]) = d /\ DOMAIN rows[i] = 1 .. d
  BY RowsAre
<1>2. ~bytes.throws
  <2>1. \A i \in 1 .. n : ~((i - 1) * d + d > n * d)
    <3> SUFFICES ASSUME NEW i \in 1 .. n PROVE ~((i - 1) * d + d > n * d)
      OBVIOUS
    <3>1. (i - 1) * d \in Nat /\ i * d = (i - 1) * d + d /\ i * d <= n * d /\ n * d \in Nat
      BY <1>1, RowIn
    <3> QED BY <1>1, <3>1
  <2>2. \A i \in 1 .. n : ~Past(rows, i)
    BY <1>1, <2>1 DEF Past
  <2> QED BY <1>1, <2>2 DEF ToBytes
<1>3. bytes.slots = [k \in 1 .. n * d |-> slot(k, Writers(rows, k))]
  BY DEF ToBytes, Slots
<1>4. ASSUME NEW i \in 1 .. n, NEW j \in 1 .. d PROVE bytes.slots[(i - 1) * d + j] = rows[i][j]
  <2> DEFINE k == (i - 1) * d + j
  <2>1. (i - 1) * d \in Nat /\ (i - 1) * d + d <= n * d /\ n * d \in Nat
    BY <1>1, RowIn
  <2>2. k \in 1 .. n * d /\ k \in Nat /\ k - (i - 1) * d = j
    <3> DEFINE b == (i - 1) * d
               e == n * d
    <3>1. b \in Nat /\ b + d <= e /\ e \in Nat
      BY <2>1
    <3> HIDE DEF b, e, d, n
    <3>2. b + j \in 1 .. e /\ b + j \in Nat /\ (b + j) - b = j
      BY <1>1, <3>1, Within
    <3> QED BY <3>2 DEF b, e
  <2> HIDE DEF k
  <2>3. Writers(rows, k) = {h \in 1 .. n : k - (h - 1) * d \in 1 .. d}
    BY <1>1 DEF Writers
  <2>4. \A h \in 1 .. n : k - (h - 1) * d \in 1 .. d => i = h
    <3> SUFFICES ASSUME NEW h \in 1 .. n, k - (h - 1) * d \in 1 .. d PROVE i = h
      OBVIOUS
    <3>1. i \in Nat \ {0} /\ h \in Nat \ {0} /\ k - (i - 1) * d \in 1 .. d
      BY <1>1, <2>2
    <3> QED BY <1>1, <2>2, <3>1, RowsApart
  <2>5. Writers(rows, k) = {i}
    BY <2>2, <2>3, <2>4
  <2>6. slot(k, {i}) = rows[i][j]
    <3>1. Max({i}) = i
      BY <1>1, MaxOfOne
    <3> QED BY <2>2, <3>1
  <2> HIDE DEF slot, bytes
  <2>7. bytes.slots[k] = slot(k, Writers(rows, k))
    BY <1>3, <2>2
  <2> QED BY <2>5, <2>6, <2>7 DEF k
<1> HIDE DEF bytes
<1> QED BY <1>1, <1>2, <1>4 DEF bytes

LEMMA RowsBack ==
  ASSUME NEW rows \in Rows, Len(rows[1]) < Word
  PROVE  LET back == FromBytes(ToBytes(rows))
             even == \A i \in DOMAIN rows : Len(rows[i]) = Len(rows[1])
         IN  /\ even => ~ToBytes(rows).throws /\ back = rows
             /\ Len(back) = Len(rows) /\ \A i \in DOMAIN back : Len(back[i]) = Len(rows[1])
<1> DEFINE n == Len(rows)
           d == Len(rows[1])
           bytes == ToBytes(rows)
           slots == bytes.slots
           S == {slots[k] : k \in 1 .. n * d}
           back == FromBytes(bytes)
           even == \A i \in DOMAIN rows : Len(rows[i]) = Len(rows[1])
<1>1. /\ n \in Nat \ {0} /\ DOMAIN rows = 1 .. n /\ d \in Nat \ {0}
      /\ \A i \in 1 .. n : rows[i] \in Seq(Nat)
      /\ rows \in Seq(Seq(Nat))
  BY RowsAre
<1>2. bytes.dimension = d
  <2>1. d % Word = d
    BY <1>1, SearchAssumption, BelowWord
  <2> QED BY <2>1 DEF ToBytes
<1>3. slots \in [1 .. n * d -> S]
  <2>1. DOMAIN slots = 1 .. n * d /\ slots = [k \in DOMAIN slots |-> slots[k]]
    BY DEF ToBytes, Slots
  <2> HIDE DEF slots
  <2> QED BY <2>1
<1> HIDE DEF S, slots, bytes
<1> HIDE DEF back
<1>4. /\ back = [i \in 1 .. n |-> back[i]]
      /\ \A i \in 1 .. n :
           /\ back[i] \in Seq(S) /\ Len(back[i]) = d
           /\ \A j \in 1 .. d : back[i][j] = slots[(i - 1) * d + j]
  <2>1. back = FromBytes(bytes) /\ bytes.slots = slots /\ bytes.slots \in [1 .. n * d -> S]
    BY <1>3 DEF back, slots
  <2> DEFINE size == n * d
  <2>2. n \in Nat \ {0} /\ d \in Nat \ {0} /\ size = n * d /\ size \in Nat
    BY <1>1, Multiples
  <2>4. bytes.slots \in [1 .. size -> S]
    BY <2>1
  <2> HIDE DEF n, d, size
  <2>3. ReadAs(back, bytes.slots, n, d, S)
    BY <1>2, <2>1, <2>2, <2>4, ReadsRows
  <2> QED BY <2>1, <2>3, Zenon DEF ReadAs
<1>5. back \in [1 .. n -> Seq(S)]
  BY <1>4
<1>6. Len(back) = n /\ DOMAIN back = 1 .. n
  BY <1>1, <1>5, SeqFrom
<1>7. ASSUME even PROVE ~bytes.throws /\ back = rows
  <2>1. ~bytes.throws /\ \A i \in 1 .. n, j \in 1 .. d : slots[(i - 1) * d + j] = rows[i][j]
    BY <1>1, <1>7, WritesRows DEF bytes, slots
  <2>2. ASSUME NEW i \in 1 .. n PROVE back[i] = rows[i]
    <3>1. /\ back[i] \in Seq(S) /\ Len(back[i]) = d
          /\ rows[i] \in Seq(Nat) /\ Len(rows[i]) = d
      BY <1>1, <1>4, <1>7
    <3>2. \A j \in 1 .. d : back[i][j] = rows[i][j]
      BY <1>4, <2>1
    <3> HIDE DEF d, n
    <3> DEFINE T == S \cup Nat
    <3>3. S \subseteq T /\ Nat \subseteq T
      OBVIOUS
    <3> HIDE DEF T
    <3>4. back[i] \in Seq(T) /\ rows[i] \in Seq(T)
      BY <3>1, <3>3, LargerSeq
    <3> QED BY <3>1, <3>2, <3>4, SeqEqual
  <2>4. rows = [i \in 1 .. n |-> rows[i]]
    BY <1>1
  <2>5. back = rows
    BY <1>4, <2>2, <2>4, Zenon
  <2> QED BY <2>1, <2>5
<1>8. Len(back) = Len(rows) /\ \A i \in DOMAIN back : Len(back[i]) = d
  BY <1>4, <1>6
<1> HIDE DEF even
<1> QED BY <1>7, <1>8 DEF back, bytes, even

\* The vectors of a message, each with the name it is sent under.
Named(name, of) == {<<name, of[i]>> : i \in DOMAIN of}
Received(sent) == UNION {Named(e.name, e.of) : e \in sent}

LEMMA NamedOne ==
  ASSUME NEW name, NEW x
  PROVE  Named(name, <<x>>) = {<<name, x>>}
<1>1. DOMAIN <<x>> = {1} /\ <<x>>[1] = x
  OBVIOUS
<1> QED BY <1>1, Zenon DEF Named

LEMMA OneByOne ==
  ASSUME NEW name, NEW type, NEW of
  PROVE  Received({Entry(name, type, <<of[i]>>) : i \in DOMAIN of}) = Named(name, of)
<1> DEFINE sent == {Entry(name, type, <<of[i]>>) : i \in DOMAIN of}
<1>1. \A i \in DOMAIN of : Named(Entry(name, type, <<of[i]>>).name, Entry(name, type, <<of[i]>>).of)
                             = {<<name, of[i]>>}
  BY NamedOne DEF Entry
<1>2. ASSUME NEW x PROVE x \in Received(sent) <=> x \in Named(name, of)
  <2>1. x \in Received(sent) <=> \E i \in DOMAIN of :
          x \in Named(Entry(name, type, <<of[i]>>).name, Entry(name, type, <<of[i]>>).of)
    BY Zenon DEF Received
  <2>2. x \in Named(name, of) <=> \E i \in DOMAIN of : x \in {<<name, of[i]>>}
    BY Zenon DEF Named
  <2> QED BY <1>1, <2>1, <2>2
<1> HIDE DEF sent
<1>3. Received(sent) = Named(name, of)
  BY <1>2
<1> QED BY <1>3 DEF sent

LEMMA AllInOne ==
  ASSUME NEW name, NEW type, NEW of
  PROVE  Received({Entry(name, type, of)}) = Named(name, of)
<1>1. Entry(name, type, of).name = name /\ Entry(name, type, of).of = of
  BY DEF Entry
<1> QED BY <1>1, Zenon DEF Received

LEMMA ShapesAre ==
  ASSUME NEW s \in Shapes
  PROVE  /\ s.shape \in {"1D", "2D", "list1D", "list2D"}
         /\ s.shape # "1D" => 1 \in DOMAIN s.of
BY DEF Shapes

\* The vectors of one name all go to it, or the server has no field for them.
LEMMA OfNameSends ==
  ASSUME NEW name, NEW s \in Shapes, NEW supportsVectors, NEW sent,
         sent = OfName(name, s, supportsVectors)
  PROVE  /\ ~supportsVectors /\ s.shape = "list2D" => sent = {Throws}
         /\ ~(~supportsVectors /\ s.shape = "list2D") =>
              Throws \notin sent /\ sent # {} /\ Received(sent) = Named(name, s.of)
<1>0. \A type, of : type # "none" => Entry(name, type, of) # Throws
  BY DEF Entry, Throws
<1>1. CASE ~supportsVectors /\ s.shape = "list2D"
  <2>1. sent = {Throws}
    BY <1>1 DEF OfName
  <2> QED BY <1>1, <2>1
<1>2. CASE ~supportsVectors /\ s.shape \in {"2D", "list1D"}
  <2>1. sent = {Entry(name, "single", <<s.of[i]>>) : i \in DOMAIN s.of}
    BY <1>2 DEF OfName
  <2>2. 1 \in DOMAIN s.of
    BY <1>2, ShapesAre
  <2> QED BY <1>0, <1>2, <2>1, <2>2, OneByOne
<1>3. CASE supportsVectors /\ s.shape = "list2D"
  <2>1. sent = {Entry(name, "multi", <<s.of[i]>>) : i \in DOMAIN s.of}
    BY <1>3 DEF OfName
  <2>2. 1 \in DOMAIN s.of
    BY <1>3, ShapesAre
  <2> QED BY <1>0, <1>3, <2>1, <2>2, OneByOne
<1>4. CASE supportsVectors /\ s.shape = "2D"
  <2>1. sent = {Entry(name, "multi", s.of)}
    BY <1>4 DEF OfName
  <2> QED BY <1>0, <1>4, <2>1, AllInOne
<1>5. CASE s.shape = "1D" \/ (supportsVectors /\ s.shape = "list1D")
  <2>1. sent = {Entry(name, "single", s.of)}
    BY <1>5 DEF OfName
  <2> QED BY <1>0, <1>5, <2>1, AllInOne
<1>6. s.shape \in {"1D", "2D", "list1D", "list2D"}
  BY ShapesAre
<1>7. \/ ~supportsVectors /\ s.shape = "list2D"
      \/ ~supportsVectors /\ s.shape \in {"2D", "list1D"}
      \/ supportsVectors /\ s.shape = "list2D"
      \/ supportsVectors /\ s.shape = "2D"
      \/ s.shape = "1D" \/ (supportsVectors /\ s.shape = "list1D")
  BY <1>6, Zenon
<1> QED BY <1>1, <1>2, <1>3, <1>4, <1>5, <1>7, Zenon

LEMMA OfRecordSends ==
  ASSUME NEW record \in Records, NEW supportsVectors, NEW sent,
         sent = OfRecord(record, supportsVectors)
  PROVE  IF record = <<>> \/ \E n \in DOMAIN record : ~supportsVectors /\ record[n].shape = "list2D"
         THEN sent = {Throws}
         ELSE Received(sent) = UNION {Named(n, record[n].of) : n \in DOMAIN record}
<1> DEFINE of(n) == OfName(n, record[n], supportsVectors)
           all == UNION {of(n) : n \in DOMAIN record}
           bad(n) == ~supportsVectors /\ record[n].shape = "list2D"
<1>1. sent = IF all = {} \/ Throws \in all THEN {Throws} ELSE all
  BY DEF OfRecord
<1>2. \A n \in DOMAIN record : record[n] \in Shapes
  BY DEF Records
<1>3. \A n \in DOMAIN record :
        /\ bad(n) => of(n) = {Throws}
        /\ ~bad(n) => Throws \notin of(n) /\ of(n) # {} /\ Received(of(n)) = Named(n, record[n].of)
  BY <1>2, OfNameSends
<1>4. record = <<>> <=> DOMAIN record = {}
  <2>1. record = [n \in DOMAIN record |-> record[n]]
    BY DEF Records
  <2>2. DOMAIN <<>> = {} /\ <<>> = [n \in {} |-> record[n]]
    OBVIOUS
  <2> QED BY <2>1, <2>2
<1> HIDE DEF of, bad
<1>5. all = {} <=> DOMAIN record = {}
  <2>1. \A n \in DOMAIN record : of(n) # {}
    BY <1>3
  <2>2. \A n \in DOMAIN record : \A x \in of(n) : x \in all
    OBVIOUS
  <2>3. DOMAIN record = {} => all = {}
    OBVIOUS
  <2> QED BY <2>1, <2>2, <2>3
<1>6. Throws \in all <=> \E n \in DOMAIN record : bad(n)
  <2>1. Throws \in all <=> \E n \in DOMAIN record : Throws \in of(n)
    OBVIOUS
  <2> QED BY <1>3, <2>1
<1>7. CASE record = <<>> \/ \E n \in DOMAIN record : bad(n)
  BY <1>1, <1>4, <1>5, <1>6, <1>7 DEF bad
<1>8. CASE ~(record = <<>> \/ \E n \in DOMAIN record : bad(n))
  <2>1. sent = all
    BY <1>1, <1>4, <1>5, <1>6, <1>8
  <2>2. \A n \in DOMAIN record : Received(of(n)) = Named(n, record[n].of)
    BY <1>3, <1>8
  <2>3. \A x : x \in Received(all) <=> \E n \in DOMAIN record : x \in Received(of(n))
    <3>1. \A e : e \in all <=> \E n \in DOMAIN record : e \in of(n)
      OBVIOUS
    <3>2. \A t, x : x \in Received(t) <=> \E e \in t : x \in Named(e.name, e.of)
      BY Zenon DEF Received
    <3> HIDE DEF all
    <3> QED BY <3>1, <3>2, Zenon
  <2>4. \A x : x \in UNION {Named(n, record[n].of) : n \in DOMAIN record}
                 <=> \E n \in DOMAIN record : x \in Named(n, record[n].of)
    BY Zenon
  <2> HIDE DEF all
  <2>5. Received(sent) = UNION {Named(n, record[n].of) : n \in DOMAIN record}
    BY <2>1, <2>2, <2>3, <2>4
  <2> QED BY <1>8, <2>5 DEF bad
<1> QED BY <1>7, <1>8

LEMMA OfArraySends ==
  ASSUME NEW s, NEW supportsVectors, NEW sent, sent = OfArray(s, supportsVectors)
  PROVE  \/ sent = {Throws} /\ (s.of = <<>> \/ ~supportsVectors)
         \/ Received(sent) = Named(NoName, s.of)
<1>1. CASE s.of = <<>> \/ (s.shape = "2D" /\ ~supportsVectors)
  BY <1>1 DEF OfArray
<1>2. CASE ~(s.of = <<>> \/ (s.shape = "2D" /\ ~supportsVectors))
  <2> DEFINE type == IF s.shape = "1D" THEN "single" ELSE "multi"
  <2>1. sent = {Entry(NoName, type, s.of)}
    BY <1>2, Zenon DEF OfArray
  <2> HIDE DEF type
  <2> QED BY <2>1, AllInOne
<1> QED BY <1>1, <1>2

SearchIInv ==
  asked \in {[kind |-> "none"]} \cup Searches \cup [kind : {"rows"}, rows : Rows]

\* Each vector of a search by vectors reaches the server under its name, or the
\* search throws, except in a hybrid search that names a vector "query" or
\* "vector", of which nothing is said; and vectors of one length, below the
\* limit of the header, are read back as they were written (vectors,
\* vectorsToBytes and vectorsFromBytes).
THEOREM SearchesArrive == SearchSpec => []VectorsArrive
<1>1. SearchInit => SearchIInv
  BY DEF SearchInit, SearchIInv
<1>2. SearchIInv /\ [Ask]_asked => SearchIInv'
  BY DEF SearchIInv, Ask
<1>3. SearchIInv => NoVectorDropped
  <2> SUFFICES ASSUME SearchIInv, asked.kind = "search",
                      ~(asked.api = "hybrid" /\ (IsNearText(asked) \/ IsNearVector(asked)))
               PROVE  LET sent == SentBy(asked)
                          Unsupported(s) == ~asked.supportsVectors /\ s.shape = "list2D"
                      IN  IF asked.named
                          THEN IF asked.vector = <<>> \/ \E n \in DOMAIN asked.vector : Unsupported(asked.vector[n])
                               THEN sent = {Throws}
                               ELSE Received(sent) = UNION {Named(n, asked.vector[n].of) : n \in DOMAIN asked.vector}
                          ELSE \/ sent = {Throws} /\ (asked.vector.of = <<>> \/ ~asked.supportsVectors)
                               \/ Received(sent) = Named(NoName, asked.vector.of)
    BY Zenon DEF NoVectorDropped, Received, Named
  <2>1. asked \in Searches
    BY DEF SearchIInv
  <2>2. asked.named => asked.vector \in Records
    BY <2>1 DEF Searches
  <2>3. SentBy(asked) = IF asked.named THEN OfRecord(asked.vector, asked.supportsVectors)
                        ELSE OfArray(asked.vector, asked.supportsVectors)
    BY DEF SentBy, OfHybrid
  <2>4. CASE asked.named
    <3>1. SentBy(asked) = OfRecord(asked.vector, asked.supportsVectors)
      BY <2>3, <2>4
    <3> QED BY <2>2, <2>4, <3>1, OfRecordSends
  <2>5. CASE ~asked.named
    <3>1. SentBy(asked) = OfArray(asked.vector, asked.supportsVectors)
      BY <2>3, <2>5
    <3> QED BY <2>5, <3>1, OfArraySends
  <2> QED BY <2>4, <2>5
<1>4. SearchIInv => RowsComeBack
  <2> SUFFICES ASSUME SearchIInv, asked.kind = "rows", Len(asked.rows[1]) < Word
               PROVE  LET rows == asked.rows
                          back == FromBytes(ToBytes(rows))
                          Even == \A i \in DOMAIN rows : Len(rows[i]) = Len(rows[1])
                      IN  /\ Even => ~ToBytes(rows).throws /\ back = rows
                          /\ ~Even /\ ~ToBytes(rows).throws =>
                               /\ Len(back) = Len(rows)
                               /\ \A i \in DOMAIN back : Len(back[i]) = Len(rows[1])
    BY Zenon DEF RowsComeBack
  <2>1. asked.rows \in Rows
    <3>1. \A a \in Searches : a.kind # "rows"
      BY DEF Searches
    <3>2. asked \in [kind : {"rows"}, rows : Rows]
      BY <3>1 DEF SearchIInv
    <3> QED BY <3>2
  <2> QED BY <2>1, RowsBack
<1>5. SearchIInv => VectorsArrive
  BY <1>3, <1>4 DEF VectorsArrive
<1> QED BY <1>1, <1>2, <1>5, PTL DEF SearchSpec
=============================================================================
