--------------------------------- MODULE Rest -------------------------------
(***************************************************************************)
(* Requests over httpClient of src/src/connection/http.ts and the          *)
(* operations that turn their answers and errors into a value: exists of   *)
(* roles/index.ts, delete, activate and deactivate of users/index.ts,      *)
(* getByName of collections/tenants/index.ts, which asks servers before    *)
(* 1.28 over gRPC, the HEAD requests of the v2 client and the plain        *)
(* requests with and without a body.                                       *)
(*                                                                         *)
(* The role, user, tenant or object they are about is one thing, absent,   *)
(* active or inactive, in a server, external, that may also refuse.  The   *)
(* timer of a request is cleared when the headers arrive; a body, of an    *)
(* answer or of an error, is read without one.                             *)
(***************************************************************************)
EXTENDS Naturals

CONSTANTS
  Operations,      \* the operations that run side by side
  MaxRestCalls     \* bound: requests altogether

ASSUME MaxRestCallsAssumption == MaxRestCalls \in Nat

VARIABLES
  thing,       \* the thing in the server
  http,        \* http[o]: where the request of operation o stands
  code,        \* code[o]: the status of its answer; NotListed for an empty list
  value,       \* value[o]: what o returned or threw
  restCalls,
  foundAt      \* history: foundAt[o]: the thing when the server served o, or none

restVars == <<thing, http, code, value, restCalls, foundAt>>

RestInit ==
  /\ thing \in {"absent", "active", "inactive"}
  /\ http = [o \in Operations |-> "idle"]
  /\ code = [o \in Operations |-> 0]
  /\ value = [o \in Operations |-> "none"]
  /\ restCalls = 0
  /\ foundAt = [o \in Operations |-> "none"]

-----------------------------------------------------------------------------
\* Mutant: every failure is a denial.
FailureDenies(o, why) == TRUE

\* What makes an operation return false or null where others throw: catch of
\* roles.exists and users.db.delete takes any failure, expectCode a 409,
\* getByName a 404; over gRPC it throws.
Denies(o, why) ==
  \/ o \in {"exists", "deleteUser"}
  \/ o \in {"activate", "deactivate"} /\ why = 409
  \/ o = "getByName" /\ why = 404

\* What an operation makes of a failure: a status of 400 and above, or none.
NoStatus == 0

Failure(o, why) == IF Denies(o, why) THEN "denied" ELSE "threw"

SettlesWith(o, v) ==
  /\ http' = [http EXCEPT ![o] = "settled"]
  /\ value' = [value EXCEPT ![o] = v]

-----------------------------------------------------------------------------
\* An operation is called, perhaps again after it failed.
CallRest(o) ==
  /\ restCalls < MaxRestCalls /\ restCalls' = restCalls + 1
  /\ http[o] \in {"idle", "settled"}
  /\ http' = [http EXCEPT ![o] = "sent"]
  /\ code' = [code EXCEPT ![o] = 0]
  /\ value' = [value EXCEPT ![o] = "none"]
  /\ foundAt' = [foundAt EXCEPT ![o] = "none"]
  /\ UNCHANGED thing

\* getByName over gRPC lists the tenants of that name; an answer comes whole.
OverGrpc(o) == o = "getByNameOverGrpc"
NotListed == 204

\* What the server answers, and what it does.
CodeOf(o) ==
  IF thing = "absent" THEN IF OverGrpc(o) THEN NotListed ELSE 404
  ELSE IF (o = "activate" /\ thing = "active") \/ (o = "deactivate" /\ thing = "inactive")
  THEN 409 ELSE 200

ThingAfter(o) ==
  IF CodeOf(o) # 200 THEN thing
  ELSE IF o = "deleteUser" THEN "absent"
  ELSE IF o = "activate" THEN "active"
  ELSE IF o = "deactivate" THEN "inactive" ELSE thing

ServeRest(o) ==
  /\ http[o] = "sent"
  /\ http' = [http EXCEPT ![o] = "served"]
  /\ \/ /\ code' = [code EXCEPT ![o] = CodeOf(o)]
        /\ thing' = ThingAfter(o)
        /\ foundAt' = [foundAt EXCEPT ![o] = thing]
     \/ /\ \E refusal \in {403, 500} : code' = [code EXCEPT ![o] = refusal]
        /\ UNCHANGED <<thing, foundAt>>
  /\ UNCHANGED <<value, restCalls>>

\* Mutant: handleHeadResponse looks for success only.
BodyUnlessSuccess(o) == code[o] # 200

\* Whether there is a body to read: of an error, except when a HEAD request is
\* answered with a 404, and of an answer to get, which expects one by default
\* although exists has no use for it.
ReadsBody(o) ==
  /\ ~OverGrpc(o)
  /\ IF o = "head" THEN code[o] \notin {200, 404}
     ELSE code[o] >= 400 \/ o \in {"exists", "getByName", "get"}

\* What the status makes of the request (checkStatus, handleHeadResponse); of a
\* list without the tenant, null.
ByStatus(o) ==
  IF code[o] = 200 THEN "true"
  ELSE IF code[o] = NotListed THEN "denied"
  ELSE IF o = "head" /\ ~ReadsBody(o) THEN "denied" ELSE Failure(o, code[o])

\* The headers arrive, or an answer over gRPC: the timer is cleared.
HeadersArrive(o) ==
  /\ http[o] = "served"
  /\ \/ ReadsBody(o) /\ http' = [http EXCEPT ![o] = "body"] /\ UNCHANGED value
     \/ ~ReadsBody(o) /\ SettlesWith(o, ByStatus(o))
  /\ UNCHANGED <<thing, code, restCalls, foundAt>>

BodyArrives(o) ==
  /\ http[o] = "body"
  /\ SettlesWith(o, ByStatus(o))
  /\ UNCHANGED <<thing, code, restCalls, foundAt>>

\* fetchWithTimeout: the timer is set until the headers arrive or fetch fails ...
TimerSet(o) == http[o] \in {"sent", "served"}

\* ... and aborts the request.
RestTimesOut(o) ==
  /\ TimerSet(o)
  /\ SettlesWith(o, Failure(o, NoStatus))
  /\ UNCHANGED <<thing, code, restCalls, foundAt>>

\* The connection breaks.
Breaks(o) ==
  /\ http[o] \in {"sent", "served", "body"}
  /\ SettlesWith(o, Failure(o, NoStatus))
  /\ UNCHANGED <<thing, code, restCalls, foundAt>>

RestNext ==
  \E o \in Operations :
    \/ CallRest(o) \/ ServeRest(o) \/ HeadersArrive(o) \/ BodyArrives(o)
    \/ RestTimesOut(o) \/ Breaks(o)

\* A request that is sent has a timer; nothing bounds the reading of a body.
RestFairness == WF_restVars(\E o \in Operations : RestTimesOut(o))

RestSpec == RestInit /\ [][RestNext]_restVars /\ RestFairness

-----------------------------------------------------------------------------
\* Types of the state.
RestTypeOK ==
  /\ thing \in {"absent", "active", "inactive"}
  /\ http \in [Operations -> {"idle", "sent", "served", "body", "settled"}]
  /\ code \in [Operations -> {0, 200, NotListed, 403, 404, 409, 500}]
  /\ value \in [Operations -> {"none", "true", "denied", "threw"}]
  /\ foundAt \in [Operations -> {"none", "absent", "active", "inactive"}]
  /\ restCalls \in 0..MaxRestCalls

\* What the server must have found for an operation to return true, or false.
TrueOf(o) ==
  CASE o = "activate" -> {"inactive"} [] o = "deactivate" -> {"active"}
    [] OTHER -> {"active", "inactive"}
FalseOf(o) ==
  CASE o = "activate" -> {"active"} [] o = "deactivate" -> {"inactive"}
    [] OTHER -> {"absent"}

\* true, or a value, is what the server found when it served this very request,
\* whatever was lost, refused or tried before; and so is false or null, but for
\* exists and the deletion of a user, which return false for any failure.
ValueIsFounded ==
  \A o \in Operations :
    /\ value[o] = "true" => foundAt[o] \in TrueOf(o)
    /\ value[o] = "denied" /\ o \notin {"exists", "deleteUser"} => foundAt[o] \in FalseOf(o)

\* "resolves to true if the role exists, or false if it does not": a role that
\* exists denies was not there when the server was asked.
DeniedRoleIsMissing == value["exists"] = "denied" => foundAt["exists"] = "absent"

\* Every request settles, or its headers arrive: time and again none waits for
\* the server.
RestSettles == []<>(\A o \in Operations : http[o] \notin {"sent", "served"})
=============================================================================
