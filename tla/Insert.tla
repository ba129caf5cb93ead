-------------------------------- MODULE Insert ------------------------------
(***************************************************************************)
(* insertMany of src/src/collections/data/index.ts: its objects are        *)
(* serialized one by one, each in a timer of its own (iterate of           *)
(* Serialize.batchObjects), while another timer looks whether all of them  *)
(* are there (waitFor); then they are sent in one request, which is sent   *)
(* again when the server is not available (retryOptions), and the reply,   *)
(* which names errors by position, becomes one response per object.        *)
(*                                                                         *)
(* An object is its position, and so is the uuid it is given; an object    *)
(* that cannot be serialized makes iterate throw, for the first object in  *)
(* the call and for the others in a timer, where nobody catches it.        *)
(***************************************************************************)
EXTENDS Naturals, Sequences, FiniteSets, SequencesExt

CONSTANTS
  Objects,        \* how many objects there are
  MaxAttempts     \* retryMaxAttempts, how often a request is sent again

ASSUME InsertAssumption == Objects \in Nat \ {0} /\ MaxAttempts \in Nat

VARIABLES
  throwing,    \* the objects that batchObject throws for; it does not change
  insertion,   \* where insertMany stands
  nextObject,  \* the object the next timer of iterate serializes
  mapped,      \* the objects serialized, in the order in which they were
  attempts,    \* how often the request was sent
  request,     \* the request in Weaviate: none, sent, served
  invalid,     \* the positions of the objects its reply has an error for
  stored,      \* the uuids stored in Weaviate
  responses    \* allResponses: by position, a uuid, or 0 for an error

insertVars == <<throwing, insertion, nextObject, mapped, attempts, request, invalid,
                stored, responses>>

InsertInit ==
  /\ throwing \in SUBSET (1..Objects)
  /\ insertion = "idle" /\ nextObject = 1
  /\ mapped = <<>> /\ attempts = 0 /\ request = "none"
  /\ invalid = {} /\ stored = {} /\ responses = <<>>

\* Mutant: an object gets its uuid where it is stored.
UuidOfAttempt(i) == i + Objects * attempts

\* obj.id ? obj.id : uuidv4(), before the request is sent.
UuidOf(i) == i

\* iterate: the timer for the object after this is set first.  What is thrown
\* rejects the call only if it is thrown before the first timer.
Iterate ==
  /\ nextObject <= Objects
  /\ nextObject' = nextObject + 1
  /\ mapped' = IF nextObject \in throwing THEN mapped ELSE Append(mapped, nextObject)

CallInsertMany ==
  /\ insertion = "idle"
  /\ Iterate
  /\ insertion' = IF 1 \in throwing THEN "rejected" ELSE "serializing"
  /\ UNCHANGED <<throwing, attempts, request, invalid, stored, responses>>

IterateTimer ==
  /\ insertion # "idle"
  /\ Iterate
  /\ UNCHANGED <<throwing, insertion, attempts, request, invalid, stored, responses>>

\* waitFor: objs.length < objects.length
AllMapped == Len(mapped) >= Objects

\* poll finds them all, and the request is sent.
SendObjects ==
  /\ insertion = "serializing" /\ AllMapped
  /\ insertion' = "sent" /\ request' = "sent"
  /\ UNCHANGED <<throwing, nextObject, mapped, attempts, invalid, stored, responses>>

\* Weaviate stores the objects it finds no error in, under their uuids.
ServeObjects ==
  /\ request = "sent"
  /\ request' = "served"
  /\ invalid' \in SUBSET (DOMAIN mapped)
  /\ stored' = stored \cup {UuidOf(mapped[i]) : i \in DOMAIN mapped \ invalid'}
  /\ UNCHANGED <<throwing, insertion, nextObject, mapped, attempts, responses>>

\* The server is not available, before or after it served the request, and the
\* request is sent again.
Retry ==
  /\ insertion = "sent" /\ attempts < MaxAttempts
  /\ attempts' = attempts + 1
  /\ request' = "sent"
  /\ UNCHANGED <<throwing, insertion, nextObject, mapped, invalid, stored, responses>>

\* The request fails for good, or its time-out comes.
InsertFails ==
  /\ insertion = "sent"
  /\ insertion' = "rejected"
  /\ UNCHANGED <<throwing, nextObject, mapped, attempts, request, invalid, stored, responses>>

\* Mutant: the errors are put in front.
ErrorsFirst == [i \in DOMAIN mapped |-> IF i <= Cardinality(invalid) THEN 0
                                         ELSE UuidOf(mapped[i])]

\* Deserialize.batchObjects: the errors by position, else the uuid sent there.
Responses == [i \in DOMAIN mapped |-> IF i \in invalid THEN 0 ELSE UuidOf(mapped[i])]

ReplyArrives ==
  /\ insertion = "sent" /\ request = "served"
  /\ insertion' = "resolved"
  /\ responses' = Responses
  /\ UNCHANGED <<throwing, nextObject, mapped, attempts, request, invalid, stored>>

InsertNext ==
  \/ CallInsertMany \/ IterateTimer \/ SendObjects
  \/ ServeObjects \/ Retry \/ InsertFails \/ ReplyArrives

\* Timers fire; a request is answered, or fails at its time-out.
InsertFairness == WF_insertVars(IterateTimer \/ SendObjects \/ ReplyArrives \/ InsertFails)

InsertSpec == InsertInit /\ [][InsertNext]_insertVars /\ InsertFairness

-----------------------------------------------------------------------------
\* Types of the state.
InsertTypeOK ==
  /\ throwing \subseteq 1..Objects /\ invalid \subseteq 1..Objects
  /\ insertion \in {"idle", "serializing", "sent", "resolved", "rejected"}
  /\ nextObject \in 1..(Objects + 1)
  /\ mapped \in Seq(1..Objects)
  /\ attempts \in 0..MaxAttempts /\ request \in {"none", "sent", "served"}
  /\ stored \subseteq Nat /\ responses \in Seq(0..Objects)

\* When insertMany resolves there is one response per object, at its position:
\* the uuid under which it is stored, or an error if Weaviate found it invalid.
OneResponseEach ==
  insertion = "resolved" =>
    /\ Len(responses) = Objects
    /\ \A i \in 1..Objects :
         IF i \in invalid THEN responses[i] = 0
         ELSE responses[i] = UuidOf(i) /\ responses[i] \in stored

\* However often the request is sent again, an object is stored once: its uuid
\* was chosen before.
StoredOnce == Cardinality(stored) <= Len(mapped)

\* A batch that is sent again stores each object once and answers for each.
InsertedOnce == OneResponseEach /\ StoredOnce

\* insertMany settles if every object can be serialized; for one that cannot,
\* unless it is the first, waitFor polls for ever.
InsertSettles ==
  []<>(insertion \in {"serializing", "sent"} => throwing # {})
=============================================================================
