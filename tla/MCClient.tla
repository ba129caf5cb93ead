------------------------------ MODULE MCClient ------------------------------
(***************************************************************************)
(* Instances of the parts of a client: those of its collections, the queue *)
(* of its batches, the connection, requests over REST, the version of the  *)
(* server, roles, and the v2 client's builders and its wait for a          *)
(* classification.  They share no state, so a behaviour uses one of them   *)
(* and one run checks them all.                                            *)
(***************************************************************************)
EXTENDS MCCollection, Connection, DbVersion, Classification, Builder, Roles, Rest, Queue

clientVars ==
  <<connectionVars, versionVars, classificationVars, builderVars, rolesVars, restVars,
    queueVars>>

ClientParts ==
  {"connection", "version", "classification", "builder", "roles", "rest", "queue"}

ClientInit ==
  /\ used \in ClientParts \cup CollectionParts
  /\ CollectionInit
  /\ ConnectionInit /\ RolesInit /\ QueueInit
  /\ VersionInit /\ (used # "version" => ~swallows)
  /\ ClassificationInit /\ (used # "classification" => waits)
  /\ BuilderInit /\ (used # "builder" => ~validatesLate)
  /\ RestInit /\ (used # "rest" => thing = "absent")

ClientNext ==
  /\ \/ CollectionNext /\ UNCHANGED clientVars
     \/ /\ UNCHANGED collectionVars
        /\ \/ /\ used = "connection" /\ ConnectionNext
              /\ UNCHANGED <<versionVars, classificationVars, builderVars, rolesVars,
                             restVars, queueVars>>
           \/ /\ used = "version" /\ VersionNext
              /\ UNCHANGED <<connectionVars, classificationVars, builderVars, rolesVars,
                             restVars, queueVars>>
           \/ /\ used = "classification" /\ ClassificationNext
              /\ UNCHANGED <<connectionVars, versionVars, builderVars, rolesVars, restVars,
                             queueVars>>
           \/ /\ used = "builder" /\ BuilderNext
              /\ UNCHANGED <<connectionVars, versionVars, classificationVars, rolesVars,
                             restVars, queueVars>>
           \/ /\ used = "roles" /\ RolesNext
              /\ UNCHANGED <<connectionVars, versionVars, classificationVars, builderVars,
                             restVars, queueVars>>
           \/ /\ used = "rest" /\ RestNext
              /\ UNCHANGED <<connectionVars, versionVars, classificationVars, builderVars,
                             rolesVars, queueVars>>
           \/ /\ used = "queue" /\ QueueNext
              /\ UNCHANGED <<connectionVars, versionVars, classificationVars, builderVars,
                             rolesVars, restVars>>
  /\ UNCHANGED used

\* The fairness of Queue, where a queue is used: its first pull needs no other
\* step before it.
ReadersRun ==
  \A r \in Readers : WF_queueVars(used = "queue" /\ Pull(r)) /\ WF_queueVars(Deliver(r))

ClientSpec ==
  /\ ClientInit /\ [][ClientNext]_<<used, clientVars, collectionVars>>
  /\ CollectionFairness /\ ConnectionFairness /\ ClassificationFairness /\ RestFairness
  /\ ReadersRun

\* Types of the parts' state; the queue's are proved of Queue alone.
ClientTypeOK ==
  /\ CollectionTypeOK /\ ConnectionTypeOK /\ VersionTypeOK /\ ClassificationTypeOK
  /\ BuilderTypeOK /\ RolesTypeOK /\ RestTypeOK

\* Every call of a client settles: inserts, loops over an iterator, updates of
\* shards and tenants, requests over gRPC and REST, and classifications.  Left
\* out, since they may stay open for good, are inserts whose serializer throws
\* in a timer, the wait for the body of an answer over REST, and logins.
CallsSettle ==
  /\ InsertSettles /\ LoopEnds /\ ShardsSettle /\ UpdateSettles
  /\ ConnectionSettles /\ RestSettles /\ WaitEnds

-----------------------------------------------------------------------------
\* A server that is upgraded past the first version with namespaced endpoints to
\* one that needs the insert fix, and to one that has every feature but the last.
TheReleases == <<<<1, 13, 0>>, <<1, 24, 25>>, <<1, 37, 3>>>>

\* Versions around those that introduce a feature.
TheSample ==
  {<<1, 27, 13>>, <<1, 27, 14>>, <<1, 28, 0>>, <<1, 28, 7>>, <<1, 28, 8>>, <<1, 29, 0>>,
   <<1, 37, 1>>, <<1, 37, 5>>, <<2, 0, 0>>, <<1, 28>>, <<1, 24, 25>>, <<1, 24, 26>>}

\* Permissions with one key and with several, some of them on one alias for two
\* collections, two sets that share one, and one without an action.
Permission(kind, on, within, actions) ==
  [kind |-> kind, on |-> on, within |-> within, actions |-> actions]
ThePermissions ==
  {{Permission("data", "A", "t1", {"read"}), Permission("data", "A", "*", {"read"}),
    Permission("nodes", "A", "minimal", {"read"})},
   {Permission("data", "A", "t1", {"read"}), Permission("aliases", "x", "A", {"read"}),
    Permission("aliases", "x", "B", {"delete"})},
   {Permission("users", "u", "none", {})}}
=============================================================================
