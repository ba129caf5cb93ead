---------------------------- MODULE ClientProofs ----------------------------
(***************************************************************************)
(* Proofs about a client as a whole (MCClient), for every value of the     *)
(* constants of its parts: a behaviour of the client is one of each of its *)
(* parts, so that what is proved of a part on its own is true of it in the *)
(* client, where the run Client.cfg checks it.                             *)
(***************************************************************************)
EXTENDS MCClient, CollectionProofs, IteratorProofs, RequestProofs

allVars == <<used, clientVars, collectionVars>>

-----------------------------------------------------------------------------
(***************************************************************************)
(* A step of the client is a step of one part, and leaves alone the state  *)
(* of every other.                                                         *)
(***************************************************************************)
LEMMA CollectionSteps ==
  ASSUME [ClientNext]_allVars
  PROVE  /\ [InsertNext]_insertVars /\ [IteratorNext]_iteratorVars /\ [ConfigNext]_configVars
         /\ [ShardsNext]_shardsVars /\ [TenantsNext]_tenantsVars /\ [FilterNext]_filterVars
         /\ [Give]_given /\ [Ask]_asked
<1>1. [CollectionNext]_collectionVars
  BY DEF ClientNext, allVars
<1>2. CASE UNCHANGED collectionVars
  BY <1>2 DEF collectionVars, serialVars
<1>3. CASE CollectionNext
  BY <1>3 DEF CollectionNext, serialVars
<1> QED
  BY <1>1, <1>2, <1>3

LEMMA OtherSteps ==
  ASSUME [ClientNext]_allVars
  PROVE  /\ [ConnectionNext]_connectionVars /\ [VersionNext]_versionVars
         /\ [ClassificationNext]_classificationVars /\ [BuilderNext]_builderVars
         /\ [RolesNext]_rolesVars /\ [RestNext]_restVars /\ [QueueNext]_queueVars
<1>1. CASE UNCHANGED clientVars
  BY <1>1 DEF clientVars
<1>2. CASE ClientNext /\ ~UNCHANGED clientVars
  BY <1>2 DEF ClientNext
<1> QED
  BY <1>1, <1>2 DEF allVars

LEMMA PartsStart ==
  ASSUME ClientInit
  PROVE  /\ InsertInit /\ IteratorInit /\ ConfigInit /\ ShardsInit /\ TenantsInit /\ FilterInit
         /\ ValuesInit /\ SearchInit
         /\ ConnectionInit /\ VersionInit /\ ClassificationInit /\ BuilderInit /\ RolesInit
         /\ RestInit /\ QueueInit
BY DEF ClientInit, CollectionInit

-----------------------------------------------------------------------------
\* A behaviour of a client (MCClient) is one of each part of its collections,
\* fairness included: what is true of every behaviour of a part is true of it
\* in a client (collections/collection/index.ts, which makes the parts).
THEOREM CollectionIsItsParts ==
  ClientSpec => /\ InsertSpec /\ IteratorSpec /\ ConfigSpec /\ ShardsSpec /\ TenantsSpec
                /\ FilterSpec /\ ValuesSpec /\ SearchSpec
<1>1. ClientInit => /\ InsertInit /\ IteratorInit /\ ConfigInit /\ ShardsInit /\ TenantsInit
                    /\ FilterInit /\ ValuesInit /\ SearchInit
  BY PartsStart
<1>2. [ClientNext]_allVars =>
        /\ [InsertNext]_insertVars /\ [IteratorNext]_iteratorVars /\ [ConfigNext]_configVars
        /\ [ShardsNext]_shardsVars /\ [TenantsNext]_tenantsVars /\ [FilterNext]_filterVars
        /\ [Give]_given /\ [Ask]_asked
  BY CollectionSteps
<1> QED
  BY <1>1, <1>2, PTL DEF ClientSpec, CollectionFairness, InsertSpec, IteratorSpec, ConfigSpec,
       ShardsSpec, TenantsSpec, FilterSpec, ValuesSpec, SearchSpec, allVars

\* The same of what the handle's other parts are and of the v2 client: the
\* connection, the version of the server, and the requests made over REST; and
\* of the queue of a batch, whose readers run only where one is used.
THEOREM ClientIsItsParts ==
  ClientSpec => /\ ConnectionSpec /\ VersionSpec /\ ClassificationSpec /\ BuilderSpec
                /\ RolesSpec /\ RestSpec /\ QueueInit /\ [][QueueNext]_queueVars
<1>1. ClientInit => /\ ConnectionInit /\ VersionInit /\ ClassificationInit /\ BuilderInit
                    /\ RolesInit /\ RestInit /\ QueueInit
  BY PartsStart
<1>2. [ClientNext]_allVars =>
        /\ [ConnectionNext]_connectionVars /\ [VersionNext]_versionVars
        /\ [ClassificationNext]_classificationVars /\ [BuilderNext]_builderVars
        /\ [RolesNext]_rolesVars /\ [RestNext]_restVars /\ [QueueNext]_queueVars
  BY OtherSteps
<1> QED
  BY <1>1, <1>2, PTL DEF ClientSpec, ConnectionSpec, VersionSpec, ClassificationSpec,
       BuilderSpec, RolesSpec, RestSpec, allVars

\* All state that a client keeps, that of every call under way included, stays
\* of its type, whatever the calls and failures and in whatever order.
THEOREM ClientTypes == ClientSpec => []ClientTypeOK
<1>1. ClientSpec => []InsertTypeOK
  BY CollectionIsItsParts, InsertInvariant, PTL DEF InsertIInv
<1>2. ClientSpec => []IteratorTypeOK
  BY CollectionIsItsParts, TypeCorrect, PTL
<1>3. ClientSpec => []ConfigTypeOK
  BY CollectionIsItsParts, ConfigInvariant, PTL DEF ConfigIInv
<1>4. ClientSpec => []ShardsTypeOK
  BY CollectionIsItsParts, ShardsInvariant, PTL DEF ShardsIInv
<1>5. ClientSpec => []TenantsTypeOK
  BY CollectionIsItsParts, TenantsInvariant, PTL DEF TenantsIInv
<1>6. ClientSpec => []FilterTypeOK
  BY CollectionIsItsParts, FilterInvariant, PTL DEF FilterIInv
<1>7. ClientSpec => []ConnectionTypeOK
  BY ClientIsItsParts, ConnectionTypeCorrect, PTL
<1>8. ClientSpec => []VersionTypeOK
  BY ClientIsItsParts, VersionInvariant, PTL DEF VersionIInv
<1>9. ClientSpec => []ClassificationTypeOK
  BY ClientIsItsParts, ClassificationInvariant, PTL DEF ClassificationIInv
<1>10. ClientSpec => []BuilderTypeOK
  BY ClientIsItsParts, BuilderInvariant, PTL DEF BuilderIInv
<1>11. ClientSpec => []RolesTypeOK
  BY ClientIsItsParts, RolesInvariant, PTL DEF RolesIInv
<1>12. ClientSpec => []RestTypeOK
  BY ClientIsItsParts, RestInvariant, PTL DEF RestIInv
<1> QED
  BY <1>1, <1>2, <1>3, <1>4, <1>5, <1>6, <1>7, <1>8, <1>9, <1>10, <1>11, <1>12, PTL
     DEF ClientTypeOK, CollectionTypeOK

\* In a client as in each part alone: what its collections promise of inserts,
\* iterators, shards, tenants, updates of the configuration, filters, values
\* and searches.
THEOREM CollectionsKeepPromises ==
  ClientSpec => /\ [](InsertedOnce /\ RepeatsNeedOverlap /\ MergesAreSound /\ ShardsReportTruly)
                /\ [](UpdateAnswersTruly /\ FreshRefsWork /\ SameBothWays /\ VectorsArrive)
                /\ ImplementsScan
<1>1. ClientSpec => [](InsertedOnce /\ RepeatsNeedOverlap /\ MergesAreSound /\ ShardsReportTruly)
  BY CollectionIsItsParts, InsertsOnce, NoRepeatWithoutOverlap, MergesStaySound,
     ShardsAreReported, PTL
<1>2. ClientSpec => [](UpdateAnswersTruly /\ FreshRefsWork /\ SameBothWays /\ VectorsArrive)
  BY CollectionIsItsParts, UpdatesAnswerTruly, FreshRefsAreFollowed, ValuesMeanTheSame,
     SearchesArrive, PTL
<1> QED
  BY <1>1, <1>2, CollectionIsItsParts, LoopsScan, PTL

\* And what it promises of channels, callers, the version and its features,
\* waits, builders, roles and the values of requests.
THEOREM ClientKeepsPromises ==
  ClientSpec => /\ [](ChannelsAccountedFor /\ StaleOnlyIfReplaced /\ VersionsAreFounded)
                /\ [](FeaturesByOrder /\ WaitIsTrue /\ IncompleteOnce)
                /\ [](RoleShowsGrants /\ ValueIsFounded) /\ HasIsTrue
<1>1. ClientSpec => [](ChannelsAccountedFor /\ StaleOnlyIfReplaced /\ VersionsAreFounded)
  BY ClientIsItsParts, NoChannelUnaccounted, LoginCostsNoRequest, GettersAreFounded, PTL
<1>2. ClientSpec => [](FeaturesByOrder /\ WaitIsTrue /\ IncompleteOnce)
  BY ClientIsItsParts, FeaturesFollowOrder, WaitsAreTrue, OneIncompleteRequest, PTL
<1>3. ClientSpec => [](RoleShowsGrants /\ ValueIsFounded) /\ HasIsTrue
  BY ClientIsItsParts, RolesShowTheirGrants, ValuesAreFounded, HasAnswersTruly, PTL
<1> QED
  BY <1>1, <1>2, <1>3, PTL
=============================================================================
