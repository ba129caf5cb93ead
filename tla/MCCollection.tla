---------------------------- MODULE MCCollection ----------------------------
(***************************************************************************)
(* Instances of the parts of a collection handle: those that keep state    *)
(* across awaits, insertMany, the iterator, the configuration, shards and  *)
(* tenants, and those that serialize, filters, values and the vectors of a *)
(* search.  They share nothing but the connection, so a behaviour uses one *)
(* of them.                                                                *)
(***************************************************************************)
EXTENDS Insert, Iterator, Config, Shards, Tenants, Filter, Values, Search, TLC

VARIABLE used   \* the part that is used

serialVars == <<given, asked>>

collectionVars == <<insertVars, iteratorVars, configVars, shardsVars, tenantsVars, filterVars, serialVars>>

CollectionParts == {"insert", "iterator", "config", "shards", "tenants", "filter", "values", "search"}

CollectionInit ==
  /\ InsertInit /\ (used # "insert" => throwing = {})
  /\ IteratorInit /\ (used # "iterator" => present = {})
  /\ ConfigInit
  /\ ShardsInit /\ (used # "shards" => status = [s \in Shards |-> "READY"])
  /\ TenantsInit /\ FilterInit /\ ValuesInit /\ SearchInit

CollectionNext ==
  \/ /\ used = "insert" /\ InsertNext
     /\ UNCHANGED <<iteratorVars, configVars, shardsVars, tenantsVars, filterVars, serialVars>>
  \/ /\ used = "iterator" /\ IteratorNext
     /\ UNCHANGED <<insertVars, configVars, shardsVars, tenantsVars, filterVars, serialVars>>
  \/ /\ used = "config" /\ ConfigNext
     /\ UNCHANGED <<insertVars, iteratorVars, shardsVars, tenantsVars, filterVars, serialVars>>
  \/ /\ used = "shards" /\ ShardsNext
     /\ UNCHANGED <<insertVars, iteratorVars, configVars, tenantsVars, filterVars, serialVars>>
  \/ /\ used = "tenants" /\ TenantsNext
     /\ UNCHANGED <<insertVars, iteratorVars, configVars, shardsVars, filterVars, serialVars>>
  \/ /\ used = "filter" /\ FilterNext
     /\ UNCHANGED <<insertVars, iteratorVars, configVars, shardsVars, tenantsVars, serialVars>>
  \/ /\ used = "values" /\ Give
     /\ UNCHANGED <<insertVars, iteratorVars, configVars, shardsVars, tenantsVars, filterVars, asked>>
  \/ /\ used = "search" /\ Ask
     /\ UNCHANGED <<insertVars, iteratorVars, configVars, shardsVars, tenantsVars, filterVars, given>>

CollectionFairness ==
  InsertFairness /\ IteratorFairness /\ ShardsFairness /\ TenantsFairness

\* Types of the parts' state.
CollectionTypeOK ==
  /\ InsertTypeOK /\ IteratorTypeOK /\ ConfigTypeOK /\ ShardsTypeOK /\ TenantsTypeOK
  /\ FilterTypeOK

-----------------------------------------------------------------------------
\* Two settings, of which the second update mentions both; two updates of one
\* vector's quantizer, one of a flat index, and one of an unknown vector.
TheSettings == {"description", "replication"}
TheUpdates == {"u1", "u2", "u3", "u4"}
TheMentions ==
  "u1" :> {"description"} @@ "u2" :> TheSettings @@ "u3" :> {"replication"} @@ "u4" :> {}
TheModules ==
  "u1" :> OpenAI @@ "u2" :> Azure @@ "u3" :> "generative-cohere" @@ "u4" :> NoModule
TheVectors == "u1" :> "title" @@ "u2" :> "title" @@ "u3" :> "unknown" @@ "u4" :> "body"
TheQuantizers == "u1" :> "pq" @@ "u2" :> "sq" @@ "u3" :> "bq" @@ "u4" :> "bq"
FirstQuantizers == "title" :> {} @@ "body" :> {"pq"}

\* A call for all shards, a call and a builder that want another status.
TheNames == "one" :> {"s1"} @@ "all" :> {"s1", "s2"} @@ "builder" :> {"s1", "s2"}
WhoAsks == "one" :> FALSE @@ "all" :> TRUE @@ "builder" :> TRUE
TheStatuses == "one" :> "READONLY" @@ "all" :> "READY" @@ "builder" :> "READONLY"

\* Three chunks, the last not full; a chunk with two of the same tenants; and
\* a call whose status is not known.
TheTenants ==
  "five" :> <<"t1", "t2", "t3", "t4", "t5">> @@ "two" :> <<"t5", "t1">> @@ "wrong" :> <<"t1">>
=============================================================================
