-------------------------------- MODULE Config ------------------------------
(***************************************************************************)
(* config.update of src/src/collections/config/index.ts: it reads the      *)
(* schema of a collection, merges the update into it (MergeWithExisting,   *)
(* classes.ts) and writes the whole schema back, with an await between the *)
(* three.  Several clients may update one collection at the same time.     *)
(*                                                                         *)
(* Of a schema the model keeps what a merge can get wrong: settings that   *)
(* an update may or may not mention (description, inverted index, multi    *)
(* tenancy, replication, time to live), the generative modules, of which   *)
(* there may be one, and the quantizers enabled for each named vector, of  *)
(* which there may be one.  Weaviate, external, replaces the schema by     *)
(* what it is sent.                                                        *)
(***************************************************************************)
EXTENDS Naturals, Sequences, FiniteSets, SequencesExt

CONSTANTS
  Updaters,       \* calls of config.update
  Settings,       \* settings an update may mention
  Unset,          \* the value of a setting nobody has updated
  Mentions,       \* Mentions[u]: the settings u's update mentions
  Generative,     \* Generative[u]: the module u's update names, or NoModule
  NoModule,
  Vectors,        \* the named vectors of the collection
  FlatVectors,    \* those of them with a flat index; the others have hnsw
  FirstQuantizer, \* FirstQuantizer[v]: the set of quantizers v is created with
  VectorOf,       \* VectorOf[u]: the vector whose quantizer u updates
  QuantizerOf,    \* QuantizerOf[u]: the quantizer, or NoQuantizer
  NoQuantizer,
  MaxLost         \* bound: requests that fail or whose answers are lost

Azure == "generative-azure-openai"
OpenAI == "generative-openai"

\* An updater is also the value it writes, so that values tell who wrote them.
ASSUME UpdatersAssumption ==
  /\ Unset \notin Updaters
  /\ Mentions \in [Updaters -> SUBSET Settings]
  /\ Generative \in [Updaters -> STRING]
  /\ QuantizerOf \in [Updaters -> STRING] /\ DOMAIN VectorOf = Updaters
  /\ FlatVectors \subseteq Vectors /\ FirstQuantizer \in [Vectors -> SUBSET STRING]
  /\ \A v \in Vectors : IsFiniteSet(FirstQuantizer[v]) /\ Cardinality(FirstQuantizer[v]) <= 1
  /\ MaxLost \in Nat

VARIABLES
  update,    \* update[u]: where call u stands
  copy,      \* copy[u]: the schema u has read, then the one it has merged
  schema,    \* the schema in Weaviate
  lost,
  written,   \* history: the calls whose schema was written, in order
  seen       \* history: seen[u]: the calls written when u's schema was read

configVars == <<update, copy, schema, lost, written, seen>>

NewSchema ==
  [settings |-> [s \in Settings |-> Unset], modules |-> {},
   quantizers |-> FirstQuantizer]

ConfigInit ==
  /\ update = [u \in Updaters |-> "idle"]
  /\ copy = [u \in Updaters |-> NewSchema]
  /\ schema = NewSchema
  /\ lost = 0
  /\ written = <<>>
  /\ seen = [u \in Updaters |-> {}]

-----------------------------------------------------------------------------
\* Mutant: what the update does not mention is not taken from the schema.
SettingsOfUpdate(current, u) ==
  [s \in Settings |-> IF s \in Mentions[u] THEN u ELSE Unset]

\* schema, invertedIndex, multiTenancy, replication, objectTTL: an update
\* replaces what it mentions.
MergeSettings(current, u) ==
  [s \in Settings |-> IF s \in Mentions[u] THEN u ELSE current[s]]

\* Mutant: the module there was is kept.
AddGenerative(current, u) == current \cup {Generative[u]}

\* generative: the module named replaces another; Azure's is stored under
\* OpenAI's name.
MergeGenerative(current, u) ==
  LET others == {m \in current : m # Generative[u]}
      left == IF others = {} THEN current
              ELSE current \ {CHOOSE m \in others : TRUE}
  IN  left \cup {IF Generative[u] = Azure THEN OpenAI ELSE Generative[u]}

\* hasOtherQuantizerAlready; a flat index is looked at for pq and bq only.
HasOtherQuantizer(current, u) ==
  \E q \in current.quantizers[VectorOf[u]] :
    /\ q # QuantizerOf[u]
    /\ VectorOf[u] \in FlatVectors => {q, QuantizerOf[u]} = {"pq", "bq"}

\* vectors: an update of a vector the collection does not have is skipped.
UpdatesVector(u) == QuantizerOf[u] # NoQuantizer /\ VectorOf[u] \in Vectors

\* hnsw enables the quantizer of the update, flat only bq.
Enables(u) == UpdatesVector(u) /\ (VectorOf[u] \in FlatVectors => QuantizerOf[u] = "bq")

\* The merge throws: the index has another quantizer already.
Refused(current, u) == UpdatesVector(u) /\ HasOtherQuantizer(current, u)

Merge(current, u) ==
  [settings |-> MergeSettings(current.settings, u),
   modules |-> IF Generative[u] = NoModule THEN current.modules
               ELSE MergeGenerative(current.modules, u),
   quantizers |-> IF Enables(u)
                  THEN [current.quantizers EXCEPT ![VectorOf[u]] = @ \cup {QuantizerOf[u]}]
                  ELSE current.quantizers]

-----------------------------------------------------------------------------
Goes(u, from, to) ==
  /\ update[u] = from
  /\ update' = [update EXCEPT ![u] = to]

\* getRaw: the schema is asked for ...
CallUpdate(u) ==
  /\ Goes(u, "idle", "reading")
  /\ UNCHANGED <<copy, schema, lost, written, seen>>

\* ... and read.
Read(u) ==
  /\ Goes(u, "reading", "read")
  /\ copy' = [copy EXCEPT ![u] = schema]
  /\ seen' = [seen EXCEPT ![u] = ToSet(written)]
  /\ UNCHANGED <<schema, lost, written>>

\* The schema arrives: merge, and send it back unless the merge throws.
MergeAndSend(u) ==
  /\ \/ /\ Refused(copy[u], u)
        /\ Goes(u, "read", "threw")
        /\ UNCHANGED copy
     \/ /\ ~Refused(copy[u], u)
        /\ Goes(u, "read", "writing")
        /\ copy' = [copy EXCEPT ![u] = Merge(copy[u], u)]
  /\ UNCHANGED <<schema, lost, written, seen>>

Write(u) ==
  /\ Goes(u, "writing", "written")
  /\ schema' = copy[u]
  /\ written' = Append(written, u)
  /\ UNCHANGED <<copy, lost, seen>>

Resolve(u) ==
  /\ Goes(u, "written", "resolved")
  /\ UNCHANGED <<copy, schema, lost, written, seen>>

\* A request fails, or its answer is lost.
RequestFails(u) ==
  /\ lost < MaxLost
  /\ lost' = lost + 1
  /\ \E at \in {"reading", "read", "writing", "written"} : Goes(u, at, "failed")
  /\ UNCHANGED <<copy, schema, written, seen>>

ConfigNext ==
  \E u \in Updaters :
    \/ CallUpdate(u) \/ Read(u) \/ MergeAndSend(u) \/ Write(u) \/ Resolve(u)
    \/ RequestFails(u)

ConfigSpec == ConfigInit /\ [][ConfigNext]_configVars

-----------------------------------------------------------------------------
Schemas ==
  [settings : [Settings -> Updaters \cup {Unset}],
   modules : SUBSET ({Generative[u] : u \in Updaters} \cup {OpenAI}),
   quantizers : [Vectors -> SUBSET ({QuantizerOf[u] : u \in Updaters}
                                    \cup UNION {FirstQuantizer[v] : v \in Vectors})]]

\* Types of the state.
ConfigTypeOK ==
  /\ update \in [Updaters -> {"idle", "reading", "read", "threw", "writing", "written",
                              "resolved", "failed"}]
  /\ copy \in [Updaters -> Schemas]
  /\ schema \in Schemas
  /\ lost \in Nat
  /\ written \in Seq(Updaters)
  /\ seen \in [Updaters -> SUBSET Updaters]

\* Whatever updates overlap, the collection never has two quantizers for one
\* vector of an hnsw index, nor pq and bq for a flat one, nor two generative
\* modules, and Azure's never under its own name (hnsw, flat and generative of
\* MergeWithExisting).
OneOfEach ==
  /\ \A v \in Vectors \ FlatVectors : Cardinality(schema.quantizers[v]) <= 1
  /\ \A v \in FlatVectors : ~({"pq", "bq"} \subseteq schema.quantizers[v])
  /\ Cardinality(schema.modules) <= 1 /\ Azure \notin schema.modules

\* Call v came after call u: it read the schema that u had written.
After(v, u) == u \in seen[v]

\* What u's update asked for that the schema shows, unless another update among
\* those of others asked for something else.
Kept(u, others) ==
  /\ \A s \in Mentions[u] : \/ schema.settings[s] = u
                          \/ \E v \in others : s \in Mentions[v]
  /\ Generative[u] # NoModule =>
       \/ (IF Generative[u] = Azure THEN OpenAI ELSE Generative[u]) \in schema.modules
       \/ \E v \in others : Generative[v] \notin {NoModule, Generative[u]}
  /\ Enables(u) => QuantizerOf[u] \in schema.quantizers[VectorOf[u]]

\* A written update is lost to an overlap only: everything it changed stays
\* until a later update changes the same, or until one is written that had read
\* the schema before and puts back what it read.
LostToOverlapOnly ==
  \A i \in DOMAIN written :
    LET later == {written[j] : j \in (i + 1) .. Len(written)}
    IN  \/ Kept(written[i], later)
        \/ \E v \in later : ~After(v, written[i])

\* Overlapping updates leave a schema that is valid and complete but for what
\* they put back (ConfigClient.update).
MergesAreSound == OneOfEach /\ LostToOverlapOnly
=============================================================================
