------------------------------- MODULE Search -------------------------------
(***************************************************************************)
(* How src/src/collections/serialize/index.ts sends the vectors to search  *)
(* for: which vectors nearVector and hybrid send under which names, to     *)
(* servers with the field "vectors" (1.29) and without, and the bytes of a *)
(* list of vectors, which deserialize/index.ts reads back from an answer.  *)
(*                                                                         *)
(* A number is a token, and 0 what the buffer was filled with.  Vectors    *)
(* are tokens too where only their number and names matter.  The names of  *)
(* the targets, their weights and how they are combined are left out.      *)
(***************************************************************************)
EXTENDS Naturals, Sequences, SequencesExt

CONSTANTS
  SearchNames,   \* the names of vectors
  Word,          \* the first number too large for a Uint16
  MaxRows,       \* bound: the rows of a list of vectors
  MaxDimension   \* bound: their lengths

ASSUME SearchAssumption == Word \in Nat /\ MaxRows \in Nat /\ MaxDimension \in Nat

VARIABLE asked   \* the vectors of a search, or a list of vectors for the wire

\* One vector, a multi-vector, a list of vectors, a list of multi-vectors, and
\* an empty array (NearVectorInputType).
Shapes ==
  {[shape |-> "1D", of |-> <<"v">>], [shape |-> "2D", of |-> <<"v", "w">>],
   [shape |-> "list1D", of |-> <<"v", "w">>], [shape |-> "list2D", of |-> <<"m", "n">>],
   [shape |-> "1D", of |-> <<>>]}
Arrays == {s \in Shapes : s.shape \in {"1D", "2D"}}
Records == UNION {[names -> Shapes] : names \in SUBSET SearchNames}

Searches ==
  [kind : {"search"}, api : {"nearVector", "hybrid"}, supportsVectors : BOOLEAN,
   named : {TRUE}, vector : Records]
  \cup
  [kind : {"search"}, api : {"nearVector", "hybrid"}, supportsVectors : BOOLEAN,
   named : {FALSE}, vector : Arrays]

\* Number j of row i is a token of its own.
Row(i, length) == [j \in 1..length |-> 10 * i + j]
Rows ==
  {[i \in DOMAIN lengths |-> Row(i, lengths[i])] :
     lengths \in {l \in SeqOf(1..MaxDimension, MaxRows) : l # <<>>}}

\* Nothing is kept between two searches, so one is enough.
SearchInit == asked = [kind |-> "none"]
Ask == asked.kind = "none" /\ asked' \in Searches \cup [kind : {"rows"}, rows : Rows]
SearchSpec == SearchInit /\ [][Ask]_asked

-----------------------------------------------------------------------------
NoName == "none"
Throws == [name |-> "throws", type |-> "none", of |-> <<>>]

\* A vector that is sent: its target, its type and its rows.
Entry(name, type, of) == [name |-> name, type |-> type, of |-> of]

\* vectors, for one name: a server without the field gets each vector for
\* itself; one with it gets a list of vectors in one message, and each
\* multi-vector in a message of its own.
OfName(name, s, supportsVectors) ==
  CASE ~supportsVectors /\ s.shape = "list2D" -> {Throws}
    [] ~supportsVectors /\ s.shape \in {"2D", "list1D"} ->
         {Entry(name, "single", <<s.of[i]>>) : i \in DOMAIN s.of}
    [] supportsVectors /\ s.shape = "list2D" ->
         {Entry(name, "multi", <<s.of[i]>>) : i \in DOMAIN s.of}
    [] supportsVectors /\ s.shape = "2D" -> {Entry(name, "multi", s.of)}
    [] OTHER -> {Entry(name, "single", s.of)}

\* An exception for one name is one for the search.
OfRecord(record, supportsVectors) ==
  LET all == UNION {OfName(name, record[name], supportsVectors) : name \in DOMAIN record}
  IN  IF all = {} \/ Throws \in all THEN {Throws} ELSE all

OfArray(s, supportsVectors) ==
  IF s.of = <<>> \/ (s.shape = "2D" /\ ~supportsVectors) THEN {Throws}
  ELSE {Entry(NoName, IF s.shape = "1D" THEN "single" ELSE "multi", s.of)}

\* The vector of a sub-search: a list of vectors is an object too, and is taken
\* for a record of names, of which two are of text.
OfSubSearch(s, supportsVectors) ==
  IF s.shape \in {"1D", "2D"} THEN OfArray(s, supportsVectors) ELSE {Throws}

\* isHybridNearTextSearch, isHybridNearVectorSearch
IsNearText(a) == a.named /\ "query" \in DOMAIN a.vector
IsNearVector(a) == a.named /\ "vector" \in DOMAIN a.vector

\* hybridVector; a near-text search sends text instead of vectors.
OfHybrid(a) ==
  CASE IsNearText(a) -> {}
    [] ~IsNearText(a) /\ IsNearVector(a) -> OfSubSearch(a.vector["vector"], a.supportsVectors)
    [] OTHER -> IF a.named THEN OfRecord(a.vector, a.supportsVectors)
                ELSE OfArray(a.vector, a.supportsVectors)

SentBy(a) ==
  IF a.api = "hybrid" THEN OfHybrid(a)
  ELSE IF a.named THEN OfRecord(a.vector, a.supportsVectors)
  ELSE OfArray(a.vector, a.supportsVectors)

-----------------------------------------------------------------------------
Past(rows, i) == (i - 1) * Len(rows[1]) + Len(rows[i]) > Len(rows) * Len(rows[1])

\* The rows that write to a slot of the buffer.
Writers(rows, k) ==
  {i \in DOMAIN rows : k - (i - 1) * Len(rows[1]) \in DOMAIN rows[i]}

\* Mutant: the buffer is one row too short.
SlotsLessOne(rows) == 1 .. (Len(rows) - 1) * Len(rows[1])

\* The buffer has as many slots as if all rows were as long as the first.
Slots(rows) == 1 .. Len(rows) * Len(rows[1])

\* vectorsToBytes: each row is written where it would begin if all were as long
\* as the first, and a later one over an earlier; a write past the end throws.
ToBytes(rows) ==
  [throws |-> \E i \in DOMAIN rows : Past(rows, i),
   dimension |-> Len(rows[1]) % Word,
   slots |-> [k \in Slots(rows) |->
                LET by == Writers(rows, k)
                IN  IF by = {} THEN 0
                    ELSE LET i == Max(by) IN rows[i][k - (i - 1) * Len(rows[1])]]]

\* vectorsFromBytes: a list of Infinity or of a broken number of rows throws.
FromBytes(bytes) ==
  IF bytes.dimension = 0 \/ Len(bytes.slots) % bytes.dimension # 0 THEN <<>>
  ELSE [i \in 1 .. Len(bytes.slots) \div bytes.dimension |->
          SubSeq(bytes.slots, (i - 1) * bytes.dimension + 1, i * bytes.dimension)]

-----------------------------------------------------------------------------
\* Every vector that is given is sent under its name, or the search throws:
\* for an empty record or array, and for multi-vectors without a name and lists
\* of them on a server without the field "vectors".  But hybrid takes a record
\* with a vector named "query" or "vector" for a search by text or by that one
\* vector alone.
NoVectorDropped ==
  asked.kind = "search" =>
    LET sent == SentBy(asked)
        Misread == asked.api = "hybrid" /\ (IsNearText(asked) \/ IsNearVector(asked))
        Unsupported(s) == ~asked.supportsVectors /\ s.shape = "list2D"
        Flat(name, of) == {<<name, of[i]>> : i \in DOMAIN of}
        Arrived == UNION {Flat(e.name, e.of) : e \in sent}
    IN  ~Misread =>
          IF asked.named
          THEN IF asked.vector = <<>> \/ \E n \in DOMAIN asked.vector : Unsupported(asked.vector[n])
               THEN sent = {Throws}
               ELSE Arrived = UNION {Flat(n, asked.vector[n].of) : n \in DOMAIN asked.vector}
          ELSE \/ sent = {Throws} /\ (asked.vector.of = <<>> \/ ~asked.supportsVectors)
               \/ Arrived = Flat(NoName, asked.vector.of)

\* Rows of one length come back as they are, if the length is no more than a
\* Uint16 holds.  Rows of several lengths are not refused unless one reaches
\* past the end: they come back in the length of the first.
RowsComeBack ==
  asked.kind = "rows" =>
    LET rows == asked.rows
        back == FromBytes(ToBytes(rows))
        Even == \A i \in DOMAIN rows : Len(rows[i]) = Len(rows[1])
    IN  Len(rows[1]) < Word =>
          /\ Even => ~ToBytes(rows).throws /\ back = rows
          /\ ~Even /\ ~ToBytes(rows).throws =>
               /\ Len(back) = Len(rows)
               /\ \A i \in DOMAIN back : Len(back[i]) = Len(rows[1])

\* What is searched for arrives as it was given, outside the cases named above.
VectorsArrive == NoVectorDropped /\ RowsComeBack
=============================================================================
