------------------------------- MODULE Values -------------------------------
(***************************************************************************)
(* How src/src/collections/serialize/index.ts sends the value of a filter  *)
(* and of a property.  Each goes two ways: a filter to the gRPC interface  *)
(* for queries (filtersGRPC) and to REST for the aggregations of older     *)
(* servers (filtersREST), a property to REST by insert (restProperties)    *)
(* and to gRPC by insertMany (batchProperties).  JavaScript tells what a   *)
(* value is by guards, of which several may hold or none.                  *)
(*                                                                         *)
(* A value is the kind of its content, or a list of kinds.  An object with *)
(* the one key "number" is a kind of its own, since isPhoneNumber takes it *)
(* for a phone number, and so are the objects with two coordinates.  A     *)
(* number that is not finite, NaN or an infinity, is a kind of its own: it *)
(* is a float for the guards of filters and for no guard of properties.    *)
(***************************************************************************)
EXTENDS Naturals, Sequences, SequencesExt

CONSTANT MaxList   \* bound: the length of lists

ASSUME ValuesAssumption == MaxList \in Nat

VARIABLE given   \* the value to be sent

FilterKinds == {"text", "int", "float", "nonFinite", "bool", "date", "georange"}
ObjectKinds == {"nested", "numberOnly", "geo", "phone"}
Kinds == {"text", "int", "float", "nonFinite", "bool", "date", "null"} \cup ObjectKinds

\* FilterGuards.isFloat: a number that is not an integer.
Floats == {"float", "nonFinite"}

\* Neither guard looks further than the kinds: lists are of the kinds of either.
Lists(kinds) == SeqOf(kinds, MaxList)
Given(kinds) == [list : {FALSE}, of : {<<k>> : k \in kinds}] \cup [list : {TRUE}, of : Lists(kinds)]

ValuesInit == given = [list |-> FALSE, of |-> <<"text">>]
Give == given' \in Given(FilterKinds) \cup Given(Kinds)
ValuesSpec == ValuesInit /\ [][Give]_given

-----------------------------------------------------------------------------
\* Mutant: some element is of the kind.
SomeAre(v, kinds) == v.list /\ \E i \in DOMAIN v.of : v.of[i] \in kinds

\* The guards of lists, which an empty list satisfies: every element is of the
\* kind.
AllAre(v, kinds) == v.list /\ \A i \in DOMAIN v.of : v.of[i] \in kinds

\* The guards of what is not a list.
Is(v, kinds) == ~v.list /\ v.of[1] \in kinds

\* FilterGuards, with what filtersGRPC sets for each.
Fields(v) ==
  {f \in {"Text", "Int", "Number", "Boolean", "Geo"} :
     Is(v, CASE f = "Text" -> {"text", "date"} [] f = "Int" -> {"int"} [] f = "Number" -> Floats
             [] f = "Boolean" -> {"bool"} [] OTHER -> {"georange"})}
  \cup {f \in {"TextArray", "IntArray", "NumberArray", "BooleanArray"} :
     \/ AllAre(v, CASE f = "TextArray" -> {"text"} [] f = "IntArray" -> {"int"}
                    [] f = "NumberArray" -> Floats [] OTHER -> {"bool"})
     \/ f = "TextArray" /\ AllAre(v, {"date"})}

\* filtersREST: the first guard that holds; none is an error.
RestField(v) ==
  IF Is(v, {"text"}) THEN "Text" ELSE IF AllAre(v, {"text"}) THEN "TextArray"
  ELSE IF Is(v, {"int"}) THEN "Int" ELSE IF AllAre(v, {"int"}) THEN "IntArray"
  ELSE IF Is(v, {"bool"}) THEN "Boolean" ELSE IF AllAre(v, {"bool"}) THEN "BooleanArray"
  ELSE IF Is(v, Floats) THEN "Number" ELSE IF AllAre(v, Floats) THEN "NumberArray"
  ELSE IF Is(v, {"date"}) THEN "Date" ELSE IF AllAre(v, {"date"}) THEN "DateArray"
  ELSE IF Is(v, {"georange"}) THEN "Geo" ELSE "throws"

-----------------------------------------------------------------------------
\* What JSON makes of an element that is sent as it is: a number that is not
\* finite is null.
Json(k) == CASE k = "date" -> "text" [] k = "nonFinite" -> "null" [] OTHER -> k

\* toISOString
Iso(k) == IF k = "date" THEN "text" ELSE k

\* What the field of a filter holds: a number stays a double over gRPC.
GrpcContent(v) == [i \in DOMAIN v.of |-> Iso(v.of[i])]
RestContent(v) == [i \in DOMAIN v.of |-> Json(v.of[i])]

\* isPhoneNumber
IsPhone(v) == Is(v, {"phone", "numberOnly"})

\* restProperties: dates and nested objects are what JSON makes of them anyway;
\* a phone number is sent under other keys.
RestSends(v) ==
  [list |-> v.list,
   of |-> IF IsPhone(v) THEN <<"input">> ELSE RestContent(v)]

\* What google.protobuf.Struct makes of an element: an object has the keys it
\* enumerates, and a date has none.
Struct(k) == IF k = "date" THEN "emptyObject" ELSE k

\* isDateArray
AllDates(v) == v.of # <<>> /\ AllAre(v, {"date"})

\* batchProperties: the first guard that holds, and what is sent for it.
BatchSends(v) ==
  LET sent(field, f(_)) == [field |-> field, list |-> v.list, of |-> [i \in DOMAIN v.of |-> f(v.of[i])]]
      Same(k) == k
      All(kinds) == v.of # <<>> /\ AllAre(v, kinds)
      Input(k) == "input"
  IN  IF v.list /\ v.of = <<>> THEN sent("emptyListProps", Same)
      ELSE IF All({"bool"}) THEN sent("booleanArrayProperties", Same)
      ELSE IF AllDates(v) THEN sent("textArrayProperties", Iso)
      ELSE IF All({"text"}) THEN sent("textArrayProperties", Same)
      ELSE IF All({"int"}) THEN sent("intArrayProperties", Same)
      ELSE IF All({"float"}) THEN sent("numberArrayProperties", Same)
      ELSE IF Is(v, {"date"}) THEN sent("nonRefProperties", Iso)
      ELSE IF IsPhone(v) THEN sent("nonRefProperties", Input)
      ELSE IF Is(v, {"geo"}) THEN sent("nonRefProperties", Same)
      ELSE IF All({"nested"}) THEN sent("objectArrayProperties", Same)
      ELSE IF Is(v, {"nested"}) THEN sent("objectProperties", Same)
      ELSE sent("nonRefProperties", Struct)

-----------------------------------------------------------------------------
Mixed(v) == v.list /\ \E i, j \in DOMAIN v.of : v.of[i] # v.of[j]

\* A list that no guard of filters takes: of several kinds, or of ranges.
TypeOf(k) == IF k \in Floats THEN "float" ELSE k
Untyped(v) ==
  v.list /\ \E i, j \in DOMAIN v.of : TypeOf(v.of[i]) # TypeOf(v.of[j]) \/ v.of[i] = "georange"

\* A filter says the same both ways, in one field, but for a number that is not
\* finite, which REST sends as null.  A list of several kinds, such as whole and
\* broken numbers, REST refuses, while gRPC sends the filter without a value;
\* an empty list is text for REST and everything for gRPC.
FilterSameBothWays ==
  given \in Given(FilterKinds) =>
    /\ given.of = <<>> => RestField(given) = "TextArray" /\ Cardinality(Fields(given)) = 4
    /\ Untyped(given) => RestField(given) = "throws" /\ Fields(given) = {}
    /\ given.of # <<>> /\ ~Untyped(given) =>
         /\ Fields(given) = {CASE RestField(given) = "Date" -> "Text"
                               [] RestField(given) = "DateArray" -> "TextArray"
                               [] OTHER -> RestField(given)}
         /\ \A i \in DOMAIN given.of :
              RestContent(given)[i] = GrpcContent(given)[i] <=> given.of[i] # "nonFinite"

\* A property is the same by insertMany as by insert, element by element, but
\* for a number that is not finite, which insert makes null and insertMany does
\* not, and for a date in a list with others, which insertMany loses.
DataSameBothWays ==
  given \in Given(Kinds) =>
    LET batch == BatchSends(given)
        rest == RestSends(given)
    IN  /\ batch.list = rest.list /\ DOMAIN batch.of = DOMAIN rest.of
        /\ \A i \in DOMAIN given.of :
             batch.of[i] = rest.of[i] <=>
               given.of[i] # "nonFinite" /\ ~(given.of[i] = "date" /\ Mixed(given))

\* Filters and properties mean the same over gRPC and REST, but for numbers that
\* are not finite and for the lists that one of the two refuses or loses.
SameBothWays == FilterSameBothWays /\ DataSameBothWays
=============================================================================
