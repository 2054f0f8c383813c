------------------------ MODULE TransportableValues ------------------------
(***************************************************************************)
(* The values that programs send and receive (TransportableValue of        *)
(* src/src/transport/mod.rs), and what becomes of them as JSON and of JSON *)
(* as them.                                                                *)
(*                                                                         *)
(* A JSON value is a pair of its kind and its contents. An object is the   *)
(* set of its members, a string a text of module Uris. "number" stands for *)
(* the numbers that are no u64: negative, fractional or too large.         *)
(***************************************************************************)
EXTENDS Integers, Sequences, Uris

CONSTANTS
    Json,               \* the JSON values of an instance, with all their parts
    Size(_),            \* of a JSON value: more than that of any part
    Values,             \* the TransportableValues that are written, likewise
    ToJson(_),          \* serialize, where it calls itself or is called from elsewhere
    FromJson(_),        \* json_to_tv, likewise
    Says(_, _)          \* Represents, likewise

Null == <<"null">>
Number == <<"number">>
U64(n) == <<"int", n>>
Text(s) == <<"string", s>>
Array(s) == <<"array", s>>
Object(members) == <<"object", members>>
Empty == Object({})

None == <<"None">>
List(s) == <<"List", s>>
Dict(members) == <<"Dict", members>>

\* serde's untagged representation
serialize(tv) ==
    CASE tv[1] = "Integer" -> U64(tv[2])
      [] tv[1] = "String"  -> Text(tv[2])
      [] tv[1] = "Bool"    -> <<"bool", tv[2]>>
      [] tv[1] = "List"    -> Array([i \in DOMAIN tv[2] |-> ToJson(tv[2][i])])
      [] tv[1] = "Dict"    -> Object({<<m[1], ToJson(m[2])>> : m \in tv[2]})

\* A parser that gives up on a list with a value that it has no type for.
AllOrNothing(j) ==
    CASE j[1] = "int"    -> <<"Integer", j[2]>>
      [] j[1] = "string" -> <<"String", j[2]>>
      [] j[1] = "bool"   -> <<"Bool", j[2]>>
      [] j[1] = "array"  -> IF \E i \in DOMAIN j[2] : FromJson(j[2][i]) = None
                            THEN List(<<>>)
                            ELSE List([i \in DOMAIN j[2] |-> FromJson(j[2][i])])
      [] j[1] = "object" -> Dict({<<m[1], FromJson(m[2])>> :
                                     m \in {n \in j[2] : FromJson(n[2]) # None}})
      [] OTHER           -> None

\* null and the numbers that are no u64 have no type, and vanish from the arrays and
\* objects that hold them. An array is read one value after the other.
json_to_tv(j) ==
    CASE j[1] = "int"    -> <<"Integer", j[2]>>
      [] j[1] = "string" -> <<"String", j[2]>>
      [] j[1] = "bool"   -> <<"Bool", j[2]>>
      [] j[1] = "array"  ->
            IF j[2] = <<>> THEN List(<<>>)
            ELSE LET first == FromJson(Head(j[2]))
                     rest == FromJson(Array(Tail(j[2])))
                 IN  IF first = None THEN rest ELSE List(<<first>> \o rest[2])
      [] j[1] = "object" -> Dict({<<m[1], FromJson(m[2])>> :
                                     m \in {n \in j[2] : FromJson(n[2]) # None}})
      [] OTHER           -> None

-----------------------------------------------------------------------------
\* tv is what j says, apart from the nulls and numbers of j that TransportableValue cannot
\* hold: the others are all there, in their order and under their names.
HasType(j) == j[1] \in {"int", "string", "bool", "array", "object"}
Represents(tv, j) ==
    \/ /\ <<tv[1], j[1]>> \in {<<"Integer", "int">>, <<"String", "string">>, <<"Bool", "bool">>}
       /\ tv[2] = j[2]
    \/ /\ tv[1] = "List" /\ j[1] = "array"
       /\ \E at \in [DOMAIN tv[2] -> {i \in DOMAIN j[2] : HasType(j[2][i])}] :
             /\ \A i \in DOMAIN j[2] : HasType(j[2][i]) => \E k \in DOMAIN at : at[k] = i
             /\ \A k, l \in DOMAIN at : k < l => at[k] < at[l]
             /\ \A k \in DOMAIN at : Says(tv[2][k], j[2][at[k]])
    \/ /\ tv[1] = "Dict" /\ j[1] = "object"
       /\ {m[1] : m \in tv[2]} = {m[1] : m \in {n \in j[2] : HasType(n[2])}}
       /\ \A m \in tv[2], n \in j[2] : m[1] = n[1] => Says(m[2], n[2])

-----------------------------------------------------------------------------
\* What the recursions go down to: a value of an array and the rest of the array, and the
\* values of an object. No name comes twice in an object.
Parts(j) ==
    CASE j[1] = "array" /\ j[2] # <<>> -> {Head(j[2]), Array(Tail(j[2]))}
      [] j[1] = "object"               -> {m[2] : m \in j[2]}
      [] OTHER                         -> {}

ASSUME JsonAssumption ==
    \A j \in Json :
        /\ FromJson(j) = json_to_tv(j)
        /\ j[1] = "array" => j[2] \in Seq(Json)
        /\ j[1] = "object" => \A m, n \in j[2] : m[1] = n[1] => m = n
        /\ Size(j) \in Nat
        /\ \A p \in Parts(j) : p \in Json /\ Size(p) < Size(j)

IsValue(tv) ==
    \/ \E type \in {"Integer", "String", "Bool"} : tv = <<type, tv[2]>>
    \/ tv = List(tv[2]) /\ tv[2] \in Seq(Values) /\ (tv[2] # <<>> => List(Tail(tv[2])) \in Values)
    \/ tv = Dict(tv[2]) /\ \A m \in tv[2] : m = <<m[1], m[2]>> /\ m[2] \in Values

ASSUME ValuesAssumption ==
    \A tv \in Values : IsValue(tv) /\ ToJson(tv) = serialize(tv) /\ ToJson(tv) \in Json

ASSUME SaysAssumption ==
    \A i, j \in Json : Says(FromJson(i), j) <=> Represents(FromJson(i), j)
=============================================================================
