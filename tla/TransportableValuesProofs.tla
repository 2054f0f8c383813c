--------------------- MODULE TransportableValuesProofs ---------------------
(* What serialize and json_to_tv make of every value, however deep: by      *)
(* induction on the size of its JSON.                                       *)
EXTENDS TransportableValues, SequenceTheorems, WellFoundedInduction, TLAPS

-----------------------------------------------------------------------------
(* Induction.                                                              *)
LEMMA LeastNumber ==
    ASSUME NEW S \in SUBSET Nat, S # {}
    PROVE  \E n \in S : \A m \in S : n <= m
<1>1. \E n \in S : \A m \in S : ~ (<<m, n>> \in OpToRel(<, Nat))
  BY NatLessThanWellFounded, WFMin
<1>2. PICK n \in S : \A m \in S : ~ (<<m, n>> \in OpToRel(<, Nat))
  BY <1>1
<1>3. \A m \in S : ~ (m < n)
  BY <1>2 DEF OpToRel
<1>4. QED
  BY <1>3

\* If whatever goes wrong has a part that goes wrong too, nothing does.
LEMMA PartsInduction ==
    ASSUME NEW Bad \in SUBSET Json, \A j \in Bad : Parts(j) \cap Bad # {}
    PROVE  Bad = {}
<1> SUFFICES ASSUME Bad # {} PROVE FALSE
  OBVIOUS
<1> DEFINE Sizes == {Size(j) : j \in Bad}
<1>1. Sizes \in SUBSET Nat /\ Sizes # {}
  BY JsonAssumption
<1> HIDE DEF Sizes
<1>2. PICK n \in Sizes : \A m \in Sizes : n <= m
  BY <1>1, LeastNumber
<1>3. PICK j \in Bad : n = Size(j)
  BY DEF Sizes
<1>4. PICK p \in Parts(j) : p \in Bad
  BY <1>3
<1>5. Size(p) < Size(j) /\ Size(p) \in Nat /\ Size(j) \in Nat
  BY <1>4, JsonAssumption
<1>6. Size(p) \in Sizes
  BY <1>4 DEF Sizes
<1>7. QED
  BY <1>2, <1>3, <1>5, <1>6

-----------------------------------------------------------------------------
(* json_to_tv, one kind at a time.                                         *)
LEMMA ReadScalar ==
    ASSUME NEW j \in Json
    PROVE  /\ j[1] = "int" => FromJson(j) = <<"Integer", j[2]>>
           /\ j[1] = "string" => FromJson(j) = <<"String", j[2]>>
           /\ j[1] = "bool" => FromJson(j) = <<"Bool", j[2]>>
           /\ ~ HasType(j) => FromJson(j) = None
  BY JsonAssumption DEF json_to_tv, HasType

LEMMA ReadObject ==
    ASSUME NEW j \in Json, j[1] = "object"
    PROVE  /\ FromJson(j) = Dict({<<m[1], FromJson(m[2])>> :
                                     m \in {n \in j[2] : FromJson(n[2]) # None}})
           /\ \A m \in j[2] : m[2] \in Parts(j) /\ m[2] \in Json
  BY JsonAssumption DEF json_to_tv, Parts

LEMMA ReadArray ==
    ASSUME NEW j \in Json, j[1] = "array"
    PROVE  /\ j[2] \in Seq(Json)
           /\ j[2] = <<>> => FromJson(j) = List(<<>>)
           /\ j[2] # <<>> =>
                LET first == FromJson(Head(j[2]))
                    rest == FromJson(Array(Tail(j[2])))
                IN  /\ Parts(j) = {Head(j[2]), Array(Tail(j[2]))}
                    /\ Head(j[2]) \in Json /\ Array(Tail(j[2])) \in Json
                    /\ FromJson(j) = IF first = None THEN rest ELSE List(<<first>> \o rest[2])
<1>1. FromJson(j) = json_to_tv(j) /\ j[2] \in Seq(Json) /\ Parts(j) \subseteq Json
  BY JsonAssumption
<1>2. json_to_tv(j) =
        IF j[2] = <<>> THEN List(<<>>)
        ELSE IF FromJson(Head(j[2])) = None THEN FromJson(Array(Tail(j[2])))
        ELSE List(<<FromJson(Head(j[2]))>> \o FromJson(Array(Tail(j[2])))[2])
  BY DEF json_to_tv
<1>3. j[2] # <<>> => Parts(j) = {Head(j[2]), Array(Tail(j[2]))}
  BY DEF Parts
<1>4. QED
  BY <1>1, <1>2, <1>3

Readings == {FromJson(j) : j \in Json}

\* What an array becomes is a list of what the values in it become.
LEMMA ReadList ==
    ASSUME NEW j \in Json, j[1] = "array"
    PROVE  FromJson(j) = List(FromJson(j)[2]) /\ FromJson(j)[2] \in Seq(Readings)
<1> DEFINE Good(i) == FromJson(i) = List(FromJson(i)[2]) /\ FromJson(i)[2] \in Seq(Readings)
           Bad == {i \in Json : i[1] = "array" /\ ~ Good(i)}
<1>1. ASSUME NEW i \in Bad, Parts(i) \cap Bad = {} PROVE FALSE
  <2>1. i \in Json /\ i[1] = "array" /\ ~ Good(i)
    OBVIOUS
  <2>2. CASE i[2] = <<>>
    <3>1. FromJson(i) = List(<<>>)
      BY <2>1, <2>2, ReadArray
    <3>2. QED
      BY <3>1, <2>1 DEF List
  <2>3. CASE i[2] # <<>>
    <3> DEFINE first == FromJson(Head(i[2]))
               tail == Array(Tail(i[2]))
    <3>1. /\ tail \in Parts(i) /\ tail \in Json /\ first \in Readings
          /\ FromJson(i) = IF first = None THEN FromJson(tail)
                           ELSE List(<<first>> \o FromJson(tail)[2])
      BY <2>1, <2>3, ReadArray DEF Readings
    <3>2. tail[1] = "array"
      BY DEF Array
    <3> HIDE DEF first, tail
    <3>3. Good(tail)
      BY <3>1, <3>2, <1>1
    <3>4. <<first>> \in Seq(Readings)
      BY <3>1
    <3>5. <<first>> \o FromJson(tail)[2] \in Seq(Readings)
      BY <3>3, <3>4, ConcatProperties
    <3>6. CASE first = None
      <4>1. FromJson(i) = FromJson(tail)
        BY <3>1, <3>6
      <4>2. QED
        BY <2>1, <3>3, <4>1
    <3>7. CASE first # None
      <4> DEFINE x == <<first>> \o FromJson(tail)[2]
      <4>1. FromJson(i) = List(x) /\ x \in Seq(Readings)
        BY <3>1, <3>5, <3>7
      <4> HIDE DEF x
      <4>2. FromJson(i) = List(FromJson(i)[2]) /\ FromJson(i)[2] = x
        BY <4>1 DEF List
      <4>3. QED
        BY <2>1, <4>1, <4>2
    <3>8. QED
      BY <3>6, <3>7
  <2>4. QED
    BY <2>2, <2>3
<1>2. Bad = {}
  <2> HIDE DEF Bad
  <2>1. Bad \in SUBSET Json
    BY DEF Bad
  <2>2. QED
    BY <1>1, <2>1, PartsInduction
<1>3. QED
  BY <1>2

\* Only what has no type is left out.
LEMMA ReadNone ==
    ASSUME NEW j \in Json
    PROVE  (FromJson(j) = None) <=> ~ HasType(j)
<1>1. ~ HasType(j) => FromJson(j) = None
  BY ReadScalar
<1>2. j[1] = "array" => FromJson(j)[1] = "List"
  BY ReadList DEF List
<1>3. j[1] = "object" => FromJson(j)[1] = "Dict"
  BY ReadObject DEF Dict
<1>4. HasType(j) => FromJson(j)[1] \in {"Integer", "String", "Bool", "List", "Dict"}
  BY <1>2, <1>3, ReadScalar DEF HasType
<1>5. None[1] = "None"
  BY DEF None
<1>6. QED
  BY <1>1, <1>4, <1>5

-----------------------------------------------------------------------------
(* Writing and reading again.                                              *)
LEMMA WriteList ==
    ASSUME NEW s, s # <<>>, List(s) \in Values, s \in Seq(Values), List(Tail(s)) \in Values
    PROVE  LET j == ToJson(List(s)) IN
           /\ j \in Json /\ j[1] = "array" /\ j[2] # <<>>
           /\ Head(j[2]) = ToJson(Head(s)) /\ Array(Tail(j[2])) = ToJson(List(Tail(s)))
           /\ Head(s) \in Values /\ s = <<Head(s)>> \o Tail(s)
<1> DEFINE out == [i \in DOMAIN s |-> ToJson(s[i])]
           last == [i \in DOMAIN Tail(s) |-> ToJson(Tail(s)[i])]
<1>1. /\ Len(s) \in Nat \ {0} /\ DOMAIN s = 1 .. Len(s) /\ Head(s) = s[1] /\ Head(s) \in Values
      /\ Tail(s) \in Seq(Values) /\ Len(Tail(s)) = Len(s) - 1
      /\ DOMAIN Tail(s) = 1 .. Len(s) - 1
      /\ \A i \in 1 .. Len(s) - 1 : Tail(s)[i] = s[i + 1]
  BY EmptySeq, LenProperties, HeadTailProperties
<1>2. ToJson(List(s)) = Array(out) /\ ToJson(List(s)) \in Json
  BY ValuesAssumption DEF serialize, List
<1>3. ToJson(List(Tail(s))) = Array(last)
  BY ValuesAssumption DEF serialize, List
<1>4. out \in Seq(Json) /\ Len(out) = Len(s) /\ out # <<>>
  <2>1. \A i \in 1 .. Len(s) : ToJson(s[i]) \in Json
    BY <1>1, ValuesAssumption, ElementOfSeq
  <2>2. QED
    BY <1>1, <2>1, IsASeq
<1>5. /\ Tail(out) \in Seq(Json) /\ Len(Tail(out)) = Len(s) - 1 /\ Head(out) = out[1]
      /\ \A i \in 1 .. Len(s) - 1 : Tail(out)[i] = out[i + 1]
  BY <1>1, <1>4, HeadTailProperties
<1>6. Tail(out) = last
  <2>1. DOMAIN Tail(out) = 1 .. Len(s) - 1
    BY <1>1, <1>5, LenProperties
  <2>2. \A i \in 1 .. Len(s) - 1 : Tail(out)[i] = last[i]
    BY <1>1, <1>5
  <2>3. QED
    BY <1>1, <1>5, <2>1, <2>2
<1>7. s = <<Head(s)>> \o Tail(s)
  BY <1>1, HeadTailProperties
<1>8. QED
  BY <1>1, <1>2, <1>3, <1>4, <1>5, <1>6, <1>7 DEF Array

\* Values differ from None, and go down to values.
LEMMA ValueShape ==
    ASSUME NEW tv \in Values
    PROVE  /\ tv # None /\ ToJson(tv) \in Json /\ ToJson(tv) = serialize(tv)
           /\ \/ \E type \in {"Integer", "String", "Bool"} : tv = <<type, tv[2]>>
              \/ tv = List(<<>>)
              \/ \E s \in Seq(Values) : tv = List(s) /\ s # <<>> /\ List(Tail(s)) \in Values
              \/ \E d : tv = Dict(d) /\ \A m \in d : m = <<m[1], m[2]>> /\ m[2] \in Values
<1>1. IsValue(tv) /\ ToJson(tv) = serialize(tv) /\ ToJson(tv) \in Json
  BY ValuesAssumption
<1>2. tv[1] \in {"Integer", "String", "Bool", "List", "Dict"}
  BY <1>1 DEF IsValue, List, Dict
<1>3. tv # None
  BY <1>2 DEF None
<1>4. QED
  BY <1>1, <1>3 DEF IsValue

LEMMA ScalarKept ==
    ASSUME NEW tv \in Values, NEW type \in {"Integer", "String", "Bool"}, tv = <<type, tv[2]>>
    PROVE  FromJson(ToJson(tv)) = tv
<1>1. ToJson(tv) \in Json /\ ToJson(tv) = serialize(tv) /\ tv[1] = type
  BY ValueShape
<1>2. CASE type = "Integer"
  <2>1. ToJson(tv) = <<"int", tv[2]>>
    BY <1>1, <1>2 DEF serialize, U64
  <2>2. QED
    BY <1>1, <1>2, <2>1, ReadScalar
<1>3. CASE type = "String"
  <2>1. ToJson(tv) = <<"string", tv[2]>>
    BY <1>1, <1>3 DEF serialize, Text
  <2>2. QED
    BY <1>1, <1>3, <2>1, ReadScalar
<1>4. CASE type = "Bool"
  <2>1. ToJson(tv) = <<"bool", tv[2]>>
    BY <1>1, <1>4 DEF serialize
  <2>2. QED
    BY <1>1, <1>4, <2>1, ReadScalar
<1>5. QED
  BY <1>2, <1>3, <1>4

\* A dictionary whose values come back comes back.
LEMMA DictKept ==
    ASSUME NEW d, Dict(d) \in Values, \A m \in d : m = <<m[1], m[2]>> /\ m[2] \in Values,
           \A m \in d : FromJson(ToJson(m[2])) = m[2]
    PROVE  FromJson(ToJson(Dict(d))) = Dict(d)
<1> DEFINE j == ToJson(Dict(d))
           members == {<<m[1], ToJson(m[2])>> : m \in d}
           read == {<<n[1], FromJson(n[2])>> : n \in {o \in members : FromJson(o[2]) # None}}
<1>1. j \in Json /\ j = Object(members)
  BY ValueShape DEF serialize, Dict
<1>2. FromJson(j) = Dict(read)
  <2>1. j[1] = "object" /\ j[2] = members
    BY <1>1 DEF Object
  <2> HIDE DEF members, j
  <2>2. QED
    BY <1>1, <2>1, ReadObject
<1>3. \A m \in d : m[2] # None
  BY ValueShape
<1>4. ASSUME NEW m \in d PROVE m \in read
  <2>1. <<m[1], ToJson(m[2])>> \in {o \in members : FromJson(o[2]) # None}
    BY <1>3
  <2>2. <<m[1], FromJson(ToJson(m[2]))>> \in read
    BY <2>1
  <2>3. QED
    BY <2>2
<1>5. ASSUME NEW m \in read PROVE m \in d
  <2>1. PICK n \in members : m = <<n[1], FromJson(n[2])>>
    BY <1>5
  <2>2. PICK o \in d : n = <<o[1], ToJson(o[2])>>
    BY <2>1
  <2>3. m = <<o[1], o[2]>>
    BY <2>1, <2>2
  <2>4. QED
    BY <2>3
<1>6. read = d
  BY <1>4, <1>5
<1>7. QED
  BY <1>2, <1>6

\* A value that a program publishes is read as it was, whatever it is made of: what serde
\* writes for a TransportableValue is what json_to_tv takes for it.
THEOREM RoundTrip == \A tv \in Values : FromJson(ToJson(tv)) = tv
<1> DEFINE Lost(j) == \E tv \in Values : j = ToJson(tv) /\ FromJson(j) # tv
           Bad == {j \in Json : Lost(j)}
<1>1. ASSUME NEW j \in Bad, Parts(j) \cap Bad = {} PROVE FALSE
  <2>1. PICK tv \in Values : j = ToJson(tv) /\ FromJson(j) # tv
    BY <1>1
  <2>2. \A p \in Parts(j) : \A v \in Values : p = ToJson(v) => FromJson(p) = v
    BY <1>1, JsonAssumption
  <2> HIDE DEF Bad
  <2>3. j \in Json
    BY DEF Bad
  <2>4. CASE \E type \in {"Integer", "String", "Bool"} : tv = <<type, tv[2]>>
    BY <2>1, <2>4, ScalarKept
  <2>5. CASE tv = List(<<>>)
    <3>1. j = Array([i \in DOMAIN <<>> |-> ToJson(<<>>[i])])
      BY <2>1, <2>5, ValueShape DEF serialize, List
    <3>2. j[1] = "array" /\ j[2] = <<>>
      BY <3>1 DEF Array
    <3>3. QED
      BY <2>1, <2>3, <2>5, <3>2, ReadArray
  <2>6. ASSUME NEW s \in Seq(Values), tv = List(s), s # <<>>, List(Tail(s)) \in Values
        PROVE  FALSE
    <3>1. /\ j[1] = "array" /\ j[2] # <<>> /\ Head(j[2]) = ToJson(Head(s))
          /\ Array(Tail(j[2])) = ToJson(List(Tail(s)))
          /\ Head(s) \in Values /\ s = <<Head(s)>> \o Tail(s)
      BY <2>1, <2>6, WriteList
    <3>2. /\ Parts(j) = {Head(j[2]), Array(Tail(j[2]))}
          /\ FromJson(j) = IF FromJson(Head(j[2])) = None THEN FromJson(Array(Tail(j[2])))
                           ELSE List(<<FromJson(Head(j[2]))>> \o FromJson(Array(Tail(j[2])))[2])
      BY <2>3, <3>1, ReadArray
    <3>3. FromJson(Head(j[2])) = Head(s) /\ FromJson(Array(Tail(j[2]))) = List(Tail(s))
      BY <2>2, <2>6, <3>1, <3>2
    <3>4. Head(s) # None
      BY <3>1, ValueShape
    <3>5. FromJson(j) = List(<<Head(s)>> \o Tail(s))
      <4>1. FromJson(j) = List(<<Head(s)>> \o List(Tail(s))[2])
        BY <3>2, <3>3, <3>4
      <4>2. List(Tail(s))[2] = Tail(s)
        BY DEF List
      <4>3. QED
        BY <4>1, <4>2
    <3>6. QED
      BY <2>1, <2>6, <3>1, <3>5
  <2>7. ASSUME NEW d, tv = Dict(d), \A m \in d : m = <<m[1], m[2]>> /\ m[2] \in Values
        PROVE  FALSE
    <3>1. j = Object({<<m[1], ToJson(m[2])>> : m \in d})
      BY <2>1, <2>7, ValueShape DEF serialize, Dict
    <3>2. \A m \in d : ToJson(m[2]) \in Parts(j)
      <4>1. j[1] = "object" /\ j[2] = {<<m[1], ToJson(m[2])>> : m \in d}
        BY <3>1 DEF Object
      <4>2. \A n \in j[2] : n[2] \in Parts(j)
        BY <2>3, <4>1, ReadObject
      <4>3. \A m \in d : <<m[1], ToJson(m[2])>> \in j[2]
        BY <4>1
      <4>4. QED
        BY <4>2, <4>3
    <3>3. \A m \in d : FromJson(ToJson(m[2])) = m[2]
      BY <2>2, <2>7, <3>2
    <3>4. QED
      BY <2>1, <2>7, <3>3, DictKept
  <2>8. QED
    BY <2>1, <2>4, <2>5, <2>6, <2>7, ValueShape
<1>2. Bad = {}
  <2> HIDE DEF Bad
  <2>1. Bad \in SUBSET Json
    BY DEF Bad
  <2>2. QED
    BY <1>1, <2>1, PartsInduction
<1>3. QED
  BY <1>2, ValueShape

-----------------------------------------------------------------------------
(* What is read of any JSON.                                               *)
LEMMA SaysScalar ==
    ASSUME NEW j \in Json, j[1] \in {"int", "string", "bool"}
    PROVE  Says(FromJson(j), j)
<1>1. <<FromJson(j)[1], j[1]>> \in {<<"Integer", "int">>, <<"String", "string">>, <<"Bool", "bool">>}
  BY ReadScalar
<1>2. FromJson(j)[2] = j[2]
  BY ReadScalar
<1>3. Represents(FromJson(j), j)
  BY <1>1, <1>2 DEF Represents
<1>4. QED
  BY <1>3, SaysAssumption

LEMMA SaysObject ==
    ASSUME NEW j \in Json, j[1] = "object",
           \A p \in Parts(j) : HasType(p) => Says(FromJson(p), p)
    PROVE  Says(FromJson(j), j)
<1> DEFINE typed == {n \in j[2] : FromJson(n[2]) # None}
           read == {<<n[1], FromJson(n[2])>> : n \in typed}
<1>1. FromJson(j) = Dict(read)
  BY ReadObject
<1>2. FromJson(j)[1] = "Dict" /\ FromJson(j)[2] = read
  BY <1>1 DEF Dict
<1>3. \A n \in j[2] : n[2] \in Parts(j) /\ (FromJson(n[2]) # None <=> HasType(n[2]))
  BY ReadObject, ReadNone
<1>4. \A m, n \in j[2] : m[1] = n[1] => m = n
  BY JsonAssumption
<1>5. typed = {n \in j[2] : HasType(n[2])}
  BY <1>3
<1>6. \A m \in read : \E n \in typed : m[1] = n[1] /\ m[2] = FromJson(n[2])
  OBVIOUS
<1>7. {m[1] : m \in read} = {m[1] : m \in typed}
  <2>1. \A n \in typed : <<n[1], FromJson(n[2])>> \in read
    OBVIOUS
  <2>2. \A n \in typed : \E m \in read : m[1] = n[1]
    BY <2>1
  <2> HIDE DEF read, typed
  <2>3. QED
    BY <1>6, <2>2
<1>8. ASSUME NEW m \in read, NEW n \in j[2], m[1] = n[1] PROVE Says(m[2], n[2])
  <2>1. PICK o \in typed : m[1] = o[1] /\ m[2] = FromJson(o[2])
    BY <1>6
  <2>2. o = n
    BY <1>4, <1>8, <2>1
  <2>3. HasType(n[2]) /\ n[2] \in Parts(j)
    BY <1>3, <2>1, <2>2
  <2>4. QED
    BY <2>1, <2>2, <2>3
<1> HIDE DEF read, typed
<1>9. Represents(FromJson(j), j)
  BY <1>2, <1>5, <1>7, <1>8 DEF Represents
<1>10. QED
  BY <1>9, SaysAssumption

LEMMA SaysList ==
    ASSUME NEW t, NEW j \in Json, j[1] = "array", FromJson(j) = List(t),
           NEW at \in [DOMAIN t -> {i \in DOMAIN j[2] : HasType(j[2][i])}],
           \A i \in DOMAIN j[2] : HasType(j[2][i]) => \E k \in DOMAIN at : at[k] = i,
           \A k, l \in DOMAIN at : k < l => at[k] < at[l],
           \A k \in DOMAIN at : Says(t[k], j[2][at[k]])
    PROVE  Says(FromJson(j), j)
<1>1. FromJson(j)[1] = "List" /\ FromJson(j)[2] = t
  BY DEF List
<1>2. Represents(FromJson(j), j)
  BY <1>1 DEF Represents
<1>3. QED
  BY <1>2, SaysAssumption

LEMMA SaysEmpty ==
    ASSUME NEW j \in Json, j[1] = "array", j[2] = <<>>
    PROVE  Says(FromJson(j), j)
<1> DEFINE at == [k \in DOMAIN <<>> |-> 1]
<1>1. FromJson(j) = List(<<>>)
  BY ReadArray
<1>2. DOMAIN <<>> = {} /\ DOMAIN at = {}
  OBVIOUS
<1>3. at \in [DOMAIN <<>> -> {i \in DOMAIN j[2] : HasType(j[2][i])}]
  BY <1>2
<1> HIDE DEF at
<1>4. QED
  BY <1>1, <1>2, <1>3, SaysList

\* The values of the rest stand one place further back in the array.
LEMMA SaysArray ==
    ASSUME NEW j \in Json, j[1] = "array", j[2] # <<>>,
           \A p \in Parts(j) : HasType(p) => Says(FromJson(p), p)
    PROVE  Says(FromJson(j), j)
<1> DEFINE s == j[2]
           first == FromJson(Head(s))
           tail == Array(Tail(s))
           u == FromJson(tail)[2]
<1>1. /\ s \in Seq(Json) /\ Parts(j) = {Head(s), tail} /\ Head(s) \in Json /\ tail \in Json
      /\ FromJson(j) = IF first = None THEN FromJson(tail) ELSE List(<<first>> \o u)
  BY ReadArray
<1>2. tail[1] = "array" /\ tail[2] = Tail(s) /\ HasType(tail)
  BY DEF Array, HasType
<1>3. FromJson(tail) = List(u) /\ u \in Seq(Readings)
  BY <1>1, <1>2, ReadList
<1>4. /\ Len(s) \in Nat \ {0} /\ DOMAIN s = 1 .. Len(s) /\ Head(s) = s[1]
      /\ Len(Tail(s)) = Len(s) - 1 /\ DOMAIN Tail(s) = 1 .. Len(s) - 1
      /\ \A i \in 1 .. Len(s) - 1 : Tail(s)[i] = s[i + 1]
  BY <1>1, EmptySeq, LenProperties, HeadTailProperties
<1>5. Len(u) \in Nat /\ DOMAIN u = 1 .. Len(u)
  BY <1>3, LenProperties
<1>6. \E at \in [DOMAIN u -> {i \in DOMAIN Tail(s) : HasType(Tail(s)[i])}] :
        /\ \A i \in DOMAIN Tail(s) : HasType(Tail(s)[i]) => \E k \in DOMAIN at : at[k] = i
        /\ \A k, l \in DOMAIN at : k < l => at[k] < at[l]
        /\ \A k \in DOMAIN at : Says(u[k], Tail(s)[at[k]])
  <2>1. Represents(FromJson(tail), tail)
    BY <1>1, <1>2, SaysAssumption
  <2>2. FromJson(tail)[1] = "List" /\ FromJson(tail)[2] = u
    BY <1>3 DEF List
  <2> HIDE DEF s, tail, u
  <2>3. QED
    BY <2>1, <2>2, <1>2 DEF Represents
<1>7. PICK old \in [1 .. Len(u) -> 1 .. Len(s) - 1] :
        /\ \A k \in 1 .. Len(u) : HasType(s[old[k] + 1])
        /\ \A i \in 1 .. Len(s) - 1 : HasType(s[i + 1]) => \E k \in 1 .. Len(u) : old[k] = i
        /\ \A k, l \in 1 .. Len(u) : k < l => old[k] < old[l]
        /\ \A k \in 1 .. Len(u) : Says(u[k], s[old[k] + 1])
  <2> HIDE DEF s, u
  <2>1. PICK at \in [DOMAIN u -> {i \in DOMAIN Tail(s) : HasType(Tail(s)[i])}] :
          /\ \A i \in DOMAIN Tail(s) : HasType(Tail(s)[i]) => \E k \in DOMAIN at : at[k] = i
          /\ \A k, l \in DOMAIN at : k < l => at[k] < at[l]
          /\ \A k \in DOMAIN at : Says(u[k], Tail(s)[at[k]])
    BY <1>6
  <2>2. DOMAIN at = 1 .. Len(u)
    BY <2>1, <1>5
  <2>3. \A k \in 1 .. Len(u) : at[k] \in 1 .. Len(s) - 1 /\ HasType(Tail(s)[at[k]])
    BY <2>1, <1>4, <1>5
  <2>4. \A k \in 1 .. Len(u) : Tail(s)[at[k]] = s[at[k] + 1]
    BY <2>3, <1>4
  <2>5. at \in [1 .. Len(u) -> 1 .. Len(s) - 1]
    BY <2>1, <2>3, <1>5
  <2>6. \A k \in 1 .. Len(u) : HasType(s[at[k] + 1])
    BY <2>3, <2>4
  <2>7. \A i \in 1 .. Len(s) - 1 : HasType(s[i + 1]) => \E k \in 1 .. Len(u) : at[k] = i
    BY <2>1, <2>2, <1>4
  <2>8. \A k, l \in 1 .. Len(u) : k < l => at[k] < at[l]
    BY <2>1, <2>2
  <2>9. \A k \in 1 .. Len(u) : Says(u[k], s[at[k] + 1])
    BY <2>1, <2>2, <2>4
  <2>10. QED
    BY <2>5, <2>6, <2>7, <2>8, <2>9
<1> HIDE DEF s, tail, u
<1>8. CASE first = None
  <2> DEFINE at == [k \in 1 .. Len(u) |-> old[k] + 1]
  <2>1. FromJson(j) = List(u) /\ ~ HasType(s[1])
    BY <1>1, <1>3, <1>4, <1>8, ReadNone
  <2>2. at \in [DOMAIN u -> {i \in DOMAIN s : HasType(s[i])}]
    BY <1>4, <1>5, <1>7
  <2>3. ASSUME NEW i \in DOMAIN s, HasType(s[i]) PROVE \E k \in DOMAIN at : at[k] = i
    <3>1. i # 1 /\ i - 1 \in 1 .. Len(s) - 1 /\ (i - 1) + 1 = i
      BY <2>1, <2>3, <1>4
    <3>2. PICK k \in 1 .. Len(u) : old[k] = i - 1
      BY <1>7, <2>3, <3>1
    <3>3. QED
      BY <3>1, <3>2
  <2>4. \A k, l \in DOMAIN at : k < l => at[k] < at[l]
    BY <1>7
  <2>5. \A k \in DOMAIN at : Says(u[k], s[at[k]])
    BY <1>7
  <2> HIDE DEF at
  <2>6. QED
    BY <2>1, <2>2, <2>3, <2>4, <2>5, SaysList DEF s
<1>9. CASE first # None
  <2> DEFINE t == <<first>> \o u
             at == [k \in 1 .. Len(u) + 1 |-> IF k = 1 THEN 1 ELSE old[k - 1] + 1]
  <2>1. FromJson(j) = List(t) /\ HasType(s[1]) /\ Says(first, s[1])
    BY <1>1, <1>4, <1>9, ReadNone DEF s
  <2>2. /\ DOMAIN t = 1 .. Len(u) + 1 /\ t[1] = first
        /\ \A k \in 2 .. Len(u) + 1 : t[k] = u[k - 1]
    <3>1. <<first>> \in Seq(Readings \cup {first}) /\ u \in Seq(Readings \cup {first})
      BY <1>3, SeqMonotonic
    <3>2. /\ t \in Seq(Readings \cup {first}) /\ Len(t) = 1 + Len(u)
          /\ \A k \in 1 .. 1 + Len(u) : t[k] = IF k <= 1 THEN <<first>>[k] ELSE u[k - 1]
      BY <3>1, ConcatProperties
    <3> HIDE DEF t
    <3>3. QED
      BY <3>2, <1>5, LenProperties
  <2> HIDE DEF t
  <2>3. at \in [DOMAIN t -> {i \in DOMAIN s : HasType(s[i])}]
    BY <1>4, <1>5, <1>7, <2>1, <2>2
  <2>4. ASSUME NEW i \in DOMAIN s, HasType(s[i]) PROVE \E k \in DOMAIN at : at[k] = i
    <3>1. CASE i = 1
      <4>1. 1 \in DOMAIN at /\ at[1] = 1
        BY <1>5
      <4>2. QED
        BY <3>1, <4>1
    <3>2. CASE i # 1
      <4>1. i - 1 \in 1 .. Len(s) - 1 /\ (i - 1) + 1 = i
        BY <1>4, <3>2
      <4>2. PICK k \in 1 .. Len(u) : old[k] = i - 1
        BY <1>7, <2>4, <4>1
      <4>3. k + 1 \in DOMAIN at /\ at[k + 1] = old[k] + 1
        BY <1>5
      <4>4. QED
        BY <4>1, <4>2, <4>3
    <3>3. QED
      BY <3>1, <3>2
  <2>5. ASSUME NEW k \in DOMAIN at, NEW l \in DOMAIN at, k < l PROVE at[k] < at[l]
    <3>1. k \in 1 .. Len(u) + 1 /\ l \in 1 .. Len(u) + 1 /\ l # 1
          /\ l - 1 \in 1 .. Len(u) /\ at[l] = old[l - 1] + 1 /\ old[l - 1] \in 1 .. Len(s) - 1
      <4>1. k \in 1 .. Len(u) + 1 /\ l \in 1 .. Len(u) + 1
        OBVIOUS
      <4>2. l # 1 /\ l - 1 \in 1 .. Len(u)
        BY <1>5, <2>5, <4>1
      <4>3. at[l] = old[l - 1] + 1
        BY <4>1, <4>2
      <4>4. old[l - 1] \in 1 .. Len(s) - 1
        BY <1>7, <4>2
      <4>5. QED
        BY <4>1, <4>2, <4>3, <4>4
    <3>2. CASE k = 1
      <4>1. at[k] = 1
        BY <3>1, <3>2
      <4>2. QED
        BY <1>4, <3>1, <4>1
    <3>3. CASE k # 1
      <4>1. k - 1 \in 1 .. Len(u) /\ k - 1 < l - 1 /\ at[k] = old[k - 1] + 1
        BY <1>5, <2>5, <3>1, <3>3
      <4>2. old[k - 1] \in 1 .. Len(s) - 1 /\ old[k - 1] < old[l - 1]
        BY <1>7, <3>1, <4>1
      <4>3. QED
        BY <1>4, <3>1, <4>1, <4>2
    <3>4. QED
      BY <3>2, <3>3
  <2>6. \A k \in DOMAIN at : Says(t[k], s[at[k]])
    BY <1>5, <1>7, <2>1, <2>2
  <2> HIDE DEF at
  <2>7. QED
    BY <2>1, <2>3, <2>4, <2>5, <2>6, SaysList DEF s
<1>10. QED
  BY <1>8, <1>9

\* What json_to_tv makes of any JSON that it has a type for is what the JSON says, but for
\* the parts that it has no type for, at any depth and in any place.
THEOREM ReadFaithfully == \A j \in Json : HasType(j) => Says(FromJson(j), j)
<1> DEFINE Bad == {j \in Json : HasType(j) /\ ~ Says(FromJson(j), j)}
<1>1. ASSUME NEW j \in Bad, Parts(j) \cap Bad = {} PROVE FALSE
  <2>1. j \in Json /\ HasType(j) /\ ~ Says(FromJson(j), j)
    OBVIOUS
  <2>2. \A p \in Parts(j) : HasType(p) => Says(FromJson(p), p)
    BY <1>1, <2>1, JsonAssumption
  <2> HIDE DEF Bad
  <2>3. j[1] \in {"int", "string", "bool", "array", "object"}
    BY <2>1 DEF HasType
  <2>4. QED
    BY <2>1, <2>2, <2>3, SaysScalar, SaysObject, SaysEmpty, SaysArray
<1>2. Bad = {}
  <2> HIDE DEF Bad
  <2>1. Bad \in SUBSET Json
    BY DEF Bad
  <2>2. QED
    BY <1>1, <2>1, PartsInduction
<1>3. QED
  BY <1>2
=============================================================================
