----------------------------- MODULE WireProofs -----------------------------
(* Ids, frames and publications: WireInv is an invariant, so that answers   *)
(* reach the calls that asked, what is published arrives intact, and a      *)
(* router that follows the protocol is understood.                          *)
EXTENDS WireInvariants, TransportableValuesProofs

-----------------------------------------------------------------------------
(* The values of publications.                                             *)
LEMMA EmptyRead == FromJson(Array(<<>>)) = List(<<>>) /\ FromJson(Empty) = Dict({})
<1>1. Array(<<>>) \in Json /\ Empty \in Json
  BY PayloadAssumption
<1>2. FromJson(Array(<<>>)) = List(<<>>)
  BY <1>1, ReadArray DEF Array
<1>3. FromJson(Empty) = Dict({<<m[1], FromJson(m[2])>> :
                                 m \in {n \in {} : FromJson(n[2]) # None}})
  BY <1>1, ReadObject DEF Empty, Object
<1>4. QED
  BY <1>2, <1>3

\* What a program publishes is written as JSON that is read as what it published.
LEMMA BroadcastKept ==
    ASSUME NEW b \in Broadcasts
    PROVE  /\ b.arguments # None /\ b.arguments_kw # None
           /\ ToJson(b.arguments) \in Json /\ IsList(ToJson(b.arguments))
           /\ ToJson(b.arguments_kw) \in Json /\ IsDict(ToJson(b.arguments_kw))
           /\ b = [arguments |-> FromJson(ToJson(b.arguments)),
                   arguments_kw |-> FromJson(ToJson(b.arguments_kw))]
<1>1. /\ b.arguments \in Values /\ b.arguments[1] = "List"
      /\ b.arguments_kw \in Values /\ b.arguments_kw[1] = "Dict"
      /\ b = [arguments |-> b.arguments, arguments_kw |-> b.arguments_kw]
  BY PayloadAssumption
<1>2. /\ ToJson(b.arguments) \in Json /\ ToJson(b.arguments) = serialize(b.arguments)
      /\ ToJson(b.arguments_kw) \in Json /\ ToJson(b.arguments_kw) = serialize(b.arguments_kw)
      /\ b.arguments # None /\ b.arguments_kw # None
  BY <1>1, ValueShape
<1>3. IsList(ToJson(b.arguments)) /\ IsDict(ToJson(b.arguments_kw))
  BY <1>1, <1>2 DEF serialize, IsList, IsDict, Array, Object
<1>4. FromJson(ToJson(b.arguments)) = b.arguments
  BY <1>1, RoundTrip
<1>5. FromJson(ToJson(b.arguments_kw)) = b.arguments_kw
  BY <1>1, RoundTrip
<1>6. QED
  BY <1>1, <1>2, <1>3, <1>4, <1>5

LEMMA PayloadShape ==
    ASSUME NEW p \in Payloads
    PROVE  /\ p.arguments \in Json /\ IsList(p.arguments)
           /\ p.arguments_kw \in Json /\ IsDict(p.arguments_kw)
  BY BroadcastKept, PayloadAssumption DEF Payloads

-----------------------------------------------------------------------------
(* The shape of frames.                                                    *)
LEMMA Joined ==
    ASSUME NEW S, NEW s \in Seq(S), NEW t \in Seq(S)
    PROVE  /\ s \o t \in Seq(S) /\ Len(s \o t) = Len(s) + Len(t)
           /\ \A i \in 1 .. Len(s) : (s \o t)[i] = s[i]
           /\ \A i \in 1 .. Len(t) : (s \o t)[Len(s) + i] = t[i]
<1>1. /\ s \o t \in Seq(S) /\ Len(s \o t) = Len(s) + Len(t)
      /\ \A i \in 1 .. Len(s) + Len(t) :
            (s \o t)[i] = IF i <= Len(s) THEN s[i] ELSE t[i - Len(s)]
  BY ConcatProperties
<1>2. Len(s) \in Nat /\ Len(t) \in Nat
  BY LenProperties
<1>3. \A i \in 1 .. Len(t) : (s \o t)[Len(s) + i] = t[i]
  <2> TAKE i \in 1 .. Len(t)
  <2>1. Len(s) + i \in 1 .. Len(s) + Len(t) /\ ~(Len(s) + i <= Len(s)) /\ (Len(s) + i) - Len(s) = i
    BY <1>2
  <2>2. QED
    BY <1>1, <2>1
<1>4. QED
  BY <1>1, <1>2, <1>3

LEMMA FrameShape ==
    ASSUME NEW type \in DOMAIN Code, NEW S, NEW rest \in Seq(S)
    PROVE  LET f == Frame(type, rest)
           IN  /\ f[1] = "array" /\ f # <<"binary">> /\ f # Null
               /\ Len(f[2]) = Len(rest) + 1 /\ DOMAIN f[2] = 1 .. Len(rest) + 1
               /\ f[2] # <<>> /\ Tail(f[2]) = rest
               /\ Field(f, 1) = U64(Code[type])
               /\ \A i \in 1 .. Len(rest) : Field(f, i + 1) = rest[i]
<1> DEFINE T == S \cup {U64(Code[type])}
           head == <<U64(Code[type])>>
           all == head \o rest
<1>0. Len(head) = 1 /\ head[1] = U64(Code[type])
  OBVIOUS
<1>1. rest \in Seq(T) /\ head \in Seq(T)
  OBVIOUS
<1>2. Len(rest) \in Nat
  BY LenProperties
<1>. HIDE DEF T, head
<1>3. /\ all \in Seq(T) /\ Len(all) = 1 + Len(rest)
      /\ all[1] = U64(Code[type])
      /\ \A i \in 1 .. Len(rest) : all[1 + i] = rest[i]
  <2>1. /\ all \in Seq(T) /\ Len(all) = Len(head) + Len(rest)
        /\ \A i \in 1 .. Len(head) : all[i] = head[i]
        /\ \A i \in 1 .. Len(rest) : all[Len(head) + i] = rest[i]
    BY <1>1, Joined
  <2>2. QED
    BY <2>1, <1>0, <1>2
<1>. HIDE DEF all
<1>4. all # <<>> /\ DOMAIN all = 1 .. Len(rest) + 1
  BY <1>2, <1>3, LenProperties
<1>5. /\ Tail(all) \in Seq(T) /\ Len(Tail(all)) = Len(rest)
      /\ \A i \in 1 .. Len(rest) : Tail(all)[i] = all[i + 1]
  BY <1>2, <1>3, <1>4, HeadTailProperties
<1>6. Tail(all) = rest
  BY <1>1, <1>3, <1>5, <1>2, SeqEqual
<1>7. Frame(type, rest) = <<"array", all>>
  BY DEF Frame, Array, all, head
<1>8. QED
  BY <1>2, <1>3, <1>4, <1>6, <1>7 DEF Field, Null
LEMMA Tuples ==
    ASSUME NEW a, NEW b, NEW c, NEW d
    PROVE  /\ <<>> \in Seq({a}) /\ Len(<<>>) = 0
           /\ <<a>> \in Seq({a}) /\ Len(<<a>>) = 1
           /\ <<a, b>> \in Seq({a, b}) /\ Len(<<a, b>>) = 2
           /\ <<a, b, c>> \in Seq({a, b, c}) /\ Len(<<a, b, c>>) = 3
           /\ <<a, b, c, d>> \in Seq({a, b, c, d}) /\ Len(<<a, b, c, d>>) = 4
  OBVIOUS

\* What is behind the fixed part of an ERROR or an EVENT.
LEMMA TrailShape ==
    ASSUME NEW S, NEW head \in Seq(S), NEW arguments, NEW arguments_kw,
           NEW trail \in Trails(arguments, arguments_kw)
    PROVE  LET rest == head \o trail
               n == Len(head)
           IN  /\ n \in Nat /\ Len(rest) \in n .. n + 2 /\ \E T : rest \in Seq(T)
               /\ \A i \in 1 .. n : rest[i] = head[i]
               /\ IF Len(rest) >= n + 1 THEN rest[n + 1] = arguments ELSE arguments = Array(<<>>)
               /\ IF Len(rest) >= n + 2 THEN rest[n + 2] = arguments_kw ELSE arguments_kw = Empty
<1> DEFINE T == S \cup {arguments, arguments_kw}
           rest == head \o trail
           n == Len(head)
<1>1. \/ trail = <<arguments, arguments_kw>>
      \/ trail = <<arguments>> /\ arguments_kw = Empty
      \/ trail = <<>> /\ arguments_kw = Empty /\ arguments = Array(<<>>)
  BY DEF Trails
<1>2. head \in Seq(T) /\ trail \in Seq(T)
  <2>1. head \in Seq(T)
    OBVIOUS
  <2>2. /\ <<arguments, arguments_kw>> \in Seq(T)
        /\ <<arguments>> \in Seq(T) /\ <<>> \in Seq(T)
    OBVIOUS
  <2>3. QED
    BY <1>1, <2>1, <2>2
<1>3. n \in Nat
  BY LenProperties
<1>. HIDE DEF T
<1>4. /\ rest \in Seq(T) /\ Len(rest) = n + Len(trail)
      /\ \A i \in 1 .. n : rest[i] = head[i]
      /\ \A i \in 1 .. Len(trail) : rest[n + i] = trail[i]
  BY <1>2, Joined
<1>. HIDE DEF rest, n
<1>5. CASE trail = <<arguments, arguments_kw>>
  <2>1. Len(trail) = 2 /\ trail[1] = arguments /\ trail[2] = arguments_kw
    BY <1>5
  <2>2. QED
    BY <1>3, <1>4, <2>1 DEF rest, n
<1>6. CASE trail = <<arguments>> /\ arguments_kw = Empty
  <2>1. Len(trail) = 1 /\ trail[1] = arguments
    BY <1>6
  <2>2. QED
    BY <1>3, <1>4, <1>6, <2>1 DEF rest, n
<1>7. CASE trail = <<>> /\ arguments_kw = Empty /\ arguments = Array(<<>>)
  <2>1. Len(trail) = 0
    BY <1>7
  <2>2. QED
    BY <1>3, <1>4, <1>7, <2>1 DEF rest, n
<1>8. QED
  BY <1>1, <1>5, <1>6, <1>7

LEMMA ParsedByCode ==
    ASSUME NEW f, f[1] = "array", f # <<"binary">>, f[2] # <<>>, f[2][1][1] = "int"
    PROVE  LET code == f[2][1][2]
               v == Tail(f[2])
           IN  /\ code = 2 => parse_message(f) = parse_welcome(v)
               /\ code = 3 => parse_message(f) = parse_abort(v)
               /\ code = 8 => parse_message(f) = parse_error(v)
               /\ code = 6 => parse_message(f) = parse_goodbye(v)
               /\ code = 33 => parse_message(f) = parse_subscribed(v)
               /\ code = 35 => parse_message(f) = parse_unsubscribed(v)
               /\ code = 36 => parse_message(f) = parse_event(v)
               /\ code = 17 => parse_message(f) = Skipped
  BY DEF parse_message, IsList, Code

LEMMA Parsed ==
    ASSUME NEW type \in DOMAIN Code, NEW S, NEW rest \in Seq(S)
    PROVE  LET m == parse_message(Frame(type, rest))
           IN  /\ type = "WELCOME" => m = parse_welcome(rest)
               /\ type = "ABORT" => m = parse_abort(rest)
               /\ type = "ERROR" => m = parse_error(rest)
               /\ type = "GOODBYE" => m = parse_goodbye(rest)
               /\ type = "SUBSCRIBED" => m = parse_subscribed(rest)
               /\ type = "UNSUBSCRIBED" => m = parse_unsubscribed(rest)
               /\ type = "EVENT" => m = parse_event(rest)
               /\ type = "PUBLISHED" => m = Skipped
<1> DEFINE f == Frame(type, rest)
<1>1. /\ f[1] = "array" /\ f # <<"binary">> /\ f[2] # <<>>
      /\ f[2][1] = U64(Code[type]) /\ Tail(f[2]) = rest
  BY FrameShape DEF Field
<1>2. f[2][1][1] = "int" /\ f[2][1][2] = Code[type]
  BY <1>1 DEF U64
<1>. HIDE DEF f
<1>3. /\ Code["WELCOME"] = 2 /\ Code["ABORT"] = 3 /\ Code["ERROR"] = 8 /\ Code["GOODBYE"] = 6
      /\ Code["SUBSCRIBED"] = 33 /\ Code["UNSUBSCRIBED"] = 35 /\ Code["EVENT"] = 36
      /\ Code["PUBLISHED"] = 17
  BY DEF Code
<1>4. /\ Code[type] = 2 => parse_message(f) = parse_welcome(rest)
      /\ Code[type] = 3 => parse_message(f) = parse_abort(rest)
      /\ Code[type] = 8 => parse_message(f) = parse_error(rest)
      /\ Code[type] = 6 => parse_message(f) = parse_goodbye(rest)
      /\ Code[type] = 33 => parse_message(f) = parse_subscribed(rest)
      /\ Code[type] = 35 => parse_message(f) = parse_unsubscribed(rest)
      /\ Code[type] = 36 => parse_message(f) = parse_event(rest)
      /\ Code[type] = 17 => parse_message(f) = Skipped
  BY <1>1, <1>2, ParsedByCode
<1>5. QED
  BY <1>3, <1>4 DEF f
-----------------------------------------------------------------------------
(* What the client makes of each frame of the router's.                    *)

\* A frame with one of the two values that the parsers hold too narrow.
Excused(f) ==
    \E i \in DOMAIN f[2] \ {1} :
        LET j == Field(f, i) IN
        \/ /\ j[1] = "int" /\ j[2] > MaxId
           /\ i = 2 => Field(f, 1) # U64(Code.ERROR)
        \/ j[1] = "string" /\ \E k \in DOMAIN j[2] : j[2][k] = "empty"

\* An id that a parser refuses.
LEMMA ExcusedId ==
    ASSUME NEW type \in DOMAIN Code, type # "ERROR", NEW S, NEW rest \in Seq(S),
           NEW i \in 1 .. Len(rest), NEW id \in Nat, rest[i] = U64(id), ~IsId(rest[i])
    PROVE  Excused(Frame(type, rest))
<1> DEFINE f == Frame(type, rest)
<1>1. Len(rest) \in Nat
  BY LenProperties
<1>2. i + 1 \in DOMAIN f[2] \ {1} /\ Field(f, i + 1) = U64(id) /\ Field(f, 1) = U64(Code[type])
  BY <1>1, FrameShape
<1>3. id > MaxId
  BY MaxIdAssumption DEF IsId, U64
<1>4. U64(Code[type]) # U64(Code.ERROR)
  BY DEF U64, Code
<1>. HIDE DEF f
<1>5. U64(id)[1] = "int" /\ U64(id)[2] = id
  BY DEF U64
<1>6. Excused(f)
  BY <1>2, <1>3, <1>4, <1>5 DEF Excused
<1>7. QED
  BY <1>6 DEF f

LEMMA AnswerParsed ==
    ASSUME NEW r \in Ids, NEW id \in SubscriptionIds
    PROVE  LET m == parse_message(Answer(r, id))
           IN  \/ m.type = "SUBSCRIBED" /\ m.request = r /\ m.subscription = id /\ m # Refused
               \/ m = Refused /\ Excused(Answer(r, id))
<1> DEFINE rest == <<U64(r), U64(id)>>
<1>1. /\ rest \in Seq({U64(r), U64(id)}) /\ Len(rest) = 2
      /\ rest[1] = U64(r) /\ rest[2] = U64(id)
  BY Tuples
<1>2. r \in Nat /\ id \in Nat
  BY CounterAssumption, RouterAssumption DEF Ids
<1>3. Answer(r, id) = Frame("SUBSCRIBED", rest) /\ "SUBSCRIBED" \in DOMAIN Code
  BY DEF Answer, Code
<1>. HIDE DEF rest
<1>4. parse_message(Answer(r, id)) = parse_subscribed(rest)
  BY <1>1, <1>3, Parsed
<1>5. CASE IsId(rest[1]) /\ IsId(rest[2])
  BY <1>1, <1>4, <1>5 DEF parse_subscribed, U64, Refused
<1>6. CASE ~(IsId(rest[1]) /\ IsId(rest[2]))
  <2>1. parse_message(Answer(r, id)) = Refused
    BY <1>4, <1>6 DEF parse_subscribed
  <2>2. Excused(Frame("SUBSCRIBED", rest))
    BY <1>1, <1>2, <1>3, <1>6, ExcusedId
  <2>3. QED
    BY <1>3, <2>1, <2>2
<1>7. QED
  BY <1>5, <1>6
LEMMA EventParsed ==
    ASSUME NEW id \in SubscriptionIds, NEW n \in Nat, NEW p,
           IsList(p.arguments), IsDict(p.arguments_kw), NEW f \in Events(id, n, p)
    PROVE  LET m == parse_message(f)
           IN  \/ /\ m.type = "EVENT" /\ m.subscription = id /\ m.publication = n
                  /\ BroadcastOf(m) = Read(p) /\ m # Refused
               \/ m = Refused /\ Excused(f)
<1>1. PICK trail \in Trails(p.arguments, p.arguments_kw) :
          f = Frame("EVENT", <<U64(id), U64(n), Empty>> \o trail)
  BY DEF Events
<1> DEFINE head == <<U64(id), U64(n), Empty>>
           rest == head \o trail
<1>2. /\ head \in Seq({U64(id), U64(n), Empty}) /\ Len(head) = 3
      /\ head[1] = U64(id) /\ head[2] = U64(n) /\ head[3] = Empty
  BY Tuples
<1>. HIDE DEF head
<1>3. /\ Len(rest) \in 3 .. 5
      /\ \E T : rest \in Seq(T)
      /\ rest[1] = U64(id) /\ rest[2] = U64(n) /\ rest[3] = Empty
      /\ IF Len(rest) >= 4 THEN rest[4] = p.arguments ELSE p.arguments = Array(<<>>)
      /\ IF Len(rest) >= 5 THEN rest[5] = p.arguments_kw ELSE p.arguments_kw = Empty
  <2>0. PICK S : head \in Seq(S)
    BY <1>2
  <2>1. /\ Len(head) \in Nat /\ Len(rest) \in Len(head) .. Len(head) + 2
        /\ \E T : rest \in Seq(T)
        /\ \A i \in 1 .. Len(head) : rest[i] = head[i]
        /\ IF Len(rest) >= Len(head) + 1 THEN rest[Len(head) + 1] = p.arguments
                                         ELSE p.arguments = Array(<<>>)
        /\ IF Len(rest) >= Len(head) + 2 THEN rest[Len(head) + 2] = p.arguments_kw
                                         ELSE p.arguments_kw = Empty
    BY <2>0, TrailShape
  <2>. HIDE DEF rest
  <2>2. QED
    BY <1>2, <2>1
<1>4. f = Frame("EVENT", rest) /\ "EVENT" \in DOMAIN Code
  BY <1>1 DEF Code, head
<1>. HIDE DEF rest
<1>5. parse_message(f) = parse_event(rest)
  BY <1>3, <1>4, Parsed
<1>6. /\ IsDict(rest[3])
      /\ Len(rest) >= 4 => IsList(rest[4])
      /\ Len(rest) >= 5 => IsDict(rest[5])
  BY <1>3 DEF IsDict, Empty, Object
<1>7. CASE IsId(rest[1]) /\ IsId(rest[2])
  <2>1. /\ parse_message(f).type = "EVENT"
        /\ parse_message(f).subscription = id /\ parse_message(f).publication = n
        /\ parse_message(f).arguments = Optional(rest, 4)
        /\ parse_message(f).arguments_kw = Optional(rest, 5)
    BY <1>3, <1>5, <1>6, <1>7 DEF parse_event, U64
  <2>2. Len(rest) \in Nat
    BY <1>3
  <2>3. Optional(rest, 4) = IF Len(rest) >= 4 THEN FromJson(p.arguments) ELSE None
    BY <1>3, <2>2 DEF Optional
  <2>4. Optional(rest, 5) = IF Len(rest) >= 5 THEN FromJson(p.arguments_kw) ELSE None
    BY <1>3, <2>2 DEF Optional
  <2>5. BroadcastOf(parse_message(f)) = Read(p)
    BY <1>3, <2>1, <2>3, <2>4, EmptyRead DEF BroadcastOf, Read, List, Dict
  <2>6. QED
    BY <2>1, <2>5 DEF Refused
<1>8. CASE ~(IsId(rest[1]) /\ IsId(rest[2]))
  <2>1. parse_message(f) = Refused
    BY <1>5, <1>8 DEF parse_event
  <2>2. id \in Nat /\ 1 \in 1 .. Len(rest) /\ 2 \in 1 .. Len(rest)
    BY <1>3, RouterAssumption
  <2>3. Excused(Frame("EVENT", rest))
    BY <1>3, <1>4, <1>8, <2>2, ExcusedId
  <2>4. QED
    BY <1>4, <2>1, <2>3
<1>9. QED
  BY <1>7, <1>8

LEMMA ErrorParsed ==
    ASSUME NEW f \in Errors
    PROVE  LET m == parse_message(f)
           IN  m.type = "ERROR" \/ (m = Refused /\ Excused(f))
<1>1. PICK code \in {"SUBSCRIBE", "UNSUBSCRIBE"}, r \in Ids, uri \in ErrorUris,
          trail \in Trails(Array(<<>>), Empty) :
              f = Frame("ERROR", <<U64(Code[code]), U64(r), Empty, Text(uri)>> \o trail)
  BY DEF Errors
<1> DEFINE head == <<U64(Code[code]), U64(r), Empty, Text(uri)>>
           rest == head \o trail
<1>2. /\ head \in Seq({U64(Code[code]), U64(r), Empty, Text(uri)}) /\ Len(head) = 4
      /\ head[1] = U64(Code[code]) /\ head[2] = U64(r) /\ head[3] = Empty
      /\ head[4] = Text(uri)
  BY Tuples
<1>. HIDE DEF head
<1>3. /\ Len(rest) \in 4 .. 6
      /\ \E T : rest \in Seq(T)
      /\ rest[1] = U64(Code[code]) /\ rest[2] = U64(r) /\ rest[3] = Empty
      /\ rest[4] = Text(uri)
      /\ Len(rest) >= 5 => rest[5] = Array(<<>>)
      /\ Len(rest) >= 6 => rest[6] = Empty
  <2>0. PICK S : head \in Seq(S)
    BY <1>2
  <2>1. /\ Len(head) \in Nat /\ Len(rest) \in Len(head) .. Len(head) + 2
        /\ \E T : rest \in Seq(T)
        /\ \A i \in 1 .. Len(head) : rest[i] = head[i]
        /\ IF Len(rest) >= Len(head) + 1 THEN rest[Len(head) + 1] = Array(<<>>)
                                         ELSE Array(<<>>) = Array(<<>>)
        /\ IF Len(rest) >= Len(head) + 2 THEN rest[Len(head) + 2] = Empty ELSE Empty = Empty
    BY <2>0, TrailShape
  <2>. HIDE DEF rest
  <2>2. QED
    BY <1>2, <2>1
<1>4. f = Frame("ERROR", rest) /\ "ERROR" \in DOMAIN Code
  BY <1>1 DEF Code, head
<1>. HIDE DEF rest
<1>5. parse_message(f) = parse_error(rest)
  BY <1>3, <1>4, Parsed
<1>6. /\ IsDict(rest[3]) /\ rest[1][1] = "int"
      /\ Len(rest) >= 5 => IsList(rest[5])
      /\ Len(rest) >= 6 => IsDict(rest[6])
  BY <1>3 DEF IsDict, IsList, Empty, Object, Array, U64
<1>7. /\ Len(rest) \in Nat /\ r \in Nat
      /\ DOMAIN f[2] = 1 .. Len(rest) + 1
      /\ \A i \in 1 .. Len(rest) : Field(f, i + 1) = rest[i]
  BY <1>3, <1>4, FrameShape, CounterAssumption DEF Ids
<1>8. CASE IsId(rest[2]) /\ IsUri(rest[4])
  BY <1>3, <1>5, <1>6, <1>8 DEF parse_error
<1>9. CASE ~IsId(rest[2])
  <2>1. parse_message(f) = Refused
    BY <1>5, <1>9 DEF parse_error
  <2>2. 3 \in DOMAIN f[2] \ {1} /\ Field(f, 3) = U64(r)
    <3>1. 3 \in 1 .. Len(rest) + 1 /\ 2 \in 1 .. Len(rest)
      BY <1>3
    <3>2. QED
      BY <1>3, <1>7, <3>1
  <2>3. U64(r)[1] = "int" /\ U64(r)[2] > MaxId
    BY <1>3, <1>7, <1>9, MaxIdAssumption DEF IsId, U64
  <2>4. QED
    BY <2>1, <2>2, <2>3 DEF Excused
<1>10. CASE ~IsUri(rest[4])
  <2>1. parse_message(f) = Refused
    BY <1>5, <1>10 DEF parse_error
  <2>2. 5 \in DOMAIN f[2] \ {1} /\ Field(f, 5) = Text(uri)
    <3>1. 5 \in 1 .. Len(rest) + 1 /\ 4 \in 1 .. Len(rest)
      BY <1>3
    <3>2. QED
      BY <1>3, <1>7, <3>1
  <2>3. Text(uri)[1] = "string" /\ Text(uri)[2] = uri
    BY DEF Text
  <2>4. uri \in Seq(Components \ {"bad"})
    BY RouterAssumption
  <2>5. \A k \in DOMAIN uri : uri[k] \in Components \ {"bad"}
    BY <2>4, LenProperties, ElementOfSeq
  <2>6. \E k \in DOMAIN uri : uri[k] = "empty"
    BY <1>3, <1>10, <2>3, <2>5 DEF IsUri, Relaxed, Of, Components
  <2>7. QED
    BY <2>1, <2>2, <2>3, <2>6 DEF Excused
<1>11. QED
  BY <1>8, <1>9, <1>10
LEMMA PairParsed ==
    ASSUME NEW a, NEW b
    PROVE  /\ parse_message(Frame("WELCOME", <<a, b>>)) = parse_welcome(<<a, b>>)
           /\ parse_message(Frame("ABORT", <<a, b>>)) = parse_abort(<<a, b>>)
           /\ parse_message(Frame("GOODBYE", <<a, b>>)) = parse_goodbye(<<a, b>>)
           /\ parse_message(Frame("PUBLISHED", <<a, b>>)) = Skipped
<1> DEFINE rest == <<a, b>>
<1>1. rest \in Seq({a, b})
  BY Tuples
<1>2. {"WELCOME", "ABORT", "GOODBYE", "PUBLISHED"} \subseteq DOMAIN Code
  BY DEF Code
<1>. HIDE DEF rest
<1>3. /\ parse_message(Frame("WELCOME", rest)) = parse_welcome(rest)
      /\ parse_message(Frame("ABORT", rest)) = parse_abort(rest)
      /\ parse_message(Frame("GOODBYE", rest)) = parse_goodbye(rest)
      /\ parse_message(Frame("PUBLISHED", rest)) = Skipped
  BY <1>1, <1>2, Parsed
<1>4. QED
  BY <1>3 DEF rest

LEMMA OtherParsed ==
    ASSUME NEW f \in Others
    PROVE  LET m == parse_message(f)
           IN  m.type \notin {"SUBSCRIBED", "EVENT"} /\ (m = Refused => Excused(f))
<1>1. CASE f = <<"binary">>
  BY <1>1 DEF parse_message, Skipped, Refused
<1>2. CASE f = Frame("PUBLISHED", <<U64(1), U64(1)>>)
  <2>1. parse_message(f) = Skipped
    BY <1>2, PairParsed
  <2>2. QED
    BY <2>1 DEF Skipped, Refused
<1>3. Relaxed(Reason) /\ IsUri(Text(Reason)) /\ IsDict(Empty)
  BY DEF Relaxed, Of, Reason, IsUri, Text, IsDict, Empty, Object
<1>4. CASE f = Frame("ABORT", <<Empty, Text(Reason)>>)
  <2>1. parse_message(f) = parse_abort(<<Empty, Text(Reason)>>)
    BY <1>4, PairParsed
  <2>2. QED
    BY <1>3, <2>1 DEF parse_abort, Refused
<1>5. CASE f = Frame("GOODBYE", <<Empty, Text(Reason)>>)
  <2>1. parse_message(f) = parse_goodbye(<<Empty, Text(Reason)>>)
    BY <1>5, PairParsed
  <2>2. QED
    BY <1>3, <2>1 DEF parse_goodbye, Refused
<1>6. CASE f \in Welcomes
  <2>0. PICK offer \in Offers, extra \in Extras :
            f = Frame("WELCOME", <<U64(1), Object(Details(offer, extra))>>)
    BY <1>6 DEF Welcomes, Welcome
  <2> DEFINE members == Details(offer, extra)
  <2>1. f = Frame("WELCOME", <<U64(1), Object(members)>>)
    BY <2>0
  <2>. HIDE DEF members
  <2>2. parse_message(f) = parse_welcome(<<U64(1), Object(members)>>)
    BY <2>1, PairParsed
  <2>3. IsId(U64(1)) /\ IsDict(Object(members))
    BY RouterAssumption, MaxIdAssumption DEF IsId, IsDict, U64, Object
  <2>4. QED
    BY <2>2, <2>3 DEF parse_welcome, Refused
<1>7. CASE f \in {Frame("UNSUBSCRIBED", <<U64(r)>>) : r \in Ids}
  <2>1. PICK r \in Ids : f = Frame("UNSUBSCRIBED", <<U64(r)>>)
    BY <1>7
  <2>2. r \in Nat
    BY CounterAssumption DEF Ids
  <2>3. /\ <<U64(r)>> \in Seq({U64(r)}) /\ Len(<<U64(r)>>) = 1 /\ <<U64(r)>>[1] = U64(r)
        /\ "UNSUBSCRIBED" \in DOMAIN Code
    BY Tuples DEF Code
  <2>4. parse_message(f) = parse_unsubscribed(<<U64(r)>>)
    BY <2>1, <2>3, Parsed
  <2>5. CASE IsId(U64(r))
    BY <2>3, <2>4, <2>5 DEF parse_unsubscribed, Refused
  <2>6. CASE ~IsId(U64(r))
    <3>. DEFINE rest == <<U64(r)>>
    <3>0. /\ rest \in Seq({U64(r)}) /\ 1 \in 1 .. Len(rest) /\ rest[1] = U64(r)
          /\ f = Frame("UNSUBSCRIBED", rest)
      BY <2>1, <2>3
    <3>. HIDE DEF rest
    <3>1. Excused(f)
      BY <3>0, <2>2, <2>3, <2>6, ExcusedId
    <3>2. parse_message(f) = Refused
      BY <2>3, <2>4, <2>6 DEF parse_unsubscribed
    <3>3. QED
      BY <3>1, <3>2 DEF Refused
  <2>7. QED
    BY <2>5, <2>6
<1>8. QED
  BY <1>1, <1>2, <1>4, <1>5, <1>6, <1>7 DEF Others

\* Only an id or a reason makes a frame unreadable.
LEMMA RefusedMeansExcused ==
    ASSUME NEW f \in FromRouter, parse_message(f) = Refused PROVE Excused(f)
<1>1. CASE f \in Others
  BY <1>1, OtherParsed
<1>2. CASE f \in Errors
  BY <1>2, ErrorParsed DEF Refused
<1>3. CASE f \in {Answer(r, id) : r \in Ids, id \in SubscriptionIds}
  BY <1>3, AnswerParsed
<1>4. CASE \E id \in SubscriptionIds, n \in 1 .. MaxPublications, p \in Payloads :
               f \in Events(id, n, p)
  <2>1. PICK id \in SubscriptionIds, n \in 1 .. MaxPublications, p \in Payloads :
               f \in Events(id, n, p)
    BY <1>4
  <2>2. n \in Nat
    OBVIOUS
  <2>3. QED
    BY <2>1, <2>2, PayloadShape, EventParsed
<1>5. QED
  BY <1>1, <1>2, <1>3, <1>4 DEF FromRouter
-----------------------------------------------------------------------------
(* The client's frames.                                                    *)
LEMMA Written ==
    ASSUME NEW m
    PROVE  /\ m.type = "HELLO" => MessageToJson(m) = Frame(m.type, <<Text(m.realm), ToJson(m.details)>>)
           /\ m.type = "GOODBYE" =>
                 MessageToJson(m) = Frame(m.type, <<ToJson(m.details), Text(m.reason)>>)
           /\ m.type = "SUBSCRIBE" =>
                 MessageToJson(m) = Frame(m.type, <<U64(m.request), ToJson(m.options), Text(m.topic)>>)
           /\ m.type = "UNSUBSCRIBE" =>
                 MessageToJson(m) = Frame(m.type, <<U64(m.request), U64(m.subscription)>>)
           /\ m.type = "PUBLISH" =>
                 MessageToJson(m) =
                    Array(WithArguments(<<U64(Code[m.type])>>
                                          \o <<U64(m.request), ToJson(m.options), Text(m.topic)>>,
                                        m.arguments, m.arguments_kw))
<1>1. ASSUME m.type = "HELLO"
      PROVE  MessageToJson(m) = Frame(m.type, <<Text(m.realm), ToJson(m.details)>>)
  BY <1>1, Zenon DEF MessageToJson, Frame
<1>2. ASSUME m.type = "GOODBYE"
      PROVE  MessageToJson(m) = Frame(m.type, <<ToJson(m.details), Text(m.reason)>>)
  BY <1>2, Zenon DEF MessageToJson, Frame
<1>3. ASSUME m.type = "SUBSCRIBE"
      PROVE  MessageToJson(m) = Frame(m.type, <<U64(m.request), ToJson(m.options), Text(m.topic)>>)
  BY <1>3, Zenon DEF MessageToJson, Frame
<1>4. ASSUME m.type = "UNSUBSCRIBE"
      PROVE  MessageToJson(m) = Frame(m.type, <<U64(m.request), U64(m.subscription)>>)
  BY <1>4, Zenon DEF MessageToJson, Frame
<1>5. ASSUME m.type = "PUBLISH"
      PROVE  MessageToJson(m) =
                Array(WithArguments(<<U64(Code[m.type])>>
                                      \o <<U64(m.request), ToJson(m.options), Text(m.topic)>>,
                                    m.arguments, m.arguments_kw))
  BY <1>5, Zenon DEF MessageToJson
<1>6. QED
  BY <1>1, <1>2, <1>3, <1>4, <1>5

LEMMA PublishWritten ==
    ASSUME NEW r, NEW t, NEW b \in Broadcasts
    PROVE  MessageToJson([type |-> "PUBLISH", request |-> r, options |-> <<"Dict", {}>>, topic |-> t,
                          arguments |-> b.arguments, arguments_kw |-> b.arguments_kw])
             = AskPublish(r, t, b)
<1> DEFINE m == [type |-> "PUBLISH", request |-> r, options |-> <<"Dict", {}>>, topic |-> t,
                 arguments |-> b.arguments, arguments_kw |-> b.arguments_kw]
           one == <<U64(Code["PUBLISH"])>>
           three == <<U64(r), NoOptions, Text(t)>>
           two == <<ToJson(b.arguments), ToJson(b.arguments_kw)>>
           all == <<U64(r), NoOptions, Text(t), ToJson(b.arguments), ToJson(b.arguments_kw)>>
           S == {U64(Code["PUBLISH"]), U64(r), NoOptions, Text(t),
                 ToJson(b.arguments), ToJson(b.arguments_kw)}
<1>1. /\ m.type = "PUBLISH" /\ m.request = r /\ m.options = <<"Dict", {}>> /\ m.topic = t
      /\ m.arguments = b.arguments /\ m.arguments_kw = b.arguments_kw
  OBVIOUS
<1>2. MessageToJson(m) = Array(WithArguments(one \o three, b.arguments, b.arguments_kw))
  BY <1>1, Written DEF NoOptions
<1>3. b.arguments # None /\ b.arguments_kw # None
  BY BroadcastKept
<1>4. WithArguments(one \o three, b.arguments, b.arguments_kw) = (one \o three) \o two
  BY <1>3 DEF WithArguments
<1>5. one \in Seq(S) /\ three \in Seq(S) /\ two \in Seq(S) /\ all \in Seq(S)
  OBVIOUS
<1>6. Len(three) = 3 /\ Len(two) = 2 /\ Len(all) = 5
  OBVIOUS
<1>7. /\ three[1] = all[1] /\ three[2] = all[2] /\ three[3] = all[3]
      /\ two[1] = all[4] /\ two[2] = all[5]
  OBVIOUS
<1>. HIDE DEF one, three, two, all, S
<1>8. (one \o three) \o two = one \o (three \o two)
  BY <1>5, ConcatAssociative
<1>9. three \o two = all
  <2>1. /\ three \o two \in Seq(S) /\ Len(three \o two) = Len(three) + Len(two)
        /\ \A i \in 1 .. Len(three) : (three \o two)[i] = three[i]
        /\ \A i \in 1 .. Len(two) : (three \o two)[Len(three) + i] = two[i]
    BY <1>5, Joined
  <2>2. /\ (three \o two)[1] = all[1] /\ (three \o two)[2] = all[2]
        /\ (three \o two)[3] = all[3]
    BY <2>1, <1>6, <1>7
  <2>3. (three \o two)[4] = all[4] /\ (three \o two)[5] = all[5]
    BY <2>1, <1>6, <1>7
  <2>4. Len(three \o two) = 5 /\ \A i \in 1 .. 5 : i \in {1, 2, 3, 4, 5}
    BY <2>1, <1>6
  <2>5. \A i \in 1 .. Len(three \o two) : (three \o two)[i] = all[i]
    BY <2>2, <2>3, <2>4
  <2>6. QED
    BY <2>1, <2>4, <2>5, <1>5, <1>6, SeqEqual
<1>10. Array(one \o all) = AskPublish(r, t, b)
  BY DEF AskPublish, Frame, one, all
<1>11. QED
  BY <1>2, <1>4, <1>8, <1>9, <1>10

LEMMA AskShape ==
    ASSUME NEW r, NEW x, NEW t, NEW b
    PROVE  /\ Field(AskSubscribe(r, t), 1) = U64(Code["SUBSCRIBE"])
           /\ Field(AskSubscribe(r, t), 2) = U64(r) /\ Field(AskSubscribe(r, t), 4) = Text(t)
           /\ Field(AskUnsubscribe(r, x), 1) = U64(Code["UNSUBSCRIBE"])
           /\ Field(AskUnsubscribe(r, x), 2) = U64(r)
           /\ Field(AskPublish(r, t, b), 1) = U64(Code["PUBLISH"])
           /\ Field(AskPublish(r, t, b), 4) = Text(t) /\ Len(AskPublish(r, t, b)[2]) = 6
           /\ Field(AskPublish(r, t, b), 5) = ToJson(b.arguments)
           /\ Field(AskPublish(r, t, b), 6) = ToJson(b.arguments_kw)
<1> DEFINE sub == <<U64(r), NoOptions, Text(t)>>
           unsub == <<U64(r), U64(x)>>
           pub == <<U64(r), NoOptions, Text(t), ToJson(b.arguments), ToJson(b.arguments_kw)>>
<1>1. sub \in Seq({U64(r), NoOptions, Text(t)}) /\ unsub \in Seq({U64(r), U64(x)})
  OBVIOUS
<1>2. pub \in Seq({U64(r), NoOptions, Text(t), ToJson(b.arguments), ToJson(b.arguments_kw)})
  OBVIOUS
<1>3. Len(sub) = 3 /\ Len(unsub) = 2 /\ Len(pub) = 5
  OBVIOUS
<1>4. /\ sub[1] = U64(r) /\ sub[3] = Text(t) /\ unsub[1] = U64(r)
      /\ pub[3] = Text(t) /\ pub[4] = ToJson(b.arguments) /\ pub[5] = ToJson(b.arguments_kw)
  OBVIOUS
<1>5. {"SUBSCRIBE", "UNSUBSCRIBE", "PUBLISH"} \subseteq DOMAIN Code
  BY DEF Code
<1>6. /\ AskSubscribe(r, t) = Frame("SUBSCRIBE", sub)
      /\ AskUnsubscribe(r, x) = Frame("UNSUBSCRIBE", unsub)
      /\ AskPublish(r, t, b) = Frame("PUBLISH", pub)
  BY DEF AskSubscribe, AskUnsubscribe, AskPublish
<1>. HIDE DEF sub, unsub, pub
<1>7. /\ Field(Frame("SUBSCRIBE", sub), 1) = U64(Code["SUBSCRIBE"])
      /\ \A i \in 1 .. Len(sub) : Field(Frame("SUBSCRIBE", sub), i + 1) = sub[i]
  BY <1>1, <1>5, FrameShape
<1>8. /\ Field(Frame("UNSUBSCRIBE", unsub), 1) = U64(Code["UNSUBSCRIBE"])
      /\ \A i \in 1 .. Len(unsub) : Field(Frame("UNSUBSCRIBE", unsub), i + 1) = unsub[i]
  BY <1>1, <1>5, FrameShape
<1>9. /\ Field(Frame("PUBLISH", pub), 1) = U64(Code["PUBLISH"])
      /\ Len(Frame("PUBLISH", pub)[2]) = Len(pub) + 1
      /\ \A i \in 1 .. Len(pub) : Field(Frame("PUBLISH", pub), i + 1) = pub[i]
  BY <1>2, <1>5, FrameShape
<1>10. /\ Field(Frame("SUBSCRIBE", sub), 1 + 1) = sub[1]
       /\ Field(Frame("SUBSCRIBE", sub), 3 + 1) = sub[3]
       /\ Field(Frame("UNSUBSCRIBE", unsub), 1 + 1) = unsub[1]
       /\ Field(Frame("PUBLISH", pub), 3 + 1) = pub[3]
       /\ Field(Frame("PUBLISH", pub), 4 + 1) = pub[4]
       /\ Field(Frame("PUBLISH", pub), 5 + 1) = pub[5]
  BY <1>3, <1>7, <1>8, <1>9
<1>11. QED
  BY <1>3, <1>4, <1>6, <1>7, <1>8, <1>9, <1>10

LEMMA ClientFrames ==
    ASSUME NEW f \in FromClient
    PROVE  \/ \E code \in {"HELLO", "GOODBYE"} : Field(f, 1) = U64(Code[code])
           \/ \E r \in Ids, t \in Topics : f = AskSubscribe(r, t)
           \/ \E r \in Ids, id \in SubscriptionIds : f = AskUnsubscribe(r, id)
           \/ \E r \in Ids, t \in Topics, b \in Broadcasts : f = AskPublish(r, t, b)
<1>1. ASSUME NEW a, NEW b, NEW code \in {"HELLO", "GOODBYE"}
      PROVE  Field(Frame(code, <<a, b>>), 1) = U64(Code[code])
  <2>1. <<a, b>> \in Seq({a, b}) /\ code \in DOMAIN Code
    BY DEF Code
  <2>2. QED
    BY <2>1, FrameShape
<1>2. QED
  BY <1>1 DEF FromClient, Greeting

-----------------------------------------------------------------------------
(* Frames on their way.                                                    *)
LEMMA Added ==
    ASSUME NEW S, NEW s \in Seq(S), NEW x \in S
    PROVE  /\ Append(s, x) \in Seq(S)
           /\ \A f \in In(Append(s, x)) : f \in In(s) \/ f = x
<1>1. /\ Append(s, x) \in Seq(S) /\ Len(Append(s, x)) = Len(s) + 1
      /\ \A i \in 1 .. Len(s) : Append(s, x)[i] = s[i]
      /\ Append(s, x)[Len(s) + 1] = x
  BY AppendProperties
<1>2. Len(s) \in Nat
  BY LenProperties
<1>3. ASSUME NEW f \in In(Append(s, x)) PROVE f \in In(s) \/ f = x
  <2>1. PICK i \in 1 .. Len(s) + 1 : f = Append(s, x)[i]
    BY <1>1 DEF In
  <2>2. i \in 1 .. Len(s) \/ i = Len(s) + 1
    BY <1>2
  <2>3. QED
    BY <1>1, <2>1, <2>2 DEF In
<1>4. QED
  BY <1>1, <1>3

LEMMA Grown ==
    ASSUME NEW S, NEW q \in [Clients -> Seq(S)], NEW c \in Clients, NEW x \in S
    PROVE  LET r == [q EXCEPT ![c] = Append(@, x)]
           IN  /\ r \in [Clients -> Seq(S)]
               /\ \A d \in Clients : \A f \in In(r[d]) : f \in In(q[d]) \/ (d = c /\ f = x)
<1>1. q[c] \in Seq(S)
  OBVIOUS
<1>2. /\ Append(q[c], x) \in Seq(S)
      /\ \A f \in In(Append(q[c], x)) : f \in In(q[c]) \/ f = x
  BY <1>1, Added
<1>3. QED
  BY <1>2

LEMMA Shrunk ==
    ASSUME NEW S, NEW q \in [Clients -> Seq(S)], NEW c \in Clients, q[c] # <<>>
    PROVE  LET r == [q EXCEPT ![c] = Tail(@)]
           IN  /\ r \in [Clients -> Seq(S)] /\ Head(q[c]) \in S /\ Head(q[c]) \in In(q[c])
               /\ \A d \in Clients : \A f \in In(r[d]) : f \in In(q[d])
<1>1. q[c] \in Seq(S)
  OBVIOUS
<1>2. /\ Head(q[c]) \in S /\ Head(q[c]) = q[c][1]
      /\ Tail(q[c]) \in Seq(S) /\ Len(Tail(q[c])) = Len(q[c]) - 1
      /\ \A i \in 1 .. Len(Tail(q[c])) : Tail(q[c])[i] = q[c][i + 1]
  BY <1>1, HeadTailProperties
<1>3. Len(q[c]) \in Nat /\ Len(q[c]) # 0
  BY <1>1, LenProperties, EmptySeq
<1>4. Head(q[c]) \in In(q[c])
  BY <1>2, <1>3 DEF In
<1>5. \A f \in In(Tail(q[c])) : f \in In(q[c])
  <2> TAKE f \in In(Tail(q[c]))
  <2>1. PICK i \in 1 .. Len(q[c]) - 1 : f = Tail(q[c])[i]
    BY <1>2 DEF In
  <2>2. i + 1 \in 1 .. Len(q[c]) /\ i \in 1 .. Len(Tail(q[c]))
    BY <1>2, <1>3
  <2>3. QED
    BY <1>2, <2>1, <2>2 DEF In
<1>6. QED
  BY <1>2, <1>4, <1>5

LEMMA Emptied ==
    ASSUME NEW S, NEW q \in [Clients -> Seq(S)], NEW c \in Clients
    PROVE  LET r == [q EXCEPT ![c] = <<>>]
           IN  /\ r \in [Clients -> Seq(S)]
               /\ \A d \in Clients : \A f \in In(r[d]) : f \in In(q[d])
<1>1. In(<<>>) = {}
  BY DEF In
<1>2. <<>> \in Seq(S)
  OBVIOUS
<1>3. QED
  BY <1>1, <1>2

\* Id::next: the id is one that no request has, and the ids taken stay taken.
LEMMA FreshId ==
    ASSUME next \in Ids, made \in 0 .. MaxRequests, TakeId
    PROVE  /\ ~Taken(next)
           /\ \A r : Taken(r) \/ r = next => Taken(r)'
           /\ next' \in Ids /\ made' \in 0 .. MaxRequests
<1>1. /\ made < MaxRequests /\ made' = made + 1 /\ next' = (next + 1) % IdRange
      /\ next \in 0 .. IdRange - 1 /\ made \in Nat /\ MaxRequests \in 0 .. IdRange
      /\ IdRange \in Nat
  BY CounterAssumption DEF TakeId, Ids
<1>2. next' = IF next + 1 = IdRange THEN 0 ELSE next + 1
  <2>1. (next + 1) % IdRange = IF next + 1 = IdRange THEN 0 ELSE next + 1
    BY <1>1
  <2>2. QED
    BY <1>1, <2>1
<1>3. ~Taken(next)
  BY <1>1 DEF Taken
<1>4. ASSUME NEW r, r = next PROVE Taken(r)'
  BY <1>1, <1>2, <1>4 DEF Taken, Ids
<1>5. ASSUME NEW r, Taken(r) PROVE Taken(r)'
  BY <1>1, <1>2, <1>5 DEF Taken, Ids
<1>6. QED
  BY <1>1, <1>2, <1>3, <1>4, <1>5 DEF Ids

LEMMA SameIds ==
    ASSUME UNCHANGED <<next, made>>
    PROVE  \A r : Taken(r) => Taken(r)'
  BY DEF Taken

-----------------------------------------------------------------------------
(* What a step must do to keep the two parts of the invariant that are     *)
(* about the contents of frames.                                           *)
LEMMA AskedKept ==
    ASSUME AskedInv, granted \subseteq granted', \A r : Taken(r) => Taken(r)',
           \A c \in Clients : \A r : Taken(r) /\ Awaits(c, r)' =>
               Awaits(c, r) /\ call'[c].topic = call[c].topic,
           \A c \in Clients : \A f \in In(up'[c]) : f \in In(up[c]) \/ AskFits(c, f)',
           \A c \in Clients : \A f \in In(down'[c]) : f \in In(down[c]) \/ AnswerFits(c, f)',
           \A c \in Clients : \A q \in queues'[c] :
               \/ \E p \in queues[c] : p.topic = q.topic /\ p.id = q.id
               \/ <<q.topic, q.id>> \in granted'
    PROVE  AskedInv'
<1>1. ASSUME NEW c \in Clients, NEW f, AskFits(c, f) PROVE AskFits(c, f)'
  BY <1>1 DEF AskFits
<1>2. ASSUME NEW c \in Clients, NEW f, AnswerFits(c, f) PROVE AnswerFits(c, f)'
  BY <1>2 DEF AnswerFits
<1>3. ASSUME NEW c \in Clients, NEW f \in In(up'[c]) PROVE AskFits(c, f)'
  BY <1>1 DEF AskedInv
<1>4. ASSUME NEW c \in Clients, NEW f \in In(down'[c]) PROVE AnswerFits(c, f)'
  BY <1>2 DEF AskedInv
<1>5. ASSUME NEW c \in Clients, NEW q \in queues'[c] PROVE <<q.topic, q.id>> \in granted'
  BY DEF AskedInv
<1>6. QED
  BY <1>3, <1>4, <1>5 DEF AskedInv

LEMMA SpreadKept ==
    ASSUME SpreadInv, granted \subseteq granted', said \subseteq said',
           granted' \subseteq Topics \X SubscriptionIds,
           \A g, h \in granted' : g[2] = h[2] => g[1] = h[1],
           published' \in Seq(Publications),
           \A n \in 1 .. Len(published) :
               n \in 1 .. Len(published') /\ published'[n] = published[n],
           \A n \in 1 .. Len(published') : n \in 1 .. Len(published) \/ Backed(n)',
           \A c \in Clients : \A f \in In(up'[c]) : f \in In(up[c]) \/ PublishFits(c, f)',
           \A c \in Clients : \A f \in In(down'[c]) : f \in In(down[c]) \/ EventFits(f)',
           \A h \in heard' : h \in heard \/ HeardFits(h)'
    PROVE  SpreadInv'
<1>1. ASSUME NEW n \in 1 .. Len(published) PROVE Backed(n)'
  <2>1. Backed(n) /\ published'[n] = published[n]
    BY DEF SpreadInv
  <2>2. QED
    BY <2>1 DEF Backed
<1>2. ASSUME NEW c \in Clients, NEW f, PublishFits(c, f) PROVE PublishFits(c, f)'
  BY <1>2 DEF PublishFits
<1>3. ASSUME NEW f, EventFits(f) PROVE EventFits(f)'
  BY <1>3 DEF EventFits
<1>4. ASSUME NEW h, HeardFits(h) PROVE HeardFits(h)'
  BY <1>4 DEF HeardFits
<1>5. \A n \in 1 .. Len(published') : Backed(n)'
  BY <1>1
<1>6. \A c \in Clients : /\ \A f \in In(up'[c]) : PublishFits(c, f)'
                         /\ \A f \in In(down'[c]) : EventFits(f)'
  BY <1>2, <1>3 DEF SpreadInv
<1>7. \A h \in heard' : HeardFits(h)'
  BY <1>4 DEF SpreadInv
<1>8. QED
  BY <1>5, <1>6, <1>7 DEF SpreadInv

\* Most steps only move on: they send neither SUBSCRIBE nor PUBLISH, give neither SUBSCRIBED
\* nor EVENT, and start no call.
LEMMA MovedOn ==
    ASSUME MessageInv, TypeOK', FrameInv', UNCHANGED <<granted, published, said, heard>>,
           \A r : Taken(r) => Taken(r)',
           \A c \in Clients : \A r : Taken(r) /\ Awaits(c, r)' =>
               Awaits(c, r) /\ call'[c].topic = call[c].topic,
           \A c \in Clients : \A f \in In(up'[c]) :
               \/ f \in In(up[c])
               \/ Field(f, 1) \notin {U64(Code["SUBSCRIBE"]), U64(Code["PUBLISH"])},
           \A c \in Clients : \A f \in In(down'[c]) :
               f \in In(down[c]) \/ parse_message(f).type \notin {"SUBSCRIBED", "EVENT"},
           \A c \in Clients : \A q \in queues'[c] :
               \E p \in queues[c] : p.topic = q.topic /\ p.id = q.id
    PROVE  MessageInv'
<1>1. AskedInv'
  <2>1. AskedInv /\ granted \subseteq granted'
    BY DEF MessageInv
  <2>2. \A c \in Clients : \A f \in In(up'[c]) : f \in In(up[c]) \/ AskFits(c, f)'
    BY DEF AskFits
  <2>3. \A c \in Clients : \A f \in In(down'[c]) : f \in In(down[c]) \/ AnswerFits(c, f)'
    BY DEF AnswerFits
  <2>4. QED
    BY <2>1, <2>2, <2>3, AskedKept
<1>2. SpreadInv'
  <2>1. SpreadInv /\ granted \subseteq granted' /\ said \subseteq said'
    BY DEF MessageInv
  <2>2. /\ granted' \subseteq Topics \X SubscriptionIds
        /\ \A g, h \in granted' : g[2] = h[2] => g[1] = h[1]
        /\ published' \in Seq(Publications)
    BY <2>1 DEF SpreadInv
  <2>3. \A c \in Clients : \A f \in In(up'[c]) : f \in In(up[c]) \/ PublishFits(c, f)'
    BY DEF PublishFits
  <2>4. \A c \in Clients : \A f \in In(down'[c]) : f \in In(down[c]) \/ EventFits(f)'
    BY DEF EventFits
  <2>5. QED
    BY <2>1, <2>2, <2>3, <2>4, SpreadKept
<1>3. QED
  BY <1>1, <1>2 DEF MessageInv

-----------------------------------------------------------------------------
(* The program's calls.                                                    *)
LEMMA AsksWritten ==
    ASSUME NEW r, NEW t, NEW id
    PROVE  /\ MessageToJson([type |-> "SUBSCRIBE", request |-> r, options |-> <<"Dict", {}>>,
                             topic |-> t]) = AskSubscribe(r, t)
           /\ MessageToJson([type |-> "UNSUBSCRIBE", request |-> r, subscription |-> id])
                = AskUnsubscribe(r, id)
<1> DEFINE m == [type |-> "SUBSCRIBE", request |-> r, options |-> <<"Dict", {}>>, topic |-> t]
           n == [type |-> "UNSUBSCRIBE", request |-> r, subscription |-> id]
<1>1. /\ m.type = "SUBSCRIBE" /\ m.request = r /\ m.options = <<"Dict", {}>> /\ m.topic = t
      /\ n.type = "UNSUBSCRIBE" /\ n.request = r /\ n.subscription = id
  OBVIOUS
<1>. HIDE DEF m, n
<1>2. /\ MessageToJson(m) = Frame("SUBSCRIBE", <<U64(r), ToJson(<<"Dict", {}>>), Text(t)>>)
      /\ MessageToJson(n) = Frame("UNSUBSCRIBE", <<U64(r), U64(id)>>)
  BY <1>1, Written
<1>3. QED
  BY <1>2 DEF m, n, AskSubscribe, AskUnsubscribe, NoOptions

LEMMA GreetingsWritten ==
    LET hello == MessageToJson([type |-> "HELLO", realm |-> Realm, details |-> ClientDetails])
        goodbye == MessageToJson([type |-> "GOODBYE", details |-> <<"Dict", {}>>,
                                  reason |-> Reason])
    IN  \A f \in {hello, goodbye} :
            /\ f \in FromClient
            /\ Field(f, 1) \notin {U64(Code["SUBSCRIBE"]), U64(Code["PUBLISH"])}
<1> DEFINE m == [type |-> "HELLO", realm |-> Realm, details |-> ClientDetails]
           n == [type |-> "GOODBYE", details |-> <<"Dict", {}>>, reason |-> Reason]
<1>1. /\ m.type = "HELLO" /\ m.realm = Realm /\ m.details = ClientDetails
      /\ n.type = "GOODBYE" /\ n.details = <<"Dict", {}>> /\ n.reason = Reason
  OBVIOUS
<1>. HIDE DEF m, n
<1>2. /\ MessageToJson(m) = Frame("HELLO", <<Text(Realm), ToJson(ClientDetails)>>)
      /\ MessageToJson(n) = Frame("GOODBYE", <<NoOptions, Text(Reason)>>)
  BY <1>1, Written DEF NoOptions
<1>3. MessageToJson(m) \in FromClient /\ MessageToJson(n) \in FromClient
  BY <1>2 DEF FromClient, Greeting
<1>4. ASSUME NEW a, NEW b, NEW code \in {"HELLO", "GOODBYE"}
      PROVE  Field(Frame(code, <<a, b>>), 1) = U64(Code[code])
  <2>1. <<a, b>> \in Seq({a, b}) /\ code \in DOMAIN Code
    BY DEF Code
  <2>2. QED
    BY <2>1, FrameShape
<1>5. \A code \in {"HELLO", "GOODBYE"} : U64(Code[code]) \notin {U64(Code["SUBSCRIBE"]), U64(Code["PUBLISH"])}
  BY DEF U64, Code
<1>6. QED
  BY <1>2, <1>3, <1>4, <1>5 DEF m, n

LEMMA GreetingKeeps ==
    ASSUME MessageInv, NEW c \in Clients, Hello(c) \/ Close(c)
    PROVE  MessageInv'
<1>1. PICK x : /\ up' = [up EXCEPT ![c] = Append(@, x)] /\ x \in FromClient
               /\ Field(x, 1) \notin {U64(Code["SUBSCRIBE"]), U64(Code["PUBLISH"])}
  BY GreetingsWritten DEF Hello, Close, Sends
<1>2. /\ UNCHANGED <<next, made, call, queues, lost, rsubs, granted, published, down, said, heard>>
      /\ state[c] \notin {"ended"} /\ call[c] = Idle
      /\ \E s \in {"joining", "closing"} : state' = [state EXCEPT ![c] = s]
  BY DEF Hello, Close, MessageInv, TypeOK, idVars, routerVars
<1>3. TypeOK /\ FrameInv
  BY DEF MessageInv
<1>4. /\ up' \in [Clients -> Seq(FromClient)]
      /\ \A d \in Clients : \A f \in In(up'[d]) : f \in In(up[d]) \/ (d = c /\ f = x)
  BY <1>1, <1>3, Grown DEF FrameInv
<1>5. TypeOK'
  BY <1>2, <1>3 DEF TypeOK
<1>6. FrameInv'
  BY <1>2, <1>3, <1>4 DEF FrameInv
<1>7. /\ \A r : Taken(r) => Taken(r)'
      /\ \A d \in Clients : \A r : Awaits(d, r)' => Awaits(d, r)
  BY <1>2, SameIds DEF Awaits
<1>8. QED
  BY <1>1, <1>2, <1>4, <1>5, <1>6, <1>7, MovedOn

LEMMA CancelKeeps ==
    ASSUME MessageInv, NEW c \in Clients, Cancel(c)
    PROVE  MessageInv'
<1>1. /\ UNCHANGED <<next, made, state, queues, lost, rsubs, granted, published, up, down,
                     said, heard>>
      /\ call' = [call EXCEPT ![c] = Idle]
  BY DEF Cancel, idVars, routerVars
<1>2. TypeOK /\ FrameInv
  BY DEF MessageInv
<1>3. TypeOK'
  BY <1>1, <1>2 DEF TypeOK, FrameInv
<1>4. FrameInv'
  BY <1>1, <1>2 DEF FrameInv, Calls
<1>5. /\ \A r : Taken(r) => Taken(r)'
      /\ \A d \in Clients : \A r : Awaits(d, r)' => Awaits(d, r) /\ call'[d].topic = call[d].topic
  <2>1. \A r : ~(Idle.op = "subscribe")
    BY DEF Idle
  <2>2. QED
    BY <1>1, <1>2, <2>1, SameIds DEF Awaits, FrameInv
<1>6. QED
  BY <1>1, <1>3, <1>4, <1>5, MovedOn

LEMMA AskedFrames ==
    ASSUME NEW r \in Ids
    PROVE  /\ \A t \in Topics : AskSubscribe(r, t) \in FromClient
           /\ \A id \in SubscriptionIds : AskUnsubscribe(r, id) \in FromClient
           /\ \A t \in Topics, b \in Broadcasts : AskPublish(r, t, b) \in FromClient
           /\ \A a, b \in {"HELLO", "GOODBYE", "SUBSCRIBE", "UNSUBSCRIBE", "PUBLISH"} :
                  U64(Code[a]) = U64(Code[b]) => a = b
<1>1. \A a, b \in {"HELLO", "GOODBYE", "SUBSCRIBE", "UNSUBSCRIBE", "PUBLISH"} :
          U64(Code[a]) = U64(Code[b]) => a = b
  BY DEF U64, Code
<1>2. QED
  BY <1>1 DEF FromClient, Greeting

LEMMA SubscribeKeeps ==
    ASSUME MessageInv, NEW c \in Clients, NEW t \in Topics, Subscribe(c, t)
    PROVE  MessageInv'
<1> PICK n : n = next
  OBVIOUS
<1> DEFINE x == AskSubscribe(n, t)
           k == [op |-> "subscribe", request |-> n, topic |-> t]
<1>1. /\ UNCHANGED <<state, caps, queues, lost, rsubs, granted, published, down, said, heard>>
      /\ TakeId /\ state[c] = "open"
      /\ call' = [call EXCEPT ![c] = k]
  BY DEF Subscribe, MayAsk, routerVars
<1>2. up' = [up EXCEPT ![c] = Append(@, x)]
  BY AsksWritten DEF Subscribe, Sends
<1>3. TypeOK /\ FrameInv /\ AskedInv /\ SpreadInv
  BY DEF MessageInv
<1>4. /\ next \in Ids /\ ~Taken(next) /\ next' \in Ids /\ made' \in 0 .. MaxRequests
      /\ \A r : Taken(r) \/ r = next => Taken(r)'
  BY <1>1, <1>3, FreshId DEF TypeOK, Ids
<1>5. x \in FromClient /\ Field(x, 1) = U64(Code["SUBSCRIBE"])
  <2>1. Field(x, 1) = U64(Code["SUBSCRIBE"])
    BY AskShape
  <2>2. QED
    BY <1>4, <2>1, AskedFrames
<1>. HIDE DEF x
<1>6. /\ up' \in [Clients -> Seq(FromClient)]
      /\ \A d \in Clients : \A f \in In(up'[d]) : f \in In(up[d]) \/ (d = c /\ f = x)
  BY <1>2, <1>3, <1>5, Grown DEF FrameInv
<1>7. k \in Calls /\ k.op = "subscribe" /\ k.request = n /\ k.topic = t
  BY <1>4 DEF Calls
<1>. HIDE DEF k
<1>8. TypeOK'
  BY <1>1, <1>3, <1>4 DEF TypeOK, Ids
<1>9. FrameInv'
  BY <1>1, <1>3, <1>6, <1>7 DEF FrameInv
<1>10. call'[c] = k /\ \A d \in Clients : d # c => call'[d] = call[d]
  BY <1>1, <1>3 DEF FrameInv
<1>11. AskedInv'
  <2>1. \A d \in Clients : \A r : Taken(r) /\ Awaits(d, r)' =>
            Awaits(d, r) /\ call'[d].topic = call[d].topic
    BY <1>4, <1>7, <1>10 DEF Awaits
  <2>2. AskFits(c, x)'
    <3>1. x = AskSubscribe(n, t) /\ Taken(n)' /\ call'[c].topic = t
      BY <1>4, <1>7, <1>10 DEF x
    <3>2. QED
      BY <1>4, <3>1 DEF AskFits
  <2>3. \A d \in Clients : \A f \in In(up'[d]) : f \in In(up[d]) \/ AskFits(d, f)'
    BY <1>6, <2>2
  <2>4. QED
    BY <1>1, <1>3, <1>4, <2>1, <2>3, AskedKept
<1>12. SpreadInv'
  <2>1. Field(x, 1) # U64(Code["PUBLISH"])
    BY <1>4, <1>5, AskedFrames
  <2>2. \A d \in Clients : \A f \in In(up'[d]) : f \in In(up[d]) \/ PublishFits(d, f)'
    BY <1>6, <2>1 DEF PublishFits
  <2>3. /\ granted' \subseteq Topics \X SubscriptionIds
        /\ \A g, h \in granted' : g[2] = h[2] => g[1] = h[1]
        /\ published' \in Seq(Publications)
    BY <1>1, <1>3 DEF SpreadInv
  <2>4. QED
    BY <1>1, <1>3, <2>2, <2>3, SpreadKept
<1>13. QED
  BY <1>8, <1>9, <1>11, <1>12 DEF MessageInv

LEMMA UnsubscribeKeeps ==
    ASSUME MessageInv, NEW c \in Clients, NEW q \in queues[c], Unsubscribe(c, q)
    PROVE  MessageInv'
<1> PICK n : n = next
  OBVIOUS
<1> DEFINE x == AskUnsubscribe(n, q.id)
           k == [op |-> "unsubscribe", request |-> n, id |-> q.id]
           p == [q EXCEPT !.stream = FALSE]
<1>1. /\ UNCHANGED <<state, caps, lost, rsubs, granted, published, down, said, heard>>
      /\ TakeId /\ state[c] = "open"
      /\ call' = [call EXCEPT ![c] = k]
      /\ queues' = [queues EXCEPT ![c] = (@ \ {q}) \cup {p}]
  BY DEF Unsubscribe, MayAsk, routerVars
<1>2. up' = [up EXCEPT ![c] = Append(@, x)]
  BY AsksWritten DEF Unsubscribe, Sends
<1>3. TypeOK /\ FrameInv
  BY DEF MessageInv
<1>4. /\ next \in Ids /\ next' \in Ids /\ made' \in 0 .. MaxRequests
      /\ \A r : Taken(r) => Taken(r)'
  BY <1>1, <1>3, FreshId DEF TypeOK, Ids
<1>5. q \in [id : SubscriptionIds, topic : Topics, stream : BOOLEAN]
  BY <1>3 DEF FrameInv
<1>6. /\ p \in [id : SubscriptionIds, topic : Topics, stream : BOOLEAN]
      /\ p.topic = q.topic /\ p.id = q.id /\ q.id \in SubscriptionIds
  BY <1>5
<1>7. x \in FromClient /\ Field(x, 1) = U64(Code["UNSUBSCRIBE"])
  <2>1. Field(x, 1) = U64(Code["UNSUBSCRIBE"])
    BY AskShape
  <2>2. QED
    BY <1>4, <1>6, <2>1, AskedFrames
<1>8. Field(x, 1) \notin {U64(Code["SUBSCRIBE"]), U64(Code["PUBLISH"])}
  BY <1>4, <1>7, AskedFrames
<1>9. k \in Calls /\ k.op = "unsubscribe"
  BY <1>4, <1>6 DEF Calls
<1>. HIDE DEF x, k, p
<1>10. /\ up' \in [Clients -> Seq(FromClient)]
       /\ \A d \in Clients : \A f \in In(up'[d]) : f \in In(up[d]) \/ (d = c /\ f = x)
  BY <1>2, <1>3, <1>7, Grown DEF FrameInv
<1>11. TypeOK'
  BY <1>1, <1>3, <1>4 DEF TypeOK, Ids
<1>12. FrameInv'
  BY <1>1, <1>3, <1>6, <1>9, <1>10 DEF FrameInv
<1>13. \A d \in Clients : \A r : Awaits(d, r)' => Awaits(d, r) /\ call'[d].topic = call[d].topic
  BY <1>1, <1>3, <1>9 DEF Awaits, FrameInv
<1>14. \A d \in Clients : \A r \in queues'[d] :
           \E s \in queues[d] : s.topic = r.topic /\ s.id = r.id
  BY <1>1, <1>3, <1>6 DEF FrameInv
<1>15. QED
  BY <1>1, <1>4, <1>8, <1>10, <1>11, <1>12, <1>13, <1>14, MovedOn

LEMMA PublishKeeps ==
    ASSUME MessageInv, NEW c \in Clients, NEW t \in Topics, NEW b \in Broadcasts, Publish(c, t, b)
    PROVE  MessageInv'
<1> PICK n : n = next
  OBVIOUS
<1> DEFINE x == AskPublish(n, t, b)
<1>1. /\ UNCHANGED <<state, caps, call, queues, lost, rsubs, granted, published, down, heard>>
      /\ TakeId /\ said' = said \cup {<<c, t, b>>}
  BY DEF Publish, clientVars, routerVars
<1>2. up' = [up EXCEPT ![c] = Append(@, x)]
  BY PublishWritten DEF Publish, Sends
<1>3. TypeOK /\ FrameInv /\ AskedInv /\ SpreadInv
  BY DEF MessageInv
<1>4. /\ next \in Ids /\ next' \in Ids /\ made' \in 0 .. MaxRequests
      /\ \A r : Taken(r) => Taken(r)'
  BY <1>1, <1>3, FreshId DEF TypeOK, Ids
<1>5. x \in FromClient /\ Field(x, 1) = U64(Code["PUBLISH"])
  <2>1. Field(x, 1) = U64(Code["PUBLISH"])
    BY AskShape
  <2>2. QED
    BY <1>4, <2>1, AskedFrames
<1>. HIDE DEF x
<1>6. /\ up' \in [Clients -> Seq(FromClient)]
      /\ \A d \in Clients : \A f \in In(up'[d]) : f \in In(up[d]) \/ (d = c /\ f = x)
  BY <1>2, <1>3, <1>5, Grown DEF FrameInv
<1>7. TypeOK'
  BY <1>1, <1>3, <1>4 DEF TypeOK, Ids
<1>8. FrameInv'
  BY <1>1, <1>3, <1>6 DEF FrameInv
<1>9. AskedInv'
  <2>1. \A d \in Clients : \A r : Awaits(d, r)' => Awaits(d, r) /\ call'[d].topic = call[d].topic
    BY <1>1 DEF Awaits
  <2>2. Field(x, 1) # U64(Code["SUBSCRIBE"])
    BY <1>4, <1>5, AskedFrames
  <2>3. \A d \in Clients : \A f \in In(up'[d]) : f \in In(up[d]) \/ AskFits(d, f)'
    BY <1>6, <2>2 DEF AskFits
  <2>4. QED
    BY <1>1, <1>3, <1>4, <2>1, <2>3, AskedKept
<1>10. SpreadInv'
  <2>1. PublishFits(c, x)'
    <3>1. x = AskPublish(n, t, b) /\ <<c, t, b>> \in said'
      BY <1>1 DEF x
    <3>2. QED
      BY <1>4, <3>1 DEF PublishFits
  <2>2. \A d \in Clients : \A f \in In(up'[d]) : f \in In(up[d]) \/ PublishFits(d, f)'
    BY <1>6, <2>1
  <2>3. /\ granted' \subseteq Topics \X SubscriptionIds
        /\ \A g, h \in granted' : g[2] = h[2] => g[1] = h[1]
        /\ published' \in Seq(Publications) /\ said \subseteq said'
    BY <1>1, <1>3 DEF SpreadInv
  <2>4. QED
    BY <1>1, <1>3, <2>2, <2>3, SpreadKept
<1>11. QED
  BY <1>7, <1>8, <1>9, <1>10 DEF MessageInv

-----------------------------------------------------------------------------
(* The listener's handling of a frame.                                     *)
LEMMA HandledShape ==
    ASSUME FrameInv, NEW c \in Clients, down[c] # <<>>, Handled(c)
    PROVE  /\ down' \in [Clients -> Seq(FromRouter)]
           /\ Head(down[c]) \in FromRouter /\ Head(down[c]) \in In(down[c])
           /\ \A d \in Clients : \A f \in In(down'[d]) : f \in In(down[d])
<1>1. down \in [Clients -> Seq(FromRouter)]
  BY DEF FrameInv
<1>2. QED
  BY <1>1, Shrunk DEF Handled

LEMMA Awaiting ==
    ASSUME FrameInv, NEW c \in Clients, call' \in {call, [call EXCEPT ![c] = Idle]}
    PROVE  /\ call' \in [Clients -> Calls]
           /\ \A d \in Clients : \A r : Awaits(d, r)' => Awaits(d, r) /\ call'[d].topic = call[d].topic
<1>1. Idle \in Calls /\ Idle.op # "subscribe"
  BY DEF Calls, Idle
<1>2. CASE call' = call
  BY <1>2 DEF Awaits, FrameInv
<1>3. CASE call' = [call EXCEPT ![c] = Idle]
  BY <1>1, <1>3 DEF Awaits, FrameInv
<1>4. QED
  BY <1>2, <1>3

LEMMA HandlingKeeps ==
    ASSUME MessageInv, NEW c \in Clients, down[c] # <<>>, Handled(c),
           UNCHANGED <<next, made, lost, rsubs, granted, published, up, said, heard>>,
           call' \in {call, [call EXCEPT ![c] = Idle]},
           \/ state' = state
           \/ state[c] = "joining" /\ state' = [state EXCEPT ![c] = "open"],
           \/ queues' = queues
           \/ \E S \in SUBSET queues[c] : queues' = [queues EXCEPT ![c] = S]
    PROVE  MessageInv'
<1>1. TypeOK /\ FrameInv
  BY DEF MessageInv
<1>2. /\ down' \in [Clients -> Seq(FromRouter)]
      /\ \A d \in Clients : \A f \in In(down'[d]) : f \in In(down[d])
  BY <1>1, HandledShape
<1>3. /\ call' \in [Clients -> Calls]
      /\ \A d \in Clients : \A r : Awaits(d, r)' => Awaits(d, r) /\ call'[d].topic = call[d].topic
  BY <1>1, Awaiting
<1>4. TypeOK'
  BY <1>1 DEF TypeOK, FrameInv
<1>5. /\ queues' \in [Clients -> SUBSET [id : SubscriptionIds, topic : Topics, stream : BOOLEAN]]
      /\ \A d \in Clients : \A q \in queues'[d] : q \in queues[d]
  BY <1>1 DEF FrameInv
<1>6. FrameInv'
  BY <1>1, <1>2, <1>3, <1>5 DEF FrameInv
<1>7. \A r : Taken(r) => Taken(r)'
  BY SameIds
<1>8. QED
  BY <1>2, <1>3, <1>4, <1>5, <1>6, <1>7, MovedOn

LEMMA HearingKeeps ==
    ASSUME MessageInv, NEW c \in Clients,
           \/ HearWelcome(c) \/ HearUnsubscribed(c) \/ HearError(c) \/ HearLate(c) \/ Skip(c)
    PROVE  MessageInv'
<1>1. CASE HearWelcome(c)
  BY <1>1, HandlingKeeps DEF HearWelcome, Reads, idVars, routerVars
<1>2. CASE HearUnsubscribed(c)
  <2>1. \E S \in SUBSET queues[c] : queues' = [queues EXCEPT ![c] = S]
    <3>1. {q \in queues[c] : q.id # call[c].id} \in SUBSET queues[c]
      OBVIOUS
    <3>2. QED
      BY <1>2, <3>1 DEF HearUnsubscribed
  <2>2. QED
    BY <1>2, <2>1, HandlingKeeps DEF HearUnsubscribed, Answers, Reads, idVars, routerVars
<1>3. CASE HearError(c)
  BY <1>3, HandlingKeeps DEF HearError, Answers, Reads, idVars, routerVars
<1>4. CASE HearLate(c)
  BY <1>4, HandlingKeeps DEF HearLate, Reads, idVars, clientVars, routerVars
<1>5. CASE Skip(c)
  BY <1>5, HandlingKeeps DEF Skip, Reads, idVars, clientVars, routerVars
<1>6. QED
  BY <1>1, <1>2, <1>3, <1>4, <1>5

LEMMA SubscribedKeeps ==
    ASSUME MessageInv, NEW c \in Clients, HearSubscribed(c)
    PROVE  MessageInv'
<1> DEFINE m == parse_message(Head(down[c]))
           new == [id |-> m.subscription, topic |-> call[c].topic, stream |-> TRUE]
<1>1. /\ UNCHANGED <<next, made, state, lost, rsubs, granted, published, up, said, heard>>
      /\ down[c] # <<>> /\ m.type = "SUBSCRIBED" /\ call[c].request = m.request
      /\ call[c].op = "subscribe" /\ call' = [call EXCEPT ![c] = Idle]
      /\ Handled(c)
      /\ queues' = [queues EXCEPT ![c] = {q \in @ : q.id # m.subscription} \cup {new}]
  BY DEF HearSubscribed, Answers, IsAwaited, Reads, idVars, routerVars
<1>2. TypeOK /\ FrameInv /\ AskedInv /\ SpreadInv
  BY DEF MessageInv
<1>3. /\ down' \in [Clients -> Seq(FromRouter)] /\ Head(down[c]) \in In(down[c])
      /\ \A d \in Clients : \A f \in In(down'[d]) : f \in In(down[d])
  BY <1>1, <1>2, HandledShape
<1>4. /\ call' \in [Clients -> Calls]
      /\ \A d \in Clients : \A r : Awaits(d, r)' => Awaits(d, r) /\ call'[d].topic = call[d].topic
  BY <1>1, <1>2, Awaiting
<1>5. <<call[c].topic, m.subscription>> \in granted
  <2>1. AnswerFits(c, Head(down[c]))
    BY <1>2, <1>3 DEF AskedInv
  <2>2. QED
    BY <1>1, <2>1 DEF AnswerFits, Awaits
<1>. HIDE DEF m
<1>6. /\ new \in [id : SubscriptionIds, topic : Topics, stream : BOOLEAN]
      /\ <<new.topic, new.id>> \in granted
  BY <1>2, <1>5 DEF SpreadInv
<1>. HIDE DEF new
<1>7. TypeOK'
  BY <1>1, <1>2 DEF TypeOK, FrameInv
<1>8. FrameInv'
  BY <1>1, <1>2, <1>3, <1>4, <1>6 DEF FrameInv
<1>9. AskedInv'
  <2>1. \A d \in Clients : \A q \in queues'[d] :
            \/ \E p \in queues[d] : p.topic = q.topic /\ p.id = q.id
            \/ <<q.topic, q.id>> \in granted'
    <3>1. \A d \in Clients : \A q \in queues'[d] : q \in queues[d] \/ q = new
      BY <1>1, <1>2 DEF FrameInv
    <3>2. QED
      BY <1>1, <1>6, <3>1
  <2>2. \A r : Taken(r) => Taken(r)'
    BY <1>1, SameIds
  <2>3. QED
    BY <1>1, <1>2, <1>3, <1>4, <2>1, <2>2, AskedKept
<1>10. SpreadInv'
  <2>1. /\ granted' \subseteq Topics \X SubscriptionIds
        /\ \A g, h \in granted' : g[2] = h[2] => g[1] = h[1]
        /\ published' \in Seq(Publications)
    BY <1>1, <1>2 DEF SpreadInv
  <2>2. QED
    BY <1>1, <1>2, <1>3, <2>1, SpreadKept
<1>11. QED
  BY <1>7, <1>8, <1>9, <1>10 DEF MessageInv

LEMMA EventKeeps ==
    ASSUME MessageInv, NEW c \in Clients, HearEvent(c)
    PROVE  MessageInv'
<1> DEFINE m == parse_message(Head(down[c]))
<1>1. /\ UNCHANGED <<next, made, state, call, queues, lost, rsubs, granted, published, up, said>>
      /\ down[c] # <<>> /\ m.type = "EVENT" /\ Handled(c)
  BY DEF HearEvent, Reads, idVars, clientVars, routerVars
<1>2. PICK q \in queues[c] :
          /\ q.id = m.subscription
          /\ heard' \in {heard, heard \cup {<<q.topic, m.publication, BroadcastOf(m)>>}}
  BY DEF HearEvent
<1>3. TypeOK /\ FrameInv /\ AskedInv /\ SpreadInv
  BY DEF MessageInv
<1>4. /\ down' \in [Clients -> Seq(FromRouter)] /\ Head(down[c]) \in In(down[c])
      /\ \A d \in Clients : \A f \in In(down'[d]) : f \in In(down[d])
  BY <1>1, <1>3, HandledShape
<1>5. /\ m.publication \in 1 .. Len(published)
      /\ <<published[m.publication].topic, m.subscription>> \in granted
      /\ BroadcastOf(m) = Read(published[m.publication])
  <2>1. EventFits(Head(down[c]))
    BY <1>3, <1>4 DEF SpreadInv
  <2>2. QED
    BY <1>1, <2>1 DEF EventFits
<1>6. <<q.topic, q.id>> \in granted
  BY <1>3 DEF AskedInv
<1>7. q.topic = published[m.publication].topic
  <2>1. \A g, h \in granted : g[2] = h[2] => g[1] = h[1]
    BY <1>3 DEF SpreadInv
  <2>2. QED
    BY <1>2, <1>5, <1>6, <2>1
<1>. HIDE DEF m
<1>8. \A h \in heard' : h \in heard \/ HeardFits(h)'
  <2> TAKE h \in heard'
  <2>1. CASE h = <<q.topic, m.publication, BroadcastOf(m)>>
    <3>1. h[1] = q.topic /\ h[2] = m.publication /\ h[3] = BroadcastOf(m)
      BY <2>1
    <3>2. QED
      BY <1>1, <1>5, <1>7, <3>1 DEF HeardFits
  <2>2. QED
    BY <1>2, <2>1
<1>9. TypeOK'
  BY <1>1, <1>3 DEF TypeOK
<1>10. FrameInv'
  BY <1>1, <1>3, <1>4 DEF FrameInv
<1>11. AskedInv'
  <2>1. \A r : Taken(r) => Taken(r)'
    BY <1>1, SameIds
  <2>2. \A d \in Clients : \A r : Awaits(d, r)' => Awaits(d, r) /\ call'[d].topic = call[d].topic
    BY <1>1 DEF Awaits
  <2>3. QED
    BY <1>1, <1>3, <1>4, <2>1, <2>2, AskedKept
<1>12. SpreadInv'
  <2>1. /\ granted' \subseteq Topics \X SubscriptionIds
        /\ \A g, h \in granted' : g[2] = h[2] => g[1] = h[1]
        /\ published' \in Seq(Publications)
    BY <1>1, <1>3 DEF SpreadInv
  <2>2. QED
    BY <1>1, <1>3, <1>4, <1>8, <2>1, SpreadKept
<1>13. QED
  BY <1>9, <1>10, <1>11, <1>12 DEF MessageInv

LEMMA EndingKeeps ==
    ASSUME MessageInv, NEW c \in Clients,
           HearGoodbye(c) \/ HearAbort(c) \/ Misread(c) \/ Refuse(c)
    PROVE  MessageInv'
<1>1. /\ UNCHANGED <<next, made, granted, published, said, heard>> /\ down[c] # <<>>
      /\ lost' \in {lost, [lost EXCEPT ![c] = Head(down[c])]} /\ Ends(c)
  BY DEF HearGoodbye, HearAbort, Misread, Refuse, Fails, Reads, idVars
<1>2. TypeOK /\ FrameInv
  BY DEF MessageInv
<1>3. /\ state' = [state EXCEPT ![c] = "ended"] /\ call' = [call EXCEPT ![c] = Idle]
      /\ queues' = [queues EXCEPT ![c] = {}]
      /\ up' = [up EXCEPT ![c] = <<>>] /\ down' = [down EXCEPT ![c] = <<>>]
      /\ rsubs' \subseteq rsubs
  BY <1>1 DEF Ends
<1>4. Head(down[c]) \in FromRouter
  BY <1>1, <1>2, Shrunk DEF FrameInv
<1>5. /\ up' \in [Clients -> Seq(FromClient)]
      /\ \A d \in Clients : \A f \in In(up'[d]) : f \in In(up[d])
  BY <1>2, <1>3, Emptied DEF FrameInv
<1>6. /\ down' \in [Clients -> Seq(FromRouter)]
      /\ \A d \in Clients : \A f \in In(down'[d]) : f \in In(down[d])
  BY <1>2, <1>3, Emptied DEF FrameInv
<1>7. /\ call' \in [Clients -> Calls]
      /\ \A d \in Clients : \A r : Awaits(d, r)' => Awaits(d, r) /\ call'[d].topic = call[d].topic
  BY <1>2, <1>3, Awaiting
<1>8. TypeOK'
  BY <1>1, <1>2, <1>3 DEF TypeOK, FrameInv
<1>9. lost' \in [Clients -> FromRouter \cup {Null}]
  BY <1>1, <1>2, <1>4 DEF FrameInv
<1>10. /\ queues' \in [Clients -> SUBSET [id : SubscriptionIds, topic : Topics, stream : BOOLEAN]]
       /\ \A d \in Clients : \A q \in queues'[d] : q \in queues[d]
  BY <1>2, <1>3 DEF FrameInv
<1>11. FrameInv'
  BY <1>5, <1>6, <1>7, <1>9, <1>10 DEF FrameInv
<1>12. \A r : Taken(r) => Taken(r)'
  BY <1>1, SameIds
<1>13. QED
  BY <1>1, <1>5, <1>6, <1>7, <1>8, <1>10, <1>11, <1>12, MovedOn

-----------------------------------------------------------------------------
(* The router's steps.                                                     *)
LEMMA TakenShape ==
    ASSUME FrameInv, NEW c \in Clients, NEW code, Takes(c, code)
    PROVE  /\ up' \in [Clients -> Seq(FromClient)]
           /\ Head(up[c]) \in FromClient /\ Head(up[c]) \in In(up[c])
           /\ Field(Head(up[c]), 1) = U64(Code[code])
           /\ \A d \in Clients : \A f \in In(up'[d]) : f \in In(up[d])
<1>1. up \in [Clients -> Seq(FromClient)] /\ up[c] # <<>>
  BY DEF FrameInv, Takes
<1>2. QED
  BY <1>1, Shrunk DEF Takes

LEMMA TakenRequest ==
    ASSUME NEW f \in FromClient, NEW code \in {"SUBSCRIBE", "UNSUBSCRIBE", "PUBLISH"},
           Field(f, 1) = U64(Code[code])
    PROVE  /\ code = "SUBSCRIBE" => \E r \in Ids, t \in Topics : f = AskSubscribe(r, t)
           /\ code = "UNSUBSCRIBE" =>
                  \E r \in Ids, id \in SubscriptionIds : f = AskUnsubscribe(r, id)
           /\ code = "PUBLISH" =>
                  \E r \in Ids, t \in Topics, b \in Broadcasts : f = AskPublish(r, t, b)
<1>1. \A a, b \in {"HELLO", "GOODBYE", "SUBSCRIBE", "UNSUBSCRIBE", "PUBLISH"} :
          U64(Code[a]) = U64(Code[b]) => a = b
  BY DEF U64, Code
<1>2. /\ \A r, t : Field(AskSubscribe(r, t), 1) = U64(Code["SUBSCRIBE"])
      /\ \A r, id : Field(AskUnsubscribe(r, id), 1) = U64(Code["UNSUBSCRIBE"])
      /\ \A r, t, b : Field(AskPublish(r, t, b), 1) = U64(Code["PUBLISH"])
  BY AskShape
<1>3. CASE \E a \in {"HELLO", "GOODBYE"} : Field(f, 1) = U64(Code[a])
  BY <1>1, <1>3
<1>4. CASE \E r \in Ids, t \in Topics : f = AskSubscribe(r, t)
  BY <1>1, <1>2, <1>4
<1>5. CASE \E r \in Ids, id \in SubscriptionIds : f = AskUnsubscribe(r, id)
  BY <1>1, <1>2, <1>5
<1>6. CASE \E r \in Ids, t \in Topics, b \in Broadcasts : f = AskPublish(r, t, b)
  BY <1>1, <1>2, <1>6
<1>7. QED
  BY <1>3, <1>4, <1>5, <1>6, ClientFrames

LEMMA ToldShape ==
    ASSUME FrameInv, NEW c \in Clients, NEW x \in FromRouter, Tell(c, x)
    PROVE  /\ down' \in [Clients -> Seq(FromRouter)]
           /\ \A d \in Clients : \A f \in In(down'[d]) : f \in In(down[d]) \/ (d = c /\ f = x)
<1>1. down \in [Clients -> Seq(FromRouter)] /\ down' = [down EXCEPT ![c] = Append(@, x)]
  BY DEF FrameInv, Tell
<1>2. QED
  BY <1>1, Grown

LEMMA TellingKeeps ==
    ASSUME MessageInv, NEW c \in Clients, NEW x \in Others \cup Errors, Tell(c, x), RouterActs,
           UNCHANGED <<granted, published>>, rsubs' \subseteq rsubs,
           up' = up \/ \E code : Takes(c, code)
    PROVE  MessageInv'
<1>1. UNCHANGED <<next, made, state, call, queues, lost, said, heard>>
  BY DEF RouterActs, idVars, clientVars
<1>2. TypeOK /\ FrameInv
  BY DEF MessageInv
<1>3. x \in FromRouter /\ parse_message(x).type \notin {"SUBSCRIBED", "EVENT"}
  BY OtherParsed, ErrorParsed DEF FromRouter, Refused
<1>4. /\ down' \in [Clients -> Seq(FromRouter)]
      /\ \A d \in Clients : \A f \in In(down'[d]) : f \in In(down[d]) \/ f = x
  BY <1>2, <1>3, ToldShape
<1>5. /\ up' \in [Clients -> Seq(FromClient)]
      /\ \A d \in Clients : \A f \in In(up'[d]) : f \in In(up[d])
  BY <1>2, TakenShape DEF FrameInv
<1>6. TypeOK'
  BY <1>1, <1>2 DEF TypeOK
<1>7. FrameInv'
  BY <1>1, <1>2, <1>4, <1>5 DEF FrameInv
<1>8. /\ \A r : Taken(r) => Taken(r)'
      /\ \A d \in Clients : \A r : Awaits(d, r)' => Awaits(d, r) /\ call'[d].topic = call[d].topic
  BY <1>1, SameIds DEF Awaits
<1>9. QED
  BY <1>1, <1>3, <1>4, <1>5, <1>6, <1>7, <1>8, MovedOn

LEMMA RefusingKeeps ==
    ASSUME MessageInv, NEW c \in Clients, NEW code \in {"SUBSCRIBE", "UNSUBSCRIBE"}, Takes(c, code),
           NEW uri \in ErrorUris, RError(c, code, uri), RouterActs,
           UNCHANGED <<granted, published, rsubs>>
    PROVE  MessageInv'
<1>1. FrameInv
  BY DEF MessageInv
<1>2. PICK r \in Ids : Field(Head(up[c]), 2) = U64(r)
  <2>1. Head(up[c]) \in FromClient /\ Field(Head(up[c]), 1) = U64(Code[code])
    BY <1>1, TakenShape
  <2>2. \/ \E r \in Ids, t \in Topics : Head(up[c]) = AskSubscribe(r, t)
        \/ \E r \in Ids, id \in SubscriptionIds : Head(up[c]) = AskUnsubscribe(r, id)
    BY <2>1, TakenRequest
  <2>3. /\ \A r, t : Field(AskSubscribe(r, t), 2) = U64(r)
        /\ \A r, id : Field(AskUnsubscribe(r, id), 2) = U64(r)
    BY AskShape
  <2>4. QED
    BY <2>2, <2>3
<1>3. PICK trail \in Trails(Array(<<>>), Empty) :
          Tell(c, Frame("ERROR", <<U64(Code[code]), U64(r), Empty, Text(uri)>> \o trail))
  BY <1>2 DEF RError
<1>4. Frame("ERROR", <<U64(Code[code]), U64(r), Empty, Text(uri)>> \o trail) \in Errors
  BY DEF Errors
<1>5. QED
  BY <1>3, <1>4, TellingKeeps

LEMMA RouterKeeps ==
    ASSUME MessageInv, NEW c \in Clients,
           RHello(c) \/ RUnsubscribe(c) \/ RGoodbye(c) \/ RExtension(c)
    PROVE  MessageInv'
<1>1. CASE RHello(c)
  <2>1. /\ Takes(c, "HELLO") /\ RouterActs /\ UNCHANGED <<rsubs, granted, published>>
        /\ \/ \E w \in Welcomes : Tell(c, w)
           \/ Tell(c, Frame("ABORT", <<Empty, Text(Reason)>>))
    <3>1. /\ Takes(c, "HELLO") /\ RouterActs /\ UNCHANGED <<rsubs, granted, published>>
          /\ \/ \E offer \in Offers, extra \in Extras : Tell(c, Welcome(offer, extra))
             \/ Tell(c, Frame("ABORT", <<Empty, Text(Reason)>>))
      BY <1>1, Zenon DEF RHello, Welcome
    <3>2. \A offer \in Offers, extra \in Extras : Welcome(offer, extra) \in Welcomes
      BY DEF Welcomes
    <3>3. QED
      BY <3>1, <3>2
  <2>2. /\ Welcomes \subseteq Others
        /\ Frame("ABORT", <<Empty, Text(Reason)>>) \in Others
    BY DEF Others
  <2>3. QED
    BY <2>1, <2>2, TellingKeeps
<1>2. CASE RUnsubscribe(c)
  <2>1. /\ Takes(c, "UNSUBSCRIBE") /\ RouterActs /\ UNCHANGED <<granted, published>>
        /\ \/ /\ rsubs' \subseteq rsubs
              /\ Tell(c, Frame("UNSUBSCRIBED", <<Field(Head(up[c]), 2)>>))
           \/ \E uri \in ErrorUris : RError(c, "UNSUBSCRIBE", uri) /\ UNCHANGED rsubs
    BY <1>2 DEF RUnsubscribe
  <2>2. CASE \E uri \in ErrorUris : RError(c, "UNSUBSCRIBE", uri) /\ UNCHANGED rsubs
    BY <2>1, <2>2, RefusingKeeps
  <2>3. CASE /\ rsubs' \subseteq rsubs
             /\ Tell(c, Frame("UNSUBSCRIBED", <<Field(Head(up[c]), 2)>>))
    <3>1. /\ Head(up[c]) \in FromClient
          /\ Field(Head(up[c]), 1) = U64(Code["UNSUBSCRIBE"])
      BY <2>1, TakenShape DEF MessageInv
    <3>2. PICK r \in Ids, id \in SubscriptionIds : Head(up[c]) = AskUnsubscribe(r, id)
      BY <3>1, TakenRequest
    <3>3. Field(Head(up[c]), 2) = U64(r)
      BY <3>2, AskShape
    <3>4. Frame("UNSUBSCRIBED", <<U64(r)>>) \in Others
      BY DEF Others
    <3>5. QED
      BY <2>1, <2>3, <3>3, <3>4, TellingKeeps
  <2>4. QED
    BY <2>1, <2>2, <2>3
<1>3. CASE RGoodbye(c)
  <2>1. /\ Takes(c, "GOODBYE") /\ RouterActs /\ UNCHANGED <<granted, published>>
        /\ rsubs' \subseteq rsubs /\ \E x \in Others : Tell(c, x)
    BY <1>3 DEF RGoodbye, Others
  <2>2. QED
    BY <2>1, TellingKeeps
<1>4. CASE RExtension(c)
  <2>1. /\ RouterActs /\ UNCHANGED <<granted, published, rsubs, up>>
        /\ \E x \in Others : Tell(c, x)
    BY <1>4 DEF RExtension, Others, routerVars
  <2>2. QED
    BY <2>1, TellingKeeps
<1>5. QED
  BY <1>1, <1>2, <1>3, <1>4

LEMMA GrantKeeps ==
    ASSUME MessageInv, NEW c \in Clients, NEW r \in Ids, NEW t \in Topics, NEW id \in SubscriptionIds,
           Takes(c, "SUBSCRIBE"), Head(up[c]) = AskSubscribe(r, t),
           \A g \in granted : (g[1] = t) = (g[2] = id),
           granted' = granted \cup {<<t, id>>}, rsubs' = rsubs \cup {<<c, id>>},
           Tell(c, Answer(r, id)), RouterActs, published' = published
    PROVE  MessageInv'
<1> DEFINE x == Answer(r, id)
<1>1. UNCHANGED <<next, made, state, call, queues, lost, said, heard>>
  BY DEF RouterActs, idVars, clientVars
<1>2. TypeOK /\ FrameInv /\ AskedInv /\ SpreadInv
  BY DEF MessageInv
<1>3. /\ up' \in [Clients -> Seq(FromClient)] /\ Head(up[c]) \in In(up[c])
      /\ Field(Head(up[c]), 1) = U64(Code["SUBSCRIBE"])
      /\ \A d \in Clients : \A f \in In(up'[d]) : f \in In(up[d])
  BY <1>2, TakenShape
<1>4. Taken(r) /\ (Awaits(c, r) => call[c].topic = t)
  <2>1. AskFits(c, Head(up[c]))
    BY <1>2, <1>3 DEF AskedInv
  <2>2. PICK s \in Ids, u \in Topics :
            /\ Head(up[c]) = AskSubscribe(s, u)
            /\ Taken(s) /\ (Awaits(c, s) => call[c].topic = u)
    BY <1>3, <2>1 DEF AskFits
  <2>3. U64(s) = U64(r) /\ Text(u) = Text(t)
    <3>1. \A a, b : Field(AskSubscribe(a, b), 2) = U64(a) /\ Field(AskSubscribe(a, b), 4) = Text(b)
      BY AskShape
    <3>2. AskSubscribe(s, u) = AskSubscribe(r, t)
      BY <2>2
    <3>3. QED
      BY <3>1, <3>2
  <2>4. s = r /\ u = t
    BY <2>3 DEF U64, Text
  <2>5. QED
    BY <2>2, <2>4
<1>5. x \in FromRouter
  BY DEF FromRouter
<1>6. \/ /\ parse_message(x).type = "SUBSCRIBED" /\ parse_message(x).request = r
         /\ parse_message(x).subscription = id
      \/ parse_message(x).type = "refused"
  BY AnswerParsed DEF Refused
<1>. HIDE DEF x
<1>7. /\ down' \in [Clients -> Seq(FromRouter)]
      /\ \A d \in Clients : \A f \in In(down'[d]) : f \in In(down[d]) \/ (d = c /\ f = x)
  <2>1. Tell(c, x)
    BY DEF x
  <2>2. QED
    BY <1>2, <1>5, <2>1, ToldShape
<1>8. TypeOK'
  BY <1>1, <1>2 DEF TypeOK
<1>9. FrameInv'
  BY <1>1, <1>2, <1>3, <1>7 DEF FrameInv
<1>10. /\ \A s : Taken(s) => Taken(s)'
       /\ \A d \in Clients : \A s : Awaits(d, s)' => Awaits(d, s) /\ call'[d].topic = call[d].topic
  BY <1>1, SameIds DEF Awaits
<1>11. AskedInv'
  <2>1. AnswerFits(c, x)'
    <3>1. Taken(r)'
      BY <1>4, <1>10
    <3>2. Awaits(c, r)' => <<call'[c].topic, id>> \in granted'
      BY <1>1, <1>4 DEF Awaits
    <3>3. QED
      BY <1>6, <3>1, <3>2 DEF AnswerFits
  <2>2. \A d \in Clients : \A f \in In(down'[d]) : f \in In(down[d]) \/ AnswerFits(d, f)'
    BY <1>7, <2>1
  <2>3. QED
    BY <1>1, <1>2, <1>3, <1>10, <2>2, AskedKept
<1>12. SpreadInv'
  <2>1. granted' \subseteq Topics \X SubscriptionIds /\ published' \in Seq(Publications)
    BY <1>2 DEF SpreadInv
  <2>2. \A g, h \in granted' : g[2] = h[2] => g[1] = h[1]
    BY <1>2 DEF SpreadInv
  <2>3. \A d \in Clients : \A f \in In(down'[d]) : f \in In(down[d]) \/ EventFits(f)'
    BY <1>6, <1>7 DEF EventFits
  <2>4. QED
    BY <1>1, <1>2, <1>3, <2>1, <2>2, <2>3, SpreadKept
<1>13. QED
  BY <1>8, <1>9, <1>11, <1>12 DEF MessageInv

LEMMA RSubscribeKeeps ==
    ASSUME MessageInv, NEW c \in Clients, RSubscribe(c)
    PROVE  MessageInv'
<1>1. Takes(c, "SUBSCRIBE") /\ RouterActs /\ published' = published
  BY DEF RSubscribe
<1>2. PICK r \in Ids, t \in Topics : Head(up[c]) = AskSubscribe(r, t)
  <2>1. Head(up[c]) \in FromClient /\ Field(Head(up[c]), 1) = U64(Code["SUBSCRIBE"])
    BY <1>1, TakenShape DEF MessageInv
  <2>2. QED
    BY <2>1, TakenRequest
<1>3. Field(Head(up[c]), 2) = U64(r) /\ Field(Head(up[c]), 4)[2] = t
  <2>1. Field(Head(up[c]), 2) = U64(r) /\ Field(Head(up[c]), 4) = Text(t)
    BY <1>2, AskShape
  <2>2. QED
    BY <2>1 DEF Text
<1>4. CASE \E uri \in ErrorUris : RError(c, "SUBSCRIBE", uri) /\ UNCHANGED <<granted, rsubs>>
  BY <1>1, <1>4, RefusingKeeps
<1>5. CASE \E id \in SubscriptionIds :
               /\ \A g \in granted : (g[1] = t) = (g[2] = id)
               /\ granted' = granted \cup {<<t, id>>} /\ rsubs' = rsubs \cup {<<c, id>>}
               /\ Tell(c, Answer(r, id))
  BY <1>1, <1>2, <1>5, GrantKeeps
<1>6. \/ \E uri \in ErrorUris : RError(c, "SUBSCRIBE", uri) /\ UNCHANGED <<granted, rsubs>>
      \/ \E id \in SubscriptionIds :
               /\ \A g \in granted : (g[1] = t) = (g[2] = id)
               /\ granted' = granted \cup {<<t, id>>} /\ rsubs' = rsubs \cup {<<c, id>>}
               /\ Tell(c, Answer(r, id))
  BY <1>3 DEF RSubscribe, Answer
<1>7. QED
  BY <1>4, <1>5, <1>6

\* Whoever publishes, and whatever the payload.
LEMMA PublicationType ==
    ASSUME NEW by \in {{}} \cup {{c} : c \in Clients}, NEW t \in Topics, NEW p \in Payloads
    PROVE  Publication(by, t, p) \in Publications
<1> DEFINE P(x, y, z) == Publication(x, y, z)
<1>1. \E x \in {{}} \cup {{c} : c \in Clients}, y \in Topics, z \in Payloads :
        P(by, t, p) = P(x, y, z)
  OBVIOUS
<1> HIDE DEF P
<1>2. P(by, t, p) \in {P(x, y, z) :
        x \in {{}} \cup {{c} : c \in Clients}, y \in Topics, z \in Payloads}
  BY <1>1
<1>3. QED
  BY <1>2 DEF P, Publications

LEMMA SpreadingKeeps ==
    ASSUME MessageInv, NEW by \in {{}} \cup {{c} : c \in Clients}, NEW t \in Topics, NEW a, NEW k,
           [arguments |-> a, arguments_kw |-> k] \in Payloads,
           Spreads(by, t, a, k), RouterActs, UNCHANGED <<rsubs, granted>>,
           up' = up \/ \E c \in Clients, code \in DOMAIN Code : Takes(c, code),
           \A c \in by : \E b \in Broadcasts :
               <<c, t, b>> \in said /\ a = ToJson(b.arguments) /\ k = ToJson(b.arguments_kw)
    PROVE  MessageInv'
<1> DEFINE p == [arguments |-> a, arguments_kw |-> k]
           pub == [by |-> by, topic |-> t, arguments |-> a, arguments_kw |-> k]
<1> PICK n : n = Len(published) + 1
  OBVIOUS
<1>1. UNCHANGED <<next, made, state, call, queues, lost, said, heard>>
  BY DEF RouterActs, idVars, clientVars
<1>2. TypeOK /\ FrameInv /\ AskedInv /\ SpreadInv
  BY DEF MessageInv
<1>3. /\ up' \in [Clients -> Seq(FromClient)]
      /\ \A d \in Clients : \A f \in In(up'[d]) : f \in In(up[d])
  BY <1>2, TakenShape DEF FrameInv
<1>4. /\ p.arguments = a /\ p.arguments_kw = k /\ p \in Payloads
      /\ pub.by = by /\ pub.topic = t /\ pub.arguments = a /\ pub.arguments_kw = k
      /\ pub \in Publications
  <2>1. pub = Publication(by, t, p)
    BY DEF Publication
  <2>2. p \in Payloads
    OBVIOUS
  <2>. HIDE DEF p
  <2>3. pub \in Publications
    <3>1. Publication(by, t, p) \in Publications
      BY <2>2, PublicationType
    <3>2. QED
      BY <2>1, <3>1
  <2>4. QED
    BY <2>2, <2>3 DEF p
<1>5. published' = Append(published, pub) /\ Len(published) < MaxPublications
  BY DEF Spreads
<1>. HIDE DEF p, pub
<1>6. Read(pub) = Read(p)
  BY <1>4 DEF Read
<1>7. published \in Seq(Publications) /\ Len(published) \in Nat
  BY <1>2, LenProperties DEF SpreadInv
<1>8. /\ published' \in Seq(Publications) /\ Len(published') = n /\ published'[n] = pub
      /\ \A i \in 1 .. Len(published) : published'[i] = published[i]
  BY <1>4, <1>5, <1>7, AppendProperties
<1>9. n \in 1 .. MaxPublications /\ n \in Nat /\ MaxPublications \in Nat
  BY <1>5, <1>7, CounterAssumption
<1>10. \A d \in Clients :
           \/ down'[d] = down[d]
           \/ \E id \in SubscriptionIds : \E f \in Events(id, n, p) :
                  <<t, id>> \in granted /\ down'[d] = Append(down[d], f)
  <2> TAKE d \in Clients
  <2> DEFINE ids == {g[2] : g \in {h \in granted : h[1] = t /\ <<d, h[2]>> \in rsubs /\ {d} # by}}
  <2>1. PICK trail \in Trails(a, k) :
            down'[d] = IF ids = {} THEN down[d]
                       ELSE Append(down[d], Frame("EVENT",
                               <<U64(CHOOSE id \in ids : TRUE), U64(Len(published) + 1), Empty>>
                               \o trail))
    BY DEF Spreads
  <2>2. \A id \in ids : id \in SubscriptionIds /\ <<t, id>> \in granted
    <3> TAKE id \in ids
    <3>1. PICK g \in granted : g[1] = t /\ g[2] = id
      OBVIOUS
    <3>2. g \in Topics \X SubscriptionIds
      BY <1>2 DEF SpreadInv
    <3>3. g = <<g[1], g[2]>> /\ g[2] \in SubscriptionIds
      BY <3>2
    <3>4. QED
      BY <3>1, <3>3
  <2>. HIDE DEF ids
  <2>3. CASE ids # {}
    <3>1. PICK id : id = CHOOSE i \in ids : TRUE
      OBVIOUS
    <3>2. id \in ids
      BY <2>3, <3>1
    <3>3. id \in SubscriptionIds /\ <<t, id>> \in granted
      BY <2>2, <3>2
    <3>4. Frame("EVENT", <<U64(id), U64(n), Empty>> \o trail) \in Events(id, n, p)
      BY <1>4 DEF Events
    <3>5. QED
      BY <2>1, <2>3, <3>1, <3>3, <3>4
  <2>4. QED
    BY <2>1, <2>3
<1>11. \A id \in SubscriptionIds : \A f \in Events(id, n, p) :
           /\ f \in FromRouter
           /\ \/ /\ parse_message(f).type = "EVENT" /\ parse_message(f).subscription = id
                 /\ parse_message(f).publication = n /\ BroadcastOf(parse_message(f)) = Read(p)
              \/ parse_message(f).type = "refused"
  <2> TAKE id \in SubscriptionIds
  <2> TAKE f \in Events(id, n, p)
  <2>1. f \in FromRouter
    BY <1>4, <1>9 DEF FromRouter
  <2>2. QED
    BY <1>4, <1>9, <2>1, PayloadShape, EventParsed DEF Refused
<1>12. /\ down' \in [Clients -> Seq(FromRouter)]
       /\ \A d \in Clients : \A f \in In(down'[d]) :
              \/ f \in In(down[d])
              \/ \E id \in SubscriptionIds : <<t, id>> \in granted /\ f \in Events(id, n, p)
  <2>1. ASSUME NEW d \in Clients
        PROVE  /\ down'[d] \in Seq(FromRouter)
               /\ \A f \in In(down'[d]) :
                     \/ f \in In(down[d])
                     \/ \E id \in SubscriptionIds : <<t, id>> \in granted /\ f \in Events(id, n, p)
    <3>1. down[d] \in Seq(FromRouter)
      BY <1>2 DEF FrameInv
    <3>2. CASE \E id \in SubscriptionIds : \E f \in Events(id, n, p) :
                   <<t, id>> \in granted /\ down'[d] = Append(down[d], f)
      <4>0. PICK id \in SubscriptionIds : \E f \in Events(id, n, p) :
                   <<t, id>> \in granted /\ down'[d] = Append(down[d], f)
        BY <3>2
      <4>1. PICK f \in Events(id, n, p) :
                   <<t, id>> \in granted /\ down'[d] = Append(down[d], f)
        BY <4>0
      <4>2. f \in FromRouter
        BY <1>11, <4>1
      <4>3. /\ Append(down[d], f) \in Seq(FromRouter)
            /\ \A e \in In(Append(down[d], f)) : e \in In(down[d]) \/ e = f
        BY <3>1, <4>2, Added
      <4>4. QED
        BY <4>1, <4>3
    <3>3. QED
      BY <1>10, <3>1, <3>2
  <2>2. \E F : down' = [d \in Clients |-> F[d]]
    BY DEF Spreads
  <2>3. QED
    BY <2>1, <2>2
<1>13. TypeOK'
  BY <1>1, <1>2, <1>8, <1>9 DEF TypeOK
<1>14. FrameInv'
  BY <1>1, <1>2, <1>3, <1>12 DEF FrameInv
<1>15. AskedInv'
  <2>1. /\ \A r : Taken(r) => Taken(r)'
        /\ \A d \in Clients : \A r : Awaits(d, r)' => Awaits(d, r) /\ call'[d].topic = call[d].topic
    BY <1>1, SameIds DEF Awaits
  <2>2. \A d \in Clients : \A f \in In(down'[d]) : f \in In(down[d]) \/ AnswerFits(d, f)'
    BY <1>11, <1>12 DEF AnswerFits
  <2>3. QED
    BY <1>1, <1>2, <1>3, <2>1, <2>2, AskedKept
<1>16. SpreadInv'
  <2>1. /\ granted' \subseteq Topics \X SubscriptionIds
        /\ \A g, h \in granted' : g[2] = h[2] => g[1] = h[1]
    BY <1>2 DEF SpreadInv
  <2>2. \A i \in 1 .. Len(published) : i \in 1 .. Len(published')
    BY <1>7, <1>8
  <2>3. Backed(n)'
    BY <1>1, <1>4, <1>8 DEF Backed
  <2>4. \A i \in 1 .. Len(published') : i \in 1 .. Len(published) \/ Backed(i)'
    <3>1. \A i \in 1 .. Len(published') : i \in 1 .. Len(published) \/ i = n
      BY <1>7, <1>8
    <3>2. QED
      BY <2>3, <3>1
  <2>5. \A id \in SubscriptionIds : \A f \in Events(id, n, p) :
            <<t, id>> \in granted => EventFits(f)'
    <3> TAKE id \in SubscriptionIds
    <3> TAKE f \in Events(id, n, p)
    <3> HAVE <<t, id>> \in granted
    <3>1. n \in 1 .. Len(published') /\ published'[n].topic = t /\ Read(published'[n]) = Read(p)
      BY <1>4, <1>6, <1>8, <1>9
    <3>2. QED
      BY <1>11, <3>1 DEF EventFits
  <2>6. \A d \in Clients : \A f \in In(down'[d]) : f \in In(down[d]) \/ EventFits(f)'
    BY <1>12, <2>5
  <2>7. QED
    BY <1>1, <1>2, <1>3, <1>8, <2>1, <2>2, <2>4, <2>6, SpreadKept
<1>17. QED
  BY <1>13, <1>14, <1>15, <1>16 DEF MessageInv

LEMMA RPublishKeeps ==
    ASSUME MessageInv, NEW c \in Clients, RPublish(c)
    PROVE  MessageInv'
<1>1. /\ Takes(c, "PUBLISH") /\ RouterActs /\ UNCHANGED <<rsubs, granted>>
      /\ "PUBLISH" \in DOMAIN Code
  BY DEF RPublish, Code
<1>2. TypeOK /\ FrameInv /\ SpreadInv
  BY DEF MessageInv
<1>3. /\ up' \in [Clients -> Seq(FromClient)] /\ Head(up[c]) \in In(up[c])
      /\ Field(Head(up[c]), 1) = U64(Code["PUBLISH"])
      /\ \A d \in Clients : \A f \in In(up'[d]) : f \in In(up[d])
  BY <1>1, <1>2, TakenShape
<1>4. PICK r \in Ids, t \in Topics, b \in Broadcasts :
          <<c, t, b>> \in said /\ Head(up[c]) = AskPublish(r, t, b)
  <2>1. PublishFits(c, Head(up[c]))
    BY <1>2, <1>3 DEF SpreadInv
  <2>2. QED
    BY <1>3, <2>1 DEF PublishFits
<1>5. /\ Field(Head(up[c]), 4)[2] = t /\ Len(Head(up[c])[2]) = 6
      /\ Field(Head(up[c]), 5) = ToJson(b.arguments)
      /\ Field(Head(up[c]), 6) = ToJson(b.arguments_kw)
  <2>1. /\ Field(Head(up[c]), 4) = Text(t) /\ Len(Head(up[c])[2]) = 6
        /\ Field(Head(up[c]), 5) = ToJson(b.arguments)
        /\ Field(Head(up[c]), 6) = ToJson(b.arguments_kw)
    BY <1>4, AskShape
  <2>2. QED
    BY <2>1 DEF Text
<1>6. \/ Spreads({c}, t, ToJson(b.arguments), ToJson(b.arguments_kw))
      \/ UNCHANGED <<published, down>>
  BY <1>5 DEF RPublish
<1>7. CASE Spreads({c}, t, ToJson(b.arguments), ToJson(b.arguments_kw))
  <2>1. [arguments |-> ToJson(b.arguments), arguments_kw |-> ToJson(b.arguments_kw)] \in Payloads
    BY DEF Payloads
  <2>2. {c} \in {{}} \cup {{d} : d \in Clients}
    OBVIOUS
  <2>3. \A d \in {c} : \E e \in Broadcasts :
            /\ <<d, t, e>> \in said
            /\ ToJson(b.arguments) = ToJson(e.arguments)
            /\ ToJson(b.arguments_kw) = ToJson(e.arguments_kw)
    BY <1>4
  <2>4. up' = up \/ \E d \in Clients, code \in DOMAIN Code : Takes(d, code)
    BY <1>1
  <2>5. QED
    BY <1>1, <1>7, <2>1, <2>2, <2>3, <2>4, SpreadingKeeps
<1>8. CASE UNCHANGED <<published, down>>
  <2>1. UNCHANGED <<next, made, state, call, queues, lost, said, heard>>
    BY <1>1 DEF RouterActs, idVars, clientVars
  <2>2. TypeOK'
    BY <1>1, <1>2, <1>8, <2>1 DEF TypeOK
  <2>3. FrameInv'
    BY <1>2, <1>3, <1>8, <2>1 DEF FrameInv
  <2>4. /\ \A s : Taken(s) => Taken(s)'
        /\ \A d \in Clients : \A s : Awaits(d, s)' => Awaits(d, s) /\ call'[d].topic = call[d].topic
    BY <2>1, SameIds DEF Awaits
  <2>5. QED
    BY <1>1, <1>3, <1>8, <2>1, <2>2, <2>3, <2>4, MovedOn
<1>9. QED
  BY <1>6, <1>7, <1>8

LEMMA RForeignKeeps ==
    ASSUME MessageInv, NEW f \in Foreign, RForeign(f)
    PROVE  MessageInv'
<1>1. PICK g \in granted : Spreads({}, g[1], f.arguments, f.arguments_kw)
  BY DEF RForeign
<1>2. RouterActs /\ UNCHANGED <<rsubs, granted, up>>
  BY DEF RForeign
<1>3. g[1] \in Topics
  BY DEF MessageInv, SpreadInv
<1>4. [arguments |-> f.arguments, arguments_kw |-> f.arguments_kw] \in Payloads
  BY DEF Payloads
<1>5. QED
  BY <1>1, <1>2, <1>3, <1>4, SpreadingKeeps

-----------------------------------------------------------------------------
(* Joining.                                                                *)
LEMMA CapabilitiesRead ==
    ASSUME NEW offer \in Offers, NEW extra \in Extras
    PROVE  LET m == parse_message(Welcome(offer, extra))
           IN  /\ m.type = "WELCOME"
               /\ CapabilitiesOf(m.details) =
                     [broker |-> "broker" \in offer, dealer |-> "dealer" \in offer]
<1> DEFINE all == Details(offer, extra)
           read == FromJson(Object(Roles(offer)))
           details == FromJson(Object(all))
<1>1. /\ parse_message(Welcome(offer, extra)).type = "WELCOME"
      /\ parse_message(Welcome(offer, extra)).details = details
  <2>. HIDE DEF all
  <2>1. parse_message(Frame("WELCOME", <<U64(1), Object(all)>>))
            = parse_welcome(<<U64(1), Object(all)>>)
    BY PairParsed
  <2>2. IsId(U64(1)) /\ IsDict(Object(all))
    BY RouterAssumption, MaxIdAssumption DEF IsId, IsDict, U64, Object
  <2>3. QED
    BY <2>1, <2>2 DEF parse_welcome, Welcome, all
<1>0. /\ Object(all) \in Json /\ Object(all)[1] = "object" /\ Object(all)[2] = all
      /\ Object(Roles(offer)) \in Json /\ Object(Roles(offer))[1] = "object"
      /\ Object(Roles(offer))[2] = Roles(offer)
      /\ \A m, n \in all : m[1] = n[1] => m = n
  <2>1. Object(all) \in Json
    BY DetailsAssumption
  <2>2. <<"roles", Object(Roles(offer))>> \in all
    BY DEF Details
  <2>. HIDE DEF all
  <2>3. Object(all)[1] = "object" /\ Object(all)[2] = all
    BY DEF Object
  <2>4. Object(Roles(offer)) \in Json
    BY <2>1, <2>2, <2>3, ReadObject
  <2>5. \A m, n \in all : m[1] = n[1] => m = n
    BY <2>1, <2>3, JsonAssumption
  <2>6. QED
    BY <2>1, <2>3, <2>4, <2>5 DEF Object
<1>2. read = <<"Dict", {<<m[1], FromJson(m[2])>> :
                           m \in {n \in Roles(offer) : FromJson(n[2]) # None}}>>
  BY <1>0, ReadObject DEF Dict
<1>3. details = <<"Dict", {<<m[1], FromJson(m[2])>> :
                              m \in {n \in all : FromJson(n[2]) # None}}>>
  BY <1>0, ReadObject DEF Dict
<1>4. FromJson(Empty) # None
  BY EmptyRead DEF None, Dict
<1>5. Members(read) = offer
  <2>1. read[2] = {<<m[1], FromJson(m[2])>> : m \in {n \in Roles(offer) : FromJson(n[2]) # None}}
    BY <1>2
  <2>2. ASSUME NEW r \in offer PROVE r \in Members(read)
    <3>1. <<r, Empty>> \in {n \in Roles(offer) : FromJson(n[2]) # None}
      BY <1>4 DEF Roles
    <3>2. <<r, FromJson(Empty)>> \in read[2]
      BY <2>1, <3>1
    <3>3. QED
      BY <3>2 DEF Members
  <2>3. ASSUME NEW r \in Members(read) PROVE r \in offer
    <3>1. PICK m \in Roles(offer) : r = m[1]
      BY <2>1 DEF Members
    <3>2. QED
      BY <3>1 DEF Roles
  <2>4. QED
    BY <2>2, <2>3
<1>6. read # None /\ read[1] = "Dict"
  BY <1>2 DEF None
<1>. HIDE DEF read, details
<1>7. UNION {Members(m[2]) : m \in {n \in details[2] : n[1] = "roles" /\ n[2][1] = "Dict"}} = offer
  <2> DEFINE S == {m \in details[2] : m[1] = "roles" /\ m[2][1] = "Dict"}
  <2>1. details[2] = {<<m[1], FromJson(m[2])>> : m \in {n \in all : FromJson(n[2]) # None}}
    BY <1>3
  <2>2. <<"roles", read>> \in details[2]
    <3>1. <<"roles", Object(Roles(offer))>> \in {n \in all : FromJson(n[2]) # None}
      BY <1>6 DEF Details, read
    <3>2. QED
      BY <2>1, <3>1 DEF read
  <2>3. <<"roles", read>> \in S
    BY <1>6, <2>2
  <2>4. ASSUME NEW n \in S PROVE n[2] = read
    <3>1. n \in details[2] /\ n[1] = "roles"
      OBVIOUS
    <3>2. PICK m \in all : n = <<m[1], FromJson(m[2])>>
      BY <2>1, <3>1
    <3>3. m[1] = "roles" /\ n[2] = FromJson(m[2])
      BY <3>1, <3>2
    <3>4. m = <<"roles", Object(Roles(offer))>>
      BY <1>0, <3>3 DEF Details
    <3>5. QED
      BY <3>3, <3>4 DEF read
  <2>. HIDE DEF S
  <2>5. UNION {Members(m[2]) : m \in S} = Members(read)
    BY <2>3, <2>4
  <2>6. QED
    BY <1>5, <2>5 DEF S
<1>8. CapabilitiesOf(details) = [broker |-> "broker" \in offer, dealer |-> "dealer" \in offer]
  BY <1>7, Zenon DEF CapabilitiesOf
<1>9. QED
  BY <1>1, <1>8

LEMMA GreetingShape ==
    /\ MessageToJson([type |-> "HELLO", realm |-> Realm, details |-> ClientDetails]) = Greeting
    /\ Field(Greeting, 1) = U64(Code["HELLO"])
<1> DEFINE m == [type |-> "HELLO", realm |-> Realm, details |-> ClientDetails]
<1>1. m.type = "HELLO" /\ m.realm = Realm /\ m.details = ClientDetails
  OBVIOUS
<1>. HIDE DEF m
<1>2. MessageToJson(m) = Greeting
  BY <1>1, Written DEF Greeting
<1>3. /\ <<Text(Realm), ToJson(ClientDetails)>> \in Seq({Text(Realm), ToJson(ClientDetails)})
      /\ "HELLO" \in DOMAIN Code
  BY DEF Code
<1>4. Field(Greeting, 1) = U64(Code["HELLO"])
  BY <1>3, FrameShape DEF Greeting
<1>5. QED
  BY <1>2, <1>4 DEF m

\* A client whose session a step leaves alone, or that has joined and does not say HELLO.
LEMMA JoinSame ==
    ASSUME NEW d \in Clients, JoinFits(d),
           state'[d] = state[d], caps'[d] = caps[d], offered'[d] = offered[d],
           \A s \in rsubs' : s \in rsubs \/ s[1] # d \/ state[d] \notin {"new", "joining"},
           \/ up'[d] = up[d] /\ (down'[d] = down[d] \/ state[d] \notin {"new", "joining"})
           \/ /\ state[d] \notin {"new", "joining"}
              /\ \A f \in In(up'[d]) : f \in In(up[d]) \/ Field(f, 1) # U64(Code["HELLO"])
    PROVE  JoinFits(d)'
<1>1. CASE state[d] \in {"new", "joining"}
  BY <1>1 DEF JoinFits, Joining
<1>2. CASE state[d] \notin {"new", "joining"}
  BY <1>2 DEF JoinFits
<1>3. QED
  BY <1>1, <1>2

\* What a client has taken from its router before it joined.
LEMMA BeforeJoining ==
    ASSUME MessageInv, JoinInv, NEW c \in Clients
    PROVE  /\ \A code \in {"SUBSCRIBE", "UNSUBSCRIBE", "PUBLISH", "GOODBYE"} :
                  Takes(c, code) => state[c] \notin {"new", "joining"}
           /\ Takes(c, "HELLO") =>
                  state[c] = "joining" /\ up[c] = <<Greeting>> /\ down[c] = <<>>
           /\ Reads(c, "skipped") => state[c] \notin {"new", "joining"}
           /\ state[c] = "joining" /\ Reads(c, "WELCOME") =>
                  /\ up[c] = <<>> /\ offered[c] \in Offers
                  /\ \E extra \in Extras : down[c] = <<Welcome(offered[c], extra)>>
<1>1. JoinFits(c) /\ FrameInv
  BY DEF JoinInv, MessageInv
<1>2. \A a, b \in {"HELLO", "GOODBYE", "SUBSCRIBE", "UNSUBSCRIBE", "PUBLISH"} :
          U64(Code[a]) = U64(Code[b]) => a = b
  BY DEF U64, Code
<1>3. Head(<<Greeting>>) = Greeting /\ <<Greeting>> # <<>>
  OBVIOUS
<1>4. ASSUME NEW code \in {"SUBSCRIBE", "UNSUBSCRIBE", "PUBLISH", "GOODBYE"}, Takes(c, code),
             state[c] \in {"new", "joining"}
      PROVE  FALSE
  <2>1. up[c] = <<Greeting>> /\ Field(Head(up[c]), 1) = U64(Code[code])
    BY <1>1, <1>4 DEF JoinFits, Joining, Takes
  <2>2. U64(Code["HELLO"]) = U64(Code[code])
    BY <1>3, <2>1, GreetingShape
  <2>3. QED
    BY <1>2, <2>2
<1>5. ASSUME Takes(c, "HELLO")
      PROVE  state[c] = "joining" /\ up[c] = <<Greeting>> /\ down[c] = <<>>
  <2>1. up[c] # <<>> /\ Head(up[c]) \in In(up[c]) /\ Field(Head(up[c]), 1) = U64(Code["HELLO"])
    BY <1>1, <1>5, TakenShape DEF Takes
  <2>2. state[c] \in {"new", "joining"}
    BY <1>1, <2>1 DEF JoinFits
  <2>3. QED
    BY <1>1, <2>1, <2>2 DEF JoinFits, Joining
<1>6. ASSUME state[c] \in {"new", "joining"}, down[c] # <<>>
      PROVE  \/ parse_message(Head(down[c])).type = "ABORT"
             \/ /\ parse_message(Head(down[c])).type = "WELCOME"
                /\ up[c] = <<>> /\ offered[c] \in Offers
                /\ \E extra \in Extras : down[c] = <<Welcome(offered[c], extra)>>
  <2>1. CASE down[c] = <<Frame("ABORT", <<Empty, Text(Reason)>>)>>
    <3>1. Head(down[c]) = Frame("ABORT", <<Empty, Text(Reason)>>)
      BY <2>1
    <3>2. parse_message(Head(down[c])) = parse_abort(<<Empty, Text(Reason)>>)
      BY <3>1, PairParsed
    <3>3. Relaxed(Reason) /\ IsUri(Text(Reason)) /\ IsDict(Empty)
      BY DEF Relaxed, Of, Reason, IsUri, Text, IsDict, Empty, Object
    <3>4. QED
      BY <3>2, <3>3 DEF parse_abort
  <2>2. CASE /\ up[c] = <<>> /\ offered[c] \in Offers
             /\ \E extra \in Extras : down[c] = <<Welcome(offered[c], extra)>>
    <3>1. PICK extra \in Extras : down[c] = <<Welcome(offered[c], extra)>>
      BY <2>2
    <3>2. Head(down[c]) = Welcome(offered[c], extra)
      BY <3>1
    <3>3. QED
      BY <2>2, <3>2, CapabilitiesRead
  <2>3. QED
    BY <1>1, <1>6, <2>1, <2>2 DEF JoinFits, Joining
<1>7. QED
  BY <1>4, <1>5, <1>6 DEF Reads

LEMMA InitMessages ==
    ASSUME Init PROVE MessageInv
<1>1. TypeOK
  BY CounterAssumption DEF Init, TypeOK
<1>2. In(<<>>) = {} /\ Idle \in Calls
  BY DEF In, Calls
<1>3. FrameInv
  BY <1>2 DEF Init, FrameInv
<1>4. AskedInv
  BY <1>2 DEF Init, AskedInv
<1>5. SpreadInv
  BY <1>2 DEF Init, SpreadInv
<1>6. QED
  BY <1>1, <1>3, <1>4, <1>5 DEF MessageInv

LEMMA StepMessages ==
    ASSUME MessageInv, [Next]_vars PROVE MessageInv'
<1>1. CASE \E c \in Clients : Hello(c) \/ Close(c)
  BY <1>1, GreetingKeeps
<1>2. CASE \E c \in Clients : Cancel(c)
  BY <1>2, CancelKeeps
<1>3. CASE \E c \in Clients : \E t \in Topics : Subscribe(c, t)
  BY <1>3, SubscribeKeeps
<1>4. CASE \E c \in Clients : \E t \in Topics : \E b \in Broadcasts : Publish(c, t, b)
  BY <1>4, PublishKeeps
<1>5. CASE \E c \in Clients : \E q \in queues[c] : Unsubscribe(c, q)
  BY <1>5, UnsubscribeKeeps
<1>6. CASE \E c \in Clients :
               HearWelcome(c) \/ HearUnsubscribed(c) \/ HearError(c) \/ HearLate(c) \/ Skip(c)
  BY <1>6, HearingKeeps
<1>7. CASE \E c \in Clients : HearSubscribed(c)
  BY <1>7, SubscribedKeeps
<1>8. CASE \E c \in Clients : HearEvent(c)
  BY <1>8, EventKeeps
<1>9. CASE \E c \in Clients : HearGoodbye(c) \/ HearAbort(c) \/ Misread(c) \/ Refuse(c)
  BY <1>9, EndingKeeps
<1>10. CASE \E c \in Clients : RHello(c) \/ RUnsubscribe(c) \/ RGoodbye(c) \/ RExtension(c)
  BY <1>10, RouterKeeps
<1>11. CASE \E c \in Clients : RSubscribe(c)
  BY <1>11, RSubscribeKeeps
<1>12. CASE \E c \in Clients : RPublish(c)
  BY <1>12, RPublishKeeps
<1>13. CASE \E f \in Foreign : RForeign(f)
  BY <1>13, RForeignKeeps
<1>14. CASE UNCHANGED vars
  <2>1. /\ UNCHANGED <<next, made, state, call, queues, lost, rsubs, granted, published,
                       up, down, said, heard>>
    BY <1>14 DEF vars, idVars, clientVars, routerVars
  <2>2. TypeOK' /\ FrameInv'
    BY <2>1 DEF MessageInv, TypeOK, FrameInv
  <2>3. /\ \A r : Taken(r) => Taken(r)'
        /\ \A d \in Clients : \A r : Awaits(d, r)' => Awaits(d, r) /\ call'[d].topic = call[d].topic
    BY <2>1, SameIds DEF Awaits
  <2>4. QED
    BY <2>1, <2>2, <2>3, MovedOn
<1>15. QED
  BY <1>1, <1>2, <1>3, <1>4, <1>5, <1>6, <1>7, <1>8, <1>9, <1>10, <1>11, <1>12, <1>13, <1>14
     DEF Next

-----------------------------------------------------------------------------
(* Steps and joining.                                                      *)
LEMMA SettledKeeps ==
    ASSUME MessageInv, JoinInv, NEW c \in Clients, state[c] \notin {"new", "joining"},
           UNCHANGED <<state, caps, offered>>,
           \A d \in Clients : d = c \/ (up'[d] = up[d] /\ down'[d] = down[d]),
           \A f \in In(up'[c]) : f \in In(up[c]) \/ Field(f, 1) # U64(Code["HELLO"]),
           \A s \in rsubs' : s \in rsubs \/ s[1] = c
    PROVE  JoinInv'
<1>1. ASSUME NEW d \in Clients PROVE JoinFits(d)'
  <2>1. JoinFits(d)
    BY DEF JoinInv
  <2>2. CASE d = c
    BY <2>1, <2>2, JoinSame
  <2>3. CASE d # c
    BY <2>1, <2>3, JoinSame
  <2>4. QED
    BY <2>2, <2>3
<1>2. QED
  BY <1>1 DEF JoinInv

LEMMA AskingSettled ==
    ASSUME MessageInv, JoinInv, NEW c \in Clients,
           \/ \E t \in Topics : Subscribe(c, t) \/ \E b \in Broadcasts : Publish(c, t, b)
           \/ \E q \in queues[c] : Unsubscribe(c, q)
    PROVE  JoinInv'
<1>1. FrameInv /\ next \in Ids
  BY DEF MessageInv, TypeOK, Ids
<1>2. /\ UNCHANGED <<state, caps, offered, rsubs, down>> /\ state[c] = "open"
      /\ \E x \in FromClient :
             up' = [up EXCEPT ![c] = Append(@, x)] /\ Field(x, 1) # U64(Code["HELLO"])
  <2>0. \A a \in {"SUBSCRIBE", "UNSUBSCRIBE", "PUBLISH"} : U64(Code[a]) # U64(Code["HELLO"])
    BY DEF U64, Code
  <2>1. CASE \E t \in Topics : Subscribe(c, t)
    <3>1. PICK t \in Topics : Subscribe(c, t)
      BY <2>1
    <3>2. up' = [up EXCEPT ![c] = Append(@, AskSubscribe(next, t))]
      BY <3>1, AsksWritten DEF Subscribe, Sends
    <3>3. Field(AskSubscribe(next, t), 1) # U64(Code["HELLO"])
      BY <2>0, AskShape
    <3>4. AskSubscribe(next, t) \in FromClient
      BY <1>1, AskedFrames
    <3>5. QED
      BY <3>1, <3>2, <3>3, <3>4 DEF Subscribe, MayAsk, routerVars
  <2>2. CASE \E q \in queues[c] : Unsubscribe(c, q)
    <3>1. PICK q \in queues[c] : Unsubscribe(c, q)
      BY <2>2
    <3>2. up' = [up EXCEPT ![c] = Append(@, AskUnsubscribe(next, q.id))]
      BY <3>1, AsksWritten DEF Unsubscribe, Sends
    <3>3. Field(AskUnsubscribe(next, q.id), 1) # U64(Code["HELLO"])
      BY <2>0, AskShape
    <3>4. q.id \in SubscriptionIds
      BY <1>1 DEF FrameInv
    <3>5. AskUnsubscribe(next, q.id) \in FromClient
      BY <1>1, <3>4, AskedFrames
    <3>6. QED
      BY <3>1, <3>2, <3>3, <3>5 DEF Unsubscribe, MayAsk, routerVars
  <2>3. CASE \E t \in Topics, b \in Broadcasts : Publish(c, t, b)
    <3>1. PICK t \in Topics, b \in Broadcasts : Publish(c, t, b)
      BY <2>3
    <3>2. up' = [up EXCEPT ![c] = Append(@, AskPublish(next, t, b))]
      BY <3>1, PublishWritten DEF Publish, Sends
    <3>3. Field(AskPublish(next, t, b), 1) # U64(Code["HELLO"])
      BY <2>0, AskShape
    <3>4. AskPublish(next, t, b) \in FromClient
      BY <1>1, AskedFrames
    <3>5. QED
      BY <3>1, <3>2, <3>3, <3>4 DEF Publish, MayAsk, clientVars, routerVars
  <2>4. QED
    BY <2>1, <2>2, <2>3
<1>3. PICK x \in FromClient :
          up' = [up EXCEPT ![c] = Append(@, x)] /\ Field(x, 1) # U64(Code["HELLO"])
  BY <1>2
<1>4. \A d \in Clients : \A f \in In(up'[d]) : f \in In(up[d]) \/ (d = c /\ f = x)
  BY <1>1, <1>3, Grown DEF FrameInv
<1>5. \A d \in Clients : d = c \/ up'[d] = up[d]
  BY <1>1, <1>3 DEF FrameInv
<1>6. QED
  BY <1>2, <1>3, <1>4, <1>5, SettledKeeps

LEMMA HearingSettled ==
    ASSUME MessageInv, JoinInv, NEW c \in Clients,
           \/ HearSubscribed(c) \/ HearUnsubscribed(c) \/ HearError(c) \/ HearLate(c)
           \/ HearEvent(c) \/ Skip(c)
    PROVE  JoinInv'
<1>1. UNCHANGED <<state, caps, offered, rsubs, up>> /\ Handled(c)
  BY DEF HearSubscribed, HearUnsubscribed, HearError, HearLate, HearEvent, Skip, Answers,
         clientVars, routerVars
<1>2. state[c] \notin {"new", "joining"}
  BY BeforeJoining DEF HearSubscribed, HearUnsubscribed, HearError, HearLate, HearEvent, Skip, Answers
<1>3. \A d \in Clients : d = c \/ down'[d] = down[d]
  BY <1>1 DEF Handled, MessageInv, FrameInv
<1>4. QED
  BY <1>1, <1>2, <1>3, SettledKeeps

LEMMA RouterSettled ==
    ASSUME MessageInv, JoinInv, NEW c \in Clients,
           RSubscribe(c) \/ RUnsubscribe(c) \/ RGoodbye(c) \/ RExtension(c)
    PROVE  JoinInv'
<1>1. FrameInv
  BY DEF MessageInv
<1>2. UNCHANGED <<state, caps, offered>> /\ \E x : Tell(c, x)
  BY DEF RSubscribe, RUnsubscribe, RGoodbye, RExtension, RError, RouterActs, clientVars, routerVars
<1>3. \A s \in rsubs' : s \in rsubs \/ s[1] = c
  <2>1. ASSUME RSubscribe(c) PROVE \A s \in rsubs' : s \in rsubs \/ s[1] = c
    <3>1. rsubs' = rsubs \/ \E id : rsubs' = rsubs \cup {<<c, id>>}
      BY <2>1 DEF RSubscribe
    <3>2. \A id : <<c, id>>[1] = c
      OBVIOUS
    <3>3. QED
      BY <3>1, <3>2
  <2>2. ASSUME RUnsubscribe(c) \/ RGoodbye(c) \/ RExtension(c) PROVE rsubs' \subseteq rsubs
    BY <2>2 DEF RUnsubscribe, RGoodbye, RExtension, routerVars
  <2>3. QED
    BY <2>1, <2>2
<1>4. \A d \in Clients : d = c \/ down'[d] = down[d]
  BY <1>1, <1>2 DEF Tell, FrameInv
<1>5. CASE \E code \in {"SUBSCRIBE", "UNSUBSCRIBE", "GOODBYE"} : Takes(c, code)
  <2>1. state[c] \notin {"new", "joining"}
    BY <1>5, BeforeJoining
  <2>2. \A d \in Clients : \A f \in In(up'[d]) : f \in In(up[d])
    BY <1>1, <1>5, TakenShape
  <2>3. \A d \in Clients : d = c \/ up'[d] = up[d]
    BY <1>1, <1>5 DEF Takes, FrameInv
  <2>4. QED
    BY <1>2, <1>3, <1>4, <2>1, <2>2, <2>3, SettledKeeps
<1>6. CASE RExtension(c)
  <2>1. state[c] = "open" /\ up' = up
    BY <1>6 DEF RExtension
  <2>2. QED
    BY <1>2, <1>3, <1>4, <2>1, SettledKeeps
<1>7. QED
  BY <1>5, <1>6 DEF RSubscribe, RUnsubscribe, RGoodbye

\* A broker sends events only to clients that have joined.
LEMMA SpreadingSettled ==
    ASSUME MessageInv, JoinInv, NEW by, NEW t, NEW a, NEW k, NEW D \in SUBSET Clients,
           \/ Spreads(by, t, a, k)
           \/ UNCHANGED down,
           UNCHANGED <<state, caps, offered, rsubs>>,
           \A d \in D : state[d] \notin {"new", "joining"},
           \A d \in D : \A f \in In(up'[d]) : f \in In(up[d]),
           \A d \in Clients \ D : up'[d] = up[d]
    PROVE  JoinInv'
<1>1. ASSUME NEW d \in Clients PROVE down'[d] = down[d] \/ state[d] \notin {"new", "joining"}
  <2> SUFFICES ASSUME state[d] \in {"new", "joining"}, Spreads(by, t, a, k)
               PROVE  down'[d] = down[d]
    OBVIOUS
  <2> DEFINE ids == {g[2] : g \in {h \in granted : h[1] = t /\ <<d, h[2]>> \in rsubs /\ {d} # by}}
  <2>1. \A s \in rsubs : s[1] # d
    BY DEF JoinInv, JoinFits
  <2>2. ids = {}
    <3>1. \A x : <<d, x>>[1] = d
      OBVIOUS
    <3>2. \A x : <<d, x>> \notin rsubs
      BY <2>1, <3>1
    <3>3. QED
      BY <3>2
  <2>3. \E F : down'[d] = IF ids = {} THEN down[d] ELSE F
    BY DEF Spreads
  <2>4. QED
    BY <2>2, <2>3
<1>2. ASSUME NEW d \in Clients PROVE JoinFits(d)'
  <2>1. JoinFits(d) /\ state'[d] = state[d] /\ caps'[d] = caps[d] /\ offered'[d] = offered[d]
    BY DEF JoinInv
  <2>2. CASE d \in D
    BY <2>1, <2>2, JoinSame
  <2>3. CASE d \notin D
    BY <1>1, <2>1, <2>3, JoinSame
  <2>4. QED
    BY <2>2, <2>3
<1>3. QED
  BY <1>2 DEF JoinInv

LEMMA PublishingSettled ==
    ASSUME MessageInv, JoinInv,
           \/ \E c \in Clients : RPublish(c)
           \/ \E f \in Foreign : RForeign(f)
    PROVE  JoinInv'
<1>1. FrameInv
  BY DEF MessageInv
<1>2. CASE \E c \in Clients : RPublish(c)
  <2>1. PICK c \in Clients : RPublish(c)
    BY <1>2
  <2>2. Takes(c, "PUBLISH") /\ UNCHANGED <<state, caps, offered, rsubs>>
    BY <2>1 DEF RPublish, RouterActs, clientVars
  <2>3. (\E t, a, k : Spreads({c}, t, a, k)) \/ UNCHANGED down
    BY <2>1 DEF RPublish
  <2>4. state[c] \notin {"new", "joining"}
    BY <2>2, BeforeJoining
  <2>5. /\ \A f \in In(up'[c]) : f \in In(up[c])
        /\ \A d \in Clients \ {c} : up'[d] = up[d]
    BY <1>1, <2>2, TakenShape DEF Takes, FrameInv
  <2>6. {c} \in SUBSET Clients
    OBVIOUS
  <2>7. /\ \A d \in {c} : state[d] \notin {"new", "joining"}
        /\ \A d \in {c} : \A f \in In(up'[d]) : f \in In(up[d])
    BY <2>4, <2>5
  <2>8. QED
    BY <2>2, <2>3, <2>5, <2>6, <2>7, SpreadingSettled
<1>3. CASE \E f \in Foreign : RForeign(f)
  <2>1. /\ UNCHANGED <<state, caps, offered, rsubs, up>>
        /\ \E t, a, k : Spreads({}, t, a, k)
    BY <1>3 DEF RForeign, RouterActs, clientVars
  <2>2. {} \in SUBSET Clients
    OBVIOUS
  <2>3. QED
    BY <2>1, <2>2, SpreadingSettled
<1>4. QED
  BY <1>2, <1>3

LEMMA HelloJoins ==
    ASSUME MessageInv, JoinInv, NEW c \in Clients, Hello(c)
    PROVE  JoinInv'
<1>1. FrameInv /\ TypeOK /\ JoinFits(c)
  BY DEF MessageInv, JoinInv
<1>2. /\ state' = [state EXCEPT ![c] = "joining"] /\ state[c] = "new"
      /\ up' = [up EXCEPT ![c] = Append(@, Greeting)]
      /\ UNCHANGED <<caps, offered, rsubs, down>>
  BY GreetingShape DEF Hello, Sends, routerVars
<1>3. up'[c] = <<Greeting>> /\ down'[c] = <<>> /\ state'[c] = "joining"
  <2>1. Append(<<>>, Greeting) = <<Greeting>>
    OBVIOUS
  <2>2. QED
    BY <1>1, <1>2, <2>1 DEF JoinFits, FrameInv, TypeOK
<1>4. JoinFits(c)'
  BY <1>1, <1>2, <1>3 DEF JoinFits, Joining
<1>5. ASSUME NEW d \in Clients, d # c PROVE JoinFits(d)'
  <2>1. state'[d] = state[d] /\ up'[d] = up[d] /\ JoinFits(d)
    BY <1>1, <1>2, <1>5 DEF FrameInv, TypeOK, JoinInv
  <2>2. QED
    BY <1>2, <2>1, JoinSame
<1>6. QED
  BY <1>2, <1>4, <1>5 DEF JoinInv

LEMMA CancelJoins ==
    ASSUME MessageInv, JoinInv, NEW c \in Clients, Cancel(c)
    PROVE  JoinInv'
  BY DEF Cancel, routerVars, JoinInv, JoinFits, Joining

LEMMA CloseJoins ==
    ASSUME MessageInv, JoinInv, NEW c \in Clients, Close(c)
    PROVE  JoinInv'
<1> DEFINE x == MessageToJson([type |-> "GOODBYE", details |-> <<"Dict", {}>>, reason |-> Reason])
<1>1. FrameInv /\ TypeOK /\ JoinFits(c)
  BY DEF MessageInv, JoinInv
<1>2. /\ state' = [state EXCEPT ![c] = "closing"] /\ state[c] = "open"
      /\ caps' = [caps EXCEPT ![c] = NoCaps]
      /\ up' = [up EXCEPT ![c] = Append(@, x)]
      /\ UNCHANGED <<offered, rsubs, down>>
  BY DEF Close, Sends, routerVars
<1>3. x \in FromClient /\ Field(x, 1) = U64(Code["GOODBYE"])
  <2> DEFINE m == [type |-> "GOODBYE", details |-> <<"Dict", {}>>, reason |-> Reason]
  <2>1. m.type = "GOODBYE" /\ m.details = <<"Dict", {}>> /\ m.reason = Reason
    OBVIOUS
  <2>. HIDE DEF m
  <2>2. MessageToJson(m) = Frame("GOODBYE", <<NoOptions, Text(Reason)>>)
    BY <2>1, Written DEF NoOptions
  <2>3. <<NoOptions, Text(Reason)>> \in Seq({NoOptions, Text(Reason)}) /\ "GOODBYE" \in DOMAIN Code
    BY DEF Code
  <2>4. Field(Frame("GOODBYE", <<NoOptions, Text(Reason)>>), 1) = U64(Code["GOODBYE"])
    BY <2>3, FrameShape
  <2>5. QED
    BY <2>2, <2>4, GreetingsWritten DEF m
<1>4. U64(Code["GOODBYE"]) # U64(Code["HELLO"])
  BY DEF U64, Code
<1>. HIDE DEF x
<1>5. \A d \in Clients : \A f \in In(up'[d]) : f \in In(up[d]) \/ (d = c /\ f = x)
  BY <1>1, <1>2, <1>3, Grown DEF FrameInv
<1>6. JoinFits(c)'
  <2>1. state'[c] = "closing"
    BY <1>1, <1>2 DEF TypeOK
  <2>2. \A f \in In(up'[c]) : Field(f, 1) # U64(Code["HELLO"])
    BY <1>1, <1>2, <1>3, <1>4, <1>5 DEF JoinFits
  <2>3. QED
    BY <2>1, <2>2 DEF JoinFits
<1>7. ASSUME NEW d \in Clients, d # c PROVE JoinFits(d)'
  <2>1. /\ state'[d] = state[d] /\ caps'[d] = caps[d] /\ up'[d] = up[d] /\ down'[d] = down[d]
        /\ JoinFits(d)
    BY <1>1, <1>2, <1>7 DEF FrameInv, TypeOK, JoinInv
  <2>2. QED
    BY <1>2, <2>1, JoinSame
<1>8. caps' \in [Clients -> [broker : BOOLEAN, dealer : BOOLEAN]]
  BY <1>2 DEF JoinInv, NoCaps
<1>9. QED
  BY <1>2, <1>6, <1>7, <1>8 DEF JoinInv

LEMMA WelcomeJoins ==
    ASSUME MessageInv, JoinInv, NEW c \in Clients, HearWelcome(c)
    PROVE  JoinInv'
<1>1. FrameInv /\ TypeOK
  BY DEF MessageInv
<1>2. /\ state' = [state EXCEPT ![c] = "open"] /\ state[c] = "joining" /\ Handled(c)
      /\ caps' = [caps EXCEPT ![c] = CapabilitiesOf(parse_message(Head(down[c])).details)]
      /\ UNCHANGED <<offered, rsubs, up>>
  BY DEF HearWelcome, routerVars
<1>3. up[c] = <<>> /\ offered[c] \in Offers
  BY <1>2, BeforeJoining DEF HearWelcome
<1>4. PICK extra \in Extras : down[c] = <<Welcome(offered[c], extra)>>
  BY <1>2, BeforeJoining DEF HearWelcome
<1>5. CapabilitiesOf(parse_message(Head(down[c])).details)
          = [broker |-> "broker" \in offered[c], dealer |-> "dealer" \in offered[c]]
  <2>1. Head(down[c]) = Welcome(offered[c], extra)
    BY <1>4
  <2>2. QED
    BY <1>3, <2>1, CapabilitiesRead
<1>6. JoinFits(c)'
  <2>1. /\ state'[c] = "open" /\ up'[c] = <<>> /\ offered'[c] = offered[c]
        /\ caps'[c] = [broker |-> "broker" \in offered[c], dealer |-> "dealer" \in offered[c]]
    BY <1>1, <1>2, <1>3, <1>5 DEF TypeOK, JoinInv
  <2>2. In(<<>>) = {}
    BY DEF In
  <2>3. QED
    BY <2>1, <2>2 DEF JoinFits
<1>7. ASSUME NEW d \in Clients, d # c PROVE JoinFits(d)'
  <2>1. /\ state'[d] = state[d] /\ caps'[d] = caps[d] /\ down'[d] = down[d] /\ JoinFits(d)
    BY <1>1, <1>2, <1>7 DEF FrameInv, TypeOK, JoinInv, Handled
  <2>2. QED
    BY <1>2, <2>1, JoinSame
<1>8. caps' \in [Clients -> [broker : BOOLEAN, dealer : BOOLEAN]]
  <2>1. CapabilitiesOf(parse_message(Head(down[c])).details)
            \in [broker : BOOLEAN, dealer : BOOLEAN]
    <3>1. \A a, b \in BOOLEAN :
              [broker |-> a, dealer |-> b] \in [broker : BOOLEAN, dealer : BOOLEAN]
      OBVIOUS
    <3>2. ("broker" \in offered[c]) \in BOOLEAN /\ ("dealer" \in offered[c]) \in BOOLEAN
      OBVIOUS
    <3>3. QED
      BY <1>5, <3>1, <3>2, Zenon
  <2>2. QED
    BY <1>2, <2>1 DEF JoinInv
<1>9. QED
  BY <1>2, <1>6, <1>7, <1>8 DEF JoinInv

LEMMA EndingJoins ==
    ASSUME MessageInv, JoinInv, NEW c \in Clients, Ends(c)
    PROVE  JoinInv'
<1>1. FrameInv /\ TypeOK
  BY DEF MessageInv
<1>2. /\ state' = [state EXCEPT ![c] = "ended"] /\ caps' = [caps EXCEPT ![c] = NoCaps]
      /\ offered' = [offered EXCEPT ![c] = {}]
      /\ up' = [up EXCEPT ![c] = <<>>] /\ down' = [down EXCEPT ![c] = <<>>]
      /\ rsubs' \subseteq rsubs
  BY DEF Ends
<1>3. JoinFits(c)'
  <2>1. state'[c] = "ended" /\ up'[c] = <<>>
    BY <1>1, <1>2 DEF TypeOK, FrameInv
  <2>2. In(<<>>) = {}
    BY DEF In
  <2>3. QED
    BY <2>1, <2>2 DEF JoinFits
<1>4. ASSUME NEW d \in Clients, d # c PROVE JoinFits(d)'
  <2>1. /\ state'[d] = state[d] /\ caps'[d] = caps[d] /\ offered'[d] = offered[d]
        /\ up'[d] = up[d] /\ down'[d] = down[d] /\ JoinFits(d)
    BY <1>1, <1>2, <1>4 DEF FrameInv, TypeOK, JoinInv
  <2>2. QED
    BY <1>2, <2>1, JoinSame
<1>5. /\ caps' \in [Clients -> [broker : BOOLEAN, dealer : BOOLEAN]]
      /\ offered' \in [Clients -> {{}} \cup Offers]
  BY <1>2 DEF JoinInv, NoCaps
<1>6. QED
  BY <1>3, <1>4, <1>5 DEF JoinInv

LEMMA AnswerJoins ==
    ASSUME MessageInv, JoinInv, NEW c \in Clients, RHello(c)
    PROVE  JoinInv'
<1>1. FrameInv /\ TypeOK
  BY DEF MessageInv
<1>2. UNCHANGED <<state, caps, rsubs>> /\ Takes(c, "HELLO")
  BY DEF RHello, RouterActs, clientVars
<1>3. state[c] = "joining" /\ up[c] = <<Greeting>> /\ down[c] = <<>>
  BY <1>2, BeforeJoining
<1>4. up'[c] = <<>> /\ \A d \in Clients : d = c \/ up'[d] = up[d]
  <2>1. Tail(<<Greeting>>) = <<>>
    OBVIOUS
  <2>2. QED
    BY <1>1, <1>2, <1>3, <2>1 DEF Takes, FrameInv
<1>5. \/ /\ Tell(c, Frame("ABORT", <<Empty, Text(Reason)>>)) /\ offered' = offered
      \/ \E offer \in Offers, extra \in Extras :
             /\ offered' = [offered EXCEPT ![c] = offer] /\ Tell(c, Welcome(offer, extra))
  BY Zenon DEF RHello, Welcome
<1>6. \A x : Tell(c, x) => /\ down'[c] = <<x>>
                           /\ \A d \in Clients : d = c \/ down'[d] = down[d]
  <2> TAKE x
  <2>1. Append(<<>>, x) = <<x>>
    OBVIOUS
  <2>2. QED
    BY <1>1, <1>3, <2>1 DEF Tell, FrameInv
<1>7. /\ offered' \in [Clients -> {{}} \cup Offers]
      /\ \A d \in Clients : d = c \/ offered'[d] = offered[d]
  BY <1>5 DEF JoinInv
<1>8. Joining(c)'
  <2>1. CASE Tell(c, Frame("ABORT", <<Empty, Text(Reason)>>))
    BY <1>4, <1>6, <2>1 DEF Joining
  <2>2. CASE \E offer \in Offers, extra \in Extras :
                 /\ offered' = [offered EXCEPT ![c] = offer] /\ Tell(c, Welcome(offer, extra))
    <3>1. PICK offer \in Offers, extra \in Extras :
                 /\ offered' = [offered EXCEPT ![c] = offer] /\ Tell(c, Welcome(offer, extra))
      BY <2>2
    <3>2. offered'[c] = offer /\ down'[c] = <<Welcome(offer, extra)>>
      BY <1>6, <3>1 DEF JoinInv
    <3>3. down'[c] = <<Welcome(offered'[c], extra)>>
      BY <3>2
    <3>4. QED
      BY <1>4, <3>2, <3>3 DEF Joining, Welcome
  <2>3. QED
    BY <1>5, <2>1, <2>2
<1>9. JoinFits(c)'
  <2>1. state'[c] = "joining" /\ \A s \in rsubs' : s[1] # c
    BY <1>2, <1>3 DEF JoinInv, JoinFits
  <2>2. QED
    BY <1>8, <2>1 DEF JoinFits
<1>10. ASSUME NEW d \in Clients, d # c PROVE JoinFits(d)'
  <2>1. /\ state'[d] = state[d] /\ caps'[d] = caps[d] /\ offered'[d] = offered[d]
        /\ up'[d] = up[d] /\ down'[d] = down[d] /\ JoinFits(d)
    BY <1>2, <1>4, <1>5, <1>6, <1>7, <1>10 DEF JoinInv
  <2>2. QED
    BY <1>2, <2>1, JoinSame
<1>11. QED
  BY <1>2, <1>7, <1>9, <1>10 DEF JoinInv

LEMMA InitJoins ==
    ASSUME Init PROVE JoinInv
<1>1. NoCaps \in [broker : BOOLEAN, dealer : BOOLEAN]
  BY DEF NoCaps
<1>2. QED
  BY <1>1 DEF Init, JoinInv, JoinFits

LEMMA StepJoins ==
    ASSUME MessageInv, JoinInv, [Next]_vars PROVE JoinInv'
<1>1. CASE \E c \in Clients : Hello(c)
  BY <1>1, HelloJoins
<1>2. CASE \E c \in Clients : Cancel(c)
  BY <1>2, CancelJoins
<1>3. CASE \E c \in Clients : Close(c)
  BY <1>3, CloseJoins
<1>4. CASE \E c \in Clients :
               \/ \E t \in Topics : Subscribe(c, t) \/ \E b \in Broadcasts : Publish(c, t, b)
               \/ \E q \in queues[c] : Unsubscribe(c, q)
  BY <1>4, AskingSettled
<1>5. CASE \E c \in Clients :
               \/ HearSubscribed(c) \/ HearUnsubscribed(c) \/ HearError(c) \/ HearLate(c)
               \/ HearEvent(c) \/ Skip(c)
  BY <1>5, HearingSettled
<1>6. CASE \E c \in Clients : HearWelcome(c)
  BY <1>6, WelcomeJoins
<1>7. CASE \E c \in Clients : HearGoodbye(c) \/ HearAbort(c) \/ Misread(c) \/ Refuse(c)
  BY <1>7, EndingJoins DEF HearGoodbye, HearAbort, Misread, Refuse, Fails
<1>8. CASE \E c \in Clients : RHello(c)
  BY <1>8, AnswerJoins
<1>9. CASE \E c \in Clients : RSubscribe(c) \/ RUnsubscribe(c) \/ RGoodbye(c) \/ RExtension(c)
  BY <1>9, RouterSettled
<1>10. CASE (\E c \in Clients : RPublish(c)) \/ (\E f \in Foreign : RForeign(f))
  BY <1>10, PublishingSettled
<1>11. CASE UNCHANGED vars
  BY <1>11 DEF vars, clientVars, routerVars, JoinInv, JoinFits, Joining
<1>12. QED
  BY <1>1, <1>2, <1>3, <1>4, <1>5, <1>6, <1>7, <1>8, <1>9, <1>10, <1>11 DEF Next

-----------------------------------------------------------------------------
(* The theorems.                                                           *)
\* Whatever the clients, the router and the counter of Id::next do, every frame on its way
\* has the shape of a message and agrees with the request, the subscription and the
\* publication that it is about.
THEOREM WireInvariance == Spec => []WireInv
<1>1. Init => WireInv
  BY InitMessages, InitJoins DEF WireInv
<1>2. WireInv /\ [Next]_vars => WireInv'
  BY StepMessages, StepJoins DEF WireInv
<1>3. QED
  BY <1>1, <1>2, PTL DEF Spec

\* The counter stays a usize, and only a session that is open has a call in progress.
THEOREM TypeCorrect == Spec => []TypeOK
<1>1. WireInv => TypeOK
  BY DEF WireInv, MessageInv
<1>2. QED
  BY <1>1, WireInvariance, PTL

\* For any number of clients, topics and requests up to a whole round of the counter, an
\* answer reaches the call that asked: every event queue has the id of its own topic.
THEOREM AnswersReach == Spec => []AnswersReachAsker
<1>1. WireInv => AnswersReachAsker
  BY DEF WireInv, MessageInv, AskedInv, AnswersReachAsker
<1>2. QED
  BY <1>1, WireInvariance, PTL

\* Whatever the values and however deep, a stream yields the arguments as they were given to
\* publish, under the topic that they were published on.
THEOREM BroadcastsIntact == Spec => []BroadcastsArriveIntact
<1>1. WireInv => BroadcastsArriveIntact
  <2> SUFFICES ASSUME SpreadInv, NEW h \in heard, NEW c \in published[h[2]].by
               PROVE  <<c, h[1], h[3]>> \in said
    BY DEF WireInv, MessageInv, BroadcastsArriveIntact
  <2> DEFINE p == published[h[2]]
  <2>1. HeardFits(h) /\ Backed(h[2])
    BY DEF SpreadInv, HeardFits
  <2>2. h[1] = p.topic /\ h[3] = Read(p)
    BY <2>1 DEF HeardFits
  <2>3. PICK b \in Broadcasts :
            /\ <<c, p.topic, b>> \in said
            /\ p.arguments = ToJson(b.arguments) /\ p.arguments_kw = ToJson(b.arguments_kw)
    BY <2>1 DEF Backed
  <2>. HIDE DEF p
  <2>4. /\ b.arguments # None /\ b.arguments_kw # None
        /\ b = [arguments |-> FromJson(p.arguments), arguments_kw |-> FromJson(p.arguments_kw)]
    BY <2>3, BroadcastKept
  <2>5. b.arguments = FromJson(p.arguments) /\ b.arguments_kw = FromJson(p.arguments_kw)
    BY <2>4
  <2>6. Read(p) = b
    BY <2>4, <2>5 DEF Read, BroadcastOf
  <2>7. QED
    BY <2>2, <2>3, <2>6
<1>2. QED
  BY <1>1, WireInvariance, PTL

\* Whatever some other program publishes, however deep, a stream yields all of it that
\* json_to_tv has a type for, in its order and under its names.
THEOREM ForeignRead == Spec => []ForeignArgumentsRead
<1>1. WireInv => ForeignArgumentsRead
  <2> SUFFICES ASSUME SpreadInv, NEW h \in heard
               PROVE  /\ h[1] = published[h[2]].topic
                      /\ Represents(h[3].arguments, published[h[2]].arguments)
                      /\ Represents(h[3].arguments_kw, published[h[2]].arguments_kw)
    BY DEF WireInv, MessageInv, ForeignArgumentsRead
  <2> DEFINE p == published[h[2]]
  <2>1. h[2] \in 1 .. Len(published) /\ h[1] = p.topic /\ h[3] = Read(p)
    BY DEF SpreadInv, HeardFits
  <2>2. p \in Publications
    BY <2>1 DEF SpreadInv
  <2>. HIDE DEF p
  <2>3. /\ p.arguments \in Json /\ IsList(p.arguments)
        /\ p.arguments_kw \in Json /\ IsDict(p.arguments_kw)
    BY <2>2, PayloadShape DEF Publications, Publication
  <2>4. HasType(p.arguments) /\ HasType(p.arguments_kw)
    BY <2>3 DEF HasType, IsList, IsDict
  <2>5. /\ Represents(FromJson(p.arguments), p.arguments)
        /\ Represents(FromJson(p.arguments_kw), p.arguments_kw)
    BY <2>3, <2>4, ReadFaithfully, SaysAssumption
  <2>6. FromJson(p.arguments) # None /\ FromJson(p.arguments_kw) # None
    BY <2>3, <2>4, ReadNone
  <2>7. h[3].arguments = FromJson(p.arguments) /\ h[3].arguments_kw = FromJson(p.arguments_kw)
    BY <2>1, <2>6 DEF Read, BroadcastOf
  <2>8. QED
    BY <2>1, <2>5, <2>7 DEF p
<1>2. QED
  BY <1>1, WireInvariance, PTL

\* A frame of a router that follows the protocol fails the session only by an id above
\* MAX_ID_VAL or a reason with an empty component, whatever MAX_ID_VAL is.
THEOREM RouterUnderstood == Spec => []ConformingRouterUnderstood
<1>1. WireInv => ConformingRouterUnderstood
  <2> SUFFICES ASSUME FrameInv, NEW c \in Clients, parse_message(lost[c]) = Refused, lost[c] # Null
               PROVE  Excused(lost[c])
    BY DEF WireInv, MessageInv, ConformingRouterUnderstood, Excused
  <2>1. lost[c] \in FromRouter
    BY DEF FrameInv
  <2>2. QED
    BY <2>1, RefusedMeansExcused
<1>2. QED
  BY <1>1, WireInvariance, PTL

\* Whatever a router adds to the details of WELCOME, and whatever it offers: from WELCOME to
\* close a client has just the capabilities of its router.
THEOREM CapabilitiesMatch == Spec => []CapabilitiesMatchRouter
<1>1. WireInv => CapabilitiesMatchRouter
  BY DEF WireInv, JoinInv, JoinFits, CapabilitiesMatchRouter
<1>2. QED
  BY <1>1, WireInvariance, PTL
=============================================================================
