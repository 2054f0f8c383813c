------------------------------- MODULE Codec -------------------------------
(***************************************************************************)
(* How messages become JSON and JSON becomes messages                      *)
(* (src/src/proto.rs and src/src/transport/websocket/parsers.rs).          *)
(***************************************************************************)
EXTENDS TransportableValues

CONSTANT MaxId          \* MAX_ID_VAL

ASSUME MaxIdAssumption == MaxId \in Nat

-----------------------------------------------------------------------------
(* Messages that the client sends. *)
Code ==
    [HELLO |-> 1, WELCOME |-> 2, ABORT |-> 3, GOODBYE |-> 6, ERROR |-> 8,
     PUBLISH |-> 16, PUBLISHED |-> 17, SUBSCRIBE |-> 32, SUBSCRIBED |-> 33,
     UNSUBSCRIBE |-> 34, UNSUBSCRIBED |-> 35, EVENT |-> 36]

\* Writing that leaves out the keyword arguments.
PositionalOnly(head, arguments, arguments_kw) ==
    head \o IF arguments = None THEN <<>> ELSE <<ToJson(arguments)>>

\* The optional arguments: keywords are written only behind positional ones.
WithArguments(head, arguments, arguments_kw) ==
    head \o IF arguments = None THEN <<>>
            ELSE IF arguments_kw = None THEN <<ToJson(arguments)>>
            ELSE <<ToJson(arguments), ToJson(arguments_kw)>>

\* TxMessage::to_json for HELLO, GOODBYE and the requests of publishers and subscribers
MessageToJson(m) ==
    LET head == <<U64(Code[m.type])>> IN
    Array(
        CASE m.type = "HELLO"       -> head \o <<Text(m.realm), ToJson(m.details)>>
          [] m.type = "GOODBYE"     -> head \o <<ToJson(m.details), Text(m.reason)>>
          [] m.type = "SUBSCRIBE"   -> head \o <<U64(m.request), ToJson(m.options), Text(m.topic)>>
          [] m.type = "UNSUBSCRIBE" -> head \o <<U64(m.request), U64(m.subscription)>>
          [] m.type = "PUBLISH"     ->
                WithArguments(head \o <<U64(m.request), ToJson(m.options), Text(m.topic)>>,
                              m.arguments, m.arguments_kw))

-----------------------------------------------------------------------------
(* Messages that the client receives. A parser gets the values behind the  *)
(* code and returns the message, or refuses it.                            *)
Refused == [type |-> "refused"]
Skipped == [type |-> "skipped"]

IsId(j) == j[1] = "int" /\ j[2] <= MaxId
IsDict(j) == j[1] = "object"
IsList(j) == j[1] = "array"
IsUri(j) == j[1] = "string" /\ Relaxed(j[2])

\* An optional value: the i-th, if there is one.
Optional(v, i) == IF i <= Len(v) THEN FromJson(v[i]) ELSE None

parse_welcome(v) ==
    IF Len(v) = 2 /\ IsId(v[1]) /\ IsDict(v[2])
    THEN [type |-> "WELCOME", session |-> v[1][2], details |-> FromJson(v[2])]
    ELSE Refused

parse_abort(v) ==
    IF Len(v) = 2 /\ IsDict(v[1]) /\ IsUri(v[2])
    THEN [type |-> "ABORT", details |-> FromJson(v[1]), reason |-> v[2][2]]
    ELSE Refused

parse_goodbye(v) ==
    IF Len(v) = 2 /\ IsDict(v[1]) /\ IsUri(v[2])
    THEN [type |-> "GOODBYE", details |-> FromJson(v[1]), reason |-> v[2][2]]
    ELSE Refused

parse_error(v) ==
    IF /\ Len(v) \in 4 .. 6
       /\ v[1][1] = "int" /\ IsId(v[2]) /\ IsDict(v[3]) /\ IsUri(v[4])
       /\ Len(v) >= 5 => IsList(v[5])
       /\ Len(v) >= 6 => IsDict(v[6])
    THEN [type |-> "ERROR", request_type |-> v[1][2], request |-> v[2][2],
          details |-> FromJson(v[3]), error |-> v[4][2],
          arguments |-> Optional(v, 5), arguments_kw |-> Optional(v, 6)]
    ELSE Refused

parse_subscribed(v) ==
    IF Len(v) = 2 /\ IsId(v[1]) /\ IsId(v[2])
    THEN [type |-> "SUBSCRIBED", request |-> v[1][2], subscription |-> v[2][2]]
    ELSE Refused

parse_unsubscribed(v) ==
    IF Len(v) = 1 /\ IsId(v[1])
    THEN [type |-> "UNSUBSCRIBED", request |-> v[1][2]]
    ELSE Refused

\* A parser that asks for the optional arguments.
EventWithArguments(v) ==
    IF /\ Len(v) = 5 /\ IsId(v[1]) /\ IsId(v[2]) /\ IsDict(v[3])
       /\ IsList(v[4]) /\ IsDict(v[5])
    THEN [type |-> "EVENT", subscription |-> v[1][2], publication |-> v[2][2],
          details |-> FromJson(v[3]),
          arguments |-> Optional(v, 4), arguments_kw |-> Optional(v, 5)]
    ELSE Refused

parse_event(v) ==
    IF /\ Len(v) \in 3 .. 5 /\ IsId(v[1]) /\ IsId(v[2]) /\ IsDict(v[3])
       /\ Len(v) >= 4 => IsList(v[4])
       /\ Len(v) >= 5 => IsDict(v[5])
    THEN [type |-> "EVENT", subscription |-> v[1][2], publication |-> v[2][2],
          details |-> FromJson(v[3]),
          arguments |-> Optional(v, 4), arguments_kw |-> Optional(v, 5)]
    ELSE Refused

\* parse_message. What is no text, and what has a code it does not know, is skipped.
parse_message(frame) ==
    IF frame = <<"binary">> THEN Skipped
    ELSE IF ~IsList(frame) \/ frame[2] = <<>> \/ frame[2][1][1] # "int" THEN Refused
    ELSE LET v == Tail(frame[2])
             code == frame[2][1][2]
         IN  CASE code = Code.WELCOME      -> parse_welcome(v)
               [] code = Code.ABORT        -> parse_abort(v)
               [] code = Code.ERROR        -> parse_error(v)
               [] code = Code.GOODBYE      -> parse_goodbye(v)
               [] code = Code.SUBSCRIBED   -> parse_subscribed(v)
               [] code = Code.UNSUBSCRIBED -> parse_unsubscribed(v)
               [] code = Code.EVENT        -> parse_event(v)
               [] OTHER                    -> Skipped

-----------------------------------------------------------------------------
(* What the client makes of the values it received.                        *)
Members(dict) == {m[1] : m \in dict[2]}

\* Looking for the roles one level too high.
RolesAtTop(details) == [broker |-> "broker" \in Members(details),
                        dealer |-> "dealer" \in Members(details)]

\* RouterCapabilities::from_details
CapabilitiesOf(details) ==
    LET roles == UNION {Members(m[2]) : m \in {n \in details[2] : n[1] = "roles" /\ n[2][1] = "Dict"}}
    IN  [broker |-> "broker" \in roles, dealer |-> "dealer" \in roles]

\* The Broadcast that a stream yields: no arguments are empty ones.
BroadcastOf(event) ==
    [arguments    |-> IF event.arguments = None THEN <<"List", <<>> >> ELSE event.arguments,
     arguments_kw |-> IF event.arguments_kw = None THEN <<"Dict", {}>> ELSE event.arguments_kw]
=============================================================================
