------------------------------- MODULE MCWire -------------------------------
(* Values for the constants of Wire. *)
EXTENDS WireInvariants, TLC
LOCAL INSTANCE FiniteSetsExt

Symmetry == Permutations(Clients)

\* Both validations accept both, a broker only the first.
MCTopics == {<<"plain", "plain">>, <<"wamp", "plain">>}

Word == <<"String", <<"plain">> >>

MCBroadcasts ==
    {[arguments |-> <<"List", <<>> >>, arguments_kw |-> <<"Dict", {}>>],
     [arguments |-> <<"List", <<Word, <<"List", << <<"Integer", 0>> >> >> >> >>,
      arguments_kw |-> <<"Dict", {<<"a", <<"Bool", FALSE>> >>}>>]}

\* Values without a type first, in the middle, alone and nested
MCForeign ==
    {[arguments |-> Array(<<Null, U64(1), Number, Array(<<Null>>), U64(2)>>),
      arguments_kw |-> Object({<<"a", Null>>, <<"b", Object({<<"c", Number>>, <<"d", U64(0)>>})>>})]}

MCExtras == {{<<"broker", Null>>, <<"authid", Text(<<"plain">>)>>, <<"dealer", Empty>>}}
MCErrorUris == {<<"wamp", "plain">>, <<"plain", "empty", "plain">>}
MCOffers == {{"broker"}, {"dealer"}}

\* The values of an instance, with all their parts
RECURSIVE WithParts(_)
WithParts(js) ==
    LET all == js \cup UNION {Parts(j) : j \in js} IN IF all = js THEN js ELSE WithParts(all)

ValueParts(tv) ==
    CASE tv[1] = "List" /\ tv[2] # <<>> -> {Head(tv[2]), List(Tail(tv[2]))}
      [] tv[1] = "Dict"                 -> {m[2] : m \in tv[2]}
      [] OTHER                          -> {}
RECURSIVE WithValueParts(_)
WithValueParts(tvs) ==
    LET all == tvs \cup UNION {ValueParts(tv) : tv \in tvs}
    IN  IF all = tvs THEN tvs ELSE WithValueParts(all)

MCValues == WithValueParts(UNION {{b.arguments, b.arguments_kw} : b \in MCBroadcasts})

MCJson ==
    WithParts({Array(<<>>), Empty} \cup {ToJson(tv) : tv \in MCValues}
              \cup UNION {{f.arguments, f.arguments_kw} : f \in MCForeign}
              \cup {Object(Details(offer, extra)) : offer \in MCOffers, extra \in MCExtras})

RECURSIVE MCSize(_)
MCSize(j) ==
    CASE j[1] = "array" /\ j[2] # <<>> -> 1 + MCSize(Head(j[2])) + MCSize(Array(Tail(j[2])))
      [] j[1] = "object"               -> 1 + MapThenSumSet(LAMBDA m : MCSize(m[2]), j[2])
      [] OTHER                         -> 1

\* The recursions closed; the LETs keep TLC's coverage statistics from following them.
MCToJson(tv) == LET j == serialize(tv) IN j
MCFromJson(j) == LET tv == json_to_tv(j) IN tv
MCSays(tv, j) == LET same == Represents(tv, j) IN same

\* What the validations accept, over every text of up to three components: the relaxed one
\* only what a broker accepts or what is reserved, the strict one also what begins or ends
\* with an empty component, and neither everything that is well formed.
ASSUME UriValidations ==
    /\ \A t \in Texts(3) : Relaxed(t) => WellFormed(t) \/ t[1] = "wamp"
    /\ \A t \in Texts(3) : Strict(t) /\ ~ Relaxed(t) => \E i \in DOMAIN t : t[i] = "empty"
    /\ \E t \in Texts(3) : Strict(t) /\ ~ WellFormed(t) /\ t[1] # "wamp"
    /\ \E t \in Texts(3) : WellFormed(t) /\ ~ Relaxed(t) /\ ~ Strict(t)
    /\ \E t \in Texts(3) : WellFormed(t) /\ ~ Relaxed(t) /\ Strict(t)
=============================================================================
