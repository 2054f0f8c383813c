-------------------------------- MODULE Uris --------------------------------
(***************************************************************************)
(* URIs and their validation (src/src/uri.rs). A text is the sequence of   *)
(* its components, of which only the kind matters:                         *)
(*   "empty"  nothing                                                      *)
(*   "plain"  lower-case letters, digits and "_"                           *)
(*   "wamp"   the one plain component that is reserved                     *)
(*   "other"  some other character, but neither white space nor "#"        *)
(*   "bad"    white space or "#"                                           *)
(* A text without a dot is a text of one component.                        *)
(***************************************************************************)
EXTENDS Naturals, Sequences

Components == {"empty", "plain", "wamp", "other", "bad"}
Texts(n) == UNION {[1 .. k -> Components] : k \in 1 .. n}

\* Every component is of one of the kinds.
Of(text, kinds) == \A i \in DOMAIN text : text[i] \in kinds

\* Uri::relaxed accepts: ^([^\s\.#]+\.)*([^\s\.#]+)$
Relaxed(text) == Of(text, {"plain", "wamp", "other"})

\* Uri::strict accepts: ^(([0-9a-z_]+\.)|\.)*([0-9a-z_]+)?$
Strict(text) == Of(text, {"empty", "plain", "wamp"})

\* What the comment on Uri calls well formed, and a broker accepts as a topic.
WellFormed(text) ==
    /\ Of(text, Components \ {"bad"})
    /\ text[1] \notin {"empty", "wamp"} /\ text[Len(text)] # "empty"
=============================================================================
