----------------------------- MODULE MCGogmStart -----------------------------
(* Two replicas that start against two databases at once.                   *)
EXTENDS GogmStart, TLC

CONSTANTS p1, p2, d1, d2, f1, f2, old

TwoProcs == {p1, p2}
TwoDbs   == {d1, d2}

\* One struct with a primary key and an index field.
MCTagged == [Node |-> [unique |-> {f1}, index |-> {f2}]]

\* A database with nothing; with outdated rules, of another label too; with a constraint
\* and no index but its own; with an index in the way of a constraint.
Empty    == [constraints |-> {}, indexes |-> {}]
Outdated == [constraints |-> {<<"Node", {old}>>, <<"Other", {old}>>},
             indexes |-> {<<"Node", {f1, f2}>>}]
NoIndex  == [constraints |-> {<<"Node", {old}>>}, indexes |-> {}]
InTheWay == [constraints |-> {}, indexes |-> {<<"Node", {f1}>>}]

MCBefore == {d1 :> Empty @@ d2 :> Empty, d1 :> Outdated @@ d2 :> Outdated,
             d1 :> Outdated @@ d2 :> Empty, d1 :> Outdated @@ d2 :> InTheWay,
             d1 :> NoIndex @@ d2 :> Outdated}

\* A schema that Validate accepts, and one it does not.
Pair == <<[owner |-> "Node", field |-> "out", rel |-> "R", target |-> "Node", dir |-> "outgoing", many |-> TRUE],
          [owner |-> "Node", field |-> "in", rel |-> "R", target |-> "Node", dir |-> "incoming", many |-> TRUE]>>

Good == [given |-> TRUE, host |-> TRUE, port |-> 7687, keys |-> TRUE, ca |-> TRUE, load |-> "path",
         index |-> "assert", ctx |-> "deadline", dbs |-> <<d1, d2>>, decls |-> Pair]

MCConf == {Good,
           [Good EXCEPT !.ctx = "cancel", !.dbs = <<>>],
           [Good EXCEPT !.ctx = "background", !.index = "validate"],
           [Good EXCEPT !.ctx = "background", !.index = "ignore"],
           [Good EXCEPT !.index = "unknown"],
           [Good EXCEPT !.decls = SubSeq(Pair, 1, 1)],
           [Good EXCEPT !.ca = FALSE]}
===============================================================================
