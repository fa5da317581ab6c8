----------------------------- MODULE MCNameTree -----------------------------
(* A small instance of NameTree.                                              *)
EXTENDS NameTree, NameHash

A == <<"a">>
AB == <<"a", "b">>
AA == <<"a", "a">>
AD == <<"a", "digest">>

MCFibNames == {A, AB}
MCPitNames == {AA, AD}
MCChoiceNames == {<<>>, A}
MCMeasNames == {A, AD}
MCComponentHash == [c \in {"a", "b", "digest"} |-> CASE c = "a" -> 4 [] c = "b" -> 6 [] OTHER -> 3]
MCHash == [n \in Names |-> computeHash(n)]
MCStrategies == {[type |-> "asf", params |-> 0], [type |-> "asf", params |-> 1], [type |-> "multicast", params |-> 0]}
=============================================================================
