-------------------------- MODULE MCPacketDispatch --------------------------
(* Two workers, prefix length two.  /a is shorter than the distribution     *)
(* length, so worker 0 has it, and is answered by Data of worker 1.         *)
EXTENDS PacketDispatch

MCComponent == {"a", "b", "localhost"}

\* /a/a hashes to worker 0, /a/b to worker 1.
MCHash == [p \in [1 .. PrefixLength -> MCComponent] |-> IF p[2] = "b" THEN 7 ELSE 4]

MCInterestNames == {<<"a">>, <<"a", "b">>}
MCDataNames == {<<"a", "b">>, <<"a", "b", "a">>}
=============================================================================
