--------------------------- MODULE MCFibSharding ----------------------------
(* Two workers, prefix length two, components "a", "b" and "localhost".     *)
EXTENDS FibSharding

CONSTANTS f1, f2   \* faces

MCComponent == {"a", "b", "localhost"}

\* /a/a and /b/a hash to worker 0, /a/b to worker 1.
MCHash == [p \in [1 .. PrefixLength -> MCComponent] |-> IF p[2] = "b" THEN 7 ELSE 4]

\* Shorter than, exactly at and beyond the distribution length.
MCNames == {<<>>, <<"a">>, <<"a", "a">>, <<"a", "b">>, <<"a", "b", "a">>, <<"b", "a">>}
MCPrefixes == {<<"a">>, <<"a", "b">>, <<"localhost">>}
MCRequested == [prefix : MCPrefixes, face : {f1, f2}]
               \ {[prefix |-> <<"localhost">>, face |-> f2]}
=============================================================================
