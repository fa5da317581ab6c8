------------------------------ MODULE NameHash ------------------------------
(* The hash by which the name tree finds a node, and that PIT tokens carry    *)
(* (name-tree-hashtable.cpp).                                                 *)
EXTENDS Naturals, Sequences, Bitwise

CONSTANT ComponentHash   \* the hash of each component

\* computeHash: the order of components is lost.
computeHash(n) ==
    LET upTo[i \in 0 .. Len(n)] == IF i = 0 THEN 0 ELSE upTo[i - 1] ^^ ComponentHash[n[i]]
    IN  upTo[Len(n)]
=============================================================================
