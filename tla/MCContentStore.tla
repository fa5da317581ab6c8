--------------------------- MODULE MCContentStore ---------------------------
(* Small instances of ContentStore.                                          *)
EXTENDS ContentStore

A == <<"a">>
AB == <<"a", "b">>
AC == <<"a", "c">>

\* Two packets of one name, and one packet of each of two other names
MCData == {[name |-> A, digest |-> "p"], [name |-> AB, digest |-> "p"],
           [name |-> AB, digest |-> "q"], [name |-> AC, digest |-> "p"]}
MCRank == [d \in MCData |-> CASE d.name = A -> 1
                              [] d.name = AB -> IF d.digest = "p" THEN 2 ELSE 3
                              [] d.name = AC -> 4]
MCFreshness == [d \in MCData |-> IF d.digest = "q" THEN 1 ELSE 0]
MCPrefixes == {A, AB}

\* <<pm_cs_max_packets, em_cs_max_packets>>
MCConfigLimits == {<<2, 1>>, <<3, 2>>}

ASSUME MCLimitsAssumption == ExactFits
=============================================================================
