------------------------------- MODULE MCRib --------------------------------
(* A chain of three names, and routes of every kind.                         *)
EXTENDS Rib, TLC

MCNames == {<<>>, <<"a">>, <<"a", "b">>}
\* The top hands down, the middle may do anything, the bottom is a leaf.
MCOffers == {o \in MCNames \X Route :
    /\ o[1] = <<>> => o[2].inherit /\ ~ o[2].capture /\ o[2].cost = 2
    /\ o[1] = <<"a">> => IF o[2].capture THEN o[2].cost = 1 ELSE o[2].inherit
    /\ o[1] = <<"a", "b">> => ~ o[2].inherit /\ ~ o[2].capture /\ o[2].cost = 1}

Alike == Permutations(Faces)
=============================================================================
