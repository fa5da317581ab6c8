------------------------- MODULE MCFragmentDispatch -------------------------
EXTENDS FragmentDispatch, TLC

CONSTANTS f1, f2

\* The peer of f2 has sent for a longer time.
Apart == f1 :> 0 @@ f2 :> 100

ASSUME ApartAssumption == NumbersApart(3)
=============================================================================
