------------------------------ MODULE MCStore ------------------------------
(* Instances of Store for TLC.                                             *)
EXTENDS Store, TLC

CONSTANTS r1, r2, r3    \* model values, the ids of responses

\* Item slices: nothing, one item, and a slice with an item twice (it counts
\* once).
MCItemLists == { <<>>, <<"i1">>, <<"i2", "i1", "i2">> }

\* The ids of responses are interchangeable.
ResponseSymmetry == Permutations(ResponseIds)
=============================================================================
