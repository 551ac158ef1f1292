---------------------------- MODULE MCStoreLoops ----------------------------
(* Instances of StoreLoops for TLC.                                        *)
EXTENDS StoreLoops

MCOneItem == { <<>>, <<"i1">> }
=============================================================================
