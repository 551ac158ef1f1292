--------------------------- MODULE MCResponsesAPI ---------------------------
(* Instances of ResponsesAPI for TLC.                                      *)
EXTENDS ResponsesAPI, TLC

MCItemIds == {"in", "out"} \X Requests
MCValues == Metadata \cup Statuses

OwnInput == { {"own"} }
AnyInput == { {}, {"own"}, {"own", "reference"} }
OwnOrReference == { {"own"}, {"reference"} }

\* Requests differ in nothing but their names.
Symmetry == Permutations(Requests)
=============================================================================
