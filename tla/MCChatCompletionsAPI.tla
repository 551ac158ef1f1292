------------------------ MODULE MCChatCompletionsAPI ------------------------
(* Instances of ChatCompletionsAPI for TLC. *)
EXTENDS ChatCompletionsAPI, TLC

MCValues == Completion

MCListings == { <<{}, "asc">>, <<{"tagged"}, "desc">> }

\* Requests differ in nothing but their names.
Symmetry == Permutations(Requests)
=============================================================================
