------------------------ MODULE MCConversationReplay ------------------------
(* Arguments of every kind, for custom tools and for functions.             *)
EXTENDS ConversationReplay

\* The first call of an answer is of a custom tool, and every call of step 4.
MCIsCustom(call) == call.id[2] = 1 \/ call.id[1] = 4

MCInputIn(arguments) ==
  IF arguments # <<>> /\ arguments[1][1] \in {"input", "mixed"} THEN {arguments[1][2]} ELSE {}

MCArguments(step, n) ==
  LET Fragment(kind) == << <<kind, step, n>> >>
  IN  << Fragment("bare"),                                <<>>,
         AsInput(Fragment("text")),                       Fragment("array"),
         << <<"mixed", Fragment("text"), <<step, n>> >> >>, Fragment("object"),
         <<>>,                                            Fragment("object") >>[1 + ((2 * step + n - 3) % 8)]
=============================================================================
