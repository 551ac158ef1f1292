---------------------------- MODULE MCToolNames ----------------------------
(* Instances of ToolNames for TLC.  The words b! and b? are unsafe: both    *)
(* become b, and their digests are equal.  b_7c is a name of its own, and   *)
(* the one that b! and b? get when b is taken.                              *)
EXTENDS ToolNames

Function(name, namespace) == [type |-> "function", name |-> name, namespace |-> namespace]

MCTools ==
  { Function(<<"b">>, <<>>), Function(<<"b!">>, <<>>), Function(<<"b?">>, <<>>),
    Function(<<"b_7c">>, <<>>), Function(<<"b">>, <<"a">>), Function(<<"a", "b">>, <<>>),
    [type |-> "custom", name |-> <<"b">>, namespace |-> <<>>],
    [type |-> "search", name |-> <<>>, namespace |-> <<>>] }

MCWords == {"a", "b", "b!", "b?", "b_7c"}

SafeWord(word) == IF word \in {"b!", "b?"} THEN "b" ELSE word

Suffix(raw, k) ==
  LET digest == IF raw[Len(raw)] \in {"b!", "b?"} THEN "_7c" ELSE "_62"
  IN  <<"", digest, digest \o "_2", digest \o "_3", digest \o "_4">>[k + 1]

MCCandidate(raw, k) ==
  [n \in DOMAIN raw |-> IF n = Len(raw) THEN SafeWord(raw[n]) \o Suffix(raw, k) ELSE SafeWord(raw[n])]

Named(type, name, namespace) ==
  [kind |-> "named", type |-> type, name |-> name, namespace |-> namespace]

Entry(type, name, namespace) ==
  [form |-> "record", type |-> type, name |-> name, namespace |-> namespace]

Text(name) == [form |-> "text", name |-> name]

AllowedTools(entries) == [kind |-> "allowed", entries |-> entries]

MCChoices ==
  { Named("function", <<"b">>, <<>>), Named("function", <<"b!">>, <<>>),
    Named("function", <<"b">>, <<"a">>), Named("custom", <<"b">>, <<>>),
    AllowedTools({Text(<<"b!">>)}), AllowedTools({Text(<<"a", "b">>), Entry("", <<"b?">>, <<>>)}),
    AllowedTools({Entry("function", <<"b">>, <<"a">>)}), AllowedTools({Entry("", <<>>, <<"a">>)}),
    AllowedTools({Entry("custom", <<"b">>, <<>>), Entry("search", <<>>, <<>>)}) }
=============================================================================
