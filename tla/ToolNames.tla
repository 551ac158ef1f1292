------------------------------ MODULE ToolNames ------------------------------
(***************************************************************************)
(* The names under which a client's tools are sent to GLM, and the way     *)
(* back.  GLM knows one flat list of names of limited length and alphabet; *)
(* a Responses client has namespaces and names of any kind                 *)
(* (adapters/openai/responses, UniqueUpstreamToolName of openai/shared).   *)
(* The other adapters only make the names safe and never map them back     *)
(* (openai/chat, anthropic/messages, gemini/generate).                     *)
(*                                                                         *)
(* A name is a sequence of words, for the words joined by "__", so that a  *)
(* name in a namespace and a longer name without one can be equal.  What   *)
(* SafeUpstreamToolName and the digest make of a name is Candidate: names  *)
(* that differ may meet in candidate 0, which is the safe name, and, since *)
(* the digest is short, in any later one.                                  *)
(*                                                                         *)
(* The actions follow one client through a request, the call that answers  *)
(* it and a second request that brings the call back in its history.       *)
(* Tools without a name are dropped by the code and are left out.          *)
(***************************************************************************)
EXTENDS Integers, Sequences

CONSTANTS
  Adapters,           \* the adapters followed
  Words,              \* the words of names
  Tools,              \* the tools a client may declare
  Choices,            \* the tool_choice it may send
  Candidate(_, _),    \* the k-th upstream name tried for a raw name
  MaxTools            \* bound: the tools of one request

Unnamed == <<>>

\* "search" stands for the hosted web search tools, which have no name.
Tool ==
  [type : {"function", "custom", "search"}, name : Seq(Words), namespace : Seq(Words)]

IsNamed(tool) == tool.type # "search"

\* RawUpstreamToolName
Raw(tool) == tool.namespace \o tool.name

\* The candidates after the first end in "_" and the digest, or in the digest, "_"
\* and a number, and so differ; the empty name is none of them.
ASSUME CandidatesAssumption ==
  /\ MaxTools \in Nat
  /\ \A tool \in { t \in Tools : IsNamed(t) } :
       /\ \A k \in 0..(MaxTools + 1) : Candidate(Raw(tool), k) # Unnamed
       /\ \A j, k \in 1..(MaxTools + 1) : j # k => Candidate(Raw(tool), j) # Candidate(Raw(tool), k)

\* A choice is one only if it names a function or a custom tool (MapToolChoice),
\* and an entry without a name and a namespace stands for no tool that has one
\* (AllowedEntryMatches).
ASSUME ChoicesAssumption ==
  /\ Tools \subseteq Tool
  /\ \A wanted \in Choices :
       /\ wanted.kind = "named" =>
            wanted.type \in {"function", "custom"} /\ wanted.name # <<>>
       /\ wanted.kind = "allowed" =>
            \A entry \in wanted.entries :
              entry.form = "text" \/ entry.type = "search" \/ <<>> # entry.name \o entry.namespace

VARIABLES
  adapter,       \* the adapter of the client's endpoint
  pc,
  tools,         \* the tools of the request
  choice,        \* its tool_choice
  names,         \* names[n]: the upstream name of tools[n], once it has one
  used,          \* the map of UniqueUpstreamToolName: whose raw name has an upstream name
  toolNameMap,   \* the tool an upstream name stands for
  sent,          \* the places in tools of the tools that are sent
  toolChoice,    \* the upstream name in the tool_choice that is sent: none or one
  call,          \* the call that answered: nothing, or what the client is told of it
  past           \* the tools and the call of the request before: nothing or one record

nameVars == <<names, used, toolNameMap>>
vars == <<adapter, pc, tools, choice, nameVars, sent, toolChoice, call, past>>

NoChoice == [kind |-> "none"]

EmptyMap == [u \in {} |-> <<>>]

Put(f, x, value) == [y \in DOMAIN f \cup {x} |-> IF y = x THEN value ELSE f[y]]

Init ==
  /\ adapter \in Adapters
  /\ pc = "idle"
  /\ tools = <<>> /\ choice = NoChoice
  /\ names = <<>> /\ used = EmptyMap /\ toolNameMap = EmptyMap
  /\ sent = {} /\ toolChoice = {} /\ call = {} /\ past = {}

\* A request arrives.  Its tools are looked at one by one.
Declare(declared, wanted) ==
  /\ pc' = "naming"
  /\ tools' = declared /\ choice' = wanted
  /\ names' = <<>> /\ used' = EmptyMap /\ toolNameMap' = EmptyMap
  /\ sent' = {} /\ toolChoice' = {} /\ call' = {}
  /\ UNCHANGED adapter

ToolLists == UNION { [1..n -> Tools] : n \in 1..MaxTools }

\* What a client of the endpoint can ask for: only Responses has namespaces, only
\* OpenAI's endpoints have custom and hosted tools, Anthropic has no list of
\* allowed tools, and Gemini has nothing else.
Offered(tool) ==
  \/ adapter = "responses"
  \/ tool.namespace = <<>> /\ (adapter = "chat" \/ tool.type = "function")

Askable(wanted) ==
  CASE adapter = "responses" -> TRUE
    [] wanted.kind = "named" -> adapter # "gemini" /\ wanted.namespace = <<>>
    [] wanted.kind = "allowed" -> /\ adapter # "anthropic"
                                 /\ \A entry \in wanted.entries : entry.name # <<>>
    [] OTHER -> TRUE

FirstRequest ==
  /\ pc = "idle"
  /\ \E declared \in ToolLists, wanted \in Choices \cup {NoChoice} :
       /\ Askable(wanted) /\ \A n \in DOMAIN declared : Offered(declared[n])
       /\ Declare(declared, wanted)
  /\ UNCHANGED past

\* The history of the second request holds the call of the first.
SecondRequest ==
  /\ pc = "answered" /\ past = {} /\ choice = NoChoice /\ adapter = "responses"
  /\ \E declared \in ToolLists : Declare(declared, NoChoice)
  /\ past' = { [tools |-> tools, names |-> names, call |-> answer] : answer \in call }

-----------------------------------------------------------------------------
(* Names for the tools.                                                    *)

Free(raw, k, taken) ==
  Candidate(raw, k) \in DOMAIN taken => taken[Candidate(raw, k)] = raw

\* The digest is taken to be good enough: the second candidate is not checked.
UniqueMutantTrustsDigest(raw, taken) ==
  IF Free(raw, 0, taken) THEN Candidate(raw, 0) ELSE Candidate(raw, 1)

\* UniqueUpstreamToolName: the first candidate that is free, or that an equal raw
\* name has already.
UniqueUpstreamToolName(raw, taken) ==
  LET first == CHOOSE k \in 0..(MaxTools + 1) :
                 Free(raw, k, taken) /\ \A j \in 0..(k - 1) : ~Free(raw, j, taken)
  IN  Candidate(raw, first)

\* The other adapters call SafeUpstreamToolName and keep no map.
UpstreamName(tool) ==
  IF adapter = "responses" THEN UniqueUpstreamToolName(Raw(tool), used)
                           ELSE Candidate(Raw(tool), 0)

\* NormalizeToolsForUpstream, one tool.  An equal raw name overwrites the entry.
NormalizeTool ==
  /\ pc = "naming" /\ Len(names) < Len(tools)
  /\ LET tool == tools[Len(names) + 1]
         name == UpstreamName(tool)
     IN  IF ~IsNamed(tool)
           THEN names' = Append(names, Unnamed) /\ UNCHANGED <<used, toolNameMap>>
           ELSE /\ names' = Append(names, name)
                /\ used' = Put(used, name, Raw(tool))
                /\ toolNameMap' = Put(toolNameMap, name, tool)
  /\ UNCHANGED <<adapter, pc, tools, choice, sent, toolChoice, call, past>>

-----------------------------------------------------------------------------
(* tool_choice.  A named choice is [kind |-> "named", type, name, namespace] *)
(* and an allowed one [kind |-> "allowed", entries], each entry a text or a  *)
(* record of type, name and namespace whose empty fields do not matter.      *)

\* An entry's namespace is not looked at.
EntryMutantAnyNamespace(entry, tool, name) ==
  IF entry.form = "text"
    THEN entry.name \in {tool.name, name, Raw(tool)}
    ELSE /\ entry.type \in {"", tool.type}
         /\ entry.name \in {<<>>, tool.name, name}

AllowedEntryMatches(entry, tool, name) ==
  IF entry.form = "text"
    THEN entry.name \in {tool.name, name, Raw(tool)}
    ELSE /\ entry.type \in {"", tool.type}
         /\ entry.name \in {<<>>, tool.name, name}
         /\ entry.namespace \in {<<>>, tool.namespace}
         /\ <<>> # entry.name \o entry.namespace

\* FilterToolsForAllowedChoice, and the same of the other adapters, which know
\* the names alone.
AllowedNames ==
  IF adapter = "responses"
    THEN { u \in DOMAIN toolNameMap :
             \E entry \in choice.entries : AllowedEntryMatches(entry, toolNameMap[u], u) }
    ELSE { Candidate(entry.name, 0) : entry \in choice.entries }

\* Without a name that is allowed, all tools stay.
Allowed ==
  IF choice.kind = "allowed" /\ AllowedNames # {}
    THEN { n \in DOMAIN tools : IsNamed(tools[n]) /\ names[n] \in AllowedNames }
    ELSE DOMAIN tools

Matches(u) ==
  /\ choice.name \in {toolNameMap[u].name, u}
  /\ choice.namespace \in {<<>>, toolNameMap[u].namespace}
  /\ choice.type = toolNameMap[u].type

\* A choice by name, of a tool with that name in any namespace.
MappedMutantAnyNamespace ==
  { u \in DOMAIN toolNameMap : choice.name \in {toolNameMap[u].name, u} }

\* mappedToolNameForChoice takes the first match in Go's order of a map, and the
\* safe name if there is none; the other adapters always take the safe name.
MappedNames ==
  LET matching == { u \in DOMAIN toolNameMap : Matches(u) }
  IN  IF adapter = "responses" /\ matching # {} THEN matching
      ELSE {Candidate(choice.namespace \o choice.name, 0)}

SoleName == { u \in AllowedNames : AllowedNames = {u} }

\* MapToolChoice.  With Gemini's mode ANY one allowed name is the choice too; any
\* other list of allowed tools is sent as its mode, which names none.
ToolChoices ==
  CASE choice.kind = "named" -> { {u} : u \in MappedNames }
    [] choice.kind = "allowed" /\ adapter = "gemini" -> {{}, SoleName}
    [] OTHER -> {{}}

\* BuildUpstreamPayload, what is left of it.
Build ==
  /\ pc = "naming" /\ Len(names) = Len(tools)
  /\ sent' = Allowed
  /\ toolChoice' \in ToolChoices
  /\ pc' = "sent"
  /\ UNCHANGED <<adapter, tools, choice, nameVars, call, past>>

-----------------------------------------------------------------------------
(* The way back.                                                           *)

\* The namespace is not put back.
RestoredMutantNoNamespace(u) ==
  [tool |-> [toolNameMap[u] EXCEPT !.namespace = <<>>], upstream |-> u]

\* The name in the item is the client's own, and nothing else is kept.
RestoredMutantOwnName(u) ==
  [tool |-> toolNameMap[u], upstream |-> Candidate(Raw(toolNameMap[u]), 0)]

\* UpstreamToolCallToResponseItem: the tool the client is told of, and the private
\* _upstream_tool_name.  The other adapters tell the client the upstream name.
Restored(u) == [tool |-> toolNameMap[u], upstream |-> u]

Told(u) ==
  IF adapter = "responses" THEN Restored(u)
  ELSE [tool |-> [type |-> "function", name |-> u, namespace |-> <<>>], upstream |-> u]

\* GLM calls a tool that it was sent, by its name.
UpstreamCalls ==
  /\ pc = "sent"
  /\ \E n \in sent :
       /\ IsNamed(tools[n])
       /\ call' = { [place |-> n, item |-> Told(names[n])] }
  /\ pc' = "answered"
  /\ UNCHANGED <<adapter, tools, choice, nameVars, sent, toolChoice, past>>

Next == FirstRequest \/ SecondRequest \/ NormalizeTool \/ Build \/ UpstreamCalls

Spec == Init /\ [][Next]_vars

\* UpstreamToolNameForResponseItem: the private name, which an item that the
\* client sends back has lost.
UpstreamToolNameForResponseItem(item, private) ==
  IF private THEN item.upstream ELSE Candidate(Raw(item.tool), 0)

-----------------------------------------------------------------------------

Declared == { n \in DOMAIN tools : IsNamed(tools[n]) }

UpstreamNames ==
  {Unnamed} \cup { Candidate(Raw(tool), k) : tool \in Tools, k \in 0..(MaxTools + 1) }

\* The names are candidates, as many as there are tools when the request is sent.
TypeOK ==
  /\ tools \in Seq(Tools) /\ Len(tools) <= MaxTools
  /\ names \in Seq(UpstreamNames) /\ Len(names) <= Len(tools)
  /\ pc \in {"idle", "naming", "sent", "answered"}
  /\ pc \in {"sent", "answered"} => Len(names) = Len(tools)
  /\ sent \subseteq DOMAIN tools
  /\ DOMAIN used = DOMAIN toolNameMap

\* Two tools of a Responses request whose full names differ are never sent under
\* one upstream name, whatever their safe names and digests collide in
\* (shared_test.go, "colliding raw names produced same upstream name").
NamesAreDistinct ==
  adapter = "responses" =>
    \A m, n \in DOMAIN names :
      IsNamed(tools[m]) /\ IsNamed(tools[n]) /\ Raw(tools[m]) # Raw(tools[n])
        => names[m] # names[n]

\* README.md:259: calls are "restored to namespace / name structure".  The client
\* is told of the tool that GLM called, as it declared it, unless another tool it
\* declared has the same full name.  On the other endpoints it is told the
\* upstream name, which is the tool's own if that was safe.
CallComesBackAsItsTool ==
  \A answer \in call :
    LET called == tools[answer.place] IN
      IF adapter = "responses"
        THEN (\A n \in Declared : Raw(tools[n]) = Raw(called) => tools[n] = called)
               => answer.item.tool = called
        ELSE Candidate(Raw(called), 0) = called.name => answer.item.tool.name = called.name

IsPrefixOf(shorter, longer) ==
  Len(shorter) <= Len(longer) /\ shorter = SubSeq(longer, 1, Len(shorter))

\* A later request that still declares the same tools first, and others after
\* them, gives them the same upstream names: the calls in its history, under the
\* names kept for them, are calls of the tools they were calls of.  Without the
\* private name that holds if no other tool got the safe name of the call's tool.
ReplayNamesTheTool ==
  pc = "sent" => \A before \in past :
    LET item == before.call.item
        Stands(name) == name \in DOMAIN used /\ used[name] = Raw(item.tool)
    IN  /\ IsPrefixOf(before.tools, tools) =>
             Stands(UpstreamToolNameForResponseItem(item, TRUE))
        /\ /\ \E n \in Declared : tools[n] = item.tool
           /\ \A n \in Declared : Raw(tools[n]) # Raw(item.tool) =>
                names[n] # Candidate(Raw(item.tool), 0)
           => Stands(UpstreamToolNameForResponseItem(item, FALSE))

\* The declared tools a choice or an entry can mean, as the client sees them.
Meant(type, name, namespace) ==
  { n \in Declared : /\ type \in {"", tools[n].type}
                     /\ name \in {<<>>, tools[n].name}
                     /\ namespace \in {<<>>, tools[n].namespace} }

\* Some other tool has that name upstream, or the full name of a tool that is
\* meant, or, on the endpoints that do not tell them apart, the same safe name.
Shadowed(meant, name, namespace) ==
  \E m \in Declared \ meant :
    \/ names[m] = name /\ namespace \in {<<>>, tools[m].namespace}
    \/ \E n \in meant : names[m] = names[n]
    \/ adapter # "responses" /\ names[m] = Candidate(name, 0)

\* A tool_choice that names a declared tool reaches GLM as the name of a tool that
\* the client can have meant, whatever names were changed (mappedToolNameForChoice,
\* in Go's random order); unless it also names another tool upstream.
ChoiceIsMeant ==
  pc = "sent" /\ choice.kind = "named" =>
    LET meant == Meant(choice.type, choice.name, choice.namespace)
    IN  meant # {} /\ ~Shadowed(meant, choice.name, choice.namespace)
          => \E n \in meant : toolChoice = {names[n]}

MeantBy(entry) ==
  IF entry.form = "text" THEN { n \in Declared : entry.name \in {tools[n].name, Raw(tools[n])} }
                         ELSE Meant(entry.type, entry.name, entry.namespace)

\* With a list of allowed tools, GLM is sent these and no others, as long as the
\* list names a declared tool at all; unless an entry also names another tool
\* upstream (FilterToolsForAllowedChoice, filterAllowedTools, filterTools).
OnlyAllowedAreSent ==
  pc = "sent" /\ choice.kind = "allowed" =>
    LET meant == UNION { MeantBy(entry) : entry \in choice.entries }
        shadowed == \E entry \in choice.entries :
          Shadowed(meant, entry.name, IF entry.form = "text" THEN <<>> ELSE entry.namespace)
    IN  meant # {} /\ ~shadowed => sent = meant
=============================================================================
