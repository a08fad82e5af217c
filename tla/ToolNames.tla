------------------------------ MODULE ToolNames ------------------------------
(***************************************************************************)
(* The tools of a Responses client under the names of the Messages API     *)
(* (core/openai_responses/tools.py): a tool of a namespace gets one joined *)
(* name, the calls that come back are given their own name, namespace and  *)
(* kind again, and the client's next request replays them as history.      *)
(*                                                                         *)
(* A name is a sequence of parts, joined by "__"; the part "a." holds a    *)
(* character a wire name may not have and is "a" without it.  A joined     *)
(* name that is too long keeps a prefix and a digest of the whole: names   *)
(* that differ still differ, so lengths are left out, and so are the       *)
(* descriptions and schemas.                                               *)
(***************************************************************************)
EXTENDS Naturals, Sequences

CONSTANTS MaxTools     \* declared tools

VARIABLES declared,    \* the tools of the request, namespaces unfolded
          chosen,      \* its tool_choice
          offered,     \* what the provider is given: names and kinds of tools
          forced,      \* and the choice
          called,      \* the call of the answer: its wire name and arguments
          returned,    \* what the client gets for it
          replayed,    \* the same call in the history of the next request
          toolStage

toolNameVars == <<declared, chosen, offered, forced, called, returned, replayed, toolStage>>

ToolParts == {"a", "a.", "b"}
ToolNameSet == {<<p>> : p \in ToolParts} \union {<<"a", "b">>}
NoSpace == <<>>
Spaces == {NoSpace, <<"a">>, <<"a.">>}
Kinds == {"function", "custom", "passive", "malformed"}

Tool(kind, space, name) == [kind |-> kind, space |-> space, name |-> name]
NoNamedTool == Tool("none", NoSpace, NoSpace)

CleanPart(p) == IF p = "a." THEN "a" ELSE p
CleanName(n) == [k \in DOMAIN n |-> CleanPart(n[k])]

(* responses_tool_name_to_anthropic_name                                   *)
WireName(space, name) ==
    IF space = NoSpace THEN name ELSE CleanName(space) \o CleanName(name)

(* The texts of a custom tool; "wrapped" is itself a JSON object with an   *)
(* input.  The arguments of a call are such a text or an object.           *)
ArgumentTexts == {"empty", "plain", "wrapped"}
RawArguments(t) == [form |-> "raw", text |-> t]
ObjectArguments(t) == [form |-> "object", text |-> t]
CallArguments ==
    {RawArguments(t) : t \in ArgumentTexts} \union {ObjectArguments(t) : t \in ArgumentTexts}
    \union {[form |-> "foreign", text |-> "foreign"], [form |-> "blank", text |-> "empty"]}

(* custom_tool_input_text_from_arguments: a text that is an object yields  *)
(* its input, an object without one is shown as it is.                     *)
InputText(a) ==
    IF a.form = "raw" /\ a.text = "wrapped" THEN "plain" ELSE a.text

(* A fault, for the checks only: the text is replayed as the arguments.    *)
UnwrappedInput(t) == RawArguments(t)

(* custom_tool_input_to_anthropic                                          *)
WrappedInput(t) == ObjectArguments(t)

NoCallYet == [wire |-> NoSpace, arguments |-> RawArguments("empty")]

ToolNamesInit ==
    /\ declared = <<>> /\ chosen = [want |-> "auto", tool |-> NoNamedTool]
    /\ offered = <<>> /\ forced = [want |-> "none", wire |-> NoSpace]
    /\ called = NoCallYet /\ returned = [tool |-> NoNamedTool, text |-> "empty"]
    /\ replayed = NoCallYet /\ toolStage = "declaring"

(* The client declares its tools and may force one.                        *)
DeclareTool ==
    /\ toolStage = "declaring" /\ Len(declared) < MaxTools
    /\ \E kind \in Kinds, s \in Spaces, n \in ToolNameSet :
          /\ kind \in {"passive", "malformed"} => n = <<"a">>
          /\ declared' = Append(declared, Tool(kind, s, n))
    /\ UNCHANGED <<chosen, offered, forced, called, returned, replayed, toolStage>>

ChoiceWants == {"auto", "none", "required", "named", "verbatim", "malformed"}

ChooseTool ==
    /\ toolStage = "declaring" /\ toolStage' = "declared"
    /\ \E want \in ChoiceWants, k \in 0 .. Len(declared) :
          /\ (want = "named") = (k # 0)
          /\ chosen' = [want |-> want, tool |-> IF k = 0 THEN NoNamedTool ELSE declared[k]]
    /\ UNCHANGED <<declared, offered, forced, called, returned, replayed>>

(* A passive tool of the client is dropped, within a namespace it is none  *)
(* the conversion knows.                                                   *)
Unsupported(t) == t.kind = "malformed" \/ (t.kind = "passive" /\ t.space # NoSpace)

Usable == SelectSeq(declared, LAMBDA t : t.kind \in {"function", "custom"})

(* convert_tool_choice                                                     *)
ForcedChoice ==
    CASE chosen.want \in {"auto", "none"} -> [want |-> "none", wire |-> NoSpace]
      [] chosen.want = "required" -> [want |-> "any", wire |-> NoSpace]
      [] chosen.want = "verbatim" -> [want |-> "verbatim", wire |-> NoSpace]
      [] chosen.want \in {"named", "malformed"} ->
             [want |-> "tool", wire |-> WireName(chosen.tool.space, chosen.tool.name)]

(* convert_tools: anything unsupported refuses the request.                *)
ConvertTools ==
    /\ toolStage = "declared"
    /\ IF \/ \E k \in DOMAIN declared : Unsupported(declared[k])
          \/ chosen.want = "malformed"
       THEN toolStage' = "refused" /\ UNCHANGED <<offered, forced>>
       ELSE /\ toolStage' = "converted" /\ forced' = ForcedChoice
            /\ offered' = IF chosen.want = "none" THEN <<>>
                          ELSE [k \in DOMAIN Usable |->
                                  WireName(Usable[k].space, Usable[k].name)]
    /\ UNCHANGED <<declared, chosen, called, returned, replayed>>

(* The model calls a tool it was offered, or one that it made up.          *)
CallTool ==
    /\ toolStage = "converted" /\ toolStage' = "called"
    /\ \E w \in {offered[k] : k \in DOMAIN offered} \union {<<"b", "b">>}, a \in CallArguments :
          called' = [wire |-> w, arguments |-> a]
    /\ UNCHANGED <<declared, chosen, offered, forced, returned, replayed>>

(* A fault, for the checks only: the last part of the name decides.        *)
SameLastPart(t, w) ==
    t.kind \in {"function", "custom"} /\ t.name[Len(t.name)] = w[Len(w)]

IsNamed(t, w) == t.kind \in {"function", "custom"} /\ WireName(t.space, t.name) = w

(* responses_tool_identity_from_anthropic_name: the first declared tool    *)
(* with that name; a name nobody declared is a function of its own.        *)
Identity(w) ==
    IF \E k \in DOMAIN declared : IsNamed(declared[k], w)
    THEN declared[CHOOSE k \in DOMAIN declared :
                    IsNamed(declared[k], w) /\ \A j \in 1 .. k - 1 : ~IsNamed(declared[j], w)]
    ELSE Tool("function", NoSpace, w)

(* The function call of a malformed text ends as a failure; its text and   *)
(* that of a function's object stay what they are.                         *)
ReturnCall ==
    /\ toolStage = "called"
    /\ LET t == Identity(called.wire) IN
       /\ returned' = [tool |-> t, text |->
             IF t.kind = "custom" THEN InputText(called.arguments) ELSE called.arguments.text]
       /\ toolStage' = IF t.kind = "function" /\ called.arguments = RawArguments("plain")
                       THEN "refused" ELSE "returned"
    /\ UNCHANGED <<declared, chosen, offered, forced, called, replayed>>

(* The next request replays the call: its name is built anew.              *)
ReplayCall ==
    /\ toolStage = "returned" /\ toolStage' = "replayed"
    /\ replayed' = [wire |-> WireName(returned.tool.space, returned.tool.name),
                    arguments |-> IF returned.tool.kind = "custom"
                                  THEN WrappedInput(returned.text) ELSE called.arguments]
    /\ UNCHANGED <<declared, chosen, offered, forced, called, returned>>

ToolNamesNext ==
    \/ DeclareTool \/ ChooseTool \/ ConvertTools \/ CallTool \/ ReturnCall \/ ReplayCall

ToolNamesSpec == ToolNamesInit /\ [][ToolNamesNext]_toolNameVars

-----------------------------------------------------------------------------
ToolNamesTypeOK ==
    /\ declared \in Seq([kind : Kinds, space : Spaces, name : ToolNameSet])
    /\ Len(declared) <= MaxTools
    /\ chosen.want \in ChoiceWants
    /\ forced.want \in {"none", "any", "tool", "verbatim"}
    /\ called.arguments \in CallArguments
    /\ replayed.arguments.form \in {"raw", "object", "foreign", "blank"}
    /\ returned.tool.kind \in {"none", "function", "custom"}
    /\ toolStage \in {"declaring", "declared", "converted", "called", "returned",
                      "replayed", "refused"}

(* A call of a tool that shares its wire name with no other goes back to   *)
(* the client under the name, the namespace and the kind it declared.      *)
CallsComeHome ==
    toolStage \in {"returned", "replayed"} =>
        \A k \in DOMAIN Usable :
            LET t == Usable[k] IN
            /\ WireName(t.space, t.name) = called.wire
            /\ \A j \in DOMAIN Usable \ {k} :
                  WireName(Usable[j].space, Usable[j].name) # called.wire
            => returned.tool = t

(* The history of the next request names the tool as the tool list does,   *)
(* whatever names collide, and its input reads as what the client got.     *)
HistoryAgrees ==
    toolStage = "replayed" =>
        /\ replayed.wire = called.wire
        /\ returned.tool.kind = "custom" => InputText(replayed.arguments) = returned.text

(* A tool that the client forces is one the provider was offered.          *)
ChoiceIsOffered ==
    toolStage = "converted" /\ forced.want = "tool" /\ chosen.tool.kind # "passive" =>
        \E k \in DOMAIN offered : offered[k] = forced.wire

ToolNamesKept == CallsComeHome /\ HistoryAgrees /\ ChoiceIsOffered
=============================================================================
