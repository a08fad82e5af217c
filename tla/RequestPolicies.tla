---------------------------- MODULE RequestPolicies ----------------------------
(***************************************************************************)
(* What the adapters do to a converted history before and after            *)
(* RequestConversion: DeepSeek (providers/deepseek/compat.py) removes what *)
(* its models cannot see and switches thinking off when an old tool call   *)
(* has no thinking to replay; Mistral (mistral/reasoning.py) puts          *)
(* reasoning into the content; OpenRouter (open_router/client.py) replays  *)
(* opaque reasoning details; Google (google_openai) restores the thought   *)
(* signatures of tool calls from a cache that may have lost them.          *)
(***************************************************************************)
EXTENDS RequestConversion

LOCAL INSTANCE SequencesExt

CONSTANTS MaxCached,       \* _MAX_TOOL_CALL_EXTRA_CONTENT_CACHE
          Stranger         \* the id of a tool call of another conversation

ASSUME PolicyAssumption == MaxCached \in Nat \ {0}

VARIABLES adapting,        \* the provider
          thinks,          \* the effective reasoning policy is not off
          prepared,        \* DeepSeek's own preparation is over
          original,        \* the messages as the client sent them
          signatures,      \* ids in _tool_call_extra_content_by_id, oldest first
          body_messages,   \* the messages of the body, with what was added
          reshaped         \* the body is complete

ownVars == <<adapting, thinks, prepared, original, signatures, body_messages, reshaped>>
policyVars == <<conversionVars, ownVars>>

Adapting == {"deepseek", "mistral", "open_router", "google"}

PolicyInit ==
    /\ ConversionInit /\ client = "messages" /\ mode = "field"
    /\ adapting \in Adapting /\ thinks \in BOOLEAN /\ prepared = FALSE /\ original = <<>>
    /\ signatures = <<>> /\ body_messages = <<>> /\ reshaped = FALSE

PolicyTypeOK ==
    /\ ConversionTypeOK /\ adapting \in Adapting
    /\ {thinks, prepared, reshaped} \subseteq BOOLEAN
    /\ Len(signatures) <= MaxCached /\ IsInjective(signatures)
    /\ Len(body_messages) \in {0, Len(request_messages)}

-----------------------------------------------------------------------------
(* The client speaks.                                                       *)
HistoryShapes(role) ==
    CASE role = "user" ->
           {<<"text">>, <<"tool_result">>, <<"tool_result", "text">>}
           \union IF adapting = "google" THEN {} ELSE {<<"image">>, <<"image", "text">>}
      [] role = "assistant" ->
           {<<"text">>, <<"thinking", "text">>, <<"thinking", "tool_use">>, <<"tool_use">>,
            <<"tool_use", "thinking", "text">>, <<"server">>}
           \union IF adapting = "open_router"
                  THEN {<<"redacted", "text">>, <<"redacted", "tool_use">>, <<"redacted">>} ELSE {}

BlockTypes(m) == {m.blocks[k].type : k \in 1..Len(m.blocks)}
IdsIn(ms, type) ==
    UNION {{ms[k].blocks[j].id : j \in {i \in 1..Len(ms[k].blocks) : ms[k].blocks[i].type = type}}
             : k \in 1..Len(ms)}

(* _record_tool_call_extra_content: an id that is there keeps its place.    *)
Recorded(ids, id) ==
    IF \E k \in 1..Len(ids) : ids[k] = id THEN ids
    ELSE Append(IF Len(ids) >= MaxCached THEN Tail(ids) ELSE ids, id)

SayMessage ==
    /\ Reading("messages") /\ Keep
    /\ \E role \in {"user", "assistant"}, id \in CallIds, top \in BOOLEAN :
       \E shape \in HistoryShapes(role) :
          LET calls == \E k \in 1..Len(shape) : shape[k] = "tool_use"
              answers == \E k \in 1..Len(shape) : shape[k] = "tool_result"
              blocks == [k \in 1..Len(shape) |->
                            BlockOf(shape[k], IF shape[k] \in {"tool_use", "tool_result"}
                                              THEN id ELSE NoCall, k)]
              reasoning == IF top THEN <<<<Len(said) + 1, 9>>>> ELSE <<>>
          IN  /\ calls => id \notin IdsIn(messages, "tool_use")
              /\ answers => id \in IdsIn(messages, "tool_use") \ IdsIn(messages, "tool_result")
              /\ ~calls /\ ~answers => id = CHOOSE i \in CallIds : TRUE
              /\ top => shape = <<"tool_use">>
              /\ Says(Item(role, NoCall))
              /\ messages' = Append(messages, Message(role, "blocks", blocks, reasoning))
              /\ \/ calls /\ adapting = "google" /\ signatures' = Recorded(signatures, id)
                 \/ UNCHANGED signatures
    /\ UNCHANGED <<thought, quarantined, adapting, thinks, prepared, original, body_messages,
                   reshaped>>

(* A tool call of another conversation is recorded.                         *)
OtherCall ==
    /\ adapting = "google" /\ ~reshaped /\ signatures' = Recorded(signatures, Stranger)
    /\ UNCHANGED <<conversionVars, adapting, thinks, prepared, original, body_messages, reshaped>>

HistoryComplete ==
    /\ EndHistory /\ original' = messages
    /\ UNCHANGED <<adapting, thinks, prepared, signatures, body_messages, reshaped>>

-----------------------------------------------------------------------------
(* DeepSeek, before the conversion.                                         *)
Attachments == {"image", "document"}
OmittedAttachment == TextBlock(<<0, 1>>)

(* A fault, for the checks only: nothing stands in for what was removed.    *)
DropsAttachments(m) ==
    [m EXCEPT !.blocks = SelectSeq(m.blocks, LAMBDA b : b.type \notin Attachments)]

(* _strip_unsupported_attachment_blocks                                     *)
WithoutAttachments(m) ==
    LET kept == SelectSeq(m.blocks, LAMBDA b : b.type \notin Attachments)
    IN  [m EXCEPT !.blocks = IF kept = <<>> /\ m.blocks # <<>> THEN <<OmittedAttachment>> ELSE kept]

(* _validate_deepseek_request_dict                                          *)
DeepSeekRefuses(ms) == \E k \in 1..Len(ms) : "server" \in BlockTypes(ms[k])

(* _has_tool_history                                                        *)
HasToolHistory(ms) ==
    \E k \in 1..Len(ms) : \/ ms[k].role = "assistant" /\ "tool_use" \in BlockTypes(ms[k])
                          \/ ms[k].role = "user" /\ "tool_result" \in BlockTypes(ms[k])

(* _has_replayable_thinking_before_tool_use                                 *)
Replayable(m) ==
    m.reasoning # <<>> \/ \E k \in 1..(FirstCall(m.blocks) - 1) : m.blocks[k].type = "thinking"

AssistantCalls(ms) == {k \in 1..Len(ms) : ms[k].role = "assistant" /\ HasCall(ms[k])}

(* _all_tool_calls_have_replayable_thinking                                 *)
AllReplayable(ms) == AssistantCalls(ms) # {} /\ \A k \in AssistantCalls(ms) : Replayable(ms[k])

(* sanitize_deepseek_messages_for_openai                                    *)
Sanitized(m) ==
    IF m.role # "assistant" THEN m
    ELSE [m EXCEPT !.reasoning = IF HasCall(m) THEN @ ELSE <<>>,
                   !.blocks = SelectSeq(@, LAMBDA b :
                                 /\ b.type # "redacted"
                                 /\ b.type = "thinking" => HasCall(m))]

(* build_deepseek_request_body, up to the conversion                        *)
PrepareHistory ==
    /\ phase = "converting" /\ ~prepared /\ prepared' = TRUE
    /\ LET seen == [k \in 1..Len(messages) |-> WithoutAttachments(messages[k])]
       IN  CASE adapting # "deepseek" -> UNCHANGED <<messages, phase, thinks>>
             [] adapting = "deepseek" /\ DeepSeekRefuses(seen) ->
                  phase' = "refused" /\ UNCHANGED <<messages, thinks>>
             [] adapting = "deepseek" /\ ~DeepSeekRefuses(seen) ->
                  /\ thinks' = (thinks /\ (HasToolHistory(seen) => AllReplayable(seen)))
                  /\ messages' = [k \in 1..Len(seen) |-> Sanitized(seen[k])]
                  /\ UNCHANGED phase
    /\ UNCHANGED <<client, mode, said, thought, quarantined, ledgerVars, adapting, original,
                   signatures, body_messages, reshaped>>

Convert == prepared /\ (ConvertMessage \/ FinishHistory) /\ UNCHANGED ownVars

-----------------------------------------------------------------------------
(* After the conversion: a message of the body has parts in its content.    *)
Part(type, token) == [type |-> type, token |-> token]
PartsOf(type, tokens) == [k \in 1..Len(tokens) |-> Part(type, tokens[k])]

BodyMessage(c) ==
    [chat |-> c, parts |-> PartsOf("text", c.tokens), details |-> <<>>, signed |-> "no"]

Bodies == [k \in 1..Len(request_messages) |-> BodyMessage(request_messages[k])]

(* apply_mistral_reasoning_request_shape                                    *)
MistralShaped(b) ==
    IF b.chat.role # "assistant" \/ b.chat.reasoning = <<>> THEN b
    ELSE [b EXCEPT !.chat.reasoning = <<>>,
                   !.parts = PartsOf("thinking", b.chat.reasoning) \o @]

(* _strip_mistral_thinking_content, for the fallback without reasoning      *)
ThinkingStripped(b) == [b EXCEPT !.parts = SelectSeq(@, LAMBDA p : p.type # "thinking"),
                                 !.chat.reasoning = <<>>]

(* _assistant_reasoning_details: one entry for a message that has any.      *)
DetailsOf(m) == TokensOf(m.blocks, {"redacted"})
AllDetails ==
    LET with == SelectSeq(messages, LAMBDA m : m.role = "assistant" /\ DetailsOf(m) # <<>>)
    IN  [k \in 1..Len(with) |-> DetailsOf(with[k])]

(* A fault, for the checks only: the place is not moved on.                 *)
AddDetailsAgain(s, details) ==
    LET free == {k \in s.cursor..Len(s.bodies) :
                   s.bodies[k].chat.role = "assistant" /\ s.bodies[k].chat # Boundary}
        k == CHOOSE i \in free : \A j \in free : i <= j
    IN  IF free = {} THEN s ELSE [s EXCEPT !.bodies[k].details = details]

(* One round of _apply_openrouter_reasoning_details_replay                  *)
AddDetails(s, details) ==
    LET free == {k \in s.cursor..Len(s.bodies) :
                   s.bodies[k].chat.role = "assistant" /\ s.bodies[k].chat # Boundary}
        k == CHOOSE i \in free : \A j \in free : i <= j
    IN  IF free = {} THEN s
        ELSE [bodies |-> [s.bodies EXCEPT ![k].details = details], cursor |-> k + 1]

OpenRouterShaped ==
    FoldLeft(AddDetails, [bodies |-> Bodies, cursor |-> 1], AllDetails).bodies

(* apply_google_thought_signatures: what is cached, and a stand-in for the  *)
(* first call of each message after the user's last words.                  *)
LastWords == {k \in 1..Len(request_messages) :
                request_messages[k].role = "user" /\ request_messages[k].tokens # <<>>}

IsCurrent(k) == \A j \in LastWords : j < k

(* A fault, for the checks only: only cached signatures are restored.       *)
CachedOnly(k) == FALSE

NeedsStandIn(k) == IsCurrent(k)

GoogleShaped ==
    [k \in 1..Len(Bodies) |->
       LET calls == Bodies[k].chat.calls
       IN  [Bodies[k] EXCEPT !.signed =
              CASE calls = <<>> -> "no"
                [] calls # <<>> /\ (\E j \in 1..Len(signatures) : signatures[j] = calls[1]) -> "own"
                [] OTHER -> IF NeedsStandIn(k) THEN "stand-in" ELSE "no"]]

ReshapeBody ==
    /\ phase = "done" /\ ~reshaped /\ reshaped' = TRUE
    /\ body_messages' = CASE adapting = "deepseek"    -> Bodies
                          [] adapting = "mistral"     ->
                                [k \in 1..Len(Bodies) |-> MistralShaped(Bodies[k])]
                          [] adapting = "open_router" -> OpenRouterShaped
                          [] adapting = "google"      -> GoogleShaped
    /\ UNCHANGED <<conversionVars, adapting, thinks, prepared, original, signatures>>

(* The upstream refused reasoning: clone_body_without_mistral_reasoning     *)
StripReasoning ==
    /\ adapting = "mistral" /\ reshaped
    /\ body_messages' = [k \in 1..Len(body_messages) |-> ThinkingStripped(body_messages[k])]
    /\ body_messages' # body_messages
    /\ UNCHANGED <<conversionVars, adapting, thinks, prepared, original, signatures, reshaped>>

PolicyNext ==
    \/ SayMessage \/ OtherCall \/ HistoryComplete \/ PrepareHistory \/ Convert \/ ReshapeBody
    \/ StripReasoning

PolicySpec == PolicyInit /\ [][PolicyNext]_policyVars

-----------------------------------------------------------------------------
(* DeepSeek refuses a thinking request with a tool call that has lost its   *)
(* thinking, and cannot see attachments: with thinking on, every message    *)
(* with calls replays reasoning, also through the conversion; no image is   *)
(* sent, and a message that was only images still says something.           *)
ThinkingReplayed ==
    adapting = "deepseek" /\ reshaped =>
       /\ thinks => \A k \in 1..Len(body_messages) :
                       body_messages[k].chat.calls # <<>> => body_messages[k].chat.reasoning # <<>>
       /\ \A k \in 1..Len(messages) : original[k].role = "user" => messages[k].blocks # <<>>
       /\ \A k \in 1..Len(original) : \A j \in 1..Len(original[k].blocks) :
             original[k].blocks[j].type = "image" => Places(original[k].blocks[j].token) = {}

(* Mistral's content holds the reasoning of a message first and its text    *)
(* whole, and the fallback leaves exactly the text.                         *)
ContentWhole ==
    adapting = "mistral" /\ reshaped =>
       \A k \in 1..Len(body_messages) :
          LET b == body_messages[k]
              c == request_messages[k]
              texts == SelectSeq(b.parts, LAMBDA p : p.type = "text")
          IN  /\ texts = PartsOf("text", c.tokens) /\ b.chat.reasoning = <<>>
              /\ b.parts \in {texts, PartsOf("thinking", c.reasoning) \o texts}

(* OpenRouter gets every opaque detail back, once and in order.             *)
DetailsReplayed ==
    adapting = "open_router" /\ reshaped =>
       FlattenSeq([k \in 1..Len(body_messages) |-> body_messages[k].details])
          = FlattenSeq(AllDetails)

(* Gemini refuses the current turn when the first call of a message has no  *)
(* signature, whatever the cache has forgotten.  The turn is the client's:  *)
(* the conversion may not move a call across the user's last words.         *)
SaidAfterWords(id) ==
    \E k \in 1..Len(original) :
       /\ original[k].role = "assistant" /\ id \in IdsIn(<<original[k]>>, "tool_use")
       /\ \A j \in 1..Len(original) :
             original[j].role = "user" /\ "text" \in BlockTypes(original[j]) => j < k

TurnSigned ==
    adapting = "google" /\ reshaped =>
       \A k \in 1..Len(body_messages) :
          body_messages[k].chat.calls # <<>> /\ SaidAfterWords(body_messages[k].chat.calls[1])
             => body_messages[k].signed # "no"

PoliciesFaithful == ThinkingReplayed /\ ContentWhole /\ DetailsReplayed /\ TurnSigned

(* Opaque details are replayed with the message they belong to: an          *)
(* assistant message the client sent without details gets none.             *)
DetailsInPlace ==
    adapting = "open_router" /\ reshaped =>
       \A k \in 1..Len(body_messages) : body_messages[k].details # <<>> =>
          \A t \in TokensIn(body_messages[k].chat) :
             t[1] \in 1..Len(original) => DetailsOf(original[t[1]]) # <<>>
=============================================================================
