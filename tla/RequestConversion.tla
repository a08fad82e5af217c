--------------------------- MODULE RequestConversion ---------------------------
(***************************************************************************)
(* The conversion of a client's history (core/openai_responses/input.py,   *)
(* reasoning.py, and core/anthropic/conversion.py): the items of a         *)
(* Responses request become Anthropic messages, and Anthropic messages     *)
(* become an OpenAI chat, in which the results of a tool turn must follow  *)
(* their calls at once.  A ledger holds back what comes between a call and *)
(* its result.  A text, an image or a thought is a token that names where  *)
(* the client said it.                                                     *)
(***************************************************************************)
EXTENDS Naturals, Sequences, FiniteSets

LOCAL INSTANCE SequencesExt

CONSTANTS CallIds,         \* ids of tool calls
          Modes,           \* reasoning replay modes of the provider
          MaxItems,        \* bound: items of a Responses client
          MaxMessages,     \* bound: messages of a Messages client
          NoCall

VARIABLES client,          \* "responses" or "messages"
          mode,            \* the reasoning replay mode
          phase,           \* "reading", "converting", "done" or "refused"
          said,            \* what the client said, in order
          messages,        \* the Anthropic messages
          thought,         \* pending_reasoning
          quarantined,     \* quarantined_function_call_ids
          at,              \* the next message to convert
          segments, toolResults, output,  \* the ledger
          request_messages  \* the messages of the provider's request

conversionVars == <<client, mode, phase, said, messages, thought, quarantined, at, segments,
                    toolResults, output, request_messages>>

ConversionTypeOK ==
    /\ client \in {"responses", "messages"} /\ mode \in Modes
    /\ phase \in {"reading", "converting", "done", "refused"}
    /\ Len(said) <= MaxItems + MaxMessages /\ at \in 1..(Len(messages) + 1)
    /\ quarantined \subseteq CallIds
    /\ \A k \in 1..Len(segments) : segments[k].kind \in {"plain", "tool"}
    /\ DOMAIN toolResults \subseteq CallIds

ConversionInit ==
    /\ client \in {"responses", "messages"} /\ mode \in Modes
    /\ phase = "reading" /\ said = <<>> /\ messages = <<>> /\ thought = <<>>
    /\ quarantined = {} /\ at = 1
    /\ segments = <<>> /\ toolResults = <<>> /\ output = <<>> /\ request_messages = <<>>

ledgerVars == <<at, segments, toolResults, output, request_messages>>

-----------------------------------------------------------------------------
(* Anthropic blocks and messages.                                           *)
ContentBlock(type, id, token) == [type |-> type, id |-> id, token |-> token]

Message(role, form, blocks, reasoning) ==
    [role |-> role, form |-> form, blocks |-> blocks, reasoning |-> reasoning]

TextBlock(token) == ContentBlock("text", NoCall, token)
CallBlock(id) == ContentBlock("tool_use", id, NoCall)
ResultBlock(id) == ContentBlock("tool_result", id, NoCall)

AllOf(m, type) == m.blocks # <<>> /\ \A k \in 1..Len(m.blocks) : m.blocks[k].type = type

(* _last_assistant_tool_use_message, _last_user_tool_result_message         *)
LastIs(ms, role, type) ==
    ms # <<>> /\ ms[Len(ms)].role = role /\ ms[Len(ms)].form = "blocks" /\ AllOf(ms[Len(ms)], type)

(* _append_pending_reasoning                                                *)
WithThought(ms) ==
    IF thought = <<>> THEN ms ELSE Append(ms, Message("assistant", "text", <<>>, thought))

AddedTo(ms, block, reasoning) ==
    [ms EXCEPT ![Len(ms)].blocks = Append(@, block), ![Len(ms)].reasoning = @ \o reasoning]

(* _append_tool_use_message                                                 *)
WithCall(ms, id) ==
    IF LastIs(ms, "assistant", "tool_use") THEN AddedTo(ms, CallBlock(id), thought)
    ELSE Append(ms, Message("assistant", "blocks", <<CallBlock(id)>>, thought))

(* _append_pending_reasoning_before_tool_output                             *)
WithThoughtBeforeResult(ms) ==
    IF thought # <<>> /\ LastIs(ms, "assistant", "tool_use")
    THEN [ms EXCEPT ![Len(ms)].reasoning = @ \o thought]
    ELSE WithThought(ms)

(* _append_tool_result_message                                              *)
WithResult(ms, id) ==
    IF LastIs(ms, "user", "tool_result") THEN AddedTo(ms, ResultBlock(id), <<>>)
    ELSE Append(ms, Message("user", "blocks", <<ResultBlock(id)>>, <<>>))

-----------------------------------------------------------------------------
(* A Responses item: ids of calls are fresh, as their providers make them.  *)
Says(item) == said' = Append(said, item)
HereToken == <<Len(said) + 1, 1>>

CalledIds == {said[k].id : k \in {j \in 1..Len(said) : said[j].what \in {"call", "broken"}}}
AnsweredIds == {said[k].id : k \in {j \in 1..Len(said) : said[j].what = "output"}}

Item(what, id) == [what |-> what, id |-> id]

Keep == UNCHANGED <<client, mode, phase, ledgerVars>>

MaxSaid == [responses |-> MaxItems, messages |-> MaxMessages]

Reading(who) == phase = "reading" /\ client = who /\ Len(said) < MaxSaid[who]

MessageItem ==
    /\ Reading("responses") /\ Keep
    /\ \E role \in {"user", "assistant", "system"} :
          LET text == <<TextBlock(HereToken)>>
          IN  /\ Says(Item(role, NoCall))
              /\ messages' =
                    CASE role = "assistant" ->
                           Append(messages, Message(role, "text", text, thought))
                      [] role = "user" ->
                           Append(WithThought(messages), Message(role, "text", text, <<>>))
                      [] OTHER -> WithThought(messages)
    /\ thought' = <<>> /\ UNCHANGED quarantined

ReasoningItem ==
    /\ Reading("responses") /\ Keep
    /\ Says(Item("reasoning", NoCall))
    /\ thought' = Append(thought, HereToken)
    /\ UNCHANGED <<messages, quarantined>>

(* A function call, or one whose arguments are no JSON object.              *)
CallItem ==
    /\ Reading("responses") /\ Keep
    /\ \E id \in CallIds \ CalledIds, broken \in BOOLEAN :
          IF broken
          THEN /\ Says(Item("broken", id)) /\ quarantined' = quarantined \union {id}
               /\ UNCHANGED <<messages, thought>>
          ELSE /\ Says(Item("call", id)) /\ messages' = WithCall(messages, id) /\ thought' = <<>>
               /\ UNCHANGED quarantined

(* A fault, for the checks only: the output of a broken call is kept.       *)
NeverQuarantined(id) == FALSE

Quarantined(id) == id \in quarantined

OutputItem ==
    /\ Reading("responses") /\ Keep
    /\ \E id \in CalledIds \ AnsweredIds :
          /\ Says(Item("output", id))
          /\ IF Quarantined(id) THEN UNCHANGED <<messages, thought>>
             ELSE /\ messages' = WithResult(WithThoughtBeforeResult(messages), id)
                  /\ thought' = <<>>
    /\ UNCHANGED quarantined

(* A message of the Messages API, with blocks in any order.                 *)
BlockOf(type, id, k) ==
    ContentBlock(type, id, IF type \in {"tool_use", "tool_result"} THEN NoCall
                           ELSE <<Len(said) + 1, k>>)

AssistantShapes ==
    {<<"text">>, <<"thinking", "text">>, <<"tool_use">>, <<"text", "tool_use">>,
     <<"thinking", "tool_use", "text">>, <<"tool_use", "text", "tool_use">>, <<"server">>}

UserShapes ==
    {<<"text">>, <<"image", "text">>, <<"tool_result">>, <<"tool_result", "text">>,
     <<"text", "tool_result">>, <<"tool_result", "tool_result">>}

ShapesOf(role) == IF role = "user" THEN UserShapes ELSE AssistantShapes

ClientMessage ==
    /\ Reading("messages") /\ Keep
    /\ \/ \E role \in {"user", "assistant"} : \E shape \in ShapesOf(role) :
          \E ids \in [1..Len(shape) -> CallIds] :
            LET called == {k \in 1..Len(shape) : shape[k] \in {"tool_use", "tool_result"}}
                blocks == [k \in 1..Len(shape) |->
                              BlockOf(shape[k], IF k \in called THEN ids[k] ELSE NoCall, k)]
            IN  /\ \A k, l \in called : k # l => ids[k] # ids[l]
                /\ Says(Item(role, NoCall))
                /\ messages' = Append(messages, Message(role, "blocks", blocks, <<>>))
       \/ \E role \in {"user", "assistant", "system"} :
            /\ Says(Item(role, NoCall))
            /\ messages' = Append(messages,
                               Message(role, "text", <<TextBlock(HereToken)>>, <<>>))
    /\ UNCHANGED <<thought, quarantined>>

(* The client's history is complete; one without a message is refused.      *)
EndHistory ==
    /\ phase = "reading"
    /\ messages' = WithThought(messages) /\ thought' = <<>>
    /\ phase' = IF messages' = <<>> THEN "refused" ELSE "converting"
    /\ UNCHANGED <<client, mode, said, quarantined, ledgerVars>>

-----------------------------------------------------------------------------
(* Messages of the OpenAI chat.                                             *)
Chat(role, tokens, reasoning) ==
    [role |-> role, tokens |-> tokens, calls |-> <<>>, answers |-> NoCall,
     reasoning |-> reasoning]

ToolMessage(id) == [Chat("tool", <<>>, <<>>) EXCEPT !.answers = id]
Boundary == Chat("assistant", <<<<0, 0>>>>, <<>>)

TokensOf(blocks, types) ==
    LET those == SelectSeq(blocks, LAMBDA b : b.type \in types)
    IN  [k \in 1..Len(those) |-> those[k].token]

(* _convert_assistant_message                                               *)
AssistantChat(blocks, reasoning) ==
    LET thinking == TokensOf(blocks, {"thinking"})
    IN  Chat("assistant",
             TokensOf(blocks, {"text"} \union IF mode = "think_tags" THEN {"thinking"} ELSE {}),
             IF mode # "field" THEN <<>> ELSE IF reasoning # <<>> THEN reasoning ELSE thinking)

(* A string of the assistant: think tags carry its reasoning.               *)
AssistantText(m) ==
    CASE mode = "field"      -> Chat("assistant", TokensOf(m.blocks, {"text"}), m.reasoning)
      [] mode = "think_tags" -> Chat("assistant", m.reasoning \o TokensOf(m.blocks, {"text"}), <<>>)
      [] OTHER               -> Chat("assistant", TokensOf(m.blocks, {"text"}), <<>>)

FirstCall(blocks) ==
    CHOOSE k \in 1..Len(blocks) :
       blocks[k].type = "tool_use" /\ \A j \in 1..(k - 1) : blocks[j].type # "tool_use"

CallsOf(blocks) ==
    LET uses == SelectSeq(blocks, LAMBDA b : b.type = "tool_use")
    IN  [k \in 1..Len(uses) |-> uses[k].id]

Plain(chats) == [kind |-> "plain", chats |-> chats]

(* _convert_assistant_message_with_split: what follows the first call is    *)
(* deferred until its results are there.                                    *)
ToolTurn(m) ==
    LET first == FirstCall(m.blocks)
        after == SelectSeq(SubSeq(m.blocks, first + 1, Len(m.blocks)),
                           LAMBDA b : b.type # "tool_use")
    IN  [kind |-> "tool", emitted |-> FALSE, required |-> CallsOf(m.blocks),
         call |-> [AssistantChat(SubSeq(m.blocks, 1, first - 1), m.reasoning)
                      EXCEPT !.calls = CallsOf(m.blocks)],
         deferred |-> IF after = <<>> THEN <<>> ELSE <<AssistantChat(after, m.reasoning)>>]

Ledger == [segments |-> segments, results |-> toolResults, output |-> output]

MissingIds(l, turn) == {id \in CallIds : /\ \E k \in 1..Len(turn.required) : turn.required[k] = id
                                         /\ id \notin DOMAIN l.results}

(* A fault, for the checks only: what was held back is not waited for.      *)
SkipsAhead(l) ==
    IF l.segments = <<>> THEN l
    ELSE LET turn == l.segments[1]
         IN  [l EXCEPT !.output = @ \o (IF turn.kind = "plain" THEN turn.chats
                                        ELSE <<turn.call>> \o turn.deferred),
                       !.segments = Tail(@)]

Pops(l, chats) == [l EXCEPT !.output = @ \o chats, !.segments = Tail(@)]

(* One round of _drain_ready_segments.                                      *)
DrainHead(l) ==
    IF l.segments = <<>> THEN l
    ELSE LET turn == l.segments[1]
         IN  IF turn.kind = "plain" THEN Pops(l, turn.chats)
             ELSE LET e == IF turn.emitted THEN l
                           ELSE [l EXCEPT !.output = Append(@, turn.call),
                                          !.segments[1].emitted = TRUE]
                      answers == [k \in 1..Len(turn.required) |-> ToolMessage(turn.required[k])]
                      left == [id \in DOMAIN l.results \
                                  {turn.required[k] : k \in 1..Len(turn.required)} |-> TRUE]
                  IN  IF MissingIds(l, turn) # {} THEN e
                      ELSE [Pops(e, answers \o turn.deferred) EXCEPT !.results = left]

Drained(l) == FoldLeft(LAMBDA m, k : DrainHead(m), l, l.segments)

AddSegment(l, segment) == Drained([l EXCEPT !.segments = Append(@, segment)])

(* _record_tool_result: a result nobody waits for is a message of its own.  *)
RecordResult(l, id) ==
    IF \E k \in 1..Len(l.segments) :
          /\ l.segments[k].kind = "tool"
          /\ \E j \in 1..Len(l.segments[k].required) : l.segments[k].required[j] = id
    THEN [l EXCEPT !.results = [i \in DOMAIN l.results \union {id} |-> TRUE]]
    ELSE AddSegment(l, Plain(<<ToolMessage(id)>>))

(* add_user_blocks: texts and images between results stay where they are.   *)
AddTokens(l, tokens) ==
    IF tokens = <<>> THEN l ELSE AddSegment(l, Plain(<<Chat("user", tokens, <<>>)>>))

AddUserBlock(s, b) ==
    IF b.type # "tool_result" THEN [s EXCEPT !.tokens = Append(@, b.token)]
    ELSE [ledger |-> RecordResult(AddTokens(s.ledger, s.tokens), b.id), tokens |-> <<>>]

AddUserBlocks(l, blocks) ==
    LET s == FoldLeft(AddUserBlock, [ledger |-> l, tokens |-> <<>>], blocks)
    IN  Drained(AddTokens(s.ledger, s.tokens))

(* _assert_no_forbidden_assistant_block                                     *)
Forbidden(m) == m.role = "assistant" /\ \E k \in 1..Len(m.blocks) : m.blocks[k].type = "server"

HasCall(m) == \E k \in 1..Len(m.blocks) : m.blocks[k].type = "tool_use"

(* convert_messages, one message; an inline system text speaks as the user. *)
Added(l, m) ==
    CASE m.role = "user" /\ m.form = "blocks" -> AddUserBlocks(l, m.blocks)
      [] m.role = "assistant" /\ HasCall(m)    -> AddSegment(l, ToolTurn(m))
      [] m.role = "assistant" /\ m.form = "blocks" ->
            AddSegment(l, Plain(<<AssistantChat(m.blocks, m.reasoning)>>))
      [] m.role = "assistant" /\ m.form = "text" -> AddSegment(l, Plain(<<AssistantText(m)>>))
      [] OTHER -> AddSegment(l, Plain(<<Chat("user", TokensOf(m.blocks, {"text"}), <<>>)>>))

ConvertMessage ==
    /\ phase = "converting" /\ at <= Len(messages)
    /\ IF Forbidden(messages[at])
       THEN phase' = "refused" /\ UNCHANGED <<at, segments, toolResults, output>>
       ELSE LET l == Added(Ledger, messages[at])
            IN  /\ segments' = l.segments /\ toolResults' = l.results /\ output' = l.output
                /\ at' = at + 1 /\ UNCHANGED phase
    /\ UNCHANGED <<client, mode, said, messages, thought, quarantined, request_messages>>

(* _close_openai_tool_result_turns                                          *)
ClosedTurns(chats) ==
    FoldLeft(LAMBDA done, c :
                IF c.role = "user" /\ done # <<>> /\ done[Len(done)].role = "tool"
                THEN done \o <<Boundary, c>> ELSE Append(done, c), <<>>, chats)

(* _coalesce_openai_user_messages                                           *)
Coalesced(chats) ==
    FoldLeft(LAMBDA done, c :
                IF c.role = "user" /\ done # <<>> /\ done[Len(done)].role = "user"
                THEN [done EXCEPT ![Len(done)].tokens = @ \o c.tokens] ELSE Append(done, c),
             <<>>, chats)

(* finish: a call without its result is refused.                            *)
FinishHistory ==
    /\ phase = "converting" /\ at > Len(messages)
    /\ IF segments # <<>>
       THEN phase' = "refused" /\ UNCHANGED request_messages
       ELSE phase' = "done" /\ request_messages' = Coalesced(ClosedTurns(output))
    /\ UNCHANGED <<client, mode, said, messages, thought, quarantined, at, segments,
                   toolResults, output>>

ConversionNext ==
    \/ MessageItem \/ ReasoningItem \/ CallItem \/ OutputItem \/ ClientMessage
    \/ EndHistory \/ ConvertMessage \/ FinishHistory

ConversionSpec == ConversionInit /\ [][ConversionNext]_conversionVars

-----------------------------------------------------------------------------
(* What chat templates accept: the calls of a message are answered at once, *)
(* in their order; no user message follows a result or another user's.      *)
TurnsComplete ==
    \A k \in 1..Len(request_messages) :
       LET c == request_messages[k]
       IN  /\ \A j \in 1..Len(c.calls) : /\ k + j <= Len(request_messages)
                                         /\ request_messages[k + j].answers = c.calls[j]
           /\ c.role = "user" /\ k > 1 => request_messages[k - 1].role = "assistant"

(* Every text and image the client said is in the request, once, and those  *)
(* of the user in the order they were said, although tool turns hold them   *)
(* back; reasoning stays where the provider can take it.                    *)
TokensIn(c) == {c.tokens[k] : k \in 1..Len(c.tokens)}
Places(token) == {k \in 1..Len(request_messages) : token \in TokensIn(request_messages[k])}

SaidBefore(a, b) == a[1] < b[1] \/ (a[1] = b[1] /\ a[2] < b[2])

UserTokens ==
    FoldLeft(LAMBDA tokens, c : IF c.role = "user" THEN tokens \o c.tokens ELSE tokens,
             <<>>, request_messages)

NothingLost ==
    phase = "done" =>
       /\ \A k \in 1..Len(messages), types \in {{"text", "image"}} :
            \A j \in 1..Len(messages[k].blocks) :
               messages[k].blocks[j].type \in types
                  => Cardinality(Places(messages[k].blocks[j].token)) = 1
       /\ \A k, j \in 1..Len(UserTokens) : k < j => SaidBefore(UserTokens[k], UserTokens[j])
       /\ mode = "field" => \A k \in 1..Len(messages) : \A j \in 1..Len(messages[k].reasoning) :
             \E c \in 1..Len(request_messages) : \E i \in 1..Len(request_messages[c].reasoning) :
                request_messages[c].reasoning[i] = messages[k].reasoning[j]

(* A Responses history whose calls are all answered is never refused for    *)
(* its tools, not even when some of them were broken: a call and its output *)
(* are left out together (quarantined_function_call_ids), so no result of   *)
(* the request answers a call that is not in it.                            *)
AnsweredConverts ==
    client = "responses" =>
       /\ CalledIds = AnsweredIds /\ phase = "refused" => messages = <<>>
       /\ \A k \in 1..Len(request_messages) :
             request_messages[k].role = "tool" =>
                \E c \in 1..(k - 1) : \E j \in 1..Len(request_messages[c].calls) :
                   request_messages[c].calls[j] = request_messages[k].answers

ConversionFaithful == TurnsComplete /\ NothingLost /\ AnsweredConverts
=============================================================================
