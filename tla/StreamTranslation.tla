---------------------------- MODULE StreamTranslation ----------------------------
(***************************************************************************)
(* One streamed answer of an OpenAI-compatible provider turned into the    *)
(* events of an Anthropic message (providers/openai_chat/provider.py:      *)
(* _OpenAIChatStreamRunner, openai_chat/tool_calls.py, core/anthropic/     *)
(* streaming/ledger.py, providers/stream_recovery.py, core/anthropic/      *)
(* thinking.py and tools.py).  The ledger keeps the blocks of the message; *)
(* the events are held back for a moment, so that an answer that breaks    *)
(* off early can be asked for again without the client noticing; one that  *)
(* breaks off later is continued, or its tool calls are repaired.          *)
(*                                                                         *)
(* Text is a sequence of pieces, each named by the attempt it came from.   *)
(* The JSON input of a tool call comes in two halves; it is whole when     *)
(* both are there.                                                         *)
(***************************************************************************)
EXTENDS Naturals, Sequences, FiniteSets, SequencesExt

CONSTANTS ToolIndexes,     \* indexes of the tool calls of an answer, from 0
          ToolKind,        \* "plain", "Task", or "aliased": with renamed arguments
          Chunks,          \* what the provider may send at once
          MaxChunks,       \* bound: chunks of one answer
          MaxAttempts      \* attempts of one request, recovery included

VARIABLES streamPhase,     \* where the runner is
          attempts,        \* attempts started by the retry session
          chunks,          \* chunks read from the current answer
          outputReasoning, \* the policy of the request
          ledger,          \* AnthropicStreamLedger of the current attempt
          heldPart,        \* what the tag and the heuristic tool parser keep
          finishSeen,      \* finish_reason
          aliasBuffer,     \* tool_argument_alias_buffers
          heldEvents,      \* RecoveryHoldbackBuffer
          committed,       \* its committed flag
          clientView,          \* the message as the client has it
          upstreamArgs,    \* ghost: halves the current answer sent for a tool
          recovered,       \* ghost: the tools whose input a recovery completed
          muddled          \* ghost: of these, the ones completed from a wrong prefix

streamVars == <<streamPhase, attempts, chunks, outputReasoning, ledger, heldPart, finishSeen,
                aliasBuffer, heldEvents, committed, clientView, upstreamArgs, recovered, muddled>>

Whole == 2
NoBlock == 0

(* ThinkTagParser keeps the beginning of a tag, of text or of a thought;    *)
(* HeuristicToolParser keeps a tool call whose end it has not seen ("open"),*)
(* with text that may still belong to it ("filled").                        *)
NothingHeld == [tag |-> "none", tool |-> "none"]

(* A tool call the answer has begun (ToolBlockState): its block, and what   *)
(* came before its name (pre) or waits for the rest of a Task (task).       *)
NoTool == [seen |-> FALSE, block |-> NoBlock, named |-> FALSE, pre |-> 0, task |-> 0,
           taskDone |-> FALSE]

NewLedger ==
    [blocks |-> <<>>, text |-> NoBlock, thinking |-> NoBlock, textOn |-> FALSE,
     thinkingOn |-> FALSE, tools |-> [i \in ToolIndexes |-> NoTool], out |-> <<>>]

NewClient == [starts |-> 0, blocks |-> <<>>, broken |-> FALSE, ended |-> FALSE]

Phases == {"opening", "streaming", "deciding", "repairing", "continuing", "failing",
           "done", "failed"}

StreamTypeOK ==
    /\ streamPhase \in Phases /\ attempts \in 0..MaxAttempts /\ chunks \in 0..MaxChunks
    /\ outputReasoning \in BOOLEAN /\ finishSeen \in BOOLEAN /\ committed \in BOOLEAN
    /\ heldPart \in [tag : {"none", "text", "thought"}, tool : {"none", "open", "filled"}]
    /\ aliasBuffer \in [ToolIndexes -> Nat] /\ upstreamArgs \in [ToolIndexes -> Nat]
    /\ recovered \subseteq ToolIndexes /\ muddled \subseteq recovered
    /\ ledger.out = <<>> \/ streamPhase \in {"repairing", "failing"}
    /\ ledger.text \in 0..Len(ledger.blocks) /\ ledger.thinking \in 0..Len(ledger.blocks)

-----------------------------------------------------------------------------
(* The blocks of a message, in the order of their indexes.                  *)
Event(type, block, kind, content) ==
    [type |-> type, block |-> block, kind |-> kind, content |-> content]

Emit(l, e) == [l EXCEPT !.out = Append(@, e)]

(* What the ledger records of a block (_record_block_start and so on).      *)
RecordStart(l, kind) ==
    [l EXCEPT !.blocks = Append(@, [kind |-> kind, open |-> TRUE, content |-> <<>>])]

RecordDelta(l, b, content) == [l EXCEPT !.blocks[b].content = @ \o content]

RecordStop(l, b) ==
    [l EXCEPT !.blocks[b].open = FALSE,
              !.textOn = @ /\ l.text # b,
              !.thinkingOn = @ /\ l.thinking # b]

(* content_block_start and content_block_delta.                             *)
StartBlock(l, kind) ==
    Emit(RecordStart(l, kind), Event("start", Len(l.blocks) + 1, kind, <<>>))

DeltaTo(l, b, content) ==
    Emit(RecordDelta(l, b, content), Event("delta", b, l.blocks[b].kind, content))

(* content_block_stop: also when the block is stopped already.              *)
StopBlock(l, b) == Emit(RecordStop(l, b), Event("stop", b, l.blocks[b].kind, <<>>))

StartText(l) ==
    [StartBlock(l, "text") EXCEPT !.text = Len(l.blocks) + 1, !.textOn = TRUE]
StartThinking(l) ==
    [StartBlock(l, "thinking") EXCEPT !.thinking = Len(l.blocks) + 1, !.thinkingOn = TRUE]

StopText(l) == IF l.textOn THEN StopBlock(l, l.text) ELSE l
StopThinking(l) == IF l.thinkingOn THEN StopBlock(l, l.thinking) ELSE l

EnsureText(l) == LET rest == StopThinking(l) IN IF rest.textOn THEN rest ELSE StartText(rest)
EnsureThinking(l) ==
    LET rest == StopText(l) IN IF rest.thinkingOn THEN rest ELSE StartThinking(rest)

EmitText(l, piece) == LET ready == EnsureText(l) IN DeltaTo(ready, ready.text, <<piece>>)
EmitThinking(l, piece) ==
    LET ready == EnsureThinking(l) IN DeltaTo(ready, ready.thinking, <<piece>>)

CloseContentBlocks(l) == StopText(StopThinking(l))

InOrder(tools) == SetToSortSeq(tools, <)
StartedTools(l) == {i \in ToolIndexes : l.tools[i].block # NoBlock}

CloseAllBlocks(l) ==
    FoldLeft(LAMBDA acc, i : StopBlock(acc, acc.tools[i].block),
             CloseContentBlocks(l), InOrder(StartedTools(l)))

(* close_unclosed_blocks, the last opened first.                            *)
CloseUnclosedBlocks(l) ==
    FoldRight(LAMBDA b, acc : IF acc.blocks[b].open THEN StopBlock(acc, b) ELSE acc,
              [b \in 1..Len(l.blocks) |-> b], l)

ToolBlocks(l) == {b \in 1..Len(l.blocks) : l.blocks[b].kind = "tool_use"}
HasTool(l) == ToolBlocks(l) # {}
Complete(l, b) == Len(l.blocks[b].content) = Whole

(* has_committed_sse_output                                                 *)
GeneratedOutput(l) == l.text # NoBlock \/ l.thinking # NoBlock \/ HasTool(l)

(* can_salvage_tool_use                                                     *)
Salvageable(l) == HasTool(l) /\ \A b \in ToolBlocks(l) : Complete(l, b)

Accumulated(l, kind) ==
    \E b \in 1..Len(l.blocks) : l.blocks[b].kind = kind /\ l.blocks[b].content # <<>>

-----------------------------------------------------------------------------
Halves(n, a) == [h \in 1..n |-> a]

(* A tool call written as text (iter_heuristic_tool_use_sse), with n halves *)
(* of the input its schema asks for.                                        *)
EmitHeuristicTool(l, n, a) ==
    LET started == StartBlock(CloseContentBlocks(l), "tool_use")
        b == Len(started.blocks)
    IN  StopBlock(DeltaTo(started, b, Halves(n, a)), b)

(* _emit_tool_arg_delta: n halves of the input of tool i.  Those of a Task, *)
(* and those with renamed arguments, wait until they can be parsed.         *)

EmitArgs(w, i, n, a) ==
    LET tool == w.l.tools[i]
    IN  IF n = 0 THEN w
        ELSE IF ToolKind[i] = "Task"
        THEN IF tool.taskDone THEN w
             ELSE IF tool.task + n < Whole
             THEN [w EXCEPT !.l.tools[i].task = @ + n]
             ELSE [w EXCEPT !.l = DeltaTo([@ EXCEPT !.tools[i].task = 0,
                                                    !.tools[i].taskDone = TRUE],
                                          tool.block, Halves(tool.task + n, a))]
        ELSE IF ToolKind[i] = "aliased" /\ w.alias[i] + n < Whole
        THEN [w EXCEPT !.alias[i] = @ + n]
        ELSE [l |-> DeltaTo(w.l, tool.block, Halves(w.alias[i] + n, a)),
              alias |-> [w.alias EXCEPT ![i] = 0]]

StartTool(l, i) ==
    [StartBlock(l, "tool_use") EXCEPT !.tools[i] =
        [@ EXCEPT !.seen = TRUE, !.named = TRUE, !.block = Len(l.blocks) + 1, !.pre = 0]]

(* process_tool_call: the block starts with the name, and what came before  *)
(* it is emitted first.                                                     *)
ProcessToolCall(w, call, a) ==
    LET i == call.index
        tool == w.l.tools[i]
        starts == tool.block = NoBlock /\ call.named
        started == IF starts
                   THEN EmitArgs([w EXCEPT !.l = StartTool(@, i)], i, tool.pre, a) ELSE w
    IN  IF started.l.tools[i].block # NoBlock
        THEN EmitArgs(started, i, call.args, a)
        ELSE [w EXCEPT !.l.tools[i].seen = TRUE, !.l.tools[i].pre = @ + call.args]

(* Content goes through the tag parser and the rest of it through the tool  *)
(* parser: w is the ledger with what the two keep.  Thoughts are dropped    *)
(* when the request hides them.                                             *)
Thought(w, a) == IF outputReasoning THEN [w EXCEPT !.l = EmitThinking(@, a)] ELSE w

(* Text ends a tool call that is kept, and comes before it; text that       *)
(* begins with a bracket is kept with the call.                             *)
Text(w, bracket, a) ==
    CASE w.tool = "none" -> [w EXCEPT !.l = EmitText(@, a)]
      [] w.tool = "open" /\ ~bracket ->
           [w EXCEPT !.l = EmitHeuristicTool(EmitText(@, a), Whole, a), !.tool = "none"]
      [] w.tool = "open" /\ bracket -> [w EXCEPT !.tool = "filled"]
      [] w.tool = "filled" -> w

(* The text the tag parser kept turns out to be text.                       *)
KeptText(w, a) == IF w.tag = "text" THEN Text(w, TRUE, a) ELSE w

(* The beginning of a tool call ends the one before.                        *)
BeginTool(w, a) ==
    LET said == IF w.tool = "filled" THEN EmitText(w.l, a) ELSE w.l
    IN  [w EXCEPT !.l = IF w.tool = "none" THEN said ELSE EmitHeuristicTool(said, Whole, a),
                  !.tool = "open"]

(* A web tool with its input as JSON is a call at once, and everything else *)
(* the tool parser keeps is dropped, but for a call it has begun.           *)
WebTool(w, n, a) ==
    [w EXCEPT !.l = EmitHeuristicTool(@, n, a), !.tool = IF @ = "filled" THEN "open" ELSE @]

(* One piece of content, which decides what the tag parser kept: a piece of *)
(* the other kind completes the tag, one of the same kind follows it.       *)
EmitContent(w, content, a) ==
    CASE content = "none"        -> w
      [] content = "text"        -> [Text(w, w.tag = "text", a) EXCEPT !.tag = "none"]
      [] content = "heldtext"    -> [KeptText(w, a) EXCEPT !.tag = "text"]
      [] content = "thought"     -> [Thought(w, a) EXCEPT !.tag = "none"]
      [] content = "heldthought" ->
           [IF w.tag = "thought" THEN Thought(w, a) ELSE w EXCEPT !.tag = "thought"]
      [] content = "heldtool"    -> [BeginTool(KeptText(w, a), a) EXCEPT !.tag = "none"]
      [] content = "tool"        -> [WebTool(w, Whole, a) EXCEPT !.tag = "none"]
      [] content = "baretool"    -> [WebTool(w, Whole - 1, a) EXCEPT !.tag = "none"]

EmitReasoning(l, reasoning, a) ==
    CASE reasoning = "none" \/ ~outputReasoning -> l
      [] reasoning = "empty" /\ outputReasoning -> EnsureThinking(l)
      [] reasoning = "some" /\ outputReasoning  -> EmitThinking(l, a)

(* A fault, for the checks only: the block is left to be closed at the end. *)
RedactedLeftOpen(l) == StartBlock(CloseContentBlocks(l), "redacted_thinking")

(* _handle_extra_reasoning.  OpenRouter sends details: an encrypted one is  *)
(* a redacted block of its own, started and stopped past the accounts of    *)
(* text, thinking and tools; the text of one counts only without native     *)
(* reasoning beside it.  Cloudflare has a field of its own.                 *)
EmitRedacted(l) ==
    LET started == StartBlock(CloseContentBlocks(l), "redacted_thinking")
    IN  StopBlock(started, Len(started.blocks))

EmitDetails(l, c, a) ==
    FoldLeft(LAMBDA acc, detail :
                 CASE detail = "encrypted" -> EmitRedacted(acc)
                   [] detail = "text" /\ c.reasoning = "some" -> acc
                   [] detail = "text" /\ c.reasoning # "some" -> EmitThinking(acc, a)
                   [] detail = "field" -> EmitThinking(acc, a),
             l, IF outputReasoning THEN c.details ELSE <<>>)

(* The events of one chunk, in the order of run().                          *)
EmitChunk(c, a) ==
    LET reasoned == EmitDetails(EmitReasoning(ledger, c.reasoning, a), c, a)
        parsed == EmitContent([l |-> reasoned, tag |-> heldPart.tag, tool |-> heldPart.tool], c.content, a)
        w == [l |-> IF c.calls = <<>> THEN parsed.l ELSE CloseContentBlocks(parsed.l),
              alias |-> aliasBuffer]
    IN  [called |-> FoldLeft(LAMBDA acc, call : ProcessToolCall(acc, call, a), w, c.calls),
         kept |-> [tag |-> parsed.tag, tool |-> parsed.tool]]

-----------------------------------------------------------------------------
(* What the client makes of an event (stream_contracts.py says what it may  *)
(* rely on): a block is started once, gets deltas and its stop while open.  *)
Receive(m, e) ==
    LET known == e.block \in 1..Len(m.blocks)
        right == known /\ m.blocks[e.block].open /\ m.blocks[e.block].kind = e.kind
        bad == [m EXCEPT !.broken = TRUE]
    IN  IF e.type = "message_start" THEN [m EXCEPT !.starts = @ + 1]
        ELSE IF m.starts # 1 \/ m.ended THEN bad
        ELSE
          CASE e.type = "start" /\ e.block = Len(m.blocks) + 1 ->
                [m EXCEPT !.blocks = Append(@, [kind |-> e.kind, open |-> TRUE,
                                                content |-> <<>>])]
          [] e.type = "delta" /\ right -> [m EXCEPT !.blocks[e.block].content = @ \o e.content]
          [] e.type = "stop" /\ right -> [m EXCEPT !.blocks[e.block].open = FALSE]
          [] e.type = "message_stop" -> [m EXCEPT !.ended = TRUE]
          [] OTHER -> bad

ReceiveAll(m, events) == FoldLeft(Receive, m, events)

MessageStart == Event("message_start", NoBlock, "", <<>>)
MessageStop == Event("message_stop", NoBlock, "", <<>>)

(* push: held back, until the holdback is full or its time is over.         *)
Push(events) ==
    IF committed
    THEN clientView' = ReceiveAll(clientView, events) /\ UNCHANGED <<heldEvents, committed>>
    ELSE \/ heldEvents' = heldEvents \o events /\ UNCHANGED <<clientView, committed>>
         \/ /\ events # <<>> /\ committed' = TRUE /\ heldEvents' = <<>>
            /\ clientView' = ReceiveAll(clientView, heldEvents \o events)

(* A fault, for the checks only: what was held back is dropped.             *)
FlushNew(events) ==
    /\ committed' = TRUE /\ heldEvents' = <<>>
    /\ clientView' = ReceiveAll(clientView, events)

(* flush, and then these events without holding back.                       *)
Flush(events) ==
    /\ committed' = TRUE /\ heldEvents' = <<>>
    /\ clientView' = ReceiveAll(clientView, heldEvents \o events)

Emptied(l) == [l EXCEPT !.out = <<>>]

StreamInit ==
    /\ streamPhase = "opening" /\ attempts = 0 /\ chunks = 0
    /\ outputReasoning \in BOOLEAN
    /\ ledger = NewLedger /\ heldPart = NothingHeld /\ finishSeen = FALSE
    /\ aliasBuffer = [i \in ToolIndexes |-> 0]
    /\ heldEvents = <<MessageStart>> /\ committed = FALSE
    /\ clientView = NewClient
    /\ upstreamArgs = [i \in ToolIndexes |-> 0] /\ recovered = {} /\ muddled = {}

(* _create_stream: the admission may use several attempts for it.           *)
OpenStream ==
    /\ streamPhase = "opening"
    /\ attempts' \in (attempts + 1)..MaxAttempts
    /\ streamPhase' \in {"streaming", "failing"}
    /\ UNCHANGED <<chunks, outputReasoning, ledger, heldPart, finishSeen, aliasBuffer,
                   heldEvents, committed, clientView, upstreamArgs, recovered, muddled>>

ReadChunk ==
    /\ streamPhase = "streaming" /\ chunks < MaxChunks
    /\ \E c \in Chunks :
          LET emitted == EmitChunk(c, attempts)
              w == emitted.called
          IN  /\ \A k \in DOMAIN c.calls :
                    upstreamArgs[c.calls[k].index] + c.calls[k].args <= Whole
              /\ ledger' = Emptied(w.l) /\ aliasBuffer' = w.alias
              /\ Push(w.l.out)
              /\ heldPart' = emitted.kept
              /\ finishSeen' = (finishSeen \/ c.finish)
              /\ upstreamArgs' = [i \in ToolIndexes |-> upstreamArgs[i] +
                    FoldLeft(LAMBDA n, call : IF call.index = i THEN n + call.args ELSE n,
                             0, c.calls)]
    /\ chunks' = chunks + 1
    /\ UNCHANGED <<streamPhase, attempts, outputReasoning, recovered, muddled>>

-----------------------------------------------------------------------------
(* The end of a complete answer: what the parsers and the buffers keep is   *)
(* emitted, a message without text gets a blank one.                        *)
NeedsFiller(l) ==
    \/ ~GeneratedOutput(l)
    \/ ~HasTool(l) /\ ~Accumulated(l, "text") /\ Accumulated(l, "thinking")

(* A fault, for the checks only: the buffers are forgotten.                 *)
ForgetAliases(l) == l

FlushAliases(l) ==
    FoldLeft(LAMBDA acc, i : DeltaTo(acc, acc.tools[i].block, Halves(aliasBuffer[i], attempts)),
             l, InOrder({i \in StartedTools(l) : aliasBuffer[i] > 0}))

(* A Task whose arguments never became whole gets an empty object.          *)
FlushTasks(l) ==
    FoldLeft(LAMBDA acc, i : DeltaTo([acc EXCEPT !.tools[i].task = 0,
                                                 !.tools[i].taskDone = TRUE],
                                     acc.tools[i].block, Halves(Whole, attempts)),
             l, InOrder({i \in StartedTools(l) : l.tools[i].task > 0}))

(* The parsers give up what they keep: first the tag parser, whose text is  *)
(* emitted as it is, then a tool call that was begun.                       *)
FlushParsers(l) ==
    LET untagged == CASE heldPart.tag = "text"                        -> EmitText(l, attempts)
                      [] heldPart.tag = "thought" /\ outputReasoning -> EmitThinking(l, attempts)
                      [] OTHER                                        -> l
    IN  IF heldPart.tool = "none" THEN untagged
        ELSE EmitHeuristicTool(untagged, Whole, attempts)

Finish(l) ==
    LET rest == FlushParsers(l)
        filled == IF NeedsFiller(rest) THEN EmitText(rest, attempts) ELSE rest
    IN  Emit(CloseAllBlocks(FlushTasks(FlushAliases(filled))), MessageStop)

StreamEnds ==
    /\ streamPhase = "streaming" /\ finishSeen
    /\ LET l == Finish(ledger) IN ledger' = Emptied(l) /\ Flush(l.out)
    /\ streamPhase' = "done" /\ heldPart' = NothingHeld
    /\ aliasBuffer' = [i \in ToolIndexes |-> 0]
    /\ UNCHANGED <<attempts, chunks, outputReasoning, finishSeen, upstreamArgs, recovered, muddled>>

(* A fault, for the checks only: committed output is asked for again.       *)
RetryAlways == attempts < MaxAttempts /\ ~Salvageable(ledger)

(* advance_failure: once more from the beginning, unless the client has     *)
(* seen something, or it is better to keep what there is.                   *)
MayRetryEarly ==
    /\ attempts < MaxAttempts /\ ~committed
    /\ ~(GeneratedOutput(ledger) /\ Salvageable(ledger))
    /\ ~(GeneratedOutput(ledger) /\ MaxAttempts - attempts = 1)

RetryEarly ==
    /\ MayRetryEarly
    /\ streamPhase' = "opening" /\ chunks' = 0
    /\ ledger' = NewLedger /\ heldPart' = NothingHeld /\ finishSeen' = FALSE
    /\ aliasBuffer' = [i \in ToolIndexes |-> 0]
    /\ heldEvents' = <<MessageStart>> /\ committed' = FALSE
    /\ upstreamArgs' = [i \in ToolIndexes |-> 0]
    /\ UNCHANGED <<attempts, outputReasoning, clientView, recovered, muddled>>

MayRecover ==
    /\ GeneratedOutput(ledger)
    /\ attempts < MaxAttempts \/ Salvageable(ledger)

(* _recovery_events: tools are repaired, text is continued.                 *)
RecoverMidstream ==
    /\ ~MayRetryEarly /\ MayRecover
    /\ streamPhase' = IF HasTool(ledger) THEN "repairing"
                      ELSE IF Accumulated(ledger, "text") \/ Accumulated(ledger, "thinking")
                      THEN "continuing" ELSE "failing"
    /\ UNCHANGED <<attempts, chunks, outputReasoning, ledger, heldPart, finishSeen, aliasBuffer,
                   heldEvents, committed, clientView, upstreamArgs, recovered, muddled>>

FailFinally ==
    /\ streamPhase' = "failing"
    /\ UNCHANGED <<attempts, chunks, outputReasoning, ledger, heldPart, finishSeen, aliasBuffer,
                   heldEvents, committed, clientView, upstreamArgs, recovered, muddled>>

(* The answer breaks off, in a way that may be tried again (an end without  *)
(* finish_reason is one), or for good.                                      *)
StreamBreaks ==
    /\ streamPhase = "streaming"
    /\ \/ RetryEarly
       \/ RecoverMidstream
       \/ ~MayRetryEarly /\ ~MayRecover /\ FailFinally

StreamFails == streamPhase = "streaming" /\ FailFinally

-----------------------------------------------------------------------------
(* _repair_tool_args: the first tool whose input is not whole.  The prefix  *)
(* is what was emitted, or what its buffer kept; the rest is asked for until *)
(* it completes the input or the attempts are used up.  A prefix out of the *)
(* alias buffer is emitted as it is, with the provider's argument names.    *)
ToRepair(l) == {i \in StartedTools(l) : ~Complete(l, l.tools[i].block)}

Missing(l, i) == Whole - Len(l.blocks[l.tools[i].block].content)

RepairTool ==
    /\ streamPhase = "repairing" /\ ToRepair(ledger) # {} /\ attempts < MaxAttempts
    /\ LET i == CHOOSE t \in ToRepair(ledger) : \A u \in ToRepair(ledger) : t <= u
       IN  \/ /\ ledger' = DeltaTo(ledger, ledger.tools[i].block,
                                   Halves(Missing(ledger, i), attempts + 1))
              /\ recovered' = recovered \union {i}
              /\ muddled' = IF aliasBuffer[i] > 0 THEN muddled \union {i} ELSE muddled
              /\ UNCHANGED streamPhase
           \/ UNCHANGED <<ledger, recovered, muddled, streamPhase>>
           \/ streamPhase' = "failing" /\ UNCHANGED <<ledger, recovered, muddled>>
    /\ attempts' = attempts + 1
    /\ UNCHANGED <<chunks, outputReasoning, heldPart, finishSeen, aliasBuffer, heldEvents,
                   committed, clientView, upstreamArgs>>

(* No attempt is left, or the input that is not whole is that of a call the *)
(* answer wrote as text, which nobody repairs.                              *)
RepairRunsOut ==
    /\ streamPhase = "repairing"
    /\ IF ToRepair(ledger) # {} THEN attempts = MaxAttempts ELSE ~Salvageable(ledger)
    /\ FailFinally

(* flush_uncommitted, and the events of the recovery.                       *)
Terminal(l) ==
    LET closed == Emit(CloseAllBlocks(l), MessageStop)
    IN  /\ ledger' = Emptied(closed) /\ Flush(closed.out)
        /\ streamPhase' = "done"

Repaired ==
    /\ streamPhase = "repairing" /\ ToRepair(ledger) = {} /\ Salvageable(ledger)
    /\ Terminal(ledger)
    /\ UNCHANGED <<attempts, chunks, outputReasoning, heldPart, finishSeen, aliasBuffer,
                   upstreamArgs, recovered, muddled>>

(* completed_calls: a continuation counts only with every call it has begun *)
(* named and whole.                                                         *)
CompletedCalls == SUBSET ToolIndexes

(* The suffix of a continuation, without what it repeats; and its tools,    *)
(* which are whole.  A tool that had arguments before a name begins with    *)
(* those of the broken answer.                                              *)
Continue ==
    /\ streamPhase = "continuing" /\ attempts < MaxAttempts
    /\ attempts' = attempts + 1
    /\ \E thinks \in (IF outputReasoning THEN BOOLEAN ELSE {FALSE}), speaks \in BOOLEAN,
          calls \in CompletedCalls :
          LET thought == IF thinks THEN EmitThinking(ledger, attempts + 1) ELSE ledger
              spoken == IF speaks THEN EmitText(thought, attempts + 1) ELSE thought
              start == [l |-> IF calls = {} THEN spoken ELSE CloseContentBlocks(spoken),
                        alias |-> [i \in ToolIndexes |-> 0]]
              called == FoldLeft(LAMBDA acc, i :
                           ProcessToolCall(acc, [index |-> i, named |-> TRUE, args |-> Whole],
                                           attempts + 1),
                           start, InOrder(calls))
          IN  /\ thinks \/ speaks \/ calls # {}
              /\ recovered' = calls
              /\ muddled' = {i \in calls : ledger.tools[i].pre > 0}
              /\ Terminal(called.l)
    /\ UNCHANGED <<chunks, outputReasoning, heldPart, finishSeen, aliasBuffer, upstreamArgs>>

(* Without any suffix, or at an error, it is tried again or given up.       *)
ContinueFails ==
    /\ streamPhase = "continuing"
    /\ attempts' = attempts + (IF attempts < MaxAttempts THEN 1 ELSE 0)
    /\ streamPhase' \in IF attempts' < MaxAttempts THEN {"continuing", "failing"}
                        ELSE {"failing"}
    /\ UNCHANGED <<chunks, outputReasoning, ledger, heldPart, finishSeen, aliasBuffer,
                   heldEvents, committed, clientView, upstreamArgs, recovered, muddled>>

(* The final error: nothing was sent and nothing is; or the open blocks are *)
(* closed, and the error follows.                                           *)
RaiseFailure ==
    /\ streamPhase = "failing"
    /\ streamPhase' = "failed"
    /\ LET closed == CloseUnclosedBlocks(Emptied(ledger))
       IN  IF committed \/ (heldEvents # <<>> /\ Salvageable(ledger))
           THEN ledger' = Emptied(closed) /\ Flush(closed.out)
           ELSE /\ heldEvents' = <<>> /\ ledger' = Emptied(ledger)
                /\ UNCHANGED <<committed, clientView>>
    /\ UNCHANGED <<attempts, chunks, outputReasoning, heldPart, finishSeen, aliasBuffer,
                   upstreamArgs, recovered, muddled>>

StreamProgress ==
    \/ OpenStream \/ ReadChunk \/ StreamEnds \/ StreamBreaks \/ StreamFails
    \/ RepairTool \/ RepairRunsOut \/ Repaired \/ Continue \/ ContinueFails \/ RaiseFailure

StreamNext == StreamProgress

StreamSpec == StreamInit /\ [][StreamNext]_streamVars /\ WF_streamVars(StreamProgress)
-----------------------------------------------------------------------------
(* The client gets one well-formed message, whatever was asked for again,   *)
(* continued or repaired (assert_anthropic_stream_contract): a message that *)
(* starts once, blocks that are started once and get deltas of their kind   *)
(* while they are open; at the end, and before a final error, all of them   *)
(* are closed.  Before it has seen something an error is all it sees.       *)
StreamContract ==
    /\ ~clientView.broken
    /\ streamPhase = "done" =>
          /\ clientView.starts = 1 /\ clientView.ended /\ clientView.blocks # <<>>
          /\ \A b \in DOMAIN clientView.blocks : ~clientView.blocks[b].open
    /\ streamPhase = "failed" =>
          IF committed
          THEN ~clientView.ended /\ \A b \in DOMAIN clientView.blocks : ~clientView.blocks[b].open
          ELSE clientView = NewClient

(* What is held back and what the client has are the answer that is being   *)
(* read: nothing of an abandoned answer, nothing twice, nothing lost, at    *)
(* the end nothing held back (RecoveryHoldbackBuffer, RecoveryController).  *)
OneAnswer ==
    /\ streamPhase \in {"opening", "streaming"} =>
          ReceiveAll(clientView, heldEvents).blocks = ledger.blocks
    /\ streamPhase = "done" => heldEvents = <<>> /\ clientView.blocks = ledger.blocks

(* The input of a tool call in a finished message is all the provider sent  *)
(* of it, whatever was buffered on the way, and that of a Task, or one a    *)
(* recovery completed, is whole.                                            *)
InputOf(i) == Len(clientView.blocks[ledger.tools[i].block].content)

ToolInputsHonest ==
    streamPhase = "done" => \A i \in StartedTools(ledger) \ muddled :
        InputOf(i) = IF i \in recovered \/ (ToolKind[i] = "Task" /\ upstreamArgs[i] > 0)
                     THEN Whole ELSE upstreamArgs[i]

(* "Return complete schema-valid calls" (tool_calls.py, completed_calls):   *)
(* the input of a recovered tool call is one whole object with the client's *)
(* argument names.                                                          *)
RecoveredInputsWhole ==
    streamPhase = "done" => \A i \in recovered : i \notin muddled /\ InputOf(i) = Whole
=============================================================================
