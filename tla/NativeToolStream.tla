--------------------------- MODULE NativeToolStream ---------------------------
(***************************************************************************)
(* The native tool markup of one NIM model                                 *)
(* (providers/nvidia_nim/native_tool_stream.py).  The model writes a tool  *)
(* block into its content or its reasoning; the upstream cuts that text    *)
(* into chunks anywhere, inside a marker too.  A framer per field hands on *)
(* the visible text and keeps the block, and the end of the answer turns   *)
(* the block into tool calls or refuses the answer, which is then retried. *)
(*                                                                         *)
(* A text is a sequence of pieces: the namespace of the markers is the two *)
(* pieces "ns1" and "ns2", a begin or end marker is the namespace and      *)
(* "begin" or "end"; "good" and "bad" are a call that parses and one that  *)
(* does not (both start with the namespace); "word" and "space" are text.  *)
(***************************************************************************)
EXTENDS Naturals, Sequences, FiniteSets

LOCAL INSTANCE SequencesExt

CONSTANTS MaxWords,        \* bound: parts of the text of the content
          MaxBlock         \* _MAX_NATIVE_TOOL_BLOCK_CHARS, in pieces

Fields == {"content", "reasoning"}

VARIABLES wrote,           \* per field, the whole text the model writes
          readSoFar,            \* per field, how many of its pieces have arrived
          framing, textTail, toolParts, toolTail, toolBlock,  \* the framers
          shown,           \* per field, the visible text handed on
          structured,      \* structured_tool_calls_seen
          verdict,         \* "streaming", "finished", "protocol" or "internal"
          generated        \* number of generated_calls

nativeVars == <<wrote, readSoFar, framing, textTail, toolParts, toolTail, toolBlock, shown,
                structured, verdict, generated>>

framerVars == <<framing, textTail, toolParts, toolTail, toolBlock>>

Namespace == <<"ns1", "ns2">>
ToolBlockStart == Namespace \o <<"begin">>
ToolBlockEnd == Namespace \o <<"end">>

(* What a text is made of: also a part of a marker and a damaged marker.    *)
Parts == {ToolBlockStart, ToolBlockEnd, Namespace, <<"ns1">>, <<"good">>, <<"bad">>,
          <<"word">>, <<"space">>}

TextsOf(n) == {FlattenSeq(t) : t \in UNION {[1..k -> Parts] : k \in 0..n}}

(* Longer ones: a block of two parts, a block with words around it.         *)
Enclosed(inner) == ToolBlockStart \o inner \o ToolBlockEnd
BlockTexts ==
    {Enclosed(inner) : inner \in TextsOf(2)}
    \union {before \o Enclosed(<<"good">>) \o after :
               before \in TextsOf(1), after \in {<<>>, <<"space">>, <<"word">>}}

(* What the two fields hold when the model writes into both.                *)
SideTexts == Parts \union {Enclosed(<<"good">>)}

Pieces == {"ns1", "ns2", "begin", "end", "good", "bad", "word", "space"}

NativeTypeOK ==
    /\ \A f \in Fields : /\ readSoFar[f] \in 0..Len(wrote[f])
                         /\ framing[f] \in {"text", "tool_block", "after_tool_block", "finished"}
                         /\ \A t \in {textTail[f], toolTail[f]} : Len(t) <= 2
                         /\ Len(toolParts[f]) <= MaxBlock
                         /\ \A k \in 1..Len(shown[f]) : shown[f][k] \in Pieces
    /\ structured \in BOOLEAN /\ generated \in Nat
    /\ verdict \in {"streaming", "finished", "protocol", "internal"}

NativeInit ==
    /\ wrote \in [content : TextsOf(MaxWords) \union BlockTexts, reasoning : {<<>>}]
                   \union [content : SideTexts, reasoning : SideTexts]
    /\ readSoFar = [f \in Fields |-> 0] /\ shown = [f \in Fields |-> <<>>]
    /\ framing = [f \in Fields |-> "text"]
    /\ textTail = [f \in Fields |-> <<>>] /\ toolParts = [f \in Fields |-> <<>>]
    /\ toolTail = [f \in Fields |-> <<>>] /\ toolBlock = [f \in Fields |-> <<>>]
    /\ structured = FALSE /\ verdict = "streaming" /\ generated = 0

-----------------------------------------------------------------------------
(* One framer is a record of its state, the text it just made visible and   *)
(* whether it refused what it read.                                         *)
Framer(f) == [mode |-> framing[f], text |-> textTail[f], parts |-> toolParts[f],
              tail |-> toolTail[f], block |-> toolBlock[f], visible |-> <<>>, refused |-> FALSE]

(* str.find, 0 when it is not there.                                        *)
IsAt(text, k, marker) == SubSeq(text, k, Min({Len(text), k + Len(marker) - 1})) = marker

FirstAt(text, marker) ==
    LET places == {k \in 1..Len(text) : IsAt(text, k, marker)}
    IN  IF places = {} THEN 0 ELSE CHOOSE k \in places : \A j \in places : k <= j

(* text.find(_NAMESPACE): a call starts with the namespace too.             *)
NamespaceAt(text) ==
    LET places == {k \in 1..Len(text) :
                      IsAt(text, k, Namespace) \/ text[k] \in {"good", "bad"}}
    IN  IF places = {} THEN 0 ELSE CHOOSE k \in places : \A j \in places : k <= j

(* A fault, for the checks only: nothing is held back.                      *)
HoldsNothing(text, marker) == 0

(* _partial_marker_suffix_length                                            *)
HeldLength(text, marker) ==
    LET fits == {n \in 1..(Len(marker) - 1) :
                    n <= Len(text) /\ IsAt(text, Len(text) - n + 1, SubSeq(marker, 1, n))}
    IN  IF fits = {} THEN 0 ELSE CHOOSE n \in fits : \A m \in fits : m <= n

Refuse(fr) == [fr EXCEPT !.refused = TRUE]

(* _validate_trailing_text                                                  *)
Trailing(fr, text) == IF \E k \in 1..Len(text) : text[k] # "space" THEN Refuse(fr) ELSE fr

(* _append_tool_fragment; the length counts what the block already holds.   *)
WithFragment(fr, fragment) ==
    IF Len(fr.parts) + Len(fragment) > MaxBlock THEN Refuse(fr)
    ELSE [fr EXCEPT !.parts = @ \o fragment]

From(text, k) == SubSeq(text, k, Len(text))
UpTo(text, k) == SubSeq(text, 1, k)

(* _feed_tool_block                                                         *)
FeedBlock(fr, text) ==
    LET candidate == fr.tail \o text
        marker == FirstAt(candidate, ToolBlockEnd)
        held == HeldLength(candidate, ToolBlockEnd)
        cut == Len(candidate) - held
        closed == WithFragment([fr EXCEPT !.tail = <<>>], UpTo(candidate, marker - 1))
    IN  IF marker = 0
        THEN [WithFragment(fr, UpTo(candidate, cut)) EXCEPT !.tail = From(candidate, cut + 1)]
        ELSE IF closed.refused THEN closed
        ELSE Trailing([closed EXCEPT !.block = closed.parts, !.parts = <<>>,
                                     !.mode = "after_tool_block"],
                      From(candidate, marker + Len(ToolBlockEnd)))

(* feed, while the framer is in its text                                    *)
FeedText(fr, text) ==
    LET candidate == fr.text \o text
        marker == FirstAt(candidate, ToolBlockStart)
        held == HeldLength(candidate, ToolBlockStart)
        cut == Len(candidate) - held
        protected == IF marker # 0 THEN marker ELSE IF held # 0 THEN cut + 1 ELSE 0
    IN  IF NamespaceAt(candidate) \notin {0, protected} THEN Refuse(fr)
        ELSE IF marker # 0
        THEN FeedBlock([fr EXCEPT !.visible = UpTo(candidate, marker - 1), !.text = <<>>,
                                  !.mode = "tool_block"],
                       From(candidate, marker + Len(ToolBlockStart)))
        ELSE [fr EXCEPT !.visible = UpTo(candidate, cut), !.text = From(candidate, cut + 1)]

(* feed                                                                     *)
Fed(fr, text) ==
    IF text = <<>> THEN fr
    ELSE CASE fr.mode = "tool_block" -> FeedBlock(fr, text)
           [] fr.mode = "after_tool_block" -> Trailing(fr, text)
           [] OTHER -> FeedText(fr, text)

(* finish: what is still held back becomes text, unless it is a marker.     *)
FinishFramer(fr, complete) ==
    LET done == [fr EXCEPT !.mode = "finished", !.text = <<>>, !.parts = <<>>, !.tail = <<>>]
    IN  IF fr.mode = "text" /\ NamespaceAt(fr.text) = 0
        THEN [done EXCEPT !.visible = @ \o fr.text]
        ELSE IF complete /\ fr.mode \in {"text", "tool_block"} THEN Refuse(done) ELSE done

(* _parse_tool_block: spaces and calls, at least one, each of them valid.   *)
CallsIn(block) == SelectSeq(block, LAMBDA p : p # "space")
BlockParses(block) ==
    /\ CallsIn(block) # <<>>
    /\ \A k \in 1..Len(CallsIn(block)) : CallsIn(block)[k] = "good"

-----------------------------------------------------------------------------
(* A framer's state as it is after reading.                                 *)
Store(fs) ==
    /\ framing' = [f \in Fields |-> fs[f].mode] /\ textTail' = [f \in Fields |-> fs[f].text]
    /\ toolParts' = [f \in Fields |-> fs[f].parts] /\ toolTail' = [f \in Fields |-> fs[f].tail]
    /\ toolBlock' = [f \in Fields |-> fs[f].block]

Show(fs) == shown' = [f \in Fields |-> shown[f] \o fs[f].visible]

(* _finish_native_tool_framers                                              *)
Finalize(fs, seen) ==
    LET done == [f \in Fields |-> FinishFramer(fs[f], ~seen)]
        blocks == {f \in Fields : fs[f].mode = "after_tool_block"}
        refused == \/ \E f \in Fields : done[f].refused
                   \/ /\ ~seen
                      /\ \/ Cardinality(blocks) > 1
                         \/ \E f \in blocks : ~BlockParses(done[f].block)
    IN  /\ Store(done)
        /\ IF refused THEN verdict' = "protocol" /\ UNCHANGED <<shown, generated>>
           ELSE /\ verdict' = "finished" /\ Show(done)
                /\ generated' = IF seen \/ blocks = {} THEN 0
                                ELSE Len(CallsIn(done[CHOOSE f \in blocks : TRUE].block))

(* A chunk: any number of the next pieces of each field, maybe a structured *)
(* tool call, maybe the reason the answer finished.                         *)
ReadText ==
    /\ verdict = "streaming"
    /\ \E upto \in [content : readSoFar["content"]..Len(wrote["content"]),
                    reasoning : readSoFar["reasoning"]..Len(wrote["reasoning"])],
          calls, last \in BOOLEAN :
          /\ last => \A f \in Fields : upto[f] = Len(wrote[f])
          /\ (upto # readSoFar) \/ last \/ (calls /\ ~structured)
          /\ readSoFar' = upto /\ structured' = (structured \/ calls)
          /\ LET new(f) == SubSeq(wrote[f], readSoFar[f] + 1, upto[f])
                 fs == [content   |-> Fed(Framer("content"), new("content")),
                        reasoning |-> Fed(Framer("reasoning"), new("reasoning"))]
             IN  IF \E f \in Fields : fs[f].refused
                 THEN verdict' = "protocol" /\ UNCHANGED <<framerVars, shown, generated>>
                 ELSE IF last THEN Finalize(fs, structured')
                 ELSE Store(fs) /\ Show(fs) /\ UNCHANGED <<verdict, generated>>
    /\ UNCHANGED wrote

(* The stream ends without a finish reason.                                 *)
TextEnds ==
    /\ verdict = "streaming" /\ \A f \in Fields : readSoFar[f] = Len(wrote[f])
    /\ Finalize([f \in Fields |-> Framer(f)], structured)
    /\ UNCHANGED <<wrote, readSoFar, structured>>

(* A chunk with text after the finish reason: the framers refuse to go on.  *)
TextAfterEnd ==
    /\ verdict = "finished" /\ verdict' = "internal"
    /\ UNCHANGED <<wrote, readSoFar, framerVars, shown, structured, generated>>

NativeNext == ReadText \/ TextEnds \/ TextAfterEnd

NativeSpec == NativeInit /\ [][NativeNext]_nativeVars

-----------------------------------------------------------------------------
(* What the whole text of a field means, read at once.                      *)
Read(text) ==
    LET first == NamespaceAt(text)
        body == From(text, first + 3)
        close == FirstAt(body, ToolBlockEnd)
        visible == UpTo(text, first - 1)
    IN  IF first = 0 THEN [is |-> "text", visible |-> text, block |-> <<>>]
        ELSE IF FirstAt(text, ToolBlockStart) # first
        THEN [is |-> "damaged", visible |-> visible, block |-> <<>>]
        ELSE IF close = 0 THEN [is |-> "open", visible |-> visible, block |-> body]
        ELSE [is |-> IF \A k \in (close + 3)..Len(body) : body[k] = "space"
                     THEN "block" ELSE "damaged",
              visible |-> visible, block |-> UpTo(body, close - 1)]

(* No piece of a marker is ever shown, however the text was cut: what was   *)
(* shown of a field is the beginning of the text in front of its first      *)
(* marker, and all of it once the answer has finished.                      *)
MarkersNeverShown ==
    \A f \in Fields : /\ IsPrefix(shown[f], Read(wrote[f]).visible)
                      /\ verdict = "finished" => shown[f] = Read(wrote[f]).visible

(* The verdict and the calls depend on the text, never on the chunks: an    *)
(* answer whose one block parses finishes with its calls, one with a        *)
(* damaged, unfinished, second, empty or invalid block is refused, and      *)
(* structured calls take the place of native ones.                          *)
BlocksWritten == {f \in Fields : Read(wrote[f]).is = "block"}

ChunkingInvisible ==
    verdict = "finished" =>
       /\ \A f \in BlocksWritten : Len(Read(wrote[f]).block) <= MaxBlock
       /\ structured => generated = 0
       /\ ~structured =>
             /\ \A f \in Fields : Read(wrote[f]).is \in {"text", "block"}
             /\ Cardinality(BlocksWritten) <= 1
             /\ \A f \in BlocksWritten : BlockParses(Read(wrote[f]).block)
             /\ generated = IF BlocksWritten = {} THEN 0
                            ELSE Len(CallsIn(Read(wrote[CHOOSE f \in BlocksWritten : TRUE]).block))

OnlyBadRefused ==
    verdict = "protocol" =>
       \/ \E f \in Fields : Read(wrote[f]).is \in {"damaged", "open"}
       \/ \E f \in Fields : Len(Read(wrote[f]).block) > MaxBlock
       \/ Cardinality(BlocksWritten) > 1
       \/ \E f \in BlocksWritten : ~BlockParses(Read(wrote[f]).block)

NativeAnswer == MarkersNeverShown /\ ChunkingInvisible /\ OnlyBadRefused
=============================================================================
