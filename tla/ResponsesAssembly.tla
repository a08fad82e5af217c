--------------------------- MODULE ResponsesAssembly ---------------------------
(***************************************************************************)
(* The translation of an Anthropic stream into OpenAI Responses events     *)
(* (core/openai_responses/stream.py and streaming/).  Anthropic events     *)
(* name their content block by an index, may lack it, may reuse it, and    *)
(* may come for a block that never started; the Responses client sees      *)
(* output items in numbered slots.  A function call whose arguments are no *)
(* JSON object is held back, and the response ends as failed.  Texts are   *)
(* abstracted to whether they are empty, arguments to whether they parse.  *)
(***************************************************************************)
EXTENDS Naturals, Integers, Sequences

LOCAL INSTANCE SequencesExt

CONSTANTS Indexes,         \* content block indexes of the provider
          MaxSent,         \* bound: the provider's stream goes on below so many sent events
          NoActive, NoItem

VARIABLES source,          \* the provider's stream: "open", "over" or "left"
          active,          \* _active_blocks: index -> block
          nextFallback,    \* _fallback_text_index
          slots,           \* _output_slots: the committed items
          stopReason,
          provisional,     \* _provisional_error is set
          started, terminal,
          sent,            \* the events the client got
          final            \* the output of final_response

assemblyVars == <<source, active, nextFallback, slots, stopReason, provisional,
                  started, terminal, sent, final>>

AllIndexes == Indexes \union {-k : k \in 1..MaxSent}

Block(kind, slot) == [kind |-> kind, slot |-> slot, text |-> FALSE, args |-> "empty"]

ItemKinds == {"text", "reasoning", "encrypted", "function", "custom"}

AssemblyTypeOK ==
    /\ source \in {"open", "over", "left"}
    /\ \A i \in AllIndexes : active[i] = NoActive \/
          /\ active[i].kind \in ItemKinds /\ active[i].slot \in 1..Len(slots)
          /\ active[i].args \in {"empty", "whole", "broken"}
    /\ nextFallback \in (-MaxSent - 1)..(-1)
    /\ \A k \in 1..Len(slots) : slots[k] \in ItemKinds \union {NoItem}
    /\ stopReason \in {"end_turn", "max_tokens"}
    /\ provisional \in BOOLEAN /\ started \in BOOLEAN /\ terminal \in BOOLEAN

AssemblyInit ==
    /\ source = "open"
    /\ active = [i \in AllIndexes |-> NoActive] /\ nextFallback = -1
    /\ slots = <<>> /\ stopReason = "end_turn" /\ provisional = FALSE
    /\ started = FALSE /\ terminal = FALSE /\ sent = <<>> /\ final = <<>>

-----------------------------------------------------------------------------
(* What processing an event works on, as one value.                         *)
Assembler == [active |-> active, fallback |-> nextFallback, slots |-> slots,
              provisional |-> provisional, terminal |-> terminal, sent |-> sent, final |-> final]

ClientEvent(name, slot) == [event |-> name, slot |-> slot]

Sends(a, events) == [a EXCEPT !.sent = @ \o events]

(* _ensure_started                                                          *)
Started(a) == IF started THEN a ELSE Sends(a, <<ClientEvent("created", 0)>>)

OutputOf(items) == SelectSeq(items, LAMBDA item : item # NoItem)

(* The last event, with a final response.                                   *)
Ended(a, how) == [Sends(a, <<ClientEvent(how, 0)>>) EXCEPT !.terminal = TRUE,
                                                      !.final = OutputOf(a.slots)]

(* A fault, for the checks only: a broken call is dropped and forgotten.    *)
DropSilently(a) == a

(* _fail_invalid_function_call                                              *)
HoldBack(a) == [a EXCEPT !.provisional = TRUE]

Committed(a, b, events) ==
    Sends([a EXCEPT !.slots[b.slot] = b.kind], events \o <<ClientEvent("item_done", b.slot)>>)

(* complete_block                                                           *)
CompleteBlock(a, b) ==
    CASE b.kind = "text" ->
            Committed(a, b, <<ClientEvent("text_done", b.slot), ClientEvent("part_done", b.slot)>>)
      [] b.kind \in {"reasoning", "encrypted"} ->
            Committed(a, b, IF b.text THEN <<ClientEvent("reasoning_done", b.slot)>> ELSE <<>>)
      [] b.kind = "function" ->
            IF b.args = "broken" THEN HoldBack(a)
            ELSE Committed(a, b, <<ClientEvent("delta", b.slot), ClientEvent("args_done", b.slot)>>)
      [] OTHER ->
            Committed(a, b, (IF b.args = "empty" THEN <<>> ELSE <<ClientEvent("delta", b.slot)>>)
                            \o <<ClientEvent("args_done", b.slot)>>)

(* _complete_existing_block, and content_block_stop                         *)
CompleteAt(a, i) ==
    IF a.active[i] = NoActive THEN a
    ELSE CompleteBlock([a EXCEPT !.active[i] = NoActive], a.active[i])

(* pop_active_blocks_by_output_order: slot by slot.                         *)
Flushed(a) ==
    FoldLeft(LAMBDA f, slot :
                LET here == {i \in AllIndexes : f.active[i] # NoActive /\ f.active[i].slot = slot}
                IN  IF here = {} THEN f ELSE CompleteAt(f, CHOOSE i \in here : TRUE),
             a, [slot \in 1..Len(a.slots) |-> slot])

(* A fault, for the checks only: blocks still open are left so.             *)
FinishedOpen(a) == Ended(a, "completed")

(* finish_response                                                          *)
Finished(a) ==
    LET f == Flushed(a)
    IN  IF f.provisional THEN Ended(f, "failed")
        ELSE Ended(f, IF stopReason = "max_tokens" THEN "incomplete" ELSE "completed")

(* fail_response, fail_execution                                            *)
Failed(a) == Ended(Flushed(a), "failed")

(* reserve_output_slot; a block that the index still has is completed.      *)
StartAt(a, i, kind) ==
    LET c == CompleteAt(a, i)
        slot == Len(c.slots) + 1
        opened == [c EXCEPT !.slots = Append(@, NoItem), !.active[i] = Block(kind, slot)]
    IN  Sends(opened, <<ClientEvent("item_added", slot)>> \o
                      IF kind = "text" THEN <<ClientEvent("part_added", slot)>> ELSE <<>>)

TextAt(a, i) ==
    Sends([a EXCEPT !.active[i].text = TRUE], <<ClientEvent("delta", a.active[i].slot)>>)

(* A delta whose block is missing or of another kind starts one.            *)
EnsureAt(a, i, kinds, kind) ==
    IF a.active[i] # NoActive /\ a.active[i].kind \in kinds THEN a ELSE StartAt(a, i, kind)

Becomes(a) ==
    /\ active' = a.active /\ nextFallback' = a.fallback /\ slots' = a.slots
    /\ provisional' = a.provisional /\ terminal' = a.terminal /\ sent' = a.sent
    /\ final' = a.final

-----------------------------------------------------------------------------
(* process_anthropic_event; after the terminal event nothing is read.       *)
Receives ==
    /\ source = "open" /\ ~terminal /\ Len(sent) < MaxSent
    /\ started' = TRUE
    /\ UNCHANGED source

BlockStarts ==
    /\ Receives
    /\ \E i \in Indexes, kind \in ItemKinds, text \in BOOLEAN :
          LET s == StartAt(Started(Assembler), i, kind)
          IN  /\ text => kind # "encrypted"
              /\ Becomes(IF ~text THEN s
                         ELSE IF kind \in {"text", "reasoning"} THEN TextAt(s, i)
                         ELSE [s EXCEPT !.active[i].args = "whole"])
    /\ UNCHANGED stopReason

(* safe_text_index: text without an index is a block of its own.            *)
TextUnindexed ==
    /\ Receives
    /\ \E text \in BOOLEAN :
          LET a == [Started(Assembler) EXCEPT !.fallback = @ - 1]
              s == StartAt(a, nextFallback, "text")
          IN  Becomes(IF text THEN TextAt(s, nextFallback) ELSE s)
    /\ UNCHANGED stopReason

TextDelta ==
    /\ Receives
    /\ \E i \in Indexes :
          Becomes(TextAt(EnsureAt(Started(Assembler), i, {"text"}, "text"), i))
    /\ UNCHANGED stopReason

ThinkingDelta ==
    /\ Receives
    /\ \E i \in Indexes :
          Becomes(TextAt(EnsureAt(Started(Assembler), i, {"reasoning", "encrypted"},
                                  "reasoning"), i))
    /\ UNCHANGED stopReason

(* More arguments may complete a JSON object or break one; for another      *)
(* block, or none, they are dropped.                                        *)
ArgumentsDelta ==
    /\ Receives
    /\ \E i \in Indexes, args \in {"whole", "broken"} :
          LET a == Started(Assembler)
          IN  Becomes(IF a.active[i] # NoActive /\ a.active[i].kind \in {"function", "custom"}
                      THEN [a EXCEPT !.active[i].args = args] ELSE a)
    /\ UNCHANGED stopReason

BlockStops ==
    /\ Receives
    /\ \E i \in Indexes : Becomes(CompleteAt(Started(Assembler), i))
    /\ UNCHANGED stopReason

MessageDelta ==
    /\ Receives
    /\ stopReason' \in {"end_turn", "max_tokens"}
    /\ Becomes(Started(Assembler))

MessageStops ==
    /\ Receives
    /\ Becomes(Finished(Started(Assembler)))
    /\ UNCHANGED stopReason

ErrorEvent ==
    /\ Receives
    /\ Becomes(Failed(Started(Assembler)))
    /\ UNCHANGED stopReason

(* finish_if_needed, or nothing more is read.                               *)
SourceEnds ==
    /\ source = "open" /\ source' = "over"
    /\ IF terminal THEN UNCHANGED started /\ Becomes(Assembler)
       ELSE started' = TRUE /\ Becomes(Finished(Started(Assembler)))
    /\ UNCHANGED stopReason

(* A failure before the first event is raised, a later one is the end of    *)
(* the response.                                                            *)
SourceFails ==
    /\ source = "open" /\ ~terminal
    /\ IF sent = <<>> THEN source' = "left" /\ Becomes(Assembler)
                      ELSE source' = "over" /\ Becomes(Failed(Assembler))
    /\ UNCHANGED <<stopReason, started>>

(* The client goes away, or the request is cancelled.                       *)
ClientLeaves ==
    /\ source = "open" /\ source' = "left"
    /\ UNCHANGED <<stopReason, started>> /\ Becomes(Assembler)

AssemblyNext ==
    \/ BlockStarts \/ TextUnindexed \/ TextDelta \/ ThinkingDelta \/ ArgumentsDelta
    \/ BlockStops \/ MessageDelta \/ MessageStops \/ ErrorEvent
    \/ SourceEnds \/ SourceFails \/ ClientLeaves

AssemblySpec == AssemblyInit /\ [][AssemblyNext]_assemblyVars

-----------------------------------------------------------------------------
Positions(name, slot) == {k \in 1..Len(sent) : sent[k] = ClientEvent(name, slot)}
Terminals == {k \in 1..Len(sent) : sent[k].event \in {"completed", "incomplete", "failed"}}

(* The events are in the protocol's order: the response is created first;   *)
(* items are added in the order of their slots, once; all that is said of   *)
(* an item lies between its addition and its end; the terminal event is the *)
(* last, and a stream that ended has one.                                   *)
WellOrdered ==
    /\ sent # <<>> => Positions("created", 0) = {1}
    /\ \A s \in 1..Len(slots) :
          /\ \E k \in 1..Len(sent) : Positions("item_added", s) = {k}
          /\ \A k, l \in 1..Len(sent) : sent[k].slot = s /\ sent[l].slot = s =>
                /\ sent[k].event = "item_added" => k <= l
                /\ sent[k].event = "item_done" => l <= k
                /\ sent[k].event \in {"text_done", "reasoning_done", "args_done"}
                      /\ sent[l].event = "delta" => l < k
    /\ \A k, l \in 1..Len(sent) :
          sent[k].event = "item_added" /\ sent[l].event = "item_added" /\ k < l
              => sent[k].slot < sent[l].slot
    /\ Terminals \subseteq {Len(sent)}
    /\ source = "over" => Terminals # {}

(* What a response says it contains is what the client saw: its output has  *)
(* one item for every item done, in their order; a response that ends well  *)
(* has left no item open; and a function call whose arguments are broken    *)
(* never gets out: no event carries it, and the response fails              *)
(* (_fail_invalid_function_call).                                           *)
HonestEnd ==
    terminal =>
        /\ final = OutputOf(slots)
        /\ \A s \in 1..Len(slots) : (slots[s] # NoItem) = (Positions("item_done", s) # {})
        /\ sent[Len(sent)].event # "failed" => \A s \in 1..Len(slots) : slots[s] # NoItem
        /\ \A i \in AllIndexes : active[i] = NoActive

ResponsesContract == WellOrdered /\ HonestEnd
=============================================================================
