---------------------------- MODULE TurnTranscript ----------------------------
(***************************************************************************)
(* What the user sees of one turn (messaging/node_runner.py,               *)
(* node_event_pipeline.py, event_parser.py, ui_updates.py, transcript/):   *)
(* the events of a Claude process become a transcript, in which the talk   *)
(* of subagents is left out, the status message is edited at most once a   *)
(* second unless it must be, and the end of the process decides what       *)
(* becomes of the node and of the replies that wait for it.                *)
(*                                                                         *)
(* Every tool call has an id of its own.  A segment keeps the number of    *)
(* its pieces, of an agent that of its tool calls; "by" only tells who     *)
(* spoke.  A text carries the number of the event it was last changed by;  *)
(* lengths and truncation are left out, and so is a cancellation while the *)
(* runner reports a failure of its own.                                    *)
(***************************************************************************)
EXTENDS Naturals, Sequences

CONSTANTS MaxEvents,    \* events of the process
          MaxLost       \* edits that the platform refuses

VARIABLES
    told,       \* what the process said: blocks in order
    running,    \* its subagents: positions in said, in the order they started
    saying,     \* the block it is streaming, 0 if none
    overtaken,  \* a subagent ended before a younger one
    shownSegments,   \* TranscriptBuffer: what is shown of it
    openSeg,    \* the segment of the open block, 0 if none
    stack,      \* SubagentState: the position in said and the segment of each
    screen,     \* the status message: its status and the event it shows
    lastLine,   \* last_status of the runner
    events, erred, talkedOn, lost,
    node,       \* the state of the node
    repliesFailed,
    turnPhase       \* of the runner

turnVars == <<told, running, saying, overtaken, shownSegments, openSeg, stack, screen, lastLine,
              events, erred, talkedOn, lost, node, repliesFailed, turnPhase>>

Process == <<told, running, saying, overtaken>>
Shown == <<shownSegments, openSeg, stack>>
Outcome == <<node, repliesFailed, turnPhase>>

Spoken(kind, by, n) == [kind |-> kind, by |-> by, n |-> n]
Speech == {"text", "thinking"}

TurnInit ==
    /\ told = <<>> /\ running = <<>> /\ saying = 0 /\ overtaken = FALSE
    /\ shownSegments = <<>> /\ openSeg = 0 /\ stack = <<>>
    /\ screen = [line |-> "waiting", upto |-> 0] /\ lastLine = "none"
    /\ events = 0 /\ erred = FALSE /\ talkedOn = FALSE /\ lost = 0
    /\ node = "running" /\ repliesFailed = FALSE /\ turnPhase = "starting"

(* A fault, for the checks only: any edit may be left to a later one.      *)
MayWait(line, upto) ==
    \/ screen' = [line |-> line, upto |-> upto] /\ UNCHANGED lost
    \/ UNCHANGED <<screen, lost>>

(* ThrottledTranscriptEditor.update: what need not be shown at once may be *)
(* left to the next update; a refused edit is logged.                      *)
Edit(line, upto) ==
    \/ screen' = [line |-> line, upto |-> upto] /\ UNCHANGED lost
    \/ lost < MaxLost /\ lost' = lost + 1 /\ UNCHANGED screen

UpdateIfDue(line, upto) == Edit(line, upto) \/ UNCHANGED <<screen, lost>>

TurnEvent ==
    /\ turnPhase = "streaming" /\ events < MaxEvents /\ events' = events + 1
    /\ talkedOn' = (talkedOn \/ erred)

Speaker == IF running = <<>> THEN "main" ELSE "sub"

-----------------------------------------------------------------------------
(* The speech of the process, as whole blocks or in pieces.                *)
InSubagent == stack # <<>>

SayChunk(kind) ==
    /\ TurnEvent /\ saying = 0
    /\ told' = Append(told, Spoken(kind, Speaker, 1))
    /\ shownSegments' = IF InSubagent THEN shownSegments
                         ELSE Append(shownSegments, Spoken(kind, Speaker, 1))
    /\ UpdateIfDue("busy", events') /\ lastLine' = "busy"
    /\ UNCHANGED <<running, saying, overtaken, openSeg, stack, erred, Outcome>>

BlockBegins(kind) ==
    /\ TurnEvent /\ saying = 0
    /\ told' = Append(told, Spoken(kind, Speaker, 0)) /\ saying' = Len(told) + 1
    /\ IF InSubagent THEN UNCHANGED <<shownSegments, openSeg>>
       ELSE /\ shownSegments' = Append(shownSegments, Spoken(kind, Speaker, 0))
            /\ openSeg' = Len(shownSegments) + 1
    /\ UpdateIfDue("busy", events') /\ lastLine' = "busy"
    /\ UNCHANGED <<running, overtaken, stack, erred, Outcome>>

(* A fault, for the checks only: every piece is a segment of its own.      *)
SegmentOfItsOwn(kind) ==
    shownSegments' = Append(shownSegments, Spoken(kind, Speaker, 1)) /\ UNCHANGED openSeg

(* A piece of a block without a start opens its segment.                   *)
AppendPiece(kind) ==
    IF openSeg # 0
    THEN shownSegments' = [shownSegments EXCEPT ![openSeg].n = @ + 1] /\ UNCHANGED openSeg
    ELSE /\ shownSegments' = Append(shownSegments, Spoken(kind, Speaker, 1))
         /\ openSeg' = Len(shownSegments) + 1

SayPiece ==
    /\ TurnEvent /\ saying # 0 /\ told[saying].kind \in Speech
    /\ told' = [told EXCEPT ![saying].n = @ + 1]
    /\ IF InSubagent THEN UNCHANGED <<shownSegments, openSeg>> ELSE AppendPiece(told[saying].kind)
    /\ UpdateIfDue("busy", events') /\ lastLine' = "busy"
    /\ UNCHANGED <<running, saying, overtaken, stack, erred, Outcome>>

(* The end of a block shows what there is at once.                         *)
BlockEnds ==
    /\ TurnEvent /\ saying # 0 /\ saying' = 0
    /\ openSeg' = 0
    /\ Edit(lastLine, events')
    /\ UNCHANGED <<told, running, overtaken, shownSegments, stack, lastLine, erred, Outcome>>

-----------------------------------------------------------------------------
(* Tools.  A call within a subagent is counted there; a Task starts one.   *)
CallOneTool ==
    /\ TurnEvent /\ saying = 0
    /\ told' = IF running = <<>> THEN Append(told, Spoken("tool", "main", 0))
               ELSE [told EXCEPT ![running[Len(running)]].n = @ + 1]
    /\ shownSegments' = IF InSubagent
                   THEN [shownSegments EXCEPT ![stack[Len(stack)].seg].n = @ + 1]
                   ELSE Append(shownSegments, Spoken("tool", "main", 0))
    /\ UpdateIfDue("busy", events') /\ lastLine' = "busy"
    /\ UNCHANGED <<running, saying, overtaken, openSeg, stack, erred, Outcome>>

StartTask ==
    /\ TurnEvent /\ saying = 0
    /\ told' = Append(told, Spoken("agent", "main", 0))
    /\ running' = Append(running, Len(told) + 1)
    /\ shownSegments' = Append(shownSegments, Spoken("agent", "main", 0))
    /\ stack' = Append(stack, [id |-> Len(told) + 1, seg |-> Len(shownSegments) + 1])
    /\ UpdateIfDue("busy", events') /\ lastLine' = "busy"
    /\ UNCHANGED <<saying, overtaken, openSeg, erred, Outcome>>

(* A fault, for the checks only: a result ends no subagent.                *)
ClosesNone(id) == Len(stack)

(* close_for_tool_result: its subagent and those above it.                 *)
ClosesTo(id) ==
    IF \E k \in DOMAIN stack : stack[k].id = id
    THEN (CHOOSE k \in DOMAIN stack : stack[k].id = id) - 1
    ELSE Len(stack)

EndTask(k) ==
    /\ TurnEvent /\ saying = 0
    /\ overtaken' = (overtaken \/ k < Len(running))
    /\ running' = SubSeq(running, 1, k - 1) \o SubSeq(running, k + 1, Len(running))
    /\ stack' = SubSeq(stack, 1, ClosesTo(running[k]))
    /\ UpdateIfDue("busy", events') /\ lastLine' = "busy"
    /\ UNCHANGED <<told, saying, shownSegments, openSeg, erred, Outcome>>

-----------------------------------------------------------------------------
(* Errors and the end.                                                     *)
ErrorSegment(by) == shownSegments' = Append(shownSegments, Spoken("error", by, 0))

FailNode == node' = IF node = "completed" THEN node ELSE "error"

StartTurn ==
    /\ turnPhase = "starting" /\ turnPhase' = "streaming"
    /\ UNCHANGED <<Process, Shown, screen, lastLine, events, erred, talkedOn, lost, node,
                   repliesFailed>>

(* No session is free: the turn fails, its replies may still run.          *)
SessionLimit ==
    /\ turnPhase = "starting" /\ turnPhase' = "ended"
    /\ ErrorSegment("runner") /\ Edit("limit", events) /\ FailNode
    /\ UNCHANGED <<Process, openSeg, stack, lastLine, events, erred, talkedOn, repliesFailed>>

(* An error of the process is shown; what becomes of the replies is        *)
(* decided at its end.                                                     *)
ProcessErrs ==
    /\ turnPhase = "streaming" /\ events < MaxEvents /\ events' = events + 1
    /\ erred' = TRUE /\ talkedOn' = FALSE
    /\ ErrorSegment("runner") /\ Edit("error", events') /\ FailNode
    /\ UNCHANGED <<Process, openSeg, stack, lastLine, repliesFailed, turnPhase>>

(* A successful exit: it is shown before it is recorded.                   *)
ExitSuccess ==
    /\ turnPhase = "streaming" /\ turnPhase' = "completing"
    /\ shownSegments' = IF events # 0 THEN shownSegments
                         ELSE Append(shownSegments, Spoken("text", "runner", 1))
    /\ Edit("complete", events)
    /\ UNCHANGED <<Process, openSeg, stack, lastLine, events, erred, talkedOn, node, repliesFailed>>

RecordCompleted ==
    /\ turnPhase = "completing" /\ turnPhase' = "ended" /\ node' = "completed"
    /\ UNCHANGED <<Process, Shown, screen, lastLine, events, erred, talkedOn, lost, repliesFailed>>

(* Any other end, also one without an exit: an error that was shown        *)
(* already is not shown again.                                             *)
ExitFailure(line) ==
    /\ turnPhase = "streaming" /\ turnPhase' = "ended"
    /\ IF erred THEN UNCHANGED <<shownSegments, screen, lost>>
       ELSE ErrorSegment("runner") /\ Edit(line, events)
    /\ FailNode /\ repliesFailed' = TRUE
    /\ UNCHANGED <<Process, openSeg, stack, lastLine, events, erred, talkedOn>>

(* The runner itself fails: it shows that, then it fails the node.         *)
RunnerError ==
    /\ turnPhase = "streaming" /\ turnPhase' = "reporting"
    /\ ErrorSegment("runner") /\ Edit("failed", events)
    /\ UNCHANGED <<Process, openSeg, stack, lastLine, events, erred, talkedOn, node, repliesFailed>>

ReportError ==
    /\ turnPhase = "reporting" /\ turnPhase' = "ended"
    /\ FailNode /\ repliesFailed' = TRUE
    /\ UNCHANGED <<Process, Shown, screen, lastLine, events, erred, talkedOn, lost>>

(* A stop, a shutdown or a clear: the tree has cancelled the node, the     *)
(* runner shows it, except for a message that is being deleted.            *)
CancelTurn(line) ==
    /\ turnPhase \in {"starting", "streaming", "completing"} /\ turnPhase' = "ended"
    /\ node' = "error"
    /\ IF line = "cancelled" THEN ErrorSegment("runner") ELSE UNCHANGED shownSegments
    /\ IF line = "cleared"
       THEN screen' = [screen EXCEPT !.line = "cleared"] /\ UNCHANGED lost
       ELSE Edit(line, events)
    /\ UNCHANGED <<Process, openSeg, stack, lastLine, events, erred, talkedOn, repliesFailed>>

TurnNext ==
    \/ \E kind \in Speech : SayChunk(kind) \/ BlockBegins(kind)
    \/ SayPiece \/ BlockEnds \/ CallOneTool \/ StartTask
    \/ \E k \in DOMAIN running : EndTask(k)
    \/ StartTurn \/ SessionLimit \/ ProcessErrs \/ ExitSuccess \/ RecordCompleted
    \/ ExitFailure("error") \/ ExitFailure("failed") \/ RunnerError \/ ReportError
    \/ \E line \in {"stopped", "cancelled", "cleared"} : CancelTurn(line)

TurnSpec == TurnInit /\ [][TurnNext]_turnVars

-----------------------------------------------------------------------------
Lines == {"waiting", "none", "busy", "error", "failed", "limit", "complete", "stopped",
          "cancelled", "cleared"}

TurnTypeOK ==
    /\ Len(told) <= MaxEvents /\ saying \in 0 .. Len(told)
    /\ \A k \in DOMAIN running : running[k] \in DOMAIN told
    /\ openSeg \in 0 .. Len(shownSegments)
    /\ \A k \in DOMAIN stack : stack[k].seg \in DOMAIN shownSegments
    /\ screen.line \in Lines /\ screen.upto \in 0 .. MaxEvents /\ lost \in 0 .. MaxLost
    /\ node \in {"running", "error", "completed"}
    /\ turnPhase \in {"starting", "streaming", "completing", "reporting", "ended"}

Written(blocks, by) ==
    SelectSeq(blocks, LAMBDA b : b.by = by /\ b.kind # "error" /\ (b.kind \in Speech => b.n > 0))

(* All that the agent itself says is in the transcript, in order, a block  *)
(* to a segment, together with its tools and the subagents it started;     *)
(* what these say is not, and their calls are counted where they belong,   *)
(* as long as no subagent ends before a younger one.                       *)
TalkShown ==
    /\ ~overtaken =>
          /\ Written(shownSegments, "main") = Written(told, "main")
          /\ Written(shownSegments, "sub") = <<>>
    /\ overtaken =>
          SelectSeq(Written(shownSegments, "main"), LAMBDA b : b.kind \in Speech)
              = SelectSeq(Written(told, "main"), LAMBDA b : b.kind \in Speech)

(* The last thing the user sees of a turn is how it ended and all there is *)
(* of it, if the platform took the edits and the process said nothing      *)
(* after an error.                                                         *)
OutcomeShown ==
    turnPhase = "ended" /\ lost = 0 /\ ~talkedOn /\ screen.line # "cleared" =>
        /\ screen.upto = events
        /\ node = "completed" <=> screen.line = "complete"
        /\ node = "error" <=> screen.line \in {"error", "failed", "limit", "stopped", "cancelled"}

(* The replies that wait for a turn fail when it failed, and only then:    *)
(* not while it may still succeed.                                         *)
RepliesFollow ==
    /\ repliesFailed => turnPhase = "ended" /\ node = "error"
    /\ turnPhase = "ended" /\ node = "error" /\ screen.line = "failed" => repliesFailed

TurnTold == TalkShown /\ OutcomeShown /\ RepliesFollow
=============================================================================
