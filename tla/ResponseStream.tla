------------------------------ MODULE ResponseStream ------------------------------
(***************************************************************************)
(* One request of the public API from the lease of a provider generation   *)
(* to the end of its response (api/routes.py, api/handlers/messages.py and *)
(* responses.py, application/execution.py, api/response_streams.py,        *)
(* core/trace.py).  The first chunk is awaited before there is a response, *)
(* so that a failure can still become an HTTP error.  After it the response *)
(* owns the body and the lease; the end of the stream, a disconnect and    *)
(* the owner's close all lead to one cleanup task, which those who wait    *)
(* for it cannot cancel.                                                   *)
(***************************************************************************)
EXTENDS Naturals, Sequences

CONSTANTS MaxFrames,       \* bound: chunks after the first
          MaxCancels       \* bound: cancellations of the request's task

ASSUME ResponseAssumption == MaxFrames \in Nat /\ MaxCancels \in Nat

VARIABLES wire,            \* "messages" or "responses"
          streamed,        \* whether the client asked for a stream
          request,         \* where the request's task is
          body,            \* the provider's stream
          lease,           \* the generation lease of the request
          finalizer,         \* the cleanup task
          owner,           \* the one who may close the response from outside
          frames,          \* what was sent to the client
          cancels,         \* cancellations so far
          pending,         \* a cancellation kept while cleanup is awaited
          outcome          \* how the request ended

responseVars == <<wire, streamed, request, body, lease, finalizer, owner, frames, cancels,
                  pending, outcome>>

RequestStates == {"acquiring", "routing", "prefetch", "aggregating", "preclosing", "leaving",
                  "bound", "responding", "closing", "ended"}

BodyOpen == body \in {"created", "reading"}

ResponseTypeOK ==
    /\ wire \in {"messages", "responses"} /\ streamed \in BOOLEAN
    /\ request \in RequestStates
    /\ body \in {"none", "created", "reading", "finished", "failed", "closed"}
    /\ lease \in {"none", "held", "released"}
    /\ finalizer \in {"none", "body", "release", "done"}
    /\ owner \in {"away", "closing", "done"}
    /\ Len(frames) <= MaxFrames + 2
    /\ cancels \in 0..MaxCancels /\ pending \in BOOLEAN
    /\ outcome \in {"none", "error", "answered", "streamed", "cancelled", "raised"}

ResponseInit ==
    /\ wire \in {"messages", "responses"}
    /\ streamed \in (IF wire = "responses" THEN {TRUE} ELSE BOOLEAN)
    /\ request = "acquiring" /\ body = "none" /\ lease = "none" /\ finalizer = "none"
    /\ owner = "away" /\ frames = <<>> /\ cancels = 0 /\ pending = FALSE
    /\ outcome = "none"

-----------------------------------------------------------------------------
AcquireLease ==
    /\ request = "acquiring"
    /\ \/ request' = "routing" /\ lease' = "held" /\ UNCHANGED outcome
       \/ request' = "ended" /\ outcome' = "error" /\ UNCHANGED lease
    /\ UNCHANGED <<wire, streamed, body, finalizer, owner, frames, cancels, pending>>

(* ProviderExecutor.stream: the stream is made, its generators not begun.   *)
OpenBody ==
    /\ body' = "created"
    /\ request' = IF streamed THEN "prefetch" ELSE "aggregating"
    /\ UNCHANGED outcome

(* create: without an await a message request is routed, refused, answered  *)
(* by an interception, or its stream is made.                               *)
RouteMessage ==
    /\ request = "routing" /\ wire = "messages"
    /\ \/ request' = "leaving" /\ outcome' \in {"error", "raised", "answered"} /\ UNCHANGED body
       \/ OpenBody
    /\ UNCHANGED <<wire, streamed, lease, finalizer, owner, frames, cancels, pending>>

(* A Responses request is converted first, and any failure is an answer.    *)
RouteResponse ==
    /\ request = "routing" /\ wire = "responses"
    /\ \/ request' = "leaving" /\ outcome' = "error" /\ UNCHANGED body
       \/ OpenBody
    /\ UNCHANGED <<wire, streamed, lease, finalizer, owner, frames, cancels, pending>>

(* _first_chunk_streaming_response                                          *)
FirstChunk ==
    /\ request = "prefetch"
    /\ body' = "reading" /\ request' = "bound"
    /\ UNCHANGED <<wire, streamed, lease, finalizer, owner, frames, cancels, pending,
                   outcome>>

(* No chunk, or an error before it: the body is closed in a task, and then  *)
(* the error is the answer.                                                 *)
PreStartFails ==
    /\ request = "prefetch"
    /\ body' = "reading" /\ request' = "preclosing" /\ finalizer' = "body" /\ outcome' = "error"
    /\ UNCHANGED <<wire, streamed, lease, owner, frames, cancels, pending>>

(* A complete message is made out of the stream (a failure inside it is the *)
(* answer too).  The generators end with the last chunk or the error.       *)
Aggregate ==
    /\ request = "aggregating"
    /\ body' \in {"finished", "failed"}
    /\ outcome' = IF body' = "finished" THEN "answered" ELSE "error"
    /\ request' = "leaving"
    /\ UNCHANGED <<wire, streamed, lease, finalizer, owner, frames, cancels, pending>>

PreStartClosed ==
    /\ request = "preclosing" /\ finalizer = "done"
    /\ request' = "leaving"
    /\ outcome' = IF pending THEN "cancelled" ELSE outcome
    /\ UNCHANGED <<wire, streamed, body, lease, finalizer, owner, frames, cancels, pending>>

(* No streaming response was made: routes.py gives the lease back.          *)
LeaveRequest ==
    /\ request = "leaving"
    /\ lease' = "released" /\ request' = "ended"
    /\ UNCHANGED <<wire, streamed, body, finalizer, owner, frames, cancels, pending,
                   outcome>>

-----------------------------------------------------------------------------
(* ManagedStreamingResponse                                                 *)
StartResponse ==
    /\ request = "bound" /\ owner = "away"
    /\ request' = "responding"
    /\ UNCHANGED <<wire, streamed, body, lease, finalizer, owner, frames, cancels, pending,
                   outcome>>

Terminated == \E k \in 1..Len(frames) : frames[k] = "terminal"

SendFrame(frame) == frames' = Append(frames, frame)

(* The prefetched chunk is replayed, then the body goes on.                 *)
SendChunk ==
    /\ request = "responding" /\ body = "reading" /\ Len(frames) <= MaxFrames
    /\ SendFrame("chunk")
    /\ UNCHANGED <<wire, streamed, request, body, lease, finalizer, owner, cancels, pending,
                   outcome>>

BodyEnds ==
    /\ request = "responding" /\ body = "reading" /\ frames # <<>>
    /\ body' = "finished" /\ outcome' = "streamed" /\ request' = "closing"
    /\ UNCHANGED <<wire, streamed, lease, finalizer, owner, frames, cancels, pending>>

(* A failure after the first chunk: the Messages API ends its stream with   *)
(* an error frame; the Responses body has made its own.                     *)
TerminalChunk(api) == api = "messages"

BodyFails ==
    /\ request = "responding" /\ body = "reading" /\ frames # <<>>
    /\ body' = "failed" /\ request' = "closing"
    /\ IF TerminalChunk(wire)
       THEN SendFrame("terminal") /\ outcome' = "streamed"
       ELSE outcome' = "raised" /\ UNCHANGED frames
    /\ UNCHANGED <<wire, streamed, lease, finalizer, owner, cancels, pending>>

(* The client goes away: the sending is cancelled, the response ends.       *)
Disconnect ==
    /\ request = "responding"
    /\ request' = "closing" /\ outcome' = "streamed"
    /\ UNCHANGED <<wire, streamed, body, lease, finalizer, owner, frames, cancels, pending>>

(* The owner closes a response, be it never started or just ending.         *)
OwnerCloses ==
    /\ request \in {"bound", "closing"} /\ owner = "away"
    /\ owner' = "closing"
    /\ UNCHANGED <<wire, streamed, request, body, lease, finalizer, frames, cancels, pending,
                   outcome>>

(* A fault, for the checks only: the end of the response closes nothing.    *)
OwnerOnly == owner = "closing"

(* _close: whoever comes first makes the task.                              *)
BodyClosers == request = "closing" \/ owner = "closing"

StartCleanup ==
    /\ BodyClosers /\ finalizer = "none"
    /\ finalizer' = "body"
    /\ UNCHANGED <<wire, streamed, request, body, lease, owner, frames, cancels, pending,
                   outcome>>

(* close_stream_input: an error of the close is only traced.                *)
CleanupBody ==
    /\ finalizer = "body"
    /\ body' = IF BodyOpen THEN "closed" ELSE body
    /\ finalizer' = IF request = "preclosing" THEN "done" ELSE "release"
    /\ UNCHANGED <<wire, streamed, request, lease, owner, frames, cancels, pending,
                   outcome>>

CleanupRelease ==
    /\ finalizer = "release"
    /\ lease' = "released" /\ finalizer' = "done"
    /\ UNCHANGED <<wire, streamed, request, body, owner, frames, cancels, pending,
                   outcome>>

ResponseClosed ==
    /\ request = "closing" /\ finalizer = "done"
    /\ request' = "ended"
    /\ outcome' = IF pending THEN "cancelled" ELSE outcome
    /\ UNCHANGED <<wire, streamed, body, lease, finalizer, owner, frames, cancels, pending>>

OwnerDone ==
    /\ owner = "closing" /\ finalizer = "done"
    /\ owner' = "done"
    /\ request' = IF request = "bound" THEN "ended" ELSE request
    /\ UNCHANGED <<wire, streamed, body, lease, finalizer, frames, cancels, pending, outcome>>

-----------------------------------------------------------------------------
(* A fault, for the checks only: a cancellation ends the wait.              *)
CancelledWaiting ==
    /\ request \in {"preclosing", "closing"}
    /\ request' = "leaving" /\ outcome' = "cancelled"
    /\ UNCHANGED <<wire, streamed, body, lease, finalizer, owner, frames, pending>>

(* _wait_for_cleanup: repeated cancellations are kept until the task ends.  *)
WaitThrough ==
    /\ request \in {"preclosing", "closing"} /\ finalizer # "done"
    /\ pending' = TRUE
    /\ UNCHANGED <<wire, streamed, request, body, lease, finalizer, owner, frames, outcome>>

(* The task of the request is cancelled at an await.                        *)
CancelRequest ==
    /\ cancels < MaxCancels /\ cancels' = cancels + 1
    /\ \/ /\ request = "acquiring" /\ request' = "ended" /\ outcome' = "cancelled"
          /\ UNCHANGED <<wire, streamed, body, lease, finalizer, owner, frames, pending>>
       \/ /\ request = "prefetch" /\ request' = "preclosing" /\ finalizer' = "body"
          /\ outcome' = "cancelled" /\ body' = "reading"
          /\ UNCHANGED <<wire, streamed, lease, owner, frames, pending>>
       \/ /\ request = "aggregating" /\ request' = "leaving" /\ outcome' = "cancelled"
          /\ body' = "failed"
          /\ UNCHANGED <<wire, streamed, lease, finalizer, owner, frames, pending>>
       \/ /\ request = "responding" /\ request' = "closing" /\ outcome' = "cancelled"
          /\ UNCHANGED <<wire, streamed, body, lease, finalizer, owner, frames, pending>>
       \/ WaitThrough

ResponseProgress ==
    \/ AcquireLease \/ RouteMessage \/ RouteResponse
    \/ FirstChunk \/ PreStartFails \/ Aggregate
    \/ PreStartClosed \/ LeaveRequest \/ StartResponse \/ SendChunk \/ BodyEnds \/ BodyFails
    \/ StartCleanup \/ CleanupBody \/ CleanupRelease \/ ResponseClosed \/ OwnerDone

ResponseNext == ResponseProgress \/ Disconnect \/ OwnerCloses \/ CancelRequest

(* The server runs a request that can run; providers answer or time out.    *)
ResponseSpec == ResponseInit /\ [][ResponseNext]_responseVars /\ WF_responseVars(ResponseProgress)

-----------------------------------------------------------------------------
(* The generation is held for as long as its stream is open: the lease goes *)
(* back once, and only when the body is at its end or closed, whatever ends *)
(* the response and however often it is cancelled (bind_response_lifetime). *)
LeaseOutlivesBody == lease = "released" => ~BodyOpen

(* A request that is over holds nothing, and one whose task was cancelled   *)
(* during the cleanup says so (_wait_for_cleanup).                          *)
EndedHoldsNothing ==
    request = "ended" => /\ lease # "held" /\ ~BodyOpen
                         /\ pending => outcome = "cancelled"

(* Nothing follows an error frame, and a Messages stream that broke off has *)
(* one as its end (_terminal_chunk).                                        *)
TerminalFrameLast ==
    /\ \A k \in 1..Len(frames) : frames[k] = "terminal" => k = Len(frames)
    /\ wire = "messages" /\ frames # <<>> /\ body = "failed" => Terminated

ResponsesExact == LeaseOutlivesBody /\ EndedHoldsNothing /\ TerminalFrameLast

(* Every request comes to its end and gives its lease back.                 *)
LeaseReturned == request = "ended" /\ lease # "held"

EveryLeaseReturns == <>LeaseReturned
=============================================================================
