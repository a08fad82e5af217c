------------------------------- MODULE VoiceNotes -------------------------------
(***************************************************************************)
(* Voice notes before they are turns (messaging/voice.py,                  *)
(* platforms/voice_flow.py).  The flow of a note reserves its message,     *)
(* sends and binds a status, transcribes and hands the text to messaging   *)
(* in a task of its own.  A /stop or /clear, from outside or spoken in a   *)
(* note, takes the notes it strikes out of the registry, cancels their     *)
(* handoffs and waits for them.  The registry's lock guards no await, so   *)
(* each of its operations is one step.  An entry is named by its claim,    *)
(* that is by the flow that reserved it; a redelivery is another flow of   *)
(* the same message.                                                       *)
(***************************************************************************)
EXTENDS Naturals, FiniteSets

CONSTANTS Flows,           \* deliveries of voice notes
          MessageOf,       \* the voice message of a delivery
          Commands,        \* /stop and /clear commands that are no voice notes
          NoFlow

(* A status is another message than a voice note: the platform numbers its  *)
(* messages.                                                                *)
ASSUME VoiceAssumption ==
    /\ NoFlow \notin Flows
    /\ \A f \in Flows : \A g \in Flows : MessageOf[f] # <<"status", g>>

VARIABLES registry,        \* _pending: a message or a status -> its entry
          flow,            \* flow[f]: where the delivery f is
          status,          \* the status message of f
          handoff,         \* the handoff task of f
          struck,          \* handoffs asked to cancel
          handed,          \* flows whose text reached messaging
          released,        \* how the ownership of f ended
          draining,        \* draining[a]: the handoffs command a waits for
          protects,        \* _active_cancellations: commands running in a handoff
          command          \* command[a]: "idle", "draining" or "done"

voiceVars == <<registry, flow, status, handoff, struck, handed, released, draining,
               protects, command>>

VoiceMessages == {MessageOf[f] : f \in Flows}
StatusOf(f) == <<"status", f>>
References == VoiceMessages \union {StatusOf(f) : f \in Flows}

(* A command acts for nobody, or for the note whose handoff runs it.        *)
Speakers == Commands \union Flows

FlowStates == {"new", "reserved", "sent", "transcribing", "handoff", "cancelling", "ended"}

VoiceTypeOK ==
    /\ registry \in [References -> Flows \union {NoFlow}]
    /\ flow \in [Flows -> FlowStates]
    /\ status \in [Flows -> {"none", "sent", "bound", "deleted"}]
    /\ handoff \in [Flows -> {"none", "created", "running", "ended"}]
    /\ struck \subseteq Flows /\ handed \subseteq Flows
    /\ released \in [Flows -> {"no", "rejected", "discard", "command", "handoff"}]
    /\ draining \in [Speakers -> SUBSET Flows] /\ protects \subseteq Flows
    /\ command \in [Speakers -> {"idle", "draining", "done"}]

VoiceInit ==
    /\ registry = [k \in References |-> NoFlow]
    /\ flow = [f \in Flows |-> "new"] /\ status = [f \in Flows |-> "none"]
    /\ handoff = [f \in Flows |-> "none"] /\ struck = {} /\ handed = {}
    /\ released = [f \in Flows |-> "no"]
    /\ draining = [a \in Speakers |-> {}] /\ protects = {}
    /\ command = [a \in Speakers |-> "idle"]

-----------------------------------------------------------------------------
(* A fault, for the checks only: whatever entry the message has is taken    *)
(* for one's own.                                                           *)
HasEntry(f) == registry[MessageOf[f]] # NoFlow

(* _entry_for_claim                                                         *)
Owned(f) == registry[MessageOf[f]] = f

Without(fs) == [k \in References |-> IF registry[k] \in fs THEN NoFlow ELSE registry[k]]

ReleaseNote(f, how) ==
    /\ registry' = Without({f})
    /\ released' = [released EXCEPT ![f] = how]

GoTo(f, place) == flow' = [flow EXCEPT ![f] = place]

(* reserve: a second delivery of a pending message is dropped.              *)
Reserve(f) ==
    /\ flow[f] = "new"
    /\ IF registry[MessageOf[f]] = NoFlow
       THEN /\ registry' = [registry EXCEPT ![MessageOf[f]] = f]
            /\ GoTo(f, "reserved") /\ UNCHANGED released
       ELSE /\ GoTo(f, "ended") /\ released' = [released EXCEPT ![f] = "rejected"]
            /\ UNCHANGED registry
    /\ UNCHANGED <<status, handoff, struck, handed, draining, protects, command>>

StatusSent(f) ==
    /\ flow[f] = "reserved"
    /\ GoTo(f, "sent") /\ status' = [status EXCEPT ![f] = "sent"]
    /\ UNCHANGED <<registry, handoff, struck, handed, released, draining, protects, command>>

(* A failed flow gives up its entry, if it still has it, and deletes its    *)
(* status unless a command owns it now.                                     *)
DiscardEntry(f) ==
    /\ IF Owned(f) THEN ReleaseNote(f, "discard") ELSE UNCHANGED <<registry, released>>
    /\ status' = [status EXCEPT ![f] =
                    IF @ = "sent" \/ (@ = "bound" /\ Owned(f)) THEN "deleted" ELSE @]
    /\ GoTo(f, "ended")

(* bind_status: too late if a command has taken the entry.                  *)
BindStatus(f) ==
    /\ flow[f] = "sent"
    /\ IF Owned(f)
       THEN /\ registry' = [registry EXCEPT ![StatusOf(f)] = f]
            /\ status' = [status EXCEPT ![f] = "bound"]
            /\ GoTo(f, "transcribing") /\ UNCHANGED released
       ELSE DiscardEntry(f)
    /\ UNCHANGED <<handoff, struck, handed, draining, protects, command>>

(* Sending, downloading or transcribing fails, or the flow is cancelled.    *)
FlowFails(f) ==
    /\ flow[f] \in {"reserved", "sent", "transcribing"}
    /\ DiscardEntry(f)
    /\ UNCHANGED <<handoff, struck, handed, draining, protects, command>>

(* A fault, for the checks only: a cancelled note is handed off.            *)
CanAlwaysHandOff(f) == status[f] = "bound"

(* handoff: of an entry that is still owned.                                *)
CanHandOff(f) == Owned(f)

HandOff(f) ==
    /\ flow[f] = "transcribing"
    /\ IF CanHandOff(f)
       THEN /\ handoff' = [handoff EXCEPT ![f] = "created"]
            /\ GoTo(f, "handoff") /\ UNCHANGED <<registry, released, status>>
       ELSE DiscardEntry(f) /\ UNCHANGED handoff
    /\ UNCHANGED <<struck, handed, draining, protects, command>>

(* The task of the handoff; one that is cancelled before it starts never    *)
(* runs its callback.                                                       *)
HandoffStarts(f) ==
    /\ handoff[f] = "created"
    /\ IF f \in struck THEN handoff' = [handoff EXCEPT ![f] = "ended"] /\ UNCHANGED handed
       ELSE handoff' = [handoff EXCEPT ![f] = "running"] /\ handed' = handed \union {f}
    /\ UNCHANGED <<registry, flow, status, struck, released, draining, protects, command>>

(* It ends or fails by itself, or by its cancellation; a command it runs    *)
(* is finished first.                                                       *)
HandoffEnds(f) ==
    /\ handoff[f] = "running" /\ command[f] # "draining"
    /\ handoff' = [handoff EXCEPT ![f] = "ended"]
    /\ UNCHANGED <<registry, flow, status, struck, handed, released, draining, protects, command>>

(* The flow is cancelled while it waits for its handoff.                    *)
FlowCancelled(f) ==
    /\ flow[f] = "handoff"
    /\ struck' = struck \union {f}
    /\ GoTo(f, "cancelling")
    /\ UNCHANGED <<registry, status, handoff, handed, released, draining, protects, command>>

(* _finish_ownership, when the handoff is over.                             *)
FinishOwnership(f) ==
    /\ flow[f] \in {"handoff", "cancelling"} /\ handoff[f] = "ended"
    /\ IF Owned(f) THEN ReleaseNote(f, "handoff") ELSE UNCHANGED <<registry, released>>
    /\ GoTo(f, "ended")
    /\ UNCHANGED <<status, handoff, struck, handed, draining, protects, command>>

-----------------------------------------------------------------------------
(* Notes a command may not take: the one it is spoken in, and those that    *)
(* run a command themselves.                                                *)
Excluded(a) == protects \union (Flows \intersect {a})

Pending == {registry[k] : k \in References} \ {NoFlow}

(* What a /stop or /clear strikes: all notes (of the chat) or that of a     *)
(* message or status it replies to.                                         *)
Targets(a) ==
    {Pending \ Excluded(a)}
    \union {{registry[k]} \ ({NoFlow} \union Excluded(a)) : k \in References}

CancelVoices(a) ==
    /\ command[a] = "idle" /\ (a \in Flows => handoff[a] = "running")
    /\ \E taken \in Targets(a) :
          LET tasks == {f \in taken : handoff[f] # "none"}
          IN  /\ registry' = Without(taken)
              /\ released' = [f \in Flows |-> IF f \in taken THEN "command" ELSE released[f]]
              /\ struck' = struck \union tasks
              /\ draining' = [draining EXCEPT ![a] = tasks]
    /\ protects' = protects \union (Flows \intersect {a})
    /\ command' = [command EXCEPT ![a] = "draining"]
    /\ UNCHANGED <<flow, status, handoff, handed>>

VoicesCancelled(a) ==
    /\ command[a] = "draining" /\ \A f \in draining[a] : handoff[f] = "ended"
    /\ command' = [command EXCEPT ![a] = "done"]
    /\ draining' = [draining EXCEPT ![a] = {}]
    /\ protects' = protects \ {a}
    /\ UNCHANGED <<registry, flow, status, handoff, struck, handed, released>>

VoiceProgress ==
    \/ \E f \in Flows : \/ StatusSent(f) \/ BindStatus(f) \/ FlowFails(f)
                        \/ HandOff(f) \/ HandoffStarts(f) \/ HandoffEnds(f)
                        \/ FinishOwnership(f)
    \/ \E a \in Speakers : VoicesCancelled(a)

VoiceNext ==
    \/ VoiceProgress
    \/ \E f \in Flows : Reserve(f) \/ FlowCancelled(f)
    \/ \E a \in Speakers : CancelVoices(a)

(* The event loop runs the flows, tasks and commands that can run; a        *)
(* transcription and a callback end sometime.                               *)
VoiceSpec == VoiceInit /\ [][VoiceNext]_voiceVars /\ WF_voiceVars(VoiceProgress)

-----------------------------------------------------------------------------
(* A note that a command took before its handoff never reaches messaging.   *)
NoHandoffAfterCancel ==
    [][\A f \in Flows : released[f] # "no" => (f \in handed' => f \in handed)]_voiceVars

(* A key of the registry leads to a flow that is under way and has not      *)
(* given it up, and such a flow keeps its message: no stale claim removes   *)
(* the entry of a redelivery (_entry_for_claim).                            *)
RegistryExact ==
    /\ \A k \in References : registry[k] # NoFlow =>
          flow[registry[k]] \notin {"new", "ended"} /\ released[registry[k]] = "no"
    /\ \A f \in Flows : flow[f] \notin {"new", "ended"} /\ released[f] = "no" => Owned(f)

(* When a flow is over, its status message is deleted, or belongs to the    *)
(* turn the handoff made, or was given to the command that took the note.   *)
StatusNotOrphaned ==
    \A f \in Flows : flow[f] = "ended" /\ status[f] \in {"sent", "bound"}
                        => released[f] \in {"handoff", "command"}

VoicesExact == RegistryExact /\ StatusNotOrphaned

(* Commands spoken in notes do not wait for each other: every flow and      *)
(* every command comes to its end (_protect_claim).                         *)
VoicesSettled ==
    /\ \A f \in Flows : flow[f] \in {"new", "ended"}
    /\ \A a \in Speakers : command[a] # "draining"

VoicesSettle == []<>VoicesSettled
=============================================================================
