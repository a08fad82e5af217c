--------------------------- MODULE ManagedMessages ---------------------------
(***************************************************************************)
(* Which platform messages of one chat the bridge still answers for        *)
(* (messaging/workflow.py, turn_intake.py, commands.py): prompts and       *)
(* commands are recorded when they arrive, status messages, feedback and   *)
(* the startup notice when their receipts come back, and /clear deletes    *)
(* what is recorded or belongs to a tree.  Every send and every delete is  *)
(* awaited, so that clears and stops come in between.                      *)
(*                                                                         *)
(* Abstracted: of the trees the references of their messages are kept, who *)
(* answers whom (ConversationTree has nodes and states); a bulk delete     *)
(* succeeds or fails as a whole; recording an id does not fail and the log *)
(* has room (SessionPersistence has its cap); the status message that a    *)
(* voice note brings along is VoiceNotes'.                                 *)
(***************************************************************************)
EXTENDS Naturals, FiniteSets

CONSTANTS
    MaxPrompts,    \* deliveries of prompts
    Directives,    \* commands of the user
    MaxRefusals    \* sends and deletes the platform refuses

ASSUME ManagedAssumption ==
    MaxPrompts \in Nat /\ MaxRefusals \in Nat /\ IsFiniteSet(Directives)

Deliveries == 1 .. MaxPrompts

PromptId(i) == <<"prompt", i>>
StatusId(i) == <<"status", i>>
CommandId(c) == <<"command", c>>
FeedbackId(c) == <<"feedback", c>>
NoticeId == <<"notice", 0>>
NoReply == <<"none", 0>>

VARIABLES
    posted,     \* the messages in the chat
    logged,     \* ManagedMessageLog of the chat
    replies,    \* the trees of the chat: each message with what it answers
    clearGen,   \* standalone clears so far
    stopGen,    \* stops of everything so far
    turn,       \* the intake of each prompt
    directive,  \* the handler of each command
    notice,     \* the startup notice
    unreached,  \* messages that a delete or a cancelled handler gave up
    refusals

managedVars == <<posted, logged, replies, clearGen, stopGen, turn, directive, notice,
                 unreached, refusals>>

ManagedInit ==
    /\ posted = {} /\ logged = {} /\ replies = {} /\ clearGen = 0 /\ stopGen = 0
    /\ turn = [i \in Deliveries |-> [at |-> "idle", prompt |-> i, answers |-> NoReply,
                        parent |-> NoReply, clears |-> 0, stops |-> 0, ids |-> {}]]
    /\ directive = [c \in Directives |-> [at |-> "idle", op |-> "none", ids |-> {}]]
    /\ notice = [at |-> "idle", clears |-> 0, cancelled |-> FALSE]
    /\ unreached = {} /\ refusals = 0

-----------------------------------------------------------------------------
Refused1 == refusals < MaxRefusals /\ refusals' = refusals + 1

Turn(i, from, to) == turn[i].at = from /\ turn' = [turn EXCEPT ![i].at = to]

(* The messages of the trees, and the literal replies under one of them.    *)
Treed == {r[1] : r \in replies}

ReplyTree(m) ==
    {x \in Treed : \A S \in SUBSET Treed :
        m \in S /\ (\A r \in replies : r[2] \in S => r[1] \in S) => x \in S}

Roots == {r[1] : r \in {q \in replies : q[2] = NoReply}}

GiveUp(ids) ==
    Refused1 /\ unreached' = unreached \union (ids \intersect posted) /\ UNCHANGED posted

(* A delete that fails is logged, and its handler goes on.                 *)
Delete(ids) ==
    \/ posted' = posted \ ids /\ UNCHANGED <<unreached, refusals>>
    \/ GiveUp(ids)

(* A send that is refused raises; one whose caller is cancelled may still  *)
(* post its message, whose receipt nobody has.                             *)
SendFails(m) ==
    /\ Refused1
    /\ \/ UNCHANGED <<posted, unreached>>
       \/ posted' = posted \union {m} /\ unreached' = unreached \union {m}

TurnMessages ==
    {PromptId(i) : i \in Deliveries} \union {StatusId(i) : i \in Deliveries}

(* A prompt comes in, or is delivered once more: it is recorded at once,   *)
(* with the generations it came in.  It answers no message, one of a turn, *)
(* or another one, which is as if it answered none.                        *)
ReceivePrompt(i) ==
    /\ turn[i].at = "idle" /\ \A j \in 1 .. i - 1 : turn[j].at # "idle"
    /\ \E m \in {i} \union {turn[j].prompt : j \in 1 .. i - 1},
          p \in {NoReply} \union (posted \intersect TurnMessages) :
         /\ m # i => PromptId(m) \in posted /\ p = turn[m].answers
         /\ turn' = [turn EXCEPT ![i] = [at |-> "received", prompt |-> m, answers |-> p,
               parent |-> NoReply, clears |-> clearGen, stops |-> stopGen, ids |-> {}]]
         /\ posted' = posted \union {PromptId(m)} /\ logged' = logged \union {PromptId(m)}
    /\ UNCHANGED <<replies, clearGen, stopGen, directive, notice, unreached, refusals>>

(* A text that looks like a status message of the bridge is not a prompt.  *)
IgnorePrompt(i) ==
    /\ Turn(i, "received", "done")
    /\ UNCHANGED <<posted, logged, replies, clearGen, stopGen, directive, notice,
                   unreached, refusals>>

(* The message that the prompt answers is looked up in the trees, then the *)
(* status message is sent; a send that fails ends the intake.              *)
SendStatus(i) ==
    /\ turn[i].at = "received"
    /\ \/ /\ turn' = [turn EXCEPT ![i].at = "sent", ![i].parent =
                IF turn[i].answers \in Treed THEN turn[i].answers ELSE NoReply]
          /\ posted' = posted \union {StatusId(i)} /\ UNCHANGED <<unreached, refusals>>
       \/ Turn(i, "received", "done") /\ SendFails(StatusId(i))
    /\ UNCHANGED <<logged, replies, clearGen, stopGen, directive, notice>>

RecordStatus(i) ==
    /\ Turn(i, "sent", "recorded") /\ logged' = logged \union {StatusId(i)}
    /\ UNCHANGED <<posted, replies, clearGen, stopGen, directive, notice, unreached, refusals>>

(* A fault, for the checks only: a duplicate takes its prompt with it.     *)
WithItsPrompt(i, removed) == {StatusId(i), PromptId(turn[i].prompt)}

(* What a rejected turn removes: its status, and the prompt whose parent   *)
(* was removed meanwhile.                                                  *)
RejectedIds(i, removed) ==
    {StatusId(i)} \union (IF removed THEN {PromptId(turn[i].prompt)} ELSE {})

(* Admission, under the state lock.                                        *)
AdmitTurn(i) ==
    LET prompt == PromptId(turn[i].prompt)
        current == turn[i].clears = clearGen /\ turn[i].stops = stopGen
        duplicate == prompt \in Treed
        removed == turn[i].parent # NoReply /\ turn[i].parent \notin Treed
    IN
    /\ turn[i].at = "recorded"
    /\ IF current /\ ~duplicate /\ ~removed
       THEN /\ turn' = [turn EXCEPT ![i].at = "done"]
            /\ replies' = replies \union
                  {<<prompt, turn[i].parent>>, <<StatusId(i), prompt>>}
       ELSE /\ turn' = [turn EXCEPT ![i].at = "rejected", ![i].ids =
                  RejectedIds(i, current /\ ~duplicate /\ removed)]
            /\ UNCHANGED replies
    /\ UNCHANGED <<posted, logged, clearGen, stopGen, directive, notice, unreached, refusals>>

DiscardRejected(i) ==
    /\ Turn(i, "rejected", "done")
    /\ \/ Delete(turn[i].ids) /\ logged' = logged \ turn[i].ids
       \/ GiveUp(turn[i].ids) /\ UNCHANGED logged   \* the handler is cancelled
    /\ UNCHANGED <<replies, clearGen, stopGen, directive, notice>>

-----------------------------------------------------------------------------
(* The commands.  A standalone /clear is recorded only when it fails: its  *)
(* handler deletes it.                                                     *)
Order(c, op) ==
    /\ directive[c].at = "idle"
    /\ directive' = [directive EXCEPT ![c] = [at |-> "received", op |-> op, ids |-> {}]]
    /\ posted' = posted \union {CommandId(c)}
    /\ logged' = IF op = "clear" THEN logged ELSE logged \union {CommandId(c)}
    /\ UNCHANGED <<replies, clearGen, stopGen, turn, notice, unreached, refusals>>

Handles(c, op) == directive[c].at = "received" /\ directive[c].op = op

Handler(c, at, ids) ==
    directive' = [directive EXCEPT ![c] = [at |-> at, op |-> directive[c].op, ids |-> ids]]

(* The state is cleared first, then the messages are deleted; a handler    *)
(* that is cancelled meanwhile records its command and deletes nothing,    *)
(* and so does one that could not clear every tree.                        *)
ClearChat(c) ==
    /\ Handles(c, "clear")
    /\ clearGen' = clearGen + 1
    /\ \/ /\ Handler(c, "deleting", logged \union Treed \union {CommandId(c)})
          /\ replies' = {} /\ logged' = {} /\ UNCHANGED <<unreached, refusals>>
       \/ /\ Refused1 /\ Handler(c, "done", {})
          /\ \E kept \in SUBSET Roots :
                replies' = {r \in replies : r[1] \in UNION {ReplyTree(m) : m \in kept}}
          /\ logged' = {CommandId(c)}
          /\ unreached' = unreached \union ((logged \union Treed) \intersect posted)
    /\ UNCHANGED <<posted, stopGen, turn, notice>>

(* A fault, for the checks only: a clear that fails is not recorded.       *)
NotRecorded(c) == UNCHANGED logged

(* A standalone clear that ends with an exception is recorded after all.   *)
RecordFailed(c) ==
    logged' = IF directive[c].op = "clear" THEN logged \union {CommandId(c)} ELSE logged

(* What fails before the state is touched fails the command.               *)
CommandFails(c) ==
    /\ directive[c].at = "received" /\ Refused1
    /\ RecordFailed(c) /\ Handler(c, "done", {})
    /\ UNCHANGED <<posted, replies, clearGen, stopGen, turn, notice, unreached>>

(* A clear of a prompt or of a status takes what answers it, literally.    *)
ClearReplyTo(c) ==
    /\ Handles(c, "clear_reply")
    /\ \E m \in Treed :
         /\ replies' = {r \in replies : r[1] \notin ReplyTree(m)}
         /\ Handler(c, "deleting", ReplyTree(m) \union {CommandId(c)})
    /\ UNCHANGED <<posted, logged, clearGen, stopGen, turn, notice, unreached, refusals>>

(* The delete of a command; a reply /clear forgets the ids afterwards.     *)
DeleteIds(c) ==
    /\ directive[c].at = "deleting"
    /\ Delete(directive[c].ids) /\ Handler(c, "done", {})
    /\ logged' = IF directive[c].op = "clear" THEN logged ELSE logged \ directive[c].ids
    /\ UNCHANGED <<replies, clearGen, stopGen, turn, notice>>

(* A handler that is cancelled while it deletes.                           *)
DeleteCancelled(c) ==
    /\ directive[c].at = "deleting" /\ GiveUp(directive[c].ids)
    /\ RecordFailed(c) /\ Handler(c, "done", {})
    /\ UNCHANGED <<replies, clearGen, stopGen, turn, notice>>

(* /stop sends a message unless the status messages of the turns show its  *)
(* result; so does /stats, and a clear that finds nothing to do.           *)
AnswersOrNot(c) ==
    \E at \in {"answering"} \union (IF Treed = {} THEN {} ELSE {"done"}) : Handler(c, at, {})

StopAllTurns(c) ==
    /\ Handles(c, "stop") /\ stopGen' = stopGen + 1 /\ AnswersOrNot(c)
    /\ UNCHANGED <<posted, logged, replies, clearGen, turn, notice, unreached, refusals>>

StopReplyTo(c) ==
    /\ Handles(c, "stop_reply") /\ AnswersOrNot(c)
    /\ UNCHANGED <<posted, logged, replies, clearGen, stopGen, turn, notice,
                   unreached, refusals>>

NothingToClear(c) ==
    /\ Handles(c, "clear_reply") \/ Handles(c, "stats")
    /\ Handler(c, "answering", {})
    /\ UNCHANGED <<posted, logged, replies, clearGen, stopGen, turn, notice,
                   unreached, refusals>>

SendFeedback(c) ==
    /\ directive[c].at = "answering"
    /\ \/ Handler(c, "answered", {}) /\ posted' = posted \union {FeedbackId(c)}
          /\ UNCHANGED <<unreached, refusals>>
       \/ Handler(c, "done", {}) /\ SendFails(FeedbackId(c))
    /\ UNCHANGED <<logged, replies, clearGen, stopGen, turn, notice>>

RecordFeedback(c) ==
    /\ directive[c].at = "answered"
    /\ Handler(c, "done", {}) /\ logged' = logged \union {FeedbackId(c)}
    /\ UNCHANGED <<posted, replies, clearGen, stopGen, turn, notice, unreached, refusals>>

-----------------------------------------------------------------------------
(* The startup notice.                                                     *)
Others == <<replies, clearGen, stopGen, turn, directive>>

PublishNotice ==
    /\ notice.at = "idle"
    /\ notice' = [notice EXCEPT !.at = "sending", !.clears = clearGen]
    /\ UNCHANGED <<posted, logged, unreached, refusals, Others>>

SendNotice ==
    /\ notice.at = "sending"
    /\ \/ /\ notice' = [notice EXCEPT !.at = "sent"]
          /\ posted' = posted \union {NoticeId} /\ UNCHANGED refusals
          /\ UNCHANGED unreached
       \/ notice' = [notice EXCEPT !.at = "done"] /\ SendFails(NoticeId)
    /\ UNCHANGED <<logged, Others>>

(* A publisher that is cancelled before the receipt ends (SendNotice);     *)
(* later it still finishes what it owns.                                   *)
CancelNotice ==
    /\ Refused1 /\ notice.at = "sent" /\ notice' = [notice EXCEPT !.cancelled = TRUE]
    /\ UNCHANGED <<posted, logged, unreached, Others>>

(* A fault, for the checks only: clears in between are not noticed.        *)
OnlyCancelled == notice.cancelled

MustDiscard == notice.cancelled \/ notice.clears # clearGen

FinalizeNotice ==
    /\ notice.at = "sent"
    /\ notice' = [notice EXCEPT !.at = IF MustDiscard THEN "discarding" ELSE "done"]
    /\ logged' = IF MustDiscard THEN logged ELSE logged \union {NoticeId}
    /\ UNCHANGED <<posted, unreached, refusals, Others>>

(* A notice that cannot be deleted is recorded for a later clear.          *)
DiscardNotice ==
    /\ notice.at = "discarding" /\ notice' = [notice EXCEPT !.at = "done"]
    /\ \/ /\ posted' = posted \ {NoticeId} /\ logged' = logged \ {NoticeId}
          /\ UNCHANGED refusals
       \/ Refused1 /\ logged' = logged \union {NoticeId} /\ UNCHANGED posted
    /\ UNCHANGED <<unreached, Others>>

-----------------------------------------------------------------------------
IntakeStep(i) ==
    IgnorePrompt(i) \/ SendStatus(i) \/ RecordStatus(i) \/ AdmitTurn(i) \/ DiscardRejected(i)

HandlerStep(c) ==
    \/ ClearChat(c) \/ CommandFails(c) \/ ClearReplyTo(c) \/ DeleteIds(c)
    \/ DeleteCancelled(c) \/ StopAllTurns(c) \/ StopReplyTo(c) \/ NothingToClear(c)
    \/ SendFeedback(c) \/ RecordFeedback(c)

NoticeStep == SendNotice \/ FinalizeNotice \/ DiscardNotice

ManagedProgress ==
    (\E i \in Deliveries : IntakeStep(i)) \/ (\E c \in Directives : HandlerStep(c)) \/ NoticeStep

ManagedNext ==
    \/ ManagedProgress \/ PublishNotice \/ CancelNotice
    \/ \E i \in Deliveries : ReceivePrompt(i)
    \/ \E c \in Directives, op \in {"clear", "clear_reply", "stop", "stop_reply", "stats"} :
          Order(c, op)

(* The platform answers every send and every delete.                       *)
ManagedSpec ==
    ManagedInit /\ [][ManagedNext]_managedVars /\ WF_managedVars(ManagedProgress)

-----------------------------------------------------------------------------
MessageIds ==
    TurnMessages \union {CommandId(c) : c \in Directives} \union {FeedbackId(c) : c \in Directives}
    \union {NoticeId}

ManagedTypeOK ==
    /\ posted \subseteq MessageIds /\ logged \subseteq MessageIds 
    /\ replies \subseteq MessageIds \X (MessageIds \union {NoReply})
    /\ unreached \subseteq MessageIds /\ refusals \in 0 .. MaxRefusals
    /\ clearGen \in 0 .. Cardinality(Directives) /\ stopGen \in 0 .. Cardinality(Directives)
    /\ \A i \in Deliveries : turn[i].at \in
          {"idle", "received", "sent", "recorded", "rejected", "done"}
    /\ \A c \in Directives : directive[c].at \in
          {"idle", "received", "deleting", "answering", "answered", "done"}
    /\ notice.at \in {"idle", "sending", "sent", "discarding", "done"}

(* Messages somebody is about to record or to delete.                      *)
InHand ==
    {StatusId(i) : i \in {j \in Deliveries : turn[j].at = "sent"}}
    \union (UNION {turn[i].ids : i \in {j \in Deliveries : turn[j].at = "rejected"}})
    \union (UNION {directive[c].ids : c \in Directives})
    \union {CommandId(c) : c \in {d \in Directives : directive[d].at = "received"}}
    \union {FeedbackId(c) : c \in {d \in Directives : directive[d].at = "answered"}}
    \union (IF notice.at \in {"sent", "discarding"} THEN {NoticeId} ELSE {})

(* Every message of the bridge that is in the chat is one a later /clear   *)
(* finds, or somebody still handles it, or its delete was refused: none is *)
(* lost between an awaited send and a clear.                               *)
NothingForgotten == posted \subseteq logged \union Treed \union InHand \union unreached

(* A prompt that was delivered again while the turn that found its parent  *)
(* removed was discarding it: the second delivery may have admitted it.    *)
Redelivered ==
    {PromptId(turn[i].prompt) : i \in {j \in Deliveries :
        /\ turn[j].at = "rejected" /\ turn[j].parent # NoReply
        /\ \E k \in Deliveries \ {j} : turn[k].prompt = turn[j].prompt}}

(* Only a clear takes a message of a conversation that goes on: what a     *)
(* rejected turn or a notice removes is never part of one, unless it is    *)
(* the prompt of the turn and was delivered twice.                         *)
LiveStaysPosted ==
    \A m \in Treed \ (Redelivered \union UNION {directive[c].ids : c \in Directives}) :
        m \in posted => m \in posted'

ManagedSafe == []NothingForgotten /\ [][LiveStaysPosted]_managedVars

Older(i) == turn[i].at # "idle" /\ turn[i].clears < clearGen

OldMessages ==
    {PromptId(turn[i].prompt) : i \in {j \in Deliveries : Older(j)
        /\ \A k \in Deliveries : turn[k].prompt = turn[j].prompt => Older(k)}}
    \union {StatusId(i) : i \in {j \in Deliveries : Older(j)}}
    \union (IF notice.at # "idle" /\ notice.clears < clearGen THEN {NoticeId} ELSE {})

(* A standalone /clear reaches what was on its way when it came: a prompt, *)
(* a status message or the startup notice from before it does not stay.    *)
ClearReached ==
    (OldMessages \intersect posted)
        \subseteq unreached \union (IF refusals > 0 THEN {NoticeId} ELSE {})

ClearReachesAll == []<>ClearReached
=============================================================================
