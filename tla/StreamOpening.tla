----------------------------- MODULE StreamOpening -----------------------------
(***************************************************************************)
(* Opening an upstream chat-completion stream (_create_stream of           *)
(* providers/openai_chat/provider.py with output_cap.py, usage.py and the  *)
(* fallbacks of the NVIDIA NIM and Mistral adapters).                      *)
(*                                                                         *)
(* The upstream may refuse a request because of one of its fields and say  *)
(* so in the text of an HTTP 400.  The request is then sent again without  *)
(* what was refused: the output limit is clamped to the one the answer     *)
(* names, and remembered for the model; the usage option is removed once;  *)
(* one adapter-specific correction is made once.  Everything else goes     *)
(* through the retry policy.  Requests of one provider run concurrently    *)
(* and share what was learned.  Each await is a step; a request can be     *)
(* cancelled at each of them, the closes of the finally block included.    *)
(***************************************************************************)
EXTENDS Naturals, FiniteSets

CONSTANTS Openings,       \* the concurrent openings
          MaxTokens,      \* the largest output limit a client asks for
          MaxOpenAttempts,\* attempts of one retry session
          MaxNamed        \* things one error names

ASSUME OpeningAssumption == MaxTokens \in Nat \ {0} /\ MaxOpenAttempts \in Nat \ {0}

VARIABLES adapter,        \* the kind of provider: "plain", "nim" or "mistral"
          learnedCap,     \* _model_output_caps of the model; 0: none
          requestBody,           \* the request each opening is about to send
          usedKinds,      \* used_retry_kinds
          openPc,         \* where each opening is
          openLeft,       \* attempts each session has left
          openAttempt,    \* the admitted attempt: "none", "held" or "closed"
          openStream      \* the upstream stream: "none", "open", "closed" or "left"

openingVars ==
    <<adapter, learnedCap, requestBody, usedKinds, openPc, openLeft, openAttempt, openStream>>

Adapters == {"plain", "nim", "mistral"}

(* A request: its output limit, whether it asks for usage, the template     *)
(* arguments and template of NIM, the effort of Mistral and whether old     *)
(* reasoning is replayed in the messages.                                   *)
Bodies == [tokens : 0..MaxTokens, usage : BOOLEAN, kwargs : {"none", "thinking", "budget"},
           template : BOOLEAN, effort : BOOLEAN, replay : BOOLEAN]

(* What the adapters can put into a request, and all of it at once.         *)
FullBody(kind) ==
    [tokens |-> MaxTokens, usage |-> TRUE, kwargs |-> IF kind = "nim" THEN "budget" ELSE "none",
     template |-> kind = "nim", effort |-> kind = "mistral", replay |-> kind # "plain"]

(* What an error says: the limit it names (0: none) and the fields it       *)
(* refuses.                                                                 *)
UsageFields == {"usage"}
NimFields == {"budget", "template", "replay"}
MistralFields == {"effort", "replay"}
FieldsOf(kind) ==
    UsageFields \union (CASE kind = "nim" -> NimFields [] kind = "mistral" -> MistralFields
                          [] kind = "plain" -> {})
Complaints ==
    {c \in [cap : 0..MaxTokens, refused : SUBSET FieldsOf(adapter)] :
       Cardinality(c.refused) + (IF c.cap = 0 THEN 0 ELSE 1) <= MaxNamed}

OpenPcs == {"ready", "opening", "creating", "correcting", "qualifying", "again", "failing",
            "opened", "failed"}

OpeningTypeOK ==
    /\ adapter \in Adapters /\ learnedCap \in 0..MaxTokens
    /\ requestBody \in [Openings -> Bodies]
    /\ usedKinds \in [Openings -> SUBSET {"stream_usage", "provider_specific"}]
    /\ openPc \in [Openings -> OpenPcs]
    /\ openLeft \in [Openings -> 0..MaxOpenAttempts]
    /\ openAttempt \in [Openings -> {"none", "held", "closed"}]
    /\ openStream \in [Openings -> {"none", "open", "closed", "left"}]

OpeningInit ==
    /\ adapter \in Adapters /\ learnedCap = 0
    /\ requestBody = [o \in Openings |-> FullBody(adapter)]
    /\ usedKinds = [o \in Openings |-> {}] /\ openPc = [o \in Openings |-> "ready"]
    /\ openLeft = [o \in Openings |-> MaxOpenAttempts]
    /\ openAttempt = [o \in Openings |-> "none"] /\ openStream = [o \in Openings |-> "none"]

-----------------------------------------------------------------------------
(* The corrections of a body; a body comes back unchanged when there is     *)
(* nothing to correct (None in the code).                                   *)

(* clamp_output_tokens                                                      *)
Clamped(b, cap) == IF cap # 0 /\ b.tokens > cap THEN [b EXCEPT !.tokens = cap] ELSE b

(* clone_without_stream_usage                                               *)
WithoutUsage(b) == [b EXCEPT !.usage = FALSE]

(* clone_body_without_reasoning_budget, _chat_template, _reasoning_content  *)
WithoutBudget(b) == IF b.kwargs = "budget" THEN [b EXCEPT !.kwargs = "thinking"] ELSE b
WithoutTemplate(b) == [b EXCEPT !.template = FALSE, !.kwargs = "none"]
WithoutReplay(b) == [b EXCEPT !.replay = FALSE]

(* clone_body_without_mistral_reasoning                                     *)
WithoutReasoning(b) == [b EXCEPT !.effort = FALSE, !.replay = FALSE]

(* _get_retry_request_body of the adapters: the first thing the error names *)
(* decides, also when there is nothing of it to remove.                     *)
Corrected(b, refused) ==
    CASE adapter = "nim" /\ "budget" \in refused -> WithoutBudget(b)
      [] adapter = "nim" /\ "budget" \notin refused /\ "template" \in refused -> WithoutTemplate(b)
      [] adapter = "nim" /\ refused \intersect {"budget", "template"} = {}
                         /\ "replay" \in refused -> WithoutReplay(b)
      [] adapter = "mistral" /\ refused \intersect {"effort", "replay"} # {} -> WithoutReasoning(b)
      [] OTHER -> b

(* A fault, for the checks only: the last answer is believed.               *)
LastSaid(previous, cap) == cap

Lowest(previous, cap) == IF previous = 0 \/ cap < previous THEN cap ELSE previous

(* _retry_body_for_output_cap remembers the limit whether or not this body  *)
(* exceeds it.                                                              *)
CapAfter(said) == IF said.cap = 0 THEN learnedCap ELSE Lowest(learnedCap, said.cap)

CapRetry(o, said) ==
    IF said.cap = 0 THEN requestBody[o] ELSE Clamped(requestBody[o], CapAfter(said))

UsageRetry(o, said) ==
    IF "stream_usage" \notin usedKinds[o] /\ "usage" \in said.refused
    THEN WithoutUsage(requestBody[o]) ELSE requestBody[o]

AdapterRetry(o, said) ==
    IF "provider_specific" \notin usedKinds[o]
    THEN Corrected(requestBody[o], said.refused) ELSE requestBody[o]

(* _next_create_retry_body: [body, kind]; the kind "none" is None.          *)
NextRetry(o, said) ==
    CASE CapRetry(o, said) # requestBody[o] -> [body |-> CapRetry(o, said), kind |-> "cap"]
      [] CapRetry(o, said) = requestBody[o] /\ UsageRetry(o, said) # requestBody[o] ->
           [body |-> UsageRetry(o, said), kind |-> "stream_usage"]
      [] CapRetry(o, said) = requestBody[o] /\ UsageRetry(o, said) = requestBody[o]
           /\ AdapterRetry(o, said) # requestBody[o] ->
           [body |-> AdapterRetry(o, said), kind |-> "provider_specific"]
      [] OTHER -> [body |-> requestBody[o], kind |-> "none"]

-----------------------------------------------------------------------------
Moves(o, from, to) == openPc[o] = from /\ openPc' = [openPc EXCEPT ![o] = to]

(* _create_stream begins with the limit learned so far.                     *)
BeginOpening(o) ==
    /\ Moves(o, "ready", "opening")
    /\ requestBody' = [requestBody EXCEPT ![o] = Clamped(requestBody[o], learnedCap)]
    /\ UNCHANGED <<adapter, learnedCap, usedKinds, openLeft, openAttempt, openStream>>

(* A fault, for the checks only: an attempt is not counted.                 *)
NotCounted(n) == n

(* _claim_attempt                                                           *)
Claimed(n) == n - 1

(* open_attempt admits the next attempt.                                    *)
OpenAttempt(o) ==
    /\ Moves(o, "opening", "creating")
    /\ openLeft[o] > 0
    /\ openLeft' = [openLeft EXCEPT ![o] = Claimed(openLeft[o])]
    /\ openAttempt' = [openAttempt EXCEPT ![o] = "held"]
    /\ UNCHANGED <<adapter, learnedCap, requestBody, usedKinds, openStream>>

(* ... or raises the terminal failure of a recovery.                        *)
AdmissionRefuses(o) ==
    /\ Moves(o, "opening", "failed")
    /\ UNCHANGED <<adapter, learnedCap, requestBody, usedKinds, openLeft, openAttempt, openStream>>

(* create() returns and the adapter wraps the stream: both are retained.    *)
StreamCreated(o) ==
    /\ Moves(o, "creating", "opened")
    /\ openStream' = [openStream EXCEPT ![o] = "open"]
    /\ UNCHANGED <<adapter, learnedCap, requestBody, usedKinds, openLeft, openAttempt>>

(* create() returns, but the adapter's view of the stream cannot be made.   *)
ViewFails(o) ==
    /\ Moves(o, "creating", "qualifying")
    /\ openStream' = [openStream EXCEPT ![o] = "open"]
    /\ UNCHANGED <<adapter, learnedCap, requestBody, usedKinds, openLeft, openAttempt>>

(* create() raises an error that says something of the request.             *)
RequestRefused(o) ==
    /\ openPc[o] = "creating"
    /\ \E said \in Complaints :
         LET next == NextRetry(o, said)
             corrects == next.kind # "none" /\ openLeft[o] > 0
         IN  /\ learnedCap' = CapAfter(said)
             /\ usedKinds' = [usedKinds EXCEPT
                                ![o] = @ \union ({next.kind} \ {"none", "cap"})]
             /\ requestBody' = IF ~corrects THEN requestBody
                                ELSE [requestBody EXCEPT ![o] = next.body]
             /\ openPc' = [openPc EXCEPT ![o] = IF corrects THEN "correcting" ELSE "qualifying"]
    /\ UNCHANGED <<adapter, openLeft, openAttempt, openStream>>

(* await attempt.retry_immediately()                                        *)
CorrectionNoted(o) ==
    /\ Moves(o, "correcting", "again")
    /\ UNCHANGED <<adapter, learnedCap, requestBody, usedKinds, openLeft, openAttempt, openStream>>

(* await attempt.retry(error): the policy decides; never without an attempt *)
(* left.                                                                    *)
RetryDecided(o) ==
    /\ \/ openLeft[o] > 0 /\ Moves(o, "qualifying", "again")
       \/ Moves(o, "qualifying", "failing")
    /\ UNCHANGED <<adapter, learnedCap, requestBody, usedKinds, openLeft, openAttempt, openStream>>

AttemptReleased(what) == IF what = "held" THEN "closed" ELSE what

(* close_provider_stream in the finally block closes a stream that is not   *)
(* retained; an ordinary exception of the close is swallowed there.         *)
CloseStream(o) ==
    /\ openPc[o] \in {"again", "failing"} /\ openStream[o] = "open"
    /\ openStream' = [openStream EXCEPT ![o] = "closed"]
    /\ UNCHANGED <<adapter, learnedCap, requestBody, usedKinds, openPc, openLeft, openAttempt>>

(* Then the attempt is closed, before the loop goes on or the error leaves. *)
(* A cancellation of this close does not keep it from releasing (the        *)
(* abandonment is shielded and the slot released in a finally), and only an *)
(* attempt that is failing anyway awaits anything in it.                    *)
CloseAttempt(o) ==
    /\ \/ Moves(o, "again", "opening")
       \/ Moves(o, "failing", "failed")
    /\ openStream[o] # "open"
    /\ openAttempt' = [openAttempt EXCEPT ![o] = AttemptReleased(@)]
    /\ UNCHANGED <<adapter, learnedCap, requestBody, usedKinds, openLeft, openStream>>

(* CancelledError at an await of the loop                                   *)
CancelOpening(o) ==
    /\ \/ \E at \in {"creating", "correcting", "qualifying"} : Moves(o, at, "failing")
       \/ Moves(o, "opening", "failed")
    /\ UNCHANGED <<adapter, learnedCap, requestBody, usedKinds, openLeft, openAttempt, openStream>>

(* CancelledError while close_provider_stream is awaited: it catches only   *)
(* Exception, so the finally block ends there and attempt.aclose() is never *)
(* reached.  Whether the stream is closed is not known.                     *)
CloseStruck(o) ==
    /\ \E at \in {"again", "failing"} : Moves(o, at, "failed")
    /\ openStream[o] = "open"
    /\ openStream' = [openStream EXCEPT ![o] = "left"]
    /\ UNCHANGED <<adapter, learnedCap, requestBody, usedKinds, openLeft, openAttempt>>

OpeningSteps(o) ==
    \/ BeginOpening(o) \/ OpenAttempt(o) \/ AdmissionRefuses(o) \/ StreamCreated(o) \/ ViewFails(o)
    \/ RequestRefused(o) \/ CorrectionNoted(o) \/ RetryDecided(o)
    \/ CloseStream(o) \/ CloseAttempt(o)

OpeningNext == \E o \in Openings : OpeningSteps(o) \/ CancelOpening(o) \/ CloseStruck(o)

(* Every await returns.                                                     *)
OpeningFairness == \A o \in Openings : WF_openingVars(OpeningSteps(o))

OpeningSpec == OpeningInit /\ [][OpeningNext]_openingVars /\ OpeningFairness

-----------------------------------------------------------------------------
(* Who gets a stream gets it with the attempt that pays for it, both open;  *)
(* no new attempt is opened while an older stream or attempt is; and who    *)
(* fails leaves neither behind, but for the one way the code has: a         *)
(* cancellation that struck the close of a stream whose view failed.  That  *)
(* stream was left, and its attempt with it.                                *)
HandedOverWhole ==
    \A o \in Openings :
       /\ openPc[o] = "opened" => openStream[o] = "open" /\ openAttempt[o] = "held"
       /\ openPc[o] = "opening" =>
             openStream[o] \notin {"open", "left"} /\ openAttempt[o] # "held"
       /\ openPc[o] = "failed" =>
             openStream[o] # "open" /\ (openAttempt[o] = "held" => openStream[o] = "left")

(* How much a request asks for.                                             *)
Weight(b) ==
    b.tokens + (IF b.usage THEN 1 ELSE 0) + (IF b.template THEN 1 ELSE 0)
    + (IF b.effort THEN 1 ELSE 0) + (IF b.replay THEN 1 ELSE 0)
    + (CASE b.kwargs = "none" -> 0 [] b.kwargs = "thinking" -> 1 [] b.kwargs = "budget" -> 2)

(* A request is corrected at once only into one that asks for less, so that *)
(* a refusal is never answered with what was refused; and the limit that is *)
(* remembered of a model only falls, whatever order concurrent requests     *)
(* learn it in.                                                             *)
CorrectionsShrink ==
    /\ \A o \in Openings :
          openPc[o] = "creating" /\ openPc'[o] = "correcting"
             => Weight(requestBody'[o]) < Weight(requestBody[o])
    /\ learnedCap # 0 => learnedCap' # 0 /\ learnedCap' <= learnedCap

OpeningSound == []HandedOverWhole /\ [][CorrectionsShrink]_openingVars

(* Every opening ends with a stream or an error.                            *)
OpeningsEnded == \A o \in Openings : openPc[o] \in {"ready", "opened", "failed"}

EveryOpeningEnds == []<>OpeningsEnded
=============================================================================
