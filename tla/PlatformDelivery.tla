--------------------------- MODULE PlatformDelivery ---------------------------
(***************************************************************************)
(* One delivery of a platform messenger (telegram_io.py, discord_io.py): a *)
(* send, an edit or the deletion of several messages, through the retries  *)
(* of Telegram's _with_retry and its batches.  Answers of the platform are *)
(* external: they have a class, the exception the code catches them as,    *)
(* and a text, what it looks for in the message; a Discord channel that is *)
(* not there answers like a message that is not.  A call that times out    *)
(* may have had its effect all the same.                                   *)
(***************************************************************************)
EXTENDS Naturals, Sequences, FiniteSets, Functions, SequencesExt

CONSTANTS Doomed,     \* the messages to delete, a sequence of numbers
          BatchSize   \* TELEGRAM_DELETE_MESSAGES_BATCH_SIZE

ASSUME DeliveryAssumption ==
    Doomed \in Seq(Range(Doomed)) /\ Doomed # <<>> /\ BatchSize \in Nat \ {0}

VARIABLES messenger, job, formatted,
          at,        \* "calling", "pausing", or how the delivery ended
          attempt,   \* failed tries of the call under way
          last,      \* this call is the last one, whatever it answers
          batch,     \* the position of the batch being deleted
          single,    \* the position of the message deleted singly, 0 in a bulk call
          plain,     \* the call goes without its formatting
          calls,     \* history: failed calls of the step under way
          sent,      \* history: times the send took effect
          lapses,    \* history: calls that timed out
          shown, gone, told   \* the edit is shown; deleted messages; messages refused

deliveryVars == <<messenger, job, formatted, at, attempt, last, batch, single, plain,
                  calls, sent, lapses, shown, gone, told>>

MaxTries == 3
Batch == {k \in DOMAIN Doomed : k >= batch /\ k < batch + BatchSize}
EndOf(positions) == CHOOSE k \in positions : \A j \in positions : j <= k

DeliveryTypeOK ==
    /\ messenger \in {"telegram", "discord"} /\ job \in {"send", "edit", "delete"}
    /\ formatted \in BOOLEAN /\ plain \in BOOLEAN
    /\ at \in {"calling", "pausing", "returned", "raised", "cancelled"}
    /\ attempt \in 0 .. MaxTries - 1 /\ last \in BOOLEAN
    /\ batch \in DOMAIN Doomed /\ single \in 0 .. Len(Doomed)
    /\ calls \in 0 .. MaxTries + 1 /\ sent \in Nat /\ lapses \in Nat /\ shown \in BOOLEAN
    /\ gone \subseteq Range(Doomed) /\ told \subseteq Range(Doomed) \union {"edit"}

(* Discord deletes one message after another, Telegram batch by batch.      *)
FirstSingle(m) == IF m = "discord" THEN 1 ELSE 0

DeliveryInit ==
    /\ messenger \in {"telegram", "discord"} /\ job \in {"send", "edit", "delete"}
    /\ formatted \in (IF messenger = "telegram" /\ job # "delete" THEN BOOLEAN ELSE {FALSE})
    /\ at = "calling" /\ attempt = 0 /\ last = FALSE /\ plain = FALSE
    /\ batch = 1 /\ single = IF job = "delete" THEN FirstSingle(messenger) ELSE 0
    /\ calls = 0 /\ sent = 0 /\ lapses = 0
    /\ shown = FALSE /\ gone = {} /\ told = {}

-----------------------------------------------------------------------------
Bulk == job = "delete" /\ single = 0
Target == Doomed[single]

(* What a call changes at the platform.                                     *)
Takes ==
    /\ sent' = IF job = "send" THEN sent + 1 ELSE sent
    /\ shown' = (shown \/ job = "edit")
    /\ gone' = gone \union (IF job # "delete" THEN {}
                             ELSE IF Bulk THEN {Doomed[k] : k \in Batch} ELSE {Target})

NoEffect == UNCHANGED <<sent, shown, gone>>

(* The answers to a call that failed.  Only what is shown or gone already   *)
(* is said to be, or what the platform refuses to touch.                    *)
Texts ==
    CASE job = "send" -> {"other", "unparsable"}
      [] job = "edit" -> {"other", "unparsable", "missing"} \union (IF shown THEN {"unchanged"} ELSE {})
      [] OTHER        -> {"other", "missing"}

TimedOut == [class |-> "network", text |-> "other"]

Replies ==
    IF messenger = "discord"
    THEN [class : {"base"}, text : Texts \ {"unparsable", "unchanged"}] \union {TimedOut}
    ELSE [class : {"network", "base"}, text : Texts] \union [class : {"flood"}, text : {"other"}]

KnownError(a) == a.text \in {"unchanged", "missing"}

(* _with_retry: what an answer leads to.                                    *)
Verdict(a) ==
    IF last THEN "raise"
    ELSE CASE a.class = "network" -> IF a.text = "unchanged" THEN "known"
                                     ELSE IF attempt < MaxTries - 1 THEN "again" ELSE "raise"
           [] a.class = "flood"   -> "last"
           [] a.class = "base"    -> IF KnownError(a) THEN "known"
                                     ELSE IF a.text = "unparsable" /\ formatted THEN "plain"
                                     ELSE "raise"

(* Discord's library retries by itself; NotFound ends an edit, and with     *)
(* Forbidden a deletion (except clauses of DiscordMessenger).               *)
DiscordVerdict(a) == IF a.text = "missing" THEN "known" ELSE "raise"

-----------------------------------------------------------------------------
NewCall == attempt' = 0 /\ last' = FALSE /\ calls' = 0 /\ plain' = FALSE

Ends(how) == at' = how /\ UNCHANGED <<attempt, last, calls, plain, batch, single>>

(* The call of a step returned: the next message or the next batch.         *)
Advance ==
    IF job # "delete" THEN Ends("returned")
    ELSE LET here == IF messenger = "discord" THEN DOMAIN Doomed ELSE Batch
             done == IF Bulk THEN EndOf(here) ELSE single
         IN  IF done < EndOf(here)
             THEN single' = single + 1 /\ at' = "calling" /\ NewCall /\ UNCHANGED batch
             ELSE IF done = Len(Doomed) THEN Ends("returned")
             ELSE batch' = done + 1 /\ single' = 0 /\ at' = "calling" /\ NewCall

(* A bulk call that failed falls back to its messages, one by one; a single *)
(* one that raises ends the whole deletion.                                 *)
Fails ==
    IF Bulk THEN single' = batch /\ at' = "calling" /\ NewCall /\ UNCHANGED batch
    ELSE Ends("raised")

CallSucceeds ==
    /\ at = "calling" /\ Takes /\ Advance
    /\ UNCHANGED <<messenger, job, formatted, lapses, told>>

Again(verdict) ==
    /\ at' = IF verdict = "plain" THEN "calling" ELSE "pausing"
    /\ attempt' = IF verdict = "again" THEN attempt + 1 ELSE attempt
    /\ last' = (verdict # "again") /\ plain' = (plain \/ verdict = "plain")
    /\ calls' = calls + 1 /\ UNCHANGED <<batch, single>>

(* A fault, for the checks only: a bulk call swallows the known errors too. *)
SwallowsKnown(verdict) ==
    CASE verdict = "raise" -> Fails
      [] verdict = "known" -> Advance
      [] OTHER             -> Again(verdict)

Follows(verdict) ==
    CASE verdict = "raise" -> Fails
      [] verdict = "known" -> IF Bulk THEN Fails ELSE Advance
      [] OTHER             -> Again(verdict)

CallFails ==
    /\ at = "calling"
    /\ \E a \in Replies :
          /\ \/ NoEffect /\ UNCHANGED lapses
             \/ a = TimedOut /\ Takes /\ lapses' = lapses + 1
          /\ told' = IF ~KnownError(a) \/ Bulk THEN told
                     ELSE told \union {IF job = "edit" THEN "edit" ELSE Target}
          /\ Follows(IF messenger = "discord" THEN DiscordVerdict(a) ELSE Verdict(a))
    /\ UNCHANGED <<messenger, job, formatted>>

PauseEnds ==
    /\ at = "pausing" /\ at' = "calling"
    /\ UNCHANGED <<messenger, job, formatted, attempt, last, batch, single, plain, calls, sent,
                   lapses, shown, gone, told>>

(* The task that delivers is cancelled by the outbox or by the limiter.     *)
DeliveryCancelled ==
    /\ at \in {"calling", "pausing"} /\ at' = "cancelled"
    /\ UNCHANGED <<messenger, job, formatted, attempt, last, batch, single, plain, calls, sent,
                   lapses, shown, gone, told>>

DeliveryProgress == CallSucceeds \/ CallFails \/ PauseEnds
DeliveryNext == DeliveryProgress \/ DeliveryCancelled
DeliverySpec == DeliveryInit /\ [][DeliveryNext]_deliveryVars /\ WF_deliveryVars(DeliveryProgress)

-----------------------------------------------------------------------------
(* A delivery that returned did what it was asked: the message was sent,    *)
(* the text is shown unless there is no such message, and every message to  *)
(* delete is gone or was refused, in whatever batch it was and whichever    *)
(* call failed.                                                             *)
ReturnedMeansDone ==
    at = "returned" =>
        CASE job = "send" -> sent > 0
          [] job = "edit" -> shown \/ "edit" \in told
          [] job = "delete" -> Range(Doomed) \subseteq gone \union told

(* A message is sent twice only because a call that timed out had sent it.  *)
SentOnceUnlessLapsed == sent <= 1 + lapses

(* Three tries, and one call more after a flood or without the formatting,  *)
(* which only a formatted text loses.                                       *)
CallsBounded == calls <= MaxTries /\ (plain => formatted)

DeliverySound == ReturnedMeansDone /\ SentOnceUnlessLapsed /\ CallsBounded
DeliveryEnded == at \in {"returned", "raised", "cancelled"}
=============================================================================
