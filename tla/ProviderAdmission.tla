-------------------------- MODULE ProviderAdmission --------------------------
(***************************************************************************)
(* The admission controller that every upstream request of one provider    *)
(* generation passes (providers/admission.py), together with the control   *)
(* flow of its two users: run_with_retry, and the chat stream runner of    *)
(* providers/openai_chat/provider.py.                                      *)
(*                                                                         *)
(* A session is one logical execution with one attempt budget.  It passes  *)
(* the recovery gate, the rate window and the concurrency bulkhead, then   *)
(* talks to the upstream.  One action is the code between two suspension   *)
(* points of the asyncio program: the critical sections of the condition   *)
(* never suspend while the lock is held, so each is a single step, and a   *)
(* cancellation can strike wherever a session is suspended.                *)
(*                                                                         *)
(* Abstracted: clocks (ready_at and terminal_until are the two facts       *)
(* "reached" and "not reached"), the timestamps of the rate window (module *)
(* SlidingWindow), error values, and the order of the semaphore's queue.   *)
(***************************************************************************)
EXTENDS Naturals, FiniteSets

CONSTANTS
  Sessions,          \* logical executions
  Streams,           \* the sessions that are stream runners
  MaxAttempts,       \* the attempt budget of a session
  MaxConcurrency,    \* the size of the bulkhead
  MidstreamRecovery, \* whether streams may continue after partial output
  ClosesMayFail,     \* whether a close may be left before it releases its attempt
  None               \* no session, no episode, no generation

ASSUME SessionsAssumption == IsFiniteSet(Sessions)
ASSUME StreamsAssumption == Streams \subseteq Sessions
ASSUME AttemptsAssumption == MaxAttempts \in Nat \ {0}
ASSUME ConcurrencyAssumption == MaxConcurrency \in Nat \ {0}
ASSUME SwitchAssumption == MidstreamRecovery \in BOOLEAN /\ ClosesMayFail \in BOOLEAN

VARIABLES
  episode,        \* the recovery episode, or None
  nextGeneration, \* the number of the next episode
  free,           \* the value of the bulkhead's semaphore
  pc,             \* where each session is suspended
  attempts,       \* attempts started by each session
  terminal,       \* sessions that carry a terminal recovery error
  permit,         \* the gate permit (or claimed generation) of each session
  woken,          \* sessions waiting on the condition that were notified
  resolved,       \* sessions whose current attempt has a recorded outcome
  outcome,        \* what a closing session does next
  nested,         \* sessions whose interrupted stream still owns its attempt
  leaked          \* ghost: the closes that were left before they released

vars == <<episode, nextGeneration, free, pc, attempts, terminal, permit,
          woken, resolved, outcome, nested, leaked>>

controller == <<episode, nextGeneration, terminal, woken>>

------------------------------------------------------------------------------
Ended == {"done", "failed", "cancelled"}

Locations == {"idle", "gate", "waiting", "backoff", "quota", "bulkhead",
              "upstream", "opened", "flowing", "closing", "abandoning",
              "shielded"} \cup Ended

NoPermit == [generation |-> None, probe |-> FALSE]
Permits  == [generation : Nat \cup {None}, probe : BOOLEAN]

Closes == Sessions \X {"stream", "continuation"}

Episodes ==
  [generation : Nat, leader : Sessions \cup {None}, waiters : SUBSET Sessions,
   probing : BOOLEAN, ready : BOOLEAN, exhausted : BOOLEAN, cooled : BOOLEAN]

ASSUME NoneAssumption == None \notin Sessions /\ None \notin Nat /\ None \notin Episodes

NewEpisode(leader, ready, probing) ==
  [generation |-> nextGeneration, leader |-> leader, waiters |-> {},
   probing |-> probing, ready |-> ready, exhausted |-> FALSE, cooled |-> FALSE]

(* The values of the variables.  An execution never starts more attempts   *)
(* than its budget: _claim_attempt would raise, and nothing but the checks *)
(* of can_attempt on the way back to the gate prevents it.                 *)
TypeOK ==
  /\ episode \in Episodes \cup {None}
  /\ nextGeneration \in Nat
  /\ free \in 0 .. MaxConcurrency
  /\ pc \in [Sessions -> Locations]
  /\ attempts \in [Sessions -> 0 .. MaxAttempts]
  /\ terminal \subseteq Sessions
  /\ permit \in [Sessions -> Permits]
  /\ woken \subseteq Sessions
  /\ resolved \subseteq Sessions
  /\ outcome \in [Sessions -> Ended \cup {"gate"}]
  /\ nested \subseteq Sessions
  /\ leaked \subseteq Closes

Init ==
  /\ episode = None
  /\ nextGeneration = 1
  /\ free = MaxConcurrency
  /\ pc = [s \in Sessions |-> "idle"]
  /\ attempts = [s \in Sessions |-> 0]
  /\ terminal = {}
  /\ permit = [s \in Sessions |-> NoPermit]
  /\ woken = {}
  /\ resolved = {}
  /\ outcome = [s \in Sessions |-> "gate"]
  /\ nested = {}
  /\ leaked = {}

------------------------------------------------------------------------------
(* Reading the episode.                                                    *)

CanAttemptOffByOne(s) == attempts[s] <= MaxAttempts  \* a fault, for the checks only

CanAttempt(s) == attempts[s] < MaxAttempts

(* The slots a session's attempts own.                                     *)
HoldsSlot(s) == pc[s] \in {"upstream", "opened", "flowing", "closing", "abandoning"}

PermitNeverRechecked(s) == TRUE  \* a fault, for the checks only

PermitIsCurrent(s) ==
  IF permit[s].probe
  THEN /\ episode # None
       /\ episode.generation = permit[s].generation
       /\ ~episode.exhausted
       /\ episode.leader = s
       /\ episode.probing
  ELSE episode = None

MatchingProbe(s) ==
  /\ permit[s].probe
  /\ episode # None
  /\ episode.generation = permit[s].generation
  /\ episode.leader = s
  /\ episode.probing

------------------------------------------------------------------------------
(* What the controller does with the outcome of an attempt.  Each leaves   *)
(* the sessions' own variables alone.                                      *)

NotifyNobody == UNCHANGED woken  \* a fault, for the checks only

NotifyAll == woken' = woken \cup {t \in Sessions : pc[t] = "waiting"}

(* An upstream answer, accepted or rejected, closes the probe's episode.   *)
CloseEpisode(s) ==
  /\ IF MatchingProbe(s)
       THEN episode' = None /\ NotifyAll
       ELSE UNCHANGED <<episode, woken>>
  /\ UNCHANGED <<nextGeneration, terminal>>

(* A request-shape correction keeps the leader and makes it ready at once. *)
KeepLeader(s) ==
  /\ IF MatchingProbe(s)
       THEN /\ episode' = [episode EXCEPT !.probing = FALSE, !.ready = TRUE]
            /\ NotifyAll
       ELSE UNCHANGED <<episode, woken>>
  /\ UNCHANGED <<nextGeneration, terminal>>

(* A probe that ends without an outcome frees the leadership.              *)
AbandonProbe(s) ==
  /\ IF MatchingProbe(s)
       THEN /\ episode' = [episode EXCEPT !.leader = None, !.probing = FALSE,
                                          !.ready = TRUE]
            /\ NotifyAll
       ELSE UNCHANGED <<episode, woken>>
  /\ UNCHANGED <<nextGeneration, terminal>>

(* A transient failure of a session that may retry opens an episode, keeps *)
(* the probe's leadership, or coalesces into the episode of another leader.*)
FailWithBudget(s) ==
  /\ IF episode = None
       THEN /\ episode' = NewEpisode(s, FALSE, FALSE)
            /\ nextGeneration' = nextGeneration + 1
            /\ UNCHANGED terminal
       ELSE /\ UNCHANGED nextGeneration
            /\ IF MatchingProbe(s)
                 THEN /\ episode' = [episode EXCEPT !.probing = FALSE, !.ready = FALSE]
                      /\ UNCHANGED terminal
                 ELSE IF episode.exhausted
                 THEN terminal' = terminal \cup {s} /\ UNCHANGED episode
                 ELSE /\ episode' = [episode EXCEPT !.waiters = @ \cup {s}]
                      /\ UNCHANGED terminal
  /\ NotifyAll

(* Without budget left the failure of a probe, or of a request while the   *)
(* gate is open, ends recovery for everyone that joined the episode.       *)
FailExhausted(s) ==
  IF episode = None \/ MatchingProbe(s)
  THEN LET joined == IF episode = None THEN {} ELSE episode.waiters
           base   == IF episode = None THEN NewEpisode(None, TRUE, FALSE) ELSE episode
       IN /\ episode' = [base EXCEPT !.leader = None, !.probing = FALSE,
                                     !.waiters = {}, !.exhausted = TRUE,
                                     !.cooled = FALSE]
          /\ nextGeneration' = nextGeneration + (IF episode = None THEN 1 ELSE 0)
          /\ terminal' = terminal \cup joined
          /\ NotifyAll
  ELSE UNCHANGED controller

AttemptFailed(s) == IF CanAttempt(s) THEN FailWithBudget(s) ELSE FailExhausted(s)

------------------------------------------------------------------------------
(* How a session leaves admission or an attempt.                           *)

Goto(s, location) == pc' = [pc EXCEPT ![s] = location]

(* An exception while no attempt of its own is open: a stream runner that  *)
(* was recovering still has to close the interrupted stream.               *)
Leave(s, result) ==
  /\ Goto(s, IF s \in nested THEN "closing" ELSE result)
  /\ outcome' = [outcome EXCEPT ![s] = result]
  /\ resolved' = IF s \in nested THEN resolved \cup {s} ELSE resolved
  /\ nested' = nested \ {s}

(* aclose of a resolved attempt: the slot returns and the session goes on. *)
Release(s, result) ==
  /\ free' = free + 1
  /\ permit' = [permit EXCEPT ![s] = NoPermit]
  /\ IF result = "gate"
       THEN Goto(s, "gate") /\ UNCHANGED <<outcome, resolved, nested>>
       ELSE Leave(s, result)
  /\ UNCHANGED leaked

(* The finally block of a stream first awaits the close of the stream.     *)
Closing(s, result) ==
  /\ Goto(s, "closing")
  /\ outcome' = [outcome EXCEPT ![s] = result]

------------------------------------------------------------------------------
(* _wait_for_gate                                                          *)

Start(s) ==
  /\ pc[s] = "idle"
  /\ Goto(s, "gate")
  /\ UNCHANGED <<controller, free, attempts, permit, resolved, outcome, nested, leaked>>

GateRefuses(s) ==
  /\ pc[s] = "gate"
  /\ \/ s \in terminal
     \/ episode # None /\ episode.exhausted /\ ~episode.cooled
  /\ Leave(s, "failed")
  /\ UNCHANGED <<controller, free, attempts, permit, leaked>>

GateOpen(s) ==
  /\ pc[s] = "gate"
  /\ s \notin terminal
  /\ episode = None
  /\ Goto(s, "quota")
  /\ permit' = [permit EXCEPT ![s] = NoPermit]
  /\ UNCHANGED <<controller, free, attempts, resolved, outcome, nested, leaked>>

(* The first caller after the cooldown starts a new episode as its leader  *)
(* and is at once its probe.                                               *)
GateReopens(s) ==
  /\ pc[s] = "gate"
  /\ s \notin terminal
  /\ episode # None /\ episode.exhausted /\ episode.cooled
  /\ episode' = NewEpisode(s, TRUE, TRUE)
  /\ nextGeneration' = nextGeneration + 1
  /\ permit' = [permit EXCEPT ![s] = [generation |-> nextGeneration, probe |-> TRUE]]
  /\ Goto(s, "quota")
  /\ UNCHANGED <<free, attempts, terminal, woken, resolved, outcome, nested, leaked>>

(* The leader, or the first caller that finds the leadership vacant.       *)
GateLeads(s) ==
  /\ pc[s] = "gate"
  /\ s \notin terminal
  /\ episode # None /\ ~episode.exhausted
  /\ episode.leader \in {None, s} /\ ~episode.probing
  /\ episode' = [episode EXCEPT !.leader = s, !.probing = episode.ready,
                   !.waiters = IF episode.leader = None THEN @ \ {s} ELSE @]
  /\ permit' = [permit EXCEPT ![s] =
                  [generation |-> episode.generation, probe |-> episode.ready]]
  /\ Goto(s, IF episode.ready THEN "quota" ELSE "backoff")
  /\ UNCHANGED <<nextGeneration, free, attempts, terminal, woken, resolved,
                 outcome, nested, leaked>>

GateWaits(s) ==
  /\ pc[s] = "gate"
  /\ s \notin terminal
  /\ episode # None /\ ~episode.exhausted
  /\ ~(episode.leader \in {None, s} /\ ~episode.probing)
  /\ episode' = IF episode.leader = s THEN episode
                ELSE [episode EXCEPT !.waiters = @ \cup {s}]
  /\ permit' = [permit EXCEPT ![s] = [generation |-> episode.generation, probe |-> FALSE]]
  /\ woken' = woken \ {s}
  /\ Goto(s, "waiting")
  /\ UNCHANGED <<nextGeneration, free, attempts, terminal, resolved, outcome, nested, leaked>>

Wake(s) ==
  /\ pc[s] = "waiting"
  /\ s \in woken
  /\ woken' = woken \ {s}
  /\ Goto(s, "gate")
  /\ UNCHANGED <<episode, nextGeneration, free, attempts, terminal, permit,
                 resolved, outcome, nested, leaked>>

CancelWaiting(s) ==
  /\ pc[s] = "waiting"
  /\ episode' = IF episode # None /\ episode.generation = permit[s].generation
                THEN [episode EXCEPT !.waiters = @ \ {s}] ELSE episode
  /\ woken' = woken \ {s}
  /\ Leave(s, "cancelled")
  /\ UNCHANGED <<nextGeneration, free, attempts, terminal, permit, leaked>>

LeadsBackoff(s) ==
  /\ episode # None
  /\ episode.generation = permit[s].generation
  /\ episode.leader = s
  /\ ~episode.probing

BackoffOver(s) ==
  /\ pc[s] = "backoff"
  /\ LeadsBackoff(s) => episode.ready
  /\ IF LeadsBackoff(s) /\ ~episode.exhausted
       THEN /\ episode' = [episode EXCEPT !.probing = TRUE]
            /\ permit' = [permit EXCEPT ![s].probe = TRUE]
            /\ Goto(s, "quota")
       ELSE UNCHANGED <<episode, permit>> /\ Goto(s, "gate")
  /\ UNCHANGED <<nextGeneration, free, attempts, terminal, woken, resolved,
                 outcome, nested, leaked>>

CancelBackoffKeepsLeader(s) ==  \* a fault, for the checks only
  /\ pc[s] = "backoff"
  /\ Leave(s, "cancelled")
  /\ UNCHANGED <<controller, free, attempts, permit, leaked>>

CancelBackoff(s) ==
  /\ pc[s] = "backoff"
  /\ IF LeadsBackoff(s)
       THEN episode' = [episode EXCEPT !.leader = None] /\ NotifyAll
       ELSE UNCHANGED <<episode, woken>>
  /\ Leave(s, "cancelled")
  /\ UNCHANGED <<nextGeneration, free, attempts, terminal, permit, leaked>>

------------------------------------------------------------------------------
(* open_attempt: the rate window, then the bulkhead.  The permit is checked*)
(* again after each wait; a stale one returns the session to the gate.     *)

PassQuota(s) ==
  /\ pc[s] = "quota"
  /\ IF PermitIsCurrent(s)
       THEN Goto(s, "bulkhead") /\ UNCHANGED controller
       ELSE Goto(s, "gate") /\ AbandonProbe(s)
  /\ UNCHANGED <<free, attempts, permit, resolved, outcome, nested, leaked>>

AcquireSlot(s) ==
  /\ pc[s] = "bulkhead"
  /\ free > 0
  /\ IF PermitIsCurrent(s)
       THEN /\ free' = free - 1
            /\ attempts' = [attempts EXCEPT ![s] = @ + 1]
            /\ resolved' = resolved \ {s}
            /\ Goto(s, "upstream")
            /\ UNCHANGED controller
       ELSE /\ Goto(s, "gate")
            /\ AbandonProbe(s)
            /\ UNCHANGED <<free, attempts, resolved>>
  /\ UNCHANGED <<permit, outcome, nested, leaked>>

CancelAdmission(s) ==
  /\ pc[s] \in {"quota", "bulkhead"}
  /\ AbandonProbe(s)
  /\ Leave(s, "cancelled")
  /\ UNCHANGED <<free, attempts, permit, leaked>>

------------------------------------------------------------------------------
(* The upstream operation: fn() of run_with_retry, or the creation of the  *)
(* stream in _create_stream.  Outcome and aclose are one step: aclose of a *)
(* resolved attempt does not suspend.                                      *)

CallSucceeds(s) ==
  /\ pc[s] = "upstream" /\ s \notin Streams
  /\ CloseEpisode(s)
  /\ Release(s, "done")
  /\ UNCHANGED attempts

(* Only the continuation of an interrupted stream may judge the rejection  *)
(* by the stream's own classifier and ask again.                           *)
OperationRejected(s) ==
  /\ pc[s] = "upstream"
  /\ CloseEpisode(s)
  /\ \/ Release(s, "failed")
     \/ s \in nested /\ CanAttempt(s) /\ Release(s, "gate")
  /\ UNCHANGED attempts

OperationFails(s) ==
  /\ pc[s] = "upstream"
  /\ AttemptFailed(s)
  /\ Release(s, IF CanAttempt(s) THEN "gate" ELSE "failed")
  /\ UNCHANGED attempts

(* retry_immediately: the request is corrected and sent again.             *)
CreateCorrected(s) ==
  /\ pc[s] = "upstream" /\ s \in Streams
  /\ CanAttempt(s)
  /\ KeepLeader(s)
  /\ Release(s, "gate")
  /\ UNCHANGED attempts

OperationCancelled(s) ==
  /\ pc[s] = "upstream"
  /\ Goto(s, "abandoning")
  /\ outcome' = [outcome EXCEPT ![s] = "cancelled"]
  /\ UNCHANGED <<controller, free, attempts, permit, resolved, nested, leaked>>

StreamOpens(s) ==
  /\ pc[s] = "upstream" /\ s \in Streams
  /\ Goto(s, "opened")
  /\ UNCHANGED <<controller, free, attempts, permit, resolved, outcome, nested, leaked>>

------------------------------------------------------------------------------
(* The stream runner.  Before the first chunk a failure belongs to the     *)
(* provider's shared recovery, afterwards only to this stream.             *)

FirstChunk(s) ==
  /\ pc[s] = "opened"
  /\ CloseEpisode(s)
  /\ resolved' = resolved \cup {s}
  /\ Goto(s, "flowing")
  /\ UNCHANGED <<free, attempts, permit, outcome, nested, leaked>>

OpenedFails(s) ==
  /\ pc[s] = "opened"
  /\ AttemptFailed(s)
  /\ resolved' = resolved \cup {s}
  /\ Closing(s, IF CanAttempt(s) THEN "gate" ELSE "failed")
  /\ UNCHANGED <<free, attempts, permit, nested, leaked>>

OpenedRejected(s) ==
  /\ pc[s] = "opened"
  /\ CloseEpisode(s)
  /\ resolved' = resolved \cup {s}
  /\ Closing(s, "failed")
  /\ UNCHANGED <<free, attempts, permit, nested, leaked>>

StreamCancelled(s) ==
  /\ pc[s] \in {"opened", "flowing"}
  /\ Closing(s, "cancelled")
  /\ UNCHANGED <<controller, free, attempts, permit, resolved, nested, leaked>>

(* The stream, or the collected continuation, is complete or fails for     *)
(* good; or nothing was committed and the whole request is replayed; or    *)
(* the continuation failed or repaired nothing and is requested again.     *)
StreamEnds(s) ==
  /\ pc[s] = "flowing"
  /\ \E result \in {"done", "failed", "gate"} :
       /\ result = "gate" => CanAttempt(s)
       /\ Closing(s, result)
  /\ UNCHANGED <<controller, free, attempts, permit, resolved, nested, leaked>>

(* Committed output was cut off.  _recovery_events opens the continuation  *)
(* inside the except block: the interrupted attempt is closed only later,  *)
(* by the finally block around it.                                         *)
StreamRecovers(s) ==
  /\ MidstreamRecovery
  /\ pc[s] = "flowing" /\ s \notin nested
  /\ CanAttempt(s)
  /\ nested' = nested \cup {s}
  /\ permit' = [permit EXCEPT ![s] = NoPermit]
  /\ Goto(s, "gate")
  /\ UNCHANGED <<controller, free, attempts, resolved, outcome, leaked>>

(* The stream is closed: aclose releases a resolved attempt, and hands an  *)
(* unresolved one to the shielded abandonment.                             *)
CloseFinishes(s) ==
  /\ pc[s] = "closing"
  /\ IF s \in resolved
       THEN Release(s, outcome[s]) /\ UNCHANGED <<controller, attempts>>
       ELSE /\ Goto(s, "abandoning")
            /\ UNCHANGED <<controller, free, attempts, permit, resolved, outcome, nested, leaked>>

(* The finally block is left before it reaches aclose: the attempt is never*)
(* closed, its slot stays taken and its leadership stays as it is.         *)
LeaveClose(s, result) ==
  /\ ClosesMayFail
  /\ Leave(s, result)
  /\ leaked' = leaked \cup {<<s, IF s \in nested THEN "continuation" ELSE "stream">>}
  /\ UNCHANGED <<controller, free, attempts, permit>>

(* A cancellation that strikes the close: close_provider_stream catches    *)
(* only Exception.                                                         *)
CloseInterrupted(s) ==
  /\ pc[s] = "closing"
  /\ LeaveClose(s, "cancelled")

(* The collector of a continuation closes its stream without that guard:   *)
(* an exception of the close replaces the result, or a cancellation on its *)
(* way, and ends the recovery of the stream.                               *)
CloseRaises(s) ==
  /\ pc[s] = "closing" /\ s \in nested
  /\ LeaveClose(s, "failed")

Abandon(s) ==
  /\ pc[s] = "abandoning"
  /\ AbandonProbe(s)
  /\ Release(s, outcome[s])
  /\ UNCHANGED attempts

(* A second cancellation ends the wait for the shielded abandonment: the   *)
(* slot returns at once and the abandonment runs on in its own task.       *)
AbandonInterrupted(s) ==
  /\ pc[s] = "abandoning"
  /\ free' = free + 1
  /\ Goto(s, "shielded")
  /\ UNCHANGED <<controller, attempts, permit, resolved, outcome, nested, leaked>>

ShieldedAbandonReleases(s) ==  \* a fault, for the checks only
  /\ pc[s] = "shielded"
  /\ AbandonProbe(s)
  /\ Release(s, "cancelled")
  /\ UNCHANGED attempts

ShieldedAbandon(s) ==
  /\ pc[s] = "shielded"
  /\ AbandonProbe(s)
  /\ permit' = [permit EXCEPT ![s] = NoPermit]
  /\ Leave(s, "cancelled")
  /\ UNCHANGED <<free, attempts, leaked>>

------------------------------------------------------------------------------
(* Time.                                                                   *)

BackoffElapses ==
  /\ episode # None /\ ~episode.ready
  /\ episode' = [episode EXCEPT !.ready = TRUE]
  /\ UNCHANGED <<nextGeneration, free, pc, attempts, terminal, permit, woken,
                 resolved, outcome, nested, leaked>>

CooldownElapses ==
  /\ episode # None /\ episode.exhausted /\ ~episode.cooled
  /\ episode' = [episode EXCEPT !.cooled = TRUE]
  /\ UNCHANGED <<nextGeneration, free, pc, attempts, terminal, permit, woken,
                 resolved, outcome, nested, leaked>>

------------------------------------------------------------------------------
Gate(s) == \/ GateRefuses(s) \/ GateOpen(s) \/ GateReopens(s)
           \/ GateLeads(s) \/ GateWaits(s)

Cancel(s) == \/ CancelWaiting(s) \/ CancelBackoff(s) \/ CancelAdmission(s)
             \/ OperationCancelled(s) \/ StreamCancelled(s) \/ CloseInterrupted(s)
             \/ AbandonInterrupted(s)

Operation(s) == \/ CallSucceeds(s) \/ OperationRejected(s) \/ OperationFails(s)
                \/ CreateCorrected(s) \/ StreamOpens(s)

Stream(s) == \/ FirstChunk(s) \/ OpenedFails(s) \/ OpenedRejected(s)
             \/ StreamEnds(s) \/ StreamRecovers(s)

(* Every step a session takes once whatever it awaits has happened.        *)
Proceed(s) == \/ Gate(s) \/ Wake(s) \/ BackoffOver(s) \/ PassQuota(s)
              \/ AcquireSlot(s) \/ Operation(s) \/ Stream(s)
              \/ CloseFinishes(s) \/ Abandon(s) \/ ShieldedAbandon(s)

Next == \/ \E s \in Sessions : Start(s) \/ Proceed(s) \/ Cancel(s) \/ CloseRaises(s)
        \/ BackoffElapses
        \/ CooldownElapses

Spec == Init /\ [][Next]_vars

(* The event loop runs every ready task, timers fire, and an upstream      *)
(* answers or times out (the HTTP client has read timeouts); the semaphore *)
(* serves its waiters in order.  Nobody is obliged to start or to cancel.  *)
Fairness ==
  /\ \A s \in Sessions : WF_vars(Proceed(s)) /\ SF_vars(AcquireSlot(s))
  /\ WF_vars(BackoffElapses)
  /\ WF_vars(CooldownElapses)

FairSpec == Spec /\ Fairness

------------------------------------------------------------------------------
(* Properties.                                                             *)

SlotOwners == {s \in Sessions : HoldsSlot(s)}

(* The semaphore's value, the attempts that own a slot and the closes that *)
(* were left add up to the size of the bulkhead: ProviderAttempt.aclose    *)
(* returns each slot exactly once, and nothing but a close that is left    *)
(* before it (hazards at http.py and _collect_recovery_output) loses one.  *)
SlotsBalance ==
  free + Cardinality(SlotOwners) + Cardinality(nested) + Cardinality(leaked)
    = MaxConcurrency

(* Whatever strikes the close of a stream, the bulkhead never lets more    *)
(* than max_concurrency attempts run: a slot may be lost, never doubled.   *)
BulkheadBound ==
  free + Cardinality(SlotOwners) + Cardinality(nested) <= MaxConcurrency

(* A close of this session was left, perhaps before it gave up the lead.   *)
Leaked(s) == \E close \in leaked : close[1] = s

(* A live episode is led by a session that will act on it: an active probe *)
(* is held by a session whose permit matches and whose attempt has no      *)
(* outcome yet, and a leader without a probe is on its way to the next one.*)
(* Only a session that left a close may stay the leader of nothing.        *)
LeaderIsAlive ==
  episode # None /\ ~episode.exhausted /\ episode.leader # None =>
    LET l == episode.leader IN
    \/ Leaked(l)
    \/ /\ episode.probing
       /\ MatchingProbe(l)
       /\ \/ pc[l] \in {"quota", "bulkhead", "shielded"}
          \/ HoldsSlot(l) /\ l \notin resolved
    \/ /\ ~episode.probing
       /\ \/ pc[l] \in {"gate", "backoff"}
          \/ pc[l] = "closing" /\ outcome[l] = "gate"
       /\ pc[l] = "backoff" => permit[l].generation = episode.generation

(* A session that waits on the condition without having been notified      *)
(* waits for a leader that exists: closing, vacating and exhausting an     *)
(* episode all notify.                                                     *)
NoLostWakeup ==
  \A s \in Sessions : pc[s] = "waiting" /\ s \notin woken =>
    episode # None /\ ~episode.exhausted /\ episode.leader \notin {None, s}

(* The circuit the controller implements.                                  *)
CircuitPhase ==
  IF episode = None THEN "closed"
  ELSE IF episode.exhausted THEN "exhausted"
  ELSE IF ~episode.probing THEN "open"
  ELSE IF pc[episode.leader] \in {"quota", "bulkhead"} THEN "probing" ELSE "testing"

CircuitOwner ==
  IF episode = None \/ episode.exhausted THEN None ELSE episode.leader

Circuit == INSTANCE RecoveryCircuit
             WITH phase <- CircuitPhase, owner <- CircuitOwner,
                  started <- attempts, dismissed <- terminal

(* The controller implements the circuit: the first transient failure opens*)
(* one episode, one execution owns its half-open probes, nobody sends until*)
(* it closes, and a dismissed execution never sends again.                 *)
ImplementsCircuit == Circuit!Spec

(* No slot is left for any attempt: all are lost, or held by interrupted   *)
(* streams that wait for the slot of their own continuation.               *)
Starved == Cardinality(nested) + Cardinality(leaked) = MaxConcurrency

(* The leader has ended and keeps the lead.                                *)
Orphaned == episode # None /\ episode.leader # None /\ pc[episode.leader] \in Ended

(* Every execution that starts ends: no wake-up is lost, no leadership is  *)
(* orphaned and no slot is missing.  The code leaves two exceptions, and   *)
(* these are all: in the end every slot is lost or held by a stream that   *)
(* waits for another, or a session that left its close leads for ever.     *)
EveryExecutionEnds ==
  \/ <>[](Starved \/ Orphaned)
  \/ \A s \in Sessions : pc[s] # "idle" ~> pc[s] \in Ended

(* "the bulkhead is held only while an upstream operation or stream is     *)
(* active, never during retry backoff" (ARCHITECTURE.md).                  *)
NoSlotDuringBackoff ==
  \A s \in Sessions : pc[s] \in {"backoff", "waiting"} => s \notin nested

(* The same sentence, once nothing is active any more: when every execution*)
(* has ended every slot is back.                                           *)
SlotsReturned ==
  (\A s \in Sessions : pc[s] \in Ended) => free = MaxConcurrency
==============================================================================
