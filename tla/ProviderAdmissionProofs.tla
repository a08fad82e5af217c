----------------------- MODULE ProviderAdmissionProofs -----------------------
(***************************************************************************)
(* Theorems about the admission controller, for any finite set of          *)
(* executions, any budget, any bulkhead, with and without the continuation *)
(* of interrupted streams, and whatever a cancellation strikes.            *)
(*                                                                         *)
(* The inductive invariant IInv says who may lead an episode, who may hold *)
(* its probe and where each of them is suspended.                          *)
(***************************************************************************)
EXTENDS ProviderAdmission, FiniteSetTheorems, TLAPS

(* The types without the bound on the semaphore, which BulkheadBound adds. *)
TypeInv ==
  /\ episode \in Episodes \cup {None}
  /\ nextGeneration \in Nat
  /\ free \in Nat
  /\ pc \in [Sessions -> Locations]
  /\ attempts \in [Sessions -> 0 .. MaxAttempts]
  /\ terminal \subseteq Sessions
  /\ permit \in [Sessions -> Permits]
  /\ woken \subseteq Sessions
  /\ resolved \subseteq Sessions
  /\ outcome \in [Sessions -> Ended \cup {"gate"}]
  /\ nested \subseteq Sessions
  /\ leaked \subseteq Closes

(* Whoever is on the way to an attempt has budget for it, and an attempt   *)
(* that may still fail for the controller has been counted.                *)
BudgetInv ==
  \A s \in Sessions :
    /\ pc[s] \in {"idle", "gate", "waiting", "backoff", "quota", "bulkhead"} =>
         attempts[s] < MaxAttempts
    /\ pc[s] = "closing" /\ outcome[s] = "gate" => attempts[s] < MaxAttempts
    /\ pc[s] \in {"upstream", "opened"} => attempts[s] > 0
    /\ pc[s] = "flowing" => s \in resolved
    /\ pc[s] = "closing" /\ s \notin resolved => outcome[s] = "cancelled"
    /\ pc[s] = "abandoning" => outcome[s] = "cancelled"

(* The shape of an episode.                                                *)
EpisodeInv ==
  episode # None =>
    /\ episode.exhausted => episode.leader = None
    /\ episode.probing => episode.leader # None
    /\ episode.leader \notin episode.waiters

(* Nobody on the way to an attempt is among those an exhausted episode     *)
(* dismisses, or has been dismissed.                                       *)
AdmittedInv ==
  \A s \in Sessions : pc[s] \in {"backoff", "quota", "bulkhead"} =>
    /\ s \notin terminal
    /\ episode # None => s \notin episode.waiters

(* A leader that is being admitted, or whose attempt has no outcome yet,   *)
(* holds the matching probe; the holder of a probe is nowhere else.        *)
ProbeInv ==
  \A s \in Sessions : episode # None /\ episode.leader = s =>
    /\ pc[s] \in {"quota", "bulkhead", "upstream", "opened"} => MatchingProbe(s)
    /\ episode.probing =>
         \/ pc[s] \in {"quota", "bulkhead", "upstream", "opened", "abandoning",
                       "shielded", "cancelled", "failed"}
         \/ pc[s] = "closing" /\ outcome[s] \in {"cancelled", "failed"}
    /\ pc[s] # "idle"

IInv == TypeInv /\ BudgetInv /\ EpisodeInv /\ AdmittedInv /\ ProbeInv

(* The controller's own variables keep their types.                        *)
ControllerTypes ==
  /\ episode \in Episodes \cup {None}
  /\ nextGeneration \in Nat
  /\ terminal \subseteq Sessions
  /\ woken \subseteq Sessions

------------------------------------------------------------------------------
(* What the recorded outcome of an attempt does to the episode.            *)

(* An answer closes the episode of a matching probe and nothing else.      *)
LEMMA CloseEffect ==
  ASSUME TypeInv, NEW s \in Sessions, CloseEpisode(s)
  PROVE  /\ ControllerTypes'
         /\ UNCHANGED terminal
         /\ IF MatchingProbe(s) THEN episode' = None ELSE UNCHANGED episode
BY DEF TypeInv, ControllerTypes, CloseEpisode, NotifyAll

(* A correction takes the probe from a matching leader, not the leadership.*)
LEMMA KeepEffect ==
  ASSUME TypeInv, NEW s \in Sessions, KeepLeader(s)
  PROVE  /\ ControllerTypes'
         /\ UNCHANGED terminal
         /\ IF MatchingProbe(s)
              THEN /\ episode' \in Episodes
                   /\ episode'.leader = s /\ ~episode'.probing
                   /\ episode'.generation = episode.generation
                   /\ episode'.exhausted = episode.exhausted
                   /\ episode'.waiters = episode.waiters
              ELSE UNCHANGED episode
<1>1. CASE MatchingProbe(s)
  <2>1. episode \in Episodes
    BY <1>1 DEF TypeInv, MatchingProbe
  <2>2. episode' = [episode EXCEPT !.probing = FALSE, !.ready = TRUE]
    BY <1>1 DEF KeepLeader
  <2>3. episode' \in Episodes
    BY <2>1, <2>2 DEF Episodes
  <2>4. episode.leader = s
    BY <1>1 DEF MatchingProbe
  <2>5. QED
    BY <1>1, <2>1, <2>2, <2>3, <2>4
  DEF TypeInv, ControllerTypes, KeepLeader, NotifyAll, Episodes
<1>2. CASE ~MatchingProbe(s)
  BY <1>2 DEF TypeInv, ControllerTypes, KeepLeader
<1>3. QED
  BY <1>1, <1>2

(* An abandoned probe leaves its episode without a leader.                 *)
LEMMA AbandonEffect ==
  ASSUME TypeInv, NEW s \in Sessions, AbandonProbe(s)
  PROVE  /\ ControllerTypes'
         /\ UNCHANGED terminal
         /\ IF MatchingProbe(s)
              THEN /\ episode' \in Episodes
                   /\ episode'.leader = None /\ ~episode'.probing
                   /\ episode'.generation = episode.generation
                   /\ episode'.exhausted = episode.exhausted
                   /\ episode'.waiters = episode.waiters
              ELSE UNCHANGED episode
<1>1. CASE MatchingProbe(s)
  <2>1. episode \in Episodes
    BY <1>1 DEF TypeInv, MatchingProbe
  <2>2. episode' = [episode EXCEPT !.leader = None, !.probing = FALSE, !.ready = TRUE]
    BY <1>1 DEF AbandonProbe
  <2>3. episode' \in Episodes
    BY <2>1, <2>2 DEF Episodes
  <2>5. QED
    BY <1>1, <2>1, <2>2, <2>3
  DEF TypeInv, ControllerTypes, AbandonProbe, NotifyAll, Episodes
<1>2. CASE ~MatchingProbe(s)
  BY <1>2 DEF TypeInv, ControllerTypes, AbandonProbe
<1>3. QED
  BY <1>1, <1>2

(* A transient failure, with budget left: a first episode, the probe's next*)
(* wait, a terminal error, or one more waiter.                             *)
LEMMA FailWithBudgetEffect ==
  ASSUME TypeInv, NEW s \in Sessions, FailWithBudget(s)
  PROVE  /\ ControllerTypes'
         /\ episode' \in Episodes
         /\ episode = None =>
              /\ UNCHANGED terminal
              /\ episode'.leader = s /\ ~episode'.probing /\ ~episode'.exhausted
              /\ episode'.waiters = {}
         /\ episode # None /\ MatchingProbe(s) =>
              /\ UNCHANGED terminal
              /\ episode'.leader = s /\ ~episode'.probing
              /\ episode'.exhausted = episode.exhausted
              /\ episode'.generation = episode.generation
              /\ episode'.waiters = episode.waiters
         /\ episode # None /\ ~MatchingProbe(s) /\ episode.exhausted =>
              UNCHANGED episode /\ terminal' = terminal \cup {s}
         /\ episode # None /\ ~MatchingProbe(s) /\ ~episode.exhausted =>
              /\ UNCHANGED terminal
              /\ episode'.leader = episode.leader
              /\ episode'.probing = episode.probing
              /\ episode'.exhausted = episode.exhausted
              /\ episode'.generation = episode.generation
              /\ episode'.waiters = episode.waiters \cup {s}
<1> USE DEF TypeInv, ControllerTypes
<1>1. woken' \subseteq Sessions
  BY DEF FailWithBudget, NotifyAll
<1>2. CASE episode = None
  <2>1. episode' = NewEpisode(s, FALSE, FALSE)
    BY <1>2 DEF FailWithBudget
  <2>2. episode' \in Episodes
    BY <2>1 DEF NewEpisode, Episodes
  <2>3. QED
    BY <1>1, <1>2, <2>1, <2>2 DEF FailWithBudget, NewEpisode
<1>3. CASE episode # None /\ MatchingProbe(s)
  <2>1. episode \in Episodes /\ episode.leader = s
    BY <1>3 DEF MatchingProbe
  <2>2. episode' = [episode EXCEPT !.probing = FALSE, !.ready = FALSE]
    BY <1>3 DEF FailWithBudget
  <2>3. episode' \in Episodes
    BY <2>1, <2>2 DEF Episodes
  <2>4. UNCHANGED <<nextGeneration, terminal>>
    BY <1>3 DEF FailWithBudget
  <2>5. QED
    BY <1>1, <1>3, <2>1, <2>2, <2>3, <2>4 DEF Episodes
<1>4. CASE episode # None /\ ~MatchingProbe(s) /\ episode.exhausted
  BY <1>1, <1>4 DEF FailWithBudget
<1>5. CASE episode # None /\ ~MatchingProbe(s) /\ ~episode.exhausted
  <2>1. episode \in Episodes
    BY <1>5
  <2>2. episode' = [episode EXCEPT !.waiters = @ \cup {s}]
    BY <1>5 DEF FailWithBudget
  <2>3. episode' \in Episodes
    BY <2>1, <2>2 DEF Episodes
  <2>4. UNCHANGED <<nextGeneration, terminal>>
    BY <1>5 DEF FailWithBudget
  <2>5. QED
    BY <1>1, <1>5, <2>1, <2>2, <2>3, <2>4 DEF Episodes
<1>6. QED
  BY <1>2, <1>3, <1>4, <1>5

(* The last failure of a budget exhausts the episode and dismisses whoever *)
(* joined it, or concerns nobody else.                                     *)
LEMMA FailExhaustedEffect ==
  ASSUME TypeInv, NEW s \in Sessions, FailExhausted(s)
  PROVE  /\ ControllerTypes'
         /\ episode = None \/ MatchingProbe(s) =>
              /\ episode' \in Episodes
              /\ episode'.leader = None /\ ~episode'.probing
              /\ episode'.exhausted /\ episode'.waiters = {}
              /\ terminal' = terminal \cup (IF episode = None THEN {} ELSE episode.waiters)
         /\ ~(episode = None \/ MatchingProbe(s)) => UNCHANGED <<episode, terminal>>
<1> USE DEF TypeInv, ControllerTypes
<1>1. CASE episode = None
  <2>1. NewEpisode(None, TRUE, FALSE) \in Episodes
    BY DEF NewEpisode, Episodes
  <2>2. episode' = [NewEpisode(None, TRUE, FALSE) EXCEPT !.leader = None,
          !.probing = FALSE, !.waiters = {}, !.exhausted = TRUE, !.cooled = FALSE]
    BY <1>1 DEF FailExhausted
  <2>3. /\ episode' \in Episodes
        /\ episode'.leader = None /\ ~episode'.probing
        /\ episode'.exhausted /\ episode'.waiters = {}
    BY <2>1, <2>2 DEF Episodes
  <2>4. /\ nextGeneration' = nextGeneration + 1
        /\ terminal' = terminal
        /\ woken' \subseteq Sessions
    BY <1>1 DEF FailExhausted, NotifyAll
  <2>5. QED
    BY <1>1, <2>3, <2>4
<1>2. CASE episode # None /\ MatchingProbe(s)
  <2>1. episode \in Episodes
    BY <1>2
  <2>2. episode' = [episode EXCEPT !.leader = None,
          !.probing = FALSE, !.waiters = {}, !.exhausted = TRUE, !.cooled = FALSE]
    BY <1>2 DEF FailExhausted
  <2>3. /\ episode' \in Episodes
        /\ episode'.leader = None /\ ~episode'.probing
        /\ episode'.exhausted /\ episode'.waiters = {}
        /\ episode.waiters \subseteq Sessions
    BY <2>1, <2>2 DEF Episodes
  <2>4. /\ nextGeneration' = nextGeneration + 0
        /\ terminal' = terminal \cup episode.waiters
        /\ woken' \subseteq Sessions
    BY <1>2 DEF FailExhausted, NotifyAll
  <2>5. QED
    BY <1>2, <2>3, <2>4
<1>3. CASE episode # None /\ ~MatchingProbe(s)
  BY <1>3 DEF FailExhausted, controller
<1>4. QED
  BY <1>1, <1>2, <1>3

------------------------------------------------------------------------------
(* How a session moves on.                                                 *)

(* Leaving moves only the session itself: to its end, or to the close of   *)
(* the stream it was recovering.                                           *)
LEMMA LeaveEffect ==
  ASSUME TypeInv, NEW s \in Sessions, NEW result \in Ended, Leave(s, result)
  PROVE  /\ pc' \in [Sessions -> Locations]
         /\ outcome' \in [Sessions -> Ended \cup {"gate"}]
         /\ resolved' \subseteq Sessions
         /\ nested' \subseteq Sessions
         /\ pc'[s] \in {result, "closing"}
         /\ outcome'[s] = result
         /\ pc'[s] = "closing" => s \in resolved'
         /\ \A t \in Sessions \ {s} : /\ pc'[t] = pc[t]
                                      /\ outcome'[t] = outcome[t]
                                      /\ t \in resolved <=> t \in resolved'
BY DEF TypeInv, Leave, Goto, Locations, Ended

(* Releasing an attempt returns its slot and clears its permit.            *)
LEMMA ReleaseEffect ==
  ASSUME TypeInv, NEW s \in Sessions, NEW result \in Ended \cup {"gate"}, Release(s, result)
  PROVE  /\ free' \in Nat
         /\ permit' \in [Sessions -> Permits]
         /\ pc' \in [Sessions -> Locations]
         /\ outcome' \in [Sessions -> Ended \cup {"gate"}]
         /\ resolved' \subseteq Sessions
         /\ nested' \subseteq Sessions
         /\ IF result = "gate" THEN pc'[s] = "gate"
            ELSE pc'[s] \in {result, "closing"} /\ outcome'[s] = result
         /\ pc'[s] = "closing" => s \in resolved'
         /\ \A t \in Sessions \ {s} : /\ pc'[t] = pc[t]
                                      /\ t \in resolved <=> t \in resolved'
                                      /\ outcome'[t] = outcome[t]
                                      /\ permit'[t] = permit[t]
         /\ leaked' = leaked
<1>0. leaked' = leaked
  BY DEF Release
<1>1. /\ free' \in Nat
      /\ permit' \in [Sessions -> Permits]
      /\ \A t \in Sessions \ {s} : permit'[t] = permit[t]
  BY DEF TypeInv, Release, NoPermit, Permits
<1>2. CASE result = "gate"
  BY <1>0, <1>1, <1>2 DEF TypeInv, Release, Goto, Locations
<1>3. CASE result # "gate"
  BY <1>0, <1>1, <1>3, LeaveEffect DEF Release
<1>4. QED
  BY <1>2, <1>3

(* A close that is left is remembered with its session.                    *)
LEMMA LeaveCloseEffect ==
  ASSUME TypeInv, NEW s \in Sessions, NEW result \in Ended, LeaveClose(s, result)
  PROVE  /\ Leave(s, result)
         /\ leaked' \subseteq Closes
         /\ Leaked(s)'
         /\ \A t \in Sessions : Leaked(t) => Leaked(t)'
         /\ UNCHANGED <<controller, free, attempts, permit>>
<1>1. PICK close \in Closes : close[1] = s /\ leaked' = leaked \cup {close}
  <2>1. CASE s \in nested
    <3>1. <<s, "continuation">> \in Closes /\ leaked' = leaked \cup {<<s, "continuation">>}
      BY <2>1 DEF LeaveClose, Closes
    <3>2. QED
      BY <3>1
  <2>2. CASE s \notin nested
    <3>1. <<s, "stream">> \in Closes /\ leaked' = leaked \cup {<<s, "stream">>}
      BY <2>2 DEF LeaveClose, Closes
    <3>2. QED
      BY <3>1
  <2>3. QED
    BY <2>1, <2>2
<1>2. leaked' \subseteq Closes /\ Leaked(s)' /\ \A t \in Sessions : Leaked(t) => Leaked(t)'
  BY <1>1 DEF TypeInv, Leaked
<1>3. QED
  BY <1>2 DEF LeaveClose

(* Waking up as the leader takes the probe; anything else returns to the   *)
(* gate.                                                                   *)
LEMMA BackoffOverEffect ==
  ASSUME TypeInv, NEW s \in Sessions, BackoffOver(s)
  PROVE  /\ episode' \in Episodes \cup {None}
         /\ permit' \in [Sessions -> Permits]
         /\ \A t \in Sessions \ {s} : permit'[t] = permit[t]
         /\ \/ /\ LeadsBackoff(s) /\ ~episode.exhausted
               /\ episode' \in Episodes
               /\ episode'.leader = s /\ episode'.probing /\ ~episode'.exhausted
               /\ episode'.generation = episode.generation
               /\ episode'.waiters = episode.waiters
               /\ permit'[s] = [generation |-> episode.generation, probe |-> TRUE]
               /\ pc' = [pc EXCEPT ![s] = "quota"]
            \/ /\ ~(LeadsBackoff(s) /\ ~episode.exhausted)
               /\ UNCHANGED <<episode, permit>>
               /\ pc' = [pc EXCEPT ![s] = "gate"]
<1>1. CASE LeadsBackoff(s) /\ ~episode.exhausted
  <2>1. episode \in Episodes /\ episode.generation = permit[s].generation /\ episode.leader = s
    BY <1>1 DEF TypeInv, LeadsBackoff
  <2>2. episode' = [episode EXCEPT !.probing = TRUE]
    BY <1>1 DEF BackoffOver
  <2>3. /\ episode' \in Episodes
        /\ episode'.leader = s /\ episode'.probing /\ ~episode'.exhausted
        /\ episode'.generation = episode.generation
        /\ episode'.waiters = episode.waiters
    BY <1>1, <2>1, <2>2 DEF Episodes
  <2>4. permit' = [permit EXCEPT ![s].probe = TRUE]
    BY <1>1 DEF BackoffOver
  <2>5. permit[s] \in Permits
    BY DEF TypeInv
  <2>6. /\ permit'[s] = [generation |-> permit[s].generation, probe |-> TRUE]
        /\ permit'[s] \in Permits
    BY <2>4, <2>5 DEF TypeInv, Permits
  <2>7. permit' \in [Sessions -> Permits] /\ \A t \in Sessions \ {s} : permit'[t] = permit[t]
    BY <2>4, <2>6 DEF TypeInv
  <2>8. pc' = [pc EXCEPT ![s] = "quota"]
    BY <1>1 DEF BackoffOver, Goto
  <2>9. QED
    BY <1>1, <2>1, <2>3, <2>6, <2>7, <2>8
<1>2. CASE ~(LeadsBackoff(s) /\ ~episode.exhausted)
  BY <1>2 DEF TypeInv, BackoffOver, Goto
<1>3. QED
  BY <1>1, <1>2

------------------------------------------------------------------------------
(* The inductive invariant, one conjunct at a time.                        *)

(* The types, with the budget.                                             *)
LEMMA TypeStep ==
  ASSUME TypeInv, BudgetInv, [Next]_vars
  PROVE  TypeInv'
<1> USE NoneAssumption, AttemptsAssumption DEF Goto, controller, ControllerTypes,
      TypeInv, Locations, Ended, Permits, Episodes, BudgetInv
<1>1. ASSUME NEW s \in Sessions, Start(s) PROVE TypeInv'
  BY <1>1 DEF Start
<1>2. ASSUME NEW s \in Sessions, GateRefuses(s) PROVE TypeInv'
  BY <1>2, LeaveEffect DEF GateRefuses
<1>3. ASSUME NEW s \in Sessions, GateOpen(s) PROVE TypeInv'
  BY <1>3 DEF GateOpen, NoPermit
<1>4. ASSUME NEW s \in Sessions, GateReopens(s) PROVE TypeInv'
  BY <1>4 DEF GateReopens, NewEpisode
<1>5. ASSUME NEW s \in Sessions, GateLeads(s) PROVE TypeInv'
  BY <1>5 DEF GateLeads
<1>6. ASSUME NEW s \in Sessions, GateWaits(s) PROVE TypeInv'
  BY <1>6 DEF GateWaits
<1>7. ASSUME NEW s \in Sessions, Wake(s) PROVE TypeInv'
  BY <1>7 DEF Wake
<1>8. ASSUME NEW s \in Sessions, BackoffOver(s) PROVE TypeInv'
  <2>1. /\ episode' \in Episodes \cup {None} /\ permit' \in [Sessions -> Permits]
        /\ pc' = [pc EXCEPT ![s] = "quota"] \/ pc' = [pc EXCEPT ![s] = "gate"]
    BY <1>8, BackoffOverEffect
  <2>2. pc' \in [Sessions -> Locations]
    BY <2>1
  <2>3. UNCHANGED <<nextGeneration, free, attempts, terminal, woken, resolved,
                    outcome, nested, leaked>>
    BY <1>8 DEF BackoffOver
  <2>4. QED
    BY <2>1, <2>2, <2>3
<1>9. ASSUME NEW s \in Sessions, PassQuota(s) PROVE TypeInv'
  BY <1>9, AbandonEffect DEF PassQuota, PermitIsCurrent
<1>10. ASSUME NEW s \in Sessions, AcquireSlot(s) PROVE TypeInv'
  <2>1. CASE PermitIsCurrent(s)
    <3>1. /\ free' = free - 1 /\ free > 0
          /\ attempts' = [attempts EXCEPT ![s] = @ + 1]
          /\ pc[s] = "bulkhead"
          /\ pc' = [pc EXCEPT ![s] = "upstream"]
          /\ resolved' = resolved \ {s}
          /\ UNCHANGED <<controller, permit, outcome, nested, leaked>>
      BY <1>10, <2>1 DEF AcquireSlot
    <3>2. free' \in Nat /\ attempts[s] + 1 \in 0 .. MaxAttempts
      BY <3>1
    <3>3. attempts' \in [Sessions -> 0 .. MaxAttempts]
      BY <3>1, <3>2
    <3>4. QED
      BY <3>1, <3>2, <3>3
  <2>2. CASE ~PermitIsCurrent(s)
    BY <1>10, <2>2, AbandonEffect DEF AcquireSlot
  <2>3. QED
    BY <2>1, <2>2
<1>11. ASSUME NEW s \in Sessions, CallSucceeds(s) PROVE TypeInv'
  BY <1>11, CloseEffect, ReleaseEffect DEF CallSucceeds
<1>12. ASSUME NEW s \in Sessions, OperationRejected(s) PROVE TypeInv'
  BY <1>12, CloseEffect, ReleaseEffect DEF OperationRejected, CanAttempt
<1>13. ASSUME NEW s \in Sessions, OperationFails(s) PROVE TypeInv'
  BY <1>13, FailWithBudgetEffect, FailExhaustedEffect, ReleaseEffect
  DEF OperationFails, AttemptFailed, CanAttempt
<1>14. ASSUME NEW s \in Sessions, CreateCorrected(s) PROVE TypeInv'
  BY <1>14, KeepEffect, ReleaseEffect DEF CreateCorrected, CanAttempt
<1>15. ASSUME NEW s \in Sessions, StreamOpens(s) PROVE TypeInv'
  BY <1>15 DEF StreamOpens
<1>16. ASSUME NEW s \in Sessions, FirstChunk(s) PROVE TypeInv'
  BY <1>16, CloseEffect DEF FirstChunk
<1>17. ASSUME NEW s \in Sessions, OpenedFails(s) PROVE TypeInv'
  BY <1>17, FailWithBudgetEffect, FailExhaustedEffect
  DEF OpenedFails, AttemptFailed, Closing, CanAttempt
<1>18. ASSUME NEW s \in Sessions, OpenedRejected(s) PROVE TypeInv'
  BY <1>18, CloseEffect DEF OpenedRejected, Closing
<1>19. ASSUME NEW s \in Sessions, StreamEnds(s) PROVE TypeInv'
  BY <1>19 DEF StreamEnds, Closing, CanAttempt
<1>20. ASSUME NEW s \in Sessions, StreamRecovers(s) PROVE TypeInv'
  BY <1>20 DEF StreamRecovers, CanAttempt, NoPermit
<1>21. ASSUME NEW s \in Sessions, CloseFinishes(s) PROVE TypeInv'
  BY <1>21, ReleaseEffect DEF CloseFinishes
<1>22. ASSUME NEW s \in Sessions, Abandon(s) PROVE TypeInv'
  BY <1>22, AbandonEffect, ReleaseEffect DEF Abandon
<1>23. ASSUME NEW s \in Sessions, ShieldedAbandon(s) PROVE TypeInv'
  BY <1>23, AbandonEffect, LeaveEffect DEF ShieldedAbandon, NoPermit
<1>24. ASSUME NEW s \in Sessions, CancelWaiting(s) PROVE TypeInv'
  BY <1>24, LeaveEffect DEF CancelWaiting
<1>25. ASSUME NEW s \in Sessions, CancelBackoff(s) PROVE TypeInv'
  <2>1. CASE LeadsBackoff(s)
    <3>1. episode \in Episodes /\ episode' = [episode EXCEPT !.leader = None]
      BY <1>25, <2>1 DEF CancelBackoff, LeadsBackoff
    <3>2. episode' \in Episodes
      BY <3>1
    <3>3. woken' \subseteq Sessions
      BY <1>25, <2>1 DEF CancelBackoff, NotifyAll
    <3>4. QED
      BY <1>25, <3>2, <3>3, LeaveEffect DEF CancelBackoff
  <2>2. CASE ~LeadsBackoff(s)
    BY <1>25, <2>2, LeaveEffect DEF CancelBackoff
  <2>3. QED
    BY <2>1, <2>2
<1>26. ASSUME NEW s \in Sessions, CancelAdmission(s) PROVE TypeInv'
  BY <1>26, AbandonEffect, LeaveEffect DEF CancelAdmission
<1>27. ASSUME NEW s \in Sessions, OperationCancelled(s) PROVE TypeInv'
  BY <1>27 DEF OperationCancelled
<1>28. ASSUME NEW s \in Sessions, StreamCancelled(s) PROVE TypeInv'
  BY <1>28 DEF StreamCancelled, Closing
<1>29. ASSUME NEW s \in Sessions, CloseInterrupted(s) PROVE TypeInv'
  BY <1>29, LeaveCloseEffect, LeaveEffect DEF CloseInterrupted
<1>35. ASSUME NEW s \in Sessions, CloseRaises(s) PROVE TypeInv'
  BY <1>35, LeaveCloseEffect, LeaveEffect DEF CloseRaises
<1>30. ASSUME NEW s \in Sessions, AbandonInterrupted(s) PROVE TypeInv'
  BY <1>30 DEF AbandonInterrupted
<1>31. CASE BackoffElapses
  BY <1>31 DEF BackoffElapses
<1>32. CASE CooldownElapses
  BY <1>32 DEF CooldownElapses
<1>33. CASE UNCHANGED vars
  BY <1>33 DEF vars
<1>34. QED
  BY <1>1, <1>2, <1>3, <1>4, <1>5, <1>6, <1>7, <1>8, <1>9, <1>10, <1>11,
     <1>12, <1>13, <1>14, <1>15, <1>16, <1>17, <1>18, <1>19, <1>20, <1>21,
     <1>22, <1>23, <1>24, <1>25, <1>26, <1>27, <1>28, <1>29, <1>30, <1>31,
     <1>32, <1>33, <1>35
  DEF Next, Proceed, Cancel, Gate, Operation, Stream

(* The budget.                                                             *)
LEMMA BudgetStep ==
  ASSUME TypeInv, BudgetInv, [Next]_vars
  PROVE  BudgetInv'
<1> USE NoneAssumption, AttemptsAssumption DEF Goto, controller, TypeInv, Locations,
      Ended, BudgetInv
<1>1. ASSUME NEW s \in Sessions, Start(s) PROVE BudgetInv'
  BY <1>1 DEF Start
<1>2. ASSUME NEW s \in Sessions, GateRefuses(s) PROVE BudgetInv'
  BY <1>2, LeaveEffect DEF GateRefuses
<1>3. ASSUME NEW s \in Sessions, GateOpen(s) PROVE BudgetInv'
  BY <1>3 DEF GateOpen, NoPermit
<1>4. ASSUME NEW s \in Sessions, GateReopens(s) PROVE BudgetInv'
  BY <1>4 DEF GateReopens, NewEpisode
<1>5. ASSUME NEW s \in Sessions, GateLeads(s) PROVE BudgetInv'
  BY <1>5 DEF GateLeads
<1>6. ASSUME NEW s \in Sessions, GateWaits(s) PROVE BudgetInv'
  BY <1>6 DEF GateWaits
<1>7. ASSUME NEW s \in Sessions, Wake(s) PROVE BudgetInv'
  BY <1>7 DEF Wake
<1>8. ASSUME NEW s \in Sessions, BackoffOver(s) PROVE BudgetInv'
  BY <1>8, BackoffOverEffect DEF BackoffOver, LeadsBackoff
<1>9. ASSUME NEW s \in Sessions, PassQuota(s) PROVE BudgetInv'
  BY <1>9, AbandonEffect DEF PassQuota, PermitIsCurrent
<1>10. ASSUME NEW s \in Sessions, AcquireSlot(s) PROVE BudgetInv'
  BY <1>10, AbandonEffect DEF AcquireSlot, PermitIsCurrent
<1>11. ASSUME NEW s \in Sessions, CallSucceeds(s) PROVE BudgetInv'
  BY <1>11, CloseEffect, ReleaseEffect DEF CallSucceeds
<1>12. ASSUME NEW s \in Sessions, OperationRejected(s) PROVE BudgetInv'
  BY <1>12, CloseEffect, ReleaseEffect DEF OperationRejected, CanAttempt
<1>13. ASSUME NEW s \in Sessions, OperationFails(s) PROVE BudgetInv'
  BY <1>13, FailWithBudgetEffect, FailExhaustedEffect, ReleaseEffect
  DEF OperationFails, AttemptFailed, CanAttempt
<1>14. ASSUME NEW s \in Sessions, CreateCorrected(s) PROVE BudgetInv'
  BY <1>14, KeepEffect, ReleaseEffect DEF CreateCorrected, CanAttempt
<1>15. ASSUME NEW s \in Sessions, StreamOpens(s) PROVE BudgetInv'
  BY <1>15 DEF StreamOpens
<1>16. ASSUME NEW s \in Sessions, FirstChunk(s) PROVE BudgetInv'
  BY <1>16, CloseEffect DEF FirstChunk
<1>17. ASSUME NEW s \in Sessions, OpenedFails(s) PROVE BudgetInv'
  BY <1>17, FailWithBudgetEffect, FailExhaustedEffect
  DEF OpenedFails, AttemptFailed, Closing, CanAttempt
<1>18. ASSUME NEW s \in Sessions, OpenedRejected(s) PROVE BudgetInv'
  BY <1>18, CloseEffect DEF OpenedRejected, Closing
<1>19. ASSUME NEW s \in Sessions, StreamEnds(s) PROVE BudgetInv'
  BY <1>19 DEF StreamEnds, Closing, CanAttempt
<1>20. ASSUME NEW s \in Sessions, StreamRecovers(s) PROVE BudgetInv'
  BY <1>20 DEF StreamRecovers, CanAttempt, NoPermit
<1>21. ASSUME NEW s \in Sessions, CloseFinishes(s) PROVE BudgetInv'
  <2>1. CASE s \in resolved
    <3>1. outcome[s] \in Ended \cup {"gate"} /\ Release(s, outcome[s])
      BY <1>21, <2>1 DEF CloseFinishes
    <3>2. pc[s] = "closing" /\ UNCHANGED <<controller, attempts>>
      BY <1>21, <2>1 DEF CloseFinishes
    <3>3. QED
      BY <3>1, <3>2, ReleaseEffect
  <2>2. CASE s \notin resolved
    BY <1>21, <2>2 DEF CloseFinishes
  <2>3. QED
    BY <2>1, <2>2
<1>22. ASSUME NEW s \in Sessions, Abandon(s) PROVE BudgetInv'
  BY <1>22, AbandonEffect, ReleaseEffect DEF Abandon
<1>23. ASSUME NEW s \in Sessions, ShieldedAbandon(s) PROVE BudgetInv'
  BY <1>23, AbandonEffect, LeaveEffect DEF ShieldedAbandon, NoPermit
<1>24. ASSUME NEW s \in Sessions, CancelWaiting(s) PROVE BudgetInv'
  BY <1>24, LeaveEffect DEF CancelWaiting
<1>25. ASSUME NEW s \in Sessions, CancelBackoff(s) PROVE BudgetInv'
  BY <1>25, LeaveEffect DEF CancelBackoff, LeadsBackoff, NotifyAll
<1>26. ASSUME NEW s \in Sessions, CancelAdmission(s) PROVE BudgetInv'
  BY <1>26, AbandonEffect, LeaveEffect DEF CancelAdmission
<1>27. ASSUME NEW s \in Sessions, OperationCancelled(s) PROVE BudgetInv'
  BY <1>27 DEF OperationCancelled
<1>28. ASSUME NEW s \in Sessions, StreamCancelled(s) PROVE BudgetInv'
  BY <1>28 DEF StreamCancelled, Closing
<1>29. ASSUME NEW s \in Sessions, CloseInterrupted(s) PROVE BudgetInv'
  BY <1>29, LeaveEffect DEF CloseInterrupted, LeaveClose
<1>35. ASSUME NEW s \in Sessions, CloseRaises(s) PROVE BudgetInv'
  BY <1>35, LeaveEffect DEF CloseRaises, LeaveClose
<1>30. ASSUME NEW s \in Sessions, AbandonInterrupted(s) PROVE BudgetInv'
  BY <1>30 DEF AbandonInterrupted
<1>31. CASE BackoffElapses
  BY <1>31 DEF BackoffElapses
<1>32. CASE CooldownElapses
  BY <1>32 DEF CooldownElapses
<1>33. CASE UNCHANGED vars
  BY <1>33 DEF vars
<1>34. QED
  BY <1>1, <1>2, <1>3, <1>4, <1>5, <1>6, <1>7, <1>8, <1>9, <1>10, <1>11,
     <1>12, <1>13, <1>14, <1>15, <1>16, <1>17, <1>18, <1>19, <1>20, <1>21,
     <1>22, <1>23, <1>24, <1>25, <1>26, <1>27, <1>28, <1>29, <1>30, <1>31,
     <1>32, <1>33, <1>35
  DEF Next, Proceed, Cancel, Gate, Operation, Stream

(* The shape of an episode.                                                *)
LEMMA EpisodeStep ==
  ASSUME IInv, [Next]_vars
  PROVE  EpisodeInv'
<1> USE NoneAssumption, AttemptsAssumption DEF IInv, Goto, controller, TypeInv, Permits,
      Episodes, EpisodeInv, ProbeInv, MatchingProbe
<1>1. ASSUME NEW s \in Sessions, Start(s) PROVE EpisodeInv'
  BY <1>1 DEF Start
<1>2. ASSUME NEW s \in Sessions, GateRefuses(s) PROVE EpisodeInv'
  BY <1>2, LeaveEffect DEF GateRefuses
<1>3. ASSUME NEW s \in Sessions, GateOpen(s) PROVE EpisodeInv'
  BY <1>3 DEF GateOpen, NoPermit
<1>4. ASSUME NEW s \in Sessions, GateReopens(s) PROVE EpisodeInv'
  BY <1>4 DEF GateReopens, NewEpisode
<1>5. ASSUME NEW s \in Sessions, GateLeads(s) PROVE EpisodeInv'
  BY <1>5 DEF GateLeads
<1>6. ASSUME NEW s \in Sessions, GateWaits(s) PROVE EpisodeInv'
  BY <1>6 DEF GateWaits
<1>7. ASSUME NEW s \in Sessions, Wake(s) PROVE EpisodeInv'
  BY <1>7 DEF Wake
<1>8. ASSUME NEW s \in Sessions, BackoffOver(s) PROVE EpisodeInv'
  BY <1>8, BackoffOverEffect DEF BackoffOver, LeadsBackoff
<1>9. ASSUME NEW s \in Sessions, PassQuota(s) PROVE EpisodeInv'
  BY <1>9, AbandonEffect DEF PassQuota, PermitIsCurrent
<1>10. ASSUME NEW s \in Sessions, AcquireSlot(s) PROVE EpisodeInv'
  BY <1>10, AbandonEffect DEF AcquireSlot, PermitIsCurrent
<1>11. ASSUME NEW s \in Sessions, CallSucceeds(s) PROVE EpisodeInv'
  BY <1>11, CloseEffect, ReleaseEffect DEF CallSucceeds
<1>12. ASSUME NEW s \in Sessions, OperationRejected(s) PROVE EpisodeInv'
  BY <1>12, CloseEffect, ReleaseEffect DEF OperationRejected, CanAttempt
<1>13. ASSUME NEW s \in Sessions, OperationFails(s) PROVE EpisodeInv'
  BY <1>13, FailWithBudgetEffect, FailExhaustedEffect, ReleaseEffect
  DEF OperationFails, AttemptFailed, CanAttempt
<1>14. ASSUME NEW s \in Sessions, CreateCorrected(s) PROVE EpisodeInv'
  BY <1>14, KeepEffect, ReleaseEffect DEF CreateCorrected, CanAttempt
<1>15. ASSUME NEW s \in Sessions, StreamOpens(s) PROVE EpisodeInv'
  BY <1>15 DEF StreamOpens
<1>16. ASSUME NEW s \in Sessions, FirstChunk(s) PROVE EpisodeInv'
  BY <1>16, CloseEffect DEF FirstChunk
<1>17. ASSUME NEW s \in Sessions, OpenedFails(s) PROVE EpisodeInv'
  BY <1>17, FailWithBudgetEffect, FailExhaustedEffect
  DEF OpenedFails, AttemptFailed, Closing, CanAttempt
<1>18. ASSUME NEW s \in Sessions, OpenedRejected(s) PROVE EpisodeInv'
  BY <1>18, CloseEffect DEF OpenedRejected, Closing
<1>19. ASSUME NEW s \in Sessions, StreamEnds(s) PROVE EpisodeInv'
  BY <1>19 DEF StreamEnds, Closing, CanAttempt
<1>20. ASSUME NEW s \in Sessions, StreamRecovers(s) PROVE EpisodeInv'
  BY <1>20 DEF StreamRecovers, CanAttempt, NoPermit
<1>21. ASSUME NEW s \in Sessions, CloseFinishes(s) PROVE EpisodeInv'
  BY <1>21, ReleaseEffect DEF CloseFinishes
<1>22. ASSUME NEW s \in Sessions, Abandon(s) PROVE EpisodeInv'
  BY <1>22, AbandonEffect, ReleaseEffect DEF Abandon
<1>23. ASSUME NEW s \in Sessions, ShieldedAbandon(s) PROVE EpisodeInv'
  BY <1>23, AbandonEffect, LeaveEffect DEF ShieldedAbandon, NoPermit
<1>24. ASSUME NEW s \in Sessions, CancelWaiting(s) PROVE EpisodeInv'
  BY <1>24, LeaveEffect DEF CancelWaiting
<1>25. ASSUME NEW s \in Sessions, CancelBackoff(s) PROVE EpisodeInv'
  BY <1>25, LeaveEffect DEF CancelBackoff, LeadsBackoff, NotifyAll
<1>26. ASSUME NEW s \in Sessions, CancelAdmission(s) PROVE EpisodeInv'
  BY <1>26, AbandonEffect, LeaveEffect DEF CancelAdmission
<1>27. ASSUME NEW s \in Sessions, OperationCancelled(s) PROVE EpisodeInv'
  BY <1>27 DEF OperationCancelled
<1>28. ASSUME NEW s \in Sessions, StreamCancelled(s) PROVE EpisodeInv'
  BY <1>28 DEF StreamCancelled, Closing
<1>29. ASSUME NEW s \in Sessions, CloseInterrupted(s) PROVE EpisodeInv'
  BY <1>29, LeaveEffect DEF CloseInterrupted, LeaveClose
<1>35. ASSUME NEW s \in Sessions, CloseRaises(s) PROVE EpisodeInv'
  BY <1>35, LeaveEffect DEF CloseRaises, LeaveClose
<1>30. ASSUME NEW s \in Sessions, AbandonInterrupted(s) PROVE EpisodeInv'
  BY <1>30 DEF AbandonInterrupted
<1>31. CASE BackoffElapses
  BY <1>31 DEF BackoffElapses
<1>32. CASE CooldownElapses
  BY <1>32 DEF CooldownElapses
<1>33. CASE UNCHANGED vars
  BY <1>33 DEF vars
<1>34. QED
  BY <1>1, <1>2, <1>3, <1>4, <1>5, <1>6, <1>7, <1>8, <1>9, <1>10, <1>11,
     <1>12, <1>13, <1>14, <1>15, <1>16, <1>17, <1>18, <1>19, <1>20, <1>21,
     <1>22, <1>23, <1>24, <1>25, <1>26, <1>27, <1>28, <1>29, <1>30, <1>31,
     <1>32, <1>33, <1>35
  DEF Next, Proceed, Cancel, Gate, Operation, Stream

(* Nobody admitted is dismissed.                                           *)
LEMMA AdmittedStep ==
  ASSUME IInv, [Next]_vars
  PROVE  AdmittedInv'
<1> USE NoneAssumption, AttemptsAssumption DEF IInv, Goto, controller, TypeInv, Ended,
      Episodes, EpisodeInv, AdmittedInv, MatchingProbe
<1>1. ASSUME NEW s \in Sessions, Start(s) PROVE AdmittedInv'
  BY <1>1 DEF Start
<1>2. ASSUME NEW s \in Sessions, GateRefuses(s) PROVE AdmittedInv'
  BY <1>2, LeaveEffect DEF GateRefuses
<1>3. ASSUME NEW s \in Sessions, GateOpen(s) PROVE AdmittedInv'
  BY <1>3 DEF GateOpen, NoPermit
<1>4. ASSUME NEW s \in Sessions, GateReopens(s) PROVE AdmittedInv'
  BY <1>4 DEF GateReopens, NewEpisode
<1>5. ASSUME NEW s \in Sessions, GateLeads(s) PROVE AdmittedInv'
  BY <1>5 DEF GateLeads
<1>6. ASSUME NEW s \in Sessions, GateWaits(s) PROVE AdmittedInv'
  BY <1>6 DEF GateWaits
<1>7. ASSUME NEW s \in Sessions, Wake(s) PROVE AdmittedInv'
  BY <1>7 DEF Wake
<1>8. ASSUME NEW s \in Sessions, BackoffOver(s) PROVE AdmittedInv'
  BY <1>8, BackoffOverEffect DEF BackoffOver, LeadsBackoff
<1>9. ASSUME NEW s \in Sessions, PassQuota(s) PROVE AdmittedInv'
  BY <1>9, AbandonEffect DEF PassQuota, PermitIsCurrent
<1>10. ASSUME NEW s \in Sessions, AcquireSlot(s) PROVE AdmittedInv'
  BY <1>10, AbandonEffect DEF AcquireSlot, PermitIsCurrent
<1>11. ASSUME NEW s \in Sessions, CallSucceeds(s) PROVE AdmittedInv'
  BY <1>11, CloseEffect, ReleaseEffect DEF CallSucceeds
<1>12. ASSUME NEW s \in Sessions, OperationRejected(s) PROVE AdmittedInv'
  BY <1>12, CloseEffect, ReleaseEffect DEF OperationRejected, CanAttempt
<1>13. ASSUME NEW s \in Sessions, OperationFails(s) PROVE AdmittedInv'
  BY <1>13, FailWithBudgetEffect, FailExhaustedEffect, ReleaseEffect
  DEF OperationFails, AttemptFailed, CanAttempt
<1>14. ASSUME NEW s \in Sessions, CreateCorrected(s) PROVE AdmittedInv'
  BY <1>14, KeepEffect, ReleaseEffect DEF CreateCorrected, CanAttempt
<1>15. ASSUME NEW s \in Sessions, StreamOpens(s) PROVE AdmittedInv'
  BY <1>15 DEF StreamOpens
<1>16. ASSUME NEW s \in Sessions, FirstChunk(s) PROVE AdmittedInv'
  BY <1>16, CloseEffect DEF FirstChunk
<1>17. ASSUME NEW s \in Sessions, OpenedFails(s) PROVE AdmittedInv'
  BY <1>17, FailWithBudgetEffect, FailExhaustedEffect
  DEF OpenedFails, AttemptFailed, Closing, CanAttempt
<1>18. ASSUME NEW s \in Sessions, OpenedRejected(s) PROVE AdmittedInv'
  BY <1>18, CloseEffect DEF OpenedRejected, Closing
<1>19. ASSUME NEW s \in Sessions, StreamEnds(s) PROVE AdmittedInv'
  BY <1>19 DEF StreamEnds, Closing, CanAttempt
<1>20. ASSUME NEW s \in Sessions, StreamRecovers(s) PROVE AdmittedInv'
  BY <1>20 DEF StreamRecovers, CanAttempt, NoPermit
<1>21. ASSUME NEW s \in Sessions, CloseFinishes(s) PROVE AdmittedInv'
  <2>1. CASE s \in resolved
    <3>1. outcome[s] \in Ended \cup {"gate"} /\ Release(s, outcome[s])
      BY <1>21, <2>1 DEF CloseFinishes
    <3>2. pc[s] = "closing" /\ UNCHANGED <<controller, attempts>>
      BY <1>21, <2>1 DEF CloseFinishes
    <3>3. QED
      BY <3>1, <3>2, ReleaseEffect
  <2>2. CASE s \notin resolved
    BY <1>21, <2>2 DEF CloseFinishes
  <2>3. QED
    BY <2>1, <2>2
<1>22. ASSUME NEW s \in Sessions, Abandon(s) PROVE AdmittedInv'
  BY <1>22, AbandonEffect, ReleaseEffect DEF Abandon
<1>23. ASSUME NEW s \in Sessions, ShieldedAbandon(s) PROVE AdmittedInv'
  BY <1>23, AbandonEffect, LeaveEffect DEF ShieldedAbandon, NoPermit
<1>24. ASSUME NEW s \in Sessions, CancelWaiting(s) PROVE AdmittedInv'
  BY <1>24, LeaveEffect DEF CancelWaiting
<1>25. ASSUME NEW s \in Sessions, CancelBackoff(s) PROVE AdmittedInv'
  BY <1>25, LeaveEffect DEF CancelBackoff, LeadsBackoff, NotifyAll
<1>26. ASSUME NEW s \in Sessions, CancelAdmission(s) PROVE AdmittedInv'
  BY <1>26, AbandonEffect, LeaveEffect DEF CancelAdmission
<1>27. ASSUME NEW s \in Sessions, OperationCancelled(s) PROVE AdmittedInv'
  BY <1>27 DEF OperationCancelled
<1>28. ASSUME NEW s \in Sessions, StreamCancelled(s) PROVE AdmittedInv'
  BY <1>28 DEF StreamCancelled, Closing
<1>29. ASSUME NEW s \in Sessions, CloseInterrupted(s) PROVE AdmittedInv'
  BY <1>29, LeaveEffect DEF CloseInterrupted, LeaveClose
<1>35. ASSUME NEW s \in Sessions, CloseRaises(s) PROVE AdmittedInv'
  BY <1>35, LeaveEffect DEF CloseRaises, LeaveClose
<1>30. ASSUME NEW s \in Sessions, AbandonInterrupted(s) PROVE AdmittedInv'
  BY <1>30 DEF AbandonInterrupted
<1>31. CASE BackoffElapses
  BY <1>31 DEF BackoffElapses
<1>32. CASE CooldownElapses
  BY <1>32 DEF CooldownElapses
<1>33. CASE UNCHANGED vars
  BY <1>33 DEF vars
<1>34. QED
  BY <1>1, <1>2, <1>3, <1>4, <1>5, <1>6, <1>7, <1>8, <1>9, <1>10, <1>11,
     <1>12, <1>13, <1>14, <1>15, <1>16, <1>17, <1>18, <1>19, <1>20, <1>21,
     <1>22, <1>23, <1>24, <1>25, <1>26, <1>27, <1>28, <1>29, <1>30, <1>31,
     <1>32, <1>33, <1>35
  DEF Next, Proceed, Cancel, Gate, Operation, Stream

(* The leader and its probe.                                               *)
LEMMA ProbeStep ==
  ASSUME IInv, [Next]_vars
  PROVE  ProbeInv'
<1> USE NoneAssumption, AttemptsAssumption DEF IInv, Goto, controller, TypeInv, Ended,
      Permits, Episodes, EpisodeInv, ProbeInv, MatchingProbe, BudgetInv
<1>1. ASSUME NEW s \in Sessions, Start(s) PROVE ProbeInv'
  BY <1>1 DEF Start
<1>2. ASSUME NEW s \in Sessions, GateRefuses(s) PROVE ProbeInv'
  BY <1>2, LeaveEffect DEF GateRefuses
<1>3. ASSUME NEW s \in Sessions, GateOpen(s) PROVE ProbeInv'
  BY <1>3 DEF GateOpen, NoPermit
<1>4. ASSUME NEW s \in Sessions, GateReopens(s) PROVE ProbeInv'
  BY <1>4 DEF GateReopens, NewEpisode
<1>5. ASSUME NEW s \in Sessions, GateLeads(s) PROVE ProbeInv'
  BY <1>5 DEF GateLeads
<1>6. ASSUME NEW s \in Sessions, GateWaits(s) PROVE ProbeInv'
  BY <1>6 DEF GateWaits
<1>7. ASSUME NEW s \in Sessions, Wake(s) PROVE ProbeInv'
  BY <1>7 DEF Wake
<1>8. ASSUME NEW s \in Sessions, BackoffOver(s) PROVE ProbeInv'
  BY <1>8, BackoffOverEffect DEF BackoffOver, LeadsBackoff
<1>9. ASSUME NEW s \in Sessions, PassQuota(s) PROVE ProbeInv'
  BY <1>9, AbandonEffect DEF PassQuota, PermitIsCurrent
<1>10. ASSUME NEW s \in Sessions, AcquireSlot(s) PROVE ProbeInv'
  BY <1>10, AbandonEffect DEF AcquireSlot, PermitIsCurrent
<1>11. ASSUME NEW s \in Sessions, CallSucceeds(s) PROVE ProbeInv'
  BY <1>11, CloseEffect, ReleaseEffect DEF CallSucceeds
<1>12. ASSUME NEW s \in Sessions, OperationRejected(s) PROVE ProbeInv'
  BY <1>12, CloseEffect, ReleaseEffect DEF OperationRejected, CanAttempt
<1>13. ASSUME NEW s \in Sessions, OperationFails(s) PROVE ProbeInv'
  BY <1>13, FailWithBudgetEffect, FailExhaustedEffect, ReleaseEffect
  DEF OperationFails, AttemptFailed, CanAttempt
<1>14. ASSUME NEW s \in Sessions, CreateCorrected(s) PROVE ProbeInv'
  BY <1>14, KeepEffect, ReleaseEffect DEF CreateCorrected, CanAttempt
<1>15. ASSUME NEW s \in Sessions, StreamOpens(s) PROVE ProbeInv'
  BY <1>15 DEF StreamOpens
<1>16. ASSUME NEW s \in Sessions, FirstChunk(s) PROVE ProbeInv'
  BY <1>16, CloseEffect DEF FirstChunk
<1>17. ASSUME NEW s \in Sessions, OpenedFails(s) PROVE ProbeInv'
  BY <1>17, FailWithBudgetEffect, FailExhaustedEffect
  DEF OpenedFails, AttemptFailed, Closing, CanAttempt
<1>18. ASSUME NEW s \in Sessions, OpenedRejected(s) PROVE ProbeInv'
  BY <1>18, CloseEffect DEF OpenedRejected, Closing
<1>19. ASSUME NEW s \in Sessions, StreamEnds(s) PROVE ProbeInv'
  BY <1>19 DEF StreamEnds, Closing, CanAttempt
<1>20. ASSUME NEW s \in Sessions, StreamRecovers(s) PROVE ProbeInv'
  BY <1>20 DEF StreamRecovers, CanAttempt, NoPermit
<1>21. ASSUME NEW s \in Sessions, CloseFinishes(s) PROVE ProbeInv'
  <2>1. CASE s \in resolved
    <3>1. outcome[s] \in Ended \cup {"gate"} /\ Release(s, outcome[s])
      BY <1>21, <2>1 DEF CloseFinishes
    <3>2. pc[s] = "closing" /\ UNCHANGED <<controller, attempts>>
      BY <1>21, <2>1 DEF CloseFinishes
    <3>3. QED
      BY <3>1, <3>2, ReleaseEffect
  <2>2. CASE s \notin resolved
    BY <1>21, <2>2 DEF CloseFinishes
  <2>3. QED
    BY <2>1, <2>2
<1>22. ASSUME NEW s \in Sessions, Abandon(s) PROVE ProbeInv'
  BY <1>22, AbandonEffect, ReleaseEffect DEF Abandon
<1>23. ASSUME NEW s \in Sessions, ShieldedAbandon(s) PROVE ProbeInv'
  BY <1>23, AbandonEffect, LeaveEffect DEF ShieldedAbandon, NoPermit
<1>24. ASSUME NEW s \in Sessions, CancelWaiting(s) PROVE ProbeInv'
  BY <1>24, LeaveEffect DEF CancelWaiting
<1>25. ASSUME NEW s \in Sessions, CancelBackoff(s) PROVE ProbeInv'
  BY <1>25, LeaveEffect DEF CancelBackoff, LeadsBackoff, NotifyAll
<1>26. ASSUME NEW s \in Sessions, CancelAdmission(s) PROVE ProbeInv'
  BY <1>26, AbandonEffect, LeaveEffect DEF CancelAdmission
<1>27. ASSUME NEW s \in Sessions, OperationCancelled(s) PROVE ProbeInv'
  BY <1>27 DEF OperationCancelled
<1>28. ASSUME NEW s \in Sessions, StreamCancelled(s) PROVE ProbeInv'
  BY <1>28 DEF StreamCancelled, Closing
<1>29. ASSUME NEW s \in Sessions, CloseInterrupted(s) PROVE ProbeInv'
  BY <1>29, LeaveEffect DEF CloseInterrupted, LeaveClose
<1>35. ASSUME NEW s \in Sessions, CloseRaises(s) PROVE ProbeInv'
  BY <1>35, LeaveEffect DEF CloseRaises, LeaveClose
<1>30. ASSUME NEW s \in Sessions, AbandonInterrupted(s) PROVE ProbeInv'
  BY <1>30 DEF AbandonInterrupted
<1>31. CASE BackoffElapses
  BY <1>31 DEF BackoffElapses
<1>32. CASE CooldownElapses
  BY <1>32 DEF CooldownElapses
<1>33. CASE UNCHANGED vars
  BY <1>33 DEF vars
<1>34. QED
  BY <1>1, <1>2, <1>3, <1>4, <1>5, <1>6, <1>7, <1>8, <1>9, <1>10, <1>11,
     <1>12, <1>13, <1>14, <1>15, <1>16, <1>17, <1>18, <1>19, <1>20, <1>21,
     <1>22, <1>23, <1>24, <1>25, <1>26, <1>27, <1>28, <1>29, <1>30, <1>31,
     <1>32, <1>33, <1>35
  DEF Next, Proceed, Cancel, Gate, Operation, Stream

(* Each conjunct of the invariant is kept by every step.                   *)
LEMMA InvariantStep ==
  ASSUME IInv, [Next]_vars
  PROVE  IInv'
<1>1. TypeInv'
  BY TypeStep DEF IInv
<1>2. BudgetInv'
  BY BudgetStep DEF IInv
<1>3. EpisodeInv' /\ AdmittedInv' /\ ProbeInv'
  BY EpisodeStep, AdmittedStep, ProbeStep
<1>4. QED
  BY <1>1, <1>2, <1>3 DEF IInv

LEMMA InvariantInit ==
  ASSUME Init
  PROVE  IInv
BY AttemptsAssumption, ConcurrencyAssumption
DEF Init, IInv, TypeInv, BudgetInv, EpisodeInv, AdmittedInv, ProbeInv,
    Locations, Ended, Permits, NoPermit

(* The executions, the episode and the permits always fit together: who    *)
(* leads, who holds the probe, and who has budget for what comes next.     *)
THEOREM Invariance == Spec => []IInv
<1>1. Init => IInv
  BY InvariantInit
<1>2. IInv /\ [Next]_vars => IInv'
  BY InvariantStep
<1>3. QED
  BY <1>1, <1>2, PTL DEF Spec

------------------------------------------------------------------------------
(* The bulkhead's account.                                                 *)

SlotCount == free + Cardinality(SlotOwners) + Cardinality(nested) + Cardinality(leaked)

SlotsInv == SlotCount = MaxConcurrency

(* The three sets that are counted are finite.                             *)
LEMMA SlotSets ==
  ASSUME TypeInv
  PROVE  /\ IsFiniteSet(SlotOwners) /\ Cardinality(SlotOwners) \in Nat
         /\ IsFiniteSet(nested) /\ Cardinality(nested) \in Nat
         /\ IsFiniteSet(leaked) /\ Cardinality(leaked) \in Nat
<1>1. SlotOwners \subseteq Sessions /\ nested \subseteq Sessions /\ leaked \subseteq Closes
  BY DEF TypeInv, SlotOwners
<1>2. IsFiniteSet(Closes)
  <2>1. IsFiniteSet({"stream"} \cup {"continuation"})
    BY FS_Singleton, FS_AddElement
  <2>2. QED
    BY <2>1, SessionsAssumption, FS_Product, {"stream", "continuation"} = {"stream"} \cup {"continuation"} DEF Closes
<1>3. IsFiniteSet(SlotOwners) /\ IsFiniteSet(nested) /\ IsFiniteSet(leaked)
  BY <1>1, <1>2, SessionsAssumption, FS_Subset
<1>4. QED
  BY <1>3, FS_CardinalityType

(* A session that moves within, or outside, the locations that own a slot. *)
LEMMA StillCount ==
  ASSUME NEW s \in Sessions, TypeInv, NEW location, Goto(s, location),
         UNCHANGED <<free, nested, leaked>>, HoldsSlot(s)' <=> HoldsSlot(s)
  PROVE  SlotCount' = SlotCount
<1>1. SlotOwners' = SlotOwners
  BY DEF TypeInv, SlotOwners, HoldsSlot, Goto
<1>2. QED
  BY <1>1 DEF SlotCount

(* One execution's slot changes hands, is taken, or is returned.           *)
LEMMA MoveCount ==
  ASSUME NEW s \in Sessions, TypeInv, TypeInv',
         \A t \in Sessions \ {s} : HoldsSlot(t)' <=> HoldsSlot(t)
  PROVE  /\ ~HoldsSlot(s) /\ HoldsSlot(s)' =>
              Cardinality(SlotOwners') = Cardinality(SlotOwners) + 1
         /\ HoldsSlot(s) /\ ~HoldsSlot(s)' =>
              Cardinality(SlotOwners') = Cardinality(SlotOwners) - 1
         /\ (HoldsSlot(s)' <=> HoldsSlot(s)) =>
              Cardinality(SlotOwners') = Cardinality(SlotOwners)
<1>0. IsFiniteSet(SlotOwners) /\ IsFiniteSet(SlotOwners')
  BY SlotSets, SessionsAssumption, FS_Subset DEF SlotOwners
<1>1. CASE ~HoldsSlot(s) /\ HoldsSlot(s)'
  <2>1. SlotOwners' = SlotOwners \cup {s} /\ s \notin SlotOwners
    BY <1>1 DEF SlotOwners
  <2>2. QED
    BY <1>0, <1>1, <2>1, FS_AddElement
<1>2. CASE HoldsSlot(s) /\ ~HoldsSlot(s)'
  <2>1. SlotOwners' = SlotOwners \ {s} /\ s \in SlotOwners
    BY <1>2 DEF SlotOwners
  <2>2. QED
    BY <1>0, <1>2, <2>1, FS_RemoveElement
<1>3. CASE HoldsSlot(s)' <=> HoldsSlot(s)
  <2>1. SlotOwners' = SlotOwners
    BY <1>3 DEF SlotOwners
  <2>2. QED
    BY <1>3, <2>1
<1>4. QED
  BY <1>1, <1>2, <1>3

(* Leaving while recovering takes over the slot of the interrupted stream. *)
LEMMA LeaveCount ==
  ASSUME NEW s \in Sessions, TypeInv, TypeInv', NEW result \in Ended, Leave(s, result)
  PROVE  /\ s \in nested => /\ HoldsSlot(s)'
                            /\ Cardinality(nested') = Cardinality(nested) - 1
         /\ s \notin nested => ~HoldsSlot(s)' /\ nested' = nested
         /\ \A t \in Sessions \ {s} : HoldsSlot(t)' <=> HoldsSlot(t)
<1>1. s \in nested => Cardinality(nested') = Cardinality(nested) - 1
  BY SlotSets, FS_RemoveElement DEF Leave
<1>2. QED
  BY <1>1 DEF Leave, Goto, HoldsSlot, TypeInv, Ended

(* Returning a slot balances: the session, or the interrupted stream it    *)
(* was recovering, owned it.                                               *)
LEMMA ReleaseCount ==
  ASSUME NEW s \in Sessions, TypeInv, TypeInv', NEW result \in Ended \cup {"gate"},
         HoldsSlot(s), Release(s, result)
  PROVE  SlotCount' = SlotCount
<1>1. free' = free + 1 /\ free \in Nat /\ leaked' = leaked
  BY DEF Release, TypeInv
<1>2. CASE result = "gate"
  <2>1. /\ ~HoldsSlot(s)' /\ nested' = nested
        /\ \A t \in Sessions \ {s} : HoldsSlot(t)' <=> HoldsSlot(t)
    BY <1>2 DEF Release, Goto, HoldsSlot, TypeInv
  <2>2. QED
    BY <1>1, <2>1, MoveCount, SlotSets DEF SlotCount
<1>3. CASE result # "gate"
  <2>1. result \in Ended /\ Leave(s, result)
    BY <1>3 DEF Release
  <2>2. QED
    BY <1>1, <2>1, LeaveCount, MoveCount, SlotSets DEF SlotCount
<1>4. QED
  BY <1>2, <1>3

(* A close is left once: the session ends, or closes the stream it was     *)
(* recovering and then ends.                                               *)
LeakInv ==
  \A s \in Sessions :
    /\ <<s, "stream">> \in leaked => pc[s] \in Ended
    /\ <<s, "continuation">> \in leaked =>
         /\ s \notin nested
         /\ \/ pc[s] \in Ended
            \/ pc[s] = "closing" /\ s \in resolved /\ outcome[s] \in Ended

LEMMA LeakStep ==
  ASSUME IInv, LeakInv, [Next]_vars
  PROVE  LeakInv'
<1> USE DEF LeakInv, IInv, TypeInv, BudgetInv, Goto, Leave, Release, Ended
<1>1. ASSUME NEW s \in Sessions, Start(s) PROVE LeakInv'
  BY <1>1 DEF Start
<1>2. ASSUME NEW s \in Sessions, GateRefuses(s) PROVE LeakInv'
  BY <1>2 DEF GateRefuses
<1>3. ASSUME NEW s \in Sessions, GateOpen(s) PROVE LeakInv'
  BY <1>3 DEF GateOpen
<1>4. ASSUME NEW s \in Sessions, GateReopens(s) PROVE LeakInv'
  BY <1>4 DEF GateReopens, NewEpisode
<1>5. ASSUME NEW s \in Sessions, GateLeads(s) PROVE LeakInv'
  BY <1>5 DEF GateLeads
<1>6. ASSUME NEW s \in Sessions, GateWaits(s) PROVE LeakInv'
  BY <1>6 DEF GateWaits
<1>7. ASSUME NEW s \in Sessions, Wake(s) PROVE LeakInv'
  BY <1>7 DEF Wake
<1>8. ASSUME NEW s \in Sessions, BackoffOver(s) PROVE LeakInv'
  BY <1>8 DEF BackoffOver, LeadsBackoff
<1>9. ASSUME NEW s \in Sessions, PassQuota(s) PROVE LeakInv'
  BY <1>9 DEF PassQuota
<1>10. ASSUME NEW s \in Sessions, AcquireSlot(s) PROVE LeakInv'
  BY <1>10 DEF AcquireSlot, PermitIsCurrent
<1>11. ASSUME NEW s \in Sessions, CallSucceeds(s) PROVE LeakInv'
  BY <1>11 DEF CallSucceeds
<1>12. ASSUME NEW s \in Sessions, OperationRejected(s) PROVE LeakInv'
  BY <1>12 DEF OperationRejected
<1>13. ASSUME NEW s \in Sessions, OperationFails(s) PROVE LeakInv'
  BY <1>13
  DEF OperationFails, AttemptFailed
<1>14. ASSUME NEW s \in Sessions, CreateCorrected(s) PROVE LeakInv'
  BY <1>14 DEF CreateCorrected
<1>15. ASSUME NEW s \in Sessions, StreamOpens(s) PROVE LeakInv'
  BY <1>15 DEF StreamOpens
<1>16. ASSUME NEW s \in Sessions, FirstChunk(s) PROVE LeakInv'
  BY <1>16 DEF FirstChunk
<1>17. ASSUME NEW s \in Sessions, OpenedFails(s) PROVE LeakInv'
  BY <1>17
  DEF OpenedFails, AttemptFailed, Closing
<1>18. ASSUME NEW s \in Sessions, OpenedRejected(s) PROVE LeakInv'
  BY <1>18 DEF OpenedRejected, Closing
<1>19. ASSUME NEW s \in Sessions, StreamEnds(s) PROVE LeakInv'
  BY <1>19 DEF StreamEnds, Closing
<1>20. ASSUME NEW s \in Sessions, StreamRecovers(s) PROVE LeakInv'
  BY <1>20 DEF StreamRecovers
<1>21. ASSUME NEW s \in Sessions, CloseFinishes(s) PROVE LeakInv'
  BY <1>21 DEF CloseFinishes
<1>22. ASSUME NEW s \in Sessions, Abandon(s) PROVE LeakInv'
  BY <1>22 DEF Abandon
<1>23. ASSUME NEW s \in Sessions, ShieldedAbandon(s) PROVE LeakInv'
  BY <1>23 DEF ShieldedAbandon
<1>24. ASSUME NEW s \in Sessions, CancelWaiting(s) PROVE LeakInv'
  BY <1>24 DEF CancelWaiting
<1>25. ASSUME NEW s \in Sessions, CancelBackoff(s) PROVE LeakInv'
  BY <1>25 DEF CancelBackoff, LeadsBackoff
<1>26. ASSUME NEW s \in Sessions, CancelAdmission(s) PROVE LeakInv'
  BY <1>26 DEF CancelAdmission
<1>27. ASSUME NEW s \in Sessions, OperationCancelled(s) PROVE LeakInv'
  BY <1>27 DEF OperationCancelled
<1>28. ASSUME NEW s \in Sessions, StreamCancelled(s) PROVE LeakInv'
  BY <1>28 DEF StreamCancelled, Closing
<1>29. ASSUME NEW s \in Sessions, CloseInterrupted(s) PROVE LeakInv'
  BY <1>29 DEF CloseInterrupted, LeaveClose
<1>35. ASSUME NEW s \in Sessions, CloseRaises(s) PROVE LeakInv'
  BY <1>35 DEF CloseRaises, LeaveClose
<1>30. ASSUME NEW s \in Sessions, AbandonInterrupted(s) PROVE LeakInv'
  BY <1>30 DEF AbandonInterrupted
<1>31. CASE BackoffElapses
  BY <1>31 DEF BackoffElapses
<1>32. CASE CooldownElapses
  BY <1>32 DEF CooldownElapses
<1>33. CASE UNCHANGED vars
  BY <1>33 DEF vars
<1>34. QED
  BY <1>1, <1>2, <1>3, <1>4, <1>5, <1>6, <1>7, <1>8, <1>9, <1>10, <1>11,
     <1>12, <1>13, <1>14, <1>15, <1>16, <1>17, <1>18, <1>19, <1>20, <1>21,
     <1>22, <1>23, <1>24, <1>25, <1>26, <1>27, <1>28, <1>29, <1>30, <1>31,
     <1>32, <1>33, <1>35
  DEF Next, Proceed, Cancel, Gate, Operation, Stream

(* A close that is left loses the slot, and is counted once.               *)
LEMMA LeaveCloseCount ==
  ASSUME NEW s \in Sessions, TypeInv, TypeInv', LeakInv, NEW result \in Ended,
         pc[s] = "closing", LeaveClose(s, result)
  PROVE  SlotCount' = SlotCount
<1> DEFINE close == <<s, IF s \in nested THEN "continuation" ELSE "stream">>
<1>1. Leave(s, result) /\ leaked' = leaked \cup {close} /\ free' = free /\ HoldsSlot(s)
  BY DEF LeaveClose, HoldsSlot
<1>2. close \notin leaked
  BY DEF LeakInv, Ended
<1>3. Cardinality(leaked') = Cardinality(leaked) + 1
  BY <1>1, <1>2, SlotSets, FS_AddElement
<1>4. QED
  BY <1>1, <1>3, LeaveCount, MoveCount, SlotSets DEF SlotCount, TypeInv

(* Every action keeps the account.                                         *)
LEMMA SlotsStep ==
  ASSUME TypeInv, TypeInv', LeakInv, SlotsInv, [Next]_vars
  PROVE  SlotsInv'
<1> USE ConcurrencyAssumption
<1>1. ASSUME NEW s \in Sessions, Start(s) PROVE SlotsInv'
  <2>1. UNCHANGED <<free, nested, leaked>> /\ \E location \in Locations : Goto(s, location)
    BY <1>1 DEF Start, Locations, TypeInv, Ended
  <2>2. HoldsSlot(s)' <=> HoldsSlot(s)
    BY <1>1 DEF Start, Goto, HoldsSlot, TypeInv
  <2>3. QED
    BY <2>1, <2>2, StillCount DEF SlotsInv
<1>2. ASSUME NEW s \in Sessions, GateRefuses(s) PROVE SlotsInv'
  <2>1. ~HoldsSlot(s) /\ free' = free /\ leaked' = leaked /\ Leave(s, "failed") /\ "failed" \in Ended
    BY <1>2 DEF GateRefuses, HoldsSlot, Ended
  <2>2. QED
    BY <2>1, LeaveCount, MoveCount, SlotSets DEF SlotsInv, SlotCount, TypeInv
<1>3. ASSUME NEW s \in Sessions, GateOpen(s) PROVE SlotsInv'
  <2>1. UNCHANGED <<free, nested, leaked>> /\ \E location \in Locations : Goto(s, location)
    BY <1>3 DEF GateOpen, Locations, TypeInv, Ended
  <2>2. HoldsSlot(s)' <=> HoldsSlot(s)
    BY <1>3 DEF GateOpen, Goto, HoldsSlot, TypeInv
  <2>3. QED
    BY <2>1, <2>2, StillCount DEF SlotsInv
<1>4. ASSUME NEW s \in Sessions, GateReopens(s) PROVE SlotsInv'
  <2>1. UNCHANGED <<free, nested, leaked>> /\ \E location \in Locations : Goto(s, location)
    BY <1>4 DEF GateReopens, Locations, TypeInv, Ended
  <2>2. HoldsSlot(s)' <=> HoldsSlot(s)
    BY <1>4 DEF GateReopens, Goto, HoldsSlot, TypeInv
  <2>3. QED
    BY <2>1, <2>2, StillCount DEF SlotsInv
<1>5. ASSUME NEW s \in Sessions, GateLeads(s) PROVE SlotsInv'
  <2>1. UNCHANGED <<free, nested, leaked>> /\ \E location \in Locations : Goto(s, location)
    BY <1>5 DEF GateLeads, Locations, TypeInv, Ended
  <2>2. HoldsSlot(s)' <=> HoldsSlot(s)
    BY <1>5 DEF GateLeads, Goto, HoldsSlot, TypeInv
  <2>3. QED
    BY <2>1, <2>2, StillCount DEF SlotsInv
<1>6. ASSUME NEW s \in Sessions, GateWaits(s) PROVE SlotsInv'
  <2>1. UNCHANGED <<free, nested, leaked>> /\ \E location \in Locations : Goto(s, location)
    BY <1>6 DEF GateWaits, Locations, TypeInv, Ended
  <2>2. HoldsSlot(s)' <=> HoldsSlot(s)
    BY <1>6 DEF GateWaits, Goto, HoldsSlot, TypeInv
  <2>3. QED
    BY <2>1, <2>2, StillCount DEF SlotsInv
<1>7. ASSUME NEW s \in Sessions, Wake(s) PROVE SlotsInv'
  <2>1. UNCHANGED <<free, nested, leaked>> /\ \E location \in Locations : Goto(s, location)
    BY <1>7 DEF Wake, Locations, TypeInv, Ended
  <2>2. HoldsSlot(s)' <=> HoldsSlot(s)
    BY <1>7 DEF Wake, Goto, HoldsSlot, TypeInv
  <2>3. QED
    BY <2>1, <2>2, StillCount DEF SlotsInv
<1>8. ASSUME NEW s \in Sessions, BackoffOver(s) PROVE SlotsInv'
  <2>1. UNCHANGED <<free, nested, leaked>> /\ \E location \in Locations : Goto(s, location)
    BY <1>8 DEF BackoffOver, Locations, TypeInv, Ended
  <2>2. HoldsSlot(s)' <=> HoldsSlot(s)
    BY <1>8 DEF BackoffOver, Goto, HoldsSlot, TypeInv
  <2>3. QED
    BY <2>1, <2>2, StillCount DEF SlotsInv
<1>9. ASSUME NEW s \in Sessions, PassQuota(s) PROVE SlotsInv'
  <2>1. UNCHANGED <<free, nested, leaked>> /\ \E location \in Locations : Goto(s, location)
    BY <1>9 DEF PassQuota, Locations, TypeInv, Ended
  <2>2. HoldsSlot(s)' <=> HoldsSlot(s)
    BY <1>9 DEF PassQuota, Goto, HoldsSlot, TypeInv
  <2>3. QED
    BY <2>1, <2>2, StillCount DEF SlotsInv
<1>10. ASSUME NEW s \in Sessions, AcquireSlot(s) PROVE SlotsInv'
  <2>1. CASE PermitIsCurrent(s)
    <3>1. /\ ~HoldsSlot(s) /\ HoldsSlot(s)' /\ nested' = nested /\ leaked' = leaked
          /\ free' = free - 1
          /\ \A t \in Sessions \ {s} : HoldsSlot(t)' <=> HoldsSlot(t)
      BY <1>10, <2>1 DEF AcquireSlot, Goto, HoldsSlot, TypeInv
    <3>2. QED
      BY <3>1, MoveCount, SlotSets DEF SlotsInv, SlotCount, TypeInv
  <2>2. CASE ~PermitIsCurrent(s)
    <3>1. Goto(s, "gate") /\ UNCHANGED <<free, nested, leaked>>
      BY <1>10, <2>2 DEF AcquireSlot
    <3>2. HoldsSlot(s)' <=> HoldsSlot(s)
      BY <1>10, <3>1 DEF AcquireSlot, Goto, HoldsSlot, TypeInv
    <3>3. QED
      BY <3>1, <3>2, StillCount DEF SlotsInv
  <2>3. QED
    BY <2>1, <2>2
<1>11. ASSUME NEW s \in Sessions, CallSucceeds(s) PROVE SlotsInv'
  <2>1. HoldsSlot(s) /\ \E result \in Ended \cup {"gate"} : Release(s, result)
    BY <1>11 DEF CallSucceeds, HoldsSlot, Ended, TypeInv
  <2>2. QED
    BY <2>1, ReleaseCount DEF SlotsInv
<1>12. ASSUME NEW s \in Sessions, OperationRejected(s) PROVE SlotsInv'
  <2>1. HoldsSlot(s) /\ \E result \in Ended \cup {"gate"} : Release(s, result)
    BY <1>12 DEF OperationRejected, HoldsSlot, Ended, TypeInv
  <2>2. QED
    BY <2>1, ReleaseCount DEF SlotsInv
<1>13. ASSUME NEW s \in Sessions, OperationFails(s) PROVE SlotsInv'
  <2>1. HoldsSlot(s) /\ \E result \in Ended \cup {"gate"} : Release(s, result)
    BY <1>13 DEF OperationFails, HoldsSlot, Ended, TypeInv
  <2>2. QED
    BY <2>1, ReleaseCount DEF SlotsInv
<1>14. ASSUME NEW s \in Sessions, CreateCorrected(s) PROVE SlotsInv'
  <2>1. HoldsSlot(s) /\ \E result \in Ended \cup {"gate"} : Release(s, result)
    BY <1>14 DEF CreateCorrected, HoldsSlot, Ended, TypeInv
  <2>2. QED
    BY <2>1, ReleaseCount DEF SlotsInv
<1>15. ASSUME NEW s \in Sessions, StreamOpens(s) PROVE SlotsInv'
  <2>1. UNCHANGED <<free, nested, leaked>> /\ \E location \in Locations : Goto(s, location)
    BY <1>15 DEF StreamOpens, Locations, TypeInv, Ended
  <2>2. HoldsSlot(s)' <=> HoldsSlot(s)
    BY <1>15 DEF StreamOpens, Goto, HoldsSlot, TypeInv
  <2>3. QED
    BY <2>1, <2>2, StillCount DEF SlotsInv
<1>16. ASSUME NEW s \in Sessions, FirstChunk(s) PROVE SlotsInv'
  <2>1. UNCHANGED <<free, nested, leaked>> /\ \E location \in Locations : Goto(s, location)
    BY <1>16 DEF FirstChunk, Locations, TypeInv, Ended
  <2>2. HoldsSlot(s)' <=> HoldsSlot(s)
    BY <1>16 DEF FirstChunk, Goto, HoldsSlot, TypeInv
  <2>3. QED
    BY <2>1, <2>2, StillCount DEF SlotsInv
<1>17. ASSUME NEW s \in Sessions, OpenedFails(s) PROVE SlotsInv'
  <2>1. UNCHANGED <<free, nested, leaked>> /\ \E location \in Locations : Goto(s, location)
    BY <1>17 DEF OpenedFails, Closing, Locations, TypeInv, Ended
  <2>2. HoldsSlot(s)' <=> HoldsSlot(s)
    BY <1>17 DEF OpenedFails, Closing, Goto, HoldsSlot, TypeInv
  <2>3. QED
    BY <2>1, <2>2, StillCount DEF SlotsInv
<1>18. ASSUME NEW s \in Sessions, OpenedRejected(s) PROVE SlotsInv'
  <2>1. UNCHANGED <<free, nested, leaked>> /\ \E location \in Locations : Goto(s, location)
    BY <1>18 DEF OpenedRejected, Closing, Locations, TypeInv, Ended
  <2>2. HoldsSlot(s)' <=> HoldsSlot(s)
    BY <1>18 DEF OpenedRejected, Closing, Goto, HoldsSlot, TypeInv
  <2>3. QED
    BY <2>1, <2>2, StillCount DEF SlotsInv
<1>19. ASSUME NEW s \in Sessions, StreamEnds(s) PROVE SlotsInv'
  <2>1. UNCHANGED <<free, nested, leaked>> /\ \E location \in Locations : Goto(s, location)
    BY <1>19 DEF StreamEnds, Closing, Locations, TypeInv, Ended
  <2>2. HoldsSlot(s)' <=> HoldsSlot(s)
    BY <1>19 DEF StreamEnds, Closing, Goto, HoldsSlot, TypeInv
  <2>3. QED
    BY <2>1, <2>2, StillCount DEF SlotsInv
<1>20. ASSUME NEW s \in Sessions, StreamRecovers(s) PROVE SlotsInv'
  <2>1. /\ HoldsSlot(s) /\ ~HoldsSlot(s)' /\ free' = free /\ leaked' = leaked
        /\ nested' = nested \cup {s} /\ s \notin nested
        /\ \A t \in Sessions \ {s} : HoldsSlot(t)' <=> HoldsSlot(t)
    BY <1>20 DEF StreamRecovers, Goto, HoldsSlot, TypeInv
  <2>2. Cardinality(nested') = Cardinality(nested) + 1
    BY <2>1, SlotSets, FS_AddElement
  <2>3. QED
    BY <2>1, <2>2, MoveCount, SlotSets DEF SlotsInv, SlotCount, TypeInv
<1>21. ASSUME NEW s \in Sessions, CloseFinishes(s) PROVE SlotsInv'
  <2>1. CASE s \in resolved
    <3>1. /\ HoldsSlot(s) /\ Release(s, outcome[s])
          /\ outcome[s] \in Ended \cup {"gate"}
      BY <1>21, <2>1 DEF CloseFinishes, HoldsSlot, TypeInv
    <3>2. QED
      BY <3>1, ReleaseCount DEF SlotsInv
  <2>2. CASE s \notin resolved
    <3>1. Goto(s, "abandoning") /\ UNCHANGED <<free, nested, leaked>>
      BY <1>21, <2>2 DEF CloseFinishes
    <3>2. HoldsSlot(s)' <=> HoldsSlot(s)
      BY <1>21, <3>1 DEF CloseFinishes, Goto, HoldsSlot, TypeInv
    <3>3. QED
      BY <3>1, <3>2, StillCount DEF SlotsInv
  <2>3. QED
    BY <2>1, <2>2
<1>22. ASSUME NEW s \in Sessions, Abandon(s) PROVE SlotsInv'
  <2>1. HoldsSlot(s) /\ \E result \in Ended \cup {"gate"} : Release(s, result)
    BY <1>22 DEF Abandon, HoldsSlot, Ended, TypeInv
  <2>2. QED
    BY <2>1, ReleaseCount DEF SlotsInv
<1>23. ASSUME NEW s \in Sessions, ShieldedAbandon(s) PROVE SlotsInv'
  <2>1. ~HoldsSlot(s) /\ free' = free /\ leaked' = leaked /\ Leave(s, "cancelled") /\ "cancelled" \in Ended
    BY <1>23 DEF ShieldedAbandon, HoldsSlot, Ended
  <2>2. QED
    BY <2>1, LeaveCount, MoveCount, SlotSets DEF SlotsInv, SlotCount, TypeInv
<1>24. ASSUME NEW s \in Sessions, CancelWaiting(s) PROVE SlotsInv'
  <2>1. ~HoldsSlot(s) /\ free' = free /\ leaked' = leaked /\ Leave(s, "cancelled") /\ "cancelled" \in Ended
    BY <1>24 DEF CancelWaiting, HoldsSlot, Ended
  <2>2. QED
    BY <2>1, LeaveCount, MoveCount, SlotSets DEF SlotsInv, SlotCount, TypeInv
<1>25. ASSUME NEW s \in Sessions, CancelBackoff(s) PROVE SlotsInv'
  <2>1. ~HoldsSlot(s) /\ free' = free /\ leaked' = leaked /\ Leave(s, "cancelled") /\ "cancelled" \in Ended
    BY <1>25 DEF CancelBackoff, HoldsSlot, Ended
  <2>2. QED
    BY <2>1, LeaveCount, MoveCount, SlotSets DEF SlotsInv, SlotCount, TypeInv
<1>26. ASSUME NEW s \in Sessions, CancelAdmission(s) PROVE SlotsInv'
  <2>1. ~HoldsSlot(s) /\ free' = free /\ leaked' = leaked /\ Leave(s, "cancelled") /\ "cancelled" \in Ended
    BY <1>26 DEF CancelAdmission, HoldsSlot, Ended
  <2>2. QED
    BY <2>1, LeaveCount, MoveCount, SlotSets DEF SlotsInv, SlotCount, TypeInv
<1>27. ASSUME NEW s \in Sessions, OperationCancelled(s) PROVE SlotsInv'
  <2>1. UNCHANGED <<free, nested, leaked>> /\ \E location \in Locations : Goto(s, location)
    BY <1>27 DEF OperationCancelled, Locations, TypeInv, Ended
  <2>2. HoldsSlot(s)' <=> HoldsSlot(s)
    BY <1>27 DEF OperationCancelled, Goto, HoldsSlot, TypeInv
  <2>3. QED
    BY <2>1, <2>2, StillCount DEF SlotsInv
<1>28. ASSUME NEW s \in Sessions, StreamCancelled(s) PROVE SlotsInv'
  <2>1. UNCHANGED <<free, nested, leaked>> /\ \E location \in Locations : Goto(s, location)
    BY <1>28 DEF StreamCancelled, Closing, Locations, TypeInv, Ended
  <2>2. HoldsSlot(s)' <=> HoldsSlot(s)
    BY <1>28 DEF StreamCancelled, Closing, Goto, HoldsSlot, TypeInv
  <2>3. QED
    BY <2>1, <2>2, StillCount DEF SlotsInv
<1>29. ASSUME NEW s \in Sessions, CloseInterrupted(s) PROVE SlotsInv'
  BY <1>29, LeaveCloseCount DEF CloseInterrupted, SlotsInv, Ended
<1>35. ASSUME NEW s \in Sessions, CloseRaises(s) PROVE SlotsInv'
  BY <1>35, LeaveCloseCount DEF CloseRaises, SlotsInv, Ended
<1>30. ASSUME NEW s \in Sessions, AbandonInterrupted(s) PROVE SlotsInv'
  <2>1. /\ HoldsSlot(s) /\ ~HoldsSlot(s)' /\ free' = free + 1
        /\ nested' = nested /\ leaked' = leaked
        /\ \A t \in Sessions \ {s} : HoldsSlot(t)' <=> HoldsSlot(t)
    BY <1>30 DEF AbandonInterrupted, Goto, HoldsSlot, TypeInv
  <2>2. QED
    BY <2>1, MoveCount, SlotSets DEF SlotsInv, SlotCount, TypeInv
<1>31. CASE BackoffElapses
  BY <1>31 DEF BackoffElapses, SlotsInv, SlotCount, SlotOwners, HoldsSlot
<1>32. CASE CooldownElapses
  BY <1>32 DEF CooldownElapses, SlotsInv, SlotCount, SlotOwners, HoldsSlot
<1>33. CASE UNCHANGED vars
  BY <1>33 DEF vars, SlotsInv, SlotCount, SlotOwners, HoldsSlot
<1>34. QED
  BY <1>1, <1>2, <1>3, <1>4, <1>5, <1>6, <1>7, <1>8, <1>9, <1>10, <1>11,
     <1>12, <1>13, <1>14, <1>15, <1>16, <1>17, <1>18, <1>19, <1>20, <1>21,
     <1>22, <1>23, <1>24, <1>25, <1>26, <1>27, <1>28, <1>29, <1>30, <1>31,
     <1>32, <1>33, <1>35
  DEF Next, Proceed, Cancel, Gate, Operation, Stream

LEMMA SlotsInit ==
  ASSUME Init
  PROVE  SlotsInv
<1>1. SlotOwners = {} /\ nested = {} /\ free = MaxConcurrency
  BY DEF Init, SlotOwners, HoldsSlot
<1>2. Cardinality({}) = 0 /\ leaked = {}
  BY FS_EmptySet DEF Init
<1>3. QED
  BY <1>1, <1>2, ConcurrencyAssumption DEF SlotsInv, SlotCount

(* The account holds in every reachable state.                             *)
LEMMA SlotsInvariance == Spec => []SlotsInv
<1>1. Init => SlotsInv /\ LeakInv
  BY SlotsInit DEF Init, LeakInv
<1>2. IInv /\ IInv' /\ LeakInv /\ SlotsInv /\ [Next]_vars => SlotsInv' /\ LeakInv'
  BY SlotsStep, LeakStep DEF IInv
<1>3. QED
  BY <1>1, <1>2, Invariance, PTL DEF Spec

(* A slot is lost by a close that was left and by nothing else, and every  *)
(* other slot is returned once: for any cancellation and any failing close.*)
THEOREM SlotsBalanced == Spec => []SlotsBalance
<1>1. SlotsInv => SlotsBalance
  BY DEF SlotsInv, SlotCount, SlotsBalance
<1>2. QED
  BY <1>1, SlotsInvariance, PTL

(* So never more attempts run than the bulkhead admits.                    *)
THEOREM BulkheadBounded == Spec => []BulkheadBound
<1>1. IInv /\ SlotsInv => BulkheadBound
  BY SlotSets, ConcurrencyAssumption DEF IInv, TypeInv, SlotsInv, SlotCount, BulkheadBound
<1>2. QED
  BY <1>1, Invariance, SlotsInvariance, PTL

LEMMA TypesBounded ==
  ASSUME IInv, SlotsInv
  PROVE  TypeOK
<1>1. TypeInv
  BY DEF IInv
<1>2. /\ free \in Nat /\ Cardinality(SlotOwners) \in Nat /\ Cardinality(nested) \in Nat
      /\ Cardinality(leaked) \in Nat
  BY <1>1, SlotSets DEF TypeInv
<1>3. free \in 0 .. MaxConcurrency
  BY <1>2, ConcurrencyAssumption DEF SlotsInv, SlotCount
<1>4. QED
  BY <1>1, <1>3 DEF TypeInv, TypeOK

(* The type invariant, with its two bounds: no execution exceeds its budget*)
(* and the semaphore never exceeds its size.                               *)
THEOREM TypeCorrect == Spec => []TypeOK
<1>1. IInv /\ SlotsInv => TypeOK
  BY TypesBounded
<1>2. QED
  BY <1>1, Invariance, SlotsInvariance, PTL

------------------------------------------------------------------------------
(* Wake-ups.                                                               *)

(* Whatever changes who leads an episode wakes everybody who waits.        *)
LEMMA OutcomesNotify ==
  ASSUME NEW s \in Sessions,
         \/ CloseEpisode(s) \/ KeepLeader(s) \/ AbandonProbe(s) \/ AttemptFailed(s)
  PROVE  NotifyAll \/ UNCHANGED <<episode, woken>>
BY DEF CloseEpisode, KeepLeader, AbandonProbe, AttemptFailed, FailWithBudget,
       FailExhausted, controller

(* Nobody is left waiting for an episode that is over or has no leader.    *)
LEMMA WakeStep ==
  ASSUME IInv, NoLostWakeup, [Next]_vars
  PROVE  NoLostWakeup'
<1> USE NoneAssumption DEF NoLostWakeup, NotifyAll, IInv, TypeInv, Goto, controller, Ended
<1>1. ASSUME NEW s \in Sessions, Start(s) PROVE NoLostWakeup'
  BY <1>1 DEF Start
<1>2. ASSUME NEW s \in Sessions, GateRefuses(s) PROVE NoLostWakeup'
  BY <1>2, LeaveEffect DEF GateRefuses
<1>3. ASSUME NEW s \in Sessions, GateOpen(s) PROVE NoLostWakeup'
  BY <1>3 DEF GateOpen
<1>4. ASSUME NEW s \in Sessions, GateReopens(s) PROVE NoLostWakeup'
  BY <1>4 DEF GateReopens, NewEpisode, EpisodeInv, Episodes
<1>5. ASSUME NEW s \in Sessions, GateLeads(s) PROVE NoLostWakeup'
  BY <1>5 DEF GateLeads, EpisodeInv, Episodes
<1>6. ASSUME NEW s \in Sessions, GateWaits(s) PROVE NoLostWakeup'
  BY <1>6 DEF GateWaits, EpisodeInv, ProbeInv, Episodes
<1>7. ASSUME NEW s \in Sessions, Wake(s) PROVE NoLostWakeup'
  BY <1>7 DEF Wake
<1>8. ASSUME NEW s \in Sessions, BackoffOver(s) PROVE NoLostWakeup'
  BY <1>8, BackoffOverEffect DEF BackoffOver, LeadsBackoff, EpisodeInv
<1>9. ASSUME NEW s \in Sessions, PassQuota(s) PROVE NoLostWakeup'
  BY <1>9, OutcomesNotify DEF PassQuota
<1>10. ASSUME NEW s \in Sessions, AcquireSlot(s) PROVE NoLostWakeup'
  BY <1>10, OutcomesNotify DEF AcquireSlot
<1>11. ASSUME NEW s \in Sessions, CallSucceeds(s) PROVE NoLostWakeup'
  BY <1>11, OutcomesNotify, ReleaseEffect DEF CallSucceeds
<1>12. ASSUME NEW s \in Sessions, OperationRejected(s) PROVE NoLostWakeup'
  BY <1>12, OutcomesNotify, ReleaseEffect DEF OperationRejected
<1>13. ASSUME NEW s \in Sessions, OperationFails(s) PROVE NoLostWakeup'
  BY <1>13, OutcomesNotify, ReleaseEffect DEF OperationFails
<1>14. ASSUME NEW s \in Sessions, CreateCorrected(s) PROVE NoLostWakeup'
  BY <1>14, OutcomesNotify, ReleaseEffect DEF CreateCorrected
<1>15. ASSUME NEW s \in Sessions, StreamOpens(s) PROVE NoLostWakeup'
  BY <1>15 DEF StreamOpens
<1>16. ASSUME NEW s \in Sessions, FirstChunk(s) PROVE NoLostWakeup'
  BY <1>16, OutcomesNotify DEF FirstChunk
<1>17. ASSUME NEW s \in Sessions, OpenedFails(s) PROVE NoLostWakeup'
  BY <1>17, OutcomesNotify DEF OpenedFails, Closing
<1>18. ASSUME NEW s \in Sessions, OpenedRejected(s) PROVE NoLostWakeup'
  BY <1>18, OutcomesNotify DEF OpenedRejected, Closing
<1>19. ASSUME NEW s \in Sessions, StreamEnds(s) PROVE NoLostWakeup'
  BY <1>19 DEF StreamEnds, Closing
<1>20. ASSUME NEW s \in Sessions, StreamRecovers(s) PROVE NoLostWakeup'
  BY <1>20 DEF StreamRecovers
<1>21. ASSUME NEW s \in Sessions, CloseFinishes(s) PROVE NoLostWakeup'
  <2>1. UNCHANGED <<episode, woken>>
    BY <1>21 DEF CloseFinishes
  <2>2. CASE s \in resolved
    <3>1. outcome[s] \in Ended \cup {"gate"} /\ Release(s, outcome[s])
      BY <1>21, <2>2 DEF CloseFinishes
    <3>2. QED
      BY <2>1, <3>1, ReleaseEffect
  <2>3. CASE s \notin resolved
    BY <1>21, <2>1, <2>3 DEF CloseFinishes
  <2>4. QED
    BY <2>2, <2>3
<1>22. ASSUME NEW s \in Sessions, Abandon(s) PROVE NoLostWakeup'
  BY <1>22, OutcomesNotify, ReleaseEffect DEF Abandon
<1>23. ASSUME NEW s \in Sessions, ShieldedAbandon(s) PROVE NoLostWakeup'
  BY <1>23, OutcomesNotify, LeaveEffect DEF ShieldedAbandon
<1>24. ASSUME NEW s \in Sessions, CancelWaiting(s) PROVE NoLostWakeup'
  BY <1>24, LeaveEffect DEF CancelWaiting, Episodes
<1>25. ASSUME NEW s \in Sessions, CancelBackoff(s) PROVE NoLostWakeup'
  BY <1>25, LeaveEffect DEF CancelBackoff, LeadsBackoff, Episodes
<1>26. ASSUME NEW s \in Sessions, CancelAdmission(s) PROVE NoLostWakeup'
  BY <1>26, OutcomesNotify, LeaveEffect DEF CancelAdmission
<1>27. ASSUME NEW s \in Sessions, OperationCancelled(s) PROVE NoLostWakeup'
  BY <1>27 DEF OperationCancelled
<1>28. ASSUME NEW s \in Sessions, StreamCancelled(s) PROVE NoLostWakeup'
  BY <1>28 DEF StreamCancelled, Closing
<1>29. ASSUME NEW s \in Sessions, CloseInterrupted(s) PROVE NoLostWakeup'
  BY <1>29, LeaveEffect DEF CloseInterrupted, LeaveClose
<1>35. ASSUME NEW s \in Sessions, CloseRaises(s) PROVE NoLostWakeup'
  BY <1>35, LeaveEffect DEF CloseRaises, LeaveClose
<1>30. ASSUME NEW s \in Sessions, AbandonInterrupted(s) PROVE NoLostWakeup'
  BY <1>30 DEF AbandonInterrupted
<1>31. CASE BackoffElapses
  BY <1>31 DEF BackoffElapses, Episodes
<1>32. CASE CooldownElapses
  BY <1>32 DEF CooldownElapses, Episodes
<1>33. CASE UNCHANGED vars
  BY <1>33 DEF vars
<1>34. QED
  BY <1>1, <1>2, <1>3, <1>4, <1>5, <1>6, <1>7, <1>8, <1>9, <1>10, <1>11,
     <1>12, <1>13, <1>14, <1>15, <1>16, <1>17, <1>18, <1>19, <1>20, <1>21,
     <1>22, <1>23, <1>24, <1>25, <1>26, <1>27, <1>28, <1>29, <1>30, <1>31,
     <1>32, <1>33, <1>35
  DEF Next, Proceed, Cancel, Gate, Operation, Stream

(* Whoever waits without having been notified waits for a living episode   *)
(* that somebody else leads.                                               *)
THEOREM WakeupsNotLost == Spec => []NoLostWakeup
<1>1. Init => NoLostWakeup
  BY DEF Init, NoLostWakeup
<1>2. IInv /\ NoLostWakeup /\ [Next]_vars => NoLostWakeup'
  BY WakeStep
<1>3. QED
  BY <1>1, <1>2, Invariance, PTL DEF Spec

------------------------------------------------------------------------------
(* The leader of a live episode.                                           *)

(* An attempt that may still fail for the controller has not been          *)
(* dismissed, has no outcome and waits for nobody; nor is a leader         *)
(* dismissed.                                                              *)
FreshInv ==
  /\ \A s \in Sessions : pc[s] \in {"upstream", "opened"} =>
       /\ s \notin terminal /\ s \notin resolved
       /\ episode # None => s \notin episode.waiters
  /\ episode # None => episode.leader \notin terminal

LEMMA FreshStep ==
  ASSUME IInv, FreshInv, [Next]_vars
  PROVE  FreshInv'
<1> USE NoneAssumption DEF FreshInv, IInv, TypeInv, EpisodeInv, AdmittedInv, Episodes, MatchingProbe,
      Goto, controller, Ended
<1>1. ASSUME NEW s \in Sessions, Start(s) PROVE FreshInv'
  BY <1>1 DEF Start
<1>2. ASSUME NEW s \in Sessions, GateRefuses(s) PROVE FreshInv'
  BY <1>2, LeaveEffect DEF GateRefuses
<1>3. ASSUME NEW s \in Sessions, GateOpen(s) PROVE FreshInv'
  BY <1>3 DEF GateOpen
<1>4. ASSUME NEW s \in Sessions, GateReopens(s) PROVE FreshInv'
  BY <1>4 DEF GateReopens, NewEpisode
<1>5. ASSUME NEW s \in Sessions, GateLeads(s) PROVE FreshInv'
  BY <1>5 DEF GateLeads
<1>6. ASSUME NEW s \in Sessions, GateWaits(s) PROVE FreshInv'
  BY <1>6 DEF GateWaits
<1>7. ASSUME NEW s \in Sessions, Wake(s) PROVE FreshInv'
  BY <1>7 DEF Wake
<1>8. ASSUME NEW s \in Sessions, BackoffOver(s) PROVE FreshInv'
  BY <1>8, BackoffOverEffect DEF BackoffOver, LeadsBackoff
<1>9. ASSUME NEW s \in Sessions, PassQuota(s) PROVE FreshInv'
  BY <1>9, AbandonEffect DEF PassQuota
<1>10. ASSUME NEW s \in Sessions, AcquireSlot(s) PROVE FreshInv'
  BY <1>10, AbandonEffect DEF AcquireSlot, PermitIsCurrent
<1>11. ASSUME NEW s \in Sessions, CallSucceeds(s) PROVE FreshInv'
  BY <1>11, CloseEffect, ReleaseEffect DEF CallSucceeds
<1>12. ASSUME NEW s \in Sessions, OperationRejected(s) PROVE FreshInv'
  BY <1>12, CloseEffect, ReleaseEffect DEF OperationRejected
<1>13. ASSUME NEW s \in Sessions, OperationFails(s) PROVE FreshInv'
  BY <1>13, FailWithBudgetEffect, FailExhaustedEffect, ReleaseEffect
  DEF OperationFails, AttemptFailed
<1>14. ASSUME NEW s \in Sessions, CreateCorrected(s) PROVE FreshInv'
  BY <1>14, KeepEffect, ReleaseEffect DEF CreateCorrected
<1>15. ASSUME NEW s \in Sessions, StreamOpens(s) PROVE FreshInv'
  BY <1>15 DEF StreamOpens
<1>16. ASSUME NEW s \in Sessions, FirstChunk(s) PROVE FreshInv'
  BY <1>16, CloseEffect DEF FirstChunk
<1>17. ASSUME NEW s \in Sessions, OpenedFails(s) PROVE FreshInv'
  BY <1>17, FailWithBudgetEffect, FailExhaustedEffect
  DEF OpenedFails, AttemptFailed, Closing
<1>18. ASSUME NEW s \in Sessions, OpenedRejected(s) PROVE FreshInv'
  BY <1>18, CloseEffect DEF OpenedRejected, Closing
<1>19. ASSUME NEW s \in Sessions, StreamEnds(s) PROVE FreshInv'
  BY <1>19 DEF StreamEnds, Closing
<1>20. ASSUME NEW s \in Sessions, StreamRecovers(s) PROVE FreshInv'
  BY <1>20 DEF StreamRecovers
<1>21. ASSUME NEW s \in Sessions, CloseFinishes(s) PROVE FreshInv'
  BY <1>21, ReleaseEffect DEF CloseFinishes
<1>22. ASSUME NEW s \in Sessions, Abandon(s) PROVE FreshInv'
  BY <1>22, AbandonEffect, ReleaseEffect DEF Abandon
<1>23. ASSUME NEW s \in Sessions, ShieldedAbandon(s) PROVE FreshInv'
  BY <1>23, AbandonEffect, LeaveEffect DEF ShieldedAbandon
<1>24. ASSUME NEW s \in Sessions, CancelWaiting(s) PROVE FreshInv'
  BY <1>24, LeaveEffect DEF CancelWaiting
<1>25. ASSUME NEW s \in Sessions, CancelBackoff(s) PROVE FreshInv'
  BY <1>25, LeaveEffect DEF CancelBackoff, LeadsBackoff
<1>26. ASSUME NEW s \in Sessions, CancelAdmission(s) PROVE FreshInv'
  BY <1>26, AbandonEffect, LeaveEffect DEF CancelAdmission
<1>27. ASSUME NEW s \in Sessions, OperationCancelled(s) PROVE FreshInv'
  BY <1>27 DEF OperationCancelled
<1>28. ASSUME NEW s \in Sessions, StreamCancelled(s) PROVE FreshInv'
  BY <1>28 DEF StreamCancelled, Closing
<1>29. ASSUME NEW s \in Sessions, CloseInterrupted(s) PROVE FreshInv'
  BY <1>29, LeaveEffect DEF CloseInterrupted, LeaveClose
<1>35. ASSUME NEW s \in Sessions, CloseRaises(s) PROVE FreshInv'
  BY <1>35, LeaveEffect DEF CloseRaises, LeaveClose
<1>30. ASSUME NEW s \in Sessions, AbandonInterrupted(s) PROVE FreshInv'
  BY <1>30 DEF AbandonInterrupted
<1>31. CASE BackoffElapses
  BY <1>31 DEF BackoffElapses
<1>32. CASE CooldownElapses
  BY <1>32 DEF CooldownElapses
<1>33. CASE UNCHANGED vars
  BY <1>33 DEF vars
<1>34. QED
  BY <1>1, <1>2, <1>3, <1>4, <1>5, <1>6, <1>7, <1>8, <1>9, <1>10, <1>11,
     <1>12, <1>13, <1>14, <1>15, <1>16, <1>17, <1>18, <1>19, <1>20, <1>21,
     <1>22, <1>23, <1>24, <1>25, <1>26, <1>27, <1>28, <1>29, <1>30, <1>31,
     <1>32, <1>33, <1>35
  DEF Next, Proceed, Cancel, Gate, Operation, Stream

LEMMA AliveStep ==
  ASSUME IInv, FreshInv, LeaderIsAlive, [Next]_vars
  PROVE  LeaderIsAlive'
<1> USE NoneAssumption DEF LeaderIsAlive, FreshInv, IInv, TypeInv, ProbeInv, BudgetInv,
      EpisodeInv, MatchingProbe, HoldsSlot, Episodes, Goto, controller, Ended
<1>0. ASSUME leaked' = leaked, NEW t \in Sessions PROVE Leaked(t)' <=> Leaked(t)
  BY <1>0 DEF Leaked
<1>1. ASSUME NEW s \in Sessions, Start(s) PROVE LeaderIsAlive'
  BY <1>0, <1>1 DEF Start
<1>2. ASSUME NEW s \in Sessions, GateRefuses(s) PROVE LeaderIsAlive'
  BY <1>0, <1>2, LeaveEffect DEF GateRefuses
<1>3. ASSUME NEW s \in Sessions, GateOpen(s) PROVE LeaderIsAlive'
  BY <1>0, <1>3 DEF GateOpen
<1>4. ASSUME NEW s \in Sessions, GateReopens(s) PROVE LeaderIsAlive'
  BY <1>0, <1>4 DEF GateReopens, NewEpisode
<1>5. ASSUME NEW s \in Sessions, GateLeads(s) PROVE LeaderIsAlive'
  BY <1>0, <1>5 DEF GateLeads
<1>6. ASSUME NEW s \in Sessions, GateWaits(s) PROVE LeaderIsAlive'
  BY <1>0, <1>6 DEF GateWaits
<1>7. ASSUME NEW s \in Sessions, Wake(s) PROVE LeaderIsAlive'
  BY <1>0, <1>7 DEF Wake
<1>8. ASSUME NEW s \in Sessions, BackoffOver(s) PROVE LeaderIsAlive'
  BY <1>0, <1>8, BackoffOverEffect DEF BackoffOver, LeadsBackoff
<1>9. ASSUME NEW s \in Sessions, PassQuota(s) PROVE LeaderIsAlive'
  BY <1>0, <1>9, AbandonEffect DEF PassQuota
<1>10. ASSUME NEW s \in Sessions, AcquireSlot(s) PROVE LeaderIsAlive'
  BY <1>0, <1>10, AbandonEffect DEF AcquireSlot, PermitIsCurrent
<1>11. ASSUME NEW s \in Sessions, CallSucceeds(s) PROVE LeaderIsAlive'
  BY <1>0, <1>11, CloseEffect, ReleaseEffect DEF CallSucceeds
<1>12. ASSUME NEW s \in Sessions, OperationRejected(s) PROVE LeaderIsAlive'
  BY <1>0, <1>12, CloseEffect, ReleaseEffect DEF OperationRejected
<1>13. ASSUME NEW s \in Sessions, OperationFails(s) PROVE LeaderIsAlive'
  BY <1>0, <1>13, FailWithBudgetEffect, FailExhaustedEffect, ReleaseEffect
  DEF OperationFails, AttemptFailed
<1>14. ASSUME NEW s \in Sessions, CreateCorrected(s) PROVE LeaderIsAlive'
  BY <1>0, <1>14, KeepEffect, ReleaseEffect DEF CreateCorrected
<1>15. ASSUME NEW s \in Sessions, StreamOpens(s) PROVE LeaderIsAlive'
  BY <1>0, <1>15 DEF StreamOpens
<1>16. ASSUME NEW s \in Sessions, FirstChunk(s) PROVE LeaderIsAlive'
  BY <1>0, <1>16, CloseEffect DEF FirstChunk
<1>17. ASSUME NEW s \in Sessions, OpenedFails(s) PROVE LeaderIsAlive'
  BY <1>0, <1>17, FailWithBudgetEffect, FailExhaustedEffect
  DEF OpenedFails, AttemptFailed, Closing
<1>18. ASSUME NEW s \in Sessions, OpenedRejected(s) PROVE LeaderIsAlive'
  BY <1>0, <1>18, CloseEffect DEF OpenedRejected, Closing
<1>19. ASSUME NEW s \in Sessions, StreamEnds(s) PROVE LeaderIsAlive'
  BY <1>0, <1>19 DEF StreamEnds, Closing
<1>20. ASSUME NEW s \in Sessions, StreamRecovers(s) PROVE LeaderIsAlive'
  BY <1>0, <1>20 DEF StreamRecovers
<1>21. ASSUME NEW s \in Sessions, CloseFinishes(s) PROVE LeaderIsAlive'
  BY <1>0, <1>21, ReleaseEffect DEF CloseFinishes
<1>22. ASSUME NEW s \in Sessions, Abandon(s) PROVE LeaderIsAlive'
  BY <1>0, <1>22, AbandonEffect, ReleaseEffect DEF Abandon
<1>23. ASSUME NEW s \in Sessions, ShieldedAbandon(s) PROVE LeaderIsAlive'
  BY <1>0, <1>23, AbandonEffect, LeaveEffect DEF ShieldedAbandon
<1>24. ASSUME NEW s \in Sessions, CancelWaiting(s) PROVE LeaderIsAlive'
  BY <1>0, <1>24, LeaveEffect DEF CancelWaiting
<1>25. ASSUME NEW s \in Sessions, CancelBackoff(s) PROVE LeaderIsAlive'
  BY <1>0, <1>25, LeaveEffect DEF CancelBackoff, LeadsBackoff
<1>26. ASSUME NEW s \in Sessions, CancelAdmission(s) PROVE LeaderIsAlive'
  BY <1>0, <1>26, AbandonEffect, LeaveEffect DEF CancelAdmission
<1>27. ASSUME NEW s \in Sessions, OperationCancelled(s) PROVE LeaderIsAlive'
  BY <1>0, <1>27 DEF OperationCancelled
<1>28. ASSUME NEW s \in Sessions, StreamCancelled(s) PROVE LeaderIsAlive'
  BY <1>0, <1>28 DEF StreamCancelled, Closing
<1>29. ASSUME NEW s \in Sessions, CloseInterrupted(s) PROVE LeaderIsAlive'
  BY <1>0, <1>29, LeaveCloseEffect, LeaveEffect DEF CloseInterrupted
<1>35. ASSUME NEW s \in Sessions, CloseRaises(s) PROVE LeaderIsAlive'
  BY <1>0, <1>35, LeaveCloseEffect, LeaveEffect DEF CloseRaises
<1>30. ASSUME NEW s \in Sessions, AbandonInterrupted(s) PROVE LeaderIsAlive'
  BY <1>0, <1>30 DEF AbandonInterrupted
<1>31. CASE BackoffElapses
  BY <1>0, <1>31 DEF BackoffElapses
<1>32. CASE CooldownElapses
  BY <1>0, <1>32 DEF CooldownElapses
<1>33. CASE UNCHANGED vars
  BY <1>0, <1>33 DEF vars
<1>34. QED
  BY <1>1, <1>2, <1>3, <1>4, <1>5, <1>6, <1>7, <1>8, <1>9, <1>10, <1>11,
     <1>12, <1>13, <1>14, <1>15, <1>16, <1>17, <1>18, <1>19, <1>20, <1>21,
     <1>22, <1>23, <1>24, <1>25, <1>26, <1>27, <1>28, <1>29, <1>30, <1>31,
     <1>32, <1>33, <1>35
  DEF Next, Proceed, Cancel, Gate, Operation, Stream

(* Unless it left a close, the leader of a live episode holds its probe or *)
(* is on its way to the next one: for any cancellation and any failure.    *)
THEOREM LeadersAlive == Spec => []LeaderIsAlive
<1>1. Init => FreshInv /\ LeaderIsAlive
  BY DEF Init, FreshInv, LeaderIsAlive
<1>2. IInv /\ FreshInv /\ LeaderIsAlive /\ [Next]_vars => FreshInv' /\ LeaderIsAlive'
  BY FreshStep, AliveStep
<1>3. QED
  BY <1>1, <1>2, Invariance, PTL DEF Spec

------------------------------------------------------------------------------
(* The controller implements the circuit.                                  *)

CircuitStep == [Circuit!Next]_(Circuit!vars)

CircuitFrame == UNCHANGED <<CircuitPhase, CircuitOwner, attempts, terminal>>

(* A session that moves while it does not hold the probe, or moves within  *)
(* the two sides of the circuit's test, leaves the circuit as it is.       *)
LEMMA PhaseFrame ==
  ASSUME IInv, NEW s \in Sessions, UNCHANGED <<episode, attempts, terminal>>,
         \A t \in Sessions \ {s} : pc'[t] = pc[t],
         episode # None /\ episode.probing /\ episode.leader = s =>
           (pc[s] \in {"quota", "bulkhead"} <=> pc'[s] \in {"quota", "bulkhead"})
  PROVE  CircuitFrame
BY DEF CircuitFrame, CircuitPhase, CircuitOwner, IInv, EpisodeInv, TypeInv, Episodes

(* A failure trips a closed circuit, returns the owner's probe to the open *)
(* circuit, exhausts it, or leaves it to the others.                       *)
LEMMA FailureSteps ==
  ASSUME IInv, IInv', NEW s \in Sessions, AttemptFailed(s),
         pc[s] \in {"upstream", "opened"}, pc'[s] \notin {"quota", "bulkhead"},
         \A t \in Sessions \ {s} : pc'[t] = pc[t], UNCHANGED attempts
  PROVE  CircuitStep
<1> USE NoneAssumption
<1>1. /\ TypeInv /\ attempts[s] \in 0 .. MaxAttempts /\ attempts[s] > 0
      /\ episode \in Episodes \cup {None}
  BY DEF IInv, TypeInv, BudgetInv
<1>2. CASE CanAttempt(s) /\ episode = None
  <2>1. /\ episode' \in Episodes /\ episode'.leader = s
        /\ ~episode'.probing /\ ~episode'.exhausted /\ terminal' = terminal
    BY <1>1, <1>2, FailWithBudgetEffect DEF AttemptFailed
  <2>2. /\ CircuitPhase = "closed"
        /\ CircuitPhase' = "open" /\ CircuitOwner' = s
    BY <1>2, <2>1 DEF CircuitPhase, CircuitOwner
  <2>3. Circuit!Trip(s)
    BY <1>1, <1>2, <2>1, <2>2, AttemptsAssumption DEF Circuit!Trip, CanAttempt
  <2>4. QED
    BY <2>3 DEF CircuitStep, Circuit!Next
<1>3. CASE CanAttempt(s) /\ episode # None /\ MatchingProbe(s)
  <2>1. /\ episode' \in Episodes /\ episode'.leader = s /\ ~episode'.probing
        /\ episode'.exhausted = episode.exhausted /\ terminal' = terminal
    BY <1>1, <1>3, FailWithBudgetEffect DEF AttemptFailed
  <2>2. episode.leader = s /\ episode.probing /\ ~episode.exhausted
    BY <1>3 DEF MatchingProbe, IInv, EpisodeInv
  <2>3. /\ CircuitPhase = "testing" /\ CircuitOwner = s
        /\ CircuitPhase' = "open" /\ CircuitOwner' = s
    BY <1>3, <2>1, <2>2 DEF CircuitPhase, CircuitOwner
  <2>4. Circuit!ProbeFails(s)
    BY <1>3, <2>1, <2>3 DEF Circuit!ProbeFails, CanAttempt
  <2>5. QED
    BY <2>4 DEF CircuitStep, Circuit!Next
<1>4. CASE CanAttempt(s) /\ episode # None /\ ~MatchingProbe(s) /\ episode.exhausted
  <2>1. episode' = episode /\ terminal' = terminal \cup {s}
    BY <1>1, <1>4, FailWithBudgetEffect DEF AttemptFailed
  <2>2. /\ CircuitPhase = "exhausted" /\ CircuitOwner = None
        /\ CircuitPhase' = "exhausted" /\ CircuitOwner' = None
    BY <1>4, <2>1 DEF CircuitPhase, CircuitOwner
  <2>3. Circuit!Dismiss(s)
    BY <2>1, <2>2 DEF Circuit!Dismiss
  <2>4. QED
    BY <2>3 DEF CircuitStep, Circuit!Next
<1>5. CASE CanAttempt(s) /\ episode # None /\ ~MatchingProbe(s) /\ ~episode.exhausted
  <2>1. /\ episode' \in Episodes
        /\ episode'.leader = episode.leader /\ episode'.probing = episode.probing
        /\ episode'.exhausted = episode.exhausted /\ terminal' = terminal
    BY <1>1, <1>5, FailWithBudgetEffect DEF AttemptFailed
  <2>2. episode.leader # s
    BY <1>5 DEF IInv, ProbeInv
  <2>3. CircuitPhase' = CircuitPhase /\ CircuitOwner' = CircuitOwner
    BY <1>1, <1>5, <2>1, <2>2 DEF CircuitPhase, CircuitOwner, IInv, EpisodeInv, Episodes
  <2>4. QED
    BY <2>1, <2>3 DEF CircuitStep, Circuit!vars
<1>6. CASE ~CanAttempt(s) /\ (episode = None \/ MatchingProbe(s))
  <2>1. /\ episode' \in Episodes /\ episode'.exhausted
        /\ \E joined \in SUBSET Sessions : terminal' = terminal \cup joined
    BY <1>1, <1>6, FailExhaustedEffect DEF AttemptFailed, MatchingProbe, Episodes
  <2>2. episode # None => episode.leader = s /\ episode.probing /\ ~episode.exhausted
    BY <1>6 DEF MatchingProbe, IInv, EpisodeInv
  <2>3. /\ CircuitPhase = "closed" \/ (CircuitPhase = "testing" /\ CircuitOwner = s)
        /\ CircuitPhase' = "exhausted" /\ CircuitOwner' = None
    BY <1>1, <2>1, <2>2 DEF CircuitPhase, CircuitOwner
  <2>4. attempts[s] = MaxAttempts
    BY <1>1, <1>6, AttemptsAssumption DEF CanAttempt
  <2>5. Circuit!Exhaust(s)
    BY <2>1, <2>3, <2>4 DEF Circuit!Exhaust
  <2>6. QED
    BY <2>5 DEF CircuitStep, Circuit!Next
<1>7. CASE ~CanAttempt(s) /\ ~(episode = None \/ MatchingProbe(s))
  <2>1. episode' = episode /\ terminal' = terminal
    BY <1>1, <1>7, FailExhaustedEffect DEF AttemptFailed
  <2>2. episode.leader # s
    BY <1>7 DEF IInv, ProbeInv
  <2>3. CircuitFrame
    BY <2>1, <2>2, PhaseFrame
  <2>4. QED
    BY <2>3 DEF CircuitFrame, CircuitStep, Circuit!vars
<1>8. QED
  BY <1>2, <1>3, <1>4, <1>5, <1>6, <1>7

(* Every step of the controller is a step of the circuit or leaves it     *)
(* alone.                                                                  *)
LEMMA CircuitSteps ==
  ASSUME IInv, IInv', [Next]_vars
  PROVE  CircuitStep
<1> USE NoneAssumption, AttemptsAssumption
<1>1. ASSUME NEW s \in Sessions, Start(s) PROVE CircuitStep
  BY <1>1, PhaseFrame
  DEF Start, CircuitFrame, CircuitStep, Circuit!vars, IInv, TypeInv,
      EpisodeInv, ProbeInv, Ended, Goto, controller
<1>2. ASSUME NEW s \in Sessions, GateRefuses(s) PROVE CircuitStep
  BY <1>2, LeaveEffect, PhaseFrame
  DEF GateRefuses, CircuitFrame, CircuitStep, Circuit!vars, IInv, TypeInv,
      EpisodeInv, ProbeInv, Ended, Goto, controller
<1>3. ASSUME NEW s \in Sessions, GateOpen(s) PROVE CircuitStep
  BY <1>3, PhaseFrame
  DEF GateOpen, NoPermit, CircuitFrame, CircuitStep, Circuit!vars, IInv,
      TypeInv, EpisodeInv, ProbeInv, Ended, Goto, controller
<1>4. ASSUME NEW s \in Sessions, GateReopens(s) PROVE CircuitStep
  <2>1. /\ episode' = NewEpisode(s, TRUE, TRUE) /\ pc'[s] = "quota"
        /\ CircuitPhase = "exhausted" /\ s \notin terminal /\ attempts[s] < MaxAttempts
        /\ UNCHANGED <<attempts, terminal>>
    BY <1>4 DEF GateReopens, Goto, CircuitPhase, IInv, TypeInv, BudgetInv
  <2>2. episode' \in Episodes
    BY <2>1 DEF NewEpisode, IInv, TypeInv, Episodes
  <2>3. CircuitPhase' = "probing" /\ CircuitOwner' = s
    BY <2>1, <2>2 DEF CircuitPhase, CircuitOwner, NewEpisode
  <2>4. Circuit!Reopen(s)
    BY <2>1, <2>3 DEF Circuit!Reopen
  <2>5. QED
    BY <2>4 DEF CircuitStep, Circuit!Next
<1>5. ASSUME NEW s \in Sessions, GateLeads(s) PROVE CircuitStep
  <2>1. /\ episode \in Episodes /\ ~episode.exhausted
        /\ episode.leader \in {None, s} /\ ~episode.probing
        /\ attempts[s] < MaxAttempts /\ UNCHANGED <<attempts, terminal>>
    BY <1>5 DEF GateLeads, IInv, TypeInv, BudgetInv
  <2>2. /\ episode' \in Episodes /\ episode'.leader = s /\ ~episode'.exhausted
        /\ episode'.probing = episode.ready
    BY <1>5, <2>1 DEF GateLeads, Episodes
  <2>3. CircuitPhase = "open" /\ CircuitOwner \in {None, s}
    BY <2>1 DEF CircuitPhase, CircuitOwner
  <2>4. pc'[s] = IF episode.ready THEN "quota" ELSE "backoff"
    BY <1>5 DEF GateLeads, Goto, IInv, TypeInv
  <2>5. CircuitPhase' \in {"open", "probing"} /\ CircuitOwner' = s
    BY <2>2, <2>4 DEF CircuitPhase, CircuitOwner
  <2>6. Circuit!Claim(s)
    BY <2>1, <2>3, <2>5 DEF Circuit!Claim
  <2>7. QED
    BY <2>6 DEF CircuitStep, Circuit!Next
<1>6. ASSUME NEW s \in Sessions, GateWaits(s) PROVE CircuitStep
  <2>1. /\ episode \in Episodes
        /\ \A t \in Sessions \ {s} : pc'[t] = pc[t]
        /\ pc[s] = "gate" /\ UNCHANGED <<attempts, terminal>>
    BY <1>6 DEF GateWaits, Goto, IInv, TypeInv
  <2>2. /\ episode' \in Episodes
        /\ episode'.leader = episode.leader /\ episode'.probing = episode.probing
        /\ episode'.exhausted = episode.exhausted
    BY <1>6, <2>1 DEF GateWaits, Episodes
  <2>3. ~(episode.probing /\ episode.leader = s)
    BY <2>1 DEF IInv, ProbeInv
  <2>4. CircuitPhase' = CircuitPhase /\ CircuitOwner' = CircuitOwner
    BY <2>1, <2>2, <2>3 DEF CircuitPhase, CircuitOwner, IInv, EpisodeInv, Episodes
  <2>5. QED
    BY <2>1, <2>4 DEF CircuitStep, Circuit!vars
<1>7. ASSUME NEW s \in Sessions, Wake(s) PROVE CircuitStep
  BY <1>7, PhaseFrame
  DEF Wake, CircuitFrame, CircuitStep, Circuit!vars, IInv, TypeInv,
      EpisodeInv, ProbeInv, Ended, Goto, controller
<1>8. ASSUME NEW s \in Sessions, BackoffOver(s) PROVE CircuitStep
  <2>1. /\ pc[s] = "backoff" /\ attempts[s] < MaxAttempts
        /\ UNCHANGED <<attempts, terminal>> /\ TypeInv
    BY <1>8 DEF BackoffOver, IInv, TypeInv, BudgetInv
  <2>2. CASE LeadsBackoff(s) /\ ~episode.exhausted
    <3>1. /\ episode' \in Episodes /\ episode'.leader = s
          /\ episode'.probing /\ ~episode'.exhausted /\ pc'[s] = "quota"
      BY <1>8, <2>1, <2>2, BackoffOverEffect DEF TypeInv
    <3>2. /\ CircuitPhase = "open" /\ CircuitOwner = s
          /\ CircuitPhase' = "probing" /\ CircuitOwner' = s
      BY <2>2, <3>1 DEF LeadsBackoff, CircuitPhase, CircuitOwner
    <3>3. Circuit!Claim(s)
      BY <2>1, <3>2 DEF Circuit!Claim
    <3>4. QED
      BY <3>3 DEF CircuitStep, Circuit!Next
  <2>3. CASE ~(LeadsBackoff(s) /\ ~episode.exhausted)
    <3>1. episode' = episode /\ pc' = [pc EXCEPT ![s] = "gate"]
      BY <1>8, <2>1, <2>3, BackoffOverEffect
    <3>2. episode # None => ~(episode.probing /\ episode.leader = s)
      BY <2>1 DEF IInv, ProbeInv
    <3>3. CircuitFrame
      BY <2>1, <3>1, <3>2, PhaseFrame DEF TypeInv
    <3>4. QED
      BY <3>3 DEF CircuitFrame, CircuitStep, Circuit!vars
  <2>4. QED
    BY <2>2, <2>3
<1>9. ASSUME NEW s \in Sessions, PassQuota(s) PROVE CircuitStep
  BY <1>9, AbandonEffect, PhaseFrame
  DEF PassQuota, PermitIsCurrent, CircuitPhase, CircuitOwner, CircuitFrame,
      CircuitStep, Circuit!vars, IInv, TypeInv, EpisodeInv, ProbeInv, Ended,
      Goto, controller, BudgetInv, AdmittedInv, MatchingProbe, Episodes
<1>10. ASSUME NEW s \in Sessions, AcquireSlot(s) PROVE CircuitStep
  BY <1>10, AbandonEffect, PhaseFrame
  DEF AcquireSlot, PermitIsCurrent, CircuitPhase, CircuitOwner, CircuitFrame,
      CircuitStep, Circuit!vars, Circuit!Next, Circuit!Attempt, IInv, TypeInv,
      EpisodeInv, ProbeInv, Ended, Goto, controller, BudgetInv, AdmittedInv,
      MatchingProbe, Episodes
<1>11. ASSUME NEW s \in Sessions, CallSucceeds(s) PROVE CircuitStep
  BY <1>11, CloseEffect, ReleaseEffect, PhaseFrame
  DEF CallSucceeds, CircuitPhase, CircuitOwner, CircuitFrame, CircuitStep,
      Circuit!vars, Circuit!Next, Circuit!ProbeSucceeds, IInv, TypeInv,
      EpisodeInv, ProbeInv, Ended, Goto, controller, BudgetInv, AdmittedInv,
      MatchingProbe, Episodes
<1>12. ASSUME NEW s \in Sessions, OperationRejected(s) PROVE CircuitStep
  BY <1>12, CloseEffect, ReleaseEffect, PhaseFrame
  DEF OperationRejected, CanAttempt, CircuitPhase, CircuitOwner, CircuitFrame,
      CircuitStep, Circuit!vars, Circuit!Next, Circuit!ProbeSucceeds, IInv,
      TypeInv, EpisodeInv, ProbeInv, Ended, Goto, controller, BudgetInv,
      AdmittedInv, MatchingProbe, Episodes
<1>13. ASSUME NEW s \in Sessions, OperationFails(s) PROVE CircuitStep
  <2>1. /\ AttemptFailed(s) /\ pc[s] = "upstream" /\ UNCHANGED attempts
        /\ \E result \in {"gate", "failed"} : Release(s, result)
    BY <1>13 DEF OperationFails
  <2>2. pc'[s] \notin {"quota", "bulkhead"} /\ \A t \in Sessions \ {s} : pc'[t] = pc[t]
    BY <2>1, ReleaseEffect DEF IInv, Ended
  <2>3. QED
    BY <2>1, <2>2, FailureSteps
<1>14. ASSUME NEW s \in Sessions, CreateCorrected(s) PROVE CircuitStep
  BY <1>14, KeepEffect, ReleaseEffect, PhaseFrame
  DEF CreateCorrected, CanAttempt, CircuitPhase, CircuitOwner, CircuitFrame,
      CircuitStep, Circuit!vars, Circuit!Next, Circuit!ProbeFails, IInv,
      TypeInv, EpisodeInv, ProbeInv, Ended, Goto, controller, BudgetInv,
      AdmittedInv, MatchingProbe, Episodes
<1>15. ASSUME NEW s \in Sessions, StreamOpens(s) PROVE CircuitStep
  BY <1>15, PhaseFrame
  DEF StreamOpens, CircuitFrame, CircuitStep, Circuit!vars, IInv, TypeInv,
      EpisodeInv, ProbeInv, Ended, Goto, controller
<1>16. ASSUME NEW s \in Sessions, FirstChunk(s) PROVE CircuitStep
  BY <1>16, CloseEffect, PhaseFrame
  DEF FirstChunk, CircuitPhase, CircuitOwner, CircuitFrame, CircuitStep,
      Circuit!vars, Circuit!Next, Circuit!ProbeSucceeds, IInv, TypeInv,
      EpisodeInv, ProbeInv, Ended, Goto, controller, BudgetInv, AdmittedInv,
      MatchingProbe, Episodes
<1>17. ASSUME NEW s \in Sessions, OpenedFails(s) PROVE CircuitStep
  <2>1. /\ AttemptFailed(s) /\ pc[s] = "opened" /\ UNCHANGED attempts
        /\ pc' = [pc EXCEPT ![s] = "closing"]
    BY <1>17 DEF OpenedFails, Closing, Goto
  <2>2. pc'[s] \notin {"quota", "bulkhead"} /\ \A t \in Sessions \ {s} : pc'[t] = pc[t]
    BY <2>1 DEF IInv, TypeInv
  <2>3. QED
    BY <2>1, <2>2, FailureSteps
<1>18. ASSUME NEW s \in Sessions, OpenedRejected(s) PROVE CircuitStep
  BY <1>18, CloseEffect, PhaseFrame
  DEF OpenedRejected, Closing, CircuitPhase, CircuitOwner, CircuitFrame,
      CircuitStep, Circuit!vars, Circuit!Next, Circuit!ProbeSucceeds, IInv,
      TypeInv, EpisodeInv, ProbeInv, Ended, Goto, controller, BudgetInv,
      AdmittedInv, MatchingProbe, Episodes
<1>19. ASSUME NEW s \in Sessions, StreamEnds(s) PROVE CircuitStep
  BY <1>19, PhaseFrame
  DEF StreamEnds, Closing, CanAttempt, CircuitFrame, CircuitStep,
      Circuit!vars, IInv, TypeInv, EpisodeInv, ProbeInv, Ended, Goto,
      controller
<1>20. ASSUME NEW s \in Sessions, StreamRecovers(s) PROVE CircuitStep
  BY <1>20, PhaseFrame
  DEF StreamRecovers, CanAttempt, NoPermit, CircuitFrame, CircuitStep,
      Circuit!vars, IInv, TypeInv, EpisodeInv, ProbeInv, Ended, Goto,
      controller
<1>21. ASSUME NEW s \in Sessions, CloseFinishes(s) PROVE CircuitStep
  BY <1>21, ReleaseEffect, PhaseFrame
  DEF CloseFinishes, CircuitPhase, CircuitOwner, CircuitFrame, CircuitStep,
      Circuit!vars, IInv, TypeInv, EpisodeInv, ProbeInv, Ended, Goto,
      controller, BudgetInv, AdmittedInv, MatchingProbe, Episodes
<1>22. ASSUME NEW s \in Sessions, Abandon(s) PROVE CircuitStep
  BY <1>22, AbandonEffect, ReleaseEffect, PhaseFrame
  DEF Abandon, CircuitPhase, CircuitOwner, CircuitFrame, CircuitStep,
      Circuit!vars, Circuit!Next, Circuit!Vacate, IInv, TypeInv, EpisodeInv,
      ProbeInv, Ended, Goto, controller, BudgetInv, AdmittedInv,
      MatchingProbe, Episodes
<1>23. ASSUME NEW s \in Sessions, ShieldedAbandon(s) PROVE CircuitStep
  BY <1>23, AbandonEffect, LeaveEffect, PhaseFrame
  DEF ShieldedAbandon, NoPermit, CircuitPhase, CircuitOwner, CircuitFrame,
      CircuitStep, Circuit!vars, Circuit!Next, Circuit!Vacate, IInv, TypeInv,
      EpisodeInv, ProbeInv, Ended, Goto, controller, BudgetInv, AdmittedInv,
      MatchingProbe, Episodes
<1>24. ASSUME NEW s \in Sessions, CancelWaiting(s) PROVE CircuitStep
  <2>1. /\ episode \in Episodes \cup {None}
        /\ \A t \in Sessions \ {s} : pc'[t] = pc[t]
        /\ pc[s] = "waiting" /\ UNCHANGED <<attempts, terminal>>
    BY <1>24, LeaveEffect DEF CancelWaiting, Ended, IInv, TypeInv
  <2>2. episode = None => episode' = None
    BY <1>24 DEF CancelWaiting
  <2>3. episode # None =>
        /\ episode' \in Episodes
        /\ episode'.leader = episode.leader /\ episode'.probing = episode.probing
        /\ episode'.exhausted = episode.exhausted
    BY <1>24, <2>1 DEF CancelWaiting, Episodes
  <2>4. episode # None => ~(episode.probing /\ episode.leader = s)
    BY <2>1 DEF IInv, ProbeInv
  <2>5. CircuitPhase' = CircuitPhase /\ CircuitOwner' = CircuitOwner
    BY <2>1, <2>2, <2>3, <2>4 DEF CircuitPhase, CircuitOwner, IInv, EpisodeInv, Episodes
  <2>6. QED
    BY <2>1, <2>5 DEF CircuitStep, Circuit!vars
<1>25. ASSUME NEW s \in Sessions, CancelBackoff(s) PROVE CircuitStep
  <2>1. /\ pc[s] = "backoff" /\ TypeInv /\ UNCHANGED <<attempts, terminal>>
        /\ pc'[s] \notin {"quota", "bulkhead"}
        /\ \A t \in Sessions \ {s} : pc'[t] = pc[t]
    BY <1>25, LeaveEffect DEF CancelBackoff, IInv, Ended
  <2>2. CASE LeadsBackoff(s)
    <3>1. episode \in Episodes /\ episode.leader = s /\ ~episode.probing
      BY <2>1, <2>2 DEF LeadsBackoff, TypeInv
    <3>2. episode' = [episode EXCEPT !.leader = None]
      BY <1>25, <2>2 DEF CancelBackoff
    <3>3. /\ episode' \in Episodes /\ episode'.leader = None /\ ~episode'.probing
          /\ episode'.exhausted = episode.exhausted
      BY <3>1, <3>2 DEF Episodes
    <3>4. ~episode.exhausted
      BY <3>1 DEF IInv, EpisodeInv
    <3>5. /\ CircuitPhase = "open" /\ CircuitOwner = s
          /\ CircuitPhase' = "open" /\ CircuitOwner' = None
      BY <3>1, <3>3, <3>4 DEF CircuitPhase, CircuitOwner
    <3>6. Circuit!Vacate(s)
      BY <2>1, <3>5 DEF Circuit!Vacate
    <3>7. QED
      BY <3>6 DEF CircuitStep, Circuit!Next
  <2>3. CASE ~LeadsBackoff(s)
    <3>1. UNCHANGED episode
      BY <1>25, <2>3 DEF CancelBackoff
    <3>2. episode # None => ~(episode.probing /\ episode.leader = s)
      BY <2>1 DEF IInv, ProbeInv
    <3>3. CircuitFrame
      BY <2>1, <3>1, <3>2, PhaseFrame
    <3>4. QED
      BY <3>3 DEF CircuitFrame, CircuitStep, Circuit!vars
  <2>4. QED
    BY <2>2, <2>3
<1>26. ASSUME NEW s \in Sessions, CancelAdmission(s) PROVE CircuitStep
  BY <1>26, AbandonEffect, LeaveEffect, PhaseFrame
  DEF CancelAdmission, CircuitPhase, CircuitOwner, CircuitFrame, CircuitStep,
      Circuit!vars, Circuit!Next, Circuit!Vacate, IInv, TypeInv, EpisodeInv,
      ProbeInv, Ended, Goto, controller, BudgetInv, AdmittedInv,
      MatchingProbe, Episodes
<1>27. ASSUME NEW s \in Sessions, OperationCancelled(s) PROVE CircuitStep
  BY <1>27, PhaseFrame
  DEF OperationCancelled, CircuitFrame, CircuitStep, Circuit!vars, IInv,
      TypeInv, EpisodeInv, ProbeInv, Ended, Goto, controller
<1>28. ASSUME NEW s \in Sessions, StreamCancelled(s) PROVE CircuitStep
  BY <1>28, PhaseFrame
  DEF StreamCancelled, Closing, CircuitFrame, CircuitStep, Circuit!vars, IInv,
      TypeInv, EpisodeInv, ProbeInv, Ended, Goto, controller
<1>29. ASSUME NEW s \in Sessions, CloseInterrupted(s) PROVE CircuitStep
  BY <1>29, LeaveEffect, PhaseFrame
  DEF CloseInterrupted, LeaveClose, CircuitFrame, CircuitStep, Circuit!vars, IInv,
      TypeInv, EpisodeInv, ProbeInv, Ended, Goto, controller
<1>35. ASSUME NEW s \in Sessions, CloseRaises(s) PROVE CircuitStep
  BY <1>35, LeaveEffect, PhaseFrame
  DEF CloseRaises, LeaveClose, CircuitFrame, CircuitStep, Circuit!vars, IInv,
      TypeInv, EpisodeInv, ProbeInv, Ended, Goto, controller
<1>30. ASSUME NEW s \in Sessions, AbandonInterrupted(s) PROVE CircuitStep
  BY <1>30, PhaseFrame
  DEF AbandonInterrupted, CircuitFrame, CircuitStep, Circuit!vars, IInv,
      TypeInv, EpisodeInv, ProbeInv, Ended, Goto, controller
<1>31. CASE BackoffElapses
  <2>1. episode \in Episodes /\ UNCHANGED <<pc, attempts, terminal>>
    BY <1>31 DEF BackoffElapses, IInv, TypeInv
  <2>2. /\ episode' \in Episodes
        /\ episode'.leader = episode.leader /\ episode'.probing = episode.probing
        /\ episode'.exhausted = episode.exhausted
    BY <1>31, <2>1 DEF BackoffElapses, Episodes
  <2>3. QED
    BY <2>1, <2>2 DEF CircuitPhase, CircuitOwner, CircuitStep, Circuit!vars
<1>32. CASE CooldownElapses
  <2>1. episode \in Episodes /\ UNCHANGED <<pc, attempts, terminal>>
    BY <1>32 DEF CooldownElapses, IInv, TypeInv
  <2>2. /\ episode' \in Episodes
        /\ episode'.leader = episode.leader /\ episode'.probing = episode.probing
        /\ episode'.exhausted = episode.exhausted
    BY <1>32, <2>1 DEF CooldownElapses, Episodes
  <2>3. QED
    BY <2>1, <2>2 DEF CircuitPhase, CircuitOwner, CircuitStep, Circuit!vars
<1>33. CASE UNCHANGED vars
  BY <1>33 DEF vars, CircuitPhase, CircuitOwner, CircuitStep, Circuit!vars
<1>34. QED
  BY <1>1, <1>2, <1>3, <1>4, <1>5, <1>6, <1>7, <1>8, <1>9, <1>10, <1>11,
     <1>12, <1>13, <1>14, <1>15, <1>16, <1>17, <1>18, <1>19, <1>20, <1>21,
     <1>22, <1>23, <1>24, <1>25, <1>26, <1>27, <1>28, <1>29, <1>30, <1>31,
     <1>32, <1>33, <1>35
  DEF Next, Proceed, Cancel, Gate, Operation, Stream

LEMMA CircuitInit ==
  ASSUME Init
  PROVE  Circuit!Init
BY DEF Init, Circuit!Init, CircuitPhase, CircuitOwner

(* The controller implements the circuit of RecoveryCircuit: one owner, one*)
(* probe at a time, no attempt by anybody else until the circuit closes,   *)
(* and none ever again by an execution that was dismissed.                 *)
THEOREM Refinement == Spec => ImplementsCircuit
<1>1. Init => Circuit!Init
  BY CircuitInit
<1>2. IInv /\ IInv' /\ [Next]_vars => [Circuit!Next]_(Circuit!vars)
  BY CircuitSteps DEF CircuitStep
<1>3. QED
  BY <1>1, <1>2, Invariance, PTL DEF Spec, ImplementsCircuit, Circuit!Spec
==============================================================================
