---------------------------- MODULE SlidingWindow ----------------------------
(***************************************************************************)
(* StrictSlidingWindowLimiter (core/rate_limit.py): the rate window of the *)
(* provider admission controller and of the messaging queue.               *)
(*                                                                         *)
(* One round of _acquire runs under the lock without suspending, so it is  *)
(* one action; but it reads the clock twice, once to purge the deque and   *)
(* once to stamp the acquisition, and time passes in between.              *)
(***************************************************************************)
EXTENDS Naturals, Sequences

CONSTANTS
  Callers,  \* tasks that acquire, once each
  Limit,    \* rate_limit
  Window,   \* rate_window
  MaxLag,   \* bound on the time between the two readings of the clock, and
            \* on how late a sleeper wakes
  MaxIdle   \* bound on the time that passes while nobody sleeps

ASSUME LimitAssumption  == Limit \in Nat \ {0}
ASSUME WindowAssumption == Window \in Nat \ {0}
ASSUME LagAssumption    == MaxLag \in Nat /\ MaxIdle \in Nat

VARIABLES
  clock,   \* time.monotonic()
  times,   \* the deque of recent acquisitions
  pc,      \* calling, sleeping, admitted, refused or cancelled; idle before the call
  wakeAt,  \* when a sleeping caller wakes
  history  \* the time of every acquisition so far

vars == <<clock, times, pc, wakeAt, history>>

TypeOK ==
  /\ clock \in Nat
  /\ times \in Seq(Nat) /\ Len(times) <= Limit
  /\ pc \in [Callers -> {"idle", "calling", "sleeping", "admitted", "refused",
                      "cancelled"}]
  /\ wakeAt \in [Callers -> Nat]
  /\ history \in Seq(Nat)

Init ==
  /\ clock = 0
  /\ times = <<>>
  /\ pc = [c \in Callers |-> "idle"]
  /\ wakeAt = [c \in Callers |-> 0]
  /\ history = <<>>

Goto(c, location) == pc' = [pc EXCEPT ![c] = location]

(* Every purged entry but none of the others is a full window old.         *)
NeverPurges(k) == k = 0  \* a fault, for the checks only

Purges(k) ==
  /\ \A i \in 1 .. k : times[i] + Window <= clock
  /\ k < Len(times) => times[k + 1] + Window > clock

KeptAfter(k) == SubSeq(times, k + 1, Len(times))

RoomForOneTooMany(k) == Len(times) - k <= Limit  \* a fault, for the checks only

Room(k) == Len(times) - k < Limit

Call(c) ==
  /\ pc[c] = "idle"
  /\ Goto(c, "calling")
  /\ UNCHANGED <<clock, times, wakeAt, history>>

(* The time an acquisition is stamped with, given the two readings.        *)
FirstReading(before, after) == before  \* a fault, for the checks only

Stamp(before, after) == after

Admit(c) ==
  /\ pc[c] = "calling"
  /\ \E k \in 0 .. Len(times), lag \in 0 .. MaxLag :
       /\ Purges(k)
       /\ Room(k)
       /\ clock' = clock + lag
       /\ times' = Append(KeptAfter(k), Stamp(clock, clock + lag))
       /\ history' = Append(history, clock + lag)
  /\ Goto(c, "admitted")
  /\ UNCHANGED wakeAt

(* The condition of acquire_if no longer holds.                            *)
Refuse(c) ==
  /\ pc[c] = "calling"
  /\ \E k \in 0 .. Len(times) :
       /\ Purges(k)
       /\ Room(k)
       /\ times' = KeptAfter(k)
  /\ Goto(c, "refused")
  /\ UNCHANGED <<clock, wakeAt, history>>

Sleep(c) ==
  /\ pc[c] = "calling"
  /\ \E k \in 0 .. Len(times) :
       /\ Purges(k)
       /\ ~Room(k)
       /\ times' = KeptAfter(k)
       /\ wakeAt' = [wakeAt EXCEPT ![c] = times[k + 1] + Window]
  /\ Goto(c, "sleeping")
  /\ UNCHANGED <<clock, history>>

Wake(c) ==
  /\ pc[c] = "sleeping"
  /\ clock >= wakeAt[c]
  /\ Goto(c, "calling")
  /\ UNCHANGED <<clock, times, wakeAt, history>>

Cancel(c) ==
  /\ pc[c] = "sleeping"
  /\ Goto(c, "cancelled")
  /\ UNCHANGED <<clock, times, wakeAt, history>>

Tick ==
  /\ (\E c \in Callers : pc[c] = "sleeping") \/ clock < MaxIdle
  /\ \A c \in Callers : pc[c] = "sleeping" => clock < wakeAt[c] + MaxLag
  /\ clock' = clock + 1
  /\ UNCHANGED <<times, pc, wakeAt, history>>

Round(c) == Admit(c) \/ Refuse(c) \/ Sleep(c)

Next == \/ \E c \in Callers : Call(c) \/ Round(c) \/ Wake(c) \/ Cancel(c)
        \/ Tick

Spec == Init /\ [][Next]_vars

(* The lock is free between rounds, timers fire and time passes.           *)
FairSpec ==
  /\ Spec
  /\ \A c \in Callers : WF_vars(Round(c)) /\ WF_vars(Wake(c))
  /\ WF_vars(Tick)

------------------------------------------------------------------------------
(* "at most rate_limit acquisitions in any interval of length rate_window":*)
(* an acquisition and the one rate_limit later are a full window apart,    *)
(* whatever passes between the two readings of the clock.                  *)
StrictWindow ==
  \A i \in 1 .. Len(history) :
    i + Limit <= Len(history) => history[i + Limit] >= history[i] + Window

(* A caller that keeps waiting is served or refused: purging never removes *)
(* what a sleeper's timer relies on, and nobody sleeps past a free place   *)
(* for good.                                                               *)
Answered(c) == pc[c] \in {"admitted", "refused", "cancelled"}

CallsAnswered == \A c \in Callers : pc[c] = "idle" \/ Answered(c)

EveryCallAnswered == []<>CallsAnswered
==============================================================================
