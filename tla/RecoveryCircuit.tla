--------------------------- MODULE RecoveryCircuit ---------------------------
(***************************************************************************)
(* What the admission controller promises its callers, without gates,      *)
(* permits, slots or conditions: one circuit per provider.  While it is    *)
(* closed every execution may send.  A transient failure opens it for one  *)
(* owner, and until it closes again the only upstream attempts are that    *)
(* owner's probes, one at a time.  A probe that fails without budget left  *)
(* exhausts the circuit and dismisses the executions that joined it.       *)
(***************************************************************************)
EXTENDS Naturals

CONSTANTS Sessions, MaxAttempts, None

VARIABLES
  phase,     \* closed, open, probing (a probe may start), testing (one runs), exhausted
  owner,     \* the execution that owns the open circuit, or None
  started,   \* attempts started by each execution
  dismissed  \* executions whose recovery has failed for good

vars == <<phase, owner, started, dismissed>>

Init ==
  /\ phase = "closed"
  /\ owner = None
  /\ started = [s \in Sessions |-> 0]
  /\ dismissed = {}

Attempt(s) ==
  /\ \/ phase = "closed" /\ UNCHANGED phase
     \/ phase = "probing" /\ owner = s /\ phase' = "testing"
  /\ started[s] < MaxAttempts
  /\ s \notin dismissed
  /\ started' = [started EXCEPT ![s] = @ + 1]
  /\ UNCHANGED <<owner, dismissed>>

Trip(s) ==
  /\ phase = "closed"
  /\ started[s] \in 1 .. (MaxAttempts - 1)
  /\ phase' = "open"
  /\ owner' = s
  /\ UNCHANGED <<started, dismissed>>

Claim(s) ==
  /\ phase = "open" /\ owner \in {None, s}
  /\ started[s] < MaxAttempts
  /\ owner' = s
  /\ phase' \in {"open", "probing"}
  /\ UNCHANGED <<started, dismissed>>

ProbeSucceeds(s) ==
  /\ phase = "testing" /\ owner = s
  /\ phase' = "closed"
  /\ owner' = None
  /\ UNCHANGED <<started, dismissed>>

ProbeFails(s) ==
  /\ phase = "testing" /\ owner = s
  /\ started[s] < MaxAttempts
  /\ phase' = "open"
  /\ UNCHANGED <<owner, started, dismissed>>

Vacate(s) ==
  /\ phase \in {"open", "probing", "testing"} /\ owner = s
  /\ phase' = "open"
  /\ owner' = None
  /\ UNCHANGED <<started, dismissed>>

Exhaust(s) ==
  /\ \/ phase = "closed"
     \/ phase = "testing" /\ owner = s
  /\ started[s] = MaxAttempts
  /\ phase' = "exhausted"
  /\ owner' = None
  /\ \E joined \in SUBSET Sessions : dismissed' = dismissed \cup joined
  /\ UNCHANGED started

Dismiss(s) ==
  /\ phase = "exhausted"
  /\ dismissed' = dismissed \cup {s}
  /\ UNCHANGED <<phase, owner, started>>

Reopen(s) ==
  /\ phase = "exhausted"
  /\ s \notin dismissed
  /\ started[s] < MaxAttempts
  /\ owner' = s
  /\ phase' = "probing"
  /\ UNCHANGED <<started, dismissed>>

Next == \E s \in Sessions :
          \/ Attempt(s) \/ Trip(s) \/ Claim(s) \/ ProbeSucceeds(s)
          \/ ProbeFails(s) \/ Vacate(s) \/ Exhaust(s) \/ Dismiss(s) \/ Reopen(s)

Spec == Init /\ [][Next]_vars
==============================================================================
