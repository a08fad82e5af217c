--------------------------- MODULE MessagingQueue ---------------------------
(***************************************************************************)
(* MessagingRateLimiter (messaging/limiter.py): the compacting queue and   *)
(* the worker through which one messaging platform sends.                  *)
(*                                                                         *)
(* A call is one enqueue (its caller awaits the future) or one             *)
(* fire_and_forget (a background task awaits it, and retries).  Its future *)
(* is fut[c]; the functions queued are named by the call they came from.   *)
(* Sections between two awaits run without interleaving on the event loop, *)
(* so each is one action.  Waiting for rate capacity is the location       *)
(* "quota", left when the window of SlidingWindow admits.                  *)
(***************************************************************************)
EXTENDS Naturals, Sequences, SequencesExt

CONSTANTS
  Calls,       \* calls of enqueue and fire_and_forget
  Forgets,     \* those of fire_and_forget
  Keys,        \* dedup keys
  KeyOf,       \* the key of each call; a call without a key has its own
  MaxRetries,  \* max_retries of fire_and_forget
  None         \* no call

ASSUME CallAssumption ==
  /\ Forgets \subseteq Calls
  /\ KeyOf \in [Calls -> Keys]
  /\ None \notin Calls
ASSUME RetryAssumption == MaxRetries \in Nat

VARIABLES
  queue,    \* _queue_list
  func,     \* _queue_map[k][0], None when k is not in the map
  futures,  \* _queue_map[k][1]
  at,       \* where the worker is: off, idle, paused, quota, running or done
  job,      \* what the worker popped: key, func and futures (_active_futures)
  paused,   \* _paused_until lies in the future
  stage,    \* open, or how far shutdown is: draining, timedOut or stopped
  fut,      \* the future of each call
  pc,       \* where each caller is
  tries,    \* retries a fire_and_forget has used
  version,  \* when a call was made, as a number
  issued,   \* how many calls were made
  newest    \* the newest version of each key whose function has started

vars == <<queue, func, futures, at, job, paused, stage, fut, pc, tries,
          version, issued, newest>>

workerVars == <<at, job, paused>>
queueVars  == <<queue, func, futures>>
callVars   == <<tries, version, issued>>

NoJob == [key |-> None, func |-> None, futures |-> {}]

Jobs == [key : Keys, func : Calls, futures : SUBSET Calls]

Init ==
  /\ queue = <<>>
  /\ func = [k \in Keys |-> None]
  /\ futures = [k \in Keys |-> {}]
  /\ at = "off"
  /\ job = NoJob
  /\ paused = FALSE
  /\ stage = "open"
  /\ fut = [c \in Calls |-> "none"]
  /\ pc = [c \in Calls |-> "idle"]
  /\ tries = [c \in Calls |-> 0]
  /\ version = [c \in Calls |-> 0]
  /\ issued = 0
  /\ newest = [k \in Keys |-> 0]

Running == stage = "open" /\ at \notin {"off", "done"}

Goto(c, location) == pc' = [pc EXCEPT ![c] = location]

------------------------------------------------------------------------------
(* Callers                                                                 *)

FuturesOfLastOnly(k, c) == {c}  \* a fault, for the checks only

FuturesWith(k, c) == futures[k] \union {c}

FirstFunc(k, c) == IF func[k] = None THEN c ELSE func[k]
  \* a fault, for the checks only

FuncOf(k, c) == c

AlwaysAppended(k) == Append(queue, k)  \* a fault, for the checks only

QueueWith(k) == IF func[k] = None THEN Append(queue, k) ELSE queue

(* Compaction: a queued key keeps its place, takes the new function and    *)
(* settles the futures of both.                                            *)
Enqueue(c) ==
  LET k == KeyOf[c] IN
  /\ Running
  /\ func' = [func EXCEPT ![k] = FuncOf(k, c)]
  /\ futures' = [futures EXCEPT ![k] = FuturesWith(k, c)]
  /\ queue' = QueueWith(k)
  /\ fut' = [fut EXCEPT ![c] = "pending"]
  /\ Goto(c, "waiting")

EnqueueRefused(c) ==
  /\ ~Running
  /\ Goto(c, "failed")
  /\ UNCHANGED <<queueVars, fut>>

Call(c) ==
  /\ pc[c] = "idle"
  /\ issued' = issued + 1
  /\ version' = [version EXCEPT ![c] = issued + 1]
  /\ \/ c \notin Forgets /\ (Enqueue(c) \/ EnqueueRefused(c))
     \/ c \in Forgets /\ Running
        /\ Goto(c, "scheduled")
        /\ UNCHANGED <<queueVars, fut>>
     \/ c \in Forgets /\ EnqueueRefused(c)
  /\ UNCHANGED <<workerVars, stage, tries, newest>>

(* The background task runs for the first time; the loop starts tasks in   *)
(* the order they were created.                                            *)
Submit(c) ==
  /\ pc[c] = "scheduled"
  /\ \A d \in Calls : pc[d] = "scheduled" => version[c] <= version[d]
  /\ Enqueue(c) \/ EnqueueRefused(c)
  /\ UNCHANGED <<workerVars, stage, callVars, newest>>

OneTooMany(c) == c \in Forgets /\ tries[c] <= MaxRetries
  \* a fault, for the checks only

RetriesLeft(c) == c \in Forgets /\ tries[c] < MaxRetries

(* The future the caller awaits is settled.                                *)
Resume(c) ==
  /\ pc[c] = "waiting"
  /\ \/ fut[c] = "done" /\ Goto(c, "succeeded") /\ UNCHANGED tries
     \/ fut[c] = "cancelled" /\ Goto(c, "cancelled") /\ UNCHANGED tries
     \/ /\ fut[c] = "transient" /\ RetriesLeft(c)
        /\ Goto(c, "backoff")
        /\ tries' = [tries EXCEPT ![c] = @ + 1]
     \/ /\ fut[c] = "fatal" \/ (fut[c] = "transient" /\ ~RetriesLeft(c))
        /\ Goto(c, "failed")
        /\ UNCHANGED tries
  /\ UNCHANGED <<queueVars, workerVars, stage, fut, version, issued, newest>>

Retry(c) ==
  /\ pc[c] = "backoff"
  /\ Enqueue(c) \/ EnqueueRefused(c)
  /\ UNCHANGED <<workerVars, stage, callVars, newest>>

Settled(calls, outcome) ==
  [c \in Calls |-> IF c \in calls /\ fut[c] = "pending" THEN outcome ELSE fut[c]]

(* The awaiting task is cancelled and with it the future; the function     *)
(* stays queued.                                                           *)
CallerCancelled(c) ==
  /\ c \notin Forgets /\ pc[c] = "waiting"
  /\ fut' = Settled({c}, "cancelled")
  /\ Goto(c, "cancelled")
  /\ UNCHANGED <<queueVars, workerVars, stage, callVars, newest>>

------------------------------------------------------------------------------
(* The worker                                                              *)

Start ==
  /\ stage = "open" /\ at = "off"
  /\ at' = "idle"
  /\ UNCHANGED <<queueVars, job, paused, stage, fut, pc, callVars, newest>>

StraightToQuota == "quota"  \* a fault, for the checks only

FirstWait == IF paused THEN "paused" ELSE "quota"

Take ==
  /\ stage = "open" /\ at = "idle" /\ queue # <<>>
  /\ LET k == Head(queue) IN
       /\ job' = [key |-> k, func |-> func[k], futures |-> futures[k]]
       /\ func' = [func EXCEPT ![k] = None]
       /\ futures' = [futures EXCEPT ![k] = {}]
  /\ queue' = Tail(queue)
  /\ at' = FirstWait
  /\ UNCHANGED <<paused, stage, fut, pc, callVars, newest>>

PauseElapses ==
  /\ paused
  /\ paused' = FALSE
  /\ UNCHANGED <<queueVars, at, job, stage, fut, pc, callVars, newest>>

PauseOver ==
  /\ stage = "open" /\ at = "paused" /\ ~paused
  /\ at' = "quota"
  /\ UNCHANGED <<queueVars, job, paused, stage, fut, pc, callVars, newest>>

StartOperation ==
  /\ stage = "open" /\ at = "quota"
  /\ at' = "running"
  /\ newest' = [newest EXCEPT ![job.key] =
                  IF version[job.func] > @ THEN version[job.func] ELSE @]
  /\ UNCHANGED <<queueVars, job, paused, stage, fut, pc, callVars>>

Done == "done"  \* a fault, for the checks only

NextLocation == IF stage = "open" THEN "idle" ELSE "done"

EndJob(outcome) ==
  /\ fut' = Settled(job.futures, outcome)
  /\ job' = NoJob
  /\ UNCHANGED <<queueVars, stage, pc, callVars, newest>>

(* An operation that shutdown cancelled may still complete.                *)
OperationEnds ==
  /\ at = "running"
  /\ \E outcome \in {"done", "transient", "fatal"} : EndJob(outcome)
  /\ at' = IF stage = "open" THEN "idle" ELSE "done"
  /\ UNCHANGED paused

Flood ==
  /\ at = "running"
  /\ EndJob("fatal")
  /\ at' = IF stage = "open" THEN "idle" ELSE "done"
  /\ paused' = TRUE

OperationCancelled ==
  /\ at = "running"
  /\ EndJob("cancelled")
  /\ at' = NextLocation
  /\ UNCHANGED paused

(* The cancellation by shutdown reaches a worker that waits.               *)
WorkerCancelled ==
  /\ stage # "open" /\ at \in {"idle", "paused", "quota"}
  /\ EndJob("cancelled")
  /\ at' = "done"
  /\ UNCHANGED paused

------------------------------------------------------------------------------
(* Shutdown                                                                *)

QueuedOnly == UNION {futures[k] : k \in Keys}  \* a fault, for the checks only

Unsettled == (UNION {futures[k] : k \in Keys}) \union job.futures

Shutdown ==
  /\ stage \in {"open", "timedOut"}
  /\ stage' = "draining"
  /\ queue' = <<>>
  /\ func' = [k \in Keys |-> None]
  /\ futures' = [k \in Keys |-> {}]
  /\ fut' = Settled(Unsettled, "cancelled")
  /\ UNCHANGED <<workerVars, pc, callVars, newest>>

Awaiting == {c \in Forgets : pc[c] = "waiting"}  \* a fault, for the checks only

BackgroundTasks == {c \in Forgets : pc[c] \in {"scheduled", "waiting", "backoff"}}

CancelBackground ==
  pc' = [c \in Calls |-> IF c \in BackgroundTasks THEN "cancelled" ELSE pc[c]]

Drained ==
  /\ stage = "draining" /\ at \in {"off", "done"}
  /\ stage' = "stopped"
  /\ CancelBackground
  /\ UNCHANGED <<queueVars, workerVars, fut, callVars, newest>>

DrainTimesOut ==
  /\ stage = "draining" /\ at \notin {"off", "done"}
  /\ stage' = "timedOut"
  /\ CancelBackground
  /\ UNCHANGED <<queueVars, workerVars, fut, callVars, newest>>

------------------------------------------------------------------------------
CallStep(c) == Submit(c) \/ Resume(c) \/ Retry(c)

OperationStep == OperationEnds \/ Flood \/ OperationCancelled

Next ==
  \/ \E c \in Calls : Call(c) \/ CallStep(c) \/ CallerCancelled(c)
  \/ Start \/ Take \/ PauseElapses \/ PauseOver \/ StartOperation
  \/ OperationStep \/ WorkerCancelled
  \/ Shutdown \/ Drained \/ DrainTimesOut

Spec == Init /\ [][Next]_vars

(* Ready tasks run, timers fire, the window admits (SlidingWindow) and the *)
(* platform clients answer or time out.                                    *)
FairSpec ==
  /\ Spec
  /\ \A c \in Calls : WF_vars(CallStep(c))
  /\ WF_vars(Take) /\ WF_vars(PauseElapses) /\ WF_vars(PauseOver)
  /\ WF_vars(StartOperation) /\ WF_vars(OperationStep)
  /\ WF_vars(WorkerCancelled) /\ WF_vars(Drained)

------------------------------------------------------------------------------
TypeOK ==
  /\ queue \in Seq(Keys)
  /\ func \in [Keys -> Calls \union {None}]
  /\ futures \in [Keys -> SUBSET Calls]
  /\ at \in {"off", "idle", "paused", "quota", "running", "done"}
  /\ IF at \in {"paused", "quota", "running"} THEN job \in Jobs ELSE job = NoJob
  /\ paused \in BOOLEAN
  /\ stage \in {"open", "draining", "timedOut", "stopped"}
  /\ fut \in [Calls -> {"none", "pending", "done", "transient", "fatal",
                        "cancelled"}]
  /\ pc \in [Calls -> {"idle", "scheduled", "waiting", "backoff", "succeeded",
                       "failed", "cancelled"}]
  /\ tries \in [Calls -> 0 .. MaxRetries]
  /\ version \in [Calls -> Nat] /\ issued \in Nat
  /\ newest \in [Keys -> Nat]

(* The list of keys and the map hold the same work, each key once: nothing *)
(* is queued that the worker will not find, and nothing is sent twice.     *)
QueueMatchesMap ==
  /\ \A k \in Keys : func[k] # None <=> \E i \in 1 .. Len(queue) : queue[i] = k
  /\ \A i, j \in 1 .. Len(queue) : queue[i] = queue[j] => i = j

(* A future somebody may be waiting on is in the queue or with the worker: *)
(* compaction, a retry and shutdown drop none.                             *)
NoFutureForgotten ==
  \A c \in Calls : fut[c] = "pending" =>
    \/ c \in futures[KeyOf[c]] /\ func[KeyOf[c]] # None
    \/ c \in job.futures

(* From the moment shutdown begins nobody waits on a future, though the    *)
(* operation in flight may go on until the drain times out.                *)
ShutdownSettles == stage # "open" => \A c \in Calls : fut[c] # "pending"

InProgress(c) == pc[c] \in {"scheduled", "waiting", "backoff"}

(* Shutdown leaves no background task behind, not even one that sleeps     *)
(* between two tries or whose drain timed out.                             *)
NoBackgroundLeft ==
  stage \in {"timedOut", "stopped"} => \A c \in Forgets : ~InProgress(c)

(* Nobody waits on what was shut down, and nothing of it is left.          *)
ShutdownSound == ShutdownSettles /\ NoBackgroundLeft

(* While a flood wait lasts the worker sends nothing.                      *)
FloodRespected == paused => at \notin {"quota", "running"}

(* "only the latest version of a message update is processed": the         *)
(* function that runs is not older than one of its key that ran before,    *)
(* nor than a call whose future it settles.                                *)
LatestVersionWins ==
  at = "running" =>
    /\ version[job.func] >= newest[job.key]
    /\ \A c \in job.futures : version[job.func] >= version[c]

Ended(c) == pc[c] \in {"succeeded", "failed", "cancelled"}

(* Whoever calls gets an answer: a result, an error or a cancellation.     *)
EveryCallEnds == \A c \in Calls : InProgress(c) ~> Ended(c)
==============================================================================
