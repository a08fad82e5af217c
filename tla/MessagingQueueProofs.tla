------------------------ MODULE MessagingQueueProofs ------------------------
(***************************************************************************)
(* Proofs about MessagingQueue: for any calls, keys and number of retries  *)
(* the queue stays consistent, loses no future and shuts down completely.  *)
(***************************************************************************)
EXTENDS MessagingQueue, TLAPS

Busy == at \in {"paused", "quota", "running"}

(* What the queue holds for a key belongs to calls of that key, and a key  *)
(* out of the queue has no futures.                                        *)
BatchInv ==
  \A k \in Keys :
    /\ func[k] = None => futures[k] = {}
    /\ \A c \in futures[k] : KeyOf[c] = k

QInv ==
  /\ TypeOK /\ QueueMatchesMap /\ BatchInv /\ NoFutureForgotten
  /\ ShutdownSettles /\ NoBackgroundLeft /\ FloodRespected

LEMMA InitInv == Init => QInv
<1> SUFFICES ASSUME Init PROVE QInv
  OBVIOUS
<1> USE CallAssumption, RetryAssumption DEF Init
<1>1. TypeOK
  <2>1. queue \in Seq(Keys) /\ tries \in [Calls -> 0 .. MaxRetries]
    OBVIOUS
  <2>2. job = NoJob /\ at = "off"
    OBVIOUS
  <2>3. /\ func \in [Keys -> Calls \union {None}]
        /\ futures \in [Keys -> SUBSET Calls]
        /\ version \in [Calls -> Nat] /\ issued \in Nat /\ newest \in [Keys -> Nat]
    OBVIOUS
  <2>4. /\ paused \in BOOLEAN /\ stage = "open"
        /\ fut \in [Calls -> {"none", "pending", "done", "transient", "fatal",
                              "cancelled"}]
        /\ pc \in [Calls -> {"idle", "scheduled", "waiting", "backoff", "succeeded",
                             "failed", "cancelled"}]
    OBVIOUS
  <2> QED
    BY <2>1, <2>2, <2>3, <2>4 DEF TypeOK
<1>2. QueueMatchesMap /\ BatchInv
  BY DEF QueueMatchesMap, BatchInv
<1>3. NoFutureForgotten /\ ShutdownSettles /\ NoBackgroundLeft /\ FloodRespected
  BY DEF NoFutureForgotten, ShutdownSettles, NoBackgroundLeft, FloodRespected
<1> QED
  BY <1>1, <1>2, <1>3 DEF QInv

------------------------------------------------------------------------------
(* Appending a key that is not queued, and removing the first.             *)
LEMMA AppendKeeps ==
  ASSUME NEW q \in Seq(Keys), NEW k \in Keys,
         \A i \in 1 .. Len(q) : q[i] # k,
         \A i, j \in 1 .. Len(q) : q[i] = q[j] => i = j
  PROVE  /\ Append(q, k) \in Seq(Keys)
         /\ \A i, j \in 1 .. Len(Append(q, k)) :
              Append(q, k)[i] = Append(q, k)[j] => i = j
         /\ \A x \in Keys : (\E i \in 1 .. Len(Append(q, k)) : Append(q, k)[i] = x)
                            <=> (x = k \/ \E i \in 1 .. Len(q) : q[i] = x)
<1> DEFINE a == Append(q, k)
<1>1. /\ a \in Seq(Keys) /\ Len(a) = Len(q) + 1 /\ a[Len(q) + 1] = k
      /\ \A i \in 1 .. Len(q) : a[i] = q[i]
  OBVIOUS
<1>2. \A i \in 1 .. Len(a) : i \in 1 .. Len(q) \/ i = Len(q) + 1
  BY <1>1
<1>3. Len(q) + 1 \in 1 .. Len(a) /\ \A i \in 1 .. Len(q) : i \in 1 .. Len(a)
  BY <1>1
<1> HIDE DEF a
<1>4. \A i, j \in 1 .. Len(a) : a[i] = a[j] => i = j
  BY <1>1, <1>2
<1>5. \A x \in Keys : (\E i \in 1 .. Len(a) : a[i] = x)
                      <=> (x = k \/ \E i \in 1 .. Len(q) : q[i] = x)
  BY <1>1, <1>2, <1>3
<1> QED
  BY <1>1, <1>4, <1>5 DEF a

LEMMA TailKeeps ==
  ASSUME NEW q \in Seq(Keys), q # <<>>,
         \A i, j \in 1 .. Len(q) : q[i] = q[j] => i = j
  PROVE  /\ Tail(q) \in Seq(Keys) /\ Head(q) \in Keys
         /\ \E i \in 1 .. Len(q) : q[i] = Head(q)
         /\ \A i, j \in 1 .. Len(Tail(q)) : Tail(q)[i] = Tail(q)[j] => i = j
         /\ \A x \in Keys : (\E i \in 1 .. Len(Tail(q)) : Tail(q)[i] = x)
                            <=> (x # Head(q) /\ \E i \in 1 .. Len(q) : q[i] = x)
<1> DEFINE t == Tail(q)
<1>1. /\ t \in Seq(Keys) /\ Len(t) = Len(q) - 1 /\ Head(q) = q[1] /\ q[1] \in Keys
      /\ Len(q) \in Nat /\ Len(q) > 0
      /\ \A i \in 1 .. Len(t) : t[i] = q[i + 1]
  OBVIOUS
<1>2. \A i \in 1 .. Len(t) : i + 1 \in 1 .. Len(q) /\ i + 1 # 1
  BY <1>1
<1>3. \A i \in 1 .. Len(q) : i # 1 => i - 1 \in 1 .. Len(t) /\ (i - 1) + 1 = i
  BY <1>1
<1>4. 1 \in 1 .. Len(q)
  BY <1>1
<1> HIDE DEF t
<1>5. \A i, j \in 1 .. Len(t) : t[i] = t[j] => i = j
  <2> SUFFICES ASSUME NEW i \in 1 .. Len(t), NEW j \in 1 .. Len(t), t[i] = t[j]
               PROVE  i = j
    OBVIOUS
  <2>1. i + 1 = j + 1
    BY <1>1, <1>2
  <2> QED
    BY <2>1
<1>6. ASSUME NEW x \in Keys
      PROVE  (\E i \in 1 .. Len(t) : t[i] = x)
             <=> (x # Head(q) /\ \E i \in 1 .. Len(q) : q[i] = x)
  <2>1. ASSUME NEW i \in 1 .. Len(t), t[i] = x
        PROVE  x # Head(q) /\ \E j \in 1 .. Len(q) : q[j] = x
    <3>1. q[i + 1] = x /\ i + 1 \in 1 .. Len(q) /\ i + 1 # 1
      BY <2>1, <1>1, <1>2
    <3> QED
      BY <3>1, <1>1, <1>4
  <2>2. ASSUME x # Head(q), NEW i \in 1 .. Len(q), q[i] = x
        PROVE  \E j \in 1 .. Len(t) : t[j] = x
    <3>1. i # 1
      BY <2>2, <1>1
    <3>2. t[i - 1] = q[(i - 1) + 1]
      BY <3>1, <1>1, <1>3
    <3> QED
      BY <2>2, <3>1, <3>2, <1>3
  <2> QED
    BY <2>1, <2>2
<1> QED
  BY <1>1, <1>4, <1>5, <1>6 DEF t

------------------------------------------------------------------------------
(* What Enqueue does to the queue, whoever calls it.                       *)
LEMMA EnqueueKeeps ==
  ASSUME QInv, NEW c \in Calls, Enqueue(c),
         UNCHANGED <<at, job, paused, stage>>,
         tries' \in [Calls -> 0 .. MaxRetries],
         version' \in [Calls -> Nat], issued' \in Nat, newest' \in [Keys -> Nat]
  PROVE  QInv'
<1> USE CallAssumption, RetryAssumption
<1> DEFINE k == KeyOf[c]
<1>0. k \in Keys
  OBVIOUS
<1>1. /\ stage = "open" /\ at \notin {"off", "done"}
      /\ func' = [func EXCEPT ![k] = c]
      /\ futures' = [futures EXCEPT ![k] = futures[k] \union {c}]
      /\ queue' = IF func[k] = None THEN Append(queue, k) ELSE queue
      /\ fut' = [fut EXCEPT ![c] = "pending"]
      /\ pc' = [pc EXCEPT ![c] = "waiting"]
  BY DEF Enqueue, Running, FuncOf, FuturesWith, QueueWith, Goto
<1> HIDE DEF k
<1>2. queue' \in Seq(Keys) /\ QueueMatchesMap'
  <2>1. CASE func[k] = None
    <3>1. /\ queue' = Append(queue, k) /\ queue' \in Seq(Keys)
          /\ \A i, j \in 1 .. Len(queue') : queue'[i] = queue'[j] => i = j
          /\ \A x \in Keys : (\E i \in 1 .. Len(queue') : queue'[i] = x)
                             <=> (x = k \/ \E i \in 1 .. Len(queue) : queue[i] = x)
      <4>1. \A i \in 1 .. Len(queue) : queue[i] # k
        BY <1>0, <2>1 DEF QInv, QueueMatchesMap
      <4>2. /\ queue \in Seq(Keys)
            /\ \A i, j \in 1 .. Len(queue) : queue[i] = queue[j] => i = j
        BY DEF QInv, QueueMatchesMap, TypeOK
      <4>3. queue' = Append(queue, k)
        BY <1>1, <2>1
      <4> QED
        BY ONLY <1>0, <4>1, <4>2, <4>3, AppendKeeps
    <3>2. \A x \in Keys : func'[x] # None <=> (x = k \/ func[x] # None)
      BY <1>1 DEF QInv, TypeOK
    <3> QED
      BY <3>1, <3>2 DEF QInv, QueueMatchesMap
  <2>2. CASE func[k] # None
    <3>1. queue' = queue
      BY <1>1, <2>2
    <3>2. \A x \in Keys : func'[x] # None <=> func[x] # None
      BY <1>1, <2>2 DEF QInv, TypeOK
    <3> QED
      BY <3>1, <3>2 DEF QInv, QueueMatchesMap, TypeOK
  <2> QED
    BY <2>1, <2>2
<1>3. TypeOK'
  BY <1>0, <1>1, <1>2 DEF QInv, TypeOK, Jobs, NoJob
<1>4. BatchInv'
  BY <1>0, <1>1 DEF QInv, TypeOK, BatchInv, k
<1>5. NoFutureForgotten'
  <2> SUFFICES ASSUME NEW d \in Calls, fut'[d] = "pending"
               PROVE  \/ d \in futures'[KeyOf[d]] /\ func'[KeyOf[d]] # None
                      \/ d \in job'.futures
    BY DEF NoFutureForgotten
  <2>1. CASE d = c
    BY <1>0, <1>1, <2>1 DEF QInv, TypeOK, k
  <2>2. CASE d # c
    <3>1. fut[d] = "pending"
      BY <1>1, <2>2 DEF QInv, TypeOK
    <3>2. \/ d \in futures[KeyOf[d]] /\ func[KeyOf[d]] # None
          \/ d \in job.futures
      BY <3>1 DEF QInv, NoFutureForgotten
    <3> QED
      BY <1>0, <1>1, <3>2 DEF QInv, TypeOK
  <2> QED
    BY <2>1, <2>2
<1>6. ShutdownSettles' /\ NoBackgroundLeft' /\ FloodRespected'
  BY <1>1 DEF QInv, ShutdownSettles, NoBackgroundLeft, FloodRespected
<1> QED
  BY <1>2, <1>3, <1>4, <1>5, <1>6 DEF QInv

(* A caller moves without touching the queue or any future.                *)
LEMMA CallerMoves ==
  ASSUME QInv, NEW c \in Calls, NEW location,
         location \in {"idle", "scheduled", "backoff", "succeeded", "failed",
                       "cancelled"},
         location \in {"scheduled", "backoff"} =>
           stage \notin {"timedOut", "stopped"} \/ c \notin Forgets,
         Goto(c, location),
         UNCHANGED <<queueVars, workerVars, stage, fut>>,
         tries' \in [Calls -> 0 .. MaxRetries],
         version' \in [Calls -> Nat], issued' \in Nat, newest' \in [Keys -> Nat]
  PROVE  QInv'
<1> USE CallAssumption, RetryAssumption DEF queueVars, workerVars, Goto
<1>1. TypeOK'
  BY DEF QInv, TypeOK
<1>2. QueueMatchesMap' /\ BatchInv' /\ NoFutureForgotten' /\ ShutdownSettles'
      /\ FloodRespected'
  BY DEF QInv, QueueMatchesMap, BatchInv, NoFutureForgotten, ShutdownSettles,
         FloodRespected
<1>3. NoBackgroundLeft'
  BY DEF QInv, TypeOK, NoBackgroundLeft, InProgress
<1> QED
  BY <1>1, <1>2, <1>3 DEF QInv

LEMMA CallInv == ASSUME QInv, NEW c \in Calls, Call(c) PROVE QInv'
<1> USE CallAssumption
<1>1. /\ tries' \in [Calls -> 0 .. MaxRetries]
      /\ version' \in [Calls -> Nat] /\ issued' \in Nat /\ newest' \in [Keys -> Nat]
  BY DEF QInv, TypeOK, Call
<1>2. CASE Enqueue(c)
  BY <1>1, <1>2, EnqueueKeeps DEF Call, workerVars
<1>3. CASE EnqueueRefused(c)
  BY <1>1, <1>3, CallerMoves DEF Call, EnqueueRefused
<1>4. CASE Running /\ Goto(c, "scheduled") /\ UNCHANGED <<queueVars, fut>>
  <2>1. stage = "open"
    BY <1>4 DEF Running
  <2> QED
    BY <1>1, <1>4, <2>1, CallerMoves DEF Call
<1> QED
  BY <1>2, <1>3, <1>4 DEF Call

LEMMA SubmitInv ==
  ASSUME QInv, NEW c \in Calls, Submit(c) \/ Retry(c) PROVE QInv'
<1>1. /\ tries' \in [Calls -> 0 .. MaxRetries]
      /\ version' \in [Calls -> Nat] /\ issued' \in Nat /\ newest' \in [Keys -> Nat]
  BY DEF QInv, TypeOK, Submit, Retry, callVars
<1>2. CASE Enqueue(c)
  BY <1>1, <1>2, EnqueueKeeps DEF Submit, Retry, workerVars
<1>3. CASE EnqueueRefused(c)
  BY <1>1, <1>3, CallerMoves DEF Submit, Retry, EnqueueRefused
<1> QED
  BY <1>2, <1>3 DEF Submit, Retry

LEMMA ResumeInv == ASSUME QInv, NEW c \in Calls, Resume(c) PROVE QInv'
<1> USE RetryAssumption
<1>1. tries' \in [Calls -> 0 .. MaxRetries]
  BY DEF QInv, TypeOK, Resume, RetriesLeft
<1>2. version' \in [Calls -> Nat] /\ issued' \in Nat /\ newest' \in [Keys -> Nat]
  BY DEF QInv, TypeOK, Resume
<1>3. c \notin Forgets \/ stage \notin {"timedOut", "stopped"}
  BY DEF QInv, NoBackgroundLeft, InProgress, Resume
<1>4. UNCHANGED <<queueVars, workerVars, stage, fut>>
  BY DEF Resume
<1>5. \/ Goto(c, "succeeded") \/ Goto(c, "cancelled") \/ Goto(c, "failed")
      \/ Goto(c, "backoff")
  BY DEF Resume
<1> QED
  BY <1>1, <1>2, <1>3, <1>4, <1>5, CallerMoves

------------------------------------------------------------------------------
(* The function that settles some futures: nothing else changes, nothing   *)
(* becomes pending, and what it names no longer is.                        *)
LEMMA SettledFacts ==
  ASSUME TypeOK, NEW S,
         NEW outcome \in {"done", "transient", "fatal", "cancelled"},
         fut' = Settled(S, outcome)
  PROVE  /\ fut' \in [Calls -> {"none", "pending", "done", "transient", "fatal",
                                "cancelled"}]
         /\ \A c \in Calls : fut'[c] = "pending" => fut[c] = "pending" /\ c \notin S
BY DEF Settled, TypeOK

LEMMA CallerCancelledInv ==
  ASSUME QInv, NEW c \in Calls, CallerCancelled(c) PROVE QInv'
<1> USE CallAssumption, RetryAssumption
<1> DEFINE S == {c}
<1>1. fut' = Settled(S, "cancelled")
  BY DEF CallerCancelled
<1> HIDE DEF S
<1>2. /\ fut' \in [Calls -> {"none", "pending", "done", "transient", "fatal",
                              "cancelled"}]
      /\ \A d \in Calls : fut'[d] = "pending" => fut[d] = "pending"
  BY <1>1, SettledFacts DEF QInv
<1> USE DEF CallerCancelled, Goto, queueVars, workerVars, callVars
<1>3. TypeOK'
  BY <1>2 DEF QInv, TypeOK
<1>4. QueueMatchesMap' /\ BatchInv' /\ FloodRespected'
  BY DEF QInv, QueueMatchesMap, BatchInv, FloodRespected
<1>5. NoFutureForgotten' /\ ShutdownSettles'
  BY <1>2 DEF QInv, NoFutureForgotten, ShutdownSettles
<1>6. NoBackgroundLeft'
  BY DEF QInv, TypeOK, NoBackgroundLeft, InProgress
<1> QED
  BY <1>3, <1>4, <1>5, <1>6 DEF QInv

(* The worker moves between locations and drops no future it holds.        *)
LEMMA WorkerMoves ==
  ASSUME QInv, UNCHANGED <<queueVars, stage, fut, pc, callVars, job>>,
         newest' \in [Keys -> Nat], paused' \in BOOLEAN,
         at' \in {"off", "idle", "paused", "quota", "running", "done"},
         Busy' <=> Busy, FloodRespected'
  PROVE  QInv'
<1> USE DEF queueVars, callVars
<1>1. TypeOK'
  BY DEF QInv, TypeOK, Busy
<1>2. QueueMatchesMap' /\ BatchInv' /\ NoFutureForgotten' /\ ShutdownSettles'
      /\ NoBackgroundLeft'
  BY DEF QInv, QueueMatchesMap, BatchInv, NoFutureForgotten, ShutdownSettles,
         NoBackgroundLeft, InProgress
<1> QED
  BY <1>1, <1>2 DEF QInv

LEMMA TakeInv == ASSUME QInv, Take PROVE QInv'
<1> USE CallAssumption
<1> DEFINE k == Head(queue)
<1>1. /\ stage = "open" /\ at = "idle" /\ queue # <<>>
      /\ job' = [key |-> k, func |-> func[k], futures |-> futures[k]]
      /\ func' = [func EXCEPT ![k] = None]
      /\ futures' = [futures EXCEPT ![k] = {}]
      /\ queue' = Tail(queue)
      /\ at' = IF paused THEN "paused" ELSE "quota"
      /\ UNCHANGED <<paused, stage, fut, pc, tries, version, issued, newest>>
  BY DEF Take, FirstWait, callVars
<1>2. /\ queue' \in Seq(Keys) /\ k \in Keys
      /\ \E i \in 1 .. Len(queue) : queue[i] = k
      /\ \A i, j \in 1 .. Len(queue') : queue'[i] = queue'[j] => i = j
      /\ \A x \in Keys : (\E i \in 1 .. Len(queue') : queue'[i] = x)
                         <=> (x # k /\ \E i \in 1 .. Len(queue) : queue[i] = x)
  <2>1. /\ queue \in Seq(Keys) /\ queue # <<>> /\ queue' = Tail(queue)
        /\ \A i, j \in 1 .. Len(queue) : queue[i] = queue[j] => i = j
    BY <1>1 DEF QInv, TypeOK, QueueMatchesMap
  <2> QED
    BY ONLY <2>1, TailKeeps
<1> HIDE DEF k
<1>3. func[k] \in Calls
  BY <1>2 DEF QInv, TypeOK, QueueMatchesMap
<1>4. job' \in Jobs
  BY <1>1, <1>2, <1>3 DEF Jobs, QInv, TypeOK
<1>5. TypeOK'
  BY <1>1, <1>2, <1>4 DEF QInv, TypeOK
<1>6. QueueMatchesMap'
  BY <1>1, <1>2 DEF QInv, TypeOK, QueueMatchesMap
<1>7. BatchInv'
  BY <1>1, <1>2 DEF QInv, TypeOK, BatchInv
<1>8. NoFutureForgotten'
  <2> SUFFICES ASSUME NEW c \in Calls, fut[c] = "pending"
               PROVE  \/ c \in futures'[KeyOf[c]] /\ func'[KeyOf[c]] # None
                      \/ c \in job'.futures
    BY <1>1 DEF NoFutureForgotten
  <2>1. job.futures = {}
    BY <1>1 DEF QInv, TypeOK, NoJob
  <2>2. c \in futures[KeyOf[c]] /\ func[KeyOf[c]] # None
    BY <2>1 DEF QInv, NoFutureForgotten
  <2>3. CASE KeyOf[c] = k
    BY <1>1, <2>2, <2>3
  <2>4. CASE KeyOf[c] # k
    BY <1>1, <2>2, <2>4 DEF QInv, TypeOK
  <2> QED
    BY <2>3, <2>4
<1>9. ShutdownSettles' /\ NoBackgroundLeft' /\ FloodRespected'
  BY <1>1 DEF QInv, TypeOK, ShutdownSettles, NoBackgroundLeft, FloodRespected
<1> QED
  BY <1>5, <1>6, <1>7, <1>8, <1>9 DEF QInv

(* The end of a job settles its futures, so the worker may forget them.    *)
LEMMA EndJobInv ==
  ASSUME QInv, NEW outcome \in {"done", "transient", "fatal", "cancelled"},
         EndJob(outcome), at' \in {"idle", "done"}, paused' \in BOOLEAN
  PROVE  QInv'
<1> USE DEF EndJob, queueVars, callVars
<1> DEFINE S == job.futures
<1>1. fut' = Settled(S, outcome)
  OBVIOUS
<1> HIDE DEF S
<1>2. /\ fut' \in [Calls -> {"none", "pending", "done", "transient", "fatal",
                              "cancelled"}]
      /\ \A c \in Calls : fut'[c] = "pending" => fut[c] = "pending" /\ c \notin S
  BY <1>1, SettledFacts DEF QInv
<1>3. TypeOK'
  BY <1>2 DEF QInv, TypeOK
<1>4. QueueMatchesMap' /\ BatchInv' /\ FloodRespected'
  BY DEF QInv, QueueMatchesMap, BatchInv, FloodRespected
<1>5. NoFutureForgotten' /\ ShutdownSettles'
  BY <1>2 DEF QInv, NoFutureForgotten, ShutdownSettles, S
<1>6. NoBackgroundLeft'
  BY DEF QInv, NoBackgroundLeft, InProgress
<1> QED
  BY <1>3, <1>4, <1>5, <1>6 DEF QInv

------------------------------------------------------------------------------
LEMMA ShutdownInv == ASSUME QInv, Shutdown PROVE QInv'
<1> USE CallAssumption DEF Shutdown, workerVars, callVars
<1> DEFINE S == Unsettled
<1>1. fut' = Settled(S, "cancelled")
  OBVIOUS
<1>2. \A c \in Calls : fut[c] = "pending" => c \in S
  <2> SUFFICES ASSUME NEW c \in Calls, fut[c] = "pending"
               PROVE  c \in (UNION {futures[k] : k \in Keys}) \union job.futures
    BY DEF Unsettled
  <2>1. c \in futures[KeyOf[c]] \/ c \in job.futures
    BY DEF QInv, NoFutureForgotten
  <2>2. KeyOf[c] \in Keys
    OBVIOUS
  <2> QED
    BY ONLY <2>1, <2>2
<1> HIDE DEF S
<1>3. /\ fut' \in [Calls -> {"none", "pending", "done", "transient", "fatal",
                              "cancelled"}]
      /\ \A c \in Calls : fut'[c] # "pending"
  BY <1>1, <1>2, SettledFacts DEF QInv
<1>4. TypeOK'
  BY <1>3 DEF QInv, TypeOK
<1>5. QueueMatchesMap' /\ BatchInv'
  BY DEF QueueMatchesMap, BatchInv
<1>6. NoFutureForgotten' /\ ShutdownSettles' /\ NoBackgroundLeft' /\ FloodRespected'
  BY <1>3 DEF QInv, NoFutureForgotten, ShutdownSettles, NoBackgroundLeft,
              FloodRespected
<1> QED
  BY <1>4, <1>5, <1>6 DEF QInv

LEMMA ReapInv == ASSUME QInv, Drained \/ DrainTimesOut PROVE QInv'
<1> USE CallAssumption
<1>1. /\ stage' \in {"timedOut", "stopped"} /\ stage = "draining"
      /\ CancelBackground
      /\ UNCHANGED <<queueVars, workerVars, fut, callVars, newest>>
  BY DEF Drained, DrainTimesOut
<1>2. \A c \in Calls : pc'[c] = IF c \in BackgroundTasks THEN "cancelled" ELSE pc[c]
  BY <1>1 DEF CancelBackground
<1> USE DEF queueVars, workerVars, callVars
<1>3. TypeOK'
  BY <1>1 DEF CancelBackground, QInv, TypeOK
<1>4. QueueMatchesMap' /\ BatchInv' /\ FloodRespected'
  BY <1>1 DEF QInv, QueueMatchesMap, BatchInv, FloodRespected
<1>5. NoFutureForgotten' /\ ShutdownSettles'
  BY <1>1 DEF QInv, NoFutureForgotten, ShutdownSettles
<1>6. NoBackgroundLeft'
  BY <1>2 DEF NoBackgroundLeft, InProgress, BackgroundTasks
<1> QED
  BY <1>3, <1>4, <1>5, <1>6 DEF QInv

LEMMA StepInv == QInv /\ [Next]_vars => QInv'
<1> SUFFICES ASSUME QInv, [Next]_vars PROVE QInv'
  OBVIOUS
<1>1. ASSUME NEW c \in Calls, Call(c) \/ CallStep(c) \/ CallerCancelled(c)
      PROVE  QInv'
  BY <1>1, CallInv, SubmitInv, ResumeInv, CallerCancelledInv DEF CallStep
<1>2. CASE Start
  BY <1>2, WorkerMoves DEF Start, QInv, TypeOK, Busy, FloodRespected
<1>3. CASE Take
  BY <1>3, TakeInv
<1>4. CASE PauseElapses
  BY <1>4, WorkerMoves DEF PauseElapses, QInv, TypeOK, Busy, FloodRespected
<1>5. CASE PauseOver
  BY <1>5, WorkerMoves DEF PauseOver, QInv, TypeOK, Busy, FloodRespected
<1>6. CASE StartOperation
  <2>1. newest' \in [Keys -> Nat]
    BY <1>6 DEF StartOperation, QInv, TypeOK, Jobs
  <2> QED
    BY <1>6, <2>1, WorkerMoves DEF StartOperation, QInv, TypeOK, Busy, FloodRespected
<1>7. CASE OperationEnds
  BY <1>7, EndJobInv DEF OperationEnds, QInv, TypeOK
<1>8. CASE Flood
  BY <1>8, EndJobInv DEF Flood
<1>9. CASE OperationCancelled
  BY <1>9, EndJobInv DEF OperationCancelled, NextLocation, QInv, TypeOK
<1>10. CASE WorkerCancelled
  BY <1>10, EndJobInv DEF WorkerCancelled, QInv, TypeOK
<1>11. CASE Shutdown
  BY <1>11, ShutdownInv
<1>12. CASE Drained \/ DrainTimesOut
  BY <1>12, ReapInv
<1>13. CASE UNCHANGED vars
  BY <1>13 DEF vars, QInv, TypeOK, QueueMatchesMap, BatchInv, NoFutureForgotten,
     ShutdownSettles, NoBackgroundLeft, InProgress, FloodRespected
<1> QED
  BY <1>1, <1>2, <1>3, <1>4, <1>5, <1>6, <1>7, <1>8, <1>9, <1>10, <1>11, <1>12,
     <1>13 DEF Next, OperationStep

(* Every reachable state satisfies the inductive invariant.                *)
THEOREM Invariance == Spec => []QInv
BY InitInv, StepInv, PTL DEF Spec

(* The state keeps its types.                                              *)
THEOREM Typed == Spec => []TypeOK
<1>1. QInv => TypeOK
  BY DEF QInv
<1> QED
  BY Invariance, <1>1, PTL

(* The deque and the map of _enqueue_internal_multi and _worker agree.     *)
THEOREM QueueConsistent == Spec => []QueueMatchesMap
<1>1. QInv => QueueMatchesMap
  BY DEF QInv
<1> QED
  BY Invariance, <1>1, PTL

(* No pending future drops out of the queue and the worker.                *)
THEOREM FuturesKept == Spec => []NoFutureForgotten
<1>1. QInv => NoFutureForgotten
  BY DEF QInv
<1> QED
  BY Invariance, <1>1, PTL

(* Once shutdown has begun nobody waits, and once it has returned, by      *)
(* timeout or not, no background task is left.                             *)
THEOREM ShutdownComplete == Spec => []ShutdownSound
<1>1. QInv => ShutdownSound
  BY DEF QInv, ShutdownSound
<1> QED
  BY Invariance, <1>1, PTL

(* Nothing is sent during a flood wait.                                    *)
THEOREM FloodWaited == Spec => []FloodRespected
<1>1. QInv => FloodRespected
  BY DEF QInv
<1> QED
  BY Invariance, <1>1, PTL

------------------------------------------------------------------------------
(* The latest version wins when nobody retries.                            *)

Made(c) == pc[c] # "idle"

Numbered ==
  /\ \A c \in Calls : version[c] <= issued
  /\ \A k \in Keys : newest[k] <= issued

MapOrdered ==
  \A k \in Keys : func[k] # None =>
    /\ Made(func[k])
    /\ newest[k] <= version[func[k]]
    /\ \A c \in futures[k] : Made(c) /\ version[c] <= version[func[k]]

JobOrdered ==
  Busy =>
    /\ Made(job.func)
    /\ newest[job.key] <= version[job.func]
    /\ \A c \in job.futures : Made(c) /\ version[c] <= version[job.func]
    /\ func[job.key] # None => version[job.func] <= version[func[job.key]]

NoBackgroundCall == \A c \in Calls : pc[c] \notin {"scheduled", "backoff"}

VersionInv == Numbered /\ MapOrdered /\ JobOrdered /\ NoBackgroundCall

LEMMA VersionInit == Init => VersionInv
<1> SUFFICES ASSUME Init PROVE VersionInv
  OBVIOUS
<1> USE DEF Init
<1>1. /\ \A c \in Calls : version[c] <= issued
      /\ \A k \in Keys : newest[k] <= issued /\ func[k] = None
      /\ \A c \in Calls : pc[c] \notin {"scheduled", "backoff"}
      /\ ~Busy
  BY DEF Busy
<1> QED
  BY <1>1 DEF VersionInv, Numbered, MapOrdered, JobOrdered, NoBackgroundCall

(* A step that makes no call and touches neither the map nor the job.      *)
LEMMA VersionFrame ==
  ASSUME QInv, VersionInv, UNCHANGED <<func, futures, job, version, issued, newest>>,
         \A c \in Calls : Made(c) => Made(c)',
         \A c \in Calls : pc'[c] \notin {"scheduled", "backoff"},
         Busy' => Busy
  PROVE  VersionInv'
<1> USE CallAssumption
<1>1. \A k \in Keys : func[k] # None =>
        func[k] \in Calls /\ \A c \in futures[k] : c \in Calls
  BY DEF QInv, TypeOK
<1>2. Busy => job.func \in Calls /\ \A c \in job.futures : c \in Calls
  BY DEF QInv, TypeOK, Busy, Jobs
<1>3. /\ \A c \in Calls : version'[c] <= issued'
      /\ \A k \in Keys : newest'[k] <= issued'
  BY DEF VersionInv, Numbered, MapOrdered, JobOrdered, NoBackgroundCall
<1>4. \A k \in Keys : func'[k] # None =>
        /\ pc'[func'[k]] # "idle"
        /\ newest'[k] <= version'[func'[k]]
        /\ \A c \in futures'[k] : Made(c)' /\ version'[c] <= version'[func'[k]]
  BY <1>1 DEF VersionInv, Numbered, MapOrdered, JobOrdered, NoBackgroundCall, Made
<1>5. Busy' =>
        /\ pc'[job'.func] # "idle"
        /\ newest'[job'.key] <= version'[job'.func]
        /\ \A c \in job'.futures : Made(c)' /\ version'[c] <= version'[job'.func]
        /\ func'[job'.key] # None => version'[job'.func] <= version'[func'[job'.key]]
  BY <1>2 DEF VersionInv, Numbered, MapOrdered, JobOrdered, NoBackgroundCall, Made
<1> QED
  BY <1>3, <1>4, <1>5 DEF VersionInv, Numbered, MapOrdered, JobOrdered, NoBackgroundCall, Made

LEMMA VersionCall ==
  ASSUME QInv, VersionInv, NEW c \in Calls, c \notin Forgets, Call(c)
  PROVE  VersionInv'
<1> USE CallAssumption
<1> DEFINE k == KeyOf[c]
<1>1. /\ k \in Keys /\ issued \in Nat /\ issued' = issued + 1
      /\ pc[c] = "idle"
      /\ version' = [version EXCEPT ![c] = issued + 1]
      /\ version \in [Calls -> Nat] /\ newest \in [Keys -> Nat]
      /\ UNCHANGED <<at, job, newest>>
  BY DEF Call, workerVars, QInv, TypeOK
<1>2. /\ \A d \in Calls : Made(d) => d # c /\ Made(d)' /\ version'[d] = version[d]
      /\ Made(c)'
      /\ \A d \in Calls : pc'[d] \notin {"scheduled", "backoff"}
      /\ version'[c] = issued + 1
  BY <1>1 DEF Call, Enqueue, EnqueueRefused, Goto, Made, QInv, TypeOK, VersionInv, Numbered, MapOrdered, JobOrdered, NoBackgroundCall
<1>3. /\ \A d \in Calls : version'[d] <= issued'
      /\ \A x \in Keys : newest'[x] <= issued'
  <2>1. \A d \in Calls : version'[d] = version[d] \/ d = c
    BY <1>1
  <2> QED
    BY <1>1, <1>2, <2>1 DEF VersionInv, Numbered, MapOrdered, JobOrdered, NoBackgroundCall
<1>4. \A x \in Keys : \/ /\ x = k /\ func'[x] = c
                         /\ futures'[x] = futures[x] \union {c}
                      \/ func'[x] = func[x] /\ futures'[x] = futures[x]
  BY <1>1 DEF Call, Enqueue, EnqueueRefused, FuncOf, FuturesWith, queueVars, QInv,
     TypeOK
<1> HIDE DEF k
<1>5. ASSUME NEW x \in Keys, func'[x] # None
      PROVE  /\ pc'[func'[x]] # "idle"
             /\ newest'[x] <= version'[func'[x]]
             /\ \A d \in futures'[x] : Made(d)' /\ version'[d] <= version'[func'[x]]
  <2>1. CASE func'[x] = c /\ futures'[x] = futures[x] \union {c}
    <3>1. \A d \in futures[x] : d \in Calls /\ Made(d)
      BY <1>5 DEF QInv, TypeOK, BatchInv, VersionInv, Numbered, MapOrdered, JobOrdered, NoBackgroundCall
    <3>2. \A d \in futures'[x] : Made(d)' /\ d \in Calls
      BY <2>1, <3>1, <1>2
    <3> QED
      BY <1>1, <1>2, <1>3, <2>1, <3>2 DEF Made
  <2>2. CASE func'[x] = func[x] /\ futures'[x] = futures[x]
    <3>1. /\ func[x] \in Calls /\ Made(func[x])
          /\ newest[x] <= version[func[x]]
          /\ \A d \in futures[x] : /\ d \in Calls /\ Made(d)
                                   /\ version[d] <= version[func[x]]
      BY <1>5, <2>2 DEF QInv, TypeOK, VersionInv, Numbered, MapOrdered, JobOrdered, NoBackgroundCall
    <3> QED
      BY <1>1, <1>2, <2>2, <3>1 DEF Made
  <2> QED
    BY <1>4, <2>1, <2>2
<1>6. ASSUME Busy'
      PROVE  /\ pc'[job'.func] # "idle"
             /\ newest'[job'.key] <= version'[job'.func]
             /\ \A d \in job'.futures : Made(d)' /\ version'[d] <= version'[job'.func]
             /\ func'[job'.key] # None =>
                  version'[job'.func] <= version'[func'[job'.key]]
  <2>1. /\ job.func \in Calls /\ job.key \in Keys /\ job' = job
        /\ Made(job.func) /\ newest[job.key] <= version[job.func]
        /\ \A d \in job.futures : /\ d \in Calls /\ Made(d)
                                  /\ version[d] <= version[job.func]
        /\ func[job.key] # None => version[job.func] <= version[func[job.key]]
    BY <1>1, <1>6 DEF Busy, QInv, TypeOK, Jobs, VersionInv, Numbered, MapOrdered, JobOrdered, NoBackgroundCall
  <2>2. version'[job.func] = version[job.func] /\ version[job.func] <= issued
    BY <1>2, <2>1 DEF VersionInv, Numbered, MapOrdered, JobOrdered, NoBackgroundCall
  <2>3. ASSUME func'[job.key] # None
        PROVE  version'[job.func] <= version'[func'[job.key]]
    <3>1. CASE func'[job.key] = c
      BY <3>1, <1>1, <1>2, <2>1, <2>2
    <3>2. CASE func'[job.key] = func[job.key]
      <4>1. func[job.key] \in Calls /\ Made(func[job.key])
        BY <2>1, <2>3, <3>2 DEF QInv, TypeOK, VersionInv, Numbered, MapOrdered, JobOrdered, NoBackgroundCall
      <4> QED
        BY <1>2, <2>1, <2>2, <2>3, <3>2, <4>1
    <3> QED
      BY <1>4, <2>1, <3>1, <3>2
  <2> QED
    BY <1>1, <1>2, <2>1, <2>2, <2>3 DEF Made
<1> QED
  BY <1>2, <1>3, <1>5, <1>6 DEF Made, VersionInv, Numbered, MapOrdered, JobOrdered, NoBackgroundCall

LEMMA VersionTake == ASSUME QInv, VersionInv, Take PROVE VersionInv'
<1> USE CallAssumption
<1> DEFINE k == Head(queue)
<1>1. /\ k \in Keys /\ \E i \in 1 .. Len(queue) : queue[i] = k
  <2>1. /\ queue \in Seq(Keys) /\ queue # <<>>
        /\ \A i, j \in 1 .. Len(queue) : queue[i] = queue[j] => i = j
    BY DEF Take, QInv, TypeOK, QueueMatchesMap
  <2> QED
    BY ONLY <2>1, TailKeeps
<1>2. /\ job' = [key |-> k, func |-> func[k], futures |-> futures[k]]
      /\ func' = [func EXCEPT ![k] = None]
      /\ futures' = [futures EXCEPT ![k] = {}]
      /\ UNCHANGED <<pc, version, issued, newest>>
  BY DEF Take, callVars
<1> HIDE DEF k
<1>3. func[k] \in Calls /\ func[k] # None
  BY <1>1 DEF QInv, TypeOK, QueueMatchesMap
<1>4. /\ \A x \in Keys : func'[x] # None =>
           func'[x] = func[x] /\ futures'[x] = futures[x]
      /\ func'[k] = None
  BY <1>1, <1>2 DEF QInv, TypeOK
<1>5. \A x \in Keys : func'[x] # None =>
        /\ pc'[func'[x]] # "idle"
        /\ newest'[x] <= version'[func'[x]]
        /\ \A d \in futures'[x] : Made(d)' /\ version'[d] <= version'[func'[x]]
  BY <1>2, <1>4 DEF VersionInv, Numbered, MapOrdered, JobOrdered, NoBackgroundCall, Made
<1>6. /\ pc'[job'.func] # "idle"
      /\ newest'[job'.key] <= version'[job'.func]
      /\ \A d \in job'.futures : Made(d)' /\ version'[d] <= version'[job'.func]
      /\ func'[job'.key] = None
  BY <1>1, <1>2, <1>3, <1>4 DEF VersionInv, Numbered, MapOrdered, JobOrdered, NoBackgroundCall, Made
<1> QED
  BY <1>2, <1>5, <1>6 DEF VersionInv, Numbered, MapOrdered, JobOrdered, NoBackgroundCall, Made

LEMMA VersionStart == ASSUME QInv, VersionInv, StartOperation PROVE VersionInv'
<1> USE CallAssumption
<1>1. /\ job.key \in Keys /\ job.func \in Calls /\ job.futures \subseteq Calls /\ Busy
      /\ newest \in [Keys -> Nat] /\ version \in [Calls -> Nat]
      /\ UNCHANGED <<func, futures, job, pc, version, issued>>
  BY DEF StartOperation, QInv, TypeOK, Jobs, Busy, queueVars, callVars
<1>2. newest' = [newest EXCEPT ![job.key] = version[job.func]]
      \/ newest' = [newest EXCEPT ![job.key] = newest[job.key]]
  BY DEF StartOperation
<1>3. newest[job.key] <= version[job.func] /\ version[job.func] <= issued
  BY <1>1 DEF VersionInv, Numbered, MapOrdered, JobOrdered, NoBackgroundCall
<1>4. /\ \A x \in Keys : x # job.key => newest'[x] = newest[x]
      /\ newest'[job.key] = version[job.func] \/ newest'[job.key] = newest[job.key]
  BY <1>1, <1>2
<1>5. \A x \in Keys : newest'[x] <= issued'
  BY <1>1, <1>3, <1>4 DEF VersionInv, Numbered, MapOrdered, JobOrdered, NoBackgroundCall
<1>6. \A x \in Keys : func'[x] # None => newest'[x] <= version'[func'[x]]
  BY <1>1, <1>3, <1>4 DEF VersionInv, Numbered, MapOrdered, JobOrdered, NoBackgroundCall
<1>7. newest'[job'.key] <= version'[job'.func]
  BY <1>1, <1>3, <1>4
<1> QED
  BY <1>1, <1>5, <1>6, <1>7 DEF VersionInv, Numbered, MapOrdered, JobOrdered, NoBackgroundCall, Made

LEMMA VersionShutdown == ASSUME QInv, VersionInv, Shutdown PROVE VersionInv'
<1>1. /\ \A x \in Keys : func'[x] = None
      /\ UNCHANGED <<at, job, pc, version, issued, newest>>
  BY DEF Shutdown, workerVars, callVars
<1>2. Busy => job.key \in Keys
  BY DEF QInv, TypeOK, Busy, Jobs
<1> QED
  BY <1>1, <1>2 DEF VersionInv, Numbered, MapOrdered, JobOrdered, NoBackgroundCall, Made, Busy

LEMMA VersionStep ==
  Forgets = {} /\ QInv /\ VersionInv /\ [Next]_vars => VersionInv'
<1> SUFFICES ASSUME Forgets = {}, QInv, VersionInv, [Next]_vars PROVE VersionInv'
  OBVIOUS
<1>0. pc \in [Calls -> {"idle", "scheduled", "waiting", "backoff", "succeeded",
                       "failed", "cancelled"}]
  BY DEF QInv, TypeOK
<1>1. ASSUME NEW c \in Calls, Call(c) PROVE VersionInv'
  BY <1>1, VersionCall
<1>2. ASSUME NEW c \in Calls, CallStep(c) \/ CallerCancelled(c) PROVE VersionInv'
  <2>1. Resume(c) \/ CallerCancelled(c)
    BY <1>2 DEF CallStep, Submit, Retry, VersionInv, Numbered, MapOrdered, JobOrdered, NoBackgroundCall
  <2>2. /\ UNCHANGED <<func, futures, at, job, version, issued, newest>>
        /\ Goto(c, "succeeded") \/ Goto(c, "cancelled") \/ Goto(c, "failed")
    BY <2>1 DEF Resume, CallerCancelled, RetriesLeft, queueVars, workerVars, callVars
  <2>3. /\ \A d \in Calls : Made(d) => Made(d)'
        /\ \A d \in Calls : pc'[d] \notin {"scheduled", "backoff"}
    BY <1>0, <2>2 DEF Goto, Made, VersionInv, Numbered, MapOrdered, JobOrdered, NoBackgroundCall
  <2> QED
    BY <2>2, <2>3, VersionFrame DEF Busy
<1>3. CASE Take
  BY <1>3, VersionTake
<1>4. CASE StartOperation
  BY <1>4, VersionStart
<1>5. CASE Shutdown
  BY <1>5, VersionShutdown
<1>6. CASE Start \/ PauseElapses \/ PauseOver \/ UNCHANGED vars
  BY <1>6, VersionFrame
     DEF Start, PauseElapses, PauseOver, vars, Busy, Made, VersionInv, Numbered, MapOrdered, JobOrdered, NoBackgroundCall, queueVars,
         callVars
<1>7. CASE OperationStep \/ WorkerCancelled
  <2>1. /\ UNCHANGED <<func, futures, pc, version, issued, newest>>
        /\ at' \in {"idle", "done"}
    BY <1>7 DEF OperationStep, OperationEnds, Flood, OperationCancelled, NextLocation,
         WorkerCancelled, EndJob, queueVars, callVars
  <2>2. ~Busy'
    BY <2>1 DEF Busy
  <2> QED
    BY <2>1, <2>2 DEF VersionInv, Numbered, MapOrdered, JobOrdered, NoBackgroundCall, Made
<1>8. CASE Drained \/ DrainTimesOut
  <2>1. /\ UNCHANGED <<func, futures, at, job, version, issued, newest>>
        /\ pc' = [c \in Calls |-> IF c \in BackgroundTasks THEN "cancelled" ELSE pc[c]]
    BY <1>8 DEF Drained, DrainTimesOut, CancelBackground, queueVars, workerVars, callVars
  <2>2. /\ \A d \in Calls : Made(d) => Made(d)'
        /\ \A d \in Calls : pc'[d] \notin {"scheduled", "backoff"}
    BY <2>1 DEF Made, VersionInv, Numbered, MapOrdered, JobOrdered, NoBackgroundCall
  <2> QED
    BY <2>1, <2>2, VersionFrame DEF Busy
<1> QED
  BY <1>1, <1>2, <1>3, <1>4, <1>5, <1>6, <1>7, <1>8 DEF Next

(* Compaction keeps its promise as long as every call is an enqueue: no    *)
(* older version of an update runs after, or instead of, a newer one.      *)
THEOREM CompactionOrdered == Forgets = {} => (Spec => []LatestVersionWins)
<1> SUFFICES ASSUME Forgets = {} PROVE Spec => []LatestVersionWins
  OBVIOUS
<1>1. Init => QInv /\ VersionInv
  BY InitInv, VersionInit
<1>2. QInv /\ VersionInv /\ [Next]_vars => (QInv /\ VersionInv)'
  BY StepInv, VersionStep
<1>3. QInv /\ VersionInv => LatestVersionWins
  <2> SUFFICES ASSUME QInv, VersionInv, at = "running"
               PROVE  /\ version[job.func] >= newest[job.key]
                      /\ \A c \in job.futures : version[job.func] >= version[c]
    BY DEF LatestVersionWins
  <2>1. Busy /\ job.func \in Calls /\ job.key \in Keys /\ job.futures \subseteq Calls
    BY DEF Busy, QInv, TypeOK, Jobs
  <2> QED
    BY <2>1 DEF VersionInv, Numbered, MapOrdered, JobOrdered, NoBackgroundCall, QInv, TypeOK
<1> QED
  BY <1>1, <1>2, <1>3, PTL DEF Spec
==============================================================================
