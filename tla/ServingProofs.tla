---------------------------- MODULE ServingProofs ----------------------------
(***************************************************************************)
(* Theorems about one request's way through a provider and about the       *)
(* process it is served in: the strict sliding window, the opening of the  *)
(* provider's stream with its corrections, the life of the response, the   *)
(* lifecycle of the server, the runtime of a messaging platform and one    *)
(* delivery of its outbox; for every limit, any number of callers,         *)
(* openings, restarts, events, retries and failing calls.                  *)
(***************************************************************************)
EXTENDS StreamOpening, SlidingWindow, ResponseStream, ServerLifecycle, PlatformRuntime,
        PlatformDelivery, TLAPS

------------------------------------------------------------------------------
(* SlidingWindow: the deque of the limiter is a tail of the history.        *)
(* The deque is the tail of the history ...                                *)
TailInv ==
  /\ Len(times) <= Len(history)
  /\ \A i \in 1 .. Len(times) :
       times[i] = history[Len(history) - Len(times) + i]

(* ... and everything purged from it is a full window old.                 *)
PurgedInv ==
  \A i \in 1 .. Len(history) - Len(times) : history[i] + Window <= clock

WInv == TypeOK /\ TailInv /\ PurgedInv /\ StrictWindow

(* Purging k entries leaves a tail of the history whose complement is old. *)
LEMMA PurgeKeeps ==
  ASSUME WInv, NEW k \in 0 .. Len(times), Purges(k)
  PROVE  /\ KeptAfter(k) \in Seq(Nat)
         /\ Len(KeptAfter(k)) = Len(times) - k
         /\ \A i \in 1 .. Len(times) - k :
              KeptAfter(k)[i] = history[Len(history) - (Len(times) - k) + i]
         /\ \A i \in 1 .. Len(history) - (Len(times) - k) :
              history[i] + Window <= clock
<1> USE DEF WInv, TypeOK, TailInv, PurgedInv
<1>1. /\ KeptAfter(k) \in Seq(Nat)
      /\ Len(KeptAfter(k)) = Len(times) - k
      /\ \A i \in 1 .. Len(times) - k : KeptAfter(k)[i] = times[k + i]
  BY DEF KeptAfter
<1>2. ASSUME NEW i \in 1 .. Len(times) - k
      PROVE  KeptAfter(k)[i] = history[Len(history) - (Len(times) - k) + i]
  <2>1. k + i \in 1 .. Len(times)
    OBVIOUS
  <2>2. Len(history) - Len(times) + (k + i) = Len(history) - (Len(times) - k) + i
    OBVIOUS
  <2> QED
    BY <1>1, <2>1, <2>2
<1>3. ASSUME NEW i \in 1 .. Len(history) - (Len(times) - k)
      PROVE  history[i] + Window <= clock
  <2>1. CASE i <= Len(history) - Len(times)
    BY <2>1
  <2>2. CASE i > Len(history) - Len(times)
    <3> DEFINE j == i - (Len(history) - Len(times))
    <3>1. j \in 1 .. k /\ j \in 1 .. Len(times)
      BY <2>2
    <3>2. times[j] = history[i]
      BY <3>1
    <3> QED
      BY <3>1, <3>2 DEF Purges
  <2> QED
    BY <2>1, <2>2
<1> QED
  BY <1>1, <1>2, <1>3

LEMMA WindowInitInv == Init => WInv
BY LimitAssumption DEF Init, WInv, TypeOK, TailInv, PurgedInv, StrictWindow

(* A round that only purges.                                               *)
LEMMA PurgeOnly ==
  ASSUME WInv, NEW k \in 0 .. Len(times), Purges(k),
         times' = KeptAfter(k), UNCHANGED <<clock, history>>
  PROVE  /\ times' \in Seq(Nat) /\ Len(times') <= Limit
         /\ TailInv' /\ PurgedInv' /\ StrictWindow'
<1>1. /\ times' \in Seq(Nat) /\ Len(times') = Len(times) - k
      /\ \A i \in 1 .. Len(times) - k :
           times'[i] = history[Len(history) - (Len(times) - k) + i]
      /\ \A i \in 1 .. Len(history) - (Len(times) - k) :
           history[i] + Window <= clock
  BY PurgeKeeps
<1>2. Len(times) \in Nat /\ Len(history) \in Nat /\ Len(times) <= Limit
      /\ Len(times) <= Len(history)
  BY DEF WInv, TypeOK, TailInv
<1>3. Len(times') <= Limit
  BY <1>1, <1>2, LimitAssumption
<1>4. TailInv'
  BY <1>1, <1>2 DEF TailInv
<1>5. PurgedInv'
  BY <1>1, <1>2 DEF PurgedInv
<1>6. StrictWindow'
  BY DEF WInv, StrictWindow
<1> QED
  BY <1>1, <1>3, <1>4, <1>5, <1>6

LEMMA AdmitInv ==
  ASSUME WInv, NEW c \in Callers, Admit(c)
  PROVE  WInv'
<1> USE LimitAssumption, WindowAssumption, LagAssumption
<1>1. PICK k \in 0 .. Len(times), lag \in 0 .. MaxLag :
        /\ Purges(k)
        /\ Room(k)
        /\ clock' = clock + lag
        /\ times' = Append(KeptAfter(k), Stamp(clock, clock + lag))
        /\ history' = Append(history, clock + lag)
  BY DEF Admit
<1> DEFINE n == Len(history)
           m == Len(times) - k
<1>2. clock \in Nat /\ lag \in Nat /\ clock + lag \in Nat /\ clock' = clock + lag
  BY <1>1 DEF WInv, TypeOK
<1>3. /\ n \in Nat /\ m \in Nat /\ m < Limit /\ m <= n
  BY <1>1 DEF WInv, TypeOK, TailInv, Room
<1>4. /\ KeptAfter(k) \in Seq(Nat) /\ Len(KeptAfter(k)) = m
      /\ \A i \in 1 .. m : KeptAfter(k)[i] = history[n - m + i]
      /\ \A i \in 1 .. n - m : history[i] + Window <= clock
  BY <1>1, PurgeKeeps
<1>5. /\ times' \in Seq(Nat) /\ Len(times') = m + 1
      /\ \A i \in 1 .. m : times'[i] = KeptAfter(k)[i]
      /\ times'[m + 1] = clock + lag
  BY <1>1, <1>2, <1>4 DEF Stamp
<1>6. /\ history' \in Seq(Nat) /\ Len(history') = n + 1
      /\ \A i \in 1 .. n : history'[i] = history[i] /\ history[i] \in Nat
      /\ history'[n + 1] = clock + lag
  BY <1>1, <1>2 DEF WInv, TypeOK
<1>7. TypeOK'
  <2>1. pc' \in [Callers -> {"idle", "calling", "sleeping", "admitted", "refused", "cancelled"}]
    BY DEF Admit, Goto, WInv, TypeOK
  <2>2. wakeAt' \in [Callers -> Nat]
    BY DEF Admit, WInv, TypeOK
  <2>3. clock' \in Nat /\ Len(times') <= Limit
    BY <1>2, <1>3, <1>5
  <2> QED
    BY <2>1, <2>2, <2>3, <1>5, <1>6 DEF TypeOK
<1>8. TailInv'
  <2>1. ASSUME NEW i \in 1 .. m + 1
        PROVE  times'[i] = history'[n + 1 - (m + 1) + i]
    <3>1. CASE i = m + 1
      <4>1. n + 1 - (m + 1) + i = n + 1
        BY <3>1, <1>3
      <4> QED
        BY <3>1, <4>1, <1>5, <1>6
    <3>2. CASE i # m + 1
      <4>1. i \in 1 .. m /\ n - m + i \in 1 .. n /\ n + 1 - (m + 1) + i = n - m + i
        BY <3>2, <1>3
      <4> QED
        BY <4>1, <1>4, <1>5, <1>6
    <3> QED
      BY <3>1, <3>2
  <2> QED
    BY <2>1, <1>3, <1>5, <1>6 DEF TailInv
<1>9. PurgedInv'
  <2>1. ASSUME NEW i \in 1 .. n - m
        PROVE  history'[i] + Window <= clock + lag
    <3>1. i \in 1 .. n /\ history'[i] = history[i] /\ history[i] \in Nat
      BY <1>3, <1>6
    <3>2. history[i] + Window <= clock
      BY <1>4
    <3> QED
      BY <3>1, <3>2, <1>2
  <2>2. Len(history') - Len(times') = n - m
    BY <1>3, <1>5, <1>6
  <2> QED
    BY <2>1, <2>2, <1>2 DEF PurgedInv
<1>10. StrictWindow'
  <2>1. ASSUME NEW i \in 1 .. n + 1, i + Limit <= n + 1
        PROVE  history'[i + Limit] >= history'[i] + Window
    <3>1. CASE i + Limit = n + 1
      <4>1. i \in 1 .. n - m /\ i \in 1 .. n
        BY <3>1, <1>3
      <4>2. history[i] + Window <= clock /\ history'[i] = history[i]
            /\ history[i] \in Nat
        BY <4>1, <1>4, <1>6
      <4>3. history'[i + Limit] = clock + lag
        BY <3>1, <1>6
      <4> HIDE DEF n, m
      <4> QED
        BY <4>2, <4>3, <1>2
    <3>2. CASE i + Limit # n + 1
      <4>1. i \in 1 .. n /\ i + Limit \in 1 .. n
        BY <2>1, <3>2, <1>3
      <4>2. /\ history'[i] = history[i]
            /\ history'[i + Limit] = history[i + Limit]
        BY <4>1, <1>6
      <4>3. history[i + Limit] >= history[i] + Window
        BY <4>1 DEF WInv, StrictWindow
      <4> QED
        BY <4>2, <4>3
    <3> QED
      BY <3>1, <3>2
  <2> QED
    BY <2>1, <1>6 DEF StrictWindow
<1> QED
  BY <1>7, <1>8, <1>9, <1>10 DEF WInv

LEMMA WindowStepInv == WInv /\ [Next]_vars => WInv'
<1> SUFFICES ASSUME WInv, [Next]_vars PROVE WInv'
  OBVIOUS
<1> USE LimitAssumption, WindowAssumption, LagAssumption
<1>1. ASSUME NEW c \in Callers, Call(c) PROVE WInv'
  BY <1>1 DEF Call, Goto, WInv, TypeOK, TailInv, PurgedInv, StrictWindow
<1>2. ASSUME NEW c \in Callers, Admit(c) PROVE WInv'
  BY <1>2, AdmitInv
<1>3. ASSUME NEW c \in Callers, Refuse(c) PROVE WInv'
  BY <1>3, PurgeOnly DEF Refuse, Goto, WInv, TypeOK
<1>4. ASSUME NEW c \in Callers, Sleep(c) PROVE WInv'
  <2>1. PICK k \in 0 .. Len(times) :
          /\ Purges(k) /\ ~Room(k)
          /\ times' = KeptAfter(k)
          /\ wakeAt' = [wakeAt EXCEPT ![c] = times[k + 1] + Window]
    BY <1>4 DEF Sleep
  <2>2. k + 1 \in 1 .. Len(times)
    BY <2>1 DEF Room, WInv, TypeOK
  <2>3. wakeAt' \in [Callers -> Nat]
    BY <2>1, <2>2 DEF WInv, TypeOK
  <2> QED
    BY <1>4, <2>1, <2>3, PurgeOnly DEF Sleep, Goto, WInv, TypeOK
<1>5. ASSUME NEW c \in Callers, Wake(c) \/ Cancel(c) PROVE WInv'
  BY <1>5 DEF Wake, Cancel, Goto, WInv, TypeOK, TailInv, PurgedInv, StrictWindow
<1>6. CASE Tick
  BY <1>6 DEF Tick, WInv, TypeOK, TailInv, PurgedInv, StrictWindow
<1>7. CASE UNCHANGED vars
  BY <1>7 DEF vars, WInv, TypeOK, TailInv, PurgedInv, StrictWindow
<1> QED
  BY <1>1, <1>2, <1>3, <1>4, <1>5, <1>6, <1>7 DEF Next, Round

(* The deque never grows past rate_limit.                                  *)
THEOREM WindowTyped == Spec => []TypeOK
<1>1. WInv => TypeOK
  BY DEF WInv
<1> QED
  BY WindowInitInv, WindowStepInv, <1>1, PTL DEF Spec

(* StrictSlidingWindowLimiter keeps the guarantee its docstring states.    *)
THEOREM WindowBounded == Spec => []StrictWindow
<1>1. WInv => StrictWindow
  BY DEF WInv
<1> QED
  BY WindowInitInv, WindowStepInv, <1>1, PTL DEF Spec

------------------------------------------------------------------------------
(* StreamOpening: who holds the attempt and the stream at each place.       *)
(* Who holds an attempt, and who has a stream.                             *)
Retained(o) ==
  /\ openPc[o] \in {"ready", "opening"} =>
        openStream[o] \notin {"open", "left"} /\ openAttempt[o] # "held"
  /\ openPc[o] = "failed" =>
        openStream[o] # "open" /\ (openAttempt[o] = "held" => openStream[o] = "left")
  /\ openPc[o] \in {"creating", "correcting", "qualifying", "again", "failing", "opened"} =>
        openAttempt[o] = "held"
  /\ openPc[o] = "creating" => openStream[o] # "open"
  /\ openStream[o] = "left" => openPc[o] = "failed"
  /\ openPc[o] = "opened" => openStream[o] = "open"

OpeningInv == OpeningTypeOK /\ \A o \in Openings : Retained(o)

LEMMA BodyUnchanged ==
  ASSUME NEW b \in Bodies
  PROVE  /\ ~b.usage => WithoutUsage(b) = b
         /\ ~b.template /\ b.kwargs = "none" => WithoutTemplate(b) = b
         /\ ~b.replay => WithoutReplay(b) = b
         /\ ~b.effort /\ ~b.replay => WithoutReasoning(b) = b
BY DEF Bodies, WithoutUsage, WithoutTemplate, WithoutReplay, WithoutReasoning

LEMMA BodiesCorrected ==
  ASSUME NEW b \in Bodies
  PROVE  /\ WithoutUsage(b) \in Bodies /\ WithoutBudget(b) \in Bodies
         /\ WithoutTemplate(b) \in Bodies /\ WithoutReplay(b) \in Bodies
         /\ WithoutReasoning(b) \in Bodies
         /\ \A cap \in 0 .. MaxTokens : Clamped(b, cap) \in Bodies
BY OpeningAssumption
DEF Bodies, WithoutUsage, WithoutBudget, WithoutTemplate, WithoutReplay, WithoutReasoning, Clamped

LEMMA CorrectedBody ==
  ASSUME NEW b \in Bodies, NEW refused
  PROVE  Corrected(b, refused) \in Bodies
BY BodiesCorrected DEF Corrected

(* A correction that changes a request makes it ask for less.              *)
LEMMA Lighter ==
  ASSUME NEW b \in Bodies
  PROVE  /\ WithoutUsage(b) # b => Weight(WithoutUsage(b)) < Weight(b)
         /\ WithoutBudget(b) # b => Weight(WithoutBudget(b)) < Weight(b)
         /\ WithoutTemplate(b) # b => Weight(WithoutTemplate(b)) < Weight(b)
         /\ WithoutReplay(b) # b => Weight(WithoutReplay(b)) < Weight(b)
         /\ WithoutReasoning(b) # b => Weight(WithoutReasoning(b)) < Weight(b)
         /\ \A cap \in 0 .. MaxTokens : Clamped(b, cap) # b => Weight(Clamped(b, cap)) < Weight(b)
<1> USE OpeningAssumption, BodyUnchanged DEF Bodies, Weight
<1>1. WithoutUsage(b) # b => Weight(WithoutUsage(b)) < Weight(b)
  BY DEF WithoutUsage
<1>2. WithoutBudget(b) # b => Weight(WithoutBudget(b)) < Weight(b)
  BY DEF WithoutBudget
<1>3. WithoutTemplate(b) # b => Weight(WithoutTemplate(b)) < Weight(b)
  <2>1. b.tokens \in Nat
    OBVIOUS
  <2>2. LET w == WithoutTemplate(b)
        IN  /\ w.tokens = b.tokens /\ w.usage = b.usage /\ w.effort = b.effort
            /\ w.replay = b.replay /\ ~w.template /\ w.kwargs = "none"
    BY DEF WithoutTemplate
  <2>3. CASE b.template
    BY <2>1, <2>2, <2>3
  <2>4. CASE ~b.template /\ b.kwargs # "none"
    BY <2>1, <2>2, <2>4
  <2> QED
    BY <2>3, <2>4
<1>4. WithoutReplay(b) # b => Weight(WithoutReplay(b)) < Weight(b)
  BY DEF WithoutReplay
<1>5. WithoutReasoning(b) # b => Weight(WithoutReasoning(b)) < Weight(b)
  <2>1. b.tokens \in Nat
    OBVIOUS
  <2>2. LET w == WithoutReasoning(b)
        IN  /\ w.tokens = b.tokens /\ w.usage = b.usage /\ w.template = b.template
            /\ w.kwargs = b.kwargs /\ ~w.effort /\ ~w.replay
    BY DEF WithoutReasoning
  <2>3. CASE b.effort
    BY <2>1, <2>2, <2>3
  <2>4. CASE ~b.effort /\ b.replay
    BY <2>1, <2>2, <2>4
  <2> QED
    BY <2>3, <2>4
<1>6. \A cap \in 0 .. MaxTokens : Clamped(b, cap) # b => Weight(Clamped(b, cap)) < Weight(b)
  BY DEF Clamped
<1> QED
  BY <1>1, <1>2, <1>3, <1>4, <1>5, <1>6

LEMMA CorrectedLighter ==
  ASSUME NEW b \in Bodies, NEW refused, Corrected(b, refused) # b
  PROVE  Weight(Corrected(b, refused)) < Weight(b)
BY Lighter DEF Corrected

LEMMA CapLearned ==
  ASSUME OpeningTypeOK, NEW said \in Complaints
  PROVE  /\ CapAfter(said) \in 0 .. MaxTokens
         /\ learnedCap # 0 => CapAfter(said) # 0 /\ CapAfter(said) <= learnedCap
BY OpeningAssumption DEF OpeningTypeOK, Complaints, CapAfter, Lowest

LEMMA RetryLighter ==
  ASSUME OpeningTypeOK, NEW o \in Openings, NEW said \in Complaints
  PROVE  /\ NextRetry(o, said).body \in Bodies
         /\ NextRetry(o, said).kind \in {"none", "cap", "stream_usage", "provider_specific"}
         /\ NextRetry(o, said).kind # "none" =>
               Weight(NextRetry(o, said).body) < Weight(requestBody[o])
<1> DEFINE b == requestBody[o]
<1>1. b \in Bodies
  BY DEF OpeningTypeOK
<1>2. CapRetry(o, said) \in Bodies /\ (CapRetry(o, said) # b => Weight(CapRetry(o, said)) < Weight(b))
  BY <1>1, BodiesCorrected, CapLearned, Lighter DEF CapRetry
<1>3. UsageRetry(o, said) \in Bodies /\ (UsageRetry(o, said) # b => Weight(UsageRetry(o, said)) < Weight(b))
  BY <1>1, BodiesCorrected, Lighter DEF UsageRetry
<1>4. AdapterRetry(o, said) \in Bodies /\ (AdapterRetry(o, said) # b => Weight(AdapterRetry(o, said)) < Weight(b))
  BY <1>1, CorrectedBody, CorrectedLighter DEF AdapterRetry
<1> QED
  BY <1>1, <1>2, <1>3, <1>4 DEF NextRetry

LEMMA OpeningInitInv == OpeningInit => OpeningInv
BY OpeningAssumption
DEF OpeningInit, OpeningInv, OpeningTypeOK, Retained, FullBody, Bodies, Adapters, OpenPcs

(* A step of one opening leaves the others alone.                          *)
LEMMA OpeningTypesKept ==
  ASSUME OpeningInv, NEW o \in Openings, OpeningSteps(o) \/ CancelOpening(o) \/ CloseStruck(o)
  PROVE  OpeningTypeOK'
<1> USE OpeningAssumption DEF OpeningInv, OpeningTypeOK, Moves, OpenPcs
<1>1. CASE BeginOpening(o)
  BY <1>1, BodiesCorrected DEF BeginOpening
<1>2. CASE OpenAttempt(o)
  BY <1>2 DEF OpenAttempt, Claimed
<1>3. CASE AdmissionRefuses(o) \/ StreamCreated(o) \/ ViewFails(o)
  BY <1>3 DEF AdmissionRefuses, StreamCreated, ViewFails
<1>4. CASE RequestRefused(o)
  <2>1. PICK said \in Complaints :
           LET next == NextRetry(o, said)
               corrects == next.kind # "none" /\ openLeft[o] > 0
           IN  /\ learnedCap' = CapAfter(said)
               /\ usedKinds' = [usedKinds EXCEPT ![o] = @ \union ({next.kind} \ {"none", "cap"})]
               /\ requestBody' = IF ~corrects THEN requestBody
                                  ELSE [requestBody EXCEPT ![o] = next.body]
               /\ openPc' = [openPc EXCEPT ![o] = IF corrects THEN "correcting" ELSE "qualifying"]
    BY <1>4 DEF RequestRefused
  <2>2. learnedCap' \in 0 .. MaxTokens /\ NextRetry(o, said).body \in Bodies
    BY <2>1, CapLearned, RetryLighter
  <2>3. {NextRetry(o, said).kind} \ {"none", "cap"} \subseteq {"stream_usage", "provider_specific"}
    BY RetryLighter
  <2>4. usedKinds' \in [Openings -> SUBSET {"stream_usage", "provider_specific"}]
    BY <2>1, <2>3
  <2>5. requestBody' \in [Openings -> Bodies]
    BY <2>1, <2>2
  <2>6. openPc' \in [Openings -> OpenPcs]
    BY <2>1
  <2> QED
    BY <1>4, <2>2, <2>4, <2>5, <2>6 DEF RequestRefused
<1>5. CASE CorrectionNoted(o) \/ RetryDecided(o)
  BY <1>5 DEF CorrectionNoted, RetryDecided
<1>6. CASE CloseStream(o) \/ CloseAttempt(o)
  BY <1>6 DEF CloseStream, CloseAttempt, AttemptReleased
<1>7. CASE CancelOpening(o) \/ CloseStruck(o)
  BY <1>7 DEF CancelOpening, CloseStruck
<1> QED
  BY <1>1, <1>2, <1>3, <1>4, <1>5, <1>6, <1>7 DEF OpeningSteps

LEMMA OpeningOthers ==
  ASSUME OpeningInv, NEW o \in Openings, OpeningSteps(o) \/ CancelOpening(o) \/ CloseStruck(o),
         NEW q \in Openings, q # o
  PROVE  openPc'[q] = openPc[q] /\ openStream'[q] = openStream[q] /\ openAttempt'[q] = openAttempt[q]
BY DEF OpeningInv, OpeningTypeOK, OpeningSteps, Moves, BeginOpening, OpenAttempt, AdmissionRefuses,
   StreamCreated, ViewFails, RequestRefused, CorrectionNoted, RetryDecided, CloseStream, CloseAttempt,
   CancelOpening, CloseStruck

LEMMA OpeningRetained ==
  ASSUME OpeningInv, NEW o \in Openings, OpeningSteps(o) \/ CancelOpening(o) \/ CloseStruck(o)
  PROVE  Retained(o)'
BY DEF OpeningInv, OpeningTypeOK, Retained, OpeningSteps, Moves, BeginOpening, OpenAttempt,
   AdmissionRefuses, StreamCreated, ViewFails, RequestRefused, CorrectionNoted, RetryDecided,
   CloseStream, CloseAttempt, AttemptReleased, CancelOpening, CloseStruck

LEMMA OpeningStep == OpeningInv /\ [OpeningNext]_openingVars => OpeningInv'
<1> SUFFICES ASSUME OpeningInv, [OpeningNext]_openingVars PROVE OpeningInv'
  OBVIOUS
<1>1. ASSUME NEW o \in Openings, OpeningSteps(o) \/ CancelOpening(o) \/ CloseStruck(o) PROVE OpeningInv'
  <2>1. ASSUME NEW q \in Openings PROVE Retained(q)'
    <3>1. CASE q = o
      BY <1>1, <3>1, OpeningRetained
    <3>2. CASE q # o
      BY <1>1, <3>2, OpeningOthers DEF OpeningInv, Retained
    <3> QED
      BY <3>1, <3>2
  <2> QED
    BY <1>1, <2>1, OpeningTypesKept DEF OpeningInv
<1>2. CASE UNCHANGED openingVars
  BY <1>2 DEF openingVars, OpeningInv, OpeningTypeOK, Retained
<1> QED
  BY <1>1, <1>2 DEF OpeningNext

LEMMA Shrinks == OpeningInv /\ [OpeningNext]_openingVars => [CorrectionsShrink]_openingVars
<1> SUFFICES ASSUME OpeningInv, OpeningNext PROVE CorrectionsShrink
  OBVIOUS
<1>1. PICK o \in Openings : OpeningSteps(o) \/ CancelOpening(o) \/ CloseStruck(o)
  BY DEF OpeningNext
<1> USE DEF OpeningInv, Moves
<1>2. CASE RequestRefused(o)
  <2>1. PICK said \in Complaints :
           LET next == NextRetry(o, said)
               corrects == next.kind # "none" /\ openLeft[o] > 0
           IN  /\ learnedCap' = CapAfter(said)
               /\ requestBody' = IF ~corrects THEN requestBody
                                  ELSE [requestBody EXCEPT ![o] = next.body]
               /\ openPc' = [openPc EXCEPT ![o] = IF corrects THEN "correcting" ELSE "qualifying"]
    BY <1>2 DEF RequestRefused
  <2>2. learnedCap # 0 => learnedCap' # 0 /\ learnedCap' <= learnedCap
    BY <2>1, CapLearned
  <2>3. ASSUME NEW q \in Openings, openPc[q] = "creating", openPc'[q] = "correcting"
        PROVE  Weight(requestBody'[q]) < Weight(requestBody[q])
    <3>1. q = o
      BY <2>1, <2>3 DEF OpeningTypeOK
    <3>2. NextRetry(o, said).kind # "none" /\ requestBody'[o] = NextRetry(o, said).body
      BY <2>1, <2>3, <3>1 DEF OpeningTypeOK
    <3> QED
      BY <3>1, <3>2, RetryLighter
  <2> QED
    BY <2>2, <2>3 DEF CorrectionsShrink
<1>3. CASE ~RequestRefused(o)
  <2>1. learnedCap' = learnedCap /\ learnedCap \in Nat
    BY <1>1, <1>3, OpeningAssumption
    DEF OpeningTypeOK, OpeningSteps, BeginOpening, OpenAttempt, AdmissionRefuses, StreamCreated, ViewFails,
        CorrectionNoted, RetryDecided, CloseStream, CloseAttempt,
        CancelOpening, CloseStruck
  <2>2. ASSUME NEW q \in Openings PROVE ~(openPc[q] = "creating" /\ openPc'[q] = "correcting")
    BY <1>1, <1>3
    DEF OpeningTypeOK, OpeningSteps, BeginOpening, OpenAttempt, AdmissionRefuses, StreamCreated, ViewFails,
        CorrectionNoted, RetryDecided, CloseStream, CloseAttempt,
        CancelOpening, CloseStruck
  <2> QED
    BY <2>1, <2>2 DEF CorrectionsShrink
<1> QED
  BY <1>2, <1>3

(* The same without fairness: the form the composition uses.               *)
LEMMA OpeningKept ==
  OpeningInit /\ [][OpeningNext]_openingVars => []OpeningTypeOK /\ OpeningSound
<1>1. OpeningInv => OpeningTypeOK /\ HandedOverWhole
  BY DEF OpeningInv, HandedOverWhole, Retained
<1> QED
  BY OpeningInitInv, OpeningStep, Shrinks, <1>1, PTL DEF OpeningSound

(* Whoever gets a stream gets it whole; whoever fails leaves nothing, but  *)
(* for an attempt whose stream's close was struck by a cancellation; and   *)
(* corrections only shrink a request (_create_stream).                     *)
THEOREM OpeningSafe == OpeningSpec => []OpeningTypeOK /\ OpeningSound
BY OpeningKept, PTL DEF OpeningSpec

------------------------------------------------------------------------------
(* ResponseStream: who owns the lease and the provider stream.              *)
(* A frame is a chunk or the error frame of the Messages API.              *)
FramesOK == frames \in Seq({"chunk", "terminal"})

(* Before a response is bound nothing was sent, nobody else may close, and *)
(* the request's task owns the lease.                                      *)
OwnedByRequest ==
  /\ request = "acquiring" => lease = "none" /\ body = "none" /\ finalizer = "none"
  /\ request = "routing" => lease = "held" /\ body = "none" /\ finalizer = "none"
  /\ request \in {"prefetch", "aggregating"} =>
       lease = "held" /\ body = "created" /\ finalizer = "none"
  /\ request = "preclosing" => lease = "held" /\ finalizer \in {"body", "done"}
  /\ request = "leaving" => lease = "held" /\ ~BodyOpen /\ finalizer \in {"none", "done"}
  /\ request \in {"acquiring", "routing", "prefetch", "aggregating", "preclosing", "leaving"} =>
       frames = <<>> /\ owner = "away"

(* Then the cleanup task closes the body before it gives the lease back.   *)
OwnedByResponse ==
  /\ request = "responding" => finalizer = "none" /\ owner = "away"
  /\ request \in {"bound", "responding", "closing"} /\ finalizer # "done" => lease = "held"
  /\ request = "bound" =>
       /\ frames = <<>> /\ owner # "done"
       /\ finalizer # "none" => owner = "closing"
  /\ finalizer \in {"release", "done"} => ~BodyOpen
  /\ finalizer = "done" /\ request \in {"bound", "closing"} => lease = "released"
  /\ finalizer = "release" => request \in {"bound", "closing"}
  /\ finalizer = "body" => request \in {"preclosing", "bound", "closing"}
  /\ owner = "closing" /\ finalizer # "done" => request \in {"bound", "closing"}
  /\ request = "ended" => lease # "held" /\ ~BodyOpen /\ finalizer \in {"none", "done"}

(* A cancellation kept during the cleanup is reported at its end.          *)
PendingKept ==
  pending => \/ request \in {"preclosing", "closing"}
             \/ request \in {"leaving", "ended"} /\ outcome = "cancelled"

(* While the stream is read there is no error frame yet, and room for one. *)
ReadingClean ==
  body \in {"created", "reading"} =>
    Len(frames) <= MaxFrames + 1 /\ \A k \in 1 .. Len(frames) : frames[k] = "chunk"

RInv ==
  /\ ResponseTypeOK /\ FramesOK /\ OwnedByRequest /\ OwnedByResponse /\ PendingKept
  /\ ReadingClean /\ TerminalFrameLast

LEMMA ResponseInitInv == ResponseInit => RInv
<1> SUFFICES ASSUME ResponseInit PROVE RInv
  OBVIOUS
<1> USE ResponseAssumption DEF ResponseInit
<1>1. frames = <<>> /\ Len(frames) = 0 /\ FramesOK
  BY DEF FramesOK
<1>2. ResponseTypeOK
  <2>1. streamed \in BOOLEAN
    BY Zenon
  <2>2. pending \in BOOLEAN
    BY Zenon
  <2>5. cancels \in 0 .. MaxCancels
    OBVIOUS
  <2>3. Len(frames) <= MaxFrames + 2
    BY <1>1
  <2>4. /\ wire \in {"messages", "responses"}
        /\ request \in RequestStates /\ body = "none" /\ lease = "none"
        /\ finalizer = "none" /\ owner = "away" /\ outcome = "none"
    BY DEF RequestStates
  <2> QED
    BY <2>1, <2>2, <2>3, <2>4, <2>5 DEF ResponseTypeOK
<1>3. OwnedByRequest /\ OwnedByResponse /\ PendingKept
  BY DEF OwnedByRequest, OwnedByResponse, PendingKept, BodyOpen
<1>4. ReadingClean /\ TerminalFrameLast
  BY <1>1 DEF ReadingClean, TerminalFrameLast
<1> QED
  BY <1>1, <1>2, <1>3, <1>4 DEF RInv

LEMMA ResponseTypeStep ==
  ASSUME RInv, [ResponseNext]_responseVars
  PROVE  ResponseTypeOK' /\ FramesOK'
<1> USE ResponseAssumption
    DEF RInv, ResponseTypeOK, FramesOK, OwnedByRequest, ReadingClean, RequestStates
<1>1. CASE AcquireLease
  BY <1>1 DEF AcquireLease
<1>2. CASE RouteMessage
  BY <1>2 DEF RouteMessage, OpenBody
<1>3. CASE RouteResponse
  BY <1>3 DEF RouteResponse, OpenBody
<1>4. CASE FirstChunk
  BY <1>4 DEF FirstChunk
<1>5. CASE PreStartFails
  BY <1>5 DEF PreStartFails
<1>6. CASE Aggregate
  BY <1>6 DEF Aggregate
<1>7. CASE PreStartClosed
  BY <1>7 DEF PreStartClosed
<1>8. CASE LeaveRequest
  BY <1>8 DEF LeaveRequest
<1>9. CASE StartResponse
  BY <1>9 DEF StartResponse
<1>10. CASE SendChunk
  BY <1>10 DEF SendChunk, SendFrame
<1>11. CASE BodyEnds
  BY <1>11 DEF BodyEnds
<1>12. CASE BodyFails
  BY <1>12 DEF BodyFails, SendFrame, TerminalChunk
<1>13. CASE StartCleanup
  BY <1>13 DEF StartCleanup, BodyClosers
<1>14. CASE CleanupBody
  BY <1>14 DEF CleanupBody
<1>15. CASE CleanupRelease
  BY <1>15 DEF CleanupRelease
<1>16. CASE ResponseClosed
  BY <1>16 DEF ResponseClosed
<1>17. CASE OwnerDone
  BY <1>17 DEF OwnerDone
<1>18. CASE Disconnect
  BY <1>18 DEF Disconnect
<1>19. CASE OwnerCloses
  BY <1>19 DEF OwnerCloses
<1>20. CASE CancelRequest
  <2>1. UNCHANGED <<wire, streamed, lease, owner, frames>>
    BY <1>20 DEF CancelRequest, WaitThrough
  <2>2. cancels' \in 0 .. MaxCancels
    BY <1>20 DEF CancelRequest
  <2>3. pending' = pending \/ pending' = TRUE
    BY <1>20 DEF CancelRequest, WaitThrough
  <2>4. request' \in RequestStates /\ finalizer' \in {finalizer, "body"}
    BY <1>20 DEF CancelRequest, WaitThrough
  <2>5. body' \in {body, "reading", "failed"} /\ outcome' \in {outcome, "cancelled"}
    BY <1>20 DEF CancelRequest, WaitThrough
  <2>6. pending' \in BOOLEAN /\ streamed' \in BOOLEAN
    BY <2>1, <2>3, Zenon
  <2>7. body' \in {"none", "created", "reading", "finished", "failed", "closed"}
        /\ outcome' \in {"none", "error", "answered", "streamed", "cancelled", "raised"}
        /\ finalizer' \in {"none", "body", "release", "done"}
    BY <2>4, <2>5
  <2> QED
    BY <2>1, <2>2, <2>4, <2>6, <2>7
<1>21. CASE UNCHANGED responseVars
  BY <1>21 DEF responseVars
<1> QED
  BY <1>1, <1>2, <1>3, <1>4, <1>5, <1>6, <1>7, <1>8, <1>9, <1>10, <1>11, <1>12, <1>13,
     <1>14, <1>15, <1>16, <1>17, <1>18, <1>19, <1>20, <1>21 DEF ResponseNext,
     ResponseProgress

LEMMA RequestStep ==
  ASSUME RInv, [ResponseNext]_responseVars
  PROVE  OwnedByRequest'
<1> USE ResponseAssumption
    DEF RInv, OwnedByRequest, OwnedByResponse, BodyOpen, FramesOK
<1>1. CASE AcquireLease
  BY <1>1 DEF AcquireLease
<1>2. CASE RouteMessage
  BY <1>2 DEF RouteMessage, OpenBody
<1>3. CASE RouteResponse
  BY <1>3 DEF RouteResponse, OpenBody
<1>4. CASE FirstChunk
  BY <1>4 DEF FirstChunk
<1>5. CASE PreStartFails
  BY <1>5 DEF PreStartFails
<1>6. CASE Aggregate
  BY <1>6 DEF Aggregate
<1>7. CASE PreStartClosed
  BY <1>7 DEF PreStartClosed
<1>8. CASE LeaveRequest
  BY <1>8 DEF LeaveRequest
<1>9. CASE StartResponse
  BY <1>9 DEF StartResponse
<1>10. CASE SendChunk
  BY <1>10 DEF SendChunk, SendFrame
<1>11. CASE BodyEnds
  BY <1>11 DEF BodyEnds
<1>12. CASE BodyFails
  BY <1>12 DEF BodyFails, SendFrame, TerminalChunk
<1>13. CASE StartCleanup
  BY <1>13 DEF StartCleanup, BodyClosers
<1>14. CASE CleanupBody
  BY <1>14 DEF CleanupBody
<1>15. CASE CleanupRelease
  BY <1>15 DEF CleanupRelease
<1>16. CASE ResponseClosed
  BY <1>16 DEF ResponseClosed
<1>17. CASE OwnerDone
  BY <1>17 DEF OwnerDone
<1>18. CASE Disconnect
  BY <1>18 DEF Disconnect
<1>19. CASE OwnerCloses
  BY <1>19 DEF OwnerCloses
<1>20. CASE CancelRequest
  BY <1>20 DEF CancelRequest, WaitThrough
<1>21. CASE UNCHANGED responseVars
  BY <1>21 DEF responseVars
<1> QED
  BY <1>1, <1>2, <1>3, <1>4, <1>5, <1>6, <1>7, <1>8, <1>9, <1>10, <1>11, <1>12, <1>13,
     <1>14, <1>15, <1>16, <1>17, <1>18, <1>19, <1>20, <1>21 DEF ResponseNext,
     ResponseProgress

LEMMA ResponseStep ==
  ASSUME RInv, [ResponseNext]_responseVars
  PROVE  OwnedByResponse'
<1> USE ResponseAssumption
    DEF RInv, OwnedByRequest, OwnedByResponse, BodyOpen, ResponseTypeOK, FramesOK
<1>1. CASE AcquireLease
  BY <1>1 DEF AcquireLease
<1>2. CASE RouteMessage
  BY <1>2 DEF RouteMessage, OpenBody
<1>3. CASE RouteResponse
  BY <1>3 DEF RouteResponse, OpenBody
<1>4. CASE FirstChunk
  BY <1>4 DEF FirstChunk
<1>5. CASE PreStartFails
  BY <1>5 DEF PreStartFails
<1>6. CASE Aggregate
  BY <1>6 DEF Aggregate
<1>7. CASE PreStartClosed
  BY <1>7 DEF PreStartClosed
<1>8. CASE LeaveRequest
  BY <1>8 DEF LeaveRequest
<1>9. CASE StartResponse
  BY <1>9 DEF StartResponse
<1>10. CASE SendChunk
  BY <1>10 DEF SendChunk, SendFrame
<1>11. CASE BodyEnds
  BY <1>11 DEF BodyEnds
<1>12. CASE BodyFails
  BY <1>12 DEF BodyFails, SendFrame, TerminalChunk
<1>13. CASE StartCleanup
  BY <1>13 DEF StartCleanup, BodyClosers
<1>14. CASE CleanupBody
  BY <1>14 DEF CleanupBody
<1>15. CASE CleanupRelease
  BY <1>15 DEF CleanupRelease
<1>16. CASE ResponseClosed
  BY <1>16 DEF ResponseClosed
<1>17. CASE OwnerDone
  BY <1>17 DEF OwnerDone
<1>18. CASE Disconnect
  BY <1>18 DEF Disconnect
<1>19. CASE OwnerCloses
  BY <1>19 DEF OwnerCloses
<1>20. CASE CancelRequest
  BY <1>20 DEF CancelRequest, WaitThrough
<1>21. CASE UNCHANGED responseVars
  BY <1>21 DEF responseVars
<1> QED
  BY <1>1, <1>2, <1>3, <1>4, <1>5, <1>6, <1>7, <1>8, <1>9, <1>10, <1>11, <1>12, <1>13,
     <1>14, <1>15, <1>16, <1>17, <1>18, <1>19, <1>20, <1>21 DEF ResponseNext,
     ResponseProgress

LEMMA PendingStep ==
  ASSUME RInv, [ResponseNext]_responseVars
  PROVE  PendingKept'
<1> USE ResponseAssumption
    DEF RInv, PendingKept, OwnedByRequest, OwnedByResponse
<1>1. CASE AcquireLease
  BY <1>1 DEF AcquireLease
<1>2. CASE RouteMessage
  BY <1>2 DEF RouteMessage, OpenBody
<1>3. CASE RouteResponse
  BY <1>3 DEF RouteResponse, OpenBody
<1>4. CASE FirstChunk
  BY <1>4 DEF FirstChunk
<1>5. CASE PreStartFails
  BY <1>5 DEF PreStartFails
<1>6. CASE Aggregate
  BY <1>6 DEF Aggregate
<1>7. CASE PreStartClosed
  BY <1>7 DEF PreStartClosed
<1>8. CASE LeaveRequest
  BY <1>8 DEF LeaveRequest
<1>9. CASE StartResponse
  BY <1>9 DEF StartResponse
<1>10. CASE SendChunk
  BY <1>10 DEF SendChunk, SendFrame
<1>11. CASE BodyEnds
  BY <1>11 DEF BodyEnds
<1>12. CASE BodyFails
  BY <1>12 DEF BodyFails, SendFrame, TerminalChunk
<1>13. CASE StartCleanup
  BY <1>13 DEF StartCleanup, BodyClosers
<1>14. CASE CleanupBody
  BY <1>14 DEF CleanupBody
<1>15. CASE CleanupRelease
  BY <1>15 DEF CleanupRelease
<1>16. CASE ResponseClosed
  BY <1>16 DEF ResponseClosed
<1>17. CASE OwnerDone
  BY <1>17 DEF OwnerDone
<1>18. CASE Disconnect
  BY <1>18 DEF Disconnect
<1>19. CASE OwnerCloses
  BY <1>19 DEF OwnerCloses
<1>20. CASE CancelRequest
  BY <1>20 DEF CancelRequest, WaitThrough
<1>21. CASE UNCHANGED responseVars
  BY <1>21 DEF responseVars
<1> QED
  BY <1>1, <1>2, <1>3, <1>4, <1>5, <1>6, <1>7, <1>8, <1>9, <1>10, <1>11, <1>12, <1>13,
     <1>14, <1>15, <1>16, <1>17, <1>18, <1>19, <1>20, <1>21 DEF ResponseNext,
     ResponseProgress

LEMMA FramesStep ==
  ASSUME RInv, [ResponseNext]_responseVars
  PROVE  ReadingClean' /\ TerminalFrameLast'
<1> USE ResponseAssumption
    DEF RInv, ReadingClean, TerminalFrameLast, Terminated, FramesOK, OwnedByRequest,
       OwnedByResponse, BodyOpen
<1>1. CASE AcquireLease
  BY <1>1 DEF AcquireLease
<1>2. CASE RouteMessage
  BY <1>2 DEF RouteMessage, OpenBody
<1>3. CASE RouteResponse
  BY <1>3 DEF RouteResponse, OpenBody
<1>4. CASE FirstChunk
  BY <1>4 DEF FirstChunk
<1>5. CASE PreStartFails
  BY <1>5 DEF PreStartFails
<1>6. CASE Aggregate
  BY <1>6 DEF Aggregate
<1>7. CASE PreStartClosed
  BY <1>7 DEF PreStartClosed
<1>8. CASE LeaveRequest
  BY <1>8 DEF LeaveRequest
<1>9. CASE StartResponse
  BY <1>9 DEF StartResponse
<1>10. CASE SendChunk
  <2>1. Len(frames') = Len(frames) + 1 /\ \A k \in 1 .. Len(frames) : frames'[k] = frames[k]
    BY <1>10 DEF SendChunk, SendFrame
  <2>2. frames'[Len(frames')] = "chunk"
    BY <1>10 DEF SendChunk, SendFrame
  <2> QED
    BY <1>10, <2>1, <2>2 DEF SendChunk
<1>11. CASE BodyEnds
  BY <1>11 DEF BodyEnds
<1>12. CASE BodyFails
  <2>1. CASE wire = "messages"
    <3>1. /\ Len(frames') = Len(frames) + 1 /\ frames' # <<>>
          /\ \A k \in 1 .. Len(frames) : frames'[k] = frames[k]
      BY <1>12, <2>1 DEF BodyFails, SendFrame, TerminalChunk
    <3>2. frames'[Len(frames) + 1] = "terminal" /\ Len(frames) \in Nat
      BY <1>12, <2>1 DEF BodyFails, SendFrame, TerminalChunk
    <3> QED
      BY <1>12, <2>1, <3>1, <3>2 DEF BodyFails, TerminalChunk
  <2>2. CASE wire # "messages"
    BY <1>12, <2>2 DEF BodyFails, TerminalChunk
  <2> QED
    BY <2>1, <2>2
<1>13. CASE StartCleanup
  BY <1>13 DEF StartCleanup, BodyClosers
<1>14. CASE CleanupBody
  BY <1>14 DEF CleanupBody
<1>15. CASE CleanupRelease
  BY <1>15 DEF CleanupRelease
<1>16. CASE ResponseClosed
  BY <1>16 DEF ResponseClosed
<1>17. CASE OwnerDone
  BY <1>17 DEF OwnerDone
<1>18. CASE Disconnect
  BY <1>18 DEF Disconnect
<1>19. CASE OwnerCloses
  BY <1>19 DEF OwnerCloses
<1>20. CASE CancelRequest
  BY <1>20 DEF CancelRequest, WaitThrough
<1>21. CASE UNCHANGED responseVars
  BY <1>21 DEF responseVars
<1> QED
  BY <1>1, <1>2, <1>3, <1>4, <1>5, <1>6, <1>7, <1>8, <1>9, <1>10, <1>11, <1>12, <1>13,
     <1>14, <1>15, <1>16, <1>17, <1>18, <1>19, <1>20, <1>21 DEF ResponseNext,
     ResponseProgress

LEMMA ResponseStepInv == RInv /\ [ResponseNext]_responseVars => RInv'
BY ResponseTypeStep, RequestStep, ResponseStep, PendingStep, FramesStep DEF RInv

THEOREM ResponseInvariance == ResponseSpec => []RInv
BY ResponseInitInv, ResponseStepInv, PTL DEF ResponseSpec

-----------------------------------------------------------------------------
(* The variables of a response keep their types, and no more frames are    *)
(* sent than chunks were read and one error frame.                         *)
THEOREM ResponseTyped == ResponseSpec => []ResponseTypeOK
<1>1. RInv => ResponseTypeOK
  BY DEF RInv
<1> QED
  BY <1>1, ResponseInvariance, PTL

(* The lease of a generation outlives the provider's stream, a request     *)
(* that is over holds nothing and reports a cancellation of its cleanup,   *)
(* and an error frame is the last one, wherever the task is cancelled and  *)
(* whoever closes first.                                                   *)
THEOREM ResponsesClosed == ResponseSpec => []ResponsesExact
<1>1. RInv => LeaseOutlivesBody
  BY DEF RInv, LeaseOutlivesBody, OwnedByRequest, OwnedByResponse, BodyOpen,
     ResponseTypeOK,
         RequestStates
<1>2. RInv => EndedHoldsNothing
  BY DEF RInv, EndedHoldsNothing, OwnedByResponse, PendingKept
<1>3. RInv => TerminalFrameLast
  BY DEF RInv
<1>4. RInv => ResponsesExact
  BY <1>1, <1>2, <1>3 DEF ResponsesExact
<1> QED
  BY <1>4, ResponseInvariance, PTL

------------------------------------------------------------------------------
(* ServerLifecycle: what each stage of a start or a close holds.            *)
NoMessaging == delivery = "none" /\ ~cli /\ ~workflow

FullMessaging == delivery = "open" /\ cli /\ workflow

(* What a start has opened when it comes to a stage.                       *)
StageInv ==
  /\ main = "starting" => stage # "none" /\ providers
  /\ main = "starting" /\ gate = "none" =>
       /\ stage \in {"warm", "delivery"} => NoMessaging
       /\ stage = "cli" => delivery = "open" /\ ~cli /\ ~workflow
       /\ stage = "workflow" => delivery = "open" /\ cli /\ ~workflow
       /\ stage = "platform" => FullMessaging
       /\ stage = "ready" => NoMessaging \/ FullMessaging
  /\ main = "serving" => gate = "none" /\ providers /\ (NoMessaging \/ FullMessaging)

(* What a close has closed when it comes to a gate.                        *)
GateInv ==
  /\ main = "closing" => gate # "none" /\ purpose = "close"
  /\ gate # "none" =>
       /\ main \in {"starting", "closing"} /\ purpose \in {"repair", "close"} /\ providers
       /\ purpose = "repair" => gate \in {"quiesce", "workflow", "delivery"}
  /\ gate = "delivery" => ~cli /\ ~workflow
  /\ gate \in {"transcriber", "providers"} => NoMessaging
  /\ gate = "providers" => ~transcriber

(* Nothing is held before a run is built, nor after the loop is left.      *)
EmptyInv ==
  /\ main \in {"away", "entered", "looping", "loading", "building", "over"} =>
       NoMessaging /\ ~transcriber /\ ~providers
  /\ isClosed => main \notin {"starting", "serving", "closing"}

(* The supervisor's flags follow its thread; the settings it reads are     *)
(* those on disk.                                                          *)
LoopInv ==
  /\ scheduled => main = "entered"
  /\ running <=> main \in {"looping", "loading", "building", "starting", "serving", "closing", "left"}
  /\ cache \in {0, onDisk}
  /\ main \in {"building", "starting"} => loaded = onDisk

SInv ==
  /\ ServerTypeOK /\ StageInv /\ GateInv /\ EmptyInv /\ LoopInv /\ ServerSound

(* ServerTypeOK in two parts: the flags and the rest.                      *)
FlagsOK ==
  /\ desktop \in BOOLEAN /\ scheduled \in BOOLEAN /\ running \in BOOLEAN
  /\ stopRequested \in BOOLEAN /\ owed \in BOOLEAN /\ cli \in BOOLEAN /\ workflow \in BOOLEAN
  /\ transcriber \in BOOLEAN /\ providers \in BOOLEAN /\ isClosed \in BOOLEAN

PlacesOK ==
  /\ main \in {"away", "entered", "looping", "loading", "building", "starting", "serving",
               "closing", "left", "over"}
  /\ generation \in 0..MaxRestarts /\ seen \in 0..generation
  /\ handle \in {"none", "made", "exiting"}
  /\ onDisk \in 1..MaxVersions
  /\ cache \in 0..onDisk /\ loaded \in 0..onDisk /\ promised \in 0..onDisk
  /\ tray \in {"none", "open", "alive", "dead", "quitting"}
  /\ stage \in {"none", "warm", "delivery", "cli", "workflow", "platform", "ready"}
  /\ gate \in {"none", "quiesce", "workflow", "delivery", "transcriber", "providers"}
  /\ purpose \in {"none", "repair", "close"}
  /\ delivery \in {"none", "open", "quiet"}
  /\ relaunches \in 0..MaxRelaunches /\ failures \in 0..MaxFailures

LEMMA ServerInitInv == ServerInit => SInv
<1> SUFFICES ASSUME ServerInit PROVE SInv
  OBVIOUS
<1> USE ServerAssumption DEF ServerInit
<1>1. ServerTypeOK
  <2>1. desktop \in BOOLEAN /\ main \in {"away", "entered"} /\ tray \in {"none", "dead"}
    BY Zenon
  <2>2. cache \in 0..1
    OBVIOUS
  <2>3. /\ generation \in 0..MaxRestarts /\ onDisk \in 1..MaxVersions
        /\ relaunches \in 0..MaxRelaunches /\ failures \in 0..MaxFailures
    OBVIOUS
  <2>4. FlagsOK
    BY <2>1, Zenon DEF FlagsOK
  <2>5. PlacesOK
    BY <2>1, <2>2, <2>3 DEF PlacesOK
  <2> QED
    BY <2>4, <2>5 DEF ServerTypeOK, FlagsOK, PlacesOK
<1>2. StageInv /\ GateInv /\ EmptyInv
  BY DEF StageInv, GateInv, EmptyInv, NoMessaging
<1>3. LoopInv
  BY DEF LoopInv
<1>4. ServerSound
  BY DEF ServerSound, RuntimeOwned, RestartsServed, UsersFirst, ClosedHoldsNothing,
     BuiltOnEmptyGround
<1> QED
  BY <1>1, <1>2, <1>3, <1>4 DEF SInv

LEMMA FlagsStep ==
  ASSUME SInv, [ServerNext]_serverVars
  PROVE  FlagsOK'
<1> USE ServerAssumption
    DEF SInv, ServerTypeOK, FlagsOK, supervisorVars, requestVars, configVars,
       trayVars, resources, runtimeVars
<1>1. CASE EnterRun
  BY <1>1, Zenon DEF EnterRun
<1>2. CASE ReadGeneration
  BY <1>2, Zenon DEF ReadGeneration
<1>3. CASE LoadSettings
  BY <1>3, Zenon DEF LoadSettings, Settings
<1>4. CASE BuildServer
  BY <1>4, Zenon DEF BuildServer, Outdated
<1>5. CASE AfterRun
  BY <1>5, Zenon DEF AfterRun, RestartNow
<1>6. CASE LeaveRun
  BY <1>6, Zenon DEF LeaveRun
<1>7. CASE ThreadEnds
  BY <1>7, Zenon DEF ThreadEnds
<1>8. CASE WarmCache
  BY <1>8, Zenon DEF WarmCache, Starting, ToStage
<1>9. CASE OpenDelivery
  BY <1>9, Zenon DEF OpenDelivery, Starting, ToStage
<1>10. CASE OpenSessions
  BY <1>10, Zenon DEF OpenSessions, Starting, ToStage
<1>11. CASE OpenWorkflow
  BY <1>11, Zenon DEF OpenWorkflow, Starting, ToStage
<1>12. CASE StartPlatform
  BY <1>12, Zenon DEF StartPlatform, Starting, ToStage
<1>13. CASE Serve
  BY <1>13, Zenon DEF Serve, Starting
<1>14. CASE Quiesce
  BY <1>14, Zenon DEF Quiesce, ToGate
<1>15. CASE CloseWorkflow
  BY <1>15, Zenon DEF CloseWorkflow, ToGate
<1>16. CASE CloseDelivery
  BY <1>16, Zenon DEF CloseDelivery, ToGate
<1>17. CASE CloseTranscriber
  BY <1>17, Zenon DEF CloseTranscriber, ToGate
<1>18. CASE CloseProviders
  BY <1>18, Zenon DEF CloseProviders
<1>19. CASE AutomaticRestart
  BY <1>19, Zenon DEF AutomaticRestart, RequestRestart
<1>20. CASE StartFails
  BY <1>20, Zenon DEF StartFails
<1>21. CASE GateFails
  BY <1>21, Zenon DEF GateFails
<1>22. CASE LeaveServing
  BY <1>22, Zenon DEF LeaveServing
<1>23. CASE ApplyConfig
  BY <1>23, Zenon DEF ApplyConfig
<1>24. CASE TrayRestart
  BY <1>24, Zenon DEF TrayRestart, ThreadAlive
<1>25. CASE TrayAsks
  BY <1>25, Zenon DEF TrayAsks, RequestRestart
<1>26. CASE TrayStarts
  BY <1>26, Zenon DEF TrayStarts, ThreadAlive
<1>27. CASE TrayOpensAdmin
  BY <1>27, Zenon DEF TrayOpensAdmin
<1>28. CASE TrayQuits
  BY <1>28, Zenon DEF TrayQuits, RequestStop
<1>29. CASE UNCHANGED serverVars
  BY <1>29, Zenon DEF serverVars
<1> QED
  BY <1>1, <1>2, <1>3, <1>4, <1>5, <1>6, <1>7, <1>8, <1>9, <1>10, <1>11, <1>12, <1>13,
     <1>14, <1>15, <1>16, <1>17, <1>18, <1>19, <1>20, <1>21, <1>22, <1>23, <1>24,
     <1>25, <1>26, <1>27, <1>28, <1>29
  DEF ServerNext, ServerProgress, SupervisorSteps, StartSteps, CloseSteps

LEMMA PlacesStep ==
  ASSUME SInv, [ServerNext]_serverVars
  PROVE  PlacesOK'
<1> USE ServerAssumption
    DEF SInv, ServerTypeOK, PlacesOK, LoopInv, supervisorVars, requestVars,
       configVars, trayVars, resources, runtimeVars
<1>1. CASE EnterRun
  BY <1>1 DEF EnterRun
<1>2. CASE ReadGeneration
  BY <1>2 DEF ReadGeneration
<1>3. CASE LoadSettings
  BY <1>3 DEF LoadSettings, Settings
<1>4. CASE BuildServer
  BY <1>4 DEF BuildServer, Outdated
<1>5. CASE AfterRun
  BY <1>5 DEF AfterRun, RestartNow
<1>6. CASE LeaveRun
  BY <1>6 DEF LeaveRun
<1>7. CASE ThreadEnds
  BY <1>7 DEF ThreadEnds
<1>8. CASE WarmCache
  BY <1>8 DEF WarmCache, Starting, ToStage
<1>9. CASE OpenDelivery
  BY <1>9 DEF OpenDelivery, Starting, ToStage
<1>10. CASE OpenSessions
  BY <1>10 DEF OpenSessions, Starting, ToStage
<1>11. CASE OpenWorkflow
  BY <1>11 DEF OpenWorkflow, Starting, ToStage
<1>12. CASE StartPlatform
  BY <1>12 DEF StartPlatform, Starting, ToStage
<1>13. CASE Serve
  BY <1>13 DEF Serve, Starting
<1>14. CASE Quiesce
  BY <1>14 DEF Quiesce, ToGate
<1>15. CASE CloseWorkflow
  BY <1>15 DEF CloseWorkflow, ToGate
<1>16. CASE CloseDelivery
  BY <1>16 DEF CloseDelivery, ToGate
<1>17. CASE CloseTranscriber
  BY <1>17 DEF CloseTranscriber, ToGate
<1>18. CASE CloseProviders
  BY <1>18 DEF CloseProviders
<1>19. CASE AutomaticRestart
  BY <1>19 DEF AutomaticRestart, RequestRestart
<1>20. CASE StartFails
  BY <1>20 DEF StartFails
<1>21. CASE GateFails
  BY <1>21 DEF GateFails
<1>22. CASE LeaveServing
  BY <1>22 DEF LeaveServing
<1>23. CASE ApplyConfig
  BY <1>23 DEF ApplyConfig
<1>24. CASE TrayRestart
  BY <1>24 DEF TrayRestart, ThreadAlive
<1>25. CASE TrayAsks
  BY <1>25 DEF TrayAsks, RequestRestart
<1>26. CASE TrayStarts
  BY <1>26 DEF TrayStarts, ThreadAlive
<1>27. CASE TrayOpensAdmin
  BY <1>27 DEF TrayOpensAdmin
<1>28. CASE TrayQuits
  BY <1>28 DEF TrayQuits, RequestStop
<1>29. CASE UNCHANGED serverVars
  BY <1>29 DEF serverVars
<1> QED
  BY <1>1, <1>2, <1>3, <1>4, <1>5, <1>6, <1>7, <1>8, <1>9, <1>10, <1>11, <1>12, <1>13,
     <1>14, <1>15, <1>16, <1>17, <1>18, <1>19, <1>20, <1>21, <1>22, <1>23, <1>24,
     <1>25, <1>26, <1>27, <1>28, <1>29
  DEF ServerNext, ServerProgress, SupervisorSteps, StartSteps, CloseSteps

LEMMA ServerTypeStep ==
  ASSUME SInv, [ServerNext]_serverVars
  PROVE  ServerTypeOK'
BY FlagsStep, PlacesStep DEF ServerTypeOK, FlagsOK, PlacesOK

LEMMA StageStep ==
  ASSUME SInv, [ServerNext]_serverVars
  PROVE  StageInv'
<1> USE ServerAssumption
    DEF SInv, StageInv, GateInv, EmptyInv, NoMessaging, FullMessaging,
       supervisorVars, requestVars, configVars, trayVars, resources, runtimeVars
<1>1. CASE EnterRun
  BY <1>1 DEF EnterRun
<1>2. CASE ReadGeneration
  BY <1>2 DEF ReadGeneration
<1>3. CASE LoadSettings
  BY <1>3 DEF LoadSettings, Settings
<1>4. CASE BuildServer
  BY <1>4 DEF BuildServer, Outdated
<1>5. CASE AfterRun
  BY <1>5 DEF AfterRun, RestartNow
<1>6. CASE LeaveRun
  BY <1>6 DEF LeaveRun
<1>7. CASE ThreadEnds
  BY <1>7 DEF ThreadEnds
<1>8. CASE WarmCache
  BY <1>8 DEF WarmCache, Starting, ToStage
<1>9. CASE OpenDelivery
  BY <1>9 DEF OpenDelivery, Starting, ToStage
<1>10. CASE OpenSessions
  BY <1>10 DEF OpenSessions, Starting, ToStage
<1>11. CASE OpenWorkflow
  BY <1>11 DEF OpenWorkflow, Starting, ToStage
<1>12. CASE StartPlatform
  BY <1>12 DEF StartPlatform, Starting, ToStage
<1>13. CASE Serve
  BY <1>13 DEF Serve, Starting
<1>14. CASE Quiesce
  BY <1>14 DEF Quiesce, ToGate
<1>15. CASE CloseWorkflow
  BY <1>15 DEF CloseWorkflow, ToGate
<1>16. CASE CloseDelivery
  BY <1>16 DEF CloseDelivery, ToGate
<1>17. CASE CloseTranscriber
  BY <1>17 DEF CloseTranscriber, ToGate
<1>18. CASE CloseProviders
  BY <1>18 DEF CloseProviders
<1>19. CASE AutomaticRestart
  BY <1>19 DEF AutomaticRestart, RequestRestart
<1>20. CASE StartFails
  BY <1>20 DEF StartFails
<1>21. CASE GateFails
  BY <1>21 DEF GateFails
<1>22. CASE LeaveServing
  BY <1>22 DEF LeaveServing
<1>23. CASE ApplyConfig
  BY <1>23 DEF ApplyConfig
<1>24. CASE TrayRestart
  BY <1>24 DEF TrayRestart, ThreadAlive
<1>25. CASE TrayAsks
  BY <1>25 DEF TrayAsks, RequestRestart
<1>26. CASE TrayStarts
  BY <1>26 DEF TrayStarts, ThreadAlive
<1>27. CASE TrayOpensAdmin
  BY <1>27 DEF TrayOpensAdmin
<1>28. CASE TrayQuits
  BY <1>28 DEF TrayQuits, RequestStop
<1>29. CASE UNCHANGED serverVars
  BY <1>29 DEF serverVars
<1> QED
  BY <1>1, <1>2, <1>3, <1>4, <1>5, <1>6, <1>7, <1>8, <1>9, <1>10, <1>11, <1>12, <1>13,
     <1>14, <1>15, <1>16, <1>17, <1>18, <1>19, <1>20, <1>21, <1>22, <1>23, <1>24,
     <1>25, <1>26, <1>27, <1>28, <1>29
  DEF ServerNext, ServerProgress, SupervisorSteps, StartSteps, CloseSteps

LEMMA GateStep ==
  ASSUME SInv, [ServerNext]_serverVars
  PROVE  GateInv'
<1> USE ServerAssumption
    DEF SInv, StageInv, GateInv, NoMessaging, supervisorVars, requestVars,
       configVars, trayVars, resources, runtimeVars
<1>1. CASE EnterRun
  BY <1>1 DEF EnterRun
<1>2. CASE ReadGeneration
  BY <1>2 DEF ReadGeneration
<1>3. CASE LoadSettings
  BY <1>3 DEF LoadSettings, Settings
<1>4. CASE BuildServer
  BY <1>4 DEF BuildServer, Outdated
<1>5. CASE AfterRun
  BY <1>5 DEF AfterRun, RestartNow
<1>6. CASE LeaveRun
  BY <1>6 DEF LeaveRun
<1>7. CASE ThreadEnds
  BY <1>7 DEF ThreadEnds
<1>8. CASE WarmCache
  BY <1>8 DEF WarmCache, Starting, ToStage
<1>9. CASE OpenDelivery
  BY <1>9 DEF OpenDelivery, Starting, ToStage
<1>10. CASE OpenSessions
  BY <1>10 DEF OpenSessions, Starting, ToStage
<1>11. CASE OpenWorkflow
  BY <1>11 DEF OpenWorkflow, Starting, ToStage
<1>12. CASE StartPlatform
  BY <1>12 DEF StartPlatform, Starting, ToStage
<1>13. CASE Serve
  BY <1>13 DEF Serve, Starting
<1>14. CASE Quiesce
  BY <1>14 DEF Quiesce, ToGate
<1>15. CASE CloseWorkflow
  BY <1>15 DEF CloseWorkflow, ToGate
<1>16. CASE CloseDelivery
  BY <1>16 DEF CloseDelivery, ToGate
<1>17. CASE CloseTranscriber
  BY <1>17 DEF CloseTranscriber, ToGate
<1>18. CASE CloseProviders
  BY <1>18 DEF CloseProviders
<1>19. CASE AutomaticRestart
  BY <1>19 DEF AutomaticRestart, RequestRestart
<1>20. CASE StartFails
  BY <1>20 DEF StartFails
<1>21. CASE GateFails
  BY <1>21 DEF GateFails
<1>22. CASE LeaveServing
  BY <1>22 DEF LeaveServing
<1>23. CASE ApplyConfig
  BY <1>23 DEF ApplyConfig
<1>24. CASE TrayRestart
  BY <1>24 DEF TrayRestart, ThreadAlive
<1>25. CASE TrayAsks
  BY <1>25 DEF TrayAsks, RequestRestart
<1>26. CASE TrayStarts
  BY <1>26 DEF TrayStarts, ThreadAlive
<1>27. CASE TrayOpensAdmin
  BY <1>27 DEF TrayOpensAdmin
<1>28. CASE TrayQuits
  BY <1>28 DEF TrayQuits, RequestStop
<1>29. CASE UNCHANGED serverVars
  BY <1>29 DEF serverVars
<1> QED
  BY <1>1, <1>2, <1>3, <1>4, <1>5, <1>6, <1>7, <1>8, <1>9, <1>10, <1>11, <1>12, <1>13,
     <1>14, <1>15, <1>16, <1>17, <1>18, <1>19, <1>20, <1>21, <1>22, <1>23, <1>24,
     <1>25, <1>26, <1>27, <1>28, <1>29
  DEF ServerNext, ServerProgress, SupervisorSteps, StartSteps, CloseSteps

LEMMA EmptyStep ==
  ASSUME SInv, [ServerNext]_serverVars
  PROVE  EmptyInv'
<1> USE ServerAssumption
    DEF SInv, GateInv, EmptyInv, NoMessaging, ServerSound, RuntimeOwned,
       ClosedHoldsNothing, supervisorVars, requestVars, configVars, trayVars,
       resources, runtimeVars
<1>1. CASE EnterRun
  BY <1>1 DEF EnterRun
<1>2. CASE ReadGeneration
  BY <1>2 DEF ReadGeneration
<1>3. CASE LoadSettings
  BY <1>3 DEF LoadSettings, Settings
<1>4. CASE BuildServer
  BY <1>4 DEF BuildServer, Outdated
<1>5. CASE AfterRun
  BY <1>5 DEF AfterRun, RestartNow
<1>6. CASE LeaveRun
  BY <1>6 DEF LeaveRun
<1>7. CASE ThreadEnds
  BY <1>7 DEF ThreadEnds
<1>8. CASE WarmCache
  BY <1>8 DEF WarmCache, Starting, ToStage
<1>9. CASE OpenDelivery
  BY <1>9 DEF OpenDelivery, Starting, ToStage
<1>10. CASE OpenSessions
  BY <1>10 DEF OpenSessions, Starting, ToStage
<1>11. CASE OpenWorkflow
  BY <1>11 DEF OpenWorkflow, Starting, ToStage
<1>12. CASE StartPlatform
  BY <1>12 DEF StartPlatform, Starting, ToStage
<1>13. CASE Serve
  BY <1>13 DEF Serve, Starting
<1>14. CASE Quiesce
  BY <1>14 DEF Quiesce, ToGate
<1>15. CASE CloseWorkflow
  BY <1>15 DEF CloseWorkflow, ToGate
<1>16. CASE CloseDelivery
  BY <1>16 DEF CloseDelivery, ToGate
<1>17. CASE CloseTranscriber
  BY <1>17 DEF CloseTranscriber, ToGate
<1>18. CASE CloseProviders
  BY <1>18 DEF CloseProviders
<1>19. CASE AutomaticRestart
  BY <1>19 DEF AutomaticRestart, RequestRestart
<1>20. CASE StartFails
  BY <1>20 DEF StartFails
<1>21. CASE GateFails
  BY <1>21 DEF GateFails
<1>22. CASE LeaveServing
  BY <1>22 DEF LeaveServing
<1>23. CASE ApplyConfig
  BY <1>23 DEF ApplyConfig
<1>24. CASE TrayRestart
  BY <1>24 DEF TrayRestart, ThreadAlive
<1>25. CASE TrayAsks
  BY <1>25 DEF TrayAsks, RequestRestart
<1>26. CASE TrayStarts
  BY <1>26 DEF TrayStarts, ThreadAlive
<1>27. CASE TrayOpensAdmin
  BY <1>27 DEF TrayOpensAdmin
<1>28. CASE TrayQuits
  BY <1>28 DEF TrayQuits, RequestStop
<1>29. CASE UNCHANGED serverVars
  BY <1>29 DEF serverVars
<1> QED
  BY <1>1, <1>2, <1>3, <1>4, <1>5, <1>6, <1>7, <1>8, <1>9, <1>10, <1>11, <1>12, <1>13,
     <1>14, <1>15, <1>16, <1>17, <1>18, <1>19, <1>20, <1>21, <1>22, <1>23, <1>24,
     <1>25, <1>26, <1>27, <1>28, <1>29
  DEF ServerNext, ServerProgress, SupervisorSteps, StartSteps, CloseSteps

LEMMA LoopStep ==
  ASSUME SInv, [ServerNext]_serverVars
  PROVE  LoopInv'
<1> USE ServerAssumption
    DEF SInv, LoopInv, GateInv, supervisorVars, requestVars, configVars, trayVars,
       resources, runtimeVars
<1>1. CASE EnterRun
  BY <1>1 DEF EnterRun
<1>2. CASE ReadGeneration
  BY <1>2 DEF ReadGeneration
<1>3. CASE LoadSettings
  BY <1>3 DEF LoadSettings, Settings
<1>4. CASE BuildServer
  BY <1>4 DEF BuildServer, Outdated
<1>5. CASE AfterRun
  BY <1>5 DEF AfterRun, RestartNow
<1>6. CASE LeaveRun
  BY <1>6 DEF LeaveRun
<1>7. CASE ThreadEnds
  BY <1>7 DEF ThreadEnds
<1>8. CASE WarmCache
  BY <1>8 DEF WarmCache, Starting, ToStage
<1>9. CASE OpenDelivery
  BY <1>9 DEF OpenDelivery, Starting, ToStage
<1>10. CASE OpenSessions
  BY <1>10 DEF OpenSessions, Starting, ToStage
<1>11. CASE OpenWorkflow
  BY <1>11 DEF OpenWorkflow, Starting, ToStage
<1>12. CASE StartPlatform
  BY <1>12 DEF StartPlatform, Starting, ToStage
<1>13. CASE Serve
  BY <1>13 DEF Serve, Starting
<1>14. CASE Quiesce
  BY <1>14 DEF Quiesce, ToGate
<1>15. CASE CloseWorkflow
  BY <1>15 DEF CloseWorkflow, ToGate
<1>16. CASE CloseDelivery
  BY <1>16 DEF CloseDelivery, ToGate
<1>17. CASE CloseTranscriber
  BY <1>17 DEF CloseTranscriber, ToGate
<1>18. CASE CloseProviders
  BY <1>18 DEF CloseProviders
<1>19. CASE AutomaticRestart
  BY <1>19 DEF AutomaticRestart, RequestRestart
<1>20. CASE StartFails
  BY <1>20 DEF StartFails
<1>21. CASE GateFails
  BY <1>21 DEF GateFails
<1>22. CASE LeaveServing
  BY <1>22 DEF LeaveServing
<1>23. CASE ApplyConfig
  BY <1>23 DEF ApplyConfig
<1>24. CASE TrayRestart
  BY <1>24 DEF TrayRestart, ThreadAlive
<1>25. CASE TrayAsks
  BY <1>25 DEF TrayAsks, RequestRestart
<1>26. CASE TrayStarts
  BY <1>26 DEF TrayStarts, ThreadAlive
<1>27. CASE TrayOpensAdmin
  BY <1>27 DEF TrayOpensAdmin
<1>28. CASE TrayQuits
  BY <1>28 DEF TrayQuits, RequestStop
<1>29. CASE UNCHANGED serverVars
  BY <1>29 DEF serverVars
<1> QED
  BY <1>1, <1>2, <1>3, <1>4, <1>5, <1>6, <1>7, <1>8, <1>9, <1>10, <1>11, <1>12, <1>13,
     <1>14, <1>15, <1>16, <1>17, <1>18, <1>19, <1>20, <1>21, <1>22, <1>23, <1>24,
     <1>25, <1>26, <1>27, <1>28, <1>29
  DEF ServerNext, ServerProgress, SupervisorSteps, StartSteps, CloseSteps

LEMMA OwnedStep ==
  ASSUME SInv, [ServerNext]_serverVars
  PROVE  RuntimeOwned'
<1> USE ServerAssumption
    DEF SInv, StageInv, GateInv, EmptyInv, NoMessaging, FullMessaging, ServerSound,
       RuntimeOwned, UsersFirst, ClosedHoldsNothing, BuiltOnEmptyGround,
       supervisorVars, requestVars, configVars, trayVars, resources, runtimeVars
<1>1. CASE EnterRun
  BY <1>1 DEF EnterRun
<1>2. CASE ReadGeneration
  BY <1>2 DEF ReadGeneration
<1>3. CASE LoadSettings
  BY <1>3 DEF LoadSettings, Settings
<1>4. CASE BuildServer
  BY <1>4 DEF BuildServer, Outdated
<1>5. CASE AfterRun
  BY <1>5 DEF AfterRun, RestartNow
<1>6. CASE LeaveRun
  BY <1>6 DEF LeaveRun
<1>7. CASE ThreadEnds
  BY <1>7 DEF ThreadEnds
<1>8. CASE WarmCache
  BY <1>8 DEF WarmCache, Starting, ToStage
<1>9. CASE OpenDelivery
  BY <1>9 DEF OpenDelivery, Starting, ToStage
<1>10. CASE OpenSessions
  BY <1>10 DEF OpenSessions, Starting, ToStage
<1>11. CASE OpenWorkflow
  BY <1>11 DEF OpenWorkflow, Starting, ToStage
<1>12. CASE StartPlatform
  BY <1>12 DEF StartPlatform, Starting, ToStage
<1>13. CASE Serve
  BY <1>13 DEF Serve, Starting
<1>14. CASE Quiesce
  BY <1>14 DEF Quiesce, ToGate
<1>15. CASE CloseWorkflow
  BY <1>15 DEF CloseWorkflow, ToGate
<1>16. CASE CloseDelivery
  BY <1>16 DEF CloseDelivery, ToGate
<1>17. CASE CloseTranscriber
  BY <1>17 DEF CloseTranscriber, ToGate
<1>18. CASE CloseProviders
  BY <1>18 DEF CloseProviders
<1>19. CASE AutomaticRestart
  BY <1>19 DEF AutomaticRestart, RequestRestart
<1>20. CASE StartFails
  BY <1>20 DEF StartFails
<1>21. CASE GateFails
  BY <1>21 DEF GateFails
<1>22. CASE LeaveServing
  BY <1>22 DEF LeaveServing
<1>23. CASE ApplyConfig
  BY <1>23 DEF ApplyConfig
<1>24. CASE TrayRestart
  BY <1>24 DEF TrayRestart, ThreadAlive
<1>25. CASE TrayAsks
  BY <1>25 DEF TrayAsks, RequestRestart
<1>26. CASE TrayStarts
  BY <1>26 DEF TrayStarts, ThreadAlive
<1>27. CASE TrayOpensAdmin
  BY <1>27 DEF TrayOpensAdmin
<1>28. CASE TrayQuits
  BY <1>28 DEF TrayQuits, RequestStop
<1>29. CASE UNCHANGED serverVars
  BY <1>29 DEF serverVars
<1> QED
  BY <1>1, <1>2, <1>3, <1>4, <1>5, <1>6, <1>7, <1>8, <1>9, <1>10, <1>11, <1>12, <1>13,
     <1>14, <1>15, <1>16, <1>17, <1>18, <1>19, <1>20, <1>21, <1>22, <1>23, <1>24,
     <1>25, <1>26, <1>27, <1>28, <1>29
  DEF ServerNext, ServerProgress, SupervisorSteps, StartSteps, CloseSteps

LEMMA ServedStep ==
  ASSUME SInv, [ServerNext]_serverVars
  PROVE  RestartsServed'
<1> USE ServerAssumption
    DEF SInv, ServerTypeOK, LoopInv, ServerSound, RestartsServed, supervisorVars,
       requestVars, configVars, trayVars, resources, runtimeVars
<1>1. CASE EnterRun
  BY <1>1 DEF EnterRun
<1>2. CASE ReadGeneration
  BY <1>2 DEF ReadGeneration
<1>3. CASE LoadSettings
  BY <1>3 DEF LoadSettings, Settings
<1>4. CASE BuildServer
  BY <1>4 DEF BuildServer, Outdated
<1>5. CASE AfterRun
  BY <1>5 DEF AfterRun, RestartNow
<1>6. CASE LeaveRun
  BY <1>6 DEF LeaveRun
<1>7. CASE ThreadEnds
  BY <1>7 DEF ThreadEnds
<1>8. CASE WarmCache
  BY <1>8 DEF WarmCache, Starting, ToStage
<1>9. CASE OpenDelivery
  BY <1>9 DEF OpenDelivery, Starting, ToStage
<1>10. CASE OpenSessions
  BY <1>10 DEF OpenSessions, Starting, ToStage
<1>11. CASE OpenWorkflow
  BY <1>11 DEF OpenWorkflow, Starting, ToStage
<1>12. CASE StartPlatform
  BY <1>12 DEF StartPlatform, Starting, ToStage
<1>13. CASE Serve
  BY <1>13 DEF Serve, Starting
<1>14. CASE Quiesce
  BY <1>14 DEF Quiesce, ToGate
<1>15. CASE CloseWorkflow
  BY <1>15 DEF CloseWorkflow, ToGate
<1>16. CASE CloseDelivery
  BY <1>16 DEF CloseDelivery, ToGate
<1>17. CASE CloseTranscriber
  BY <1>17 DEF CloseTranscriber, ToGate
<1>18. CASE CloseProviders
  BY <1>18 DEF CloseProviders
<1>19. CASE AutomaticRestart
  BY <1>19 DEF AutomaticRestart, RequestRestart
<1>20. CASE StartFails
  BY <1>20 DEF StartFails
<1>21. CASE GateFails
  BY <1>21 DEF GateFails
<1>22. CASE LeaveServing
  BY <1>22 DEF LeaveServing
<1>23. CASE ApplyConfig
  BY <1>23 DEF ApplyConfig
<1>24. CASE TrayRestart
  BY <1>24 DEF TrayRestart, ThreadAlive
<1>25. CASE TrayAsks
  BY <1>25 DEF TrayAsks, RequestRestart
<1>26. CASE TrayStarts
  BY <1>26 DEF TrayStarts, ThreadAlive
<1>27. CASE TrayOpensAdmin
  BY <1>27 DEF TrayOpensAdmin
<1>28. CASE TrayQuits
  BY <1>28 DEF TrayQuits, RequestStop
<1>29. CASE UNCHANGED serverVars
  BY <1>29 DEF serverVars
<1> QED
  BY <1>1, <1>2, <1>3, <1>4, <1>5, <1>6, <1>7, <1>8, <1>9, <1>10, <1>11, <1>12, <1>13,
     <1>14, <1>15, <1>16, <1>17, <1>18, <1>19, <1>20, <1>21, <1>22, <1>23, <1>24,
     <1>25, <1>26, <1>27, <1>28, <1>29
  DEF ServerNext, ServerProgress, SupervisorSteps, StartSteps, CloseSteps

LEMMA ServerStepInv == SInv /\ [ServerNext]_serverVars => SInv'
BY ServerTypeStep, StageStep, GateStep, EmptyStep, LoopStep, OwnedStep, ServedStep
DEF SInv, ServerSound

THEOREM ServerInvariance == ServerSpec => []SInv
BY ServerInitInv, ServerStepInv, PTL DEF ServerSpec

-----------------------------------------------------------------------------
(* The state of the supervisor, the tray and the runtime keeps its shape;  *)
(* in particular a run is never built from settings newer than the file.   *)
THEOREM ServerTyped == ServerSpec => []ServerTypeOK
<1>1. SInv => ServerTypeOK
  BY DEF SInv
<1> QED
  BY <1>1, ServerInvariance, PTL

(* Whatever step of a start, a repair or a close fails, a resource outlives *)
(* its users, a runtime that says it is closed holds nothing and none is   *)
(* built over one that still holds something; and a server that was not    *)
(* told to leave runs with the settings of the last accepted restart.      *)
THEOREM ServerOwned == ServerSpec => []ServerSound
<1>1. SInv => ServerSound
  BY DEF SInv
<1> QED
  BY <1>1, ServerInvariance, PTL

------------------------------------------------------------------------------
(* PlatformRuntime: what each step of the cleanup has closed.               *)
(* Discord has a client and its task, and no application; the task lives    *)
(* from the start until its exit is reported.                               *)
DiscordShape ==
  platform = "discord" =>
    /\ sdk \subseteq {"open", "client"}
    /\ setup \in {"new", "connecting", "started", "failed"}
    /\ cleaning \notin {"stopping", "sdk"}
    /\ setup = "new" => sdk = {"open"} /\ exit = "none" /\ ~connected
    /\ setup # "new" => ("client" \in sdk <=> exit = "none")

(* Telegram has an application with its updater, whose handlers run only    *)
(* while the application does.                                              *)
TelegramShape ==
  platform = "telegram" =>
    /\ sdk \subseteq {"initialized", "running", "polling"}
    /\ setup # "connecting" /\ exit = "none" /\ ~accepting
    /\ cleaning \notin {"draining", "ingress"}
    /\ setup = "started" => (cleaning = "up" => connected)
    /\ Handling # {} => "running" \in sdk

(* A cleanup begins after a start that ended, and Discord accepts events    *)
(* from its start to the first step of its cleanup.                         *)
StartInv ==
  /\ setup \notin {"started", "failed"} => cleaning = "up"
  /\ setup = "failed" => cleaning # "up"
  /\ platform = "discord" /\ cleaning = "up" /\ setup # "new" =>
       /\ accepting
       /\ connected => exit # "seen"
       /\ setup = "started" => (connected <=> exit # "seen")
  /\ accepting => cleaning \in {"up", "quiesce"} /\ ~outboxClosed

(* The steps that a cleanup reaches only when ingress is known to be over.  *)
Past == {"workflow"} \union Delivery

(* What each step of quiesce has closed; whatever it could not close, it    *)
(* carries along as an exception, and the cleanup stops before the workflow.*)
IngressInv ==
  /\ outboxClosed \/ cleaning \in Past \union {"closed"} =>
       /\ Handling = {} /\ ~accepting /\ exit # "pending"
       /\ sdk \intersect {"client", "open", "running", "polling"} = {}
  /\ cleaning \in {"draining", "ingress"} /\ ~raising => "open" \notin sdk
  /\ cleaning \in {"draining", "ingress"} => ~accepting
  /\ cleaning = "ingress" => "client" \notin sdk /\ exit # "pending"
  /\ cleaning = "stopping" /\ ~raising => "polling" \notin sdk
  /\ cleaning \in {"workflow", "outbox"} => ~raising
  /\ cleaning \in {"workflow", "closed", "failed"} \union Delivery => ~connected
  /\ cleaning = "up" => ~raising /\ ~outboxClosed /\ workflowOpen

(* The outbox closes behind the workflow, and with it every task it runs.   *)
DeliveryInv ==
  /\ outboxClosed \/ cleaning \in Delivery => ~workflowOpen
  /\ cleaning \in {"gathering", "limiter", "sdk", "closed"} => outboxClosed
  /\ outboxClosed => \A n \in Notices : background[n] # "running"
  /\ cleaning \in {"limiter", "sdk", "closed"} =>
       \A n \in Notices : background[n] # "cancelled"
  /\ cleaning = "sdk" /\ ~raising => ~limiterOn
  /\ cleaning = "closed" => sdk = {} /\ ~limiterOn
  /\ \A n \in Notices : background[n] # "refused"

PInv ==
  PlatformTypeOK /\ DiscordShape /\ TelegramShape /\ StartInv /\ IngressInv /\ DeliveryInv

LEMMA PlatformInitInv == PlatformInit => PInv
<1> SUFFICES ASSUME PlatformInit PROVE PInv
  OBVIOUS
<1>1. sdk \subseteq SdkParts
  BY DEF PlatformInit, Built, SdkParts
<1>2. setup \in Setups /\ faults \in 0 .. MaxPlatformFaults
  BY PlatformAssumption DEF PlatformInit, Setups
<1>3. /\ inbound \in [Events -> {"new", "handling", "reporting", "done"}]
      /\ background \in [Notices -> {"new", "running", "cancelled", "done", "refused"}]
  BY DEF PlatformInit
<1>4. /\ accepting \in BOOLEAN /\ connected \in BOOLEAN /\ outboxClosed \in BOOLEAN
      /\ limiterOn \in BOOLEAN /\ workflowOpen \in BOOLEAN /\ raising \in BOOLEAN
  BY DEF PlatformInit
<1>5. /\ platform \in {"discord", "telegram"} /\ failedTries \in 0 .. 2
      /\ exit \in {"none", "pending", "seen"} /\ cleaning = "up"
  BY DEF PlatformInit
<1>6. PlatformTypeOK
  BY <1>1, <1>2, <1>3, <1>4, <1>5 DEF PlatformTypeOK
<1>7. Handling = {}
  BY DEF PlatformInit, Handling
<1>8. DiscordShape /\ TelegramShape /\ StartInv
  BY <1>7 DEF PlatformInit, Built, DiscordShape, TelegramShape, StartInv
<1>9. IngressInv /\ DeliveryInv
  BY DEF PlatformInit, IngressInv, DeliveryInv, Past, Delivery
<1> QED
  BY <1>6, <1>8, <1>9 DEF PInv

-----------------------------------------------------------------------------
(* One lemma for each action.                                               *)

LEMMA StartDiscordStep == ASSUME PInv, StartDiscord PROVE PInv'
<1>1. PlatformTypeOK'
  BY DEF PInv, StartDiscord, PlatformTypeOK, Setups, SdkParts
<1>2. DiscordShape' /\ TelegramShape' /\ StartInv'
  BY DEF PInv, StartDiscord, DiscordShape, TelegramShape, StartInv, IngressInv
<1>3. IngressInv' /\ DeliveryInv'
  BY DEF PInv, StartDiscord, DiscordShape, StartInv, IngressInv, DeliveryInv
<1> QED
  BY <1>1, <1>2, <1>3 DEF PInv

LEMMA StartTelegramStep == ASSUME PInv, StartTelegram PROVE PInv'
<1>1. PlatformTypeOK'
  BY DEF PInv, StartTelegram, PlatformTypeOK, Setups
<1>2. DiscordShape' /\ TelegramShape' /\ StartInv'
  BY DEF PInv, StartTelegram, DiscordShape, TelegramShape, StartInv, Handling
<1>3. IngressInv' /\ DeliveryInv'
  BY DEF PInv, StartTelegram, IngressInv, DeliveryInv, Handling
<1> QED
  BY <1>1, <1>2, <1>3 DEF PInv

LEMMA MarkConnectedStep == ASSUME PInv, MarkConnected PROVE PInv'
<1>1. PlatformTypeOK'
  BY DEF PInv, MarkConnected, PlatformTypeOK
<1>2. DiscordShape' /\ TelegramShape' /\ StartInv'
  BY DEF PInv, MarkConnected, DiscordShape, TelegramShape, StartInv
<1>3. IngressInv' /\ DeliveryInv'
  BY DEF PInv, MarkConnected, StartInv, IngressInv, DeliveryInv, Past
<1> QED
  BY <1>1, <1>2, <1>3 DEF PInv

LEMMA StartReturnsStep == ASSUME PInv, StartReturns PROVE PInv'
<1>1. PlatformTypeOK'
  BY DEF PInv, StartReturns, PlatformStartFails, PlatformTypeOK, Setups
<1>2. DiscordShape' /\ TelegramShape' /\ StartInv'
  BY DEF PInv, StartReturns, PlatformStartFails, DiscordShape, TelegramShape, StartInv
<1>3. IngressInv' /\ DeliveryInv'
  BY DEF PInv, StartReturns, PlatformStartFails, Delivery, StartInv, IngressInv,
     DeliveryInv, Past
<1> QED
  BY <1>1, <1>2, <1>3 DEF PInv

LEMMA ClientExitsStep == ASSUME PInv, ClientExits PROVE PInv'
<1>1. PlatformTypeOK'
  BY PlatformAssumption DEF PInv, ClientExits, Fault, PlatformTypeOK
<1>2. DiscordShape' /\ TelegramShape' /\ StartInv'
  BY DEF PInv, ClientExits, Fault, DiscordShape, TelegramShape, StartInv
<1>3. IngressInv' /\ DeliveryInv'
  BY DEF PInv, ClientExits, Fault, IngressInv, DeliveryInv
<1> QED
  BY <1>1, <1>2, <1>3 DEF PInv

LEMMA ObserveClientExitStep == ASSUME PInv, ObserveClientExit PROVE PInv'
<1>1. PlatformTypeOK'
  BY DEF PInv, ObserveClientExit, PlatformTypeOK
<1>2. DiscordShape' /\ TelegramShape' /\ StartInv'
  BY DEF PInv, ObserveClientExit, DiscordShape, TelegramShape, StartInv
<1>3. IngressInv' /\ DeliveryInv'
  BY DEF PInv, ObserveClientExit, IngressInv, DeliveryInv
<1> QED
  BY <1>1, <1>2, <1>3 DEF PInv

LEMMA ConnectionStepFailsStep == ASSUME PInv, ConnectionStepFails PROVE PInv'
<1>1. PlatformTypeOK'
  BY DEF PInv, ConnectionStepFails, PlatformStartFails, PlatformTypeOK, Setups
<1>2. DiscordShape' /\ TelegramShape' /\ StartInv'
  BY DEF PInv, ConnectionStepFails, PlatformStartFails, DiscordShape, TelegramShape,
     StartInv, Handling
<1>3. IngressInv' /\ DeliveryInv'
  BY DEF PInv, ConnectionStepFails, PlatformStartFails, Delivery, StartInv,
     IngressInv, DeliveryInv, Past
<1> QED
  BY <1>1, <1>2, <1>3 DEF PInv

LEMMA StartCancelledStep == ASSUME PInv, StartCancelled PROVE PInv'
<1>1. PlatformTypeOK'
  BY PlatformAssumption DEF PInv, StartCancelled, PlatformStartFails, Fault,
     PlatformTypeOK, Setups
<1>2. DiscordShape' /\ TelegramShape' /\ StartInv'
  BY DEF PInv, StartCancelled, PlatformStartFails, Fault, DiscordShape, TelegramShape,
     StartInv, Handling
<1>3. IngressInv' /\ DeliveryInv'
  BY DEF PInv, StartCancelled, PlatformStartFails, Fault, Delivery, StartInv,
     IngressInv, DeliveryInv, Past
<1> QED
  BY <1>1, <1>2, <1>3 DEF PInv

LEMMA InitializedStep == ASSUME PInv, Initialized PROVE PInv'
<1>1. PlatformTypeOK'
  BY DEF PInv, Initialized, PlatformTypeOK, Setups, SdkParts
<1>2. DiscordShape' /\ TelegramShape' /\ StartInv'
  BY DEF PInv, Initialized, DiscordShape, TelegramShape, StartInv, Handling
<1>3. IngressInv' /\ DeliveryInv'
  BY DEF PInv, Initialized, StartInv, IngressInv, DeliveryInv, Handling
<1> QED
  BY <1>1, <1>2, <1>3 DEF PInv

LEMMA AppStartsStep == ASSUME PInv, AppStarts PROVE PInv'
<1>1. PlatformTypeOK'
  <2>0. PlatformTypeOK
    BY DEF PInv
  <2>1. limiterOn' \in BOOLEAN
    BY <2>0 DEF PlatformTypeOK, AppStarts
  <2>2. cleaning' \in {"up", "quiesce", "workflow", "closed", "failed"}
                     \union Ingress \union Delivery
    BY <2>0 DEF PlatformTypeOK, AppStarts, PlatformStartFails
  <2>3. sdk' \subseteq SdkParts
    BY <2>0 DEF PlatformTypeOK, AppStarts, SdkParts
  <2>4. setup' \in Setups
    BY <2>0 DEF PlatformTypeOK, AppStarts, PlatformStartFails, Setups
  <2> QED
    BY <2>0, <2>1, <2>2, <2>3, <2>4 DEF PlatformTypeOK, AppStarts
<1>2. DiscordShape' /\ TelegramShape' /\ StartInv'
  BY DEF PInv, AppStarts, PlatformStartFails, DiscordShape, TelegramShape, StartInv,
     Handling
<1>3. IngressInv' /\ DeliveryInv'
  BY DEF PInv, AppStarts, PlatformStartFails, Delivery, StartInv, IngressInv,
     DeliveryInv, Past
<1> QED
  BY <1>1, <1>2, <1>3 DEF PInv

LEMMA PollingStartsStep == ASSUME PInv, PollingStarts PROVE PInv'
<1>1. PlatformTypeOK'
  BY DEF PInv, PollingStarts, PlatformTypeOK, Setups, SdkParts
<1>2. DiscordShape' /\ TelegramShape' /\ StartInv'
  BY DEF PInv, PollingStarts, DiscordShape, TelegramShape, StartInv, Handling
<1>3. IngressInv' /\ DeliveryInv'
  BY DEF PInv, PollingStarts, StartInv, IngressInv, DeliveryInv, Past
<1> QED
  BY <1>1, <1>2, <1>3 DEF PInv

LEMMA CleanupStep == ASSUME PInv, Cleanup PROVE PInv'
<1>1. PlatformTypeOK'
  BY DEF PInv, Cleanup, PlatformTypeOK
<1>2. DiscordShape' /\ TelegramShape' /\ StartInv'
  BY DEF PInv, Cleanup, DiscordShape, TelegramShape, StartInv, Handling
<1>3. IngressInv' /\ DeliveryInv'
  BY DEF PInv, Cleanup, Delivery, IngressInv, DeliveryInv, Past, Handling
<1> QED
  BY <1>1, <1>2, <1>3 DEF PInv

LEMMA QuiesceRuntimeStep == ASSUME PInv, QuiesceRuntime PROVE PInv'
<1>1. PlatformTypeOK'
  BY DEF PInv, QuiesceRuntime, StopsApplication, Quiesced, PlatformTypeOK, Ingress
<1>2. DiscordShape' /\ TelegramShape' /\ StartInv'
  BY DEF PInv, QuiesceRuntime, StopsApplication, Quiesced, DiscordShape,
     TelegramShape, StartInv, Handling
<1>3. IngressInv' /\ DeliveryInv'
  <2>1. /\ accepting' = FALSE
        /\ UNCHANGED <<platform, sdk, exit, inbound, background, outboxClosed, limiterOn,
                       workflowOpen, raising>>
    BY DEF QuiesceRuntime
  <2>2. \/ cleaning' = "closing" /\ UNCHANGED connected
        \/ /\ cleaning' = "draining" /\ UNCHANGED connected
           /\ platform = "discord" /\ "open" \notin sdk
        \/ /\ cleaning' = "stopping" /\ UNCHANGED connected
           /\ platform = "telegram" /\ "polling" \notin sdk
        \/ /\ cleaning' \in {"workflow", "failed"} /\ connected' = FALSE
           /\ cleaning' = "workflow" => ~raising
           /\ platform = "telegram" /\ {"polling", "running"} \intersect sdk = {}
    <3>1. CASE {"open", "polling"} \intersect sdk # {}
      BY <3>1 DEF QuiesceRuntime
    <3>2. CASE {"open", "polling"} \intersect sdk = {} /\ platform = "discord"
      BY <3>2 DEF QuiesceRuntime
    <3>3. CASE {"open", "polling"} \intersect sdk = {} /\ platform = "telegram"
      <4>1. StopsApplication
        BY <3>3 DEF QuiesceRuntime
      <4>2. CASE "running" \in sdk
        BY <3>3, <4>1, <4>2 DEF StopsApplication
      <4>3. CASE "running" \notin sdk
        BY <2>1, <3>3, <4>1, <4>3 DEF StopsApplication, Quiesced
      <4> QED
        BY <4>2, <4>3
    <3> QED
      BY <3>1, <3>2, <3>3 DEF PInv, PlatformTypeOK
  <2>3. Handling' = Handling
    BY <2>1 DEF Handling
  <2>4. cleaning = "quiesce"
    BY DEF QuiesceRuntime
  <2>5. IngressInv'
    BY <2>1, <2>2, <2>3, <2>4
    DEF PInv, PlatformTypeOK, SdkParts, DiscordShape, TelegramShape, IngressInv, Past, Delivery
  <2>6. DeliveryInv'
    BY <2>1, <2>2, <2>4 DEF PInv, DeliveryInv, Delivery
  <2> QED
    BY <2>5, <2>6
<1> QED
  BY <1>1, <1>2, <1>3 DEF PInv

LEMMA IngressClosesStep == ASSUME PInv, IngressCloses PROVE PInv'
<1>1. PlatformTypeOK'
  <2>0. PlatformTypeOK
    BY DEF PInv
  <2>1. raising' \in BOOLEAN
    BY <2>0 DEF PlatformTypeOK, IngressCloses
  <2>2. faults' \in 0 .. MaxPlatformFaults
    BY <2>0, PlatformAssumption DEF PlatformTypeOK, IngressCloses, Fault
  <2>3. cleaning' \in {"up", "quiesce", "workflow", "closed", "failed"}
                     \union Ingress \union Delivery
    BY <2>0 DEF PlatformTypeOK, IngressCloses, StopsApplication, Quiesced, Ingress
  <2>4. sdk' \subseteq SdkParts
    BY <2>0 DEF PlatformTypeOK, IngressCloses
  <2>5. connected' \in BOOLEAN
    BY <2>0 DEF PlatformTypeOK, IngressCloses, StopsApplication, Quiesced
  <2> QED
    BY <2>0, <2>1, <2>2, <2>3, <2>4, <2>5 DEF PlatformTypeOK, IngressCloses
<1>2. DiscordShape' /\ TelegramShape' /\ StartInv'
  BY DEF PInv, IngressCloses, StopsApplication, Quiesced, Fault, DiscordShape,
     TelegramShape, StartInv, Handling
<1>3. IngressInv' /\ DeliveryInv'
  BY DEF PInv, IngressCloses, StopsApplication, Quiesced, Fault, PlatformTypeOK,
     Delivery, TelegramShape, StartInv, IngressInv, DeliveryInv, Past, Handling
<1> QED
  BY <1>1, <1>2, <1>3 DEF PInv

LEMMA ApplicationStopsStep == ASSUME PInv, ApplicationStops PROVE PInv'
<1>1. PlatformTypeOK'
  <2>0. PlatformTypeOK
    BY DEF PInv
  <2>1. raising' \in BOOLEAN
    BY <2>0 DEF PlatformTypeOK, ApplicationStops
  <2>2. faults' \in 0 .. MaxPlatformFaults
    BY <2>0, PlatformAssumption DEF PlatformTypeOK, ApplicationStops, Quiesced, Fault
  <2>3. cleaning' \in {"up", "quiesce", "workflow", "closed", "failed"}
                     \union Ingress \union Delivery
    BY <2>0 DEF PlatformTypeOK, ApplicationStops, Quiesced
  <2>4. sdk' \subseteq SdkParts
    BY <2>0 DEF PlatformTypeOK, ApplicationStops
  <2>5. connected' \in BOOLEAN
    BY <2>0 DEF PlatformTypeOK, ApplicationStops, Quiesced
  <2> QED
    BY <2>0, <2>1, <2>2, <2>3, <2>4, <2>5 DEF PlatformTypeOK, ApplicationStops
<1>2. DiscordShape' /\ TelegramShape' /\ StartInv'
  BY DEF PInv, ApplicationStops, Quiesced, Fault, DiscordShape, TelegramShape,
     StartInv, Handling
<1>3. IngressInv' /\ DeliveryInv'
  BY DEF PInv, ApplicationStops, Quiesced, Fault, PlatformTypeOK, Delivery,
     DiscordShape, TelegramShape, IngressInv, DeliveryInv, Past, Handling
<1> QED
  BY <1>1, <1>2, <1>3 DEF PInv

LEMMA StartTaskDrainedStep == ASSUME PInv, StartTaskDrained PROVE PInv'
<1>1. PlatformTypeOK'
  BY DEF PInv, StartTaskDrained, PlatformTypeOK, Ingress
<1>2. DiscordShape' /\ TelegramShape' /\ StartInv'
  BY DEF PInv, StartTaskDrained, DiscordShape, TelegramShape, StartInv
<1>3. IngressInv' /\ DeliveryInv'
  BY DEF PInv, StartTaskDrained, Delivery, IngressInv, DeliveryInv, Past, Handling
<1> QED
  BY <1>1, <1>2, <1>3 DEF PInv

LEMMA InboundDrainedStep == ASSUME PInv, InboundDrained PROVE PInv'
<1>1. PlatformTypeOK'
  BY DEF PInv, InboundDrained, Quiesced, PlatformTypeOK
<1>2. DiscordShape' /\ TelegramShape' /\ StartInv'
  BY DEF PInv, InboundDrained, Quiesced, DiscordShape, TelegramShape, StartInv
<1>3. IngressInv' /\ DeliveryInv'
  BY DEF PInv, InboundDrained, Quiesced, PlatformTypeOK, Delivery, DiscordShape,
     TelegramShape, IngressInv, DeliveryInv, Past, Handling
<1> QED
  BY <1>1, <1>2, <1>3 DEF PInv

LEMMA CleanupCancelledStep == ASSUME PInv, CleanupCancelled PROVE PInv'
<1>1. PlatformTypeOK'
  BY PlatformAssumption DEF PInv, CleanupCancelled, Fault, PlatformTypeOK
<1>2. DiscordShape' /\ TelegramShape' /\ StartInv'
  BY DEF PInv, CleanupCancelled, Fault, DiscordShape, TelegramShape, StartInv,
     Handling
<1>3. IngressInv' /\ DeliveryInv'
  BY DEF PInv, CleanupCancelled, Fault, IngressInv, DeliveryInv, Handling
<1> QED
  BY <1>1, <1>2, <1>3 DEF PInv

LEMMA WorkflowClosesStep == ASSUME PInv, WorkflowCloses PROVE PInv'
<1>1. PlatformTypeOK'
  <2>0. PlatformTypeOK
    BY DEF PInv
  <2>1. workflowOpen' \in BOOLEAN
    BY <2>0 DEF PlatformTypeOK, WorkflowCloses
  <2>2. faults' \in 0 .. MaxPlatformFaults
    BY <2>0, PlatformAssumption DEF PlatformTypeOK, WorkflowCloses, Fault
  <2>3. cleaning' \in {"up", "quiesce", "workflow", "closed", "failed"}
                     \union Ingress \union Delivery
    BY <2>0 DEF PlatformTypeOK, WorkflowCloses, Delivery
  <2> QED
    BY <2>0, <2>1, <2>2, <2>3 DEF PlatformTypeOK, WorkflowCloses
<1>2. DiscordShape' /\ TelegramShape' /\ StartInv'
  BY DEF PInv, WorkflowCloses, Fault, DiscordShape, TelegramShape, StartInv, Handling
<1>3. IngressInv' /\ DeliveryInv'
  BY DEF PInv, WorkflowCloses, Fault, Delivery, IngressInv, DeliveryInv, Past,
     Handling
<1> QED
  BY <1>1, <1>2, <1>3 DEF PInv

LEMMA OutboxClosesStep == ASSUME PInv, OutboxCloses PROVE PInv'
<1>1. PlatformTypeOK'
  BY DEF PInv, OutboxCloses, PlatformTypeOK, Delivery
<1>2. DiscordShape' /\ TelegramShape' /\ StartInv'
  BY DEF PInv, OutboxCloses, DiscordShape, TelegramShape, StartInv, Handling
<1>3. IngressInv' /\ DeliveryInv'
  BY DEF PInv, OutboxCloses, Delivery, IngressInv, DeliveryInv, Past, Handling
<1> QED
  BY <1>1, <1>2, <1>3 DEF PInv

LEMMA OutboxDrainedStep == ASSUME PInv, OutboxDrained PROVE PInv'
<1>1. PlatformTypeOK'
  BY DEF PInv, OutboxDrained, PlatformTypeOK, Delivery
<1>2. DiscordShape' /\ TelegramShape' /\ StartInv'
  BY DEF PInv, OutboxDrained, DiscordShape, TelegramShape, StartInv, Handling
<1>3. IngressInv' /\ DeliveryInv'
  BY DEF PInv, OutboxDrained, Delivery, IngressInv, DeliveryInv, Handling
<1> QED
  BY <1>1, <1>2, <1>3 DEF PInv

LEMMA LimiterShutsDownStep == ASSUME PInv, LimiterShutsDown PROVE PInv'
<1>1. PlatformTypeOK'
  <2>0. PlatformTypeOK
    BY DEF PInv
  <2>1. raising' \in BOOLEAN
    BY <2>0 DEF PlatformTypeOK, LimiterShutsDown
  <2>2. faults' \in 0 .. MaxPlatformFaults
    <3>1. UNCHANGED faults \/ Fault
      BY Zenon DEF LimiterShutsDown
    <3> QED
      BY <2>0, <3>1, PlatformAssumption DEF PlatformTypeOK, Fault
  <2>3. cleaning' \in {"up", "quiesce", "workflow", "closed", "failed"}
                     \union Ingress \union Delivery
    BY <2>0 DEF PlatformTypeOK, LimiterShutsDown, CleanedUp, Delivery
  <2>4. limiterOn' \in BOOLEAN
    BY <2>0 DEF PlatformTypeOK, LimiterShutsDown
  <2> QED
    BY <2>0, <2>1, <2>2, <2>3, <2>4 DEF PlatformTypeOK, LimiterShutsDown
<1>2. DiscordShape' /\ TelegramShape' /\ StartInv'
  BY DEF PInv, LimiterShutsDown, Fault, CleanedUp, DiscordShape, TelegramShape,
     StartInv, Handling
<1>3. IngressInv' /\ DeliveryInv'
  BY DEF PInv, LimiterShutsDown, Fault, CleanedUp, PlatformTypeOK, Delivery,
     DiscordShape, IngressInv, DeliveryInv, Handling
<1> QED
  BY <1>1, <1>2, <1>3 DEF PInv

LEMMA ApplicationShutsDownStep == ASSUME PInv, ApplicationShutsDown PROVE PInv'
<1>1. PlatformTypeOK'
  <2>0. PlatformTypeOK
    BY DEF PInv
  <2>1. raising' \in BOOLEAN
    BY <2>0 DEF PlatformTypeOK, ApplicationShutsDown
  <2>2. faults' \in 0 .. MaxPlatformFaults
    BY <2>0, PlatformAssumption DEF PlatformTypeOK, ApplicationShutsDown, CleanedUp, Fault
  <2>3. cleaning' \in {"up", "quiesce", "workflow", "closed", "failed"}
                     \union Ingress \union Delivery
    BY <2>0 DEF PlatformTypeOK, ApplicationShutsDown, CleanedUp
  <2>4. sdk' \subseteq SdkParts
    BY <2>0 DEF PlatformTypeOK, ApplicationShutsDown
  <2> QED
    BY <2>0, <2>1, <2>2, <2>3, <2>4 DEF PlatformTypeOK, ApplicationShutsDown
<1>2. DiscordShape' /\ TelegramShape' /\ StartInv'
  BY DEF PInv, ApplicationShutsDown, Fault, CleanedUp, DiscordShape, TelegramShape,
     StartInv, Handling
<1>3. IngressInv' /\ DeliveryInv'
  BY DEF PInv, ApplicationShutsDown, Fault, CleanedUp, PlatformTypeOK, Delivery,
     DiscordShape, TelegramShape, IngressInv, DeliveryInv, Handling
<1> QED
  BY <1>1, <1>2, <1>3 DEF PInv

LEMMA DiscordEventStep ==
  ASSUME PInv, NEW e \in Events, DiscordEvent(e) PROVE PInv'
<1>1. PlatformTypeOK'
  BY DEF PInv, DiscordEvent, Arrives, PlatformTypeOK
<1>2. DiscordShape' /\ TelegramShape' /\ StartInv'
  BY DEF PInv, DiscordEvent, Arrives, DiscordShape, TelegramShape, StartInv
<1>3. IngressInv' /\ DeliveryInv'
  BY DEF PInv, DiscordEvent, Arrives, IngressInv, DeliveryInv
<1> QED
  BY <1>1, <1>2, <1>3 DEF PInv

LEMMA TelegramUpdateStep ==
  ASSUME PInv, NEW e \in Events, TelegramUpdate(e) PROVE PInv'
<1>1. PlatformTypeOK'
  BY DEF PInv, TelegramUpdate, Arrives, PlatformTypeOK
<1>2. DiscordShape' /\ TelegramShape' /\ StartInv'
  BY DEF PInv, TelegramUpdate, Arrives, DiscordShape, TelegramShape, StartInv
<1>3. IngressInv' /\ DeliveryInv'
  BY DEF PInv, TelegramUpdate, Arrives, IngressInv, DeliveryInv
<1> QED
  BY <1>1, <1>2, <1>3 DEF PInv

LEMMA HandlerMovesStep ==
  ASSUME PInv, NEW e \in Events, HandlerMoves(e) PROVE PInv'
<1>1. PlatformTypeOK'
  BY DEF PInv, HandlerMoves, PlatformTypeOK
<1>2. DiscordShape' /\ TelegramShape' /\ StartInv'
  BY DEF PInv, HandlerMoves, DiscordShape, TelegramShape, StartInv, Handling
<1>3. IngressInv' /\ DeliveryInv'
  BY DEF PInv, HandlerMoves, IngressInv, DeliveryInv, Handling
<1> QED
  BY <1>1, <1>2, <1>3 DEF PInv

LEMMA FireAndForgetStep ==
  ASSUME PInv, NEW n \in Notices, FireAndForget(n) PROVE PInv'
<1>1. PlatformTypeOK'
  BY DEF PInv, FireAndForget, PlatformTypeOK
<1>2. DiscordShape' /\ TelegramShape' /\ StartInv'
  BY DEF PInv, FireAndForget, DiscordShape, TelegramShape, StartInv, Handling
<1>3. IngressInv' /\ DeliveryInv'
  BY DEF PInv, FireAndForget, IngressInv, DeliveryInv, Handling
<1> QED
  BY <1>1, <1>2, <1>3 DEF PInv

LEMMA NoticeEndsStep ==
  ASSUME PInv, NEW n \in Notices, NoticeEnds(n) PROVE PInv'
<1>1. PlatformTypeOK'
  BY DEF PInv, NoticeEnds, PlatformTypeOK
<1>2. DiscordShape' /\ TelegramShape' /\ StartInv'
  BY DEF PInv, NoticeEnds, DiscordShape, TelegramShape, StartInv, Handling
<1>3. IngressInv' /\ DeliveryInv'
  BY DEF PInv, NoticeEnds, IngressInv, DeliveryInv, Handling
<1> QED
  BY <1>1, <1>2, <1>3 DEF PInv

-----------------------------------------------------------------------------
LEMMA PlatformFrame == ASSUME PInv, UNCHANGED platformVars PROVE PInv'
<1>1. PlatformTypeOK'
  BY DEF PInv, PlatformTypeOK, platformVars
<1>2. Handling' = Handling
  BY DEF platformVars, Handling
<1> QED
  BY <1>1, <1>2
  DEF PInv, platformVars, DiscordShape, TelegramShape, StartInv, IngressInv, DeliveryInv, Past

LEMMA PlatformStep == ASSUME PInv, [PlatformNext]_platformVars PROVE PInv'
<1>1. ASSUME PlatformStarts PROVE PInv'
  BY <1>1, StartReturnsStep, ObserveClientExitStep, ConnectionStepFailsStep, InitializedStep,
     AppStartsStep, PollingStartsStep DEF PlatformStarts
<1>2. ASSUME CleanupSteps PROVE PInv'
  BY <1>2, QuiesceRuntimeStep, IngressClosesStep, ApplicationStopsStep, StartTaskDrainedStep,
     InboundDrainedStep, WorkflowClosesStep, OutboxClosesStep, OutboxDrainedStep,
     LimiterShutsDownStep, ApplicationShutsDownStep DEF CleanupSteps
<1>3. ASSUME NEW e \in Events, DiscordEvent(e) \/ TelegramUpdate(e) \/ HandlerMoves(e)
      PROVE  PInv'
  BY <1>3, DiscordEventStep, TelegramUpdateStep, HandlerMovesStep
<1>4. ASSUME NEW n \in Notices, FireAndForget(n) \/ NoticeEnds(n)
      PROVE  PInv'
  BY <1>4, FireAndForgetStep, NoticeEndsStep
<1>5. CASE UNCHANGED platformVars
  BY <1>5, PlatformFrame
<1> QED
  BY <1>1, <1>2, <1>3, <1>4, <1>5, StartDiscordStep, StartTelegramStep, MarkConnectedStep,
     ClientExitsStep, StartCancelledStep, CleanupStep, CleanupCancelledStep DEF PlatformNext

LEMMA PlatformInvariance == PlatformSpec => []PInv
<1> QED
  BY PlatformInitInv, PlatformStep, PTL DEF PlatformSpec

(* The state of a runtime keeps its type for any bound on the faults.       *)
THEOREM PlatformTyped == PlatformSpec => []PlatformTypeOK
<1>1. PInv => PlatformTypeOK
  BY DEF PInv
<1> QED
  BY <1>1, PlatformInvariance, PTL

(* Whatever fails or is cancelled, and however often the cleanup is tried   *)
(* again: the outbox closes only behind every handler and the workflow and  *)
(* refuses nobody, a runtime never says it is connected when it is not, and *)
(* a cleanup that reports success left nothing (_cleanup_messaging).        *)
THEOREM PlatformCloses == PlatformSpec => []PlatformSound
<1>1. ASSUME PInv PROVE DeliveryOutlivesIngress
  BY <1>1 DEF PInv, DeliveryOutlivesIngress, IngressInv, DeliveryInv, Past
<1>2. ASSUME PInv PROVE ReadinessTold
  <2>1. setup = "started" /\ cleaning = "up" => (connected <=> exit # "seen")
    BY <1>2 DEF PInv, PlatformTypeOK, StartInv, TelegramShape
  <2> QED
    BY <1>2, <2>1 DEF PInv, ReadinessTold, IngressInv
<1>3. ASSUME PInv PROVE CleanupComplete
  BY <1>3 DEF PInv, CleanupComplete, IngressInv, DeliveryInv, Delivery
<1>4. PInv => PlatformSound
  BY <1>1, <1>2, <1>3 DEF PlatformSound
<1> QED
  BY <1>4, PlatformInvariance, PTL

------------------------------------------------------------------------------
(* PlatformDelivery: how far the tries and the batches of a call are.       *)
DeliveryKinds ==
  /\ messenger \in {"telegram", "discord"} /\ job \in {"send", "edit", "delete"}
  /\ at \in {"calling", "pausing", "returned", "raised", "cancelled"}

DeliveryFlags ==
  formatted \in BOOLEAN /\ plain \in BOOLEAN /\ last \in BOOLEAN /\ shown \in BOOLEAN

DeliveryCounts ==
  /\ attempt \in 0 .. MaxTries - 1 /\ calls \in 0 .. MaxTries + 1
  /\ sent \in Nat /\ lapses \in Nat
  /\ batch \in DOMAIN Doomed /\ single \in 0 .. Len(Doomed)

DeliveryMarks ==
  gone \subseteq Range(Doomed) /\ told \subseteq Range(Doomed) \union {"edit"}

(* The tries of the call under way.                                        *)
Tries == IF last THEN calls <= attempt + 1 ELSE calls = attempt

Unformatted == plain => formatted

(* Before a delivery returns, only calls that timed out have sent anything.*)
Sendings ==
  /\ job # "send" => sent = 0
  /\ at # "returned" => sent <= lapses
  /\ sent <= 1 + lapses

(* Where a deletion is, and that what lies behind it is dealt with.        *)
Position == IF single = 0 THEN batch ELSE single

Placed ==
  /\ job # "delete" => single = 0
  /\ job = "delete" /\ messenger = "discord" => single # 0
  /\ job = "delete" /\ messenger = "telegram" /\ single # 0 => single \in Batch

Behind ==
  job = "delete" =>
    \A k \in DOMAIN Doomed : k < Position \/ at = "returned" => Doomed[k] \in gone \union told

Delivered ==
  at = "returned" => /\ job = "send" => sent > 0
                     /\ job = "edit" => shown \/ "edit" \in told

OutboxInv ==
  /\ DeliveryKinds /\ DeliveryFlags /\ DeliveryCounts /\ DeliveryMarks
  /\ Tries /\ Unformatted /\ Sendings /\ Placed /\ Behind /\ Delivered

LEMMA Positions ==
  /\ Len(Doomed) \in Nat \ {0} /\ DOMAIN Doomed = 1 .. Len(Doomed)
  /\ \A k \in DOMAIN Doomed : Doomed[k] \in Range(Doomed)
<1>1. Len(Doomed) \in Nat /\ DOMAIN Doomed = 1 .. Len(Doomed)
  BY DeliveryAssumption
<1>2. Len(Doomed) # 0
  BY DeliveryAssumption
<1> QED
  BY <1>1, <1>2 DEF Range

LEMMA LastOfAll == EndOf(DOMAIN Doomed) = Len(Doomed)
<1>1. Len(Doomed) \in DOMAIN Doomed /\ \A j \in DOMAIN Doomed : j <= Len(Doomed)
  BY Positions
<1>2. \A k \in DOMAIN Doomed : (\A j \in DOMAIN Doomed : j <= k) => k = Len(Doomed)
  BY <1>1, Positions
<1> QED
  BY <1>1, <1>2 DEF EndOf

LEMMA LastOfBatch ==
  ASSUME batch \in DOMAIN Doomed
  PROVE  /\ EndOf(Batch) \in DOMAIN Doomed /\ batch <= EndOf(Batch)
         /\ \A k \in DOMAIN Doomed : k \in Batch <=> batch <= k /\ k <= EndOf(Batch)
<1> USE Positions, DeliveryAssumption
<1> DEFINE top == IF batch + BatchSize - 1 <= Len(Doomed) THEN batch + BatchSize - 1
                  ELSE Len(Doomed)
<1>1. top \in Batch /\ \A j \in Batch : j <= top
  BY DEF Batch
<1>2. \A k \in Batch : (\A j \in Batch : j <= k) => k = top
  BY <1>1 DEF Batch
<1>3. EndOf(Batch) = top
  BY <1>1, <1>2 DEF EndOf
<1>4. top \in DOMAIN Doomed /\ batch <= top
  BY DEF Batch
<1>5. \A k \in DOMAIN Doomed : k \in Batch <=> batch <= k /\ k <= top
  BY DEF Batch
<1> QED
  BY <1>3, <1>4, <1>5

LEMMA DeliveryInitInv == DeliveryInit => OutboxInv
<1> SUFFICES ASSUME DeliveryInit PROVE OutboxInv
  OBVIOUS
<1>1. DeliveryKinds /\ Tries /\ Sendings /\ Delivered
  BY DEF DeliveryInit, DeliveryKinds, Tries, Sendings, Delivered
<1>4. DeliveryFlags /\ Unformatted
  BY DEF DeliveryInit, DeliveryFlags, Unformatted
<1>2. DeliveryCounts /\ DeliveryMarks /\ Placed
  BY Positions DEF DeliveryInit, DeliveryCounts, DeliveryMarks, Placed, FirstSingle, MaxTries
<1>3. Behind
  BY Positions DEF DeliveryInit, Behind, Position, FirstSingle
<1> QED
  BY <1>1, <1>2, <1>3, <1>4 DEF OutboxInv

(* What is gone or refused stays so.                                       *)
Grows == gone \subseteq gone' /\ told \subseteq told'

(* A step goes on with the call under way or begins another one.           *)
CallKept == NewCall \/ UNCHANGED <<attempt, last, calls, plain>>

LEMMA CallTypes ==
  ASSUME OutboxInv, CallKept, UNCHANGED formatted
  PROVE  /\ attempt' \in 0 .. MaxTries - 1 /\ calls' \in 0 .. MaxTries + 1
         /\ last' \in BOOLEAN /\ plain' \in BOOLEAN /\ Tries' /\ Unformatted'
<1> USE DEF OutboxInv, CallKept, NewCall
<1>1. attempt' \in 0 .. MaxTries - 1 /\ calls' \in 0 .. MaxTries + 1
  BY DEF DeliveryCounts, MaxTries
<1>2. last' \in BOOLEAN /\ plain' \in BOOLEAN /\ Unformatted'
  <2>1. CASE NewCall
    BY <2>1 DEF Unformatted
  <2>2. CASE UNCHANGED <<attempt, last, calls, plain>>
    BY <2>2 DEF DeliveryFlags, Unformatted
  <2> QED
    BY <2>1, <2>2
<1>3. Tries'
  BY DEF Tries
<1> QED
  BY <1>1, <1>2, <1>3

LEMMA AdvanceKeeps ==
  ASSUME OutboxInv, at = "calling", Advance, UNCHANGED <<messenger, job, formatted>>,
         Grows,
         job = "send" => sent' > 0,
         job = "edit" => shown' \/ "edit" \in told',
         job = "delete" /\ single = 0 => \A k \in Batch : Doomed[k] \in gone' \union told',
         job = "delete" /\ single # 0 => Doomed[single] \in gone' \union told'
  PROVE  /\ at' \in {"calling", "returned"} /\ CallKept
         /\ batch' \in DOMAIN Doomed /\ single' \in 0 .. Len(Doomed)
         /\ Placed' /\ Behind' /\ Delivered'
         /\ at' = "calling" => job = "delete"
<1> USE Positions, LastOfAll, LastOfBatch DEF OutboxInv, DeliveryCounts
<1> DEFINE here == IF messenger = "discord" THEN DOMAIN Doomed ELSE Batch
           done == IF Bulk THEN EndOf(here) ELSE single
<1>1. CASE job # "delete"
  <2>1. Ends("returned")
    BY <1>1 DEF Advance
  <2> QED
    BY <1>1, <2>1 DEF Ends, CallKept, Placed, Behind, Delivered
<1>2. CASE job = "delete"
  <2>1. /\ done \in DOMAIN Doomed /\ EndOf(here) \in DOMAIN Doomed /\ done <= EndOf(here)
        /\ Bulk => messenger = "telegram" /\ done = EndOf(here) /\ done = EndOf(Batch)
        /\ ~Bulk => done = single
    BY <1>2 DEF Placed, Bulk, DeliveryKinds
  <2>2. \A k \in DOMAIN Doomed : k <= done => Doomed[k] \in gone' \union told'
    <3>1. \A k \in DOMAIN Doomed : k < Position => Doomed[k] \in gone' \union told'
      BY <1>2 DEF Behind, Grows
    <3>2. CASE Bulk
      BY <1>2, <3>1, <3>2, <2>1 DEF Position, Bulk
    <3>3. CASE ~Bulk
      BY <1>2, <3>1, <3>3, <2>1 DEF Position, Bulk
    <3> QED
      BY <3>2, <3>3
  <2>n. /\ done < EndOf(here) =>
              single' = single + 1 /\ at' = "calling" /\ NewCall /\ batch' = batch
        /\ ~(done < EndOf(here)) /\ done = Len(Doomed) => Ends("returned")
        /\ ~(done < EndOf(here)) /\ done # Len(Doomed) =>
              batch' = done + 1 /\ single' = 0 /\ at' = "calling" /\ NewCall
    BY <1>2 DEF Advance
  <2>d. /\ messenger = "discord" => EndOf(here) = Len(Doomed)
        /\ messenger = "telegram" => EndOf(here) = EndOf(Batch)
    BY DEF DeliveryKinds
  <2>b. Bulk <=> single = 0
    BY <1>2 DEF Bulk
  <2> HIDE DEF here, done
  <2>3. CASE done < EndOf(here)
    <3>1. single' = single + 1 /\ at' = "calling" /\ NewCall /\ batch' = batch
      BY <2>n, <2>3
    <3>2. single = done /\ ~Bulk
      BY <2>1, <2>3
    <3>3. single' \in DOMAIN Doomed /\ (messenger = "telegram" => single' \in Batch)
      <4>1. single + 1 \in DOMAIN Doomed
        BY <2>1, <2>3, <3>2
      <4>2. ASSUME messenger = "telegram" PROVE single + 1 \in Batch
        <5>1. single \in Batch /\ single # 0
          BY <1>2, <2>b, <3>2, <4>2 DEF Placed
        <5>2. batch <= single /\ single \in DOMAIN Doomed
          BY <2>1, <3>2, <5>1
        <5>3. batch <= single + 1 /\ single + 1 <= EndOf(Batch)
          BY <2>1, <2>3, <2>d, <3>2, <4>2, <5>2
        <5> QED
          BY <4>1, <5>3
      <4> QED
        BY <3>1, <4>1, <4>2
    <3>4. Batch' = Batch
      BY <3>1 DEF Batch
    <3>5. Behind'
      BY <1>2, <2>2, <3>1, <3>2 DEF Behind, Position
    <3> QED
      BY <1>2, <3>1, <3>3, <3>4, <3>5 DEF CallKept, Placed, Delivered
  <2>4. CASE ~(done < EndOf(here)) /\ done = Len(Doomed)
    <3>1. Ends("returned")
      BY <2>n, <2>4
    <3>2. Behind'
      BY <1>2, <2>2, <2>4, <3>1 DEF Behind
    <3>3. Batch' = Batch
      BY <3>1 DEF Ends, Batch
    <3> QED
      BY <1>2, <3>1, <3>2, <3>3 DEF Ends, CallKept, Placed, Delivered
  <2>5. CASE ~(done < EndOf(here)) /\ done # Len(Doomed)
    <3>1. batch' = done + 1 /\ single' = 0 /\ at' = "calling" /\ NewCall
      BY <2>n, <2>5
    <3>2. done < Len(Doomed)
      BY <2>1, <2>5
    <3>3. messenger = "telegram" /\ done + 1 \in DOMAIN Doomed
      <4>1. done + 1 \in DOMAIN Doomed
        BY <2>1, <3>2
      <4>2. messenger # "discord"
        BY <2>1, <2>d, <2>5
      <4> QED
        BY <4>1, <4>2 DEF DeliveryKinds
    <3>4. Behind'
      BY <1>2, <2>1, <2>2, <3>1 DEF Behind, Position
    <3> QED
      BY <1>2, <3>1, <3>2, <3>3, <3>4 DEF CallKept, Placed, Delivered
  <2> QED
    BY <2>3, <2>4, <2>5
<1> QED
  BY <1>1, <1>2

LEMMA FailsKeeps ==
  ASSUME OutboxInv, at = "calling", Fails, UNCHANGED <<messenger, job, formatted>>, Grows
  PROVE  /\ at' \in {"calling", "raised"} /\ CallKept
         /\ batch' = batch /\ single' \in 0 .. Len(Doomed)
         /\ Placed' /\ Behind' /\ Delivered'
<1> USE Positions, LastOfBatch DEF OutboxInv, DeliveryCounts
<1>1. CASE Bulk
  <2>1. single' = batch /\ at' = "calling" /\ NewCall /\ batch' = batch
    BY <1>1 DEF Fails
  <2>2. batch \in Batch /\ Batch' = Batch
    BY <2>1 DEF Batch
  <2>3. Behind'
    BY <1>1, <2>1 DEF Behind, Position, Bulk, Grows
  <2> QED
    BY <1>1, <2>1, <2>2, <2>3 DEF CallKept, Placed, Delivered, Bulk
<1>2. CASE ~Bulk
  <2>1. Ends("raised")
    BY <1>2 DEF Fails
  <2>2. Batch' = Batch
    BY <2>1 DEF Ends, Batch
  <2> QED
    BY <2>1, <2>2 DEF Ends, CallKept, Placed, Delivered, Behind, Position, Grows
<1> QED
  BY <1>1, <1>2

LEMMA AgainKeeps ==
  ASSUME OutboxInv, at = "calling", NEW verdict \in {"again", "last", "plain"}, Again(verdict),
         ~last, verdict = "again" => attempt < MaxTries - 1, verdict = "plain" => formatted,
         UNCHANGED <<messenger, job, formatted>>, Grows
  PROVE  /\ at' \in {"calling", "pausing"} /\ plain' \in BOOLEAN /\ last' \in BOOLEAN
         /\ batch' = batch /\ single' = single
         /\ attempt' \in 0 .. MaxTries - 1 /\ calls' \in 0 .. MaxTries + 1
         /\ Tries' /\ Placed' /\ Behind' /\ Delivered' /\ Unformatted'
<1> USE DEF OutboxInv, DeliveryCounts, DeliveryFlags, MaxTries
<1>1. Batch' = Batch
  BY DEF Again, Batch
<1>2. Placed' /\ Behind' /\ Delivered'
  BY <1>1 DEF Again, Placed, Behind, Position, Delivered, Grows
<1>3. Tries' /\ attempt' \in 0 .. MaxTries - 1 /\ calls' \in 0 .. MaxTries + 1
  <2>1. CASE verdict = "again"
    BY <2>1 DEF Again, Tries
  <2>2. CASE verdict # "again"
    <3>1. attempt' = attempt /\ calls' = calls + 1 /\ calls = attempt
      BY <2>2 DEF Again, Tries
    <3>2. last'
      BY <2>2 DEF Again
    <3>3. attempt' \in 0 .. MaxTries - 1 /\ calls' \in 0 .. MaxTries + 1 /\ calls' <= attempt' + 1
      BY <3>1
    <3> QED
      BY <3>2, <3>3 DEF Tries
  <2> QED
    BY <2>1, <2>2
<1>4. Unformatted' /\ plain' \in BOOLEAN /\ last' \in BOOLEAN
  BY DEF Again, Unformatted
<1> QED
  BY <1>2, <1>3, <1>4 DEF Again

LEMMA DeliverySucceeds ==
  ASSUME OutboxInv, CallSucceeds
  PROVE  OutboxInv'
<1> USE Positions, LastOfBatch DEF OutboxInv
<1>1. /\ at = "calling" /\ Takes /\ Advance /\ lapses' = lapses /\ told' = told
      /\ UNCHANGED <<messenger, job, formatted>>
  BY DEF CallSucceeds
<1>2. gone' \subseteq Range(Doomed) /\ gone \subseteq gone' /\ shown' \in BOOLEAN /\ sent' \in Nat
  <2>1. Bulk => \A k \in Batch : Doomed[k] \in Range(Doomed)
    BY DEF Batch
  <2>2. job = "delete" /\ ~Bulk => single \in DOMAIN Doomed
    BY DEF Bulk, DeliveryCounts
  <2>3. gone' \subseteq Range(Doomed) /\ gone \subseteq gone'
    BY <1>1, <2>1, <2>2 DEF Takes, Target, DeliveryMarks
  <2>4. sent' \in Nat
    BY <1>1 DEF Takes, DeliveryCounts
  <2>5. shown' \in BOOLEAN
    BY <1>1 DEF Takes, DeliveryFlags
  <2> QED
    BY <2>3, <2>4, <2>5
<1>3. job = "send" => sent' > 0
  BY <1>1 DEF Takes, DeliveryCounts
<1>4. job = "edit" => shown'
  BY <1>1 DEF Takes
<1>5. /\ job = "delete" /\ single = 0 => \A k \in Batch : Doomed[k] \in gone' \union told'
      /\ job = "delete" /\ single # 0 => Doomed[single] \in gone' \union told'
  BY <1>1 DEF Takes, Bulk, Target
<1>6. /\ at' \in {"calling", "returned"} /\ CallKept
      /\ batch' \in DOMAIN Doomed /\ single' \in 0 .. Len(Doomed)
      /\ Placed' /\ Behind' /\ Delivered'
      /\ at' = "calling" => job = "delete"
  BY <1>1, <1>2, <1>3, <1>4, <1>5, AdvanceKeeps DEF Grows
<1>7. Sendings'
  BY <1>1, <1>6 DEF Takes, Sendings, DeliveryCounts
<1>8. DeliveryKinds' /\ DeliveryMarks'
  BY <1>1, <1>2, <1>6 DEF DeliveryKinds, DeliveryMarks
<1>9. DeliveryFlags'
  BY <1>1, <1>2, <1>6, CallTypes DEF DeliveryFlags
<1>10. DeliveryCounts' /\ Tries' /\ Unformatted'
  BY <1>1, <1>2, <1>6, CallTypes DEF DeliveryCounts
<1> QED
  BY <1>6, <1>7, <1>8, <1>9, <1>10

(* What an answer may lead to.                                             *)
LEMMA Verdicts ==
  ASSUME OutboxInv, NEW a \in Replies,
         NEW verdict, verdict = IF messenger = "discord" THEN DiscordVerdict(a) ELSE Verdict(a)
  PROVE  /\ verdict \in {"raise", "known", "again", "last", "plain"}
         /\ verdict \in {"again", "last", "plain"} => ~last
         /\ verdict = "again" => attempt < MaxTries - 1
         /\ verdict = "plain" => formatted
         /\ verdict = "known" => KnownError(a) /\ job # "send"
BY DEF Verdict, DiscordVerdict, Replies, Texts, TimedOut, KnownError, OutboxInv, DeliveryKinds

LEMMA DeliveryFails ==
  ASSUME OutboxInv, CallFails
  PROVE  OutboxInv'
<1> USE Positions, LastOfBatch DEF OutboxInv
<1>1. PICK a \in Replies :
        /\ \/ NoEffect /\ UNCHANGED lapses
           \/ a = TimedOut /\ Takes /\ lapses' = lapses + 1
        /\ told' = IF ~KnownError(a) \/ Bulk THEN told
                   ELSE told \union {IF job = "edit" THEN "edit" ELSE Target}
        /\ Follows(IF messenger = "discord" THEN DiscordVerdict(a) ELSE Verdict(a))
  BY DEF CallFails
<1> DEFINE verdict == IF messenger = "discord" THEN DiscordVerdict(a) ELSE Verdict(a)
<1>2. at = "calling" /\ UNCHANGED <<messenger, job, formatted>> /\ Follows(verdict)
  BY <1>1 DEF CallFails
<1>3. /\ verdict \in {"raise", "known", "again", "last", "plain"}
      /\ verdict \in {"again", "last", "plain"} => ~last
      /\ verdict = "again" => attempt < MaxTries - 1
      /\ verdict = "plain" => formatted
      /\ verdict = "known" => KnownError(a) /\ job # "send"
  BY Verdicts
<1> HIDE DEF verdict
<1>t. job = "delete" /\ ~Bulk => single \in DOMAIN Doomed
  BY DEF Bulk, DeliveryCounts
<1>4. gone' \subseteq Range(Doomed) /\ gone \subseteq gone'
  <2>1. Bulk => \A k \in Batch : Doomed[k] \in Range(Doomed)
    BY DEF Batch
  <2> QED
    BY <1>1, <1>t, <2>1 DEF NoEffect, Takes, Target, DeliveryMarks
<1>5. told' \subseteq Range(Doomed) \union {"edit"} /\ told \subseteq told'
  <2>1. KnownError(a) /\ ~Bulk => job \in {"edit", "delete"}
    BY DEF KnownError, Replies, Texts, TimedOut, DeliveryKinds
  <2> QED
    BY <1>1, <1>t, <2>1 DEF Target, DeliveryMarks
<1>6. shown' \in BOOLEAN
  BY <1>1 DEF NoEffect, Takes, DeliveryFlags
<1>7. /\ sent' \in Nat /\ lapses' \in Nat /\ sent' <= lapses'
      /\ job # "send" => sent' = 0
  BY <1>1, <1>2 DEF NoEffect, Takes, Sendings, DeliveryCounts
<1>s. Sendings'
  <2>1. sent' <= 1 + lapses'
    <3>1. \A x, y \in Nat : x <= y => x <= 1 + y
      OBVIOUS
    <3> QED
      BY <1>7, <3>1
  <2>2. job' = job
    BY <1>2
  <2> QED
    BY <1>7, <2>1, <2>2 DEF Sendings
<1>8. CASE verdict = "raise" \/ (verdict = "known" /\ Bulk)
  <2>1. Fails
    BY <1>2, <1>8 DEF Follows
  <2>2. /\ at' \in {"calling", "raised"} /\ CallKept
        /\ batch' = batch /\ single' \in 0 .. Len(Doomed)
        /\ Placed' /\ Behind' /\ Delivered'
    BY <1>2, <1>4, <1>5, <2>1, FailsKeeps DEF Grows
  <2>3. Sendings' /\ DeliveryKinds' /\ DeliveryMarks'
    <3>1. Sendings'
      BY <1>s
    <3>2. DeliveryKinds'
      BY <1>2, <2>2 DEF DeliveryKinds
    <3>3. DeliveryMarks'
      BY <1>4, <1>5 DEF DeliveryMarks
    <3> QED
      BY <3>1, <3>2, <3>3
  <2>4. DeliveryFlags'
    BY <1>2, <1>6, <2>2, CallTypes DEF DeliveryFlags
  <2>5. DeliveryCounts' /\ Tries' /\ Unformatted'
    BY <1>2, <1>7, <2>2, CallTypes DEF DeliveryCounts
  <2> QED
    BY <2>2, <2>3, <2>4, <2>5
<1>9. CASE verdict = "known" /\ ~Bulk
  <2>1. Advance
    BY <1>2, <1>9 DEF Follows
  <2>2. /\ job # "send" /\ told' = told \union {IF job = "edit" THEN "edit" ELSE Target}
    BY <1>1, <1>3, <1>9
  <2>3. /\ at' \in {"calling", "returned"} /\ CallKept
        /\ batch' \in DOMAIN Doomed /\ single' \in 0 .. Len(Doomed)
        /\ Placed' /\ Behind' /\ Delivered'
    BY <1>2, <1>4, <1>5, <1>9, <2>1, <2>2, AdvanceKeeps DEF Grows, Bulk, Target
  <2>4. Sendings' /\ DeliveryKinds' /\ DeliveryMarks'
    <3>1. Sendings'
      BY <1>s
    <3>2. DeliveryKinds'
      BY <1>2, <2>3 DEF DeliveryKinds
    <3>3. DeliveryMarks'
      BY <1>4, <1>5 DEF DeliveryMarks
    <3> QED
      BY <3>1, <3>2, <3>3
  <2>5. DeliveryFlags'
    BY <1>2, <1>6, <2>3, CallTypes DEF DeliveryFlags
  <2>6. DeliveryCounts' /\ Tries' /\ Unformatted'
    BY <1>2, <1>7, <2>3, CallTypes DEF DeliveryCounts
  <2> QED
    BY <2>3, <2>4, <2>5, <2>6
<1>10. CASE verdict \in {"again", "last", "plain"}
  <2>1. Again(verdict)
    BY <1>2, <1>10 DEF Follows
  <2>2. /\ at' \in {"calling", "pausing"} /\ plain' \in BOOLEAN /\ last' \in BOOLEAN
        /\ batch' = batch /\ single' = single
        /\ attempt' \in 0 .. MaxTries - 1 /\ calls' \in 0 .. MaxTries + 1
        /\ Tries' /\ Placed' /\ Behind' /\ Delivered' /\ Unformatted'
    BY <1>2, <1>3, <1>4, <1>5, <1>10, <2>1, AgainKeeps DEF Grows
  <2>3. Sendings' /\ DeliveryKinds' /\ DeliveryMarks'
    <3>1. Sendings'
      BY <1>s
    <3>2. DeliveryKinds'
      BY <1>2, <2>2 DEF DeliveryKinds
    <3>3. DeliveryMarks'
      BY <1>4, <1>5 DEF DeliveryMarks
    <3> QED
      BY <3>1, <3>2, <3>3
  <2>4. DeliveryFlags'
    BY <1>2, <1>6, <2>2 DEF DeliveryFlags
  <2>5. DeliveryCounts'
    BY <1>7, <2>2 DEF DeliveryCounts
  <2> QED
    BY <2>2, <2>3, <2>4, <2>5
<1> QED
  BY <1>3, <1>8, <1>9, <1>10

LEMMA DeliveryRests ==
  ASSUME OutboxInv,
         PauseEnds \/ DeliveryCancelled \/ UNCHANGED deliveryVars
  PROVE  OutboxInv'
<1> USE DEF OutboxInv, PauseEnds, DeliveryCancelled, deliveryVars
<1>1. Batch' = Batch
  BY DEF Batch
<1>2. DeliveryKinds' /\ DeliveryMarks' /\ DeliveryCounts' /\ Tries' /\ Sendings'
  BY DEF DeliveryKinds, DeliveryMarks, DeliveryCounts, Tries, Sendings
<1>3. DeliveryFlags' /\ Unformatted'
  BY DEF DeliveryFlags, Unformatted
<1>4. Placed'
  BY <1>1 DEF Placed
<1>5. Behind' /\ Delivered'
  BY DEF Behind, Position, Delivered
<1> QED
  BY <1>2, <1>3, <1>4, <1>5

LEMMA DeliveryInvSound == OutboxInv => DeliveryTypeOK /\ DeliverySound
<1> SUFFICES ASSUME OutboxInv PROVE DeliveryTypeOK /\ DeliverySound
  OBVIOUS
<1> USE DEF OutboxInv
<1>1. DeliveryTypeOK
  BY DEF DeliveryTypeOK, DeliveryKinds, DeliveryFlags, DeliveryCounts, DeliveryMarks
<1>2. ReturnedMeansDone
  <2>1. job = "delete" /\ at = "returned" => \A m \in Range(Doomed) : m \in gone \union told
    BY DEF Behind, Range
  <2> QED
    BY <2>1 DEF ReturnedMeansDone, Delivered, DeliveryKinds
<1>3. CallsBounded
  <2>1. calls <= MaxTries
    BY DEF Tries, DeliveryCounts, MaxTries
  <2> QED
    BY <2>1 DEF CallsBounded, Unformatted
<1> QED
  BY <1>1, <1>2, <1>3 DEF DeliverySound, SentOnceUnlessLapsed, Sendings

(* The same without fairness: the form the composition uses.               *)
LEMMA DeliveryKept ==
  DeliveryInit /\ [][DeliveryNext]_deliveryVars => []DeliveryTypeOK /\ []DeliverySound
<1>1. OutboxInv /\ [DeliveryNext]_deliveryVars => OutboxInv'
  BY DeliverySucceeds, DeliveryFails, DeliveryRests DEF DeliveryNext, DeliveryProgress
<1> QED
  BY DeliveryInitInv, DeliveryInvSound, <1>1, PTL

(* A delivery that returned did what it was asked, whatever the platform   *)
(* answered, however many messages there are to delete.                    *)
THEOREM DeliverySafe == DeliverySpec => []DeliveryTypeOK /\ []DeliverySound
BY DeliveryKept, PTL DEF DeliverySpec
==============================================================================
