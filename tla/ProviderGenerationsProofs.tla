---------------------- MODULE ProviderGenerationsProofs ----------------------
(***************************************************************************)
(* Theorems about the provider generations, for any requests, admin        *)
(* operations, shutdowns and number of runtimes, whatever is cancelled and *)
(* whatever cleanup fails: leases are counted exactly, no runtime is used  *)
(* during or after its cleanup, and none is forgotten.                     *)
(*                                                                         *)
(* The inductive invariant GInv says who holds the locks, which discovery  *)
(* task may still begin, and what the steps of replace and close carry     *)
(* from one await to the next.                                             *)
(***************************************************************************)
EXTENDS ProviderGenerations, FiniteSetTheorems, TLAPS

(* The steps an admin takes inside _replace_lock, those of them before a   *)
(* replacement is published, and the steps a closer takes.                 *)
Preparing == {"replacing", "discovering", "holding", "retrying", "discarding"}
Inside == Preparing \union {"closingPrevious"}
Retiring == {"draining", "closing", "retrying"}

(* One process at a time is inside each lock, and shutdown is final.       *)
LocksInv ==
  /\ \A a \in Admins : stepOf[a] \in Inside => lock = a
  /\ \A x \in Closers :
       /\ stepOf[x] \in Retiring \union {"locking", "rejecting"} => closeLock = x
       /\ stepOf[x] = "rejecting" => lock = x
       /\ stepOf[x] \in Retiring \union {"rejecting"} => closing
  /\ lock \in Admins => ~closing
  /\ closedAll => closing

(* Only the current generation has a discovery task that may still begin,  *)
(* and none while a replacement is prepared or the manager shuts down.     *)
RefreshInv ==
  /\ \A r \in Runtimes : refresh[r] = "ready" => refreshTask = r
  /\ refreshTask # None => refreshTask = current /\ ~closing
  /\ \A a \in Admins : stepOf[a] \in Preparing => refreshTask = None
  /\ (\A p \in Processes : stepOf[p] = "idle") => current = 1 /\ ~closing

(* Before shutdown the current generation is neither retired nor closed.   *)
CurrentInv ==
  /\ current \notin unpublished
  /\ ~closing => current \notin retired \union closed /\ cleanup[current] = "none"

Used(r) == Holders(r) # {} \/ refresh[r] = "running"

(* Whatever is used was published and is not being cleaned up.             *)
UsedInv ==
  /\ \A p \in Clients \union Admins : stepOf[p] = "holding" => uses[p] \in Runtimes
  /\ \A r \in Runtimes : Used(r) =>
       r \in 1 .. built /\ r \notin unpublished \union closed /\ cleanup[r] = "none"

(* Nothing is known of a runtime before it is built.                       *)
BuiltInv ==
  /\ \A r \in Runtimes : r > built => refresh[r] = "none" /\ cleanup[r] = "none"
  /\ \A x \in Closers : gens[x] \subseteq 1 .. built

(* What a retry or a discard has still to clean up is unpublished, or was  *)
(* closed meanwhile.                                                       *)
TodoInv ==
  \A p \in Admins \union Closers :
    stepOf[p] \in {"retrying", "discarding"} => todo[p] \subseteq unpublished \union closed

(* What a closer closes covers all that is retired.                        *)
RetiredInv ==
  \A x \in Closers : stepOf[x] \in Retiring =>
    retired \subseteq gens[x] /\ current \in retired \union closed

GInv ==
  /\ GenerationsTypeOK /\ LocksInv /\ RefreshInv /\ CurrentInv /\ UsedInv /\ BuiltInv
  /\ TodoInv /\ RetiredInv /\ LeasesCounted /\ NothingLeaked

LEMMA GenerationsInitInv == GenerationsInit => GInv
<1> SUFFICES ASSUME GenerationsInit PROVE GInv
  OBVIOUS
<1> USE RuntimeAssumption, ProcessAssumption DEF GenerationsInit, Runtimes, Processes
<1>1. Holders(1) = {} /\ \A r \in Runtimes : Holders(r) = {}
  BY DEF Holders
<1>2. GenerationsTypeOK
  <2>1. /\ built \in Runtimes /\ current \in 1 .. built
        /\ active \in [Runtimes -> Nat]
        /\ cleanup \in [Runtimes -> {"none", "running"}]
        /\ refresh \in [Runtimes -> {"none", "ready", "running", "done"}]
    OBVIOUS
  <2>2. stepOf \in [Processes -> {"idle"}]
    OBVIOUS
  <2>3. /\ uses \in [Processes -> Runtimes \union {None}]
        /\ todo \in [Processes -> SUBSET Runtimes]
        /\ gens \in [Processes -> SUBSET Runtimes]
    OBVIOUS
  <2> QED
    BY <2>1, <2>2, <2>3 DEF GenerationsTypeOK, Steps
<1>3. LocksInv /\ RefreshInv /\ CurrentInv /\ BuiltInv /\ TodoInv
      /\ RetiredInv /\ NothingLeaked
  BY DEF LocksInv, RefreshInv, CurrentInv, BuiltInv, TodoInv, RetiredInv,
     NothingLeaked, Inside, Preparing, Retiring
<1>4. UsedInv
  BY <1>1 DEF UsedInv, Used
<1>5. LeasesCounted
  <2>1. \A r \in Runtimes : Cardinality(Holders(r)) = 0
    BY <1>1, FS_EmptySet
  <2> QED
    BY <2>1 DEF LeasesCounted
<1> QED
  BY <1>2, <1>3, <1>4, <1>5 DEF GInv

------------------------------------------------------------------------------
(* A process moves from one step to the next.                              *)
LEMMA MoveTyped ==
  ASSUME GenerationsTypeOK, NEW p \in Processes, NEW l \in Steps, MovesTo(p, l)
  PROVE  stepOf' \in [Processes -> Steps]
BY DEF GenerationsTypeOK, MovesTo

(* Publishing replaces the current generation; the admin closes the        *)
(* previous one itself if nobody uses it.                                  *)
Replaced ==
  /\ built + 1 \in Runtimes
  /\ built' = built + 1 /\ current' = built + 1 /\ refreshTask' = built + 1
  /\ retired' = retired \union {current}
  /\ refresh' = [refresh EXCEPT ![built + 1] = "ready"]
  /\ unpublished' = unpublished /\ closed' = closed /\ active' = active /\ failed' = failed
  /\ closing' = closing /\ closedAll' = closedAll /\ closeLock' = closeLock
  /\ gens' = gens

ClosesPrevious(a) ==
  /\ active[current] = 0 /\ stepOf[a] = "retrying"
  /\ stepOf' = [stepOf EXCEPT ![a] = "closingPrevious"]
  /\ uses' = [uses EXCEPT ![a] = current]
  /\ cleanup' = [r \in Runtimes |->
       IF r = current /\ r \notin closed THEN "running" ELSE cleanup[r]]
  /\ lock' = lock /\ todo' = todo

LeavesPrevious(a) ==
  /\ active[current] # 0 /\ stepOf[a] = "retrying"
  /\ stepOf' = [stepOf EXCEPT ![a] = "done"]
  /\ uses' = [uses EXCEPT ![a] = None]
  /\ todo' = [todo EXCEPT ![a] = {}]
  /\ lock' = None /\ cleanup' = cleanup

LEMMA PublishEffect ==
  ASSUME GenerationsTypeOK, NEW a \in Admins, Publish(a)
  PROVE  Replaced /\ (ClosesPrevious(a) \/ LeavesPrevious(a))
<1>1. Replaced
  BY RuntimeAssumption
  DEF Publish, ReadyToBuild, GenerationsTypeOK, Runtimes, closeVars, Replaced
<1>2. CASE MayClean(current)
  <2>1. ClosesPrevious(a)
    BY <1>2 DEF Publish, ReadyToBuild, MayClean, MovesTo, CleanupStarted, ClosesPrevious
  <2> QED
    BY <1>1, <2>1
<1>3. CASE ~MayClean(current)
  <2>1. LeavesPrevious(a)
    BY <1>3 DEF Publish, ReadyToBuild, MayClean, MovesTo, EndAdmin, LeavesPrevious
  <2> QED
    BY <1>1, <2>1
<1> QED
  BY <1>2, <1>3

------------------------------------------------------------------------------
(* Who holds a lease.                                                      *)

(* Nobody takes or gives up a lease.                                       *)
UsersKept == \A p \in Clients \union Admins :
          /\ stepOf'[p] = "holding" <=> stepOf[p] = "holding"
          /\ stepOf[p] = "holding" => uses'[p] = uses[p]

LEMMA HoldersKept ==
  ASSUME UsersKept
  PROVE  \A r \in Runtimes : Holders(r)' = Holders(r)
BY DEF UsersKept, Holders

LEMMA HoldersFinite ==
  ASSUME NEW r \in Runtimes
  PROVE  IsFiniteSet(Holders(r)) /\ Cardinality(Holders(r)) \in Nat
<1>1. IsFiniteSet(Clients \union Admins)
  BY ProcessAssumption, FS_Union
<1>2. Holders(r) \subseteq Clients \union Admins
  BY DEF Holders
<1> QED
  BY <1>1, <1>2, FS_Subset, FS_CardinalityType

(* p takes a lease on r.                                                   *)
LEMMA HoldersTake ==
  ASSUME GenerationsTypeOK, NEW p \in Clients \union Admins, NEW r \in Runtimes,
         stepOf[p] # "holding",
         stepOf' = [stepOf EXCEPT ![p] = "holding"], uses' = [uses EXCEPT ![p] = r]
  PROVE  /\ Holders(r)' = Holders(r) \union {p}
         /\ Cardinality(Holders(r)') = Cardinality(Holders(r)) + 1
         /\ \A q \in Runtimes \ {r} : Holders(q)' = Holders(q)
<1>1. p \in Processes
  BY DEF Processes
<1>2. /\ Holders(r)' = Holders(r) \union {p} /\ p \notin Holders(r)
      /\ \A q \in Runtimes \ {r} : Holders(q)' = Holders(q)
  BY <1>1 DEF Holders, GenerationsTypeOK, Processes
<1> QED
  BY <1>2, HoldersFinite, FS_AddElement

(* p gives up its lease.                                                   *)
LEMMA HoldersDrop ==
  ASSUME GenerationsTypeOK, NEW p \in Clients \union Admins, NEW r \in Runtimes,
         stepOf[p] = "holding", uses[p] = r, NEW l, l # "holding", NEW u,
         stepOf' = [stepOf EXCEPT ![p] = l], uses' = [uses EXCEPT ![p] = u]
  PROVE  /\ Holders(r)' = Holders(r) \ {p} /\ p \in Holders(r)
         /\ Cardinality(Holders(r)') = Cardinality(Holders(r)) - 1
         /\ \A q \in Runtimes \ {r} : Holders(q)' = Holders(q)
<1>1. p \in Processes
  BY DEF Processes
<1>2. /\ Holders(r)' = Holders(r) \ {p} /\ p \in Holders(r)
      /\ \A q \in Runtimes \ {r} : Holders(q)' = Holders(q)
  BY <1>1 DEF Holders, GenerationsTypeOK, Processes
<1>3. Cardinality(Holders(r) \ {p}) = Cardinality(Holders(r)) - 1
  BY <1>2, HoldersFinite, FS_RemoveElement
<1> QED
  BY <1>2, <1>3

LEMMA LocksStep ==
  ASSUME GInv, [GenerationsNext]_generationsVars
  PROVE  LocksInv'
<1> USE RuntimeAssumption, ProcessAssumption
    DEF GInv, LocksInv, Inside, Preparing, Retiring, GenerationsTypeOK, MovesTo,
       ownerVars, closeVars, Runtimes, Processes
<1>1. ASSUME NEW c \in Clients, Acquire(c) PROVE LocksInv'
  BY <1>1 DEF Acquire, Acquired
<1>2. ASSUME NEW c \in Clients, Release(c) PROVE LocksInv'
  BY <1>2 DEF Release, Released, LastLease, CleanupStarted, WasRetired
<1>3. CASE StartRefresh
  BY <1>3 DEF StartRefresh
<1>4. ASSUME NEW r \in Runtimes, RefreshBegins(r) PROVE LocksInv'
  BY <1>4 DEF RefreshBegins, Acquired
<1>5. ASSUME NEW r \in Runtimes, RefreshEnds(r) PROVE LocksInv'
  BY <1>5 DEF RefreshEnds, Released, LastLease, CleanupStarted, WasRetired
<1>6. ASSUME NEW r \in Runtimes, CleanupSucceeds(r) PROVE LocksInv'
  BY <1>6 DEF CleanupSucceeds
<1>7. ASSUME NEW r \in Runtimes, CleanupFails(r) PROVE LocksInv'
  BY <1>7 DEF CleanupFails
<1>8. ASSUME NEW a \in Admins, Replace(a) PROVE LocksInv'
  BY <1>8 DEF Replace, Enter, CancelRefresh, RefreshCancelled
<1>9. ASSUME NEW a \in Admins, RefreshAll(a) PROVE LocksInv'
  BY <1>9 DEF RefreshAll, Enter, CancelRefresh, RefreshCancelled
<1>10. ASSUME NEW a \in Admins, BeginDiscovery(a) PROVE LocksInv'
  BY <1>10 DEF BeginDiscovery, Acquired, RefreshStopped
<1>11. ASSUME NEW a \in Admins, EndDiscovery(a) PROVE LocksInv'
  BY <1>11 DEF EndDiscovery, EndAdmin, Released, LastLease, CleanupStarted, WasRetired
<1>12. ASSUME NEW a \in Admins, BeginRetry(a) PROVE LocksInv'
  BY <1>12 DEF BeginRetry, RefreshStopped
<1>13. ASSUME NEW a \in Admins, BuildFails(a) PROVE LocksInv'
  BY <1>13 DEF BuildFails, EndAdmin, ReadyToBuild
<1>14. ASSUME NEW a \in Admins, CommitFails(a) PROVE LocksInv'
  BY <1>14 DEF CommitFails, ReadyToBuild, OwnedCandidates
<1>15. ASSUME NEW a \in Admins, Discard(a) PROVE LocksInv'
  BY <1>15 DEF Discard, EndAdmin
<1>16. ASSUME NEW a \in Admins, Publish(a) PROVE LocksInv'
  <2>1. CASE Replaced /\ ClosesPrevious(a)
    BY <2>1 DEF Replaced, ClosesPrevious
  <2>2. CASE Replaced /\ LeavesPrevious(a)
    BY <2>2 DEF Replaced, LeavesPrevious
  <2>3. GenerationsTypeOK
    OBVIOUS
  <2> QED
    BY <1>16, <2>1, <2>2, <2>3, PublishEffect
<1>17. ASSUME NEW a \in Admins, PreviousClosed(a) PROVE LocksInv'
  BY <1>17 DEF PreviousClosed, EndAdmin
<1>18. ASSUME NEW a \in Admins, CancelAdmin(a) PROVE LocksInv'
  BY <1>18
  DEF CancelAdmin, EndAdmin, LeaseGivenUp, Released, LastLease, CleanupStarted,
     WasRetired
<1>19. ASSUME NEW p \in Admins \union Closers, RetryOne(p) PROVE LocksInv'
  BY <1>19 DEF RetryOne
<1>20. ASSUME NEW x \in Closers, Close(x) PROVE LocksInv'
  BY <1>20 DEF Close
<1>21. ASSUME NEW x \in Closers, RejectLeases(x) PROVE LocksInv'
  BY <1>21 DEF RejectLeases, CancelRefresh, RefreshCancelled
<1>22. ASSUME NEW x \in Closers, RetireCurrent(x) PROVE LocksInv'
  BY <1>22 DEF RetireCurrent, WasRetired
<1>23. ASSUME NEW x \in Closers, DrainOne(x) PROVE LocksInv'
  BY <1>23 DEF DrainOne
<1>24. ASSUME NEW x \in Closers, CloseGenerations(x) PROVE LocksInv'
  BY <1>24 DEF CloseGenerations, CleanupStarted, MayClean
<1>25. ASSUME NEW x \in Closers, RetryUnpublished(x) PROVE LocksInv'
  BY <1>25 DEF RetryUnpublished
<1>26. ASSUME NEW x \in Closers, FinishClose(x) PROVE LocksInv'
  BY <1>26 DEF FinishClose, EndClose, EverythingClosed
<1>27. ASSUME NEW x \in Closers, CancelClose(x) PROVE LocksInv'
  BY <1>27 DEF CancelClose, EndClose
<1>28. CASE UNCHANGED generationsVars
  BY <1>28 DEF generationsVars
<1> QED
  BY <1>1, <1>2, <1>3, <1>4, <1>5, <1>6, <1>7, <1>8, <1>9, <1>10, <1>11,
     <1>12, <1>13, <1>14, <1>15, <1>16, <1>17, <1>18, <1>19, <1>20, <1>21,
     <1>22, <1>23, <1>24, <1>25, <1>26, <1>27, <1>28
  DEF GenerationsNext, GenerationsProgress, AdminStep, CloseStep, CleanupEnds

LEMMA RefreshStep ==
  ASSUME GInv, [GenerationsNext]_generationsVars
  PROVE  RefreshInv'
<1> USE RuntimeAssumption, ProcessAssumption
    DEF GInv, LocksInv, RefreshInv, Inside, Preparing, Retiring, GenerationsTypeOK,
       MovesTo, ownerVars, closeVars, Runtimes, Processes
<1>1. ASSUME NEW c \in Clients, Acquire(c) PROVE RefreshInv'
  BY <1>1 DEF Acquire, Acquired
<1>2. ASSUME NEW c \in Clients, Release(c) PROVE RefreshInv'
  BY <1>2 DEF Release, Released, LastLease, CleanupStarted, WasRetired
<1>3. CASE StartRefresh
  BY <1>3 DEF StartRefresh
<1>4. ASSUME NEW r \in Runtimes, RefreshBegins(r) PROVE RefreshInv'
  BY <1>4 DEF RefreshBegins, Acquired
<1>5. ASSUME NEW r \in Runtimes, RefreshEnds(r) PROVE RefreshInv'
  BY <1>5 DEF RefreshEnds, Released, LastLease, CleanupStarted, WasRetired
<1>6. ASSUME NEW r \in Runtimes, CleanupSucceeds(r) PROVE RefreshInv'
  BY <1>6 DEF CleanupSucceeds
<1>7. ASSUME NEW r \in Runtimes, CleanupFails(r) PROVE RefreshInv'
  BY <1>7 DEF CleanupFails
<1>8. ASSUME NEW a \in Admins, Replace(a) PROVE RefreshInv'
  BY <1>8 DEF Replace, Enter, CancelRefresh, RefreshCancelled
<1>9. ASSUME NEW a \in Admins, RefreshAll(a) PROVE RefreshInv'
  BY <1>9 DEF RefreshAll, Enter, CancelRefresh, RefreshCancelled
<1>10. ASSUME NEW a \in Admins, BeginDiscovery(a) PROVE RefreshInv'
  BY <1>10 DEF BeginDiscovery, Acquired, RefreshStopped
<1>11. ASSUME NEW a \in Admins, EndDiscovery(a) PROVE RefreshInv'
  BY <1>11 DEF EndDiscovery, EndAdmin, Released, LastLease, CleanupStarted, WasRetired
<1>12. ASSUME NEW a \in Admins, BeginRetry(a) PROVE RefreshInv'
  BY <1>12 DEF BeginRetry, RefreshStopped
<1>13. ASSUME NEW a \in Admins, BuildFails(a) PROVE RefreshInv'
  BY <1>13 DEF BuildFails, EndAdmin, ReadyToBuild
<1>14. ASSUME NEW a \in Admins, CommitFails(a) PROVE RefreshInv'
  BY <1>14 DEF CommitFails, ReadyToBuild, OwnedCandidates
<1>15. ASSUME NEW a \in Admins, Discard(a) PROVE RefreshInv'
  BY <1>15 DEF Discard, EndAdmin
<1>16. ASSUME NEW a \in Admins, Publish(a) PROVE RefreshInv'
  <2>1. CASE Replaced /\ ClosesPrevious(a)
    BY <2>1 DEF Replaced, ClosesPrevious
  <2>2. CASE Replaced /\ LeavesPrevious(a)
    BY <2>2 DEF Replaced, LeavesPrevious
  <2>3. GenerationsTypeOK
    OBVIOUS
  <2> QED
    BY <1>16, <2>1, <2>2, <2>3, PublishEffect
<1>17. ASSUME NEW a \in Admins, PreviousClosed(a) PROVE RefreshInv'
  BY <1>17 DEF PreviousClosed, EndAdmin
<1>18. ASSUME NEW a \in Admins, CancelAdmin(a) PROVE RefreshInv'
  BY <1>18
  DEF CancelAdmin, EndAdmin, LeaseGivenUp, Released, LastLease, CleanupStarted,
     WasRetired
<1>19. ASSUME NEW p \in Admins \union Closers, RetryOne(p) PROVE RefreshInv'
  BY <1>19 DEF RetryOne
<1>20. ASSUME NEW x \in Closers, Close(x) PROVE RefreshInv'
  BY <1>20 DEF Close
<1>21. ASSUME NEW x \in Closers, RejectLeases(x) PROVE RefreshInv'
  BY <1>21 DEF RejectLeases, CancelRefresh, RefreshCancelled
<1>22. ASSUME NEW x \in Closers, RetireCurrent(x) PROVE RefreshInv'
  BY <1>22 DEF RetireCurrent, WasRetired
<1>23. ASSUME NEW x \in Closers, DrainOne(x) PROVE RefreshInv'
  BY <1>23 DEF DrainOne
<1>24. ASSUME NEW x \in Closers, CloseGenerations(x) PROVE RefreshInv'
  BY <1>24 DEF CloseGenerations, CleanupStarted, MayClean
<1>25. ASSUME NEW x \in Closers, RetryUnpublished(x) PROVE RefreshInv'
  BY <1>25 DEF RetryUnpublished
<1>26. ASSUME NEW x \in Closers, FinishClose(x) PROVE RefreshInv'
  BY <1>26 DEF FinishClose, EndClose, EverythingClosed
<1>27. ASSUME NEW x \in Closers, CancelClose(x) PROVE RefreshInv'
  BY <1>27 DEF CancelClose, EndClose
<1>28. CASE UNCHANGED generationsVars
  BY <1>28 DEF generationsVars
<1> QED
  BY <1>1, <1>2, <1>3, <1>4, <1>5, <1>6, <1>7, <1>8, <1>9, <1>10, <1>11,
     <1>12, <1>13, <1>14, <1>15, <1>16, <1>17, <1>18, <1>19, <1>20, <1>21,
     <1>22, <1>23, <1>24, <1>25, <1>26, <1>27, <1>28
  DEF GenerationsNext, GenerationsProgress, AdminStep, CloseStep, CleanupEnds

LEMMA CurrentStep ==
  ASSUME GInv, [GenerationsNext]_generationsVars
  PROVE  CurrentInv'
<1> USE RuntimeAssumption, ProcessAssumption
    DEF GInv, LocksInv, CurrentInv, UsedInv, BuiltInv, TodoInv, Inside, Preparing,
       Retiring, GenerationsTypeOK, MovesTo, ownerVars, closeVars, Runtimes,
       Processes
<1>1. ASSUME NEW c \in Clients, Acquire(c) PROVE CurrentInv'
  BY <1>1 DEF Acquire, Acquired
<1>2. ASSUME NEW c \in Clients, Release(c) PROVE CurrentInv'
  BY <1>2 DEF Release, Released, LastLease, CleanupStarted, WasRetired
<1>3. CASE StartRefresh
  BY <1>3 DEF StartRefresh
<1>4. ASSUME NEW r \in Runtimes, RefreshBegins(r) PROVE CurrentInv'
  BY <1>4 DEF RefreshBegins, Acquired
<1>5. ASSUME NEW r \in Runtimes, RefreshEnds(r) PROVE CurrentInv'
  BY <1>5 DEF RefreshEnds, Released, LastLease, CleanupStarted, WasRetired
<1>6. ASSUME NEW r \in Runtimes, CleanupSucceeds(r) PROVE CurrentInv'
  BY <1>6 DEF CleanupSucceeds
<1>7. ASSUME NEW r \in Runtimes, CleanupFails(r) PROVE CurrentInv'
  BY <1>7 DEF CleanupFails
<1>8. ASSUME NEW a \in Admins, Replace(a) PROVE CurrentInv'
  BY <1>8 DEF Replace, Enter, CancelRefresh, RefreshCancelled
<1>9. ASSUME NEW a \in Admins, RefreshAll(a) PROVE CurrentInv'
  BY <1>9 DEF RefreshAll, Enter, CancelRefresh, RefreshCancelled
<1>10. ASSUME NEW a \in Admins, BeginDiscovery(a) PROVE CurrentInv'
  BY <1>10 DEF BeginDiscovery, Acquired, RefreshStopped
<1>11. ASSUME NEW a \in Admins, EndDiscovery(a) PROVE CurrentInv'
  BY <1>11 DEF EndDiscovery, EndAdmin, Released, LastLease, CleanupStarted, WasRetired
<1>12. ASSUME NEW a \in Admins, BeginRetry(a) PROVE CurrentInv'
  BY <1>12 DEF BeginRetry, RefreshStopped
<1>13. ASSUME NEW a \in Admins, BuildFails(a) PROVE CurrentInv'
  BY <1>13 DEF BuildFails, EndAdmin, ReadyToBuild
<1>14. ASSUME NEW a \in Admins, CommitFails(a) PROVE CurrentInv'
  BY <1>14 DEF CommitFails, ReadyToBuild, OwnedCandidates
<1>15. ASSUME NEW a \in Admins, Discard(a) PROVE CurrentInv'
  BY <1>15 DEF Discard, EndAdmin
<1>16. ASSUME NEW a \in Admins, Publish(a) PROVE CurrentInv'
  BY <1>16 DEF Publish, EndAdmin, ReadyToBuild, MayClean, CleanupStarted
<1>17. ASSUME NEW a \in Admins, PreviousClosed(a) PROVE CurrentInv'
  BY <1>17 DEF PreviousClosed, EndAdmin
<1>18. ASSUME NEW a \in Admins, CancelAdmin(a) PROVE CurrentInv'
  BY <1>18
  DEF CancelAdmin, EndAdmin, LeaseGivenUp, Released, LastLease, CleanupStarted,
     WasRetired
<1>19. ASSUME NEW p \in Admins \union Closers, RetryOne(p) PROVE CurrentInv'
  BY <1>19 DEF RetryOne
<1>20. ASSUME NEW x \in Closers, Close(x) PROVE CurrentInv'
  BY <1>20 DEF Close
<1>21. ASSUME NEW x \in Closers, RejectLeases(x) PROVE CurrentInv'
  BY <1>21 DEF RejectLeases, CancelRefresh, RefreshCancelled
<1>22. ASSUME NEW x \in Closers, RetireCurrent(x) PROVE CurrentInv'
  BY <1>22 DEF RetireCurrent, WasRetired
<1>23. ASSUME NEW x \in Closers, DrainOne(x) PROVE CurrentInv'
  BY <1>23 DEF DrainOne
<1>24. ASSUME NEW x \in Closers, CloseGenerations(x) PROVE CurrentInv'
  BY <1>24 DEF CloseGenerations, CleanupStarted, MayClean
<1>25. ASSUME NEW x \in Closers, RetryUnpublished(x) PROVE CurrentInv'
  BY <1>25 DEF RetryUnpublished
<1>26. ASSUME NEW x \in Closers, FinishClose(x) PROVE CurrentInv'
  BY <1>26 DEF FinishClose, EndClose, EverythingClosed
<1>27. ASSUME NEW x \in Closers, CancelClose(x) PROVE CurrentInv'
  BY <1>27 DEF CancelClose, EndClose
<1>28. CASE UNCHANGED generationsVars
  BY <1>28 DEF generationsVars
<1> QED
  BY <1>1, <1>2, <1>3, <1>4, <1>5, <1>6, <1>7, <1>8, <1>9, <1>10, <1>11,
     <1>12, <1>13, <1>14, <1>15, <1>16, <1>17, <1>18, <1>19, <1>20, <1>21,
     <1>22, <1>23, <1>24, <1>25, <1>26, <1>27, <1>28
  DEF GenerationsNext, GenerationsProgress, AdminStep, CloseStep, CleanupEnds

LEMMA BuiltStep ==
  ASSUME GInv, [GenerationsNext]_generationsVars
  PROVE  BuiltInv'
<1> USE RuntimeAssumption, ProcessAssumption
    DEF GInv, BuiltInv, GenerationsTypeOK, MovesTo, ownerVars, closeVars, Runtimes,
       Processes
<1>1. ASSUME NEW c \in Clients, Acquire(c) PROVE BuiltInv'
  BY <1>1 DEF Acquire, Acquired
<1>2. ASSUME NEW c \in Clients, Release(c) PROVE BuiltInv'
  BY <1>2 DEF Release, Released, LastLease, CleanupStarted, WasRetired
<1>3. CASE StartRefresh
  BY <1>3 DEF StartRefresh
<1>4. ASSUME NEW r \in Runtimes, RefreshBegins(r) PROVE BuiltInv'
  BY <1>4 DEF RefreshBegins, Acquired
<1>5. ASSUME NEW r \in Runtimes, RefreshEnds(r) PROVE BuiltInv'
  BY <1>5 DEF RefreshEnds, Released, LastLease, CleanupStarted, WasRetired
<1>6. ASSUME NEW r \in Runtimes, CleanupSucceeds(r) PROVE BuiltInv'
  BY <1>6 DEF CleanupSucceeds
<1>7. ASSUME NEW r \in Runtimes, CleanupFails(r) PROVE BuiltInv'
  BY <1>7 DEF CleanupFails
<1>8. ASSUME NEW a \in Admins, Replace(a) PROVE BuiltInv'
  BY <1>8 DEF Replace, Enter, CancelRefresh, RefreshCancelled
<1>9. ASSUME NEW a \in Admins, RefreshAll(a) PROVE BuiltInv'
  BY <1>9 DEF RefreshAll, Enter, CancelRefresh, RefreshCancelled
<1>10. ASSUME NEW a \in Admins, BeginDiscovery(a) PROVE BuiltInv'
  BY <1>10 DEF BeginDiscovery, Acquired, RefreshStopped
<1>11. ASSUME NEW a \in Admins, EndDiscovery(a) PROVE BuiltInv'
  BY <1>11 DEF EndDiscovery, EndAdmin, Released, LastLease, CleanupStarted, WasRetired
<1>12. ASSUME NEW a \in Admins, BeginRetry(a) PROVE BuiltInv'
  BY <1>12 DEF BeginRetry, RefreshStopped
<1>13. ASSUME NEW a \in Admins, BuildFails(a) PROVE BuiltInv'
  BY <1>13 DEF BuildFails, EndAdmin, ReadyToBuild
<1>14. ASSUME NEW a \in Admins, CommitFails(a) PROVE BuiltInv'
  BY <1>14 DEF CommitFails, ReadyToBuild, OwnedCandidates
<1>15. ASSUME NEW a \in Admins, Discard(a) PROVE BuiltInv'
  BY <1>15 DEF Discard, EndAdmin
<1>16. ASSUME NEW a \in Admins, Publish(a) PROVE BuiltInv'
  <2>1. CASE Replaced /\ ClosesPrevious(a)
    BY <2>1 DEF Replaced, ClosesPrevious
  <2>2. CASE Replaced /\ LeavesPrevious(a)
    BY <2>2 DEF Replaced, LeavesPrevious
  <2>3. GenerationsTypeOK
    OBVIOUS
  <2> QED
    BY <1>16, <2>1, <2>2, <2>3, PublishEffect
<1>17. ASSUME NEW a \in Admins, PreviousClosed(a) PROVE BuiltInv'
  BY <1>17 DEF PreviousClosed, EndAdmin
<1>18. ASSUME NEW a \in Admins, CancelAdmin(a) PROVE BuiltInv'
  BY <1>18
  DEF CancelAdmin, EndAdmin, LeaseGivenUp, Released, LastLease, CleanupStarted,
     WasRetired
<1>19. ASSUME NEW p \in Admins \union Closers, RetryOne(p) PROVE BuiltInv'
  BY <1>19 DEF RetryOne
<1>20. ASSUME NEW x \in Closers, Close(x) PROVE BuiltInv'
  BY <1>20 DEF Close
<1>21. ASSUME NEW x \in Closers, RejectLeases(x) PROVE BuiltInv'
  BY <1>21 DEF RejectLeases, CancelRefresh, RefreshCancelled
<1>22. ASSUME NEW x \in Closers, RetireCurrent(x) PROVE BuiltInv'
  BY <1>22 DEF RetireCurrent, WasRetired
<1>23. ASSUME NEW x \in Closers, DrainOne(x) PROVE BuiltInv'
  BY <1>23 DEF DrainOne
<1>24. ASSUME NEW x \in Closers, CloseGenerations(x) PROVE BuiltInv'
  BY <1>24 DEF CloseGenerations, CleanupStarted, MayClean
<1>25. ASSUME NEW x \in Closers, RetryUnpublished(x) PROVE BuiltInv'
  BY <1>25 DEF RetryUnpublished
<1>26. ASSUME NEW x \in Closers, FinishClose(x) PROVE BuiltInv'
  BY <1>26 DEF FinishClose, EndClose, EverythingClosed
<1>27. ASSUME NEW x \in Closers, CancelClose(x) PROVE BuiltInv'
  BY <1>27 DEF CancelClose, EndClose
<1>28. CASE UNCHANGED generationsVars
  BY <1>28 DEF generationsVars
<1> QED
  BY <1>1, <1>2, <1>3, <1>4, <1>5, <1>6, <1>7, <1>8, <1>9, <1>10, <1>11,
     <1>12, <1>13, <1>14, <1>15, <1>16, <1>17, <1>18, <1>19, <1>20, <1>21,
     <1>22, <1>23, <1>24, <1>25, <1>26, <1>27, <1>28
  DEF GenerationsNext, GenerationsProgress, AdminStep, CloseStep, CleanupEnds

LEMMA TodoStep ==
  ASSUME GInv, [GenerationsNext]_generationsVars
  PROVE  TodoInv'
<1> USE RuntimeAssumption, ProcessAssumption
    DEF GInv, LocksInv, TodoInv, Inside, Preparing, Retiring, GenerationsTypeOK,
       MovesTo, ownerVars, closeVars, Runtimes, Processes
<1>1. ASSUME NEW c \in Clients, Acquire(c) PROVE TodoInv'
  <2>1. CASE closing \/ closedAll
    BY <1>1, <2>1 DEF Acquire
  <2>2. CASE ~closing /\ ~closedAll
    BY <1>1, <2>2 DEF Acquire, Acquired
  <2> QED
    BY <2>1, <2>2
<1>2. ASSUME NEW c \in Clients, Release(c) PROVE TodoInv'
  BY <1>2 DEF Release, Released, LastLease, CleanupStarted, WasRetired
<1>3. CASE StartRefresh
  BY <1>3 DEF StartRefresh
<1>4. ASSUME NEW r \in Runtimes, RefreshBegins(r) PROVE TodoInv'
  BY <1>4 DEF RefreshBegins, Acquired
<1>5. ASSUME NEW r \in Runtimes, RefreshEnds(r) PROVE TodoInv'
  BY <1>5 DEF RefreshEnds, Released, LastLease, CleanupStarted, WasRetired
<1>6. ASSUME NEW r \in Runtimes, CleanupSucceeds(r) PROVE TodoInv'
  BY <1>6 DEF CleanupSucceeds
<1>7. ASSUME NEW r \in Runtimes, CleanupFails(r) PROVE TodoInv'
  BY <1>7 DEF CleanupFails
<1>8. ASSUME NEW a \in Admins, Replace(a) PROVE TodoInv'
  <2>1. CASE closing \/ closedAll
    BY <1>8, <2>1 DEF Replace, Enter
  <2>2. CASE ~closing /\ ~closedAll
    BY <1>8, <2>2 DEF Replace, Enter, CancelRefresh, RefreshCancelled
  <2> QED
    BY <2>1, <2>2
<1>9. ASSUME NEW a \in Admins, RefreshAll(a) PROVE TodoInv'
  <2>1. CASE closing \/ closedAll
    BY <1>9, <2>1 DEF RefreshAll, Enter
  <2>2. CASE ~closing /\ ~closedAll
    BY <1>9, <2>2 DEF RefreshAll, Enter, CancelRefresh, RefreshCancelled
  <2> QED
    BY <2>1, <2>2
<1>10. ASSUME NEW a \in Admins, BeginDiscovery(a) PROVE TodoInv'
  BY <1>10 DEF BeginDiscovery, Acquired, RefreshStopped
<1>11. ASSUME NEW a \in Admins, EndDiscovery(a) PROVE TodoInv'
  BY <1>11 DEF EndDiscovery, EndAdmin, Released, LastLease, CleanupStarted, WasRetired
<1>12. ASSUME NEW a \in Admins, BeginRetry(a) PROVE TodoInv'
  BY <1>12 DEF BeginRetry, RefreshStopped
<1>13. ASSUME NEW a \in Admins, BuildFails(a) PROVE TodoInv'
  BY <1>13 DEF BuildFails, EndAdmin, ReadyToBuild
<1>14. ASSUME NEW a \in Admins, CommitFails(a) PROVE TodoInv'
  BY <1>14 DEF CommitFails, ReadyToBuild, OwnedCandidates
<1>15. ASSUME NEW a \in Admins, Discard(a) PROVE TodoInv'
  BY <1>15 DEF Discard, EndAdmin
<1>16. ASSUME NEW a \in Admins, Publish(a) PROVE TodoInv'
  <2>1. CASE Replaced /\ ClosesPrevious(a)
    BY <2>1 DEF Replaced, ClosesPrevious
  <2>2. CASE Replaced /\ LeavesPrevious(a)
    BY <2>2 DEF Replaced, LeavesPrevious
  <2>3. GenerationsTypeOK
    OBVIOUS
  <2> QED
    BY <1>16, <2>1, <2>2, <2>3, PublishEffect
<1>17. ASSUME NEW a \in Admins, PreviousClosed(a) PROVE TodoInv'
  BY <1>17 DEF PreviousClosed, EndAdmin
<1>18. ASSUME NEW a \in Admins, CancelAdmin(a) PROVE TodoInv'
  BY <1>18
  DEF CancelAdmin, EndAdmin, LeaseGivenUp, Released, LastLease, CleanupStarted,
     WasRetired
<1>19. ASSUME NEW p \in Admins \union Closers, RetryOne(p) PROVE TodoInv'
  BY <1>19 DEF RetryOne
<1>20. ASSUME NEW x \in Closers, Close(x) PROVE TodoInv'
  <2>1. CASE closedAll
    BY <1>20, <2>1 DEF Close
  <2>2. CASE ~closedAll
    BY <1>20, <2>2 DEF Close
  <2> QED
    BY <2>1, <2>2
<1>21. ASSUME NEW x \in Closers, RejectLeases(x) PROVE TodoInv'
  BY <1>21 DEF RejectLeases, CancelRefresh, RefreshCancelled
<1>22. ASSUME NEW x \in Closers, RetireCurrent(x) PROVE TodoInv'
  BY <1>22 DEF RetireCurrent, WasRetired
<1>23. ASSUME NEW x \in Closers, DrainOne(x) PROVE TodoInv'
  BY <1>23 DEF DrainOne
<1>24. ASSUME NEW x \in Closers, CloseGenerations(x) PROVE TodoInv'
  BY <1>24 DEF CloseGenerations, CleanupStarted, MayClean
<1>25. ASSUME NEW x \in Closers, RetryUnpublished(x) PROVE TodoInv'
  BY <1>25 DEF RetryUnpublished
<1>26. ASSUME NEW x \in Closers, FinishClose(x) PROVE TodoInv'
  BY <1>26 DEF FinishClose, EndClose, EverythingClosed
<1>27. ASSUME NEW x \in Closers, CancelClose(x) PROVE TodoInv'
  BY <1>27 DEF CancelClose, EndClose
<1>28. CASE UNCHANGED generationsVars
  BY <1>28 DEF generationsVars
<1> QED
  BY <1>1, <1>2, <1>3, <1>4, <1>5, <1>6, <1>7, <1>8, <1>9, <1>10, <1>11,
     <1>12, <1>13, <1>14, <1>15, <1>16, <1>17, <1>18, <1>19, <1>20, <1>21,
     <1>22, <1>23, <1>24, <1>25, <1>26, <1>27, <1>28
  DEF GenerationsNext, GenerationsProgress, AdminStep, CloseStep, CleanupEnds

LEMMA RetiredStep ==
  ASSUME GInv, [GenerationsNext]_generationsVars
  PROVE  RetiredInv'
<1> USE RuntimeAssumption, ProcessAssumption
    DEF GInv, LocksInv, RetiredInv, Inside, Preparing, Retiring, GenerationsTypeOK,
       MovesTo, ownerVars, closeVars, Runtimes, Processes
<1>1. ASSUME NEW c \in Clients, Acquire(c) PROVE RetiredInv'
  BY <1>1 DEF Acquire, Acquired
<1>2. ASSUME NEW c \in Clients, Release(c) PROVE RetiredInv'
  BY <1>2 DEF Release, Released, LastLease, CleanupStarted, WasRetired
<1>3. CASE StartRefresh
  BY <1>3 DEF StartRefresh
<1>4. ASSUME NEW r \in Runtimes, RefreshBegins(r) PROVE RetiredInv'
  BY <1>4 DEF RefreshBegins, Acquired
<1>5. ASSUME NEW r \in Runtimes, RefreshEnds(r) PROVE RetiredInv'
  BY <1>5 DEF RefreshEnds, Released, LastLease, CleanupStarted, WasRetired
<1>6. ASSUME NEW r \in Runtimes, CleanupSucceeds(r) PROVE RetiredInv'
  BY <1>6 DEF CleanupSucceeds
<1>7. ASSUME NEW r \in Runtimes, CleanupFails(r) PROVE RetiredInv'
  BY <1>7 DEF CleanupFails
<1>8. ASSUME NEW a \in Admins, Replace(a) PROVE RetiredInv'
  BY <1>8 DEF Replace, Enter, CancelRefresh, RefreshCancelled
<1>9. ASSUME NEW a \in Admins, RefreshAll(a) PROVE RetiredInv'
  BY <1>9 DEF RefreshAll, Enter, CancelRefresh, RefreshCancelled
<1>10. ASSUME NEW a \in Admins, BeginDiscovery(a) PROVE RetiredInv'
  BY <1>10 DEF BeginDiscovery, Acquired, RefreshStopped
<1>11. ASSUME NEW a \in Admins, EndDiscovery(a) PROVE RetiredInv'
  BY <1>11 DEF EndDiscovery, EndAdmin, Released, LastLease, CleanupStarted, WasRetired
<1>12. ASSUME NEW a \in Admins, BeginRetry(a) PROVE RetiredInv'
  BY <1>12 DEF BeginRetry, RefreshStopped
<1>13. ASSUME NEW a \in Admins, BuildFails(a) PROVE RetiredInv'
  BY <1>13 DEF BuildFails, EndAdmin, ReadyToBuild
<1>14. ASSUME NEW a \in Admins, CommitFails(a) PROVE RetiredInv'
  BY <1>14 DEF CommitFails, ReadyToBuild, OwnedCandidates
<1>15. ASSUME NEW a \in Admins, Discard(a) PROVE RetiredInv'
  BY <1>15 DEF Discard, EndAdmin
<1>16. ASSUME NEW a \in Admins, Publish(a) PROVE RetiredInv'
  BY <1>16 DEF Publish, EndAdmin, ReadyToBuild, MayClean, CleanupStarted
<1>17. ASSUME NEW a \in Admins, PreviousClosed(a) PROVE RetiredInv'
  BY <1>17 DEF PreviousClosed, EndAdmin
<1>18. ASSUME NEW a \in Admins, CancelAdmin(a) PROVE RetiredInv'
  BY <1>18
  DEF CancelAdmin, EndAdmin, LeaseGivenUp, Released, LastLease, CleanupStarted,
     WasRetired
<1>19. ASSUME NEW p \in Admins \union Closers, RetryOne(p) PROVE RetiredInv'
  BY <1>19 DEF RetryOne
<1>20. ASSUME NEW x \in Closers, Close(x) PROVE RetiredInv'
  BY <1>20 DEF Close
<1>21. ASSUME NEW x \in Closers, RejectLeases(x) PROVE RetiredInv'
  BY <1>21 DEF RejectLeases, CancelRefresh, RefreshCancelled
<1>22. ASSUME NEW x \in Closers, RetireCurrent(x) PROVE RetiredInv'
  BY <1>22 DEF RetireCurrent, WasRetired
<1>23. ASSUME NEW x \in Closers, DrainOne(x) PROVE RetiredInv'
  BY <1>23 DEF DrainOne
<1>24. ASSUME NEW x \in Closers, CloseGenerations(x) PROVE RetiredInv'
  BY <1>24 DEF CloseGenerations, CleanupStarted, MayClean
<1>25. ASSUME NEW x \in Closers, RetryUnpublished(x) PROVE RetiredInv'
  BY <1>25 DEF RetryUnpublished
<1>26. ASSUME NEW x \in Closers, FinishClose(x) PROVE RetiredInv'
  BY <1>26 DEF FinishClose, EndClose, EverythingClosed
<1>27. ASSUME NEW x \in Closers, CancelClose(x) PROVE RetiredInv'
  BY <1>27 DEF CancelClose, EndClose
<1>28. CASE UNCHANGED generationsVars
  BY <1>28 DEF generationsVars
<1> QED
  BY <1>1, <1>2, <1>3, <1>4, <1>5, <1>6, <1>7, <1>8, <1>9, <1>10, <1>11,
     <1>12, <1>13, <1>14, <1>15, <1>16, <1>17, <1>18, <1>19, <1>20, <1>21,
     <1>22, <1>23, <1>24, <1>25, <1>26, <1>27, <1>28
  DEF GenerationsNext, GenerationsProgress, AdminStep, CloseStep, CleanupEnds

LEMMA LeakStep ==
  ASSUME GInv, [GenerationsNext]_generationsVars
  PROVE  NothingLeaked'
<1> USE RuntimeAssumption, ProcessAssumption
    DEF GInv, LocksInv, RetiredInv, NothingLeaked, Inside, Preparing, Retiring,
       GenerationsTypeOK, MovesTo, ownerVars, closeVars, Runtimes, Processes
<1>1. ASSUME NEW c \in Clients, Acquire(c) PROVE NothingLeaked'
  BY <1>1 DEF Acquire, Acquired
<1>2. ASSUME NEW c \in Clients, Release(c) PROVE NothingLeaked'
  BY <1>2 DEF Release, Released, LastLease, CleanupStarted, WasRetired
<1>3. CASE StartRefresh
  BY <1>3 DEF StartRefresh
<1>4. ASSUME NEW r \in Runtimes, RefreshBegins(r) PROVE NothingLeaked'
  BY <1>4 DEF RefreshBegins, Acquired
<1>5. ASSUME NEW r \in Runtimes, RefreshEnds(r) PROVE NothingLeaked'
  BY <1>5 DEF RefreshEnds, Released, LastLease, CleanupStarted, WasRetired
<1>6. ASSUME NEW r \in Runtimes, CleanupSucceeds(r) PROVE NothingLeaked'
  BY <1>6 DEF CleanupSucceeds
<1>7. ASSUME NEW r \in Runtimes, CleanupFails(r) PROVE NothingLeaked'
  BY <1>7 DEF CleanupFails
<1>8. ASSUME NEW a \in Admins, Replace(a) PROVE NothingLeaked'
  BY <1>8 DEF Replace, Enter, CancelRefresh, RefreshCancelled
<1>9. ASSUME NEW a \in Admins, RefreshAll(a) PROVE NothingLeaked'
  BY <1>9 DEF RefreshAll, Enter, CancelRefresh, RefreshCancelled
<1>10. ASSUME NEW a \in Admins, BeginDiscovery(a) PROVE NothingLeaked'
  BY <1>10 DEF BeginDiscovery, Acquired, RefreshStopped
<1>11. ASSUME NEW a \in Admins, EndDiscovery(a) PROVE NothingLeaked'
  BY <1>11 DEF EndDiscovery, EndAdmin, Released, LastLease, CleanupStarted, WasRetired
<1>12. ASSUME NEW a \in Admins, BeginRetry(a) PROVE NothingLeaked'
  BY <1>12 DEF BeginRetry, RefreshStopped
<1>13. ASSUME NEW a \in Admins, BuildFails(a) PROVE NothingLeaked'
  BY <1>13 DEF BuildFails, EndAdmin, ReadyToBuild
<1>14. ASSUME NEW a \in Admins, CommitFails(a) PROVE NothingLeaked'
  BY <1>14 DEF CommitFails, ReadyToBuild, OwnedCandidates
<1>15. ASSUME NEW a \in Admins, Discard(a) PROVE NothingLeaked'
  BY <1>15 DEF Discard, EndAdmin
<1>16. ASSUME NEW a \in Admins, Publish(a) PROVE NothingLeaked'
  BY <1>16 DEF Publish, EndAdmin, ReadyToBuild, MayClean, CleanupStarted
<1>17. ASSUME NEW a \in Admins, PreviousClosed(a) PROVE NothingLeaked'
  BY <1>17 DEF PreviousClosed, EndAdmin
<1>18. ASSUME NEW a \in Admins, CancelAdmin(a) PROVE NothingLeaked'
  BY <1>18
  DEF CancelAdmin, EndAdmin, LeaseGivenUp, Released, LastLease, CleanupStarted,
     WasRetired
<1>19. ASSUME NEW p \in Admins \union Closers, RetryOne(p) PROVE NothingLeaked'
  BY <1>19 DEF RetryOne
<1>20. ASSUME NEW x \in Closers, Close(x) PROVE NothingLeaked'
  BY <1>20 DEF Close
<1>21. ASSUME NEW x \in Closers, RejectLeases(x) PROVE NothingLeaked'
  BY <1>21 DEF RejectLeases, CancelRefresh, RefreshCancelled
<1>22. ASSUME NEW x \in Closers, RetireCurrent(x) PROVE NothingLeaked'
  BY <1>22 DEF RetireCurrent, WasRetired
<1>23. ASSUME NEW x \in Closers, DrainOne(x) PROVE NothingLeaked'
  BY <1>23 DEF DrainOne
<1>24. ASSUME NEW x \in Closers, CloseGenerations(x) PROVE NothingLeaked'
  BY <1>24 DEF CloseGenerations, CleanupStarted, MayClean
<1>25. ASSUME NEW x \in Closers, RetryUnpublished(x) PROVE NothingLeaked'
  BY <1>25 DEF RetryUnpublished
<1>26. ASSUME NEW x \in Closers, FinishClose(x) PROVE NothingLeaked'
  BY <1>26 DEF FinishClose, EndClose, EverythingClosed
<1>27. ASSUME NEW x \in Closers, CancelClose(x) PROVE NothingLeaked'
  BY <1>27 DEF CancelClose, EndClose
<1>28. CASE UNCHANGED generationsVars
  BY <1>28 DEF generationsVars
<1> QED
  BY <1>1, <1>2, <1>3, <1>4, <1>5, <1>6, <1>7, <1>8, <1>9, <1>10, <1>11,
     <1>12, <1>13, <1>14, <1>15, <1>16, <1>17, <1>18, <1>19, <1>20, <1>21,
     <1>22, <1>23, <1>24, <1>25, <1>26, <1>27, <1>28
  DEF GenerationsNext, GenerationsProgress, AdminStep, CloseStep, CleanupEnds

(* A lease that is given up was counted.                                   *)
LEMMA ReleaseCounted ==
  ASSUME GInv, NEW r \in Runtimes
  PROVE  /\ Used(r) => active[r] > 0
         /\ active[r] = 0 <=> ~Used(r)
         /\ \A p \in Clients \union Admins : stepOf[p] = "holding" /\ uses[p] = r => Used(r)
<1>1. active[r] = Cardinality(Holders(r)) + (IF refresh[r] = "running" THEN 1 ELSE 0)
  BY DEF GInv, LeasesCounted
<1>2. Cardinality(Holders(r)) \in Nat /\ (Cardinality(Holders(r)) = 0 <=> Holders(r) = {})
  BY HoldersFinite, FS_EmptySet
<1>3. \A p \in Clients \union Admins : stepOf[p] = "holding" /\ uses[p] = r => p \in Holders(r)
  BY DEF Holders
<1> QED
  BY <1>1, <1>2, <1>3 DEF Used

(* GenerationsTypeOK in three parts.                                        *)
ScalarsOK ==
  /\ built \in Runtimes /\ current \in 1 .. built
  /\ retired \subseteq 1 .. built /\ unpublished \subseteq 1 .. built
  /\ closed \subseteq 1 .. built /\ failed \subseteq 1 .. built
  /\ refreshTask \in Runtimes \union {None}
  /\ closing \in BOOLEAN /\ closedAll \in BOOLEAN
  /\ lock \in Admins \union Closers \union {None}
  /\ closeLock \in Closers \union {None}

TasksOK ==
  /\ active \in [Runtimes -> Nat]
  /\ cleanup \in [Runtimes -> {"none", "running"}]
  /\ refresh \in [Runtimes -> {"none", "ready", "running", "done"}]

ProcessesOK ==
  /\ stepOf \in [Processes -> Steps]
  /\ uses \in [Processes -> Runtimes \union {None}]
  /\ todo \in [Processes -> SUBSET Runtimes]
  /\ gens \in [Processes -> SUBSET Runtimes]

LEMMA ScalarsStep ==
  ASSUME GInv, [GenerationsNext]_generationsVars
  PROVE  ScalarsOK'
<1> USE RuntimeAssumption, ProcessAssumption
    DEF GInv, GenerationsTypeOK, ScalarsOK, BuiltInv, TodoInv, MovesTo, ownerVars,
       closeVars, Runtimes, Processes
<1>1. ASSUME NEW c \in Clients, Acquire(c) PROVE ScalarsOK'
  <2>1. CASE closing \/ closedAll
    BY <1>1, <2>1 DEF Acquire
  <2>2. CASE ~closing /\ ~closedAll
    BY <1>1, <2>2 DEF Acquire, Acquired
  <2> QED
    BY <2>1, <2>2
<1>2. ASSUME NEW c \in Clients, Release(c) PROVE ScalarsOK'
  BY <1>2 DEF Release, Released, LastLease, CleanupStarted, WasRetired
<1>3. CASE StartRefresh
  BY <1>3 DEF StartRefresh
<1>4. ASSUME NEW r \in Runtimes, RefreshBegins(r) PROVE ScalarsOK'
  BY <1>4 DEF RefreshBegins, Acquired
<1>5. ASSUME NEW r \in Runtimes, RefreshEnds(r) PROVE ScalarsOK'
  BY <1>5 DEF RefreshEnds, Released, LastLease, CleanupStarted, WasRetired
<1>6. ASSUME NEW r \in Runtimes, CleanupSucceeds(r) PROVE ScalarsOK'
  BY <1>6 DEF CleanupSucceeds
<1>7. ASSUME NEW r \in Runtimes, CleanupFails(r) PROVE ScalarsOK'
  BY <1>7 DEF CleanupFails
<1>8. ASSUME NEW a \in Admins, Replace(a) PROVE ScalarsOK'
  <2>1. CASE closing \/ closedAll
    BY <1>8, <2>1 DEF Replace, Enter
  <2>2. CASE ~closing /\ ~closedAll
    BY <1>8, <2>2 DEF Replace, Enter, CancelRefresh, RefreshCancelled
  <2> QED
    BY <2>1, <2>2
<1>9. ASSUME NEW a \in Admins, RefreshAll(a) PROVE ScalarsOK'
  <2>1. CASE closing \/ closedAll
    BY <1>9, <2>1 DEF RefreshAll, Enter
  <2>2. CASE ~closing /\ ~closedAll
    BY <1>9, <2>2 DEF RefreshAll, Enter, CancelRefresh, RefreshCancelled
  <2> QED
    BY <2>1, <2>2
<1>10. ASSUME NEW a \in Admins, BeginDiscovery(a) PROVE ScalarsOK'
  BY <1>10 DEF BeginDiscovery, Acquired, RefreshStopped
<1>11. ASSUME NEW a \in Admins, EndDiscovery(a) PROVE ScalarsOK'
  BY <1>11 DEF EndDiscovery, EndAdmin, Released, LastLease, CleanupStarted, WasRetired
<1>12. ASSUME NEW a \in Admins, BeginRetry(a) PROVE ScalarsOK'
  BY <1>12 DEF BeginRetry, RefreshStopped
<1>13. ASSUME NEW a \in Admins, BuildFails(a) PROVE ScalarsOK'
  BY <1>13 DEF BuildFails, EndAdmin, ReadyToBuild
<1>14. ASSUME NEW a \in Admins, CommitFails(a) PROVE ScalarsOK'
  BY <1>14 DEF CommitFails, ReadyToBuild, OwnedCandidates
<1>15. ASSUME NEW a \in Admins, Discard(a) PROVE ScalarsOK'
  BY <1>15 DEF Discard, EndAdmin
<1>16. ASSUME NEW a \in Admins, Publish(a) PROVE ScalarsOK'
  <2>1. CASE Replaced /\ ClosesPrevious(a)
    BY <2>1 DEF Replaced, ClosesPrevious
  <2>2. CASE Replaced /\ LeavesPrevious(a)
    BY <2>2 DEF Replaced, LeavesPrevious
  <2>3. GenerationsTypeOK
    OBVIOUS
  <2> QED
    BY <1>16, <2>1, <2>2, <2>3, PublishEffect
<1>17. ASSUME NEW a \in Admins, PreviousClosed(a) PROVE ScalarsOK'
  BY <1>17 DEF PreviousClosed, EndAdmin
<1>18. ASSUME NEW a \in Admins, CancelAdmin(a) PROVE ScalarsOK'
  BY <1>18
  DEF CancelAdmin, EndAdmin, LeaseGivenUp, Released, LastLease, CleanupStarted,
     WasRetired
<1>19. ASSUME NEW p \in Admins \union Closers, RetryOne(p) PROVE ScalarsOK'
  <2>1. PICK r \in todo[p] :
          \/ unpublished' = unpublished \ {r} /\ closed' = closed \union {r} /\ failed' = failed
          \/ failed' = failed \union {r} /\ unpublished' = unpublished /\ closed' = closed
    BY <1>19 DEF RetryOne
  <2>2. r \in 1 .. built
    BY <1>19 DEF RetryOne
  <2>3. UNCHANGED <<built, current, retired, refreshTask, closing, closedAll, lock, closeLock>>
    BY <1>19 DEF RetryOne
  <2> QED
    BY <2>1, <2>2, <2>3
<1>20. ASSUME NEW x \in Closers, Close(x) PROVE ScalarsOK'
  <2>1. CASE closedAll
    BY <1>20, <2>1 DEF Close
  <2>2. CASE ~closedAll
    BY <1>20, <2>2 DEF Close
  <2> QED
    BY <2>1, <2>2
<1>21. ASSUME NEW x \in Closers, RejectLeases(x) PROVE ScalarsOK'
  BY <1>21 DEF RejectLeases, CancelRefresh, RefreshCancelled
<1>22. ASSUME NEW x \in Closers, RetireCurrent(x) PROVE ScalarsOK'
  BY <1>22 DEF RetireCurrent, WasRetired
<1>23. ASSUME NEW x \in Closers, DrainOne(x) PROVE ScalarsOK'
  BY <1>23 DEF DrainOne
<1>24. ASSUME NEW x \in Closers, CloseGenerations(x) PROVE ScalarsOK'
  BY <1>24 DEF CloseGenerations, CleanupStarted, MayClean
<1>25. ASSUME NEW x \in Closers, RetryUnpublished(x) PROVE ScalarsOK'
  BY <1>25 DEF RetryUnpublished
<1>26. ASSUME NEW x \in Closers, FinishClose(x) PROVE ScalarsOK'
  BY <1>26 DEF FinishClose, EndClose, EverythingClosed
<1>27. ASSUME NEW x \in Closers, CancelClose(x) PROVE ScalarsOK'
  BY <1>27 DEF CancelClose, EndClose
<1>28. CASE UNCHANGED generationsVars
  BY <1>28 DEF generationsVars
<1> QED
  BY <1>1, <1>2, <1>3, <1>4, <1>5, <1>6, <1>7, <1>8, <1>9, <1>10, <1>11,
     <1>12, <1>13, <1>14, <1>15, <1>16, <1>17, <1>18, <1>19, <1>20, <1>21,
     <1>22, <1>23, <1>24, <1>25, <1>26, <1>27, <1>28
  DEF GenerationsNext, GenerationsProgress, AdminStep, CloseStep, CleanupEnds

LEMMA TasksStep ==
  ASSUME GInv, [GenerationsNext]_generationsVars
  PROVE  TasksOK'
<1> USE RuntimeAssumption, ProcessAssumption
    DEF GInv, GenerationsTypeOK, TasksOK, UsedInv, MovesTo, ownerVars, closeVars,
       Runtimes, Processes
<1>1. ASSUME NEW c \in Clients, Acquire(c) PROVE TasksOK'
  <2>1. CASE closing \/ closedAll
    BY <1>1, <2>1 DEF Acquire
  <2>2. CASE ~closing /\ ~closedAll
    BY <1>1, <2>2 DEF Acquire, Acquired
  <2> QED
    BY <2>1, <2>2
<1>2. ASSUME NEW c \in Clients, Release(c) PROVE TasksOK'
  <2>1. uses[c] \in Runtimes /\ active[uses[c]] - 1 \in Nat
    BY <1>2, ReleaseCounted DEF UsedInv, Release
  <2> QED
    BY <1>2, <2>1 DEF Release, Released, LastLease, CleanupStarted, WasRetired
<1>3. CASE StartRefresh
  BY <1>3 DEF StartRefresh
<1>4. ASSUME NEW r \in Runtimes, RefreshBegins(r) PROVE TasksOK'
  <2>1. CASE r \in closed
    BY <1>4, <2>1 DEF RefreshBegins
  <2>2. CASE r \notin closed
    <3>1. /\ refresh' = [refresh EXCEPT ![r] = "running"]
          /\ active' = [active EXCEPT ![r] = @ + 1] /\ cleanup' = cleanup
      BY <1>4, <2>2 DEF RefreshBegins, Acquired
    <3> QED
      BY <3>1
  <2> QED
    BY <2>1, <2>2
<1>5. ASSUME NEW r \in Runtimes, RefreshEnds(r) PROVE TasksOK'
  <2>0. Used(r)
    BY <1>5 DEF Used, RefreshEnds
  <2>1. active[r] - 1 \in Nat
    <3>1. active[r] > 0
      BY <2>0, ReleaseCounted
    <3> QED
      BY <3>1
  <2>2. refresh' = [refresh EXCEPT ![r] = "done"] /\ active' = [active EXCEPT ![r] = @ - 1]
    BY <1>5 DEF RefreshEnds, Released
  <2>3. cleanup' = CleanupStarted({r}) \/ cleanup' = cleanup
    BY <1>5 DEF RefreshEnds, Released
  <2>4. cleanup' \in [Runtimes -> {"none", "running"}]
    BY <2>3 DEF CleanupStarted
  <2>5. active' \in [Runtimes -> Nat]
    BY <2>1, <2>2
  <2> QED
    BY <2>2, <2>4, <2>5
<1>6. ASSUME NEW r \in Runtimes, CleanupSucceeds(r) PROVE TasksOK'
  BY <1>6 DEF CleanupSucceeds
<1>7. ASSUME NEW r \in Runtimes, CleanupFails(r) PROVE TasksOK'
  BY <1>7 DEF CleanupFails
<1>8. ASSUME NEW a \in Admins, Replace(a) PROVE TasksOK'
  <2>1. CASE closing \/ closedAll
    BY <1>8, <2>1 DEF Replace, Enter
  <2>2. CASE ~closing /\ ~closedAll
    BY <1>8, <2>2 DEF Replace, Enter, CancelRefresh, RefreshCancelled
  <2> QED
    BY <2>1, <2>2
<1>9. ASSUME NEW a \in Admins, RefreshAll(a) PROVE TasksOK'
  <2>1. CASE closing \/ closedAll
    BY <1>9, <2>1 DEF RefreshAll, Enter
  <2>2. CASE ~closing /\ ~closedAll
    BY <1>9, <2>2 DEF RefreshAll, Enter, CancelRefresh, RefreshCancelled
  <2> QED
    BY <2>1, <2>2
<1>10. ASSUME NEW a \in Admins, BeginDiscovery(a) PROVE TasksOK'
  BY <1>10 DEF BeginDiscovery, Acquired, RefreshStopped
<1>11. ASSUME NEW a \in Admins, EndDiscovery(a) PROVE TasksOK'
  <2>1. uses[a] \in Runtimes /\ active[uses[a]] - 1 \in Nat
    BY <1>11, ReleaseCounted DEF UsedInv, EndDiscovery
  <2> QED
    BY <1>11, <2>1 DEF EndDiscovery, EndAdmin, Released, LastLease, CleanupStarted,
       WasRetired
<1>12. ASSUME NEW a \in Admins, BeginRetry(a) PROVE TasksOK'
  BY <1>12 DEF BeginRetry, RefreshStopped
<1>13. ASSUME NEW a \in Admins, BuildFails(a) PROVE TasksOK'
  BY <1>13 DEF BuildFails, EndAdmin, ReadyToBuild
<1>14. ASSUME NEW a \in Admins, CommitFails(a) PROVE TasksOK'
  BY <1>14 DEF CommitFails, ReadyToBuild, OwnedCandidates
<1>15. ASSUME NEW a \in Admins, Discard(a) PROVE TasksOK'
  BY <1>15 DEF Discard, EndAdmin
<1>16. ASSUME NEW a \in Admins, Publish(a) PROVE TasksOK'
  <2>1. CASE Replaced /\ ClosesPrevious(a)
    BY <2>1 DEF Replaced, ClosesPrevious
  <2>2. CASE Replaced /\ LeavesPrevious(a)
    BY <2>2 DEF Replaced, LeavesPrevious
  <2>3. GenerationsTypeOK
    OBVIOUS
  <2> QED
    BY <1>16, <2>1, <2>2, <2>3, PublishEffect
<1>17. ASSUME NEW a \in Admins, PreviousClosed(a) PROVE TasksOK'
  BY <1>17 DEF PreviousClosed, EndAdmin
<1>18. ASSUME NEW a \in Admins, CancelAdmin(a) PROVE TasksOK'
  <2>1. CASE stepOf[a] = "holding"
    <3>1. uses[a] \in Runtimes /\ active[uses[a]] - 1 \in Nat
      BY <2>1, ReleaseCounted DEF UsedInv
    <3>2. Released(uses[a]) /\ refresh' = refresh
      BY <1>18, <2>1 DEF CancelAdmin, LeaseGivenUp
    <3> QED
      BY <3>1, <3>2 DEF Released, LastLease, CleanupStarted, WasRetired
  <2>2. CASE stepOf[a] # "holding"
    BY <1>18, <2>2 DEF CancelAdmin, EndAdmin, LeaseGivenUp
  <2> QED
    BY <2>1, <2>2
<1>19. ASSUME NEW p \in Admins \union Closers, RetryOne(p) PROVE TasksOK'
  BY <1>19 DEF RetryOne
<1>20. ASSUME NEW x \in Closers, Close(x) PROVE TasksOK'
  <2>1. CASE closedAll
    BY <1>20, <2>1 DEF Close
  <2>2. CASE ~closedAll
    BY <1>20, <2>2 DEF Close
  <2> QED
    BY <2>1, <2>2
<1>21. ASSUME NEW x \in Closers, RejectLeases(x) PROVE TasksOK'
  BY <1>21 DEF RejectLeases, CancelRefresh, RefreshCancelled
<1>22. ASSUME NEW x \in Closers, RetireCurrent(x) PROVE TasksOK'
  BY <1>22 DEF RetireCurrent, WasRetired
<1>23. ASSUME NEW x \in Closers, DrainOne(x) PROVE TasksOK'
  BY <1>23 DEF DrainOne
<1>24. ASSUME NEW x \in Closers, CloseGenerations(x) PROVE TasksOK'
  BY <1>24 DEF CloseGenerations, CleanupStarted, MayClean
<1>25. ASSUME NEW x \in Closers, RetryUnpublished(x) PROVE TasksOK'
  BY <1>25 DEF RetryUnpublished
<1>26. ASSUME NEW x \in Closers, FinishClose(x) PROVE TasksOK'
  BY <1>26 DEF FinishClose, EndClose, EverythingClosed
<1>27. ASSUME NEW x \in Closers, CancelClose(x) PROVE TasksOK'
  BY <1>27 DEF CancelClose, EndClose
<1>28. CASE UNCHANGED generationsVars
  BY <1>28 DEF generationsVars
<1> QED
  BY <1>1, <1>2, <1>3, <1>4, <1>5, <1>6, <1>7, <1>8, <1>9, <1>10, <1>11,
     <1>12, <1>13, <1>14, <1>15, <1>16, <1>17, <1>18, <1>19, <1>20, <1>21,
     <1>22, <1>23, <1>24, <1>25, <1>26, <1>27, <1>28
  DEF GenerationsNext, GenerationsProgress, AdminStep, CloseStep, CleanupEnds

LEMMA ProcessesStep ==
  ASSUME GInv, [GenerationsNext]_generationsVars
  PROVE  ProcessesOK'
<1> USE RuntimeAssumption, ProcessAssumption
    DEF GInv, GenerationsTypeOK, ProcessesOK, Steps, MovesTo, ownerVars, closeVars,
       Runtimes, Processes
<1>1. ASSUME NEW c \in Clients, Acquire(c) PROVE ProcessesOK'
  <2>1. CASE closing \/ closedAll
    BY <1>1, <2>1 DEF Acquire
  <2>2. CASE ~closing /\ ~closedAll
    <3>1. /\ stepOf' = [stepOf EXCEPT ![c] = "holding"]
          /\ uses' = [uses EXCEPT ![c] = current]
          /\ todo' = todo /\ gens' = gens
      BY <1>1, <2>2 DEF Acquire
    <3>2. c \in Processes /\ current \in Runtimes
      BY <1>1
    <3> QED
      BY <3>1, <3>2
  <2> QED
    BY <2>1, <2>2
<1>2. ASSUME NEW c \in Clients, Release(c) PROVE ProcessesOK'
  BY <1>2 DEF Release, Released, LastLease, CleanupStarted, WasRetired
<1>3. CASE StartRefresh
  BY <1>3 DEF StartRefresh
<1>4. ASSUME NEW r \in Runtimes, RefreshBegins(r) PROVE ProcessesOK'
  BY <1>4 DEF RefreshBegins, Acquired
<1>5. ASSUME NEW r \in Runtimes, RefreshEnds(r) PROVE ProcessesOK'
  BY <1>5 DEF RefreshEnds, Released, LastLease, CleanupStarted, WasRetired
<1>6. ASSUME NEW r \in Runtimes, CleanupSucceeds(r) PROVE ProcessesOK'
  BY <1>6 DEF CleanupSucceeds
<1>7. ASSUME NEW r \in Runtimes, CleanupFails(r) PROVE ProcessesOK'
  BY <1>7 DEF CleanupFails
<1>8. ASSUME NEW a \in Admins, Replace(a) PROVE ProcessesOK'
  <2>1. CASE closing \/ closedAll
    BY <1>8, <2>1 DEF Replace, Enter
  <2>2. CASE ~closing /\ ~closedAll
    <3>1. /\ stepOf' = [stepOf EXCEPT ![a] = "replacing"]
          /\ uses' = [uses EXCEPT ![a] = refreshTask]
          /\ todo' = todo /\ gens' = gens
      BY <1>8, <2>2 DEF Replace, Enter, CancelRefresh
    <3>2. a \in Processes /\ refreshTask \in Runtimes \union {None}
      BY <1>8
    <3> QED
      BY <3>1, <3>2
  <2> QED
    BY <2>1, <2>2
<1>9. ASSUME NEW a \in Admins, RefreshAll(a) PROVE ProcessesOK'
  <2>1. CASE closing \/ closedAll
    BY <1>9, <2>1 DEF RefreshAll, Enter
  <2>2. CASE ~closing /\ ~closedAll
    <3>1. /\ stepOf' = [stepOf EXCEPT ![a] = "discovering"]
          /\ uses' = [uses EXCEPT ![a] = refreshTask]
          /\ todo' = todo /\ gens' = gens
      BY <1>9, <2>2 DEF RefreshAll, Enter, CancelRefresh
    <3>2. a \in Processes /\ refreshTask \in Runtimes \union {None}
      BY <1>9
    <3> QED
      BY <3>1, <3>2
  <2> QED
    BY <2>1, <2>2
<1>10. ASSUME NEW a \in Admins, BeginDiscovery(a) PROVE ProcessesOK'
  BY <1>10 DEF BeginDiscovery, Acquired, RefreshStopped
<1>11. ASSUME NEW a \in Admins, EndDiscovery(a) PROVE ProcessesOK'
  BY <1>11 DEF EndDiscovery, EndAdmin, Released, LastLease, CleanupStarted, WasRetired
<1>12. ASSUME NEW a \in Admins, BeginRetry(a) PROVE ProcessesOK'
  BY <1>12 DEF BeginRetry, RefreshStopped
<1>13. ASSUME NEW a \in Admins, BuildFails(a) PROVE ProcessesOK'
  BY <1>13 DEF BuildFails, EndAdmin, ReadyToBuild
<1>14. ASSUME NEW a \in Admins, CommitFails(a) PROVE ProcessesOK'
  BY <1>14 DEF CommitFails, ReadyToBuild, OwnedCandidates
<1>15. ASSUME NEW a \in Admins, Discard(a) PROVE ProcessesOK'
  BY <1>15 DEF Discard, EndAdmin
<1>16. ASSUME NEW a \in Admins, Publish(a) PROVE ProcessesOK'
  <2>1. CASE Replaced /\ ClosesPrevious(a)
    BY <2>1 DEF Replaced, ClosesPrevious
  <2>2. CASE Replaced /\ LeavesPrevious(a)
    BY <2>2 DEF Replaced, LeavesPrevious
  <2>3. GenerationsTypeOK
    OBVIOUS
  <2> QED
    BY <1>16, <2>1, <2>2, <2>3, PublishEffect
<1>17. ASSUME NEW a \in Admins, PreviousClosed(a) PROVE ProcessesOK'
  BY <1>17 DEF PreviousClosed, EndAdmin
<1>18. ASSUME NEW a \in Admins, CancelAdmin(a) PROVE ProcessesOK'
  BY <1>18
  DEF CancelAdmin, EndAdmin, LeaseGivenUp, Released, LastLease, CleanupStarted,
     WasRetired
<1>19. ASSUME NEW p \in Admins \union Closers, RetryOne(p) PROVE ProcessesOK'
  BY <1>19 DEF RetryOne
<1>20. ASSUME NEW x \in Closers, Close(x) PROVE ProcessesOK'
  <2>1. CASE closedAll
    BY <1>20, <2>1 DEF Close
  <2>2. CASE ~closedAll
    BY <1>20, <2>2 DEF Close
  <2> QED
    BY <2>1, <2>2
<1>21. ASSUME NEW x \in Closers, RejectLeases(x) PROVE ProcessesOK'
  BY <1>21 DEF RejectLeases, CancelRefresh, RefreshCancelled
<1>22. ASSUME NEW x \in Closers, RetireCurrent(x) PROVE ProcessesOK'
  BY <1>22 DEF RetireCurrent, WasRetired
<1>23. ASSUME NEW x \in Closers, DrainOne(x) PROVE ProcessesOK'
  BY <1>23 DEF DrainOne
<1>24. ASSUME NEW x \in Closers, CloseGenerations(x) PROVE ProcessesOK'
  BY <1>24 DEF CloseGenerations, CleanupStarted, MayClean
<1>25. ASSUME NEW x \in Closers, RetryUnpublished(x) PROVE ProcessesOK'
  BY <1>25 DEF RetryUnpublished
<1>26. ASSUME NEW x \in Closers, FinishClose(x) PROVE ProcessesOK'
  BY <1>26 DEF FinishClose, EndClose, EverythingClosed
<1>27. ASSUME NEW x \in Closers, CancelClose(x) PROVE ProcessesOK'
  BY <1>27 DEF CancelClose, EndClose
<1>28. CASE UNCHANGED generationsVars
  BY <1>28 DEF generationsVars
<1> QED
  BY <1>1, <1>2, <1>3, <1>4, <1>5, <1>6, <1>7, <1>8, <1>9, <1>10, <1>11,
     <1>12, <1>13, <1>14, <1>15, <1>16, <1>17, <1>18, <1>19, <1>20, <1>21,
     <1>22, <1>23, <1>24, <1>25, <1>26, <1>27, <1>28
  DEF GenerationsNext, GenerationsProgress, AdminStep, CloseStep, CleanupEnds

LEMMA GenerationsTypeStep ==
  ASSUME GInv, [GenerationsNext]_generationsVars
  PROVE  GenerationsTypeOK'
BY ScalarsStep, TasksStep, ProcessesStep DEF ScalarsOK, TasksOK, ProcessesOK,
   GenerationsTypeOK

------------------------------------------------------------------------------
(* What a step does to the leases: nothing, or one user is added or leaves. *)
SameRunning == \A r \in Runtimes : refresh'[r] = "running" <=> refresh[r] = "running"

Untouched == UsersKept /\ active' = active /\ SameRunning

StartsUsing(p) ==
  /\ stepOf[p] # "holding" /\ ~closing
  /\ stepOf' = [stepOf EXCEPT ![p] = "holding"] /\ uses' = [uses EXCEPT ![p] = current]
  /\ active' = [active EXCEPT ![current] = @ + 1] /\ refresh' = refresh
  /\ UNCHANGED <<built, unpublished, closed, cleanup>>

Drops(p) ==
  /\ stepOf[p] = "holding"
  /\ \E l \in Steps \ {"holding"} : stepOf' = [stepOf EXCEPT ![p] = l]
  /\ uses' = [uses EXCEPT ![p] = None]
  /\ active' = [active EXCEPT ![uses[p]] = @ - 1] /\ refresh' = refresh

Begins(r) ==
  /\ refresh[r] = "ready" /\ r = current /\ ~closing
  /\ refresh' = [refresh EXCEPT ![r] = "running"]
  /\ active' = [active EXCEPT ![r] = @ + 1]
  /\ UNCHANGED <<stepOf, uses, built, unpublished, closed, cleanup>>

StopsUsing(r) ==
  /\ refresh[r] = "running"
  /\ refresh' = [refresh EXCEPT ![r] = "done"]
  /\ active' = [active EXCEPT ![r] = @ - 1]
  /\ UNCHANGED <<stepOf, uses>>

OneLease ==
  \/ Untouched
  \/ \E p \in Clients \union Admins : StartsUsing(p) \/ Drops(p)
  \/ \E r \in Runtimes : Begins(r) \/ StopsUsing(r)

LEMMA LeaseStep ==
  ASSUME GInv, [GenerationsNext]_generationsVars
  PROVE  OneLease
<1> USE RuntimeAssumption, ProcessAssumption
    DEF GInv, Untouched, UsersKept, SameRunning, GenerationsTypeOK, MovesTo, ownerVars,
       closeVars, Runtimes, Processes
<1>1. ASSUME NEW c \in Clients, Acquire(c) PROVE OneLease
  <2>1. CASE closing \/ closedAll
    <3>1. Untouched
      BY <1>1, <2>1 DEF Acquire
    <3> QED
      BY <3>1 DEF OneLease
  <2>2. CASE ~closing /\ ~closedAll
    <3>1. StartsUsing(c)
      BY <1>1, <2>2 DEF Acquire, Acquired, StartsUsing
    <3> QED
      BY <3>1 DEF OneLease
  <2> QED
    BY <2>1, <2>2
<1>2. ASSUME NEW c \in Clients, Release(c) PROVE OneLease
  <2>1. Drops(c)
    BY <1>2 DEF Release, EndAdmin, Released, Drops, Steps
  <2> QED
    BY <2>1 DEF OneLease
<1>3. CASE StartRefresh
  <2>1. Untouched
    BY <1>3 DEF StartRefresh
  <2> QED
    BY <2>1 DEF OneLease
<1>4. ASSUME NEW r \in Runtimes, RefreshBegins(r) PROVE OneLease
  <2>1. CASE r \in closed
    <3>1. Untouched
      BY <1>4, <2>1 DEF RefreshBegins
    <3> QED
      BY <3>1 DEF OneLease
  <2>2. CASE r \notin closed
    <3>1. r = current /\ ~closing
      BY <1>4 DEF RefreshBegins, RefreshInv
    <3>2. Begins(r)
      BY <1>4, <2>2, <3>1 DEF RefreshBegins, Acquired, Begins
    <3> QED
      BY <3>2 DEF OneLease
  <2> QED
    BY <2>1, <2>2
<1>5. ASSUME NEW r \in Runtimes, RefreshEnds(r) PROVE OneLease
  <2>1. StopsUsing(r)
    BY <1>5 DEF RefreshEnds, Released, StopsUsing
  <2> QED
    BY <2>1 DEF OneLease
<1>6. ASSUME NEW r \in Runtimes, CleanupSucceeds(r) PROVE OneLease
  <2>1. Untouched
    BY <1>6 DEF CleanupSucceeds
  <2> QED
    BY <2>1 DEF OneLease
<1>7. ASSUME NEW r \in Runtimes, CleanupFails(r) PROVE OneLease
  <2>1. Untouched
    BY <1>7 DEF CleanupFails
  <2> QED
    BY <2>1 DEF OneLease
<1>8. ASSUME NEW a \in Admins, Replace(a) PROVE OneLease
  <2>1. Untouched
    BY <1>8 DEF Replace, Enter, CancelRefresh, RefreshCancelled
  <2> QED
    BY <2>1 DEF OneLease
<1>9. ASSUME NEW a \in Admins, RefreshAll(a) PROVE OneLease
  <2>1. Untouched
    BY <1>9 DEF RefreshAll, Enter, CancelRefresh, RefreshCancelled
  <2> QED
    BY <2>1 DEF OneLease
<1>10. ASSUME NEW a \in Admins, BeginDiscovery(a) PROVE OneLease
  <2>1. lock = a /\ ~closing
    BY <1>10 DEF BeginDiscovery, LocksInv, Inside, Preparing
  <2>2. StartsUsing(a)
    BY <1>10, <2>1 DEF BeginDiscovery, Acquired, StartsUsing
  <2> QED
    BY <2>2 DEF OneLease
<1>11. ASSUME NEW a \in Admins, EndDiscovery(a) PROVE OneLease
  <2>1. Drops(a)
    BY <1>11 DEF EndDiscovery, EndAdmin, Released, Drops, Steps
  <2> QED
    BY <2>1 DEF OneLease
<1>12. ASSUME NEW a \in Admins, BeginRetry(a) PROVE OneLease
  <2>1. Untouched
    BY <1>12 DEF BeginRetry, RefreshStopped
  <2> QED
    BY <2>1 DEF OneLease
<1>13. ASSUME NEW a \in Admins, BuildFails(a) PROVE OneLease
  <2>1. Untouched
    BY <1>13 DEF BuildFails, EndAdmin, ReadyToBuild
  <2> QED
    BY <2>1 DEF OneLease
<1>14. ASSUME NEW a \in Admins, CommitFails(a) PROVE OneLease
  <2>1. Untouched
    BY <1>14 DEF CommitFails, ReadyToBuild, OwnedCandidates
  <2> QED
    BY <2>1 DEF OneLease
<1>15. ASSUME NEW a \in Admins, Discard(a) PROVE OneLease
  <2>1. Untouched
    BY <1>15 DEF Discard, EndAdmin
  <2> QED
    BY <2>1 DEF OneLease
<1>16. ASSUME NEW a \in Admins, Publish(a) PROVE OneLease
  <2>1. CASE Replaced /\ ClosesPrevious(a)
    <3>1. Untouched
      BY <2>1 DEF Replaced, ClosesPrevious, BuiltInv
    <3> QED
      BY <3>1 DEF OneLease
  <2>2. CASE Replaced /\ LeavesPrevious(a)
    <3>1. Untouched
      BY <2>2 DEF Replaced, LeavesPrevious, BuiltInv
    <3> QED
      BY <3>1 DEF OneLease
  <2>3. GenerationsTypeOK
    OBVIOUS
  <2> QED
    BY <1>16, <2>1, <2>2, <2>3, PublishEffect
<1>17. ASSUME NEW a \in Admins, PreviousClosed(a) PROVE OneLease
  <2>1. Untouched
    BY <1>17 DEF PreviousClosed, EndAdmin
  <2> QED
    BY <2>1 DEF OneLease
<1>18. ASSUME NEW a \in Admins, CancelAdmin(a) PROVE OneLease
  <2>1. CASE stepOf[a] = "holding"
    <3>1. Drops(a)
      BY <1>18, <2>1 DEF CancelAdmin, EndAdmin, LeaseGivenUp, Released, Drops, Steps
    <3> QED
      BY <3>1 DEF OneLease
  <2>2. CASE stepOf[a] # "holding"
    <3>1. Untouched
      BY <1>18, <2>2 DEF CancelAdmin, EndAdmin, LeaseGivenUp
    <3> QED
      BY <3>1 DEF OneLease
  <2> QED
    BY <2>1, <2>2
<1>19. ASSUME NEW p \in Admins \union Closers, RetryOne(p) PROVE OneLease
  <2>1. Untouched
    BY <1>19 DEF RetryOne
  <2> QED
    BY <2>1 DEF OneLease
<1>20. ASSUME NEW x \in Closers, Close(x) PROVE OneLease
  <2>1. Untouched
    BY <1>20 DEF Close
  <2> QED
    BY <2>1 DEF OneLease
<1>21. ASSUME NEW x \in Closers, RejectLeases(x) PROVE OneLease
  <2>1. Untouched
    BY <1>21 DEF RejectLeases, CancelRefresh, RefreshCancelled
  <2> QED
    BY <2>1 DEF OneLease
<1>22. ASSUME NEW x \in Closers, RetireCurrent(x) PROVE OneLease
  <2>1. Untouched
    BY <1>22 DEF RetireCurrent, WasRetired
  <2> QED
    BY <2>1 DEF OneLease
<1>23. ASSUME NEW x \in Closers, DrainOne(x) PROVE OneLease
  <2>1. Untouched
    BY <1>23 DEF DrainOne
  <2> QED
    BY <2>1 DEF OneLease
<1>24. ASSUME NEW x \in Closers, CloseGenerations(x) PROVE OneLease
  <2>1. Untouched
    BY <1>24 DEF CloseGenerations
  <2> QED
    BY <2>1 DEF OneLease
<1>25. ASSUME NEW x \in Closers, RetryUnpublished(x) PROVE OneLease
  <2>1. Untouched
    BY <1>25 DEF RetryUnpublished
  <2> QED
    BY <2>1 DEF OneLease
<1>26. ASSUME NEW x \in Closers, FinishClose(x) PROVE OneLease
  <2>1. Untouched
    BY <1>26 DEF FinishClose, EndClose, EverythingClosed
  <2> QED
    BY <2>1 DEF OneLease
<1>27. ASSUME NEW x \in Closers, CancelClose(x) PROVE OneLease
  <2>1. Untouched
    BY <1>27 DEF CancelClose, EndClose
  <2> QED
    BY <2>1 DEF OneLease
<1>28. CASE UNCHANGED generationsVars
  BY <1>28 DEF generationsVars, OneLease
<1> QED
  BY <1>1, <1>2, <1>3, <1>4, <1>5, <1>6, <1>7, <1>8, <1>9, <1>10, <1>11,
     <1>12, <1>13, <1>14, <1>15, <1>16, <1>17, <1>18, <1>19, <1>20, <1>21,
     <1>22, <1>23, <1>24, <1>25, <1>26, <1>27, <1>28
  DEF GenerationsNext, GenerationsProgress, AdminStep, CloseStep, CleanupEnds

(* The counters follow the leases.                                         *)
LEMMA CountStep ==
  ASSUME GInv, OneLease
  PROVE  LeasesCounted'
<1> USE DEF GInv
<1> DEFINE Own(r) == IF refresh[r] = "running" THEN 1 ELSE 0
<1>0. \A r \in Runtimes :
        /\ active[r] = Cardinality(Holders(r)) + Own(r)
        /\ Cardinality(Holders(r)) \in Nat
  BY HoldersFinite DEF LeasesCounted
<1>1. CASE Untouched
  <2>1. \A r \in Runtimes : Holders(r)' = Holders(r)
    BY <1>1, HoldersKept DEF Untouched
  <2>2. \A r \in Runtimes : Cardinality(Holders(r))' = Cardinality(Holders(r))
    BY <2>1
  <2> QED
    BY <1>0, <1>1, <2>2 DEF Untouched, SameRunning, LeasesCounted
<1>2. ASSUME NEW p \in Clients \union Admins, StartsUsing(p) PROVE LeasesCounted'
  <2>1. PICK g \in Runtimes : g = current
    BY RuntimeAssumption DEF GenerationsTypeOK, Runtimes
  <2>2. /\ Cardinality(Holders(g)') = Cardinality(Holders(g)) + 1
        /\ \A q \in Runtimes \ {g} : Holders(q)' = Holders(q)
    BY <1>2, <2>1, HoldersTake DEF StartsUsing
  <2>3. \A q \in Runtimes \ {g} : Cardinality(Holders(q)') = Cardinality(Holders(q))
    BY <2>2
  <2>4. active \in [Runtimes -> Nat]
    BY DEF GenerationsTypeOK
  <2>5. /\ active' = [active EXCEPT ![g] = active[g] + 1]
        /\ refresh' = refresh
    BY <1>2, <2>1 DEF StartsUsing
  <2>6. active'[g] = active[g] + 1
        /\ \A q \in Runtimes \ {g} : active'[q] = active[q]
    BY <2>4, <2>5
  <2>7. \A q \in Runtimes : active'[q] = Cardinality(Holders(q)') + Own(q)
    BY <1>0, <2>2, <2>3, <2>6
  <2> QED
    BY <2>5, <2>7 DEF LeasesCounted
<1>3. ASSUME NEW p \in Clients \union Admins, Drops(p) PROVE LeasesCounted'
  <2>1. PICK l \in Steps \ {"holding"} : stepOf' = [stepOf EXCEPT ![p] = l]
    BY <1>3 DEF Drops
  <2>2. PICK g \in Runtimes : g = uses[p]
    BY <1>3 DEF Drops, UsedInv
  <2>3. /\ Cardinality(Holders(g)') = Cardinality(Holders(g)) - 1
        /\ \A q \in Runtimes \ {g} : Holders(q)' = Holders(q)
    BY <1>3, <2>1, <2>2, HoldersDrop DEF Drops
  <2>4. \A q \in Runtimes \ {g} : Cardinality(Holders(q)') = Cardinality(Holders(q))
    BY <2>3
  <2>5. active \in [Runtimes -> Nat]
    BY DEF GenerationsTypeOK
  <2>6. /\ active' = [active EXCEPT ![g] = active[g] - 1]
        /\ refresh' = refresh
    BY <1>3, <2>2 DEF Drops
  <2>7. active'[g] = active[g] - 1 /\ \A q \in Runtimes \ {g} : active'[q] = active[q]
    BY <2>5, <2>6
  <2>8. \A q \in Runtimes : active'[q] = Cardinality(Holders(q)') + Own(q)
    BY <1>0, <2>3, <2>4, <2>7
  <2> QED
    BY <2>6, <2>8 DEF LeasesCounted
<1>4. ASSUME NEW r \in Runtimes, Begins(r) \/ StopsUsing(r) PROVE LeasesCounted'
  <2>1. UsersKept
    BY <1>4 DEF UsersKept, Begins, StopsUsing
  <2>2. \A q \in Runtimes : Holders(q)' = Holders(q)
    BY <2>1, HoldersKept
  <2>3. \A q \in Runtimes : Cardinality(Holders(q))' = Cardinality(Holders(q))
    BY <2>2
  <2>4. refresh \in [Runtimes -> {"none", "ready", "running", "done"}]
        /\ active \in [Runtimes -> Nat]
    BY DEF GenerationsTypeOK
  <2>5. CASE Begins(r)
    BY <1>0, <2>3, <2>4, <2>5 DEF Begins, LeasesCounted
  <2>6. CASE StopsUsing(r)
    BY <1>0, <2>3, <2>4, <2>6 DEF StopsUsing, LeasesCounted
  <2> QED
    BY <1>4, <2>5, <2>6
<1> QED
  BY <1>1, <1>2, <1>3, <1>4 DEF OneLease

(* A runtime whose counter is zero has no users.                            *)
LEMMA UsersCounted ==
  ASSUME LeasesCounted', NEW r \in Runtimes
  PROVE  active'[r] = 0 => ~Used(r)'
<1>1. active'[r] = Cardinality(Holders(r)') + (IF refresh'[r] = "running" THEN 1 ELSE 0)
  BY DEF LeasesCounted
<1>2. Holders(r)' \subseteq Clients \union Admins
  BY DEF Holders
<1>3. Cardinality(Holders(r)') \in Nat /\ (Cardinality(Holders(r)') = 0 <=> Holders(r)' = {})
  BY <1>2, ProcessAssumption, FS_Union, FS_Subset, FS_CardinalityType, FS_EmptySet
<1> QED
  BY <1>1, <1>3 DEF Used

(* Only the current generation gets a new user, and only before shutdown.  *)
LEMMA UsersStep ==
  ASSUME GInv, OneLease
  PROVE  /\ \A r \in Runtimes : Used(r)' =>
              \/ Used(r)
              \/ r = current /\ ~closing /\ UNCHANGED <<built, unpublished, closed, cleanup>>
         /\ \A p \in Clients \union Admins : stepOf'[p] = "holding" => uses'[p] \in Runtimes
<1> USE DEF GInv
<1>0. \A p \in Clients \union Admins : stepOf[p] = "holding" => uses[p] \in Runtimes
  BY DEF UsedInv
<1>1. CASE Untouched
  <2>1. \A r \in Runtimes : Holders(r)' = Holders(r)
    BY <1>1, HoldersKept DEF Untouched
  <2> QED
    BY <1>0, <1>1, <2>1 DEF Untouched, SameRunning, Used, UsersKept
<1>2. ASSUME NEW p \in Clients \union Admins, StartsUsing(p)
      PROVE  /\ \A r \in Runtimes : Used(r)' =>
              \/ Used(r)
              \/ r = current /\ ~closing /\ UNCHANGED <<built, unpublished, closed, cleanup>>
             /\ \A q \in Clients \union Admins : stepOf'[q] = "holding" => uses'[q] \in Runtimes
  <2>1. PICK g \in Runtimes : g = current
    BY RuntimeAssumption DEF GenerationsTypeOK, Runtimes
  <2>2. \A q \in Runtimes \ {g} : Holders(q)' = Holders(q)
    BY <1>2, <2>1, HoldersTake DEF StartsUsing
  <2>3. \A q \in Clients \union Admins : stepOf'[q] = "holding" => uses'[q] \in Runtimes
    BY <1>0, <1>2, <2>1 DEF StartsUsing, GenerationsTypeOK, Processes
  <2> QED
    BY <1>2, <2>1, <2>2, <2>3 DEF StartsUsing, Used
<1>3. ASSUME NEW p \in Clients \union Admins, Drops(p)
      PROVE  /\ \A r \in Runtimes : Used(r)' => Used(r)
             /\ \A q \in Clients \union Admins : stepOf'[q] = "holding" => uses'[q] \in Runtimes
  <2>1. PICK l \in Steps \ {"holding"} : stepOf' = [stepOf EXCEPT ![p] = l]
    BY <1>3 DEF Drops
  <2>2. PICK g \in Runtimes : g = uses[p]
    BY <1>3 DEF Drops, UsedInv
  <2>3. /\ Holders(g)' = Holders(g) \ {p}
        /\ \A q \in Runtimes \ {g} : Holders(q)' = Holders(q)
    BY <1>3, <2>1, <2>2, HoldersDrop DEF Drops
  <2>4. \A q \in Clients \union Admins : stepOf'[q] = "holding" => uses'[q] \in Runtimes
    BY <1>0, <1>3, <2>1 DEF Drops, GenerationsTypeOK, Processes
  <2>5. \A r \in Runtimes : Holders(r)' # {} => Holders(r) # {}
    BY <2>3
  <2> QED
    BY <1>3, <2>4, <2>5 DEF Drops, Used
<1>4. ASSUME NEW r \in Runtimes, Begins(r) \/ StopsUsing(r)
      PROVE  /\ \A q \in Runtimes : Used(q)' =>
              \/ Used(q)
              \/ q = current /\ ~closing /\ UNCHANGED <<built, unpublished, closed, cleanup>>
             /\ \A q \in Clients \union Admins : stepOf'[q] = "holding" => uses'[q] \in Runtimes
  <2>1. UsersKept
    BY <1>4 DEF UsersKept, Begins, StopsUsing
  <2>2. \A q \in Runtimes : Holders(q)' = Holders(q)
    BY <2>1, HoldersKept
  <2>3. refresh \in [Runtimes -> {"none", "ready", "running", "done"}]
    BY DEF GenerationsTypeOK
  <2>4. \A q \in Clients \union Admins : stepOf'[q] = "holding" => uses'[q] \in Runtimes
    BY <1>0, <2>1 DEF UsersKept
  <2>5. \A q \in Runtimes \ {r} : refresh'[q] = refresh[q]
    BY <1>4, <2>3 DEF Begins, StopsUsing
  <2>6. CASE Begins(r)
    BY <2>2, <2>4, <2>5, <2>6 DEF Begins, Used
  <2>7. CASE StopsUsing(r)
    BY <2>2, <2>3, <2>4, <2>5, <2>7 DEF StopsUsing, Used
  <2> QED
    BY <1>4, <2>6, <2>7
<1> QED
  BY <1>1, <1>2, <1>3, <1>4 DEF OneLease

(* What is used stays published, and its cleanup does not begin.           *)
Safe(r) == r \in 1 .. built /\ r \notin unpublished \union closed /\ cleanup[r] = "none"

KeptSafe == \A r \in Runtimes : Used(r) /\ Used(r)' => Safe(r)'

LEMMA SafeStep ==
  ASSUME GInv, [GenerationsNext]_generationsVars
  PROVE  KeptSafe
<1> USE RuntimeAssumption, ProcessAssumption
    DEF KeptSafe, Safe, MovesTo, ownerVars, closeVars, Processes
<1>a. LeasesCounted'
  BY LeaseStep, CountStep
<1>b. \A g \in Runtimes : active'[g] = 0 => ~Used(g)'
  BY <1>a, UsersCounted
<1>c. \A g \in Runtimes : active[g] = 0 <=> ~Used(g)
  BY ReleaseCounted
<1>d. \A g \in Runtimes : Used(g) => Safe(g)
  BY DEF GInv, UsedInv
<1>e. /\ built \in Nat /\ active \in [Runtimes -> Nat]
      /\ cleanup \in [Runtimes -> {"none", "running"}]
  BY DEF GInv, GenerationsTypeOK, Runtimes
<1>0. /\ \A g \in Runtimes : Used(g) => Safe(g)
      /\ \A g \in Runtimes : active[g] = 0 <=> ~Used(g)
      /\ \A g \in Runtimes : active'[g] = 0 => ~Used(g)'
      /\ built \in Nat /\ active \in [Runtimes -> Nat]
      /\ cleanup \in [Runtimes -> {"none", "running"}]
  BY <1>b, <1>c, <1>d, <1>e
<1>1. ASSUME NEW c \in Clients, Acquire(c) PROVE KeptSafe
  BY <1>0, <1>1
  DEF Acquire, Acquired
<1>2. ASSUME NEW c \in Clients, Release(c) PROVE KeptSafe
  <2>1. PICK g \in Runtimes : g = uses[c]
    BY <1>2 DEF GInv, UsedInv, Release
  <2>2. /\ active' = [active EXCEPT ![g] = active[g] - 1]
        /\ \/ cleanup' = cleanup
           \/ cleanup' = [h \in Runtimes |->
                IF h \in {g} /\ h \notin closed THEN "running" ELSE cleanup[h]]
              /\ active[g] = 1
        /\ UNCHANGED <<built, unpublished, closed>>
    BY <1>2, <2>1 DEF Release, Released, LastLease, CleanupStarted
  <2> QED
    BY <1>0, <2>2
<1>3. CASE StartRefresh
  BY <1>0, <1>3
  DEF StartRefresh
<1>4. ASSUME NEW r \in Runtimes, RefreshBegins(r) PROVE KeptSafe
  BY <1>0, <1>4
  DEF RefreshBegins, Acquired
<1>5. ASSUME NEW r \in Runtimes, RefreshEnds(r) PROVE KeptSafe
  <2>1. /\ active' = [active EXCEPT ![r] = active[r] - 1]
        /\ \/ cleanup' = cleanup
           \/ cleanup' = [h \in Runtimes |->
                IF h \in {r} /\ h \notin closed THEN "running" ELSE cleanup[h]] /\ active[r] = 1
        /\ UNCHANGED <<built, unpublished, closed>>
    BY <1>5 DEF RefreshEnds, Released, LastLease, CleanupStarted
  <2> QED
    BY <1>0, <2>1
<1>6. ASSUME NEW r \in Runtimes, CleanupSucceeds(r) PROVE KeptSafe
  BY <1>0, <1>6
  DEF CleanupSucceeds
<1>7. ASSUME NEW r \in Runtimes, CleanupFails(r) PROVE KeptSafe
  BY <1>0, <1>7
  DEF CleanupFails
<1>8. ASSUME NEW a \in Admins, Replace(a) PROVE KeptSafe
  BY <1>0, <1>8
  DEF Replace, Enter, CancelRefresh, RefreshCancelled
<1>9. ASSUME NEW a \in Admins, RefreshAll(a) PROVE KeptSafe
  BY <1>0, <1>9
  DEF RefreshAll, Enter, CancelRefresh, RefreshCancelled
<1>10. ASSUME NEW a \in Admins, BeginDiscovery(a) PROVE KeptSafe
  BY <1>0, <1>10
  DEF BeginDiscovery, Acquired, RefreshStopped
<1>11. ASSUME NEW a \in Admins, EndDiscovery(a) PROVE KeptSafe
  <2>1. PICK g \in Runtimes : g = uses[a]
    BY <1>11 DEF GInv, UsedInv, EndDiscovery
  <2>2. /\ active' = [active EXCEPT ![g] = active[g] - 1]
        /\ \/ cleanup' = cleanup
           \/ cleanup' = [h \in Runtimes |->
                IF h \in {g} /\ h \notin closed THEN "running" ELSE cleanup[h]]
              /\ active[g] = 1
        /\ UNCHANGED <<built, unpublished, closed>>
    BY <1>11, <2>1 DEF EndDiscovery, Released, LastLease, CleanupStarted
  <2> QED
    BY <1>0, <2>2
<1>12. ASSUME NEW a \in Admins, BeginRetry(a) PROVE KeptSafe
  BY <1>0, <1>12
  DEF BeginRetry, RefreshStopped
<1>13. ASSUME NEW a \in Admins, BuildFails(a) PROVE KeptSafe
  BY <1>0, <1>13
  DEF BuildFails, EndAdmin, ReadyToBuild
<1>14. ASSUME NEW a \in Admins, CommitFails(a) PROVE KeptSafe
  BY <1>0, <1>14
  DEF CommitFails, ReadyToBuild, OwnedCandidates
<1>15. ASSUME NEW a \in Admins, Discard(a) PROVE KeptSafe
  <2>1. todo[a] \subseteq unpublished \union closed
    BY <1>15 DEF Discard, GInv, TodoInv
  <2> QED
    BY <1>0, <1>15, <2>1 DEF Discard
<1>16. ASSUME NEW a \in Admins, Publish(a) PROVE KeptSafe
  <2>1. CASE Replaced /\ ClosesPrevious(a)
    BY <1>0, <2>1 DEF Replaced, ClosesPrevious
  <2>2. CASE Replaced /\ LeavesPrevious(a)
    BY <1>0, <2>2 DEF Replaced, LeavesPrevious
  <2> QED
    BY <1>16, <2>1, <2>2, PublishEffect DEF GInv
<1>17. ASSUME NEW a \in Admins, PreviousClosed(a) PROVE KeptSafe
  BY <1>0, <1>17
  DEF PreviousClosed, EndAdmin
<1>18. ASSUME NEW a \in Admins, CancelAdmin(a) PROVE KeptSafe
  <2>1. CASE stepOf[a] = "holding"
    <3>1. PICK g \in Runtimes : g = uses[a]
      BY <2>1 DEF GInv, UsedInv
    <3>2. /\ active' = [active EXCEPT ![g] = active[g] - 1]
          /\ \/ cleanup' = cleanup
             \/ cleanup' = [h \in Runtimes |->
                  IF h \in {g} /\ h \notin closed THEN "running" ELSE cleanup[h]]
              /\ active[g] = 1
          /\ UNCHANGED <<built, unpublished, closed>>
      BY <1>18, <2>1, <3>1 DEF CancelAdmin, LeaseGivenUp, Released, LastLease,
         CleanupStarted
    <3> QED
      BY <1>0, <3>2
  <2>2. CASE stepOf[a] # "holding"
    BY <1>0, <1>18, <2>2 DEF CancelAdmin, EndAdmin, LeaseGivenUp
  <2> QED
    BY <2>1, <2>2
<1>19. ASSUME NEW p \in Admins \union Closers, RetryOne(p) PROVE KeptSafe
  <2>1. todo[p] \subseteq unpublished \union closed
    BY <1>19 DEF RetryOne, GInv, TodoInv
  <2>2. PICK g \in todo[p] :
          \/ unpublished' = unpublished \ {g} /\ closed' = closed \union {g}
          \/ unpublished' = unpublished /\ closed' = closed
    BY <1>19 DEF RetryOne
  <2>3. UNCHANGED <<built, cleanup>>
    BY <1>19 DEF RetryOne
  <2> QED
    BY <1>0, <2>1, <2>2, <2>3
<1>20. ASSUME NEW x \in Closers, Close(x) PROVE KeptSafe
  BY <1>0, <1>20
  DEF Close
<1>21. ASSUME NEW x \in Closers, RejectLeases(x) PROVE KeptSafe
  BY <1>0, <1>21
  DEF RejectLeases, CancelRefresh, RefreshCancelled
<1>22. ASSUME NEW x \in Closers, RetireCurrent(x) PROVE KeptSafe
  BY <1>0, <1>22
  DEF RetireCurrent, WasRetired
<1>23. ASSUME NEW x \in Closers, DrainOne(x) PROVE KeptSafe
  BY <1>0, <1>23
  DEF DrainOne
<1>24. ASSUME NEW x \in Closers, CloseGenerations(x) PROVE KeptSafe
  BY <1>0, <1>24
  DEF CloseGenerations, CleanupStarted, MayClean
<1>25. ASSUME NEW x \in Closers, RetryUnpublished(x) PROVE KeptSafe
  BY <1>0, <1>25
  DEF RetryUnpublished
<1>26. ASSUME NEW x \in Closers, FinishClose(x) PROVE KeptSafe
  BY <1>0, <1>26
  DEF FinishClose, EndClose, EverythingClosed
<1>27. ASSUME NEW x \in Closers, CancelClose(x) PROVE KeptSafe
  BY <1>0, <1>27
  DEF CancelClose, EndClose
<1>28. CASE UNCHANGED generationsVars
  BY <1>28, <1>0 DEF generationsVars
<1> QED
  BY <1>1, <1>2, <1>3, <1>4, <1>5, <1>6, <1>7, <1>8, <1>9, <1>10, <1>11,
     <1>12, <1>13, <1>14, <1>15, <1>16, <1>17, <1>18, <1>19, <1>20, <1>21,
     <1>22, <1>23, <1>24, <1>25, <1>26, <1>27, <1>28
  DEF GenerationsNext, GenerationsProgress, AdminStep, CloseStep, CleanupEnds

LEMMA UsedStep ==
  ASSUME GInv, [GenerationsNext]_generationsVars
  PROVE  UsedInv'
<1>1. OneLease
  BY LeaseStep
<1>2. /\ \A r \in Runtimes : Used(r)' =>
              \/ Used(r)
              \/ r = current /\ ~closing /\ UNCHANGED <<built, unpublished, closed, cleanup>>
      /\ \A p \in Clients \union Admins : stepOf'[p] = "holding" => uses'[p] \in Runtimes
  BY <1>1, UsersStep
<1>3. \A r \in Runtimes : Used(r) /\ Used(r)' => Safe(r)'
  BY SafeStep DEF KeptSafe
<1>4. ~closing => current \in 1 .. built /\ Safe(current)
  BY DEF GInv, GenerationsTypeOK, CurrentInv, Safe
<1>5. \A r \in Runtimes : Used(r)' => Safe(r)'
  BY <1>2, <1>3, <1>4 DEF Safe
<1> QED
  BY <1>2, <1>5 DEF UsedInv, Safe

LEMMA GenerationsStepInv == GInv /\ [GenerationsNext]_generationsVars => GInv'
<1> SUFFICES ASSUME GInv, [GenerationsNext]_generationsVars PROVE GInv'
  OBVIOUS
<1>1. GenerationsTypeOK' /\ LocksInv' /\ RefreshInv' /\ CurrentInv'
  BY GenerationsTypeStep, LocksStep, RefreshStep, CurrentStep
<1>2. BuiltInv' /\ TodoInv' /\ RetiredInv' /\ NothingLeaked'
  BY BuiltStep, TodoStep, RetiredStep, LeakStep
<1>3. LeasesCounted' /\ UsedInv'
  BY LeaseStep, CountStep, UsedStep
<1> QED
  BY <1>1, <1>2, <1>3 DEF GInv

THEOREM GenerationsInvariance == GenerationsSpec => []GInv
BY GenerationsInitInv, GenerationsStepInv, PTL DEF GenerationsSpec

------------------------------------------------------------------------------
(* Every variable of the manager keeps its type; in particular no counter  *)
(* of leases ever becomes negative.                                        *)
THEOREM GenerationsTyped == GenerationsSpec => []GenerationsTypeOK
<1>1. GInv => GenerationsTypeOK
  BY DEF GInv
<1> QED
  BY <1>1, GenerationsInvariance, PTL

(* active_leases of each generation is the number of its users, whichever  *)
(* calls are cancelled: no lease is lost or released twice.                *)
THEOREM LeasesExact == GenerationsSpec => []LeasesCounted
<1>1. GInv => LeasesCounted
  BY DEF GInv
<1> QED
  BY <1>1, GenerationsInvariance, PTL

(* No runtime is cleaned up while a request, an admin or its discovery     *)
(* task uses it, and none of them gets a runtime that is being cleaned up  *)
(* or was closed.                                                          *)
THEOREM NeverUsedAfterCleanup == GenerationsSpec => []NoUseAfterCleanup
<1>1. GInv => NoUseAfterCleanup
  BY DEF GInv, UsedInv, CurrentInv, Used, NoUseAfterCleanup
<1> QED
  BY <1>1, GenerationsInvariance, PTL

(* A runtime that was built and is not closed stays with the manager,      *)
(* which reports that it is closed only when every runtime is.             *)
THEOREM NoRuntimeForgotten == GenerationsSpec => []NothingLeaked
<1>1. GInv => NothingLeaked
  BY DEF GInv
<1> QED
  BY <1>1, GenerationsInvariance, PTL
==============================================================================
