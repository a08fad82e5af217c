------------------------- MODULE ProviderGenerations -------------------------
(***************************************************************************)
(* ProviderRuntimeManager (runtime/provider_manager.py): the provider      *)
(* generations of a server, the leases of requests on them, hot            *)
(* replacement, model discovery and shutdown.                              *)
(*                                                                         *)
(* A runtime names the generation built around it; one whose commit failed *)
(* stays unpublished.  Requests, admin operations, the discovery task of a *)
(* generation, its cleanup task and the callers of close interleave where  *)
(* they await; a section between two awaits is one action.                 *)
(***************************************************************************)
EXTENDS Naturals, FiniteSets

CONSTANTS
  Clients,      \* requests: each takes one lease
  Admins,       \* replace and refresh_model_list_cache, one call each
  Closers,      \* calls of close
  Cancellable,  \* admins and closers that may be cancelled
  MaxRuntimes,  \* bound on the runtimes that are built
  None          \* no process or runtime

Runtimes == 1 .. MaxRuntimes

ASSUME RuntimeAssumption == MaxRuntimes \in Nat \ {0} /\ None \notin Runtimes
ASSUME ProcessAssumption ==
  /\ IsFiniteSet(Clients) /\ IsFiniteSet(Admins)
  /\ Clients \intersect Admins = {}
  /\ Closers \intersect (Clients \union Admins) = {}
  /\ None \notin Clients \union Admins \union Closers
  /\ Cancellable \subseteq Admins \union Closers

VARIABLES
  built,        \* how many runtimes were built
  current,      \* _current
  retired,      \* _retired
  unpublished,  \* _unpublished
  closed,       \* runtimes whose cleanup succeeded
  active,       \* active_leases of each generation
  cleanup,      \* cleanup_task of each generation
  refresh,      \* the discovery task of each generation
  refreshTask,  \* _refresh_task
  closing,      \* _closing
  closedAll,    \* _closed
  lock,         \* who holds _replace_lock
  closeLock,    \* who holds _close_lock
  stepOf,           \* where each process is
  uses,         \* the generation a process has leased or waits for
  todo,         \* what an admin or closer still has to wait for or clean up
  gens,         \* the generations a closer closes
  failed        \* generations whose cleanup has failed (for the properties)

generationsVars == <<built, current, retired, unpublished, closed, active, cleanup, refresh,
          refreshTask, closing, closedAll, lock, closeLock, stepOf, uses, todo, gens,
          failed>>

Processes == Clients \union Admins \union Closers

Steps == {"idle", "holding", "done", "refused", "replacing", "discovering", "retrying",
          "discarding", "closingPrevious", "failed", "cancelled", "locking", "rejecting",
          "draining", "closing"}

GenerationsInit ==
  /\ built = 1 /\ current = 1
  /\ retired = {} /\ unpublished = {} /\ closed = {} /\ failed = {}
  /\ active = [r \in Runtimes |-> 0]
  /\ cleanup = [r \in Runtimes |-> "none"]
  /\ refresh = [r \in Runtimes |-> "none"]
  /\ refreshTask = None
  /\ closing = FALSE /\ closedAll = FALSE
  /\ lock = None /\ closeLock = None
  /\ stepOf = [p \in Processes |-> "idle"]
  /\ uses = [p \in Processes |-> None]
  /\ todo = [p \in Processes |-> {}]
  /\ gens = [p \in Processes |-> {}]

MovesTo(p, location) == stepOf' = [stepOf EXCEPT ![p] = location]

ownerVars == <<built, current, unpublished>>
closeVars == <<closing, closedAll, closeLock, gens>>

EvenCurrent(r) == TRUE  \* a fault, for the checks only

WasRetired(r) == r \in retired \/ r \in closed

------------------------------------------------------------------------------
(* Leases                                                                  *)

EvenInUse(r) == TRUE  \* a fault, for the checks only

MayClean(r) == active[r] = 0

(* _close_generation starts a cleanup task unless one runs.                *)
CleanupStarted(rs) ==
  [r \in Runtimes |-> IF r \in rs /\ r \notin closed THEN "running" ELSE cleanup[r]]

(* The last lease of a retired generation closes it; during shutdown close *)
(* does.                                                                   *)
Uncounted(r) == UNCHANGED active  \* a fault, for the checks only

Acquired(r) == active' = [active EXCEPT ![r] = @ + 1]

NeverLast(r) == active[r] = 0  \* a fault, for the checks only

LastLease(r) == active[r] = 1

Released(r) ==
  /\ active' = [active EXCEPT ![r] = @ - 1]
  /\ cleanup' = IF LastLease(r) /\ WasRetired(r) /\ ~closing
                THEN CleanupStarted({r}) ELSE cleanup

Acquire(c) ==
  /\ stepOf[c] = "idle"
  /\ \/ /\ ~closing /\ ~closedAll
        /\ Acquired(current)
        /\ uses' = [uses EXCEPT ![c] = current]
        /\ MovesTo(c, "holding")
     \/ /\ closing \/ closedAll
        /\ MovesTo(c, "refused")
        /\ UNCHANGED <<active, uses>>
  /\ UNCHANGED <<ownerVars, retired, closed, cleanup, refresh, refreshTask, closeVars,
                 lock, todo, failed>>

Release(c) ==
  /\ stepOf[c] = "holding"
  /\ Released(uses[c])
  /\ uses' = [uses EXCEPT ![c] = None]
  /\ MovesTo(c, "done")
  /\ UNCHANGED <<ownerVars, retired, closed, refresh, refreshTask, closeVars, lock,
                 todo, failed>>

------------------------------------------------------------------------------
(* Discovery and cleanup tasks                                             *)

(* Startup schedules discovery before it serves requests and admins.       *)
StartRefresh ==
  /\ \A p \in Processes : stepOf[p] = "idle"
  /\ refresh[1] = "none"
  /\ refreshTask' = 1
  /\ refresh' = [refresh EXCEPT ![1] = "ready"]
  /\ UNCHANGED <<ownerVars, retired, closed, active, cleanup, closeVars, lock, stepOf, uses,
                 todo, failed>>

RefreshBegins(r) ==
  /\ refresh[r] = "ready"
  /\ IF r \in closed
     THEN refresh' = [refresh EXCEPT ![r] = "done"] /\ UNCHANGED active
     ELSE refresh' = [refresh EXCEPT ![r] = "running"] /\ Acquired(r)
  /\ UNCHANGED <<ownerVars, retired, closed, cleanup, refreshTask, closeVars, lock, stepOf,
                 uses, todo, failed>>

RefreshEnds(r) ==
  /\ refresh[r] = "running"
  /\ refresh' = [refresh EXCEPT ![r] = "done"]
  /\ Released(r)
  /\ UNCHANGED <<ownerVars, retired, closed, refreshTask, closeVars, lock, stepOf, uses,
                 todo, failed>>

(* _cancel_refresh: a task that has not run yet never will; p waits for    *)
(* the other to unwind.                                                    *)
RefreshCancelled ==
  IF refreshTask # None /\ refresh[refreshTask] = "ready"
  THEN [refresh EXCEPT ![refreshTask] = "done"] ELSE refresh

CancelRefresh(p) ==
  /\ refreshTask' = None
  /\ refresh' = RefreshCancelled
  /\ uses' = [uses EXCEPT ![p] = refreshTask]

RefreshStopped(p) == uses[p] # None => refresh[uses[p]] = "done"

CleanupSucceeds(r) ==
  /\ cleanup[r] = "running"
  /\ cleanup' = [cleanup EXCEPT ![r] = "none"]
  /\ closed' = closed \union {r}
  /\ retired' = retired \ {r}
  /\ UNCHANGED <<ownerVars, active, refresh, refreshTask, closeVars, lock, stepOf, uses,
                 todo, failed>>

CleanupFails(r) ==
  /\ cleanup[r] = "running"
  /\ cleanup' = [cleanup EXCEPT ![r] = "none"]
  /\ failed' = failed \union {r}
  /\ UNCHANGED <<ownerVars, retired, closed, active, refresh, refreshTask, closeVars, lock, stepOf,
                 uses, todo>>

------------------------------------------------------------------------------
(* Replacement and explicit discovery, under _replace_lock                 *)

EndAdmin(a, location) ==
  /\ MovesTo(a, location)
  /\ lock' = None
  /\ uses' = [uses EXCEPT ![a] = None]
  /\ todo' = [todo EXCEPT ![a] = {}]

(* The call enters the lock and cancels discovery.                         *)
Enter(a, location) ==
  /\ stepOf[a] = "idle" /\ lock = None
  /\ \/ /\ closing \/ closedAll
        /\ MovesTo(a, "refused")
        /\ UNCHANGED <<lock, refresh, refreshTask, uses>>
     \/ /\ ~closing /\ ~closedAll
        /\ lock' = a
        /\ CancelRefresh(a)
        /\ MovesTo(a, location)
  /\ UNCHANGED <<ownerVars, retired, closed, active, cleanup, closeVars, todo, failed>>

Replace(a) == Enter(a, "replacing")

RefreshAll(a) == Enter(a, "discovering")

BeginDiscovery(a) ==
  /\ stepOf[a] = "discovering" /\ RefreshStopped(a)
  /\ Acquired(current)
  /\ uses' = [uses EXCEPT ![a] = current]
  /\ MovesTo(a, "holding")
  /\ UNCHANGED <<ownerVars, retired, closed, cleanup, refresh, refreshTask, closeVars,
                 lock, todo, failed>>

EndDiscovery(a) ==
  /\ stepOf[a] = "holding"
  /\ Released(uses[a])
  /\ EndAdmin(a, "done")
  /\ UNCHANGED <<ownerVars, retired, closed, refresh, refreshTask, closeVars, failed>>

(* _retry_unpublished_cleanup, one runtime at a time.                      *)
BeginRetry(a) ==
  /\ stepOf[a] = "replacing" /\ RefreshStopped(a)
  /\ todo' = [todo EXCEPT ![a] = unpublished]
  /\ MovesTo(a, "retrying")
  /\ UNCHANGED <<ownerVars, retired, closed, active, cleanup, refresh, refreshTask,
                 closeVars, lock, uses, failed>>

RetryOne(p) ==
  /\ stepOf[p] = "retrying"
  /\ \E r \in todo[p] :
       /\ todo' = [todo EXCEPT ![p] = @ \ {r}]
       /\ \/ /\ unpublished' = unpublished \ {r}
             /\ closed' = closed \union {r}
             /\ UNCHANGED failed
          \/ /\ failed' = failed \union {r}
             /\ UNCHANGED <<unpublished, closed>>
  /\ UNCHANGED <<built, current, retired, active, cleanup, refresh, refreshTask,
                 closeVars, lock, stepOf, uses>>

ReadyToBuild(a) == stepOf[a] = "retrying" /\ todo[a] = {} /\ a \in Admins

BuildFails(a) ==
  /\ ReadyToBuild(a)
  /\ EndAdmin(a, "failed")
  /\ UNCHANGED <<ownerVars, retired, closed, active, cleanup, refresh, refreshTask,
                 closeVars, failed>>

Dropped(r) == unpublished  \* a fault, for the checks only

OwnedCandidates(r) == unpublished \union {r}

CommitFails(a) ==
  /\ ReadyToBuild(a) /\ built < MaxRuntimes
  /\ built' = built + 1
  /\ unpublished' = OwnedCandidates(built + 1)
  /\ todo' = [todo EXCEPT ![a] = {built + 1}]
  /\ MovesTo(a, "discarding")
  /\ UNCHANGED <<current, retired, closed, active, cleanup, refresh,
                 refreshTask, closeVars, lock, uses, failed>>

Discard(a) ==
  /\ stepOf[a] = "discarding"
  /\ \/ /\ unpublished' = unpublished \ todo[a]
        /\ closed' = closed \union todo[a]
        /\ UNCHANGED failed
     \/ /\ failed' = failed \union todo[a]
        /\ UNCHANGED <<unpublished, closed>>
  /\ EndAdmin(a, "failed")
  /\ UNCHANGED <<built, current, retired, active, cleanup, refresh, refreshTask,
                 closeVars>>

Publish(a) ==
  /\ ReadyToBuild(a) /\ built < MaxRuntimes
  /\ built' = built + 1
  /\ current' = built + 1
  /\ retired' = retired \union {current}
  /\ refreshTask' = built + 1
  /\ refresh' = [refresh EXCEPT ![built + 1] = "ready"]
  /\ IF MayClean(current)
     THEN /\ cleanup' = CleanupStarted({current})
          /\ MovesTo(a, "closingPrevious")
          /\ uses' = [uses EXCEPT ![a] = current]
          /\ UNCHANGED <<lock, todo>>
     ELSE /\ EndAdmin(a, "done")
          /\ UNCHANGED cleanup
  /\ UNCHANGED <<unpublished, closed, active, closeVars, failed>>

PreviousClosed(a) ==
  /\ stepOf[a] = "closingPrevious" /\ cleanup[uses[a]] = "none"
  /\ EndAdmin(a, "done")
  /\ UNCHANGED <<ownerVars, retired, closed, active, cleanup, refresh, refreshTask,
                 closeVars, failed>>

LeaseKept(a) == UNCHANGED <<active, cleanup>>  \* a fault, for the checks only

LeaseGivenUp(a) ==
  IF stepOf[a] = "holding" THEN Released(uses[a]) ELSE UNCHANGED <<active, cleanup>>

(* Cancelled at any await; a cleanup task goes on, a lease is released.    *)
CancelAdmin(a) ==
  /\ a \in Cancellable /\ lock = a
  /\ LeaseGivenUp(a)
  /\ EndAdmin(a, "cancelled")
  /\ UNCHANGED <<ownerVars, retired, closed, refresh, refreshTask, closeVars, failed>>

------------------------------------------------------------------------------
(* Shutdown                                                                *)

EndClose(x, location) ==
  /\ MovesTo(x, location)
  /\ closeLock' = None
  /\ uses' = [uses EXCEPT ![x] = None]
  /\ todo' = [todo EXCEPT ![x] = {}]
  /\ gens' = [gens EXCEPT ![x] = {}]

Close(x) ==
  /\ stepOf[x] = "idle" /\ closeLock = None
  /\ IF closedAll
     THEN MovesTo(x, "done") /\ UNCHANGED closeLock
     ELSE MovesTo(x, "locking") /\ closeLock' = x
  /\ UNCHANGED <<ownerVars, retired, closed, active, cleanup, refresh, refreshTask,
                 closing, closedAll, lock, uses, todo, gens, failed>>

RejectLeases(x) ==
  /\ stepOf[x] = "locking" /\ lock = None
  /\ lock' = x
  /\ closing' = TRUE
  /\ CancelRefresh(x)
  /\ MovesTo(x, "rejecting")
  /\ UNCHANGED <<ownerVars, retired, closed, active, cleanup, closedAll, closeLock,
                 todo, gens, failed>>

RetireCurrent(x) ==
  /\ stepOf[x] = "rejecting" /\ RefreshStopped(x)
  /\ retired' = IF WasRetired(current) THEN retired ELSE retired \union {current}
  /\ gens' = [gens EXCEPT ![x] = retired']
  /\ todo' = [todo EXCEPT ![x] = retired']
  /\ lock' = None
  /\ MovesTo(x, "draining")
  /\ UNCHANGED <<ownerVars, closed, active, cleanup, refresh, refreshTask, closing,
                 closedAll, closeLock, uses, failed>>

DrainedByDiscovery(r) == active[r] = 0 /\ refresh[r] # "none"
  \* a fault, for the checks only

IsDrained(r) == active[r] = 0

DrainOne(x) ==
  /\ stepOf[x] = "draining"
  /\ \E r \in todo[x] :
       /\ IsDrained(r)
       /\ todo' = [todo EXCEPT ![x] = @ \ {r}]
  /\ UNCHANGED <<ownerVars, retired, closed, active, cleanup, refresh, refreshTask,
                 closeVars, lock, stepOf, uses, failed>>

CloseGenerations(x) ==
  /\ stepOf[x] = "draining" /\ todo[x] = {}
  /\ cleanup' = CleanupStarted({r \in gens[x] : MayClean(r)})
  /\ MovesTo(x, "closing")
  /\ UNCHANGED <<ownerVars, retired, closed, active, refresh, refreshTask, closeVars,
                 lock, uses, todo, failed>>

RetryUnpublished(x) ==
  /\ stepOf[x] = "closing" /\ \A r \in gens[x] : cleanup[r] = "none"
  /\ todo' = [todo EXCEPT ![x] = unpublished]
  /\ MovesTo(x, "retrying")
  /\ UNCHANGED <<ownerVars, retired, closed, active, cleanup, refresh, refreshTask,
                 closeVars, lock, uses, failed>>

GivenUp(x) == TRUE  \* a fault, for the checks only

EverythingClosed(x) == gens[x] \subseteq closed /\ unpublished = {}

FinishClose(x) ==
  /\ stepOf[x] = "retrying" /\ todo[x] = {}
  /\ closedAll' = EverythingClosed(x)
  /\ EndClose(x, IF closedAll' THEN "done" ELSE "failed")
  /\ UNCHANGED <<ownerVars, retired, closed, active, cleanup, refresh, refreshTask,
                 closing, lock, failed>>

CancelClose(x) ==
  /\ x \in Cancellable /\ closeLock = x
  /\ lock' = IF lock = x THEN None ELSE lock
  /\ EndClose(x, "cancelled")
  /\ UNCHANGED <<ownerVars, retired, closed, active, cleanup, refresh, refreshTask,
                 closing, closedAll, failed>>

------------------------------------------------------------------------------
AdminStep(a) ==
  \/ BeginDiscovery(a) \/ EndDiscovery(a) \/ BeginRetry(a) \/ RetryOne(a)
  \/ BuildFails(a) \/ CommitFails(a) \/ Discard(a) \/ Publish(a) \/ PreviousClosed(a)

CloseStep(x) ==
  \/ RejectLeases(x) \/ RetireCurrent(x) \/ DrainOne(x) \/ CloseGenerations(x)
  \/ RetryUnpublished(x) \/ RetryOne(x) \/ FinishClose(x)

CleanupEnds(r) == CleanupSucceeds(r) \/ CleanupFails(r)

(* Ready tasks run, requests end, discovery and cleanup answer or fail.    *)
GenerationsProgress ==
  \/ \E c \in Clients : Release(c)
  \/ \E a \in Admins : AdminStep(a)
  \/ \E x \in Closers : CloseStep(x)
  \/ \E r \in Runtimes : RefreshBegins(r) \/ RefreshEnds(r) \/ CleanupEnds(r)

GenerationsNext ==
  \/ GenerationsProgress \/ StartRefresh
  \/ \E c \in Clients : Acquire(c)
  \/ \E a \in Admins : Replace(a) \/ RefreshAll(a) \/ CancelAdmin(a)
  \/ \E x \in Closers : Close(x) \/ CancelClose(x)

GenerationsSpec == GenerationsInit /\ [][GenerationsNext]_generationsVars

FairGenerationsSpec == GenerationsSpec /\ WF_generationsVars(GenerationsProgress)

------------------------------------------------------------------------------
Holders(r) == {p \in Clients \union Admins : stepOf[p] = "holding" /\ uses[p] = r}

GenerationsTypeOK ==
  /\ built \in Runtimes /\ current \in 1 .. built
  /\ retired \subseteq 1 .. built /\ unpublished \subseteq 1 .. built
  /\ closed \subseteq 1 .. built /\ failed \subseteq 1 .. built
  /\ active \in [Runtimes -> Nat]
  /\ cleanup \in [Runtimes -> {"none", "running"}]
  /\ refresh \in [Runtimes -> {"none", "ready", "running", "done"}]
  /\ refreshTask \in Runtimes \union {None}
  /\ closing \in BOOLEAN /\ closedAll \in BOOLEAN
  /\ lock \in Admins \union Closers \union {None}
  /\ closeLock \in Closers \union {None}
  /\ stepOf \in [Processes -> Steps]
  /\ uses \in [Processes -> Runtimes \union {None}]
  /\ todo \in [Processes -> SUBSET Runtimes]
  /\ gens \in [Processes -> SUBSET Runtimes]

(* No runtime is cleaned up, nor has been, while a request, an admin or    *)
(* the discovery task uses it, and the generation new requests get is not  *)
(* closed or being closed before shutdown begins.                          *)
NoUseAfterCleanup ==
  /\ \A r \in Runtimes : cleanup[r] = "running" \/ r \in closed =>
       Holders(r) = {} /\ refresh[r] # "running"
  /\ ~closing => current \notin closed /\ cleanup[current] = "none"

(* The counter of each generation is the number of its users: no lease is  *)
(* lost or counted twice when calls are cancelled.                         *)
LeasesCounted ==
  \A r \in Runtimes :
    active[r] = Cardinality(Holders(r)) + (IF refresh[r] = "running" THEN 1 ELSE 0)

(* "Failed generation or unpublished-candidate cleanup remains owned": a   *)
(* runtime that was built and is not closed is current, retired or         *)
(* unpublished, so that a later close finds it; and shutdown reports       *)
(* success only once every runtime is closed.                              *)
NothingLeaked ==
  /\ \A r \in 1 .. built : r \in closed \/ r = current \/ r \in retired \/ r \in unpublished
  /\ closedAll => 1 .. built \subseteq closed

(* A generation that was replaced is closed, or its cleanup has failed and *)
(* waits for close, once its users are gone.  A shutdown that is cancelled *)
(* while it drains leaves the generations it retired to the next close.    *)
RetiredClosed ==
  retired \subseteq closed \union failed \/ \E x \in Closers : stepOf[x] = "cancelled"

(* Every close comes to an end, by success, by failure or by cancellation. *)
ClosesEnded == \A x \in Closers : stepOf[x] \in {"idle", "done", "failed", "cancelled"}

GenerationsSettled == RetiredClosed /\ ClosesEnded

GenerationsSettle == []<>GenerationsSettled
==============================================================================
