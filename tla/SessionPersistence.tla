-------------------------- MODULE SessionPersistence --------------------------
(***************************************************************************)
(* The file of the messaging sessions (messaging/session/store.py,         *)
(* persistence.py, managed_message_log.py).  The event loop updates the    *)
(* store and schedules a debounced save; timer threads, a flush and the    *)
(* authoritative write of a clear compete for the file.  The locks are the *)
(* code's: the store lock is held through a whole clear, the writer lock   *)
(* through a write, and what happens under the timer lock is one step.  A  *)
(* write may fail, and the process may die between any two steps.          *)
(***************************************************************************)
EXTENDS Naturals, Sequences, SequencesExt

CONSTANTS Chats,           \* message scopes
          Messages,        \* managed platform messages
          Cap,             \* the cap of the message log, 0 for none
          Timers,          \* threads of debounced saves
          MaxVersion, MaxFailedWrites, MaxCrashes   \* bounds

Loop == "loop"
NoOne == "no one"
Writers == Timers \union {Loop}

ASSUME FileAssumption ==
    /\ Loop \notin Timers /\ NoOne \notin Timers
    /\ Cap \in Nat /\ MaxVersion \in Nat /\ MaxFailedWrites \in Nat /\ MaxCrashes \in Nat

VARIABLES store,           \* what the store holds in memory
          file,            \* what the file holds
          dirty,           \* SessionStore._dirty
          contentGeneration,      \* _save_generation
          timer,           \* _save_timer: its contentGeneration, 0 for None
          fired,           \* the callback of that timer has begun
          storeLock, writerLock,   \* their holders
          writer,          \* writer[w]: where thread w is, and its pending write
          clearedAt,       \* history: the version of the last clear that returned
          stuck,           \* history: the last write failed and nothing is pending
          writeFailures, crashes   \* counters of the bounds

fileVars == <<store, file, dirty, contentGeneration, timer, fired, storeLock, writerLock,
              writer, clearedAt, stuck, writeFailures, crashes>>

Empty == [version |-> 0, trees |-> [c \in Chats |-> 0], log |-> [c \in Chats |-> <<>>]]

Stores == [version : 0 .. MaxVersion, trees : [Chats -> 0 .. MaxVersion],
           log : [Chats -> Seq(Messages)]]

Idle == [at |-> "idle", contentGeneration |-> 0, snapshot |-> Empty, clears |-> {}]

Places == {"idle", "fired", "flushing", "claimed", "snapped", "writing", "failed",
           "written", "cleaning"}

FileTypeOK ==
    /\ store \in Stores /\ file \in Stores
    /\ dirty \in BOOLEAN /\ fired \in BOOLEAN /\ stuck \in BOOLEAN
    /\ contentGeneration \in Nat /\ timer \in 0 .. contentGeneration
    /\ storeLock \in {NoOne, Loop} /\ writerLock \in Writers \union {NoOne}
    /\ writer \in [Writers -> [at : Places, contentGeneration : Nat, snapshot : Stores,
                               clears : SUBSET Chats]]
    /\ clearedAt \in [Chats -> 0 .. MaxVersion]
    /\ writeFailures \in 0 .. MaxFailedWrites /\ crashes \in 0 .. MaxCrashes

FileInit ==
    /\ store = Empty /\ file = Empty /\ dirty = FALSE
    /\ contentGeneration = 0 /\ timer = 0 /\ fired = FALSE
    /\ storeLock = NoOne /\ writerLock = NoOne
    /\ writer = [w \in Writers |-> Idle]
    /\ clearedAt = [c \in Chats |-> 0] /\ stuck = FALSE
    /\ writeFailures = 0 /\ crashes = 0

-----------------------------------------------------------------------------
(* ManagedMessageLog: insertion order, no message twice, the oldest beyond  *)
(* the cap forgotten.                                                       *)
Trim(log) == IF Cap = 0 \/ Len(log) <= Cap THEN log
             ELSE SubSeq(log, Len(log) - Cap + 1, Len(log))

Append1(log, m) == IF Contains(log, m) THEN log ELSE Trim(Append(log, m))

(* The updates of the store that save, each a new version.                  *)
SaveTree(c) == [store EXCEPT !.version = @ + 1, !.trees[c] = store.version + 1]

RemoveTree(c) == [store EXCEPT !.version = @ + 1, !.trees[c] = 0]

RecordMessage(c, m) ==
    [store EXCEPT !.version = @ + 1, !.log[c] = Append1(@, m)]

Remove1(log, m) == IF Contains(log, m)
                   THEN RemoveAt(log, CHOOSE i \in DOMAIN log : log[i] = m) ELSE log

ForgetMessage(c, m) ==
    [store EXCEPT !.version = @ + 1, !.log[c] = Remove1(@, m)]

WithoutScope(c) ==
    [version |-> store.version + 1, trees |-> [store.trees EXCEPT ![c] = 0],
     log |-> [store.log EXCEPT ![c] = <<>>]]

(* schedule_save: a new contentGeneration, whose timer replaces the pending one.   *)
ScheduleSave ==
    /\ dirty' = TRUE
    /\ contentGeneration' = contentGeneration + 1
    /\ timer' = contentGeneration + 1 /\ fired' = FALSE
    /\ stuck' = FALSE

Update(new) ==
    /\ writer[Loop].at = "idle" /\ storeLock = NoOne /\ store.version < MaxVersion
    /\ [new EXCEPT !.version = 0] # [store EXCEPT !.version = 0]
    /\ store' = new
    /\ ScheduleSave
    /\ UNCHANGED <<file, storeLock, writerLock, writer, clearedAt, writeFailures, crashes>>

UpdateStore ==
    \E c \in Chats : \/ Update(SaveTree(c)) \/ Update(RemoveTree(c))
                     \/ \E m \in Messages : \/ Update(RecordMessage(c, m))
                                            \/ Update(ForgetMessage(c, m))

(* A fault, for the checks only: older snapshots stay valid.                *)
KeepOlder == UNCHANGED contentGeneration

(* clear_scope: the store lock is held until the write is over.             *)
InvalidateOlder == contentGeneration' = contentGeneration + 1

ClearScope(c) ==
    /\ writer[Loop].at = "idle" /\ storeLock = NoOne /\ store.version < MaxVersion
    /\ store' = WithoutScope(c)
    /\ storeLock' = Loop
    /\ dirty' = TRUE /\ timer' = 0 /\ fired' = FALSE /\ stuck' = FALSE
    /\ InvalidateOlder
    /\ writer' = [writer EXCEPT ![Loop] =
                     [at |-> "snapped", contentGeneration |-> contentGeneration',
                      snapshot |-> WithoutScope(c), clears |-> {c}]]
    /\ UNCHANGED <<file, writerLock, clearedAt, writeFailures, crashes>>

(* flush: claims the pending timer, whatever its contentGeneration.                *)
FlushStore ==
    /\ writer[Loop].at = "idle" /\ storeLock = NoOne
    /\ dirty' = TRUE
    /\ writer' = [writer EXCEPT ![Loop].at = "flushing"]
    /\ UNCHANGED <<store, file, contentGeneration, timer, fired, storeLock, writerLock,
                   clearedAt, stuck, writeFailures, crashes>>

(* A timer elapses: its thread begins, and cancelling it is too late.       *)
TimerFires(t) ==
    /\ timer # 0 /\ ~fired /\ writer[t].at = "idle"
    /\ fired' = TRUE
    /\ writer' = [writer EXCEPT ![t] = [at |-> "fired", contentGeneration |-> timer,
                                         snapshot |-> Empty, clears |-> {}]]
    /\ UNCHANGED <<store, file, dirty, contentGeneration, timer, storeLock, writerLock,
                   clearedAt, stuck, writeFailures, crashes>>

(* A fault, for the checks only: every timer after the first gives up.      *)
SupersededOnce(t) == contentGeneration > 1

(* A timer that was replaced gives up, and so does one that a flush has     *)
(* claimed.                                                                 *)
Superseded(t) == writer[t].contentGeneration # contentGeneration \/ timer = 0

ClaimTimer(w) ==
    /\ writer[w].at \in {"fired", "flushing"}
    /\ IF writer[w].at = "fired" /\ Superseded(w)
       THEN writer' = [writer EXCEPT ![w] = Idle] /\ UNCHANGED <<timer, fired>>
       ELSE /\ writer' = [writer EXCEPT ![w].at = "claimed",
                                         ![w].contentGeneration = contentGeneration]
            /\ timer' = 0 /\ fired' = FALSE
    /\ UNCHANGED <<store, file, dirty, contentGeneration, storeLock, writerLock, clearedAt,
                   stuck, writeFailures, crashes>>

TakeSnapshot(w) ==
    /\ writer[w].at = "claimed" /\ storeLock = NoOne
    /\ writer' = [writer EXCEPT ![w].at = "snapped", ![w].snapshot = store]
    /\ UNCHANGED <<store, file, dirty, contentGeneration, timer, fired, storeLock, writerLock,
                   clearedAt, stuck, writeFailures, crashes>>

(* The end of thread w; with it a clear releases the store lock, and has    *)
(* returned unless its write raised.                                        *)
Leave(w, raised) ==
    /\ writer' = [writer EXCEPT ![w] = Idle]
    /\ storeLock' = IF w = Loop THEN NoOne ELSE storeLock
    /\ clearedAt' = [c \in Chats |-> IF c \in writer[w].clears /\ ~raised
                                     THEN store.version ELSE clearedAt[c]]

(* A fault, for the checks only: no look at the contentGeneration before a write.  *)
AlwaysCurrent(w) == TRUE

IsCurrent(w) == writer[w].contentGeneration = contentGeneration

TakeWriterLock(w) ==
    /\ writer[w].at = "snapped" /\ writerLock = NoOne
    /\ IF IsCurrent(w)
       THEN /\ writerLock' = w
            /\ writer' = [writer EXCEPT ![w].at = "writing"]
            /\ UNCHANGED <<storeLock, clearedAt>>
       ELSE Leave(w, FALSE) /\ UNCHANGED writerLock
    /\ UNCHANGED <<store, file, dirty, contentGeneration, timer, fired, stuck, writeFailures,
                   crashes>>

WriteFile(w) ==
    /\ writer[w].at = "writing"
    /\ writerLock' = NoOne
    /\ \/ /\ file' = writer[w].snapshot
          /\ writer' = [writer EXCEPT ![w].at = "written"]
          /\ UNCHANGED <<stuck, writeFailures>>
       \/ /\ writeFailures < MaxFailedWrites /\ writeFailures' = writeFailures + 1
          /\ writer' = [writer EXCEPT ![w].at = "failed"]
          /\ stuck' = (stuck \/ (timer = 0 /\ IsCurrent(w)))
          /\ UNCHANGED file
    /\ UNCHANGED <<store, dirty, contentGeneration, timer, fired, storeLock, clearedAt, crashes>>

(* Whether the file is up to date is decided under the timer lock and       *)
(* recorded after it: a save may be scheduled in between.                   *)
MarkCleanIfCurrent(w) ==
    /\ writer[w].at = "written"
    /\ IF timer = 0 /\ IsCurrent(w)
       THEN /\ writer' = [writer EXCEPT ![w].at = "cleaning"]
            /\ UNCHANGED <<storeLock, clearedAt>>
       ELSE Leave(w, FALSE)
    /\ UNCHANGED <<store, file, dirty, contentGeneration, timer, fired, writerLock, stuck,
                   writeFailures, crashes>>

SetDirty(w) ==
    /\ writer[w].at \in {"cleaning", "failed"} /\ (w = Loop \/ storeLock = NoOne)
    /\ dirty' = (writer[w].at = "failed")
    /\ Leave(w, writer[w].at = "failed")
    /\ UNCHANGED <<store, file, contentGeneration, timer, fired, writerLock, stuck, writeFailures,
                   crashes>>

(* The process dies: a temporary file is left at most, and the next start   *)
(* loads what was last replaced.                                            *)
Crash ==
    /\ crashes < MaxCrashes /\ crashes' = crashes + 1
    /\ store' = file /\ dirty' = FALSE
    /\ contentGeneration' = 0 /\ timer' = 0 /\ fired' = FALSE
    /\ storeLock' = NoOne /\ writerLock' = NoOne
    /\ writer' = [w \in Writers |-> Idle] /\ stuck' = FALSE
    /\ UNCHANGED <<file, clearedAt, writeFailures>>

WriterStep(w) ==
    \/ ClaimTimer(w) \/ TakeSnapshot(w) \/ TakeWriterLock(w)
    \/ WriteFile(w) \/ MarkCleanIfCurrent(w) \/ SetDirty(w)

SavesGoOn == (\E t \in Timers : TimerFires(t)) \/ (\E w \in Writers : WriterStep(w))

FileNext ==
    \/ UpdateStore \/ FlushStore \/ Crash \/ SavesGoOn
    \/ \E c \in Chats : ClearScope(c)

(* The scheduler runs the timers and threads that can run.                  *)
FileSpec == FileInit /\ [][FileNext]_fileVars /\ WF_fileVars(SavesGoOn)

-----------------------------------------------------------------------------
(* An older snapshot never replaces a newer one, whichever thread writes    *)
(* last (_write_if_current).                                                *)
FileNeverRegresses == [][file'.version >= file.version]_fileVars

(* Once a clear has returned, no write and no crash brings back a tree the  *)
(* chat had before it (clear_scope, write_data).                            *)
ClearIsDurable ==
    \A c \in Chats : file.trees[c] = 0 \/ file.trees[c] > clearedAt[c]

(* The last update reaches the file without another call, except after a    *)
(* write that failed (schedule_save).                                       *)
Saved == file = store \/ stuck

SavedInTheEnd == <>[]Saved
=============================================================================
