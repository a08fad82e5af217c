--------------------------- MODULE MessagingProofs ---------------------------
(***************************************************************************)
(* Theorems about the messaging bridge beside its trees: voice notes, the  *)
(* file of the conversations and its writers, the conversation as it is    *)
(* stored and restored, the messages of a chat and the pool of Claude Code *)
(* sessions; for any number of notes, chats, asks, deliveries, commands,   *)
(* runs, crashes and failing calls.  Each part has an inductive invariant  *)
(* (VoiceInv, FileInv, StoredInv, ManagedInv, SessionsInv), kept by one    *)
(* lemma per action.                                                       *)
(***************************************************************************)
EXTENDS VoiceNotes, SessionPersistence, StoredConversation, ManagedMessages,
        ManagedSessions, SequenceTheorems, FiniteSetTheorems, TLAPS

------------------------------------------------------------------------------
(* VoiceNotes: what a flow holds at each place.                             *)
(* An entry stands under the message and the status of its own flow only.  *)
OwnReferences ==
  \A k \in References : registry[k] # NoFlow => k \in {MessageOf[registry[k]], StatusOf(registry[k])}

(* How a flow has ended says what it held, and where it is says what it    *)
(* holds: a handoff only while it waits for one, a status once it is sent. *)
FlowInv ==
  \A f \in Flows :
    /\ released[f] \in {"rejected", "discard", "handoff"} => flow[f] = "ended"
    /\ flow[f] \in {"new", "reserved"} => status[f] = "none"
    /\ flow[f] = "new" => released[f] = "no"
    /\ flow[f] = "sent" => status[f] = "sent"
    /\ flow[f] \in {"new", "reserved", "sent", "transcribing"} => handoff[f] = "none"
    /\ handoff[f] \in {"created", "running"} => flow[f] \in {"handoff", "cancelling"}

(* A handoff that may still start has not been taken by a command.         *)
StartsUncancelled ==
  \A f \in Flows : handoff[f] = "created" => released[f] = "no" \/ f \in struck

VoiceInv ==
  /\ VoiceTypeOK /\ OwnReferences /\ VoicesExact /\ FlowInv /\ StartsUncancelled

LEMMA ReferenceTypes ==
  \A f \in Flows : MessageOf[f] \in References /\ StatusOf(f) \in References
    /\ \A g \in Flows : MessageOf[f] # StatusOf(g)
BY VoiceAssumption DEF References, VoiceMessages, StatusOf

LEMMA StatusInjective == \A f, g \in Flows : StatusOf(f) = StatusOf(g) => f = g
BY DEF StatusOf

LEMMA VoiceInitInv == VoiceInit => VoiceInv
BY ReferenceTypes, VoiceAssumption
DEF VoiceInit, VoiceInv, VoiceTypeOK, OwnReferences, VoicesExact, RegistryExact, StatusNotOrphaned,
    FlowInv, StartsUncancelled, FlowStates

LEMMA VoiceStep == VoiceInv /\ [VoiceNext]_voiceVars => VoiceInv'
<1> SUFFICES ASSUME VoiceInv, [VoiceNext]_voiceVars PROVE VoiceInv'
  OBVIOUS
<1> USE ReferenceTypes, StatusInjective, VoiceAssumption
<1> USE DEF VoiceInv, VoiceTypeOK, OwnReferences, VoicesExact, RegistryExact, StatusNotOrphaned,
    FlowInv, StartsUncancelled, FlowStates
<1>1. ASSUME NEW f \in Flows, Reserve(f) PROVE VoiceInv'
  BY <1>1 DEF Reserve, GoTo, Owned
<1>2. ASSUME NEW f \in Flows, StatusSent(f) PROVE VoiceInv'
  BY <1>2 DEF StatusSent, GoTo, Owned
<1>3. ASSUME NEW f \in Flows, BindStatus(f) PROVE VoiceInv'
  <2>1. CASE Owned(f)
    <3>1. /\ flow[f] = "sent" /\ StatusOf(f) \in References
          /\ registry' = [registry EXCEPT ![StatusOf(f)] = f]
          /\ status' = [status EXCEPT ![f] = "bound"]
          /\ flow' = [flow EXCEPT ![f] = "transcribing"]
          /\ UNCHANGED <<handoff, struck, handed, released, draining, protects, command>>
      BY <1>3, <2>1 DEF BindStatus, GoTo
    <3>2. VoiceTypeOK' /\ OwnReferences'
      BY <3>1
    <3>3. VoicesExact'
      BY <3>1, <2>1 DEF Owned
    <3>4. FlowInv' /\ StartsUncancelled'
      BY <3>1
    <3> QED
      BY <3>2, <3>3, <3>4
  <2>2. CASE ~Owned(f)
    BY <1>3, <2>2 DEF BindStatus, GoTo, Owned, DiscardEntry
  <2> QED
    BY <2>1, <2>2
<1>4. ASSUME NEW f \in Flows, FlowFails(f) PROVE VoiceInv'
  BY <1>4 DEF FlowFails, GoTo, Owned, DiscardEntry, ReleaseNote, Without
<1>5. ASSUME NEW f \in Flows, HandOff(f) PROVE VoiceInv'
  BY <1>5 DEF HandOff, CanHandOff, GoTo, Owned, DiscardEntry, ReleaseNote, Without
<1>6. ASSUME NEW f \in Flows, HandoffStarts(f) PROVE VoiceInv'
  BY <1>6 DEF HandoffStarts, Owned
<1>7. ASSUME NEW f \in Flows, HandoffEnds(f) PROVE VoiceInv'
  BY <1>7 DEF HandoffEnds, Owned
<1>8. ASSUME NEW f \in Flows, FlowCancelled(f) PROVE VoiceInv'
  BY <1>8 DEF FlowCancelled, GoTo, Owned
<1>9. ASSUME NEW f \in Flows, FinishOwnership(f) PROVE VoiceInv'
  BY <1>9 DEF FinishOwnership, GoTo, Owned, ReleaseNote, Without
<1>10. ASSUME NEW a \in Speakers, CancelVoices(a) PROVE VoiceInv'
  BY <1>10 DEF CancelVoices, Owned, Without, Targets, Pending, Excluded
<1>11. ASSUME NEW a \in Speakers, VoicesCancelled(a) PROVE VoiceInv'
  BY <1>11 DEF VoicesCancelled, Owned
<1>12. CASE UNCHANGED voiceVars
  BY <1>12 DEF voiceVars, Owned
<1> QED
  BY <1>1, <1>2, <1>3, <1>4, <1>5, <1>6, <1>7, <1>8, <1>9, <1>10, <1>11, <1>12
  DEF VoiceNext, VoiceProgress

LEMMA VoiceHandoff == VoiceInv /\ [VoiceNext]_voiceVars =>
    [\A f \in Flows : released[f] # "no" => (f \in handed' => f \in handed)]_voiceVars
<1> SUFFICES ASSUME VoiceInv, VoiceNext, ~UNCHANGED voiceVars, NEW f \in Flows,
                    released[f] # "no", f \in handed', f \notin handed
             PROVE FALSE
  BY DEF voiceVars
<1> PICK g \in Flows : HandoffStarts(g)
  BY DEF VoiceNext, VoiceProgress, Reserve, StatusSent, BindStatus, FlowFails, HandOff,
         HandoffEnds, FlowCancelled, FinishOwnership, CancelVoices, VoicesCancelled
<1> QED
  BY DEF HandoffStarts, VoiceInv, VoiceTypeOK, StartsUncancelled

(* The same without fairness: the form the composition uses.               *)
LEMMA VoiceKept ==
  VoiceInit /\ [][VoiceNext]_voiceVars => []VoiceTypeOK /\ []VoicesExact /\ NoHandoffAfterCancel
<1>1. VoiceInv => VoiceTypeOK /\ VoicesExact
  BY DEF VoiceInv
<1> QED
  BY VoiceInitInv, VoiceStep, VoiceHandoff, <1>1, PTL DEF NoHandoffAfterCancel

(* A reference to a voice note is released exactly once, for any number of *)
(* notes, and a note a command took is never handed to messaging.          *)
THEOREM VoiceSafe == VoiceSpec => []VoiceTypeOK /\ []VoicesExact /\ NoHandoffAfterCancel
BY VoiceKept, PTL DEF VoiceSpec

------------------------------------------------------------------------------
(* SessionPersistence: what a writer may still write to the file.           *)
(***************************************************************************)
(* FileTypeOK in parts.                                                    *)
(***************************************************************************)
FlagTypes == dirty \in BOOLEAN /\ fired \in BOOLEAN /\ stuck \in BOOLEAN

StoreTypes == store \in Stores /\ file \in Stores

CountTypes ==
  /\ contentGeneration \in Nat /\ timer \in 0 .. contentGeneration
  /\ writeFailures \in 0 .. MaxFailedWrites /\ crashes \in 0 .. MaxCrashes

ClearTypes == clearedAt \in [Chats -> 0 .. MaxVersion]

LockTypes == storeLock \in {NoOne, Loop} /\ writerLock \in Writers \union {NoOne}

WriterTypes ==
  writer \in [Writers -> [at : Places, contentGeneration : Nat, snapshot : Stores,
                          clears : SUBSET Chats]]

(* What a clear that returned removed is not in data.                      *)
Cleared(data) == \A c \in Chats : data.trees[c] = 0 \/ data.trees[c] > clearedAt[c]

Versions ==
  /\ file.version <= store.version
  /\ \A c \in Chats : clearedAt[c] <= file.version

(* A snapshot that is current is the store; the one being written is newer *)
(* than the file.                                                          *)
WriterInv(w) ==
  /\ writer[w].at = "idle" => writer[w] = Idle
  /\ writer[w].contentGeneration <= contentGeneration
  /\ writer[w].at \in {"snapped", "writing"} =>
        /\ writer[w].snapshot.version <= store.version
        /\ writer[w].contentGeneration = contentGeneration => writer[w].snapshot = store
  /\ writer[w].at = "writing" =>
        /\ writerLock = w
        /\ writer[w].snapshot.version >= file.version
        /\ Cleared(writer[w].snapshot)
  /\ w # Loop => writer[w].clears = {}

Writing == \A w \in Writers : WriterInv(w)

(* A clear that has not returned holds the store: nothing is newer than    *)
(* its snapshot, and after its write every other write is of that snapshot.*)
Clearing == writer[Loop].clears # {} =>
  /\ storeLock = Loop /\ timer = 0 
  /\ writer[Loop].contentGeneration = contentGeneration /\ writer[Loop].snapshot = store
  /\ writer[Loop].at \in {"snapped", "writing", "written", "cleaning", "failed"}
  /\ \A c \in writer[Loop].clears : store.trees[c] = 0
  /\ writer[Loop].at \in {"written", "cleaning"} =>
        /\ file = store
        /\ \A w \in Writers : writer[w].at = "writing" => writer[w].snapshot = store

FileInv ==
  /\ FlagTypes /\ StoreTypes /\ CountTypes /\ ClearTypes /\ LockTypes /\ WriterTypes
  /\ Versions /\ Writing /\ Clearing /\ Cleared(store) /\ Cleared(file)

LEMMA Names == Loop # NoOne /\ Loop \in Writers /\ NoOne \notin Writers
BY FileAssumption DEF Loop, NoOne, Writers

LEMMA LogTypes ==
  ASSUME NEW log \in Seq(Messages), NEW m \in Messages
  PROVE  Append1(log, m) \in Seq(Messages) /\ Remove1(log, m) \in Seq(Messages)
<1>1. ASSUME NEW s \in Seq(Messages) PROVE Trim(s) \in Seq(Messages)
  <2>1. Len(s) \in Nat /\ Cap \in Nat
    BY FileAssumption
  <2>2. CASE Cap = 0 \/ Len(s) <= Cap
    BY <2>2 DEF Trim
  <2>3. CASE ~(Cap = 0 \/ Len(s) <= Cap)
    <3>1. SubSeq(s, Len(s) - Cap + 1, Len(s)) \in Seq(Messages)
      BY <2>1, <2>3, SubSeqProperties
    <3> QED
      BY <2>3, <3>1 DEF Trim
  <2> QED
    BY <2>2, <2>3
<1>2. Append1(log, m) \in Seq(Messages)
  <2>1. Append(log, m) \in Seq(Messages)
    OBVIOUS
  <2>2. Trim(Append(log, m)) \in Seq(Messages)
    BY <1>1, <2>1
  <2> QED
    BY <2>2 DEF Append1
<1>3. ASSUME Contains(log, m) PROVE Remove1(log, m) \in Seq(Messages)
  <2> DEFINE i == CHOOSE j \in DOMAIN log : log[j] = m
  <2>1. i \in 1 .. Len(log)
    BY <1>3 DEF Contains
  <2>2. Len(log) \in Nat
    OBVIOUS
  <2> HIDE DEF i
  <2>3. SubSeq(log, 1, i - 1) \in Seq(Messages)
    BY <2>1, <2>2, SubSeqProperties
  <2>4. SubSeq(log, i + 1, Len(log)) \in Seq(Messages)
    BY <2>1, <2>2, SubSeqProperties
  <2>5. RemoveAt(log, i) \in Seq(Messages)
    BY <2>3, <2>4 DEF RemoveAt
  <2> QED
    BY <1>3, <2>5 DEF Remove1, i
<1> QED
  BY <1>2, <1>3 DEF Remove1

LEMMA IdleThread == Idle.at = "idle" /\ Idle.contentGeneration = 0 /\ Idle.clears = {}
BY DEF Idle

LEMMA StoreFields ==
  \A s \in Stores : s.version \in 0 .. MaxVersion /\ s.trees \in [Chats -> 0 .. MaxVersion]
BY DEF Stores

LEMMA EmptyStore == Empty \in Stores /\ Empty.version = 0 /\ \A c \in Chats : Empty.trees[c] = 0
BY FileAssumption DEF Empty, Stores

LEMMA TreesUpdated ==
  ASSUME NEW s \in Stores, NEW v \in 0 .. MaxVersion, NEW c \in Chats, NEW n \in 0 .. MaxVersion
  PROVE  [s EXCEPT !.version = v, !.trees[c] = n] \in Stores
BY DEF Stores

LEMMA LogUpdated ==
  ASSUME NEW s \in Stores, NEW v \in 0 .. MaxVersion, NEW c \in Chats, NEW l \in Seq(Messages)
  PROVE  [s EXCEPT !.version = v, !.log[c] = l] \in Stores
BY DEF Stores

LEMMA ScopeRemoved ==
  ASSUME StoreTypes, store.version < MaxVersion, NEW c \in Chats
  PROVE  WithoutScope(c) \in Stores
BY FileAssumption DEF WithoutScope, Stores, StoreTypes

LEMMA FileInitInv == FileInit => FileInv
<1> SUFFICES ASSUME FileInit PROVE FileInv
  OBVIOUS
<1>1. FlagTypes /\ StoreTypes
  BY EmptyStore DEF FileInit, FlagTypes, StoreTypes
<1>2. CountTypes /\ ClearTypes /\ LockTypes
  BY FileAssumption DEF FileInit, CountTypes, ClearTypes, LockTypes
<1>3. WriterTypes
  BY EmptyStore DEF FileInit, WriterTypes, Idle, Places
<1>4. Versions /\ Clearing /\ Cleared(store) /\ Cleared(file)
  BY Names, EmptyStore DEF FileInit, Versions, Clearing, Cleared, Idle
<1>5. Writing
  BY Names, EmptyStore DEF FileInit, Writing, WriterInv, Idle
<1> QED
  BY <1>1, <1>2, <1>3, <1>4, <1>5 DEF FileInv

LEMMA FlushStoreKeeps ==
  ASSUME FileInv, FlushStore
  PROVE  FileInv'
<1> USE FileAssumption, Names, StoreFields, EmptyStore DEF FileInv
<1>1. FlagTypes'
  BY DEF FlagTypes, FlushStore
<1>2. StoreTypes'
  BY DEF StoreTypes, WriterTypes, FlushStore
<1>3. CountTypes'
  BY DEF CountTypes, StoreTypes, WriterTypes, FlushStore
<1>4. ClearTypes'
  BY DEF ClearTypes, StoreTypes, FlushStore
<1>5. LockTypes'
  BY DEF LockTypes, FlushStore
<1>6. WriterTypes'
  BY DEF StoreTypes, CountTypes, WriterTypes, Places, Idle, Writers, FlushStore
<1>7. Versions'
  BY DEF Versions, StoreTypes, ClearTypes, WriterTypes, Writing, WriterInv, Clearing, Writers, FlushStore
<1>8. ASSUME NEW v \in Writers PROVE WriterInv(v)'
  <2> USE DEF WriterInv, Writing, StoreTypes, CountTypes, WriterTypes, Versions, FlushStore
  <2>0. Loop \in Writers
    BY DEF Writers
  <2>1. CASE v # Loop
    <3>1. writer'[v] = writer[v]
      BY <2>1, <2>0
    <3> QED
      BY <2>1, <2>0, <3>1 DEF Cleared, Clearing
  <2>2. CASE v = Loop
    BY <2>2, <2>0 DEF Idle, Cleared, Places, Clearing
  <2> QED
    BY <2>1, <2>2
<1>9. Writing'
  BY <1>8 DEF Writing
<1>10. Clearing'
  BY DEF StoreTypes, CountTypes, WriterTypes, Writing, WriterInv, Clearing, Idle, Writers, FlushStore
<1>11. Cleared(store)' /\ Cleared(file)'
  BY DEF Versions, StoreTypes, ClearTypes, WriterTypes, Writing, WriterInv, Clearing, Cleared, Writers, FlushStore
<1> QED
  BY <1>1, <1>2, <1>3, <1>4, <1>5, <1>6, <1>7, <1>9, <1>10, <1>11

LEMMA CrashKeeps ==
  ASSUME FileInv, Crash
  PROVE  FileInv'
<1> USE FileAssumption, Names, StoreFields, EmptyStore DEF FileInv
<1>1. FlagTypes'
  BY DEF FlagTypes, Crash
<1>2. StoreTypes'
  BY DEF StoreTypes, WriterTypes, Crash
<1>3. CountTypes'
  BY DEF CountTypes, StoreTypes, WriterTypes, Crash
<1>4. ClearTypes'
  BY DEF ClearTypes, StoreTypes, Crash
<1>5. LockTypes'
  BY DEF LockTypes, Crash
<1>6. WriterTypes'
  BY DEF StoreTypes, CountTypes, WriterTypes, Places, Idle, Writers, Crash
<1>7. Versions'
  BY DEF Versions, StoreTypes, ClearTypes, WriterTypes, Writing, WriterInv, Clearing, Writers, Crash
<1>8. ASSUME NEW v \in Writers PROVE WriterInv(v)'
  <2> USE DEF WriterInv, Writing, StoreTypes, CountTypes, WriterTypes, Versions, Crash
  <2>1. writer'[v] = Idle
    OBVIOUS
  <2> QED
    BY <2>1 DEF Idle
<1>9. Writing'
  BY <1>8 DEF Writing
<1>10. Clearing'
  BY DEF StoreTypes, CountTypes, WriterTypes, Writing, WriterInv, Clearing, Idle, Writers, Crash
<1>11. Cleared(store)' /\ Cleared(file)'
  BY DEF Versions, StoreTypes, ClearTypes, WriterTypes, Writing, WriterInv, Clearing, Cleared, Writers, Crash
<1> QED
  BY <1>1, <1>2, <1>3, <1>4, <1>5, <1>6, <1>7, <1>9, <1>10, <1>11

LEMMA TimerFiresKeeps ==
  ASSUME FileInv, NEW t \in Timers, TimerFires(t)
  PROVE  FileInv'
<1> USE FileAssumption, Names, StoreFields, EmptyStore DEF FileInv
<1>1. FlagTypes'
  BY DEF FlagTypes, TimerFires
<1>2. StoreTypes'
  BY DEF StoreTypes, WriterTypes, TimerFires
<1>3. CountTypes'
  BY DEF CountTypes, StoreTypes, WriterTypes, TimerFires
<1>4. ClearTypes'
  BY DEF ClearTypes, StoreTypes, TimerFires
<1>5. LockTypes'
  BY DEF LockTypes, TimerFires
<1>6. WriterTypes'
  <2>1. [at |-> "fired", contentGeneration |-> timer, snapshot |-> Empty, clears |-> {}]
          \in [at : Places, contentGeneration : Nat, snapshot : Stores, clears : SUBSET Chats]
    BY timer \in Nat, EmptyStore DEF CountTypes, Places
  <2> QED
    BY <2>1 DEF WriterTypes, TimerFires
<1>7. Versions'
  BY DEF Versions, StoreTypes, ClearTypes, WriterTypes, Writing, WriterInv, Clearing, Writers, TimerFires
<1>8. ASSUME NEW v \in Writers PROVE WriterInv(v)'
  <2> USE DEF WriterInv, Writing, StoreTypes, CountTypes, WriterTypes, Versions, TimerFires
  <2>0. t \in Writers
    BY DEF Writers
  <2>1. CASE v # t
    <3>1. writer'[v] = writer[v]
      BY <2>1, <2>0
    <3> QED
      BY <2>1, <2>0, <3>1 DEF Cleared, Clearing
  <2>2. CASE v = t
    BY <2>2, <2>0 DEF Idle, Cleared, Places, Clearing
  <2> QED
    BY <2>1, <2>2
<1>9. Writing'
  BY <1>8 DEF Writing
<1>10. Clearing'
  BY DEF StoreTypes, CountTypes, WriterTypes, Writing, WriterInv, Clearing, Idle, Writers, TimerFires
<1>11. Cleared(store)' /\ Cleared(file)'
  BY DEF Versions, StoreTypes, ClearTypes, WriterTypes, Writing, WriterInv, Clearing, Cleared, Writers, TimerFires
<1> QED
  BY <1>1, <1>2, <1>3, <1>4, <1>5, <1>6, <1>7, <1>9, <1>10, <1>11

LEMMA ClaimTimerKeeps ==
  ASSUME FileInv, NEW w \in Writers, ClaimTimer(w)
  PROVE  FileInv'
<1> USE FileAssumption, Names, StoreFields, EmptyStore DEF FileInv
<1>1. FlagTypes'
  BY DEF FlagTypes, ClaimTimer, Superseded
<1>2. StoreTypes'
  BY DEF StoreTypes, WriterTypes, ClaimTimer, Superseded
<1>3. CountTypes'
  BY DEF CountTypes, StoreTypes, WriterTypes, ClaimTimer, Superseded
<1>4. ClearTypes'
  BY DEF ClearTypes, StoreTypes, ClaimTimer, Superseded
<1>5. LockTypes'
  BY DEF LockTypes, ClaimTimer, Superseded
<1>6. WriterTypes'
  BY DEF StoreTypes, CountTypes, WriterTypes, Places, Idle, Writers, ClaimTimer, Superseded
<1>7. Versions'
  BY DEF Versions, StoreTypes, ClearTypes, WriterTypes, Writing, WriterInv, Clearing, Writers, ClaimTimer, Superseded
<1>8. ASSUME NEW v \in Writers PROVE WriterInv(v)'
  <2> USE DEF WriterInv, Writing, StoreTypes, CountTypes, WriterTypes, Versions, ClaimTimer, Superseded
  <2>0. w \in Writers
    BY DEF Writers
  <2>1. CASE v # w
    <3>1. writer'[v] = writer[v]
      BY <2>1, <2>0
    <3> QED
      BY <2>1, <2>0, <3>1 DEF Cleared, Clearing
  <2>2. CASE v = w
    <3>1. CASE writer[w].at = "fired" /\ Superseded(w)
      <4>1. writer'[w] = Idle
        BY <3>1, <2>0
      <4> QED
        BY <4>1, <2>2, IdleThread DEF WriterInv, CountTypes
    <3>2. CASE ~(writer[w].at = "fired" /\ Superseded(w))
      BY <2>2, <3>2, <2>0 DEF Idle, Cleared, Places, Clearing
    <3> QED
      BY <3>1, <3>2
  <2> QED
    BY <2>1, <2>2
<1>9. Writing'
  BY <1>8 DEF Writing
<1>10. Clearing'
  BY DEF StoreTypes, CountTypes, WriterTypes, Writing, WriterInv, Clearing, Idle, Writers, ClaimTimer, Superseded
<1>11. Cleared(store)' /\ Cleared(file)'
  BY DEF Versions, StoreTypes, ClearTypes, WriterTypes, Writing, WriterInv, Clearing, Cleared, Writers, ClaimTimer, Superseded
<1> QED
  BY <1>1, <1>2, <1>3, <1>4, <1>5, <1>6, <1>7, <1>9, <1>10, <1>11

LEMMA TakeSnapshotKeeps ==
  ASSUME FileInv, NEW w \in Writers, TakeSnapshot(w)
  PROVE  FileInv'
<1> USE FileAssumption, Names, StoreFields, EmptyStore DEF FileInv
<1>1. FlagTypes'
  BY DEF FlagTypes, TakeSnapshot
<1>2. StoreTypes'
  BY DEF StoreTypes, WriterTypes, TakeSnapshot
<1>3. CountTypes'
  BY DEF CountTypes, StoreTypes, WriterTypes, TakeSnapshot
<1>4. ClearTypes'
  BY DEF ClearTypes, StoreTypes, TakeSnapshot
<1>5. LockTypes'
  BY DEF LockTypes, TakeSnapshot
<1>6. WriterTypes'
  BY DEF StoreTypes, CountTypes, WriterTypes, Places, Idle, Writers, TakeSnapshot
<1>7. Versions'
  BY DEF Versions, StoreTypes, ClearTypes, WriterTypes, Writing, WriterInv, Clearing, Writers, TakeSnapshot
<1>8. ASSUME NEW v \in Writers PROVE WriterInv(v)'
  <2> USE DEF WriterInv, Writing, StoreTypes, CountTypes, WriterTypes, Versions, TakeSnapshot
  <2>0. w \in Writers
    BY DEF Writers
  <2>1. CASE v # w
    <3>1. writer'[v] = writer[v]
      BY <2>1, <2>0
    <3> QED
      BY <2>1, <2>0, <3>1 DEF Cleared, Clearing
  <2>2. CASE v = w
    BY <2>2, <2>0 DEF Idle, Cleared, Places, Clearing
  <2> QED
    BY <2>1, <2>2
<1>9. Writing'
  BY <1>8 DEF Writing
<1>10. Clearing'
  BY DEF StoreTypes, CountTypes, WriterTypes, Writing, WriterInv, Clearing, Idle, Writers, TakeSnapshot
<1>11. Cleared(store)' /\ Cleared(file)'
  BY DEF Versions, StoreTypes, ClearTypes, WriterTypes, Writing, WriterInv, Clearing, Cleared, Writers, TakeSnapshot
<1> QED
  BY <1>1, <1>2, <1>3, <1>4, <1>5, <1>6, <1>7, <1>9, <1>10, <1>11

LEMMA TakeWriterLockKeeps ==
  ASSUME FileInv, NEW w \in Writers, TakeWriterLock(w)
  PROVE  FileInv'
<1> USE FileAssumption, Names, StoreFields, EmptyStore DEF FileInv
<1>1. FlagTypes'
  BY DEF FlagTypes, TakeWriterLock, Leave, IsCurrent
<1>2. StoreTypes'
  BY DEF StoreTypes, WriterTypes, TakeWriterLock, Leave, IsCurrent
<1>3. CountTypes'
  BY DEF CountTypes, StoreTypes, WriterTypes, TakeWriterLock, Leave, IsCurrent
<1>4. ClearTypes'
  BY DEF ClearTypes, StoreTypes, TakeWriterLock, Leave, IsCurrent
<1>5. LockTypes'
  BY DEF LockTypes, TakeWriterLock, Leave, IsCurrent
<1>6. WriterTypes'
  BY DEF StoreTypes, CountTypes, WriterTypes, Places, Idle, Writers, TakeWriterLock, Leave, IsCurrent
<1>7. Versions'
  BY DEF Versions, StoreTypes, ClearTypes, WriterTypes, Writing, WriterInv, Clearing, Writers, TakeWriterLock, Leave, IsCurrent
<1>8. ASSUME NEW v \in Writers PROVE WriterInv(v)'
  <2> USE DEF WriterInv, Writing, StoreTypes, CountTypes, WriterTypes, Versions, TakeWriterLock, Leave, IsCurrent
  <2>0. w \in Writers
    BY DEF Writers
  <2>1. CASE v # w
    <3>1. writer'[v] = writer[v]
      BY <2>1, <2>0
    <3> QED
      BY <2>1, <2>0, <3>1 DEF Cleared, Clearing
  <2>2. CASE v = w
    <3>1. CASE IsCurrent(w)
      BY <2>2, <3>1, <2>0 DEF Idle, Cleared, Places, Clearing
    <3>2. CASE ~(IsCurrent(w))
      <4>1. writer'[w] = Idle
        BY <3>2, <2>0
      <4> QED
        BY <4>1, <2>2, IdleThread DEF WriterInv, CountTypes
    <3> QED
      BY <3>1, <3>2
  <2> QED
    BY <2>1, <2>2
<1>9. Writing'
  BY <1>8 DEF Writing
<1>10. Clearing'
  BY DEF StoreTypes, CountTypes, WriterTypes, Writing, WriterInv, Clearing, Idle, Writers, TakeWriterLock, Leave, IsCurrent
<1>11. Cleared(store)' /\ Cleared(file)'
  BY DEF Versions, StoreTypes, ClearTypes, WriterTypes, Writing, WriterInv, Clearing, Cleared, Writers, TakeWriterLock, Leave, IsCurrent
<1> QED
  BY <1>1, <1>2, <1>3, <1>4, <1>5, <1>6, <1>7, <1>9, <1>10, <1>11

LEMMA WriteFileKeeps ==
  ASSUME FileInv, NEW w \in Writers, WriteFile(w)
  PROVE  FileInv'
<1> USE FileAssumption, Names, StoreFields, EmptyStore DEF FileInv
<1>1. FlagTypes'
  BY DEF FlagTypes, WriteFile, IsCurrent
<1>2. StoreTypes'
  BY DEF StoreTypes, WriterTypes, WriteFile, IsCurrent
<1>3. CountTypes'
  BY DEF CountTypes, StoreTypes, WriterTypes, WriteFile, IsCurrent
<1>4. ClearTypes'
  BY DEF ClearTypes, StoreTypes, WriteFile, IsCurrent
<1>5. LockTypes'
  BY DEF LockTypes, WriteFile, IsCurrent
<1>6. WriterTypes'
  BY DEF StoreTypes, CountTypes, WriterTypes, Places, Idle, Writers, WriteFile, IsCurrent
<1>7. Versions'
  BY DEF Versions, StoreTypes, ClearTypes, WriterTypes, Writing, WriterInv, Clearing, Writers, WriteFile, IsCurrent
<1>8. ASSUME NEW v \in Writers PROVE WriterInv(v)'
  <2> USE DEF WriterInv, Writing, StoreTypes, CountTypes, WriterTypes, Versions, WriteFile, IsCurrent
  <2>0. w \in Writers
    BY DEF Writers
  <2>1. CASE v # w
    <3>1. writer'[v] = writer[v]
      BY <2>1, <2>0
    <3> QED
      BY <2>1, <2>0, <3>1 DEF Cleared, Clearing
  <2>2. CASE v = w
    BY <2>2, <2>0 DEF Idle, Cleared, Places, Clearing
  <2> QED
    BY <2>1, <2>2
<1>9. Writing'
  BY <1>8 DEF Writing
<1>10. Clearing'
  BY DEF StoreTypes, CountTypes, WriterTypes, Writing, WriterInv, Clearing, Idle, Writers, WriteFile, IsCurrent
<1>11. Cleared(store)' /\ Cleared(file)'
  BY DEF Versions, StoreTypes, ClearTypes, WriterTypes, Writing, WriterInv, Clearing, Cleared, Writers, WriteFile, IsCurrent
<1> QED
  BY <1>1, <1>2, <1>3, <1>4, <1>5, <1>6, <1>7, <1>9, <1>10, <1>11

LEMMA MarkCleanIfCurrentKeeps ==
  ASSUME FileInv, NEW w \in Writers, MarkCleanIfCurrent(w)
  PROVE  FileInv'
<1> USE FileAssumption, Names, StoreFields, EmptyStore DEF FileInv
<1>1. FlagTypes'
  BY DEF FlagTypes, MarkCleanIfCurrent, Leave, IsCurrent
<1>2. StoreTypes'
  BY DEF StoreTypes, WriterTypes, MarkCleanIfCurrent, Leave, IsCurrent
<1>3. CountTypes'
  BY DEF CountTypes, StoreTypes, WriterTypes, MarkCleanIfCurrent, Leave, IsCurrent
<1>4. ClearTypes'
  BY DEF ClearTypes, StoreTypes, MarkCleanIfCurrent, Leave, IsCurrent
<1>5. LockTypes'
  BY DEF LockTypes, MarkCleanIfCurrent, Leave, IsCurrent
<1>6. WriterTypes'
  BY DEF StoreTypes, CountTypes, WriterTypes, Places, Idle, Writers, MarkCleanIfCurrent, Leave, IsCurrent
<1>7. Versions'
  BY DEF Versions, StoreTypes, ClearTypes, WriterTypes, Writing, WriterInv, Clearing, Writers, MarkCleanIfCurrent, Leave, IsCurrent
<1>8. ASSUME NEW v \in Writers PROVE WriterInv(v)'
  <2> USE DEF WriterInv, Writing, StoreTypes, CountTypes, WriterTypes, Versions, MarkCleanIfCurrent, Leave, IsCurrent
  <2>0. w \in Writers
    BY DEF Writers
  <2>1. CASE v # w
    <3>1. writer'[v] = writer[v]
      BY <2>1, <2>0
    <3> QED
      BY <2>1, <2>0, <3>1 DEF Cleared, Clearing
  <2>2. CASE v = w
    <3>1. CASE timer = 0 /\ IsCurrent(w)
      BY <2>2, <3>1, <2>0 DEF Idle, Cleared, Places, Clearing
    <3>2. CASE ~(timer = 0 /\ IsCurrent(w))
      <4>1. writer'[w] = Idle
        BY <3>2, <2>0
      <4> QED
        BY <4>1, <2>2, IdleThread DEF WriterInv, CountTypes
    <3> QED
      BY <3>1, <3>2
  <2> QED
    BY <2>1, <2>2
<1>9. Writing'
  BY <1>8 DEF Writing
<1>10. Clearing'
  <2> USE DEF StoreTypes, CountTypes, WriterTypes, Clearing, MarkCleanIfCurrent, Leave, IsCurrent
  <2>1. CASE timer = 0 /\ IsCurrent(w)
    <3>1. /\ writer' = [writer EXCEPT ![w].at = "cleaning"]
          /\ \A v \in Writers : writer'[v].at = "writing" =>
               writer[v].at = "writing" /\ writer'[v].snapshot = writer[v].snapshot
      BY <2>1
    <3>2. writer'[Loop].clears = writer[Loop].clears /\ writer'[Loop].snapshot = writer[Loop].snapshot
      BY <3>1
    <3> QED
      BY <2>1, <3>1, <3>2
  <2>2. CASE ~(timer = 0 /\ IsCurrent(w))
    <3>1. writer' = [writer EXCEPT ![w] = Idle] /\ (w # Loop => storeLock' = storeLock)
      BY <2>2
    <3>2. CASE w = Loop
      BY <3>1, <3>2 DEF Idle
    <3>3. CASE w # Loop
      <4>1. writer'[Loop] = writer[Loop]
        BY <3>1, <3>3
      <4>2. \A v \in Writers : writer'[v].at = "writing" => writer'[v] = writer[v]
        BY <3>1 DEF Idle
      <4> QED
        BY <3>1, <3>3, <4>1, <4>2
    <3> QED
      BY <3>2, <3>3
  <2> QED
    BY <2>1, <2>2
<1>11. Cleared(store)' /\ Cleared(file)'
  BY DEF Versions, StoreTypes, ClearTypes, WriterTypes, Writing, WriterInv, Clearing, Cleared, Writers, MarkCleanIfCurrent, Leave, IsCurrent
<1> QED
  BY <1>1, <1>2, <1>3, <1>4, <1>5, <1>6, <1>7, <1>9, <1>10, <1>11

LEMMA SetDirtyKeeps ==
  ASSUME FileInv, NEW w \in Writers, SetDirty(w)
  PROVE  FileInv'
<1> USE FileAssumption, Names, StoreFields, EmptyStore DEF FileInv
<1>1. FlagTypes'
  BY DEF FlagTypes, SetDirty, Leave
<1>2. StoreTypes'
  BY DEF StoreTypes, WriterTypes, SetDirty, Leave
<1>3. CountTypes'
  BY DEF CountTypes, StoreTypes, WriterTypes, SetDirty, Leave
<1>4. ClearTypes'
  BY DEF ClearTypes, StoreTypes, SetDirty, Leave
<1>5. LockTypes'
  BY DEF LockTypes, SetDirty, Leave
<1>6. WriterTypes'
  BY DEF StoreTypes, CountTypes, WriterTypes, Places, Idle, Writers, SetDirty, Leave
<1>7. Versions'
  BY DEF Versions, StoreTypes, ClearTypes, WriterTypes, Writing, WriterInv, Clearing, Writers, SetDirty, Leave
<1>8. ASSUME NEW v \in Writers PROVE WriterInv(v)'
  <2> USE DEF WriterInv, Writing, StoreTypes, CountTypes, WriterTypes, Versions, SetDirty, Leave
  <2>0. w \in Writers
    BY DEF Writers
  <2>1. CASE v # w
    <3>1. writer'[v] = writer[v]
      BY <2>1, <2>0
    <3> QED
      BY <2>1, <2>0, <3>1 DEF Cleared, Clearing
  <2>2. CASE v = w
    BY <2>2, <2>0 DEF Idle, Cleared, Places, Clearing
  <2> QED
    BY <2>1, <2>2
<1>9. Writing'
  BY <1>8 DEF Writing
<1>10. Clearing'
  BY DEF StoreTypes, CountTypes, WriterTypes, Writing, WriterInv, Clearing, Idle, Writers, SetDirty, Leave
<1>11. Cleared(store)' /\ Cleared(file)'
  BY DEF Versions, StoreTypes, ClearTypes, WriterTypes, Writing, WriterInv, Clearing, Cleared, Writers, SetDirty, Leave
<1> QED
  BY <1>1, <1>2, <1>3, <1>4, <1>5, <1>6, <1>7, <1>9, <1>10, <1>11

LEMMA ClearScopeKeeps ==
  ASSUME FileInv, NEW c \in Chats, ClearScope(c)
  PROVE  FileInv'
<1> USE FileAssumption, Names, StoreFields, EmptyStore DEF FileInv
<1>1. FlagTypes'
  BY DEF FlagTypes, ClearScope, WithoutScope, InvalidateOlder
<1>s. WithoutScope(c) \in Stores
  BY ScopeRemoved DEF ClearScope
<1>2. StoreTypes'
  BY <1>s DEF StoreTypes, ClearScope
<1>3. CountTypes'
  BY DEF CountTypes, StoreTypes, WriterTypes, ClearScope, WithoutScope, InvalidateOlder
<1>4. ClearTypes'
  BY DEF ClearTypes, StoreTypes, ClearScope, WithoutScope, InvalidateOlder
<1>5. LockTypes'
  BY DEF LockTypes, ClearScope, WithoutScope, InvalidateOlder
<1>6. WriterTypes'
  BY <1>s DEF CountTypes, WriterTypes, Places, ClearScope, InvalidateOlder
<1>7. Versions'
  BY DEF Versions, StoreTypes, ClearTypes, WriterTypes, Writing, WriterInv, Clearing, Writers, Stores, ClearScope, WithoutScope, InvalidateOlder
<1>8. ASSUME NEW v \in Writers PROVE WriterInv(v)'
  <2> USE DEF WriterInv, Writing, StoreTypes, CountTypes, WriterTypes, Versions, ClearScope, WithoutScope, InvalidateOlder
  <2>0. Loop \in Writers
    BY DEF Writers
  <2>1. CASE v # Loop
    <3>1. /\ writer'[v] = writer[v] /\ store'.version = store.version + 1
          /\ contentGeneration' = contentGeneration + 1
          /\ UNCHANGED <<file, writerLock, clearedAt>>
      BY <2>1, <2>0
    <3>2. contentGeneration \in Nat /\ store.version \in Nat /\ writer[v].contentGeneration \in Nat
          /\ writer[v].snapshot.version \in Nat
      OBVIOUS
    <3>3. WriterInv(v)
      OBVIOUS
    <3> HIDE DEF ClearScope, WithoutScope, InvalidateOlder, WriterTypes, StoreTypes, Writing
    <3> QED
      BY <2>1, <3>1, <3>2, <3>3 DEF Cleared
  <2>2. CASE v = Loop
    BY <2>2, <2>0 DEF Idle, Cleared, Places, Clearing
  <2> QED
    BY <2>1, <2>2
<1>9. Writing'
  BY <1>8 DEF Writing
<1>10. Clearing'
  BY DEF StoreTypes, CountTypes, WriterTypes, Writing, WriterInv, Clearing, Idle, Writers, Stores, ClearScope, WithoutScope, InvalidateOlder
<1>11. Cleared(store)' /\ Cleared(file)'
  BY DEF Versions, StoreTypes, ClearTypes, WriterTypes, Writing, WriterInv, Clearing, Cleared, Writers, Stores, ClearScope, WithoutScope, InvalidateOlder
<1> QED
  BY <1>1, <1>2, <1>3, <1>4, <1>5, <1>6, <1>7, <1>9, <1>10, <1>11


LEMMA UpdateKeeps ==
  ASSUME FileInv, NEW new \in Stores, Update(new), new.version = store.version + 1,
         \A c \in Chats : new.trees[c] \in {0, store.trees[c], store.version + 1}
  PROVE  FileInv'
<1> USE FileAssumption, Names, StoreFields DEF FileInv
<1>1. FlagTypes' /\ StoreTypes'
  BY DEF FlagTypes, StoreTypes, Update, ScheduleSave
<1>2. CountTypes' /\ ClearTypes' /\ LockTypes' /\ WriterTypes'
  BY DEF CountTypes, ClearTypes, LockTypes, WriterTypes, Update, ScheduleSave
<1>3. Versions' /\ Cleared(store)' /\ Cleared(file)'
  BY DEF StoreTypes, ClearTypes, Versions, Cleared, Update, ScheduleSave
<1>4. Writing'
  BY IdleThread
  DEF Writing, WriterInv, StoreTypes, CountTypes, WriterTypes, Cleared, Update, ScheduleSave
<1>5. Clearing'
  BY IdleThread DEF Clearing, Writing, WriterInv, Update, ScheduleSave
<1> QED
  BY <1>1, <1>2, <1>3, <1>4, <1>5

LEMMA UpdateStoreKeeps ==
  ASSUME FileInv, UpdateStore
  PROVE  FileInv'
<1> USE FileAssumption
<1>1. store \in Stores /\ store.version \in Nat
  BY DEF FileInv, StoreTypes, Stores
<1>0. store.version < MaxVersion => store.version + 1 \in 0 .. MaxVersion
  BY <1>1
<1>2. ASSUME NEW c \in Chats, Update(SaveTree(c)) PROVE FileInv'
  <2>1. SaveTree(c) \in Stores
    BY <1>1, <1>2, <1>0, TreesUpdated DEF SaveTree, Update
  <2> QED
    BY <1>1, <1>2, <2>1, UpdateKeeps DEF SaveTree, Stores
<1>3. ASSUME NEW c \in Chats, Update(RemoveTree(c)) PROVE FileInv'
  <2>1. RemoveTree(c) \in Stores
    BY <1>1, <1>3, <1>0, 0 \in 0 .. MaxVersion, TreesUpdated DEF RemoveTree, Update
  <2> QED
    BY <1>1, <1>3, <2>1, UpdateKeeps DEF RemoveTree, Stores
<1>4. ASSUME NEW c \in Chats, NEW m \in Messages, Update(RecordMessage(c, m)) PROVE FileInv'
  <2>1. RecordMessage(c, m) \in Stores
    <3>1. store.log[c] \in Seq(Messages)
      BY <1>1 DEF Stores
    <3> QED
      BY <1>1, <1>4, <1>0, <3>1, LogTypes, LogUpdated DEF RecordMessage, Update
  <2> QED
    BY <1>1, <1>4, <2>1, UpdateKeeps DEF RecordMessage, Stores
<1>5. ASSUME NEW c \in Chats, NEW m \in Messages, Update(ForgetMessage(c, m)) PROVE FileInv'
  <2>1. ForgetMessage(c, m) \in Stores
    <3>1. store.log[c] \in Seq(Messages)
      BY <1>1 DEF Stores
    <3> QED
      BY <1>1, <1>5, <1>0, <3>1, LogTypes, LogUpdated DEF ForgetMessage, Update
  <2> QED
    BY <1>1, <1>5, <2>1, UpdateKeeps DEF ForgetMessage, Stores
<1> QED
  BY <1>2, <1>3, <1>4, <1>5 DEF UpdateStore

LEMMA FileStutter == FileInv /\ UNCHANGED fileVars => FileInv'
BY DEF fileVars, FileInv, FlagTypes, StoreTypes, CountTypes, ClearTypes, LockTypes, WriterTypes,
   Versions, Writing, WriterInv, Clearing, Cleared

LEMMA FileStep == FileInv /\ [FileNext]_fileVars => FileInv'
<1> SUFFICES ASSUME FileInv, [FileNext]_fileVars PROVE FileInv'
  OBVIOUS
<1>1. Timers \subseteq Writers
  BY DEF Writers
<1>2. ASSUME NEW w \in Writers, WriterStep(w) PROVE FileInv'
  BY <1>2, ClaimTimerKeeps, TakeSnapshotKeeps, TakeWriterLockKeeps, WriteFileKeeps,
     MarkCleanIfCurrentKeeps, SetDirtyKeeps
  DEF WriterStep
<1> QED
  BY <1>2, UpdateStoreKeeps, FlushStoreKeeps, CrashKeeps, TimerFiresKeeps, ClearScopeKeeps,
     FileStutter
  DEF FileNext, SavesGoOn

(* Only a write changes the file, to a snapshot that is not older.         *)
LEMMA OnlyWritesChangeFile ==
  ASSUME FileInv, [FileNext]_fileVars
  PROVE  file' = file \/ \E w \in Writers : writer[w].at = "writing" /\ file' = writer[w].snapshot
BY DEF FileNext, UpdateStore, Update, FlushStore, Crash, SavesGoOn, TimerFires, WriterStep, ClaimTimer,
   TakeSnapshot, TakeWriterLock, WriteFile, MarkCleanIfCurrent, SetDirty, ClearScope, fileVars

LEMMA NotOlder == FileInv /\ [FileNext]_fileVars => file'.version >= file.version
BY OnlyWritesChangeFile, StoreFields DEF FileInv, Writing, WriterInv, StoreTypes, WriterTypes

LEMMA FileTypes == FlagTypes /\ StoreTypes /\ CountTypes /\ ClearTypes /\ LockTypes /\ WriterTypes
                   => FileTypeOK
BY DEF FileTypeOK, FlagTypes, StoreTypes, CountTypes, ClearTypes, LockTypes, WriterTypes

(* The same without fairness: the form the composition uses.               *)
LEMMA FileKept ==
  FileInit /\ [][FileNext]_fileVars => []FileTypeOK /\ []ClearIsDurable /\ FileNeverRegresses
<1>1. FileInv => FileTypeOK /\ ClearIsDurable
  BY FileTypes DEF FileInv, ClearIsDurable, Cleared
<1>2. FileInv /\ [FileNext]_fileVars => [file'.version >= file.version]_fileVars
  BY NotOlder
<1> QED
  BY FileInitInv, FileStep, <1>1, <1>2, PTL DEF FileNeverRegresses

(* A chat that was cleared stays cleared in every later file, also after a *)
(* crash, and no writer replaces the file by an older snapshot.            *)
THEOREM FileSafe == FileSpec => []FileTypeOK /\ []ClearIsDurable /\ FileNeverRegresses
BY FileKept, PTL DEF FileSpec

------------------------------------------------------------------------------
(* StoredConversation: the records of the store match the trees.            *)
Snapshots == UNION {[S -> Node] : S \in SUBSET Asks}

ConversationTypes ==
  /\ talk \in [Asks -> Node] /\ waiting \in [Asks -> SUBSET Asks]
  /\ taskOf \in [Asks -> {"none", "created", "running", "stopping", "ending", "unentered"}]
  /\ activeAsk \in [Asks -> 0 .. MaxAsks] /\ refused \subseteq Asks /\ listed \subseteq Asks

KeptTypes == kept \in [Asks -> Snapshots \union {NoTree}]

OrderTypes ==
  /\ order.at \in {"idle", "draining", "returning"}
  /\ order.trees \subseteq Asks /\ DOMAIN order.taken \subseteq Asks
  /\ \A t \in DOMAIN order.taken : order.taken[t] \in Snapshots
  /\ order.at = "idle" => order = NoOrder

OrderFields == DOMAIN order = {"at", "op", "trees", "tasks", "told", "dropped", "taken"}

ScreenTypes ==
  /\ screen \in [Asks -> {"none", "open", "closed", "deleted", "interrupted", "cut"}]
  /\ life \in {"up", "closing", "closed", "crashed"}
  /\ orders \in 0 .. MaxOrders /\ deaths \in 0 .. MaxDeaths

(* The nodes of a tree hang together.                                      *)
Rooted ==
  \A i \in Asks :
    /\ talk[i].state = "unasked" => talk[i].tree = i
    /\ talk[i].tree = i => talk[i].above = {}
    /\ talk[i].tree # i => talk[i].tree \in talk[i].above
    /\ \A a \in talk[i].above : talk[a].tree = talk[i].tree /\ talk[a].state # "unasked"

RootsAsked ==
  \A t \in listed \union Stored : talk[t].tree = t /\ talk[t].state # "unasked"

(* A snapshot of t has nodes of t only, where they are.                    *)
SnapshotOK(snapshot, t) ==
  \A i \in DOMAIN snapshot :
    /\ snapshot[i].state \in Held /\ snapshot[i].tree = t
    /\ talk[i].tree = t /\ talk[i].above = snapshot[i].above /\ talk[i].state # "unasked"

SnapshotsOK ==
  /\ \A t \in Stored : SnapshotOK(kept[t], t)
  /\ \A t \in DOMAIN order.taken : SnapshotOK(order.taken[t], t)

(* Who may write has a node to write.                                      *)
ClaimsHeld == \A i \in Asks : Writes(i) => talk[i].state \in Held

NodesOf(t) == {j \in Asks : talk[j].state \in Held /\ talk[j].tree = t}

(* The repository and the store, but for the trees a command is about.     *)
Listed ==
  life # "crashed" =>
    /\ \A i \in Asks : talk[i].state \in Held => talk[i].tree \in listed
    /\ \A t \in Asks \ order.trees :
          /\ t \in listed <=> kept[t] # NoTree
          /\ t \in listed => DOMAIN kept[t] = NodesOf(t)

TakenExact ==
  life # "crashed" /\ order.at = "returning" =>
    /\ DOMAIN order.taken = order.trees \intersect listed
    /\ \A t \in DOMAIN order.taken : DOMAIN order.taken[t] = NodesOf(t)

(* Once a shutdown has stopped everything, nothing is written any more.    *)
Quiet ==
  life \in {"closing", "closed"} =>
    /\ \A i \in Asks : talk[i].state \notin Waits /\ ~Writes(i)
    /\ order.at # "idle" => order.trees = listed
    /\ order.at = "idle" => \A t \in listed : kept[t] = SnapshotOf(talk, t)
    /\ order.at = "returning" =>
          \A t \in DOMAIN order.taken : order.taken[t] = SnapshotOf(talk, t)

ClosedIdle == life = "closed" => order.at = "idle"

(* Nothing is admitted while a clear of everything is on its way.          *)
AllCleared == order.op = "clear_all" => listed = {}

StoredInv ==
  /\ ConversationTypes /\ KeptTypes /\ OrderTypes /\ OrderFields /\ ScreenTypes
  /\ Rooted /\ RootsAsked /\ SnapshotsOK /\ ClaimsHeld /\ Listed /\ TakenExact /\ Quiet
  /\ ClosedIdle /\ AllCleared

WithState(n, s) == [n EXCEPT !.state = s]
WithSession(n) == [n EXCEPT !.session = TRUE]

LEMMA NodeUpdated ==
  /\ \A n \in Node : \A s \in Held \union {"unasked", "gone"} :
        /\ WithState(n, s) \in Node /\ WithState(n, s).state = s
        /\ WithState(n, s).tree = n.tree /\ WithState(n, s).above = n.above
  /\ \A n \in Node :
        /\ WithSession(n) \in Node /\ WithSession(n).state = n.state
        /\ WithSession(n).tree = n.tree /\ WithSession(n).above = n.above
BY DEF Node, WithState, WithSession

LEMMA NodeFields ==
  \A n \in Node : n.state \in Held \union {"unasked", "gone"} /\ n.tree \in Asks
                  /\ n.above \in SUBSET Asks
BY DEF Node

LEMMA SnapshotShape ==
  \A tk \in [Asks -> Node] : \A t :
     /\ SnapshotOf(tk, t) \in Snapshots /\ SnapshotOf(tk, t) # NoTree
     /\ DOMAIN SnapshotOf(tk, t) = {j \in Asks : tk[j].state \in Held /\ tk[j].tree = t}
     /\ \A i \in DOMAIN SnapshotOf(tk, t) : SnapshotOf(tk, t)[i] = tk[i]
<1> TAKE tk \in [Asks -> Node]
<1> TAKE t
<1> DEFINE S == {j \in Asks : tk[j].state \in Held /\ tk[j].tree = t}
<1>1. SnapshotOf(tk, t) = [i \in S |-> tk[i]]
  BY DEF SnapshotOf, Nodes
<1>2. S \in SUBSET Asks /\ SnapshotOf(tk, t) \in [S -> Node]
  BY <1>1
<1> QED
  BY <1>1, <1>2, StoredAssumption DEF Snapshots

(* A step that leaves every node in its tree, and a tree it saves.         *)
Rewrites ==
  /\ talk' \in [Asks -> Node] /\ UNCHANGED <<listed, order, life>>
  /\ \A j \in Asks :
       /\ talk'[j].tree = talk[j].tree /\ talk'[j].above = talk[j].above
       /\ talk'[j].state \in Held <=> talk[j].state \in Held
       /\ talk'[j].state = "unasked" <=> talk[j].state = "unasked"

SavesAtMost == kept' = kept \/ \E t \in listed : Save(t)

Structure ==
  KeptTypes /\ OrderTypes /\ OrderFields /\ Rooted /\ RootsAsked /\ SnapshotsOK /\ Listed
  /\ TakenExact /\ ClosedIdle /\ AllCleared

LEMMA RewriteKeeps ==
  ASSUME StoredInv, Rewrites, SavesAtMost
  PROVE  Structure'
<1>t. talk \in [Asks -> Node] /\ talk' \in [Asks -> Node] /\ listed \subseteq Asks
  BY DEF StoredInv, Rewrites, ConversationTypes
<1>r. /\ UNCHANGED <<listed, order, life>>
      /\ \A j \in Asks :
           /\ talk'[j].tree = talk[j].tree /\ talk'[j].above = talk[j].above
           /\ talk'[j].state \in Held <=> talk[j].state \in Held
           /\ talk'[j].state = "unasked" <=> talk[j].state = "unasked"
  BY DEF Rewrites
<1>n. \A t : NodesOf(t)' = NodesOf(t)
  BY <1>r DEF NodesOf
<1>s. \A t : /\ SnapshotOf(talk', t) \in Snapshots /\ SnapshotOf(talk', t) # NoTree
             /\ DOMAIN SnapshotOf(talk', t) = NodesOf(t)
             /\ \A i \in NodesOf(t) : SnapshotOf(talk', t)[i] = talk'[i]
  <2> TAKE t
  <2> DEFINE S == {j \in Asks : talk'[j].state \in Held /\ talk'[j].tree = t}
  <2>1. S = NodesOf(t)
    BY <1>r DEF NodesOf
  <2>2. /\ SnapshotOf(talk', t) \in Snapshots /\ SnapshotOf(talk', t) # NoTree
        /\ DOMAIN SnapshotOf(talk', t) = S
        /\ \A i \in DOMAIN SnapshotOf(talk', t) : SnapshotOf(talk', t)[i] = talk'[i]
    BY <1>t, SnapshotShape
  <2> HIDE DEF S
  <2> QED
    BY <2>1, <2>2
<1>2. \A t \in Asks : kept'[t] = kept[t] \/ (t \in listed /\ kept'[t] = SnapshotOf(talk', t))
  <2>1. kept \in [Asks -> Snapshots \union {NoTree}]
    BY DEF StoredInv, KeptTypes
  <2>2. CASE kept' = kept
    BY <2>2
  <2>3. CASE \E t \in listed : Save(t)
    <3>1. PICK u \in listed : kept' = [kept EXCEPT ![u] = SnapshotOf(talk', u)]
      BY <2>3 DEF Save
    <3>2. ASSUME NEW t \in Asks
          PROVE  kept'[t] = kept[t] \/ (t \in listed /\ kept'[t] = SnapshotOf(talk', t))
      <4>1. CASE t = u
        BY <2>1, <3>1, <4>1
      <4>2. CASE t # u
        BY <2>1, <3>1, <4>2
      <4> QED
        BY <4>1, <4>2
    <3> QED
      BY <3>2
  <2> QED
    BY <2>2, <2>3 DEF SavesAtMost
<1>3. KeptTypes'
  BY <1>s DEF StoredInv, KeptTypes, SavesAtMost, Save
<1>4. OrderTypes' /\ OrderFields'
  BY <1>r DEF StoredInv, OrderTypes, OrderFields
<1>5. Rooted'
  BY <1>r, <1>t, NodeFields DEF StoredInv, Rooted
<1>6. RootsAsked' /\ \A t \in Stored' : t \in Asks /\ (t \in Stored \/ t \in listed)
  <2>1. \A t \in Stored' : t \in Asks /\ (t \in Stored \/ t \in listed)
    BY <1>2 DEF Stored
  <2> QED
    BY <1>r, <1>t, <2>1 DEF StoredInv, RootsAsked
<1>a. \A w \in Snapshots : \A i \in DOMAIN w : i \in Asks
  BY DEF Snapshots
<1>7. SnapshotsOK'
  <2>1. ASSUME NEW t \in Stored' PROVE SnapshotOK(kept[t], t)'
    <3>1. CASE kept'[t] = kept[t]
      <4>1. t \in Stored /\ kept[t] \in Snapshots
        BY <1>6, <3>1 DEF StoredInv, KeptTypes, Stored
      <4>2. SnapshotOK(kept[t], t)
        BY <4>1 DEF StoredInv, SnapshotsOK
      <4> QED
        BY <1>a, <1>r, <3>1, <4>1, <4>2 DEF SnapshotOK
    <3>2. CASE t \in listed /\ kept'[t] = SnapshotOf(talk', t)
      <4>1. /\ DOMAIN kept'[t] = NodesOf(t)
            /\ \A i \in NodesOf(t) : kept'[t][i] = talk'[i]
        BY <1>s, <3>2
      <4>2. ASSUME NEW i \in NodesOf(t)
            PROVE  talk'[i].state \in Held /\ talk'[i].tree = t /\ talk'[i].state # "unasked"
        BY <1>r DEF NodesOf, Held, Waits
      <4> QED
        BY <4>1, <4>2 DEF SnapshotOK
    <3> QED
      BY <1>2, <1>6, <3>1, <3>2
  <2>2. ASSUME NEW t \in DOMAIN order.taken PROVE SnapshotOK(order.taken[t], t)'
    <3>1. t \in Asks /\ order.taken[t] \in Snapshots /\ SnapshotOK(order.taken[t], t)
      BY DEF StoredInv, SnapshotsOK, OrderTypes
    <3> QED
      BY <1>a, <1>r, <3>1 DEF SnapshotOK
  <2> QED
    BY <1>r, <2>1, <2>2 DEF SnapshotsOK
<1>8. Listed'
  <2> SUFFICES ASSUME life # "crashed" PROVE Listed'
    BY <1>r DEF Listed
  <2>1. \A i \in Asks : talk'[i].state \in Held => talk'[i].tree \in listed'
    BY <1>r DEF StoredInv, Listed
  <2>2. ASSUME NEW t \in Asks \ order.trees
        PROVE  (t \in listed <=> kept'[t] # NoTree) /\ (t \in listed => DOMAIN kept'[t] = NodesOf(t))
    <3>1. (t \in listed <=> kept[t] # NoTree) /\ (t \in listed => DOMAIN kept[t] = NodesOf(t))
      BY DEF StoredInv, Listed
    <3> QED
      BY <1>2, <1>s, <3>1
  <2> QED
    BY <1>n, <1>r, <2>1, <2>2 DEF Listed
<1>9. TakenExact' /\ ClosedIdle' /\ AllCleared'
  BY <1>n, <1>r DEF StoredInv, TakenExact, ClosedIdle, AllCleared
<1> QED
  BY <1>3, <1>4, <1>5, <1>6, <1>7, <1>8, <1>9 DEF Structure

(* A runner that may write has a node in a tree that is listed.            *)
LEMMA WritersHold ==
  ASSUME StoredInv, NEW i \in Asks, Writes(i)
  PROVE  /\ talk[i].state \in Held /\ talk[i].tree \in listed
         /\ life \notin {"closing", "closed"}
BY DEF StoredInv, ClaimsHeld, Quiet, Writes, RootOf

(* Whoever could not write before still cannot, and the others hold on.    *)
LEMMA SameClaims ==
  ASSUME StoredInv, Rewrites, UNCHANGED <<activeAsk, refused>>
  PROVE  ClaimsHeld' /\ \A i \in Asks : Writes(i)' => Writes(i)
BY DEF StoredInv, ClaimsHeld, Writes, RootOf, Rewrites

LEMMA QuietVacuous ==
  ASSUME life' \notin {"closing", "closed"}
  PROVE  Quiet'
BY DEF Quiet

(* A step that writes: the shutdown has not begun.                         *)
LEMMA WriteStepKeeps ==
  ASSUME StoredInv, NEW i \in Asks, Writes(i), Rewrites, SavesAtMost, ConversationTypes', ScreenTypes',
         UNCHANGED <<activeAsk, refused>>
  PROVE  StoredInv'
<1>1. life' \notin {"closing", "closed"}
  BY WritersHold DEF Rewrites
<1> QED
  BY <1>1, RewriteKeeps, SameClaims, QuietVacuous DEF StoredInv, Structure

(* A step that moves tasks only.                                           *)
LEMMA TaskStepKeeps ==
  ASSUME StoredInv, ConversationTypes', ScreenTypes',
         UNCHANGED <<talk, activeAsk, refused, listed, kept, order, life>>
  PROVE  StoredInv'
<1>1. Rewrites /\ SavesAtMost
  BY DEF Rewrites, SavesAtMost, StoredInv, ConversationTypes
<1>2. Quiet'
  BY DEF StoredInv, Quiet, Writes, RootOf
<1> QED
  BY <1>1, <1>2, RewriteKeeps, SameClaims DEF StoredInv, Structure

LEMMA StartRunKeeps ==
  ASSUME StoredInv, NEW i \in Asks, StartRun(i)
  PROVE  StoredInv'
<1>1. ConversationTypes' /\ ScreenTypes'
  BY DEF StoredInv, ConversationTypes, ScreenTypes, StartRun, Moves1
<1> QED
  BY <1>1, TaskStepKeeps DEF StartRun

LEMMA StopRunKeeps ==
  ASSUME StoredInv, NEW i \in Asks, StopRun(i)
  PROVE  StoredInv'
<1>1. ConversationTypes'
  BY DEF StoredInv, ConversationTypes, StopRun, Moves1
<1>2. ScreenTypes'
  BY DEF StoredInv, ScreenTypes, StopRun
<1> QED
  BY <1>1, <1>2, TaskStepKeeps DEF StopRun

(* One node is written, its place in the tree is not.                      *)
LEMMA OneRewritten ==
  ASSUME StoredInv, NEW i \in Asks, NEW m \in Node, talk' = [talk EXCEPT ![i] = m],
         m.tree = talk[i].tree, m.above = talk[i].above,
         m.state \in Held <=> talk[i].state \in Held,
         m.state = "unasked" <=> talk[i].state = "unasked",
         UNCHANGED <<listed, order, life>>
  PROVE  Rewrites
<1>1. talk \in [Asks -> Node]
  BY DEF StoredInv, ConversationTypes
<1>2. talk'[i] = m /\ \A j \in Asks \ {i} : talk'[j] = talk[j]
  BY <1>1
<1>3. talk' \in [Asks -> Node]
  BY <1>1
<1>4. \A j \in Asks :
        /\ talk'[j].tree = talk[j].tree /\ talk'[j].above = talk[j].above
        /\ talk'[j].state \in Held <=> talk[j].state \in Held
        /\ talk'[j].state = "unasked" <=> talk[j].state = "unasked"
  BY <1>2
<1> QED
  BY <1>3, <1>4 DEF Rewrites

LEMMA RecordRunKeeps ==
  ASSUME StoredInv, NEW i \in Asks, RecordRun(i)
  PROVE  StoredInv'
<1>1. Writes(i)
  BY DEF RecordRun, Reports1
<1>2. talk[i] \in Node /\ talk \in [Asks -> Node]
  BY DEF StoredInv, ConversationTypes
<1>3. talk' = [talk EXCEPT ![i] = WithSession(talk[i])]
  BY DEF RecordRun, WithSession
<1>4. Rewrites
  <2>1. UNCHANGED <<listed, order, life>>
    BY DEF RecordRun
  <2>2. WithSession(talk[i]) \in Node /\ WithSession(talk[i]).state = talk[i].state
        /\ WithSession(talk[i]).tree = talk[i].tree /\ WithSession(talk[i]).above = talk[i].above
    BY <1>2, NodeUpdated
  <2> QED
    BY <1>3, <2>1, <2>2, OneRewritten
<1>5. SavesAtMost
  BY <1>1, WritersHold DEF RecordRun, SavesAtMost, RootOf
<1>6. ConversationTypes' /\ ScreenTypes'
  BY <1>4 DEF StoredInv, ConversationTypes, ScreenTypes, RecordRun, Rewrites
<1> QED
  BY <1>1, <1>4, <1>5, <1>6, WriteStepKeeps DEF RecordRun

LEMMA CompleteRunKeeps ==
  ASSUME StoredInv, NEW i \in Asks, CompleteRun(i)
  PROVE  StoredInv'
<1>1. Writes(i) /\ talk[i].state \in Held /\ "completed" \in Held
  BY WritersHold DEF CompleteRun, Reports1, Held
<1>2. talk[i] \in Node /\ talk \in [Asks -> Node]
  BY DEF StoredInv, ConversationTypes
<1>3. talk' = [talk EXCEPT ![i] = WithState(talk[i], "completed")]
  BY DEF CompleteRun, WithState
<1>4. Rewrites
  <2>1. "completed" # "unasked" /\ talk[i].state # "unasked"
    BY <1>1 DEF Held, Waits
  <2>2. UNCHANGED <<listed, order, life>>
    BY DEF CompleteRun
  <2>3. LET m == WithState(talk[i], "completed")
        IN  /\ m \in Node /\ m.state = "completed"
            /\ m.tree = talk[i].tree /\ m.above = talk[i].above
    BY <1>1, <1>2, NodeUpdated
  <2> QED
    BY <1>1, <1>3, <2>1, <2>2, <2>3, OneRewritten
<1>5. SavesAtMost
  BY <1>1, WritersHold DEF CompleteRun, SavesAtMost, RootOf
<1>6. ConversationTypes' /\ ScreenTypes'
  BY <1>4 DEF StoredInv, ConversationTypes, ScreenTypes, CompleteRun, Moves1, Rewrites
<1> QED
  BY <1>1, <1>4, <1>5, <1>6, WriteStepKeeps DEF CompleteRun

(* What fails was held and is.                                             *)
LEMMA FallenNodes ==
  ASSUME talk \in [Asks -> Node], NEW S
  PROVE  /\ Fallen(S) \in [Asks -> Node]
         /\ \A j \in Asks :
               /\ Fallen(S)[j].tree = talk[j].tree /\ Fallen(S)[j].above = talk[j].above
               /\ Fallen(S)[j].state \in Held <=> talk[j].state \in Held
               /\ Fallen(S)[j].state = "unasked" <=> talk[j].state = "unasked"
               /\ j \in S => Fallen(S)[j].state \notin Waits
               /\ j \notin S => Fallen(S)[j] = talk[j]
<1>1. \A j \in Asks : Fallen(S)[j] = IF j \in S /\ talk[j].state \in Waits
                                      THEN WithState(talk[j], "error") ELSE talk[j]
  BY DEF Fallen, WithState
<1>2. "error" \in Held /\ "error" \notin Waits /\ Waits \subseteq Held /\ "unasked" \notin Held
  BY DEF Held, Waits
<1>3. ASSUME NEW j \in Asks
      PROVE  /\ Fallen(S)[j] \in Node
             /\ Fallen(S)[j].tree = talk[j].tree /\ Fallen(S)[j].above = talk[j].above
             /\ Fallen(S)[j].state \in Held <=> talk[j].state \in Held
             /\ Fallen(S)[j].state = "unasked" <=> talk[j].state = "unasked"
             /\ j \in S => Fallen(S)[j].state \notin Waits
             /\ j \notin S => Fallen(S)[j] = talk[j]
  BY <1>1, <1>2, NodeUpdated
<1>4. Fallen(S) = [j \in Asks |-> Fallen(S)[j]]
  BY DEF Fallen
<1> QED
  BY <1>3, <1>4

LEMMA ErrorRunKeeps ==
  ASSUME StoredInv, NEW i \in Asks, ErrorRun(i)
  PROVE  StoredInv'
<1>1. Writes(i)
  BY DEF ErrorRun, Reports1
<1>2. talk \in [Asks -> Node]
  BY DEF StoredInv, ConversationTypes
<1>4. Rewrites
  BY <1>2, FallenNodes DEF Rewrites, ErrorRun
<1>5. SavesAtMost
  BY <1>1, WritersHold DEF ErrorRun, SavesAtMost, RootOf
<1>6. ConversationTypes' /\ ScreenTypes'
  BY <1>4 DEF StoredInv, ConversationTypes, ScreenTypes, ErrorRun, Rewrites
<1> QED
  BY <1>1, <1>4, <1>5, <1>6, WriteStepKeeps DEF ErrorRun

LEMMA FailRunKeeps ==
  ASSUME StoredInv, NEW i \in Asks, FailRun(i)
  PROVE  StoredInv'
<1>1. Writes(i)
  BY DEF FailRun, Reports1
<1>2. talk \in [Asks -> Node] /\ RootOf(i) \in Asks
  BY NodeFields DEF StoredInv, ConversationTypes, RootOf
<1>3. PICK S \in {{i}, Failing(i)} :
        /\ talk' = Fallen(S)
        /\ waiting' = [waiting EXCEPT ![RootOf(i)] = @ \ S]
        /\ screen' = [j \in Asks |-> IF j \in S THEN "closed" ELSE screen[j]]
  BY DEF FailRun
<1>4. Rewrites
  BY <1>2, <1>3, FallenNodes DEF Rewrites, FailRun
<1>5. SavesAtMost
  BY <1>1, WritersHold DEF FailRun, SavesAtMost, RootOf
<1>6. ConversationTypes'
  BY <1>2, <1>3, <1>4 DEF StoredInv, ConversationTypes, FailRun, Moves1, Rewrites
<1>7. ScreenTypes'
  BY <1>3 DEF StoredInv, ScreenTypes, FailRun
<1> QED
  BY <1>1, <1>4, <1>5, <1>6, <1>7, WriteStepKeeps DEF FailRun

LEMMA EndRunKeeps ==
  ASSUME StoredInv, NEW i \in Asks, EndRun(i)
  PROVE  StoredInv'
<1> DEFINE t == RootOf(i)
           ready == {j \in waiting[t] : talk[j].state = "pending"}
<1>1. talk \in [Asks -> Node] /\ t \in Asks /\ waiting[t] \subseteq Asks
  BY NodeFields DEF StoredInv, ConversationTypes, RootOf
<1>2. UNCHANGED <<refused, listed, kept, order, screen, life, orders, deaths>>
  BY DEF EndRun
<1>3. ScreenTypes' /\ SavesAtMost
  BY <1>2 DEF StoredInv, ScreenTypes, SavesAtMost
<1>4. CASE /\ ready = {}
           /\ activeAsk' = [activeAsk EXCEPT ![t] = 0] /\ waiting' = [waiting EXCEPT ![t] = {}]
           /\ taskOf' = [taskOf EXCEPT ![i] = "none"] /\ UNCHANGED talk
  <2>1. ConversationTypes'
    BY <1>1, <1>2, <1>4, StoredAssumption DEF StoredInv, ConversationTypes
  <2>2. Rewrites
    BY <1>1, <1>2, <1>4 DEF Rewrites
  <2>3. \A j \in Asks : Writes(j)' => Writes(j)
    <3>1. \A j \in Asks : j # 0
      BY DEF Asks
    <3> QED
      BY <1>1, <1>2, <1>4, <3>1 DEF Writes, RootOf, StoredInv, ConversationTypes
  <2>4. ClaimsHeld' /\ Quiet'
    BY <1>2, <1>4, <2>3 DEF StoredInv, ClaimsHeld, Quiet
  <2> QED
    BY <1>3, <2>1, <2>2, <2>4, RewriteKeeps DEF StoredInv, Structure
<1>5. ASSUME NEW j \in ready,
             activeAsk' = [activeAsk EXCEPT ![t] = j],
             waiting' = [waiting EXCEPT ![t] = {k \in @ : k > j}],
             talk' = [talk EXCEPT ![j].state = "in_progress"],
             taskOf' = [taskOf EXCEPT ![i] = "none", ![j] = IF t \in listed THEN "created" ELSE @]
      PROVE  StoredInv'
  <2>1. j \in Asks /\ talk[j] \in Node /\ talk[j].state = "pending"
    BY <1>1
  <2>2. talk' = [talk EXCEPT ![j] = WithState(talk[j], "in_progress")]
    BY <1>5 DEF WithState
  <2>3. Rewrites /\ talk'[j].state \in Held
    <3>1. /\ "in_progress" \in Held /\ "pending" \in Held
          /\ "in_progress" # "unasked" /\ "pending" # "unasked"
      BY DEF Held, Waits
    <3> QED
      BY <1>1, <1>2, <2>1, <2>2, <3>1, NodeUpdated DEF Rewrites
  <2>4. ConversationTypes'
    <3>1. activeAsk' \in [Asks -> 0 .. MaxAsks]
      BY <1>1, <1>5, <2>1 DEF StoredInv, ConversationTypes, Asks
    <3>2. waiting' \in [Asks -> SUBSET Asks]
      BY <1>1, <1>5, <2>1 DEF StoredInv, ConversationTypes
    <3>3. taskOf' \in [Asks -> {"none", "created", "running", "stopping", "ending", "unentered"}]
      BY <1>5, <2>1 DEF StoredInv, ConversationTypes
    <3> QED
      BY <1>2, <2>3, <3>1, <3>2, <3>3 DEF StoredInv, ConversationTypes, Rewrites
  <2>5. ClaimsHeld'
    <3>1. ASSUME NEW k \in Asks, Writes(k)' PROVE talk'[k].state \in Held
      <4>1. CASE k = j
        BY <2>3, <4>1
      <4>2. CASE k # j
        <5>1. Writes(k)
          BY <1>1, <1>2, <1>5, <2>3, <3>1, <4>2 DEF Writes, RootOf, Rewrites, StoredInv, ConversationTypes
        <5> QED
          BY <2>3, <5>1, WritersHold DEF Rewrites
      <4> QED
        BY <4>1, <4>2
    <3> QED
      BY <3>1 DEF ClaimsHeld
  <2>6. Quiet'
    BY <1>2, <2>1 DEF StoredInv, Quiet, Waits
  <2> QED
    BY <1>3, <2>3, <2>4, <2>5, <2>6, RewriteKeeps DEF StoredInv, Structure
<1> QED
  BY <1>4, <1>5 DEF EndRun
LEMMA NoTreeApart ==
  NoTree \notin Snapshots /\ \A w \in Snapshots : DOMAIN w \subseteq Asks /\ w \in [DOMAIN w -> Node]
BY StoredAssumption DEF Snapshots

(* A prompt nobody has sent: no tree, snapshot or node refers to it.       *)
LEMMA UnaskedApart ==
  ASSUME StoredInv, NEW i \in Asks, talk[i].state = "unasked"
  PROVE  /\ i \notin listed /\ i \notin Stored /\ talk[i].tree = i /\ talk[i].above = {}
         /\ \A j \in Asks : i \notin talk[j].above /\ (talk[j].tree = i => j = i)
         /\ \A t \in Stored : i \notin DOMAIN kept[t]
<1>1. i \notin listed /\ i \notin Stored
  BY DEF StoredInv, RootsAsked
<1>2. talk[i].tree = i /\ talk[i].above = {}
  BY DEF StoredInv, Rooted
<1>3. \A j \in Asks : i \notin talk[j].above
  BY DEF StoredInv, Rooted
<1>4. \A j \in Asks : talk[j].tree = i => j = i
  BY <1>3 DEF StoredInv, Rooted
<1>5. \A t \in Stored : i \notin DOMAIN kept[t]
  BY DEF StoredInv, SnapshotsOK, SnapshotOK
<1> QED
  BY <1>1, <1>2, <1>3, <1>4, <1>5

LEMMA AskKeeps ==
  ASSUME StoredInv, NEW i \in Asks, NEW p \in 0 .. MaxAsks, Ask(i, p)
  PROVE  StoredInv'
<1> DEFINE t == IF p = 0 THEN i ELSE RootOf(p)
           now == activeAsk[t] = 0
           m == [state |-> IF now THEN "in_progress" ELSE "pending", tree |-> t, session |-> FALSE,
                 above |-> IF p = 0 THEN {} ELSE talk[p].above \union {p}]
<1>0. talk \in [Asks -> Node] /\ listed \subseteq Asks
  BY DEF StoredInv, ConversationTypes
<1>1. /\ talk' = [talk EXCEPT ![i] = m]
      /\ activeAsk' = IF now THEN [activeAsk EXCEPT ![t] = i] ELSE activeAsk
      /\ waiting' = IF now THEN waiting ELSE [waiting EXCEPT ![t] = @ \union {i}]
      /\ taskOf' = IF now THEN [taskOf EXCEPT ![i] = "created"] ELSE taskOf
      /\ listed' = listed \union {t} /\ kept' = [kept EXCEPT ![t] = SnapshotOf(talk', t)]
      /\ screen' = [screen EXCEPT ![i] = "open"]
      /\ UNCHANGED <<refused, order, life, orders, deaths>>
  BY DEF Ask, Save
<1>2. /\ life = "up" /\ order.at = "idle" /\ talk[i].state = "unasked"
      /\ p = 0 \/ (p \in Asks /\ talk[p].state \in Held /\ talk[p].tree \in listed)
  BY DEF Ask, Free, Nodes, RootOf
<1>3. order = NoOrder /\ NoOrder.trees = {} /\ NoOrder.op = "none"
      /\ DOMAIN NoOrder.taken = {} /\ NoOrder.at = "idle"
  BY <1>2 DEF StoredInv, OrderTypes, NoOrder
<1>4. /\ i \notin listed /\ i \notin Stored /\ talk[i].tree = i /\ talk[i].above = {}
      /\ \A j \in Asks : i \notin talk[j].above /\ (talk[j].tree = i => j = i)
      /\ \A u \in Stored : i \notin DOMAIN kept[u]
  BY <1>2, UnaskedApart
<1>5. t \in Asks /\ (p # 0 => t \in listed /\ t = talk[p].tree /\ p \in Asks /\ p # i
                               /\ talk[p].state # "unasked")
      /\ (p = 0 => t = i)
  <2>1. "unasked" \notin Held
    BY DEF Held, Waits
  <2> QED
    BY <1>0, <1>2, <2>1 DEF RootOf
<1>6. /\ m \in Node /\ m.tree = t /\ m.state \in Held /\ m.state # "unasked"
      /\ m.above = IF p = 0 THEN {} ELSE talk[p].above \union {p}
  <2>1. p # 0 => talk[p].above \in SUBSET Asks
    BY <1>0, <1>5, NodeFields
  <2> QED
    BY <1>5, <2>1 DEF Node, Held, Waits
<1> HIDE DEF m, now
<1>7. /\ talk'[i] = m /\ \A j \in Asks \ {i} : talk'[j] = talk[j]
      /\ talk' \in [Asks -> Node]
  BY <1>0, <1>1, <1>6
<1>8. talk[t].tree = t /\ (t # i => talk[t].state # "unasked")
  BY <1>4, <1>5 DEF StoredInv, RootsAsked
<1> HIDE DEF t
<1>9. ConversationTypes'
  <2>1. activeAsk' \in [Asks -> 0 .. MaxAsks] /\ waiting' \in [Asks -> SUBSET Asks]
    BY <1>1, <1>5 DEF StoredInv, ConversationTypes, Asks
  <2>2. taskOf' \in [Asks -> {"none", "created", "running", "stopping", "ending", "unentered"}]
    BY <1>1 DEF StoredInv, ConversationTypes
  <2> QED
    BY <1>0, <1>1, <1>5, <1>7, <2>1, <2>2 DEF StoredInv, ConversationTypes
<1>10. /\ SnapshotOf(talk', t) \in Snapshots /\ SnapshotOf(talk', t) # NoTree
       /\ DOMAIN SnapshotOf(talk', t) = {j \in Asks : talk'[j].state \in Held /\ talk'[j].tree = t}
       /\ \A j \in DOMAIN SnapshotOf(talk', t) : SnapshotOf(talk', t)[j] = talk'[j]
  BY <1>7, SnapshotShape
<1>11. kept \in [Asks -> Snapshots \union {NoTree}]
  BY DEF StoredInv, KeptTypes
<1>12. kept'[t] = SnapshotOf(talk', t) /\ \A u \in Asks \ {t} : kept'[u] = kept[u]
  BY <1>1, <1>5, <1>11
<1>13. KeptTypes'
  BY <1>1, <1>10, <1>11 DEF KeptTypes
<1>14. OrderTypes' /\ OrderFields' /\ AllCleared' /\ ClosedIdle' /\ TakenExact' /\ Quiet'
  BY <1>1, <1>2, <1>3 DEF StoredInv, OrderTypes, OrderFields, AllCleared, ClosedIdle, TakenExact, Quiet
<1>15. ScreenTypes'
  BY <1>1 DEF StoredInv, ScreenTypes
<1>16. Rooted'
  <2>1. ASSUME NEW j \in Asks, j # i
        PROVE  /\ talk'[j].state = "unasked" => talk'[j].tree = j
               /\ talk'[j].tree = j => talk'[j].above = {}
               /\ talk'[j].tree # j => talk'[j].tree \in talk'[j].above
               /\ \A a \in talk'[j].above : talk'[a].tree = talk'[j].tree /\ talk'[a].state # "unasked"
    <3>1. talk[j].above \in SUBSET Asks
      BY <1>0, NodeFields
    <3> QED
      BY <1>4, <1>7, <2>1, <3>1 DEF StoredInv, Rooted
  <2>2. /\ talk'[i].tree # i => talk'[i].tree \in talk'[i].above
        /\ talk'[i].tree = i => talk'[i].above = {}
        /\ \A a \in talk'[i].above : talk'[a].tree = talk'[i].tree /\ talk'[a].state # "unasked"
    <3>1. CASE p = 0
      BY <1>5, <1>6, <1>7, <3>1
    <3>2. CASE p # 0
      <4>1. talk[p].above \in SUBSET Asks /\ i \notin talk[p].above
        BY <1>0, <1>4, <1>5, <3>2, NodeFields
      <4>2. /\ talk[p].tree # p => talk[p].tree \in talk[p].above
            /\ \A a \in talk[p].above : talk[a].tree = t /\ talk[a].state # "unasked"
        BY <1>5, <3>2 DEF StoredInv, Rooted
      <4>3. t # i
        BY <1>4, <1>5, <3>2
      <4> QED
        BY <1>5, <1>6, <1>7, <3>2, <4>1, <4>2, <4>3
    <3> QED
      BY <3>1, <3>2
  <2> QED
    BY <1>6, <1>7, <2>1, <2>2 DEF Rooted
<1>17. RootsAsked'
  <2>1. talk'[t].tree = t /\ talk'[t].state # "unasked"
    BY <1>5, <1>6, <1>7, <1>8
  <2>2. ASSUME NEW u \in listed \union Stored, u # t
        PROVE  talk'[u].tree = u /\ talk'[u].state # "unasked"
    <3>1. u \in Asks /\ u # i
      BY <1>0, <1>4 DEF Stored
    <3> QED
      BY <1>7, <3>1 DEF StoredInv, RootsAsked
  <2>3. Stored' \subseteq Stored \union {t}
    BY <1>12 DEF Stored
  <2> QED
    BY <1>1, <2>1, <2>2, <2>3 DEF RootsAsked
<1>18. SnapshotsOK'
  <2>1. ASSUME NEW u \in Stored' PROVE SnapshotOK(kept[u], u)'
    <3>1. CASE u = t
      <4>1. ASSUME NEW j \in DOMAIN kept'[t]
            PROVE  /\ kept'[t][j].state \in Held /\ kept'[t][j].tree = t /\ talk'[j].tree = t
                   /\ talk'[j].above = kept'[t][j].above /\ talk'[j].state # "unasked"
        <5>1. "unasked" \notin Held
          BY DEF Held, Waits
        <5> QED
          BY <1>10, <1>12, <4>1, <5>1
      <4> QED
        BY <3>1, <4>1 DEF SnapshotOK
    <3>2. CASE u # t
      <4>1. u \in Stored /\ kept'[u] = kept[u] /\ SnapshotOK(kept[u], u) /\ kept[u] \in Snapshots
        BY <1>11, <1>12, <3>2 DEF Stored, StoredInv, SnapshotsOK
      <4>2. \A j \in DOMAIN kept[u] : j \in Asks /\ talk'[j] = talk[j]
        BY <1>4, <1>7, <4>1, NoTreeApart
      <4> QED
        BY <4>1, <4>2 DEF SnapshotOK
    <3> QED
      BY <3>1, <3>2
  <2>2. DOMAIN order'.taken = {}
    BY <1>1, <1>3
  <2> QED
    BY <2>1, <2>2 DEF SnapshotsOK
<1>19. ClaimsHeld'
  <2>1. ASSUME NEW j \in Asks, Writes(j)' PROVE talk'[j].state \in Held
    <3>1. CASE j = i
      BY <1>6, <1>7, <3>1
    <3>2. CASE j # i
      <4>1. talk'[j] = talk[j] /\ talk[j].tree # i /\ talk[j].tree \in Asks
        BY <1>0, <1>4, <1>7, <3>2, NodeFields
      <4>2. activeAsk'[talk[j].tree] = j /\ j \notin refused /\ talk[j].tree \in listed \union {t}
        BY <1>1, <2>1, <4>1 DEF Writes, RootOf
      <4>3. activeAsk \in [Asks -> 0 .. MaxAsks]
        BY DEF StoredInv, ConversationTypes
      <4>4. activeAsk[talk[j].tree] = j
        BY <1>1, <1>5, <3>2, <4>1, <4>2, <4>3
      <4>5. talk[j].tree \in listed
        BY <1>5, <4>1, <4>2
      <4> QED
        BY <4>1, <4>2, <4>4, <4>5 DEF Writes, RootOf, StoredInv, ClaimsHeld
    <3> QED
      BY <3>1, <3>2
  <2> QED
    BY <2>1 DEF ClaimsHeld
<1>20. Listed'
  <2>1. \A j \in Asks : talk'[j].state \in Held => talk'[j].tree \in listed'
    BY <1>1, <1>2, <1>6, <1>7 DEF StoredInv, Listed
  <2>2. ASSUME NEW u \in Asks
        PROVE  (u \in listed' <=> kept'[u] # NoTree) /\ (u \in listed' => DOMAIN kept'[u] = NodesOf(u)')
    <3>1. CASE u = t
      BY <1>1, <1>10, <1>12, <3>1 DEF NodesOf
    <3>2. CASE u # t
      <4>1. (u \in listed <=> kept[u] # NoTree) /\ (u \in listed => DOMAIN kept[u] = NodesOf(u))
        BY <1>2, <1>3 DEF StoredInv, Listed
      <4>2. NodesOf(u)' = NodesOf(u)
        <5>1. i \notin NodesOf(u)
          BY <1>2 DEF NodesOf, Held, Waits
        <5>2. i \notin NodesOf(u)'
          BY <1>6, <1>7, <3>2 DEF NodesOf
        <5> QED
          BY <1>7, <5>1, <5>2 DEF NodesOf
      <4> QED
        BY <1>1, <1>12, <3>2, <4>1, <4>2
    <3> QED
      BY <3>1, <3>2
  <2> QED
    BY <2>1, <2>2 DEF Listed
<1> QED
  BY <1>9, <1>13, <1>14, <1>15, <1>16, <1>17, <1>18, <1>19, <1>20 DEF StoredInv
(***************************************************************************)
(* The commands.                                                           *)
(***************************************************************************)

(* A command stops S, nodes of its trees T, and drops the nodes left: what *)
(* it takes from the repository has no other node.                         *)
Commanded(op, S, T, left) ==
  /\ T \subseteq listed /\ left \subseteq S /\ S \subseteq Asks
  /\ \A j \in S : talk[j].state \in Held /\ talk[j].tree \in T
  /\ LET gone == IF op = "clear_all" THEN T ELSE left \intersect listed
     IN  gone \subseteq T /\ \A t \in gone : NodesOf(t) \subseteq left
  /\ op = "clear_all" => T = listed

LEMMA CancelKeeps ==
  ASSUME StoredInv, life = "up", order.at = "idle", NEW op, NEW S, NEW T, NEW left,
         CancelNodes(op, S, T, left), Commanded(op, S, T, left),
         life' \in {"up", "closing"}, orders' \in 0 .. MaxOrders, Quiet'
  PROVE  StoredInv'
<1> DEFINE claims == {i \in S : activeAsk[RootOf(i)] = i}
           tasks == {i \in claims : taskOf[i] # "none"}
           mark == {i \in S \ left : talk[i].state \in Waits /\ ~RunnerOwns(i)}
<1>0. /\ talk \in [Asks -> Node] /\ listed \subseteq Asks /\ refused \subseteq Asks
      /\ T \subseteq listed /\ left \subseteq S /\ S \subseteq Asks
      /\ \A j \in S : talk[j].state \in Held /\ talk[j].tree \in T
  BY DEF StoredInv, ConversationTypes, Commanded
<1>1. /\ refused' = refused \union claims
      /\ waiting' = [t \in Asks |-> waiting[t] \ S]
      /\ taskOf' = [i \in Asks |-> IF i \in claims THEN Struck1(taskOf[i]) ELSE taskOf[i]]
      /\ talk' = [i \in Asks |-> IF i \in left THEN WithState(talk[i], "gone") ELSE Fallen(S)[i]]
      /\ listed' = IF op = "clear_all" THEN listed \ T ELSE listed \ left
      /\ UNCHANGED <<activeAsk, kept, screen, deaths>>
  BY DEF CancelNodes, WithState
<1>2. /\ DOMAIN order' = {"at", "op", "trees", "tasks", "told", "dropped", "taken"}
      /\ order'.op = op /\ order'.trees = T
      /\ order'.at = IF tasks = {} THEN "returning" ELSE "draining"
      /\ order'.taken = IF tasks = {} THEN Taken(talk', T \intersect listed') ELSE NoOrder.taken
  <2>1. order' = [at |-> IF tasks = {} THEN "returning" ELSE "draining",
                  op |-> op, trees |-> T, tasks |-> tasks, dropped |-> left, told |-> mark,
                  taken |-> IF tasks = {} THEN Taken(talk', T \intersect listed')
                                          ELSE NoOrder.taken]
    BY DEF CancelNodes
  <2> HIDE DEF tasks, mark
  <2> QED
    BY <2>1
<1>3. order = NoOrder /\ NoOrder.trees = {} /\ DOMAIN NoOrder.taken = {}
  BY DEF StoredInv, OrderTypes, NoOrder
<1>4. \A j \in Asks :
        /\ talk'[j] \in Node /\ talk'[j].tree = talk[j].tree /\ talk'[j].above = talk[j].above
        /\ talk'[j].state \in Held <=> talk[j].state \in Held /\ j \notin left
        /\ talk'[j].state = "unasked" <=> talk[j].state = "unasked"
        /\ j \notin S => talk'[j] = talk[j]
  <2> SUFFICES ASSUME NEW j \in Asks
               PROVE  /\ talk'[j] \in Node
                      /\ talk'[j].tree = talk[j].tree /\ talk'[j].above = talk[j].above
                      /\ talk'[j].state \in Held <=> talk[j].state \in Held /\ j \notin left
                      /\ talk'[j].state = "unasked" <=> talk[j].state = "unasked"
                      /\ j \notin S => talk'[j] = talk[j]
    OBVIOUS
  <2>1. CASE j \in left
    <3>1. talk'[j] = WithState(talk[j], "gone") /\ talk[j].state \in Held /\ j \in S
      BY <1>0, <1>1, <2>1
    <3>2. "gone" \notin Held /\ "unasked" \notin Held /\ "gone" # "unasked"
      BY DEF Held, Waits
    <3> QED
      BY <1>0, <2>1, <3>1, <3>2, NodeUpdated
  <2>2. CASE j \notin left
    <3>1. talk'[j] = Fallen(S)[j]
      BY <1>1, <2>2
    <3> QED
      BY <1>0, <2>2, <3>1, FallenNodes
  <2> QED
    BY <2>1, <2>2
<1>5. talk' \in [Asks -> Node]
  <2>1. talk' = [j \in Asks |-> talk'[j]]
    BY <1>1
  <2> QED
    BY <1>4, <2>1
<1>6. /\ listed' \subseteq listed
      /\ \A t \in listed \ listed' : t \in T /\ NodesOf(t) \subseteq left
      /\ op = "clear_all" => listed' = {}
  BY <1>0, <1>1 DEF Commanded
<1>7. \A t \in Asks : DOMAIN SnapshotOf(talk', t) = NodesOf(t)' /\ SnapshotOf(talk', t) \in Snapshots
                      /\ \A j \in NodesOf(t)' : SnapshotOf(talk', t)[j] = talk'[j]
  <2> TAKE t \in Asks
  <2> DEFINE Q == {j \in Asks : talk'[j].state \in Held /\ talk'[j].tree = t}
  <2>1. Q = NodesOf(t)'
    BY DEF NodesOf
  <2>2. /\ SnapshotOf(talk', t) \in Snapshots /\ DOMAIN SnapshotOf(talk', t) = Q
        /\ \A j \in DOMAIN SnapshotOf(talk', t) : SnapshotOf(talk', t)[j] = talk'[j]
    BY <1>5, SnapshotShape
  <2> HIDE DEF Q
  <2> QED
    BY <2>1, <2>2
<1>8. ConversationTypes'
  <2>1. waiting' \in [Asks -> SUBSET Asks]
    BY <1>1 DEF StoredInv, ConversationTypes
  <2>2. taskOf' \in [Asks -> {"none", "created", "running", "stopping", "ending", "unentered"}]
    BY <1>1 DEF StoredInv, ConversationTypes, Struck1
  <2>3. refused' \subseteq Asks /\ listed' \subseteq Asks
    BY <1>0, <1>1, <1>6
  <2> QED
    BY <1>1, <1>5, <2>1, <2>2, <2>3 DEF StoredInv, ConversationTypes
<1>9. KeptTypes' /\ ScreenTypes'
  BY <1>1 DEF StoredInv, KeptTypes, ScreenTypes
<1> HIDE DEF tasks, claims, mark
<1>10. \/ DOMAIN order'.taken = {}
       \/ /\ DOMAIN order'.taken = T \intersect listed'
          /\ \A t \in T \intersect listed' : order'.taken[t] = SnapshotOf(talk', t)
  <2>1. CASE tasks = {}
    BY <1>2, <2>1 DEF Taken
  <2>2. CASE tasks # {}
    BY <1>2, <1>3, <2>2
  <2> QED
    BY <2>1, <2>2
<1>11. OrderTypes' /\ OrderFields' /\ AllCleared'
  <2>1. \A t \in DOMAIN order'.taken : t \in Asks /\ order'.taken[t] \in Snapshots
    BY <1>0, <1>7, <1>10
  <2>2. order'.at \in {"draining", "returning"}
    BY <1>2
  <2>3. order'.trees \subseteq Asks /\ (order'.op = "clear_all" => listed' = {})
    BY <1>0, <1>2, <1>6
  <2>4. OrderFields'
    BY <1>2 DEF OrderFields
  <2> QED
    BY <2>1, <2>2, <2>3, <2>4 DEF OrderTypes, AllCleared
<1>12. TakenExact' /\ ClosedIdle'
  <2>1. order'.at = "returning" => tasks = {}
    BY <1>2
  <2>2. tasks = {} => order'.taken = Taken(talk', T \intersect listed')
    BY <1>2
  <2> QED
    BY <1>0, <1>2, <1>7, <2>1, <2>2 DEF TakenExact, ClosedIdle, Taken
<1>13. Rooted'
  <2>1. \A j \in Asks : talk[j].above \in SUBSET Asks
    BY <1>0, NodeFields
  <2> QED
    BY <1>4, <2>1 DEF StoredInv, Rooted
<1>14. RootsAsked'
  <2>1. Stored' = Stored /\ Stored \subseteq Asks
    BY <1>1 DEF Stored
  <2> QED
    BY <1>0, <1>4, <1>6, <2>1 DEF StoredInv, RootsAsked
<1>15. SnapshotsOK'
  <2>1. ASSUME NEW t \in Stored' PROVE SnapshotOK(kept[t], t)'
    <3>1. t \in Stored /\ kept'[t] = kept[t] /\ kept[t] \in Snapshots /\ SnapshotOK(kept[t], t)
      BY <1>1 DEF StoredInv, SnapshotsOK, Stored, KeptTypes
    <3>2. DOMAIN kept[t] \subseteq Asks
      BY <3>1, NoTreeApart
    <3> QED
      BY <1>4, <3>1, <3>2 DEF SnapshotOK
  <2>2. ASSUME NEW t \in DOMAIN order'.taken PROVE SnapshotOK(order.taken[t], t)'
    <3>1. t \in Asks /\ order'.taken[t] = SnapshotOf(talk', t)
      BY <1>0, <1>10
    <3>2. \A j \in NodesOf(t)' :
             talk'[j].state \in Held /\ talk'[j].tree = t /\ talk'[j].state # "unasked"
      BY DEF NodesOf, Held, Waits
    <3>3. DOMAIN order'.taken[t] = NodesOf(t)' /\ \A j \in NodesOf(t)' : order'.taken[t][j] = talk'[j]
      BY <1>7, <3>1
    <3> QED
      BY <3>2, <3>3 DEF SnapshotOK
  <2> QED
    BY <2>1, <2>2 DEF SnapshotsOK
<1>16. ClaimsHeld'
  <2>1. ASSUME NEW j \in Asks, Writes(j)' PROVE talk'[j].state \in Held
    <3>1. /\ activeAsk[talk[j].tree] = j /\ j \notin refused /\ talk[j].tree \in listed
          /\ j \notin claims
      BY <1>1, <1>4, <1>6, <2>1 DEF Writes, RootOf
    <3>2. talk[j].state \in Held
      BY <3>1 DEF Writes, RootOf, StoredInv, ClaimsHeld
    <3>3. j \notin left
      BY <1>0, <3>1 DEF claims, RootOf
    <3> QED
      BY <1>4, <3>2, <3>3
  <2> QED
    BY <2>1 DEF ClaimsHeld
<1>17. Listed'
  <2>1. ASSUME NEW j \in Asks, talk'[j].state \in Held PROVE talk'[j].tree \in listed'
    <3>1. talk[j].state \in Held /\ j \notin left /\ talk[j].tree \in listed
      BY <1>4, <2>1 DEF StoredInv, Listed
    <3>2. j \in NodesOf(talk[j].tree)
      BY <3>1 DEF NodesOf
    <3> QED
      BY <1>4, <1>6, <3>1, <3>2
  <2>2. ASSUME NEW t \in Asks \ T
        PROVE  (t \in listed' <=> kept'[t] # NoTree) /\ (t \in listed' => DOMAIN kept'[t] = NodesOf(t)')
    <3>1. (t \in listed <=> kept[t] # NoTree) /\ (t \in listed => DOMAIN kept[t] = NodesOf(t))
      BY <1>3 DEF StoredInv, Listed
    <3>2. NodesOf(t)' = NodesOf(t)
      BY <1>0, <1>4 DEF NodesOf
    <3>3. t \in listed' <=> t \in listed
      BY <1>6
    <3> QED
      BY <1>1, <3>1, <3>2, <3>3
  <2> QED
    BY <1>2, <2>1, <2>2 DEF Listed
<1> QED
  BY <1>8, <1>9, <1>11, <1>12, <1>13, <1>14, <1>15, <1>16, <1>17 DEF StoredInv

LEMMA StopOneKeeps ==
  ASSUME StoredInv, NEW i \in Asks, StopOne(i)
  PROVE  StoredInv'
<1>1. /\ life = "up" /\ order.at = "idle" /\ life' = life /\ orders < MaxOrders /\ orders' = orders + 1
      /\ talk[i].state \in Held /\ talk[i].tree \in listed
      /\ CancelNodes("stop", {i}, {talk[i].tree}, {})
  BY DEF StopOne, Command, Free, InTrees, Nodes, RootOf
<1>2. Commanded("stop", {i}, {talk[i].tree}, {})
  BY <1>1 DEF Commanded
<1>3. orders' \in 0 .. MaxOrders
  BY <1>1, StoredAssumption DEF StoredInv, ScreenTypes
<1> QED
  BY <1>1, <1>2, <1>3, CancelKeeps, QuietVacuous

LEMMA ClearOneKeeps ==
  ASSUME StoredInv, NEW i \in Asks, ClearOne(i)
  PROVE  StoredInv'
<1> DEFINE S == {i} \union Below(i)
           T == {talk[i].tree}
<1>1. /\ life = "up" /\ order.at = "idle" /\ life' = life /\ orders < MaxOrders /\ orders' = orders + 1
      /\ talk[i].state \in Held /\ talk[i].tree \in listed
      /\ CancelNodes("clear", S, T, S)
  BY DEF ClearOne, Command, Free, InTrees, Nodes, RootOf
<1>2. orders' \in 0 .. MaxOrders
  BY <1>1, StoredAssumption DEF StoredInv, ScreenTypes
<1>3. \A j \in S : j \in Asks /\ talk[j].state \in Held /\ talk[j].tree = talk[i].tree
  BY <1>1 DEF Below, Nodes, StoredInv, Rooted
<1>4. \A t \in S \intersect listed : t = talk[i].tree /\ NodesOf(t) \subseteq S
  <2> TAKE t \in S \intersect listed
  <2>1. talk[t].tree = t /\ talk[t].state # "unasked"
    BY DEF StoredInv, RootsAsked
  <2>2. t = talk[i].tree
    BY <1>3, <2>1
  <2>3. t \in Asks /\ talk[t].above = {}
    BY <2>1 DEF StoredInv, Rooted, ConversationTypes
  <2>4. t = i
    BY <2>3 DEF Below
  <2>5. \A j \in NodesOf(t) : j = i \/ i \in talk[j].above
    BY <2>4 DEF NodesOf, StoredInv, Rooted
  <2> QED
    BY <2>2, <2>5 DEF NodesOf, Below, Nodes
<1>5. Commanded("clear", S, T, S)
  BY <1>1, <1>3, <1>4 DEF Commanded
<1> QED
  BY <1>1, <1>2, <1>5, CancelKeeps, QuietVacuous

(* A command on every tree stops every node: nothing waits, nobody writes. *)
LEMMA EverythingHeld ==
  ASSUME StoredInv, life = "up"
  PROVE  /\ InTrees(listed) = {j \in Asks : talk[j].state \in Held}
         /\ \A j \in InTrees(listed) : j \in Asks /\ talk[j].state \in Held /\ talk[j].tree \in listed
BY DEF StoredInv, Listed, InTrees, Nodes, RootOf

LEMMA StopEveryKeeps ==
  ASSUME StoredInv, StopEvery
  PROVE  StoredInv'
<1>1. /\ life = "up" /\ order.at = "idle" /\ life' = life /\ orders < MaxOrders /\ orders' = orders + 1
      /\ CancelNodes("stop", InTrees(listed), listed, {})
  BY DEF StopEvery, Command, Free
<1>2. Commanded("stop", InTrees(listed), listed, {})
  BY <1>1, EverythingHeld DEF Commanded
<1>3. orders' \in 0 .. MaxOrders
  BY <1>1, StoredAssumption DEF StoredInv, ScreenTypes
<1> QED
  BY <1>1, <1>2, <1>3, CancelKeeps, QuietVacuous

LEMMA ClearEveryKeeps ==
  ASSUME StoredInv, ClearEvery
  PROVE  StoredInv'
<1> DEFINE S == InTrees(listed)
<1>1. /\ life = "up" /\ order.at = "idle" /\ life' = life /\ orders < MaxOrders /\ orders' = orders + 1
      /\ CancelNodes("clear_all", S, listed, S)
  BY DEF ClearEvery, Command, Free
<1>2. Commanded("clear_all", S, listed, S)
  <2>1. /\ S = {j \in Asks : talk[j].state \in Held}
        /\ \A j \in S : j \in Asks /\ talk[j].state \in Held /\ talk[j].tree \in listed
    BY <1>1, EverythingHeld
  <2>2. \A t \in listed : NodesOf(t) \subseteq S
    BY <2>1 DEF NodesOf
  <2> HIDE DEF S
  <2> QED
    BY <2>1, <2>2 DEF Commanded
<1>3. orders' \in 0 .. MaxOrders
  BY <1>1, StoredAssumption DEF StoredInv, ScreenTypes
<1> QED
  BY <1>1, <1>2, <1>3, CancelKeeps, QuietVacuous

LEMMA CloseConversationsKeeps ==
  ASSUME StoredInv, CloseConversations
  PROVE  StoredInv'
<1> DEFINE S == InTrees(listed)
           claims == {i \in S : activeAsk[RootOf(i)] = i}
           tasks == {i \in claims : taskOf[i] # "none"}
<1>1. /\ life = "up" /\ order.at = "idle" /\ life' = "closing" /\ orders' = orders
      /\ CancelNodes("stop", S, listed, {})
  BY DEF CloseConversations, Free
<1>2. /\ S = {j \in Asks : talk[j].state \in Held}
      /\ \A j \in S : j \in Asks /\ talk[j].state \in Held /\ talk[j].tree \in listed
  BY <1>1, EverythingHeld
<1>3. /\ refused' = refused \union claims /\ listed' = listed \ {} /\ activeAsk' = activeAsk
      /\ talk' = [i \in Asks |-> IF i \in {} THEN [talk[i] EXCEPT !.state = "gone"] ELSE Fallen(S)[i]]
      /\ order'.trees = listed /\ order'.at = IF tasks = {} THEN "returning" ELSE "draining"
      /\ order'.taken = IF tasks = {} THEN Taken(talk', listed \intersect listed') ELSE NoOrder.taken
  BY <1>1 DEF CancelNodes
<1>4. talk \in [Asks -> Node]
  BY DEF StoredInv, ConversationTypes
<1> HIDE DEF S
<1>5. ASSUME NEW j \in Asks
      PROVE  talk'[j].state \notin Waits /\ ~Writes(j)'
  <2>1. talk'[j] = Fallen(S)[j]
    BY <1>3
  <2>2. CASE j \in S
    <3>1. talk'[j].state \notin Waits /\ talk'[j].tree = talk[j].tree
      BY <1>4, <2>1, <2>2, FallenNodes
    <3>2. activeAsk[talk[j].tree] = j => j \in refused'
      BY <1>3, <2>2 DEF RootOf
    <3> QED
      BY <1>3, <3>1, <3>2 DEF Writes, RootOf
  <2>3. CASE j \notin S
    <3>1. talk'[j] = talk[j] /\ talk[j].state \notin Held
      BY <1>2, <1>4, <2>1, <2>3, FallenNodes
    <3>2. Waits \subseteq Held
      BY DEF Held
    <3>3. ~Writes(j)
      BY <3>1 DEF StoredInv, ClaimsHeld
    <3> QED
      BY <1>3, <3>1, <3>2, <3>3 DEF Writes, RootOf
  <2> QED
    BY <2>2, <2>3
<1>6. order'.at = "returning" => \A t \in DOMAIN order'.taken : order'.taken[t] = SnapshotOf(talk', t)
  <2>1. order'.at = "returning" => tasks = {}
    BY <1>3
  <2> QED
    BY <1>3, <2>1 DEF Taken
<1>7. order'.at # "idle" /\ listed' = listed
  BY <1>3
<1>8. Quiet'
  BY <1>3, <1>5, <1>6, <1>7 DEF Quiet
<1>9. Commanded("stop", S, listed, {})
  BY <1>2 DEF Commanded
<1>10. orders' \in 0 .. MaxOrders
  BY <1>1 DEF StoredInv, ScreenTypes
<1> QED
  BY <1>1, <1>8, <1>9, <1>10, CancelKeeps

LEMMA TakeSnapshotsKeeps ==
  ASSUME StoredInv, TakeSnapshots, life' = life, orders' = orders, deaths' = deaths
  PROVE  StoredInv'
<1> DEFINE taken == Taken(talk, order.trees \intersect listed)
<1>1. /\ order.at = "draining" /\ order' = [order EXCEPT !.at = "returning", !.taken = taken]
      /\ UNCHANGED <<talk, waiting, activeAsk, taskOf, refused, listed, kept, screen>>
  BY DEF TakeSnapshots, live
<1>2. DOMAIN order = {"at", "op", "trees", "tasks", "told", "dropped", "taken"}
  BY DEF StoredInv, OrderFields
<1>3. /\ DOMAIN order' = DOMAIN order /\ order'.at = "returning" /\ order'.taken = taken
      /\ order'.trees = order.trees /\ order'.op = order.op
  <2> HIDE DEF taken
  <2> QED
    BY <1>1, <1>2
<1>4. talk \in [Asks -> Node] /\ listed \subseteq Asks /\ order.trees \subseteq Asks
  BY DEF StoredInv, ConversationTypes, OrderTypes
<1>5. /\ DOMAIN taken = order.trees \intersect listed
      /\ \A t \in DOMAIN taken : taken[t] = SnapshotOf(talk, t)
  BY DEF Taken
<1>6. \A t \in DOMAIN taken :
        /\ t \in Asks /\ taken[t] \in Snapshots /\ DOMAIN taken[t] = NodesOf(t)
        /\ \A j \in NodesOf(t) : taken[t][j] = talk[j]
  <2> TAKE t \in DOMAIN taken
  <2> DEFINE Q == {j \in Asks : talk[j].state \in Held /\ talk[j].tree = t}
  <2>1. Q = NodesOf(t)
    BY DEF NodesOf
  <2>2. /\ SnapshotOf(talk, t) \in Snapshots /\ DOMAIN SnapshotOf(talk, t) = Q
        /\ \A j \in DOMAIN SnapshotOf(talk, t) : SnapshotOf(talk, t)[j] = talk[j]
    BY <1>4, SnapshotShape
  <2> HIDE DEF Q, taken
  <2> QED
    BY <1>4, <1>5, <2>1, <2>2
<1> HIDE DEF taken
<1>7. /\ ConversationTypes' /\ KeptTypes' /\ ScreenTypes' /\ Rooted' /\ RootsAsked' /\ ClaimsHeld'
  BY <1>1 DEF StoredInv, ConversationTypes, KeptTypes, ScreenTypes, Rooted, RootsAsked, Stored,
              ClaimsHeld, Writes, RootOf
<1>8. OrderTypes' /\ OrderFields' /\ AllCleared'
  BY <1>1, <1>2, <1>3, <1>4, <1>6 DEF StoredInv, OrderTypes, OrderFields, AllCleared
<1>9. SnapshotsOK'
  <2>1. \A t \in Stored' : SnapshotOK(kept[t], t)'
    BY <1>1 DEF StoredInv, SnapshotsOK, SnapshotOK, Stored
  <2>2. ASSUME NEW t \in DOMAIN taken PROVE SnapshotOK(taken[t], t)
    <3>1. \A j \in NodesOf(t) :
             talk[j].state \in Held /\ talk[j].tree = t /\ talk[j].state # "unasked"
      BY DEF NodesOf, Held, Waits
    <3> QED
      BY <1>6, <3>1 DEF SnapshotOK
  <2>3. \A t \in DOMAIN order'.taken : SnapshotOK(order.taken[t], t)'
    BY <1>1, <1>3, <2>2 DEF SnapshotOK
  <2> QED
    BY <2>1, <2>3 DEF SnapshotsOK
<1>10. Listed'
  BY <1>1, <1>3 DEF StoredInv, Listed, NodesOf
<1>11. TakenExact'
  <2>1. \A t : NodesOf(t)' = NodesOf(t)
    BY <1>1 DEF NodesOf
  <2>2. DOMAIN order'.taken = order'.trees \intersect listed'
    BY <1>1, <1>3, <1>5
  <2>3. \A t \in DOMAIN order'.taken : DOMAIN order'.taken[t] = NodesOf(t)
    BY <1>3, <1>6
  <2> QED
    BY <2>1, <2>2, <2>3 DEF TakenExact
<1>12. Quiet'
  <2>1. \A j \in Asks : Writes(j)' <=> Writes(j)
    BY <1>1 DEF Writes, RootOf
  <2> QED
    BY <1>1, <1>3, <1>5, <2>1 DEF StoredInv, Quiet
<1>13. ClosedIdle'
  BY <1>1 DEF StoredInv, ClosedIdle
<1> QED
  BY <1>7, <1>8, <1>9, <1>10, <1>11, <1>12, <1>13 DEF StoredInv

LEMMA ReturnCommandKeeps ==
  ASSUME StoredInv, ReturnCommand, life \in {"up", "closing"},
         life' = life, orders' = orders, deaths' = deaths
  PROVE  StoredInv'
<1>1. /\ order.at = "returning" /\ kept' = Settled(kept) /\ order' = NoOrder
      /\ UNCHANGED <<talk, waiting, activeAsk, taskOf, refused, listed>>
      /\ screen' = [i \in Asks |-> CASE i \in order.dropped -> "deleted"
                                     [] i \in order.told -> "closed"
                                     [] OTHER -> screen[i]]
  BY DEF ReturnCommand, live
<1>2. /\ DOMAIN order.taken = order.trees \intersect listed
      /\ \A t \in DOMAIN order.taken : /\ DOMAIN order.taken[t] = NodesOf(t)
                                      /\ order.taken[t] \in Snapshots /\ SnapshotOK(order.taken[t], t)
      /\ order.op = "clear_all" => listed = {}
  BY <1>1 DEF StoredInv, TakenExact, OrderTypes, SnapshotsOK, AllCleared
<1>3. \A t \in Asks :
        \/ t \in DOMAIN order.taken /\ kept'[t] = order.taken[t]
        \/ t \notin DOMAIN order.taken /\ (t \in order.trees \/ order.op = "clear_all")
           /\ kept'[t] = NoTree
        \/ t \notin order.trees /\ order.op # "clear_all" /\ kept'[t] = kept[t]
  BY <1>1, <1>2 DEF Settled
<1>4. /\ NoOrder.trees = {} /\ NoOrder.op = "none" /\ DOMAIN NoOrder.taken = {} /\ NoOrder.at = "idle"
      /\ DOMAIN NoOrder = {"at", "op", "trees", "tasks", "told", "dropped", "taken"}
  BY DEF NoOrder
<1>5. kept \in [Asks -> Snapshots \union {NoTree}]
  BY DEF StoredInv, KeptTypes
<1>6. KeptTypes'
  <2>1. \A t \in Asks : kept'[t] \in Snapshots \union {NoTree}
    BY <1>2, <1>3, <1>5
  <2>2. kept' = [t \in Asks |-> kept'[t]]
    BY <1>1 DEF Settled
  <2> QED
    BY <2>1, <2>2 DEF KeptTypes
<1>7. ConversationTypes' /\ Rooted' /\ ClaimsHeld'
  BY <1>1 DEF StoredInv, ConversationTypes, Rooted, ClaimsHeld, Writes, RootOf
<1>8. ScreenTypes'
  BY <1>1 DEF StoredInv, ScreenTypes
<1>9. OrderTypes' /\ OrderFields' /\ AllCleared' /\ TakenExact' /\ ClosedIdle'
  BY <1>1, <1>4 DEF OrderTypes, OrderFields, AllCleared, TakenExact, ClosedIdle
<1>10. Stored' \subseteq Stored \union listed
  BY <1>2, <1>3 DEF Stored
<1>11. RootsAsked'
  BY <1>1, <1>10 DEF StoredInv, RootsAsked
<1>12. SnapshotsOK'
  <2>1. ASSUME NEW t \in Stored' PROVE SnapshotOK(kept[t], t)'
    <3>1. t \in Asks /\ kept'[t] # NoTree
      BY DEF Stored
    <3>2. \/ kept'[t] = order.taken[t] /\ SnapshotOK(order.taken[t], t)
          \/ kept'[t] = kept[t] /\ SnapshotOK(kept[t], t)
      BY <1>2, <1>3, <3>1 DEF StoredInv, SnapshotsOK, Stored
    <3> QED
      BY <1>1, <3>2 DEF SnapshotOK
  <2> QED
    BY <1>1, <1>4, <2>1 DEF SnapshotsOK
<1>13. Listed'
  <2>1. \A j \in Asks : talk[j].state \in Held => talk[j].tree \in listed
    BY DEF StoredInv, Listed
  <2>2. ASSUME NEW t \in Asks
        PROVE  (t \in listed <=> kept'[t] # NoTree) /\ (t \in listed => DOMAIN kept'[t] = NodesOf(t))
    <3>1. t \notin order.trees =>
             (t \in listed <=> kept[t] # NoTree) /\ (t \in listed => DOMAIN kept[t] = NodesOf(t))
      BY DEF StoredInv, Listed
    <3> QED
      BY <1>2, <1>3, <3>1, NoTreeApart
  <2>3. NodesOf(0)' = NodesOf(0) /\ \A t \in Asks : NodesOf(t)' = NodesOf(t)
    BY <1>1 DEF NodesOf
  <2> QED
    BY <1>1, <2>1, <2>2, <2>3 DEF Listed
<1>14. Quiet'
  <2> SUFFICES ASSUME life \in {"closing", "closed"} PROVE Quiet'
    BY DEF Quiet
  <2>1. /\ \A i \in Asks : talk[i].state \notin Waits /\ ~Writes(i)
        /\ order.trees = listed /\ \A t \in DOMAIN order.taken : order.taken[t] = SnapshotOf(talk, t)
    BY <1>1 DEF StoredInv, Quiet
  <2>2. \A i \in Asks : ~Writes(i)'
    BY <1>1, <2>1 DEF Writes, RootOf
  <2>3. \A t \in listed : kept'[t] = SnapshotOf(talk, t)
    BY <1>2, <1>3, <2>1 DEF StoredInv, ConversationTypes
  <2> QED
    BY <1>1, <1>4, <2>1, <2>2, <2>3 DEF Quiet
<1> QED
  BY <1>6, <1>7, <1>8, <1>9, <1>11, <1>12, <1>13, <1>14 DEF StoredInv

LEMMA Closed1Keeps ==
  ASSUME StoredInv, Closed1
  PROVE  StoredInv'
<1>2. /\ life = "closing" /\ order.at = "idle" /\ life' = "closed"
      /\ UNCHANGED <<talk, waiting, activeAsk, taskOf, refused, listed, kept, order, screen, orders, deaths>>
  BY DEF Closed1, live
<1>3. ConversationTypes' /\ KeptTypes' /\ OrderTypes' /\ OrderFields' /\ ScreenTypes' /\ AllCleared'
  BY <1>2 DEF StoredInv, ConversationTypes, KeptTypes, OrderTypes, OrderFields, ScreenTypes, AllCleared
<1>4. Rooted' /\ RootsAsked' /\ SnapshotsOK' /\ ClaimsHeld' /\ ClosedIdle' /\ TakenExact'
  BY <1>2 DEF StoredInv, Rooted, RootsAsked, SnapshotsOK, SnapshotOK, Stored, ClaimsHeld, Writes,
              RootOf, ClosedIdle, TakenExact
<1>5. Listed'
  BY <1>2 DEF StoredInv, Listed, NodesOf
<1>6. Quiet'
  <2>1. \A i \in Asks : Writes(i)' <=> Writes(i)
    BY <1>2 DEF Writes, RootOf
  <2> QED
    BY <1>2, <2>1 DEF StoredInv, Quiet
<1> QED
  BY <1>3, <1>4, <1>5, <1>6 DEF StoredInv

LEMMA Crash1Keeps ==
  ASSUME StoredInv, Crash1
  PROVE  StoredInv'
<1>1. /\ life' = "crashed" /\ deaths < MaxDeaths /\ deaths' = deaths + 1
      /\ UNCHANGED <<talk, waiting, activeAsk, taskOf, refused, listed, kept, order, orders>>
      /\ screen' = [i \in Asks |->
            IF screen[i] = "open" /\ KeptState(i) \notin Waits THEN "cut" ELSE screen[i]]
  BY DEF Crash1, live
<1>2. ConversationTypes' /\ KeptTypes' /\ OrderTypes' /\ OrderFields' /\ AllCleared'
  BY <1>1 DEF StoredInv, ConversationTypes, KeptTypes, OrderTypes, OrderFields, AllCleared
<1>3. ScreenTypes'
  <2>1. screen' \in [Asks -> {"none", "open", "closed", "deleted", "interrupted", "cut"}]
    BY <1>1 DEF StoredInv, ScreenTypes
  <2>2. deaths' \in 0 .. MaxDeaths
    BY <1>1, StoredAssumption DEF StoredInv, ScreenTypes
  <2> QED
    BY <1>1, <2>1, <2>2 DEF StoredInv, ScreenTypes
<1>4. Rooted' /\ RootsAsked' /\ SnapshotsOK' /\ ClaimsHeld'
  BY <1>1 DEF StoredInv, Rooted, RootsAsked, SnapshotsOK, SnapshotOK, Stored, ClaimsHeld, Writes, RootOf
<1>5. ClosedIdle' /\ TakenExact' /\ Listed' /\ Quiet'
  BY <1>1 DEF ClosedIdle, TakenExact, Listed, Quiet
<1> QED
  BY <1>2, <1>3, <1>4, <1>5 DEF StoredInv

(* What the store has of a prompt: it is in the snapshot of its tree.      *)
LEMMA SavedNodes ==
  ASSUME StoredInv
  PROVE  /\ DOMAIN Saved1 \subseteq Asks
         /\ \A i \in Asks : i \in DOMAIN Saved1 <=>
               talk[i].tree \in Stored /\ i \in DOMAIN kept[talk[i].tree]
         /\ \A i \in DOMAIN Saved1 :
               /\ talk[i].tree \in Stored /\ i \in DOMAIN kept[talk[i].tree]
               /\ Saved1[i] = kept[talk[i].tree][i]
               /\ Saved1[i] \in Node /\ Saved1[i].state \in Held /\ Saved1[i].tree = talk[i].tree
               /\ Saved1[i].above = talk[i].above /\ talk[i].state # "unasked"
<1>1. \A t \in Stored : /\ t \in Asks /\ kept[t] \in Snapshots /\ DOMAIN kept[t] \subseteq Asks
                        /\ kept[t] \in [DOMAIN kept[t] -> Node] /\ SnapshotOK(kept[t], t)
  BY NoTreeApart DEF StoredInv, KeptTypes, Stored, SnapshotsOK
<1>2. \A t \in Stored : \A i \in DOMAIN kept[t] :
        /\ talk[i].tree = t /\ kept[t][i] \in Node
        /\ kept[t][i].state \in Held /\ kept[t][i].tree = t
        /\ talk[i].above = kept[t][i].above /\ talk[i].state # "unasked"
  <2> TAKE t \in Stored
  <2>1. SnapshotOK(kept[t], t) /\ kept[t] \in [DOMAIN kept[t] -> Node]
    BY <1>1
  <2> QED
    BY <2>1 DEF SnapshotOK
<1>3. /\ DOMAIN Saved1 = UNION {DOMAIN kept[t] : t \in Stored}
      /\ \A i \in DOMAIN Saved1 : Saved1[i] = kept[CHOOSE t \in Stored : i \in DOMAIN kept[t]][i]
  BY DEF Saved1
<1>4. \A i \in DOMAIN Saved1 : talk[i].tree \in Stored /\ i \in DOMAIN kept[talk[i].tree]
  BY <1>2, <1>3
<1>5. \A i \in DOMAIN Saved1 : Saved1[i] = kept[talk[i].tree][i]
  <2> TAKE i \in DOMAIN Saved1
  <2>1. (CHOOSE t \in Stored : i \in DOMAIN kept[t]) = talk[i].tree
    BY <1>2, <1>4
  <2> QED
    BY <1>3, <2>1
<1>6. \A i \in DOMAIN Saved1 :
        /\ Saved1[i] \in Node /\ Saved1[i].state \in Held /\ Saved1[i].tree = talk[i].tree
        /\ Saved1[i].above = talk[i].above /\ talk[i].state # "unasked"
  BY <1>2, <1>4, <1>5
<1>7. DOMAIN Saved1 \subseteq Asks
  BY <1>1, <1>3
<1>8. \A i \in Asks : talk[i].tree \in Stored /\ i \in DOMAIN kept[talk[i].tree] => i \in DOMAIN Saved1
  BY <1>3
<1> QED
  BY <1>4, <1>5, <1>6, <1>7, <1>8

LEMMA NormalizedNode ==
  /\ \A n \in Node : n.state \in Held =>
       /\ Normalized(n) \in Node /\ Normalized(n).tree = n.tree /\ Normalized(n).above = n.above
       /\ Normalized(n).state \in Held /\ Normalized(n).state # "unasked"
  /\ \A n : n.state \notin Waits => Normalized(n) = n
<1>1. \A n : Normalized(n) = IF n.state \in Waits THEN WithState(n, "error") ELSE n
  BY DEF Normalized, WithState
<1>2. "error" \in Held /\ "unasked" \notin Held
  BY DEF Held, Waits
<1>3. ASSUME NEW n \in Node, n.state \in Held
      PROVE  /\ Normalized(n) \in Node
             /\ Normalized(n).tree = n.tree /\ Normalized(n).above = n.above
             /\ Normalized(n).state \in Held /\ Normalized(n).state # "unasked"
  BY <1>1, <1>2, <1>3, NodeUpdated
<1> QED
  BY <1>1, <1>3

LEMMA RestartKeeps ==
  ASSUME StoredInv, Restart
  PROVE  StoredInv'
<1>1. /\ life' = "up" /\ listed' = Stored /\ refused' = {} /\ order' = NoOrder
      /\ talk' = [i \in Asks |->
            IF i \in DOMAIN Saved1 THEN Normalized(Saved1[i])
            ELSE IF talk[i].state = "unasked" THEN talk[i]
            ELSE WithState(talk[i], "gone")]
      /\ kept' = [t \in Asks |-> IF kept[t] = NoTree THEN NoTree
                                 ELSE [i \in DOMAIN kept[t] |-> Normalized(kept[t][i])]]
      /\ waiting' = [t \in Asks |-> {}] /\ activeAsk' = [t \in Asks |-> 0]
      /\ taskOf' = [i \in Asks |-> "none"]
      /\ screen' = [i \in Asks |->
            IF i \in DOMAIN Saved1 /\ Saved1[i].state \in Waits THEN "interrupted" ELSE screen[i]]
      /\ UNCHANGED <<orders, deaths>>
  BY DEF Restart, WithState
<1>2. /\ NoOrder.trees = {} /\ NoOrder.op = "none" /\ DOMAIN NoOrder.taken = {} /\ NoOrder.at = "idle"
      /\ DOMAIN NoOrder = {"at", "op", "trees", "tasks", "told", "dropped", "taken"}
  BY DEF NoOrder
<1>3. talk \in [Asks -> Node] /\ kept \in [Asks -> Snapshots \union {NoTree}] /\ Stored \subseteq Asks
  BY DEF StoredInv, ConversationTypes, KeptTypes, Stored
<1>4. \A i \in Asks :
        /\ talk'[i] \in Node /\ talk'[i].tree = talk[i].tree /\ talk'[i].above = talk[i].above
        /\ talk'[i].state \in Held <=> i \in DOMAIN Saved1
        /\ talk'[i].state = "unasked" <=> talk[i].state = "unasked"
  <2> TAKE i \in Asks
  <2>1. CASE i \in DOMAIN Saved1
    <3>1. talk'[i] = Normalized(Saved1[i])
      BY <1>1, <2>1
    <3>2. /\ Saved1[i] \in Node /\ Saved1[i].state \in Held /\ Saved1[i].tree = talk[i].tree
          /\ Saved1[i].above = talk[i].above /\ talk[i].state # "unasked"
      BY <2>1, SavedNodes
    <3> QED
      BY <2>1, <3>1, <3>2, NormalizedNode
  <2>2. CASE i \notin DOMAIN Saved1 /\ talk[i].state = "unasked"
    <3>1. talk'[i] = talk[i] /\ "unasked" \notin Held
      BY <1>1, <2>2 DEF Held, Waits
    <3> QED
      BY <1>3, <2>2, <3>1
  <2>3. CASE i \notin DOMAIN Saved1 /\ talk[i].state # "unasked"
    <3>1. talk'[i] = WithState(talk[i], "gone") /\ "gone" \notin Held /\ "gone" # "unasked"
      BY <1>1, <2>3 DEF Held, Waits
    <3> QED
      BY <1>3, <2>3, <3>1, NodeUpdated
  <2> QED
    BY <2>1, <2>2, <2>3
<1>5. talk' \in [Asks -> Node]
  <2>1. talk' = [i \in Asks |-> talk'[i]]
    BY <1>1
  <2> QED
    BY <1>4, <2>1
<1>6. ConversationTypes'
  BY <1>1, <1>3, <1>5, StoredAssumption DEF ConversationTypes
<1>7. \A t \in Stored :
        /\ kept[t] \in [DOMAIN kept[t] -> Node] /\ DOMAIN kept[t] \subseteq Asks
        /\ kept'[t] = [i \in DOMAIN kept[t] |-> Normalized(kept[t][i])]
        /\ \A i \in DOMAIN kept[t] :
             /\ kept[t][i] \in Node /\ kept[t][i].state \in Held /\ kept[t][i].tree = t
             /\ talk[i].tree = t /\ talk[i].above = kept[t][i].above /\ talk[i].state # "unasked"
  <2> TAKE t \in Stored
  <2>1. kept[t] \in Snapshots /\ kept[t] # NoTree /\ t \in Asks
    BY <1>3 DEF Stored
  <2>2. kept[t] \in [DOMAIN kept[t] -> Node] /\ DOMAIN kept[t] \subseteq Asks
    BY <2>1, NoTreeApart
  <2>3. SnapshotOK(kept[t], t)
    BY DEF StoredInv, SnapshotsOK
  <2>4. kept'[t] = [i \in DOMAIN kept[t] |-> Normalized(kept[t][i])]
    BY <1>1, <2>1
  <2> QED
    BY <2>2, <2>3, <2>4 DEF SnapshotOK
<1>8. \A t \in Stored :
        /\ DOMAIN kept'[t] = DOMAIN kept[t] /\ kept'[t] \in [DOMAIN kept[t] -> Node]
        /\ \A i \in DOMAIN kept[t] :
             kept'[t][i].state \in Held /\ kept'[t][i].tree = t /\ kept'[t][i].above = talk[i].above
  <2> TAKE t \in Stored
  <2>1. /\ kept'[t] = [i \in DOMAIN kept[t] |-> Normalized(kept[t][i])]
        /\ \A i \in DOMAIN kept[t] :
             kept[t][i] \in Node /\ kept[t][i].state \in Held /\ kept[t][i].tree = t
             /\ talk[i].above = kept[t][i].above
    BY <1>7
  <2>2. \A i \in DOMAIN kept[t] :
          /\ Normalized(kept[t][i]) \in Node /\ Normalized(kept[t][i]).state \in Held
          /\ Normalized(kept[t][i]).tree = t /\ Normalized(kept[t][i]).above = talk[i].above
    BY <2>1, NormalizedNode
  <2> QED
    BY <2>1, <2>2
<1>9. \A t \in Stored : kept'[t] \in Snapshots
  <2> TAKE t \in Stored
  <2>1. DOMAIN kept[t] \in SUBSET Asks
    BY <1>7
  <2>2. kept'[t] \in [DOMAIN kept[t] -> Node]
    BY <1>8
  <2> QED
    BY <2>1, <2>2 DEF Snapshots
<1>10. \A t \in Asks \ Stored : kept'[t] = NoTree
  BY <1>1 DEF Stored
<1>11. KeptTypes' /\ Stored' = Stored
  <2>1. kept' = [t \in Asks |-> kept'[t]]
    BY <1>1
  <2>2. \A t \in Asks : kept'[t] \in Snapshots \union {NoTree}
    BY <1>9, <1>10
  <2>3. \A t \in Asks : kept'[t] # NoTree <=> t \in Stored
    BY <1>9, <1>10, NoTreeApart
  <2> QED
    BY <1>3, <2>1, <2>2, <2>3 DEF KeptTypes, Stored
<1>12. OrderTypes' /\ OrderFields' /\ AllCleared' /\ TakenExact' /\ ClosedIdle' /\ Quiet'
  BY <1>1, <1>2 DEF OrderTypes, OrderFields, AllCleared, TakenExact, ClosedIdle, Quiet
<1>13. ScreenTypes'
  <2>1. screen' \in [Asks -> {"none", "open", "closed", "deleted", "interrupted", "cut"}]
    BY <1>1 DEF StoredInv, ScreenTypes
  <2> QED
    BY <1>1, <2>1 DEF StoredInv, ScreenTypes
<1>14. Rooted'
  <2>1. \A i \in Asks : talk[i].above \in SUBSET Asks
    BY <1>3, NodeFields
  <2> QED
    BY <1>4, <2>1 DEF StoredInv, Rooted
<1>15. RootsAsked'
  BY <1>1, <1>3, <1>4, <1>11 DEF StoredInv, RootsAsked
<1>16. SnapshotsOK'
  <2>1. ASSUME NEW t \in Stored PROVE SnapshotOK(kept[t], t)'
    <3>1. DOMAIN kept'[t] = DOMAIN kept[t]
      BY <1>8
    <3>2. ASSUME NEW i \in DOMAIN kept[t]
          PROVE  /\ kept'[t][i].state \in Held /\ kept'[t][i].tree = t
                 /\ talk'[i].tree = t /\ talk'[i].above = kept'[t][i].above
                 /\ talk'[i].state # "unasked"
      <4>1. i \in Asks /\ talk[i].tree = t /\ talk[i].state # "unasked"
        BY <1>7
      <4>2. kept'[t][i].state \in Held /\ kept'[t][i].tree = t /\ kept'[t][i].above = talk[i].above
        BY <1>8
      <4> QED
        BY <1>4, <4>1, <4>2
    <3> QED
      BY <3>1, <3>2 DEF SnapshotOK
  <2> QED
    BY <1>1, <1>2, <1>11, <2>1 DEF SnapshotsOK
<1>17. ClaimsHeld'
  <2>1. \A i \in Asks : ~Writes(i)'
    <3>1. \A i \in Asks : i # 0 /\ talk'[i].tree \in Asks
      BY <1>5, NodeFields DEF Asks
    <3> QED
      BY <1>1, <3>1 DEF Writes, RootOf
  <2> QED
    BY <2>1 DEF ClaimsHeld
<1>18. Listed'
  <2>1. \A i \in Asks : talk'[i].state \in Held => talk'[i].tree \in Stored
    BY <1>4, SavedNodes
  <2>2. \A t \in Stored : NodesOf(t)' = DOMAIN kept[t]
    <3> TAKE t \in Stored
    <3>1. \A i \in Asks : talk'[i].state \in Held /\ talk'[i].tree = t => i \in DOMAIN kept[t]
      BY <1>4, SavedNodes
    <3>2. \A i \in DOMAIN kept[t] : i \in Asks /\ talk'[i].state \in Held /\ talk'[i].tree = t
      <4> TAKE i \in DOMAIN kept[t]
      <4>1. i \in Asks /\ talk[i].tree = t
        BY <1>7
      <4>2. i \in DOMAIN Saved1
        BY <4>1, SavedNodes
      <4> QED
        BY <1>4, <4>1, <4>2
    <3> QED
      BY <3>1, <3>2 DEF NodesOf
  <2>3. \A t \in Asks : t \in Stored <=> kept'[t] # NoTree
    BY <1>9, <1>10, NoTreeApart
  <2> QED
    BY <1>1, <1>8, <2>1, <2>2, <2>3 DEF Listed
<1> QED
  BY <1>6, <1>11, <1>12, <1>13, <1>14, <1>15, <1>16, <1>17, <1>18 DEF StoredInv

LEMMA StoredInitInv ==
  ASSUME StoredInit
  PROVE  StoredInv
<1>1. /\ talk = [i \in Asks |-> Blank(i)]
      /\ waiting = [t \in Asks |-> {}] /\ activeAsk = [t \in Asks |-> 0]
      /\ taskOf = [i \in Asks |-> "none"] /\ refused = {} /\ listed = {}
      /\ kept = [t \in Asks |-> NoTree] /\ order = NoOrder
      /\ screen = [i \in Asks |-> "none"] /\ life = "up" /\ orders = 0 /\ deaths = 0
  BY DEF StoredInit
<1>2. \A i \in Asks : /\ Blank(i) \in Node /\ Blank(i).state = "unasked" /\ Blank(i).tree = i
                      /\ Blank(i).above = {}
  BY DEF Blank, Node
<1>3. "unasked" \notin Held
  BY DEF Held, Waits
<1>4. /\ NoOrder.trees = {} /\ NoOrder.op = "none" /\ DOMAIN NoOrder.taken = {} /\ NoOrder.at = "idle"
      /\ DOMAIN NoOrder = {"at", "op", "trees", "tasks", "told", "dropped", "taken"}
  BY DEF NoOrder
<1>5. ConversationTypes /\ KeptTypes /\ ScreenTypes
  BY <1>1, <1>2, StoredAssumption DEF ConversationTypes, KeptTypes, ScreenTypes
<1>6. OrderTypes /\ OrderFields /\ AllCleared /\ TakenExact /\ ClosedIdle /\ Quiet
  BY <1>1, <1>4 DEF OrderTypes, OrderFields, AllCleared, TakenExact, ClosedIdle, Quiet
<1>7. Stored = {}
  BY <1>1 DEF Stored
<1>8. Rooted /\ RootsAsked /\ SnapshotsOK
  BY <1>1, <1>2, <1>4, <1>7 DEF Rooted, RootsAsked, SnapshotsOK
<1>9. ClaimsHeld /\ Listed
  BY <1>1, <1>2, <1>3 DEF ClaimsHeld, Listed, Writes
<1> QED
  BY <1>5, <1>6, <1>8, <1>9 DEF StoredInv

LEMMA StoredNextKeeps ==
  ASSUME StoredInv, [StoredNext]_storedVars
  PROVE  StoredInv'
<1>1. CASE UNCHANGED storedVars
  <2>1. UNCHANGED <<talk, waiting, activeAsk, taskOf, refused, listed, kept, order, screen, life,
                    orders, deaths>>
    BY <1>1 DEF storedVars, live
  <2>2. ConversationTypes' /\ ScreenTypes'
    BY <2>1 DEF StoredInv, ConversationTypes, ScreenTypes
  <2> QED
    BY <2>1, <2>2, TaskStepKeeps
<1>2. CASE StoredProgress
  <2>1. CASE Alive /\ TakeSnapshots
    BY <2>1, TakeSnapshotsKeeps DEF Alive
  <2>2. CASE Alive /\ ReturnCommand
    BY <2>2, ReturnCommandKeeps DEF Alive
  <2>3. CASE \E i \in Asks : StartRun(i) \/ CompleteRun(i) \/ FailRun(i) \/ StopRun(i) \/ EndRun(i)
    BY <2>3, StartRunKeeps, CompleteRunKeeps, FailRunKeeps, StopRunKeeps, EndRunKeeps
  <2> QED
    BY <1>2, <2>1, <2>2, <2>3, Closed1Keeps, RestartKeeps DEF StoredProgress
<1>3. CASE \E i \in Asks : \E p \in 0 .. MaxAsks : Ask(i, p)
  BY <1>3, AskKeeps
<1>4. CASE \E i \in Asks : RecordRun(i) \/ ErrorRun(i)
  BY <1>4, RecordRunKeeps, ErrorRunKeeps
<1>5. CASE \E i \in Asks : StopOne(i) \/ ClearOne(i)
  BY <1>5, StopOneKeeps, ClearOneKeeps
<1> QED
  BY <1>1, <1>2, <1>3, <1>4, <1>5, StopEveryKeeps, ClearEveryKeeps, CloseConversationsKeeps,
     Crash1Keeps DEF StoredNext

LEMMA InvTypes ==
  ASSUME StoredInv
  PROVE  StoredTypeOK
<1>1. \A t \in Asks : kept[t] # NoTree => kept[t] \in [DOMAIN kept[t] -> Node]
  BY NoTreeApart DEF StoredInv, KeptTypes
<1> QED
  BY <1>1 DEF StoredInv, ConversationTypes, OrderTypes, ScreenTypes, StoredTypeOK

LEMMA InvMatches ==
  ASSUME StoredInv
  PROVE  StoreMatchesTrees
<1> SUFFICES ASSUME life \in {"up", "closing"}, order.at = "idle"
             PROVE  listed = Stored /\ \A t \in listed : DOMAIN kept[t] = DOMAIN SnapshotOf(talk, t)
  BY DEF StoreMatchesTrees
<1>1. order.trees = {} /\ listed \subseteq Asks /\ talk \in [Asks -> Node]
  BY DEF StoredInv, OrderTypes, NoOrder, ConversationTypes
<1>2. \A t \in Asks : (t \in listed <=> kept[t] # NoTree) /\ (t \in listed => DOMAIN kept[t] = NodesOf(t))
  BY <1>1 DEF StoredInv, Listed
<1>3. \A t : DOMAIN SnapshotOf(talk, t) = NodesOf(t)
  BY <1>1 DEF SnapshotOf, Nodes, NodesOf
<1> QED
  BY <1>1, <1>2, <1>3 DEF Stored

LEMMA RestartExact ==
  ASSUME StoredInv, [StoredNext]_storedVars
  PROVE  CleanRestartExact
<1> SUFFICES ASSUME life = "closed", life' = "up" PROVE talk' = talk
  BY DEF CleanRestartExact
<1>1. Restart
  BY DEF StoredNext, StoredProgress, Alive, Ask, Free, StopOne, ClearOne, Command, StopEvery,
         ClearEvery, CloseConversations, Closed1, Crash1, storedVars
<1>2. talk \in [Asks -> Node] /\ listed \subseteq Asks
  BY DEF StoredInv, ConversationTypes
<1>3. order.at = "idle" /\ order.trees = {}
  BY DEF StoredInv, ClosedIdle, OrderTypes, NoOrder
<1>4. /\ \A t \in Asks : t \in listed <=> t \in Stored
      /\ \A t \in listed : kept[t] = SnapshotOf(talk, t)
      /\ \A i \in Asks : talk[i].state \notin Waits
      /\ \A i \in Asks : talk[i].state \in Held => talk[i].tree \in listed
  BY <1>3 DEF StoredInv, Listed, Quiet, Stored
<1>5. \A t : /\ DOMAIN SnapshotOf(talk, t) = NodesOf(t)
             /\ \A i \in NodesOf(t) : SnapshotOf(talk, t)[i] = talk[i]
  BY <1>2 DEF SnapshotOf, Nodes, NodesOf
<1>6. talk' = [i \in Asks |->
          IF i \in DOMAIN Saved1 THEN Normalized(Saved1[i])
          ELSE IF talk[i].state = "unasked" THEN talk[i]
          ELSE WithState(talk[i], "gone")]
  BY <1>1 DEF Restart, WithState
<1>7. ASSUME NEW i \in Asks PROVE talk'[i] = talk[i]
  <2>1. CASE talk[i].state \in Held
    <3>1. talk[i].tree \in Stored /\ i \in NodesOf(talk[i].tree) /\ talk[i].tree \in listed
      <4>1. talk[i].tree \in listed
        BY <1>4, <2>1
      <4>2. talk[i].tree \in Stored
        BY <1>2, <1>4, <4>1
      <4> QED
        BY <2>1, <4>1, <4>2 DEF NodesOf
    <3>2. i \in DOMAIN kept[talk[i].tree] /\ kept[talk[i].tree][i] = talk[i]
      BY <1>4, <1>5, <3>1
    <3>3. i \in DOMAIN Saved1 /\ Saved1[i] = talk[i]
      BY <3>1, <3>2, SavedNodes
    <3>4. Normalized(talk[i]) = talk[i]
      <4>1. talk[i].state \notin Waits
        BY <1>4
      <4> QED
        BY <4>1, NormalizedNode
    <3> QED
      BY <1>6, <3>3, <3>4
  <2>2. CASE talk[i].state \notin Held
    <3>1. i \notin DOMAIN Saved1
      <4> SUFFICES ASSUME i \in DOMAIN Saved1 PROVE FALSE
        OBVIOUS
      <4>1. talk[i].tree \in Stored /\ i \in DOMAIN kept[talk[i].tree]
        BY SavedNodes
      <4>2. talk[i].tree \in listed
        BY <1>4, <4>1 DEF Stored
      <4> QED
        BY <1>4, <1>5, <2>2, <4>1, <4>2 DEF NodesOf
    <3>2. talk[i].state \in {"unasked", "gone"} /\ talk[i] \in Node
      BY <1>2, <2>2, NodeFields
    <3>3. talk[i].state = "gone" => WithState(talk[i], "gone") = talk[i]
      BY <3>2 DEF Node, WithState
    <3> QED
      BY <1>6, <3>1, <3>2, <3>3
  <2> QED
    BY <2>1, <2>2
<1>8. talk' = [i \in Asks |-> talk'[i]]
  BY <1>6
<1> QED
  BY <1>2, <1>7, <1>8

(* While no command is on its way the store holds the trees and nodes of   *)
(* the repository, and the process after a completed shutdown starts with  *)
(* all of them as they were, for any number of asks, orders, crashes and   *)
(* saves.                                                                  *)
THEOREM StoredRight ==
  StoredSpec => []StoredTypeOK /\ StoredSafe
<1>1. StoredInit => StoredInv
  BY StoredInitInv
<1>2. StoredInv /\ [StoredNext]_storedVars => StoredInv'
  BY StoredNextKeeps
<1>3. StoredInv => StoredTypeOK /\ StoreMatchesTrees
  BY InvTypes, InvMatches
<1>4. StoredInv /\ [StoredNext]_storedVars => [CleanRestartExact]_storedVars
  BY RestartExact
<1> QED
  BY <1>1, <1>2, <1>3, <1>4, PTL DEF StoredSpec, StoredSafe

------------------------------------------------------------------------------
(* ManagedMessages: who will record or delete each message.                 *)
TurnPlaces == {"idle", "received", "sent", "recorded", "rejected", "done"}
DirectivePlaces == {"idle", "received", "deleting", "answering", "answered", "done"}

Turns ==
  [at : TurnPlaces, prompt : Deliveries, answers : TurnMessages \union {NoReply},
   parent : MessageIds \union {NoReply}, clears : Nat, stops : Nat, ids : SUBSET MessageIds]

DirectiveStates ==
  [at : DirectivePlaces, op : {"none", "clear", "clear_reply", "stop", "stop_reply", "stats"},
   ids : SUBSET MessageIds]

MessageTypes ==
  /\ posted \subseteq MessageIds /\ logged \subseteq MessageIds
  /\ replies \subseteq MessageIds \X (MessageIds \union {NoReply})
  /\ unreached \subseteq MessageIds /\ refusals \in 0 .. MaxRefusals

TurnTypes == turn \in [Deliveries -> Turns]
CommandTypes == directive \in [Directives -> DirectiveStates]
NoticeTypes ==
  notice \in [at : {"idle", "sending", "sent", "discarding", "done"}, clears : Nat,
              cancelled : BOOLEAN]

(* Every clear and every stop was the work of a command of its own.        *)
HandledDirectives == {c \in Directives : directive[c].at \notin {"idle", "received"}}

OrdersCounted ==
  clearGen \in Nat /\ stopGen \in Nat /\ clearGen + stopGen <= Cardinality(HandledDirectives)

(* Only a command that deletes has messages in hand.                       *)
HandsEmpty == \A c \in Directives : directive[c].at # "deleting" => directive[c].ids = {}

(* Who is about to record or delete message m: a command is recorded when  *)
(* it arrives, unless it is a standalone clear.                            *)
InTurn(m) ==
  \E i \in Deliveries : \/ turn[i].at = "sent" /\ m = StatusId(i)
                        \/ turn[i].at = "rejected" /\ m \in turn[i].ids

InDirective(m) ==
  \E c \in Directives :
    \/ m \in directive[c].ids
    \/ directive[c].at = "received" /\ directive[c].op = "clear" /\ m = CommandId(c)
    \/ directive[c].at = "answered" /\ m = FeedbackId(c)

InNotice(m) == notice.at \in {"sent", "discarding"} /\ m = NoticeId

Accounted(m) ==
  m \in logged \/ m \in Treed \/ m \in unreached \/ InTurn(m) \/ InDirective(m) \/ InNotice(m)

AllAccounted == \A m \in posted : Accounted(m)

(* What is in a tree was admitted by a turn that is done.                  *)
TreesAdmitted ==
  /\ Treed \subseteq TurnMessages
  /\ \A i \in Deliveries : StatusId(i) \in Treed => turn[i].at = "done"
  /\ \A p \in Deliveries : PromptId(p) \in Treed =>
        \E k \in Deliveries : turn[k].at = "done" /\ turn[k].prompt = p

RejectedHold ==
  \A i \in Deliveries : turn[i].at = "rejected" =>
    \/ turn[i].ids = {StatusId(i)}
    \/ turn[i].parent # NoReply /\ turn[i].ids = {StatusId(i), PromptId(turn[i].prompt)}

ManagedInv ==
  /\ MessageTypes /\ TurnTypes /\ CommandTypes /\ NoticeTypes /\ OrdersCounted /\ HandsEmpty /\ AllAccounted
  /\ TreesAdmitted /\ RejectedHold

LEMMA MessageKinds ==
  /\ \A i \in Deliveries : PromptId(i) \in TurnMessages /\ StatusId(i) \in TurnMessages
  /\ TurnMessages \subseteq MessageIds /\ NoticeId \in MessageIds /\ NoticeId \notin TurnMessages
  /\ \A c \in Directives : /\ CommandId(c) \in MessageIds /\ FeedbackId(c) \in MessageIds
                           /\ CommandId(c) \notin TurnMessages /\ FeedbackId(c) \notin TurnMessages
  /\ \A i, j \in Deliveries : /\ StatusId(i) # PromptId(j)
                              /\ StatusId(i) = StatusId(j) => i = j
                              /\ PromptId(i) = PromptId(j) => i = j
  /\ \A m \in TurnMessages : \E i \in Deliveries : m = PromptId(i) \/ m = StatusId(i)
BY DEF PromptId, StatusId, CommandId, FeedbackId, NoticeId, TurnMessages, MessageIds

WithTurn(n, at) == [n EXCEPT !.at = at]

LEMMA TurnUpdated ==
  \A n \in Turns : \A at \in TurnPlaces :
    /\ WithTurn(n, at) \in Turns /\ WithTurn(n, at).at = at
    /\ WithTurn(n, at).prompt = n.prompt /\ WithTurn(n, at).parent = n.parent
    /\ WithTurn(n, at).ids = n.ids
BY DEF Turns, WithTurn

LEMMA TurnFields ==
  \A n \in Turns : /\ n.at \in TurnPlaces /\ n.prompt \in Deliveries /\ n.ids \subseteq MessageIds
                   /\ n.answers \in TurnMessages \union {NoReply}
                   /\ n.parent \in MessageIds \union {NoReply}
BY DEF Turns

LEMMA TreedTyped ==
  ASSUME MessageTypes
  PROVE  Treed \subseteq MessageIds
BY DEF MessageTypes, Treed

(* One turn moves.                                                         *)
LEMMA TurnMoves ==
  ASSUME TurnTypes, NEW i \in Deliveries, NEW n \in Turns, turn' = [turn EXCEPT ![i] = n]
  PROVE  /\ TurnTypes' /\ turn'[i] = n /\ \A j \in Deliveries \ {i} : turn'[j] = turn[j]
         /\ \A m : InTurn(m) => \/ InTurn(m)'
                                \/ turn[i].at = "sent" /\ m = StatusId(i)
                                \/ turn[i].at = "rejected" /\ m \in turn[i].ids
         /\ n.at = "sent" => InTurn(StatusId(i))'
         /\ n.at = "rejected" => \A m \in n.ids : InTurn(m)'
<1>1. TurnTypes' /\ turn'[i] = n /\ \A j \in Deliveries \ {i} : turn'[j] = turn[j]
  BY DEF TurnTypes
<1>2. ASSUME NEW m, InTurn(m)
      PROVE  \/ InTurn(m)'
             \/ turn[i].at = "sent" /\ m = StatusId(i)
             \/ turn[i].at = "rejected" /\ m \in turn[i].ids
  <2>1. PICK j \in Deliveries : \/ turn[j].at = "sent" /\ m = StatusId(j)
                                \/ turn[j].at = "rejected" /\ m \in turn[j].ids
    BY <1>2 DEF InTurn
  <2> QED
    BY <1>1, <2>1 DEF InTurn
<1>3. (n.at = "sent" => InTurn(StatusId(i))') /\ (n.at = "rejected" => \A m \in n.ids : InTurn(m)')
  BY <1>1 DEF InTurn
<1> QED
  BY <1>1, <1>2, <1>3

(* One directive moves.                                                    *)
LEMMA DirectiveMoves ==
  ASSUME CommandTypes, NEW c \in Directives, NEW at \in DirectivePlaces, NEW ids \in SUBSET MessageIds,
         NEW op \in {"none", "clear", "clear_reply", "stop", "stop_reply", "stats"},
         directive' = [directive EXCEPT ![c] = [at |-> at, op |-> op, ids |-> ids]]
  PROVE  /\ CommandTypes' /\ directive'[c] = [at |-> at, op |-> op, ids |-> ids]
         /\ directive'[c].at = at /\ directive'[c].op = op /\ directive'[c].ids = ids
         /\ \A d \in Directives \ {c} : directive'[d] = directive[d]
         /\ \A m : InDirective(m) =>
              \/ InDirective(m)' \/ m \in directive[c].ids
              \/ directive[c].at = "received" /\ directive[c].op = "clear" /\ m = CommandId(c)
              \/ directive[c].at = "answered" /\ m = FeedbackId(c)
         /\ \A m \in ids : InDirective(m)'
         /\ at = "received" /\ op = "clear" => InDirective(CommandId(c))'
         /\ at = "answered" => InDirective(FeedbackId(c))'
         /\ HandsEmpty /\ (at # "deleting" => ids = {}) => HandsEmpty'
<1> DEFINE n == [at |-> at, op |-> op, ids |-> ids]
<1>1. n \in DirectiveStates /\ n.at = at /\ n.op = op /\ n.ids = ids
  BY DEF DirectiveStates
<1>2. directive' = [directive EXCEPT ![c] = n]
  OBVIOUS
<1> HIDE DEF n
<1>3. CommandTypes' /\ directive'[c] = n /\ \A d \in Directives \ {c} : directive'[d] = directive[d]
  BY <1>1, <1>2 DEF CommandTypes
<1>4. ASSUME NEW m, InDirective(m)
      PROVE  \/ InDirective(m)' \/ m \in directive[c].ids
             \/ directive[c].at = "received" /\ directive[c].op = "clear" /\ m = CommandId(c)
             \/ directive[c].at = "answered" /\ m = FeedbackId(c)
  <2>1. PICK d \in Directives :
           \/ m \in directive[d].ids
           \/ directive[d].at = "received" /\ directive[d].op = "clear" /\ m = CommandId(d)
           \/ directive[d].at = "answered" /\ m = FeedbackId(d)
    BY <1>4 DEF InDirective
  <2> QED
    BY <1>3, <2>1 DEF InDirective
<1>5. /\ \A m \in ids : InDirective(m)'
      /\ at = "received" /\ op = "clear" => InDirective(CommandId(c))'
      /\ at = "answered" => InDirective(FeedbackId(c))'
  BY <1>1, <1>3 DEF InDirective
<1>6. HandsEmpty /\ (at # "deleting" => ids = {}) => HandsEmpty'
  BY <1>1, <1>3 DEF HandsEmpty
<1> QED
  BY <1>1, <1>3, <1>4, <1>5, <1>6 DEF n

LEMMA GenerationsKept ==
  ASSUME OrdersCounted, UNCHANGED <<clearGen, stopGen>>,
         \A c \in Directives : directive[c].at \notin {"idle", "received"}
                                 => directive'[c].at \notin {"idle", "received"}
  PROVE  OrdersCounted'
<1>1. HandledDirectives \subseteq HandledDirectives' /\ HandledDirectives' \subseteq Directives
  BY DEF HandledDirectives
<1>2. IsFiniteSet(HandledDirectives')
  BY <1>1, FS_Subset, ManagedAssumption
<1>3. Cardinality(HandledDirectives) <= Cardinality(HandledDirectives')
  BY <1>1, <1>2, FS_Subset
<1>4. /\ IsFiniteSet(HandledDirectives)
      /\ Cardinality(HandledDirectives) \in Nat /\ Cardinality(HandledDirectives') \in Nat
  BY <1>1, <1>2, FS_Subset, FS_CardinalityType
<1> QED
  BY <1>3, <1>4 DEF OrdersCounted

(* A turn that moves and admits nothing.                                   *)
LEMMA TurnStepKeeps ==
  ASSUME ManagedInv, NEW i \in Deliveries, NEW n \in Turns, turn' = [turn EXCEPT ![i] = n],
         turn[i].at # "done", n.at # "rejected", MessageTypes', AllAccounted',
         UNCHANGED <<replies, clearGen, stopGen, directive, notice>>
  PROVE  ManagedInv'
<1>1. TurnTypes' /\ turn'[i] = n /\ \A j \in Deliveries \ {i} : turn'[j] = turn[j]
  BY TurnMoves DEF ManagedInv
<1>2. CommandTypes' /\ NoticeTypes' /\ HandsEmpty'
  BY DEF ManagedInv, CommandTypes, NoticeTypes, HandsEmpty
<1>3. OrdersCounted'
  BY DEF ManagedInv, OrdersCounted, HandledDirectives
<1>4. TreesAdmitted'
  BY <1>1 DEF ManagedInv, TreesAdmitted, Treed
<1>5. RejectedHold'
  BY <1>1 DEF ManagedInv, RejectedHold
<1> QED
  BY <1>1, <1>2, <1>3, <1>4, <1>5 DEF ManagedInv

(* Neither the commands nor the notice let go of a message.                *)
LEMMA OthersHold ==
  /\ UNCHANGED directive => \A m : InDirective(m)' <=> InDirective(m)
  /\ UNCHANGED notice => \A m : InNotice(m)' <=> InNotice(m)
  /\ UNCHANGED turn => \A m : InTurn(m)' <=> InTurn(m)
  /\ UNCHANGED replies => Treed' = Treed
BY DEF InDirective, InNotice, InTurn, Treed

LEMMA ReceivePromptKeeps ==
  ASSUME ManagedInv, NEW i \in Deliveries, ReceivePrompt(i)
  PROVE  ManagedInv'
<1>1. PICK m \in {i} \union {turn[j].prompt : j \in 1 .. i - 1},
           p \in {NoReply} \union (posted \intersect TurnMessages) :
         /\ turn' = [turn EXCEPT ![i] = [at |-> "received", prompt |-> m, answers |-> p,
               parent |-> NoReply, clears |-> clearGen, stops |-> stopGen, ids |-> {}]]
         /\ posted' = posted \union {PromptId(m)} /\ logged' = logged \union {PromptId(m)}
  BY DEF ReceivePrompt
<1>2. turn[i].at = "idle" /\ UNCHANGED <<replies, clearGen, stopGen, directive, notice, unreached, refusals>>
  BY DEF ReceivePrompt
<1>3. m \in Deliveries
  <2>1. \A j \in 1 .. i - 1 : j \in Deliveries
    BY ManagedAssumption DEF Deliveries
  <2> QED
    BY <1>1, <2>1, TurnFields DEF ManagedInv, TurnTypes
<1> DEFINE n == [at |-> "received", prompt |-> m, answers |-> p,
                 parent |-> NoReply, clears |-> clearGen, stops |-> stopGen, ids |-> {}]
<1>4. n \in Turns /\ n.at = "received"
  BY <1>3 DEF Turns, TurnPlaces, ManagedInv, OrdersCounted
<1>5. turn' = [turn EXCEPT ![i] = n]
  BY <1>1
<1> HIDE DEF n
<1>6. \A q : InTurn(q) => InTurn(q)'
  BY <1>2, <1>4, <1>5, TurnMoves DEF ManagedInv
<1>7. PromptId(m) \in MessageIds
  BY <1>3, MessageKinds
<1>8. MessageTypes'
  BY <1>1, <1>2, <1>7 DEF ManagedInv, MessageTypes
<1>9. AllAccounted'
  BY <1>1, <1>2, <1>6, OthersHold DEF ManagedInv, AllAccounted, Accounted
<1> QED
  BY <1>2, <1>4, <1>5, <1>8, <1>9, TurnStepKeeps

LEMMA IgnorePromptKeeps ==
  ASSUME ManagedInv, NEW i \in Deliveries, IgnorePrompt(i)
  PROVE  ManagedInv'
<1>1. /\ turn[i].at = "received" /\ turn' = [turn EXCEPT ![i] = WithTurn(turn[i], "done")]
      /\ UNCHANGED <<posted, logged, replies, clearGen, stopGen, directive, notice, unreached, refusals>>
  BY DEF IgnorePrompt, Turn, WithTurn
<1>2. WithTurn(turn[i], "done") \in Turns /\ WithTurn(turn[i], "done").at = "done"
  BY TurnUpdated DEF ManagedInv, TurnTypes, TurnPlaces
<1>3. \A q : InTurn(q) => InTurn(q)'
  BY <1>1, <1>2, TurnMoves DEF ManagedInv
<1>4. MessageTypes'
  BY <1>1 DEF ManagedInv, MessageTypes
<1>5. AllAccounted'
  BY <1>1, <1>3, OthersHold DEF ManagedInv, AllAccounted, Accounted
<1> QED
  BY <1>1, <1>2, <1>4, <1>5, TurnStepKeeps

LEMMA SendStatusKeeps ==
  ASSUME ManagedInv, NEW i \in Deliveries, SendStatus(i)
  PROVE  ManagedInv'
<1>0. StatusId(i) \in MessageIds /\ turn[i] \in Turns
  BY MessageKinds DEF ManagedInv, TurnTypes
<1>1. turn[i].at = "received" /\ UNCHANGED <<logged, replies, clearGen, stopGen, directive, notice>>
  BY DEF SendStatus
<1>2. CASE /\ turn' = [turn EXCEPT ![i].at = "sent", ![i].parent =
                IF turn[i].answers \in Treed THEN turn[i].answers ELSE NoReply]
           /\ posted' = posted \union {StatusId(i)} /\ UNCHANGED <<unreached, refusals>>
  <2> DEFINE parent == IF turn[i].answers \in Treed THEN turn[i].answers ELSE NoReply
             n == [WithTurn(turn[i], "sent") EXCEPT !.parent = parent]
  <2>1. parent \in MessageIds \union {NoReply}
    BY <1>0, TurnFields, MessageKinds
  <2>2. WithTurn(turn[i], "sent") \in Turns /\ WithTurn(turn[i], "sent").at = "sent"
    BY <1>0, TurnUpdated DEF TurnPlaces
  <2>3. turn' = [turn EXCEPT ![i] = n]
    BY <1>2 DEF WithTurn
  <2> HIDE DEF parent
  <2>4. n \in Turns /\ n.at = "sent"
    BY <2>1, <2>2 DEF Turns
  <2> HIDE DEF n
  <2>5. (\A q : InTurn(q) => InTurn(q)') /\ InTurn(StatusId(i))'
    BY <1>1, <2>3, <2>4, TurnMoves DEF ManagedInv
  <2>6. MessageTypes'
    BY <1>0, <1>1, <1>2 DEF ManagedInv, MessageTypes
  <2>7. AllAccounted'
    BY <1>1, <1>2, <2>5, OthersHold DEF ManagedInv, AllAccounted, Accounted
  <2> QED
    BY <1>1, <2>3, <2>4, <2>6, <2>7, TurnStepKeeps
<1>3. CASE Turn(i, "received", "done") /\ SendFails(StatusId(i))
  <2>1. turn' = [turn EXCEPT ![i] = WithTurn(turn[i], "done")]
    BY <1>3 DEF Turn, WithTurn
  <2>2. WithTurn(turn[i], "done") \in Turns /\ WithTurn(turn[i], "done").at = "done"
    BY <1>0, TurnUpdated DEF TurnPlaces
  <2>3. \A q : InTurn(q) => InTurn(q)'
    BY <1>1, <2>1, <2>2, TurnMoves DEF ManagedInv
  <2>4. refusals' \in 0 .. MaxRefusals
    BY <1>3, ManagedAssumption DEF SendFails, Refused1, ManagedInv, MessageTypes
  <2>5. \/ UNCHANGED <<posted, unreached>>
        \/ posted' = posted \union {StatusId(i)} /\ unreached' = unreached \union {StatusId(i)}
    BY <1>3 DEF SendFails
  <2>6. MessageTypes'
    BY <1>0, <1>1, <2>4, <2>5 DEF ManagedInv, MessageTypes
  <2>7. AllAccounted'
    BY <1>1, <2>3, <2>5, OthersHold DEF ManagedInv, AllAccounted, Accounted
  <2> QED
    BY <1>1, <2>1, <2>2, <2>6, <2>7, TurnStepKeeps
<1> QED
  BY <1>2, <1>3 DEF SendStatus

LEMMA RecordStatusKeeps ==
  ASSUME ManagedInv, NEW i \in Deliveries, RecordStatus(i)
  PROVE  ManagedInv'
<1>1. /\ turn[i].at = "sent" /\ turn' = [turn EXCEPT ![i] = WithTurn(turn[i], "recorded")]
      /\ logged' = logged \union {StatusId(i)}
      /\ UNCHANGED <<posted, replies, clearGen, stopGen, directive, notice, unreached, refusals>>
  BY DEF RecordStatus, Turn, WithTurn
<1>2. WithTurn(turn[i], "recorded") \in Turns /\ WithTurn(turn[i], "recorded").at = "recorded"
  BY TurnUpdated DEF ManagedInv, TurnTypes, TurnPlaces
<1>3. \A q : InTurn(q) => InTurn(q)' \/ q = StatusId(i)
  BY <1>1, <1>2, TurnMoves DEF ManagedInv
<1>4. MessageTypes'
  BY <1>1, MessageKinds DEF ManagedInv, MessageTypes
<1>5. AllAccounted'
  BY <1>1, <1>3, OthersHold DEF ManagedInv, AllAccounted, Accounted
<1> QED
  BY <1>1, <1>2, <1>4, <1>5, TurnStepKeeps

LEMMA AdmitTurnKeeps ==
  ASSUME ManagedInv, NEW i \in Deliveries, AdmitTurn(i)
  PROVE  ManagedInv'
<1> DEFINE prompt == PromptId(turn[i].prompt)
           current == turn[i].clears = clearGen /\ turn[i].stops = stopGen
           duplicate == prompt \in Treed
           removed == turn[i].parent # NoReply /\ turn[i].parent \notin Treed
           dropped == current /\ ~duplicate /\ removed
<1>1. /\ turn[i].at = "recorded"
      /\ UNCHANGED <<posted, logged, clearGen, stopGen, directive, notice, unreached, refusals>>
  BY DEF AdmitTurn
<1>2. turn[i] \in Turns /\ turn[i].prompt \in Deliveries /\ turn[i].parent \in MessageIds \union {NoReply}
  BY TurnFields DEF ManagedInv, TurnTypes
<1>3. /\ prompt \in TurnMessages /\ StatusId(i) \in TurnMessages /\ TurnMessages \subseteq MessageIds
  BY <1>2, MessageKinds
<1>4. CASE /\ turn' = [turn EXCEPT ![i].at = "done"]
           /\ replies' = replies \union {<<prompt, turn[i].parent>>, <<StatusId(i), prompt>>}
  <2>1. turn' = [turn EXCEPT ![i] = WithTurn(turn[i], "done")]
    BY <1>4 DEF WithTurn
  <2>2. /\ WithTurn(turn[i], "done") \in Turns /\ WithTurn(turn[i], "done").at = "done"
        /\ WithTurn(turn[i], "done").prompt = turn[i].prompt
    BY <1>2, TurnUpdated DEF TurnPlaces
  <2>3. /\ TurnTypes' /\ turn'[i] = WithTurn(turn[i], "done")
        /\ \A j \in Deliveries \ {i} : turn'[j] = turn[j]
        /\ \A q : InTurn(q) => InTurn(q)'
    BY <1>1, <2>1, <2>2, TurnMoves DEF ManagedInv
  <2>4. Treed' = Treed \union {prompt, StatusId(i)}
    <3>1. Treed' = {r[1] : r \in replies'}
      BY DEF Treed
    <3>2. <<prompt, turn[i].parent>>[1] = prompt /\ <<StatusId(i), prompt>>[1] = StatusId(i)
      OBVIOUS
    <3> HIDE DEF prompt
    <3>3. {r[1] : r \in replies'} = {r[1] : r \in replies} \union
             {<<prompt, turn[i].parent>>[1], <<StatusId(i), prompt>>[1]}
      <4> DEFINE a == <<prompt, turn[i].parent>>
                 b == <<StatusId(i), prompt>>
      <4>1. replies' = replies \union {a, b}
        BY <1>4
      <4> HIDE DEF a, b
      <4>2. {r[1] : r \in replies'} = {r[1] : r \in replies} \union {a[1], b[1]}
        BY <4>1
      <4> QED
        BY <4>2 DEF a, b
    <3> QED
      BY <3>1, <3>2, <3>3 DEF Treed
  <2>5. MessageTypes'
    <3>1. <<prompt, turn[i].parent>> \in MessageIds \X (MessageIds \union {NoReply})
      BY <1>2, <1>3
    <3>2. <<StatusId(i), prompt>> \in MessageIds \X (MessageIds \union {NoReply})
      BY <1>2, <1>3
    <3> HIDE DEF prompt
    <3>3. replies' \subseteq MessageIds \X (MessageIds \union {NoReply})
      BY <1>4, <3>1, <3>2 DEF ManagedInv, MessageTypes
    <3> QED
      BY <1>1, <3>3 DEF ManagedInv, MessageTypes
  <2>6. AllAccounted'
    BY <1>1, <2>3, <2>4, OthersHold DEF ManagedInv, AllAccounted, Accounted
  <2>7. CommandTypes' /\ NoticeTypes' /\ HandsEmpty' /\ OrdersCounted'
    BY <1>1 DEF ManagedInv, CommandTypes, NoticeTypes, HandsEmpty, OrdersCounted, HandledDirectives
  <2>8. TreesAdmitted'
    <3>1. Treed' \subseteq TurnMessages
      BY <1>3, <2>4 DEF ManagedInv, TreesAdmitted
    <3>2. ASSUME NEW j \in Deliveries, StatusId(j) \in Treed' PROVE turn'[j].at = "done"
      BY <1>2, <2>2, <2>3, <2>4, <3>2, MessageKinds DEF ManagedInv, TreesAdmitted
    <3>3. ASSUME NEW p \in Deliveries, PromptId(p) \in Treed'
          PROVE  \E k \in Deliveries : turn'[k].at = "done" /\ turn'[k].prompt = p
      <4>1. CASE PromptId(p) \in Treed
        <5>1. PICK k \in Deliveries : turn[k].at = "done" /\ turn[k].prompt = p
          BY <4>1 DEF ManagedInv, TreesAdmitted
        <5> QED
          BY <1>1, <2>3, <5>1
      <4>2. CASE PromptId(p) \notin Treed
        <5>1. p = turn[i].prompt
          BY <1>2, <2>4, <3>3, <4>2, MessageKinds
        <5> QED
          BY <2>2, <2>3, <5>1
      <4> QED
        BY <4>1, <4>2
    <3> QED
      BY <3>1, <3>2, <3>3 DEF TreesAdmitted
  <2>9. RejectedHold'
    BY <2>2, <2>3 DEF ManagedInv, RejectedHold
  <2> QED
    BY <2>3, <2>5, <2>6, <2>7, <2>8, <2>9 DEF ManagedInv
<1>5. CASE /\ turn' = [turn EXCEPT ![i].at = "rejected", ![i].ids = RejectedIds(i, dropped)]
           /\ UNCHANGED replies
  <2> DEFINE ids == RejectedIds(i, dropped)
             n == [WithTurn(turn[i], "rejected") EXCEPT !.ids = ids]
  <2>1. \/ ids = {StatusId(i)}
        \/ turn[i].parent # NoReply /\ ids = {StatusId(i), prompt}
    BY DEF RejectedIds
  <2>2. /\ WithTurn(turn[i], "rejected") \in Turns /\ WithTurn(turn[i], "rejected").at = "rejected"
        /\ WithTurn(turn[i], "rejected").prompt = turn[i].prompt
        /\ WithTurn(turn[i], "rejected").parent = turn[i].parent
    BY <1>2, TurnUpdated DEF TurnPlaces
  <2>3. turn' = [turn EXCEPT ![i] = n]
    BY <1>5 DEF WithTurn
  <2>4. ids \subseteq MessageIds
    BY <1>3, <2>1
  <2> HIDE DEF ids
  <2>5. /\ n \in Turns /\ n.at = "rejected" /\ n.ids = ids /\ n.prompt = turn[i].prompt
        /\ n.parent = turn[i].parent
    BY <2>2, <2>4 DEF Turns
  <2> HIDE DEF n
  <2>6. /\ TurnTypes' /\ turn'[i] = n /\ \A j \in Deliveries \ {i} : turn'[j] = turn[j]
        /\ \A q : InTurn(q) => InTurn(q)'
    BY <1>1, <2>3, <2>5, TurnMoves DEF ManagedInv
  <2>7. MessageTypes'
    BY <1>1, <1>5 DEF ManagedInv, MessageTypes
  <2>8. AllAccounted'
    BY <1>1, <1>5, <2>6, OthersHold DEF ManagedInv, AllAccounted, Accounted
  <2>9. CommandTypes' /\ NoticeTypes' /\ HandsEmpty' /\ OrdersCounted'
    BY <1>1 DEF ManagedInv, CommandTypes, NoticeTypes, HandsEmpty, OrdersCounted, HandledDirectives
  <2>10. TreesAdmitted'
    <3>1. Treed' = Treed
      BY <1>5 DEF Treed
    <3>2. \A k \in Deliveries : turn[k].at = "done" => turn'[k] = turn[k]
      BY <1>1, <2>6
    <3> QED
      BY <3>1, <3>2 DEF ManagedInv, TreesAdmitted
  <2>11. RejectedHold'
    BY <2>1, <2>5, <2>6 DEF ManagedInv, RejectedHold
  <2> QED
    BY <2>6, <2>7, <2>8, <2>9, <2>10, <2>11 DEF ManagedInv
<1> QED
  BY <1>4, <1>5 DEF AdmitTurn

LEMMA DiscardRejectedKeeps ==
  ASSUME ManagedInv, NEW i \in Deliveries, DiscardRejected(i)
  PROVE  ManagedInv'
<1>1. /\ turn[i].at = "rejected" /\ turn' = [turn EXCEPT ![i] = WithTurn(turn[i], "done")]
      /\ UNCHANGED <<replies, clearGen, stopGen, directive, notice>>
  BY DEF DiscardRejected, Turn, WithTurn
<1>2. WithTurn(turn[i], "done") \in Turns /\ WithTurn(turn[i], "done").at = "done"
      /\ turn[i].ids \subseteq MessageIds
  BY TurnUpdated, TurnFields DEF ManagedInv, TurnTypes, TurnPlaces
<1>3. \A q : InTurn(q) => InTurn(q)' \/ q \in turn[i].ids
  BY <1>1, <1>2, TurnMoves DEF ManagedInv
<1>4. /\ \/ posted' = posted \ turn[i].ids /\ unreached' = unreached
         \/ posted' = posted /\ unreached' = unreached \union (turn[i].ids \intersect posted)
      /\ logged' = logged \/ logged' = logged \ turn[i].ids
  BY DEF DiscardRejected, Delete, GiveUp
<1>5. refusals' \in 0 .. MaxRefusals
  BY ManagedAssumption DEF DiscardRejected, Delete, GiveUp, Refused1, ManagedInv, MessageTypes
<1>6. MessageTypes'
  BY <1>1, <1>2, <1>4, <1>5 DEF ManagedInv, MessageTypes
<1>7. AllAccounted'
  BY <1>1, <1>3, <1>4, OthersHold DEF ManagedInv, AllAccounted, Accounted
<1> QED
  BY <1>1, <1>2, <1>6, <1>7, TurnStepKeeps

LEMMA GenerationsGrow ==
  ASSUME OrdersCounted, NEW c \in Directives, directive[c].at = "received",
         directive'[c].at \notin {"idle", "received"},
         \A d \in Directives \ {c} : directive'[d] = directive[d],
         \/ clearGen' = clearGen + 1 /\ stopGen' = stopGen
         \/ stopGen' = stopGen + 1 /\ clearGen' = clearGen
  PROVE  OrdersCounted'
<1>1. HandledDirectives' = HandledDirectives \union {c} /\ c \notin HandledDirectives
  BY DEF HandledDirectives
<1>2. HandledDirectives \subseteq Directives
  BY DEF HandledDirectives
<1>3. IsFiniteSet(HandledDirectives) /\ Cardinality(HandledDirectives) \in Nat
  BY <1>2, FS_Subset, FS_CardinalityType, ManagedAssumption
<1>4. Cardinality(HandledDirectives') = Cardinality(HandledDirectives) + 1
  BY <1>1, <1>3, FS_AddElement
<1> QED
  BY <1>3, <1>4 DEF OrdersCounted

(* A command that moves and admits nothing.                                *)
LEMMA DirectiveStepKeeps ==
  ASSUME ManagedInv, UNCHANGED <<turn, notice>>, CommandTypes', HandsEmpty', OrdersCounted', MessageTypes',
         AllAccounted', Treed' \subseteq Treed
  PROVE  ManagedInv'
<1>1. TurnTypes' /\ NoticeTypes' /\ RejectedHold'
  BY DEF ManagedInv, TurnTypes, NoticeTypes, RejectedHold
<1>2. TreesAdmitted'
  BY DEF ManagedInv, TreesAdmitted
<1> QED
  BY <1>1, <1>2 DEF ManagedInv

(* A command that moves on and touches no message: what it had in hand is  *)
(* recorded.                                                               *)
LEMMA HandlerStepKeeps ==
  ASSUME ManagedInv, NEW c \in Directives, NEW at \in DirectivePlaces \ {"idle", "received", "deleting"},
         Handler(c, at, {}), directive[c].at = "received", directive[c].op # "clear",
         UNCHANGED <<posted, logged, replies, turn, notice, unreached, refusals>>,
         \/ UNCHANGED <<clearGen, stopGen>>
         \/ stopGen' = stopGen + 1 /\ clearGen' = clearGen
  PROVE  ManagedInv'
<1>1. directive' = [directive EXCEPT ![c] = [at |-> at, op |-> directive[c].op, ids |-> {}]]
  BY DEF Handler
<1>2. directive[c].op \in {"none", "clear", "clear_reply", "stop", "stop_reply", "stats"}
      /\ directive[c].ids = {} /\ at \in DirectivePlaces /\ {} \in SUBSET MessageIds
  BY DEF ManagedInv, HandsEmpty, CommandTypes, DirectiveStates
<1>3. /\ CommandTypes' /\ directive'[c].at = at /\ HandsEmpty'
      /\ \A d \in Directives \ {c} : directive'[d] = directive[d]
      /\ \A m : InDirective(m) => InDirective(m)'
  BY <1>1, <1>2, DirectiveMoves DEF ManagedInv
<1>4. OrdersCounted'
  <2>1. CASE UNCHANGED <<clearGen, stopGen>>
    BY <1>3, <2>1, GenerationsKept DEF ManagedInv
  <2>2. CASE stopGen' = stopGen + 1 /\ clearGen' = clearGen
    BY <1>3, <2>2, GenerationsGrow DEF ManagedInv
  <2> QED
    BY <2>1, <2>2
<1>5. MessageTypes'
  BY DEF ManagedInv, MessageTypes
<1>6. AllAccounted'
  BY <1>3, OthersHold DEF ManagedInv, AllAccounted, Accounted
<1>7. Treed' \subseteq Treed
  BY DEF Treed
<1> QED
  BY <1>3, <1>4, <1>5, <1>6, <1>7, DirectiveStepKeeps

LEMMA StopAllTurnsKeeps ==
  ASSUME ManagedInv, NEW c \in Directives, StopAllTurns(c)
  PROVE  ManagedInv'
<1>1. PICK at \in {"answering"} \union (IF Treed = {} THEN {} ELSE {"done"}) : Handler(c, at, {})
  BY DEF StopAllTurns, AnswersOrNot
<1>2. at \in DirectivePlaces \ {"idle", "received", "deleting"}
  BY DEF DirectivePlaces
<1> QED
  BY <1>1, <1>2, HandlerStepKeeps DEF StopAllTurns, Handles

LEMMA StopReplyToKeeps ==
  ASSUME ManagedInv, NEW c \in Directives, StopReplyTo(c)
  PROVE  ManagedInv'
<1>1. PICK at \in {"answering"} \union (IF Treed = {} THEN {} ELSE {"done"}) : Handler(c, at, {})
  BY DEF StopReplyTo, AnswersOrNot
<1>2. at \in DirectivePlaces \ {"idle", "received", "deleting"}
  BY DEF DirectivePlaces
<1> QED
  BY <1>1, <1>2, HandlerStepKeeps DEF StopReplyTo, Handles

LEMMA NothingToClearKeeps ==
  ASSUME ManagedInv, NEW c \in Directives, NothingToClear(c)
  PROVE  ManagedInv'
<1>1. "answering" \in DirectivePlaces \ {"idle", "received", "deleting"}
  BY DEF DirectivePlaces
<1> QED
  BY <1>1, HandlerStepKeeps DEF NothingToClear, Handles

LEMMA OrderKeeps ==
  ASSUME ManagedInv, NEW c \in Directives,
         NEW op \in {"clear", "clear_reply", "stop", "stop_reply", "stats"}, Order(c, op)
  PROVE  ManagedInv'
<1>1. /\ directive[c].at = "idle"
      /\ directive' = [directive EXCEPT ![c] = [at |-> "received", op |-> op, ids |-> {}]]
      /\ posted' = posted \union {CommandId(c)}
      /\ logged' = IF op = "clear" THEN logged ELSE logged \union {CommandId(c)}
      /\ UNCHANGED <<replies, clearGen, stopGen, turn, notice, unreached, refusals>>
  BY DEF Order
<1>2. "received" \in DirectivePlaces /\ {} \in SUBSET MessageIds /\ directive[c].ids = {}
      /\ op \in {"none", "clear", "clear_reply", "stop", "stop_reply", "stats"}
  BY <1>1 DEF ManagedInv, HandsEmpty, DirectivePlaces
<1>3. /\ CommandTypes' /\ HandsEmpty' /\ \A d \in Directives \ {c} : directive'[d] = directive[d]
      /\ \A m : InDirective(m) => InDirective(m)'
      /\ op = "clear" => InDirective(CommandId(c))'
  BY <1>1, <1>2, DirectiveMoves DEF ManagedInv
<1>4. OrdersCounted'
  BY <1>1, <1>3, GenerationsKept DEF ManagedInv
<1>5. MessageTypes'
  BY <1>1, MessageKinds DEF ManagedInv, MessageTypes
<1>6. AllAccounted'
  BY <1>1, <1>3, OthersHold DEF ManagedInv, AllAccounted, Accounted
<1>7. Treed' \subseteq Treed
  BY <1>1 DEF Treed
<1> QED
  BY <1>1, <1>3, <1>4, <1>5, <1>6, <1>7, DirectiveStepKeeps

LEMMA ClearChatKeeps ==
  ASSUME ManagedInv, NEW c \in Directives, ClearChat(c)
  PROVE  ManagedInv'
<1>1. /\ directive[c].at = "received" /\ directive[c].op = "clear" /\ clearGen' = clearGen + 1
      /\ UNCHANGED <<posted, stopGen, turn, notice>>
  BY DEF ClearChat, Handles
<1>2. /\ directive[c].ids = {} /\ directive[c].op \in {"none", "clear", "clear_reply", "stop", "stop_reply", "stats"}
      /\ "deleting" \in DirectivePlaces /\ "done" \in DirectivePlaces
  BY <1>1 DEF ManagedInv, HandsEmpty, DirectivePlaces
<1>3. Treed \subseteq MessageIds /\ CommandId(c) \in MessageIds /\ logged \subseteq MessageIds
  BY TreedTyped, MessageKinds DEF ManagedInv, MessageTypes
<1>4. CASE /\ Handler(c, "deleting", logged \union Treed \union {CommandId(c)})
           /\ replies' = {} /\ logged' = {} /\ UNCHANGED <<unreached, refusals>>
  <2> DEFINE ids == logged \union Treed \union {CommandId(c)}
  <2>1. ids \in SUBSET MessageIds
    BY <1>3
  <2>2. directive' = [directive EXCEPT ![c] = [at |-> "deleting", op |-> directive[c].op, ids |-> ids]]
    BY <1>4 DEF Handler
  <2>3. /\ CommandTypes' /\ HandsEmpty' /\ \A d \in Directives \ {c} : directive'[d] = directive[d]
        /\ directive'[c].at = "deleting"
        /\ \A m : InDirective(m) => InDirective(m)' \/ m = CommandId(c)
        /\ \A m \in ids : InDirective(m)'
    <3> HIDE DEF ids
    <3> QED
      BY <1>1, <1>2, <2>1, <2>2, DirectiveMoves DEF ManagedInv
  <2>4. OrdersCounted'
    BY <1>1, <2>3, GenerationsGrow DEF ManagedInv
  <2>5. MessageTypes'
    BY <1>1, <1>4 DEF ManagedInv, MessageTypes
  <2>6. AllAccounted'
    BY <1>1, <1>4, <2>3, OthersHold DEF ManagedInv, AllAccounted, Accounted
  <2>7. Treed' \subseteq Treed
    BY <1>4 DEF Treed
  <2> QED
    BY <1>1, <2>3, <2>4, <2>5, <2>6, <2>7, DirectiveStepKeeps
<1>5. CASE /\ Refused1 /\ Handler(c, "done", {})
           /\ \E retained \in SUBSET Roots :
                replies' = {r \in replies : r[1] \in UNION {ReplyTree(m) : m \in retained}}
           /\ logged' = {CommandId(c)}
           /\ unreached' = unreached \union ((logged \union Treed) \intersect posted)
  <2>1. directive' = [directive EXCEPT ![c] = [at |-> "done", op |-> directive[c].op, ids |-> {}]]
    BY <1>5 DEF Handler
  <2>2. /\ CommandTypes' /\ HandsEmpty' /\ \A d \in Directives \ {c} : directive'[d] = directive[d]
        /\ directive'[c].at = "done"
        /\ \A m : InDirective(m) => InDirective(m)' \/ m = CommandId(c)
    BY <1>1, <1>2, <2>1, DirectiveMoves DEF ManagedInv
  <2>3. OrdersCounted'
    BY <1>1, <2>2, GenerationsGrow DEF ManagedInv
  <2>4. replies' \subseteq replies /\ Treed' \subseteq Treed
    BY <1>5 DEF Treed
  <2>5. refusals' \in 0 .. MaxRefusals
    BY <1>5, ManagedAssumption DEF Refused1, ManagedInv, MessageTypes
  <2>6. MessageTypes'
    BY <1>1, <1>3, <1>5, <2>4, <2>5 DEF ManagedInv, MessageTypes
  <2>7. AllAccounted'
    BY <1>1, <1>5, <2>2, OthersHold DEF ManagedInv, AllAccounted, Accounted
  <2> QED
    BY <1>1, <2>2, <2>3, <2>4, <2>6, <2>7, DirectiveStepKeeps
<1> QED
  BY <1>4, <1>5 DEF ClearChat

LEMMA CommandFailsKeeps ==
  ASSUME ManagedInv, NEW c \in Directives, CommandFails(c)
  PROVE  ManagedInv'
<1>1. /\ directive[c].at = "received" /\ Refused1
      /\ logged' = IF directive[c].op = "clear" THEN logged \union {CommandId(c)} ELSE logged
      /\ directive' = [directive EXCEPT ![c] = [at |-> "done", op |-> directive[c].op, ids |-> {}]]
      /\ UNCHANGED <<posted, replies, clearGen, stopGen, turn, notice, unreached>>
  BY DEF CommandFails, RecordFailed, Handler
<1>2. /\ directive[c].ids = {} /\ {} \in SUBSET MessageIds
      /\ directive[c].op \in {"none", "clear", "clear_reply", "stop", "stop_reply", "stats"}
      /\ "done" \in DirectivePlaces
  BY <1>1 DEF ManagedInv, HandsEmpty, DirectivePlaces, CommandTypes, DirectiveStates
<1>3. /\ CommandTypes' /\ HandsEmpty' /\ \A d \in Directives \ {c} : directive'[d] = directive[d]
      /\ directive'[c].at = "done"
      /\ \A m : InDirective(m) => InDirective(m)' \/ (directive[c].op = "clear" /\ m = CommandId(c))
  BY <1>1, <1>2, DirectiveMoves DEF ManagedInv
<1>4. OrdersCounted'
  BY <1>1, <1>3, GenerationsKept DEF ManagedInv
<1>5. refusals' \in 0 .. MaxRefusals
  BY <1>1, ManagedAssumption DEF Refused1, ManagedInv, MessageTypes
<1>6. MessageTypes'
  BY <1>1, <1>5, MessageKinds DEF ManagedInv, MessageTypes
<1>7. AllAccounted'
  BY <1>1, <1>3, OthersHold DEF ManagedInv, AllAccounted, Accounted
<1>8. Treed' \subseteq Treed
  BY <1>1 DEF Treed
<1> QED
  BY <1>1, <1>3, <1>4, <1>6, <1>7, <1>8, DirectiveStepKeeps

LEMMA ClearReplyToKeeps ==
  ASSUME ManagedInv, NEW c \in Directives, ClearReplyTo(c)
  PROVE  ManagedInv'
<1>1. /\ directive[c].at = "received" /\ directive[c].op = "clear_reply"
      /\ UNCHANGED <<posted, logged, clearGen, stopGen, turn, notice, unreached, refusals>>
  BY DEF ClearReplyTo, Handles
<1>2. PICK m \in Treed :
         /\ replies' = {r \in replies : r[1] \notin ReplyTree(m)}
         /\ directive' = [directive EXCEPT ![c] =
               [at |-> "deleting", op |-> directive[c].op, ids |-> ReplyTree(m) \union {CommandId(c)}]]
  BY DEF ClearReplyTo, Handler
<1> DEFINE ids == ReplyTree(m) \union {CommandId(c)}
<1>3. Treed \subseteq MessageIds /\ CommandId(c) \in MessageIds /\ ReplyTree(m) \subseteq Treed
  BY TreedTyped, MessageKinds DEF ManagedInv, ReplyTree
<1>4. /\ directive[c].ids = {} /\ ids \in SUBSET MessageIds /\ "deleting" \in DirectivePlaces
      /\ directive[c].op \in {"none", "clear", "clear_reply", "stop", "stop_reply", "stats"}
  BY <1>1, <1>3 DEF ManagedInv, HandsEmpty, DirectivePlaces
<1>5. directive' = [directive EXCEPT ![c] = [at |-> "deleting", op |-> directive[c].op, ids |-> ids]]
  BY <1>2
<1> HIDE DEF ids
<1>6. /\ CommandTypes' /\ HandsEmpty' /\ \A d \in Directives \ {c} : directive'[d] = directive[d]
      /\ directive'[c].at = "deleting" /\ \A q : InDirective(q) => InDirective(q)'
      /\ \A q \in ids : InDirective(q)'
  BY <1>1, <1>4, <1>5, DirectiveMoves DEF ManagedInv
<1>7. OrdersCounted'
  BY <1>1, <1>6, GenerationsKept DEF ManagedInv
<1>8. Treed' \subseteq Treed /\ Treed \ ReplyTree(m) \subseteq Treed' /\ replies' \subseteq replies
  BY <1>2 DEF Treed
<1>9. MessageTypes'
  BY <1>1, <1>8 DEF ManagedInv, MessageTypes
<1>10. AllAccounted'
  BY <1>1, <1>6, <1>8, OthersHold DEF ManagedInv, AllAccounted, Accounted, ids
<1> QED
  BY <1>1, <1>6, <1>7, <1>8, <1>9, <1>10, DirectiveStepKeeps

LEMMA DeleteIdsKeeps ==
  ASSUME ManagedInv, NEW c \in Directives, DeleteIds(c) \/ DeleteCancelled(c)
  PROVE  ManagedInv'
<1> DEFINE ids == directive[c].ids
<1>1. /\ directive[c].at = "deleting"
      /\ directive' = [directive EXCEPT ![c] = [at |-> "done", op |-> directive[c].op, ids |-> {}]]
      /\ UNCHANGED <<replies, clearGen, stopGen, turn, notice>>
  BY DEF DeleteIds, DeleteCancelled, Handler
<1>2. /\ \/ posted' = posted \ ids /\ unreached' = unreached
         \/ posted' = posted /\ unreached' = unreached \union (ids \intersect posted)
      /\ logged' = logged \/ logged' = logged \ ids \/ logged' = logged \union {CommandId(c)}
  BY DEF DeleteIds, DeleteCancelled, Delete, GiveUp, RecordFailed
<1>3. refusals' \in 0 .. MaxRefusals
  BY ManagedAssumption DEF DeleteIds, DeleteCancelled, Delete, GiveUp, Refused1, ManagedInv, MessageTypes
<1>4. /\ directive[c].op \in {"none", "clear", "clear_reply", "stop", "stop_reply", "stats"}
      /\ "done" \in DirectivePlaces /\ {} \in SUBSET MessageIds /\ ids \subseteq MessageIds
  BY DEF ManagedInv, CommandTypes, DirectiveStates, DirectivePlaces
<1>5. /\ CommandTypes' /\ HandsEmpty' /\ \A d \in Directives \ {c} : directive'[d] = directive[d]
      /\ directive'[c].at = "done" /\ \A m : InDirective(m) => InDirective(m)' \/ m \in ids
  BY <1>1, <1>4, DirectiveMoves DEF ManagedInv
<1> HIDE DEF ids
<1>6. OrdersCounted'
  BY <1>1, <1>5, GenerationsKept DEF ManagedInv
<1>7. Treed' \subseteq Treed
  BY <1>1 DEF Treed
<1>8. MessageTypes'
  BY <1>1, <1>2, <1>3, <1>4, MessageKinds DEF ManagedInv, MessageTypes
<1>9. AllAccounted'
  BY <1>1, <1>2, <1>5, OthersHold DEF ManagedInv, AllAccounted, Accounted
<1> QED
  BY <1>1, <1>5, <1>6, <1>7, <1>8, <1>9, DirectiveStepKeeps

(* A handler that leaves no message to delete.                             *)
LEMMA HandsFree ==
  ASSUME CommandTypes, HandsEmpty, NEW c \in Directives, NEW at \in DirectivePlaces, at # "deleting",
         directive' = [directive EXCEPT ![c] = [at |-> at, op |-> directive[c].op, ids |-> {}]]
  PROVE  /\ CommandTypes' /\ HandsEmpty' /\ directive'[c].at = at
         /\ \A d \in Directives \ {c} : directive'[d] = directive[d]
         /\ \A m : InDirective(m) =>
              \/ InDirective(m)' \/ m \in directive[c].ids
              \/ directive[c].at = "received" /\ directive[c].op = "clear" /\ m = CommandId(c)
              \/ directive[c].at = "answered" /\ m = FeedbackId(c)
         /\ at = "answered" => InDirective(FeedbackId(c))'
<1> DEFINE n == [at |-> at, op |-> directive[c].op, ids |-> {}]
<1>1. n \in DirectiveStates /\ n.at = at /\ n.ids = {}
  BY DEF CommandTypes, DirectiveStates, DirectivePlaces
<1>2. directive' = [directive EXCEPT ![c] = n]
  OBVIOUS
<1> HIDE DEF n
<1>3. /\ CommandTypes' /\ directive'[c] = n
      /\ \A d \in Directives \ {c} : directive'[d] = directive[d]
  BY <1>1, <1>2 DEF CommandTypes
<1>4. HandsEmpty'
  BY <1>1, <1>3 DEF HandsEmpty
<1>5. ASSUME NEW m, InDirective(m)
      PROVE  \/ InDirective(m)' \/ m \in directive[c].ids
             \/ directive[c].at = "received" /\ directive[c].op = "clear" /\ m = CommandId(c)
             \/ directive[c].at = "answered" /\ m = FeedbackId(c)
  <2>1. PICK d \in Directives :
          \/ m \in directive[d].ids
          \/ directive[d].at = "received" /\ directive[d].op = "clear" /\ m = CommandId(d)
          \/ directive[d].at = "answered" /\ m = FeedbackId(d)
    BY <1>5 DEF InDirective
  <2> QED
    BY <1>3, <2>1 DEF InDirective
<1>6. at = "answered" => InDirective(FeedbackId(c))'
  BY <1>1, <1>3 DEF InDirective
<1> QED
  BY <1>1, <1>3, <1>4, <1>5, <1>6

LEMMA SendFeedbackKeeps ==
  ASSUME ManagedInv, NEW c \in Directives, SendFeedback(c)
  PROVE  ManagedInv'
<1>1. directive[c].at = "answering" /\ UNCHANGED <<logged, replies, clearGen, stopGen, turn, notice>>
  BY DEF SendFeedback
<1>2. PICK at \in {"answered", "done"} :
        /\ directive' = [directive EXCEPT ![c] = [at |-> at, op |-> directive[c].op, ids |-> {}]]
        /\ \/ at = "answered" /\ posted' = posted \union {FeedbackId(c)} /\ UNCHANGED <<unreached, refusals>>
           \/ at = "done" /\ SendFails(FeedbackId(c))
  BY DEF SendFeedback, Handler
<1>3. /\ directive[c].op \in {"none", "clear", "clear_reply", "stop", "stop_reply", "stats"}
      /\ at \in DirectivePlaces /\ {} \in SUBSET MessageIds /\ directive[c].ids = {}
  BY <1>1 DEF ManagedInv, CommandTypes, DirectiveStates, DirectivePlaces, HandsEmpty
<1>4. /\ CommandTypes' /\ HandsEmpty' /\ \A d \in Directives \ {c} : directive'[d] = directive[d]
      /\ directive'[c].at = at /\ \A m : InDirective(m) => InDirective(m)'
      /\ at = "answered" => InDirective(FeedbackId(c))'
  <2>1. directive' = [directive EXCEPT ![c] = [at |-> at, op |-> directive[c].op, ids |-> {}]]
    BY <1>2
  <2>2. HandsEmpty /\ CommandTypes /\ at # "deleting"
    BY <1>2 DEF ManagedInv
  <2> QED
    BY <1>1, <1>3, <2>1, <2>2, HandsFree
<1>5. OrdersCounted'
  BY <1>1, <1>4, GenerationsKept DEF ManagedInv
<1>6. Treed' \subseteq Treed
  BY <1>1 DEF Treed
<1>7. \/ at = "answered" /\ posted' = posted \union {FeedbackId(c)} /\ UNCHANGED unreached
      \/ posted' = posted /\ UNCHANGED unreached
      \/ posted' = posted \union {FeedbackId(c)} /\ unreached' = unreached \union {FeedbackId(c)}
  BY <1>2 DEF SendFails
<1>8. refusals' \in 0 .. MaxRefusals
  BY <1>2, ManagedAssumption DEF SendFails, Refused1, ManagedInv, MessageTypes
<1>9. MessageTypes'
  BY <1>1, <1>7, <1>8, MessageKinds DEF ManagedInv, MessageTypes
<1>10. AllAccounted'
  BY <1>1, <1>4, <1>7, OthersHold DEF ManagedInv, AllAccounted, Accounted
<1> QED
  BY <1>1, <1>4, <1>5, <1>6, <1>9, <1>10, DirectiveStepKeeps

LEMMA RecordFeedbackKeeps ==
  ASSUME ManagedInv, NEW c \in Directives, RecordFeedback(c)
  PROVE  ManagedInv'
<1>1. /\ directive[c].at = "answered"
      /\ directive' = [directive EXCEPT ![c] = [at |-> "done", op |-> directive[c].op, ids |-> {}]]
      /\ logged' = logged \union {FeedbackId(c)}
      /\ UNCHANGED <<posted, replies, clearGen, stopGen, turn, notice, unreached, refusals>>
  BY DEF RecordFeedback, Handler
<1>2. /\ directive[c].op \in {"none", "clear", "clear_reply", "stop", "stop_reply", "stats"}
      /\ "done" \in DirectivePlaces /\ {} \in SUBSET MessageIds /\ directive[c].ids = {}
  BY <1>1 DEF ManagedInv, CommandTypes, DirectiveStates, DirectivePlaces, HandsEmpty
<1>3. /\ CommandTypes' /\ HandsEmpty' /\ \A d \in Directives \ {c} : directive'[d] = directive[d]
      /\ directive'[c].at = "done" /\ \A m : InDirective(m) => InDirective(m)' \/ m = FeedbackId(c)
  <2>1. directive' = [directive EXCEPT ![c] = [at |-> "done", op |-> directive[c].op, ids |-> {}]]
    BY <1>1
  <2>2. HandsEmpty /\ CommandTypes /\ "done" # "deleting" /\ "done" # "answered"
    BY DEF ManagedInv
  <2> QED
    BY <1>1, <1>2, <2>1, <2>2, HandsFree
<1>4. OrdersCounted'
  BY <1>1, <1>3, GenerationsKept DEF ManagedInv
<1>5. Treed' \subseteq Treed
  BY <1>1 DEF Treed
<1>6. MessageTypes'
  BY <1>1, MessageKinds DEF ManagedInv, MessageTypes
<1>7. AllAccounted'
  BY <1>1, <1>3, OthersHold DEF ManagedInv, AllAccounted, Accounted
<1> QED
  BY <1>1, <1>3, <1>4, <1>5, <1>6, <1>7, DirectiveStepKeeps

(* The startup notice.                                                     *)
LEMMA NoticeStepKeeps ==
  ASSUME ManagedInv, UNCHANGED <<replies, clearGen, stopGen, turn, directive>>, NoticeTypes', MessageTypes',
         \A m : InNotice(m) => InNotice(m)' \/ m \in logged' \/ m \notin posted',
         \A m \in posted' \ posted : m \in unreached' \/ InNotice(m)',
         \A m \in logged : m \in logged' \/ m \notin posted', unreached \subseteq unreached'
  PROVE  ManagedInv'
<1>1. TurnTypes' /\ CommandTypes' /\ OrdersCounted' /\ HandsEmpty' /\ TreesAdmitted' /\ RejectedHold'
  BY DEF ManagedInv, TurnTypes, CommandTypes, OrdersCounted, HandledDirectives, HandsEmpty, TreesAdmitted,
         RejectedHold, Treed
<1>2. AllAccounted'
  BY OthersHold DEF ManagedInv, AllAccounted, Accounted
<1> QED
  BY <1>1, <1>2 DEF ManagedInv

LEMMA NoticeKeeps ==
  ASSUME ManagedInv,
         PublishNotice \/ SendNotice \/ CancelNotice \/ FinalizeNotice \/ DiscardNotice
  PROVE  ManagedInv'
<1>0. /\ NoticeId \in MessageIds /\ clearGen \in Nat
      /\ notice \in [at : {"idle", "sending", "sent", "discarding", "done"}, clears : Nat,
                     cancelled : BOOLEAN]
  BY MessageKinds DEF ManagedInv, NoticeTypes, OrdersCounted
<1>1. UNCHANGED <<replies, clearGen, stopGen, turn, directive>>
  BY DEF PublishNotice, SendNotice, CancelNotice, FinalizeNotice, DiscardNotice, Others
<1>2. refusals' \in 0 .. MaxRefusals
  BY ManagedAssumption DEF PublishNotice, SendNotice, CancelNotice, FinalizeNotice, DiscardNotice,
     SendFails, Refused1, ManagedInv, MessageTypes
<1>3. CASE PublishNotice
  <2>1. NoticeTypes'
    BY <1>0, <1>3 DEF PublishNotice, NoticeTypes
  <2>2. MessageTypes'
    BY <1>1, <1>2, <1>3 DEF PublishNotice, ManagedInv, MessageTypes
  <2> QED
    BY <1>1, <1>3, <2>1, <2>2, NoticeStepKeeps DEF PublishNotice, InNotice
<1>4. CASE SendNotice
  <2>1. NoticeTypes'
    BY <1>0, <1>4 DEF SendNotice, NoticeTypes
  <2>2. MessageTypes'
    BY <1>0, <1>1, <1>2, <1>4 DEF SendNotice, SendFails, ManagedInv, MessageTypes
  <2>3. notice.at = "sending"
    BY <1>4 DEF SendNotice
  <2>4. CASE /\ notice' = [notice EXCEPT !.at = "sent"]
             /\ posted' = posted \union {NoticeId} /\ unreached' = unreached /\ logged' = logged
    <3>1. notice'.at = "sent"
      BY <1>0, <2>4
    <3> QED
      BY <1>1, <2>1, <2>2, <2>3, <2>4, <3>1, NoticeStepKeeps DEF InNotice
  <2>5. CASE SendFails(NoticeId) /\ logged' = logged
    BY <1>1, <2>1, <2>2, <2>3, <2>5, NoticeStepKeeps DEF InNotice, SendFails
  <2> QED
    BY <1>4, <2>4, <2>5 DEF SendNotice
<1>5. CASE CancelNotice
  <2>1. NoticeTypes' /\ notice'.at = notice.at
    BY <1>0, <1>5 DEF CancelNotice, NoticeTypes
  <2>2. MessageTypes'
    BY <1>1, <1>2, <1>5 DEF CancelNotice, ManagedInv, MessageTypes
  <2> QED
    BY <1>1, <1>5, <2>1, <2>2, NoticeStepKeeps DEF CancelNotice, InNotice
<1>6. CASE FinalizeNotice
  <2>1. /\ notice'.at = IF MustDiscard THEN "discarding" ELSE "done"
        /\ logged' = IF MustDiscard THEN logged ELSE logged \union {NoticeId}
        /\ UNCHANGED <<posted, unreached, refusals>>
    BY <1>0, <1>6 DEF FinalizeNotice
  <2>2. NoticeTypes'
    BY <1>0, <1>6 DEF FinalizeNotice, NoticeTypes
  <2>3. MessageTypes'
    BY <1>0, <1>1, <2>1 DEF ManagedInv, MessageTypes
  <2>4. \A m : InNotice(m) => InNotice(m)' \/ m \in logged'
    BY <2>1 DEF InNotice
  <2> QED
    BY <1>1, <2>1, <2>2, <2>3, <2>4, NoticeStepKeeps
<1>7. CASE DiscardNotice
  <2>1. NoticeTypes'
    BY <1>0, <1>7 DEF DiscardNotice, NoticeTypes
  <2>2. /\ \/ posted' = posted \ {NoticeId} /\ logged' = logged \ {NoticeId}
           \/ logged' = logged \union {NoticeId} /\ posted' = posted
        /\ unreached' = unreached
    BY <1>7 DEF DiscardNotice
  <2>3. MessageTypes'
    BY <1>0, <1>1, <1>2, <2>2 DEF ManagedInv, MessageTypes
  <2>4. \A m : InNotice(m) => m \in logged' \/ m \notin posted'
    BY <2>2 DEF InNotice
  <2> QED
    BY <1>1, <2>1, <2>2, <2>3, <2>4, NoticeStepKeeps
<1> QED
  BY <1>3, <1>4, <1>5, <1>6, <1>7

LEMMA ManagedInitInv ==
  ASSUME ManagedInit
  PROVE  ManagedInv
<1>1. /\ posted = {} /\ logged = {} /\ replies = {} /\ clearGen = 0 /\ stopGen = 0
      /\ turn = [i \in Deliveries |-> [at |-> "idle", prompt |-> i, answers |-> NoReply,
                        parent |-> NoReply, clears |-> 0, stops |-> 0, ids |-> {}]]
      /\ directive = [c \in Directives |-> [at |-> "idle", op |-> "none", ids |-> {}]]
      /\ notice = [at |-> "idle", clears |-> 0, cancelled |-> FALSE]
      /\ unreached = {} /\ refusals = 0
  BY DEF ManagedInit
<1>2. MessageTypes /\ NoticeTypes /\ AllAccounted
  BY <1>1, ManagedAssumption DEF MessageTypes, NoticeTypes, AllAccounted
<1>3. TurnTypes /\ \A i \in Deliveries : turn[i].at = "idle"
  BY <1>1 DEF TurnTypes, Turns, TurnPlaces
<1>4. CommandTypes /\ \A c \in Directives : directive[c].at = "idle" /\ directive[c].ids = {}
  BY <1>1 DEF CommandTypes, DirectiveStates, DirectivePlaces
<1>5. HandsEmpty /\ HandledDirectives = {}
  BY <1>4 DEF HandsEmpty, HandledDirectives
<1>6. OrdersCounted
  BY <1>1, <1>5, FS_EmptySet DEF OrdersCounted
<1>7. TreesAdmitted /\ RejectedHold
  BY <1>1, <1>3 DEF TreesAdmitted, RejectedHold, Treed
<1> QED
  BY <1>2, <1>3, <1>4, <1>5, <1>6, <1>7 DEF ManagedInv

LEMMA ManagedNextKeeps ==
  ASSUME ManagedInv, [ManagedNext]_managedVars
  PROVE  ManagedInv'
<1>1. CASE UNCHANGED managedVars
  <2>1. UNCHANGED <<posted, logged, replies, clearGen, stopGen, turn, directive, notice, unreached, refusals>>
    BY <1>1 DEF managedVars
  <2>2. NoticeTypes' /\ MessageTypes' /\ \A m : InNotice(m)' <=> InNotice(m)
    BY <2>1 DEF ManagedInv, NoticeTypes, MessageTypes, InNotice
  <2> QED
    BY <2>1, <2>2, NoticeStepKeeps
<1>2. CASE \E i \in Deliveries : IntakeStep(i) \/ ReceivePrompt(i)
  BY <1>2, ReceivePromptKeeps, IgnorePromptKeeps, SendStatusKeeps, RecordStatusKeeps, AdmitTurnKeeps,
     DiscardRejectedKeeps DEF IntakeStep
<1>3. CASE \E c \in Directives : HandlerStep(c)
  BY <1>3, ClearChatKeeps, CommandFailsKeeps, ClearReplyToKeeps, DeleteIdsKeeps, StopAllTurnsKeeps,
     StopReplyToKeeps, NothingToClearKeeps, SendFeedbackKeeps, RecordFeedbackKeeps DEF HandlerStep
<1>4. CASE \E c \in Directives, op \in {"clear", "clear_reply", "stop", "stop_reply", "stats"} : Order(c, op)
  BY <1>4, OrderKeeps
<1>5. CASE NoticeStep \/ PublishNotice \/ CancelNotice
  BY <1>5, NoticeKeeps DEF NoticeStep
<1> QED
  BY <1>1, <1>2, <1>3, <1>4, <1>5 DEF ManagedNext, ManagedProgress

LEMMA ManagedTypes ==
  ASSUME ManagedInv
  PROVE  ManagedTypeOK
<1>1. /\ \A i \in Deliveries : turn[i].at \in TurnPlaces
      /\ \A c \in Directives : directive[c].at \in DirectivePlaces
      /\ notice.at \in {"idle", "sending", "sent", "discarding", "done"}
  BY DEF ManagedInv, TurnTypes, Turns, CommandTypes, DirectiveStates, NoticeTypes
<1>2. clearGen \in 0 .. Cardinality(Directives) /\ stopGen \in 0 .. Cardinality(Directives)
  <2>1. HandledDirectives \subseteq Directives
    BY DEF HandledDirectives
  <2>2. /\ Cardinality(HandledDirectives) <= Cardinality(Directives)
        /\ IsFiniteSet(HandledDirectives) /\ Cardinality(HandledDirectives) \in Nat
        /\ Cardinality(Directives) \in Nat
    BY <2>1, FS_Subset, FS_CardinalityType, ManagedAssumption
  <2> QED
    BY <2>2 DEF ManagedInv, OrdersCounted
<1> QED
  BY <1>1, <1>2 DEF ManagedInv, MessageTypes, ManagedTypeOK, TurnPlaces, DirectivePlaces

LEMMA NoneForgotten ==
  ASSUME ManagedInv
  PROVE  NothingForgotten
<1> DEFINE D == UNION {directive[c].ids : c \in Directives}
           C == {CommandId(c) : c \in {d \in Directives : directive[d].at = "received"}}
           F == {FeedbackId(c) : c \in {d \in Directives : directive[d].at = "answered"}}
           N == IF notice.at \in {"sent", "discarding"} THEN {NoticeId} ELSE {}
           T == {StatusId(i) : i \in {j \in Deliveries : turn[j].at = "sent"}}
                \union (UNION {turn[i].ids : i \in {j \in Deliveries : turn[j].at = "rejected"}})
<1>0. InHand = T \union D \union C \union F \union N
  BY DEF InHand
<1>1. \A m : InTurn(m) => m \in T
  BY DEF InTurn
<1>2. ASSUME NEW m, InDirective(m)
      PROVE  m \in D \/ m \in C \/ m \in F
  <2>1. PICK c \in Directives :
          \/ m \in directive[c].ids
          \/ directive[c].at = "received" /\ directive[c].op = "clear" /\ m = CommandId(c)
          \/ directive[c].at = "answered" /\ m = FeedbackId(c)
    BY <1>2 DEF InDirective
  <2>2. CASE m \in directive[c].ids
    BY <2>2
  <2>3. CASE directive[c].at = "received" /\ m = CommandId(c)
    BY <2>3
  <2>4. CASE directive[c].at = "answered" /\ m = FeedbackId(c)
    BY <2>4
  <2> QED
    BY <2>1, <2>2, <2>3, <2>4
<1>3. \A m : InNotice(m) => m \in N
  BY DEF InNotice
<1> HIDE DEF T, D, C, F, N
<1> QED
  BY <1>0, <1>1, <1>2, <1>3 DEF ManagedInv, AllAccounted, Accounted, NothingForgotten

LEMMA StaysPosted ==
  ASSUME ManagedInv, [ManagedNext]_managedVars
  PROVE  LiveStaysPosted
<1> SUFFICES ASSUME NEW m \in Treed, m \notin Redelivered,
                    \A c \in Directives : m \notin directive[c].ids, m \in posted
             PROVE  m \in posted'
  BY DEF LiveStaysPosted
<1>1. \A i \in Deliveries : DiscardRejected(i) => m \in posted'
  <2> SUFFICES ASSUME NEW i \in Deliveries, DiscardRejected(i), m \in turn[i].ids PROVE FALSE
    BY DEF DiscardRejected, Delete, GiveUp
  <2>1. turn[i].at = "rejected"
    BY DEF DiscardRejected, Turn
  <2>2. \/ m = StatusId(i)
        \/ turn[i].parent # NoReply /\ m = PromptId(turn[i].prompt)
    BY <2>1 DEF ManagedInv, RejectedHold
  <2>3. CASE m = StatusId(i)
    BY <2>1, <2>3 DEF ManagedInv, TreesAdmitted
  <2>4. CASE turn[i].parent # NoReply /\ m = PromptId(turn[i].prompt)
    <3>1. turn[i].prompt \in Deliveries
      BY TurnFields DEF ManagedInv, TurnTypes
    <3>2. PICK k \in Deliveries : turn[k].at = "done" /\ turn[k].prompt = turn[i].prompt
      BY <2>4, <3>1 DEF ManagedInv, TreesAdmitted
    <3>3. k # i
      BY <2>1, <3>2
    <3> QED
      BY <2>1, <2>4, <3>2, <3>3 DEF Redelivered
  <2> QED
    BY <2>2, <2>3, <2>4
<1>2. m # NoticeId
  BY MessageKinds DEF ManagedInv, TreesAdmitted
<1>3. \A c \in Directives : DeleteIds(c) \/ DeleteCancelled(c) => m \in posted'
  BY DEF DeleteIds, DeleteCancelled, Delete, GiveUp
<1>4. DiscardNotice => m \in posted'
  BY <1>2 DEF DiscardNotice
<1>5. \A i \in Deliveries : IntakeStep(i) \/ ReceivePrompt(i) => m \in posted'
  BY <1>1 DEF IntakeStep, ReceivePrompt, IgnorePrompt, SendStatus, SendFails, RecordStatus, AdmitTurn
<1>6. \A c \in Directives : HandlerStep(c) => m \in posted'
  BY <1>3 DEF HandlerStep, ClearChat, CommandFails, ClearReplyTo, StopAllTurns, StopReplyTo,
     NothingToClear, SendFeedback, SendFails, RecordFeedback
<1>7. \A c \in Directives, op \in {"clear", "clear_reply", "stop", "stop_reply", "stats"} :
        Order(c, op) => m \in posted'
  BY DEF Order
<1>8. NoticeStep \/ PublishNotice \/ CancelNotice => m \in posted'
  BY <1>4 DEF NoticeStep, SendNotice, SendFails, FinalizeNotice, PublishNotice, CancelNotice
<1>9. UNCHANGED managedVars => m \in posted'
  BY DEF managedVars
<1> QED
  BY <1>5, <1>6, <1>7, <1>8, <1>9 DEF ManagedNext, ManagedProgress

(* The same without fairness: the form the composition uses.               *)
LEMMA ManagedKept ==
  ManagedInit /\ [][ManagedNext]_managedVars => []ManagedTypeOK /\ ManagedSafe
<1>1. ManagedInit => ManagedInv
  BY ManagedInitInv
<1>2. ManagedInv /\ [ManagedNext]_managedVars => ManagedInv'
  BY ManagedNextKeeps
<1>3. ManagedInv => ManagedTypeOK /\ NothingForgotten
  BY ManagedTypes, NoneForgotten
<1>4. ManagedInv /\ [ManagedNext]_managedVars => [LiveStaysPosted]_managedVars
  BY StaysPosted
<1> QED
  BY <1>1, <1>2, <1>3, <1>4, PTL DEF ManagedSafe

(* Every message posted stays reachable by a clear, whatever is lost on    *)
(* the way, and a live prompt is deleted by nobody but a clear of its tree. *)
THEOREM ManagedRight == ManagedSpec => []ManagedTypeOK /\ ManagedSafe
BY ManagedKept, PTL DEF ManagedSpec

------------------------------------------------------------------------------
(* ManagedSessions: what each task of a run and of a stop holds.            *)
(* A run between the creation of its session and its end.                  *)
Live(r) == run[r].at \notin {"new", "ended"}

(* The identity under which a run removes its session.                     *)
LastId(r) == IF run[r].captured # Nobody THEN run[r].captured ELSE run[r].temp

(* A temporary identity and its real one belong together both ways, and a  *)
(* session is found under one identity only.                               *)
Paired ==
  \A i, j \in Ids : /\ tempToReal[i] = j <=> realToTemp[j] = i
                    /\ tempToReal[i] = j /\ i # j => tempToReal[j] = Nobody

Once ==
  /\ \A i \in Ids : realToTemp[i] # Nobody <=> real[i] # Nobody
  /\ \A i, j \in Ids :
       /\ pendingSessions[i] # Nobody => pendingSessions[i] # real[j]
       /\ pendingSessions[i] # Nobody /\ pendingSessions[i] = pendingSessions[j] => i = j
       /\ real[i] # Nobody /\ real[i] = real[j] => i = j

(* Nobody uses the identity yet.                                           *)
Unused(i) == pendingSessions[i] = Nobody /\ tempToReal[i] = Nobody /\ real[i] = Nobody

(* Two runs of the same resumed session never overlap.                     *)
Alone ==
  \A q, r \in Runs : q # r /\ Live(q) /\ Live(r) /\ resumed[q] = resumed[r] => resumed[r] = Fresh

(* A run has a session from its start on, and a session was born in a run. *)
Born ==
  /\ \A s \in Known : run[s].session = s
  /\ \A r \in Runs : run[r].session # Nobody => run[run[r].session].session = run[r].session
  /\ \A r \in Runs : Live(r) => run[r].session # Nobody
  /\ \A r \in Runs : run[r].at = "new" => run[r].session = Nobody /\ Unused(<<"pending", r>>)

(* Until it is registered, the session a run made is found under its       *)
(* temporary identity.                                                     *)
Temporary ==
  \A r \in Runs : Live(r) /\ run[r].temp # Nobody =>
    /\ run[r].temp = TempOf(r) /\ run[r].session = r /\ run[r].captured = Nobody
    /\ pendingSessions[TempOf(r)] \in {Nobody, r}
    /\ tempToReal[TempOf(r)] = Nobody /\ real[TempOf(r)] = Nobody

(* While a run lives, the identity it knows leads to its session.          *)
Resolved ==
  \A r \in Runs : Live(r) =>
    /\ LastId(r) \in Ids
    /\ run[r].session \in Known => SessionForId(LastId(r)) = run[r].session

(* A session is forgotten only after it was closed for good.               *)
NotLost ==
  /\ ending \subseteq Known
  /\ \A r \in Runs : run[r].session # Nobody /\ run[r].session \notin endedSessions
                       => run[r].session \in Known

(* A session whose process runs is known, and a process belongs to the     *)
(* session of the run that started it.                                     *)
ProcessesOwned ==
  /\ \A s \in Runs : process[s] # Nobody =>
       /\ run[process[s]].session = s /\ proc[process[s]] # Nobody
       /\ proc[process[s]] = "running" => s \in Known
  /\ \A r \in Runs : proc[r] = "running" => run[r].session # Nobody /\ process[run[r].session] = r
  /\ \A r \in Runs : proc[r] # Nobody => run[r].at \notin {"new", "got", "launching"}

(* The lock of a session is held by who starts or kills its process: a     *)
(* session that starts one is open and runs none.                          *)
StartsHeld ==
  \A r \in Runs : run[r].at = "launching" =>
    /\ lifecycle[run[r].session] = r /\ run[r].session \notin endedSessions
    /\ process[run[r].session] # Nobody => proc[process[run[r].session]] = "exited"

StopsHeld ==
  \A a \in Actors :
    /\ stopping[a].at # Nobody =>
         /\ stopping[a].session # Nobody
         /\ a \in Runs => run[a].at \in {"interrupted", "removing"}
         /\ a = StopAll => sweep.at = "sweeping"
    /\ stopping[a].at = "killing" =>
         /\ lifecycle[stopping[a].session] = a /\ stopping[a].session \in endedSessions
         /\ process[stopping[a].session] # Nobody

(* A run that removes a session removes its own, or has none left.         *)
Removing ==
  \A r \in Runs : run[r].at = "removing" =>
    stopping[r].session = run[r].session \/ run[r].session \notin Known

Swept ==
  \A s \in sweep.stopped :
    /\ s \in endedSessions
    /\ process[s] # Nobody /\ s \notin faulty => proc[process[s]] = "exited"

Found ==
  /\ Paired /\ Once /\ Alone /\ Born /\ Temporary /\ Resolved

(* Only a run whose session has a temporary identity registers one.        *)
Registering == \A r \in Runs : run[r].at = "registering" => run[r].temp # Nobody

ProcessesKept == Registering /\ NotLost /\ ProcessesOwned /\ StartsHeld /\ StopsHeld /\ Removing /\ Swept

SessionsInv ==
  SessionsTypeOK /\ Found /\ ProcessesKept /\ EveryPidRegistered /\ StopAllIsFinal /\ RunsLeaveNothing

RunPlaces == {"new", "got", "launching", "reading", "registering", "interrupted", "cleanup",
              "removing", "ended"}

RunStates == [at : RunPlaces, session : Runs \union {Nobody}, captured : Ids \union {Nobody},
              temp : Ids \union {Nobody}]

(* What the runs know: nothing of it changes, and nobody is born.          *)
SameRuns ==
  \A q \in Runs : /\ run'[q].session = run[q].session /\ run'[q].captured = run[q].captured
                  /\ run'[q].temp = run[q].temp
                  /\ Live(q)' => Live(q)
                  /\ run'[q].at = "new" => run[q].at = "new"

LEMMA IdsTyped ==
  ASSUME SessionsTypeOK
  PROVE  /\ \A r \in Runs : /\ TempOf(r) \in Ids /\ <<"pending", r>> \in Ids
                            /\ Announced(r) \subseteq Ids
         /\ Nobody \notin Ids /\ Nobody \notin Runs /\ StopAll \notin Runs /\ Nobody # StopAll
<1>1. \A r \in Runs : resumed[r] \in Resumable
  BY DEF SessionsTypeOK, Resumable
<1>2. \A r \in Runs : <<"pending", r>> \in Tokens /\ <<"claude", r>> \in Tokens
  BY DEF Tokens
<1> QED
  BY <1>1, <1>2, SessionsAssumption DEF TempOf, Announced, Ids, Actors

(* Whose identities they are.                                              *)
LEMMA IdsApart ==
  ASSUME SessionsTypeOK
  PROVE  /\ \A q, r \in Runs : TempOf(q) = TempOf(r) /\ q # r =>
              resumed[q] = resumed[r] /\ resumed[r] # Fresh
         /\ \A q, r \in Runs : TempOf(q) = <<"pending", r>> => q = r /\ resumed[r] = Fresh
         /\ \A q, r \in Runs : \A i \in Announced(q) :
              /\ i # <<"pending", r>>
              /\ i = TempOf(r) => resumed[q] = resumed[r] /\ resumed[r] # Fresh
<1>1. \A r \in Runs : resumed[r] \in Resumable
  BY DEF SessionsTypeOK, Resumable
<1>2. \A r \in Runs : <<"pending", r>> \in Tokens /\ <<"claude", r>> \in Tokens
  BY DEF Tokens
<1>3. \A q, r \in Runs : /\ <<"claude", q>> # <<"pending", r>>
                         /\ <<"pending", q>> = <<"pending", r>> => q = r
  OBVIOUS
<1> QED
  BY <1>1, <1>2, <1>3, SessionsAssumption DEF TempOf, Announced

LEMMA RunGoes ==
  ASSUME SessionsTypeOK, NEW r \in Runs, NEW place \in RunPlaces, Go(r, place)
  PROVE  /\ run' \in [Runs -> RunStates] /\ run'[r].at = place
         /\ \A q \in Runs : /\ run'[q].session = run[q].session /\ run'[q].captured = run[q].captured
                            /\ run'[q].temp = run[q].temp
         /\ \A q \in Runs \ {r} : run'[q] = run[q]
BY DEF SessionsTypeOK, Go, RunPlaces, RunStates

LEMMA SessionFound ==
  ASSUME SessionsTypeOK
  PROVE  /\ \A i \in Ids : LookupId(i) \in Ids /\ SessionForId(i) \in Runs \union {Nobody}
         /\ \A i \in Ids : SessionForId(i) # Nobody => SessionForId(i) \in Known
         /\ Known \subseteq Runs
<1>1. \A i \in Ids : LookupId(i) \in Ids
  BY DEF SessionsTypeOK, LookupId
<1>2. /\ pendingSessions \in [Ids -> Runs \union {Nobody}] /\ real \in [Ids -> Runs \union {Nobody}]
  BY DEF SessionsTypeOK
<1> QED
  BY <1>1, <1>2 DEF SessionForId, Known

(* Steps that leave the identities alone.                                  *)
LEMMA RunsMove ==
  ASSUME SessionsTypeOK, Found, UNCHANGED <<resumed, identities>>, SameRuns
  PROVE  Found' /\ Known' = Known
<1>1. UNCHANGED <<resumed, pendingSessions, real, tempToReal, realToTemp>>
  BY DEF identities
<1>2. Known' = Known /\ \A i : SessionForId(i)' = SessionForId(i)
  BY <1>1 DEF Known, SessionForId, LookupId
<1>3. Paired' /\ Once'
  BY <1>1 DEF Found, Paired, Once
<1>4. Alone'
  BY <1>1 DEF Found, Alone, SameRuns
<1>5. Born'
  BY <1>1, <1>2, SessionFound DEF Found, Born, SameRuns, Unused, SessionsTypeOK
<1>6. Temporary'
  BY <1>1 DEF Found, Temporary, SameRuns, TempOf
<1>7. \A r \in Runs : LastId(r)' = LastId(r)
  BY DEF SameRuns, LastId
<1>8. Resolved'
  BY <1>2, <1>7 DEF Found, Resolved, SameRuns
<1> QED
  BY <1>2, <1>3, <1>4, <1>5, <1>6, <1>8 DEF Found

(* A session is forgotten under all its names, and no other loses one.     *)
LEMMA ForgetKeepsFound ==
  ASSUME SessionsTypeOK, Found, NEW s \in Runs, Forget(s), resumed' = resumed, SameRuns
  PROVE  Found' /\ Known' = Known \ {s}
<1>1. /\ pendingSessions \in [Ids -> Runs \union {Nobody}] /\ real \in [Ids -> Runs \union {Nobody}]
      /\ tempToReal \in [Ids -> Ids \union {Nobody}] /\ realToTemp \in [Ids -> Ids \union {Nobody}]
      /\ Nobody \notin Ids /\ Nobody \notin Runs
  BY IdsTyped DEF SessionsTypeOK
<1>2. /\ pendingSessions' = [i \in Ids |-> IF pendingSessions[i] = s THEN Nobody ELSE pendingSessions[i]]
      /\ real' = [i \in Ids |-> IF real[i] = s THEN Nobody ELSE real[i]]
      /\ realToTemp' = [i \in Ids |-> IF real[i] = s THEN Nobody ELSE realToTemp[i]]
  BY DEF Forget
<1>3. \A i \in Ids : i \in Aliases({j \in Ids : real[j] = s})
                       <=> tempToReal[i] # Nobody /\ real[tempToReal[i]] = s
  BY <1>1 DEF Aliases, Found, Paired, Once
<1>4. \A i \in Ids : tempToReal'[i] = IF tempToReal[i] # Nobody /\ real[tempToReal[i]] = s
                                      THEN Nobody ELSE tempToReal[i]
  BY <1>3 DEF Forget
<1>5. Known' = Known \ {s}
  BY <1>1, <1>2 DEF Known
<1>6. Paired'
  BY <1>1, <1>2, <1>4 DEF Found, Paired
<1>7. Once'
  BY <1>1, <1>2 DEF Found, Once
<1>8. \A i \in Ids : Unused(i) => Unused(i)'
  BY <1>2, <1>4 DEF Unused
<1>9. \A i \in Ids : SessionForId(i) \notin {s, Nobody} => SessionForId(i)' = SessionForId(i)
  BY <1>1, <1>2, <1>4 DEF SessionForId, LookupId, Found, Paired, Once
<1>10. Alone'
  BY DEF Found, Alone, SameRuns
<1>11. Born'
  <2>1. \A r \in Runs : run'[r].at = "new" => Unused(<<"pending", r>>)'
    BY <1>8, IdsTyped DEF Found, Born, SameRuns
  <2> QED
    BY <1>5, <2>1, SessionFound DEF Found, Born, SameRuns, SessionsTypeOK
<1>12. Temporary'
  BY <1>1, <1>2, <1>4, IdsTyped DEF Found, Temporary, SameRuns, TempOf
<1>13. \A r \in Runs : LastId(r)' = LastId(r)
  BY DEF SameRuns, LastId
<1>14. Resolved'
  <2> SUFFICES ASSUME NEW r \in Runs, Live(r)'
               PROVE  /\ LastId(r)' \in Ids
                      /\ run'[r].session \in Known' => SessionForId(LastId(r))' = run'[r].session
    BY DEF Resolved
  <2>1. Live(r) /\ run'[r].session = run[r].session
    BY DEF SameRuns
  <2>2. LastId(r) \in Ids /\ (run[r].session \in Known => SessionForId(LastId(r)) = run[r].session)
    BY <2>1 DEF Found, Resolved
  <2>3. Nobody \notin Known
    BY DEF Known
  <2>4. SessionForId(LastId(r))' = IF tempToReal'[LastId(r)] # Nobody
             THEN (IF real'[tempToReal'[LastId(r)]] # Nobody THEN real'[tempToReal'[LastId(r)]]
                   ELSE pendingSessions'[tempToReal'[LastId(r)]])
             ELSE (IF real'[LastId(r)] # Nobody THEN real'[LastId(r)] ELSE pendingSessions'[LastId(r)])
    BY <1>13 DEF SessionForId, LookupId
  <2> QED
    BY <1>5, <1>9, <1>13, <2>1, <2>2, <2>3, <2>4
<1> QED
  BY <1>5, <1>6, <1>7, <1>10, <1>11, <1>12, <1>14 DEF Found

(* A session that is made is found under the identity it is made for.      *)
LEMMA CreateKeepsFound ==
  ASSUME SessionsTypeOK, Found, NEW r \in Runs, GetOrCreate(r), resumed' = resumed
  PROVE  /\ Found' /\ Known \subseteq Known' /\ Known' \subseteq Known \union {r}
         /\ \/ run'[r].session \in Known' /\ run'[r].at = "got"
            \/ run'[r].session = Nobody /\ run'[r].at = "ended"
         /\ run[r].at = "new" /\ run'[r].at \in {"got", "ended"}
         /\ \A q \in Runs \ {r} : run'[q] = run[q]
         /\ run' \in [Runs -> RunStates] /\ pendingSessions' \in [Ids -> Runs \union {Nobody}]
<1> DEFINE found == IF resumed[r] = Fresh THEN Nobody ELSE SessionForId(resumed[r])
<1>1. /\ run[r].at = "new" /\ UNCHANGED <<real, tempToReal, realToTemp, resumed>>
      /\ \A q \in Runs \ {r} : resumed[q] = resumed[r] /\ resumed[r] # Fresh
                                 => run[q].at \in {"new", "ended"}
  BY DEF GetOrCreate
<1>2. \/ /\ found = Nobody
         /\ pendingSessions' = [pendingSessions EXCEPT ![TempOf(r)] = r]
         /\ run' = [run EXCEPT ![r] = [at |-> "got", session |-> r, captured |-> Nobody,
                                       temp |-> TempOf(r)]]
      \/ /\ found # Nobody
         /\ run' = [run EXCEPT ![r] = [at |-> "got", session |-> found,
                                       captured |-> LookupId(resumed[r]), temp |-> Nobody]]
         /\ UNCHANGED pendingSessions
      \/ Go(r, "ended") /\ UNCHANGED pendingSessions
  BY DEF GetOrCreate
<1>3. /\ pendingSessions \in [Ids -> Runs \union {Nobody}] /\ real \in [Ids -> Runs \union {Nobody}]
      /\ tempToReal \in [Ids -> Ids \union {Nobody}] /\ realToTemp \in [Ids -> Ids \union {Nobody}]
      /\ TempOf(r) \in Ids /\ Nobody \notin Ids /\ Nobody \notin Runs
      /\ resumed[r] # Fresh => resumed[r] = TempOf(r) /\ resumed[r] \in Ids
      /\ resumed[r] = Fresh => TempOf(r) = <<"pending", r>>
      /\ run \in [Runs -> RunStates]
  BY IdsTyped DEF SessionsTypeOK, TempOf, RunStates, RunPlaces
<1>4. run[r].session = Nobody /\ r \notin Known
  BY <1>1, <1>3 DEF Found, Born
<1>5. Alone'
  <2>1. \A q \in Runs \ {r} : run'[q] = run[q]
    BY <1>2, <1>3 DEF Go
  <2>2. \A q \in Runs \ {r} : Live(q)' => Live(q)
    BY <2>1 DEF Live
  <2>3. \A q \in Runs \ {r} : Live(q) /\ resumed[q] = resumed[r] => resumed[r] = Fresh
    BY <1>1 DEF Live
  <2> QED
    BY <1>1, <2>2, <2>3 DEF Alone, Found
<1>6. Paired'
  BY <1>1 DEF Found, Paired
<1>7. CASE /\ found = Nobody
           /\ pendingSessions' = [pendingSessions EXCEPT ![TempOf(r)] = r]
           /\ run' = [run EXCEPT ![r] = [at |-> "got", session |-> r, captured |-> Nobody,
                                         temp |-> TempOf(r)]]
  <2>1. Unused(TempOf(r))
    <3>1. CASE resumed[r] = Fresh
      BY <1>1, <1>3, <3>1 DEF Found, Born
    <3>2. CASE resumed[r] # Fresh
      BY <1>3, <1>7, <3>2 DEF SessionForId, LookupId, Unused, Found, Paired, Once
    <3> QED
      BY <3>1, <3>2
  <2>2. Known' = Known \union {r}
    BY <1>1, <1>3, <1>7, <2>1 DEF Known, Unused
  <2>3. /\ run'[r] = [at |-> "got", session |-> r, captured |-> Nobody, temp |-> TempOf(r)]
        /\ \A q \in Runs \ {r} : run'[q] = run[q]
        /\ run' \in [Runs -> RunStates] /\ pendingSessions' \in [Ids -> Runs \union {Nobody}]
    BY <1>3, <1>7 DEF RunStates, RunPlaces
  <2>4. Once'
    BY <1>1, <1>3, <1>4, <1>7, <2>1 DEF Found, Once, Unused, Known
  <2>5. \A i \in Ids : SessionForId(i) # Nobody => SessionForId(i)' = SessionForId(i)
    BY <1>1, <1>3, <1>7, <2>1 DEF SessionForId, LookupId, Unused, Found, Paired, Once
  <2>6. SessionForId(TempOf(r))' = r
    BY <1>1, <1>3, <1>7, <2>1 DEF SessionForId, LookupId, Unused, TempOf
  <2>7. Born'
    <3>1. ASSUME NEW q \in Runs, run'[q].at = "new"
          PROVE  run'[q].session = Nobody /\ Unused(<<"pending", q>>)'
      <4>1. q # r /\ run'[q] = run[q]
        BY <2>3, <3>1
      <4>2. TempOf(r) # <<"pending", q>>
        BY <4>1, IdsApart
      <4>3. run[q].session = Nobody /\ Unused(<<"pending", q>>)
        BY <3>1, <4>1 DEF Found, Born
      <4> QED
        BY <1>1, <1>3, <1>7, <4>1, <4>2, <4>3, IdsTyped DEF Unused
    <3>2. \A s \in Known' : run'[s].session = s
      BY <1>4, <2>2, <2>3, SessionFound DEF Found, Born
    <3>3. \A q \in Runs : Live(q)' => run'[q].session # Nobody
      BY <1>3, <2>3 DEF Found, Born, Live
    <3>4. \A q \in Runs : run'[q].session # Nobody => run'[run'[q].session].session = run'[q].session
      BY <1>3, <1>4, <2>3 DEF Found, Born, RunStates
    <3> QED
      BY <3>1, <3>2, <3>3, <3>4 DEF Born
  <2>8. Temporary'
    <3> SUFFICES ASSUME NEW q \in Runs, Live(q)', run'[q].temp # Nobody
                 PROVE  /\ run'[q].temp = TempOf(q) /\ run'[q].session = q
                        /\ run'[q].captured = Nobody
                        /\ pendingSessions'[TempOf(q)] \in {Nobody, q}
                        /\ tempToReal'[TempOf(q)] = Nobody /\ real'[TempOf(q)] = Nobody
      BY <1>1 DEF Temporary, TempOf
    <3>1. CASE q = r
      BY <1>1, <1>3, <1>7, <2>1, <2>3, <3>1 DEF Unused
    <3>2. CASE q # r
      <4>1. run'[q] = run[q] /\ Live(q)
        BY <2>3, <3>2 DEF Live
      <4>2. TempOf(q) # TempOf(r)
        BY <1>1, <3>2, <4>1, IdsApart DEF Live
      <4> QED
        BY <1>1, <1>3, <1>7, <4>1, <4>2, IdsTyped DEF Found, Temporary
    <3> QED
      BY <3>1, <3>2
  <2>9. LastId(r)' = TempOf(r) /\ \A q \in Runs \ {r} : LastId(q)' = LastId(q)
    BY <2>3 DEF LastId
  <2>10. ASSUME NEW q \in Runs, Live(q)'
         PROVE  /\ LastId(q)' \in Ids
                /\ run'[q].session \in Known' => SessionForId(LastId(q))' = run'[q].session
    <3>1. CASE q = r
      <4>1. run'[q].session = r /\ LastId(q)' = TempOf(r)
        BY <2>3, <2>9, <3>1
      <4>2. TempOf(r)' = TempOf(r)
        BY <1>1 DEF TempOf
      <4> QED
        BY <1>3, <2>6, <4>1, <4>2
    <3>2. CASE q # r
      <4>1. run'[q] = run[q] /\ Live(q) /\ LastId(q)' = LastId(q)
        BY <2>3, <2>9, <2>10, <3>2 DEF Live
      <4>2. LastId(q) \in Ids /\ (run[q].session \in Known => SessionForId(LastId(q)) = run[q].session)
        BY <4>1 DEF Found, Resolved
      <4>3. run[q].session # r
        BY <1>3, <1>4 DEF Found, Born
      <4>4. Nobody \notin Known
        BY DEF Known
      <4> QED
        BY <2>2, <2>5, <4>1, <4>2, <4>3, <4>4
    <3> QED
      BY <3>1, <3>2
  <2>11. Resolved'
    BY <2>10 DEF Resolved
  <2> QED
    BY <1>1, <1>5, <1>6, <2>2, <2>3, <2>4, <2>7, <2>8, <2>11 DEF Found
<1>8. CASE /\ found # Nobody
           /\ run' = [run EXCEPT ![r] = [at |-> "got", session |-> found,
                                         captured |-> LookupId(resumed[r]), temp |-> Nobody]]
           /\ UNCHANGED pendingSessions
  <2>1. /\ resumed[r] # Fresh /\ resumed[r] \in Ids /\ found = SessionForId(resumed[r])
        /\ LookupId(resumed[r]) \in Ids /\ found \in Known /\ found \in Runs
    BY <1>3, <1>8, SessionFound
  <2>2. SessionForId(LookupId(resumed[r])) = found
    BY <1>3, <2>1 DEF SessionForId, LookupId, Found, Paired
  <2> HIDE DEF found
  <2>3. /\ run'[r] = [at |-> "got", session |-> found, captured |-> LookupId(resumed[r]),
                      temp |-> Nobody]
        /\ \A q \in Runs \ {r} : run'[q] = run[q]
        /\ run' \in [Runs -> RunStates]
    BY <1>3, <1>8, <2>1 DEF RunStates, RunPlaces
  <2>4. Known' = Known /\ \A i : SessionForId(i)' = SessionForId(i)
    BY <1>1, <1>8 DEF Known, SessionForId, LookupId
  <2>5. Once'
    BY <1>1, <1>8 DEF Found, Once
  <2>6. Born'
    <3>1. \A q \in Runs : run'[q].at = "new" => run'[q].session = Nobody /\ Unused(<<"pending", q>>)'
      BY <1>1, <1>8, <2>3 DEF Found, Born, Unused
    <3>2. \A s \in Known' : run'[s].session = s
      BY <1>4, <2>3, <2>4, SessionFound DEF Found, Born
    <3>3. \A q \in Runs : Live(q)' => run'[q].session # Nobody
      BY <1>3, <2>1, <2>3 DEF Found, Born, Live
    <3>4. \A q \in Runs : run'[q].session # Nobody => run'[run'[q].session].session = run'[q].session
      BY <1>3, <1>4, <2>1, <2>3 DEF Found, Born, RunStates
    <3> QED
      BY <3>1, <3>2, <3>3, <3>4 DEF Born
  <2>7. Temporary'
    BY <1>1, <1>8, <2>3 DEF Found, Temporary, TempOf, Live
  <2>8. LastId(r)' = LookupId(resumed[r]) /\ \A q \in Runs \ {r} : LastId(q)' = LastId(q)
    BY <1>3, <2>1, <2>3 DEF LastId
  <2>9. ASSUME NEW q \in Runs, Live(q)'
        PROVE  /\ LastId(q)' \in Ids
               /\ run'[q].session \in Known' => SessionForId(LastId(q))' = run'[q].session
    <3>1. CASE q = r
      BY <2>1, <2>2, <2>3, <2>4, <2>8, <3>1
    <3>2. CASE q # r
      <4>1. run'[q] = run[q] /\ Live(q) /\ LastId(q)' = LastId(q)
        BY <2>3, <2>8, <2>9, <3>2 DEF Live
      <4>2. LastId(q) \in Ids /\ (run[q].session \in Known => SessionForId(LastId(q)) = run[q].session)
        BY <4>1 DEF Found, Resolved
      <4> QED
        BY <2>4, <4>1, <4>2
    <3> QED
      BY <3>1, <3>2
  <2>10. Resolved'
    BY <2>9 DEF Resolved
  <2> QED
    BY <1>1, <1>3, <1>5, <1>6, <1>8, <2>1, <2>3, <2>4, <2>5, <2>6, <2>7, <2>10 DEF Found
<1>9. CASE Go(r, "ended") /\ UNCHANGED pendingSessions
  <2>1. /\ run' \in [Runs -> RunStates] /\ run'[r].at = "ended"
        /\ \A q \in Runs : /\ run'[q].session = run[q].session /\ run'[q].captured = run[q].captured
                           /\ run'[q].temp = run[q].temp
        /\ \A q \in Runs \ {r} : run'[q] = run[q]
    BY <1>9, RunGoes DEF RunPlaces
  <2>2. SameRuns
    BY <2>1 DEF SameRuns, Live
  <2>3. UNCHANGED <<resumed, identities>>
    BY <1>1, <1>9 DEF identities
  <2> QED
    BY <1>1, <1>3, <1>4, <1>9, <2>1, <2>2, <2>3, RunsMove
<1> QED
  BY <1>2, <1>7, <1>8, <1>9

(* A session gets its real identity: it is found under it from then on.    *)
LEMMA RegisterKeepsFound ==
  ASSUME SessionsTypeOK, Found, NEW r \in Runs, Register(r), resumed' = resumed,
         run[r].temp # Nobody
  PROVE  /\ Found' /\ Known' = Known /\ run' \in [Runs -> RunStates]
         /\ run[r].at = "registering" /\ run'[r].at \in {"reading", "cleanup"}
         /\ run'[r].session = run[r].session /\ \A q \in Runs \ {r} : run'[q] = run[q]
         /\ pendingSessions' \in [Ids -> Runs \union {Nobody}]
         /\ real' \in [Ids -> Runs \union {Nobody}]
         /\ tempToReal' \in [Ids -> Ids \union {Nobody}] /\ realToTemp' \in [Ids -> Ids \union {Nobody}]
<1> DEFINE temp == run[r].temp
<1>1. run[r].at = "registering" /\ UNCHANGED resumed
  BY DEF Register
<1>2. PICK i \in Announced(r) :
        IF pendingSessions[temp] # Nobody /\ MayRegister(pendingSessions[temp], i)
        THEN /\ pendingSessions' = [pendingSessions EXCEPT ![temp] = Nobody]
             /\ real' = [real EXCEPT ![i] = pendingSessions[temp]]
             /\ tempToReal' = [tempToReal EXCEPT ![temp] = i]
             /\ realToTemp' = [realToTemp EXCEPT ![i] = temp]
             /\ run' = [run EXCEPT ![r] = [at |-> "reading", session |-> run[r].session,
                                           captured |-> i, temp |-> Nobody]]
        ELSE Go(r, "cleanup") /\ UNCHANGED <<pendingSessions, real, tempToReal, realToTemp>>
  BY DEF Register
<1>3. /\ pendingSessions \in [Ids -> Runs \union {Nobody}] /\ real \in [Ids -> Runs \union {Nobody}]
      /\ tempToReal \in [Ids -> Ids \union {Nobody}] /\ realToTemp \in [Ids -> Ids \union {Nobody}]
      /\ TempOf(r) \in Ids /\ Nobody \notin Ids /\ Nobody \notin Runs /\ i \in Ids
      /\ run \in [Runs -> RunStates]
  BY IdsTyped DEF SessionsTypeOK, RunStates, RunPlaces
<1>4. CASE Go(r, "cleanup") /\ UNCHANGED <<pendingSessions, real, tempToReal, realToTemp>>
  <2>1. /\ run' \in [Runs -> RunStates] /\ run'[r].at = "cleanup"
        /\ \A q \in Runs : /\ run'[q].session = run[q].session /\ run'[q].captured = run[q].captured
                           /\ run'[q].temp = run[q].temp
        /\ \A q \in Runs \ {r} : run'[q] = run[q]
    BY <1>4, RunGoes DEF RunPlaces
  <2>2. SameRuns
    BY <1>1, <2>1 DEF SameRuns, Live
  <2>3. UNCHANGED <<resumed, identities>>
    BY <1>1, <1>4 DEF identities
  <2> QED
    BY <1>1, <1>3, <1>4, <2>1, <2>2, <2>3, RunsMove
<1>5. CASE /\ pendingSessions[temp] # Nobody /\ MayRegister(pendingSessions[temp], i)
           /\ pendingSessions' = [pendingSessions EXCEPT ![temp] = Nobody]
           /\ real' = [real EXCEPT ![i] = pendingSessions[temp]]
           /\ tempToReal' = [tempToReal EXCEPT ![temp] = i]
           /\ realToTemp' = [realToTemp EXCEPT ![i] = temp]
           /\ run' = [run EXCEPT ![r] = [at |-> "reading", session |-> run[r].session,
                                         captured |-> i, temp |-> Nobody]]
  <2>1. /\ temp = TempOf(r) /\ run[r].session = r /\ pendingSessions[temp] = r
        /\ tempToReal[temp] = Nobody /\ real[temp] = Nobody /\ temp \in Ids
    BY <1>1, <1>3, <1>5 DEF Found, Temporary, Live
  <2>2. SessionForId(i) \in {Nobody, r}
    BY <1>5, <2>1 DEF MayRegister
  <2>3. tempToReal[i] = Nobody /\ real[i] = Nobody /\ (i = temp \/ pendingSessions[i] = Nobody)
    BY <1>3, <2>1, <2>2 DEF SessionForId, LookupId, Found, Paired, Once
  <2> HIDE DEF temp
  <2>4. /\ run'[r] = [at |-> "reading", session |-> run[r].session, captured |-> i, temp |-> Nobody]
        /\ \A q \in Runs \ {r} : run'[q] = run[q]
        /\ run' \in [Runs -> RunStates]
    BY <1>3, <1>5 DEF RunStates, RunPlaces
  <2>5. /\ pendingSessions' = [pendingSessions EXCEPT ![temp] = Nobody]
        /\ real' = [real EXCEPT ![i] = r] /\ tempToReal' = [tempToReal EXCEPT ![temp] = i]
        /\ realToTemp' = [realToTemp EXCEPT ![i] = temp]
    BY <1>5, <2>1
  <2>6. /\ pendingSessions' \in [Ids -> Runs \union {Nobody}]
        /\ real' \in [Ids -> Runs \union {Nobody}]
        /\ tempToReal' \in [Ids -> Ids \union {Nobody}]
        /\ realToTemp' \in [Ids -> Ids \union {Nobody}]
    BY <1>3, <2>1, <2>5
  <2>7. Known' = Known
    BY <1>3, <2>1, <2>3, <2>5 DEF Known
  <2>8. Paired'
    BY <1>3, <2>1, <2>3, <2>5 DEF Found, Paired, Once
  <2>9. Once'
    BY <1>3, <2>1, <2>3, <2>5 DEF Found, Once
  <2>10. \A j \in Ids : SessionForId(j) # Nobody => SessionForId(j)' = SessionForId(j)
    BY <1>3, <2>1, <2>3, <2>5 DEF SessionForId, LookupId, Found, Paired, Once
  <2>11. SessionForId(i)' = r
    BY <1>3, <2>1, <2>3, <2>5 DEF SessionForId, LookupId
  <2>12. Alone'
    BY <1>1, <2>4 DEF Found, Alone, Live
  <2>13. Born'
    <3>1. ASSUME NEW q \in Runs, run'[q].at = "new"
          PROVE  run'[q].session = Nobody /\ Unused(<<"pending", q>>)'
      <4>1. q # r /\ run'[q] = run[q]
        BY <2>4, <3>1
      <4>2. TempOf(r) # <<"pending", q>> /\ i # <<"pending", q>>
        BY <4>1, IdsApart
      <4>3. run[q].session = Nobody /\ Unused(<<"pending", q>>)
        BY <3>1, <4>1 DEF Found, Born
      <4> QED
        BY <1>3, <2>1, <2>5, <4>1, <4>2, <4>3, IdsTyped DEF Unused
    <3>2. \A q \in Runs : run'[q].session = run[q].session /\ (Live(q)' => Live(q))
      BY <1>1, <2>4 DEF Live
    <3> QED
      BY <2>7, <3>1, <3>2, <1>3, SessionFound DEF Found, Born, RunStates
  <2>14. Temporary'
    <3> SUFFICES ASSUME NEW q \in Runs, Live(q)', run'[q].temp # Nobody
                 PROVE  /\ run'[q].temp = TempOf(q) /\ run'[q].session = q
                        /\ run'[q].captured = Nobody
                        /\ pendingSessions'[TempOf(q)] \in {Nobody, q}
                        /\ tempToReal'[TempOf(q)] = Nobody /\ real'[TempOf(q)] = Nobody
      BY <1>1 DEF Temporary, TempOf
    <3>1. q # r /\ run'[q] = run[q] /\ Live(q) /\ Live(r)
      BY <1>1, <2>4 DEF Live
    <3>2. TempOf(q) # TempOf(r) /\ i # TempOf(q)
      BY <3>1, IdsApart DEF Found, Alone
    <3> QED
      BY <1>3, <2>1, <2>5, <3>1, <3>2, IdsTyped DEF Found, Temporary
  <2>15. LastId(r)' = i /\ \A q \in Runs \ {r} : LastId(q)' = LastId(q)
    BY <1>3, <2>4 DEF LastId
  <2>16. ASSUME NEW q \in Runs, Live(q)'
         PROVE  /\ LastId(q)' \in Ids
                /\ run'[q].session \in Known' => SessionForId(LastId(q))' = run'[q].session
    <3>1. CASE q = r
      BY <1>3, <2>1, <2>4, <2>11, <2>15, <3>1
    <3>2. CASE q # r
      <4>1. run'[q] = run[q] /\ Live(q) /\ LastId(q)' = LastId(q)
        BY <2>4, <2>15, <2>16, <3>2 DEF Live
      <4>2. LastId(q) \in Ids /\ (run[q].session \in Known => SessionForId(LastId(q)) = run[q].session)
        BY <4>1 DEF Found, Resolved
      <4>3. Nobody \notin Known
        BY DEF Known
      <4> QED
        BY <2>7, <2>10, <4>1, <4>2, <4>3
    <3> QED
      BY <3>1, <3>2
  <2>17. Resolved'
    BY <2>16 DEF Resolved
  <2> QED
    BY <1>1, <2>4, <2>6, <2>7, <2>8, <2>9, <2>12, <2>13, <2>14, <2>17 DEF Found
<1> QED
  BY <1>2, <1>4, <1>5

(* Steps that start, end and forget nothing.                               *)
LEMMA ProcessesStay ==
  ASSUME SessionsInv, UNCHANGED <<process, proc, endedSessions, faulty>>, Known' = Known,
         Known \intersect ending' \subseteq ending' , ending \subseteq ending', ending' \subseteq Known,
         \A q \in Runs : /\ run'[q].session = run[q].session
                         /\ run'[q].at \in {"new", "got", "launching"}
                              => run[q].at \in {"new", "got", "launching"}
  PROVE  NotLost' /\ ProcessesOwned'
<1>1. NotLost'
  BY DEF SessionsInv, ProcessesKept, NotLost
<1>2. ProcessesOwned'
  BY DEF SessionsInv, ProcessesKept, ProcessesOwned, SessionsTypeOK
<1> QED
  BY <1>1, <1>2

LEMMA NothingStops ==
  ASSUME SessionsInv, UNCHANGED <<process, proc, endedSessions, faulty, sweep>>
  PROVE  Swept' /\ StopAllIsFinal'
BY DEF SessionsInv, ProcessesKept, Swept, StopAllIsFinal

(* The sessions of the runs that ended stay as they were left.             *)
LEMMA EndedStay ==
  ASSUME SessionsInv, faulty \subseteq faulty', abandoned \subseteq abandoned', Known' \subseteq Known,
         \A q \in Runs : proc'[q] = "running" => proc[q] = "running",
         \A q \in Runs : run'[q].session = run[q].session
  PROVE  \A q \in Runs : run[q].at = "ended" /\ q \notin abandoned' /\ faulty' = {} =>
           proc'[q] # "running" /\ (q \in Known' => run'[q].session # q)
BY DEF SessionsInv, RunsLeaveNothing

LEMMA LaunchKeeps ==
  ASSUME SessionsInv, NEW r \in Runs, Launch(r), resumed' = resumed
  PROVE  SessionsInv'
<1>1. /\ run[r].at = "got" /\ CliLockFree(run[r].session) /\ lifecycle[run[r].session] = Nobody
      /\ UNCHANGED <<resumed, manager, identities, ending, endedSessions, process, proc, pids,
                     stopping, sweep, runCancels, faulty, abandoned>>
  BY DEF Launch
<1>2. PICK place \in {"cleanup", "launching"} :
        /\ Go(r, place)
        /\ place = "cleanup" => lifecycle' = lifecycle
        /\ place = "launching" => /\ run[r].session \notin endedSessions
                                  /\ lifecycle' = [lifecycle EXCEPT ![run[r].session] = r]
  BY DEF Launch
<1>3. /\ run' \in [Runs -> RunStates] /\ run'[r].at = place
      /\ \A q \in Runs : /\ run'[q].session = run[q].session /\ run'[q].captured = run[q].captured
                         /\ run'[q].temp = run[q].temp
      /\ \A q \in Runs \ {r} : run'[q] = run[q]
  BY <1>2, RunGoes DEF RunPlaces, SessionsInv
<1>4. SameRuns
  BY <1>1, <1>2, <1>3 DEF SameRuns, Live
<1>5. Found' /\ Known' = Known
  BY <1>1, <1>4, RunsMove DEF SessionsInv
<1>6. SessionsTypeOK'
  BY <1>1, <1>2, <1>3 DEF SessionsInv, SessionsTypeOK, RunStates, RunPlaces, Actors, identities
<1>7. NotLost' /\ ProcessesOwned' /\ Swept' /\ StopAllIsFinal'
  BY <1>1, <1>2, <1>3, <1>5, ProcessesStay, NothingStops DEF SessionsInv, ProcessesKept, NotLost
<1>8. StartsHeld'
  <2>1. /\ lifecycle \in [Runs -> Actors \union {Nobody}] /\ Nobody \notin Runs
        /\ run[r].session \in Runs
    BY <1>1, IdsTyped DEF SessionsInv, SessionsTypeOK, Found, Born, Live
  <2>2. process[run[r].session] # Nobody => proc[process[run[r].session]] = "exited"
    BY <1>1 DEF CliLockFree
  <2> SUFFICES ASSUME NEW q \in Runs, run'[q].at = "launching"
               PROVE  /\ lifecycle'[run'[q].session] = q /\ run'[q].session \notin endedSessions'
                      /\ process'[run'[q].session] # Nobody =>
                            proc'[process'[run'[q].session]] = "exited"
    BY DEF StartsHeld
  <2>3. CASE q = r
    BY <1>1, <1>2, <1>3, <2>1, <2>2, <2>3
  <2>4. CASE q # r
    <3>1. run'[q] = run[q] /\ run[q].at = "launching"
      BY <1>3, <2>4
    <3>2. /\ lifecycle[run[q].session] = q /\ run[q].session \notin endedSessions
          /\ process[run[q].session] # Nobody => proc[process[run[q].session]] = "exited"
      BY <3>1 DEF SessionsInv, ProcessesKept, StartsHeld
    <3>3. run[q].session # run[r].session /\ run[q].session \in Runs
      BY <1>1, <2>1, <3>1, <3>2 DEF SessionsInv, SessionsTypeOK, Found, Born, Live
    <3>4. lifecycle'[run[q].session] = q
      BY <1>2, <2>1, <3>2, <3>3
    <3> QED
      BY <1>1, <3>1, <3>2, <3>4
  <2> QED
    BY <2>3, <2>4
<1>9. StopsHeld'
  BY <1>1, <1>2, <1>3, IdsTyped DEF SessionsInv, ProcessesKept, StopsHeld, SessionsTypeOK, Actors
<1>10. Removing' /\ Registering'
  BY <1>1, <1>2, <1>3, <1>5 DEF SessionsInv, ProcessesKept, Removing, Registering
<1>11. EveryPidRegistered' /\ RunsLeaveNothing'
  BY <1>1, <1>2, <1>3, <1>5, EndedStay DEF SessionsInv, EveryPidRegistered, RunsLeaveNothing
<1> QED
  BY <1>5, <1>6, <1>7, <1>8, <1>9, <1>10, <1>11 DEF SessionsInv, ProcessesKept

LEMMA LaunchedKeeps ==
  ASSUME SessionsInv, NEW r \in Runs, Launched(r), resumed' = resumed
  PROVE  SessionsInv'
<1> DEFINE s == run[r].session
<1>1. /\ run[r].at = "launching" /\ lifecycle' = [lifecycle EXCEPT ![s] = Nobody]
      /\ UNCHANGED <<resumed, manager, identities, ending, endedSessions, stopping, sweep,
                     runCancels, faulty, abandoned>>
  BY DEF Launched
<1>2. PICK place \in {"cleanup", "reading"} :
        /\ Go(r, place)
        /\ place = "cleanup" => UNCHANGED <<process, proc, pids>>
        /\ place = "reading" => /\ process' = [process EXCEPT ![s] = r]
                                /\ proc' = [proc EXCEPT ![r] = "running"]
                                /\ pids' = pids \union {r}
  BY DEF Launched
<1>3. /\ run' \in [Runs -> RunStates] /\ run'[r].at = place
      /\ \A q \in Runs : /\ run'[q].session = run[q].session /\ run'[q].captured = run[q].captured
                         /\ run'[q].temp = run[q].temp
      /\ \A q \in Runs \ {r} : run'[q] = run[q]
  BY <1>2, RunGoes DEF RunPlaces, SessionsInv
<1>4. SameRuns
  BY <1>1, <1>2, <1>3 DEF SameRuns, Live
<1>5. Found' /\ Known' = Known
  BY <1>1, <1>4, RunsMove DEF SessionsInv
<1>6. /\ lifecycle \in [Runs -> Actors \union {Nobody}] /\ Nobody \notin Runs /\ s \in Runs
      /\ process \in [Runs -> Runs \union {Nobody}] /\ proc \in [Runs -> {Nobody, "running", "exited"}]
      /\ StopAll \notin Runs /\ Nobody # "running" /\ pids \subseteq Runs
  BY <1>1, IdsTyped, SessionsAssumption DEF SessionsInv, SessionsTypeOK, Found, Born, Live
<1>7. /\ lifecycle[s] = r /\ s \notin endedSessions /\ s \in Known
      /\ process[s] # Nobody => proc[process[s]] = "exited"
      /\ proc[r] = Nobody /\ \A t \in Runs : process[t] # r
  BY <1>1, <1>6 DEF SessionsInv, ProcessesKept, StartsHeld, NotLost, CliLockFree, ProcessesOwned
<1> HIDE DEF s
<1>8. SessionsTypeOK'
  <2>1. lifecycle' \in [Runs -> Actors \union {Nobody}]
    BY <1>1, <1>6
  <2>2. process' \in [Runs -> Runs \union {Nobody}] /\ pids' \subseteq Runs
    BY <1>2, <1>6
  <2>3. proc' \in [Runs -> {Nobody, "running", "exited"}]
    BY <1>2, <1>6
  <2> QED
    BY <1>1, <1>3, <2>1, <2>2, <2>3
    DEF SessionsInv, SessionsTypeOK, RunStates, RunPlaces, identities
<1>9. \/ UNCHANGED <<process, proc, pids>> /\ run'[r].at = "cleanup"
      \/ /\ process'[s] = r /\ \A t \in Runs \ {s} : process'[t] = process[t]
         /\ proc'[r] = "running" /\ \A q \in Runs \ {r} : proc'[q] = proc[q]
         /\ pids' = pids \union {r} /\ run'[r].at = "reading"
  BY <1>2, <1>3, <1>6
<1>10. NotLost' /\ Registering'
  BY <1>1, <1>2, <1>3, <1>5 DEF SessionsInv, ProcessesKept, NotLost, Registering
<1>11. ProcessesOwned'
  <2>1. \A t \in Runs : process'[t] # Nobody =>
          /\ run'[process'[t]].session = t /\ proc'[process'[t]] # Nobody
          /\ proc'[process'[t]] = "running" => t \in Known'
    BY <1>3, <1>5, <1>6, <1>7, <1>9 DEF SessionsInv, ProcessesKept, ProcessesOwned, s
  <2>2. ASSUME NEW q \in Runs, proc'[q] = "running"
        PROVE  run'[q].session # Nobody /\ process'[run'[q].session] = q
    <3>1. CASE q = r
      <4>1. run'[r].session = s
        BY <1>3 DEF s
      <4> QED
        BY <1>6, <1>7, <1>9, <2>2, <3>1, <4>1 DEF SessionsInv, ProcessesKept, ProcessesOwned
    <3>2. CASE q # r
      <4>1. proc[q] = "running"
        BY <1>9, <2>2, <3>2
      <4>2. run[q].session # Nobody /\ process[run[q].session] = q /\ run[q].session \in Runs
        BY <4>1 DEF SessionsInv, ProcessesKept, ProcessesOwned, SessionsTypeOK
      <4>3. run[q].session # s
        BY <1>6, <1>7, <4>1, <4>2, SessionsAssumption
      <4> QED
        BY <1>3, <1>9, <4>2, <4>3
    <3> QED
      BY <3>1, <3>2
  <2>3. \A q \in Runs : proc'[q] # Nobody => run'[q].at \notin {"new", "got", "launching"}
    BY <1>2, <1>3, <1>6, <1>9 DEF SessionsInv, ProcessesKept, ProcessesOwned
  <2> QED
    BY <2>1, <2>2, <2>3 DEF ProcessesOwned
<1>12. StartsHeld'
  <2> SUFFICES ASSUME NEW q \in Runs, run'[q].at = "launching"
               PROVE  /\ lifecycle'[run'[q].session] = q /\ run'[q].session \notin endedSessions'
                      /\ process'[run'[q].session] # Nobody =>
                            proc'[process'[run'[q].session]] = "exited"
    BY DEF StartsHeld
  <2>1. q # r /\ run[q].at = "launching" /\ run'[q].session = run[q].session
    BY <1>2, <1>3
  <2>2. /\ lifecycle[run[q].session] = q /\ run[q].session \notin endedSessions
        /\ process[run[q].session] # Nobody => proc[process[run[q].session]] = "exited"
    BY <2>1 DEF SessionsInv, ProcessesKept, StartsHeld
  <2>3. run[q].session # s /\ run[q].session \in Runs
    BY <1>6, <1>7, <2>1, <2>2 DEF SessionsInv, Found, Born, Live, SessionsTypeOK
  <2>4. process'[run[q].session] = process[run[q].session]
    BY <1>9, <2>3
  <2>5. process[run[q].session] # Nobody => process[run[q].session] # r /\ process[run[q].session] \in Runs
    BY <1>6, <1>7, <2>3
  <2>6. process'[run[q].session] # Nobody => proc'[process'[run[q].session]] = "exited"
    BY <1>9, <2>2, <2>4, <2>5
  <2>7. lifecycle'[run[q].session] = q
    BY <1>1, <1>6, <2>2, <2>3
  <2>8. endedSessions' = endedSessions
    BY <1>1
  <2> QED
    BY <2>1, <2>2, <2>6, <2>7, <2>8
<1>13. StopsHeld'
  <2>1. /\ stopping' = stopping /\ endedSessions' = endedSessions
        /\ \A t \in Runs \ {s} : lifecycle'[t] = lifecycle[t] /\ process'[t] = process[t]
    BY <1>1, <1>6, <1>9
  <2>2. ASSUME NEW a \in Actors, stopping[a].at # Nobody
        PROVE  /\ stopping[a].session # Nobody
               /\ a \in Runs => run'[a].at \in {"interrupted", "removing"}
               /\ a = StopAll => sweep'.at = "sweeping"
    BY <1>1, <1>3, <2>2 DEF SessionsInv, ProcessesKept, StopsHeld
  <2>3. ASSUME NEW a \in Actors, stopping[a].at = "killing"
        PROVE  /\ lifecycle'[stopping[a].session] = a /\ stopping[a].session \in endedSessions
               /\ process'[stopping[a].session] # Nobody
    <3>1. /\ lifecycle[stopping[a].session] = a /\ stopping[a].session \in endedSessions
          /\ process[stopping[a].session] # Nobody
      BY <2>3 DEF SessionsInv, ProcessesKept, StopsHeld
    <3>2. stopping[a].session \in Runs /\ stopping[a].session # s
      BY <1>7, <3>1 DEF SessionsInv, SessionsTypeOK
    <3> QED
      BY <2>1, <3>1, <3>2
  <2> QED
    BY <2>1, <2>2, <2>3 DEF StopsHeld
<1>14. Removing'
  BY <1>1, <1>2, <1>3, <1>5 DEF SessionsInv, ProcessesKept, Removing
<1>15. Swept' /\ StopAllIsFinal'
  <2>1. \A t \in sweep.stopped : t \in Runs /\ t # s
    BY <1>7 DEF SessionsInv, ProcessesKept, Swept, SessionsTypeOK
  <2>2. \A t \in sweep.stopped : process[t] # Nobody => process[t] \in Runs /\ process[t] # r
    BY <1>6, <1>7, <2>1
  <2> QED
    BY <1>1, <1>6, <1>9, <2>1, <2>2 DEF SessionsInv, ProcessesKept, Swept, StopAllIsFinal
<1>16. EveryPidRegistered'
  BY <1>9 DEF SessionsInv, EveryPidRegistered
<1>17. RunsLeaveNothing'
  <2>1. \A q \in Runs : run'[q].at = "ended" => q # r /\ run[q].at = "ended"
    BY <1>2, <1>3
  <2> QED
    BY <1>1, <1>3, <1>5, <1>9, <2>1 DEF SessionsInv, RunsLeaveNothing
<1> QED
  BY <1>5, <1>8, <1>10, <1>11, <1>12, <1>13, <1>14, <1>15, <1>16, <1>17 DEF SessionsInv, ProcessesKept

(* Steps of a run that only change where it is.                            *)
LEMMA RunStepKeeps ==
  ASSUME SessionsInv, NEW r \in Runs,
         NEW place \in {"registering", "interrupted", "cleanup", "removing", "ended"}, Go(r, place),
         run[r].at \notin {"new", "ended"},
         UNCHANGED <<resumed, identities, endedSessions, process, proc, sweep, faulty>>,
         ending \subseteq ending', ending' \subseteq Known,
         SessionsTypeOK', EveryPidRegistered', StopsHeld', abandoned \subseteq abandoned',
         \A q \in Runs : run'[q].at = "launching" => lifecycle'[run[q].session] = q,
         place = "registering" => run[r].temp # Nobody,
         run[r].at = "removing" => place = "ended",
         place = "removing" => stopping'[r].session = run[r].session \/ run[r].session \notin Known,
         \A q \in Runs \ {r} : stopping'[q] = stopping[q],
         place = "ended" => \/ r \in abandoned'
                            \/ proc[r] # "running" /\ (r \in Known => run[r].session # r)
  PROVE  SessionsInv'
<1>1. /\ run' \in [Runs -> RunStates] /\ run'[r].at = place
      /\ \A q \in Runs : /\ run'[q].session = run[q].session /\ run'[q].captured = run[q].captured
                         /\ run'[q].temp = run[q].temp
      /\ \A q \in Runs \ {r} : run'[q] = run[q]
  BY RunGoes DEF RunPlaces, SessionsInv
<1>2. SameRuns
  BY <1>1 DEF SameRuns, Live
<1>3. Found' /\ Known' = Known
  BY <1>2, RunsMove DEF SessionsInv
<1>4. \A q \in Runs : run'[q].at \in {"new", "got", "launching"} => run'[q] = run[q]
  BY <1>1
<1>5. NotLost' /\ ProcessesOwned' /\ Swept' /\ StopAllIsFinal'
  BY <1>1, <1>3, <1>4, ProcessesStay, NothingStops
<1>6. StartsHeld'
  BY <1>1, <1>4 DEF SessionsInv, ProcessesKept, StartsHeld
<1>7. Removing'
  BY <1>1, <1>3 DEF SessionsInv, ProcessesKept, Removing
<1>8. Registering'
  BY <1>1 DEF SessionsInv, ProcessesKept, Registering
<1>9. RunsLeaveNothing'
  <2>1. \A q \in Runs : run'[q].at = "ended" => (q = r /\ place = "ended") \/ run[q].at = "ended"
    BY <1>1
  <2> QED
    BY <1>1, <1>3, <2>1 DEF SessionsInv, RunsLeaveNothing
<1> QED
  BY <1>3, <1>5, <1>6, <1>7, <1>8, <1>9 DEF SessionsInv, ProcessesKept

LEMMA AnnounceKeeps ==
  ASSUME SessionsInv, NEW r \in Runs, Announce(r) \/ RunFinished(r), resumed' = resumed
  PROVE  SessionsInv'
<1>1. PICK place \in {"registering", "cleanup"} :
        /\ Go(r, place) /\ run[r].at = "reading" /\ (place = "registering" => run[r].temp # Nobody)
        /\ pids' = pids \/ (proc[r] = "exited" /\ pids' = pids \ {r})
  BY DEF Announce, RunFinished
<1>2. UNCHANGED <<resumed, manager, identities, ending, endedSessions, process, lifecycle, proc,
                  stopping, sweep, runCancels, faulty, abandoned>>
  BY DEF Announce, RunFinished
<1>3. /\ run' \in [Runs -> RunStates] /\ run'[r].at = place
      /\ \A q \in Runs : run'[q].session = run[q].session
      /\ \A q \in Runs \ {r} : run'[q] = run[q]
  BY <1>1, RunGoes DEF RunPlaces, SessionsInv
<1>4. SessionsTypeOK'
  BY <1>1, <1>2, <1>3 DEF SessionsInv, SessionsTypeOK, RunStates, RunPlaces, identities
<1>5. EveryPidRegistered'
  BY <1>1, <1>2 DEF SessionsInv, EveryPidRegistered
<1>6. StopsHeld'
  BY <1>1, <1>2, <1>3, IdsTyped DEF SessionsInv, ProcessesKept, StopsHeld, Actors
<1>7. \A q \in Runs : run'[q].at = "launching" => lifecycle'[run[q].session] = q
  BY <1>1, <1>2, <1>3 DEF SessionsInv, ProcessesKept, StartsHeld
<1> QED
  BY <1>1, <1>2, <1>4, <1>5, <1>6, <1>7, RunStepKeeps DEF SessionsInv, ProcessesKept, NotLost

LEMMA ExitKeeps ==
  ASSUME SessionsInv, NEW r \in Runs, ProcessExits(r), resumed' = resumed
  PROVE  SessionsInv'
<1>1. /\ proc[r] = "running" /\ proc' = [proc EXCEPT ![r] = "exited"]
      /\ UNCHANGED <<resumed, manager, identities, ending, endedSessions, process, lifecycle, pids,
                     run, stopping, sweep, runCancels, faulty, abandoned>>
  BY DEF ProcessExits
<1>2. /\ proc \in [Runs -> {Nobody, "running", "exited"}] /\ Nobody \notin {"running", "exited"}
      /\ process \in [Runs -> Runs \union {Nobody}]
      /\ Nobody \notin Runs
  BY SessionsAssumption, IdsTyped DEF SessionsInv, SessionsTypeOK
<1>3. /\ proc' \in [Runs -> {Nobody, "running", "exited"}] /\ proc'[r] = "exited"
      /\ \A q \in Runs \ {r} : proc'[q] = proc[q]
      /\ \A q \in Runs : proc'[q] = "running" => proc[q] = "running"
      /\ \A q \in Runs : proc[q] = "exited" => proc'[q] = "exited"
  BY <1>1, <1>2
<1>4. SessionsTypeOK'
  BY <1>1, <1>3 DEF SessionsInv, SessionsTypeOK, identities
<1>5. Found' /\ Known' = Known
  BY <1>1, RunsMove DEF SessionsInv, SameRuns, Live
<1>6. NotLost' /\ StopsHeld' /\ Removing' /\ Registering'
  BY <1>1, <1>5 DEF SessionsInv, ProcessesKept, NotLost, StopsHeld, Removing, Registering
<1>7. ProcessesOwned'
  BY <1>1, <1>2, <1>3, <1>5 DEF SessionsInv, ProcessesKept, ProcessesOwned
<1>8. StartsHeld'
  <2>1. \A s \in Runs : process[s] # Nobody /\ proc[process[s]] = "exited" => proc'[process[s]] = "exited"
    BY <1>2, <1>3
  <2>2. \A q \in Runs : run[q].at = "launching" => run[q].session \in Runs
    BY DEF SessionsInv, SessionsTypeOK, Found, Born, Live
  <2> QED
    BY <1>1, <2>1, <2>2 DEF SessionsInv, ProcessesKept, StartsHeld
<1>9. Swept' /\ StopAllIsFinal'
  <2>1. \A s \in Runs : process[s] # Nobody /\ proc[process[s]] = "exited" => proc'[process[s]] = "exited"
    BY <1>2, <1>3
  <2>2. sweep.stopped \subseteq Runs
    BY DEF SessionsInv, SessionsTypeOK
  <2> QED
    BY <1>1, <2>1, <2>2 DEF SessionsInv, ProcessesKept, Swept, StopAllIsFinal
<1>10. EveryPidRegistered' /\ RunsLeaveNothing'
  BY <1>1, <1>3, <1>5 DEF SessionsInv, EveryPidRegistered, RunsLeaveNothing
<1> QED
  BY <1>4, <1>5, <1>6, <1>7, <1>8, <1>9, <1>10 DEF SessionsInv, ProcessesKept

LEMMA CancelledKeeps ==
  ASSUME SessionsInv, NEW r \in Runs, Cancelled(r), resumed' = resumed
  PROVE  SessionsInv'
<1>1. /\ runCancels[r] < Cancels /\ runCancels' = [runCancels EXCEPT ![r] = runCancels[r] + 1]
      /\ UNCHANGED <<resumed, identities, ending, endedSessions, process, proc, pids, sweep, faulty>>
  BY DEF Cancelled
<1>2. \/ /\ run[r].at = "reading" /\ Go(r, "interrupted")
         /\ stopping' = [stopping EXCEPT ![r] = [session |-> run[r].session, at |-> "entering"]]
         /\ UNCHANGED <<manager, lifecycle, abandoned>>
      \/ /\ run[r].at \in {"got", "launching", "registering"} /\ Go(r, "cleanup")
         /\ lifecycle' = [s \in Runs |-> IF lifecycle[s] = r THEN Nobody ELSE lifecycle[s]]
         /\ UNCHANGED <<manager, stopping, abandoned>>
      \/ /\ run[r].at \in {"cleanup", "removing"} /\ Go(r, "ended")
         /\ manager' \in {manager, Nobody}
         /\ lifecycle' = [s \in Runs |-> IF lifecycle[s] = r THEN Nobody ELSE lifecycle[s]]
         /\ stopping' = [stopping EXCEPT ![r] = NotStopping]
         /\ abandoned' = abandoned \union {r}
  BY DEF Cancelled, Begin
<1>3. PICK place \in {"interrupted", "cleanup", "ended"} :
        /\ Go(r, place)
        /\ place = "interrupted" => run[r].at = "reading"
        /\ place = "cleanup" => run[r].at \in {"got", "launching", "registering"}
        /\ place = "ended" => run[r].at \in {"cleanup", "removing"}
  BY <1>2
<1>4. /\ run' \in [Runs -> RunStates] /\ run'[r].at = place
      /\ \A q \in Runs : run'[q].session = run[q].session
      /\ \A q \in Runs \ {r} : run'[q] = run[q]
  BY <1>3, RunGoes DEF RunPlaces, SessionsInv
<1>5. /\ lifecycle \in [Runs -> Actors \union {Nobody}] /\ Nobody \notin Runs /\ StopAll \notin Runs
      /\ stopping \in [Actors -> [session : Runs \union {Nobody}, at : {Nobody, "entering", "killing"}]]
      /\ r \in Actors /\ run[r].session \in Runs \union {Nobody} /\ Nobody \notin {"entering", "killing"}
      /\ runCancels \in [Runs -> 0 .. Cancels] /\ Cancels \in Nat
      /\ run[r].at \notin {"new", "ended"} => run[r].session # Nobody
  BY IdsTyped, SessionsAssumption DEF SessionsInv, SessionsTypeOK, Actors, Found, Born, Live
<1>6. SessionsTypeOK'
  <2>1. runCancels' \in [Runs -> 0 .. Cancels]
    BY <1>1, <1>5
  <2>2. lifecycle' \in [Runs -> Actors \union {Nobody}]
    BY <1>2, <1>5
  <2>3. stopping' \in [Actors -> [session : Runs \union {Nobody}, at : {Nobody, "entering", "killing"}]]
    BY <1>2, <1>5 DEF NotStopping
  <2>4. manager' \in Actors \union {Nobody} /\ abandoned' \subseteq Runs
    BY <1>2 DEF SessionsInv, SessionsTypeOK
  <2> QED
    BY <1>1, <1>4, <2>1, <2>2, <2>3, <2>4
    DEF SessionsInv, SessionsTypeOK, RunStates, RunPlaces, identities
<1>7. EveryPidRegistered'
  BY <1>1 DEF SessionsInv, EveryPidRegistered
<1>8. \A s \in Runs : lifecycle[s] # r => lifecycle'[s] = lifecycle[s]
  BY <1>2, <1>5
<1>9. \A q \in Runs : run'[q].at = "launching" => lifecycle'[run[q].session] = q
  <2> SUFFICES ASSUME NEW q \in Runs, run'[q].at = "launching"
               PROVE  lifecycle'[run[q].session] = q
    OBVIOUS
  <2>1. q # r /\ run[q].at = "launching"
    BY <1>3, <1>4
  <2>2. lifecycle[run[q].session] = q /\ run[q].session \in Runs
    BY <2>1 DEF SessionsInv, ProcessesKept, StartsHeld, SessionsTypeOK, Found, Born, Live
  <2> QED
    BY <1>8, <2>1, <2>2
<1>10. \A a \in Actors \ {r} : stopping'[a] = stopping[a]
  BY <1>2, <1>5
<1>11. /\ place = "interrupted" => stopping'[r] = [session |-> run[r].session, at |-> "entering"]
       /\ place = "cleanup" => stopping'[r].at = Nobody
       /\ place = "ended" => stopping'[r].at = Nobody
  <2>1. run[r].at \in {"got", "launching", "registering"} => stopping[r].at = Nobody
    BY <1>5 DEF SessionsInv, ProcessesKept, StopsHeld
  <2> QED
    BY <1>2, <1>3, <1>5, <2>1 DEF NotStopping
<1>12. StopsHeld'
  <2> SUFFICES ASSUME NEW a \in Actors
               PROVE  /\ stopping'[a].at # Nobody =>
                           /\ stopping'[a].session # Nobody
                           /\ a \in Runs => run'[a].at \in {"interrupted", "removing"}
                           /\ a = StopAll => sweep.at = "sweeping"
                      /\ stopping'[a].at = "killing" =>
                           /\ lifecycle'[stopping'[a].session] = a
                           /\ stopping'[a].session \in endedSessions
                           /\ process[stopping'[a].session] # Nobody
    BY <1>1 DEF StopsHeld
  <2>1. CASE a = r
    BY <1>3, <1>4, <1>5, <1>11, <2>1
  <2>2. CASE a # r
    <3>1. stopping'[a] = stopping[a] /\ (a \in Runs => run'[a] = run[a])
      BY <1>4, <1>10, <2>2
    <3>2. stopping[a].session # Nobody => stopping[a].session \in Runs
      BY <1>5
    <3> QED
      BY <1>5, <1>8, <2>2, <3>1, <3>2 DEF SessionsInv, ProcessesKept, StopsHeld
  <2> QED
    BY <2>1, <2>2
<1>13. abandoned \subseteq abandoned' /\ (place = "ended" => r \in abandoned')
  BY <1>2, <1>3
<1>14. ending \subseteq ending' /\ ending' \subseteq Known
  BY <1>1 DEF SessionsInv, ProcessesKept, NotLost
<1>15. /\ run[r].at \notin {"new", "ended"} /\ (run[r].at = "removing" => place = "ended")
       /\ place \notin {"registering", "removing"} /\ \A q \in Runs \ {r} : stopping'[q] = stopping[q]
  BY <1>3, <1>10 DEF Actors
<1>16. /\ UNCHANGED <<resumed, identities, endedSessions, process, proc, sweep, faulty>>
       /\ Go(r, place) /\ place \in {"registering", "interrupted", "cleanup", "removing", "ended"}
       /\ place = "ended" => r \in abandoned'
       /\ place = "registering" => run[r].temp # Nobody
       /\ place = "removing" => stopping'[r].session = run[r].session \/ run[r].session \notin Known
       /\ run[r].at = "removing" => place = "ended"
  BY <1>1, <1>3, <1>13, <1>15
<1> QED
  BY <1>6, <1>7, <1>9, <1>12, <1>13, <1>14, <1>15, <1>16, RunStepKeeps

LEMMA RemoveKeeps ==
  ASSUME SessionsInv, NEW r \in Runs, RemoveSession(r), resumed' = resumed
  PROVE  SessionsInv'
<1> DEFINE s == SessionForId(LastId(r))
<1>1. /\ run[r].at = "cleanup" /\ run[r].session # Nobody /\ LastId(r) \in Ids
      /\ Nobody \notin Ids /\ Nobody \notin Runs /\ StopAll \notin Runs
      /\ s \in Runs \union {Nobody} /\ (s # Nobody => s \in Known) /\ Known \subseteq Runs
      /\ run[r].session \in Known => s = run[r].session
      /\ UNCHANGED <<resumed, identities, endedSessions, process, lifecycle, proc, pids, sweep,
                     runCancels, faulty, abandoned>>
  BY IdsTyped, SessionFound DEF RemoveSession, SessionsInv, Found, Resolved, Born, Live
<1>2. \/ s = Nobody /\ Go(r, "ended") /\ UNCHANGED <<manager, ending, stopping>>
      \/ /\ s # Nobody /\ manager' = r /\ ending' = ending \union {s}
         /\ stopping' = [stopping EXCEPT ![r] = [session |-> s, at |-> "entering"]]
         /\ Go(r, "removing")
  <2>1. LET i == IF run[r].captured # Nobody THEN run[r].captured ELSE run[r].temp
        IN  i = LastId(r)
    BY DEF LastId
  <2> QED
    BY <1>1, <2>1 DEF RemoveSession, Begin
<1> HIDE DEF s
<1>3. PICK place \in {"ended", "removing"} :
        /\ Go(r, place)
        /\ place = "ended" => s = Nobody /\ UNCHANGED <<manager, ending, stopping>>
        /\ place = "removing" =>
             /\ s # Nobody /\ manager' = r /\ ending' = ending \union {s}
             /\ stopping' = [stopping EXCEPT ![r] = [session |-> s, at |-> "entering"]]
  BY <1>2
<1>4. /\ run' \in [Runs -> RunStates] /\ run'[r].at = place
      /\ \A q \in Runs : run'[q].session = run[q].session
      /\ \A q \in Runs \ {r} : run'[q] = run[q]
  BY <1>3, RunGoes DEF RunPlaces, SessionsInv
<1>5. /\ stopping \in [Actors -> [session : Runs \union {Nobody}, at : {Nobody, "entering", "killing"}]]
      /\ r \in Actors /\ Nobody \notin {"entering", "killing"}
  BY SessionsAssumption DEF SessionsInv, SessionsTypeOK, Actors
<1>6. SessionsTypeOK'
  <2>1. stopping' \in [Actors -> [session : Runs \union {Nobody}, at : {Nobody, "entering", "killing"}]]
    BY <1>1, <1>3, <1>5
  <2>2. manager' \in Actors \union {Nobody} /\ ending' \subseteq Runs
    BY <1>1, <1>3, <1>5 DEF SessionsInv, SessionsTypeOK
  <2> QED
    BY <1>1, <1>4, <2>1, <2>2 DEF SessionsInv, SessionsTypeOK, RunStates, RunPlaces, identities
<1>7. EveryPidRegistered'
  BY <1>1 DEF SessionsInv, EveryPidRegistered
<1>8. \A q \in Runs : run'[q].at = "launching" => lifecycle'[run[q].session] = q
  BY <1>1, <1>3, <1>4 DEF SessionsInv, ProcessesKept, StartsHeld
<1>9. /\ \A a \in Actors \ {r} : stopping'[a] = stopping[a]
      /\ place = "removing" => stopping'[r] = [session |-> s, at |-> "entering"]
      /\ place = "ended" => stopping'[r].at = Nobody
  <2>1. stopping[r].at = Nobody
    BY <1>1, <1>5 DEF SessionsInv, ProcessesKept, StopsHeld
  <2> QED
    BY <1>3, <1>5, <2>1
<1>10. StopsHeld'
  <2> SUFFICES ASSUME NEW a \in Actors
               PROVE  /\ stopping'[a].at # Nobody =>
                           /\ stopping'[a].session # Nobody
                           /\ a \in Runs => run'[a].at \in {"interrupted", "removing"}
                           /\ a = StopAll => sweep.at = "sweeping"
                      /\ stopping'[a].at = "killing" =>
                           /\ lifecycle[stopping'[a].session] = a
                           /\ stopping'[a].session \in endedSessions
                           /\ process[stopping'[a].session] # Nobody
    BY <1>1 DEF StopsHeld
  <2>1. CASE a = r
    BY <1>1, <1>3, <1>4, <1>5, <1>9, <2>1
  <2>2. CASE a # r
    BY <1>4, <1>9, <2>2 DEF SessionsInv, ProcessesKept, StopsHeld
  <2> QED
    BY <2>1, <2>2
<1>11. place = "ended" => proc[r] # "running" /\ (r \in Known => run[r].session # r)
  <2>1. place = "ended" => run[r].session \notin Known
    BY <1>1, <1>3
  <2>2. proc[r] = "running" => run[r].session \in Known
    BY <1>1 DEF SessionsInv, ProcessesKept, ProcessesOwned, SessionsTypeOK
  <2> QED
    BY <2>1, <2>2
<1>12. ending \subseteq ending' /\ ending' \subseteq Known
  BY <1>1, <1>3 DEF SessionsInv, ProcessesKept, NotLost
<1>13. place = "removing" => stopping'[r].session = run[r].session \/ run[r].session \notin Known
  BY <1>1, <1>9
<1> QED
  BY <1>1, <1>3, <1>5, <1>6, <1>7, <1>8, <1>9, <1>10, <1>11, <1>12, <1>13, RunStepKeeps DEF Actors

LEMMA SweepKeeps ==
  ASSUME SessionsInv, Sweep \/ SweepEnds \/ (\E s \in Runs : SweepNext(s)), resumed' = resumed
  PROVE  SessionsInv'
<1>1. UNCHANGED <<resumed, identities, endedSessions, process, lifecycle, proc, pids, run, runCancels,
                  faulty, abandoned>>
  BY DEF Sweep, SweepEnds, SweepNext
<1>2. /\ Nobody \notin Runs /\ StopAll \notin Runs /\ Known \subseteq Runs
      /\ stopping \in [Actors -> [session : Runs \union {Nobody}, at : {Nobody, "entering", "killing"}]]
      /\ sweep \in [at : {"idle", "sweeping", "done", "raised"}, left : SUBSET Runs, stopped : SUBSET Runs]
      /\ StopAll \in Actors /\ Nobody \notin {"entering", "killing"} /\ ending \subseteq Known
  BY IdsTyped, SessionFound, SessionsAssumption DEF SessionsInv, SessionsTypeOK, Actors, ProcessesKept, NotLost
<1>3. Found' /\ Known' = Known
  BY <1>1, RunsMove DEF SessionsInv, SameRuns, Live
<1>4. /\ manager' \in Actors \union {Nobody} /\ ending' \in {ending, Known}
      /\ sweep' \in [at : {"idle", "sweeping", "done", "raised"}, left : SUBSET Runs,
                     stopped : SUBSET Runs]
      /\ sweep'.stopped = sweep.stopped
      /\ sweep'.at = "done" => sweep'.stopped \intersect faulty = {} \/ sweep' = sweep
  <2>1. CASE Sweep
    <3>1. sweep' = [sweep EXCEPT !.at = "sweeping", !.left = ending \union Known]
      BY <2>1 DEF Sweep
    <3>2. sweep' = [at |-> "sweeping", left |-> ending \union Known, stopped |-> sweep.stopped]
      BY <1>2, <3>1
    <3>3. ending \union Known = Known
      BY <1>2
    <3> QED
      BY <1>2, <2>1, <3>2, <3>3 DEF Sweep
  <2>2. CASE SweepEnds
    <3>1. PICK at \in {"done", "raised"} :
            sweep' = [sweep EXCEPT !.at = at] /\ (at = "done" => sweep.stopped \intersect faulty = {})
      BY <2>2 DEF SweepEnds
    <3>2. sweep' = [at |-> at, left |-> sweep.left, stopped |-> sweep.stopped]
      BY <1>2, <3>1
    <3> QED
      BY <1>2, <2>2, <3>1, <3>2 DEF SweepEnds
  <2>3. CASE \E s \in Runs : SweepNext(s)
    BY <1>2, <2>3 DEF SweepNext, SessionsInv, SessionsTypeOK
  <2> QED
    BY <2>1, <2>2, <2>3
<1>5. PICK s \in Runs \union {Nobody} :
        \/ stopping' = stopping
        \/ s # Nobody /\ stopping' = [stopping EXCEPT ![StopAll] = [session |-> s, at |-> "entering"]]
  <2>1. CASE Sweep \/ SweepEnds
    <3>1. stopping' = stopping
      BY <2>1 DEF Sweep, SweepEnds
    <3> QED
      BY <3>1
  <2>2. CASE \E s \in Runs : SweepNext(s)
    <3>1. PICK s \in Runs : stopping' = [stopping EXCEPT ![StopAll] = [session |-> s, at |-> "entering"]]
      BY <2>2 DEF SweepNext, Begin
    <3> QED
      BY <1>2, <3>1
  <2> QED
    BY <2>1, <2>2
<1>6. /\ stopping' \in [Actors -> [session : Runs \union {Nobody}, at : {Nobody, "entering", "killing"}]]
      /\ \A a \in Runs : stopping'[a] = stopping[a]
      /\ stopping'[StopAll] = stopping[StopAll] \/ stopping'[StopAll] = [session |-> s, at |-> "entering"]
      /\ stopping'[StopAll] # stopping[StopAll] => s # Nobody
  BY <1>2, <1>5 DEF Actors
<1>7. SessionsTypeOK'
  <2>1. ending' \subseteq Runs
    BY <1>2, <1>4 DEF SessionsInv, SessionsTypeOK
  <2> QED
    BY <1>1, <1>4, <1>6, <2>1 DEF SessionsInv, SessionsTypeOK, identities
<1>8. NotLost' /\ ProcessesOwned'
  BY <1>1, <1>2, <1>3, <1>4, ProcessesStay
<1>9. Registering' /\ StartsHeld'
  BY <1>1 DEF SessionsInv, ProcessesKept, Registering, StartsHeld
<1>10. StopsHeld'
  <2>1. stopping'[StopAll].at # Nobody => sweep'.at = "sweeping"
    <3>1. CASE Sweep
      BY <1>2, <3>1 DEF Sweep
    <3>2. CASE SweepEnds
      BY <1>2, <3>2 DEF SweepEnds, NotStopping
    <3>3. CASE \E t \in Runs : SweepNext(t)
      BY <1>2, <3>3 DEF SweepNext
    <3> QED
      BY <3>1, <3>2, <3>3
  <2> QED
    BY <1>1, <1>2, <1>6, <2>1 DEF SessionsInv, ProcessesKept, StopsHeld, Actors
<1>11. Removing'
  BY <1>1, <1>3, <1>6 DEF SessionsInv, ProcessesKept, Removing
<1>12. Swept'
  BY <1>1, <1>4 DEF SessionsInv, ProcessesKept, Swept
<1>13. StopAllIsFinal'
  <2>1. CASE sweep' = sweep
    BY <1>1, <2>1 DEF SessionsInv, StopAllIsFinal
  <2>2. CASE sweep' # sweep
    <3>1. sweep'.at = "done" => \A t \in sweep'.stopped : t \notin faulty
      BY <1>4, <2>2
    <3> QED
      BY <1>1, <1>12, <3>1 DEF StopAllIsFinal, Swept
  <2> QED
    BY <2>1, <2>2
<1>14. EveryPidRegistered' /\ RunsLeaveNothing'
  BY <1>1, <1>3 DEF SessionsInv, EveryPidRegistered, RunsLeaveNothing
<1> QED
  BY <1>3, <1>7, <1>8, <1>9, <1>10, <1>11, <1>12, <1>13, <1>14 DEF SessionsInv, ProcessesKept

LEMMA CreateKeeps ==
  ASSUME SessionsInv, NEW r \in Runs, GetOrCreate(r), resumed' = resumed
  PROVE  SessionsInv'
<1>1. UNCHANGED <<resumed, manager, real, tempToReal, realToTemp, ending, endedSessions, process,
                  lifecycle, proc, pids, stopping, sweep, runCancels, faulty, abandoned>>
  BY DEF GetOrCreate
<1>2. /\ Found' /\ Known \subseteq Known' /\ Known' \subseteq Known \union {r}
      /\ \/ run'[r].session \in Known' /\ run'[r].at = "got"
         \/ run'[r].session = Nobody /\ run'[r].at = "ended"
      /\ run[r].at = "new"
      /\ \A q \in Runs \ {r} : run'[q] = run[q]
      /\ run' \in [Runs -> RunStates] /\ pendingSessions' \in [Ids -> Runs \union {Nobody}]
  BY CreateKeepsFound DEF SessionsInv
<1>3. /\ Nobody \notin Runs /\ run[r].session = Nobody /\ Nobody \notin {"running", "exited"}
      /\ proc[r] = Nobody
      /\ r \in Actors /\ stopping[r].at = Nobody /\ \A t \in Runs : process[t] # r
  <2>1. /\ Nobody \notin Runs /\ run[r].session = Nobody /\ Nobody \notin {"running", "exited"}
        /\ r \in Actors
    BY <1>2, IdsTyped, SessionsAssumption DEF SessionsInv, Found, Born, Actors
  <2>2. proc[r] = Nobody
    BY <1>2 DEF SessionsInv, ProcessesKept, ProcessesOwned
  <2>3. \A t \in Runs : process[t] # r
    BY <2>1, <2>2 DEF SessionsInv, ProcessesKept, ProcessesOwned
  <2>4. stopping[r].at = Nobody
    BY <1>2, <2>1 DEF SessionsInv, ProcessesKept, StopsHeld
  <2> QED
    BY <2>1, <2>2, <2>3, <2>4
<1>4. SessionsTypeOK'
  BY <1>1, <1>2 DEF SessionsInv, SessionsTypeOK, RunStates, RunPlaces
<1>5. NotLost' /\ Registering'
  BY <1>1, <1>2, <1>3 DEF SessionsInv, ProcessesKept, NotLost, Registering
<1>6. ProcessesOwned'
  <2>1. \A t \in Runs : process[t] # Nobody => process[t] \in Runs \ {r}
    BY <1>3 DEF SessionsInv, SessionsTypeOK
  <2>2. \A q \in Runs : proc[q] # Nobody => q # r
    BY <1>3
  <2>3. \A q \in Runs : proc[q] = "running" => q # r
    BY <1>3
  <2> QED
    BY <1>1, <1>2, <2>1, <2>2, <2>3 DEF SessionsInv, ProcessesKept, ProcessesOwned
<1>7. StartsHeld'
  BY <1>1, <1>2 DEF SessionsInv, ProcessesKept, StartsHeld
<1>8. StopsHeld'
  BY <1>1, <1>2, <1>3 DEF SessionsInv, ProcessesKept, StopsHeld
<1>9. Removing'
  <2>1. \A q \in Runs : run'[q].at = "removing" => q # r /\ run[q].at = "removing" /\ run[q].session # r
    BY <1>2, <1>3 DEF SessionsInv, Found, Born
  <2> QED
    BY <1>1, <1>2, <2>1 DEF SessionsInv, ProcessesKept, Removing
<1>10. Swept' /\ StopAllIsFinal' /\ EveryPidRegistered'
  BY <1>1, NothingStops DEF SessionsInv, EveryPidRegistered
<1>11. RunsLeaveNothing'
  BY <1>1, <1>2, <1>3 DEF SessionsInv, RunsLeaveNothing
<1> QED
  BY <1>2, <1>4, <1>5, <1>6, <1>7, <1>8, <1>9, <1>10, <1>11 DEF SessionsInv, ProcessesKept

LEMMA RegisterKeeps ==
  ASSUME SessionsInv, NEW r \in Runs, Register(r), resumed' = resumed
  PROVE  SessionsInv'
<1>1. /\ run[r].at = "registering"
      /\ UNCHANGED <<resumed, manager, ending, endedSessions, process, lifecycle, proc, pids, stopping,
                     sweep, runCancels, faulty, abandoned>>
  BY DEF Register
<1>2. /\ Found' /\ Known' = Known /\ run' \in [Runs -> RunStates]
      /\ run'[r].at \in {"reading", "cleanup"}
      /\ run'[r].session = run[r].session /\ \A q \in Runs \ {r} : run'[q] = run[q]
      /\ pendingSessions' \in [Ids -> Runs \union {Nobody}]
      /\ real' \in [Ids -> Runs \union {Nobody}]
      /\ tempToReal' \in [Ids -> Ids \union {Nobody}] /\ realToTemp' \in [Ids -> Ids \union {Nobody}]
  BY <1>1, RegisterKeepsFound DEF SessionsInv, ProcessesKept, Registering
<1>3. \A q \in Runs : run'[q].session = run[q].session
  BY <1>2
<1>4. SessionsTypeOK'
  BY <1>1, <1>2 DEF SessionsInv, SessionsTypeOK, RunStates, RunPlaces
<1>5. NotLost' /\ ProcessesOwned'
  BY <1>1, <1>2, <1>3, ProcessesStay DEF SessionsInv, ProcessesKept, NotLost
<1>6. Swept' /\ StopAllIsFinal' /\ EveryPidRegistered'
  BY <1>1, NothingStops DEF SessionsInv, EveryPidRegistered
<1>7. StartsHeld' /\ Registering'
  BY <1>1, <1>2, <1>3 DEF SessionsInv, ProcessesKept, StartsHeld, Registering
<1>8. StopsHeld'
  BY <1>1, <1>2 DEF SessionsInv, ProcessesKept, StopsHeld
<1>9. Removing'
  BY <1>1, <1>2, <1>3 DEF SessionsInv, ProcessesKept, Removing
<1>10. RunsLeaveNothing'
  BY <1>1, <1>2, <1>3 DEF SessionsInv, RunsLeaveNothing
<1> QED
  BY <1>2, <1>4, <1>5, <1>6, <1>7, <1>8, <1>9, <1>10 DEF SessionsInv, ProcessesKept

(* What follows a stop, whether the session stopped or not.                *)
LEMMA StoppedKeeps ==
  ASSUME SessionsInv, NEW a \in Actors, NEW s \in Runs, NEW stopped \in BOOLEAN, Stopped(a, s, stopped),
         stopping[a].at # Nobody, stopping[a].session = s,
         UNCHANGED <<resumed, process, runCancels, abandoned>>,
         endedSessions' = endedSessions \union {s}, lifecycle[s] \in {Nobody, a},
         lifecycle' \in [Runs -> Actors \union {Nobody}],
         \A t \in Runs \ {s} : lifecycle'[t] = lifecycle[t],
         proc' \in [Runs -> {Nobody, "running", "exited"}],
         \A q \in Runs : proc'[q] = proc[q] \/ (proc[q] # Nobody /\ proc'[q] = "exited"),
         IF stopped THEN process[s] # Nobody => proc'[process[s]] = "exited" ELSE s \in faulty',
         faulty \subseteq faulty', faulty' \subseteq Runs, pids' \subseteq Runs, EveryPidRegistered'
  PROVE  SessionsInv'
<1> DEFINE forgets == stopped /\ ~(a \in Runs /\ run[a].at = "interrupted")
<1>1. /\ Nobody \notin Runs /\ StopAll \notin Runs /\ Nobody # StopAll /\ Known \subseteq Runs
      /\ Nobody \notin {"entering", "killing", "running", "exited"}
      /\ stopping \in [Actors -> [session : Runs \union {Nobody}, at : {Nobody, "entering", "killing"}]]
      /\ sweep \in [at : {"idle", "sweeping", "done", "raised"}, left : SUBSET Runs, stopped : SUBSET Runs]
      /\ run \in [Runs -> RunStates] /\ process \in [Runs -> Runs \union {Nobody}]
      /\ proc \in [Runs -> {Nobody, "running", "exited"}] /\ Nobody \notin Actors
  BY IdsTyped, SessionFound, SessionsAssumption
  DEF SessionsInv, SessionsTypeOK, RunStates, RunPlaces, Actors
<1>2. /\ a \in Runs => run[a].at \in {"interrupted", "removing"}
      /\ a = StopAll => sweep.at = "sweeping"
  BY DEF SessionsInv, ProcessesKept, StopsHeld
<1>3. /\ stopping' = [stopping EXCEPT ![a] = NotStopping]
      /\ forgets => Forget(s)
      /\ ~forgets => UNCHANGED <<identities, ending>>
      /\ a = StopAll => /\ sweep' = [sweep EXCEPT !.left = @ \ {s}, !.stopped = @ \union {s}]
                        /\ UNCHANGED <<run, manager>>
      /\ a # StopAll => /\ Go(a, IF run[a].at = "interrupted" THEN "cleanup" ELSE "ended")
                        /\ manager' = Unlocked(a, stopped)
                        /\ UNCHANGED sweep
  BY DEF Stopped
<1>4. /\ run' \in [Runs -> RunStates]
      /\ \A q \in Runs : /\ run'[q].session = run[q].session /\ run'[q].captured = run[q].captured
                         /\ run'[q].temp = run[q].temp
      /\ \A q \in Runs \ {a} : run'[q] = run[q]
      /\ a \in Runs => run'[a].at = IF run[a].at = "interrupted" THEN "cleanup" ELSE "ended"
  <2>1. CASE a = StopAll
    BY <1>1, <1>3, <2>1
  <2>2. CASE a # StopAll
    <3>1. a \in Runs
      BY <2>2 DEF Actors
    <3>2. PICK place \in {"cleanup", "ended"} :
            Go(a, place) /\ place = IF run[a].at = "interrupted" THEN "cleanup" ELSE "ended"
      BY <1>3, <2>2
    <3> QED
      BY <3>1, <3>2, RunGoes DEF RunPlaces, SessionsInv
  <2> QED
    BY <2>1, <2>2
<1>5. SameRuns
  BY <1>2, <1>4 DEF SameRuns, Live
<1>6. /\ Found' /\ (forgets => Known' = Known \ {s}) /\ (~forgets => Known' = Known)
      /\ forgets => ending' = ending \ {s}
      /\ ~forgets => ending' = ending
  <2>1. CASE forgets
    BY <1>3, <1>5, <2>1, ForgetKeepsFound DEF SessionsInv, Forget
  <2>2. CASE ~forgets
    BY <1>3, <1>5, <2>2, RunsMove DEF SessionsInv
  <2> QED
    BY <2>1, <2>2
<1>7. /\ sweep'.at = sweep.at
      /\ sweep' \in [at : {"idle", "sweeping", "done", "raised"}, left : SUBSET Runs,
                     stopped : SUBSET Runs]
      /\ a = StopAll => sweep'.stopped = sweep.stopped \union {s}
      /\ a # StopAll => sweep'.stopped = sweep.stopped
  <2>1. CASE a = StopAll
    <3>1. sweep' = [at |-> sweep.at, left |-> sweep.left \ {s}, stopped |-> sweep.stopped \union {s}]
      BY <1>1, <1>3, <2>1
    <3> QED
      BY <1>1, <2>1, <3>1
  <2>2. CASE a # StopAll
    BY <1>1, <1>3, <2>2
  <2> QED
    BY <2>1, <2>2
<1>8. /\ stopping' \in [Actors -> [session : Runs \union {Nobody}, at : {Nobody, "entering", "killing"}]]
      /\ stopping'[a].at = Nobody /\ \A b \in Actors \ {a} : stopping'[b] = stopping[b]
  BY <1>1, <1>3 DEF NotStopping
<1>9. SessionsTypeOK'
  <2>1. /\ pendingSessions' \in [Ids -> Runs \union {Nobody}] /\ real' \in [Ids -> Runs \union {Nobody}]
        /\ tempToReal' \in [Ids -> Ids \union {Nobody}]
        /\ realToTemp' \in [Ids -> Ids \union {Nobody}]
    <3>1. /\ pendingSessions \in [Ids -> Runs \union {Nobody}]
          /\ real \in [Ids -> Runs \union {Nobody}]
          /\ tempToReal \in [Ids -> Ids \union {Nobody}]
          /\ realToTemp \in [Ids -> Ids \union {Nobody}]
      BY DEF SessionsInv, SessionsTypeOK
    <3>2. CASE forgets
      <4>1. Forget(s)
        BY <1>3, <3>2
      <4> QED
        BY <1>1, <3>1, <4>1 DEF Forget
    <3>3. CASE ~forgets
      BY <1>3, <3>1, <3>3 DEF identities
    <3> QED
      BY <3>2, <3>3
  <2>2. manager' \in Actors \union {Nobody} /\ ending' \subseteq Runs /\ endedSessions' \subseteq Runs
    BY <1>3, <1>6 DEF Unlocked, SessionsInv, SessionsTypeOK
  <2> QED
    BY <1>4, <1>7, <1>8, <2>1, <2>2 DEF SessionsInv, SessionsTypeOK, RunStates, RunPlaces
<1> HIDE DEF forgets
<1>10. NotLost'
  <2>1. ending' \subseteq Known'
    BY <1>6 DEF SessionsInv, ProcessesKept, NotLost
  <2>2. \A q \in Runs : run[q].session # Nobody /\ run[q].session \notin endedSessions'
          => run[q].session \in Known'
    BY <1>6 DEF SessionsInv, ProcessesKept, NotLost
  <2> QED
    BY <1>4, <2>1, <2>2 DEF NotLost
<1>11. \A q \in Runs : /\ proc'[q] = "running" => proc[q] = "running"
                       /\ proc[q] = "exited" => proc'[q] = "exited"
                       /\ proc'[q] # Nobody <=> proc[q] # Nobody
  BY <1>1
<1>12. ProcessesOwned'
  <2>1. \A t \in Runs : process[t] # Nobody =>
          /\ process[t] \in Runs /\ run'[process[t]].session = t /\ proc'[process[t]] # Nobody
    BY <1>1, <1>4, <1>11 DEF SessionsInv, ProcessesKept, ProcessesOwned
  <2>2. ASSUME NEW t \in Runs, process[t] # Nobody, proc'[process[t]] = "running"
        PROVE  t \in Known'
    <3>1. t \in Known
      BY <1>11, <2>1, <2>2 DEF SessionsInv, ProcessesKept, ProcessesOwned
    <3>2. stopped => t # s
      BY <2>2
    <3> QED
      BY <1>6, <3>1, <3>2 DEF forgets
  <2>3. \A q \in Runs : proc'[q] = "running" => run'[q].session # Nobody /\ process[run'[q].session] = q
    BY <1>4, <1>11 DEF SessionsInv, ProcessesKept, ProcessesOwned
  <2>4. \A q \in Runs : proc'[q] # Nobody => run'[q].at \notin {"new", "got", "launching"}
    BY <1>2, <1>4, <1>11 DEF SessionsInv, ProcessesKept, ProcessesOwned
  <2> QED
    BY <2>1, <2>2, <2>3, <2>4 DEF ProcessesOwned
<1>13. StartsHeld'
  <2> SUFFICES ASSUME NEW q \in Runs, run'[q].at = "launching"
               PROVE  /\ lifecycle'[run'[q].session] = q /\ run'[q].session \notin endedSessions'
                      /\ process'[run'[q].session] # Nobody =>
                            proc'[process'[run'[q].session]] = "exited"
    BY DEF StartsHeld
  <2>1. q # a /\ run'[q] = run[q]
    BY <1>2, <1>4
  <2>2. /\ lifecycle[run[q].session] = q /\ run[q].session \notin endedSessions
        /\ process[run[q].session] # Nobody => proc[process[run[q].session]] = "exited"
        /\ run[q].session \in Runs
    BY <1>1, <2>1 DEF SessionsInv, ProcessesKept, StartsHeld, Found, Born, Live, RunStates
  <2>3. run[q].session # s
    BY <1>1, <2>1, <2>2
  <2>4. process[run[q].session] # Nobody => proc'[process[run[q].session]] = "exited"
    BY <1>1, <1>11, <2>2
  <2>5. run[q].session \notin endedSessions' /\ lifecycle'[run[q].session] = q
    BY <2>2, <2>3
  <2> QED
    BY <2>1, <2>4, <2>5
<1>14. StopsHeld'
  <2> SUFFICES ASSUME NEW b \in Actors
               PROVE  /\ stopping'[b].at # Nobody =>
                           /\ stopping'[b].session # Nobody
                           /\ b \in Runs => run'[b].at \in {"interrupted", "removing"}
                           /\ b = StopAll => sweep'.at = "sweeping"
                      /\ stopping'[b].at = "killing" =>
                           /\ lifecycle'[stopping'[b].session] = b
                           /\ stopping'[b].session \in endedSessions'
                           /\ process[stopping'[b].session] # Nobody
    BY DEF StopsHeld
  <2>1. CASE b = a
    BY <1>1, <1>8, <2>1
  <2>2. CASE b # a
    <3>1. stopping'[b] = stopping[b] /\ (b \in Runs => run'[b] = run[b]) /\ sweep'.at = sweep.at
      BY <1>4, <1>7, <1>8, <2>2
    <3>2. stopping[b].at = "killing" =>
            /\ lifecycle[stopping[b].session] = b /\ stopping[b].session \in endedSessions
            /\ process[stopping[b].session] # Nobody
            /\ stopping[b].session \in Runs
      BY <1>1 DEF SessionsInv, ProcessesKept, StopsHeld
    <3>3. stopping[b].at = "killing" => stopping[b].session # s
      BY <1>1, <2>2, <3>2
    <3>4. stopping[b].at = "killing" =>
            /\ lifecycle'[stopping[b].session] = b /\ stopping[b].session \in endedSessions'
      BY <3>2, <3>3
    <3>5. stopping[b].at # Nobody =>
            /\ stopping[b].session # Nobody /\ (b \in Runs => run[b].at \in {"interrupted", "removing"})
            /\ b = StopAll => sweep.at = "sweeping"
      BY DEF SessionsInv, ProcessesKept, StopsHeld
    <3> QED
      BY <3>1, <3>2, <3>4, <3>5
  <2> QED
    BY <2>1, <2>2
<1>15. Removing' /\ Registering'
  <2>1. \A q \in Runs : run'[q].at \in {"removing", "registering"} => q # a /\ run'[q] = run[q]
    BY <1>2, <1>4
  <2>2. Known' \subseteq Known /\ \A q \in Runs : q # a => stopping'[q] = stopping[q]
    BY <1>6, <1>8 DEF Actors
  <2> QED
    BY <2>1, <2>2 DEF SessionsInv, ProcessesKept, Removing, Registering
<1>16. \A t \in Runs : process[t] # Nobody /\ proc[process[t]] = "exited" => proc'[process[t]] = "exited"
  BY <1>1, <1>11
<1>17. Swept'
  <2> SUFFICES ASSUME NEW t \in sweep'.stopped
               PROVE  /\ t \in endedSessions'
                      /\ process[t] # Nobody /\ t \notin faulty' => proc'[process[t]] = "exited"
    BY DEF Swept
  <2>1. t \in sweep.stopped \/ t = s
    BY <1>7
  <2>2. CASE t = s
    BY <2>2
  <2>3. CASE t \in sweep.stopped
    <3>1. /\ t \in endedSessions /\ t \in Runs
          /\ process[t] # Nobody /\ t \notin faulty => proc[process[t]] = "exited"
      BY <1>1, <2>3 DEF SessionsInv, ProcessesKept, Swept
    <3> QED
      BY <1>16, <3>1
  <2> QED
    BY <2>1, <2>2, <2>3
<1>18. StopAllIsFinal'
  <2>1. ASSUME sweep'.at = "done", NEW t \in sweep'.stopped, process[t] # Nobody
        PROVE  proc'[process[t]] = "exited"
    <3>1. sweep.at = "done" /\ a # StopAll /\ t \in sweep.stopped /\ t \in Runs
      BY <1>1, <1>2, <1>7, <2>1
    <3> QED
      BY <1>16, <2>1, <3>1 DEF SessionsInv, StopAllIsFinal
  <2> QED
    BY <2>1 DEF StopAllIsFinal
<1>19. RunsLeaveNothing'
  <2> SUFFICES ASSUME NEW q \in Runs, run'[q].at = "ended", q \notin abandoned, faulty' = {}
               PROVE  proc'[q] # "running" /\ (q \in Known' => run'[q].session # q)
    BY DEF RunsLeaveNothing
  <2>1. faulty = {} /\ Known' \subseteq Known /\ stopped
    BY <1>6
  <2>2. CASE q # a
    <3>1. run[q].at = "ended"
      BY <1>4, <2>2
    <3> QED
      BY <1>4, <1>11, <2>1, <3>1 DEF SessionsInv, RunsLeaveNothing
  <2>3. CASE q = a
    <3>1. run[a].at = "removing" /\ forgets /\ Known' = Known \ {s}
      BY <1>2, <1>4, <1>6, <2>1, <2>3 DEF forgets
    <3>2. s = run[a].session \/ run[a].session \notin Known
      BY <2>3, <3>1 DEF SessionsInv, ProcessesKept, Removing
    <3>3. run[a].session \notin Known'
      BY <3>1, <3>2
    <3>4. proc[a] = "running" =>
            /\ process[run[a].session] = a /\ run[a].session \in Runs /\ run[a].session \in Known
      BY <1>1, <2>3 DEF SessionsInv, ProcessesKept, ProcessesOwned, RunStates
    <3>5. proc[a] = "running" => proc'[a] = "exited"
      BY <1>1, <2>1, <2>3, <3>2, <3>4
    <3> QED
      BY <1>1, <1>4, <1>11, <2>3, <3>3, <3>5
  <2> QED
    BY <2>2, <2>3
<1> QED
  BY <1>6, <1>9, <1>10, <1>12, <1>13, <1>14, <1>15, <1>17, <1>18, <1>19 DEF SessionsInv, ProcessesKept

LEMMA StopSessionKeeps ==
  ASSUME SessionsInv, NEW a \in Actors, StopSession(a), resumed' = resumed
  PROVE  SessionsInv'
<1> DEFINE s == stopping[a].session
<1>1. /\ stopping[a].at = "entering" /\ lifecycle[s] = Nobody
      /\ endedSessions' = endedSessions \union {s}
      /\ UNCHANGED <<resumed, process, proc, runCancels, faulty, abandoned>>
  BY DEF StopSession, Closed
<1>2. /\ Nobody \notin Runs /\ StopAll \notin Runs /\ Nobody \notin Actors
      /\ Nobody \notin {"entering", "killing", "running", "exited"}
      /\ stopping \in [Actors -> [session : Runs \union {Nobody}, at : {Nobody, "entering", "killing"}]]
      /\ process \in [Runs -> Runs \union {Nobody}] /\ s \in Runs
      /\ proc \in [Runs -> {Nobody, "running", "exited"}]
      /\ lifecycle \in [Runs -> Actors \union {Nobody}] /\ pids \subseteq Runs /\ faulty \subseteq Runs
  BY <1>1, IdsTyped, SessionsAssumption DEF SessionsInv, SessionsTypeOK, Actors, ProcessesKept, StopsHeld
<1>3. CASE process[s] # Nobody /\ proc[process[s]] = "running"
  <2>1. /\ lifecycle' = [lifecycle EXCEPT ![s] = a]
        /\ stopping' = [stopping EXCEPT ![a].at = "killing"]
        /\ UNCHANGED <<identities, ending, sweep, run, manager, pids>>
    BY <1>3 DEF StopSession
  <2>2. /\ stopping'[a].session = s /\ stopping'[a].at = "killing"
        /\ \A b \in Actors \ {a} : stopping'[b] = stopping[b]
        /\ stopping' \in [Actors -> [session : Runs \union {Nobody},
                                     at : {Nobody, "entering", "killing"}]]
    BY <1>2, <2>1
  <2> HIDE DEF s
  <2>3. lifecycle'[s] = a /\ \A t \in Runs \ {s} : lifecycle'[t] = lifecycle[t]
    BY <1>2, <2>1
  <2>4. Found' /\ Known' = Known
    BY <1>1, <2>1, RunsMove DEF SessionsInv, SameRuns, Live
  <2>5. SessionsTypeOK'
    <3>1. lifecycle' \in [Runs -> Actors \union {Nobody}]
      BY <1>2, <2>1
    <3>2. endedSessions' \subseteq Runs
      BY <1>1, <1>2 DEF SessionsInv, SessionsTypeOK
    <3> QED
      BY <1>1, <2>1, <2>2, <3>1, <3>2 DEF SessionsInv, SessionsTypeOK, identities
  <2>6. NotLost' /\ ProcessesOwned' /\ Registering'
    BY <1>1, <2>1, <2>4 DEF SessionsInv, ProcessesKept, NotLost, ProcessesOwned, Registering
  <2>7. \A q \in Runs : run[q].at = "launching" => run[q].session \in Runs \ {s}
    BY <1>1, <1>2 DEF SessionsInv, SessionsTypeOK, ProcessesKept, StartsHeld, Found, Born, Live
  <2>8. StartsHeld'
    BY <1>1, <2>1, <2>3, <2>7 DEF SessionsInv, ProcessesKept, StartsHeld
  <2>9. StopsHeld'
    <3>1. \A b \in Actors : stopping[b].at = "killing" => stopping[b].session \in Runs \ {s}
      BY <1>1, <1>2 DEF SessionsInv, ProcessesKept, StopsHeld
    <3>2. stopping[a].at # Nobody /\ s # Nobody
      BY <1>1, <1>2
    <3>3. ASSUME NEW b \in Actors \ {a}
          PROVE  /\ stopping'[b].at # Nobody =>
                      /\ stopping'[b].session # Nobody
                      /\ b \in Runs => run'[b].at \in {"interrupted", "removing"}
                      /\ b = StopAll => sweep'.at = "sweeping"
                 /\ stopping'[b].at = "killing" =>
                      /\ lifecycle'[stopping'[b].session] = b
                      /\ stopping'[b].session \in endedSessions'
                      /\ process'[stopping'[b].session] # Nobody
      BY <1>1, <2>1, <2>2, <2>3, <3>1 DEF SessionsInv, ProcessesKept, StopsHeld
    <3>4. /\ (a \in Runs => run'[a].at \in {"interrupted", "removing"})
          /\ a = StopAll => sweep'.at = "sweeping"
      BY <2>1, <3>2 DEF SessionsInv, ProcessesKept, StopsHeld
    <3>5. lifecycle'[s] = a /\ s \in endedSessions' /\ process'[s] # Nobody
      BY <1>1, <1>3, <2>3
    <3> QED
      BY <2>2, <3>2, <3>3, <3>4, <3>5 DEF StopsHeld
  <2>10. Removing'
    <3>1. \A q \in Runs : stopping'[q].session = stopping[q].session
      BY <1>2, <2>2 DEF Actors, s
    <3> QED
      BY <2>1, <2>4, <3>1 DEF SessionsInv, ProcessesKept, Removing
  <2>11. Swept' /\ StopAllIsFinal' /\ EveryPidRegistered' /\ RunsLeaveNothing'
    BY <1>1, <2>1, <2>4
    DEF SessionsInv, ProcessesKept, Swept, StopAllIsFinal, EveryPidRegistered, RunsLeaveNothing
  <2> QED
    BY <2>4, <2>5, <2>6, <2>8, <2>9, <2>10, <2>11 DEF SessionsInv, ProcessesKept
<1>4. CASE ~(process[s] # Nobody /\ proc[process[s]] = "running")
  <2>1. pids' = pids \ {process[s]} /\ Stopped(a, s, TRUE) /\ lifecycle' = lifecycle
    BY <1>4 DEF StopSession
  <2> HIDE DEF s
  <2>2. process[s] # Nobody => proc[process[s]] = "exited"
    BY <1>2, <1>4 DEF SessionsInv, ProcessesKept, ProcessesOwned
  <2>3. EveryPidRegistered'
    BY <1>1, <1>2, <1>4, <2>1 DEF SessionsInv, EveryPidRegistered
  <2>4. stopping[a].at # Nobody /\ stopping[a].session = s /\ TRUE \in BOOLEAN
    BY <1>1, <1>2 DEF s
  <2>5. \A q \in Runs : proc'[q] = proc[q]
    BY <1>1
  <2>6. /\ lifecycle[s] \in {Nobody, a} /\ lifecycle' \in [Runs -> Actors \union {Nobody}]
        /\ \A t \in Runs \ {s} : lifecycle'[t] = lifecycle[t]
        /\ faulty \subseteq faulty' /\ faulty' \subseteq Runs /\ pids' \subseteq Runs
        /\ proc' \in [Runs -> {Nobody, "running", "exited"}]
        /\ process[s] # Nobody => proc'[process[s]] = "exited"
    BY <1>1, <1>2, <2>1, <2>2
  <2> QED
    BY <1>1, <1>2, <2>1, <2>3, <2>4, <2>5, <2>6, StoppedKeeps
<1> QED
  BY <1>3, <1>4

LEMMA KilledKeeps ==
  ASSUME SessionsInv, NEW a \in Actors, Killed(a), resumed' = resumed
  PROVE  SessionsInv'
<1> DEFINE s == stopping[a].session
<1>1. /\ stopping[a].at = "killing" /\ lifecycle' = [lifecycle EXCEPT ![s] = Nobody]
      /\ UNCHANGED <<resumed, endedSessions, process, runCancels, abandoned>>
  BY DEF Killed
<1>2. /\ Nobody \notin Runs /\ Nobody \notin {"entering", "killing", "running", "exited"}
      /\ process \in [Runs -> Runs \union {Nobody}] /\ s \in Runs /\ process[s] \in Runs
      /\ s \in endedSessions /\ lifecycle[s] = a
      /\ proc \in [Runs -> {Nobody, "running", "exited"}]
      /\ lifecycle \in [Runs -> Actors \union {Nobody}] /\ pids \subseteq Runs /\ faulty \subseteq Runs
  BY <1>1, IdsTyped, SessionsAssumption DEF SessionsInv, SessionsTypeOK, Actors, ProcessesKept, StopsHeld
<1>3. PICK stopped \in BOOLEAN :
        /\ Stopped(a, s, stopped)
        /\ stopped => /\ proc' = [proc EXCEPT ![process[s]] = "exited"]
                      /\ pids' = pids \ {process[s]} /\ faulty' = faulty
        /\ ~stopped => faulty' = faulty \union {s} /\ UNCHANGED <<proc, pids>>
  <2>1. \/ /\ proc' = [proc EXCEPT ![process[s]] = "exited"]
           /\ pids' = pids \ {process[s]} /\ Stopped(a, s, TRUE) /\ faulty' = faulty
        \/ faulty' = faulty \union {s} /\ Stopped(a, s, FALSE) /\ UNCHANGED <<proc, pids>>
    BY DEF Killed
  <2> QED
    BY <2>1
<1>4. stopping[a].session = s /\ stopping[a].at # Nobody
  BY <1>1, <1>2
<1> HIDE DEF s
<1>5. proc[process[s]] # Nobody
  BY <1>2 DEF SessionsInv, ProcessesKept, ProcessesOwned
<1>6. /\ lifecycle' \in [Runs -> Actors \union {Nobody}]
      /\ \A t \in Runs \ {s} : lifecycle'[t] = lifecycle[t]
  BY <1>1, <1>2
<1>7. /\ proc' \in [Runs -> {Nobody, "running", "exited"}]
      /\ \A q \in Runs : proc'[q] = proc[q] \/ (proc[q] # Nobody /\ proc'[q] = "exited")
      /\ IF stopped THEN process[s] # Nobody => proc'[process[s]] = "exited" ELSE s \in faulty'
  <2>1. CASE stopped
    BY <1>2, <1>3, <1>5, <2>1
  <2>2. CASE ~stopped
    BY <1>2, <1>3, <2>2
  <2> QED
    BY <2>1, <2>2
<1>8. faulty \subseteq faulty' /\ faulty' \subseteq Runs /\ pids' \subseteq Runs
  BY <1>2, <1>3
<1>9. EveryPidRegistered'
  <2>1. CASE stopped
    BY <1>2, <1>3, <2>1 DEF SessionsInv, EveryPidRegistered
  <2>2. CASE ~stopped
    BY <1>3, <2>2 DEF SessionsInv, EveryPidRegistered
  <2> QED
    BY <2>1, <2>2
<1>10. endedSessions' = endedSessions \union {s} /\ lifecycle[s] \in {Nobody, a}
  BY <1>1, <1>2
<1> QED
  BY <1>1, <1>2, <1>3, <1>4, <1>6, <1>7, <1>8, <1>9, <1>10, StoppedKeeps

LEMMA SessionsStart ==
  ASSUME SessionsInit
  PROVE  SessionsInv
<1>1. Nobody \notin Ids /\ Nobody \notin Runs /\ StopAll \notin Runs /\ Cancels \in Nat
  BY SessionsAssumption DEF Actors
<1>2. SessionsTypeOK
  BY <1>1 DEF SessionsInit, SessionsTypeOK, NotStopping, Actors
<1>3. \A r \in Runs : <<"pending", r>> \in Ids
  BY <1>2, IdsTyped
<1>4. Found
  <2>1. Known = {}
    BY DEF SessionsInit, Known
  <2>2. Paired /\ Once
    BY <1>1 DEF SessionsInit, Paired, Once
  <2>3. Alone /\ Temporary /\ Resolved
    BY DEF SessionsInit, Alone, Temporary, Resolved, Live
  <2>4. Born
    BY <1>3, <2>1 DEF SessionsInit, Born, Live, Unused
  <2> QED
    BY <2>2, <2>3, <2>4 DEF Found
<1>5. ProcessesKept
  BY <1>1, SessionsAssumption
  DEF SessionsInit, ProcessesKept, NotLost, ProcessesOwned, StartsHeld, StopsHeld, Removing, Swept, Registering,
      NotStopping
<1>6. EveryPidRegistered /\ StopAllIsFinal /\ RunsLeaveNothing
  BY <1>1, SessionsAssumption DEF SessionsInit, EveryPidRegistered, StopAllIsFinal, RunsLeaveNothing
<1> QED
  BY <1>2, <1>4, <1>5, <1>6 DEF SessionsInv

LEMMA SessionsKeep ==
  ASSUME SessionsInv, [SessionsNext]_sessionVars
  PROVE  SessionsInv'
<1>1. CASE SessionsNext
  <2>1. resumed' = resumed
    BY <1>1 DEF SessionsNext, Progress, Disturbance
  <2>2. CASE \E r \in Runs : RunStep(r)
    BY <2>1, <2>2, CreateKeeps, LaunchKeeps, LaunchedKeeps, AnnounceKeeps, RegisterKeeps, RemoveKeeps,
       ExitKeeps DEF RunStep
  <2>3. CASE \E a \in Actors : StopSession(a) \/ Killed(a)
    BY <2>1, <2>3, StopSessionKeeps, KilledKeeps
  <2>4. CASE SweepEnds \/ (\E s \in Runs : SweepNext(s)) \/ Sweep
    BY <2>1, <2>4, SweepKeeps
  <2>5. CASE \E r \in Runs : Cancelled(r)
    BY <2>1, <2>5, CancelledKeeps
  <2> QED
    BY <1>1, <2>2, <2>3, <2>4, <2>5 DEF SessionsNext, Progress, Disturbance
<1>2. CASE UNCHANGED sessionVars
  <2>1. UNCHANGED <<resumed, manager, identities, ending, endedSessions, process, lifecycle, proc, pids,
                    run, stopping, sweep, runCancels, faulty, abandoned>>
    BY <1>2 DEF sessionVars
  <2>2. Found' /\ Known' = Known
    BY <2>1, RunsMove DEF SessionsInv, SameRuns, Live
  <2>3. SessionsTypeOK'
    BY <2>1 DEF SessionsInv, SessionsTypeOK, identities
  <2>4. ProcessesKept'
    BY <2>1, <2>2
    DEF SessionsInv, ProcessesKept, NotLost, ProcessesOwned, StartsHeld, StopsHeld, Removing, Swept, Registering
  <2>5. EveryPidRegistered' /\ StopAllIsFinal' /\ RunsLeaveNothing'
    BY <2>1, <2>2 DEF SessionsInv, EveryPidRegistered, StopAllIsFinal, RunsLeaveNothing
  <2> QED
    BY <2>2, <2>3, <2>4, <2>5 DEF SessionsInv
<1> QED
  BY <1>1, <1>2

(* A session is known under one identity: at most one in the two maps.     *)
LEMMA OneIdentity ==
  ASSUME SessionsTypeOK, Once, NEW s \in Runs
  PROVE  Cardinality({i \in Ids : pendingSessions[i] = s})
           + Cardinality({i \in Ids : real[i] = s}) <= 1
<1> DEFINE P == {i \in Ids : pendingSessions[i] = s}
           R == {i \in Ids : real[i] = s}
<1>1. s # Nobody
  BY IdsTyped
<1>2. P = {} \/ \E i : P = {i}
  BY <1>1 DEF Once
<1>3. R = {} \/ \E i : R = {i}
  BY <1>1 DEF Once
<1>4. P = {} \/ R = {}
  BY <1>1 DEF Once
<1> HIDE DEF P, R
<1>5. Cardinality(P) \in {0, 1} /\ Cardinality(R) \in {0, 1}
  BY <1>2, <1>3, FS_EmptySet, FS_Singleton
<1>6. Cardinality(P) = 0 \/ Cardinality(R) = 0
  BY <1>4, FS_EmptySet
<1>7. Cardinality(P) + Cardinality(R) <= 1
  BY <1>5, <1>6
<1> QED
  BY <1>7 DEF P, R

LEMMA SessionsHold ==
  ASSUME SessionsInv
  PROVE  SessionsTypeOK /\ SessionsOwned /\ SessionsSettle
<1>1. IdentitiesAgree
  <2>1. \A i \in Ids : tempToReal[i] # Nobody => realToTemp[tempToReal[i]] = i
    BY DEF SessionsInv, SessionsTypeOK, Found, Paired
  <2>2. \A i \in Ids : realToTemp[i] # Nobody <=> real[i] # Nobody
    BY DEF SessionsInv, Found, Once
  <2> QED
    BY <2>1, <2>2, OneIdentity DEF IdentitiesAgree, SessionsInv, Found
<1>2. NoLostProcess
  <2>1. ASSUME NEW r \in Runs, proc[r] = "running"
        PROVE  run[r].session \in Known /\ process[run[r].session] = r
    <3>1. run[r].session # Nobody /\ process[run[r].session] = r
      BY <2>1 DEF SessionsInv, ProcessesKept, ProcessesOwned
    <3>2. run[r].session \in Runs /\ Nobody \notin Runs
      BY <3>1, IdsTyped DEF SessionsInv, SessionsTypeOK
    <3> QED
      BY <2>1, <3>1, <3>2 DEF SessionsInv, ProcessesKept, ProcessesOwned
  <2> QED
    BY <2>1 DEF NoLostProcess
<1> QED
  BY <1>1, <1>2 DEF SessionsInv, SessionsOwned, SessionsSettle

(* The same without fairness: the form the composition uses.               *)
LEMMA SessionsStay ==
  SessionsInit /\ [][SessionsNext]_sessionVars => []SessionsTypeOK /\ []SessionsOwned /\ []SessionsSettle
<1>1. SessionsInit /\ [][SessionsNext]_sessionVars => []SessionsInv
  BY SessionsStart, SessionsKeep, PTL
<1>2. []SessionsInv => []SessionsTypeOK /\ []SessionsOwned /\ []SessionsSettle
  BY SessionsHold, PTL
<1> QED
  BY <1>1, <1>2

(* The registry of processes, the identities and the sessions agree, and   *)
(* what was stopped or removed leaves no process behind.                   *)
THEOREM SessionsSafe == SessionsSpec => []SessionsTypeOK /\ []SessionsOwned /\ []SessionsSettle
BY SessionsStay, PTL DEF SessionsSpec
=============================================================================
