---------------------------- MODULE ManagedSessions ----------------------------
(***************************************************************************)
(* The pool of managed Claude Code processes (cli/managed/manager.py,      *)
(* session.py, process_registry.py) as its callers drive it: a run of a    *)
(* node (messaging/node_runner.py) takes a session, starts its process,    *)
(* registers the identity the process announces and removes the session,   *)
(* and may be cancelled at every await; /stop and shutdown stop all.       *)
(* A session is named by the run that created it.  The manager's lock is   *)
(* held while a session stops, a session's lifecycle lock while its        *)
(* process starts or stops.  Not modelled: a second cancellation of the    *)
(* stop a cancelled reader shields.                                        *)
(***************************************************************************)
EXTENDS Naturals, FiniteSets

CONSTANTS Runs,            \* executions of nodes
          Conversations,   \* which session each run resumes, or Fresh: one of these
          Fresh, Nobody,  \* no session to resume; no identity, session or process
          Cancels          \* how often a run may be cancelled

StopAll == "stop all"
Actors == Runs \union {StopAll}

Tokens == {"pending", "claude"} \X Runs   \* identities this process makes up

Resumable == UNION {{c[r] : r \in Runs} : c \in Conversations}

Ids == (Tokens \union Resumable) \ {Fresh}

(* A session resumed from the store has an identity of an earlier process.  *)
ASSUME SessionsAssumption ==
    /\ Cancels \in Nat
    /\ Nobody \notin Actors \union Ids \union {"entering", "killing", "running", "exited"}
    /\ StopAll \notin Runs
    /\ Fresh \notin Tokens /\ Resumable \intersect Tokens = {}

VARIABLES resumed,         \* resumed[r]: the session of the parent of r, or Fresh
          manager,         \* holder of the manager's lock
          pendingSessions, real,   \* _pending_sessions, _sessions: identity -> session
          tempToReal, realToTemp,
          ending, endedSessions,   \* sessions being closed, and _closed
          process, lifecycle,      \* of a session: its process, the holder of its lock
          proc,            \* proc[r]: the process r started
          pids,            \* the registry of processes to kill at exit
          run,             \* run[r]: where r is and what it knows
          stopping,        \* stopping[a]: the session actor a stops, and how far
          sweep,           \* stop_all: what is left to stop, what failed
          runCancels,         \* bound: cancellations of a run
          faulty, abandoned   \* history: sessions with a failed stop, runs cancelled
                              \* while they removed their session

identities == <<pendingSessions, real, tempToReal, realToTemp>>

sessionVars == <<resumed, manager, identities, ending, endedSessions,
                 process, lifecycle, proc, pids, run, stopping, sweep, runCancels, faulty,
                 abandoned>>

TempOf(r) == IF resumed[r] = Fresh THEN <<"pending", r>> ELSE resumed[r]
Announced(r) == {<<"claude", r>>} \union ({resumed[r]} \ {Fresh})
NotStopping == [session |-> Nobody, at |-> Nobody]

SessionsTypeOK ==
    /\ resumed \in Conversations
    /\ manager \in Actors \union {Nobody}
    /\ pendingSessions \in [Ids -> Runs \union {Nobody}] /\ real \in [Ids -> Runs \union {Nobody}]
    /\ tempToReal \in [Ids -> Ids \union {Nobody}] /\ realToTemp \in [Ids -> Ids \union {Nobody}]
    /\ ending \subseteq Runs /\ endedSessions \subseteq Runs
    /\ process \in [Runs -> Runs \union {Nobody}] /\ lifecycle \in [Runs -> Actors \union {Nobody}]
    /\ proc \in [Runs -> {Nobody, "running", "exited"}] /\ pids \subseteq Runs
    /\ run \in [Runs -> [at : {"new", "got", "launching", "reading", "registering",
                               "interrupted", "cleanup", "removing", "ended"},
                         session : Runs \union {Nobody}, captured : Ids \union {Nobody},
                         temp : Ids \union {Nobody}]]
    /\ stopping \in [Actors ->
                       [session : Runs \union {Nobody}, at : {Nobody, "entering", "killing"}]]
    /\ sweep \in [at : {"idle", "sweeping", "done", "raised"}, left : SUBSET Runs,
                  stopped : SUBSET Runs]
    /\ runCancels \in [Runs -> 0 .. Cancels] /\ faulty \subseteq Runs
    /\ abandoned \subseteq Runs

SessionsInit ==
    /\ resumed \in Conversations
    /\ manager = Nobody
    /\ pendingSessions = [i \in Ids |-> Nobody] /\ real = [i \in Ids |-> Nobody]
    /\ tempToReal = [i \in Ids |-> Nobody] /\ realToTemp = [i \in Ids |-> Nobody]
    /\ ending = {} /\ endedSessions = {}
    /\ process = [s \in Runs |-> Nobody] /\ lifecycle = [s \in Runs |-> Nobody]
    /\ proc = [r \in Runs |-> Nobody] /\ pids = {}
    /\ run = [r \in Runs |-> [at |-> "new", session |-> Nobody, captured |-> Nobody,
                              temp |-> Nobody]]
    /\ stopping = [a \in Actors |-> NotStopping]
    /\ sweep = [at |-> "idle", left |-> {}, stopped |-> {}]
    /\ runCancels = [r \in Runs |-> 0] /\ faulty = {} /\ abandoned = {}

-----------------------------------------------------------------------------
LookupId(i) == IF tempToReal[i] # Nobody THEN tempToReal[i] ELSE i

SessionForId(i) ==
    LET lookup == LookupId(i)
    IN  IF real[lookup] # Nobody THEN real[lookup] ELSE pendingSessions[lookup]

Known == ({pendingSessions[i] : i \in Ids} \union {real[i] : i \in Ids}) \ {Nobody}

Go(r, place) == run' = [run EXCEPT ![r].at = place]

(* get_or_create_session.  The runs of one tree follow each other, so two   *)
(* replies to one session never overlap.                                    *)
GetOrCreate(r) ==
    LET found == IF resumed[r] = Fresh THEN Nobody ELSE SessionForId(resumed[r])
    IN  /\ run[r].at = "new" /\ manager = Nobody
        /\ \A q \in Runs \ {r} : resumed[q] = resumed[r] /\ resumed[r] # Fresh
                                    => run[q].at \in {"new", "ended"}
        /\ \/ /\ found = Nobody
              /\ pendingSessions' = [pendingSessions EXCEPT ![TempOf(r)] = r]
              /\ run' = [run EXCEPT ![r] = [at |-> "got", session |-> r, captured |-> Nobody,
                                            temp |-> TempOf(r)]]
           \/ /\ found # Nobody /\ found \notin ending
              /\ run' = [run EXCEPT ![r] = [at |-> "got", session |-> found,
                                            captured |-> LookupId(resumed[r]), temp |-> Nobody]]
              /\ UNCHANGED pendingSessions
           \/ found # Nobody /\ found \in ending /\ Go(r, "ended") /\ UNCHANGED pendingSessions
        /\ UNCHANGED <<manager, real, tempToReal, realToTemp, ending, endedSessions, process,
                       lifecycle, proc, pids, stopping, sweep, runCancels, faulty, abandoned>>

(* start_task.  One process of a session at a time: the generator of an     *)
(* abandoned run keeps _cli_lock until the stderr of its process ends.  The *)
(* process is started under the lifecycle lock.                             *)
CliLockFree(s) == process[s] # Nobody => proc[process[s]] = "exited"

Launch(r) ==
    LET s == run[r].session
    IN  /\ run[r].at = "got" /\ CliLockFree(s) /\ lifecycle[s] = Nobody
        /\ IF s \in endedSessions THEN Go(r, "cleanup") /\ UNCHANGED lifecycle
           ELSE Go(r, "launching") /\ lifecycle' = [lifecycle EXCEPT ![s] = r]
        /\ UNCHANGED <<manager, identities, ending, endedSessions,
                       process, proc, pids, stopping, sweep, runCancels, faulty, abandoned>>

Launched(r) ==
    LET s == run[r].session
    IN  /\ run[r].at = "launching"
        /\ lifecycle' = [lifecycle EXCEPT ![s] = Nobody]
        /\ \/ /\ process' = [process EXCEPT ![s] = r]
              /\ proc' = [proc EXCEPT ![r] = "running"]
              /\ pids' = pids \union {r}
              /\ Go(r, "reading")
           \/ Go(r, "cleanup") /\ UNCHANGED <<process, proc, pids>>
        /\ UNCHANGED <<manager, identities, ending, endedSessions,
                       stopping, sweep, runCancels, faulty, abandoned>>

(* The process announces its identity; register_real_session_id may wait    *)
(* for the manager's lock, and a refusal ends the run with an exception.    *)
Announce(r) ==
    /\ run[r].at = "reading" /\ run[r].temp # Nobody
    /\ Go(r, "registering")
    /\ UNCHANGED <<manager, identities, ending, endedSessions, process,
                   lifecycle, proc, pids, stopping, sweep, runCancels, faulty, abandoned>>

MayRegister(s, i) == s \notin ending /\ SessionForId(i) \in {Nobody, s}

Register(r) ==
    LET temp == run[r].temp
    IN  /\ run[r].at = "registering" /\ manager = Nobody
        /\ \E i \in Announced(r) :
              IF pendingSessions[temp] # Nobody /\ MayRegister(pendingSessions[temp], i)
              THEN /\ pendingSessions' = [pendingSessions EXCEPT ![temp] = Nobody]
                   /\ real' = [real EXCEPT ![i] = pendingSessions[temp]]
                   /\ tempToReal' = [tempToReal EXCEPT ![temp] = i]
                   /\ realToTemp' = [realToTemp EXCEPT ![i] = temp]
                   /\ run' = [run EXCEPT ![r] = [at |-> "reading", session |-> run[r].session,
                                                 captured |-> i, temp |-> Nobody]]
              ELSE Go(r, "cleanup") /\ UNCHANGED <<pendingSessions, real, tempToReal, realToTemp>>
        /\ UNCHANGED <<manager, ending, endedSessions, process, lifecycle, proc, pids, stopping,
                       sweep, runCancels, faulty, abandoned>>

ProcessExits(r) ==
    /\ proc[r] = "running"
    /\ proc' = [proc EXCEPT ![r] = "exited"]
    /\ UNCHANGED <<manager, identities, ending, endedSessions, process,
                   lifecycle, pids, run, stopping, sweep, runCancels, faulty, abandoned>>

(* The output ends and the process has exited.                              *)
RunFinished(r) ==
    /\ run[r].at = "reading" /\ proc[r] = "exited"
    /\ pids' = pids \ {r}
    /\ Go(r, "cleanup")
    /\ UNCHANGED <<manager, identities, ending, endedSessions, process,
                   lifecycle, proc, stopping, sweep, runCancels, faulty, abandoned>>

Begin(a, s) == stopping' = [stopping EXCEPT ![a] = [session |-> s, at |-> "entering"]]

(* A cancellation: of a reader, it stops the process first; elsewhere it    *)
(* goes to the removal at the end of the run, or ends that.                 *)
Cancelled(r) ==
    /\ runCancels[r] < Cancels /\ runCancels' = [runCancels EXCEPT ![r] = @ + 1]
    /\ \/ /\ run[r].at = "reading" /\ Go(r, "interrupted")
          /\ Begin(r, run[r].session) /\ UNCHANGED <<manager, lifecycle, abandoned>>
       \/ /\ run[r].at \in {"got", "launching", "registering"} /\ Go(r, "cleanup")
          /\ lifecycle' = [s \in Runs |-> IF lifecycle[s] = r THEN Nobody ELSE lifecycle[s]]
          /\ UNCHANGED <<manager, stopping, abandoned>>
       \/ /\ run[r].at \in {"cleanup", "removing"} /\ Go(r, "ended")
          /\ manager' = IF manager = r THEN Nobody ELSE manager
          /\ lifecycle' = [s \in Runs |-> IF lifecycle[s] = r THEN Nobody ELSE lifecycle[s]]
          /\ stopping' = [stopping EXCEPT ![r] = NotStopping]
          /\ abandoned' = abandoned \union {r}
    /\ UNCHANGED <<identities, ending, endedSessions, process, proc,
                   pids, sweep, faulty>>

(* remove_session, under the identity the run knows last.                   *)
RemoveSession(r) ==
    LET i == IF run[r].captured # Nobody THEN run[r].captured ELSE run[r].temp
        s == IF i = Nobody THEN Nobody ELSE SessionForId(i)
    IN  /\ run[r].at = "cleanup" /\ manager = Nobody
        /\ IF s = Nobody THEN Go(r, "ended") /\ UNCHANGED <<manager, ending, stopping>>
           ELSE /\ manager' = r /\ ending' = ending \union {s}
                /\ Begin(r, s)
                /\ Go(r, "removing")
        /\ UNCHANGED <<identities, endedSessions, process, lifecycle,
                       proc, pids, sweep, runCancels, faulty, abandoned>>

(* stop_all, /stop or shutdown: every session, also those already closing.  *)
Sweep ==
    /\ sweep.at = "idle" /\ manager = Nobody
    /\ manager' = StopAll
    /\ ending' = ending \union Known
    /\ sweep' = [sweep EXCEPT !.at = "sweeping", !.left = ending \union Known]
    /\ UNCHANGED <<identities, endedSessions, process, lifecycle, proc,
                   pids, run, stopping, runCancels, faulty, abandoned>>

SweepNext(s) ==
    /\ sweep.at = "sweeping" /\ stopping[StopAll] = NotStopping /\ s \in sweep.left
    /\ Begin(StopAll, s)
    /\ UNCHANGED <<manager, identities, ending, endedSessions, process,
                   lifecycle, proc, pids, run, sweep, runCancels, faulty, abandoned>>

SweepEnds ==
    /\ sweep.at = "sweeping" /\ stopping[StopAll] = NotStopping /\ sweep.left = {}
    /\ manager' = Nobody
    /\ sweep' = [sweep EXCEPT !.at = IF sweep.stopped \intersect faulty = {}
                                     THEN "done" ELSE "raised"]
    /\ UNCHANGED <<identities, ending, endedSessions, process,
                   lifecycle, proc, pids, run, stopping, runCancels, faulty, abandoned>>

(* A fault, for the checks only: the aliases of real identities stay.       *)
NoAliases(reals) == {}

Aliases(reals) == {realToTemp[i] : i \in reals}

(* What follows a stop: the session is forgotten if it stopped.             *)
Forget(s) ==
    LET reals == {i \in Ids : real[i] = s}
        temps == Aliases(reals)
    IN  /\ pendingSessions' = [i \in Ids |->
                                IF pendingSessions[i] = s THEN Nobody ELSE pendingSessions[i]]
        /\ real' = [i \in Ids |-> IF i \in reals THEN Nobody ELSE real[i]]
        /\ realToTemp' = [i \in Ids |-> IF i \in reals THEN Nobody ELSE realToTemp[i]]
        /\ tempToReal' = [i \in Ids |-> IF i \in temps THEN Nobody ELSE tempToReal[i]]
        /\ ending' = ending \ {s}

(* A fault, for the checks only: a failed stop keeps the lock.              *)
Kept(a, stopped) == IF ~stopped \/ run[a].at = "interrupted" THEN manager ELSE Nobody

Unlocked(a, stopped) == IF run[a].at = "interrupted" THEN manager ELSE Nobody

Stopped(a, s, stopped) ==
    /\ stopping' = [stopping EXCEPT ![a] = NotStopping]
    /\ IF stopped /\ ~(a \in Runs /\ run[a].at = "interrupted") THEN Forget(s)
       ELSE UNCHANGED <<identities, ending>>
    /\ IF a = StopAll
       THEN /\ sweep' = [sweep EXCEPT !.left = @ \ {s}, !.stopped = @ \union {s}]
            /\ UNCHANGED <<run, manager>>
       ELSE /\ Go(a, IF run[a].at = "interrupted" THEN "cleanup" ELSE "ended")
            /\ manager' = Unlocked(a, stopped)
            /\ UNCHANGED sweep

(* A fault, for the checks only: a session can be started after its stop.   *)
StillOpen(s) == endedSessions

Closed(s) == endedSessions \union {s}

(* stop of a session: nothing to do, an exited process, or one to kill.     *)
StopSession(a) ==
    LET s == stopping[a].session
    IN  /\ stopping[a].at = "entering" /\ lifecycle[s] = Nobody
        /\ endedSessions' = Closed(s)
        /\ IF process[s] # Nobody /\ proc[process[s]] = "running"
           THEN /\ lifecycle' = [lifecycle EXCEPT ![s] = a]
                /\ stopping' = [stopping EXCEPT ![a].at = "killing"]
                /\ UNCHANGED <<identities, ending, sweep, run,
                               manager, pids>>
           ELSE /\ pids' = pids \ {process[s]}
                /\ Stopped(a, s, TRUE)
                /\ UNCHANGED lifecycle
        /\ UNCHANGED <<process, proc, runCancels, faulty, abandoned>>

(* The process is dead, at the latest when it is killed after the timeout,  *)
(* or an exception leaves the session closing.                              *)
Killed(a) ==
    LET s == stopping[a].session
    IN  /\ stopping[a].at = "killing"
        /\ lifecycle' = [lifecycle EXCEPT ![s] = Nobody]
        /\ \/ /\ proc' = [proc EXCEPT ![process[s]] = "exited"]
              /\ pids' = pids \ {process[s]}
              /\ Stopped(a, s, TRUE) /\ UNCHANGED faulty
           \/ /\ faulty' = faulty \union {s}
              /\ Stopped(a, s, FALSE) /\ UNCHANGED <<proc, pids>>
        /\ UNCHANGED <<endedSessions, process, runCancels, abandoned>>

RunStep(r) ==
    \/ GetOrCreate(r) \/ Launch(r) \/ Launched(r) \/ Announce(r) \/ Register(r)
    \/ RunFinished(r) \/ RemoveSession(r) \/ ProcessExits(r)

Progress ==
    /\ \/ \E r \in Runs : RunStep(r)
       \/ \E a \in Actors : StopSession(a) \/ Killed(a)
       \/ SweepEnds \/ \E s \in Runs : SweepNext(s)
    /\ UNCHANGED resumed

Disturbance == (Sweep \/ \E r \in Runs : Cancelled(r)) /\ UNCHANGED resumed

SessionsNext == Progress \/ Disturbance

(* The event loop runs what can run; a process ends sometime or is killed.  *)
SessionsSpec == SessionsInit /\ [][SessionsNext]_sessionVars /\ WF_sessionVars(Progress)

-----------------------------------------------------------------------------
(* The registry kills at exit every process that may still run.             *)
EveryPidRegistered == \A r \in Runs : proc[r] = "running" => r \in pids

(* An identity leads to one session and back: a temporary identity and the  *)
(* real one registered for it belong together, and no session has two.      *)
IdentitiesAgree ==
    /\ \A i \in Ids : tempToReal[i] # Nobody => realToTemp[tempToReal[i]] = i
    /\ \A i \in Ids : realToTemp[i] # Nobody <=> real[i] # Nobody
    /\ \A s \in Runs : Cardinality({i \in Ids : pendingSessions[i] = s})
                         + Cardinality({i \in Ids : real[i] = s}) <= 1

(* A running process belongs to a session the manager can still find.       *)
NoLostProcess ==
    \A r \in Runs : proc[r] = "running"
       => \E s \in Known \union ending : process[s] = r

SessionsOwned == EveryPidRegistered /\ IdentitiesAgree /\ NoLostProcess

(* What stop_all has stopped without an error stays stopped, also a process *)
(* that was just being started.                                             *)
StopAllIsFinal ==
    sweep.at = "done" => \A s \in sweep.stopped : process[s] # Nobody => proc[process[s]] = "exited"

(* A run that ends leaves no process and no session behind, unless its      *)
(* removal was cancelled or a process could not be stopped.                 *)
RunsLeaveNothing ==
    \A r \in Runs : run[r].at = "ended" /\ r \notin abandoned /\ faulty = {}
       => proc[r] # "running" /\ (r \in Known => run[r].session # r)

SessionsSettle == StopAllIsFinal /\ RunsLeaveNothing

(* A run does not wait for ever for a lock of the pool or of a session, nor *)
(* a stop for a run (get_or_create_session, start_task, remove_session,     *)
(* stop_all).                                                               *)
RunsLeft == sweep.at # "sweeping" /\ \A r \in Runs : run[r].at \in {"new", "ended"}

EveryRunLeaves == []<>RunsLeft
=============================================================================
