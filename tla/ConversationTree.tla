--------------------------- MODULE ConversationTree ---------------------------
(***************************************************************************)
(* The conversations of one chat (messaging/trees/*, messaging/workflow.py *)
(* and the intake of messaging/turn_intake.py): every prompt is a node of a*)
(* reply tree, a tree runs one node at a time and queues the others, and   *)
(* /stop and /clear cancel, detach and drain what is queued or running.    *)
(*                                                                         *)
(* A turn is one delivery of one prompt; a platform may deliver a prompt   *)
(* again, so a message is named by the first turn that delivered it, and a *)
(* tree by the turn of its root.  Every node is claimed at most once, so   *)
(* the turn also stands for the claim id of its execution.                 *)
(*                                                                         *)
(* The sections under the manager's lock never suspend, so each is one     *)
(* step; the workflow's state lock is held across the drain of a command.  *)
(* Abstracted: texts, platform calls, and the stop and clear generations,  *)
(* which are one number because there is one chat.                         *)
(***************************************************************************)
EXTENDS Naturals, Sequences, SequencesExt

CONSTANTS
  MaxTurns,      \* deliveries of prompts
  Openers,       \* the turns that may come without a reply
  Redelivered,   \* the turns that may repeat an earlier message
  Commands,      \* /stop and /clear commands
  SlowStops,     \* whether a process may take longer to stop than a drain waits
  None           \* no tree, no reply, no command

ASSUME TurnsAssumption == MaxTurns \in Nat \ {0}
ASSUME DeliveryAssumption == Openers \union Redelivered \subseteq 1 .. MaxTurns
ASSUME StopsAssumption == SlowStops \in BOOLEAN

Turns == 1 .. MaxTurns

Prompt(m) == [kind |-> "prompt", of |-> m]

Status(i) == [kind |-> "status", of |-> i]

(* What a user can reply to: a prompt, or the status message of a turn.    *)
References == {Prompt(m) : m \in Turns} \union {Status(i) : i \in Turns}

ASSUME NoneAssumption ==
  None \notin Turns /\ None \notin References /\ None \notin Commands

VARIABLES
  message,    \* the message each turn delivers
  reply,      \* the reference each turn replies to
  token,      \* the generation each turn was received in
  state,      \* the stage of intake of a turn, then the state of its node
  tree,       \* the tree of each node
  nodes,      \* nodes in the graph of their tree
  statuses,   \* nodes that have a status message
  sessions,   \* nodes with a session to resume
  queue,      \* the queue of each tree
  active,     \* the claim of each tree
  tombstones, \* claims whose cancellation was requested
  published,  \* the trees of the repository, oldest first
  index,      \* the tree every reference leads to
  task,       \* where the task of each claim is suspended
  generation, \* the number of stops and clears so far
  lock,       \* the command that holds the workflow's state lock
  command,    \* what each command does
  draining    \* the tasks each command waits for

vars == <<message, reply, token, state, tree, nodes, statuses, sessions, queue,
          active, tombstones, published, index, task, generation, lock,
          command, draining>>

intake == <<message, reply, token, generation>>

graph == <<tree, nodes, statuses, published, index>>

workflow == <<lock, command, draining>>

------------------------------------------------------------------------------
Published == ToSet(published)

NodeAt(t, m) == {i \in nodes : tree[i] = t /\ message[i] = m}

NodesOf(t) == {i \in nodes : tree[i] = t}

Runnable == {"pending", "in_progress"}

Resolves(t, r) ==
  CASE r.kind = "prompt" -> NodeAt(t, r.of) # {}
    [] r.kind = "status" -> r.of \in NodesOf(t) \intersect statuses

Resolved(t) == {x \in References : Resolves(t, x)}

(* The published tree that has the identity of the tree of turn i.         *)
TreeWithIdentity(i) == {t \in Published : message[t] = message[tree[i]]}

\* a fault, for the checks only
MayWriteCancelled(i) == \E t \in TreeWithIdentity(i) : active[t] = i

(* A claim may still change its node: its tree is published, the claim is  *)
(* the active one, and nobody asked for its cancellation.                  *)
MayWrite(i) ==
  \E t \in TreeWithIdentity(i) : active[t] = i /\ i \notin tombstones

Init ==
  /\ message = [i \in Turns |-> i]
  /\ reply = [i \in Turns |-> None]
  /\ token = [i \in Turns |-> 0]
  /\ state = [i \in Turns |-> "unseen"]
  /\ tree = [i \in Turns |-> None]
  /\ nodes = {} /\ statuses = {} /\ sessions = {}
  /\ queue = [i \in Turns |-> << >>]
  /\ active = [i \in Turns |-> None]
  /\ tombstones = {}
  /\ published = << >>
  /\ index = [r \in References |-> None]
  /\ task = [i \in Turns |-> "none"]
  /\ generation = 0
  /\ lock = None
  /\ command = [c \in Commands |->
        [stage |-> "idle", op |-> None, target |-> None]]
  /\ draining = [c \in Commands |-> {}]

------------------------------------------------------------------------------
(* Intake.                                                                 *)

Earlier(i) == {j \in Turns : j < i /\ state[j] # "unseen"}

(* A prompt arrives: the generation is read under the state lock and the   *)
(* message it replies to is resolved.  Its status message is sent next, so *)
(* stops and clears may come before its admission.                         *)
Receive(i) ==
  /\ lock = None
  /\ state[i] = "unseen" /\ \A j \in 1 .. i - 1 : state[j] # "unseen"
  /\ \/ /\ \E r \in References :
             index[r] # None /\ reply' = [reply EXCEPT ![i] = r]
        /\ UNCHANGED message
     \/ i \in Openers /\ UNCHANGED <<message, reply>>
     \/ /\ i \in Redelivered
        /\ \E j \in Earlier(i) :
          /\ message' = [message EXCEPT ![i] = message[j]]
          /\ reply' = [reply EXCEPT ![i] =
                IF reply[j] # None /\ index[reply[j]] # None
                THEN reply[j] ELSE None]
  /\ token' = [token EXCEPT ![i] = generation]
  /\ state' = [state EXCEPT ![i] = "received"]
  /\ UNCHANGED <<graph, sessions, queue, active, tombstones, task, generation,
                 workflow>>

\* a fault, for the checks only
AnyToken(i) == TRUE

(* No stop and no clear has come since the turn was received.              *)
IsCurrent(i) == token[i] = generation

\* a fault, for the checks only
TreeAtIntake(i) == tree[reply[i].of]

(* The tree of the parent is looked up again at admission.                 *)
TreeOfReply(i) == index[reply[i]]

IsDuplicate(i) == index[Prompt(message[i])] # None

ParentRemoved(i) == reply[i] # None /\ TreeOfReply(i) = None

(* A turn that a stop or a clear overtook, whose parent is gone or that is *)
(* there already is discarded.  (enqueue_or_claim refuses a node that is   *)
(* there: a pending node is queued already.)                               *)
Discard(i) ==
  /\ lock = None /\ state[i] = "received"
  /\ ~IsCurrent(i) \/ IsDuplicate(i) \/ ParentRemoved(i)
  /\ state' = [state EXCEPT ![i] = "discarded"]
  /\ UNCHANGED <<intake, graph, sessions, queue, active, tombstones, task,
                 workflow>>

(* The tree a new turn joins: that of its parent, or its own.              *)
TreeFor(i) == IF reply[i] = None THEN i ELSE TreeOfReply(i)

(* The new node is claimed and launched at once when its tree is idle,     *)
(* queued otherwise.                                                       *)
EnqueueOrClaim(t, i) ==
  IF active[t] = None
  THEN /\ active' = [active EXCEPT ![t] = i]
       /\ state' = [state EXCEPT ![i] = "in_progress"]
       /\ task' = [task EXCEPT ![i] = "created"]
       /\ UNCHANGED queue
  ELSE /\ queue' = [queue EXCEPT ![t] = Append(@, message[i])]
       /\ state' = [state EXCEPT ![i] = "pending"]
       /\ UNCHANGED <<active, task>>

(* The node and its status join the graph, and both their references the   *)
(* index; a new tree is published (add_node, register_references).          *)
AddNode(i) == nodes' = nodes \union {i} /\ statuses' = statuses \union {i}

RegisterReferences(t, i) ==
  /\ tree' = [tree EXCEPT ![i] = t]
  /\ index' = [index EXCEPT ![Prompt(message[i])] = t, ![Status(i)] = t]
  /\ published' = IF reply[i] = None THEN Append(published, i) ELSE published

Admit(i) ==
  /\ lock = None /\ state[i] = "received" /\ IsCurrent(i)
  /\ ~IsDuplicate(i) /\ ~ParentRemoved(i)
  /\ AddNode(i)
  /\ EnqueueOrClaim(TreeFor(i), i) /\ RegisterReferences(TreeFor(i), i)
  /\ UNCHANGED <<intake, sessions, tombstones, workflow>>

------------------------------------------------------------------------------
(* The task of a claim.                                                    *)

Moves(i, from, to) == task[i] = from /\ task' = [task EXCEPT ![i] = to]

(* The body of a new task starts; a successor announces itself first, and  *)
(* the callbacks it awaits may suspend it.                                 *)
Start(i) ==
  /\ \/ Moves(i, "created", "running")
     \/ Moves(i, "chosen", "announcing")
     \/ Moves(i, "announcing", "running")
  /\ UNCHANGED <<intake, state, graph, sessions, queue, active, tombstones,
                 workflow>>

(* A runner can report until it returns: the trees do not rely on a        *)
(* cancelled one to keep quiet.                                            *)
Reports(i) == task[i] \in {"running", "stopping"}

(* The session the process reports is recorded for the live claim only.    *)
RecordSession(i) ==
  /\ Reports(i) /\ MayWrite(i) /\ state[i] = "in_progress"
  /\ sessions' = sessions \union {i}
  /\ UNCHANGED <<intake, state, graph, queue, active, tombstones, task,
                 workflow>>

(* A late success may replace an error of the same run, never that of a    *)
(* cancellation.                                                           *)
CompleteClaim(i) ==
  /\ Reports(i) /\ MayWrite(i)
  /\ state[i] \in {"in_progress", "error"}
  /\ state' = [state EXCEPT ![i] = "completed"]
  /\ sessions' = sessions \union {i}
  /\ UNCHANGED <<intake, graph, queue, active, tombstones, task, workflow>>

ParentOf(j) ==
  CASE reply[j] = None -> None
    [] reply[j] # None /\ reply[j].kind = "prompt" -> reply[j].of
    [] reply[j] # None /\ reply[j].kind = "status" -> message[reply[j].of]

(* The messages that hang on m in the graph, m left out: those that no set *)
(* with the children of m and of its own members leaves out.               *)
Descendants(t, m) ==
  LET all == {message[i] : i \in NodesOf(t)}
      closed == {S \in SUBSET all : \A j \in NodesOf(t) :
                      message[j] \in S \/ ParentOf(j) \notin S \union {m}}
  IN all \ UNION {all \ S : S \in closed}

\* a fault, for the checks only
Everything(q, gone) == q

(* The entries of a queue that are not removed, in their order.            *)
Remaining(q, gone) ==
  LET kept[n \in 0 .. Len(q)] ==
        IF n = 0 THEN << >>
        ELSE IF q[n] \in gone THEN kept[n - 1] ELSE Append(kept[n - 1], q[n])
  IN kept[Len(q)]

PendingBelow(t, i) ==
  LET below == Descendants(t, message[i])
  IN {j \in NodesOf(t) : message[j] \in below /\ state[j] = "pending"}

(* The effect of fail_claim: the node fails unless it completed, and with  *)
(* propagation its pending descendants fail and leave the queue.           *)
Fails(i, propagate) ==
  IF ~MayWrite(i) \/ state[i] = "completed"
  THEN UNCHANGED <<state, queue>>
  ELSE LET t == tree[i]
           below == IF propagate THEN PendingBelow(t, i) ELSE {}
       IN /\ state' = [j \in Turns |->
                IF j \in below \union {i} THEN "error" ELSE state[j]]
          /\ queue' = [queue EXCEPT ![t] =
                Remaining(@, {message[j] : j \in below})]

(* The runner reports an error and goes on: the process may still succeed, *)
(* or report another error that its descendants must not outlive.          *)
FailClaim(i, propagate) ==
  /\ Reports(i) /\ MayWrite(i)
  /\ state[i] \in {"in_progress", "error"}
  /\ Fails(i, propagate)
  /\ UNCHANGED <<intake, graph, sessions, active, tombstones, task, workflow>>

(* The runner returns once its node has an outcome.                        *)
RunnerEnds(i) ==
  /\ state[i] # "in_progress"
  /\ Moves(i, "running", "finishing")
  /\ UNCHANGED <<intake, state, graph, sessions, queue, active, tombstones,
                 workflow>>

(* An exception escapes the runner: the failure callback fails the claim.  *)
RunnerEscapes(i) ==
  /\ Moves(i, "running", "finishing")
  /\ Fails(i, TRUE)
  /\ UNCHANGED <<intake, graph, sessions, active, tombstones, workflow>>

(* A cancelled runner has stopped its process and returns; its claim takes *)
(* no failure any more.                                                    *)
RunnerStopped(i) ==
  /\ Moves(i, "stopping", "finishing")
  /\ UNCHANGED <<intake, state, graph, sessions, queue, active, tombstones,
                 workflow>>

(* The positions of the queue that hold a node that can run.               *)
Ready(t) ==
  {p \in DOMAIN queue[t] :
     \E j \in NodeAt(t, queue[t][p]) : state[j] = "pending"}

First(S) == CHOOSE p \in S : \A q \in S : p <= q

IsPublished(t) == t \in Published

(* The claim is released and the first node of the queue that can run is   *)
(* claimed; its task is launched only while the tree is published.         *)
FinishAndClaimNext(i) ==
  LET t == tree[i] IN
  CASE active[t] # i ->
         /\ task' = [task EXCEPT ![i] = "none"]
         /\ UNCHANGED <<active, queue, state>>
    [] active[t] = i /\ Ready(t) = {} ->
         /\ active' = [active EXCEPT ![t] = None]
         /\ queue' = [queue EXCEPT ![t] = << >>]
         /\ task' = [task EXCEPT ![i] = "none"]
         /\ UNCHANGED state
    [] active[t] = i /\ Ready(t) # {} ->
         LET p == First(Ready(t))
             next == CHOOSE j \in NodeAt(t, queue[t][p]) :
                       state[j] = "pending"
         IN /\ active' = [active EXCEPT ![t] = next]
            /\ queue' = [queue EXCEPT ![t] = SubSeq(@, p + 1, Len(@))]
            /\ state' = [state EXCEPT ![next] = "in_progress"]
            /\ task' = [task EXCEPT ![i] = "none",
                  ![next] = IF IsPublished(t) THEN "chosen" ELSE "none"]

\* a fault, for the checks only
EndedInBody(i) == task[i] = "finishing"

(* The task has ended, or never began and its recovery ends it.            *)
HasEnded(i) == task[i] \in {"finishing", "unentered"}

Finish(i) ==
  /\ HasEnded(i)
  /\ FinishAndClaimNext(i)
  /\ UNCHANGED <<intake, graph, sessions, tombstones, workflow>>

TaskStep(i) ==
  \/ Start(i) \/ CompleteClaim(i) \/ FailClaim(i, TRUE) \/ FailClaim(i, FALSE)
  \/ RunnerEnds(i) \/ RunnerEscapes(i) \/ RunnerStopped(i) \/ Finish(i)

------------------------------------------------------------------------------
(* The commands.                                                           *)

\* a fault, for the checks only
StruckForGood(stage) ==
  CASE stage \in {"created", "chosen"} -> "none"
    [] stage = "announcing" -> "finishing"
    [] stage = "running" -> "stopping"
    [] OTHER -> stage

(* What a cancellation does to the task of a claim: a body that has not    *)
(* started never will, an announcement ends, a runner stops its process.   *)
Struck(stage) ==
  CASE stage \in {"created", "chosen"} -> "unentered"
    [] stage = "announcing" -> "finishing"
    [] stage = "running" -> "stopping"
    [] OTHER -> stage

Live == {i \in Turns : task[i] # "none"}

(* The claims S are cancelled: later writes are refused, tasks are struck. *)
CancelClaims(c, S) ==
  /\ tombstones' = tombstones \union S
  /\ task' = [i \in Turns |-> IF i \in S THEN Struck(task[i]) ELSE task[i]]
  /\ draining' = [draining EXCEPT ![c] = S \intersect Live]

FailRunnable(S) ==
  state' = [i \in Turns |->
    IF i \in S /\ state[i] \in Runnable THEN "error" ELSE state[i]]

Drains(c) ==
  command' = [command EXCEPT ![c].stage = "draining"] /\ UNCHANGED lock

Returns(c, stage) ==
  /\ command' = [command EXCEPT ![c] =
        [stage |-> stage, op |-> None, target |-> None]]
  /\ lock' = None

(* A command takes the state lock.  /stop and /clear of the chat advance   *)
(* the generation before the trees are touched.                            *)
Begin(c, op, target) ==
  /\ lock = None /\ command[c].stage = "idle"
  /\ lock' = c
  /\ command' = [command EXCEPT ![c] =
        [stage |-> "committing", op |-> op, target |-> target]]
  /\ generation' = IF target = None THEN generation + 1 ELSE generation
  /\ UNCHANGED <<message, reply, token, state, graph, sessions, queue, active,
                 tombstones, task, draining>>

BeginAny(c) ==
  \/ Begin(c, "stop", None)
  \/ Begin(c, "clear", None)
  \/ \E r \in References : index[r] # None /\ Begin(c, "stop_reply", r)
  \/ \E r \in References : index[r] # None /\ Begin(c, "clear_reply", r)

Commits(c, op) == command[c].stage = "committing" /\ command[c].op = op

(* The claim of tree t, if its node is one of the messages ms.             *)
ClaimOn(t, ms) == {i \in Turns : active[t] = i /\ message[i] \in ms}

(* _ui_target raises for a node whose status was cleared: the cancellation *)
(* of an active node that has failed asks for it.                          *)
LacksTarget(t, ms) ==
  \E i \in ClaimOn(t, ms) : \E j \in NodeAt(t, message[i]) :
     state[j] = "error" /\ j \notin statuses

(* The command fails in the middle: nothing is drained.                    *)
Raise(c) == Returns(c, "raised") /\ UNCHANGED draining

MessageOf(r) == IF r.kind = "prompt" THEN r.of ELSE message[r.of]

(* /stop as a reply: one active, queued or stale node.                     *)
StopReply(c) ==
  /\ Commits(c, "stop_reply")
  /\ LET r == command[c].target
         t == index[r]
         ms == {MessageOf(r)}
     IN /\ queue' = [queue EXCEPT ![t] = Remaining(@, ms)]
        /\ FailRunnable(NodeAt(t, MessageOf(r)))
        /\ IF LacksTarget(t, ms)
           THEN /\ Raise(c)
                /\ tombstones' = tombstones \union ClaimOn(t, ms)
                /\ UNCHANGED task
           ELSE CancelClaims(c, ClaimOn(t, ms)) /\ Drains(c)
  /\ UNCHANGED <<intake, graph, sessions, active>>

\* a fault, for the checks only
AnsweredLogically(t, x) ==
  IF x.kind = "status" THEN Prompt(message[x.of])
  ELSE LET i == CHOOSE j \in NodeAt(t, x.of) : TRUE
       IN IF reply[i] = None THEN None ELSE Prompt(ParentOf(i))

(* What a reference hangs on: a status on its prompt, a prompt on what it  *)
(* replies to.                                                             *)
Answered(t, x) ==
  IF x.kind = "status" THEN Prompt(message[x.of])
  ELSE LET i == CHOOSE j \in NodeAt(t, x.of) : TRUE IN reply[i]

(* The literal reply subtree: the references that no set with r and what   *)
(* hangs on its members leaves out.                                        *)
Subtree(t, r) ==
  LET all == Resolved(t)
      closed == {S \in SUBSET all : r \in S /\ \A x \in all \ S : Answered(t, x) \notin S}
  IN all \ UNION {all \ S : S \in closed}

(* Removing a status keeps its prompt, without response and session.       *)
Invalidated(r) == IF r.kind = "status" THEN {r.of} ELSE {}

\* a fault, for the checks only
InvalidatedOnly(r, gone) == Invalidated(r)

(* The nodes a /clear of a reference cancels.                              *)
Affected(r, gone) == gone \union Invalidated(r)

WithoutTrees(T) ==
  [r \in References |-> IF index[r] \in T THEN None ELSE index[r]]

\* a fault, for the checks only
WithoutPrompts(t, R) ==
  [r \in References |->
     IF r \in R /\ r.kind = "prompt" /\ index[r] = t THEN None ELSE index[r]]

WithoutReferences(t, R) ==
  [r \in References |->
     IF r \in R /\ index[r] = t THEN None ELSE index[r]]

(* /clear as a reply: a message and its reply subtree leave the tree.      *)
ClearReply(c) ==
  /\ Commits(c, "clear_reply")
  /\ LET r == command[c].target
         t == index[r]
         cut == Subtree(t, r)
         gone == {i \in NodesOf(t) : Prompt(message[i]) \in cut}
         affected == Affected(r, gone)
         ms == {message[i] : i \in affected}
     IN IF LacksTarget(t, ms)
        THEN \E S \in SUBSET affected : \* those visited before the failure
          /\ tombstones' = tombstones \union ClaimOn(t, ms)
          /\ queue' = [queue EXCEPT ![t] = Remaining(@, {message[i] : i \in S})]
          /\ FailRunnable(S)
          /\ Raise(c)
          /\ UNCHANGED <<nodes, statuses, sessions, index, published, task>>
        ELSE
          /\ CancelClaims(c, ClaimOn(t, ms))
          /\ queue' = [queue EXCEPT ![t] = Remaining(@, ms)]
          /\ state' = [i \in Turns |->
                IF i \in Invalidated(r) \/ (i \in gone /\ state[i] \in Runnable)
                THEN "error" ELSE state[i]]
          /\ nodes' = nodes \ gone
          /\ statuses' = statuses \ affected
          /\ sessions' = sessions \ affected
          /\ IF t \in gone
             THEN /\ published' = Remaining(published, {t})
                  /\ index' = WithoutTrees({t})
             ELSE /\ index' = WithoutReferences(t, cut)
                  /\ UNCHANGED published
          /\ Drains(c)
  /\ UNCHANGED <<intake, tree, active>>

(* The trees are cancelled in order; the first without a target for its    *)
(* active node ends the loop.                                              *)
Blocked == {p \in DOMAIN published : LacksTarget(published[p], Turns)}

Handled == IF Blocked = {} THEN Len(published) ELSE First(Blocked) - 1

ClaimsOf(T) == {active[t] : t \in T} \ {None}

(* /stop and /clear of the chat: every runnable node fails and every queue *)
(* is emptied; a clear also detaches the trees.                            *)
CancelAll(c, op) ==
  /\ Commits(c, op)
  /\ LET done == ToSet(SubSeq(published, 1, Handled))
         stuck == IF Blocked = {} THEN {} ELSE {published[First(Blocked)]}
     IN /\ FailRunnable({i \in nodes : tree[i] \in done})
        /\ queue' = [t \in Turns |-> IF t \in done THEN << >> ELSE queue[t]]
        /\ tombstones' = tombstones \union ClaimsOf(done \union stuck)
        /\ task' = [i \in Turns |->
              IF i \in ClaimsOf(done) THEN Struck(task[i]) ELSE task[i]]
        /\ IF stuck = {}
           THEN /\ draining' =
                     [draining EXCEPT ![c] = ClaimsOf(done) \intersect Live]
                /\ Drains(c)
           ELSE Raise(c)
        /\ IF op = "clear"
           THEN /\ published' = SubSeq(published, Handled + 1, Len(published))
                /\ index' = WithoutTrees(done)
           ELSE UNCHANGED <<published, index>>
  /\ UNCHANGED <<intake, tree, nodes, statuses, sessions, active>>

(* The command has waited for the tasks it cancelled, five seconds at most.*)
EndDrain(c) ==
  /\ command[c].stage = "draining"
  /\ \A i \in draining[c] :
       task[i] = "none" \/ (SlowStops /\ task[i] = "stopping")
  /\ draining' = [draining EXCEPT ![c] = {}]
  /\ Returns(c, "done")
  /\ UNCHANGED <<intake, state, graph, sessions, queue, active, tombstones,
                 task>>

CommandStep(c) ==
  \/ StopReply(c) \/ ClearReply(c)
  \/ CancelAll(c, "stop") \/ CancelAll(c, "clear")
  \/ EndDrain(c)

------------------------------------------------------------------------------
OwnStep ==
  (\E i \in Turns : TaskStep(i)) \/ (\E c \in Commands : CommandStep(c))

Next ==
  \/ \E i \in Turns : Receive(i) \/ Discard(i) \/ Admit(i) \/ RecordSession(i)
  \/ \E c \in Commands : BeginAny(c)
  \/ OwnStep

Spec == Init /\ [][Next]_vars

(* The event loop does not idle while a task or a command can go on: a     *)
(* managed process ends or is killed, and a drain is bounded.              *)
FairSpec == Spec /\ WF_vars(OwnStep)

------------------------------------------------------------------------------
States == {"unseen", "received", "discarded", "pending", "in_progress",
           "completed", "error"}

Stages == {"none", "created", "chosen", "announcing", "running", "stopping",
           "finishing", "unentered"}

TypeOK ==
  /\ message \in [Turns -> Turns]
  /\ reply \in [Turns -> References \union {None}]
  /\ token \in [Turns -> Nat] /\ generation \in Nat
  /\ state \in [Turns -> States]
  /\ tree \in [Turns -> Turns \union {None}]
  /\ nodes \subseteq Turns
  /\ statuses \subseteq nodes /\ sessions \subseteq nodes
  /\ queue \in [Turns -> Seq(Turns)]
  /\ active \in [Turns -> Turns \union {None}]
  /\ tombstones \subseteq Turns
  /\ published \in Seq(Turns)
  /\ index \in [References -> Turns \union {None}]
  /\ task \in [Turns -> Stages]
  /\ lock \in Commands \union {None}
  /\ command \in
       [Commands -> [stage : {"idle", "committing", "draining", "done", "raised"},
                     op : {"stop", "clear", "stop_reply", "clear_reply", None},
                     target : References \union {None}]]
  /\ draining \in [Commands -> SUBSET Turns]

(* One execution per tree: a task that has not ended belongs to the claim  *)
(* that owns its tree, and a claim that owns a published tree has a task.  *)
OneExecution ==
  /\ \A i \in Live : active[tree[i]] = i
  /\ \A t \in Turns : active[t] # None => active[t] \in Live

(* No turn is stranded: a pending node is in the queue of a tree that has  *)
(* an execution to finish, and every queued message is a pending node.     *)
NoTurnStranded ==
  /\ \A i \in nodes : state[i] = "pending" =>
        /\ message[i] \in ToSet(queue[tree[i]])
        /\ active[tree[i]] # None
  /\ \A t \in Turns : /\ IsInjective(queue[t])
                      /\ Ready(t) = DOMAIN queue[t]

(* The references the repository knows are exactly the live prompts and    *)
(* statuses of the published trees, whatever was removed or admitted again.*)
IndexMatchesGraphs ==
  \A r \in References, t \in Turns :
    index[r] = t <=> t \in Published /\ Resolves(t, r)

(* What a snapshot of a published tree must satisfy to be restored: its    *)
(* root is there and every other node answers a live reference.            *)
Restorable ==
  \A t \in Published :
    /\ t \in nodes /\ reply[t] = None
    /\ \A i \in NodesOf(t) \ {t} : reply[i] # None /\ Resolves(t, reply[i])
    /\ {message[i] : i \in NodesOf(t) \ {t}} \subseteq Descendants(t, message[t])
    /\ \A i, j \in NodesOf(t) : message[i] = message[j] => i = j

(* A node whose status was cleared keeps its prompt only: it has failed    *)
(* and there is nothing to resume, whatever its runner still does.         *)
ClearedStaysInvalid ==
  \A i \in nodes \ statuses : state[i] = "error" /\ i \notin sessions

(* Index, graphs and what is kept of cleared nodes fit together whatever   *)
(* was cleared, redelivered or cancelled in between.                       *)
TreesConsistent == IndexMatchesGraphs /\ Restorable /\ ClearedStaysInvalid

(* "Global /stop drains every queue": what was received before a stop or a *)
(* clear of the chat neither waits nor runs once that command is through.  *)
NothingSurvivesStop ==
  \A i \in Turns :
    state[i] \in Runnable /\ token[i] # generation =>
      \E c \in Commands :
        command[c].stage = "committing" /\ command[c].target = None

(* A cancelled node stays cancelled: neither a late success nor a late     *)
(* session of its runner brings it back.                                   *)
NoRevival ==
  [][\A i \in tombstones :
       /\ state[i] = "error" => state'[i] = "error"
       /\ i \in sessions' => i \in sessions]_vars

(* Only a node that is in a published tree starts to run: a tree that was  *)
(* detached and a branch that was removed launch no successor.             *)
NoRunAfterRemoval ==
  [][\A i \in Turns : task[i] = "none" /\ task'[i] # "none" =>
       i \in nodes' /\ tree'[i] \in ToSet(published')]_vars

Busy(i) == state[i] \in Runnable \/ task[i] # "none"

(* Every admitted turn has its turn or fails, and its task ends: none is   *)
(* busy for good; and every command gives the state lock back.             *)
EverybodyEnds == []<>(lock \notin Commands /\ \A i \in Turns : ~Busy(i))
===============================================================================
