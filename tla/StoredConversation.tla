------------------------- MODULE StoredConversation -------------------------
(***************************************************************************)
(* What the session store holds of the conversations of one chat, and what *)
(* a restart makes of it (messaging/workflow.py, the snapshots returned by *)
(* messaging/trees/manager.py and messaging/node_runner.py).  A runner     *)
(* saves the snapshot of its tree in the step that changes the tree.  A    *)
(* command holds the workflow's state lock, but its transition runs in a   *)
(* task of its own (_finish_transition): the snapshot is taken there and   *)
(* saved after the command was resumed, and runners go on in between.      *)
(*                                                                         *)
(* Every prompt is named by its number, a tree by its root; a prompt is    *)
(* answered below another prompt (replies to a status message, and the     *)
(* clear of one, are in ConversationTree).  The store is taken as written  *)
(* to its file (SessionPersistence), edits of a status message as done.    *)
(***************************************************************************)
EXTENDS Naturals

CONSTANTS
    MaxAsks,      \* prompts
    MaxOrders,    \* stop and clear commands
    MaxDeaths,   \* crashes of the process
    SlowRuns,     \* whether a process may outlive the drain of a command
    NoTree        \* no snapshot of a tree

Asks == 1 .. MaxAsks
Waits == {"pending", "in_progress"}
Held == Waits \union {"completed", "error"}

(* A node: its tree, the nodes above it, whether it has a session.         *)
Node == [state : Held \union {"unasked", "gone"}, tree : Asks, above : SUBSET Asks,
         session : BOOLEAN]

ASSUME StoredAssumption ==
    /\ MaxAsks \in Nat /\ MaxOrders \in Nat /\ MaxDeaths \in Nat /\ SlowRuns \in BOOLEAN
    /\ \A S \in SUBSET Asks : NoTree \notin [S -> Node]

VARIABLES
    talk,     \* the node of each prompt
    waiting,  \* the queue of each tree: prompts are numbered as they come
    activeAsk,  \* the claim of each tree, 0 without one
    taskOf,      \* where the task of each claim is
    refused,  \* claims whose cancellation was requested
    listed,   \* the trees of the repository
    kept,     \* the store: a snapshot of each tree
    order,    \* the command that holds the state lock
    screen,   \* what the status message of each prompt shows
    life,     \* the life of the process
    orders, deaths   \* commands and crashes so far

live == <<talk, waiting, activeAsk, taskOf, refused, listed>>
storedVars == <<live, kept, order, screen, life, orders, deaths>>

NoOrder == [at |-> "idle", op |-> "none", trees |-> {}, tasks |-> {}, told |-> {},
            dropped |-> {}, taken |-> [t \in {} |-> NoTree]]

Blank(i) == [state |-> "unasked", tree |-> i, above |-> {}, session |-> FALSE]

StoredInit ==
    /\ talk = [i \in Asks |-> Blank(i)]
    /\ waiting = [t \in Asks |-> {}] /\ activeAsk = [t \in Asks |-> 0]
    /\ taskOf = [i \in Asks |-> "none"] /\ refused = {} /\ listed = {}
    /\ kept = [t \in Asks |-> NoTree] /\ order = NoOrder
    /\ screen = [i \in Asks |-> "none"] /\ life = "up"
    /\ orders = 0 /\ deaths = 0

-----------------------------------------------------------------------------
Nodes(talking) == {i \in Asks : talking[i].state \in Held}

RootOf(i) == talk[i].tree

(* node_to_snapshot for every node of tree t.                              *)
SnapshotOf(talking, t) == [i \in {j \in Nodes(talking) : talking[j].tree = t} |-> talking[i]]

Below(i) == {j \in Nodes(talk) : i \in talk[j].above}

Save(t) == kept' = [kept EXCEPT ![t] = SnapshotOf(talk', t)]

Free == life = "up" /\ order.at = "idle"

(* A prompt is admitted: claimed when its tree is idle, queued otherwise.  *)
Ask(i, p) ==
    /\ Free /\ talk[i].state = "unasked" /\ \A j \in 1 .. i - 1 : talk[j].state # "unasked"
    /\ p = 0 \/ (p \in Nodes(talk) /\ RootOf(p) \in listed)
    /\ LET t == IF p = 0 THEN i ELSE RootOf(p)
           now == activeAsk[t] = 0
       IN /\ talk' = [talk EXCEPT ![i] =
                [state |-> IF now THEN "in_progress" ELSE "pending", tree |-> t, session |-> FALSE,
                 above |-> IF p = 0 THEN {} ELSE talk[p].above \union {p}]]
          /\ activeAsk' = IF now THEN [activeAsk EXCEPT ![t] = i] ELSE activeAsk
          /\ waiting' = IF now THEN waiting ELSE [waiting EXCEPT ![t] = @ \union {i}]
          /\ taskOf' = IF now THEN [taskOf EXCEPT ![i] = "created"] ELSE taskOf
          /\ listed' = listed \union {t}
          /\ Save(t)
    /\ screen' = [screen EXCEPT ![i] = "open"]
    /\ UNCHANGED <<refused, order, life, orders, deaths>>

-----------------------------------------------------------------------------
(* The runner of a claim.  Its writes are refused once the claim was       *)
(* cancelled or its tree detached.                                         *)

(* A fault, for the checks only: a cancelled claim may still write.        *)
WritesAnyway(i) == activeAsk[RootOf(i)] = i /\ RootOf(i) \in listed

Writes(i) == activeAsk[RootOf(i)] = i /\ i \notin refused /\ RootOf(i) \in listed

Moves1(i, from, to) == taskOf[i] = from /\ taskOf' = [taskOf EXCEPT ![i] = to]

(* A runner reports until it returns, whatever was asked of it.            *)
Reports1(i) == taskOf[i] \in {"running", "stopping"} /\ Writes(i)

StartRun(i) ==
    /\ Moves1(i, "created", "running")
    /\ UNCHANGED <<talk, waiting, activeAsk, refused, listed, kept, order, screen, life,
                   orders, deaths>>

RecordRun(i) ==
    /\ Reports1(i) /\ talk[i].state = "in_progress"
    /\ ~talk[i].session
    /\ talk' = [talk EXCEPT ![i].session = TRUE]
    /\ Save(RootOf(i))
    /\ UNCHANGED <<waiting, activeAsk, taskOf, refused, listed, order, screen, life,
                   orders, deaths>>

CompleteRun(i) ==
    /\ Reports1(i) /\ Moves1(i, taskOf[i], "ending")
    /\ talk' = [talk EXCEPT ![i].state = "completed"]
    /\ screen' = [screen EXCEPT ![i] = "closed"]
    /\ Save(RootOf(i))
    /\ UNCHANGED <<waiting, activeAsk, refused, listed, order, life, orders, deaths>>

Fallen(S) == [i \in Asks |->
    IF i \in S /\ talk[i].state \in Waits THEN [talk[i] EXCEPT !.state = "error"] ELSE talk[i]]

(* The process reports an error and goes on: only its prompt has failed.   *)
ErrorRun(i) ==
    /\ Reports1(i) /\ talk[i].state = "in_progress"
    /\ talk' = Fallen({i})
    /\ Save(RootOf(i))
    /\ UNCHANGED <<waiting, activeAsk, taskOf, refused, listed, order, screen, life,
                   orders, deaths>>

Failing(i) == {i} \union {j \in Below(i) : talk[j].state = "pending"}

(* The run fails for good: the queued prompts below it fail with it, and   *)
(* the runner closes their status messages too; but no session being free  *)
(* fails its prompt alone.                                                 *)
FailRun(i) ==
    /\ Reports1(i) /\ Moves1(i, taskOf[i], "ending")
    /\ \E S \in {{i}, Failing(i)} :
         /\ talk' = Fallen(S)
         /\ waiting' = [waiting EXCEPT ![RootOf(i)] = @ \ S]
         /\ screen' = [j \in Asks |-> IF j \in S THEN "closed" ELSE screen[j]]
    /\ Save(RootOf(i))
    /\ UNCHANGED <<activeAsk, refused, listed, order, life, orders, deaths>>

(* A cancelled runner: it owns the last edit of its status message, unless *)
(* the message is being cleared.                                           *)
StopRun(i) ==
    /\ Moves1(i, "stopping", "ending")
    /\ screen' = [screen EXCEPT ![i] = IF @ = "open" THEN "closed" ELSE @]
    /\ UNCHANGED <<talk, waiting, activeAsk, refused, listed, kept, order, life, orders, deaths>>

(* finish_and_claim_next: nothing is saved.                                *)
EndRun(i) ==
    LET t == RootOf(i)
        ready == {j \in waiting[t] : talk[j].state = "pending"}
    IN
    /\ taskOf[i] \in {"ending", "unentered"}
    /\ \/ /\ ready = {}
          /\ activeAsk' = [activeAsk EXCEPT ![t] = 0] /\ waiting' = [waiting EXCEPT ![t] = {}]
          /\ taskOf' = [taskOf EXCEPT ![i] = "none"] /\ UNCHANGED talk
       \/ \E j \in ready :
            /\ \A k \in ready : j <= k
            /\ activeAsk' = [activeAsk EXCEPT ![t] = j]
            /\ waiting' = [waiting EXCEPT ![t] = {k \in @ : k > j}]
            /\ talk' = [talk EXCEPT ![j].state = "in_progress"]
            /\ taskOf' = [taskOf EXCEPT ![i] = "none",
                                  ![j] = IF t \in listed THEN "created" ELSE @]
    /\ UNCHANGED <<refused, listed, kept, order, screen, life, orders, deaths>>

RunStepS(i) ==
    \/ StartRun(i) \/ RecordRun(i) \/ ErrorRun(i) \/ CompleteRun(i)
    \/ FailRun(i) \/ StopRun(i) \/ EndRun(i)

-----------------------------------------------------------------------------
(* The commands.                                                           *)

Started(i) == taskOf[i] \in {"running", "ending", "stopping"}

(* A fault, for the checks only: the runner is trusted to close every one. *)
RunnerAlways(i) == taskOf[i] # "none"

(* The status messages of the cancelled nodes the workflow has to edit:    *)
(* those of active runners are theirs.                                     *)
RunnerOwns(i) == Started(i)

Struck1(stage) == CASE stage = "created" -> "unentered"
                    [] stage = "running" -> "stopping"
                    [] OTHER -> stage

Taken(talking, trees) == [t \in trees |-> SnapshotOf(talking, t)]

(* The transition of a command on the nodes S of the trees T: they fail,   *)
(* leave the queues, and active claims are cancelled.  Without a task to   *)
(* wait for, the snapshots are taken at once.                              *)
CancelNodes(op, S, T, left) ==
    LET claims == {i \in S : activeAsk[RootOf(i)] = i}
        tasks == {i \in claims : taskOf[i] # "none"}
    IN
    /\ refused' = refused \union claims
    /\ waiting' = [t \in Asks |-> waiting[t] \ S]
    /\ taskOf' = [i \in Asks |-> IF i \in claims THEN Struck1(taskOf[i]) ELSE taskOf[i]]
    /\ talk' = [i \in Asks |->
          IF i \in left THEN [talk[i] EXCEPT !.state = "gone"] ELSE Fallen(S)[i]]
    /\ listed' = IF op = "clear_all" THEN listed \ T ELSE listed \ left
    /\ order' = [at |-> IF tasks = {} THEN "returning" ELSE "draining",
                  op |-> op, trees |-> T, tasks |-> tasks, dropped |-> left,
                  told |-> {i \in S \ left : talk[i].state \in Waits /\ ~RunnerOwns(i)},
                  taken |-> IF tasks = {} THEN Taken(talk', T \intersect listed')
                                          ELSE NoOrder.taken]
    /\ UNCHANGED <<activeAsk, kept, screen, deaths>>

Command == Free /\ orders < MaxOrders /\ orders' = orders + 1 /\ UNCHANGED life

InTrees(T) == {i \in Nodes(talk) : RootOf(i) \in T}

StopOne(i) ==
    /\ Command /\ i \in InTrees(listed)
    /\ CancelNodes("stop", {i}, {RootOf(i)}, {})

(* The nodes that leave the tree keep their place in the model only.       *)
ClearOne(i) ==
    /\ Command /\ i \in InTrees(listed)
    /\ LET S == {i} \union Below(i) IN CancelNodes("clear", S, {RootOf(i)}, S)

StopEvery == Command /\ CancelNodes("stop", InTrees(listed), listed, {})

ClearEvery ==
    Command /\ CancelNodes("clear_all", InTrees(listed), listed, InTrees(listed))

(* close: the platform takes no more messages; everything is stopped.      *)
CloseConversations ==
    /\ Free /\ life' = "closing"
    /\ CancelNodes("stop", InTrees(listed), listed, {})
    /\ UNCHANGED orders

(* The cancelled tasks have ended, or five seconds have passed: the        *)
(* snapshots of the trees that are still published are taken.              *)
TakeSnapshots ==
    /\ order.at = "draining"
    /\ \A i \in order.tasks : taskOf[i] = "none" \/ (SlowRuns /\ taskOf[i] = "stopping")
    /\ order' = [order EXCEPT !.at = "returning",
          !.taken = Taken(talk, order.trees \intersect listed)]
    /\ UNCHANGED <<live, kept, screen, life, orders, deaths>>

(* A fault, for the checks only: a tree that is gone stays in the store.   *)
KeepsTrees(k) ==
    [t \in Asks |-> IF t \in DOMAIN order.taken THEN order.taken[t] ELSE k[t]]

(* The command is resumed: what was taken is saved, trees that are gone    *)
(* are removed from the store.                                             *)
Settled(k) ==
    [t \in Asks |->
        IF t \in DOMAIN order.taken THEN order.taken[t]
        ELSE IF t \in order.trees \/ order.op = "clear_all" THEN NoTree ELSE k[t]]

(* The status messages are edited, those of cleared prompts deleted.       *)
ReturnCommand ==
    /\ order.at = "returning"
    /\ kept' = Settled(kept)
    /\ screen' = [i \in Asks |-> CASE i \in order.dropped -> "deleted"
                                   [] i \in order.told -> "closed"
                                   [] OTHER -> screen[i]]
    /\ order' = NoOrder
    /\ UNCHANGED <<live, life, orders, deaths>>

-----------------------------------------------------------------------------
(* The process.                                                            *)

(* wait_idle, then the last flush.                                         *)
Closed1 ==
    /\ life = "closing" /\ order.at = "idle" /\ \A i \in Asks : taskOf[i] = "none"
    /\ life' = "closed"
    /\ UNCHANGED <<live, kept, order, screen, orders, deaths>>

Stored == {t \in Asks : kept[t] # NoTree}

KeptState(i) == IF \E t \in Stored : i \in DOMAIN kept[t]
                THEN kept[CHOOSE t \in Stored : i \in DOMAIN kept[t]][i].state ELSE "gone"

(* A message whose outcome is saved but not shown yet stays as it is.      *)
Crash1 ==
    /\ life \in {"up", "closing"} /\ deaths < MaxDeaths
    /\ life' = "crashed" /\ deaths' = deaths + 1
    /\ screen' = [i \in Asks |->
          IF screen[i] = "open" /\ KeptState(i) \notin Waits THEN "cut" ELSE screen[i]]
    /\ UNCHANGED <<live, kept, order, orders>>

(* What was running or waiting was interrupted.                            *)
Normalized(node) == IF node.state \in Waits THEN [node EXCEPT !.state = "error"] ELSE node

Saved1 == [i \in UNION {DOMAIN kept[t] : t \in Stored} |->
              kept[CHOOSE t \in Stored : i \in DOMAIN kept[t]][i]]

(* restore, before the platform starts, and repair_restored_statuses.      *)
Restart ==
    /\ life \in {"closed", "crashed"}
    /\ life' = "up"
    /\ talk' = [i \in Asks |->
          IF i \in DOMAIN Saved1 THEN Normalized(Saved1[i])
          ELSE IF talk[i].state = "unasked" THEN talk[i]
          ELSE [talk[i] EXCEPT !.state = "gone"]]
    /\ kept' = [t \in Asks |-> IF kept[t] = NoTree THEN NoTree
                               ELSE [i \in DOMAIN kept[t] |-> Normalized(kept[t][i])]]
    /\ listed' = Stored
    /\ waiting' = [t \in Asks |-> {}] /\ activeAsk' = [t \in Asks |-> 0]
    /\ taskOf' = [i \in Asks |-> "none"] /\ refused' = {}
    /\ order' = NoOrder
    /\ screen' = [i \in Asks |->
          IF i \in DOMAIN Saved1 /\ Saved1[i].state \in Waits THEN "interrupted" ELSE screen[i]]
    /\ UNCHANGED <<orders, deaths>>

Alive == life \in {"up", "closing"} /\ UNCHANGED <<life, orders, deaths>>

StoredProgress ==
    \/ Alive /\ (TakeSnapshots \/ ReturnCommand \/ \E i \in Asks :
          StartRun(i) \/ CompleteRun(i) \/ FailRun(i) \/ StopRun(i) \/ EndRun(i))
    \/ Closed1 \/ Restart

StoredNext ==
    \/ StoredProgress
    \/ \E i \in Asks : \/ \E p \in 0 .. MaxAsks : Ask(i, p)
                       \/ Alive /\ (RecordRun(i) \/ ErrorRun(i))
                       \/ StopOne(i) \/ ClearOne(i)
    \/ StopEvery \/ ClearEvery \/ CloseConversations \/ Crash1

StoredSpec == StoredInit /\ [][StoredNext]_storedVars

(* A process that runs ends or is stopped, a drain is bounded, and a       *)
(* process that has ended is started again.                                *)
FairStoredSpec == StoredSpec /\ WF_storedVars(StoredProgress)

-----------------------------------------------------------------------------
StoredTypeOK ==
    /\ talk \in [Asks -> Node] /\ waiting \in [Asks -> SUBSET Asks]
    /\ taskOf \in [Asks -> {"none", "created", "running", "stopping", "ending", "unentered"}]
    /\ activeAsk \in [Asks -> 0 .. MaxAsks] /\ refused \subseteq Asks /\ listed \subseteq Asks
    /\ \A t \in Asks : kept[t] # NoTree => kept[t] \in [DOMAIN kept[t] -> Node]
    /\ order.at \in {"idle", "draining", "returning"}
    /\ screen \in [Asks -> {"none", "open", "closed", "deleted", "interrupted", "cut"}]
    /\ life \in {"up", "closing", "closed", "crashed"}
    /\ orders \in 0 .. MaxOrders /\ deaths \in 0 .. MaxDeaths

(* The store and the repository hold the same trees with the same nodes    *)
(* whenever no command is on its way: nothing that was cleared comes back  *)
(* after a restart and nothing that was admitted is lost.                  *)
StoreMatchesTrees ==
    life \in {"up", "closing"} /\ order.at = "idle" =>
        /\ listed = Stored
        /\ \A t \in listed : DOMAIN kept[t] = DOMAIN SnapshotOf(talk, t)

(* A shutdown that was completed loses nothing: the next process starts    *)
(* with every node, outcome and session as they were.                      *)
CleanRestartExact == life = "closed" /\ life' = "up" => talk' = talk

StoredSafe == []StoreMatchesTrees /\ [][CleanRestartExact]_storedVars

(* No status message announces work for good that nobody does: whoever     *)
(* ends a prompt, its runner, the runner of a prompt above, a command or a *)
(* restart, closes its message (but for one that a crash cut short).       *)
ScreensSettled == \A i \in Asks : screen[i] # "open"

EveryScreenSettles == []<>ScreensSettled

(* What the store has as completed it never has as unfinished again.  This *)
(* fails: a command that was resumed late saves what it took before.       *)
OutcomesKept ==
    [][\A t \in Asks : kept[t] # NoTree /\ kept'[t] # NoTree =>
         \A i \in DOMAIN kept[t] \intersect DOMAIN kept'[t] :
            kept[t][i].state = "completed" => kept'[t][i].state = "completed"]_storedVars
=============================================================================
