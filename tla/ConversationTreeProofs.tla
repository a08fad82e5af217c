----------------------- MODULE ConversationTreeProofs -----------------------
(***************************************************************************)
(* Proofs about the conversation trees, for any number of turns and        *)
(* commands.  The inductive invariant CInv says who may touch a tree       *)
(* (CommandInv, OwnerInv), what a tree is (NamesInv, GraphInv, RootedInv,  *)
(* IndexMatchesGraphs), what a clear leaves behind (ClearedInv) and what   *)
(* its queue holds (QueueInv); each action keeps it, one lemma per action. *)
(* The properties of the checked runs follow from it.                      *)
(***************************************************************************)
EXTENDS ConversationTree, WellFoundedInduction, SequenceTheorems, TLAPS

(* Every set of naturals has a least member; a least counterexample is how *)
(* the two lemmas below reason about a recursive function.                 *)
LEMMA Least ==
  ASSUME NEW T \in SUBSET Nat, T # {}
  PROVE  \E n \in T : \A m \in T : n <= m
<1> DEFINE R == {ss \in Nat \X Nat : ss[1] < ss[2]}
<1>1. IsWellFoundedOn(R, Nat)
  BY NatLessThanWellFounded DEF OpToRel
<1> HIDE DEF R
<1>2. PICK x \in T : \A y \in T : ~ (<<y, x>> \in R)
  BY <1>1, WFMin
<1>3. \A y \in T : ~ (y < x)
  BY <1>2 DEF R
<1> QED
  BY <1>3

(* One step of Remaining.                                                  *)
Step(q, gone, f, n) ==
  IF n = 0 THEN << >>
  ELSE IF q[n] \in gone THEN f[n - 1] ELSE Append(f[n - 1], q[n])

(* The recursive function of Remaining exists for every sequence.          *)
LEMMA KeptExists ==
  ASSUME NEW N \in Nat, NEW q, NEW gone
  PROVE  \E f : f = [n \in 0 .. N |-> Step(q, gone, f, n)]
<1> DEFINE Bad == {k \in Nat : ~ \E f : f = [n \in 0 .. k |-> Step(q, gone, f, n)]}
<1>1. SUFFICES ASSUME Bad # {} PROVE FALSE
  OBVIOUS
<1>2. PICK k \in Bad : \A m \in Bad : k <= m
  <2> HIDE DEF Bad
  <2>1. Bad \in SUBSET Nat
    BY DEF Bad
  <2> QED
    BY <1>1, <2>1, Least
<1>3. k # 0
  <2> SUFFICES ASSUME k = 0 PROVE FALSE
    OBVIOUS
  <2> DEFINE f == [n \in 0 .. 0 |-> << >>]
  <2>1. f = [n \in 0 .. 0 |-> Step(q, gone, f, n)]
    BY DEF Step
  <2> QED
    BY <2>1, <1>2
<1>4. k \in Nat /\ k - 1 \in Nat /\ k - 1 \notin Bad
  <2> HIDE DEF Bad
  <2>1. k \in Nat
    BY DEF Bad
  <2> QED
    BY <1>2, <1>3, <2>1
<1>5. PICK g : g = [n \in 0 .. k - 1 |-> Step(q, gone, g, n)]
  BY <1>4
<1> DEFINE f == [n \in 0 .. k |-> IF n = k THEN Step(q, gone, g, k) ELSE g[n]]
<1>6. \A n \in 0 .. k : Step(q, gone, f, n) = Step(q, gone, g, n)
  BY <1>4 DEF Step
<1>7. f = [n \in 0 .. k |-> Step(q, gone, f, n)]
  <2>1. \A n \in 0 .. k : f[n] = Step(q, gone, g, n)
    BY <1>4, <1>5
  <2> HIDE DEF f
  <2>2. \A n \in 0 .. k : f[n] = Step(q, gone, f, n)
    BY <2>1, <1>6
  <2>3. f = [n \in 0 .. k |-> f[n]]
    BY DEF f
  <2> QED
    BY <2>2, <2>3
<1> QED
  BY <1>2, <1>7

(* Remaining takes out exactly the entries that are gone (detach of the    *)
(* queue), and keeps the others once.                                      *)
LEMMA RemainingKeeps ==
  ASSUME NEW T, NEW q \in Seq(T), NEW gone
  PROVE  /\ Remaining(q, gone) \in Seq(T)
         /\ \A p \in 1 .. Len(Remaining(q, gone)) :
              /\ Remaining(q, gone)[p] \notin gone
              /\ \E k \in 1 .. Len(q) : q[k] = Remaining(q, gone)[p]
         /\ \A k \in 1 .. Len(q) : q[k] \notin gone =>
              \E p \in 1 .. Len(Remaining(q, gone)) : Remaining(q, gone)[p] = q[k]
         /\ (\A k, l \in 1 .. Len(q) : q[k] = q[l] => k = l) =>
              \A k, l \in 1 .. Len(Remaining(q, gone)) :
                Remaining(q, gone)[k] = Remaining(q, gone)[l] => k = l
<1> DEFINE kept == CHOOSE f : f = [n \in 0 .. Len(q) |-> Step(q, gone, f, n)]
<1>1. Remaining(q, gone) = kept[Len(q)]
  BY DEF Remaining, Step
<1>2. kept = [n \in 0 .. Len(q) |-> Step(q, gone, kept, n)]
  <2>1. Len(q) \in Nat
    OBVIOUS
  <2> QED
    BY <2>1, KeptExists
<1> HIDE DEF kept
<1>3. \A n \in 0 .. Len(q) : kept[n] = Step(q, gone, kept, n)
  BY <1>2
<1> DEFINE Right(n) ==
      /\ kept[n] \in Seq(T)
      /\ \A p \in 1 .. Len(kept[n]) :
           kept[n][p] \notin gone /\ \E k \in 1 .. n : q[k] = kept[n][p]
      /\ \A k \in 1 .. n : q[k] \notin gone => \E p \in 1 .. Len(kept[n]) : kept[n][p] = q[k]
      /\ (\A k, l \in 1 .. Len(q) : q[k] = q[l] => k = l) =>
            \A k, l \in 1 .. Len(kept[n]) : kept[n][k] = kept[n][l] => k = l
    Bad == {n \in 0 .. Len(q) : ~Right(n)}
<1>4. Right(0)
  <2>1. kept[0] = << >>
    BY <1>3 DEF Step
  <2> QED
    BY <2>1
<1>5. ASSUME NEW n \in 1 .. Len(q), Right(n - 1) PROVE Right(n)
  <2>1. CASE q[n] \in gone
    <3>1. kept[n] = kept[n - 1]
      BY <1>3, <2>1 DEF Step
    <3> QED
      BY <3>1, <1>5, <2>1
  <2>2. CASE q[n] \notin gone
    <3> DEFINE s == kept[n - 1]
    <3>1. kept[n] = Append(s, q[n])
      <4>1. n \in 0 .. Len(q) /\ n # 0
        OBVIOUS
      <4>2. kept[n] = Step(q, gone, kept, n)
        BY <1>3, <4>1
      <4>3. Step(q, gone, kept, n) = Append(kept[n - 1], q[n])
        BY <4>1, <2>2, Zenon DEF Step
      <4> QED
        BY <4>2, <4>3
    <3>2. s \in Seq(T) /\ q[n] \in T
      BY <1>5
    <3>3. /\ Append(s, q[n]) \in Seq(T)
          /\ Len(Append(s, q[n])) = Len(s) + 1
          /\ \A i \in 1 .. Len(s) : Append(s, q[n])[i] = s[i]
          /\ Append(s, q[n])[Len(s) + 1] = q[n]
      BY <3>2, AppendProperties
    <3> HIDE DEF s
    <3>4. Len(s) \in Nat
      BY <3>2
    <3>5. \A p \in 1 .. Len(s) : s[p] \notin gone /\ \E k \in 1 .. n - 1 : q[k] = s[p]
      BY <1>5 DEF s
    <3>6. \A k \in 1 .. n - 1 : q[k] \notin gone => \E p \in 1 .. Len(s) : s[p] = q[k]
      BY <1>5 DEF s
    <3>7. \A p \in 1 .. Len(kept[n]) :
             kept[n][p] \notin gone /\ \E k \in 1 .. n : q[k] = kept[n][p]
      BY <3>1, <3>3, <3>4, <3>5, <2>2
    <3>8. \A k \in 1 .. n : q[k] \notin gone => \E p \in 1 .. Len(kept[n]) : kept[n][p] = q[k]
      <4> SUFFICES ASSUME NEW k \in 1 .. n, q[k] \notin gone
                   PROVE  \E p \in 1 .. Len(kept[n]) : kept[n][p] = q[k]
        OBVIOUS
      <4>1. CASE k = n
        BY <4>1, <3>1, <3>3, <3>4
      <4>2. CASE k # n
        <5>1. PICK p \in 1 .. Len(s) : s[p] = q[k]
          BY <4>2, <3>6
        <5> QED
          BY <5>1, <3>1, <3>3, <3>4
      <4> QED
        BY <4>1, <4>2
    <3>9. ASSUME \A k, l \in 1 .. Len(q) : q[k] = q[l] => k = l
          PROVE  \A k, l \in 1 .. Len(kept[n]) : kept[n][k] = kept[n][l] => k = l
      <4>1. \A k, l \in 1 .. Len(s) : s[k] = s[l] => k = l
        BY <1>5, <3>9 DEF s
      <4>2. \A p \in 1 .. Len(s) : s[p] # q[n]
        BY <3>5, <3>9
      <4> QED
        BY <4>1, <4>2, <3>1, <3>3, <3>4
    <3> QED
      BY <3>1, <3>3, <3>7, <3>8, <3>9
  <2> QED
    BY <2>1, <2>2
<1> HIDE DEF Right
<1>6. Bad = {}
  <2> SUFFICES ASSUME Bad # {} PROVE FALSE
    OBVIOUS
  <2>0. Bad \in SUBSET Nat
    OBVIOUS
  <2>1. PICK n \in Bad : \A m \in Bad : n <= m
    <3> HIDE DEF Bad
    <3> QED
      BY <2>0, Least
  <2>2. n # 0
    BY <2>1, <1>4
  <2>3. n - 1 \in 0 .. Len(q) /\ n \in 1 .. Len(q) /\ n - 1 \notin Bad
    BY <2>1, <2>2
  <2> QED
    BY <2>1, <2>3, <1>5
<1>7. Right(Len(q))
  BY <1>6
<1> QED
  BY <1>1, <1>7 DEF Right

(* The states of a turn that has no node yet, or never gets one.           *)
Outside == {"unseen", "received", "discarded"}

(* The command that holds the lock is the one at work, and what it answers *)
(* stays known until it commits: nobody else changes the index meanwhile.  *)
CommandInv ==
  /\ \A c \in Commands :
       command[c].stage \in {"committing", "draining"} => lock = c
  /\ \A c \in Commands : command[c].stage = "committing" =>
       \/ command[c].op \in {"stop", "clear"} /\ command[c].target = None
       \/ /\ command[c].op \in {"stop_reply", "clear_reply"}
          /\ command[c].target \in References /\ index[command[c].target] # None

(* The types of what the commands do.                                      *)
CommandsTyped ==
  /\ lock \in Commands \union {None}
  /\ command \in
       [Commands -> [stage : {"idle", "committing", "draining", "done", "raised"},
                     op : {"stop", "clear", "stop_reply", "clear_reply", None},
                     target : References \union {None}]]

(* Who owns a tree: a claim has a task from its start to its end, and what *)
(* waits or runs is a node of a published tree.                            *)
OwnerInv ==
  /\ \A i \in Turns : task[i] # "none" => tree[i] # None /\ active[tree[i]] = i
  /\ \A t \in Turns : active[t] # None =>
       task[active[t]] # "none" /\ tree[active[t]] = t
  /\ \A i \in Turns : state[i] \in Runnable => i \in nodes /\ tree[i] \in Published
  /\ \A i \in Turns : state[i] = "pending" => task[i] = "none"

(* A tree is named by an admitted turn, and so are its nodes.              *)
NamesInv ==
  /\ \A i \in Turns : state[i] \in Outside => tree[i] = None /\ i \notin nodes
  /\ \A i \in nodes : tree[i] # None
  /\ \A i \in Turns : tree[i] # None => state[tree[i]] \notin Outside

(* A published tree has its root, each message once, and every other node  *)
(* answers a reference of it.                                              *)
GraphInv ==
  /\ \A t \in Published : t \in nodes /\ tree[t] = t /\ reply[t] = None
  /\ \A i, j \in nodes : tree[i] = tree[j] /\ message[i] = message[j] => i = j
  /\ \A i \in nodes : tree[i] \in Published /\ i # tree[i] =>
       reply[i] # None /\ Resolves(tree[i], reply[i])
  /\ \A p, q \in 1 .. Len(published) : published[p] = published[q] => p = q

(* The literal reply closure of a root is its tree.                        *)
Answering(t, S) ==
  \A x \in Resolved(t) : Answered(t, x) \in S => x \in S

RootedInv ==
  \A t \in Published : \A S \in SUBSET References :
    Prompt(message[t]) \in S /\ Answering(t, S) =>
      \A i \in NodesOf(t) : Prompt(message[i]) \in S

(* The claim of a node that was removed or cleared has been cancelled.     *)
ClearedInv ==
  /\ \A t \in Published : active[t] # None /\ active[t] \notin nodes =>
       active[t] \in tombstones
  /\ \A i \in nodes \ statuses :
       /\ state[i] = "error" /\ i \notin sessions
       /\ active[tree[i]] = i => i \in tombstones

(* The queue of a tree is its pending nodes, each once.                    *)
QueueInv ==
  /\ \A i \in Turns : state[i] = "pending" =>
       /\ \E p \in 1 .. Len(queue[tree[i]]) : queue[tree[i]][p] = message[i]
       /\ active[tree[i]] # None
  /\ \A t \in Turns : \A p, q \in 1 .. Len(queue[t]) :
       queue[t][p] = queue[t][q] => p = q
  /\ \A t \in Turns : \A p \in 1 .. Len(queue[t]) :
       \E j \in nodes : /\ tree[j] = t /\ message[j] = queue[t][p]
                        /\ state[j] = "pending"

(* The inductive invariant.                                                *)
CInv ==
  /\ TypeOK /\ CommandInv /\ OwnerInv /\ NamesInv /\ GraphInv /\ IndexMatchesGraphs
  /\ RootedInv /\ ClearedInv /\ QueueInv

(* Unless a process may outlast a drain, a claim whose status was cleared  *)
(* is still being drained by the command that cleared it.                  *)
DrainInv ==
  \A t \in Published : active[t] # None /\ active[t] \notin statuses =>
    \E c \in Commands :
      /\ lock = c /\ command[c].stage = "draining" /\ active[t] \in draining[c]

-----------------------------------------------------------------------------
(* The operators of the model.                                             *)

(* First picks the least position.                                         *)
LEMMA FirstIsLeast ==
  ASSUME NEW S \in SUBSET Nat, S # {}
  PROVE  First(S) \in S /\ \A p \in S : First(S) <= p
  BY Least DEF First

(* The trees of the repository are the entries of its list.                *)
LEMMA PublishedEntries ==
  ASSUME TypeOK
  PROVE  /\ Published \subseteq Turns
         /\ \A t : t \in Published <=> \E p \in 1 .. Len(published) : published[p] = t
<1>1. published \in Seq(Turns) /\ DOMAIN published = 1 .. Len(published)
  BY DEF TypeOK
<1> QED
  BY <1>1 DEF Published, ToSet

(* What is left of a sequence when its first n entries go.                 *)
LEMMA SuffixEntries ==
  ASSUME NEW T, NEW s \in Seq(T), NEW n \in 0 .. Len(s)
  PROVE  LET r == SubSeq(s, n + 1, Len(s)) IN
         /\ r \in Seq(T) /\ Len(r) = Len(s) - n
         /\ \A p \in 1 .. Len(s) - n : r[p] = s[n + p]
<1> DEFINE L == Len(s)
           r == SubSeq(s, n + 1, L)
<1>1. L \in Nat /\ n \in Nat /\ n <= L
  OBVIOUS
<1>2. \A p \in n + 1 .. L : s[p] \in T
  BY <1>1
<1>3. /\ r \in Seq(T)
      /\ Len(r) = IF n + 1 <= L THEN L - (n + 1) + 1 ELSE 0
      /\ \A p \in 1 .. L - (n + 1) + 1 : r[p] = s[n + 1 + p - 1]
  BY <1>1, <1>2, SubSeqProperties
<1> HIDE DEF r, L
<1>4. Len(r) = L - n
  <2>1. Len(r) = IF n + 1 <= L THEN L - (n + 1) + 1 ELSE 0
    BY <1>3
  <2>2. CASE n + 1 <= L
    BY <1>1, <2>1, <2>2
  <2>3. CASE ~(n + 1 <= L)
    BY <1>1, <2>1, <2>3
  <2> QED
    BY <2>2, <2>3
<1>5. ASSUME NEW p \in 1 .. L - n PROVE r[p] = s[n + p]
  <2>1. p \in 1 .. L - (n + 1) + 1 /\ n + 1 + p - 1 = n + p
    BY <1>1
  <2>2. r[p] = s[n + 1 + p - 1]
    BY <1>3, <2>1
  <2> QED
    BY <2>1, <2>2
<1> QED
  BY <1>3, <1>4, <1>5 DEF r, L

(* None names nothing.                                                     *)
LEMMA TurnsAreNot == None \notin Turns /\ None \notin References /\ None \notin Commands
  BY NoneAssumption

(* A reference is a prompt or a status, of one turn.                       *)
LEMMA ReferenceShape ==
  /\ \A m \in Turns : Prompt(m) \in References /\ Status(m) \in References
  /\ \A r \in References :
       \/ r.kind = "prompt" /\ r.of \in Turns /\ r = Prompt(r.of)
       \/ r.kind = "status" /\ r.of \in Turns /\ r = Status(r.of)
  /\ \A m : Prompt(m).kind = "prompt" /\ Prompt(m).of = m
  /\ \A m : Status(m).kind = "status" /\ Status(m).of = m
  /\ \A m, n : Prompt(m) # Status(n)
<1>1. /\ \A m : Prompt(m).kind = "prompt" /\ Prompt(m).of = m
      /\ \A m : Status(m).kind = "status" /\ Status(m).of = m
  BY DEF Prompt, Status
<1>2. \A m \in Turns : Prompt(m) \in References /\ Status(m) \in References
  BY Zenon DEF References
<1>3. ASSUME NEW r \in References
      PROVE  \/ r.kind = "prompt" /\ r.of \in Turns /\ r = Prompt(r.of)
             \/ r.kind = "status" /\ r.of \in Turns /\ r = Status(r.of)
  <2>1. CASE \E m \in Turns : r = Prompt(m)
    BY <1>1, <2>1
  <2>2. CASE \E m \in Turns : r = Status(m)
    BY <1>1, <2>2
  <2> QED
    BY <2>1, <2>2 DEF References
<1> QED
  BY <1>1, <1>2, <1>3

(* A tree resolves a prompt if one of its nodes has that message.          *)
LEMMA ResolvesPrompt ==
  ASSUME NEW t, NEW m
  PROVE  Resolves(t, Prompt(m)) <=> \E i \in nodes : tree[i] = t /\ message[i] = m
<1>1. Prompt(m).kind = "prompt" /\ Prompt(m).of = m
  BY DEF Prompt
<1>2. Resolves(t, Prompt(m)) <=> NodeAt(t, m) # {}
  BY <1>1, Zenon DEF Resolves
<1> QED
  BY <1>2 DEF NodeAt

(* A tree resolves the status of a node that still has one.                *)
LEMMA ResolvesStatus ==
  ASSUME NEW t, NEW i
  PROVE  Resolves(t, Status(i)) <=> i \in nodes /\ tree[i] = t /\ i \in statuses
<1>1. Status(i).kind = "status" /\ Status(i).of = i
  BY DEF Status
<1>2. Resolves(t, Status(i)) <=> i \in NodesOf(t) \intersect statuses
  BY <1>1 DEF Resolves
<1> QED
  BY <1>2 DEF NodesOf

(* In a tree that has each message once.                                   *)
LEMMA AnsweredPrompt ==
  ASSUME NEW t, NEW i \in nodes, tree[i] = t,
         \A j \in nodes : tree[j] = t /\ message[j] = message[i] => j = i
  PROVE  Answered(t, Prompt(message[i])) = reply[i]
<1>1. NodeAt(t, message[i]) = {i}
  BY DEF NodeAt
<1>2. /\ Prompt(message[i]).kind # "status"
      /\ Prompt(message[i]).of = message[i]
  BY DEF Prompt
<1>3. (CHOOSE j \in NodeAt(t, message[i]) : TRUE) = i
  BY <1>1
<1> QED
  BY <1>2, <1>3 DEF Answered

(* A status hangs on its prompt.                                           *)
LEMMA AnsweredStatus ==
  ASSUME NEW t, NEW i
  PROVE  Answered(t, Status(i)) = Prompt(message[i])
  BY DEF Answered, Status

(* A claim that may write owns its published tree, and its node is there.  *)
LEMMA MayWriteOwns ==
  ASSUME CInv, NEW i \in Turns, MayWrite(i)
  PROVE  /\ tree[i] \in Published /\ tree[i] \in Turns /\ active[tree[i]] = i
         /\ i \in nodes /\ i \in statuses /\ i \notin tombstones
<1>1. PICK t \in Published : active[t] = i /\ i \notin tombstones
  BY DEF MayWrite, TreeWithIdentity
<1>2. t \in Turns
  BY PublishedEntries DEF CInv
<1>3. i # None
  BY TurnsAreNot
<1>4. tree[i] = t
  BY <1>1, <1>2, <1>3 DEF CInv, OwnerInv
<1>5. i \in nodes
  BY <1>1, <1>3 DEF CInv, ClearedInv
<1>6. i \in statuses
  BY <1>1, <1>4, <1>5 DEF CInv, ClearedInv
<1> QED
  BY <1>1, <1>2, <1>4, <1>5, <1>6

(* A struck task is still a task.                                          *)
LEMMA StruckStage ==
  ASSUME NEW s \in Stages
  PROVE  Struck(s) \in Stages /\ (Struck(s) = "none" <=> s = "none")
  BY DEF Struck, Stages

(* What it takes to resolve a reference, spelled out: a primed reference   *)
(* has no other form the provers can compare.                              *)
ResolvedBy(N, tr, ms, st, u, r) ==
  \/ r.kind = "prompt" /\ \E j \in N : tr[j] = u /\ ms[j] = r.of
  \/ r.kind = "status" /\ r.of \in N /\ tr[r.of] = u /\ r.of \in st

(* Resolves, spelled out in this state.                                    *)
LEMMA ResolvesNow ==
  ASSUME NEW u, NEW r \in References
  PROVE  Resolves(u, r) <=> ResolvedBy(nodes, tree, message, statuses, u, r)
<1>1. CASE r.kind = "prompt"
  <2>1. Resolves(u, r) <=> NodeAt(u, r.of) # {}
    BY <1>1, Zenon DEF Resolves
  <2> QED
    BY <1>1, <2>1 DEF NodeAt, ResolvedBy
<1>2. CASE r.kind = "status"
  BY <1>2 DEF Resolves, NodesOf, ResolvedBy
<1> QED
  BY <1>1, <1>2, ReferenceShape

(* Resolves, spelled out in the next state.                                *)
LEMMA ResolvesNext ==
  ASSUME NEW u, NEW r \in References
  PROVE  Resolves(u, r)' <=> ResolvedBy(nodes', tree', message', statuses', u, r)
<1>1. CASE r.kind = "prompt"
  <2>1. Resolves(u, r)' <=> NodeAt(u, r.of)' # {}
    BY <1>1, Zenon DEF Resolves
  <2> QED
    BY <1>1, <2>1 DEF NodeAt, ResolvedBy
<1>2. CASE r.kind = "status"
  BY <1>2 DEF Resolves, NodesOf, ResolvedBy
<1> QED
  BY <1>1, <1>2, ReferenceShape

(* What a node answers resolves in its tree in the next state.             *)
LEMMA AnswerResolvesNext ==
  ASSUME NEW j, reply'[j] \in References
  PROVE  Resolves(tree[j], reply[j])' <=>
           ResolvedBy(nodes', tree', message', statuses', tree'[j], reply'[j])
<1>1. CASE reply'[j].kind = "prompt"
  <2>1. Resolves(tree[j], reply[j])' <=> NodeAt(tree[j], reply[j].of)' # {}
    BY <1>1, Zenon DEF Resolves
  <2> QED
    BY <1>1, <2>1 DEF NodeAt, ResolvedBy
<1>2. CASE reply'[j].kind = "status"
  BY <1>2 DEF Resolves, NodesOf, ResolvedBy
<1> QED
  BY <1>1, <1>2, ReferenceShape
-----------------------------------------------------------------------------
(* Steps that leave the graphs alone.                                      *)

(* The parts of the invariant that only read the graphs.                   *)
GraphParts == GraphInv /\ IndexMatchesGraphs /\ RootedInv

(* A step that leaves the graphs alone leaves their invariants alone.      *)
LEMMA GraphKept ==
  ASSUME GraphParts,
         nodes' = nodes, statuses' = statuses, tree' = tree,
         published' = published, index' = index,
         \A i \in nodes : message'[i] = message[i] /\ reply'[i] = reply[i]
  PROVE  GraphParts'
<1>0. Published' = Published
  BY DEF Published
<1>1. \A t, m : NodeAt(t, m)' = NodeAt(t, m)
  BY DEF NodeAt
<1>2. \A t : NodesOf(t)' = NodesOf(t)
  BY DEF NodesOf
<1>3. ASSUME NEW t, NEW r \in References
      PROVE  Resolves(t, r)' <=> Resolves(t, r)
  BY <1>1, <1>2, ReferenceShape DEF Resolves
<1>4. \A t : Resolved(t)' = Resolved(t)
  BY <1>3 DEF Resolved
<1>5. ASSUME NEW t, NEW x \in Resolved(t)
      PROVE  Answered(t, x)' = Answered(t, x)
  <2>1. x \in References /\ Resolves(t, x)
    BY DEF Resolved
  <2>2. CASE x.kind = "prompt"
    <3>1. NodeAt(t, x.of) # {}
      BY <2>1, <2>2 DEF Resolves
    <3>2. (CHOOSE j \in NodeAt(t, x.of) : TRUE) \in nodes
      BY <3>1 DEF NodeAt
    <3> QED
      BY <3>2, <2>2, <1>1 DEF Answered
  <2>3. CASE x.kind = "status"
    <3>1. x.of \in nodes
      BY <2>1, <2>3 DEF Resolves, NodesOf
    <3> QED
      BY <3>1, <2>3 DEF Answered
  <2> QED
    BY <2>1, <2>2, <2>3, ReferenceShape
<1>6. \A t, S : Answering(t, S)' <=> Answering(t, S)
  BY <1>4, <1>5 DEF Answering
<1>7. GraphInv'
  <2>1. \A t \in Published' : t \in nodes' /\ tree'[t] = t /\ reply'[t] = None
    BY <1>0 DEF GraphParts, GraphInv
  <2>2. \A i, j \in nodes' : tree'[i] = tree'[j] /\ message'[i] = message'[j] => i = j
    BY DEF GraphParts, GraphInv
  <2>3. ASSUME NEW i \in nodes', tree'[i] \in Published', i # tree'[i]
        PROVE  reply'[i] # None /\ Resolves(tree[i], reply[i])'
    <3>1. reply[i] # None /\ Resolves(tree[i], reply[i])
      BY <2>3, <1>0 DEF GraphParts, GraphInv
    <3>2. NodeAt(tree[i], reply[i].of)' = NodeAt(tree[i], reply[i].of)
      BY DEF NodeAt
    <3> QED
      BY <3>1, <1>1, <1>2 DEF Resolves, NodeAt, NodesOf
  <2>4. \A p, q \in 1 .. Len(published') : published'[p] = published'[q] => p = q
    BY DEF GraphParts, GraphInv
  <2> QED
    BY <2>1, <2>2, <2>3, <2>4 DEF GraphInv
<1>8. IndexMatchesGraphs'
  BY <1>0, <1>3 DEF GraphParts, IndexMatchesGraphs
<1>9. RootedInv'
  <2> SUFFICES ASSUME NEW t \in Published, NEW S \in SUBSET References,
                      Prompt(message'[t]) \in S, Answering(t, S)', NEW i \in NodesOf(t)
               PROVE  Prompt(message'[i]) \in S
    BY <1>0, <1>2 DEF RootedInv
  <2>1. t \in nodes /\ i \in nodes
    BY DEF GraphParts, GraphInv, NodesOf
  <2>2. Prompt(message[t]) \in S /\ Answering(t, S)
    BY <2>1, <1>6
  <2>3. Prompt(message[i]) \in S
    BY <2>2 DEF GraphParts, RootedInv
  <2> QED
    BY <2>1, <2>3
<1> QED
  BY <1>7, <1>8, <1>9 DEF GraphParts

(* A task goes on, and nothing else happens.                               *)
LEMMA TaskGoesOn ==
  ASSUME CInv, NEW i \in Turns, NEW from \in Stages \ {"none"},
         NEW to \in Stages \ {"none"}, Moves(i, from, to),
         UNCHANGED <<intake, state, graph, sessions, queue, active, tombstones, workflow>>
  PROVE  CInv'
<1> USE DEF intake, graph, workflow
<1>1. task' \in [Turns -> Stages] /\ \A j \in Turns : task'[j] = "none" <=> task[j] = "none"
  BY DEF CInv, TypeOK, Moves
<1>2. TypeOK'
  BY <1>1 DEF CInv, TypeOK
<1>3. Published' = Published
  BY DEF Published
<1>4. CommandInv' /\ OwnerInv' /\ NamesInv'
  <2>1. CommandInv' /\ NamesInv'
    BY DEF CInv, CommandInv, NamesInv
  <2>2. \A t \in Turns : active[t] # None => active[t] \in Turns
    BY DEF CInv, TypeOK
  <2> QED
    BY <1>1, <1>3, <2>1, <2>2 DEF CInv, OwnerInv
<1>5. GraphParts'
  BY GraphKept DEF CInv, GraphParts
<1>6. ClearedInv' /\ QueueInv'
  BY <1>3 DEF CInv, ClearedInv, QueueInv
<1> QED
  BY <1>2, <1>4, <1>5, <1>6 DEF CInv, GraphParts

(* A task starts.                                                          *)
LEMMA StartStep == ASSUME CInv, NEW i \in Turns, Start(i) PROVE CInv'
<1>1. CASE Moves(i, "created", "running")
  BY <1>1, TaskGoesOn DEF Start, Stages
<1>2. CASE Moves(i, "chosen", "announcing")
  BY <1>2, TaskGoesOn DEF Start, Stages
<1>3. CASE Moves(i, "announcing", "running")
  BY <1>3, TaskGoesOn DEF Start, Stages
<1> QED
  BY <1>1, <1>2, <1>3 DEF Start

(* A runner returns.                                                       *)
LEMMA RunnerEndsStep == ASSUME CInv, NEW i \in Turns, RunnerEnds(i) PROVE CInv'
  BY TaskGoesOn DEF RunnerEnds, Stages

(* A cancelled runner returns.                                             *)
LEMMA RunnerStoppedStep == ASSUME CInv, NEW i \in Turns, RunnerStopped(i) PROVE CInv'
  BY TaskGoesOn DEF RunnerStopped, Stages
-----------------------------------------------------------------------------
(* Removing messages from a queue keeps it right if exactly their nodes no *)
(* longer wait.                                                            *)
LEMMA QueueShrinks ==
  ASSUME TypeOK, OwnerInv, QueueInv, NEW t \in Turns, NEW gone,
         queue' = [queue EXCEPT ![t] = Remaining(@, gone)],
         tree' = tree, message' = message, active' = active,
         \A j \in Turns : state'[j] = "pending" =>
           state[j] = "pending" /\ (tree[j] = t => message[j] \notin gone),
         \A j \in Turns : state[j] = "pending" /\ state'[j] # "pending" =>
           tree[j] = t /\ message[j] \in gone,
         \A j \in nodes \ nodes' : state'[j] # "pending"
  PROVE  QueueInv' /\ queue' \in [Turns -> Seq(Turns)]
<1> DEFINE q == queue[t]
           r == Remaining(q, gone)
<1>1. q \in Seq(Turns) /\ queue \in [Turns -> Seq(Turns)]
  BY DEF TypeOK
<1>2. queue'[t] = r /\ \A u \in Turns \ {t} : queue'[u] = queue[u]
  BY <1>1
<1>3. /\ r \in Seq(Turns)
      /\ \A p \in 1 .. Len(r) : r[p] \notin gone /\ \E k \in 1 .. Len(q) : q[k] = r[p]
      /\ \A k \in 1 .. Len(q) : q[k] \notin gone => \E p \in 1 .. Len(r) : r[p] = q[k]
      /\ (\A k, l \in 1 .. Len(q) : q[k] = q[l] => k = l) =>
            \A k, l \in 1 .. Len(r) : r[k] = r[l] => k = l
  BY <1>1, RemainingKeeps
<1> HIDE DEF r
<1>4. queue' \in [Turns -> Seq(Turns)]
  BY <1>1, <1>3 DEF r
<1>5. nodes \subseteq Turns
  BY DEF TypeOK
<1>6. ASSUME NEW j \in Turns, state'[j] = "pending"
      PROVE  /\ \E p \in 1 .. Len(queue'[tree'[j]]) : queue'[tree'[j]][p] = message'[j]
             /\ active'[tree'[j]] # None
  <2>1. state[j] = "pending" /\ j \in nodes /\ tree[j] \in Turns
    BY <1>6, PublishedEntries DEF OwnerInv, Runnable
  <2>2. PICK p \in 1 .. Len(queue[tree[j]]) : queue[tree[j]][p] = message[j]
    BY <2>1 DEF QueueInv
  <2>3. active[tree[j]] # None
    BY <2>1 DEF QueueInv
  <2>4. CASE tree[j] = t
    BY <2>2, <2>3, <2>4, <1>2, <1>3, <1>6
  <2>5. CASE tree[j] # t
    BY <2>1, <2>2, <2>3, <2>5, <1>2
  <2> QED
    BY <2>4, <2>5
<1>7. ASSUME NEW u \in Turns, NEW p \in 1 .. Len(queue'[u]), NEW s \in 1 .. Len(queue'[u]),
             queue'[u][p] = queue'[u][s]
      PROVE  p = s
  <2>1. \A k, l \in 1 .. Len(queue[u]) : queue[u][k] = queue[u][l] => k = l
    BY DEF QueueInv
  <2> QED
    BY <2>1, <1>2, <1>3, <1>7
<1>8. ASSUME NEW u \in Turns, NEW p \in 1 .. Len(queue'[u])
      PROVE  \E j \in nodes' : /\ tree'[j] = u /\ message'[j] = queue'[u][p]
                               /\ state'[j] = "pending"
  <2>1. PICK k \in 1 .. Len(queue[u]) :
           queue[u][k] = queue'[u][p] /\ (u = t => queue'[u][p] \notin gone)
    BY <1>2, <1>3
  <2>2. PICK j \in nodes : tree[j] = u /\ message[j] = queue[u][k] /\ state[j] = "pending"
    BY DEF QueueInv
  <2>3. state'[j] = "pending"
    BY <2>1, <2>2, <1>5
  <2> QED
    BY <2>1, <2>2, <2>3
<1>9. QueueInv'
  BY <1>6, <1>7, <1>8 DEF QueueInv
<1> QED
  BY <1>4, <1>9

-----------------------------------------------------------------------------
(* What a runner reports.                                                  *)

(* A session is recorded.                                                  *)
LEMMA RecordSessionStep == ASSUME CInv, NEW i \in Turns, RecordSession(i) PROVE CInv'
<1> USE DEF RecordSession, intake, graph, workflow
<1>1. i \in nodes /\ i \in statuses
  BY MayWriteOwns
<1>2. TypeOK'
  BY <1>1 DEF CInv, TypeOK
<1>3. Published' = Published
  BY DEF Published
<1>4. CommandInv' /\ OwnerInv' /\ NamesInv' /\ QueueInv'
  BY <1>3 DEF CInv, CommandInv, OwnerInv, NamesInv, QueueInv
<1>5. GraphParts'
  BY GraphKept DEF CInv, GraphParts
<1>6. ClearedInv'
  BY <1>1, <1>3 DEF CInv, ClearedInv
<1> QED
  BY <1>2, <1>4, <1>5, <1>6 DEF CInv, GraphParts

(* A claim completes.                                                      *)
LEMMA CompleteClaimStep == ASSUME CInv, NEW i \in Turns, CompleteClaim(i) PROVE CInv'
<1> USE DEF CompleteClaim, intake, graph, workflow
<1>1. i \in nodes /\ i \in statuses
  BY MayWriteOwns
<1>2. TypeOK'
  BY <1>1 DEF CInv, TypeOK, States
<1>3. Published' = Published
  BY DEF Published
<1>4. /\ state' \in [Turns -> States]
      /\ state'[i] = "completed" /\ \A j \in Turns \ {i} : state'[j] = state[j]
      /\ state[i] \in {"in_progress", "error"}
  BY DEF CInv, TypeOK, States
<1>5. CommandInv'
  BY DEF CInv, CommandInv
<1>6. OwnerInv'
  <2>1. \A j \in Turns : state'[j] \in Runnable => state[j] \in Runnable
    BY <1>4 DEF Runnable
  <2>2. \A j \in Turns : state'[j] = "pending" => state[j] = "pending"
    BY <1>4
  <2> QED
    BY <1>3, <2>1, <2>2 DEF CInv, OwnerInv
<1>7. NamesInv'
  <2>1. \A j \in Turns : state'[j] \in Outside <=> state[j] \in Outside
    BY <1>4 DEF Outside
  <2>2. \A j \in Turns : tree[j] # None => tree[j] \in Turns
    BY DEF CInv, TypeOK
  <2> QED
    BY <2>1, <2>2 DEF CInv, NamesInv
<1>8. QueueInv'
  <2>1. \A j \in Turns : state'[j] = "pending" <=> state[j] = "pending"
    BY <1>4
  <2>2. nodes \subseteq Turns
    BY DEF CInv, TypeOK
  <2> QED
    BY <2>1, <2>2 DEF CInv, QueueInv
<1>9. GraphParts'
  BY GraphKept DEF CInv, GraphParts
<1>10. ClearedInv'
  <2>1. nodes \subseteq Turns
    BY DEF CInv, TypeOK
  <2> QED
    BY <1>1, <1>3, <1>4, <2>1 DEF CInv, ClearedInv
<1> QED
  BY <1>2, <1>5, <1>6, <1>7, <1>8, <1>9, <1>10 DEF CInv, GraphParts

(* The failure of a claim, with a task that stays or returns.              *)
LEMMA FailsStep ==
  ASSUME CInv, NEW i \in Turns, task[i] # "none", NEW propagate \in BOOLEAN,
         Fails(i, propagate),
         task' \in [Turns -> Stages],
         \A j \in Turns : task'[j] = "none" <=> task[j] = "none",
         UNCHANGED <<intake, graph, sessions, active, tombstones, workflow>>
  PROVE  CInv'
<1> USE DEF intake, graph, workflow
<1>0. Published' = Published
  BY DEF Published
<1>1. GraphParts'
  BY GraphKept DEF CInv, GraphParts
<1>2. CommandInv'
  BY DEF CInv, CommandInv
<1>3. CASE UNCHANGED <<state, queue>>
  <2>1. TypeOK'
    BY <1>3 DEF CInv, TypeOK
  <2>2. NamesInv' /\ ClearedInv' /\ QueueInv'
    BY <1>3, <1>0 DEF CInv, NamesInv, ClearedInv, QueueInv
  <2>3. \A t \in Turns : active[t] # None => active[t] \in Turns
    BY DEF CInv, TypeOK
  <2>4. OwnerInv'
    BY <1>3, <1>0, <2>3 DEF CInv, OwnerInv
  <2> QED
    BY <1>1, <1>2, <2>1, <2>2, <2>4 DEF CInv, GraphParts
<1>4. CASE MayWrite(i) /\ state[i] # "completed"
  <2> DEFINE t == tree[i]
             below == IF propagate THEN PendingBelow(t, i) ELSE {}
             gone == {message[j] : j \in below}
  <2>1. /\ t \in Turns /\ i \in nodes /\ i \in statuses
    BY <1>4, MayWriteOwns
  <2>2. \A j \in below : j \in nodes /\ tree[j] = t /\ state[j] = "pending"
    BY DEF PendingBelow, NodesOf
  <2>3. /\ state' = [j \in Turns |-> IF j \in below \union {i} THEN "error" ELSE state[j]]
        /\ queue' = [queue EXCEPT ![t] = Remaining(@, gone)]
    BY <1>4, Zenon DEF Fails
  <2>4. state[i] \notin Outside /\ state[i] # "pending"
    BY <2>1 DEF CInv, NamesInv, OwnerInv
  <2> HIDE DEF below
  <2>5. nodes \subseteq Turns /\ state \in [Turns -> States]
    BY DEF CInv, TypeOK
  <2>6. state' \in [Turns -> States]
    BY <2>3, <2>5 DEF States
  <2>7. \A j \in Turns : state'[j] = "pending" => state[j] = "pending" /\ j \notin below
    BY <2>3
  <2>8. \A j \in Turns : state[j] = "pending" /\ state'[j] # "pending" => j \in below
    BY <2>3, <2>4
  <2>9. QueueInv' /\ queue' \in [Turns -> Seq(Turns)]
    <3>1. ASSUME NEW j \in Turns, state'[j] = "pending", tree[j] = t
          PROVE  message[j] \notin gone
      <4> SUFFICES ASSUME NEW k \in below, message[k] = message[j] PROVE FALSE
        BY <2>2
      <4>1. j \in nodes /\ k \in nodes /\ tree[k] = t
        BY <3>1, <2>2, <2>7 DEF CInv, OwnerInv, Runnable
      <4>2. k = j
        BY <4>1, <3>1 DEF CInv, GraphInv
      <4> QED
        BY <4>2, <3>1, <2>7
    <3>2. \A j \in Turns : state[j] = "pending" /\ state'[j] # "pending" =>
            tree[j] = t /\ message[j] \in gone
      BY <2>2, <2>8
    <3>3. \A j \in Turns : state'[j] = "pending" =>
            state[j] = "pending" /\ (tree[j] = t => message[j] \notin gone)
      BY <3>1, <2>7
    <3>4. /\ tree' = tree /\ message' = message /\ active' = active
          /\ \A j \in nodes \ nodes' : state'[j] # "pending"
      OBVIOUS
    <3>5. TypeOK /\ OwnerInv /\ QueueInv
      BY DEF CInv
    <3>6. queue' = [queue EXCEPT ![t] = Remaining(@, gone)] /\ t \in Turns
      BY <2>1, <2>3
    <3> HIDE DEF t, gone
    <3> QED
      BY <3>2, <3>3, <3>4, <3>5, <3>6, QueueShrinks
  <2>10. TypeOK'
    BY <2>6, <2>9 DEF CInv, TypeOK
  <2>11. NamesInv'
    <3>1. \A j \in Turns : state'[j] \in Outside <=> state[j] \in Outside
      BY <2>2, <2>3, <2>4 DEF Outside
    <3>2. \A j \in Turns : tree[j] # None => tree[j] \in Turns
      BY DEF CInv, TypeOK
    <3> QED
      BY <3>1, <3>2 DEF CInv, NamesInv
  <2>12. OwnerInv'
    <3>1. \A j \in Turns : state'[j] \in Runnable => state[j] \in Runnable
      BY <2>3 DEF Runnable
    <3>2. \A u \in Turns : active[u] # None => active[u] \in Turns
      BY DEF CInv, TypeOK
    <3> QED
      BY <1>0, <2>7, <3>1, <3>2 DEF CInv, OwnerInv
  <2>13. ClearedInv'
    <3>1. \A j \in nodes \ statuses : state'[j] = "error"
      BY <2>3, <2>5 DEF CInv, ClearedInv
    <3> QED
      BY <1>0, <3>1 DEF CInv, ClearedInv
  <2> QED
    BY <1>1, <1>2, <2>9, <2>10, <2>11, <2>12, <2>13 DEF CInv, GraphParts
<1> QED
  BY <1>3, <1>4 DEF Fails

(* A runner reports an error.                                              *)
LEMMA FailClaimStep ==
  ASSUME CInv, NEW i \in Turns, NEW propagate \in BOOLEAN, FailClaim(i, propagate)
  PROVE  CInv'
<1>1. task' = task /\ task \in [Turns -> Stages] /\ task[i] # "none"
  BY DEF CInv, TypeOK, FailClaim, Reports
<1> QED
  BY <1>1, FailsStep DEF FailClaim

(* An exception escapes the runner.                                        *)
LEMMA RunnerEscapesStep == ASSUME CInv, NEW i \in Turns, RunnerEscapes(i) PROVE CInv'
<1>1. /\ task' \in [Turns -> Stages] /\ task[i] # "none"
      /\ \A j \in Turns : task'[j] = "none" <=> task[j] = "none"
  BY DEF CInv, TypeOK, RunnerEscapes, Moves, Stages
<1> QED
  BY <1>1, FailsStep DEF RunnerEscapes
-----------------------------------------------------------------------------
(* Intake without an admission.                                            *)

(* A turn is received: nothing knows it yet.                               *)
LEMMA ReceiveStep == ASSUME CInv, NEW i \in Turns, Receive(i) PROVE CInv'
<1> USE DEF graph, workflow
<1>1. state[i] = "unseen" /\ i \notin nodes /\ tree[i] = None
  BY DEF CInv, NamesInv, Outside, Receive
<1>2. /\ message' \in [Turns -> Turns] /\ \A k \in Turns \ {i} : message'[k] = message[k]
      /\ reply' \in [Turns -> References \union {None}]
      /\ \A k \in Turns \ {i} : reply'[k] = reply[k]
  <2> DEFINE OthersKept ==
        /\ message' \in [Turns -> Turns] /\ \A k \in Turns \ {i} : message'[k] = message[k]
        /\ reply' \in [Turns -> References \union {None}]
        /\ \A k \in Turns \ {i} : reply'[k] = reply[k]
  <2>1. message \in [Turns -> Turns] /\ reply \in [Turns -> References \union {None}]
    BY DEF CInv, TypeOK
  <2>2. ASSUME NEW r \in References, reply' = [reply EXCEPT ![i] = r], UNCHANGED message
        PROVE  OthersKept
    BY <2>1, <2>2
  <2>3. ASSUME UNCHANGED <<message, reply>> PROVE OthersKept
    BY <2>1, <2>3
  <2>4. ASSUME NEW j \in Turns, message' = [message EXCEPT ![i] = message[j]],
               reply' = [reply EXCEPT ![i] =
                  IF reply[j] # None /\ index[reply[j]] # None THEN reply[j] ELSE None]
        PROVE  OthersKept
    BY <2>1, <2>4
  <2> HIDE DEF OthersKept
  <2>5. OthersKept
    BY <2>2, <2>3, <2>4 DEF Receive, Earlier
  <2> QED
    BY <2>5 DEF OthersKept
<1>3. token' \in [Turns -> Nat]
  BY DEF Receive, CInv, TypeOK
<1>4. /\ state' \in [Turns -> States] /\ state'[i] = "received"
      /\ \A k \in Turns \ {i} : state'[k] = state[k]
  BY DEF Receive, CInv, TypeOK, States
<1>5. /\ UNCHANGED <<tree, nodes, statuses, published, index, sessions, queue, active>>
      /\ UNCHANGED <<tombstones, task, generation, lock, command, draining>>
  BY DEF Receive
<1>6. TypeOK'
  BY <1>2, <1>3, <1>4, <1>5 DEF CInv, TypeOK
<1>7. Published' = Published
  BY <1>5 DEF Published
<1>8. nodes \subseteq Turns \ {i}
  BY <1>1 DEF CInv, TypeOK
<1>9. GraphParts'
  BY <1>2, <1>5, <1>8, GraphKept DEF CInv, GraphParts
<1>10. CommandInv' /\ ClearedInv'
  <2>1. \A k \in nodes : state'[k] = state[k]
    BY <1>4, <1>8
  <2> QED
    BY <1>5, <1>7, <2>1 DEF CInv, CommandInv, ClearedInv
<1>11. OwnerInv'
  <2>1. \A k \in Turns : state'[k] \in Runnable => state[k] \in Runnable
    BY <1>4 DEF Runnable
  <2>2. \A k \in Turns : state'[k] = "pending" => state[k] = "pending"
    BY <1>4
  <2> QED
    BY <1>5, <1>7, <2>1, <2>2 DEF CInv, OwnerInv
<1>12. NamesInv'
  <2>1. \A k \in Turns : state'[k] \in Outside <=> state[k] \in Outside
    BY <1>1, <1>4 DEF Outside
  <2>2. \A k \in Turns : tree[k] # None => tree[k] \in Turns
    BY DEF CInv, TypeOK
  <2> QED
    BY <1>5, <2>1, <2>2 DEF CInv, NamesInv
<1>13. QueueInv'
  <2>1. \A k \in Turns : state'[k] = "pending" => state[k] = "pending" /\ k \in nodes
    BY <1>4 DEF CInv, OwnerInv, Runnable
  <2>2. \A k \in nodes : message'[k] = message[k] /\ state'[k] = state[k]
    BY <1>2, <1>4, <1>8
  <2>3. ASSUME NEW k \in Turns, state'[k] = "pending"
        PROVE  /\ \E p \in 1 .. Len(queue'[tree'[k]]) : queue'[tree'[k]][p] = message'[k]
               /\ active'[tree'[k]] # None
    BY <1>5, <2>1, <2>2, <2>3 DEF CInv, QueueInv
  <2>4. ASSUME NEW t \in Turns, NEW p \in 1 .. Len(queue'[t])
        PROVE  \E j \in nodes' : /\ tree'[j] = t /\ message'[j] = queue'[t][p]
                                 /\ state'[j] = "pending"
    BY <1>5, <2>2 DEF CInv, QueueInv
  <2>5. \A t \in Turns : \A p, q \in 1 .. Len(queue'[t]) :
          queue'[t][p] = queue'[t][q] => p = q
    BY <1>5 DEF CInv, QueueInv
  <2> QED
    BY <2>3, <2>4, <2>5 DEF QueueInv
<1> QED
  BY <1>6, <1>9, <1>10, <1>11, <1>12, <1>13 DEF CInv, GraphParts

(* A turn is discarded: nothing knew it.                                   *)
LEMMA DiscardStep == ASSUME CInv, NEW i \in Turns, Discard(i) PROVE CInv'
<1> USE DEF Discard, intake, graph, workflow
<1>1. state[i] = "received" /\ i \notin nodes /\ tree[i] = None
  BY DEF CInv, NamesInv, Outside
<1>2. /\ state' \in [Turns -> States] /\ state'[i] = "discarded"
      /\ \A k \in Turns \ {i} : state'[k] = state[k]
  BY DEF CInv, TypeOK, States
<1>3. TypeOK'
  BY <1>2 DEF CInv, TypeOK
<1>4. Published' = Published
  BY DEF Published
<1>5. nodes \subseteq Turns \ {i}
  BY <1>1 DEF CInv, TypeOK
<1>6. GraphParts'
  BY GraphKept DEF CInv, GraphParts
<1>7. CommandInv' /\ ClearedInv'
  <2>1. \A k \in nodes : state'[k] = state[k]
    BY <1>2, <1>5
  <2> QED
    BY <1>4, <2>1 DEF CInv, CommandInv, ClearedInv
<1>8. OwnerInv' /\ QueueInv'
  <2>1. \A k \in Turns : state'[k] \in Runnable => state[k] \in Runnable
    BY <1>2 DEF Runnable
  <2>2. \A k \in Turns : state'[k] = "pending" <=> state[k] = "pending"
    BY <1>1, <1>2
  <2>3. OwnerInv'
    BY <1>4, <2>1, <2>2 DEF CInv, OwnerInv
  <2>4. QueueInv'
    BY <1>5, <2>2 DEF CInv, QueueInv
  <2> QED
    BY <2>3, <2>4
<1>9. NamesInv'
  <2>1. \A k \in Turns : state'[k] \in Outside <=> state[k] \in Outside
    BY <1>1, <1>2 DEF Outside
  <2>2. \A k \in Turns : tree[k] # None => tree[k] \in Turns
    BY DEF CInv, TypeOK
  <2> QED
    BY <2>1, <2>2 DEF CInv, NamesInv
<1> QED
  BY <1>3, <1>6, <1>7, <1>8, <1>9 DEF CInv, GraphParts

-----------------------------------------------------------------------------
(* Commands that leave the graphs alone.                                   *)

(* Only the lock, the commands and the generation change.                  *)
LEMMA OnlyCommands ==
  ASSUME CInv, TypeOK', CommandInv',
         UNCHANGED <<message, reply, state, graph, sessions, queue, active,
                     tombstones, task>>
  PROVE  CInv'
<1> USE DEF graph
<1>1. Published' = Published
  BY DEF Published
<1>2. GraphParts'
  BY GraphKept DEF CInv, GraphParts
<1>3. NamesInv' /\ ClearedInv' /\ QueueInv'
  BY <1>1 DEF CInv, NamesInv, ClearedInv, QueueInv
<1>4. OwnerInv'
  <2>1. \A t \in Turns : active[t] # None => active[t] \in Turns
    BY DEF CInv, TypeOK
  <2> QED
    BY <1>1, <2>1 DEF CInv, OwnerInv
<1> QED
  BY <1>2, <1>3, <1>4 DEF CInv, GraphParts

(* A command takes the lock, which no command has.                         *)
LEMMA BeginStep ==
  ASSUME CInv, NEW c \in Commands,
         NEW op \in {"stop", "clear", "stop_reply", "clear_reply"},
         NEW target \in References \union {None}, Begin(c, op, target),
         \/ op \in {"stop", "clear"} /\ target = None
         \/ op \in {"stop_reply", "clear_reply"} /\ target \in References /\ index[target] # None
  PROVE  CInv'
<1>1. /\ lock = None /\ lock' = c
      /\ command' = [command EXCEPT ![c] =
            [stage |-> "committing", op |-> op, target |-> target]]
      /\ generation' \in Nat
  BY DEF Begin, CInv, TypeOK
<1>2. UNCHANGED <<message, reply, token, state, graph, sessions, queue, active,
                  tombstones, task, draining>>
  BY DEF Begin
<1>3. TypeOK'
  BY <1>1, <1>2 DEF CInv, TypeOK, graph
<1>4. \A d \in Commands : command[d].stage \notin {"committing", "draining"}
  BY <1>1, TurnsAreNot DEF CInv, CommandInv
<1>5. /\ \A d \in Commands \ {c} : command'[d] = command[d]
      /\ command'[c].stage = "committing" /\ command'[c].op = op
      /\ command'[c].target = target
  BY <1>1 DEF CInv, TypeOK
<1>6. CommandInv'
  BY <1>1, <1>2, <1>4, <1>5 DEF CommandInv, graph
<1> QED
  BY <1>2, <1>3, <1>6, OnlyCommands

(* A command of any kind takes the lock.                                   *)
LEMMA BeginAnyStep == ASSUME CInv, NEW c \in Commands, BeginAny(c) PROVE CInv'
<1>1. CASE Begin(c, "stop", None)
  BY <1>1, BeginStep
<1>2. CASE Begin(c, "clear", None)
  BY <1>2, BeginStep
<1>3. CASE \E r \in References : index[r] # None /\ Begin(c, "stop_reply", r)
  BY <1>3, BeginStep
<1>4. CASE \E r \in References : index[r] # None /\ Begin(c, "clear_reply", r)
  BY <1>4, BeginStep
<1> QED
  BY <1>1, <1>2, <1>3, <1>4 DEF BeginAny

(* The holder of the lock is through, or has tasks to wait for.            *)
LEMMA CommandMoves ==
  ASSUME TypeOK, CommandInv, NEW c \in Commands, lock = c,
         \/ \E stage \in {"done", "raised"} : Returns(c, stage)
         \/ Drains(c)
  PROVE  /\ CommandInv'
         /\ CommandsTyped'
<1>1. \A d \in Commands \ {c} : command[d].stage \notin {"committing", "draining"}
  BY DEF CommandInv
<1>2. ASSUME NEW stage \in {"done", "raised"}, Returns(c, stage)
      PROVE  /\ command' = [command EXCEPT ![c] =
                   [stage |-> stage, op |-> None, target |-> None]]
             /\ lock' = None
  BY <1>2 DEF Returns
<1>3. CASE \E stage \in {"done", "raised"} : Returns(c, stage)
  <2>1. PICK stage \in {"done", "raised"} : Returns(c, stage)
    BY <1>3
  <2>2. /\ \A d \in Commands \ {c} : command'[d] = command[d]
        /\ command'[c].stage = stage /\ lock' = None
    BY <1>2, <2>1 DEF TypeOK
  <2>3. CommandInv'
    BY <1>1, <2>2 DEF CommandInv
  <2>4. command' = [command EXCEPT ![c] = [stage |-> stage, op |-> None, target |-> None]]
    BY <1>2, <2>1
  <2> QED
    BY <2>2, <2>3, <2>4 DEF TypeOK, CommandsTyped
<1>4. CASE Drains(c)
  <2>1. /\ \A d \in Commands \ {c} : command'[d] = command[d]
        /\ command'[c].stage = "draining" /\ lock' = c
    BY <1>4 DEF TypeOK, Drains
  <2>2. CommandInv'
    BY <1>1, <2>1 DEF CommandInv
  <2>3. command' = [command EXCEPT ![c].stage = "draining"] /\ lock' = lock
    BY <1>4 DEF Drains
  <2> QED
    BY <2>2, <2>3 DEF TypeOK, CommandsTyped
<1> QED
  BY <1>3, <1>4

(* A drain ends.                                                           *)
LEMMA EndDrainStep == ASSUME CInv, NEW c \in Commands, EndDrain(c) PROVE CInv'
<1>1. lock = c
  BY DEF EndDrain, CInv, CommandInv
<1>2. /\ CommandInv' /\ CommandsTyped'
  BY <1>1, CommandMoves DEF EndDrain, CInv
<1>3. draining' \in [Commands -> SUBSET Turns]
  BY DEF EndDrain, CInv, TypeOK
<1>4. TypeOK'
  BY <1>2, <1>3 DEF CInv, TypeOK, CommandsTyped, EndDrain, intake, graph
<1> QED
  BY <1>2, <1>4, OnlyCommands DEF EndDrain, intake
-----------------------------------------------------------------------------
(* A turn is admitted.                                                     *)

(* Where an admitted turn goes: its own tree, of which nothing exists yet, *)
(* or a published tree that holds what it answers.                         *)
LEMMA AdmittedTree ==
  ASSUME CInv, NEW i \in Turns, Admit(i)
  PROVE  LET t == TreeFor(i) IN
         /\ t \in Turns
         /\ i \notin nodes /\ tree[i] = None /\ task[i] = "none" /\ i \notin Published
         /\ \A j \in nodes : tree[j] = t => message[j] # message[i]
         /\ \A u \in Published : \A j \in nodes : tree[j] = u => message[j] # message[i]
         /\ \/ /\ t = i /\ reply[i] = None /\ active[i] = None
               /\ \A j \in Turns : tree[j] # i
            \/ /\ t # i /\ reply[i] \in References /\ t \in Published
               /\ Resolves(t, reply[i]) /\ reply[i] # None
<1> DEFINE t == TreeFor(i)
<1>1. i \notin nodes /\ tree[i] = None /\ state[i] \in Outside
  BY DEF CInv, NamesInv, Outside, Admit
<1>2. task[i] = "none" /\ i \notin Published
  BY <1>1 DEF CInv, OwnerInv, GraphInv
<1>3. \A u \in Published : \A j \in nodes : tree[j] = u => message[j] # message[i]
  <2>1. message[i] \in Turns /\ Prompt(message[i]) \in References
    BY ReferenceShape DEF CInv, TypeOK
  <2>2. index[Prompt(message[i])] = None
    BY DEF Admit, IsDuplicate
  <2>3. \A u \in Published : u \in Turns /\ u # None
    BY PublishedEntries, TurnsAreNot DEF CInv
  <2>4. \A u \in Published : ~Resolves(u, Prompt(message[i]))
    BY <2>1, <2>2, <2>3 DEF CInv, IndexMatchesGraphs
  <2> QED
    BY <2>4, ResolvesPrompt
<1>4. CASE reply[i] = None
  <2>1. t = i
    BY <1>4 DEF TreeFor
  <2>2. \A j \in Turns : tree[j] # i
    BY <1>1, TurnsAreNot DEF CInv, NamesInv
  <2>3. active[i] = None
    <3> SUFFICES ASSUME active[i] # None PROVE FALSE
      OBVIOUS
    <3>1. active[i] \in Turns
      BY DEF CInv, TypeOK
    <3> QED
      BY <2>2, <3>1 DEF CInv, OwnerInv
  <2>4. nodes \subseteq Turns
    BY DEF CInv, TypeOK
  <2> QED
    BY <1>1, <1>2, <1>3, <1>4, <2>1, <2>2, <2>3, <2>4
<1>5. CASE reply[i] # None
  <2>1. reply[i] \in References /\ index[reply[i]] # None /\ t = index[reply[i]]
    BY <1>5 DEF TreeFor, TreeOfReply, Admit, ParentRemoved, CInv, TypeOK
  <2>2. t \in Turns
    BY <2>1 DEF CInv, TypeOK
  <2>3. t \in Published /\ Resolves(t, reply[i])
    BY <2>1, <2>2 DEF CInv, IndexMatchesGraphs
  <2>4. t # i
    BY <1>2, <2>3
  <2> QED
    BY <1>1, <1>2, <1>3, <1>5, <2>1, <2>2, <2>3, <2>4
<1> QED
  BY <1>4, <1>5

(* A turn is admitted: its references are new, its tree and its queue take *)
(* it, and what it answers keeps the tree rooted.                          *)
LEMMA AdmitStep == ASSUME CInv, NEW i \in Turns, Admit(i) PROVE CInv'
<1> DEFINE t == TreeFor(i)
           m == message[i]
<1> USE DEF intake, workflow
<1>1. /\ t \in Turns
      /\ i \notin nodes /\ tree[i] = None /\ task[i] = "none" /\ i \notin Published
      /\ \A j \in nodes : tree[j] = t => message[j] # m
      /\ \A u \in Published : \A j \in nodes : tree[j] = u => message[j] # m
  BY AdmittedTree
<1>2. \/ /\ t = i /\ reply[i] = None /\ active[i] = None
         /\ \A j \in Turns : tree[j] # i
      \/ /\ t # i /\ reply[i] \in References /\ t \in Published
         /\ Resolves(t, reply[i]) /\ reply[i] # None
  BY AdmittedTree
<1>3. /\ UNCHANGED <<message, reply, token, generation, sessions, tombstones>>
      /\ UNCHANGED <<lock, command, draining>>
      /\ state[i] = "received"
      /\ nodes' = nodes \union {i} /\ statuses' = statuses \union {i}
      /\ EnqueueOrClaim(t, i) /\ RegisterReferences(t, i)
  BY DEF Admit, AddNode
<1> HIDE DEF t
<1>4. /\ message \in [Turns -> Turns] /\ reply \in [Turns -> References \union {None}]
      /\ state \in [Turns -> States] /\ tree \in [Turns -> Turns \union {None}]
      /\ nodes \subseteq Turns /\ statuses \subseteq nodes
      /\ queue \in [Turns -> Seq(Turns)] /\ active \in [Turns -> Turns \union {None}]
      /\ published \in Seq(Turns)
      /\ index \in [References -> Turns \union {None}] /\ task \in [Turns -> Stages]
  BY DEF CInv, TypeOK
<1>5. m \in Turns /\ Prompt(m) \in References /\ Status(i) \in References /\ i # None
  BY <1>4, ReferenceShape, TurnsAreNot
<1> HIDE DEF m
<1>6. /\ \A j \in Turns : tree'[j] = IF j = i THEN t ELSE tree[j]
      /\ tree' \in [Turns -> Turns \union {None}]
  BY <1>1, <1>3, <1>4 DEF RegisterReferences
<1>7. /\ \A r \in References :
           index'[r] = IF r \in {Prompt(m), Status(i)} THEN t ELSE index[r]
      /\ index' \in [References -> Turns \union {None}]
  <2>1. index' = [index EXCEPT ![Prompt(m)] = t, ![Status(i)] = t]
    BY <1>3 DEF RegisterReferences, m
  <2> QED
    BY <1>1, <1>4, <1>5, <2>1
<1>8. /\ published' \in Seq(Turns)
      /\ \A u : u \in Published' <=> u \in Published \/ (t = i /\ u = i)
      /\ \A p, q \in 1 .. Len(published') : published'[p] = published'[q] => p = q
  <2>0. /\ \A p, q \in 1 .. Len(published) : published[p] = published[q] => p = q
        /\ \A u : u \in Published <=> \E p \in 1 .. Len(published) : published[p] = u
    BY PublishedEntries DEF CInv, GraphInv
  <2>1. CASE t = i
    <3>1. published' = Append(published, i)
      BY <1>2, <1>3, <2>1 DEF RegisterReferences
    <3>2. /\ published' \in Seq(Turns) /\ Len(published') = Len(published) + 1
          /\ \A p \in 1 .. Len(published) : published'[p] = published[p]
          /\ published'[Len(published) + 1] = i
      BY <1>4, <3>1, AppendProperties
    <3>3. Len(published) \in Nat
      BY <1>4
    <3>4. \A u : u \in Published' <=> \E p \in 1 .. Len(published') : published'[p] = u
      <4>1. DOMAIN published' = 1 .. Len(published')
        BY <3>2
      <4> QED
        BY <4>1 DEF Published, ToSet
    <3>5. \A u : u \in Published' <=> u \in Published \/ u = i
      BY <2>0, <3>2, <3>3, <3>4
    <3>6. \A p \in 1 .. Len(published) : published[p] # i
      BY <1>1, <2>0
    <3>7. \A p, q \in 1 .. Len(published') : published'[p] = published'[q] => p = q
      BY <2>0, <3>2, <3>3, <3>6
    <3> QED
      BY <2>1, <3>2, <3>5, <3>7
  <2>2. CASE t # i
    <3>1. published' = published
      BY <1>2, <1>3, <2>2 DEF RegisterReferences
    <3> QED
      BY <1>4, <2>0, <2>2, <3>1 DEF Published
  <2> QED
    BY <2>1, <2>2
<1>9. t \in Published'
  BY <1>2, <1>8
<1>10. /\ state' \in [Turns -> States] /\ state'[i] \in Runnable
       /\ \A j \in Turns \ {i} : state'[j] = state[j]
  <2>1. \E s \in {"pending", "in_progress"} : state' = [state EXCEPT ![i] = s]
    BY <1>3 DEF EnqueueOrClaim
  <2> QED
    BY <1>4, <2>1 DEF States, Runnable
<1>11. \/ /\ active[t] = None
          /\ active' = [active EXCEPT ![t] = i] /\ state'[i] = "in_progress"
          /\ task' = [task EXCEPT ![i] = "created"] /\ queue' = queue
       \/ /\ active[t] # None /\ t # i
          /\ active' = active /\ state'[i] = "pending" /\ task' = task
          /\ queue' = [queue EXCEPT ![t] = Append(@, m)]
  BY <1>2, <1>3, <1>4 DEF EnqueueOrClaim, m
<1>12. CommandInv'
  <2>1. \A r \in References : index[r] # None => index'[r] # None
    BY <1>1, <1>7, TurnsAreNot
  <2> QED
    BY <1>3, <2>1 DEF CInv, CommandInv
<1>13. NamesInv'
  <2>1. \A j \in Turns : state'[j] \in Outside => j # i /\ state[j] \in Outside
    BY <1>10 DEF Runnable, Outside
  <2>2. \A j \in Turns : state'[j] \in Outside => tree'[j] = None /\ j \notin nodes'
    BY <1>3, <1>6, <2>1 DEF CInv, NamesInv
  <2>3. \A j \in nodes' : tree'[j] # None
    BY <1>1, <1>3, <1>4, <1>6, TurnsAreNot DEF CInv, NamesInv
  <2>4. ASSUME NEW j \in Turns, tree'[j] # None
        PROVE  state'[tree'[j]] \notin Outside
    <3>1. state[t] \notin Outside \/ t = i
      BY <1>1, <1>2 DEF CInv, NamesInv, GraphInv
    <3>2. CASE j = i
      BY <1>1, <1>6, <2>1, <3>1, <3>2
    <3>3. CASE j # i
      <4>1. tree'[j] = tree[j] /\ tree[j] \in Turns
        BY <1>4, <1>6, <2>4, <3>3
      <4>2. state[tree[j]] \notin Outside
        BY <2>4, <4>1 DEF CInv, NamesInv
      <4> QED
        BY <2>1, <4>1, <4>2
    <3> QED
      BY <3>2, <3>3
  <2> QED
    BY <2>2, <2>3, <2>4 DEF NamesInv
<1>14. /\ task' \in [Turns -> Stages] /\ active' \in [Turns -> Turns \union {None}]
       /\ \A u \in Turns : active'[u] = active[u] \/ (u = t /\ active[t] = None /\ active'[t] = i)
       /\ \A j \in Turns \ {i} : task'[j] = task[j]
       /\ task'[i] # "none" => active'[t] = i /\ state'[i] # "pending"
       /\ active'[t] = i => task'[i] # "none"
       /\ active'[t] # None
  <2>1. CASE /\ active[t] = None
             /\ active' = [active EXCEPT ![t] = i] /\ state'[i] = "in_progress"
             /\ task' = [task EXCEPT ![i] = "created"] /\ queue' = queue
    BY <1>1, <1>4, <1>5, <2>1 DEF Stages
  <2>2. CASE /\ active[t] # None /\ t # i
             /\ active' = active /\ state'[i] = "pending" /\ task' = task
             /\ queue' = [queue EXCEPT ![t] = Append(@, m)]
    <3>1. active[t] # i
      BY <1>1, <1>5 DEF CInv, OwnerInv
    <3> QED
      BY <1>1, <1>4, <2>2, <3>1
  <2> QED
    BY <1>11, <2>1, <2>2
<1>15. OwnerInv'
  <2>1. ASSUME NEW j \in Turns, task'[j] # "none"
        PROVE  tree'[j] # None /\ active'[tree'[j]] = j
    <3>1. CASE j = i
      BY <1>1, <1>6, <1>14, <2>1, <3>1, TurnsAreNot
    <3>2. CASE j # i
      <4>1. tree[j] # None /\ active[tree[j]] = j
        BY <1>14, <2>1, <3>2 DEF CInv, OwnerInv
      <4>2. tree[j] \in Turns /\ tree'[j] = tree[j] /\ j # None
        BY <1>4, <1>6, <3>2, <4>1, TurnsAreNot
      <4> QED
        BY <1>14, <4>1, <4>2
    <3> QED
      BY <3>1, <3>2
  <2>2. ASSUME NEW u \in Turns, active'[u] # None
        PROVE  task'[active'[u]] # "none" /\ tree'[active'[u]] = u
    <3>1. CASE active'[u] = i /\ u = t
      BY <1>6, <1>14, <3>1
    <3>2. CASE active'[u] = active[u]
      <4>1. task[active[u]] # "none" /\ tree[active[u]] = u /\ active[u] \in Turns
        BY <1>4, <2>2, <3>2 DEF CInv, OwnerInv
      <4>2. active[u] # i
        BY <1>1, <4>1
      <4> QED
        BY <1>6, <1>14, <3>2, <4>1, <4>2
    <3> QED
      BY <1>14, <3>1, <3>2
  <2>3. \A j \in Turns : state'[j] \in Runnable => j \in nodes' /\ tree'[j] \in Published'
    <3>1. ASSUME NEW j \in Turns, j # i, state'[j] \in Runnable
          PROVE  j \in nodes' /\ tree'[j] \in Published'
      BY <1>3, <1>6, <1>8, <1>10, <3>1 DEF CInv, OwnerInv
    <3> QED
      BY <1>3, <1>6, <1>9, <3>1
  <2>4. \A j \in Turns : state'[j] = "pending" => task'[j] = "none"
    BY <1>10, <1>14 DEF CInv, OwnerInv
  <2> QED
    BY <2>1, <2>2, <2>3, <2>4 DEF OwnerInv
<1>16. ClearedInv'
  <2>1. ASSUME NEW u \in Published', active'[u] # None, active'[u] \notin nodes'
        PROVE  active'[u] \in tombstones'
    <3>1. u \in Turns
      BY <1>1, <1>8, PublishedEntries DEF CInv
    <3>2. active'[u] = active[u]
      BY <1>3, <1>14, <2>1, <3>1
    <3>3. u \in Published
      BY <1>2, <1>8, <2>1, <3>2
    <3> QED
      BY <1>3, <2>1, <3>2, <3>3 DEF CInv, ClearedInv
  <2>2. ASSUME NEW j \in nodes' \ statuses'
        PROVE  /\ state'[j] = "error" /\ j \notin sessions'
               /\ active'[tree'[j]] = j => j \in tombstones'
    <3>1. j \in nodes \ statuses /\ j # i /\ j \in Turns
      BY <1>3, <1>4
    <3>2. tree'[j] = tree[j] /\ tree[j] \in Turns
      BY <1>4, <1>6, <3>1 DEF CInv, NamesInv
    <3> QED
      BY <1>3, <1>10, <1>14, <3>1, <3>2 DEF CInv, ClearedInv
  <2> QED
    BY <2>1, <2>2 DEF ClearedInv
<1>17. QueueInv' /\ queue' \in [Turns -> Seq(Turns)]
  <2>1. \A j \in nodes : j # i /\ tree'[j] = tree[j] /\ state'[j] = state[j] /\ j \in nodes'
    BY <1>1, <1>3, <1>4, <1>6, <1>10
  <2>2. \A j \in Turns \ {i} : state'[j] = "pending" => state[j] = "pending" /\ j \in nodes
    BY <1>10 DEF CInv, OwnerInv, Runnable
  <2>3. \A u \in Turns : active[u] # None => active'[u] # None
    BY <1>5, <1>14
  <2>4. \A j \in nodes : tree[j] \in Turns
    BY <1>4 DEF CInv, NamesInv
  <2>5. CASE queue' = queue /\ state'[i] = "in_progress"
    <3>1. \A j \in Turns : state'[j] = "pending" =>
            /\ \E p \in 1 .. Len(queue'[tree'[j]]) : queue'[tree'[j]][p] = message'[j]
            /\ active'[tree'[j]] # None
      BY <1>3, <2>1, <2>2, <2>3, <2>4, <2>5 DEF CInv, QueueInv
    <3>2. \A u \in Turns : \A p, q \in 1 .. Len(queue'[u]) :
            queue'[u][p] = queue'[u][q] => p = q
      BY <2>5 DEF CInv, QueueInv
    <3>3. ASSUME NEW u \in Turns, NEW p \in 1 .. Len(queue'[u])
          PROVE  \E j \in nodes' : /\ tree'[j] = u /\ message'[j] = queue'[u][p]
                                   /\ state'[j] = "pending"
      <4>1. PICK j \in nodes : tree[j] = u /\ message[j] = queue[u][p] /\ state[j] = "pending"
        BY <2>5 DEF CInv, QueueInv
      <4> QED
        BY <1>3, <2>1, <2>5, <4>1
    <3> QED
      BY <1>4, <2>5, <3>1, <3>2, <3>3 DEF QueueInv
  <2>6. CASE queue' = [queue EXCEPT ![t] = Append(@, m)]
    <3> DEFINE q == queue[t]
               s == Append(q, m)
    <3>1. q \in Seq(Turns) /\ Len(q) \in Nat
      BY <1>1, <1>4
    <3>2. /\ s \in Seq(Turns) /\ Len(s) = Len(q) + 1 /\ s[Len(q) + 1] = m
          /\ \A p \in 1 .. Len(q) : s[p] = q[p]
      BY <1>5, <3>1, AppendProperties
    <3> HIDE DEF s
    <3>3. /\ queue'[t] = s /\ \A u \in Turns \ {t} : queue'[u] = queue[u]
          /\ queue' \in [Turns -> Seq(Turns)]
      <4>1. queue' = [queue EXCEPT ![t] = s]
        BY <2>6 DEF s
      <4> QED
        BY <1>1, <1>4, <3>2, <4>1
    <3>4. \A p \in 1 .. Len(q) :
            /\ q[p] # m
            /\ \E j \in nodes : tree[j] = t /\ message[j] = q[p] /\ state[j] = "pending"
      BY <1>1 DEF CInv, QueueInv
    <3>5. \A k, l \in 1 .. Len(q) : q[k] = q[l] => k = l
      BY <1>1 DEF CInv, QueueInv
    <3>6. ASSUME NEW j \in Turns, state'[j] = "pending"
          PROVE  /\ \E p \in 1 .. Len(queue'[tree'[j]]) : queue'[tree'[j]][p] = message'[j]
                 /\ active'[tree'[j]] # None
      <4>1. CASE j = i
        <5>1. Len(q) + 1 \in 1 .. Len(s)
          BY <3>1, <3>2
        <5> QED
          BY <1>3, <1>6, <1>14, <3>2, <3>3, <4>1, <5>1 DEF m
      <4>2. CASE j # i
        <5>1. state[j] = "pending" /\ j \in nodes /\ tree[j] \in Turns /\ tree'[j] = tree[j]
          BY <2>1, <2>2, <2>4, <3>6, <4>2
        <5>2. active[tree[j]] # None
          BY <5>1 DEF CInv, QueueInv
        <5>3. PICK p \in 1 .. Len(queue[tree[j]]) : queue[tree[j]][p] = message[j]
          BY <5>1 DEF CInv, QueueInv
        <5>4. \E k \in 1 .. Len(queue'[tree[j]]) : queue'[tree[j]][k] = message[j]
          <6>1. CASE tree[j] = t
            <7>1. p \in 1 .. Len(q) /\ q[p] = message[j]
              BY <5>3, <6>1
            <7> HIDE DEF q
            <7>2. p \in 1 .. Len(s) /\ s[p] = message[j]
              BY <3>1, <3>2, <7>1
            <7> QED
              BY <3>3, <6>1, <7>2
          <6>2. CASE tree[j] # t
            BY <3>3, <5>1, <5>3, <6>2
          <6> QED
            BY <6>1, <6>2
        <5> QED
          BY <1>3, <2>3, <5>1, <5>2, <5>4
      <4> QED
        BY <4>1, <4>2
    <3>7. ASSUME NEW u \in Turns, NEW p \in 1 .. Len(queue'[u]), NEW k \in 1 .. Len(queue'[u]),
                 queue'[u][p] = queue'[u][k]
          PROVE  p = k
      <4>1. CASE u = t
        <5>1. p \in 1 .. Len(s) /\ k \in 1 .. Len(s) /\ s[p] = s[k]
          BY <3>3, <3>7, <4>1
        <5> HIDE DEF q
        <5> QED
          BY <3>1, <3>2, <3>4, <3>5, <5>1
      <4>2. CASE u # t
        <5>1. queue'[u] = queue[u]
          BY <3>3, <4>2
        <5>2. p \in 1 .. Len(queue[u]) /\ k \in 1 .. Len(queue[u]) /\ queue[u][p] = queue[u][k]
          BY <3>7, <5>1
        <5> QED
          BY <5>2 DEF CInv, QueueInv
      <4> QED
        BY <4>1, <4>2
    <3>8. ASSUME NEW u \in Turns, NEW p \in 1 .. Len(queue'[u])
          PROVE  \E j \in nodes' : /\ tree'[j] = u /\ message'[j] = queue'[u][p]
                                   /\ state'[j] = "pending"
      <4>1. CASE u = t
        <5>1. p \in 1 .. Len(s) /\ queue'[u] = s
          BY <3>3, <4>1
        <5>2. CASE p \in 1 .. Len(q)
          <6>1. PICK j \in nodes : tree[j] = t /\ message[j] = q[p] /\ state[j] = "pending"
            BY <3>4, <5>2
          <6> QED
            BY <1>3, <2>1, <3>2, <4>1, <5>1, <5>2, <6>1
        <5>3. CASE p \notin 1 .. Len(q)
          <6>1. s[p] = m
            <7> HIDE DEF q
            <7> QED
              BY <3>1, <3>2, <5>1, <5>3
          <6>2. state'[i] = "pending"
            BY <1>4, <1>11, <2>6, <3>1, <3>2, <3>3
          <6> QED
            BY <1>3, <1>6, <4>1, <5>1, <6>1, <6>2 DEF m
        <5> QED
          BY <5>2, <5>3
      <4>2. CASE u # t
        <5>1. queue'[u] = queue[u]
          BY <3>3, <4>2
        <5>2. p \in 1 .. Len(queue[u])
          BY <5>1
        <5>3. PICK j \in nodes : tree[j] = u /\ message[j] = queue[u][p] /\ state[j] = "pending"
          BY <5>2 DEF CInv, QueueInv
        <5> QED
          BY <1>3, <2>1, <5>1, <5>3
      <4> QED
        BY <4>1, <4>2
    <3> QED
      BY <3>3, <3>6, <3>7, <3>8 DEF QueueInv
  <2> QED
    BY <1>11, <2>5, <2>6
<1>18. TypeOK'
  BY <1>3, <1>4, <1>6, <1>7, <1>8, <1>10, <1>14, <1>17 DEF CInv, TypeOK
<1>19. ASSUME NEW u, u # None, NEW r \in References
       PROVE  Resolves(u, r)' <=>
                Resolves(u, r) \/ (u = t /\ r \in {Prompt(m), Status(i)})
  <2>1. \A j \in nodes : tree'[j] = tree[j] /\ message'[j] = message[j]
    BY <1>1, <1>3, <1>4, <1>6
  <2>2. tree'[i] = t /\ message'[i] = m
    BY <1>3, <1>6 DEF m
  <2>3. CASE r.kind = "prompt"
    <3>1. r = Prompt(r.of)
      BY <2>3, ReferenceShape
    <3>2. Resolves(u, r) <=> \E j \in nodes : tree[j] = u /\ message[j] = r.of
      BY <3>1, ResolvesPrompt
    <3>3. Resolves(u, r)' <=> \E j \in nodes' : tree'[j] = u /\ message'[j] = r.of
      <4>1. Resolves(u, r)' <=> NodeAt(u, r.of)' # {}
        BY <2>3, Zenon DEF Resolves
      <4> QED
        BY <4>1 DEF NodeAt
    <3>4. r \in {Prompt(m), Status(i)} <=> r.of = m
      BY <3>1, ReferenceShape
    <3> QED
      BY <1>3, <2>1, <2>2, <3>2, <3>3, <3>4
  <2>4. CASE r.kind = "status"
    <3>1. r = Status(r.of)
      BY <2>4, ReferenceShape
    <3>2. Resolves(u, r) <=> r.of \in nodes /\ tree[r.of] = u /\ r.of \in statuses
      BY <3>1, ResolvesStatus
    <3>3. Resolves(u, r)' <=> r.of \in nodes' /\ tree'[r.of] = u /\ r.of \in statuses'
      BY <2>4 DEF Resolves, NodesOf
    <3>4. r \in {Prompt(m), Status(i)} <=> r.of = i
      BY <3>1, ReferenceShape
    <3> QED
      BY <1>1, <1>3, <1>4, <2>1, <2>2, <3>2, <3>3, <3>4
  <2> QED
    BY <2>3, <2>4, ReferenceShape
<1>20. IndexMatchesGraphs'
  <2> SUFFICES ASSUME NEW r \in References, NEW u \in Turns
               PROVE  index'[r] = u <=> u \in Published' /\ Resolves(u, r)'
    BY DEF IndexMatchesGraphs
  <2>1. index[r] = u <=> u \in Published /\ Resolves(u, r)
    BY DEF CInv, IndexMatchesGraphs
  <2>2. u # None /\ (Resolves(u, r)' <=>
                       Resolves(u, r) \/ (u = t /\ r \in {Prompt(m), Status(i)}))
    BY <1>19, TurnsAreNot
  <2>3. u \in Published' <=> u \in Published \/ (t = i /\ u = i)
    BY <1>8
  <2>4. t = i => ~Resolves(i, r)
    <3> SUFFICES ASSUME t = i, Resolves(i, r) PROVE FALSE
      OBVIOUS
    <3>1. \E j \in nodes : tree[j] = i
      BY ReferenceShape, ResolvesPrompt, ResolvesStatus
    <3> QED
      BY <1>2, <1>4, <3>1
  <2>5. CASE r \in {Prompt(m), Status(i)}
    <3>1. index'[r] = t
      BY <1>7, <2>5
    <3>2. ~(u \in Published /\ Resolves(u, r))
      <4>1. CASE r = Prompt(m)
        BY <1>1, <4>1, ResolvesPrompt
      <4>2. CASE r = Status(i)
        BY <1>1, <4>2, ResolvesStatus
      <4> QED
        BY <2>5, <4>1, <4>2
    <3> QED
      BY <1>9, <2>2, <2>3, <2>4, <2>5, <3>1, <3>2
  <2>6. CASE r \notin {Prompt(m), Status(i)}
    <3>1. index'[r] = index[r]
      BY <1>7, <2>6
    <3> QED
      BY <2>1, <2>2, <2>3, <2>4, <2>6, <3>1
  <2> QED
    BY <2>5, <2>6
<1>21. GraphInv'
  <2>1. \A j \in nodes : j # i /\ tree'[j] = tree[j] /\ message'[j] = message[j] /\ j \in Turns
    BY <1>1, <1>3, <1>4, <1>6
  <2>2. tree'[i] = t /\ message'[i] = m /\ i \in nodes'
    BY <1>3, <1>6 DEF m
  <2>3. \A u \in Published' : u \in nodes' /\ tree'[u] = u /\ reply'[u] = None
    BY <1>2, <1>3, <1>8, <2>1, <2>2 DEF CInv, GraphInv
  <2>4. ASSUME NEW j \in nodes', NEW k \in nodes',
               tree'[j] = tree'[k], message'[j] = message'[k]
        PROVE  j = k
    <3>1. CASE j \in nodes /\ k \in nodes
      BY <2>1, <2>4, <3>1 DEF CInv, GraphInv
    <3>2. CASE j = i \/ k = i
      BY <1>1, <1>3, <2>1, <2>2, <2>4, <3>2
    <3> QED
      BY <1>3, <3>1, <3>2
  <2>5. ASSUME NEW j \in nodes', tree'[j] \in Published', j # tree'[j]
        PROVE  reply'[j] # None /\ Resolves(tree[j], reply[j])'
    <3>0. \A u, r : u # None /\ r \in References /\ Resolves(u, r) =>
            ResolvedBy(nodes', tree', message', statuses', u, r)
      BY <1>19, ResolvesNext
    <3>1. CASE j = i
      <4>1. /\ reply[i] \in References /\ t \in Published
            /\ Resolves(t, reply[i]) /\ reply[i] # None /\ t # None
        BY <1>1, <1>2, <2>2, <2>5, <3>1, TurnsAreNot
      <4>2. tree'[j] = t /\ reply'[j] = reply[i]
        BY <1>3, <2>2, <3>1
      <4> QED
        BY <3>0, <4>1, <4>2, AnswerResolvesNext
    <3>2. CASE j # i
      <4>1. j \in nodes /\ tree'[j] = tree[j] /\ reply'[j] = reply[j] /\ j \in Turns
        BY <1>3, <2>1, <3>2
      <4>2. tree[j] # i \/ t # i
        BY <1>2, <2>1, <4>1
      <4>3. tree[j] \in Published /\ j # tree[j]
        BY <1>8, <2>5, <4>1, <4>2
      <4>4. reply[j] # None /\ Resolves(tree[j], reply[j])
        BY <4>1, <4>3 DEF CInv, GraphInv
      <4>5. reply[j] \in References /\ tree[j] # None
        BY <1>4, <4>1, <4>4 DEF CInv, NamesInv
      <4> QED
        BY <3>0, <4>1, <4>4, <4>5, AnswerResolvesNext
    <3> QED
      BY <3>1, <3>2
  <2> QED
    BY <1>8, <2>3, <2>4, <2>5 DEF GraphInv
<1>22. RootedInv'
  <2> SUFFICES ASSUME NEW u \in Published', NEW S \in SUBSET References,
                      Prompt(message'[u]) \in S, Answering(u, S)', NEW j \in NodesOf(u)'
               PROVE  Prompt(message'[j]) \in S
    BY DEF RootedInv
  <2>1. \A k \in nodes : k # i /\ tree'[k] = tree[k] /\ k \in Turns /\ k \in nodes'
    BY <1>1, <1>3, <1>4, <1>6
  <2>2. /\ tree'[i] = t /\ message[i] = m /\ nodes' = nodes \union {i}
        /\ message' = message /\ reply' = reply
    BY <1>3, <1>6 DEF m
  <2>3. j \in nodes' /\ tree'[j] = u
    BY DEF NodesOf
  <2>4. CASE t = i /\ u = i
    <3>1. j = i
      BY <1>2, <2>1, <2>2, <2>3, <2>4
    <3> QED
      BY <2>4, <3>1
  <2>5. CASE u \in Published
    <3>0. u \in Turns /\ u # None /\ u # i
      BY <1>1, <2>5, PublishedEntries, TurnsAreNot DEF CInv
    <3>1. \A x \in References : Resolves(u, x)' /\ Answered(u, x)' \in S => x \in S
      BY DEF Answering, Resolved
    <3>2. ASSUME NEW k \in nodes, tree[k] = u
          PROVE  /\ Resolves(u, Prompt(message[k]))
                 /\ Answered(u, Prompt(message[k]))' = reply[k]
      <4>1. message[k] # m
        BY <1>1, <2>5, <3>2
      <4>2. NodeAt(u, message[k])' = {k}
        <5>1. \A l \in nodes : tree[l] = u /\ message[l] = message[k] => l = k
          BY <3>2 DEF CInv, GraphInv
        <5> QED
          BY <2>1, <2>2, <3>2, <4>1, <5>1 DEF NodeAt
      <4>3. (CHOOSE l \in NodeAt(u, message[k])' : TRUE) = k
        BY <4>2
      <4>4. Prompt(message[k]).kind # "status" /\ Prompt(message[k]).of = message[k]
        BY DEF Prompt
      <4>5. Answered(u, Prompt(message[k]))' = reply'[CHOOSE l \in NodeAt(u, message[k])' : TRUE]
        BY <2>2, <4>4 DEF Answered, Prompt, NodeAt
      <4> QED
        BY <2>2, <3>2, <4>3, <4>5, ResolvesPrompt
    <3>3. \A k : Answered(u, Status(k))' = Prompt(message[k])
      BY <2>2 DEF Answered, Status, Prompt
    <3>4. Answering(u, S)
      <4> SUFFICES ASSUME NEW x \in Resolved(u), Answered(u, x) \in S PROVE x \in S
        BY DEF Answering
      <4>1. x \in References /\ Resolves(u, x) /\ Resolves(u, x)'
        BY <1>19, <3>0 DEF Resolved
      <4>2. CASE x.kind = "status"
        <5>1. x = Status(x.of)
          BY <4>1, <4>2, ReferenceShape
        <5>2. Answered(u, x) = Prompt(message[x.of])
          BY <5>1, AnsweredStatus
        <5>3. Answered(u, x)' = Prompt(message[x.of])
          BY <4>2, <2>2 DEF Answered, Prompt
        <5> QED
          BY <3>1, <4>1, <5>2, <5>3
      <4>3. CASE x.kind = "prompt"
        <5>1. x = Prompt(x.of)
          BY <4>1, <4>3, ReferenceShape
        <5>2. PICK k \in nodes : tree[k] = u /\ message[k] = x.of
          BY <4>1, <5>1, ResolvesPrompt
        <5>3. x = Prompt(message[k])
          BY <5>1, <5>2
        <5>4. \A l \in nodes : tree[l] = u /\ message[l] = message[k] => l = k
          BY <5>2 DEF CInv, GraphInv
        <5>5. Answered(u, x) = reply[k]
          BY <5>2, <5>3, <5>4, AnsweredPrompt
        <5>6. Answered(u, x)' = reply[k]
          <6>1. Answered(u, Prompt(message[k]))' = reply[k]
            BY <3>2, <5>2
          <6> QED
            BY <2>2, <4>3, <5>2, <6>1 DEF Answered, Prompt, NodeAt
        <5> QED
          BY <3>1, <4>1, <5>5, <5>6
      <4> QED
        BY <4>1, <4>2, <4>3, ReferenceShape
    <3>5. \A k \in nodes : tree[k] = u => Prompt(message[k]) \in S
      <4>1. Prompt(message[u]) \in S
        BY <2>2
      <4> QED
        BY <2>5, <3>4, <4>1 DEF CInv, RootedInv, NodesOf
    <3>6. CASE j # i
      BY <2>1, <2>2, <2>3, <3>5, <3>6
    <3>7. CASE j = i
      <4>1. t = u /\ t # i
        BY <2>2, <2>3, <3>0, <3>7
      <4>2. reply[i] \in References /\ Resolves(u, reply[i])
        BY <1>2, <4>1
      <4>3. reply[i] \in S
        <5>1. CASE reply[i].kind = "prompt"
          <6>1. reply[i] = Prompt(reply[i].of)
            BY <4>2, <5>1, ReferenceShape
          <6>2. \E k \in nodes : tree[k] = u /\ message[k] = reply[i].of
            BY <4>2, <6>1, ResolvesPrompt
          <6> QED
            BY <3>5, <6>1, <6>2
        <5>2. CASE reply[i].kind = "status"
          <6> DEFINE k == reply[i].of
          <6>1. reply[i] = Status(k)
            BY <4>2, <5>2, ReferenceShape
          <6>2. k \in nodes /\ tree[k] = u
            BY <4>2, <6>1, ResolvesStatus
          <6>3. Prompt(message[k]) \in S
            BY <3>5, <6>2
          <6> QED
            BY <1>19, <3>0, <3>1, <3>3, <4>2, <6>1, <6>3
        <5> QED
          BY <4>2, <5>1, <5>2, ReferenceShape
      <4>4. ASSUME NEW n \in Turns, n = m PROVE Prompt(n) \in S
        <5>1. NodeAt(u, n)' = {i}
          BY <1>1, <2>1, <2>2, <4>1, <4>4 DEF NodeAt
        <5>2. (CHOOSE l \in NodeAt(u, n)' : TRUE) = i
          BY <5>1
        <5>3. Answered(u, Prompt(n))' = reply[i]
          BY <2>2, <5>2 DEF Answered, Prompt, NodeAt
        <5>4. Prompt(n) \in References /\ Resolves(u, Prompt(n))'
          BY <1>5, <1>19, <3>0, <4>1, <4>4
        <5> QED
          BY <3>1, <4>3, <5>3, <5>4
      <4> QED
        BY <1>5, <2>2, <3>7, <4>4
    <3> QED
      BY <3>6, <3>7
  <2> QED
    BY <1>8, <2>4, <2>5
<1> QED
  BY <1>12, <1>13, <1>15, <1>16, <1>17, <1>18, <1>20, <1>21, <1>22 DEF CInv
-----------------------------------------------------------------------------
(* The reference a command answers, when it commits.                       *)
LEMMA TargetResolves ==
  ASSUME CInv, NEW c \in Commands,
         \E op \in {"stop_reply", "clear_reply"} : Commits(c, op)
  PROVE  LET r == command[c].target
             t == index[r]
         IN /\ lock = c /\ r \in References /\ t \in Turns /\ t \in Published
            /\ Resolves(t, r)
<1>1. /\ command[c].stage = "committing"
      /\ command[c].op \in {"stop_reply", "clear_reply"}
  BY DEF Commits
<1>2. /\ lock = c /\ command[c].target \in References
      /\ index[command[c].target] # None
  BY <1>1 DEF CInv, CommandInv
<1>3. index[command[c].target] \in Turns
  BY <1>2 DEF CInv, TypeOK
<1> QED
  BY <1>2, <1>3 DEF CInv, IndexMatchesGraphs

(* Claims are cancelled: every task that was there is still there.         *)
LEMMA ClaimsCancelled ==
  ASSUME TypeOK, NEW c \in Commands, NEW S \in SUBSET Turns, CancelClaims(c, S)
  PROVE  /\ task' \in [Turns -> Stages]
         /\ \A j \in Turns : task'[j] = "none" <=> task[j] = "none"
         /\ tombstones' = tombstones \union S
         /\ draining' \in [Commands -> SUBSET Turns]
<1>1. task \in [Turns -> Stages] /\ draining \in [Commands -> SUBSET Turns]
  BY DEF TypeOK
<1>2. task' = [i \in Turns |-> IF i \in S THEN Struck(task[i]) ELSE task[i]]
  BY DEF CancelClaims
<1>3. \A j \in Turns : task[j] \in Stages
  BY <1>1
<1>4. \A j \in Turns :
        task'[j] \in Stages /\ (task'[j] = "none" <=> task[j] = "none")
  BY <1>2, <1>3, StruckStage
<1>5. task' \in [Turns -> Stages]
  BY <1>2, <1>4
<1>6. draining' = [draining EXCEPT ![c] = S \intersect Live] /\ S \intersect Live \subseteq Turns
  BY DEF CancelClaims, Live
<1>7. tombstones' = tombstones \union S
  BY DEF CancelClaims
<1> QED
  BY <1>1, <1>4, <1>5, <1>6, <1>7

(* Some nodes of a tree fail and leave its queue, and the graphs stay.     *)
LEMMA FailSome ==
  ASSUME CInv, CommandInv', NEW t \in Turns, NEW S, S \subseteq NodesOf(t), NEW ms,
         \A j \in NodesOf(t) : message[j] \in ms <=> j \in S,
         queue' = [queue EXCEPT ![t] = Remaining(@, ms)], FailRunnable(S),
         UNCHANGED <<intake, graph, sessions, active>>,
         CommandsTyped',
         task' \in [Turns -> Stages],
         \A j \in Turns : task'[j] = "none" <=> task[j] = "none",
         tombstones \subseteq tombstones', tombstones' \subseteq Turns,
         draining' \in [Commands -> SUBSET Turns]
  PROVE  CInv'
<1> USE DEF intake, graph
<1>1. state' = [i \in Turns |->
         IF i \in S /\ state[i] \in Runnable THEN "error" ELSE state[i]]
  BY DEF FailRunnable
<1>2. \A j \in S : j \in nodes /\ tree[j] = t /\ message[j] \in ms
  BY DEF NodesOf
<1>3. QueueInv' /\ queue' \in [Turns -> Seq(Turns)]
  <2>1. ASSUME NEW j \in Turns, state'[j] = "pending"
        PROVE  state[j] = "pending" /\ (tree[j] = t => message[j] \notin ms)
    <3>1. state[j] = "pending" /\ j \notin S
      BY <1>1, <2>1 DEF Runnable
    <3>2. j \in nodes
      BY <3>1 DEF CInv, OwnerInv, Runnable
    <3> QED
      BY <3>1, <3>2 DEF NodesOf
  <2>2. \A j \in Turns : state[j] = "pending" /\ state'[j] # "pending" =>
            tree[j] = t /\ message[j] \in ms
    BY <1>1, <1>2
  <2>3. \A j \in nodes \ nodes' : state'[j] # "pending"
    OBVIOUS
  <2>4. TypeOK /\ OwnerInv /\ QueueInv
    BY DEF CInv
  <2> QED
    BY <2>1, <2>2, <2>3, <2>4, QueueShrinks
<1>4. state \in [Turns -> States] /\ state' \in [Turns -> States] /\ nodes \subseteq Turns
  BY <1>1 DEF CInv, TypeOK, States
<1>5. TypeOK'
  BY <1>3, <1>4 DEF CInv, TypeOK, CommandsTyped
<1>6. Published' = Published
  BY DEF Published
<1>7. GraphParts'
  BY GraphKept DEF CInv, GraphParts
<1>8. NamesInv'
  <2>1. \A j \in Turns : state'[j] \in Outside <=> state[j] \in Outside
    BY <1>1 DEF Outside, Runnable
  <2>2. \A j \in Turns : tree[j] # None => tree[j] \in Turns
    BY DEF CInv, TypeOK
  <2> QED
    BY <2>1, <2>2 DEF CInv, NamesInv
<1>9. OwnerInv'
  <2>1. \A j \in Turns : state'[j] \in Runnable => state[j] \in Runnable
    BY <1>1 DEF Runnable
  <2>2. \A j \in Turns : state'[j] = "pending" => state[j] = "pending"
    BY <1>1
  <2>3. \A u \in Turns : active[u] # None => active[u] \in Turns
    BY DEF CInv, TypeOK
  <2> QED
    BY <1>6, <2>1, <2>2, <2>3 DEF CInv, OwnerInv
<1>10. ClearedInv'
  <2>1. \A j \in nodes : state[j] = "error" => state'[j] = "error"
    BY <1>1, <1>4
  <2> QED
    BY <1>6, <2>1 DEF CInv, ClearedInv
<1> QED
  BY <1>3, <1>5, <1>7, <1>8, <1>9, <1>10 DEF CInv, GraphParts

(* A node is stopped.                                                      *)
LEMMA StopReplyStep == ASSUME CInv, NEW c \in Commands, StopReply(c) PROVE CInv'
<1> DEFINE r == command[c].target
           t == index[r]
           m == MessageOf(r)
           C == ClaimOn(t, {m})
<1>1. lock = c /\ t \in Turns
  BY TargetResolves DEF StopReply
<1>2. /\ queue' = [queue EXCEPT ![t] = Remaining(@, {m})]
      /\ FailRunnable(NodeAt(t, m))
      /\ UNCHANGED <<intake, graph, sessions, active>>
  BY DEF StopReply
<1>3. /\ CommandInv'
      /\ CommandsTyped'
  BY <1>1, CommandMoves DEF StopReply, Raise, CInv
<1>4. \/ tombstones' = tombstones \union C /\ UNCHANGED <<task, draining>>
      \/ CancelClaims(c, C)
  BY DEF StopReply, Raise
<1>5. C \in SUBSET Turns
  BY DEF ClaimOn
<1> HIDE DEF r, t, m, C
<1>6. task \in [Turns -> Stages] /\ tombstones \subseteq Turns
      /\ draining \in [Commands -> SUBSET Turns]
  BY DEF CInv, TypeOK
<1>7. /\ task' \in [Turns -> Stages]
      /\ \A j \in Turns : task'[j] = "none" <=> task[j] = "none"
      /\ tombstones \subseteq tombstones' /\ tombstones' \subseteq Turns
      /\ draining' \in [Commands -> SUBSET Turns]
  <2>1. CASE tombstones' = tombstones \union C /\ UNCHANGED <<task, draining>>
    BY <1>5, <1>6, <2>1
  <2>2. CASE CancelClaims(c, C)
    BY <1>5, <1>6, <2>2, ClaimsCancelled DEF CInv
  <2> QED
    BY <1>4, <2>1, <2>2
<1>8. /\ NodeAt(t, m) \subseteq NodesOf(t)
      /\ \A j \in NodesOf(t) : message[j] \in {m} <=> j \in NodeAt(t, m)
  BY DEF NodeAt, NodesOf
<1> QED
  BY <1>1, <1>2, <1>3, <1>7, <1>8, FailSome

-----------------------------------------------------------------------------
(* A claim is released.                                                    *)

(* The queue of a tree holds its pending nodes only, so all of it can run. *)
LEMMA WholeQueueReady ==
  ASSUME CInv, NEW t \in Turns
  PROVE  Ready(t) = 1 .. Len(queue[t])
<1>1. queue[t] \in Seq(Turns)
  BY DEF CInv, TypeOK
<1>2. \A p \in 1 .. Len(queue[t]) :
        \E j \in NodeAt(t, queue[t][p]) : state[j] = "pending"
  BY DEF CInv, QueueInv, NodeAt
<1> QED
  BY <1>1, <1>2 DEF Ready

(* A claim is released, and the head of the queue is claimed.              *)
LEMMA FinishStep == ASSUME CInv, NEW i \in Turns, Finish(i) PROVE CInv'
<1> DEFINE t == tree[i]
<1> USE DEF intake, graph, workflow
<1>1. UNCHANGED <<intake, graph, sessions, tombstones, workflow>>
  BY DEF Finish
<1>2. task[i] # "none" /\ t \in Turns /\ active[t] = i /\ state[i] # "pending"
  BY DEF Finish, HasEnded, CInv, OwnerInv, TypeOK
<1>3. /\ task \in [Turns -> Stages] /\ active \in [Turns -> Turns \union {None}]
      /\ queue \in [Turns -> Seq(Turns)] /\ state \in [Turns -> States]
      /\ nodes \subseteq Turns
  BY DEF CInv, TypeOK
<1>4. Published' = Published
  BY <1>1 DEF Published
<1>5. GraphParts'
  BY <1>1, GraphKept DEF CInv, GraphParts
<1>6. CommandInv'
  BY <1>1 DEF CInv, CommandInv
<1>7. \A u \in Turns : active[u] = i => u = t
  BY TurnsAreNot DEF CInv, OwnerInv
<1>8. CASE Ready(t) = {}
  <2>1. /\ active' = [active EXCEPT ![t] = None]
        /\ queue' = [queue EXCEPT ![t] = << >>]
        /\ task' = [task EXCEPT ![i] = "none"]
        /\ state' = state
    BY <1>2, <1>8 DEF Finish, FinishAndClaimNext
  <2>2. TypeOK'
    <3>1. active' \in [Turns -> Turns \union {None}]
      BY <1>3, <2>1
    <3>2. queue' \in [Turns -> Seq(Turns)]
      <4>1. << >> \in Seq(Turns)
        OBVIOUS
      <4> HIDE DEF t
      <4> QED
        BY <1>3, <2>1, <4>1
    <3>3. task' \in [Turns -> Stages]
      BY <1>3, <2>1 DEF Stages
    <3> QED
      BY <1>1, <2>1, <3>1, <3>2, <3>3 DEF CInv, TypeOK
  <2>3. NamesInv'
    BY <1>1, <2>1 DEF CInv, NamesInv
  <2>4. OwnerInv'
    <3>1. /\ \A j \in Turns : task'[j] = IF j = i THEN "none" ELSE task[j]
          /\ \A u \in Turns : active'[u] = IF u = t THEN None ELSE active[u]
      BY <1>2, <1>3, <2>1
    <3>2. ASSUME NEW j \in Turns, task'[j] # "none"
          PROVE  tree'[j] # None /\ active'[tree'[j]] = j
      <4>1. j # i /\ tree[j] # None /\ active[tree[j]] = j
        BY <3>1, <3>2 DEF CInv, OwnerInv
      <4>2. tree[j] # t /\ tree[j] \in Turns
        BY <1>2, <4>1 DEF CInv, TypeOK
      <4> QED
        BY <1>1, <3>1, <4>1, <4>2
    <3>3. ASSUME NEW u \in Turns, active'[u] # None
          PROVE  task'[active'[u]] # "none" /\ tree'[active'[u]] = u
      BY <1>1, <1>3, <1>7, <3>1, <3>3 DEF CInv, OwnerInv
    <3>4. \A j \in Turns : state'[j] = "pending" => task'[j] = "none"
      BY <2>1, <3>1 DEF CInv, OwnerInv
    <3>5. \A j \in Turns : state'[j] \in Runnable => j \in nodes' /\ tree'[j] \in Published'
      BY <1>1, <1>4, <2>1 DEF CInv, OwnerInv
    <3> QED
      BY <3>2, <3>3, <3>4, <3>5 DEF OwnerInv
  <2>5. ClearedInv'
    <3>1. \A u \in Turns : active'[u] = IF u = t THEN None ELSE active[u]
      BY <1>2, <1>3, <2>1
    <3>2. Published \subseteq Turns
      BY PublishedEntries DEF CInv
    <3>3. \A j \in nodes : tree[j] \in Turns /\ j # None
      BY <1>3, TurnsAreNot DEF CInv, NamesInv, TypeOK
    <3>4. \A u \in Published' : active'[u] # None /\ active'[u] \notin nodes' =>
            active'[u] \in tombstones'
      BY <1>1, <1>4, <3>1, <3>2 DEF CInv, ClearedInv
    <3>5. \A j \in nodes' \ statuses' :
            /\ state'[j] = "error" /\ j \notin sessions'
            /\ active'[tree'[j]] = j => j \in tombstones'
      BY <1>1, <2>1, <3>1, <3>3 DEF CInv, ClearedInv
    <3> QED
      BY <3>4, <3>5 DEF ClearedInv
  <2>6. QueueInv'
    <3>1. Len(queue[t]) = 0
      <4>1. 1 .. Len(queue[t]) = {}
        BY <1>2, <1>8, WholeQueueReady
      <4> HIDE DEF t
      <4>2. queue[t] \in Seq(Turns)
        BY <1>2, <1>3
      <4>3. Len(queue[t]) \in Nat
        BY <4>2
      <4>4. 1 \notin 1 .. Len(queue[t])
        BY <4>1
      <4> QED
        BY <4>3, <4>4
    <3>2. \A u \in Turns : queue'[u] = IF u = t THEN << >> ELSE queue[u]
      BY <1>3, <2>1
    <3>3. \A u \in Turns : active'[u] = IF u = t THEN None ELSE active[u]
      BY <1>2, <1>3, <2>1
    <3>4. ASSUME NEW j \in Turns, state'[j] = "pending"
          PROVE  /\ \E p \in 1 .. Len(queue'[tree'[j]]) : queue'[tree'[j]][p] = message'[j]
                 /\ active'[tree'[j]] # None
      <4>1. state[j] = "pending" /\ tree[j] \in Turns
        BY <2>1, <3>4, PublishedEntries DEF CInv, OwnerInv, Runnable
      <4>2. PICK p \in 1 .. Len(queue[tree[j]]) : queue[tree[j]][p] = message[j]
        BY <4>1 DEF CInv, QueueInv
      <4>3. tree[j] # t
        BY <3>1, <4>2
      <4> QED
        BY <1>1, <3>2, <3>3, <4>1, <4>2, <4>3 DEF CInv, QueueInv
    <3>5. ASSUME NEW u \in Turns, NEW p \in 1 .. Len(queue'[u]), NEW s \in 1 .. Len(queue'[u]),
                 queue'[u][p] = queue'[u][s]
          PROVE  p = s
      <4>1. u # t
        BY <3>2
      <4> QED
        BY <3>2, <3>5, <4>1 DEF CInv, QueueInv
    <3>6. ASSUME NEW u \in Turns, NEW p \in 1 .. Len(queue'[u])
          PROVE  \E j \in nodes' : /\ tree'[j] = u /\ message'[j] = queue'[u][p]
                                   /\ state'[j] = "pending"
      <4>1. u # t
        BY <3>2
      <4> QED
        BY <1>1, <2>1, <3>2, <4>1 DEF CInv, QueueInv
    <3> QED
      BY <3>4, <3>5, <3>6 DEF QueueInv
  <2> QED
    BY <1>5, <1>6, <2>2, <2>3, <2>4, <2>5, <2>6 DEF CInv, GraphParts
<1>9. CASE Ready(t) # {}
  <2> DEFINE q == queue[t]
             next == CHOOSE j \in NodeAt(t, q[1]) : state[j] = "pending"
  <2>1. q \in Seq(Turns) /\ Len(q) \in Nat /\ 1 \in 1 .. Len(q)
    <3>1. 1 .. Len(q) # {}
      BY <1>2, <1>9, WholeQueueReady
    <3> HIDE DEF t
    <3>2. q \in Seq(Turns)
      BY <1>2, <1>3
    <3>3. Len(q) \in Nat
      BY <3>2
    <3> QED
      BY <3>1, <3>2, <3>3
  <2>2. First(Ready(t)) = 1
    <3>1. Ready(t) = 1 .. Len(q)
      BY <1>2, WholeQueueReady
    <3>2. Ready(t) \in SUBSET Nat
      BY <3>1
    <3>3. First(Ready(t)) \in 1 .. Len(q) /\ First(Ready(t)) <= 1
      BY <3>1, <3>2, <2>1, <1>9, FirstIsLeast
    <3> QED
      BY <3>3, <2>1
  <2>3. /\ next \in nodes /\ tree[next] = t /\ message[next] = q[1]
        /\ state[next] = "pending"
    <3>1. \E j \in NodeAt(t, q[1]) : state[j] = "pending"
      BY <1>2, <2>1 DEF CInv, QueueInv, NodeAt
    <3>2. next \in NodeAt(t, q[1]) /\ state[next] = "pending"
      BY <3>1
    <3> QED
      BY <3>2 DEF NodeAt
  <2>4. /\ active' = [active EXCEPT ![t] = next]
        /\ queue' = [queue EXCEPT ![t] = SubSeq(@, 1 + 1, Len(@))]
        /\ state' = [state EXCEPT ![next] = "in_progress"]
        /\ task' = [task EXCEPT ![i] = "none",
                  ![next] = IF IsPublished(t) THEN "chosen" ELSE "none"]
    BY <1>2, <1>9, <2>2 DEF Finish, FinishAndClaimNext
  <2> HIDE DEF next
  <2>5. next \in Turns /\ next # i /\ t \in Published /\ task[next] = "none"
    BY <1>2, <1>3, <2>3 DEF CInv, OwnerInv, Runnable
  <2>6. /\ \A j \in Turns : task'[j] = IF j = i THEN "none" ELSE
                                     IF j = next THEN "chosen" ELSE task[j]
        /\ task' \in [Turns -> Stages]
    BY <1>3, <2>4, <2>5 DEF Stages, IsPublished
  <2>7. /\ \A u \in Turns : active'[u] = IF u = t THEN next ELSE active[u]
        /\ active' \in [Turns -> Turns \union {None}]
    BY <1>2, <1>3, <2>4, <2>5
  <2>8. /\ \A j \in Turns : state'[j] = IF j = next THEN "in_progress" ELSE state[j]
        /\ state' \in [Turns -> States]
    BY <1>3, <2>4, <2>5 DEF States
  <2> DEFINE s == SubSeq(q, 2, Len(q))
  <2>9. s \in Seq(Turns) /\ Len(s) = Len(q) - 1 /\ \A k \in 1 .. Len(s) : s[k] = q[k + 1]
    <3>1. \A k \in 2 .. Len(q) : q[k] \in Turns
      BY <2>1
    <3>2. /\ SubSeq(q, 2, Len(q)) \in Seq(Turns)
          /\ Len(SubSeq(q, 2, Len(q))) = IF 2 <= Len(q) THEN Len(q) - 2 + 1 ELSE 0
          /\ \A k \in 1 .. Len(q) - 2 + 1 : SubSeq(q, 2, Len(q))[k] = q[2 + k - 1]
      BY <2>1, <3>1, SubSeqProperties
    <3> QED
      BY <2>1, <3>2
  <2> HIDE DEF s
  <2>10. /\ \A u \in Turns : queue'[u] = IF u = t THEN s ELSE queue[u]
         /\ queue' \in [Turns -> Seq(Turns)]
    <3>1. queue' = [queue EXCEPT ![t] = s]
      BY <2>4 DEF s
    <3> QED
      BY <1>2, <1>3, <2>9, <3>1
  <2>11. TypeOK'
    BY <1>1, <2>6, <2>7, <2>8, <2>10 DEF CInv, TypeOK
  <2>12. NamesInv'
    <3>1. \A j \in Turns : state'[j] \in Outside <=> state[j] \in Outside
      BY <2>3, <2>8 DEF Outside
    <3>2. \A j \in Turns : tree[j] # None => tree[j] \in Turns
      BY DEF CInv, TypeOK
    <3> QED
      BY <1>1, <3>1, <3>2 DEF CInv, NamesInv
  <2>13. OwnerInv'
    <3>1. ASSUME NEW j \in Turns, task'[j] # "none"
          PROVE  tree'[j] # None /\ active'[tree'[j]] = j
      <4>1. CASE j = next
        BY <1>1, <1>2, <2>3, <2>7, <4>1, TurnsAreNot
      <4>2. CASE j # next
        <5>1. j # i /\ tree[j] # None /\ active[tree[j]] = j
          BY <2>6, <3>1, <4>2 DEF CInv, OwnerInv
        <5>2. tree[j] # t /\ tree[j] \in Turns
          BY <1>2, <5>1 DEF CInv, TypeOK
        <5> QED
          BY <1>1, <2>7, <5>1, <5>2
      <4> QED
        BY <4>1, <4>2
    <3>2. ASSUME NEW u \in Turns, active'[u] # None
          PROVE  task'[active'[u]] # "none" /\ tree'[active'[u]] = u
      <4>1. CASE u = t
        BY <1>1, <2>3, <2>5, <2>6, <2>7, <4>1
      <4>2. CASE u # t
        <5>1. active'[u] = active[u] /\ active[u] # None
          BY <2>7, <3>2, <4>2
        <5>2. active[u] \in Turns /\ active[u] # i
          BY <1>3, <1>7, <4>2, <5>1
        <5>3. task[active[u]] # "none" /\ tree[active[u]] = u
          BY <5>1 DEF CInv, OwnerInv
        <5>4. active[u] # next
          BY <2>5, <5>3
        <5> QED
          BY <1>1, <2>6, <5>1, <5>2, <5>3, <5>4
      <4> QED
        BY <4>1, <4>2
    <3>3. \A j \in Turns : state'[j] = "pending" => task'[j] = "none"
      BY <2>6, <2>8 DEF CInv, OwnerInv
    <3>4. \A j \in Turns : state'[j] \in Runnable => j \in nodes' /\ tree'[j] \in Published'
      BY <1>1, <1>4, <2>3, <2>5, <2>8 DEF CInv, OwnerInv
    <3> QED
      BY <3>1, <3>2, <3>3, <3>4 DEF OwnerInv
  <2>14. ClearedInv'
    <3>1. Published \subseteq Turns
      BY PublishedEntries DEF CInv
    <3>2. \A j \in nodes : tree[j] \in Turns
      BY <1>3 DEF CInv, NamesInv, TypeOK
    <3>3. \A u \in Published' : active'[u] # None /\ active'[u] \notin nodes' =>
            active'[u] \in tombstones'
      BY <1>1, <1>4, <2>3, <2>7, <3>1 DEF CInv, ClearedInv
    <3>4. next \in statuses
      BY <2>3 DEF CInv, ClearedInv
    <3>5. \A j \in nodes' \ statuses' :
            /\ state'[j] = "error" /\ j \notin sessions'
            /\ active'[tree'[j]] = j => j \in tombstones'
      BY <1>1, <1>3, <2>7, <2>8, <3>2, <3>4 DEF CInv, ClearedInv
    <3> QED
      BY <3>3, <3>5 DEF ClearedInv
  <2>15. QueueInv'
    <3>1. ASSUME NEW j \in Turns, state'[j] = "pending"
          PROVE  /\ \E p \in 1 .. Len(queue'[tree'[j]]) : queue'[tree'[j]][p] = message'[j]
                 /\ active'[tree'[j]] # None
      <4>1. j # next /\ state[j] = "pending" /\ tree[j] \in Turns /\ j \in nodes
        BY <2>8, <3>1, PublishedEntries DEF CInv, OwnerInv, Runnable
      <4>2. /\ \E p \in 1 .. Len(queue[tree[j]]) : queue[tree[j]][p] = message[j]
            /\ active[tree[j]] # None
        BY <4>1 DEF CInv, QueueInv
      <4>3. PICK p \in 1 .. Len(queue[tree[j]]) : queue[tree[j]][p] = message[j]
        BY <4>2
      <4>4. CASE tree[j] # t
        BY <1>1, <2>7, <2>10, <4>1, <4>2, <4>4
      <4>5. CASE tree[j] = t
        <5>1. p # 1
          BY <2>3, <4>1, <4>3, <4>5 DEF CInv, GraphInv
        <5>2. p - 1 \in 1 .. Len(s) /\ s[p - 1] = message[j]
          BY <2>1, <2>9, <4>3, <4>5, <5>1
        <5>3. active'[t] # None
          BY <1>2, <2>5, <2>7, TurnsAreNot
        <5> QED
          BY <1>1, <1>2, <2>10, <4>5, <5>2, <5>3
      <4> QED
        BY <4>4, <4>5
    <3>2. \A k, l \in 1 .. Len(q) : q[k] = q[l] => k = l
      BY <1>2 DEF CInv, QueueInv
    <3>3. ASSUME NEW u \in Turns, NEW p \in 1 .. Len(queue'[u]), NEW k \in 1 .. Len(queue'[u]),
                 queue'[u][p] = queue'[u][k]
          PROVE  p = k
      <4>1. CASE u # t
        <5>1. queue'[u] = queue[u]
          BY <2>10, <4>1
        <5>2. p \in 1 .. Len(queue[u]) /\ k \in 1 .. Len(queue[u]) /\ queue[u][p] = queue[u][k]
          BY <3>3, <5>1
        <5> QED
          BY <5>2 DEF CInv, QueueInv
      <4>2. CASE u = t
        <5>1. queue'[u] = s
          BY <2>10, <4>2
        <5>2. p \in 1 .. Len(s) /\ k \in 1 .. Len(s) /\ s[p] = s[k]
          BY <3>3, <5>1
        <5> HIDE DEF q
        <5>3. p + 1 \in 1 .. Len(q) /\ k + 1 \in 1 .. Len(q) /\ q[p + 1] = q[k + 1]
          BY <2>1, <2>9, <5>2
        <5>4. p \in Int /\ k \in Int /\ p + 1 = k + 1
          BY <3>2, <5>2, <5>3
        <5> QED
          BY <5>4
      <4> QED
        BY <4>1, <4>2
    <3>4. ASSUME NEW u \in Turns, NEW p \in 1 .. Len(queue'[u])
          PROVE  \E j \in nodes' : /\ tree'[j] = u /\ message'[j] = queue'[u][p]
                                   /\ state'[j] = "pending"
      <4>1. CASE u # t
        <5>1. queue'[u] = queue[u]
          BY <2>10, <4>1
        <5>2. p \in 1 .. Len(queue[u])
          BY <5>1
        <5>3. PICK j \in nodes : tree[j] = u /\ message[j] = queue[u][p] /\ state[j] = "pending"
          BY <5>2 DEF CInv, QueueInv
        <5>4. j # next /\ j \in Turns
          BY <1>3, <2>3, <4>1, <5>3
        <5>5. state'[j] = "pending"
          BY <2>8, <5>3, <5>4
        <5> QED
          BY <1>1, <5>1, <5>3, <5>5
      <4>2. CASE u = t
        <5>1. p + 1 \in 1 .. Len(q) /\ p + 1 # 1 /\ q[p + 1] = queue'[u][p]
          <6>1. queue'[u] = s
            BY <2>10, <4>2
          <6>2. p \in 1 .. Len(s)
            BY <6>1
          <6> HIDE DEF q
          <6>3. p + 1 \in 1 .. Len(q) /\ p + 1 # 1 /\ q[p + 1] = s[p]
            BY <2>1, <2>9, <6>2
          <6> QED
            BY <6>1, <6>3
        <5>2. PICK j \in nodes : tree[j] = t /\ message[j] = q[p + 1] /\ state[j] = "pending"
          BY <1>2, <5>1 DEF CInv, QueueInv
        <5>3. j # next
          BY <2>1, <2>3, <3>2, <5>1, <5>2
        <5> QED
          BY <1>1, <1>3, <2>8, <4>2, <5>1, <5>2, <5>3
      <4> QED
        BY <4>1, <4>2
    <3> QED
      BY <3>1, <3>3, <3>4 DEF QueueInv
  <2> QED
    BY <1>5, <1>6, <2>11, <2>12, <2>13, <2>14, <2>15 DEF CInv, GraphParts
<1> QED
  BY <1>8, <1>9
-----------------------------------------------------------------------------
(* A message and its reply subtree are cleared.                            *)

(* The literal subtree holds the reference it hangs on and whatever hangs  *)
(* on a member.                                                            *)
LEMMA SubtreeCloses ==
  ASSUME NEW t, NEW r, r \in Resolved(t)
  PROVE  /\ Subtree(t, r) \subseteq Resolved(t) /\ r \in Subtree(t, r)
         /\ \A x \in Resolved(t) : Answered(t, x) \in Subtree(t, r) => x \in Subtree(t, r)
<1> DEFINE all == Resolved(t)
           closed == {S \in SUBSET all : r \in S /\ \A x \in all \ S : Answered(t, x) \notin S}
           cut == all \ UNION {all \ S : S \in closed}
<1>1. Subtree(t, r) = cut
  BY DEF Subtree
<1>2. cut \subseteq all /\ r \in cut
  OBVIOUS
<1>3. ASSUME NEW x \in all, Answered(t, x) \in cut PROVE x \in cut
  <2> SUFFICES ASSUME NEW S \in closed, x \notin S PROVE FALSE
    OBVIOUS
  <2>1. Answered(t, x) \notin S /\ Answered(t, x) \in all
    BY <1>3
  <2> QED
    BY <1>3, <2>1
<1> QED
  BY <1>1, <1>2, <1>3

(* Every other member hangs on a member.                                   *)
LEMMA SubtreeHangs ==
  ASSUME NEW t, NEW r, r \in Resolved(t), NEW x \in Subtree(t, r), x # r
  PROVE  Answered(t, x) \in Subtree(t, r)
<1> DEFINE all == Resolved(t)
           cut == Subtree(t, r)
           S == cut \ {x}
           closed == {U \in SUBSET all : r \in U /\ \A y \in all \ U : Answered(t, y) \notin U}
<1>1. /\ cut \subseteq all /\ r \in cut
      /\ \A y \in all : Answered(t, y) \in cut => y \in cut
  BY SubtreeCloses
<1>2. cut = all \ UNION {all \ U : U \in closed}
  BY DEF Subtree
<1> HIDE DEF cut
<1> SUFFICES ASSUME Answered(t, x) \notin cut PROVE FALSE
  BY DEF cut
<1>3. \A y \in all \ S : Answered(t, y) \notin S
  BY <1>1
<1>4. S \in closed
  BY <1>1, <1>3
<1>5. x \in cut /\ x \in all \ S
  BY <1>1 DEF cut
<1> HIDE DEF closed, all, S
<1> QED
  BY <1>2, <1>4, <1>5

(* What a /clear of reference r takes out of tree t.                       *)
Cut(c) == Subtree(index[command[c].target], command[c].target)

Gone(c) == {i \in NodesOf(index[command[c].target]) : Prompt(message[i]) \in Cut(c)}

(* The cut is a part of the published tree that is closed downwards: the   *)
(* nodes that go take their statuses along, and if the root goes all do.   *)
LEMMA CutFacts ==
  ASSUME CInv, NEW c \in Commands, ClearReply(c)
  PROVE  LET r == command[c].target
             t == index[r]
             cut == Cut(c)
             gone == Gone(c)
             off == Invalidated(r)
         IN /\ lock = c /\ t \in Turns /\ t \in Published
            /\ cut \subseteq Resolved(t)
            /\ Answering(t, cut)
            /\ gone \subseteq NodesOf(t) /\ off \subseteq NodesOf(t)
            /\ \A i \in NodesOf(t) : i \in gone <=> Prompt(message[i]) \in cut
            /\ \A i \in NodesOf(t) \intersect statuses :
                 i \in gone \union off <=> Status(i) \in cut
            /\ t \in gone => gone = NodesOf(t)
<1> DEFINE r == command[c].target
           t == index[r]
           cut == Cut(c)
           gone == Gone(c)
           off == Invalidated(r)
<1>1. lock = c /\ r \in References /\ t \in Turns /\ t \in Published /\ Resolves(t, r)
  BY TargetResolves DEF ClearReply
<1>2. r \in Resolved(t)
  BY <1>1 DEF Resolved
<1>3. /\ cut \subseteq Resolved(t) /\ r \in cut
      /\ \A x \in Resolved(t) : Answered(t, x) \in cut => x \in cut
  BY <1>2, SubtreeCloses DEF Cut
<1>4. \A x \in cut : x # r => Answered(t, x) \in cut
  BY <1>2, SubtreeHangs DEF Cut
<1>5. gone \subseteq NodesOf(t) /\ \A i \in NodesOf(t) : i \in gone <=> Prompt(message[i]) \in cut
  BY DEF Gone
<1> HIDE DEF cut, gone, t
<1>6. \A i : i \in off => r = Status(i) /\ i \in NodesOf(t)
  BY <1>1, ReferenceShape, ResolvesStatus DEF Invalidated, NodesOf
<1>7. \A i : r = Status(i) => i \in off
  BY ReferenceShape DEF Invalidated
<1>8. ASSUME NEW i \in NodesOf(t), i \in statuses
      PROVE  i \in gone \union off <=> Status(i) \in cut
  <2>1. Status(i) \in Resolved(t)
    <3>1. i \in Turns /\ i \in nodes /\ tree[i] = t
      BY <1>8 DEF NodesOf, CInv, TypeOK
    <3> QED
      BY <1>8, <3>1, ResolvesStatus, ReferenceShape DEF Resolved
  <2>2. Answered(t, Status(i)) = Prompt(message[i])
    BY AnsweredStatus
  <2>3. i \in gone => Status(i) \in cut
    BY <1>3, <1>5, <2>1, <2>2
  <2>4. i \in off => Status(i) \in cut
    BY <1>3, <1>6
  <2>5. Status(i) \in cut /\ i \notin off => i \in gone
    BY <1>4, <1>5, <1>7, <1>8, <2>2
  <2> QED
    BY <2>3, <2>4, <2>5
<1>9. Answering(t, cut)
  BY <1>3 DEF Answering
<1>10. t \in gone => gone = NodesOf(t)
  <2>1. cut \in SUBSET References
    BY <1>3 DEF Resolved
  <2> SUFFICES ASSUME t \in gone PROVE gone = NodesOf(t)
    OBVIOUS
  <2>2. Prompt(message[t]) \in cut
    BY <1>5
  <2>3. \A i \in NodesOf(t) : Prompt(message[i]) \in cut
    BY <1>1, <1>9, <2>1, <2>2 DEF CInv, RootedInv
  <2> QED
    BY <1>5, <2>3
<1> QED
  BY <1>1, <1>3, <1>5, <1>6, <1>8, <1>9, <1>10 DEF t, cut, gone

(* The clear fails in the middle: the graphs stay.                         *)
LEMMA ClearReplyRaises ==
  ASSUME CInv, NEW c \in Commands, ClearReply(c),
         LacksTarget(index[command[c].target],
                     {message[i] : i \in Affected(command[c].target, Gone(c))})
  PROVE  CInv'
<1> DEFINE r == command[c].target
           t == index[r]
           affected == Affected(r, Gone(c))
           ms == {message[i] : i \in affected}
           C == ClaimOn(t, ms)
<1>1. /\ lock = c /\ t \in Turns /\ t \in Published
      /\ Gone(c) \subseteq NodesOf(t) /\ Invalidated(r) \subseteq NodesOf(t)
  BY CutFacts
<1>2. PICK S \in SUBSET affected :
        /\ tombstones' = tombstones \union C
        /\ queue' = [queue EXCEPT ![t] = Remaining(@, {message[i] : i \in S})]
        /\ FailRunnable(S)
        /\ Raise(c)
        /\ UNCHANGED <<nodes, statuses, sessions, index, published, task>>
  BY DEF ClearReply, Gone, Cut
<1>3. UNCHANGED <<intake, tree, active>>
  BY DEF ClearReply
<1>4. affected \subseteq NodesOf(t)
  BY <1>1 DEF Affected
<1>5. C \subseteq Turns
  BY DEF ClaimOn
<1> HIDE DEF r, t, affected, ms, C
<1>6. /\ CommandInv'
      /\ CommandsTyped'
  BY <1>1, <1>2, CommandMoves DEF Raise, CInv
<1>7. \A j \in NodesOf(t) : message[j] \in {message[i] : i \in S} <=> j \in S
  BY <1>2, <1>4 DEF CInv, GraphInv, NodesOf
<1>8. /\ task' = task /\ task \in [Turns -> Stages] /\ tombstones \subseteq Turns
      /\ draining' = draining /\ draining \in [Commands -> SUBSET Turns]
  BY <1>2 DEF Raise, CInv, TypeOK
<1>9. UNCHANGED <<intake, graph, sessions, active>>
  BY <1>2, <1>3 DEF graph
<1>10. S \subseteq NodesOf(t)
  BY <1>4
<1> QED
  BY <1>1, <1>2, <1>5, <1>6, <1>7, <1>8, <1>9, <1>10, FailSome

(* The clear goes through.                                                 *)
LEMMA ClearReplyCuts ==
  ASSUME CInv, NEW c \in Commands, ClearReply(c),
         ~LacksTarget(index[command[c].target],
                      {message[i] : i \in Affected(command[c].target, Gone(c))})
  PROVE  CInv'
<1> DEFINE r == command[c].target
           t == index[r]
           cut == Cut(c)
           gone == Gone(c)
           off == Invalidated(r)
           affected == Affected(r, gone)
           ms == {message[i] : i \in affected}
           C == ClaimOn(t, ms)
<1>1. /\ lock = c /\ t \in Turns /\ t \in Published
      /\ cut \subseteq Resolved(t)
      /\ gone \subseteq NodesOf(t) /\ off \subseteq NodesOf(t)
      /\ \A i \in NodesOf(t) : i \in gone <=> Prompt(message[i]) \in cut
      /\ t \in gone => gone = NodesOf(t)
  BY CutFacts
<1>2. \A i \in NodesOf(t) \intersect statuses : i \in gone \union off <=> Status(i) \in cut
  BY CutFacts
<1>3. Answering(t, cut)
  BY CutFacts
<1>4. /\ CancelClaims(c, C)
      /\ queue' = [queue EXCEPT ![t] = Remaining(@, ms)]
      /\ state' = [i \in Turns |->
            IF i \in off \/ (i \in gone /\ state[i] \in Runnable) THEN "error" ELSE state[i]]
      /\ nodes' = nodes \ gone
      /\ statuses' = statuses \ affected /\ sessions' = sessions \ affected
      /\ IF t \in gone
         THEN published' = Remaining(published, {t}) /\ index' = WithoutTrees({t})
         ELSE index' = WithoutReferences(t, cut) /\ UNCHANGED published
      /\ Drains(c)
  BY DEF ClearReply, Gone, Cut
<1>5. UNCHANGED <<message, reply, token, generation, tree, active>>
  BY DEF ClearReply, intake
<1>6. C = {i \in Turns : active[t] = i /\ message[i] \in ms}
  BY DEF ClaimOn
<1>7. affected = gone \union off
  BY DEF Affected
<1>8. \A i \in affected : message[i] \in ms
  OBVIOUS
<1>9. \A m \in ms : \E i \in affected : m = message[i]
  OBVIOUS
<1> HIDE DEF r, t, cut, gone, off, affected, ms, C
<1>10. /\ state \in [Turns -> States] /\ nodes \subseteq Turns
       /\ statuses \subseteq nodes /\ sessions \subseteq nodes
       /\ tombstones \subseteq Turns /\ published \in Seq(Turns)
       /\ active \in [Turns -> Turns \union {None}]
       /\ tree \in [Turns -> Turns \union {None}]
       /\ index \in [References -> Turns \union {None}]
  BY DEF CInv, TypeOK
<1>11. affected \subseteq NodesOf(t) /\ \A i \in affected : i \in nodes /\ tree[i] = t
  BY <1>1, <1>7 DEF NodesOf
<1>12. /\ CommandInv'
       /\ CommandsTyped'
  BY <1>1, <1>4, CommandMoves DEF CInv
<1>13. /\ task' \in [Turns -> Stages]
       /\ \A j \in Turns : task'[j] = "none" <=> task[j] = "none"
       /\ tombstones' = tombstones \union C
       /\ draining' \in [Commands -> SUBSET Turns]
  <2>1. C \in SUBSET Turns
    BY <1>6
  <2> QED
    BY <1>4, <2>1, ClaimsCancelled DEF CInv
<1>14. /\ state' \in [Turns -> States]
       /\ \A j \in Turns : state'[j] # state[j] => j \in affected /\ state'[j] = "error"
       /\ \A j \in Turns : state'[j] \in Runnable => state[j] \in Runnable /\ j \notin affected
       /\ \A j \in off : state'[j] = "error"
  <2>1. off \subseteq Turns
    BY <1>1, <1>10 DEF NodesOf
  <2> QED
    BY <1>4, <1>7, <1>10, <2>1 DEF States, Runnable
<1>15. QueueInv' /\ queue' \in [Turns -> Seq(Turns)]
  <2>1. ASSUME NEW j \in Turns, state'[j] = "pending"
        PROVE  state[j] = "pending" /\ (tree[j] = t => message[j] \notin ms)
    <3>1. state[j] = "pending" /\ j \notin affected /\ j \in nodes
      BY <1>14, <2>1 DEF Runnable, CInv, OwnerInv
    <3>2. \A i \in affected : tree[j] = t => message[i] # message[j]
      BY <1>11, <3>1 DEF CInv, GraphInv
    <3> QED
      BY <1>9, <3>1, <3>2
  <2>2. \A j \in Turns : state[j] = "pending" /\ state'[j] # "pending" =>
            tree[j] = t /\ message[j] \in ms
    BY <1>8, <1>11, <1>14
  <2>3. \A j \in nodes \ nodes' : state'[j] # "pending"
    BY <1>4, <1>7, <1>10, <1>14 DEF Runnable
  <2>4. TypeOK /\ OwnerInv /\ QueueInv
    BY DEF CInv
  <2> QED
    BY <1>1, <1>4, <1>5, <2>1, <2>2, <2>3, <2>4, QueueShrinks
<1>16. /\ published' \in Seq(Turns)
       /\ \A u : u \in Published' <=> u \in Published /\ ~(u = t /\ t \in gone)
       /\ \A p, q \in 1 .. Len(published') : published'[p] = published'[q] => p = q
  <2>0. /\ \A p, q \in 1 .. Len(published) : published[p] = published[q] => p = q
        /\ \A u : u \in Published <=> \E p \in 1 .. Len(published) : published[p] = u
    BY PublishedEntries DEF CInv, GraphInv
  <2>1. CASE t \in gone
    <3>1. published' = Remaining(published, {t})
      BY <1>4, <2>1
    <3>2. /\ published' \in Seq(Turns)
          /\ \A p \in 1 .. Len(published') :
               published'[p] \notin {t} /\ \E k \in 1 .. Len(published) : published[k] = published'[p]
          /\ \A k \in 1 .. Len(published) : published[k] \notin {t} =>
               \E p \in 1 .. Len(published') : published'[p] = published[k]
          /\ \A p, q \in 1 .. Len(published') : published'[p] = published'[q] => p = q
      <4> DEFINE rest == Remaining(published, {t})
      <4>1. /\ rest \in Seq(Turns)
            /\ \A p \in 1 .. Len(rest) :
                 rest[p] \notin {t} /\ \E k \in 1 .. Len(published) : published[k] = rest[p]
            /\ \A k \in 1 .. Len(published) : published[k] \notin {t} =>
                 \E p \in 1 .. Len(rest) : rest[p] = published[k]
            /\ (\A p, q \in 1 .. Len(published) : published[p] = published[q] => p = q) =>
                 \A p, q \in 1 .. Len(rest) : rest[p] = rest[q] => p = q
        <5>1. published \in Seq(Turns)
          BY <1>10
        <5> QED
          BY <5>1, RemainingKeeps
      <4> HIDE DEF rest
      <4>2. published' = rest
        BY <3>1 DEF rest
      <4> QED
        BY <2>0, <4>1, <4>2
    <3>3. \A u : u \in Published' <=> \E p \in 1 .. Len(published') : published'[p] = u
      <4>1. DOMAIN published' = 1 .. Len(published')
        BY <3>2
      <4> QED
        BY <4>1 DEF Published, ToSet
    <3>4. ASSUME NEW u, u \in Published' PROVE u \in Published /\ u # t
      <4>1. PICK p \in 1 .. Len(published') : published'[p] = u
        BY <3>3, <3>4
      <4>2. u \notin {t} /\ \E k \in 1 .. Len(published) : published[k] = u
        BY <3>2, <4>1
      <4> QED
        BY <2>0, <4>2
    <3>5. ASSUME NEW u, u \in Published, u # t PROVE u \in Published'
      <4>1. PICK k \in 1 .. Len(published) : published[k] = u
        BY <2>0, <3>5
      <4>2. \E p \in 1 .. Len(published') : published'[p] = u
        BY <3>2, <3>5, <4>1
      <4> QED
        BY <3>3, <4>2
    <3>6. \A u : u \in Published' <=> u \in Published /\ ~(u = t /\ t \in gone)
      BY <2>1, <3>4, <3>5
    <3> QED
      BY <3>2, <3>6
  <2>2. CASE t \notin gone
    <3>1. published' = published
      BY <1>4, <2>2
    <3> QED
      BY <1>10, <2>0, <2>2, <3>1 DEF Published
  <2> QED
    BY <2>1, <2>2
<1>17. /\ index' \in [References -> Turns \union {None}]
       /\ \A x \in References : index'[x] =
            IF index[x] = t /\ (t \in gone \/ x \in cut) THEN None ELSE index[x]
  <2>1. CASE t \in gone
    <3>1. index' = [x \in References |-> IF index[x] \in {t} THEN None ELSE index[x]]
      BY <1>4, <2>1 DEF WithoutTrees
    <3> QED
      BY <1>10, <2>1, <3>1
  <2>2. CASE t \notin gone
    <3>1. index' = [x \in References |->
              IF x \in cut /\ index[x] = t THEN None ELSE index[x]]
      BY <1>4, <2>2 DEF WithoutReferences
    <3> QED
      BY <1>10, <2>2, <3>1
  <2> QED
    BY <2>1, <2>2
<1>18. TypeOK'
  <2>1. statuses' \subseteq nodes' /\ sessions' \subseteq nodes' /\ nodes' \subseteq Turns
    BY <1>4, <1>7, <1>10
  <2>2. tombstones' \subseteq Turns
    BY <1>6, <1>10, <1>13
  <2> QED
    BY <1>5, <1>12, <1>13, <1>14, <1>15, <1>16, <1>17, <2>1, <2>2 DEF CInv, TypeOK, CommandsTyped
<1>19. NamesInv'
  <2>1. \A j \in nodes : state[j] \notin Outside
    BY <1>10 DEF CInv, NamesInv
  <2>2. \A j \in Turns : state'[j] \in Outside <=> state[j] \in Outside
    BY <1>11, <1>14, <2>1 DEF Outside
  <2>3. \A j \in Turns : tree[j] # None => tree[j] \in Turns
    BY <1>10
  <2> QED
    BY <1>4, <1>5, <2>2, <2>3 DEF CInv, NamesInv
<1>20. OwnerInv'
  <2>1. \A u \in Turns : active[u] # None => active[u] \in Turns
    BY <1>10
  <2>2. ASSUME NEW j \in Turns, state'[j] \in Runnable
        PROVE  j \in nodes' /\ tree'[j] \in Published'
    <3>1. j \in nodes /\ tree[j] \in Published /\ j \notin gone
      BY <1>7, <1>14, <2>2 DEF CInv, OwnerInv
    <3>2. ~(tree[j] = t /\ t \in gone)
      BY <1>1, <3>1 DEF NodesOf
    <3> QED
      BY <1>4, <1>5, <1>16, <3>1, <3>2
  <2>3. \A j \in Turns : state'[j] = "pending" => task'[j] = "none"
    BY <1>13, <1>14 DEF CInv, OwnerInv
  <2>4. \A j \in Turns : task'[j] # "none" => tree'[j] # None /\ active'[tree'[j]] = j
    BY <1>5, <1>13 DEF CInv, OwnerInv
  <2>5. \A u \in Turns : active'[u] # None => task'[active'[u]] # "none" /\ tree'[active'[u]] = u
    BY <1>5, <1>13, <2>1 DEF CInv, OwnerInv
  <2> QED
    BY <2>2, <2>3, <2>4, <2>5 DEF OwnerInv
<1>21. ClearedInv'
  <2>0. \A j \in affected : j \in Turns /\ (active[t] = j => j \in tombstones')
    <3>1. \A j \in affected : j \in Turns
      BY <1>10, <1>11
    <3> QED
      BY <1>6, <1>8, <1>13, <3>1
  <2>1. ASSUME NEW u \in Published', active'[u] # None, active'[u] \notin nodes'
        PROVE  active'[u] \in tombstones'
    <3>1. u \in Published /\ u \in Turns
      BY <1>16, PublishedEntries DEF CInv
    <3>2. CASE active[u] \notin nodes
      BY <1>5, <1>13, <2>1, <3>1, <3>2 DEF CInv, ClearedInv
    <3>3. CASE active[u] \in nodes
      <4>1. active[u] \in affected
        BY <1>4, <1>5, <1>7, <2>1, <3>3
      <4>2. tree[active[u]] = u
        BY <1>5, <2>1, <3>1 DEF CInv, OwnerInv
      <4>3. u = t
        BY <1>11, <4>1, <4>2
      <4> QED
        BY <1>5, <2>0, <4>1, <4>3
    <3> QED
      BY <3>2, <3>3
  <2>2. ASSUME NEW j \in nodes' \ statuses'
        PROVE  /\ state'[j] = "error" /\ j \notin sessions'
               /\ active'[tree'[j]] = j => j \in tombstones'
    <3>1. j \in nodes /\ j \notin gone /\ j \in Turns
      BY <1>4, <1>10
    <3>2. CASE j \in statuses
      <4>1. j \in affected
        BY <1>4, <2>2, <3>2
      <4>2. j \in off
        BY <1>7, <3>1, <4>1
      <4> QED
        BY <1>4, <1>5, <1>11, <1>14, <2>0, <4>1, <4>2
    <3>3. CASE j \notin statuses
      <4>1. /\ state[j] = "error" /\ j \notin sessions
            /\ active[tree[j]] = j => j \in tombstones
        BY <3>1, <3>3 DEF CInv, ClearedInv
      <4> QED
        BY <1>4, <1>5, <1>13, <1>14, <3>1, <4>1
    <3> QED
      BY <3>2, <3>3
  <2> QED
    BY <2>1, <2>2 DEF ClearedInv
<1>22. ASSUME NEW u, NEW x \in References
       PROVE  Resolves(u, x)' <=> Resolves(u, x) /\ ~(u = t /\ x \in cut)
  <2>1. CASE x.kind = "prompt"
    <3>1. x = Prompt(x.of)
      BY <2>1, ReferenceShape
    <3>2. Resolves(u, x) <=> \E j \in nodes : tree[j] = u /\ message[j] = x.of
      BY <3>1, ResolvesPrompt
    <3>3. Resolves(u, x)' <=> \E j \in nodes' : tree[j] = u /\ message[j] = x.of
      BY <1>5, <2>1, ResolvesNext DEF ResolvedBy
    <3>4. \A j \in nodes : tree[j] = t /\ message[j] = x.of => (j \in gone <=> x \in cut)
      BY <1>1, <3>1 DEF NodesOf
    <3>5. \A j \in gone : tree[j] = t
      BY <1>1 DEF NodesOf
    <3> QED
      BY <1>4, <3>2, <3>3, <3>4, <3>5
  <2>2. CASE x.kind = "status"
    <3>1. x = Status(x.of)
      BY <2>2, ReferenceShape
    <3>2. Resolves(u, x) <=> x.of \in nodes /\ tree[x.of] = u /\ x.of \in statuses
      BY <3>1, ResolvesStatus
    <3>3. Resolves(u, x)' <=> x.of \in nodes' /\ tree[x.of] = u /\ x.of \in statuses'
      <4>1. x.kind # "prompt"
        BY <2>2
      <4> QED
        BY <1>5, <2>2, <4>1, ResolvesNext DEF ResolvedBy
    <3>4. x.of \in statuses => x.of \in nodes
      BY <1>10
    <3>5. x.of \in nodes /\ tree[x.of] = t /\ x.of \in statuses =>
            (x.of \in affected <=> x \in cut)
      BY <1>2, <1>7, <3>1 DEF NodesOf
    <3>6. \A j \in affected : tree[j] = t
      BY <1>11
    <3> QED
      BY <1>4, <1>7, <3>2, <3>3, <3>4, <3>5, <3>6
  <2> QED
    BY <2>1, <2>2, ReferenceShape
<1>23. IndexMatchesGraphs'
  <2> SUFFICES ASSUME NEW x \in References, NEW u \in Turns
               PROVE  index'[x] = u <=> u \in Published' /\ Resolves(u, x)'
    BY DEF IndexMatchesGraphs
  <2>1. index[x] = u <=> u \in Published /\ Resolves(u, x)
    BY DEF CInv, IndexMatchesGraphs
  <2>2. u # None
    BY TurnsAreNot
  <2> QED
    BY <1>16, <1>17, <1>22, <2>1, <2>2
<1>24. GraphInv'
  <2>1. ASSUME NEW u \in Published'
        PROVE  u \in nodes' /\ tree'[u] = u /\ reply'[u] = None
    <3>1. u \in Published /\ ~(u = t /\ t \in gone)
      BY <1>16
    <3>2. u \in nodes /\ tree[u] = u /\ reply[u] = None
      BY <3>1 DEF CInv, GraphInv
    <3>3. u \notin gone
      BY <1>1, <3>1, <3>2 DEF NodesOf
    <3> QED
      BY <1>4, <1>5, <3>2, <3>3
  <2>2. \A i, j \in nodes' : tree'[i] = tree'[j] /\ message'[i] = message'[j] => i = j
    BY <1>4, <1>5 DEF CInv, GraphInv
  <2>3. ASSUME NEW i \in nodes', tree'[i] \in Published', i # tree'[i]
        PROVE  reply'[i] # None /\ Resolves(tree[i], reply[i])'
    <3>1. i \in nodes /\ i \notin gone /\ tree[i] \in Published /\ i # tree[i]
      BY <1>4, <1>5, <1>16, <2>3
    <3>2. reply[i] # None /\ Resolves(tree[i], reply[i])
      BY <3>1 DEF CInv, GraphInv
    <3>3. reply[i] \in References
      BY <1>10, <3>1, <3>2 DEF CInv, TypeOK
    <3>4. ~(tree[i] = t /\ reply[i] \in cut)
      <4> SUFFICES ASSUME tree[i] = t, reply[i] \in cut PROVE FALSE
        OBVIOUS
      <4>1. Answered(t, Prompt(message[i])) = reply[i]
        <5>1. \A j \in nodes : tree[j] = t /\ message[j] = message[i] => j = i
          BY <3>1 DEF CInv, GraphInv
        <5> QED
          BY <3>1, <5>1, AnsweredPrompt
      <4>2. Prompt(message[i]) \in Resolved(t)
        <5>1. Prompt(message[i]) \in References
          BY <1>10, <3>1, ReferenceShape DEF CInv, TypeOK
        <5> QED
          BY <3>1, <5>1, ResolvesPrompt DEF Resolved
      <4>3. Prompt(message[i]) \in cut
        BY <1>3, <4>1, <4>2 DEF Answering
      <4> QED
        BY <1>1, <3>1, <4>3 DEF NodesOf
    <3>5. Resolves(tree[i], reply[i])'
      <4>1. \A u, x : x \in References /\ Resolves(u, x) /\ ~(u = t /\ x \in cut) =>
              ResolvedBy(nodes', tree', message', statuses', u, x)
        BY <1>22, ResolvesNext
      <4> QED
        BY <1>5, <3>2, <3>3, <3>4, <4>1, AnswerResolvesNext
    <3> QED
      BY <1>5, <3>2, <3>5
  <2> QED
    BY <1>16, <2>1, <2>2, <2>3 DEF GraphInv
<1>25. RootedInv'
  <2> SUFFICES ASSUME NEW u \in Published', NEW S \in SUBSET References,
                      Prompt(message'[u]) \in S, Answering(u, S)', NEW j \in NodesOf(u)'
               PROVE  Prompt(message'[j]) \in S
    BY DEF RootedInv
  <2> DEFINE lost == {x \in cut : u = t}
             S2 == S \union lost
  <2>1. u \in Published /\ u \in nodes' /\ tree[u] = u
    BY <1>5, <1>16, <1>24 DEF GraphInv
  <2>2. j \in nodes' /\ tree[j] = u
    BY <1>5 DEF NodesOf
  <2>3. \A k \in nodes : tree[k] = u => (k \in nodes' <=> Prompt(message[k]) \notin lost)
    <3>1. \A k \in gone : tree[k] = t
      BY <1>1 DEF NodesOf
    <3> QED
      BY <1>1, <1>4, <3>1 DEF NodesOf
  <2>4. \A x \in References : Resolves(u, x)' <=> Resolves(u, x) /\ x \notin lost
    BY <1>22
  <2>5. \A x \in Resolved(u) : Answered(u, x) \in lost => x \in lost
    BY <1>3 DEF Answering
  <2>6. lost \subseteq References
    BY <1>1 DEF Resolved
  <2> HIDE DEF lost
  <2>7. \A x \in References : Resolves(u, x)' /\ Answered(u, x)' \in S => x \in S
    BY DEF Answering, Resolved
  <2>8. Answering(u, S2)
    <3> SUFFICES ASSUME NEW x \in Resolved(u), Answered(u, x) \in S2, x \notin lost
                 PROVE  x \in S
      BY DEF Answering
    <3>1. x \in References /\ Resolves(u, x) /\ Resolves(u, x)'
      BY <2>4 DEF Resolved
    <3>2. Answered(u, x) \in S
      BY <2>5
    <3>3. Answered(u, x)' = Answered(u, x)
      <4>1. CASE x.kind = "status"
        BY <1>5, <4>1 DEF Answered, Prompt
      <4>2. CASE x.kind = "prompt"
        <5>1. x = Prompt(x.of)
          BY <3>1, <4>2, ReferenceShape
        <5>2. \A k \in nodes : tree[k] = u /\ message[k] = x.of => k \in nodes'
          BY <2>3, <5>1
        <5>3. NodeAt(u, x.of)' = NodeAt(u, x.of)
          BY <1>4, <1>5, <5>2 DEF NodeAt
        <5> QED
          BY <1>5, <4>2, <5>3 DEF Answered
      <4> QED
        BY <3>1, <4>1, <4>2, ReferenceShape
    <3> QED
      BY <2>7, <3>1, <3>2, <3>3
  <2>9. Prompt(message[u]) \in S2 /\ S2 \in SUBSET References
    BY <1>5, <2>6
  <2>10. j \in NodesOf(u)
    BY <1>4, <2>2 DEF NodesOf
  <2>11. Prompt(message[j]) \in S2
    BY <2>1, <2>8, <2>9, <2>10 DEF CInv, RootedInv
  <2>12. Prompt(message[j]) \notin lost
    BY <1>4, <2>2, <2>3
  <2> QED
    BY <1>5, <2>11, <2>12
<1> QED
  BY <1>12, <1>15, <1>18, <1>19, <1>20, <1>21, <1>23, <1>24, <1>25 DEF CInv

(* A message and its reply subtree are cleared, or the clear fails.        *)
LEMMA ClearReplyStep == ASSUME CInv, NEW c \in Commands, ClearReply(c) PROVE CInv'
  BY ClearReplyRaises, ClearReplyCuts
-----------------------------------------------------------------------------
(* Every tree is stopped, and perhaps detached.                            *)

(* Trees leave the repository, and the graphs stay.                        *)
LEMMA TreesDetached ==
  ASSUME GraphInv, RootedInv,
         nodes' = nodes, statuses' = statuses, tree' = tree,
         message' = message, reply' = reply, Published' \subseteq Published,
         \A p, q \in 1 .. Len(published') : published'[p] = published'[q] => p = q
  PROVE  GraphInv' /\ RootedInv'
<1>1. \A t, m : NodeAt(t, m)' = NodeAt(t, m)
  BY DEF NodeAt
<1>2. \A t : NodesOf(t)' = NodesOf(t)
  BY DEF NodesOf
<1>3. \A t : \A r \in References : Resolves(t, r)' <=> Resolves(t, r)
  BY <1>1, <1>2, ReferenceShape DEF Resolves
<1>4. \A t : Resolved(t)' = Resolved(t)
  BY <1>3 DEF Resolved
<1>5. ASSUME NEW t, NEW x PROVE Answered(t, x)' = Answered(t, x)
  <2>1. NodeAt(t, x.of)' = NodeAt(t, x.of)
    BY <1>1
  <2>2. CASE x.kind = "status"
    BY <2>2 DEF Answered, Prompt
  <2>3. CASE x.kind # "status"
    BY <2>1, <2>3 DEF Answered
  <2> QED
    BY <2>2, <2>3
<1>6. \A t, S : Answering(t, S)' <=> Answering(t, S)
  BY <1>4, <1>5 DEF Answering
<1>7. GraphInv'
  <2>1. \A i \in nodes' : tree'[i] \in Published' /\ i # tree'[i] =>
          reply'[i] # None /\ Resolves(tree[i], reply[i])'
    <3> SUFFICES ASSUME NEW i \in nodes', tree'[i] \in Published', i # tree'[i]
                 PROVE  reply'[i] # None /\ Resolves(tree[i], reply[i])'
      OBVIOUS
    <3>1. reply[i] # None /\ Resolves(tree[i], reply[i])
      BY DEF GraphInv
    <3>2. Resolves(tree[i], reply[i])' <=> Resolves(tree[i], reply[i])
      BY <1>1, <1>2 DEF Resolves, NodeAt, NodesOf
    <3> QED
      BY <3>1, <3>2
  <2> QED
    BY <2>1 DEF GraphInv
<1>8. RootedInv'
  <2> SUFFICES ASSUME NEW t \in Published', NEW S \in SUBSET References,
                      Prompt(message'[t]) \in S, Answering(t, S)', NEW i \in NodesOf(t)'
               PROVE  Prompt(message'[i]) \in S
    BY DEF RootedInv
  <2>1. Prompt(message[t]) \in S /\ Answering(t, S) /\ i \in NodesOf(t)
    BY <1>2, <1>6
  <2> QED
    BY <2>1 DEF RootedInv
<1> QED
  BY <1>7, <1>8

(* The trees a command of the chat stops: the oldest ones.                 *)
Done == ToSet(SubSeq(published, 1, Handled))

(* The tree on which that command raises, if any does.                     *)
Stuck == IF Blocked = {} THEN {} ELSE {published[First(Blocked)]}

(* They are published trees: all of them, unless something blocks.         *)
LEMMA HandledTrees ==
  ASSUME TypeOK
  PROVE  /\ Handled \in 0 .. Len(published)
         /\ \A t : t \in Done <=> \E p \in 1 .. Handled : published[p] = t
         /\ Done \subseteq Published /\ Stuck \subseteq Published
         /\ Blocked = {} => Done = Published
<1>1. published \in Seq(Turns) /\ Len(published) \in Nat /\ DOMAIN published = 1 .. Len(published)
  BY DEF TypeOK
<1>2. Blocked \in SUBSET Nat /\ Blocked \subseteq 1 .. Len(published)
  BY <1>1 DEF Blocked
<1>3. Blocked # {} => First(Blocked) \in 1 .. Len(published)
  BY <1>2, FirstIsLeast
<1>4. Handled \in 0 .. Len(published)
  <2>1. CASE Blocked = {}
    BY <1>1, <2>1 DEF Handled
  <2>2. CASE Blocked # {}
    <3>1. Handled = First(Blocked) - 1
      BY <2>2 DEF Handled
    <3> QED
      BY <1>1, <1>3, <2>2, <3>1
  <2> QED
    BY <2>1, <2>2
<1>5. \A t : t \in Done <=> \E p \in 1 .. Handled : published[p] = t
  <2> DEFINE s == SubSeq(published, 1, Handled)
  <2>1. /\ s \in Seq(Turns) /\ Len(s) = Handled
        /\ \A p \in 1 .. Handled : s[p] = published[p]
    <3>1. \A p \in 1 .. Handled : published[p] \in Turns
      BY <1>1, <1>4
    <3>2. /\ s \in Seq(Turns)
          /\ Len(s) = IF 1 <= Handled THEN Handled - 1 + 1 ELSE 0
          /\ \A p \in 1 .. Handled - 1 + 1 : s[p] = published[1 + p - 1]
      BY <1>1, <1>4, <3>1, SubSeqProperties
    <3> HIDE DEF s
    <3> QED
      BY <1>4, <3>2
  <2> HIDE DEF s
  <2>2. DOMAIN s = 1 .. Handled
    BY <2>1
  <2>3. Done = {s[p] : p \in DOMAIN s}
    BY DEF Done, ToSet, s
  <2> QED
    BY <2>1, <2>2, <2>3
<1>6. \A t : t \in Published <=> \E p \in 1 .. Len(published) : published[p] = t
  BY PublishedEntries
<1>7. Done \subseteq Published
  BY <1>1, <1>4, <1>5, <1>6
<1>8. Stuck \subseteq Published
  BY <1>3, <1>6 DEF Stuck
<1>9. Blocked = {} => Done = Published
  <2>1. Blocked = {} => Handled = Len(published)
    BY DEF Handled
  <2> QED
    BY <1>5, <1>6, <2>1
<1> QED
  BY <1>4, <1>5, <1>7, <1>8, <1>9

(* The trees of the chat are stopped, and detached by a clear.             *)
LEMMA CancelAllStep ==
  ASSUME CInv, NEW c \in Commands, NEW op \in {"stop", "clear"}, CancelAll(c, op)
  PROVE  CInv'
<1>1. /\ state' = [i \in Turns |->
              IF i \in {k \in nodes : tree[k] \in Done} /\ state[i] \in Runnable
              THEN "error" ELSE state[i]]
      /\ queue' = [t \in Turns |-> IF t \in Done THEN << >> ELSE queue[t]]
      /\ tombstones' = tombstones \union ClaimsOf(Done \union Stuck)
      /\ task' = [i \in Turns |-> IF i \in ClaimsOf(Done) THEN Struck(task[i]) ELSE task[i]]
      /\ \/ draining' = [draining EXCEPT ![c] = ClaimsOf(Done) \intersect Live] /\ Drains(c)
         \/ Raise(c)
      /\ \/ /\ published' = SubSeq(published, Handled + 1, Len(published))
            /\ index' = WithoutTrees(Done)
         \/ UNCHANGED <<published, index>>
  BY DEF CancelAll, FailRunnable, Done, Stuck
<1>2. UNCHANGED <<message, reply, token, generation, tree, nodes, statuses, sessions, active>>
  BY DEF CancelAll, intake
<1>3. /\ Handled \in 0 .. Len(published)
      /\ \A t : t \in Done <=> \E p \in 1 .. Handled : published[p] = t
      /\ Done \subseteq Published /\ Stuck \subseteq Published
  BY HandledTrees DEF CInv
<1>4. lock = c
  BY DEF CancelAll, Commits, CInv, CommandInv
<1>5. /\ CommandInv'
      /\ CommandsTyped'
  BY <1>1, <1>4, CommandMoves DEF Raise, CInv
<1>6. /\ state \in [Turns -> States] /\ nodes \subseteq Turns
      /\ active \in [Turns -> Turns \union {None}] /\ tree \in [Turns -> Turns \union {None}]
      /\ published \in Seq(Turns) /\ index \in [References -> Turns \union {None}]
      /\ task \in [Turns -> Stages] /\ draining \in [Commands -> SUBSET Turns]
      /\ queue \in [Turns -> Seq(Turns)] /\ tombstones \subseteq Turns
  BY DEF CInv, TypeOK
<1>7. /\ task' \in [Turns -> Stages]
      /\ \A j \in Turns : task'[j] = "none" <=> task[j] = "none"
  <2>1. \A j \in Turns :
          task'[j] \in Stages /\ (task'[j] = "none" <=> task[j] = "none")
    BY <1>1, <1>6, StruckStage
  <2> QED
    BY <1>1, <2>1
<1>8. draining' \in [Commands -> SUBSET Turns]
  <2>1. ClaimsOf(Done) \intersect Live \subseteq Turns
    BY DEF Live
  <2> QED
    BY <1>1, <1>6, <2>1 DEF Raise
<1>9. /\ state' \in [Turns -> States]
      /\ \A j \in Turns : state'[j] # state[j] =>
           state'[j] = "error" /\ j \in nodes /\ tree[j] \in Done
      /\ \A j \in Turns : state'[j] \in Runnable =>
           state[j] \in Runnable /\ (j \in nodes => tree[j] \notin Done)
  BY <1>1, <1>6 DEF States, Runnable
<1>10. tombstones \subseteq tombstones' /\ tombstones' \subseteq Turns
  <2>1. Published \subseteq Turns
    BY PublishedEntries DEF CInv
  <2>2. ClaimsOf(Done \union Stuck) \subseteq Turns
    BY <1>3, <1>6, <2>1 DEF ClaimsOf
  <2> QED
    BY <1>1, <1>6, <2>2
<1>11. /\ published' \in Seq(Turns)
       /\ \A p, q \in 1 .. Len(published') : published'[p] = published'[q] => p = q
       /\ index' \in [References -> Turns \union {None}]
       /\ \/ /\ \A u : u \in Published' <=> u \in Published /\ u \notin Done
             /\ \A x \in References : index'[x] = IF index[x] \in Done THEN None ELSE index[x]
          \/ Published' = Published /\ index' = index
  <2>0. /\ \A p, q \in 1 .. Len(published) : published[p] = published[q] => p = q
        /\ \A u : u \in Published <=> \E p \in 1 .. Len(published) : published[p] = u
    BY PublishedEntries DEF CInv, GraphInv
  <2>1. CASE /\ published' = SubSeq(published, Handled + 1, Len(published))
             /\ index' = WithoutTrees(Done)
    <3> DEFINE L == Len(published)
    <3>1. L \in Nat /\ Handled \in Nat /\ Handled <= L
      BY <1>3, <1>6
    <3>2. /\ published' \in Seq(Turns) /\ Len(published') = L - Handled
          /\ \A p \in 1 .. L - Handled : published'[p] = published[Handled + p]
      BY <1>3, <1>6, <2>1, SuffixEntries
    <3> HIDE DEF L
    <3>3. \A u : u \in Published' <=> \E p \in 1 .. Len(published') : published'[p] = u
      <4>1. DOMAIN published' = 1 .. Len(published')
        BY <3>2
      <4> QED
        BY <4>1 DEF Published, ToSet
    <3>4. \A p, q \in 1 .. L : published[p] = published[q] => p = q
      BY <2>0 DEF L
    <3>5. \A u : u \in Published <=> \E p \in 1 .. L : published[p] = u
      BY <2>0 DEF L
    <3>6. \A p, q \in 1 .. Len(published') : published'[p] = published'[q] => p = q
      <4> SUFFICES ASSUME NEW p \in 1 .. Len(published'), NEW q \in 1 .. Len(published'),
                          published'[p] = published'[q]
                   PROVE  p = q
        OBVIOUS
      <4>1. /\ Handled + p \in 1 .. L /\ Handled + q \in 1 .. L
            /\ published[Handled + p] = published[Handled + q]
        BY <3>1, <3>2
      <4>2. Handled + p = Handled + q
        BY <3>4, <4>1
      <4> QED
        BY <3>1, <4>2
    <3>7. ASSUME NEW u, u \in Published' PROVE u \in Published /\ u \notin Done
      <4>1. PICK p \in 1 .. Len(published') : published'[p] = u
        BY <3>3, <3>7
      <4>2. Handled + p \in 1 .. L /\ published[Handled + p] = u
        BY <3>1, <3>2, <4>1
      <4>3. ASSUME NEW q \in 1 .. Handled, published[q] = u PROVE FALSE
        <5>1. q \in 1 .. L
          BY <3>1
        <5>2. q = Handled + p
          BY <3>4, <4>2, <4>3, <5>1
        <5> QED
          BY <3>1, <5>2
      <4> QED
        BY <1>3, <3>5, <4>2, <4>3
    <3>8. ASSUME NEW u, u \in Published, u \notin Done PROVE u \in Published'
      <4>1. PICK k \in 1 .. L : published[k] = u
        BY <3>5, <3>8
      <4>2. k \notin 1 .. Handled
        BY <1>3, <3>8, <4>1
      <4>3. k - Handled \in 1 .. L - Handled /\ Handled + (k - Handled) = k
        BY <3>1, <4>2
      <4>4. published'[k - Handled] = u
        BY <3>2, <4>1, <4>3
      <4> QED
        BY <3>2, <3>3, <4>3, <4>4
    <3>9. index' = [x \in References |-> IF index[x] \in Done THEN None ELSE index[x]]
      BY <2>1 DEF WithoutTrees
    <3>10. /\ index' \in [References -> Turns \union {None}]
           /\ \A x \in References : index'[x] = IF index[x] \in Done THEN None ELSE index[x]
      BY <1>6, <3>9
    <3> QED
      BY <3>2, <3>6, <3>7, <3>8, <3>10
  <2>2. CASE UNCHANGED <<published, index>>
    BY <1>6, <2>0, <2>2 DEF Published
  <2> QED
    BY <1>1, <2>1, <2>2
<1>12. Published' \subseteq Published
  BY <1>11
<1>13. GraphInv' /\ RootedInv'
  BY <1>2, <1>11, <1>12, TreesDetached DEF CInv
<1>14. IndexMatchesGraphs'
  <2> SUFFICES ASSUME NEW x \in References, NEW u \in Turns
               PROVE  index'[x] = u <=> u \in Published' /\ Resolves(u, x)'
    BY DEF IndexMatchesGraphs
  <2>1. index[x] = u <=> u \in Published /\ Resolves(u, x)
    BY DEF CInv, IndexMatchesGraphs
  <2>2. Resolves(u, x)' <=> Resolves(u, x)
    BY <1>2, ResolvesNow, ResolvesNext
  <2>3. u # None
    BY TurnsAreNot
  <2> QED
    BY <1>11, <2>1, <2>2, <2>3
<1>15. queue' \in [Turns -> Seq(Turns)] /\ \A u \in Turns \ Done : queue'[u] = queue[u]
  <2>1. << >> \in Seq(Turns)
    OBVIOUS
  <2> QED
    BY <1>1, <1>6, <2>1
<1>16. TypeOK'
  BY <1>2, <1>5, <1>7, <1>8, <1>9, <1>10, <1>11, <1>15
  DEF CInv, TypeOK, CommandsTyped
<1>17. NamesInv'
  <2>1. \A j \in nodes : state[j] \notin Outside
    BY <1>6 DEF CInv, NamesInv
  <2>2. \A j \in Turns : state'[j] \in Outside <=> state[j] \in Outside
    BY <1>9, <2>1 DEF Outside
  <2>3. \A j \in Turns : tree[j] # None => tree[j] \in Turns
    BY <1>6
  <2> QED
    BY <1>2, <2>2, <2>3 DEF CInv, NamesInv
<1>18. OwnerInv'
  <2>1. \A u \in Turns : active[u] # None => active[u] \in Turns
    BY <1>6
  <2>2. \A j \in Turns : state'[j] \in Runnable => j \in nodes' /\ tree'[j] \in Published'
    BY <1>2, <1>9, <1>11 DEF CInv, OwnerInv
  <2>3. \A j \in Turns : state'[j] = "pending" => task'[j] = "none"
    BY <1>7, <1>9 DEF CInv, OwnerInv
  <2>4. \A j \in Turns : task'[j] # "none" => tree'[j] # None /\ active'[tree'[j]] = j
    BY <1>2, <1>7 DEF CInv, OwnerInv
  <2>5. \A u \in Turns : active'[u] # None => task'[active'[u]] # "none" /\ tree'[active'[u]] = u
    BY <1>2, <1>7, <2>1 DEF CInv, OwnerInv
  <2> QED
    BY <2>2, <2>3, <2>4, <2>5 DEF OwnerInv
<1>19. ClearedInv'
  <2>1. \A u \in Published' : active'[u] # None /\ active'[u] \notin nodes' =>
          active'[u] \in tombstones'
    BY <1>2, <1>10, <1>12 DEF CInv, ClearedInv
  <2>2. \A j \in nodes' \ statuses' :
          /\ state'[j] = "error" /\ j \notin sessions'
          /\ active'[tree'[j]] = j => j \in tombstones'
    BY <1>2, <1>6, <1>9, <1>10 DEF CInv, ClearedInv
  <2> QED
    BY <2>1, <2>2 DEF ClearedInv
<1>20. QueueInv'
  <2>1. ASSUME NEW j \in Turns, state'[j] = "pending"
        PROVE  /\ \E p \in 1 .. Len(queue'[tree'[j]]) : queue'[tree'[j]][p] = message'[j]
               /\ active'[tree'[j]] # None
    <3>1. state[j] = "pending" /\ j \in nodes /\ tree[j] \notin Done
      BY <1>9, <2>1 DEF CInv, OwnerInv, Runnable
    <3>2. tree[j] \in Turns
      BY <1>6, <3>1 DEF CInv, NamesInv
    <3> QED
      BY <1>2, <1>15, <3>1, <3>2 DEF CInv, QueueInv
  <2>2. ASSUME NEW u \in Turns, u \in Done PROVE Len(queue'[u]) = 0
    BY <1>1, <2>2
  <2>3. ASSUME NEW u \in Turns, NEW p \in 1 .. Len(queue'[u])
        PROVE  queue'[u] = queue[u] /\ u \notin Done
    BY <1>15, <2>2
  <2>4. ASSUME NEW u \in Turns, NEW p \in 1 .. Len(queue'[u]), NEW q \in 1 .. Len(queue'[u]),
               queue'[u][p] = queue'[u][q]
        PROVE  p = q
    <3>1. queue'[u] = queue[u]
      BY <2>3
    <3> QED
      BY <2>4, <3>1 DEF CInv, QueueInv
  <2>5. ASSUME NEW u \in Turns, NEW p \in 1 .. Len(queue'[u])
        PROVE  \E j \in nodes' : /\ tree'[j] = u /\ message'[j] = queue'[u][p]
                                 /\ state'[j] = "pending"
    <3>1. queue'[u] = queue[u] /\ u \notin Done
      BY <2>3
    <3>2. PICK j \in nodes : tree[j] = u /\ message[j] = queue[u][p] /\ state[j] = "pending"
      BY <3>1 DEF CInv, QueueInv
    <3>3. state'[j] = "pending"
      BY <1>6, <1>9, <3>1, <3>2
    <3> QED
      BY <1>2, <3>1, <3>2, <3>3
  <2> QED
    BY <2>1, <2>4, <2>5 DEF QueueInv
<1> QED
  BY <1>5, <1>13, <1>14, <1>16, <1>17, <1>18, <1>19, <1>20 DEF CInv
-----------------------------------------------------------------------------
(* The invariant holds.                                                    *)

(* Nothing exists initially.                                               *)
LEMMA InitInv == Init => CInv
<1> SUFFICES ASSUME Init PROVE CInv
  OBVIOUS
<1> USE TurnsAreNot DEF Init
<1>1. \A i \in Turns :
        /\ state[i] = "unseen" /\ tree[i] = None /\ active[i] = None
        /\ task[i] = "none" /\ queue[i] = << >> /\ i \notin nodes
  OBVIOUS
<1>2. published = << >> /\ Published = {}
  BY DEF Published, ToSet
<1>3. TypeOK
  <2>1. << >> \in Seq(Turns)
    OBVIOUS
  <2>2. queue \in [Turns -> Seq(Turns)] /\ published \in Seq(Turns)
    BY <2>1
  <2>3. /\ command \in
             [Commands -> [stage : {"idle", "committing", "draining", "done", "raised"},
                           op : {"stop", "clear", "stop_reply", "clear_reply", None},
                           target : References \union {None}]]
        /\ draining \in [Commands -> SUBSET Turns]
    OBVIOUS
  <2> QED
    BY <2>2, <2>3 DEF TypeOK, States, Stages
<1>4. CommandInv
  <2>1. \A c \in Commands : command[c].stage = "idle"
    OBVIOUS
  <2> QED
    BY <2>1 DEF CommandInv
<1>5. OwnerInv /\ NamesInv
  BY <1>1 DEF OwnerInv, NamesInv, Runnable
<1>6. GraphInv
  <2>1. 1 .. Len(published) = {}
    BY <1>2
  <2> QED
    BY <1>2, <2>1 DEF GraphInv
<1>7. IndexMatchesGraphs
  BY <1>2 DEF IndexMatchesGraphs
<1>8. RootedInv /\ ClearedInv
  BY <1>2 DEF RootedInv, ClearedInv
<1>9. QueueInv
  <2>1. \A t \in Turns : 1 .. Len(queue[t]) = {}
    BY <1>1
  <2> QED
    BY <1>1, <2>1 DEF QueueInv
<1> QED
  BY <1>3, <1>4, <1>5, <1>6, <1>7, <1>8, <1>9 DEF CInv

(* Every step of a task keeps the invariant.                               *)
LEMMA TaskStepKeeps == ASSUME CInv, NEW i \in Turns, TaskStep(i) PROVE CInv'
<1>1. TRUE \in BOOLEAN /\ FALSE \in BOOLEAN
  OBVIOUS
<1> QED
  BY <1>1, StartStep, CompleteClaimStep, FailClaimStep, RunnerEndsStep, RunnerEscapesStep,
     RunnerStoppedStep, FinishStep DEF TaskStep

(* Every step of a command keeps the invariant.                            *)
LEMMA CommandStepKeeps == ASSUME CInv, NEW c \in Commands, CommandStep(c) PROVE CInv'
  BY StopReplyStep, ClearReplyStep, CancelAllStep, EndDrainStep DEF CommandStep

(* So does a stutter.                                                      *)
LEMMA StutterKeeps == ASSUME CInv, UNCHANGED vars PROVE CInv'
<1> USE DEF vars
<1>1. Published' = Published
  BY DEF Published
<1>2. GraphParts'
  BY GraphKept DEF CInv, GraphParts
<1>3. TypeOK' /\ CommandInv' /\ NamesInv'
  BY DEF CInv, TypeOK, CommandInv, NamesInv
<1>4. OwnerInv' /\ ClearedInv' /\ QueueInv'
  BY <1>1 DEF CInv, OwnerInv, ClearedInv, QueueInv
<1> QED
  BY <1>2, <1>3, <1>4 DEF CInv, GraphParts

(* The invariant is inductive.                                             *)
LEMMA NextKeeps == CInv /\ [Next]_vars => CInv'
<1> SUFFICES ASSUME CInv, [Next]_vars PROVE CInv'
  OBVIOUS
<1>1. CASE \E i \in Turns : Receive(i) \/ Discard(i) \/ Admit(i) \/ RecordSession(i)
  BY <1>1, ReceiveStep, DiscardStep, AdmitStep, RecordSessionStep
<1>2. CASE \E c \in Commands : BeginAny(c)
  BY <1>2, BeginAnyStep
<1>3. CASE OwnStep
  BY <1>3, TaskStepKeeps, CommandStepKeeps DEF OwnStep
<1>4. CASE UNCHANGED vars
  BY <1>4, StutterKeeps
<1> QED
  BY <1>1, <1>2, <1>3, <1>4 DEF Next

(* The invariant holds.                                                    *)
LEMMA Invariance == Spec => []CInv
<1> QED
  BY InitInv, NextKeeps, PTL DEF Spec

-----------------------------------------------------------------------------
(* The variables of the conversation trees keep their types.               *)
THEOREM Typed == Spec => []TypeOK
<1>1. CInv => TypeOK
  BY DEF CInv
<1> QED
  BY <1>1, Invariance, PTL

(* One execution per tree (runtime.py, the claim of a tree): whatever is   *)
(* admitted, cancelled, cleared or released in between.                    *)
THEOREM TreesRunOnce == Spec => []OneExecution
<1>1. CInv => OneExecution
  BY DEF CInv, OwnerInv, OneExecution, Live, TypeOK
<1> QED
  BY <1>1, Invariance, PTL

(* No turn is stranded (enqueue_or_claim, finish_and_claim_next): a        *)
(* pending node waits in the queue of a tree that has an execution to      *)
(* finish, and everything in a queue can run.                              *)
THEOREM TurnsNotStranded == Spec => []NoTurnStranded
<1>1. ASSUME CInv PROVE NoTurnStranded
  <2>1. \A t \in Turns : DOMAIN queue[t] = 1 .. Len(queue[t])
    BY <1>1 DEF CInv, TypeOK
  <2>2. ASSUME NEW i \in nodes, state[i] = "pending"
        PROVE  message[i] \in ToSet(queue[tree[i]]) /\ active[tree[i]] # None
    <3>1. i \in Turns
      BY <1>1 DEF CInv, TypeOK
    <3>2. tree[i] \in Turns
      BY <1>1, <3>1 DEF CInv, TypeOK, NamesInv
    <3>3. /\ \E p \in 1 .. Len(queue[tree[i]]) : queue[tree[i]][p] = message[i]
          /\ active[tree[i]] # None
      BY <1>1, <2>2, <3>1 DEF CInv, QueueInv
    <3> QED
      BY <2>1, <3>2, <3>3 DEF ToSet
  <2>3. ASSUME NEW t \in Turns
        PROVE  IsInjective(queue[t]) /\ Ready(t) = DOMAIN queue[t]
    <3>1. Ready(t) = 1 .. Len(queue[t])
      BY <1>1, WholeQueueReady
    <3>2. \A p, q \in 1 .. Len(queue[t]) : queue[t][p] = queue[t][q] => p = q
      BY <1>1 DEF CInv, QueueInv
    <3> QED
      BY <2>1, <3>1, <3>2 DEF IsInjective
  <2> QED
    BY <2>2, <2>3 DEF NoTurnStranded
<1> QED
  BY <1>1, Invariance, PTL

(* In a rooted tree every message but the root's hangs on the root's.      *)
LEMMA RootReachesAll ==
  ASSUME CInv, NEW t \in Published, NEW i \in NodesOf(t), i # t
  PROVE  message[i] \in Descendants(t, message[t])
<1> DEFINE m == message[t]
           all == {message[j] : j \in NodesOf(t)}
           closed == {S \in SUBSET all : \A j \in NodesOf(t) :
                        message[j] \in S \/ ParentOf(j) \notin S \union {m}}
<1>1. t \in nodes /\ tree[t] = t /\ t \in NodesOf(t)
  BY DEF CInv, GraphInv, NodesOf
<1>2. message[i] # m
  BY <1>1 DEF CInv, GraphInv, NodesOf
<1>3. ASSUME NEW S \in closed PROVE message[i] \in S
  <2> DEFINE U == S \union {m}
             Named(x) == IF x.kind = "prompt" THEN x.of ELSE message[x.of]
             R == {x \in References : Named(x) \in U}
  <2>1. \A j \in NodesOf(t) : message[j] \in S \/ ParentOf(j) \notin U
    OBVIOUS
  <2>2. \A j \in NodesOf(t) : j \in nodes /\ tree[j] = t /\ message[j] \in Turns /\ j \in Turns
    BY DEF NodesOf, CInv, TypeOK
  <2>3. \A n : Named(Prompt(n)) = n
    BY ReferenceShape
  <2>4. \A n : Named(Status(n)) = message[n]
    BY ReferenceShape
  <2>5. \A j : reply[j] \in References /\ reply[j] # None => ParentOf(j) = Named(reply[j])
    <3> SUFFICES ASSUME NEW j, reply[j] \in References, reply[j] # None
                 PROVE  ParentOf(j) = Named(reply[j])
      OBVIOUS
    <3>1. CASE reply[j].kind = "prompt"
      BY <3>1 DEF ParentOf
    <3>2. CASE reply[j].kind = "status"
      BY <3>2 DEF ParentOf
    <3> QED
      BY <3>1, <3>2, ReferenceShape
  <2> HIDE DEF Named
  <2> HIDE DEF U
  <2>6. Prompt(m) \in R
    <3>1. m \in Turns /\ m \in U
      BY <1>1, <2>2 DEF U
    <3> QED
      BY <2>3, <3>1, ReferenceShape
  <2>7. Answering(t, R)
    <3> SUFFICES ASSUME NEW x \in Resolved(t), Answered(t, x) \in R PROVE x \in R
      BY DEF Answering
    <3>1. x \in References /\ Resolves(t, x)
      BY DEF Resolved
    <3>2. CASE x.kind = "status"
      <4>1. x = Status(x.of)
        BY <3>1, <3>2, ReferenceShape
      <4>2. Answered(t, x) = Prompt(message[x.of])
        BY <4>1, AnsweredStatus
      <4>3. Named(Prompt(message[x.of])) \in U
        BY <4>2
      <4> QED
        BY <2>3, <2>4, <3>1, <4>1, <4>3
    <3>3. CASE x.kind = "prompt"
      <4>1. x = Prompt(x.of)
        BY <3>1, <3>3, ReferenceShape
      <4>2. PICK k \in nodes : tree[k] = t /\ message[k] = x.of
        BY <3>1, <4>1, ResolvesPrompt
      <4>3. Answered(t, Prompt(message[k])) = reply[k]
        <5>1. \A j \in nodes : tree[j] = t /\ message[j] = message[k] => j = k
          BY <4>2 DEF CInv, GraphInv
        <5> QED
          BY <4>2, <5>1, AnsweredPrompt
      <4>4. reply[k] \in References /\ Named(reply[k]) \in U
        BY <4>1, <4>2, <4>3
      <4>5. ParentOf(k) \in U
        BY <2>5, <4>4, TurnsAreNot
      <4>6. k \in NodesOf(t)
        BY <4>2 DEF NodesOf
      <4>7. message[k] \in U
        BY <2>1, <4>5, <4>6 DEF U
      <4> QED
        BY <2>3, <3>1, <4>1, <4>2, <4>7
    <3> QED
      BY <3>1, <3>2, <3>3, ReferenceShape
  <2>8. Prompt(message[i]) \in R
    <3>1. R \in SUBSET References
      OBVIOUS
    <3> HIDE DEF R
    <3> QED
      BY <2>6, <2>7, <3>1 DEF CInv, RootedInv
  <2>9. message[i] \in U
    BY <2>3, <2>8
  <2> QED
    BY <1>2, <2>9 DEF U
<1>4. message[i] \in all
  OBVIOUS
<1>5. Descendants(t, message[t]) = all \ UNION {all \ S : S \in closed}
  BY DEF Descendants
<1> HIDE DEF closed, all
<1> QED
  BY <1>3, <1>4, <1>5

(* Index and graphs fit together (repository.py, graph.py): the index      *)
(* leads to exactly the live references, what is saved can be restored,    *)
(* and a cleared node stays without response and session.                  *)
THEOREM GraphsConsistent == Spec => []TreesConsistent
<1>1. ASSUME CInv PROVE TreesConsistent
  <2>1. ASSUME NEW t \in Published
        PROVE  /\ t \in nodes /\ reply[t] = None
               /\ \A i \in NodesOf(t) \ {t} : reply[i] # None /\ Resolves(t, reply[i])
               /\ {message[i] : i \in NodesOf(t) \ {t}} \subseteq Descendants(t, message[t])
               /\ \A i, j \in NodesOf(t) : message[i] = message[j] => i = j
    <3>1. t \in nodes /\ reply[t] = None
      BY <1>1 DEF CInv, GraphInv
    <3>2. ASSUME NEW i \in NodesOf(t) \ {t} PROVE reply[i] # None /\ Resolves(t, reply[i])
      BY <1>1 DEF CInv, GraphInv, NodesOf
    <3>3. {message[i] : i \in NodesOf(t) \ {t}} \subseteq Descendants(t, message[t])
      BY <1>1, RootReachesAll
    <3>4. \A i, j \in NodesOf(t) : message[i] = message[j] => i = j
      BY <1>1 DEF CInv, GraphInv, NodesOf
    <3> QED
      BY <3>1, <3>2, <3>3, <3>4
  <2>2. Restorable
    BY <2>1 DEF Restorable
  <2>3. IndexMatchesGraphs /\ ClearedStaysInvalid
    BY <1>1 DEF CInv, ClearedInv, ClearedStaysInvalid
  <2> QED
    BY <2>2, <2>3 DEF TreesConsistent
<1> QED
  BY <1>1, Invariance, PTL
-----------------------------------------------------------------------------
(* What a single step may do.                                              *)

(* A release starts a pending node at most, and claims nothing else.       *)
LEMMA FinishMoves ==
  ASSUME CInv, NEW i \in Turns, Finish(i)
  PROVE  /\ \A j \in Turns : state'[j] # state[j] =>
              state[j] = "pending" /\ state'[j] = "in_progress"
         /\ \A j \in Turns : task[j] = "none" /\ task'[j] # "none" => state'[j] = "in_progress"
         /\ \A u \in Turns : active'[u] # active[u] =>
              active'[u] = None \/ active'[u] \in statuses
<1> DEFINE t == tree[i]
<1>1. t \in Turns /\ active[t] = i
  BY DEF Finish, HasEnded, CInv, OwnerInv, TypeOK
<1>2. /\ task \in [Turns -> Stages] /\ active \in [Turns -> Turns \union {None}]
      /\ queue \in [Turns -> Seq(Turns)] /\ state \in [Turns -> States]
      /\ nodes \subseteq Turns
  BY DEF CInv, TypeOK
<1>3. CASE Ready(t) = {}
  <2>1. /\ active' = [active EXCEPT ![t] = None]
        /\ task' = [task EXCEPT ![i] = "none"]
        /\ state' = state
    BY <1>1, <1>3 DEF Finish, FinishAndClaimNext
  <2> HIDE DEF t
  <2> QED
    BY <1>1, <1>2, <2>1
<1>4. CASE Ready(t) # {}
  <2> DEFINE p == First(Ready(t))
             next == CHOOSE j \in NodeAt(t, queue[t][p]) : state[j] = "pending"
  <2>1. /\ active' = [active EXCEPT ![t] = next]
        /\ state' = [state EXCEPT ![next] = "in_progress"]
        /\ task' = [task EXCEPT ![i] = "none",
                  ![next] = IF IsPublished(t) THEN "chosen" ELSE "none"]
    BY <1>1, <1>4 DEF Finish, FinishAndClaimNext
  <2>2. Ready(t) = 1 .. Len(queue[t])
    BY <1>1, WholeQueueReady
  <2>3. p \in Ready(t)
    <3>1. Ready(t) \in SUBSET Nat
      BY <2>2
    <3> QED
      BY <1>4, <3>1, FirstIsLeast
  <2>4. next \in NodeAt(t, queue[t][p]) /\ state[next] = "pending"
    BY <2>3 DEF Ready
  <2> HIDE DEF next, p, t
  <2>5. next \in nodes /\ next \in Turns /\ next \in statuses
    BY <1>2, <2>4 DEF NodeAt, CInv, ClearedInv
  <2>6. \A j \in Turns : state'[j] = IF j = next THEN "in_progress" ELSE state[j]
    BY <1>2, <2>1
  <2>7. \A j \in Turns : j # next /\ task'[j] # "none" => task[j] # "none"
    BY <1>2, <2>1
  <2>8. \A u \in Turns : active'[u] = active[u] \/ active'[u] = next
    BY <1>2, <2>1
  <2> QED
    BY <2>4, <2>5, <2>6, <2>7, <2>8
<1> QED
  BY <1>3, <1>4

(* A failure changes states to error only.                                 *)
LEMMA FailsMoves ==
  ASSUME NEW i \in Turns, NEW propagate, Fails(i, propagate)
  PROVE  \A j \in Turns : state'[j] = state[j] \/ state'[j] = "error"
<1>1. CASE UNCHANGED <<state, queue>>
  BY <1>1
<1>2. CASE \E S : state' = [j \in Turns |-> IF j \in S THEN "error" ELSE state[j]]
  BY <1>2
<1> QED
  BY <1>1, <1>2 DEF Fails

(* A cancelled claim neither completes nor records a session (the late     *)
(* results complete_claim and record_session refuse).                      *)
THEOREM CancelledStays == Spec => NoRevival
<1> DEFINE Keeps ==
      \A i \in tombstones :
        /\ state[i] = "error" => state'[i] = "error"
        /\ i \in sessions' => i \in sessions
<1>1. CInv /\ [Next]_vars => [Keeps]_vars
  <2> SUFFICES ASSUME CInv, Next PROVE Keeps
    OBVIOUS
  <2>1. tombstones \subseteq Turns /\ state \in [Turns -> States]
    BY DEF CInv, TypeOK
  <2>2. ASSUME NEW i \in Turns, Receive(i) \/ Discard(i) PROVE Keeps
    BY <2>1, <2>2 DEF Receive, Discard
  <2>3. ASSUME NEW i \in Turns, Admit(i) PROVE Keeps
    BY <2>1, <2>3 DEF Admit, EnqueueOrClaim
  <2>4. ASSUME NEW i \in Turns, RecordSession(i) \/ CompleteClaim(i) PROVE Keeps
    <3>1. i \notin tombstones
      BY <2>4, MayWriteOwns DEF RecordSession, CompleteClaim
    <3> QED
      BY <2>1, <2>4, <3>1 DEF RecordSession, CompleteClaim
  <2>5. ASSUME NEW i \in Turns, Start(i) \/ RunnerEnds(i) \/ RunnerStopped(i) PROVE Keeps
    BY <2>5 DEF Start, RunnerEnds, RunnerStopped
  <2>6. ASSUME NEW i \in Turns,
               FailClaim(i, TRUE) \/ FailClaim(i, FALSE) \/ RunnerEscapes(i)
        PROVE  Keeps
    <3>1. \A j \in Turns : state'[j] = state[j] \/ state'[j] = "error"
      BY <2>6, FailsMoves DEF FailClaim, RunnerEscapes
    <3>2. sessions' = sessions
      BY <2>6 DEF FailClaim, RunnerEscapes
    <3> QED
      BY <2>1, <3>1, <3>2
  <2>7. ASSUME NEW i \in Turns, Finish(i) PROVE Keeps
    <3>1. \A j \in Turns : state'[j] # state[j] => state[j] = "pending"
      BY <2>7, FinishMoves
    <3> QED
      BY <2>1, <2>7, <3>1 DEF Finish
  <2>8. ASSUME NEW c \in Commands, BeginAny(c) PROVE Keeps
    BY <2>8 DEF BeginAny, Begin
  <2>9. ASSUME NEW c \in Commands, CommandStep(c) PROVE Keeps
    <3>1. CASE StopReply(c)
      BY <2>1, <3>1 DEF StopReply, FailRunnable
    <3>2. CASE ClearReply(c)
      <4>1. \A j \in Turns : state[j] = "error" => state'[j] = "error"
        BY <3>2 DEF ClearReply, FailRunnable
      <4>2. sessions' \subseteq sessions
        BY <3>2 DEF ClearReply
      <4> QED
        BY <2>1, <4>1, <4>2
    <3>3. CASE CancelAll(c, "stop") \/ CancelAll(c, "clear")
      BY <2>1, <3>3 DEF CancelAll, FailRunnable
    <3>4. CASE EndDrain(c)
      BY <3>4 DEF EndDrain
    <3> QED
      BY <2>9, <3>1, <3>2, <3>3, <3>4 DEF CommandStep
  <2> QED
    BY <2>2, <2>3, <2>4, <2>5, <2>6, <2>7, <2>8, <2>9 DEF Next, OwnStep, TaskStep
<1> QED
  BY <1>1, Invariance, PTL DEF Spec, NoRevival

(* Only a node of a published tree starts to run: a detached tree launches *)
(* no successor.                                                           *)
THEOREM RemovedNeverRuns == Spec => NoRunAfterRemoval
<1> DEFINE Runs ==
      \A i \in Turns : task[i] = "none" /\ task'[i] # "none" =>
        i \in nodes' /\ tree'[i] \in ToSet(published')
<1>1. CInv /\ CInv' /\ [Next]_vars => [Runs]_vars
  <2> SUFFICES ASSUME CInv, CInv', Next,
                      NEW i \in Turns, task[i] = "none", task'[i] # "none"
               PROVE  i \in nodes' /\ tree'[i] \in ToSet(published')
    OBVIOUS
  <2>0. task \in [Turns -> Stages] /\ state \in [Turns -> States]
    BY DEF CInv, TypeOK
  <2>1. SUFFICES state'[i] \in Runnable
    BY DEF CInv, OwnerInv, Published
  <2>2. ASSUME NEW j \in Turns, Receive(j) \/ Discard(j) \/ RecordSession(j) \/ CompleteClaim(j)
        PROVE  FALSE
    BY <2>2 DEF Receive, Discard, RecordSession, CompleteClaim
  <2>3. ASSUME NEW j \in Turns, Admit(j) PROVE state'[i] \in Runnable
    BY <2>0, <2>3 DEF Admit, EnqueueOrClaim, Runnable
  <2>4. ASSUME NEW j \in Turns, NEW from \in Stages \ {"none"}, NEW to, Moves(j, from, to)
        PROVE  FALSE
    BY <2>0, <2>4 DEF Moves
  <2>5. ASSUME NEW j \in Turns, Start(j) \/ RunnerEnds(j) \/ RunnerStopped(j) \/ RunnerEscapes(j)
        PROVE  FALSE
    <3>1. {"created", "chosen", "announcing", "running", "stopping"} \subseteq Stages \ {"none"}
      BY DEF Stages
    <3> QED
      BY <2>4, <2>5, <3>1 DEF Start, RunnerEnds, RunnerStopped, RunnerEscapes
  <2>6. ASSUME NEW j \in Turns, FailClaim(j, TRUE) \/ FailClaim(j, FALSE) PROVE FALSE
    BY <2>6 DEF FailClaim
  <2>7. ASSUME NEW j \in Turns, Finish(j) PROVE state'[i] \in Runnable
    BY <2>7, FinishMoves DEF Runnable
  <2>8. ASSUME NEW c \in Commands, BeginAny(c) PROVE FALSE
    BY <2>8 DEF BeginAny, Begin
  <2>9. ASSUME NEW c \in Commands, CommandStep(c) PROVE FALSE
    <3>1. ASSUME NEW S, task' = [j \in Turns |-> IF j \in S THEN Struck(task[j]) ELSE task[j]]
          PROVE  FALSE
      BY <2>0, <3>1, StruckStage
    <3>2. ASSUME NEW S, CancelClaims(c, S) PROVE FALSE
      BY <3>1, <3>2 DEF CancelClaims
    <3>3. CASE StopReply(c)
      BY <3>2, <3>3 DEF StopReply
    <3>4. CASE ClearReply(c)
      BY <3>2, <3>4 DEF ClearReply
    <3>5. CASE CancelAll(c, "stop") \/ CancelAll(c, "clear")
      BY <3>1, <3>5 DEF CancelAll
    <3>6. CASE EndDrain(c)
      BY <3>6 DEF EndDrain
    <3> QED
      BY <2>9, <3>3, <3>4, <3>5, <3>6 DEF CommandStep
  <2> QED
    BY <2>2, <2>3, <2>5, <2>6, <2>7, <2>8, <2>9 DEF Next, OwnStep, TaskStep
<1> QED
  BY <1>1, Invariance, PTL DEF Spec, NoRunAfterRemoval
-----------------------------------------------------------------------------
(* Nothing survives a stop, unless a process may outlast a drain.          *)

(* While no command drains, every claim of a published tree has a status.  *)
LEMMA Settled ==
  ASSUME CInv, DrainInv, \A c \in Commands : lock = c => command[c].stage # "draining",
         NEW t \in Published, active[t] # None
  PROVE  active[t] \in statuses
  BY DEF DrainInv

(* While the lock is free, every claim of a published tree has a status.   *)
LEMMA IdleSettled ==
  ASSUME CInv, DrainInv, lock = None, NEW t \in Published, active[t] # None
  PROVE  active[t] \in statuses
<1>1. \A c \in Commands : lock # c
  BY TurnsAreNot
<1> QED
  BY <1>1 DEF DrainInv

(* The holder of the lock is the only command at work.                     *)
LEMMA HolderSettled ==
  ASSUME CInv, DrainInv, NEW c \in Commands, command[c].stage = "committing",
         NEW t \in Published, active[t] # None
  PROVE  active[t] \in statuses
<1>1. lock = c
  BY DEF CInv, CommandInv
<1>2. \A d \in Commands : lock = d => command[d].stage # "draining"
  BY <1>1
<1> QED
  BY <1>2, Settled

(* A step that clears no status and claims no node without one.            *)
LEMMA DrainKept ==
  ASSUME DrainInv, Published' \subseteq Published, UNCHANGED workflow,
         \A t \in Published : active'[t] # None /\ active'[t] \notin statuses' =>
           active'[t] = active[t] /\ active[t] \notin statuses
  PROVE  DrainInv'
  BY DEF DrainInv, workflow

(* A claim without a status is being drained: a drain ends with its tasks. *)
LEMMA DrainNext ==
  ASSUME ~SlowStops, CInv, CInv', DrainInv, Next
  PROVE  DrainInv'
<1>0. Published \subseteq Turns
  BY PublishedEntries DEF CInv
<1> DEFINE Same == /\ UNCHANGED <<graph, active, workflow>>
<1>1. Same => DrainInv'
  <2> SUFFICES ASSUME Same PROVE DrainInv'
    OBVIOUS
  <2>1. Published' = Published
    BY DEF graph, Published
  <2> QED
    BY <2>1, DrainKept DEF graph
<1>2. ASSUME NEW i \in Turns, Receive(i) \/ Discard(i) \/ RecordSession(i) PROVE DrainInv'
  <2>1. Same
    BY <1>2 DEF Receive, Discard, RecordSession
  <2> QED
    BY <1>1, <2>1
<1>3. ASSUME NEW i \in Turns, Admit(i) PROVE DrainInv'
  <2>1. lock = None /\ statuses' = statuses \union {i} /\ TreeFor(i) \in Turns
    BY <1>3, AdmittedTree DEF Admit, AddNode
  <2>2. active \in [Turns -> Turns \union {None}]
    BY DEF CInv, TypeOK
  <2>3. \A t \in Turns : active'[t] = active[t] \/ active'[t] = i
    BY <1>3, <2>1, <2>2 DEF Admit, EnqueueOrClaim
  <2>4. ASSUME NEW t \in Published', active'[t] # None PROVE active'[t] \in statuses'
    <3>1. t \in Turns
      BY PublishedEntries DEF CInv, TypeOK, Published, ToSet
    <3>2. CASE active'[t] = i
      BY <2>1, <3>2
    <3>3. CASE active'[t] = active[t]
      <4>1. active[t] \in statuses
        <5>1. CASE t \in Published
          BY <2>1, <2>4, <3>3, <5>1, IdleSettled
        <5>2. CASE t \notin Published
          <6>1. active'[t] \in Turns /\ tree'[active'[t]] = t
            BY <2>4, <3>1 DEF CInv, TypeOK, OwnerInv
          <6>2. t = i
            <7>1. Published' \subseteq Published \union {i}
              <8>1. published \in Seq(Turns)
                BY DEF CInv, TypeOK
              <8>2. published' = published \/ published' = Append(published, i)
                BY <1>3 DEF Admit, RegisterReferences
              <8> QED
                BY <8>1, <8>2 DEF Published, ToSet
            <7> QED
              BY <5>2, <7>1
          <6>3. active[i] = None
            <7>1. \A j \in Turns : tree[j] # i
              BY <1>3, AdmittedTree, TurnsAreNot DEF CInv, NamesInv, Admit, Outside
            <7> QED
              BY <2>2, <7>1 DEF CInv, OwnerInv
          <6> QED
            BY <2>4, <3>3, <6>2, <6>3
        <5> QED
          BY <5>1, <5>2
      <4> QED
        BY <2>1, <3>3, <4>1
    <3> QED
      BY <2>3, <3>1, <3>2, <3>3
  <2> QED
    BY <2>4 DEF DrainInv
<1>4. ASSUME NEW c \in Commands, BeginAny(c) PROVE DrainInv'
  <2>1. lock = None /\ UNCHANGED <<graph, active>>
    BY <1>4 DEF BeginAny, Begin
  <2>2. Published' = Published /\ statuses' = statuses /\ active' = active
    BY <2>1 DEF graph, Published
  <2> QED
    BY <2>1, <2>2, IdleSettled DEF DrainInv
<1>5. ASSUME NEW i \in Turns, TaskStep(i) PROVE DrainInv'
  <2>1. CASE Finish(i)
    <3>1. UNCHANGED <<graph, workflow>>
      BY <2>1 DEF Finish
    <3>2. \A u \in Turns : active'[u] # active[u] => active'[u] = None \/ active'[u] \in statuses
      BY <2>1, FinishMoves
    <3>3. Published' = Published /\ statuses' = statuses
      BY <3>1 DEF graph, Published
    <3> QED
      BY <1>0, <3>1, <3>2, <3>3, DrainKept
  <2>2. CASE ~Finish(i)
    <3>1. Same
      BY <1>5, <2>2 DEF TaskStep, Start, CompleteClaim, FailClaim, RunnerEnds, RunnerEscapes,
                        RunnerStopped
    <3> QED
      BY <1>1, <3>1
  <2> QED
    BY <2>1, <2>2
<1>6. ASSUME NEW c \in Commands, StopReply(c) PROVE DrainInv'
  <2>1. command[c].stage = "committing" /\ UNCHANGED <<graph, active>>
    BY <1>6 DEF StopReply, Commits
  <2>2. Published' = Published /\ statuses' = statuses /\ active' = active
    BY <2>1 DEF graph, Published
  <2> QED
    BY <2>1, <2>2, HolderSettled DEF DrainInv
<1>7. ASSUME NEW c \in Commands, CancelAll(c, "stop") \/ CancelAll(c, "clear") PROVE DrainInv'
  <2>1. command[c].stage = "committing" /\ UNCHANGED <<statuses, active>>
    BY <1>7 DEF CancelAll, Commits
  <2>2. Published' \subseteq Published
    <3>1. \/ published' = SubSeq(published, Handled + 1, Len(published))
          \/ published' = published
      BY <1>7 DEF CancelAll
    <3>2. Handled \in 0 .. Len(published) /\ published \in Seq(Turns)
      BY HandledTrees DEF CInv, TypeOK
    <3>3. CASE published' = SubSeq(published, Handled + 1, Len(published))
      <4>1. /\ published' \in Seq(Turns) /\ Len(published') = Len(published) - Handled
            /\ \A p \in 1 .. Len(published) - Handled : published'[p] = published[Handled + p]
        BY <3>2, <3>3, SuffixEntries
      <4>2. DOMAIN published' = 1 .. Len(published')
        BY <4>1
      <4>3. \A t : t \in Published' <=> \E p \in 1 .. Len(published') : published'[p] = t
        BY <4>2 DEF Published, ToSet
      <4>4. \A t : t \in Published <=> \E p \in 1 .. Len(published) : published[p] = t
        BY PublishedEntries DEF CInv
      <4>5. Len(published) \in Nat
        BY <3>2
      <4>6. ASSUME NEW p \in 1 .. Len(published')
            PROVE  Handled + p \in 1 .. Len(published) /\ published'[p] = published[Handled + p]
        BY <3>2, <4>1, <4>5
      <4> QED
        BY <4>3, <4>4, <4>6
    <3>4. CASE published' = published
      BY <3>4 DEF Published
    <3> QED
      BY <3>1, <3>3, <3>4
  <2> QED
    BY <2>1, <2>2, HolderSettled DEF DrainInv
<1>8. ASSUME NEW c \in Commands, ClearReply(c) PROVE DrainInv'
  <2> DEFINE r == command[c].target
             t == index[r]
             affected == Affected(r, Gone(c))
             ms == {message[i] : i \in affected}
             C == ClaimOn(t, ms)
  <2>1. /\ command[c].stage = "committing" /\ active' = active
        /\ t \in Turns /\ affected \subseteq NodesOf(t)
    BY <1>8, CutFacts DEF ClearReply, Commits, Affected
  <2>2. CASE LacksTarget(t, ms)
    <3>1. statuses' = statuses /\ published' = published
      BY <1>8, <2>2 DEF ClearReply, Gone, Cut
    <3>2. Published' = Published
      BY <3>1 DEF Published
    <3> QED
      BY <2>1, <3>1, <3>2, HolderSettled DEF DrainInv
  <2>3. CASE ~LacksTarget(t, ms)
    <3>1. /\ CancelClaims(c, C) /\ Drains(c)
          /\ statuses' = statuses \ affected
          /\ \/ published' = Remaining(published, {t})
             \/ published' = published
      BY <1>8, <2>3 DEF ClearReply, Gone, Cut
    <3>2. C = {i \in Turns : active[t] = i /\ message[i] \in ms}
      BY DEF ClaimOn
    <3>3. \A i \in affected : message[i] \in ms
      OBVIOUS
    <3> HIDE DEF r, t, affected, ms, C
    <3>4. lock' = c /\ command'[c].stage = "draining" /\ draining'[c] = C \intersect Live
      BY <2>1, <3>1 DEF CInv, CommandInv, TypeOK, Drains, CancelClaims
    <3>5. Published' \subseteq Published
      <4>1. published \in Seq(Turns)
        BY DEF CInv, TypeOK
      <4>2. CASE published' = Remaining(published, {t})
        <5> DEFINE s == Remaining(published, {t})
        <5>1. /\ s \in Seq(Turns)
              /\ \A p \in 1 .. Len(s) :
                   s[p] \notin {t} /\ \E k \in 1 .. Len(published) : published[k] = s[p]
          BY <4>1, RemainingKeeps
        <5> HIDE DEF s
        <5>2. DOMAIN s = 1 .. Len(s) /\ published' = s
          BY <4>2, <5>1 DEF s
        <5>3. \A u : u \in Published' <=> \E p \in 1 .. Len(s) : s[p] = u
          BY <5>2 DEF Published, ToSet
        <5>4. \A u : u \in Published <=> \E p \in 1 .. Len(published) : published[p] = u
          BY PublishedEntries DEF CInv
        <5> QED
          BY <5>1, <5>3, <5>4
      <4>3. CASE published' = published
        BY <4>3 DEF Published
      <4> QED
        BY <3>1, <4>2, <4>3
    <3>6. ASSUME NEW u \in Published', active'[u] # None, active'[u] \notin statuses'
          PROVE  active[u] \in C \intersect Live
      <4>1. u \in Published /\ u \in Turns
        BY <1>0, <3>5
      <4>2. active[u] \in statuses
        BY <2>1, <3>6, <4>1, HolderSettled
      <4>3. active[u] \in affected
        BY <2>1, <3>1, <3>6, <4>2
      <4>4. active[u] \in Turns /\ task[active[u]] # "none" /\ tree[active[u]] = u
        BY <2>1, <3>6, <4>1 DEF CInv, OwnerInv, TypeOK
      <4>5. u = t
        BY <2>1, <4>3, <4>4 DEF NodesOf
      <4> QED
        BY <3>2, <3>3, <4>3, <4>4, <4>5 DEF Live
    <3> QED
      BY <2>1, <3>4, <3>6 DEF DrainInv
  <2> QED
    BY <2>2, <2>3
<1>9. ASSUME NEW c \in Commands, EndDrain(c) PROVE DrainInv'
  <2>1. /\ command[c].stage = "draining"
        /\ \A i \in draining[c] : task[i] = "none"
        /\ UNCHANGED <<graph, active>>
    BY <1>9 DEF EndDrain
  <2>2. Published' = Published /\ statuses' = statuses /\ active' = active
    BY <2>1 DEF graph, Published
  <2>3. ASSUME NEW t \in Published, active[t] # None PROVE active[t] \in statuses
    <3> SUFFICES ASSUME active[t] \notin statuses PROVE FALSE
      OBVIOUS
    <3>1. PICK d \in Commands :
             lock = d /\ command[d].stage = "draining" /\ active[t] \in draining[d]
      BY <2>3 DEF DrainInv
    <3>2. d = c
      BY <2>1, <3>1 DEF CInv, CommandInv
    <3>3. task[active[t]] # "none"
      BY <1>0, <2>3 DEF CInv, OwnerInv
    <3> QED
      BY <2>1, <3>1, <3>2, <3>3
  <2> QED
    BY <2>2, <2>3 DEF DrainInv
<1> QED
  BY <1>2, <1>3, <1>4, <1>5, <1>6, <1>7, <1>8, <1>9 DEF Next, OwnStep, CommandStep

(* The turns a stop of the chat has overtaken that are still at work.      *)
Survives(i) == state[i] \in Runnable /\ token[i] # generation

(* A step after which no more turns are overtaken.                         *)
LEMMA Quiet ==
  ASSUME NothingSurvivesStop, UNCHANGED <<command>>,
         \A i \in Turns : Survives(i)' => Survives(i)
  PROVE  NothingSurvivesStop'
  BY DEF NothingSurvivesStop, Survives

(* A step that starts no turn.                                             *)
LEMMA NothingStarts ==
  ASSUME NothingSurvivesStop, UNCHANGED <<command, token, generation>>,
         \A i \in Turns : state'[i] \in Runnable => state[i] \in Runnable
  PROVE  NothingSurvivesStop'
  BY Quiet DEF Survives

(* While another command is at work, no stop of the chat is.               *)
LEMMA NoStopAtWork ==
  ASSUME CInv, NothingSurvivesStop,
         \A d \in Commands : ~(command[d].stage = "committing" /\ command[d].target = None),
         UNCHANGED <<token, generation>>,
         \A i \in Turns : state'[i] \in Runnable => state[i] \in Runnable
  PROVE  NothingSurvivesStop'
  BY DEF NothingSurvivesStop

(* No step leaves a turn at work that a stop has overtaken: when a command *)
(* stops all trees no claim blocks it, since no drain is open.             *)
LEMMA StopNext ==
  ASSUME ~SlowStops, CInv, CInv', DrainInv, NothingSurvivesStop, Next
  PROVE  NothingSurvivesStop'
<1>0. state \in [Turns -> States] /\ token \in [Turns -> Nat]
  BY DEF CInv, TypeOK
<1>1. ASSUME NEW i \in Turns, Receive(i) PROVE NothingSurvivesStop'
  <2>1. /\ UNCHANGED <<command, generation>>
        /\ \A j \in Turns \ {i} : state'[j] = state[j] /\ token'[j] = token[j]
        /\ state'[i] = "received"
    BY <1>0, <1>1 DEF Receive, workflow
  <2> QED
    BY <2>1, Quiet DEF Survives, Runnable
<1>2. ASSUME NEW i \in Turns, Discard(i) PROVE NothingSurvivesStop'
  <2>1. /\ UNCHANGED <<command, token, generation>>
        /\ \A j \in Turns : state'[j] \in Runnable => state[j] \in Runnable
    BY <1>0, <1>2 DEF Discard, workflow, intake, Runnable
  <2> QED
    BY <2>1, NothingStarts
<1>3. ASSUME NEW i \in Turns, Admit(i) PROVE NothingSurvivesStop'
  <2>1. /\ UNCHANGED <<command, token, generation>> /\ token[i] = generation
    BY <1>3 DEF Admit, IsCurrent, workflow, intake
  <2>2. \A j \in Turns \ {i} : state'[j] = state[j]
    BY <1>0, <1>3 DEF Admit, EnqueueOrClaim
  <2> QED
    BY <2>1, <2>2, Quiet DEF Survives
<1>4. ASSUME NEW i \in Turns, RecordSession(i) PROVE NothingSurvivesStop'
  <2>1. UNCHANGED <<command, token, generation, state>>
    BY <1>4 DEF RecordSession, workflow, intake
  <2> QED
    BY <2>1, NothingStarts
<1>5. ASSUME NEW c \in Commands, BeginAny(c) PROVE NothingSurvivesStop'
  <2>1. PICK op \in {"stop", "clear", "stop_reply", "clear_reply"},
             target \in References \union {None} : Begin(c, op, target)
    BY <1>5 DEF BeginAny
  <2>2. /\ lock = None /\ UNCHANGED <<token, state>>
        /\ command' = [command EXCEPT ![c] =
              [stage |-> "committing", op |-> op, target |-> target]]
        /\ generation' = IF target = None THEN generation + 1 ELSE generation
    BY <2>1 DEF Begin
  <2>3. \A d \in Commands : command[d].stage # "committing"
    BY <2>2, TurnsAreNot DEF CInv, CommandInv
  <2>4. CASE target = None
    <3>1. command'[c].stage = "committing" /\ command'[c].target = None
      BY <2>2, <2>4 DEF CInv, TypeOK
    <3> QED
      BY <3>1 DEF NothingSurvivesStop
  <2>5. CASE target # None
    BY <2>2, <2>3, <2>5, NoStopAtWork
  <2> QED
    BY <2>4, <2>5
<1>6. ASSUME NEW i \in Turns, TaskStep(i) PROVE NothingSurvivesStop'
  <2>1. UNCHANGED <<command, token, generation>>
    BY <1>6 DEF TaskStep, Start, CompleteClaim, FailClaim, RunnerEnds, RunnerEscapes,
                RunnerStopped, Finish, workflow, intake
  <2>2. ASSUME NEW j \in Turns, state'[j] \in Runnable PROVE state[j] \in Runnable
    <3>1. CASE Start(i) \/ RunnerEnds(i) \/ RunnerStopped(i)
      BY <2>2, <3>1 DEF Start, RunnerEnds, RunnerStopped
    <3>2. CASE CompleteClaim(i)
      BY <1>0, <2>2, <3>2 DEF CompleteClaim, Runnable
    <3>3. CASE FailClaim(i, TRUE) \/ FailClaim(i, FALSE) \/ RunnerEscapes(i)
      <4>1. state'[j] = state[j] \/ state'[j] = "error"
        BY <3>3, FailsMoves DEF FailClaim, RunnerEscapes
      <4> QED
        BY <2>2, <4>1 DEF Runnable
    <3>4. CASE Finish(i)
      BY <2>2, <3>4, FinishMoves DEF Runnable
    <3> QED
      BY <1>6, <3>1, <3>2, <3>3, <3>4 DEF TaskStep
  <2> QED
    BY <2>1, <2>2, NothingStarts
<1>7. ASSUME NEW c \in Commands, StopReply(c) \/ ClearReply(c) PROVE NothingSurvivesStop'
  <2>1. command[c].stage = "committing" /\ command[c].op \in {"stop_reply", "clear_reply"}
    BY <1>7 DEF StopReply, ClearReply, Commits
  <2>2. command[c].target # None
    BY <2>1, TurnsAreNot DEF CInv, CommandInv
  <2>3. \A d \in Commands : ~(command[d].stage = "committing" /\ command[d].target = None)
    BY <2>1, <2>2 DEF CInv, CommandInv
  <2>4. UNCHANGED <<token, generation>>
    <3>1. CASE StopReply(c)
      BY <3>1 DEF StopReply, intake
    <3>2. CASE ClearReply(c)
      BY <3>2 DEF ClearReply, intake
    <3> QED
      BY <1>7, <3>1, <3>2
  <2>5. \A i \in Turns : state'[i] \in Runnable => state[i] \in Runnable
    <3>1. CASE StopReply(c)
      BY <3>1 DEF StopReply, FailRunnable, Runnable
    <3>2. CASE ClearReply(c)
      BY <3>2 DEF ClearReply, FailRunnable, Runnable
    <3> QED
      BY <1>7, <3>1, <3>2
  <2> QED
    BY <2>3, <2>4, <2>5, NoStopAtWork
<1>8. ASSUME NEW c \in Commands, CancelAll(c, "stop") \/ CancelAll(c, "clear")
      PROVE  NothingSurvivesStop'
  <2>1. command[c].stage = "committing"
    BY <1>8 DEF CancelAll, Commits
  <2>2. Blocked = {}
    <3> SUFFICES ASSUME NEW p \in DOMAIN published, LacksTarget(published[p], Turns)
                 PROVE  FALSE
      BY DEF Blocked
    <3> DEFINE t == published[p]
    <3>1. t \in Published /\ t \in Turns
      BY DEF Published, ToSet, CInv, TypeOK
    <3>2. PICK i \in ClaimOn(t, Turns) : \E j \in NodeAt(t, message[i]) :
             state[j] = "error" /\ j \notin statuses
      BY DEF LacksTarget
    <3>3. PICK j \in NodeAt(t, message[i]) : state[j] = "error" /\ j \notin statuses
      BY <3>2
    <3>4. i \in Turns /\ active[t] = i /\ active[t] # None
      BY <3>2, TurnsAreNot DEF ClaimOn
    <3>5. i \in statuses
      BY <2>1, <3>1, <3>4, HolderSettled
    <3>6. i \in nodes /\ tree[i] = t
      BY <3>1, <3>4, <3>5 DEF CInv, OwnerInv, TypeOK
    <3>7. j = i
      BY <3>3, <3>6 DEF NodeAt, CInv, GraphInv
    <3> QED
      BY <3>3, <3>5, <3>7
  <2>3. Done = Published
    BY <2>2, HandledTrees DEF CInv
  <2>4. state' = [i \in Turns |->
              IF i \in {k \in nodes : tree[k] \in Done} /\ state[i] \in Runnable
              THEN "error" ELSE state[i]]
    BY <1>8 DEF CancelAll, FailRunnable, Done
  <2>5. \A i \in Turns : state[i] \in Runnable => i \in nodes /\ tree[i] \in Done
    BY <2>3 DEF CInv, OwnerInv
  <2>6. \A i \in Turns : state'[i] \notin Runnable
    BY <2>4, <2>5 DEF Runnable
  <2> QED
    BY <2>6 DEF NothingSurvivesStop
<1>9. ASSUME NEW c \in Commands, EndDrain(c) PROVE NothingSurvivesStop'
  <2>1. command[c].stage = "draining" /\ UNCHANGED <<token, generation, state>>
    BY <1>9 DEF EndDrain, intake
  <2>2. \A d \in Commands : command[d].stage # "committing"
    BY <2>1 DEF CInv, CommandInv
  <2> QED
    BY <2>1, <2>2, NoStopAtWork
<1> QED
  BY <1>1, <1>2, <1>3, <1>4, <1>5, <1>6, <1>7, <1>8, <1>9 DEF Next, OwnStep, CommandStep

(* What was received before a /stop or /clear of the chat neither waits    *)
(* nor runs once it is through, if a drain waits for every process it      *)
(* cancelled (workflow.py, the drain under the state lock).  With          *)
(* processes that may outlast a drain this is false, as a run of the       *)
(* checker shows.                                                          *)
THEOREM StopsAreFinal == ASSUME ~SlowStops PROVE Spec => []NothingSurvivesStop
<1>1. Init => DrainInv /\ NothingSurvivesStop
  BY DEF Init, DrainInv, NothingSurvivesStop, Published, ToSet, Runnable
<1>2. /\ CInv /\ CInv' /\ DrainInv /\ NothingSurvivesStop /\ [Next]_vars
      => DrainInv' /\ NothingSurvivesStop'
  <2>1. ASSUME CInv, CInv', DrainInv, NothingSurvivesStop, Next
        PROVE  DrainInv' /\ NothingSurvivesStop'
    BY <2>1, DrainNext, StopNext
  <2>2. ASSUME DrainInv, NothingSurvivesStop, UNCHANGED vars
        PROVE  DrainInv' /\ NothingSurvivesStop'
    BY <2>2 DEF vars, DrainInv, NothingSurvivesStop, Published
  <2> QED
    BY <2>1, <2>2
<1> QED
  BY <1>1, <1>2, Invariance, PTL DEF Spec
=============================================================================
