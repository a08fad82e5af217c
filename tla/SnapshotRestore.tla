--------------------------- MODULE SnapshotRestore ---------------------------
(***************************************************************************)
(* The conversations of a session file after a restart                     *)
(* (messaging/trees/snapshot.py, graph.py, repository.py): the file may be *)
(* of an earlier version, or be edited; what is not a tree of one chat is  *)
(* skipped, what was running becomes an error with a message to repair,    *)
(* and what was restored is saved in the present format.                   *)
(*                                                                         *)
(* One chat.  A message id is a number and 0 none.  An entry that cannot   *)
(* be read at all (a wrong type, an unknown state, a key that is not its   *)
(* node's id, another chat) is "unreadable".                               *)
(***************************************************************************)
EXTENDS Naturals, Sequences, FiniteSets, SequencesExt

CONSTANTS Root,        \* id of the root of a tree
          Inner,       \* ids of its other nodes
          StatusIds,   \* ids of status messages, also those of other messages
          OtherRoot    \* id of the root of a second tree

ASSUME RestoreAssumption ==
    0 \notin Inner \union StatusIds \union {Root, OtherRoot}
    /\ {Root, OtherRoot} \intersect Inner = {}

VARIABLES file,        \* the trees of the file, in order
          live,        \* the trees of the repository
          index,       \* its references: message id and root of the tree
          targets,     \* the status messages to repair
          restarts

restoreVars == <<file, live, index, targets, restarts>>

Entry(status, open, parent, reference) ==
    [read |-> TRUE, status |-> status, open |-> open, parent |-> parent, reference |-> reference]
Unreadable == [Entry(0, FALSE, 0, 0) EXCEPT !.read = FALSE]

StoredTree(root, entries) == [root |-> root, nodes |-> entries]

RestoreInit == file = <<>> /\ live = {} /\ index = {} /\ targets = {} /\ restarts = 0

RootEntries ==
    {Entry(s, o, p, 0) : s \in StatusIds \union {0}, o \in BOOLEAN, p \in {0} \union Inner}
InnerEntries == {Entry(s, FALSE, p, r) : s \in StatusIds \union {0},
    p \in Inner \union {0, Root}, r \in Inner \union StatusIds \union {0, Root}}
Others == {<<>>} \union {<<StoredTree(OtherRoot, [n \in {OtherRoot} |-> Entry(s, TRUE, 0, 0)])>> :
    s \in Inner}

(* A file with one tree of any shape, and a small one before or after it.  *)
LoadFile ==
    /\ restarts = 0 /\ restarts' = 1
    /\ \E keys \in SUBSET Inner :
       \E top \in RootEntries \union {Unreadable},
          rest \in [keys -> InnerEntries \union {Unreadable}], other \in Others,
          first \in BOOLEAN :
         LET tree == <<StoredTree(Root,
                        [n \in keys \union {Root} |-> IF n = Root THEN top ELSE rest[n]])>>
         IN file' = IF first THEN tree \o other ELSE other \o tree
    /\ UNCHANGED <<live, index, targets>>

-----------------------------------------------------------------------------
(* MessageTreeGraph.from_snapshot.                                         *)
NodesIn(t) == DOMAIN t.nodes
StatusOf(t, n) == {t.nodes[n].status} \ {0}
ReferencesIn(t) == NodesIn(t) \union UNION {StatusOf(t, n) : n \in NodesIn(t)}

(* What is answered: a file of an earlier version names the parent only.   *)
AnsweredBy(e) == IF e.reference = 0 THEN e.parent ELSE e.reference

(* node_from_snapshot: a node that may still run has a status message.     *)
Readable(t) ==
    \A n \in NodesIn(t) : t.nodes[n].read /\ (t.nodes[n].open => t.nodes[n].status # 0)

(* A fault, for the checks only: the prompts are not compared.             *)
StatusesDiffer(t) ==
    \A n, m \in NodesIn(t) : n # m => StatusOf(t, n) \intersect StatusOf(t, m) = {}

(* Every reference has one owner.                                          *)
ReferencesDiffer(t) ==
    /\ \A n \in NodesIn(t) : n \notin StatusOf(t, n)
    /\ \A n, m \in NodesIn(t) : n # m =>
          ({n} \union StatusOf(t, n)) \intersect ({m} \union StatusOf(t, m)) = {}

(* resolve_reference: the prompt, else the node of the status.             *)
OwnerOf(t, r) ==
    IF r \in NodesIn(t) THEN r ELSE CHOOSE n \in NodesIn(t) : r \in StatusOf(t, n)

ParentsAnswered(t) ==
    /\ t.nodes[t.root].parent = 0 /\ t.nodes[t.root].reference = 0
    /\ \A n \in NodesIn(t) \ {t.root} :
         LET e == t.nodes[n] IN
         /\ e.parent \in NodesIn(t)
         /\ AnsweredBy(e) \in ReferencesIn(t) /\ OwnerOf(t, AnsweredBy(e)) = e.parent

(* A fault, for the checks only: the branches are not looked at.           *)
AnyBranches(t) == TRUE

(* get_descendants of the root: every node is one.                         *)
Connected(t) ==
    LET Children(S) == S \union {n \in NodesIn(t) : t.nodes[n].parent \in S}
        reached[k \in 0 .. Cardinality(NodesIn(t))] ==
            IF k = 0 THEN {t.root} ELSE Children(reached[k - 1])
    IN reached[Cardinality(NodesIn(t))] = NodesIn(t)

Accepted(t) == Readable(t) /\ ReferencesDiffer(t) /\ ParentsAnswered(t) /\ Connected(t)

(* MessageTree.from_snapshot: what was running is an error now, and a node *)
(* names what it answers.                                                  *)
SettledTree(t) ==
    StoredTree(t.root, [n \in NodesIn(t) |->
        [t.nodes[n] EXCEPT !.open = FALSE, !.reference = AnsweredBy(t.nodes[n])]])

OpenTargets(t) == {t.nodes[n].status : n \in {m \in NodesIn(t) : t.nodes[m].open}}

(* A fault, for the checks only: any tree with a new root is taken.        *)
RootIsNew(t, kept) == \A k \in kept : k.root # t.root

(* TreeRepository.from_snapshot: a tree that shares a message with one     *)
(* before it is skipped.                                                   *)
NoOverlap(t, kept) == \A k \in kept : ReferencesIn(k) \intersect ReferencesIn(t) = {}

RestoreFile ==
    /\ file # <<>> /\ restarts \in {1, 3} /\ restarts' = restarts + 1
    /\ LET Take(r, t) ==
             IF Accepted(t) /\ NoOverlap(t, r.kept)
             THEN [kept |-> r.kept \union {SettledTree(t)},
                   stale |-> r.stale \union OpenTargets(t)]
             ELSE r
           result == FoldLeft(Take, [kept |-> {}, stale |-> {}], file)
       IN /\ live' = result.kept /\ targets' = result.stale
          /\ index' = UNION {ReferencesIn(t) \X {t.root} : t \in result.kept}
    /\ UNCHANGED file

(* The restored trees are saved, and the process starts once more.         *)
SaveRestored ==
    /\ restarts = 2 /\ restarts' = 3
    /\ file' = SetToSeq(live)
    /\ UNCHANGED <<live, index, targets>>

RestoreNext == LoadFile \/ RestoreFile \/ SaveRestored

RestoreSpec == RestoreInit /\ [][RestoreNext]_restoreVars

-----------------------------------------------------------------------------
RestoreTypeOK ==
    /\ Len(file) <= 2 /\ live \subseteq {SettledTree(t) : t \in live}
    /\ targets \subseteq StatusIds \union Inner
    /\ index \subseteq (Inner \union StatusIds \union {Root, OtherRoot}) \X {Root, OtherRoot}
    /\ restarts \in 0..4

(* A tree of one chat: its messages are all different, the root answers    *)
(* nothing, every other node answers a message of its parent, and from     *)
(* every node the parents lead to the root.                                *)
Climbs(t, n) ==
    LET up[k \in 0 .. Cardinality(NodesIn(t))] ==
            IF k = 0 THEN n
            ELSE IF up[k - 1] \in NodesIn(t) THEN t.nodes[up[k - 1]].parent ELSE 0
    IN \E k \in DOMAIN up : up[k] = t.root

OneTree(t) ==
    /\ \A n \in NodesIn(t) : t.nodes[n].read
    /\ Cardinality(ReferencesIn(t)) =
          Cardinality(NodesIn(t)) + Cardinality({n \in NodesIn(t) : t.nodes[n].status # 0})
    /\ t.nodes[t.root].parent = 0
    /\ \A n \in NodesIn(t) \ {t.root} :
          /\ Climbs(t, n)
          /\ AnsweredBy(t.nodes[n]) \in
                {t.nodes[n].parent} \union StatusOf(t, t.nodes[n].parent)

(* What is restored is what can go on: trees, each message of one of them  *)
(* only, so that a reply finds its node.                                   *)
OnlyTreesLive ==
    /\ \A t \in live : OneTree(t) /\ ReferencesIn(t) \X {t.root} \subseteq index
    /\ \A i, j \in index : i[1] = j[1] => i = j

(* A tree of the file is skipped only for a reason.                        *)
NoTreeDropped ==
    restarts = 2 => \A k \in DOMAIN file :
        OneTree(file[k]) /\ (\A n \in NodesIn(file[k]) :
                                file[k].nodes[n].open => file[k].nodes[n].status # 0)
        => \E t \in live : ReferencesIn(t) \intersect ReferencesIn(file[k]) # {}

(* Nothing is running after the restart; each message of what was is       *)
(* repaired, and one more restart changes nothing and repairs nothing.     *)
NothingStaysOpen ==
    /\ \A t \in live : \A n \in NodesIn(t) : ~t.nodes[n].open
    /\ restarts = 2 => \A k \in DOMAIN file :
          SettledTree(file[k]) \in live => OpenTargets(file[k]) \subseteq targets
    /\ restarts = 4 => targets = {} /\ live = {file[k] : k \in DOMAIN file}

RestoreExact == OnlyTreesLive /\ NoTreeDropped /\ NothingStaysOpen
=============================================================================
