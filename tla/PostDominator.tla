--------------------------- MODULE PostDominator ---------------------------
(***************************************************************************)
(* PreparePostDominator (tools/PrintBug/PrintBug.cpp): for each basic      *)
(* block of the graph, the blocks that every path from it runs through,    *)
(* computed as a greatest fixpoint that starts from the reachable blocks.  *)
(* Blocks without a successor are not in the file; they are added to the   *)
(* map by the search that reaches them first.                              *)
(***************************************************************************)
EXTENDS Integers, FiniteSets, SequencesExt

VARIABLES
    successor,        \* block -> the set of its successors, as in the file
    post_dominator,   \* block -> its post dominators
    changed           \* the last sweep changed one of them

dominatorVars == <<successor, post_dominator, changed>>

BasicBlocks == DOMAIN successor \cup UNION {successor[i] : i \in DOMAIN successor}
Successors(i) == IF i \in DOMAIN successor THEN successor[i] ELSE {}

(* The search from mark, one step further. *)
Further(graph, mark, avoid) ==
    mark \cup ((UNION {graph[i] : i \in mark \cap DOMAIN graph}) \ avoid)

(* The nodes of a graph that are reached from mark, those of mark          *)
(* included, through nodes that are not in avoid: no shortest path goes on *)
(* from a node twice.                                                      *)
Reach(graph, mark, avoid) ==
    LET steps == Cardinality(DOMAIN graph)
        reached[k \in 0 .. steps] ==
            IF k = 0 THEN mark ELSE Further(graph, reached[k - 1], avoid)
    IN  reached[steps]

DFSOnBBGraph(i) == Reach(successor, {i}, {})

(* A block without a successor gets a set of its own only if the loop over *)
(* the map has not gone past its number when it is added.                  *)
Reached ==
    [i \in BasicBlocks |->
        IF \/ i \in DOMAIN successor
           \/ \E j \in DOMAIN successor : j < i /\ i \in DFSOnBBGraph(j)
        THEN DFSOnBBGraph(i) ELSE {}]

(* Mutation of Intersected: the successor itself is not added to its set. *)
IntersectedOnly(pd, res, i) == {x \in res : \A j \in Successors(i) : x \in pd[j]}

Intersected(pd, res, i) == {x \in res : \A j \in Successors(i) : x = j \/ x \in pd[j]}

(* One block of a sweep.  For a block without a successor res is what the  *)
(* block before it left there.                                             *)
SweepBlock(m, i) ==
    LET res == Intersected(m.pd, IF Successors(i) # {} THEN m.pd[i] ELSE m.res, i)
        differs == Cardinality(res) # Cardinality(m.pd[i]) IN
    [pd |-> IF differs THEN [m.pd EXCEPT ![i] = res] ELSE m.pd,
     res |-> res, changed |-> m.changed \/ differs]

Prepare(graph) ==
    /\ successor = graph /\ post_dominator = <<>> /\ changed = TRUE

StartSweeps ==
    /\ post_dominator = <<>> /\ BasicBlocks # {} /\ post_dominator' = Reached
    /\ UNCHANGED <<successor, changed>>

Sweep ==
    /\ DOMAIN post_dominator = BasicBlocks /\ changed
    /\ LET last == Max(BasicBlocks \cup {0})
           after[k \in 0 .. last + 1] ==
               IF k = 0 THEN [pd |-> post_dominator, res |-> {}, changed |-> FALSE]
               ELSE IF k - 1 \in BasicBlocks THEN SweepBlock(after[k - 1], k - 1) ELSE after[k - 1]
           m == after[last + 1]
       IN  post_dominator' = m.pd /\ changed' = m.changed
    /\ UNCHANGED successor

-----------------------------------------------------------------------------
(* Properties of the result *)

(* The blocks j that i cannot get round for ever: wherever a path from i   *)
(* that has not met j may be, it can still meet j.                         *)
Unavoidable(i) ==
    {j \in BasicBlocks : \A n \in Reach(successor, Successors(i) \ {j}, {j}) : j \in DFSOnBBGraph(n)}

(* Every block is numbered after the ones that lead to it, if it is an     *)
(* exit of its function.                                                   *)
ExitsLast ==
    \A i \in BasicBlocks, j \in DOMAIN successor :
        (i \notin DOMAIN successor /\ i \in successor[j]) => j < i

(* No path can get round a post dominator, whatever the graph: those that  *)
(* no path avoids are never lost, and the result has no other, although an *)
(* exit is given the set of another block, unless an exit is numbered      *)
(* before a block that leads to it.                                        *)
PostDominatorsMatch ==
    ~changed => \A i \in DOMAIN successor :
        /\ Unavoidable(i) \subseteq post_dominator[i]
        /\ ExitsLast => post_dominator[i] \subseteq Unavoidable(i)
=============================================================================
