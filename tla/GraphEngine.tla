----------------------------- MODULE GraphEngine -----------------------------
(***************************************************************************)
(* The graph engine of pkg/graph/engine.go: GraphEngine.Execute walks a    *)
(* graph from its start node, one node and one edge at a time, allows an   *)
(* edge back to a node of the current path only as often as the edge says, *)
(* and cuts the path back to that node when it does.                       *)
(*                                                                         *)
(* What nodes compute is abstracted to which predicates hold of it: a      *)
(* guarded edge may match or not, each time it is tried.                   *)
(***************************************************************************)
EXTENDS Integers, Sequences

CONSTANTS
    Nodes,          \* the node ids a graph may define
    Missing,        \* ids no graph defines
    Keys,           \* the strings that are keys of loop-backs
    LoopKeys,       \* what from + ":" + to may be for a pair of ids; when ids
                    \* contain colons, different pairs may make one key
    Graphs          \* the graphs that may be executed

(* Edge: the target, whether there is a predicate, and MaxIterations.      *)
Edge == [to : Nodes \cup Missing, guarded : BOOLEAN, max : Int]
Graph == [nodes : SUBSET Nodes, edges : [Nodes -> Seq(Edge)],
          start : Nodes \cup Missing]

ASSUME GraphAssumption ==
    /\ Nodes \cap Missing = {}
    /\ Graphs \subseteq Graph
    /\ LoopKeys \subseteq [Nodes \X Nodes -> Keys]

VARIABLES
    graph,          \* the graph Execute was called with
    loopKey,        \* the key that the ids of each pair of nodes make
    path,           \* the traversal stack
    pathIdx,        \* the index in path of every node on it
    iters,          \* iters[k]: loop-backs counted for the key k
    current,        \* currentID
    result,         \* "running", or how Execute ended
    back            \* back[n][i]: history, loop-backs over edge i of node n

vars == <<graph, loopKey, path, pathIdx, iters, current, result, back>>

-----------------------------------------------------------------------------
Result == {"running", "output", "notfound", "cycle", "iterations", "failed"}

(* The edges slice of a node; an id without one has no edges.              *)
Out(n) == IF n \in Nodes THEN graph.edges[n] ELSE <<>>
Limit(n, i) == Out(n)[i].max

TypeOK ==
    /\ graph \in Graph
    /\ loopKey \in LoopKeys
    /\ path \in Seq(Nodes)
    /\ current \in Nodes \cup Missing
    /\ iters \in [Keys -> Nat]
    /\ result \in Result
    /\ DOMAIN back = Nodes
    /\ \A n \in Nodes : back[n] \in [DOMAIN Out(n) -> Nat]

(* Mutant of Built: targets are not checked.                               *)
BuiltFromStart(g) == g.start \in g.nodes

(* NodeRegistry.BuildGraph accepts a definition only if the start node and *)
(* every edge target is defined.  A graph may also be put together by hand. *)
Built(g) ==
    /\ g.start \in g.nodes
    /\ \A n \in Nodes : \A i \in DOMAIN g.edges[n] : g.edges[n][i].to \in g.nodes

Init ==
    /\ graph \in Graphs
    /\ loopKey \in LoopKeys
    /\ current = graph.start
    /\ path = IF graph.start \in graph.nodes THEN <<graph.start>> ELSE <<>>
    /\ pathIdx = [n \in {graph.start} \cap graph.nodes |-> 1]
    /\ iters = [k \in Keys |-> 0]
    /\ result = IF graph.start \in graph.nodes THEN "running" ELSE "notfound"
    /\ back = [n \in Nodes |-> [i \in DOMAIN graph.edges[n] |-> 0]]

-----------------------------------------------------------------------------
End(r) ==
    /\ result = "running"
    /\ result' = r
    /\ UNCHANGED <<graph, loopKey, path, pathIdx, iters, current, back>>

(* The context is cancelled, or the node returns an error.                 *)
Interrupt == End("failed")

(* The first edge that matches is i: those before it had predicates that   *)
(* did not hold.                                                           *)
FirstMatch(i) ==
    /\ i \in DOMAIN Out(current)
    /\ \A j \in 1 .. i - 1 : Out(current)[j].guarded

(* No edge matches: the node is terminal and its output is the result.     *)
Finish ==
    /\ \A i \in DOMAIN Out(current) : Out(current)[i].guarded
    /\ End("output")

TargetMissing(i) ==
    /\ FirstMatch(i)
    /\ Out(current)[i].to \notin graph.nodes
    /\ End("notfound")

OnPath(n) == n \in DOMAIN pathIdx

(* An edge to a node that is not on the path extends it.                   *)
Forward(i) ==
    LET to == Out(current)[i].to IN
    /\ result = "running"
    /\ FirstMatch(i)
    /\ to \in graph.nodes
    /\ ~OnPath(to)
    /\ path' = Append(path, to)
    /\ pathIdx' = [n \in DOMAIN pathIdx \cup {to} |->
                     IF n = to THEN Len(path) + 1 ELSE pathIdx[n]]
    /\ current' = to
    /\ UNCHANGED <<graph, loopKey, iters, result, back>>

(* Mutant of Count: the key names the nodes the other way round.           *)
CountReversed(to) == iters' = [iters EXCEPT ![loopKey[<<to, current>>]] = @ + 1]

(* An edge to a node on the path is a loop-back.  A loop-back without a    *)
(* limit is an error; so is one more than the limit, which is counted all  *)
(* the same; a limit below zero allows none.                               *)
Count(to) == iters' = [iters EXCEPT ![loopKey[<<current, to>>]] = @ + 1]

Cycle(i) ==
    /\ FirstMatch(i)
    /\ OnPath(Out(current)[i].to)
    /\ Limit(current, i) = 0
    /\ End("cycle")

TooMany(i) ==
    LET to == Out(current)[i].to IN
    /\ result = "running"
    /\ FirstMatch(i)
    /\ OnPath(to)
    /\ Limit(current, i) # 0
    /\ iters[loopKey[<<current, to>>]] + 1 > Limit(current, i)
    /\ Count(to)
    /\ result' = "iterations"
    /\ UNCHANGED <<graph, loopKey, path, pathIdx, current, back>>

(* Mutant of CutBack: the index keeps the nodes that are cut off.          *)
CutPathOnly(to) ==
    /\ path' = SubSeq(path, 1, pathIdx[to])
    /\ UNCHANGED pathIdx

(* Mutant of CutBack: the target is cut off as well.                       *)
CutTooFar(to) ==
    /\ path' = SubSeq(path, 1, pathIdx[to] - 1)
    /\ pathIdx' = [n \in { m \in DOMAIN pathIdx : pathIdx[m] < pathIdx[to] }
                     |-> pathIdx[n]]

(* Otherwise the path is cut back to the target.                           *)
CutBack(to) ==
    /\ path' = SubSeq(path, 1, pathIdx[to])
    /\ pathIdx' = [n \in { m \in DOMAIN pathIdx : pathIdx[m] <= pathIdx[to] }
                     |-> pathIdx[n]]

(* Mutant of LoopBack: loop-backs are not counted.                         *)
LoopBackUncounted(i) ==
    LET to == Out(current)[i].to IN
    /\ result = "running"
    /\ FirstMatch(i)
    /\ OnPath(to)
    /\ Limit(current, i) # 0
    /\ CutBack(to)
    /\ current' = to
    /\ UNCHANGED <<graph, loopKey, iters, result, back>>

LoopBack(i) ==
    LET to == Out(current)[i].to IN
    /\ result = "running"
    /\ FirstMatch(i)
    /\ OnPath(to)
    /\ Limit(current, i) # 0
    /\ iters[loopKey[<<current, to>>]] + 1 <= Limit(current, i)
    /\ Count(to)
    /\ CutBack(to)
    /\ current' = to
    /\ back' = [back EXCEPT ![current][i] = @ + 1]
    /\ UNCHANGED <<graph, loopKey, result>>

-----------------------------------------------------------------------------
Follow(i) ==
    TargetMissing(i) \/ Forward(i) \/ Cycle(i) \/ TooMany(i) \/ LoopBack(i)

(* One turn of the loop. *)
Next == Interrupt \/ Finish \/ \E i \in DOMAIN Out(current) : Follow(i)

Spec == Init /\ [][Next]_vars

(* A node returns, and the loop goes round again. *)
FairSpec == Spec /\ WF_vars(Next)

-----------------------------------------------------------------------------
(***************************************************************************)
(* Properties.                                                             *)
(***************************************************************************)

(* The two structures that hold the path agree, however often it was cut   *)
(* back: pathIdx finds exactly the nodes of path, each where it is.  This  *)
(* is what makes an edge a loop-back if and only if it leads to the path.  *)
PathIndexed ==
    /\ \A n \in DOMAIN pathIdx :
         pathIdx[n] \in DOMAIN path /\ path[pathIdx[n]] = n
    /\ \A i \in DOMAIN path : path[i] \in DOMAIN pathIdx /\ pathIdx[path[i]] = i

(* The path is a walk in the graph from the start node to the node that    *)
(* runs: cutting it back leaves no gap.                                    *)
PathIsWalk ==
    path # <<>> =>
        /\ path[1] = graph.start
        /\ path[Len(path)] = current
        /\ \A i \in 1 .. Len(path) - 1 :
             \E k \in DOMAIN Out(path[i]) : Out(path[i])[k].to = path[i + 1]

(* No edge is followed back more often than its own MaxIterations, though  *)
(* the count it is checked against is kept for a pair of nodes, or for     *)
(* several pairs whose ids make one key.                                   *)
WithinLimit ==
    \A n \in Nodes : \A i \in DOMAIN Out(n) : back[n][i] > 0 => back[n][i] <= Limit(n, i)

(* Execute of a graph that BuildGraph accepted never ends in               *)
(* ErrNodeNotFound.                                                        *)
BuiltIsClosed == Built(graph) => result # "notfound"

(* Every execution ends, whatever the nodes put out and wherever the       *)
(* loops are nested: an edge's count is never reset.                       *)
Terminates == <>(result # "running")

=============================================================================
