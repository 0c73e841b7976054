------------------------- MODULE GraphEngine_proofs -------------------------
(***************************************************************************)
(* Theorems about GraphEngine: for every set of graphs, with any number of *)
(* nodes and edges and with any limits, and whatever the ids of nodes make *)
(* of the keys of loop-backs.                                              *)
(***************************************************************************)
EXTENDS GraphEngine, SequenceTheorems, TLAPS

(* While Execute goes on, the node it is at is defined and on the path.    *)
AtNode ==
    /\ result = "running" => current \in graph.nodes /\ path # <<>>
    /\ DOMAIN pathIdx \subseteq graph.nodes

(* What is counted for a pair of nodes is no less than how often each edge *)
(* between them was followed back, also when other pairs have its key.     *)
CountedForPair ==
    \A n \in Nodes : \A i \in DOMAIN Out(n) : back[n][i] > 0 =>
        /\ Out(n)[i].to \in Nodes
        /\ back[n][i] <= iters[loopKey[<<n, Out(n)[i].to>>]]

IInv ==
    /\ TypeOK /\ AtNode /\ PathIndexed /\ PathIsWalk
    /\ CountedForPair /\ WithinLimit /\ BuiltIsClosed

-----------------------------------------------------------------------------
(* The edges of a node, and what an edge that Follow takes leads to.       *)
LEMMA GraphType ==
  ASSUME graph \in Graph
  PROVE  /\ graph.nodes \subseteq Nodes
         /\ \A n \in Nodes : Out(n) = graph.edges[n] /\ Out(n) \in Seq(Edge)
  BY DEF Graph, Out

LEMMA EdgeType ==
  ASSUME graph \in Graph, NEW n \in Nodes, NEW i \in DOMAIN Out(n)
  PROVE  Out(n)[i].to \in Nodes \cup Missing /\ Limit(n, i) \in Int
<1>1. Out(n) \in Seq(Edge)
  BY GraphType
<1>2. i \in 1 .. Len(Out(n))
  BY <1>1, LenProperties
<1>3. Out(n)[i] \in Edge
  BY <1>1, <1>2, ElementOfSeq
<1> QED
  BY <1>3 DEF Edge, Limit

LEMMA InitInv == Init => IInv
<1> SUFFICES ASSUME Init PROVE IInv
  OBVIOUS
<1>1. /\ graph \in Graph /\ loopKey \in LoopKeys /\ current = graph.start
      /\ graph.start \in Nodes \cup Missing /\ graph.nodes \subseteq Nodes
  BY GraphAssumption DEF Init, Graph
<1>2. /\ path = IF graph.start \in graph.nodes THEN <<graph.start>> ELSE <<>>
      /\ pathIdx = [n \in {graph.start} \cap graph.nodes |-> 1]
      /\ result = IF graph.start \in graph.nodes THEN "running" ELSE "notfound"
  BY DEF Init
<1>3. iters \in [Keys -> Nat]
  BY DEF Init
<1>4. /\ DOMAIN back = Nodes
      /\ \A n \in Nodes : /\ back[n] \in [DOMAIN Out(n) -> Nat]
                          /\ \A i \in DOMAIN Out(n) : back[n][i] = 0
  BY <1>1, GraphType DEF Init
<1>5. path \in Seq(Nodes) /\ result \in Result
  BY <1>1, <1>2 DEF Result
<1>6. TypeOK
  BY <1>1, <1>3, <1>4, <1>5 DEF TypeOK
<1>7. CountedForPair /\ WithinLimit
  BY <1>4 DEF CountedForPair, WithinLimit
<1>8. BuiltIsClosed
  BY <1>2 DEF BuiltIsClosed, Built
<1>9. AtNode /\ PathIndexed /\ PathIsWalk
  <2>1. CASE graph.start \in graph.nodes
    <3>1. /\ path # <<>> /\ Len(path) = 1 /\ path[1] = graph.start /\ DOMAIN path = {1}
          /\ DOMAIN pathIdx = {graph.start} /\ pathIdx[graph.start] = 1
      BY <1>2, <2>1
    <3> QED
      BY <3>1, <2>1, <1>1 DEF AtNode, PathIndexed, PathIsWalk
  <2>2. CASE graph.start \notin graph.nodes
    <3>1. path = <<>> /\ DOMAIN path = {} /\ DOMAIN pathIdx = {} /\ result = "notfound"
      BY <1>2, <2>2
    <3> QED
      BY <3>1 DEF AtNode, PathIndexed, PathIsWalk
  <2> QED
    BY <2>1, <2>2
<1> QED
  BY <1>6, <1>7, <1>8, <1>9 DEF IInv

-----------------------------------------------------------------------------
(* The ends of Execute that leave all but the result.                      *)
LEMMA EndInv ==
  ASSUME IInv, NEW r \in Result \ {"running"}, End(r),
         r = "notfound" => ~Built(graph)
  PROVE  IInv'
<1>1. /\ result' = r /\ UNCHANGED <<graph, loopKey, path, pathIdx, iters, current, back>>
  BY DEF End
<1>2. TypeOK' /\ AtNode' /\ PathIndexed' /\ PathIsWalk'
  BY <1>1 DEF IInv, TypeOK, AtNode, PathIndexed, PathIsWalk, Out
<1>3. CountedForPair' /\ WithinLimit'
  BY <1>1 DEF IInv, CountedForPair, WithinLimit, Limit, Out
<1>4. BuiltIsClosed'
  BY <1>1 DEF BuiltIsClosed, Built
<1> QED
  BY <1>2, <1>3, <1>4 DEF IInv

(* A target that is not there shows that BuildGraph did not make the graph. *)
LEMMA TargetMissingInv ==
  ASSUME IInv, NEW i \in DOMAIN Out(current), TargetMissing(i)
  PROVE  IInv'
<1>1. current \in Nodes /\ Out(current) = graph.edges[current]
  BY GraphType DEF IInv, TypeOK, AtNode, TargetMissing, End
<1>2. ~Built(graph)
  BY <1>1 DEF Built, TargetMissing
<1> QED
  BY <1>2, EndInv DEF TargetMissing, Result

(* What a step along edge i of the current node can rely on.               *)
LEMMA AtEdge ==
  ASSUME IInv, result = "running", NEW i \in DOMAIN Out(current)
  PROVE  /\ current \in Nodes /\ graph.nodes \subseteq Nodes
         /\ path \in Seq(Nodes) /\ path # <<>>
         /\ Len(path) \in Nat \ {0} /\ DOMAIN path = 1 .. Len(path)
         /\ Limit(current, i) \in Int
<1>1. current \in Nodes /\ graph.nodes \subseteq Nodes /\ graph \in Graph
      /\ path \in Seq(Nodes) /\ path # <<>>
  BY GraphType DEF IInv, TypeOK, AtNode
<1>2. Len(path) \in Nat \ {0} /\ DOMAIN path = 1 .. Len(path)
  BY <1>1, LenProperties, EmptySeq
<1>3. Limit(current, i) \in Int
  BY <1>1, EdgeType
<1> QED
  BY <1>1, <1>2, <1>3

(* A node that is not on the path goes to its end.                         *)
LEMMA ForwardInv ==
  ASSUME IInv, NEW i \in DOMAIN Out(current), Forward(i)
  PROVE  IInv'
<1> DEFINE to == Out(current)[i].to
           l  == Len(path)
<1>1. /\ result = "running" /\ to \in graph.nodes /\ to \notin DOMAIN pathIdx
      /\ path' = Append(path, to)
      /\ pathIdx' = [n \in DOMAIN pathIdx \cup {to} |->
                       IF n = to THEN l + 1 ELSE pathIdx[n]]
      /\ current' = to
      /\ UNCHANGED <<graph, loopKey, iters, result, back>>
  BY DEF Forward, OnPath
<1>2. /\ current \in Nodes /\ graph.nodes \subseteq Nodes
      /\ path \in Seq(Nodes) /\ path # <<>> /\ l \in Nat \ {0} /\ DOMAIN path = 1 .. l
  BY <1>1, AtEdge
<1>3. to \in Nodes
  BY <1>1, <1>2
<1> HIDE DEF l, to
<1>4. /\ path' \in Seq(Nodes) /\ Len(path') = l + 1 /\ DOMAIN path' = 1 .. l + 1
      /\ path'[l + 1] = to /\ \A k \in 1 .. l : path'[k] = path[k]
      /\ path' # <<>>
  <2>1. /\ path' \in Seq(Nodes) /\ Len(path') = l + 1
        /\ path'[l + 1] = to /\ \A k \in 1 .. l : path'[k] = path[k]
    BY <1>1, <1>2, <1>3, AppendProperties DEF l
  <2>2. DOMAIN path' = 1 .. l + 1
    BY <2>1, LenProperties
  <2>3. path' # <<>>
    BY <2>1, <1>2
  <2> QED
    BY <2>1, <2>2, <2>3
<1>5. TypeOK'
  BY <1>1, <1>3, <1>4 DEF IInv, TypeOK, Out
<1>6. AtNode'
  BY <1>1, <1>4 DEF IInv, AtNode
<1>7. PathIndexed'
  <2>1. ASSUME NEW n \in DOMAIN pathIdx'
        PROVE  pathIdx'[n] \in 1 .. l + 1 /\ path'[pathIdx'[n]] = n
    <3>1. CASE n = to
      BY <3>1, <1>1, <1>2, <1>4
    <3>2. CASE n # to
      <4>1. n \in DOMAIN pathIdx /\ pathIdx'[n] = pathIdx[n]
        BY <3>2, <1>1
      <4>2. pathIdx[n] \in 1 .. l /\ path[pathIdx[n]] = n
        BY <4>1, <1>2 DEF IInv, PathIndexed
      <4> QED
        BY <4>1, <4>2, <1>2, <1>4
    <3> QED
      BY <3>1, <3>2
  <2>2. ASSUME NEW k \in 1 .. l + 1
        PROVE  path'[k] \in DOMAIN pathIdx' /\ pathIdx'[path'[k]] = k
    <3>1. CASE k = l + 1
      BY <3>1, <1>1, <1>4
    <3>2. CASE k # l + 1
      <4>1. k \in 1 .. l /\ path'[k] = path[k]
        BY <3>2, <1>2, <1>4
      <4>2. path[k] \in DOMAIN pathIdx /\ pathIdx[path[k]] = k
        BY <4>1, <1>2 DEF IInv, PathIndexed
      <4> QED
        BY <4>1, <4>2, <1>1
    <3> QED
      BY <3>1, <3>2
  <2> QED
    BY <2>1, <2>2, <1>4 DEF PathIndexed
<1>8. PathIsWalk'
  <2>1. path[1] = graph.start /\ path[l] = current
    BY <1>2 DEF IInv, PathIsWalk, l
  <2>2. path'[1] = graph.start
    BY <2>1, <1>2, <1>4
  <2>3. ASSUME NEW k \in 1 .. l
        PROVE  \E e \in DOMAIN Out(path'[k]) : Out(path'[k])[e].to = path'[k + 1]
    <3>1. CASE k = l
      BY <3>1, <2>1, <1>2, <1>4 DEF to
    <3>2. CASE k # l
      <4>1. k \in 1 .. l - 1 /\ k + 1 \in 1 .. l
        BY <3>2, <1>2
      <4>2. \E e \in DOMAIN Out(path[k]) : Out(path[k])[e].to = path[k + 1]
        BY <4>1, <1>2 DEF IInv, PathIsWalk, l
      <4>3. path'[k] = path[k] /\ path'[k + 1] = path[k + 1]
        BY <4>1, <1>4
      <4> QED
        BY <4>2, <4>3
    <3> QED
      BY <3>1, <3>2
  <2>4. \A n : Out(n)' = Out(n)
    BY <1>1 DEF Out
  <2>5. Len(path') - 1 = l
    BY <1>2, <1>4
  <2> QED
    BY <2>2, <2>3, <2>4, <2>5, <1>1, <1>4 DEF PathIsWalk
<1>9. CountedForPair' /\ WithinLimit' /\ BuiltIsClosed'
  BY <1>1 DEF IInv, CountedForPair, WithinLimit, BuiltIsClosed, Built, Limit, Out
<1> QED
  BY <1>5, <1>6, <1>7, <1>8, <1>9 DEF IInv

(* Counting goes up for one key, and for none down.                        *)
LEMMA CountInv ==
  ASSUME TypeOK, NEW to \in Nodes, current \in Nodes, Count(to)
  PROVE  /\ loopKey[<<current, to>>] \in Keys
         /\ iters' \in [Keys -> Nat]
         /\ iters'[loopKey[<<current, to>>]] = iters[loopKey[<<current, to>>]] + 1
         /\ \A k \in Keys : iters'[k] >= iters[k]
         /\ \A n, m \in Nodes : loopKey[<<n, m>>] \in Keys
<1>1. iters \in [Keys -> Nat] /\ loopKey \in [Nodes \X Nodes -> Keys]
  BY GraphAssumption DEF TypeOK
<1>2. \A n, m \in Nodes : loopKey[<<n, m>>] \in Keys
  BY <1>1
<1> DEFINE key == loopKey[<<current, to>>]
<1>3. key \in Keys /\ iters' = [iters EXCEPT ![key] = @ + 1]
  BY <1>2 DEF Count
<1> HIDE DEF key
<1>4. /\ iters' \in [Keys -> Nat] /\ iters'[key] = iters[key] + 1
      /\ \A k \in Keys : iters'[k] >= iters[k]
  BY <1>1, <1>3
<1> QED
  BY <1>2, <1>3, <1>4 DEF key

LEMMA TooManyInv ==
  ASSUME IInv, NEW i \in DOMAIN Out(current), TooMany(i)
  PROVE  IInv'
<1> DEFINE to == Out(current)[i].to
<1>1. /\ result = "running" /\ result' = "iterations" /\ OnPath(to) /\ Count(to)
      /\ UNCHANGED <<graph, loopKey, path, pathIdx, current, back>>
  BY DEF TooMany
<1>2. current \in Nodes /\ graph.nodes \subseteq Nodes
  BY <1>1, AtEdge
<1>3. to \in Nodes
  BY <1>1, <1>2 DEF IInv, AtNode, OnPath
<1> HIDE DEF to
<1>4. /\ iters' \in [Keys -> Nat] /\ \A k \in Keys : iters'[k] >= iters[k]
      /\ \A n, m \in Nodes : loopKey[<<n, m>>] \in Keys
  BY <1>1, <1>2, <1>3, CountInv DEF IInv
<1>5. TypeOK' /\ AtNode' /\ PathIndexed' /\ PathIsWalk'
  BY <1>1, <1>4 DEF IInv, TypeOK, AtNode, PathIndexed, PathIsWalk, Out, Result
<1>6. CountedForPair'
  <2> SUFFICES ASSUME NEW n \in Nodes, NEW e \in DOMAIN Out(n), back[n][e] > 0
               PROVE  /\ Out(n)[e].to \in Nodes
                      /\ back[n][e] <= iters'[loopKey[<<n, Out(n)[e].to>>]]
    BY <1>1 DEF CountedForPair, Out
  <2>1. /\ Out(n)[e].to \in Nodes
        /\ back[n][e] <= iters[loopKey[<<n, Out(n)[e].to>>]]
    BY DEF IInv, CountedForPair
  <2>2. loopKey[<<n, Out(n)[e].to>>] \in Keys
    BY <2>1, <1>4
  <2>3. back[n][e] \in Nat
    BY DEF IInv, TypeOK
  <2> DEFINE key == loopKey[<<n, Out(n)[e].to>>]
  <2>4. iters[key] \in Nat /\ iters'[key] \in Nat /\ iters'[key] >= iters[key]
    BY <2>2, <1>4 DEF IInv, TypeOK
  <2> HIDE DEF key
  <2>5. back[n][e] <= iters[key]
    BY <2>1 DEF key
  <2>6. back[n][e] <= iters'[key]
    BY <2>3, <2>4, <2>5
  <2> QED
    BY <2>1, <2>6 DEF key
<1>7. WithinLimit' /\ BuiltIsClosed'
  BY <1>1 DEF IInv, WithinLimit, BuiltIsClosed, Built, Limit, Out
<1> QED
  BY <1>5, <1>6, <1>7 DEF IInv

(* A loop-back cuts the path and the index at the same place.              *)
LEMMA CutBackInv ==
  ASSUME IInv, NEW i \in DOMAIN Out(current), LoopBack(i)
  PROVE  /\ path' \in Seq(Nodes) /\ PathIndexed' /\ PathIsWalk' /\ AtNode'
<1> DEFINE to == Out(current)[i].to
           q  == pathIdx[to]
           l  == Len(path)
<1>1. /\ result = "running" /\ to \in DOMAIN pathIdx
      /\ path' = SubSeq(path, 1, q)
      /\ pathIdx' = [n \in {m \in DOMAIN pathIdx : pathIdx[m] <= q} |-> pathIdx[n]]
      /\ current' = to /\ UNCHANGED <<graph, result>>
  BY DEF LoopBack, OnPath, CutBack
<1>2. /\ current \in Nodes /\ graph.nodes \subseteq Nodes
      /\ path \in Seq(Nodes) /\ path # <<>> /\ l \in Nat \ {0} /\ DOMAIN path = 1 .. l
  BY <1>1, AtEdge
<1>3. q \in 1 .. l /\ path[q] = to
  BY <1>1, <1>2 DEF IInv, PathIndexed
<1>4. to \in graph.nodes
  BY <1>1 DEF IInv, AtNode
<1> HIDE DEF to, q, l
<1>5. /\ path' \in Seq(Nodes) /\ Len(path') = q /\ DOMAIN path' = 1 .. q
      /\ \A k \in 1 .. q : path'[k] = path[k]
      /\ path' # <<>>
  <2>1. \A k \in 1 .. q : path[k] \in Nodes
    <3> TAKE k \in 1 .. q
    <3>1. k \in 1 .. Len(path)
      BY <1>2, <1>3 DEF l
    <3> QED
      BY <3>1, <1>2, ElementOfSeq
  <2>2. 1 \in Int /\ q \in Int /\ 1 <= q /\ q - 1 + 1 = q
        /\ \A k \in 1 .. q : 1 + k - 1 = k
    BY <1>2, <1>3
  <2>3. /\ path' \in Seq(Nodes) /\ Len(path') = q
        /\ \A k \in 1 .. q : path'[k] = path[k]
    BY <2>1, <2>2, <1>1, SubSeqProperties
  <2>4. DOMAIN path' = 1 .. q
    BY <2>3, LenProperties
  <2>5. path' # <<>>
    BY <2>2, <2>3
  <2> QED
    BY <2>3, <2>4, <2>5
<1>6. PathIndexed'
  <2>1. ASSUME NEW n \in DOMAIN pathIdx'
        PROVE  pathIdx'[n] \in 1 .. q /\ path'[pathIdx'[n]] = n
    <3>1. n \in DOMAIN pathIdx /\ pathIdx'[n] = pathIdx[n] /\ pathIdx[n] <= q
      BY <1>1
    <3>2. pathIdx[n] \in 1 .. l /\ path[pathIdx[n]] = n
      BY <3>1, <1>2 DEF IInv, PathIndexed
    <3>3. pathIdx[n] \in 1 .. q
      BY <3>1, <3>2, <1>2, <1>3
    <3> QED
      BY <3>1, <3>2, <3>3, <1>5
  <2>2. ASSUME NEW k \in 1 .. q
        PROVE  path'[k] \in DOMAIN pathIdx' /\ pathIdx'[path'[k]] = k
    <3>1. k \in 1 .. l /\ k <= q /\ path'[k] = path[k]
      BY <1>2, <1>3, <1>5
    <3>2. path[k] \in DOMAIN pathIdx /\ pathIdx[path[k]] = k
      BY <3>1, <1>2 DEF IInv, PathIndexed
    <3> QED
      BY <3>1, <3>2, <1>1
  <2> QED
    BY <2>1, <2>2, <1>5 DEF PathIndexed
<1>7. PathIsWalk'
  <2>1. path'[1] = graph.start /\ path'[q] = to
    BY <1>2, <1>3, <1>5 DEF IInv, PathIsWalk
  <2>2. ASSUME NEW k \in 1 .. q - 1
        PROVE  \E e \in DOMAIN Out(path'[k]) : Out(path'[k])[e].to = path'[k + 1]
    <3>1. k \in 1 .. Len(path) - 1 /\ k \in 1 .. q /\ k + 1 \in 1 .. q
      BY <1>2, <1>3 DEF l
    <3>2. \E e \in DOMAIN Out(path[k]) : Out(path[k])[e].to = path[k + 1]
      BY <3>1, <1>2 DEF IInv, PathIsWalk
    <3> QED
      BY <3>1, <3>2, <1>5
  <2>3. \A n : Out(n)' = Out(n)
    BY <1>1 DEF Out
  <2> QED
    BY <2>1, <2>2, <2>3, <1>1, <1>5 DEF PathIsWalk
<1>8. AtNode'
  BY <1>1, <1>4, <1>5 DEF IInv, AtNode
<1> QED
  BY <1>5, <1>6, <1>7, <1>8

(* An edge that is followed back once more was counted, for all edges that *)
(* share its key, and the count was checked against its own limit.         *)
LEMMA LoopBackInv ==
  ASSUME IInv, NEW i \in DOMAIN Out(current), LoopBack(i)
  PROVE  IInv'
<1> DEFINE to  == Out(current)[i].to
           key == loopKey[<<current, to>>]
<1>1. /\ result = "running" /\ to \in DOMAIN pathIdx /\ Count(to)
      /\ iters[key] + 1 <= Limit(current, i)
      /\ current' = to /\ UNCHANGED <<graph, loopKey, result>>
      /\ back' = [back EXCEPT ![current][i] = @ + 1]
  BY DEF LoopBack, OnPath
<1>2. current \in Nodes /\ graph.nodes \subseteq Nodes /\ Limit(current, i) \in Int
  BY <1>1, AtEdge
<1>3. to \in Nodes
  BY <1>1, <1>2 DEF IInv, AtNode
<1> HIDE DEF to
<1>4. /\ key \in Keys /\ iters' \in [Keys -> Nat] /\ iters'[key] = iters[key] + 1
      /\ \A k \in Keys : iters'[k] >= iters[k]
      /\ \A n, m \in Nodes : loopKey[<<n, m>>] \in Keys
  BY <1>1, <1>2, <1>3, CountInv DEF IInv
<1> HIDE DEF key
<1>5. \A n : Out(n)' = Out(n)
  BY <1>1 DEF Out
<1>6. /\ DOMAIN back' = Nodes
      /\ \A n \in Nodes : back'[n] \in [DOMAIN Out(n) -> Nat]
      /\ \A n \in Nodes : \A e \in DOMAIN Out(n) :
           back'[n][e] = IF n = current /\ e = i THEN back[n][e] + 1 ELSE back[n][e]
  <2>1. DOMAIN back = Nodes /\ \A n \in Nodes : back[n] \in [DOMAIN Out(n) -> Nat]
    BY DEF IInv, TypeOK
  <2>2. DOMAIN back' = Nodes
    BY <2>1, <1>1
  <2> DEFINE counts == [back[current] EXCEPT ![i] = @ + 1]
  <2>3. back' = [back EXCEPT ![current] = counts]
    BY <1>1
  <2>4. /\ counts \in [DOMAIN Out(current) -> Nat]
        /\ \A e \in DOMAIN Out(current) :
             counts[e] = IF e = i THEN back[current][e] + 1 ELSE back[current][e]
    BY <2>1, <1>2
  <2> HIDE DEF counts
  <2>5. \A n \in Nodes : back'[n] = IF n = current THEN counts ELSE back[n]
    BY <2>1, <2>3, <1>2
  <2> QED
    BY <2>1, <2>2, <2>4, <2>5
<1>7. TypeOK'
  BY <1>1, <1>3, <1>4, <1>5, <1>6, CutBackInv DEF IInv, TypeOK
<1>8. CountedForPair'
  <2> SUFFICES ASSUME NEW n \in Nodes, NEW e \in DOMAIN Out(n), back'[n][e] > 0
               PROVE  /\ Out(n)[e].to \in Nodes
                      /\ back'[n][e] <= iters'[loopKey[<<n, Out(n)[e].to>>]]
    BY <1>1, <1>5 DEF CountedForPair
  <2> DEFINE k == loopKey[<<n, Out(n)[e].to>>]
  <2>1. back[n][e] \in Nat
    BY DEF IInv, TypeOK
  <2>2. back[n][e] > 0 => Out(n)[e].to \in Nodes /\ back[n][e] <= iters[k]
    BY DEF IInv, CountedForPair
  <2>3. Out(n)[e].to \in Nodes
    BY <2>1, <2>2, <1>3, <1>6 DEF to
  <2>4. k \in Keys /\ iters[k] \in Nat /\ iters'[k] \in Nat /\ iters'[k] >= iters[k]
    BY <2>3, <1>4 DEF IInv, TypeOK
  <2>5. n = current /\ e = i => k = key
    BY DEF key, to
  <2> HIDE DEF k
  <2>6. back'[n][e] <= iters'[k]
    BY <2>1, <2>2, <2>4, <2>5, <1>4, <1>6
  <2> QED
    BY <2>3, <2>6 DEF k
<1>9. WithinLimit'
  <2>1. ASSUME NEW n \in Nodes, NEW e \in DOMAIN Out(n), back'[n][e] > 0
        PROVE  back'[n][e] <= Limit(n, e)
    <3>1. CASE n = current /\ e = i
      <4>1. back[n][e] \in Nat /\ iters[key] \in Nat
        BY <1>4 DEF IInv, TypeOK
      <4>2. back[n][e] > 0 => back[n][e] <= iters[key]
        BY <3>1 DEF IInv, CountedForPair, key, to
      <4> QED
        BY <3>1, <4>1, <4>2, <1>1, <1>2, <1>6
    <3>2. CASE ~(n = current /\ e = i)
      BY <3>2, <2>1, <1>6 DEF IInv, WithinLimit
    <3> QED
      BY <3>1, <3>2
  <2> QED
    BY <2>1, <1>5 DEF WithinLimit, Limit
<1>10. BuiltIsClosed'
  BY <1>1 DEF BuiltIsClosed
<1> QED
  BY <1>7, <1>8, <1>9, <1>10, CutBackInv DEF IInv

-----------------------------------------------------------------------------
LEMMA NextInv == IInv /\ [Next]_vars => IInv'
<1> SUFFICES ASSUME IInv, [Next]_vars PROVE IInv'
  OBVIOUS
<1>1. CASE Interrupt
  BY <1>1, EndInv DEF Interrupt, Result
<1>2. CASE Finish
  BY <1>2, EndInv DEF Finish, Result
<1>3. ASSUME NEW i \in DOMAIN Out(current), Follow(i) PROVE IInv'
  <2>1. CASE TargetMissing(i)
    BY <2>1, TargetMissingInv
  <2>2. CASE Forward(i)
    BY <2>2, ForwardInv
  <2>3. CASE Cycle(i)
    BY <2>3, EndInv DEF Cycle, Result
  <2>4. CASE TooMany(i)
    BY <2>4, TooManyInv
  <2>5. CASE LoopBack(i)
    BY <2>5, LoopBackInv
  <2> QED
    BY <1>3, <2>1, <2>2, <2>3, <2>4, <2>5 DEF Follow
<1>4. CASE UNCHANGED vars
  BY <1>4 DEF vars, IInv, TypeOK, AtNode, PathIndexed, PathIsWalk, CountedForPair,
              WithinLimit, BuiltIsClosed, Built, Limit, Out
<1> QED
  BY <1>1, <1>2, <1>3, <1>4 DEF Next

LEMMA Invariance == Spec => []IInv
  BY InitInv, NextInv, PTL DEF Spec

(* However often the path is cut back, its index finds exactly its nodes.  *)
THEOREM PathIsIndexed == Spec => []PathIndexed
<1>1. IInv => PathIndexed
  BY DEF IInv
<1> QED
  BY <1>1, Invariance, PTL

(* The path stays a walk from the start to the node that runs.             *)
THEOREM PathStaysWalk == Spec => []PathIsWalk
<1>1. IInv => PathIsWalk
  BY DEF IInv
<1> QED
  BY <1>1, Invariance, PTL

(* No edge is followed back more often than its own limit allows, whatever *)
(* pairs of nodes share the key its loop-backs are counted for.            *)
THEOREM LoopsKeepTheirLimit == Spec => []WithinLimit
<1>1. IInv => WithinLimit
  BY DEF IInv
<1> QED
  BY <1>1, Invariance, PTL

(* A graph that BuildGraph accepted never makes Execute look for a node    *)
(* that is not there.                                                      *)
THEOREM BuiltGraphsAreClosed == Spec => []BuiltIsClosed
<1>1. IInv => BuiltIsClosed
  BY DEF IInv
<1> QED
  BY <1>1, Invariance, PTL
=============================================================================
