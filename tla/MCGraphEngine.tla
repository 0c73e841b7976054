--------------------------- MODULE MCGraphEngine ---------------------------
(* GraphEngine on graphs with at most two edges out of a node, the first   *)
(* with a predicate and the second without: all of three nodes with the    *)
(* limits 0 and 1, and all of two nodes, of which one may be missing, with *)
(* dangling references and the limits -1, 0 and 2.  The ids make a key for *)
(* every pair, or are like "p" and "p:p", whose two pairs make one.        *)
EXTENDS GraphEngine, TLC

CONSTANTS a, b, c, nowhere

To(targets, limits, g) == [to : targets, guarded : {g}, max : limits]

EdgeLists(targets, guarded, open) ==
    {<<>>}
      \cup { <<e>> : e \in To(targets, open, FALSE) }
      \cup { <<e, f>> : e \in To(targets, guarded, TRUE),
                        f \in To(targets, open, FALSE) }

PairKeys == [p \in Nodes \X Nodes |-> p]
OneKey   == [PairKeys EXCEPT ![b, a] = <<a, b>>]

MCKeys     == Nodes \X Nodes
MCLoopKeys == {PairKeys, OneKey}

ThreeNodes ==
    { [nodes |-> Nodes, start |-> a, edges |-> es] :
        es \in [Nodes -> EdgeLists(Nodes, {1}, {0, 1})] }

TwoNodes ==
    { [nodes |-> ns, start |-> s, edges |-> (c :> <<>>) @@ es] :
        ns \in {{a}, {a, b}}, s \in {a, nowhere},
        es \in [{a, b} -> EdgeLists({a, b, nowhere}, {0, 2}, {-1, 2})] }

MCGraphs == ThreeNodes \cup TwoNodes
=============================================================================
