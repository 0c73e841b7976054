------------------------------- MODULE MCWorker -------------------------------
(* Worker with one document whose text is short, long or broken: two rival *)
(* jobs in a process that meets no fault, or one job and two faults.       *)
EXTENDS Worker

CONSTANTS doc, short, long, broken, j1, j2

MCDoc   == [j \in Jobs |-> doc]
MCCount == [t \in Texts |-> CASE t = short -> 1 [] t = long -> 2 [] OTHER -> 0]
MCPlans == {[queued |-> {j1, j2}, faults |-> 0], [queued |-> {j1}, faults |-> 2]}
MCStop  == {[queued |-> {j1}, faults |-> 1]}
=============================================================================
