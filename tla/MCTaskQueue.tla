---------------------------- MODULE MCTaskQueue ----------------------------
(***************************************************************************)
(* Instances of TaskQueue: two or three tasks, one or                      *)
(* two handlers, leases of one unit of time, a queue of one or two places. *)
(***************************************************************************)
EXTENDS TaskQueue, TLC

CONSTANTS t1, t2, t3, w1, w2, l1, l2, l3, l4, l5

\* t1 may be tried twice, the others once; t3 waits in another deque.
MCTypeOf == [t \in Tasks |-> IF t = t3 THEN "Search" ELSE "HttpFetch"]
MCPriorityOf == [t \in Tasks |-> IF t = t3 THEN "High" ELSE "Normal"]
MCWorkerTypeOf == [w \in Workers |-> IF w = w1 THEN "General" ELSE "Http"]
MCMaxAttempts == [t \in Tasks |-> IF t = t1 THEN 2 ELSE 1]

Symmetry == Permutations(LeaseIds)
=============================================================================
