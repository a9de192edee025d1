--------------------------- MODULE MCProxyControl ---------------------------
(* ProxyControl on small fleets.  Each instance is the process of a worker   *)
(* of its own; a worker that restarts claims again with a new lease.         *)
EXTENDS ProxyControl, TLC

CONSTANTS i1, i2, w1, w2

MCWorkerOf == [i \in Instances |-> IF i = i2 THEN w2 ELSE w1]

(* Nothing orders proxies, leases, tasks, runs or executions. *)
MCSymmetry == UNION {Permutations(S) : S \in {Proxies, Leases, Tasks, Runs, Executions}}

(* A bound for the run of several workers: what evidence does to a route is  *)
(* the question of the run of one worker and many generations.               *)
NoEvidence == \A t \in Tasks : observed[t] = {}
=============================================================================
