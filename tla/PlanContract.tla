---------------------------- MODULE PlanContract ----------------------------
(***************************************************************************)
(* What a plan of routes promises (proxycontrol/policy.go), as its callers *)
(* rely on it: ProxyControl lets its reconciliation install any such plan, *)
(* PlanAssignments computes the planner's and shows that it is one.        *)
(*                                                                         *)
(* A plan gives every slot a proxy or none; place is what the slots hold,  *)
(* locked the slots that must not move, offers the eligible proxies of     *)
(* every slot.                                                             *)
(***************************************************************************)

(* Locked slots keep what they hold, others get what they are offered, no   *)
(* proxy is given twice, and a slot goes without only when all it is        *)
(* offered is given.                                                        *)
Admissible(plan, place, locked, offers, none) ==
  \A s \in DOMAIN offers :
    /\ IF s \in locked THEN plan[s] = place[s] ELSE plan[s] \in offers[s] \cup {none}
    /\ plan[s] # none => \A x \in DOMAIN offers \ {s} : plan[x] # plan[s]
    /\ s \notin locked /\ plan[s] = none => offers[s] \subseteq {plan[x] : x \in DOMAIN offers}
=============================================================================
