------------------------- MODULE MCPlanAssignments -------------------------
(* Discover and channel slots over three proxies. *)
EXTENDS PlanAssignments

CONSTANTS p1, p2, p3, d1, c1, c2

MCProxies == {p1, p2, p3}
(* One role with two slots, and one planned before it. *)
TwoRoles == <<d1, c1, c2>>

(* A reserve is left over. *)
OneEach == <<d1, c1>>

MCRoleOf == [s \in Slots |-> IF s = d1 THEN "discover" ELSE "channel"]

(* The proxy p3 is never tagged, the others for one role or none; without    *)
(* detail slots a detail proxy serves channels.                              *)
OneTag == {{}, {"discover"}, {"channel"}, {"detail"}}
MCTaggings == {t \in [MCProxies -> OneTag] : t[p3] = {}}

(* All roles agree on an order and on its reverse. *)
MCPreferences == {[r \in Roles |-> <<p1, p2, p3>>], [r \in Roles |-> <<p3, p2, p1>>]}

MCPolicyRoles == {"discover", "channel", "detail"}
=============================================================================
