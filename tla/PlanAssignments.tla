-------------------------- MODULE PlanAssignments --------------------------
(***************************************************************************)
(* Which slot gets which proxy (proxycontrol/policy.go), and the same      *)
(* choice made by a completion for one slot (completion.go).               *)
(*                                                                         *)
(* Slots have roles; a proxy may be tagged for roles and is then pinned to *)
(* the first of them.  A reconciliation plans role by role with the        *)
(* proxies left over by the roles before, each role by the same four       *)
(* passes.  The preferences of a role (country, tags, latency, ...) are an *)
(* order of the proxies, which measurements change at any time.            *)
(*                                                                         *)
(* A plan is a function on the slots decided so far.                       *)
(***************************************************************************)
EXTENDS Naturals, Sequences, PlanContract

CONSTANTS Proxies, Nil,
          SlotOrder,     \* the slots, sorted by role and number (compareSlots)
          RoleOf,        \* the role of a slot
          PolicyRoles,   \* the roles that have an identity policy
          Taggings,      \* the taggings of the proxies considered
          Preferences    \* per role, the orders of the proxies considered

RoleOrder == <<"discover", "channel", "query_quality", "detail">>
Roles == {RoleOrder[i] : i \in DOMAIN RoleOrder}
Slots == {SlotOrder[i] : i \in DOMAIN SlotOrder}
SlotRoles == {RoleOf[s] : s \in Slots}   \* availableSlotRoles

ASSUME PlannerAssumption ==
  /\ Nil \notin Proxies \cup Roles
  /\ SlotOrder \in Seq(Slots)
  /\ RoleOf \in [Slots -> Roles]
  /\ Taggings \subseteq [Proxies -> SUBSET Roles]
  /\ Preferences \subseteq [Roles -> Seq(Proxies)]
  /\ \A order \in Preferences, r \in Roles, p \in Proxies :
       \E i \in DOMAIN order[r] : order[r][i] = p

VARIABLES
  tags,      \* the roles a proxy is tagged for
  prefers,   \* compareCandidates, as the sequence it sorts the proxies into
  eligible,  \* the proxies queryEligibleCandidates returns
  assigned,  \* proxy_running_slots.proxy_id
  holding    \* free, leased and idle, or leased and running an attempt

vars == <<tags, prefers, eligible, assigned, holding>>

TypeOK ==
  /\ tags \in Taggings
  /\ prefers \in Preferences
  /\ eligible \subseteq Proxies
  /\ assigned \in [Slots -> Proxies \cup {Nil}]
  /\ holding \in [Slots -> {"free", "idle", "busy"}]

Init ==
  /\ tags \in Taggings
  /\ prefers \in Preferences
  /\ eligible = Proxies
  /\ assigned = [s \in Slots |-> Nil]
  /\ holding = [s \in Slots |-> "free"]
-----------------------------------------------------------------------------
Candidates(role) == IF role \in PolicyRoles THEN eligible ELSE {}

(* The member of set that comes first in a sequence. *)
FirstIn(seq, set) ==
  LET places == {i \in DOMAIN seq : seq[i] \in set} IN
  IF places = {} THEN Nil ELSE seq[CHOOSE i \in places : \A j \in places : i <= j]

(* pinnedRole, where the roles in available have slots: a detail proxy serves *)
(* channels when there are no detail slots.                                   *)
Pin(p, available) ==
  LET tagged == FirstIn(RoleOrder, tags[p]) IN
  IF tagged \in available THEN tagged
  ELSE IF tagged = "detail" /\ "channel" \in available THEN "channel"
  ELSE Nil

PinnedTo(p, role) == Pin(p, {role}) = role

(* Mutant: a pin to any role that has slots keeps a proxy from the others. *)
GenericEverywhere(p, role) == Pin(p, SlotRoles) = Nil

Generic(p, role) == Pin(p, {role}) = Nil

Given(plan) == {plan[s] : s \in DOMAIN plan} \ {Nil}

Assign(plan, s, p) == [x \in DOMAIN plan \cup {s} |-> IF x = s THEN p ELSE plan[x]]

(* The slots that hold one of the proxies dealt keep it (no two hold the same). *)
Keep(plan, slots, place, dealt) ==
  LET kept == {s \in slots \ DOMAIN plan : place[s] \in dealt \ Given(plan)} IN
  [s \in DOMAIN plan \cup kept |-> IF s \in kept THEN place[s] ELSE plan[s]]

(* One slot of a pass: if it is undecided, it gets the first proxy left. *)
Serve(plan, s, slots, order, dealt) ==
  LET p == FirstIn(order, dealt \ Given(plan)) IN
  IF s \in slots \ DOMAIN plan /\ p # Nil THEN Assign(plan, s, p) ELSE plan

(* The proxies dealt go, in their order, to the undecided slots, in theirs. *)
Deal(plan, slots, order, dealt) ==
  LET served[n \in 0 .. Len(SlotOrder)] ==
        IF n = 0 THEN plan ELSE Serve(served[n - 1], SlotOrder[n], slots, order, dealt)
  IN served[Len(SlotOrder)]

(* Mutant: generic proxies are dealt out anew. *)
NothingStays(p, role) == FALSE

StaysGeneric(p, role) == Generic(p, role)

(* planAssignments for one role: keep pinned, place pinned, keep generic, fill. *)
PlanRole(plan, role, place, locked, order) ==
  LET slots == {s \in Slots \ locked : RoleOf[s] = role}
      offered == Candidates(role) \ Given(plan)
      pinned == {p \in offered : PinnedTo(p, role)}
      stays == {p \in offered : StaysGeneric(p, role)}
      generic == {p \in offered : Generic(p, role)}
      placed == Deal(Keep(plan, slots, place, pinned), slots, order[role], pinned)
      filled == Deal(Keep(placed, slots, place, stays), slots, order[role], generic)
  IN [s \in DOMAIN plan \cup slots |-> IF s \in DOMAIN filled THEN filled[s] ELSE Nil]

(* planPolicyAssignments: locked slots, then the roles in order. *)
Plan(place, locked, order) ==
  LET ForRole(plan, role) == PlanRole(plan, role, place, locked, order)
      kept == Keep(<<>>, locked, place, Proxies)
      decided == ForRole(ForRole(ForRole(ForRole(kept, "discover"), "channel"), "query_quality"), "detail")
  IN [s \in Slots |-> IF s \in DOMAIN decided THEN decided[s] ELSE Nil]

Locked ==
  {s \in Slots : \/ holding[s] = "busy"
                 \/ holding[s] = "idle" /\ assigned[s] \in Candidates(RoleOf[s])}

(* The reserve a completion may give a slot: pins count over all roles. *)
Spare(s) == Candidates(RoleOf[s]) \ {assigned[x] : x \in Slots}

(* selectCompletionWarmStandby. *)
WarmStandby(s) ==
  LET Best(role) == FirstIn(prefers[RoleOf[s]], {p \in Spare(s) : Pin(p, SlotRoles) = role})
  IN IF Best(RoleOf[s]) # Nil THEN Best(RoleOf[s]) ELSE Best(Nil)
-----------------------------------------------------------------------------
Reconcile ==
  /\ assigned' = LET plan == Plan(assigned, Locked, prefers) IN
                 [s \in Slots |-> IF holding[s] = "busy" THEN assigned[s] ELSE plan[s]]
  /\ UNCHANGED <<tags, prefers, eligible, holding>>

Hold(s, from, to) == holding[s] = from /\ holding' = [holding EXCEPT ![s] = to]

Claim(s) == assigned[s] # Nil /\ Hold(s, "free", "idle") /\ UNCHANGED <<tags, prefers, eligible, assigned>>

BeginTask(s) ==
  /\ assigned[s] \in eligible
  /\ Hold(s, "idle", "busy")
  /\ UNCHANGED <<tags, prefers, eligible, assigned>>

CompleteKeepingRoute(s) == Hold(s, "busy", "idle") /\ UNCHANGED <<tags, prefers, eligible, assigned>>

(* Mutant: a slot without standby is no longer held. *)
CompleteGivingUp(s) ==
  /\ holding[s] = "busy"
  /\ holding' = [holding EXCEPT ![s] = IF WarmStandby(s) = Nil THEN "paused" ELSE "idle"]
  /\ assigned' = [assigned EXCEPT ![s] = WarmStandby(s)]
  /\ eligible' = eligible \ {assigned[s]}
  /\ UNCHANGED <<tags, prefers>>

(* The slot takes the standby, or pauses; the proxy it leaves goes out of service. *)
CompleteLeavingRoute(s) ==
  /\ Hold(s, "busy", "idle")
  /\ assigned' = [assigned EXCEPT ![s] = WarmStandby(s)]
  /\ eligible' = eligible \ {assigned[s]}
  /\ UNCHANGED <<tags, prefers>>

(* The lease is released, or has lapsed and is cleaned up. *)
LeaseEnds(s) ==
  /\ holding[s] # "free"
  /\ holding' = [holding EXCEPT ![s] = "free"]
  /\ UNCHANGED <<tags, prefers, eligible, assigned>>

HealthChanges(p) ==
  /\ eligible' = IF p \in eligible THEN eligible \ {p} ELSE eligible \cup {p}
  /\ UNCHANGED <<tags, prefers, assigned, holding>>

(* New measurements reorder the proxies. *)
Measure ==
  /\ prefers' \in Preferences
  /\ UNCHANGED <<tags, eligible, assigned, holding>>

Next ==
  \/ Reconcile \/ Measure
  \/ \E p \in Proxies : HealthChanges(p)
  \/ \E s \in Slots : \/ Claim(s) \/ BeginTask(s) \/ LeaseEnds(s)
                      \/ CompleteKeepingRoute(s) \/ CompleteLeavingRoute(s)

Spec == Init /\ [][Next]_vars
-----------------------------------------------------------------------------
(* The plan keeps the contract ProxyControl relies on, for several roles:     *)
(* locked slots keep their proxies, others get eligible ones, none is shared, *)
(* and no slot goes without while its role's policy offers one nobody has.    *)
PlanIsAdmissible ==
  Admissible(Plan(assigned, Locked, prefers), assigned, Locked,
             [s \in Slots |-> Candidates(RoleOf[s])], Nil)

(* Planning again changes nothing, even if meanwhile measurements reordered   *)
(* the proxies and workers leased some of the slots: generations advance once *)
(* for one change of health (ADR 0002).                                       *)
ReplanChangesNothing ==
  LET plan == Plan(assigned, Locked, prefers) IN
  \A order \in Preferences, leased \in SUBSET {s \in Slots : plan[s] \in eligible} :
    Plan(plan, Locked \cup leased, order) = plan

(* Whether a role is planned before another. *)
Before(r, q) ==
  \E i, j \in DOMAIN RoleOrder : i < j /\ RoleOrder[i] = r /\ RoleOrder[j] = q

(* A slot nobody leased loses a proxy still eligible only to a role planned   *)
(* before its own, or for a proxy pinned to its role: never to a reordering   *)
(* of preferences or to another slot's gap in its own role.                   *)
MovesHaveReason ==
  LET plan == Plan(assigned, Locked, prefers) IN
  \A s \in Slots \ Locked :
       LET p == assigned[s] IN
       p \in Candidates(RoleOf[s]) /\ plan[s] # p =>
         \/ \E x \in Slots : plan[x] = p /\ Before(RoleOf[x], RoleOf[s])
         \/ plan[s] # Nil /\ PinnedTo(plan[s], RoleOf[s]) /\ Generic(p, RoleOf[s])

(* The recovery document says a completion pauses a slot only without         *)
(* reserve, which is any eligible proxy no slot has.  It pauses it although   *)
(* there is one, when the reserve is pinned to another role that has slots.   *)
PausedOnlyWithoutReserve ==
  [][\A s \in Slots : holding[s] = "busy" /\ assigned[s] # Nil /\ assigned'[s] = Nil
                        => Spare(s) = {}]_vars
=============================================================================
