-------------------------- MODULE RouteActivation --------------------------
(***************************************************************************)
(* How a new route of a leased slot goes live: PostgreSQL holds the slot   *)
(* row with its activation claim, the data plane of the same process holds *)
(* a token per proxy user name, and no transaction spans the two.          *)
(* (route_activation.go, claim_route_publication.go of proxycontrol;       *)
(* handler.go and server.go of proxy.)                                     *)
(*                                                                         *)
(* One slot.  A caller is a goroutine of the manager: a reconciliation, a  *)
(* completion or a claim, each with its own copy of what it read.  Several *)
(* may work on the same route at once, any may stall between two steps,    *)
(* and a crash of the process loses all of them with the registry.         *)
(*                                                                         *)
(* Every change of route or holder renames the slot's proxy user, so under *)
(* a live lease the name stands for the fence of lease, proxy and route    *)
(* generation that the queries compare.  Names and claims are numbered in  *)
(* the order they are made; 0 stands for none.                             *)
(***************************************************************************)
EXTENDS Naturals

CONSTANTS Callers,
          MaxName,     \* bound of the model: last user name of the slot
          MaxClaim     \* bound of the model: last activation claim

ASSUME BoundsAssumption == MaxName \in Nat \ {0} /\ MaxClaim \in Nat

Names == 1..MaxName
LeaseClaim == MaxClaim + 1   \* "lease:<id>", the token of a claim's publication
Claims == 0..LeaseClaim
Term == {"ample", "short", "lapsed"}   \* ample: more than ten seconds left

Step == {"idle", "load", "verify", "begin", "silence", "prepare", "renew", "commit",
         "renew_again", "finalize", "resolve_begin", "resolve", "undo", "abandon",
         "reverify", "leave"}
Job == [name : 0..MaxName, old : 0..MaxName, claim : Claims, previous : Claims]
SlotRow == [name : 0..MaxName, old : 0..MaxName, claim : Claims, previous : Claims,
            status : {"unleased", "ready", "pending", "paused"}]
Token == [claim : Claims, phase : {"none", "activating", "committed"}]

NoJob == [name |-> 0, old |-> 0, claim |-> 0, previous |-> 0]
NoToken == [claim |-> 0, phase |-> "none"]

VARIABLES
  slot,       \* the slot row: user name, its predecessor, activation claim;
              \* ready is leased_idle or active_task with ready_after set
  term,       \* what is left of the slot's lease
  claimTerm,  \* .route_activation_claim_until
  lastClaim,  \* the claims made so far
  up,         \* the process runs and its registry is rebuilt
  token,      \* handler.activations
  retired,    \* handler.retiredUsers
  pc, job,    \* what each caller is about to do, and with what
  given,      \* history: the name last given to the worker as ready
  gaveUp      \* history: names withdrawn because a check after publication failed

rowVars == <<slot, term, claimTerm, lastClaim>>
registryVars == <<token, retired>>
historyVars == <<given, gaveUp>>
vars == <<rowVars, up, registryVars, pc, job, historyVars>>

TypeOK ==
  /\ slot \in SlotRow
  /\ term \in Term
  /\ claimTerm \in Term
  /\ lastClaim \in 0..MaxClaim
  /\ up \in BOOLEAN
  /\ token \in [Names -> Token]
  /\ retired \subseteq Names
  /\ pc \in [Callers -> Step]
  /\ job \in [Callers -> Job]
  /\ given \in 0..MaxName
  /\ gaveUp \subseteq Names

Init ==
  /\ slot = [name |-> 1, old |-> 0, claim |-> 0, previous |-> 0, status |-> "unleased"]
  /\ term = "lapsed"
  /\ claimTerm = "lapsed"
  /\ lastClaim = 0
  /\ up = TRUE
  /\ token = [n \in Names |-> NoToken]
  /\ retired = {1}
  /\ pc = [c \in Callers |-> "idle"]
  /\ job = [c \in Callers |-> NoJob]
  /\ given = 0
  /\ gaveUp = {}
-----------------------------------------------------------------------------
Live == slot.status # "unleased" /\ term # "lapsed"

(* What a managed user name must be to get through the data plane. *)
Admitted(n) == up /\ token[n].phase = "committed" /\ n \notin retired

(* The row still is the pending route a caller works for. *)
Fence(c) == Live /\ slot.status = "pending" /\ slot.name = job[c].name

(* ... and the claim it holds still is the row's, and has not expired. *)
ClaimFence(c) == Fence(c) /\ slot.claim = job[c].claim /\ claimTerm # "lapsed"

(* The row still is the ready route a claim publishes. *)
Current(c) == Live /\ slot.status = "ready" /\ slot.name = job[c].name

Publishes(c) == job[c].claim = LeaseClaim

Goto(c, step) == pc' = [pc EXCEPT ![c] = step]

(* The caller returns. *)
Return(c) == Goto(c, "idle") /\ job' = [job EXCEPT ![c] = NoJob]

(* An idle caller takes up work. *)
Take(c, step, work) ==
  /\ up
  /\ pc[c] = "idle"
  /\ Goto(c, step)
  /\ job' = [job EXCEPT ![c] = work]

(* RetireProxyUser: the name is blocked and its token forgotten. *)
Retire(n) == token' = [token EXCEPT ![n] = NoToken] /\ retired' = retired \cup {n}

(* rotateSlotCredential, and what every such update does to the claim. *)
Renamed(status, old) ==
  /\ slot.name < MaxName
  /\ slot' = [name |-> slot.name + 1, old |-> old, claim |-> 0, previous |-> 0, status |-> status]
  /\ claimTerm' = "lapsed"
  /\ UNCHANGED lastClaim
-----------------------------------------------------------------------------
(* The slot: what ProxyControl's actions do to its row. *)

(* Claim: the lease starts on a ready route, whose name is then published. *)
ClaimSlot(c) ==
  /\ slot.status = "unleased"
  /\ Renamed("ready", 0)
  /\ term' = "ample"
  /\ Take(c, "verify", [name |-> slot.name + 1, old |-> slot.name,
                        claim |-> LeaseClaim, previous |-> 0])
  /\ UNCHANGED <<up, registryVars, historyVars>>

(* Claim, replayed: the present route is published again if it is ready. *)
ReplayClaim(c) ==
  /\ Live /\ slot.status = "ready"
  /\ Take(c, "verify", [name |-> slot.name, old |-> 0, claim |-> LeaseClaim, previous |-> 0])
  /\ UNCHANGED <<rowVars, up, registryVars, historyVars>>

Pending(c, name) == Take(c, "load", [NoJob EXCEPT !.name = name])

(* A reconciliation or a completion replaces the route. *)
ReplaceRoute(c) ==
  /\ Live
  /\ Renamed("pending", slot.name)
  /\ Pending(c, slot.name + 1)
  /\ UNCHANGED <<term, up, registryVars, historyVars>>

(* A later reconciliation finds the route still pending. *)
RetryActivation(c) ==
  /\ Live /\ slot.status = "pending"
  /\ Pending(c, slot.name)
  /\ UNCHANGED <<rowVars, up, registryVars, historyVars>>

(* Without a reserve a reconciliation pauses the slot and retires its name ... *)
PauseIdle(c) ==
  /\ Live /\ slot.status # "paused"
  /\ Renamed("paused", 0)
  /\ Take(c, "leave", [NoJob EXCEPT !.name = slot.name])
  /\ UNCHANGED <<term, up, registryVars, historyVars>>

(* ... a completion pauses it and only drops cached credentials. *)
PauseCompleted ==
  /\ up
  /\ Live /\ slot.status = "ready"
  /\ Renamed("paused", 0)
  /\ UNCHANGED <<term, up, registryVars, pc, job, historyVars>>

Release(c) ==
  /\ Live
  /\ Renamed("unleased", 0)
  /\ term' = "lapsed"
  /\ Take(c, "leave", [NoJob EXCEPT !.name = slot.name])
  /\ UNCHANGED <<up, registryVars, historyVars>>

(* retireUser, after the transaction that renamed the slot. *)
Leave(c) ==
  /\ pc[c] = "leave"
  /\ Retire(job[c].name)
  /\ Return(c)
  /\ UNCHANGED <<rowVars, up, historyVars>>

Renew ==
  /\ up
  /\ Live
  /\ term' = "ample"
  /\ UNCHANGED <<slot, claimTerm, lastClaim, up, registryVars, pc, job, historyVars>>

(* cleanupExpiredLeases retires the name before it commits ... *)
Cleanup ==
  /\ up
  /\ slot.status # "unleased" /\ term = "lapsed"
  /\ Retire(slot.name)
  /\ Renamed("unleased", 0)
  /\ UNCHANGED <<term, up, pc, job, historyVars>>

(* ... or fails to commit. *)
CleanupFails ==
  /\ up
  /\ slot.status # "unleased" /\ term = "lapsed"
  /\ Retire(slot.name)
  /\ UNCHANGED <<rowVars, up, pc, job, historyVars>>

Aged(t) == IF t = "ample" THEN "short" ELSE "lapsed"

LeaseAges ==
  /\ Live
  /\ term' = Aged(term)
  /\ UNCHANGED <<slot, claimTerm, lastClaim, up, registryVars, pc, job, historyVars>>

ClaimAges ==
  /\ claimTerm # "lapsed"
  /\ claimTerm' = Aged(claimTerm)
  /\ UNCHANGED <<slot, term, lastClaim, up, registryVars, pc, job, historyVars>>
-----------------------------------------------------------------------------
(* activatePendingRoute. *)

LoadNothing(c) ==
  /\ pc[c] = "load"
  /\ ~Fence(c)
  /\ Return(c)
  /\ UNCHANGED <<rowVars, up, registryVars, historyVars>>

(* A claim that has not expired is shared, and not prolonged. *)
LoadClaim(c) ==
  /\ pc[c] = "load"
  /\ Fence(c)
  /\ claimTerm # "lapsed"
  /\ job' = [job EXCEPT ![c] = [name |-> slot.name, old |-> slot.old,
                                claim |-> slot.claim, previous |-> slot.previous]]
  /\ Goto(c, "begin")
  /\ UNCHANGED <<rowVars, up, registryVars, historyVars>>

(* An expired claim is taken over by a new one that names it. *)
NewClaim(c) ==
  /\ pc[c] = "load"
  /\ Fence(c)
  /\ claimTerm = "lapsed"
  /\ lastClaim < MaxClaim
  /\ lastClaim' = lastClaim + 1
  /\ slot' = [slot EXCEPT !.claim = lastClaim + 1, !.previous = slot.claim]
  /\ claimTerm' = "ample"
  /\ \/ /\ job' = [job EXCEPT ![c] = [name |-> slot.name, old |-> slot.old,
                                      claim |-> lastClaim + 1, previous |-> slot.claim]]
        /\ Goto(c, "begin")
     \/ Return(c)   \* the commit's answer is lost
  /\ UNCHANGED <<term, up, registryVars, historyVars>>

(* beginRouteActivation. *)
AlreadyCommitted(c) ==
  LET t == token[job[c].name] IN
  /\ t.phase = "committed"
  /\ t.claim = job[c].claim \/ (t.claim = 0 /\ job[c].previous = 0)

(* Mutant: the token in place need not be the claim's predecessor. *)
AnyPredecessor(c) == TRUE

(* The name's token is the claim's own, or its predecessor's. *)
MayBegin(c) ==
  LET t == token[job[c].name] IN
  IF t.phase = "none" THEN job[c].previous = 0 ELSE t.claim \in {job[c].claim, job[c].previous}

Failed(c) == IF Publishes(c) THEN Return(c) ELSE Goto(c, "resolve_begin") /\ UNCHANGED job

BeginCommitted(c) ==
  /\ pc[c] = "begin"
  /\ AlreadyCommitted(c)
  /\ Goto(c, IF Publishes(c) THEN "reverify" ELSE "renew_again")
  /\ UNCHANGED <<rowVars, up, registryVars, job, historyVars>>

Begin(c) ==
  /\ pc[c] = "begin"
  /\ ~AlreadyCommitted(c)
  /\ MayBegin(c)
  /\ token' = [token EXCEPT ![job[c].name] = [claim |-> job[c].claim, phase |-> "activating"]]
  /\ retired' = retired \cup {job[c].name}
  /\ Goto(c, "silence")
  /\ UNCHANGED <<rowVars, up, job, historyVars>>

BeginRefused(c) ==
  /\ pc[c] = "begin"
  /\ ~AlreadyCommitted(c)
  /\ ~MayBegin(c)
  /\ Failed(c)
  /\ UNCHANGED <<rowVars, up, registryVars, historyVars>>

SilenceOldName(c) == IF job[c].old # 0 THEN Retire(job[c].old) ELSE UNCHANGED registryVars

(* BeginProxyUserActivation, after its token: the old name is retired ... *)
Silence(c) ==
  /\ pc[c] = "silence"
  /\ SilenceOldName(c)
  /\ Goto(c, "prepare")
  /\ UNCHANGED <<rowVars, up, job, historyVars>>

(* ... and the new one loaded, which asks for a user of that name. *)
Prepare(c) ==
  /\ pc[c] = "prepare"
  /\ slot.name = job[c].name
  /\ Goto(c, IF Publishes(c) THEN "commit" ELSE "renew")
  /\ UNCHANGED <<rowVars, up, registryVars, job, historyVars>>

PrepareFails(c) ==
  /\ pc[c] = "prepare"
  /\ Failed(c)
  /\ UNCHANGED <<rowVars, up, registryVars, historyVars>>

RenewClaim(c) ==
  /\ pc[c] \in {"renew", "renew_again"}
  /\ ClaimFence(c)
  /\ claimTerm' = "ample"
  /\ \/ Goto(c, IF pc[c] = "renew" THEN "commit" ELSE "finalize")
     \/ Goto(c, "resolve")   \* the answer is lost
  /\ UNCHANGED <<slot, term, lastClaim, up, registryVars, job, historyVars>>

RenewClaimFails(c) ==
  /\ pc[c] \in {"renew", "renew_again"}
  /\ Goto(c, "resolve")
  /\ UNCHANGED <<rowVars, up, registryVars, job, historyVars>>

(* Mutant: whose claim the token holds is not asked. *)
CommitAnyClaim(c) ==
  LET n == job[c].name IN
  /\ pc[c] = "commit"
  /\ token[n].phase # "none"
  /\ token' = [token EXCEPT ![n].phase = "committed"]
  /\ retired' = retired \ {n}
  /\ Goto(c, IF Publishes(c) THEN "reverify" ELSE "renew_again")
  /\ UNCHANGED <<rowVars, up, job, historyVars>>

(* commitRouteActivation. *)
Commit(c) ==
  LET n == job[c].name IN
  /\ pc[c] = "commit"
  /\ token[n].phase # "none" /\ token[n].claim = job[c].claim
  /\ token' = [token EXCEPT ![n].phase = "committed"]
  /\ retired' = retired \ {n}
  /\ Goto(c, IF Publishes(c) THEN "reverify" ELSE "renew_again")
  /\ UNCHANGED <<rowVars, up, job, historyVars>>

CommitRefused(c) ==
  LET n == job[c].name IN
  /\ pc[c] = "commit"
  /\ token[n].phase = "none" \/ token[n].claim # job[c].claim
  /\ IF Publishes(c) THEN Return(c) ELSE Goto(c, "resolve") /\ UNCHANGED job
  /\ UNCHANGED <<rowVars, up, registryVars, historyVars>>

FinalizeFence(c) == ClaimFence(c) /\ claimTerm = "ample" /\ term = "ample"

Finalize(c) ==
  /\ pc[c] = "finalize"
  /\ FinalizeFence(c)
  /\ slot' = [slot EXCEPT !.status = "ready", !.old = 0, !.claim = 0, !.previous = 0]
  /\ claimTerm' = "lapsed"
  /\ given' = slot.name   \* from now on a renewal shows it
  /\ \/ Return(c)
     \/ Goto(c, "resolve") /\ UNCHANGED job   \* the answer is lost
  /\ UNCHANGED <<term, lastClaim, up, registryVars, gaveUp>>

FinalizeFails(c) ==
  /\ pc[c] = "finalize"
  /\ Goto(c, "resolve")
  /\ UNCHANGED <<rowVars, up, registryVars, job, historyVars>>

(* resolveUncertainRouteActivation: one read decides, a later step acts on it. *)
Resolve(c) ==
  /\ pc[c] \in {"resolve_begin", "resolve"}
  /\ \/ Return(c)   \* the route is ready, or the read fails
     \/ /\ ~Current(c)
        /\ Goto(c, IF pc[c] = "resolve" /\ ~(Live /\ slot.name = job[c].name)
                   THEN "abandon" ELSE "undo")
        /\ UNCHANGED job
  /\ UNCHANGED <<rowVars, up, registryVars, historyVars>>

Abandon(c) ==
  /\ pc[c] = "abandon"
  /\ Retire(job[c].name)
  /\ Return(c)
  /\ UNCHANGED <<rowVars, up, historyVars>>

(* Mutant: a committed token is not spared. *)
UndoCommitted(c) ==
  /\ pc[c] = "undo"
  /\ IF token[job[c].name].claim = job[c].claim
     THEN retired' = retired \cup {job[c].name} ELSE UNCHANGED retired
  /\ Return(c)
  /\ UNCHANGED <<rowVars, up, token, historyVars>>

(* retireProxyUserIfClaim: a committed token is left alone. *)
Undo(c) ==
  /\ pc[c] = "undo"
  /\ IF token[job[c].name] = [claim |-> job[c].claim, phase |-> "activating"]
     THEN retired' = retired \cup {job[c].name} ELSE UNCHANGED retired
  /\ Return(c)
  /\ UNCHANGED <<rowVars, up, token, historyVars>>
-----------------------------------------------------------------------------
(* publishClaimedRoute. *)

Verify(c) ==
  /\ pc[c] = "verify"
  /\ \/ Current(c) /\ Goto(c, "begin") /\ UNCHANGED job
     \/ Return(c)   \* the route has changed, or the read fails
  /\ UNCHANGED <<rowVars, up, registryVars, historyVars>>

(* The claim answers its worker. *)
Publish(c) ==
  /\ pc[c] = "reverify"
  /\ Current(c)
  /\ given' = job[c].name
  /\ Return(c)
  /\ UNCHANGED <<rowVars, up, registryVars, gaveUp>>

(* The route has changed ... *)
Withdraw(c) ==
  /\ pc[c] = "reverify"
  /\ ~Current(c)
  /\ Goto(c, "abandon")
  /\ UNCHANGED <<rowVars, up, registryVars, job, historyVars>>

(* ... or the read fails: the name is retired either way. *)
GiveUp(c) ==
  /\ pc[c] = "reverify"
  /\ Goto(c, "abandon")
  /\ gaveUp' = gaveUp \cup {job[c].name}
  /\ UNCHANGED <<rowVars, up, registryVars, job, given>>
-----------------------------------------------------------------------------
(* A crash of the process, and its start. *)
Crash ==
  /\ up
  /\ up' = FALSE
  /\ token' = [n \in Names |-> NoToken]
  /\ retired' = {}
  /\ pc' = [c \in Callers |-> "idle"]
  /\ job' = [c \in Callers |-> NoJob]
  /\ UNCHANGED <<rowVars, historyVars>>

(* Mutant: the control state is taken for the token's phase. *)
RebuiltFromState == [claim |-> slot.claim, phase |-> slot.status]

(* loadRouteActivationRegistry: what the row says of its name. *)
Rebuilt ==
  IF Live /\ slot.status = "ready" THEN [claim |-> slot.claim, phase |-> "committed"]
  ELSE IF Live /\ slot.status = "pending" /\ slot.claim # 0
       THEN [claim |-> slot.claim, phase |-> "activating"] ELSE NoToken

(* rebuildRouteActivationRegistry, before anything else is served. *)
Restart ==
  /\ ~up
  /\ up' = TRUE
  /\ token' = [token EXCEPT ![slot.name] = Rebuilt]
  /\ retired' = IF Rebuilt.phase = "committed" THEN {} ELSE {slot.name}
  /\ UNCHANGED <<rowVars, pc, job, historyVars>>
-----------------------------------------------------------------------------
SlotStep ==
  \/ Renew \/ PauseCompleted \/ Cleanup \/ CleanupFails \/ LeaseAges \/ ClaimAges
  \/ \E c \in Callers : \/ ClaimSlot(c) \/ ReplayClaim(c) \/ ReplaceRoute(c)
                        \/ RetryActivation(c) \/ PauseIdle(c) \/ Release(c) \/ Leave(c)

ActivationStep(c) ==
  \/ LoadNothing(c) \/ LoadClaim(c) \/ NewClaim(c)
  \/ BeginCommitted(c) \/ Begin(c) \/ BeginRefused(c) \/ Silence(c)
  \/ Prepare(c) \/ PrepareFails(c) \/ RenewClaim(c) \/ RenewClaimFails(c)
  \/ Commit(c) \/ CommitRefused(c) \/ Finalize(c) \/ FinalizeFails(c)
  \/ Resolve(c) \/ Abandon(c) \/ Undo(c)

PublicationStep(c) == Verify(c) \/ Publish(c) \/ Withdraw(c) \/ GiveUp(c)

Next ==
  \/ SlotStep \/ Crash \/ Restart
  \/ \E c \in Callers : ActivationStep(c) \/ PublicationStep(c)

Spec == Init /\ [][Next]_vars
-----------------------------------------------------------------------------
(* The name a worker was given as ready gets through the data plane for as   *)
(* long as the slot row says so: lost answers, late callers, takeovers and   *)
(* restarts never leave the row ready and the name retired.  Only a claim    *)
(* whose last read failed may have withdrawn it.                             *)
GivenNameAdmitted ==
  up /\ Live /\ slot.status = "ready" /\ given = slot.name
    => Admitted(slot.name) \/ slot.name \in gaveUp

(* The same without the exception.  The recovery document asks it of a       *)
(* finalized route under lost answers, database failures and restarts; a     *)
(* replayed claim whose last read fails breaks it.                           *)
NeverReadyAndRetired ==
  up /\ Live /\ slot.status = "ready" /\ given = slot.name => Admitted(slot.name)

(* The tokens of a name only move forward, in the order in which PostgreSQL  *)
(* granted the claims, until the name is retired: a late caller never puts   *)
(* back a claim that was taken over.                                         *)
TokensMoveForward ==
  [][\A n \in Names :
       token[n].phase # "none" /\ token'[n].phase # "none" /\ up'
         => /\ token'[n].claim >= token[n].claim
            /\ token'[n].claim = token[n].claim /\ token[n].phase = "committed"
                 => token'[n].phase = "committed"]_vars

(* A caller whose claim was taken over is powerless: while its route still   *)
(* is the slot's, a late Begin, Commit, retirement or Finalize changes       *)
(* neither what the data plane holds of the name nor the row.                *)
DelayedClaimPowerless ==
  [][\A c \in Callers :
       LET n == job[c].name IN
       /\ pc'[c] # pc[c] /\ up'
       /\ job[c].claim \in 1..MaxClaim
       /\ Live /\ slot.name = n
       /\ token[n].claim > job[c].claim
       => token'[n] = token[n] /\ (n \in retired' <=> n \in retired) /\ slot' = slot]_vars

(* A claim that took over an expired one can begin: the recovery document    *)
(* says so of every expired claim.  The data plane refuses it when the       *)
(* expired claim's owner never reached it.                                   *)
TakeoverMayBegin ==
  [][\A c \in Callers :
       pc[c] = "begin" /\ pc'[c] = "resolve_begin" => ~ClaimFence(c)]_vars
=============================================================================
