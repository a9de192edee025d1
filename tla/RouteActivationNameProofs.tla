--------------------- MODULE RouteActivationNameProofs ---------------------
(* The name a worker was given stays admitted, and a claim that was taken   *)
(* over has no effect any more: theorems about RouteActivation for any      *)
(* callers and bounds.                                                      *)
EXTENDS RouteActivationProofs

(* A caller at work on the present name of the slot. *)
On(c) == pc[c] # "idle" /\ job[c].name = slot.name

Committed(n) == token[n].phase = "committed"

(* The present name was given to the worker, and no read failed after that. *)
Holds == slot.status = "ready" /\ Live /\ given = slot.name /\ slot.name \notin gaveUp /\ up

(* What a caller has at its step: the name is the slot's or an older one,   *)
(* the claim is one that PostgreSQL granted, or the lease's own.            *)
Paper(c) ==
  /\ pc[c] # "idle" => job[c].name <= slot.name /\ job[c].old < job[c].name
  /\ pc[c] = "leave" => job[c].name < slot.name
  /\ job[c].previous < job[c].claim \/ (job[c].previous = 0 /\ job[c].claim = 0)
  /\ job[c].claim = LeaseClaim => job[c].previous = 0
  /\ job[c].claim = LeaseClaim \/ job[c].claim <= lastClaim
  /\ pc[c] \in {"idle", "load", "leave"} => job[c].claim = 0
  /\ pc[c] \in {"verify", "reverify"} => job[c].claim = LeaseClaim
  /\ pc[c] \in {"renew", "renew_again", "finalize", "resolve", "resolve_begin", "undo"}
       => job[c].claim \in 1..MaxClaim
  /\ pc[c] \in {"begin", "silence", "prepare", "commit"} => job[c].claim # 0

(* Who works on the present name, and with which claims. *)
Role(c) ==
  On(c) =>
    /\ Publishes(c) => slot.status = "ready"
    /\ slot.status = "pending" => job[c].claim <= slot.claim
    /\ slot.status = "ready" /\ given # slot.name => Publishes(c)

(* Whoever is past its commit finds the token committed, and nobody is left *)
(* who could take back a name that was given.                               *)
Past(c) ==
  On(c) /\ Live =>
    /\ pc[c] = "abandon" => Publishes(c) /\ slot.name \in gaveUp
    /\ pc[c] \in {"renew_again", "finalize"} /\ slot.status = "pending" /\ slot.claim = job[c].claim
         => token[slot.name] = [claim |-> slot.claim, phase |-> "committed"]
    /\ pc[c] = "reverify" => Committed(slot.name) \/ slot.name \in gaveUp

(* No caller has a claim that could begin anew what the worker was given. *)
Bound(c) == On(c) /\ Holds => Publishes(c) \/ job[c].claim <= token[slot.name].claim

Worker(c) == Paper(c) /\ Role(c) /\ Past(c) /\ Bound(c)

RowPaper ==
  /\ slot.old < slot.name
  /\ slot.previous < slot.claim \/ (slot.previous = 0 /\ slot.claim = 0)
  /\ slot.claim <= lastClaim
  /\ claimTerm # "lapsed" => slot.claim # 0

(* Names to come are unknown, and a committed name is not blocked. *)
Registry ==
  /\ \A m \in Names : /\ m > slot.name => token[m] = NoToken
                      /\ token[m].phase = "none" => token[m] = NoToken
                      /\ Committed(m) => m \notin retired
  /\ given <= slot.name
  /\ \A m \in gaveUp : m <= slot.name

PendingRow ==
  slot.status = "pending" =>
    /\ slot.name \notin gaveUp
    /\ token[slot.name].phase # "none" => token[slot.name].claim \in 1..slot.claim

Held == Holds => Committed(slot.name)

Globals == RowPaper /\ Registry /\ PendingRow /\ Held
NInv == OInv /\ Globals /\ \A c \in Callers : Worker(c)
-----------------------------------------------------------------------------
LEMMA NInvInit == Init => NInv
<1> SUFFICES ASSUME Init PROVE NInv
  OBVIOUS
<1> USE BoundsAssumption DEF Init, NoJob, NoToken, Names, LeaseClaim
<1>1. Globals
  BY DEF Globals, RowPaper, Registry, PendingRow, Held, Holds, Committed
<1>2. ASSUME NEW c \in Callers PROVE Worker(c)
  BY DEF Worker, Paper, Role, Past, Bound, On
<1> QED
  BY <1>1, <1>2, OInvInit DEF NInv

(* The types the proofs below use, with the values of a job and a token. *)
LEMMA Typed ==
  ASSUME TInv
  PROVE  /\ slot.name \in Names /\ slot.name \in Nat /\ slot.old \in Nat
         /\ slot.claim \in Nat /\ slot.previous \in Nat
         /\ lastClaim \in Nat /\ lastClaim <= MaxClaim /\ given \in Nat /\ gaveUp \subseteq Names
         /\ \A c \in Callers : /\ job[c].name \in Nat /\ job[c].old \in Nat
                               /\ job[c].claim \in Nat /\ job[c].previous \in Nat
                               /\ job[c].claim <= LeaseClaim /\ job[c].name <= MaxName
                               /\ pc[c] # "idle" => job[c].name \in Names
         /\ \A n \in Names : token[n].claim \in Nat /\ token[n] \in Token
         /\ DOMAIN token = Names /\ DOMAIN job = Callers /\ DOMAIN pc = Callers
         /\ LeaseClaim = MaxClaim + 1 /\ MaxClaim \in Nat /\ MaxName \in Nat
<1> USE BoundsAssumption DEF TInv, TypeOK, Named
<1>1. /\ slot.name \in Names /\ slot.name \in Nat /\ slot.old \in Nat
      /\ slot.claim \in Nat /\ slot.previous \in Nat
      /\ lastClaim \in Nat /\ lastClaim <= MaxClaim /\ given \in Nat /\ gaveUp \subseteq Names
  BY DEF SlotRow, Claims, LeaseClaim, Names
<1>2. ASSUME NEW c \in Callers
      PROVE  /\ job[c].name \in Nat /\ job[c].old \in Nat
             /\ job[c].claim \in Nat /\ job[c].previous \in Nat
             /\ job[c].claim <= LeaseClaim /\ job[c].name <= MaxName
             /\ pc[c] # "idle" => job[c].name \in Names
  BY DEF Job, Claims, LeaseClaim, Names
<1>3. ASSUME NEW n \in Names PROVE token[n].claim \in Nat /\ token[n] \in Token
  BY DEF Token, Claims, LeaseClaim
<1>4. DOMAIN token = Names /\ DOMAIN job = Callers /\ DOMAIN pc = Callers
  OBVIOUS
<1>5. LeaseClaim = MaxClaim + 1 /\ MaxClaim \in Nat /\ MaxName \in Nat
  BY DEF LeaseClaim
<1> QED
  BY <1>1, <1>2, <1>3, <1>4, <1>5

Counted == slot.name \in Nat /\ lastClaim \in Nat /\ slot.claim \in Nat

LEMMA TypedRow == TInv => Counted
  BY Typed DEF Counted

LEMMA TypedPrimed == TInv' => Counted'
  BY TypedRow, PTL
-----------------------------------------------------------------------------
(* What the small steps of a caller do. *)

LEMMA GotoEffect ==
  ASSUME TInv, NEW c \in Callers, NEW s, Goto(c, s)
  PROVE  pc'[c] = s /\ \A d \in Callers : d # c => pc'[d] = pc[d]
  BY DEF TInv, TypeOK, Goto

LEMMA ReturnEffect ==
  ASSUME TInv, NEW c \in Callers, Return(c)
  PROVE  /\ pc'[c] = "idle" /\ job'[c] = NoJob
         /\ \A d \in Callers : d # c => pc'[d] = pc[d] /\ job'[d] = job[d]
  BY DEF TInv, TypeOK, Return, Goto

LEMMA TakeEffect ==
  ASSUME TInv, NEW c \in Callers, NEW s, NEW w, Take(c, s, w)
  PROVE  /\ pc[c] = "idle" /\ pc'[c] = s /\ job'[c] = w
         /\ \A d \in Callers : d # c => pc'[d] = pc[d] /\ job'[d] = job[d]
  BY DEF TInv, TypeOK, Take, Goto

(* Renaming gives the next name, without a claim. *)
LEMMA RenamedEffect ==
  ASSUME TInv, RowPaper, NEW st, NEW old \in {0, slot.name}, Renamed(st, old)
  PROVE  /\ slot'.name = slot.name + 1 /\ slot'.name \in Names /\ slot'.status = st
         /\ slot'.claim = 0 /\ slot'.previous = 0
         /\ lastClaim' = lastClaim /\ RowPaper'
<1>1. slot.name \in Nat /\ lastClaim \in Nat /\ slot.name >= 1
  BY Typed DEF Names
<1> QED
  BY <1>1, Typed DEF Renamed, RowPaper, Names

(* Only the next name and a younger claim come. *)
Onward == slot.name <= slot'.name /\ lastClaim <= lastClaim'

(* A caller that does not step keeps its paper ... *)
LEMMA OthersPaper ==
  ASSUME TInv, TInv', Onward, NEW d \in Callers, pc'[d] = pc[d], job'[d] = job[d], Paper(d)
  PROVE  Paper(d)'
  BY Typed, TypedPrimed DEF Counted, Paper, Onward

(* ... and everything else when the route is the same, ... *)
Same ==
  /\ slot' = slot /\ lastClaim' = lastClaim /\ given' = given /\ gaveUp' = gaveUp /\ up' = up
  /\ token'[slot.name] = token[slot.name]
  /\ Live' => Live

LEMMA Stands ==
  ASSUME TInv, TInv', Same, NEW d \in Callers, pc'[d] = pc[d], job'[d] = job[d], Worker(d)
  PROVE  Worker(d)'
<1>1. Onward
  BY Typed DEF Same, Onward
<1>2. Paper(d)'
  BY <1>1, OthersPaper DEF Worker
<1>3. Role(d)' /\ Past(d)' /\ Bound(d)'
  BY DEF Worker, Role, Past, Bound, On, Publishes, Committed, Holds, Same
<1> QED
  BY <1>2, <1>3 DEF Worker

(* ... or when the route has a new name. *)
LEMMA Outdated ==
  ASSUME TInv, TInv', slot'.name = slot.name + 1, lastClaim' = lastClaim,
         NEW d \in Callers, pc'[d] = pc[d], job'[d] = job[d], Worker(d)
  PROVE  Worker(d)'
<1>1. Onward
  BY Typed DEF Onward
<1>2. Paper(d)'
  BY <1>1, OthersPaper DEF Worker
<1>3. ~On(d)'
  BY Typed DEF On, Worker, Paper
<1> QED
  BY <1>2, <1>3 DEF Worker, Role, Past, Bound

(* A caller back from its work has nothing to answer for. *)
LEMMA Idle ==
  ASSUME TInv', NEW c \in Callers, pc'[c] = "idle", job'[c] = NoJob
  PROVE  Worker(c)'
<1>1. /\ job'[c].name = 0 /\ job'[c].old = 0 /\ job'[c].claim = 0 /\ job'[c].previous = 0
      /\ 0 <= lastClaim'
  BY TypedPrimed DEF NoJob, Counted
<1>2. Paper(c)'
  BY <1>1 DEF Paper
<1> QED
  BY <1>2 DEF Worker, Role, Past, Bound, On

LEMMA Returned ==
  ASSUME TInv, TInv', NEW c \in Callers, Return(c)
  PROVE  Worker(c)'
  BY ReturnEffect, Idle

(* A caller that moves on keeps its role; only its step changes. *)
LEMMA Moved ==
  ASSUME TInv, TInv', Same, NEW c \in Callers, Worker(c), pc[c] # "idle", pc'[c] # "idle",
         job'[c] = job[c], Paper(c)', Past(c)'
  PROVE  Worker(c)'
  BY DEF Worker, Role, Bound, On, Publishes, Holds, Same
-----------------------------------------------------------------------------
(* The row, the registry and what the worker was given, under the changes   *)
(* that many actions share.                                                 *)

LEMMA GlobalsStand ==
  ASSUME Globals, Same, UNCHANGED registryVars, RowPaper'
  PROVE  Globals'
  BY DEF Globals, Same, registryVars, Registry, PendingRow, Held, Holds, Committed

LEMMA GlobalsRenamed ==
  ASSUME TInv, Globals, RowPaper', slot'.name = slot.name + 1, slot'.name \in Names,
         UNCHANGED <<given, gaveUp>>, UNCHANGED registryVars \/ Retire(slot.name)
  PROVE  Globals'
<1>1. slot.name \in Names /\ slot.name \in Nat /\ given \in Nat
  BY Typed
<1>2. \A m \in Names : m \in Nat
  BY DEF Names
<1>3. \A m \in Names : \/ token'[m] = token[m] /\ (m \in retired' <=> m \in retired)
                       \/ m = slot.name /\ token'[m] = NoToken
  <2>1. CASE UNCHANGED registryVars
    BY <2>1 DEF registryVars
  <2>2. CASE Retire(slot.name)
    BY <2>2, Typed DEF Retire
  <2> QED
    BY <2>1, <2>2
<1>4. Registry'
  <2>1. ASSUME NEW m \in Names
        PROVE  /\ m > slot.name + 1 => token'[m] = NoToken
               /\ token'[m].phase = "none" => token'[m] = NoToken
               /\ token'[m].phase = "committed" => m \notin retired'
    BY <1>1, <1>2, <1>3 DEF Globals, Registry, Committed, NoToken
  <2>2. \A m \in gaveUp : m \in Nat
    BY <1>2, Typed
  <2>3. given' <= slot'.name /\ \A m \in gaveUp' : m <= slot'.name
    BY <1>1, <2>2 DEF Globals, Registry
  <2> QED
    BY <2>1, <2>3 DEF Registry, Committed
<1>5. PendingRow'
  <2>1. token'[slot'.name] = NoToken
    BY <1>1, <1>3 DEF Globals, Registry
  <2>2. slot'.name \notin gaveUp'
    BY <1>1 DEF Globals, Registry
  <2> QED
    BY <2>1, <2>2 DEF PendingRow, NoToken
<1>6. Held'
  BY <1>1 DEF Held, Holds, Globals, Registry
<1> QED
  BY <1>4, <1>5, <1>6 DEF Globals

LEMMA GlobalsRetired ==
  ASSUME TInv, Globals, RowPaper', NEW n \in Names, Retire(n), n = slot.name => ~Holds,
         UNCHANGED <<slot, term, given, gaveUp, up>>
  PROVE  Globals'
<1>1. slot.name \in Names
  BY Typed
<1>2. /\ \A m \in Names : m # n => token'[m] = token[m] /\ (m \in retired' <=> m \in retired)
      /\ token'[n] = NoToken
  BY Typed DEF Retire
<1>3. Registry'
  BY <1>2 DEF Globals, Registry, Committed, NoToken
<1>4. PendingRow'
  BY <1>1, <1>2 DEF Globals, PendingRow, NoToken
<1>5. Held'
  BY <1>1, <1>2 DEF Globals, Held, Holds, Committed, Live
<1> QED
  BY <1>3, <1>4, <1>5 DEF Globals

(* A caller steps, or none does, and the route is the same: what is left to *)
(* show is the caller's own part.                                           *)
LEMMA Stepped ==
  ASSUME NInv, OInv', Same, Globals', NEW c \in Callers, Worker(c)',
         \A d \in Callers : d # c => pc'[d] = pc[d] /\ job'[d] = job[d]
  PROVE  NInv'
<1>1. TInv /\ TInv'
  BY DEF NInv, OInv
<1>2. ASSUME NEW d \in Callers, d # c PROVE Worker(d)'
  BY <1>1, <1>2, Stands DEF NInv
<1> QED
  BY <1>2 DEF NInv

LEMMA Unstepped ==
  ASSUME NInv, OInv', Same, Globals', UNCHANGED <<pc, job>>
  PROVE  NInv'
<1>1. TInv /\ TInv'
  BY DEF NInv, OInv
<1>2. ASSUME NEW d \in Callers PROVE Worker(d)'
  BY <1>1, Stands DEF NInv
<1> QED
  BY <1>2 DEF NInv

(* The same when the route has a new name. *)
LEMMA SteppedRenaming ==
  ASSUME NInv, OInv', Globals', slot'.name = slot.name + 1, lastClaim' = lastClaim,
         NEW c \in Callers, Worker(c)',
         \A d \in Callers : d # c => pc'[d] = pc[d] /\ job'[d] = job[d]
  PROVE  NInv'
<1>1. TInv /\ TInv'
  BY DEF NInv, OInv
<1>2. ASSUME NEW d \in Callers, d # c PROVE Worker(d)'
  BY <1>1, <1>2, Outdated DEF NInv
<1> QED
  BY <1>2 DEF NInv

LEMMA UnsteppedRenaming ==
  ASSUME NInv, OInv', Globals', slot'.name = slot.name + 1, lastClaim' = lastClaim,
         UNCHANGED <<pc, job>>
  PROVE  NInv'
<1>1. TInv /\ TInv'
  BY DEF NInv, OInv
<1>2. ASSUME NEW d \in Callers PROVE Worker(d)'
  BY <1>1, Outdated DEF NInv
<1> QED
  BY <1>2 DEF NInv

(* The frame of a step that touches neither row nor registry. *)
LEMMA Frame ==
  ASSUME NInv, UNCHANGED <<rowVars, registryVars, up, given, gaveUp>>
  PROVE  Same /\ Globals'
<1>1. Same /\ RowPaper'
  BY DEF NInv, Globals, RowPaper, Same, rowVars, registryVars, Live
<1> QED
  BY <1>1, GlobalsStand DEF NInv

-----------------------------------------------------------------------------
(* The slot's steps. *)

LEMMA Aging ==
  ASSUME NInv, OInv', Renew \/ LeaseAges \/ ClaimAges \/ CleanupFails PROVE NInv'
<1>o. TInv /\ TInv' /\ Globals
  BY DEF NInv, OInv
<1>1. CASE Renew \/ LeaseAges \/ ClaimAges
  <2>1. Same /\ RowPaper' /\ UNCHANGED registryVars /\ UNCHANGED <<pc, job>>
    BY <1>1, <1>o DEF Renew, LeaseAges, ClaimAges, Same, RowPaper, Globals, Live, registryVars, historyVars
  <2> QED
    BY <2>1, <1>o, GlobalsStand, Unstepped
<1>2. CASE CleanupFails
  <2>1. /\ slot.name \in Names /\ Retire(slot.name) /\ ~Live
        /\ UNCHANGED <<slot, term, claimTerm, lastClaim, up, given, gaveUp>> /\ UNCHANGED <<pc, job>>
    BY <1>2, <1>o, Typed DEF CleanupFails, rowVars, historyVars, Live
  <2>2. RowPaper'
    BY <1>o, <2>1 DEF Globals, RowPaper
  <2>3. Globals'
    BY <1>o, <2>1, <2>2, GlobalsRetired DEF Holds
  <2>4. ASSUME NEW d \in Callers PROVE Worker(d)'
    <3>1. Paper(d)'
      BY <2>1 DEF NInv, Worker, Paper
    <3>2. Role(d)'
      BY <2>1 DEF NInv, Worker, Role, On, Publishes
    <3>3. ~Live'
      BY <2>1 DEF Live
    <3> QED
      BY <3>1, <3>2, <3>3 DEF Worker, Past, Bound, Holds
  <2> QED
    BY <2>3, <2>4 DEF NInv
<1> QED
  BY <1>1, <1>2

LEMMA Renaming ==
  ASSUME NInv, OInv', PauseCompleted \/ Cleanup PROVE NInv'
<1>o. TInv /\ TInv' /\ Globals /\ RowPaper
  BY DEF NInv, OInv, Globals
<1>1. PICK st : Renamed(st, 0)
  BY DEF PauseCompleted, Cleanup
<1>2. slot'.name = slot.name + 1 /\ slot'.name \in Names /\ lastClaim' = lastClaim /\ RowPaper'
  BY <1>o, <1>1, RenamedEffect
<1>3. /\ UNCHANGED registryVars \/ Retire(slot.name)
      /\ UNCHANGED <<pc, job>> /\ UNCHANGED <<given, gaveUp>>
  BY DEF PauseCompleted, Cleanup, historyVars
<1>4. Globals'
  BY <1>o, <1>2, <1>3, GlobalsRenamed
<1> QED
  BY <1>2, <1>3, <1>4, UnsteppedRenaming

LEMMA CallerRenaming ==
  ASSUME NInv, OInv', NEW c \in Callers,
         ClaimSlot(c) \/ ReplaceRoute(c) \/ PauseIdle(c) \/ Release(c)
  PROVE  NInv'
<1>o. TInv /\ TInv' /\ Globals /\ RowPaper
  BY DEF NInv, OInv, Globals
<1>t. slot.name \in Nat /\ slot.name >= 1 /\ lastClaim \in Nat /\ MaxClaim \in Nat /\ LeaseClaim = MaxClaim + 1
  BY <1>o, Typed DEF Names
<1>1. PICK st \in {"ready", "pending", "paused", "unleased"}, old \in {0, slot.name} : Renamed(st, old)
  BY DEF ClaimSlot, ReplaceRoute, PauseIdle, Release
<1>2. /\ slot'.name = slot.name + 1 /\ slot'.name \in Names /\ slot'.status = st
      /\ lastClaim' = lastClaim /\ RowPaper' /\ slot'.claim = 0
  BY <1>o, <1>1, RenamedEffect
<1>3. UNCHANGED registryVars /\ UNCHANGED <<given, gaveUp>>
  BY DEF ClaimSlot, ReplaceRoute, PauseIdle, Release, historyVars
<1>4. Globals'
  BY <1>o, <1>2, <1>3, GlobalsRenamed
<1>5. PICK s, w :
        /\ Take(c, s, w)
        /\ \/ /\ s = "verify" /\ slot'.status = "ready"
              /\ w = [name |-> slot.name + 1, old |-> slot.name, claim |-> LeaseClaim, previous |-> 0]
           \/ s = "load" /\ w = [NoJob EXCEPT !.name = slot.name + 1] /\ slot'.status = "pending"
           \/ s = "leave" /\ w = [NoJob EXCEPT !.name = slot.name]
  BY <1>t DEF ClaimSlot, ReplaceRoute, PauseIdle, Release, Pending, Renamed
<1>6. /\ pc'[c] = s /\ job'[c] = w
      /\ \A d \in Callers : d # c => pc'[d] = pc[d] /\ job'[d] = job[d]
  BY <1>o, <1>5, TakeEffect
<1>7. Worker(c)'
  <2>1. Paper(c)'
    BY <1>2, <1>5, <1>6, <1>t DEF Paper, NoJob
  <2>2. Role(c)' /\ Past(c)' /\ Bound(c)'
    BY <1>2, <1>5, <1>6, <1>t DEF Role, Past, Bound, On, Publishes, NoJob, Holds
  <2> QED
    BY <2>1, <2>2 DEF Worker
<1> QED
  BY <1>2, <1>4, <1>6, <1>7, SteppedRenaming

(* A replayed claim, and a retry of a pending activation. *)
LEMMA Retaking ==
  ASSUME NInv, OInv', NEW c \in Callers, ReplayClaim(c) \/ RetryActivation(c)
  PROVE  NInv'
<1>o. TInv /\ TInv'
  BY DEF NInv, OInv
<1>t. /\ slot.name \in Nat /\ slot.name >= 1 /\ slot.claim \in Nat /\ lastClaim \in Nat
      /\ MaxClaim \in Nat /\ LeaseClaim = MaxClaim + 1
  BY <1>o, Typed DEF Names
<1>1. UNCHANGED <<rowVars, registryVars, up, given, gaveUp>>
  BY DEF ReplayClaim, RetryActivation, historyVars
<1>2. Same /\ Globals'
  BY <1>1, Frame
<1>3. PICK s, w :
        /\ Take(c, s, w)
        /\ \/ /\ s = "verify" /\ slot.status = "ready"
              /\ w = [name |-> slot.name, old |-> 0, claim |-> LeaseClaim, previous |-> 0]
           \/ s = "load" /\ w = [NoJob EXCEPT !.name = slot.name] /\ slot.status = "pending"
  BY DEF ReplayClaim, RetryActivation, Pending
<1>4. /\ pc'[c] = s /\ job'[c] = w
      /\ \A d \in Callers : d # c => pc'[d] = pc[d] /\ job'[d] = job[d]
  BY <1>o, <1>3, TakeEffect
<1>5. Worker(c)'
  <2>1. Paper(c)'
    BY <1>1, <1>3, <1>4, <1>t DEF Paper, NoJob, rowVars
  <2>2. Role(c)' /\ Past(c)' /\ Bound(c)'
    BY <1>1, <1>3, <1>4, <1>t DEF Role, Past, Bound, On, Publishes, NoJob, Holds, rowVars
  <2> QED
    BY <2>1, <2>2 DEF Worker
<1> QED
  BY <1>2, <1>4, <1>5, Stepped

(* A name is retired that is not what the worker holds, and its caller *)
(* returns or moves on.                                                *)
LEMMA Retiring ==
  ASSUME NInv, OInv', NEW c \in Callers, Leave(c) \/ Silence(c) PROVE NInv'
<1>o. TInv /\ TInv' /\ Globals /\ Worker(c)
  BY DEF NInv, OInv
<1>t. slot.name \in Nat /\ job[c].name \in Names /\ job[c].name \in Nat /\ job[c].old \in Nat /\ MaxName \in Nat
      /\ job[c].name <= MaxName
  BY <1>o, Typed DEF Leave, Silence
<1>1. UNCHANGED <<slot, term, lastClaim, up, given, gaveUp>> /\ RowPaper'
  BY <1>o DEF Leave, Silence, rowVars, historyVars, Globals, RowPaper
<1>2. PICK n \in Nat : n < slot.name /\ (IF n \in Names THEN Retire(n) ELSE UNCHANGED registryVars)
  BY <1>o, <1>t DEF Leave, Silence, SilenceOldName, Worker, Paper, Names
<1>3. Globals' /\ Same
  <2>1. token'[slot.name] = token[slot.name]
    BY <1>o, <1>t, <1>2, Typed DEF Retire, registryVars
  <2>2. Same
    BY <1>1, <2>1 DEF Same, Live
  <2>3. Globals'
    BY <1>o, <1>t, <1>1, <1>2, <2>2, GlobalsRetired, GlobalsStand
  <2> QED
    BY <2>2, <2>3
<1>4. CASE Leave(c)
  BY <1>o, <1>3, <1>4, Returned, ReturnEffect, Stepped DEF Leave
<1>5. CASE Silence(c)
  <2>1. /\ pc[c] = "silence" /\ pc'[c] = "prepare" /\ job' = job
        /\ \A d \in Callers : d # c => pc'[d] = pc[d] /\ job'[d] = job[d]
    BY <1>o, <1>5, GotoEffect DEF Silence
  <2>2. Paper(c)' /\ Past(c)'
    BY <1>o, <1>1, <2>1 DEF Worker, Paper, Past
  <2> QED
    BY <1>o, <1>3, <2>1, <2>2, Moved, Stepped
<1> QED
  BY <1>4, <1>5
-----------------------------------------------------------------------------
(* A caller's steps that touch neither row nor registry. *)

LEMMA QuietReturn ==
  ASSUME NInv, OInv', NEW c \in Callers, Return(c),
         UNCHANGED <<rowVars, registryVars, up, given, gaveUp>>
  PROVE  NInv'
<1>1. TInv /\ TInv'
  BY DEF NInv, OInv
<1> QED
  BY <1>1, Frame, Returned, ReturnEffect, Stepped

LEMMA QuietMove ==
  ASSUME NInv, OInv', NEW c \in Callers, NEW s, Goto(c, s), s # "idle", pc[c] # "idle",
         UNCHANGED job, UNCHANGED <<rowVars, registryVars, up, given, gaveUp>>, Paper(c)', Past(c)'
  PROVE  NInv'
<1>1. TInv /\ TInv' /\ Worker(c)
  BY DEF NInv, OInv
<1>2. pc'[c] = s /\ \A d \in Callers : d # c => pc'[d] = pc[d] /\ job'[d] = job[d]
  BY <1>1, GotoEffect
<1> QED
  BY <1>1, <1>2, Frame, Moved, Stepped

LEMMA QuietSteps ==
  ASSUME NInv, OInv', NEW c \in Callers,
         \/ LoadNothing(c) \/ LoadClaim(c) \/ BeginCommitted(c) \/ BeginRefused(c)
         \/ Prepare(c) \/ PrepareFails(c) \/ RenewClaimFails(c) \/ CommitRefused(c)
         \/ FinalizeFails(c) \/ Resolve(c) \/ Verify(c) \/ Withdraw(c)
  PROVE  NInv'
<1>o. TInv /\ TInv' /\ Globals /\ Worker(c)
  BY DEF NInv, OInv
<1>t. /\ job[c].claim \in Nat /\ job[c].claim <= LeaseClaim /\ job[c].previous \in Nat
      /\ MaxClaim \in Nat /\ LeaseClaim = MaxClaim + 1 /\ lastClaim \in Nat /\ lastClaim <= MaxClaim
      /\ slot.name \in Nat /\ slot.old \in Nat /\ slot.claim \in Nat /\ slot.previous \in Nat
      /\ slot.name \in Names /\ token[slot.name].claim \in Nat /\ token[slot.name] \in Token
  BY <1>o, Typed
<1>u. UNCHANGED <<rowVars, registryVars, up, given, gaveUp>>
  BY DEF LoadNothing, LoadClaim, BeginCommitted, BeginRefused, Prepare, PrepareFails, RenewClaimFails,
         CommitRefused, FinalizeFails, Resolve, Verify, Withdraw, historyVars
<1>r. /\ slot' = slot /\ lastClaim' = lastClaim /\ token' = token /\ gaveUp' = gaveUp /\ given' = given
      /\ up' = up /\ (Live' <=> Live)
  BY <1>u DEF rowVars, registryVars, Live
<1>q. ASSUME Return(c) PROVE NInv'
  BY <1>q, <1>u, QuietReturn
<1>g. ASSUME NEW s, Goto(c, s), s # "idle", pc[c] # "idle", UNCHANGED job, Paper(c)', Past(c)' PROVE NInv'
  BY <1>g, <1>u, QuietMove
<1>p. ASSUME NEW s, Goto(c, s), UNCHANGED job PROVE pc'[c] = s /\ job' = job
  BY <1>p, <1>o, GotoEffect
<1>1. CASE LoadNothing(c)
  BY <1>1, <1>q DEF LoadNothing
<1>2. CASE LoadClaim(c)
  <2> DEFINE w == [name |-> slot.name, old |-> slot.old, claim |-> slot.claim, previous |-> slot.previous]
  <2>1. /\ slot.status = "pending" /\ claimTerm # "lapsed" /\ pc'[c] = "begin" /\ job'[c] = w
        /\ \A d \in Callers : d # c => pc'[d] = pc[d] /\ job'[d] = job[d]
    <3>1. Goto(c, "begin") /\ job' = [job EXCEPT ![c] = w]
      BY <1>2 DEF LoadClaim
    <3> QED
      BY <1>2, <1>o, <3>1, GotoEffect, Typed DEF LoadClaim, Fence
  <2>2. Paper(c)'
    BY <1>o, <1>r, <1>t, <2>1 DEF Paper, Globals, RowPaper
  <2>3. Role(c)' /\ Past(c)' /\ Bound(c)'
    BY <1>o, <1>r, <1>t, <2>1 DEF Role, Past, Bound, On, Publishes, Globals, RowPaper, Holds
  <2> QED
    BY <1>u, <2>1, <2>2, <2>3, Frame, Stepped DEF Worker
<1>3. CASE BeginCommitted(c)
  <2>1. PICK s \in {"reverify", "renew_again"} :
          Goto(c, s) /\ (s = "reverify" <=> Publishes(c))
    BY <1>3 DEF BeginCommitted
  <2>2. pc[c] = "begin" /\ AlreadyCommitted(c) /\ job' = job /\ pc'[c] = s
    BY <1>3, <1>p, <2>1 DEF BeginCommitted
  <2>3. Paper(c)'
    BY <1>o, <1>r, <1>t, <2>1, <2>2 DEF Paper, Worker, Publishes
  <2>4. Past(c)'
    <3>1. ASSUME job[c].name = slot.name, slot.status = "pending", slot.claim = job[c].claim
          PROVE  token[slot.name] = [claim |-> slot.claim, phase |-> "committed"]
      <4>1. token[slot.name].phase = "committed" /\ token[slot.name].claim = slot.claim
        BY <1>o, <1>t, <2>2, <3>1 DEF AlreadyCommitted, Globals, PendingRow
      <4> QED
        BY <1>t, <4>1 DEF Token
    <3>2. ASSUME job[c].name = slot.name PROVE Committed(slot.name)
      BY <2>2, <3>2 DEF AlreadyCommitted, Committed
    <3> QED
      BY <1>o, <1>r, <2>1, <2>2, <3>1, <3>2 DEF Past, On, Committed
  <2> QED
    BY <1>3, <1>g, <2>1, <2>2, <2>3, <2>4
<1>f. ASSUME pc[c] # "idle", pc[c] \in {"begin", "prepare"}, Failed(c) PROVE NInv'
  <2>1. CASE Publishes(c)
    BY <1>f, <1>q, <2>1 DEF Failed
  <2>2. CASE ~Publishes(c)
    <3>1. Goto(c, "resolve_begin") /\ job' = job /\ pc'[c] = "resolve_begin"
      BY <1>f, <1>p, <2>2 DEF Failed
    <3>2. Paper(c)' /\ Past(c)'
      BY <1>f, <1>o, <1>r, <1>t, <2>2, <3>1 DEF Paper, Past, Worker, Publishes
    <3> QED
      BY <1>f, <1>g, <3>1, <3>2
  <2> QED
    BY <2>1, <2>2
<1>4. CASE BeginRefused(c) \/ PrepareFails(c)
  BY <1>4, <1>f DEF BeginRefused, PrepareFails
<1>5. CASE Prepare(c)
  <2>1. PICK s \in {"commit", "renew"} : Goto(c, s) /\ (s = "commit" <=> Publishes(c))
    BY <1>5 DEF Prepare
  <2>2. pc[c] = "prepare" /\ job' = job /\ pc'[c] = s
    BY <1>5, <1>p, <2>1 DEF Prepare
  <2>3. Paper(c)' /\ Past(c)'
    BY <1>o, <1>r, <1>t, <2>1, <2>2 DEF Paper, Past, Worker, Publishes
  <2> QED
    BY <1>g, <2>1, <2>2, <2>3
<1>6. CASE RenewClaimFails(c) \/ FinalizeFails(c)
  <2>1. Goto(c, "resolve") /\ pc[c] \in {"renew", "renew_again", "finalize"} /\ job' = job
    BY <1>6 DEF RenewClaimFails, FinalizeFails
  <2>2. pc'[c] = "resolve"
    BY <1>p, <2>1
  <2>3. Paper(c)' /\ Past(c)'
    BY <1>o, <1>r, <2>1, <2>2 DEF Paper, Past, Worker
  <2> QED
    BY <1>g, <2>1, <2>3
<1>7. CASE CommitRefused(c)
  <2>1. CASE Publishes(c)
    BY <1>7, <1>q, <2>1 DEF CommitRefused
  <2>2. CASE ~Publishes(c)
    <3>1. Goto(c, "resolve") /\ job' = job /\ pc'[c] = "resolve" /\ pc[c] = "commit"
      BY <1>7, <1>p, <2>2 DEF CommitRefused
    <3>2. Paper(c)' /\ Past(c)'
      BY <1>o, <1>r, <1>t, <2>2, <3>1 DEF Paper, Past, Worker, Publishes
    <3> QED
      BY <1>g, <3>1, <3>2
  <2> QED
    BY <2>1, <2>2
<1>8. CASE Resolve(c)
  <2>1. CASE Return(c)
    BY <1>q, <2>1
  <2>2. CASE ~Return(c)
    <3>1. PICK s \in {"abandon", "undo"} :
            /\ Goto(c, s) /\ job' = job /\ pc[c] \in {"resolve_begin", "resolve"}
            /\ s = "abandon" => ~(Live /\ slot.name = job[c].name)
      BY <1>8, <2>2 DEF Resolve
    <3>2. pc'[c] = s
      BY <1>p, <3>1
    <3>3. Paper(c)' /\ Past(c)'
      BY <1>o, <1>r, <3>1, <3>2 DEF Paper, Past, Worker, On
    <3> QED
      BY <1>g, <3>1, <3>3
  <2> QED
    BY <2>1, <2>2
<1>9. CASE Verify(c)
  <2>1. CASE Return(c)
    BY <1>q, <2>1
  <2>2. CASE ~Return(c)
    <3>1. Goto(c, "begin") /\ job' = job /\ pc'[c] = "begin" /\ pc[c] = "verify"
      BY <1>9, <1>p, <2>2 DEF Verify
    <3>2. Paper(c)' /\ Past(c)'
      BY <1>o, <1>r, <1>t, <3>1 DEF Paper, Past, Worker
    <3> QED
      BY <1>g, <3>1, <3>2
  <2> QED
    BY <2>1, <2>2
<1>10. CASE Withdraw(c)
  <2>1. Goto(c, "abandon") /\ job' = job /\ pc'[c] = "abandon" /\ pc[c] = "reverify" /\ ~Current(c)
    BY <1>10, <1>p DEF Withdraw
  <2>2. Paper(c)' /\ Past(c)'
    BY <1>o, <1>r, <2>1 DEF Paper, Past, Role, On, Worker, Current, Publishes
  <2> QED
    BY <1>g, <2>1, <2>2
<1> QED
  BY <1>1, <1>2, <1>3, <1>4, <1>5, <1>6, <1>7, <1>8, <1>9, <1>10

-----------------------------------------------------------------------------
(* The steps of an activation that change the row. *)

LEMMA Renewing ==
  ASSUME NInv, OInv', NEW c \in Callers, RenewClaim(c) PROVE NInv'
<1>o. TInv /\ TInv' /\ Globals /\ Worker(c)
  BY DEF NInv, OInv
<1>1. PICK s \in {"commit", "finalize", "resolve"} :
        Goto(c, s) /\ (s = "finalize" => pc[c] = "renew_again")
  BY DEF RenewClaim
<1>2. /\ pc[c] \in {"renew", "renew_again"} /\ job' = job /\ pc'[c] = s
      /\ \A d \in Callers : d # c => pc'[d] = pc[d] /\ job'[d] = job[d]
  BY <1>o, <1>1, GotoEffect DEF RenewClaim
<1>3. Same /\ UNCHANGED registryVars
  BY DEF RenewClaim, Same, Live, registryVars, historyVars
<1>4. RowPaper'
  BY <1>o, <1>2 DEF RenewClaim, ClaimFence, Worker, Paper, Globals, RowPaper
<1>5. Paper(c)'
  BY <1>o, <1>1, <1>2, <1>3 DEF Worker, Paper, Same
<1>6. Past(c)'
  BY <1>o, <1>1, <1>2, <1>3 DEF Worker, Past, On, Same, Committed
<1> QED
  BY <1>o, <1>1, <1>2, <1>3, <1>4, <1>5, <1>6, GlobalsStand, Moved, Stepped

LEMMA Claiming ==
  ASSUME NInv, OInv', NEW c \in Callers, NewClaim(c) PROVE NInv'
<1>o. TInv /\ TInv' /\ Globals /\ Worker(c)
  BY DEF NInv, OInv
<1>t. /\ MaxClaim \in Nat /\ LeaseClaim = MaxClaim + 1 /\ lastClaim \in Nat /\ lastClaim < MaxClaim
      /\ slot.name \in Nat /\ slot.old \in Nat /\ slot.claim \in Nat /\ slot.previous \in Nat
      /\ slot.name \in Names /\ token[slot.name].claim \in Nat /\ slot.claim <= lastClaim
  BY <1>o, Typed DEF NewClaim, Globals, RowPaper
<1>1. /\ slot.status = "pending" /\ Live /\ lastClaim' = lastClaim + 1
      /\ slot'.name = slot.name /\ slot'.old = slot.old /\ slot'.status = slot.status
      /\ slot'.claim = lastClaim + 1 /\ slot'.previous = slot.claim
      /\ token' = token /\ retired' = retired /\ given' = given /\ gaveUp' = gaveUp
  <2>1. slot \in [name : 0..MaxName, old : 0..MaxName, claim : Claims, previous : Claims,
                  status : {"unleased", "ready", "pending", "paused"}]
    BY <1>o DEF TInv, TypeOK, SlotRow
  <2> QED
    BY <2>1 DEF NewClaim, Fence, registryVars, historyVars
<1>2. Globals'
  <2>1. RowPaper'
    BY <1>o, <1>t, <1>1 DEF Globals, RowPaper
  <2>2. Registry'
    BY <1>o, <1>1 DEF Globals, Registry, Committed
  <2>3. PendingRow'
    BY <1>o, <1>t, <1>1 DEF Globals, PendingRow
  <2>4. Held'
    BY <1>1 DEF Held, Holds
  <2> QED
    BY <2>1, <2>2, <2>3, <2>4 DEF Globals
<1>3. Onward
  BY <1>t, <1>1 DEF Onward
<1>4. ASSUME NEW d \in Callers, pc'[d] = pc[d], job'[d] = job[d] PROVE Worker(d)'
  <2>1. Worker(d) /\ job[d].claim \in Nat
    BY <1>o, Typed DEF NInv
  <2>2. Paper(d)'
    BY <1>o, <1>3, <1>4, <2>1, OthersPaper DEF Worker
  <2>3. Role(d)'
    BY <1>t, <1>1, <1>4, <2>1 DEF Worker, Role, On, Publishes
  <2>4. Past(d)' /\ Bound(d)'
    BY <1>t, <1>1, <1>4, <2>1 DEF Worker, Past, Bound, Role, On, Publishes, Committed, Holds
  <2> QED
    BY <2>2, <2>3, <2>4 DEF Worker
<1>5. CASE Return(c)
  BY <1>o, <1>2, <1>4, <1>5, ReturnEffect, Returned DEF NInv
<1>6. CASE ~Return(c)
  <2> DEFINE w == [name |-> slot.name, old |-> slot.old, claim |-> lastClaim + 1, previous |-> slot.claim]
  <2>1. Goto(c, "begin") /\ job' = [job EXCEPT ![c] = w]
    BY <1>6 DEF NewClaim
  <2>2. /\ pc'[c] = "begin" /\ job'[c] = w
        /\ \A d \in Callers : d # c => pc'[d] = pc[d] /\ job'[d] = job[d]
    BY <1>o, <2>1, GotoEffect, Typed
  <2>3. Paper(c)'
    BY <1>o, <1>t, <1>1, <2>2 DEF Paper, Globals, RowPaper
  <2>4. Role(c)' /\ Past(c)' /\ Bound(c)'
    BY <1>t, <1>1, <2>2 DEF Role, Past, Bound, On, Publishes, Holds
  <2> QED
    BY <1>2, <1>4, <2>2, <2>3, <2>4 DEF NInv, Worker
<1> QED
  BY <1>5, <1>6

LEMMA Finalizing ==
  ASSUME NInv, OInv', NEW c \in Callers, Finalize(c) PROVE NInv'
<1>o. TInv /\ TInv' /\ Globals /\ Worker(c)
  BY DEF NInv, OInv
<1>t. /\ lastClaim \in Nat /\ slot.name \in Nat /\ slot.name >= 1 /\ slot.claim \in Nat /\ slot.name \in Names
  BY <1>o, Typed DEF Names
<1>1. /\ slot.status = "pending" /\ Live /\ slot.name = job[c].name /\ slot.claim = job[c].claim
      /\ pc[c] = "finalize" /\ given' = slot.name
      /\ slot'.name = slot.name /\ slot'.old = 0 /\ slot'.status = "ready"
      /\ slot'.claim = 0 /\ slot'.previous = 0 /\ claimTerm' = "lapsed" /\ lastClaim' = lastClaim
      /\ token' = token /\ retired' = retired /\ gaveUp' = gaveUp
  <2>1. slot \in [name : 0..MaxName, old : 0..MaxName, claim : Claims, previous : Claims,
                  status : {"unleased", "ready", "pending", "paused"}]
    BY <1>o DEF TInv, TypeOK, SlotRow
  <2> QED
    BY <2>1 DEF Finalize, FinalizeFence, ClaimFence, Fence, registryVars
<1>2. token[slot.name] = [claim |-> slot.claim, phase |-> "committed"]
  BY <1>o, <1>1 DEF Worker, Past, On
<1>3. Globals'
  <2>1. RowPaper'
    BY <1>t, <1>1 DEF RowPaper
  <2>2. Registry'
    BY <1>o, <1>t, <1>1 DEF Globals, Registry, Committed
  <2>3. PendingRow' /\ Held'
    BY <1>1, <1>2 DEF PendingRow, Held, Committed
  <2> QED
    BY <2>1, <2>2, <2>3 DEF Globals
<1>4. ASSUME NEW d \in Callers, job'[d] = job[d],
             pc'[d] = pc[d] \/ (d = c /\ pc'[d] = "resolve")
      PROVE  Worker(d)'
  <2>1. Worker(d) /\ job[d].claim \in Nat /\ (pc'[d] # "idle" => pc[d] # "idle")
    BY <1>o, <1>1, <1>4, Typed DEF NInv
  <2>2. Paper(d)'
    BY <1>1, <1>4, <2>1 DEF Worker, Paper
  <2>3. On(d)' => On(d) /\ ~Publishes(d) /\ job[d].claim <= slot.claim
    BY <1>1, <1>4, <2>1 DEF Worker, Role, On
  <2>4. Role(d)'
    BY <1>1 DEF Role
  <2>5. Bound(d)'
    BY <1>1, <1>2, <1>4, <2>3 DEF Bound, Publishes
  <2>6. Past(d)'
    BY <1>1, <1>4, <2>1, <2>3 DEF Past, Worker, Paper, Publishes
  <2> QED
    BY <2>2, <2>4, <2>5, <2>6 DEF Worker
<1>5. CASE Return(c)
  BY <1>o, <1>3, <1>4, <1>5, ReturnEffect, Returned DEF NInv
<1>6. CASE ~Return(c)
  <2>1. /\ pc'[c] = "resolve" /\ job' = job
        /\ \A d \in Callers : d # c => pc'[d] = pc[d]
    BY <1>o, <1>6, GotoEffect DEF Finalize
  <2> QED
    BY <1>3, <1>4, <2>1 DEF NInv
<1> QED
  BY <1>5, <1>6

-----------------------------------------------------------------------------
(* The steps of an activation that change the registry. *)

(* Nothing that was given, and nothing that a claim already committed, is   *)
(* begun anew.                                                              *)
LEMMA NothingUndone ==
  ASSUME NInv, NEW c \in Callers, Begin(c), On(c), Live, Committed(slot.name)
  PROVE  /\ slot.status = "ready" => ~Holds /\ (given = slot.name => slot.name \in gaveUp)
         /\ slot.status = "pending" => token[slot.name].claim # slot.claim
<1>o. TInv /\ Globals /\ Worker(c) /\ DownEmpty
  BY DEF NInv, OInv
<1>t. /\ job[c].claim \in Nat /\ job[c].previous \in Nat /\ slot.claim \in Nat
      /\ slot.name \in Names /\ token[slot.name].claim \in Nat
  BY <1>o, Typed
<1>1. /\ pc[c] = "begin" /\ job[c].name = slot.name /\ token[slot.name].phase = "committed"
      /\ token[slot.name].claim # job[c].claim /\ token[slot.name].claim = job[c].previous
      /\ job[c].previous # 0 /\ up
  BY <1>o DEF Begin, AlreadyCommitted, MayBegin, On, Committed, DownEmpty
<1>2. ~Publishes(c) /\ job[c].previous < job[c].claim
  BY <1>o, <1>1 DEF Worker, Paper, Publishes
<1>3. ~Holds
  BY <1>o, <1>t, <1>1, <1>2 DEF Worker, Bound
<1>4. slot.status = "ready" => given = slot.name
  BY <1>o, <1>2 DEF Worker, Role
<1>5. slot.status = "pending" => token[slot.name].claim # slot.claim
  BY <1>o, <1>t, <1>1, <1>2 DEF Worker, Role
<1> QED
  BY <1>1, <1>3, <1>4, <1>5 DEF Holds

LEMMA Beginning ==
  ASSUME NInv, OInv', NEW c \in Callers, Begin(c) PROVE NInv'
<1>o. TInv /\ TInv' /\ Globals /\ Worker(c)
  BY DEF NInv, OInv
<1>t. /\ job[c].claim \in Nat /\ slot.name \in Nat /\ job[c].name \in Nat /\ slot.claim \in Nat
      /\ slot.name \in Names /\ job[c].name \in Names /\ lastClaim \in Nat
  BY <1>o, Typed DEF Begin
<1> DEFINE n == job[c].name
           t == [claim |-> job[c].claim, phase |-> "activating"]
<1>1. /\ pc[c] = "begin" /\ pc'[c] = "silence" /\ job' = job
      /\ \A d \in Callers : d # c => pc'[d] = pc[d] /\ job'[d] = job[d]
  BY <1>o, GotoEffect DEF Begin
<1>2. /\ slot' = slot /\ lastClaim' = lastClaim /\ given' = given /\ gaveUp' = gaveUp /\ up' = up
      /\ (Live' <=> Live) /\ claimTerm' = claimTerm
      /\ token'[n] = t /\ \A m \in Names : m # n => token'[m] = token[m]
      /\ retired' = retired \cup {n}
  BY <1>o, <1>t, Typed DEF Begin, rowVars, historyVars, Live
<1>3. On(c) => n = slot.name
  BY DEF On
<1>4. Globals'
  <2>1. RowPaper'
    BY <1>o, <1>2 DEF Globals, RowPaper
  <2>2. Registry'
    <3>1. n <= slot.name
      BY <1>o, <1>1 DEF Worker, Paper
    <3>2. ASSUME NEW m \in Names
          PROVE  /\ m > slot.name => token'[m] = NoToken
                 /\ token'[m].phase = "none" => token'[m] = NoToken
                 /\ token'[m].phase = "committed" => m \notin retired'
      <4>1. CASE m = n
        BY <1>2, <1>t, <3>1, <4>1
      <4>2. CASE m # n
        BY <1>o, <1>2, <4>2 DEF Globals, Registry, Committed
      <4> QED
        BY <4>1, <4>2
    <3> QED
      BY <1>o, <1>2, <3>2 DEF Globals, Registry, Committed
  <2>3. PendingRow'
    <3>1. CASE n = slot.name
      BY <1>o, <1>t, <1>1, <1>2, <3>1 DEF Globals, PendingRow, Worker, Paper, Role, On
    <3>2. CASE n # slot.name
      BY <1>o, <1>t, <1>2, <3>2 DEF Globals, PendingRow
    <3> QED
      BY <3>1, <3>2
  <2>4. Held'
    <3>1. CASE n = slot.name
      <4>1. ~Holds
        BY <1>o, <1>1, <3>1, NothingUndone DEF Globals, Held, On, Holds
      <4> QED
        BY <1>2, <4>1 DEF Held, Holds
    <3>2. CASE n # slot.name
      BY <1>o, <1>t, <1>2, <3>2 DEF Globals, Held, Holds, Committed
    <3> QED
      BY <3>1, <3>2
  <2> QED
    BY <2>1, <2>2, <2>3, <2>4 DEF Globals
<1>5. ASSUME NEW d \in Callers PROVE Worker(d)'
  <2>1. Worker(d) /\ (pc'[d] = pc[d] \/ (d = c /\ pc'[d] = "silence" /\ pc[d] = "begin"))
    BY <1>1 DEF NInv
  <2>2. Paper(d)'
    BY <1>1, <1>2, <2>1 DEF Worker, Paper
  <2>3. Role(d)'
    BY <1>1, <1>2, <2>1 DEF Worker, Role, On, Publishes
  <2>4. CASE n # slot.name
    BY <1>1, <1>2, <1>t, <2>1, <2>2, <2>3, <2>4 DEF Worker, Past, Bound, On, Publishes, Committed, Holds
  <2>5. CASE n = slot.name
    <3>1. Holds => ~Committed(slot.name)
      BY <1>1, <2>5, NothingUndone DEF On, Holds
    <3>2. Bound(d)'
      BY <1>o, <1>2, <3>1 DEF Bound, Holds, Globals, Held
    <3>3. Past(d)'
      <4>1. CASE pc[d] \in {"renew_again", "finalize"}
        BY <1>1, <1>2, <2>1, <2>5, <4>1, NothingUndone DEF Worker, Past, On, Publishes, Committed
      <4>2. CASE pc[d] = "reverify"
        <5>1. On(d) => slot.status = "ready"
          BY <2>1, <4>2 DEF Worker, Role, Paper, Publishes
        <5>2. On(d) /\ Live => slot.name \in gaveUp
          <6>1. SUFFICES ASSUME On(d), Live, Committed(slot.name), slot.name \notin gaveUp PROVE FALSE
            BY <2>1, <4>2 DEF Worker, Past
          <6>2. given # slot.name
            BY <1>1, <2>5, <5>1, <6>1, NothingUndone DEF On
          <6>3. Publishes(c)
            BY <1>o, <1>1, <2>5, <5>1, <6>1, <6>2 DEF Worker, Role, On
          <6>4. token[slot.name].claim # 0
            BY <1>o, <1>1, <2>5, <6>1, <6>3 DEF Begin, AlreadyCommitted, MayBegin, Committed, Worker, Paper,
               Publishes
          <6>5. token[slot.name].claim = job[c].previous
            BY <2>5, <6>1 DEF Begin, AlreadyCommitted, MayBegin, Committed
          <6> QED
            BY <1>o, <6>3, <6>4, <6>5 DEF Worker, Paper, Publishes
        <5> QED
          BY <1>1, <1>2, <2>1, <4>2, <5>2 DEF Past, On
      <4>3. CASE pc[d] \notin {"renew_again", "finalize", "reverify"}
        BY <1>1, <1>2, <2>1, <4>3 DEF Worker, Past, On, Publishes
      <4> QED
        BY <4>1, <4>2, <4>3
    <3> QED
      BY <2>2, <2>3, <3>2, <3>3 DEF Worker
  <2> QED
    BY <2>4, <2>5
<1> QED
  BY <1>4, <1>5 DEF NInv

LEMMA Committing ==
  ASSUME NInv, OInv', NEW c \in Callers, Commit(c) PROVE NInv'
<1>o. TInv /\ TInv' /\ Globals /\ Worker(c)
  BY DEF NInv, OInv
<1> DEFINE n == job[c].name
<1>t. /\ job[c].claim \in Nat /\ job[c].claim <= LeaseClaim /\ slot.name \in Names /\ n \in Names
      /\ MaxClaim \in Nat /\ LeaseClaim = MaxClaim + 1 /\ token[n] \in Token
  BY <1>o, Typed DEF Commit
<1>1. PICK s \in {"reverify", "renew_again"} : Goto(c, s) /\ (s = "reverify" <=> Publishes(c))
  BY DEF Commit
<1>2. /\ pc[c] = "commit" /\ pc'[c] = s /\ job' = job
      /\ \A d \in Callers : d # c => pc'[d] = pc[d] /\ job'[d] = job[d]
  BY <1>o, <1>1, GotoEffect DEF Commit
<1>3. /\ slot' = slot /\ lastClaim' = lastClaim /\ given' = given /\ gaveUp' = gaveUp /\ up' = up
      /\ (Live' <=> Live) /\ claimTerm' = claimTerm
      /\ \A m \in Names : m # n => token'[m] = token[m]
      /\ retired' = retired \ {n}
  BY <1>o, <1>t, Typed DEF Commit, rowVars, historyVars, Live
<1>4. token'[n] = [claim |-> job[c].claim, phase |-> "committed"] /\ token[n].claim = job[c].claim
      /\ token[n].phase # "none"
  <2>1. token[n] \in [claim : Claims, phase : {"none", "activating", "committed"}]
    BY <1>t DEF Token
  <2> QED
    BY <1>o, <1>t, <2>1, Typed DEF Commit
<1>5. Globals'
  <2>1. RowPaper'
    BY <1>o, <1>3 DEF Globals, RowPaper
  <2>2. Registry'
    <3>1. \A m \in Names : m # n => (m \in retired' <=> m \in retired)
      BY <1>3
    <3>2. n \notin retired' /\ token[n] # NoToken
      BY <1>3, <1>4 DEF NoToken
    <3> QED
      BY <1>o, <1>3, <1>4, <1>t, <3>1, <3>2 DEF Globals, Registry, Committed
  <2>3. PendingRow'
    BY <1>o, <1>t, <1>3, <1>4 DEF Globals, PendingRow
  <2>4. Held'
    BY <1>o, <1>t, <1>3, <1>4 DEF Globals, Held, Holds, Committed
  <2> QED
    BY <2>1, <2>2, <2>3, <2>4 DEF Globals
<1>6. token'[slot.name].claim = token[slot.name].claim
  BY <1>t, <1>3, <1>4
<1>7. ASSUME NEW d \in Callers, d # c PROVE Worker(d)'
  <2>1. Worker(d) /\ pc'[d] = pc[d] /\ job'[d] = job[d]
    BY <1>2, <1>7 DEF NInv
  <2>2. Paper(d)' /\ Role(d)'
    BY <1>3, <2>1 DEF Worker, Paper, Role, On, Publishes
  <2>3. Bound(d)'
    BY <1>3, <1>6, <2>1 DEF Worker, Bound, On, Publishes, Holds
  <2>4. Past(d)'
    <3>1. CASE n = slot.name
      BY <1>3, <1>4, <2>1, <3>1 DEF Worker, Past, On, Publishes, Committed
    <3>2. CASE n # slot.name
      BY <1>3, <1>t, <2>1, <3>2 DEF Worker, Past, On, Publishes, Committed
    <3> QED
      BY <3>1, <3>2
  <2> QED
    BY <2>2, <2>3, <2>4 DEF Worker
<1>8. Worker(c)'
  <2>1. Paper(c)'
    BY <1>o, <1>t, <1>1, <1>2, <1>3 DEF Worker, Paper, Publishes
  <2>2. Role(c)' /\ Bound(c)'
    BY <1>o, <1>2, <1>3, <1>6 DEF Worker, Role, Bound, On, Publishes, Holds
  <2>3. Past(c)'
    BY <1>1, <1>2, <1>3, <1>4 DEF Past, On, Committed
  <2> QED
    BY <2>1, <2>2, <2>3 DEF Worker
<1> QED
  BY <1>5, <1>7, <1>8 DEF NInv

(* Only a claim retires the name on its own account, after a failed read. *)
LEMMA Abandoning ==
  ASSUME NInv, OInv', NEW c \in Callers, Abandon(c) PROVE NInv'
<1>o. TInv /\ TInv' /\ Globals /\ Worker(c)
  BY DEF NInv, OInv
<1> DEFINE n == job[c].name
<1>t. slot.name \in Names /\ n \in Names
  BY <1>o, Typed DEF Abandon
<1>1. /\ pc[c] = "abandon" /\ Retire(n) /\ Return(c)
      /\ slot' = slot /\ term' = term /\ lastClaim' = lastClaim /\ claimTerm' = claimTerm
      /\ given' = given /\ gaveUp' = gaveUp /\ up' = up
  BY DEF Abandon, rowVars, historyVars
<1>2. RowPaper' /\ (Live' <=> Live)
  BY <1>o, <1>1 DEF Globals, RowPaper, Live
<1>3. n = slot.name /\ Live => slot.name \in gaveUp /\ slot.status = "ready"
  BY <1>o, <1>1 DEF Worker, Past, Role, On
<1>4. Globals'
  BY <1>o, <1>t, <1>1, <1>2, <1>3, GlobalsRetired DEF Holds
<1>5. \A m \in Names : m # n => token'[m] = token[m]
  BY <1>o, <1>1, Typed DEF Retire
<1>6. CASE n # slot.name
  <2>1. Same
    BY <1>t, <1>1, <1>2, <1>5, <1>6 DEF Same
  <2> QED
    BY <1>o, <1>1, <1>4, <2>1, ReturnEffect, Returned, Stepped
<1>7. CASE n = slot.name
  <2>1. ASSUME NEW d \in Callers, d # c PROVE Worker(d)'
    <3>1. Worker(d) /\ pc'[d] = pc[d] /\ job'[d] = job[d]
      BY <1>o, <1>1, <2>1, ReturnEffect DEF NInv
    <3>2. Paper(d)' /\ Role(d)'
      BY <1>1, <3>1 DEF Worker, Paper, Role, On, Publishes
    <3>3. Past(d)' /\ Bound(d)'
      BY <1>1, <1>2, <1>3, <1>7, <3>1 DEF Worker, Past, Bound, On, Publishes, Holds
    <3> QED
      BY <3>2, <3>3 DEF Worker
  <2> QED
    BY <1>o, <1>1, <1>4, <2>1, Returned DEF NInv
<1> QED
  BY <1>6, <1>7

LEMMA Undoing ==
  ASSUME NInv, OInv', NEW c \in Callers, Undo(c) PROVE NInv'
<1>o. TInv /\ TInv' /\ Globals
  BY DEF NInv, OInv
<1>1. /\ Return(c) /\ Same /\ token' = token /\ RowPaper'
      /\ \A m \in retired' : m \in retired \/ token[m].phase = "activating"
  BY <1>o DEF Undo, Same, Live, rowVars, historyVars, Globals, RowPaper
<1>2. Globals'
  <2>1. Registry'
    BY <1>o, <1>1 DEF Globals, Registry, Same, Committed
  <2> QED
    BY <1>o, <1>1, <2>1 DEF Globals, Same, PendingRow, Held, Holds, Committed
<1> QED
  BY <1>o, <1>1, <1>2, ReturnEffect, Returned, Stepped
-----------------------------------------------------------------------------
(* The end of a publication. *)

LEMMA Publishing ==
  ASSUME NInv, OInv', NEW c \in Callers, Publish(c) PROVE NInv'
<1>o. TInv /\ TInv' /\ Globals /\ Worker(c)
  BY DEF NInv, OInv
<1>t. slot.name \in Nat
  BY <1>o, Typed
<1>1. /\ pc[c] = "reverify" /\ Live /\ slot.status = "ready" /\ slot.name = job[c].name
      /\ given' = slot.name /\ Return(c) /\ gaveUp' = gaveUp
      /\ slot' = slot /\ term' = term /\ claimTerm' = claimTerm /\ lastClaim' = lastClaim /\ up' = up
      /\ token' = token /\ retired' = retired /\ (Live' <=> Live)
  BY DEF Publish, Current, rowVars, registryVars, Live
<1>2. Globals'
  <2>1. RowPaper' /\ PendingRow'
    BY <1>o, <1>1 DEF Globals, RowPaper, PendingRow
  <2>2. Registry'
    BY <1>o, <1>t, <1>1 DEF Globals, Registry, Committed
  <2>3. Held'
    BY <1>o, <1>1 DEF Worker, Past, On, Held, Holds, Committed
  <2> QED
    BY <2>1, <2>2, <2>3 DEF Globals
<1>3. ASSUME NEW d \in Callers, d # c PROVE Worker(d)'
  <2>1. Worker(d) /\ pc'[d] = pc[d] /\ job'[d] = job[d]
    BY <1>o, <1>1, <1>3, ReturnEffect DEF NInv
  <2>2. Paper(d)' /\ Role(d)' /\ Past(d)'
    BY <1>1, <2>1 DEF Worker, Paper, Role, Past, On, Publishes, Committed
  <2>3. Bound(d)'
    BY <1>1, <2>1 DEF Worker, Role, Bound, On, Publishes, Holds
  <2> QED
    BY <2>2, <2>3 DEF Worker
<1> QED
  BY <1>o, <1>1, <1>2, <1>3, Returned DEF NInv

LEMMA GivingUp ==
  ASSUME NInv, OInv', NEW c \in Callers, GiveUp(c) PROVE NInv'
<1>o. TInv /\ TInv' /\ Globals /\ Worker(c)
  BY DEF NInv, OInv
<1>1. /\ pc[c] = "reverify" /\ pc'[c] = "abandon" /\ job' = job
      /\ \A d \in Callers : d # c => pc'[d] = pc[d]
      /\ gaveUp' = gaveUp \cup {job[c].name} /\ given' = given
      /\ slot' = slot /\ term' = term /\ claimTerm' = claimTerm /\ lastClaim' = lastClaim /\ up' = up
      /\ token' = token /\ retired' = retired /\ (Live' <=> Live)
  BY <1>o, GotoEffect DEF GiveUp, rowVars, registryVars, Live
<1>2. job[c].name <= slot.name /\ Publishes(c)
  BY <1>o, <1>1 DEF Worker, Paper, Publishes
<1>3. Globals'
  <2>1. RowPaper'
    BY <1>o, <1>1 DEF Globals, RowPaper
  <2>2. Registry'
    BY <1>o, <1>1, <1>2 DEF Globals, Registry, Committed
  <2>3. PendingRow'
    BY <1>o, <1>1, <1>2 DEF Globals, PendingRow, Worker, Role, On
  <2>4. Held'
    BY <1>o, <1>1 DEF Globals, Held, Holds, Committed
  <2> QED
    BY <2>1, <2>2, <2>3, <2>4 DEF Globals
<1>4. ASSUME NEW d \in Callers PROVE Worker(d)'
  <2>1. Worker(d) /\ job'[d] = job[d] /\ (pc'[d] = pc[d] \/ d = c)
    BY <1>1 DEF NInv
  <2>2. Paper(d)' /\ Role(d)' /\ Bound(d)'
    BY <1>1, <2>1 DEF Worker, Paper, Role, Bound, On, Publishes, Holds
  <2>3. Past(d)'
    BY <1>1, <1>2, <2>1 DEF Worker, Past, On, Publishes, Committed
  <2> QED
    BY <2>2, <2>3 DEF Worker
<1> QED
  BY <1>3, <1>4 DEF NInv

-----------------------------------------------------------------------------
LEMMA Crashing == ASSUME NInv, OInv', Crash PROVE NInv'
<1>o. TInv /\ TInv' /\ Globals
  BY DEF NInv, OInv
<1>1. /\ slot' = slot /\ claimTerm' = claimTerm /\ lastClaim' = lastClaim /\ ~up'
      /\ given' = given /\ gaveUp' = gaveUp
      /\ token' = [m \in Names |-> NoToken]
      /\ \A d \in Callers : pc'[d] = "idle" /\ job'[d] = NoJob
  BY DEF Crash, rowVars, historyVars
<1>2. Globals'
  <2>1. RowPaper' /\ Registry' /\ Held'
    BY <1>o, <1>1 DEF Globals, RowPaper, Registry, Committed, NoToken, Held, Holds
  <2>2. PendingRow'
    BY <1>o, <1>1, Typed DEF Globals, PendingRow, NoToken
  <2> QED
    BY <2>1, <2>2 DEF Globals
<1> QED
  BY <1>o, <1>1, <1>2, Idle DEF NInv

(* What a restart rebuilds is what the row says of its name. *)
LEMMA Restarting == ASSUME NInv, OInv', Restart PROVE NInv'
<1>o. TInv /\ TInv' /\ Globals /\ DownEmpty
  BY DEF NInv, OInv
<1>t. slot.name \in Names /\ slot.claim \in Nat
  BY <1>o, Typed
<1>1. /\ slot' = slot /\ term' = term /\ claimTerm' = claimTerm /\ lastClaim' = lastClaim
      /\ given' = given /\ gaveUp' = gaveUp /\ ~up /\ (Live' <=> Live)
      /\ pc' = pc /\ job' = job
  BY DEF Restart, rowVars, historyVars, Live
<1>2. /\ \A d \in Callers : pc'[d] = "idle"
      /\ \A m \in Names : m # slot.name => token'[m] = NoToken
      /\ token'[slot.name] = Rebuilt
  BY <1>o, <1>1, <1>t, Typed DEF Restart, DownEmpty
<1>3. Globals'
  <2>1. RowPaper'
    BY <1>o, <1>1 DEF Globals, RowPaper
  <2>2. Registry'
    <3>1. Rebuilt.phase = "none" => Rebuilt = NoToken
      BY DEF Rebuilt, NoToken
    <3>2. Rebuilt.phase = "committed" => slot.name \notin retired'
      BY DEF Restart
    <3>3. ASSUME NEW m \in Names
          PROVE  /\ m > slot.name => token'[m] = NoToken
                 /\ token'[m].phase = "none" => token'[m] = NoToken
                 /\ token'[m].phase = "committed" => m \notin retired'
      BY <1>2, <1>t, <3>1, <3>2 DEF NoToken, Names
    <3> QED
      BY <1>o, <1>1, <3>3 DEF Globals, Registry, Committed
  <2>3. PendingRow'
    BY <1>o, <1>t, <1>1, <1>2 DEF Globals, PendingRow, Rebuilt, NoToken
  <2>4. Held'
    BY <1>1, <1>2 DEF Held, Holds, Committed, Rebuilt
  <2> QED
    BY <2>1, <2>2, <2>3, <2>4 DEF Globals
<1>4. ASSUME NEW d \in Callers PROVE Worker(d)'
  <2>1. Worker(d)
    BY DEF NInv
  <2> QED
    BY <1>1, <1>2, <2>1 DEF Worker, Paper, Role, Past, Bound, On
<1> QED
  BY <1>3, <1>4 DEF NInv

LEMMA NInvNext == NInv /\ [Next]_vars => NInv'
<1> SUFFICES ASSUME NInv, [Next]_vars PROVE NInv'
  OBVIOUS
<1>o. OInv'
  BY OInvNext DEF NInv
<1>1. CASE UNCHANGED vars
  <2>1. UNCHANGED <<rowVars, registryVars, up, given, gaveUp>> /\ UNCHANGED <<pc, job>>
    BY <1>1 DEF vars, historyVars
  <2> QED
    BY <1>o, <2>1, Frame, Unstepped
<1>2. CASE SlotStep
  BY <1>2, <1>o, Aging, Renaming, CallerRenaming, Retaking, Retiring DEF SlotStep
<1>3. ASSUME NEW c \in Callers, ActivationStep(c) PROVE NInv'
  BY <1>3, <1>o, QuietSteps, Renewing, Claiming, Finalizing, Beginning, Committing, Abandoning, Undoing, Retiring
     DEF ActivationStep
<1>4. ASSUME NEW c \in Callers, PublicationStep(c) PROVE NInv'
  BY <1>4, <1>o, QuietSteps, Publishing, GivingUp DEF PublicationStep
<1> QED
  BY <1>1, <1>2, <1>3, <1>4, <1>o, Crashing, Restarting DEF Next

(* For any number of callers, names and claims: a name given as ready is     *)
(* admitted for as long as the row says so, unless a check after publication *)
(* failed.                                                                   *)
THEOREM NamesAdmitted == Spec => []GivenNameAdmitted
<1>1. NInv => GivenNameAdmitted
  BY DEF NInv, Globals, Registry, Held, Holds, GivenNameAdmitted, Admitted, Committed, OInv, TInv, Named
<1> QED
  BY <1>1, NInvInit, NInvNext, PTL DEF Spec
-----------------------------------------------------------------------------
(* What a step of a caller whose claim was taken over leaves alone. *)
Powerless(c) ==
  LET n == job[c].name IN
  /\ pc'[c] # pc[c] /\ up'
  /\ job[c].claim \in 1..MaxClaim
  /\ Live /\ slot.name = n
  /\ token[n].claim > job[c].claim
  => token'[n] = token[n] /\ (n \in retired' <=> n \in retired) /\ slot' = slot

LEMMA DelayedStep ==
  ASSUME NInv, Next, NEW c \in Callers PROVE Powerless(c)
<1> DEFINE n == job[c].name
<1>s. SUFFICES ASSUME pc'[c] # pc[c], up', job[c].claim \in 1..MaxClaim, Live, slot.name = n,
                      token[n].claim > job[c].claim
               PROVE  token'[n] = token[n] /\ (n \in retired' <=> n \in retired) /\ slot' = slot
  BY DEF Powerless
<1>o. TInv /\ Globals /\ Worker(c) /\ DownEmpty
  BY DEF NInv, OInv
<1>t. /\ job[c].claim \in Nat /\ job[c].previous \in Nat /\ n \in Names /\ n \in Nat /\ MaxClaim \in Nat
      /\ job[c].old \in Nat /\ token[n].claim \in Nat /\ job[c].claim # LeaseClaim /\ LeaseClaim = MaxClaim + 1
      /\ job[c].claim # 0 /\ job[c].claim <= MaxClaim
  BY <1>o, <1>s, Typed
<1>p. ~Publishes(c) /\ pc[c] \notin {"idle", "load", "leave", "verify", "reverify"}
  BY <1>o, <1>t DEF Worker, Paper, Publishes
<1>k. token[n] # NoToken /\ token[n].phase # "none"
  BY <1>o, <1>s, <1>t DEF Globals, Registry, NoToken
<1>f. token[n].claim # job[c].claim /\ token[n].claim # job[c].previous
  BY <1>o, <1>s, <1>t DEF Worker, Paper
<1>1. ASSUME UNCHANGED <<registryVars, slot>> PROVE token'[n] = token[n] /\ (n \in retired' <=> n \in retired) /\ slot' = slot
  BY <1>1 DEF registryVars
<1>2. ASSUME NEW d \in Callers, ActivationStep(d) \/ PublicationStep(d), d # c PROVE FALSE
  <2>1. PICK s : Goto(d, s)
    BY <1>2 DEF ActivationStep, PublicationStep, LoadNothing, LoadClaim, NewClaim, BeginCommitted, Begin,
       BeginRefused, Silence, Prepare, PrepareFails, RenewClaim, RenewClaimFails, Commit, CommitRefused, Finalize,
       FinalizeFails, Resolve, Abandon, Undo, Verify, Publish, Withdraw, GiveUp, Failed, Return
  <2> QED
    BY <1>o, <1>2, <1>s, <2>1, GotoEffect
<1>3. CASE Crash \/ Restart
  BY <1>3, <1>p, <1>s, <1>o DEF Crash, Restart, DownEmpty
<1>4. CASE SlotStep
  <2>1. CASE Renew \/ PauseCompleted \/ Cleanup \/ CleanupFails \/ LeaseAges \/ ClaimAges
    BY <1>s, <2>1 DEF Renew, PauseCompleted, Cleanup, CleanupFails, LeaseAges, ClaimAges
  <2>2. ASSUME NEW d \in Callers, \/ ClaimSlot(d) \/ ReplayClaim(d) \/ ReplaceRoute(d)
                                  \/ RetryActivation(d) \/ PauseIdle(d) \/ Release(d)
        PROVE  FALSE
    <3>1. PICK s, w : Take(d, s, w)
      BY <2>2 DEF ClaimSlot, ReplayClaim, ReplaceRoute, RetryActivation, Pending, PauseIdle, Release
    <3> QED
      BY <1>o, <1>p, <1>s, <3>1, TakeEffect
  <2>3. ASSUME NEW d \in Callers, Leave(d) PROVE FALSE
    BY <1>o, <1>p, <1>s, <2>3, ReturnEffect DEF Leave
  <2> QED
    BY <1>4, <2>1, <2>2, <2>3 DEF SlotStep
<1>5. CASE ActivationStep(c)
  <2>1. CASE LoadNothing(c) \/ LoadClaim(c) \/ NewClaim(c)
    BY <1>p, <2>1 DEF LoadNothing, LoadClaim, NewClaim
  <2>2. CASE Begin(c) \/ Commit(c)
    BY <1>f, <1>k, <2>2 DEF Begin, MayBegin, Commit
  <2>3. CASE Finalize(c)
    <3>1. token[n].claim = job[c].claim
      BY <1>o, <1>s, <2>3 DEF Finalize, FinalizeFence, ClaimFence, Fence, Worker, Past, On
    <3> QED
      BY <1>f, <3>1
  <2>4. CASE Abandon(c)
    BY <1>o, <1>p, <1>s, <2>4 DEF Abandon, Worker, Past, On
  <2>5. CASE Undo(c)
    BY <1>f, <2>5 DEF Undo, rowVars
  <2>6. CASE Silence(c)
    <3>1. job[c].old < n /\ MaxName \in Nat /\ n <= MaxName
      BY <1>o, <2>6, Typed DEF Worker, Paper, Silence
    <3>2. slot' = slot
      BY <2>6 DEF Silence, rowVars
    <3>3. token'[n] = token[n] /\ (n \in retired' <=> n \in retired)
      BY <1>o, <1>t, <2>6, <3>1, Typed DEF Silence, SilenceOldName, Retire, registryVars
    <3> QED
      BY <3>2, <3>3
  <2>7. CASE BeginCommitted(c) \/ BeginRefused(c) \/ Prepare(c) \/ PrepareFails(c) \/ RenewClaim(c)
             \/ RenewClaimFails(c) \/ CommitRefused(c) \/ FinalizeFails(c) \/ Resolve(c)
    BY <1>1, <2>7 DEF BeginCommitted, BeginRefused, Prepare, PrepareFails, RenewClaim, RenewClaimFails,
       CommitRefused, FinalizeFails, Resolve, rowVars
  <2> QED
    BY <1>5, <2>1, <2>2, <2>3, <2>4, <2>5, <2>6, <2>7 DEF ActivationStep
<1>6. CASE PublicationStep(c)
  BY <1>p, <1>6 DEF PublicationStep, Verify, Publish, Withdraw, GiveUp
<1> QED
  BY <1>2, <1>3, <1>4, <1>5, <1>6 DEF Next

(* For any number of callers, names and claims: a claim that was taken over *)
(* can neither begin, commit, retire nor finalize the route any more.       *)
THEOREM DelayedPowerless == Spec => DelayedClaimPowerless
<1>1. NInv /\ [Next]_vars => [\A c \in Callers : Powerless(c)]_vars
  BY DelayedStep
<1> QED
  BY <1>1, NInvInit, NInvNext, PTL DEF Spec, DelayedClaimPowerless, Powerless

=============================================================================
