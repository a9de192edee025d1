----------------------- MODULE RouteActivationProofs -----------------------
(* Theorems about RouteActivation, for any callers and bounds. *)
EXTENDS RouteActivation, TLAPS

(* The slot and every caller at work have a name: no step acts on none. *)
Named ==
  /\ slot.name \in Names
  /\ \A c \in Callers : pc[c] # "idle" => job[c].name \in Names

TInv == TypeOK /\ Named

LEMMA TInvInit == Init => TInv
BY BoundsAssumption DEF Init, TInv, Named, TypeOK, SlotRow, Term, Names, Claims, LeaseClaim, Token, NoToken,
     Step, Job, NoJob

(* Retiring a name and going to a step keep the registry's and callers' types. *)
LEMMA RetireType == ASSUME TypeOK, NEW n \in Names, Retire(n)
                    PROVE  token' \in [Names -> Token] /\ retired' \subseteq Names
BY BoundsAssumption DEF TypeOK, Retire, Token, NoToken, Claims, LeaseClaim

LEMMA GotoType == ASSUME TypeOK, NEW c \in Callers, NEW s \in Step, Goto(c, s)
                  PROVE  pc' \in [Callers -> Step]
BY DEF TypeOK, Goto

LEMMA ReturnType == ASSUME TypeOK, NEW c \in Callers, Return(c)
                    PROVE  pc' \in [Callers -> Step] /\ job' \in [Callers -> Job]
BY BoundsAssumption DEF TypeOK, Return, Goto, Step, Job, NoJob, Claims, LeaseClaim

LEMMA TakeType == ASSUME TypeOK, NEW c \in Callers, NEW s \in Step, NEW w \in Job, Take(c, s, w)
                  PROVE  pc' \in [Callers -> Step] /\ job' \in [Callers -> Job]
BY DEF TypeOK, Take, Goto

LEMMA RenamedType == ASSUME TypeOK, NEW st \in {"unleased", "ready", "pending", "paused"},
                            NEW old \in 0..MaxName, Renamed(st, old)
                     PROVE  /\ slot' \in SlotRow /\ claimTerm' \in Term
                            /\ lastClaim' \in 0..MaxClaim /\ slot.name + 1 \in 0..MaxName
BY BoundsAssumption DEF TypeOK, Renamed, SlotRow, Term, Claims, LeaseClaim

LEMMA TInvSlotStep == TInv /\ SlotStep => TInv'
<1> SUFFICES ASSUME TInv, SlotStep PROVE TInv'
  OBVIOUS
<1> USE BoundsAssumption DEF Names, TInv
<1>t. "ample" \in Term /\ "short" \in Term /\ "lapsed" \in Term
  BY DEF Term
<1>s. {"load", "verify", "leave", "idle"} \subseteq Step
  BY DEF Step
<1>n. slot.name \in 0..MaxName /\ slot \in SlotRow
  BY DEF TypeOK, SlotRow
<1>j. \A n \in 0..MaxName : [NoJob EXCEPT !.name = n] \in Job
  BY DEF NoJob, Job, Claims, LeaseClaim
<1>1. CASE Renew
  BY <1>1, <1>t DEF TypeOK, Named, Renew, registryVars, historyVars
<1>2. CASE PauseCompleted
  BY <1>2, RenamedType DEF TypeOK, Named, PauseCompleted, Renamed, registryVars, historyVars
<1>3. CASE Cleanup
  BY <1>3, RenamedType, RetireType DEF TypeOK, Named, Cleanup, Renamed, historyVars
<1>4. CASE CleanupFails
  BY <1>4, RetireType DEF TypeOK, Named, CleanupFails, rowVars, historyVars
<1>5. CASE LeaseAges \/ ClaimAges
  BY <1>5, <1>t DEF TypeOK, Named, LeaseAges, ClaimAges, Aged, registryVars, historyVars
<1>6. ASSUME NEW c \in Callers, ClaimSlot(c) PROVE TInv'
  <2>1. [name |-> slot.name + 1, old |-> slot.name, claim |-> LeaseClaim, previous |-> 0] \in Job
    BY <1>6, <1>n, RenamedType DEF ClaimSlot, Job, Claims, LeaseClaim
  <2>2. TypeOK'
    BY <1>6, <1>t, <1>s, <2>1, RenamedType, TakeType DEF TypeOK, ClaimSlot, registryVars, historyVars
  <2>3. Named'
    BY <1>6, <1>n, <2>1 DEF TypeOK, Named, ClaimSlot, Renamed, Take, Goto
  <2> QED BY <2>2, <2>3
<1>7. ASSUME NEW c \in Callers, ReplayClaim(c) PROVE TInv'
  <2>1. [name |-> slot.name, old |-> 0, claim |-> LeaseClaim, previous |-> 0] \in Job
    BY <1>n DEF Job, Claims, LeaseClaim
  <2>2. TypeOK'
    BY <1>7, <1>s, <2>1, TakeType DEF TypeOK, ReplayClaim, rowVars, registryVars, historyVars
  <2>3. Named'
    BY <1>7, <2>1 DEF TypeOK, Named, ReplayClaim, Take, Goto, rowVars
  <2> QED BY <2>2, <2>3
<1>8. ASSUME NEW c \in Callers, ReplaceRoute(c) PROVE TInv'
  <2>2. TypeOK'
    BY <1>8, <1>n, <1>j, <1>s, RenamedType, TakeType DEF TypeOK, ReplaceRoute, Pending, registryVars, historyVars
  <2>3. Named'
    BY <1>8, <1>n, <1>j DEF TypeOK, Named, ReplaceRoute, Renamed, Pending, Take, Goto, NoJob
  <2> QED BY <2>2, <2>3
<1>9. ASSUME NEW c \in Callers, RetryActivation(c) PROVE TInv'
  <2>2. TypeOK'
    BY <1>9, <1>n, <1>j, <1>s, TakeType DEF TypeOK, RetryActivation, Pending, rowVars, registryVars, historyVars
  <2>3. Named'
    BY <1>9, <1>j DEF TypeOK, Named, RetryActivation, Pending, Take, Goto, NoJob, rowVars
  <2> QED BY <2>2, <2>3
<1>10. ASSUME NEW c \in Callers, PauseIdle(c) PROVE TInv'
  <2>2. TypeOK'
    BY <1>10, <1>n, <1>j, <1>s, RenamedType, TakeType DEF TypeOK, PauseIdle, registryVars, historyVars
  <2>3. Named'
    BY <1>10, <1>n, <1>j DEF TypeOK, Named, PauseIdle, Renamed, Take, Goto, NoJob
  <2> QED BY <2>2, <2>3
<1>11. ASSUME NEW c \in Callers, Release(c) PROVE TInv'
  <2>2. TypeOK'
    BY <1>11, <1>n, <1>j, <1>s, <1>t, RenamedType, TakeType DEF TypeOK, Release, registryVars, historyVars
  <2>3. Named'
    BY <1>11, <1>n, <1>j DEF TypeOK, Named, Release, Renamed, Take, Goto, NoJob
  <2> QED BY <2>2, <2>3
<1>12. ASSUME NEW c \in Callers, Leave(c) PROVE TInv'
  <2>1. job[c].name \in Names
    BY <1>12 DEF Leave, Named
  <2> QED BY <1>12, <2>1, RetireType, ReturnType DEF TypeOK, Named, Leave, Return, Goto, rowVars, historyVars
<1> QED BY <1>1, <1>2, <1>3, <1>4, <1>5, <1>6, <1>7, <1>8, <1>9, <1>10, <1>11, <1>12 DEF SlotStep

(* A caller that only moves on, or returns, keeps the invariant. *)
LEMMA MovesOn == ASSUME TInv, NEW c \in Callers, pc[c] # "idle", NEW s \in Step,
                        (Goto(c, s) /\ UNCHANGED job) \/ Return(c)
                 PROVE  /\ pc' \in [Callers -> Step] /\ job' \in [Callers -> Job]
                        /\ \A d \in Callers : pc'[d] # "idle" => job'[d].name \in Names
<1> USE DEF TInv
<1>1. pc' \in [Callers -> Step] /\ job' \in [Callers -> Job]
  BY GotoType, ReturnType DEF TypeOK
<1>2. ASSUME NEW d \in Callers, pc'[d] # "idle" PROVE job'[d].name \in Names
  BY <1>2 DEF TypeOK, Named, Goto, Return
<1> QED BY <1>1, <1>2

LEMMA TInvActivationStep == ASSUME TInv, NEW c \in Callers, ActivationStep(c) PROVE TInv'
<1> USE BoundsAssumption DEF TInv
<1>s. /\ {"idle", "load", "begin", "silence", "prepare", "renew", "commit"} \subseteq Step
      /\ {"renew_again", "finalize", "resolve_begin", "resolve", "undo", "abandon"} \subseteq Step
      /\ "reverify" \in Step
  BY DEF Step
<1>t. "ample" \in Term /\ "lapsed" \in Term
  BY DEF Term
<1>j. /\ slot \in SlotRow /\ slot.name \in Names
      /\ pc[c] # "idle" => job[c] \in Job /\ job[c].name \in Names
  BY DEF TypeOK, Named
<1>l. lastClaim \in Claims /\ (lastClaim < MaxClaim => lastClaim + 1 \in Claims)
  BY DEF TypeOK, Claims, LeaseClaim
<1>1. CASE LoadNothing(c)
  BY <1>1, <1>s, MovesOn DEF LoadNothing, TypeOK, Named, rowVars, registryVars, historyVars
<1>2. CASE LoadClaim(c)
  <2>1. [name |-> slot.name, old |-> slot.old, claim |-> slot.claim, previous |-> slot.previous] \in Job
    BY <1>j DEF SlotRow, Job
  <2>2. TypeOK'
    BY <1>2, <2>1, <1>s, GotoType DEF LoadClaim, TypeOK, rowVars, registryVars, historyVars
  <2>3. Named'
    BY <1>2, <1>j DEF LoadClaim, TypeOK, Named, Goto, rowVars
  <2> QED BY <2>2, <2>3
<1>3. CASE NewClaim(c)
  <2>1. /\ [name |-> slot.name, old |-> slot.old, claim |-> lastClaim + 1, previous |-> slot.claim] \in Job
        /\ slot' \in SlotRow /\ slot'.name = slot.name /\ lastClaim' \in 0..MaxClaim
    <3>1. slot' = [name |-> slot.name, old |-> slot.old, claim |-> lastClaim + 1,
                   previous |-> slot.claim, status |-> slot.status]
      BY <1>3, <1>j DEF NewClaim, SlotRow
    <3>2. lastClaim + 1 \in Claims /\ lastClaim' \in 0..MaxClaim
      BY <1>3, <1>l DEF NewClaim, TypeOK
    <3> QED BY <3>1, <3>2, <1>j DEF SlotRow, Job
  <2>2. pc' \in [Callers -> Step] /\ job' \in [Callers -> Job]
    BY <1>3, <2>1, <1>s, GotoType, ReturnType DEF NewClaim, TypeOK
  <2>3. TypeOK'
    BY <1>3, <2>1, <2>2, <1>t DEF NewClaim, TypeOK, registryVars, historyVars
  <2>4. Named'
    BY <1>3, <2>1, <1>j DEF NewClaim, TypeOK, Named, Goto, Return
  <2> QED BY <2>3, <2>4
<1>4. CASE BeginCommitted(c)
  BY <1>4, <1>s, MovesOn DEF BeginCommitted, TypeOK, Named, rowVars, registryVars, historyVars
<1>5. CASE Begin(c)
  <2>1. [claim |-> job[c].claim, phase |-> "activating"] \in Token
    BY <1>5, <1>j DEF Begin, Job, Token
  <2>2. token' \in [Names -> Token] /\ retired' \subseteq Names
    BY <1>5, <2>1, <1>j DEF Begin, TypeOK
  <2> QED BY <1>5, <2>2, <1>s, MovesOn DEF Begin, TypeOK, Named, rowVars, historyVars
<1>6. CASE BeginRefused(c)
  BY <1>6, <1>s, MovesOn DEF BeginRefused, Failed, TypeOK, Named, rowVars, registryVars, historyVars
<1>7. CASE Silence(c)
  <2>1. job[c].old # 0 => job[c].old \in Names
    BY <1>7, <1>j DEF Silence, Job, Names
  <2>2. token' \in [Names -> Token] /\ retired' \subseteq Names
    BY <1>7, <2>1, RetireType DEF Silence, SilenceOldName, TypeOK, registryVars
  <2> QED BY <1>7, <2>2, <1>s, MovesOn DEF Silence, TypeOK, Named, rowVars, historyVars
<1>8. CASE Prepare(c) \/ PrepareFails(c)
  BY <1>8, <1>s, MovesOn DEF Prepare, PrepareFails, Failed, TypeOK, Named, rowVars, registryVars, historyVars
<1>9. CASE RenewClaim(c) \/ RenewClaimFails(c)
  BY <1>9, <1>s, <1>t, MovesOn DEF RenewClaim, RenewClaimFails, TypeOK, Named, rowVars, registryVars, historyVars
<1>10. CASE Commit(c)
  <2>1. token' \in [Names -> Token] /\ retired' \subseteq Names
    BY <1>10, <1>j DEF Commit, TypeOK, Token
  <2> QED BY <1>10, <2>1, <1>s, MovesOn DEF Commit, TypeOK, Named, rowVars, historyVars
<1>11. CASE CommitRefused(c)
  BY <1>11, <1>s, MovesOn DEF CommitRefused, TypeOK, Named, rowVars, registryVars, historyVars
<1>12. CASE Finalize(c)
  <2>1. slot' \in SlotRow /\ slot'.name = slot.name /\ slot.name \in 0..MaxName
    <3>1. slot' = [name |-> slot.name, old |-> 0, claim |-> 0, previous |-> 0, status |-> "ready"]
      BY <1>12, <1>j DEF Finalize, SlotRow
    <3> QED BY <3>1, <1>j DEF SlotRow, Claims, LeaseClaim, Names
  <2> QED BY <1>12, <2>1, <1>s, <1>t, MovesOn DEF Finalize, TypeOK, Named, registryVars
<1>13. CASE FinalizeFails(c) \/ Resolve(c)
  BY <1>13, <1>s, MovesOn DEF FinalizeFails, Resolve, TypeOK, Named, rowVars, registryVars, historyVars
<1>14. CASE Abandon(c)
  BY <1>14, <1>j, <1>s, RetireType, MovesOn DEF Abandon, TypeOK, Named, rowVars, historyVars
<1>15. CASE Undo(c)
  BY <1>15, <1>j, <1>s, MovesOn DEF Undo, TypeOK, Named, rowVars, historyVars
<1> QED BY <1>1, <1>2, <1>3, <1>4, <1>5, <1>6, <1>7, <1>8, <1>9, <1>10, <1>11, <1>12, <1>13, <1>14,
           <1>15 DEF ActivationStep

LEMMA TInvPublicationStep == ASSUME TInv, NEW c \in Callers, PublicationStep(c) PROVE TInv'
<1> USE DEF TInv
<1>s. {"begin", "abandon", "idle"} \subseteq Step
  BY DEF Step
<1>j. pc[c] # "idle" => job[c].name \in Names
  BY DEF Named
<1>1. CASE Verify(c) \/ Withdraw(c)
  BY <1>1, <1>s, MovesOn DEF Verify, Withdraw, TypeOK, Named, rowVars, registryVars, historyVars
<1>2. CASE Publish(c)
  BY <1>2, <1>s, <1>j, MovesOn DEF Publish, TypeOK, Named, Names, rowVars, registryVars
<1>3. CASE GiveUp(c)
  BY <1>3, <1>s, <1>j, MovesOn DEF GiveUp, TypeOK, Named, rowVars, registryVars
<1> QED BY <1>1, <1>2, <1>3 DEF PublicationStep

LEMMA TInvNext == TInv /\ [Next]_vars => TInv'
<1> SUFFICES ASSUME TInv, [Next]_vars PROVE TInv'
  OBVIOUS
<1> USE BoundsAssumption DEF TInv
<1>1. CASE Crash
  <2>1. NoToken \in Token /\ NoJob \in Job /\ "idle" \in Step
    BY DEF NoToken, Token, NoJob, Job, Step, Claims, LeaseClaim
  <2> QED BY <1>1, <2>1 DEF Crash, TypeOK, Named, rowVars, historyVars
<1>2. CASE Restart
  <2>1. Rebuilt \in Token /\ slot.name \in Names
    BY DEF Rebuilt, NoToken, Token, TypeOK, SlotRow, Named, Claims, LeaseClaim
  <2> QED BY <1>2, <2>1 DEF Restart, TypeOK, Named, rowVars, historyVars
<1>3. CASE UNCHANGED vars
  BY <1>3 DEF vars, rowVars, registryVars, historyVars, TypeOK, Named
<1> QED BY <1>1, <1>2, <1>3, TInvSlotStep, TInvActivationStep, TInvPublicationStep DEF Next

THEOREM TInvHolds == Spec => []TInv
BY TInvInit, TInvNext, PTL DEF Spec

(* Every row, token and caller keeps its type, whatever the interleaving of  *)
(* callers, crashes and restarts.                                            *)
THEOREM TypeCorrect == Spec => []TypeOK
BY TInvHolds, PTL DEF TInv
-----------------------------------------------------------------------------
(* A claim is younger than the one it took over, in the row and in every     *)
(* caller's copy of it, however old the copy is.                             *)
ClaimsOrdered ==
  /\ slot.previous <= slot.claim
  /\ slot.claim <= lastClaim
  /\ \A c \in Callers : job[c].previous <= job[c].claim

(* While the process is down no caller works and no token is left. *)
DownEmpty == ~up => /\ \A n \in Names : token[n] = NoToken
                    /\ \A c \in Callers : pc[c] = "idle"

OInv == TInv /\ ClaimsOrdered /\ DownEmpty

LEMMA OInvInit == Init => OInv
<1> SUFFICES ASSUME Init PROVE OInv
  OBVIOUS
<1>1. ClaimsOrdered
  BY DEF Init, ClaimsOrdered, NoJob
<1>2. DownEmpty
  BY DEF Init, DownEmpty
<1> QED BY <1>1, <1>2, TInvInit DEF OInv

(* The order survives a step whose row is as old and whose caller's copy is ordered. *)
LEMMA OrderKept == ASSUME TInv, ClaimsOrdered, NEW c \in Callers, NEW w \in Job, w.previous <= w.claim,
                          UNCHANGED job \/ job' = [job EXCEPT ![c] = w],
                          slot'.previous <= slot'.claim, slot'.claim <= lastClaim'
                   PROVE  ClaimsOrdered'
<1>1. ASSUME NEW d \in Callers PROVE job'[d].previous <= job'[d].claim
  BY DEF TInv, TypeOK, ClaimsOrdered
<1> QED BY <1>1 DEF ClaimsOrdered

LEMMA OrderSlotStep == TInv /\ ClaimsOrdered /\ SlotStep => ClaimsOrdered'
<1> SUFFICES ASSUME TInv, ClaimsOrdered, SlotStep PROVE ClaimsOrdered'
  OBVIOUS
<1> USE BoundsAssumption
<1>n. slot.name \in Names /\ slot.name \in 0..MaxName /\ lastClaim \in 0..MaxClaim
  BY DEF TInv, Named, TypeOK, SlotRow
<1>r. ASSUME NEW st, NEW old, Renamed(st, old)
      PROVE  slot'.previous <= slot'.claim /\ slot'.claim <= lastClaim'
  BY <1>r, <1>n DEF Renamed
<1>k. rowVars' = rowVars => slot'.previous <= slot'.claim /\ slot'.claim <= lastClaim'
  BY DEF rowVars, ClaimsOrdered
<1>j. \A n \in 0..MaxName : /\ [NoJob EXCEPT !.name = n] \in Job
                             /\ [NoJob EXCEPT !.name = n].previous <= [NoJob EXCEPT !.name = n].claim
  BY DEF NoJob, Job, Claims, LeaseClaim
<1>i. NoJob \in Job /\ NoJob.previous <= NoJob.claim
  BY DEF NoJob, Job, Claims, LeaseClaim
<1>1. CASE Renew \/ LeaseAges \/ ClaimAges
  BY <1>1 DEF Renew, LeaseAges, ClaimAges, ClaimsOrdered
<1>2. CASE PauseCompleted \/ Cleanup \/ CleanupFails
  BY <1>2, <1>r, <1>k DEF PauseCompleted, Cleanup, CleanupFails, ClaimsOrdered
<1>3. ASSUME NEW c \in Callers, ClaimSlot(c) \/ ReplayClaim(c) PROVE ClaimsOrdered'
  <2> DEFINE claimed == [name |-> slot.name + 1, old |-> slot.name, claim |-> LeaseClaim, previous |-> 0]
             replayed == [name |-> slot.name, old |-> 0, claim |-> LeaseClaim, previous |-> 0]
  <2>1. CASE ClaimSlot(c)
    <3>1. claimed \in Job /\ claimed.previous <= claimed.claim
      BY <2>1, <1>n DEF ClaimSlot, Renamed, Job, Claims, LeaseClaim, Names
    <3>2. job' = [job EXCEPT ![c] = claimed]
      BY <2>1 DEF ClaimSlot, Take
    <3>3. Renamed("ready", 0)
      BY <2>1 DEF ClaimSlot
    <3> QED BY <3>1, <3>2, <3>3, <1>r, OrderKept
  <2>2. CASE ReplayClaim(c)
    <3>1. replayed \in Job /\ replayed.previous <= replayed.claim
      BY <1>n DEF Job, Claims, LeaseClaim
    <3>2. job' = [job EXCEPT ![c] = replayed] /\ rowVars' = rowVars
      BY <2>2 DEF ReplayClaim, Take
    <3> QED BY <3>1, <3>2, <1>k, OrderKept
  <2> QED BY <1>3, <2>1, <2>2
<1>4. ASSUME NEW c \in Callers, ReplaceRoute(c) \/ PauseIdle(c) \/ Release(c) PROVE ClaimsOrdered'
  <2>1. PICK n \in 0..MaxName : job' = [job EXCEPT ![c] = [NoJob EXCEPT !.name = n]]
    BY <1>4, <1>n DEF ReplaceRoute, Pending, PauseIdle, Release, Take, Renamed
  <2>2. slot'.previous <= slot'.claim /\ slot'.claim <= lastClaim'
    BY <1>4, <1>r DEF ReplaceRoute, PauseIdle, Release
  <2> QED BY <2>1, <2>2, <1>j, OrderKept
<1>5. ASSUME NEW c \in Callers, RetryActivation(c) PROVE ClaimsOrdered'
  <2>1. job' = [job EXCEPT ![c] = [NoJob EXCEPT !.name = slot.name]] /\ rowVars' = rowVars
    BY <1>5 DEF RetryActivation, Pending, Take
  <2> QED BY <2>1, <1>n, <1>j, <1>k, OrderKept
<1>6. ASSUME NEW c \in Callers, Leave(c) PROVE ClaimsOrdered'
  BY <1>6, <1>i, <1>k, OrderKept DEF Leave, Return
<1> QED BY <1>1, <1>2, <1>3, <1>4, <1>5, <1>6 DEF SlotStep

LEMMA OrderCallerStep == ASSUME TInv, ClaimsOrdered, NEW c \in Callers,
                                ActivationStep(c) \/ PublicationStep(c)
                         PROVE  ClaimsOrdered'
<1> USE BoundsAssumption
<1>n. slot \in SlotRow /\ lastClaim \in 0..MaxClaim /\ lastClaim \in Claims
  BY DEF TInv, TypeOK, Claims, LeaseClaim
<1>i. NoJob \in Job /\ NoJob.previous <= NoJob.claim
  BY DEF NoJob, Job, Claims, LeaseClaim
<1>1. ASSUME UNCHANGED slot, UNCHANGED lastClaim, UNCHANGED job \/ Return(c) PROVE ClaimsOrdered'
  <2>1. slot'.previous <= slot'.claim /\ slot'.claim <= lastClaim'
    BY <1>1 DEF ClaimsOrdered
  <2> QED BY <1>1, <2>1, <1>i, OrderKept DEF Return
<1>2. CASE LoadNothing(c) \/ BeginCommitted(c) \/ Begin(c) \/ BeginRefused(c) \/ Silence(c)
  BY <1>2, <1>1 DEF LoadNothing, BeginCommitted, Begin, BeginRefused, Silence, Failed, rowVars
<1>3. CASE Prepare(c) \/ PrepareFails(c) \/ RenewClaim(c) \/ RenewClaimFails(c)
  BY <1>3, <1>1 DEF Prepare, PrepareFails, RenewClaim, RenewClaimFails, Failed, rowVars
<1>4. CASE Commit(c) \/ CommitRefused(c) \/ FinalizeFails(c) \/ Resolve(c) \/ Abandon(c) \/ Undo(c)
  BY <1>4, <1>1 DEF Commit, CommitRefused, FinalizeFails, Resolve, Abandon, Undo, rowVars
<1>5. CASE PublicationStep(c)
  BY <1>5, <1>1 DEF PublicationStep, Verify, Publish, Withdraw, GiveUp, rowVars
<1>6. CASE LoadClaim(c)
  <2> DEFINE w == [name |-> slot.name, old |-> slot.old, claim |-> slot.claim, previous |-> slot.previous]
  <2>1. w \in Job /\ w.previous <= w.claim
    BY <1>n DEF SlotRow, Job, ClaimsOrdered
  <2>2. job' = [job EXCEPT ![c] = w] /\ slot'.previous <= slot'.claim /\ slot'.claim <= lastClaim'
    BY <1>6 DEF LoadClaim, rowVars, ClaimsOrdered
  <2> HIDE DEF w
  <2> QED BY <2>1, <2>2, OrderKept
<1>7. CASE NewClaim(c)
  <2> DEFINE w == [name |-> slot.name, old |-> slot.old, claim |-> lastClaim + 1, previous |-> slot.claim]
  <2>1. lastClaim' = lastClaim + 1 /\ lastClaim + 1 \in Claims /\ slot.claim <= lastClaim
    BY <1>7, <1>n DEF NewClaim, Claims, LeaseClaim, ClaimsOrdered
  <2>2. slot'.previous = slot.claim /\ slot'.claim = lastClaim + 1
    BY <1>7, <1>n DEF NewClaim, SlotRow
  <2>3. slot.claim \in Nat
    BY <1>n DEF SlotRow, Claims, LeaseClaim
  <2>4. w \in Job /\ w.previous <= w.claim
    BY <1>n, <2>1, <2>3 DEF SlotRow, Job
  <2>5. slot'.previous <= slot'.claim /\ slot'.claim <= lastClaim'
    BY <2>1, <2>2, <2>3, <1>n
  <2>6. job' = [job EXCEPT ![c] = w] \/ job' = [job EXCEPT ![c] = NoJob]
    BY <1>7 DEF NewClaim, Return
  <2> HIDE DEF w
  <2> QED BY <2>4, <2>5, <2>6, <1>i, OrderKept
<1>8. CASE Finalize(c)
  <2>1. slot'.previous = 0 /\ slot'.claim = 0 /\ lastClaim' = lastClaim
    BY <1>8, <1>n DEF Finalize, SlotRow
  <2> QED BY <1>8, <2>1, <1>n, <1>i, OrderKept DEF Finalize, Return
<1> QED BY <1>2, <1>3, <1>4, <1>5, <1>6, <1>7, <1>8 DEF ActivationStep

LEMMA DownNext == ASSUME DownEmpty, Next PROVE DownEmpty'
<1>1. CASE Crash
  BY <1>1 DEF Crash, DownEmpty, TypeOK
<1>2. CASE Restart
  BY <1>2 DEF Restart, DownEmpty
<1>3. CASE SlotStep
  <2>1. ASSUME up PROVE DownEmpty'
    <3>1. up'
      BY <1>3, <2>1 DEF SlotStep, Renew, PauseCompleted, Cleanup, CleanupFails, LeaseAges, ClaimAges,
                        ClaimSlot, ReplayClaim, ReplaceRoute, RetryActivation, PauseIdle, Release, Leave
    <3> QED BY <3>1 DEF DownEmpty
  <2>2. ASSUME ~up PROVE DownEmpty'
    <3>1. LeaseAges \/ ClaimAges
      BY <1>3, <2>2 DEF DownEmpty, SlotStep, Renew, PauseCompleted, Cleanup, CleanupFails, ClaimSlot,
                        ReplayClaim, ReplaceRoute, RetryActivation, Pending, PauseIdle, Release, Leave, Take
    <3> QED BY <3>1 DEF LeaseAges, ClaimAges, DownEmpty, registryVars
  <2> QED BY <2>1, <2>2
<1>4. ASSUME NEW c \in Callers, ActivationStep(c) \/ PublicationStep(c) PROVE DownEmpty'
  <2>1. pc[c] # "idle"
    BY <1>4 DEF ActivationStep, LoadNothing, LoadClaim, NewClaim, BeginCommitted, Begin, BeginRefused, Silence,
                Prepare, PrepareFails, RenewClaim, RenewClaimFails, Commit, CommitRefused, Finalize,
                FinalizeFails, Resolve, Abandon, Undo, PublicationStep, Verify, Publish, Withdraw, GiveUp
  <2>2. up' = up
    BY <1>4 DEF ActivationStep, LoadNothing, LoadClaim, NewClaim, BeginCommitted, Begin, BeginRefused, Silence,
                Prepare, PrepareFails, RenewClaim, RenewClaimFails, Commit, CommitRefused, Finalize,
                FinalizeFails, Resolve, Abandon, Undo, PublicationStep, Verify, Publish, Withdraw, GiveUp
  <2> QED BY <2>1, <2>2 DEF DownEmpty
<1> QED BY <1>1, <1>2, <1>3, <1>4 DEF Next

LEMMA OInvNext == OInv /\ [Next]_vars => OInv'
<1> SUFFICES ASSUME OInv, [Next]_vars PROVE OInv'
  OBVIOUS
<1>1. TInv'
  BY TInvNext DEF OInv
<1>2. ClaimsOrdered'
  <2>1. CASE Crash
    BY <2>1, BoundsAssumption DEF OInv, ClaimsOrdered, Crash, rowVars, NoJob
  <2>2. CASE Restart \/ UNCHANGED vars
    BY <2>2 DEF OInv, ClaimsOrdered, Restart, vars, rowVars
  <2> QED BY <2>1, <2>2, OrderSlotStep, OrderCallerStep DEF OInv, Next
<1>3. DownEmpty'
  <2>1. CASE UNCHANGED vars
    BY <2>1 DEF OInv, DownEmpty, vars, registryVars
  <2> QED BY <2>1, DownNext DEF OInv
<1> QED BY <1>1, <1>2, <1>3 DEF OInv

(* What a step may do to the token of one name. *)
Forward(n) ==
  token[n].phase # "none" /\ token'[n].phase # "none" /\ up'
    => /\ token'[n].claim >= token[n].claim
       /\ token'[n].claim = token[n].claim /\ token[n].phase = "committed"
            => token'[n].phase = "committed"

LEMMA ForwardStep == ASSUME OInv, Next, NEW n \in Names PROVE Forward(n)
<1> USE BoundsAssumption DEF OInv, TInv
<1>n. token[n] \in Token /\ token[n].claim \in Nat
  BY DEF TypeOK, Token, Claims, LeaseClaim
<1>k. ASSUME token'[n] = token[n] PROVE Forward(n)
  BY <1>k, <1>n DEF Forward
<1>g. ASSUME NEW m \in Names, Retire(m) PROVE Forward(n)
  BY <1>g, <1>n DEF Retire, TypeOK, NoToken, Forward
<1>1. CASE Crash
  BY <1>1 DEF Crash, Forward
<1>2. CASE Restart
  BY <1>2 DEF Restart, DownEmpty, NoToken, Forward
<1>3. CASE SlotStep
  <2>1. slot.status # "unleased" => slot.name \in Names
    BY DEF Named
  <2>2. ASSUME NEW c \in Callers, Leave(c) PROVE Forward(n)
    BY <2>2, <1>g DEF Leave, Named
  <2>3. CASE Cleanup \/ CleanupFails
    BY <2>3, <2>1, <1>g DEF Cleanup, CleanupFails
  <2>4. CASE Renew \/ PauseCompleted \/ LeaseAges \/ ClaimAges
    BY <2>4, <1>k DEF Renew, PauseCompleted, LeaseAges, ClaimAges, registryVars
  <2>5. ASSUME NEW c \in Callers, ClaimSlot(c) \/ ReplayClaim(c) \/ ReplaceRoute(c)
                                   \/ RetryActivation(c) \/ PauseIdle(c) \/ Release(c)
        PROVE  Forward(n)
    BY <2>5, <1>k DEF ClaimSlot, ReplayClaim, ReplaceRoute, RetryActivation, PauseIdle, Release, registryVars
  <2> QED BY <1>3, <2>2, <2>3, <2>4, <2>5 DEF SlotStep
<1>4. ASSUME NEW c \in Callers, PublicationStep(c) PROVE Forward(n)
  BY <1>4, <1>k DEF PublicationStep, Verify, Publish, Withdraw, GiveUp, registryVars
<1>5. ASSUME NEW c \in Callers, ActivationStep(c) PROVE Forward(n)
  <2>j. pc[c] # "idle" => job[c].name \in Names
    BY DEF Named
  <2>c. job[c].claim \in Nat /\ job[c].previous \in Nat /\ job[c].previous <= job[c].claim
    BY DEF TypeOK, Job, Claims, LeaseClaim, ClaimsOrdered
  <2>1. CASE Begin(c)
    <3>1. CASE n = job[c].name
      <4>1. token'[n] = [claim |-> job[c].claim, phase |-> "activating"]
        BY <2>1, <3>1 DEF Begin, TypeOK
      <4>2. token[n].phase # "none" => token[n].claim \in {job[c].claim, job[c].previous}
        BY <2>1, <3>1 DEF Begin, MayBegin
      <4>3. ~(token[n].phase = "committed" /\ token[n].claim = job[c].claim)
        BY <2>1, <3>1 DEF Begin, AlreadyCommitted
      <4> QED BY <4>1, <4>2, <4>3, <2>c, <1>n DEF Forward
    <3>2. CASE n # job[c].name
      BY <2>1, <3>2, <1>k DEF Begin, TypeOK
    <3> QED BY <3>1, <3>2
  <2>2. CASE Commit(c)
    <3>1. token'[n].claim = token[n].claim
      BY <2>2, <2>j DEF Commit, TypeOK, Token
    <3>2. token[n].phase = "committed" => token'[n].phase = "committed"
      BY <2>2, <2>j DEF Commit, TypeOK, Token
    <3> QED BY <3>1, <3>2, <1>n DEF Forward
  <2>3. CASE Silence(c)
    <3>1. CASE job[c].old # 0
      <4>1. job[c].old \in Names
        BY <3>1 DEF TypeOK, Job, Names
      <4> QED BY <2>3, <3>1, <4>1, <1>g DEF Silence, SilenceOldName
    <3>2. CASE job[c].old = 0
      BY <2>3, <3>2, <1>k DEF Silence, SilenceOldName, registryVars
    <3> QED BY <3>1, <3>2
  <2>4. CASE Abandon(c)
    BY <2>4, <2>j, <1>g DEF Abandon
  <2>5. CASE Undo(c)
    BY <2>5, <1>k DEF Undo
  <2>6. CASE LoadNothing(c) \/ LoadClaim(c) \/ NewClaim(c) \/ BeginCommitted(c) \/ BeginRefused(c)
    BY <2>6, <1>k DEF LoadNothing, LoadClaim, NewClaim, BeginCommitted, BeginRefused, registryVars
  <2>7. CASE Prepare(c) \/ PrepareFails(c) \/ RenewClaim(c) \/ RenewClaimFails(c) \/ CommitRefused(c)
    BY <2>7, <1>k DEF Prepare, PrepareFails, RenewClaim, RenewClaimFails, CommitRefused, registryVars
  <2>8. CASE Finalize(c) \/ FinalizeFails(c) \/ Resolve(c)
    BY <2>8, <1>k DEF Finalize, FinalizeFails, Resolve, registryVars
  <2> QED BY <1>5, <2>1, <2>2, <2>3, <2>4, <2>5, <2>6, <2>7, <2>8 DEF ActivationStep
<1> QED BY <1>1, <1>2, <1>3, <1>4, <1>5 DEF Next

(* A late caller never puts back a claim that was taken over, and a committed *)
(* token never goes back to activating, for any number of callers, names and *)
(* claims.                                                                   *)
THEOREM TokensForward == Spec => TokensMoveForward
<1>1. OInv /\ [Next]_vars => [\A n \in Names : Forward(n)]_vars
  BY ForwardStep
<1> QED BY <1>1, OInvInit, OInvNext, PTL DEF Spec, TokensMoveForward, Forward
=============================================================================
