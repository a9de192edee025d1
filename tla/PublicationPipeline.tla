------------------------- MODULE PublicationPipeline -------------------------
(***************************************************************************)
(* The publication of one channel over one publication stream, from the    *)
(* crawler's database to the consumer cursors of the business database:    *)
(*                                                                         *)
(*   - the crawler's transaction writes the next revision of a domain and  *)
(*     its outbox row (publicationReconciler.js);                          *)
(*   - publishers lease outbox rows, post them in shards over HTTP and     *)
(*     store what they are told (publicationPublisher.js);                 *)
(*   - the ingress stores an envelope once and answers with a receipt      *)
(*     (businessPublicationIngress.js);                                    *)
(*   - reconcilers lease the channel and activate what continues its       *)
(*     cursors (businessPublicationReconciler.js, ...Activator.js).        *)
(*                                                                         *)
(* A revision is named by its domain and its sequence, which the stream    *)
(* makes unique.  A request the publisher gave up on stays on the wire and *)
(* may still be handled; answers may be lost.                              *)
(***************************************************************************)
EXTENDS Naturals, FiniteSets

CONSTANTS
  Domains,          \* the domains of a channel: channel, video, agent
  ChannelDomain,    \* the domain whose bootstrap registers the ownership
  VideoDomain,      \* with the channel, the core that must start together
  Publishers,       \* publisher processes
  Reconcilers,      \* reconciler processes
  BatchSize,        \* rows one claim takes
  ShardSize,        \* rows one request carries
  MaxAttempts,      \* attempts after which a failed row is given up
  MaxSequence,      \* bound: revisions of a domain
  Channels          \* the channels looked at, with the bounds of each

Modes    == {"automatic_bootstrap", "legacy_tracked_adoption", "cohort"}
AllFlaws == {"none", "unsendable", "rejected", "inapplicable"}

\* How a channel is onboarded, whether the policy of its stream is to take new
\* channels by their bootstrap, the processes that run, and how far it is
\* followed: the revisions of each domain, the flaws they may have, the claims
\* of one outbox row, the turns of reconcilers that lapse and the crashes.
ChannelRow ==
  [onboarding : Modes, policy : BOOLEAN, publishers : SUBSET Publishers, reconcilers : SUBSET Reconcilers,
   revisions : [Domains -> 0 .. MaxSequence], flaws : SUBSET AllFlaws,
   claims : Nat, turns : Nat, crashes : Nat]

ASSUME PublicationAssumption ==
  /\ IsFiniteSet(Domains) /\ ChannelDomain \in Domains /\ VideoDomain \in Domains
  /\ {BatchSize, ShardSize, MaxAttempts} \subseteq Nat \ {0}
  /\ MaxSequence \in Nat
  /\ Channels \subseteq ChannelRow

Nobody == "nobody"

Revisions == Domains \X (1 .. MaxSequence)

VARIABLES
  channel,      \* the channel, one of Channels
  written,      \* domain -> sequence of the crawler's current revision
  flaw,         \* revision -> what is wrong with it
  occurred,     \* revision -> the transaction that wrote it
  outbox,       \* revision -> its row in the crawler's outbox
  publisher,    \* publisher -> the batch it works on
  wire,         \* requests posted and neither handled nor lost
  owned,        \* whether the stream owns the channel in the business database
  inbox,        \* revision -> receive status of its inbox row
  stage,        \* revision -> activation status of its stored row
  ingress,      \* revision -> ingress status of its stored row
  cursor,       \* domain -> active sequence, 0 for no cursor
  turn,         \* the reconcilers' lease on the channel
  reconciler,   \* reconciler -> where it is in its turn
  crashes       \* crashes so far

sourceVars   == <<channel, written, flaw, occurred, outbox>>
businessVars == <<owned, inbox, stage, ingress, cursor>>
turnVars     == <<turn, reconciler>>
vars == <<sourceVars, publisher, wire, businessVars, turnVars, crashes>>

-----------------------------------------------------------------------------
(* The crawler side: revisions and their outbox rows.                      *)

NoRow    == [status |-> "none", attempts |-> 0, owner |-> Nobody, lapsed |-> FALSE]
NewRow   == [NoRow EXCEPT !.status = "pending"]

\* What a publisher holds: the claimed rows still to post, the request it
\* waits for, and the outcomes it has yet to store.
Nothing   == [r \in {} |-> 0]
NoRequest == [by |-> Nobody, claims |-> Nothing]
NoBatch   == [todo |-> {}, request |-> NoRequest, outcome |-> Nothing]

Items(request) == DOMAIN request.claims

Vector == [Domains -> 0 .. MaxSequence]

Init ==
  /\ channel \in Channels
  /\ written = [d \in Domains |-> 0]
  /\ flaw = [r \in Revisions |-> "none"]
  /\ occurred = [r \in Revisions |-> 0]
  /\ outbox = [r \in Revisions |-> NoRow]
  /\ publisher = [p \in Publishers |-> NoBatch]
  /\ wire = {}
  /\ owned = (channel.onboarding # "automatic_bootstrap")
  /\ inbox = [r \in Revisions |-> "none"]
  /\ stage = [r \in Revisions |-> "none"]
  /\ ingress = [r \in Revisions |-> "none"]
  /\ cursor = [d \in Domains |-> 0]
  /\ turn = [holder |-> Nobody, lapsed |-> FALSE, lapses |-> 0]
  /\ reconciler = [c \in Reconcilers |-> "idle"]
  /\ crashes = 0

Transactions == {occurred[r] : r \in Revisions}

\* One transaction of the crawler: the next revision of every changed domain
\* with its outbox row.  Automatic onboarding writes the bootstraps of all
\* domains in one transaction or none.
Revise(changed, flaws) ==
  LET new == {<<d, written[d] + 1>> : d \in changed}
      now == Cardinality(Transactions)
  IN /\ changed # {}
     /\ \A d \in changed : written[d] < channel.revisions[d]
     /\ (channel.onboarding = "automatic_bootstrap" /\ \E d \in Domains : written[d] = 0)
          => changed = Domains
     /\ flaws \in [new -> channel.flaws \cup {"none"}]
     /\ written' = [d \in Domains |-> IF d \in changed THEN written[d] + 1 ELSE written[d]]
     /\ flaw' = [r \in Revisions |-> IF r \in new THEN flaws[r] ELSE flaw[r]]
     /\ occurred' = [r \in Revisions |-> IF r \in new THEN now ELSE occurred[r]]
     /\ outbox' = [r \in Revisions |-> IF r \in new THEN NewRow ELSE outbox[r]]
     /\ UNCHANGED <<channel, publisher, wire, businessVars, turnVars, crashes>>

-----------------------------------------------------------------------------
(* Publishers.                                                             *)

\* Mutant: a row whose lease ran out is not claimed again.
ClaimableUnleased(due) ==
  {r \in Revisions : \/ outbox[r].status = "pending"
                     \/ outbox[r].status = "retry_wait" /\ r \in due}

Claimable(due) ==
  {r \in Revisions : \/ outbox[r].status = "pending"
                     \/ outbox[r].status = "retry_wait" /\ r \in due
                     \/ outbox[r].status = "leased" /\ outbox[r].lapsed}

\* claimBatch: the rows whose retry is due become pending, then the oldest
\* claimable rows are leased.  A row whose envelope cannot be built or is
\* larger than a shard may be is settled before anything is posted.
Claim(p, due, chosen) ==
  LET dead == {r \in chosen : flaw[r] = "unsendable"}
  IN /\ p \in channel.publishers /\ publisher[p] = NoBatch
     /\ \A r \in due : outbox[r].status = "retry_wait"
     /\ chosen # {} /\ chosen \subseteq Claimable(due)
     /\ \/ chosen = Claimable(due) /\ Cardinality(chosen) <= BatchSize
        \/ Cardinality(chosen) = BatchSize
     /\ \A r \in chosen, q \in Claimable(due) \ chosen : occurred[r] <= occurred[q]
     /\ outbox' = [r \in Revisions |->
          IF r \in chosen
          THEN [status |-> "leased", attempts |-> outbox[r].attempts + 1,
                owner |-> p, lapsed |-> FALSE]
          ELSE IF r \in due THEN [outbox[r] EXCEPT !.status = "pending"]
          ELSE outbox[r]]
     /\ publisher' = [publisher EXCEPT ![p] =
          [todo |-> chosen \ dead, request |-> NoRequest,
           outcome |-> [r \in dead |-> "unsendable"]]]
     /\ UNCHANGED <<channel, written, flaw, occurred, wire, businessVars, turnVars, crashes>>

Working(p, r) ==
  r \in publisher[p].todo \cup Items(publisher[p].request) \cup DOMAIN publisher[p].outcome

\* The lease of a row runs out while its publisher is slow or gone.
LeaseLapses(r) ==
  /\ outbox[r].status = "leased" /\ ~outbox[r].lapsed
  /\ Working(outbox[r].owner, r) => outbox[r].attempts < channel.claims
  /\ outbox' = [outbox EXCEPT ![r].lapsed = TRUE]
  /\ UNCHANGED <<channel, written, flaw, occurred, publisher, wire, businessVars, turnVars, crashes>>

\* acceptShard, the request: the next shard of the batch is posted.
Post(p, items) ==
  LET request == [by |-> p, claims |-> [r \in items |-> outbox[r].attempts]]
  IN /\ publisher[p].outcome = Nothing /\ publisher[p].request = NoRequest
     /\ items # {} /\ items \subseteq publisher[p].todo
     /\ \/ items = publisher[p].todo /\ Cardinality(items) <= ShardSize
        \/ Cardinality(items) = ShardSize
     /\ publisher' = [publisher EXCEPT ![p].request = request, ![p].todo = @ \ items]
     /\ wire' = wire \cup {request}
     /\ UNCHANGED <<sourceVars, businessVars, turnVars, crashes>>

\* acceptShard, the timer or an error of the transport or of the ingress: the
\* whole shard failed.  The request is not withdrawn from the wire.
GiveUp(p) ==
  /\ publisher[p].request # NoRequest
  /\ publisher' = [publisher EXCEPT
       ![p].request = NoRequest,
       ![p].outcome = [r \in Items(publisher[p].request) |-> "failed"]]
  /\ UNCHANGED <<sourceVars, wire, businessVars, turnVars, crashes>>

\* Mutant: a rejected revision counts as delivered.
DeliveredAnyReceipt(receipt) == receipt \in {"accepted", "duplicate", "waiting_gap", "rejected"}

\* durableReceiptDelivered: every receipt of a stored revision counts.
Delivered(receipt) == receipt \in {"accepted", "duplicate", "waiting_gap"}

\* What becomes of a row when its outcome is stored.
Settled(r, outcome) ==
  CASE Delivered(outcome) -> "delivered"
    [] outcome \in {"rejected", "unsendable"} -> "dead_letter"
    [] OTHER -> IF outbox[r].attempts >= MaxAttempts THEN "dead_letter" ELSE "retry_wait"

\* Mutant: an outcome is stored without asking for the lease.
HoldsAlways(p, r) == TRUE

\* Whether the lease has run out is not asked.
Holds(p, r) == outbox[r].status = "leased" /\ outbox[r].owner = p

\* markDelivered, markRejected and markFailed: one row, while the publisher
\* still owns its lease.
Settle(p, r) ==
  /\ r \in DOMAIN publisher[p].outcome
  /\ outbox' = [outbox EXCEPT ![r] =
       IF Holds(p, r)
       THEN [status |-> Settled(r, publisher[p].outcome[r]), attempts |-> @.attempts,
             owner |-> Nobody, lapsed |-> FALSE]
       ELSE @]
  /\ publisher' = [publisher EXCEPT ![p].outcome =
       [q \in DOMAIN publisher[p].outcome \ {r} |-> publisher[p].outcome[q]]]
  /\ UNCHANGED <<channel, written, flaw, occurred, wire, businessVars, turnVars, crashes>>

\* A publisher stops or its process ends on an error of the database.
PublisherCrash(p) ==
  /\ crashes < channel.crashes /\ publisher[p] # NoBatch
  /\ publisher' = [publisher EXCEPT ![p] = NoBatch]
  /\ crashes' = crashes + 1
  /\ UNCHANGED <<sourceVars, wire, businessVars, turnVars>>

\* A request that never reaches the ingress, or whose transaction rolls back.
LoseRequest(request) ==
  /\ request \in wire
  /\ wire' = wire \ {request}
  /\ UNCHANGED <<sourceVars, publisher, businessVars, turnVars, crashes>>

-----------------------------------------------------------------------------
(* The ingress.                                                            *)

ReceiveStatuses == {"accepted", "waiting_gap", "waiting_ownership", "rejected"}

ChannelBootstrap == <<ChannelDomain, 1>>

\* ensureAutomaticBusinessBootstrapOwnership: the first valid bootstrap of the
\* channel domain gives the channel to its stream, where that is its policy.
OwnedOnceReceived(items) ==
  \/ owned
  \/ channel.policy /\ ChannelBootstrap \in items /\ inbox[ChannelBootstrap] = "none"
       /\ flaw[ChannelBootstrap] # "rejected"

\* newEnvelopeReceipt, duplicateReceipt: the receive status of one envelope of
\* a shard whose envelopes are taken in the order of rank.
ReceivedAs(r, rank, status) ==
  LET soFar == {q \in DOMAIN rank : rank[q] <= rank[r]}
      prior == <<r[1], r[2] - 1>>
      priorAccepted == \/ ingress[prior] = "accepted"
                       \/ prior \in soFar /\ inbox[prior] = "none" /\ status[prior] = "accepted"
  IN IF inbox[r] # "none" THEN inbox[r]
     ELSE IF flaw[r] = "rejected" THEN "rejected"
     ELSE IF ~OwnedOnceReceived(soFar) THEN "waiting_ownership"
     ELSE IF r[2] > 1 /\ ~priorAccepted THEN "waiting_gap"
     ELSE "accepted"

\* The receipt the publisher reads: waiting for the ownership is reported as a
\* gap, and a repeated envelope as a duplicate unless it was rejected.
Receipt(r, status) ==
  IF status = "rejected" THEN "rejected"
  ELSE IF inbox[r] # "none" THEN "duplicate"
  ELSE IF status = "waiting_ownership" THEN "waiting_gap"
  ELSE status

\* Mutant: the receive status is stored as activation status.
FirstStageUnmapped(status) == status

FirstStage(status) == IF status = "accepted" THEN "staged" ELSE status

Orders(items) ==
  {rank \in [items -> 1 .. Cardinality(items)] :
     \A q, r \in items : q # r => rank[q] # rank[r]}

\* acceptShard: one transaction stores every envelope of a request that is not
\* in the inbox yet.  The answer reaches the publisher if it still waits.
AcceptShard(request, rank, status, answered) ==
  LET items == Items(request)
      fresh == {r \in items : inbox[r] = "none"}
      stored == {r \in fresh : status[r] # "rejected"}
      waits == publisher[request.by].request = request
  IN /\ request \in wire
     /\ \A r \in items : status[r] = ReceivedAs(r, rank, status)
     /\ answered => waits
     /\ wire' = wire \ {request}
     /\ owned' = OwnedOnceReceived(items)
     /\ inbox' = [r \in Revisions |-> IF r \in fresh THEN status[r] ELSE inbox[r]]
     /\ ingress' = [r \in Revisions |-> IF r \in stored THEN status[r] ELSE ingress[r]]
     /\ stage' = [r \in Revisions |-> IF r \in stored THEN FirstStage(status[r]) ELSE stage[r]]
     /\ publisher' = [publisher EXCEPT ![request.by] =
          IF answered
          THEN [@ EXCEPT !.request = NoRequest,
                         !.outcome = [r \in items |-> Receipt(r, status[r])]]
          ELSE @]
     /\ UNCHANGED <<sourceVars, cursor, turnVars, crashes>>

-----------------------------------------------------------------------------
(* Activation.                                                             *)

PendingStages == {"staged", "waiting_gap", "waiting_ownership"}
\* Mutant: what waited when it arrived is not looked at again.
PendingStaged(r) == stage[r] = "staged"

Pending(r) == stage[r] \in PendingStages

\* Mutant: missing revisions are passed over.
ReadyOverGaps(d) == {r \in Revisions : r[1] = d /\ cursor[d] < r[2] /\ Pending(r)}

\* selectContiguous: the stored revisions that continue the cursor of a domain.
Ready(d) ==
  {r \in Revisions : /\ r[1] = d /\ cursor[d] < r[2]
                     /\ \A n \in (cursor[d] + 1) .. r[2] : Pending(<<d, n>>)}

\* simulateDomain: the ready revisions up to the first that does not apply.
Applicable(d) ==
  {r \in Ready(d) : \A q \in Ready(d) : q[2] <= r[2] => flaw[q] # "inapplicable"}

Failed(d) ==
  {r \in Ready(d) : /\ flaw[r] = "inapplicable"
                    /\ \A q \in Ready(d) : q[2] < r[2] => flaw[q] # "inapplicable"}

Started == {d \in Domains : cursor[d] > 0}
Core    == {ChannelDomain, VideoDomain}

\* The domains that may only start together and have not started.
Package ==
  CASE channel.onboarding = "automatic_bootstrap" -> IF Started = {} THEN Domains ELSE {}
    [] channel.onboarding = "cohort" -> IF Started \cap Core = {} THEN Core ELSE {}
    [] OTHER -> {}

Consistent ==
  CASE channel.onboarding = "automatic_bootstrap" -> Started \in {{}, Domains}
    [] channel.onboarding = "cohort" -> Started \cap Core \in {{}, Core}
    [] OTHER -> TRUE

\* Mutant: the domains of a package do not wait for each other.
PackageAlwaysReady == TRUE

PackageReady == \A d \in Package : Ready(d) # {}
\* Mutant: one that does not apply does not hold the others.
PackageAlwaysSound == TRUE

PackageSound == \A d \in Package : Failed(d) = {}

Simulated ==
  IF ~Consistent \/ ~PackageReady THEN {}
  ELSE IF PackageSound THEN Domains ELSE Package

Applied == IF PackageSound THEN UNION {Applicable(d) : d \in Simulated} ELSE {}

\* setAppliedRevisionStatuses, quarantineRevision and markActivationStatuses.
NextStage(r) ==
  LET d == r[1]
      moves == \E q \in Applied : q[1] = d
      reset == IF Package = {} THEN Domains ELSE Package
  IN IF d \in Simulated /\ r \in Failed(d) THEN "quarantined"
     ELSE IF r \in Applied
          THEN IF \A q \in Applied : q[1] = d => q[2] <= r[2] THEN "active" ELSE "superseded"
     ELSE IF stage[r] = "active" /\ moves THEN "superseded"
     ELSE IF Pending(r) /\ (r \notin Ready(d) \/ (d \in Simulated \cap reset /\ r \notin Applicable(d)))
          THEN "waiting_gap"
     ELSE stage[r]

NextCursor(d) ==
  IF \E r \in Applied : r[1] = d
  THEN CHOOSE n \in 1 .. MaxSequence :
         <<d, n>> \in Applied /\ \A r \in Applied : r[1] = d => r[2] <= n
  ELSE cursor[d]

\* activateReady for a channel its stream owns: one transaction.
ActivateOwned ==
  /\ owned
  /\ stage' = [r \in Revisions |-> NextStage(r)]
  /\ ingress' = [r \in Revisions |-> IF r \in Applied THEN "accepted" ELSE ingress[r]]
  /\ cursor' = [d \in Domains |-> NextCursor(d)]

ActivateUnowned ==
  /\ ~owned
  /\ stage' = [r \in Revisions |-> IF Pending(r) THEN "waiting_ownership" ELSE stage[r]]
  /\ UNCHANGED <<ingress, cursor>>

-----------------------------------------------------------------------------
(* Reconcilers: the lease on the channel only spreads the work; the         *)
(* activation transaction does not look at it.                             *)

TakeTurn(c) ==
  /\ c \in channel.reconcilers /\ reconciler[c] = "idle"
  /\ turn.holder = Nobody \/ turn.lapsed
  /\ \E r \in Revisions : Pending(r)
  /\ turn' = [turn EXCEPT !.holder = c, !.lapsed = FALSE]
  /\ reconciler' = [reconciler EXCEPT ![c] = "claimed"]
  /\ UNCHANGED <<sourceVars, publisher, wire, businessVars, crashes>>

TurnLapses ==
  /\ turn.holder # Nobody /\ ~turn.lapsed
  /\ reconciler[turn.holder] = "idle" \/ turn.lapses < channel.turns
  /\ turn' = [turn EXCEPT !.lapsed = TRUE,
       !.lapses = IF reconciler[turn.holder] = "idle" THEN @ ELSE @ + 1]
  /\ UNCHANGED <<sourceVars, publisher, wire, businessVars, reconciler, crashes>>

Activate(c) ==
  /\ reconciler[c] = "claimed"
  /\ ActivateOwned \/ ActivateUnowned
  /\ reconciler' = [reconciler EXCEPT ![c] = "activated"]
  /\ UNCHANGED <<sourceVars, publisher, wire, owned, inbox, turn, crashes>>

\* The activation transaction fails and rolls back; failLease follows.
ActivationFails(c) ==
  /\ reconciler[c] = "claimed" /\ crashes < channel.crashes
  /\ reconciler' = [reconciler EXCEPT ![c] = "activated"]
  /\ crashes' = crashes + 1
  /\ UNCHANGED <<sourceVars, publisher, wire, businessVars, turn>>

\* completeLease and failLease: only the reconciler that holds the lease.
EndTurn(c) ==
  /\ reconciler[c] = "activated"
  /\ turn' = IF turn.holder = c THEN [turn EXCEPT !.holder = Nobody, !.lapsed = FALSE] ELSE turn
  /\ reconciler' = [reconciler EXCEPT ![c] = "idle"]
  /\ UNCHANGED <<sourceVars, publisher, wire, businessVars, crashes>>

ReconcilerCrash(c) ==
  /\ reconciler[c] # "idle" /\ crashes < channel.crashes
  /\ reconciler' = [reconciler EXCEPT ![c] = "idle"]
  /\ crashes' = crashes + 1
  /\ UNCHANGED <<sourceVars, publisher, wire, businessVars, turn>>

-----------------------------------------------------------------------------
ReviseSome == \E changed \in SUBSET Domains :
  \E flaws \in [{<<d, written[d] + 1>> : d \in changed} -> channel.flaws \cup {"none"}] :
    Revise(changed, flaws)

ClaimSome(p) == \E due, chosen \in SUBSET Revisions : Claim(p, due, chosen)

PostSome(p) == \E items \in SUBSET publisher[p].todo : Post(p, items)

SettleSome(p) == \E r \in Revisions : Settle(p, r)

Handle(request) ==
  \E rank \in Orders(Items(request)), status \in [Items(request) -> ReceiveStatuses],
     answered \in BOOLEAN : AcceptShard(request, rank, status, answered)

Next ==
  \/ ReviseSome
  \/ \E p \in Publishers :
       ClaimSome(p) \/ PostSome(p) \/ GiveUp(p) \/ SettleSome(p) \/ PublisherCrash(p)
  \/ \E r \in Revisions : LeaseLapses(r)
  \/ \E request \in wire : Handle(request) \/ LoseRequest(request)
  \/ \E c \in Reconcilers :
       TakeTurn(c) \/ Activate(c) \/ ActivationFails(c) \/ EndTurn(c) \/ ReconcilerCrash(c)
  \/ TurnLapses

Spec == Init /\ [][Next]_vars

-----------------------------------------------------------------------------
(* Fairness.  The processes poll in loops, the publisher's timer always     *)
(* ends a request, and a lease nobody works under runs out.                *)

AnswerOrGiveUp(p) ==
  GiveUp(p) \/ \E request \in wire : request = publisher[p].request /\ Handle(request)

Fairness ==
  /\ \A p \in Publishers :
       /\ WF_vars(ClaimSome(p)) /\ WF_vars(PostSome(p))
       /\ WF_vars(AnswerOrGiveUp(p)) /\ WF_vars(SettleSome(p))
  /\ \A r \in Revisions : WF_vars(LeaseLapses(r) /\ ~Working(outbox[r].owner, r))
  /\ \A c \in Reconcilers :
       WF_vars(TakeTurn(c)) /\ WF_vars(Activate(c)) /\ WF_vars(EndTurn(c))
  /\ WF_vars(TurnLapses /\ reconciler[turn.holder] = "idle")

FairSpec == Spec /\ Fairness

-----------------------------------------------------------------------------
(* Properties.                                                             *)

OutboxStatuses == {"none", "pending", "leased", "retry_wait", "delivered", "dead_letter"}
Stages == {"none", "active", "superseded", "quarantined"} \cup PendingStages
Outcomes == ReceiveStatuses \cup {"duplicate", "failed", "unsendable"}

\* The state has its types.
TypeOK ==
  /\ channel \in Channels
  /\ written \in Vector /\ cursor \in Vector
  /\ flaw \in [Revisions -> AllFlaws]
  /\ occurred \in [Revisions -> Nat]
  /\ outbox \in [Revisions -> [status : OutboxStatuses, attempts : Nat,
                               owner : Publishers \cup {Nobody}, lapsed : BOOLEAN]]
  /\ \A p \in Publishers :
       /\ publisher[p].todo \subseteq Revisions
       /\ DOMAIN publisher[p].request.claims \subseteq Revisions
       /\ \A r \in DOMAIN publisher[p].outcome :
            r \in Revisions /\ publisher[p].outcome[r] \in Outcomes
  /\ \A request \in wire : request.by \in Publishers /\ Items(request) \subseteq Revisions
  /\ owned \in BOOLEAN
  /\ inbox \in [Revisions -> ReceiveStatuses \cup {"none"}]
  /\ ingress \in [Revisions -> ReceiveStatuses \cup {"none"}]
  /\ stage \in [Revisions -> Stages]
  /\ turn \in [holder : Reconcilers \cup {Nobody}, lapsed : BOOLEAN, lapses : Nat]
  /\ reconciler \in [Reconcilers -> {"idle", "claimed", "activated"}]
  /\ crashes \in 0 .. channel.crashes

\* A row the outbox calls delivered is a revision the business database keeps,
\* however many publishers held it, whichever answers were lost and however
\* late a request was handled.
DeliveredIsStored ==
  \A r \in Revisions : outbox[r].status = "delivered" => stage[r] # "none"

\* A cursor stands on the last of an unbroken run of applied revisions: below
\* it nothing is missing, pending or quarantined, above it nothing is applied,
\* and the one active row of a domain is the one its cursor names.
CursorHasNoGap ==
  \A r \in Revisions :
    /\ stage[r] \in {"active", "superseded"} <=> r[2] <= cursor[r[1]]
    /\ stage[r] = "active" <=> r[2] = cursor[r[1]]
    /\ r[2] <= cursor[r[1]] => flaw[r] \notin {"rejected", "inapplicable", "unsendable"}

\* The domains that start together have all started or none has, although
\* their bootstraps arrive in any order and one of them may be quarantined.
PackageStartsTogether == Consistent /\ (Started # {} => owned)

\* What a late answer, a lapsed lease or a second claim can no longer change:
\* a settled outbox row, and an applied or quarantined revision.
SettledStaysSettled ==
  [][\A r \in Revisions :
       /\ outbox[r].status \in {"delivered", "dead_letter"} => outbox'[r] = outbox[r]
       /\ stage[r] \in {"superseded", "quarantined"} => stage'[r] = stage[r]
       /\ stage[r] = "active" => stage'[r] \in {"active", "superseded"}]_vars

\* The pipeline implements the log of revisions.
Together ==
  CASE channel.onboarding = "automatic_bootstrap" -> Domains
    [] channel.onboarding = "cohort" -> Core
    [] OTHER -> {}

Log == INSTANCE RevisionLog WITH read <- cursor, together <- Together

ImplementsRevisionLog == Log!Spec

\* A crawler that stops writing leaves no work behind: every outbox row is
\* settled, delivered or given up as a dead letter, and stays so.
EveryRowSettles ==
  <>[](\A r \in Revisions : outbox[r].status \in {"none", "delivered", "dead_letter"})

\* What a revision waits for besides itself: the earlier ones of its domain
\* and, before the package has started, the first of each of its domains.
Needs(r) ==
  {<<r[1], n>> : n \in 1 .. r[2]} \cup
  (IF r[1] \in Together THEN {<<d, 1>> : d \in Together} ELSE {})

Stuck(r) ==
  \E q \in Needs(r) :
    \/ outbox[q].status \in {"none", "dead_letter"}
    \/ stage[q] = "quarantined"

\* And every revision is applied unless one it waits for was given up,
\* quarantined or never written, or the stream takes no new channels: a
\* delivered revision is never forgotten.
EveryRevisionApplies ==
  <>[](\A r \in Revisions :
         \/ outbox[r].status = "none" \/ r[2] <= cursor[r[1]] \/ Stuck(r)
         \/ ~channel.policy /\ ~owned)
=============================================================================
