---------------------- MODULE PublicationPipelineProofs ----------------------
(***************************************************************************)
(* Proofs about the publication of a channel, for every number of domains, *)
(* publishers, reconcilers and revisions and every channel row.            *)
(***************************************************************************)
EXTENDS PublicationPipeline, FiniteSetTheorems, WellFoundedInduction, TLAPS

-----------------------------------------------------------------------------
(* Least and greatest numbers of a set: the induction the proofs need.     *)

LEMMA Least ==
  ASSUME NEW S \in SUBSET Nat, S # {}
  PROVE  \E n \in S : \A m \in S : n <= m
<1>1. IsWellFoundedOn(OpToRel(<, Nat), Nat)
  BY NatLessThanWellFounded
<1>2. PICK n \in S : \A m \in S : ~(<<m, n>> \in OpToRel(<, Nat))
  BY <1>1, WFMin
<1>3. \A m, k \in Nat : m < k => <<m, k>> \in OpToRel(<, Nat)
  BY DEF OpToRel
<1>4. \A m \in S : ~(m < n)
  BY <1>2, <1>3, Zenon
<1>. QED BY <1>4

LEMMA Greatest ==
  ASSUME NEW N \in Nat, NEW S \in SUBSET (0 .. N), S # {}
  PROVE  \E n \in S : \A m \in S : m <= n
<1>. DEFINE T == {N - n : n \in S}
<1>1. T \in SUBSET Nat /\ T # {}
  <2>1. \A n \in S : N - n \in Nat
    OBVIOUS
  <2>. QED BY <2>1
<1>2. PICK k \in T : \A j \in T : k <= j
  <2>. HIDE DEF T
  <2>. QED BY <1>1, Least
<1>3. PICK n \in S : k = N - n
  BY <1>2
<1>4. \A m \in S : N - n <= N - m
  BY <1>2, <1>3
<1>. QED BY <1>4

-----------------------------------------------------------------------------
(* Types.                                                                  *)

RowType == [status : OutboxStatuses, attempts : Nat,
            owner : Publishers \cup {Nobody}, lapsed : BOOLEAN]

ClaimsType  == UNION {[S -> Nat] : S \in SUBSET Revisions}
OutcomeType == UNION {[S -> Outcomes] : S \in SUBSET Revisions}
RequestType == [by : Publishers \cup {Nobody}, claims : ClaimsType]
BatchType   == [todo : SUBSET Revisions, request : RequestType, outcome : OutcomeType]

SourceTyped ==
  /\ channel \in Channels /\ written \in Vector
  /\ flaw \in [Revisions -> AllFlaws] /\ occurred \in [Revisions -> Nat]
  /\ outbox \in [Revisions -> RowType]

PublishersTyped ==
  /\ publisher \in [Publishers -> BatchType]
  /\ wire \subseteq [by : Publishers, claims : ClaimsType]

BusinessTyped ==
  /\ owned \in BOOLEAN /\ cursor \in Vector
  /\ inbox \in [Revisions -> ReceiveStatuses \cup {"none"}]
  /\ ingress \in [Revisions -> ReceiveStatuses \cup {"none"}]
  /\ stage \in [Revisions -> Stages]

TurnTyped ==
  /\ turn \in [holder : Reconcilers \cup {Nobody}, lapsed : BOOLEAN, lapses : Nat]
  /\ reconciler \in [Reconcilers -> {"idle", "claimed", "activated"}]
  /\ crashes \in 0 .. channel.crashes

Types == SourceTyped /\ PublishersTyped /\ BusinessTyped /\ TurnTyped

LEMMA RevisionParts ==
  \A r \in Revisions : r[1] \in Domains /\ r[2] \in 1 .. MaxSequence /\ r = <<r[1], r[2]>>
BY DEF Revisions

LEMMA RevisionOf == \A d \in Domains, n \in 1 .. MaxSequence : <<d, n>> \in Revisions
BY DEF Revisions

LEMMA ClaimsParts ==
  /\ \A c \in ClaimsType : DOMAIN c \subseteq Revisions
  /\ \A S \in SUBSET Revisions : \A f \in [S -> Nat] : f \in ClaimsType
BY DEF ClaimsType

LEMMA OutcomeParts ==
  /\ \A o \in OutcomeType : DOMAIN o \subseteq Revisions /\ \A r \in DOMAIN o : o[r] \in Outcomes
  /\ \A S \in SUBSET Revisions : \A f \in [S -> Outcomes] : f \in OutcomeType
BY DEF OutcomeType

LEMMA NoBatchTyped ==
  /\ Nothing \in ClaimsType /\ Nothing \in OutcomeType /\ DOMAIN Nothing = {}
  /\ NoRequest \in RequestType /\ NoBatch \in BatchType
<1>1. Nothing \in ClaimsType /\ Nothing \in OutcomeType /\ DOMAIN Nothing = {}
  <2>1. Nothing \in [{} -> Nat] /\ Nothing \in [{} -> Outcomes] /\ {} \in SUBSET Revisions
    BY DEF Nothing
  <2>2. DOMAIN Nothing = {}
    BY DEF Nothing
  <2>. QED BY <2>1, <2>2, ClaimsParts, OutcomeParts
<1>2. NoRequest \in RequestType
  BY <1>1 DEF NoRequest, RequestType
<1>. QED BY <1>1, <1>2 DEF NoBatch, BatchType

\* What the types of the proofs say together is the type invariant of the module.
LEMMA TypesSuffice == Types => TypeOK
<1>. SUFFICES ASSUME Types PROVE TypeOK
  OBVIOUS
<1>1. ASSUME NEW p \in Publishers
      PROVE  /\ publisher[p].todo \subseteq Revisions
             /\ DOMAIN publisher[p].request.claims \subseteq Revisions
             /\ \A r \in DOMAIN publisher[p].outcome :
                  r \in Revisions /\ publisher[p].outcome[r] \in Outcomes
  <2>1. /\ publisher[p].todo \subseteq Revisions /\ publisher[p].request.claims \in ClaimsType
        /\ publisher[p].outcome \in OutcomeType
    BY DEF Types, PublishersTyped, BatchType, RequestType
  <2>. QED BY <2>1, ClaimsParts, OutcomeParts
<1>2. \A request \in wire : request.by \in Publishers /\ Items(request) \subseteq Revisions
  BY ClaimsParts DEF Types, PublishersTyped, Items
<1>. QED BY <1>1, <1>2 DEF Types, TypeOK, SourceTyped, BusinessTyped, TurnTyped, RowType

\* Which actions change which part of the state.
LEMMA Frames ==
  ASSUME [Next]_vars
  PROVE  /\ \/ UNCHANGED sourceVars
            \/ ReviseSome
            \/ \E p \in Publishers : ClaimSome(p) \/ SettleSome(p)
            \/ \E r \in Revisions : LeaseLapses(r)
         /\ \/ UNCHANGED <<publisher, wire>>
            \/ \E p \in Publishers :
                 ClaimSome(p) \/ PostSome(p) \/ GiveUp(p) \/ SettleSome(p) \/ PublisherCrash(p)
            \/ \E request \in wire : Handle(request) \/ LoseRequest(request)
         /\ \/ UNCHANGED businessVars
            \/ \E request \in wire : Handle(request)
            \/ \E c \in Reconcilers : Activate(c)
         /\ channel' = channel
         /\ \/ UNCHANGED <<turnVars, crashes>>
            \/ \E p \in Publishers : PublisherCrash(p)
            \/ TurnLapses
            \/ \E c \in Reconcilers :
                 TakeTurn(c) \/ Activate(c) \/ ActivationFails(c) \/ EndTurn(c) \/ ReconcilerCrash(c)
<1>. USE DEF sourceVars, businessVars, turnVars
<1>1. CASE ReviseSome
  <2>1. UNCHANGED <<channel, publisher, wire, businessVars, turnVars, crashes>>
    BY <1>1 DEF ReviseSome, Revise
  <2>. QED BY <1>1, <2>1
<1>2. ASSUME NEW p \in Publishers, ClaimSome(p) \/ SettleSome(p)
      PROVE  UNCHANGED <<channel, businessVars, turnVars, crashes>>
  BY <1>2 DEF ClaimSome, Claim, SettleSome, Settle
<1>3. ASSUME NEW p \in Publishers, PostSome(p) \/ GiveUp(p)
      PROVE  UNCHANGED <<sourceVars, businessVars, turnVars, crashes>>
  BY <1>3 DEF PostSome, Post, GiveUp
<1>4. ASSUME NEW p \in Publishers, PublisherCrash(p)
      PROVE  UNCHANGED <<sourceVars, businessVars>>
  BY <1>4 DEF PublisherCrash
<1>5. ASSUME NEW r \in Revisions, LeaseLapses(r)
      PROVE  UNCHANGED <<channel, publisher, wire, businessVars, turnVars, crashes>>
  BY <1>5 DEF LeaseLapses
<1>6. ASSUME NEW request \in wire, Handle(request)
      PROVE  UNCHANGED <<sourceVars, turnVars, crashes>>
  BY <1>6 DEF Handle, AcceptShard
<1>7. ASSUME NEW request \in wire, LoseRequest(request)
      PROVE  UNCHANGED <<sourceVars, businessVars, turnVars, crashes>>
  BY <1>7 DEF LoseRequest
<1>8. ASSUME NEW c \in Reconcilers, Activate(c)
      PROVE  UNCHANGED <<sourceVars, publisher, wire>>
  BY <1>8 DEF Activate
<1>9. ASSUME TurnLapses \/ \E c \in Reconcilers :
                TakeTurn(c) \/ ActivationFails(c) \/ EndTurn(c) \/ ReconcilerCrash(c)
      PROVE  UNCHANGED <<sourceVars, publisher, wire, businessVars>>
  BY <1>9 DEF TurnLapses, TakeTurn, ActivationFails, EndTurn, ReconcilerCrash
<1>10. CASE UNCHANGED vars
  BY <1>10 DEF vars
<1>. QED BY <1>1, <1>2, <1>3, <1>4, <1>5, <1>6, <1>7, <1>8, <1>9, <1>10 DEF Next

LEMMA InitTypes == Init => Types
<1>. SUFFICES ASSUME Init PROVE Types
  OBVIOUS
<1>. USE PublicationAssumption
<1>1. SourceTyped
  BY DEF Init, SourceTyped, Vector, AllFlaws, RowType, NoRow, OutboxStatuses
<1>2. PublishersTyped
  BY NoBatchTyped DEF Init, PublishersTyped
<1>3. BusinessTyped
  BY DEF Init, BusinessTyped, Vector, Stages
<1>4. channel.crashes \in Nat
  BY DEF Init, ChannelRow
<1>5. TurnTyped
  BY <1>4 DEF Init, TurnTyped
<1>. QED BY <1>1, <1>2, <1>3, <1>5 DEF Types

LEMMA TransactionsFinite ==
  ASSUME occurred \in [Revisions -> Nat]
  PROVE  Cardinality(Transactions) \in Nat
<1>1. IsFiniteSet(1 .. MaxSequence)
  BY PublicationAssumption, FS_Interval
<1>2. IsFiniteSet(Revisions)
  BY <1>1, PublicationAssumption, FS_Product DEF Revisions
<1>3. occurred \in Surjection(Revisions, Transactions)
  BY DEF Surjection, Transactions
<1>4. IsFiniteSet(Transactions)
  BY <1>2, <1>3, FS_Surjection
<1>. QED BY <1>4, FS_CardinalityType

LEMMA ReviseTyped ==
  ASSUME Types, ReviseSome
  PROVE  SourceTyped'
<1>a. PICK changed \in SUBSET Domains :
        \E flaws \in [{<<d, written[d] + 1>> : d \in changed} -> channel.flaws \cup {"none"}] :
          Revise(changed, flaws)
  BY DEF ReviseSome
<1>1. PICK flaws \in [{<<d, written[d] + 1>> : d \in changed} -> channel.flaws \cup {"none"}] :
        Revise(changed, flaws)
  BY <1>a
<1>. DEFINE new == {<<d, written[d] + 1>> : d \in changed}
<1>2. channel \in ChannelRow /\ channel' = channel
  BY <1>1, PublicationAssumption DEF Types, SourceTyped, Revise
<1>3. written' \in Vector
  <2>1. \A d \in changed : written[d] \in Nat /\ written[d] < channel.revisions[d]
                           /\ channel.revisions[d] \in 0 .. MaxSequence
    BY <1>1, <1>2 DEF Types, SourceTyped, Vector, Revise, ChannelRow
  <2>2. \A d \in changed : written[d] + 1 \in 0 .. MaxSequence
    BY <2>1, PublicationAssumption
  <2>3. written' = [d \in Domains |-> IF d \in changed THEN written[d] + 1 ELSE written[d]]
    BY <1>1 DEF Revise
  <2>. QED BY <2>2, <2>3 DEF Types, SourceTyped, Vector
<1>4. flaw' \in [Revisions -> AllFlaws]
  <2>1. channel.flaws \cup {"none"} \subseteq AllFlaws
    BY <1>2 DEF ChannelRow, AllFlaws
  <2>2. \A r \in new : flaws[r] \in AllFlaws
    BY <2>1
  <2>3. flaw' = [r \in Revisions |-> IF r \in new THEN flaws[r] ELSE flaw[r]]
    BY <1>1 DEF Revise
  <2>. QED BY <2>2, <2>3 DEF Types, SourceTyped
<1>5. occurred' \in [Revisions -> Nat]
  <2>1. Cardinality(Transactions) \in Nat
    BY TransactionsFinite DEF Types, SourceTyped
  <2>2. occurred' = [r \in Revisions |-> IF r \in new THEN Cardinality(Transactions) ELSE occurred[r]]
    BY <1>1 DEF Revise
  <2>. QED BY <2>1, <2>2 DEF Types, SourceTyped
<1>6. outbox' \in [Revisions -> RowType]
  <2>1. NewRow \in RowType
    BY DEF NewRow, NoRow, RowType, OutboxStatuses
  <2>2. outbox' = [r \in Revisions |-> IF r \in new THEN NewRow ELSE outbox[r]]
    BY <1>1 DEF Revise
  <2>. QED BY <2>1, <2>2 DEF Types, SourceTyped
<1>. QED BY <1>2, <1>3, <1>4, <1>5, <1>6 DEF SourceTyped, Types

LEMMA OutboxTyped ==
  ASSUME Types,
         \/ \E p \in Publishers : ClaimSome(p) \/ SettleSome(p)
         \/ \E r \in Revisions : LeaseLapses(r)
  PROVE  SourceTyped'
<1>1. \A r \in Revisions : outbox[r] \in RowType
  BY DEF Types, SourceTyped
<1>2. ASSUME NEW p \in Publishers, ClaimSome(p) PROVE outbox' \in [Revisions -> RowType]
  <2>1. PICK due \in SUBSET Revisions, chosen \in SUBSET Revisions : Claim(p, due, chosen)
    BY <1>2 DEF ClaimSome
  <2>2. outbox' = [r \in Revisions |->
          IF r \in chosen
          THEN [status |-> "leased", attempts |-> outbox[r].attempts + 1, owner |-> p, lapsed |-> FALSE]
          ELSE IF r \in due THEN [outbox[r] EXCEPT !.status = "pending"]
          ELSE outbox[r]]
    BY <2>1 DEF Claim
  <2>3. ASSUME NEW r \in Revisions
        PROVE  /\ [status |-> "leased", attempts |-> outbox[r].attempts + 1, owner |-> p, lapsed |-> FALSE]
                     \in RowType
               /\ [outbox[r] EXCEPT !.status = "pending"] \in RowType
    BY <1>1 DEF RowType, OutboxStatuses
  <2>. QED BY <1>1, <2>2, <2>3
<1>3. ASSUME NEW p \in Publishers, SettleSome(p) PROVE outbox' \in [Revisions -> RowType]
  <2>1. PICK r \in Revisions : Settle(p, r)
    BY <1>3 DEF SettleSome
  <2>2. Settled(r, publisher[p].outcome[r]) \in OutboxStatuses
    BY DEF Settled, OutboxStatuses
  <2>3. [status |-> Settled(r, publisher[p].outcome[r]), attempts |-> outbox[r].attempts,
         owner |-> Nobody, lapsed |-> FALSE] \in RowType
    BY <1>1, <2>2 DEF RowType
  <2>4. outbox' = [outbox EXCEPT ![r] =
          [status |-> Settled(r, publisher[p].outcome[r]), attempts |-> outbox[r].attempts,
           owner |-> Nobody, lapsed |-> FALSE]] \/ outbox' = [outbox EXCEPT ![r] = outbox[r]]
    BY <2>1 DEF Settle
  <2>. QED BY <1>1, <2>3, <2>4 DEF Types, SourceTyped
<1>4. ASSUME NEW r \in Revisions, LeaseLapses(r) PROVE outbox' \in [Revisions -> RowType]
  <2>1. [outbox[r] EXCEPT !.lapsed = TRUE] \in RowType
    BY <1>1 DEF RowType
  <2>2. outbox' = [outbox EXCEPT ![r] = [outbox[r] EXCEPT !.lapsed = TRUE]]
    BY <1>4 DEF LeaseLapses
  <2>. QED BY <2>1, <2>2 DEF Types, SourceTyped
<1>5. UNCHANGED <<channel, written, flaw, occurred>>
  BY DEF ClaimSome, Claim, SettleSome, Settle, LeaseLapses
<1>. QED BY <1>2, <1>3, <1>4, <1>5 DEF Types, SourceTyped

\* A batch whose parts are replaced stays a batch.
LEMMA BatchUpdate ==
  ASSUME NEW b \in BatchType
  PROVE  /\ \A q \in RequestType : [b EXCEPT !.request = q] \in BatchType
         /\ \A o \in OutcomeType : [b EXCEPT !.outcome = o] \in BatchType
         /\ \A t \in SUBSET Revisions : [b EXCEPT !.todo = t] \in BatchType
BY DEF BatchType

LEMMA PublishersStep ==
  ASSUME Types, [Next]_vars
  PROVE  PublishersTyped'
<1>1. publisher \in [Publishers -> BatchType] /\ wire \subseteq [by : Publishers, claims : ClaimsType]
  BY DEF Types, PublishersTyped
<1>2. ASSUME NEW p \in Publishers, ClaimSome(p) PROVE PublishersTyped'
  <2>1. PICK due \in SUBSET Revisions, chosen \in SUBSET Revisions : Claim(p, due, chosen)
    BY <1>2 DEF ClaimSome
  <2>. DEFINE dead == {r \in chosen : flaw[r] = "unsendable"}
  <2>2. [r \in dead |-> "unsendable"] \in OutcomeType
    <3>1. [r \in dead |-> "unsendable"] \in [dead -> Outcomes] /\ dead \in SUBSET Revisions
      BY DEF Outcomes
    <3>. QED BY <3>1, OutcomeParts
  <2>3. [todo |-> chosen \ dead, request |-> NoRequest, outcome |-> [r \in dead |-> "unsendable"]]
          \in BatchType
    BY <2>2, NoBatchTyped DEF BatchType
  <2>4. publisher' = [publisher EXCEPT ![p] =
          [todo |-> chosen \ dead, request |-> NoRequest, outcome |-> [r \in dead |-> "unsendable"]]]
        /\ wire' = wire
    BY <2>1 DEF Claim
  <2>. QED BY <1>1, <2>3, <2>4 DEF PublishersTyped
<1>3. ASSUME NEW p \in Publishers, PostSome(p) PROVE PublishersTyped'
  <2>1. PICK items \in SUBSET publisher[p].todo : Post(p, items)
    BY <1>3 DEF PostSome
  <2>. DEFINE request == [by |-> p, claims |-> [r \in items |-> outbox[r].attempts]]
  <2>2. items \in SUBSET Revisions /\ publisher[p] \in BatchType /\ publisher[p].todo \in SUBSET Revisions
    BY <1>1 DEF BatchType
  <2>3. request \in [by : Publishers, claims : ClaimsType] /\ request \in RequestType
    <3>1. [r \in items |-> outbox[r].attempts] \in [items -> Nat]
      BY <2>2 DEF Types, SourceTyped, RowType
    <3>2. [r \in items |-> outbox[r].attempts] \in ClaimsType
      BY <2>2, <3>1, ClaimsParts
    <3>. QED BY <3>2 DEF RequestType
  <2>4. publisher' = [publisher EXCEPT ![p].request = request, ![p].todo = @ \ items]
        /\ wire' = wire \cup {request}
    BY <2>1 DEF Post
  <2>. HIDE DEF request
  <2>. DEFINE b1 == [publisher[p] EXCEPT !.request = request]
              b2 == [b1 EXCEPT !.todo = publisher[p].todo \ items]
  <2>5. b1 \in BatchType
    BY <2>2, <2>3, BatchUpdate
  <2>6. b2 \in BatchType
    <3>. HIDE DEF b1
    <3>. QED BY <2>2, <2>5, BatchUpdate
  <2>7. publisher' = [publisher EXCEPT ![p] = b2]
    BY <1>1, <2>2, <2>4 DEF BatchType
  <2>. HIDE DEF b2
  <2>8. publisher' \in [Publishers -> BatchType]
    BY <1>1, <2>6, <2>7
  <2>9. wire' \subseteq [by : Publishers, claims : ClaimsType]
    BY <1>1, <2>3, <2>4
  <2>. QED BY <2>8, <2>9 DEF PublishersTyped
<1>4. ASSUME NEW p \in Publishers, GiveUp(p) PROVE PublishersTyped'
  <2>1. publisher[p].request \in RequestType /\ Items(publisher[p].request) \in SUBSET Revisions
    BY <1>1, ClaimsParts DEF BatchType, RequestType, Items
  <2>. DEFINE failed == [r \in Items(publisher[p].request) |-> "failed"]
              b1 == [publisher[p] EXCEPT !.request = NoRequest]
              b2 == [b1 EXCEPT !.outcome = failed]
  <2>2. failed \in OutcomeType
    <3>1. failed \in [Items(publisher[p].request) -> Outcomes]
      BY DEF Outcomes
    <3>. QED BY <2>1, <3>1, OutcomeParts
  <2>3. b1 \in BatchType
    BY <1>1, NoBatchTyped, BatchUpdate
  <2>4. b2 \in BatchType
    <3>. HIDE DEF b1, failed
    <3>. QED BY <2>2, <2>3, BatchUpdate
  <2>5. publisher' = [publisher EXCEPT ![p] = b2] /\ wire' = wire
    BY <1>1, <1>4 DEF GiveUp, BatchType
  <2>. HIDE DEF b2
  <2>. QED BY <1>1, <2>4, <2>5 DEF PublishersTyped
<1>5. ASSUME NEW p \in Publishers, SettleSome(p) PROVE PublishersTyped'
  <2>1. PICK r \in Revisions : Settle(p, r)
    BY <1>5 DEF SettleSome
  <2>. DEFINE rest == [q \in DOMAIN publisher[p].outcome \ {r} |-> publisher[p].outcome[q]]
  <2>2. publisher[p].outcome \in OutcomeType
    BY <1>1 DEF BatchType
  <2>3. rest \in OutcomeType
    <3>. DEFINE S == DOMAIN publisher[p].outcome \ {r}
    <3>1. S \in SUBSET Revisions /\ rest \in [S -> Outcomes]
      BY <2>2, OutcomeParts
    <3>. HIDE DEF S, rest
    <3>. QED BY <3>1, OutcomeParts
  <2>4. publisher' = [publisher EXCEPT ![p] = [publisher[p] EXCEPT !.outcome = rest]] /\ wire' = wire
    BY <2>1 DEF Settle
  <2>. HIDE DEF rest
  <2>5. [publisher[p] EXCEPT !.outcome = rest] \in BatchType
    BY <1>1, <2>3, BatchUpdate
  <2>. QED BY <1>1, <2>4, <2>5 DEF PublishersTyped
<1>6. ASSUME NEW p \in Publishers, PublisherCrash(p) PROVE PublishersTyped'
  BY <1>1, <1>6, NoBatchTyped DEF PublisherCrash, PublishersTyped
<1>7. ASSUME NEW request \in wire, Handle(request) PROVE PublishersTyped'
  <2>1. PICK rank \in Orders(Items(request)), status \in [Items(request) -> ReceiveStatuses],
             answered \in BOOLEAN : AcceptShard(request, rank, status, answered)
    BY <1>7 DEF Handle
  <2>. DEFINE receipts == [r \in Items(request) |-> Receipt(r, status[r])]
              p  == request.by
              b1 == [publisher[p] EXCEPT !.request = NoRequest]
              b2 == [b1 EXCEPT !.outcome = receipts]
  <2>2. p \in Publishers /\ Items(request) \in SUBSET Revisions
    BY <1>1, ClaimsParts DEF Items
  <2>3. receipts \in OutcomeType
    <3>1. \A r \in Items(request) : Receipt(r, status[r]) \in Outcomes
      BY DEF Receipt, Outcomes, ReceiveStatuses
    <3>2. receipts \in [Items(request) -> Outcomes]
      BY <3>1
    <3>. HIDE DEF receipts
    <3>. QED BY <2>2, <3>2, OutcomeParts
  <2>4. b1 \in BatchType
    BY <1>1, <2>2, NoBatchTyped, BatchUpdate
  <2>5. b2 \in BatchType
    <3>. HIDE DEF b1, receipts
    <3>. QED BY <2>3, <2>4, BatchUpdate
  <2>6. publisher' = [publisher EXCEPT ![p] = IF answered THEN b2 ELSE publisher[p]]
    BY <2>1 DEF AcceptShard
  <2>7. wire' = wire \ {request}
    BY <2>1 DEF AcceptShard
  <2>. HIDE DEF b2, p
  <2>. QED BY <1>1, <2>2, <2>5, <2>6, <2>7 DEF PublishersTyped
<1>8. ASSUME NEW request \in wire, LoseRequest(request) PROVE PublishersTyped'
  BY <1>1, <1>8 DEF LoseRequest, PublishersTyped
<1>9. CASE UNCHANGED <<publisher, wire>>
  BY <1>1, <1>9 DEF PublishersTyped
<1>. QED BY <1>2, <1>3, <1>4, <1>5, <1>6, <1>7, <1>8, <1>9, Frames

\* What an activation applies is stored and waits above the cursor of its domain.
LEMMA AppliedParts ==
  /\ Applied \subseteq Revisions
  /\ \A r \in Applied : r[1] \in Domains /\ r \in Applicable(r[1]) /\ r[1] \in Simulated /\ PackageSound
  /\ \A d \in Domains : Applicable(d) \subseteq Ready(d) /\ Failed(d) \subseteq Ready(d)
  /\ \A d \in Domains : \A r \in Ready(d) : r \in Revisions /\ r[1] = d /\ cursor[d] < r[2]
  /\ Simulated \subseteq Domains
<1>1. \A d \in Domains : Applicable(d) \subseteq Ready(d) /\ Failed(d) \subseteq Ready(d)
  BY DEF Applicable, Failed
<1>2. \A d \in Domains : \A r \in Ready(d) : r \in Revisions /\ r[1] = d /\ cursor[d] < r[2]
  BY DEF Ready
<1>3. Simulated \subseteq Domains
  BY PublicationAssumption DEF Simulated, Package, Core
<1>4. \A r \in Applied : \E d \in Simulated : r \in Applicable(d) /\ PackageSound
  BY DEF Applied
<1>5. ASSUME NEW r \in Applied
      PROVE  r \in Revisions /\ r[1] \in Domains /\ r \in Applicable(r[1]) /\ r[1] \in Simulated
  <2>1. PICK d \in Simulated : r \in Applicable(d)
    BY <1>4
  <2>2. d \in Domains /\ r \in Ready(d)
    BY <1>1, <1>3, <2>1
  <2>. QED BY <1>2, <2>1, <2>2
<1>. QED BY <1>1, <1>2, <1>3, <1>4, <1>5

\* NextCursor: the last revision applied, or the cursor as it was.
LEMMA NextCursorValue ==
  ASSUME NEW d \in Domains
  PROVE  /\ (\A r \in Applied : r[1] # d) => NextCursor(d) = cursor[d]
         /\ (\E r \in Applied : r[1] = d) =>
              /\ NextCursor(d) \in 1 .. MaxSequence
              /\ <<d, NextCursor(d)>> \in Applied
              /\ \A r \in Applied : r[1] = d => r[2] <= NextCursor(d)
<1>1. (\A r \in Applied : r[1] # d) => NextCursor(d) = cursor[d]
  BY DEF NextCursor
<1>2. ASSUME \E r \in Applied : r[1] = d
      PROVE  \E n \in 1 .. MaxSequence :
               <<d, n>> \in Applied /\ \A r \in Applied : r[1] = d => r[2] <= n
  <2>. DEFINE S == {n \in 1 .. MaxSequence : <<d, n>> \in Applied}
  <2>1. \A r \in Applied : r[1] = d => r[2] \in S
    BY AppliedParts, RevisionParts
  <2>2. S # {} /\ S \in SUBSET (0 .. MaxSequence)
    <3>1. S # {}
      BY <1>2, <2>1
    <3>2. \A n \in 1 .. MaxSequence : n \in 0 .. MaxSequence
      BY PublicationAssumption
    <3>. QED BY <3>1, <3>2
  <2>3. PICK n \in S : \A m \in S : m <= n
    <3>. HIDE DEF S
    <3>. QED BY <2>2, Greatest, PublicationAssumption
  <2>. QED BY <2>1, <2>3
<1>3. ASSUME \E r \in Applied : r[1] = d
      PROVE  NextCursor(d) = CHOOSE n \in 1 .. MaxSequence :
               <<d, n>> \in Applied /\ \A r \in Applied : r[1] = d => r[2] <= n
  BY <1>3 DEF NextCursor
<1>. HIDE DEF NextCursor
<1>. QED BY <1>1, <1>2, <1>3

LEMMA BusinessStep ==
  ASSUME Types, [Next]_vars
  PROVE  BusinessTyped'
<1>1. BusinessTyped
  BY DEF Types
<1>2. ASSUME NEW request \in wire, Handle(request) PROVE BusinessTyped'
  <2>1. PICK rank \in Orders(Items(request)), status \in [Items(request) -> ReceiveStatuses],
             answered \in BOOLEAN : AcceptShard(request, rank, status, answered)
    BY <1>2 DEF Handle
  <2>2. cursor' = cursor /\ owned' = OwnedOnceReceived(Items(request))
    BY <2>1 DEF AcceptShard
  <2>3. owned' \in BOOLEAN
    BY <1>1, <2>2 DEF OwnedOnceReceived, BusinessTyped
  <2>. DEFINE fresh == {r \in Items(request) : inbox[r] = "none"}
              stored == {r \in fresh : status[r] # "rejected"}
  <2>4. /\ inbox' = [r \in Revisions |-> IF r \in fresh THEN status[r] ELSE inbox[r]]
        /\ ingress' = [r \in Revisions |-> IF r \in stored THEN status[r] ELSE ingress[r]]
        /\ stage' = [r \in Revisions |-> IF r \in stored THEN FirstStage(status[r]) ELSE stage[r]]
    BY <2>1 DEF AcceptShard
  <2>5. \A r \in Items(request) : status[r] \in ReceiveStatuses
    OBVIOUS
  <2>6. \A r \in stored : FirstStage(status[r]) \in Stages
    BY <2>5 DEF FirstStage, ReceiveStatuses, Stages, PendingStages
  <2>. QED BY <1>1, <2>2, <2>3, <2>4, <2>5, <2>6 DEF BusinessTyped
<1>3. ASSUME NEW c \in Reconcilers, Activate(c) PROVE BusinessTyped'
  <2>1. owned' = owned /\ inbox' = inbox
    BY <1>3 DEF Activate
  <2>2. CASE ActivateUnowned
    BY <1>1, <2>1, <2>2 DEF ActivateUnowned, BusinessTyped, Stages, PendingStages
  <2>3. CASE ActivateOwned
    <3>1. \A r \in Revisions : NextStage(r) \in Stages
      BY <1>1 DEF NextStage, BusinessTyped, Stages, PendingStages
    <3>2. \A d \in Domains : NextCursor(d) \in 0 .. MaxSequence
      <4>. SUFFICES ASSUME NEW d \in Domains PROVE NextCursor(d) \in 0 .. MaxSequence
        OBVIOUS
      <4>1. cursor[d] \in 0 .. MaxSequence
        BY <1>1 DEF BusinessTyped, Vector
      <4>2. NextCursor(d) = cursor[d] \/ NextCursor(d) \in 1 .. MaxSequence
        BY NextCursorValue
      <4>. HIDE DEF NextCursor
      <4>. QED BY <4>1, <4>2, PublicationAssumption
    <3>3. ingress' \in [Revisions -> ReceiveStatuses \cup {"none"}]
      BY <1>1, <2>3 DEF ActivateOwned, BusinessTyped, ReceiveStatuses
    <3>4. stage' \in [Revisions -> Stages] /\ cursor' \in Vector
      BY <2>3, <3>1, <3>2 DEF ActivateOwned, Vector
    <3>. QED BY <1>1, <2>1, <3>3, <3>4 DEF BusinessTyped
  <2>. QED BY <1>3, <2>2, <2>3 DEF Activate
<1>4. CASE UNCHANGED businessVars
  BY <1>1, <1>4 DEF businessVars, BusinessTyped
<1>. QED BY <1>2, <1>3, <1>4, Frames

LEMMA TurnStep ==
  ASSUME Types, [Next]_vars
  PROVE  TurnTyped'
<1>1. TurnTyped
  BY DEF Types
<1>2. channel' = channel /\ channel.crashes \in Nat
  BY Frames, PublicationAssumption DEF Types, SourceTyped, ChannelRow
<1>3. ASSUME crashes < channel.crashes PROVE crashes + 1 \in 0 .. channel.crashes
  BY <1>1, <1>2, <1>3 DEF TurnTyped
<1>4. ASSUME NEW p \in Publishers, PublisherCrash(p) PROVE TurnTyped'
  BY <1>1, <1>2, <1>3, <1>4 DEF PublisherCrash, TurnTyped, turnVars
<1>5. ASSUME TurnLapses PROVE TurnTyped'
  <2>1. PICK n \in Nat : turn' = [turn EXCEPT !.lapsed = TRUE, !.lapses = n]
    <3>1. turn.lapses \in Nat /\ turn.lapses + 1 \in Nat
      BY <1>1 DEF TurnTyped
    <3>2. turn' = [turn EXCEPT !.lapsed = TRUE, !.lapses = turn.lapses]
          \/ turn' = [turn EXCEPT !.lapsed = TRUE, !.lapses = turn.lapses + 1]
      BY <1>5 DEF TurnLapses
    <3>. QED BY <3>1, <3>2
  <2>2. turn' \in [holder : Reconcilers \cup {Nobody}, lapsed : BOOLEAN, lapses : Nat]
    BY <1>1, <2>1 DEF TurnTyped
  <2>. QED BY <1>1, <1>2, <1>5, <2>2 DEF TurnLapses, TurnTyped
<1>6. ASSUME NEW c \in Reconcilers, TakeTurn(c) \/ Activate(c) PROVE TurnTyped'
  BY <1>1, <1>2, <1>6 DEF TakeTurn, Activate, TurnTyped
<1>7. ASSUME NEW c \in Reconcilers, EndTurn(c) PROVE TurnTyped'
  BY <1>1, <1>2, <1>7 DEF EndTurn, TurnTyped
<1>8. ASSUME NEW c \in Reconcilers, ActivationFails(c) \/ ReconcilerCrash(c) PROVE TurnTyped'
  BY <1>1, <1>2, <1>3, <1>8 DEF ActivationFails, ReconcilerCrash, TurnTyped
<1>9. CASE UNCHANGED <<turnVars, crashes>>
  BY <1>1, <1>2, <1>9 DEF turnVars, TurnTyped
<1>. QED BY <1>4, <1>5, <1>6, <1>7, <1>8, <1>9, Frames

LEMMA TypesStep == Types /\ [Next]_vars => Types'
<1>. SUFFICES ASSUME Types, [Next]_vars PROVE Types'
  OBVIOUS
<1>1. UNCHANGED sourceVars => SourceTyped'
  BY DEF sourceVars, Types, SourceTyped
<1>2. SourceTyped'
  BY <1>1, Frames, ReviseTyped, OutboxTyped
<1>. QED BY <1>2, PublishersStep, BusinessStep, TurnStep DEF Types

\* The type invariant of the pipeline holds in every reachable state, for every number of
\* domains, publishers, reconcilers and revisions (publicationPublisher.js,
\* businessPublicationIngress.js, businessPublicationReconciler.js).
THEOREM TypeCorrect == Spec => []TypeOK
BY InitTypes, TypesStep, TypesSuffice, PTL DEF Spec

-----------------------------------------------------------------------------
(* What is delivered is stored.                                            *)

Sendable(r) == flaw[r] # "unsendable" /\ outbox[r].status # "none"

\* Only rows the crawler wrote are on their way, only what came from them and was not
\* rejected is stored, and only what is stored is reported as delivered.
Kept ==
  /\ \A r \in Revisions : outbox[r].status = "none" <=> written[r[1]] < r[2]
  /\ \A p \in Publishers : \A r \in publisher[p].todo : Sendable(r)
  /\ \A request \in wire : \A r \in Items(request) : Sendable(r)
  /\ \A r \in Revisions : inbox[r] \in {"none", "rejected"} <=> stage[r] = "none"
  /\ \A r \in Revisions : stage[r] # "none" => Sendable(r) /\ flaw[r] # "rejected"
  /\ \A p \in Publishers : \A r \in DOMAIN publisher[p].outcome :
       Delivered(publisher[p].outcome[r]) => stage[r] # "none"
  /\ DeliveredIsStored

LEMMA ReviseFrame ==
  ASSUME Types, Kept, ReviseSome
  PROVE  /\ \A r \in Revisions : outbox[r].status # "none" => outbox'[r] = outbox[r] /\ flaw'[r] = flaw[r]
         /\ \A r \in Revisions : outbox'[r] = outbox[r] \/ outbox'[r] = NewRow
         /\ \A r \in Revisions : outbox'[r].status = "none" <=> written'[r[1]] < r[2]
         /\ \E changed \in (SUBSET Domains) \ {{}} :
              written' = [d \in Domains |-> IF d \in changed THEN written[d] + 1 ELSE written[d]]
         /\ written' # written
<1>a. PICK changed \in SUBSET Domains :
        \E flaws \in [{<<d, written[d] + 1>> : d \in changed} -> channel.flaws \cup {"none"}] :
          Revise(changed, flaws)
  BY DEF ReviseSome
<1>1. PICK flaws \in [{<<d, written[d] + 1>> : d \in changed} -> channel.flaws \cup {"none"}] :
        Revise(changed, flaws)
  BY <1>a
<1>. DEFINE new == {<<d, written[d] + 1>> : d \in changed}
<1>2. /\ written' = [d \in Domains |-> IF d \in changed THEN written[d] + 1 ELSE written[d]]
      /\ flaw' = [r \in Revisions |-> IF r \in new THEN flaws[r] ELSE flaw[r]]
      /\ outbox' = [r \in Revisions |-> IF r \in new THEN NewRow ELSE outbox[r]]
      /\ changed # {}
  BY <1>1 DEF Revise
<1>3. \A d \in Domains : written[d] \in Nat
  BY DEF Types, SourceTyped, Vector
<1>4. \A r \in Revisions : r \in new <=> r[1] \in changed /\ r[2] = written[r[1]] + 1
  BY <1>3, RevisionParts
<1>. HIDE DEF new
<1>5. \A r \in new : r \in Revisions => outbox[r].status = "none"
  <2>. SUFFICES ASSUME NEW r \in new, r \in Revisions PROVE outbox[r].status = "none"
    OBVIOUS
  <2>1. r[1] \in Domains /\ r[2] = written[r[1]] + 1
    BY <1>4, RevisionParts
  <2>2. written[r[1]] < r[2]
    BY <1>3, <2>1
  <2>. QED BY <2>2 DEF Kept
<1>6. ASSUME NEW r \in Revisions
      PROVE  outbox'[r].status = "none" <=> written'[r[1]] < r[2]
  <2>1. r[1] \in Domains /\ r[2] \in Nat /\ written[r[1]] \in Nat
    BY <1>3, RevisionParts, PublicationAssumption
  <2>2. outbox[r].status = "none" <=> written[r[1]] < r[2]
    BY DEF Kept
  <2>3. CASE r \in new
    <3>1. outbox'[r].status = "pending"
      BY <1>2, <2>3 DEF NewRow, NoRow
    <3>2. written'[r[1]] = r[2]
      BY <1>2, <1>4, <2>1, <2>3
    <3>. QED BY <2>1, <3>1, <3>2
  <2>4. CASE r \notin new
    <3>1. outbox'[r] = outbox[r]
      BY <1>2, <2>4
    <3>2. r[1] \in changed => r[2] # written[r[1]] + 1
      BY <1>4, <2>4
    <3>3. written'[r[1]] = IF r[1] \in changed THEN written[r[1]] + 1 ELSE written[r[1]]
      BY <1>2, <2>1
    <3>. QED BY <2>1, <2>2, <3>1, <3>2, <3>3
  <2>. QED BY <2>3, <2>4
<1>7. written' # written
  <2>1. PICK d \in changed : written[d] \in Nat /\ d \in Domains
    BY <1>2, <1>3
  <2>2. written'[d] = written[d] + 1
    BY <1>2, <2>1
  <2>. QED BY <2>1, <2>2
<1>8. \A r \in Revisions : outbox[r].status # "none" => outbox'[r] = outbox[r] /\ flaw'[r] = flaw[r]
  BY <1>2, <1>5
<1>9. \A r \in Revisions : outbox'[r] = outbox[r] \/ outbox'[r] = NewRow
  BY <1>2
<1>10. \E some \in (SUBSET Domains) \ {{}} :
         written' = [d \in Domains |-> IF d \in some THEN written[d] + 1 ELSE written[d]]
  <2>1. changed \in (SUBSET Domains) \ {{}}
    BY <1>2
  <2>2. written' = [d \in Domains |-> IF d \in changed THEN written[d] + 1 ELSE written[d]]
    BY <1>2
  <2>. WITNESS changed \in (SUBSET Domains) \ {{}}
  <2>. QED BY <2>2
<1>. QED BY <1>6, <1>7, <1>8, <1>9, <1>10

LEMMA TypedSets ==
  ASSUME Types
  PROVE  /\ \A p \in Publishers :
              /\ publisher[p] \in BatchType /\ publisher[p].todo \subseteq Revisions
              /\ Items(publisher[p].request) \subseteq Revisions
              /\ DOMAIN publisher[p].outcome \subseteq Revisions
         /\ \A request \in wire : request.by \in Publishers /\ Items(request) \subseteq Revisions
<1>1. ASSUME NEW p \in Publishers
      PROVE  /\ publisher[p] \in BatchType /\ publisher[p].todo \subseteq Revisions
             /\ Items(publisher[p].request) \subseteq Revisions
             /\ DOMAIN publisher[p].outcome \subseteq Revisions
  <2>1. /\ publisher[p] \in BatchType /\ publisher[p].todo \subseteq Revisions
        /\ publisher[p].request.claims \in ClaimsType /\ publisher[p].outcome \in OutcomeType
    BY DEF Types, PublishersTyped, BatchType, RequestType
  <2>. QED BY <2>1, ClaimsParts, OutcomeParts DEF Items
<1>2. \A request \in wire : request.by \in Publishers /\ Items(request) \subseteq Revisions
  BY ClaimsParts DEF Types, PublishersTyped, Items
<1>. QED BY <1>1, <1>2

LEMMA ReviseKept ==
  ASSUME Types, Kept, ReviseSome
  PROVE  Kept'
<1>1. UNCHANGED <<publisher, wire, inbox, stage>>
  BY DEF ReviseSome, Revise, businessVars
<1>2. \A r \in Revisions : Sendable(r) => Sendable(r)'
  BY ReviseFrame DEF Sendable
<1>3. DeliveredIsStored'
  BY <1>1, ReviseFrame DEF DeliveredIsStored, Kept, NewRow, NoRow
<1>4. \A r \in Revisions : stage[r] # "none" => Sendable(r)' /\ flaw'[r] # "rejected"
  BY <1>2, ReviseFrame DEF Kept, Sendable
<1>5. \A request \in wire : \A r \in Items(request) : Sendable(r)'
  BY <1>2, TypedSets DEF Kept
<1>6. \A p \in Publishers : \A r \in publisher[p].todo : Sendable(r)'
  BY <1>2, TypedSets DEF Kept
<1>. QED BY <1>1, <1>3, <1>4, <1>5, <1>6, ReviseFrame DEF Kept, Items

\* Steps of publishers and leases change no row that is not written and no flaw.
LEMMA OutboxFrame ==
  ASSUME Types,
         \/ \E p \in Publishers : ClaimSome(p) \/ SettleSome(p)
         \/ \E r \in Revisions : LeaseLapses(r)
  PROVE  /\ \A r \in Revisions : outbox[r].status = "none" => outbox'[r] = outbox[r]
         /\ \A r \in Revisions : outbox[r].status # "none" => outbox'[r].status # "none"
         /\ UNCHANGED <<written, flaw, inbox, stage, ingress, cursor, owned>>
<1>1. UNCHANGED <<written, flaw, inbox, stage, ingress, cursor, owned>>
  BY DEF ClaimSome, Claim, SettleSome, Settle, LeaseLapses, businessVars
<1>2. ASSUME NEW p \in Publishers, ClaimSome(p), NEW r \in Revisions
      PROVE  /\ outbox[r].status = "none" => outbox'[r] = outbox[r]
             /\ outbox[r].status # "none" => outbox'[r].status # "none"
  <2>1. PICK due \in SUBSET Revisions, chosen \in SUBSET Revisions : Claim(p, due, chosen)
    BY <1>2 DEF ClaimSome
  <2>2. outbox'[r] =
          IF r \in chosen
          THEN [status |-> "leased", attempts |-> outbox[r].attempts + 1, owner |-> p, lapsed |-> FALSE]
          ELSE IF r \in due THEN [outbox[r] EXCEPT !.status = "pending"]
          ELSE outbox[r]
    BY <2>1 DEF Claim
  <2>3. r \in chosen => outbox[r].status # "none"
    BY <2>1 DEF Claim, Claimable
  <2>4. r \in due => outbox[r].status # "none" /\ [outbox[r] EXCEPT !.status = "pending"].status = "pending"
    BY <2>1 DEF Claim, Types, SourceTyped, RowType
  <2>. QED BY <2>2, <2>3, <2>4
<1>3. ASSUME NEW p \in Publishers, SettleSome(p), NEW r \in Revisions
      PROVE  /\ outbox[r].status = "none" => outbox'[r] = outbox[r]
             /\ outbox[r].status # "none" => outbox'[r].status # "none"
  <2>1. PICK q \in Revisions : Settle(p, q)
    BY <1>3 DEF SettleSome
  <2>2. r # q => outbox'[r] = outbox[r]
    BY <2>1 DEF Settle, Types, SourceTyped
  <2>3. CASE r = q /\ Holds(p, r)
    <3>1. outbox'[r].status = Settled(r, publisher[p].outcome[r])
      BY <2>1, <2>3 DEF Settle, Types, SourceTyped
    <3>2. Settled(r, publisher[p].outcome[r]) # "none"
      BY DEF Settled
    <3>. QED BY <2>3, <3>1, <3>2 DEF Holds
  <2>4. CASE r = q /\ ~Holds(p, r)
    BY <2>1, <2>4 DEF Settle, Types, SourceTyped
  <2>. QED BY <2>2, <2>3, <2>4
<1>4. ASSUME NEW q \in Revisions, LeaseLapses(q), NEW r \in Revisions
      PROVE  /\ outbox[r].status = "none" => outbox'[r] = outbox[r]
             /\ outbox[r].status # "none" => outbox'[r].status # "none"
  BY <1>4 DEF LeaseLapses, Types, SourceTyped, RowType
<1>. QED BY <1>1, <1>2, <1>3, <1>4

\* The parts of Kept that such steps leave to be shown.
LEMMA OutboxKept ==
  ASSUME Types, Kept,
         \/ \E p \in Publishers : ClaimSome(p) \/ SettleSome(p)
         \/ \E r \in Revisions : LeaseLapses(r),
         \A p \in Publishers : \A r \in publisher'[p].todo : Sendable(r)',
         \A p \in Publishers : \A r \in DOMAIN publisher'[p].outcome :
           Delivered(publisher'[p].outcome[r]) => stage[r] # "none",
         \A r \in Revisions : outbox'[r].status = "delivered" => stage[r] # "none",
         wire' = wire
  PROVE  Kept'
<1>1. \A r \in Revisions : outbox'[r].status = "none" <=> written'[r[1]] < r[2]
  BY OutboxFrame DEF Kept
<1>2. \A r \in Revisions : Sendable(r) => Sendable(r)'
  BY OutboxFrame DEF Sendable
<1>3. \A request \in wire : \A r \in Items(request) : Sendable(r)'
  BY <1>2, TypedSets DEF Kept
<1>4. \A r \in Revisions : stage'[r] # "none" => Sendable(r)' /\ flaw'[r] # "rejected"
  BY <1>2, OutboxFrame DEF Kept
<1>. QED BY <1>1, <1>3, <1>4, OutboxFrame DEF Kept, DeliveredIsStored, Items

LEMMA ClaimKept ==
  ASSUME Types, Kept, NEW p \in Publishers, ClaimSome(p)
  PROVE  Kept'
<1>1. PICK due \in SUBSET Revisions, chosen \in SUBSET Revisions : Claim(p, due, chosen)
  BY DEF ClaimSome
<1>. DEFINE dead == {r \in chosen : flaw[r] = "unsendable"}
<1>2. /\ publisher' = [publisher EXCEPT ![p] =
           [todo |-> chosen \ dead, request |-> NoRequest, outcome |-> [r \in dead |-> "unsendable"]]]
      /\ wire' = wire /\ flaw' = flaw
  BY <1>1 DEF Claim
<1>3. publisher \in [Publishers -> BatchType]
  BY DEF Types, PublishersTyped
<1>4. \A q \in Publishers : q # p => publisher'[q] = publisher[q]
  BY <1>2, <1>3
<1>5. publisher'[p].todo = chosen \ dead /\ publisher'[p].outcome = [r \in dead |-> "unsendable"]
  BY <1>2, <1>3
<1>6. \A r \in Revisions : r \in chosen => outbox'[r].status = "leased"
  BY <1>1 DEF Claim
<1>7. \A r \in Revisions : outbox'[r].status = "delivered" => outbox[r].status = "delivered"
  BY <1>1 DEF Claim, Types, SourceTyped, RowType
<1>8. \A r \in Revisions : Sendable(r) => Sendable(r)'
  BY OutboxFrame DEF Sendable
<1>9. \A q \in Publishers : \A r \in publisher'[q].todo : Sendable(r)'
  <2>. SUFFICES ASSUME NEW q \in Publishers, NEW r \in publisher'[q].todo PROVE Sendable(r)'
    OBVIOUS
  <2>1. CASE q = p
    BY <1>2, <1>5, <1>6, <2>1 DEF Sendable
  <2>2. CASE q # p
    BY <1>4, <1>8, <2>2, TypedSets DEF Kept
  <2>. QED BY <2>1, <2>2
<1>10. \A q \in Publishers : \A r \in DOMAIN publisher'[q].outcome :
          Delivered(publisher'[q].outcome[r]) => stage[r] # "none"
  BY <1>4, <1>5 DEF Kept, Delivered
<1>. QED BY <1>2, <1>7, <1>9, <1>10, OutboxKept DEF Kept, DeliveredIsStored

LEMMA SettleKept ==
  ASSUME Types, Kept, NEW p \in Publishers, SettleSome(p)
  PROVE  Kept'
<1>1. PICK r \in Revisions : Settle(p, r)
  BY DEF SettleSome
<1>2. /\ publisher' = [publisher EXCEPT ![p] = [publisher[p] EXCEPT !.outcome =
           [q \in DOMAIN publisher[p].outcome \ {r} |-> publisher[p].outcome[q]]]]
      /\ wire' = wire /\ r \in DOMAIN publisher[p].outcome /\ flaw' = flaw
  BY <1>1 DEF Settle
<1>3. publisher \in [Publishers -> BatchType]
  BY DEF Types, PublishersTyped
<1>4. \A q \in Publishers : q # p => publisher'[q] = publisher[q]
  BY <1>2, <1>3
<1>5. /\ publisher'[p].todo = publisher[p].todo
      /\ publisher'[p].outcome = [q \in DOMAIN publisher[p].outcome \ {r} |-> publisher[p].outcome[q]]
  BY <1>2, <1>3 DEF BatchType
<1>6. \A q \in Revisions : Sendable(q) => Sendable(q)'
  BY OutboxFrame DEF Sendable
<1>7. \A q \in Publishers : \A x \in publisher'[q].todo : Sendable(x)'
  BY <1>4, <1>5, <1>6, TypedSets DEF Kept
<1>8. \A q \in Publishers : \A x \in DOMAIN publisher'[q].outcome :
         Delivered(publisher'[q].outcome[x]) => stage[x] # "none"
  BY <1>4, <1>5 DEF Kept
<1>9. \A q \in Revisions : outbox'[q].status = "delivered" => stage[q] # "none"
  <2>. SUFFICES ASSUME NEW q \in Revisions, outbox'[q].status = "delivered" PROVE stage[q] # "none"
    OBVIOUS
  <2>1. CASE outbox'[q] = outbox[q]
    BY <2>1 DEF Kept, DeliveredIsStored
  <2>2. CASE q = r /\ Holds(p, r)
    <3>1. Settled(r, publisher[p].outcome[r]) = "delivered"
      BY <1>1, <2>2 DEF Settle, Types, SourceTyped
    <3>2. Delivered(publisher[p].outcome[r])
      BY <3>1 DEF Settled
    <3>. QED BY <1>2, <2>2, <3>2 DEF Kept
  <2>. QED BY <1>1, <2>1, <2>2 DEF Settle, Types, SourceTyped
<1>. QED BY <1>2, <1>7, <1>8, <1>9, OutboxKept

LEMMA LapseKept ==
  ASSUME Types, Kept, NEW r \in Revisions, LeaseLapses(r)
  PROVE  Kept'
<1>1. UNCHANGED <<publisher, wire, flaw>>
  BY DEF LeaseLapses
<1>2. \A q \in Revisions : Sendable(q) => Sendable(q)'
  BY OutboxFrame DEF Sendable
<1>3. \A p \in Publishers : \A q \in publisher'[p].todo : Sendable(q)'
  BY <1>1, <1>2, TypedSets DEF Kept
<1>4. \A q \in Revisions : outbox'[q].status = outbox[q].status
  BY DEF LeaseLapses, Types, SourceTyped, RowType
<1>. QED BY <1>1, <1>3, <1>4, OutboxKept DEF Kept, DeliveredIsStored

\* The other steps of a publisher and of its requests.
LEMMA PublisherKept ==
  ASSUME Types, Kept,
         \/ \E p \in Publishers : PostSome(p) \/ GiveUp(p) \/ PublisherCrash(p)
         \/ \E request \in wire : LoseRequest(request)
  PROVE  Kept'
<1>0. publisher \in [Publishers -> BatchType]
  BY DEF Types, PublishersTyped
<1>1. ASSUME UNCHANGED <<sourceVars, businessVars>>,
             \A p \in Publishers : publisher'[p].todo \subseteq publisher[p].todo,
             \A p \in Publishers : \A r \in DOMAIN publisher'[p].outcome :
               \/ publisher'[p].outcome[r] = "failed"
               \/ r \in DOMAIN publisher[p].outcome /\ publisher'[p].outcome[r] = publisher[p].outcome[r],
             \A request \in wire' : request \in wire \/ \E p \in Publishers : Items(request) \subseteq publisher[p].todo
      PROVE  Kept'
  BY <1>1 DEF Kept, sourceVars, businessVars, Sendable, Delivered, DeliveredIsStored, Items
<1>2. ASSUME NEW p \in Publishers, PostSome(p) PROVE Kept'
  <2>1. PICK items \in SUBSET publisher[p].todo : Post(p, items)
    BY <1>2 DEF PostSome
  <2>. DEFINE request == [by |-> p, claims |-> [r \in items |-> outbox[r].attempts]]
  <2>2. Items(request) = items
    BY DEF Items
  <2>. HIDE DEF request
  <2>3. wire' = wire \cup {request} /\ UNCHANGED <<sourceVars, businessVars>>
    BY <2>1 DEF Post, request
  <2>4. publisher' = [publisher EXCEPT ![p].request = request, ![p].todo = @ \ items]
    BY <2>1 DEF Post, request
  <2>5. \A q \in Publishers : publisher'[q].todo \subseteq publisher[q].todo
                             /\ publisher'[q].outcome = publisher[q].outcome
    BY <1>0, <2>4 DEF BatchType
  <2>. QED BY <1>1, <2>2, <2>3, <2>5
<1>3. ASSUME NEW p \in Publishers, GiveUp(p) PROVE Kept'
  <2>1. /\ publisher' = [publisher EXCEPT ![p].request = NoRequest,
             ![p].outcome = [r \in Items(publisher[p].request) |-> "failed"]]
        /\ wire' = wire /\ UNCHANGED <<sourceVars, businessVars>>
    BY <1>3 DEF GiveUp
  <2>2. \A q \in Publishers : q # p => publisher'[q] = publisher[q]
    BY <1>0, <2>1
  <2>3. publisher'[p].todo = publisher[p].todo
        /\ publisher'[p].outcome = [r \in Items(publisher[p].request) |-> "failed"]
    BY <1>0, <2>1 DEF BatchType
  <2>. QED BY <1>1, <2>1, <2>2, <2>3
<1>4. ASSUME NEW p \in Publishers, PublisherCrash(p) PROVE Kept'
  <2>1. publisher' = [publisher EXCEPT ![p] = NoBatch] /\ wire' = wire
        /\ UNCHANGED <<sourceVars, businessVars>>
    BY <1>4 DEF PublisherCrash
  <2>2. NoBatch.todo = {} /\ DOMAIN NoBatch.outcome = {}
    BY NoBatchTyped DEF NoBatch
  <2>. QED BY <1>0, <1>1, <2>1, <2>2
<1>5. ASSUME NEW request \in wire, LoseRequest(request) PROVE Kept'
  BY <1>1, <1>5 DEF LoseRequest
<1>. QED BY <1>2, <1>3, <1>4, <1>5

\* What the ingress does to a revision of a request.
LEMMA HandleFrame ==
  ASSUME Types, NEW request \in wire, NEW rank, NEW status \in [Items(request) -> ReceiveStatuses],
         NEW answered \in BOOLEAN, AcceptShard(request, rank, status, answered),
         NEW r \in Revisions
  PROVE  /\ UNCHANGED <<written, flaw, outbox, cursor>>
         /\ r \in Items(request) /\ inbox[r] = "none" =>
              /\ inbox'[r] = status[r]
              /\ status[r] # "rejected" =>
                   flaw[r] # "rejected" /\ stage'[r] = FirstStage(status[r])
              /\ status[r] = "rejected" => stage'[r] = stage[r]
         /\ r \notin Items(request) \/ inbox[r] # "none" =>
              inbox'[r] = inbox[r] /\ stage'[r] = stage[r]
         /\ r \in Items(request) /\ inbox[r] # "none" => status[r] = inbox[r]
<1>1. UNCHANGED <<written, flaw, outbox, cursor>>
  BY DEF AcceptShard, sourceVars
<1>. DEFINE fresh == {q \in Items(request) : inbox[q] = "none"}
            stored == {q \in fresh : status[q] # "rejected"}
<1>2. inbox'[r] = IF r \in fresh THEN status[r] ELSE inbox[r]
  BY DEF AcceptShard
<1>3. stage'[r] = IF r \in stored THEN FirstStage(status[r]) ELSE stage[r]
  BY DEF AcceptShard
<1>4. r \in Items(request) => status[r] = ReceivedAs(r, rank, status)
  BY DEF AcceptShard
<1>5. r \in Items(request) /\ inbox[r] # "none" => status[r] = inbox[r]
  BY <1>4 DEF ReceivedAs
<1>6. r \in Items(request) /\ inbox[r] = "none" /\ flaw[r] = "rejected" => status[r] = "rejected"
  BY <1>4 DEF ReceivedAs
<1>. QED BY <1>1, <1>2, <1>3, <1>5, <1>6

LEMMA HandleKept ==
  ASSUME Types, Kept, NEW request \in wire, Handle(request)
  PROVE  Kept'
<1>1. PICK rank \in Orders(Items(request)), status \in [Items(request) -> ReceiveStatuses],
          answered \in BOOLEAN : AcceptShard(request, rank, status, answered)
  BY DEF Handle
<1>2. /\ \A r \in Items(request) : status[r] \in ReceiveStatuses /\ r \in Revisions
      /\ Items(request) \subseteq Revisions /\ request.by \in Publishers
  BY TypedSets
<1>3. UNCHANGED <<written, flaw, outbox>>
  BY <1>1 DEF AcceptShard, sourceVars
<1>4. \A r \in Revisions : Sendable(r)' <=> Sendable(r)
  BY <1>3 DEF Sendable
<1>5. ASSUME NEW r \in Revisions
      PROVE  /\ inbox'[r] \in {"none", "rejected"} <=> stage'[r] = "none"
             /\ stage'[r] # "none" => Sendable(r) /\ flaw[r] # "rejected"
             /\ stage[r] # "none" => stage'[r] # "none"
  <2>1. CASE r \in Items(request) /\ inbox[r] = "none"
    <3>1. inbox'[r] = status[r] /\ status[r] # "none" /\ stage[r] = "none" /\ Sendable(r)
      BY <1>1, <1>2, <2>1, HandleFrame DEF Kept, ReceiveStatuses
    <3>2. CASE status[r] = "rejected"
      BY <1>1, <2>1, <3>1, <3>2, HandleFrame
    <3>3. CASE status[r] # "rejected"
      <4>1. flaw[r] # "rejected" /\ stage'[r] = FirstStage(status[r])
        BY <1>1, <2>1, <3>3, HandleFrame
      <4>2. FirstStage(status[r]) # "none"
        BY <3>1 DEF FirstStage
      <4>. QED BY <3>1, <3>3, <4>1, <4>2
    <3>. QED BY <3>2, <3>3
  <2>2. CASE r \notin Items(request) \/ inbox[r] # "none"
    <3>1. inbox'[r] = inbox[r] /\ stage'[r] = stage[r]
      BY <1>1, <2>2, HandleFrame
    <3>. QED BY <3>1 DEF Kept
  <2>. QED BY <2>1, <2>2
<1>6. ASSUME NEW r \in Items(request), Delivered(Receipt(r, status[r])) PROVE stage'[r] # "none"
  <2>1. status[r] # "rejected" /\ status[r] # "none"
    BY <1>2, <1>6 DEF Receipt, Delivered, ReceiveStatuses
  <2>2. inbox'[r] = status[r]
    BY <1>1, <1>2, HandleFrame
  <2>. QED BY <1>2, <1>5, <2>1, <2>2
<1>7. /\ wire' = wire \ {request}
      /\ \/ publisher' = publisher
         \/ publisher' = [publisher EXCEPT ![request.by] =
              [@ EXCEPT !.request = NoRequest,
                        !.outcome = [r \in Items(request) |-> Receipt(r, status[r])]]]
  <2>1. publisher \in [Publishers -> BatchType]
    BY DEF Types, PublishersTyped
  <2>. QED BY <1>1, <1>2, <2>1 DEF AcceptShard
<1>8. \A p \in Publishers : publisher'[p].todo = publisher[p].todo
  <2>. DEFINE outcome == [r \in Items(request) |-> Receipt(r, status[r])]
  <2>1. \/ publisher' = publisher
        \/ publisher' = [publisher EXCEPT ![request.by] =
             [@ EXCEPT !.request = NoRequest, !.outcome = outcome]]
    BY <1>7
  <2>2. \A p \in Publishers : [publisher[p] EXCEPT !.request = NoRequest, !.outcome = outcome].todo
                               = publisher[p].todo
    <3>. HIDE DEF outcome
    <3>. QED BY DEF Types, PublishersTyped, BatchType
  <2>. HIDE DEF outcome
  <2>. QED BY <1>2, <2>1, <2>2 DEF Types, PublishersTyped
<1>9. ASSUME NEW p \in Publishers, NEW r \in DOMAIN publisher'[p].outcome,
             Delivered(publisher'[p].outcome[r])
      PROVE  stage'[r] # "none"
  <2>1. CASE publisher'[p] = publisher[p]
    <3>1. r \in Revisions /\ stage[r] # "none"
      BY <1>9, <2>1, TypedSets DEF Kept
    <3>. QED BY <1>5, <3>1
  <2>2. CASE publisher'[p] # publisher[p]
    <3>1. publisher'[p].outcome = [q \in Items(request) |-> Receipt(q, status[q])]
      BY <1>2, <1>7, <2>2 DEF Types, PublishersTyped, BatchType
    <3>. QED BY <1>6, <1>9, <3>1
  <2>. QED BY <2>1, <2>2
<1>10. DeliveredIsStored'
  BY <1>3, <1>5 DEF Kept, DeliveredIsStored
<1>11. \A p \in Publishers : \A r \in publisher'[p].todo : Sendable(r)'
  BY <1>4, <1>8, TypedSets DEF Kept
<1>12. \A q \in wire' : \A r \in Items(q) : Sendable(r)'
  BY <1>4, <1>7, TypedSets DEF Kept
<1>13. \A r \in Revisions : outbox'[r].status = "none" <=> written'[r[1]] < r[2]
  BY <1>3 DEF Kept
<1>. QED BY <1>3, <1>4, <1>5, <1>9, <1>10, <1>11, <1>12, <1>13 DEF Kept, Items

\* What an activation leaves unstored, and what it no longer changes.
LEMMA NextStageParts ==
  ASSUME Types, NEW r \in Revisions
  PROVE  /\ NextStage(r) = "none" <=> stage[r] = "none"
         /\ stage[r] \in {"superseded", "quarantined"} => NextStage(r) = stage[r]
         /\ stage[r] = "active" => NextStage(r) \in {"active", "superseded"}
<1>1. ASSUME NEW d \in Domains, NEW q \in Ready(d)
      PROVE  Pending(q) /\ q \in Revisions
  <2>1. q \in Revisions /\ q[1] = d /\ q = <<d, q[2]>> /\ q[2] \in 1 .. MaxSequence
    BY RevisionParts DEF Ready
  <2>2. cursor[d] \in Nat /\ cursor[d] < q[2]
    BY DEF Ready, Types, BusinessTyped, Vector
  <2>3. q[2] \in (cursor[d] + 1) .. q[2]
    BY <2>1, <2>2, PublicationAssumption
  <2>. QED BY <2>1, <2>3 DEF Ready
<1>2. \A d \in Domains : Failed(d) \subseteq Ready(d) /\ Applicable(d) \subseteq Ready(d)
  BY DEF Failed, Applicable
<1>3. r \in Applied => Pending(r)
  BY <1>1, <1>2 DEF Applied, Simulated, Package, Core
<1>. QED BY <1>1, <1>2, <1>3, RevisionParts DEF NextStage, Pending, PendingStages

LEMMA ActivateKept ==
  ASSUME Types, Kept, NEW c \in Reconcilers, Activate(c)
  PROVE  Kept'
<1>1. UNCHANGED <<sourceVars, publisher, wire, inbox>>
  BY DEF Activate
<1>2. \A r \in Revisions : stage'[r] = "none" <=> stage[r] = "none"
  <2>1. CASE ActivateUnowned
    BY <2>1 DEF ActivateUnowned, Pending, PendingStages
  <2>2. CASE ActivateOwned
    BY <2>2, NextStageParts DEF ActivateOwned
  <2>. QED BY <2>1, <2>2 DEF Activate
<1>3. \A r \in Revisions : Sendable(r)' <=> Sendable(r)
  BY <1>1 DEF Sendable, sourceVars
<1>4. \A p \in Publishers : \A r \in publisher'[p].todo : Sendable(r)'
  BY <1>1, <1>3, TypedSets DEF Kept
<1>5. \A q \in wire' : \A r \in Items(q) : Sendable(r)'
  BY <1>1, <1>3, TypedSets DEF Kept
<1>6. \A p \in Publishers : \A r \in DOMAIN publisher'[p].outcome :
        Delivered(publisher'[p].outcome[r]) => stage'[r] # "none"
  BY <1>1, <1>2, TypedSets DEF Kept
<1>. QED BY <1>1, <1>2, <1>3, <1>4, <1>5, <1>6 DEF Kept, DeliveredIsStored, sourceVars, Items

LEMMA KeptInit == Init => Kept
<1>. SUFFICES ASSUME Init PROVE Kept
  OBVIOUS
<1>1. \A r \in Revisions : outbox[r].status = "none" /\ written[r[1]] < r[2]
  BY RevisionParts, PublicationAssumption DEF Init, NoRow
<1>2. \A p \in Publishers : publisher[p].todo = {} /\ DOMAIN publisher[p].outcome = {}
  BY NoBatchTyped DEF Init, NoBatch
<1>. QED BY <1>1, <1>2 DEF Init, Kept, DeliveredIsStored

LEMMA KeptStep ==
  ASSUME Types, Kept, [Next]_vars
  PROVE  Kept'
<1>1. CASE UNCHANGED <<sourceVars, publisher, wire, businessVars>>
  BY <1>1 DEF Kept, sourceVars, businessVars, Sendable, Delivered, DeliveredIsStored, Items
<1>2. ASSUME TurnLapses \/ \E c \in Reconcilers :
                TakeTurn(c) \/ ActivationFails(c) \/ EndTurn(c) \/ ReconcilerCrash(c)
      PROVE  UNCHANGED <<sourceVars, publisher, wire, businessVars>>
  BY <1>2 DEF TurnLapses, TakeTurn, ActivationFails, EndTurn, ReconcilerCrash
<1>3. CASE UNCHANGED vars
  BY <1>1, <1>3 DEF vars
<1>. QED BY <1>1, <1>2, <1>3, ReviseKept, ClaimKept, SettleKept, LapseKept, PublisherKept,
            HandleKept, ActivateKept DEF Next

\* A row the outbox calls delivered is stored by the business database, in every
\* reachable state: markDelivered believes receipts only, and every receipt that counts
\* stands for a stored revision (publicationPublisher.js, businessPublicationIngress.js).
THEOREM DeliveredStored == Spec => []DeliveredIsStored
<1>1. Init => Types /\ Kept
  BY InitTypes, KeptInit
<1>2. (Types /\ Kept) /\ [Next]_vars => (Types /\ Kept)'
  BY TypesStep, KeptStep
<1>3. Types /\ Kept => DeliveredIsStored
  BY DEF Kept
<1>. QED BY <1>1, <1>2, <1>3, PTL DEF Spec

-----------------------------------------------------------------------------
(* What is settled stays settled.                                          *)

Settling(r) ==
  /\ outbox[r].status \in {"delivered", "dead_letter"} => outbox'[r] = outbox[r]
  /\ stage[r] \in {"superseded", "quarantined"} => stage'[r] = stage[r]
  /\ stage[r] = "active" => stage'[r] \in {"active", "superseded"}

LEMMA SettledOutbox ==
  ASSUME Types, Kept, [Next]_vars, NEW r \in Revisions,
         outbox[r].status \in {"delivered", "dead_letter"}
  PROVE  outbox'[r] = outbox[r]
<1>1. CASE ReviseSome
  BY <1>1, ReviseFrame
<1>2. ASSUME NEW p \in Publishers, ClaimSome(p) PROVE outbox'[r] = outbox[r]
  <2>1. PICK due \in SUBSET Revisions, chosen \in SUBSET Revisions : Claim(p, due, chosen)
    BY <1>2 DEF ClaimSome
  <2>2. r \notin chosen /\ r \notin due
    BY <2>1 DEF Claim, Claimable
  <2>. QED BY <2>1, <2>2 DEF Claim
<1>3. ASSUME NEW p \in Publishers, SettleSome(p) PROVE outbox'[r] = outbox[r]
  <2>1. PICK q \in Revisions : Settle(p, q)
    BY <1>3 DEF SettleSome
  <2>. QED BY <2>1 DEF Settle, Holds, Types, SourceTyped
<1>4. ASSUME NEW q \in Revisions, LeaseLapses(q) PROVE outbox'[r] = outbox[r]
  BY <1>4 DEF LeaseLapses, Types, SourceTyped
<1>5. CASE UNCHANGED sourceVars
  BY <1>5 DEF sourceVars
<1>. QED BY <1>1, <1>2, <1>3, <1>4, <1>5, Frames

LEMMA SettledStage ==
  ASSUME Types, Kept, [Next]_vars, NEW r \in Revisions
  PROVE  /\ stage[r] \in {"superseded", "quarantined"} => stage'[r] = stage[r]
         /\ stage[r] = "active" => stage'[r] \in {"active", "superseded"}
<1>1. ASSUME NEW request \in wire, Handle(request), stage[r] # "none" PROVE stage'[r] = stage[r]
  <2>1. PICK rank \in Orders(Items(request)), status \in [Items(request) -> ReceiveStatuses],
            answered \in BOOLEAN : AcceptShard(request, rank, status, answered)
    BY <1>1 DEF Handle
  <2>2. inbox[r] # "none"
    BY <1>1 DEF Kept
  <2>. QED BY <2>1, <2>2, HandleFrame
<1>2. ASSUME NEW c \in Reconcilers, Activate(c)
      PROVE  /\ stage[r] \in {"superseded", "quarantined"} => stage'[r] = stage[r]
             /\ stage[r] = "active" => stage'[r] \in {"active", "superseded"}
  <2>1. CASE ActivateUnowned
    BY <2>1 DEF ActivateUnowned, Pending, PendingStages
  <2>2. CASE ActivateOwned
    BY <2>2, NextStageParts DEF ActivateOwned
  <2>. QED BY <1>2, <2>1, <2>2 DEF Activate
<1>3. CASE UNCHANGED businessVars
  BY <1>3 DEF businessVars
<1>. QED BY <1>1, <1>2, <1>3, Frames

\* No step takes back a settled outbox row or an applied or quarantined revision: a late
\* answer finds its lease gone, a repeated envelope its row in the inbox, a later
\* activation only what is still pending (publicationPublisher.js, businessPublicationIngress.js,
\* businessPublicationActivator.js).
THEOREM SettledForever == Spec => SettledStaysSettled
<1>1. Init => Types /\ Kept
  BY InitTypes, KeptInit
<1>2. (Types /\ Kept) /\ [Next]_vars => (Types /\ Kept)'
  BY TypesStep, KeptStep
<1>3. (Types /\ Kept) /\ [Next]_vars => [\A r \in Revisions : Settling(r)]_vars
  BY SettledOutbox, SettledStage DEF Settling
<1>4. SettledStaysSettled <=> [][\A r \in Revisions : Settling(r)]_vars
  BY DEF SettledStaysSettled, Settling
<1>. QED BY <1>1, <1>2, <1>3, <1>4, PTL DEF Spec

-----------------------------------------------------------------------------
(* The cursors have no gap.                                                *)

\* An activation applies exactly the revisions between the old and the new cursor.
LEMMA AppliedRange ==
  ASSUME Types, NEW d \in Domains, NEW n \in 1 .. MaxSequence
  PROVE  <<d, n>> \in Applied <=> cursor[d] < n /\ n <= NextCursor(d)
<1>. USE RevisionOf, PublicationAssumption
<1>1. cursor[d] \in Nat
  BY DEF Types, BusinessTyped, Vector
<1>2. CASE \A r \in Applied : r[1] # d
  <2>1. NextCursor(d) = cursor[d] /\ <<d, n>> \notin Applied
    BY <1>2, NextCursorValue
  <2>. HIDE DEF NextCursor
  <2>. QED BY <1>1, <2>1
<1>3. CASE \E r \in Applied : r[1] = d
  <2>1. PICK m \in 1 .. MaxSequence :
          /\ m = NextCursor(d) /\ <<d, m>> \in Applied
          /\ \A r \in Applied : r[1] = d => r[2] <= m
    BY <1>3, NextCursorValue
  <2>2. <<d, n>> \in Applied => cursor[d] < n /\ n <= m
    BY <2>1, AppliedParts
  <2>3. /\ <<d, m>> \in Applicable(d) /\ <<d, m>> \in Ready(d)
        /\ d \in Simulated /\ PackageSound
    <3>1. <<d, m>>[1] = d
      OBVIOUS
    <3>. QED BY <2>1, <3>1, AppliedParts
  <2>4. ASSUME cursor[d] < n, n <= m PROVE <<d, n>> \in Applied
    <3>1. \A k \in (cursor[d] + 1) .. m : Pending(<<d, k>>)
      BY <2>3 DEF Ready
    <3>2. \A k \in (cursor[d] + 1) .. n : Pending(<<d, k>>)
      BY <1>1, <2>4, <3>1
    <3>3. <<d, n>> \in Ready(d)
      BY <2>4, <3>2 DEF Ready
    <3>4. \A q \in Ready(d) : q[2] <= m => flaw[q] # "inapplicable"
      BY <2>3 DEF Applicable
    <3>5. \A q \in Ready(d) : q[2] <= n => flaw[q] # "inapplicable"
      <4>. SUFFICES ASSUME NEW q \in Ready(d), q[2] <= n PROVE flaw[q] # "inapplicable"
        OBVIOUS
      <4>1. q[2] \in 1 .. MaxSequence
        BY RevisionParts DEF Ready
      <4>2. q[2] <= m
        BY <2>4, <4>1
      <4>. QED BY <3>4, <4>2
    <3>6. <<d, n>> \in Applicable(d)
      BY <3>3, <3>5 DEF Applicable
    <3>. QED BY <2>3, <3>6 DEF Applied
  <2>. QED BY <2>1, <2>2, <2>4
<1>. QED BY <1>2, <1>3

\* NextStage of what an activation applies, of what it has applied before, and of the rest.
LEMMA NextStageOf ==
  ASSUME Types, Kept, CursorHasNoGap, NEW r \in Revisions
  PROVE  LET c == cursor[r[1]] IN LET n == NextCursor(r[1]) IN
         /\ NextStage(r) \in {"active", "superseded"} <=> r[2] <= n
         /\ NextStage(r) = "active" <=> r[2] = n
         /\ r[2] <= n => flaw[r] \notin {"rejected", "inapplicable", "unsendable"}
<1>. DEFINE d == r[1]
<1>1. /\ d \in Domains /\ r[2] \in 1 .. MaxSequence /\ r = <<d, r[2]>>
      /\ r[2] \in Nat /\ cursor[d] \in Nat
  BY RevisionParts, PublicationAssumption DEF Types, BusinessTyped, Vector
<1>2. r \in Applied <=> cursor[d] < r[2] /\ r[2] <= NextCursor(d)
  BY <1>1, AppliedRange
<1>3. NextCursor(d) \in Nat /\ cursor[d] <= NextCursor(d)
      /\ ((\E q \in Applied : q[1] = d) <=> cursor[d] # NextCursor(d))
  <2>1. CASE \A q \in Applied : q[1] # d
    <3>1. NextCursor(d) = cursor[d]
      BY <1>1, <2>1, NextCursorValue
    <3>. HIDE DEF NextCursor
    <3>. QED BY <1>1, <2>1, <3>1
  <2>2. CASE \E q \in Applied : q[1] = d
    <3>1. NextCursor(d) \in 1 .. MaxSequence /\ <<d, NextCursor(d)>> \in Applied
      BY <1>1, <2>2, NextCursorValue
    <3>2. cursor[d] < NextCursor(d)
      BY <1>1, <3>1, AppliedRange
    <3>. HIDE DEF NextCursor
    <3>. QED BY <1>1, <2>2, <3>1, <3>2, PublicationAssumption
  <2>. QED BY <2>1, <2>2
<1>4. CASE r \in Applied
  <2>1. r \in Ready(d) /\ flaw[r] # "inapplicable"
    <3>1. r \in Applicable(d)
      BY <1>4, AppliedParts
    <3>2. r \in Ready(d)
      BY <1>1, <3>1, AppliedParts
    <3>. QED BY <1>1, <3>1, <3>2 DEF Applicable
  <2>2. r \notin Failed(d)
    BY <2>1 DEF Failed
  <2>3. stage[r] # "none"
    <3>1. r[2] \in (cursor[d] + 1) .. r[2]
      BY <1>1, <1>2, <1>4
    <3>2. Pending(r)
      BY <1>1, <2>1, <3>1 DEF Ready
    <3>. QED BY <3>2 DEF Pending, PendingStages
  <2>4. flaw[r] \notin {"rejected", "inapplicable", "unsendable"}
    BY <2>1, <2>3 DEF Kept, Sendable
  <2>5. (\A q \in Applied : q[1] = d => q[2] <= r[2]) <=> r[2] = NextCursor(d)
    <3>1. /\ NextCursor(d) \in 1 .. MaxSequence /\ <<d, NextCursor(d)>> \in Applied
          /\ \A q \in Applied : q[1] = d => q[2] <= NextCursor(d)
      BY <1>1, <1>4, NextCursorValue
    <3>2. \A q \in Applied : q[2] \in Nat
      BY AppliedParts, RevisionParts, PublicationAssumption
    <3>. HIDE DEF NextCursor
    <3>. QED BY <1>1, <1>2, <1>3, <1>4, <3>1, <3>2
  <2>6. NextStage(r) = IF \A q \in Applied : q[1] = d => q[2] <= r[2] THEN "active" ELSE "superseded"
    BY <1>4, <2>2 DEF NextStage
  <2>. HIDE DEF NextStage, NextCursor
  <2>. QED BY <1>2, <1>4, <2>4, <2>5, <2>6
<1>5. CASE r[2] <= cursor[d]
  <2>1. r \notin Applied /\ r \notin Ready(d) /\ r \notin Failed(d)
    BY <1>1, <1>2, <1>5, AppliedParts
  <2>2. stage[r] \in {"active", "superseded"} /\ (stage[r] = "active" <=> r[2] = cursor[d])
    BY <1>5 DEF CursorHasNoGap
  <2>3. NextStage(r) = IF stage[r] = "active" /\ \E q \in Applied : q[1] = d
                       THEN "superseded" ELSE stage[r]
    BY <2>1, <2>2 DEF NextStage, Pending, PendingStages
  <2>4. flaw[r] \notin {"rejected", "inapplicable", "unsendable"}
    BY <1>5 DEF CursorHasNoGap
  <2>. HIDE DEF NextStage, NextCursor
  <2>. QED BY <1>1, <1>3, <1>5, <2>2, <2>3, <2>4
<1>6. CASE r \notin Applied /\ ~(r[2] <= cursor[d])
  <2>1. stage[r] \notin {"active", "superseded"}
    BY <1>6 DEF CursorHasNoGap
  <2>2. NextStage(r) \in {"quarantined", "waiting_gap", stage[r]}
    BY <1>6, <2>1 DEF NextStage
  <2>3. ~(r[2] <= NextCursor(d))
    <3>. HIDE DEF NextCursor
    <3>. QED BY <1>1, <1>2, <1>3, <1>6
  <2>. HIDE DEF NextStage, NextCursor
  <2>. QED BY <1>1, <1>3, <2>1, <2>2, <2>3
<1>. QED BY <1>4, <1>5, <1>6

LEMMA GaplessStep ==
  ASSUME Types, Kept, CursorHasNoGap, [Next]_vars
  PROVE  CursorHasNoGap'
<1>1. CASE UNCHANGED businessVars /\ UNCHANGED sourceVars
  BY <1>1 DEF CursorHasNoGap, businessVars, sourceVars
<1>2. CASE ReviseSome
  <2>1. UNCHANGED <<stage, cursor>>
    BY <1>2 DEF ReviseSome, Revise, businessVars
  <2>2. \A r \in Revisions : r[2] <= cursor[r[1]] => flaw'[r] = flaw[r]
    <3>1. \A r \in Revisions : r[2] <= cursor[r[1]] => stage[r] # "none"
      BY DEF CursorHasNoGap
    <3>. QED BY <1>2, <3>1, ReviseFrame DEF Kept, Sendable
  <2>. QED BY <2>1, <2>2 DEF CursorHasNoGap
<1>3. CASE (\E p \in Publishers : ClaimSome(p) \/ SettleSome(p)) \/ \E r \in Revisions : LeaseLapses(r)
  BY <1>3, OutboxFrame DEF CursorHasNoGap
<1>4. ASSUME NEW request \in wire, Handle(request) PROVE CursorHasNoGap'
  <2>1. PICK rank \in Orders(Items(request)), status \in [Items(request) -> ReceiveStatuses],
            answered \in BOOLEAN : AcceptShard(request, rank, status, answered)
    BY <1>4 DEF Handle
  <2>2. UNCHANGED <<flaw, cursor>>
    BY <2>1 DEF AcceptShard, sourceVars
  <2>3. ASSUME NEW r \in Revisions
        PROVE  \/ stage'[r] = stage[r]
               \/ stage[r] = "none" /\ stage'[r] \notin {"active", "superseded"}
    <3>1. CASE r \in Items(request) /\ inbox[r] = "none"
      <4>1. stage[r] = "none" /\ status[r] \in ReceiveStatuses
        BY <3>1 DEF Kept
      <4>2. FirstStage(status[r]) \notin {"active", "superseded"}
        BY <4>1 DEF FirstStage, ReceiveStatuses
      <4>. QED BY <2>1, <3>1, <4>1, <4>2, HandleFrame
    <3>2. CASE r \notin Items(request) \/ inbox[r] # "none"
      BY <2>1, <3>2, HandleFrame
    <3>. QED BY <3>1, <3>2
  <2>. QED BY <2>2, <2>3 DEF CursorHasNoGap
<1>5. ASSUME NEW c \in Reconcilers, Activate(c) PROVE CursorHasNoGap'
  <2>1. UNCHANGED flaw
    BY <1>5 DEF Activate, sourceVars
  <2>2. CASE ActivateUnowned
    BY <2>1, <2>2 DEF ActivateUnowned, Pending, PendingStages, CursorHasNoGap
  <2>3. CASE ActivateOwned
    <3>1. \A r \in Revisions : stage'[r] = NextStage(r) /\ cursor'[r[1]] = NextCursor(r[1])
      BY <2>3, RevisionParts DEF ActivateOwned
    <3>. HIDE DEF NextStage, NextCursor
    <3>. QED BY <2>1, <3>1, NextStageOf DEF CursorHasNoGap
  <2>. QED BY <1>5, <2>2, <2>3 DEF Activate
<1>. QED BY <1>1, <1>2, <1>3, <1>4, <1>5, Frames

\* A cursor stands on the last of an unbroken run of applied revisions in every reachable
\* state, in whatever order the envelopes of a domain arrive and whichever of them fail to
\* apply (selectContiguous and simulateDomain of businessPublicationActivator.js).
THEOREM NoGap == Spec => []CursorHasNoGap
<1>1. Init => Types /\ Kept /\ CursorHasNoGap
  <2>1. Init => CursorHasNoGap
    BY RevisionParts, PublicationAssumption DEF Init, CursorHasNoGap
  <2>. QED BY <2>1, InitTypes, KeptInit
<1>2. (Types /\ Kept /\ CursorHasNoGap) /\ [Next]_vars => (Types /\ Kept /\ CursorHasNoGap)'
  BY TypesStep, KeptStep, GaplessStep
<1>. QED BY <1>1, <1>2, PTL DEF Spec

-----------------------------------------------------------------------------
(* Packages start together.                                                *)

\* A domain without a revision that fails applies all it is ready for.
LEMMA NothingFails ==
  ASSUME NEW d \in Domains, Failed(d) = {}
  PROVE  Applicable(d) = Ready(d)
<1>. DEFINE S == {r[2] : r \in {q \in Ready(d) : flaw[q] = "inapplicable"}}
<1>1. \A r \in Ready(d) : r \in Revisions /\ r[1] = d /\ r[2] \in Nat /\ r = <<d, r[2]>>
  BY RevisionParts, PublicationAssumption DEF Ready
<1>2. ASSUME S # {} PROVE FALSE
  <2>1. S \in SUBSET Nat
    BY <1>1
  <2>2. PICK n \in S : \A m \in S : n <= m
    <3>. HIDE DEF S
    <3>. QED BY <1>2, <2>1, Least
  <2>3. PICK r \in Ready(d) : flaw[r] = "inapplicable" /\ n = r[2]
    BY <2>2
  <2>4. \A q \in Ready(d) : q[2] < r[2] => flaw[q] # "inapplicable"
    <3>1. \A q \in Ready(d) : flaw[q] = "inapplicable" => r[2] <= q[2]
      BY <2>2, <2>3
    <3>. QED BY <1>1, <3>1
  <2>5. r \in Failed(d)
    BY <2>3, <2>4 DEF Failed
  <2>. QED BY <2>5
<1>3. \A q \in Ready(d) : flaw[q] # "inapplicable"
  BY <1>2
<1>. QED BY <1>3 DEF Applicable

\* An activation moves no cursor back.
LEMMA CursorForward ==
  ASSUME Types, NEW d \in Domains
  PROVE  /\ cursor[d] \in Nat /\ NextCursor(d) \in Nat /\ cursor[d] <= NextCursor(d)
         /\ (\E r \in Applied : r[1] = d) => 0 < NextCursor(d)
         /\ (\A r \in Applied : r[1] # d) => NextCursor(d) = cursor[d]
<1>1. cursor[d] \in Nat
  BY DEF Types, BusinessTyped, Vector
<1>2. CASE \A r \in Applied : r[1] # d
  <2>1. NextCursor(d) = cursor[d]
    BY <1>2, NextCursorValue
  <2>. HIDE DEF NextCursor
  <2>. QED BY <1>1, <1>2, <2>1
<1>3. CASE \E r \in Applied : r[1] = d
  <2>1. NextCursor(d) \in 1 .. MaxSequence /\ <<d, NextCursor(d)>> \in Applied
    BY <1>3, NextCursorValue
  <2>2. cursor[d] < NextCursor(d)
    BY <2>1, AppliedRange
  <2>. HIDE DEF NextCursor
  <2>. QED BY <1>1, <1>3, <2>1, <2>2, PublicationAssumption
<1>. QED BY <1>2, <1>3

\* When a package has not started, an activation starts all of its domains or none.
LEMMA PackageStarts ==
  ASSUME Types, Applied # {}, NEW d \in Package
  PROVE  d \in Domains /\ 0 < NextCursor(d)
<1>1. PackageSound /\ Simulated # {}
  BY AppliedParts
<1>2. Package \subseteq Domains /\ PackageReady /\ Simulated = Domains
  BY <1>1, PublicationAssumption DEF Simulated, Package, Core
<1>3. Ready(d) # {} /\ Failed(d) = {}
  BY <1>1, <1>2 DEF PackageReady, PackageSound
<1>4. Applicable(d) # {}
  BY <1>2, <1>3, NothingFails
<1>5. PICK r : r \in Applicable(d) /\ r[1] = d
  <2>1. PICK r \in Applicable(d) : TRUE
    BY <1>4
  <2>. QED BY <1>2, <2>1, AppliedParts
<1>6. r \in Applied
  BY <1>1, <1>2, <1>5 DEF Applied
<1>7. d \in Domains /\ \E q \in Applied : q[1] = d
  BY <1>2, <1>5, <1>6
<1>. QED BY <1>7, CursorForward

LEMMA TogetherStep ==
  ASSUME Types, PackageStartsTogether, [Next]_vars
  PROVE  PackageStartsTogether'
<1>0. channel' = channel
  BY Frames
<1>1. ASSUME UNCHANGED cursor, owned => owned' PROVE PackageStartsTogether'
  BY <1>0, <1>1 DEF PackageStartsTogether, Consistent, Started
<1>2. ASSUME NEW request \in wire, Handle(request) PROVE PackageStartsTogether'
  <2>1. UNCHANGED cursor /\ (owned => owned')
    BY <1>2 DEF Handle, AcceptShard, OwnedOnceReceived
  <2>. QED BY <1>1, <2>1
<1>3. ASSUME NEW c \in Reconcilers, Activate(c) PROVE PackageStartsTogether'
  <2>1. CASE ActivateUnowned
    BY <1>1, <1>3, <2>1 DEF Activate, ActivateUnowned
  <2>2. CASE ActivateOwned
    <3>1. owned /\ owned' /\ \A d \in Domains : cursor'[d] = NextCursor(d)
      BY <1>3, <2>2 DEF Activate, ActivateOwned
    <3>2. \A d \in Domains : d \in Started => d \in Started'
      <4>1. \A d \in Domains : cursor[d] > 0 => NextCursor(d) > 0
        <5>. SUFFICES ASSUME NEW d \in Domains, cursor[d] > 0 PROVE NextCursor(d) > 0
          OBVIOUS
        <5>1. cursor[d] \in Nat /\ NextCursor(d) \in Nat /\ cursor[d] <= NextCursor(d)
          BY CursorForward
        <5>. HIDE DEF NextCursor
        <5>. QED BY <5>1
      <4>. HIDE DEF NextCursor
      <4>. QED BY <3>1, <4>1 DEF Started
    <3>3. CASE Applied = {}
      <4>1. \A d \in Domains : cursor'[d] = cursor[d]
        BY <3>1, <3>3, CursorForward
      <4>2. Started' = Started
        BY <4>1 DEF Started
      <4>. QED BY <1>0, <3>1, <4>2 DEF PackageStartsTogether, Consistent
    <3>4. CASE Applied # {}
      <4>1. \A d \in Package : d \in Started'
        <5>1. \A d \in Package : d \in Domains /\ NextCursor(d) > 0
          <6>. SUFFICES ASSUME NEW d \in Package PROVE d \in Domains /\ NextCursor(d) > 0
            OBVIOUS
          <6>1. d \in Domains /\ 0 < NextCursor(d)
            BY <3>4, PackageStarts
          <6>2. NextCursor(d) \in Nat
            BY <6>1, CursorForward
          <6>. HIDE DEF NextCursor
          <6>. QED BY <6>1, <6>2
        <5>. HIDE DEF NextCursor
        <5>. QED BY <3>1, <5>1 DEF Started
      <4>2. Started \subseteq Domains /\ Started' \subseteq Domains
        BY DEF Started
      <4>3. Consistent'
        <5>1. CASE channel.onboarding = "automatic_bootstrap"
          <6>1. Started \in {{}, Domains} /\ (Started = {} => Package = Domains)
            BY <5>1 DEF PackageStartsTogether, Consistent, Package
          <6>2. Started' = Domains
            BY <3>2, <4>1, <4>2, <6>1
          <6>. QED BY <1>0, <5>1, <6>2 DEF Consistent
        <5>2. CASE channel.onboarding = "cohort"
          <6>1. /\ Started \cap Core \in {{}, Core} /\ (Started \cap Core = {} => Package = Core)
                /\ Core \subseteq Domains
            BY <5>2, PublicationAssumption DEF PackageStartsTogether, Consistent, Package, Core
          <6>2. Started' \cap Core = Core
            BY <3>2, <4>1, <4>2, <6>1
          <6>. QED BY <1>0, <5>2, <6>2 DEF Consistent, Core
        <5>3. CASE channel.onboarding \notin {"automatic_bootstrap", "cohort"}
          BY <1>0, <5>3 DEF Consistent
        <5>. QED BY <5>1, <5>2, <5>3
      <4>. QED BY <3>1, <4>3 DEF PackageStartsTogether
    <3>. QED BY <3>3, <3>4
  <2>. QED BY <1>3, <2>1, <2>2 DEF Activate
<1>4. CASE UNCHANGED businessVars
  BY <1>1, <1>4 DEF businessVars
<1>. QED BY <1>2, <1>3, <1>4, Frames

LEMMA TogetherInit == Init => PackageStartsTogether
<1>. SUFFICES ASSUME Init PROVE PackageStartsTogether
  OBVIOUS
<1>1. Started = {}
  BY DEF Init, Started
<1>. QED BY <1>1 DEF PackageStartsTogether, Consistent

\* The domains that may only start together have all started or none has, in every
\* reachable state (the package of businessPublicationActivator.js).
THEOREM TogetherOrNot == Spec => []PackageStartsTogether
<1>1. Types /\ PackageStartsTogether /\ [Next]_vars => PackageStartsTogether'
  BY TogetherStep
<1>. QED BY <1>1, InitTypes, TypesStep, TogetherInit, PTL DEF Spec

-----------------------------------------------------------------------------
(* The pipeline implements the log of revisions.                           *)

\* Nothing is read that the crawler did not write.
ReadsWritten ==
  \A d \in Domains : cursor[d] \in Nat /\ written[d] \in Nat /\ cursor[d] <= written[d]

LEMMA CursorWritten == Types /\ Kept /\ CursorHasNoGap => ReadsWritten
<1>. SUFFICES ASSUME Types, Kept, CursorHasNoGap, NEW d \in Domains
              PROVE  cursor[d] \in Nat /\ written[d] \in Nat /\ cursor[d] <= written[d]
  BY DEF ReadsWritten
<1>1. /\ cursor[d] \in Nat /\ cursor[d] <= MaxSequence
      /\ written[d] \in Nat
  BY PublicationAssumption DEF Types, BusinessTyped, SourceTyped, Vector
<1>2. CASE cursor[d] = 0
  BY <1>1, <1>2
<1>3. CASE cursor[d] # 0
  <2>. DEFINE r == <<d, cursor[d]>>
  <2>1. r \in Revisions /\ r[1] = d /\ r[2] = cursor[d]
    BY <1>1, <1>3, RevisionOf, PublicationAssumption
  <2>2. stage[r] = "active"
    BY <2>1 DEF CursorHasNoGap
  <2>3. outbox[r].status # "none"
    BY <2>1, <2>2 DEF Kept, Sendable
  <2>4. ~(written[r[1]] < r[2])
    BY <2>1, <2>3 DEF Kept
  <2>. HIDE DEF r
  <2>. QED BY <1>1, <2>1, <2>4
<1>. QED BY <1>2, <1>3

LEMMA LogInit == Init => Log!Init
<1>. SUFFICES ASSUME Init PROVE Log!Init
  OBVIOUS
<1>1. Together \in SUBSET Domains
  BY PublicationAssumption DEF Together, Core
<1>. QED BY <1>1 DEF Init, Log!Init

LEMMA LogStep ==
  ASSUME Types, Kept, CursorHasNoGap, PackageStartsTogether,
         PackageStartsTogether', ReadsWritten', [Next]_vars
  PROVE  [Log!Next]_(Log!vars)
<1>1. Together' = Together
  BY Frames DEF Together, Core
<1>2. CASE UNCHANGED <<written, cursor>>
  BY <1>1, <1>2 DEF Log!vars
<1>3. CASE ReviseSome
  <2>1. UNCHANGED cursor
    BY <1>3 DEF ReviseSome, Revise, businessVars
  <2>2. \E changed \in (SUBSET Domains) \ {{}} :
          written' = [d \in Domains |-> IF d \in changed THEN written[d] + 1 ELSE written[d]]
    BY <1>3, ReviseFrame
  <2>3. Log!Write
    BY <1>1, <2>1, <2>2 DEF Log!Write
  <2>. QED BY <2>3 DEF Log!Next
<1>4. CASE \E c \in Reconcilers : Activate(c)
  <2>1. UNCHANGED written
    BY <1>4 DEF Activate, sourceVars
  <2>2. CASE cursor' # cursor
    <3>1. ActivateOwned
      BY <1>4, <2>2 DEF Activate, ActivateUnowned
    <3>2. DOMAIN cursor' = Domains
      BY <3>1 DEF ActivateOwned
    <3>3. \A d \in Domains : cursor'[d] \in cursor[d] .. written[d]
      <4>. SUFFICES ASSUME NEW d \in Domains PROVE cursor'[d] \in cursor[d] .. written[d]
        OBVIOUS
      <4>1. cursor'[d] = NextCursor(d)
        BY <3>1 DEF ActivateOwned
      <4>2. cursor[d] \in Nat /\ cursor[d] <= NextCursor(d)
        BY CursorForward
      <4>3. cursor'[d] \in Nat /\ cursor'[d] <= written'[d] /\ written'[d] \in Nat
        BY DEF ReadsWritten
      <4>. HIDE DEF NextCursor
      <4>. QED BY <2>1, <4>1, <4>2, <4>3
    <3>4. Log!Begun(cursor') \in {{}, Together}
      <4>1. Log!Begun(cursor') = {d \in Together : cursor'[d] > 0}
        BY DEF Log!Begun
      <4>2. Started' = {d \in Domains : cursor'[d] > 0} /\ Consistent' /\ channel' = channel
        BY Frames DEF Started, PackageStartsTogether
      <4>3. Core \subseteq Domains /\ Core' = Core
        BY PublicationAssumption DEF Core
      <4>4. CASE channel.onboarding = "automatic_bootstrap"
        BY <4>1, <4>2, <4>4 DEF Consistent, Together
      <4>5. CASE channel.onboarding = "cohort"
        BY <4>1, <4>2, <4>3, <4>5 DEF Consistent, Together
      <4>6. CASE channel.onboarding \notin {"automatic_bootstrap", "cohort"}
        BY <4>1, <4>6 DEF Together
      <4>. QED BY <4>4, <4>5, <4>6
    <3>5. Log!Read
      BY <1>1, <2>1, <2>2, <3>2, <3>3, <3>4 DEF Log!Read
    <3>. QED BY <3>5 DEF Log!Next
  <2>. QED BY <1>2, <2>1, <2>2
<1>5. CASE (\E p \in Publishers : ClaimSome(p) \/ SettleSome(p)) \/ \E r \in Revisions : LeaseLapses(r)
  BY <1>2, <1>5, OutboxFrame
<1>6. CASE UNCHANGED sourceVars /\ (UNCHANGED businessVars \/ \E request \in wire : Handle(request))
  BY <1>2, <1>6 DEF sourceVars, businessVars, Handle, AcceptShard
<1>. QED BY <1>3, <1>4, <1>5, <1>6, Frames

\* Outboxes, leases, shards, lost and late answers, receipts and activations together do
\* what the log of revisions says: a reader that follows what the crawler wrote, forward and
\* without reading what was not written, and starts the domains of a package in one step.
THEOREM RefinesRevisionLog == Spec => ImplementsRevisionLog
<1>. DEFINE Inv == Types /\ Kept /\ CursorHasNoGap /\ PackageStartsTogether
<1>1. Init => Inv
  BY InitTypes, KeptInit, TogetherInit, RevisionParts, PublicationAssumption
     DEF Init, CursorHasNoGap
<1>2. Inv /\ [Next]_vars => Inv'
  BY TypesStep, KeptStep, GaplessStep, TogetherStep
<1>3. Inv /\ Inv' /\ ReadsWritten' /\ [Next]_vars => [Log!Next]_(Log!vars)
  BY LogStep
<1>4. ImplementsRevisionLog <=> Log!Init /\ [][Log!Next]_(Log!vars)
  BY DEF ImplementsRevisionLog, Log!Spec
<1>5. Inv => ReadsWritten
  BY CursorWritten
<1>. HIDE DEF Inv
<1>. QED BY <1>1, <1>2, <1>3, <1>4, <1>5, LogInit, PTL DEF Spec

=============================================================================
