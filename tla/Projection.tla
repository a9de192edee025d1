------------------------------ MODULE Projection ------------------------------
(***************************************************************************)
(* The projection of activated channels into the searchable release of the *)
(* business database.                                                      *)
(*                                                                         *)
(*   - every activation leaves a row with the channel's version vector in  *)
(*     the projection outbox (businessPublicationActivator.js);            *)
(*   - projectors lease rows of several channels and publish them as one   *)
(*     batch, the next release (businessPublicationProjector.js);          *)
(*   - an operator puts a cohort of held channels online with a cutover,   *)
(*     or rolls it back (businessPublicationCutoverAdmin.js).              *)
(*                                                                         *)
(* The n-th activation of a channel is its version n; 0 is what the search *)
(* showed of it before.  A batch is named by the versions it publishes, as *)
(* its semantic hash names it, and a release is named by its batch.        *)
(***************************************************************************)
EXTENDS Naturals, FiniteSets

CONSTANTS
  Channels,
  Cohort,           \* the channels the cutover is about, held at first
  Workers,          \* projector processes
  BatchSize,        \* rows one claim takes
  MaxAttempts,      \* attempts after which a failed row is given up
  MaxVersion,       \* bound: activations of a channel
  Overlap,          \* what an activation may overlap: a cutover, a rollback or
                    \* another activation of its channel
  Unbuildable,      \* versions whose aggregate cannot be assembled
  MaxTroubles,      \* bound: failures of the database, crashes, leases that run
                    \* out under a working projector, activations that wait
  MaxCutovers       \* bound: cutovers applied

Nobody == "nobody"

Rows == Channels \X (1 .. MaxVersion)

ASSUME ProjectionAssumption ==
  /\ Cohort \subseteq Channels
  /\ {BatchSize, MaxAttempts} \subseteq Nat \ {0}
  /\ {MaxVersion, MaxTroubles, MaxCutovers} \subseteq Nat
  /\ Unbuildable \subseteq Rows
  /\ Overlap \subseteq {"activation", "cutover", "rollback"}
  /\ Nobody \notin Workers

VARIABLES
  version,      \* channel -> its last activated version
  mode,         \* channel -> projection mode of its ownership
  row,          \* <<channel, version>> -> its row of the projection outbox
  projector,    \* projector -> the rows it claimed, and where it is
  active,       \* the batch of the active release
  releases,     \* batch -> the release published before it and what it shows
  live,         \* channel -> the version the search shows
  cutover,      \* the last cutover of the cohort
  applying,     \* what a transaction that applies a cutover has read, if one runs
  rolling,      \* what one that rolls it back relies on, if one runs
  troubles

adminVars == <<mode, cutover, applying, rolling>>
searchVars == <<active, releases, live>>
vars == <<version, row, projector, adminVars, searchVars, troubles>>

-----------------------------------------------------------------------------
NoRow   == [status |-> "none", attempts |-> 0, owner |-> Nobody, lapsed |-> FALSE,
            released |-> FALSE, early |-> FALSE, date |-> 0]
Idle    == [claimed |-> {}, failed |-> FALSE]
NoBatch == [c \in {} |-> 0]
NotApplying == [seen |-> NoBatch, active |-> NoBatch]
NotRolling  == [begun |-> FALSE, restores |-> FALSE, overtaken |-> FALSE]

Init ==
  /\ version = [c \in Channels |-> 0]
  /\ mode = [c \in Channels |-> IF c \in Cohort THEN "held_shadow" ELSE "online"]
  /\ row = [r \in Rows |-> NoRow]
  /\ projector = [w \in Workers |-> Idle]
  /\ active = NoBatch
  /\ live = [c \in Channels |-> 0]
  /\ releases = [b \in {NoBatch} |-> [previous |-> NoBatch, live |-> live]]
  /\ cutover = [status |-> "none", previous |-> NoBatch, last |-> NoBatch, number |-> 0]
  /\ applying = NotApplying
  /\ rolling = NotRolling
  /\ troubles = 0

\* Mutant: the row takes over the projection mode as its status.
ProjectAsMode(c) == mode[c]

\* insertActivationAudit: the activation of a channel leaves its row.
ProjectAs(c) == IF mode[c] = "online" THEN "pending" ELSE "held_shadow"

\* Rows are ordered by the start of their activations; a later version with the
\* same date came before.
Earlier(r) ==
  {q \in Rows :
     /\ q[1] = r[1] /\ row[q].status # "none"
     /\ row[q].date < row[r].date \/ (row[q].date = row[r].date /\ q[2] > r[2])}

\* A row with such a date fits the rows of its channel, those of them that are
\* dated before the last cutover among them.
Dateable(c, date, early) ==
  \A n \in 1 .. version[c] :
    LET q == row[<<c, n>>] IN
    IF date <= q.date
    THEN cutover.status = "applied" /\ (q.released \/ q.early) => early
    ELSE early => q.released \/ q.early

\* The row is dated at the start of the transaction: one that overlaps others on
\* the ownership of the channel, and is the last to have it, is dated before the
\* activations and before the cutover it waited for.  One that has it before an
\* operator's transaction that has begun is not in what that one has read.
Activate(c, date, early) ==
  LET n == version[c] + 1
      waited == date # n \/ early
  IN /\ n <= MaxVersion
     /\ c \in Cohort /\ applying # NotApplying => "cutover" \in Overlap
     /\ c \in Cohort /\ rolling.begun => "rollback" \in Overlap
     /\ waited => troubles < MaxTroubles
     /\ date # n => "activation" \in Overlap
     /\ early => "cutover" \in Overlap /\ c \in Cohort /\ cutover.status = "applied"
     /\ date \in 1 .. n /\ Dateable(c, date, early)
     /\ version' = [version EXCEPT ![c] = n]
     /\ row' = [row EXCEPT ![<<c, n>>] =
          [NoRow EXCEPT !.status = ProjectAs(c), !.early = early, !.date = date]]
     /\ troubles' = IF waited THEN troubles + 1 ELSE troubles
     /\ UNCHANGED <<projector, adminVars, searchVars>>

-----------------------------------------------------------------------------
(* Projectors.                                                             *)

Open(r) == row[r].status \in {"pending", "retry_wait", "leased"}

\* Mutant: rows whose lease ran out are not taken over.
ClaimableUnleased ==
  {r \in Rows :
     /\ mode[r[1]] = "online"
     /\ row[r].status \in {"pending", "retry_wait"}
     /\ \A q \in Earlier(r) : row[q].status = "delivered"}

\* claimBusinessPublicationProjectionRows: open rows nobody works on, the first
\* undelivered one of each channel.
Claimable ==
  {r \in Rows :
     /\ mode[r[1]] = "online"
     /\ row[r].status \in {"pending", "retry_wait"} \/ row[r].lapsed
     /\ \A q \in Earlier(r) : row[q].status = "delivered"}

\* What a transaction that rolls a cutover back is to write, the rows the cutover
\* released, it cannot write once another one has since it began.
AfterWriting(rows) ==
  IF rolling.begun /\ \E r \in rows : row[r].released
  THEN [rolling EXCEPT !.overtaken = TRUE] ELSE rolling

\* Rows another claim holds locked are skipped.
Claim(w, chosen) ==
  /\ projector[w] = Idle
  /\ chosen # {} /\ chosen \subseteq Claimable /\ Cardinality(chosen) <= BatchSize
  /\ row' = [r \in Rows |->
       IF r \in chosen
       THEN [row[r] EXCEPT !.status = "leased", !.attempts = @ + 1, !.owner = w,
                           !.lapsed = FALSE]
       ELSE row[r]]
  /\ projector' = [projector EXCEPT ![w].claimed = chosen]
  /\ rolling' = AfterWriting(chosen)
  /\ UNCHANGED <<version, mode, cutover, applying, searchVars, troubles>>

Working(r) == r \in projector[row[r].owner].claimed

\* The lease of a row runs out while its projector is slow or gone.
LeaseLapses(r) ==
  /\ row[r].status = "leased" /\ ~row[r].lapsed
  /\ Working(r) => troubles < MaxTroubles
  /\ row' = [row EXCEPT ![r].lapsed = TRUE]
  /\ troubles' = IF Working(r) THEN troubles + 1 ELSE troubles
  /\ UNCHANGED <<version, projector, adminVars, searchVars>>

ClaimedChannels(w) == {r[1] : r \in projector[w].claimed}

\* Mutant: the last open row of each channel.
TargetsLast(w) ==
  {r \in Rows : /\ r[1] \in ClaimedChannels(w) /\ Open(r)
                /\ \A q \in Rows : r \in Earlier(q) => ~Open(q)}

\* openProjectionRows, earliestProjectionRows: the rows a transaction is about
\* are read anew, whoever leases them now: the first open one of each channel.
Targets(w) ==
  {r \in Rows : /\ r[1] \in ClaimedChannels(w) /\ Open(r)
                /\ \A q \in Earlier(r) : ~Open(q)}

Uncovered(w) == {r \in Targets(w) : live[r[1]] # r[2]}

Batch(rows) ==
  [c \in {r[1] : r \in rows} |-> CHOOSE n \in 1 .. MaxVersion : <<c, n>> \in rows]

Online(w) == \A c \in ClaimedChannels(w) : mode[c] = "online"

\* Mutant: a release published before is made active wherever it stood.
ReplaysAnywhere(batch) == TRUE

\* reusablePublishedBatch, reactivatePublishedBatch: a batch published before
\* can only follow the release it followed then.
Replays(batch) == releases[batch].previous = active

\* projectBusinessPublicationChannels: what makes the transaction fail.
CanProject(w) ==
  LET batch == Batch(Uncovered(w))
  IN /\ Online(w)
     /\ Uncovered(w) # {} =>
          IF batch \in DOMAIN releases THEN Replays(batch)
          ELSE Uncovered(w) \cap Unbuildable = {}

\* What the search shows of the channels after the batch is published on top of
\* the active release.
Shown(batch) == [c \in Channels |-> IF c \in DOMAIN batch THEN batch[c] ELSE live[c]]

\* One transaction: the batch is published or replayed, or nothing was left to
\* show, and all the rows it was about are delivered.
Project(w) ==
  LET rows == Targets(w)
      uncovered == Uncovered(w)
      batch == IF uncovered = {} THEN active ELSE Batch(uncovered)
  IN /\ projector[w].claimed # {} /\ ~projector[w].failed
     /\ CanProject(w)
     /\ active' = batch
     /\ live' = IF uncovered = {} THEN live ELSE Shown(batch)
     /\ releases' =
          IF batch \in DOMAIN releases THEN releases
          ELSE [b \in DOMAIN releases \cup {batch} |->
                  IF b = batch THEN [previous |-> active, live |-> live'] ELSE releases[b]]
     /\ row' = [r \in Rows |->
          IF r \in rows
          THEN [row[r] EXCEPT !.status = "delivered", !.owner = Nobody, !.lapsed = FALSE]
          ELSE row[r]]
     /\ cutover' =
          IF cutover.status = "applied" /\ \E r \in rows : row[r].released
          THEN [cutover EXCEPT !.last = batch] ELSE cutover
     /\ rolling' =
          IF rolling.restores /\ batch # active THEN [rolling EXCEPT !.overtaken = TRUE]
          ELSE AfterWriting(rows)
     /\ projector' = [projector EXCEPT ![w] = Idle]
     /\ UNCHANGED <<version, mode, applying, troubles>>

\* The transaction is rolled back: it cannot succeed, or the database fails.
ProjectFails(w) ==
  /\ projector[w].claimed # {} /\ ~projector[w].failed
  /\ CanProject(w) => troubles < MaxTroubles
  /\ troubles' = IF CanProject(w) THEN troubles + 1 ELSE troubles
  /\ projector' = [projector EXCEPT ![w].failed = TRUE]
  /\ UNCHANGED <<version, row, adminVars, searchVars>>

\* Mutant: rows another projector has taken over are given up with the rest.
HoldsAny(w, r) == row[r].status # "none"

Holds(w, r) == row[r].status = "leased" /\ row[r].owner = w

\* #retry: every row of the claim the projector still leases, not only the one
\* that made the batch fail.
Retry(w) ==
  LET held == {r \in projector[w].claimed : Holds(w, r)}
  IN /\ projector[w].failed
     /\ row' = [r \in Rows |->
          IF r \in held
          THEN [row[r] EXCEPT
                  !.status = IF row[r].attempts >= MaxAttempts THEN "dead_letter" ELSE "retry_wait",
                  !.owner = Nobody, !.lapsed = FALSE]
          ELSE row[r]]
     /\ rolling' = AfterWriting(held)
     /\ projector' = [projector EXCEPT ![w] = Idle]
     /\ UNCHANGED <<version, mode, cutover, applying, searchVars, troubles>>

ProjectorCrash(w) ==
  /\ projector[w] # Idle /\ troubles < MaxTroubles
  /\ projector' = [projector EXCEPT ![w] = Idle]
  /\ troubles' = troubles + 1
  /\ UNCHANGED <<version, row, adminVars, searchVars>>

-----------------------------------------------------------------------------
(* The cutover.                                                            *)

CohortRows == {r \in Rows : r[1] \in Cohort /\ row[r].status # "none"}

\* dryRunProjection: the plan of the cutover projects every channel of the cohort
\* as it is now, and fails where the projection would.
DryRunSucceeds ==
  LET current == [c \in Cohort |-> version[c]]
  IN /\ \A c \in Cohort : 0 < current[c] /\ current[c] # live[c]
     /\ IF current \in DOMAIN releases THEN Replays(current)
        ELSE \A c \in Cohort : <<c, current[c]>> \notin Unbuildable

\* apply begins: all it reads of the cohort is as old as its first statement.  The
\* evidence of the plan still holds, so the dry run is part of it.
BeginCutover ==
  /\ applying = NotApplying /\ ~rolling.begun /\ cutover.number < MaxCutovers
  /\ Cohort # {} /\ \A c \in Cohort : mode[c] = "held_shadow"
  /\ \A r \in CohortRows : row[r].status = "held_shadow"
  /\ DryRunSucceeds
  /\ applying' = [seen |-> version, active |-> active]
  /\ UNCHANGED <<version, row, projector, mode, cutover, rolling, searchVars, troubles>>

Seen == {r \in CohortRows : r[2] <= applying.seen[r[1]]}

\* apply, with the ownership of the cohort locked: the rows it has read are
\* released.
ApplyCutover ==
  /\ applying # NotApplying
  /\ mode' = [c \in Channels |-> IF c \in Cohort THEN "online" ELSE mode[c]]
  /\ row' = [r \in Rows |->
       IF r \in Seen THEN [row[r] EXCEPT !.status = "pending", !.released = TRUE]
       ELSE row[r]]
  /\ cutover' = [status |-> "applied", previous |-> applying.active, last |-> NoBatch,
                 number |-> cutover.number + 1]
  /\ applying' = NotApplying
  /\ UNCHANGED <<version, projector, rolling, searchVars, troubles>>

\* The ownership is not had in time, or the evidence does not hold.
AbandonCutover ==
  /\ applying # NotApplying
  /\ applying' = NotApplying
  /\ UNCHANGED <<version, row, projector, mode, cutover, rolling, searchVars, troubles>>

\* inspectRollbackState: the release is the last one the cutover's rows were
\* delivered with, or the one before the cutover.
ExpectedRelease == active = IF cutover.last = NoBatch THEN cutover.previous ELSE cutover.last

\* Mutant: rows that came after the cutover are not counted.
NewerIgnored == {}

\* inspectRollbackState: rows of the cohort that are dated after the cutover and
\* that it did not release.
Newer == {r \in CohortRows : ~row[r].released /\ ~row[r].early}

\* rollback begins: blocked by newer rows of the cohort; all it reads is as old as its
\* first statement, what it inspects again under the publication lock included.  The
\* search will be taken back unless its release is the one before the cutover.
BeginRollback ==
  /\ cutover.status = "applied" /\ applying = NotApplying /\ ~rolling.begun
  /\ Newer = {}
  /\ ExpectedRelease
  /\ rolling' = [begun |-> TRUE, restores |-> active # cutover.previous, overtaken |-> FALSE]
  /\ UNCHANGED <<version, row, projector, mode, cutover, applying, searchVars, troubles>>

\* rollback, with the ownership of the cohort locked: the released rows are held again,
\* and the search goes back to the release before the cutover, with all that was published
\* since.
RollBack ==
  /\ rolling.begun /\ ~rolling.overtaken
  /\ mode' = [c \in Channels |-> IF c \in Cohort THEN "held_shadow" ELSE mode[c]]
  /\ row' = [r \in Rows |->
       IF row[r].released
       THEN [NoRow EXCEPT !.status = "held_shadow", !.released = TRUE, !.date = row[r].date]
       ELSE row[r]]
  /\ active' = IF rolling.restores THEN cutover.previous ELSE active
  /\ live' = IF rolling.restores THEN releases[cutover.previous].live ELSE live
  /\ cutover' = [cutover EXCEPT !.status = "rolled_back"]
  /\ rolling' = NotRolling
  /\ UNCHANGED <<version, projector, releases, applying, troubles>>

\* A lock is not had in time, or what it is to write has been written meanwhile.
AbandonRollback ==
  /\ rolling.begun
  /\ rolling' = NotRolling
  /\ UNCHANGED <<version, row, projector, mode, cutover, applying, searchVars, troubles>>

-----------------------------------------------------------------------------
ClaimSome(w) == \E chosen \in SUBSET Claimable : Claim(w, chosen)

Next ==
  \/ \E c \in Channels, date \in 1 .. MaxVersion, early \in BOOLEAN : Activate(c, date, early)
  \/ \E w \in Workers :
       ClaimSome(w) \/ Project(w) \/ ProjectFails(w) \/ Retry(w) \/ ProjectorCrash(w)
  \/ \E r \in Rows : LeaseLapses(r)
  \/ BeginCutover \/ ApplyCutover \/ AbandonCutover
  \/ BeginRollback \/ RollBack \/ AbandonRollback

Spec == Init /\ [][Next]_vars

\* The loop of a projector: it polls, its transaction ends by its statement timeout at
\* the latest, and it puts back what failed.
Work(w) == ClaimSome(w) \/ Project(w) \/ ProjectFails(w) \/ Retry(w)

\* Projectors go on working, and leases nobody works under run out.  Nothing else is
\* sure to happen.
Fairness ==
  /\ \A w \in Workers : WF_vars(Work(w))
  /\ WF_vars(\E r \in Rows : LeaseLapses(r) /\ ~Working(r))

FairSpec == Spec /\ Fairness

-----------------------------------------------------------------------------
(* Properties.                                                             *)

Statuses == {"none", "held_shadow", "pending", "leased", "retry_wait", "delivered", "dead_letter"}

\* The state has its types; a row is leased exactly while it has an owner.
TypeOK ==
  /\ version \in [Channels -> 0 .. MaxVersion] /\ live \in [Channels -> 0 .. MaxVersion]
  /\ mode \in [Channels -> {"held_shadow", "online"}]
  /\ row \in [Rows -> [status : Statuses, attempts : Nat, owner : Workers \cup {Nobody},
                       lapsed : BOOLEAN, released : BOOLEAN, early : BOOLEAN, date : 0 .. MaxVersion]]
  /\ \A r \in Rows :
       /\ row[r].status = "leased" <=> row[r].owner # Nobody
       /\ row[r].lapsed => row[r].status = "leased"
       /\ row[r].status # "none" <=> r[2] <= version[r[1]]
  /\ projector \in [Workers -> [claimed : SUBSET Rows, failed : BOOLEAN]]
  /\ {active, cutover.previous, cutover.last, applying.active} \subseteq DOMAIN releases
  /\ rolling \in [begun : BOOLEAN, restores : BOOLEAN, overtaken : BOOLEAN]
  /\ cutover.status \in {"none", "applied", "rolled_back"}

\* The rows follow the projection mode of the channel, and the search shows nothing
\* of a channel that is held: an online channel has no row that stays behind held, a
\* rollback takes back all that the cutover showed, and what a projector that claimed
\* rows before the rollback still does shows nothing.  A cutover is refused when the
\* channels moved on after its plan ("Cutover live state changed after the approved
\* dry-run; generate new evidence"), a rollback when they moved on after the cutover
\* ("Business Projection rollback is blocked by newer Channel revisions",
\* businessPublicationCutoverAdmin.js).
RowsFollowMode ==
  \A c \in Channels :
    IF mode[c] = "held_shadow"
    THEN live[c] = 0 /\ \A n \in 1 .. version[c] : row[<<c, n>>].status = "held_shadow"
    ELSE \A n \in 1 .. version[c] : row[<<c, n>>].status # "held_shadow"

\* What the search shows is what the active release showed when it was published
\* first, after any number of rollbacks and replays of releases.
SearchMatchesRelease == live = releases[active].live

\* A version is delivered only after the earlier ones, unless they were given
\* up: projectors whose leases ran out never deliver them out of order.
DeliveredInOrder ==
  \A r \in Rows : row[r].status = "delivered" =>
    \A n \in 1 .. r[2] - 1 : row[<<r[1], n>>].status \in {"delivered", "dead_letter"}

\* Nothing but a rollback takes the search back to an older version of a channel:
\* neither a projector whose rows were taken over nor a replayed release.
LiveNeverGoesBack ==
  [][\/ RollBack
     \/ \A c \in Channels : live'[c] >= live[c]]_vars

\* A row waits behind one that was given up or is held.
Blocked(r) ==
  \E q \in Earlier(r) : row[q].status \in {"dead_letter", "held_shadow"}

\* When activations and cutovers end, every row is delivered, held, given up or
\* behind one that was: none is left leased or waiting.
ProjectionDrains == <>[](\A r \in Rows : Open(r) => Blocked(r))
=============================================================================
