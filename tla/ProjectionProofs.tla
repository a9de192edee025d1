--------------------------- MODULE ProjectionProofs ---------------------------
(***************************************************************************)
(* Proofs about the projection of activated channels, for every number of  *)
(* channels, projectors, versions and cutovers.                            *)
(***************************************************************************)
EXTENDS Projection, TLAPS

Versions == 0 .. MaxVersion

RowType == [status : Statuses, attempts : Nat, owner : Workers \cup {Nobody},
            lapsed : BOOLEAN, released : BOOLEAN, early : BOOLEAN, date : Versions]

\* A row is there once its version is activated, and leased while it has an owner.
RowsTyped ==
  /\ row \in [Rows -> RowType]
  /\ \A r \in Rows :
       /\ row[r].status = "leased" <=> row[r].owner # Nobody
       /\ row[r].lapsed => row[r].status = "leased"
       /\ row[r].status # "none" <=> r[2] <= version[r[1]]

Others ==
  /\ version \in [Channels -> Versions] /\ live \in [Channels -> Versions]
  /\ mode \in [Channels -> {"held_shadow", "online"}]
  /\ projector \in [Workers -> [claimed : SUBSET Rows, failed : BOOLEAN]]
  /\ active \in DOMAIN releases

\* Every release was published on top of one that is still known.
ReleasesTyped ==
  /\ NoBatch \in DOMAIN releases
  /\ \A b \in DOMAIN releases :
       releases[b].previous \in DOMAIN releases /\ releases[b].live \in [Channels -> Versions]

CutoverTyped ==
  /\ cutover \in [status : {"none", "applied", "rolled_back"}, previous : DOMAIN releases,
                  last : DOMAIN releases, number : Nat]
  /\ applying.active \in DOMAIN releases
  /\ rolling \in [begun : BOOLEAN, restores : BOOLEAN, overtaken : BOOLEAN]

\* A cutover releases rows of its cohort that exist.
ReleasedTyped ==
  \A r \in Rows : row[r].released => row[r].status # "none" /\ r[1] \in Cohort

\* While a cutover is applied its cohort stays held, with the rows it has read.
SeenHeld ==
  applying # NotApplying =>
    /\ \A c \in Cohort : mode[c] = "held_shadow"
    /\ \A r \in Seen : row[r].status = "held_shadow"

Types == SeenHeld /\ RowsTyped /\ Others /\ ReleasesTyped /\ CutoverTyped /\ ReleasedTyped

\* A row is a channel and one of its versions.
LEMMA RowParts ==
  \A r \in Rows : r[1] \in Channels /\ r[2] \in 1 .. MaxVersion /\ r = <<r[1], r[2]>>
BY DEF Rows

LEMMA RowOf == \A c \in Channels, n \in 1 .. MaxVersion : <<c, n>> \in Rows
BY DEF Rows

LEMMA VersionRows ==
  ASSUME version \in [Channels -> Versions], NEW c \in Channels, NEW n \in 1 .. version[c]
  PROVE  n \in 1 .. MaxVersion /\ <<c, n>> \in Rows
<1>1. version[c] \in 0 .. MaxVersion /\ MaxVersion \in Nat
  BY ProjectionAssumption DEF Versions
<1>2. n \in 1 .. MaxVersion
  BY <1>1
<1>. QED BY <1>2, RowOf

\* Batch: every channel of a set of rows gets one of its versions.
LEMMA BatchParts ==
  ASSUME NEW rows \in SUBSET Rows
  PROVE  /\ DOMAIN Batch(rows) = {r[1] : r \in rows}
         /\ rows # {} => Batch(rows) # NoBatch
         /\ \A c \in DOMAIN Batch(rows) :
              /\ c \in Channels
              /\ Batch(rows)[c] \in 1 .. MaxVersion
              /\ <<c, Batch(rows)[c]>> \in rows
<1>1. DOMAIN Batch(rows) = {r[1] : r \in rows}
  BY DEF Batch
<1>2. rows # {} => Batch(rows) # NoBatch
  <2>1. DOMAIN NoBatch = {}
    BY DEF NoBatch
  <2>. QED BY <1>1, <2>1
<1>3. ASSUME NEW c \in DOMAIN Batch(rows)
      PROVE  c \in Channels /\ Batch(rows)[c] \in 1 .. MaxVersion /\ <<c, Batch(rows)[c]>> \in rows
  <2>1. PICK r \in rows : c = r[1]
    BY <1>1
  <2>2. c \in Channels /\ r[2] \in 1 .. MaxVersion /\ <<c, r[2]>> \in rows
    BY <2>1, RowParts
  <2>3. Batch(rows)[c] = CHOOSE n \in 1 .. MaxVersion : <<c, n>> \in rows
    BY <1>1 DEF Batch
  <2>. QED BY <2>2, <2>3
<1>. QED BY <1>1, <1>2, <1>3

\* A row stays a row when a column is updated.
LEMMA ColumnUpdate ==
  /\ \A q \in RowType, s \in Statuses : [q EXCEPT !.status = s] \in RowType
  /\ \A q \in RowType, n \in Nat : [q EXCEPT !.attempts = n] \in RowType
  /\ \A q \in RowType, o \in Workers \cup {Nobody} : [q EXCEPT !.owner = o] \in RowType
  /\ \A q \in RowType, b \in BOOLEAN : [q EXCEPT !.lapsed = b] \in RowType
  /\ \A q \in RowType, b \in BOOLEAN : [q EXCEPT !.released = b] \in RowType
<1>1. \A q \in RowType, s \in Statuses : [q EXCEPT !.status = s] \in RowType
  BY DEF RowType
<1>2. \A q \in RowType, n \in Nat : [q EXCEPT !.attempts = n] \in RowType
  BY DEF RowType
<1>3. \A q \in RowType, o \in Workers \cup {Nobody} : [q EXCEPT !.owner = o] \in RowType
  BY DEF RowType
<1>4. \A q \in RowType, b \in BOOLEAN : [q EXCEPT !.lapsed = b] \in RowType
  BY DEF RowType
<1>5. \A q \in RowType, b \in BOOLEAN : [q EXCEPT !.released = b] \in RowType
  BY DEF RowType
<1>. QED BY <1>1, <1>2, <1>3, <1>4, <1>5

\* And when the columns an action touches are updated together.
LEMMA RowUpdate ==
  ASSUME NEW q \in RowType, NEW s \in Statuses, NEW o \in Workers \cup {Nobody}
  PROVE  /\ [q EXCEPT !.status = s, !.owner = o, !.lapsed = FALSE] \in RowType
         /\ [q EXCEPT !.status = s, !.attempts = @ + 1, !.owner = o, !.lapsed = FALSE] \in RowType
         /\ [q EXCEPT !.status = s, !.released = TRUE] \in RowType
<1>. DEFINE q1 == [q EXCEPT !.status = s]
            q2 == [q1 EXCEPT !.owner = o]
            q3 == [q1 EXCEPT !.attempts = q.attempts + 1]
            q4 == [q3 EXCEPT !.owner = o]
<1>1. q1 \in RowType
  BY ColumnUpdate
<1>2. q2 \in RowType
  <2>. HIDE DEF q1
  <2>. QED BY <1>1, ColumnUpdate
<1>3. q3 \in RowType
  <2>1. q.attempts + 1 \in Nat
    BY DEF RowType
  <2>. HIDE DEF q1
  <2>. QED BY <1>1, <2>1, ColumnUpdate
<1>4. q4 \in RowType
  <2>. HIDE DEF q3
  <2>. QED BY <1>3, ColumnUpdate
<1>5. [q2 EXCEPT !.lapsed = FALSE] \in RowType
  <2>. HIDE DEF q2
  <2>. QED BY <1>2, ColumnUpdate
<1>6. [q4 EXCEPT !.lapsed = FALSE] \in RowType
  <2>. HIDE DEF q4
  <2>. QED BY <1>4, ColumnUpdate
<1>7. [q1 EXCEPT !.released = TRUE] \in RowType
  <2>. HIDE DEF q1
  <2>. QED BY <1>1, ColumnUpdate
<1>. QED BY <1>5, <1>6, <1>7

LEMMA InitTypes == Init => Types
<1>. SUFFICES ASSUME Init PROVE Types
  OBVIOUS
<1>. USE ProjectionAssumption DEF Init
<1>1. version \in [Channels -> Versions] /\ live \in [Channels -> Versions]
  BY DEF Versions
<1>2. DOMAIN releases = {NoBatch} /\ active = NoBatch
      /\ releases[NoBatch] = [previous |-> NoBatch, live |-> live]
  OBVIOUS
<1>3. ReleasesTyped
  BY <1>1, <1>2 DEF ReleasesTyped
<1>4. CutoverTyped
  BY <1>2 DEF CutoverTyped, NotApplying, NotRolling
<1>5. RowsTyped /\ ReleasedTyped
  BY RowParts DEF RowsTyped, RowType, ReleasedTyped, NoRow, Statuses, Versions
<1>6. mode \in [Channels -> {"held_shadow", "online"}]
      /\ projector \in [Workers -> [claimed : SUBSET Rows, failed : BOOLEAN]]
  BY DEF Idle
<1>7. SeenHeld
  BY DEF SeenHeld
<1>. QED BY <1>1, <1>3, <1>4, <1>5, <1>6, <1>7 DEF Types, Others

\* What the parts of Types say together is the type invariant of the module.
LEMMA TypesSuffice == Types => TypeOK
BY DEF Types, TypeOK, RowsTyped, RowType, Versions, CutoverTyped, ReleasesTyped, Others

LEMMA ActivateTypes ==
  ASSUME Types, NEW c \in Channels, NEW date \in 1 .. MaxVersion, NEW early \in BOOLEAN,
         Activate(c, date, early)
  PROVE  Types'
<1>. DEFINE r == <<c, version[c] + 1>>
<1>1. version \in [Channels -> Versions] /\ version[c] + 1 \in 1 .. MaxVersion
  BY ProjectionAssumption DEF Types, Others, Activate, Versions
<1>2. version' \in [Channels -> Versions] /\ r \in Rows
  BY <1>1, RowOf, ProjectionAssumption DEF Activate, Versions
<1>3. row' = [row EXCEPT ![r] =
        [NoRow EXCEPT !.status = ProjectAs(c), !.early = early, !.date = date]]
  BY DEF Activate
<1>4. [NoRow EXCEPT !.status = ProjectAs(c), !.early = early, !.date = date] \in RowType
  <2>1. ProjectAs(c) \in Statuses /\ date \in Versions
    BY ProjectionAssumption DEF ProjectAs, Statuses, Versions
  <2>. QED BY <2>1 DEF NoRow, RowType
<1>5. /\ row' \in [Rows -> RowType]
      /\ \A q \in Rows : q # r => row'[q] = row[q]
      /\ row'[r].status \in {"pending", "held_shadow"} /\ row'[r].owner = Nobody
      /\ ~row'[r].lapsed /\ ~row'[r].released
  BY <1>2, <1>3, <1>4 DEF Types, RowsTyped, NoRow, ProjectAs
<1>6. \A q \in Rows : q[2] <= version'[q[1]] <=> q[2] <= version[q[1]] \/ q = r
  BY <1>1, RowParts, ProjectionAssumption DEF Activate, Versions
<1>7. RowsTyped' /\ ReleasedTyped'
  BY <1>2, <1>5, <1>6 DEF Types, RowsTyped, ReleasedTyped
<1>8. Others' /\ ReleasesTyped' /\ CutoverTyped'
  BY <1>2 DEF Types, Others, ReleasesTyped, CutoverTyped, Activate, adminVars, searchVars
<1>9. SeenHeld'
  <2>. SUFFICES ASSUME applying' # NotApplying
                PROVE  /\ \A a \in Cohort : mode'[a] = "held_shadow"
                       /\ \A q \in Seen' : row'[q].status = "held_shadow"
    BY DEF SeenHeld
  <2>1. applying' = applying /\ mode' = mode /\ \A a \in Cohort : mode[a] = "held_shadow"
    BY DEF Activate, adminVars, Types, SeenHeld
  <2>2. ASSUME NEW q \in Seen' PROVE row'[q].status = "held_shadow"
    <3>1. q \in Rows /\ q[1] \in Cohort /\ q[2] <= applying.seen[q[1]]
      BY <2>1 DEF Seen, CohortRows
    <3>2. CASE q = r
      <4>1. mode[c] = "held_shadow"
        BY <2>1, <3>1, <3>2
      <4>2. row'[r] = [NoRow EXCEPT !.status = ProjectAs(c), !.early = early, !.date = date]
        BY <1>2, <1>3 DEF Types, RowsTyped
      <4>. QED BY <3>2, <4>1, <4>2 DEF ProjectAs, NoRow
    <3>3. CASE q # r
      <4>1. row'[q] = row[q] /\ row'[q].status # "none"
        BY <1>5, <3>1, <3>3 DEF Seen, CohortRows
      <4>2. q \in Seen
        BY <3>1, <4>1 DEF Seen, CohortRows
      <4>. QED BY <2>1, <4>1, <4>2 DEF Types, SeenHeld
    <3>. QED BY <3>2, <3>3
  <2>. QED BY <2>1, <2>2
<1>. QED BY <1>7, <1>8, <1>9 DEF Types

\* The steps that only change rows and projectors keep the types when the rows they
\* touch exist before and after.
LEMMA RowStep ==
  ASSUME Types,
         row' \in [Rows -> RowType],
         \A r \in Rows : row'[r] # row[r] =>
           /\ row[r].status \notin {"none", "held_shadow"} /\ row'[r].status # "none"
           /\ row'[r].status = "leased" <=> row'[r].owner # Nobody
           /\ row'[r].lapsed => row'[r].status = "leased"
           /\ row'[r].released => r[1] \in Cohort,
         version' = version, mode' = mode, applying' = applying
  PROVE  RowsTyped' /\ ReleasedTyped' /\ SeenHeld'
<1>1. RowsTyped' /\ ReleasedTyped'
  BY DEF Types, RowsTyped, ReleasedTyped
<1>2. CASE applying = NotApplying
  BY <1>1, <1>2 DEF SeenHeld
<1>3. ASSUME applying # NotApplying
      PROVE  \A r \in Seen' : r \in Seen /\ row'[r] = row[r]
  <2>. SUFFICES ASSUME NEW r \in Seen' PROVE r \in Seen /\ row'[r] = row[r]
    OBVIOUS
  <2>1. r \in Rows /\ r[1] \in Cohort /\ row'[r].status # "none" /\ r[2] <= applying.seen[r[1]]
    BY DEF Seen, CohortRows
  <2>2. row[r].status # "none"
    BY <2>1
  <2>3. r \in Seen
    BY <2>1, <2>2 DEF Seen, CohortRows
  <2>. QED BY <1>3, <2>1, <2>3 DEF Types, SeenHeld
<1>4. CASE applying # NotApplying
  BY <1>1, <1>3, <1>4 DEF Types, SeenHeld
<1>. QED BY <1>2, <1>4

\* A transaction that rolls back stays one when rows are written.
LEMMA AfterWritingTyped ==
  ASSUME Types, NEW rows
  PROVE  /\ AfterWriting(rows) \in [begun : BOOLEAN, restores : BOOLEAN, overtaken : BOOLEAN]
         /\ AfterWriting(rows) \in {rolling, [rolling EXCEPT !.overtaken = TRUE]}
<1>1. rolling \in [begun : BOOLEAN, restores : BOOLEAN, overtaken : BOOLEAN]
  BY DEF Types, CutoverTyped
<1>. QED BY <1>1 DEF AfterWriting

LEMMA ClaimTypes ==
  ASSUME Types, NEW w \in Workers, NEW chosen \in SUBSET Claimable, Claim(w, chosen)
  PROVE  Types'
<1>1. \A r \in Claimable : r \in Rows /\ row[r].status \notin {"none", "held_shadow"}
  BY DEF Claimable, Types, RowsTyped
<1>2. \A r \in Rows : row'[r] =
        IF r \in chosen
        THEN [row[r] EXCEPT !.status = "leased", !.attempts = @ + 1, !.owner = w, !.lapsed = FALSE]
        ELSE row[r]
  BY DEF Claim
<1>3. \A r \in Rows : row[r] \in RowType
  BY DEF Types, RowsTyped
<1>4. \A r \in Rows : row'[r] \in RowType
  <2>. SUFFICES ASSUME NEW r \in Rows PROVE row'[r] \in RowType
    OBVIOUS
  <2>1. [row[r] EXCEPT !.status = "leased", !.attempts = @ + 1, !.owner = w, !.lapsed = FALSE]
          \in RowType
    BY <1>3, RowUpdate DEF Statuses
  <2>. QED BY <1>2, <1>3, <2>1
<1>5. row' \in [Rows -> RowType]
  BY <1>4 DEF Claim
<1>6. \A r \in chosen : row'[r].status = "leased" /\ row'[r].owner = w /\ ~row'[r].lapsed
                         /\ row'[r].released = row[r].released
  BY <1>1, <1>2, <1>3 DEF RowType
<1>7. RowsTyped' /\ ReleasedTyped' /\ SeenHeld'
  <2>1. \A r \in Rows : row'[r] # row[r] =>
           /\ row[r].status \notin {"none", "held_shadow"} /\ row'[r].status # "none"
           /\ row'[r].status = "leased" <=> row'[r].owner # Nobody
           /\ row'[r].lapsed => row'[r].status = "leased"
           /\ row'[r].released => r[1] \in Cohort
    BY <1>1, <1>2, <1>6, ProjectionAssumption DEF Types, ReleasedTyped
  <2>. QED BY <1>5, <2>1, RowStep DEF Claim
<1>8. Others' /\ ReleasesTyped' /\ CutoverTyped'
  BY <1>1, AfterWritingTyped DEF Types, Others, ReleasesTyped, CutoverTyped, Claim, searchVars
<1>. QED BY <1>7, <1>8 DEF Types

LEMMA LapseTypes ==
  ASSUME Types, NEW r \in Rows, LeaseLapses(r)
  PROVE  Types'
<1>1. \A q \in Rows : row'[q] = IF q = r THEN [row[q] EXCEPT !.lapsed = TRUE] ELSE row[q]
  BY DEF LeaseLapses, Types, RowsTyped
<1>2. \A q \in Rows : row[q] \in RowType
  BY DEF Types, RowsTyped
<1>3. row' \in [Rows -> RowType]
  BY <1>1, <1>2 DEF RowType, LeaseLapses, Types, RowsTyped
<1>4. RowsTyped' /\ ReleasedTyped' /\ SeenHeld'
  <2>1. /\ row'[r].status = "leased" /\ row[r].status = "leased"
        /\ row'[r].owner = row[r].owner /\ row'[r].released = row[r].released
    BY <1>1, <1>2 DEF RowType, LeaseLapses
  <2>. QED BY <1>1, <1>3, <2>1, RowStep
         DEF LeaseLapses, adminVars, Types, RowsTyped, ReleasedTyped
<1>5. Others' /\ ReleasesTyped' /\ CutoverTyped'
  BY DEF Types, Others, ReleasesTyped, CutoverTyped, LeaseLapses, adminVars, searchVars
<1>. QED BY <1>4, <1>5 DEF Types

LEMMA RetryTypes ==
  ASSUME Types, NEW w \in Workers, Retry(w)
  PROVE  Types'
<1>. DEFINE gone == {r \in projector[w].claimed : Holds(w, r)}
<1>1. \A r \in Rows : row'[r] =
        IF r \in gone
        THEN [row[r] EXCEPT
                !.status = IF row[r].attempts >= MaxAttempts THEN "dead_letter" ELSE "retry_wait",
                !.owner = Nobody, !.lapsed = FALSE]
        ELSE row[r]
  BY DEF Retry
<1>2. \A r \in Rows : row[r] \in RowType
  BY DEF Types, RowsTyped
<1>3. row' \in [Rows -> RowType]
  <2>1. ASSUME NEW r \in Rows, NEW s \in {"dead_letter", "retry_wait"}
        PROVE  [row[r] EXCEPT !.status = s, !.owner = Nobody, !.lapsed = FALSE] \in RowType
    BY <1>2, RowUpdate DEF Statuses
  <2>2. \A r \in Rows : row'[r] \in RowType
    BY <1>1, <1>2, <2>1
  <2>. QED BY <2>2 DEF Retry
<1>4. gone \subseteq Rows
  BY DEF Types, Others
<1>5. \A r \in gone :
        /\ row'[r].status \in {"dead_letter", "retry_wait"} /\ row[r].status = "leased"
        /\ row'[r].owner = Nobody /\ ~row'[r].lapsed /\ row'[r].released = row[r].released
  <2>. SUFFICES ASSUME NEW r \in gone
                PROVE  /\ row'[r].status \in {"dead_letter", "retry_wait"}
                       /\ row[r].status = "leased"
                       /\ row'[r].owner = Nobody /\ ~row'[r].lapsed
                       /\ row'[r].released = row[r].released
    OBVIOUS
  <2>1. r \in Rows /\ row[r] \in RowType /\ row[r].status = "leased"
    BY <1>2, <1>4 DEF Holds
  <2>2. PICK s \in {"dead_letter", "retry_wait"} :
          row'[r] = [row[r] EXCEPT !.status = s, !.owner = Nobody, !.lapsed = FALSE]
    BY <1>1, <2>1
  <2>. QED BY <2>1, <2>2 DEF RowType
<1>6. RowsTyped' /\ ReleasedTyped' /\ SeenHeld'
  BY <1>1, <1>3, <1>4, <1>5, RowStep DEF Retry, Types, ReleasedTyped
<1>7. Others' /\ ReleasesTyped' /\ CutoverTyped'
  BY AfterWritingTyped DEF Types, Others, ReleasesTyped, CutoverTyped, Retry, searchVars, Idle
<1>. QED BY <1>6, <1>7 DEF Types

LEMMA ProjectorTypes ==
  ASSUME Types, NEW w \in Workers, ProjectFails(w) \/ ProjectorCrash(w)
  PROVE  Types'
<1>1. UNCHANGED <<version, row, adminVars, searchVars>>
  BY DEF ProjectFails, ProjectorCrash
<1>2. projector' \in [Workers -> [claimed : SUBSET Rows, failed : BOOLEAN]]
  <2>1. [projector[w] EXCEPT !.failed = TRUE] \in [claimed : SUBSET Rows, failed : BOOLEAN]
    BY DEF Types, Others
  <2>2. Idle \in [claimed : SUBSET Rows, failed : BOOLEAN]
    BY DEF Idle
  <2>3. projector' = [projector EXCEPT ![w] = [projector[w] EXCEPT !.failed = TRUE]]
        \/ projector' = [projector EXCEPT ![w] = Idle]
    BY DEF ProjectFails, ProjectorCrash
  <2>. QED BY <2>1, <2>2, <2>3 DEF Types, Others
<1>3. Others' /\ ReleasesTyped' /\ CutoverTyped'
  BY <1>1, <1>2 DEF Types, Others, ReleasesTyped, CutoverTyped, adminVars, searchVars
<1>4. RowsTyped' /\ ReleasedTyped' /\ SeenHeld'
  BY <1>1 DEF Types, RowsTyped, ReleasedTyped, SeenHeld, Seen, CohortRows, adminVars
<1>. QED BY <1>3, <1>4 DEF Types

LEMMA CutoverTypes ==
  ASSUME Types, BeginCutover \/ AbandonCutover \/ BeginRollback \/ AbandonRollback
  PROVE  Types'
<1>1. UNCHANGED <<version, row, projector, mode, cutover, active, releases, live>>
  BY DEF BeginCutover, AbandonCutover, BeginRollback, AbandonRollback, searchVars
<1>2. /\ applying'.active \in DOMAIN releases'
      /\ rolling' \in [begun : BOOLEAN, restores : BOOLEAN, overtaken : BOOLEAN]
  <2>1. CASE BeginCutover \/ AbandonCutover
    BY <1>1, <2>1
       DEF Types, CutoverTyped, ReleasesTyped, Others, BeginCutover, AbandonCutover, NotApplying
  <2>2. CASE BeginRollback \/ AbandonRollback
    <3>1. applying' = applying /\ releases' = releases
      BY <1>1, <2>2 DEF BeginRollback, AbandonRollback
    <3>2. rolling' \in [begun : BOOLEAN, restores : BOOLEAN, overtaken : BOOLEAN]
      <4>1. (active # cutover.previous) \in BOOLEAN
        OBVIOUS
      <4>2. \A b \in BOOLEAN : [begun |-> TRUE, restores |-> b, overtaken |-> FALSE]
                                 \in [begun : BOOLEAN, restores : BOOLEAN, overtaken : BOOLEAN]
        OBVIOUS
      <4>3. CASE BeginRollback
        BY <4>1, <4>2, <4>3, Zenon DEF BeginRollback
      <4>4. CASE AbandonRollback
        BY <4>4 DEF AbandonRollback, NotRolling
      <4>. QED BY <2>2, <4>3, <4>4
    <3>. QED BY <3>1, <3>2 DEF Types, CutoverTyped
  <2>. QED BY <2>1, <2>2
<1>3. RowsTyped' /\ ReleasedTyped' /\ Others' /\ ReleasesTyped' /\ CutoverTyped'
  BY <1>1, <1>2 DEF Types, RowsTyped, ReleasedTyped, Others, ReleasesTyped, CutoverTyped
<1>4. SeenHeld'
  <2>1. CASE BeginCutover \/ AbandonCutover
    BY <2>1 DEF SeenHeld, Seen, CohortRows, BeginCutover, AbandonCutover
  <2>2. CASE BeginRollback \/ AbandonRollback
    BY <2>2 DEF Types, SeenHeld, Seen, CohortRows, BeginRollback, AbandonRollback
  <2>. QED BY <2>1, <2>2
<1>. QED BY <1>3, <1>4 DEF Types

LEMMA ApplyTypes ==
  ASSUME Types, ApplyCutover
  PROVE  Types'
<1>1. \A r \in Rows : row'[r] =
        IF r \in Seen THEN [row[r] EXCEPT !.status = "pending", !.released = TRUE] ELSE row[r]
  BY DEF ApplyCutover
<1>2. \A r \in Rows : row[r] \in RowType
  BY DEF Types, RowsTyped
<1>3. \A r \in Seen : r \in Rows /\ r[1] \in Cohort /\ row[r].status = "held_shadow"
  BY DEF Seen, CohortRows, ApplyCutover, Types, SeenHeld
<1>4. row' \in [Rows -> RowType]
  <2>1. \A r \in Rows : [row[r] EXCEPT !.status = "pending", !.released = TRUE] \in RowType
    BY <1>2, RowUpdate DEF Statuses
  <2>2. \A r \in Rows : row'[r] \in RowType
    BY <1>1, <1>2, <2>1
  <2>. QED BY <2>2 DEF ApplyCutover
<1>5. \A r \in Seen : /\ row'[r].status = "pending" /\ row'[r].owner = row[r].owner
                      /\ row'[r].lapsed = row[r].lapsed
  <2>. SUFFICES ASSUME NEW r \in Seen
                PROVE  /\ row'[r].status = "pending" /\ row'[r].owner = row[r].owner
                       /\ row'[r].lapsed = row[r].lapsed
    OBVIOUS
  <2>1. row'[r] = [row[r] EXCEPT !.status = "pending", !.released = TRUE]
    BY <1>1, <1>3
  <2>. QED BY <1>2, <1>3, <2>1 DEF RowType
<1>6. RowsTyped' /\ ReleasedTyped'
  BY <1>1, <1>3, <1>4, <1>5 DEF ApplyCutover, Types, RowsTyped, ReleasedTyped
<1>7. Others' /\ ReleasesTyped' /\ SeenHeld'
  BY DEF Types, Others, ReleasesTyped, ApplyCutover, searchVars, SeenHeld
<1>8. CutoverTyped'
  <2>1. /\ cutover' = [status |-> "applied", previous |-> applying.active, last |-> NoBatch,
                       number |-> cutover.number + 1]
        /\ releases' = releases /\ applying' = NotApplying /\ rolling' = rolling
    BY DEF ApplyCutover, searchVars
  <2>2. NoBatch \in DOMAIN releases /\ applying.active \in DOMAIN releases
        /\ rolling \in [begun : BOOLEAN, restores : BOOLEAN, overtaken : BOOLEAN]
        /\ cutover.number \in Nat
    BY DEF Types, ReleasesTyped, CutoverTyped
  <2>3. NotApplying.active = NoBatch
    BY DEF NotApplying
  <2>. QED BY <2>1, <2>2, <2>3 DEF CutoverTyped
<1>. QED BY <1>6, <1>7, <1>8 DEF Types

LEMMA RollBackTypes ==
  ASSUME Types, RollBack
  PROVE  Types'
<1>. DEFINE Back(r) ==
       [NoRow EXCEPT !.status = "held_shadow", !.released = TRUE, !.date = row[r].date]
<1>1. \A r \in Rows : row'[r] = IF row[r].released THEN Back(r) ELSE row[r]
  BY DEF RollBack
<1>2. \A r \in Rows : /\ Back(r) \in RowType /\ Back(r).status = "held_shadow"
                      /\ Back(r).owner = Nobody /\ ~Back(r).lapsed /\ Back(r).released
  BY DEF NoRow, RowType, Statuses, Types, RowsTyped
<1>3. row' \in [Rows -> RowType]
  <2>1. \A r \in Rows : row'[r] \in RowType
    BY <1>1, <1>2 DEF Types, RowsTyped
  <2>. QED BY <2>1 DEF RollBack
<1>4. RowsTyped' /\ ReleasedTyped'
  BY <1>1, <1>2, <1>3 DEF RollBack, Types, RowsTyped, ReleasedTyped
<1>5. cutover.previous \in DOMAIN releases
  BY DEF Types, CutoverTyped
<1>6. active' \in DOMAIN releases /\ live' \in [Channels -> Versions] /\ releases' = releases
  BY <1>5 DEF Types, Others, ReleasesTyped, RollBack
<1>7. /\ applying'.active \in DOMAIN releases'
      /\ rolling' \in [begun : BOOLEAN, restores : BOOLEAN, overtaken : BOOLEAN]
  BY DEF Types, CutoverTyped, ReleasesTyped, RollBack, NotRolling
<1>8. Others' /\ ReleasesTyped' /\ CutoverTyped'
  BY <1>6, <1>7 DEF Types, Others, ReleasesTyped, CutoverTyped, RollBack
<1>9. SeenHeld'
  <2>. SUFFICES ASSUME applying # NotApplying
                PROVE  /\ \A c \in Cohort : mode'[c] = "held_shadow"
                       /\ \A r \in Seen' : row'[r].status = "held_shadow"
    BY DEF SeenHeld, RollBack
  <2>1. \A r \in Seen' : r \in Rows /\ (row[r].released \/ r \in Seen)
    BY <1>1 DEF Seen, CohortRows, RollBack
  <2>2. \A c \in Cohort : mode'[c] = "held_shadow"
    BY ProjectionAssumption DEF RollBack
  <2>3. ASSUME NEW r \in Seen' PROVE row'[r].status = "held_shadow"
    <3>1. CASE row[r].released
      BY <1>1, <1>2, <2>1, <3>1
    <3>2. CASE ~row[r].released
      <4>1. row'[r] = row[r] /\ r \in Seen
        BY <1>1, <2>1, <3>2
      <4>. QED BY <4>1 DEF Types, SeenHeld
    <3>. QED BY <3>1, <3>2
  <2>. QED BY <2>2, <2>3
<1>. QED BY <1>4, <1>8, <1>9 DEF Types

\* What Project does to the rows it is about, the search and the releases.
LEMMA ProjectRows ==
  ASSUME Types, NEW w \in Workers, Project(w)
  PROVE  /\ Targets(w) \subseteq Rows /\ Uncovered(w) \subseteq Targets(w)
         /\ \A r \in Targets(w) : row[r].status \notin {"none", "held_shadow"}
         /\ row' \in [Rows -> RowType]
         /\ \A r \in Rows \ Targets(w) : row'[r] = row[r]
         /\ \A r \in Targets(w) :
              /\ row'[r].status = "delivered" /\ row'[r].owner = Nobody
              /\ ~row'[r].lapsed /\ row'[r].released = row[r].released
<1>1. Targets(w) \subseteq Rows /\ Uncovered(w) \subseteq Targets(w)
  BY DEF Targets, Uncovered
<1>2. \A r \in Targets(w) : row[r].status \notin {"none", "held_shadow"}
  BY DEF Targets, Open
<1>3. \A r \in Rows : row'[r] =
        IF r \in Targets(w)
        THEN [row[r] EXCEPT !.status = "delivered", !.owner = Nobody, !.lapsed = FALSE]
        ELSE row[r]
  BY DEF Project
<1>4. \A r \in Rows : row[r] \in RowType
  BY DEF Types, RowsTyped
<1>5. row' \in [Rows -> RowType]
  <2>1. \A r \in Rows :
          [row[r] EXCEPT !.status = "delivered", !.owner = Nobody, !.lapsed = FALSE] \in RowType
    BY <1>4, RowUpdate DEF Statuses
  <2>2. \A r \in Rows : row'[r] \in RowType
    BY <1>3, <1>4, <2>1
  <2>. QED BY <2>2 DEF Project
<1>6. \A r \in Targets(w) :
        /\ row'[r].status = "delivered" /\ row'[r].owner = Nobody
        /\ ~row'[r].lapsed /\ row'[r].released = row[r].released
  BY <1>1, <1>3, <1>4 DEF RowType
<1>. QED BY <1>1, <1>2, <1>3, <1>5, <1>6

LEMMA ProjectSearch ==
  ASSUME Types, NEW w \in Workers, Project(w)
  PROVE  /\ DOMAIN releases \subseteq DOMAIN releases'
         /\ \A b \in DOMAIN releases : releases'[b] = releases[b]
         /\ \/ /\ Uncovered(w) = {}
               /\ active' = active /\ live' = live /\ DOMAIN releases' = DOMAIN releases
            \/ /\ Uncovered(w) # {}
               /\ active' = Batch(Uncovered(w)) /\ live' = Shown(active')
               /\ active' \in DOMAIN releases => Replays(active')
               /\ active' \notin DOMAIN releases =>
                    releases'[active'] = [previous |-> active, live |-> live']
               /\ DOMAIN releases' = DOMAIN releases \cup {active'}
<1>. DEFINE batch == IF Uncovered(w) = {} THEN active ELSE Batch(Uncovered(w))
<1>1. active' = batch
  BY DEF Project
<1>2. live' = IF Uncovered(w) = {} THEN live ELSE Shown(batch)
  BY DEF Project
<1>3. releases' =
          IF batch \in DOMAIN releases THEN releases
          ELSE [b \in DOMAIN releases \cup {batch} |->
                  IF b = batch THEN [previous |-> active, live |-> live'] ELSE releases[b]]
  BY DEF Project
<1>4. active \in DOMAIN releases
  BY DEF Types, Others
<1>5. Uncovered(w) # {} /\ batch \in DOMAIN releases => Replays(batch)
  BY DEF Project, CanProject
<1>. HIDE DEF batch
<1>6. DOMAIN releases \subseteq DOMAIN releases' /\ DOMAIN releases' = DOMAIN releases \cup {batch}
  BY <1>3
<1>7. \A b \in DOMAIN releases : releases'[b] = releases[b]
  BY <1>3
<1>8. batch \notin DOMAIN releases => releases'[batch] = [previous |-> active, live |-> live']
  BY <1>3
<1>9. CASE Uncovered(w) = {}
  <2>1. batch = active
    BY <1>9 DEF batch
  <2>. QED BY <1>1, <1>2, <1>4, <1>6, <1>7, <1>9, <2>1
<1>10. CASE Uncovered(w) # {}
  <2>1. batch = Batch(Uncovered(w))
    BY <1>10 DEF batch
  <2>. QED BY <1>1, <1>2, <1>5, <1>6, <1>7, <1>8, <1>10, <2>1
<1>. QED BY <1>9, <1>10

LEMMA ProjectTypes ==
  ASSUME Types, NEW w \in Workers, Project(w)
  PROVE  Types'
<1>1. RowsTyped' /\ ReleasedTyped' /\ SeenHeld'
  <2>1. \A r \in Rows : row'[r] # row[r] =>
           /\ row[r].status \notin {"none", "held_shadow"} /\ row'[r].status # "none"
           /\ row'[r].status = "leased" <=> row'[r].owner # Nobody
           /\ row'[r].lapsed => row'[r].status = "leased"
           /\ row'[r].released => r[1] \in Cohort
    BY ProjectRows DEF Types, ReleasedTyped
  <2>. QED BY <2>1, ProjectRows, RowStep DEF Project
<1>2. live' \in [Channels -> Versions]
  <2>1. live \in [Channels -> Versions]
    BY DEF Types, Others
  <2>2. CASE Uncovered(w) = {}
    BY <2>1, <2>2, ProjectSearch
  <2>3. CASE Uncovered(w) # {}
    <3>1. \A c \in DOMAIN active' : active'[c] \in Versions
      <4>1. Uncovered(w) \in SUBSET Rows /\ active' = Batch(Uncovered(w))
        BY <2>3, ProjectRows, ProjectSearch
      <4>2. \A c \in DOMAIN active' : active'[c] \in 1 .. MaxVersion
        BY <4>1, BatchParts
      <4>. QED BY <4>2, ProjectionAssumption DEF Versions
    <3>2. live' = Shown(active')
      BY <2>3, ProjectSearch
    <3>. QED BY <2>1, <3>1, <3>2 DEF Shown
  <2>. QED BY <2>2, <2>3
<1>3. active' \in DOMAIN releases' /\ DOMAIN releases \subseteq DOMAIN releases'
  BY ProjectSearch DEF Types, Others
<1>4. ReleasesTyped'
  <2>. SUFFICES ASSUME NEW b \in DOMAIN releases'
                PROVE  releases'[b].previous \in DOMAIN releases'
                       /\ releases'[b].live \in [Channels -> Versions]
    BY <1>3 DEF ReleasesTyped, Types, Others, NoBatch
  <2>1. CASE b \in DOMAIN releases
    BY <2>1, <1>3, ProjectSearch DEF Types, ReleasesTyped
  <2>2. CASE b \notin DOMAIN releases
    <3>1. releases'[b] = [previous |-> active, live |-> live']
      BY <2>2, ProjectSearch
    <3>. QED BY <3>1, <1>2, <1>3 DEF Types, Others
  <2>. QED BY <2>1, <2>2
<1>5. Others'
  BY <1>2, <1>3 DEF Types, Others, Project, Idle
<1>6. CutoverTyped'
  <2>1. cutover' = cutover \/ cutover' = [cutover EXCEPT !.last = active']
    BY DEF Project
  <2>2. rolling' \in [begun : BOOLEAN, restores : BOOLEAN, overtaken : BOOLEAN]
    BY AfterWritingTyped DEF Types, CutoverTyped, Project
  <2>. QED BY <1>3, <2>1, <2>2 DEF Types, CutoverTyped, Project
<1>. QED BY <1>1, <1>4, <1>5, <1>6 DEF Types

LEMMA TypesStep == Types /\ [Next]_vars => Types'
<1>. SUFFICES ASSUME Types, [Next]_vars PROVE Types'
  OBVIOUS
<1>1. ASSUME NEW c \in Channels, NEW date \in 1 .. MaxVersion, NEW early \in BOOLEAN,
         Activate(c, date, early) PROVE Types'
  BY <1>1, ActivateTypes
<1>2. ASSUME NEW w \in Workers, ClaimSome(w) PROVE Types'
  BY <1>2, ClaimTypes DEF ClaimSome
<1>3. ASSUME NEW w \in Workers, Project(w) PROVE Types'
  BY <1>3, ProjectTypes
<1>4. ASSUME NEW w \in Workers, ProjectFails(w) \/ ProjectorCrash(w) PROVE Types'
  BY <1>4, ProjectorTypes
<1>5. ASSUME NEW w \in Workers, Retry(w) PROVE Types'
  BY <1>5, RetryTypes
<1>6. ASSUME NEW r \in Rows, LeaseLapses(r) PROVE Types'
  BY <1>6, LapseTypes
<1>7. CASE BeginCutover \/ AbandonCutover \/ BeginRollback \/ AbandonRollback
  BY <1>7, CutoverTypes
<1>8. CASE ApplyCutover
  BY <1>8, ApplyTypes
<1>9. CASE RollBack
  BY <1>9, RollBackTypes
<1>10. CASE UNCHANGED vars
  BY <1>10 DEF vars, adminVars, searchVars, Types, RowsTyped, ReleasedTyped, Others, ReleasesTyped,
       CutoverTyped, SeenHeld, Seen, CohortRows
<1>. QED BY <1>1, <1>2, <1>3, <1>4, <1>5, <1>6, <1>7, <1>8, <1>9, <1>10 DEF Next

\* The type invariant of the projection holds in every reachable state, whatever the
\* number of channels, projectors and versions: businessPublicationProjector.js leases a row
\* exactly while it names an owner, and every release it can go back to is known.
THEOREM TypeCorrect == Spec => []TypeOK
<1>. QED BY InitTypes, TypesStep, TypesSuffice, PTL DEF Spec

-----------------------------------------------------------------------------
(* The search and the releases.                                            *)

\* A release shows its batch on top of what the one before it shows; the active one
\* is what the search shows.
Chained ==
  /\ live = releases[active].live
  /\ \A b \in DOMAIN releases : b # NoBatch =>
       \A c \in Channels : releases[b].live[c] =
         IF c \in DOMAIN b THEN b[c] ELSE releases[releases[b].previous].live[c]

LEMMA ProjectChained ==
  ASSUME Types, Chained, NEW w \in Workers, Project(w)
  PROVE  Chained'
<1>1. active \in DOMAIN releases /\ live \in [Channels -> Versions]
  BY DEF Types, Others
<1>2. \A b \in DOMAIN releases : b \in DOMAIN releases' /\ releases'[b] = releases[b]
  BY ProjectSearch
<1>3. \A b \in DOMAIN releases :
        releases[b].previous \in DOMAIN releases /\ releases[b].live \in [Channels -> Versions]
  BY DEF Types, ReleasesTyped
<1>4. CASE Uncovered(w) = {}
  <2>1. active' = active /\ live' = live /\ DOMAIN releases' = DOMAIN releases
    BY <1>4, ProjectSearch
  <2>. QED BY <1>1, <1>2, <1>3, <2>1 DEF Chained
<1>5. CASE Uncovered(w) # {}
  <2>1. /\ active' = Batch(Uncovered(w)) /\ live' = Shown(active')
        /\ active' \in DOMAIN releases => Replays(active')
        /\ active' \notin DOMAIN releases =>
             releases'[active'] = [previous |-> active, live |-> live']
        /\ DOMAIN releases' = DOMAIN releases \cup {active'}
    BY <1>5, ProjectSearch
  <2>2. active' # NoBatch
    BY <1>5, <2>1, ProjectRows, BatchParts
  <2>3. \A c \in Channels : live'[c] = IF c \in DOMAIN active' THEN active'[c] ELSE live[c]
    BY <2>1 DEF Shown
  <2>4. CASE active' \in DOMAIN releases
    <3>1. releases[active'].previous = active
      BY <2>1, <2>4 DEF Replays
    <3>2. \A c \in Channels : releases[active'].live[c] = live'[c]
      BY <2>2, <2>3, <2>4, <3>1 DEF Chained
    <3>3. releases[active'].live \in [Channels -> Versions] /\ live' = [c \in Channels |-> live'[c]]
      BY <1>3, <2>1, <2>4 DEF Shown
    <3>4. live' = releases'[active'].live
      BY <1>2, <2>4, <3>2, <3>3
    <3>5. DOMAIN releases' = DOMAIN releases
      BY <2>1, <2>4
    <3>. QED BY <1>2, <1>3, <3>4, <3>5 DEF Chained
  <2>5. CASE active' \notin DOMAIN releases
    <3>1. releases'[active'].previous = active /\ releases'[active'].live = live'
      BY <2>1, <2>5
    <3>2. ASSUME NEW b \in DOMAIN releases', b # NoBatch, NEW c \in Channels
          PROVE  releases'[b].live[c] =
                   IF c \in DOMAIN b THEN b[c] ELSE releases'[releases'[b].previous].live[c]
      <4>1. CASE b = active'
        BY <1>1, <1>2, <2>3, <3>1, <4>1 DEF Chained
      <4>2. CASE b # active'
        <5>1. b \in DOMAIN releases
          BY <2>1, <4>2
        <5>. QED BY <1>2, <1>3, <3>2, <5>1 DEF Chained
      <4>. QED BY <4>1, <4>2
    <3>. QED BY <3>1, <3>2 DEF Chained
  <2>. QED BY <2>4, <2>5
<1>. QED BY <1>4, <1>5

LEMMA ChainedInit == Init => Chained
BY DEF Init, Chained

LEMMA ChainedStep == Types /\ Chained /\ [Next]_vars => Chained'
<1>. SUFFICES ASSUME Types, Chained, [Next]_vars PROVE Chained'
  OBVIOUS
<1>1. ASSUME NEW w \in Workers, Project(w) PROVE Chained'
  BY <1>1, ProjectChained
<1>2. CASE RollBack
  <2>1. /\ releases' = releases
        /\ \/ active' = cutover.previous /\ live' = releases[cutover.previous].live
           \/ active' = active /\ live' = live
    BY <1>2 DEF RollBack
  <2>. QED BY <2>1 DEF Chained
<1>3. CASE UNCHANGED searchVars
  BY <1>3 DEF searchVars, Chained
<1>4. CASE UNCHANGED vars
  BY <1>3, <1>4 DEF vars
<1>5. ASSUME NEW c \in Channels, NEW date \in 1 .. MaxVersion, NEW early \in BOOLEAN,
         Activate(c, date, early)
      PROVE  UNCHANGED searchVars
  BY <1>5 DEF Activate
<1>6. ASSUME NEW w \in Workers, ClaimSome(w) \/ ProjectFails(w) \/ Retry(w) \/ ProjectorCrash(w)
      PROVE  UNCHANGED searchVars
  BY <1>6 DEF ClaimSome, Claim, ProjectFails, Retry, ProjectorCrash
<1>7. ASSUME NEW r \in Rows, LeaseLapses(r) PROVE UNCHANGED searchVars
  BY <1>7 DEF LeaseLapses
<1>8. CASE BeginCutover \/ ApplyCutover \/ AbandonCutover \/ BeginRollback \/ AbandonRollback
  BY <1>3, <1>8 DEF BeginCutover, ApplyCutover, AbandonCutover, BeginRollback, AbandonRollback
<1>. QED BY <1>1, <1>2, <1>3, <1>4, <1>5, <1>6, <1>7, <1>8 DEF Next

\* The search shows what the active release showed when it was published first: a release is
\* only made active again on top of the release it followed then (reusablePublishedBatch),
\* and a rollback restores the release before the cutover.
THEOREM SearchIsRelease == Spec => []SearchMatchesRelease
<1>1. Chained => SearchMatchesRelease
  BY DEF Chained, SearchMatchesRelease
<1>. QED BY <1>1, ChainedInit, ChainedStep, InitTypes, TypesStep, PTL DEF Spec

-----------------------------------------------------------------------------
(* Rows and the projection mode, when no activation overlaps a cutover or  *)
(* a rollback.                                                             *)

\* While a rollback runs, the cohort has no row but the released ones.
RollingRows ==
  rolling.begun =>
    /\ cutover.status = "applied" /\ applying = NotApplying
    /\ \A r \in CohortRows : row[r].released

\* Where the search need not be taken back it shows nothing of the cohort, unless a released
\* row has been written since: then the rollback cannot write it.
RollingSearch ==
  rolling.begun /\ ~rolling.restores /\ ~rolling.overtaken => \A c \in Cohort : live[c] = 0

\* What a cutover and a rollback rely on: the transaction has seen all of its cohort, no row is
\* dated before the cutover that it came after, and the release before the cutover shows
\* nothing of the cohort.
Modes ==
  /\ RowsFollowMode /\ RollingRows /\ RollingSearch
  /\ \A r \in Rows : ~row[r].early
  /\ \A c \in Channels \ Cohort : mode[c] = "online"
  /\ applying # NotApplying =>
       \A c \in Cohort : applying.seen[c] = version[c] /\ releases[applying.active].live[c] = 0
  /\ cutover.status = "applied" => \A c \in Cohort : releases[cutover.previous].live[c] = 0

\* Steps that hold and release no row.
LEMMA SameHeld ==
  ASSUME Types, Modes,
         \A r \in Rows : /\ row'[r].status = "held_shadow" <=> row[r].status = "held_shadow"
                         /\ row'[r].status = "none" <=> row[r].status = "none"
                         /\ ~row'[r].early /\ row'[r].released = row[r].released,
         \A c \in Channels : live'[c] # live[c] =>
           mode[c] = "online" /\ (c \in Cohort /\ rolling.begun => rolling'.overtaken),
         \A b \in DOMAIN releases : releases'[b] = releases[b],
         version' = version, mode' = mode,
         applying' \in {applying, NotApplying},
         rolling' \in {rolling, NotRolling, [rolling EXCEPT !.overtaken = TRUE]},
         cutover'.status = cutover.status, cutover'.previous = cutover.previous
  PROVE  Modes'
<1>1. version \in [Channels -> Versions] /\ MaxVersion \in Nat
  BY ProjectionAssumption DEF Types, Others
<1>2. \A c \in Channels : \A n \in 1 .. version[c] : <<c, n>> \in Rows
  BY <1>1, VersionRows
<1>3. RowsFollowMode'
  BY <1>2 DEF Modes, RowsFollowMode
<1>4. applying.active \in DOMAIN releases /\ cutover.previous \in DOMAIN releases
  BY DEF Types, CutoverTyped
<1>5. (applying # NotApplying =>
         \A c \in Cohort : applying.seen[c] = version[c] /\ releases[applying.active].live[c] = 0)'
  BY <1>4 DEF Modes
<1>6. (cutover.status = "applied" => \A c \in Cohort : releases[cutover.previous].live[c] = 0)'
  BY <1>4 DEF Modes
<1>7. /\ rolling'.begun => rolling.begun /\ rolling'.restores = rolling.restores
      /\ rolling'.begun /\ rolling.overtaken => rolling'.overtaken
  BY DEF Types, CutoverTyped, NotRolling
<1>8. RollingRows' /\ RollingSearch'
  BY <1>7, ProjectionAssumption DEF Modes, RollingRows, RollingSearch, CohortRows
<1>. QED BY <1>3, <1>5, <1>6, <1>7, <1>8 DEF Modes

LEMMA ActivateModes ==
  ASSUME Types, Modes, Overlap \subseteq {"activation"}, NEW c \in Channels,
         NEW date \in 1 .. MaxVersion, NEW early \in BOOLEAN, Activate(c, date, early)
  PROVE  Modes'
<1>. DEFINE r == <<c, version[c] + 1>>
<1>1. version \in [Channels -> Versions] /\ MaxVersion \in Nat /\ version[c] + 1 \in 1 .. MaxVersion
  BY ProjectionAssumption DEF Types, Others, Activate, Versions
<1>2. r \in Rows /\ version' = [version EXCEPT ![c] = @ + 1] /\ version'[c] = version[c] + 1
  BY <1>1, RowOf DEF Activate
<1>3. ~early /\ (c \in Cohort => applying = NotApplying /\ ~rolling.begun)
  BY DEF Activate
<1>4. row' = [row EXCEPT ![r] =
        [NoRow EXCEPT !.status = ProjectAs(c), !.early = early, !.date = date]]
      /\ row \in [Rows -> RowType]
  BY DEF Activate, Types, RowsTyped
<1>5. /\ row'[r].status = ProjectAs(c) /\ ~row'[r].early
      /\ \A q \in Rows : q # r => row'[q] = row[q]
  BY <1>2, <1>3, <1>4 DEF NoRow
<1>6. UNCHANGED <<mode, cutover, applying, rolling, live, releases>>
  BY DEF Activate, adminVars, searchVars
<1>7. RowsFollowMode'
  <2>. SUFFICES ASSUME NEW a \in Channels
                PROVE  IF mode[a] = "held_shadow"
                       THEN live[a] = 0 /\ \A n \in 1 .. version'[a] : row'[<<a, n>>].status = "held_shadow"
                       ELSE \A n \in 1 .. version'[a] : row'[<<a, n>>].status # "held_shadow"
    BY <1>6 DEF RowsFollowMode
  <2>1. mode[a] = "held_shadow" => live[a] = 0
    BY DEF Modes, RowsFollowMode
  <2>2. ASSUME NEW n \in 1 .. version'[a]
        PROVE  row'[<<a, n>>].status = "held_shadow" <=> mode[a] = "held_shadow"
    <3>1. CASE <<a, n>> = r
      BY <1>5, <3>1 DEF ProjectAs, Types, Others
    <3>2. CASE <<a, n>> # r
      <4>1. n \in 1 .. version[a] /\ <<a, n>> \in Rows
        <5>1. CASE a = c
          BY <1>1, <1>2, <3>2, <5>1, RowOf DEF Versions
        <5>2. CASE a # c
          BY <1>1, <1>2, <5>2, RowOf DEF Versions
        <5>. QED BY <5>1, <5>2
      <4>2. row'[<<a, n>>] = row[<<a, n>>]
        BY <1>5, <3>2, <4>1
      <4>. QED BY <4>1, <4>2 DEF Modes, RowsFollowMode
    <3>. QED BY <3>1, <3>2
  <2>. QED BY <2>1, <2>2
<1>8. \A q \in Rows : ~row'[q].early
  BY <1>2, <1>5 DEF Modes
<1>9. applying # NotApplying => \A a \in Cohort : version'[a] = version[a]
  BY <1>1, <1>2, <1>3, ProjectionAssumption
<1>10. RollingRows' /\ RollingSearch'
  <2>. SUFFICES ASSUME rolling.begun PROVE RollingRows' /\ RollingSearch'
    BY <1>6 DEF RollingRows, RollingSearch
  <2>1. \A q \in Rows : q[1] \in Cohort => row'[q] = row[q]
    BY <1>3, <1>5
  <2>2. CohortRows' = CohortRows /\ \A q \in CohortRows : row'[q] = row[q]
    BY <2>1 DEF CohortRows
  <2>. QED BY <1>6, <2>2 DEF Modes, RollingRows, RollingSearch
<1>. QED BY <1>6, <1>7, <1>8, <1>9, <1>10 DEF Modes

LEMMA ProjectModes ==
  ASSUME Types, Modes, NEW w \in Workers, Project(w)
  PROVE  Modes'
<1>1. \A r \in Rows : row'[r].early = row[r].early
  BY DEF Project, Types, RowsTyped, RowType
<1>2. \A r \in Rows : /\ row'[r].status = "held_shadow" <=> row[r].status = "held_shadow"
                      /\ row'[r].status = "none" <=> row[r].status = "none"
                      /\ row'[r].released = row[r].released
  BY ProjectRows
<1>3. ASSUME NEW c \in Channels, live'[c] # live[c]
      PROVE  mode[c] = "online" /\ (c \in Cohort /\ rolling.begun => rolling'.overtaken)
  <2>1. Uncovered(w) # {} /\ c \in DOMAIN active'
    BY <1>3, ProjectSearch DEF Shown
  <2>2. PICK r \in Uncovered(w) : r[1] = c
    <3>1. Uncovered(w) \in SUBSET Rows /\ active' = Batch(Uncovered(w))
      BY <2>1, ProjectSearch, ProjectRows
    <3>. QED BY <2>1, <3>1, BatchParts
  <2>3. r \in Targets(w) /\ r \in Rows
    BY ProjectRows
  <2>4. row[r].status # "none" /\ c \in ClaimedChannels(w)
    BY <2>2, <2>3 DEF Targets, Open
  <2>5. mode[c] = "online"
    BY <2>4 DEF Project, CanProject, Online
  <2>6. ASSUME c \in Cohort, rolling.begun PROVE rolling'.overtaken
    <3>1. row[r].released
      BY <2>2, <2>3, <2>4, <2>6 DEF Modes, RollingRows, CohortRows
    <3>2. AfterWriting(Targets(w)) = [rolling EXCEPT !.overtaken = TRUE]
      BY <2>3, <2>6, <3>1 DEF AfterWriting
    <3>3. rolling' = [rolling EXCEPT !.overtaken = TRUE]
      BY <3>2 DEF Project
    <3>. QED BY <3>3 DEF Types, CutoverTyped
  <2>. QED BY <2>5, <2>6
<1>4. \A b \in DOMAIN releases : releases'[b] = releases[b]
  BY ProjectSearch
<1>5. cutover'.status = cutover.status /\ cutover'.previous = cutover.previous
  BY DEF Project, Types, CutoverTyped
<1>6. rolling' \in {rolling, NotRolling, [rolling EXCEPT !.overtaken = TRUE]}
  BY AfterWritingTyped DEF Project
<1>. QED BY <1>1, <1>2, <1>3, <1>4, <1>5, <1>6, SameHeld DEF Project, Modes

LEMMA QueueModes ==
  ASSUME Types, Modes,
         NEW w \in Workers, ClaimSome(w) \/ Retry(w) \/ ProjectFails(w) \/ ProjectorCrash(w)
  PROVE  Modes'
<1>1. UNCHANGED <<version, mode, cutover, applying, searchVars>>
      /\ rolling' \in {rolling, [rolling EXCEPT !.overtaken = TRUE]}
  BY AfterWritingTyped DEF ClaimSome, Claim, Retry, ProjectFails, ProjectorCrash, adminVars
<1>2. \A r \in Rows :
        \/ row'[r] = row[r]
        \/ /\ row[r].status \notin {"held_shadow", "none"}
           /\ row'[r].status \in {"leased", "dead_letter", "retry_wait"}
           /\ row'[r].early = row[r].early /\ row'[r].released = row[r].released
  <2>1. CASE ClaimSome(w)
    <3>1. PICK chosen \in SUBSET Claimable : Claim(w, chosen)
      BY <2>1 DEF ClaimSome
    <3>2. \A r \in chosen : row[r].status \notin {"held_shadow", "none"}
      BY DEF Claimable, Types, RowsTyped
    <3>3. \A r \in Rows : r \in chosen =>
            row'[r].status = "leased" /\ row'[r].early = row[r].early /\ row'[r].released = row[r].released
      BY <3>1 DEF Claim, Types, RowsTyped, RowType
    <3>4. \A r \in Rows : r \notin chosen => row'[r] = row[r]
      BY <3>1 DEF Claim
    <3>. QED BY <3>2, <3>3, <3>4
  <2>2. CASE Retry(w)
    <3>1. \A r \in Rows : Holds(w, r) => row[r].status = "leased"
      BY DEF Holds
    <3>2. \A r \in Rows : \/ row'[r] = row[r]
                          \/ /\ Holds(w, r) /\ row'[r].early = row[r].early
                             /\ row'[r].released = row[r].released
                             /\ row'[r].status \in {"dead_letter", "retry_wait"}
      BY <2>2 DEF Retry, Types, RowsTyped, RowType
    <3>. QED BY <3>1, <3>2
  <2>3. CASE ProjectFails(w) \/ ProjectorCrash(w)
    BY <2>3 DEF ProjectFails, ProjectorCrash
  <2>. QED BY <2>1, <2>2, <2>3
<1>. QED BY <1>1, <1>2, SameHeld DEF Modes, searchVars

LEMMA LapseModes ==
  ASSUME Types, Modes, NEW r \in Rows, LeaseLapses(r)
  PROVE  Modes'
<1>1. \A q \in Rows : /\ row'[q].status = row[q].status /\ row'[q].early = row[q].early
                      /\ row'[q].released = row[q].released
  BY DEF LeaseLapses, Types, RowsTyped, RowType
<1>. QED BY <1>1, SameHeld DEF LeaseLapses, Modes, adminVars, searchVars

LEMMA BeginModes ==
  ASSUME Types, Chained, Modes, BeginCutover
  PROVE  Modes'
<1>1. \A c \in Cohort : live[c] = 0
  BY ProjectionAssumption DEF BeginCutover, Modes, RowsFollowMode
<1>2. applying'.seen = version /\ applying'.active = active
  BY DEF BeginCutover
<1>3. UNCHANGED <<version, row, mode, cutover, rolling, releases, live>> /\ ~rolling.begun
  BY DEF BeginCutover, searchVars
<1>4. RollingRows' /\ RollingSearch' /\ RowsFollowMode'
  BY <1>3 DEF RollingRows, RollingSearch, Modes, RowsFollowMode
<1>. QED BY <1>1, <1>2, <1>3, <1>4 DEF Chained, Modes

LEMMA AbandonModes ==
  ASSUME Types, Modes, AbandonCutover \/ AbandonRollback
  PROVE  Modes'
<1>1. UNCHANGED <<version, row, mode, cutover, searchVars>> /\ applying' \in {applying, NotApplying}
      /\ rolling' \in {rolling, NotRolling}
  BY DEF AbandonCutover, AbandonRollback
<1>. QED BY <1>1, SameHeld DEF Modes, searchVars

LEMMA BeginRollbackModes ==
  ASSUME Types, Chained, Modes, BeginRollback
  PROVE  Modes'
<1>1. UNCHANGED <<version, row, mode, cutover, applying, active, releases, live>>
  BY DEF BeginRollback, searchVars
<1>2. /\ cutover.status = "applied" /\ applying = NotApplying
      /\ rolling'.restores = (active # cutover.previous)
  BY DEF BeginRollback
<1>3. \A r \in CohortRows : row[r].released
  BY DEF BeginRollback, Newer, CohortRows, Modes
<1>4. RollingRows'
  BY <1>1, <1>2, <1>3 DEF RollingRows, CohortRows
<1>5. RollingSearch'
  <2>1. active = cutover.previous => \A c \in Cohort : live[c] = 0
    BY <1>2, ProjectionAssumption DEF Chained, Modes
  <2>. QED BY <1>1, <1>2, <2>1 DEF RollingSearch
<1>6. RowsFollowMode'
  BY <1>1 DEF Modes, RowsFollowMode
<1>. QED BY <1>1, <1>4, <1>5, <1>6 DEF Modes

LEMMA ApplyModes ==
  ASSUME Types, Modes, ApplyCutover
  PROVE  Modes'
<1>1. /\ \A c \in Cohort : applying.seen[c] = version[c] /\ releases[applying.active].live[c] = 0
      /\ \A c \in Channels \ Cohort : mode[c] = "online"
  BY DEF ApplyCutover, Modes
<1>2. /\ UNCHANGED <<version, live, releases, rolling>> /\ applying' = NotApplying
      /\ cutover'.previous = applying.active
      /\ \A c \in Channels : mode'[c] = "online"
  BY <1>1 DEF ApplyCutover, searchVars
<1>3. \A r \in Rows : row'[r] =
        IF r \in Seen THEN [row[r] EXCEPT !.status = "pending", !.released = TRUE] ELSE row[r]
  BY DEF ApplyCutover
<1>4. \A r \in Rows : row[r] \in RowType
  BY DEF Types, RowsTyped
<1>5. \A r \in Rows : ~row'[r].early
  BY <1>3, <1>4 DEF RowType, Modes
<1>6. ASSUME NEW c \in Channels, NEW n \in 1 .. version[c]
      PROVE  row'[<<c, n>>].status # "held_shadow"
  <2>1. <<c, n>> \in Rows
    BY RowOf, ProjectionAssumption DEF Types, Others, Versions
  <2>2. CASE c \in Cohort
    <3>1. <<c, n>> \in Seen
      BY <1>1, <2>1, <2>2 DEF Seen, CohortRows, Types, RowsTyped
    <3>. QED BY <1>3, <1>4, <2>1, <3>1 DEF RowType
  <2>3. CASE c \notin Cohort
    <3>1. row'[<<c, n>>] = row[<<c, n>>]
      BY <1>3, <2>1, <2>3 DEF Seen, CohortRows
    <3>. QED BY <1>1, <2>3, <3>1 DEF Modes, RowsFollowMode
  <2>. QED BY <2>2, <2>3
<1>7. RowsFollowMode'
  BY <1>2, <1>6 DEF RowsFollowMode
<1>8. RollingRows' /\ RollingSearch'
  <2>1. ~rolling.begun
    BY DEF ApplyCutover, Modes, RollingRows
  <2>. QED BY <1>2, <2>1 DEF RollingRows, RollingSearch
<1>. QED BY <1>1, <1>2, <1>5, <1>7, <1>8, ProjectionAssumption DEF Modes

LEMMA RollBackModes ==
  ASSUME Types, Modes, RollBack
  PROVE  /\ Modes'
         /\ \A r \in Rows : r[1] \in Cohort /\ row[r].status # "none" => row[r].released
<1>. DEFINE Back(r) ==
       [NoRow EXCEPT !.status = "held_shadow", !.released = TRUE, !.date = row[r].date]
<1>1. \A r \in Rows : row'[r] = IF row[r].released THEN Back(r) ELSE row[r]
  BY DEF RollBack
<1>2. \A r \in Rows : Back(r).status = "held_shadow" /\ ~Back(r).early
  BY DEF NoRow
<1>3. /\ UNCHANGED <<version, releases, applying>> /\ applying = NotApplying
      /\ cutover.status = "applied"
      /\ cutover' = [cutover EXCEPT !.status = "rolled_back"]
      /\ mode' = [c \in Channels |-> IF c \in Cohort THEN "held_shadow" ELSE mode[c]]
      /\ live' = IF rolling.restores THEN releases[cutover.previous].live ELSE live
      /\ ~rolling'.begun
  BY DEF RollBack, Modes, RollingRows, NotRolling
<1>4. \A c \in Cohort : live'[c] = 0
  <2>1. CASE rolling.restores
    BY <1>3, <2>1 DEF Modes
  <2>2. CASE ~rolling.restores
    BY <1>3, <2>2 DEF RollBack, Modes, RollingSearch
  <2>. QED BY <2>1, <2>2
<1>5. cutover'.status = "rolled_back"
  BY <1>3 DEF Types, CutoverTyped
<1>6. \A r \in Rows : r[1] \in Cohort /\ row[r].status # "none" => row[r].released
  BY DEF RollBack, CohortRows, Modes, RollingRows
<1>7. ASSUME NEW c \in Channels, NEW n \in 1 .. version[c]
      PROVE  row'[<<c, n>>].status = "held_shadow" <=> mode'[c] = "held_shadow"
  <2>1. <<c, n>> \in Rows
    BY RowOf, ProjectionAssumption DEF Types, Others, Versions
  <2>2. CASE c \in Cohort
    <3>1. version[c] \in Nat /\ n <= version[c]
      BY DEF Types, Others, Versions
    <3>2. row[<<c, n>>].released
      BY <1>6, <2>1, <2>2, <3>1 DEF Types, RowsTyped
    <3>. QED BY <1>1, <1>2, <1>3, <2>1, <2>2, <3>2
  <2>3. CASE c \notin Cohort
    <3>1. row'[<<c, n>>] = row[<<c, n>>] /\ mode'[c] = "online"
      BY <1>1, <1>3, <2>1, <2>3 DEF Types, ReleasedTyped, Modes
    <3>. QED BY <2>3, <3>1 DEF Modes, RowsFollowMode
  <2>. QED BY <2>2, <2>3
<1>8. RowsFollowMode'
  BY <1>3, <1>4, <1>7 DEF RowsFollowMode, Modes
<1>9. \A r \in Rows : ~row'[r].early
  BY <1>1, <1>2 DEF Modes
<1>10. RollingRows' /\ RollingSearch'
  BY <1>3 DEF RollingRows, RollingSearch
<1>. QED BY <1>3, <1>5, <1>6, <1>8, <1>9, <1>10 DEF Modes

LEMMA ModesStep ==
  ASSUME Types, Chained, Modes, Overlap \subseteq {"activation"}, [Next]_vars
  PROVE  Modes'
<1>1. ASSUME NEW c \in Channels, NEW date \in 1 .. MaxVersion, NEW early \in BOOLEAN,
         Activate(c, date, early) PROVE Modes'
  BY <1>1, ActivateModes
<1>2. ASSUME NEW w \in Workers, Project(w) PROVE Modes'
  BY <1>2, ProjectModes
<1>3. ASSUME NEW w \in Workers, ClaimSome(w) \/ Retry(w) \/ ProjectFails(w) \/ ProjectorCrash(w)
      PROVE  Modes'
  BY <1>3, QueueModes
<1>4. ASSUME NEW r \in Rows, LeaseLapses(r) PROVE Modes'
  BY <1>4, LapseModes
<1>5. CASE BeginCutover
  BY <1>5, BeginModes
<1>6. CASE AbandonCutover \/ AbandonRollback
  BY <1>6, AbandonModes
<1>7. CASE ApplyCutover
  BY <1>7, ApplyModes
<1>8. CASE RollBack
  BY <1>8, RollBackModes
<1>9. CASE BeginRollback
  BY <1>9, BeginRollbackModes
<1>10. CASE UNCHANGED vars
  BY <1>10, SameHeld DEF vars, adminVars, searchVars, Modes
<1>. QED BY <1>1, <1>2, <1>3, <1>4, <1>5, <1>6, <1>7, <1>8, <1>9, <1>10 DEF Next

LEMMA InitModes == Init => Modes
<1>. SUFFICES ASSUME Init PROVE Modes
  OBVIOUS
<1>1. version = [c \in Channels |-> 0] /\ live = [c \in Channels |-> 0]
  BY DEF Init
<1>2. RowsFollowMode
  BY <1>1 DEF RowsFollowMode
<1>3. \A r \in Rows : ~row[r].early
  BY DEF Init, NoRow
<1>4. RollingRows /\ RollingSearch
  BY DEF Init, NotRolling, RollingRows, RollingSearch
<1>. QED BY <1>2, <1>3, <1>4 DEF Init, Modes

\* Unless an activation of a channel overlaps a cutover or a rollback of it, between the
\* snapshot of that transaction and its locks, the rows follow the projection mode of their
\* channel and a held channel is not shown, through any number of cutovers and rollbacks
\* (businessPublicationCutoverAdmin.js).  Activations may overlap each other.
THEOREM ModeFollowed == Overlap \subseteq {"activation"} => (Spec => []RowsFollowMode)
<1>. SUFFICES ASSUME Overlap \subseteq {"activation"} PROVE Spec => []RowsFollowMode
  OBVIOUS
<1>1. Types /\ Chained /\ Modes /\ [Next]_vars => Modes'
  BY ModesStep
<1>2. Modes => RowsFollowMode
  BY DEF Modes
<1>. QED BY <1>1, <1>2, ChainedInit, ChainedStep, InitModes, InitTypes, TypesStep, PTL DEF Spec

-----------------------------------------------------------------------------
(* The order of deliveries, when no activation overlaps another one of its *)
(* channel either.                                                         *)

\* Rows are dated in the order of the versions.
Dated == \A r \in Rows : row[r].status # "none" => row[r].date = r[2]

Settled(r) == row[r].status \in {"delivered", "dead_letter"}

\* The versions up to a delivered one, and up to one that the search shows or showed of a
\* channel that no rollback holds again, are done with.
Ordered ==
  /\ \A r \in Rows : row[r].status = "delivered" => \A n \in 1 .. r[2] - 1 : Settled(<<r[1], n>>)
  /\ \A c \in Channels : \A n \in 1 .. live[c] : Settled(<<c, n>>)
  /\ \A b \in DOMAIN releases : \A c \in Channels \ Cohort :
       \A n \in 1 .. releases[b].live[c] : Settled(<<c, n>>)

\* openProjectionRows: what comes before the row a transaction is about is done with.
LEMMA TargetsInOrder ==
  ASSUME Types, Modes, Dated, NEW w \in Workers, Online(w),
         NEW r \in Targets(w), NEW n \in 1 .. r[2] - 1
  PROVE  <<r[1], n>> \in Rows /\ Settled(<<r[1], n>>)
<1>1. r \in Rows /\ r[1] \in Channels /\ r[2] \in 1 .. MaxVersion /\ Open(r)
      /\ r[1] \in ClaimedChannels(w) /\ row[r].status # "none"
  BY RowParts DEF Targets, Open
<1>2. n \in 1 .. MaxVersion /\ n < r[2]
  BY <1>1, ProjectionAssumption
<1>3. <<r[1], n>> \in Rows
  BY <1>1, <1>2, RowOf
<1>4. version[r[1]] \in Nat /\ r[2] <= version[r[1]]
  BY <1>1 DEF Types, RowsTyped, Others, Versions, Open
<1>5. n \in 1 .. version[r[1]]
  BY <1>1, <1>2, <1>4, ProjectionAssumption
<1>6. row[<<r[1], n>>].status # "none"
  BY <1>3, <1>5 DEF Types, RowsTyped
<1>7. row[<<r[1], n>>].status # "held_shadow"
  BY <1>1, <1>5 DEF Online, Modes, RowsFollowMode
<1>8. row[<<r[1], n>>].status \in Statuses
  BY <1>3 DEF Types, RowsTyped, RowType
<1>9. row[<<r[1], n>>].date = n /\ row[r].date = r[2]
  BY <1>1, <1>3, <1>6 DEF Dated
<1>10. <<r[1], n>> \in Earlier(r)
  BY <1>2, <1>3, <1>6, <1>9 DEF Earlier
<1>11. ~Open(<<r[1], n>>)
  BY <1>10 DEF Targets
<1>. QED BY <1>3, <1>6, <1>7, <1>8, <1>11 DEF Open, Statuses, Settled

\* Versions the search shows are versions of the model.
LEMMA ShownRows ==
  ASSUME NEW f \in [Channels -> Versions], NEW c \in Channels, NEW n \in 1 .. f[c]
  PROVE  <<c, n>> \in Rows
<1>1. f[c] \in 0 .. MaxVersion /\ MaxVersion \in Nat
  BY ProjectionAssumption DEF Versions
<1>2. n \in 1 .. MaxVersion
  BY <1>1
<1>. QED BY <1>2, RowOf

\* Steps that leave the search alone and neither deliver a row nor undo what is done.
LEMMA SameOrder ==
  ASSUME Types, Ordered, UNCHANGED searchVars,
         \A r \in Rows : /\ Settled(r) => Settled(r)'
                         /\ row'[r].status = "delivered" => row[r].status = "delivered"
  PROVE  Ordered'
<1>1. \A r \in Rows : \A n \in 1 .. r[2] - 1 : <<r[1], n>> \in Rows
  <2>. SUFFICES ASSUME NEW r \in Rows, NEW n \in 1 .. r[2] - 1 PROVE <<r[1], n>> \in Rows
    OBVIOUS
  <2>1. r[1] \in Channels /\ n \in 1 .. MaxVersion
    BY RowParts, ProjectionAssumption
  <2>. QED BY <2>1, RowOf
<1>2. ASSUME NEW r \in Rows, row'[r].status = "delivered", NEW n \in 1 .. r[2] - 1
      PROVE  Settled(<<r[1], n>>)'
  BY <1>1, <1>2 DEF Ordered
<1>3. ASSUME NEW c \in Channels, NEW n \in 1 .. live[c]
      PROVE  Settled(<<c, n>>)'
  <2>1. <<c, n>> \in Rows
    BY ShownRows DEF Types, Others
  <2>. QED BY <2>1 DEF Ordered
<1>4. ASSUME NEW b \in DOMAIN releases, NEW c \in Channels \ Cohort, NEW n \in 1 .. releases[b].live[c]
      PROVE  Settled(<<c, n>>)'
  <2>1. <<c, n>> \in Rows
    BY ShownRows DEF Types, ReleasesTyped
  <2>. QED BY <2>1 DEF Ordered
<1>5. live' = live /\ releases' = releases
  BY DEF searchVars
<1>. QED BY <1>2, <1>3, <1>4, <1>5 DEF Ordered

LEMMA ActivateOrder ==
  ASSUME Types, Ordered, NEW c \in Channels, NEW date \in 1 .. MaxVersion, NEW early \in BOOLEAN,
         Activate(c, date, early)
  PROVE  Ordered'
<1>. DEFINE r == <<c, version[c] + 1>>
<1>1. version[c] \in Nat /\ version[c] + 1 \in 1 .. MaxVersion
  BY ProjectionAssumption DEF Types, Others, Activate, Versions
<1>2. r \in Rows
  BY <1>1, RowOf
<1>3. row[r].status = "none"
  BY <1>1, <1>2 DEF Types, RowsTyped
<1>4. \A q \in Rows : q # r => row'[q] = row[q]
  BY DEF Activate, Types, RowsTyped
<1>5. row'[r].status \in {"pending", "held_shadow"}
  BY <1>2 DEF Activate, Types, RowsTyped, NoRow, ProjectAs
<1>. QED BY <1>3, <1>4, <1>5, SameOrder DEF Activate, Settled

LEMMA QueueOrder ==
  ASSUME Types, Ordered,
         \/ \E w \in Workers : ClaimSome(w) \/ Retry(w) \/ ProjectFails(w) \/ ProjectorCrash(w)
         \/ \E r \in Rows : LeaseLapses(r)
  PROVE  Ordered'
<1>1. ASSUME NEW w \in Workers, ClaimSome(w) PROVE Ordered'
  <2>1. PICK chosen \in SUBSET Claimable : Claim(w, chosen)
    BY <1>1 DEF ClaimSome
  <2>2. \A r \in chosen : ~Settled(r)
    BY DEF Claimable, Types, RowsTyped, Settled
  <2>3. \A r \in Rows : IF r \in chosen THEN row'[r].status = "leased" ELSE row'[r] = row[r]
    BY <2>1 DEF Claim, Types, RowsTyped, RowType
  <2>. QED BY <2>1, <2>2, <2>3, SameOrder DEF Claim, Settled
<1>2. ASSUME NEW w \in Workers, Retry(w) PROVE Ordered'
  <2>1. \A r \in Rows : Holds(w, r) => ~Settled(r)
    BY DEF Holds, Settled
  <2>2. \A r \in Rows : \/ row'[r] = row[r]
                        \/ Holds(w, r) /\ row'[r].status \in {"dead_letter", "retry_wait"}
    <3>1. ASSUME NEW r \in Rows, ~(r \in projector[w].claimed /\ Holds(w, r)) PROVE row'[r] = row[r]
      BY <1>2, <3>1 DEF Retry
    <3>2. ASSUME NEW r \in Rows, r \in projector[w].claimed, Holds(w, r)
          PROVE  row'[r].status \in {"dead_letter", "retry_wait"}
      BY <1>2, <3>2 DEF Retry, Types, RowsTyped, RowType
    <3>. QED BY <3>1, <3>2
  <2>. QED BY <1>2, <2>1, <2>2, SameOrder DEF Retry, Settled
<1>3. ASSUME NEW w \in Workers, ProjectFails(w) \/ ProjectorCrash(w) PROVE Ordered'
  BY <1>3, SameOrder DEF ProjectFails, ProjectorCrash, Settled
<1>4. ASSUME NEW r \in Rows, LeaseLapses(r) PROVE Ordered'
  <2>1. \A q \in Rows : row'[q].status = row[q].status
    BY <1>4 DEF LeaseLapses, Types, RowsTyped, RowType
  <2>. QED BY <1>4, <2>1, SameOrder DEF LeaseLapses, Settled
<1>. QED BY <1>1, <1>2, <1>3, <1>4

LEMMA ProjectOrder ==
  ASSUME Types, Modes, Dated, Ordered, NEW w \in Workers, Project(w)
  PROVE  /\ Ordered'
         /\ \A c \in Channels : live'[c] >= live[c]
<1>1. Online(w)
  BY DEF Project, CanProject
<1>2. \A r \in Rows : Settled(r) => Settled(r)'
  BY ProjectRows DEF Settled
<1>3. ASSUME NEW r \in Rows, row'[r].status = "delivered", NEW n \in 1 .. r[2] - 1
      PROVE  Settled(<<r[1], n>>)'
  <2>1. <<r[1], n>> \in Rows
    <3>1. r[1] \in Channels /\ n \in 1 .. MaxVersion
      BY RowParts, ProjectionAssumption
    <3>. QED BY <3>1, RowOf
  <2>2. CASE r \in Targets(w)
    BY <1>1, <1>2, <2>1, <2>2, TargetsInOrder
  <2>3. CASE r \notin Targets(w)
    BY <1>2, <1>3, <2>1, <2>3, ProjectRows DEF Ordered
  <2>. QED BY <2>2, <2>3
<1>4. \A c \in Channels : live[c] \in Versions /\ live'[c] \in Versions
  BY ProjectTypes DEF Types, Others
<1>5. ASSUME NEW c \in Channels
      PROVE  live'[c] >= live[c] /\ \A n \in 1 .. live'[c] : Settled(<<c, n>>)'
  <2>1. ASSUME live'[c] = live[c]
        PROVE  live'[c] >= live[c] /\ \A n \in 1 .. live'[c] : Settled(<<c, n>>)'
    <3>1. \A n \in 1 .. live[c] : <<c, n>> \in Rows
      BY ShownRows DEF Types, Others
    <3>. QED BY <1>2, <1>4, <2>1, <3>1, ProjectionAssumption DEF Ordered, Versions
  <2>2. CASE Uncovered(w) = {} \/ c \notin DOMAIN active'
    <3>1. live'[c] = live[c]
      BY <2>2, ProjectSearch DEF Shown
    <3>. QED BY <2>1, <3>1
  <2>3. CASE Uncovered(w) # {} /\ c \in DOMAIN active'
    <3>1. PICK n \in 1 .. MaxVersion : <<c, n>> \in Uncovered(w) /\ live'[c] = n
      <4>1. active' = Batch(Uncovered(w)) /\ live' = Shown(active') /\ Uncovered(w) \in SUBSET Rows
        BY <2>3, ProjectSearch, ProjectRows
      <4>2. active'[c] \in 1 .. MaxVersion /\ <<c, active'[c]>> \in Uncovered(w)
        BY <2>3, <4>1, BatchParts
      <4>. QED BY <2>3, <4>1, <4>2 DEF Shown
    <3>2. <<c, n>> \in Targets(w) /\ <<c, n>> \in Rows /\ ~Settled(<<c, n>>) /\ Settled(<<c, n>>)'
      <4>1. <<c, n>> \in Targets(w) /\ <<c, n>> \in Rows
        BY <3>1, ProjectRows
      <4>2. ~Settled(<<c, n>>)
        BY <4>1 DEF Targets, Open, Settled
      <4>3. row'[<<c, n>>].status = "delivered"
        BY <4>1, ProjectRows
      <4>. QED BY <4>1, <4>2, <4>3 DEF Settled
    <3>3. live[c] < n
      BY <1>4, <3>1, <3>2, ProjectionAssumption DEF Ordered, Versions
    <3>4. ASSUME NEW m \in 1 .. n - 1 PROVE Settled(<<c, m>>)'
      <4>1. <<c, n>>[1] = c /\ <<c, n>>[2] = n
        OBVIOUS
      <4>2. <<c, m>> \in Rows /\ Settled(<<c, m>>)
        BY <1>1, <3>2, <4>1, TargetsInOrder
      <4>. QED BY <1>2, <4>2
    <3>5. \A m \in 1 .. n : m = n \/ m \in 1 .. n - 1
      BY <3>1
    <3>6. \A m \in 1 .. n : Settled(<<c, m>>)'
      BY <3>2, <3>4, <3>5
    <3>7. n >= live[c]
      BY <1>4, <3>1, <3>3 DEF Versions
    <3>. QED BY <3>1, <3>6, <3>7
  <2>. QED BY <2>2, <2>3
<1>6. ASSUME NEW b \in DOMAIN releases', NEW c \in Channels \ Cohort, NEW n \in 1 .. releases'[b].live[c]
      PROVE  Settled(<<c, n>>)'
  <2>1. CASE b \in DOMAIN releases
    <3>1. releases'[b] = releases[b] /\ releases[b].live \in [Channels -> Versions]
      BY <2>1, ProjectSearch DEF Types, ReleasesTyped
    <3>2. <<c, n>> \in Rows
      BY <3>1, ShownRows
    <3>. QED BY <1>2, <2>1, <3>1, <3>2 DEF Ordered
  <2>2. CASE b \notin DOMAIN releases
    <3>1. releases'[b].live = live'
      BY <2>2, ProjectSearch
    <3>. QED BY <1>5, <3>1
  <2>. QED BY <2>1, <2>2
<1>7. Ordered'
  BY <1>3, <1>5, <1>6 DEF Ordered
<1>. QED BY <1>5, <1>7

LEMMA CutoverOrder ==
  ASSUME Types, Modes, Ordered,
         ApplyCutover \/ BeginCutover \/ AbandonCutover \/ BeginRollback \/ AbandonRollback
  PROVE  Ordered'
<1>1. UNCHANGED searchVars
  BY DEF ApplyCutover, BeginCutover, AbandonCutover, BeginRollback, AbandonRollback
<1>2. \A r \in Rows : \/ row'[r] = row[r]
                      \/ row[r].status = "held_shadow" /\ row'[r].status = "pending"
  <2>1. CASE ApplyCutover
    <3>1. \A r \in Seen : row[r].status = "held_shadow"
      BY <2>1 DEF ApplyCutover, Types, SeenHeld
    <3>2. \A r \in Rows : row'[r] =
            IF r \in Seen THEN [row[r] EXCEPT !.status = "pending", !.released = TRUE] ELSE row[r]
      BY <2>1 DEF ApplyCutover
    <3>3. ASSUME NEW r \in Rows, r \in Seen PROVE row'[r].status = "pending"
      <4>1. row[r] \in RowType
        BY DEF Types, RowsTyped
      <4>. QED BY <3>2, <3>3, <4>1 DEF RowType
    <3>. QED BY <3>1, <3>2, <3>3
  <2>2. CASE BeginCutover \/ AbandonCutover \/ BeginRollback \/ AbandonRollback
    <3>1. row' = row
      BY <2>2 DEF BeginCutover, AbandonCutover, BeginRollback, AbandonRollback
    <3>. QED BY <3>1
  <2>. QED BY <2>1, <2>2
<1>. QED BY <1>1, <1>2, SameOrder DEF Settled

LEMMA RollBackOrder ==
  ASSUME Types, Modes, Ordered, RollBack
  PROVE  Ordered'
<1>1. /\ cutover.previous \in DOMAIN releases /\ releases' = releases
      /\ live' \in {releases[cutover.previous].live, live}
  BY DEF RollBack, Types, CutoverTyped
<1>2. \A r \in Rows : row[r].released => row'[r].status = "held_shadow"
  BY DEF RollBack, NoRow
<1>3. \A r \in Rows : r[1] \notin Cohort => row'[r] = row[r]
  BY DEF RollBack, Types, ReleasedTyped
<1>4. \A r \in Rows : r[1] \in Cohort => row'[r].status # "delivered"
  <2>. SUFFICES ASSUME NEW r \in Rows, r[1] \in Cohort PROVE row'[r].status # "delivered"
    OBVIOUS
  <2>1. CASE row[r].released
    BY <1>2, <2>1
  <2>2. CASE ~row[r].released
    <3>1. row[r].status = "none" /\ row'[r] = row[r]
      BY <2>2, RollBackModes DEF RollBack
    <3>. QED BY <3>1
  <2>. QED BY <2>1, <2>2
<1>5. ASSUME NEW r \in Rows, row'[r].status = "delivered", NEW n \in 1 .. r[2] - 1
      PROVE  Settled(<<r[1], n>>)'
  <2>1. r[1] \notin Cohort /\ r[1] \in Channels /\ row[r].status = "delivered"
    BY <1>3, <1>4, <1>5, RowParts
  <2>2. n \in 1 .. MaxVersion
    BY RowParts, ProjectionAssumption
  <2>3. <<r[1], n>> \in Rows /\ <<r[1], n>>[1] = r[1]
    BY <2>1, <2>2, RowOf
  <2>. QED BY <1>3, <2>1, <2>3 DEF Ordered, Settled
<1>6. ASSUME NEW b \in DOMAIN releases, NEW c \in Channels \ Cohort, NEW n \in 1 .. releases[b].live[c]
      PROVE  Settled(<<c, n>>)'
  <2>1. <<c, n>> \in Rows /\ <<c, n>>[1] = c
    BY ShownRows DEF Types, ReleasesTyped
  <2>. QED BY <1>3, <2>1 DEF Ordered, Settled
<1>7. ASSUME NEW c \in Channels, NEW n \in 1 .. live'[c]
      PROVE  Settled(<<c, n>>)'
  <2>1. CASE c \in Cohort
    <3>1. mode'[c] = "held_shadow" /\ RowsFollowMode'
      BY <2>1, RollBackModes DEF RollBack, Modes
    <3>. QED BY <1>7, <3>1 DEF RowsFollowMode
  <2>2. CASE c \notin Cohort /\ live' = live
    <3>1. <<c, n>> \in Rows /\ <<c, n>>[1] = c /\ Settled(<<c, n>>)
      BY <1>7, <2>2, ShownRows DEF Types, Others, Ordered
    <3>. QED BY <1>3, <2>2, <3>1 DEF Settled
  <2>3. CASE c \notin Cohort /\ live' = releases[cutover.previous].live
    BY <1>1, <1>6, <2>3
  <2>. QED BY <1>1, <2>1, <2>2, <2>3
<1>. QED BY <1>1, <1>5, <1>6, <1>7 DEF Ordered

LEMMA OrderedInit == Init => Ordered
<1>. SUFFICES ASSUME Init PROVE Ordered
  OBVIOUS
<1>1. \A r \in Rows : row[r].status = "none"
  BY DEF Init, NoRow
<1>2. live = [c \in Channels |-> 0] /\ \A b \in DOMAIN releases : releases[b].live = live
  BY DEF Init
<1>. QED BY <1>1, <1>2 DEF Ordered

LEMMA OrderedStep ==
  ASSUME Types, Modes, Dated, Ordered, [Next]_vars
  PROVE  Ordered' /\ (RollBack \/ \A c \in Channels : live'[c] >= live[c])
<1>1. \A c \in Channels : live[c] >= live[c]
  BY ProjectionAssumption DEF Types, Others, Versions
<1>2. ASSUME NEW c \in Channels, NEW date \in 1 .. MaxVersion, NEW early \in BOOLEAN,
         Activate(c, date, early)
      PROVE  Ordered' /\ live' = live
  BY <1>2, ActivateOrder DEF Activate, searchVars
<1>3. ASSUME NEW w \in Workers, Project(w)
      PROVE  Ordered' /\ \A c \in Channels : live'[c] >= live[c]
  BY <1>3, ProjectOrder
<1>4. ASSUME \/ \E w \in Workers : ClaimSome(w) \/ Retry(w) \/ ProjectFails(w) \/ ProjectorCrash(w)
             \/ \E r \in Rows : LeaseLapses(r)
      PROVE  Ordered' /\ live' = live
  BY <1>4, QueueOrder
     DEF ClaimSome, Claim, Retry, ProjectFails, ProjectorCrash, LeaseLapses, searchVars
<1>5. ASSUME ApplyCutover \/ BeginCutover \/ AbandonCutover \/ BeginRollback \/ AbandonRollback
      PROVE  Ordered' /\ live' = live
  BY <1>5, CutoverOrder
     DEF ApplyCutover, BeginCutover, AbandonCutover, BeginRollback, AbandonRollback, searchVars
<1>6. CASE RollBack
  BY <1>6, RollBackOrder
<1>7. CASE UNCHANGED vars
  <2>1. row' = row /\ live' = live /\ releases' = releases
    BY <1>7 DEF vars, searchVars
  <2>2. Ordered'
    BY <2>1 DEF Ordered, Settled
  <2>. QED BY <1>1, <2>1, <2>2
<1>. QED BY <1>1, <1>2, <1>3, <1>4, <1>5, <1>6, <1>7 DEF Next

LEMMA DatedInit == Init => Dated
BY DEF Init, Dated, NoRow

LEMMA DatedStep ==
  ASSUME Types, Dated, Overlap = {}, [Next]_vars
  PROVE  Dated'
<1>1. ASSUME \A r \in Rows : /\ row'[r].date = row[r].date
                             /\ row'[r].status # "none" => row[r].status # "none"
      PROVE  Dated'
  BY <1>1 DEF Dated
<1>2. \A r \in Rows : row[r] \in RowType
  BY DEF Types, RowsTyped
<1>3. ASSUME NEW c \in Channels, NEW date \in 1 .. MaxVersion, NEW early \in BOOLEAN,
         Activate(c, date, early)
      PROVE  Dated'
  <2>. DEFINE r == <<c, version[c] + 1>>
  <2>1. version[c] + 1 \in 1 .. MaxVersion /\ date = version[c] + 1
    BY <1>3, ProjectionAssumption DEF Types, Others, Activate, Versions
  <2>2. r \in Rows /\ r[2] = version[c] + 1
    BY <2>1, RowOf
  <2>3. row'[r].date = r[2] /\ \A q \in Rows : q # r => row'[q] = row[q]
    BY <1>3, <2>1, <2>2 DEF Activate, Types, RowsTyped, NoRow
  <2>. QED BY <2>3 DEF Dated
<1>4. ASSUME NEW w \in Workers, Project(w) PROVE Dated'
  <2>1. \A r \in Rows : row'[r].date = row[r].date
    BY <1>2, <1>4 DEF Project, RowType
  <2>. QED BY <1>1, <1>4, <2>1, ProjectRows
<1>5. ASSUME NEW w \in Workers, ClaimSome(w) PROVE Dated'
  <2>1. PICK chosen \in SUBSET Claimable : Claim(w, chosen)
    BY <1>5 DEF ClaimSome
  <2>2. \A r \in Rows : row'[r].date = row[r].date
    BY <1>2, <2>1 DEF Claim, RowType
  <2>3. \A r \in chosen : row[r].status # "none"
    BY DEF Claimable, Types, RowsTyped
  <2>4. \A r \in Rows : r \notin chosen => row'[r] = row[r]
    BY <2>1 DEF Claim
  <2>. QED BY <1>1, <2>2, <2>3, <2>4
<1>6. ASSUME NEW w \in Workers, Retry(w) PROVE Dated'
  <2>1. \A r \in Rows : row'[r].date = row[r].date /\ (row'[r] = row[r] \/ Holds(w, r))
    BY <1>2, <1>6 DEF Retry, RowType
  <2>. QED BY <1>1, <2>1 DEF Holds
<1>7. ASSUME NEW r \in Rows, LeaseLapses(r) PROVE Dated'
  <2>1. \A q \in Rows : row'[q].status = row[q].status /\ row'[q].date = row[q].date
    BY <1>2, <1>7 DEF LeaseLapses, RowType, Types, RowsTyped
  <2>. QED BY <1>1, <2>1
<1>8. CASE ApplyCutover
  <2>1. \A r \in Rows : row'[r].date = row[r].date /\ (row'[r] = row[r] \/ r \in Seen)
    BY <1>2, <1>8 DEF ApplyCutover, RowType
  <2>. QED BY <1>1, <2>1 DEF Seen, CohortRows
<1>9. CASE RollBack
  <2>1. \A r \in Rows : row'[r].date = row[r].date /\ (row'[r] = row[r] \/ row[r].released)
    BY <1>2, <1>9 DEF RollBack, NoRow
  <2>. QED BY <1>1, <2>1 DEF Types, ReleasedTyped
<1>10. CASE row' = row
  BY <1>1, <1>10
<1>11. ASSUME NEW w \in Workers, ProjectFails(w) \/ ProjectorCrash(w) PROVE row' = row
  BY <1>11 DEF ProjectFails, ProjectorCrash
<1>12. CASE BeginCutover \/ AbandonCutover \/ BeginRollback \/ AbandonRollback
  BY <1>10, <1>12 DEF BeginCutover, AbandonCutover, BeginRollback, AbandonRollback
<1>13. CASE UNCHANGED vars
  BY <1>10, <1>13 DEF vars
<1>. QED BY <1>3, <1>4, <1>5, <1>6, <1>7, <1>8, <1>9, <1>10, <1>11, <1>12, <1>13 DEF Next

\* Unless an activation of a channel overlaps a cutover, a rollback or another activation of it,
\* no version is delivered before the earlier ones are delivered or given up, whatever the
\* projectors whose leases ran out still do (openProjectionRows, earliestProjectionRows).
THEOREM DeliveriesInOrder == Overlap = {} => (Spec => []DeliveredInOrder)
<1>. SUFFICES ASSUME Overlap = {} PROVE Spec => []DeliveredInOrder
  OBVIOUS
<1>1. Types /\ Chained /\ Modes /\ [Next]_vars => Modes'
  BY ModesStep
<1>2. Types /\ Dated /\ [Next]_vars => Dated'
  BY DatedStep
<1>3. Types /\ Modes /\ Dated /\ Ordered /\ [Next]_vars => Ordered'
  BY OrderedStep
<1>4. Ordered => DeliveredInOrder
  BY DEF Ordered, Settled, DeliveredInOrder
<1>. QED BY <1>1, <1>2, <1>3, <1>4, ChainedInit, ChainedStep, DatedInit, InitModes, InitTypes,
            OrderedInit, TypesStep, PTL DEF Spec

\* And only a rollback takes the search back to an older version of a channel: neither a
\* projector that comes late nor a release made active again does (projectBusinessPublicationChannels).
THEOREM LiveForward == Overlap = {} => (Spec => LiveNeverGoesBack)
<1>. SUFFICES ASSUME Overlap = {} PROVE Spec => LiveNeverGoesBack
  OBVIOUS
<1>1. Types /\ Chained /\ Modes /\ [Next]_vars => Modes'
  BY ModesStep
<1>2. Types /\ Dated /\ [Next]_vars => Dated'
  BY DatedStep
<1>3. Types /\ Modes /\ Dated /\ Ordered /\ [Next]_vars => Ordered'
  BY OrderedStep
<1>4. Types /\ Modes /\ Dated /\ Ordered /\ [Next]_vars
        => [RollBack \/ \A c \in Channels : live'[c] >= live[c]]_vars
  BY OrderedStep
<1>. QED BY <1>1, <1>2, <1>3, <1>4, ChainedInit, ChainedStep, DatedInit, InitModes, InitTypes,
            OrderedInit, TypesStep, PTL DEF Spec, LiveNeverGoesBack

=============================================================================
