----------------------------- MODULE RevisionLog -----------------------------
(***************************************************************************)
(* What the publication of a channel promises, without outboxes, shards,   *)
(* receipts or reconcilers: every domain has a log the crawler extends and *)
(* a reader that moves forward over it, one or more revisions at a time    *)
(* and several domains at once.  Nothing is read that was not written, and *)
(* the domains that start together are all started by one step.            *)
(***************************************************************************)
EXTENDS Naturals

CONSTANT Domains    \* the domains of a channel

VARIABLES
  together,     \* the domains whose first revisions are read in one step
  written, read

vars == <<together, written, read>>

Init ==
  /\ together \in SUBSET Domains
  /\ written = [d \in Domains |-> 0]
  /\ read = [d \in Domains |-> 0]

Write ==
  /\ \E changed \in (SUBSET Domains) \ {{}} :
       written' = [d \in Domains |-> IF d \in changed THEN written[d] + 1 ELSE written[d]]
  /\ UNCHANGED <<together, read>>

Begun(reader) == {d \in together : reader[d] > 0}

Read ==
  /\ read' # read
  /\ DOMAIN read' = Domains
  /\ \A d \in Domains : read'[d] \in read[d] .. written[d]
  /\ Begun(read') \in {{}, together}
  /\ UNCHANGED <<together, written>>

Next == Write \/ Read

Spec == Init /\ [][Next]_vars
=============================================================================
