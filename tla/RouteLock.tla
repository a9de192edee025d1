----------------------------- MODULE RouteLock -----------------------------
(***************************************************************************)
(* What the proxy control plane promises to a crawl attempt, without any   *)
(* slot, lease or generation: while an attempt runs, one network route is  *)
(* its own.  An attempt is given a free route, keeps exactly that route    *)
(* until it stops, and is never started a second time.                     *)
(*                                                                         *)
(* ProxyControl implements this specification; its refinement mapping      *)
(* reads an attempt as running while the lease it runs under is live.      *)
(***************************************************************************)
CONSTANTS Routes,      \* the network routes (proxies)
          Attempts,    \* the crawl attempts
          Nobody       \* the occupant of a free route

VARIABLES occupant,    \* occupant[r]: the attempt that runs over route r
          started      \* the attempts that were ever started

lockVars == <<occupant, started>>

LockTypeOK ==
  /\ occupant \in [Routes -> Attempts \cup {Nobody}]
  /\ started \subseteq Attempts

LockInit ==
  /\ occupant = [r \in Routes |-> Nobody]
  /\ started = {}

Start(a, r) ==
  /\ a \notin started
  /\ occupant[r] = Nobody
  /\ occupant' = [occupant EXCEPT ![r] = a]
  /\ started' = started \cup {a}

Stop(a) ==
  /\ \E r \in Routes : occupant[r] = a
  /\ occupant' = [r \in Routes |-> IF occupant[r] = a THEN Nobody ELSE occupant[r]]
  /\ UNCHANGED started

LockNext == \E a \in Attempts : Stop(a) \/ \E r \in Routes : Start(a, r)

LockSpec == LockInit /\ [][LockNext]_lockVars
=============================================================================
