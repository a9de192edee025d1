----------------------- MODULE MCPublicationPipeline -----------------------
(* PublicationPipeline on small channels: two revisions behind each other, one *)
(* revision two publishers contend for, and two domains that start together,   *)
(* with a crash, with a request handled late, with two reconcilers, and on a   *)
(* stream that takes no new channels.                                          *)
EXTENDS PublicationPipeline

CONSTANTS p1, p2, c1, c2

EachDomain(n) == [d \in Domains |-> n]
VideoOnly(n)  == [d \in Domains |-> IF d = VideoDomain THEN n ELSE 0]

Channel(mode, posting, activating, revisions, flaws, claims, turns, crashed) ==
  [onboarding |-> mode, policy |-> TRUE, publishers |-> posting, reconcilers |-> activating,
   revisions |-> revisions, flaws |-> flaws,
   claims |-> claims, turns |-> turns, crashes |-> crashed]

Queued ==
  Channel("legacy_tracked_adoption", {p1}, {c1}, VideoOnly(2), AllFlaws, 1, 0, 0)
Contended ==
  Channel("legacy_tracked_adoption", {p1, p2}, {c1}, VideoOnly(1), AllFlaws, 2, 0, 1)
Cohort ==
  Channel("cohort", {p1}, {c1}, EachDomain(1), {"inapplicable"}, 1, 0, 0)
Bootstrap ==
  Channel("automatic_bootstrap", {p1}, {c1, c2}, EachDomain(1), {"inapplicable"}, 1, 1, 0)

Unowned ==
  [Channel("automatic_bootstrap", {p1}, {c1}, EachDomain(1), {}, 1, 0, 0) EXCEPT !.policy = FALSE]

AllChannels == {Queued, Contended, Cohort, Bootstrap, Unowned}
=============================================================================
