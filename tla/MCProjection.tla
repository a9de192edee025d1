----------------------------- MODULE MCProjection -----------------------------
(* Projection of a cohort of one channel beside a channel that is online, the   *)
(* last version of which cannot be assembled.                                   *)
EXTENDS Projection

CONSTANTS a, b

LastOfB == {<<b, MaxVersion>>}
=============================================================================
