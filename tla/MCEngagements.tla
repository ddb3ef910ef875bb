--------------------------- MODULE MCEngagements ---------------------------
EXTENDS Engagements, TLC

CONSTANTS lead, senior, p1, f1, d1, r1, r2

(* Edits of one column each: of the lead, who must be on the team, and of  *)
(* the report, which a closed engagement keeps.                            *)
MCPatches == {("lead" :> senior), ("report" :> d1)}

Symmetry == Permutations(Requests)
=============================================================================
