----------------------------- MODULE MCFindings -----------------------------
EXTENDS Findings, TLC

CONSTANTS auditor, manager, cae, client, r1, r2, k1

(* The roles of permissions.ts: an auditor manages findings, a manager     *)
(* submits and validates them too, the CAE accepts risks, and management   *)
(* (the client) responds.                                                  *)
MCHolders ==
  ("finding:manage" :> Users \ {client}) @@
  ("finding:submit" :> Users \ {client, auditor}) @@
  ("finding:validate" :> Users \ {client, auditor}) @@
  ("finding:accept_risk" :> Users \ {client, auditor, manager}) @@
  ("finding:respond" :> {client})

(* The edits that decide on agreement and validation.                      *)
MCPatches ==
  {("owner" :> cae), ("due" :> NoDate),
   ("response" :> TRUE) @@ ("evidence" :> TRUE) @@ ("due" :> 1)}

Symmetry == Permutations(Requests)
=============================================================================
