---------------------------- MODULE MCWorkpapers ----------------------------
EXTENDS Workpapers, TLC

CONSTANTS junior, senior, manager, cae, r1, r2, n1, n2, blank, draft, final

(* The roles of permissions.ts: each one holds what the one below it holds.*)
MCHolders ==
  ("workpaper:prepare" :> Users) @@
  ("workpaper:review" :> Users \ {junior}) @@
  ("workpaper:sign_off" :> Users \ {junior, senior}) @@
  ("workpaper:unlock" :> Users \ {junior, senior, manager})

Symmetry == Permutations(Requests) \cup Permutations(Notes)
=============================================================================
