------------------------- MODULE WorkpaperLifecycle -------------------------
(***************************************************************************)
(* What a workpaper promises its users, with every operation in one step:  *)
(* its preparer never changes, it is edited only while it is not signed    *)
(* off, it is approved over cleared notes, it is reviewed and signed off   *)
(* by somebody else, and only an unlock reopens it.  A cleared note stays  *)
(* cleared until it is reopened.  Workpapers implements this when requests *)
(* do not overlap.                                                         *)
(***************************************************************************)
EXTENDS Naturals

CONSTANTS Users, Contents, Notes, NoOne

VARIABLES stage, content, preparer, signer, notes

vars == <<stage, content, preparer, signer, notes>>

Init ==
  /\ stage = "preparing"
  /\ content \in Contents
  /\ preparer \in Users
  /\ signer = NoOne
  /\ notes = [n \in Notes |-> "none"]

\* Preparing covers the draft, the prepared paper and one with notes open.
Edit ==
  /\ stage # "signed off"
  /\ content' \in Contents
  /\ UNCHANGED <<stage, preparer, signer, notes>>

StartReview ==
  /\ stage = "preparing"
  /\ Users \ {preparer} # {}
  /\ stage' = "in review"
  /\ UNCHANGED <<content, preparer, signer, notes>>

Return ==
  /\ stage = "in review"
  /\ stage' = "preparing"
  /\ UNCHANGED <<content, preparer, signer, notes>>

Approve ==
  /\ stage = "in review"
  /\ \A n \in Notes : notes[n] \in {"none", "CLEARED"}
  /\ stage' = "approved"
  /\ UNCHANGED <<content, preparer, signer, notes>>

SignOff ==
  /\ stage = "approved"
  /\ stage' = "signed off"
  /\ signer' \in Users \ {preparer}
  /\ UNCHANGED <<content, preparer, notes>>

Unlock ==
  /\ stage = "signed off"
  /\ stage' = "preparing"
  /\ signer' = NoOne
  /\ UNCHANGED <<content, preparer, notes>>

Discuss ==
  /\ \E n \in Notes, status \in {"OPEN", "ADDRESSED", "CLEARED"} :
       /\ notes[n] \in {"none", "CLEARED"} => status = "OPEN"
       /\ notes' = [notes EXCEPT ![n] = status]
  /\ UNCHANGED <<stage, content, preparer, signer>>

Next == Edit \/ StartReview \/ Return \/ Approve \/ SignOff \/ Unlock \/ Discuss

Spec == Init /\ [][Next]_vars
=============================================================================
