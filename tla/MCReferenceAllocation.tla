----------------------- MODULE MCReferenceAllocation -----------------------
EXTENDS ReferenceAllocation

(* A binary series padded to three digits (001 .. 111, then 1000) of which *)
(* only 2 and 5 are stored: the 2025 engagements of the demo data likewise *)
(* start at IA-2025-014.                                                   *)
MCGap == {2, 5}

(* The real padding of findings (F-01 .. F-99) with 98 findings raised.    *)
MCNinetyEight == 1..98
=============================================================================
