------------------------------ MODULE MCListing ------------------------------
(***************************************************************************)
(* Instances of the list for TLC.                                          *)
(***************************************************************************)
EXTENDS ListingProperties, TLC

CONSTANTS r1, r2, r3, r4

Symmetric == Permutations(Rows)
=============================================================================
