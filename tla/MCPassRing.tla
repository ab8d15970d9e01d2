----------------------------- MODULE MCPassRing -----------------------------
(***************************************************************************)
(* PassRing for TLC.  The images are interchangeable: no operation tells   *)
(* one from another, and the properties that are checked are invariants    *)
(* and step properties.                                                    *)
(***************************************************************************)
EXTENDS PassRing, TLC

Symmetry == Permutations(Images)
=============================================================================
