--------------------------- MODULE MCSourceHistory ---------------------------
(***************************************************************************)
(* SourceHistory on rings of three passes.  The code has eight; three are  *)
(* enough for a pass to be reused while the GPU is still behind, and the   *)
(* warm-up of four sources is longer than the ring.                        *)
(***************************************************************************)
EXTENDS SourceHistory
=============================================================================
