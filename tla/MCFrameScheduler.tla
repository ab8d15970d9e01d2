-------------------------- MODULE MCFrameScheduler --------------------------
(***************************************************************************)
(* FrameScheduler for TLC.  Two generated frames have a cost probe, a      *)
(* raise from the state below it and two integer regimes.  The periods     *)
(* reach past what two generated frames serve.  The warm-up and the        *)
(* samples that a raise takes are the code's; the two density windows (4   *)
(* and 8) and the sustained demand are scaled, in their order.             *)
(***************************************************************************)
EXTENDS FrameScheduler
=============================================================================
