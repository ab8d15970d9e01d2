---------------------------- MODULE MCAdaptiveFlow ----------------------------
(* AdaptiveFlow for TLC: see AdaptiveFlow.cfg for the values. *)
EXTENDS AdaptiveFlow
=============================================================================
