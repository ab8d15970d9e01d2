----------------------- MODULE MCPresentationCapacity -----------------------
(***************************************************************************)
(* PresentationCapacity for TLC.  A maximum of three generated frames has  *)
(* two levels above the cap of one, so that a cap is lowered twice, goes   *)
(* fractional and is probed from there.  The thresholds of                 *)
(* adaptive_scheduler.cpp (5, 32, 10 and 6) are scaled down to 3, 12, 6    *)
(* and 3, which keeps their order.                                         *)
(***************************************************************************)
EXTENDS PresentationCapacity
=============================================================================
