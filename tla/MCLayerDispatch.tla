---------------------------- MODULE MCLayerDispatch ----------------------------
(* LayerDispatch for TLC: devices are interchangeable, and so are keys and     *)
(* instance handles.                                                           *)
EXTENDS LayerDispatch, TLC

Symmetry == Permutations(Devices) \cup Permutations(Keys) \cup Permutations(Instances)
================================================================================
