--------------------------- MODULE GeneratedFrames ---------------------------
(***************************************************************************)
(* What the classes of adaptive_scheduler.cpp share: numbers of generated  *)
(* frames up to a maximum, and how they are clamped (std::min, std::max).  *)
(***************************************************************************)
EXTENDS Integers

CONSTANT MaxGenerated   \* bound of the model: the largest multiplier less one

AtMost(a, b)  == IF a <= b THEN a ELSE b
AtLeast(a, b) == IF a >= b THEN a ELSE b
=============================================================================
