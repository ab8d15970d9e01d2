----------------------------- MODULE MCPassGraph -----------------------------
(***************************************************************************)
(* PassGraph with three levels, two of them refined by deltas, so that     *)
(* every optional input is absent once and present once, two flow graphs,  *)
(* and five frames: every temporal slot is reused, with both parities.     *)
(***************************************************************************)
EXTENDS PassGraph

Variant(p, i, o) == [performance |-> p, inputCopy |-> i, outputCopy |-> o]

\* Direct storage, the full copy, and the output copy of Adreno.
MCBuilds == {Variant(FALSE, FALSE, FALSE), Variant(TRUE, TRUE, TRUE),
             Variant(TRUE, FALSE, TRUE)}
=============================================================================
