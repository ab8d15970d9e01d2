-------------------------- MODULE MCSwapchainHooks --------------------------
(***************************************************************************)
(* Two threads and two objects.  Three swapchains (an old one, its         *)
(* replacement and the fallback) while the configuration file stays as it  *)
(* is, two of them at once while it changes.                               *)
(***************************************************************************)
EXTENDS SwapchainHooks, FiniteSets, TLC

CONSTANTS T1, T2, H1, H2, H3, O1, O2, O3

MCBase    == [enable |-> TRUE, on |-> TRUE, outputs |-> 4, flow |-> 1,
              adaptive |-> FALSE, performance |-> TRUE, mode |-> "fifo"]
MCDefault == [MCBase EXCEPT !.enable = FALSE, !.performance = FALSE]
MCLarger  == [MCBase EXCEPT !.outputs = 5]
MCOff     == [MCBase EXCEPT !.on = FALSE]
MCMailbox == [MCLarger EXCEPT !.mode = "mailbox"]

Signed(S) == {SignatureOf(c) : c \in S}

\* The file is not edited; or it changes, from a multiplier beyond the resident
\* capacity to off, to another present mode, to a file without this program.
MCEither      == {MCBase, MCLarger, MCOff, MCMailbox, MCDefault}
MCEitherSigns == Signed(MCEither)
MCInUse       == live \cup UNION {{call[t].h, call[t].old} : t \in Threads}
MCSteady      == edits = 0 /\ conf = MCBase
MCChanging    == /\ device = "up"
                 /\ stamp = 0 => conf = MCLarger
                 /\ Cardinality(MCInUse \ {None}) <= 2
MCScope       == MCSteady \/ MCChanging

\* A larger multiplier is configured.
MCGrowing      == {MCBase, MCLarger, MCDefault}
MCGrowingSigns == Signed(MCGrowing)
MCFromBase     == edits = 0 => conf = MCBase

MCThreads  == {T1, T2}
MCHandles2 == {H1, H2}
MCHandles3 == {H1, H2, H3}
MCIds2     == {O1, O2}
MCIds      == {O1, O2, O3}
MCSymmetry == Permutations(MCThreads) \cup Permutations(MCHandles3)
                \cup Permutations(MCIds2)
=============================================================================
