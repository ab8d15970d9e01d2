--------------------------- MODULE RetirementRing ---------------------------
(***************************************************************************)
(* What the ring of render passes promises: the entries are taken in       *)
(* order, and an entry is taken only when nothing of the work it was last  *)
(* used for is left, neither on the GPU nor in a present under way.        *)
(***************************************************************************)
EXTENDS Integers

CONSTANT Ring

VARIABLES
    next,   \* how often an entry was taken, not counting a present under way
    taken,  \* a present is under way
    busy    \* the entries with work on the GPU

\* The entry that is taken next, or that is taken.
Entry == next % Ring

Init == next = 0 /\ ~taken /\ busy = {}

Take ==
    /\ ~taken /\ Entry \notin busy
    /\ taken'
    /\ busy' = busy \cup {Entry}
    /\ UNCHANGED next

Work ==
    /\ taken
    /\ busy' = busy \cup {Entry}
    /\ UNCHANGED <<next, taken>>

Retire ==
    /\ busy' \in SUBSET busy
    /\ UNCHANGED <<next, taken>>

\* The present is over.
Advance ==
    /\ taken /\ ~taken'
    /\ next' = next + 1
    /\ busy' \in {busy, busy \cup {Entry}}

\* A context is replaced once its work is done.
Renew ==
    /\ ~taken /\ busy = {}
    /\ next' = 0
    /\ UNCHANGED <<taken, busy>>

Next == Take \/ Work \/ Retire \/ Advance \/ Renew

Spec == Init /\ [][Next]_<<next, taken, busy>>
=============================================================================
