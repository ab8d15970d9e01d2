--------------------------- MODULE FramegenRuntime ---------------------------
(***************************************************************************)
(* The two frame generation runtimes, LSFG_3_1 and LSFG_3_1P, and the      *)
(* contexts that live in them.  Every entry point of lsfg.cpp holds the    *)
(* runtime's mutex from beginning to end, so each is one action; what a    *)
(* client does in two calls is two actions, with other threads in between. *)
(*                                                                         *)
(* A runtime has one Vulkan device, built for one signature, which all its *)
(* contexts share.  It goes away with its last context.  A context whose   *)
(* GPU work does not finish within the teardown wait is kept and marked.   *)
(***************************************************************************)
EXTENDS Integers, FiniteSets

CONSTANTS
    Ids,         \* identifiers of contexts, as drawn by rand()
    Signatures,  \* records with the field outputs (generationCount) and others
    None         \* no signature, no object, no handle

ASSUME FramegenRuntimeAssumption == None \notin Signatures \cup Ids

\* FALSE: LSFG_3_1, TRUE: LSFG_3_1P (conf.performance).
Backends == BOOLEAN

VARIABLES
    runtimes,    \* backend -> [sig, contexts, pending]; contexts: id -> the
                 \* signature its creator asked for
    unfinished   \* contexts with GPU work that has not completed

runtimeVars == <<runtimes, unfinished>>

Empty == [i \in {} |-> None]
Down  == [sig |-> None, contexts |-> Empty, pending |-> {}]

IsUp(r) == r.sig # None
Held(r) == DOMAIN r.contexts
Without(f, S) == [i \in DOMAIN f \ S |-> f[i]]

RuntimeInit ==
    /\ runtimes = [b \in Backends |-> Down]
    /\ unfinished = {}

\* resetRuntime(), once the last context is gone.
Swept(r) == IF Held(r) = {} THEN Down ELSE r

\* collectCompletedContextDeletes(): every pending context is waited for again;
\* the ones in late time out again.
Late(r) == SUBSET (r.pending \cap unfinished)
Collected(r, late) ==
    IF r.pending = {} THEN r
    ELSE Swept([r EXCEPT !.contexts = Without(@, r.pending \ late),
                         !.pending = late])
AfterCollect(r, late) == unfinished \ (r.pending \ late)

\* initialize(): ok, conflict (contexts of another signature are alive) or
\* failed (the device could not be built).
Initialize(b, sig, result) ==
    \E late \in Late(runtimes[b]) :
       LET r == Collected(runtimes[b], late) IN
       /\ unfinished' = AfterCollect(runtimes[b], late)
       /\ \/ /\ r.sig = sig /\ result = "ok"
             /\ runtimes' = [runtimes EXCEPT ![b] = r]
          \/ /\ r.sig # sig /\ Held(r) # {} /\ result = "conflict"
             /\ runtimes' = [runtimes EXCEPT ![b] = r]
          \/ /\ r.sig # sig /\ Held(r) = {} /\ result \in {"ok", "failed"}
             /\ runtimes' = [runtimes EXCEPT ![b] =
                               IF result = "ok" THEN [Down EXCEPT !.sig = sig]
                               ELSE Down]

\* validateOutputCount() is not called.
Accepts_Any(r, sig) == IsUp(r)
Accepts(r, sig) == IsUp(r) /\ sig.outputs = r.sig.outputs

\* create(Adaptive)ContextFromAHB(): the caller asks for the outputs it has.
CreateContext(b, id, sig) ==
    /\ Accepts(runtimes[b], sig)
    /\ runtimes' = [runtimes EXCEPT ![b].contexts =
                      [i \in Held(runtimes[b]) \cup {id} |->
                         IF i = id THEN sig ELSE runtimes[b].contexts[i]]]
    /\ UNCHANGED unfinished

\* deleteContext(): the bounded wait may expire.
Deleted(r, id) == Swept([r EXCEPT !.contexts = Without(@, {id}), !.pending = @ \ {id}])
DeleteContext(b, id) ==
    \/ /\ id \notin Held(runtimes[b])
       /\ UNCHANGED runtimeVars
    \/ /\ id \in Held(runtimes[b])
       /\ runtimes' = [runtimes EXCEPT ![b] = Deleted(@, id)]
       /\ unfinished' = unfinished \ {id}
    \/ /\ id \in Held(runtimes[b]) \cap unfinished
       /\ runtimes' = [runtimes EXCEPT ![b].pending = @ \cup {id}]
       /\ UNCHANGED unfinished

\* finalize(): either every context completes, or all of them are marked for
\* deletion.
Finalized(r, late) ==
    IF late = {} THEN Down ELSE [r EXCEPT !.pending = Held(r)]
Finalize(b) ==
    \E late \in SUBSET (Held(runtimes[b]) \cap unfinished) :
       /\ runtimes' = [runtimes EXCEPT
                         ![b] = Finalized(Collected(@, @.pending \cap late), late)]
       /\ unfinished' = unfinished \ (Held(runtimes[b]) \ late)

\* presentContextWithCount(): needs the context, in the runtime it is asked of,
\* and a runtime with that many outputs.
Dispatchable(b, id, outputs) ==
    /\ IsUp(runtimes[b])
    /\ outputs <= runtimes[b].sig.outputs
    /\ id \in Held(runtimes[b])

GpuCompletes ==
    /\ unfinished # {}
    /\ \E id \in unfinished : unfinished' = unfinished \ {id}
    /\ UNCHANGED runtimes
=============================================================================
