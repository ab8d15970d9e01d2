------------------------ MODULE SwapchainHooks_proofs ------------------------
(***************************************************************************)
(* The safety properties of the swapchain hooks, for any number of         *)
(* threads, swapchains, objects and configurations.                        *)
(*                                                                         *)
(* Inv, for the presents: what a context is dropped by is either a hook    *)
(* that holds presentMutex, a hook that has just found it free, or a       *)
(* creation that owns the object alone because no map entry and no other   *)
(* thread refers to it yet.                                                *)
(*                                                                         *)
(* Reg, for the map: whoever makes or destroys a driver's swapchain has it *)
(* to himself, off the map and out of the application's hands, and every   *)
(* context can be found, in the map or in the hands of one hook.           *)
(*                                                                         *)
(* Run, for the runtimes: every context that is to stay belongs to the     *)
(* object that it was built for, and fits the device it lives on.          *)
(***************************************************************************)
EXTENDS SwapchainHooks, TLAPS

\* Where a thread holds the presentMutex of the object it works on.
Holding == {"poll", "enter", "generate", "destroyReset"}

\* Where a thread is about to take it.
Locking == {"lock", "destroyLock"}

\* Where a creation may have an object of its own that it has not published.
Creating == {"configure", "reread", "finalizeP", "finalize", "initialize",
             "conflict", "build", "built", "fallback", "retire", "retireLock",
             "finish"}

\* A record is no more than its fields.
IsObject(r) == r = [handle |-> r.handle, mode |-> r.mode, built |-> r.built]
IsCall(c) ==
    c = [old |-> c.old, h |-> c.h, o |-> c.o, retired |-> c.retired,
         failed |-> c.failed, conf |-> c.conf, stamp |-> c.stamp]

\* The records and functions have the fields and domains they are given.
Shape ==
    /\ pc = [t \in Threads |-> pc[t]]
    /\ call = [t \in Threads |-> call[t]] /\ \A t \in Threads : IsCall(call[t])
    /\ object = [o \in Objects |-> object[o]]
    /\ \A o \in Objects : IsObject(object[o])
    /\ mutex \in [Objects -> Threads \cup {None}]
    /\ registry \in [Handles -> Objects \cup {None}]

\* Whoever works on a locked object is its holder.
Owner ==
    \A t \in Threads : pc[t] \in Holding =>
        call[t].o \in Objects /\ mutex[call[t].o] = t

\* Whoever generates has a context.
InUse ==
    \A t \in Threads : pc[t] \in {"enter", "generate"} =>
        HasContext(call[t].o)

\* What a hook took from the map is an object, and what it replaces a handle.
Found ==
    \A t \in Threads :
        /\ call[t].old \in Handles \cup {None}
        /\ pc[t] \in Locking => call[t].o \in Objects
        /\ pc[t] \in Creating => call[t].o \in Objects \cup {None}
        /\ pc[t] \in {"readOld", "create"} => call[t].o = None

\* An object that a creation has made and not published is nobody else's.
Private ==
    \A t \in Threads : pc[t] \in Creating /\ call[t].o # None =>
        /\ \A h \in Handles : registry[h] # call[t].o
        /\ call[t].retired # call[t].o
        /\ \A u \in Threads \ {t} : call[u].o # call[t].o
                                    /\ call[u].retired # call[t].o

Inv == Shape /\ Owner /\ InUse /\ Found /\ Private

\* What a step of thread t on object o leaves alone.
Others(t) == \A u \in Threads \ {t} : pc'[u] = pc[u] /\ call'[u] = call[u]
OnlyObject(o) ==
    /\ object' = [p \in Objects |-> object'[p]] /\ IsObject(object'[o])
    /\ \A p \in Objects \ {o} : object'[p] = object[p]

-----------------------------------------------------------------------------
USE FramegenRuntimeAssumption, SwapchainHooksAssumption
    DEF Goto, Return, NoCall, NoObject, Objects, IsCall, IsObject, HasContext,
        PresentReturn

\* Nobody is in a hook and no object has a context at first.
LEMMA InitInv == Init => Inv
  BY DEF Init, Inv, Shape, Owner, InUse, Found, Private, Holding, Locking, Creating

\* Steps of no hook leave all of the invariant's variables alone.
LEMMA StutterKeeps ==
    ASSUME Inv, UNCHANGED <<pc, call, object, mutex, registry>>
    PROVE  Inv'
  BY DEF Inv, Shape, Owner, InUse, Found, Private

-----------------------------------------------------------------------------
(* myvkCreateSwapchainKHR *)

\* A creation that begins refers to the old object but owns none.
LEMMA CreateBeginKeeps ==
    ASSUME Inv, NEW t \in Threads, NEW old \in Handles \cup {None}, CreateBegin(t, old)
    PROVE  Inv'
<1>1. Shape'
  BY DEF Inv, Shape, CreateBegin
<1>2. Owner'
  BY DEF Inv, Shape, Owner, Found, Holding, Locking, CreateBegin
<1>3. InUse'
  BY DEF Inv, Shape, Owner, InUse, Private, Holding, Creating, CreateBegin
<1>4. Found'
  BY DEF Inv, Shape, Found, Locking, Creating, CreateBegin
<1>5. Private'
  BY DEF Inv, Shape, Found, Private, Creating, CreateBegin
<1> QED BY <1>1, <1>2, <1>3, <1>4, <1>5 DEF Inv

\* Reading the old object only forgets that it was read.
LEMMA ReadOldKeeps ==
    ASSUME Inv, NEW t \in Threads, ReadOld(t)
    PROVE  Inv'
<1>1. Shape'
  BY DEF Inv, Shape, ReadOld
<1>2. Others(t) /\ pc'[t] = "create" /\ call'[t].o = call[t].o
  BY DEF Inv, Shape, Others, ReadOld
<1>3. pc[t] = "readOld" /\ UNCHANGED <<object, mutex, registry>>
  BY DEF ReadOld
<1>4. call'[t].retired = None /\ call'[t].old = call[t].old
  BY DEF Inv, Shape, ReadOld
<1>5. call[t].o = None
  BY <1>3 DEF Inv, Found
<1>6. Owner'
  BY <1>2, <1>3 DEF Inv, Owner, Others, Holding
<1>7. InUse'
  BY <1>2, <1>3 DEF Inv, InUse, Others
<1>8. Found'
  BY <1>2, <1>4, <1>5 DEF Inv, Found, Others, Locking, Creating
<1>9. Private'
  BY <1>2, <1>3, <1>4, <1>5 DEF Inv, Private, Others, Creating
<1> QED BY <1>1, <1>6, <1>7, <1>8, <1>9 DEF Inv

\* The object of a modified swapchain is one that nobody refers to.
LEMMA CreateModifiedKeeps ==
    ASSUME Inv, NEW t \in Threads, CreateModified(t)
    PROVE  Inv'
<1>1. PICK h \in Handles, o \in Objects :
        /\ Unused(o)
        /\ object' = [object EXCEPT ![o] = [NoObject EXCEPT !.handle = h,
                                               !.mode = call[t].conf.mode]]
        /\ call' = [call EXCEPT ![t].h = h, ![t].o = o]
  BY DEF CreateModified
<1>2. pc[t] = "create" /\ pc' = [pc EXCEPT ![t] = "configure"] /\ UNCHANGED <<registry, mutex>>
  BY DEF CreateModified
<1>3. Shape'
  <2>1. pc' = [u \in Threads |-> pc'[u]] /\ call' = [u \in Threads |-> call'[u]]
    BY <1>1, <1>2 DEF Inv, Shape
  <2>2. \A u \in Threads : IsCall(call'[u])
    BY <1>1 DEF Inv, Shape
  <2>3. object' = [p \in Objects |-> object'[p]] /\ \A p \in Objects : IsObject(object'[p])
    BY <1>1 DEF Inv, Shape
  <2> QED BY <1>2, <2>1, <2>2, <2>3 DEF Inv, Shape
<1>4. /\ Others(t) /\ pc'[t] = "configure"
      /\ call'[t].o = o /\ call'[t].retired = call[t].retired
      /\ call'[t].old = call[t].old
  <2>1. Others(t) /\ pc'[t] = "configure"
    BY <1>1, <1>2 DEF Inv, Shape, Others
  <2>2. call'[t] = [[call[t] EXCEPT !.h = h] EXCEPT !.o = o]
    BY <1>1 DEF Inv, Shape
  <2>3. IsCall(call[t])
    BY DEF Inv, Shape
  <2>4. /\ call'[t].o = o /\ call'[t].retired = call[t].retired
        /\ call'[t].old = call[t].old
    BY <2>2, <2>3
  <2> QED BY <2>1, <2>4
<1>5. \A p \in Objects \ {o} : object'[p] = object[p]
  BY <1>1 DEF Inv, Shape
<1>6. /\ \A k \in Handles : registry[k] # o
      /\ \A u \in Threads : call[u].o # o /\ call[u].retired # o
  BY <1>1 DEF Unused
<1>7. Owner'
  BY <1>2, <1>4 DEF Inv, Owner, Others, Holding
<1>8. InUse'
  BY <1>4, <1>5, <1>6 DEF Inv, Owner, InUse, Others, Holding
<1>9. Found'
  BY <1>4 DEF Inv, Found, Others, Locking, Creating
<1>10. Private'
  BY <1>2, <1>4, <1>6 DEF Inv, Private, Others, Creating
<1> QED BY <1>3, <1>7, <1>8, <1>9, <1>10 DEF Inv

\* A native swapchain has no object until it is published.
LEMMA CreatePassThroughKeeps ==
    ASSUME Inv, NEW t \in Threads, CreatePassThrough(t)
    PROVE  Inv'
<1>1. Shape'
  BY DEF Inv, Shape, CreatePassThrough, DriverCreates
<1>2. Owner'
  BY DEF Inv, Shape, Owner, Found, Holding, Locking, CreatePassThrough, DriverCreates
<1>3. InUse'
  BY DEF Inv, Shape, Owner, InUse, Private, Holding, Creating, CreatePassThrough, DriverCreates
<1>4. Found'
  <2>1. Others(t) /\ pc'[t] = "retire"
    BY DEF Inv, Shape, Others, CreatePassThrough
  <2>2. call'[t].old = call[t].old /\ call'[t].o \in {call[t].o, None}
    BY DEF Inv, Shape, CreatePassThrough
  <2> QED BY <2>1, <2>2 DEF Inv, Found, Others, Locking, Creating, CreatePassThrough
<1>5. Private'
  BY DEF Inv, Shape, Found, Private, Creating, CreatePassThrough, DriverCreates
<1> QED BY <1>1, <1>2, <1>3, <1>4, <1>5 DEF Inv

\* A creation that the driver refuses leaves with nothing.
LEMMA CreateRefusedKeeps ==
    ASSUME Inv, NEW t \in Threads, CreateRefused(t)
    PROVE  Inv'
<1>1. Shape'
  BY DEF Inv, Shape, CreateRefused
<1>2. Owner'
  BY DEF Inv, Shape, Owner, Found, Holding, Locking, CreateRefused
<1>3. InUse'
  BY DEF Inv, Shape, Owner, InUse, Private, Holding, Creating, CreateRefused
<1>4. Found'
  BY DEF Inv, Shape, Found, Locking, Creating, CreateRefused
<1>5. Private'
  BY DEF Inv, Shape, Found, Private, Creating, CreateRefused
<1> QED BY <1>1, <1>2, <1>3, <1>4, <1>5 DEF Inv

\* The constructor's look at the file moves the thread only.
LEMMA CtorCheckKeeps ==
    ASSUME Inv, NEW t \in Threads, CtorCheck(t)
    PROVE  Inv'
<1>1. /\ pc[t] = "configure" /\ UNCHANGED <<registry, object, mutex>>
      /\ \/ call' = call /\ pc' = [pc EXCEPT ![t] = "reread"]
         \/ call' = [call EXCEPT ![t].conf = conf] /\ pc' = [pc EXCEPT ![t] = "initialize"]
  BY DEF CtorCheck
<1>2. Shape'
  <2>1. pc' = [u \in Threads |-> pc'[u]] /\ call' = [u \in Threads |-> call'[u]]
    BY <1>1 DEF Inv, Shape
  <2>2. \A u \in Threads : IsCall(call'[u])
    BY <1>1 DEF Inv, Shape
  <2> QED BY <1>1, <2>1, <2>2 DEF Inv, Shape
<1>3. /\ Others(t) /\ pc'[t] \in {"reread", "initialize"}
      /\ call'[t].o = call[t].o /\ call'[t].retired = call[t].retired
      /\ call'[t].old = call[t].old
  BY <1>1 DEF Inv, Shape, Others
<1>4. Owner'
  BY <1>1, <1>3 DEF Inv, Owner, Others, Holding
<1>5. InUse'
  BY <1>1, <1>3 DEF Inv, InUse, Others
<1>6. Found'
  BY <1>1, <1>3 DEF Inv, Found, Others, Locking, Creating
<1>7. Private'
  BY <1>1, <1>3 DEF Inv, Private, Others, Creating
<1> QED BY <1>2, <1>4, <1>5, <1>6, <1>7 DEF Inv

\* Reading the file again changes configurations, no object.
LEMMA CtorRereadKeeps ==
    ASSUME Inv, NEW t \in Threads, CtorReread(t)
    PROVE  Inv'
<1>1. Shape'
  BY DEF Inv, Shape, CtorReread
<1>2. Owner'
  BY DEF Inv, Shape, Owner, Found, Holding, Locking, CtorReread
<1>3. InUse'
  BY DEF Inv, Shape, Owner, InUse, Private, Holding, Creating, CtorReread
<1>4. Found'
  <2>1. Others(t) /\ pc'[t] = "finalizeP"
    BY DEF Inv, Shape, Others, CtorReread
  <2>2. call'[t].old = call[t].old /\ call'[t].o \in {call[t].o, None}
    BY DEF Inv, Shape, CtorReread
  <2> QED BY <2>1, <2>2 DEF Inv, Found, Others, Locking, Creating, CtorReread
<1>5. Private'
  BY DEF Inv, Shape, Found, Private, Creating, CtorReread
<1> QED BY <1>1, <1>2, <1>3, <1>4, <1>5 DEF Inv

\* Finalizing a runtime leaves every object's context where it is.
LEMMA CtorFinalizeKeeps ==
    ASSUME Inv, NEW t \in Threads, CtorFinalize(t)
    PROVE  Inv'
<1>1. /\ pc[t] \in {"finalizeP", "finalize"} /\ UNCHANGED <<call, registry, object, mutex>>
      /\ \/ pc' = [pc EXCEPT ![t] = "finalize"]
         \/ pc' = [pc EXCEPT ![t] = "initialize"]
  BY DEF CtorFinalize
<1>2. Shape'
  BY <1>1 DEF Inv, Shape
<1>3. /\ Others(t) /\ pc'[t] \in {"finalize", "initialize"} /\ call'[t] = call[t]
  BY <1>1 DEF Inv, Shape, Others
<1>4. Owner'
  BY <1>1, <1>3 DEF Inv, Owner, Others, Holding
<1>5. InUse'
  BY <1>1, <1>3 DEF Inv, InUse, Others
<1>6. Found'
  BY <1>1, <1>3 DEF Inv, Found, Others, Locking, Creating
<1>7. Private'
  BY <1>1, <1>3 DEF Inv, Private, Others, Creating
<1> QED BY <1>2, <1>4, <1>5, <1>6, <1>7 DEF Inv

\* Initializing a runtime changes no object.
LEMMA CtorInitializeKeeps ==
    ASSUME Inv, NEW t \in Threads, CtorInitialize(t)
    PROVE  Inv'
<1>1. Shape'
  BY DEF Inv, Shape, CtorInitialize
<1>2. Owner'
  BY DEF Inv, Shape, Owner, Found, Holding, Locking, CtorInitialize
<1>3. InUse'
  BY DEF Inv, Shape, Owner, InUse, Private, Holding, Creating, CtorInitialize
<1>4. Found'
  BY DEF Inv, Shape, Found, Locking, Creating, CtorInitialize
<1>5. Private'
  BY DEF Inv, Shape, Found, Private, Creating, CtorInitialize
<1> QED BY <1>1, <1>2, <1>3, <1>4, <1>5 DEF Inv

\* A context is built for an object that is the creation's own.
LEMMA CtorBuildKeeps ==
    ASSUME Inv, NEW t \in Threads, CtorBuild(t)
    PROVE  Inv'
<1>1. Shape'
  BY DEF Inv, Shape, CtorBuild
<1>2. Owner'
  BY DEF Inv, Shape, Owner, Found, Holding, Locking, CtorBuild
<1>3. InUse'
  BY DEF Inv, Shape, Owner, InUse, Private, Holding, Creating, CtorBuild
<1>4. Found'
  BY DEF Inv, Shape, Found, Locking, Creating, CtorBuild
<1>5. Private'
  BY DEF Inv, Shape, Found, Private, Creating, CtorBuild
<1> QED BY <1>1, <1>2, <1>3, <1>4, <1>5 DEF Inv

\* A constructor that succeeds goes on to the retirement.
LEMMA CtorDoneKeeps ==
    ASSUME Inv, NEW t \in Threads, CtorDone(t)
    PROVE  Inv'
<1>1. Shape'
  BY DEF Inv, Shape, CtorDone
<1>2. Owner'
  BY DEF Inv, Shape, Owner, Found, Holding, Locking, CtorDone
<1>3. InUse'
  BY DEF Inv, Shape, Owner, InUse, Private, Holding, Creating, CtorDone
<1>4. Found'
  BY DEF Inv, Shape, Found, Locking, Creating, CtorDone
<1>5. Private'
  BY DEF Inv, Shape, Found, Private, Creating, CtorDone
<1> QED BY <1>1, <1>2, <1>3, <1>4, <1>5 DEF Inv

\* A constructor that throws drops the context of its own object only.
LEMMA CtorThrowsKeeps ==
    ASSUME Inv, NEW t \in Threads, CtorThrows(t)
    PROVE  Inv'
<1>1. Shape'
  BY DEF Inv, Shape, CtorThrows
<1>2. Owner'
  BY DEF Inv, Shape, Owner, Found, Holding, Locking, CtorThrows
<1>3. InUse'
  BY DEF Inv, Shape, Owner, InUse, Private, Holding, Creating, CtorThrows
<1>4. Found'
  BY DEF Inv, Shape, Found, Locking, Creating, CtorThrows
<1>5. Private'
  BY DEF Inv, Shape, Found, Private, Creating, CtorThrows
<1> QED BY <1>1, <1>2, <1>3, <1>4, <1>5 DEF Inv

\* What a creation drops is its own, so nobody is generating with it.
LEMMA FallbackKeeps ==
    ASSUME Inv, NEW t \in Threads, Fallback(t)
    PROVE  Inv'
<1>1. /\ pc[t] = "fallback" /\ pc' = [pc EXCEPT ![t] = "retire"]
      /\ UNCHANGED <<registry, mutex>>
      /\ object' = [object EXCEPT ![call[t].o] = NoObject]
  BY DEF Fallback
<1>2. PICK h : call' = [call EXCEPT ![t].failed = call[t].h, ![t].h = h, ![t].o = None]
  BY DEF Fallback
<1>3. Shape'
  <2>1. pc' = [u \in Threads |-> pc'[u]] /\ call' = [u \in Threads |-> call'[u]]
    BY <1>1, <1>2 DEF Inv, Shape
  <2>2. \A u \in Threads : IsCall(call'[u])
    BY <1>2 DEF Inv, Shape
  <2>3. object' = [p \in Objects |-> object'[p]] /\ \A p \in Objects : IsObject(object'[p])
    BY <1>1 DEF Inv, Shape
  <2> QED BY <1>1, <2>1, <2>2, <2>3 DEF Inv, Shape
<1>4. /\ Others(t) /\ pc'[t] = "retire"
      /\ call'[t].o = None /\ call'[t].retired = call[t].retired
      /\ call'[t].old = call[t].old
  BY <1>1, <1>2 DEF Inv, Shape, Others
<1>5. \A p \in Objects \ {call[t].o} : object'[p] = object[p]
  BY <1>1 DEF Inv, Shape
<1>6. Owner'
  BY <1>1, <1>4 DEF Inv, Owner, Others, Holding
<1>7. InUse'
  <2> SUFFICES ASSUME NEW u \in Threads, pc'[u] \in {"enter", "generate"}
               PROVE  HasContext(call[u].o)'
    BY DEF InUse
  <2>1. u # t /\ pc[u] \in {"enter", "generate"} /\ call'[u] = call[u]
    BY <1>4 DEF Others
  <2>2. call[u].o \in Objects /\ HasContext(call[u].o)
    BY <2>1 DEF Inv, Owner, InUse, Holding
  <2>3. call[u].o # call[t].o
    BY <1>1, <2>1, <2>2 DEF Inv, Private, Creating
  <2> QED BY <1>5, <2>1, <2>2, <2>3
<1>8. Found'
  BY <1>4 DEF Inv, Found, Others, Locking, Creating
<1>9. Private'
  BY <1>1, <1>4 DEF Inv, Private, Others, Creating
<1> QED BY <1>3, <1>6, <1>7, <1>8, <1>9 DEF Inv

\* The old object leaves the map before it is waited for; it was in the map, so
\* no creation has it to itself.
LEMMA RetireDetachKeeps ==
    ASSUME Inv, NEW t \in Threads, RetireDetach(t)
    PROVE  Inv'
<1> DEFINE o == IF RetiresOld(t) THEN registry[call[t].old] ELSE None
<1>1. /\ call' = [call EXCEPT ![t].retired = o]
      /\ \/ pc' = [pc EXCEPT ![t] = "finish"]
         \/ pc' = [pc EXCEPT ![t] = "retireLock"]
  BY DEF RetireDetach
<1>0. o # None => \E k \in Handles : registry[k] = o
  BY DEF Inv, Found, RetiresOld
<1>2. /\ pc[t] = "retire" /\ UNCHANGED <<object, mutex>>
      /\ \/ registry' = registry
         \/ registry' = [registry EXCEPT ![call[t].old] = None]
  BY DEF RetireDetach, Detached
<1>3. Shape'
  <2>1. pc' = [u \in Threads |-> pc'[u]] /\ call' = [u \in Threads |-> call'[u]]
    BY <1>1 DEF Inv, Shape
  <2>2. \A u \in Threads : IsCall(call'[u])
    BY <1>1 DEF Inv, Shape
  <2>3. registry' \in [Handles -> Objects \cup {None}]
    BY <1>2 DEF Inv, Shape
  <2> QED BY <1>2, <2>1, <2>2, <2>3 DEF Inv, Shape
<1>4. /\ Others(t) /\ pc'[t] \in {"finish", "retireLock"}
      /\ call'[t].o = call[t].o /\ call'[t].retired = o
      /\ call'[t].old = call[t].old
  BY <1>1 DEF Inv, Shape, Others
<1>5. \A k \in Handles : registry'[k] \in {registry[k], None}
  BY <1>2 DEF Inv, Shape
<1> HIDE DEF o
<1>6. Owner'
  BY <1>2, <1>4 DEF Inv, Owner, Others, Holding
<1>7. InUse'
  BY <1>2, <1>4 DEF Inv, InUse, Others
<1>8. Found'
  BY <1>2, <1>4 DEF Inv, Found, Others, Locking, Creating
<1>9. Private'
  <2> SUFFICES ASSUME NEW u \in Threads, pc'[u] \in Creating, call'[u].o # None
               PROVE  /\ \A k \in Handles : registry'[k] # call'[u].o
                      /\ call'[u].retired # call'[u].o
                      /\ \A v \in Threads \ {u} : call'[v].o # call'[u].o
                                                 /\ call'[v].retired # call'[u].o
    BY DEF Private
  <2>1. pc[u] \in Creating /\ call'[u].o = call[u].o /\ call[u].o # None
    BY <1>2, <1>4 DEF Others, Creating
  <2>2. /\ \A k \in Handles : registry[k] # call[u].o
        /\ call[u].retired # call[u].o
        /\ \A v \in Threads \ {u} : call[v].o # call[u].o /\ call[v].retired # call[u].o
    BY <2>1 DEF Inv, Private
  <2>3. o # call[u].o
    BY <1>0, <2>1, <2>2
  <2>4. \A v \in Threads : call'[v].o = call[v].o /\ call'[v].retired \in {call[v].retired, o}
    BY <1>4 DEF Others
  <2> QED BY <1>4, <1>5, <2>1, <2>2, <2>3, <2>4 DEF Others
<1> QED BY <1>3, <1>6, <1>7, <1>8, <1>9 DEF Inv

\* The retired object's context goes while its presentMutex is free.
LEMMA RetireResetKeeps ==
    ASSUME Inv, NEW t \in Threads, RetireReset(t)
    PROVE  Inv'
<1>1. Shape'
  BY DEF Inv, Shape, RetireReset, MayRetire
<1>2. Owner'
  BY DEF Inv, Shape, Owner, Found, Holding, Locking, RetireReset, MayRetire
<1>3. InUse'
  BY DEF Inv, Shape, Owner, InUse, Private, Holding, Creating, RetireReset, MayRetire
<1>4. Found'
  <2>1. Others(t) /\ pc'[t] = "finish"
    BY DEF Inv, Shape, Others, RetireReset
  <2>2. call'[t].old = call[t].old /\ call'[t].o \in {call[t].o, None}
    BY DEF Inv, Shape, RetireReset
  <2> QED BY <2>1, <2>2 DEF Inv, Found, Others, Locking, Creating, RetireReset
<1>5. Private'
  BY DEF Inv, Shape, Found, Private, Creating, RetireReset, MayRetire
<1> QED BY <1>1, <1>2, <1>3, <1>4, <1>5 DEF Inv

\* The new object is published: it was the creation's own, or nobody's.
LEMMA CreateFinishKeeps ==
    ASSUME Inv, NEW t \in Threads, CreateFinish(t)
    PROVE  Inv'
<1>1. /\ pc[t] = "finish" /\ mutex' = mutex
      /\ pc' = [pc EXCEPT ![t] = "idle"] /\ call' = [call EXCEPT ![t] = NoCall]
  BY DEF CreateFinish
<1>2. Others(t) /\ pc'[t] = "idle" /\ call'[t] = NoCall
  BY <1>1 DEF Inv, Shape, Others
<1>3. /\ pc' = [u \in Threads |-> pc'[u]] /\ call' = [u \in Threads |-> call'[u]]
      /\ \A u \in Threads : IsCall(call'[u])
  BY <1>1 DEF Inv, Shape
<1>4. Owner'
  BY <1>1, <1>2 DEF Inv, Owner, Others, Holding
<1>5. Found'
  BY <1>2 DEF Inv, Found, Others, Locking, Creating
<1>6. CASE registry' = registry /\ object' = object
  <2>1. Shape'
    BY <1>1, <1>3, <1>6 DEF Inv, Shape
  <2>2. InUse'
    BY <1>2, <1>6 DEF Inv, InUse, Others
  <2>3. Private'
    BY <1>2, <1>6 DEF Inv, Private, Others, Creating
  <2> QED BY <1>4, <1>5, <2>1, <2>2, <2>3 DEF Inv
<1>7. CASE /\ call[t].o # None /\ object' = object
           /\ registry' = [registry EXCEPT ![call[t].h] = call[t].o]
  <2>1. \A u \in Threads \ {t} : call[u].o # call[t].o /\ call[u].retired # call[t].o
    BY <1>1, <1>7 DEF Inv, Private, Creating
  <2>2. \A k \in Handles : registry'[k] \in {registry[k], call[t].o}
    BY <1>7 DEF Inv, Shape
  <2>3. Shape'
    <3>1. call[t].o \in Objects
      BY <1>1, <1>7 DEF Inv, Found, Creating
    <3>2. registry' \in [Handles -> Objects \cup {None}]
      BY <1>7, <3>1 DEF Inv, Shape
    <3> QED BY <1>1, <1>3, <1>7, <3>2 DEF Inv, Shape
  <2>4. InUse'
    BY <1>2, <1>7 DEF Inv, InUse, Others
  <2>5. Private'
    BY <1>2, <2>1, <2>2 DEF Inv, Private, Others, Creating
  <2> QED BY <1>4, <1>5, <2>3, <2>4, <2>5 DEF Inv
<1>8. ASSUME NEW o \in Objects, Unused(o),
             registry' = [registry EXCEPT ![call[t].h] = o],
             object' = [object EXCEPT ![o] = [NoObject EXCEPT !.handle = call[t].h]]
      PROVE  Inv'
  <2>1. \A u \in Threads : call[u].o # o /\ call[u].retired # o
    BY <1>8 DEF Unused
  <2>2. /\ \A k \in Handles : registry'[k] \in {registry[k], o}
        /\ \A p \in Objects \ {o} : object'[p] = object[p]
    BY <1>8 DEF Inv, Shape
  <2>3. Shape'
    <3>1. object' = [p \in Objects |-> object'[p]] /\ \A p \in Objects : IsObject(object'[p])
      BY <1>8 DEF Inv, Shape
    <3>2. registry' \in [Handles -> Objects \cup {None}]
      BY <1>8 DEF Inv, Shape
    <3> QED BY <1>1, <1>3, <3>1, <3>2 DEF Inv, Shape
  <2>4. InUse'
    BY <1>2, <2>1, <2>2 DEF Inv, Owner, InUse, Others, Holding
  <2>5. Private'
    BY <1>2, <2>1, <2>2 DEF Inv, Private, Others, Creating
  <2> QED BY <1>4, <1>5, <2>3, <2>4, <2>5 DEF Inv
<1> QED BY <1>6, <1>7, <1>8 DEF CreateFinish

-----------------------------------------------------------------------------
(* myvkQueuePresentKHR *)

\* A present finds an object in the map, which no creation owns.
LEMMA PresentFindKeeps ==
    ASSUME Inv, NEW t \in Threads, NEW h \in Handles, PresentFind(t, h)
    PROVE  Inv'
<1>1. Shape'
  BY DEF Inv, Shape, PresentFind
<1>2. Owner'
  BY DEF Inv, Shape, Owner, Found, Holding, Locking, PresentFind
<1>3. InUse'
  BY DEF Inv, Shape, Owner, InUse, Private, Holding, Creating, PresentFind
<1>4. Found'
  BY DEF Inv, Shape, Found, Locking, Creating, PresentFind
<1>5. Private'
  BY DEF Inv, Shape, Found, Private, Creating, PresentFind
<1> QED BY <1>1, <1>2, <1>3, <1>4, <1>5 DEF Inv

\* A present becomes the holder of a presentMutex that was free.
LEMMA PresentLockKeeps ==
    ASSUME Inv, NEW t \in Threads, PresentLock(t)
    PROVE  Inv'
<1>1. Shape'
  BY DEF Inv, Shape, PresentLock
<1>2. Owner'
  BY DEF Inv, Shape, Owner, Found, Holding, Locking, PresentLock
<1>3. InUse'
  BY DEF Inv, Shape, Owner, InUse, Private, Holding, Creating, PresentLock
<1>4. Found'
  <2>1. Others(t) /\ pc'[t] = "poll"
    BY DEF Inv, Shape, Others, PresentLock
  <2>2. call'[t].old = call[t].old /\ call'[t].o \in {call[t].o, None}
    BY DEF Inv, Shape, PresentLock
  <2> QED BY <2>1, <2>2 DEF Inv, Found, Others, Locking, Creating, PresentLock
<1>5. Private'
  BY DEF Inv, Shape, Found, Private, Creating, PresentLock
<1> QED BY <1>1, <1>2, <1>3, <1>4, <1>5 DEF Inv

\* A present that gives presentMutex back may have changed the object it held.
LEMMA PresentReturnKeeps ==
    ASSUME Inv, NEW t \in Threads, pc[t] \in {"poll", "generate"},
           PresentReturn(t), OnlyObject(call[t].o), registry' = registry
    PROVE  Inv'
<1>1. call[t].o \in Objects /\ mutex[call[t].o] = t
  BY DEF Inv, Owner, Holding
<1>2. Shape'
  <2>1. pc' = [u \in Threads |-> pc'[u]] /\ call' = [u \in Threads |-> call'[u]]
    BY DEF Inv, Shape
  <2>2. \A u \in Threads : IsCall(call'[u])
    BY DEF Inv, Shape
  <2>3. object' = [p \in Objects |-> object'[p]] /\ \A p \in Objects : IsObject(object'[p])
    BY <1>1 DEF Inv, Shape, OnlyObject
  <2>4. mutex' \in [Objects -> Threads \cup {None}]
    BY DEF Inv, Shape
  <2> QED BY <2>1, <2>2, <2>3, <2>4 DEF Inv, Shape
<1>3. Others(t) /\ pc'[t] = "idle" /\ call'[t].o = None /\ call'[t].retired = None /\ call'[t].old = None
  BY DEF Inv, Shape, Others
<1>4. \A p \in Objects \ {call[t].o} : mutex'[p] = mutex[p]
  BY DEF Inv, Shape
<1>5. \A u \in Threads \ {t} : pc[u] \in Holding => call[u].o # call[t].o
  BY <1>1 DEF Inv, Owner
<1>6. Owner'
  BY <1>3, <1>4, <1>5 DEF Inv, Owner, Others, Holding
<1>7. InUse'
  BY <1>3, <1>5 DEF Inv, Owner, InUse, Others, OnlyObject, Holding
<1>8. Found'
  BY <1>3 DEF Inv, Found, Others, Locking, Creating
<1>9. Private'
  BY <1>3 DEF Inv, Private, Others, Creating
<1> QED BY <1>2, <1>6, <1>7, <1>8, <1>9 DEF Inv

\* A present that goes on to generate has seen the object's context.
LEMMA PresentRouteKeeps ==
    ASSUME Inv, NEW t \in Threads, NEW c, pc[t] = "poll",
           PresentRoute(t, c), registry' = registry,
           OnlyObject(call[t].o), object'[call[t].o].built = object[call[t].o].built
    PROVE  Inv'
<1>1. CASE PresentReturn(t)
  BY <1>1, PresentReturnKeeps
<1>2. CASE /\ HasContext(call[t].o)
           /\ call' = [call EXCEPT ![t].conf = c, ![t].stamp = 0]
           /\ pc' = [pc EXCEPT ![t] = "enter"]
           /\ mutex' = mutex
  <2>1. call[t].o \in Objects /\ mutex[call[t].o] = t
    BY DEF Inv, Owner, Holding
  <2>2. Shape'
    <3>1. pc' = [u \in Threads |-> pc'[u]] /\ call' = [u \in Threads |-> call'[u]]
      BY <1>2 DEF Inv, Shape
    <3>2. \A u \in Threads : IsCall(call'[u])
      BY <1>2 DEF Inv, Shape
    <3>3. object' = [p \in Objects |-> object'[p]] /\ \A p \in Objects : IsObject(object'[p])
      BY <2>1 DEF Inv, Shape, OnlyObject
    <3> QED BY <1>2, <3>1, <3>2, <3>3 DEF Inv, Shape
  <2>3. /\ Others(t) /\ pc'[t] = "enter"
        /\ call'[t].o = call[t].o /\ call'[t].retired = call[t].retired
        /\ call'[t].old = call[t].old
    BY <1>2 DEF Inv, Shape, Others
  <2>4. Owner'
    BY <1>2, <2>1, <2>3 DEF Inv, Owner, Others, Holding
  <2>5. InUse'
    <3>1. \A u \in Threads \ {t} : pc[u] \in Holding => call[u].o # call[t].o
      BY <2>1 DEF Inv, Owner
    <3>2. ASSUME NEW u \in Threads \ {t}, pc'[u] \in {"enter", "generate"}
          PROVE  HasContext(call[u].o)'
      BY <2>3, <3>1, <3>2 DEF Inv, Owner, InUse, Others, OnlyObject, Holding
    <3>3. HasContext(call[t].o)'
      BY <1>2, <2>3
    <3> QED BY <3>2, <3>3 DEF InUse
  <2>6. Found'
    BY <2>3 DEF Inv, Found, Others, Locking, Creating
  <2>7. Private'
    BY <2>3 DEF Inv, Private, Others, Creating
  <2> QED BY <2>2, <2>4, <2>5, <2>6, <2>7 DEF Inv
<1> QED BY <1>1, <1>2 DEF PresentRoute

\* A present that reports its swapchain out of date gives the mutex back.
LEMMA PresentStaleKeeps ==
    ASSUME Inv, NEW t \in Threads, PresentStale(t)
    PROVE  Inv'
<1>1. call[t].o \in Objects
  BY DEF Inv, Owner, Holding, PresentStale
<1>2. OnlyObject(call[t].o)
  BY <1>1 DEF Inv, Shape, OnlyObject, PresentStale
<1> QED BY <1>2, PresentReturnKeeps DEF PresentStale

\* Adopting a configuration changes the mode of the object it holds.
LEMMA PresentAdoptKeeps ==
    ASSUME Inv, NEW t \in Threads, PresentAdopt(t)
    PROVE  Inv'
<1>1. call[t].o \in Objects
  BY DEF Inv, Owner, Holding, PresentAdopt
<1>2. \/ object' = object
      \/ object' = [object EXCEPT ![call[t].o].mode = file.mode]
  BY DEF PresentAdopt
<1>3. OnlyObject(call[t].o) /\ object'[call[t].o].built = object[call[t].o].built
  BY <1>1, <1>2 DEF Inv, Shape, OnlyObject
<1> QED BY <1>3, PresentRouteKeeps DEF PresentAdopt

\* Without a change of the file the object stays as it is.
LEMMA PresentKeepKeeps ==
    ASSUME Inv, NEW t \in Threads, PresentKeep(t)
    PROVE  Inv'
<1>1. call[t].o \in Objects
  BY DEF Inv, Owner, Holding, PresentKeep
<1>2. OnlyObject(call[t].o) /\ object'[call[t].o].built = object[call[t].o].built
  BY <1>1 DEF Inv, Shape, OnlyObject, PresentKeep
<1> QED BY <1>2, PresentRouteKeeps DEF PresentKeep

\* A present that enters the context still holds the mutex.
LEMMA PresentEnterKeeps ==
    ASSUME Inv, NEW t \in Threads, PresentEnter(t)
    PROVE  Inv'
<1>1. Shape'
  BY DEF Inv, Shape, PresentEnter
<1>2. Owner'
  BY DEF Inv, Shape, Owner, Found, Holding, Locking, PresentEnter
<1>3. InUse'
  BY DEF Inv, Shape, Owner, InUse, Private, Holding, Creating, PresentEnter
<1>4. Found'
  <2>1. Others(t) /\ pc'[t] = "generate"
    BY DEF Inv, Shape, Others, PresentEnter
  <2>2. call'[t].old = call[t].old /\ call'[t].o \in {call[t].o, None}
    BY DEF Inv, Shape, PresentEnter
  <2> QED BY <2>1, <2>2 DEF Inv, Found, Others, Locking, Creating, PresentEnter
<1>5. Private'
  BY DEF Inv, Shape, Found, Private, Creating, PresentEnter
<1> QED BY <1>1, <1>2, <1>3, <1>4, <1>5 DEF Inv

\* A finished present gives the mutex back and changes no object.
LEMMA PresentDoneKeeps ==
    ASSUME Inv, NEW t \in Threads, PresentDone(t)
    PROVE  Inv'
<1>1. call[t].o \in Objects
  BY DEF Inv, Owner, Holding, PresentDone
<1>2. OnlyObject(call[t].o)
  BY <1>1 DEF Inv, Shape, OnlyObject, PresentDone
<1> QED BY <1>2, PresentReturnKeeps DEF PresentDone

\* A failed present drops the context of the object it holds.
LEMMA PresentThrowsKeeps ==
    ASSUME Inv, NEW t \in Threads, PresentThrows(t)
    PROVE  Inv'
<1>1. call[t].o \in Objects
  BY DEF Inv, Owner, Holding, PresentThrows
<1>2. OnlyObject(call[t].o)
  BY <1>1 DEF Inv, Shape, OnlyObject, PresentThrows
<1> QED BY <1>2, PresentReturnKeeps DEF PresentThrows

-----------------------------------------------------------------------------
(* myvkDestroySwapchainKHR and myvkDestroyDevice *)

\* A destruction leaves with an object that was in the map.
LEMMA DestroyDetachKeeps ==
    ASSUME Inv, NEW t \in Threads, NEW h \in Handles, DestroyDetach(t, h)
    PROVE  Inv'
<1>1. /\ pc[t] = "idle" /\ UNCHANGED <<object, mutex>>
      /\ registry' = [registry EXCEPT ![h] = None]
  BY DEF DestroyDetach, Detached
<1>2. CASE registry[h] = None
  <2>1. pc' = pc /\ call' = call
    BY <1>2 DEF DestroyDetach, threadVars
  <2>2. registry' = registry
    BY <1>1, <1>2 DEF Inv, Shape
  <2> QED BY <1>1, <2>1, <2>2, StutterKeeps
<1>3. CASE registry[h] # None
  <2>1. /\ call' = [call EXCEPT ![t] = [NoCall EXCEPT !.h = h, !.o = registry[h]]]
        /\ pc' = [pc EXCEPT ![t] = "destroyLock"]
    BY <1>3 DEF DestroyDetach
  <2>2. Shape'
    <3>1. pc' = [u \in Threads |-> pc'[u]] /\ call' = [u \in Threads |-> call'[u]]
      BY <2>1 DEF Inv, Shape
    <3>2. \A u \in Threads : IsCall(call'[u])
      BY <2>1 DEF Inv, Shape
    <3>3. registry' \in [Handles -> Objects \cup {None}]
      BY <1>1 DEF Inv, Shape
    <3> QED BY <1>1, <3>1, <3>2, <3>3 DEF Inv, Shape
  <2>3. /\ Others(t) /\ pc'[t] = "destroyLock"
        /\ call'[t].o = registry[h] /\ call'[t].retired = None /\ call'[t].old = None
    BY <2>1 DEF Inv, Shape, Others
  <2>4. registry[h] \in Objects /\ \A k \in Handles : registry'[k] \in {registry[k], None}
    BY <1>1, <1>3 DEF Inv, Shape
  <2>5. Owner'
    BY <1>1, <2>3 DEF Inv, Owner, Others, Holding
  <2>6. InUse'
    BY <1>1, <2>3 DEF Inv, InUse, Others
  <2>7. Found'
    BY <2>3, <2>4 DEF Inv, Found, Others, Locking, Creating
  <2>8. Private'
    BY <1>1, <2>3, <2>4 DEF Inv, Private, Others, Creating
  <2> QED BY <2>2, <2>5, <2>6, <2>7, <2>8 DEF Inv
<1> QED BY <1>2, <1>3

\* A destruction becomes the holder of a presentMutex that was free.
LEMMA DestroyDownstreamKeeps ==
    ASSUME Inv, NEW t \in Threads, DestroyDownstream(t)
    PROVE  Inv'
<1>1. Shape'
  BY DEF Inv, Shape, DestroyDownstream
<1>2. Owner'
  BY DEF Inv, Shape, Owner, Found, Holding, Locking, DestroyDownstream
<1>3. InUse'
  BY DEF Inv, Shape, Owner, InUse, Private, Holding, Creating, DestroyDownstream
<1>4. Found'
  <2>1. Others(t) /\ pc'[t] = "destroyReset"
    BY DEF Inv, Shape, Others, DestroyDownstream
  <2>2. call'[t].old = call[t].old /\ call'[t].o \in {call[t].o, None}
    BY DEF Inv, Shape, DestroyDownstream
  <2> QED BY <2>1, <2>2 DEF Inv, Found, Others, Locking, Creating, DestroyDownstream
<1>5. Private'
  BY DEF Inv, Shape, Found, Private, Creating, DestroyDownstream
<1> QED BY <1>1, <1>2, <1>3, <1>4, <1>5 DEF Inv

\* A destruction drops the context of the object it holds.
LEMMA DestroyResetKeeps ==
    ASSUME Inv, NEW t \in Threads, DestroyReset(t)
    PROVE  Inv'
<1>1. Shape'
  BY DEF Inv, Shape, DestroyReset
<1>2. Owner'
  BY DEF Inv, Shape, Owner, Found, Holding, Locking, DestroyReset
<1>3. InUse'
  BY DEF Inv, Shape, Owner, InUse, Private, Holding, Creating, DestroyReset
<1>4. Found'
  BY DEF Inv, Shape, Found, Locking, Creating, DestroyReset
<1>5. Private'
  BY DEF Inv, Shape, Found, Private, Creating, DestroyReset
<1> QED BY <1>1, <1>2, <1>3, <1>4, <1>5 DEF Inv

\* Destroying the device begins in no object.
LEMMA DeviceBeginKeeps ==
    ASSUME Inv, NEW t \in Threads, DeviceBegin(t)
    PROVE  Inv'
<1>1. Shape'
  BY DEF Inv, Shape, DeviceBegin
<1>2. Owner'
  BY DEF Inv, Shape, Owner, Found, Holding, Locking, DeviceBegin
<1>3. InUse'
  BY DEF Inv, Shape, Owner, InUse, Private, Holding, Creating, DeviceBegin
<1>4. Found'
  BY DEF Inv, Shape, Found, Locking, Creating, DeviceBegin
<1>5. Private'
  BY DEF Inv, Shape, Found, Private, Creating, DeviceBegin
<1> QED BY <1>1, <1>2, <1>3, <1>4, <1>5 DEF Inv

\* Destroying the device takes objects from the map one by one.
LEMMA DeviceDetachKeeps ==
    ASSUME Inv, NEW t \in Threads, DeviceDetach(t)
    PROVE  Inv'
<1>1. Shape'
  BY DEF Inv, Shape, DeviceDetach
<1>2. Owner'
  BY DEF Inv, Shape, Owner, Found, Holding, Locking, DeviceDetach
<1>3. InUse'
  BY DEF Inv, Shape, Owner, InUse, Private, Holding, Creating, DeviceDetach
<1>4. Found'
  BY DEF Inv, Shape, Found, Locking, Creating, DeviceDetach
<1>5. Private'
  BY DEF Inv, Shape, Found, Private, Creating, DeviceDetach
<1> QED BY <1>1, <1>2, <1>3, <1>4, <1>5 DEF Inv

\* It drops their contexts while their presentMutex is free.
LEMMA DeviceResetKeeps ==
    ASSUME Inv, NEW t \in Threads, DeviceReset(t)
    PROVE  Inv'
<1>1. Shape'
  BY DEF Inv, Shape, DeviceReset
<1>2. Owner'
  BY DEF Inv, Shape, Owner, Found, Holding, Locking, DeviceReset
<1>3. InUse'
  BY DEF Inv, Shape, Owner, InUse, Private, Holding, Creating, DeviceReset
<1>4. Found'
  <2>1. Others(t) /\ pc'[t] = "device"
    BY DEF Inv, Shape, Others, DeviceReset
  <2>2. call'[t].old = call[t].old /\ call'[t].o \in {call[t].o, None}
    BY DEF Inv, Shape, DeviceReset
  <2> QED BY <2>1, <2>2 DEF Inv, Found, Others, Locking, Creating, DeviceReset
<1>5. Private'
  BY DEF Inv, Shape, Found, Private, Creating, DeviceReset
<1> QED BY <1>1, <1>2, <1>3, <1>4, <1>5 DEF Inv

\* It ends with every object taken.
LEMMA DeviceDoneKeeps ==
    ASSUME Inv, NEW t \in Threads, DeviceDone(t)
    PROVE  Inv'
<1>1. Shape'
  BY DEF Inv, Shape, DeviceDone
<1>2. Owner'
  BY DEF Inv, Shape, Owner, Found, Holding, Locking, DeviceDone
<1>3. InUse'
  BY DEF Inv, Shape, Owner, InUse, Private, Holding, Creating, DeviceDone
<1>4. Found'
  BY DEF Inv, Shape, Found, Locking, Creating, DeviceDone
<1>5. Private'
  BY DEF Inv, Shape, Found, Private, Creating, DeviceDone
<1> QED BY <1>1, <1>2, <1>3, <1>4, <1>5 DEF Inv

-----------------------------------------------------------------------------
(* The invariant of the specification *)

\* Every step of vkCreateSwapchainKHR keeps the invariant,
LEMMA CreateKeeps ==
    ASSUME Inv, NEW t \in Threads, Create(t)
    PROVE  Inv'
  BY CreateBeginKeeps, ReadOldKeeps, CreateModifiedKeeps, CreatePassThroughKeeps,
     CreateRefusedKeeps, CtorCheckKeeps, CtorRereadKeeps, CtorFinalizeKeeps,
     CtorInitializeKeeps, CtorBuildKeeps, CtorDoneKeeps, CtorThrowsKeeps,
     FallbackKeeps, RetireDetachKeeps, RetireResetKeeps, CreateFinishKeeps
  DEF Create

\* of vkQueuePresentKHR,
LEMMA PresentKeeps ==
    ASSUME Inv, NEW t \in Threads, Present(t)
    PROVE  Inv'
  BY PresentFindKeeps, PresentLockKeeps, PresentStaleKeeps, PresentAdoptKeeps,
     PresentKeepKeeps, PresentEnterKeeps, PresentDoneKeeps, PresentThrowsKeeps
  DEF Present

\* of vkDestroySwapchainKHR and vkDestroyDevice,
LEMMA DestroyKeeps ==
    ASSUME Inv, NEW t \in Threads, Destroy(t) \/ DestroyDevice(t)
    PROVE  Inv'
  BY DestroyDetachKeeps, DestroyDownstreamKeeps, DestroyResetKeeps,
     DeviceBeginKeeps, DeviceDetachKeeps, DeviceResetKeeps, DeviceDoneKeeps
  DEF Destroy, DestroyDevice

\* and so does every step of the specification.
LEMMA StepKeeps == Inv /\ [Next]_vars => Inv'
<1> SUFFICES ASSUME Inv, [Next]_vars
             PROVE  Inv'
  OBVIOUS
<1>1. ASSUME NEW t \in Threads,
             Create(t) \/ Present(t) \/ Destroy(t) \/ DestroyDevice(t)
      PROVE  Inv'
  BY <1>1, CreateKeeps, PresentKeeps, DestroyKeeps
<1>2. CASE Edit \/ Gpu \/ DeviceCreate \/ UNCHANGED vars
  <2>1. UNCHANGED <<pc, call, object, mutex, registry>>
    BY <1>2 DEF Edit, Gpu, DeviceCreate, threadVars, vars
  <2> QED BY <2>1, StutterKeeps
<1> QED BY <1>1, <1>2 DEF Next

\* A thread that is past the hook's checks and generates holds presentMutex of an
\* object that has a context, whatever other threads create, destroy, reload or
\* drop: for every number of threads, swapchains, objects and configurations.
THEOREM NoContextUsedAfterRetire == Spec => []NoUseAfterRetire
<1>1. Inv => NoUseAfterRetire
  BY DEF Inv, Owner, InUse, NoUseAfterRetire, Holding
<1> QED BY InitInv, StepKeeps, <1>1, PTL DEF Spec

-----------------------------------------------------------------------------
(* The map and the driver's swapchains *)

\* Where a creation has a new object and a swapchain for it.
Ctor == {"configure", "reread", "finalizeP", "finalize", "initialize",
         "conflict", "build", "built", "fallback"}

\* Where an object has left the map and waits to be retired by its hook.
Destroying == {"destroyLock", "destroyReset", "deviceLock"}

\* What is in the variables, by where a thread is.
Typed ==
    /\ conf \in Configs /\ file \in Configs \cup {Missing}
    /\ replaced \subseteq live /\ live \subseteq Handles /\ owned \subseteq live
    /\ \A t \in Threads :
         /\ call[t].h \in Handles \cup {None}
         /\ call[t].failed \in Handles \cup {None}
         /\ pc[t] \in {"readOld", "create"} =>
              /\ call[t].conf \in Configs /\ call[t].old \in owned \cup {None}
              /\ call[t].h = None /\ call[t].failed = None
         /\ pc[t] = "destroyLock" => call[t].h \in Handles
         /\ pc[t] \in Ctor =>
              /\ call[t].o \in Objects /\ call[t].h \in Handles
              /\ call[t].conf \in Configs /\ call[t].failed = None
         /\ pc[t] = "retireLock" => call[t].retired \in Objects
         /\ pc[t] \in Destroying => call[t].o \in Objects

\* A creation's own object is the one of its swapchain, and has a context only
\* between the constructor's last step and its publication.
BuildingOf(t) ==
    /\ pc[t] \in Creating /\ call[t].o # None =>
         call[t].h # None /\ object[call[t].o].handle = call[t].h
    /\ pc[t] \in Ctor \ {"built"} => object[call[t].o].built = None
Building == \A t \in Threads : BuildingOf(t)

\* Objects that a hook has taken from the map are not in it.
Detaching(t, o) ==
    \/ pc[t] \in Destroying /\ call[t].o = o
    \/ pc[t] = "retireLock" /\ call[t].retired = o
OffTheMap ==
    \A t \in Threads, o \in Objects : Detaching(t, o) => \A h \in Handles : registry[h] # o

\* A swapchain that a hook is making or destroying is live, and nobody else has
\* it: not the application, not the map, not another hook.
Has(t, h) ==
    \/ pc[t] \in Creating /\ h \in {call[t].h, call[t].failed}
    \/ pc[t] = "destroyLock" /\ h = call[t].h
InHand ==
    \A t \in Threads, h \in Handles : Has(t, h) =>
        /\ h \in live /\ h \notin owned /\ registry[h] = None
        /\ \A u \in Threads \ {t} : ~Has(u, h)

\* The swapchain to be returned has not been replaced.
Fresh ==
    \A t \in Threads : pc[t] \in Creating /\ call[t].h # None =>
        call[t].h # call[t].failed /\ call[t].h \notin replaced

\* An object with a context is in the map or in the hands of a hook.
Accounted ==
    \A o \in Objects : HasContext(o) =>
        \/ \E h \in Handles : registry[h] = o
        \/ \E t \in Threads : (pc[t] \in Creating /\ call[t].o = o) \/ Detaching(t, o)

\* While the device goes away, one thread destroys it and the others present.
Alone ==
    /\ \A t \in Threads : pc[t] \in {"device", "deviceLock"} =>
         device = "going" /\ \A u \in Threads \ {t} : pc[u] \in Presenting
    /\ device # "up" =>
         \A t \in Threads : pc[t] \in Presenting \cup {"device", "deviceLock"}

Reg == /\ Typed /\ Building /\ OffTheMap /\ InHand /\ Fresh /\ Accounted /\ Alone
       /\ RegistryTracksDownstream /\ ReplacedIsRetired /\ NoContextOutlivesDevice

\* No swapchain exists at first.
LEMMA InitReg == Init => Reg
  BY DEF Init, Reg, Typed, Building, BuildingOf, OffTheMap, Detaching, InHand, Has, Fresh, Accounted,
     Alone, RegistryTracksDownstream, ReplacedIsRetired, NoContextOutlivesDevice,
     Creating, Ctor, Destroying, Presenting

\* What the other threads have in their hands.
LEMMA OthersHands ==
    ASSUME NEW t \in Threads, Others(t)
    PROVE  \A u \in Threads \ {t} : /\ \A h \in Handles : Has(u, h)' <=> Has(u, h)
                                   /\ \A o \in Objects : Detaching(u, o)' <=> Detaching(u, o)
  BY DEF Others, Has, Detaching

\* A change of an object that no other creation has does not touch theirs.
LEMMA OthersBuilding ==
    ASSUME Inv, Reg, NEW t \in Threads, Others(t), NEW o,
           \A p \in Objects \ {o} : object'[p] = object[p],
           \A u \in Threads \ {t} : pc[u] \in Creating => call[u].o # o
    PROVE  \A u \in Threads \ {t} : BuildingOf(u)'
<1> SUFFICES ASSUME NEW u \in Threads \ {t} PROVE BuildingOf(u)'
  OBVIOUS
<1>1. pc[u] \in Creating /\ call[u].o # None => call[u].o \in Objects \ {o}
  BY DEF Inv, Found
<1>2. pc[u] \in Ctor => pc[u] \in Creating /\ call[u].o \in Objects
  BY DEF Reg, Typed, Ctor, Creating
<1> QED BY <1>1, <1>2 DEF Others, Reg, Building, BuildingOf

\* A step inside the constructor leaves the objects and the map as they are.
LEMMA CtorMoves ==
    ASSUME Inv, Reg, NEW t \in Threads, Others(t),
           pc[t] \in Ctor, pc'[t] \in Ctor \cup {"retire"},
           pc'[t] \in Ctor \ {"built"} => pc[t] \in Ctor \ {"built"},
           UNCHANGED <<driverVars, owned, registry, object>>,
           call'[t] = [call[t] EXCEPT !.conf = call'[t].conf],
           call'[t].conf \in Configs, conf' \in Configs, file' \in Configs \cup {Missing}
    PROVE  Reg'
<1>1. /\ call'[t].o = call[t].o /\ call'[t].h = call[t].h /\ call'[t].old = call[t].old
      /\ call'[t].failed = call[t].failed /\ call'[t].retired = call[t].retired
  BY DEF Inv, Shape
<1>2. /\ UNCHANGED <<device, live, replaced, owned, registry, object>>
      /\ pc[t] \in Creating /\ pc'[t] \in Creating
      /\ pc[t] \notin Destroying \cup {"retireLock", "destroyLock"}
      /\ pc'[t] \notin Destroying \cup {"retireLock", "destroyLock", "readOld", "create"}
  BY DEF driverVars, Ctor, Creating, Destroying
<1>3. \A u \in Threads : /\ \A h \in Handles : Has(u, h)' <=> Has(u, h)
                        /\ \A o \in Objects : Detaching(u, o)' <=> Detaching(u, o)
  BY <1>1, <1>2 DEF Has, Detaching, Others
<1>4. Typed'
  BY <1>1, <1>2 DEF Reg, Typed, Others
<1>5. Building'
  BY <1>1, <1>2 DEF Reg, Building, BuildingOf, Others
<1>6. OffTheMap' /\ InHand' /\ Fresh'
  BY <1>1, <1>2, <1>3 DEF Reg, OffTheMap, InHand, Fresh, Others
<1>7. Accounted'
  BY <1>1, <1>2, <1>3 DEF Reg, Accounted, Others
<1>8. Alone'
  BY <1>1, <1>2 DEF Reg, Alone, Others, Ctor, Presenting, Creating
<1>9. RegistryTracksDownstream' /\ ReplacedIsRetired' /\ NoContextOutlivesDevice'
  BY <1>1, <1>2 DEF Reg, RegistryTracksDownstream, ReplacedIsRetired, NoContextOutlivesDevice,
     Others, Replacing, Ctor
<1> QED BY <1>4, <1>5, <1>6, <1>7, <1>8, <1>9 DEF Reg

\* A step between places where a thread has nothing in its hands; it may change
\* the mode of objects and drop contexts.
LEMMA IdleMoves ==
    ASSUME Inv, Reg, NEW t \in Threads, Others(t),
           {pc[t], pc'[t]} \cap (Creating \cup Destroying) = {},
           UNCHANGED <<live, replaced, owned, registry>>,
           device' = "gone" => device = "gone",
           \A o \in Objects : /\ object'[o].handle = object[o].handle
                              /\ object'[o].built \in {object[o].built, None},
           Typed', Alone'
    PROVE  Reg'
<1>1. {pc[t], pc'[t]} \cap (Creating \cup Ctor \cup Destroying \cup Replacing
          \cup {"retireLock", "destroyLock"}) = {}
  BY DEF Ctor, Creating, Destroying, Replacing
<1>2. \A u \in Threads : /\ \A h \in Handles : Has(u, h)' <=> Has(u, h)
                        /\ \A o \in Objects : Detaching(u, o)' <=> Detaching(u, o)
  BY <1>1 DEF Has, Detaching, Others
<1>3. Building'
  <2> SUFFICES ASSUME NEW u \in Threads
      PROVE /\ pc'[u] \in Creating /\ call'[u].o # None =>
                 call'[u].h # None /\ object'[call'[u].o].handle = call'[u].h
            /\ pc'[u] \in Ctor \ {"built"} => object'[call'[u].o].built = None
    BY DEF Building, BuildingOf
  <2>1. CASE u = t
    BY <1>1, <2>1
  <2>2. CASE u # t
    BY <2>2 DEF Inv, Found, Reg, Building, BuildingOf, Typed, Others
  <2> QED BY <2>1, <2>2
<1>4. OffTheMap' /\ InHand' /\ Fresh'
  BY <1>1, <1>2 DEF Reg, OffTheMap, InHand, Fresh, Others
<1>5. Accounted'
  <2> SUFFICES ASSUME NEW o \in Objects, object'[o].built # None
      PROVE \/ \E h \in Handles : registry[h] = o
            \/ \E u \in Threads : (pc'[u] \in Creating /\ call'[u].o = o) \/ Detaching(u, o)'
    BY DEF Accounted
  <2>1. HasContext(o)
    OBVIOUS
  <2> QED BY <1>1, <1>2, <2>1 DEF Reg, Accounted, Others
<1>6. \A h \in Handles : registry[h] # None => registry[h] \in Objects
  BY DEF Inv, Shape
<1>7. RegistryTracksDownstream'
  BY <1>6 DEF Reg, RegistryTracksDownstream
<1>8. NoContextOutlivesDevice'
  BY DEF Reg, NoContextOutlivesDevice
<1>9. ReplacedIsRetired'
  BY <1>1 DEF Reg, ReplacedIsRetired, Others
<1> QED BY <1>3, <1>4, <1>5, <1>7, <1>8, <1>9 DEF Reg

\* A step of a present is one of these.
LEMMA PresentMoves ==
    ASSUME Inv, Reg, NEW t \in Threads, Others(t),
           pc[t] \in Presenting, pc'[t] \in Presenting,
           UNCHANGED <<driverVars, owned, registry>>,
           \A o \in Objects : /\ object'[o].handle = object[o].handle
                              /\ object'[o].built \in {object[o].built, None},
           call'[t].h \in Handles \cup {None}, call'[t].failed \in Handles \cup {None},
           conf' \in Configs, file' = file
    PROVE  Reg'
<1>1. /\ UNCHANGED <<device, live, replaced, owned, registry, file>>
      /\ {pc[t], pc'[t]} \cap (Creating \cup Ctor \cup Destroying
            \cup {"retireLock", "destroyLock", "readOld", "create", "device", "deviceLock"}) = {}
  BY DEF driverVars, Ctor, Creating, Destroying, Presenting
<1>2. Typed'
  BY <1>1 DEF Reg, Typed, Others
<1>3. Alone'
  BY <1>1 DEF Reg, Alone, Others
<1> QED BY <1>1, <1>2, <1>3, IdleMoves

\* A step that changes none of this.
LEMMA FileMoves ==
    ASSUME Inv, Reg, UNCHANGED <<confVars, live, replaced, appVars, registry, object, threadVars>>,
           file' \in Configs \cup {Missing},
           \/ device' = device
           \/ device' = "up" /\ \A t \in Threads : pc[t] = "idle"
    PROVE  Reg'
<1>1. UNCHANGED <<conf, live, replaced, owned, registry, object, pc, call>>
  BY DEF confVars, appVars, threadVars
<1>2. Typed' /\ Building' /\ OffTheMap' /\ InHand'
  BY <1>1 DEF Reg, Typed, Building, BuildingOf, OffTheMap, Detaching, InHand, Has
<1>3. Fresh' /\ Accounted'
  BY <1>1 DEF Reg, Fresh, Accounted, Detaching
<1>4. Alone'
  BY <1>1 DEF Reg, Alone
<1>5. RegistryTracksDownstream' /\ ReplacedIsRetired' /\ NoContextOutlivesDevice'
  BY <1>1 DEF Reg, RegistryTracksDownstream, ReplacedIsRetired, NoContextOutlivesDevice
<1> QED BY <1>2, <1>3, <1>4, <1>5 DEF Reg
-----------------------------------------------------------------------------
\* A creation begins with a swapchain of the application's, and makes none yet.
LEMMA CreateBeginTracks ==
    ASSUME Inv, Reg, NEW t \in Threads, NEW old \in Handles \cup {None}, CreateBegin(t, old)
    PROVE  Reg'
<1>1. /\ Others(t) /\ pc[t] = "idle" /\ pc'[t] \in {"create", "readOld"}
      /\ UNCHANGED <<file, live, replaced, owned, registry, object, device>>
      /\ device = "up" /\ old \in owned \cup {None} /\ conf' \in {conf, file}
      /\ conf' \in Configs
  BY DEF CreateBegin, Others, Inv, Shape, fileVars, driverVars, appVars, confVars, Reload, Reg, Typed
<1>2. call'[t].old = old /\ call'[t].h = None /\ call'[t].failed = None /\ call'[t].conf = conf'
  BY DEF CreateBegin, Inv, Shape
<1>3. Typed'
  BY <1>1, <1>2 DEF Reg, Typed, Others, Ctor, Destroying
<1>4. Alone'
  BY <1>1 DEF Reg, Alone, Others
<1> QED BY <1>1, <1>3, <1>4, IdleMoves DEF Creating, Destroying

\* Reading the old object forgets it.
LEMMA ReadOldTracks ==
    ASSUME Inv, Reg, NEW t \in Threads, ReadOld(t)
    PROVE  Reg'
<1>1. /\ Others(t) /\ pc[t] = "readOld" /\ pc'[t] = "create"
      /\ UNCHANGED <<file, conf, live, replaced, owned, registry, object, device>>
  BY DEF ReadOld, Others, Inv, Shape, fileVars, driverVars, appVars, confVars
<1>2. call'[t] = [call[t] EXCEPT !.retired = None] /\ IsCall(call[t])
  BY DEF ReadOld, Inv, Shape
<1>3. /\ call'[t].old = call[t].old /\ call'[t].h = call[t].h
      /\ call'[t].failed = call[t].failed /\ call'[t].conf = call[t].conf
  BY <1>2
<1>4. Typed'
  BY <1>1, <1>3 DEF Reg, Typed, Others, Ctor, Destroying
<1>5. Alone'
  BY <1>1 DEF Reg, Alone, Others, Presenting
<1> QED BY <1>1, <1>4, <1>5, IdleMoves DEF Creating, Destroying

\* A refused creation leaves with nothing.
LEMMA CreateRefusedTracks ==
    ASSUME Inv, Reg, NEW t \in Threads, CreateRefused(t)
    PROVE  Reg'
<1>1. /\ Others(t) /\ pc[t] = "create" /\ pc'[t] = "idle"
      /\ UNCHANGED <<file, conf, live, replaced, owned, registry, object, device>>
      /\ call'[t].h = None /\ call'[t].failed = None
  BY DEF CreateRefused, Others, Inv, Shape, fileVars, driverVars, appVars, confVars
<1>2. Typed'
  BY <1>1 DEF Reg, Typed, Others, Ctor, Destroying
<1>3. Alone'
  BY <1>1 DEF Reg, Alone, Others, Presenting
<1> QED BY <1>1, <1>2, <1>3, IdleMoves DEF Creating, Destroying

\* The new swapchain and the object made for it are the creation's alone.
LEMMA CreateModifiedTracks ==
    ASSUME Inv, Reg, NEW t \in Threads, CreateModified(t)
    PROVE  Reg'
<1>1. PICK h \in Handles, o \in Objects :
        /\ DriverCreates(h, call[t].old)
        /\ Unused(o)
        /\ object' = [object EXCEPT ![o] = [NoObject EXCEPT !.handle = h,
                                               !.mode = call[t].conf.mode]]
        /\ call' = [call EXCEPT ![t].h = h, ![t].o = o]
  BY DEF CreateModified
<1>2. /\ pc[t] = "create" /\ pc' = [pc EXCEPT ![t] = "configure"]
      /\ UNCHANGED <<file, conf, device, owned, registry>>
  BY DEF CreateModified, fileVars, confVars, appVars
<1>3. Others(t) /\ pc'[t] = "configure"
  BY <1>1, <1>2 DEF Inv, Shape, Others
<1>4. /\ call'[t].o = o /\ call'[t].h = h /\ call'[t].old = call[t].old
      /\ call'[t].failed = call[t].failed /\ call'[t].retired = call[t].retired
      /\ call'[t].conf = call[t].conf
  <2>1. call'[t] = [[call[t] EXCEPT !.h = h] EXCEPT !.o = o]
    BY <1>1 DEF Inv, Shape
  <2>2. IsCall(call[t])
    BY DEF Inv, Shape
  <2> QED BY <2>1, <2>2
<1>5. /\ \A p \in Objects \ {o} : object'[p] = object[p]
      /\ object'[o].handle = h /\ object'[o].built = None
  BY <1>1 DEF Inv, Shape
<1>6. /\ \A k \in Handles : registry[k] # o
      /\ \A u \in Threads : call[u].o # o /\ call[u].retired # o
  BY <1>1 DEF Unused
<1>7. /\ h \notin live /\ live' = live \cup {h} /\ replaced' = replaced \cup ({call[t].old} \ {None})
      /\ call[t].old \in owned \cup {None} /\ call[t].failed = None /\ call[t].conf \in Configs
      /\ owned \subseteq live /\ replaced \subseteq live
  BY <1>1, <1>2 DEF DriverCreates, Reg, Typed
<1>8. /\ \A k \in Handles : ~Has(t, k) /\ (Has(t, k)' <=> k = h)
      /\ \A p \in Objects : ~Detaching(t, p) /\ ~Detaching(t, p)'
      /\ \A u \in Threads \ {t} : /\ \A k \in Handles : Has(u, k)' <=> Has(u, k)
                                 /\ \A p \in Objects : Detaching(u, p)' <=> Detaching(u, p)
  BY <1>2, <1>3, <1>4, <1>7 DEF Has, Detaching, Others, Creating, Destroying
<1>9. Typed'
  BY <1>2, <1>3, <1>4, <1>7 DEF Reg, Typed, Others, Ctor, Destroying
<1>10. Building'
  <2> SUFFICES ASSUME NEW u \in Threads
      PROVE /\ pc'[u] \in Creating /\ call'[u].o # None =>
                 call'[u].h # None /\ object'[call'[u].o].handle = call'[u].h
            /\ pc'[u] \in Ctor \ {"built"} => object'[call'[u].o].built = None
    BY DEF Building, BuildingOf
  <2>1. CASE u = t
    BY <1>4, <1>5, <2>1
  <2>2. CASE u # t
    BY <1>3, <1>5, <1>6, <2>2 DEF Inv, Found, Reg, Building, BuildingOf, Typed, Others
  <2> QED BY <2>1, <2>2
<1>11. OffTheMap'
  BY <1>2, <1>8 DEF Reg, OffTheMap
<1>12. InHand'
  <2>1. registry[h] = None /\ h \notin owned
    BY <1>7 DEF Reg, RegistryTracksDownstream
  <2>2. \A u \in Threads : ~Has(u, h)
    BY <1>7 DEF Reg, InHand
  <2> QED BY <1>2, <1>7, <1>8, <2>1, <2>2 DEF Reg, InHand
<1>13. Fresh'
  <2> SUFFICES ASSUME NEW u \in Threads, pc'[u] \in Creating, call'[u].h # None
      PROVE  call'[u].h # call'[u].failed /\ call'[u].h \notin replaced'
    BY DEF Fresh
  <2>1. CASE u = t
    BY <1>4, <1>7, <2>1
  <2>2. CASE u # t
    <3>1. Has(u, call[u].h) /\ call[u].h \in Handles
      BY <1>3, <2>2 DEF Has, Others, Reg, Typed
    <3>2. call[u].h \notin owned
      BY <3>1 DEF Reg, InHand
    <3> QED BY <1>3, <1>7, <2>2, <3>2 DEF Reg, Fresh, Others
  <2> QED BY <2>1, <2>2
<1>14. Accounted'
  <2> SUFFICES ASSUME NEW p \in Objects, object'[p].built # None
      PROVE \/ \E k \in Handles : registry[k] = p
            \/ \E u \in Threads : (pc'[u] \in Creating /\ call'[u].o = p) \/ Detaching(u, p)'
    BY <1>2 DEF Accounted
  <2>1. HasContext(p)
    BY <1>5
  <2> QED BY <1>2, <1>3, <1>8, <2>1 DEF Reg, Accounted, Others, Creating
<1>15. Alone'
  BY <1>2, <1>3 DEF Reg, Alone, Others, Presenting
<1>16. RegistryTracksDownstream'
  <2>1. \A k \in Handles : registry[k] # None => registry[k] \in Objects \ {o}
    BY <1>6 DEF Inv, Shape
  <2> QED BY <1>2, <1>5, <1>7, <2>1 DEF Reg, RegistryTracksDownstream
<1>17. ReplacedIsRetired'
  BY <1>2, <1>3, <1>4, <1>7 DEF Reg, ReplacedIsRetired, Others, Replacing
<1>18. NoContextOutlivesDevice'
  BY <1>2 DEF Reg, Alone, NoContextOutlivesDevice, Presenting
<1> QED BY <1>9, <1>10, <1>11, <1>12, <1>13, <1>14, <1>15, <1>16, <1>17, <1>18 DEF Reg

\* A native swapchain is the creation's alone, without an object.
LEMMA CreatePassThroughTracks ==
    ASSUME Inv, Reg, NEW t \in Threads, CreatePassThrough(t)
    PROVE  Reg'
<1>1. PICK h \in Handles :
        DriverCreates(h, call[t].old) /\ call' = [call EXCEPT ![t].h = h]
  BY DEF CreatePassThrough
<1>2. /\ pc[t] = "create" /\ pc' = [pc EXCEPT ![t] = "retire"]
      /\ UNCHANGED <<file, conf, device, owned, registry, object>>
  BY DEF CreatePassThrough, fileVars, confVars, appVars
<1>3. Others(t) /\ pc'[t] = "retire"
  BY <1>1, <1>2 DEF Inv, Shape, Others
<1>4. /\ call'[t].o = None /\ call'[t].h = h /\ call'[t].old = call[t].old
      /\ call'[t].failed = call[t].failed /\ call'[t].retired = call[t].retired
  <2>1. call'[t] = [call[t] EXCEPT !.h = h] /\ IsCall(call[t])
    BY <1>1 DEF Inv, Shape
  <2>2. call[t].o = None
    BY <1>2 DEF Inv, Found
  <2> QED BY <2>1, <2>2
<1>5. /\ h \notin live /\ live' = live \cup {h} /\ replaced' = replaced \cup ({call[t].old} \ {None})
      /\ call[t].old \in owned \cup {None} /\ call[t].failed = None
      /\ owned \subseteq live /\ replaced \subseteq live
  BY <1>1, <1>2 DEF DriverCreates, Reg, Typed
<1>6. /\ \A k \in Handles : ~Has(t, k) /\ (Has(t, k)' <=> k = h)
      /\ \A p \in Objects : ~Detaching(t, p) /\ ~Detaching(t, p)'
  BY <1>2, <1>3, <1>4, <1>5 DEF Has, Detaching, Creating, Destroying
<1>7. registry[h] = None /\ \A u \in Threads : ~Has(u, h)
  BY <1>5 DEF Reg, RegistryTracksDownstream, InHand
<1>8. Typed'
  BY <1>2, <1>3, <1>4, <1>5 DEF Reg, Typed, Others, Ctor, Destroying
<1>9. Building'
  <2>1. BuildingOf(t)'
    BY <1>3, <1>4 DEF BuildingOf, Ctor
  <2> QED BY <1>2, <1>3, <2>1 DEF Reg, Building, BuildingOf, Others
<1>10. OffTheMap' /\ InHand'
  BY <1>2, <1>3, <1>5, <1>6, <1>7, OthersHands DEF Reg, OffTheMap, InHand
<1>11. Fresh'
  <2> SUFFICES ASSUME NEW u \in Threads, pc'[u] \in Creating, call'[u].h # None
      PROVE  call'[u].h # call'[u].failed /\ call'[u].h \notin replaced'
    BY DEF Fresh
  <2>1. CASE u = t
    BY <1>4, <1>5, <2>1
  <2>2. CASE u # t
    <3>1. Has(u, call[u].h) /\ call[u].h \in Handles
      BY <1>3, <2>2 DEF Has, Others, Reg, Typed
    <3>2. call[u].h \notin owned
      BY <3>1 DEF Reg, InHand
    <3> QED BY <1>3, <1>5, <2>2, <3>2 DEF Reg, Fresh, Others
  <2> QED BY <2>1, <2>2
<1>12. Accounted'
  BY <1>2, <1>3, <1>6, OthersHands DEF Reg, Accounted, Others, Creating
<1>13. Alone'
  BY <1>2, <1>3 DEF Reg, Alone, Others, Presenting
<1>14. RegistryTracksDownstream'
  BY <1>2, <1>5 DEF Reg, RegistryTracksDownstream
<1>15. ReplacedIsRetired'
  BY <1>2, <1>3, <1>4, <1>5 DEF Reg, ReplacedIsRetired, Others, Replacing
<1>16. NoContextOutlivesDevice'
  BY <1>2 DEF Reg, Alone, NoContextOutlivesDevice, Presenting
<1> QED BY <1>8, <1>9, <1>10, <1>11, <1>12, <1>13, <1>14, <1>15, <1>16 DEF Reg

\* The constructor looks at the file,
LEMMA CtorCheckTracks ==
    ASSUME Inv, Reg, NEW t \in Threads, CtorCheck(t)
    PROVE  Reg'
<1>1. /\ pc[t] = "configure" /\ UNCHANGED <<file, conf, driverVars, owned, registry, object>>
      /\ \/ call' = call /\ pc' = [pc EXCEPT ![t] = "reread"]
         \/ call' = [call EXCEPT ![t].conf = conf] /\ pc' = [pc EXCEPT ![t] = "initialize"]
  BY DEF CtorCheck, fileVars, confVars, appVars
<1>2. IsCall(call[t]) /\ call[t].conf \in Configs /\ conf \in Configs /\ file \in Configs \cup {Missing}
  BY <1>1 DEF Reg, Typed, Inv, Shape, Ctor
<1>3. Others(t) /\ pc'[t] \in {"reread", "initialize"}
  BY <1>1 DEF Inv, Shape, Others
<1>4. call'[t] = [call[t] EXCEPT !.conf = call'[t].conf] /\ call'[t].conf \in Configs
  BY <1>1, <1>2 DEF Inv, Shape
<1> QED BY <1>1, <1>2, <1>3, <1>4, CtorMoves DEF Ctor

\* and reads it.
LEMMA CtorRereadTracks ==
    ASSUME Inv, Reg, NEW t \in Threads, CtorReread(t)
    PROVE  Reg'
<1>1. /\ pc[t] = "reread" /\ UNCHANGED <<driverVars, owned, registry, object>>
      /\ call' = [call EXCEPT ![t].conf = conf'] /\ pc' = [pc EXCEPT ![t] = "finalizeP"]
      /\ file' \in {file, Default} /\ file' # Missing /\ conf' \in {conf, file'}
  BY DEF CtorReread, confVars, appVars, Missing
<1>2. IsCall(call[t]) /\ conf' \in Configs /\ file' \in Configs \cup {Missing}
  BY <1>1 DEF Reg, Typed, Inv, Shape
<1>3. Others(t) /\ pc'[t] = "finalizeP"
  BY <1>1 DEF Inv, Shape, Others
<1>4. call'[t] = [call[t] EXCEPT !.conf = call'[t].conf] /\ call'[t].conf \in Configs
  BY <1>1, <1>2 DEF Inv, Shape
<1> QED BY <1>1, <1>2, <1>3, <1>4, CtorMoves DEF Ctor

\* The runtimes' entry points change nothing of the layer's.
LEMMA CtorRuntimeTracks ==
    ASSUME Inv, Reg, NEW t \in Threads, CtorFinalize(t) \/ CtorInitialize(t) \/ CtorDone(t)
    PROVE  Reg'
<1>1. /\ UNCHANGED <<file, conf, driverVars, owned, registry, object, call>>
      /\ \/ pc[t] = "finalizeP" /\ pc' = [pc EXCEPT ![t] = "finalize"]
         \/ pc[t] = "finalize" /\ pc' = [pc EXCEPT ![t] = "initialize"]
         \/ pc[t] = "initialize" /\ pc' = [pc EXCEPT ![t] = "build"]
         \/ pc[t] = "initialize" /\ pc' = [pc EXCEPT ![t] = "conflict"]
         \/ pc[t] = "initialize" /\ pc' = [pc EXCEPT ![t] = "fallback"]
         \/ pc[t] = "built" /\ pc' = [pc EXCEPT ![t] = "retire"]
  BY DEF CtorFinalize, CtorInitialize, CtorDone, fileVars, confVars, appVars
<1>2. IsCall(call[t]) /\ call[t].conf \in Configs /\ conf \in Configs /\ file \in Configs \cup {Missing}
  BY <1>1 DEF Reg, Typed, Inv, Shape, Ctor
<1>3. /\ Others(t) /\ pc[t] \in Ctor /\ pc'[t] \in Ctor \cup {"retire"}
      /\ pc'[t] \in Ctor \ {"built"} => pc[t] \in Ctor \ {"built"}
  BY <1>1 DEF Inv, Shape, Others, Ctor
<1>4. call'[t] = [call[t] EXCEPT !.conf = call'[t].conf] /\ call'[t].conf \in Configs
  BY <1>1, <1>2
<1> QED BY <1>1, <1>2, <1>3, <1>4, CtorMoves

\* The context of the creation's own object is built or dropped.
LEMMA OwnContextTracks ==
    ASSUME Inv, Reg, NEW t \in Threads, Others(t), NEW c,
           pc[t] \in Ctor, pc'[t] \in {"built", "fallback"},
           pc'[t] = "fallback" => c = None,
           UNCHANGED <<file, conf, driverVars, owned, registry, call>>,
           object' = [object EXCEPT ![call[t].o].built = c]
    PROVE  Reg'
<1>1. /\ UNCHANGED <<device, live, replaced, owned, registry, file, conf, call>>
      /\ pc[t] \in Creating /\ pc[t] \in Ctor
      /\ pc[t] \notin Destroying \cup {"retireLock", "destroyLock"}
      /\ pc'[t] \in Ctor \cap Creating
      /\ pc'[t] \notin Destroying \cup {"retireLock", "destroyLock", "readOld", "create"}
  BY DEF driverVars, Ctor, Creating, Destroying
<1>2. /\ call[t].o \in Objects /\ call[t].o # None
      /\ \A h \in Handles : registry[h] # call[t].o
      /\ \A u \in Threads \ {t} : call[u].o # call[t].o /\ call[u].retired # call[t].o
  BY <1>1 DEF Inv, Private, Reg, Typed
<1>3. /\ \A p \in Objects \ {call[t].o} : object'[p] = object[p]
      /\ object'[call[t].o].handle = object[call[t].o].handle
      /\ object'[call[t].o].built = c
  BY <1>2 DEF Inv, Shape
<1>4. \A u \in Threads : /\ \A h \in Handles : Has(u, h)' <=> Has(u, h)
                        /\ \A o \in Objects : Detaching(u, o)' <=> Detaching(u, o)
  BY <1>1 DEF Has, Detaching, Others
<1>5. Typed'
  BY <1>1 DEF Reg, Typed, Others
<1>6. Building'
  <2>1. BuildingOf(t)'
    BY <1>1, <1>3 DEF Reg, Building, BuildingOf, Ctor
  <2> QED BY <1>2, <1>3, <2>1, OthersBuilding DEF Building
<1>7. OffTheMap' /\ InHand' /\ Fresh'
  BY <1>1, <1>4 DEF Reg, OffTheMap, InHand, Fresh, Others
<1>8. Accounted'
  <2> SUFFICES ASSUME NEW p \in Objects, object'[p].built # None
      PROVE \/ \E k \in Handles : registry[k] = p
            \/ \E u \in Threads : (pc'[u] \in Creating /\ call[u].o = p) \/ Detaching(u, p)'
    BY <1>1 DEF Accounted
  <2>1. CASE p = call[t].o
    BY <1>1, <2>1
  <2>2. CASE p # call[t].o
    BY <1>1, <1>3, <1>4, <2>2 DEF Reg, Accounted, Others
  <2> QED BY <2>1, <2>2
<1>9. Alone'
  BY <1>1 DEF Reg, Alone, Others, Ctor, Presenting, Creating
<1>10. RegistryTracksDownstream'
  <2>1. \A k \in Handles : registry[k] # None => registry[k] \in Objects \ {call[t].o}
    BY <1>2 DEF Inv, Shape
  <2> QED BY <1>1, <1>3, <2>1 DEF Reg, RegistryTracksDownstream
<1>11. ReplacedIsRetired'
  BY <1>1 DEF Reg, ReplacedIsRetired, Others, Replacing
<1>12. NoContextOutlivesDevice'
  BY <1>1 DEF Reg, Alone, NoContextOutlivesDevice, Presenting, Ctor
<1> QED BY <1>5, <1>6, <1>7, <1>8, <1>9, <1>10, <1>11, <1>12 DEF Reg

\* Building a context or failing to is such a step.
LEMMA CtorBuildTracks ==
    ASSUME Inv, Reg, NEW t \in Threads, CtorBuild(t) \/ CtorThrows(t)
    PROVE  Reg'
<1>1. /\ UNCHANGED <<file, conf, driverVars, owned, registry, call>>
      /\ pc[t] \in {"configure", "build", "built", "conflict"}
  BY DEF CtorBuild, CtorThrows, fileVars, confVars, appVars
<1>2. PICK c :
      /\ object' = [object EXCEPT ![call[t].o].built = c]
      /\ \/ pc' = [pc EXCEPT ![t] = "built"]
         \/ pc' = [pc EXCEPT ![t] = "fallback"] /\ c = None
  BY DEF CtorBuild, CtorThrows
<1>3. Others(t) /\ pc'[t] \in {"built", "fallback"} /\ (pc'[t] = "fallback" => c = None)
  BY <1>1, <1>2 DEF Inv, Shape, Others
<1>4. pc[t] \in Ctor
  BY <1>1 DEF Ctor
<1> QED BY <1>1, <1>2, <1>3, <1>4, OwnContextTracks

\* The modified swapchain is given up for a native one, or for nothing.
LEMMA FallbackTracks ==
    ASSUME Inv, Reg, NEW t \in Threads, Fallback(t)
    PROVE  Reg'
<1> DEFINE o == call[t].o
           f == call[t].h
<1>1. /\ pc[t] = "fallback" /\ pc' = [pc EXCEPT ![t] = "retire"]
      /\ UNCHANGED <<file, conf, device, owned, registry>>
      /\ object' = [object EXCEPT ![o] = NoObject]
  BY DEF Fallback, fileVars, confVars, appVars
<1>2. PICK h \in Handles \cup {None} :
      /\ call' = [call EXCEPT ![t].failed = f, ![t].h = h, ![t].o = None]
      /\ \/ h \in Handles /\ DriverCreates(h, f)
         \/ h = None /\ UNCHANGED <<live, replaced>>
  BY DEF Fallback
<1>3. Others(t) /\ pc'[t] = "retire"
  BY <1>1, <1>2 DEF Inv, Shape, Others
<1>4. /\ call'[t].o = None /\ call'[t].h = h /\ call'[t].failed = f
      /\ call'[t].old = call[t].old
  <2>1. call'[t] = [[[call[t] EXCEPT !.failed = f] EXCEPT !.h = h] EXCEPT !.o = None]
        /\ IsCall(call[t])
    BY <1>2 DEF Inv, Shape
  <2> QED BY <2>1
<1>5. /\ o \in Objects /\ f \in Handles /\ Has(t, f) /\ f \in live /\ f \notin owned
      /\ owned \subseteq live /\ replaced \subseteq live /\ live \subseteq Handles
  BY <1>1 DEF Reg, Typed, InHand, Has, Ctor, Creating
<1>6. /\ h # f /\ (h # None => h \notin live)
      /\ live' = live \cup ({h} \ {None})
      /\ replaced' \subseteq replaced \cup {f}
      /\ replaced \subseteq replaced'
  BY <1>2, <1>5 DEF DriverCreates
<1>7. /\ \A p \in Objects \ {o} : object'[p] = object[p]
      /\ object'[o].built = None
      /\ \A k \in Handles : registry[k] # o
      /\ \A u \in Threads \ {t} : call[u].o # o /\ call[u].retired # o
  BY <1>1, <1>5 DEF Inv, Shape, Private, Creating
<1> HIDE DEF o, f
<1>8. /\ \A k \in Handles : Has(t, k)' => k \in {h, f}
      /\ \A p \in Objects : ~Detaching(t, p)'
  BY <1>3, <1>4 DEF Has, Detaching, Creating, Destroying
<1>9. h # None => registry[h] = None /\ \A u \in Threads : ~Has(u, h)
  BY <1>6 DEF Reg, RegistryTracksDownstream, InHand
<1>10. Typed'
  <2>1. replaced' \subseteq live' /\ live' \subseteq Handles /\ owned' \subseteq live'
    BY <1>1, <1>5, <1>6
  <2> QED BY <1>1, <1>3, <1>4, <1>5, <2>1 DEF Reg, Typed, Others, Ctor, Destroying
<1>11. Building'
  <2>1. BuildingOf(t)'
    BY <1>3, <1>4 DEF BuildingOf, Ctor
  <2> QED BY <1>3, <1>7, <2>1, OthersBuilding DEF Building
<1>12. OffTheMap'
  BY <1>1, <1>3, <1>8, OthersHands DEF Reg, OffTheMap
<1>13. InHand'
  <2> SUFFICES ASSUME NEW u \in Threads, NEW k \in Handles, Has(u, k)'
      PROVE  /\ k \in live' /\ k \notin owned /\ registry[k] = None
             /\ \A v \in Threads \ {u} : ~Has(v, k)'
    BY <1>1 DEF InHand
  <2>1. CASE u = t
    <3>1. /\ k \in live' /\ k \notin owned /\ registry[k] = None
          /\ \A v \in Threads \ {t} : ~Has(v, k)
      BY <1>5, <1>6, <1>8, <1>9, <2>1 DEF Reg, InHand
    <3> QED BY <1>3, <2>1, <3>1, OthersHands
  <2>2. CASE u # t
    <3>1. Has(u, k) /\ k \notin {h, f}
      BY <1>3, <1>5, <1>9, <2>2, OthersHands DEF Reg, InHand
    <3>2. \A v \in Threads \ {u, t} : ~Has(v, k)'
      BY <1>3, <3>1, OthersHands DEF Reg, InHand
    <3> QED BY <1>6, <1>8, <3>1, <3>2 DEF Reg, InHand
  <2> QED BY <2>1, <2>2
<1>14. Fresh'
  <2> SUFFICES ASSUME NEW u \in Threads, pc'[u] \in Creating, call'[u].h # None
      PROVE  call'[u].h # call'[u].failed /\ call'[u].h \notin replaced'
    BY DEF Fresh
  <2>1. CASE u = t
    BY <1>4, <1>5, <1>6, <2>1
  <2>2. CASE u # t
    <3>1. Has(u, call[u].h) /\ call[u].h \in Handles
      BY <1>3, <2>2 DEF Has, Others, Reg, Typed
    <3>2. call[u].h # f
      BY <1>5, <2>2, <3>1 DEF Reg, InHand
    <3> QED BY <1>3, <1>6, <2>2, <3>2 DEF Reg, Fresh, Others
  <2> QED BY <2>1, <2>2
<1>15. Accounted'
  <2> SUFFICES ASSUME NEW p \in Objects, object'[p].built # None
      PROVE \/ \E k \in Handles : registry[k] = p
            \/ \E u \in Threads : (pc'[u] \in Creating /\ call'[u].o = p) \/ Detaching(u, p)'
    BY <1>1 DEF Accounted
  <2>1. p # o /\ HasContext(p)
    BY <1>7
  <2>2. ~Detaching(t, p)
    BY <1>1 DEF Detaching, Destroying
  <2> QED BY <1>3, <2>1, <2>2, OthersHands DEF Reg, Accounted, Others, o
<1>16. Alone'
  BY <1>1, <1>3 DEF Reg, Alone, Others, Presenting
<1>17. RegistryTracksDownstream'
  <2>1. \A k \in Handles : registry[k] # None => registry[k] \in Objects \ {o}
    BY <1>7 DEF Inv, Shape
  <2> QED BY <1>1, <1>6, <1>7, <2>1 DEF Reg, RegistryTracksDownstream
<1>18. ReplacedIsRetired'
  BY <1>1, <1>3, <1>4, <1>5, <1>6 DEF Reg, ReplacedIsRetired, Others, Replacing
<1>19. NoContextOutlivesDevice'
  BY <1>1 DEF Reg, Alone, NoContextOutlivesDevice, Presenting
<1> QED BY <1>10, <1>11, <1>12, <1>13, <1>14, <1>15, <1>16, <1>17, <1>18, <1>19 DEF Reg

\* The old object goes from the map to the hook that retires it.
LEMMA RetireDetachTracks ==
    ASSUME Inv, Reg, NEW t \in Threads, RetireDetach(t)
    PROVE  Reg'
<1> DEFINE old == call[t].old
           o == IF RetiresOld(t) THEN registry[old] ELSE None
<1>1. /\ pc[t] = "retire" /\ UNCHANGED <<file, conf, driverVars, owned, object>>
      /\ call' = [call EXCEPT ![t].retired = o]
      /\ registry' = IF o = None THEN registry ELSE [registry EXCEPT ![old] = None]
      /\ pc' = [pc EXCEPT ![t] = IF o = None THEN "finish" ELSE "retireLock"]
  BY DEF RetireDetach, Detached, fileVars, confVars, appVars
<1>2. /\ UNCHANGED <<device, live, replaced, owned, object, file, conf>>
      /\ pc[t] \in Creating /\ pc[t] \notin Destroying \cup Ctor
  BY <1>1 DEF driverVars, Creating, Destroying, Ctor
<1>3. /\ Others(t) /\ (o = None => pc'[t] = "finish") /\ (o # None => pc'[t] = "retireLock")
  BY <1>1 DEF Inv, Shape, Others
<1>4. /\ call'[t].o = call[t].o /\ call'[t].h = call[t].h /\ call'[t].old = old
      /\ call'[t].failed = call[t].failed /\ call'[t].retired = o
  <2>1. call'[t] = [call[t] EXCEPT !.retired = o] /\ IsCall(call[t])
    BY <1>1 DEF Inv, Shape
  <2> QED BY <2>1
<1>5. /\ o # None => old \in Handles /\ registry[old] = o /\ o \in Objects
      /\ \A k \in Handles : registry'[k] = IF o # None /\ k = old THEN None ELSE registry[k]
  BY <1>1 DEF Inv, Shape, Found, RetiresOld
<1>6. registry[old] # None => o = registry[old] \/ old = None
  BY DEF RetiresOld
<1> HIDE DEF old, o
<1>7. o # None => \A k \in Handles : registry'[k] # o
  BY <1>5 DEF Reg, RegistryTracksDownstream
<1>8. /\ pc'[t] \in Creating /\ pc'[t] \notin Destroying \cup Ctor
      /\ pc'[t] \notin Presenting \cup {"readOld", "create", "destroyLock", "device", "deviceLock"}
  BY <1>3 DEF Creating, Destroying, Ctor, Presenting
<1>9. /\ \A u \in Threads : \A k \in Handles : Has(u, k)' <=> Has(u, k)
      /\ \A p \in Objects : Detaching(t, p)' <=> p = o
  <2>1. \A k \in Handles : Has(t, k)' <=> Has(t, k)
    BY <1>1, <1>2, <1>3, <1>4, <1>8 DEF Has
  <2>2. \A p \in Objects : Detaching(t, p)' <=> p = o
    BY <1>3, <1>4, <1>8 DEF Detaching
  <2> QED BY <1>3, <2>1, <2>2, OthersHands
<1>10. Typed'
  BY <1>2, <1>3, <1>4, <1>5, <1>8 DEF Reg, Typed, Others
<1>11. Building'
  BY <1>2, <1>3, <1>4, <1>8 DEF Reg, Building, BuildingOf, Others
<1>12. OffTheMap'
  <2> SUFFICES ASSUME NEW u \in Threads, NEW p \in Objects, Detaching(u, p)', NEW k \in Handles
               PROVE  registry'[k] # p
    BY DEF OffTheMap
  <2>1. CASE u = t
    BY <1>7, <1>9, <2>1
  <2>2. CASE u # t
    BY <1>3, <1>5, <2>2, OthersHands DEF Reg, OffTheMap
  <2> QED BY <2>1, <2>2
<1>13. InHand' /\ Fresh'
  BY <1>2, <1>3, <1>4, <1>5, <1>9 DEF Reg, InHand, Fresh, Others
<1>14. Accounted'
  <2> SUFFICES ASSUME NEW p \in Objects, HasContext(p)
      PROVE \/ \E k \in Handles : registry'[k] = p
            \/ \E u \in Threads : (pc'[u] \in Creating /\ call'[u].o = p) \/ Detaching(u, p)'
    BY <1>2 DEF Accounted
  <2>1. CASE \E k \in Handles : registry[k] = p
    BY <1>5, <1>9, <2>1
  <2>2. CASE \E u \in Threads : (pc[u] \in Creating /\ call[u].o = p) \/ Detaching(u, p)
    <3>1. ~Detaching(t, p)
      BY <1>1 DEF Detaching, Destroying
    <3> QED BY <1>3, <1>4, <1>8, <2>2, <3>1, OthersHands DEF Others
  <2> QED BY <2>1, <2>2 DEF Reg, Accounted
<1>15. Alone'
  BY <1>1, <1>2, <1>3, <1>8 DEF Reg, Alone, Others, Presenting
<1>16. RegistryTracksDownstream'
  BY <1>2, <1>5 DEF Reg, RegistryTracksDownstream
<1>17. ReplacedIsRetired'
  <2> SUFFICES ASSUME NEW h \in replaced \cap owned, h \in Handles, registry'[h] # None
               PROVE  \E u \in Threads : call'[u].old = h /\ pc'[u] \in Replacing
    BY <1>2 DEF ReplacedIsRetired, Reg, Typed
  <2>1. registry[h] # None
    BY <1>5
  <2>2. PICK u \in Threads : call[u].old = h /\ pc[u] \in Replacing
    BY <2>1 DEF Reg, ReplacedIsRetired
  <2>3. u # t
    BY <1>5, <1>6, <2>1, <2>2 DEF old
  <2> QED BY <1>3, <2>2, <2>3 DEF Others
<1>18. NoContextOutlivesDevice'
  BY <1>1, <1>2 DEF Reg, Alone, NoContextOutlivesDevice, Presenting
<1> QED BY <1>10, <1>11, <1>12, <1>13, <1>14, <1>15, <1>16, <1>17, <1>18 DEF Reg

\* The retired object is in the hands of this creation only.
LEMMA RetireResetTracks ==
    ASSUME Inv, Reg, NEW t \in Threads, RetireReset(t)
    PROVE  Reg'
<1> DEFINE o == call[t].retired
<1>1. /\ pc[t] = "retireLock" /\ pc' = [pc EXCEPT ![t] = "finish"]
      /\ UNCHANGED <<file, conf, driverVars, owned, registry>>
      /\ object' = [object EXCEPT ![o] = NoObject]
      /\ call' = [call EXCEPT ![t].retired = None]
  BY DEF RetireReset, fileVars, confVars, appVars
<1>2. /\ UNCHANGED <<device, live, replaced, owned, registry, file, conf>>
      /\ Others(t) /\ pc'[t] = "finish"
  BY <1>1 DEF driverVars, Inv, Shape, Others
<1>3. /\ call'[t].o = call[t].o /\ call'[t].h = call[t].h /\ call'[t].failed = call[t].failed
      /\ call'[t].retired = None
  <2>1. call'[t] = [call[t] EXCEPT !.retired = None] /\ IsCall(call[t])
    BY <1>1 DEF Inv, Shape
  <2> QED BY <2>1
<1>4. /\ o \in Objects /\ Detaching(t, o) /\ \A k \in Handles : registry[k] # o
  BY <1>1 DEF Reg, Typed, Detaching, OffTheMap
<1>5. /\ \A p \in Objects \ {o} : object'[p] = object[p]
      /\ object'[o].built = None
  BY <1>1, <1>4 DEF Inv, Shape
<1>6. \A u \in Threads : pc[u] \in Creating => call[u].o # o
  BY <1>1, <1>4 DEF Inv, Private, Creating
<1> HIDE DEF o
<1>7. /\ \A u \in Threads : \A k \in Handles : Has(u, k)' <=> Has(u, k)
      /\ \A p \in Objects : ~Detaching(t, p)'
  <2>1. \A k \in Handles : Has(t, k)' <=> Has(t, k)
    BY <1>1, <1>2, <1>3 DEF Has, Creating
  <2>2. \A p \in Objects : ~Detaching(t, p)'
    BY <1>2 DEF Detaching, Destroying
  <2> QED BY <1>2, <2>1, <2>2, OthersHands
<1>8. Typed'
  BY <1>2, <1>3 DEF Reg, Typed, Others, Ctor, Destroying
<1>9. Building'
  <2>1. BuildingOf(t)'
    <3>1. call[t].o # None => call[t].o \in Objects \ {o}
      BY <1>1, <1>6 DEF Inv, Found, Creating
    <3> QED BY <1>1, <1>2, <1>3, <1>5, <3>1 DEF Reg, Building, BuildingOf, Creating, Ctor
  <2> QED BY <1>2, <1>5, <1>6, <2>1, OthersBuilding DEF Building
<1>10. OffTheMap' /\ InHand' /\ Fresh'
  BY <1>1, <1>2, <1>3, <1>7, OthersHands DEF Reg, OffTheMap, InHand, Fresh, Others, Creating
<1>11. Accounted'
  <2> SUFFICES ASSUME NEW p \in Objects, object'[p].built # None
      PROVE \/ \E k \in Handles : registry[k] = p
            \/ \E u \in Threads : (pc'[u] \in Creating /\ call'[u].o = p) \/ Detaching(u, p)'
    BY <1>2 DEF Accounted
  <2>1. p # o /\ HasContext(p)
    BY <1>5
  <2>2. ~Detaching(t, p)
    BY <1>1, <2>1 DEF Detaching, Destroying, o
  <2> QED BY <1>2, <1>3, <2>1, <2>2, OthersHands DEF Reg, Accounted, Others, Creating
<1>12. Alone'
  BY <1>1, <1>2 DEF Reg, Alone, Others, Presenting
<1>13. RegistryTracksDownstream'
  <2>1. \A k \in Handles : registry[k] # None => registry[k] \in Objects \ {o}
    BY <1>4 DEF Inv, Shape
  <2> QED BY <1>2, <1>5, <2>1 DEF Reg, RegistryTracksDownstream
<1>14. ReplacedIsRetired'
  BY <1>1, <1>2 DEF Reg, ReplacedIsRetired, Others, Replacing
<1>15. NoContextOutlivesDevice'
  BY <1>1, <1>2 DEF Reg, Alone, NoContextOutlivesDevice, Presenting
<1> QED BY <1>8, <1>9, <1>10, <1>11, <1>12, <1>13, <1>14, <1>15 DEF Reg

\* The swapchain is published; its object is the creation's own or a new one.
LEMMA CreateFinishTracks ==
    ASSUME Inv, Reg, NEW t \in Threads, CreateFinish(t)
    PROVE  Reg'
<1> DEFINE h == call[t].h
           f == call[t].failed
           own == call[t].o
<1>1. /\ pc[t] = "finish" /\ UNCHANGED <<file, conf, device>>
      /\ pc' = [pc EXCEPT ![t] = "idle"] /\ call' = [call EXCEPT ![t] = NoCall]
      /\ live' = live \ {f} /\ replaced' = replaced \ {f} /\ owned' = owned \cup ({h} \ {None})
  BY DEF CreateFinish, fileVars, confVars
<1>2. PICK o :
      \/ /\ h # None /\ own # None /\ o = own
         /\ registry' = [registry EXCEPT ![h] = o] /\ object' = object
      \/ /\ h # None /\ own = None /\ o \in Objects /\ Unused(o)
         /\ registry' = [registry EXCEPT ![h] = o]
         /\ object' = [object EXCEPT ![o] = [NoObject EXCEPT !.handle = h]]
      \/ /\ own = None /\ registry' = registry /\ object' = object /\ o = None
  BY DEF CreateFinish
<1>3. Others(t) /\ pc'[t] = "idle" /\ call'[t] = NoCall
  BY <1>1 DEF Inv, Shape, Others
<1>4. /\ h \in Handles \cup {None} /\ f \in Handles \cup {None}
      /\ owned \subseteq live /\ replaced \subseteq live /\ live \subseteq Handles
      /\ h # None => Has(t, h) /\ h \in live /\ h \notin owned /\ registry[h] = None
                     /\ h # f /\ h \notin replaced
      /\ f # None => Has(t, f) /\ f \in live /\ f \notin owned /\ registry[f] = None
  BY <1>1 DEF Reg, Typed, InHand, Fresh, Has, Creating
<1>5. /\ own = None \/ (own \in Objects /\ h # None /\ object[own].handle = h)
      /\ own # None => \A k \in Handles : registry[k] # own
      /\ own # None => \A u \in Threads \ {t} : call[u].o # own /\ call[u].retired # own
  BY <1>1 DEF Reg, Building, BuildingOf, Inv, Found, Private, Creating
<1> HIDE DEF h, f, own
<1>6. /\ o = None => registry' = registry /\ object' = object
      /\ o # None =>
           /\ h # None /\ o \in Objects /\ object'[o].handle = h
           /\ \A k \in Handles : registry[k] # o
           /\ \A u \in Threads \ {t} : call[u].o # o /\ call[u].retired # o
           /\ \A k \in Handles : registry'[k] = IF k = h THEN o ELSE registry[k]
      /\ \A p \in Objects \ {o} : object'[p] = object[p]
      /\ own # None => o = own
      /\ \A p \in Objects : object'[p].built \in {object[p].built, None}
  <2>1. CASE own = None /\ registry' = registry /\ object' = object /\ o = None
    BY <2>1
  <2>2. CASE /\ h # None /\ own # None /\ o = own
             /\ registry' = [registry EXCEPT ![h] = o] /\ object' = object
    <3>1. \A k \in Handles : registry'[k] = IF k = h THEN o ELSE registry[k]
      BY <2>2 DEF Inv, Shape
    <3> QED BY <1>5, <2>2, <3>1
  <2>3. CASE /\ h # None /\ own = None /\ o \in Objects /\ Unused(o)
             /\ registry' = [registry EXCEPT ![h] = o]
             /\ object' = [object EXCEPT ![o] = [NoObject EXCEPT !.handle = h]]
    <3>1. \A k \in Handles : registry'[k] = IF k = h THEN o ELSE registry[k]
      BY <2>3 DEF Inv, Shape
    <3>2. /\ \A k \in Handles : registry[k] # o
          /\ \A u \in Threads \ {t} : call[u].o # o /\ call[u].retired # o
      BY <2>3 DEF Unused
    <3>3. /\ object'[o].handle = h /\ object'[o].built = None
          /\ \A p \in Objects \ {o} : object'[p] = object[p]
      BY <2>3 DEF Inv, Shape
    <3> QED BY <2>3, <3>1, <3>2, <3>3
  <2> QED BY <1>2, <2>1, <2>2, <2>3
<1>7. \A u \in Threads \ {t} : \A k \in Handles : Has(u, k) => k # h /\ k # f
  BY <1>4 DEF Reg, InHand
<1>8. /\ \A k \in Handles : ~Has(t, k)'
      /\ \A p \in Objects : ~Detaching(t, p)' /\ ~Detaching(t, p)
  BY <1>1, <1>3 DEF Has, Detaching, Creating, Destroying
<1>9. Typed'
  <2>1. replaced' \subseteq live' /\ live' \subseteq Handles /\ owned' \subseteq live'
    BY <1>1, <1>4
  <2>2. owned \subseteq owned'
    BY <1>1
  <2> QED BY <1>1, <1>3, <2>1, <2>2 DEF Reg, Typed, Others, Ctor, Destroying
<1>10. Building'
  <2>1. BuildingOf(t)'
    BY <1>3 DEF BuildingOf, Ctor, Creating
  <2>2. \A u \in Threads \ {t} : pc[u] \in Creating => call[u].o # o \/ o = None
    BY <1>6
  <2>3. CASE o = None
    BY <1>3, <1>6, <2>1, <2>3 DEF Reg, Building, BuildingOf, Others
  <2>4. CASE o # None
    BY <1>3, <1>6, <2>1, <2>2, <2>4, OthersBuilding DEF Building
  <2> QED BY <2>3, <2>4
<1>11. OffTheMap'
  <2> SUFFICES ASSUME NEW u \in Threads \ {t}, NEW p \in Objects, Detaching(u, p), NEW k \in Handles
               PROVE  registry'[k] # p
    BY <1>3, <1>8, OthersHands DEF OffTheMap
  <2>1. registry[k] # p
    BY DEF Reg, OffTheMap
  <2>2. o # None => p # o
    BY <1>6 DEF Detaching
  <2> QED BY <1>6, <2>1, <2>2
<1>12. InHand'
  <2> SUFFICES ASSUME NEW u \in Threads, NEW k \in Handles, Has(u, k)'
      PROVE  /\ k \in live' /\ k \notin owned' /\ registry'[k] = None
             /\ \A v \in Threads \ {u} : ~Has(v, k)'
    BY DEF InHand
  <2>1. u # t /\ Has(u, k)
    BY <1>3, <1>8, OthersHands
  <2>2. k # h /\ k # f /\ k \in live /\ k \notin owned /\ registry[k] = None
    BY <1>7, <2>1 DEF Reg, InHand
  <2>3. ASSUME NEW v \in Threads \ {u} PROVE ~Has(v, k)'
    <3>1. ~Has(v, k)
      BY <2>1 DEF Reg, InHand
    <3> QED BY <1>3, <1>8, <3>1, OthersHands
  <2> QED BY <1>1, <1>6, <2>2, <2>3
<1>13. Fresh'
  BY <1>1, <1>3 DEF Reg, Fresh, Others, Creating
<1>14. Accounted'
  <2> SUFFICES ASSUME NEW p \in Objects, object'[p].built # None
      PROVE \/ \E k \in Handles : registry'[k] = p
            \/ \E u \in Threads : (pc'[u] \in Creating /\ call'[u].o = p) \/ Detaching(u, p)'
    BY DEF Accounted
  <2>1. CASE p = own
    BY <1>4, <1>5, <1>6, <2>1
  <2>2. CASE p # own
    <3>1. HasContext(p)
      BY <1>6
    <3>2. CASE \E k \in Handles : registry[k] = p
      BY <1>4, <1>6, <3>2
    <3>3. CASE \E u \in Threads : (pc[u] \in Creating /\ call[u].o = p) \/ Detaching(u, p)
      <4>1. PICK u \in Threads : (pc[u] \in Creating /\ call[u].o = p) \/ Detaching(u, p)
        BY <3>3
      <4>2. u # t
        BY <1>8, <2>2, <4>1 DEF own, Detaching
      <4>3. (pc'[u] \in Creating /\ call'[u].o = p) \/ Detaching(u, p)'
        BY <1>3, <4>1, <4>2, OthersHands DEF Others
      <4> QED BY <4>3
    <3> QED BY <3>1, <3>2, <3>3 DEF Reg, Accounted
  <2> QED BY <2>1, <2>2
<1>15. Alone'
  BY <1>1, <1>3 DEF Reg, Alone, Others, Presenting
<1>16. RegistryTracksDownstream'
  <2> SUFFICES ASSUME NEW k \in Handles, registry'[k] # None
               PROVE  k \in live' /\ object'[registry'[k]].handle = k
    BY DEF RegistryTracksDownstream
  <2>1. CASE o # None /\ k = h
    BY <1>1, <1>4, <1>6, <2>1
  <2>2. CASE ~(o # None /\ k = h)
    <3>1. registry'[k] = registry[k] /\ registry[k] \in Objects \ {o}
      BY <1>6, <2>2 DEF Inv, Shape
    <3> QED BY <1>1, <1>4, <1>6, <3>1 DEF Reg, RegistryTracksDownstream
  <2> QED BY <2>1, <2>2
<1>17. ReplacedIsRetired'
  <2> SUFFICES ASSUME NEW k \in replaced' \cap owned', k \in Handles, registry'[k] # None
               PROVE  \E u \in Threads : call'[u].old = k /\ pc'[u] \in Replacing
    BY <1>1, <1>4 DEF ReplacedIsRetired
  <2>1. k \in replaced \cap owned /\ k # h
    BY <1>1, <1>4
  <2>2. registry[k] # None
    BY <1>6, <2>1
  <2> QED BY <1>1, <1>3, <2>1, <2>2 DEF Reg, ReplacedIsRetired, Others, Replacing
<1>18. NoContextOutlivesDevice'
  BY <1>1 DEF Reg, Alone, NoContextOutlivesDevice, Presenting
<1> QED BY <1>9, <1>10, <1>11, <1>12, <1>13, <1>14, <1>15, <1>16, <1>17, <1>18 DEF Reg

-----------------------------------------------------------------------------
\* A present only moves between its own places.
LEMMA PresentTracks ==
    ASSUME Inv, Reg, NEW t \in Threads, Present(t)
    PROVE  Reg'
<1>1. /\ UNCHANGED <<file, driverVars, owned, registry>> /\ conf' \in Configs
      /\ pc[t] \in Presenting
      /\ \E place \in Presenting : pc' = [pc EXCEPT ![t] = place]
  <2>1. conf \in Configs /\ file \in Configs \cup {Missing}
    BY DEF Reg, Typed
  <2>2. CASE \E h \in Handles : PresentFind(t, h)
    BY <2>1, <2>2 DEF PresentFind, fileVars, confVars, appVars, Presenting
  <2>3. CASE PresentLock(t) \/ PresentEnter(t)
    BY <2>1, <2>3 DEF PresentLock, PresentEnter, fileVars, confVars, appVars, Presenting
  <2>4. CASE PresentDone(t) \/ PresentThrows(t)
    BY <2>1, <2>4 DEF PresentDone, PresentThrows, fileVars, confVars, appVars, Presenting
  <2>5. CASE PresentStale(t)
    BY <2>1, <2>5 DEF PresentStale, Reload, fileVars, confVars, Presenting
  <2>6. CASE PresentAdopt(t)
    BY <2>1, <2>6 DEF PresentAdopt, PresentRoute, Reload, fileVars, Presenting
  <2>7. CASE PresentKeep(t)
    BY <2>1, <2>7 DEF PresentKeep, PresentRoute, fileVars, confVars, Presenting
  <2> QED BY <2>2, <2>3, <2>4, <2>5, <2>6, <2>7 DEF Present
<1>2. \/ call' = [call EXCEPT ![t] = NoCall]
      \/ \E h \in Handles : \E o : call' = [call EXCEPT ![t] = [NoCall EXCEPT !.h = h, !.o = o]]
      \/ \E c, n : call' = [call EXCEPT ![t].conf = c, ![t].stamp = n]
      \/ \E c : call' = [call EXCEPT ![t].conf = c]
  <2>1. CASE \E h \in Handles : PresentFind(t, h)
    BY <2>1 DEF PresentFind
  <2>2. CASE PresentLock(t)
    BY <2>2 DEF PresentLock
  <2>3. CASE PresentEnter(t) \/ PresentDone(t) \/ PresentThrows(t)
    BY <2>3 DEF PresentEnter, PresentDone, PresentThrows
  <2>4. CASE PresentStale(t) \/ PresentAdopt(t) \/ PresentKeep(t)
    BY <2>4 DEF PresentStale, PresentAdopt, PresentKeep, PresentRoute
  <2> QED BY <2>1, <2>2, <2>3, <2>4 DEF Present
<1>3. call'[t].h \in Handles \cup {None} /\ call'[t].failed \in Handles \cup {None}
  <2>1. call[t].h \in Handles \cup {None} /\ call[t].failed \in Handles \cup {None}
        /\ IsCall(call[t])
    BY DEF Reg, Typed, Inv, Shape
  <2>2. CASE call' = [call EXCEPT ![t] = NoCall]
    BY <2>2 DEF Inv, Shape
  <2>3. CASE \E h \in Handles : \E o : call' = [call EXCEPT ![t] = [NoCall EXCEPT !.h = h, !.o = o]]
    BY <2>3 DEF Inv, Shape
  <2>4. CASE \E c, n : call' = [call EXCEPT ![t].conf = c, ![t].stamp = n]
    BY <2>1, <2>4 DEF Inv, Shape
  <2>5. CASE \E c : call' = [call EXCEPT ![t].conf = c]
    BY <2>1, <2>5 DEF Inv, Shape
  <2> QED BY <1>2, <2>2, <2>3, <2>4, <2>5
<1>4. Others(t)
  <2>1. \A u \in Threads \ {t} : pc'[u] = pc[u]
    BY <1>1 DEF Inv, Shape
  <2>2. \A u \in Threads \ {t} : call'[u] = call[u]
    BY <1>2 DEF Inv, Shape
  <2> QED BY <2>1, <2>2 DEF Others
<1>5. pc'[t] \in Presenting
  BY <1>1 DEF Inv, Shape, Presenting
<1>6. \A o \in Objects : /\ object'[o].handle = object[o].handle
                        /\ object'[o].built \in {object[o].built, None}
  <2>1. \/ object' = object
        \/ object' = [object EXCEPT ![call[t].o].mode = file.mode]
        \/ object' = [object EXCEPT ![call[t].o].mode = None, ![call[t].o].built = None]
    BY DEF Present, PresentFind, PresentLock, PresentStale, PresentAdopt, PresentKeep,
       PresentEnter, PresentDone, PresentThrows
  <2>2. object = [o \in Objects |-> object[o]] /\ \A o \in Objects : IsObject(object[o])
    BY DEF Inv, Shape
  <2>3. CASE object' = [object EXCEPT ![call[t].o].mode = file.mode]
    BY <2>2, <2>3
  <2>4. CASE object' = [object EXCEPT ![call[t].o].mode = None, ![call[t].o].built = None]
    BY <2>2, <2>4
  <2> QED BY <2>1, <2>3, <2>4
<1> QED BY <1>1, <1>3, <1>4, <1>5, <1>6, PresentMoves

-----------------------------------------------------------------------------
\* A swapchain leaves the application's hands and the map in one step.
LEMMA DestroyDetachTracks ==
    ASSUME Inv, Reg, NEW t \in Threads, NEW h \in Handles, DestroyDetach(t, h)
    PROVE  Reg'
<1>1. /\ pc[t] = "idle" /\ device = "up" /\ Exclusive(h) /\ h \in owned
      /\ owned' = owned \ {h} /\ registry' = [registry EXCEPT ![h] = None]
      /\ UNCHANGED <<file, conf, device, object>>
  BY DEF DestroyDetach, Detached, fileVars, confVars
<1>2. \/ /\ registry[h] = None /\ live' = live \ {h} /\ replaced' = replaced \ {h}
         /\ pc' = pc /\ call' = call
      \/ /\ registry[h] # None /\ UNCHANGED <<live, replaced>>
         /\ call' = [call EXCEPT ![t] = [NoCall EXCEPT !.h = h, !.o = registry[h]]]
         /\ pc' = [pc EXCEPT ![t] = "destroyLock"]
  BY DEF DestroyDetach, threadVars
<1>3. /\ \A k \in Handles : registry'[k] = IF k = h THEN None ELSE registry[k]
      /\ Others(t)
  BY <1>1, <1>2 DEF Inv, Shape, Others
<1>4. /\ h \in live /\ owned \subseteq live /\ replaced \subseteq live /\ live \subseteq Handles
      /\ \A u \in Threads : ~Has(u, h)
  BY <1>1 DEF Reg, Typed, InHand
<1>5. \A u \in Threads : pc[u] \in {"readOld", "create"} => call[u].old # h
  BY <1>1 DEF Exclusive, Presenting
<1>6. \A k \in Handles, p \in Objects : ~Has(t, k) /\ ~Detaching(t, p)
  BY <1>1 DEF Has, Detaching, Creating, Destroying
<1>7. CASE registry[h] = None
  <2>1. live' = live \ {h} /\ replaced' = replaced \ {h} /\ pc' = pc /\ call' = call
        /\ \A k \in Handles : registry'[k] = registry[k]
    BY <1>2, <1>3, <1>7
  <2>2. Typed'
    <3>1. replaced' \subseteq live' /\ live' \subseteq Handles /\ owned' \subseteq live'
      BY <1>1, <1>4, <2>1
    <3> QED BY <1>1, <1>5, <2>1, <3>1 DEF Reg, Typed
  <2>3. Building' /\ OffTheMap' /\ Fresh' /\ Accounted' /\ Alone'
    BY <1>1, <2>1 DEF Reg, Building, BuildingOf, OffTheMap, Detaching, Fresh, Accounted, Alone
  <2>4. InHand'
    <3> SUFFICES ASSUME NEW u \in Threads, NEW k \in Handles, Has(u, k)
        PROVE  /\ k \in live' /\ k \notin owned' /\ registry'[k] = None
               /\ \A v \in Threads \ {u} : ~Has(v, k)
      BY <2>1 DEF InHand, Has
    <3>1. k # h
      BY <1>4
    <3> QED BY <1>1, <2>1, <3>1 DEF Reg, InHand
  <2>5. RegistryTracksDownstream'
    BY <1>1, <1>7, <2>1 DEF Reg, RegistryTracksDownstream
  <2>6. ReplacedIsRetired' /\ NoContextOutlivesDevice'
    BY <1>1, <1>4, <2>1 DEF Reg, ReplacedIsRetired, NoContextOutlivesDevice
  <2> QED BY <2>2, <2>3, <2>4, <2>5, <2>6 DEF Reg
<1>8. CASE registry[h] # None
  <2> DEFINE o == registry[h]
  <2>1. /\ UNCHANGED <<live, replaced>> /\ pc'[t] = "destroyLock"
        /\ call'[t].h = h /\ call'[t].o = o /\ call'[t].failed = None /\ call'[t].old = None
    BY <1>2, <1>8 DEF Inv, Shape
  <2>2. /\ o \in Objects /\ object[o].handle = h
        /\ \A k \in Handles : registry'[k] # o
    <3>1. o \in Objects
      BY <1>8 DEF Inv, Shape
    <3>2. object[o].handle = h
      BY <1>8 DEF Reg, RegistryTracksDownstream
    <3> QED BY <1>3, <3>1, <3>2 DEF Reg, RegistryTracksDownstream
  <2> HIDE DEF o
  <2>3. /\ \A k \in Handles : Has(t, k)' <=> k = h
        /\ \A p \in Objects : Detaching(t, p)' <=> p = o
    BY <2>1 DEF Has, Detaching, Creating, Destroying
  <2>4. Typed'
    <3>1. owned' \subseteq live /\ \A u \in Threads : pc[u] \in {"readOld", "create"} =>
                                       call[u].old \in owned' \cup {None}
      BY <1>1, <1>4, <1>5 DEF Reg, Typed
    <3> QED BY <1>1, <1>3, <2>1, <2>2, <3>1 DEF Reg, Typed, Others, Ctor, Destroying
  <2>5. Building'
    <3>1. BuildingOf(t)'
      BY <2>1 DEF BuildingOf, Ctor, Creating
    <3> QED BY <1>1, <1>3, <3>1 DEF Reg, Building, BuildingOf, Others
  <2>6. OffTheMap'
    <3> SUFFICES ASSUME NEW u \in Threads, NEW p \in Objects, Detaching(u, p)', NEW k \in Handles
                 PROVE  registry'[k] # p
      BY DEF OffTheMap
    <3>1. CASE u = t
      BY <2>2, <2>3, <3>1
    <3>2. CASE u # t
      BY <1>3, <3>2, OthersHands DEF Reg, OffTheMap
    <3> QED BY <3>1, <3>2
  <2>7. InHand'
    <3> SUFFICES ASSUME NEW u \in Threads, NEW k \in Handles, Has(u, k)'
        PROVE  /\ k \in live /\ k \notin owned' /\ registry'[k] = None
               /\ \A v \in Threads \ {u} : ~Has(v, k)'
      BY <2>1 DEF InHand
    <3>1. CASE u = t
      BY <1>1, <1>3, <1>4, <2>3, <3>1, OthersHands
    <3>2. CASE u # t
      <4>1. Has(u, k) /\ k # h
        BY <1>3, <1>4, <3>2, OthersHands
      <4>2. ~Has(t, k)'
        BY <2>3, <4>1
      <4>3. \A v \in Threads \ {u, t} : ~Has(v, k)'
        BY <1>3, <4>1, OthersHands DEF Reg, InHand
      <4> QED BY <1>1, <1>3, <4>1, <4>2, <4>3 DEF Reg, InHand
    <3> QED BY <3>1, <3>2
  <2>8. Fresh'
    BY <1>3, <2>1 DEF Reg, Fresh, Others, Creating
  <2>9. Accounted'
    <3> SUFFICES ASSUME NEW p \in Objects, HasContext(p)
        PROVE \/ \E k \in Handles : registry'[k] = p
              \/ \E u \in Threads : (pc'[u] \in Creating /\ call'[u].o = p) \/ Detaching(u, p)'
      BY <1>1 DEF Accounted
    <3>1. CASE \E k \in Handles : registry[k] = p
      BY <1>3, <2>3, <3>1 DEF o
    <3>2. CASE \E u \in Threads : (pc[u] \in Creating /\ call[u].o = p) \/ Detaching(u, p)
      <4>1. PICK u \in Threads : (pc[u] \in Creating /\ call[u].o = p) \/ Detaching(u, p)
        BY <3>2
      <4>2. u # t
        BY <1>1, <4>1 DEF Creating, Detaching, Destroying
      <4> QED BY <1>3, <4>1, <4>2, OthersHands DEF Others
    <3> QED BY <3>1, <3>2 DEF Reg, Accounted
  <2>10. Alone'
    BY <1>1, <1>3, <2>1 DEF Reg, Alone, Others, Presenting
  <2>11. RegistryTracksDownstream'
    BY <1>1, <1>3, <2>1 DEF Reg, RegistryTracksDownstream
  <2>12. ReplacedIsRetired'
    BY <1>1, <1>3, <1>4, <2>1 DEF Reg, ReplacedIsRetired, Others, Replacing
  <2>13. NoContextOutlivesDevice'
    BY <1>1 DEF NoContextOutlivesDevice
  <2> QED BY <2>4, <2>5, <2>6, <2>7, <2>8, <2>9, <2>10, <2>11, <2>12, <2>13 DEF Reg
<1> QED BY <1>7, <1>8

\* The driver's swapchain goes; its object is off the map already.
LEMMA DestroyDownstreamTracks ==
    ASSUME Inv, Reg, NEW t \in Threads, DestroyDownstream(t)
    PROVE  Reg'
<1> DEFINE h == call[t].h
           o == call[t].o
<1>1. /\ pc[t] = "destroyLock" /\ pc' = [pc EXCEPT ![t] = "destroyReset"]
      /\ UNCHANGED <<file, conf, device, owned, registry, object>>
      /\ live' = live \ {h} /\ replaced' = replaced \ {h}
      /\ call' = [call EXCEPT ![t].h = None]
  BY DEF DestroyDownstream, fileVars, confVars, appVars
<1>2. Others(t) /\ pc'[t] = "destroyReset"
  BY <1>1 DEF Inv, Shape, Others
<1>3. /\ call'[t].o = o /\ call'[t].h = None /\ call'[t].failed = call[t].failed
  <2>1. call'[t] = [call[t] EXCEPT !.h = None] /\ IsCall(call[t])
    BY <1>1 DEF Inv, Shape
  <2> QED BY <2>1
<1>4. /\ h \in Handles /\ Has(t, h) /\ h \in live /\ h \notin owned /\ registry[h] = None
      /\ o \in Objects /\ owned \subseteq live /\ replaced \subseteq live /\ live \subseteq Handles
      /\ \A u \in Threads \ {t} : ~Has(u, h)
  BY <1>1 DEF Reg, Typed, InHand, Has, Destroying
<1> HIDE DEF h, o
<1>5. /\ \A k \in Handles : ~Has(t, k)'
      /\ \A p \in Objects : Detaching(t, p)' <=> Detaching(t, p)
  BY <1>1, <1>2, <1>3 DEF Has, Detaching, Creating, Destroying, o
<1>6. Typed'
  <2>1. replaced' \subseteq live' /\ live' \subseteq Handles /\ owned' \subseteq live'
    BY <1>1, <1>4
  <2> QED BY <1>1, <1>2, <1>3, <1>4, <2>1 DEF Reg, Typed, Others, Ctor, Destroying
<1>7. Building' /\ OffTheMap'
  BY <1>1, <1>2, <1>3, <1>5, OthersHands
  DEF Reg, Building, BuildingOf, OffTheMap, Others, Ctor, Creating
<1>8. InHand'
  <2> SUFFICES ASSUME NEW u \in Threads, NEW k \in Handles, Has(u, k)'
      PROVE  /\ k \in live' /\ k \notin owned /\ registry[k] = None
             /\ \A v \in Threads \ {u} : ~Has(v, k)'
    BY <1>1 DEF InHand
  <2>1. u # t /\ Has(u, k) /\ k # h
    BY <1>2, <1>4, <1>5, OthersHands
  <2> QED BY <1>1, <1>2, <1>5, <2>1, OthersHands DEF Reg, InHand
<1>9. Fresh'
  BY <1>1, <1>2 DEF Reg, Fresh, Others, Creating
<1>10. Accounted'
  <2> SUFFICES ASSUME NEW p \in Objects, HasContext(p)
      PROVE \/ \E k \in Handles : registry[k] = p
            \/ \E u \in Threads : (pc'[u] \in Creating /\ call'[u].o = p) \/ Detaching(u, p)'
    BY <1>1 DEF Accounted
  <2>1. CASE \E u \in Threads : (pc[u] \in Creating /\ call[u].o = p) \/ Detaching(u, p)
    <3>1. PICK u \in Threads : (pc[u] \in Creating /\ call[u].o = p) \/ Detaching(u, p)
      BY <2>1
    <3>2. CASE u = t
      BY <1>1, <1>5, <3>1, <3>2 DEF Creating
    <3>3. CASE u # t
      BY <1>2, <3>1, <3>3, OthersHands DEF Others
    <3> QED BY <3>2, <3>3
  <2> QED BY <2>1 DEF Reg, Accounted
<1>11. Alone'
  BY <1>1, <1>2 DEF Reg, Alone, Others, Presenting
<1>12. RegistryTracksDownstream'
  BY <1>1, <1>4 DEF Reg, RegistryTracksDownstream
<1>13. ReplacedIsRetired'
  BY <1>1, <1>2 DEF Reg, ReplacedIsRetired, Others, Replacing
<1>14. NoContextOutlivesDevice'
  BY <1>1 DEF Reg, NoContextOutlivesDevice
<1> QED BY <1>6, <1>7, <1>8, <1>9, <1>10, <1>11, <1>12, <1>13, <1>14 DEF Reg

\* The object of a hook that has taken it from the map is reset.
LEMMA ObjectReset ==
    ASSUME Inv, Reg, NEW t \in Threads, NEW o \in Objects, Others(t),
           pc[t] \in {"destroyReset", "deviceLock"}, call[t].o = o,
           UNCHANGED <<file, conf, device, live, replaced, owned, registry>>,
           object' = [object EXCEPT ![o] = NoObject],
           pc'[t] = IF pc[t] = "destroyReset" THEN "idle" ELSE "device",
           call'[t].h \in Handles \cup {None}, call'[t].failed \in Handles \cup {None}
    PROVE  Reg'
<1>1. pc'[t] \in {"idle", "device"} /\ pc[t] \in Destroying
  BY DEF Destroying
<1>2. Detaching(t, o) /\ \A k \in Handles : registry[k] # o
  BY <1>1 DEF Reg, Detaching, OffTheMap
<1>3. /\ \A p \in Objects \ {o} : object'[p] = object[p]
      /\ object'[o].built = None
  BY DEF Inv, Shape
<1>4. \A u \in Threads \ {t} : pc[u] \in Creating => call[u].o # o
  BY DEF Inv, Private
<1>5. /\ \A k \in Handles : ~Has(t, k)' /\ ~Has(t, k)
      /\ \A p \in Objects : ~Detaching(t, p)' /\ (Detaching(t, p) => p = o)
  BY <1>1 DEF Has, Detaching, Creating, Destroying
<1>6. Typed'
  BY <1>1 DEF Reg, Typed, Others, Ctor, Destroying
<1>7. Building'
  <2>1. BuildingOf(t)'
    BY <1>1 DEF BuildingOf, Ctor, Creating
  <2> QED BY <1>3, <1>4, <2>1, OthersBuilding DEF Building
<1>8. OffTheMap' /\ InHand' /\ Fresh'
  <2>1. \A u \in Threads : \A k \in Handles : Has(u, k)' <=> Has(u, k)
    BY <1>5, OthersHands
  <2>2. OffTheMap'
    BY <1>5, OthersHands DEF Reg, OffTheMap
  <2>3. InHand'
    BY <2>1 DEF Reg, InHand
  <2>4. Fresh'
    BY <1>1 DEF Reg, Fresh, Others, Creating
  <2> QED BY <2>2, <2>3, <2>4
<1>9. Accounted'
  <2> SUFFICES ASSUME NEW p \in Objects, object'[p].built # None
      PROVE \/ \E k \in Handles : registry[k] = p
            \/ \E u \in Threads : (pc'[u] \in Creating /\ call'[u].o = p) \/ Detaching(u, p)'
    BY DEF Accounted
  <2>1. p # o /\ HasContext(p)
    BY <1>3
  <2>2. ~Detaching(t, p) /\ pc[t] \notin Creating
    BY <1>5, <2>1 DEF Creating
  <2> QED BY <2>1, <2>2, OthersHands DEF Reg, Accounted, Others
<1>10. Alone'
  BY DEF Reg, Alone, Others, Presenting
<1>11. RegistryTracksDownstream'
  <2>1. \A k \in Handles : registry[k] # None => registry[k] \in Objects \ {o}
    BY <1>2 DEF Inv, Shape
  <2> QED BY <1>3, <2>1 DEF Reg, RegistryTracksDownstream
<1>12. ReplacedIsRetired'
  BY <1>1 DEF Reg, ReplacedIsRetired, Others, Replacing
<1>13. NoContextOutlivesDevice'
  BY DEF Reg, Alone, NoContextOutlivesDevice, Presenting
<1> QED BY <1>6, <1>7, <1>8, <1>9, <1>10, <1>11, <1>12, <1>13 DEF Reg

\* The end of vkDestroySwapchainKHR,
LEMMA DestroyResetTracks ==
    ASSUME Inv, Reg, NEW t \in Threads, DestroyReset(t)
    PROVE  Reg'
<1>1. /\ pc[t] = "destroyReset" /\ pc' = [pc EXCEPT ![t] = "idle"]
      /\ UNCHANGED <<file, conf, device, live, replaced, owned, registry>>
      /\ object' = [object EXCEPT ![call[t].o] = NoObject]
      /\ call' = [call EXCEPT ![t] = NoCall]
  BY DEF DestroyReset, fileVars, confVars, appVars, driverVars
<1>2. Others(t) /\ pc'[t] = "idle" /\ call'[t] = NoCall
  BY <1>1 DEF Inv, Shape, Others
<1>3. call[t].o \in Objects
  BY <1>1 DEF Reg, Typed, Destroying
<1>4. call'[t].h = None /\ call'[t].failed = None
  BY <1>2
<1> QED BY <1>1, <1>2, <1>3, <1>4, ObjectReset

\* and one round of vkDestroyDevice.
LEMMA DeviceResetTracks ==
    ASSUME Inv, Reg, NEW t \in Threads, DeviceReset(t)
    PROVE  Reg'
<1>1. /\ pc[t] = "deviceLock" /\ pc' = [pc EXCEPT ![t] = "device"]
      /\ UNCHANGED <<file, conf, device, live, replaced, owned, registry>>
      /\ object' = [object EXCEPT ![call[t].o] = NoObject]
      /\ call' = [call EXCEPT ![t].o = None]
  BY DEF DeviceReset, fileVars, confVars, appVars, driverVars
<1>2. Others(t) /\ pc'[t] = "device"
  BY <1>1 DEF Inv, Shape, Others
<1>3. call[t].o \in Objects /\ call[t].h \in Handles \cup {None}
      /\ call[t].failed \in Handles \cup {None}
  BY <1>1 DEF Reg, Typed, Destroying
<1>4. call'[t].h = call[t].h /\ call'[t].failed = call[t].failed
  <2>1. call'[t] = [call[t] EXCEPT !.o = None] /\ IsCall(call[t])
    BY <1>1 DEF Inv, Shape
  <2> QED BY <2>1
<1> QED BY <1>1, <1>2, <1>3, <1>4, ObjectReset

\* The device goes away while threads may be presenting.
LEMMA DeviceBeginTracks ==
    ASSUME Inv, Reg, NEW t \in Threads, DeviceBegin(t)
    PROVE  Reg'
<1>1. /\ pc[t] = "idle" /\ pc' = [pc EXCEPT ![t] = "device"] /\ device' = "going"
      /\ \A u \in Threads : pc[u] \in Presenting
      /\ UNCHANGED <<file, conf, live, replaced, owned, registry, object, call>>
  BY DEF DeviceBegin, fileVars, confVars, appVars
<1>2. Others(t) /\ pc'[t] = "device"
  BY <1>1 DEF Inv, Shape, Others
<1>3. Typed'
  BY <1>1, <1>2 DEF Reg, Typed, Others, Ctor, Destroying
<1>4. Alone'
  BY <1>1, <1>2 DEF Alone, Others, Presenting
<1> QED BY <1>1, <1>2, <1>3, <1>4, IdleMoves DEF Creating, Destroying

\* An object of the map goes into the hands of vkDestroyDevice.
LEMMA DeviceDetachTracks ==
    ASSUME Inv, Reg, NEW t \in Threads, DeviceDetach(t)
    PROVE  Reg'
<1>1. PICK h \in Handles :
         /\ registry[h] # None
         /\ registry' = [registry EXCEPT ![h] = None]
         /\ call' = [call EXCEPT ![t].o = registry[h]]
  BY DEF DeviceDetach
<1> DEFINE o == registry[h]
<1>2. /\ pc[t] = "device" /\ pc' = [pc EXCEPT ![t] = "deviceLock"]
      /\ UNCHANGED <<file, conf, device, live, replaced, owned, object>>
  BY DEF DeviceDetach, fileVars, confVars, appVars, driverVars
<1>3. Others(t) /\ pc'[t] = "deviceLock"
  BY <1>1, <1>2 DEF Inv, Shape, Others
<1>4. /\ call'[t].o = o /\ call'[t].h = call[t].h /\ call'[t].failed = call[t].failed
  <2>1. call'[t] = [call[t] EXCEPT !.o = o] /\ IsCall(call[t])
    BY <1>1 DEF Inv, Shape
  <2> QED BY <2>1
<1>5. \A k \in Handles : registry'[k] = IF k = h THEN None ELSE registry[k]
  BY <1>1 DEF Inv, Shape
<1>6. o \in Objects /\ \A k \in Handles : registry'[k] # o
  <2>1. o \in Objects
    BY <1>1 DEF Inv, Shape
  <2>2. object[o].handle = h
    BY <1>1 DEF Reg, RegistryTracksDownstream
  <2> QED BY <1>5, <2>1, <2>2 DEF Reg, RegistryTracksDownstream
<1> HIDE DEF o
<1>7. /\ \A k \in Handles : ~Has(t, k)' /\ ~Has(t, k)
      /\ \A p \in Objects : (Detaching(t, p)' <=> p = o) /\ ~Detaching(t, p)
  BY <1>2, <1>3, <1>4 DEF Has, Detaching, Creating, Destroying
<1>8. Typed'
  BY <1>2, <1>3, <1>4, <1>6 DEF Reg, Typed, Others, Ctor, Destroying
<1>9. Building'
  <2>1. BuildingOf(t)'
    BY <1>3 DEF BuildingOf, Ctor, Creating
  <2> QED BY <1>2, <1>3, <2>1 DEF Reg, Building, BuildingOf, Others
<1>10. OffTheMap'
  <2> SUFFICES ASSUME NEW u \in Threads, NEW p \in Objects, Detaching(u, p)', NEW k \in Handles
               PROVE  registry'[k] # p
    BY DEF OffTheMap
  <2>1. CASE u = t
    BY <1>6, <1>7, <2>1
  <2>2. CASE u # t
    <3>1. Detaching(u, p)
      BY <1>3, <2>2, OthersHands
    <3> QED BY <1>5, <3>1 DEF Reg, OffTheMap
  <2> QED BY <2>1, <2>2
<1>11. InHand' /\ Fresh'
  <2>1. \A u \in Threads : \A k \in Handles : Has(u, k)' <=> Has(u, k)
    BY <1>3, <1>7, OthersHands
  <2>2. InHand'
    BY <1>2, <1>5, <2>1 DEF Reg, InHand
  <2>3. Fresh'
    BY <1>2, <1>3 DEF Reg, Fresh, Others, Creating
  <2> QED BY <2>2, <2>3
<1>12. Accounted'
  <2> SUFFICES ASSUME NEW p \in Objects, HasContext(p)
      PROVE \/ \E k \in Handles : registry'[k] = p
            \/ \E u \in Threads : (pc'[u] \in Creating /\ call'[u].o = p) \/ Detaching(u, p)'
    BY <1>2 DEF Accounted
  <2>1. CASE \E k \in Handles : registry[k] = p
    BY <1>5, <1>7, <2>1 DEF o
  <2>2. CASE \E u \in Threads : (pc[u] \in Creating /\ call[u].o = p) \/ Detaching(u, p)
    <3>1. PICK u \in Threads : (pc[u] \in Creating /\ call[u].o = p) \/ Detaching(u, p)
      BY <2>2
    <3>2. u # t
      BY <1>2, <1>7, <3>1 DEF Creating
    <3> QED BY <1>3, <3>1, <3>2, OthersHands DEF Others
  <2> QED BY <2>1, <2>2 DEF Reg, Accounted
<1>13. Alone'
  BY <1>2, <1>3 DEF Reg, Alone, Others, Presenting
<1>14. RegistryTracksDownstream'
  BY <1>2, <1>5 DEF Reg, RegistryTracksDownstream
<1>15. ReplacedIsRetired'
  <2> SUFFICES ASSUME NEW k \in replaced \cap owned, k \in Handles, registry'[k] # None
               PROVE  \E u \in Threads : call'[u].old = k /\ pc'[u] \in Replacing
    BY <1>2 DEF Reg, Typed, ReplacedIsRetired
  <2>1. registry[k] # None
    BY <1>5
  <2> QED BY <1>2, <1>3, <2>1 DEF Reg, ReplacedIsRetired, Others, Replacing
<1>16. NoContextOutlivesDevice'
  BY <1>2 DEF Reg, Alone, NoContextOutlivesDevice
<1> QED BY <1>8, <1>9, <1>10, <1>11, <1>12, <1>13, <1>14, <1>15, <1>16 DEF Reg

\* With the map empty nobody has a context: no other thread is in a hook that
\* could have taken an object from the map.
LEMMA DeviceDoneTracks ==
    ASSUME Inv, Reg, NEW t \in Threads, DeviceDone(t)
    PROVE  Reg'
<1>1. /\ pc[t] = "device" /\ pc' = [pc EXCEPT ![t] = "idle"]
      /\ \A h \in Handles : registry[h] = None
      /\ device' = "gone" /\ live' = {} /\ replaced' = {} /\ owned' = {}
      /\ UNCHANGED <<file, conf, registry, object>>
      /\ call' = [call EXCEPT ![t] = NoCall]
  BY DEF DeviceDone, fileVars, confVars
<1>2. Others(t) /\ pc'[t] = "idle" /\ call'[t] = NoCall
  BY <1>1 DEF Inv, Shape, Others
<1>3. \A u \in Threads \ {t} : pc[u] \in Presenting
  BY <1>1 DEF Reg, Alone
<1>4. \A u \in Threads : /\ pc[u] \notin Creating \cup Destroying \cup {"retireLock"}
                        /\ pc'[u] \in Presenting
  BY <1>1, <1>2, <1>3 DEF Presenting, Creating, Destroying, Others
<1>5. \A o \in Objects : ~HasContext(o)
  <2>1. \A u \in Threads : \A o \in Objects : ~Detaching(u, o)
    BY <1>4 DEF Detaching
  <2> SUFFICES ASSUME NEW o \in Objects, HasContext(o) PROVE FALSE
    OBVIOUS
  <2>2. \A h \in Handles : registry[h] # o
    BY <1>1
  <2> QED BY <1>4, <2>1, <2>2 DEF Reg, Accounted
<1>6. \A u \in Threads : pc'[u] \notin Creating \cup Ctor \cup Destroying
                           \cup {"retireLock", "destroyLock", "readOld", "create", "device"}
  BY <1>4 DEF Presenting, Creating, Ctor, Destroying
<1>7. Typed'
  BY <1>1, <1>2, <1>6 DEF Reg, Typed, Others
<1>8. Building' /\ OffTheMap' /\ InHand' /\ Fresh'
  <2>1. \A u \in Threads : /\ \A h \in Handles : ~Has(u, h)'
                          /\ \A o \in Objects : ~Detaching(u, o)'
    BY <1>6 DEF Has, Detaching
  <2> QED BY <1>6, <2>1 DEF Building, BuildingOf, OffTheMap, InHand, Fresh
<1>9. Accounted' /\ NoContextOutlivesDevice'
  BY <1>1, <1>5 DEF Accounted, NoContextOutlivesDevice
<1>10. Alone'
  BY <1>4, <1>6 DEF Alone, Destroying
<1>11. RegistryTracksDownstream' /\ ReplacedIsRetired'
  BY <1>1 DEF RegistryTracksDownstream, ReplacedIsRetired
<1> QED BY <1>7, <1>8, <1>9, <1>10, <1>11 DEF Reg

\* Every step keeps the registry in order.
LEMMA StepTracks == Inv /\ Reg /\ [Next]_vars => Reg'
<1> SUFFICES ASSUME Inv, Reg, [Next]_vars
             PROVE  Reg'
  OBVIOUS
<1>1. ASSUME NEW t \in Threads, Create(t)
      PROVE  Reg'
  BY <1>1, CreateBeginTracks, ReadOldTracks, CreateModifiedTracks, CreatePassThroughTracks,
     CreateRefusedTracks, CtorCheckTracks, CtorRereadTracks, CtorRuntimeTracks,
     CtorBuildTracks, FallbackTracks, RetireDetachTracks, RetireResetTracks,
     CreateFinishTracks
  DEF Create
<1>2. ASSUME NEW t \in Threads, Destroy(t) \/ DestroyDevice(t)
      PROVE  Reg'
  BY <1>2, DestroyDetachTracks, DestroyDownstreamTracks, DestroyResetTracks,
     DeviceBeginTracks, DeviceDetachTracks, DeviceResetTracks, DeviceDoneTracks
  DEF Destroy, DestroyDevice
<1>3. file \in Configs \cup {Missing} /\ Missing = None
  BY DEF Reg, Typed, Missing
<1>4. CASE Edit
  BY <1>4, FileMoves DEF Edit, driverVars, appVars
<1>5. CASE Gpu
  BY <1>3, <1>5, FileMoves DEF Gpu, fileVars, driverVars
<1>6. CASE DeviceCreate
  BY <1>3, <1>6, FileMoves DEF DeviceCreate, fileVars
<1>7. CASE UNCHANGED vars
  BY <1>3, <1>7, FileMoves DEF vars, fileVars, driverVars
<1> QED BY <1>1, <1>2, <1>4, <1>5, <1>6, <1>7, PresentTracks DEF Next

\* The two invariants together.
LEMMA RegistryInvariant == Spec => [](Inv /\ Reg)
  BY InitInv, InitReg, StepKeeps, StepTracks, PTL DEF Spec

\* The map names only swapchains the driver has, and the object made for each,
\* although a driver may hand out a destroyed handle again at once: whoever takes
\* a swapchain from the driver has taken it off the map before.
THEOREM MapIsCurrent == Spec => []RegistryTracksDownstream
<1>1. Reg => RegistryTracksDownstream
  BY DEF Reg
<1> QED BY RegistryInvariant, <1>1, PTL

\* No present finds the object of a swapchain that a finished creation replaced,
\* whether that creation generated, fell back or was refused.
THEOREM OldWrapperIsRetired == Spec => []ReplacedIsRetired
<1>1. Reg => ReplacedIsRetired
  BY DEF Reg
<1> QED BY RegistryInvariant, <1>1, PTL

\* When vkDestroyDevice is over the map is empty and no object has a context,
\* however many threads were presenting when it began.
THEOREM DeviceTakesContextsAlong == Spec => []NoContextOutlivesDevice
<1>1. Reg => NoContextOutlivesDevice
  BY DEF Reg
<1> QED BY RegistryInvariant, <1>1, PTL

-----------------------------------------------------------------------------
(* The runtimes *)

IsRuntime(r) ==
    /\ r = [sig |-> r.sig, contexts |-> r.contexts, pending |-> r.pending]
    /\ r.contexts = [i \in DOMAIN r.contexts |-> r.contexts[i]]

\* Contexts that are to stay, and contexts with the outputs of their device.
Kept(r) == Held(r) \ r.pending
Fits(r) == \A i \in Held(r) : r.contexts[i].outputs = r.sig.outputs

\* What stays is what an object owns, in the runtime that the object names.
Owned ==
    \A b \in Backends : \A i \in Kept(runtimes[b]) :
        i \in Objects /\ HasContext(i) /\ object[i].built.performance = b

Sound ==
    /\ runtimes = [b \in Backends |-> runtimes[b]]
    /\ \A b \in Backends : IsRuntime(runtimes[b]) /\ Fits(runtimes[b])

Run == Sound /\ Owned

\* A runtime q that keeps no more of r's contexts, in order as r was.
Follows(r, q) == IsRuntime(q) /\ Fits(q) /\ Kept(q) \subseteq Kept(r)

\* A runtime without contexts is in order whatever its signature.
LEMMA EmptyRuntime ==
    ASSUME NEW r, NEW sig, NEW q,
           q = Down \/ q = [Down EXCEPT !.sig = sig]
    PROVE  Follows(r, q) /\ Held(q) = {}
  BY DEF Follows, IsRuntime, Fits, Kept, Held, Down, Empty

\* Sweeping resets a runtime only when nothing is left in it.
LEMMA SweptFollows ==
    ASSUME NEW r, NEW q, Follows(r, q)
    PROVE  Follows(r, Swept(q)) /\ Kept(Swept(q)) \subseteq Kept(q)
<1>1. CASE Held(q) = {}
  BY <1>1, EmptyRuntime DEF Swept, Follows, Kept
<1>2. CASE Held(q) # {}
  BY <1>2 DEF Swept
<1> QED BY <1>1, <1>2

\* Contexts S taken from a runtime, and marks set for P of the others.
Taken(r, S, P) == [r EXCEPT !.contexts = Without(@, S), !.pending = P]

\* What is taken is no longer kept, and the rest is as it was.
LEMMA WithoutFollows ==
    ASSUME NEW r, IsRuntime(r), Fits(r), NEW S, NEW P, r.pending \subseteq S \cup P
    PROVE  Follows(r, Taken(r, S, P)) /\ Kept(Taken(r, S, P)) \subseteq Kept(r) \ S
<1> DEFINE q == Taken(r, S, P)
<1>1. q = [sig |-> r.sig, contexts |-> Without(r.contexts, S), pending |-> P]
  <2>1. q = [r EXCEPT !.contexts = Without(@, S), !.pending = P]
    BY DEF Taken
  <2> HIDE DEF q
  <2> QED BY <2>1 DEF IsRuntime
<1> HIDE DEF q
<1>2. /\ q.sig = r.sig /\ q.pending = P
      /\ Held(q) = Held(r) \ S
      /\ \A i \in Held(r) \ S : q.contexts[i] = r.contexts[i]
      /\ q.contexts = [i \in DOMAIN q.contexts |-> q.contexts[i]]
  BY <1>1 DEF Without, Held
<1>3. IsRuntime(q)
  BY <1>1, <1>2 DEF IsRuntime
<1>4. Fits(q)
  BY <1>2 DEF Fits
<1>5. Kept(q) \subseteq Kept(r) \ S
  BY <1>2 DEF Kept
<1> QED BY <1>3, <1>4, <1>5 DEF Follows, q

\* Collecting takes pending contexts only.
LEMMA CollectedFollows ==
    ASSUME NEW r, IsRuntime(r), Fits(r), NEW late
    PROVE  Follows(r, Collected(r, late))
<1>1. CASE r.pending = {}
  BY <1>1 DEF Collected, Follows
<1>2. CASE r.pending # {}
  <2> DEFINE q == Taken(r, r.pending \ late, late)
  <2>1. Follows(r, q)
    BY WithoutFollows
  <2>2. Collected(r, late) = Swept(q)
    BY <1>2 DEF Collected, Taken
  <2> HIDE DEF q
  <2> QED BY <2>1, <2>2, SweptFollows
<1> QED BY <1>1, <1>2

\* Finalizing drops all contexts or marks them all.
LEMMA FinalizedFollows ==
    ASSUME NEW r, IsRuntime(r), Fits(r), NEW late
    PROVE  Follows(r, Finalized(r, late))
<1>1. CASE late = {}
  BY <1>1, EmptyRuntime DEF Finalized
<1>2. CASE late # {}
  <2>1. Finalized(r, late) = [sig |-> r.sig, contexts |-> r.contexts, pending |-> Held(r)]
    BY <1>2 DEF Finalized, IsRuntime
  <2> QED BY <2>1 DEF Follows, IsRuntime, Fits, Kept, Held
<1> QED BY <1>1, <1>2

\* One runtime replaced by one that is in order.
LEMMA OneRuntime ==
    ASSUME Sound, NEW b, NEW q, runtimes' = [runtimes EXCEPT ![b] = q],
           b \in Backends => IsRuntime(q) /\ Fits(q)
    PROVE  /\ Sound'
           /\ \A c \in Backends : runtimes'[c] = IF c = b THEN q ELSE runtimes[c]
  BY DEF Sound

\* What the owned contexts are after a step that may have dropped one.
LEMMA OwnedMoves ==
    ASSUME Owned, NEW o,
           \A c \in Backends : Kept(runtimes'[c]) \subseteq Kept(runtimes[c]),
           \A c \in Backends : o \notin Kept(runtimes'[c]),
           \A p \in Objects \ {o} : object'[p].built = object[p].built
    PROVE  Owned'
<1> SUFFICES ASSUME NEW b \in Backends, NEW i \in Kept(runtimes'[b])
             PROVE  i \in Objects /\ object'[i].built # None /\ object'[i].built.performance = b
  BY DEF Owned
<1>1. i \in Kept(runtimes[b]) /\ i # o
  OBVIOUS
<1>2. i \in Objects /\ HasContext(i) /\ object[i].built.performance = b
  BY <1>1 DEF Owned
<1> QED BY <1>1, <1>2

\* initialize() and finalize(): no runtime keeps a context it did not keep.
LEMMA InitializeRuns ==
    ASSUME Run, NEW b, NEW sig, NEW result, Initialize(b, sig, result), object' = object
    PROVE  Run'
<1>1. PICK late : LET r == Collected(runtimes[b], late) IN
       \/ r.sig = sig /\ runtimes' = [runtimes EXCEPT ![b] = r]
       \/ r.sig # sig /\ runtimes' = [runtimes EXCEPT ![b] = r]
       \/ runtimes' = [runtimes EXCEPT ![b] =
                               IF result = "ok" THEN [Down EXCEPT !.sig = sig] ELSE Down]
  BY DEF Initialize
<1>2. PICK q : /\ runtimes' = [runtimes EXCEPT ![b] = q]
               /\ q \in {Collected(runtimes[b], late), [Down EXCEPT !.sig = sig], Down}
  BY <1>1
<1>3. b \in Backends => Follows(runtimes[b], q)
  <2> SUFFICES ASSUME b \in Backends PROVE Follows(runtimes[b], q)
    OBVIOUS
  <2>1. CASE q = Collected(runtimes[b], late)
    BY <2>1, CollectedFollows DEF Run, Sound
  <2>2. CASE q = [Down EXCEPT !.sig = sig] \/ q = Down
    BY <2>2, EmptyRuntime
  <2> QED BY <1>2, <2>1, <2>2
<1>4. Sound' /\ \A c \in Backends : Kept(runtimes'[c]) \subseteq Kept(runtimes[c])
  <2>1. Sound' /\ \A c \in Backends : runtimes'[c] = IF c = b THEN q ELSE runtimes[c]
    BY <1>2, <1>3, OneRuntime DEF Run, Follows
  <2> QED BY <1>3, <2>1 DEF Follows
<1>5. \A c \in Backends : Kept(runtimes[c]) \subseteq Objects
  BY DEF Run, Owned
<1>6. Owned'
  BY <1>4, <1>5, OwnedMoves, None \notin Objects DEF Run
<1> QED BY <1>4, <1>6 DEF Run

\* finalize() does so in two steps, a collection and its own.
LEMMA FinalizeRuns ==
    ASSUME Run, NEW b, Finalize(b), object' = object
    PROVE  Run'
<1>1. PICK late : runtimes' = [runtimes EXCEPT
                    ![b] = Finalized(Collected(@, @.pending \cap late), late)]
  BY DEF Finalize
<1> DEFINE r == Collected(runtimes[b], runtimes[b].pending \cap late)
           q == Finalized(r, late)
<1>2. runtimes' = [runtimes EXCEPT ![b] = q]
  BY <1>1 DEF Run, Sound
<1>3. b \in Backends => Follows(runtimes[b], q)
  <2> SUFFICES ASSUME b \in Backends PROVE Follows(runtimes[b], q)
    OBVIOUS
  <2>1. Follows(runtimes[b], r)
    BY CollectedFollows DEF Run, Sound
  <2> HIDE DEF r
  <2>2. Follows(r, q)
    BY <2>1, FinalizedFollows DEF Follows
  <2> QED BY <2>1, <2>2 DEF Follows
<1> HIDE DEF q
<1>4. Sound' /\ \A c \in Backends : Kept(runtimes'[c]) \subseteq Kept(runtimes[c])
  <2>1. Sound' /\ \A c \in Backends : runtimes'[c] = IF c = b THEN q ELSE runtimes[c]
    BY <1>2, <1>3, OneRuntime DEF Run, Follows
  <2> QED BY <1>3, <2>1 DEF Follows
<1>5. \A c \in Backends : Kept(runtimes[c]) \subseteq Objects
  BY DEF Run, Owned
<1>6. Owned'
  BY <1>4, <1>5, OwnedMoves, None \notin Objects DEF Run
<1> QED BY <1>4, <1>6 DEF Run

\* deleteContext(): the context goes, or is marked.
LEMMA DeleteFollows ==
    ASSUME Run, NEW b, NEW id, DeleteContext(b, id)
    PROVE  /\ Sound'
           /\ \A c \in Backends : Kept(runtimes'[c]) \subseteq Kept(runtimes[c])
           /\ b \in Backends => id \notin Kept(runtimes'[b])
<1> DEFINE r == runtimes[b]
           q == [r EXCEPT !.pending = @ \cup {id}]
<1>1. \/ id \notin Held(r) /\ runtimes' = runtimes
      \/ runtimes' = [runtimes EXCEPT ![b] = Deleted(r, id)]
      \/ runtimes' = [runtimes EXCEPT ![b] = q]
  BY DEF DeleteContext, runtimeVars
<1>2. b \in Backends => /\ Follows(r, Deleted(r, id)) /\ id \notin Kept(Deleted(r, id))
                       /\ Follows(r, q) /\ id \notin Kept(q)
  <2> SUFFICES ASSUME b \in Backends
               PROVE  /\ Follows(r, Deleted(r, id)) /\ id \notin Kept(Deleted(r, id))
                      /\ Follows(r, q) /\ id \notin Kept(q)
    OBVIOUS
  <2> DEFINE p == [r EXCEPT !.contexts = Without(@, {id}), !.pending = @ \ {id}]
  <2>1. IsRuntime(r) /\ Fits(r) /\ Deleted(r, id) = Swept(p)
    BY DEF Run, Sound, Deleted
  <2> HIDE DEF r
  <2>2. Follows(r, p) /\ id \notin Kept(p)
    <3>1. p = Taken(r, {id}, r.pending \ {id})
      BY <2>1 DEF IsRuntime, Taken
    <3> QED BY <2>1, <3>1, WithoutFollows
  <2>3. q = [sig |-> r.sig, contexts |-> r.contexts, pending |-> r.pending \cup {id}]
    BY <2>1 DEF IsRuntime
  <2> HIDE DEF p, q
  <2>4. Follows(r, Swept(p)) /\ id \notin Kept(Swept(p))
    BY <2>2, SweptFollows
  <2>5. Follows(r, q) /\ id \notin Kept(q)
    BY <2>1, <2>3 DEF Follows, IsRuntime, Fits, Kept, Held
  <2> QED BY <2>1, <2>4, <2>5
<1> HIDE DEF q
<1>3. CASE id \notin Held(r) /\ runtimes' = runtimes
  BY <1>3 DEF Run, Sound, Kept
<1>4. ASSUME NEW s, runtimes' = [runtimes EXCEPT ![b] = s],
             b \in Backends => Follows(r, s) /\ id \notin Kept(s)
      PROVE  /\ Sound'
             /\ \A c \in Backends : Kept(runtimes'[c]) \subseteq Kept(runtimes[c])
             /\ b \in Backends => id \notin Kept(runtimes'[b])
  <2>1. Sound' /\ \A c \in Backends : runtimes'[c] = IF c = b THEN s ELSE runtimes[c]
    BY <1>4, OneRuntime DEF Run, Follows
  <2> QED BY <1>4, <2>1 DEF Follows
<1> QED BY <1>1, <1>2, <1>3, <1>4

\* An object whose context is released owns none that stays; the step changes no
\* other object.
LEMMA ReleaseRuns ==
    ASSUME Run, NEW o \in Objects, ReleaseContext(o),
           \A p \in Objects \ {o} : object'[p] = object[p]
    PROVE  Run'
<1>1. \A c \in Backends : o \in Kept(runtimes[c]) =>
                           HasContext(o) /\ object[o].built.performance = c
  BY DEF Run, Owned
<1>2. CASE HasContext(o)
  <2>1. DeleteContext(object[o].built.performance, o)
    BY <1>2 DEF ReleaseContext
  <2>2. /\ Sound'
        /\ \A c \in Backends : Kept(runtimes'[c]) \subseteq Kept(runtimes[c])
        /\ \A c \in Backends : object[o].built.performance = c => o \notin Kept(runtimes'[c])
    BY <2>1, DeleteFollows
  <2>3. \A c \in Backends : o \notin Kept(runtimes'[c])
    BY <1>1, <2>2
  <2> QED BY <2>2, <2>3, OwnedMoves DEF Run
<1>3. CASE ~HasContext(o)
  <2>1. runtimes' = runtimes
    BY <1>3 DEF ReleaseContext, runtimeVars
  <2>2. Sound'
    BY <2>1 DEF Run, Sound
  <2> QED BY <1>1, <1>3, <2>1, <2>2, OwnedMoves DEF Run
<1> QED BY <1>2, <1>3

\* An object that no runtime keeps, of its own or of nobody, changes.
LEMMA ObjectRuns ==
    ASSUME Run, NEW o \in Objects, runtimes' = runtimes,
           \A p \in Objects \ {o} : object'[p].built = object[p].built,
           \/ ~HasContext(o) \/ object'[o].built = object[o].built
           \/ \A c \in Backends : o \notin Held(runtimes[c])
    PROVE  Run'
<1>1. Sound'
  BY DEF Run, Sound
<1>2. CASE object'[o].built = object[o].built
  BY <1>1, <1>2 DEF Run, Owned
<1>3. CASE ~HasContext(o) \/ \A c \in Backends : o \notin Held(runtimes[c])
  <2>1. \A c \in Backends : o \notin Kept(runtimes'[c])
    BY <1>3 DEF Run, Owned, Kept
  <2> QED BY <1>1, <2>1, OwnedMoves DEF Run
<1> QED BY <1>1, <1>2, <1>3 DEF Run

\* A step that changes no runtime and no object.
LEMMA SameRuns ==
    ASSUME Run, runtimes' = runtimes, object' = object
    PROVE  Run'
  BY DEF Run, Sound, Owned

\* createContext(): the object gets a context with the device's outputs.
LEMMA BuildRuns ==
    ASSUME Inv, Reg, Run, NEW t \in Threads, CtorBuild(t)
    PROVE  Run'
<1> DEFINE o == call[t].o
           b == call[t].conf.performance
           sig == SignatureOf(call[t].conf)
           r == runtimes[b]
           new == [i \in Held(r) \cup {o} |-> IF i = o THEN sig ELSE r.contexts[i]]
           q == [r EXCEPT !.contexts = new]
<1>1. /\ pc[t] = "build" /\ object' = [object EXCEPT ![o].built = call[t].conf]
      /\ CreateContext(b, o, sig)
  BY DEF CtorBuild
<1>2. o \in Objects /\ call[t].conf \in Configs /\ object[o].built = None
  BY <1>1 DEF Reg, Typed, Building, BuildingOf, Ctor
<1>3. /\ \A p \in Objects \ {o} : object'[p] = object[p]
      /\ object'[o].built = call[t].conf /\ call[t].conf # None
  BY <1>1, <1>2 DEF Inv, Shape
<1>4. \A c \in Backends : o \notin Kept(runtimes[c])
  BY <1>2 DEF Run, Owned
<1>5. CASE b \in Backends
  <2>1. IsRuntime(r) /\ Fits(r) /\ sig.outputs = r.sig.outputs
    BY <1>1, <1>5 DEF Run, Sound, CreateContext, Accepts
  <2>2. runtimes' = [runtimes EXCEPT ![b] = q]
    BY <1>1 DEF CreateContext
  <2> HIDE DEF sig, b, o, r
  <2>3. /\ Kept(q) \subseteq Kept(r) \cup {o}
        /\ IsRuntime(q) /\ Fits(q)
    <3>1. q = [sig |-> r.sig, contexts |-> new, pending |-> r.pending]
      BY <2>1 DEF IsRuntime
    <3> QED BY <2>1, <3>1 DEF IsRuntime, Fits, Held, Kept
  <2> HIDE DEF q
  <2>4. Sound' /\ \A c \in Backends : runtimes'[c] = IF c = b THEN q ELSE runtimes[c]
    BY <2>2, <2>3, OneRuntime DEF Run
  <2>5. ASSUME NEW c \in Backends, NEW i \in Kept(runtimes'[c])
        PROVE  i \in Objects /\ object'[i].built # None /\ object'[i].built.performance = c
    <3>1. CASE i = o
      <4>1. c = b
        BY <1>4, <2>4, <2>5, <3>1
      <4> QED BY <1>2, <1>3, <3>1, <4>1 DEF b
    <3>2. CASE i # o
      <4>1. i \in Kept(runtimes[c])
        BY <2>3, <2>4, <2>5, <3>2 DEF r
      <4> QED BY <1>3, <3>2, <4>1 DEF Run, Owned
    <3> QED BY <3>1, <3>2
  <2> QED BY <2>4, <2>5 DEF Run, Owned
<1>6. CASE b \notin Backends
  <2>1. runtimes' = runtimes
    BY <1>1, <1>6 DEF CreateContext, Run, Sound
  <2> QED BY <1>2, <1>3, <2>1, ObjectRuns
<1> QED BY <1>5, <1>6

\* Steps that leave the runtimes and the objects alone,
LEMMA QuietRuns ==
    ASSUME Run, NEW t \in Threads,
           \/ \E old \in Handles \cup {None} : CreateBegin(t, old)
           \/ ReadOld(t) \/ CreatePassThrough(t) \/ CreateRefused(t)
           \/ CtorCheck(t) \/ CtorReread(t) \/ CtorDone(t) \/ RetireDetach(t)
           \/ \E h \in Handles : PresentFind(t, h) \/ DestroyDetach(t, h)
           \/ PresentLock(t) \/ PresentStale(t) \/ PresentKeep(t)
           \/ PresentEnter(t) \/ PresentDone(t) \/ DestroyDownstream(t)
           \/ DeviceBegin(t) \/ DeviceDetach(t) \/ DeviceDone(t)
    PROVE  Run'
<1>1. runtimes' = runtimes /\ object' = object
  BY DEF CreateBegin, ReadOld, CreatePassThrough, CreateRefused, CtorCheck, CtorReread,
     CtorDone, RetireDetach, PresentFind, DestroyDetach, PresentLock, PresentStale,
     PresentKeep, PresentEnter, PresentDone, DestroyDownstream, DeviceBegin,
     DeviceDetach, DeviceDone, runtimeVars
<1> QED BY <1>1, SameRuns

\* those that change an object which has no context, or only its mode,
LEMMA MakeRuns ==
    ASSUME Inv, Reg, Run, NEW t \in Threads,
           CreateModified(t) \/ Fallback(t) \/ CreateFinish(t) \/ PresentAdopt(t)
    PROVE  Run'
<1>1. CASE CreateModified(t)
  <2>1. PICK h \in Handles, o \in Objects :
          /\ Unused(o)
          /\ object' = [object EXCEPT ![o] = [NoObject EXCEPT !.handle = h,
                                                 !.mode = call[t].conf.mode]]
    BY <1>1 DEF CreateModified
  <2>2. \A p \in Objects \ {o} : object'[p].built = object[p].built
    BY <2>1 DEF Inv, Shape
  <2>3. runtimes' = runtimes
    BY <1>1 DEF CreateModified, runtimeVars
  <2> QED BY <2>1, <2>2, <2>3, ObjectRuns DEF Unused
<1>2. CASE Fallback(t)
  <2>1. call[t].o \in Objects /\ ~HasContext(call[t].o)
    BY <1>2 DEF Fallback, Reg, Typed, Building, BuildingOf, Ctor
  <2>2. object' = [object EXCEPT ![call[t].o] = NoObject] /\ runtimes' = runtimes
    BY <1>2 DEF Fallback, runtimeVars
  <2>3. \A p \in Objects \ {call[t].o} : object'[p].built = object[p].built
    BY <2>2 DEF Inv, Shape
  <2> QED BY <2>1, <2>2, <2>3, ObjectRuns
<1>3. CASE CreateFinish(t)
  <2>1. runtimes' = runtimes
    BY <1>3 DEF CreateFinish, runtimeVars
  <2>2. \/ object' = object
        \/ \E o \in Objects : /\ Unused(o)
                              /\ object' = [object EXCEPT ![o] = [NoObject EXCEPT !.handle = call[t].h]]
    BY <1>3 DEF CreateFinish
  <2>3. ASSUME NEW o \in Objects, Unused(o),
               object' = [object EXCEPT ![o] = [NoObject EXCEPT !.handle = call[t].h]]
        PROVE  Run'
    <3>1. \A p \in Objects \ {o} : object'[p].built = object[p].built
      BY <2>3 DEF Inv, Shape
    <3> QED BY <2>1, <2>3, <3>1, ObjectRuns DEF Unused
  <2> QED BY <2>1, <2>2, <2>3, SameRuns
<1>4. CASE PresentAdopt(t)
  <2>1. runtimes' = runtimes
    BY <1>4 DEF PresentAdopt, runtimeVars
  <2>2. object' = object \/ object' = [object EXCEPT ![call[t].o].mode = file.mode]
    BY <1>4 DEF PresentAdopt
  <2>3. CASE object' = [object EXCEPT ![call[t].o].mode = file.mode]
    <3>1. call[t].o \in Objects
      BY <1>4 DEF PresentAdopt, Inv, Owner, Holding
    <3>2. \A p \in Objects : object'[p].built = object[p].built
      BY <2>3, <3>1 DEF Inv, Shape
    <3> QED BY <2>1, <3>1, <3>2, ObjectRuns
  <2> QED BY <2>1, <2>2, <2>3, SameRuns
<1> QED BY <1>1, <1>2, <1>3, <1>4

\* and those that release the context of an object.
LEMMA DropRuns ==
    ASSUME Inv, Reg, Run, NEW t \in Threads,
           CtorThrows(t) \/ RetireReset(t) \/ PresentThrows(t) \/ DestroyReset(t) \/ DeviceReset(t)
    PROVE  Run'
<1>1. ASSUME NEW o \in Objects, ReleaseContext(o), NEW x,
             \/ object' = [object EXCEPT ![o] = x]
             \/ object' = [object EXCEPT ![o].built = None]
             \/ object' = [object EXCEPT ![o].mode = None, ![o].built = None]
      PROVE  Run'
  <2>1. \A p \in Objects \ {o} : object'[p] = object[p]
    BY <1>1 DEF Inv, Shape
  <2> QED BY <1>1, <2>1, ReleaseRuns
<1>2. CASE CtorThrows(t)
  <2>1. call[t].o \in Objects
    BY <1>2 DEF CtorThrows, Reg, Typed, Ctor
  <2> QED BY <1>1, <1>2, <2>1 DEF CtorThrows
<1>3. CASE RetireReset(t)
  <2>1. call[t].retired \in Objects
    BY <1>3 DEF RetireReset, Reg, Typed
  <2> QED BY <1>1, <1>3, <2>1 DEF RetireReset
<1>4. CASE PresentThrows(t)
  <2>1. call[t].o \in Objects
    BY <1>4 DEF PresentThrows, Inv, Owner, Holding
  <2> QED BY <1>1, <1>4, <2>1 DEF PresentThrows
<1>5. CASE DestroyReset(t) \/ DeviceReset(t)
  <2>1. call[t].o \in Objects
    BY <1>5 DEF DestroyReset, DeviceReset, Reg, Typed, Destroying
  <2> QED BY <1>1, <1>5, <2>1 DEF DestroyReset, DeviceReset
<1> QED BY <1>2, <1>3, <1>4, <1>5

\* Both runtimes are down at first.
LEMMA InitRun == Init => Run
<1> SUFFICES ASSUME Init PROVE Run
  OBVIOUS
<1>1. runtimes = [b \in Backends |-> Down]
  BY DEF Init, RuntimeInit
<1>2. IsRuntime(Down) /\ Fits(Down) /\ Kept(Down) = {}
  BY EmptyRuntime DEF Follows, Kept
<1> QED BY <1>1, <1>2 DEF Run, Sound, Owned

\* Every step keeps the runtimes in order.
LEMMA StepRuns == Inv /\ Reg /\ Run /\ [Next]_vars => Run'
<1> SUFFICES ASSUME Inv, Reg, Run, [Next]_vars
             PROVE  Run'
  OBVIOUS
<1>1. ASSUME NEW t \in Threads, CtorFinalize(t) \/ CtorInitialize(t)
      PROVE  Run'
  BY <1>1, FinalizeRuns, InitializeRuns DEF CtorFinalize, CtorInitialize
<1>2. ASSUME NEW t \in Threads, Create(t)
      PROVE  Run'
  BY <1>1, <1>2, QuietRuns, MakeRuns, DropRuns, BuildRuns DEF Create
<1>3. ASSUME NEW t \in Threads, Present(t) \/ Destroy(t) \/ DestroyDevice(t)
      PROVE  Run'
  BY <1>3, QuietRuns, MakeRuns, DropRuns DEF Present, Destroy, DestroyDevice
<1>4. CASE Edit \/ Gpu \/ DeviceCreate \/ UNCHANGED vars
  <2>1. runtimes' = runtimes /\ object' = object
    BY <1>4 DEF Edit, Gpu, GpuCompletes, DeviceCreate, vars, runtimeVars
  <2> QED BY <2>1, SameRuns
<1> QED BY <1>2, <1>3, <1>4 DEF Next

\* The three invariants together.
LEMMA RuntimeInvariant == Spec => []Run
  BY InitInv, InitReg, InitRun, StepKeeps, StepTracks, StepRuns, PTL DEF Spec

\* Every context was given exactly the outputs that the device of its runtime
\* generates, although initialize() and createContext() are two calls with other
\* threads' calls in between, and finalize() may fail in the middle.
THEOREM ContextsFitTheirDevice == Spec => []OutputsMatchRuntime
<1>1. Run => OutputsMatchRuntime
  BY DEF Run, Sound, Fits, OutputsMatchRuntime
<1> QED BY RuntimeInvariant, <1>1, PTL

\* No context is lost: one that is not marked for deletion is owned by an object,
\* which remembers the runtime to delete it from, whatever the configuration has
\* become since.
THEOREM NoContextIsLost == Spec => []OrphansArePending
<1>1. Run => OrphansArePending
  BY DEF Run, Owned, Kept, OrphansArePending
<1> QED BY RuntimeInvariant, <1>1, PTL

=============================================================================
