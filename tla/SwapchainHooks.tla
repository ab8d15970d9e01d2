---------------------------- MODULE SwapchainHooks ----------------------------
(***************************************************************************)
(* The layer's swapchain hooks (hooks.cpp): the map from downstream        *)
(* swapchains to SwapchainState objects, their contexts, and the           *)
(* configuration that threads of the application reload as they present,   *)
(* on top of the framegen runtimes that the contexts share.                *)
(*                                                                         *)
(* A hook is split where it releases or waits for a lock, calls the driver *)
(* or enters a runtime.  hookStateMutex is only held inside single steps;  *)
(* presentMutex of an object is held across steps.                         *)
(*                                                                         *)
(* The application synchronizes creation and destruction of one swapchain, *)
(* as Vulkan asks of it, and gives up a swapchain that was reported out of *)
(* date; presents are allowed to race with everything, since presentMutex  *)
(* is there to make that safe.  The flow scale handed from one swapchain   *)
(* to the next is data and is left out; so are allocation failures.        *)
(***************************************************************************)
EXTENDS FramegenRuntime

CONSTANTS
    Threads,   \* threads of the application
    Handles,   \* downstream swapchains that can exist at once
    Configs,   \* records [enable, on, outputs, flow, adaptive, performance, mode]
    Default,   \* what the default configuration file says for this process
    MaxEdits   \* bound of the model: edits of the configuration file

ASSUME SwapchainHooksAssumption ==
    /\ Default \in Configs /\ ~Default.enable
    /\ None \notin Threads \cup Handles \cup Configs
    /\ MaxEdits \in Nat

Objects == Ids    \* SwapchainState objects; a context is known by its object
Missing == None   \* the configuration file does not exist

VARIABLES
    file, edits,  \* the configuration file's content and its write time
    conf, stamp,  \* the active configuration, and the write time it was read at
    device,       \* up, going (vkDestroyDevice is under way), gone
    live,         \* swapchains the driver has
    replaced,     \* those that were consumed as oldSwapchain
    owned,        \* those the application has been given and not destroyed
    outdated,     \* those it has been told are out of date
    registry,     \* swapchains: handle -> object
    object,       \* object -> [handle, mode, built]; built: the configuration
                  \* its LsContext was built for; mode: configuredPresent, kept
                  \* for objects with a context, which alone look at it
    mutex,        \* object -> the thread that holds its presentMutex
    pc, call      \* thread -> where it is, and the hook's local variables

fileVars   == <<file, edits>>
confVars   == <<conf, stamp>>
driverVars == <<device, live, replaced>>
appVars    == <<owned, outdated>>
threadVars == <<pc, call>>
vars == <<fileVars, confVars, driverVars, appVars, registry, object, mutex,
          threadVars, runtimeVars>>

NoObject == [handle |-> None, mode |-> None, built |-> None]
NoCall   == [old |-> None, h |-> None, o |-> None, retired |-> None,
             failed |-> None, conf |-> None, stamp |-> 0]

SignatureOf(c) == [outputs |-> c.outputs, flow |-> c.flow]

\* Objects nobody refers to: not the map, not a hook, not a runtime.
Unused(o) ==
    /\ \A h \in Handles : registry[h] # o
    /\ \A t \in Threads : o \notin {call[t].o, call[t].retired}
    /\ \A b \in Backends : o \notin Held(runtimes[b])

\* Where a thread is that is in no hook but vkQueuePresentKHR.
Presenting == {"idle", "lock", "poll", "enter", "generate"}

Goto(t, label)    == pc' = [pc EXCEPT ![t] = label]
Return(t)         == pc' = [pc EXCEPT ![t] = "idle"]
                       /\ call' = [call EXCEPT ![t] = NoCall]
HasContext(o)     == object[o].built # None

\* The deleter looks up the backend when it runs.
ReleaseContext_Current(o) ==
    IF HasContext(o) THEN DeleteContext(conf.performance, o)
    ELSE UNCHANGED runtimeVars
\* lsfgCtxId's deleter, in the runtime the context was built in.
ReleaseContext(o) ==
    IF HasContext(o) THEN DeleteContext(object[o].built.performance, o)
    ELSE UNCHANGED runtimeVars

-----------------------------------------------------------------------------
(* The configuration file. *)

Edit ==
    /\ edits < MaxEdits
    /\ \E f \in Configs \cup {Missing} : file' = f
    /\ edits' = edits + 1
    /\ UNCHANGED <<confVars, driverVars, appVars, registry, object, mutex,
                   threadVars, runtimeVars>>

\* configurationFileChanged(), for a configuration read at time t: a missing
\* file counts as changed.
FileChanged(t) == file = Missing \/ t # edits

\* updateConfig() and setActive() on a file that exists.
Reload == conf' = file /\ stamp' = edits

\* requiresSwapchainRecreation(): resident targets keep their context over a
\* change of the multiplier within its capacity, and over off and on.
RequiresRecreation(p, n) ==
    \/ p.enable # n.enable
    \/ p.adaptive # n.adaptive
    \/ n.outputs > p.outputs
    \/ p.flow # n.flow
    \/ p.performance # n.performance
    \/ p.mode # n.mode

\* configurationChangesOnlyPresentMode()
OnlyMode(p, n) == [p EXCEPT !.mode = n.mode] = n

-----------------------------------------------------------------------------
(* myvkCreateSwapchainKHR *)

\* Vulkan's external synchronization of creation and destruction.
Exclusive(h) ==
    h # None => \A t \in Threads : \/ pc[t] \in Presenting
                                  \/ h \notin {call[t].old, call[t].h}

\* The refresh before the creation may fail to parse the file.
CreateBegin(t, old) ==
    /\ pc[t] = "idle" /\ device = "up" /\ Exclusive(old)
    /\ old # None => old \in owned \ replaced
    /\ \/ file # Missing /\ FileChanged(stamp) /\ Reload
       \/ UNCHANGED confVars
    /\ LET o == IF old = None THEN None ELSE registry[old] IN
       /\ call' = [call EXCEPT ![t] = [NoCall EXCEPT !.old = old, !.conf = conf',
                                                      !.retired = o]]
       /\ Goto(t, IF o = None THEN "create" ELSE "readOld")
    /\ UNCHANGED <<fileVars, driverVars, appVars, registry, object, mutex,
                   runtimeVars>>

\* The old object's configuration is read under its presentMutex.
ReadOld(t) ==
    /\ pc[t] = "readOld" /\ mutex[call[t].retired] = None
    /\ call' = [call EXCEPT ![t].retired = None]
    /\ Goto(t, "create")
    /\ UNCHANGED <<fileVars, confVars, driverVars, appVars, registry, object, mutex,
                   runtimeVars>>

\* The driver creates h in place of old.
DriverCreates(h, old) ==
    /\ h \in Handles \ live
    /\ live' = live \cup {h}
    /\ replaced' = replaced \cup ({old} \ {None})

\* The swapchain with the layer's parameters; its object is made at once.
CreateModified(t) ==
    /\ pc[t] = "create" /\ call[t].conf.enable
    /\ \E h \in Handles, o \in Objects :
         /\ DriverCreates(h, call[t].old)
         /\ Unused(o)
         /\ object' = [object EXCEPT ![o] = [NoObject EXCEPT !.handle = h,
                                                !.mode = call[t].conf.mode]]
         /\ call' = [call EXCEPT ![t].h = h, ![t].o = o]
    /\ Goto(t, "configure")
    /\ UNCHANGED <<fileVars, confVars, device, appVars, registry, mutex, runtimeVars>>

\* createPassThrough(): generation is disabled or unsupported, or the driver
\* refused the layer's parameters.
CreatePassThrough(t) ==
    /\ pc[t] = "create"
    /\ \E h \in Handles :
         /\ DriverCreates(h, call[t].old)
         /\ call' = [call EXCEPT ![t].h = h]
    /\ Goto(t, "retire")
    /\ UNCHANGED <<fileVars, confVars, device, appVars, registry, object, mutex,
                   runtimeVars>>

\* The driver refuses the application's own parameters as well.
CreateRefused(t) ==
    /\ pc[t] = "create"
    /\ Return(t)
    /\ UNCHANGED <<fileVars, confVars, driverVars, appVars, registry, object, mutex,
                   runtimeVars>>

\* LsContext's constructor looks at the file once more.
CtorCheck(t) ==
    /\ pc[t] = "configure"
    /\ IF FileChanged(stamp)
       THEN Goto(t, "reread") /\ UNCHANGED call
       ELSE call' = [call EXCEPT ![t].conf = conf] /\ Goto(t, "initialize")
    /\ UNCHANGED <<fileVars, confVars, driverVars, appVars, registry, object,
                   mutex, runtimeVars>>

\* A file that is missing is written with the defaults; reading it may throw.
CtorReread(t) ==
    /\ pc[t] = "reread"
    /\ file' = IF file = Missing THEN Default ELSE file
    /\ \/ conf' = file' /\ stamp' = edits
       \/ UNCHANGED confVars
    /\ call' = [call EXCEPT ![t].conf = conf']
    /\ Goto(t, "finalizeP")
    /\ UNCHANGED <<edits, driverVars, appVars, registry, object, mutex,
                   runtimeVars>>

\* Then both runtimes are finalized, LSFG_3_1P first.
CtorFinalize(t) ==
    /\ \/ pc[t] = "finalizeP" /\ Finalize(TRUE) /\ Goto(t, "finalize")
       \/ pc[t] = "finalize" /\ Finalize(FALSE) /\ Goto(t, "initialize")
    /\ UNCHANGED <<fileVars, confVars, driverVars, appVars, registry, object,
                   mutex, call>>

CtorInitialize(t) ==
    /\ pc[t] = "initialize"
    /\ \E result \in {"ok", "conflict", "failed"} :
         /\ Initialize(call[t].conf.performance, SignatureOf(call[t].conf), result)
         /\ Goto(t, CASE result = "ok"       -> "build"
                      [] result = "conflict" -> "conflict"
                      [] result = "failed"   -> "fallback")
    /\ UNCHANGED <<fileVars, confVars, driverVars, appVars, registry, object, mutex,
                   call>>

CtorBuild(t) ==
    /\ pc[t] = "build"
    /\ CreateContext(call[t].conf.performance, call[t].o, SignatureOf(call[t].conf))
    /\ object' = [object EXCEPT ![call[t].o].built = call[t].conf]
    /\ Goto(t, "built")
    /\ UNCHANGED <<fileVars, confVars, driverVars, appVars, registry, mutex, call>>

CtorDone(t) ==
    /\ pc[t] = "built"
    /\ Goto(t, "retire")
    /\ UNCHANGED <<fileVars, confVars, driverVars, appVars, registry, object, mutex,
                   call, runtimeVars>>

\* The constructor throws, or initialize() has: what was built is released.
CtorThrows(t) ==
    /\ pc[t] \in {"configure", "build", "built", "conflict"}
    /\ ReleaseContext(call[t].o)
    /\ object' = [object EXCEPT ![call[t].o].built = None]
    /\ Goto(t, "fallback")
    /\ UNCHANGED <<fileVars, confVars, driverVars, appVars, registry, mutex, call>>

\* The modified swapchain is replaced by one with the application's parameters,
\* or by nothing.
Fallback(t) ==
    /\ pc[t] = "fallback"
    /\ object' = [object EXCEPT ![call[t].o] = NoObject]
    /\ \/ \E h \in Handles :
            /\ DriverCreates(h, call[t].h)
            /\ call' = [call EXCEPT ![t].failed = call[t].h, ![t].h = h, ![t].o = None]
       \/ /\ call' = [call EXCEPT ![t].failed = call[t].h, ![t].h = None, ![t].o = None]
          /\ UNCHANGED <<live, replaced>>
    /\ Goto(t, "retire")
    /\ UNCHANGED <<fileVars, confVars, device, appVars, registry, mutex, runtimeVars>>

\* The exception path forgets to retire the old wrapper.
RetiresOld_OnSuccess(t) == call[t].old # None /\ call[t].failed = None
RetiresOld(t) == call[t].old # None

\* detachSwapchainState(): the map entry goes before the driver's swapchain,
\* whose handle may be reused at once.
Detached_Kept(h) == registry
Detached(h) == [registry EXCEPT ![h] = None]

\* retireSwapchainState(oldSwapchain): the map first, then the object.
RetireDetach(t) ==
    /\ pc[t] = "retire"
    /\ LET o == IF RetiresOld(t) THEN registry[call[t].old] ELSE None IN
       /\ registry' = IF o = None THEN registry
                      ELSE Detached(call[t].old)
       /\ call' = [call EXCEPT ![t].retired = o]
       /\ Goto(t, IF o = None THEN "finish" ELSE "retireLock")
    /\ UNCHANGED <<fileVars, confVars, driverVars, appVars, object, mutex, runtimeVars>>

\* The object is retired without its presentMutex.
MayRetire_Unlocked(o) == TRUE
MayRetire(o) == mutex[o] = None

RetireReset(t) ==
    LET o == call[t].retired IN
    /\ pc[t] = "retireLock" /\ MayRetire(o)
    /\ ReleaseContext(o)
    /\ object' = [object EXCEPT ![o] = NoObject]
    /\ call' = [call EXCEPT ![t].retired = None]
    /\ Goto(t, "finish")
    /\ UNCHANGED <<fileVars, confVars, driverVars, appVars, registry, mutex>>

\* The failed swapchain is destroyed, the new one is published and returned; an
\* object of a native swapchain may fail to be allocated.
CreateFinish(t) ==
    LET h == call[t].h IN
    /\ pc[t] = "finish"
    /\ live' = live \ {call[t].failed}
    /\ replaced' = replaced \ {call[t].failed}
    /\ owned' = owned \cup ({h} \ {None})
    /\ \/ /\ h # None /\ call[t].o # None
          /\ registry' = [registry EXCEPT ![h] = call[t].o]
          /\ UNCHANGED object
       \/ /\ h # None /\ call[t].o = None
          /\ \E o \in Objects :
               /\ Unused(o)
               /\ registry' = [registry EXCEPT ![h] = o]
               /\ object' = [object EXCEPT ![o] = [NoObject EXCEPT !.handle = h]]
       \/ /\ call[t].o = None
          /\ UNCHANGED <<registry, object>>
    /\ Return(t)
    /\ UNCHANGED <<fileVars, confVars, device, outdated, mutex, runtimeVars>>

-----------------------------------------------------------------------------
(* myvkQueuePresentKHR *)

PresentFind(t, h) ==
    /\ pc[t] = "idle" /\ device # "gone"
    /\ h \in owned \ outdated
    /\ registry[h] # None
    /\ call' = [call EXCEPT ![t] = [NoCall EXCEPT !.h = h, !.o = registry[h]]]
    /\ Goto(t, "lock")
    /\ UNCHANGED <<fileVars, confVars, driverVars, appVars, registry, object, mutex,
                   runtimeVars>>

PresentLock(t) ==
    /\ pc[t] = "lock" /\ mutex[call[t].o] = None
    /\ mutex' = [mutex EXCEPT ![call[t].o] = t]
    /\ call' = [call EXCEPT ![t].conf = conf, ![t].stamp = stamp]
    /\ Goto(t, "poll")
    /\ UNCHANGED <<fileVars, confVars, driverVars, appVars, registry, object,
                   runtimeVars>>

\* A return from the hook to the application, with presentMutex released.
PresentReturn(t) == Return(t) /\ mutex' = [mutex EXCEPT ![call[t].o] = None]

\* The swapchain is reported out of date.
Outdate(h) == outdated' = outdated \cup ({h} \cap owned)

\* The poll finds a change that the swapchain cannot follow: a native present,
\* and the application is told to recreate.
PresentStale(t) ==
    /\ pc[t] = "poll" /\ FileChanged(call[t].stamp)
    /\ \/ file = Missing /\ UNCHANGED confVars
       \/ file # Missing /\ Reload /\ RequiresRecreation(call[t].conf, file)
    /\ Outdate(call[t].h)
    /\ PresentReturn(t)
    /\ UNCHANGED <<fileVars, driverVars, owned, registry, object, runtimeVars>>

\* What the hook does with the configuration c it has settled on: a native
\* present, a native present reported out of date, or a generated one.
PresentRoute(t, c) ==
    LET o       == call[t].o
        another == object'[o].mode # c.mode
        off     == c.enable /\ ~c.on
    IN
    \/ /\ ~HasContext(o) \/ (~another /\ off)
       /\ PresentReturn(t) /\ UNCHANGED outdated
    \/ /\ HasContext(o) /\ another
       /\ Outdate(call[t].h) /\ PresentReturn(t)
    \/ /\ HasContext(o) /\ ~another /\ ~off
       /\ call' = [call EXCEPT ![t].conf = c, ![t].stamp = 0]
       /\ Goto(t, "enter")
       /\ UNCHANGED <<mutex, outdated>>

\* The poll finds a change that the resident context can follow, or a pure
\* change of the present mode that the physical mode in use already satisfies.
PresentAdopt(t) ==
    LET o == call[t].o IN
    /\ pc[t] = "poll"
    /\ file # Missing /\ FileChanged(call[t].stamp)
    /\ Reload
    /\ RequiresRecreation(call[t].conf, file) => OnlyMode(call[t].conf, file)
    /\ object' = IF HasContext(o) THEN [object EXCEPT ![o].mode = file.mode]
                 ELSE object
    /\ PresentRoute(t, file)
    /\ UNCHANGED <<fileVars, driverVars, owned, registry, runtimeVars>>

\* No poll is due, nothing has changed, or the file does not parse.
PresentKeep(t) ==
    /\ pc[t] = "poll"
    /\ UNCHANGED object
    /\ PresentRoute(t, call[t].conf)
    /\ UNCHANGED <<fileVars, confVars, driverVars, owned, registry, runtimeVars>>

\* LsContext::present takes a snapshot of its own.
PresentEnter(t) ==
    /\ pc[t] = "enter"
    /\ call' = [call EXCEPT ![t].conf = conf]
    /\ Goto(t, "generate")
    /\ UNCHANGED <<fileVars, confVars, driverVars, appVars, registry, object, mutex,
                   runtimeVars>>

\* The frame was presented, with or without a batch for the backend; the
\* context may have asked to be recreated.
PresentDone(t) ==
    LET o == call[t].o IN
    /\ pc[t] = "generate"
    /\ \/ /\ Dispatchable(call[t].conf.performance, o, call[t].conf.outputs)
          /\ unfinished' = unfinished \cup {o}
       \/ UNCHANGED unfinished
    /\ Outdate(call[t].h) \/ UNCHANGED outdated
    /\ PresentReturn(t)
    /\ UNCHANGED <<fileVars, confVars, driverVars, owned, registry, object,
                   runtimes>>

\* An exception, at whatever point: the context is dropped for good.
PresentThrows(t) ==
    LET o == call[t].o IN
    /\ pc[t] = "generate"
    /\ ReleaseContext(o)
    /\ object' = [object EXCEPT ![o].mode = None, ![o].built = None]
    /\ PresentReturn(t)
    /\ UNCHANGED <<fileVars, confVars, driverVars, appVars, registry>>

-----------------------------------------------------------------------------
(* myvkDestroySwapchainKHR *)

DestroyDetach(t, h) ==
    /\ pc[t] = "idle" /\ device = "up" /\ h \in owned /\ Exclusive(h)
    /\ owned' = owned \ {h}
    /\ outdated' = outdated \ {h}
    /\ registry' = Detached(h)
    /\ IF registry[h] = None
       THEN /\ live' = live \ {h} /\ replaced' = replaced \ {h}
            /\ UNCHANGED threadVars
       ELSE /\ call' = [call EXCEPT ![t] = [NoCall EXCEPT !.h = h, !.o = registry[h]]]
            /\ Goto(t, "destroyLock")
            /\ UNCHANGED <<live, replaced>>
    /\ UNCHANGED <<fileVars, confVars, device, object, mutex, runtimeVars>>

DestroyDownstream(t) ==
    /\ pc[t] = "destroyLock" /\ mutex[call[t].o] = None
    /\ mutex' = [mutex EXCEPT ![call[t].o] = t]
    /\ live' = live \ {call[t].h}
    /\ replaced' = replaced \ {call[t].h}
    /\ call' = [call EXCEPT ![t].h = None]
    /\ Goto(t, "destroyReset")
    /\ UNCHANGED <<fileVars, confVars, device, appVars, registry, object, runtimeVars>>

DestroyReset(t) ==
    LET o == call[t].o IN
    /\ pc[t] = "destroyReset"
    /\ ReleaseContext(o)
    /\ object' = [object EXCEPT ![o] = NoObject]
    /\ mutex' = [mutex EXCEPT ![o] = None]
    /\ Return(t)
    /\ UNCHANGED <<fileVars, confVars, driverVars, appVars, registry>>

-----------------------------------------------------------------------------
(* myvkDestroyDevice *)

DeviceBegin(t) ==
    /\ pc[t] = "idle" /\ device = "up"
    /\ \A u \in Threads : pc[u] \in Presenting
    /\ device' = "going"
    /\ Goto(t, "device")
    /\ UNCHANGED <<fileVars, confVars, live, replaced, appVars, registry, object,
                   mutex, call, runtimeVars>>

DeviceDetach(t) ==
    /\ pc[t] = "device"
    /\ \E h \in Handles :
         /\ registry[h] # None
         /\ registry' = [registry EXCEPT ![h] = None]
         /\ call' = [call EXCEPT ![t].o = registry[h]]
    /\ Goto(t, "deviceLock")
    /\ UNCHANGED <<fileVars, confVars, driverVars, appVars, object, mutex, runtimeVars>>

DeviceReset(t) ==
    LET o == call[t].o IN
    /\ pc[t] = "deviceLock" /\ mutex[o] = None
    /\ ReleaseContext(o)
    /\ object' = [object EXCEPT ![o] = NoObject]
    /\ call' = [call EXCEPT ![t].o = None]
    /\ Goto(t, "device")
    /\ UNCHANGED <<fileVars, confVars, driverVars, appVars, registry, mutex>>

\* The loop ends with one object retired.
DeviceDone_Early(t) ==
    /\ pc[t] = "device"
    /\ device' = "gone"
    /\ live' = {} /\ replaced' = {} /\ owned' = {} /\ outdated' = {}
    /\ Return(t)
    /\ UNCHANGED <<fileVars, confVars, registry, object, mutex, runtimeVars>>
DeviceDone(t) ==
    /\ pc[t] = "device"
    /\ \A h \in Handles : registry[h] = None
    /\ device' = "gone"
    /\ live' = {} /\ replaced' = {} /\ owned' = {} /\ outdated' = {}
    /\ Return(t)
    /\ UNCHANGED <<fileVars, confVars, registry, object, mutex, runtimeVars>>

\* The application starts over with a new device.
DeviceCreate ==
    /\ device = "gone" /\ \A t \in Threads : pc[t] = "idle"
    /\ device' = "up"
    /\ UNCHANGED <<fileVars, confVars, live, replaced, appVars, registry, object,
                   mutex, threadVars, runtimeVars>>

-----------------------------------------------------------------------------
Init ==
    /\ RuntimeInit
    /\ conf \in Configs /\ stamp = 0 /\ file = conf /\ edits = 0
    /\ device = "up"
    /\ live = {} /\ replaced = {} /\ owned = {} /\ outdated = {}
    /\ registry = [h \in Handles |-> None]
    /\ object = [o \in Objects |-> NoObject]
    /\ mutex = [o \in Objects |-> None]
    /\ pc = [t \in Threads |-> "idle"]
    /\ call = [t \in Threads |-> NoCall]

Create(t) ==
    \/ \E old \in Handles \cup {None} : CreateBegin(t, old)
    \/ ReadOld(t) \/ CreateModified(t) \/ CreatePassThrough(t) \/ CreateRefused(t)
    \/ CtorCheck(t) \/ CtorReread(t) \/ CtorFinalize(t)
    \/ CtorInitialize(t) \/ CtorBuild(t) \/ CtorDone(t)
    \/ CtorThrows(t) \/ Fallback(t)
    \/ RetireDetach(t) \/ RetireReset(t) \/ CreateFinish(t)
Present(t) ==
    \/ \E h \in Handles : PresentFind(t, h)
    \/ PresentLock(t) \/ PresentStale(t) \/ PresentAdopt(t) \/ PresentKeep(t)
    \/ PresentEnter(t) \/ PresentDone(t) \/ PresentThrows(t)
Destroy(t) ==
    \/ \E h \in Handles : DestroyDetach(t, h)
    \/ DestroyDownstream(t) \/ DestroyReset(t)
DestroyDevice(t) ==
    DeviceBegin(t) \/ DeviceDetach(t) \/ DeviceReset(t) \/ DeviceDone(t)

Gpu == GpuCompletes
         /\ UNCHANGED <<fileVars, confVars, driverVars, appVars, registry, object,
                        mutex, threadVars>>

Next ==
    \/ \E t \in Threads :
         Create(t) \/ Present(t) \/ Destroy(t) \/ DestroyDevice(t)
    \/ Edit \/ Gpu \/ DeviceCreate

Spec == Init /\ [][Next]_vars
-----------------------------------------------------------------------------
(* Properties *)

\* A thread that is past the hook's checks and generates has a context to do so
\* with, for as long as it does, whatever is replaced or destroyed meanwhile:
\* every path that drops a context waits for presentMutex.
NoUseAfterRetire ==
    \A t \in Threads : pc[t] \in {"enter", "generate"} =>
        mutex[call[t].o] = t /\ HasContext(call[t].o)

\* Contexts share the device of their runtime, and each was given exactly as
\* many output images as that device generates, although another thread may
\* replace the device between initialize() and createContext().
OutputsMatchRuntime ==
    \A b \in Backends : \A i \in Held(runtimes[b]) :
        runtimes[b].contexts[i].outputs = runtimes[b].sig.outputs

\* Where a creation stands between the driver's and the retirement of the old
\* object.
Replacing == {"configure", "reread", "finalizeP", "finalize", "initialize",
              "conflict", "build", "built", "fallback", "retire"}

\* "Retire its wrapper now so a later present cannot use a context whose real
\* swapchain has already been replaced": once the creation that replaced a
\* swapchain is past that point, on every path, no present finds its object.
ReplacedIsRetired ==
    \A h \in replaced \cap owned :
        \/ registry[h] = None
        \/ \E t \in Threads : call[t].old = h /\ pc[t] \in Replacing

\* The map never names a swapchain the driver no longer has (its handle could
\* come back for another one), and it names the object made for it.
RegistryTracksDownstream ==
    \A h \in Handles : registry[h] # None =>
        h \in live /\ object[registry[h]].handle = h

\* No framegen context is lost: one that no LsContext owns any more is marked for
\* deletion in its runtime, and will be collected there.
OrphansArePending ==
    \A b \in Backends : \A i \in Held(runtimes[b]) \ runtimes[b].pending :
        HasContext(i) /\ object[i].built.performance = b

\* The device does not go away under an object with a context.
NoContextOutlivesDevice ==
    device = "gone" => /\ \A o \in Objects : ~HasContext(o)
                       /\ \A h \in Handles : registry[h] = None

\* "A larger hot-reloaded multiplier needs a new swapchain/context before present
\* can index those outputs" and "Crossing this boundary must replace the private
\* LSFG context rather than carrying backend history": no present enters a
\* context with more outputs or in another mode than it was built for, unless it
\* is being replaced.  What the run shows: whoever reads the file first makes the
\* change active, and other swapchains take it up without being recreated.
PresentsWithinContext ==
    \A t \in Threads : pc[t] = "enter" =>
        \/ /\ call[t].conf.outputs <= object[call[t].o].built.outputs
           /\ call[t].conf.adaptive = object[call[t].o].built.adaptive
        \/ \E u \in Threads : call[u].old = call[t].h
=============================================================================
