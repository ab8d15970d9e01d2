----------------------------- MODULE LayerDispatch -----------------------------
(***************************************************************************)
(* The Android layer's entry points (layer_android.cpp): which functions   *)
(* the loader is given for an instance or a logical device, and whose      *)
(* functions a call ends in.                                               *)
(*                                                                         *)
(* A function pointer is known by the device it was returned for, since a  *)
(* vendor's wrapper may return device-specific thunks; the GetProcAddr of  *)
(* the next entity is one function that answers for the device it is asked *)
(* about, NULL for a command of an extension that is not enabled.          *)
(*                                                                         *)
(* The loader creates and destroys under its own lock, and builds a        *)
(* device's dispatch table by asking for each command, usually after the   *)
(* device's creation has returned, but possibly (early) while it is under  *)
(* way.  A dispatch key is the loader's own allocation for a device: it    *)
(* comes back with a later device once that device is gone.                *)
(*                                                                         *)
(* The provenance bridge in front of the entry points (                    *)
(* android_wsi_loader_bridge.cpp) returns a logging wrapper that forwards  *)
(* to the hook it stands for, and counts as that hook.                     *)
(***************************************************************************)
EXTENDS Naturals

CONSTANTS
    Devices,    \* logical devices, each created once
    Keys,       \* dispatch keys
    Instances,  \* handles of instances, used again
    None,
    MaxReloads  \* bound of the model: times the configuration changes

ASSUME LayerDispatchAssumption ==
    /\ None \notin Devices \cup Keys
    /\ None \notin {"hook", "private", "presentation", "passthrough"}
    /\ MaxReloads \in Nat

VARIABLES
    early,       \* the loader asks for commands during a device's creation
    enable,      \* Config::snapshot().enable
    reloads,
    instance,    \* handle -> what the instance at it was created as
    privates,    \* privateInstanceDispatchTables
    route,       \* handle -> where the loader sends a vkCreateDevice
    device,      \* device -> [state, key, wsi, inst, path]; wsi:
                 \* VK_KHR_swapchain is enabled; inst: its instance's handle;
                 \* path: how layer_vkCreateDevice made it, None if it did not
    creating,    \* the creation under way: [d, at]
    next,        \* the device the next_vk... globals were resolved for
    dispatch,    \* deviceDispatchTables: key -> [presentation, of]
    cached       \* device -> command -> what the loader was given

instanceVars == <<instance, privates, route>>
deviceVars   == <<device, creating, next, dispatch>>
configVars   == <<early, enable, reloads>>
vars == <<configVars, instanceVars, deviceVars, cached>>

Wsi      == {"vkCreateSwapchainKHR", "vkQueuePresentKHR"}
Commands == Wsi \cup {"vkDestroyDevice"}

Unasked    == [name \in Commands |-> None]
NoEntry    == [presentation |-> FALSE, of |-> None]
NoDevice(state) ==
    [state |-> state, key |-> None, wsi |-> FALSE, inst |-> None, path |-> None]
NoCreation == [d |-> None, at |-> "idle"]

Idle == creating.at = "idle"
Existing == {d \in Devices : device[d].state \in {"building", "live", "lost"}}
Tracked(d) == dispatch[device[d].key] # NoEntry

-----------------------------------------------------------------------------
(* What the entry points return. *)

\* The next entity's vkGetDeviceProcAddr.
Downstream(d, name) ==
    IF name \in Wsi /\ ~device[d].wsi THEN "null" ELSE "down"

\* A known device that cannot present keeps only the hook of vkDestroyDevice,
\* one that is not known yet only those of the swapchain commands.
NotAdvertised(d, name) ==
    IF Tracked(d) THEN ~dispatch[device[d].key].presentation /\ name \in Wsi
    ELSE name \notin Wsi

\* layer_vkGetDeviceProcAddr(), for a command that has a hook
DeviceProcAddr_Ungated(d, name) ==
    IF enable /\ ~NotAdvertised(d, name) THEN "hook" ELSE Downstream(d, name)
DeviceProcAddr(d, name) ==
    IF enable /\ ~NotAdvertised(d, name) /\ Downstream(d, name) # "null"
    THEN "hook" ELSE Downstream(d, name)

\* layer_vkGetInstanceProcAddr(), for vkCreateDevice: layer_vkCreateDevice or
\* that of the next entity.
CreateDeviceRoute(h) == IF h \in privates THEN "down" ELSE "layer"

\* The device whose functions ovkQueuePresentKHR() and its like call.
CallTarget_Global(d) == next
CallTarget(d) ==
    LET e == dispatch[device[d].key] IN IF e.presentation THEN e.of ELSE next

\* The device whose vkDestroyDevice ovkDestroyDevice() calls.
DestroyTarget(d) == IF Tracked(d) THEN dispatch[device[d].key].of ELSE next

-----------------------------------------------------------------------------
(* Instances *)

\* layer_vkCreateInstance(): LsContext's own instance is recorded, the game's
\* go through the hook.  Then the loader asks for vkCreateDevice.
CreateInstance(h, kind) ==
    /\ Idle /\ instance[h] = None
    /\ instance' = [instance EXCEPT ![h] = kind]
    /\ privates' = IF kind = "private" THEN privates \cup {h} ELSE privates
    /\ route' = [route EXCEPT ![h] = CreateDeviceRoute(h)']
    /\ UNCHANGED <<configVars, deviceVars, cached>>

\* erasePrivateInstanceDispatch()
Erased_Kept(h) == privates
Erased(h) == privates \ {h}

\* vkDestroyInstance: layer_vkDestroyPrivateInstance() for a private instance,
\* the next entity's function for another.  Its own devices are gone by then,
\* but for one that a failed creation left behind.
DestroyInstance(h) ==
    /\ Idle /\ instance[h] # None
    /\ \A d \in Devices : device[d].inst = h => device[d].state # "live"
    /\ privates' = Erased(h)
    /\ instance' = [instance EXCEPT ![h] = None]
    /\ route' = [route EXCEPT ![h] = None]
    /\ UNCHANGED <<configVars, deviceVars, cached>>

-----------------------------------------------------------------------------
(* Devices *)

\* vkCreateDevice of the next entity: it gives the device, at a free key.
Born(d, new) ==
    /\ device[d].state = "unborn"
    /\ \A e \in Existing : device[e].key # new.key
    /\ device' = [device EXCEPT ![d] = new]

\* A device that never passes through layer_vkCreateDevice.
CreateDirectly(h, d, k) ==
    /\ Idle /\ route[h] = "down"
    /\ Born(d, [state |-> "live", key |-> k, wsi |-> FALSE, inst |-> h, path |-> None])
    /\ UNCHANGED <<configVars, instanceVars, creating, next, dispatch, cached>>

\* layer_vkCreateDevice() up to the device: a device is passed through if the
\* layer is disabled or it cannot present.  myvkCreateDevicePre() adds
\* extensions, which no property is about.
CreateDevice(h, d, k, wsi) ==
    LET path == IF enable /\ wsi THEN "presentation" ELSE "passthrough" IN
    /\ Idle /\ route[h] = "layer"
    /\ Born(d, [state |-> "building", key |-> k, wsi |-> wsi, inst |-> h, path |-> path])
    /\ creating' = [d |-> d, at |-> IF path = "presentation" THEN "resolve"
                                    ELSE "register"]
    /\ UNCHANGED <<configVars, instanceVars, next, dispatch, cached>>

\* registerPassthroughDevice()
Register(d) == [dispatch EXCEPT ![device[d].key] = [presentation |-> FALSE, of |-> d]]

Finish(d, state) ==
    /\ device' = [device EXCEPT ![d].state = state]
    /\ creating' = NoCreation

PassThrough(d) ==
    /\ creating = [d |-> d, at |-> "register"]
    /\ dispatch' = Register(d)
    /\ Finish(d, "live")
    /\ UNCHANGED <<configVars, instanceVars, next, cached>>

\* The initDeviceFunc() calls.  If a required function is missing, the error
\* that is reported leaves the device behind.
Resolve(d) ==
    /\ creating = [d |-> d, at |-> "resolve"]
    /\ next' = d
    /\ \/ creating' = [creating EXCEPT !.at = "store"] /\ UNCHANGED device
       \/ Finish(d, "lost")
    /\ UNCHANGED <<configVars, instanceVars, dispatch, cached>>

\* storeDeviceDispatch(snapshotPresentationDispatch())
Store(d) ==
    /\ creating = [d |-> d, at |-> "store"]
    /\ dispatch' = [dispatch EXCEPT ![device[d].key] =
                                        [presentation |-> TRUE, of |-> next]]
    /\ creating' = [creating EXCEPT !.at = "post"]
    /\ UNCHANGED <<configVars, instanceVars, device, next, cached>>

\* myvkCreateDevicePost(), which gets the device's queue
Post(d) ==
    /\ creating = [d |-> d, at |-> "post"]
    /\ Finish(d, "live")
    /\ UNCHANGED <<configVars, instanceVars, next, dispatch, cached>>

\* The loader asks for a command of a device and keeps the answer.
Ask(d, name) ==
    /\ device[d].state = "live" \/ (early /\ device[d].state = "building")
    /\ cached[d][name] = None
    /\ cached' = [cached EXCEPT ![d][name] = DeviceProcAddr(d, name)]
    /\ UNCHANGED <<configVars, instanceVars, deviceVars>>

\* vkDestroyDevice: the hook ends in ovkDestroyDevice(), which forgets the key.
DestroyDevice(d) ==
    /\ Idle /\ device[d].state = "live" /\ cached[d]["vkDestroyDevice"] # None
    /\ device' = [device EXCEPT ![d] = NoDevice("dead")]
    /\ cached' = [cached EXCEPT ![d] = Unasked]
    /\ dispatch' = IF cached[d]["vkDestroyDevice"] = "hook"
                   THEN [dispatch EXCEPT ![device[d].key] = NoEntry] ELSE dispatch
    /\ UNCHANGED <<configVars, instanceVars, creating, next>>

\* A hook that is called finds the configuration file changed: the game's
\* entry is gone, or is back.  Another device's hook may do so at any step of a
\* creation.
Reload ==
    /\ reloads < MaxReloads
    /\ \E d \in Devices, name \in Wsi :
           device[d].state = "live" /\ cached[d][name] = "hook"
    /\ enable' = ~enable
    /\ reloads' = reloads + 1
    /\ UNCHANGED <<early, instanceVars, deviceVars, cached>>

-----------------------------------------------------------------------------
Init ==
    /\ early \in BOOLEAN /\ enable \in BOOLEAN /\ reloads = 0
    /\ instance = [h \in Instances |-> None] /\ privates = {}
    /\ route = [h \in Instances |-> None]
    /\ device = [d \in Devices |-> NoDevice("unborn")]
    /\ creating = NoCreation /\ next = None
    /\ dispatch = [k \in Keys |-> NoEntry]
    /\ cached = [d \in Devices |-> Unasked]

Next ==
    \/ \E h \in Instances : \/ \E kind \in {"game", "private"} : CreateInstance(h, kind)
                            \/ DestroyInstance(h)
    \/ \E h \in Instances, d \in Devices, k \in Keys :
           \/ CreateDirectly(h, d, k)
           \/ \E wsi \in BOOLEAN : CreateDevice(h, d, k, wsi)
    \/ \E d \in Devices :
           \/ PassThrough(d) \/ Resolve(d) \/ Store(d) \/ Post(d) \/ DestroyDevice(d)
           \/ \E name \in Commands : Ask(d, name)
    \/ Reload

Spec == Init /\ [][Next]_vars

-----------------------------------------------------------------------------
(* Properties *)

\* Another thread may enable the layer after layer_vkCreateDevice() has decided
\* to pass this device through, and before it is registered as such: a loader
\* that asks just then is given hooks that find no functions of the device.
MayBeOvertaken(d) ==
    early /\ device[d].wsi /\ device[d].path = "passthrough"

\* Whatever other devices were created, failed or destroyed since, and whenever
\* the layer was enabled or disabled, a call that reaches a hook on a device
\* made by the layer ends in that device's own functions, and so does the queue
\* the post hook asks for: the table per key is in place before the first call
\* and is not another device's (layer_android.cpp:434-439, 527-732).  Only for a
\* device whose creation can be overtaken the hooks of the swapchain commands
\* are left out.
OwnDispatch ==
    /\ \A d \in Devices :
           device[d].state = "live" /\ device[d].path # None =>
               /\ \/ MayBeOvertaken(d)
                  \/ \A name \in Wsi : cached[d][name] = "hook" => CallTarget(d) = d
               /\ cached[d]["vkDestroyDevice"] = "hook" => DestroyTarget(d) = d
    /\ creating.at = "post" => CallTarget(creating.d) = creating.d

\* A device that cannot present is never given a swapchain hook, whenever the
\* loader asks and whatever the table still holds under its key
\* (layer_android.cpp:498-518).
HelperNeverHooked ==
    \A d \in Devices, name \in Wsi :
        ~device[d].wsi => cached[d][name] # "hook"

\* The instance LsContext makes for itself bypasses the layer and only that one
\* does, even at a handle that belonged to the other kind before
\* (layer_android.cpp:250-260, 282-302, 466-478).
PathsApart ==
    \A h \in Instances :
        instance[h] # None => (route[h] = "down" <=> instance[h] = "private")
================================================================================
