------------------------ MODULE LayerDispatch_proofs ------------------------
(***************************************************************************)
(* Proofs about LayerDispatch, for every number of devices, dispatch keys, *)
(* instance handles and reloads, and for early and late loaders.           *)
(*                                                                         *)
(* What has to be carried along is whose the entry under a key is: a key   *)
(* belongs to one existing device at a time (KeysApart), and from the end  *)
(* of its creation to its destruction the entry there is that device's     *)
(* (OwnEntry).  What the loader was given earlier, during the creation, is *)
(* covered by Early: a device that is about to be passed through can have   *)
(* been given a swapchain hook only if its creation was overtaken.         *)
(***************************************************************************)
EXTENDS LayerDispatch, TLAPS

States == {"unborn", "building", "live", "lost", "dead"}
LogicalDevice ==
    [state : States, key : Keys \cup {None}, wsi : BOOLEAN,
     inst : Instances \cup {None}, path : {"presentation", "passthrough", None}]

TypeInv ==
    /\ early \in BOOLEAN /\ enable \in BOOLEAN
    /\ instance \in [Instances -> {"game", "private", None}]
    /\ privates \subseteq Instances
    /\ route \in [Instances -> {"down", "layer", None}]
    /\ device \in [Devices -> LogicalDevice]
    /\ creating \in [d : Devices \cup {None},
                     at : {"idle", "register", "resolve", "store", "post"}]
    /\ next \in Devices \cup {None}
    /\ dispatch \in [Keys -> [presentation : BOOLEAN, of : Devices \cup {None}]]
    /\ cached \in [Devices -> [Commands -> {"hook", "down", "null", None}]]

\* Private instances are exactly the recorded ones, and routes agree with that.
Paths ==
    /\ \A h \in Instances : h \in privates <=> instance[h] = "private"
    /\ PathsApart

\* A key belongs to one existing device.
KeysApart ==
    /\ \A d \in Existing : device[d].key \in Keys
    /\ \A d, e \in Existing : d # e => device[d].key # device[e].key

\* The creation under way is that of the one device that is being built.
Building ==
    /\ creating.at # "idle" => creating.d \in Devices
    /\ \A d \in Devices :
           device[d].state = "building" <=> (creating.at # "idle" /\ creating.d = d)

\* The loader has asked nothing of a device that does not exist yet, nor, with
\* a late loader, of one that is being built.
Unknown ==
    \A d \in Devices :
        \/ device[d].state = "unborn"
        \/ device[d].state = "building" /\ ~early
        => cached[d] = Unasked

\* The entry under a live device's key is its own.
OwnEntry ==
    \A d \in Devices :
        device[d].state = "live" /\ device[d].path # None =>
            /\ dispatch[device[d].key].of = d
            /\ \/ MayBeOvertaken(d)
               \/ \A name \in Wsi : cached[d][name] = "hook" =>
                      dispatch[device[d].key].presentation

\* What a creation is about to store, and when hooks may be out already.
Early ==
    /\ creating.at = "store" => next = creating.d
    /\ creating.at = "post" =>
           dispatch[device[creating.d].key] = [presentation |-> TRUE, of |-> creating.d]
    /\ creating.at = "register" => device[creating.d].path = "passthrough"

Inv ==
    /\ TypeInv /\ Paths /\ KeysApart /\ Building /\ Unknown /\ OwnEntry /\ Early
    /\ HelperNeverHooked

-----------------------------------------------------------------------------
\* There is no device at first.
LEMMA InitInv == Init => Inv
  <1> SUFFICES ASSUME Init PROVE Inv
    OBVIOUS
  <1> USE LayerDispatchAssumption DEF Init
  <1>1. TypeInv
    BY DEF TypeInv, LogicalDevice, States, NoDevice, NoCreation, NoEntry,
           Unasked, Commands, Wsi
  <1>2. Paths /\ KeysApart /\ Building /\ Unknown /\ OwnEntry /\ Early
    BY DEF Paths, PathsApart, KeysApart, Existing, Building, Unknown, OwnEntry,
           Early, NoDevice, NoCreation
  <1>3. HelperNeverHooked
    BY DEF HelperNeverHooked, Unasked, Commands
  <1> QED BY <1>1, <1>2, <1>3 DEF Inv

\* Instances come and go without touching a device.
LEMMA DevicesUntouched ==
    ASSUME Inv, UNCHANGED <<configVars, deviceVars, cached>>
    PROVE  (KeysApart /\ Building /\ Unknown /\ OwnEntry /\ Early /\ HelperNeverHooked)'
  BY DEF Inv, configVars, deviceVars, KeysApart, Existing, Building, Unknown,
         OwnEntry, MayBeOvertaken, Early, HelperNeverHooked

\* Making an instance touches no device.
LEMMA CreateInstanceKeeps ==
    ASSUME Inv, NEW h \in Instances, NEW kind \in {"game", "private"},
           CreateInstance(h, kind)
    PROVE  Inv'
  <1> USE LayerDispatchAssumption
  <1>1. /\ instance[h] = None
        /\ instance' = [instance EXCEPT ![h] = kind]
        /\ privates' = IF kind = "private" THEN privates \cup {h} ELSE privates
        /\ route' = [route EXCEPT ![h] = IF h \in privates' THEN "down" ELSE "layer"]
        /\ UNCHANGED <<configVars, deviceVars, cached>>
    BY DEF CreateInstance, CreateDeviceRoute
  <1>2. TypeInv'
    BY <1>1 DEF Inv, TypeInv, configVars, deviceVars
  <1>3. Paths'
    BY <1>1 DEF Inv, TypeInv, Paths, PathsApart
  <1> QED BY <1>1, <1>2, <1>3, DevicesUntouched DEF Inv

\* Destroying an instance touches no device.
LEMMA DestroyInstanceKeeps ==
    ASSUME Inv, NEW h \in Instances, DestroyInstance(h)
    PROVE  Inv'
  <1> USE LayerDispatchAssumption
  <1>1. UNCHANGED <<configVars, deviceVars, cached>>
    BY DEF DestroyInstance
  <1>2. TypeInv'
    BY <1>1 DEF Inv, TypeInv, DestroyInstance, Erased, configVars, deviceVars
  <1>3. Paths'
    BY DEF Inv, TypeInv, Paths, PathsApart, DestroyInstance, Erased
  <1> QED BY <1>1, <1>2, <1>3, DevicesUntouched DEF Inv

-----------------------------------------------------------------------------
(* A device is born at a key that no other existing one has. *)

\* A new device takes a key that no existing one has.
LEMMA BornKeeps ==
    ASSUME Inv, NEW d \in Devices, NEW new \in LogicalDevice,
           new.key \in Keys, new.state \in {"building", "live"}, Born(d, new)
    PROVE  /\ device' \in [Devices -> LogicalDevice]
           /\ device'[d] = new
           /\ \A e \in Devices \ {d} : device'[e] = device[e]
           /\ device[d].state = "unborn" /\ cached[d] = Unasked
           /\ KeysApart'
  <1>1. /\ device' = [device EXCEPT ![d] = new]
        /\ device[d].state = "unborn"
        /\ \A e \in Existing : device[e].key # new.key
    BY DEF Born
  <1>2. device \in [Devices -> LogicalDevice]
    BY DEF Inv, TypeInv
  <1>4. /\ device' \in [Devices -> LogicalDevice]
        /\ device'[d] = new
        /\ \A e \in Devices \ {d} : device'[e] = device[e]
    BY <1>1, <1>2
  <1>5. cached[d] = Unasked
    BY <1>1 DEF Inv, Unknown
  <1>6. \A e \in Devices : e \in Existing' <=> e \in Existing \/ e = d
    BY <1>4, <1>1 DEF Existing
  <1>7. KeysApart'
    BY <1>1, <1>4, <1>6 DEF Inv, KeysApart, Existing
  <1> QED BY <1>1, <1>4, <1>5, <1>7

\* A device made around the layer gets no entry.
LEMMA CreateDirectlyKeeps ==
    ASSUME Inv, NEW h \in Instances, NEW d \in Devices, NEW k \in Keys,
           CreateDirectly(h, d, k)
    PROVE  Inv'
  <1> USE LayerDispatchAssumption
  <1> DEFINE new == [state |-> "live", key |-> k, wsi |-> FALSE, inst |-> h, path |-> None]
  <1>1. /\ Born(d, new)
        /\ creating.at = "idle"
        /\ UNCHANGED <<configVars, instanceVars, creating, next, dispatch, cached>>
    BY DEF CreateDirectly, Idle
  <1>2. /\ device' \in [Devices -> LogicalDevice]
        /\ device'[d] = new
        /\ \A e \in Devices \ {d} : device'[e] = device[e]
        /\ device[d].state = "unborn" /\ cached[d] = Unasked
        /\ KeysApart'
    <2>1. new \in LogicalDevice /\ new.key \in Keys /\ new.state \in {"building", "live"}
      BY DEF LogicalDevice, States
    <2> HIDE DEF new
    <2> QED BY <1>1, <2>1, BornKeeps
  <1>3. TypeInv' /\ Paths'
    BY <1>1, <1>2 DEF Inv, TypeInv, Paths, PathsApart, configVars, instanceVars
  <1>4. Building' /\ Unknown' /\ Early'
    BY <1>1, <1>2 DEF Inv, Building, Unknown, Early, configVars
  <1>5. OwnEntry'
    BY <1>1, <1>2 DEF Inv, OwnEntry, MayBeOvertaken, configVars
  <1>6. HelperNeverHooked'
    BY <1>1, <1>2 DEF Inv, HelperNeverHooked, Unasked, Wsi, Commands
  <1> QED BY <1>2, <1>3, <1>4, <1>5, <1>6 DEF Inv

\* A creation begins; the entry under its key is still unknown.
LEMMA CreateDeviceKeeps ==
    ASSUME Inv, NEW h \in Instances, NEW d \in Devices, NEW k \in Keys,
           NEW wsi \in BOOLEAN, CreateDevice(h, d, k, wsi)
    PROVE  Inv'
  <1> USE LayerDispatchAssumption
  <1> DEFINE path == IF enable /\ wsi THEN "presentation" ELSE "passthrough"
             new == [state |-> "building", key |-> k, wsi |-> wsi, inst |-> h, path |-> path]
  <1>1. /\ Born(d, new)
        /\ creating.at = "idle"
        /\ creating' = [d |-> d, at |-> IF path = "presentation" THEN "resolve" ELSE "register"]
        /\ UNCHANGED <<configVars, instanceVars, next, dispatch, cached>>
    BY DEF CreateDevice, Idle
  <1>2. /\ device' \in [Devices -> LogicalDevice]
        /\ device'[d] = new
        /\ \A e \in Devices \ {d} : device'[e] = device[e]
        /\ device[d].state = "unborn" /\ cached[d] = Unasked
        /\ KeysApart'
    <2>1. new \in LogicalDevice /\ new.key \in Keys /\ new.state \in {"building", "live"}
      BY DEF LogicalDevice, States
    <2> HIDE DEF new
    <2> QED BY <1>1, <2>1, BornKeeps
  <1>3. TypeInv' /\ Paths'
    BY <1>1, <1>2 DEF Inv, TypeInv, Paths, PathsApart, configVars, instanceVars
  <1>4. Building' /\ Unknown'
    BY <1>1, <1>2 DEF Inv, Building, Unknown, configVars
  <1>5. \A name \in Wsi : cached[d][name] # "hook"
    BY <1>2 DEF Unasked, Wsi, Commands
  <1>6. Early'
    BY <1>1, <1>2, <1>5 DEF Early, configVars
  <1>7. OwnEntry'
    BY <1>1, <1>2 DEF Inv, OwnEntry, MayBeOvertaken, configVars
  <1>8. HelperNeverHooked'
    BY <1>1, <1>2, <1>5 DEF Inv, HelperNeverHooked
  <1> QED BY <1>2, <1>3, <1>4, <1>6, <1>7, <1>8 DEF Inv

-----------------------------------------------------------------------------
(* The steps of a creation. *)

\* A device is under construction when a step of its creation is taken.
LEMMA UnderWay ==
    ASSUME Inv, NEW d \in Devices, creating.d = d, creating.at # "idle"
    PROVE  /\ device[d].state = "building" /\ device[d].key \in Keys
           /\ d \in Existing
           /\ \A e \in Existing \ {d} : device[e].key # device[d].key
           /\ \A e \in Devices \ {d} : device[e].state # "building"
  <1>1. device[d].state = "building" /\ \A e \in Devices \ {d} : device[e].state # "building"
    BY DEF Inv, Building
  <1>2. d \in Existing
    BY <1>1 DEF Existing
  <1> QED BY <1>1, <1>2 DEF Inv, KeysApart

\* A change of state leaves the rest of the device as it is.
LEMMA NewState ==
    ASSUME Inv, NEW d \in Devices, NEW state \in States,
           device' = [device EXCEPT ![d].state = state]
    PROVE  /\ device' \in [Devices -> LogicalDevice]
           /\ \A e \in Devices \ {d} : device'[e] = device[e]
           /\ device'[d].state = state /\ device'[d].key = device[d].key
           /\ device'[d].wsi = device[d].wsi /\ device'[d].path = device[d].path
  <1> DEFINE x == [device[d] EXCEPT !.state = state]
  <1>1. device \in [Devices -> LogicalDevice]
    BY DEF Inv, TypeInv
  <1>2. x \in LogicalDevice /\ x.state = state /\ x.key = device[d].key
        /\ x.wsi = device[d].wsi /\ x.path = device[d].path
    BY <1>1 DEF LogicalDevice
  <1>3. device' = [device EXCEPT ![d] = x]
    BY <1>1 DEF LogicalDevice
  <1> HIDE DEF x
  <1>4. /\ device' \in [Devices -> LogicalDevice] /\ device'[d] = x
        /\ \A e \in Devices \ {d} : device'[e] = device[e]
    BY <1>1, <1>2, <1>3
  <1> QED BY <1>2, <1>4

\* A device of no interest is passed through: its entry says so, and it is live.
LEMMA PassThroughKeeps ==
    ASSUME Inv, NEW d \in Devices, PassThrough(d)
    PROVE  Inv'
  <1> USE LayerDispatchAssumption
  <1>1. /\ creating = [d |-> d, at |-> "register"]
        /\ dispatch' = [dispatch EXCEPT ![device[d].key] =
                                          [presentation |-> FALSE, of |-> d]]
        /\ device' = [device EXCEPT ![d].state = "live"]
        /\ creating' = [d |-> None, at |-> "idle"]
        /\ UNCHANGED <<configVars, instanceVars, next, cached>>
    BY DEF PassThrough, Register, Finish, NoCreation
  <1>2. /\ device[d].state = "building" /\ device[d].key \in Keys
        /\ \A e \in Existing \ {d} : device[e].key # device[d].key
        /\ \A e \in Devices \ {d} : device[e].state # "building"
        /\ d \in Existing
    BY <1>1, UnderWay
  <1>3. /\ device' \in [Devices -> LogicalDevice]
        /\ \A e \in Devices \ {d} : device'[e] = device[e]
        /\ device'[d].state = "live" /\ device'[d].key = device[d].key
        /\ device'[d].wsi = device[d].wsi
    BY <1>1, NewState DEF States
  <1>4. TypeInv' /\ Paths'
    BY <1>1, <1>2, <1>3 DEF Inv, TypeInv, Paths, PathsApart, configVars, instanceVars
  <1>5. KeysApart'
    <2>1. Existing' = Existing
      BY <1>1, <1>2, <1>3 DEF Existing
    <2>2. \A e \in Existing : device'[e].key = device[e].key
      BY <1>3 DEF Existing
    <2> QED BY <2>1, <2>2 DEF Inv, KeysApart
  <1>6. Building' /\ Unknown' /\ Early'
    BY <1>1, <1>2, <1>3 DEF Inv, Building, Unknown, Early, configVars
  <1>7. OwnEntry'
    <2> SUFFICES ASSUME NEW e \in Devices, device'[e].state = "live", device'[e].path # None
                 PROVE  /\ dispatch'[device'[e].key].of = e
                        /\ \/ MayBeOvertaken(e)'
                           \/ \A name \in Wsi : cached'[e][name] = "hook" =>
                                  dispatch'[device'[e].key].presentation
      BY DEF OwnEntry
    <2>1. CASE e = d
      <3>1. dispatch'[device'[d].key].of = d
        BY <1>1, <1>2, <1>3 DEF Inv, TypeInv
      <3>2. CASE MayBeOvertaken(d)
        BY <1>1, <1>3, <2>1, <3>1, <3>2 DEF MayBeOvertaken, configVars
      <3>3. CASE ~MayBeOvertaken(d)
        <4>1. ~early \/ ~device[d].wsi
          BY <1>1, <3>3 DEF Inv, Early, MayBeOvertaken
        <4>2. \A name \in Wsi : cached[d][name] # "hook"
          BY <1>2, <4>1 DEF Inv, Unknown, HelperNeverHooked, Unasked, Commands
        <4> QED BY <1>1, <2>1, <3>1, <4>2
      <3> QED BY <3>2, <3>3
    <2>2. CASE e # d
      <3>1. e \in Existing /\ device[e].path # None /\ device[e].state = "live"
        BY <1>3, <2>2 DEF Existing
      <3>2. dispatch'[device'[e].key] = dispatch[device[e].key]
        BY <1>1, <1>2, <1>3, <2>2, <3>1 DEF Inv, TypeInv
      <3>3. MayBeOvertaken(e)' <=> MayBeOvertaken(e)
        BY <1>1, <1>3, <2>2 DEF MayBeOvertaken, configVars
      <3> QED BY <1>1, <3>1, <3>2, <3>3 DEF Inv, OwnEntry
    <2> QED BY <2>1, <2>2
  <1>8. HelperNeverHooked'
    BY <1>1, <1>3 DEF Inv, HelperNeverHooked
  <1> QED BY <1>4, <1>5, <1>6, <1>7, <1>8 DEF Inv

\* The pointers are resolved with the device that is being created.
LEMMA ResolveKeeps ==
    ASSUME Inv, NEW d \in Devices, Resolve(d)
    PROVE  Inv'
  <1> USE LayerDispatchAssumption
  <1>1. /\ creating = [d |-> d, at |-> "resolve"] /\ next' = d
        /\ \/ creating' = [creating EXCEPT !.at = "store"] /\ UNCHANGED device
           \/ /\ device' = [device EXCEPT ![d].state = "lost"]
              /\ creating' = [d |-> None, at |-> "idle"]
        /\ UNCHANGED <<configVars, instanceVars, dispatch, cached>>
    BY DEF Resolve, Finish, NoCreation
  <1>2. /\ device[d].state = "building" /\ device[d].key \in Keys
        /\ \A e \in Devices \ {d} : device[e].state # "building"
    BY <1>1, UnderWay
  <1>3. Paths'
    BY <1>1 DEF Inv, Paths, PathsApart, instanceVars
  <1>4. CASE creating' = [creating EXCEPT !.at = "store"] /\ UNCHANGED device
    <2>1. creating' = [d |-> d, at |-> "store"]
      BY <1>1, <1>4
    <2>2. TypeInv'
      BY <1>1, <1>4, <2>1 DEF Inv, TypeInv, configVars, instanceVars
    <2>3. Building' /\ Unknown' /\ KeysApart' /\ OwnEntry' /\ HelperNeverHooked'
      BY <1>1, <1>4, <2>1 DEF Inv, Building, Unknown, KeysApart, Existing, OwnEntry,
             MayBeOvertaken, HelperNeverHooked, configVars
    <2>4. Early'
      BY <1>1, <2>1 DEF Early
    <2> QED BY <1>3, <2>2, <2>3, <2>4 DEF Inv
  <1>5. CASE /\ device' = [device EXCEPT ![d].state = "lost"]
             /\ creating' = [d |-> None, at |-> "idle"]
    <2>1. /\ device' \in [Devices -> LogicalDevice]
          /\ \A e \in Devices \ {d} : device'[e] = device[e]
          /\ device'[d].state = "lost" /\ device'[d].key = device[d].key
          /\ device'[d].wsi = device[d].wsi
      BY <1>5, NewState DEF States
    <2>2. TypeInv'
      BY <1>1, <1>5, <2>1 DEF Inv, TypeInv, configVars, instanceVars
    <2>3. KeysApart'
      <3>1. Existing' = Existing
        BY <1>2, <2>1 DEF Existing
      <3>2. \A e \in Existing : device'[e].key = device[e].key
        BY <2>1 DEF Existing
      <3> QED BY <3>1, <3>2 DEF Inv, KeysApart
    <2>4. Building' /\ Unknown' /\ Early'
      BY <1>1, <1>2, <1>5, <2>1 DEF Inv, Building, Unknown, Early, configVars
    <2>5. OwnEntry' /\ HelperNeverHooked'
      BY <1>1, <2>1 DEF Inv, OwnEntry, MayBeOvertaken, configVars, HelperNeverHooked
    <2> QED BY <1>3, <2>2, <2>3, <2>4, <2>5 DEF Inv
  <1> QED BY <1>1, <1>4, <1>5

\* The entry is stored under the key of that device.
LEMMA StoreKeeps ==
    ASSUME Inv, NEW d \in Devices, Store(d)
    PROVE  Inv'
  <1> USE LayerDispatchAssumption
  <1>1. /\ creating = [d |-> d, at |-> "store"]
        /\ next = d
        /\ dispatch' = [dispatch EXCEPT ![device[d].key] =
                                          [presentation |-> TRUE, of |-> d]]
        /\ creating' = [d |-> d, at |-> "post"]
        /\ UNCHANGED <<configVars, instanceVars, device, next, cached>>
    BY DEF Inv, Early, Store
  <1>2. /\ device[d].state = "building" /\ device[d].key \in Keys
        /\ \A e \in Existing \ {d} : device[e].key # device[d].key
        /\ d \in Existing
    BY <1>1, UnderWay
  <1>3. TypeInv' /\ Paths'
    BY <1>1, <1>2 DEF Inv, TypeInv, Paths, PathsApart, configVars, instanceVars
  <1>4. Building' /\ Unknown' /\ KeysApart' /\ HelperNeverHooked'
    BY <1>1 DEF Inv, Building, Unknown, KeysApart, Existing, HelperNeverHooked, configVars
  <1>5. Early'
    BY <1>1, <1>2 DEF Inv, TypeInv, Early
  <1>6. \A e \in Existing \ {d} : dispatch'[device[e].key] = dispatch[device[e].key]
    BY <1>1, <1>2 DEF Inv, TypeInv, KeysApart
  <1>7. OwnEntry'
    BY <1>1, <1>2, <1>6 DEF Inv, OwnEntry, MayBeOvertaken, configVars, Existing
  <1> QED BY <1>3, <1>4, <1>5, <1>7 DEF Inv

\* A creation ends with the entry its own, or passes through.
LEMMA PostKeeps ==
    ASSUME Inv, NEW d \in Devices, Post(d)
    PROVE  Inv'
  <1> USE LayerDispatchAssumption
  <1>1. /\ creating = [d |-> d, at |-> "post"]
        /\ device' = [device EXCEPT ![d].state = "live"]
        /\ creating' = [d |-> None, at |-> "idle"]
        /\ UNCHANGED <<configVars, instanceVars, next, dispatch, cached>>
    BY DEF Post, Finish, NoCreation
  <1>2. /\ device[d].state = "building" /\ device[d].key \in Keys
        /\ \A e \in Devices \ {d} : device[e].state # "building"
    BY <1>1, UnderWay
  <1>3. /\ device' \in [Devices -> LogicalDevice]
        /\ \A e \in Devices \ {d} : device'[e] = device[e]
        /\ device'[d].state = "live" /\ device'[d].key = device[d].key
        /\ device'[d].wsi = device[d].wsi
    BY <1>1, NewState DEF States
  <1>4. TypeInv' /\ Paths'
    BY <1>1, <1>3 DEF Inv, TypeInv, Paths, PathsApart, configVars, instanceVars
  <1>5. KeysApart'
    <2>1. Existing' = Existing
      BY <1>2, <1>3 DEF Existing
    <2>2. \A e \in Existing : device'[e].key = device[e].key
      BY <1>3 DEF Existing
    <2> QED BY <2>1, <2>2 DEF Inv, KeysApart
  <1>6. Building' /\ Unknown' /\ Early'
    BY <1>1, <1>2, <1>3 DEF Inv, Building, Unknown, Early, configVars
  <1>7. dispatch[device[d].key] = [presentation |-> TRUE, of |-> d]
    BY <1>1 DEF Inv, Early
  <1>8. OwnEntry' /\ HelperNeverHooked'
    BY <1>1, <1>3, <1>7 DEF Inv, OwnEntry, MayBeOvertaken, configVars, HelperNeverHooked
  <1> QED BY <1>4, <1>5, <1>6, <1>8 DEF Inv

-----------------------------------------------------------------------------
(* The loader asks, a device goes, the configuration changes. *)

\* What the loader is given is a hook only of a command the device has, and in
\* the hands of a device that is known to present or not known yet.
LEMMA Answer ==
    ASSUME NEW d \in Devices, NEW name \in Commands
    PROVE  /\ DeviceProcAddr(d, name) \in {"hook", "down", "null", None}
           /\ name \in Wsi /\ DeviceProcAddr(d, name) = "hook" =>
                  /\ enable /\ device[d].wsi
                  /\ ~Tracked(d) \/ dispatch[device[d].key].presentation
  BY DEF DeviceProcAddr, NotAdvertised, Downstream

\* The loader is given a hook only where the entry will be its own.
LEMMA AskKeeps ==
    ASSUME Inv, NEW d \in Devices, NEW name \in Commands, Ask(d, name)
    PROVE  Inv'
  <1> USE LayerDispatchAssumption
  <1> DEFINE answer == DeviceProcAddr(d, name)
  <1>1. /\ device[d].state = "live" \/ (early /\ device[d].state = "building")
        /\ cached' = [cached EXCEPT ![d][name] = answer]
        /\ UNCHANGED <<configVars, instanceVars, deviceVars>>
    BY DEF Ask
  <1>2. /\ answer \in {"hook", "down", "null", None}
        /\ name \in Wsi /\ answer = "hook" =>
               /\ enable /\ device[d].wsi
               /\ ~Tracked(d) \/ dispatch[device[d].key].presentation
    BY Answer
  <1> HIDE DEF answer
  <1>3. /\ cached' \in [Devices -> [Commands -> {"hook", "down", "null", None}]]
        /\ \A e \in Devices \ {d} : cached'[e] = cached[e]
        /\ \A n \in Commands : cached'[d][n] = IF n = name THEN answer ELSE cached[d][n]
    BY <1>1, <1>2 DEF Inv, TypeInv
  <1>4. TypeInv' /\ Paths' /\ KeysApart' /\ Building'
    BY <1>1, <1>3 DEF Inv, TypeInv, Paths, PathsApart, KeysApart, Existing, Building,
           configVars, instanceVars, deviceVars
  <1>5. Unknown'
    BY <1>1, <1>3 DEF Inv, Unknown, configVars, deviceVars
  <1>6. HelperNeverHooked'
    <2> SUFFICES ASSUME NEW e \in Devices, NEW n \in Wsi, ~device[e].wsi
                 PROVE  cached'[e][n] # "hook"
      BY <1>1 DEF HelperNeverHooked, deviceVars
    <2> QED BY <1>2, <1>3 DEF Inv, HelperNeverHooked, Commands
  <1>7. OwnEntry'
    <2> SUFFICES ASSUME NEW e \in Devices, device[e].state = "live", device[e].path # None
                 PROVE  /\ dispatch[device[e].key].of = e
                        /\ \/ MayBeOvertaken(e)
                           \/ \A n \in Wsi : cached'[e][n] = "hook" =>
                                  dispatch[device[e].key].presentation
      BY <1>1 DEF OwnEntry, deviceVars, configVars, MayBeOvertaken
    <2>1. dispatch[device[e].key].of = e
      BY DEF Inv, OwnEntry
    <2>2. Tracked(e)
      BY <2>1 DEF Tracked, NoEntry
    <2> QED BY <1>2, <1>3, <2>1, <2>2 DEF Inv, OwnEntry, Commands
  <1>8. Early'
    BY <1>1 DEF Inv, Early, deviceVars
  <1> QED BY <1>4, <1>5, <1>6, <1>7, <1>8 DEF Inv

\* A destroyed device leaves with its entry.
LEMMA DestroyDeviceKeeps ==
    ASSUME Inv, NEW d \in Devices, DestroyDevice(d)
    PROVE  Inv'
  <1> USE LayerDispatchAssumption
  <1>1. /\ creating.at = "idle" /\ device[d].state = "live"
        /\ device' = [device EXCEPT ![d] = [state |-> "dead", key |-> None,
                                           wsi |-> FALSE, inst |-> None, path |-> None]]
        /\ cached' = [cached EXCEPT ![d] = Unasked]
        /\ \/ dispatch' = [dispatch EXCEPT ![device[d].key] = NoEntry]
           \/ dispatch' = dispatch
        /\ UNCHANGED <<configVars, instanceVars, creating, next>>
    BY DEF DestroyDevice, Idle, NoDevice
  <1>2. device[d].key \in Keys /\ d \in Existing
        /\ \A e \in Existing \ {d} : device[e].key # device[d].key
    BY <1>1 DEF Inv, KeysApart, Existing
  <1>3. /\ \A e \in Devices \ {d} : device'[e] = device[e] /\ cached'[e] = cached[e]
        /\ device'[d].state = "dead" /\ device'[d].path = None /\ cached'[d] = Unasked
    BY <1>1 DEF Inv, TypeInv
  <1>4. TypeInv' /\ Paths'
    <2>1. device' \in [Devices -> LogicalDevice]
      BY <1>1 DEF Inv, TypeInv, LogicalDevice, States
    <2>2. cached' \in [Devices -> [Commands -> {"hook", "down", "null", None}]]
      BY <1>1 DEF Inv, TypeInv, Unasked
    <2>3. dispatch' \in [Keys -> [presentation : BOOLEAN, of : Devices \cup {None}]]
      <3>1. dispatch \in [Keys -> [presentation : BOOLEAN, of : Devices \cup {None}]]
        BY DEF Inv, TypeInv
      <3>2. NoEntry \in [presentation : BOOLEAN, of : Devices \cup {None}]
        BY DEF NoEntry
      <3> QED BY <1>1, <3>1, <3>2
    <2> QED BY <1>1, <2>1, <2>2, <2>3 DEF Inv, TypeInv, Paths, PathsApart, configVars,
               instanceVars
  <1>5. \A e \in Devices : e \in Existing' <=> e \in Existing \ {d}
    BY <1>3 DEF Existing
  <1>6. KeysApart' /\ Building' /\ Unknown' /\ Early'
    BY <1>1, <1>3, <1>5 DEF Inv, KeysApart, Existing, Building, Unknown, Early, configVars
  <1>7. \A e \in Existing \ {d} : dispatch'[device[e].key] = dispatch[device[e].key]
    BY <1>1, <1>2 DEF Inv, TypeInv, KeysApart
  <1>8. OwnEntry'
    BY <1>1, <1>3, <1>7 DEF Inv, OwnEntry, MayBeOvertaken, configVars, Existing
  <1>9. HelperNeverHooked'
    BY <1>3 DEF Inv, HelperNeverHooked, Unasked, Commands
  <1> QED BY <1>4, <1>6, <1>8, <1>9 DEF Inv

\* A reload changes what later creations do.
LEMMA ReloadKeeps ==
    ASSUME Inv, Reload
    PROVE  Inv'
  <1>1. /\ enable' = ~enable
        /\ UNCHANGED <<early, instanceVars, deviceVars, cached>>
    BY DEF Reload
  <1>2. TypeInv' /\ Paths'
    BY <1>1 DEF Inv, TypeInv, Paths, PathsApart, instanceVars, deviceVars
  <1>3. KeysApart' /\ Building' /\ Unknown' /\ OwnEntry' /\ HelperNeverHooked'
    BY <1>1 DEF Inv, KeysApart, Existing, Building, Unknown, OwnEntry, MayBeOvertaken,
           HelperNeverHooked, deviceVars
  <1>4. Early'
    BY <1>1 DEF Inv, TypeInv, Early, deviceVars
  <1> QED BY <1>2, <1>3, <1>4 DEF Inv

-----------------------------------------------------------------------------
(* The theorems. *)

\* The invariant is inductive ...
LEMMA NextKeeps == Inv /\ [Next]_vars => Inv'
  <1> SUFFICES ASSUME Inv, [Next]_vars PROVE Inv'
    OBVIOUS
  <1>1. CASE UNCHANGED vars
    <2>1. UNCHANGED <<configVars, instanceVars, deviceVars, cached>>
      BY <1>1 DEF vars
    <2>2. TypeInv' /\ Paths'
      BY <2>1 DEF Inv, TypeInv, Paths, PathsApart, configVars, instanceVars, deviceVars
    <2> QED BY <2>1, <2>2, DevicesUntouched DEF Inv
  <1>2. CASE Next
    BY <1>2, CreateInstanceKeeps, DestroyInstanceKeeps, CreateDirectlyKeeps,
       CreateDeviceKeeps, PassThroughKeeps, ResolveKeeps, StoreKeeps, PostKeeps,
       DestroyDeviceKeeps, AskKeeps, ReloadKeeps DEF Next
  <1> QED BY <1>1, <1>2

\* ... and so it holds.
LEMMA Invariant == Spec => []Inv
  BY InitInv, NextKeeps, PTL DEF Spec

\* A cached hook of a live device meets the entry of that device.
LEMMA InvImpliesOwnDispatch == Inv => OwnDispatch
  <1> SUFFICES ASSUME Inv PROVE OwnDispatch
    OBVIOUS
  <1> USE LayerDispatchAssumption
  <1>1. ASSUME NEW d \in Devices, device[d].state = "live", device[d].path # None
        PROVE  /\ \/ MayBeOvertaken(d)
                  \/ \A name \in Wsi : cached[d][name] = "hook" => CallTarget(d) = d
               /\ DestroyTarget(d) = d
    BY <1>1 DEF Inv, OwnEntry, CallTarget, DestroyTarget, Tracked, NoEntry
  <1>2. creating.at = "post" => CallTarget(creating.d) = creating.d
    BY DEF Inv, Early, CallTarget
  <1> QED BY <1>1, <1>2 DEF OwnDispatch

\* A call that reaches a hook on a device made by the layer ends in that device's
\* own functions, for any number of devices, keys, failed creations and reloads
\* in the midst of one, but for a swapchain command of a device whose creation a
\* reload may have overtaken (layer_android.cpp:434-439, 527-732).
THEOREM CallsEndInOwnDevice == Spec => []OwnDispatch
  BY Invariant, InvImpliesOwnDispatch, PTL

\* No device that cannot present is ever given a swapchain hook, whenever the
\* loader asks (layer_android.cpp:498-518).
THEOREM HelpersStayUnhooked == Spec => []HelperNeverHooked
  BY Invariant, PTL DEF Inv

\* Only the layer's own instance bypasses it, however handles are used again
\* (layer_android.cpp:250-260, 466-478).
THEOREM InstancePathsApart == Spec => []PathsApart
  BY Invariant, PTL DEF Inv, Paths
=============================================================================
