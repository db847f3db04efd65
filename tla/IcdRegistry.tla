----------------------------- MODULE IcdRegistry -----------------------------
(***************************************************************************)
(* The registries of the Vulkan ICD: instances and physical devices        *)
(* (hybris/vulkan/icd/instance.c), devices (device.c), surfaces (wsi.c)    *)
(* and the list of swapchains (swapchain.c).                               *)
(*                                                                         *)
(* The driver below chooses handle values and reuses one as soon as its    *)
(* object is destroyed; so does malloc for surfaces.  A generation tells   *)
(* the objects behind one value apart.  A call takes one action per        *)
(* critical section or driver call, so that calls of other threads come    *)
(* between.  The guards of the first action of a call are Vulkan's rules   *)
(* of external synchronisation, and nothing else.                          *)
(*                                                                         *)
(* A list is a set: no property depends on its order.  A definition named  *)
(* Fault... is a wrong variant of the one after it; no action uses it.     *)
(***************************************************************************)
EXTENDS Integers

CONSTANTS
  Threads,
  Instances,   \* values of VkInstance
  Physicals,   \* values of VkPhysicalDevice
  Devices,     \* values of VkDevice
  Surfaces,    \* addresses of surface_state, the values of VkSurfaceKHR
  Nothing,     \* the null handle
  MaxGen       \* the largest generation, UINT64_MAX in the code

ASSUME NothingAssumption ==
  Nothing \notin Instances \cup Physicals \cup Devices \cup Surfaces
ASSUME GenAssumption == MaxGen \in Nat \ {0}

VARIABLES
  drvInst,     \* driver: generation of the instance at a handle, 0 for none
  drvPhys,     \* driver: generation of the instance a physical device is of
  drvDev,      \* driver: generation of the device at a handle
  instances,   \* instance.c: the list instances
  remembered,  \* per generation: entries of instance_state::physical
  devices,     \* device.c: the list devices
  surfaces,    \* wsi.c: the list surfaces
  windows,     \* native windows that exist, one per surface_state
  chains,      \* swapchain.c: the list swapchains
  nextInst, nextDev,       \* next_generation of instance.c and of device.c
  at, handle, gen, todo    \* a thread's step, and the locals it keeps

driverVars == <<drvInst, drvPhys, drvDev>>
instVars == <<instances, remembered, nextInst>>
devVars == <<devices, nextDev>>
surfVars == <<surfaces, windows>>
callVars == <<at, handle, gen, todo>>
vars == <<driverVars, instVars, devVars, surfVars, chains, callVars>>

Gens == 0..MaxGen

\* A generation never wraps: at its largest value creation is refused.
TypeOK ==
  /\ drvInst \in [Instances -> Gens] /\ drvPhys \in [Physicals -> Gens]
  /\ drvDev \in [Devices -> Gens]
  /\ instances \subseteq [handle : Instances, gen : Gens]
  /\ remembered \in [Gens -> [Physicals -> Nat]]
  /\ devices \subseteq [handle : Devices, gen : Gens, inst : Gens]
  /\ surfaces \subseteq [addr : Surfaces, inst : Instances, gen : Gens]
  /\ windows \subseteq Surfaces
  /\ chains \subseteq [dev : Devices, gen : Gens, surf : Surfaces]
  /\ nextInst \in Gens /\ nextDev \in Gens /\ gen \in [Threads -> Gens]

Init ==
  /\ drvInst = [h \in Instances |-> 0] /\ drvPhys = [p \in Physicals |-> 0]
  /\ drvDev = [d \in Devices |-> 0]
  /\ instances = {} /\ remembered = [g \in Gens |-> [p \in Physicals |-> 0]]
  /\ devices = {} /\ surfaces = {} /\ windows = {} /\ chains = {}
  /\ nextInst = 0 /\ nextDev = 0
  /\ at = [t \in Threads |-> "idle"] /\ handle = [t \in Threads |-> Nothing]
  /\ gen = [t \in Threads |-> 0] /\ todo = [t \in Threads |-> {}]

\* thread t goes to step s of its call with these locals
Go(t, s, h, g, rest) ==
  /\ at' = [at EXCEPT ![t] = s] /\ handle' = [handle EXCEPT ![t] = h]
  /\ gen' = [gen EXCEPT ![t] = g] /\ todo' = [todo EXCEPT ![t] = rest]
Return(t) == Go(t, "idle", Nothing, 0, {})

Using(h) == \E t \in Threads : at[t] # "idle" /\ handle[t] = h
OfInstance(h, g) == [handle |-> h, gen |-> g] \in instances

-----------------------------------------------------------------------------
(* hybris_icd_create_instance() *)

Exhausted(next) == next = MaxGen

CreateInstance(t) ==
  /\ at[t] = "idle" /\ ~Exhausted(nextInst)   \* or VK_ERROR_OUT_OF_HOST_MEMORY
  /\ nextInst' = nextInst + 1
  /\ Go(t, "ci_driver", Nothing, nextInst + 1, {})
  /\ UNCHANGED <<driverVars, instances, remembered, devVars, surfVars, chains>>

\* the driver makes an instance, with one physical device, or fails
CreateInstanceDriver(t) ==
  /\ at[t] = "ci_driver"
  /\ \/ \E h \in Instances, p \in Physicals :
          /\ drvInst[h] = 0 /\ drvPhys[p] = 0
          /\ drvInst' = [drvInst EXCEPT ![h] = gen[t]]
          /\ drvPhys' = [drvPhys EXCEPT ![p] = gen[t]]
          /\ Go(t, "ci_insert", h, gen[t], {})
     \/ Return(t) /\ UNCHANGED <<drvInst, drvPhys>>
  /\ UNCHANGED <<drvDev, instVars, devVars, surfVars, chains>>

\* the driver's vkDestroyInstance
DriverDestroyInstance(g) ==
  /\ drvInst' = [h \in Instances |-> IF drvInst[h] = g THEN 0 ELSE drvInst[h]]
  /\ drvPhys' = [p \in Physicals |-> IF drvPhys[p] = g THEN 0 ELSE drvPhys[p]]

MixedOwners(g) == DriverDestroyInstance(g)

\* the loader and the HAL belong to different libraries: refused
CreateInstanceMixed(t) ==
  /\ at[t] = "ci_insert"
  /\ MixedOwners(gen[t])
  /\ Return(t)
  /\ UNCHANGED <<drvDev, instVars, devVars, surfVars, chains>>

CreateInstanceInsert(t) ==
  /\ at[t] = "ci_insert"
  /\ instances' = instances \cup {[handle |-> handle[t], gen |-> gen[t]]}
  /\ Return(t)
  /\ UNCHANGED <<driverVars, remembered, nextInst, devVars, surfVars, chains>>

-----------------------------------------------------------------------------
(* destroy_instance(): its devices are gone; surfaces may be left behind *)

FaultUnlinked(h) == instances
Unlinked(h) == {e \in instances : e.handle # h}

DestroyInstance(t, h, g) ==
  /\ at[t] = "idle" /\ OfInstance(h, g) /\ ~Using(h)
  /\ \A d \in devices : d.inst # g
  /\ \A u \in Threads : at[u] \in {"cd_driver", "cd_insert", "dd_driver"} => g \notin todo[u]
  /\ instances' = Unlinked(h)
  /\ Go(t, "di_surfaces", h, g, {})
  /\ UNCHANGED <<driverVars, remembered, nextInst, devVars, surfVars, chains>>

FaultOrphans(h) == {}
Orphans(h) == {s \in surfaces : s.inst = h}
FaultOthers(orphans) == surfaces
Others(orphans) == surfaces \ orphans

\* hybris_icd_wsi_release_instance(): what it unlinks stays with this thread
DestroyInstanceSurfaces(t) ==
  /\ at[t] = "di_surfaces"
  /\ LET orphans == Orphans(handle[t]) IN
     /\ surfaces' = Others(orphans)
     /\ Go(t, "di_windows", handle[t], gen[t], {s.addr : s \in orphans})
  /\ UNCHANGED <<driverVars, instVars, devVars, windows, chains>>

DestroyInstanceWindow(t) ==
  /\ at[t] = "di_windows"
  /\ \E s \in todo[t] :
       /\ windows' = windows \ {s}
       /\ Go(t, "di_windows", handle[t], gen[t], todo[t] \ {s})
  /\ UNCHANGED <<driverVars, instVars, devVars, surfaces, chains>>

\* the driver's instance goes last, then instance_state with its physicals
DestroyInstanceDriver(t) ==
  /\ at[t] = "di_windows" /\ todo[t] = {}
  /\ DriverDestroyInstance(gen[t])
  /\ remembered' = [remembered EXCEPT ![gen[t]] = [p \in Physicals |-> 0]]
  /\ Return(t)
  /\ UNCHANGED <<drvDev, instances, nextInst, devVars, surfVars, chains>>

-----------------------------------------------------------------------------
(* enumerate_physical() and enumerate_groups(): remember_physical() checks, *)
(* allocates outside the lock, and checks again                             *)

Enumerate(t, h, g) ==
  /\ at[t] = "idle" /\ OfInstance(h, g)
  /\ Go(t, "rp_check", h, g, {p \in Physicals : drvPhys[p] = g})
  /\ UNCHANGED <<driverVars, instVars, devVars, surfVars, chains>>

RememberCheck(t) ==
  /\ at[t] = "rp_check"
  /\ \/ todo[t] = {} /\ Return(t)
     \/ \E p \in todo[t] :
          \/ remembered[gen[t]][p] > 0 /\ Go(t, "rp_check", handle[t], gen[t], todo[t] \ {p})
          \/ remembered[gen[t]][p] = 0 /\ Go(t, "rp_insert", handle[t], gen[t], todo[t])
          \/ remembered[gen[t]][p] = 0 /\ Return(t)   \* no memory: the count is 0
  /\ UNCHANGED <<driverVars, instVars, devVars, surfVars, chains>>

FaultRecheck(g, p) == TRUE
Recheck(g, p) == remembered[g][p] = 0

RememberInsert(t) ==
  /\ at[t] = "rp_insert"
  /\ \E p \in todo[t] :
       /\ remembered' = IF Recheck(gen[t], p)
                        THEN [remembered EXCEPT ![gen[t]][p] = @ + 1] ELSE remembered
       /\ Go(t, "rp_check", handle[t], gen[t], todo[t] \ {p})
  /\ UNCHANGED <<driverVars, instances, nextInst, devVars, surfVars, chains>>

-----------------------------------------------------------------------------
(* create_device() and hybris_icd_create_device(), hybris_icd_destroy_device() *)

\* find_physical(): an instance that remembers the handle
Finds(p, g) == (\E e \in instances : e.gen = g) /\ remembered[g][p] > 0

CreateDevice(t, p) ==
  /\ at[t] = "idle" /\ ~Exhausted(nextDev)
  /\ \E g \in Gens :
       Finds(p, g) /\ Go(t, "cd_driver", Nothing, nextDev + 1, {g})
  /\ nextDev' = nextDev + 1
  /\ UNCHANGED <<driverVars, instVars, devices, surfVars, chains>>

CreateDeviceDriver(t) ==
  /\ at[t] = "cd_driver"
  /\ \/ \E d \in Devices :
          /\ drvDev[d] = 0
          /\ drvDev' = [drvDev EXCEPT ![d] = gen[t]]
          /\ Go(t, "cd_insert", d, gen[t], todo[t])
     \/ Return(t) /\ UNCHANGED drvDev
  /\ UNCHANGED <<drvInst, drvPhys, instVars, devVars, surfVars, chains>>

\* the queues cannot be listed: the driver's device is destroyed again
CreateDeviceQueues(t) ==
  /\ at[t] = "cd_insert"
  /\ drvDev' = [drvDev EXCEPT ![handle[t]] = 0]
  /\ Return(t)
  /\ UNCHANGED <<drvInst, drvPhys, instVars, devVars, surfVars, chains>>

CreateDeviceInsert(t) ==
  /\ at[t] = "cd_insert"
  /\ \E g \in todo[t] :
       devices' = devices \cup {[handle |-> handle[t], gen |-> gen[t], inst |-> g]}
  /\ Return(t)
  /\ UNCHANGED <<driverVars, instVars, nextDev, surfVars, chains>>

ReleasedChains(d) == {c \in chains : c.dev = d}

\* hybris_icd_swapchain_release_device()
DestroyDevice(t, e) ==
  /\ at[t] = "idle" /\ e \in devices /\ ~Using(e.handle)
  /\ chains' = chains \ ReleasedChains(e.handle)
  /\ Go(t, "dd_unlink", e.handle, e.gen, {e.inst})
  /\ UNCHANGED <<driverVars, instVars, devVars, surfVars>>

DestroyDeviceUnlink(t) ==
  /\ at[t] = "dd_unlink"
  /\ devices' = {d \in devices : d.handle # handle[t]}
  /\ Go(t, "dd_driver", handle[t], gen[t], todo[t])
  /\ UNCHANGED <<driverVars, instVars, nextDev, surfVars, chains>>

DestroyDeviceDriver(t) ==
  /\ at[t] = "dd_driver"
  /\ drvDev' = [drvDev EXCEPT ![handle[t]] = 0]
  /\ Return(t)
  /\ UNCHANGED <<drvInst, drvPhys, instVars, devVars, surfVars, chains>>

-----------------------------------------------------------------------------
(* create_headless_surface(), create_wayland_surface(), create_x11_surface() *)

\* the instance is looked up and the window made; an address is allocated
CreateSurface(t, h, g) ==
  /\ at[t] = "idle" /\ OfInstance(h, g)
  /\ \E s \in Surfaces :
       /\ s \notin windows
       /\ windows' = windows \cup {s}
       /\ Go(t, "cs_insert", h, g, {s})
  /\ UNCHANGED <<driverVars, instVars, devVars, surfaces, chains>>

\* no memory for surface_state: the window is destroyed again
CreateSurfaceNoMemory(t) ==
  /\ at[t] = "cs_insert"
  /\ windows' = windows \ todo[t]
  /\ Return(t)
  /\ UNCHANGED <<driverVars, instVars, devVars, surfaces, chains>>

CreateSurfaceInsert(t) ==
  /\ at[t] = "cs_insert"
  /\ surfaces' = surfaces \cup
       {[addr |-> s, inst |-> handle[t], gen |-> gen[t]] : s \in todo[t]}
  /\ Return(t)
  /\ UNCHANGED <<driverVars, instVars, devVars, windows, chains>>

\* destroy_surface(): unlink_surface() checks the instance
DestroySurface(t, s) ==
  /\ at[t] = "idle" /\ s \in surfaces /\ OfInstance(s.inst, s.gen)
  /\ \A c \in chains : c.surf # s.addr
  /\ surfaces' = surfaces \ {s}
  /\ Go(t, "ds_window", s.addr, 0, {s.addr})
  /\ UNCHANGED <<driverVars, instVars, devVars, windows, chains>>

\* destroy_owned()
DestroySurfaceWindow(t) ==
  /\ at[t] = "ds_window"
  /\ windows' = windows \ todo[t]
  /\ Return(t)
  /\ UNCHANGED <<driverVars, instVars, devVars, surfaces, chains>>

\* create_swapchain(): the surface must be of the device's instance
SameInstance(d, s) == s.gen = d.inst
CreateChain(d, s) ==
  /\ d \in devices /\ s \in surfaces /\ SameInstance(d, s) /\ ~Using(d.handle)
  /\ chains' = chains \cup {[dev |-> d.handle, gen |-> d.gen, surf |-> s.addr]}
  /\ UNCHANGED <<driverVars, instVars, devVars, surfVars, callVars>>

DestroyChain(c) ==
  /\ c \in chains
  /\ chains' = chains \ {c}
  /\ UNCHANGED <<driverVars, instVars, devVars, surfVars, callVars>>

-----------------------------------------------------------------------------
InstanceNext(t) ==
  \/ CreateInstance(t) \/ CreateInstanceDriver(t)
  \/ CreateInstanceMixed(t) \/ CreateInstanceInsert(t)
  \/ \E e \in instances : DestroyInstance(t, e.handle, e.gen) \/ Enumerate(t, e.handle, e.gen)
  \/ DestroyInstanceSurfaces(t) \/ DestroyInstanceWindow(t) \/ DestroyInstanceDriver(t)
  \/ RememberCheck(t) \/ RememberInsert(t)

DeviceNext(t) ==
  \/ \E p \in Physicals : CreateDevice(t, p)
  \/ CreateDeviceDriver(t) \/ CreateDeviceQueues(t) \/ CreateDeviceInsert(t)
  \/ \E e \in devices : DestroyDevice(t, e)
  \/ DestroyDeviceUnlink(t) \/ DestroyDeviceDriver(t)

SurfaceNext(t) ==
  \/ \E e \in instances : CreateSurface(t, e.handle, e.gen)
  \/ CreateSurfaceNoMemory(t) \/ CreateSurfaceInsert(t)
  \/ \E s \in surfaces : DestroySurface(t, s)
  \/ DestroySurfaceWindow(t)

\* creation fails with VK_ERROR_OUT_OF_HOST_MEMORY and changes nothing
Refused == Exhausted(nextInst) /\ UNCHANGED vars

Next ==
  \/ \E t \in Threads : InstanceNext(t) \/ DeviceNext(t) \/ SurfaceNext(t)
  \/ \E d \in devices, s \in surfaces : CreateChain(d, s)
  \/ \E c \in chains : DestroyChain(c)
  \/ Refused

Spec == Init /\ [][Next]_vars

-----------------------------------------------------------------------------
(* Properties *)

\* find_physical() is unambiguous and right: a physical device is listed once,
\* by the one instance it is of, although two threads may enumerate at a time
\* and the driver reuses the handles of a destroyed instance.
PhysicalsOnce ==
  \A e \in instances, p \in Physicals :
    remembered[e.gen][p] > 0 => remembered[e.gen][p] = 1 /\ drvPhys[p] = e.gen

\* find_instance() and hybris_icd_lookup_device() search by handle value: an
\* entry's driver object exists with the entry's generation, however often the
\* value was reused.  And every driver object is in a registry or in the hands of
\* the thread that is creating or destroying it: no error path loses one.
Handling(t, g, steps) == at[t] \in steps /\ gen[t] = g
RegistryMatchesDriver ==
  /\ TypeOK
  /\ \A e \in instances : drvInst[e.handle] = e.gen
  /\ \A d \in devices : drvDev[d.handle] = d.gen
  /\ \A h \in Instances : drvInst[h] # 0 =>
       \/ OfInstance(h, drvInst[h])
       \/ \E t \in Threads :
            Handling(t, drvInst[h], {"ci_insert", "di_surfaces", "di_windows"})
  /\ \A d \in Devices : drvDev[d] # 0 =>
       \/ \E e \in devices : e.handle = d /\ e.gen = drvDev[d]
       \/ \E t \in Threads : Handling(t, drvDev[d], {"cd_insert", "dd_driver"})

\* Every native window belongs to one surface, or to the one thread that makes
\* or destroys it: none is destroyed twice and none is forgotten.
Holders(s) ==
  {<<"list", e>> : e \in {f \in surfaces : f.addr = s}} \cup
  {<<"thread", t>> : t \in {u \in Threads :
     at[u] \in {"cs_insert", "ds_window", "di_windows"} /\ s \in todo[u]}}
WindowsOwnedOnce ==
  \A s \in Surfaces : IF s \in windows THEN \E x \in Holders(s) : Holders(s) = {x}
                                        ELSE Holders(s) = {}

\* What depends on an object does not outlive it.  A surface belongs to a
\* registered instance or to one whose surfaces are about to be released, and a
\* swapchain's device and surface are the ones it was made for: owned_surface()
\* and present_one() never meet a leftover of an object with a reused handle.
DependentsLive ==
  /\ \A s \in surfaces :
       \/ OfInstance(s.inst, s.gen)
       \/ \E t \in Threads : Handling(t, s.gen, {"di_surfaces"})
  /\ \A c \in chains :
       /\ \E d \in devices : d.handle = c.dev /\ d.gen = c.gen
       /\ \E s \in surfaces : s.addr = c.surf
=============================================================================
