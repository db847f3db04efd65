------------------------- MODULE IcdRegistryProofs -------------------------
(* The registries stay right for every number of threads and of handles, and   *)
(* up to any last generation: the inductive invariant, what a step does to     *)
(* each of its parts, and that every step keeps it.                            *)
EXTENDS IcdRegistry, TLAPS

Domains ==
  DOMAIN at = Threads /\ DOMAIN handle = Threads /\ DOMAIN gen = Threads /\ DOMAIN todo = Threads

\* steps at which a thread has a driver object that is in no list, may use an
\* instance of the list, or has native windows that no surface of the list has
OwnsInst == {"ci_insert", "di_surfaces", "di_windows"}
UsesInst == {"rp_check", "rp_insert", "cs_insert"}
OwnsDev == {"cd_insert", "dd_driver"}
HasWindow(t, s) == at[t] \in {"cs_insert", "ds_window", "di_windows"} /\ s \in todo[t]
Live(g) == \E e \in instances : e.gen = g

\* One driver instance per generation, in the list or with one thread.
InstInv ==
  /\ \A e \in instances : e.gen \in 1..nextInst /\ drvInst[e.handle] = e.gen
  /\ \A h \in Instances : drvInst[h] \in 0..nextInst
  /\ \A h, k \in Instances : drvInst[h] = drvInst[k] /\ drvInst[h] # 0 => h = k
  /\ \A h \in Instances : drvInst[h] # 0 =>
       \/ OfInstance(h, drvInst[h])
       \/ \E t \in Threads : at[t] \in OwnsInst /\ handle[t] = h /\ gen[t] = drvInst[h]
InstSteps == {"ci_driver", "ci_insert", "di_surfaces", "di_windows"}
InstThreads ==
  /\ \A t \in Threads : at[t] \in InstSteps => gen[t] \in 1..nextInst /\ ~Live(gen[t])
  /\ \A t \in Threads : at[t] = "ci_driver" => \A h \in Instances : drvInst[h] # gen[t]
  /\ \A t \in Threads : at[t] \in OwnsInst =>
       handle[t] \in Instances /\ drvInst[handle[t]] = gen[t]
  /\ \A t, u \in Threads :
       at[t] \in InstSteps /\ at[u] \in InstSteps /\ gen[t] = gen[u] => t = u
\* An instance is not destroyed under a call that uses it.
UserInv == \A t \in Threads : at[t] \in UsesInst => OfInstance(handle[t], gen[t])

\* What is remembered is the driver's, of an instance that was once registered.
PhysInv ==
  /\ \A p \in Physicals : drvPhys[p] \in 0..nextInst
  /\ \A g \in Gens, p \in Physicals : remembered[g][p] > 0 =>
       remembered[g][p] = 1 /\ drvPhys[p] = g /\ g \in 1..nextInst
  /\ \A t \in Threads : at[t] \in {"ci_driver", "ci_insert"} =>
       \A p \in Physicals : remembered[gen[t]][p] = 0
  /\ \A t \in Threads : at[t] \in {"rp_check", "rp_insert"} =>
       \A p \in todo[t] : p \in Physicals /\ drvPhys[p] = gen[t]

\* One driver device per generation, in the list or with one thread.
DevInv ==
  /\ \A e \in devices : e.gen \in 1..nextDev /\ drvDev[e.handle] = e.gen
  /\ \A d \in Devices : drvDev[d] \in 0..nextDev
  /\ \A d, k \in Devices : drvDev[d] = drvDev[k] /\ drvDev[d] # 0 => d = k
  /\ \A d \in Devices : drvDev[d] # 0 =>
       \/ \E e \in devices : e.handle = d /\ e.gen = drvDev[d]
       \/ \E t \in Threads : at[t] \in OwnsDev /\ handle[t] = d /\ gen[t] = drvDev[d]
DevSteps == {"cd_driver", "cd_insert", "dd_unlink", "dd_driver"}
DevThreads ==
  /\ \A t \in Threads : at[t] \in DevSteps => gen[t] \in 1..nextDev
  /\ \A t \in Threads : at[t] = "cd_driver" \/ at[t] \in OwnsDev =>
       \A e \in devices : e.gen # gen[t]
  /\ \A t \in Threads : at[t] = "cd_driver" => \A d \in Devices : drvDev[d] # gen[t]
  /\ \A t \in Threads : at[t] = "dd_unlink" \/ at[t] \in OwnsDev =>
       handle[t] \in Devices /\ drvDev[handle[t]] = gen[t]
  /\ \A t, u \in Threads :
       at[t] \in DevSteps /\ at[u] \in DevSteps /\ gen[t] = gen[u] => t = u
\* A device, made or being made, is of an instance in the list.
ParentInv ==
  /\ \A e \in devices : Live(e.inst)
  /\ \A t \in Threads : at[t] \in {"cd_driver", "cd_insert"} => \A g \in todo[t] : Live(g)

\* A native window has one holder.
WindowInv ==
  /\ \A e, f \in surfaces : e.addr = f.addr => e = f
  /\ \A t, u \in Threads, s \in Surfaces : HasWindow(t, s) /\ HasWindow(u, s) => t = u
  /\ \A t \in Threads, e \in surfaces : ~HasWindow(t, e.addr)
  /\ \A s \in Surfaces :
       s \in windows <=> (\E e \in surfaces : e.addr = s) \/ \E t \in Threads : HasWindow(t, s)
  /\ \A t \in Threads : \A s \in todo[t] : HasWindow(t, s) => s \in Surfaces
SurfaceInv ==
  \A s \in surfaces :
    \/ OfInstance(s.inst, s.gen)
    \/ \E t \in Threads : at[t] = "di_surfaces" /\ handle[t] = s.inst /\ gen[t] = s.gen

\* A swapchain's surface is of the instance of its device, which no thread is
\* taking off the list.
MadeFor(c, d, s) ==
  d.handle = c.dev /\ d.gen = c.gen /\ s.addr = c.surf /\ s.gen = d.inst
ChainInv ==
  \A c \in chains :
    /\ \E d \in devices, s \in surfaces : MadeFor(c, d, s)
    /\ \A t \in Threads : at[t] = "dd_unlink" => handle[t] # c.dev

InstPart == InstInv /\ InstThreads /\ UserInv /\ PhysInv
DevPart == DevInv /\ DevThreads /\ ParentInv
SurfPart == WindowInv /\ SurfaceInv /\ ChainInv
IInv == TypeOK /\ Domains /\ InstPart /\ DevPart /\ SurfPart

-----------------------------------------------------------------------------
(* The thread that moves, and what the others' parts need of it *)

Same(u) == at'[u] = at[u] /\ handle'[u] = handle[u] /\ gen'[u] = gen[u] /\ todo'[u] = todo[u]
Moved(t) == \A u \in Threads : u # t => Same(u)

KeepsInst(u) ==
  /\ at'[u] = "ci_driver" => at[u] = "ci_driver"
  /\ at'[u] \in OwnsInst <=> at[u] \in OwnsInst
  /\ at'[u] \in InstSteps => handle'[u] = handle[u] /\ gen'[u] = gen[u]
KeepsUser(u) ==
  at'[u] \in UsesInst => at[u] \in UsesInst /\ handle'[u] = handle[u] /\ gen'[u] = gen[u]
KeepsPhys(u) ==
  /\ at'[u] \in {"ci_driver", "ci_insert"} =>
       at[u] \in {"ci_driver", "ci_insert"} /\ gen'[u] = gen[u]
  /\ at'[u] \in {"rp_check", "rp_insert"} =>
       at[u] \in {"rp_check", "rp_insert"} /\ gen'[u] = gen[u] /\ todo'[u] \subseteq todo[u]
KeepsDev(u) ==
  /\ at'[u] = "cd_driver" => at[u] = "cd_driver"
  /\ at'[u] = "dd_unlink" => at[u] = "dd_unlink"
  /\ at'[u] \in OwnsDev <=> at[u] \in OwnsDev
  /\ at'[u] \in DevSteps => handle'[u] = handle[u] /\ gen'[u] = gen[u]
KeepsParent(u) ==
  at'[u] \in {"cd_driver", "cd_insert"} =>
    at[u] \in {"cd_driver", "cd_insert"} /\ todo'[u] = todo[u]
KeepsWindows(u) == \A s : HasWindow(u, s)' <=> HasWindow(u, s)
KeepsSurface(u) ==
  at[u] = "di_surfaces" => at'[u] = "di_surfaces" /\ handle'[u] = handle[u] /\ gen'[u] = gen[u]
KeepsChain(u) == at'[u] = "dd_unlink" => at[u] = "dd_unlink" /\ handle'[u] = handle[u]

\* A thread that goes to a step of its call gets the locals, the others keep theirs.
LEMMA Goes ==
  ASSUME IInv, NEW t \in Threads, NEW s, NEW h, NEW g \in Gens, NEW rest,
         Go(t, s, h, g, rest)
  PROVE  /\ at'[t] = s /\ handle'[t] = h /\ gen'[t] = g /\ todo'[t] = rest
         /\ Moved(t) /\ Domains' /\ gen' \in [Threads -> Gens]
<1>1. /\ DOMAIN at' = Threads /\ DOMAIN handle' = Threads
      /\ DOMAIN gen' = Threads /\ DOMAIN todo' = Threads
  BY Zenon DEF IInv, Go, Domains
<1>2. at'[t] = s /\ \A u \in Threads : u # t => at'[u] = at[u]
  BY SMT DEF IInv, Go, Domains
<1>3. handle'[t] = h /\ \A u \in Threads : u # t => handle'[u] = handle[u]
  BY SMT DEF IInv, Go, Domains
<1>4. gen'[t] = g /\ \A u \in Threads : u # t => gen'[u] = gen[u]
  BY SMT DEF IInv, Go, Domains
<1>5. todo'[t] = rest /\ \A u \in Threads : u # t => todo'[u] = todo[u]
  BY SMT DEF IInv, Go, Domains
<1>6. gen' \in [Threads -> Gens]
  BY SMT DEF IInv, TypeOK, Go
<1> QED
  BY <1>1, <1>2, <1>3, <1>4, <1>5, <1>6, Zenon DEF Moved, Same, Domains

\* A thread that goes on with its call keeps its handle and generation.
LEMMA GoesOn ==
  ASSUME IInv, NEW t \in Threads, NEW s, NEW rest, Go(t, s, handle[t], gen[t], rest)
  PROVE  /\ at'[t] = s /\ handle'[t] = handle[t] /\ gen'[t] = gen[t] /\ todo'[t] = rest
         /\ Moved(t) /\ Domains' /\ gen' \in [Threads -> Gens]
<1>1. gen[t] \in Gens
  BY Zenon DEF IInv, TypeOK
<1> QED
  BY <1>1, Goes, Zenon

\* A thread that returns has no locals.
LEMMA Returns ==
  ASSUME IInv, NEW t \in Threads, Return(t)
  PROVE  /\ at'[t] = "idle" /\ handle'[t] = Nothing /\ gen'[t] = 0 /\ todo'[t] = {}
         /\ Moved(t) /\ Domains' /\ gen' \in [Threads -> Gens]
<1>1. 0 \in Gens
  BY GenAssumption, SMT DEF Gens
<1> QED
  BY <1>1, Goes, Zenon DEF Return

\* Instances stay in order while list and driver stay and the thread owns as before.
LEMMA FrameInst ==
  ASSUME InstInv, InstThreads, drvInst' = drvInst, instances' = instances, nextInst' = nextInst,
         NEW t \in Threads, Moved(t), KeepsInst(t)
  PROVE  InstInv' /\ InstThreads'
<1>1. \A u \in Threads : KeepsInst(u)
  BY Zenon DEF Moved, Same, KeepsInst
<1>2. \A u \in Threads : at[u] \in OwnsInst =>
        at'[u] \in OwnsInst /\ handle'[u] = handle[u] /\ gen'[u] = gen[u]
  BY <1>1, Zenon DEF KeepsInst, InstSteps, OwnsInst
<1>3. InstInv'
  BY <1>2, SMT DEF InstInv, OfInstance
<1>4. \A u \in Threads : at'[u] \in InstSteps =>
        /\ at[u] \in InstSteps /\ handle'[u] = handle[u] /\ gen'[u] = gen[u]
        /\ at'[u] = "ci_driver" => at[u] = "ci_driver"
        /\ at'[u] \in OwnsInst => at[u] \in OwnsInst
  BY <1>1, Zenon DEF KeepsInst, InstSteps, OwnsInst
<1>5. InstThreads'
  BY <1>4, SMT DEF InstThreads, Live, InstSteps, OwnsInst
<1> QED
  BY <1>3, <1>5

\* Calls in progress keep their instances while none leaves the list.
LEMMA FrameUser ==
  ASSUME UserInv, instances \subseteq instances', NEW t \in Threads, Moved(t), KeepsUser(t)
  PROVE  UserInv'
<1>1. \A u \in Threads : KeepsUser(u)
  BY Zenon DEF Moved, Same, KeepsUser
<1> QED
  BY <1>1, Zenon DEF UserInv, KeepsUser, OfInstance

\* What is remembered stays true while the driver's physical devices stay.
LEMMA FramePhys ==
  ASSUME PhysInv, drvPhys' = drvPhys, remembered' = remembered, nextInst' = nextInst,
         NEW t \in Threads, Moved(t), KeepsPhys(t)
  PROVE  PhysInv'
<1>1. \A u \in Threads : KeepsPhys(u)
  BY Zenon DEF Moved, Same, KeepsPhys
<1> QED
  BY <1>1, SMT DEF PhysInv, KeepsPhys

\* Devices stay in order while list and driver stay and the thread owns as before.
LEMMA FrameDev ==
  ASSUME DevInv, DevThreads, drvDev' = drvDev, devices' = devices, nextDev' = nextDev,
         NEW t \in Threads, Moved(t), KeepsDev(t)
  PROVE  DevInv' /\ DevThreads'
<1>1. \A u \in Threads : KeepsDev(u)
  BY SMT DEF Moved, Same, KeepsDev
<1>2. DevInv'
  <2>1. \A u \in Threads : at[u] \in OwnsDev => at'[u] \in OwnsDev /\ handle'[u] = handle[u] /\ gen'[u] = gen[u]
    BY <1>1, Zenon DEF KeepsDev, OwnsDev, DevSteps
  <2> QED
    BY <2>1, SMT DEF DevInv
<1>3. \A u \in Threads : at'[u] \in DevSteps => at[u] \in DevSteps /\ handle'[u] = handle[u] /\ gen'[u] = gen[u]
  BY <1>1, Zenon DEF KeepsDev, DevSteps, OwnsDev
<1>4. DevThreads'
  <2>1. "cd_driver" \in DevSteps /\ "dd_unlink" \in DevSteps /\ OwnsDev \subseteq DevSteps
    BY Zenon DEF DevSteps, OwnsDev
  <2> QED
    BY <1>1, <1>3, <2>1, SMT DEF DevThreads, KeepsDev
<1> QED
  BY <1>2, <1>4

\* Devices keep their instances while none leaves the list.
LEMMA FrameParent ==
  ASSUME ParentInv, instances \subseteq instances', devices' \subseteq devices,
         NEW t \in Threads, Moved(t), KeepsParent(t)
  PROVE  ParentInv'
<1>1. \A u \in Threads : KeepsParent(u)
  BY Zenon DEF Moved, Same, KeepsParent
<1>2. \A g : Live(g) => Live(g)'
  BY Zenon DEF Live
<1> QED
  BY <1>1, <1>2, Zenon DEF ParentInv, KeepsParent

\* Windows keep their holders while the thread has the ones it had.
LEMMA FrameWindow ==
  ASSUME WindowInv, surfaces' = surfaces, windows' = windows,
         NEW t \in Threads, Moved(t), KeepsWindows(t)
  PROVE  WindowInv'
<1>1. \A u \in Threads : \A s : HasWindow(u, s)' <=> HasWindow(u, s)
  BY Zenon DEF Moved, Same, KeepsWindows, HasWindow
<1>2. \A u \in Threads : \A s : HasWindow(u, s) => s \in todo[u]
  BY Zenon DEF HasWindow
<1> QED
  BY <1>1, <1>2, Zenon DEF WindowInv

\* Surfaces keep their instances while none leaves the list.
LEMMA FrameSurface ==
  ASSUME SurfaceInv, surfaces' \subseteq surfaces, instances \subseteq instances',
         NEW t \in Threads, Moved(t), KeepsSurface(t)
  PROVE  SurfaceInv'
<1>1. \A u \in Threads : KeepsSurface(u)
  BY Zenon DEF Moved, Same, KeepsSurface
<1> SUFFICES ASSUME NEW s \in surfaces
             PROVE  \/ OfInstance(s.inst, s.gen)'
                    \/ \E u \in Threads : at'[u] = "di_surfaces" /\ handle'[u] = s.inst /\ gen'[u] = s.gen
  BY Zenon DEF SurfaceInv
<1>2. CASE OfInstance(s.inst, s.gen)
  BY <1>2, Zenon DEF OfInstance
<1>3. CASE \E u \in Threads : at[u] = "di_surfaces" /\ handle[u] = s.inst /\ gen[u] = s.gen
  BY <1>1, <1>3, Zenon DEF KeepsSurface
<1> QED
  BY <1>2, <1>3, Zenon DEF SurfaceInv

\* Swapchains keep device and surface while none of these leaves its list.
LEMMA FrameChain ==
  ASSUME ChainInv, chains' \subseteq chains, devices \subseteq devices', surfaces \subseteq surfaces',
         NEW t \in Threads, Moved(t), KeepsChain(t)
  PROVE  ChainInv'
<1>1. \A u \in Threads : KeepsChain(u)
  BY Zenon DEF Moved, Same, KeepsChain
<1> QED
  BY <1>1, SMT DEF ChainInv, KeepsChain

-----------------------------------------------------------------------------
(* The list of instances and the driver's instances *)

\* next_generation gives a value that no instance has or had.
LEMMA InstReserve ==
  ASSUME TypeOK, InstInv, InstThreads, NEW t \in Threads, CreateInstance(t),
         at'[t] = "ci_driver", gen'[t] = nextInst + 1, Moved(t)
  PROVE  InstInv' /\ InstThreads'
<1>1. /\ at[t] = "idle" /\ nextInst \in Nat /\ nextInst' = nextInst + 1
      /\ drvInst' = drvInst /\ instances' = instances
  BY GenAssumption, SMT DEF CreateInstance, TypeOK, Gens, driverVars
<1>2. \A u \in Threads : u # t => at'[u] = at[u] /\ handle'[u] = handle[u] /\ gen'[u] = gen[u]
  BY Zenon DEF Moved, Same
<1>3. InstInv'
  BY <1>1, <1>2, SMT DEF InstInv, OfInstance, OwnsInst
<1>4. \A e \in instances : e.gen # nextInst + 1
  BY <1>1, SMT DEF InstInv
<1>5. InstThreads'
  BY <1>1, <1>2, <1>4, SMT DEF InstInv, InstThreads, Live, InstSteps, OwnsInst
<1> QED
  BY <1>3, <1>5

\* The driver picks a handle that has no object, so nobody's entry changes.
LEMMA InstMade ==
  ASSUME TypeOK, InstInv, InstThreads, NEW t \in Threads, NEW h \in Instances,
         at[t] = "ci_driver", drvInst[h] = 0, drvInst' = [drvInst EXCEPT ![h] = gen[t]],
         instances' = instances, nextInst' = nextInst,
         at'[t] = "ci_insert", handle'[t] = h, gen'[t] = gen[t], Moved(t)
  PROVE  InstInv' /\ InstThreads'
<1>1. \A k \in Instances : drvInst'[k] = IF k = h THEN gen[t] ELSE drvInst[k]
  BY SMT DEF TypeOK
<1>2. \A u \in Threads : u # t => at'[u] = at[u] /\ handle'[u] = handle[u] /\ gen'[u] = gen[u]
  BY Zenon DEF Moved, Same
<1>3. gen[t] \in 1..nextInst /\ \A k \in Instances : drvInst[k] # gen[t]
  BY Zenon DEF InstThreads, InstSteps
<1>4. \A e \in instances : e.handle \in Instances /\ e.handle # h
  BY SMT DEF InstInv, TypeOK
<1>5. InstInv'
  BY <1>1, <1>2, <1>3, <1>4, SMT DEF InstInv, OfInstance, OwnsInst
<1>6. InstThreads'
  BY <1>1, <1>2, <1>3, SMT DEF InstThreads, Live, InstSteps, OwnsInst
<1> QED
  BY <1>5, <1>6

\* vkDestroyInstance() of the driver takes the object of one generation, and no
\* entry and no other thread has it.
LEMMA InstGone ==
  ASSUME TypeOK, InstInv, InstThreads, NEW t \in Threads, at[t] \in OwnsInst,
         DriverDestroyInstance(gen[t]), instances' = instances, nextInst' = nextInst,
         at'[t] = "idle", Moved(t)
  PROVE  InstInv' /\ InstThreads'
<1>1. \A k \in Instances : drvInst'[k] = IF drvInst[k] = gen[t] THEN 0 ELSE drvInst[k]
  BY Zenon DEF DriverDestroyInstance
<1>2. \A u \in Threads : u # t => at'[u] = at[u] /\ handle'[u] = handle[u] /\ gen'[u] = gen[u]
  BY Zenon DEF Moved, Same
<1>3. /\ gen[t] \in 1..nextInst /\ (\A e \in instances : e.gen # gen[t])
      /\ \A u \in Threads : u # t /\ at[u] \in InstSteps => gen[u] # gen[t]
  BY SMT DEF InstThreads, InstSteps, OwnsInst, Live
<1>4. \A e \in instances : e.handle \in Instances
  BY SMT DEF TypeOK
<1>5. nextInst \in Nat
  BY GenAssumption, SMT DEF TypeOK, Gens
<1>6. InstInv'
  BY <1>1, <1>2, <1>3, <1>4, <1>5, SMT DEF InstInv, OfInstance, OwnsInst, InstSteps
<1>7. InstThreads'
  BY <1>1, <1>2, <1>3, <1>5, SMT DEF InstThreads, Live, InstSteps, OwnsInst
<1> QED
  BY <1>6, <1>7

\* The thread hands its driver instance to the list.
LEMMA InstListed ==
  ASSUME TypeOK, InstInv, InstThreads, NEW t \in Threads, at[t] = "ci_insert",
         instances' = instances \cup {[handle |-> handle[t], gen |-> gen[t]]},
         drvInst' = drvInst, nextInst' = nextInst, at'[t] = "idle", Moved(t)
  PROVE  InstInv' /\ InstThreads'
<1>1. \A u \in Threads : u # t => at'[u] = at[u] /\ handle'[u] = handle[u] /\ gen'[u] = gen[u]
  BY Zenon DEF Moved, Same
<1>2. /\ gen[t] \in 1..nextInst /\ handle[t] \in Instances /\ drvInst[handle[t]] = gen[t]
      /\ \A u \in Threads : u # t /\ at[u] \in InstSteps => gen[u] # gen[t]
  BY SMT DEF InstThreads, InstSteps, OwnsInst
<1>3. InstInv'
  BY <1>1, <1>2, SMT DEF InstInv, OfInstance, OwnsInst
<1>4. InstThreads'
  BY <1>1, <1>2, SMT DEF InstThreads, Live, InstSteps, OwnsInst
<1> QED
  BY <1>3, <1>4

\* destroy_instance() unlinks by handle value, which finds the one entry of its
\* generation: after it no other entry has the generation, and all others stay.
LEMMA UnlinkedExact ==
  ASSUME TypeOK, InstInv, NEW h, NEW g, OfInstance(h, g), instances' = Unlinked(h)
  PROVE  /\ h \in Instances /\ drvInst[h] = g /\ g \in 1..nextInst
         /\ \A e \in instances : e.handle \in Instances /\ (e.handle = h <=> e.gen = g)
         /\ \A e : e \in instances' <=> e \in instances /\ e.gen # g
<1>1. h \in Instances /\ drvInst[h] = g /\ g \in 1..nextInst
  BY SMT DEF OfInstance, InstInv, TypeOK
<1>2. \A e \in instances : e.handle \in Instances /\ (e.handle = h <=> e.gen = g)
  BY <1>1, SMT DEF InstInv, TypeOK
<1> QED
  BY <1>1, <1>2, Zenon DEF Unlinked

\* destroy_instance() takes the driver instance over from the list.
LEMMA InstUnlinked ==
  ASSUME TypeOK, InstInv, InstThreads, NEW t \in Threads, NEW h, NEW g,
         at[t] = "idle", OfInstance(h, g), instances' = Unlinked(h),
         drvInst' = drvInst, nextInst' = nextInst,
         at'[t] = "di_surfaces", handle'[t] = h, gen'[t] = g, Moved(t)
  PROVE  InstInv' /\ InstThreads'
<1>1. \A u \in Threads : u # t => at'[u] = at[u] /\ handle'[u] = handle[u] /\ gen'[u] = gen[u]
  BY Zenon DEF Moved, Same
<1>2. /\ h \in Instances /\ drvInst[h] = g /\ g \in 1..nextInst
      /\ \A e \in instances : e.handle \in Instances /\ (e.handle = h <=> e.gen = g)
      /\ \A e : e \in instances' <=> e \in instances /\ e.gen # g
  BY UnlinkedExact
<1>3. \A k \in Instances : \A i : OfInstance(k, i) /\ k # h => OfInstance(k, i)'
  BY <1>2, SMT DEF OfInstance
<1>4. InstInv'
  BY <1>1, <1>2, <1>3, SMT DEF InstInv, OwnsInst
<1>5. \A u \in Threads : at[u] \in InstSteps => gen[u] # g
  BY SMT DEF InstThreads, Live, OfInstance
<1>6. InstThreads'
  BY <1>1, <1>2, <1>5, SMT DEF InstThreads, Live, InstSteps, OwnsInst
<1> QED
  BY <1>4, <1>6

-----------------------------------------------------------------------------
(* Physical devices *)

\* A call that uses an instance has its generation.
LEMMA UserFacts ==
  ASSUME TypeOK, InstInv, UserInv, NEW u \in Threads, at[u] \in UsesInst
  PROVE  gen[u] \in Gens /\ gen[u] \in 1..nextInst /\ Live(gen[u])
<1>1. [handle |-> handle[u], gen |-> gen[u]] \in instances
  BY Zenon DEF UserInv, OfInstance
<1>2. gen[u] \in 1..nextInst /\ Live(gen[u])
  BY <1>1, Zenon DEF InstInv, Live
<1> QED
  BY <1>2, Zenon DEF TypeOK

\* Nothing is remembered yet for a new generation.
LEMMA PhysReserve ==
  ASSUME TypeOK, PhysInv, NEW t \in Threads, at[t] = "idle", ~Exhausted(nextInst),
         nextInst' = nextInst + 1, drvPhys' = drvPhys, remembered' = remembered,
         at'[t] = "ci_driver", gen'[t] = nextInst + 1, Moved(t)
  PROVE  PhysInv'
<1>1. nextInst \in Nat /\ nextInst + 1 \in Gens
  BY GenAssumption, SMT DEF TypeOK, Gens, Exhausted
<1>2. \A u \in Threads : u # t => Same(u)
  BY Zenon DEF Moved
<1>3. \A p \in Physicals : remembered[nextInst + 1][p] = 0
  BY <1>1, SMT DEF PhysInv, TypeOK
<1> QED
  BY <1>1, <1>2, <1>3, SMT DEF PhysInv, Same

\* The new instance's physical device was no other instance's.
LEMMA PhysMade ==
  ASSUME TypeOK, InstInv, InstThreads, UserInv, PhysInv, NEW t \in Threads, NEW p \in Physicals,
         at[t] = "ci_driver", drvPhys[p] = 0, drvPhys' = [drvPhys EXCEPT ![p] = gen[t]],
         nextInst' = nextInst, remembered' = remembered,
         at'[t] = "ci_insert", gen'[t] = gen[t], Moved(t)
  PROVE  PhysInv'
<1>1. \A q \in Physicals : drvPhys'[q] = IF q = p THEN gen[t] ELSE drvPhys[q]
  BY SMT DEF TypeOK
<1>2. \A u \in Threads : u # t => Same(u)
  BY Zenon DEF Moved
<1>3. gen[t] \in 1..nextInst
  BY Zenon DEF InstThreads, InstSteps
<1>4. \A u \in Threads : at[u] \in {"rp_check", "rp_insert"} => gen[u] \in 1..nextInst
  BY UserFacts, Zenon DEF UsesInst
<1> QED
  BY <1>1, <1>2, <1>3, <1>4, SMT DEF PhysInv, Same

\* The driver's physical devices of a generation go together with what was
\* remembered of them, and no thread is enumerating them.
LEMMA PhysGone ==
  ASSUME TypeOK, InstInv, InstThreads, UserInv, PhysInv, NEW t \in Threads,
         at[t] \in OwnsInst, DriverDestroyInstance(gen[t]), nextInst' = nextInst,
         \A g \in Gens, p \in Physicals :
           remembered'[g][p] = IF g = gen[t] THEN 0 ELSE remembered[g][p],
         at'[t] = "idle", Moved(t)
  PROVE  PhysInv'
<1>1. \A q \in Physicals : drvPhys'[q] = IF drvPhys[q] = gen[t] THEN 0 ELSE drvPhys[q]
  BY Zenon DEF DriverDestroyInstance
<1>2. \A u \in Threads : u # t => Same(u)
  BY Zenon DEF Moved
<1>3. /\ gen[t] \in 1..nextInst /\ ~Live(gen[t]) /\ nextInst \in Nat
      /\ \A u \in Threads : gen[u] \in Gens
  BY GenAssumption, SMT DEF InstThreads, InstSteps, OwnsInst, TypeOK, Gens
<1>4. \A u \in Threads : at[u] \in {"rp_check", "rp_insert"} => gen[u] # gen[t]
  BY <1>3, UserFacts, Zenon DEF UsesInst
<1> QED
  BY <1>1, <1>2, <1>3, <1>4, SMT DEF PhysInv, Same

\* What a call is about to remember is the driver's answer.
LEMMA PhysListing ==
  ASSUME PhysInv, drvPhys' = drvPhys, remembered' = remembered, nextInst' = nextInst,
         NEW t \in Threads, NEW g, at'[t] = "rp_check", gen'[t] = g,
         todo'[t] = {p \in Physicals : drvPhys[p] = g}, Moved(t)
  PROVE  PhysInv'
<1>1. \A u \in Threads : u # t => Same(u)
  BY Zenon DEF Moved
<1> QED
  BY <1>1, SMT DEF PhysInv, Same

\* remember_physical() checks again after its allocation, so that an entry the
\* other enumeration has made meanwhile stays the only one.
LEMMA PhysRemembered ==
  ASSUME TypeOK, InstInv, InstThreads, UserInv, PhysInv, NEW t \in Threads, NEW p \in todo[t],
         at[t] = "rp_insert", drvPhys' = drvPhys, nextInst' = nextInst,
         remembered' = IF Recheck(gen[t], p)
                       THEN [remembered EXCEPT ![gen[t]][p] = @ + 1] ELSE remembered,
         at'[t] = "rp_check", gen'[t] = gen[t], todo'[t] = todo[t] \ {p}, Moved(t)
  PROVE  PhysInv' /\ remembered' \in [Gens -> [Physicals -> Nat]]
<1>1. gen[t] \in Gens /\ gen[t] \in 1..nextInst /\ Live(gen[t])
  BY UserFacts, Zenon DEF UsesInst
<1>2. p \in Physicals /\ drvPhys[p] = gen[t]
  BY Zenon DEF PhysInv
<1>3. remembered' \in [Gens -> [Physicals -> Nat]]
  BY <1>1, <1>2, SMT DEF TypeOK
<1>4. \A g \in Gens, q \in Physicals :
        remembered'[g][q] = IF g = gen[t] /\ q = p /\ remembered[g][q] = 0 THEN 1 ELSE remembered[g][q]
  <2>1. CASE remembered[gen[t]][p] = 0
    BY <1>1, <1>2, <2>1, SMT DEF TypeOK, Recheck
  <2>2. CASE remembered[gen[t]][p] # 0
    BY <1>1, <1>2, <2>2, SMT DEF Recheck
  <2> QED
    BY <2>1, <2>2, Zenon
<1>5. \A u \in Threads : u # t => Same(u)
  BY Zenon DEF Moved
<1>6. \A u \in Threads : at[u] \in {"ci_driver", "ci_insert"} => gen[u] # gen[t] /\ gen[u] \in Gens
  BY <1>1, Zenon DEF InstThreads, InstSteps, TypeOK
<1>7. PhysInv'
  BY <1>1, <1>2, <1>4, <1>5, <1>6, SMTT(30) DEF PhysInv, Same
<1> QED
  BY <1>3, <1>7, Zenon

-----------------------------------------------------------------------------
(* The list of devices and the driver's devices *)

\* next_generation gives a value that no device has or had.
LEMMA DevReserve ==
  ASSUME TypeOK, DevInv, DevThreads, NEW t \in Threads, at[t] = "idle",
         nextDev' = nextDev + 1, drvDev' = drvDev, devices' = devices,
         at'[t] = "cd_driver", gen'[t] = nextDev + 1, Moved(t)
  PROVE  DevInv' /\ DevThreads'
<1>1. nextDev \in Nat
  BY GenAssumption, SMT DEF TypeOK, Gens
<1>2. \A u \in Threads : u # t => at'[u] = at[u] /\ handle'[u] = handle[u] /\ gen'[u] = gen[u]
  BY Zenon DEF Moved, Same
<1>3. DevInv'
  BY <1>1, <1>2, SMTT(30) DEF DevInv, OwnsDev
<1>4. DevThreads'
  BY <1>1, <1>2, SMT DEF DevInv, DevThreads, DevSteps, OwnsDev
<1> QED
  BY <1>3, <1>4, Zenon

\* The driver picks a device handle that has no object.
LEMMA DevMade ==
  ASSUME TypeOK, DevInv, DevThreads, NEW t \in Threads, NEW d \in Devices,
         at[t] = "cd_driver", drvDev[d] = 0, drvDev' = [drvDev EXCEPT ![d] = gen[t]],
         devices' = devices, nextDev' = nextDev,
         at'[t] = "cd_insert", handle'[t] = d, gen'[t] = gen[t], Moved(t)
  PROVE  DevInv' /\ DevThreads'
<1>1. \A k \in Devices : drvDev'[k] = IF k = d THEN gen[t] ELSE drvDev[k]
  BY Zenon DEF TypeOK
<1>2. \A u \in Threads : u # t => at'[u] = at[u] /\ handle'[u] = handle[u] /\ gen'[u] = gen[u]
  BY Zenon DEF Moved, Same
<1>3. gen[t] \in 1..nextDev /\ \A k \in Devices : drvDev[k] # gen[t]
  BY Zenon DEF DevThreads, DevSteps
<1>4. \A e \in devices : e.handle \in Devices /\ e.handle # d
  BY SMTT(30) DEF DevInv, TypeOK
<1>5. DevInv'
  BY <1>1, <1>2, <1>3, <1>4, SMT DEF DevInv, OwnsDev
<1>6. DevThreads'
  BY <1>1, <1>2, <1>3, SMT DEF DevThreads, DevSteps, OwnsDev
<1> QED
  BY <1>5, <1>6

\* vkDestroyDevice() of the driver, on an error path or at the end of a device:
\* no entry and no other thread has the device.
LEMMA DevGone ==
  ASSUME TypeOK, DevInv, DevThreads, NEW t \in Threads, at[t] \in OwnsDev,
         drvDev' = [drvDev EXCEPT ![handle[t]] = 0], devices' = devices, nextDev' = nextDev,
         at'[t] = "idle", Moved(t)
  PROVE  DevInv' /\ DevThreads' /\ drvDev' \in [Devices -> Gens]
<1>1. /\ gen[t] \in 1..nextDev /\ handle[t] \in Devices /\ drvDev[handle[t]] = gen[t]
      /\ \A e \in devices : e.gen # gen[t] /\ e.handle \in Devices
      /\ \A u \in Threads : u # t /\ at[u] \in DevSteps => gen[u] # gen[t]
  BY Zenon DEF DevThreads, DevSteps, OwnsDev, TypeOK
<1>2. \A k \in Devices : drvDev'[k] = IF k = handle[t] THEN 0 ELSE drvDev[k]
  BY <1>1, Zenon DEF TypeOK
<1>3. nextDev \in Nat /\ 0 \in Gens
  BY GenAssumption, SMT DEF TypeOK, Gens
<1>4. drvDev' \in [Devices -> Gens]
  BY <1>1, <1>3, SMT DEF TypeOK
<1>5. \A u \in Threads : u # t => at'[u] = at[u] /\ handle'[u] = handle[u] /\ gen'[u] = gen[u]
  BY Zenon DEF Moved, Same
<1>6. DevInv'
  BY <1>1, <1>2, <1>3, <1>5, SMTT(30) DEF DevInv, OwnsDev, DevSteps
<1>7. DevThreads'
  BY <1>1, <1>2, <1>3, <1>5, SMT DEF DevThreads, OwnsDev, DevSteps
<1> QED
  BY <1>4, <1>6, <1>7, Zenon

\* The thread hands its driver device to the list.
LEMMA DevListed ==
  ASSUME TypeOK, DevInv, DevThreads, NEW t \in Threads, NEW g, at[t] = "cd_insert",
         devices' = devices \cup {[handle |-> handle[t], gen |-> gen[t], inst |-> g]},
         drvDev' = drvDev, nextDev' = nextDev, at'[t] = "idle", Moved(t)
  PROVE  DevInv' /\ DevThreads'
<1>1. \A u \in Threads : u # t => at'[u] = at[u] /\ handle'[u] = handle[u] /\ gen'[u] = gen[u]
  BY Zenon DEF Moved, Same
<1>2. /\ gen[t] \in 1..nextDev /\ handle[t] \in Devices /\ drvDev[handle[t]] = gen[t]
      /\ \A u \in Threads : u # t /\ at[u] \in DevSteps => gen[u] # gen[t]
  BY Zenon DEF DevThreads, DevSteps, OwnsDev
<1>0. PICK n : n = [handle |-> handle[t], gen |-> gen[t], inst |-> g]
  BY Zenon
<1>3. /\ n \in devices' /\ n.handle = handle[t] /\ n.gen = gen[t]
      /\ \A e : e \in devices' <=> e \in devices \/ e = n
  BY <1>0, Zenon
<1>4. DevInv'
  <2>1. \A e \in devices' : e.gen \in 1..nextDev /\ drvDev[e.handle] = e.gen
    BY <1>2, <1>3, Zenon DEF DevInv
  <2>2. ASSUME NEW d \in Devices, drvDev[d] # 0
        PROVE  \/ \E e \in devices' : e.handle = d /\ e.gen = drvDev[d]
               \/ \E u \in Threads : at'[u] \in OwnsDev /\ handle'[u] = d /\ gen'[u] = drvDev[d]
    <3>1. CASE \E e \in devices : e.handle = d /\ e.gen = drvDev[d]
      BY <1>3, <3>1, Zenon
    <3>2. CASE \E u \in Threads : at[u] \in OwnsDev /\ handle[u] = d /\ gen[u] = drvDev[d]
      BY <1>1, <1>3, <3>2, Zenon
    <3> QED
      BY <2>2, <3>1, <3>2, Zenon DEF DevInv
  <2> QED
    BY <2>1, <2>2, Zenon DEF DevInv
<1>5. DevThreads'
  BY <1>1, <1>2, <1>3, SMT DEF DevThreads, DevSteps, OwnsDev
<1> QED
  BY <1>4, <1>5

\* Two threads cannot be destroying one device: the first one is using its handle.
LEMMA DevTaken ==
  ASSUME TypeOK, DevInv, DevThreads, NEW t \in Threads, NEW e \in devices, at[t] = "idle",
         ~Using(e.handle), drvDev' = drvDev, devices' = devices, nextDev' = nextDev,
         at'[t] = "dd_unlink", handle'[t] = e.handle, gen'[t] = e.gen, Moved(t)
  PROVE  DevInv' /\ DevThreads'
<1>1. \A u \in Threads : u # t => at'[u] = at[u] /\ handle'[u] = handle[u] /\ gen'[u] = gen[u]
  BY Zenon DEF Moved, Same
<1>2. e.handle \in Devices /\ e.gen \in 1..nextDev /\ drvDev[e.handle] = e.gen
  BY Zenon DEF TypeOK, DevInv
<1>3. \A u \in Threads : at[u] \in DevSteps => gen[u] # e.gen
  <2>1. SUFFICES ASSUME NEW u \in Threads, at[u] \in DevSteps, gen[u] = e.gen
                 PROVE  FALSE
    BY Zenon
  <2>2. at[u] = "dd_unlink"
    BY <2>1, Zenon DEF DevThreads, DevSteps, OwnsDev
  <2>3. handle[u] \in Devices /\ drvDev[handle[u]] = e.gen
    BY <2>1, <2>2, Zenon DEF DevThreads
  <2>4. e.gen # 0
    BY <1>2, SMT DEF TypeOK
  <2>5. handle[u] = e.handle
    BY <1>2, <2>3, <2>4, Zenon DEF DevInv
  <2> QED
    BY <2>2, <2>5, Zenon DEF Using
<1>4. DevInv'
  BY <1>1, SMT DEF DevInv, OwnsDev
<1>5. DevThreads'
  BY <1>1, <1>2, <1>3, SMT DEF DevThreads, DevSteps, OwnsDev
<1> QED
  BY <1>4, <1>5

\* destroy_device() takes the driver device over from the list.
LEMMA DevUnlinked ==
  ASSUME TypeOK, DevInv, DevThreads, NEW t \in Threads, at[t] = "dd_unlink",
         devices' = {d \in devices : d.handle # handle[t]}, drvDev' = drvDev, nextDev' = nextDev,
         at'[t] = "dd_driver", handle'[t] = handle[t], gen'[t] = gen[t], Moved(t)
  PROVE  DevInv' /\ DevThreads'
<1>1. \A u \in Threads : u # t => at'[u] = at[u] /\ handle'[u] = handle[u] /\ gen'[u] = gen[u]
  BY Zenon DEF Moved, Same
<1>2. gen[t] \in 1..nextDev /\ handle[t] \in Devices /\ drvDev[handle[t]] = gen[t]
  BY Zenon DEF DevThreads, DevSteps, OwnsDev
<1>3. \A e \in devices' : e \in devices /\ e.gen # gen[t]
  <2>1. gen[t] # 0
    BY <1>2, SMT DEF TypeOK
  <2> QED
    BY <1>2, <2>1, ZenonT(30) DEF DevInv, TypeOK
<1>4. DevInv'
  <2>1. ASSUME NEW d \in Devices, drvDev[d] # 0
        PROVE  \/ \E e \in devices' : e.handle = d /\ e.gen = drvDev[d]
               \/ \E u \in Threads : at'[u] \in OwnsDev /\ handle'[u] = d /\ gen'[u] = drvDev[d]
    <3>1. CASE d = handle[t]
      BY <1>2, <3>1, Zenon DEF OwnsDev
    <3>2. CASE d # handle[t] /\ \E e \in devices : e.handle = d /\ e.gen = drvDev[d]
      BY <3>2, Zenon
    <3>3. CASE \E u \in Threads : at[u] \in OwnsDev /\ handle[u] = d /\ gen[u] = drvDev[d]
      <4>1. at[t] \notin OwnsDev
        BY Zenon DEF OwnsDev
      <4> QED
        BY <1>1, <3>3, <4>1, Zenon
    <3> QED
      BY <2>1, <3>1, <3>2, <3>3, Zenon DEF DevInv
  <2>2. \A e \in devices' : e \in devices
    BY Zenon
  <2> QED
    BY <2>1, <2>2, Zenon DEF DevInv
<1>5. DevThreads'
  BY <1>1, <1>2, <1>3, SMT DEF DevThreads, DevSteps, OwnsDev
<1> QED
  BY <1>4, <1>5

-----------------------------------------------------------------------------
(* What depends on an instance or a device *)

\* No call and no device is left with an instance that is being destroyed.
LEMMA InstUnused ==
  ASSUME TypeOK, InstInv, UserInv, ParentInv, NEW t \in Threads, NEW h, NEW g, OfInstance(h, g),
         ~Using(h), (\A d \in devices : d.inst # g),
         \A u \in Threads : at[u] \in {"cd_driver", "cd_insert", "dd_driver"} => g \notin todo[u],
         instances' = Unlinked(h), devices' = devices, at'[t] = "di_surfaces", Moved(t)
  PROVE  UserInv' /\ ParentInv'
<1>1. \A u \in Threads : u # t => Same(u)
  BY Zenon DEF Moved
<1>2. \A e : e \in instances' <=> e \in instances /\ e.gen # g
  BY UnlinkedExact, Zenon
<1>3. \A k : Live(k) /\ k # g => Live(k)'
  BY <1>2, Zenon DEF Live
<1>4. ParentInv'
  BY <1>1, <1>3, Zenon DEF ParentInv, Same
<1>5. \A k, i : OfInstance(k, i) /\ k # h => [handle |-> k, gen |-> i] \in instances'
  <2> SUFFICES ASSUME NEW k, NEW i, [handle |-> k, gen |-> i] \in instances, k # h
               PROVE  [handle |-> k, gen |-> i] \in instances'
    BY Zenon DEF OfInstance
  <2>1. [handle |-> k, gen |-> i].handle = k
    BY Zenon
  <2> QED
    BY <2>1, Zenon DEF Unlinked
<1>6. UserInv'
  <2> SUFFICES ASSUME NEW u \in Threads, at'[u] \in UsesInst
               PROVE  [handle |-> handle'[u], gen |-> gen'[u]] \in instances'
    BY Zenon DEF UserInv, OfInstance
  <2>1. u # t /\ Same(u)
    BY <1>1, Zenon DEF UsesInst
  <2>2. at[u] # "idle" /\ OfInstance(handle[u], gen[u])
    BY <2>1, Zenon DEF Same, UsesInst, UserInv
  <2>3. handle[u] # h
    BY <2>2, Zenon DEF Using
  <2>4. [handle |-> handle[u], gen |-> gen[u]] \in instances'
    BY <2>2, <2>3, <1>5, Zenon DEF OfInstance
  <2> QED
    BY <2>1, <2>4, Zenon DEF Same
<1> QED
  BY <1>4, <1>6

\* A call starts with an instance of the list.
LEMMA UserStarts ==
  ASSUME UserInv, instances' = instances, NEW t \in Threads, NEW h, NEW g, OfInstance(h, g),
         handle'[t] = h, gen'[t] = g, Moved(t)
  PROVE  UserInv'
<1>1. \A u \in Threads : u # t => Same(u)
  BY Zenon DEF Moved
<1> QED
  BY <1>1, Zenon DEF UserInv, Same, OfInstance

\* create_device() starts with an instance of the list.
LEMMA ParentStarts ==
  ASSUME ParentInv, instances' = instances, devices' = devices, NEW t \in Threads, NEW g, Live(g),
         todo'[t] = {g}, Moved(t)
  PROVE  ParentInv'
<1>1. \A u \in Threads : u # t => Same(u)
  BY Zenon DEF Moved
<1>2. \A k : Live(k)' <=> Live(k)
  BY Zenon DEF Live
<1> QED
  BY <1>1, <1>2, Zenon DEF ParentInv, Same

\* The device that is listed is of an instance of the list.
LEMMA ParentListed ==
  ASSUME ParentInv, instances' = instances, NEW t \in Threads, NEW g \in todo[t],
         at[t] = "cd_insert",
         devices' = devices \cup {[handle |-> handle[t], gen |-> gen[t], inst |-> g]},
         at'[t] = "idle", Moved(t)
  PROVE  ParentInv' /\ Live(g)
<1>1. \A u \in Threads : u # t => Same(u)
  BY Zenon DEF Moved
<1>2. \A k : Live(k)' <=> Live(k)
  BY Zenon DEF Live
<1>3. Live(g)
  BY Zenon DEF ParentInv
<1>4. \A e \in devices' : e \in devices \/ e.inst = g
  BY SMT
<1>5. ParentInv'
  BY <1>1, <1>2, <1>3, <1>4, Zenon DEF ParentInv, Same
<1> QED
  BY <1>3, <1>5

-----------------------------------------------------------------------------
(* Surfaces and their native windows *)

\* Surfaces of an unlinked instance pass to the thread that destroys it.
LEMMA SurfaceOrphaned ==
  ASSUME TypeOK, InstInv, SurfaceInv, NEW t \in Threads, NEW h, NEW g, OfInstance(h, g),
         at[t] = "idle", instances' = Unlinked(h), surfaces' = surfaces,
         at'[t] = "di_surfaces", handle'[t] = h, gen'[t] = g, Moved(t)
  PROVE  SurfaceInv'
<1> SUFFICES ASSUME NEW s \in surfaces
             PROVE  \/ OfInstance(s.inst, s.gen)'
                    \/ \E u \in Threads : at'[u] = "di_surfaces" /\ handle'[u] = s.inst /\ gen'[u] = s.gen
  BY Zenon DEF SurfaceInv
<1>1. \A u \in Threads : u # t => Same(u)
  BY Zenon DEF Moved
<1>2. CASE ~OfInstance(s.inst, s.gen)
  <2>1. PICK u \in Threads : at[u] = "di_surfaces" /\ handle[u] = s.inst /\ gen[u] = s.gen
    BY <1>2, Zenon DEF SurfaceInv
  <2>2. Same(u)
    BY <1>1, <2>1, Zenon
  <2> QED
    BY <2>1, <2>2, Zenon DEF Same
<1>3. CASE OfInstance(s.inst, s.gen)
  <2>0. PICK e : e = [handle |-> s.inst, gen |-> s.gen]
    BY Zenon
  <2>1. e \in instances /\ e.handle = s.inst /\ e.gen = s.gen
    BY <1>3, <2>0, Zenon DEF OfInstance
  <2>2. (e.handle = h <=> e.gen = g) /\ (e \in instances' <=> e.gen # g)
    BY <2>1, UnlinkedExact, SMT
  <2>3. CASE s.gen = g
    BY <2>1, <2>2, <2>3, Zenon
  <2>4. CASE s.gen # g
    BY <2>0, <2>1, <2>2, <2>4, Zenon DEF OfInstance
  <2> QED
    BY <2>3, <2>4, Zenon
<1> QED
  BY <1>2, <1>3, Zenon

\* The surfaces that hybris_icd_wsi_release_instance() takes by handle value are
\* those of the instance being destroyed, not of a new one at the same value.
LEMMA OrphansExact ==
  ASSUME TypeOK, InstInv, InstThreads, SurfaceInv, NEW t \in Threads, at[t] = "di_surfaces"
  PROVE  \A s \in surfaces : s \in Orphans(handle[t]) <=> s.gen = gen[t]
<1>1. handle[t] \in Instances /\ drvInst[handle[t]] = gen[t] /\ gen[t] \in 1..nextInst /\ ~Live(gen[t])
  BY Zenon DEF InstThreads, OwnsInst, InstSteps
<1> SUFFICES ASSUME NEW s \in surfaces PROVE s.inst = handle[t] <=> s.gen = gen[t]
  BY Zenon DEF Orphans
<1>2. CASE OfInstance(s.inst, s.gen)
  <2> DEFINE e == [handle |-> s.inst, gen |-> s.gen]
  <2>1. e \in instances /\ e.handle = s.inst /\ e.gen = s.gen
    BY <1>2, Zenon DEF OfInstance
  <2>2. s.gen # gen[t] /\ drvInst[s.inst] = s.gen
    BY <1>1, <2>1, Zenon DEF Live, InstInv
  <2> QED
    BY <1>1, <2>2, Zenon
<1>3. CASE ~OfInstance(s.inst, s.gen)
  <2>1. PICK u \in Threads : at[u] = "di_surfaces" /\ handle[u] = s.inst /\ gen[u] = s.gen
    BY <1>3, Zenon DEF SurfaceInv
  <2>2. drvInst[handle[u]] = gen[u]
    BY <2>1, Zenon DEF InstThreads, OwnsInst
  <2>3. gen[u] = gen[t] => u = t
    BY <2>1, Zenon DEF InstThreads, InstSteps
  <2> QED
    BY <1>1, <2>1, <2>2, <2>3, Zenon
<1> QED
  BY <1>2, <1>3

\* The surfaces that thread takes are all of its instance, and no others.
LEMMA SurfaceReleased ==
  ASSUME TypeOK, InstInv, InstThreads, SurfaceInv, NEW t \in Threads, at[t] = "di_surfaces",
         surfaces' = surfaces \ Orphans(handle[t]), instances' = instances, Moved(t)
  PROVE  SurfaceInv'
<1> SUFFICES ASSUME NEW s \in surfaces, s \notin Orphans(handle[t])
             PROVE  \/ OfInstance(s.inst, s.gen)'
                    \/ \E u \in Threads : at'[u] = "di_surfaces" /\ handle'[u] = s.inst /\ gen'[u] = s.gen
  BY Zenon DEF SurfaceInv
<1>1. s.gen # gen[t]
  BY OrphansExact, Zenon
<1>2. \A u \in Threads : u # t => Same(u)
  BY Zenon DEF Moved
<1>3. CASE OfInstance(s.inst, s.gen)
  BY <1>3, Zenon DEF OfInstance
<1>4. CASE ~OfInstance(s.inst, s.gen)
  BY <1>1, <1>2, <1>4, SMT DEF SurfaceInv, Same
<1> QED
  BY <1>3, <1>4

\* A surface is listed under an instance that is still on the list.
LEMMA SurfaceListed ==
  ASSUME SurfaceInv, NEW t \in Threads, at[t] = "cs_insert", OfInstance(handle[t], gen[t]),
         surfaces' = surfaces \cup
           {[addr |-> s, inst |-> handle[t], gen |-> gen[t]] : s \in todo[t]},
         instances' = instances, Moved(t)
  PROVE  SurfaceInv'
<1> SUFFICES ASSUME NEW s \in surfaces'
             PROVE  \/ OfInstance(s.inst, s.gen)
                    \/ \E u \in Threads : at'[u] = "di_surfaces" /\ handle'[u] = s.inst /\ gen'[u] = s.gen
  BY Zenon DEF SurfaceInv, OfInstance
<1>1. \A u \in Threads : u # t => Same(u)
  BY Zenon DEF Moved
<1>2. CASE s \in surfaces
  BY <1>1, <1>2, SMT DEF SurfaceInv, Same
<1>3. CASE s \notin surfaces
  <2>1. s.inst = handle[t] /\ s.gen = gen[t]
    BY <1>3, SMTT(30)
  <2> QED
    BY <2>1, Zenon
<1> QED
  BY <1>2, <1>3

\* A window is made for a surface that has none.
LEMMA WindowMade ==
  ASSUME TypeOK, WindowInv, NEW t \in Threads, NEW s \in Surfaces, at[t] = "idle",
         s \notin windows, windows' = windows \cup {s}, surfaces' = surfaces,
         at'[t] = "cs_insert", todo'[t] = {s}, Moved(t)
  PROVE  WindowInv'
<1>1. \A u \in Threads : \A r : HasWindow(u, r)' <=> HasWindow(u, r) \/ (u = t /\ r = s)
  BY Zenon DEF Moved, Same, HasWindow
<1>2. /\ \A e \in surfaces : e.addr # s
      /\ \A u \in Threads : ~HasWindow(u, s)
  BY Zenon DEF WindowInv
<1>3. \A u \in Threads : \A r : HasWindow(u, r) => r \in todo[u]
  BY Zenon DEF HasWindow
<1> QED
  BY <1>1, <1>2, <1>3, ZenonT(30) DEF WindowInv

\* A window is destroyed by the one thread that has it.
LEMMA WindowGone ==
  ASSUME TypeOK, WindowInv, NEW t \in Threads, NEW gone, (\A r \in gone : HasWindow(t, r)),
         windows' = windows \ gone, surfaces' = surfaces, Moved(t),
         \A r : HasWindow(t, r)' <=> HasWindow(t, r) /\ r \notin gone
  PROVE  WindowInv'
<1>1. \A u \in Threads : \A r : HasWindow(u, r)' <=> HasWindow(u, r) /\ ~(u = t /\ r \in gone)
  BY Zenon DEF Moved, Same, HasWindow
<1>2. \A u \in Threads : \A r : HasWindow(u, r) => r \in todo[u]
  BY Zenon DEF HasWindow
<1>3. \A u \in Threads : \A r \in gone : r \in Surfaces /\ (HasWindow(u, r) => u = t)
  BY <1>2, Zenon DEF WindowInv
<1>4. \A e \in surfaces : e.addr \notin gone
  BY Zenon DEF WindowInv
<1> QED
  BY <1>1, <1>2, <1>3, <1>4, SMT DEF WindowInv

\* The window passes from the thread that made it to the new entry of the list.
LEMMA WindowListed ==
  ASSUME TypeOK, WindowInv, NEW t \in Threads, at[t] = "cs_insert",
         surfaces' = surfaces \cup
           {[addr |-> s, inst |-> handle[t], gen |-> gen[t]] : s \in todo[t]},
         windows' = windows, at'[t] = "idle", Moved(t)
  PROVE  WindowInv'
<1>1. \A u \in Threads : \A r : HasWindow(u, r)' <=> HasWindow(u, r) /\ u # t
  BY Zenon DEF Moved, Same, HasWindow
<1>2. \A u \in Threads : \A r : HasWindow(u, r) => r \in todo[u]
  BY Zenon DEF HasWindow
<1>3. \A r : HasWindow(t, r) <=> r \in todo[t]
  BY Zenon DEF HasWindow
<1>4. \A u \in Threads : \A r \in todo[t] : r \in Surfaces /\ (HasWindow(u, r) => u = t)
  BY <1>3, Zenon DEF WindowInv
<1>5. \A e \in surfaces : e.addr \notin todo[t]
  BY <1>3, Zenon DEF WindowInv
<1>6. /\ \A e \in surfaces' : e \in surfaces \/
           (e.addr \in todo[t] /\ e = [addr |-> e.addr, inst |-> handle[t], gen |-> gen[t]])
      /\ \A r \in todo[t] : \E e \in surfaces' : e.addr = r
  <2>1. ASSUME NEW r \in todo[t]
        PROVE  \E e \in surfaces' : e.addr = r
    <3>1. PICK n : n = [addr |-> r, inst |-> handle[t], gen |-> gen[t]]
      BY Zenon
    <3>2. n \in surfaces' /\ n.addr = r
      BY <3>1, Zenon
    <3> QED
      BY <3>2, Zenon
  <2>2. ASSUME NEW e \in surfaces', e \notin surfaces
        PROVE  e.addr \in todo[t] /\ e = [addr |-> e.addr, inst |-> handle[t], gen |-> gen[t]]
    <3>1. PICK r \in todo[t] : e = [addr |-> r, inst |-> handle[t], gen |-> gen[t]]
      BY <2>2, Zenon
    <3>2. e.addr = r
      BY <3>1, SMT
    <3> QED
      BY <3>1, <3>2, Zenon
  <2> QED
    BY <2>1, <2>2, Zenon
<1>7. \A e, f \in surfaces' : e.addr = f.addr => e = f
  BY <1>5, <1>6, SMT DEF WindowInv
<1>8. \A u \in Threads, e \in surfaces' : ~HasWindow(u, e.addr)'
  BY <1>1, <1>4, <1>6, Zenon DEF WindowInv
<1>9. \A s \in Surfaces :
        s \in windows <=> (\E e \in surfaces' : e.addr = s) \/ \E u \in Threads : HasWindow(u, s)'
  <2> SUFFICES ASSUME NEW s \in Surfaces
               PROVE  s \in windows <=>
                        (\E e \in surfaces' : e.addr = s) \/ \E u \in Threads : HasWindow(u, s)'
    BY Zenon
  <2>1. s \in windows <=> (\E e \in surfaces : e.addr = s) \/ \E u \in Threads : HasWindow(u, s)
    BY Zenon DEF WindowInv
  <2>2. surfaces \subseteq surfaces'
    BY Zenon
  <2>3. s \in todo[t] => s \in windows
    BY <1>3, <2>1, Zenon
  <2> QED
    BY <1>1, <1>3, <1>6, <2>1, <2>2, <2>3, ZenonT(30)
<1>10. /\ \A u, v \in Threads, s \in Surfaces : HasWindow(u, s)' /\ HasWindow(v, s)' => u = v
       /\ \A u \in Threads : \A s : HasWindow(u, s)' => s \in Surfaces
  BY <1>1, <1>2, Zenon DEF WindowInv
<1> QED
  BY <1>7, <1>8, <1>9, <1>10, Zenon DEF WindowInv

\* Entries leave the list and their windows go to the thread that unlinked them.
LEMMA WindowUnlinked ==
  ASSUME TypeOK, WindowInv, NEW t \in Threads, NEW out \in SUBSET surfaces,
         surfaces' = surfaces \ out, windows' = windows, (\A r : ~HasWindow(t, r)),
         at'[t] \in {"ds_window", "di_windows"}, todo'[t] = {e.addr : e \in out}, Moved(t)
  PROVE  WindowInv'
<1>1. \A u \in Threads : \A r :
        HasWindow(u, r)' <=> HasWindow(u, r) \/ (u = t /\ \E e \in out : e.addr = r)
  BY SMT DEF Moved, Same, HasWindow
<1>2. \A u \in Threads : \A r : HasWindow(u, r) => r \in todo[u]
  BY ZenonT(30) DEF HasWindow
<1>3. \A e \in surfaces : e.addr \in Surfaces
  BY Zenon DEF TypeOK
<1>4. \A e, f \in surfaces' : e.addr = f.addr => e = f
  BY ZenonT(30) DEF WindowInv
<1>5. \A u, v \in Threads, s \in Surfaces : HasWindow(u, s)' /\ HasWindow(v, s)' => u = v
  BY <1>1, SMTT(30) DEF WindowInv
<1>6. \A u \in Threads, e \in surfaces' : ~HasWindow(u, e.addr)'
  BY <1>1, SMT DEF WindowInv
<1>7. \A s \in Surfaces :
        s \in windows <=> (\E e \in surfaces' : e.addr = s) \/ \E u \in Threads : HasWindow(u, s)'
  BY <1>1, Zenon DEF WindowInv
<1>8. \A u \in Threads : \A s : HasWindow(u, s)' => s \in Surfaces
  BY <1>1, <1>2, <1>3, SMT DEF WindowInv
<1> QED
  BY <1>4, <1>5, <1>6, <1>7, <1>8, Zenon DEF WindowInv

-----------------------------------------------------------------------------
(* Swapchains *)

\* After destroy_device() released the swapchains none is left of the device.
LEMMA ChainsReleased ==
  ASSUME ChainInv, NEW t \in Threads, NEW d, chains' = chains \ ReleasedChains(d),
         devices' = devices, surfaces' = surfaces, handle'[t] = d, Moved(t)
  PROVE  ChainInv'
<1>1. \A u \in Threads : u # t => Same(u)
  BY Zenon DEF Moved
<1> QED
  BY <1>1, SMT DEF ChainInv, MadeFor, Same, ReleasedChains

\* The device that leaves the list has no swapchain.
LEMMA ChainsKeepDevice ==
  ASSUME ChainInv, NEW t \in Threads, at[t] = "dd_unlink",
         devices' = {d \in devices : d.handle # handle[t]}, surfaces' = surfaces,
         chains' = chains, at'[t] = "dd_driver", Moved(t)
  PROVE  ChainInv'
<1>1. \A u \in Threads : u # t => Same(u)
  BY Zenon DEF Moved
<1> QED
  BY <1>1, SMT DEF ChainInv, MadeFor, Same

\* Surfaces without swapchains may leave the list.
LEMMA ChainsKeepSurface ==
  ASSUME ChainInv, NEW t \in Threads, NEW out, surfaces' = surfaces \ out,
         (\A c \in chains, d \in devices, s \in out : ~MadeFor(c, d, s)),
         devices' = devices, chains' = chains, at'[t] # "dd_unlink", Moved(t)
  PROVE  ChainInv'
<1>1. \A u \in Threads : u # t => Same(u)
  BY Zenon DEF Moved
<1> QED
  BY <1>1, SMT DEF ChainInv, Same

-----------------------------------------------------------------------------
(* The parts a step leaves alone, together *)

\* The instances' part over a step that does not concern it.
LEMMA KeepInstances ==
  ASSUME InstPart, drvInst' = drvInst, drvPhys' = drvPhys, instances' = instances,
         remembered' = remembered, nextInst' = nextInst,
         NEW t \in Threads, Moved(t), KeepsInst(t), KeepsUser(t), KeepsPhys(t)
  PROVE  InstPart'
<1>1. InstInv' /\ InstThreads'
  BY FrameInst, Zenon DEF InstPart
<1>2. UserInv'
  BY FrameUser, Zenon DEF InstPart
<1>3. PhysInv'
  BY FramePhys, Zenon DEF InstPart
<1> QED
  BY <1>1, <1>2, <1>3, Zenon DEF InstPart

\* The devices' part over a step that does not concern it.
LEMMA KeepDevices ==
  ASSUME DevPart, drvDev' = drvDev, devices' = devices, nextDev' = nextDev,
         instances \subseteq instances', NEW t \in Threads, Moved(t), KeepsDev(t), KeepsParent(t)
  PROVE  DevPart'
<1>1. DevInv' /\ DevThreads'
  BY FrameDev, Zenon DEF DevPart
<1>2. ParentInv'
  BY FrameParent, Zenon DEF DevPart
<1> QED
  BY <1>1, <1>2, Zenon DEF DevPart

\* The surfaces' part over a step that does not concern it.
LEMMA KeepSurfaces ==
  ASSUME SurfPart, surfaces' = surfaces, windows' = windows, chains' = chains,
         devices \subseteq devices', instances \subseteq instances',
         NEW t \in Threads, Moved(t), KeepsWindows(t), KeepsSurface(t), KeepsChain(t)
  PROVE  SurfPart'
<1>1. WindowInv'
  BY FrameWindow, Zenon DEF SurfPart
<1>2. SurfaceInv'
  BY FrameSurface, Zenon DEF SurfPart
<1>3. ChainInv'
  BY FrameChain, Zenon DEF SurfPart
<1> QED
  BY <1>1, <1>2, <1>3, Zenon DEF SurfPart

-----------------------------------------------------------------------------
(* Every step keeps the invariant: instances *)

\* The driver's vkDestroyInstance() clears handles and invents none.
LEMMA DriverGoneTyped ==
  ASSUME TypeOK, NEW g, DriverDestroyInstance(g)
  PROVE  drvInst' \in [Instances -> Gens] /\ drvPhys' \in [Physicals -> Gens]
<1>1. 0 \in Gens
  BY GenAssumption, SMT DEF Gens
<1> QED
  BY <1>1, Zenon DEF TypeOK, DriverDestroyInstance

\* create_instance() reserves its generation.
LEMMA CreateInstanceStep ==
  ASSUME IInv, NEW t \in Threads, CreateInstance(t)
  PROVE  IInv'
<1>1. /\ at[t] = "idle" /\ ~Exhausted(nextInst) /\ nextInst' = nextInst + 1
      /\ drvInst' = drvInst /\ drvPhys' = drvPhys /\ drvDev' = drvDev
      /\ instances' = instances /\ remembered' = remembered /\ devices' = devices
      /\ nextDev' = nextDev /\ surfaces' = surfaces /\ windows' = windows /\ chains' = chains
  BY Zenon DEF CreateInstance, driverVars, instVars, devVars, surfVars
<1>2. /\ at'[t] = "ci_driver" /\ handle'[t] = Nothing /\ gen'[t] = nextInst + 1
      /\ todo'[t] = {} /\ Moved(t) /\ Domains' /\ gen' \in [Threads -> Gens]
  <2>1. nextInst + 1 \in Gens
    BY <1>1, GenAssumption, SMT DEF IInv, TypeOK, Gens, Exhausted
  <2>2. Go(t, "ci_driver", Nothing, nextInst + 1, {})
    BY Zenon DEF CreateInstance
  <2> QED
    BY <2>1, <2>2, Goes, Zenon
<1>3. /\ KeepsUser(t) /\ KeepsDev(t) /\ KeepsParent(t) /\ KeepsSurface(t) /\ KeepsChain(t)
  <2>1. /\ at[t] = "idle" /\ at'[t] = "ci_driver"
    BY <1>1, <1>2, Zenon
  <2> QED
    BY <2>1, Zenon DEF KeepsUser, UsesInst, KeepsDev, OwnsDev, DevSteps, KeepsParent, KeepsSurface, KeepsChain
<1>4. KeepsWindows(t)
  BY <1>1, <1>2, Zenon DEF KeepsWindows, HasWindow
<1>5. InstInv' /\ InstThreads'
  BY <1>1, <1>2, InstReserve, Zenon DEF IInv, InstPart
<1>6. UserInv'
  BY <1>1, <1>2, <1>3, FrameUser, Zenon DEF IInv, InstPart
<1>7. PhysInv'
  BY <1>1, <1>2, PhysReserve, Zenon DEF IInv, InstPart
<1>8. InstPart'
  BY <1>5, <1>6, <1>7, Zenon DEF InstPart
<1>9. DevPart'
  BY <1>1, <1>2, <1>3, KeepDevices, Zenon DEF IInv
<1>10. SurfPart'
  BY <1>1, <1>2, <1>3, <1>4, KeepSurfaces, Zenon DEF IInv
<1>11. TypeOK'
  <2>1. nextInst' \in Gens
    BY <1>1, GenAssumption, SMT DEF IInv, TypeOK, Gens, Exhausted
  <2> QED
    BY <1>1, <1>2, <2>1, Zenon DEF IInv, TypeOK
<1> QED
  BY <1>2, <1>8, <1>9, <1>10, <1>11, Zenon DEF IInv

\* The two ends of an instance: a refused creation and destroy_instance().
LEMMA InstanceGoneStep ==
  ASSUME IInv, NEW t \in Threads, at[t] \in {"ci_insert", "di_windows"}, (at[t] = "di_windows" => todo[t] = {}),
         at[t] = "ci_insert" => remembered' = remembered,
         at[t] = "di_windows" => remembered' = [remembered EXCEPT ![gen[t]] = [p \in Physicals |-> 0]],
         DriverDestroyInstance(gen[t]), Return(t),
         UNCHANGED <<drvDev, instances, nextInst, devVars, surfVars, chains>>
  PROVE  IInv'
<1>1. /\ at[t] \in OwnsInst /\ drvDev' = drvDev /\ instances' = instances
      /\ nextInst' = nextInst /\ devices' = devices /\ nextDev' = nextDev
      /\ surfaces' = surfaces /\ windows' = windows /\ chains' = chains
  BY Zenon DEF driverVars, instVars, devVars, surfVars, OwnsInst
<1>2. at'[t] = "idle" /\ Moved(t) /\ Domains' /\ gen' \in [Threads -> Gens]
  BY Returns, Zenon
<1>3. /\ KeepsUser(t) /\ KeepsDev(t) /\ KeepsParent(t) /\ KeepsSurface(t) /\ KeepsChain(t)
  <2>1. /\ at[t] \in {"ci_insert", "di_windows"} /\ at'[t] = "idle"
    BY <1>1, <1>2, Zenon
  <2> QED
    BY <2>1, Zenon DEF KeepsUser, UsesInst, KeepsDev, OwnsDev, DevSteps, KeepsParent, KeepsSurface, KeepsChain
<1>4. KeepsWindows(t)
  BY <1>1, <1>2, Zenon DEF KeepsWindows, HasWindow
<1>5. InstInv' /\ InstThreads'
  BY <1>1, <1>2, InstGone, Zenon DEF IInv, InstPart
<1>6. UserInv'
  BY <1>1, <1>2, <1>3, FrameUser, Zenon DEF IInv, InstPart
<1>7. PhysInv'
  <2>1. \A g \in Gens, p \in Physicals :
          remembered'[g][p] = IF g = gen[t] THEN 0 ELSE remembered[g][p]
    <3>1. CASE at[t] = "ci_insert"
      <4>1. \A p \in Physicals : remembered[gen[t]][p] = 0
        BY <3>1, Zenon DEF IInv, InstPart, PhysInv
      <4> QED
        BY <3>1, <4>1, Zenon
    <3>2. CASE at[t] = "di_windows"
      BY <3>2, SMT DEF IInv, TypeOK
    <3> QED
      BY <3>1, <3>2, Zenon
  <2> QED
    BY <1>1, <1>2, <2>1, PhysGone, Zenon DEF IInv, InstPart
<1>8. InstPart'
  BY <1>5, <1>6, <1>7, Zenon DEF InstPart
<1>9. DevPart'
  BY <1>1, <1>2, <1>3, KeepDevices, Zenon DEF IInv
<1>10. SurfPart'
  BY <1>1, <1>2, <1>3, <1>4, KeepSurfaces, Zenon DEF IInv
<1>11. TypeOK'
  <2>1. drvInst' \in [Instances -> Gens] /\ drvPhys' \in [Physicals -> Gens]
    BY DriverGoneTyped, ZenonT(30) DEF IInv
  <2>2. remembered' \in [Gens -> [Physicals -> Nat]]
    BY SMT DEF IInv, TypeOK
  <2> QED
    BY <1>1, <1>2, <2>1, <2>2, Zenon DEF IInv, TypeOK
<1> QED
  BY <1>2, <1>8, <1>9, <1>10, <1>11, Zenon DEF IInv

\* The driver has made the instance, with a handle that had no object.
LEMMA InstanceMadeStep ==
  ASSUME IInv, NEW t \in Threads, NEW h \in Instances, NEW p \in Physicals, at[t] = "ci_driver",
         drvInst[h] = 0, drvPhys[p] = 0, drvInst' = [drvInst EXCEPT ![h] = gen[t]],
         drvPhys' = [drvPhys EXCEPT ![p] = gen[t]], Go(t, "ci_insert", h, gen[t], {}),
         UNCHANGED <<drvDev, instVars, devVars, surfVars, chains>>
  PROVE  IInv'
<1>1. /\ drvDev' = drvDev /\ instances' = instances /\ remembered' = remembered
      /\ nextInst' = nextInst /\ devices' = devices /\ nextDev' = nextDev
      /\ surfaces' = surfaces /\ windows' = windows /\ chains' = chains
  BY Zenon DEF driverVars, instVars, devVars, surfVars
<1>2. /\ at'[t] = "ci_insert" /\ handle'[t] = h /\ gen'[t] = gen[t]
      /\ todo'[t] = {} /\ Moved(t) /\ Domains' /\ gen' \in [Threads -> Gens]
  <2>1. gen[t] \in Gens
    BY ZenonT(30) DEF IInv, TypeOK
  <2>2. Go(t, "ci_insert", h, gen[t], {})
    BY Zenon
  <2> QED
    BY <2>1, <2>2, Goes, Zenon
<1>3. /\ KeepsUser(t) /\ KeepsDev(t) /\ KeepsParent(t) /\ KeepsSurface(t) /\ KeepsChain(t)
  <2>1. /\ at[t] = "ci_driver" /\ at'[t] = "ci_insert"
    BY <1>1, <1>2, Zenon
  <2> QED
    BY <2>1, Zenon DEF KeepsUser, UsesInst, KeepsDev, OwnsDev, DevSteps, KeepsParent, KeepsSurface, KeepsChain
<1>4. KeepsWindows(t)
  BY <1>1, <1>2, Zenon DEF KeepsWindows, HasWindow
<1>5. InstInv' /\ InstThreads'
  BY <1>1, <1>2, InstMade, Zenon DEF IInv, InstPart
<1>6. UserInv'
  BY <1>1, <1>2, <1>3, FrameUser, Zenon DEF IInv, InstPart
<1>7. PhysInv'
  BY <1>1, <1>2, PhysMade, Zenon DEF IInv, InstPart
<1>8. InstPart'
  BY <1>5, <1>6, <1>7, Zenon DEF InstPart
<1>9. DevPart'
  BY <1>1, <1>2, <1>3, KeepDevices, Zenon DEF IInv
<1>10. SurfPart'
  BY <1>1, <1>2, <1>3, <1>4, KeepSurfaces, Zenon DEF IInv
<1>11. TypeOK'
  <2>1. drvInst' \in [Instances -> Gens] /\ drvPhys' \in [Physicals -> Gens]
    BY Zenon DEF IInv, TypeOK
  <2> QED
    BY <1>1, <1>2, <2>1, Zenon DEF IInv, TypeOK
<1> QED
  BY <1>2, <1>8, <1>9, <1>10, <1>11, Zenon DEF IInv

\* create_instance() puts its entry on the list.
LEMMA CreateInstanceInsertStep ==
  ASSUME IInv, NEW t \in Threads, CreateInstanceInsert(t)
  PROVE  IInv'
<1>1. /\ at[t] = "ci_insert"
      /\ instances' = instances \cup {[handle |-> handle[t], gen |-> gen[t]]}
      /\ instances \subseteq instances' /\ drvInst' = drvInst /\ drvPhys' = drvPhys
      /\ drvDev' = drvDev /\ remembered' = remembered /\ nextInst' = nextInst
      /\ devices' = devices /\ nextDev' = nextDev /\ surfaces' = surfaces
      /\ windows' = windows /\ chains' = chains
  BY Zenon DEF CreateInstanceInsert, driverVars, instVars, devVars, surfVars
<1>2. at'[t] = "idle" /\ Moved(t) /\ Domains' /\ gen' \in [Threads -> Gens]
  BY Returns, Zenon DEF CreateInstanceInsert
<1>3. /\ KeepsUser(t) /\ KeepsPhys(t) /\ KeepsDev(t) /\ KeepsParent(t) /\ KeepsSurface(t)
      /\ KeepsChain(t)
  <2>1. /\ at[t] = "ci_insert" /\ at'[t] = "idle"
    BY <1>1, <1>2, Zenon
  <2> QED
    BY <2>1, Zenon DEF KeepsUser, UsesInst, KeepsPhys, KeepsDev, OwnsDev, DevSteps, KeepsParent, KeepsSurface, KeepsChain
<1>4. KeepsWindows(t)
  BY <1>1, <1>2, Zenon DEF KeepsWindows, HasWindow
<1>5. InstInv' /\ InstThreads'
  BY <1>1, <1>2, InstListed, Zenon DEF IInv, InstPart
<1>6. UserInv'
  BY <1>1, <1>2, <1>3, FrameUser, Zenon DEF IInv, InstPart
<1>7. PhysInv'
  BY <1>1, <1>2, <1>3, FramePhys, Zenon DEF IInv, InstPart
<1>8. InstPart'
  BY <1>5, <1>6, <1>7, Zenon DEF InstPart
<1>9. DevPart'
  BY <1>1, <1>2, <1>3, KeepDevices, Zenon DEF IInv
<1>10. SurfPart'
  BY <1>1, <1>2, <1>3, <1>4, KeepSurfaces, Zenon DEF IInv
<1>11. TypeOK'
  <2>1. [handle |-> handle[t], gen |-> gen[t]] \in [handle : Instances, gen : Gens]
    BY <1>1, Zenon DEF IInv, InstPart, InstThreads, OwnsInst, TypeOK
  <2>2. instances' \subseteq [handle : Instances, gen : Gens]
    BY <1>1, <2>1, Zenon DEF IInv, TypeOK
  <2> QED
    BY <1>1, <1>2, <2>2, Zenon DEF IInv, TypeOK
<1> QED
  BY <1>2, <1>8, <1>9, <1>10, <1>11, Zenon DEF IInv

\* destroy_instance() takes the entry off the list.
LEMMA DestroyInstanceStep ==
  ASSUME IInv, NEW t \in Threads, NEW e \in instances, DestroyInstance(t, e.handle, e.gen)
  PROVE  IInv'
<1>1. /\ at[t] = "idle" /\ OfInstance(e.handle, e.gen) /\ ~Using(e.handle)
      /\ (\A d \in devices : d.inst # e.gen)
      /\ (\A u \in Threads : at[u] \in {"cd_driver", "cd_insert", "dd_driver"} => e.gen \notin todo[u])
      /\ instances' = Unlinked(e.handle) /\ drvInst' = drvInst /\ drvPhys' = drvPhys
      /\ drvDev' = drvDev /\ remembered' = remembered /\ nextInst' = nextInst
      /\ devices' = devices /\ nextDev' = nextDev /\ surfaces' = surfaces
      /\ windows' = windows /\ chains' = chains
  BY ZenonT(30) DEF DestroyInstance, driverVars, instVars, devVars, surfVars
<1>2. /\ at'[t] = "di_surfaces" /\ handle'[t] = e.handle /\ gen'[t] = e.gen
      /\ todo'[t] = {} /\ Moved(t) /\ Domains' /\ gen' \in [Threads -> Gens]
  <2>1. e.gen \in Gens
    BY SMT DEF IInv, TypeOK
  <2>2. Go(t, "di_surfaces", e.handle, e.gen, {})
    BY Zenon DEF DestroyInstance
  <2> QED
    BY <2>1, <2>2, Goes, Zenon
<1>3. /\ KeepsPhys(t) /\ KeepsDev(t) /\ KeepsChain(t)
  <2>1. /\ at[t] = "idle" /\ at'[t] = "di_surfaces"
    BY <1>1, <1>2, Zenon
  <2> QED
    BY <2>1, Zenon DEF KeepsPhys, KeepsDev, OwnsDev, DevSteps, KeepsChain
<1>4. KeepsWindows(t)
  BY <1>1, <1>2, Zenon DEF KeepsWindows, HasWindow
<1>5. InstInv' /\ InstThreads'
  BY <1>1, <1>2, InstUnlinked, Zenon DEF IInv, InstPart
<1>6. UserInv'
  BY <1>1, <1>2, InstUnused, Zenon DEF IInv, InstPart, DevPart
<1>7. PhysInv'
  BY <1>1, <1>2, <1>3, FramePhys, Zenon DEF IInv, InstPart
<1>8. InstPart'
  BY <1>5, <1>6, <1>7, Zenon DEF InstPart
<1>9. DevInv' /\ DevThreads'
  BY <1>1, <1>2, <1>3, FrameDev, Zenon DEF IInv, DevPart
<1>10. ParentInv'
  BY <1>1, <1>2, InstUnused, Zenon DEF IInv, InstPart, DevPart
<1>11. DevPart'
  BY <1>9, <1>10, Zenon DEF DevPart
<1>12. WindowInv'
  BY <1>1, <1>2, <1>4, FrameWindow, Zenon DEF IInv, SurfPart
<1>13. SurfaceInv'
  BY <1>1, <1>2, SurfaceOrphaned, Zenon DEF IInv, InstPart, SurfPart
<1>14. ChainInv'
  BY <1>1, <1>2, <1>3, FrameChain, Zenon DEF IInv, SurfPart
<1>15. SurfPart'
  BY <1>12, <1>13, <1>14, Zenon DEF SurfPart
<1>16. TypeOK'
  <2>1. instances' \subseteq instances
    BY <1>1, Zenon DEF Unlinked
  <2> QED
    BY <1>1, <1>2, <2>1, Zenon DEF IInv, TypeOK
<1> QED
  BY <1>2, <1>8, <1>11, <1>15, <1>16, Zenon DEF IInv

\* destroy_instance() takes the surfaces of the instance off their list.
LEMMA DestroyInstanceSurfacesStep ==
  ASSUME IInv, NEW t \in Threads, DestroyInstanceSurfaces(t)
  PROVE  IInv'
<1>1. /\ at[t] = "di_surfaces" /\ surfaces' = surfaces \ Orphans(handle[t])
      /\ drvInst' = drvInst /\ drvPhys' = drvPhys /\ drvDev' = drvDev
      /\ instances' = instances /\ remembered' = remembered /\ nextInst' = nextInst
      /\ devices' = devices /\ nextDev' = nextDev /\ windows' = windows /\ chains' = chains
  BY Zenon DEF DestroyInstanceSurfaces, driverVars, instVars, devVars, surfVars, Others
<1>2. /\ at'[t] = "di_windows" /\ handle'[t] = handle[t] /\ gen'[t] = gen[t]
      /\ todo'[t] = {s.addr : s \in Orphans(handle[t])} /\ Moved(t) /\ Domains' /\ gen' \in [Threads -> Gens]
  BY GoesOn, Zenon DEF DestroyInstanceSurfaces
<1>3. /\ KeepsInst(t) /\ KeepsUser(t) /\ KeepsPhys(t) /\ KeepsDev(t) /\ KeepsParent(t)
  <2>1. /\ at[t] = "di_surfaces" /\ at'[t] = "di_windows" /\ handle'[t] = handle[t]
        /\ gen'[t] = gen[t]
    BY <1>1, <1>2, Zenon
  <2> QED
    BY <2>1, Zenon DEF KeepsInst, OwnsInst, InstSteps, KeepsUser, UsesInst, KeepsPhys, KeepsDev, OwnsDev, DevSteps, KeepsParent
<1>4. InstPart'
  BY <1>1, <1>2, <1>3, KeepInstances, Zenon DEF IInv
<1>5. DevPart'
  BY <1>1, <1>2, <1>3, KeepDevices, Zenon DEF IInv
<1>6. WindowInv'
  <2>1. Orphans(handle[t]) \in SUBSET surfaces
    BY Zenon DEF Orphans
  <2>2. \A r : ~HasWindow(t, r)
    BY <1>1, Zenon DEF HasWindow
  <2> QED
    BY <1>1, <1>2, <2>1, <2>2, WindowUnlinked, Zenon DEF IInv, SurfPart
<1>7. SurfaceInv'
  BY <1>1, <1>2, SurfaceReleased, ZenonT(30) DEF IInv, InstPart, SurfPart
<1>8. ChainInv'
  <2>1. ~Live(gen[t])
    BY <1>1, Zenon DEF IInv, InstPart, InstThreads, InstSteps
  <2>2. \A s \in Orphans(handle[t]) : s.gen = gen[t]
    BY <1>1, OrphansExact, Zenon DEF IInv, InstPart, SurfPart, Orphans
  <2>3. \A c \in chains, d \in devices, s \in Orphans(handle[t]) : ~MadeFor(c, d, s)
    BY <2>1, <2>2, Zenon DEF IInv, DevPart, ParentInv, MadeFor
  <2>4. at'[t] # "dd_unlink"
    BY <1>2, Zenon
  <2> QED
    BY <1>1, <1>2, <2>3, <2>4, ChainsKeepSurface, Zenon DEF IInv, SurfPart
<1>9. SurfPart'
  BY <1>6, <1>7, <1>8, Zenon DEF SurfPart
<1>10. TypeOK'
  BY <1>1, <1>2, Zenon DEF IInv, TypeOK
<1> QED
  BY <1>2, <1>4, <1>5, <1>9, <1>10, Zenon DEF IInv

\* destroy_instance() destroys one of the windows it took.
LEMMA DestroyInstanceWindowStep ==
  ASSUME IInv, NEW t \in Threads, NEW s \in todo[t], at[t] = "di_windows",
         windows' = windows \ {s}, UNCHANGED <<driverVars, instVars, devVars, surfaces, chains>>,
         Go(t, "di_windows", handle[t], gen[t], todo[t] \ {s})
  PROVE  IInv'
<1>1. /\ drvInst' = drvInst /\ drvPhys' = drvPhys /\ drvDev' = drvDev
      /\ instances' = instances /\ remembered' = remembered /\ nextInst' = nextInst
      /\ devices' = devices /\ nextDev' = nextDev /\ surfaces' = surfaces /\ chains' = chains
  BY Zenon DEF driverVars, instVars, devVars, surfVars
<1>2. /\ at'[t] = "di_windows" /\ handle'[t] = handle[t] /\ gen'[t] = gen[t]
      /\ todo'[t] = todo[t] \ {s} /\ Moved(t) /\ Domains' /\ gen' \in [Threads -> Gens]
  BY GoesOn, Zenon
<1>3. /\ KeepsInst(t) /\ KeepsUser(t) /\ KeepsPhys(t) /\ KeepsDev(t) /\ KeepsParent(t)
      /\ KeepsSurface(t) /\ KeepsChain(t)
  <2>1. /\ at[t] = "di_windows" /\ at'[t] = "di_windows" /\ handle'[t] = handle[t]
        /\ gen'[t] = gen[t] /\ todo'[t] \subseteq todo[t]
    BY <1>1, <1>2, Zenon
  <2> QED
    BY <2>1, Zenon DEF KeepsInst, OwnsInst, InstSteps, KeepsUser, UsesInst, KeepsPhys, KeepsDev, OwnsDev, DevSteps, KeepsParent, KeepsSurface, KeepsChain
<1>4. InstPart'
  BY <1>1, <1>2, <1>3, KeepInstances, Zenon DEF IInv
<1>5. DevPart'
  BY <1>1, <1>2, <1>3, KeepDevices, Zenon DEF IInv
<1>6. WindowInv'
  <2>1. \A r \in {s} : HasWindow(t, r)
    BY Zenon DEF HasWindow
  <2>2. \A r : HasWindow(t, r)' <=> HasWindow(t, r) /\ r \notin {s}
    BY <1>2, Zenon DEF HasWindow
  <2> QED
    BY <1>1, <1>2, <2>1, <2>2, WindowGone, Zenon DEF IInv, SurfPart
<1>7. SurfaceInv'
  BY <1>1, <1>2, <1>3, FrameSurface, Zenon DEF IInv, SurfPart
<1>8. ChainInv'
  BY <1>1, <1>2, <1>3, FrameChain, Zenon DEF IInv, SurfPart
<1>9. SurfPart'
  BY <1>6, <1>7, <1>8, Zenon DEF SurfPart
<1>10. TypeOK'
  BY <1>1, <1>2, Zenon DEF IInv, TypeOK
<1> QED
  BY <1>2, <1>4, <1>5, <1>9, <1>10, Zenon DEF IInv

\* enumerate_physical_devices() has the driver's answer.
LEMMA EnumerateStep ==
  ASSUME IInv, NEW t \in Threads, NEW e \in instances, Enumerate(t, e.handle, e.gen)
  PROVE  IInv'
<1>1. /\ at[t] = "idle" /\ OfInstance(e.handle, e.gen) /\ drvInst' = drvInst
      /\ drvPhys' = drvPhys /\ drvDev' = drvDev /\ instances' = instances
      /\ remembered' = remembered /\ nextInst' = nextInst /\ devices' = devices
      /\ nextDev' = nextDev /\ surfaces' = surfaces /\ windows' = windows /\ chains' = chains
  BY ZenonT(30) DEF Enumerate, driverVars, instVars, devVars, surfVars
<1>2. /\ at'[t] = "rp_check" /\ handle'[t] = e.handle /\ gen'[t] = e.gen
      /\ todo'[t] = {p \in Physicals : drvPhys[p] = e.gen} /\ Moved(t) /\ Domains' /\ gen' \in [Threads -> Gens]
  <2>1. e.gen \in Gens
    BY SMT DEF IInv, TypeOK
  <2> DEFINE found == {p \in Physicals : drvPhys[p] = e.gen}
  <2>2. Go(t, "rp_check", e.handle, e.gen, found)
    BY Zenon DEF Enumerate
  <2> HIDE DEF found
  <2>3. /\ at'[t] = "rp_check" /\ handle'[t] = e.handle /\ gen'[t] = e.gen
        /\ todo'[t] = found /\ Moved(t) /\ Domains' /\ gen' \in [Threads -> Gens]
    BY <2>1, <2>2, Goes, ZenonT(30)
  <2> QED
    BY <2>3, Zenon DEF found
<1>3. /\ KeepsInst(t) /\ KeepsDev(t) /\ KeepsParent(t) /\ KeepsSurface(t) /\ KeepsChain(t)
  <2>1. /\ at[t] = "idle" /\ at'[t] = "rp_check"
    BY <1>1, <1>2, Zenon
  <2> QED
    BY <2>1, Zenon DEF KeepsInst, OwnsInst, InstSteps, KeepsDev, OwnsDev, DevSteps, KeepsParent, KeepsSurface, KeepsChain
<1>4. KeepsWindows(t)
  BY <1>1, <1>2, Zenon DEF KeepsWindows, HasWindow
<1>5. InstInv' /\ InstThreads'
  BY <1>1, <1>2, <1>3, FrameInst, Zenon DEF IInv, InstPart
<1>6. UserInv'
  BY <1>1, <1>2, UserStarts, Zenon DEF IInv, InstPart
<1>7. PhysInv'
  BY <1>1, <1>2, PhysListing, Zenon DEF IInv, InstPart
<1>8. InstPart'
  BY <1>5, <1>6, <1>7, Zenon DEF InstPart
<1>9. DevPart'
  BY <1>1, <1>2, <1>3, KeepDevices, Zenon DEF IInv
<1>10. SurfPart'
  BY <1>1, <1>2, <1>3, <1>4, KeepSurfaces, Zenon DEF IInv
<1>11. TypeOK'
  BY <1>1, <1>2, Zenon DEF IInv, TypeOK
<1> QED
  BY <1>2, <1>8, <1>9, <1>10, <1>11, Zenon DEF IInv

\* The first check of remember_physical(), under the lock it then drops.
LEMMA RememberGoesOn ==
  ASSUME IInv, NEW t \in Threads, NEW s \in {"rp_check", "rp_insert"},
         NEW rest \in SUBSET todo[t], at[t] = "rp_check", Go(t, s, handle[t], gen[t], rest),
         UNCHANGED <<driverVars, instVars, devVars, surfVars, chains>>
  PROVE  IInv'
<1>1. /\ drvInst' = drvInst /\ drvPhys' = drvPhys /\ drvDev' = drvDev
      /\ instances' = instances /\ remembered' = remembered /\ nextInst' = nextInst
      /\ devices' = devices /\ nextDev' = nextDev /\ surfaces' = surfaces
      /\ windows' = windows /\ chains' = chains
  BY Zenon DEF driverVars, instVars, devVars, surfVars
<1>2. /\ at'[t] = s /\ handle'[t] = handle[t] /\ gen'[t] = gen[t]
      /\ todo'[t] = rest /\ Moved(t) /\ Domains' /\ gen' \in [Threads -> Gens]
  BY GoesOn, Zenon
<1>3. /\ KeepsInst(t) /\ KeepsUser(t) /\ KeepsPhys(t) /\ KeepsDev(t) /\ KeepsParent(t)
      /\ KeepsSurface(t) /\ KeepsChain(t)
  <2>1. /\ at[t] = "rp_check" /\ at'[t] \in {"rp_check", "rp_insert"} /\ handle'[t] = handle[t]
        /\ gen'[t] = gen[t] /\ todo'[t] \subseteq todo[t]
    BY <1>1, <1>2, Zenon
  <2> QED
    BY <2>1, Zenon DEF KeepsInst, OwnsInst, InstSteps, KeepsUser, UsesInst, KeepsPhys, KeepsDev, OwnsDev, DevSteps, KeepsParent, KeepsSurface, KeepsChain
<1>4. KeepsWindows(t)
  BY <1>1, <1>2, Zenon DEF KeepsWindows, HasWindow
<1>5. InstPart'
  BY <1>1, <1>2, <1>3, KeepInstances, Zenon DEF IInv
<1>6. DevPart'
  BY <1>1, <1>2, <1>3, KeepDevices, Zenon DEF IInv
<1>7. SurfPart'
  BY <1>1, <1>2, <1>3, <1>4, KeepSurfaces, Zenon DEF IInv
<1>8. TypeOK'
  BY <1>1, <1>2, Zenon DEF IInv, TypeOK
<1> QED
  BY <1>2, <1>5, <1>6, <1>7, <1>8, Zenon DEF IInv

\* A call that fails before it has made anything leaves everything as it was.
LEMMA CallFails ==
  ASSUME IInv, NEW t \in Threads, at[t] \in {"ci_driver", "rp_check", "cd_driver"}, Return(t), UNCHANGED <<driverVars, instVars, devVars, surfVars, chains>>
  PROVE  IInv'
<1>1. /\ drvInst' = drvInst /\ drvPhys' = drvPhys /\ drvDev' = drvDev
      /\ instances' = instances /\ remembered' = remembered /\ nextInst' = nextInst
      /\ devices' = devices /\ nextDev' = nextDev /\ surfaces' = surfaces
      /\ windows' = windows /\ chains' = chains
  BY Zenon DEF driverVars, instVars, devVars, surfVars
<1>2. at'[t] = "idle" /\ Moved(t) /\ Domains' /\ gen' \in [Threads -> Gens]
  BY Returns, Zenon
<1>3. /\ KeepsInst(t) /\ KeepsUser(t) /\ KeepsPhys(t) /\ KeepsDev(t) /\ KeepsParent(t)
      /\ KeepsSurface(t) /\ KeepsChain(t)
  <2>1. /\ at[t] \in {"ci_driver", "rp_check", "cd_driver"} /\ at'[t] = "idle"
    BY <1>1, <1>2, Zenon
  <2> QED
    BY <2>1, Zenon DEF KeepsInst, OwnsInst, InstSteps, KeepsUser, UsesInst, KeepsPhys, KeepsDev, OwnsDev, DevSteps, KeepsParent, KeepsSurface, KeepsChain
<1>4. KeepsWindows(t)
  BY <1>1, <1>2, Zenon DEF KeepsWindows, HasWindow
<1>5. InstPart'
  BY <1>1, <1>2, <1>3, KeepInstances, Zenon DEF IInv
<1>6. DevPart'
  BY <1>1, <1>2, <1>3, KeepDevices, Zenon DEF IInv
<1>7. SurfPart'
  BY <1>1, <1>2, <1>3, <1>4, KeepSurfaces, Zenon DEF IInv
<1>8. TypeOK'
  BY <1>1, <1>2, Zenon DEF IInv, TypeOK
<1> QED
  BY <1>2, <1>5, <1>6, <1>7, <1>8, Zenon DEF IInv

\* The second check of remember_physical(), and the insertion.
LEMMA RememberInsertStep ==
  ASSUME IInv, NEW t \in Threads, NEW p \in todo[t], at[t] = "rp_insert",
         UNCHANGED <<driverVars, instances, nextInst, devVars, surfVars, chains>>,
         remembered' = IF Recheck(gen[t], p)
                       THEN [remembered EXCEPT ![gen[t]][p] = @ + 1] ELSE remembered,
         Go(t, "rp_check", handle[t], gen[t], todo[t] \ {p})
  PROVE  IInv'
<1>1. /\ drvInst' = drvInst /\ drvPhys' = drvPhys /\ drvDev' = drvDev
      /\ instances' = instances /\ nextInst' = nextInst /\ devices' = devices
      /\ nextDev' = nextDev /\ surfaces' = surfaces /\ windows' = windows /\ chains' = chains
  BY Zenon DEF driverVars, instVars, devVars, surfVars
<1>2. /\ at'[t] = "rp_check" /\ handle'[t] = handle[t] /\ gen'[t] = gen[t]
      /\ todo'[t] = todo[t] \ {p} /\ Moved(t) /\ Domains' /\ gen' \in [Threads -> Gens]
  BY GoesOn, Zenon
<1>3. /\ KeepsInst(t) /\ KeepsUser(t) /\ KeepsDev(t) /\ KeepsParent(t) /\ KeepsSurface(t)
      /\ KeepsChain(t)
  <2>1. /\ at[t] = "rp_insert" /\ at'[t] = "rp_check" /\ handle'[t] = handle[t]
        /\ gen'[t] = gen[t] /\ todo'[t] \subseteq todo[t]
    BY <1>1, <1>2, Zenon
  <2> QED
    BY <2>1, Zenon DEF KeepsInst, OwnsInst, InstSteps, KeepsUser, UsesInst, KeepsDev, OwnsDev, DevSteps, KeepsParent, KeepsSurface, KeepsChain
<1>4. KeepsWindows(t)
  BY <1>1, <1>2, Zenon DEF KeepsWindows, HasWindow
<1>5. InstInv' /\ InstThreads'
  BY <1>1, <1>2, <1>3, FrameInst, Zenon DEF IInv, InstPart
<1>6. UserInv'
  BY <1>1, <1>2, <1>3, FrameUser, Zenon DEF IInv, InstPart
<1>7. PhysInv'
  BY <1>1, <1>2, PhysRemembered, Zenon DEF IInv, InstPart
<1>8. InstPart'
  BY <1>5, <1>6, <1>7, Zenon DEF InstPart
<1>9. DevPart'
  BY <1>1, <1>2, <1>3, KeepDevices, Zenon DEF IInv
<1>10. SurfPart'
  BY <1>1, <1>2, <1>3, <1>4, KeepSurfaces, Zenon DEF IInv
<1>11. TypeOK'
  <2>1. remembered' \in [Gens -> [Physicals -> Nat]]
    BY <1>1, <1>2, PhysRemembered, Zenon DEF IInv, InstPart
  <2> QED
    BY <1>1, <1>2, <2>1, Zenon DEF IInv, TypeOK
<1> QED
  BY <1>2, <1>8, <1>9, <1>10, <1>11, Zenon DEF IInv

-----------------------------------------------------------------------------
(* Devices *)

\* create_device() finds the instance and reserves a generation.
LEMMA CreateDeviceStep ==
  ASSUME IInv, NEW t \in Threads, NEW p, NEW g \in Gens, at[t] = "idle",
         ~Exhausted(nextDev), Finds(p, g),
         Go(t, "cd_driver", Nothing, nextDev + 1, {g}), nextDev' = nextDev + 1,
         UNCHANGED <<driverVars, instVars, devices, surfVars, chains>>
  PROVE  IInv'
<1>1. /\ drvInst' = drvInst /\ drvPhys' = drvPhys /\ drvDev' = drvDev
      /\ instances' = instances /\ remembered' = remembered /\ nextInst' = nextInst
      /\ devices' = devices /\ surfaces' = surfaces /\ windows' = windows /\ chains' = chains
  BY Zenon DEF driverVars, instVars, devVars, surfVars
<1>2. /\ at'[t] = "cd_driver" /\ handle'[t] = Nothing /\ gen'[t] = nextDev + 1
      /\ todo'[t] = {g} /\ Moved(t) /\ Domains' /\ gen' \in [Threads -> Gens]
  <2>1. nextDev + 1 \in Gens
    BY GenAssumption, SMT DEF IInv, TypeOK, Gens, Exhausted
  <2>2. Go(t, "cd_driver", Nothing, nextDev + 1, {g})
    OBVIOUS
  <2> QED
    BY <2>1, <2>2, Goes, Zenon
<1>3. /\ KeepsInst(t) /\ KeepsUser(t) /\ KeepsPhys(t) /\ KeepsSurface(t) /\ KeepsChain(t)
  <2>1. /\ at[t] = "idle" /\ at'[t] = "cd_driver"
    BY <1>1, <1>2, Zenon
  <2> QED
    BY <2>1, Zenon DEF KeepsInst, OwnsInst, InstSteps, KeepsUser, UsesInst, KeepsPhys, KeepsSurface, KeepsChain
<1>4. KeepsWindows(t)
  BY <1>1, <1>2, Zenon DEF KeepsWindows, HasWindow
<1>5. InstPart'
  BY <1>1, <1>2, <1>3, KeepInstances, Zenon DEF IInv
<1>6. DevInv' /\ DevThreads'
  BY <1>1, <1>2, DevReserve, Zenon DEF IInv, DevPart
<1>7. ParentInv'
  <2>1. Live(g)
    BY Zenon DEF Finds, Live
  <2> QED
    BY <1>1, <1>2, <2>1, ParentStarts, Zenon DEF IInv, DevPart
<1>8. DevPart'
  BY <1>6, <1>7, Zenon DEF DevPart
<1>9. SurfPart'
  BY <1>1, <1>2, <1>3, <1>4, KeepSurfaces, Zenon DEF IInv
<1>10. TypeOK'
  <2>1. nextDev' \in Gens
    BY <1>1, GenAssumption, SMTT(30) DEF IInv, TypeOK, Gens, Exhausted
  <2> QED
    BY <1>1, <1>2, <2>1, ZenonT(30) DEF IInv, TypeOK
<1> QED
  BY <1>2, <1>5, <1>8, <1>9, <1>10, Zenon DEF IInv

\* The driver has made the device, with a handle that had no object.
LEMMA DeviceMadeStep ==
  ASSUME IInv, NEW t \in Threads, NEW d \in Devices, at[t] = "cd_driver",
         drvDev[d] = 0, drvDev' = [drvDev EXCEPT ![d] = gen[t]], Go(t, "cd_insert", d, gen[t], todo[t]),
         UNCHANGED <<drvInst, drvPhys, instVars, devVars, surfVars, chains>>
  PROVE  IInv'
<1>1. /\ drvInst' = drvInst /\ drvPhys' = drvPhys /\ instances' = instances
      /\ remembered' = remembered /\ nextInst' = nextInst /\ devices' = devices
      /\ nextDev' = nextDev /\ surfaces' = surfaces /\ windows' = windows /\ chains' = chains
  BY Zenon DEF driverVars, instVars, devVars, surfVars
<1>2. /\ at'[t] = "cd_insert" /\ handle'[t] = d /\ gen'[t] = gen[t]
      /\ todo'[t] = todo[t] /\ Moved(t) /\ Domains' /\ gen' \in [Threads -> Gens]
  <2>1. gen[t] \in Gens
    BY ZenonT(30) DEF IInv, TypeOK
  <2>2. Go(t, "cd_insert", d, gen[t], todo[t])
    BY Zenon
  <2> QED
    BY <2>1, <2>2, Goes, ZenonT(30)
<1>3. /\ KeepsInst(t) /\ KeepsUser(t) /\ KeepsPhys(t) /\ KeepsParent(t) /\ KeepsSurface(t)
      /\ KeepsChain(t)
  <2>1. /\ at[t] = "cd_driver" /\ at'[t] = "cd_insert" /\ todo'[t] = todo[t]
    BY <1>1, <1>2, Zenon
  <2> QED
    BY <2>1, Zenon DEF KeepsInst, OwnsInst, InstSteps, KeepsUser, UsesInst, KeepsPhys, KeepsParent, KeepsSurface, KeepsChain
<1>4. KeepsWindows(t)
  BY <1>1, <1>2, Zenon DEF KeepsWindows, HasWindow
<1>5. InstPart'
  BY <1>1, <1>2, <1>3, KeepInstances, Zenon DEF IInv
<1>6. DevInv' /\ DevThreads'
  BY <1>1, <1>2, DevMade, Zenon DEF IInv, DevPart
<1>7. ParentInv'
  BY <1>1, <1>2, <1>3, FrameParent, Zenon DEF IInv, DevPart
<1>8. DevPart'
  BY <1>6, <1>7, Zenon DEF DevPart
<1>9. SurfPart'
  BY <1>1, <1>2, <1>3, <1>4, KeepSurfaces, Zenon DEF IInv
<1>10. TypeOK'
  <2>1. drvDev' \in [Devices -> Gens]
    BY Zenon DEF IInv, TypeOK
  <2> QED
    BY <1>1, <1>2, <2>1, ZenonT(30) DEF IInv, TypeOK
<1> QED
  BY <1>2, <1>5, <1>8, <1>9, <1>10, Zenon DEF IInv

\* The two ends of a device: a creation that fails late and hybris_icd_destroy_device().
LEMMA DeviceGoneStep ==
  ASSUME IInv, NEW t \in Threads, at[t] \in {"cd_insert", "dd_driver"},
         drvDev' = [drvDev EXCEPT ![handle[t]] = 0], Return(t),
         UNCHANGED <<drvInst, drvPhys, instVars, devVars, surfVars, chains>>
  PROVE  IInv'
<1>1. /\ at[t] \in OwnsDev /\ drvInst' = drvInst /\ drvPhys' = drvPhys
      /\ instances' = instances /\ remembered' = remembered /\ nextInst' = nextInst
      /\ devices' = devices /\ nextDev' = nextDev /\ surfaces' = surfaces
      /\ windows' = windows /\ chains' = chains
  BY Zenon DEF driverVars, instVars, devVars, surfVars, OwnsDev
<1>2. at'[t] = "idle" /\ Moved(t) /\ Domains' /\ gen' \in [Threads -> Gens]
  BY Returns, Zenon
<1>3. /\ KeepsInst(t) /\ KeepsUser(t) /\ KeepsPhys(t) /\ KeepsParent(t) /\ KeepsSurface(t)
      /\ KeepsChain(t)
  <2>1. /\ at[t] \in {"cd_insert", "dd_driver"} /\ at'[t] = "idle"
    BY <1>1, <1>2, Zenon
  <2> QED
    BY <2>1, Zenon DEF KeepsInst, OwnsInst, InstSteps, KeepsUser, UsesInst, KeepsPhys, KeepsParent, KeepsSurface, KeepsChain
<1>4. KeepsWindows(t)
  BY <1>1, <1>2, Zenon DEF KeepsWindows, HasWindow
<1>5. InstPart'
  BY <1>1, <1>2, <1>3, KeepInstances, Zenon DEF IInv
<1>6. DevInv' /\ DevThreads'
  BY <1>1, <1>2, DevGone, Zenon DEF IInv, DevPart
<1>7. ParentInv'
  BY <1>1, <1>2, <1>3, FrameParent, Zenon DEF IInv, DevPart
<1>8. DevPart'
  BY <1>6, <1>7, Zenon DEF DevPart
<1>9. SurfPart'
  BY <1>1, <1>2, <1>3, <1>4, KeepSurfaces, Zenon DEF IInv
<1>10. TypeOK'
  <2>1. drvDev' \in [Devices -> Gens]
    BY <1>1, <1>2, DevGone, Zenon DEF IInv, DevPart
  <2> QED
    BY <1>1, <1>2, <2>1, Zenon DEF IInv, TypeOK
<1> QED
  BY <1>2, <1>5, <1>8, <1>9, <1>10, Zenon DEF IInv

\* create_device() puts its entry on the list.
LEMMA CreateDeviceInsertStep ==
  ASSUME IInv, NEW t \in Threads, NEW g \in todo[t], at[t] = "cd_insert", Return(t),
         devices' = devices \cup {[handle |-> handle[t], gen |-> gen[t], inst |-> g]},
         UNCHANGED <<driverVars, instVars, nextDev, surfVars, chains>>
  PROVE  IInv'
<1>1. /\ devices \subseteq devices' /\ drvInst' = drvInst /\ drvPhys' = drvPhys
      /\ drvDev' = drvDev /\ instances' = instances /\ remembered' = remembered
      /\ nextInst' = nextInst /\ nextDev' = nextDev /\ surfaces' = surfaces
      /\ windows' = windows /\ chains' = chains
  BY Zenon DEF driverVars, instVars, devVars, surfVars
<1>2. at'[t] = "idle" /\ Moved(t) /\ Domains' /\ gen' \in [Threads -> Gens]
  BY Returns, Zenon
<1>3. /\ KeepsInst(t) /\ KeepsUser(t) /\ KeepsPhys(t) /\ KeepsSurface(t) /\ KeepsChain(t)
  <2>1. /\ at[t] = "cd_insert" /\ at'[t] = "idle"
    BY <1>1, <1>2, Zenon
  <2> QED
    BY <2>1, Zenon DEF KeepsInst, OwnsInst, InstSteps, KeepsUser, UsesInst, KeepsPhys, KeepsSurface, KeepsChain
<1>4. KeepsWindows(t)
  BY <1>1, <1>2, Zenon DEF KeepsWindows, HasWindow
<1>5. InstPart'
  BY <1>1, <1>2, <1>3, KeepInstances, Zenon DEF IInv
<1>6. DevInv' /\ DevThreads'
  BY <1>1, <1>2, DevListed, Zenon DEF IInv, DevPart
<1>7. ParentInv'
  BY <1>1, <1>2, ParentListed, Zenon DEF IInv, DevPart
<1>8. DevPart'
  BY <1>6, <1>7, Zenon DEF DevPart
<1>9. SurfPart'
  BY <1>1, <1>2, <1>3, <1>4, KeepSurfaces, ZenonT(30) DEF IInv
<1>10. TypeOK'
  <2>1. handle[t] \in Devices /\ gen[t] \in Gens
    BY Zenon DEF IInv, DevPart, DevThreads, OwnsDev, TypeOK
  <2>2. Live(g)
    BY <1>1, <1>2, ParentListed, Zenon DEF IInv, DevPart
  <2>3. g \in Gens
    BY <2>2, Zenon DEF IInv, Live, TypeOK
  <2>4. [handle |-> handle[t], gen |-> gen[t], inst |-> g]
          \in [handle : Devices, gen : Gens, inst : Gens]
    BY <2>1, <2>3, Zenon
  <2>5. devices' \subseteq [handle : Devices, gen : Gens, inst : Gens]
    BY <2>4, Zenon DEF IInv, TypeOK
  <2> QED
    BY <1>1, <1>2, <2>5, ZenonT(30) DEF IInv, TypeOK
<1> QED
  BY <1>2, <1>5, <1>8, <1>9, <1>10, Zenon DEF IInv

\* destroy_device() releases the swapchains of the device.
LEMMA DestroyDeviceStep ==
  ASSUME IInv, NEW t \in Threads, NEW e \in devices, DestroyDevice(t, e)
  PROVE  IInv'
<1>1. /\ at[t] = "idle" /\ ~Using(e.handle) /\ chains' = chains \ ReleasedChains(e.handle)
      /\ drvInst' = drvInst /\ drvPhys' = drvPhys /\ drvDev' = drvDev
      /\ instances' = instances /\ remembered' = remembered /\ nextInst' = nextInst
      /\ devices' = devices /\ nextDev' = nextDev /\ surfaces' = surfaces
      /\ windows' = windows
  BY ZenonT(30) DEF DestroyDevice, driverVars, instVars, devVars, surfVars
<1>2. /\ at'[t] = "dd_unlink" /\ handle'[t] = e.handle /\ gen'[t] = e.gen
      /\ todo'[t] = {e.inst} /\ Moved(t) /\ Domains' /\ gen' \in [Threads -> Gens]
  <2>1. e.gen \in Gens
    BY SMT DEF IInv, TypeOK
  <2>2. Go(t, "dd_unlink", e.handle, e.gen, {e.inst})
    BY Zenon DEF DestroyDevice
  <2> QED
    BY <2>1, <2>2, Goes, ZenonT(30)
<1>3. /\ KeepsInst(t) /\ KeepsUser(t) /\ KeepsPhys(t) /\ KeepsParent(t) /\ KeepsSurface(t)
  <2>1. /\ at[t] = "idle" /\ at'[t] = "dd_unlink"
    BY <1>1, <1>2, Zenon
  <2> QED
    BY <2>1, Zenon DEF KeepsInst, OwnsInst, InstSteps, KeepsUser, UsesInst, KeepsPhys, KeepsParent, KeepsSurface
<1>4. KeepsWindows(t)
  BY <1>1, <1>2, Zenon DEF KeepsWindows, HasWindow
<1>5. InstPart'
  BY <1>1, <1>2, <1>3, KeepInstances, Zenon DEF IInv
<1>6. DevInv' /\ DevThreads'
  BY <1>1, <1>2, DevTaken, Zenon DEF IInv, DevPart
<1>7. ParentInv'
  BY <1>1, <1>2, <1>3, FrameParent, Zenon DEF IInv, DevPart
<1>8. DevPart'
  BY <1>6, <1>7, Zenon DEF DevPart
<1>9. WindowInv'
  BY <1>1, <1>2, <1>4, FrameWindow, Zenon DEF IInv, SurfPart
<1>10. SurfaceInv'
  BY <1>1, <1>2, <1>3, FrameSurface, Zenon DEF IInv, SurfPart
<1>11. ChainInv'
  BY <1>1, <1>2, ChainsReleased, Zenon DEF IInv, SurfPart
<1>12. SurfPart'
  BY <1>9, <1>10, <1>11, Zenon DEF SurfPart
<1>13. TypeOK'
  BY <1>1, <1>2, Zenon DEF IInv, TypeOK
<1> QED
  BY <1>2, <1>5, <1>8, <1>12, <1>13, Zenon DEF IInv

\* destroy_device() takes the entry off the list.
LEMMA DestroyDeviceUnlinkStep ==
  ASSUME IInv, NEW t \in Threads, DestroyDeviceUnlink(t)
  PROVE  IInv'
<1>1. /\ at[t] = "dd_unlink" /\ devices' = {d \in devices : d.handle # handle[t]}
      /\ devices' \subseteq devices /\ drvInst' = drvInst /\ drvPhys' = drvPhys
      /\ drvDev' = drvDev /\ instances' = instances /\ remembered' = remembered
      /\ nextInst' = nextInst /\ nextDev' = nextDev /\ surfaces' = surfaces
      /\ windows' = windows /\ chains' = chains
  BY Zenon DEF DestroyDeviceUnlink, driverVars, instVars, devVars, surfVars
<1>2. /\ at'[t] = "dd_driver" /\ handle'[t] = handle[t] /\ gen'[t] = gen[t]
      /\ todo'[t] = todo[t] /\ Moved(t) /\ Domains' /\ gen' \in [Threads -> Gens]
  BY GoesOn, Zenon DEF DestroyDeviceUnlink
<1>3. /\ KeepsInst(t) /\ KeepsUser(t) /\ KeepsPhys(t) /\ KeepsParent(t) /\ KeepsSurface(t)
  <2>1. /\ at[t] = "dd_unlink" /\ at'[t] = "dd_driver" /\ handle'[t] = handle[t]
        /\ gen'[t] = gen[t] /\ todo'[t] = todo[t]
    BY <1>1, <1>2, Zenon
  <2> QED
    BY <2>1, Zenon DEF KeepsInst, OwnsInst, InstSteps, KeepsUser, UsesInst, KeepsPhys, KeepsParent, KeepsSurface
<1>4. KeepsWindows(t)
  BY <1>1, <1>2, Zenon DEF KeepsWindows, HasWindow
<1>5. InstPart'
  BY <1>1, <1>2, <1>3, KeepInstances, Zenon DEF IInv
<1>6. DevInv' /\ DevThreads'
  BY <1>1, <1>2, DevUnlinked, Zenon DEF IInv, DevPart
<1>7. ParentInv'
  BY <1>1, <1>2, <1>3, FrameParent, Zenon DEF IInv, DevPart
<1>8. DevPart'
  BY <1>6, <1>7, Zenon DEF DevPart
<1>9. WindowInv'
  BY <1>1, <1>2, <1>4, FrameWindow, Zenon DEF IInv, SurfPart
<1>10. SurfaceInv'
  BY <1>1, <1>2, <1>3, FrameSurface, Zenon DEF IInv, SurfPart
<1>11. ChainInv'
  BY <1>1, <1>2, ChainsKeepDevice, Zenon DEF IInv, SurfPart
<1>12. SurfPart'
  BY <1>9, <1>10, <1>11, Zenon DEF SurfPart
<1>13. TypeOK'
  BY <1>1, <1>2, Zenon DEF IInv, TypeOK
<1> QED
  BY <1>2, <1>5, <1>8, <1>12, <1>13, Zenon DEF IInv

-----------------------------------------------------------------------------
(* Surfaces *)

\* A surface's native window is made before the surface is on the list.
LEMMA CreateSurfaceStep ==
  ASSUME IInv, NEW t \in Threads, NEW e \in instances, NEW s \in Surfaces,
         at[t] = "idle", OfInstance(e.handle, e.gen),
         s \notin windows, windows' = windows \cup {s}, Go(t, "cs_insert", e.handle, e.gen, {s}),
         UNCHANGED <<driverVars, instVars, devVars, surfaces, chains>>
  PROVE  IInv'
<1>1. /\ drvInst' = drvInst /\ drvPhys' = drvPhys /\ drvDev' = drvDev
      /\ instances' = instances /\ remembered' = remembered /\ nextInst' = nextInst
      /\ devices' = devices /\ nextDev' = nextDev /\ surfaces' = surfaces /\ chains' = chains
  BY ZenonT(30) DEF driverVars, instVars, devVars, surfVars
<1>2. /\ at'[t] = "cs_insert" /\ handle'[t] = e.handle /\ gen'[t] = e.gen
      /\ todo'[t] = {s} /\ Moved(t) /\ Domains' /\ gen' \in [Threads -> Gens]
  <2>1. e.gen \in Gens
    BY Zenon DEF IInv, TypeOK
  <2>2. Go(t, "cs_insert", e.handle, e.gen, {s})
    OBVIOUS
  <2> QED
    BY <2>1, <2>2, Goes, ZenonT(30)
<1>3. /\ KeepsInst(t) /\ KeepsPhys(t) /\ KeepsDev(t) /\ KeepsParent(t) /\ KeepsSurface(t)
      /\ KeepsChain(t)
  <2>1. /\ at[t] = "idle" /\ at'[t] = "cs_insert"
    BY <1>1, <1>2, Zenon
  <2> QED
    BY <2>1, Zenon DEF KeepsInst, OwnsInst, InstSteps, KeepsPhys, KeepsDev, OwnsDev, DevSteps, KeepsParent, KeepsSurface, KeepsChain
<1>4. InstInv' /\ InstThreads'
  BY <1>1, <1>2, <1>3, FrameInst, Zenon DEF IInv, InstPart
<1>5. UserInv'
  BY <1>1, <1>2, UserStarts, Zenon DEF IInv, InstPart
<1>6. PhysInv'
  BY <1>1, <1>2, <1>3, FramePhys, Zenon DEF IInv, InstPart
<1>7. InstPart'
  BY <1>4, <1>5, <1>6, Zenon DEF InstPart
<1>8. DevPart'
  BY <1>1, <1>2, <1>3, KeepDevices, Zenon DEF IInv
<1>9. WindowInv'
  BY <1>1, <1>2, WindowMade, Zenon DEF IInv, SurfPart
<1>10. SurfaceInv'
  BY <1>1, <1>2, <1>3, FrameSurface, Zenon DEF IInv, SurfPart
<1>11. ChainInv'
  BY <1>1, <1>2, <1>3, FrameChain, Zenon DEF IInv, SurfPart
<1>12. SurfPart'
  BY <1>9, <1>10, <1>11, Zenon DEF SurfPart
<1>13. TypeOK'
  BY <1>1, <1>2, Zenon DEF IInv, TypeOK
<1> QED
  BY <1>2, <1>7, <1>8, <1>12, <1>13, Zenon DEF IInv

\* The two ends of a window that one thread has: a creation that fails and destroy_surface().
LEMMA WindowGoneStep ==
  ASSUME IInv, NEW t \in Threads, at[t] \in {"cs_insert", "ds_window"}, windows' = windows \ todo[t], Return(t),
         UNCHANGED <<driverVars, instVars, devVars, surfaces, chains>>
  PROVE  IInv'
<1>1. /\ drvInst' = drvInst /\ drvPhys' = drvPhys /\ drvDev' = drvDev
      /\ instances' = instances /\ remembered' = remembered /\ nextInst' = nextInst
      /\ devices' = devices /\ nextDev' = nextDev /\ surfaces' = surfaces /\ chains' = chains
  BY Zenon DEF driverVars, instVars, devVars, surfVars
<1>2. at'[t] = "idle" /\ Moved(t) /\ Domains' /\ gen' \in [Threads -> Gens]
  BY Returns, Zenon
<1>3. /\ KeepsInst(t) /\ KeepsUser(t) /\ KeepsPhys(t) /\ KeepsDev(t) /\ KeepsParent(t)
      /\ KeepsSurface(t) /\ KeepsChain(t)
  <2>1. /\ at[t] \in {"cs_insert", "ds_window"} /\ at'[t] = "idle"
    BY <1>1, <1>2, Zenon
  <2> QED
    BY <2>1, Zenon DEF KeepsInst, OwnsInst, InstSteps, KeepsUser, UsesInst, KeepsPhys, KeepsDev, OwnsDev, DevSteps, KeepsParent, KeepsSurface, KeepsChain
<1>4. InstPart'
  BY <1>1, <1>2, <1>3, KeepInstances, Zenon DEF IInv
<1>5. DevPart'
  BY <1>1, <1>2, <1>3, KeepDevices, Zenon DEF IInv
<1>6. WindowInv'
  <2>1. \A r : HasWindow(t, r) <=> r \in todo[t]
    BY Zenon DEF HasWindow
  <2>2. \A r : ~HasWindow(t, r)'
    BY <1>2, Zenon DEF HasWindow
  <2> QED
    BY <1>1, <1>2, <2>1, <2>2, WindowGone, Zenon DEF IInv, SurfPart
<1>7. SurfaceInv'
  BY <1>1, <1>2, <1>3, FrameSurface, Zenon DEF IInv, SurfPart
<1>8. ChainInv'
  BY <1>1, <1>2, <1>3, FrameChain, Zenon DEF IInv, SurfPart
<1>9. SurfPart'
  BY <1>6, <1>7, <1>8, Zenon DEF SurfPart
<1>10. TypeOK'
  BY <1>1, <1>2, ZenonT(30) DEF IInv, TypeOK
<1> QED
  BY <1>2, <1>4, <1>5, <1>9, <1>10, Zenon DEF IInv

\* The surface is put on the list.
LEMMA CreateSurfaceInsertStep ==
  ASSUME IInv, NEW t \in Threads, CreateSurfaceInsert(t)
  PROVE  IInv'
<1>1. /\ at[t] = "cs_insert"
      /\ surfaces' = surfaces \cup
             {[addr |-> s, inst |-> handle[t], gen |-> gen[t]] : s \in todo[t]}
      /\ surfaces \subseteq surfaces' /\ drvInst' = drvInst /\ drvPhys' = drvPhys
      /\ drvDev' = drvDev /\ instances' = instances /\ remembered' = remembered
      /\ nextInst' = nextInst /\ devices' = devices /\ nextDev' = nextDev
      /\ windows' = windows /\ chains' = chains
  BY Zenon DEF CreateSurfaceInsert, driverVars, instVars, devVars, surfVars
<1>2. at'[t] = "idle" /\ Moved(t) /\ Domains' /\ gen' \in [Threads -> Gens]
  BY Returns, Zenon DEF CreateSurfaceInsert
<1>3. /\ KeepsInst(t) /\ KeepsUser(t) /\ KeepsPhys(t) /\ KeepsDev(t) /\ KeepsParent(t)
      /\ KeepsChain(t)
  <2>1. /\ at[t] = "cs_insert" /\ at'[t] = "idle"
    BY <1>1, <1>2, Zenon
  <2> QED
    BY <2>1, Zenon DEF KeepsInst, OwnsInst, InstSteps, KeepsUser, UsesInst, KeepsPhys, KeepsDev, OwnsDev, DevSteps, KeepsParent, KeepsChain
<1>4. InstPart'
  BY <1>1, <1>2, <1>3, KeepInstances, Zenon DEF IInv
<1>5. DevPart'
  BY <1>1, <1>2, <1>3, KeepDevices, Zenon DEF IInv
<1>6. WindowInv'
  BY <1>1, <1>2, WindowListed, Zenon DEF IInv, SurfPart
<1>7. SurfaceInv'
  <2>1. OfInstance(handle[t], gen[t])
    BY <1>1, Zenon DEF IInv, InstPart, UserInv, UsesInst
  <2> QED
    BY <1>1, <1>2, <2>1, SurfaceListed, Zenon DEF IInv, SurfPart
<1>8. ChainInv'
  BY <1>1, <1>2, <1>3, FrameChain, ZenonT(30) DEF IInv, SurfPart
<1>9. SurfPart'
  BY <1>6, <1>7, <1>8, Zenon DEF SurfPart
<1>10. TypeOK'
  <2>1. OfInstance(handle[t], gen[t])
    BY <1>1, Zenon DEF IInv, InstPart, UserInv, UsesInst
  <2>2. handle[t] \in Instances /\ gen[t] \in Gens
    BY <2>1, Zenon DEF IInv, OfInstance, TypeOK
  <2>3. \A s \in todo[t] : HasWindow(t, s)
    BY <1>1, Zenon DEF HasWindow
  <2>4. todo[t] \subseteq Surfaces
    BY <2>3, ZenonT(30) DEF IInv, SurfPart, WindowInv
  <2>5. surfaces' \subseteq [addr : Surfaces, inst : Instances, gen : Gens]
    <3>1. surfaces \subseteq [addr : Surfaces, inst : Instances, gen : Gens]
      BY Zenon DEF IInv, TypeOK
    <3> QED
      BY <1>1, <2>2, <2>4, <3>1, SMT
  <2> QED
    BY <1>1, <1>2, <2>5, ZenonT(30) DEF IInv, TypeOK
<1> QED
  BY <1>2, <1>4, <1>5, <1>9, <1>10, Zenon DEF IInv

\* A surface without swapchains is taken off the list.
LEMMA DestroySurfaceStep ==
  ASSUME IInv, NEW t \in Threads, NEW s \in surfaces, DestroySurface(t, s)
  PROVE  IInv'
<1>1. /\ at[t] = "idle" /\ (\A c \in chains : c.surf # s.addr) /\ surfaces' = surfaces \ {s}
      /\ drvInst' = drvInst /\ drvPhys' = drvPhys /\ drvDev' = drvDev
      /\ instances' = instances /\ remembered' = remembered /\ nextInst' = nextInst
      /\ devices' = devices /\ nextDev' = nextDev /\ windows' = windows /\ chains' = chains
  BY Zenon DEF DestroySurface, driverVars, instVars, devVars, surfVars
<1>2. /\ at'[t] = "ds_window" /\ handle'[t] = s.addr /\ gen'[t] = 0
      /\ todo'[t] = {s.addr} /\ Moved(t) /\ Domains' /\ gen' \in [Threads -> Gens]
  <2>1. 0 \in Gens
    BY GenAssumption, SMT DEF Gens
  <2>2. Go(t, "ds_window", s.addr, 0, {s.addr})
    BY Zenon DEF DestroySurface
  <2> QED
    BY <2>1, <2>2, Goes, ZenonT(30)
<1>3. /\ KeepsInst(t) /\ KeepsUser(t) /\ KeepsPhys(t) /\ KeepsDev(t) /\ KeepsParent(t)
      /\ KeepsSurface(t)
  <2>1. /\ at[t] = "idle" /\ at'[t] = "ds_window"
    BY <1>1, <1>2, Zenon
  <2> QED
    BY <2>1, Zenon DEF KeepsInst, OwnsInst, InstSteps, KeepsUser, UsesInst, KeepsPhys, KeepsDev, OwnsDev, DevSteps, KeepsParent, KeepsSurface
<1>4. InstPart'
  BY <1>1, <1>2, <1>3, KeepInstances, Zenon DEF IInv
<1>5. DevPart'
  BY <1>1, <1>2, <1>3, KeepDevices, Zenon DEF IInv
<1>6. WindowInv'
  <2>1. \A r : ~HasWindow(t, r)
    BY <1>1, Zenon DEF HasWindow
  <2>2. /\ {s} \in SUBSET surfaces /\ at'[t] \in {"ds_window", "di_windows"}
        /\ todo'[t] = {e.addr : e \in {s}}
    BY <1>2, SMT
  <2> QED
    BY <1>1, <1>2, <2>1, <2>2, WindowUnlinked, Zenon DEF IInv, SurfPart
<1>7. SurfaceInv'
  BY <1>1, <1>2, <1>3, FrameSurface, Zenon DEF IInv, SurfPart
<1>8. ChainInv'
  <2>1. at'[t] # "dd_unlink"
    BY <1>2, Zenon
  <2>2. PICK out : out = {s}
    BY Zenon
  <2>3. surfaces' = surfaces \ out /\ \A c \in chains, d \in devices, e \in out : ~MadeFor(c, d, e)
    BY <1>1, <2>2, Zenon DEF MadeFor
  <2> QED
    BY <1>1, <1>2, <2>1, <2>3, ChainsKeepSurface, Zenon DEF IInv, SurfPart
<1>9. SurfPart'
  BY <1>6, <1>7, <1>8, Zenon DEF SurfPart
<1>10. TypeOK'
  BY <1>1, <1>2, Zenon DEF IInv, TypeOK
<1> QED
  BY <1>2, <1>4, <1>5, <1>9, <1>10, Zenon DEF IInv

-----------------------------------------------------------------------------
(* Swapchains, and steps that change nothing *)

\* What does not speak of swapchains stays when only they change.
LEMMA NoThreadMoves ==
  ASSUME IInv, UNCHANGED <<driverVars, instVars, devVars, surfVars, callVars>>
  PROVE  Domains' /\ InstPart' /\ DevPart' /\ WindowInv' /\ SurfaceInv'
<1>1. /\ drvInst' = drvInst /\ drvPhys' = drvPhys /\ drvDev' = drvDev /\ instances' = instances
      /\ remembered' = remembered /\ nextInst' = nextInst /\ devices' = devices
      /\ nextDev' = nextDev /\ surfaces' = surfaces /\ windows' = windows
      /\ at' = at /\ handle' = handle /\ gen' = gen /\ todo' = todo
  BY Zenon DEF driverVars, instVars, devVars, surfVars, callVars
<1>2. Domains'
  BY <1>1, ZenonT(30) DEF IInv, Domains
<1>3. InstInv'
  BY <1>1, Zenon DEF IInv, InstPart, InstInv, OfInstance
<1>4. InstThreads'
  BY <1>1, Zenon DEF IInv, InstPart, InstThreads, Live
<1>5. UserInv'
  BY <1>1, ZenonT(30) DEF IInv, InstPart, UserInv, OfInstance
<1>6. PhysInv'
  BY <1>1, ZenonT(30) DEF IInv, InstPart, PhysInv
<1>7. DevInv'
  BY <1>1, Zenon DEF IInv, DevPart, DevInv
<1>8. DevThreads' /\ ParentInv'
  BY <1>1, Zenon DEF IInv, DevPart, DevThreads, ParentInv, Live
<1>9. WindowInv' /\ SurfaceInv'
  BY <1>1, Zenon DEF IInv, SurfPart, WindowInv, SurfaceInv, HasWindow, OfInstance
<1> QED
  BY <1>2, <1>3, <1>4, <1>5, <1>6, <1>7, <1>8, <1>9, Zenon DEF InstPart, DevPart

\* create_swapchain() checks the surface's instance, and no thread is destroying
\* the device, whose handle nobody else uses.
LEMMA CreateChainStep ==
  ASSUME IInv, NEW d \in devices, NEW s \in surfaces, CreateChain(d, s)
  PROVE  IInv'
<1>1. /\ SameInstance(d, s) /\ ~Using(d.handle)
      /\ chains' = chains \cup {[dev |-> d.handle, gen |-> d.gen, surf |-> s.addr]}
      /\ UNCHANGED <<driverVars, instVars, devVars, surfVars, callVars>>
  BY Zenon DEF CreateChain
<1>2. PICK n : n = [dev |-> d.handle, gen |-> d.gen, surf |-> s.addr]
  BY Zenon
<1>3. /\ n.dev = d.handle /\ n.gen = d.gen /\ n.surf = s.addr
      /\ \A c \in chains' : c \in chains \/ c = n
  BY <1>1, <1>2, Zenon
<1>4. TypeOK'
  <2>1. n \in [dev : Devices, gen : Gens, surf : Surfaces]
    BY <1>2, Zenon DEF IInv, TypeOK
  <2>2. chains' \subseteq [dev : Devices, gen : Gens, surf : Surfaces]
    BY <1>3, <2>1, Zenon DEF IInv, TypeOK
  <2> QED
    BY <1>1, <2>2, ZenonT(30) DEF IInv, TypeOK, driverVars, instVars, devVars, surfVars, callVars
<1>5. ChainInv'
  <2>1. MadeFor(n, d, s)
    BY <1>1, <1>3, Zenon DEF MadeFor, SameInstance
  <2>2. \A t \in Threads : at[t] = "dd_unlink" => handle[t] # n.dev
    BY <1>1, <1>3, Zenon DEF Using
  <2>3. ASSUME NEW c \in chains'
        PROVE  /\ \E e \in devices, f \in surfaces : MadeFor(c, e, f)
               /\ \A t \in Threads : at[t] = "dd_unlink" => handle[t] # c.dev
    BY <1>3, <2>1, <2>2, Zenon DEF IInv, SurfPart, ChainInv
  <2> QED
    BY <1>1, <2>3, Zenon DEF ChainInv, devVars, surfVars, callVars
<1>6. Domains' /\ InstPart' /\ DevPart' /\ WindowInv' /\ SurfaceInv'
  BY <1>1, NoThreadMoves, Zenon DEF IInv
<1> QED
  BY <1>4, <1>5, <1>6, Zenon DEF IInv, SurfPart

\* A swapchain is taken off the list.
LEMMA DestroyChainStep ==
  ASSUME IInv, NEW c \in chains, DestroyChain(c)
  PROVE  IInv'
<1>1. /\ chains' \subseteq chains
      /\ UNCHANGED <<driverVars, instVars, devVars, surfVars, callVars>>
  BY Zenon DEF DestroyChain
<1>2. TypeOK'
  BY <1>1, Zenon DEF IInv, TypeOK, driverVars, instVars, devVars, surfVars, callVars
<1>3. ChainInv'
  BY <1>1, Zenon DEF IInv, SurfPart, ChainInv, devVars, surfVars, callVars
<1>4. Domains' /\ InstPart' /\ DevPart' /\ WindowInv' /\ SurfaceInv'
  BY <1>1, NoThreadMoves, Zenon DEF IInv
<1> QED
  BY <1>2, <1>3, <1>4, Zenon DEF IInv, SurfPart

\* A stuttering step keeps the invariant.
LEMMA UnchangedStep ==
  ASSUME IInv, UNCHANGED vars
  PROVE  IInv'
<1>1. /\ UNCHANGED <<driverVars, instVars, devVars, surfVars, callVars>> /\ chains' = chains
  BY Zenon DEF vars, driverVars, instVars, devVars, surfVars, callVars
<1>2. TypeOK'
  BY <1>1, Zenon DEF IInv, TypeOK, driverVars, instVars, devVars, surfVars, callVars
<1>3. ChainInv'
  BY <1>1, Zenon DEF IInv, SurfPart, ChainInv, devVars, surfVars, callVars
<1>4. Domains' /\ InstPart' /\ DevPart' /\ WindowInv' /\ SurfaceInv'
  BY <1>1, NoThreadMoves, Zenon DEF IInv
<1> QED
  BY <1>2, <1>3, <1>4, Zenon DEF IInv, SurfPart

-----------------------------------------------------------------------------
(* The invariant, from the first state on *)

\* The lists are empty and the driver has no objects at the start.
LEMMA InitInv ==
  Init => IInv
<1> SUFFICES ASSUME Init PROVE IInv
  OBVIOUS
<1>1. 0 \in Gens /\ nextInst = 0 /\ nextDev = 0
  BY GenAssumption, SMT DEF Init, Gens
<1>2. /\ instances = {} /\ devices = {} /\ surfaces = {} /\ windows = {} /\ chains = {}
      /\ \A t \in Threads : at[t] = "idle" /\ todo[t] = {}
  BY Zenon DEF Init
<1>3. /\ \A h \in Instances : drvInst[h] = 0
      /\ \A p \in Physicals : drvPhys[p] = 0
      /\ \A d \in Devices : drvDev[d] = 0
      /\ \A g \in Gens : \A p \in Physicals : remembered[g][p] = 0
  BY SMT DEF Init
<1>4. Domains
  BY Zenon DEF Init, Domains
<1>5. TypeOK
  <2>1. /\ drvInst \in [Instances -> Gens] /\ drvPhys \in [Physicals -> Gens]
        /\ drvDev \in [Devices -> Gens] /\ gen \in [Threads -> Gens]
        /\ remembered \in [Gens -> [Physicals -> Nat]]
    BY <1>1, Zenon DEF Init
  <2> QED
    BY <1>1, <1>2, <2>1, ZenonT(30) DEF TypeOK
<1>6. InstPart
  <2>1. InstInv
    BY <1>1, <1>2, <1>3, SMT DEF InstInv
  <2>2. InstThreads /\ UserInv
    BY <1>2, Zenon DEF InstThreads, UserInv, InstSteps, OwnsInst, UsesInst
  <2>3. PhysInv
    <3>1. \A p \in Physicals : drvPhys[p] \in 0..nextInst
      BY <1>1, <1>3, SMT
    <3>2. \A g \in Gens, p \in Physicals : ~(remembered[g][p] > 0)
      BY <1>3, SMT
    <3> QED
      BY <1>2, <3>1, <3>2, Zenon DEF PhysInv
  <2> QED
    BY <2>1, <2>2, <2>3, Zenon DEF InstPart
<1>7. DevPart
  <2>1. DevInv
    BY <1>1, <1>2, <1>3, SMT DEF DevInv
  <2>2. DevThreads /\ ParentInv
    BY <1>2, Zenon DEF DevThreads, ParentInv, DevSteps, OwnsDev
  <2> QED
    BY <2>1, <2>2, Zenon DEF DevPart
<1>8. SurfPart
  BY <1>2, Zenon DEF SurfPart, WindowInv, SurfaceInv, ChainInv, HasWindow
<1> QED
  BY <1>4, <1>5, <1>6, <1>7, <1>8, Zenon DEF IInv

\* Every step of the calls on instances and physical devices keeps the invariant.
LEMMA InstanceNextInv ==
  ASSUME IInv, NEW t \in Threads, InstanceNext(t)
  PROVE  IInv'
<1>1. CASE CreateInstance(t)
  BY <1>1, CreateInstanceStep
<1>2. CASE CreateInstanceDriver(t)
  <2>1. /\ at[t] = "ci_driver" /\ UNCHANGED <<drvDev, instVars, devVars, surfVars, chains>>
        /\ \/ \E h \in Instances, p \in Physicals :
                /\ drvInst[h] = 0 /\ drvPhys[p] = 0
                /\ drvInst' = [drvInst EXCEPT ![h] = gen[t]]
                /\ drvPhys' = [drvPhys EXCEPT ![p] = gen[t]]
                /\ Go(t, "ci_insert", h, gen[t], {})
           \/ Return(t) /\ UNCHANGED <<drvInst, drvPhys>>
    BY <1>2, Zenon DEF CreateInstanceDriver
  <2>2. CASE Return(t) /\ UNCHANGED <<drvInst, drvPhys>>
    <3>1. UNCHANGED <<driverVars, instVars, devVars, surfVars, chains>>
      BY <2>1, <2>2, Zenon DEF driverVars
    <3> QED
      BY <2>1, <2>2, <3>1, CallFails, Zenon
  <2>3. CASE \E h \in Instances, p \in Physicals :
               /\ drvInst[h] = 0 /\ drvPhys[p] = 0
               /\ drvInst' = [drvInst EXCEPT ![h] = gen[t]]
               /\ drvPhys' = [drvPhys EXCEPT ![p] = gen[t]]
               /\ Go(t, "ci_insert", h, gen[t], {})
    BY <2>1, <2>3, InstanceMadeStep, Zenon
  <2> QED
    BY <2>1, <2>2, <2>3, Zenon
<1>3. CASE CreateInstanceMixed(t)
  <2>1. /\ at[t] = "ci_insert" /\ DriverDestroyInstance(gen[t]) /\ Return(t)
        /\ remembered' = remembered
        /\ UNCHANGED <<drvDev, instances, nextInst, devVars, surfVars, chains>>
    BY <1>3, Zenon DEF CreateInstanceMixed, MixedOwners, instVars
  <2>2. at[t] \in {"ci_insert", "di_windows"} /\ at[t] # "di_windows"
    BY <2>1, Zenon
  <2> QED
    BY <2>1, <2>2, InstanceGoneStep, Zenon
<1>4. CASE CreateInstanceInsert(t)
  BY <1>4, CreateInstanceInsertStep
<1>5. CASE \E e \in instances : DestroyInstance(t, e.handle, e.gen) \/ Enumerate(t, e.handle, e.gen)
  BY <1>5, DestroyInstanceStep, EnumerateStep, Zenon
<1>6. CASE DestroyInstanceSurfaces(t)
  BY <1>6, DestroyInstanceSurfacesStep
<1>7. CASE DestroyInstanceWindow(t)
  BY <1>7, DestroyInstanceWindowStep, Zenon DEF DestroyInstanceWindow
<1>8. CASE DestroyInstanceDriver(t)
  <2>1. /\ at[t] = "di_windows" /\ todo[t] = {} /\ DriverDestroyInstance(gen[t]) /\ Return(t)
        /\ remembered' = [remembered EXCEPT ![gen[t]] = [p \in Physicals |-> 0]]
        /\ UNCHANGED <<drvDev, instances, nextInst, devVars, surfVars, chains>>
    BY <1>8, Zenon DEF DestroyInstanceDriver
  <2>2. at[t] \in {"ci_insert", "di_windows"} /\ at[t] # "ci_insert"
    BY <2>1, Zenon
  <2> QED
    BY <2>1, <2>2, InstanceGoneStep, Zenon
<1>9. CASE RememberCheck(t)
  <2>1. /\ at[t] = "rp_check" /\ UNCHANGED <<driverVars, instVars, devVars, surfVars, chains>>
        /\ \/ Return(t)
           \/ \E p \in todo[t] : Go(t, "rp_check", handle[t], gen[t], todo[t] \ {p})
           \/ Go(t, "rp_insert", handle[t], gen[t], todo[t])
    BY <1>9, Zenon DEF RememberCheck
  <2>2. CASE Return(t)
    BY <2>1, <2>2, CallFails, Zenon
  <2>3. CASE \E p \in todo[t] : Go(t, "rp_check", handle[t], gen[t], todo[t] \ {p})
    <3>1. PICK rest \in SUBSET todo[t] : Go(t, "rp_check", handle[t], gen[t], rest)
      BY <2>3, Zenon
    <3> QED
      BY <2>1, <3>1, RememberGoesOn, Zenon
  <2>4. CASE Go(t, "rp_insert", handle[t], gen[t], todo[t])
    <3>1. todo[t] \in SUBSET todo[t]
      BY Zenon
    <3> QED
      BY <2>1, <2>4, <3>1, RememberGoesOn, Zenon
  <2> QED
    BY <2>1, <2>2, <2>3, <2>4, Zenon
<1>10. CASE RememberInsert(t)
  BY <1>10, RememberInsertStep, Zenon DEF RememberInsert
<1> QED
  BY <1>1, <1>2, <1>3, <1>4, <1>5, <1>6, <1>7, <1>8, <1>9, <1>10, ZenonT(30) DEF InstanceNext

\* Every step of the calls on devices keeps the invariant.
LEMMA DeviceNextInv ==
  ASSUME IInv, NEW t \in Threads, DeviceNext(t)
  PROVE  IInv'
<1>1. CASE \E p \in Physicals : CreateDevice(t, p)
  BY <1>1, CreateDeviceStep, Zenon DEF CreateDevice
<1>2. CASE CreateDeviceDriver(t)
  <2>1. /\ at[t] = "cd_driver"
        /\ UNCHANGED <<drvInst, drvPhys, instVars, devVars, surfVars, chains>>
        /\ \/ \E d \in Devices :
                /\ drvDev[d] = 0 /\ drvDev' = [drvDev EXCEPT ![d] = gen[t]]
                /\ Go(t, "cd_insert", d, gen[t], todo[t])
           \/ Return(t) /\ UNCHANGED drvDev
    BY <1>2, Zenon DEF CreateDeviceDriver
  <2>2. CASE Return(t) /\ UNCHANGED drvDev
    <3>1. UNCHANGED <<driverVars, instVars, devVars, surfVars, chains>>
      BY <2>1, <2>2, Zenon DEF driverVars
    <3> QED
      BY <2>1, <2>2, <3>1, CallFails, Zenon
  <2>3. CASE \E d \in Devices :
               /\ drvDev[d] = 0 /\ drvDev' = [drvDev EXCEPT ![d] = gen[t]]
               /\ Go(t, "cd_insert", d, gen[t], todo[t])
    BY <2>1, <2>3, DeviceMadeStep, Zenon
  <2> QED
    BY <2>1, <2>2, <2>3, Zenon
<1>3. CASE CreateDeviceQueues(t)
  BY <1>3, DeviceGoneStep, Zenon DEF CreateDeviceQueues
<1>4. CASE CreateDeviceInsert(t)
  BY <1>4, CreateDeviceInsertStep, Zenon DEF CreateDeviceInsert
<1>5. CASE \E e \in devices : DestroyDevice(t, e)
  BY <1>5, DestroyDeviceStep, Zenon
<1>6. CASE DestroyDeviceUnlink(t)
  BY <1>6, DestroyDeviceUnlinkStep
<1>7. CASE DestroyDeviceDriver(t)
  BY <1>7, DeviceGoneStep, Zenon DEF DestroyDeviceDriver
<1> QED
  BY <1>1, <1>2, <1>3, <1>4, <1>5, <1>6, <1>7, ZenonT(30) DEF DeviceNext

\* Every step of the calls on surfaces keeps the invariant.
LEMMA SurfaceNextInv ==
  ASSUME IInv, NEW t \in Threads, SurfaceNext(t)
  PROVE  IInv'
<1>1. CASE \E e \in instances : CreateSurface(t, e.handle, e.gen)
  BY <1>1, CreateSurfaceStep, Zenon DEF CreateSurface
<1>2. CASE CreateSurfaceNoMemory(t)
  BY <1>2, WindowGoneStep, Zenon DEF CreateSurfaceNoMemory
<1>3. CASE CreateSurfaceInsert(t)
  BY <1>3, CreateSurfaceInsertStep
<1>4. CASE \E s \in surfaces : DestroySurface(t, s)
  BY <1>4, DestroySurfaceStep, Zenon
<1>5. CASE DestroySurfaceWindow(t)
  BY <1>5, WindowGoneStep, Zenon DEF DestroySurfaceWindow
<1> QED
  BY <1>1, <1>2, <1>3, <1>4, <1>5, Zenon DEF SurfaceNext

\* Every step keeps the invariant.
LEMMA NextInv ==
  IInv /\ [Next]_vars => IInv'
<1> SUFFICES ASSUME IInv, [Next]_vars PROVE IInv'
  OBVIOUS
<1>1. CASE \E t \in Threads : InstanceNext(t) \/ DeviceNext(t) \/ SurfaceNext(t)
  BY <1>1, InstanceNextInv, DeviceNextInv, SurfaceNextInv, Zenon
<1>2. CASE \E d \in devices, s \in surfaces : CreateChain(d, s)
  BY <1>2, CreateChainStep, Zenon
<1>3. CASE \E c \in chains : DestroyChain(c)
  BY <1>3, DestroyChainStep, Zenon
<1>4. CASE Refused \/ UNCHANGED vars
  BY <1>4, UnchangedStep, Zenon DEF Refused
<1> QED
  BY <1>1, <1>2, <1>3, <1>4, Zenon DEF Next

\* The invariant holds in every reachable state.
LEMMA Invariance ==
  Spec => []IInv
BY InitInv, NextInv, PTL DEF Spec

-----------------------------------------------------------------------------
(* What the invariant says of the registries *)

\* An entry's driver object exists with the entry's generation, and no error
\* path of create_instance(), create_device() or their inverses loses one.
THEOREM RegistryAlwaysMatchesDriver ==
  Spec => []RegistryMatchesDriver
<1>1. IInv => RegistryMatchesDriver
  <2> SUFFICES ASSUME IInv PROVE RegistryMatchesDriver
    OBVIOUS
  <2>1. TypeOK /\ InstInv /\ DevInv
    BY Zenon DEF IInv, InstPart, DevPart
  <2>2. \A e \in instances : drvInst[e.handle] = e.gen
    BY <2>1, Zenon DEF InstInv
  <2>3. \A d \in devices : drvDev[d.handle] = d.gen
    BY <2>1, Zenon DEF DevInv
  <2>4. \A h \in Instances : drvInst[h] # 0 =>
          \/ OfInstance(h, drvInst[h])
          \/ \E t \in Threads : Handling(t, drvInst[h], {"ci_insert", "di_surfaces", "di_windows"})
    BY <2>1, Zenon DEF InstInv, OwnsInst, Handling
  <2>5. \A d \in Devices : drvDev[d] # 0 =>
          \/ \E e \in devices : e.handle = d /\ e.gen = drvDev[d]
          \/ \E t \in Threads : Handling(t, drvDev[d], {"cd_insert", "dd_driver"})
    BY <2>1, ZenonT(30) DEF DevInv, OwnsDev, Handling
  <2> QED
    BY <2>1, <2>2, <2>3, <2>4, <2>5, Zenon DEF RegistryMatchesDriver
<1> QED
  BY <1>1, Invariance, PTL

\* find_physical() finds the instance a physical device is of: threads that
\* enumerate at a time remember it once, and for the right instance.
THEOREM PhysicalsAlwaysOnce ==
  Spec => []PhysicalsOnce
<1>1. IInv => PhysicalsOnce
  <2> SUFFICES ASSUME IInv PROVE PhysicalsOnce
    OBVIOUS
  <2>1. PhysInv /\ \A e \in instances : e.gen \in Gens
    BY Zenon DEF IInv, InstPart, TypeOK
  <2> QED
    BY <2>1, SMT DEF PhysInv, PhysicalsOnce
<1> QED
  BY <1>1, Invariance, PTL

\* A native window has one owner from its creation to its destruction: an entry
\* of the list of surfaces, or the thread that has not listed it yet or that has
\* taken it off the list.
THEOREM WindowsAlwaysOwnedOnce ==
  Spec => []WindowsOwnedOnce
<1>1. IInv => WindowsOwnedOnce
  <2> SUFFICES ASSUME IInv, NEW s \in Surfaces
               PROVE  IF s \in windows THEN \E x \in Holders(s) : Holders(s) = {x}
                                       ELSE Holders(s) = {}
    BY Zenon DEF WindowsOwnedOnce
  <2>1. WindowInv
    BY Zenon DEF IInv, SurfPart
  <2>2. \A x : x \in Holders(s) <=>
          \/ \E e \in surfaces : e.addr = s /\ x = <<"list", e>>
          \/ \E t \in Threads : HasWindow(t, s) /\ x = <<"thread", t>>
    BY Zenon DEF Holders, HasWindow
  <2>3. CASE s \notin windows
    BY <2>1, <2>2, <2>3, Zenon DEF WindowInv
  <2>4. CASE s \in windows
    <3>1. CASE \E e \in surfaces : e.addr = s
      <4>1. PICK e \in surfaces : e.addr = s
        BY <3>1, Zenon
      <4>2. /\ \A t \in Threads : ~HasWindow(t, s)
            /\ \A f \in surfaces : f.addr = s => f = e
        BY <2>1, <4>1, Zenon DEF WindowInv
      <4>3. PICK n : n = <<"list", e>>
        BY Zenon
      <4>4. n \in Holders(s)
        BY <2>2, <4>1, <4>3, Zenon
      <4>5. \A x \in Holders(s) : x = n
        BY <2>2, <4>2, <4>3, SMT
      <4>6. Holders(s) = {n}
        BY <4>4, <4>5, Zenon
      <4> QED
        BY <2>4, <4>4, <4>6, Zenon
    <3>2. CASE \E t \in Threads : HasWindow(t, s)
      <4>1. PICK t \in Threads : HasWindow(t, s)
        BY <3>2, ZenonT(30)
      <4>2. /\ \A e \in surfaces : e.addr # s
            /\ \A u \in Threads : HasWindow(u, s) => u = t
        BY <2>1, <4>1, SMT DEF WindowInv
      <4>3. PICK n : n = <<"thread", t>>
        BY Zenon
      <4>4. n \in Holders(s)
        BY <2>2, <4>1, <4>3, ZenonT(30)
      <4>5. \A x \in Holders(s) : x = n
        BY <2>2, <4>2, <4>3, Zenon
      <4>6. Holders(s) = {n}
        BY <4>4, <4>5, Zenon
      <4> QED
        BY <2>4, <4>4, <4>6, Zenon
    <3> QED
      BY <2>1, <2>4, <3>1, <3>2, Zenon DEF WindowInv
  <2> QED
    BY <2>3, <2>4, Zenon
<1> QED
  BY <1>1, Invariance, PTL

\* A surface does not outlive its instance, nor a swapchain its device or its
\* surface, whatever handle values the driver and malloc reuse.
THEOREM DependentsAlwaysLive ==
  Spec => []DependentsLive
<1>1. IInv => DependentsLive
  <2> SUFFICES ASSUME IInv PROVE DependentsLive
    OBVIOUS
  <2>1. SurfaceInv /\ ChainInv
    BY Zenon DEF IInv, SurfPart
  <2>2. \A s \in surfaces : \/ OfInstance(s.inst, s.gen)
                            \/ \E t \in Threads : Handling(t, s.gen, {"di_surfaces"})
    BY <2>1, Zenon DEF SurfaceInv, Handling
  <2>3. \A c \in chains : /\ \E d \in devices : d.handle = c.dev /\ d.gen = c.gen
                          /\ \E s \in surfaces : s.addr = c.surf
    BY <2>1, Zenon DEF ChainInv, MadeFor
  <2> QED
    BY <2>2, <2>3, Zenon DEF DependentsLive
<1> QED
  BY <1>1, Invariance, PTL
=============================================================================
