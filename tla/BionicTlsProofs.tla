-------------------------- MODULE BionicTlsProofs ---------------------------
(* The thread-local storage of Android code is sound for every number of threads,
   arenas, libraries and rounds of destructors: the inductive invariant, the steps
   of a thread's own (hooks, resolver, thunks, the replay and the cleanup of its
   arena), those of the linker, and the theorems. *)
EXTENDS BionicTls, SequenceTheorems, TLAPS

\* The registry lists the static offsets in the order of their reservation, and
\* what the relocations of a library hold has been published.
LinkerInv ==
  /\ layout = Len(registry) /\ layout <= loads
  /\ \A i \in 1..Len(registry) : registry[i] = i
  /\ \A l \in Loads : desc[l] <= published
  /\ \A i \in 1..Len(slots) : slots[i].off <= layout
  /\ \A l \in Loads : modid[l] # 0 => slots[modid[l]].si = l
  /\ \A l \in loaded : modid[l] # 0

\* A thread in the linker holds its mutex and has a library of its own; one that
\* wants a variable has a loaded one.
CallInv(t) ==
  /\ pc[t] \in {"relocate", "publish", "linked"} =>
       dlLock = t /\ lib[t] \in 1..loads /\ lib[t] \notin loaded /\ modid[lib[t]] # 0
  /\ pc[t] = "relocate" => layout < loads
  /\ pc[t] \in {"slow", "use"} /\ lib[t] # 0 => lib[t] \in loaded /\ desc[lib[t]] # 0

\* A thread's pointer and its key agree, and only Android code in a late
\* destructor can leave an arena behind.
ArenaInv ==
  /\ \A t \in Threads : tp[t] = key[t] /\ (t \in inited => tp[t] \in tcb)
  /\ \A t \in Threads : pc[t] \in {"slow", "use"} => tp[t] \in tcb
  /\ \A t \in Threads : pos[t] > 2 /\ t \notin again => key[t] = None
  /\ \A t, u \in Threads : t # u /\ key[t] = key[u] => key[t] = None
  /\ mapped = {key[t] : t \in Threads} \ {None}

\* Below its cursor a thread has its own values, above it it has written nothing.
ValueInv(t) ==
  /\ cursor[t] <= Len(registry)
  /\ tp[t] = None => cursor[t] = 0 /\ wrote[t] = {} /\ late[t] = {}
  /\ \A o \in Loads \ late[t] :
       /\ o > cursor[t] => o \notin wrote[t]
       /\ tp[t] # None /\ o <= cursor[t] =>
            cells[tp[t]][o] = IF o \in wrote[t] THEN "own" ELSE "data"
  /\ pc[t] = "use" /\ lib[t] # 0 => desc[lib[t]] <= cursor[t] \/ desc[lib[t]] \in late[t]

IInv ==
  /\ TypeOK /\ LinkerInv /\ ArenaInv
  /\ \A t \in Threads : CallInv(t) /\ ValueInv(t)

-----------------------------------------------------------------------------
\* No thread has storage and no library is registered at the start.
LEMMA InitInv == Init => IInv
<1> SUFFICES ASSUME Init PROVE IInv
  OBVIOUS
<1> USE BoundsAssumption
<1>1. TypeOK
  BY DEF Init, TypeOK, Zeros, Loads, Places
<1>2. LinkerInv
  BY DEF Init, LinkerInv, Loads
<1>3. ArenaInv
  BY Zenon DEF Init, ArenaInv
<1>4. \A t \in Threads : CallInv(t)
  BY Zenon DEF Init, CallInv
<1>5. ASSUME NEW t \in Threads PROVE ValueInv(t)
  <2>1. tp[t] = None /\ cursor[t] = 0 /\ wrote[t] = {} /\ late[t] = {} /\ pc[t] = "dead"
    BY Zenon DEF Init
  <2>2. Len(registry) = 0
    BY Zenon DEF Init
  <2> QED
    BY <2>1, <2>2 DEF ValueInv, Loads
<1> QED
  BY <1>1, <1>2, <1>3, <1>4, <1>5, Zenon DEF IInv

\* Steps of a thread that change neither arenas nor registry nor linker: its
\* place and its exit only.
LEMMA QuietStep ==
  ASSUME IInv, NEW t \in Threads,
         \/ StartGlibc(t) \/ Exit(t) \/ EnterDestructor(t) \/ LeaveDestructor(t)
         \/ NextRound(t)
  PROVE  IInv'
<1> USE BoundsAssumption DEF IInv
<1> DEFINE Frame == /\ UNCHANGED <<tlsVars, regVars, dlVars, lib, ghosts>>
                    /\ \A u \in Threads \ {t} : pc'[u] = pc[u] /\ pos'[u] = pos[u]
                    /\ \A u \in Threads \ {t} : u \in again' <=> u \in again
           Types == /\ pc' \in [Threads -> Places] /\ round' \in [Threads -> 0..MaxRounds]
                    /\ pos' \in [Threads -> 1..4] /\ again' \subseteq Threads
           Moved == /\ pc'[t] \in {"run", "exit", "destructor"}
                    /\ pos'[t] > 2 /\ t \notin again' => key[t] = None
<1>1. Frame /\ Types /\ Moved
  <2>1. CASE StartGlibc(t)
    <3>1. Frame
      BY <2>1, Zenon DEF TypeOK, StartGlibc, Goto, tsdVars
    <3>2. Types
      BY <2>1, Zenon DEF TypeOK, Places, StartGlibc, Goto, tsdVars
    <3>3. Moved
      BY <2>1 DEF TypeOK, ArenaInv, StartGlibc, Goto, tsdVars
    <3> QED
      BY <3>1, <3>2, <3>3, Zenon
  <2>2. CASE Exit(t)
    <3>1. Frame
      BY <2>2, Zenon DEF TypeOK, Exit, Goto, tsdVars
    <3>2. Types
      BY <2>2 DEF TypeOK, Places, Exit, Goto, tsdVars
    <3>3. Moved
      BY <2>2 DEF TypeOK, ArenaInv, Exit, Goto, tsdVars
    <3> QED
      BY <3>1, <3>2, <3>3, Zenon
  <2>3. CASE EnterDestructor(t)
    <3>1. Frame
      BY <2>3, Zenon DEF TypeOK, EnterDestructor, Goto, tsdVars
    <3>2. Types
      BY <2>3 DEF TypeOK, Places, EnterDestructor, Goto, tsdVars
    <3>3. Moved
      BY <2>3 DEF TypeOK, ArenaInv, EnterDestructor, Goto, tsdVars
    <3> QED
      BY <3>1, <3>2, <3>3, Zenon
  <2>4. CASE LeaveDestructor(t)
    <3>1. Frame
      BY <2>4, Zenon DEF TypeOK, LeaveDestructor, Goto, tsdVars
    <3>2. Types
      BY <2>4, Zenon DEF TypeOK, Places, LeaveDestructor, Goto, tsdVars
    <3>3. Moved
      BY <2>4 DEF TypeOK, ArenaInv, LeaveDestructor, Goto, tsdVars
    <3> QED
      BY <3>1, <3>2, <3>3, Zenon
  <2>5. CASE NextRound(t)
    <3>1. Frame
      BY <2>5, Zenon DEF TypeOK, NextRound, Goto, tsdVars
    <3>2. Types
      BY <2>5 DEF TypeOK, Places, NextRound, Goto, tsdVars
    <3>3. Moved
      BY <2>5 DEF TypeOK, ArenaInv, NextRound, Goto, tsdVars
    <3> QED
      BY <3>1, <3>2, <3>3, Zenon
  <2> QED
    BY <2>1, <2>2, <2>3, <2>4, <2>5, Zenon
<1> USE DEF tlsVars, regVars, dlVars, ghosts
<1>2. TypeOK'
  BY <1>1, Zenon DEF TypeOK, Loads
<1>3. LinkerInv'
  BY <1>1, Zenon DEF LinkerInv, Loads
<1>4. ArenaInv'
  BY <1>1 DEF ArenaInv
<1>5. \A u \in Threads : CallInv(u)'
  BY <1>1, Zenon DEF CallInv
<1>6. \A u \in Threads : ValueInv(u)'
  BY <1>1 DEF ValueInv, Loads
<1> QED
  BY <1>2, <1>3, <1>4, <1>5, <1>6, Zenon

-----------------------------------------------------------------------------
\* hybris_ensure_static_tls() gives the thread an arena no other thread has.
LEMMA EnsureArena ==
  ASSUME IInv, NEW t \in Threads, NEW a \in Arenas, EnsureStaticTls(t, a)
  PROVE  /\ tp' \in [Threads -> Arenas \cup {None}] /\ tp'[t] = a
         /\ key' \in [Threads -> Arenas \cup {None}] /\ key'[t] = a
         /\ \A u \in Threads \ {t} : tp'[u] = tp[u] /\ key'[u] = key[u] /\ tp[u] # a
         /\ again' \subseteq Threads /\ (pos[t] > 2 => t \in again')
         /\ \A u \in Threads \ {t} : u \in again' <=> u \in again
         /\ mapped' = mapped \cup {a} /\ mapped' = {key'[u] : u \in Threads} \ {None}
         /\ a \in mapped <=> tp[t] = a
         /\ tp[t] = None \/ tp[t] = a
<1> USE BoundsAssumption DEF IInv
<1>1. tp' \in [Threads -> Arenas \cup {None}] /\ tp'[t] = a
  BY Zenon DEF EnsureStaticTls, TypeOK
<1>2. key' \in [Threads -> Arenas \cup {None}] /\ key'[t] = a
  BY DEF EnsureStaticTls, TypeOK, ArenaInv
<1>3. (a \in mapped <=> tp[t] = a) /\ (tp[t] = None \/ tp[t] = a)
  <2>1. tp[t] = a => a \in mapped
    BY Zenon DEF ArenaInv
  <2> QED
    BY <2>1, Zenon DEF EnsureStaticTls
<1>4. \A u \in Threads \ {t} : tp'[u] = tp[u] /\ key'[u] = key[u] /\ tp[u] # a
  BY DEF EnsureStaticTls, TypeOK, ArenaInv
<1>5. /\ again' \subseteq Threads /\ (pos[t] > 2 => t \in again')
      /\ \A u \in Threads \ {t} : u \in again' <=> u \in again
  <2>1. again' = again \/ (again' = again \cup {t} /\ tp[t] = None)
    BY Zenon DEF EnsureStaticTls
  <2>2. again' \subseteq Threads /\ \A u \in Threads \ {t} : u \in again' <=> u \in again
    BY <2>1, Zenon DEF TypeOK
  <2>3. pos[t] > 2 => t \in again'
    BY Zenon DEF EnsureStaticTls, TypeOK, ArenaInv
  <2> QED
    BY <2>2, <2>3, Zenon
<1>6. mapped' = mapped \cup {a} /\ mapped' = {key'[u] : u \in Threads} \ {None}
  <2>1. mapped' = mapped \cup {a} /\ mapped = {key[u] : u \in Threads} \ {None}
    BY Zenon DEF EnsureStaticTls, ArenaInv
  <2>2. key[t] = None \/ key[t] = a
    BY <1>3, Zenon DEF ArenaInv
  <2> QED
    BY <2>1, <2>2, <1>2, <1>4, Zenon
<1> QED
  BY <1>1, <1>2, <1>3, <1>4, <1>5, <1>6, Zenon

\* A replay leaves the thread with its own values in every module of the registry.
LEMMA Replayed ==
  ASSUME IInv, NEW t \in Threads, NEW a \in Arenas, NEW reg \in Seq(Loads),
         \A i \in 1..Len(reg) : reg[i] = i, Len(registry) <= Len(reg), Len(reg) <= MaxLoads,
         EnsureStaticTls(t, a), ApplyStaticTls(t, a, reg)
  PROVE  /\ cells' \in [Arenas -> [Loads -> {"zero", "data", "own"}]]
         /\ \A b \in Arenas \ {a} : cells'[b] = cells[b]
         /\ \A o \in Loads \ late[t] :
              /\ o > Len(reg) => o \notin wrote[t]
              /\ o <= Len(reg) => cells'[a][o] = IF o \in wrote[t] THEN "own" ELSE "data"
<1> USE BoundsAssumption DEF IInv
<1>1. Contents(a) \in [Loads -> {"zero", "data", "own"}]
  BY Zenon DEF TypeOK, Contents, Zeros
<1>2. /\ cells' \in [Arenas -> [Loads -> {"zero", "data", "own"}]]
      /\ \A b \in Arenas \ {a} : cells'[b] = cells[b]
      /\ \A o \in Loads : cells'[a][o] = IF o \in Missing(t, reg) THEN "data" ELSE Contents(a)[o]
  BY <1>1, Zenon DEF TypeOK, ApplyStaticTls
<1>3. cursor[t] \in Nat /\ Len(reg) \in Nat /\ Loads \subseteq Nat \ {0} /\ cursor[t] <= Len(reg)
  <2>1. cursor[t] \in 0..MaxLoads /\ cursor[t] <= Len(registry) /\ registry \in Seq(Loads)
    BY Zenon DEF TypeOK, ValueInv
  <2>2. Len(reg) \in Nat /\ Len(registry) \in Nat
    BY <2>1, LenProperties, Zenon
  <2> HIDE DEF IInv
  <2> QED
    BY <2>1, <2>2 DEF Loads
<1>4. \A o \in Loads : o \in Missing(t, reg) <=> o > cursor[t] /\ o <= Len(reg)
  <2>1. \A i \in cursor[t] + 1 .. Len(reg) : reg[i] = i
    BY <1>3
  <2>2. Missing(t, reg) = cursor[t] + 1 .. Len(reg)
    BY <2>1, Zenon DEF Missing
  <2> QED
    BY <2>2, <1>3
<1>5. \A o \in Loads \ late[t] : o > Len(reg) => o \notin wrote[t]
  BY <1>3 DEF ValueInv
<1>6. ASSUME NEW o \in Loads \ late[t], o <= Len(reg)
      PROVE  cells'[a][o] = IF o \in wrote[t] THEN "own" ELSE "data"
  <2>1. CASE o > cursor[t]
    BY <2>1, <1>2, <1>4, <1>6, Zenon DEF ValueInv
  <2>2. CASE o <= cursor[t]
    <3>1. tp[t] = a /\ a \in mapped /\ a # None
      BY <2>2, <1>3, EnsureArena DEF ValueInv
    <3>2. cells'[a][o] = cells[a][o]
      BY <2>2, <3>1, <1>2, <1>3, <1>4 DEF Contents
    <3> QED
      BY <2>2, <3>1, <3>2, Zenon DEF ValueInv
  <2>3. o \in Nat
    BY <1>3, Zenon
  <2> QED
    BY <2>1, <2>2, <2>3, <1>3
<1> QED
  BY <1>2, <1>5, <1>6, Zenon

\* A thread whose own storage no step touches keeps its values.
LEMMA ValueKept ==
  ASSUME NEW u \in Threads, ValueInv(u), registry' = registry, desc' = desc,
         tp'[u] = tp[u], cursor'[u] = cursor[u], wrote'[u] = wrote[u], late'[u] = late[u],
         pc'[u] = pc[u] \/ pc'[u] # "use", lib'[u] = lib[u],
         tp[u] # None => cells'[tp[u]] = cells[tp[u]]
  PROVE  ValueInv(u)'
BY Zenon DEF ValueInv, Loads

\* The hook up to the load of the published count.
LEMMA GetTlsStep ==
  ASSUME IInv, NEW t \in Threads, NEW l \in 0..MaxLoads, GetTls(t, l),
         l # 0 => l \in loaded /\ desc[l] # 0
  PROVE  IInv'
<1> USE BoundsAssumption DEF IInv
<1>1. /\ pc' \in [Threads -> Places] /\ pc'[t] \in {"slow", "use"}
      /\ pc'[t] = "use" => cursor[t] = published
      /\ lib' \in [Threads -> 0..MaxLoads] /\ lib'[t] = l
      /\ \A u \in Threads \ {t} : pc'[u] = pc[u] /\ lib'[u] = lib[u]
  BY Zenon DEF TypeOK, GetTls, Goto, CaughtUp, Places
<1>2. UNCHANGED <<regVars, dlVars, round, pos, ghosts, cursor>>
  BY Zenon DEF GetTls, tlsVars
<1> DEFINE Owned == /\ tp' \in [Threads -> Arenas \cup {None}] /\ inited' \subseteq Threads
                    /\ key' \in [Threads -> Arenas \cup {None}]
                    /\ mapped' \subseteq Arenas /\ tcb' \subseteq mapped'
                    /\ cells' \in [Arenas -> [Loads -> {"zero", "data", "own"}]]
                    /\ again' \subseteq Threads
           Kept == /\ \A u \in Threads \ {t} : /\ tp'[u] = tp[u]
                                               /\ tp[u] # None => cells'[tp[u]] = cells[tp[u]]
                   /\ tp[t] # None => tp'[t] = tp[t] /\ cells'[tp[t]] = cells[tp[t]]
<1>3. Owned /\ Kept /\ ArenaInv'
  <2>1. CASE t \in inited
    <3>1. UNCHANGED <<tp, inited, key, mapped, tcb, cells, again>>
      BY <2>1, Zenon DEF GetTls, tlsVars
    <3>2. tp[t] \in tcb
      BY <2>1, Zenon DEF ArenaInv
    <3>3. ArenaInv'
      BY <3>1, <3>2, <1>1, <1>2 DEF ArenaInv
    <3> QED
      BY <3>1, <3>3, Zenon DEF TypeOK
  <2>2. CASE t \notin inited
    <3>1. PICK a \in Arenas :
            /\ EnsureStaticTls(t, a) /\ inited' = inited \cup {t}
            /\ tcb' = tcb \cup {a} /\ cells' = [cells EXCEPT ![a] = Contents(a)]
      BY <2>2, Zenon DEF GetTls
    <3>2. Contents(a) \in [Loads -> {"zero", "data", "own"}] /\ (a \in mapped => Contents(a) = cells[a])
      BY Zenon DEF TypeOK, Contents, Zeros
    <3>10. /\ tp' \in [Threads -> Arenas \cup {None}] /\ tp'[t] = a
           /\ key' \in [Threads -> Arenas \cup {None}] /\ again' \subseteq Threads
           /\ \A u \in Threads \ {t} : tp'[u] = tp[u] /\ tp[u] # a
           /\ mapped' = mapped \cup {a} /\ (a \in mapped <=> tp[t] = a)
           /\ tp[t] = None \/ tp[t] = a
      BY <3>1, EnsureArena
    <3>11. /\ cells' \in [Arenas -> [Loads -> {"zero", "data", "own"}]]
           /\ cells'[a] = Contents(a) /\ \A b \in Arenas \ {a} : cells'[b] = cells[b]
      BY <3>1, <3>2, Zenon DEF TypeOK
    <3>12. inited' \subseteq Threads /\ mapped' \subseteq Arenas /\ tcb' \subseteq mapped'
      <4>1. inited \subseteq Threads /\ mapped \subseteq Arenas /\ tcb \subseteq mapped
        BY Zenon DEF TypeOK
      <4>2. inited' = inited \cup {t} /\ tcb' = tcb \cup {a} /\ mapped' = mapped \cup {a}
        BY <3>1, <3>10, Zenon
      <4> QED
        BY <4>1, <4>2, Zenon
    <3>3. Owned
      BY <3>10, <3>11, <3>12, Zenon
    <3>4. Kept
      <4>1. \A u \in Threads : tp[u] # None => tp[u] \in Arenas
        BY Zenon DEF TypeOK
      <4>2. \A u \in Threads \ {t} : tp'[u] = tp[u] /\ tp[u] # a
        BY <3>10, Zenon
      <4>3. \A u \in Threads \ {t} : tp[u] # None => cells'[tp[u]] = cells[tp[u]]
        BY <3>11, <4>1, <4>2, Zenon
      <4>4. tp[t] # None => tp'[t] = tp[t] /\ cells'[tp[t]] = cells[tp[t]]
        BY <3>2, <3>10, <3>11, Zenon
      <4> QED
        BY <4>2, <4>3, <4>4, Zenon
    <3>5. \A u \in Threads : tp'[u] = key'[u]
      BY <3>1, EnsureArena DEF ArenaInv
    <3>6. /\ \A u \in Threads : u \in inited' => tp'[u] \in tcb'
          /\ \A u \in Threads : pc'[u] \in {"slow", "use"} => tp'[u] \in tcb'
      BY <1>1, <3>1, EnsureArena DEF ArenaInv
    <3>7. \A u \in Threads : pos'[u] > 2 /\ u \notin again' => key'[u] = None
      BY <1>2, <3>1, EnsureArena DEF ArenaInv
    <3>8. \A u, v \in Threads : u # v /\ key'[u] = key'[v] => key'[u] = None
      BY <3>1, EnsureArena DEF ArenaInv
    <3>9. ArenaInv'
      BY <3>1, <3>5, <3>6, <3>7, <3>8, EnsureArena, Zenon DEF ArenaInv
    <3> QED
      BY <3>3, <3>4, <3>9, Zenon
  <2> QED
    BY <2>1, <2>2, Zenon
<1> USE DEF regVars, dlVars, ghosts
<1>4. TypeOK'
  BY <1>1, <1>2, <1>3, Zenon DEF TypeOK, Loads
<1>5. LinkerInv'
  BY <1>2, Zenon DEF LinkerInv, Loads
<1>6. \A u \in Threads : CallInv(u)'
  BY <1>1, <1>2 DEF CallInv
<1>7. ASSUME NEW u \in Threads
      PROVE  ValueInv(u)'
  <2>1. CASE u # t
    BY <2>1, <1>1, <1>2, <1>3, ValueKept, Zenon
  <2>2. CASE u = t
    <3>1. /\ cursor'[t] <= Len(registry')
          /\ tp'[t] = None => cursor'[t] = 0 /\ wrote'[t] = {} /\ late'[t] = {}
      BY <1>2, <1>3, Zenon DEF ValueInv
    <3>2. ASSUME NEW o \in Loads \ late[t]
          PROVE  /\ o > cursor'[t] => o \notin wrote'[t]
                 /\ tp'[t] # None /\ o <= cursor'[t] =>
                      cells'[tp'[t]][o] = IF o \in wrote'[t] THEN "own" ELSE "data"
      BY <1>2, <1>3, <3>2 DEF ValueInv, Loads
    <3>3. pc'[t] = "use" /\ lib'[t] # 0 =>
            desc'[lib'[t]] <= cursor'[t] \/ desc'[lib'[t]] \in late'[t]
      BY <1>1, <1>2 DEF LinkerInv, Loads
    <3> QED
      BY <2>2, <1>2, <3>1, <3>2, <3>3, Zenon DEF ValueInv, Loads
  <2> QED
    BY <2>1, <2>2, Zenon
<1> QED
  BY <1>3, <1>4, <1>5, <1>6, <1>7, Zenon

\* The three ways into the hook, and the inline access that finds the TCB.
LEMMA EntryStep ==
  ASSUME IInv, NEW t \in Threads, NEW l \in Loads,
         Hook(t) \/ ThreadWrapper(t) \/ Resolve(t, l) \/ Thunk(t, l)
  PROVE  IInv'
<1> USE BoundsAssumption
<1>1. CASE Hook(t) \/ ThreadWrapper(t)
  BY <1>1, GetTlsStep DEF Hook, ThreadWrapper
<1>2. CASE Resolve(t, l)
  BY <1>2, GetTlsStep DEF Resolve, Loads
<1>3. CASE Thunk(t, l) /\ (tp[t] = None \/ tp[t] \notin tcb)
  BY <1>3, GetTlsStep DEF Thunk, Loads
<1>4. CASE Thunk(t, l) /\ ~(tp[t] = None \/ tp[t] \notin tcb)
  <2> USE DEF IInv
  <2> DEFINE new == {desc[l]} \ {registry[i] : i \in 1..cursor[t]}
  <2>1. /\ pc' \in [Threads -> Places] /\ pc'[t] = "use"
        /\ lib' \in [Threads -> 0..MaxLoads] /\ lib'[t] = l
        /\ \A u \in Threads \ {t} : pc'[u] = pc[u] /\ lib'[u] = lib[u]
    <3>1. lib' = [lib EXCEPT ![t] = l] /\ pc' = [pc EXCEPT ![t] = "use"]
      BY <1>4, Zenon DEF Thunk, Goto
    <3>2. pc \in [Threads -> Places] /\ lib \in [Threads -> 0..MaxLoads] /\ l \in 0..MaxLoads
      BY DEF TypeOK, Loads
    <3>3. "use" \in Places
      BY Zenon DEF Places
    <3> QED
      BY <3>1, <3>2, <3>3, Zenon
  <2>2. /\ UNCHANGED <<tlsVars, regVars, dlVars, tsdVars, wrote>>
        /\ l \in loaded /\ desc[l] # 0 /\ tp[t] # None /\ tp[t] \in tcb
    BY <1>4, Zenon DEF Thunk
  <2>3. /\ late' = [late EXCEPT ![t] = @ \cup new]
        /\ desc[l] \in Loads
    <3>1. desc[l] \in Loads
      BY <2>2 DEF TypeOK, Loads
    <3> QED
      BY <1>4, <3>1, Zenon DEF Thunk
  <2>4. /\ late' \in [Threads -> SUBSET Loads] /\ late'[t] = late[t] \cup new
        /\ \A u \in Threads \ {t} : late'[u] = late[u]
    BY <2>3, Zenon DEF TypeOK
  <2>5. desc[l] <= cursor[t] \/ desc[l] \in late'[t]
    <3>1. \A i \in 1..cursor[t] : registry[i] = i /\ i <= cursor[t]
      BY DEF TypeOK, LinkerInv, ValueInv
    <3> QED
      BY <2>4, <3>1
  <2> USE DEF tlsVars, regVars, dlVars, tsdVars
  <2>6. TypeOK'
    BY <2>1, <2>2, <2>4, Zenon DEF TypeOK, Loads
  <2>7. LinkerInv'
    BY <2>2, Zenon DEF LinkerInv, Loads
  <2>8. ArenaInv'
    BY <2>1, <2>2 DEF ArenaInv
  <2>9. \A u \in Threads : CallInv(u)'
    BY <2>1, <2>2 DEF CallInv
  <2>10. ASSUME NEW u \in Threads
         PROVE  ValueInv(u)'
    <3>1. CASE u # t
      BY <3>1, <2>1, <2>2, <2>4, ValueKept, Zenon
    <3>2. CASE u = t
      BY <3>2, <2>1, <2>2, <2>4, <2>5, Zenon DEF ValueInv, Loads
    <3> QED
      BY <3>1, <3>2, Zenon
  <2> QED
    BY <2>6, <2>7, <2>8, <2>9, <2>10, Zenon
<1> QED
  BY <1>1, <1>2, <1>3, <1>4, Zenon

\* A write through a resolved offset goes to the arena of its own thread.
LEMMA UseStep ==
  ASSUME IInv, NEW t \in Threads, Use(t)
  PROVE  IInv'
<1> USE BoundsAssumption DEF IInv
<1> DEFINE o == desc[lib[t]]
<1>1. /\ pc' \in [Threads -> Places] /\ pc'[t] \in {"run", "destructor"}
      /\ lib' \in [Threads -> 0..MaxLoads]
      /\ \A u \in Threads \ {t} : pc'[u] = pc[u] /\ lib'[u] = lib[u]
  BY DEF TypeOK, Use, Goto, Home, Places
<1>2. /\ UNCHANGED <<tp, inited, cursor, key, mapped, tcb, regVars, dlVars, tsdVars, late>>
      /\ pc[t] = "use"
  BY Zenon DEF Use
<1>3. tp[t] \in Arenas /\ tp[t] # None /\ \A u \in Threads \ {t} : tp[u] # tp[t]
  BY <1>2, Zenon DEF TypeOK, ArenaInv
<1> DEFINE Types == /\ cells' \in [Arenas -> [Loads -> {"zero", "data", "own"}]]
                    /\ wrote' \in [Threads -> SUBSET Loads]
           Others == \A u \in Threads \ {t} :
                       wrote'[u] = wrote[u] /\ (tp[u] # None => cells'[tp[u]] = cells[tp[u]])
           Mine == \A p \in Loads \ late[t] :
                     /\ p > cursor[t] => p \notin wrote'[t]
                     /\ p <= cursor[t] =>
                          cells'[tp[t]][p] = IF p \in wrote'[t] THEN "own" ELSE "data"
<1>4. Types /\ Others /\ Mine
  <2>1. CASE UNCHANGED <<cells, wrote>>
    BY <2>1, <1>3, Zenon DEF TypeOK, ValueInv
  <2>2. CASE /\ lib[t] # 0 /\ cells' = [cells EXCEPT ![tp[t]][o] = "own"]
             /\ wrote' = [wrote EXCEPT ![t] = @ \cup {o}]
    <3>1. o \in Loads /\ (o <= cursor[t] \/ o \in late[t])
      <4>1. lib[t] \in Loads
        BY <2>2 DEF TypeOK, Loads
      <4>2. desc[lib[t]] \in 0..MaxLoads /\ desc[lib[t]] # 0
        BY <1>2, <2>2, <4>1, Zenon DEF TypeOK, CallInv
      <4>3. desc[lib[t]] \in Loads
        BY <4>2 DEF Loads
      <4> QED
        BY <1>2, <2>2, <4>3, Zenon DEF ValueInv
    <3> HIDE DEF o
    <3>2. Types
      BY <2>2, <3>1, <1>3, Zenon DEF TypeOK
    <3>3. /\ wrote'[t] = wrote[t] \cup {o} /\ \A u \in Threads \ {t} : wrote'[u] = wrote[u]
      BY <2>2, Zenon DEF TypeOK
    <3>4. /\ \A b \in Arenas \ {tp[t]} : cells'[b] = cells[b]
          /\ cells'[tp[t]] = [cells[tp[t]] EXCEPT ![o] = "own"]
      BY <2>2, <1>3, Zenon DEF TypeOK
    <3>5. Others
      <4>1. \A u \in Threads \ {t} : tp[u] # None => tp[u] \in Arenas \ {tp[t]}
        BY <1>3, Zenon DEF TypeOK
      <4> QED
        BY <3>3, <3>4, <4>1, Zenon
    <3>6. \A p \in Loads : cells'[tp[t]][p] = IF p = o THEN "own" ELSE cells[tp[t]][p]
      BY <3>4, <1>3, Zenon DEF TypeOK
    <3>7. Loads \subseteq Nat /\ cursor[t] \in Nat
      BY DEF TypeOK, Loads
    <3>8. ASSUME NEW p \in Loads \ late[t]
          PROVE  /\ p > cursor[t] => p \notin wrote'[t]
                 /\ p <= cursor[t] =>
                      cells'[tp[t]][p] = IF p \in wrote'[t] THEN "own" ELSE "data"
      BY <3>1, <3>3, <3>6, <3>7, <3>8, <1>3 DEF ValueInv
    <3>9. Mine
      BY <3>8, Zenon
    <3> QED
      BY <3>2, <3>5, <3>9, Zenon
  <2> QED
    BY <2>1, <2>2, Zenon DEF Use
<1> USE DEF regVars, dlVars, tsdVars
<1>5. TypeOK'
  BY <1>1, <1>2, <1>4, Zenon DEF TypeOK, Loads
<1>6. LinkerInv'
  BY <1>2, Zenon DEF LinkerInv, Loads
<1>7. ArenaInv'
  BY <1>1, <1>2, Zenon DEF ArenaInv
<1>8. \A u \in Threads : CallInv(u)'
  BY <1>1, <1>2 DEF CallInv
<1>9. ASSUME NEW u \in Threads
      PROVE  ValueInv(u)'
  <2>1. CASE u # t
    <3>1. /\ wrote'[u] = wrote[u] /\ (tp[u] # None => cells'[tp[u]] = cells[tp[u]])
          /\ pc'[u] = pc[u] /\ lib'[u] = lib[u]
      BY <2>1, <1>1, <1>4, Zenon
    <3> HIDE DEF Types, Others, Mine
    <3> QED
      BY <3>1, <1>2 DEF ValueInv, Loads
  <2>2. CASE u = t
    BY <2>2, <1>1, <1>2, <1>3, <1>4, Zenon DEF ValueInv, Loads
  <2> QED
    BY <2>1, <2>2, Zenon
<1> QED
  BY <1>5, <1>6, <1>7, <1>8, <1>9, Zenon

-----------------------------------------------------------------------------
\* hybris_ensure_static_tls() keeps what is known of the arenas.
LEMMA EnsureKeeps ==
  ASSUME IInv, NEW t \in Threads, NEW a \in Arenas, EnsureStaticTls(t, a),
         UNCHANGED <<inited, tcb, pos>>, \A u \in Threads \ {t} : pc'[u] = pc[u],
         pc'[t] \in {"slow", "use"} => a \in tcb
  PROVE  ArenaInv'
<1> USE BoundsAssumption DEF IInv
<1>1. \A u \in Threads : tp'[u] = key'[u]
  BY EnsureArena DEF ArenaInv
<1>2. t \in inited => a \in tcb
  <2>1. t \in inited => tp[t] \in tcb /\ tp[t] # None
    BY Zenon DEF ArenaInv, TypeOK
  <2> QED
    BY <2>1, EnsureArena
<1>3. /\ \A u \in Threads : u \in inited' => tp'[u] \in tcb'
      /\ \A u \in Threads : pc'[u] \in {"slow", "use"} => tp'[u] \in tcb'
  BY <1>2, EnsureArena DEF ArenaInv
<1>4. \A u \in Threads : pos'[u] > 2 /\ u \notin again' => key'[u] = None
  BY EnsureArena DEF ArenaInv
<1>5. \A u, v \in Threads : u # v /\ key'[u] = key'[v] => key'[u] = None
  BY EnsureArena DEF ArenaInv
<1> QED
  BY <1>1, <1>3, <1>4, <1>5, EnsureArena, Zenon DEF ArenaInv

\* The replay copies the entries past the cursor, and over no live data.
LEMMA CatchUpStep ==
  ASSUME IInv, NEW t \in Threads, CatchUp(t)
  PROVE  IInv'
<1> USE BoundsAssumption DEF IInv
<1>1. PICK a \in Arenas : EnsureStaticTls(t, a) /\ ApplyStaticTls(t, a, registry)
  BY Zenon DEF CatchUp
<1>2. /\ UNCHANGED <<inited, tcb, regVars, dlVars, lib, round, pos, ghosts>>
      /\ pc' = [pc EXCEPT ![t] = "use"] /\ cursor' = [cursor EXCEPT ![t] = Len(registry)]
      /\ pc[t] = "slow"
  BY Zenon DEF CatchUp, Goto
<1>3. registry \in Seq(Loads) /\ Len(registry) \in 0..MaxLoads
  BY Zenon DEF TypeOK, LinkerInv
<1>4. /\ pc' \in [Threads -> Places] /\ pc'[t] = "use"
      /\ cursor' \in [Threads -> 0..MaxLoads] /\ cursor'[t] = Len(registry)
      /\ \A u \in Threads \ {t} : pc'[u] = pc[u] /\ cursor'[u] = cursor[u]
  BY <1>2, <1>3, Zenon DEF TypeOK, Places
<1>5. a \in tcb /\ tp[t] = a
  <2>1. tp[t] \in tcb /\ tp[t] # None
    BY <1>2, Zenon DEF ArenaInv, TypeOK
  <2> QED
    BY <2>1, <1>1, EnsureArena, Zenon
<1>6. ArenaInv'
  BY <1>1, <1>2, <1>4, <1>5, EnsureKeeps, Zenon
<1>7. /\ tp' \in [Threads -> Arenas \cup {None}] /\ key' \in [Threads -> Arenas \cup {None}]
      /\ mapped' = mapped \cup {a} /\ again' \subseteq Threads /\ tp'[t] = a
      /\ \A u \in Threads \ {t} : tp'[u] = tp[u] /\ tp[u] # a
  BY <1>1, EnsureArena
<1>8. /\ cells' \in [Arenas -> [Loads -> {"zero", "data", "own"}]]
      /\ \A b \in Arenas \ {a} : cells'[b] = cells[b]
      /\ \A o \in Loads \ late[t] :
           /\ o > Len(registry) => o \notin wrote[t]
           /\ o <= Len(registry) => cells'[a][o] = IF o \in wrote[t] THEN "own" ELSE "data"
  BY <1>1, <1>3, Replayed DEF LinkerInv
<1> USE DEF regVars, dlVars, ghosts
<1>9. TypeOK'
  BY <1>2, <1>4, <1>7, <1>8, Zenon DEF TypeOK, Loads
<1>10. LinkerInv'
  BY <1>2, Zenon DEF LinkerInv, Loads
<1>11. \A u \in Threads : CallInv(u)'
  BY <1>2, <1>4, Zenon DEF CallInv
<1>12. ASSUME NEW u \in Threads
       PROVE  ValueInv(u)'
  <2>1. CASE u # t
    <3>1. tp[u] # None => cells'[tp[u]] = cells[tp[u]]
      BY <2>1, <1>7, <1>8 DEF TypeOK
    <3>2. tp'[u] = tp[u] /\ cursor'[u] = cursor[u] /\ pc'[u] = pc[u]
      BY <2>1, <1>4, <1>7, Zenon
    <3> QED
      BY <3>1, <3>2, <1>2 DEF ValueInv, Loads
  <2>2. CASE u = t
    <3>1. lib[t] # 0 => desc[lib[t]] <= Len(registry)
      <4>1. published \in 0..Len(registry) /\ (lib[t] # 0 => lib[t] \in Loads)
        BY DEF TypeOK, Loads
      <4>2. \A l \in Loads : desc[l] \in Nat /\ desc[l] <= published
        BY DEF TypeOK, LinkerInv
      <4> QED
        BY <4>1, <4>2, <1>3
    <3>2. tp'[t] # None /\ cursor'[t] = Len(registry) /\ late' = late /\ wrote' = wrote
      BY <1>2, <1>4, <1>7, Zenon
    <3>3. \A o \in Loads \ late'[t] :
            /\ o > cursor'[t] => o \notin wrote'[t]
            /\ o <= cursor'[t] =>
                 cells'[tp'[t]][o] = IF o \in wrote'[t] THEN "own" ELSE "data"
      BY <3>2, <1>7, <1>8, Zenon
    <3> QED
      BY <2>2, <3>1, <3>2, <3>3, <1>2, <1>3 DEF ValueInv, Loads
  <2> QED
    BY <2>1, <2>2, Zenon
<1> QED
  BY <1>6, <1>9, <1>10, <1>11, <1>12, Zenon

\* The cleanup and the end of a thread leave it without an arena; what other
\* threads have stays.
LEMMA ReleaseStep ==
  ASSUME IInv, NEW t \in Threads, CleanupArena(t) \/ Gone(t)
  PROVE  IInv'
<1> USE BoundsAssumption DEF IInv
<1> DEFINE Frame == UNCHANGED <<regVars, dlVars, lib>>
           Types == /\ pc' \in [Threads -> Places] /\ round' \in [Threads -> 0..MaxRounds]
                    /\ pos' \in [Threads -> 1..4] /\ again' \subseteq Threads
           Mine == /\ tp'[t] = None /\ key'[t] = None /\ t \notin inited' /\ cursor'[t] = 0
                   /\ wrote'[t] = {} /\ late'[t] = {} /\ pc'[t] \in {"exit", "dead"}
           Others == \A u \in Threads \ {t} :
                       /\ tp'[u] = tp[u] /\ key'[u] = key[u] /\ cursor'[u] = cursor[u]
                       /\ u \in inited' <=> u \in inited
                       /\ wrote'[u] = wrote[u] /\ late'[u] = late[u] /\ pc'[u] = pc[u]
                       /\ pos'[u] = pos[u] /\ (u \in again' <=> u \in again)
           Funs == /\ tp' \in [Threads -> Arenas \cup {None}]
                   /\ key' \in [Threads -> Arenas \cup {None}]
                   /\ inited' \subseteq Threads /\ cursor' \in [Threads -> 0..MaxLoads]
                   /\ wrote' \in [Threads -> SUBSET Loads] /\ late' \in [Threads -> SUBSET Loads]
           Memory == /\ mapped' = mapped \ {key[t]} /\ tcb' = tcb \ {key[t]}
                     /\ cells' \in [Arenas -> [Loads -> {"zero", "data", "own"}]]
                     /\ \A b \in Arenas \ {key[t]} : cells'[b] = cells[b]
<1>1. Frame /\ Types /\ Mine /\ Others /\ Funs /\ Memory
  <2>0. /\ Zeros \in [Loads -> {"zero", "data", "own"}] /\ 0 \in 0..MaxLoads
        /\ mapped \ {None} = mapped /\ tcb \ {None} = tcb
    <3>1. Zeros \in [Loads -> {"zero", "data", "own"}]
      BY Zenon DEF Zeros
    <3>2. None \notin mapped /\ None \notin tcb
      BY Zenon DEF TypeOK
    <3>3. 0 \in 0..MaxLoads
      BY BoundsAssumption
    <3> QED
      BY <3>1, <3>2, <3>3, Zenon
  <2>1. CASE CleanupArena(t) /\ key[t] = None
    <3>1. /\ UNCHANGED <<tlsVars, ghosts>> /\ UNCHANGED <<regVars, dlVars, pc, lib, round, again>>
          /\ pos' = [pos EXCEPT ![t] = 3] /\ pc[t] = "exit"
      BY <2>1, Zenon DEF CleanupArena
    <3>2. t \notin inited /\ tp[t] = None
      BY <2>1, Zenon DEF ArenaInv, TypeOK
    <3> USE DEF tlsVars, ghosts
    <3>3. Types /\ Funs
      BY <3>1 DEF TypeOK
    <3>4. Mine
      BY <3>1, <3>2, <2>1, Zenon DEF ValueInv
    <3>5. Others
      BY <3>1, Zenon DEF TypeOK
    <3>6. Memory
      <4>1. cells \in [Arenas -> [Loads -> {"zero", "data", "own"}]]
        BY Zenon DEF TypeOK
      <4> QED
        BY <3>1, <4>1, <2>0, <2>1, Zenon
    <3> QED
      BY <3>1, <3>3, <3>4, <3>5, <3>6, Zenon
  <2>2. CASE CleanupArena(t) /\ key[t] # None
    <3>1. /\ UNCHANGED <<regVars, dlVars, pc, lib, round, again>> /\ pc[t] = "exit"
          /\ pos' = [pos EXCEPT ![t] = 3]
          /\ key' = [key EXCEPT ![t] = None] /\ tp' = [tp EXCEPT ![t] = None]
          /\ inited' = inited \ {t} /\ cursor' = [cursor EXCEPT ![t] = 0]
          /\ mapped' = mapped \ {key[t]} /\ tcb' = tcb \ {key[t]}
          /\ cells' = [cells EXCEPT ![key[t]] = Zeros]
          /\ wrote' = [wrote EXCEPT ![t] = {}] /\ late' = [late EXCEPT ![t] = {}]
      BY <2>2, Zenon DEF CleanupArena, StillInited
    <3>2. Types
      <4>1. pos \in [Threads -> 1..4] /\ pc' = pc /\ round' = round /\ again' = again
        BY <3>1, Zenon DEF TypeOK
      <4>2. pos' \in [Threads -> 1..4]
        BY <3>1, <4>1
      <4> QED
        BY <4>1, <4>2, Zenon DEF TypeOK
    <3>3. Funs
      BY <3>1, <2>0, Zenon DEF TypeOK
    <3>4. Mine
      BY <3>1, Zenon DEF TypeOK
    <3>5. Others
      BY <3>1, Zenon DEF TypeOK
    <3>6. Memory
      BY <3>1, <2>0, Zenon DEF TypeOK
    <3> QED
      BY <3>1, <3>2, <3>3, <3>4, <3>5, <3>6, Zenon
  <2>3. CASE Gone(t)
    <3> DEFINE lost == IF t \in again THEN {key[t]} ELSE {}
    <3>1. /\ UNCHANGED <<regVars, dlVars, lib>> /\ pc[t] = "exit" /\ pos[t] > 2
          /\ pc' = [pc EXCEPT ![t] = "dead"] /\ round' = [round EXCEPT ![t] = 0]
          /\ pos' = [pos EXCEPT ![t] = 1] /\ again' = again \ {t}
          /\ key' = [key EXCEPT ![t] = None] /\ tp' = [tp EXCEPT ![t] = None]
          /\ inited' = inited \ {t} /\ cursor' = [cursor EXCEPT ![t] = 0]
          /\ mapped' = mapped \ lost /\ tcb' = tcb \ lost
          /\ cells' = [a \in Arenas |-> IF a \in lost THEN Zeros ELSE cells[a]]
          /\ wrote' = [wrote EXCEPT ![t] = {}] /\ late' = [late EXCEPT ![t] = {}]
      BY <2>3, Zenon DEF Gone, Goto
    <3>2. Types
      <4>1. 0 \in 0..MaxLoads /\ 0 \in 0..MaxRounds /\ 1 \in 1..4
        BY BoundsAssumption
      <4> QED
        BY <3>1, <4>1, Zenon DEF TypeOK, Places
    <3>3. Funs
      BY <3>1, <2>0, Zenon DEF TypeOK
    <3>4. Mine
      BY <3>1, Zenon DEF TypeOK
    <3>5. Others
      BY <3>1, Zenon DEF TypeOK
    <3>6. lost = {key[t]} \/ (lost = {} /\ key[t] = None)
      BY <3>1, Zenon DEF ArenaInv
    <3> HIDE DEF lost
    <3>7. Memory
      BY <3>1, <3>6, <2>0, Zenon DEF TypeOK
    <3> QED
      BY <3>1, <3>2, <3>3, <3>4, <3>5, <3>7, Zenon
  <2> QED
    BY <2>1, <2>2, <2>3, Zenon
<1>2. TypeOK'
  <2>1. mapped' \subseteq Arenas /\ tcb' \subseteq mapped'
    BY <1>1, Zenon DEF TypeOK
  <2> QED
    BY <1>1, <2>1, Zenon DEF TypeOK, Loads, regVars, dlVars
<1>3. LinkerInv'
  BY <1>1, Zenon DEF LinkerInv, Loads, regVars, dlVars
<1>4. ArenaInv'
  <2>1. \A u \in Threads \ {t} : tp[u] = None \/ tp[u] # key[t]
    BY Zenon DEF ArenaInv
  <2>2. None \notin tcb
    BY Zenon DEF TypeOK
  <2>3. \A u \in Threads \ {t} : tp[u] \in tcb => tp'[u] \in tcb'
    BY <1>1, <2>1, <2>2, Zenon
  <2>4. /\ \A u \in Threads : tp'[u] = key'[u] /\ (u \in inited' => tp'[u] \in tcb')
        /\ \A u \in Threads : pc'[u] \in {"slow", "use"} => tp'[u] \in tcb'
    BY <1>1, <2>3 DEF ArenaInv
  <2>5. \A u \in Threads : pos'[u] > 2 /\ u \notin again' => key'[u] = None
    BY <1>1, Zenon DEF ArenaInv
  <2>6. \A u, v \in Threads : u # v /\ key'[u] = key'[v] => key'[u] = None
    BY <1>1 DEF ArenaInv
  <2>7. mapped' = {key'[u] : u \in Threads} \ {None}
    <3>1. /\ key'[t] = None /\ \A u \in Threads \ {t} : key'[u] = key[u]
          /\ mapped' = mapped \ {key[t]}
      BY <1>1, Zenon
    <3>2. /\ \A x \in mapped : x # None /\ \E u \in Threads : x = key[u]
          /\ \A u \in Threads : key[u] # None => key[u] \in mapped
          /\ \A u, v \in Threads : u # v /\ key[u] = key[v] => key[u] = None
      BY Zenon DEF ArenaInv
    <3> HIDE DEF IInv, Frame, Types, Mine, Others, Funs, Memory
    <3>3. ASSUME NEW x \in mapped' PROVE x # None /\ \E u \in Threads : x = key'[u]
      BY <3>1, <3>2, <3>3, ZenonT(30)
    <3>4. ASSUME NEW u \in Threads, key'[u] # None PROVE key'[u] \in mapped'
      BY <3>1, <3>2, <3>4, Zenon
    <3> QED
      BY <3>3, <3>4, Zenon
  <2> QED
    BY <2>4, <2>5, <2>6, <2>7, Zenon DEF ArenaInv
<1>5. \A u \in Threads : CallInv(u)'
  BY <1>1 DEF CallInv, regVars, dlVars
<1>6. ASSUME NEW u \in Threads
      PROVE  ValueInv(u)'
  <2>1. CASE u # t
    <3>1. tp[u] # None => tp[u] \in Arenas \ {key[t]}
      BY <2>1, Zenon DEF TypeOK, ArenaInv
    <3>2. tp[u] # None => cells'[tp[u]] = cells[tp[u]]
      BY <3>1, <1>1, Zenon
    <3>3. /\ tp'[u] = tp[u] /\ cursor'[u] = cursor[u] /\ pc'[u] = pc[u]
          /\ wrote'[u] = wrote[u] /\ late'[u] = late[u]
          /\ registry' = registry /\ lib' = lib /\ desc' = desc
      BY <2>1, <1>1, Zenon DEF regVars, dlVars
    <3> HIDE DEF Frame, Types, Mine, Others, Funs, Memory
    <3> QED
      BY <3>2, <3>3, ValueKept, Zenon
  <2>2. CASE u = t
    <3>1. /\ cursor'[t] = 0 /\ tp'[t] = None /\ wrote'[t] = {} /\ late'[t] = {}
          /\ pc'[t] # "use"
      BY <1>1, Zenon
    <3>2. cursor'[t] <= Len(registry')
      BY <3>1, <1>2, LenProperties DEF TypeOK
    <3> QED
      BY <2>2, <3>1, <3>2, Zenon DEF ValueInv
  <2> QED
    BY <2>1, <2>2, Zenon
<1> QED
  BY <1>2, <1>3, <1>4, <1>5, <1>6, Zenon

-----------------------------------------------------------------------------

\* An entry of g_tls_modules.
Slot == [si : 0..MaxLoads, off : 0..MaxLoads]

-----------------------------------------------------------------------------
\* A step of the linker that leaves the arenas alone, when the thread is not in
\* the hook afterwards.
LEMMA LinkerKeeps ==
  ASSUME IInv, NEW t \in Threads, NEW p, p \in Places \ {"slow", "use"},
         pc' = [pc EXCEPT ![t] = p], UNCHANGED <<tlsVars, tsdVars>>
  PROVE  /\ ArenaInv' /\ pc' \in [Threads -> Places] /\ pc'[t] = p
         /\ \A u \in Threads \ {t} : pc'[u] = pc[u]
<1>1. /\ pc' \in [Threads -> Places] /\ pc'[t] = p
      /\ \A u \in Threads \ {t} : pc'[u] = pc[u]
  BY Zenon DEF IInv, TypeOK
<1>2. ArenaInv'
  BY <1>1 DEF IInv, ArenaInv, tlsVars, tsdVars
<1> QED
  BY <1>1, <1>2, Zenon

\* A load takes a slot that has no library and no static offset.
LEMMA DlopenStep ==
  ASSUME IInv, NEW t \in Threads, Dlopen(t)
  PROVE  IInv'
<1> USE BoundsAssumption DEF IInv
<1> DEFINE n == loads + 1
           e == [si |-> n, off |-> 0]
<1>1. PICK i \in 1..Len(slots) + 1 :
        /\ UnusedModuleIndex(i) /\ modid' = [modid EXCEPT ![n] = i]
        /\ slots' = IF i > Len(slots) THEN Append(slots, e) ELSE [slots EXCEPT ![i] = e]
  BY Zenon DEF Dlopen
<1>2. /\ UNCHANGED <<tlsVars, regVars, layout, desc, loaded, tsdVars, ghosts>>
      /\ pc' = [pc EXCEPT ![t] = "relocate"] /\ lib' = [lib EXCEPT ![t] = n]
      /\ dlLock' = t /\ loads' = n /\ loads < MaxLoads /\ dlLock = None
  BY Zenon DEF Dlopen, Goto
<1>3. n \in Loads /\ n \in 0..MaxLoads /\ loads \in Nat /\ n \notin loaded
  BY <1>2 DEF TypeOK, Loads
<1>4. slots \in Seq(Slot) /\ e \in Slot
  BY <1>3 DEF TypeOK, Slot
<1>5. /\ slots' \in Seq(Slot) /\ Len(slots) <= Len(slots') /\ i \in 1..Len(slots')
      /\ slots'[i] = e
      /\ \A j \in 1..Len(slots') : j # i => j \in 1..Len(slots) /\ slots'[j] = slots[j]
  <2> HIDE DEF e
  <2>1. CASE i > Len(slots)
    <3>1. i = Len(slots) + 1 /\ slots' = Append(slots, e)
      BY <2>1, <1>1, <1>4
    <3> QED
      BY <3>1, <1>4, AppendProperties
  <2>2. CASE ~(i > Len(slots))
    <3>1. i \in 1..Len(slots) /\ slots' = [slots EXCEPT ![i] = e]
      BY <2>2, <1>1, <1>4
    <3> QED
      BY <3>1, <1>4, ExceptSeq
  <2> QED
    BY <2>1, <2>2, Zenon
<1>6. \A l \in Loads : modid[l] # i
  <2> SUFFICES ASSUME NEW l \in Loads, modid[l] = i PROVE FALSE
    OBVIOUS
  <2>1. i \in 1..Len(slots)
    BY <1>1 DEF TypeOK
  <2>2. slots[i].si = 0 /\ slots[i].si = l
    BY <2>1, <1>1 DEF UnusedModuleIndex, Recyclable, LinkerInv
  <2> QED
    BY <2>2 DEF Loads
<1>7. /\ modid' \in [Loads -> 0..Len(slots')] /\ modid'[n] = i
      /\ \A l \in Loads \ {n} : modid'[l] = modid[l]
  <2>1. modid \in [Loads -> 0..Len(slots)]
    BY Zenon DEF TypeOK
  <2>2. modid \in [Loads -> 0..Len(slots')] /\ i \in 0..Len(slots')
    BY <2>1, <1>4, <1>5
  <2> QED
    BY <2>2, <1>1, <1>3, Zenon
<1>8. /\ ArenaInv' /\ pc' \in [Threads -> Places] /\ pc'[t] = "relocate"
      /\ \A u \in Threads \ {t} : pc'[u] = pc[u]
  BY <1>2, LinkerKeeps, Zenon DEF Places
<1>9. /\ lib' \in [Threads -> 0..MaxLoads] /\ lib'[t] = n
      /\ \A u \in Threads \ {t} : lib'[u] = lib[u]
  BY <1>2, <1>3, Zenon DEF TypeOK
<1> HIDE DEF n
<1>10. TypeOK'
  <2>1. loaded' \subseteq 1..loads' /\ loads' \in 0..MaxLoads
    BY <1>2, <1>3 DEF TypeOK, n
  <2> QED
    BY <1>2, <1>5, <1>7, <1>8, <1>9, <2>1, Zenon
    DEF TypeOK, Loads, Slot, tlsVars, regVars, tsdVars, ghosts
<1>11. LinkerInv'
  <2>1. layout' = Len(registry') /\ layout' <= loads' /\ layout' \in Nat
    BY <1>2, <1>3 DEF LinkerInv, TypeOK, regVars, n
  <2>2. \A j \in 1..Len(slots') : slots'[j].off <= layout'
    BY <1>2, <1>5, <2>1 DEF LinkerInv
  <2>3. ASSUME NEW l \in Loads, modid'[l] # 0
        PROVE  slots'[modid'[l]].si = l
    <3>1. CASE l = n
      BY <3>1, <1>5, <1>7
    <3>2. CASE l # n
      <4>1. modid'[l] = modid[l] /\ modid[l] # i /\ modid'[l] \in 1..Len(slots')
        BY <3>2, <2>3, <1>6, <1>7
      <4> QED
        BY <4>1, <2>3, <1>5, Zenon DEF LinkerInv
    <3> QED
      BY <3>1, <3>2, Zenon
  <2>4. \A l \in loaded' : modid'[l] # 0
    <3>1. loaded \subseteq Loads
      BY DEF TypeOK, Loads
    <3> QED
      BY <3>1, <1>2, <1>3, <1>7, Zenon DEF LinkerInv
  <2> QED
    BY <2>1, <2>2, <2>3, <2>4, <1>2, Zenon DEF LinkerInv, Loads, regVars
<1>12. ASSUME NEW u \in Threads
       PROVE  CallInv(u)'
  <2>1. CASE u = t
    <3>1. layout' < loads' /\ n \in 1..loads'
      <4>1. layout' = layout /\ loads' = n /\ layout \in Nat /\ layout <= loads
        BY <1>2 DEF LinkerInv, TypeOK
      <4> QED
        BY <4>1, <1>3 DEF n
    <3>2. modid'[n] # 0
      BY <1>7, <1>1
    <3> QED
      BY <2>1, <3>1, <3>2, <1>2, <1>3, <1>8, <1>9, Zenon DEF CallInv
  <2>2. CASE u # t
    <3>1. pc[u] \notin {"relocate", "publish", "linked"}
      BY <1>2, Zenon DEF CallInv
    <3> QED
      BY <2>2, <3>1, <1>2, <1>8, <1>9, Zenon DEF CallInv
  <2> QED
    BY <2>1, <2>2, Zenon
<1>13. ASSUME NEW u \in Threads
       PROVE  ValueInv(u)'
  <2>1. pc'[u] = "use" => pc[u] = "use" /\ lib'[u] = lib[u]
    BY <1>8, <1>9, Zenon
  <2> QED
    BY <2>1, <1>2, Zenon DEF ValueInv, Loads, tlsVars, regVars, ghosts
<1> QED
  BY <1>8, <1>10, <1>11, <1>12, <1>13, Zenon

\* g_dl_mutex admits one thread to the linker.
LEMMA OneLinks ==
  ASSUME IInv, NEW t \in Threads, dlLock \in {t, None}
  PROVE  \A u \in Threads \ {t} : pc[u] \notin {"relocate", "publish", "linked"}
BY BoundsAssumption, Zenon DEF IInv, CallInv

\* Promotion takes an offset that no library has had, and registers it.
LEMMA PromoteStep ==
  ASSUME IInv, NEW t \in Threads, Promote(t)
  PROVE  IInv'
<1> USE BoundsAssumption DEF IInv
<1> DEFINE i == modid[lib[t]]
           n == layout + 1
           e == [slots[i] EXCEPT !.off = n]
<1>1. PICK a \in Arenas : EnsureStaticTls(t, a) /\ ApplyStaticTls(t, a, registry')
  BY Zenon DEF Promote
<1>2. /\ pc[t] = "relocate" /\ layout' = n /\ slots' = [slots EXCEPT ![i].off = n]
      /\ regLock' = t /\ registry' = Append(registry, n)
      /\ cursor' = [cursor EXCEPT ![t] = Len(registry')]
      /\ pc' = [pc EXCEPT ![t] = "publish"]
      /\ UNCHANGED <<inited, tcb, published, modid, desc, loads, loaded, dlLock, lib, round, pos,
                     ghosts>>
  BY Zenon DEF Promote, Goto
<1>3. /\ dlLock = t /\ lib[t] \in 1..loads /\ lib[t] \notin loaded /\ i # 0 /\ layout < loads
      /\ \A u \in Threads \ {t} : pc[u] \notin {"relocate", "publish", "linked"}
  BY <1>2, OneLinks, Zenon DEF CallInv
<1>4. lib[t] \in Loads /\ i \in 1..Len(slots) /\ n \in Loads /\ n <= loads /\ layout \in Nat
  <2>1. lib[t] \in Loads
    BY <1>3 DEF TypeOK, Loads
  <2> QED
    BY <2>1, <1>3 DEF TypeOK, Loads
<1>5. slots \in Seq(Slot) /\ slots[i] \in Slot
  <2>1. slots \in Seq(Slot)
    BY Zenon DEF TypeOK, Slot
  <2> QED
    BY <2>1, <1>4, ElementOfSeq, Zenon
<1>6. e \in Slot /\ e.off = n /\ e.si = slots[i].si /\ slots' = [slots EXCEPT ![i] = e]
  <2>1. n \in 0..MaxLoads
    BY <1>4 DEF Loads
  <2>2. e \in Slot /\ e.off = n /\ e.si = slots[i].si
    <3> HIDE DEF n, i
    <3> QED
      BY <2>1, <1>5, Zenon DEF Slot
  <2>3. slots' = [slots EXCEPT ![i] = e]
    BY <1>2, Zenon
  <2> QED
    BY <2>2, <2>3, Zenon
<1> HIDE DEF e, i
<1>7. /\ slots' \in Seq(Slot) /\ Len(slots') = Len(slots)
      /\ \A j \in 1..Len(slots) : slots'[j] = IF j = i THEN e ELSE slots[j]
  BY <1>4, <1>5, <1>6, ExceptSeq
<1>8. registry \in Seq(Loads) /\ Len(registry) = layout
  BY Zenon DEF TypeOK, LinkerInv
<1>9. /\ registry' \in Seq(Loads) /\ Len(registry') = n
      /\ \A j \in 1..Len(registry') : registry'[j] = j
  <2>1. /\ registry' \in Seq(Loads) /\ Len(registry') = n /\ registry'[n] = n
        /\ \A j \in 1..layout : registry'[j] = registry[j]
    <3> HIDE DEF n
    <3>1. /\ Append(registry, n) \in Seq(Loads) /\ Len(Append(registry, n)) = layout + 1
          /\ Append(registry, n)[layout + 1] = n
          /\ \A j \in 1..layout : Append(registry, n)[j] = registry[j]
      BY <1>4, <1>8, AppendProperties
    <3> QED
      BY <3>1, <1>2, Zenon DEF n
  <2> QED
    BY <2>1, <1>4, <1>8 DEF LinkerInv
<1>10. /\ pc' \in [Threads -> Places] /\ pc'[t] = "publish"
       /\ \A u \in Threads \ {t} : pc'[u] = pc[u]
  BY <1>2, Zenon DEF TypeOK, Places
<1>11. /\ cursor' \in [Threads -> 0..MaxLoads] /\ cursor'[t] = n
       /\ \A u \in Threads \ {t} : cursor'[u] = cursor[u]
  <2>1. cursor \in [Threads -> 0..MaxLoads] /\ n \in 0..MaxLoads
    BY <1>4 DEF TypeOK, Loads
  <2> QED
    BY <2>1, <1>2, <1>9, Zenon
<1>12. ArenaInv'
  BY <1>1, <1>2, <1>10, EnsureKeeps, Zenon
<1>13. /\ tp' \in [Threads -> Arenas \cup {None}] /\ key' \in [Threads -> Arenas \cup {None}]
       /\ mapped' = mapped \cup {a} /\ again' \subseteq Threads /\ tp'[t] = a
       /\ \A u \in Threads \ {t} : tp'[u] = tp[u] /\ tp[u] # a
  BY <1>1, EnsureArena
<1>14. Len(registry) <= Len(registry') /\ Len(registry') <= MaxLoads
  BY <1>4, <1>8, <1>9 DEF Loads
<1>15. /\ cells' \in [Arenas -> [Loads -> {"zero", "data", "own"}]]
       /\ \A b \in Arenas \ {a} : cells'[b] = cells[b]
       /\ \A o \in Loads \ late[t] :
            /\ o > n => o \notin wrote[t]
            /\ o <= n => cells'[a][o] = IF o \in wrote[t] THEN "own" ELSE "data"
  <2> HIDE DEF n
  <2> DEFINE reg == registry'
  <2>1. reg \in Seq(Loads) /\ (\A j \in 1..Len(reg) : reg[j] = j) /\ ApplyStaticTls(t, a, reg)
        /\ Len(registry) <= Len(reg) /\ Len(reg) <= MaxLoads /\ Len(reg) = n
    BY <1>1, <1>9, <1>14, Zenon
  <2> HIDE DEF reg
  <2> QED
    BY <2>1, <1>1, Replayed
<1> USE DEF ghosts
<1>16. TypeOK'
  <2>1. /\ mapped' \subseteq Arenas /\ tcb' \subseteq mapped'
        /\ published' \in 0..Len(registry') /\ layout' \in 0..MaxLoads
        /\ regLock' \in Threads \cup {None} /\ dlLock' \in Threads \cup {None}
        /\ modid' \in [Loads -> 0..Len(slots')] /\ desc' \in [Loads -> 0..MaxLoads]
        /\ loads' \in 0..MaxLoads /\ loaded' \subseteq 1..loads'
    <3>1. published' \in 0..Len(registry')
      BY <1>2, <1>4, <1>8, <1>9 DEF TypeOK
    <3>2. layout' \in 0..MaxLoads
      BY <1>2, <1>4 DEF Loads
    <3>3. mapped' \subseteq Arenas /\ tcb' \subseteq mapped'
      BY <1>2, <1>13, Zenon DEF TypeOK
    <3>4. modid' \in [Loads -> 0..Len(slots')]
      BY <1>2, <1>7, Zenon DEF TypeOK
    <3> QED
      BY <3>1, <3>2, <3>3, <3>4, <1>2, Zenon DEF TypeOK, Loads
  <2> QED
    BY <2>1, <1>2, <1>7, <1>9, <1>10, <1>11, <1>13, <1>15, Zenon DEF TypeOK, Loads, Slot
<1>17. LinkerInv'
  <2>1. layout' = Len(registry') /\ layout' <= loads'
    BY <1>2, <1>4, <1>9, Zenon
  <2>2. \A j \in 1..Len(slots') : slots'[j].off <= layout'
    <3>1. \A j \in 1..Len(slots) : slots[j].off \in Nat /\ slots[j].off <= layout
      <4>1. \A j \in 1..Len(slots) : slots[j] \in Slot
        BY <1>5, ElementOfSeq, Zenon
      <4> QED
        BY <4>1 DEF LinkerInv, Slot
    <3> QED
      BY <3>1, <1>2, <1>4, <1>6, <1>7
  <2>3. \A l \in Loads : modid'[l] # 0 => slots'[modid'[l]].si = l
    <3>1. \A l \in Loads : modid[l] # 0 => modid[l] \in 1..Len(slots)
      BY DEF TypeOK
    <3> QED
      BY <3>1, <1>2, <1>6, <1>7, Zenon DEF LinkerInv
  <2>4. /\ \A l \in Loads : desc'[l] <= published'
        /\ \A l \in loaded' : modid'[l] # 0
    BY <1>2, Zenon DEF LinkerInv
  <2> QED
    BY <2>1, <2>2, <2>3, <2>4, <1>9, Zenon DEF LinkerInv, Loads
<1>18. ASSUME NEW u \in Threads
       PROVE  CallInv(u)'
  <2>1. CASE u = t
    BY <2>1, <1>2, <1>3, <1>10, Zenon DEF CallInv, i
  <2>2. CASE u # t
    BY <2>2, <1>2, <1>3, <1>10, Zenon DEF CallInv
  <2> QED
    BY <2>1, <2>2, Zenon
<1>19. ASSUME NEW u \in Threads
       PROVE  ValueInv(u)'
  <2>1. CASE u # t
    <3>1. tp[u] # None => cells'[tp[u]] = cells[tp[u]]
      BY <2>1, <1>13, <1>15 DEF TypeOK
    <3>2. tp'[u] = tp[u] /\ cursor'[u] = cursor[u] /\ pc'[u] = pc[u]
      BY <2>1, <1>10, <1>11, <1>13, Zenon
    <3>3. cursor[u] <= Len(registry')
      BY <1>8, <1>14 DEF ValueInv, TypeOK
    <3> QED
      BY <3>1, <3>2, <3>3, <1>2 DEF ValueInv, Loads
  <2>2. CASE u = t
    <3>1. /\ tp'[t] # None /\ cursor'[t] = n /\ late' = late /\ wrote' = wrote
          /\ pc'[t] # "use" /\ cursor'[t] <= Len(registry')
      BY <1>2, <1>4, <1>9, <1>10, <1>11, <1>13
    <3>2. \A o \in Loads \ late'[t] :
            /\ o > cursor'[t] => o \notin wrote'[t]
            /\ o <= cursor'[t] =>
                 cells'[tp'[t]][o] = IF o \in wrote'[t] THEN "own" ELSE "data"
      BY <3>1, <1>13, <1>15, Zenon
    <3> QED
      BY <2>2, <3>1, <3>2, Zenon DEF ValueInv, Loads
  <2> QED
    BY <2>1, <2>2, Zenon
<1> QED
  BY <1>12, <1>16, <1>17, <1>18, <1>19, Zenon

\* The types of what a step of the linker looks at.
LEMMA LinkerTypes ==
  ASSUME IInv
  PROVE  /\ \A u \in Threads : lib[u] # 0 => lib[u] \in Loads
         /\ \A l \in Loads : modid[l] # 0 => modid[l] \in 1..Len(slots)
         /\ \A l \in Loads : desc[l] \in Nat /\ desc[l] <= published
         /\ published \in 0..Len(registry) /\ Len(registry) \in Nat /\ loaded \subseteq Loads
         /\ slots \in Seq(Slot) /\ \A i \in 1..Len(slots) : slots[i] \in Slot
<1> USE BoundsAssumption DEF IInv
<1>1. \A u \in Threads : lib[u] # 0 => lib[u] \in Loads
  BY DEF TypeOK, Loads
<1>2. \A l \in Loads : modid[l] # 0 => modid[l] \in 1..Len(slots)
  BY DEF TypeOK
<1>3. \A l \in Loads : desc[l] \in Nat /\ desc[l] <= published
  BY DEF TypeOK, LinkerInv
<1>4. published \in 0..Len(registry) /\ Len(registry) \in Nat /\ loaded \subseteq Loads
  BY DEF TypeOK, Loads
<1>5. slots \in Seq(Slot)
  BY Zenon DEF TypeOK, Slot
<1>6. \A i \in 1..Len(slots) : slots[i] \in Slot
  BY <1>5, ElementOfSeq, Zenon
<1> QED
  BY <1>1, <1>2, <1>3, <1>4, <1>5, <1>6, Zenon

\* The registry is published while its mutex is still held.
LEMMA PublishStep ==
  ASSUME IInv, NEW t \in Threads, Publish(t)
  PROVE  IInv'
<1> USE BoundsAssumption DEF IInv
<1> DEFINE l == lib[t]
           o == slots[modid[l]].off
<1>1. /\ pc[t] = "publish" /\ published' = Len(registry) /\ regLock' = None
      /\ desc' = [desc EXCEPT ![l] = o] /\ pc' = [pc EXCEPT ![t] = "linked"]
      /\ UNCHANGED <<tlsVars, registry, slots, layout, modid, loads, loaded, dlLock, lib, tsdVars,
                     ghosts>>
  BY Zenon DEF Publish, Goto
<1>2. /\ dlLock = t /\ l \in 1..loads /\ l \notin loaded /\ modid[l] # 0
      /\ \A u \in Threads \ {t} : pc[u] \notin {"relocate", "publish", "linked"}
  BY <1>1, OneLinks, Zenon DEF CallInv
<1>3. l \in Loads /\ modid[l] \in 1..Len(slots)
  <2>1. l \in Loads
    BY <1>2 DEF TypeOK, Loads
  <2> QED
    BY <2>1, <1>2 DEF TypeOK
<1>4. o \in 0..MaxLoads /\ o <= Len(registry) /\ Len(registry) \in Nat
  <2>1. slots[modid[l]] \in Slot /\ Len(registry) \in Nat
    BY <1>3, LinkerTypes, Zenon
  <2>2. o <= Len(registry)
    BY <1>3, Zenon DEF LinkerInv
  <2> QED
    BY <2>1, <2>2, Zenon DEF Slot
<1> HIDE DEF o
<1>5. /\ desc' \in [Loads -> 0..MaxLoads] /\ desc'[l] = o
      /\ \A k \in Loads \ {l} : desc'[k] = desc[k]
  BY <1>1, <1>3, <1>4, Zenon DEF TypeOK
<1>6. /\ ArenaInv' /\ pc' \in [Threads -> Places] /\ pc'[t] = "linked"
      /\ \A u \in Threads \ {t} : pc'[u] = pc[u]
  BY <1>1, LinkerKeeps, Zenon DEF Places
<1> USE DEF tlsVars, tsdVars, ghosts
<1>7. TypeOK'
  <2>1. published' \in 0..Len(registry')
    BY <1>1, <1>4
  <2> QED
    BY <2>1, <1>1, <1>5, <1>6, Zenon DEF TypeOK, Loads
<1>8. LinkerInv'
  <2>1. ASSUME NEW k \in Loads
        PROVE  desc'[k] <= published'
    <3>1. desc[k] \in Nat /\ desc[k] <= published /\ published \in 0..Len(registry)
      BY DEF TypeOK, LinkerInv
    <3> QED
      BY <3>1, <1>1, <1>4, <1>5
  <2> QED
    BY <2>1, <1>1, Zenon DEF LinkerInv, Loads
<1>9. ASSUME NEW u \in Threads
      PROVE  CallInv(u)'
  <2>1. CASE u = t
    BY <2>1, <1>1, <1>2, <1>6, Zenon DEF CallInv
  <2>2. CASE u # t
    <3>1. pc[u] \in {"slow", "use"} /\ lib[u] # 0 => lib[u] \in Loads \ {l}
      BY <1>2, LinkerTypes, Zenon DEF CallInv
    <3> HIDE DEF l
    <3> QED
      BY <2>2, <3>1, <1>1, <1>2, <1>5, <1>6, Zenon DEF CallInv
  <2> QED
    BY <2>1, <2>2, Zenon
<1>10. ASSUME NEW u \in Threads
       PROVE  ValueInv(u)'
  <2>1. pc'[u] = "use" => pc[u] = "use"
    BY <1>6, Zenon
  <2>2. pc'[u] = "use" /\ lib'[u] # 0 => desc'[lib'[u]] = desc[lib[u]]
    <3>1. pc[u] = "use" /\ lib[u] # 0 => lib[u] \in Loads \ {l}
      BY <1>2, LinkerTypes, Zenon DEF CallInv
    <3> QED
      BY <3>1, <2>1, <1>1, <1>5, Zenon
  <2> QED
    BY <2>1, <2>2, <1>1, Zenon DEF ValueInv, Loads
<1> QED
  BY <1>6, <1>7, <1>8, <1>9, <1>10, Zenon

\* The end of a load leaves storage and registry alone.
LEMMA LinkedStep ==
  ASSUME IInv, NEW t \in Threads, Linked(t)
  PROVE  IInv'
<1> USE BoundsAssumption DEF IInv
<1>1. /\ pc[t] \in {"relocate", "linked"} /\ pc' = [pc EXCEPT ![t] = "run"]
      /\ loaded' = loaded \cup {lib[t]} /\ lib' = [lib EXCEPT ![t] = 0] /\ dlLock' = None
      /\ UNCHANGED <<tlsVars, regVars, slots, layout, modid, desc, loads, tsdVars, ghosts>>
  BY Zenon DEF Linked, Goto
<1>2. /\ dlLock = t /\ lib[t] \in 1..loads /\ modid[lib[t]] # 0
      /\ \A u \in Threads \ {t} : pc[u] \notin {"relocate", "publish", "linked"}
  BY <1>1, OneLinks, Zenon DEF CallInv
<1>3. /\ lib' \in [Threads -> 0..MaxLoads] /\ \A u \in Threads \ {t} : lib'[u] = lib[u]
  BY <1>1 DEF TypeOK
<1>4. /\ ArenaInv' /\ pc' \in [Threads -> Places] /\ pc'[t] = "run"
      /\ \A u \in Threads \ {t} : pc'[u] = pc[u]
  BY <1>1, LinkerKeeps, Zenon DEF Places
<1> USE DEF tlsVars, regVars, tsdVars, ghosts
<1>5. TypeOK'
  <2>1. loaded' \subseteq 1..loads
    BY <1>1, <1>2, Zenon DEF TypeOK
  <2> QED
    BY <2>1, <1>1, <1>3, <1>4, Zenon DEF TypeOK, Loads
<1>6. LinkerInv'
  BY <1>1, <1>2, Zenon DEF LinkerInv, Loads
<1>7. \A u \in Threads : CallInv(u)'
  BY <1>1, <1>2, <1>3, <1>4, Zenon DEF CallInv
<1>8. ASSUME NEW u \in Threads
      PROVE  ValueInv(u)'
  <2>1. pc'[u] = "use" => pc[u] = "use" /\ lib'[u] = lib[u]
    BY <1>3, <1>4, Zenon
  <2> QED
    BY <2>1, <1>1, Zenon DEF ValueInv, Loads
<1> QED
  BY <1>4, <1>5, <1>6, <1>7, <1>8, Zenon

\* A library leaves the table; no thread is after one of its variables.
LEMMA UnregisterStep ==
  ASSUME IInv, NEW t \in Threads, NEW k \in Loads,
         (LinkFails(t) /\ k = lib[t]) \/ Dlclose(t, k)
  PROVE  IInv'
<1> USE BoundsAssumption DEF IInv
<1>1. /\ Unregister(k) /\ UNCHANGED <<tlsVars, regVars, layout, loads, tsdVars, ghosts>>
      /\ modid[k] # 0 /\ dlLock \in {t, None} /\ dlLock' = None
      /\ pc' = [pc EXCEPT ![t] = "run"]
      /\ \A u \in Threads : pc[u] \in {"slow", "use"} => lib[u] # k
      /\ lib' \in [Threads -> 0..MaxLoads] /\ \A u \in Threads \ {t} : lib'[u] = lib[u]
  <2>1. CASE LinkFails(t) /\ k = lib[t]
    <3>1. /\ Unregister(k) /\ UNCHANGED <<tlsVars, regVars, layout, loads, tsdVars, ghosts>>
          /\ pc[t] \in {"relocate", "linked"} /\ pc' = [pc EXCEPT ![t] = "run"]
          /\ lib' = [lib EXCEPT ![t] = 0] /\ dlLock' = None
      BY <2>1, Zenon DEF LinkFails, Goto
    <3>2. modid[k] # 0 /\ dlLock = t /\ k \notin loaded
      BY <3>1, <2>1, Zenon DEF CallInv
    <3>3. \A u \in Threads : pc[u] \in {"slow", "use"} => lib[u] # k
      <4>1. k # 0
        BY DEF Loads
      <4> QED
        BY <3>2, <4>1, Zenon DEF CallInv
    <3>4. lib' \in [Threads -> 0..MaxLoads] /\ \A u \in Threads \ {t} : lib'[u] = lib[u]
      BY <3>1 DEF TypeOK
    <3> QED
      BY <3>1, <3>2, <3>3, <3>4, Zenon
  <2>2. CASE Dlclose(t, k)
    <3>1. /\ Unregister(k) /\ UNCHANGED <<tlsVars, regVars, layout, loads, tsdVars, ghosts>>
          /\ pc[t] = "run" /\ dlLock = None /\ k \in loaded
          /\ (\A u \in Threads : lib[u] # k) /\ pc' = pc /\ lib' = lib /\ dlLock' = dlLock
      BY <2>2, Zenon DEF Dlclose
    <3>2. modid[k] # 0
      BY <3>1, Zenon DEF LinkerInv
    <3>3. pc' = [pc EXCEPT ![t] = "run"]
      BY <3>1, Zenon DEF TypeOK
    <3> QED
      BY <3>1, <3>2, <3>3, Zenon DEF TypeOK
  <2> QED
    BY <2>1, <2>2, Zenon
<1> DEFINE i == modid[k]
           e == [slots[i] EXCEPT !.si = 0]
<1>2. /\ slots' = [slots EXCEPT ![i] = e] /\ modid' = [modid EXCEPT ![k] = 0]
      /\ loaded' = loaded \ {k} /\ desc' = [desc EXCEPT ![k] = 0]
  BY <1>1, Zenon DEF Unregister
<1>3. i \in 1..Len(slots) /\ slots \in Seq(Slot)
  BY <1>1 DEF TypeOK, Slot
<1>4. slots[i] \in Slot
  BY <1>3, ElementOfSeq, Zenon
<1>5. e \in Slot /\ e.off = slots[i].off
  <2> HIDE DEF i
  <2> QED
    BY <1>4 DEF Slot
<1> HIDE DEF e
<1>6. /\ slots' \in Seq(Slot) /\ Len(slots') = Len(slots)
      /\ \A j \in 1..Len(slots) : slots'[j] = IF j = i THEN e ELSE slots[j]
  <2> HIDE DEF i
  <2> QED
    BY <1>2, <1>3, <1>5, ExceptSeq
<1>7. /\ modid' \in [Loads -> 0..Len(slots')] /\ modid'[k] = 0
      /\ \A l \in Loads \ {k} : modid'[l] = modid[l]
      /\ desc' \in [Loads -> 0..MaxLoads] /\ desc'[k] = 0
      /\ \A l \in Loads \ {k} : desc'[l] = desc[l]
  <2>1. modid \in [Loads -> 0..Len(slots)] /\ desc \in [Loads -> 0..MaxLoads]
    BY Zenon DEF TypeOK
  <2> HIDE DEF i
  <2>2. 0 \in 0..Len(slots) /\ 0 \in 0..MaxLoads
    BY <1>3
  <2> QED
    BY <1>2, <1>6, <2>1, <2>2, Zenon
<1>8. /\ ArenaInv' /\ pc' \in [Threads -> Places] /\ pc'[t] = "run"
      /\ \A u \in Threads \ {t} : pc'[u] = pc[u]
  BY <1>1, LinkerKeeps, Zenon DEF Places
<1>9. \A u \in Threads \ {t} : pc[u] \notin {"relocate", "publish", "linked"}
  BY <1>1, OneLinks, Zenon
<1> USE DEF tlsVars, regVars, tsdVars, ghosts
<1>10. TypeOK'
  <2>1. loaded' \subseteq 1..loads
    BY <1>2, Zenon DEF TypeOK
  <2> QED
    BY <2>1, <1>1, <1>6, <1>7, <1>8, Zenon DEF TypeOK, Loads, Slot
<1>11. LinkerInv'
  <2>1. \A j \in 1..Len(slots') : slots'[j].off <= layout'
    BY <1>1, <1>5, <1>6, Zenon DEF LinkerInv
  <2>2. ASSUME NEW l \in Loads, modid'[l] # 0
        PROVE  slots'[modid'[l]].si = l
    <3>1. l # k /\ modid'[l] = modid[l] /\ modid[l] \in 1..Len(slots)
      BY <2>2, <1>7, LinkerTypes, Zenon
    <3>2. modid[l] # i
      BY <3>1, <1>1, Zenon DEF LinkerInv
    <3> QED
      BY <3>1, <3>2, <1>6 DEF LinkerInv
  <2>3. \A l \in Loads : desc'[l] <= published'
    <3>1. published' = published /\ published \in 0..Len(registry) /\ Len(registry) \in Nat
      BY <1>1, LinkerTypes, Zenon
    <3>2. \A l \in Loads : desc'[l] = desc[l] \/ desc'[l] = 0
      BY <1>7, Zenon
    <3> QED
      BY <3>1, <3>2, LinkerTypes
  <2>4. \A l \in loaded' : modid'[l] # 0
    <3>1. loaded \subseteq Loads
      BY DEF TypeOK, Loads
    <3> QED
      BY <3>1, <1>2, <1>7, Zenon DEF LinkerInv
  <2> QED
    BY <2>1, <2>2, <2>3, <2>4, <1>1, Zenon DEF LinkerInv, Loads
<1>12. ASSUME NEW u \in Threads
       PROVE  CallInv(u)'
  <2>1. CASE u = t
    BY <2>1, <1>8, Zenon DEF CallInv
  <2>2. CASE u # t
    <3>1. pc[u] \in {"slow", "use"} /\ lib[u] # 0 => lib[u] \in Loads \ {k}
      BY <1>1, LinkerTypes, Zenon
    <3> QED
      BY <2>2, <3>1, <1>1, <1>2, <1>7, <1>8, <1>9 DEF CallInv
  <2> QED
    BY <2>1, <2>2, Zenon
<1>13. ASSUME NEW u \in Threads
       PROVE  ValueInv(u)'
  <2>1. pc'[u] = "use" => pc[u] = "use" /\ lib'[u] = lib[u]
    BY <1>1, <1>8, Zenon
  <2>2. pc'[u] = "use" /\ lib'[u] # 0 => desc'[lib'[u]] = desc[lib[u]]
    <3>1. pc[u] = "use" /\ lib[u] # 0 => lib[u] \in Loads \ {k}
      BY <1>1, LinkerTypes, Zenon
    <3> QED
      BY <3>1, <2>1, <1>7, Zenon
  <2> QED
    BY <2>1, <2>2, <1>1, Zenon DEF ValueInv, Loads
<1> QED
  BY <1>8, <1>10, <1>11, <1>12, <1>13, Zenon

-----------------------------------------------------------------------------
\* A stuttering step keeps the invariant.
LEMMA StutterInv == IInv /\ UNCHANGED vars => IInv'
<1> SUFFICES ASSUME IInv, UNCHANGED vars PROVE IInv'
  OBVIOUS
<1> USE DEF IInv, vars, tlsVars, regVars, dlVars, tsdVars, ghosts
<1>1. TypeOK'
  BY Zenon DEF TypeOK, Loads
<1>2. LinkerInv' /\ ArenaInv'
  BY Zenon DEF LinkerInv, ArenaInv, Loads
<1>3. \A t \in Threads : CallInv(t)' /\ ValueInv(t)'
  BY Zenon DEF CallInv, ValueInv, Loads
<1> QED
  BY <1>1, <1>2, <1>3, Zenon

\* Every step keeps the invariant.
LEMMA NextInv == IInv /\ [Next]_vars => IInv'
<1> SUFFICES ASSUME IInv, Next PROVE IInv'
  BY StutterInv, Zenon
<1>1. PICK t \in Threads :
        \/ Hook(t) \/ CatchUp(t) \/ Use(t)
        \/ Dlopen(t) \/ Promote(t) \/ Publish(t) \/ Linked(t) \/ LinkFails(t)
        \/ StartGlibc(t) \/ ThreadWrapper(t) \/ Exit(t) \/ CleanupArena(t)
        \/ EnterDestructor(t) \/ LeaveDestructor(t) \/ NextRound(t) \/ Gone(t)
        \/ \E l \in Loads : Resolve(t, l) \/ Thunk(t, l) \/ Dlclose(t, l)
  BY Zenon DEF Next
<1>2. CASE Hook(t) \/ ThreadWrapper(t)
  BY <1>2, GetTlsStep, BoundsAssumption DEF Hook, ThreadWrapper
<1>3. CASE \E l \in Loads : Resolve(t, l) \/ Thunk(t, l)
  BY <1>3, EntryStep, Zenon
<1>4. CASE CatchUp(t)
  BY <1>4, CatchUpStep, Zenon
<1>5. CASE Use(t)
  BY <1>5, UseStep, Zenon
<1>6. CASE Dlopen(t)
  BY <1>6, DlopenStep, Zenon
<1>7. CASE Promote(t)
  BY <1>7, PromoteStep, Zenon
<1>8. CASE Publish(t)
  BY <1>8, PublishStep, Zenon
<1>9. CASE Linked(t)
  BY <1>9, LinkedStep, Zenon
<1>10. CASE LinkFails(t)
  <2>1. lib[t] \in Loads
    BY <1>10, BoundsAssumption DEF IInv, TypeOK, CallInv, LinkFails, Loads
  <2> QED
    BY <2>1, <1>10, UnregisterStep, Zenon
<1>11. CASE \E l \in Loads : Dlclose(t, l)
  BY <1>11, UnregisterStep, Zenon
<1>12. CASE StartGlibc(t) \/ Exit(t) \/ EnterDestructor(t) \/ LeaveDestructor(t) \/ NextRound(t)
  BY <1>12, QuietStep, Zenon
<1>13. CASE CleanupArena(t) \/ Gone(t)
  BY <1>13, ReleaseStep, Zenon
<1> QED
  BY <1>1, <1>2, <1>3, <1>4, <1>5, <1>6, <1>7, <1>8, <1>9, <1>10, <1>11, <1>12, <1>13, Zenon

\* The invariant holds in every reachable state.
LEMMA Invariant == Spec => []IInv
BY InitInv, NextInv, PTL DEF Spec

\* A thread that asks for a thread-local variable of a promoted library finds its
\* own last write or the initial value: the replay in __get_tls_hooks() neither
\* misses an entry nor runs over live data, whatever other threads load meanwhile.
THEOREM ValuesKept == Spec => []OwnValue
<1>1. IInv => OwnValue
  <2> SUFFICES ASSUME IInv, NEW t \in Threads, pc[t] = "use", lib[t] # 0,
                      desc[lib[t]] \notin late[t]
               PROVE  cells[tp[t]][desc[lib[t]]] =
                        IF desc[lib[t]] \in wrote[t] THEN "own" ELSE "data"
    BY Zenon DEF OwnValue
  <2>1. lib[t] \in Loads /\ desc[lib[t]] # 0
    BY LinkerTypes, Zenon DEF IInv, CallInv
  <2>2. desc[lib[t]] \in Loads \ late[t]
    BY <2>1, BoundsAssumption DEF IInv, TypeOK, Loads
  <2>3. tp[t] # None /\ desc[lib[t]] <= cursor[t]
    BY BoundsAssumption, Zenon DEF IInv, TypeOK, ArenaInv, ValueInv
  <2> QED
    BY <2>2, <2>3, Zenon DEF IInv, ValueInv
<1> QED
  BY <1>1, Invariant, PTL

\* No Android code runs without a complete TCB, no two threads share an arena and
\* _bionic_tls_cleanup() gives each one back, outside the last round of destructors.
THEOREM ArenasSafe == Spec => []ArenasOwned
<1>1. IInv => ArenasOwned
  BY Zenon DEF IInv, ArenaInv, ArenasOwned
<1> QED
  BY <1>1, Invariant, PTL

\* The module table of the linker never recycles a static reservation, and its
\* CHECKs hold.
THEOREM TableSafe == Spec => ReservationsPermanent
<1> DEFINE Perm == /\ \A i \in 1..Len(slots) : slots[i].off # 0 =>
                        slots'[i].off = slots[i].off /\ slots'[i].si \in {slots[i].si, 0}
                   /\ \A l \in Loads : modid'[l] # 0 => slots'[modid'[l]].si = l
<1>1. IInv /\ IInv' /\ [Next]_vars => [Perm]_vars
  <2> SUFFICES ASSUME IInv, IInv', Next
               PROVE  \A i \in 1..Len(slots) : slots[i].off # 0 =>
                        slots'[i].off = slots[i].off /\ slots'[i].si \in {slots[i].si, 0}
    BY Zenon DEF IInv, LinkerInv, Loads
  <2> TAKE i \in 1..Len(slots)
  <2> HAVE slots[i].off # 0
  <2>0. slots \in Seq(Slot) /\ slots[i] \in Slot
    BY LinkerTypes, Zenon
  <2>1. CASE slots' = slots
    BY <2>1, Zenon
  <2>2. ASSUME NEW t \in Threads, Dlopen(t)
        PROVE  slots'[i] = slots[i]
    <3> DEFINE e == [si |-> loads + 1, off |-> 0]
    <3>1. PICK j \in 1..Len(slots) + 1 :
            /\ UnusedModuleIndex(j)
            /\ slots' = IF j > Len(slots) THEN Append(slots, e) ELSE [slots EXCEPT ![j] = e]
      BY <2>2, Zenon DEF Dlopen
    <3>2. j # i
      BY <3>1, Zenon DEF UnusedModuleIndex, Recyclable
    <3>3. e \in Slot
      BY <2>2, BoundsAssumption DEF Dlopen, Slot, IInv, TypeOK
    <3> HIDE DEF e
    <3>4. CASE j > Len(slots)
      BY <3>1, <3>3, <3>4, <2>0, AppendProperties
    <3>5. CASE ~(j > Len(slots))
      <4>1. j \in 1..Len(slots) /\ slots' = [slots EXCEPT ![j] = e]
        BY <3>1, <3>5, <2>0
      <4> QED
        BY <4>1, <3>2, <3>3, <2>0, ExceptSeq
    <3> QED
      BY <3>4, <3>5, Zenon
  <2>3. ASSUME NEW t \in Threads, Promote(t)
        PROVE  slots'[i] = slots[i]
    <3>1. PICK j : slots[j].off = 0 /\ slots' = [slots EXCEPT ![j].off = layout + 1]
      BY <2>3, Zenon DEF Promote
    <3> QED
      BY <3>1, <2>0
  <2>4. ASSUME NEW l, Unregister(l)
        PROVE  slots'[i].off = slots[i].off /\ slots'[i].si \in {slots[i].si, 0}
    <3>1. slots' = [slots EXCEPT ![modid[l]].si = 0]
      BY <2>4, Zenon DEF Unregister
    <3> QED
      BY <3>1, <2>0 DEF Slot
  <2>5. \/ slots' = slots \/ \E t \in Threads : Dlopen(t) \/ Promote(t)
        \/ \E l : Unregister(l)
    <3> USE DEF dlVars
    <3>1. PICK t \in Threads :
            \/ Hook(t) \/ CatchUp(t) \/ Use(t)
            \/ Dlopen(t) \/ Promote(t) \/ Publish(t) \/ Linked(t) \/ LinkFails(t)
            \/ StartGlibc(t) \/ ThreadWrapper(t) \/ Exit(t) \/ CleanupArena(t)
            \/ EnterDestructor(t) \/ LeaveDestructor(t) \/ NextRound(t) \/ Gone(t)
            \/ \E l \in Loads : Resolve(t, l) \/ Thunk(t, l) \/ Dlclose(t, l)
      BY Zenon DEF Next
    <3>2. \A l : GetTls(t, l) => slots' = slots
      BY Zenon DEF GetTls
    <3>3. Hook(t) \/ ThreadWrapper(t) \/ (\E l \in Loads : Resolve(t, l)) => slots' = slots
      BY <3>2, Zenon DEF Hook, ThreadWrapper, Resolve
    <3>4. (\E l \in Loads : Thunk(t, l)) => slots' = slots
      BY <3>2, Zenon DEF Thunk
    <3>5. CatchUp(t) \/ Use(t) \/ Publish(t) \/ Linked(t) => slots' = slots
      BY Zenon DEF CatchUp, Use, Publish, Linked
    <3>6. StartGlibc(t) \/ Exit(t) \/ CleanupArena(t) \/ Gone(t) => slots' = slots
      BY Zenon DEF StartGlibc, Exit, CleanupArena, Gone
    <3>7. EnterDestructor(t) \/ LeaveDestructor(t) \/ NextRound(t) => slots' = slots
      BY Zenon DEF EnterDestructor, LeaveDestructor, NextRound
    <3>8. LinkFails(t) \/ (\E l \in Loads : Dlclose(t, l)) => \E l : Unregister(l)
      BY Zenon DEF LinkFails, Dlclose
    <3> QED
      BY <3>1, <3>3, <3>4, <3>5, <3>6, <3>7, <3>8, Zenon
  <2> QED
    BY <2>1, <2>2, <2>3, <2>4, <2>5, Zenon
<1> QED
  BY <1>1, Invariant, PTL DEF Spec, ReservationsPermanent

=============================================================================
