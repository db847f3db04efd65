----------------------------- MODULE BionicTls ------------------------------
(* The thread-local storage of Android code in threads of glibc: the arena each
   thread maps at its first touch and gives back in a key destructor, the
   registry of promoted modules every thread replays into its arena
   (hybris/common/bionic_tls.c), the thunks that replace reads of the thread
   pointer (tls_patcher_aarch64.c) and the linker's table of TLS modules
   (hybris/common/q/linker_tls.cpp). *)
EXTENDS Naturals, Sequences

CONSTANTS
  Threads, Arenas,
  MaxLoads,   \* bound: libraries with a TLS segment the process ever loads
  MaxRounds,  \* PTHREAD_DESTRUCTOR_ITERATIONS
  None        \* no arena, no thread

ASSUME BoundsAssumption ==
  MaxLoads \in Nat /\ MaxRounds \in Nat \ {0} /\ None \notin Threads \cup Arenas

VARIABLES
  tp, inited, cursor,  \* bionic_thread_pointer, tls_inited (the threads where it is set)
              \* and tls_module_init_count of every thread
  key,        \* the value of bionic_tls_cleanup_key in every thread
  mapped,     \* arenas that are mapped
  tcb,        \* arenas whose slots -1 and 1 hold a bionic_tls and a pthread shadow
  cells,      \* what an arena holds at every static offset
  registry,   \* g_promoted_tls.entries: static offsets
  published,  \* g_promoted_tls_published
  regLock,    \* who holds g_promoted_tls.mutex
  slots,      \* g_tls_modules: the soinfo and the static offset, 0 for none and SIZE_MAX
  layout,     \* static offsets StaticTlsLayout has reserved
  modid,      \* module_id of a loaded library, 0 for kTlsUninitializedModuleId
  desc,       \* the static offset its relocations hold, 0 for none
  loads,      \* libraries loaded so far
  loaded,     \* those whose code may run
  dlLock,     \* who holds g_dl_mutex
  pc, lib,    \* where a thread is, and the library whose variable it wants
  round, pos, \* a thread's exit: the round of destructors and how far it is
  again,      \* threads that have set a value since their round began
  wrote,      \* offsets a thread has written in its arena
  late        \* offsets it used inline before its replay reached them

tlsVars == <<tp, inited, cursor, key, mapped, tcb, cells>>
regVars == <<registry, published, regLock>>
dlVars == <<slots, layout, modid, desc, loads, loaded, dlLock>>
tsdVars == <<round, pos, again>>
ghosts == <<wrote, late>>
vars == <<tlsVars, regVars, dlVars, pc, lib, tsdVars, ghosts>>

Loads == 1..MaxLoads
Places == {"dead", "run", "slow", "use", "relocate", "publish", "linked", "exit", "destructor"}
Zeros == [o \in Loads |-> "zero"]

TypeOK ==
  /\ tp \in [Threads -> Arenas \cup {None}] /\ inited \subseteq Threads
  /\ cursor \in [Threads -> 0..MaxLoads]
  /\ key \in [Threads -> Arenas \cup {None}] /\ mapped \subseteq Arenas /\ tcb \subseteq mapped
  /\ cells \in [Arenas -> [Loads -> {"zero", "data", "own"}]]
  /\ registry \in Seq(Loads) /\ published \in 0..Len(registry)
  /\ regLock \in Threads \cup {None} /\ dlLock \in Threads \cup {None}
  /\ slots \in Seq([si : 0..MaxLoads, off : 0..MaxLoads]) /\ layout \in 0..MaxLoads
  /\ modid \in [Loads -> 0..Len(slots)] /\ desc \in [Loads -> 0..MaxLoads]
  /\ loads \in 0..MaxLoads /\ loaded \subseteq 1..loads
  /\ pc \in [Threads -> Places]
  /\ lib \in [Threads -> 0..MaxLoads]
  /\ round \in [Threads -> 0..MaxRounds] /\ pos \in [Threads -> 1..4] /\ again \subseteq Threads
  /\ wrote \in [Threads -> SUBSET Loads] /\ late \in [Threads -> SUBSET Loads]

Init ==
  /\ tp = [t \in Threads |-> None] /\ inited = {} /\ cursor = [t \in Threads |-> 0]
  /\ key = [t \in Threads |-> None]
  /\ mapped = {} /\ tcb = {} /\ cells = [a \in Arenas |-> Zeros]
  /\ registry = <<>> /\ published = 0 /\ regLock = None
  /\ slots = <<>> /\ layout = 0 /\ modid = [l \in Loads |-> 0] /\ desc = [l \in Loads |-> 0]
  /\ loads = 0 /\ loaded = {} /\ dlLock = None
  /\ pc = [t \in Threads |-> "dead"] /\ lib = [t \in Threads |-> 0]
  /\ round = [t \in Threads |-> 0] /\ pos = [t \in Threads |-> 1] /\ again = {}
  /\ wrote = [t \in Threads |-> {}] /\ late = [t \in Threads |-> {}]

Goto(t, p) == pc' = [pc EXCEPT ![t] = p]
\* Where Android code runs in a thread: before its exit, or in a destructor.
Home(t) == IF round[t] = 0 THEN "run" ELSE "destructor"
InAndroid(t) == pc[t] \in {"run", "destructor"}

-----------------------------------------------------------------------------
\* The arena of a thread

\* hybris_ensure_static_tls() leaves the thread with arena a, mapped if need be.
EnsureStaticTls(t, a) ==
  /\ a \in (IF tp[t] = None THEN Arenas \ mapped ELSE {tp[t]})
  /\ tp' = [tp EXCEPT ![t] = a] /\ mapped' = mapped \cup {a}
  /\ key' = IF tp[t] = None THEN [key EXCEPT ![t] = a] ELSE key
  /\ again' = IF tp[t] = None THEN again \cup {t} ELSE again

Contents(a) == IF a \in mapped THEN cells[a] ELSE Zeros

FaultMissing(t, reg) == {reg[i] : i \in 1..Len(reg)}
\* The entries a replay copies: those past the thread's cursor.
Missing(t, reg) == {reg[i] : i \in cursor[t] + 1 .. Len(reg)}
ApplyStaticTls(t, a, reg) ==
  cells' = [cells EXCEPT ![a] =
              [o \in Loads |-> IF o \in Missing(t, reg) THEN "data" ELSE Contents(a)[o]]]

CaughtUp(t) == cursor[t] = published

\* __get_tls_hooks() up to the acquire load of g_promoted_tls_published.
GetTls(t, l) ==
  /\ lib' = [lib EXCEPT ![t] = l]
  /\ Goto(t, IF CaughtUp(t) THEN "use" ELSE "slow")
  /\ IF t \in inited THEN UNCHANGED <<tlsVars, again>>
     ELSE \E a \in Arenas :
            /\ EnsureStaticTls(t, a) /\ inited' = inited \cup {t} /\ UNCHANGED cursor
            /\ tcb' = tcb \cup {a} /\ cells' = [cells EXCEPT ![a] = Contents(a)]
  /\ UNCHANGED <<regVars, dlVars, round, pos, ghosts>>

\* A call of a hooked function.
Hook(t) == InAndroid(t) /\ GetTls(t, 0)

\* tlsdesc_resolver_static(): the hook runs before the offset is returned.
Resolve(t, l) == InAndroid(t) /\ l \in loaded /\ desc[l] # 0 /\ GetTls(t, l)

\* An inline access: the thunk for the thread pointer, and an offset of the GOT.
Thunk(t, l) ==
  /\ InAndroid(t) /\ l \in loaded /\ desc[l] # 0
  /\ IF tp[t] = None \/ tp[t] \notin tcb THEN GetTls(t, l)
     ELSE /\ lib' = [lib EXCEPT ![t] = l] /\ Goto(t, "use")
          /\ late' = [late EXCEPT ![t] = @ \cup
                        ({desc[l]} \ {registry[i] : i \in 1..cursor[t]})]
          /\ UNCHANGED <<tlsVars, regVars, dlVars, tsdVars, wrote>>

\* The replay under the mutex.
CatchUp(t) ==
  /\ pc[t] = "slow" /\ regLock = None /\ Goto(t, "use")
  /\ \E a \in Arenas : EnsureStaticTls(t, a) /\ ApplyStaticTls(t, a, registry)
  /\ cursor' = [cursor EXCEPT ![t] = Len(registry)]
  /\ UNCHANGED <<inited, tcb, regVars, dlVars, lib, round, pos, ghosts>>

\* The hook has returned: its caller reads or writes the variable.
Use(t) ==
  /\ pc[t] = "use" /\ Goto(t, Home(t)) /\ lib' = [lib EXCEPT ![t] = 0]
  /\ \/ UNCHANGED <<cells, wrote>>
     \/ /\ lib[t] # 0
        /\ cells' = [cells EXCEPT ![tp[t]][desc[lib[t]]] = "own"]
        /\ wrote' = [wrote EXCEPT ![t] = @ \cup {desc[lib[t]]}]
  /\ UNCHANGED <<tp, inited, cursor, key, mapped, tcb, regVars, dlVars, tsdVars, late>>

-----------------------------------------------------------------------------
\* The linker

FaultRecyclable(i) == slots[i].si = 0
\* get_unused_module_index(): the first slot to recycle, or one more.
Recyclable(i) == slots[i].si = 0 /\ slots[i].off = 0
UnusedModuleIndex(i) ==
  /\ i \in 1..Len(slots) => Recyclable(i)
  /\ \A j \in 1..Len(slots) : j < i => ~Recyclable(j)

\* dlopen() of a library with TLS: register_soinfo_tls(), before it is relocated.
Dlopen(t) ==
  /\ pc[t] = "run" /\ dlLock = None /\ loads < MaxLoads
  /\ dlLock' = t /\ loads' = loads + 1 /\ Goto(t, "relocate")
  /\ \E i \in 1..Len(slots) + 1 :
       LET e == [si |-> loads', off |-> 0] IN
       /\ UnusedModuleIndex(i) /\ modid' = [modid EXCEPT ![loads'] = i]
       /\ slots' = IF i > Len(slots) THEN Append(slots, e) ELSE [slots EXCEPT ![i] = e]
  /\ lib' = [lib EXCEPT ![t] = loads']
  /\ UNCHANGED <<tlsVars, regVars, layout, desc, loaded, tsdVars, ghosts>>

\* promote_tls_module_to_static(), called for the first TPREL or TLSDESC
\* relocation, up to the publication in _hybris_init_static_tls_for_thread().  Here
\* a library refers to variables of its own; the linker promotes the library that
\* defines the symbol, so one dlopen() may promote several.
Promote(t) ==
  LET i == modid[lib[t]] IN
  /\ pc[t] = "relocate" /\ slots[i].off = 0 /\ regLock = None
  /\ layout' = layout + 1 /\ slots' = [slots EXCEPT ![i].off = layout']
  /\ regLock' = t /\ registry' = Append(registry, layout')
  /\ \E a \in Arenas : EnsureStaticTls(t, a) /\ ApplyStaticTls(t, a, registry')
  /\ cursor' = [cursor EXCEPT ![t] = Len(registry')] /\ Goto(t, "publish")
  /\ UNCHANGED <<inited, tcb, published, modid, desc, loads, loaded, dlLock, lib, round, pos,
                 ghosts>>

Publish(t) ==
  /\ pc[t] = "publish" /\ published' = Len(registry) /\ regLock' = None
  /\ desc' = [desc EXCEPT ![lib[t]] = slots[modid[lib[t]]].off]
  /\ Goto(t, "linked")
  /\ UNCHANGED <<tlsVars, registry, slots, layout, modid, loads, loaded, dlLock, lib, tsdVars,
                 ghosts>>

\* The library is relocated, with a static offset or without; dlopen() returns.
Linked(t) ==
  /\ pc[t] \in {"relocate", "linked"} /\ Goto(t, "run")
  /\ loaded' = loaded \cup {lib[t]} /\ lib' = [lib EXCEPT ![t] = 0] /\ dlLock' = None
  /\ UNCHANGED <<tlsVars, regVars, slots, layout, modid, desc, loads, tsdVars, ghosts>>

\* unregister_tls_module()
Unregister(l) ==
  LET i == modid[l] IN
  /\ slots' = [slots EXCEPT ![i].si = 0] /\ modid' = [modid EXCEPT ![l] = 0]
  /\ loaded' = loaded \ {l} /\ desc' = [desc EXCEPT ![l] = 0]

\* Another relocation fails, and dlopen() unloads what it has loaded.
LinkFails(t) ==
  /\ pc[t] \in {"relocate", "linked"} /\ Goto(t, "run")
  /\ Unregister(lib[t]) /\ lib' = [lib EXCEPT ![t] = 0] /\ dlLock' = None
  /\ UNCHANGED <<tlsVars, regVars, layout, loads, tsdVars, ghosts>>

\* dlclose() of a library whose code no thread is in.
Dlclose(t, l) ==
  /\ pc[t] = "run" /\ dlLock = None /\ l \in loaded /\ \A u \in Threads : lib[u] # l
  /\ Unregister(l)
  /\ UNCHANGED <<tlsVars, regVars, layout, loads, dlLock, pc, lib, tsdVars, ghosts>>

-----------------------------------------------------------------------------
\* The life of a thread

\* A thread of glibc, or one of Android code, which enters the hook first.
StartGlibc(t) ==
  /\ pc[t] = "dead" /\ Goto(t, "run")
  /\ UNCHANGED <<tlsVars, regVars, dlVars, lib, tsdVars, ghosts>>
ThreadWrapper(t) == pc[t] = "dead" /\ GetTls(t, 0)

Exit(t) ==
  /\ pc[t] = "run" /\ Goto(t, "exit") /\ round' = [round EXCEPT ![t] = 1]
  /\ pos' = [pos EXCEPT ![t] = 1] /\ again' = again \ {t}
  /\ UNCHANGED <<tlsVars, regVars, dlVars, lib, ghosts>>

FaultStillInited(t) == inited
\* tls_inited after the cleanup
StillInited(t) == inited \ {t}

\* The key's turn: _bionic_tls_cleanup().
CleanupArena(t) ==
  /\ pc[t] = "exit" /\ pos[t] \in {1, 2} /\ pos' = [pos EXCEPT ![t] = 3]
  /\ IF key[t] = None THEN UNCHANGED <<tlsVars, ghosts>>
     ELSE /\ key' = [key EXCEPT ![t] = None] /\ tp' = [tp EXCEPT ![t] = None]
          /\ inited' = StillInited(t) /\ cursor' = [cursor EXCEPT ![t] = 0]
          /\ mapped' = mapped \ {key[t]} /\ tcb' = tcb \ {key[t]}
          /\ cells' = [cells EXCEPT ![key[t]] = Zeros]
          /\ wrote' = [wrote EXCEPT ![t] = {}] /\ late' = [late EXCEPT ![t] = {}]
  /\ UNCHANGED <<regVars, dlVars, pc, lib, round, again>>

\* Keys created before and after this one have destructors that run Android code
\* and may set their keys again.
EnterDestructor(t) ==
  /\ pc[t] = "exit" /\ pos[t] \in {1, 3} /\ pos' = [pos EXCEPT ![t] = @ + 1]
  /\ Goto(t, "destructor")
  /\ UNCHANGED <<tlsVars, regVars, dlVars, lib, round, again, ghosts>>
LeaveDestructor(t) ==
  /\ pc[t] = "destructor" /\ Goto(t, "exit") /\ again' \in {again, again \cup {t}}
  /\ UNCHANGED <<tlsVars, regVars, dlVars, lib, round, pos, ghosts>>

\* A round of destructors is over, and values were set in it: there is another.
NextRound(t) ==
  /\ pc[t] = "exit" /\ pos[t] > 2 /\ t \in again /\ round[t] < MaxRounds
  /\ round' = [round EXCEPT ![t] = @ + 1] /\ pos' = [pos EXCEPT ![t] = 1]
  /\ again' = again \ {t}
  /\ UNCHANGED <<tlsVars, regVars, dlVars, pc, lib, ghosts>>

\* The thread is gone.  An arena it touched again in the last round is never
\* unmapped: it leaves the model.
Gone(t) ==
  LET lost == IF t \in again THEN {key[t]} ELSE {} IN
  /\ pc[t] = "exit" /\ pos[t] > 2 /\ (t \in again => round[t] = MaxRounds)
  /\ Goto(t, "dead") /\ round' = [round EXCEPT ![t] = 0] /\ pos' = [pos EXCEPT ![t] = 1]
  /\ again' = again \ {t}
  /\ tp' = [tp EXCEPT ![t] = None] /\ key' = [key EXCEPT ![t] = None]
  /\ inited' = inited \ {t} /\ cursor' = [cursor EXCEPT ![t] = 0]
  /\ mapped' = mapped \ lost /\ tcb' = tcb \ lost
  /\ cells' = [a \in Arenas |-> IF a \in lost THEN Zeros ELSE cells[a]]
  /\ wrote' = [wrote EXCEPT ![t] = {}] /\ late' = [late EXCEPT ![t] = {}]
  /\ UNCHANGED <<regVars, dlVars, lib>>

Next == \E t \in Threads :
  \/ Hook(t) \/ CatchUp(t) \/ Use(t)
  \/ Dlopen(t) \/ Promote(t) \/ Publish(t) \/ Linked(t) \/ LinkFails(t)
  \/ StartGlibc(t) \/ ThreadWrapper(t) \/ Exit(t) \/ CleanupArena(t)
  \/ EnterDestructor(t) \/ LeaveDestructor(t) \/ NextRound(t) \/ Gone(t)
  \/ \E l \in Loads : Resolve(t, l) \/ Thunk(t, l) \/ Dlclose(t, l)
Spec == Init /\ [][Next]_vars

-----------------------------------------------------------------------------
\* The replay of promoted modules neither misses one nor runs over live data: a
\* thread whose hook or thunk has returned for a variable finds the value it
\* last wrote there in this arena, or the initial value of .tdata.  Inline
\* accesses bypass the replay, so a module the thread used inline before the
\* replay reached it is left out.
OwnValue ==
  \A t \in Threads : pc[t] = "use" /\ lib[t] # 0 /\ desc[lib[t]] \notin late[t] =>
    cells[tp[t]][desc[lib[t]]] = IF desc[lib[t]] \in wrote[t] THEN "own" ELSE "data"

\* Android code never runs on a thread pointer without a complete TCB in a mapped
\* arena, no two threads share one, and the cleanup gives every arena back once:
\* outside the last round of destructors, a mapped arena is the one of a living
\* thread, and the value of its key.
ArenasOwned ==
  /\ TypeOK
  /\ \A t \in Threads : pc[t] = "use" => tp[t] \in tcb
  /\ \A t \in Threads : tp[t] = key[t]
  /\ \A t, u \in Threads : t # u /\ key[t] = key[u] => key[t] = None
  /\ mapped = {key[t] : t \in Threads} \ {None}

\* A slot of the module table that has a static reservation keeps it for ever, no
\* other library gets it, and the CHECKs of the table hold: the module id of a
\* registered library names its own slot.
ReservationsPermanent ==
  [][/\ \A i \in 1..Len(slots) : slots[i].off # 0 =>
          slots'[i].off = slots[i].off /\ slots'[i].si \in {slots[i].si, 0}
     /\ \A l \in Loads : modid'[l] # 0 => slots'[modid'[l]].si = l]_vars
=============================================================================
