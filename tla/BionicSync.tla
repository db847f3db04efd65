----------------------------- MODULE BionicSync -----------------------------
(* Bionic mutexes, condition variables and rwlocks on top of those of glibc
   (hybris/common/bionic_sync.c, bionic_cond.c).  A bionic object is one word
   of storage: the value of its static initializer, or a pointer to the host
   object behind it, which the first user of a static object allocates and
   publishes under static_sync_guard.  Process-private objects; the callers
   keep to the rules of POSIX, a thread takes a lock once, also for reading, and
   no object is destroyed or initialised beside another call on it. *)

CONSTANTS
  Threads, Objects, Mutexes, Rwlocks, Conds,
  Static  \* the value of a static initializer, at most ANDROID_TOP_ADDR_VALUE_*

ASSUME KindsAssumption ==
  /\ Static \notin Objects /\ Mutexes \cup Rwlocks \cup Conds # {}
  /\ Mutexes \cap Rwlocks = {} /\ Mutexes \cap Conds = {} /\ Rwlocks \cap Conds = {}

VARIABLES
  word,     \* the storage of every bionic object
  defunct,  \* bionic objects that were destroyed and not initialised again
  alloc,    \* host objects that malloc() has given out
  lockers,  \* who has locked a host object, with the mode "r" or "w"
  pc,       \* where a thread is in its call
  op,       \* the call
  at,       \* the bionic object of the call
  real,     \* the host object the call has found: realmutex, realcond, realrwlock
  mutex,    \* pthread_cond_wait(): the mutex
  rmutex,   \* and its host object
  holds     \* the locks a thread has by what the calls have answered

hostVars == <<alloc, lockers>>
waitVars == <<mutex, rmutex>>
callVars == <<op, at, real, mutex, rmutex>>
vars == <<word, defunct, hostVars, pc, callVars, holds>>

Locks == Mutexes \cup Rwlocks
Words == Locks \cup Conds
Grips == Threads \X {"r", "w"}
Mode(o) == IF o = "rdlock" THEN "r" ELSE "w"

\* Locks are held in words, and a thread in a call has an object of its kind.
TypeOK ==
  /\ word \in [Words -> Objects \cup {Static}] /\ defunct \subseteq Words
  /\ alloc \subseteq Objects /\ lockers \in [Objects -> SUBSET Grips]
  /\ pc \in [Threads -> {"idle", "mread", "publish", "real", "waiting", "relock"}]
  /\ op \in [Threads -> {"none", "lock", "rdlock", "unlock", "wait", "signal", "broadcast"}]
  /\ at \in [Threads -> Words] /\ real \in [Threads -> Objects \cup {Static}]
  /\ mutex \in [Threads -> Words] /\ rmutex \in [Threads -> Objects \cup {Static}]
  /\ holds \in [Locks -> SUBSET Grips]

AnyWord == CHOOSE w \in Words : TRUE

Init ==
  /\ word = [w \in Words |-> Static] /\ defunct = {}
  /\ alloc = {} /\ lockers = [o \in Objects |-> {}]
  /\ pc = [t \in Threads |-> "idle"] /\ op = [t \in Threads |-> "none"]
  /\ at = [t \in Threads |-> AnyWord] /\ real = [t \in Threads |-> Static]
  /\ mutex = [t \in Threads |-> AnyWord] /\ rmutex = [t \in Threads |-> Static]
  /\ holds = [w \in Locks |-> {}]

InCall(w) == \E t \in Threads :
  pc[t] # "idle" /\ (at[t] = w \/ (op[t] = "wait" /\ mutex[t] = w))
Grip(t) == {<<t, "r">>, <<t, "w">>}

\* the locals of a call are gone when it returns
Return(t) ==
  /\ op' = [op EXCEPT ![t] = "none"] /\ at' = [at EXCEPT ![t] = AnyWord]
  /\ real' = [real EXCEPT ![t] = Static] /\ mutex' = [mutex EXCEPT ![t] = AnyWord]
  /\ rmutex' = [rmutex EXCEPT ![t] = Static]

-----------------------------------------------------------------------------
(* Every call reads the word under the guard and gives the guard up. *)

Begin(t, o, w) ==
  /\ pc[t] = "idle" /\ w \notin defunct
  /\ op' = [op EXCEPT ![t] = o] /\ at' = [at EXCEPT ![t] = w]
  /\ real' = [real EXCEPT ![t] = word[w]]

\* pthread_mutex_lock, _trylock, _timedlock, _lock_timeout_np
MutexLock(t, w) ==
  /\ \A g \in holds[w] : g[1] # t
  /\ Begin(t, "lock", w)
  /\ pc' = [pc EXCEPT ![t] = IF word[w] = Static THEN "publish" ELSE "real"]
  /\ UNCHANGED <<word, defunct, hostVars, waitVars, holds>>

\* pthread_rwlock_rdlock, _wrlock and their try and timed forms: the lookup and
\* the publication are one critical section
RwlockLock(t, w, o) ==
  /\ \A g \in holds[w] : g[1] # t
  /\ Begin(t, o, w)
  /\ pc' = [pc EXCEPT ![t] = "publish"]
  /\ UNCHANGED <<word, defunct, hostVars, waitVars, holds>>

\* pthread_mutex_unlock, pthread_rwlock_unlock; of a static word they do nothing
Unlock(t, w) ==
  /\ \E g \in holds[w] : g[1] = t
  /\ word[w] # Static /\ Begin(t, "unlock", w)
  /\ pc' = [pc EXCEPT ![t] = "real"]
  /\ UNCHANGED <<word, defunct, hostVars, waitVars, holds>>

\* pthread_cond_signal, pthread_cond_broadcast
Pulse(t, c, o) ==
  /\ Begin(t, o, c)
  /\ pc' = [pc EXCEPT ![t] = IF word[c] = Static THEN "publish" ELSE "real"]
  /\ UNCHANGED <<word, defunct, hostVars, waitVars, holds>>

\* pthread_cond_wait and its timed forms read the two words one after the other
CondWait(t, c, m) ==
  /\ <<t, "w">> \in holds[m]
  /\ Begin(t, "wait", c)
  /\ mutex' = [mutex EXCEPT ![t] = m]
  /\ pc' = [pc EXCEPT ![t] = "mread"]
  /\ UNCHANGED <<word, defunct, hostVars, rmutex, holds>>
CondWaitMutex(t) ==
  /\ pc[t] = "mread"
  /\ rmutex' = [rmutex EXCEPT ![t] = word[mutex[t]]]
  /\ pc' = [pc EXCEPT ![t] = IF real[t] = Static THEN "publish" ELSE "real"]
  /\ UNCHANGED <<word, defunct, hostVars, op, at, real, mutex, holds>>

\* hybris_get_static_mutex, _cond, _rwlock_value: somebody may have published
\* the object since the word was read
FaultUnpublished(w, value) == value = Static
Unpublished(w, value) == word[w] = Static
Publish(t) ==
  /\ pc[t] = "publish"
  /\ \/ /\ Unpublished(at[t], real[t])
        /\ \E o \in Objects \ alloc :
             word' = [word EXCEPT ![at[t]] = o] /\ alloc' = alloc \cup {o}
     \/ ~Unpublished(at[t], real[t]) /\ UNCHANGED <<word, alloc>>
  /\ real' = [real EXCEPT ![t] = word'[at[t]]]
  /\ pc' = [pc EXCEPT ![t] = "real"]
  /\ UNCHANGED <<defunct, lockers, op, at, waitVars, holds>>

-----------------------------------------------------------------------------
(* The host operation at the end of the call *)

Compatible(o, mode) == \A g \in lockers[o] : mode = "r" /\ g[2] = "r"

Acquire(t) ==
  /\ pc[t] = "real" /\ op[t] \in {"lock", "rdlock"} /\ Compatible(real[t], Mode(op[t]))
  /\ lockers' = [lockers EXCEPT ![real[t]] = @ \cup {<<t, Mode(op[t])>>}]
  /\ holds' = [holds EXCEPT ![at[t]] = @ \cup {<<t, Mode(op[t])>>}]
  /\ pc' = [pc EXCEPT ![t] = "idle"] /\ Return(t)
  /\ UNCHANGED <<word, defunct, alloc>>

\* a try or timed form answers EBUSY or ETIMEDOUT
GiveUp(t) ==
  /\ pc[t] = "real" /\ op[t] \in {"lock", "rdlock"} /\ ~Compatible(real[t], Mode(op[t]))
  /\ pc' = [pc EXCEPT ![t] = "idle"] /\ Return(t)
  /\ UNCHANGED <<word, defunct, hostVars, holds>>

Release(t) ==
  /\ pc[t] = "real" /\ op[t] = "unlock"
  /\ lockers' = [lockers EXCEPT ![real[t]] = @ \ Grip(t)]
  /\ holds' = [holds EXCEPT ![at[t]] = @ \ Grip(t)]
  /\ pc' = [pc EXCEPT ![t] = "idle"] /\ Return(t)
  /\ UNCHANGED <<word, defunct, alloc>>

Sleep(t) ==
  /\ pc[t] = "real" /\ op[t] = "wait"
  /\ lockers' = [lockers EXCEPT ![rmutex[t]] = @ \ Grip(t)]
  /\ holds' = [holds EXCEPT ![mutex[t]] = @ \ Grip(t)]
  /\ pc' = [pc EXCEPT ![t] = "waiting"]
  /\ UNCHANGED <<word, defunct, alloc, callVars>>

Sleepers(o) == {t \in Threads : pc[t] = "waiting" /\ real[t] = o}

Signal(t) ==
  /\ pc[t] = "real" /\ op[t] = "signal"
  /\ \/ \E u \in Sleepers(real[t]) :
          pc' = [pc EXCEPT ![t] = "idle", ![u] = "relock"]
     \/ Sleepers(real[t]) = {} /\ pc' = [pc EXCEPT ![t] = "idle"]
  /\ Return(t) /\ UNCHANGED <<word, defunct, hostVars, holds>>

Broadcast(t) ==
  /\ pc[t] = "real" /\ op[t] = "broadcast"
  /\ pc' = [u \in Threads |-> IF u = t THEN "idle"
                              ELSE IF u \in Sleepers(real[t]) THEN "relock" ELSE pc[u]]
  /\ Return(t) /\ UNCHANGED <<word, defunct, hostVars, holds>>

\* the deadline of a timed wait, or a spurious wakeup
Wake(t) ==
  /\ pc[t] = "waiting"
  /\ pc' = [pc EXCEPT ![t] = "relock"]
  /\ UNCHANGED <<word, defunct, hostVars, callVars, holds>>

Relock(t) ==
  /\ pc[t] = "relock" /\ Compatible(rmutex[t], "w")
  /\ lockers' = [lockers EXCEPT ![rmutex[t]] = @ \cup {<<t, "w">>}]
  /\ holds' = [holds EXCEPT ![mutex[t]] = @ \cup {<<t, "w">>}]
  /\ pc' = [pc EXCEPT ![t] = "idle"] /\ Return(t)
  /\ UNCHANGED <<word, defunct, alloc>>

-----------------------------------------------------------------------------
(* Initialisation and destruction, next to no other call on the object.  POSIX is
   a little weaker for a condition: it may be destroyed while woken waiters are
   on their way out. *)

Free(w) ==
  /\ alloc' = alloc \ {word[w]}
  /\ lockers' = [o \in Objects |-> IF o = word[w] THEN {} ELSE lockers[o]]

\* pthread_mutex_destroy: EBUSY leaves a usable mutex
FaultBusy(w) == FALSE
Busy(w) == word[w] # Static /\ lockers[word[w]] # {}
DestroyMutex(w) ==
  /\ w \in Mutexes \ defunct /\ ~InCall(w)
  /\ ~Busy(w)
  /\ Free(w) /\ word' = [word EXCEPT ![w] = Static]
  /\ defunct' = defunct \cup {w}
  /\ UNCHANGED <<pc, callVars, holds>>

\* pthread_cond_destroy, with no waiter left; the code resets __wrefs for bionic
\* programs that leave some, and what the host does to those is not modelled
DestroyCond(w) ==
  /\ w \in Conds \ defunct /\ ~InCall(w)
  /\ Free(w) /\ word' = [word EXCEPT ![w] = Static]
  /\ defunct' = defunct \cup {w}
  /\ UNCHANGED <<pc, callVars, holds>>

\* pthread_rwlock_destroy frees the host object and leaves the word
DestroyRwlock(w) ==
  /\ w \in Rwlocks \ defunct /\ ~InCall(w) /\ holds[w] = {}
  /\ Free(w) /\ defunct' = defunct \cup {w}
  /\ UNCHANGED <<word, pc, callVars, holds>>

\* the program stores a static initializer again
Reinitialise(w) ==
  /\ w \in defunct
  /\ word' = [word EXCEPT ![w] = Static] /\ defunct' = defunct \ {w}
  /\ UNCHANGED <<hostVars, pc, callVars, holds>>

\* pthread_mutex_init, pthread_cond_init, pthread_rwlock_init
InitObject(w) ==
  /\ w \in defunct
  /\ \E o \in Objects \ alloc :
       word' = [word EXCEPT ![w] = o] /\ alloc' = alloc \cup {o}
  /\ defunct' = defunct \ {w}
  /\ UNCHANGED <<lockers, pc, callVars, holds>>

\* malloc() fails: the word is left null and the call answers ENOMEM
InitFails(w) ==
  /\ w \in defunct
  /\ word' = [word EXCEPT ![w] = Static]
  /\ UNCHANGED <<defunct, hostVars, pc, callVars, holds>>

Next ==
  \/ \E t \in Threads :
       \/ \E w \in Mutexes : MutexLock(t, w)
       \/ \E w \in Rwlocks, o \in {"lock", "rdlock"} : RwlockLock(t, w, o)
       \/ \E w \in Locks : Unlock(t, w)
       \/ \E c \in Conds, o \in {"signal", "broadcast"} : Pulse(t, c, o)
       \/ \E c \in Conds, m \in Mutexes : CondWait(t, c, m)
       \/ CondWaitMutex(t) \/ Publish(t)
       \/ Acquire(t) \/ GiveUp(t) \/ Release(t)
       \/ Sleep(t) \/ Signal(t) \/ Broadcast(t) \/ Wake(t) \/ Relock(t)
  \/ \E w \in Words :
       \/ DestroyMutex(w) \/ DestroyCond(w) \/ DestroyRwlock(w)
       \/ Reinitialise(w) \/ InitObject(w) \/ InitFails(w)

Spec == Init /\ [][Next]_vars

-----------------------------------------------------------------------------
(* Properties *)

\* Two threads that use a static mutex or rwlock for the first time do not both
\* enter the critical section: the word gives mutual exclusion between a writer
\* and everybody else, also after destruction and another initialisation.
MutualExclusion ==
  \A w \in Locks : \A g, h \in holds[w] : g[1] # h[1] => g[2] = "r" /\ h[2] = "r"

\* What a thread has locked or sleeps on through a word is the host object that
\* the word names now.  So an unlock reaches the lock that was taken, and a
\* signal or broadcast through the word reaches every sleeper.
ReachedThroughWord ==
  /\ \A w \in Locks : holds[w] # {} =>
       word[w] \in Objects /\ holds[w] = lockers[word[w]]
  /\ \A t \in Threads : pc[t] = "waiting" => real[t] = word[at[t]]

\* A host object belongs to one word, and one that belongs to none is free: a
\* lost race to publish leaks nothing, and nothing is freed under a word in use.
InUse == {w \in Words \ defunct : word[w] # Static}
ObjectsOwnedOnce ==
  /\ TypeOK
  /\ alloc = {word[w] : w \in InUse}
  /\ \A v, w \in InUse : word[v] = word[w] => v = w
=============================================================================
