-------------------------- MODULE BionicSyncProofs --------------------------
(* The bionic synchronisation objects work for every number of threads, words
   and host objects. *)
EXTENDS BionicSync, TLAPS

\* A host object is behind one word, which holds what the object has locked.
WordInv ==
  /\ \A v, w \in InUse : word[v] = word[w] => v = w
  /\ \A w \in InUse : word[w] \in alloc
  /\ \A o \in alloc : \E w \in InUse : word[w] = o
  /\ \A w \in InUse \cap Locks : lockers[word[w]] = holds[w]
  /\ \A w \in Locks : w \notin InUse => holds[w] = {}
  /\ \A o \in Objects \ alloc : lockers[o] = {}

\* What a call has read is still what the word says when it matters.
CallInv(t) ==
  /\ pc[t] = "idle" => op[t] = "none"
  /\ pc[t] \in {"mread", "waiting", "relock"} => op[t] = "wait"
  /\ pc[t] # "idle" => op[t] # "none" /\ at[t] \notin defunct
  /\ pc[t] = "publish" => op[t] # "unlock"
  /\ pc[t] \in {"real", "waiting"} => at[t] \in InUse /\ real[t] = word[at[t]]
  /\ pc[t] = "mread" /\ real[t] # Static => real[t] = word[at[t]]
  /\ op[t] \in {"lock", "rdlock", "unlock"} => at[t] \in Locks
  /\ op[t] = "wait" =>
       /\ at[t] \in Conds /\ mutex[t] \in InUse \cap Mutexes
       /\ pc[t] \in {"mread", "publish", "real"} => <<t, "w">> \in holds[mutex[t]]
       /\ pc[t] # "mread" => rmutex[t] = word[mutex[t]]

IInv == TypeOK /\ WordInv /\ (\A t \in Threads : CallInv(t)) /\ MutualExclusion

\* A thread outside a call points at some word.
LEMMA AnyWordType == AnyWord \in Words
  BY KindsAssumption, Zenon DEF AnyWord, Words, Locks

\* Before the first call every word is static and no host object exists.
LEMMA InitInv == ASSUME Init PROVE IInv
  <1>1. TypeOK
    BY AnyWordType, Zenon DEF Init, TypeOK
  <1>2. WordInv /\ MutualExclusion
    BY Zenon DEF Init, WordInv, MutualExclusion, InUse
  <1>3. \A t \in Threads : CallInv(t)
    BY Zenon DEF Init, CallInv
  <1> QED BY <1>1, <1>2, <1>3, Zenon DEF IInv

\* A step that leaves words, host objects and locks alone.
Same == UNCHANGED <<word, defunct, alloc, lockers, holds>>

\* A step that leaves words and host objects alone has only the calls to answer for.
LEMMA SameWords ==
  ASSUME IInv, Same, TypeOK', \A u \in Threads : CallInv(u)'
  PROVE  IInv'
  BY DEF IInv, Same, WordInv, MutualExclusion, InUse, Words, Locks

\* The threads that a step does not concern keep their part of the invariant.
Others(t) == \A u \in Threads \ {t} :
  /\ pc'[u] = pc[u] /\ op'[u] = op[u] /\ at'[u] = at[u] /\ real'[u] = real[u]
  /\ mutex'[u] = mutex[u] /\ rmutex'[u] = rmutex[u]

\* A step of one thread on its own locals disturbs no other call.
LEMMA SameOthers ==
  ASSUME NEW t \in Threads, IInv, Same, Others(t)
  PROVE  \A u \in Threads \ {t} : CallInv(u)'
  <1> TAKE u \in Threads \ {t}
  <1>1. CallInv(u) /\ InUse' = InUse
    BY Zenon DEF IInv, Same, InUse, Words, Locks
  <1> QED BY <1>1, Zenon DEF Same, Others, CallInv, Locks

\* A call that starts has read its word and nothing else.
LEMMA BeginInv ==
  ASSUME IInv, NEW t \in Threads, NEW w \in Words, NEW o,
         \/ w \in Mutexes /\ MutexLock(t, w)
         \/ w \in Rwlocks /\ o \in {"lock", "rdlock"} /\ RwlockLock(t, w, o)
         \/ w \in Locks /\ Unlock(t, w)
         \/ w \in Conds /\ o \in {"signal", "broadcast"} /\ Pulse(t, w, o)
  PROVE  IInv'
  <1>1. Same /\ Others(t)
    BY Zenon DEF MutexLock, RwlockLock, Unlock, Pulse, Begin, Same, Others, IInv, TypeOK,
           hostVars, waitVars
  <1>2. TypeOK'
    BY DEF MutexLock, RwlockLock, Unlock, Pulse, Begin, IInv, TypeOK, hostVars, waitVars
  <1>3. CallInv(t)'
    BY <1>1 DEF MutexLock, RwlockLock, Unlock, Pulse, Begin, IInv, TypeOK, CallInv, Same,
                Locks, InUse
  <1> QED BY <1>1, <1>2, <1>3, SameOthers, SameWords, Zenon

\* pthread_cond_wait() up to its sleep, a wakeup and a failed try touch no lock.
LEMMA WaitInv ==
  ASSUME IInv, KindsAssumption, NEW t \in Threads,
         \/ \E c \in Conds, m \in Mutexes : CondWait(t, c, m)
         \/ CondWaitMutex(t)
         \/ Wake(t)
         \/ GiveUp(t)
  PROVE  IInv'
  <1>0. AnyWord \in Words
    BY AnyWordType, Zenon
  <1>1. Same /\ Others(t)
    BY DEF CondWait, CondWaitMutex, Wake, GiveUp, Return, Begin, Same, Others, IInv,
           TypeOK, hostVars, waitVars, callVars
  <1>2. TypeOK'
    BY <1>0 DEF CondWait, CondWaitMutex, Wake, GiveUp, Return, Begin, IInv, TypeOK, hostVars,
           waitVars, callVars, Words, Locks
  <1>3. CallInv(t)'
    <2>1. CASE \E c \in Conds, m \in Mutexes : CondWait(t, c, m)
      BY <1>1, <2>1 DEF CondWait, Begin, IInv, TypeOK, CallInv, Same, InUse, WordInv,
                        Words, Locks, hostVars
    <2>2. CASE CondWaitMutex(t) \/ Wake(t) \/ GiveUp(t)
      BY <1>1, <2>2 DEF CondWaitMutex, Wake, GiveUp, Return, IInv, TypeOK, CallInv, Same, InUse,
                        Words, hostVars, waitVars, callVars
    <2> QED BY <2>1, <2>2, Zenon
  <1> QED BY <1>1, <1>2, <1>3, SameOthers, SameWords, Zenon

\* Signals and broadcasts move sleepers only.
LEMMA PulseInv ==
  ASSUME IInv, NEW t \in Threads, Signal(t) \/ Broadcast(t)
  PROVE  IInv'
  <1>0. AnyWord \in Words
    BY AnyWordType, Zenon
  <1>1. Same
    BY Zenon DEF Signal, Broadcast, Same, hostVars
  <1>2. TypeOK'
    BY <1>0 DEF Signal, Broadcast, Return, IInv, TypeOK, hostVars, Sleepers
  <1>3. pc'[t] = "idle" /\ op'[t] = "none" /\ at'[t] \in Words
    BY <1>0, Zenon DEF Signal, Broadcast, Return, IInv, TypeOK, Sleepers
  <1>4. \A u \in Threads \ {t} :
          /\ pc'[u] = pc[u] \/ (pc[u] = "waiting" /\ pc'[u] = "relock")
          /\ op'[u] = op[u] /\ at'[u] = at[u] /\ real'[u] = real[u]
          /\ mutex'[u] = mutex[u] /\ rmutex'[u] = rmutex[u]
    BY DEF Signal, Broadcast, Return, IInv, TypeOK, Sleepers
  <1>5. \A u \in Threads : CallInv(u)'
    <2> TAKE u \in Threads
    <2>1. CallInv(u) /\ InUse' = InUse
      BY <1>1, Zenon DEF IInv, Same, InUse, Words, Locks
    <2> QED BY <2>1, <1>1, <1>3, <1>4, Zenon DEF Same, CallInv, Locks
  <1> QED BY <1>1, <1>2, <1>5, SameWords, Zenon

-----------------------------------------------------------------------------
(* Publication and initialisation: a fresh host object behind a word that had
   none. *)

\* A host object just allocated is behind one word, and nobody holds it.
LEMMA FreshObject ==
  ASSUME IInv, KindsAssumption, NEW w \in Words, w \notin InUse,
         NEW o \in Objects \ alloc,
         word' = [word EXCEPT ![w] = o], alloc' = alloc \cup {o},
         defunct' = defunct \ {w}, UNCHANGED <<lockers, holds>>
  PROVE  WordInv' /\ MutualExclusion' /\ InUse' = InUse \cup {w}
  <1>1. InUse' = InUse \cup {w}
    BY DEF IInv, TypeOK, InUse, Words, Locks, KindsAssumption
  <1>2. word'[w] = o /\ \A v \in InUse : word'[v] = word[v] /\ word[v] # o
    BY DEF IInv, TypeOK, WordInv, InUse
  <1>3. WordInv'
    <2>1. (\A v, x \in InUse : word[v] = word[x] => v = x)'
      BY <1>1, <1>2 DEF IInv, WordInv
    <2>2. (\A v \in InUse : word[v] \in alloc)' /\ (\A a \in alloc : \E v \in InUse : word[v] = a)'
      BY <1>1, <1>2 DEF IInv, WordInv
    <2>3. (\A v \in InUse \cap Locks : lockers[word[v]] = holds[v])'
      <3> TAKE v \in (InUse \cap Locks)'
      <3>1. CASE v = w
        <4>1. w \in Locks
          BY <3>1, Zenon DEF Locks
        <4>2. lockers[o] = {} /\ holds[w] = {}
          BY <4>1, Zenon DEF IInv, WordInv
        <4> QED BY <3>1, <4>2, <1>2, Zenon
      <3>2. CASE v # w
        BY <3>2, <1>1, <1>2, Zenon DEF IInv, WordInv, Locks
      <3> QED BY <3>1, <3>2, Zenon
    <2>4. (\A v \in Locks : v \notin InUse => holds[v] = {})' /\ (\A a \in Objects \ alloc : lockers[a] = {})'
      BY <1>1, Zenon DEF IInv, WordInv, Locks
    <2> QED BY <2>1, <2>2, <2>3, <2>4, Zenon DEF WordInv
  <1> QED BY <1>1, <1>3, Zenon DEF IInv, MutualExclusion, Locks

\* The word is looked at again under the lock, so one object is published and
\* every call goes on with it.
LEMMA PublishInv ==
  ASSUME IInv, KindsAssumption, NEW t \in Threads, Publish(t)
  PROVE  IInv'
  <1>1. Others(t) /\ pc'[t] = "real" /\ op'[t] = op[t] /\ at'[t] = at[t]
        /\ mutex'[t] = mutex[t] /\ rmutex'[t] = rmutex[t] /\ real'[t] = word'[at[t]]
    BY Zenon DEF Publish, Others, IInv, TypeOK, waitVars
  <1>2. at[t] \in Words /\ at[t] \notin defunct /\ CallInv(t) /\ pc[t] = "publish"
    BY Zenon DEF IInv, CallInv, Publish, TypeOK
  <1>3. CASE Unpublished(at[t], real[t])
    <2>1. PICK o \in Objects \ alloc :
            word' = [word EXCEPT ![at[t]] = o] /\ alloc' = alloc \cup {o}
      BY <1>3, Zenon DEF Publish
    <2>2. at[t] \notin InUse /\ word[at[t]] = Static
      BY <1>3, Zenon DEF Unpublished, InUse
    <2>3. defunct' = defunct \ {at[t]} /\ UNCHANGED <<lockers, holds, defunct>>
      BY <1>2, Zenon DEF Publish
    <2>4. WordInv' /\ MutualExclusion' /\ InUse' = InUse \cup {at[t]}
      BY <1>2, <2>1, <2>2, <2>3, FreshObject, Zenon
    <2>5. TypeOK'
      BY <1>2, <2>1, <2>3, Zenon DEF Publish, IInv, TypeOK, waitVars
    <2>6. word'[at[t]] = o /\ \A v \in Words : v # at[t] => word'[v] = word[v]
      BY <1>2, <2>1, Zenon DEF IInv, TypeOK
    <2>7. CallInv(t)'
      BY <1>1, <1>2, <2>2, <2>3, <2>4, <2>6, Zenon DEF CallInv, Locks, InUse
    <2>8. ASSUME NEW u \in Threads \ {t} PROVE CallInv(u)'
      <3>1. CallInv(u) /\ at[u] \in Words
        BY Zenon DEF IInv, TypeOK
      <3> QED BY <1>1, <3>1, <2>2, <2>3, <2>4, <2>6 DEF CallInv, Others, Locks, InUse
    <2> QED BY <2>4, <2>5, <2>7, <2>8, Zenon DEF IInv
  <1>4. CASE ~Unpublished(at[t], real[t])
    <2>1. Same /\ at[t] \in InUse /\ InUse' = InUse
      BY <1>2, <1>4, Zenon DEF Publish, Unpublished, Same, InUse, Words, Locks
    <2>2. TypeOK'
      BY <1>2, <1>4, Zenon DEF Publish, IInv, TypeOK, waitVars
    <2>3. CallInv(t)'
      BY <1>1, <1>2, <2>1, Zenon DEF CallInv, Same, Locks
    <2> QED BY <1>1, <2>1, <2>2, <2>3, SameOthers, SameWords, Zenon
  <1> QED BY <1>3, <1>4, Zenon

-----------------------------------------------------------------------------
(* Locking and unlocking: the object behind a word and the word change alike. *)

\* Holders change together at the host object and at its word.
LEMMA LockStep ==
  ASSUME IInv, NEW t \in Threads, NEW w \in InUse \cap Locks, NEW S \in SUBSET Grips,
         lockers' = [lockers EXCEPT ![word[w]] = S], holds' = [holds EXCEPT ![w] = S],
         UNCHANGED <<word, defunct, alloc>>, Others(t),
         \A u \in Threads \ {t} : <<u, "w">> \in holds[w] => <<u, "w">> \in S
  PROVE  /\ WordInv' /\ InUse' = InUse /\ \A u \in Threads \ {t} : CallInv(u)'
         /\ (lockers \in [Objects -> SUBSET Grips])' /\ (holds \in [Locks -> SUBSET Grips])'
  <1>1. InUse' = InUse
    BY Zenon DEF InUse, Words, Locks
  <1>2. word[w] \in Objects /\ word[w] \in alloc /\ w \in Locks /\ w \in InUse
    BY Zenon DEF IInv, WordInv, TypeOK
  <1>3. lockers'[word[w]] = S /\ holds'[w] = S
        /\ (\A o \in Objects : o # word[w] => lockers'[o] = lockers[o])
        /\ (\A v \in Locks : v # w => holds'[v] = holds[v])
    BY <1>2, Zenon DEF IInv, TypeOK
  <1>4. WordInv'
    <2>1. (\A v, x \in InUse : word[v] = word[x] => v = x)' /\ (\A v \in InUse : word[v] \in alloc)'
          /\ (\A a \in alloc : \E v \in InUse : word[v] = a)'
      BY <1>1, Zenon DEF IInv, WordInv
    <2>2. (\A v \in InUse \cap Locks : lockers[word[v]] = holds[v])'
      <3> TAKE v \in (InUse \cap Locks)'
      <3>1. v \in InUse /\ v \in Locks /\ word[v] \in Objects
        BY <1>1, Zenon DEF IInv, WordInv, TypeOK, Locks
      <3>2. v # w => word[v] # word[w]
        BY <3>1, Zenon DEF IInv, WordInv
      <3> QED BY <3>1, <3>2, <1>3 DEF IInv, WordInv
    <2>3. (\A v \in Locks : v \notin InUse => holds[v] = {})' /\ (\A a \in Objects \ alloc : lockers[a] = {})'
      BY <1>1, <1>2, <1>3 DEF IInv, WordInv, Locks
    <2> QED BY <2>1, <2>2, <2>3, Zenon DEF WordInv
  <1>5. ASSUME NEW u \in Threads \ {t} PROVE CallInv(u)'
    <2>1. CallInv(u) /\ mutex[u] \in Words
      BY Zenon DEF IInv, TypeOK
    <2>2. mutex[u] \in Locks => (<<u, "w">> \in holds[mutex[u]] => <<u, "w">> \in holds'[mutex[u]])
      BY <1>3, Zenon
    <2> QED BY <2>1, <2>2, <1>1, Zenon DEF CallInv, Others, Locks
  <1>6. (lockers \in [Objects -> SUBSET Grips])' /\ (holds \in [Locks -> SUBSET Grips])'
    BY <1>2, Zenon DEF IInv, TypeOK, Locks, Grips
  <1> QED BY <1>1, <1>4, <1>5, <1>6, Zenon

\* The host lock is taken through the word.
LEMMA AcquireInv ==
  ASSUME IInv, NEW t \in Threads, Acquire(t)
  PROVE  IInv'
  <1> DEFINE w == at[t]
             S == holds[w] \cup {<<t, Mode(op[t])>>}
  <1>0. AnyWord \in Words
    BY AnyWordType, Zenon
  <1>1. w \in InUse \cap Locks /\ real[t] = word[w] /\ lockers[word[w]] = holds[w]
    BY Zenon DEF Acquire, IInv, CallInv, WordInv
  <1>2. Mode(op[t]) \in {"r", "w"} /\ holds[w] \subseteq Grips
    BY <1>1, Zenon DEF Mode, IInv, TypeOK
  <1>3. S \in SUBSET Grips
    BY <1>2 DEF Grips
  <1>4. lockers' = [lockers EXCEPT ![word[w]] = S] /\ holds' = [holds EXCEPT ![w] = S]
    BY <1>1, Zenon DEF Acquire
  <1>5. Others(t) /\ UNCHANGED <<word, defunct, alloc>>
    BY Zenon DEF Acquire, Return, Others, IInv, TypeOK
  <1>6. /\ WordInv' /\ InUse' = InUse /\ \A u \in Threads \ {t} : CallInv(u)'
        /\ (lockers \in [Objects -> SUBSET Grips])' /\ (holds \in [Locks -> SUBSET Grips])'
    BY <1>1, <1>3, <1>4, <1>5, LockStep, Zenon
  <1>7. TypeOK'
    <2>1. (pc \in [Threads -> {"idle", "mread", "publish", "real", "waiting", "relock"}])'
          /\ UNCHANGED <<word, defunct, alloc>>
      BY Zenon DEF Acquire, IInv, TypeOK
    <2>2. (op \in [Threads -> {"none", "lock", "rdlock", "unlock", "wait", "signal", "broadcast"}])'
          /\ (at \in [Threads -> Words])' /\ (real \in [Threads -> Objects \cup {Static}])'
          /\ (mutex \in [Threads -> Words])' /\ (rmutex \in [Threads -> Objects \cup {Static}])'
      BY <1>0, Zenon DEF Acquire, Return, IInv, TypeOK, Words, Locks
    <2> QED BY <2>1, <2>2, <1>6, Zenon DEF IInv, TypeOK, Words, Locks
  <1>8. CallInv(t)'
    BY Zenon DEF Acquire, Return, IInv, TypeOK, CallInv
  <1>9. MutualExclusion'
    <2>1. holds'[w] = S /\ \A v \in Locks : v # w => holds'[v] = holds[v]
      BY <1>1, <1>4, Zenon DEF IInv, TypeOK
    <2>2. \A g \in holds[w] : Mode(op[t]) = "r" /\ g[2] = "r"
      BY <1>1, Zenon DEF Acquire, Compatible
    <2>3. \A g, h \in S : g[1] # h[1] => g[2] = "r" /\ h[2] = "r"
      BY <1>1, <2>2 DEF IInv, MutualExclusion
    <2> QED BY <2>1, <2>3, Zenon DEF IInv, MutualExclusion, Locks
  <1> QED BY <1>6, <1>7, <1>8, <1>9, Zenon DEF IInv

\* A waiter takes its mutex again before it returns.
LEMMA RelockInv ==
  ASSUME IInv, NEW t \in Threads, Relock(t)
  PROVE  IInv'
  <1> DEFINE w == mutex[t]
             S == holds[w] \cup {<<t, "w">>}
  <1>0. AnyWord \in Words
    BY AnyWordType, Zenon
  <1>1. w \in InUse \cap Locks /\ rmutex[t] = word[w] /\ lockers[word[w]] = holds[w]
    BY Zenon DEF Relock, IInv, CallInv, WordInv, Locks
  <1>2. S \in SUBSET Grips
    BY <1>1 DEF Grips, IInv, TypeOK
  <1>3. lockers' = [lockers EXCEPT ![word[w]] = S] /\ holds' = [holds EXCEPT ![w] = S]
    BY <1>1, Zenon DEF Relock
  <1>4. Others(t) /\ UNCHANGED <<word, defunct, alloc>>
    BY Zenon DEF Relock, Return, Others, IInv, TypeOK
  <1>5. /\ WordInv' /\ InUse' = InUse /\ \A u \in Threads \ {t} : CallInv(u)'
        /\ (lockers \in [Objects -> SUBSET Grips])' /\ (holds \in [Locks -> SUBSET Grips])'
    BY <1>1, <1>2, <1>3, <1>4, LockStep, Zenon
  <1>6. TypeOK'
    <2>1. (pc \in [Threads -> {"idle", "mread", "publish", "real", "waiting", "relock"}])'
          /\ UNCHANGED <<word, defunct, alloc>>
      BY Zenon DEF Relock, IInv, TypeOK
    <2>2. (op \in [Threads -> {"none", "lock", "rdlock", "unlock", "wait", "signal", "broadcast"}])'
          /\ (at \in [Threads -> Words])' /\ (real \in [Threads -> Objects \cup {Static}])'
          /\ (mutex \in [Threads -> Words])' /\ (rmutex \in [Threads -> Objects \cup {Static}])'
      BY <1>0, Zenon DEF Relock, Return, IInv, TypeOK, Words, Locks
    <2> QED BY <2>1, <2>2, <1>5, Zenon DEF IInv, TypeOK, Words, Locks
  <1>7. CallInv(t)'
    BY Zenon DEF Relock, Return, IInv, TypeOK, CallInv
  <1>8. MutualExclusion'
    <2>1. holds'[w] = S /\ \A v \in Locks : v # w => holds'[v] = holds[v]
      BY <1>1, <1>3, Zenon DEF IInv, TypeOK
    <2>2. holds[w] = {}
      BY <1>1, Zenon DEF Relock, Compatible
    <2> QED BY <2>1, <2>2 DEF IInv, MutualExclusion, Locks
  <1> QED BY <1>5, <1>6, <1>7, <1>8, Zenon DEF IInv

\* The host lock is given back through the word.
LEMMA ReleaseInv ==
  ASSUME IInv, NEW t \in Threads, Release(t)
  PROVE  IInv'
  <1> DEFINE w == at[t]
             S == holds[w] \ Grip(t)
  <1>0. AnyWord \in Words
    BY AnyWordType, Zenon
  <1>1. w \in InUse \cap Locks /\ real[t] = word[w] /\ lockers[word[w]] = holds[w]
    BY Zenon DEF Release, IInv, CallInv, WordInv
  <1>2. S \in SUBSET Grips /\ \A u \in Threads \ {t} : <<u, "w">> \in holds[w] => <<u, "w">> \in S
    BY <1>1, Zenon DEF Grip, IInv, TypeOK
  <1>3. lockers' = [lockers EXCEPT ![word[w]] = S] /\ holds' = [holds EXCEPT ![w] = S]
    BY <1>1, Zenon DEF Release
  <1>4. Others(t) /\ UNCHANGED <<word, defunct, alloc>>
    BY Zenon DEF Release, Return, Others, IInv, TypeOK
  <1>5. /\ WordInv' /\ InUse' = InUse /\ \A u \in Threads \ {t} : CallInv(u)'
        /\ (lockers \in [Objects -> SUBSET Grips])' /\ (holds \in [Locks -> SUBSET Grips])'
    BY <1>1, <1>2, <1>3, <1>4, LockStep, Zenon
  <1>6. TypeOK'
    <2>1. (pc \in [Threads -> {"idle", "mread", "publish", "real", "waiting", "relock"}])'
          /\ UNCHANGED <<word, defunct, alloc>>
      BY Zenon DEF Release, IInv, TypeOK
    <2>2. (op \in [Threads -> {"none", "lock", "rdlock", "unlock", "wait", "signal", "broadcast"}])'
          /\ (at \in [Threads -> Words])' /\ (real \in [Threads -> Objects \cup {Static}])'
          /\ (mutex \in [Threads -> Words])' /\ (rmutex \in [Threads -> Objects \cup {Static}])'
      BY <1>0, Zenon DEF Release, Return, IInv, TypeOK, Words, Locks
    <2> QED BY <2>1, <2>2, <1>5, Zenon DEF IInv, TypeOK, Words, Locks
  <1>7. CallInv(t)'
    BY Zenon DEF Release, Return, IInv, TypeOK, CallInv
  <1>8. MutualExclusion'
    <2>1. holds'[w] \subseteq holds[w] /\ \A v \in Locks : v # w => holds'[v] = holds[v]
      BY <1>1, <1>3, Zenon DEF IInv, TypeOK
    <2> QED BY <2>1, Zenon DEF IInv, MutualExclusion, Locks
  <1> QED BY <1>5, <1>6, <1>7, <1>8, Zenon DEF IInv

\* A waiter gives its mutex back as it goes to sleep.
LEMMA SleepInv ==
  ASSUME IInv, KindsAssumption, NEW t \in Threads, Sleep(t)
  PROVE  IInv'
  <1> DEFINE w == mutex[t]
             S == holds[w] \ Grip(t)
  <1>1. w \in InUse \cap Locks /\ rmutex[t] = word[w] /\ lockers[word[w]] = holds[w]
    BY Zenon DEF Sleep, IInv, CallInv, WordInv, Locks
  <1>2. S \in SUBSET Grips /\ \A u \in Threads \ {t} : <<u, "w">> \in holds[w] => <<u, "w">> \in S
    BY <1>1, Zenon DEF Grip, IInv, TypeOK
  <1>3. lockers' = [lockers EXCEPT ![word[w]] = S] /\ holds' = [holds EXCEPT ![w] = S]
    BY <1>1, Zenon DEF Sleep
  <1>4. Others(t) /\ UNCHANGED <<word, defunct, alloc, callVars>>
    BY Zenon DEF Sleep, Others, IInv, TypeOK, callVars
  <1>5. /\ WordInv' /\ InUse' = InUse /\ \A u \in Threads \ {t} : CallInv(u)'
        /\ (lockers \in [Objects -> SUBSET Grips])' /\ (holds \in [Locks -> SUBSET Grips])'
    BY <1>1, <1>2, <1>3, <1>4, LockStep, Zenon
  <1>6. TypeOK'
    <2>1. (pc \in [Threads -> {"idle", "mread", "publish", "real", "waiting", "relock"}])'
      BY Zenon DEF Sleep, IInv, TypeOK
    <2> QED BY <2>1, <1>4, <1>5, Zenon DEF IInv, TypeOK, callVars, Words, Locks
  <1>7. CallInv(t)'
    <2>1. pc'[t] = "waiting" /\ CallInv(t) /\ pc[t] = "real" /\ op[t] = "wait"
      BY Zenon DEF Sleep, IInv, TypeOK
    <2> QED BY <1>4, <1>5, <2>1, Zenon DEF CallInv, callVars, Locks
  <1>8. MutualExclusion'
    <2>1. holds'[w] \subseteq holds[w] /\ \A v \in Locks : v # w => holds'[v] = holds[v]
      BY <1>1, <1>3, Zenon DEF IInv, TypeOK
    <2> QED BY <2>1, Zenon DEF IInv, MutualExclusion, Locks
  <1> QED BY <1>5, <1>6, <1>7, <1>8, Zenon DEF IInv

-----------------------------------------------------------------------------
(* Destruction and initialisation, next to no other call on the word *)

Calls == UNCHANGED <<pc, op, at, real, mutex, rmutex>>

\* A destroyed word was free and in no call, and its object had no holder.
LEMMA DestroyInv ==
  ASSUME IInv, KindsAssumption, NEW w \in Words,
         DestroyMutex(w) \/ DestroyCond(w) \/ DestroyRwlock(w)
  PROVE  IInv'
  <1>1. Calls /\ UNCHANGED holds /\ defunct' = defunct \cup {w} /\ ~InCall(w) /\ Free(w)
        /\ w \notin defunct
    BY Zenon DEF DestroyMutex, DestroyCond, DestroyRwlock, Calls, callVars
  <1>2. /\ word' \in [Words -> Objects \cup {Static}]
        /\ \A v \in Words : v # w => word'[v] = word[v]
    BY Zenon DEF DestroyMutex, DestroyCond, DestroyRwlock, IInv, TypeOK, Words, Locks
  <1>3. TypeOK'
    BY <1>1, <1>2, Zenon DEF IInv, TypeOK, Calls, Free, Words, Locks, Grips
  <1>4. InUse' = InUse \ {w}
    BY <1>1, <1>2, Zenon DEF InUse, Words, Locks
  <1>5. w \in Locks => holds[w] = {}
    <2>1. CASE w \in InUse
      <3>1. word[w] # Static
        BY <2>1, Zenon DEF InUse
      <3>2. CASE DestroyMutex(w)
        BY <2>1, <3>1, <3>2, Zenon DEF DestroyMutex, Busy, IInv, WordInv, Locks
      <3>3. CASE DestroyCond(w)
        BY <3>3, Zenon DEF DestroyCond, KindsAssumption, Locks
      <3>4. CASE DestroyRwlock(w)
        BY <3>4, Zenon DEF DestroyRwlock
      <3> QED BY <3>2, <3>3, <3>4, Zenon
    <2>2. CASE w \notin InUse
      BY <2>2, Zenon DEF IInv, WordInv
    <2> QED BY <2>1, <2>2, Zenon
  <1>6. \A v \in InUse' : v \in InUse /\ word'[v] = word[v] /\ word[v] # word[w]
    <2> TAKE v \in InUse'
    <2>1. v \in InUse /\ v # w /\ word'[v] = word[v]
      BY <1>2, <1>4, Zenon DEF InUse
    <2>2. CASE word[w] = Static
      BY <2>1, <2>2, Zenon DEF InUse
    <2>3. CASE word[w] # Static
      <3>1. w \in InUse
        BY <1>1, <2>3, Zenon DEF InUse
      <3> QED BY <2>1, <3>1, Zenon DEF IInv, WordInv
    <2> QED BY <2>1, <2>2, <2>3, Zenon
  <1>7. WordInv'
    <2>1. (\A v, x \in InUse : word[v] = word[x] => v = x)' /\ (\A v \in InUse : word[v] \in alloc)'
      BY <1>1, <1>6, ZenonT(30) DEF IInv, WordInv, Free
    <2>2. (\A a \in alloc : \E v \in InUse : word[v] = a)'
      <3> TAKE a \in alloc'
      <3>1. a \in alloc /\ a # word[w]
        BY <1>1, Zenon DEF Free
      <3>2. PICK v \in InUse : word[v] = a
        BY <3>1, Zenon DEF IInv, WordInv
      <3> QED BY <3>1, <3>2, <1>4, <1>6, Zenon
    <2>3. (\A v \in InUse \cap Locks : lockers[word[v]] = holds[v])'
      <3> TAKE v \in (InUse \cap Locks)'
      <3>1. v \in InUse /\ v \in Locks /\ word'[v] = word[v] /\ word[v] # word[w]
        BY <1>6, Zenon DEF Locks
      <3>2. word[v] \in Objects /\ lockers[word[v]] = holds[v]
        BY <3>1, Zenon DEF IInv, WordInv, TypeOK
      <3> QED BY <3>1, <3>2, <1>1, Zenon DEF Free
    <2>4. (\A v \in Locks : v \notin InUse => holds[v] = {})'
      BY <1>1, <1>4, <1>5, Zenon DEF IInv, WordInv, Locks
    <2>5. (\A a \in Objects \ alloc : lockers[a] = {})'
      BY <1>1, Zenon DEF IInv, WordInv, Free
    <2> QED BY <2>1, <2>2, <2>3, <2>4, <2>5, Zenon DEF WordInv
  <1>8. ASSUME NEW u \in Threads PROVE CallInv(u)'
    <2>1. CallInv(u) /\ at[u] \in Words /\ mutex[u] \in Words
      BY Zenon DEF IInv, TypeOK
    <2>2. pc[u] # "idle" => at[u] # w /\ (op[u] = "wait" => mutex[u] # w)
      BY <1>1, Zenon DEF InCall
    <2> QED BY <2>1, <2>2, <1>1, <1>2, <1>4, Zenon DEF CallInv, Calls, Locks
  <1> QED BY <1>1, <1>3, <1>7, <1>8, Zenon DEF IInv, MutualExclusion, Locks

\* A word is made usable again only after it was destroyed.
LEMMA InitialiseInv ==
  ASSUME IInv, KindsAssumption, NEW w \in Words,
         Reinitialise(w) \/ InitObject(w) \/ InitFails(w)
  PROVE  IInv'
  <1>1. Calls /\ UNCHANGED <<lockers, holds>> /\ w \in defunct /\ w \notin InUse
    BY Zenon DEF Reinitialise, InitObject, InitFails, Calls, callVars, hostVars, InUse
  <1>2. /\ word' \in [Words -> Objects \cup {Static}]
        /\ \A v \in Words : v # w => word'[v] = word[v]
        /\ defunct' \subseteq defunct /\ defunct \ {w} \subseteq defunct'
        /\ alloc' \subseteq Objects
    BY DEF Reinitialise, InitObject, InitFails, IInv, TypeOK, Words, Locks, hostVars
  <1>3. TypeOK'
    BY <1>1, <1>2, Zenon DEF IInv, TypeOK, Calls, Words, Locks, Grips
  <1>4. ASSUME NEW u \in Threads, InUse \subseteq InUse' PROVE CallInv(u)'
    <2>1. CallInv(u) /\ at[u] \in Words /\ mutex[u] \in Words /\ \A v \in InUse : v # w
      BY <1>1, Zenon DEF IInv, TypeOK
    <2> QED BY <2>1, <1>1, <1>2, <1>4, Zenon DEF CallInv, Calls, Locks
  <1>5. CASE InitObject(w)
    <2>1. PICK o \in Objects \ alloc : word' = [word EXCEPT ![w] = o] /\ alloc' = alloc \cup {o}
      BY <1>5, Zenon DEF InitObject
    <2>2. WordInv' /\ MutualExclusion' /\ InUse' = InUse \cup {w}
      BY <1>1, <1>5, <2>1, FreshObject, Zenon DEF InitObject
    <2> QED BY <1>3, <1>4, <2>2, Zenon DEF IInv
  <1>6. CASE Reinitialise(w) \/ InitFails(w)
    <2>1. InUse' = InUse /\ UNCHANGED alloc
      BY <1>1, <1>2, <1>6 DEF Reinitialise, InitFails, InUse, Words, Locks, hostVars, IInv, TypeOK
    <2>2. \A v \in InUse : word'[v] = word[v]
      BY <1>1, <1>2, Zenon DEF InUse
    <2>3. WordInv' /\ MutualExclusion'
      BY <1>1, <2>1, <2>2 DEF IInv, WordInv, MutualExclusion, Locks
    <2> QED BY <1>3, <1>4, <2>1, <2>3, Zenon DEF IInv
  <1> QED BY <1>5, <1>6, Zenon

-----------------------------------------------------------------------------

\* Every step keeps the invariant.
LEMMA NextInv == IInv /\ [Next]_vars => IInv'
  <1> SUFFICES ASSUME IInv, [Next]_vars PROVE IInv'
    OBVIOUS
  <1>1. ASSUME NEW t \in Threads,
               \/ \E w \in Mutexes : MutexLock(t, w)
               \/ \E w \in Rwlocks, o \in {"lock", "rdlock"} : RwlockLock(t, w, o)
               \/ \E w \in Locks : Unlock(t, w)
               \/ \E c \in Conds, o \in {"signal", "broadcast"} : Pulse(t, c, o)
        PROVE IInv'
    BY <1>1, BeginInv, Zenon DEF Words, Locks
  <1>2. ASSUME NEW t \in Threads,
               \/ \E c \in Conds, m \in Mutexes : CondWait(t, c, m)
               \/ CondWaitMutex(t) \/ Publish(t)
               \/ Acquire(t) \/ GiveUp(t) \/ Release(t)
               \/ Sleep(t) \/ Signal(t) \/ Broadcast(t) \/ Wake(t) \/ Relock(t)
        PROVE IInv'
    BY <1>2, KindsAssumption, WaitInv, PublishInv, AcquireInv, ReleaseInv, SleepInv,
       PulseInv, RelockInv, Zenon
  <1>3. ASSUME NEW w \in Words,
               \/ DestroyMutex(w) \/ DestroyCond(w) \/ DestroyRwlock(w)
               \/ Reinitialise(w) \/ InitObject(w) \/ InitFails(w)
        PROVE IInv'
    BY <1>3, KindsAssumption, DestroyInv, InitialiseInv, Zenon
  <1>4. CASE UNCHANGED vars
    <2>1. Same /\ Calls
      BY <1>4, Zenon DEF vars, hostVars, callVars, Same, Calls
    <2>2. InUse' = InUse /\ TypeOK'
      BY <2>1, Zenon DEF Same, Calls, InUse, IInv, TypeOK, Words, Locks, Grips
    <2>3. \A u \in Threads : CallInv(u)'
      BY <2>1, <2>2, Zenon DEF Same, Calls, IInv, CallInv, Locks
    <2> QED BY <2>1, <2>2, <2>3, SameWords, Zenon
  <1> QED BY <1>1, <1>2, <1>3, <1>4, Zenon DEF Next

\* The invariant holds in every reachable state.
LEMMA InvariantHolds == Spec => []IInv
  BY InitInv, NextInv, PTL DEF Spec

\* The first users of a static mutex or rwlock exclude each other, for every
\* number of threads and objects, over destruction and initialisation.
THEOREM Exclusion == Spec => []MutualExclusion
  <1>1. IInv => MutualExclusion
    BY Zenon DEF IInv
  <1> QED BY <1>1, InvariantHolds, PTL

\* Unlocks, signals and broadcasts through a word reach the host object that the
\* calls before them used.
THEOREM Reached == Spec => []ReachedThroughWord
  <1>1. IInv => ReachedThroughWord
    <2> SUFFICES ASSUME IInv PROVE ReachedThroughWord
      OBVIOUS
    <2>1. ASSUME NEW w \in Locks, holds[w] # {}
          PROVE  word[w] \in Objects /\ holds[w] = lockers[word[w]]
      <3>1. w \in InUse
        BY <2>1, Zenon DEF IInv, WordInv
      <3> QED BY <3>1, Zenon DEF IInv, WordInv, TypeOK
    <2>2. ASSUME NEW t \in Threads, pc[t] = "waiting" PROVE real[t] = word[at[t]]
      BY <2>2, Zenon DEF IInv, CallInv
    <2> QED BY <2>1, <2>2, Zenon DEF ReachedThroughWord
  <1> QED BY <1>1, InvariantHolds, PTL

\* Every host object that malloc() gave out is behind exactly one word in use.
THEOREM OwnedOnce == Spec => []ObjectsOwnedOnce
  <1>1. IInv => ObjectsOwnedOnce
    BY DEF IInv, WordInv, ObjectsOwnedOnce
  <1> QED BY <1>1, InvariantHolds, PTL
=============================================================================
