------------------------ MODULE HeadlessWindowProofs ------------------------
(* The headless window keeps its promises for every set of buffers, threads   *)
(* and descriptors, finite or not.                                            *)
EXTENDS HeadlessWindow, FiniteSetTheorems, TLAPS

\* A descriptor is stored in one buffer, or with the caller of one buffer.
Apart ==
  \A b, c \in Buffers :
    /\ fence[b] = fence[c] /\ fence[b] # NoFence => b = c
    /\ taken[b] = taken[c] /\ taken[b] # NoFence => b = c
    /\ fence[b] = taken[c] => fence[b] = NoFence
OpenExact ==
  \A f \in Fences : f \in open <=> \E b \in Buffers : fence[b] = f \/ taken[b] = f

\* A fence not yet imported came with a buffer that is still held, so the next
\* dequeue cannot overwrite it; a buffer that exists and is held was dequeued,
\* and one that is free still has the fence it was given back with.
Custody ==
  \A b \in Buffers :
    /\ taken[b] # NoFence => held[b] /\ b \in imported
    /\ Exists(b) /\ held[b] => b \in owned
    /\ Exists(b) /\ ~held[b] => fence[b] = last[b]

IInv == TypeOK /\ Apart /\ OpenExact /\ Custody /\ IsFiniteSet(open)

-----------------------------------------------------------------------------
(* What the operators do *)

\* Calls of a thread that move no buffer and no descriptor change only its place.
LEMMA ThreadStep ==
  ASSUME IInv, UNCHANGED <<windowVars, callerVars, last, open, alive>>,
         pc' \in [Threads -> {"idle", "waiting", "awake"}],
         limit' \in [Threads -> {"zero", "bounded", "forever"}]
  PROVE  IInv'
<1>1. \A b : Exists(b)' <=> Exists(b)
  BY Zenon DEF Exists, InPool, windowVars, callerVars
<1>2. TypeOK'
  BY <1>1, Zenon DEF IInv, TypeOK, windowVars, callerVars
<1>3. Apart' /\ OpenExact' /\ IsFiniteSet(open)'
  BY Zenon DEF IInv, Apart, OpenExact, windowVars, callerVars
<1>4. Custody'
  BY <1>1, Zenon DEF IInv, Custody, windowVars, callerVars
<1> QED
  BY <1>2, <1>3, <1>4, Zenon DEF IInv

\* pthread_cond_signal() and pthread_cond_broadcast() leave every thread at a
\* point of dequeue().
LEMMA WakeTyped ==
  ASSUME TypeOK
  PROVE  /\ Broadcast \in [Threads -> {"idle", "waiting", "awake"}]
         /\ Signal => pc' \in [Threads -> {"idle", "waiting", "awake"}]
<1>1. Broadcast \in [Threads -> {"idle", "waiting", "awake"}]
  BY SMT DEF TypeOK, Broadcast
<1>2. ASSUME Signal
      PROVE  pc' \in [Threads -> {"idle", "waiting", "awake"}]
  BY <1>2, SMT DEF TypeOK, Signal
<1> QED
  BY <1>1, <1>2

\* ~Buffer() of buffers whose last reference goes: their descriptors are closed,
\* and every other one stays open and in its place.
LEMMA FreeEffect ==
  ASSUME IInv, NEW gone \in SUBSET Buffers, Free(gone), UNCHANGED taken
  PROVE  /\ fence' \in [Buffers -> Fences \cup {NoFence}]
         /\ open' \subseteq Fences
         /\ \A b \in Buffers : fence'[b] = IF b \in gone THEN NoFence ELSE fence[b]
         /\ Apart' /\ OpenExact' /\ IsFiniteSet(open')
<1>1. /\ fence \in [Buffers -> Fences \cup {NoFence}] /\ taken \in [Buffers -> Fences \cup {NoFence}]
      /\ open \subseteq Fences
  BY Zenon DEF IInv, TypeOK
<1>2. \A b \in Buffers : fence'[b] = IF b \in gone THEN NoFence ELSE fence[b]
  BY Zenon DEF Free
<1>3. fence' \in [Buffers -> Fences \cup {NoFence}]
  BY <1>1, SMT DEF Free
<1>4. open' \subseteq open
  BY Zenon DEF Free
<1>5. IsFiniteSet(open')
  BY <1>4, FS_Subset, Zenon DEF IInv
<1>6. Apart'
  BY <1>1, <1>2, FenceAssumption, Zenon DEF IInv, Apart
<1>7. OpenExact'
  <2> SUFFICES ASSUME NEW f \in Fences
               PROVE  f \in open' <=> \E b \in Buffers : fence'[b] = f \/ taken[b] = f
    BY Zenon DEF OpenExact
  <2>1. f # NoFence
    BY FenceAssumption, Zenon
  <2>2. f \in open' <=> f \in open /\ \A b \in gone : fence[b] # f
    BY Zenon DEF Free
  <2>3. f \in open <=> \E b \in Buffers : fence[b] = f \/ taken[b] = f
    BY Zenon DEF IInv, OpenExact
  <2>4. ASSUME NEW b \in Buffers, taken[b] = f
        PROVE  \A c \in gone : fence[c] # f
    BY <2>4, <2>1, Zenon DEF IInv, Apart
  <2>5. ASSUME NEW b \in Buffers \ gone, fence[b] = f
        PROVE  \A c \in gone : fence[c] # f
    BY <2>5, <2>1, Zenon DEF IInv, Apart
  <2> QED
    BY <1>2, <2>1, <2>2, <2>3, <2>4, <2>5, Zenon
<1> QED
  BY <1>1, <1>2, <1>3, <1>4, <1>5, <1>6, <1>7, Zenon

-----------------------------------------------------------------------------
(* Every step keeps the invariant *)

\* configure() makes a pool of new buffers, none of which has a descriptor.
LEMMA ConfigureStep ==
  ASSUME IInv, NEW new \in NewPools, Configure(new)
  PROVE  IInv'
<1> DEFINE Added(b) == \E i \in DOMAIN new : new[i] = b
<1>1. PICK n \in PoolSizes : new \in [1..n -> {b \in Buffers : ~Exists(b)}]
  BY Zenon DEF NewPools
<1>2. n \in Nat /\ new \in Seq(Buffers) /\ Len(new) = n
  BY <1>1, SizeAssumption, SMT
<1>3. \A b \in Buffers : Added(b) => ~Exists(b)
  BY <1>1, Zenon
<1>4. \A b \in Buffers : Exists(b)' => Added(b) \/ Exists(b)
  BY <1>1, <1>2, SMT DEF Exists, InPool, Configure, callerVars
<1>5. \A b \in Buffers : ~Added(b) /\ Exists(b)' => Exists(b)
  BY <1>4
<1>6. \A b \in Buffers : Exists(b) => Exists(b)'
  BY SMT DEF Exists, InPool, Configure, callerVars
<1>7. \A b \in Buffers : /\ held'[b] = (held[b] /\ ~Added(b))
                         /\ last'[b] = IF Added(b) THEN NoFence ELSE last[b]
  BY Zenon DEF Configure
<1>8. TypeOK'
  <2>1. /\ held' \in [Buffers -> BOOLEAN] /\ last' \in [Buffers -> Fences \cup {NoFence}]
    BY Zenon DEF Configure, IInv, TypeOK
  <2>2. pool' \in Seq(Buffers)
    BY <1>2, Zenon DEF Configure
  <2> QED
    BY <2>1, <2>2, <1>6, Zenon DEF Configure, IInv, TypeOK, threadVars, callerVars
<1>9. Apart' /\ OpenExact' /\ IsFiniteSet(open')
  BY Zenon DEF Configure, IInv, Apart, OpenExact, callerVars
<1>10. Custody'
  <2> SUFFICES ASSUME NEW b \in Buffers
               PROVE  /\ taken[b] # NoFence => held'[b] /\ b \in imported
                      /\ Exists(b)' /\ held'[b] => b \in owned
                      /\ Exists(b)' /\ ~held'[b] => fence[b] = last'[b]
    BY Zenon DEF Custody, Configure, callerVars
  <2>1. /\ taken[b] # NoFence => held[b] /\ b \in imported
        /\ Exists(b) /\ held[b] => b \in owned
        /\ Exists(b) /\ ~held[b] => fence[b] = last[b]
    BY Zenon DEF IInv, Custody
  <2>2. taken[b] # NoFence => Exists(b)
    BY <2>1, Zenon DEF Exists
  <2>3. Exists(b) \/ fence[b] = NoFence
    BY Zenon DEF IInv, TypeOK
  <2>4. CASE Added(b)
    BY <2>4, <2>1, <2>2, <2>3, <1>3, <1>7, Zenon
  <2>5. CASE ~Added(b)
    BY <2>5, <2>1, <2>2, <1>5, <1>7, Zenon
  <2> QED
    BY <2>4, <2>5
<1> QED
  BY <1>8, <1>9, <1>10, Zenon DEF IInv

\* disconnect() drops the pool; held buffers live on with their descriptors.
LEMMA DisconnectStep ==
  ASSUME IInv, Disconnect
  PROVE  IInv'
<1> DEFINE gone == {b \in Buffers : InPool(b) /\ b \notin imported}
<1>1. gone \in SUBSET Buffers /\ Free(gone) /\ UNCHANGED taken
  BY Zenon DEF Disconnect, callerVars
<1>2. /\ fence' \in [Buffers -> Fences \cup {NoFence}] /\ open' \subseteq Fences
      /\ \A b \in Buffers : fence'[b] = IF b \in gone THEN NoFence ELSE fence[b]
      /\ Apart' /\ OpenExact' /\ IsFiniteSet(open')
  <2> HIDE DEF gone
  <2> QED
    BY <1>1, FreeEffect, Zenon
<1>3. pool' \in Seq(Buffers) /\ \A b : ~InPool(b)'
  BY SMT DEF Disconnect, InPool
<1>4. \A b : Exists(b)' <=> b \in imported
  BY <1>3, Zenon DEF Exists, Disconnect, callerVars
<1>5. TypeOK'
  <2>1. pc' \in [Threads -> {"idle", "waiting", "awake"}]
    BY WakeTyped, Zenon DEF IInv, Disconnect
  <2>2. \A b \in Buffers : Exists(b)' \/ fence'[b] = NoFence
    BY <1>2, <1>4, Zenon DEF IInv, TypeOK, Exists
  <2> QED
    BY <1>2, <1>3, <2>1, <2>2, Zenon DEF Disconnect, IInv, TypeOK, callerVars
<1>6. Custody'
  BY <1>2, <1>4, Zenon DEF IInv, Custody, Exists, Disconnect, callerVars
<1> QED
  BY <1>2, <1>5, <1>6, Zenon DEF IInv

\* dequeue() hands out a free buffer together with the fence it came back with.
LEMMA TakeStep ==
  ASSUME IInv, NEW t \in Threads, TurnTake(t), UNCHANGED alive
  PROVE  /\ IInv'
         /\ \A b \in Buffers : b \notin owned /\ b \in owned' => taken'[b] = last[b]
<1>1. PICK i \in 1..Len(pool) :
        /\ ~held[pool[i]]
        /\ held' = [held EXCEPT ![pool[i]] = TRUE]
        /\ taken' = [taken EXCEPT ![pool[i]] = fence[pool[i]]]
        /\ fence' = [fence EXCEPT ![pool[i]] = NoFence]
        /\ owned' = owned \cup {pool[i]} /\ imported' = imported \cup {pool[i]}
  BY Zenon DEF TurnTake, FirstFree, FenceAfterTake
<1>2. PICK b : b = pool[i]
  OBVIOUS
<1>3. b \in Buffers /\ InPool(b)
  BY <1>1, <1>2, SMT DEF IInv, TypeOK, InPool
<1>4. /\ pool' = pool /\ last' = last /\ open' = open /\ limit' = limit
      /\ pc' = [pc EXCEPT ![t] = "idle"]
  BY Zenon DEF TurnTake
<1>5. /\ held \in [Buffers -> BOOLEAN] /\ fence \in [Buffers -> Fences \cup {NoFence}]
      /\ taken \in [Buffers -> Fences \cup {NoFence}] /\ pc \in [Threads -> {"idle", "waiting", "awake"}]
  BY Zenon DEF IInv, TypeOK
<1>6. /\ held' \in [Buffers -> BOOLEAN] /\ fence' \in [Buffers -> Fences \cup {NoFence}]
      /\ taken' \in [Buffers -> Fences \cup {NoFence}] /\ pc' \in [Threads -> {"idle", "waiting", "awake"}]
  BY <1>1, <1>2, <1>3, <1>4, <1>5, SMT
<1>7. \A c \in Buffers :
        /\ held'[c] = IF c = b THEN TRUE ELSE held[c]
        /\ taken'[c] = IF c = b THEN fence[b] ELSE taken[c]
        /\ fence'[c] = IF c = b THEN NoFence ELSE fence[c]
  BY <1>1, <1>2, <1>3, <1>5, SMT
<1>8. \A c : /\ InPool(c)' <=> InPool(c)
             /\ Exists(c)' <=> Exists(c)
  BY <1>1, <1>2, <1>3, <1>4, Zenon DEF InPool, Exists
<1>9. ~held[b] /\ taken[b] = NoFence /\ fence[b] = last[b]
  BY <1>1, <1>2, <1>3, Zenon DEF IInv, Custody, Exists
<1>10. TypeOK'
  <2>1. \A c \in Buffers : Exists(c)' \/ fence'[c] = NoFence
    BY <1>7, <1>8, Zenon DEF IInv, TypeOK
  <2>2. imported' \subseteq Buffers /\ owned' \subseteq imported'
    BY <1>1, <1>2, <1>3, Zenon DEF IInv, TypeOK
  <2> QED
    BY <1>4, <1>6, <2>1, <2>2, Zenon DEF IInv, TypeOK
<1>11. Apart'
  <2> SUFFICES ASSUME NEW c \in Buffers, NEW d \in Buffers
               PROVE  /\ fence'[c] = fence'[d] /\ fence'[c] # NoFence => c = d
                      /\ taken'[c] = taken'[d] /\ taken'[c] # NoFence => c = d
                      /\ fence'[c] = taken'[d] => fence'[c] = NoFence
    BY Zenon DEF Apart
  <2>0. /\ fence'[c] = (IF c = b THEN NoFence ELSE fence[c])
        /\ taken'[c] = (IF c = b THEN fence[b] ELSE taken[c])
        /\ taken'[d] = (IF d = b THEN fence[b] ELSE taken[d])
    BY <1>7, Zenon
  <2>1. fence'[c] = fence'[d] /\ fence'[c] # NoFence => c = d
    BY <1>7, Zenon DEF IInv, Apart
  <2>2. \A x \in Buffers : fence[b] = taken[x] => fence[b] = NoFence
    BY <1>3, Zenon DEF IInv, Apart
  <2>3. taken'[c] = taken'[d] /\ taken'[c] # NoFence => c = d
    <3>1. taken[c] = taken[d] /\ taken[c] # NoFence => c = d
      BY Zenon DEF IInv, Apart
    <3> QED
      BY <2>0, <2>2, <3>1, Zenon
  <2>4. fence'[c] = taken'[d] => fence'[c] = NoFence
    <3>1. /\ fence[c] = taken[d] => fence[c] = NoFence
          /\ fence[c] = fence[b] /\ fence[c] # NoFence => c = b
      BY <1>3, Zenon DEF IInv, Apart
    <3> QED
      BY <2>0, <3>1, Zenon
  <2> QED
    BY <2>1, <2>3, <2>4, Zenon
<1>12. OpenExact' /\ IsFiniteSet(open')
  <2>1. \A f \in Fences : f # NoFence
    BY FenceAssumption, Zenon
  <2> QED
    BY <1>3, <1>4, <1>7, <1>9, <2>1, ZenonT(30) DEF IInv, OpenExact
<1>13. Custody'
  BY <1>1, <1>2, <1>3, <1>4, <1>7, <1>8, ZenonT(30) DEF IInv, Custody
<1>14. \A c \in Buffers : c \notin owned /\ c \in owned' => taken'[c] = last[c]
  BY <1>1, <1>2, <1>7, <1>9, Zenon
<1> QED
  BY <1>10, <1>11, <1>12, <1>13, <1>14, Zenon DEF IInv

\* One turn of the loop of dequeue(): take a buffer, fail or wait.
LEMMA TurnStep ==
  ASSUME IInv, NEW t \in Threads, NEW l \in {"zero", "bounded", "forever"}, Turn(t, l)
  PROVE  /\ IInv'
         /\ \A b \in Buffers : b \notin owned /\ b \in owned' => taken'[b] = last[b]
<1>1. CASE TurnTake(t)
  BY <1>1, TakeStep, Zenon DEF Turn
<1>2. CASE TurnStale(t) \/ TurnBusy(t, l)
  <2>1. UNCHANGED <<windowVars, callerVars, last, open, alive>>
    BY <1>2, Zenon DEF Turn, TurnStale, TurnBusy
  <2>2. /\ pc' \in [Threads -> {"idle", "waiting", "awake"}]
        /\ limit' \in [Threads -> {"zero", "bounded", "forever"}]
    BY <1>2, SMT DEF IInv, TypeOK, TurnStale, TurnBusy
  <2>3. IInv'
    BY <2>1, <2>2, ThreadStep, Zenon
  <2> QED
    BY <2>1, <2>3, Zenon DEF callerVars
<1> QED
  BY <1>1, <1>2, Zenon DEF Turn

\* queue() or cancel() of a held buffer stores the descriptor it comes with.
LEMMA ReleaseStep ==
  ASSUME IInv, NEW b \in Buffers, NEW f \in Fences \cup {NoFence}, Release(b, f)
  PROVE  IInv'
<1>1. /\ b \in imported /\ held[b] /\ taken[b] = NoFence /\ (f = NoFence \/ f \notin open)
      /\ open' = (open \ {fence[b]}) \cup ({f} \ {NoFence})
      /\ fence' = [fence EXCEPT ![b] = f] /\ held' = [held EXCEPT ![b] = FALSE]
      /\ last' = (IF b \in owned THEN [last EXCEPT ![b] = f] ELSE last)
      /\ owned' = owned \ {b}
      /\ pool' = pool /\ limit' = limit /\ imported' = imported /\ taken' = taken /\ alive' = alive
  BY Zenon DEF Release, Refuses
<1>2. /\ held \in [Buffers -> BOOLEAN] /\ fence \in [Buffers -> Fences \cup {NoFence}]
      /\ last \in [Buffers -> Fences \cup {NoFence}] /\ open \subseteq Fences
      /\ taken \in [Buffers -> Fences \cup {NoFence}]
  BY Zenon DEF IInv, TypeOK
<1>3. b \in owned
  BY <1>1, Zenon DEF IInv, Custody, Exists
<1>4. \A c \in Buffers :
        /\ fence'[c] = IF c = b THEN f ELSE fence[c]
        /\ last'[c] = IF c = b THEN f ELSE last[c]
        /\ held'[c] = IF c = b THEN FALSE ELSE held[c]
  BY <1>1, <1>2, <1>3, SMT
<1>5. /\ held' \in [Buffers -> BOOLEAN] /\ fence' \in [Buffers -> Fences \cup {NoFence}]
      /\ last' \in [Buffers -> Fences \cup {NoFence}] /\ open' \subseteq Fences
  BY <1>1, <1>2, <1>3, SMT
<1>6. \A c : Exists(c)' <=> Exists(c)
  BY <1>1, Zenon DEF Exists, InPool
<1>7. TypeOK'
  <2>1. pc' \in [Threads -> {"idle", "waiting", "awake"}]
    BY WakeTyped, Zenon DEF IInv, Release
  <2>2. \A c \in Buffers : Exists(c)' \/ fence'[c] = NoFence
    BY <1>1, <1>4, <1>6, Zenon DEF IInv, TypeOK, Exists
  <2>3. owned' \subseteq imported'
    BY <1>1, Zenon DEF IInv, TypeOK
  <2> QED
    BY <1>1, <1>5, <2>1, <2>2, <2>3, Zenon DEF IInv, TypeOK
<1>8. \A c \in Buffers : f # NoFence => fence[c] # f /\ taken[c] # f
  BY <1>1, Zenon DEF IInv, OpenExact
<1>9. Apart'
  BY <1>1, <1>4, <1>8, SMT DEF IInv, Apart
<1>10. OpenExact'
  <2> SUFFICES ASSUME NEW g \in Fences
               PROVE  g \in open' <=> \E c \in Buffers : fence'[c] = g \/ taken[c] = g
    BY <1>1, Zenon DEF OpenExact
  <2>1. g # NoFence
    BY FenceAssumption, Zenon
  <2>2. g \in open <=> \E c \in Buffers : fence[c] = g \/ taken[c] = g
    BY Zenon DEF IInv, OpenExact
  <2>3. CASE g = f
    BY <1>1, <1>4, <2>1, <2>3, Zenon
  <2>4. CASE g # f /\ g = fence[b]
    <3>1. \A c \in Buffers : taken[c] # g /\ (c # b => fence[c] # g)
      BY <2>1, <2>4, Zenon DEF IInv, Apart
    <3>2. g \notin open'
      BY <1>1, <2>4, Zenon
    <3>3. \A c \in Buffers : fence'[c] # g
      BY <1>4, <2>4, <3>1, Zenon
    <3> QED
      BY <3>1, <3>2, <3>3, Zenon
  <2>5. CASE g # f /\ g # fence[b]
    BY <1>1, <1>4, <2>2, <2>5, Zenon
  <2> QED
    BY <2>3, <2>4, <2>5, Zenon
<1>11. IsFiniteSet(open')
  <2>1. IsFiniteSet(open \cup {f})
    BY FS_AddElement, Zenon DEF IInv
  <2>2. open' \subseteq open \cup {f}
    BY <1>1, Zenon
  <2> QED
    BY <2>1, <2>2, FS_Subset, Zenon
<1>12. Custody'
  <2> SUFFICES ASSUME NEW c \in Buffers
               PROVE  /\ taken[c] # NoFence => held'[c] /\ c \in imported
                      /\ Exists(c)' /\ held'[c] => c \in owned'
                      /\ Exists(c)' /\ ~held'[c] => fence'[c] = last'[c]
    BY <1>1, Zenon DEF Custody
  <2>1. CASE c = b
    <3>1. ~held'[c] /\ fence'[c] = f /\ last'[c] = f
      BY <1>4, <2>1, Zenon
    <3> QED
      BY <1>1, <2>1, <3>1, Zenon
  <2>2. CASE c # b
    <3>1. held'[c] = held[c] /\ fence'[c] = fence[c] /\ last'[c] = last[c]
      BY <1>4, <2>2, Zenon
    <3>2. c \in owned => c \in owned'
      BY <1>1, <2>2, Zenon
    <3> QED
      BY <1>6, <3>1, <3>2, Zenon DEF IInv, Custody
  <2> QED
    BY <2>1, <2>2
<1> QED
  BY <1>7, <1>9, <1>10, <1>11, <1>12, Zenon DEF IInv

\* A refused queue() or cancel() leaves every stored descriptor alone.
LEMMA ReleaseRefusedStep ==
  ASSUME IInv, NEW b \in Buffers, ReleaseRefused(b)
  PROVE  IInv'
<1>1. /\ ~held[b] /\ owned' = owned \ {b} /\ pool' = pool /\ held' = held /\ fence' = fence
      /\ pc' = pc /\ limit' = limit /\ imported' = imported /\ taken' = taken
      /\ last' = last /\ open' = open /\ alive' = alive
  BY Zenon DEF ReleaseRefused, Refuses, windowVars, threadVars
<1>2. \A c : Exists(c)' <=> Exists(c)
  BY <1>1, Zenon DEF Exists, InPool
<1>3. TypeOK'
  BY <1>1, <1>2, Zenon DEF IInv, TypeOK
<1>4. Apart' /\ OpenExact' /\ IsFiniteSet(open')
  BY <1>1, Zenon DEF IInv, Apart, OpenExact
<1>5. Custody'
  BY <1>1, <1>2, Zenon DEF IInv, Custody
<1> QED
  BY <1>3, <1>4, <1>5, Zenon DEF IInv

\* The import of the fence closes the descriptor the caller had.
LEMMA DriverImportsStep ==
  ASSUME IInv, NEW b \in Buffers, DriverImports(b)
  PROVE  IInv'
<1>1. /\ taken[b] # NoFence /\ open' = open \ {taken[b]} /\ taken' = [taken EXCEPT ![b] = NoFence]
      /\ pool' = pool /\ held' = held /\ fence' = fence /\ pc' = pc /\ limit' = limit
      /\ imported' = imported /\ owned' = owned /\ last' = last /\ alive' = alive
  BY Zenon DEF DriverImports, windowVars, threadVars
<1>2. \A c : Exists(c)' <=> Exists(c)
  BY <1>1, Zenon DEF Exists, InPool
<1>3. \A c \in Buffers : taken'[c] = IF c = b THEN NoFence ELSE taken[c]
  BY <1>1, SMT DEF IInv, TypeOK
<1>4. taken' \in [Buffers -> Fences \cup {NoFence}]
  BY <1>1, SMT DEF IInv, TypeOK
<1>5. TypeOK'
  BY <1>1, <1>2, <1>4, Zenon DEF IInv, TypeOK
<1>6. Apart'
  BY <1>1, <1>3, SMT DEF IInv, Apart
<1>7. OpenExact'
  <2> SUFFICES ASSUME NEW g \in Fences
               PROVE  g \in open' <=> \E c \in Buffers : fence[c] = g \/ taken'[c] = g
    BY <1>1, Zenon DEF OpenExact
  <2>1. g # NoFence
    BY FenceAssumption, Zenon
  <2>2. g \in open <=> \E c \in Buffers : fence[c] = g \/ taken[c] = g
    BY Zenon DEF IInv, OpenExact
  <2>3. CASE g = taken[b]
    <3>1. \A c \in Buffers : fence[c] # g /\ (c # b => taken[c] # g)
      BY <2>1, <2>3, SMT DEF IInv, Apart
    <3> QED
      BY <1>1, <1>3, <2>1, <2>3, <3>1, SMT
  <2>4. CASE g # taken[b]
    BY <1>1, <1>3, <2>1, <2>2, <2>4, Zenon
  <2> QED
    BY <2>3, <2>4, Zenon
<1>8. IsFiniteSet(open')
  <2>1. open' \subseteq open
    BY <1>1, Zenon
  <2> QED
    BY <2>1, FS_Subset, Zenon DEF IInv
<1>9. Custody'
  BY <1>1, <1>2, <1>3, Zenon DEF IInv, Custody
<1> QED
  BY <1>5, <1>6, <1>7, <1>8, <1>9, Zenon DEF IInv

\* Dropping the last reference to a buffer closes what it still has.
LEMMA DropImageStep ==
  ASSUME IInv, NEW b \in Buffers, DropImage(b)
  PROVE  IInv'
<1> DEFINE gone == {b} \cap {c \in Buffers : ~InPool(c)}
<1>1. /\ taken[b] = NoFence /\ (b \in owned => ~InPool(b))
      /\ imported' = imported \ {b} /\ owned' = owned \ {b}
      /\ pool' = pool /\ held' = held /\ pc' = pc /\ limit' = limit
      /\ taken' = taken /\ last' = last /\ alive' = alive
  BY Zenon DEF DropImage, threadVars
<1>2. gone \in SUBSET Buffers /\ Free(gone) /\ UNCHANGED taken
  BY <1>1, Zenon DEF DropImage
<1>3. /\ fence' \in [Buffers -> Fences \cup {NoFence}] /\ open' \subseteq Fences
      /\ \A c \in Buffers : fence'[c] = IF c \in gone THEN NoFence ELSE fence[c]
      /\ Apart' /\ OpenExact' /\ IsFiniteSet(open')
  <2> HIDE DEF gone
  <2> QED
    BY <1>2, FreeEffect, Zenon
<1>4. \A c \in Buffers : /\ InPool(c)' <=> InPool(c)
                         /\ Exists(c)' <=> Exists(c) /\ c \notin gone
  BY <1>1, Zenon DEF Exists, InPool
<1>5. TypeOK'
  <2>1. \A c \in Buffers : Exists(c)' \/ fence'[c] = NoFence
    BY <1>3, <1>4, Zenon DEF IInv, TypeOK
  <2>2. imported' \subseteq Buffers /\ owned' \subseteq imported'
    BY <1>1, Zenon DEF IInv, TypeOK
  <2> QED
    BY <1>1, <1>3, <2>1, <2>2, Zenon DEF IInv, TypeOK
<1>6. Custody'
  <2> SUFFICES ASSUME NEW c \in Buffers
               PROVE  /\ taken[c] # NoFence => held[c] /\ c \in imported'
                      /\ Exists(c)' /\ held[c] => c \in owned'
                      /\ Exists(c)' /\ ~held[c] => fence'[c] = last[c]
    BY <1>1, Zenon DEF Custody
  <2>1. /\ taken[c] # NoFence => held[c] /\ c \in imported
        /\ Exists(c) /\ held[c] => c \in owned
        /\ Exists(c) /\ ~held[c] => fence[c] = last[c]
    BY Zenon DEF IInv, Custody
  <2>2. Exists(c)' /\ held[c] => c \in owned'
    BY <1>1, <1>4, <2>1, Zenon
  <2>3. Exists(c)' /\ ~held[c] => fence'[c] = last[c]
    BY <1>3, <1>4, <2>1, Zenon
  <2> QED
    BY <1>1, <2>1, <2>2, <2>3, Zenon
<1> QED
  BY <1>3, <1>5, <1>6, Zenon DEF IInv

\* The end of the window frees the pool, which no image uses any more.
LEMMA DestroyStep ==
  ASSUME IInv, Destroy
  PROVE  IInv'
<1> DEFINE gone == {b \in Buffers : InPool(b)}
<1>1. /\ imported = {} /\ pool' = <<>> /\ alive' = FALSE /\ held' = held /\ pc' = pc
      /\ limit' = limit /\ imported' = imported /\ owned' = owned /\ taken' = taken /\ last' = last
  BY Zenon DEF Destroy, threadVars, callerVars
<1>2. gone \in SUBSET Buffers /\ Free(gone) /\ UNCHANGED taken
  BY <1>1, Zenon DEF Destroy
<1>3. /\ fence' \in [Buffers -> Fences \cup {NoFence}] /\ open' \subseteq Fences
      /\ \A b \in Buffers : fence'[b] = IF b \in gone THEN NoFence ELSE fence[b]
      /\ Apart' /\ OpenExact' /\ IsFiniteSet(open')
  <2> HIDE DEF gone
  <2> QED
    BY <1>2, FreeEffect, Zenon
<1>4. pool' \in Seq(Buffers) /\ \A b : ~Exists(b)'
  BY <1>1, SMT DEF Exists, InPool
<1>5. TypeOK'
  <2>1. \A b \in Buffers : fence'[b] = NoFence
    BY <1>1, <1>3, Zenon DEF IInv, TypeOK, Exists
  <2> QED
    BY <1>1, <1>3, <1>4, <2>1, Zenon DEF IInv, TypeOK
<1>6. Custody'
  BY <1>1, <1>4, Zenon DEF IInv, Custody
<1> QED
  BY <1>3, <1>5, <1>6, Zenon DEF IInv

-----------------------------------------------------------------------------
\* A new window has no buffer and no descriptor.
LEMMA InitInv == Init => IInv
<1> SUFFICES ASSUME Init PROVE IInv
  OBVIOUS
<1>1. TypeOK
  BY SMT DEF Init, TypeOK
<1>2. Apart /\ IsFiniteSet(open)
  BY FS_EmptySet, Zenon DEF Init, Apart
<1>3. OpenExact
  BY FenceAssumption, Zenon DEF Init, OpenExact
<1>4. \A b : ~Exists(b)
  BY SMT DEF Init, Exists, InPool
<1>5. Custody
  BY <1>4, Zenon DEF Init, Custody
<1> QED
  BY <1>1, <1>2, <1>3, <1>5, Zenon DEF IInv

\* Only a turn of dequeue() that takes a buffer makes anyone its owner.
LEMMA NextInv ==
  ASSUME IInv, [Next]_vars
  PROVE  /\ IInv'
         /\ \A b \in Buffers : b \notin owned /\ b \in owned' => taken'[b] = last[b]
<1>1. ASSUME NEW new \in NewPools, Configure(new)
      PROVE  IInv' /\ owned' \subseteq owned
  BY <1>1, ConfigureStep, Zenon DEF Configure, callerVars
<1>2. ASSUME NEW t \in Threads, Dequeue(t)
      PROVE  IInv' /\ \A b \in Buffers : b \notin owned /\ b \in owned' => taken'[b] = last[b]
  BY <1>2, TurnStep, Zenon DEF Dequeue
<1>3. ASSUME NEW t \in Threads, Resume(t)
      PROVE  IInv' /\ \A b \in Buffers : b \notin owned /\ b \in owned' => taken'[b] = last[b]
  <2>1. limit[t] \in {"zero", "bounded", "forever"}
    BY Zenon DEF IInv, TypeOK
  <2> QED
    BY <1>3, <2>1, TurnStep, Zenon DEF Resume
<1>4. ASSUME NEW t \in Threads, Timeout(t) \/ SpuriousWakeup(t)
      PROVE  IInv' /\ owned' \subseteq owned
  <2>1. UNCHANGED <<windowVars, callerVars, last, open, alive, limit>>
    BY <1>4, Zenon DEF Timeout, SpuriousWakeup
  <2>2. pc' \in [Threads -> {"idle", "waiting", "awake"}]
    BY <1>4, SMT DEF IInv, TypeOK, Timeout, SpuriousWakeup
  <2>3. limit' \in [Threads -> {"zero", "bounded", "forever"}]
    BY <2>1, Zenon DEF IInv, TypeOK
  <2>4. IInv'
    BY <2>1, <2>2, <2>3, ThreadStep, Zenon
  <2> QED
    BY <2>1, <2>4, Zenon DEF callerVars
<1>5. ASSUME NEW b \in Buffers, NEW f \in Fences \cup {NoFence}, Release(b, f)
      PROVE  IInv' /\ owned' \subseteq owned
  BY <1>5, ReleaseStep, Zenon DEF Release
<1>6. ASSUME NEW b \in Buffers, ReleaseRefused(b)
      PROVE  IInv' /\ owned' \subseteq owned
  BY <1>6, ReleaseRefusedStep, Zenon DEF ReleaseRefused
<1>7. ASSUME NEW b \in Buffers, DriverImports(b)
      PROVE  IInv' /\ owned' \subseteq owned
  BY <1>7, DriverImportsStep, Zenon DEF DriverImports
<1>8. ASSUME NEW b \in Buffers, DropImage(b)
      PROVE  IInv' /\ owned' \subseteq owned
  BY <1>8, DropImageStep, Zenon DEF DropImage
<1>9. ASSUME Disconnect
      PROVE  IInv' /\ owned' \subseteq owned
  BY <1>9, DisconnectStep, Zenon DEF Disconnect, callerVars
<1>10. ASSUME Destroy
       PROVE  IInv' /\ owned' \subseteq owned
  BY <1>10, DestroyStep, Zenon DEF Destroy, callerVars
<1>11. ASSUME UNCHANGED vars
       PROVE  IInv' /\ owned' \subseteq owned
  <2>1. /\ UNCHANGED <<windowVars, callerVars, last, open, alive>>
        /\ pc' \in [Threads -> {"idle", "waiting", "awake"}]
        /\ limit' \in [Threads -> {"zero", "bounded", "forever"}]
    BY <1>11, Zenon DEF vars, threadVars, IInv, TypeOK
  <2>2. IInv'
    BY <2>1, ThreadStep, Zenon
  <2> QED
    BY <2>1, <2>2, Zenon DEF callerVars
<1> QED
  BY <1>1, <1>2, <1>3, <1>4, <1>5, <1>6, <1>7, <1>8, <1>9, <1>10, <1>11, Zenon
  DEF Next, Destroyed

\* The places that have a descriptor and the open descriptors correspond one to
\* one, so there are as many of the one as of the other.
LEMMA PlacesCounted == IInv => FencesOwnedOnce
<1> SUFFICES ASSUME IInv PROVE FencesOwnedOnce
  OBVIOUS
<1>1. /\ fence \in [Buffers -> Fences \cup {NoFence}] /\ taken \in [Buffers -> Fences \cup {NoFence}]
      /\ open \subseteq Fences
  BY Zenon DEF IInv, TypeOK
<1>2. \A p \in FencePlaces :
        \E b \in Buffers : \/ p = <<"buffer", b>> /\ fence[b] # NoFence /\ FenceAt(p) = fence[b]
                           \/ p = <<"caller", b>> /\ taken[b] # NoFence /\ FenceAt(p) = taken[b]
  BY SMT DEF FencePlaces, FenceAt
<1>3. \A p \in FencePlaces : FenceAt(p) \in open
  BY <1>1, <1>2, Zenon DEF IInv, OpenExact
<1>4. \A f \in open : \E p \in FencePlaces : FenceAt(p) = f
  <2> SUFFICES ASSUME NEW f \in open PROVE \E p \in FencePlaces : FenceAt(p) = f
    OBVIOUS
  <2>1. f \in Fences /\ f # NoFence
    BY <1>1, FenceAssumption, Zenon
  <2>2. PICK b \in Buffers : fence[b] = f \/ taken[b] = f
    BY <2>1, Zenon DEF IInv, OpenExact
  <2>3. CASE fence[b] = f
    <3>1. <<"buffer", b>> \in FencePlaces
      BY <2>1, <2>3, Zenon DEF IInv, TypeOK, FencePlaces
    <3>2. FenceAt(<<"buffer", b>>) = f
      BY <2>3, SMT DEF FenceAt
    <3> QED
      BY <3>1, <3>2, Zenon
  <2>4. CASE taken[b] = f
    <3>1. <<"caller", b>> \in FencePlaces
      BY <2>1, <2>4, Zenon DEF FencePlaces
    <3>2. FenceAt(<<"caller", b>>) = f
      BY <2>4, SMT DEF FenceAt
    <3> QED
      BY <3>1, <3>2, Zenon
  <2> QED
    BY <2>2, <2>3, <2>4, Zenon
<1>5. \A p, q \in FencePlaces : FenceAt(p) = FenceAt(q) => p = q
  BY <1>2, SMTT(30) DEF IInv, Apart
<1>6. open = {FenceAt(p) : p \in FencePlaces}
  BY <1>3, <1>4, Zenon
<1> DEFINE at == [p \in FencePlaces |-> FenceAt(p)]
<1>7. at \in Injection(FencePlaces, open) /\ at \in Surjection(FencePlaces, open)
  <2>1. at \in [FencePlaces -> open]
    BY <1>3, Zenon
  <2>2. \A p, q \in FencePlaces : at[p] = at[q] => p = q
    BY <1>5, Zenon
  <2>3. \A f \in open : \E p \in FencePlaces : at[p] = f
    BY <1>4, Zenon
  <2> HIDE DEF at
  <2> QED
    BY <2>1, <2>2, <2>3, Zenon DEF Injection, Surjection, IsInjective
<1>8. Cardinality(open) = Cardinality(FencePlaces)
  <2> HIDE DEF at
  <2> QED
    BY <1>7, FS_Injection, Zenon DEF IInv
<1> QED
  BY <1>6, <1>8, Zenon DEF IInv, FencesOwnedOnce

\* native_window_headless.cpp opens and closes descriptors in pairs: whatever
\* pools come and go, an open one is stored in one existing buffer or is with the
\* caller of one dequeue(), and no closed one is stored anywhere.
THEOREM FencesAlwaysOwnedOnce == Spec => []FencesOwnedOnce
<1>1. Init => IInv
  BY InitInv
<1>2. IInv /\ [Next]_vars => IInv'
  BY NextInv
<1>3. IInv => FencesOwnedOnce
  BY PlacesCounted
<1> QED
  BY <1>1, <1>2, <1>3, PTL DEF Spec

\* Whoever dequeue() makes the owner of a buffer gets the fence that the previous
\* owner gave back with it, or none for a new buffer.
THEOREM DependencyAlwaysKept == Spec => DependencyKept
<1>1. Init => IInv
  BY InitInv
<1>2. IInv /\ [Next]_vars => IInv'
  BY NextInv
<1>3. IInv /\ [Next]_vars =>
        [\A b \in Buffers : b \notin owned /\ b \in owned' => taken'[b] = last[b]]_vars
  BY NextInv
<1> QED
  BY <1>1, <1>2, <1>3, PTL DEF Spec, DependencyKept
=============================================================================
