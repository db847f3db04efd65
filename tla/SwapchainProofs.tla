-------------------------- MODULE SwapchainProofs --------------------------
(***************************************************************************)
(* The safety of Swapchain for every number of buffers, swapchains and     *)
(* images, and for windows that do and do not accept retired buffers.      *)
(***************************************************************************)
EXTENDS Swapchain, TLAPS

\* Only one swapchain of the surface is not retired.
OneLive ==
  \A c, d \in Chains : chain[c] = "live" /\ chain[d] = "live" => c = d

\* A present in progress names different images, all of them acquired.
CallInv ==
  /\ \A i \in 1..Len(todo) : img[todo[i]] = "acquired"
  /\ \A i, j \in 1..Len(todo) : todo[i] = todo[j] => i = j

\* What the caller holds, the display does not read.
HeldNotShown == \A b \in held : ~Shown(b)

\* A buffer that is acquired is held; one that is free is, too, until its
\* swapchain is lost.
ImageInv ==
  /\ \A b \in Buffers : img[b] = "acquired" => b \in held
  /\ FreeIsHeld

IInv == TypeOK /\ OneLive /\ CallInv /\ HeldNotShown /\ ImageInv /\ PoolOfLiveChain

-----------------------------------------------------------------------------
\* A release takes the oldest submission away and adds none.
LEMMA InTail ==
  ASSUME NEW S, NEW s \in Seq(S), s # <<>>, NEW i \in 1..Len(Tail(s))
  PROVE  Tail(s) \in Seq(S) /\ i + 1 \in 1..Len(s) /\ Tail(s)[i] = s[i + 1]
  OBVIOUS

\* An accepted submission is the only new one.
LEMMA InAppend ==
  ASSUME NEW S, NEW s \in Seq(S), NEW x \in S, NEW i \in 1..Len(Append(s, x))
  PROVE  (i \in 1..Len(s) /\ Append(s, x)[i] = s[i]) \/ Append(s, x)[i] = x
  OBVIOUS

\* The initial state: no swapchain, an unconfigured window.
LEMMA InitIInv == Init => IInv
  <1> SUFFICES ASSUME Init PROVE IInv
    OBVIOUS
  <1> USE DEF Init
  <1>1. TypeOK
    <2>1. showing \in Seq(Buffers) /\ todo \in Seq(Buffers) /\ results \in Seq(Results)
      OBVIOUS
    <2>2. \A b \in Buffers : owner[b] = NoChain /\ img[b] = "none"
      OBVIOUS
    <2>3. owner \in [Buffers -> Chains \cup {NoChain}] /\ worst \in Results
      BY Zenon DEF Results
    <2> QED BY <2>1, <2>2, <2>3, ChainAssumption, Zenon DEF TypeOK
  <1>2. OneLive /\ CallInv /\ HeldNotShown /\ ImageInv /\ PoolOfLiveChain
    BY ChainAssumption DEF OneLive, CallInv, HeldNotShown, ImageInv, FreeIsHeld, PoolOfLiveChain
  <1> QED BY <1>1, <1>2, Zenon DEF IInv

\* What retire_swapchain() leaves: at most the live swapchains from before, the
\* statuses unchanged, and the old swapchain no longer live.
LEMMA RetiredFacts ==
  ASSUME TypeOK, NEW old \in Chains \cup {NoChain}, OldAllowed(old)
  PROVE  /\ Retired(old) \in [Chains -> {"none", "live", "retired"}]
         /\ \A c \in Chains : Retired(old)[c] = "live" => chain[c] = "live" /\ c # old
         /\ \A c \in Chains : Retired(old)[c] = "none" <=> chain[c] = "none"
         /\ RetiredStatus(old) = status
  BY ChainAssumption DEF TypeOK, OldAllowed, Retired, RetiredStatus

\* A new swapchain is the only live one, and the new pool is what it imports.
LEMMA CreateSwapchainIInv ==
  ASSUME IInv, NEW c \in Chains, NEW old \in Chains \cup {NoChain}, CreateSwapchain(c, old)
  PROVE  IInv'
  <1> USE DEF IInv
  <1>0. OldAllowed(old) /\ ~InUse(old) /\ chain[c] = "none"
    BY Zenon DEF CreateSwapchain
  <1>1. PICK new \in SUBSET Fresh :
          /\ pool' = new /\ held' = held \cup new
          /\ owner' = [b \in Buffers |-> IF b \in new THEN c ELSE owner[b]]
          /\ img' = [b \in Buffers |-> IF b \in new THEN "free" ELSE img[b]]
    BY Zenon DEF CreateSwapchain
  <1>2. /\ chain' = [Retired(old) EXCEPT ![c] = "live"]
        /\ status' = [RetiredStatus(old) EXCEPT ![c] = "ok"]
        /\ UNCHANGED <<showing, fault, todo, worst, results>>
    BY Zenon DEF CreateSwapchain, callVars
  <1>3. new \subseteq Buffers /\ \A b \in new : owner[b] = NoChain /\ ~Shown(b)
    BY <1>1, Zenon DEF Fresh
  <1>4. \A d \in Chains : Retired(old)[d] # "live"
    BY <1>0, Zenon DEF InUse
  <1>5. \A b \in Buffers : owner[b] # c
    BY <1>0 DEF TypeOK
  <1>6. TypeOK'
    <2>1. chain' \in [Chains -> {"none", "live", "retired"}]
      BY <1>0, <1>2, RetiredFacts, Zenon
    <2>2. status' \in [Chains -> {"ok", "lost"}]
      BY <1>0, <1>2, RetiredFacts, Zenon DEF TypeOK
    <2>3. owner' \in [Buffers -> Chains \cup {NoChain}]
      BY <1>1, Zenon DEF TypeOK
    <2>4. img' \in [Buffers -> {"none", "free", "acquired", "presented"}]
      BY <1>1, Zenon DEF TypeOK
    <2>5. \A b \in Buffers : (img'[b] = "none") <=> (owner'[b] = NoChain)
      BY <1>1, ChainAssumption, Zenon DEF TypeOK
    <2>6. \A b \in Buffers : owner'[b] \in Chains => chain'[owner'[b]] # "none"
      BY <1>0, <1>1, <1>2, RetiredFacts DEF TypeOK
    <2>7. pool' \subseteq Buffers /\ held' \subseteq Buffers
      BY <1>1, <1>3, Zenon DEF TypeOK
    <2> QED BY <2>1, <2>2, <2>3, <2>4, <2>5, <2>6, <2>7, <1>2, Zenon DEF TypeOK
  <1>7. OneLive'
    BY <1>0, <1>2, <1>4, RetiredFacts DEF OneLive
  <1>8. CallInv'
    BY <1>1, <1>2, <1>3 DEF CallInv, TypeOK
  <1>9. HeldNotShown'
    BY <1>1, <1>2, <1>3, Zenon DEF HeldNotShown, Shown
  <1>10. ImageInv'
    <2>1. \A b \in Buffers : img'[b] = "acquired" => b \in held'
      BY <1>1, Zenon DEF ImageInv
    <2>2. ASSUME NEW b \in Buffers, owner'[b] \in Chains, img'[b] = "free",
                 status'[owner'[b]] = "ok"
          PROVE  b \in held'
      <3>1. CASE b \in new
        BY <3>1, <1>1, Zenon
      <3>2. CASE b \notin new
        <4>1. owner'[b] = owner[b] /\ img'[b] = img[b] /\ owner[b] # c
          BY <3>2, <1>1, <1>5, Zenon
        <4>2. status'[owner[b]] = status[owner[b]]
          BY <2>2, <4>1, <1>0, <1>2, RetiredFacts DEF TypeOK
        <4> QED BY <2>2, <4>1, <4>2, <1>1, Zenon DEF ImageInv, FreeIsHeld
      <3> QED BY <3>1, <3>2, Zenon
    <2> QED BY <2>1, <2>2, Zenon DEF ImageInv, FreeIsHeld
  <1>11. PoolOfLiveChain'
    <2>1. \A d \in Chains : chain'[d] = "live" => d = c
      BY <1>0, <1>2, <1>4, RetiredFacts, Zenon
    <2>2. Images(c)' = new
      BY <1>1, <1>3, <1>5, Zenon DEF Images
    <2> QED BY <2>1, <2>2, <1>1, Zenon DEF PoolOfLiveChain
  <1> QED BY <1>6, <1>7, <1>8, <1>9, <1>10, <1>11, Zenon

\* A failed creation retires the old swapchain and leaves no live one behind
\* whose pool it has replaced.
LEMMA CreateFailsIInv ==
  ASSUME IInv, NEW old \in Chains \cup {NoChain},
         CreateRefused(old) \/ CreateConfigureFails(old) \/ CreateImportFails(old)
  PROVE  IInv'
  <1> USE DEF IInv
  <1>0. OldAllowed(old)
    BY Zenon DEF CreateRefused, CreateConfigureFails, CreateImportFails
  <1>1. /\ chain' = Retired(old) /\ status' = status
        /\ UNCHANGED <<owner, img, showing, fault, todo, worst, results>>
    BY <1>0, RetiredFacts, Zenon
    DEF CreateRefused, CreateConfigureFails, CreateImportFails, callVars, imageVars
  <1>2. pool' \subseteq Buffers /\ held' \subseteq held
    BY DEF CreateRefused, CreateConfigureFails, CreateImportFails, TypeOK, RetiredPool, Fresh
  <1>3. \A b \in Buffers : owner[b] \in Chains /\ b \in held => b \in held'
    BY ChainAssumption, Zenon
    DEF CreateRefused, CreateConfigureFails, CreateImportFails, Fresh
  <1>4. TypeOK'
    BY <1>0, <1>1, <1>2, RetiredFacts, Zenon DEF TypeOK
  <1>5. OneLive'
    BY <1>0, <1>1, RetiredFacts DEF OneLive
  <1>6. CallInv'
    BY <1>1, Zenon DEF CallInv
  <1>7. HeldNotShown'
    BY <1>1, <1>2, Zenon DEF HeldNotShown, Shown
  <1>8. ImageInv'
    <2>1. ASSUME NEW b \in Buffers, img[b] = "acquired" PROVE b \in held'
      BY <2>1, <1>3 DEF ImageInv, TypeOK
    <2>2. FreeIsHeld'
      BY <1>1, <1>3, Zenon DEF ImageInv, FreeIsHeld
    <2> QED BY <2>1, <2>2, <1>1, Zenon DEF ImageInv
  <1>9. PoolOfLiveChain'
    <2> SUFFICES ASSUME NEW d \in Chains, chain'[d] = "live"
                 PROVE  pool' = Images(d)'
      BY Zenon DEF PoolOfLiveChain
    <2>1. chain[d] = "live" /\ d # old /\ Retired(old)[d] = "live"
      BY <1>0, <1>1, RetiredFacts, Zenon
    <2>2. old = NoChain
      BY <2>1, <1>0, Zenon DEF OldAllowed, OneLive
    <2>3. CreateRefused(old)
      BY <2>1, Zenon DEF CreateConfigureFails, CreateImportFails, InUse
    <2>4. pool' = pool
      BY <2>2, <2>3, Zenon DEF CreateRefused, RetiredPool
    <2> QED BY <2>1, <2>4, <1>1, Zenon DEF PoolOfLiveChain, Images
  <1> QED BY <1>4, <1>5, <1>6, <1>7, <1>8, <1>9, Zenon

-----------------------------------------------------------------------------
\* Destroying a swapchain drops its images only, and the pool only with them.
LEMMA DestroySwapchainIInv ==
  ASSUME IInv, NEW c \in Chains, DestroySwapchain(c)
  PROVE  IInv'
  <1> USE DEF IInv
  <1>1. /\ chain[c] # "none" /\ ~InCall(c)
        /\ owner' = [b \in Buffers |-> IF owner[b] = c THEN NoChain ELSE owner[b]]
        /\ img' = [b \in Buffers |-> IF owner[b] = c THEN "none" ELSE img[b]]
        /\ held' = held \ Images(c)
        /\ pool' = IF chain[c] = "retired" THEN pool ELSE {}
        /\ chain' = [chain EXCEPT ![c] = "none"] /\ status' = [status EXCEPT ![c] = "ok"]
        /\ UNCHANGED <<showing, fault, todo, worst, results>>
    <2>1. DestroyImages({c})
      BY Zenon DEF DestroySwapchain
    <2>2. {b \in Buffers : owner[b] \in {c}} = Images(c)
      BY Zenon DEF Images
    <2>3. /\ owner' = [b \in Buffers |-> IF b \in Images(c) THEN NoChain ELSE owner[b]]
          /\ img' = [b \in Buffers |-> IF b \in Images(c) THEN "none" ELSE img[b]]
          /\ held' = held \ Images(c)
      BY <2>1, <2>2, Zenon DEF DestroyImages
    <2> QED BY <2>3, Zenon DEF DestroySwapchain, PoolAfterDestroy, Images, callVars
  <1>2. TypeOK'
    <2>1. /\ chain' \in [Chains -> {"none", "live", "retired"}]
          /\ status' \in [Chains -> {"ok", "lost"}]
      BY <1>1, Zenon DEF TypeOK
    <2>2. /\ owner' \in [Buffers -> Chains \cup {NoChain}]
          /\ img' \in [Buffers -> {"none", "free", "acquired", "presented"}]
      BY <1>1, Zenon DEF TypeOK
    <2>3. \A b \in Buffers : (img'[b] = "none") <=> (owner'[b] = NoChain)
      BY <1>1, Zenon DEF TypeOK
    <2>4. \A b \in Buffers : owner'[b] \in Chains => chain'[owner'[b]] # "none"
      BY <1>1, ChainAssumption, Zenon DEF TypeOK
    <2>5. pool' \subseteq Buffers /\ held' \subseteq Buffers
      BY <1>1, Zenon DEF TypeOK
    <2> QED BY <2>1, <2>2, <2>3, <2>4, <2>5, <1>1, Zenon DEF TypeOK
  <1>3. OneLive'
    BY <1>1, Zenon DEF OneLive, TypeOK
  <1>4. CallInv'
    BY <1>1 DEF CallInv, InCall, TypeOK
  <1>5. HeldNotShown'
    BY <1>1, Zenon DEF HeldNotShown, Shown
  <1>6. ImageInv'
    <2>1. \A b \in Buffers : img'[b] = "acquired" => b \in held'
      BY <1>1, Zenon DEF ImageInv, Images
    <2>2. FreeIsHeld'
      BY <1>1, ChainAssumption, Zenon DEF ImageInv, FreeIsHeld, Images, TypeOK
    <2> QED BY <2>1, <2>2, Zenon DEF ImageInv
  <1>7. PoolOfLiveChain'
    <2> SUFFICES ASSUME NEW d \in Chains, chain'[d] = "live"
                 PROVE  pool' = Images(d)'
      BY Zenon DEF PoolOfLiveChain
    <2>1. d # c /\ chain[d] = "live" /\ chain[c] = "retired"
      BY <1>1, Zenon DEF OneLive, TypeOK
    <2>2. Images(d)' = Images(d)
      BY <1>1, <2>1, ChainAssumption, Zenon DEF Images
    <2> QED BY <1>1, <2>1, <2>2, Zenon DEF PoolOfLiveChain
  <1> QED BY <1>2, <1>3, <1>4, <1>5, <1>6, <1>7, Zenon

\* The teardown of a device leaves no image and no swapchain.
LEMMA ReleaseDeviceIInv ==
  ASSUME IInv, ReleaseDevice
  PROVE  IInv'
  <1> USE DEF IInv
  <1>1. /\ todo = <<>>
        /\ owner' = [b \in Buffers |-> IF owner[b] \in Chains THEN NoChain ELSE owner[b]]
        /\ img' = [b \in Buffers |-> IF owner[b] \in Chains THEN "none" ELSE img[b]]
        /\ held' \subseteq held
        /\ chain' = [c \in Chains |-> "none"] /\ status' = [c \in Chains |-> "ok"]
        /\ UNCHANGED <<pool, showing, fault, todo, worst, results>>
    BY Zenon DEF ReleaseDevice, DestroyImages, callVars
  <1>2. \A b \in Buffers : owner'[b] = NoChain /\ img'[b] = "none"
    BY <1>1, Zenon DEF TypeOK
  <1>3. TypeOK'
    <2>1. /\ owner' \in [Buffers -> Chains \cup {NoChain}]
          /\ img' \in [Buffers -> {"none", "free", "acquired", "presented"}]
      BY <1>1, Zenon DEF TypeOK
    <2> QED BY <2>1, <1>1, <1>2, ChainAssumption, Zenon DEF TypeOK
  <1>4. OneLive' /\ CallInv' /\ ImageInv' /\ PoolOfLiveChain'
    BY <1>1, <1>2, ChainAssumption
    DEF OneLive, CallInv, ImageInv, FreeIsHeld, PoolOfLiveChain
  <1>5. HeldNotShown'
    BY <1>1, Zenon DEF HeldNotShown, Shown
  <1> QED BY <1>3, <1>4, <1>5, Zenon

\* Acquiring: the image was free and held, or the window has just returned it.
LEMMA AcquireIInv ==
  ASSUME IInv, NEW c \in Chains, NEW b \in Buffers,
         AcquireFree(c, b) \/ AcquireDequeued(c, b)
  PROVE  IInv'
  <1> USE DEF IInv
  <1>1. PICK outcome \in {"free", "acquired"} : img' = [img EXCEPT ![b] = outcome]
    BY Zenon DEF AcquireFree, AcquireDequeued, DriverAcquires
  <1>2. /\ UNCHANGED <<chain, status, owner, pool, showing, fault, todo, worst, results>>
        /\ held' = held \cup {b} /\ ~Shown(b)
        /\ owner[b] = c
    BY Zenon DEF AcquireFree, AcquireDequeued, AcquireAllowed, Dequeues, FreeImage, chainVars,
           windowVars, callVars, HeldNotShown, ImageInv, FreeIsHeld
  <1>3. TypeOK'
    <2>1. img' \in [Buffers -> {"none", "free", "acquired", "presented"}]
      BY <1>1, Zenon DEF TypeOK
    <2>2. \A d \in Buffers : (img'[d] = "none") <=> (owner'[d] = NoChain)
      BY <1>1, <1>2, ChainAssumption, Zenon DEF TypeOK
    <2> QED BY <2>1, <2>2, <1>2, Zenon DEF TypeOK
  <1>4. ~InCall(c)
    BY Zenon DEF AcquireFree, AcquireDequeued, AcquireAllowed
  <1>5. CallInv'
    BY <1>1, <1>2, <1>4 DEF CallInv, InCall, TypeOK
  <1>6. HeldNotShown'
    BY <1>2, Zenon DEF HeldNotShown, Shown
  <1>7. ImageInv'
    BY <1>1, <1>2 DEF ImageInv, FreeIsHeld, TypeOK
  <1>8. OneLive' /\ PoolOfLiveChain'
    BY <1>2, Zenon DEF OneLive, PoolOfLiveChain, Images
  <1> QED BY <1>3, <1>5, <1>6, <1>7, <1>8, Zenon

\* Losing a swapchain only frees its images from the promise of FreeIsHeld.
LEMMA AcquireLostIInv ==
  ASSUME IInv, NEW c \in Chains, AcquireLost(c)
  PROVE  IInv'
  <1> USE DEF IInv
  <1>1. /\ status' = [status EXCEPT ![c] = "lost"]
        /\ UNCHANGED <<chain, owner, img, pool, held, showing, fault, todo, worst, results>>
    BY Zenon DEF AcquireLost, Lost, imageVars, windowVars, callVars
  <1>2. TypeOK'
    BY <1>1, Zenon DEF TypeOK
  <1>3. ImageInv'
    BY <1>1, Zenon DEF ImageInv, FreeIsHeld, TypeOK
  <1> QED BY <1>1, <1>2, <1>3, Zenon
          DEF OneLive, CallInv, HeldNotShown, Shown, PoolOfLiveChain, Images

-----------------------------------------------------------------------------
\* Only acquired images enter a present, and two of different swapchains differ.
LEMMA QueuePresentIInv ==
  ASSUME IInv, QueuePresent
  PROVE  IInv'
  <1> USE DEF IInv
  <1>1. PICK s \in PresentLists :
          (\A i \in DOMAIN s : img[s[i]] = "acquired") /\ todo' = s
    BY Zenon DEF QueuePresent
  <1>2. /\ worst' = "ok" /\ results' = <<>>
        /\ UNCHANGED <<chain, status, owner, img, pool, held, showing, fault>>
    BY Zenon DEF QueuePresent, chainVars, imageVars, windowVars
  <1>3. s \in Seq(Buffers) /\ \A i, j \in 1..Len(s) : s[i] = s[j] => i = j
    <2>1. CASE s \in {<<b>> : b \in Buffers}
      <3>1. PICK b \in Buffers : s = <<b>>
        BY <2>1, Zenon
      <3>2. Len(s) = 1 /\ s \in Seq(Buffers)
        BY <3>1
      <3> QED BY <3>2
    <2>2. CASE s \in {pair \in Buffers \X Buffers : owner[pair[1]] # owner[pair[2]]}
      <3>1. PICK b \in Buffers, d \in Buffers : s = <<b, d>> /\ b # d
        BY <2>2
      <3>2. Len(s) = 2 /\ s[1] = b /\ s[2] = d /\ s \in Seq(Buffers)
        BY <3>1
      <3>3. \A i \in 1..Len(s) : i = 1 \/ i = 2
        BY <3>2
      <3> QED BY <3>1, <3>2, <3>3
    <2> QED BY <2>1, <2>2, Zenon DEF PresentLists
  <1>4. TypeOK'
    BY <1>1, <1>2, <1>3 DEF TypeOK, Results
  <1>5. CallInv'
    BY <1>1, <1>2, <1>3 DEF CallInv
  <1> QED BY <1>2, <1>4, <1>5, Zenon
          DEF OneLive, HeldNotShown, Shown, ImageInv, FreeIsHeld, PoolOfLiveChain, Images

\* The first entry of the call in progress, and what its step does to the rest.
LEMMA EntryFacts ==
  ASSUME IInv, todo # <<>>, NEW r \in Results, Entry(r)
  PROVE  /\ Head(todo) \in Buffers /\ img[Head(todo)] = "acquired"
         /\ owner[Head(todo)] \in Chains
         /\ todo' \in Seq(Buffers) /\ worst' \in Results /\ results' \in Seq(Results)
         /\ \A i \in 1..Len(todo') : todo'[i] # Head(todo) /\ img[todo'[i]] = "acquired"
         /\ \A i, j \in 1..Len(todo') : todo'[i] = todo'[j] => i = j
  <1> USE DEF IInv
  <1>1. todo \in Seq(Buffers) /\ worst \in Results /\ results \in Seq(Results)
    BY Zenon DEF TypeOK
  <1>2. Head(todo) = todo[1] /\ 1 \in 1..Len(todo) /\ Head(todo) \in Buffers
    BY <1>1
  <1>3. img[Head(todo)] = "acquired"
    BY <1>2, Zenon DEF CallInv
  <1>4. owner[Head(todo)] \in Chains
    BY <1>2, <1>3 DEF TypeOK
  <1>5. todo' = Tail(todo) /\ todo' \in Seq(Buffers)
    BY <1>1 DEF Entry
  <1>6. worst' \in Results /\ results' \in Seq(Results)
    BY <1>1 DEF Entry
  <1>7. \A i \in 1..Len(todo') : i + 1 \in 1..Len(todo) /\ todo'[i] = todo[i + 1]
    BY <1>1, <1>5, InTail, Zenon
  <1>8. \A i \in 1..Len(todo') : todo'[i] # Head(todo) /\ img[todo'[i]] = "acquired"
    BY <1>2, <1>7 DEF CallInv
  <1>9. \A i, j \in 1..Len(todo') : todo'[i] = todo'[j] => i = j
    BY <1>7 DEF CallInv
  <1> QED BY <1>2, <1>3, <1>4, <1>5, <1>6, <1>8, <1>9, Zenon

\* A failed release leaves the image with the application.
LEMMA PresentReleaseFailsIInv ==
  ASSUME IInv, PresentReleaseFails
  PROVE  IInv'
  <1> USE DEF IInv
  <1>1. PICK r \in {"error", "device_lost"} : Entry(r)
    BY Zenon DEF PresentReleaseFails
  <1>2. todo # <<>> /\ r \in Results
    BY Zenon DEF PresentReleaseFails, Results
  <1>3. UNCHANGED <<chain, status, owner, img, pool, held, showing, fault>>
    BY Zenon DEF PresentReleaseFails, chainVars, imageVars, windowVars
  <1>4. TypeOK' /\ CallInv'
    BY <1>1, <1>2, <1>3, EntryFacts, Zenon DEF TypeOK, CallInv
  <1> QED BY <1>3, <1>4, Zenon
          DEF OneLive, HeldNotShown, Shown, ImageInv, FreeIsHeld, PoolOfLiveChain, Images

\* An accepted buffer moves from the caller to the display.
LEMMA PresentAcceptedIInv ==
  ASSUME IInv, PresentAccepted
  PROVE  IInv'
  <1> USE DEF IInv
  <1> DEFINE b == Head(todo)
  <1>1. PICK r \in {"ok", "suboptimal"} : Entry(r)
    BY Zenon DEF PresentAccepted
  <1>2. todo # <<>> /\ r \in Results
    BY Zenon DEF PresentAccepted, Results
  <1>3. /\ img' = [img EXCEPT ![b] = "presented"]
        /\ held' = held \ {b} /\ showing' = Append(showing, b)
        /\ UNCHANGED <<chain, status, owner, pool, fault>>
    BY Zenon DEF PresentAccepted, chainVars
  <1>4. /\ b \in Buffers /\ img[b] = "acquired" /\ owner[b] \in Chains
        /\ todo' \in Seq(Buffers) /\ worst' \in Results /\ results' \in Seq(Results)
        /\ \A i \in 1..Len(todo') : todo'[i] # b /\ img[todo'[i]] = "acquired"
        /\ \A i, j \in 1..Len(todo') : todo'[i] = todo'[j] => i = j
    BY <1>1, <1>2, EntryFacts, Zenon
  <1> HIDE DEF b
  <1>5. TypeOK'
    <2>1. img' \in [Buffers -> {"none", "free", "acquired", "presented"}]
      BY <1>3, <1>4, Zenon DEF TypeOK
    <2>2. \A d \in Buffers : (img'[d] = "none") <=> (owner'[d] = NoChain)
      BY <1>3, <1>4, ChainAssumption DEF TypeOK
    <2>3. showing' \in Seq(Buffers) /\ held' \subseteq Buffers
      BY <1>3, <1>4 DEF TypeOK
    <2> QED BY <2>1, <2>2, <2>3, <1>3, <1>4, Zenon DEF TypeOK
  <1>6. CallInv'
    <2>1. \A i \in 1..Len(todo') : todo'[i] \in Buffers
      BY <1>4
    <2> QED BY <2>1, <1>3, <1>4, Zenon DEF CallInv, TypeOK
  <1>7. HeldNotShown'
    <2> SUFFICES ASSUME NEW d \in held', NEW i \in 1..Len(showing'), showing'[i] = d
                 PROVE  FALSE
      BY Zenon DEF HeldNotShown, Shown
    <2>1. d \in held /\ d # b
      BY <1>3, Zenon
    <2>2. showing \in Seq(Buffers) /\ i \in 1..Len(Append(showing, b))
      BY <1>3, Zenon DEF TypeOK
    <2>3. i \in 1..Len(showing) /\ showing[i] = d
      BY <2>1, <2>2, <1>3, <1>4, InAppend
    <2> QED BY <2>1, <2>3, Zenon DEF HeldNotShown, Shown
  <1>8. ImageInv'
    BY <1>3, <1>4 DEF ImageInv, FreeIsHeld, TypeOK
  <1> QED BY <1>3, <1>5, <1>6, <1>7, <1>8, Zenon DEF OneLive, PoolOfLiveChain, Images

\* A cancelled image is free and no longer held, and its swapchain is lost.
LEMMA PresentCancelledIInv ==
  ASSUME IInv, PresentCancelled
  PROVE  IInv'
  <1> USE DEF IInv
  <1> DEFINE b == Head(todo)
  <1>1. Entry("lost") /\ todo # <<>> /\ "lost" \in Results
    BY Zenon DEF PresentCancelled, Results
  <1>2. /\ img' = [img EXCEPT ![b] = "free"]
        /\ held' = held \ {b} /\ status' = [status EXCEPT ![owner[b]] = "lost"]
        /\ UNCHANGED <<chain, owner, pool, showing, fault>>
    BY Zenon DEF PresentCancelled, RejectedStatus, Lost
  <1>3. /\ b \in Buffers /\ img[b] = "acquired" /\ owner[b] \in Chains
        /\ todo' \in Seq(Buffers) /\ worst' \in Results /\ results' \in Seq(Results)
        /\ \A i \in 1..Len(todo') : todo'[i] # b /\ img[todo'[i]] = "acquired"
        /\ \A i, j \in 1..Len(todo') : todo'[i] = todo'[j] => i = j
    BY <1>1, EntryFacts, Zenon
  <1> HIDE DEF b
  <1>4. TypeOK'
    <2>1. img' \in [Buffers -> {"none", "free", "acquired", "presented"}]
      BY <1>2, <1>3, Zenon DEF TypeOK
    <2>2. \A d \in Buffers : (img'[d] = "none") <=> (owner'[d] = NoChain)
      BY <1>2, <1>3, ChainAssumption DEF TypeOK
    <2>3. status' \in [Chains -> {"ok", "lost"}] /\ held' \subseteq Buffers
      BY <1>2, <1>3, Zenon DEF TypeOK
    <2> QED BY <2>1, <2>2, <2>3, <1>2, <1>3, Zenon DEF TypeOK
  <1>5. CallInv'
    <2>1. \A i \in 1..Len(todo') : todo'[i] \in Buffers
      BY <1>3
    <2> QED BY <2>1, <1>2, <1>3, Zenon DEF CallInv, TypeOK
  <1>6. HeldNotShown'
    BY <1>2, Zenon DEF HeldNotShown, Shown
  <1>7. ImageInv'
    <2>1. \A d \in Buffers : img'[d] = "acquired" => d \in held'
      BY <1>2, <1>3 DEF ImageInv, TypeOK
    <2>2. FreeIsHeld'
      <3> SUFFICES ASSUME NEW d \in Buffers, owner'[d] \in Chains, img'[d] = "free",
                          status'[owner'[d]] = "ok"
                   PROVE  d \in held'
        BY Zenon DEF FreeIsHeld
      <3>1. d # b
        BY <1>2, <1>3, Zenon DEF TypeOK
      <3> QED BY <3>1, <1>2, <1>3, Zenon DEF ImageInv, FreeIsHeld, TypeOK
    <2> QED BY <2>1, <2>2, Zenon DEF ImageInv
  <1> QED BY <1>2, <1>4, <1>5, <1>6, <1>7, Zenon DEF OneLive, PoolOfLiveChain, Images

\* The display drops its oldest submission.
LEMMA DisplayReleasesIInv ==
  ASSUME IInv, DisplayReleases
  PROVE  IInv'
  <1> USE DEF IInv
  <1>1. /\ showing \in Seq(Buffers) /\ showing # <<>> /\ showing' = Tail(showing)
        /\ UNCHANGED <<chain, status, owner, img, pool, held, fault, todo, worst, results>>
    BY Zenon DEF DisplayReleases, TypeOK, chainVars, imageVars, callVars
  <1>2. showing' \in Seq(Buffers)
    BY <1>1
  <1>3. HeldNotShown'
    BY <1>1, InTail, Zenon DEF HeldNotShown, Shown
  <1> QED BY <1>1, <1>2, <1>3
          DEF TypeOK, OneLive, CallInv, ImageInv, FreeIsHeld, PoolOfLiveChain, Images

-----------------------------------------------------------------------------
\* The inductive invariant of the swapchains holds in every reachable state.
THEOREM InvariantHolds == Spec => []IInv
  <1>1. Init => IInv
    BY InitIInv, Zenon
  <1>2. IInv /\ [Next]_vars => IInv'
    <2> SUFFICES ASSUME IInv, [Next]_vars PROVE IInv'
      OBVIOUS
    <2>1. CASE CreateNext
      BY <2>1, CreateSwapchainIInv, CreateFailsIInv, Zenon DEF CreateNext
    <2>2. CASE \E c \in Chains : DestroySwapchain(c)
      BY <2>2, DestroySwapchainIInv, Zenon
    <2>3. CASE \E c \in Chains : AcquireLost(c)
      BY <2>3, AcquireLostIInv, Zenon
    <2>4. CASE \E c \in Chains, b \in Buffers : AcquireFree(c, b) \/ AcquireDequeued(c, b)
      BY <2>4, AcquireIInv, Zenon
    <2>5. CASE ReleaseDevice
      BY <2>5, ReleaseDeviceIInv, Zenon
    <2>6. CASE PresentNext
      BY <2>6, QueuePresentIInv, PresentReleaseFailsIInv, PresentAcceptedIInv,
         PresentCancelledIInv, Zenon DEF PresentNext
    <2>7. CASE DisplayReleases
      BY <2>7, DisplayReleasesIInv, Zenon
    <2>8. CASE Fault \/ UNCHANGED vars
      <3>1. UNCHANGED <<chain, status, owner, img, pool, held, showing, todo, worst, results>>
        BY <2>8, Zenon DEF Fault, vars, chainVars, imageVars, windowVars, callVars
      <3>2. fault' \in BOOLEAN
        BY <2>8, Zenon DEF Fault, vars, IInv, TypeOK
      <3>3. TypeOK'
        BY <3>1, <3>2, Zenon DEF IInv, TypeOK
      <3> QED BY <3>1, <3>3, Zenon DEF IInv, OneLive, CallInv, HeldNotShown, Shown, ImageInv,
              FreeIsHeld, PoolOfLiveChain, Images
    <2> QED BY <2>1, <2>2, <2>3, <2>4, <2>5, <2>6, <2>7, <2>8, Zenon DEF Next
  <1> QED BY <1>1, <1>2, PTL DEF Spec

\* The types of all variables, and that no image outlives its swapchain.
THEOREM TypeCorrect == Spec => []TypeOK
  <1>1. IInv => TypeOK
    BY Zenon DEF IInv
  <1> QED BY <1>1, InvariantHolds, PTL

\* An image the application draws into is held by it and not on display, and no
\* image outlives its swapchain.
THEOREM AcquiredSafe == Spec => []AcquiredIsHeld
  <1>1. IInv => AcquiredIsHeld
    BY Zenon DEF IInv, ImageInv, HeldNotShown, AcquiredIsHeld
  <1> QED BY <1>1, InvariantHolds, PTL

\* An image a swapchain hands out without dequeue() is held.
THEOREM FreeSafe == Spec => []FreeIsHeld
  <1>1. IInv => FreeIsHeld
    BY Zenon DEF IInv, ImageInv
  <1> QED BY <1>1, InvariantHolds, PTL

\* The pool of the window is what the live swapchain imported: the buffer that
\* dequeue() returns to acquire_slot() always matches one of its images.
THEOREM PoolMatches == Spec => []PoolOfLiveChain
  <1>1. IInv => PoolOfLiveChain
    BY Zenon DEF IInv
  <1> QED BY <1>1, InvariantHolds, PTL

\* No call acquires an image of a retired swapchain.
THEOREM RetirementFinal == Spec => RetiredNeverAcquires
  <1>1. IInv /\ [Next]_vars =>
          [\A b \in Buffers :
             owner[b] \in Chains /\ chain[owner[b]] = "retired" /\ img[b] # "acquired"
               => img'[b] # "acquired"]_vars
    <2> SUFFICES ASSUME IInv, Next, NEW b \in Buffers, owner[b] \in Chains,
                        chain[owner[b]] = "retired", img[b] # "acquired",
                        img'[b] = "acquired"
                 PROVE  FALSE
      BY Zenon DEF vars
    <2> USE DEF IInv, TypeOK
    <2>1. CASE CreateNext
      BY <2>1 DEF CreateNext, CreateSwapchain, CreateRefused, CreateConfigureFails,
         CreateImportFails, imageVars
    <2>2. CASE \E c \in Chains : DestroySwapchain(c) \/ AcquireLost(c)
      BY <2>2 DEF DestroySwapchain, DestroyImages, AcquireLost, imageVars
    <2>3. CASE \E c \in Chains, d \in Buffers : AcquireFree(c, d) \/ AcquireDequeued(c, d)
      <3>1. PICK c \in Chains, d \in Buffers : AcquireFree(c, d) \/ AcquireDequeued(c, d)
        BY <2>3, Zenon
      <3>2. owner[d] = c /\ chain[c] = "live"
        BY <3>1, Zenon DEF AcquireFree, AcquireDequeued, AcquireAllowed, Dequeues, FreeImage
      <3>3. d # b
        BY <3>2, Zenon
      <3> QED BY <3>1, <3>3, Zenon DEF AcquireFree, AcquireDequeued, DriverAcquires
    <2>4. CASE ReleaseDevice
      BY <2>4, Zenon DEF ReleaseDevice, DestroyImages
    <2>5. CASE PresentNext
      BY <2>5, Zenon DEF PresentNext, QueuePresent, PresentReleaseFails, PresentAccepted,
         PresentCancelled, imageVars
    <2>6. CASE DisplayReleases \/ Fault
      BY <2>6, Zenon DEF DisplayReleases, Fault, imageVars
    <2> QED BY <2>1, <2>2, <2>3, <2>4, <2>5, <2>6, Zenon DEF Next
  <1> QED BY <1>1, InvariantHolds, PTL DEF Spec, RetiredNeverAcquires

\* Above a window that takes buffers of an earlier pool, what a retired swapchain
\* has acquired stays presentable until the surface itself is lost: the present
\* in progress names acquired images (CallInv), an acquired image is held
\* (ImageInv), and queue() refuses nothing else.
THEOREM RetiredStaysPresentable ==
  ASSUME AcceptsRetired
  PROVE  Spec => RetiredLostOnlyByFault
  <1>1. IInv /\ [Next]_vars =>
          [\A c \in Chains :
             chain'[c] = "retired" /\ status[c] = "ok" /\ status'[c] = "lost" => fault]_vars
    <2> SUFFICES ASSUME IInv, Next, NEW c \in Chains, chain'[c] = "retired",
                        status[c] = "ok", status'[c] = "lost"
                 PROVE  fault
      BY Zenon DEF vars
    <2>0. status \in [Chains -> {"ok", "lost"}]
      BY Zenon DEF IInv, TypeOK
    <2>1. CASE CreateNext
      BY <2>0, <2>1 DEF CreateNext, CreateSwapchain, CreateRefused, CreateConfigureFails,
         CreateImportFails, RetiredStatus
    <2>2. CASE \E d \in Chains : DestroySwapchain(d)
      BY <2>0, <2>2 DEF DestroySwapchain
    <2>3. CASE \E d \in Chains : AcquireLost(d)
      BY <2>3, Zenon DEF AcquireLost
    <2>4. CASE ReleaseDevice
      BY <2>4 DEF ReleaseDevice
    <2>5. CASE PresentCancelled
      <3> DEFINE b == Head(todo)
      <3>1. /\ todo # <<>> /\ status' = [status EXCEPT ![owner[b]] = "lost"]
            /\ status[owner[b]] = "lost" \/ fault \/ ~Accepts(b)
        BY <2>5, Zenon DEF PresentCancelled, RejectedStatus, Lost
      <3>2. owner[b] = c
        BY <2>0, <3>1
      <3>3. b = todo[1] /\ 1 \in 1..Len(todo) /\ b \in Buffers
        BY <3>1 DEF IInv, TypeOK
      <3>4. b \in held
        BY <3>3, Zenon DEF IInv, CallInv, ImageInv
      <3> QED BY <3>1, <3>2, <3>4, Zenon DEF Accepts
    <2>6. CASE UNCHANGED status
      BY <2>6, Zenon
    <2> QED BY <2>1, <2>2, <2>3, <2>4, <2>5, <2>6, Zenon
            DEF Next, PresentNext, QueuePresent, PresentReleaseFails, PresentAccepted,
                AcquireFree, AcquireDequeued, DisplayReleases, Fault, chainVars
  <1> QED BY <1>1, InvariantHolds, PTL DEF Spec, RetiredLostOnlyByFault

\* vkQueuePresentKHR returns the most severe result of its entries.
THEOREM WorstIsReported == Spec => []WorstReported
  <1>1. Init => WorstReported
    BY DEF Init, WorstReported
  <1>2. IInv /\ WorstReported /\ [Next]_vars => WorstReported'
    <2> SUFFICES ASSUME IInv, WorstReported, [Next]_vars PROVE WorstReported'
      OBVIOUS
    <2>0. results \in Seq(Results) /\ worst \in Results
      BY Zenon DEF IInv, TypeOK
    <2>1. CASE QueuePresent
      BY <2>1 DEF QueuePresent, WorstReported
    <2>2. ASSUME NEW r \in Results, Entry(r) PROVE WorstReported'
      <3>1. \A w, x \in Results : Severity[x] <= Severity[IF Worse(w, x) THEN x ELSE w]
                                /\ Severity[w] <= Severity[IF Worse(w, x) THEN x ELSE w]
        BY DEF Results, Severity, Worse, Failed
      <3>2. results' = Append(results, r) /\ worst' = IF Worse(worst, r) THEN r ELSE worst
        BY <2>2, Zenon DEF Entry
      <3>3. /\ \A i \in DOMAIN results' : results'[i] = r \/ (i \in DOMAIN results /\ results'[i] = results[i])
            /\ \A i \in DOMAIN results : i \in DOMAIN results' /\ results'[i] = results[i]
            /\ \E i \in DOMAIN results' : results'[i] = r
        BY <2>0, <3>2
      <3>4. \A x \in Results : Severity[x] \in Int
        BY DEF Results, Severity
      <3>5. \A i \in DOMAIN results : results[i] \in Results
        BY <2>0
      <3>6. \A i \in DOMAIN results' : Severity[results'[i]] <= Severity[worst']
        <4> SUFFICES ASSUME NEW i \in DOMAIN results' PROVE Severity[results'[i]] <= Severity[worst']
          OBVIOUS
        <4>1. CASE results'[i] = r
          BY <4>1, <2>0, <3>1, <3>2, Zenon
        <4>2. CASE i \in DOMAIN results /\ results'[i] = results[i]
          <5>1. Severity[results[i]] <= Severity[worst]
            BY <4>2, Zenon DEF WorstReported
          <5>2. Severity[worst] <= Severity[worst'] /\ worst' \in Results
            BY <2>0, <3>1, <3>2, Zenon
          <5> QED BY <4>2, <5>1, <5>2, <2>0, <3>4, <3>5
        <4> QED BY <4>1, <4>2, <3>3, Zenon
      <3>7. worst' = "ok" \/ \E i \in DOMAIN results' : results'[i] = worst'
        BY <3>2, <3>3, Zenon DEF WorstReported
      <3> QED BY <3>6, <3>7, Zenon DEF WorstReported
    <2>3. CASE PresentReleaseFails \/ PresentAccepted \/ PresentCancelled
      BY <2>2, <2>3, Zenon DEF PresentReleaseFails, PresentAccepted, PresentCancelled, Results
    <2>4. CASE UNCHANGED callVars
      BY <2>4, Zenon DEF callVars, WorstReported
    <2> QED BY <2>1, <2>3, <2>4, Zenon DEF Next, PresentNext, CreateNext, CreateSwapchain,
            CreateRefused, CreateConfigureFails, CreateImportFails, DestroySwapchain,
            AcquireLost, AcquireFree, AcquireDequeued, ReleaseDevice, DisplayReleases, Fault, vars
  <1> QED BY <1>1, <1>2, InvariantHolds, PTL DEF Spec
=============================================================================
