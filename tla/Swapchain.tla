------------------------------ MODULE Swapchain ------------------------------
(***************************************************************************)
(* The swapchains of the Vulkan ICD, hybris/vulkan/icd/swapchain.c, on one *)
(* surface, above any of its native windows (native_window.h).             *)
(*                                                                         *)
(* An image is named by the native buffer it imports.  The window is       *)
(* reduced to what swapchain.c can observe of it: the pool of the current  *)
(* configuration, the buffers the caller holds, and the submissions the    *)
(* display still reads, oldest first.  Vulkan makes the application        *)
(* serialise the calls that name one swapchain or the surface, so a        *)
(* handler is one action; only vkQueuePresentKHR is split, one action per  *)
(* entry, because calls on the other swapchains may run between them.      *)
(*                                                                         *)
(* All native windows return the fence -1 with a buffer of a fresh pool,   *)
(* so the fence descriptors an image could store are left out.             *)
(*                                                                         *)
(* A definition named Fault... is a wrong variant of the one after it, a   *)
(* bug the code could have had; no action uses it.                         *)
(***************************************************************************)
EXTENDS Integers, Sequences, FiniteSets

CONSTANTS
  Buffers,        \* identities of native buffers; reused after free
  Chains,         \* swapchain handles; reused after free
  NoChain,        \* not a swapchain handle
  ImageCounts,    \* minImageCount values the application asks for
  AcceptsRetired  \* queue() takes buffers of an earlier pool: Wayland and
                  \* headless do, X11 answers -EINVAL

ASSUME ChainAssumption == NoChain \notin Chains
ASSUME AcceptsAssumption == AcceptsRetired \in BOOLEAN

VARIABLES
  chain,    \* of each handle: none, live, or retired (swapchain_state::retired)
  status,   \* swapchain_state::presentation_status: ok or lost
  owner,    \* the swapchain whose image imports the buffer
  img,      \* swapchain_image::state of that image, or none
  pool,     \* window: buffers of the current configuration
  held,     \* window: buffers dequeued and not given back
  showing,  \* window: buffers accepted by queue(), not released, oldest first
  fault,    \* the connection, the display or the allocator has failed
  todo,     \* vkQueuePresentKHR in progress: images still to be presented
  worst,    \* its result so far
  results   \* the results of its entries

chainVars == <<chain, status>>
imageVars == <<owner, img>>
windowVars == <<pool, held, showing>>
callVars == <<todo, worst, results>>
vars == <<chainVars, imageVars, windowVars, fault, callVars>>

Results == {"ok", "suboptimal", "error", "lost", "device_lost"}

Images(c) == {b \in Buffers : owner[b] = c}
Shown(b) == \E i \in 1..Len(showing) : showing[i] = b

\* Every image belongs to a swapchain the application can still name.
TypeOK ==
  /\ chain \in [Chains -> {"none", "live", "retired"}]
  /\ status \in [Chains -> {"ok", "lost"}]
  /\ owner \in [Buffers -> Chains \cup {NoChain}]
  /\ img \in [Buffers -> {"none", "free", "acquired", "presented"}]
  /\ \A b \in Buffers : (img[b] = "none") <=> (owner[b] = NoChain)
  /\ \A b \in Buffers : owner[b] \in Chains => chain[owner[b]] # "none"
  /\ pool \subseteq Buffers /\ held \subseteq Buffers /\ fault \in BOOLEAN
  /\ showing \in Seq(Buffers) /\ todo \in Seq(Buffers)
  /\ worst \in Results /\ results \in Seq(Results)

Init ==
  /\ chain = [c \in Chains |-> "none"] /\ status = [c \in Chains |-> "ok"]
  /\ owner = [b \in Buffers |-> NoChain] /\ img = [b \in Buffers |-> "none"]
  /\ pool = {} /\ held = {} /\ showing = <<>> /\ fault = FALSE
  /\ todo = <<>> /\ worst = "ok" /\ results = <<>>

\* the swapchains named by the vkQueuePresentKHR call in progress
InCall(c) == \E i \in 1..Len(todo) : owner[todo[i]] = c

-----------------------------------------------------------------------------
(* vkCreateSwapchainKHR *)

\* buffers of a pool that can be allocated: no image, window or display uses them
Fresh == {b \in Buffers : owner[b] = NoChain /\ ~Shown(b)}

FaultAllowedCounts == ImageCounts
AllowedCounts == {n \in ImageCounts : n >= 2 /\ n <= 8}

\* retire_swapchain(): the handle of an attempted replacement is retired first
Retired(old) == IF old = NoChain THEN chain ELSE [chain EXCEPT ![old] = "retired"]
FaultRetiredStatus(old) ==
  IF old = NoChain THEN status ELSE [status EXCEPT ![old] = "lost"]
RetiredStatus(old) == status
RetiredPool(old) == IF old = NoChain THEN pool ELSE {}

InUse(old) == \E c \in Chains : Retired(old)[c] = "live"

\* Valid usage of oldSwapchain: a swapchain of the surface, not yet retired.
OldAllowed(old) ==
  old = NoChain \/ (old \in Chains /\ chain[old] = "live" /\ ~InCall(old))

CreateSwapchain(c, old) ==
  /\ chain[c] = "none" /\ OldAllowed(old) /\ ~InUse(old)
  /\ \E n \in AllowedCounts, new \in SUBSET Fresh :
       /\ Cardinality(new) = n
       /\ pool' = new
       /\ held' = held \cup new
       /\ owner' = [b \in Buffers |-> IF b \in new THEN c ELSE owner[b]]
       /\ img' = [b \in Buffers |-> IF b \in new THEN "free" ELSE img[b]]
  /\ chain' = [Retired(old) EXCEPT ![c] = "live"]
  /\ status' = [RetiredStatus(old) EXCEPT ![c] = "ok"]
  /\ UNCHANGED <<showing, fault, callVars>>

\* refused before the window is touched: arguments, the surface, memory
CreateRefused(old) ==
  /\ OldAllowed(old)
  /\ chain' = Retired(old) /\ status' = RetiredStatus(old)
  /\ pool' = RetiredPool(old)
  /\ UNCHANGED <<imageVars, held, showing, fault, callVars>>

\* configure() fails, and the window is disconnected once more
CreateConfigureFails(old) ==
  /\ OldAllowed(old) /\ ~InUse(old)
  /\ chain' = Retired(old) /\ status' = RetiredStatus(old)
  /\ pool' = {}
  /\ UNCHANGED <<imageVars, held, showing, fault, callVars>>

\* a dequeue, an import or a semaphore fails: every buffer is cancelled, and
\* the configured pool stays behind without a swapchain
CreateImportFails(old) ==
  /\ OldAllowed(old) /\ ~InUse(old)
  /\ \E n \in AllowedCounts, new \in SUBSET Fresh :
       Cardinality(new) = n /\ pool' = new /\ held' = held \ new
  /\ chain' = Retired(old) /\ status' = RetiredStatus(old)
  /\ UNCHANGED <<imageVars, showing, fault, callVars>>

-----------------------------------------------------------------------------
(* vkDestroySwapchainKHR and the teardown of a device *)

\* destroy_images(): what a swapchain has not presented is cancelled, unless
\* the pool it came from is already gone; the image's reference is dropped
DestroyImages(cs) ==
  LET gone == {b \in Buffers : owner[b] \in cs} IN
  /\ owner' = [b \in Buffers |-> IF b \in gone THEN NoChain ELSE owner[b]]
  /\ img' = [b \in Buffers |-> IF b \in gone THEN "none" ELSE img[b]]
  /\ held' = held \ gone

FaultPoolAfterDestroy(c) == {}
PoolAfterDestroy(c) == IF chain[c] = "retired" THEN pool ELSE {}

DestroySwapchain(c) ==
  /\ chain[c] # "none" /\ ~InCall(c)
  /\ DestroyImages({c})
  /\ pool' = PoolAfterDestroy(c)
  /\ chain' = [chain EXCEPT ![c] = "none"] /\ status' = [status EXCEPT ![c] = "ok"]
  /\ UNCHANGED <<showing, fault, callVars>>

\* hybris_icd_swapchain_release_device(): the window keeps its pool
ReleaseDevice ==
  /\ todo = <<>> /\ \E c \in Chains : chain[c] # "none"
  /\ DestroyImages(Chains)
  /\ chain' = [c \in Chains |-> "none"] /\ status' = [c \in Chains |-> "ok"]
  /\ UNCHANGED <<pool, showing, fault, callVars>>

-----------------------------------------------------------------------------
(* vkAcquireNextImageKHR *)

AcquireAllowed(c) == chain[c] = "live" /\ status[c] = "ok" /\ ~InCall(c)

\* vkAcquireImageANDROID succeeds, or fails and the image stays available
DriverAcquires(b) == \E outcome \in {"free", "acquired"} : img' = [img EXCEPT ![b] = outcome]

\* acquire_slot(): an image that was never given up needs no dequeue()
FreeImage(c, b) == owner[b] = c /\ img[b] = "free"
AcquireFree(c, b) ==
  /\ AcquireAllowed(c) /\ FreeImage(c, b)
  /\ DriverAcquires(b)
  /\ UNCHANGED <<chainVars, owner, windowVars, fault, callVars>>

\* otherwise the window returns a buffer of its pool that nobody uses
Dequeues(c, b) ==
  /\ b \in pool /\ b \notin held /\ ~Shown(b) /\ owner[b] = c
  /\ \A f \in Buffers : ~FreeImage(c, f)
AcquireDequeued(c, b) ==
  /\ AcquireAllowed(c) /\ Dequeues(c, b)
  /\ held' = held \cup {b}
  /\ DriverAcquires(b)
  /\ UNCHANGED <<chainVars, owner, pool, showing, fault, callVars>>

\* presentation_status(): extent() fails; the answer is final
Lost(c) == [status EXCEPT ![c] = "lost"]

AcquireLost(c) ==
  /\ AcquireAllowed(c) /\ fault
  /\ status' = Lost(c)
  /\ UNCHANGED <<chain, imageVars, windowVars, fault, callVars>>

-----------------------------------------------------------------------------
(* vkQueuePresentKHR *)

\* Without two different swapchains there is nothing to fan out.
PresentLists ==
  {<<b>> : b \in Buffers} \cup
  {pair \in Buffers \X Buffers : owner[pair[1]] # owner[pair[2]]}

\* every entry is acquired and the wait submission succeeded; otherwise the
\* call returns here and changes nothing
QueuePresent ==
  /\ todo = <<>>
  /\ \E s \in PresentLists :
       (\A i \in DOMAIN s : img[s[i]] = "acquired") /\ todo' = s
  /\ worst' = "ok" /\ results' = <<>>
  /\ UNCHANGED <<chainVars, imageVars, windowVars, fault>>

Failed(r) == r \in {"error", "lost", "device_lost"}

FaultWorse(w, r) == w = "ok" \/ r = "device_lost" \/ (r = "lost" /\ w # "device_lost")
Worse(w, r) ==
  \/ w = "ok" \/ r = "device_lost"
  \/ r = "lost" /\ w # "device_lost"
  \/ Failed(r) /\ w = "suboptimal"

Entry(r) ==
  /\ todo' = Tail(todo) /\ results' = Append(results, r)
  /\ worst' = IF Worse(worst, r) THEN r ELSE worst

\* vkQueueSignalReleaseImageANDROID fails: the application keeps the image
PresentReleaseFails ==
  /\ todo # <<>>
  /\ \E r \in {"error", "device_lost"} : Entry(r)
  /\ UNCHANGED <<chainVars, imageVars, windowVars, fault>>

Accepts(b) == b \in held /\ (b \in pool \/ AcceptsRetired)

\* queue() has taken the buffer; the surface may have another size by now
PresentAccepted ==
  /\ todo # <<>>
  /\ LET b == Head(todo) IN
     /\ status[owner[b]] = "ok" /\ Accepts(b)
     /\ img' = [img EXCEPT ![b] = "presented"]
     /\ held' = held \ {b} /\ showing' = Append(showing, b)
  /\ \E r \in {"ok", "suboptimal"} : Entry(r)
  /\ UNCHANGED <<chainVars, owner, pool, fault>>

FaultRejectedStatus(c) == status
RejectedStatus(c) == Lost(c)

\* The swapchain was already lost, extent() fails, or queue() refuses the
\* buffer.  It is cancelled; the window will not return it by an event.
PresentCancelled ==
  /\ todo # <<>>
  /\ LET b == Head(todo) IN
     /\ status[owner[b]] = "lost" \/ fault \/ ~Accepts(b)
     /\ img' = [img EXCEPT ![b] = "free"]
     /\ held' = held \ {b}
     /\ status' = RejectedStatus(owner[b])
  /\ Entry("lost")
  /\ UNCHANGED <<chain, owner, pool, showing, fault>>

-----------------------------------------------------------------------------
(* The display *)

\* The window gets a buffer back.  X11 and Wayland go on reading the newest
\* submission until another one replaces it; the headless window keeps none.
DisplayReleases ==
  /\ showing # <<>>
  /\ showing' = Tail(showing)
  /\ UNCHANGED <<chainVars, imageVars, pool, held, fault, callVars>>

Fault ==
  /\ ~fault /\ fault' = TRUE
  /\ UNCHANGED <<chainVars, imageVars, windowVars, callVars>>

CreateNext ==
  \E old \in Chains \cup {NoChain} :
    \/ \E c \in Chains : CreateSwapchain(c, old)
    \/ CreateRefused(old) \/ CreateConfigureFails(old) \/ CreateImportFails(old)

PresentNext ==
  QueuePresent \/ PresentReleaseFails \/ PresentAccepted \/ PresentCancelled

Next ==
  \/ CreateNext
  \/ \E c \in Chains :
       \/ DestroySwapchain(c) \/ AcquireLost(c)
       \/ \E b \in Buffers : AcquireFree(c, b) \/ AcquireDequeued(c, b)
  \/ ReleaseDevice
  \/ PresentNext
  \/ DisplayReleases \/ Fault

Spec == Init /\ [][Next]_vars

\* A compositor that is alive gives back what it has replaced, and a present
\* that was started runs to its end.
Fairness ==
  /\ WF_vars(DisplayReleases /\ Len(showing) > 1)
  /\ WF_vars(PresentNext /\ todo # <<>>)
FairSpec == Spec /\ Fairness

-----------------------------------------------------------------------------
(* Properties *)

\* An image the application may draw into is backed by a buffer that the window
\* considers dequeued and that the display does not read.  present_one() marks a
\* cancelled image IMAGE_FREE, and acquire_slot() hands out IMAGE_FREE images
\* without asking the window: only the sticky status keeps the two apart.  And no
\* image outlives its swapchain (TypeOK).
AcquiredIsHeld ==
  /\ TypeOK
  /\ \A b \in Buffers : img[b] = "acquired" => b \in held /\ ~Shown(b)

\* The window's pool is exactly what the live swapchain imported.  It is why the
\* buffer acquire_slot() gets from dequeue() always matches an image, and why
\* dequeue() never answers -ESTALE to a live swapchain, whatever replacements
\* failed and whichever swapchains were destroyed before.
PoolOfLiveChain ==
  \A c \in Chains : chain[c] = "live" => pool = Images(c)

\* As long as a live swapchain is not lost, every image it could hand out
\* without asking the window is one that the window has given to it.
FreeIsHeld ==
  \A b \in Buffers :
    owner[b] \in Chains /\ img[b] = "free" /\ status[owner[b]] = "ok" => b \in held

\* Retirement is final: no image of a retired swapchain is ever acquired again.
RetiredNeverAcquires ==
  [][\A b \in Buffers :
       owner[b] \in Chains /\ chain[owner[b]] = "retired" /\ img[b] # "acquired"
         => img'[b] # "acquired"]_vars

\* What vkQueuePresentKHR returns is the most severe of its entries' results, in
\* the order device lost, surface lost, any other error, suboptimal, success.
Severity == [ok |-> 0, suboptimal |-> 1, error |-> 2, lost |-> 3, device_lost |-> 4]
WorstReported ==
  /\ \A i \in DOMAIN results : Severity[results[i]] <= Severity[worst]
  /\ worst = "ok" \/ \E i \in DOMAIN results : results[i] = worst

\* presentation_status(): images of a retired swapchain that are still acquired
\* stay presentable; a retired swapchain is lost only when the surface is.
RetiredLostOnlyByFault ==
  [][\A c \in Chains :
       chain'[c] = "retired" /\ status[c] = "ok" /\ status'[c] = "lost" => fault]_vars

\* WaylandNativeWindow::cancelBuffer() asserts that the buffer is one of its
\* pool; present_one() cancels an acquired image only while that is so.
CancelsPoolBuffers ==
  [][\A b \in Buffers : img[b] = "acquired" /\ img'[b] = "free" => b \in pool]_vars

\* A swapchain whose images the application has all given back gets one again.
\* Two images are the least that allows it: the display keeps the newest one.
Acquirable(c) == \E b \in Buffers : FreeImage(c, b) \/ Dequeues(c, b)
Starved(c) ==
  /\ chain[c] = "live" /\ status[c] = "ok" /\ ~Acquirable(c)
  /\ \A b \in Images(c) : img[b] # "acquired"
AcquireRecovers == \A c \in Chains : Starved(c) ~> ~Starved(c)
=============================================================================
