--------------------------- MODULE HeadlessWindow ---------------------------
(***************************************************************************)
(* The headless native window of the Vulkan ICD, hybris/vulkan/icd/        *)
(* native_window_headless.cpp: a pool of buffers that nobody displays.     *)
(* queue and cancel are the same function, which stores the GPU's release  *)
(* fence in the buffer for the next dequeue.                               *)
(*                                                                         *)
(* One action is one critical section of Owner::mutex.  A configure() that *)
(* is refused or runs out of memory changes nothing.  A definition named   *)
(* Fault... is a wrong variant of the one after it; no action uses it.     *)
(***************************************************************************)
EXTENDS Integers, Sequences, FiniteSets

CONSTANTS
  Buffers,    \* identities of Buffer objects; reused after free
  Threads,    \* threads that may be inside dequeue()
  Fences,     \* numbers of fence descriptors; reused after close
  NoFence,    \* the descriptor -1
  PoolSizes   \* image counts the application asks for

ASSUME FenceAssumption == NoFence \notin Fences
ASSUME SizeAssumption == PoolSizes \subseteq 2..8

VARIABLES
  pool,         \* Owner::pool[0..count-1]
  held, fence,  \* Buffer::held, Buffer::fence
  pc, limit,    \* a thread's place in dequeue() and its timeout
  imported,     \* buffers a swapchain image holds a reference on
  owned,        \* buffers dequeued and not given back
  taken,        \* the fence that came with the buffer, until it is imported
  last,         \* the fence the buffer's previous owner gave back with it
  open,         \* descriptors that are open
  alive

windowVars == <<pool, held, fence>>
threadVars == <<pc, limit>>
callerVars == <<imported, owned, taken>>
vars == <<windowVars, threadVars, callerVars, last, open, alive>>

InPool(b) == \E i \in 1..Len(pool) : pool[i] = b
Exists(b) == InPool(b) \/ b \in imported

\* Every thread is at a point of dequeue(), the caller holds only buffers it
\* has imported, and a Buffer that is gone has closed its fence.
TypeOK ==
  /\ pool \in Seq(Buffers)
  /\ held \in [Buffers -> BOOLEAN]
  /\ fence \in [Buffers -> Fences \cup {NoFence}]
  /\ pc \in [Threads -> {"idle", "waiting", "awake"}]
  /\ limit \in [Threads -> {"zero", "bounded", "forever"}]
  /\ imported \subseteq Buffers /\ owned \subseteq imported
  /\ taken \in [Buffers -> Fences \cup {NoFence}]
  /\ last \in [Buffers -> Fences \cup {NoFence}]
  /\ open \subseteq Fences /\ alive \in BOOLEAN
  /\ \A b \in Buffers : Exists(b) \/ fence[b] = NoFence

Init ==
  /\ pool = <<>>
  /\ held = [b \in Buffers |-> FALSE] /\ fence = [b \in Buffers |-> NoFence]
  /\ pc = [t \in Threads |-> "idle"] /\ limit = [t \in Threads |-> "zero"]
  /\ imported = {} /\ owned = {}
  /\ taken = [b \in Buffers |-> NoFence] /\ last = [b \in Buffers |-> NoFence]
  /\ open = {} /\ alive = TRUE

\* ~Buffer() closes the fence of every buffer that loses its last reference
Free(gone) ==
  /\ fence' = [b \in Buffers |-> IF b \in gone THEN NoFence ELSE fence[b]]
  /\ open' = open \ {fence[b] : b \in gone}

NewPools ==
  {s \in UNION {[1..n -> {b \in Buffers : ~Exists(b)}] : n \in PoolSizes} :
     \A i, j \in DOMAIN s : i # j => s[i] # s[j]}

Configure(new) ==
  /\ alive /\ pool = <<>>
  /\ pool' = new
  /\ LET Added(b) == \E i \in DOMAIN new : new[i] = b IN
     /\ held' = [b \in Buffers |-> held[b] /\ ~Added(b)]
     /\ last' = [b \in Buffers |-> IF Added(b) THEN NoFence ELSE last[b]]
  /\ UNCHANGED <<fence, threadVars, callerVars, open, alive>>

Broadcast == [t \in Threads |-> IF pc[t] = "waiting" THEN "awake" ELSE pc[t]]

Disconnect ==
  /\ alive
  /\ Free({b \in Buffers : InPool(b) /\ b \notin imported})
  /\ pool' = <<>>
  /\ pc' = Broadcast
  /\ UNCHANGED <<held, limit, callerVars, last, alive>>

-----------------------------------------------------------------------------
(* dequeue() *)

FirstFree(i) == ~held[pool[i]] /\ \A j \in 1..(i - 1) : held[pool[j]]

FaultFenceAfterTake(b) == fence
FenceAfterTake(b) == [fence EXCEPT ![b] = NoFence]

\* one turn of the loop, with the mutex held and timeout l
TurnStale(t) ==
  /\ pool = <<>>
  /\ pc' = [pc EXCEPT ![t] = "idle"]
  /\ UNCHANGED <<windowVars, limit, callerVars, last, open>>

TurnTake(t) ==
  /\ \E i \in 1..Len(pool) :
       LET b == pool[i] IN
       /\ FirstFree(i)
       /\ held' = [held EXCEPT ![b] = TRUE]
       /\ taken' = [taken EXCEPT ![b] = fence[b]]
       /\ fence' = FenceAfterTake(b)
       /\ owned' = owned \cup {b} /\ imported' = imported \cup {b}
  /\ pc' = [pc EXCEPT ![t] = "idle"]
  /\ UNCHANGED <<pool, limit, last, open>>

TurnBusy(t, l) ==
  /\ pool # <<>> /\ \A i \in 1..Len(pool) : held[pool[i]]
  /\ pc' = [pc EXCEPT ![t] = IF l = "zero" THEN "idle" ELSE "waiting"]
  /\ limit' = [limit EXCEPT ![t] = l]
  /\ UNCHANGED <<windowVars, callerVars, last, open>>

Turn(t, l) == (TurnStale(t) \/ TurnTake(t) \/ TurnBusy(t, l)) /\ UNCHANGED alive

Dequeue(t) ==
  alive /\ pc[t] = "idle" /\ \E l \in {"zero", "bounded", "forever"} : Turn(t, l)

\* the condition wait has returned 0
Resume(t) == pc[t] = "awake" /\ Turn(t, limit[t])

\* the deadline passes: the loop ends without another turn
Timeout(t) ==
  /\ pc[t] = "waiting" /\ limit[t] = "bounded"
  /\ pc' = [pc EXCEPT ![t] = "idle"]
  /\ UNCHANGED <<windowVars, limit, callerVars, last, open, alive>>

SpuriousWakeup(t) ==
  /\ pc[t] = "waiting"
  /\ pc' = [pc EXCEPT ![t] = "awake"]
  /\ UNCHANGED <<windowVars, limit, callerVars, last, open, alive>>

-----------------------------------------------------------------------------
(* release(): queue() and cancel() *)

\* pthread_cond_signal(&available)
FaultSignal == pc' = pc
Signal ==
  \/ (\A t \in Threads : pc[t] # "waiting") /\ pc' = pc
  \/ \E t \in Threads : pc[t] = "waiting" /\ pc' = [pc EXCEPT ![t] = "awake"]

FaultRefuses(b) == FALSE
Refuses(b) == ~held[b]

\* b is the native buffer of an image; f comes from the driver and is open
\* until the window, or the fence's importer, closes it
Release(b, f) ==
  /\ alive /\ b \in imported /\ ~Refuses(b) /\ taken[b] = NoFence
  /\ f = NoFence \/ f \notin open
  /\ open' = (open \ {fence[b]}) \cup ({f} \ {NoFence})
  /\ fence' = [fence EXCEPT ![b] = f]
  /\ last' = IF b \in owned THEN [last EXCEPT ![b] = f] ELSE last
  /\ held' = [held EXCEPT ![b] = FALSE]
  /\ owned' = owned \ {b}
  /\ Signal
  /\ UNCHANGED <<pool, limit, imported, taken, alive>>

\* -EINVAL: the descriptor is closed at once
ReleaseRefused(b) ==
  /\ alive /\ b \in imported /\ Refuses(b)
  /\ owned' = owned \ {b}
  /\ UNCHANGED <<windowVars, threadVars, imported, taken, last, open, alive>>

-----------------------------------------------------------------------------
(* The caller and the end *)

\* vkAcquireImageANDROID owns the descriptor from now on, failed or not
DriverImports(b) ==
  /\ taken[b] # NoFence
  /\ open' = open \ {taken[b]} /\ taken' = [taken EXCEPT ![b] = NoFence]
  /\ UNCHANGED <<windowVars, threadVars, imported, owned, last, alive>>

\* destroy_images() has cancelled the buffer if the pool still has it
DropImage(b) ==
  /\ b \in imported /\ taken[b] = NoFence /\ (b \in owned => ~InPool(b))
  /\ imported' = imported \ {b} /\ owned' = owned \ {b}
  /\ Free({b} \cap {c \in Buffers : ~InPool(c)})
  /\ UNCHANGED <<pool, held, threadVars, taken, last, alive>>

Destroy ==
  /\ alive /\ imported = {} /\ \A t \in Threads : pc[t] = "idle"
  /\ Free({b \in Buffers : InPool(b)})
  /\ pool' = <<>> /\ alive' = FALSE
  /\ UNCHANGED <<held, threadVars, callerVars, last>>

Destroyed == ~alive /\ UNCHANGED vars

Next ==
  \/ \E new \in NewPools : Configure(new)
  \/ \E t \in Threads : Dequeue(t) \/ Resume(t) \/ Timeout(t) \/ SpuriousWakeup(t)
  \/ \E b \in Buffers :
       \/ \E f \in Fences \cup {NoFence} : Release(b, f)
       \/ ReleaseRefused(b) \/ DriverImports(b) \/ DropImage(b)
  \/ Disconnect \/ Destroy \/ Destroyed

Spec == Init /\ [][Next]_vars

\* A thread that was woken gets the mutex and goes on.
FairSpec == Spec /\ \A t \in Threads : WF_vars(Resume(t))

-----------------------------------------------------------------------------
(* Properties *)

\* Every open fence descriptor is in exactly one place: stored in a buffer that
\* exists, or with the caller it was handed to.  Nothing closed is stored, and
\* nothing is forgotten when a pool is dropped while images are still imported.
FencePlaces ==
  {<<"buffer", b>> : b \in {c \in Buffers : fence[c] # NoFence /\ Exists(c)}} \cup
  {<<"caller", b>> : b \in {c \in Buffers : taken[c] # NoFence}}
FenceAt(p) == IF p[1] = "buffer" THEN fence[p[2]] ELSE taken[p[2]]
FencesOwnedOnce ==
  /\ TypeOK
  /\ open = {FenceAt(p) : p \in FencePlaces}
  /\ Cardinality(open) = Cardinality(FencePlaces)

\* release() transfers the GPU's fence instead of waiting for it: whoever gets
\* the buffer next, over however many dequeues by other threads and refused
\* releases, gets exactly the fence its previous owner gave back with it.
DependencyKept ==
  [][\A b \in Buffers : b \notin owned /\ b \in owned' => taken'[b] = last[b]]_vars

\* release() signals one waiter and disconnect() all: no thread sleeps on while
\* a buffer of the pool is free or the pool is gone.
Waits(t) == pc[t] = "waiting" /\ limit[t] = "forever"
Served == pool = <<>> \/ \E i \in 1..Len(pool) : ~held[pool[i]]
WaitersWake == \A t \in Threads : Waits(t) /\ Served ~> (~Waits(t) \/ ~Served)
=============================================================================
