------------------------------ MODULE X11Window ------------------------------
(***************************************************************************)
(* The X11 native window of the Vulkan ICD, hybris/vulkan/icd/             *)
(* native_window_x11.cpp: a pool of gralloc buffers, the application       *)
(* threads that dequeue, queue and cancel them, the presenter thread that  *)
(* sends queued buffers to the X server, and the server that releases them *)
(* with events.                                                            *)
(*                                                                         *)
(* One action is one critical section of Owner::mutex.  The caller of the  *)
(* window is the most general one that respects the calling contract of    *)
(* swapchain.c: it queues only buffers it has dequeued, it keeps one       *)
(* reference (an imported image) on every buffer it has ever dequeued, and *)
(* surface creation, reconfiguration and destruction are serialised.       *)
(*                                                                         *)
(* A definition named Fault... is a wrong variant of the one after it, a   *)
(* bug the code could have had; no action uses it.  Each property below is *)
(* violated when one of them replaces its neighbour.                       *)
(***************************************************************************)
EXTENDS Integers, Sequences, FiniteSets

CONSTANTS
  Buffers,    \* identities of Buffer objects; an identity is reused after free
  NoBuffer,   \* the presenter has no submission in hand
  PoolSizes,  \* image counts the application asks for (configure: 2..8)
  Timeouts,   \* kinds of dequeue timeout: "bounded" (zero included), "forever"
  MaxSerial   \* largest serial before the uint32_t counter wraps to 0

ASSUME BufferAssumption == NoBuffer \notin Buffers
ASSUME PoolSizeAssumption == PoolSizes \subseteq 2..8
ASSUME TimeoutAssumption == Timeouts \subseteq {"bounded", "forever"}
ASSUME SerialAssumption == MaxSerial \in Nat \ {0}

VARIABLES
  pool,         \* Owner::pool[0..count-1], as a sequence
  next_buffer,  \* where the next round-robin search starts (0-based)
  held, queued, \* Buffer::held, Buffer::queued
  refs,         \* the atomic reference count of each Buffer
  pending,      \* Owner::pending: presents the server has not given back
  serial,       \* Owner::serial
  asynchronous_error, draining, stopping,
  work,         \* work_head .. work_tail: buffers queued, not yet taken
  wpc,          \* the presenter: top, waiting, present, checking, finish,
                \* exited, joined
  wbuf, werr,   \* its submission's buffer and present()'s result
  request,      \* its PresentBuffer request: none, sent, accepted, rejected
  onscreen,     \* what the server holds: accepted and not released
  events,       \* release events in the connection's special-event queue
  connection_error, \* xcb_connection_has_error, permanent
  dis,          \* the thread in disconnect(): none, waiting, awake
  deq,          \* the thread in dequeue() without timeout: none, forever
  owned,        \* buffers dequeued by the application, not given back
  imported      \* buffers a swapchain image holds a reference on

poolVars == <<pool, next_buffer>>
flagVars == <<held, queued, refs>>
stateVars == <<asynchronous_error, draining, stopping>>
workerVars == <<wpc, wbuf, werr>>
serverVars == <<request, onscreen, connection_error>>
appVars == <<dis, deq, owned, imported>>
vars == <<poolVars, flagVars, pending, serial, stateVars, work, workerVars,
          serverVars, events, appVars>>

TypeOK ==
  /\ pool \in Seq(Buffers) /\ next_buffer \in Nat
  /\ held \in [Buffers -> BOOLEAN] /\ queued \in [Buffers -> BOOLEAN]
  /\ refs \in [Buffers -> Int]
  /\ pending \subseteq [buffer : Buffers, serial : 0..MaxSerial,
                        checked : BOOLEAN, released : BOOLEAN]
  /\ serial \in 0..MaxSerial
  /\ asynchronous_error \in BOOLEAN /\ draining \in BOOLEAN /\ stopping \in BOOLEAN
  /\ work \in Seq(Buffers)
  /\ wpc \in {"top", "waiting", "present", "checking", "finish", "exited", "joined"}
  /\ wbuf \in Buffers \cup {NoBuffer} /\ werr \in BOOLEAN
  /\ request \in {"none", "sent", "accepted", "rejected"}
  /\ onscreen \subseteq [buffer : Buffers, serial : 0..MaxSerial]
  /\ events \subseteq 0..MaxSerial
  /\ connection_error \in BOOLEAN
  /\ dis \in {"none", "waiting", "awake"}
  /\ deq \in {"none", "forever"}
  /\ owned \subseteq Buffers /\ imported \subseteq Buffers

InPool(b) == \E i \in 1..Len(pool) : pool[i] = b
InWork(b) == \E i \in 1..Len(work) : work[i] = b
IsPending(b) == \E p \in pending : p.buffer = b

\* Owner::busy, set and cleared in the sections that take and finish a submission
Busy == wpc \in {"present", "checking", "finish"}

Init ==
  /\ pool = <<>> /\ next_buffer = 0
  /\ held = [b \in Buffers |-> FALSE] /\ queued = [b \in Buffers |-> FALSE]
  /\ refs = [b \in Buffers |-> 0]
  /\ pending = {} /\ serial = 0
  /\ asynchronous_error = FALSE /\ draining = FALSE /\ stopping = FALSE
  /\ work = <<>> /\ wpc = "top" /\ wbuf = NoBuffer /\ werr = FALSE
  /\ request = "none" /\ onscreen = {} /\ events = {} /\ connection_error = FALSE
  /\ dis = "none" /\ deq = "none" /\ owned = {} /\ imported = {}

-----------------------------------------------------------------------------
(* drain(): every release event already received is applied.  A checked    *)
(* present is given back; an unchecked one only remembers its release.     *)

FaultReturned == {p \in pending : p.serial \in events}
Returned == {p \in pending : p.serial \in events /\ p.checked}
IsReturned(b) == \E p \in Returned : p.buffer = b

FaultDrainedPending == pending \ Returned
DrainedPending ==
  {[p EXCEPT !.released = @ \/ p.serial \in events] : p \in pending \ Returned}
DrainedHeld == [b \in Buffers |-> held[b] /\ ~IsReturned(b)]
DrainedQueued == [b \in Buffers |-> queued[b] /\ ~IsReturned(b)]
FaultDrainedRefs == refs
DrainedRefs == [b \in Buffers |-> IF IsReturned(b) THEN refs[b] - 1 ELSE refs[b]]

\* drain() and nothing else
Drain ==
  /\ pending' = DrainedPending /\ events' = {}
  /\ held' = DrainedHeld /\ queued' = DrainedQueued /\ refs' = DrainedRefs

-----------------------------------------------------------------------------
(* configure() *)

\* A fresh gralloc allocation shares no memory with one that is still in use.
Fresh == {b \in Buffers : refs[b] = 0 /\ \A o \in onscreen : o.buffer # b}

ConfigureAllowed ==
  /\ dis = "none" /\ pool = <<>> /\ ~draining /\ ~stopping /\ ~Busy /\ work = <<>>

Configure(new) ==
  /\ ConfigureAllowed
  /\ asynchronous_error' = FALSE
  /\ pool' = new
  /\ LET Added(b) == \E i \in 1..Len(new) : new[i] = b IN
     /\ held' = [b \in Buffers |-> held[b] /\ ~Added(b)]
     /\ queued' = [b \in Buffers |-> queued[b] /\ ~Added(b)]
     /\ refs' = [b \in Buffers |-> IF Added(b) THEN 1 ELSE refs[b]]
  /\ UNCHANGED <<next_buffer, pending, serial, draining, stopping, work, workerVars,
                 serverVars, events, appVars>>

\* an allocation fails half way: the buffers already made are dropped again
ConfigureNoMemory ==
  /\ ConfigureAllowed
  /\ asynchronous_error' = FALSE
  /\ next_buffer' = 0
  /\ UNCHANGED <<pool, flagVars, pending, serial, draining, stopping, work, workerVars,
                 serverVars, events, appVars>>

-----------------------------------------------------------------------------
(* dequeue(): one action per turn of its loop.  A call with a deadline may  *)
(* give up after any turn, so its turns are calls of their own; only a call *)
(* without timeout keeps its thread, in deq.                               *)

DequeueForever ==
  /\ deq = "none" /\ "forever" \in Timeouts /\ ~stopping
  /\ deq' = "forever"
  /\ UNCHANGED <<poolVars, flagVars, pending, serial, stateVars, work, workerVars,
                 serverVars, events, dis, owned, imported>>

DequeueRunning == ~stopping /\ (deq = "forever" \/ "bounded" \in Timeouts)

DequeueRefused ==
  asynchronous_error \/ stopping \/ draining \/ pool = <<>> \/ connection_error

\* the slot after step places of the round-robin search
Slot(step) == (next_buffer + step) % Len(pool)
SlotBuffer(step) == pool[Slot(step) + 1]

DequeueTake ==
  /\ DequeueRunning /\ ~DequeueRefused
  /\ \E step \in 0..(Len(pool) - 1) :
       /\ ~DrainedHeld[SlotBuffer(step)]
       /\ \A earlier \in 0..(step - 1) : DrainedHeld[SlotBuffer(earlier)]
       /\ next_buffer' = (Slot(step) + 1) % Len(pool)
       /\ held' = [DrainedHeld EXCEPT ![SlotBuffer(step)] = TRUE]
       /\ owned' = owned \cup {SlotBuffer(step)}
       /\ imported' = imported \cup {SlotBuffer(step)}
       /\ refs' = IF SlotBuffer(step) \in imported THEN DrainedRefs
                  ELSE [DrainedRefs EXCEPT ![SlotBuffer(step)] = @ + 1]
  /\ pending' = DrainedPending /\ events' = {} /\ queued' = DrainedQueued
  /\ deq' = "none"
  /\ UNCHANGED <<pool, serial, stateVars, work, workerVars, serverVars, dis>>

DequeueError ==
  /\ DequeueRunning /\ DequeueRefused
  /\ Drain
  /\ deq' = "none"
  /\ UNCHANGED <<poolVars, serial, stateVars, work, workerVars, serverVars,
                 dis, owned, imported>>

\* every buffer is held: EAGAIN, ETIMEDOUT or, after a millisecond without the
\* lock, another turn
DequeueBusy ==
  /\ DequeueRunning /\ ~DequeueRefused
  /\ \A i \in 1..Len(pool) : DrainedHeld[pool[i]]
  /\ Drain
  /\ UNCHANGED <<poolVars, serial, stateVars, work, workerVars, serverVars, appVars>>

\* the poll between two turns reports a failed descriptor
DequeuePollError ==
  /\ deq = "forever"
  /\ deq' = "none"
  /\ UNCHANGED <<poolVars, flagVars, pending, serial, stateVars, work, workerVars,
                 serverVars, events, dis, owned, imported>>

-----------------------------------------------------------------------------
(* queue() and cancel() *)

QueueError(b) ==
  \/ asynchronous_error \/ stopping \/ draining
  \/ ~InPool(b) \/ ~DrainedHeld[b] \/ DrainedQueued[b]

FaultSignalWorker == wpc' = wpc
\* pthread_cond_signal(&work_ready)
SignalWorker == wpc' = IF wpc = "waiting" THEN "top" ELSE wpc

FaultAppendWork(b) == <<b>> \o work
AppendWork(b) == Append(work, b)

Queue(b) ==
  /\ b \in owned /\ ~stopping
  /\ ~QueueError(b)
  /\ pending' = DrainedPending /\ events' = {} /\ held' = DrainedHeld
  /\ refs' = [DrainedRefs EXCEPT ![b] = @ + 1]
  /\ queued' = [DrainedQueued EXCEPT ![b] = TRUE]
  /\ work' = AppendWork(b)
  /\ SignalWorker
  /\ owned' = owned \ {b}
  /\ UNCHANGED <<poolVars, serial, stateVars, wbuf, werr, serverVars, dis, deq, imported>>

QueueRefused(b) ==
  /\ b \in owned /\ ~stopping
  /\ QueueError(b)
  /\ Drain
  /\ UNCHANGED <<poolVars, serial, stateVars, work, workerVars, serverVars, appVars>>

Cancel(b) ==
  /\ b \in imported /\ ~stopping
  /\ held' = IF InPool(b) /\ ~queued[b] THEN [held EXCEPT ![b] = FALSE] ELSE held
  /\ owned' = owned \ {b}
  /\ UNCHANGED <<poolVars, queued, refs, pending, serial, stateVars, work, workerVars,
                 serverVars, events, dis, deq, imported>>

\* consume_fence failed: the buffer stays held in the pool, the caller has let go
CancelFenceError(b) ==
  /\ b \in owned /\ ~stopping
  /\ owned' = owned \ {b}
  /\ UNCHANGED <<poolVars, flagVars, pending, serial, stateVars, work, workerVars,
                 serverVars, events, dis, deq, imported>>

\* destroy_images drops the image's reference; it has cancelled the buffer first
\* unless the chain was retired, when the pool no longer contains it
DropImage(b) ==
  /\ b \in imported /\ (b \in owned => ~InPool(b))
  /\ imported' = imported \ {b} /\ owned' = owned \ {b}
  /\ refs' = [refs EXCEPT ![b] = @ - 1]
  /\ UNCHANGED <<poolVars, held, queued, pending, serial, stateVars, work, workerVars,
                 serverVars, events, dis, deq>>

-----------------------------------------------------------------------------
(* disconnect() *)

DropPool(r) == [b \in Buffers |-> IF InPool(b) THEN r[b] - 1 ELSE r[b]]

\* the end of disconnect, reached with the lock held and the presenter idle
FinishDisconnect ==
  /\ pending' = DrainedPending /\ events' = {}
  /\ held' = DrainedHeld /\ queued' = DrainedQueued
  /\ refs' = DropPool(DrainedRefs)
  /\ pool' = <<>> /\ next_buffer' = 0
  /\ draining' = FALSE /\ dis' = "none"

WaitForIdle ==
  /\ draining' = TRUE /\ dis' = "waiting"
  /\ UNCHANGED <<poolVars, flagVars, pending, events>>

FaultDisconnectBlocked == work # <<>>
DisconnectBlocked == work # <<>> \/ Busy

Disconnect ==
  /\ dis = "none" /\ ~stopping
  /\ \/ DisconnectBlocked /\ WaitForIdle
     \/ ~DisconnectBlocked /\ FinishDisconnect
  /\ UNCHANGED <<serial, asynchronous_error, stopping, work, workerVars, serverVars,
                 deq, owned, imported>>

DisconnectResume ==
  /\ dis = "awake"
  /\ \/ DisconnectBlocked /\ WaitForIdle
     \/ ~DisconnectBlocked /\ FinishDisconnect
  /\ UNCHANGED <<serial, asynchronous_error, stopping, work, workerVars, serverVars,
                 deq, owned, imported>>

-----------------------------------------------------------------------------
(* present_worker() and present() *)

WorkerTake ==
  /\ wpc = "top" /\ work # <<>>
  /\ wbuf' = Head(work) /\ work' = Tail(work) /\ wpc' = "present"
  /\ UNCHANGED <<poolVars, flagVars, pending, serial, stateVars, werr, serverVars,
                 events, appVars>>

WorkerWait ==
  /\ wpc = "top" /\ work = <<>> /\ ~stopping
  /\ wpc' = "waiting"
  /\ UNCHANGED <<poolVars, flagVars, pending, serial, stateVars, work, wbuf, werr,
                 serverVars, events, appVars>>

WorkerExit ==
  /\ wpc = "top" /\ work = <<>> /\ stopping
  /\ wpc' = "exited"
  /\ UNCHANGED <<poolVars, flagVars, pending, serial, stateVars, work, wbuf, werr,
                 serverVars, events, appVars>>

\* present() fails before it takes the lock: the GPU fence reports an error, the
\* handle is malformed, or memory or descriptors run out
PresentEarlyError ==
  /\ wpc = "present"
  /\ wpc' = "finish" /\ werr' = TRUE
  /\ UNCHANGED <<poolVars, flagVars, pending, serial, stateVars, work, wbuf,
                 serverVars, events, appVars>>

SerialAfter(k) == (serial + k) % (MaxSerial + 1)
FaultSerialUsable(s) == s # 0
SerialUsable(s) == s # 0 /\ \A p \in DrainedPending : p.serial # s

\* the fence has signalled: take the lock, pick a serial no pending present uses,
\* send the request and record it
PresentSend ==
  /\ wpc = "present"
  /\ \E k \in 1..(MaxSerial + 1) :
       /\ SerialUsable(SerialAfter(k))
       /\ \A j \in 1..(k - 1) : ~SerialUsable(SerialAfter(j))
       /\ serial' = SerialAfter(k)
       /\ pending' = DrainedPending \cup
            {[buffer |-> wbuf, serial |-> SerialAfter(k),
              checked |-> FALSE, released |-> FALSE]}
  /\ events' = {} /\ held' = DrainedHeld /\ queued' = DrainedQueued
  /\ refs' = [DrainedRefs EXCEPT ![wbuf] = @ + 1]
  /\ request' = IF connection_error THEN "none" ELSE "sent"
  /\ wpc' = "checking"
  /\ UNCHANGED <<poolVars, stateVars, work, wbuf, werr, onscreen, connection_error, appVars>>

CheckError == connection_error \/ request = "rejected"
Unchecked == {p \in pending : ~p.checked}
FaultCheckGivesBack == CheckError
CheckGivesBack == CheckError \/ \E p \in Unchecked : p.released
FaultCheckRecords == asynchronous_error
CheckRecords == asynchronous_error \/ CheckError

\* check() has returned and the lock is held again
PresentCheck ==
  /\ wpc = "checking" /\ (connection_error \/ request \in {"accepted", "rejected"})
  /\ IF CheckGivesBack
     THEN /\ pending' = pending \ Unchecked
          /\ held' = [held EXCEPT ![wbuf] = FALSE]
          /\ queued' = [queued EXCEPT ![wbuf] = FALSE]
          /\ refs' = [refs EXCEPT ![wbuf] = @ - 1]
     ELSE /\ pending' = {[p EXCEPT !.checked = TRUE] : p \in pending}
          /\ UNCHANGED flagVars
  /\ asynchronous_error' = CheckRecords
  /\ werr' = CheckError /\ request' = "none" /\ wpc' = "finish"
  /\ UNCHANGED <<poolVars, serial, draining, stopping, work, wbuf, onscreen,
                 connection_error, events, appVars>>

FaultBroadcastIdle == dis' = dis
\* pthread_cond_broadcast(&idle)
BroadcastIdle == dis' = IF dis = "waiting" THEN "awake" ELSE dis

\* the presenter has the lock back after present()
WorkerFinish ==
  /\ wpc = "finish"
  /\ asynchronous_error' = (asynchronous_error \/ werr)
  /\ held' = IF werr THEN [held EXCEPT ![wbuf] = FALSE] ELSE held
  /\ queued' = IF werr THEN [queued EXCEPT ![wbuf] = FALSE] ELSE queued
  /\ refs' = [refs EXCEPT ![wbuf] = @ - 1]
  /\ wbuf' = NoBuffer /\ werr' = FALSE /\ wpc' = "top"
  /\ BroadcastIdle
  /\ UNCHANGED <<poolVars, pending, serial, draining, stopping, work, serverVars,
                 events, deq, owned, imported>>

-----------------------------------------------------------------------------
(* destroy(): the surface goes; its swapchains are gone already *)

Destroy ==
  /\ ~stopping /\ dis = "none" /\ deq = "none" /\ imported = {}
  /\ stopping' = TRUE
  /\ SignalWorker
  /\ UNCHANGED <<poolVars, flagVars, pending, serial, asynchronous_error, draining, work,
                 wbuf, werr, serverVars, events, appVars>>

\* the presenter is joined; the pool and every pending present are released
DestroyFinish ==
  /\ wpc = "exited"
  /\ wpc' = "joined"
  /\ refs' = [b \in Buffers |-> DropPool(refs)[b] - (IF IsPending(b) THEN 1 ELSE 0)]
  /\ pool' = <<>> /\ next_buffer' = 0 /\ pending' = {}
  /\ UNCHANGED <<held, queued, serial, stateVars, work, wbuf, werr, serverVars,
                 events, appVars>>

Destroyed == wpc = "joined" /\ UNCHANGED vars

-----------------------------------------------------------------------------
(* The X server and the connection.  External: they are not under src/.    *)

ServerAccept ==
  /\ request = "sent" /\ ~connection_error
  /\ request' = "accepted"
  /\ onscreen' = onscreen \cup
       {[buffer |-> p.buffer, serial |-> p.serial] : p \in Unchecked}
  /\ UNCHANGED <<poolVars, flagVars, pending, serial, stateVars, work, workerVars,
                 connection_error, events, appVars>>

ServerReject ==
  /\ request = "sent" /\ ~connection_error
  /\ request' = "rejected"
  /\ UNCHANGED <<poolVars, flagVars, pending, serial, stateVars, work, workerVars,
                 onscreen, connection_error, events, appVars>>

ServerRelease(o) ==
  /\ o \in onscreen /\ ~connection_error
  /\ onscreen' = onscreen \ {o}
  /\ events' = events \cup {o.serial}
  /\ UNCHANGED <<poolVars, flagVars, pending, serial, stateVars, work, workerVars,
                 request, connection_error, appVars>>

ConnectionBreaks ==
  /\ ~connection_error
  /\ connection_error' = TRUE
  /\ UNCHANGED <<poolVars, flagVars, pending, serial, stateVars, work, workerVars,
                 request, onscreen, events, appVars>>

-----------------------------------------------------------------------------
(* A condition wait may return without a signal. *)
SpuriousWakeup ==
  /\ \/ wpc = "waiting" /\ wpc' = "top" /\ UNCHANGED dis
     \/ dis = "waiting" /\ dis' = "awake" /\ UNCHANGED wpc
  /\ UNCHANGED <<poolVars, flagVars, pending, serial, stateVars, work, wbuf, werr,
                 serverVars, events, deq, owned, imported>>

NewPools ==
  {s \in UNION {[1..n -> Fresh] : n \in PoolSizes} :
     \A i, j \in DOMAIN s : i # j => s[i] # s[j]}

AppNext ==
  \/ \E new \in NewPools : Configure(new)
  \/ ConfigureNoMemory
  \/ DequeueForever \/ DequeueTake \/ DequeueError \/ DequeueBusy \/ DequeuePollError
  \/ \E b \in Buffers : \/ Queue(b) \/ QueueRefused(b)
                        \/ Cancel(b) \/ CancelFenceError(b) \/ DropImage(b)
  \/ Disconnect \/ DisconnectResume
  \/ Destroy \/ DestroyFinish \/ Destroyed

WorkerNext ==
  \/ WorkerTake \/ WorkerWait \/ WorkerExit
  \/ PresentEarlyError \/ PresentSend \/ PresentCheck \/ WorkerFinish

ServerNext ==
  \/ ServerAccept \/ ServerReject \/ (\E o \in onscreen : ServerRelease(o))
  \/ ConnectionBreaks

Next == AppNext \/ WorkerNext \/ ServerNext \/ SpuriousWakeup

Spec == Init /\ [][Next]_vars

-----------------------------------------------------------------------------
(* The presenter thread runs whenever it can, the X server answers the     *)
(* request that check() waits for, and a thread inside disconnect(),       *)
(* destroy() or dequeue() goes on when its wait is over.  Nothing obliges  *)
(* the server to release a buffer or the application to call anything.     *)
DequeueTurn == DequeueTake \/ DequeueError \/ DequeueBusy
Fairness ==
  /\ WF_vars(WorkerNext)
  /\ WF_vars(ServerAccept \/ ServerReject)
  /\ WF_vars(DisconnectResume)
  /\ WF_vars(DestroyFinish)
  /\ WF_vars(DequeueTurn)

FairSpec == Spec /\ Fairness

-----------------------------------------------------------------------------
(* Safety *)

\* A buffer the application may draw into (dequeued and not given back) is not
\* waiting in the submission queue, not in the presenter's hands on the way to
\* the server, not recorded as pending and not held by the server.
ExclusiveOwnership ==
  \A b \in owned :
    /\ ~InWork(b) /\ ~IsPending(b)
    /\ ~(wbuf = b /\ wpc \in {"present", "checking"})
    /\ \A o \in onscreen : o.buffer # b

\* A buffer of the current pool that the application holds stays marked held
\* and not queued until the application gives it back, so that dequeue cannot
\* hand it out a second time: the presenter's write of held after present()
\* has dropped the lock never hits a buffer that was dequeued again meanwhile.
OwnedStaysHeld ==
  \A b \in owned : InPool(b) => held[b] /\ ~queued[b]

One(condition) == IF condition THEN 1 ELSE 0

\* A Buffer's reference count is exactly the number of its holders: the pool,
\* the submission waiting, the submission in the presenter's hands, the pending
\* present and the swapchain image.  None is used after free and none leaks.
RefCountExact ==
  \A b \in Buffers :
    refs[b] = One(InPool(b)) + One(InWork(b)) + One(wbuf = b)
              + One(IsPending(b)) + One(b \in imported)

\* Two pending presents never share a serial, and none has serial 0, also after
\* the 32-bit serial counter has wrapped and come back into its range: a release
\* names one present.
PendingSerialsDistinct ==
  /\ TypeOK
  /\ \A p, q \in pending : p.serial # 0 /\ (p.serial = q.serial => p = q)

\* A present that check() has confirmed stays pending only while the server
\* still holds its buffer or its release is waiting to be drained: a release
\* that arrives before check() returns is not lost.
NoReleaseLost ==
  \A p \in pending : p.checked /\ ~connection_error =>
    p.serial \in events \/ \E o \in onscreen : o.serial = p.serial

\* disconnect() never drops the pool under the presenter: every submission
\* waiting or in hand is of a buffer of the current pool.
PoolOutlivesWork ==
  \A b \in Buffers : InWork(b) \/ wbuf = b => InPool(b)

-----------------------------------------------------------------------------
(* Liveness *)

\* A submission that queue() accepted reaches the server, or its failure is
\* recorded for the next call to report.
SubmissionsPresented ==
  \A b \in Buffers : InWork(b) ~> (IsPending(b) \/ asynchronous_error)

\* disconnect() and destroy() return: the idle broadcast is not lost, no new
\* submission is accepted while disconnect() waits, and the presenter notices
\* stopping and exits.
CallsReturn == (dis # "none" ~> dis = "none") /\ (stopping ~> wpc = "joined")

\* A dequeue() without timeout returns once a release of a pool buffer has been
\* received, although check() of the same present may still be outstanding.
ReleaseEndsDequeue ==
  (deq = "forever" /\ \E p \in pending : InPool(p.buffer) /\ p.serial \in events)
    ~> deq = "none"

-----------------------------------------------------------------------------
(* The window implements the buffer queue of the ICD.                      *)

\* the presenter's submission has not been seen by the server yet
InHand == wpc = "present" \/ (wpc = "checking" /\ request # "accepted")

Fifo == IF InHand THEN <<wbuf>> \o work ELSE work
Display == {o.buffer : o \in onscreen}

Promise == INSTANCE BufferQueue WITH app <- owned, fifo <- Fifo, display <- Display

\* Every behaviour of the window is one of the buffer queue: single ownership,
\* idle buffers only, presents in queue order.
ImplementsBufferQueue == Promise!Spec
=============================================================================
