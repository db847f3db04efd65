---------------------------- MODULE WaylandWindow ----------------------------
(***************************************************************************)
(* The Wayland native window of the Vulkan ICD: hybris/vulkan/icd/         *)
(* wayland_window.cpp over platforms/wayland/wayland_window_common.cpp,    *)
(* built with client-side buffers, as window_owner.cpp and                 *)
(* native_window_wayland.c use it.                                         *)
(*                                                                         *)
(* A call keeps WaylandNativeWindow::mutex while it waits for events, so   *)
(* one call is in progress at a time; between its steps the compositor     *)
(* sends events, another queue's reader moves events from the socket to    *)
(* the window's queue, and the driver drops references.  A dispatch takes  *)
(* one action per event.                                                   *)
(*                                                                         *)
(* Left out: dequeueBuffer() and readQueue(), which the ICD does not call; *)
(* damage; a queueBuffer() or cancel() whose fence cannot be waited for    *)
(* changes nothing.  setBufferCount() always starts from an empty list and *)
(* dequeueBufferTimeout() never replaces a buffer: create_swapchain()      *)
(* disconnects before it configures, so the buffers are allocated with the *)
(* size, format and usage they are compared with.  A definition named      *)
(* Fault... is a wrong variant of the one after it; no action uses it.     *)
(***************************************************************************)
EXTENDS Integers, Sequences, FiniteSets, Functions

CONSTANTS
  Buffers,        \* identities of WaylandNativeWindowBuffer; reused after free
  NoBuffer,       \* NULL
  InitialCount,   \* buffers the constructor allocates: 3 in the code
  PoolSizes       \* image counts swapchain.c asks for

ASSUME BufferAssumption == NoBuffer \notin Buffers
ASSUME CountAssumption == InitialCount \in Nat /\ PoolSizes \subseteq 2..8

VARIABLES
  bufList,            \* m_bufList
  busy, youngest,     \* the listed buffers with these flags
  freeBufs,           \* m_freeBufs
  fronted,            \* fronted
  frameCb,            \* frame_callback is not NULL
  creating,           \* buffers whose creation_callback is not NULL
  proxy,              \* buffers whose wlbuffer is not NULL
  refs,               \* refcount
  queue, sock,        \* events in wl_queue, and not yet read from the socket
  shown, current,     \* compositor: buffers it reads, the last committed one
  frameDue,           \* compositor: a frame callback is to be answered
  owned, imported,    \* swapchain.c: dequeued buffers, images' references
  connected,          \* swapchain.c: it configured the pool and uses its images
  call, arg,          \* the call that holds the mutex, and its buffers
  broken, alive

poolVars == <<bufList, busy, youngest, freeBufs>>
wireVars == <<queue, sock>>
compVars == <<shown, current, frameDue>>
chainVars == <<owned, imported, connected>>
callVars == <<call, arg>>
vars == <<poolVars, fronted, frameCb, creating, proxy, refs, wireVars, compVars,
          chainVars, callVars, broken, alive>>

Listed == {bufList[i] : i \in 1..Len(bufList)}
Event(k, b) == [kind |-> k, buffer |-> b]

\* Flags are kept for buffers that exist, and a buffer has an owner.
TypeOK ==
  /\ bufList \in Seq(Buffers)
  /\ busy \subseteq Buffers /\ youngest \subseteq Buffers
  /\ freeBufs \in Nat /\ refs \in [Buffers -> Int]
  /\ creating \subseteq proxy /\ proxy \subseteq Buffers /\ fronted \subseteq Buffers
  /\ frameCb \in BOOLEAN /\ frameDue \in BOOLEAN /\ connected \in BOOLEAN
  /\ owned \subseteq imported /\ \A b \in imported \cup proxy : refs[b] > 0
  /\ call \in {"none", "dequeue", "present", "disconnect", "destroy", "destroy_wait",
               "destroyed"}

Init ==
  /\ bufList \in [1..InitialCount -> Buffers] /\ IsInjective(bufList)
  /\ busy = {} /\ youngest = {} /\ freeBufs = InitialCount
  /\ fronted = {} /\ frameCb = FALSE /\ creating = {} /\ proxy = {}
  /\ refs = [b \in Buffers |-> IF b \in Listed THEN 1 ELSE 0]
  /\ queue = <<>> /\ sock = <<>>
  /\ shown = {} /\ current = NoBuffer /\ frameDue = FALSE
  /\ owned = {} /\ imported = {} /\ connected = FALSE
  /\ call = "none" /\ arg = <<>> /\ broken = FALSE /\ alive = TRUE

Begin(op, bs) == call = "none" /\ alive /\ call' = op /\ arg' = bs
End == call' = "none" /\ arg' = <<>>

\* the events that are left when some are never dispatched
Remaining(events, dropped) ==
  LET kept[i \in 0..Len(events)] ==
        IF i = 0 THEN <<>>
        ELSE IF events[i] \in dropped THEN kept[i - 1] ELSE Append(kept[i - 1], events[i])
  IN kept[Len(events)]

\* destroyBuffer(): events of a destroyed proxy are never dispatched
Without(events, gone) == Remaining(events, {e \in Range(events) : e.buffer \in gone})
DestroyBuffers(gone, q) ==
  /\ proxy' = proxy \ gone /\ creating' = creating \ gone
  /\ refs' = [b \in Buffers |-> IF b \in gone THEN refs[b] - 1 ELSE refs[b]]
  /\ queue' = Without(q, gone) /\ sock' = Without(sock, gone)
  /\ shown' = shown \ gone

-----------------------------------------------------------------------------
(* configure(): resize(), setBufferCount() *)

\* create_swapchain() has disconnected before, also a window just constructed
Configure(n) ==
  /\ alive /\ call = "none" /\ bufList = <<>>
  /\ \E new \in [1..n -> {b \in Buffers : refs[b] = 0}] :
       /\ IsInjective(new)
       /\ bufList' = new
       /\ refs' = [b \in Buffers |-> IF \E i \in DOMAIN new : new[i] = b
                                     THEN 1 ELSE refs[b]]
  /\ freeBufs' = n /\ connected' = TRUE
  /\ UNCHANGED <<busy, youngest, fronted, frameCb, creating, proxy, wireVars, compVars,
                 owned, imported, callVars, broken, alive>>

-----------------------------------------------------------------------------
(* Events *)

FaultCounted(b) == TRUE
Counted(b) == b \in Listed

FreeAfter == freeBufs + 1

\* releaseBuffer()
ReleaseBuffer(b) ==
  /\ fronted' = fronted \ {b}
  /\ \/ /\ Counted(b)
        /\ busy' = busy \ {b} /\ youngest' = {b} /\ freeBufs' = FreeAfter
        /\ queue' = Tail(queue)
        /\ UNCHANGED <<proxy, creating, refs, sock, shown>>
     \/ /\ ~Counted(b)
        /\ DestroyBuffers({b}, Tail(queue))
        /\ UNCHANGED <<busy, youngest, freeBufs>>
  /\ UNCHANGED frameCb

\* frame(), buffer_create_sync_callback()
FaultCreatingAfter(e) == creating
CreatingAfter(e) == creating \ (IF e.kind = "created" THEN {e.buffer} ELSE {})
Callback(e) ==
  /\ queue' = Tail(queue)
  /\ frameCb' = (frameCb /\ e.kind # "frame")
  /\ creating' = CreatingAfter(e)
  /\ UNCHANGED <<busy, youngest, freeBufs, fronted, proxy, refs, sock, shown>>

Dispatch ==
  /\ call \notin {"none", "destroy"} /\ queue # <<>> /\ ~broken
  /\ LET e == Head(queue) IN
       IF e.kind = "release" THEN ReleaseBuffer(e.buffer) ELSE Callback(e)
  /\ UNCHANGED <<bufList, current, frameDue, chainVars, callVars, broken, alive>>

\* a dispatch is over: the queue is empty, or the display has an error
Dispatched == queue = <<>> \/ broken

\* the call has to wait for more events
Waiting ==
  /\ ~broken
  /\ \/ call = "dequeue" /\ freeBufs = 0
     \/ call = "present" /\ frameCb
     \/ call = "destroy_wait" /\ Head(arg) \in creating

\* poll() and wl_display_read_events(), or wl_display_dispatch_queue()
Read ==
  /\ Waiting /\ queue = <<>> /\ sock # <<>>
  /\ queue' = sock /\ sock' = <<>>
  /\ UNCHANGED <<poolVars, fronted, frameCb, creating, proxy, refs, compVars,
                 chainVars, callVars, broken, alive>>

OtherQueueReads ==
  /\ sock # <<>> /\ alive
  /\ queue' = queue \o sock /\ sock' = <<>>
  /\ UNCHANGED <<poolVars, fronted, frameCb, creating, proxy, refs, compVars,
                 chainVars, callVars, broken, alive>>

-----------------------------------------------------------------------------
(* dequeueBufferTimeout() *)

Dequeue ==
  /\ connected /\ Begin("dequeue", <<>>)
  /\ UNCHANGED <<poolVars, fronted, frameCb, creating, proxy, refs, wireVars,
                 compVars, chainVars, broken, alive>>

\* the first that is neither busy nor the youngest, or the first not busy
First(S) == CHOOSE i \in 1..Len(bufList) :
              bufList[i] \in S /\ \A j \in 1..(i - 1) : bufList[j] \notin S
Old == Listed \ (busy \cup youngest)
FaultFound == First(Listed \ youngest)
Found == IF Old # {} THEN First(Old) ELSE First(Listed \ busy)

DequeueTake ==
  /\ call = "dequeue" /\ Dispatched /\ ~broken /\ freeBufs > 0 /\ Listed \ busy # {}
  /\ LET b == bufList[Found]
         ref == IF b \in imported THEN 0 ELSE 1   \* create_swapchain() imports it
     IN /\ busy' = busy \cup {b} /\ freeBufs' = freeBufs - 1
        /\ owned' = owned \cup {b} /\ imported' = imported \cup {b}
        /\ refs' = [refs EXCEPT ![b] = @ + ref]
  /\ End
  /\ UNCHANGED <<bufList, youngest, fronted, frameCb, creating, proxy, wireVars,
                 compVars, connected, broken, alive>>

\* -EPIPE, the timeout, or a count that is wrong
DequeueFails ==
  /\ call = "dequeue" /\ Dispatched /\ (broken \/ freeBufs = 0 \/ Listed \subseteq busy)
  /\ End
  /\ UNCHANGED <<poolVars, fronted, frameCb, creating, proxy, refs, wireVars,
                 compVars, chainVars, broken, alive>>

-----------------------------------------------------------------------------
(* queueBuffer() and presentBuffer(), cancelBuffer() *)

\* an image of the swapchain in use, or of one that is retired
Queue(b) ==
  /\ b \in owned /\ (b \in Listed => connected) /\ Begin("present", <<b>>)
  /\ UNCHANGED <<poolVars, fronted, frameCb, creating, proxy, refs, wireVars,
                 compVars, chainVars, broken, alive>>

\* a buffer of an earlier pool gets the reference its list no longer holds
FaultRetiredRef(b) == refs
RetiredRef(b) == IF b \in Listed THEN refs ELSE [refs EXCEPT ![b] = @ + 1]

\* it stays busy until its release
FaultBusyAfter(b) == busy \ {b}
BusyAfter(b) == busy

Commit ==
  /\ call = "present" /\ Dispatched /\ ~broken /\ ~frameCb
  /\ LET b == arg[1] IN
     /\ refs' = RetiredRef(b) /\ busy' = BusyAfter(b)
     /\ fronted' = fronted \cup {b} /\ owned' = owned \ {b}
     /\ proxy' = proxy \cup {b}
     /\ creating' = creating \cup ({b} \ proxy)
     /\ sock' = IF b \in proxy THEN sock ELSE Append(sock, Event("created", b))
     /\ shown' = shown \cup {b} /\ current' = b
  /\ frameCb' = TRUE /\ frameDue' = TRUE
  /\ End
  /\ UNCHANGED <<bufList, youngest, freeBufs, queue, imported, connected, broken, alive>>

\* -EPIPE: swapchain.c cancels the buffer, or drops it with its image
PresentFails ==
  /\ call = "present" /\ broken
  /\ End
  /\ UNCHANGED <<poolVars, fronted, frameCb, creating, proxy, refs, wireVars,
                 compVars, chainVars, broken, alive>>

Cancel(b) ==
  /\ alive /\ call = "none" /\ b \in owned /\ b \in Listed
  /\ busy' = busy \ {b} /\ youngest' = {b} /\ freeBufs' = freeBufs + 1
  /\ owned' = owned \ {b}
  /\ UNCHANGED <<bufList, fronted, frameCb, creating, proxy, refs, wireVars,
                 compVars, imported, connected, callVars, broken, alive>>

\* destroy_images() of swapchain.c, without the mutex, after a cancel() that may
\* have failed; the swapchain is destroyed, or its creation has failed
DropImage(b) ==
  /\ b \in imported /\ arg # <<b>>
  /\ connected' = (connected /\ b \notin Listed)
  /\ imported' = imported \ {b} /\ owned' = owned \ {b}
  /\ refs' = [refs EXCEPT ![b] = @ - 1]
  /\ UNCHANGED <<poolVars, fronted, frameCb, creating, proxy, wireVars, compVars,
                 callVars, broken, alive>>

-----------------------------------------------------------------------------
(* apiDisconnect(), ~WaylandNativeWindow() *)

\* by create_swapchain(), before configure() and for a swapchain it retires, and
\* by destroy_swapchain()
Disconnect ==
  /\ Begin("disconnect", <<>>)
  /\ UNCHANGED <<poolVars, fronted, frameCb, creating, proxy, refs, wireVars,
                 compVars, chainVars, broken, alive>>

NoFrame(events) == Remaining(events, {Event("frame", NoBuffer)})
FaultFrameCbAfter == frameCb
FrameCbAfter == FALSE
FaultFrontedAfter == fronted \ Listed
FrontedAfter == fronted

\* what the compositor shows leaves the list and stays in fronted
DisconnectFinish ==
  /\ call = "disconnect" /\ Dispatched
  /\ LET gone == Listed \ fronted IN
     /\ proxy' = proxy \ gone /\ creating' = creating \ gone
     /\ refs' = [b \in Buffers |-> IF b \in gone THEN refs[b] - 1 ELSE refs[b]]
     /\ queue' = NoFrame(Without(queue, gone)) /\ sock' = NoFrame(Without(sock, gone))
     /\ fronted' = FrontedAfter /\ shown' = shown \ gone
  /\ bufList' = <<>> /\ freeBufs' = 0 /\ busy' = {} /\ youngest' = {}
  /\ frameCb' = FrameCbAfter /\ frameDue' = FALSE
  /\ connected' = FALSE /\ End
  /\ UNCHANGED <<current, owned, imported, broken, alive>>

\* The surface has no swapchain.  A list is left when the window was never used
\* or the last creation failed; its buffers were not presented.  destroyBuffers()
\* walks the list, then fronted.
Destroy ==
  /\ imported = {} /\ Listed \cap fronted = {}
  /\ \E s \in Injection(1..Cardinality(fronted), fronted) : Begin("destroy", s)
  /\ bufList' = <<>> /\ freeBufs' = 0 /\ connected' = FALSE
  /\ DestroyBuffers(Listed, queue)
  /\ UNCHANGED <<busy, youngest, fronted, frameCb, current, frameDue, owned, imported,
                 broken, alive>>

\* destroyBuffer() dispatches while the creation callback is outstanding
DestroyWait ==
  /\ call = "destroy" /\ arg # <<>> /\ Head(arg) \in creating /\ ~broken
  /\ call' = "destroy_wait" /\ arg' = arg
  /\ UNCHANGED <<poolVars, fronted, frameCb, creating, proxy, refs, wireVars,
                 compVars, chainVars, broken, alive>>

\* the walk does not notice a buffer that a release has destroyed meanwhile
DestroyFronted ==
  /\ arg # <<>>
  /\ \/ call = "destroy" /\ (Head(arg) \notin creating \/ broken)
     \/ call = "destroy_wait" /\ Dispatched /\ ~Waiting
  /\ DestroyBuffers({Head(arg)}, queue)
  /\ call' = "destroy" /\ arg' = Tail(arg)
  /\ UNCHANGED <<poolVars, fronted, frameCb, current, frameDue, chainVars,
                 broken, alive>>

DestroyFinish ==
  /\ call = "destroy" /\ arg = <<>>
  /\ fronted' = {} /\ frameCb' = FALSE /\ queue' = <<>> /\ sock' = <<>>
  /\ frameDue' = FALSE /\ alive' = FALSE
  /\ call' = "destroyed" /\ arg' = <<>>
  /\ UNCHANGED <<poolVars, creating, proxy, refs, shown, current, chainVars, broken>>

Destroyed == ~alive /\ UNCHANGED vars

-----------------------------------------------------------------------------
(* The compositor; it may copy a buffer and release it while it is current *)

CompositorReleases(b) ==
  /\ b \in shown
  /\ shown' = shown \ {b} /\ sock' = Append(sock, Event("release", b))
  /\ UNCHANGED <<poolVars, fronted, frameCb, creating, proxy, refs, queue, current,
                 frameDue, chainVars, callVars, broken, alive>>

CompositorFrame ==
  /\ frameDue
  /\ frameDue' = FALSE /\ sock' = Append(sock, Event("frame", NoBuffer))
  /\ UNCHANGED <<poolVars, fronted, frameCb, creating, proxy, refs, queue, shown,
                 current, chainVars, callVars, broken, alive>>

ConnectionBreaks ==
  /\ ~broken /\ alive
  /\ broken' = TRUE
  /\ UNCHANGED <<poolVars, fronted, frameCb, creating, proxy, refs, wireVars,
                 compVars, chainVars, callVars, alive>>

CallStep ==
  \/ Dispatch \/ Read \/ DequeueTake \/ Commit \/ PresentFails
  \/ DisconnectFinish \/ DestroyWait \/ DestroyFronted \/ DestroyFinish

Next ==
  \/ \E n \in PoolSizes : Configure(n)
  \/ Dequeue \/ DequeueFails \/ Disconnect \/ Destroy \/ Destroyed
  \/ \E b \in Buffers : Queue(b) \/ Cancel(b) \/ DropImage(b) \/ CompositorReleases(b)
  \/ CallStep \/ OtherQueueReads \/ CompositorFrame \/ ConnectionBreaks

Spec == Init /\ [][Next]_vars

-----------------------------------------------------------------------------
(* Properties *)

Teardown == call \in {"destroy", "destroy_wait", "destroyed"}

\* dequeueBufferTimeout() trusts m_freeBufs: it is the number of buffers of the
\* list that are not busy, although releases of earlier pools keep arriving.
FreeCountExact == freeBufs = Cardinality(Listed \ busy)

\* A buffer that swapchain.c draws into is not read by the compositor, and its
\* release is not under way.
ExclusiveOwnership ==
  \A b \in owned :
    b \notin shown /\ \A e \in Range(queue \o sock) : e # Event("release", b)

\* A buffer has one reference for the list, or for fronted once its pool is
\* gone, and one for the image: nothing is freed early and nothing leaks, until
\* the window is destroyed.
RefsExact ==
  /\ TypeOK
  /\ ~Teardown => \A b \in Buffers :
       refs[b] = (IF b \in Listed \cup fronted THEN 1 ELSE 0)
               + (IF b \in imported THEN 1 ELSE 0)

\* The assertion of releaseBuffer() holds: a release that will be dispatched is
\* for a fronted buffer, also after any number of disconnects.  And no buffer of
\* a pool in use is lost: a busy one is with swapchain.c, being presented, shown,
\* or its release is under way, so that a dequeue that waits is not waiting for
\* nothing.
Released == {e.buffer : e \in {x \in Range(queue \o sock) : x.kind = "release"}}
ReleasesTracked ==
  ~Teardown =>
    /\ Released \subseteq fronted
    /\ connected /\ ~broken => Listed \cap busy \subseteq owned \cup Range(arg) \cup shown \cup Released

\* destroyBuffer() dispatches events as long as the creation callback of its
\* buffer is outstanding.  apiDisconnect() calls it while it walks the list, and
\* releaseBuffer() from within a dispatch: they never get there with a callback
\* outstanding, or the events dispatched inside would change what they work on.
\* Such a buffer is fronted, so disconnect keeps it, and its release comes after
\* the event that ends its creation, also when it was presented by a retired
\* swapchain and for the second time.
Arriving == queue \o sock
CreationSettled ==
  ~Teardown =>
    /\ creating \subseteq fronted
    /\ \A b \in creating, i \in DOMAIN Arriving :
         Arriving[i] = Event("release", b) =>
           \E j \in 1..(i - 1) : Arriving[j] = Event("created", b)

\* A present waits until the frame callback of the previous one is gone: as long
\* as it is set the compositor owes the event or the event waits to be
\* dispatched, also when a disconnect came between, so the wait ends.
FramePending ==
  frameCb /\ ~broken =>
    frameDue \/ Event("frame", NoBuffer) \in Range(queue \o sock)

\* A submission is queued while its call is in progress: until the commit, or
\* until -EPIPE leaves the buffer with swapchain.c.
Submitted == IF call = "present" THEN arg ELSE <<>>
Promise == INSTANCE BufferQueue WITH
             app <- owned \ Range(Submitted), fifo <- Submitted, display <- shown

\* The window implements the abstract buffer queue.
ImplementsBufferQueue == Promise!Spec
=============================================================================
