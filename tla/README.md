# TLA+ models of libhybris

libhybris lets a glibc process use Android (bionic) drivers. This directory
models its stateful parts in TLA+, checks them with TLC on small instances and
proves their safety with TLAPS for every instance. Paths
below are relative to `src/`.

`PROJECT.json` is the index: which source lines a definition models (`map`),
the TLC runs, the wrong variants each property rejects (`mutants`), the hazards
of the code and the properties that cover them, and the theorems.

## 1. Inventory

State, operations and hard behaviour of each part. "M" marks a part that is
modelled, "m" one that is modelled in part, "-" one that is left out
(section 8).

| part | state | operations | what is hard, and what must hold |
|---|---|---|---|
| **M** X11 native window, `hybris/vulkan/icd/native_window_x11.cpp` | pool, `held`/`queued` flags, reference counts, pending presents with 32-bit serials, submission list, presenter thread, flags `asynchronous_error`, `draining`, `stopping` | configure, dequeue, queue, cancel, disconnect, destroy, presenter loop, drain of release events | three threads and the X server; the lock is dropped around the server round trip and between two polls. One owner per buffer, exact references, no lost release, no lost wakeup, disconnect and destroy end |
| **M** swapchains, `hybris/vulkan/icd/swapchain.c` | per swapchain: retired, presentation status, images (free, acquired, presented) | create (with replacement), destroy, acquire, present (several swapchains in one call), device teardown | replacement that fails half way, retired images, rejected presents. The window's pool is that of the live swapchain; an acquired image is really dequeued; the worst result is reported |
| **M** headless window, `native_window_headless.cpp` | pool, held flags, fence per buffer, waiters | configure, dequeue with timeout, queue = cancel, disconnect, destroy | waiters over a reconfiguration; each fence descriptor has one owner and reaches the next producer |
| **M** Wayland window, `icd/wayland_window.cpp`, `window_owner.cpp`, `platforms/wayland/wayland_window_common.cpp` | buffer list, free count, fronted list, frame callback, event queue | configure, dequeue, present, cancel, release, disconnect, destroy | other queues of the display read the socket first; releases for a pool that is gone |
| **m** ICD registries, `icd/instance.c`, `device.c`, `wsi.c`, `swapchain.c` | lists of instances, physical devices, devices, surfaces, swapchains; generations | create, destroy, enumerate | the driver reuses handle values; insertion races; surfaces die with the instance |
| **m** readback, `vulkan/compat/readback_submit.c` | submissions, fences, completion lock | submit, wait, query, reset, destroy, idle | fences signalled while other threads submit; invalidation before the application reads, and not before the GPU has written |
| **m** bionic synchronisation, `hybris/common/bionic_sync.c`, `bionic_cond.c` | words with a static initializer or a host object | lock, unlock, wait, signal, broadcast, init, destroy | first use by several threads; busy destruction; a wait that reads two words one after the other |
| **m** bionic TLS, `hybris/common/bionic_tls.c`, `q/linker_tls.cpp` | arena and replay cursor per thread, registry of promoted modules, module table | hook, resolver, thunk, dlopen, promotion, dlclose, thread exit with key destructors | modules promoted between two hooks; Android code in destructors; recycled module slots |
| **-** EGL windows, `egl/platforms/fbdev`, `hwcomposer` | ring of buffers, free count, condition variable | dequeue, queue, cancel, resize, destroy | presenter and renderer wait for each other |
| **-** BC textures and other command rewriting, `vulkan/compat/bc_*.c`, `null_descriptors.c`, `dynamic_rendering.c` | per command buffer: bound state to restore | begin, bind, draw, copy, reset, submit | state saved, replaced and restored in any order of commands |
| **-** legacy properties, linker bridge, gralloc, Wayland EGL server | caches, once-only selections, handle assembly | get, set, refresh; select; allocate, release | stale cache, failure half way |
| **-** Android linkers, SPIR-V rewriting, HAL, camera, media shims, EGL/GLES/OpenCL forwarding | tables, ELF images | load, relocate, forward | see section 8 |

How they interact: an application calls the Vulkan ICD; `instance.c`,
`device.c` and `wsi.c` find the objects; `swapchain.c` drives one native window
per surface through the table of functions in `native_window.h`; a window
presents to a display server, which gives buffers back by events. The
compatibility layer sits between the application and the driver and follows
submissions and fences. Below all of them lies the loader of Android libraries
with its synchronisation and TLS hooks.

## 2. Modules

| module | contents |
|---|---|
| `BufferQueue` | what a native window promises to `swapchain.c`: a buffer is with the application, queued, on display or idle; only idle buffers are handed out; presents happen in queue order |
| `X11Window` | the X11 window in detail; `ImplementsBufferQueue` is the refinement |
| `X11WindowProofs` | proofs about `X11Window`: the inductive invariant, `drain()`, the calls of the application, the presenter, the theorems and the refinement |
| `Swapchain`, `SwapchainProofs` | the swapchains of one surface above any window, and the proofs |
| `HeadlessWindow`, `HeadlessWindowProofs` | the headless window, and the proofs |
| `WaylandWindow`, `WaylandWindowProofs` | the Wayland window, its event queue and the compositor; `ImplementsBufferQueue` is the refinement; the proofs |
| `IcdRegistry`, `IcdRegistryProofs` | instances, physical devices, devices, surfaces and swapchains as registries, and the proofs |
| `ReadbackSubmit`, `ReadbackSubmitProofs` | submissions and their completion, and the proofs |
| `BionicSync`, `BionicSyncProofs` | bionic mutexes, rwlocks and condition variables, and the proofs |
| `BionicTls`, `BionicTlsProofs` | thread-local storage of Android code, and the proofs |
| `MC...` | the symmetry sets and constants for TLC, one per component |

### X11Window and native_window_x11.cpp

One action is one critical section of `Owner::mutex`. Where a function drops
the lock, the model has a program counter: `wpc` for the presenter
(`top`, `waiting` on `work_ready`, `present` before the lock is taken,
`checking` during the server round trip of `check()`, `finish` before the
presenter takes the lock again), `dis` for a thread waiting on `idle`, `deq`
for a `dequeue()` without deadline between two of its turns. A `dequeue()` with
a deadline may give up after every turn, so each of its turns is a call of its
own.

- `pending` is the list of `Pending` records; the linked order does not matter
  to the code. `work` is the submission list and keeps its order.
- `drain()` is part of every action whose handler calls it.
- `refs` is the atomic reference count. The holders are the pool, a submission,
  the presenter's current submission, a pending present and the imported image
  of `swapchain.c` (`imported`).
- `serial` counts modulo `MaxSerial + 1` in place of 2^32.
- The X server (`ServerAccept`, `ServerReject`, `ServerRelease`) and a broken
  connection are the environment. A request that was accepted can be released
  before `check()` has returned.
- The callers are the most general ones that keep to the contract of
  `swapchain.c`.
- File descriptors of fences, sizes, formats and strides are left out.
  `extent()` changes no state.

### Swapchain and swapchain.c

Images are named by the native buffer they import. Vulkan requires the
application to serialise calls on one swapchain, so a handler is one action.
`vkQueuePresentKHR` is split into one action per entry, because calls on other
swapchains can come between its entries. The window is reduced to its pool, the
buffers held by the caller and the submissions on display. `AcceptsRetired`
tells whether `queue()` takes a buffer of an earlier pool: Wayland and headless
do, X11 answers `-EINVAL`. `CreateRefused`, `CreateConfigureFails` and
`CreateImportFails` are the three places where a creation gives up, after the
old swapchain was already retired.

### HeadlessWindow and native_window_headless.cpp

One action is one critical section of `Owner::mutex`. `pc` is a thread's place in
`dequeue()`: outside, waiting on the condition variable, or woken and about to
take the mutex again; `limit` tells a poll, a deadline and an endless wait
apart. `release()` serves both queue and cancel: it stores the GPU's fence in
the buffer and signals one waiter. Descriptor numbers are reused once closed
(`open`), so closing twice or keeping a closed one shows. `last` is a history
variable: the fence the previous owner gave back.

### WaylandWindow and the Wayland window

A call keeps the window's mutex while it waits for events, so one call is in
progress (`call`). Between its steps the compositor sends events to the socket,
another queue's reader moves them to the window's queue, and the driver drops
references. A dispatch takes one action per event. `shown`, `current` and
`frameDue` are the compositor's side: what it reads, the last commit, and the
frame callback it owes. `broken` is a lost connection. `connected` is true while
`swapchain.c` uses the pool it configured. `create_swapchain()` disconnects the
window before it configures it (`swapchain.c:281`), also a window that was just
constructed, so `Configure` starts from an empty list. The shrinking branch of
`setBufferCount()` and the replacement of a buffer of the wrong size or format in
`dequeueBufferTimeout()` are not reached through the ICD and have no action.
`Submitted` is the abstract queue of submissions: a buffer is in it while its
`queueBuffer()` is in progress, until the commit gives it to the compositor or
`-EPIPE` leaves it with `swapchain.c`.

### IcdRegistry and instance.c, device.c, wsi.c, swapchain.c

The driver chooses handle values and reuses one as soon as its object is
destroyed; so does `malloc` for surfaces. A generation tells the objects behind
one value apart. A call takes one action per critical section or driver call
(`at` is the thread's step), so calls of other threads come between. The guards
of a call's first action are Vulkan's rules of external synchronisation and
nothing else. A list is a set, except that `remembered` counts how often a
physical device is entered.

### ReadbackSubmit and readback_submit.c

A submission is its serial. One action is one critical section of `guard` or one
call of the driver. `completing` is the holder of `completion_guard`, `work`
what a completing thread has detached from the list. The GPU executes the
accepted submissions of a queue in order; a fence signals when the submission it
belongs to is done; an invalidation may fail and is retried by the next wait.
`complete_fences()` asks for the fence's status again once it has the lock: signalled
(`Lock`), not ready, as a fence that is reset without having been submitted is
(`NotReady`), or an error (`StatusFails`). `vkDeviceWaitIdle` is an idle call for the
queue `None`, which stands for all.
`must` records, when the driver reports a completion, which submissions that
covers. The recording of the written ranges is reduced to the submission itself.

### BionicSync and bionic_sync.c, bionic_cond.c

A word holds `Static` or a host object. A call reads the word (`real`), publishes
an object of its own by compare-and-swap if it was static, and then works on the
host object, each in an action of its own. A wait reads the condition's word,
then the mutex's. `holds` is a history variable per word: who has locked it
according to the results of the calls. The host's pthread objects are the
environment, with their POSIX meaning, spurious wakeups included. Recursive and
error-checking kinds are left out, and so is a thread that takes a read lock it
already has. Objects are destroyed beside no other call. For a condition this is
stricter than POSIX, which lets it go once all waiters are woken, and than the code,
which clears the count of waiters for programs that leave some asleep.

### BionicTls and bionic_tls.c, linker_tls.cpp

A thread owns an arena (`key`, `tp`) with one cell per reserved offset and a
`cursor` into the registry of promoted modules. `GetTls` is the path of every
hook: map and prepare the arena if the thread has none, replay the modules
behind the cursor, then give access. `Thunk` is the fast path of rewritten code,
`Resolve` that of TLS descriptors. `Dlopen`, `Promote`, `Publish`, `Linked`,
`LinkFails` and `Dlclose` are the linker under its lock; promotion appends to the
registry before the count that other threads read is stored. A library refers to
variables of its own, so `Promote` is of the library being loaded; the linker
promotes the library that defines the symbol, which may be an earlier one, and
perhaps several in one `dlopen()`. `Exit` to `Gone` are
the rounds of key destructors: the arena is unmapped, and destructors that run
Android code after that make a new one. A cell's content is abstract: zero,
the initial data, or the thread's own write.

## 3. What would come next

- `RingWindow`: the fbdev and hwcomposer windows of EGL, three buffers, a renderer
  and a presenter.
- Compositions: `Swapchain` over a detailed window, in place of the reduced window
  it has now; the fence of `HeadlessWindow` together with the image state of
  `Swapchain`.
- `MemoryVisibility`: the mapped ranges below `ReadbackSubmit`, with the
  arithmetic of atom sizes against a reference definition.
- The process-shared region of `hooks_shm.c` below `BionicSync`.
- The replay of bound state in `bc_record.c`.

## 4. Runs

| run | instance | checks | result |
|---|---|---|---|
| `x11_safety` | 3 buffer identities, pools of 2, serials 1..3, dequeues with deadline, symmetry on buffers | `ExclusiveOwnership`, `OwnedStaysHeld`, `RefCountExact`, `PendingSerialsDistinct`, `NoReleaseLost`, `PoolOutlivesWork`, `ImplementsBufferQueue` | holds, 627,694 states |
| `x11_liveness` | 2 buffers, serials 1..2, dequeues without timeout | `SubmissionsPresented`, `CallsReturn`, `ReleaseEndsDequeue` | holds, 123,540 states |
| `swapchain_safety` | 4 buffers, 2 swapchains, 2 images each, window accepts retired buffers | `AcquiredIsHeld`, `PoolOfLiveChain`, `WorstReported`, `RetiredLostOnlyByFault` | holds, 24,311 states |
| `swapchain_liveness` | 3 buffers, 2 swapchains, 1 or 2 images asked for, X11 rule | `AcquireRecovers` | holds, 4,740 states |
| `swapchain_x11_retired` | as `swapchain_safety`, X11 rule | `RetiredLostOnlyByFault` | violated, finding 1 |
| `swapchain_wayland_cancel` | as `swapchain_safety` | `CancelsPoolBuffers` | violated, finding 2 |
| `headless` | 3 buffers, pools of 2, 2 threads, 2 fences | `FencesOwnedOnce`, `DependencyKept`, `WaitersWake` | holds, 315,106 states |
| `wayland` | 3 buffers, initial pool of 3, pools of 2, symmetry on buffers | `FreeCountExact`, `ExclusiveOwnership`, `RefsExact`, `ReleasesTracked`, `CreationSettled`, `FramePending`, `ImplementsBufferQueue` | holds, 995,222 states |
| `icd_registry` | 2 threads, 2 values of every kind of handle, generations 1..3, symmetry | `RegistryMatchesDriver`, `PhysicalsOnce`, `WindowsOwnedOnce`, `DependentsLive` | holds, 304,936 states |
| `readback` | 2 threads, 2 queues, 1 fence, 2 submissions | `OwnWritesVisible`, `EarlierWritesVisible`, `RefsExact`, `InvalidatedAfterExecution`, `CompletionReturns` | holds, 205,845 states |
| `bionic_sync` | 3 threads, 1 mutex, 1 rwlock, 1 condition, 4 host objects, symmetry | `MutualExclusion`, `ReachedThroughWord`, `ObjectsOwnedOnce` | holds, 31,814 states |
| `bionic_tls` | 2 threads, 2 arenas, 2 loads, 2 rounds of destructors, symmetry | `OwnValue`, `ArenasOwned`, `ReservationsPermanent` | holds, 1,171,056 states |

The type invariant of a module is a conjunct of one of the properties named.

**Bounds.** Two buffers in a pool make every case of the search happen (taken,
skipped, none free); the third identity is a buffer of the next pool, so an old
submission, fence or release meets a new pool. Three serials wrap while two
presents are in flight. Four buffers allow a retired and a live swapchain with
two images each. In `swapchain_liveness` three are enough for what matters
there: a swapchain that waits while the display still holds an image of a
destroyed one. Three generations let a handle value be reused while the other
thread still works on its predecessor, and one creation more meets the end of
the counter. Two submissions make an earlier one without a fence, on the same
queue or the other, and a retry. Two loads let a slot be recycled and a thread
miss a promotion; with two rounds of destructors Android code runs before and
after the cleanup, and in a last round. Symmetry is used only where no liveness
is checked.

**Deadlock** is checked in every run. The only state in which the X11, headless
and Wayland windows stop is the one after `destroy()`, which an action repeats.

**Fairness.** X11: the presenter runs whenever it can (`WF(WorkerNext)`), the
server answers the request that `xcb_request_check` waits for, and a thread whose
wait is over goes on (`DisconnectResume`, `DestroyFinish`, a dequeue's turn).
Nothing obliges the application to call, or the server to release a buffer: a
`dequeue()` without timeout returns only if a release arrived.
`AcquireRecovers` assumes that the display gives back what it has replaced and
that a present that has started runs to its end; the newest submission may stay
on display for ever, which is why one image is not enough. Headless: a thread
that was woken gets the mutex and takes its turn. Readback: a thread inside a
completing call goes on, and one that asks for `completion_guard` again and again
gets it in the end (`SF(Lock \/ NotReady)`): a mutex is not granted to others for ever.

**Mutants.** A definition named `Fault...` is a wrong variant of the definition
after it; each property is violated when one of them takes its neighbour's
place. For instance, without the `checked` test of `drain()` the release of a
present that is still being checked frees its record (`ExclusiveOwnership`), and
a replay that starts at the first entry overwrites live variables (`OwnValue`).

## 5. What the properties say

X11 window:

- `ExclusiveOwnership`: a buffer the application draws into is neither waiting,
  nor on its way to the server, nor held by it.
- `OwnedStaysHeld`: `present_worker()` clears `held` after `present()` has
  failed, in a second critical section. No `dequeue()` can have handed out the
  buffer in between, because a failed present sets `asynchronous_error` first.
- `RefCountExact`: the count is the number of holders.
- `PendingSerialsDistinct`: serials differ although the counter wraps.
- `NoReleaseLost`: a release that arrives while `check()` is waiting is
  remembered, whichever thread drains it.
- `PoolOutlivesWork`: `disconnect()` drops no pool under a submission.
- `SubmissionsPresented`, `CallsReturn`, `ReleaseEndsDequeue`: no lost signal, no
  lost broadcast; disconnect and destroy end.

Swapchains:

- `AcquiredIsHeld`: `present_one()` marks a rejected and cancelled image
  `IMAGE_FREE`, and `acquire_slot()` hands out `IMAGE_FREE` images without asking
  the window. Only the sticky presentation status keeps this sound.
- `PoolOfLiveChain`: the pool is what the live swapchain imported, after every
  sequence of failed replacements and destructions.
- `WorstReported`, `AcquireRecovers`: the result of a present of several
  swapchains; a swapchain with at least two images gets one back.

Headless window:

- `FencesOwnedOnce`: every open descriptor is in one buffer or with one caller.
- `DependencyKept`: whoever gets a buffer gets the fence its previous owner left.
- `WaitersWake`: one signal per release is enough; no thread sleeps beside a free
  buffer or a dropped pool.

Wayland window:

- `FreeCountExact`: `m_freeBufs` counts the listed buffers that are not busy,
  although releases of dropped pools arrive late.
- `ExclusiveOwnership`, `RefsExact`, `ReleasesTracked`: as for X11; a release that
  will be dispatched is for a fronted buffer (an assertion of the code).
- `CreationSettled`: `destroyBuffer()` dispatches events as long as the creation of
  its buffer is unconfirmed. Inside the walk of `apiDisconnect()`, or called from a
  dispatch by `releaseBuffer()`, it never has to.
- `FramePending`: what a present waits for is on its way.
- `ImplementsBufferQueue`: what X11 promises, the Wayland window promises too. A
  submission that fails goes back to the application (`Reject`), where X11 reports
  the failure later and gives it up (`Discard`).

Registries:

- `RegistryMatchesDriver`: an entry is of the driver's present object at its
  handle, and no driver object is lost on an error path.
- `PhysicalsOnce`: two enumerations at a time enter a physical device once.
- `WindowsOwnedOnce`, `DependentsLive`: teardown of an instance or a device
  releases what depends on it once, and nothing of a successor with its handle.

Readback:

- `OwnWritesVisible`, `EarlierWritesVisible`: a call that reports a completion
  returns after the invalidation, also when another thread does it.
- `InvalidatedAfterExecution`: never before the GPU has written.
- `RefsExact`, `CompletionReturns`.

Bionic synchronisation and TLS:

- `MutualExclusion`: by what the calls answered, through the words, however many
  threads use an object first.
- `ReachedThroughWord`: an unlock or signal goes to the object that was locked or
  is slept on. `ObjectsOwnedOnce`: a host object is behind one word, none leaks.
- `OwnValue`: a thread finds its own last write, or the initial data.
- `ArenasOwned`: Android code runs in a complete arena of its own thread.
- `ReservationsPermanent`: a static slot is never recycled; the CHECKs of the
  module table hold.

## 6. Findings

1. `swapchain.c:380` and `tests/wsi/swapchain-review.md:23` say that images
   acquired before a swapchain was retired may still be presented. Above the X11
   window they cannot: retirement disconnects the window, that drops the pool,
   `queue()` refuses the buffer, and the retired swapchain is marked
   `VK_ERROR_SURFACE_LOST_KHR` although the surface works.
2. `wayland_window_common.cpp:341-347` asserts that a cancelled buffer is in the
   list of the window. When presenting an image of a retired swapchain fails,
   `present_one()` cancels a buffer that left that list at retirement.

Behaviour met while modelling that bounds what the properties claim, without a
run of its own:

- Wayland teardown. `destroyBuffers()` (`wayland_window_common.cpp:475`) walks a
  list while `destroyBuffer()` (446) dispatches events, and `releaseBuffer()`
  (258-273) can drop the buffer that is being destroyed. `RefsExact`,
  `ReleasesTracked` and `CreationSettled` therefore speak about the time before
  destruction.
- A device destroyed before its swapchains, which Vulkan does not allow.
  `hybris_icd_swapchain_release_device()` (`swapchain.c:639-664`) drops their images
  without disconnecting the window, so the window can be destroyed with shown buffers
  in its list. `Destroy` assumes that swapchains are destroyed first.
- Readback retry. When the invalidation of an earlier submission fails, only that
  one returns to the list (`readback_submit.c:124-132`), without a submission
  carrying the fence behind it, so a second wait on that fence succeeds without
  it. `EarlierWritesVisible` is stated as long as no invalidation has failed;
  `OwnWritesVisible` holds in every case.
- Inline TLS accesses bypass the replay (`bionic_tls.c:300-311`, where a comment
  says so). `OwnValue` leaves out a module the thread used inline before its
  replay reached it.
- An arena touched in the last round of destructors is never unmapped
  (`bionic_tls.c:91`); `ArenasOwned` speaks about every other one.

## 7. Proofs

TLAPS checks the following for every value of the constants. The assumptions are
the named `ASSUME`s: `NoBuffer`, `NoFence`, `NoChain`, `Static` and `None` are no
members; pool sizes are 2 to 8 (what `configure()` accepts); the Wayland
window starts with any number of buffers (`CountAssumption`); `MaxSerial` and
`MaxGen` are positive numbers; timeouts are of the known kinds; `AcceptsRetired`
is Boolean; mutexes,
rwlocks and conditions are different words; `MaxLoads` is a number and
`MaxRounds` a positive one.

**X11 window.** The safety properties are not inductive. That the presenter's
late write is harmless depends on where its buffer can be at each of its steps
(`WorkerInv`), on what is pending and for whom (`PendingInv`), on the flags of
queued buffers (`PoolInv`, `WorkInv`), on what the application holds (`AppInv`)
and on what the server can still do (`ServerInv`). `IInv` is their conjunction
with `TypeOK` and `RefCountExact`. `drain()` occurs in six actions, so its effect
on each part is a set of lemmas (`DrainedPendingFacts`, `DrainedFlagFacts` and
others) that the lemmas on those actions cite. `NextIInv` collects one lemma per
action. `InvariantHolds` gives `OwnershipSafe`, `NoDoubleDequeue`,
`ReferencesExact`, `SerialsDistinct`, `ReleasesKept` and `PoolKept`. `Refinement`
proves that every step is a step of `BufferQueue` or changes none of its
variables, under the mapping: `app` is `owned`, `display` is what the server
holds, `fifo` is the work list with the presenter's submission in front until
the server has accepted it.

**Swapchain.** `IInv` adds to the properties: at most one swapchain is live, the
entries of a present in progress are different acquired images, and what the
caller holds is not on display. `InvariantHolds` gives `TypeCorrect`,
`AcquiredSafe`, `FreeSafe` (an image handed out without asking the window is one
the window has given out) and `PoolMatches`. `RetirementFinal` is an action
property: a retired swapchain acquires nothing. `WorstIsReported` has an
invariant of its own. `RetiredStaysPresentable` proves `RetiredLostOnlyByFault`
for windows that take buffers of an earlier pool (`AcceptsRetired`), as Wayland
and headless do; for X11 it is false (finding 1).

**Bionic synchronisation.** `IInv` adds `WordInv` (a host object is behind exactly
one word in use, and holds what the word's calls were granted) and, per thread,
`CallInv` (what a call has read is still what the word says when it matters: a
word in use does not change under a call, because publication replaces only the
initializer and nobody destroys an object beside another call). It gives
`Exclusion`, `Reached` and `OwnedOnce`.

**Bionic TLS.** `IInv` adds `LinkerInv` (the registry lists the offsets in the
order of their reservation, relocations hold published ones, module ids name
their own slot), `ArenaInv` (thread pointer and key agree, no arena is shared,
the mapped ones are those of the keys), `CallInv` (who holds the linker's lock,
and for which library) and `ValueInv` (below its cursor a thread has its own
values, above it nothing was written but inline). Steps of the linker and of
thread exit are proved for the thread that takes them and then for the others,
whose part changes only through the registry. It gives `ValuesKept`,
`ArenasSafe` and `TableSafe`.

**Headless window.** A descriptor is in one place (`Apart`), and the open ones are
those in some place (`OpenExact`). What a dequeue takes depends on `Custody`: a
fence that was taken belongs to a buffer that is still held, a buffer that exists
and is held was dequeued, and a free one still has the fence it came back with.
`IInv` adds that finitely many descriptors are open, which the count in
`FencesOwnedOnce` needs; the sets of buffers, threads and descriptors may be
infinite. It gives `FencesAlwaysOwnedOnce`, and the action property
`DependencyAlwaysKept`.

**Readback.** A completion is reported to one thread, detached by another and
invalidated by a third, so what a call may return depends on how far every call
has got. `ReportInv` says it for a call that reports (what the driver reported is
still to detach, detached by this call, or visible), `SubmitInv` and `CallInv` for
a submission in progress and for the holder of `completion_guard`, `Apart` what
external synchronisation keeps apart (an idle device from every submission),
`DriverInv` that an accepted submission is
in the list, detached or visible. `OrderInv` (without a failure submissions leave
the list in the order of their queue) carries `EarlierWritesVisible`, `ExecInv`
(what has left the list was executed) carries `InvalidatedAfterExecution`, and
`RefInv` counts the references without a set of submitters. `CountsExact` turns
that into `RefsExact`, because a submission has one submitter. It gives
`RefsAlwaysExact`, `OwnWritesAlwaysVisible`, `EarlierWritesAlwaysVisible` and
`AlwaysInvalidatedAfterExecution`.

**Registries.** `IInv` says for instances, and in the same way for devices, that a
generation is behind one handle, and that its driver object is in the list or with
one thread (`InstInv`, `InstThreads`, `DevInv`, `DevThreads`). An instance is not
unlinked under a call that uses it (`UserInv`) or under a device, made or being
made (`ParentInv`). `PhysInv` says that what is remembered is the driver's; the
second check of `remember_physical()` keeps the entry single. `WindowInv` gives
each native window one holder, `SurfaceInv` each surface its instance or the
thread that is about to release it, `ChainInv` each swapchain a device and a
surface of one instance, of which no thread takes the device off the list. The
point of the argument is `OrphansExact`: `hybris_icd_wsi_release_instance()`
selects surfaces by handle value, after the instance has left the list and while
others can be created. The selected ones are those of its generation, since the
driver cannot reuse the value before its own `vkDestroyInstance`, which comes
last. A step moves one thread; lemmas `Frame...` carry each part over a step that
does not touch it, and a lemma per part and kind of step does the rest. It gives
`RegistryAlwaysMatchesDriver`, `PhysicalsAlwaysOnce`, `WindowsAlwaysOwnedOnce` and
`DependentsAlwaysLive`.

Each of these three invariants was checked with TLC before it was proved, on the
instance of its run (headless 315,106 states, readback 205,845, registries
304,936), and the registries with 3 threads on 34,407.

**Wayland window.** Every property here is about a count or a place that a late
event can spoil, so `IInv` says where a buffer can be. `PlaceInv`: what the
compositor has is fronted, and busy if it is of the list. `WireInv`: a release
under way, in the socket or in the window's queue, is the only one of its buffer,
which is fronted and no longer shown; so a dispatch frees a busy buffer of the list
or destroys one of an earlier pool, and neither happens twice. A busy buffer of the
list is with somebody who gives it back, unless the connection is lost or the pool
was given up (`Unsure`). `PoolInv`: the free count is exact, and an empty list leaves
no buffer busy for the next pool. `FrameInv` follows the frame event over the two
queues. `Exact` is the reference count per buffer. While the window is being
destroyed `Whole` (place, wire, references) gives way to `Torn`, because the walk
of `destroyBuffers()` may destroy a buffer a second time (section 6); count, pool
and frame are still proved there, and so is the refinement.

Three kinds of lemma carry the proof. What a queue contains after an event was
taken, added, read from the socket or destroyed with its buffer (`TailEffect` to
`NoFrameEffect`): destruction filters a queue by a recursive function, whose effect
is proved by induction on the length (`RemainingEffect`). The library's induction
theorems have an operator as parameter; the induction here is on a set of numbers
instead, from the least member that a nonempty set has (`Least`, `UpTo`). What the
list of buffers contains, and how many of them are not busy (`ListCount` to
`FirstEffect`). And one lemma per action (`ReadInv` to `CallStepsInv`), which
`NextInv` collects. `InvariantHolds` gives `FreeCountIsExact`,
`OwnershipIsExclusive`, `RefsAreExact`, `ReleasesAreTracked` and `FrameIsPending`.

`CreationIsSettled` has an invariant of its own on top, `CreateInv`: a buffer whose
creation is unconfirmed is fronted, and the confirmation is on its way with no release
of the buffer before it (`Settling`). The order matters over both queues: a commit
appends to the socket, a read moves the socket behind the queue, a dispatch takes the
first event (`TailLeads`, `ConcatLeads`, `AppendLeads`). A release cannot be ahead of
the confirmation because the compositor releases what it shows, and it shows a buffer
only after the commit that sent the request for the confirmation.

`Refinement` proves that every step is one of `BufferQueue` or changes none of its
variables: `app` is what `swapchain.c` owns and is not submitting, `fifo` is
`Submitted`, `display` is `shown`. That `Dequeue` hands out an idle buffer needs
`PlaceInv` (a shown or owned buffer of the list is busy). Destroying several shown
buffers at a time would be several steps of `BufferQueue`; `Whole` shows that it does
not happen: what the list holds at a disconnect and is not fronted is not shown, and
a window without swapchain has shown none of its list.

`IInv` and `CreateInv` were checked with TLC first, on the instance of the run
(995,222 states).

**Only model-checked.** Liveness under fairness (`SubmissionsPresented`,
`CallsReturn`, `ReleaseEndsDequeue`, `AcquireRecovers`, `WaitersWake`,
`CompletionReturns`), which this prover cannot treat: it has no rules for `ENABLED`
and fairness. Every invariant and every action property that a passing run checks
is proved.

## 8. Not modelled, and why

Most of the repository's C and C++ is vendored or forwards calls, so the models
cover a small share of its lines although they cover the parts with state of
their own that threads share.

- Vendored Android linkers: ELF loading and relocation on real memory. Of the q
  linker the module table of TLS is modelled.
- SPIR-V and shader rewriting: transformations of large binaries.
- HAL, camera, media, sensor and input shims, EGL, GLES and OpenCL entry points,
  the layer's dispatch tables: tables of forwarded functions without state of
  their own.
- `libsync`: system calls without state.
- Command rewriting (BC textures, null descriptors, dynamic rendering, polygon
  mode): the state is the recorded Vulkan state of a command buffer, whose
  properties are about data rather than order.
- EGL windows, legacy properties, linker bridge, gralloc, Wayland EGL server:
  within reach, not done; see section 3.
- In the modelled parts. Swapchain: fence descriptors, wait semaphores, image
  sizes and formats. Wayland: `dequeueBuffer()` and `readQueue()`, which only EGL
  calls, damage, and the branches for a pool that shrinks or whose buffers no longer
  fit (section 2). Registries: capability and extension queries, the once-only
  opening of the HAL. Readback: which ranges a submission writes, and
  `hybris_readback_release_submissions()` (`readback_submit.c:174-181`), which frees
  the records of a device that is being destroyed; the model has one device, which is
  not. Bionic
  synchronisation: process-shared handles, words shared with Android, attributes
  and kinds, semaphores, repeated read locks of one thread, and a condition that is
  destroyed while waiters sleep on it or leave it, which is up to glibc. Bionic TLS:
  finding and patching instructions, the encoding of thunks, segment sizes, promotion
  of a library other than the one being loaded. Everywhere: the wording of log messages.
