--------------------------- MODULE ReadbackSubmit ---------------------------
(***************************************************************************)
(* Readback tracking of the Vulkan compatibility layer, hybris/vulkan/     *)
(* compat/readback_submit.c: the layer remembers the memory each           *)
(* submission writes, and invalidates the host's view of it before a call  *)
(* that tells the application of the completion returns.                   *)
(*                                                                         *)
(* A submission is named by its serial.  The driver, the GPU and the       *)
(* fences are the environment; the first guard of each call is Vulkan's    *)
(* rule of external synchronisation.  One action is one critical section   *)
(* of guard or one call of the driver; a call names one fence.  One device *)
(* that is not destroyed: hybris_readback_release_submissions() is left    *)
(* out.  A definition named Fault... is a wrong variant of the one after   *)
(* it; no action uses it.                                                  *)
(***************************************************************************)
EXTENDS Integers, FiniteSets

CONSTANTS
  Threads, Queues, Fences,
  None,        \* VK_NULL_HANDLE
  MaxSerial    \* UINT64_MAX in the code

ASSUME NoneAssumption == None \notin Threads \cup Queues \cup Fences
ASSUME SerialAssumption == MaxSerial \in Nat \ {0}

VARIABLES
  submissions,                      \* the list, as a set of serials
  queueOf, fenceOf, refs, cancelled, \* fields of a submission
  nextSerial,
  completing,        \* the thread that holds completion_guard
  pc, op, serial, fence, queue, work, result,  \* a thread's call and its locals
  accepted, done,    \* driver: submissions it took, and has executed
  signaled, pending, \* driver: signalled fences; the submission a fence is for
  visible,           \* submissions whose writes the host has invalidated
  must,              \* those the thread's call reports as complete
  failed             \* an invalidation has failed

subVars == <<submissions, queueOf, fenceOf, refs, cancelled, nextSerial>>
callVars == <<completing, pc, op, serial, fence, queue, work, result, must>>
driverVars == <<accepted, done, signaled, pending>>
vars == <<subVars, callVars, driverVars, visible, failed>>

Serials == 1..MaxSerial

\* Serials do not wrap, and a submission is in the list or with one completing
\* thread, not both.
TypeOK ==
  /\ nextSerial \in 0..MaxSerial /\ submissions \subseteq Serials
  /\ fenceOf \in [Serials -> Fences \cup {None}]
  /\ queueOf \in [Serials -> Queues \cup {None}]
  /\ refs \in [Serials -> 0..2] /\ completing \in Threads \cup {None}
  /\ \A t \in Threads : work[t] \cap submissions = {}

Init ==
  /\ submissions = {} /\ nextSerial = 0
  /\ queueOf = [s \in Serials |-> None] /\ fenceOf = [s \in Serials |-> None]
  /\ refs = [s \in Serials |-> 0] /\ cancelled = [s \in Serials |-> FALSE]
  /\ completing = None
  /\ pc = [t \in Threads |-> "idle"] /\ op = [t \in Threads |-> "none"]
  /\ serial = [t \in Threads |-> 0] /\ fence = [t \in Threads |-> None]
  /\ queue = [t \in Threads |-> None] /\ work = [t \in Threads |-> {}]
  /\ result = [t \in Threads |-> "ok"] /\ must = [t \in Threads |-> {}]
  /\ accepted = {} /\ done = {} /\ signaled = {}
  /\ pending = [f \in Fences |-> 0] /\ visible = {} /\ failed = FALSE

Goto(t, l) == pc' = [pc EXCEPT ![t] = l]
Calling(t, o) == pc[t] # "idle" /\ op[t] = o
Matches(q, r) == q \in {None, r}   \* q is r, or stands for all queues
Queueing(t) == pc[t] # "idle" /\ op[t] \in {"submit", "queue_idle"}
UsesQueue(t, q) == Queueing(t) /\ Matches(queue[t], q)
UsesFence(t, f) == pc[t] # "idle" /\ op[t] # "queue_idle" /\ fence[t] = f

\* a thread enters a call with its arguments
Call(t, o, l, s, f, q, m) ==
  /\ op' = [op EXCEPT ![t] = o] /\ Goto(t, l)
  /\ serial' = [serial EXCEPT ![t] = s] /\ fence' = [fence EXCEPT ![t] = f]
  /\ queue' = [queue EXCEPT ![t] = q] /\ must' = [must EXCEPT ![t] = m]
  /\ result' = [result EXCEPT ![t] = "ok"]
  /\ UNCHANGED <<completing, work>>
Leave(t) == Call(t, "none", "idle", 0, None, None, {})

Release(s) == refs' = [refs EXCEPT ![s] = @ - 1]

-----------------------------------------------------------------------------
(* queue_submit(), queue_submit2() *)

Exhausted == nextSerial = MaxSerial
FaultReferences == 1
References == 2

\* create() and publish(), before the driver sees the submission
Submit(t, q, f) ==
  /\ pc[t] = "idle" /\ \A u \in Threads : ~UsesQueue(u, q)
  /\ f # None => /\ f \notin signaled /\ pending[f] = 0
                 /\ \A u \in Threads : ~UsesFence(u, f)
  /\ ~Exhausted
  /\ LET s == nextSerial + 1 IN
     /\ nextSerial' = s /\ submissions' = submissions \cup {s}
     /\ queueOf' = [queueOf EXCEPT ![s] = q] /\ fenceOf' = [fenceOf EXCEPT ![s] = f]
     /\ refs' = [refs EXCEPT ![s] = References]
     /\ Call(t, "submit", "driver", s, f, q, {})
  /\ UNCHANGED <<cancelled, driverVars, visible, failed>>

SubmitRefused == Exhausted /\ UNCHANGED vars

\* the driver takes the submission, or fails; a lost device signals the fence
SubmitDriver(t) ==
  /\ Calling(t, "submit") /\ pc[t] = "driver"
  /\ LET s == serial[t]
         f == fence[t]
     IN \/ /\ accepted' = accepted \cup {s}
           /\ pending' = IF f = None THEN pending ELSE [pending EXCEPT ![f] = s]
           /\ Goto(t, "release") /\ UNCHANGED signaled
        \/ /\ signaled' \in {signaled, signaled \cup ({f} \ {None})}
           /\ Goto(t, "failed") /\ UNCHANGED <<accepted, pending>>
  /\ UNCHANGED <<subVars, completing, op, serial, fence, queue, work, result, must,
                 done, visible, failed>>

\* submitted(): the failed submission leaves the list, if it is still there
SubmitFailed(t) ==
  /\ Calling(t, "submit") /\ pc[t] = "failed"
  /\ cancelled' = [cancelled EXCEPT ![serial[t]] = TRUE]
  /\ submissions' = submissions \ {serial[t]}
  /\ Goto(t, IF serial[t] \in submissions THEN "detached" ELSE "release")
  /\ UNCHANGED <<queueOf, fenceOf, refs, nextSerial, completing, op, serial, fence,
                 queue, work, result, must, driverVars, visible, failed>>

SubmitDetached(t) ==
  /\ Calling(t, "submit") /\ pc[t] = "detached"
  /\ Release(serial[t]) /\ Goto(t, "release")
  /\ UNCHANGED <<submissions, queueOf, fenceOf, cancelled, nextSerial, completing, op,
                 serial, fence, queue, work, result, must, driverVars, visible, failed>>

SubmitRelease(t) ==
  /\ Calling(t, "submit") /\ pc[t] = "release"
  /\ Release(serial[t]) /\ Leave(t)
  /\ UNCHANGED <<submissions, queueOf, fenceOf, cancelled, nextSerial, driverVars,
                 visible, failed>>

-----------------------------------------------------------------------------
(* wait_fences(), fence_status(), reset_fences(), queue_idle(), device_idle(): *)
(* the driver's call has succeeded, and complete_fences() or complete_idle()   *)
(* begins                                                                      *)

Upto(q, s) == {x \in accepted : queueOf[x] = q /\ x <= s}
Covered(f) == IF pending[f] = 0 THEN {} ELSE Upto(queueOf[pending[f]], pending[f])

WaitFence(t, f) ==
  /\ pc[t] = "idle" /\ f \in signaled
  /\ \A u \in Threads : ~(Calling(u, "reset") /\ fence[u] = f)
  /\ Call(t, "wait", "lock", 0, f, None, Covered(f))
  /\ UNCHANGED <<subVars, driverVars, visible, failed>>

\* a fence that was not submitted may be reset too
ResetFence(t, f) ==
  /\ pc[t] = "idle" /\ (f \in signaled \/ pending[f] = 0)
  /\ \A u \in Threads : ~UsesFence(u, f)
  /\ Call(t, "reset", "lock", 0, f, None, Covered(f))
  /\ UNCHANGED <<subVars, driverVars, visible, failed>>

QueueIdle(t, q) ==
  /\ pc[t] = "idle" /\ \A u \in Threads : ~UsesQueue(u, q)
  /\ Upto(q, MaxSerial) \subseteq done
  /\ Call(t, "queue_idle", "lock", 0, None, q, Upto(q, MaxSerial))
  /\ UNCHANGED <<subVars, driverVars, visible, failed>>

\* device_idle()
DeviceIdle(t) ==
  /\ pc[t] = "idle" /\ \A u \in Threads : ~Queueing(u)
  /\ accepted \subseteq done
  /\ Call(t, "queue_idle", "lock", 0, None, None, accepted)
  /\ UNCHANGED <<subVars, driverVars, visible, failed>>

FaultMayLock == TRUE
MayLock == completing = None

\* complete_idle(), or complete_fences() when the fence is signalled
Lock(t) ==
  /\ pc[t] = "lock" /\ MayLock /\ fence[t] \in signaled \cup {None}
  /\ completing' = t /\ Goto(t, "detach")
  /\ UNCHANGED <<subVars, op, serial, fence, queue, work, result, must, driverVars,
                 visible, failed>>

\* complete_fences() asks for the status again under the lock: VK_NOT_READY leaves
\* nothing to do, and an error ends the call
Completed(t, r) == Goto(t, IF op[t] = "reset" /\ r = "ok" THEN "reset" ELSE "return")
NotReady(t) ==
  /\ pc[t] = "lock" /\ MayLock /\ fence[t] \notin signaled \cup {None}
  /\ Completed(t, "ok")
  /\ UNCHANGED <<subVars, completing, op, serial, fence, queue, work, result, must,
                 driverVars, visible, failed>>
StatusFails(t) ==
  /\ pc[t] = "lock" /\ MayLock /\ fence[t] # None
  /\ result' = [result EXCEPT ![t] = "error"] /\ Completed(t, "error")
  /\ UNCHANGED <<subVars, completing, op, serial, fence, queue, work, must, driverVars,
                 visible, failed>>

\* the submissions a fence covers: earlier ones of its queue, fence or not
FaultSameQueue(s, m) == TRUE
SameQueue(s, m) == queueOf[s] = queueOf[m]
Ready(f, q) ==
  IF f = None THEN {s \in submissions : Matches(q, queueOf[s])}
  ELSE {s \in submissions : \E m \in submissions :
          fenceOf[m] = f /\ SameQueue(s, m) /\ s <= m}

\* detach_completed()
DetachCompleted(t) ==
  /\ pc[t] = "detach"
  /\ LET ready == Ready(fence[t], queue[t]) IN
     /\ submissions' = submissions \ ready
     /\ work' = [work EXCEPT ![t] = ready]
  /\ Goto(t, "invalidate")
  /\ UNCHANGED <<queueOf, fenceOf, refs, cancelled, nextSerial, completing, op, serial,
                 fence, queue, result, must, driverVars, visible, failed>>

\* invalidate_completed(), one submission: its ranges are invalidated
Invalidate(t) ==
  /\ pc[t] = "invalidate"
  /\ \E s \in work[t] :
       /\ visible' = visible \cup {s}
       /\ work' = [work EXCEPT ![t] = @ \ {s}]
       /\ Release(s)
  /\ UNCHANGED <<submissions, queueOf, fenceOf, cancelled, nextSerial, completing, pc,
                 op, serial, fence, queue, result, must, driverVars, failed>>

FaultKeeps(s) == {}
Keeps(s) == IF cancelled[s] THEN {} ELSE {s}

\* or it fails: the submission returns to the list, unless it was cancelled
InvalidateFails(t) ==
  /\ pc[t] = "invalidate"
  /\ \E s \in work[t] :
       /\ submissions' = submissions \cup Keeps(s)
       /\ work' = [work EXCEPT ![t] = @ \ {s}]
       /\ IF cancelled[s] THEN Release(s) ELSE UNCHANGED refs
  /\ result' = [result EXCEPT ![t] = "error"] /\ failed' = TRUE
  /\ UNCHANGED <<queueOf, fenceOf, cancelled, nextSerial, completing, pc, op, serial,
                 fence, queue, must, driverVars, visible>>

FaultUnlocked(t) == IF result[t] = "error" THEN t ELSE None
Unlocked(t) == None

Unlock(t) ==
  /\ pc[t] = "invalidate" /\ work[t] = {}
  /\ completing' = Unlocked(t)
  /\ Completed(t, result[t])
  /\ UNCHANGED <<subVars, op, serial, fence, queue, work, result, must, driverVars,
                 visible, failed>>

\* the driver resets the fence; forget_fences() follows
Unsignal(f) ==
  /\ signaled' = signaled \ {f} /\ pending' = [pending EXCEPT ![f] = 0]
  /\ UNCHANGED <<accepted, done>>
ForgetFence(f) ==
  fenceOf' = [s \in Serials |-> IF s \in submissions /\ fenceOf[s] = f THEN None ELSE fenceOf[s]]

ResetDriver(t) ==
  /\ pc[t] = "reset"
  /\ Unsignal(fence[t]) /\ Goto(t, "forget")
  /\ UNCHANGED <<subVars, completing, op, serial, fence, queue, work, result, must,
                 visible, failed>>

ResetForget(t) ==
  /\ pc[t] = "forget"
  /\ ForgetFence(fence[t]) /\ Goto(t, "return")
  /\ UNCHANGED <<submissions, queueOf, refs, cancelled, nextSerial, completing, op,
                 serial, fence, queue, work, result, must, driverVars, visible, failed>>

Return(t) ==
  /\ pc[t] = "return" /\ Leave(t)
  /\ UNCHANGED <<subVars, driverVars, visible, failed>>

\* destroy_fence(); its handle may be used again
DestroyFence(f) ==
  /\ (pending[f] = 0 \/ f \in signaled) /\ \A u \in Threads : ~UsesFence(u, f)
  /\ ForgetFence(f) /\ Unsignal(f)
  /\ UNCHANGED <<submissions, queueOf, refs, cancelled, nextSerial, callVars, visible,
                 failed>>

\* the GPU finishes a submission; a queue's submissions finish in order
Execute(s) ==
  /\ s \in accepted \ done /\ Upto(queueOf[s], s - 1) \subseteq done
  /\ done' = done \cup {s}
  /\ signaled' = signaled \cup {f \in Fences : pending[f] = s}
  /\ UNCHANGED <<subVars, callVars, accepted, pending, visible, failed>>

Next ==
  \/ \E t \in Threads :
       \/ DeviceIdle(t)
       \/ \E q \in Queues : QueueIdle(t, q) \/ \E f \in Fences \cup {None} : Submit(t, q, f)
       \/ \E f \in Fences : WaitFence(t, f) \/ ResetFence(t, f)
       \/ SubmitDriver(t) \/ SubmitFailed(t) \/ SubmitDetached(t) \/ SubmitRelease(t)
       \/ Lock(t) \/ NotReady(t) \/ StatusFails(t) \/ DetachCompleted(t)
       \/ Invalidate(t) \/ InvalidateFails(t) \/ Unlock(t) \/ ResetDriver(t) \/ ResetForget(t) \/ Return(t)
  \/ \E f \in Fences : DestroyFence(f)
  \/ \E s \in accepted : Execute(s)
  \/ SubmitRefused

Spec == Init /\ [][Next]_vars
FairSpec ==
  Spec /\ \A t \in Threads :
    /\ WF_vars(Unlock(t) \/ DetachCompleted(t)) /\ WF_vars(Invalidate(t))
    /\ SF_vars(Lock(t) \/ NotReady(t)) /\ WF_vars(ResetDriver(t) \/ ResetForget(t) \/ Return(t))

-----------------------------------------------------------------------------
(* Properties *)

Succeeds(t) == pc[t] = "return" /\ result[t] = "ok"

\* A wait or query that reports the completion of a fence returns only after
\* the writes of the submission with that fence are visible to the host, also
\* when another thread does the invalidation, or did it and failed.
OwnWritesVisible ==
  \A t \in Threads : Succeeds(t) /\ op[t] \in {"wait", "reset"} =>
    \A s \in must[t] : (\A x \in must[t] : x <= s) => s \in visible

\* So are the writes of the earlier submissions to the queue, as long as no
\* invalidation has failed.
EarlierWritesVisible ==
  \A t \in Threads : Succeeds(t) /\ ~failed => must[t] \subseteq visible

\* A fence says nothing about other queues: no submission is taken off the list
\* and invalidated while the GPU may still write, unless a submission failed
\* and the lost device signalled its fence.
SubmitsWork ==
  \A s \in 1..nextSerial :
    s \in accepted \/ \E t \in Threads : pc[t] = "driver" /\ serial[t] = s
InvalidatedAfterExecution == SubmitsWork => visible \subseteq done

\* A submission has one reference for the list or the thread that completes it
\* and one for its submitter: it is freed once, by whoever comes last.
RefsExact ==
  TypeOK /\ \A s \in Serials : refs[s] =
      (IF s \in submissions \/ \E t \in Threads : s \in work[t]
          \/ (pc[t] = "detached" /\ serial[t] = s) THEN 1 ELSE 0)
    + Cardinality({t \in Threads : Calling(t, "submit") /\ serial[t] = s})

\* Every call that completes submissions returns.
CompletionReturns == \A t \in Threads : pc[t] = "lock" ~> pc[t] = "idle"
=============================================================================
