-------------------------- MODULE X11WindowProofs ---------------------------
(***************************************************************************)
(* The X11 native window stays correct for every set of buffers, every     *)
(* pool size and every serial range: the inductive invariant, what drain() *)
(* does, the steps of the server, of the client and of present_worker(),   *)
(* and the theorems.                                                       *)
(***************************************************************************)
EXTENDS X11Window, TLAPS

-----------------------------------------------------------------------------
(* The inductive invariant.  The safety properties are not inductive by    *)
(* themselves: that the presenter's late write of held is harmless rests   *)
(* on where its buffer may be at each of its steps, on what is pending, and*)
(* on what the server may still do about it.                               *)

PoolInv ==
  /\ \A i, j \in 1..Len(pool) : pool[i] = pool[j] => i = j
  /\ \A b \in Buffers : queued[b] => held[b]

WorkInv ==
  /\ \A i, j \in 1..Len(work) : work[i] = work[j] => i = j
  /\ \A b \in Buffers : InWork(b) =>
       held[b] /\ queued[b] /\ InPool(b) /\ b \notin owned

WorkerInv ==
  /\ Busy <=> wbuf # NoBuffer
  /\ Busy => InPool(wbuf)
  /\ wpc \in {"present", "checking"} =>
       held[wbuf] /\ queued[wbuf] /\ wbuf \notin owned /\ ~InWork(wbuf)
  /\ werr =>
       /\ wpc = "finish" /\ wbuf \notin owned /\ ~InWork(wbuf)
       /\ asynchronous_error \/ (held[wbuf] /\ queued[wbuf])
  /\ wpc = "present" \/ werr => ~IsPending(wbuf)
  /\ wpc \in {"exited", "joined"} => stopping /\ work = <<>>
  /\ wpc = "joined" => pool = <<>> /\ pending = {}

PendingInv ==
  /\ \A p, q \in pending :
       p.serial # 0 /\ (p.serial = q.serial \/ p.buffer = q.buffer => p = q)
  /\ \A p \in pending :
       /\ held[p.buffer] /\ queued[p.buffer]
       /\ p.buffer \notin owned /\ ~InWork(p.buffer)
       /\ ~p.checked => wpc = "checking" /\ wbuf = p.buffer
       /\ p.released => ~p.checked
  /\ wpc = "checking" => \E p \in pending : p.buffer = wbuf /\ ~p.checked

AppInv ==
  /\ owned \subseteq imported
  /\ OwnedStaysHeld
  /\ draining <=> dis # "none"
  /\ stopping => imported = {} /\ dis = "none" /\ deq = "none"

ServerInv ==
  /\ request # "none" => wpc = "checking"
  /\ \A o, r \in onscreen : o.serial = r.serial \/ o.buffer = r.buffer => o = r
  /\ \A o \in onscreen :
       /\ o.buffer \notin owned /\ o.serial \notin events
       /\ connection_error \/ wpc = "joined" \/ \E p \in pending :
            p.serial = o.serial /\ p.buffer = o.buffer /\ ~p.released
  /\ \A p \in pending : ~p.checked =>
       /\ request \in {"sent", "rejected"} =>
            /\ ~p.released /\ p.serial \notin events
            /\ \A o \in onscreen : o.serial # p.serial
       /\ request = "accepted" /\ ~connection_error =>
            p.released \/ p.serial \in events \/ \E o \in onscreen : o.serial = p.serial
       /\ request = "none" => connection_error
  /\ NoReleaseLost

IInv ==
  /\ TypeOK /\ PoolInv /\ WorkInv /\ WorkerInv /\ PendingInv /\ AppInv
  /\ ServerInv /\ RefCountExact

-----------------------------------------------------------------------------
\* A new window: no pool, no submission, an idle presenter.
LEMMA InitIInv == Init => IInv
<1> SUFFICES ASSUME Init PROVE IInv
  OBVIOUS
<1>1. TypeOK
  <2>1. pool \in Seq(Buffers) /\ work \in Seq(Buffers)
    BY DEF Init
  <2>2. /\ held \in [Buffers -> BOOLEAN] /\ queued \in [Buffers -> BOOLEAN]
        /\ refs \in [Buffers -> Int]
    BY DEF Init
  <2>3. serial \in 0..MaxSerial /\ next_buffer \in Nat
    BY SerialAssumption DEF Init
  <2> QED
    BY <2>1, <2>2, <2>3, Zenon DEF Init, TypeOK
<1>2. /\ PoolInv /\ WorkInv /\ WorkerInv /\ PendingInv /\ AppInv
      /\ ServerInv
  BY DEF Init, PoolInv, WorkInv, WorkerInv, PendingInv, AppInv, ServerInv,
    InWork, InPool, IsPending, Busy, OwnedStaysHeld, NoReleaseLost
<1>3. RefCountExact
  BY BufferAssumption DEF Init, RefCountExact, One, InWork, InPool, IsPending
<1> QED
  BY <1>1, <1>2, <1>3, Zenon DEF IInv

\* The steps that move no buffer: a call that starts, waits or gives up, a wait
\* that begins or ends, a failure that is only noted.
QuietStep ==
  \/ DequeueForever \/ DequeuePollError \/ ConfigureNoMemory
  \/ (\E b \in Buffers : CancelFenceError(b))
  \/ WorkerWait \/ WorkerExit \/ PresentEarlyError \/ SpuriousWakeup
  \/ ServerReject \/ ConnectionBreaks \/ Destroy \/ Destroyed
  \/ ((Disconnect \/ DisconnectResume) /\ WaitForIdle)

\* All that a quiet step may change.
QuietChange ==
  /\ UNCHANGED <<pool, held, queued, refs, pending, serial, work, wbuf,
                 onscreen, events, imported>>
  /\ owned' \subseteq owned
  /\ next_buffer' \in {0, next_buffer}
  /\ \/ wpc' = wpc /\ werr' = werr
     \/ wpc \in {"top", "waiting"} /\ wpc' \in {"top", "waiting"} /\ werr' = werr
     \/ wpc = "top" /\ work = <<>> /\ stopping /\ wpc' = "exited" /\ werr' = werr
     \/ wpc = "present" /\ wpc' = "finish" /\ werr' = TRUE
  /\ asynchronous_error' = asynchronous_error \/ (asynchronous_error' = FALSE /\ ~Busy)
  /\ \/ stopping' = stopping
     \/ stopping' = TRUE /\ imported = {} /\ dis' = "none" /\ deq' = "none"
  /\ \/ UNCHANGED <<dis, draining>>
     \/ dis = "waiting" /\ dis' = "awake" /\ UNCHANGED draining
     \/ /\ ~stopping \/ dis = "awake"
        /\ dis' = "waiting" /\ draining' = TRUE /\ UNCHANGED stopping
  /\ deq' = deq \/ deq' = "none" \/ (deq' = "forever" /\ ~stopping /\ stopping' = stopping)
  /\ \/ request' = request /\ (connection_error' = connection_error \/ connection_error' = TRUE)
     \/ request = "sent" /\ request' = "rejected" /\ connection_error' = connection_error

\* Action by action, a quiet step changes no more than that.
LEMMA QuietFacts ==
  ASSUME QuietStep PROVE QuietChange
<1> USE DEF QuietChange, poolVars, flagVars, stateVars, workerVars, serverVars, appVars
<1>1. CASE DequeueForever
  BY <1>1, Zenon DEF DequeueForever
<1>2. CASE DequeuePollError
  BY <1>2, Zenon DEF DequeuePollError
<1>3. CASE ConfigureNoMemory
  BY <1>3, Zenon DEF ConfigureNoMemory, ConfigureAllowed
<1>4. CASE \E b \in Buffers : CancelFenceError(b)
  BY <1>4, Zenon DEF CancelFenceError
<1>5. CASE WorkerWait
  BY <1>5, Zenon DEF WorkerWait
<1>6. CASE WorkerExit
  BY <1>6, Zenon DEF WorkerExit
<1>7. CASE PresentEarlyError
  BY <1>7, Zenon DEF PresentEarlyError
<1>8. CASE SpuriousWakeup
  BY <1>8, Zenon DEF SpuriousWakeup
<1>9. CASE ServerReject
  BY <1>9, Zenon DEF ServerReject
<1>10. CASE ConnectionBreaks
  BY <1>10, Zenon DEF ConnectionBreaks
<1>11. CASE Destroy
  BY <1>11, Zenon DEF Destroy, SignalWorker
<1>12. CASE Destroyed
  BY <1>12, Zenon DEF Destroyed, vars
<1>13. CASE (Disconnect \/ DisconnectResume) /\ WaitForIdle
  BY <1>13, Zenon DEF Disconnect, DisconnectResume, WaitForIdle
<1> QED
  BY <1>1, <1>2, <1>3, <1>4, <1>5, <1>6, <1>7, <1>8, <1>9, <1>10, <1>11, <1>12, <1>13,
    Zenon DEF QuietStep

\* A quiet step preserves the invariant.
LEMMA QuietIInv ==
  ASSUME IInv, QuietStep PROVE IInv'
<1>0. QuietChange
  BY QuietFacts, Zenon
<1>1. TypeOK'
  <2>0. next_buffer' \in Nat /\ owned' \subseteq Buffers
    BY <1>0 DEF IInv, TypeOK, QuietChange
  <2>1. /\ wpc' \in {"top", "waiting", "present", "checking", "finish", "exited", "joined"}
        /\ request' \in {"none", "sent", "accepted", "rejected"}
        /\ dis' \in {"none", "waiting", "awake"} /\ deq' \in {"none", "forever"}
    BY <1>0, Zenon DEF IInv, TypeOK, QuietChange
  <2>2. /\ asynchronous_error' \in BOOLEAN /\ stopping' \in BOOLEAN /\ werr' \in BOOLEAN
        /\ connection_error' \in BOOLEAN /\ draining' \in BOOLEAN
    BY <1>0, Zenon DEF IInv, TypeOK, QuietChange
  <2>3. UNCHANGED <<pool, held, queued, refs, pending, serial, work, wbuf,
                    onscreen, events, imported>>
    BY <1>0, Zenon DEF QuietChange
  <2> QED
    BY <2>0, <2>1, <2>2, <2>3, Zenon DEF IInv, TypeOK
<1>a. \A b : /\ InPool(b)' <=> InPool(b)
             /\ InWork(b)' <=> InWork(b)
             /\ IsPending(b)' <=> IsPending(b)
  BY <1>0, Zenon DEF QuietChange, InPool, InWork, IsPending
<1> USE DEF IInv, QuietChange
<1>2. PoolInv' /\ WorkInv'
  BY <1>0, <1>a, Zenon DEF PoolInv, WorkInv
<1>3. WorkerInv'
  BY <1>0, <1>a DEF WorkerInv, Busy
<1>4. PendingInv'
  BY <1>0, <1>a, Zenon DEF PendingInv
<1>5. AppInv'
  BY <1>0, <1>a DEF AppInv, OwnedStaysHeld
<1>6. ServerInv'
  BY <1>0 DEF ServerInv, NoReleaseLost
<1>7. RefCountExact'
  BY <1>0, <1>a, Zenon DEF RefCountExact, One
<1> QED
  BY <1>1, <1>2, <1>3, <1>4, <1>5, <1>6, <1>7, Zenon

\* The server takes the buffer of the unchecked present.
LEMMA ServerAcceptIInv ==
  ASSUME IInv, ServerAccept PROVE IInv'
<1> USE DEF IInv, ServerAccept, Unchecked, poolVars, flagVars, stateVars,
      workerVars, serverVars, appVars
<1>1. TypeOK'
  BY DEF TypeOK
<1>2. PoolInv' /\ WorkInv'
  BY Zenon DEF TypeOK, PoolInv, WorkInv, InWork, InPool
<1>3. WorkerInv'
  BY Zenon DEF TypeOK, WorkerInv, InWork, InPool, IsPending, Busy
<1>4. PendingInv'
  BY Zenon DEF TypeOK, PendingInv, InWork
<1>5. AppInv'
  BY Zenon DEF TypeOK, AppInv, OwnedStaysHeld, InPool
<1>6. ServerInv'
  <2>1. PICK p \in pending : ~p.checked
    BY Zenon DEF ServerInv, PendingInv
  <2>2. Unchecked = {p}
    BY <2>1, Zenon DEF PendingInv, Unchecked
  <2>3. onscreen' = onscreen \cup {[buffer |-> p.buffer, serial |-> p.serial]}
    BY <2>2, Zenon
  <2>4. /\ ~p.released /\ p.serial \notin events /\ p.buffer \notin owned
        /\ \A o \in onscreen : o.serial # p.serial
    BY <2>1, Zenon DEF ServerInv, PendingInv
  <2>5. \A o, r \in onscreen' : o.serial = r.serial \/ o.buffer = r.buffer => o = r
    <3>1. \A o \in onscreen : o.buffer # p.buffer
      BY <2>4 DEF ServerInv, PendingInv
    <3> QED
      BY <2>3, <2>4, <3>1 DEF ServerInv
  <2>6. \A o \in onscreen' :
          /\ o.buffer \notin owned' /\ o.serial \notin events'
          /\ connection_error' \/ wpc' = "joined" \/ \E q \in pending' :
               q.serial = o.serial /\ q.buffer = o.buffer /\ ~q.released
    BY <2>3, <2>4 DEF ServerInv
  <2>7. \A q \in pending : ~q.checked => q = p
    BY <2>1, Zenon DEF PendingInv
  <2>8. \E o \in onscreen' : o.serial = p.serial
    <3>1. [buffer |-> p.buffer, serial |-> p.serial] \in onscreen'
      BY <2>3, Zenon
    <3> WITNESS [buffer |-> p.buffer, serial |-> p.serial] \in onscreen'
    <3> QED
      OBVIOUS
  <2>9. NoReleaseLost'
    BY <2>3, Zenon DEF ServerInv, NoReleaseLost
  <2> QED
    BY <2>5, <2>6, <2>7, <2>8, <2>9 DEF ServerInv
<1>7. RefCountExact'
  BY Zenon DEF TypeOK, RefCountExact, One, InPool, InWork, IsPending
<1> QED
  BY <1>1, <1>2, <1>3, <1>4, <1>5, <1>6, <1>7, Zenon

\* A release moves from the server to the event queue.
LEMMA ServerReleaseIInv ==
  ASSUME IInv, NEW o \in onscreen, ServerRelease(o) PROVE IInv'
<1> USE DEF IInv, ServerRelease, poolVars, flagVars, stateVars,
      workerVars, serverVars, appVars
<1>1. TypeOK'
  <2>1. /\ events' \subseteq 0..MaxSerial
        /\ onscreen' \subseteq [buffer : Buffers, serial : 0..MaxSerial]
    BY Zenon DEF TypeOK
  <2> QED
    BY <2>1 DEF TypeOK
<1>2. PoolInv' /\ WorkInv'
  BY Zenon DEF TypeOK, PoolInv, WorkInv, InWork, InPool
<1>3. WorkerInv'
  BY Zenon DEF TypeOK, WorkerInv, InWork, InPool, IsPending, Busy
<1>4. PendingInv'
  BY Zenon DEF TypeOK, PendingInv, InWork
<1>5. AppInv'
  BY Zenon DEF TypeOK, AppInv, OwnedStaysHeld, InPool
<1>6. ServerInv'
  BY DEF TypeOK, ServerInv, NoReleaseLost
<1>7. RefCountExact'
  BY Zenon DEF TypeOK, RefCountExact, One, InPool, InWork, IsPending
<1> QED
  BY <1>1, <1>2, <1>3, <1>4, <1>5, <1>6, <1>7, Zenon

\* A cancelled buffer of the pool is free again unless it is queued.
LEMMA CancelIInv ==
  ASSUME IInv, NEW b \in Buffers, Cancel(b) PROVE IInv'
<1> USE DEF IInv, Cancel, poolVars, flagVars, stateVars,
      workerVars, serverVars, appVars
<1>1. TypeOK'
  <2>1. held' \in [Buffers -> BOOLEAN] /\ owned' \subseteq Buffers
    BY Zenon DEF TypeOK
  <2> QED
    BY <2>1 DEF TypeOK
<1>2. PoolInv' /\ WorkInv'
  <2>1. \A c \in Buffers : held'[c] <=> held[c] /\ ~(c = b /\ InPool(b) /\ ~queued[b])
    BY Zenon DEF TypeOK
  <2> QED
    BY <2>1, Zenon DEF PoolInv, WorkInv, InWork, InPool
<1>3. WorkerInv'
  BY Zenon DEF TypeOK, WorkerInv, InWork, InPool, IsPending, Busy
<1>4. PendingInv'
  BY Zenon DEF TypeOK, PendingInv, InWork
<1>5. AppInv'
  BY Zenon DEF TypeOK, AppInv, OwnedStaysHeld, InPool
<1>6. ServerInv'
  BY Zenon DEF TypeOK, ServerInv, NoReleaseLost
<1>7. RefCountExact'
  BY Zenon DEF TypeOK, RefCountExact, One, InPool, InWork, IsPending
<1> QED
  BY <1>1, <1>2, <1>3, <1>4, <1>5, <1>6, <1>7, Zenon

\* An image gives its reference back.
LEMMA DropImageIInv ==
  ASSUME IInv, NEW b \in Buffers, DropImage(b) PROVE IInv'
<1> USE DEF IInv, DropImage, poolVars, flagVars, stateVars,
      workerVars, serverVars, appVars
<1>1. TypeOK'
  BY DEF TypeOK
<1>2. PoolInv' /\ WorkInv'
  BY Zenon DEF TypeOK, PoolInv, WorkInv, InWork, InPool
<1>3. WorkerInv'
  BY Zenon DEF TypeOK, WorkerInv, InWork, InPool, IsPending, Busy
<1>4. PendingInv'
  BY Zenon DEF TypeOK, PendingInv, InWork
<1>5. AppInv'
  BY Zenon DEF TypeOK, AppInv, OwnedStaysHeld, InPool
<1>6. ServerInv'
  BY Zenon DEF TypeOK, ServerInv, NoReleaseLost
<1>7. RefCountExact'
  <2> SUFFICES ASSUME NEW c \in Buffers
               PROVE  refs'[c] = One(InPool(c)) + One(InWork(c)) + One(wbuf = c)
                                 + One(IsPending(c)) + One(c \in imported')
    BY SMTT(30) DEF RefCountExact, One, InPool, InWork, IsPending
  <2>1. CASE c = b
    BY <2>1 DEF TypeOK, RefCountExact, One
  <2>2. CASE c # b
    BY <2>2, Zenon DEF TypeOK, RefCountExact, One
  <2> QED
    BY <2>1, <2>2, Zenon
<1> QED
  BY <1>1, <1>2, <1>3, <1>4, <1>5, <1>6, <1>7, Zenon

\* The joined presenter leaves the pool and the pending presents only.
LEMMA DestroyFinishIInv ==
  ASSUME IInv, DestroyFinish PROVE IInv'
<1> USE DEF IInv, DestroyFinish, DropPool, poolVars, flagVars, stateVars,
      workerVars, serverVars, appVars
<1>1. TypeOK'
  BY DEF TypeOK
<1>2. PoolInv' /\ WorkInv'
  BY DEF TypeOK, PoolInv, WorkInv, WorkerInv, InWork, InPool
<1>3. WorkerInv'
  BY Zenon DEF TypeOK, WorkerInv, InWork, InPool, IsPending, Busy
<1>4. PendingInv'
  BY Zenon DEF TypeOK, PendingInv, InWork
<1>5. AppInv'
  BY DEF TypeOK, AppInv, OwnedStaysHeld, InPool
<1>6. ServerInv'
  BY Zenon DEF TypeOK, ServerInv, NoReleaseLost
<1>7. RefCountExact'
  <2>1. \A c \in Buffers : ~InPool(c)' /\ ~IsPending(c)' /\ ~InWork(c)
    BY DEF InPool, IsPending, InWork, WorkerInv
  <2> SUFFICES ASSUME NEW c \in Buffers
               PROVE  refs'[c] = One(InPool(c)') + One(InWork(c)') + One(wbuf' = c)
                                 + One(IsPending(c)') + One(c \in imported')
    BY Zenon DEF RefCountExact
  <2>10. refs[c] = One(InPool(c)) + One(InWork(c)) + One(wbuf = c)
                  + One(IsPending(c)) + One(c \in imported)
    BY Zenon DEF RefCountExact
  <2>2. /\ refs'[c] = refs[c] - One(InPool(c)) - One(IsPending(c)) /\ refs[c] \in Int
    BY DEF TypeOK, One
  <2>3. InWork(c)' <=> InWork(c)
    BY Zenon DEF InWork
  <2> QED
    BY <2>1, <2>2, <2>3, <2>10 DEF One
<1> QED
  BY <1>1, <1>2, <1>3, <1>4, <1>5, <1>6, <1>7, Zenon

-----------------------------------------------------------------------------
(* Steps that begin with drain().  A returned buffer was pending, so nobody *)
(* else has it; what stays pending keeps its buffer, serial and checked.   *)

Record == [buffer : Buffers, serial : 0..MaxSerial, checked : BOOLEAN, released : BOOLEAN]

\* What is pending after drain(), and what it says of before.
LEMMA DrainedPendingFacts ==
  ASSUME IInv
  PROVE  /\ DrainedPending \subseteq Record
         /\ \A q \in DrainedPending : \E p \in pending :
              /\ q.buffer = p.buffer /\ q.serial = p.serial /\ q.checked = p.checked
              /\ q.released <=> p.released \/ p.serial \in events
              /\ p \notin Returned
         /\ \A p \in pending : p \notin Returned => \E q \in DrainedPending :
              /\ q.buffer = p.buffer /\ q.serial = p.serial /\ q.checked = p.checked
              /\ q.released <=> p.released \/ p.serial \in events
         /\ \A q, r \in DrainedPending :
              q.serial = r.serial \/ q.buffer = r.buffer => q = r
<1> DEFINE D(p) == [p EXCEPT !.released = @ \/ p.serial \in events]
<1>1. \A p \in pending :
        /\ D(p) \in Record
        /\ D(p).buffer = p.buffer /\ D(p).serial = p.serial /\ D(p).checked = p.checked
        /\ D(p).released <=> p.released \/ p.serial \in events
  BY Zenon DEF IInv, TypeOK, Record
<1>2. DrainedPending = {D(p) : p \in pending \ Returned}
  BY Zenon DEF DrainedPending
<1> HIDE DEF D
<1>3. \A p, q \in pending : p.serial = q.serial \/ p.buffer = q.buffer => p = q
  BY Zenon DEF IInv, PendingInv
<1> QED
  BY <1>1, <1>2, <1>3

\* After drain() no two pending presents share a serial or a buffer.
LEMMA DrainedRecords ==
  ASSUME IInv
  PROVE  /\ DrainedPending \subseteq Record
         /\ \A q, r \in DrainedPending :
              q.serial = r.serial \/ q.buffer = r.buffer => q = r
  BY DrainedPendingFacts, Zenon

\* The types of the flags and counts after drain().
LEMMA DrainedTypes ==
  ASSUME IInv
  PROVE  /\ DrainedHeld \in [Buffers -> BOOLEAN]
         /\ DrainedQueued \in [Buffers -> BOOLEAN]
         /\ DrainedRefs \in [Buffers -> Int]
  BY DEF IInv, TypeOK, DrainedHeld, DrainedQueued, DrainedRefs

\* The flags and counts after drain(), buffer by buffer.
LEMMA DrainedFlagFacts ==
  ASSUME IInv
  PROVE  /\ \A b \in Buffers :
              /\ DrainedHeld[b] <=> held[b] /\ ~IsReturned(b)
              /\ DrainedQueued[b] <=> queued[b] /\ ~IsReturned(b)
              /\ DrainedRefs[b] = refs[b] - One(IsReturned(b))
              /\ IsReturned(b) => /\ held[b] /\ queued[b] /\ b \notin owned
                                  /\ ~InWork(b) /\ IsPending(b)
              /\ (\E q \in DrainedPending : q.buffer = b) <=>
                   IsPending(b) /\ ~IsReturned(b)
         /\ wpc \in {"present", "checking"} \/ werr => ~IsReturned(wbuf)
<1>2. ASSUME NEW b \in Buffers
      PROVE  /\ DrainedHeld[b] <=> held[b] /\ ~IsReturned(b)
             /\ DrainedQueued[b] <=> queued[b] /\ ~IsReturned(b)
             /\ DrainedRefs[b] = refs[b] - One(IsReturned(b))
  <2>1. DrainedHeld[b] <=> held[b] /\ ~IsReturned(b)
    BY Zenon DEF IInv, TypeOK, DrainedHeld
  <2>2. DrainedQueued[b] <=> queued[b] /\ ~IsReturned(b)
    BY Zenon DEF IInv, TypeOK, DrainedQueued
  <2>3. DrainedRefs[b] = refs[b] - One(IsReturned(b))
    BY DEF IInv, TypeOK, DrainedRefs, One
  <2> QED
    BY <2>1, <2>2, <2>3, Zenon
<1>3. ASSUME NEW b \in Buffers, IsReturned(b)
      PROVE  /\ held[b] /\ queued[b] /\ b \notin owned /\ ~InWork(b) /\ IsPending(b)
             /\ \A p \in pending : p.buffer = b => p \in Returned
  BY <1>3, Zenon DEF IInv, PendingInv, IsReturned, Returned, IsPending
<1>4. ASSUME NEW b \in Buffers
      PROVE  (\E q \in DrainedPending : q.buffer = b) <=> IsPending(b) /\ ~IsReturned(b)
  BY <1>3, DrainedPendingFacts DEF IsPending, IsReturned, Returned
<1>5. wpc \in {"present", "checking"} \/ werr => ~IsReturned(wbuf)
  <2>1. wpc = "present" \/ werr => ~IsPending(wbuf)
    BY Zenon DEF IInv, WorkerInv
  <2>2. ASSUME wpc = "checking", NEW p \in pending, p.buffer = wbuf
        PROVE  ~p.checked
    BY <2>2, Zenon DEF IInv, PendingInv
  <2> QED
    BY <2>1, <2>2, Zenon DEF IsReturned, Returned, IsPending
<1> QED
  BY <1>2, <1>3, <1>4, <1>5, Zenon

\* What the invariant says of the presents that are still pending after drain().
LEMMA DrainedPendingInv ==
  ASSUME IInv
  PROVE  /\ \A q \in DrainedPending :
              /\ q.serial # 0 /\ DrainedHeld[q.buffer] /\ DrainedQueued[q.buffer]
              /\ q.buffer \notin owned /\ ~InWork(q.buffer)
              /\ ~q.checked => wpc = "checking" /\ wbuf = q.buffer
              /\ q.released => ~q.checked
         /\ wpc = "checking" => \E q \in DrainedPending : q.buffer = wbuf /\ ~q.checked
<1>1. ASSUME NEW q \in DrainedPending
      PROVE  /\ q.serial # 0 /\ DrainedHeld[q.buffer] /\ DrainedQueued[q.buffer]
             /\ q.buffer \notin owned /\ ~InWork(q.buffer)
             /\ ~q.checked => wpc = "checking" /\ wbuf = q.buffer
             /\ q.released => ~q.checked
  <2>1. PICK p \in pending : /\ q.buffer = p.buffer /\ q.serial = p.serial
                             /\ q.checked = p.checked /\ p \notin Returned
                             /\ q.released <=> p.released \/ p.serial \in events
    BY DrainedPendingFacts, Zenon
  <2>2. p.buffer \in Buffers /\ ~IsReturned(p.buffer)
    BY <2>1, Zenon DEF IInv, TypeOK, PendingInv, IsReturned, Returned
  <2>3. DrainedHeld[q.buffer] /\ DrainedQueued[q.buffer]
    BY <2>1, <2>2, DrainedFlagFacts, Zenon DEF IInv, PendingInv
  <2>4. q.released => ~q.checked
    BY <2>1, Zenon DEF IInv, PendingInv, Returned
  <2> QED
    BY <2>1, <2>3, <2>4, Zenon DEF IInv, PendingInv
<1>2. ASSUME wpc = "checking"
      PROVE  \E q \in DrainedPending : q.buffer = wbuf /\ ~q.checked
  <2>1. PICK p \in pending : p.buffer = wbuf /\ ~p.checked
    BY <1>2, Zenon DEF IInv, PendingInv
  <2> QED
    BY <2>1, DrainedPendingFacts DEF Returned
<1> QED
  BY <1>1, <1>2, Zenon

\* What the invariant says of the server after drain().
LEMMA DrainedServerInv ==
  ASSUME IInv
  PROVE  /\ \A o \in onscreen : connection_error \/ wpc = "joined" \/
              \E q \in DrainedPending :
                q.serial = o.serial /\ q.buffer = o.buffer /\ ~q.released
         /\ \A q \in DrainedPending :
              IF q.checked
              THEN ~connection_error => \E o \in onscreen : o.serial = q.serial
              ELSE /\ request \in {"sent", "rejected"} =>
                        ~q.released /\ \A o \in onscreen : o.serial # q.serial
                   /\ request = "accepted" /\ ~connection_error =>
                        q.released \/ \E o \in onscreen : o.serial = q.serial
                   /\ request = "none" => connection_error
<1>1. ASSUME NEW o \in onscreen, ~connection_error, wpc # "joined"
      PROVE  \E q \in DrainedPending :
               q.serial = o.serial /\ q.buffer = o.buffer /\ ~q.released
  <2>1. PICK p \in pending : p.serial = o.serial /\ p.buffer = o.buffer /\ ~p.released
    BY <1>1, Zenon DEF IInv, ServerInv
  <2>2. p.serial \notin events
    BY <2>1, Zenon DEF IInv, ServerInv
  <2> QED
    BY <2>1, <2>2, DrainedPendingFacts DEF Returned
<1>2. ASSUME NEW q \in DrainedPending
      PROVE  IF q.checked
             THEN ~connection_error => \E o \in onscreen : o.serial = q.serial
             ELSE /\ request \in {"sent", "rejected"} =>
                       ~q.released /\ \A o \in onscreen : o.serial # q.serial
                  /\ request = "accepted" /\ ~connection_error =>
                       q.released \/ \E o \in onscreen : o.serial = q.serial
                  /\ request = "none" => connection_error
  <2>1. PICK p \in pending : /\ q.buffer = p.buffer /\ q.serial = p.serial
                             /\ q.checked = p.checked /\ p \notin Returned
                             /\ q.released <=> p.released \/ p.serial \in events
    BY DrainedPendingFacts, Zenon
  <2> QED
    BY <2>1 DEF IInv, ServerInv, NoReleaseLost, Returned
<1> QED
  BY <1>1, <1>2, Zenon

-----------------------------------------------------------------------------
\* What appending does to the set of elements of a sequence.
LEMMA InAppend ==
  ASSUME NEW S, NEW s \in Seq(S), NEW e \in S
  PROVE  /\ Append(s, e) \in Seq(S) /\ Len(Append(s, e)) = Len(s) + 1 /\ Len(s) \in Nat
         /\ \A i \in 1..Len(s) : Append(s, e)[i] = s[i]
         /\ Append(s, e)[Len(s) + 1] = e
         /\ \A c : (\E i \in 1..Len(Append(s, e)) : Append(s, e)[i] = c) <=>
                   (c = e \/ \E i \in 1..Len(s) : s[i] = c)
<1>1. /\ Append(s, e) \in Seq(S) /\ Len(Append(s, e)) = Len(s) + 1 /\ Len(s) \in Nat
      /\ \A i \in 1..Len(s) : Append(s, e)[i] = s[i]
      /\ Append(s, e)[Len(s) + 1] = e
  OBVIOUS
<1>2. ASSUME NEW c
      PROVE  (\E i \in 1..Len(Append(s, e)) : Append(s, e)[i] = c) <=>
             (c = e \/ \E i \in 1..Len(s) : s[i] = c)
  BY <1>1
<1> QED
  BY <1>1, <1>2, Zenon

\* An accepted submission joins the queue with a reference of its own.
LEMMA QueueIInv ==
  ASSUME IInv, NEW b \in Buffers, Queue(b) PROVE IInv'
<1>i. /\ TypeOK /\ PoolInv /\ WorkInv /\ WorkerInv /\ PendingInv /\ AppInv
      /\ ServerInv /\ RefCountExact
  BY Zenon DEF IInv
<1>a. /\ pending' = DrainedPending /\ events' = {} /\ held' = DrainedHeld
      /\ owned' = owned \ {b} /\ imported' = imported
  BY Zenon DEF Queue
<1>b. /\ refs' = [DrainedRefs EXCEPT ![b] = @ + 1]
      /\ queued' = [DrainedQueued EXCEPT ![b] = TRUE]
  BY Zenon DEF Queue
<1>c. /\ UNCHANGED <<pool, next_buffer, serial, asynchronous_error, draining, stopping,
                     wbuf, werr, request, onscreen, connection_error, dis, deq>>
      /\ work' = Append(work, b) /\ b \in owned /\ ~stopping
  BY Zenon DEF Queue, AppendWork, poolVars, stateVars, serverVars
<1>d. /\ wpc' = IF wpc = "waiting" THEN "top" ELSE wpc
      /\ Busy' <=> Busy
  BY Zenon DEF Queue, SignalWorker, Busy
<1>w. work \in Seq(Buffers) /\ (Busy => wbuf \in Buffers)
  BY <1>i, Zenon DEF TypeOK, WorkerInv, Busy
<1>0. /\ \A c \in Buffers : /\ InPool(c)' <=> InPool(c)
                            /\ InWork(c)' <=> InWork(c) \/ c = b
                            /\ IsPending(c)' <=> IsPending(c) /\ ~IsReturned(c)
      /\ InPool(b) /\ held[b] /\ ~queued[b] /\ ~InWork(b) /\ ~IsReturned(b)
      /\ ~IsPending(b)
  <2>1. \A c \in Buffers : InPool(c)' <=> InPool(c)
    BY <1>c, Zenon DEF InPool
  <2>2. \A c \in Buffers : InWork(c)' <=> InWork(c) \/ c = b
    BY <1>c, <1>w, InAppend DEF InWork
  <2>3. \A c \in Buffers : IsPending(c)' <=> IsPending(c) /\ ~IsReturned(c)
    BY <1>a, DrainedFlagFacts, Zenon DEF IsPending
  <2>4. ~InWork(b) /\ ~IsPending(b)
    BY <1>i, <1>c, Zenon DEF WorkInv, PendingInv, IsPending
  <2>5. InPool(b) /\ held[b] /\ ~queued[b] /\ ~IsReturned(b)
    BY DrainedFlagFacts, Zenon DEF Queue, QueueError
  <2> QED
    BY <2>1, <2>2, <2>3, <2>4, <2>5, Zenon
<1>e. \A c \in Buffers : /\ held'[c] <=> held[c] /\ ~IsReturned(c)
                         /\ queued'[c] <=> (queued[c] /\ ~IsReturned(c)) \/ c = b
  BY <1>a, <1>b, DrainedTypes, DrainedFlagFacts, Zenon
<1>1. TypeOK'
  <2>1. work' \in Seq(Buffers)
    BY <1>c, <1>w, InAppend, Zenon
  <2>2. /\ queued' \in [Buffers -> BOOLEAN] /\ refs' \in [Buffers -> Int]
        /\ held' \in [Buffers -> BOOLEAN]
    BY <1>a, <1>b, DrainedTypes
  <2>3. pending' \subseteq Record /\ events' \subseteq 0..MaxSerial
    BY <1>a, DrainedRecords, Zenon
  <2>4. /\ owned' \subseteq Buffers
        /\ wpc' \in {"top", "waiting", "present", "checking", "finish", "exited", "joined"}
    BY <1>a, <1>d, <1>i, Zenon DEF TypeOK
  <2> QED
    BY <1>a, <1>c, <1>i, <2>1, <2>2, <2>3, <2>4, SMTT(30) DEF TypeOK, Record
<1>2. PoolInv' /\ WorkInv'
  <2>1. \A i, j \in 1..Len(work') : work'[i] = work'[j] => i = j
    <3>1. \A i \in 1..Len(work) : work[i] # b
      BY <1>0, Zenon DEF InWork
    <3>2. \A i, j \in 1..Len(work) : work[i] = work[j] => i = j
      BY <1>i, Zenon DEF WorkInv
    <3> QED
      BY <1>c, <1>w, <3>1, <3>2, InAppend
  <2>2. PoolInv'
    BY <1>0, <1>c, <1>e, <1>i, Zenon DEF PoolInv
  <2>3. \A c \in Buffers : IsReturned(c) => ~InWork(c)
    BY DrainedFlagFacts, Zenon
  <2> QED
    BY <1>0, <1>a, <1>e, <1>i, <2>1, <2>2, <2>3, Zenon DEF WorkInv
<1>3. WorkerInv'
  <2>1. wpc \in {"present", "checking"} \/ werr => wbuf # b /\ ~IsReturned(wbuf)
    BY <1>0, <1>c, <1>i, DrainedFlagFacts, Zenon DEF WorkerInv
  <2> QED
    BY <1>0, <1>a, <1>c, <1>d, <1>e, <1>i, <1>w, <2>1, Zenon DEF WorkerInv, Busy
<1>4. PendingInv'
  <2>1. \A q \in DrainedPending : q.buffer \in Buffers /\ q.buffer # b
    BY <1>c, DrainedRecords, DrainedPendingInv, Zenon DEF Record
  <2>2. \A q \in DrainedPending : /\ held'[q.buffer] /\ queued'[q.buffer]
                                  /\ ~InWork(q.buffer)' /\ q.buffer \notin owned'
    BY <1>0, <1>a, <1>b, <2>1, DrainedTypes, DrainedPendingInv, Zenon
  <2>3. wpc' = "checking" <=> wpc = "checking"
    BY <1>d, Zenon
  <2> QED
    BY <1>a, <1>c, <2>2, <2>3, DrainedRecords, DrainedPendingInv DEF PendingInv
<1>5. AppInv'
  <2>1. \A c \in owned : ~IsReturned(c) /\ c \in Buffers
    BY <1>i, DrainedFlagFacts, Zenon DEF TypeOK
  <2> QED
    BY <1>0, <1>a, <1>c, <1>e, <1>i, <2>1, Zenon DEF AppInv, OwnedStaysHeld
<1>6. ServerInv'
  <2>1. (wpc' = "checking" <=> wpc = "checking") /\ (wpc' = "joined" <=> wpc = "joined")
    BY <1>d, Zenon
  <2> QED
    BY <1>a, <1>c, <1>i, <2>1, DrainedServerInv, Zenon DEF ServerInv, NoReleaseLost
<1>7. RefCountExact'
  <2> SUFFICES ASSUME NEW c \in Buffers
               PROVE  refs'[c] = One(InPool(c)') + One(InWork(c)') + One(wbuf' = c)
                                 + One(IsPending(c)') + One(c \in imported')
    BY Zenon DEF RefCountExact
  <2>1. refs[c] = One(InPool(c)) + One(InWork(c)) + One(wbuf = c)
                  + One(IsPending(c)) + One(c \in imported)
    BY <1>i, Zenon DEF RefCountExact
  <2>2. /\ refs'[c] = refs[c] - One(IsReturned(c)) + One(c = b) /\ refs[c] \in Int
        /\ IsReturned(c) => IsPending(c)
    BY <1>b, <1>i, DrainedTypes, DrainedFlagFacts DEF TypeOK, One
  <2>3. wbuf' = wbuf /\ imported' = imported
    BY <1>a, <1>c, Zenon
  <2> QED
    BY <1>0, <2>1, <2>2, <2>3 DEF One
<1> QED
  BY <1>1, <1>2, <1>3, <1>4, <1>5, <1>6, <1>7, Zenon DEF IInv

\* A buffer that is not held is in nobody's hands.
LEMMA DequeueTakeIInv ==
  ASSUME IInv, DequeueTake PROVE IInv'
<1>i. /\ TypeOK /\ PoolInv /\ WorkInv /\ WorkerInv /\ PendingInv /\ AppInv
      /\ ServerInv /\ RefCountExact
  BY Zenon DEF IInv
<1> USE <1>i DEF poolVars, stateVars, workerVars, serverVars
<1>0. PICK b \in Buffers :
        /\ InPool(b) /\ ~DrainedHeld[b]
        /\ next_buffer' \in Nat
        /\ held' = [DrainedHeld EXCEPT ![b] = TRUE]
        /\ owned' = owned \cup {b} /\ imported' = imported \cup {b}
        /\ refs' = IF b \in imported THEN DrainedRefs
                   ELSE [DrainedRefs EXCEPT ![b] = @ + 1]
  <2>1. PICK step \in 0..(Len(pool) - 1) :
          /\ ~DrainedHeld[SlotBuffer(step)]
          /\ next_buffer' = (Slot(step) + 1) % Len(pool)
          /\ held' = [DrainedHeld EXCEPT ![SlotBuffer(step)] = TRUE]
          /\ owned' = owned \cup {SlotBuffer(step)}
          /\ imported' = imported \cup {SlotBuffer(step)}
          /\ refs' = IF SlotBuffer(step) \in imported THEN DrainedRefs
                     ELSE [DrainedRefs EXCEPT ![SlotBuffer(step)] = @ + 1]
    BY Zenon DEF DequeueTake
  <2>2. Len(pool) \in Nat \ {0} /\ pool \in Seq(Buffers) /\ next_buffer \in Nat
    BY <2>1 DEF TypeOK
  <2>3. Slot(step) \in 0..(Len(pool) - 1) /\ next_buffer' \in Nat
    BY <2>1, <2>2 DEF Slot
  <2>4. Slot(step) + 1 \in 1..Len(pool)
    BY <2>2, <2>3
  <2>5. SlotBuffer(step) \in Buffers /\ InPool(SlotBuffer(step))
    BY <2>2, <2>4 DEF SlotBuffer, InPool
  <2> QED
    BY <2>1, <2>3, <2>5, Zenon
<1>a. /\ ~asynchronous_error /\ ~stopping /\ ~draining /\ ~connection_error
      /\ pending' = DrainedPending /\ events' = {} /\ queued' = DrainedQueued
      /\ deq' = "none"
      /\ UNCHANGED <<pool, serial, stateVars, work, workerVars, serverVars, dis>>
  BY Zenon DEF DequeueTake, DequeueRefused, DequeueRunning
<1>b. /\ \A c \in Buffers : /\ InPool(c)' <=> InPool(c)
                            /\ InWork(c)' <=> InWork(c)
                            /\ IsPending(c)' <=> IsPending(c) /\ ~IsReturned(c)
      /\ \A c \in Buffers : held'[c] <=> DrainedHeld[c] \/ c = b
  BY <1>0, <1>a, DrainedTypes, DrainedFlagFacts, Zenon DEF InPool, InWork, IsPending
\* nobody else has the buffer that dequeue() found not held
<1>c. /\ ~InWork(b) /\ ~DrainedQueued[b] /\ b \notin owned
      /\ ~(wpc \in {"present", "checking"} /\ wbuf = b) /\ ~(werr /\ wbuf = b)
      /\ \A q \in DrainedPending : q.buffer # b
      /\ \A o \in onscreen : o.buffer # b
  <2>1. held[b] => IsReturned(b)
    BY <1>0, DrainedFlagFacts, Zenon
  <2>2. ~InWork(b)
    BY <2>1, DrainedFlagFacts, Zenon DEF WorkInv
  <2>3. \A q \in DrainedPending : q.buffer # b
    BY <1>0, DrainedPendingInv, Zenon
  <2>4. \A o \in onscreen : o.buffer # b
    BY <2>3, <1>a, DrainedServerInv DEF WorkerInv
  <2>5. b \notin owned
    BY <2>1, <1>0, DrainedFlagFacts, Zenon DEF AppInv, OwnedStaysHeld
  <2>6. wpc \in {"present", "checking"} \/ werr => held[wbuf] /\ ~IsReturned(wbuf)
    BY <1>a, DrainedFlagFacts, Zenon DEF WorkerInv
  <2>7. ~DrainedQueued[b]
    BY <1>0, DrainedFlagFacts, Zenon DEF PoolInv
  <2> QED
    BY <2>1, <2>2, <2>3, <2>4, <2>5, <2>6, <2>7, Zenon
<1>e. owned' = owned \cup {b} /\ imported' = imported \cup {b} /\ InPool(b)
  BY <1>0, Zenon
<1>f. \A c \in Buffers : /\ DrainedHeld[c] <=> held[c] /\ ~IsReturned(c)
                         /\ DrainedQueued[c] <=> queued[c] /\ ~IsReturned(c)
                         /\ IsReturned(c) => ~InWork(c) /\ c \notin owned
  BY DrainedFlagFacts, Zenon
<1>1. TypeOK'
  <2>1. /\ held' \in [Buffers -> BOOLEAN] /\ queued' \in [Buffers -> BOOLEAN]
        /\ refs' \in [Buffers -> Int]
    BY <1>0, <1>a, DrainedTypes
  <2>2. pending' \subseteq Record
    BY <1>a, DrainedRecords, Zenon
  <2> QED
    BY <1>0, <1>a, <2>1, <2>2, ZenonT(30) DEF TypeOK, Record
<1>2. PoolInv' /\ WorkInv'
  <2>1. pool' = pool /\ work' = work /\ queued' = DrainedQueued
    BY <1>a, Zenon
  <2> QED
    BY <1>b, <1>c, <1>e, <1>f, <2>1 DEF PoolInv, WorkInv
<1>3. WorkerInv'
  <2>1. Busy => wbuf \in Buffers
    BY Zenon DEF WorkerInv, TypeOK, Busy
  <2>2. wpc \in {"present", "checking"} \/ werr => ~IsReturned(wbuf)
    BY DrainedFlagFacts, Zenon
  <2> QED
    BY <1>a, <1>b, <1>c, <1>e, <1>f, <2>1, <2>2, Zenon DEF WorkerInv, Busy
<1>4. PendingInv'
  <2>1. \A q \in DrainedPending : q.buffer \in Buffers
    BY DrainedRecords, Zenon DEF Record
  <2>2. \A q \in DrainedPending : /\ held'[q.buffer] /\ queued'[q.buffer]
                                  /\ ~InWork(q.buffer)' /\ q.buffer \notin owned'
    BY <1>a, <1>b, <1>c, <1>e, <2>1, DrainedPendingInv, Zenon
  <2>3. pending' = DrainedPending /\ wpc' = wpc /\ wbuf' = wbuf
    BY <1>a, Zenon
  <2> QED
    BY <2>2, <2>3, DrainedRecords, DrainedPendingInv DEF PendingInv
<1>5. AppInv'
  <2>1. owned \subseteq Buffers
    BY Zenon DEF TypeOK
  <2>2. queued' = DrainedQueued /\ UNCHANGED <<draining, stopping, dis>> /\ ~stopping
    BY <1>a, Zenon
  <2> QED
    BY <1>b, <1>c, <1>e, <1>f, <2>1, <2>2, Zenon DEF AppInv, OwnedStaysHeld
<1>6. ServerInv'
  BY <1>a, <1>c, <1>e, DrainedServerInv, Zenon DEF ServerInv, NoReleaseLost
<1>7. RefCountExact'
  <2> SUFFICES ASSUME NEW c \in Buffers
               PROVE  refs'[c] = One(InPool(c)') + One(InWork(c)') + One(wbuf' = c)
                                 + One(IsPending(c)') + One(c \in imported')
    BY Zenon DEF RefCountExact
  <2>1. refs[c] = One(InPool(c)) + One(InWork(c)) + One(wbuf = c)
                  + One(IsPending(c)) + One(c \in imported)
    BY Zenon DEF RefCountExact
  <2>2. /\ refs'[c] = refs[c] - One(IsReturned(c)) + One(c = b /\ c \notin imported)
        /\ refs[c] \in Int
        /\ IsReturned(c) => IsPending(c)
    BY <1>0, DrainedTypes, DrainedFlagFacts, SMTT(30) DEF TypeOK, One
  <2>3. wbuf' = wbuf /\ imported' = imported \cup {b}
    BY <1>a, <1>e, Zenon
  <2> QED
    BY <1>b, <2>1, <2>2, <2>3 DEF One
<1> QED
  BY <1>1, <1>2, <1>3, <1>4, <1>5, <1>6, <1>7, Zenon DEF IInv

-----------------------------------------------------------------------------
\* drain() preserves everything the invariant says about buffers.
LEMMA DrainIInv ==
  ASSUME IInv, Drain, deq' \in {"none", deq},
         UNCHANGED <<poolVars, serial, stateVars, work, workerVars, serverVars,
                     dis, owned, imported>>
  PROVE  IInv'
<1> USE DEF IInv, Drain, poolVars, stateVars, workerVars, serverVars
<1>0. \A b \in Buffers : /\ InPool(b)' <=> InPool(b)
                         /\ InWork(b)' <=> InWork(b)
                         /\ IsPending(b)' <=> IsPending(b) /\ ~IsReturned(b)
  BY DrainedFlagFacts, Zenon DEF InPool, InWork, IsPending
<1>1. TypeOK'
  <2>1. /\ held' \in [Buffers -> BOOLEAN] /\ queued' \in [Buffers -> BOOLEAN]
        /\ refs' \in [Buffers -> Int]
    BY DrainedTypes, Zenon
  <2>2. pending' \subseteq Record /\ events' \subseteq 0..MaxSerial
    BY DrainedRecords, Zenon
  <2>3. deq' \in {"none", "forever"}
    BY Zenon DEF TypeOK
  <2> HIDE DEF Drain
  <2> QED
    BY <2>1, <2>2, <2>3, SMTT(30) DEF TypeOK, Record
<1>2. PoolInv' /\ WorkInv'
  BY <1>0, DrainedTypes, DrainedFlagFacts, Zenon DEF TypeOK, PoolInv, WorkInv
<1>3. WorkerInv'
  <2>1. Busy => wbuf \in Buffers
    BY Zenon DEF WorkerInv, TypeOK, Busy
  <2> QED
    BY <1>0, <2>1, DrainedFlagFacts, SMTT(30) DEF TypeOK, WorkerInv, Busy, DrainedPending
<1>4. PendingInv'
  <2>1. \A q \in DrainedPending : q.buffer \in Buffers
    BY DrainedRecords, Zenon DEF Record
  <2> QED
    BY <1>0, <2>1, DrainedRecords, DrainedPendingInv DEF PendingInv
<1>5. AppInv'
  BY <1>0, DrainedFlagFacts, Zenon DEF TypeOK, AppInv, OwnedStaysHeld
<1>6. ServerInv'
  BY DrainedServerInv, Zenon DEF ServerInv, NoReleaseLost
<1>7. RefCountExact'
  <2> SUFFICES ASSUME NEW c \in Buffers
               PROVE  refs'[c] = One(InPool(c)') + One(InWork(c)') + One(wbuf' = c)
                                 + One(IsPending(c)') + One(c \in imported')
    BY Zenon DEF RefCountExact
  <2>1. refs[c] = One(InPool(c)) + One(InWork(c)) + One(wbuf = c)
                  + One(IsPending(c)) + One(c \in imported)
    BY Zenon DEF RefCountExact
  <2>2. /\ refs'[c] = refs[c] - One(IsReturned(c)) /\ refs[c] \in Int
        /\ IsReturned(c) => IsPending(c)
    BY DrainedFlagFacts, Zenon DEF TypeOK
  <2> QED
    BY <1>0, <2>1, <2>2 DEF One
<1> QED
  BY <1>1, <1>2, <1>3, <1>4, <1>5, <1>6, <1>7, Zenon

\* The calls that drain and return an error.
LEMMA DrainOnlyIInv ==
  ASSUME IInv,
         DequeueError \/ DequeueBusy \/ (\E b \in Buffers : QueueRefused(b))
  PROVE  IInv'
<1>1. CASE DequeueError
  BY <1>1, DrainIInv, Zenon DEF DequeueError
<1>2. CASE DequeueBusy
  BY <1>2, DrainIInv, Zenon DEF DequeueBusy, appVars
<1>3. CASE \E b \in Buffers : QueueRefused(b)
  BY <1>3, DrainIInv, Zenon DEF QueueRefused, appVars
<1> QED
  BY <1>1, <1>2, <1>3, Zenon

\* disconnect() waits, or drops the pool with no submission left.
LEMMA DisconnectIInv ==
  ASSUME IInv, Disconnect \/ DisconnectResume PROVE IInv'
<1>i. /\ TypeOK /\ PoolInv /\ WorkInv /\ WorkerInv /\ PendingInv /\ AppInv
      /\ ServerInv /\ RefCountExact
  BY Zenon DEF IInv
<1> USE <1>i DEF poolVars, flagVars, workerVars, serverVars
<1>0. /\ ~stopping
      /\ UNCHANGED <<serial, asynchronous_error, stopping, work, workerVars,
                     serverVars, deq, owned, imported>>
      /\ (DisconnectBlocked /\ WaitForIdle) \/ (~DisconnectBlocked /\ FinishDisconnect)
  BY Zenon DEF Disconnect, DisconnectResume, AppInv
<1>1. CASE WaitForIdle
  BY <1>1, QuietIInv, Zenon DEF QuietStep
<1>2. CASE ~DisconnectBlocked /\ FinishDisconnect
  <2>a. /\ pending' = DrainedPending /\ events' = {}
        /\ held' = DrainedHeld /\ queued' = DrainedQueued
        /\ refs' = DropPool(DrainedRefs)
        /\ pool' = <<>> /\ next_buffer' = 0
        /\ draining' = FALSE /\ dis' = "none"
        /\ work = <<>> /\ ~Busy
    BY <1>2, Zenon DEF FinishDisconnect, DisconnectBlocked
  <2>b. \A c \in Buffers : /\ ~InPool(c)' /\ ~InWork(c)' /\ ~InWork(c)
                           /\ IsPending(c)' <=> IsPending(c) /\ ~IsReturned(c)
    BY <1>0, <2>a, DrainedFlagFacts DEF InPool, InWork, IsPending
  <2>1. TypeOK'
    <3>1. refs' \in [Buffers -> Int]
      BY <2>a, DrainedTypes DEF DropPool
    <3>2. pending' \subseteq Record
      BY <2>a, DrainedRecords, Zenon
    <3>3. pool' \in Seq(Buffers)
      BY <2>a
    <3>4. held' \in [Buffers -> BOOLEAN] /\ queued' \in [Buffers -> BOOLEAN]
      BY <2>a, DrainedTypes, Zenon
    <3> QED
      BY <1>0, <2>a, <3>1, <3>2, <3>3, <3>4, ZenonT(30) DEF TypeOK, Record
  <2>2. PoolInv' /\ WorkInv'
    BY <1>0, <2>a, <2>b, DrainedFlagFacts DEF PoolInv, WorkInv
  <2>3. WorkerInv'
    <3>1. ~Busy' /\ wpc' = wpc /\ ~werr /\ wpc \notin {"exited", "joined"}
      BY <1>0, <2>a, ZenonT(30) DEF Busy, WorkerInv
    <3> QED
      BY <1>0, <2>a, <3>1, Zenon DEF WorkerInv, Busy
  <2>4. PendingInv'
    <3>1. \A q \in DrainedPending : q.buffer \in Buffers
      BY DrainedRecords, Zenon DEF Record
    <3> QED
      BY <1>0, <2>a, <2>b, <3>1, DrainedRecords, DrainedPendingInv DEF PendingInv
  <2>5. AppInv'
    BY <1>0, <2>a, <2>b, Zenon DEF TypeOK, AppInv, OwnedStaysHeld
  <2>6. ServerInv'
    BY <1>0, <2>a, DrainedServerInv, Zenon DEF ServerInv, NoReleaseLost
  <2>7. RefCountExact'
    <3> SUFFICES ASSUME NEW c \in Buffers
                 PROVE  refs'[c] = One(InPool(c)') + One(InWork(c)') + One(wbuf' = c)
                                   + One(IsPending(c)') + One(c \in imported')
      BY Zenon DEF RefCountExact
    <3>1. refs[c] = One(InPool(c)) + One(InWork(c)) + One(wbuf = c)
                    + One(IsPending(c)) + One(c \in imported)
      BY Zenon DEF RefCountExact
    <3>2. /\ refs'[c] = refs[c] - One(IsReturned(c)) - One(InPool(c))
          /\ refs[c] \in Int
          /\ IsReturned(c) => IsPending(c)
      BY <2>a, DrainedFlagFacts DEF TypeOK, One, DropPool
    <3> QED
      BY <1>0, <2>b, <3>1, <3>2 DEF One
  <2> QED
    BY <2>1, <2>2, <2>3, <2>4, <2>5, <2>6, <2>7, Zenon DEF IInv
<1> QED
  BY <1>0, <1>1, <1>2, Zenon

\* The buffers of a new pool have no holder yet.
LEMMA ConfigureIInv ==
  ASSUME IInv, NEW new \in NewPools, Configure(new) PROVE IInv'
<1>i. /\ TypeOK /\ PoolInv /\ WorkInv /\ WorkerInv /\ PendingInv /\ AppInv
      /\ ServerInv /\ RefCountExact
  BY Zenon DEF IInv
<1> USE <1>i DEF workerVars, serverVars, appVars
<1> DEFINE Added(b) == \E i \in 1..Len(new) : new[i] = b
<1>0. /\ new \in Seq(Buffers)
      /\ \A i, j \in 1..Len(new) : new[i] = new[j] => i = j
      /\ \A b : Added(b) => b \in Fresh
  <2>1. PICK n \in PoolSizes : new \in [1..n -> Fresh]
    BY Zenon DEF NewPools
  <2>2. n \in Nat /\ Fresh \subseteq Buffers
    BY PoolSizeAssumption DEF Fresh
  <2>3. new \in Seq(Buffers) /\ Len(new) = n
    BY <2>1, <2>2
  <2>4. \A i, j \in 1..n : i # j => new[i] # new[j]
    BY <2>1, Zenon DEF NewPools
  <2> QED
    BY <2>1, <2>3, <2>4, Zenon
<1>f. /\ held' = [b \in Buffers |-> held[b] /\ ~Added(b)]
      /\ queued' = [b \in Buffers |-> queued[b] /\ ~Added(b)]
      /\ refs' = [b \in Buffers |-> IF Added(b) THEN 1 ELSE refs[b]]
  BY Zenon DEF Configure
<1>a. /\ wpc \notin {"present", "checking", "finish"}
      /\ dis = "none" /\ pool = <<>> /\ ~draining /\ ~stopping /\ work = <<>>
      /\ asynchronous_error' = FALSE /\ pool' = new
      /\ UNCHANGED <<next_buffer, pending, serial, draining, stopping, work, workerVars,
                     serverVars, events, appVars>>
  BY Zenon DEF Configure, ConfigureAllowed, Busy
<1>b. /\ wbuf = NoBuffer /\ ~werr
      /\ \A c \in Buffers : /\ InPool(c)' <=> Added(c)
                            /\ ~InPool(c) /\ ~InWork(c)' /\ ~InWork(c)
                            /\ IsPending(c)' <=> IsPending(c)
  BY <1>a DEF InPool, InWork, IsPending, WorkerInv, Busy
<1>c. \A c \in Buffers : Added(c) =>
        refs[c] = 0 /\ ~IsPending(c) /\ c \notin imported /\ c \notin owned
  <2> SUFFICES ASSUME NEW c \in Buffers, Added(c)
               PROVE  refs[c] = 0 /\ ~IsPending(c) /\ c \notin imported /\ c \notin owned
    OBVIOUS
  <2>1. refs[c] = 0
    BY <1>0, Zenon DEF Fresh
  <2>2. refs[c] = One(InPool(c)) + One(InWork(c)) + One(wbuf = c)
                  + One(IsPending(c)) + One(c \in imported)
    BY Zenon DEF RefCountExact
  <2>3. ~IsPending(c) /\ c \notin imported
    BY <2>1, <2>2 DEF One
  <2> QED
    BY <2>1, <2>3, Zenon DEF AppInv
<1> HIDE DEF Added
<1>d. \A c \in Buffers : /\ held'[c] <=> held[c] /\ ~Added(c)
                         /\ queued'[c] <=> queued[c] /\ ~Added(c)
  BY <1>f, Zenon DEF TypeOK
<1>1. TypeOK'
  <2>1. held' \in [Buffers -> BOOLEAN] /\ queued' \in [Buffers -> BOOLEAN]
    BY <1>f, Zenon DEF TypeOK
  <2>2. refs' \in [Buffers -> Int]
    BY <1>f DEF TypeOK
  <2> QED
    BY <1>0, <1>a, <2>1, <2>2, Zenon DEF TypeOK
<1>2. PoolInv' /\ WorkInv'
  <2>1. pool' = new /\ work' = <<>> /\ \A c \in Buffers : ~InWork(c)'
    BY <1>a, <1>b, Zenon
  <2>2. PoolInv'
    BY <1>0, <1>d, <2>1, Zenon DEF PoolInv
  <2> QED
    BY <2>1, <2>2 DEF WorkInv
<1>3. WorkerInv'
  <2>1. /\ wbuf' = NoBuffer /\ ~werr' /\ wpc' \notin {"present", "checking", "finish"}
        /\ wpc' \notin {"exited", "joined"}
    BY <1>a, <1>b, Zenon DEF WorkerInv
  <2> QED
    BY <2>1, Zenon DEF WorkerInv, Busy
<1>4. PendingInv'
  <2>1. \A p \in pending : p.buffer \in Buffers /\ ~Added(p.buffer)
    BY <1>c, Zenon DEF IsPending, TypeOK
  <2>2. UNCHANGED <<pending, wpc, wbuf, owned>>
    BY <1>a, Zenon
  <2> QED
    BY <1>b, <1>d, <2>1, <2>2, Zenon DEF PendingInv
<1>5. AppInv'
  <2>1. UNCHANGED <<owned, imported, draining, dis, deq>> /\ stopping' = stopping
    BY <1>a, Zenon
  <2>2. owned \subseteq Buffers /\ \A c \in owned : ~Added(c)
    BY <1>c, Zenon DEF TypeOK
  <2> QED
    BY <1>b, <2>1, <2>2, Zenon DEF AppInv, OwnedStaysHeld
<1>6. ServerInv'
  BY <1>a, Zenon DEF ServerInv, NoReleaseLost
<1>7. RefCountExact'
  <2> SUFFICES ASSUME NEW c \in Buffers
               PROVE  refs'[c] = One(InPool(c)') + One(InWork(c)') + One(wbuf' = c)
                                 + One(IsPending(c)') + One(c \in imported')
    BY Zenon DEF RefCountExact
  <2>1. refs[c] = One(InPool(c)) + One(InWork(c)) + One(wbuf = c)
                  + One(IsPending(c)) + One(c \in imported)
    BY Zenon DEF RefCountExact
  <2>2. refs'[c] = IF Added(c) THEN 1 ELSE refs[c]
    BY <1>f, Zenon
  <2>3. imported' = imported /\ wbuf' = wbuf /\ wbuf # c
    BY <1>a, <1>b, BufferAssumption, Zenon
  <2>4. CASE Added(c)
    BY <1>b, <1>c, <2>2, <2>3, <2>4 DEF One
  <2>5. CASE ~Added(c)
    <3>1. ~InPool(c)' /\ ~InPool(c) /\ ~InWork(c)' /\ ~InWork(c) /\ wbuf' = wbuf
      BY <1>b, <2>3, <2>5, Zenon
    <3>2. (IsPending(c)' <=> IsPending(c)) /\ imported' = imported /\ refs'[c] = refs[c]
      BY <1>b, <2>2, <2>3, <2>5, Zenon
    <3> QED
      BY <2>1, <3>1, <3>2, Zenon DEF One
  <2> QED
    BY <2>4, <2>5, Zenon
<1> QED
  BY <1>1, <1>2, <1>3, <1>4, <1>5, <1>6, <1>7, Zenon DEF IInv

-----------------------------------------------------------------------------

-----------------------------------------------------------------------------
\* What taking the head of a sequence does to its set of elements.
LEMMA InTail ==
  ASSUME NEW S, NEW s \in Seq(S), s # <<>>
  PROVE  /\ Head(s) \in S /\ Tail(s) \in Seq(S) /\ Len(Tail(s)) = Len(s) - 1
         /\ Head(s) = s[1] /\ Len(s) \in Nat \ {0}
         /\ \A i \in 1..Len(Tail(s)) : Tail(s)[i] = s[i + 1]
         /\ \A c : (\E i \in 1..Len(s) : s[i] = c) <=>
                    (c = Head(s) \/ \E i \in 1..Len(Tail(s)) : Tail(s)[i] = c)
  OBVIOUS

\* The presenter takes the oldest submission.
LEMMA WorkerTakeIInv ==
  ASSUME IInv, WorkerTake PROVE IInv'
<1> USE DEF IInv, WorkerTake, poolVars, flagVars, stateVars,
      workerVars, serverVars, appVars
<1>1. TypeOK'
  BY SMTT(30) DEF TypeOK
<1>2. PoolInv' /\ WorkInv'
  <2>1. \A c \in Buffers : InWork(c)' => InWork(c)
    BY InTail DEF TypeOK, InWork
  <2>2. \A i, j \in 1..Len(work') : work'[i] = work'[j] => i = j
    BY DEF TypeOK, WorkInv
  <2> QED
    BY <2>1, <2>2, Zenon DEF TypeOK, PoolInv, WorkInv, InPool
<1>3. WorkerInv'
  <2> PICK h \in Buffers : h = Head(work)
    BY InTail, Zenon DEF TypeOK
  <2>1. InWork(h) /\ ~InWork(h)'
    BY InTail DEF TypeOK, InWork, WorkInv
  <2>2. ~IsPending(h)
    BY <2>1, Zenon DEF PendingInv, IsPending
  <2> QED
    BY <2>1, <2>2, BufferAssumption, Zenon DEF TypeOK, WorkerInv, WorkInv, InPool, IsPending, Busy
<1>4. PendingInv'
  <2>1. \A c \in Buffers : InWork(c)' => InWork(c)
    BY InTail DEF TypeOK, InWork
  <2> QED
    BY <2>1, Zenon DEF TypeOK, PendingInv
<1>5. AppInv'
  BY Zenon DEF TypeOK, AppInv, OwnedStaysHeld, InPool
<1>6. ServerInv'
  BY Zenon DEF TypeOK, ServerInv, NoReleaseLost
<1>7. RefCountExact'
  <2> PICK h \in Buffers : h = Head(work)
    BY InTail, Zenon DEF TypeOK
  <2>1. \A c \in Buffers : InWork(c) <=> InWork(c)' \/ c = h
    <3>1. work \in Seq(Buffers) /\ work # <<>>
      BY Zenon DEF TypeOK
    <3>2. \A c : (\E i \in 1..Len(work) : work[i] = c) <=>
               (c = Head(work) \/ \E i \in 1..Len(Tail(work)) : Tail(work)[i] = c)
      BY <3>1, InTail, Zenon
    <3> QED
      BY <3>2, Zenon DEF InWork
  <2>3. ~InWork(h)'
    BY InTail DEF TypeOK, InWork, WorkInv
  <2>2. wbuf = NoBuffer
    BY Zenon DEF WorkerInv, Busy
  <2> SUFFICES ASSUME NEW c \in Buffers
               PROVE  refs'[c] = One(InPool(c)') + One(InWork(c)') + One(wbuf' = c)
                                 + One(IsPending(c)') + One(c \in imported')
    BY Zenon DEF RefCountExact
  <2>10. refs[c] = One(InPool(c)) + One(InWork(c)) + One(wbuf = c)
                  + One(IsPending(c)) + One(c \in imported)
    BY Zenon DEF RefCountExact
  <2>4. (InPool(c)' <=> InPool(c)) /\ (IsPending(c)' <=> IsPending(c))
    BY Zenon DEF InPool, IsPending
  <2> QED
    BY <2>1, <2>2, <2>3, <2>4, <2>10, BufferAssumption DEF TypeOK, One
<1> QED
  BY <1>1, <1>2, <1>3, <1>4, <1>5, <1>6, <1>7, Zenon

\* The presenter gives up its reference; after an error nobody else
\* has the buffer, so that clearing held is harmless.
LEMMA WorkerFinishIInv ==
  ASSUME IInv, WorkerFinish PROVE IInv'
<1> USE DEF IInv, WorkerFinish, BroadcastIdle, poolVars, flagVars, stateVars,
      workerVars, serverVars, appVars
<1>0. wbuf \in Buffers /\ wbuf # NoBuffer
  BY BufferAssumption, Zenon DEF TypeOK, WorkerInv, Busy
<1>1. TypeOK'
  <2>1. /\ held' \in [Buffers -> BOOLEAN] /\ queued' \in [Buffers -> BOOLEAN]
        /\ refs' \in [Buffers -> Int]
    BY <1>0 DEF TypeOK
  <2> QED
    BY <2>1, Zenon DEF TypeOK
<1>2. PoolInv' /\ WorkInv'
  <2>1. \A c \in Buffers : /\ held'[c] <=> held[c] /\ ~(c = wbuf /\ werr)
                           /\ queued'[c] <=> queued[c] /\ ~(c = wbuf /\ werr)
    BY <1>0, Zenon DEF TypeOK
  <2> QED
    BY <2>1 DEF PoolInv, WorkInv, WorkerInv, InWork, InPool
<1>3. WorkerInv'
  BY Zenon DEF TypeOK, WorkerInv, InWork, InPool, IsPending, Busy
<1>4. PendingInv'
  BY <1>0, Zenon DEF TypeOK, PendingInv, WorkerInv, InWork, IsPending
<1>5. AppInv'
  BY <1>0, Zenon DEF TypeOK, AppInv, WorkerInv, OwnedStaysHeld, InPool
<1>6. ServerInv'
  BY Zenon DEF TypeOK, ServerInv, NoReleaseLost
<1>7. RefCountExact'
  <2> SUFFICES ASSUME NEW c \in Buffers
               PROVE  refs'[c] = One(InPool(c)') + One(InWork(c)') + One(wbuf' = c)
                                 + One(IsPending(c)') + One(c \in imported')
    BY Zenon DEF RefCountExact
  <2>10. refs[c] = One(InPool(c)) + One(InWork(c)) + One(wbuf = c)
                  + One(IsPending(c)) + One(c \in imported)
    BY Zenon DEF RefCountExact
  <2>1. /\ (InPool(c)' <=> InPool(c)) /\ (InWork(c)' <=> InWork(c))
        /\ (IsPending(c)' <=> IsPending(c))
    BY Zenon DEF InPool, InWork, IsPending
  <2>2. /\ refs'[c] = refs[c] - One(c = wbuf) /\ refs[c] \in Int
    BY <1>0 DEF TypeOK, One
  <2> QED
    BY <2>1, <2>2, <2>10, <1>0, BufferAssumption DEF One
<1> QED
  BY <1>1, <1>2, <1>3, <1>4, <1>5, <1>6, <1>7, Zenon

\* The new pending present has a serial no other has.
LEMMA PresentSendIInv ==
  ASSUME IInv, PresentSend PROVE IInv'
<1>i. /\ TypeOK /\ PoolInv /\ WorkInv /\ WorkerInv /\ PendingInv /\ AppInv
      /\ ServerInv /\ RefCountExact
  BY Zenon DEF IInv
<1> USE <1>i DEF poolVars, stateVars, workerVars, appVars
<1>0. PICK k \in 1..(MaxSerial + 1) :
        /\ SerialUsable(SerialAfter(k))
        /\ serial' = SerialAfter(k)
        /\ pending' = DrainedPending \cup
             {[buffer |-> wbuf, serial |-> SerialAfter(k),
               checked |-> FALSE, released |-> FALSE]}
  BY Zenon DEF PresentSend
<1> DEFINE new == [buffer |-> wbuf, serial |-> SerialAfter(k),
                   checked |-> FALSE, released |-> FALSE]
<1>a. /\ events' = {} /\ held' = DrainedHeld /\ queued' = DrainedQueued
      /\ refs' = [DrainedRefs EXCEPT ![wbuf] = @ + 1]
      /\ request' = IF connection_error THEN "none" ELSE "sent"
      /\ wpc = "present" /\ wpc' = "checking"
      /\ UNCHANGED <<poolVars, stateVars, work, wbuf, werr, onscreen,
                     connection_error, appVars>>
  BY Zenon DEF PresentSend
<1>b. /\ wbuf \in Buffers /\ wbuf # NoBuffer
      /\ held[wbuf] /\ queued[wbuf] /\ wbuf \notin owned /\ ~InWork(wbuf)
      /\ ~IsPending(wbuf) /\ ~IsReturned(wbuf) /\ InPool(wbuf) /\ ~werr
  BY <1>a, BufferAssumption, DrainedFlagFacts, Zenon DEF WorkerInv, Busy, TypeOK
<1>c. SerialAfter(k) \in 0..MaxSerial
  BY <1>0, SerialAssumption DEF SerialAfter, TypeOK
<1>d. /\ new \in Record /\ new.buffer = wbuf /\ new.serial = SerialAfter(k)
      /\ ~new.checked /\ ~new.released
  BY <1>b, <1>c, Zenon DEF Record
<1>e. /\ new.serial # 0 /\ \A q \in DrainedPending : q.serial # new.serial
      /\ \A q \in DrainedPending : q.buffer # wbuf
  BY <1>0, <1>b, <1>d, DrainedFlagFacts, Zenon DEF SerialUsable
<1>f. pending' = DrainedPending \cup {new}
  BY <1>0, Zenon
<1> HIDE DEF new
<1>g. \A c \in Buffers : /\ InPool(c)' <=> InPool(c)
                         /\ InWork(c)' <=> InWork(c)
                         /\ IsPending(c)' <=> (IsPending(c) /\ ~IsReturned(c)) \/ c = wbuf
  BY <1>a, <1>d, <1>f, DrainedFlagFacts, Zenon DEF InPool, InWork, IsPending
<1>1. TypeOK'
  <2>1. pending' \subseteq Record
    BY <1>d, <1>f, DrainedRecords, Zenon
  <2>2. /\ held' \in [Buffers -> BOOLEAN] /\ queued' \in [Buffers -> BOOLEAN]
        /\ refs' \in [Buffers -> Int]
    BY <1>a, <1>b, DrainedTypes
  <2> QED
    BY <1>0, <1>a, <1>c, <2>1, <2>2, Zenon DEF TypeOK, Record
<1>2. PoolInv' /\ WorkInv'
  BY <1>a, <1>g, DrainedFlagFacts, Zenon DEF PoolInv, WorkInv
<1>3. WorkerInv'
  BY <1>a, <1>b, <1>g, DrainedFlagFacts, Zenon DEF WorkerInv, Busy
<1>4. PendingInv'
  <2>1. \A p, q \in pending' :
          p.serial # 0 /\ (p.serial = q.serial \/ p.buffer = q.buffer => p = q)
    BY <1>d, <1>e, <1>f, DrainedRecords, DrainedPendingInv, Zenon
  <2>2. \A q \in DrainedPending : q.buffer \in Buffers /\ q.checked
    BY <1>a, DrainedRecords, DrainedPendingInv, Zenon DEF Record
  <2>3. \A p \in pending' :
          /\ held'[p.buffer] /\ queued'[p.buffer]
          /\ p.buffer \notin owned' /\ ~InWork(p.buffer)'
          /\ ~p.checked => wpc' = "checking" /\ wbuf' = p.buffer
          /\ p.released => ~p.checked
    BY <1>a, <1>b, <1>d, <1>f, <1>g, <2>2, DrainedPendingInv, DrainedFlagFacts, Zenon
  <2>4. \E p \in pending' : p.buffer = wbuf' /\ ~p.checked
    BY <1>a, <1>d, <1>f, Zenon
  <2> QED
    BY <2>1, <2>3, <2>4, Zenon DEF PendingInv
<1>5. AppInv'
  BY <1>a, <1>g, DrainedFlagFacts, Zenon DEF TypeOK, AppInv, OwnedStaysHeld
<1>6. ServerInv'
  <2>1. \A q \in DrainedPending : q.checked
    BY <1>a, DrainedPendingInv, DrainedRecords, Zenon DEF Record
  <2>2. connection_error \/ \A o \in onscreen : o.serial # new.serial
    BY <1>a, <1>e, DrainedServerInv, Zenon
  <2>3. \A o \in onscreen' :
          /\ o.buffer \notin owned' /\ o.serial \notin events'
          /\ connection_error' \/ wpc' = "joined" \/ \E p \in pending' :
               p.serial = o.serial /\ p.buffer = o.buffer /\ ~p.released
    BY <1>a, <1>f, DrainedServerInv, Zenon DEF ServerInv
  <2>4. \A p \in pending' : ~p.checked => p = new
    BY <1>f, <2>1, Zenon
  <2>5. NoReleaseLost'
    BY <1>a, <1>d, <1>f, DrainedServerInv, Zenon DEF NoReleaseLost
  <2> QED
    BY <1>a, <1>d, <2>2, <2>3, <2>4, <2>5, Zenon DEF ServerInv
<1>7. RefCountExact'
  <2> SUFFICES ASSUME NEW c \in Buffers
               PROVE  refs'[c] = One(InPool(c)') + One(InWork(c)') + One(wbuf' = c)
                                 + One(IsPending(c)') + One(c \in imported')
    BY Zenon DEF RefCountExact
  <2>1. refs[c] = One(InPool(c)) + One(InWork(c)) + One(wbuf = c)
                  + One(IsPending(c)) + One(c \in imported)
    BY Zenon DEF RefCountExact
  <2>2. /\ refs'[c] = refs[c] - One(IsReturned(c)) + One(c = wbuf)
        /\ refs[c] \in Int
        /\ IsReturned(c) => IsPending(c)
    BY <1>a, <1>b, DrainedTypes, DrainedFlagFacts DEF TypeOK, One
  <2> QED
    BY <1>a, <1>b, <1>g, <2>1, <2>2 DEF One
<1> QED
  BY <1>1, <1>2, <1>3, <1>4, <1>5, <1>6, <1>7, Zenon DEF IInv

\* The reply confirms the present, or takes it back on an error or an
\* early release.
LEMMA PresentCheckIInv ==
  ASSUME IInv, PresentCheck PROVE IInv'
<1>i. /\ TypeOK /\ PoolInv /\ WorkInv /\ WorkerInv /\ PendingInv /\ AppInv
      /\ ServerInv /\ RefCountExact
  BY Zenon DEF IInv
<1> USE <1>i DEF poolVars, flagVars, appVars
<1>0. PICK p \in pending : p.buffer = wbuf /\ ~p.checked
  BY Zenon DEF PresentCheck, PendingInv
<1>a. /\ wbuf \in Buffers /\ wbuf # NoBuffer /\ held[wbuf] /\ queued[wbuf]
      /\ wbuf \notin owned /\ ~InWork(wbuf) /\ InPool(wbuf) /\ ~werr
  BY BufferAssumption, Zenon DEF PresentCheck, WorkerInv, Busy, TypeOK
<1>b. /\ wpc = "checking" /\ (connection_error \/ request \in {"accepted", "rejected"})
      /\ wpc' = "finish" /\ werr' = CheckError /\ request' = "none"
      /\ asynchronous_error' = CheckRecords
      /\ UNCHANGED <<poolVars, serial, draining, stopping, work, wbuf, onscreen,
                     connection_error, events, appVars>>
  BY Zenon DEF PresentCheck
<1>c. Unchecked = {p}
  BY <1>0, Zenon DEF PendingInv, Unchecked
<1>d. \A q \in pending : q # p => q.checked /\ q.serial # p.serial /\ q.buffer # wbuf
  BY <1>0, Zenon DEF PendingInv
<1>e. CheckError \in BOOLEAN /\ CheckRecords \in BOOLEAN
  BY Zenon DEF CheckError, CheckRecords, TypeOK
<1>1. CASE CheckGivesBack
  <2>a. /\ pending' = pending \ {p}
        /\ held' = [held EXCEPT ![wbuf] = FALSE]
        /\ queued' = [queued EXCEPT ![wbuf] = FALSE]
        /\ refs' = [refs EXCEPT ![wbuf] = @ - 1]
    BY <1>1, <1>c, Zenon DEF PresentCheck
  <2>b. \A c \in Buffers : /\ InPool(c)' <=> InPool(c)
                           /\ InWork(c)' <=> InWork(c)
                           /\ IsPending(c)' <=> IsPending(c) /\ c # wbuf
                           /\ held'[c] <=> held[c] /\ c # wbuf
                           /\ queued'[c] <=> queued[c] /\ c # wbuf
    BY <1>0, <1>a, <1>b, <1>d, <2>a, Zenon DEF InPool, InWork, IsPending, TypeOK
  <2>1. TypeOK'
    <3>1. /\ held' \in [Buffers -> BOOLEAN] /\ queued' \in [Buffers -> BOOLEAN]
          /\ refs' \in [Buffers -> Int]
      BY <1>a, <2>a DEF TypeOK
    <3> QED
      BY <1>b, <1>e, <2>a, <3>1 DEF TypeOK
  <2>2. PoolInv' /\ WorkInv'
    BY <1>a, <1>b, <2>b, Zenon DEF PoolInv, WorkInv
  <2>3. WorkerInv'
    BY <1>a, <1>b, <2>b, Zenon DEF WorkerInv, Busy, CheckRecords
  <2>4. PendingInv'
    BY <1>a, <1>b, <1>d, <2>a, <2>b DEF PendingInv, TypeOK
  <2>5. AppInv'
    BY <1>a, <1>b, <2>b, Zenon DEF TypeOK, AppInv, OwnedStaysHeld
  <2>6. ServerInv'
    <3>1. ~connection_error => \A o \in onscreen : o.serial # p.serial
      <4>1. CASE request = "rejected"
        BY <1>0, <4>1, Zenon DEF ServerInv
      <4>2. CASE request # "rejected" /\ ~connection_error
        <5>1. p.released
          BY <1>1, <1>c, <4>2, ZenonT(30) DEF CheckGivesBack, CheckError
        <5> QED
          BY <5>1, <1>b, <4>2, <1>d DEF ServerInv
      <4> QED
        BY <4>1, <4>2, Zenon
    <3> QED
      BY <1>b, <1>d, <2>a, <3>1 DEF ServerInv, NoReleaseLost
  <2>7. RefCountExact'
    <3> SUFFICES ASSUME NEW c \in Buffers
                 PROVE  refs'[c] = One(InPool(c)') + One(InWork(c)') + One(wbuf' = c)
                                   + One(IsPending(c)') + One(c \in imported')
      BY Zenon DEF RefCountExact
    <3>1. refs[c] = One(InPool(c)) + One(InWork(c)) + One(wbuf = c)
                    + One(IsPending(c)) + One(c \in imported)
      BY Zenon DEF RefCountExact
    <3>2. /\ refs'[c] = refs[c] - One(c = wbuf) /\ refs[c] \in Int
          /\ c = wbuf => IsPending(c)
      BY <1>0, <1>a, <2>a DEF TypeOK, One, IsPending
    <3> QED
      BY <1>b, <2>b, <3>1, <3>2 DEF One
  <2> QED
    BY <2>1, <2>2, <2>3, <2>4, <2>5, <2>6, <2>7, Zenon DEF IInv
<1>2. CASE ~CheckGivesBack
  <2> DEFINE C(q) == [q EXCEPT !.checked = TRUE]
  <2>a. /\ pending' = {C(q) : q \in pending}
        /\ UNCHANGED <<held, queued, refs>>
    BY <1>2, Zenon DEF PresentCheck
  <2>b. \A q \in pending :
          /\ C(q) \in [buffer : Buffers, serial : 0..MaxSerial,
                       checked : BOOLEAN, released : BOOLEAN]
          /\ C(q).buffer = q.buffer /\ C(q).serial = q.serial /\ C(q).checked
          /\ C(q).released = q.released
    BY Zenon DEF TypeOK
  <2>c. ~CheckError /\ ~connection_error /\ request = "accepted" /\ ~p.released
    BY <1>2, <1>b, <1>c, Zenon DEF CheckGivesBack, CheckError
  <2> HIDE DEF C
  <2>d. \A c \in Buffers : /\ InPool(c)' <=> InPool(c)
                           /\ InWork(c)' <=> InWork(c)
                           /\ IsPending(c)' <=> IsPending(c)
    BY <1>b, <2>a, <2>b, SMTT(30) DEF InPool, InWork, IsPending
  <2>1. TypeOK'
    BY <1>b, <1>e, <2>a, <2>b DEF TypeOK
  <2>2. PoolInv' /\ WorkInv'
    BY <1>b, <2>a, <2>d, Zenon DEF PoolInv, WorkInv
  <2>3. WorkerInv'
    BY <1>a, <1>b, <2>a, <2>c, <2>d, Zenon DEF WorkerInv, Busy, CheckRecords
  <2>4. PendingInv'
    <3>1. \A q \in pending : ~q.released
      BY <1>d, <2>c, ZenonT(30) DEF PendingInv
    <3>2. \A q, r \in pending' :
            q.serial # 0 /\ (q.serial = r.serial \/ q.buffer = r.buffer => q = r)
      BY <2>a, <2>b, SMTT(30) DEF PendingInv
    <3>3. \A q \in pending' :
            /\ held'[q.buffer] /\ queued'[q.buffer]
            /\ q.buffer \notin owned' /\ ~InWork(q.buffer)'
            /\ q.checked /\ ~q.released
      <4>1. owned' = owned /\ held' = held /\ queued' = queued
        BY <1>b, <2>a, Zenon
      <4>2. \A q \in pending : q.buffer \in Buffers
        BY Zenon DEF TypeOK
      <4> QED
        BY <2>a, <2>b, <2>d, <3>1, <4>1, <4>2 DEF PendingInv
    <3> QED
      BY <1>b, <3>2, <3>3, Zenon DEF PendingInv
  <2>5. AppInv'
    BY <1>b, <2>a, <2>d, ZenonT(30) DEF TypeOK, AppInv, OwnedStaysHeld
  <2>6. ServerInv'
    <3>1. \A q \in pending : q.serial \in events \/ \E o \in onscreen : o.serial = q.serial
      BY <1>0, <1>d, <2>c, SMTT(30) DEF ServerInv, NoReleaseLost
    <3>2. \A o \in onscreen' :
            /\ o.buffer \notin owned' /\ o.serial \notin events'
            /\ connection_error' \/ wpc' = "joined" \/ \E q \in pending' :
                 q.serial = o.serial /\ q.buffer = o.buffer /\ ~q.released
      BY <1>b, <2>a, <2>b, SMTT(30) DEF ServerInv
    <3>3. NoReleaseLost'
      BY <1>b, <2>a, <2>b, <3>1 DEF NoReleaseLost
    <3> QED
      BY <1>b, <2>a, <2>b, <3>2, <3>3, SMTT(30) DEF ServerInv
  <2>7. RefCountExact'
    BY <1>b, <2>a, <2>d, Zenon DEF RefCountExact, One
  <2> QED
    BY <2>1, <2>2, <2>3, <2>4, <2>5, <2>6, <2>7, Zenon DEF IInv
<1> QED
  BY <1>1, <1>2, Zenon

-----------------------------------------------------------------------------
\* A step that changes nothing.
LEMMA StutterIInv ==
  ASSUME IInv, UNCHANGED vars PROVE IInv'
<1> USE DEF vars, IInv, poolVars, flagVars, stateVars, workerVars, serverVars, appVars
<1>1. TypeOK'
  BY DEF TypeOK
<1>a. PoolInv' /\ WorkInv'
  BY Zenon DEF PoolInv, WorkInv, InWork, InPool
<1>2. WorkerInv' /\ PendingInv' /\ AppInv'
  BY ZenonT(30) DEF WorkerInv, PendingInv, AppInv, OwnedStaysHeld, InWork, InPool, IsPending, Busy
<1>3. ServerInv' /\ RefCountExact'
  BY DEF ServerInv, NoReleaseLost, RefCountExact, One, InPool, InWork, IsPending
<1> QED
  BY <1>1, <1>a, <1>2, <1>3, Zenon

\* Every step preserves the invariant.
LEMMA NextIInv == IInv /\ [Next]_vars => IInv'
<1> SUFFICES ASSUME IInv, [Next]_vars PROVE IInv'
  OBVIOUS
<1>0. CASE QuietStep
  BY <1>0, QuietIInv, Zenon
<1>1. CASE AppNext /\ ~QuietStep
  <2>1. CASE \E new \in NewPools : Configure(new)
    BY <2>1, ConfigureIInv, Zenon
  <2>2. CASE DequeueTake
    BY <2>2, DequeueTakeIInv, Zenon
  <2>3. CASE DequeueError \/ DequeueBusy \/ (\E b \in Buffers : QueueRefused(b))
    BY <2>3, DrainOnlyIInv, Zenon
  <2>4. ASSUME NEW b \in Buffers, Queue(b) \/ Cancel(b) \/ DropImage(b)
        PROVE  IInv'
    BY <2>4, QueueIInv, CancelIInv, DropImageIInv, Zenon
  <2>5. CASE Disconnect \/ DisconnectResume
    BY <2>5, DisconnectIInv, Zenon
  <2>6. CASE DestroyFinish
    BY <2>6, DestroyFinishIInv, Zenon
  <2> QED
    BY <1>1, <2>1, <2>2, <2>3, <2>4, <2>5, <2>6, Zenon DEF AppNext, QuietStep
<1>2. CASE WorkerNext /\ ~QuietStep
  BY <1>2, WorkerTakeIInv, PresentSendIInv, PresentCheckIInv, WorkerFinishIInv, Zenon
     DEF WorkerNext, QuietStep
<1>3. CASE ServerNext /\ ~QuietStep
  BY <1>3, ServerAcceptIInv, ServerReleaseIInv, Zenon DEF ServerNext, QuietStep
<1>4. CASE UNCHANGED vars
  BY <1>4, StutterIInv, Zenon
<1> QED
  BY <1>0, <1>1, <1>2, <1>3, <1>4, Zenon DEF Next, QuietStep

\* The inductive invariant holds in every reachable state of the window.
THEOREM InvariantHolds == Spec => []IInv
<1>1. Init => IInv
  BY InitIInv, Zenon
<1>2. IInv /\ [Next]_vars => IInv'
  BY NextIInv, Zenon
<1> QED
  BY <1>1, <1>2, PTL DEF Spec

\* A buffer the application may draw into is neither queued, nor on its way to
\* the server, nor held by it: present() and drain() of native_window_x11.cpp
\* never leave a buffer with two owners.
THEOREM OwnershipSafe == Spec => []ExclusiveOwnership
<1>1. IInv => ExclusiveOwnership
  <2> SUFFICES ASSUME IInv, NEW b \in owned
               PROVE  /\ ~InWork(b) /\ ~IsPending(b)
                      /\ ~(wbuf = b /\ wpc \in {"present", "checking"})
                      /\ \A o \in onscreen : o.buffer # b
    BY Zenon DEF ExclusiveOwnership
  <2>1. ~InWork(b)
    BY Zenon DEF IInv, TypeOK, WorkInv
  <2>2. ~IsPending(b)
    BY Zenon DEF IInv, PendingInv, IsPending
  <2>3. ~(wbuf = b /\ wpc \in {"present", "checking"})
    BY Zenon DEF IInv, WorkerInv
  <2>4. \A o \in onscreen : o.buffer # b
    BY Zenon DEF IInv, ServerInv
  <2> QED
    BY <2>1, <2>2, <2>3, <2>4, Zenon
<1> QED
  BY <1>1, InvariantHolds, PTL

\* The presenter's write of held after present() has dropped the lock never hits
\* a buffer that the application has dequeued meanwhile.
THEOREM NoDoubleDequeue == Spec => []OwnedStaysHeld
<1>1. IInv => OwnedStaysHeld
  BY Zenon DEF IInv, AppInv
<1> QED
  BY <1>1, InvariantHolds, PTL

\* Every Buffer has exactly as many references as holders.
THEOREM ReferencesExact == Spec => []RefCountExact
<1>1. IInv => RefCountExact
  BY Zenon DEF IInv
<1> QED
  BY <1>1, InvariantHolds, PTL

\* A release event names one pending present, for every range of the serial.
THEOREM SerialsDistinct == Spec => []PendingSerialsDistinct
<1>1. IInv => PendingSerialsDistinct
  BY Zenon DEF IInv, PendingInv, PendingSerialsDistinct
<1> QED
  BY <1>1, InvariantHolds, PTL

\* A release that overtakes the reply to its own present is remembered.
THEOREM ReleasesKept == Spec => []NoReleaseLost
<1>1. IInv => NoReleaseLost
  BY Zenon DEF IInv, ServerInv
<1> QED
  BY <1>1, InvariantHolds, PTL

\* disconnect() and destroy() drop the pool only when no submission is left.
THEOREM PoolKept == Spec => []PoolOutlivesWork
<1>1. IInv => PoolOutlivesWork
  BY BufferAssumption, Zenon DEF IInv, TypeOK, WorkInv, WorkerInv, PoolOutlivesWork
<1> QED
  BY <1>1, InvariantHolds, PTL

-----------------------------------------------------------------------------
(* The window implements BufferQueue. *)

\* A queue with a submission in front of it.
LEMMA ConsFacts ==
  ASSUME NEW S, NEW w \in S, NEW s \in Seq(S)
  PROVE  /\ <<w>> \o s \in Seq(S) /\ <<w>> \o s # <<>>
         /\ Head(<<w>> \o s) = w /\ Tail(<<w>> \o s) = s
         /\ \A e \in S : Append(<<w>> \o s, e) = <<w>> \o Append(s, e)
         /\ \A i \in DOMAIN (<<w>> \o s) :
              (<<w>> \o s)[i] = w \/ \E j \in 1..Len(s) : s[j] = (<<w>> \o s)[i]
<1>1. /\ <<w>> \o s \in Seq(S) /\ <<w>> \o s # <<>> /\ Head(<<w>> \o s) = w
  OBVIOUS
<1>2. Tail(<<w>> \o s) = s
  OBVIOUS
<1>3. \A e \in S : Append(<<w>> \o s, e) = <<w>> \o Append(s, e)
  OBVIOUS
<1>4. \A i \in DOMAIN (<<w>> \o s) :
        (<<w>> \o s)[i] = w \/ \E j \in 1..Len(s) : s[j] = (<<w>> \o s)[i]
  OBVIOUS
<1> QED
  BY <1>1, <1>2, <1>3, <1>4, Zenon

\* A queue without its head, and the head in front of it.
LEMMA HeadTail ==
  ASSUME NEW S, NEW s \in Seq(S), s # <<>>
  PROVE  <<Head(s)>> \o Tail(s) = s
  OBVIOUS

\* The presenter has a buffer whenever the server has not seen it.
LEMMA InHandBuffer == IInv /\ InHand => wbuf \in Buffers
  BY Zenon DEF IInv, TypeOK, WorkerInv, InHand, Busy

\* Every step of the window is one step of the buffer queue or none.
LEMMA RefinementStep ==
  ASSUME IInv, Next PROVE [Promise!Next]_(Promise!vars)
<1> USE DEF Promise!vars, Promise!Next, poolVars, flagVars, stateVars, workerVars,
      serverVars, appVars
<1> DEFINE Same == owned' = owned /\ Fifo' = Fifo /\ Display' = Display
<1>0. /\ work \in Seq(Buffers) /\ owned \subseteq Buffers
      /\ InHand => wbuf \in Buffers
  BY InHandBuffer, Zenon DEF IInv, TypeOK
<1>1. ASSUME UNCHANGED <<owned, work, wpc, wbuf, request, onscreen>> PROVE Same
  BY <1>1, Zenon DEF Fifo, Display, InHand
<1>2. ASSUME UNCHANGED <<work, wpc, wbuf, request, onscreen>>,
             NEW b \in Buffers, owned' = owned \ {b}
      PROVE  Same \/ Promise!GiveBack(b)
  BY <1>2, Zenon DEF Fifo, Display, InHand, Promise!GiveBack
<1>3. CASE DequeueTake
  <2>1. PICK b \in Buffers : ~DrainedHeld[b] /\ owned' = owned \cup {b}
    <3>1. PICK step \in 0..(Len(pool) - 1) :
            /\ ~DrainedHeld[SlotBuffer(step)]
            /\ owned' = owned \cup {SlotBuffer(step)}
      BY <1>3, Zenon DEF DequeueTake
    <3>2. Len(pool) \in Nat \ {0} /\ pool \in Seq(Buffers) /\ next_buffer \in Nat
      BY <3>1 DEF IInv, TypeOK
    <3>3. Slot(step) \in 0..(Len(pool) - 1)
      BY <3>1, <3>2 DEF Slot
    <3>4. Slot(step) + 1 \in 1..Len(pool)
      BY <3>2, <3>3
    <3>5. SlotBuffer(step) \in Buffers
      BY <3>2, <3>4 DEF SlotBuffer
    <3> QED
      BY <3>1, <3>5, Zenon
  <2>2. /\ ~asynchronous_error /\ ~connection_error /\ ~stopping
        /\ UNCHANGED <<work, wpc, wbuf, request, onscreen>>
    BY <1>3, Zenon DEF DequeueTake, DequeueRefused
  <2>3. b \notin owned \/ Same
    BY <2>1, <2>2, <1>1, Zenon
  <2>4. ~InWork(b) /\ (InHand => wbuf # b)
    BY <2>1, <2>2, DrainedFlagFacts, Zenon DEF IInv, WorkInv, WorkerInv, InHand
  <2>5. b \notin Display
    <3>1. \A q \in DrainedPending : q.buffer # b
      BY <2>1, DrainedPendingInv, Zenon
    <3> QED
      BY <3>1, <2>2, DrainedServerInv DEF IInv, WorkerInv, Display
  <2>6. \A i \in DOMAIN Fifo : Fifo[i] # b
    BY <2>4, <1>0, ConsFacts DEF Fifo, InWork
  <2>7. Fifo' = Fifo /\ Display' = Display
    BY <2>2, Zenon DEF Fifo, Display, InHand
  <2> QED
    BY <2>1, <2>3, <2>5, <2>6, <2>7, Zenon DEF Promise!Dequeue, Promise!Queued
<1>4. ASSUME NEW b \in Buffers, Queue(b) PROVE Promise!Queue(b)
  <2>1. /\ InHand' <=> InHand
        /\ wbuf' = wbuf /\ work' = Append(work, b) /\ Display' = Display
        /\ b \in owned /\ owned' = owned \ {b}
    BY <1>4, Zenon DEF Queue, SignalWorker, InHand, Display, AppendWork
  <2>2. Fifo' = Append(Fifo, b)
    BY <1>0, <2>1, ConsFacts, SMTT(30) DEF Fifo
  <2> QED
    BY <2>1, <2>2, Zenon DEF Promise!Queue
<1>5. CASE WorkerTake
  <2>1. ~InHand /\ InHand' /\ work # <<>> /\ wbuf' = Head(work) /\ work' = Tail(work)
    BY <1>5, Zenon DEF IInv, WorkerTake, InHand
  <2>2. Fifo' = Fifo
    BY <1>0, <2>1, HeadTail, Zenon DEF Fifo
  <2> QED
    BY <1>5, <2>2, Zenon DEF WorkerTake, Display
<1>6. CASE PresentEarlyError
  <2>1. InHand /\ ~InHand' /\ work' = work
    BY <1>6, Zenon DEF PresentEarlyError, InHand
  <2>2. Fifo # <<>> /\ Fifo' = Tail(Fifo)
    BY <1>0, <2>1, ConsFacts DEF Fifo
  <2> QED
    BY <1>6, <2>2, Zenon DEF PresentEarlyError, Display, Promise!Discard
<1>7. CASE PresentSend
  <2>1. InHand /\ InHand' /\ UNCHANGED <<work, wbuf, owned, onscreen>>
    BY <1>7, Zenon DEF PresentSend, InHand
  <2> QED
    BY <2>1, Zenon DEF Fifo, Display
<1>8. CASE PresentCheck
  <2>1. ~InHand' /\ UNCHANGED <<work, wbuf, owned, onscreen>>
    BY <1>8, Zenon DEF PresentCheck, InHand
  <2>2. CASE InHand
    <3>1. Fifo # <<>> /\ Fifo' = Tail(Fifo)
      BY <1>0, <2>1, <2>2, ConsFacts DEF Fifo
    <3> QED
      BY <2>1, <3>1, Zenon DEF Display, Promise!Discard
  <2>3. CASE ~InHand
    BY <2>1, <2>3, Zenon DEF Fifo, Display
  <2> QED
    BY <2>2, <2>3, Zenon
<1>9. CASE WorkerFinish
  <2>1. ~InHand /\ ~InHand' /\ UNCHANGED <<work, owned, onscreen>>
    BY <1>9, Zenon DEF WorkerFinish, InHand
  <2> QED
    BY <2>1, Zenon DEF Fifo, Display
<1>10. CASE ServerAccept
  <2>1. wpc = "checking" /\ InHand /\ ~InHand' /\ UNCHANGED <<work, wbuf, owned>>
    BY <1>10, Zenon DEF IInv, ServerInv, ServerAccept, InHand
  <2>2. PICK p \in pending : p.buffer = wbuf /\ ~p.checked
    BY <2>1, Zenon DEF IInv, PendingInv
  <2>3. Unchecked = {p}
    BY <2>2, Zenon DEF IInv, PendingInv, Unchecked
  <2>4. onscreen' = onscreen \cup {[buffer |-> wbuf, serial |-> p.serial]}
    BY <1>10, <2>2, <2>3, Zenon DEF ServerAccept
  <2>5. Display' = Display \cup {wbuf}
    <3>1. PICK o : o = [buffer |-> wbuf, serial |-> p.serial]
      BY Zenon
    <3>2. o.buffer = wbuf /\ onscreen' = onscreen \cup {o}
      BY <2>4, <3>1, Zenon
    <3> QED
      BY <3>2, Zenon DEF Display
  <2>6. Fifo # <<>> /\ Head(Fifo) = wbuf /\ Fifo' = Tail(Fifo)
    BY <1>0, <2>1, ConsFacts DEF Fifo
  <2> QED
    BY <2>1, <2>5, <2>6, Zenon DEF Promise!Present
<1>11. ASSUME NEW o \in onscreen, ServerRelease(o)
       PROVE  Promise!Release(o.buffer) /\ o.buffer \in Buffers
  <2>1. o.buffer \in Buffers /\ o.buffer \in Display
    BY Zenon DEF IInv, TypeOK, Display
  <2>2. Display' = Display \ {o.buffer}
    BY <1>11 DEF ServerRelease, Display, IInv, ServerInv
  <2>3. Fifo' = Fifo /\ owned' = owned
    BY <1>11, Zenon DEF ServerRelease, Fifo, InHand
  <2> QED
    BY <2>1, <2>2, <2>3, Zenon DEF Promise!Release
<1>12. ASSUME WorkerWait \/ WorkerExit \/ Destroy \/ DestroyFinish \/ SpuriousWakeup
       PROVE  Same
  <2>1. (~InHand /\ ~InHand') \/ (InHand /\ InHand' /\ wbuf' = wbuf)
    BY <1>12, Zenon DEF WorkerWait, WorkerExit, Destroy, DestroyFinish, SpuriousWakeup,
       SignalWorker, InHand
  <2>2. UNCHANGED <<work, owned, onscreen>>
    BY <1>12, Zenon DEF WorkerWait, WorkerExit, Destroy, DestroyFinish, SpuriousWakeup
  <2> QED
    BY <2>1, <2>2, Zenon DEF Fifo, Display
<1>13. ASSUME ServerReject PROVE Same
  <2>1. InHand' <=> InHand
    BY <1>13, Zenon DEF ServerReject, InHand
  <2> QED
    BY <1>13, <2>1, Zenon DEF ServerReject, Fifo, Display
<1>14. CASE AppNext
  <2>1. ASSUME NEW new \in NewPools, Configure(new) PROVE Same
    BY <2>1, <1>1, Zenon DEF Configure
  <2>2. ASSUME ConfigureNoMemory \/ DequeueForever \/ DequeueError \/ DequeueBusy
               \/ DequeuePollError
        PROVE  Same
    BY <2>2, <1>1, Zenon DEF ConfigureNoMemory, DequeueForever, DequeueError, DequeueBusy,
       DequeuePollError
  <2>3. ASSUME NEW b \in Buffers, QueueRefused(b) PROVE Same
    BY <2>3, <1>1, Zenon DEF QueueRefused
  <2>4. ASSUME NEW b \in Buffers, Cancel(b) \/ CancelFenceError(b) \/ DropImage(b)
        PROVE  Same \/ Promise!GiveBack(b)
    BY <2>4, <1>2, Zenon DEF Cancel, CancelFenceError, DropImage
  <2>5. ASSUME Disconnect \/ DisconnectResume PROVE Same
    BY <2>5, <1>1, Zenon DEF Disconnect, DisconnectResume
  <2>6. ASSUME Destroyed PROVE Same
    BY <2>6, <1>1, Zenon DEF Destroyed, vars
  <2> HIDE DEF Same
  <2>7. \/ Same \/ DequeueTake
        \/ \E b \in Buffers : Promise!GiveBack(b) \/ Promise!Queue(b)
    BY <1>14, <1>4, <1>12, <2>1, <2>2, <2>3, <2>4, <2>5, <2>6, Zenon DEF AppNext
  <2> QED
    BY <2>7, <1>3, Zenon DEF Same
<1>15. CASE WorkerNext
  BY <1>15, <1>5, <1>6, <1>7, <1>8, <1>9, <1>12, Zenon DEF WorkerNext
<1>16. CASE ServerNext
  <2>1. ASSUME ConnectionBreaks PROVE Same
    BY <2>1, <1>1, Zenon DEF ConnectionBreaks
  <2> QED
    BY <1>16, <1>10, <1>11, <1>13, <2>1, Zenon DEF ServerNext
<1> QED
  BY <1>12, <1>14, <1>15, <1>16, Zenon DEF Next

\* The X11 window implements the abstract buffer queue: a buffer has one owner,
\* only idle buffers are handed out, presents happen in queue order.
THEOREM Refinement == Spec => ImplementsBufferQueue
<1>1. Init => Promise!Init
  BY Zenon DEF Init, Promise!Init, Fifo, Display, InHand
<1>2. IInv /\ [Next]_vars => [Promise!Next]_(Promise!vars)
  <2> SUFFICES ASSUME IInv, [Next]_vars PROVE [Promise!Next]_(Promise!vars)
    OBVIOUS
  <2>1. CASE UNCHANGED vars
    BY <2>1, Zenon DEF vars, appVars, workerVars, serverVars, Promise!vars, Fifo, Display, InHand
  <2>2. CASE Next
    BY <2>2, RefinementStep, Zenon
  <2> QED
    BY <2>1, <2>2, Zenon
<1> QED
  BY <1>1, <1>2, InvariantHolds, PTL DEF Spec, ImplementsBufferQueue, Promise!Spec

=============================================================================
