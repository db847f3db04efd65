------------------------ MODULE ReadbackSubmitProofs ------------------------
(* The readback tracking keeps its promises for every number of threads, queues,
   fences and submissions: the inductive invariant, that every step keeps it, and
   what it says. *)
EXTENDS ReadbackSubmit, TLAPS

SubmitPlaces == {"driver", "failed", "detached", "release"}
CompletePlaces == {"lock", "detach", "invalidate", "reset", "forget", "return"}
Known == 1..nextSerial

SubTypes ==
  /\ nextSerial \in 0..MaxSerial /\ submissions \subseteq Known
  /\ fenceOf \in [Serials -> Fences \cup {None}] /\ queueOf \in [Serials -> Queues \cup {None}]
  /\ refs \in [Serials -> Int] /\ cancelled \in [Serials -> BOOLEAN]
  /\ \A s \in Known : queueOf[s] \in Queues
  /\ \A s \in Serials : cancelled[s] => s \in Known
CallTypes ==
  /\ completing \in Threads \cup {None}
  /\ pc \in [Threads -> {"idle"} \cup SubmitPlaces \cup CompletePlaces]
  /\ op \in [Threads -> {"none", "submit", "wait", "reset", "queue_idle"}]
  /\ serial \in [Threads -> 0..MaxSerial] /\ result \in [Threads -> {"ok", "error"}]
  /\ fence \in [Threads -> Fences \cup {None}] /\ queue \in [Threads -> Queues \cup {None}]
DataTypes ==
  /\ work \in [Threads -> SUBSET Known] /\ \A t \in Threads : work[t] \cap submissions = {}
  /\ accepted \subseteq Known /\ done \subseteq accepted /\ visible \subseteq Known
  /\ must \in [Threads -> SUBSET accepted]
  /\ signaled \subseteq Fences /\ pending \in [Fences -> accepted \cup {0}]
  /\ failed \in BOOLEAN
Types == SubTypes /\ CallTypes /\ DataTypes

\* Where a thread is, what it holds, and that completion is serialised.
CallInv(t) ==
  /\ op[t] = "none" <=> pc[t] = "idle"
  /\ op[t] = "submit" <=> pc[t] \in SubmitPlaces
  /\ op[t] \in {"wait", "reset"} => fence[t] \in Fences
  /\ op[t] = "queue_idle" => fence[t] = None
  /\ pc[t] \in {"reset", "forget"} => op[t] = "reset"
  /\ pc[t] \in {"lock", "detach", "reset", "forget"} => result[t] = "ok"
  /\ pc[t] \in {"detach", "invalidate"} <=> completing = t
  /\ pc[t] # "invalidate" => work[t] = {}
  /\ op[t] = "wait" \/ (op[t] = "reset" /\ pc[t] \in {"detach", "invalidate"})
       => fence[t] \in signaled
  /\ op[t] = "reset" /\ pc[t] \in {"lock", "reset"} => fence[t] \in signaled \/ pending[fence[t]] = 0
  /\ pc[t] = "forget" => pending[fence[t]] = 0

\* A submission in progress is the latest of its queue, and one the driver has
\* not seen is still in the list, behind a fence nobody waits for.
SubmitInv(t) ==
  op[t] = "submit" =>
    /\ serial[t] \in Known /\ queueOf[serial[t]] = queue[t] /\ queue[t] \in Queues
    /\ \A x \in Known : queueOf[x] = queue[t] => x <= serial[t]
    /\ pc[t] \in {"driver", "failed", "detached"} => serial[t] \notin accepted
    /\ pc[t] = "driver" => /\ serial[t] \in submissions /\ fenceOf[serial[t]] = fence[t]
                           /\ ~cancelled[serial[t]]
                           /\ fence[t] # None => fence[t] \notin signaled /\ pending[fence[t]] = 0
    /\ pc[t] = "detached" => /\ serial[t] \notin submissions
                             /\ \A u \in Threads : serial[t] \notin work[u]

\* What external synchronisation keeps apart.
Apart(t, u) ==
  /\ op[t] \in {"submit", "queue_idle"} /\ op[u] \in {"submit", "queue_idle"} =>
       ~Matches(queue[t], queue[u])
  /\ /\ (pc[t] = "driver" /\ fence[t] # None) \/ op[t] = "reset"
     /\ op[u] \in {"submit", "wait", "reset"}
     => fence[u] # fence[t]

\* The driver's fences and queues, and where the layer keeps what it has to do.
DriverInv ==
  /\ \A f \in Fences : pending[f] # 0 => fenceOf[pending[f]] = f
  /\ \A x \in accepted : ~cancelled[x]
  /\ \A x \in accepted : x \in submissions \cup visible \/ \E u \in Threads : x \in work[u]
  /\ \A x \in accepted, y \in done : queueOf[x] = queueOf[y] /\ x < y => x \in done

\* Without a failure submissions leave the list in the order of their queue.
OrderInv ==
  ~failed => \A x, y \in accepted :
    queueOf[x] = queueOf[y] /\ x < y /\ y \notin submissions => x \notin submissions

Last(t, s) == s \in must[t] /\ \A x \in must[t] : x <= s

\* How far a completing call has got with what it reports.
ReportInv(t) ==
  /\ pc[t] \in {"lock", "detach"} /\ op[t] \in {"wait", "reset"} =>
       \A x \in must[t] :
         /\ pending[fence[t]] \in must[t] /\ x <= pending[fence[t]]
         /\ queueOf[x] = queueOf[pending[fence[t]]]
  /\ pc[t] \in {"lock", "detach"} /\ op[t] = "queue_idle" =>
       \A x \in must[t] : Matches(queue[t], queueOf[x])
  /\ pc[t] = "invalidate" /\ result[t] = "ok" =>
       /\ op[t] \in {"wait", "reset"} => \A s \in must[t] : Last(t, s) => s \in work[t] \cup visible
       /\ ~failed => must[t] \subseteq work[t] \cup visible
  /\ pc[t] \in {"reset", "forget", "return"} /\ result[t] = "ok" =>
       /\ op[t] \in {"wait", "reset"} => \A s \in must[t] : Last(t, s) => s \in visible
       /\ ~failed => must[t] \subseteq visible

\* As long as every submission works, what has left the list was executed.
InDriver(s) == \E t \in Threads : pc[t] = "driver" /\ serial[t] = s
ExecInv ==
  SubmitsWork =>
    /\ visible \subseteq done /\ \A t \in Threads : work[t] \subseteq done
    /\ \A f \in signaled : pending[f] # 0 => pending[f] \in done
    /\ \A m \in submissions : fenceOf[m] # None =>
         m \in done \/ pending[fenceOf[m]] = m \/ InDriver(m)
    /\ \A t \in Threads : op[t] = "queue_idle" /\ pc[t] \in {"lock", "detach"} =>
         \A x \in accepted : Matches(queue[t], queueOf[x]) => x \in done

\* The references of a submission, without counting its submitters.
Held(s) ==
  s \in submissions \/ \E t \in Threads : s \in work[t] \/ (pc[t] = "detached" /\ serial[t] = s)
Submitting(s) == \E t \in Threads : op[t] = "submit" /\ serial[t] = s
RefInv ==
  \A s \in Serials :
    refs[s] = (IF Held(s) THEN 1 ELSE 0) + (IF Submitting(s) THEN 1 ELSE 0)

IInv ==
  /\ Types /\ RefInv /\ DriverInv /\ OrderInv /\ ExecInv
  /\ \A t \in Threads : CallInv(t) /\ SubmitInv(t) /\ ReportInv(t)
  /\ \A t, u \in Threads : t # u => Apart(t, u)

-----------------------------------------------------------------------------
(* What the steps share *)

dataVars ==
  <<submissions, queueOf, fenceOf, cancelled, nextSerial, accepted, done, signaled,
    pending, visible, failed, work>>
Kept(v) ==
  /\ op'[v] = op[v] /\ pc'[v] = pc[v] /\ serial'[v] = serial[v] /\ fence'[v] = fence[v]
  /\ queue'[v] = queue[v] /\ must'[v] = must[v] /\ result'[v] = result[v]

\* The types are part of the invariant.
LEMMA Typed ==
  ASSUME IInv
  PROVE  Types
  BY Zenon DEF IInv

\* Submissions are positive numbers.
LEMMA Numbers ==
  ASSUME IInv
  PROVE  /\ Known \subseteq Int /\ Known \subseteq Serials /\ accepted \subseteq Known
         /\ submissions \subseteq Known /\ \A x \in Known : x # 0
<1>1. /\ nextSerial \in 0..MaxSerial /\ accepted \subseteq Known /\ submissions \subseteq Known
  BY Zenon DEF IInv, Types, SubTypes, DataTypes
<1>2. Known \subseteq Int /\ Known \subseteq Serials /\ \A x \in Known : x # 0
  BY <1>1, SerialAssumption DEF Known, Serials
<1> QED
  BY <1>1, <1>2

\* A call that starts sets its own locals.
LEMMA CallEffect ==
  ASSUME Types, NEW t \in Threads, NEW o, NEW l, NEW s, NEW f, NEW q, NEW m,
         Call(t, o, l, s, f, q, m)
  PROVE  /\ op'[t] = o /\ pc'[t] = l /\ serial'[t] = s /\ fence'[t] = f
         /\ queue'[t] = q /\ must'[t] = m /\ result'[t] = "ok"
         /\ completing' = completing /\ work' = work
         /\ \A v \in Threads \ {t} : Kept(v)
  BY DEF Types, CallTypes, DataTypes, Call, Goto, Kept

\* A call that goes on changes only where it is.
LEMMA GotoEffect ==
  ASSUME Types, NEW t \in Threads, NEW l, Goto(t, l),
         UNCHANGED <<op, serial, fence, queue, result, must>>
  PROVE  /\ pc'[t] = l /\ \A v \in Threads \ {t} : Kept(v)
         /\ \A v \in Threads : /\ op'[v] = op[v] /\ serial'[v] = serial[v] /\ fence'[v] = fence[v]
                               /\ queue'[v] = queue[v] /\ must'[v] = must[v]
                               /\ result'[v] = result[v]
  BY DEF Types, CallTypes, Goto, Kept

\* The locals of a call that starts have their types.
LEMMA CallTyped ==
  ASSUME Types, NEW t \in Threads, NEW o \in {"none", "submit", "wait", "reset", "queue_idle"},
         NEW l \in {"idle"} \cup SubmitPlaces \cup CompletePlaces, NEW s \in 0..MaxSerial,
         NEW f \in Fences \cup {None}, NEW q \in Queues \cup {None}, NEW m \in SUBSET accepted,
         Call(t, o, l, s, f, q, m)
  PROVE  CallTypes' /\ must' \in [Threads -> SUBSET accepted]
  BY DEF Types, CallTypes, DataTypes, Call, Goto

\* The locals of a call that goes on have their types.
LEMMA GotoTyped ==
  ASSUME Types, NEW t \in Threads, NEW l \in {"idle"} \cup SubmitPlaces \cup CompletePlaces,
         Goto(t, l), completing' \in Threads \cup {None},
         UNCHANGED <<op, serial, fence, queue, result>>
  PROVE  CallTypes'
  BY DEF Types, CallTypes, Goto

\* A step of one thread that leaves the tracked submissions and the driver alone
\* disturbs no other thread.
LEMMA FrameData ==
  ASSUME Types, DriverInv, OrderInv, UNCHANGED dataVars
  PROVE  DriverInv' /\ OrderInv'
  BY Zenon DEF DriverInv, OrderInv, dataVars

\* What was executed stays so while the tracked submissions are left alone.
LEMMA FrameExec ==
  ASSUME ExecInv, UNCHANGED dataVars,
         \A v \in Threads : /\ pc'[v] = "driver" <=> pc[v] = "driver"
                            /\ pc[v] = "driver" => serial'[v] = serial[v],
         \A v \in Threads : op'[v] = "queue_idle" /\ pc'[v] \in {"lock", "detach"} =>
           \/ op[v] = "queue_idle" /\ pc[v] \in {"lock", "detach"} /\ queue'[v] = queue[v]
           \/ \A x \in accepted : Matches(queue'[v], queueOf[x]) => x \in done
  PROVE  ExecInv'
<1> SUFFICES ASSUME SubmitsWork'
             PROVE  ExecInv'
  BY Zenon DEF ExecInv
<1>1. \A m : InDriver(m)' <=> InDriver(m)
  BY Zenon DEF InDriver
<1>2. SubmitsWork
  BY Zenon DEF SubmitsWork, dataVars
<1>3. \A v \in Threads : op'[v] = "queue_idle" /\ pc'[v] \in {"lock", "detach"} =>
        \A x \in accepted : Matches(queue'[v], queueOf[x]) => x \in done
  BY <1>2, Zenon DEF ExecInv
<1> QED
  BY <1>1, <1>2, <1>3, Zenon DEF ExecInv, dataVars

\* References stay exact while holders and submitters stay.
LEMMA FrameRefs ==
  ASSUME RefInv, UNCHANGED <<refs, submissions, work>>,
         \A v \in Threads : /\ op'[v] = "submit" <=> op[v] = "submit"
                            /\ op[v] = "submit" => serial'[v] = serial[v]
                            /\ pc'[v] = "detached" <=> pc[v] = "detached"
                            /\ pc[v] = "detached" => serial'[v] = serial[v]
  PROVE  RefInv'
<1>1. \A s : (Held(s)' <=> Held(s)) /\ (Submitting(s)' <=> Submitting(s))
  BY Zenon DEF Held, Submitting
<1>2. Serials' = Serials
  BY Zenon DEF Serials
<1> QED
  BY <1>1, <1>2, Zenon DEF RefInv

\* A thread whose locals stay keeps its part of the invariant.
LEMMA FrameThread ==
  ASSUME NEW v \in Threads, UNCHANGED dataVars, Kept(v),
         CallInv(v), SubmitInv(v), ReportInv(v), completing' = v <=> completing = v
  PROVE  CallInv(v)' /\ SubmitInv(v)' /\ ReportInv(v)'
<1>1. CallInv(v)'
  BY Zenon DEF CallInv, Kept, dataVars
<1>2. SubmitInv(v)'
  BY Zenon DEF SubmitInv, Kept, dataVars, Known
<1>3. ReportInv(v)'
  <2>1. \A s : Last(v, s)' <=> Last(v, s)
    BY Zenon DEF Last, Kept
  <2> QED
    BY <2>1, Zenon DEF ReportInv, Kept, dataVars
<1> QED
  BY <1>1, <1>2, <1>3

\* Two threads whose locals stay are kept apart as before.
LEMMA FrameApart ==
  ASSUME NEW v \in Threads, NEW u \in Threads, Kept(v), Kept(u), Apart(v, u)
  PROVE  Apart(v, u)'
  BY Zenon DEF Apart, Kept

\* A fence covers its submission and the earlier ones of the same queue.
LEMMA CoveredFacts ==
  ASSUME Types, NEW f \in Fences
  PROVE  /\ Covered(f) \in SUBSET accepted
         /\ \A x \in Covered(f) :
              /\ pending[f] \in Covered(f) /\ x <= pending[f]
              /\ queueOf[x] = queueOf[pending[f]]
<1>1. pending[f] # 0 => pending[f] \in accepted
  BY Zenon DEF Types, DataTypes
<1>2. accepted \subseteq Known
  BY Zenon DEF Types, DataTypes
<1>3. nextSerial \in Int
  BY SerialAssumption DEF Types, SubTypes
<1>4. \A x \in Known : x <= x
  BY <1>3 DEF Known
<1> QED
  BY <1>1, <1>2, <1>4, Zenon DEF Covered, Upto

-----------------------------------------------------------------------------
(* Steps that change only what a thread is doing *)

\* A step of one completing thread that leaves the tracked submissions alone.
LEMMA LocalStep ==
  ASSUME IInv, NEW t \in Threads, UNCHANGED dataVars, refs' = refs,
         CallTypes', must' \in [Threads -> SUBSET accepted],
         \A v \in Threads \ {t} : Kept(v) /\ (completing' = v <=> completing = v),
         op[t] # "submit", op'[t] # "submit",
         pc[t] \notin {"driver", "detached"}, pc'[t] \notin {"driver", "detached"},
         op'[t] = "queue_idle" /\ pc'[t] \in {"lock", "detach"} =>
           \/ op[t] = "queue_idle" /\ pc[t] \in {"lock", "detach"} /\ queue'[t] = queue[t]
           \/ \A x \in accepted : Matches(queue'[t], queueOf[x]) => x \in done,
         CallInv(t)', ReportInv(t)',
         \A v \in Threads \ {t} : Apart(v, t)' /\ Apart(t, v)'
  PROVE  IInv'
<1>1. Types'
  BY Zenon DEF IInv, Types, SubTypes, DataTypes, dataVars, Known
<1>2. DriverInv' /\ OrderInv'
  BY FrameData, Zenon DEF IInv
<1>3. ExecInv'
  <2>1. \A v \in Threads :
          /\ pc'[v] = "driver" <=> pc[v] = "driver"
          /\ pc[v] = "driver" => serial'[v] = serial[v]
    BY Zenon DEF Kept
  <2>2. \A v \in Threads : op'[v] = "queue_idle" /\ pc'[v] \in {"lock", "detach"} =>
          \/ op[v] = "queue_idle" /\ pc[v] \in {"lock", "detach"} /\ queue'[v] = queue[v]
          \/ \A x \in accepted : Matches(queue'[v], queueOf[x]) => x \in done
    BY Zenon DEF Kept
  <2> QED
    BY <2>1, <2>2, FrameExec, Zenon DEF IInv
<1>4. RefInv'
  <2>1. \A v \in Threads :
          /\ op'[v] = "submit" <=> op[v] = "submit"
          /\ op[v] = "submit" => serial'[v] = serial[v]
          /\ pc'[v] = "detached" <=> pc[v] = "detached"
          /\ pc[v] = "detached" => serial'[v] = serial[v]
    BY Zenon DEF Kept
  <2>2. UNCHANGED <<refs, submissions, work>>
    BY Zenon DEF dataVars
  <2> QED
    BY <2>1, <2>2, FrameRefs, Zenon DEF IInv
<1>5. SubmitInv(t)'
  BY Zenon DEF SubmitInv
<1>6. \A v \in Threads \ {t} : CallInv(v)' /\ SubmitInv(v)' /\ ReportInv(v)'
  BY FrameThread, Zenon DEF IInv
<1>7. \A v, u \in Threads \ {t} : v # u => Apart(v, u)'
  BY FrameApart, Zenon DEF IInv
<1> QED
  BY <1>1, <1>2, <1>3, <1>4, <1>5, <1>6, <1>7, Zenon DEF IInv

\* wait_fences() or fence_status() has its answer from the driver.
LEMMA WaitFenceStep ==
  ASSUME IInv, NEW t \in Threads, NEW f \in Fences, WaitFence(t, f)
  PROVE  IInv'
<1>1. /\ Call(t, "wait", "lock", 0, f, None, Covered(f)) /\ UNCHANGED dataVars /\ refs' = refs
  BY Zenon DEF WaitFence, Leave, Call, subVars, driverVars, dataVars
<1>2. pc[t] = "idle" /\ op[t] = "none" /\ work[t] = {} /\ completing # t
  BY Zenon DEF WaitFence, IInv, CallInv
<1>3. /\ f \in signaled /\ Covered(f) \in SUBSET accepted
      /\ \A x \in Covered(f) :
           /\ pending[f] \in Covered(f) /\ x <= pending[f]
           /\ queueOf[x] = queueOf[pending[f]]
  BY CoveredFacts, Zenon DEF WaitFence, IInv
<1>4. /\ op'[t] = "wait" /\ pc'[t] = "lock" /\ fence'[t] = f /\ queue'[t] = None
      /\ must'[t] = Covered(f) /\ result'[t] = "ok" /\ completing' = completing
      /\ \A v \in Threads \ {t} : Kept(v)
  BY <1>1, Typed, CallEffect, ZenonT(30)
<1>5. CallTypes' /\ must' \in [Threads -> SUBSET accepted]
  <2>1. Covered(f) \in SUBSET accepted /\ 0 \in 0..MaxSerial
    BY SerialAssumption, <1>3
  <2> QED
    BY <2>1, <1>1, CallTyped, Zenon DEF IInv, SubmitPlaces, CompletePlaces
<1>6. CallInv(t)'
  BY <1>1, <1>2, <1>3, <1>4, NoneAssumption, Zenon DEF CallInv, SubmitPlaces, dataVars
<1>7. ReportInv(t)'
  BY <1>1, <1>3, <1>4, Zenon DEF ReportInv, dataVars
<1>8. ASSUME NEW v \in Threads \ {t} PROVE Apart(v, t)' /\ Apart(t, v)'
  <2>1. CallInv(v) /\ SubmitInv(v) /\ f # None
    BY NoneAssumption, Zenon DEF IInv
  <2>2. pc[v] # "idle" /\ op[v] = "reset" => fence[v] # f
    BY Zenon DEF WaitFence, Calling
  <2>3. op[v] = "reset" \/ pc[v] = "driver" => fence[v] # f
    BY <2>1, <2>2, <1>3, Zenon DEF CallInv, SubmitInv, SubmitPlaces
  <2> QED
    BY <2>3, <1>4, <1>8, Zenon DEF Apart, Kept
<1> QED
  BY <1>1, <1>2, <1>3, <1>4, <1>5, <1>6, <1>7, <1>8, LocalStep, Zenon

\* reset_fences() starts with the completion of the fence.
LEMMA ResetFenceStep ==
  ASSUME IInv, NEW t \in Threads, NEW f \in Fences, ResetFence(t, f)
  PROVE  IInv'
<1>1. /\ Call(t, "reset", "lock", 0, f, None, Covered(f)) /\ UNCHANGED dataVars /\ refs' = refs
  BY Zenon DEF ResetFence, Leave, Call, subVars, driverVars, dataVars
<1>2. pc[t] = "idle" /\ op[t] = "none" /\ work[t] = {} /\ completing # t
  BY Zenon DEF ResetFence, IInv, CallInv
<1>3. /\ f \in signaled \/ pending[f] = 0
      /\ Covered(f) \in SUBSET accepted
      /\ \A x \in Covered(f) :
           /\ pending[f] \in Covered(f) /\ x <= pending[f]
           /\ queueOf[x] = queueOf[pending[f]]
  BY CoveredFacts, Zenon DEF ResetFence, IInv
<1>4. /\ op'[t] = "reset" /\ pc'[t] = "lock" /\ fence'[t] = f /\ queue'[t] = None
      /\ must'[t] = Covered(f) /\ result'[t] = "ok" /\ completing' = completing
      /\ \A v \in Threads \ {t} : Kept(v)
  BY <1>1, Typed, CallEffect, ZenonT(30)
<1>5. CallTypes' /\ must' \in [Threads -> SUBSET accepted]
  <2>1. Covered(f) \in SUBSET accepted /\ 0 \in 0..MaxSerial
    BY SerialAssumption, <1>3
  <2> QED
    BY <2>1, <1>1, CallTyped, Zenon DEF IInv, SubmitPlaces, CompletePlaces
<1>6. CallInv(t)'
  BY <1>1, <1>2, <1>3, <1>4, NoneAssumption, Zenon DEF CallInv, SubmitPlaces, dataVars
<1>7. ReportInv(t)'
  BY <1>1, <1>3, <1>4, Zenon DEF ReportInv, dataVars
<1>8. ASSUME NEW v \in Threads \ {t} PROVE Apart(v, t)' /\ Apart(t, v)'
  <2>1. op[v] \in {"submit", "wait", "reset"} => fence[v] # f
    BY Zenon DEF ResetFence, UsesFence, IInv, CallInv
  <2>2. pc[v] = "driver" => op[v] = "submit"
    BY Zenon DEF IInv, CallInv, SubmitPlaces
  <2> QED
    BY <2>1, <2>2, <1>4, <1>8, Zenon DEF Apart, Kept
<1> QED
  BY <1>1, <1>2, <1>3, <1>4, <1>5, <1>6, <1>7, <1>8, LocalStep, Zenon

\* queue_idle() has its answer from the driver.
LEMMA QueueIdleStep ==
  ASSUME IInv, NEW t \in Threads, NEW q \in Queues, QueueIdle(t, q)
  PROVE  IInv'
<1>1. /\ Call(t, "queue_idle", "lock", 0, None, q, Upto(q, MaxSerial)) /\ UNCHANGED dataVars /\ refs' = refs
  BY Zenon DEF QueueIdle, Leave, Call, subVars, driverVars, dataVars
<1>2. pc[t] = "idle" /\ op[t] = "none" /\ work[t] = {} /\ completing # t
  BY Zenon DEF QueueIdle, IInv, CallInv
<1>3. /\ Upto(q, MaxSerial) \in SUBSET accepted
      /\ \A x \in Upto(q, MaxSerial) : Matches(q, queueOf[x])
      /\ \A x \in accepted : Matches(q, queueOf[x]) => x \in done
  <2>1. nextSerial \in 0..MaxSerial /\ accepted \subseteq Known
    BY Zenon DEF IInv, Types, SubTypes, DataTypes
  <2>2. \A x \in Known : x <= MaxSerial
    BY <2>1, SerialAssumption DEF Known
  <2> QED
    BY <2>1, <2>2, NoneAssumption, Zenon DEF QueueIdle, Upto, Matches
<1>4. /\ op'[t] = "queue_idle" /\ pc'[t] = "lock" /\ fence'[t] = None /\ queue'[t] = q
      /\ must'[t] = Upto(q, MaxSerial) /\ result'[t] = "ok" /\ completing' = completing
      /\ \A v \in Threads \ {t} : Kept(v)
  BY <1>1, Typed, CallEffect, ZenonT(30)
<1>5. CallTypes' /\ must' \in [Threads -> SUBSET accepted]
  <2>1. Upto(q, MaxSerial) \in SUBSET accepted /\ 0 \in 0..MaxSerial
    BY SerialAssumption, <1>3
  <2> QED
    BY <2>1, <1>1, CallTyped, Zenon DEF IInv, SubmitPlaces, CompletePlaces
<1>6. CallInv(t)'
  BY <1>1, <1>2, <1>3, <1>4, NoneAssumption, Zenon DEF CallInv, SubmitPlaces, dataVars
<1>7. ReportInv(t)'
  BY <1>1, <1>3, <1>4, Zenon DEF ReportInv, dataVars
<1>8. ASSUME NEW v \in Threads \ {t} PROVE Apart(v, t)' /\ Apart(t, v)'
  <2>1. op[v] \in {"submit", "queue_idle"} => ~Matches(queue[v], q)
    BY Zenon DEF QueueIdle, UsesQueue, Queueing, IInv, CallInv
  <2>2. ~Matches(queue[v], q) => ~Matches(q, queue[v])
    BY NoneAssumption, Zenon DEF Matches
  <2> QED
    BY <2>1, <2>2, <1>4, <1>8, Zenon DEF Apart, Kept
<1> QED
  BY <1>1, <1>2, <1>3, <1>4, <1>5, <1>6, <1>7, <1>8, LocalStep, Zenon

\* device_idle() has its answer from the driver.
LEMMA DeviceIdleStep ==
  ASSUME IInv, NEW t \in Threads, DeviceIdle(t)
  PROVE  IInv'
<1>1. /\ Call(t, "queue_idle", "lock", 0, None, None, accepted) /\ UNCHANGED dataVars /\ refs' = refs
  BY Zenon DEF DeviceIdle, Leave, Call, subVars, driverVars, dataVars
<1>2. pc[t] = "idle" /\ op[t] = "none" /\ work[t] = {} /\ completing # t
  BY Zenon DEF DeviceIdle, IInv, CallInv
<1>3. accepted \subseteq done /\ \A r : Matches(None, r)
  BY Zenon DEF DeviceIdle, Matches
<1>4. /\ op'[t] = "queue_idle" /\ pc'[t] = "lock" /\ fence'[t] = None /\ queue'[t] = None
      /\ must'[t] = accepted /\ result'[t] = "ok" /\ completing' = completing
      /\ \A v \in Threads \ {t} : Kept(v)
  BY <1>1, Typed, CallEffect, ZenonT(30)
<1>5. CallTypes' /\ must' \in [Threads -> SUBSET accepted]
  <2>1. accepted \in SUBSET accepted /\ 0 \in 0..MaxSerial
    BY SerialAssumption
  <2> QED
    BY <2>1, <1>1, CallTyped, Zenon DEF IInv, SubmitPlaces, CompletePlaces
<1>6. CallInv(t)'
  BY <1>1, <1>2, <1>4, NoneAssumption, Zenon DEF CallInv, SubmitPlaces, dataVars
<1>7. ReportInv(t)'
  BY <1>1, <1>3, <1>4, Zenon DEF ReportInv, dataVars
<1>8. ASSUME NEW v \in Threads \ {t} PROVE Apart(v, t)' /\ Apart(t, v)'
  <2>1. op[v] \notin {"submit", "queue_idle"}
    BY Zenon DEF DeviceIdle, Queueing, IInv, CallInv
  <2>2. pc[v] = "driver" => op[v] = "submit"
    BY Zenon DEF IInv, CallInv, SubmitPlaces
  <2> QED
    BY <2>1, <2>2, <1>4, <1>8, Zenon DEF Apart, Kept
<1> QED
  BY <1>1, <1>2, <1>3, <1>4, <1>5, <1>6, <1>7, <1>8, LocalStep, Zenon

\* The call returns to the application.
LEMMA ReturnStep ==
  ASSUME IInv, NEW t \in Threads, Return(t)
  PROVE  IInv'
<1>1. /\ Call(t, "none", "idle", 0, None, None, {}) /\ UNCHANGED dataVars /\ refs' = refs
  BY Zenon DEF Return, Leave, Call, subVars, driverVars, dataVars
<1>2. pc[t] = "return" /\ op[t] # "submit" /\ work[t] = {} /\ completing # t
  BY Zenon DEF Return, IInv, CallInv, SubmitPlaces
<1>4. /\ op'[t] = "none" /\ pc'[t] = "idle" /\ fence'[t] = None /\ queue'[t] = None
      /\ must'[t] = {} /\ result'[t] = "ok" /\ completing' = completing
      /\ \A v \in Threads \ {t} : Kept(v)
  BY <1>1, Typed, CallEffect, Zenon
<1>5. CallTypes' /\ must' \in [Threads -> SUBSET accepted]
  <2>1. {} \in SUBSET accepted /\ 0 \in 0..MaxSerial
    BY SerialAssumption
  <2> QED
    BY <2>1, <1>1, CallTyped, Zenon DEF IInv, SubmitPlaces, CompletePlaces
<1>6. CallInv(t)'
  BY <1>1, <1>2, <1>4, NoneAssumption, Zenon DEF CallInv, SubmitPlaces, dataVars
<1>7. ReportInv(t)'
  BY <1>1, <1>4, Zenon DEF ReportInv, dataVars
<1>8. ASSUME NEW v \in Threads \ {t} PROVE Apart(v, t)' /\ Apart(t, v)'
  BY <1>4, <1>8, Zenon DEF Apart
<1> QED
  BY <1>1, <1>2, <1>4, <1>5, <1>6, <1>7, <1>8, LocalStep, Zenon

\* The call takes completion_guard.
LEMMA LockStep ==
  ASSUME IInv, NEW t \in Threads, Lock(t)
  PROVE  IInv'
<1>1. /\ Goto(t, "detach") /\ UNCHANGED <<op, serial, fence, queue, result, must>>
      /\ UNCHANGED dataVars /\ refs' = refs /\ completing' \in Threads \cup {None}
  BY Zenon DEF Lock, subVars, driverVars, dataVars
<1>2. /\ pc[t] = "lock" /\ completing = None /\ completing' = t /\ op[t] # "submit" /\ work[t] = {}
      /\ fence[t] \in signaled \cup {None} /\ (op[t] \in {"wait", "reset"} => fence[t] \in Fences)
  BY Zenon DEF Lock, MayLock, IInv, CallInv, SubmitPlaces
<1>3. \A v \in Threads \ {t} : completing' = v <=> completing = v
  BY <1>2, NoneAssumption, Zenon
<1>4. /\ pc'[t] = "detach" /\ \A v \in Threads \ {t} : Kept(v)
      /\ op'[t] = op[t] /\ fence'[t] = fence[t] /\ queue'[t] = queue[t]
      /\ must'[t] = must[t] /\ result'[t] = result[t]
  BY <1>1, Typed, GotoEffect, Zenon
<1>5. CallTypes' /\ must' \in [Threads -> SUBSET accepted]
  BY <1>1, <1>2, GotoTyped, Zenon DEF IInv, Types, DataTypes, CompletePlaces
<1>6. CallInv(t)'
  BY <1>1, <1>2, <1>4, NoneAssumption, Zenon DEF IInv, CallInv, SubmitPlaces, dataVars
<1>7. ReportInv(t)'
  <2>1. ReportInv(t) /\ \A s : Last(t, s)' <=> Last(t, s)
    BY <1>4, Zenon DEF IInv, Last
  <2> QED
    BY <2>1, <1>1, <1>2, <1>4, Zenon DEF ReportInv, dataVars
<1>8. ASSUME NEW v \in Threads \ {t} PROVE Apart(v, t)' /\ Apart(t, v)'
  <2>1. Apart(v, t) /\ Apart(t, v)
    BY <1>8, Zenon DEF IInv
  <2> QED
    BY <2>1, <1>2, <1>4, <1>8, Zenon DEF Apart, Kept
<1> QED
  BY <1>1, <1>2, <1>3, <1>4, <1>5, <1>6, <1>7, <1>8, LocalStep, Zenon

\* The fence was never submitted: there is nothing to complete.
LEMMA NotReadyStep ==
  ASSUME IInv, NEW t \in Threads, NotReady(t)
  PROVE  IInv'
<1>1. /\ pc[t] = "lock" /\ op[t] = "reset" /\ pending[fence[t]] = 0 /\ work[t] = {}
      /\ fence[t] \in Fences /\ completing # t
  <2>1. pc[t] = "lock" /\ fence[t] \notin signaled /\ fence[t] # None /\ CallInv(t)
    BY Zenon DEF NotReady, IInv
  <2>2. op[t] \in {"none", "submit", "wait", "reset", "queue_idle"}
    BY Zenon DEF IInv, Types, CallTypes
  <2> QED
    BY <2>1, <2>2, Zenon DEF CallInv, SubmitPlaces
<1>2. /\ Goto(t, "reset") /\ UNCHANGED <<op, serial, fence, queue, result, must>>
      /\ UNCHANGED dataVars /\ refs' = refs /\ completing' = completing
  BY <1>1, Zenon DEF NotReady, Completed, subVars, driverVars, dataVars
<1>3. must[t] = {}
  <2>1. \A x \in must[t] : pending[fence[t]] \in must[t]
    BY <1>1, Zenon DEF IInv, ReportInv
  <2>2. must[t] \subseteq accepted
    BY Zenon DEF IInv, Types, DataTypes
  <2>3. 0 \notin accepted
    BY Numbers, Zenon
  <2> QED
    BY <1>1, <2>1, <2>2, <2>3, Zenon
<1>4. /\ pc'[t] = "reset" /\ \A v \in Threads \ {t} : Kept(v)
      /\ op'[t] = op[t] /\ fence'[t] = fence[t] /\ queue'[t] = queue[t]
      /\ must'[t] = must[t] /\ result'[t] = result[t]
  BY <1>2, Typed, GotoEffect, Zenon
<1>5. CallTypes' /\ must' \in [Threads -> SUBSET accepted]
  BY <1>2, GotoTyped, Zenon DEF IInv, Types, CallTypes, DataTypes, CompletePlaces
<1>6. CallInv(t)'
  <2>1. result[t] = "ok"
    BY <1>1, Zenon DEF IInv, CallInv
  <2> QED
    BY <1>1, <1>2, <1>4, <2>1, NoneAssumption, Zenon DEF IInv, CallInv, SubmitPlaces, dataVars
<1>7. ReportInv(t)'
  BY <1>1, <1>3, <1>4, Zenon DEF ReportInv, Last
<1>8. ASSUME NEW v \in Threads \ {t} PROVE Apart(v, t)' /\ Apart(t, v)'
  <2>1. Apart(v, t) /\ Apart(t, v)
    BY <1>8, Zenon DEF IInv
  <2> QED
    BY <2>1, <1>1, <1>4, <1>8, Zenon DEF Apart, Kept
<1> QED
  BY <1>1, <1>2, <1>4, <1>5, <1>6, <1>7, <1>8, LocalStep, Zenon

\* The driver does not answer for the fence: the call returns with the error.
LEMMA StatusFailsStep ==
  ASSUME IInv, NEW t \in Threads, StatusFails(t)
  PROVE  IInv'
<1>1. /\ pc[t] = "lock" /\ op[t] # "submit" /\ work[t] = {} /\ completing # t
  BY Zenon DEF StatusFails, IInv, CallInv, SubmitPlaces
<1>2. /\ Goto(t, "return") /\ result' = [result EXCEPT ![t] = "error"]
      /\ UNCHANGED <<op, serial, fence, queue, must>>
      /\ UNCHANGED dataVars /\ refs' = refs /\ completing' = completing
  <2>1. Goto(t, "return")
    BY SMT DEF StatusFails, Completed
  <2> QED
    BY <2>1, Zenon DEF StatusFails, subVars, driverVars, dataVars
<1>4. /\ pc'[t] = "return" /\ result'[t] = "error" /\ \A v \in Threads \ {t} : Kept(v)
      /\ op'[t] = op[t] /\ fence'[t] = fence[t] /\ queue'[t] = queue[t]
      /\ must'[t] = must[t]
  BY <1>2, Typed DEF Types, CallTypes, Goto, Kept
<1>5. CallTypes' /\ must' \in [Threads -> SUBSET accepted]
  BY <1>2, Typed DEF Types, CallTypes, DataTypes, Goto, CompletePlaces
<1>6. CallInv(t)'
  BY <1>1, <1>2, <1>4, NoneAssumption, Zenon DEF IInv, CallInv, SubmitPlaces, dataVars
<1>7. ReportInv(t)'
  BY <1>4, Zenon DEF ReportInv
<1>8. ASSUME NEW v \in Threads \ {t} PROVE Apart(v, t)' /\ Apart(t, v)'
  <2>1. Apart(v, t) /\ Apart(t, v)
    BY <1>8, Zenon DEF IInv
  <2> QED
    BY <2>1, <1>1, <1>4, <1>8, Zenon DEF Apart, Kept
<1> QED
  BY <1>1, <1>2, <1>4, <1>5, <1>6, <1>7, <1>8, LocalStep, Zenon

\* The call gives completion_guard back.
LEMMA UnlockStep ==
  ASSUME IInv, NEW t \in Threads, Unlock(t)
  PROVE  IInv'
<1> DEFINE l == IF op[t] = "reset" /\ result[t] = "ok" THEN "reset" ELSE "return"
<1>1. /\ Goto(t, l) /\ UNCHANGED <<op, serial, fence, queue, result, must>>
      /\ UNCHANGED dataVars /\ refs' = refs /\ completing' \in Threads \cup {None}
  BY Zenon DEF Unlock, Unlocked, Completed, subVars, driverVars, dataVars
<1>2. /\ pc[t] = "invalidate" /\ completing = t /\ completing' = None /\ op[t] # "submit"
      /\ work[t] = {} /\ l \in {"reset", "return"}
      /\ l = "reset" <=> op[t] = "reset" /\ result[t] = "ok"
  BY Zenon DEF Unlock, Unlocked, IInv, CallInv, SubmitPlaces
<1> HIDE DEF l
<1>3. \A v \in Threads \ {t} : completing' = v <=> completing = v
  BY <1>2, NoneAssumption, Zenon
<1>4. /\ pc'[t] = l /\ \A v \in Threads \ {t} : Kept(v)
      /\ op'[t] = op[t] /\ fence'[t] = fence[t] /\ queue'[t] = queue[t]
      /\ must'[t] = must[t] /\ result'[t] = result[t]
  BY <1>1, Typed, GotoEffect, Zenon
<1>5. CallTypes' /\ must' \in [Threads -> SUBSET accepted]
  BY <1>1, <1>2, GotoTyped, Zenon DEF IInv, Types, DataTypes, CompletePlaces
<1>6. CallInv(t)'
  BY <1>1, <1>2, <1>4, NoneAssumption, Zenon DEF IInv, CallInv, SubmitPlaces, dataVars
<1>7. ReportInv(t)'
  <2>1. ReportInv(t) /\ \A s : Last(t, s)' <=> Last(t, s)
    BY <1>4, Zenon DEF IInv, Last
  <2> QED
    BY <2>1, <1>1, <1>2, <1>4, Zenon DEF ReportInv, dataVars
<1>8. ASSUME NEW v \in Threads \ {t} PROVE Apart(v, t)' /\ Apart(t, v)'
  <2>1. Apart(v, t) /\ Apart(t, v)
    BY <1>8, Zenon DEF IInv
  <2> QED
    BY <2>1, <1>2, <1>4, <1>8, Zenon DEF Apart, Kept
<1> QED
  BY <1>1, <1>2, <1>3, <1>4, <1>5, <1>6, <1>7, <1>8, LocalStep, Zenon

-----------------------------------------------------------------------------
(* A submitter gives up its references *)

\* Submissions in progress use different queues, and so have different serials.
LEMMA SerialsDiffer ==
  ASSUME IInv, NEW t \in Threads, op[t] = "submit"
  PROVE  /\ serial[t] \in Serials /\ serial[t] \in Known
         /\ \A v \in Threads \ {t} : op[v] = "submit" => serial[v] # serial[t]
         /\ \A v \in Threads \ {t} : pc[v] = "detached" => serial[v] # serial[t]
<1>1. /\ \A v \in Threads : SubmitInv(v) /\ CallInv(v)
      /\ \A v, u \in Threads : v # u => Apart(v, u)
  BY Zenon DEF IInv
<1>2. serial[t] \in Known /\ Known \subseteq Serials
  <2>1. nextSerial \in 0..MaxSerial
    BY Zenon DEF IInv, Types, SubTypes
  <2>2. Known \subseteq Serials
    BY <2>1, SerialAssumption DEF Known, Serials
  <2> QED
    BY <2>2, <1>1, Zenon DEF SubmitInv
<1>3. \A v \in Threads \ {t} : op[v] = "submit" => serial[v] # serial[t]
  <2> SUFFICES ASSUME NEW v \in Threads \ {t}, op[v] = "submit"
               PROVE  serial[v] # serial[t]
    OBVIOUS
  <2>1. SubmitInv(v) /\ SubmitInv(t) /\ Apart(v, t)
    BY <1>1, Zenon
  <2>2. queue[v] # queue[t]
    BY <2>1, Zenon DEF Apart, Matches
  <2> QED
    BY <2>1, <2>2, Zenon DEF SubmitInv
<1> QED
  BY <1>1, <1>2, <1>3, Zenon DEF CallInv, SubmitPlaces

\* Dropping one reference keeps the count exact.
LEMMA ReleaseRefs ==
  ASSUME RefInv, refs \in [Serials -> Int], NEW s \in Serials, Release(s),
         \A x \in Serials \ {s} : (Held(x)' <=> Held(x)) /\ (Submitting(x)' <=> Submitting(x)),
         \/ Held(s) /\ ~Held(s)' /\ (Submitting(s)' <=> Submitting(s))
         \/ (Held(s)' <=> Held(s)) /\ Submitting(s) /\ ~Submitting(s)'
  PROVE  RefInv' /\ refs' \in [Serials -> Int]
<1>1. refs' \in [Serials -> Int]
  BY DEF Release
<1>2. refs'[s] = refs[s] - 1 /\ \A x \in Serials \ {s} : refs'[x] = refs[x]
  BY DEF Release
<1>3. ASSUME NEW x \in Serials
      PROVE  refs'[x] = (IF Held(x)' THEN 1 ELSE 0) + (IF Submitting(x)' THEN 1 ELSE 0)
  <2>1. refs[x] = (IF Held(x) THEN 1 ELSE 0) + (IF Submitting(x) THEN 1 ELSE 0)
    BY Zenon DEF RefInv
  <2>2. CASE x = s
    BY <2>1, <2>2, <1>2
  <2>3. CASE x # s
    BY <2>1, <2>3, <1>2, Zenon
  <2> QED
    BY <2>2, <2>3
<1> QED
  BY <1>1, <1>3, Zenon DEF RefInv, Serials

\* A failed submission drops the reference of the list.
LEMMA SubmitDetachedStep ==
  ASSUME IInv, NEW t \in Threads, SubmitDetached(t)
  PROVE  IInv'
<1>1. /\ Goto(t, "release") /\ UNCHANGED <<op, serial, fence, queue, result, must>>
      /\ UNCHANGED dataVars /\ Release(serial[t]) /\ completing' = completing
  BY Zenon DEF SubmitDetached, subVars, driverVars, dataVars
<1>2. /\ pc[t] = "detached" /\ op[t] = "submit" /\ completing' \in Threads \cup {None}
  BY <1>1, Zenon DEF IInv, SubmitDetached, Calling, Types, CallTypes
<1>4. /\ pc'[t] = "release" /\ \A v \in Threads \ {t} : Kept(v)
      /\ op'[t] = op[t] /\ serial'[t] = serial[t] /\ fence'[t] = fence[t]
      /\ queue'[t] = queue[t] /\ must'[t] = must[t] /\ result'[t] = result[t]
  BY <1>1, Typed, GotoEffect, Zenon
<1>5. RefInv' /\ refs' \in [Serials -> Int]
  <2>1. /\ serial[t] \in Serials /\ serial[t] \in Known
        /\ \A v \in Threads \ {t} : op[v] = "submit" => serial[v] # serial[t]
        /\ \A v \in Threads \ {t} : pc[v] = "detached" => serial[v] # serial[t]
    BY <1>2, SerialsDiffer, Zenon
  <2>2. serial[t] \notin submissions /\ \A v \in Threads : serial[t] \notin work[v]
    BY <1>2, Zenon DEF IInv, SubmitInv
  <2>3. Held(serial[t]) /\ ~Held(serial[t])'
    BY <2>1, <2>2, <1>1, <1>2, <1>4, Zenon DEF Held, Kept, dataVars
  <2>4. \A x : Submitting(x)' <=> Submitting(x)
    BY <1>2, <1>4, ZenonT(30) DEF Submitting, Kept
  <2>5. \A x \in Serials \ {serial[t]} : Held(x)' <=> Held(x)
    BY <1>1, <1>2, <1>4, Zenon DEF Held, Kept, dataVars
  <2>6. refs \in [Serials -> Int]
    BY Zenon DEF IInv, Types, SubTypes
  <2> QED
    BY <2>1, <2>3, <2>4, <2>5, <2>6, <1>1, ReleaseRefs, Zenon DEF IInv
<1>6. DriverInv' /\ OrderInv'
  BY <1>1, FrameData, Zenon DEF IInv
<1>7. ExecInv'
  <2>1. \A v \in Threads :
          /\ pc'[v] = "driver" <=> pc[v] = "driver"
          /\ pc[v] = "driver" => serial'[v] = serial[v]
    BY <1>2, <1>4, Zenon DEF Kept
  <2>2. \A v \in Threads : op'[v] = "queue_idle" /\ pc'[v] \in {"lock", "detach"} =>
          \/ op[v] = "queue_idle" /\ pc[v] \in {"lock", "detach"} /\ queue'[v] = queue[v]
          \/ \A x \in accepted : Matches(queue'[v], queueOf[x]) => x \in done
    BY <1>2, <1>4, Zenon DEF Kept
  <2> QED
    BY <2>1, <2>2, <1>1, FrameExec, Zenon DEF IInv
<1>8. Types'
  <2>1. CallTypes'
    BY <1>1, <1>2, GotoTyped, Zenon DEF IInv, SubmitPlaces, CompletePlaces
  <2> QED
    BY <2>1, <1>1, <1>5, Zenon DEF IInv, Types, SubTypes, DataTypes, dataVars, Known
<1>9. CallInv(t)' /\ SubmitInv(t)' /\ ReportInv(t)'
  <2>1. CallInv(t)'
    BY <1>1, <1>2, <1>4, Zenon DEF IInv, CallInv, SubmitPlaces, dataVars
  <2>2. SubmitInv(t)'
    BY <1>1, <1>2, <1>4, Zenon DEF IInv, SubmitInv, Known, dataVars
  <2>3. ReportInv(t)'
    BY <1>4, Zenon DEF ReportInv
  <2> QED
    BY <2>1, <2>2, <2>3
<1>10. ASSUME NEW v \in Threads \ {t} PROVE CallInv(v)' /\ SubmitInv(v)' /\ ReportInv(v)'
  BY <1>1, <1>4, <1>10, FrameThread, Zenon DEF IInv
<1>11. ASSUME NEW v \in Threads, NEW u \in Threads, v # u PROVE Apart(v, u)'
  <2>1. Apart(v, u)
    BY <1>11, Zenon DEF IInv
  <2> QED
    BY <2>1, <1>2, <1>4, ZenonT(30) DEF Apart, Kept
<1> QED
  BY <1>5, <1>6, <1>7, <1>8, <1>9, <1>10, <1>11, Zenon DEF IInv

\* A submission drops the reference of its submitter.
LEMMA SubmitReleaseStep ==
  ASSUME IInv, NEW t \in Threads, SubmitRelease(t)
  PROVE  IInv'
<1>1. /\ Call(t, "none", "idle", 0, None, None, {}) /\ UNCHANGED dataVars /\ Release(serial[t])
  BY Zenon DEF SubmitRelease, Leave, Call, driverVars, dataVars
<1>2. /\ pc[t] = "release" /\ op[t] = "submit" /\ work[t] = {} /\ completing # t
  BY Zenon DEF IInv, SubmitRelease, Calling, CallInv

<1>4. /\ op'[t] = "none" /\ pc'[t] = "idle" /\ fence'[t] = None /\ queue'[t] = None
      /\ must'[t] = {} /\ result'[t] = "ok" /\ completing' = completing /\ work' = work
      /\ \A v \in Threads \ {t} : Kept(v)
  BY <1>1, Typed, CallEffect, Zenon
<1>a. RefInv' /\ refs' \in [Serials -> Int]
  <2>1. /\ serial[t] \in Serials /\ serial[t] \in Known
        /\ \A v \in Threads \ {t} : op[v] = "submit" => serial[v] # serial[t]
    BY <1>2, SerialsDiffer, Zenon
  <2> PICK s \in Serials : s = serial[t]
    BY <2>1, Zenon
  <2>2. Submitting(s) /\ ~Submitting(s)'
    BY <2>1, <1>2, <1>4, ZenonT(30) DEF Submitting, Kept
  <2>3. \A x \in Serials \ {s} : Submitting(x)' <=> Submitting(x)
    BY <2>1, <1>2, <1>4, ZenonT(30) DEF Submitting, Kept
  <2>4. \A x : Held(x)' <=> Held(x)
    BY <1>1, <1>2, <1>4, ZenonT(30) DEF Held, Kept, dataVars
  <2>5. refs \in [Serials -> Int]
    BY Zenon DEF IInv, Types, SubTypes
  <2> QED
    BY <2>1, <2>2, <2>3, <2>4, <2>5, <1>1, ReleaseRefs, Zenon DEF IInv
<1>5. Types'
  <2>1. CallTypes' /\ must' \in [Threads -> SUBSET accepted]
    <3>1. {} \in SUBSET accepted /\ 0 \in 0..MaxSerial
      BY SerialAssumption
    <3> QED
      BY <1>1, <3>1, CallTyped, Zenon DEF IInv, SubmitPlaces, CompletePlaces
  <2> QED
    BY <2>1, <1>1, <1>a, Zenon DEF IInv, Types, SubTypes, DataTypes, dataVars, Known
<1>6. DriverInv' /\ OrderInv'
  BY <1>1, FrameData, Zenon DEF IInv
<1>7. ExecInv'
  <2>1. \A v \in Threads :
          /\ pc'[v] = "driver" <=> pc[v] = "driver"
          /\ pc[v] = "driver" => serial'[v] = serial[v]
    BY <1>2, <1>4, Zenon DEF Kept
  <2>2. \A v \in Threads : op'[v] = "queue_idle" /\ pc'[v] \in {"lock", "detach"} =>
          \/ op[v] = "queue_idle" /\ pc[v] \in {"lock", "detach"} /\ queue'[v] = queue[v]
          \/ \A x \in accepted : Matches(queue'[v], queueOf[x]) => x \in done
    BY <1>2, <1>4, Zenon DEF Kept
  <2> QED
    BY <2>1, <2>2, <1>1, FrameExec, Zenon DEF IInv
<1>8. CallInv(t)' /\ SubmitInv(t)' /\ ReportInv(t)'
  <2>1. CallInv(t)'
    BY <1>1, <1>2, <1>4, NoneAssumption, Zenon DEF CallInv, SubmitPlaces, dataVars
  <2>2. SubmitInv(t)'
    BY <1>4, Zenon DEF SubmitInv
  <2>3. ReportInv(t)'
    BY <1>1, <1>4, Zenon DEF ReportInv, dataVars
  <2> QED
    BY <2>1, <2>2, <2>3
<1>9. ASSUME NEW v \in Threads \ {t} PROVE CallInv(v)' /\ SubmitInv(v)' /\ ReportInv(v)'
  BY <1>1, <1>4, <1>9, FrameThread, Zenon DEF IInv
<1>10. ASSUME NEW v \in Threads \ {t} PROVE Apart(v, t)' /\ Apart(t, v)'
  BY <1>4, <1>10, Zenon DEF Apart
<1>11. \A v, u \in Threads : v # u => Apart(v, u)'
  <2>1. \A v, u \in Threads \ {t} : v # u => Apart(v, u)'
    BY <1>4, FrameApart, Zenon DEF IInv
  <2> QED
    BY <2>1, <1>10, Zenon
<1> QED
  BY <1>5, <1>a, <1>6, <1>7, <1>8, <1>9, <1>11, Zenon DEF IInv

-----------------------------------------------------------------------------
(* queue_submit() *)

\* The submission is put on the list before the driver sees it.
LEMMA SubmitStep ==
  ASSUME IInv, NEW t \in Threads, NEW q \in Queues, NEW f \in Fences \cup {None},
         Submit(t, q, f)
  PROVE  IInv'
<1> PICK s : s = nextSerial + 1
  OBVIOUS
<1>1. /\ nextSerial' = s /\ nextSerial' \in 0..MaxSerial /\ s \in Serials /\ s \in 0..MaxSerial
      /\ s \notin Known /\ Known' = Known \cup {s} /\ Known \subseteq Serials
      /\ \A x \in Known' : x <= s
  BY SerialAssumption DEF IInv, Submit, Types, SubTypes, Known, Serials, Exhausted
<1>2. /\ Call(t, "submit", "driver", s, f, q, {}) /\ submissions' = submissions \cup {s}
      /\ UNCHANGED <<cancelled, accepted, done, signaled, pending, visible, failed, work>>
  BY Zenon DEF Submit, Call, driverVars
<1>3. /\ queueOf' \in [Serials -> Queues \cup {None}] /\ fenceOf' \in [Serials -> Fences \cup {None}]
      /\ refs' \in [Serials -> Int]
      /\ queueOf'[s] = q /\ fenceOf'[s] = f /\ refs'[s] = 2
      /\ \A x \in Serials \ {s} :
           queueOf'[x] = queueOf[x] /\ fenceOf'[x] = fenceOf[x] /\ refs'[x] = refs[x]
  BY <1>1 DEF IInv, Submit, References, Types, SubTypes
<1>4. /\ op'[t] = "submit" /\ pc'[t] = "driver" /\ serial'[t] = s /\ fence'[t] = f
      /\ queue'[t] = q /\ must'[t] = {} /\ result'[t] = "ok" /\ completing' = completing
      /\ \A v \in Threads \ {t} : Kept(v)
  BY <1>2, Typed, CallEffect, ZenonT(30)
<1>5. /\ pc[t] = "idle" /\ op[t] = "none" /\ work[t] = {} /\ completing # t
      /\ s \notin submissions /\ s \notin accepted /\ s \notin visible
      /\ \A v \in Threads : s \notin work[v]
  BY <1>1, Zenon DEF IInv, Submit, CallInv, Types, SubTypes, DataTypes
<1>6. /\ \A v \in Threads \ {t} : op[v] \in {"submit", "queue_idle"} => ~Matches(queue[v], q)
      /\ f # None => \A v \in Threads \ {t} :
                       op[v] \in {"submit", "wait", "reset"} => fence[v] # f
      /\ f # None => f \notin signaled /\ pending[f] = 0
  BY Zenon DEF IInv, Submit, CallInv, UsesQueue, Queueing, UsesFence
<1>7. submissions \subseteq Known /\ accepted \subseteq Known /\ visible \subseteq Known
  BY Zenon DEF IInv, Types, SubTypes, DataTypes
<1>8. Types'
  <2>1. CallTypes' /\ must' \in [Threads -> SUBSET accepted]
    BY <1>1, <1>2, CallTyped DEF IInv, SubmitPlaces
  <2>2. SubTypes'
    <3>1. /\ cancelled' \in [Serials -> BOOLEAN] /\ Serials' = Serials
          /\ \A x \in Serials : cancelled'[x] => x \in Known'
      BY <1>1, <1>2, Zenon DEF IInv, Types, SubTypes, Serials
    <3>2. \A x \in Known' : queueOf'[x] \in Queues
      BY <1>1, <1>3, Zenon DEF IInv, Types, SubTypes
    <3> QED
      BY <3>1, <3>2, <1>1, <1>2, <1>3, <1>7, Zenon DEF SubTypes, Serials
  <2>3. work' \in [Threads -> SUBSET Known']
    <3>1. work \in [Threads -> SUBSET Known]
      BY Zenon DEF IInv, Types, DataTypes
    <3> QED
      BY <3>1, <1>1, <1>2
  <2>4. DataTypes'
    BY <2>1, <2>3, <1>1, <1>2, <1>5, <1>7 DEF IInv, DataTypes, Types
  <2> QED
    BY <2>1, <2>2, <2>4, Zenon DEF Types
<1>9. RefInv'
  <2>1. ASSUME NEW x \in Serials \ {s}
        PROVE  (Held(x)' <=> Held(x)) /\ (Submitting(x)' <=> Submitting(x))
    BY <2>1, <1>2, <1>4, <1>5, Zenon DEF Held, Submitting, Kept
  <2>2. Held(s)' /\ Submitting(s)'
    BY <1>2, <1>4, Zenon DEF Held, Submitting
  <2>3. refs'[s] = (IF Held(s)' THEN 1 ELSE 0) + (IF Submitting(s)' THEN 1 ELSE 0)
    BY <2>2, <1>3
  <2> QED
    BY <2>1, <2>3, <1>3, Zenon DEF IInv, RefInv, Serials
<1>10. DriverInv' /\ OrderInv'
  <2>1. \A x \in accepted : x \in Serials \ {s} /\ queueOf'[x] = queueOf[x] /\ fenceOf'[x] = fenceOf[x]
    BY <1>1, <1>3, <1>5, <1>7, Zenon
  <2>2. \A g \in Fences : pending[g] # 0 => pending[g] \in accepted
    BY Zenon DEF IInv, Types, DataTypes
  <2>3. done \subseteq accepted
    BY Zenon DEF IInv, Types, DataTypes
  <2> QED
    BY <2>1, <2>2, <2>3, <1>2, <1>5, Zenon DEF IInv, DriverInv, OrderInv
<1>11. ExecInv'
  <2> SUFFICES ASSUME SubmitsWork'
               PROVE  ExecInv'
    BY Zenon DEF ExecInv
  <2>1. SubmitsWork
    BY <1>1, <1>2, <1>4 DEF SubmitsWork, Kept, Known
  <2>2. \A x \in Known : queueOf'[x] = queueOf[x] /\ fenceOf'[x] = fenceOf[x]
    BY <1>1, <1>3, Zenon
  <2>3. /\ visible \subseteq done /\ \A v \in Threads : work[v] \subseteq done
        /\ \A g \in signaled : pending[g] # 0 => pending[g] \in done
    BY <2>1, Zenon DEF IInv, ExecInv
  <2>4. ASSUME NEW m \in submissions', fenceOf'[m] # None
        PROVE  m \in done \/ pending[fenceOf'[m]] = m \/ InDriver(m)'
    <3>1. CASE m = s
      BY <3>1, <1>4, Zenon DEF InDriver
    <3>2. CASE m # s
      <4>1. m \in submissions /\ fenceOf'[m] = fenceOf[m]
        BY <2>2, <2>4, <3>2, <1>2, <1>7, Zenon
      <4>2. InDriver(m) => InDriver(m)'
        BY <1>4, <1>5, Zenon DEF InDriver, Kept
      <4> QED
        BY <4>1, <4>2, <2>1, <2>4, Zenon DEF IInv, ExecInv
    <3> QED
      BY <3>1, <3>2
  <2>5. ASSUME NEW v \in Threads, op'[v] = "queue_idle", pc'[v] \in {"lock", "detach"}
        PROVE  \A x \in accepted : Matches(queue'[v], queueOf'[x]) => x \in done
    BY <2>1, <2>2, <2>5, <1>4, <1>7, Zenon DEF IInv, ExecInv, Kept
  <2> QED
    BY <2>3, <2>4, <2>5, <1>2, Zenon DEF ExecInv
<1>12. ASSUME NEW v \in Threads PROVE CallInv(v)'
  <2>1. CallInv(v)
    BY Zenon DEF IInv
  <2> QED
    BY <2>1, <1>2, <1>4, <1>5, ZenonT(30) DEF CallInv, SubmitPlaces, Kept
<1>13. SubmitInv(t)'
  <2>1. ~cancelled[s]
    BY <1>1, Zenon DEF IInv, Types, SubTypes
  <2> QED
    BY <2>1, <1>1, <1>2, <1>3, <1>4, <1>5, <1>6, Zenon DEF SubmitInv
<1>14. ASSUME NEW v \in Threads \ {t} PROVE SubmitInv(v)'
  <2>1. SubmitInv(v) /\ CallInv(v)
    BY Zenon DEF IInv
  <2> SUFFICES ASSUME op[v] = "submit"
               PROVE  SubmitInv(v)'
    BY <1>4, Zenon DEF SubmitInv, Kept
  <2>2. serial[v] \in Known /\ serial[v] # s /\ queue[v] # q
    BY <2>1, <1>1, <1>6, Zenon DEF SubmitInv, Matches
  <2>3. \A x \in Known : queueOf'[x] = queueOf[x] /\ fenceOf'[x] = fenceOf[x]
    BY <1>1, <1>3, Zenon
  <2>4. \A x \in Known' : queueOf'[x] = queue[v] => x <= serial[v]
    BY <2>1, <2>2, <2>3, <1>1, <1>3, Zenon DEF SubmitInv
  <2>5. serial[v] \in Known' /\ queueOf'[serial[v]] = queue[v] /\ fenceOf'[serial[v]] = fenceOf[serial[v]]
    BY <2>1, <2>2, <2>3, <1>1, Zenon DEF SubmitInv
  <2> QED
    BY <2>1, <2>2, <2>4, <2>5, <1>2, <1>4, Zenon DEF SubmitInv, Kept
<1>15. ReportInv(t)'
  BY <1>4, Zenon DEF ReportInv
<1>16. ASSUME NEW v \in Threads \ {t} PROVE ReportInv(v)'
  <2>1. \A x \in accepted : queueOf'[x] = queueOf[x]
    BY <1>1, <1>3, <1>7, Zenon
  <2>2. must[v] \subseteq accepted /\ \A x : Last(v, x)' <=> Last(v, x)
    BY <1>4, Zenon DEF IInv, Types, DataTypes, Last, Kept
  <2> QED
    BY <2>1, <2>2, <1>2, <1>4 DEF IInv, ReportInv, Kept
<1>17. ASSUME NEW v \in Threads, NEW u \in Threads, v # u PROVE Apart(v, u)'
  <2>1. (pc[v] = "driver" => op[v] = "submit") /\ (op[v] = "reset" => fence[v] # None)
    BY NoneAssumption, Zenon DEF IInv, CallInv, SubmitPlaces
  <2>2. Apart(v, u)
    BY <1>17, Zenon DEF IInv
  <2>3. \A w \in Threads \ {t} : op[w] \in {"submit", "queue_idle"} =>
          ~Matches(queue[w], q) /\ ~Matches(q, queue[w])
    BY <1>6, NoneAssumption, Zenon DEF Matches
  <2> QED
    BY <2>1, <2>2, <2>3, <1>4, <1>5, <1>6, <1>17 DEF Apart, Kept
<1> QED
  BY <1>8, <1>9, <1>10, <1>11, <1>12, <1>13, <1>14, <1>15, <1>16, <1>17, Zenon DEF IInv

\* The driver takes the submission.
LEMMA AcceptStep ==
  ASSUME IInv, NEW t \in Threads, SubmitDriver(t), Goto(t, "release"),
         accepted' = accepted \cup {serial[t]}, signaled' = signaled,
         pending' = IF fence[t] = None THEN pending ELSE [pending EXCEPT ![fence[t]] = serial[t]]
  PROVE  IInv'
<1>1. /\ op[t] = "submit" /\ pc[t] = "driver" /\ UNCHANGED subVars
      /\ UNCHANGED <<op, serial, fence, queue, result, must>>
      /\ UNCHANGED <<completing, work, done, visible, failed>>
  BY Zenon DEF SubmitDriver, Calling
<1> PICK s \in Serials : s = serial[t]
  BY <1>1, SerialsDiffer, Zenon
<1> PICK f \in Fences \cup {None} : f = fence[t]
  BY Zenon DEF IInv, Types, CallTypes
<1>2. /\ s \in Known /\ s \in submissions /\ s \notin accepted /\ ~cancelled[s]
      /\ fenceOf[s] = f /\ (f # None => f \notin signaled /\ pending[f] = 0)
      /\ queueOf[s] = queue[t] /\ \A x \in Known : queueOf[x] = queueOf[s] => x <= s
  BY <1>1, Zenon DEF IInv, SubmitInv
<1>3. /\ \A v \in Threads \ {t} : op[v] = "submit" => serial[v] # s
      /\ \A v \in Threads \ {t} : op[v] \in {"submit", "queue_idle"} => ~Matches(queue[v], queue[t])
      /\ f # None => \A v \in Threads \ {t} :
                       op[v] \in {"submit", "wait", "reset"} => fence[v] # f
  <2>1. \A v \in Threads \ {t} : Apart(t, v) /\ Apart(v, t)
    BY Zenon DEF IInv
  <2> QED
    BY <2>1, <1>1, SerialsDiffer, Zenon DEF Apart
<1>4. /\ pc'[t] = "release" /\ \A v \in Threads \ {t} : Kept(v)
      /\ op'[t] = op[t] /\ serial'[t] = serial[t] /\ fence'[t] = fence[t]
      /\ queue'[t] = queue[t] /\ must'[t] = must[t] /\ result'[t] = result[t]
  BY <1>1, Typed, GotoEffect, Zenon
<1>5. /\ accepted \subseteq Known /\ done \subseteq accepted /\ signaled \subseteq Fences
      /\ pending \in [Fences -> accepted \cup {0}] /\ submissions \subseteq Known
      /\ must \in [Threads -> SUBSET accepted]
  BY Zenon DEF IInv, Types, SubTypes, DataTypes
<1>6. /\ pending' \in [Fences -> accepted' \cup {0}]
      /\ f # None => pending'[f] = s
      /\ \A g \in Fences \ {f} : pending'[g] = pending[g]
  BY <1>5
<1>7. /\ Known' = Known /\ Serials' = Serials
      /\ \A x \in Known : queueOf[x] = queueOf[s] => ~(s < x)
      /\ \A x \in Known : x # 0
  <2>1. Known \subseteq Int
    BY DEF Known
  <2>2. \A x \in Known : x <= s => ~(s < x)
    BY <2>1, <1>2
  <2>3. Known' = Known /\ Serials' = Serials
    BY <1>1, Zenon DEF Known, Serials, subVars
  <2>4. \A x \in Known : x # 0
    BY SerialAssumption DEF IInv, Known, Types, SubTypes
  <2> QED
    BY <2>2, <2>3, <2>4, <1>2, Zenon
<1>8. Types'
  <2>1. CallTypes'
    <3>1. completing' \in Threads \cup {None}
      BY <1>1, Zenon DEF IInv, Types, CallTypes
    <3> QED
      BY <3>1, <1>1, GotoTyped, Zenon DEF IInv, SubmitPlaces
  <2>2. SubTypes'
    BY <1>1, <1>7, Zenon DEF IInv, Types, SubTypes, subVars
  <2>3. must' \in [Threads -> SUBSET accepted']
    BY <1>1, <1>5
  <2>4. DataTypes'
    BY <2>3, <1>1, <1>2, <1>5, <1>6, <1>7 DEF IInv, Types, DataTypes, subVars
  <2> QED
    BY <2>1, <2>2, <2>4, Zenon DEF Types
<1>9. RefInv'
  <2>1. \A v \in Threads :
          /\ op'[v] = "submit" <=> op[v] = "submit"
          /\ op[v] = "submit" => serial'[v] = serial[v]
          /\ pc'[v] = "detached" <=> pc[v] = "detached"
          /\ pc[v] = "detached" => serial'[v] = serial[v]
    BY <1>1, <1>4, Zenon DEF Kept
  <2>2. UNCHANGED <<refs, submissions, work>>
    BY <1>1, Zenon DEF subVars
  <2> QED
    BY <2>1, <2>2, FrameRefs, Zenon DEF IInv
<1>10. DriverInv'
  <2>1. ASSUME NEW g \in Fences, pending'[g] # 0 PROVE fenceOf'[pending'[g]] = g
    BY <2>1, <1>1, <1>2, <1>6, Zenon DEF IInv, DriverInv, subVars
  <2>2. ASSUME NEW x \in accepted' PROVE ~cancelled'[x]
    BY <2>2, <1>1, <1>2, Zenon DEF IInv, DriverInv, subVars
  <2>3. ASSUME NEW x \in accepted'
        PROVE  x \in submissions' \cup visible' \/ \E u \in Threads : x \in work'[u]
    BY <2>3, <1>1, <1>2, Zenon DEF IInv, DriverInv, subVars
  <2>4. ASSUME NEW x \in accepted', NEW y \in done', queueOf'[x] = queueOf'[y] /\ x < y
        PROVE  x \in done'
    BY <2>4, <1>1, <1>5, <1>7, Zenon DEF IInv, DriverInv, subVars
  <2> QED
    BY <2>1, <2>2, <2>3, <2>4, Zenon DEF DriverInv
<1>11. OrderInv'
  <2> SUFFICES ASSUME ~failed', NEW x \in accepted', NEW y \in accepted',
                      queueOf'[x] = queueOf'[y], x < y, y \notin submissions'
               PROVE  x \notin submissions'
    BY Zenon DEF OrderInv
  <2> QED
    BY <1>1, <1>2, <1>5, <1>7, Zenon DEF IInv, OrderInv, subVars
<1>12. ExecInv'
  <2> SUFFICES ASSUME SubmitsWork'
               PROVE  ExecInv'
    BY Zenon DEF ExecInv
  <2>1. SubmitsWork
    BY <1>1, <1>4 DEF SubmitsWork, Kept, subVars
  <2>2. /\ visible' \subseteq done' /\ \A v \in Threads : work'[v] \subseteq done'
        /\ \A g \in signaled' : pending'[g] # 0 => pending'[g] \in done'
    BY <2>1, <1>1, <1>2, <1>5, <1>6, Zenon DEF IInv, ExecInv
  <2>3. ASSUME NEW m \in submissions', fenceOf'[m] # None
        PROVE  m \in done' \/ pending'[fenceOf'[m]] = m \/ InDriver(m)'
    <3>1. CASE m = s
      BY <3>1, <2>3, <1>1, <1>2, <1>6, Zenon DEF subVars
    <3>2. CASE m # s
      <4>1. m \in submissions /\ fenceOf'[m] = fenceOf[m] /\ m # 0
        BY <2>3, <1>1, <1>5, <1>7, Zenon DEF subVars
      <4>2. InDriver(m) => InDriver(m)'
        BY <3>2, <1>4, Zenon DEF InDriver, Kept
      <4>3. fenceOf[m] \in Fences
        BY <4>1, <2>3, Numbers, Typed, Zenon DEF Types, SubTypes
      <4> QED
        BY <4>1, <4>2, <4>3, <2>1, <2>3, <1>1, <1>2, <1>6, ZenonT(30) DEF IInv, ExecInv
    <3> QED
      BY <3>1, <3>2
  <2>4. ASSUME NEW v \in Threads, op'[v] = "queue_idle", pc'[v] \in {"lock", "detach"}
        PROVE  \A x \in accepted' : Matches(queue'[v], queueOf'[x]) => x \in done'
    <3>1. v # t /\ Kept(v) /\ ~Matches(queue[v], queue[t]) /\ op[v] = "queue_idle" /\ pc[v] \in {"lock", "detach"}
      BY <2>4, <1>1, <1>3, <1>4, Zenon DEF Kept
    <3> QED
      BY <3>1, <2>1, <1>1, <1>2, Zenon DEF IInv, ExecInv, Kept, subVars
  <2> QED
    BY <2>2, <2>3, <2>4, Zenon DEF ExecInv
<1>13. ASSUME NEW v \in Threads PROVE CallInv(v)'
  <2>1. CallInv(v) /\ CallInv(t)
    BY Zenon DEF IInv
  <2>2. op'[v] = "reset" => pending'[fence[v]] = pending[fence[v]]
    BY <2>1, <1>1, <1>3, <1>4, <1>6, NoneAssumption, ZenonT(30) DEF CallInv, Kept
  <2> QED
    BY <2>1, <2>2, <1>1, <1>4, Zenon DEF CallInv, SubmitPlaces, Kept
<1>14. SubmitInv(t)'
  BY <1>1, <1>4, <1>7, Zenon DEF IInv, SubmitInv, subVars
<1>15. ASSUME NEW v \in Threads \ {t} PROVE SubmitInv(v)'
  <2>1. SubmitInv(v)
    BY Zenon DEF IInv
  <2> SUFFICES ASSUME op[v] = "submit"
               PROVE  SubmitInv(v)'
    BY <1>4, Zenon DEF SubmitInv, Kept
  <2>2. serial[v] # s /\ (fence[v] # None => pending'[fence[v]] = pending[fence[v]])
    BY <1>3, <1>6, ZenonT(30) DEF IInv, Types, CallTypes
  <2> QED
    BY <2>1, <2>2, <1>1, <1>4, <1>7, Zenon DEF SubmitInv, Kept, subVars
<1>16. ASSUME NEW v \in Threads PROVE ReportInv(v)'
  <2>1. \A x : Last(v, x)' <=> Last(v, x)
    BY <1>1, Zenon DEF Last
  <2>2. /\ pc'[v] = pc[v] \/ pc'[v] = "release"
        /\ pc[v] \in {"lock", "detach"} /\ op[v] \in {"wait", "reset"} =>
             pending'[fence[v]] = pending[fence[v]]
    <3>1. op[v] \in {"wait", "reset"} => fence[v] \in Fences
      BY Zenon DEF IInv, CallInv
    <3>2. f = None \/ v = t \/ (op[v] \in {"wait", "reset"} => fence[v] # f)
      BY <1>3, Zenon
    <3>3. v = t => op[v] = "submit"
      BY <1>1, Zenon
    <3> QED
      BY <3>1, <3>2, <3>3, <1>4, <1>6, NoneAssumption, Zenon DEF Kept
  <2>3. ReportInv(v)
    BY Zenon DEF IInv
  <2> QED
    BY <2>1, <2>2, <2>3, <1>1, Zenon DEF ReportInv, subVars
<1>17. ASSUME NEW v \in Threads, NEW u \in Threads, v # u PROVE Apart(v, u)'
  <2>1. Apart(v, u)
    BY <1>17, Zenon DEF IInv
  <2> QED
    BY <2>1, <1>1, <1>4, Zenon DEF Apart, Kept
<1> QED
  BY <1>8, <1>9, <1>10, <1>11, <1>12, <1>13, <1>14, <1>15, <1>16, <1>17, Zenon DEF IInv

\* The driver refuses it.
LEMMA RefuseStep ==
  ASSUME IInv, NEW t \in Threads, SubmitDriver(t), Goto(t, "failed"),
         signaled' \in {signaled, signaled \cup ({fence[t]} \ {None})},
         UNCHANGED <<accepted, pending>>
  PROVE  IInv'
<1>1. /\ op[t] = "submit" /\ pc[t] = "driver" /\ UNCHANGED subVars
      /\ UNCHANGED <<op, serial, fence, queue, result, must>>
      /\ UNCHANGED <<completing, work, done, visible, failed>>
  BY Zenon DEF SubmitDriver, Calling
<1> PICK f \in Fences \cup {None} : f = fence[t]
  BY Zenon DEF IInv, Types, CallTypes
<1> PICK s : s = serial[t]
  OBVIOUS
<1>2. /\ s \in Known /\ s \notin accepted
      /\ \A v \in Threads \ {t} : op[v] = "submit" => serial[v] # s
  BY <1>1, SerialsDiffer, Zenon DEF IInv, SubmitInv
<1>3. /\ signaled \subseteq signaled' /\ signaled' \subseteq Fences
      /\ \A v \in Threads \ {t} : op[v] = "submit" /\ fence[v] \in signaled' => fence[v] \in signaled
  <2>1. \A v \in Threads \ {t} : Apart(t, v)
    BY Zenon DEF IInv
  <2>2. f # None => \A v \in Threads \ {t} : op[v] = "submit" => fence[v] # f
    BY <2>1, <1>1, Zenon DEF Apart
  <2>3. signaled \subseteq Fences
    BY Zenon DEF IInv, Types, DataTypes
  <2> QED
    BY <2>2, <2>3, Zenon
<1>4. /\ pc'[t] = "failed" /\ \A v \in Threads \ {t} : Kept(v)
      /\ op'[t] = op[t] /\ serial'[t] = serial[t] /\ fence'[t] = fence[t]
      /\ queue'[t] = queue[t] /\ must'[t] = must[t] /\ result'[t] = result[t]
  BY <1>1, Typed, GotoEffect, Zenon
<1>5. Known' = Known
  BY <1>1, Zenon DEF Known, subVars
<1>6. Types'
  <2>1. completing' \in Threads \cup {None}
    BY <1>1, Zenon DEF IInv, Types, CallTypes
  <2>2. CallTypes'
    BY <2>1, <1>1, GotoTyped, Zenon DEF IInv, SubmitPlaces
  <2> QED
    BY <2>2, <1>1, <1>3, <1>5, Zenon DEF IInv, Types, SubTypes, DataTypes, subVars
<1>7. RefInv'
  <2>1. \A v \in Threads :
          /\ op'[v] = "submit" <=> op[v] = "submit"
          /\ op[v] = "submit" => serial'[v] = serial[v]
          /\ pc'[v] = "detached" <=> pc[v] = "detached"
          /\ pc[v] = "detached" => serial'[v] = serial[v]
    BY <1>1, <1>4, Zenon DEF Kept
  <2>2. UNCHANGED <<refs, submissions, work>>
    BY <1>1, Zenon DEF subVars
  <2> QED
    BY <2>1, <2>2, FrameRefs, Zenon DEF IInv
<1>8. DriverInv' /\ OrderInv'
  BY <1>1, Zenon DEF IInv, DriverInv, OrderInv, subVars
<1>9. ExecInv'
  <2>1. \A v \in Threads : ~(pc'[v] = "driver" /\ serial'[v] = s)
    BY <1>2, <1>4, ZenonT(30) DEF IInv, CallInv, SubmitPlaces, Kept
  <2>2. ~SubmitsWork'
    BY <2>1, <1>2, <1>5, Zenon DEF SubmitsWork, Known
  <2> QED
    BY <2>2, Zenon DEF ExecInv
<1>10. ASSUME NEW v \in Threads PROVE CallInv(v)'
  <2>1. CallInv(v) /\ CallInv(t)
    BY Zenon DEF IInv
  <2> QED
    BY <2>1, <1>1, <1>3, <1>4, Zenon DEF CallInv, SubmitPlaces, Kept
<1>11. SubmitInv(t)'
  BY <1>1, <1>4, <1>5, Zenon DEF IInv, SubmitInv, subVars
<1>12. ASSUME NEW v \in Threads \ {t} PROVE SubmitInv(v)'
  BY <1>1, <1>3, <1>4, <1>5, ZenonT(30) DEF IInv, SubmitInv, Kept, subVars
<1>13. ASSUME NEW v \in Threads PROVE ReportInv(v)'
  <2>1. \A x : Last(v, x)' <=> Last(v, x)
    BY <1>1, Zenon DEF Last
  <2>2. ReportInv(v) /\ (pc'[v] = pc[v] \/ pc'[v] = "failed")
    BY <1>4, Zenon DEF IInv, Kept
  <2> QED
    BY <2>1, <2>2, <1>1, Zenon DEF ReportInv, subVars
<1>14. ASSUME NEW v \in Threads, NEW u \in Threads, v # u PROVE Apart(v, u)'
  <2>1. Apart(v, u)
    BY <1>14, Zenon DEF IInv
  <2> QED
    BY <2>1, <1>1, <1>4, Zenon DEF Apart, Kept
<1> QED
  BY <1>6, <1>7, <1>8, <1>9, <1>10, <1>11, <1>12, <1>13, <1>14, Zenon DEF IInv

\* The driver accepts or refuses the submission.
LEMMA SubmitDriverStep ==
  ASSUME IInv, NEW t \in Threads, SubmitDriver(t)
  PROVE  IInv'
  BY AcceptStep, RefuseStep, Zenon DEF SubmitDriver

\* A refused submission is cancelled and leaves the list, if it is still there.
LEMMA SubmitFailedStep ==
  ASSUME IInv, NEW t \in Threads, SubmitFailed(t)
  PROVE  IInv'
<1> DEFINE l == IF serial[t] \in submissions THEN "detached" ELSE "release"
<1>1. /\ op[t] = "submit" /\ pc[t] = "failed" /\ Goto(t, l)
      /\ UNCHANGED <<queueOf, fenceOf, refs, nextSerial>>
      /\ UNCHANGED <<op, serial, fence, queue, result, must>>
      /\ UNCHANGED <<completing, work, visible, failed, accepted, done, signaled, pending>>
      /\ submissions' = submissions \ {serial[t]}
  BY Zenon DEF SubmitFailed, Calling, driverVars
<1>l. /\ l \in {"detached", "release"} /\ (l = "detached" <=> serial[t] \in submissions)
  OBVIOUS
<1> HIDE DEF l
<1> PICK s \in Serials : s = serial[t]
  BY <1>1, SerialsDiffer, Zenon
<1>2. /\ s \in Known /\ s \notin accepted
      /\ \A v \in Threads \ {t} : op[v] = "submit" => serial[v] # s
  BY <1>1, SerialsDiffer, Zenon DEF IInv, SubmitInv
<1>3. /\ cancelled' \in [Serials -> BOOLEAN] /\ \A x \in Serials \ {s} : cancelled'[x] = cancelled[x]
  BY Zenon DEF IInv, SubmitFailed, Types, SubTypes
<1>4. /\ pc'[t] = l /\ \A v \in Threads \ {t} : Kept(v)
      /\ op'[t] = op[t] /\ serial'[t] = serial[t] /\ fence'[t] = fence[t]
      /\ queue'[t] = queue[t] /\ must'[t] = must[t] /\ result'[t] = result[t]
  BY <1>1, Typed, GotoEffect, Zenon
<1>5. /\ Known' = Known /\ Serials' = Serials /\ accepted \subseteq Serials \ {s}
  <2>1. accepted \subseteq Known /\ Known' = Known /\ Serials' = Serials
    BY <1>1, Zenon DEF IInv, Types, DataTypes, Known, Serials
  <2>2. Known \subseteq Serials
    BY SerialAssumption DEF IInv, Known, Serials, Types, SubTypes
  <2> QED
    BY <2>1, <2>2, <1>2, Zenon
<1>6. Types'
  <2>1. completing' \in Threads \cup {None}
    BY <1>1, Zenon DEF IInv, Types, CallTypes
  <2>2. CallTypes'
    BY <2>1, <1>l, <1>1, GotoTyped, Zenon DEF IInv, SubmitPlaces
  <2>3. \A x \in Serials : cancelled'[x] => x \in Known
    BY <1>2, <1>3, Zenon DEF IInv, Types, SubTypes
  <2> QED
    BY <2>2, <2>3, <1>1, <1>3, <1>5, Zenon DEF IInv, Types, SubTypes, DataTypes
<1>7. RefInv'
  <2>1. \A x : Submitting(x)' <=> Submitting(x)
    BY <1>1, Zenon DEF Submitting
  <2>2. \A x : Held(x)' <=> Held(x)
    <3>1. ASSUME NEW x, x # s PROVE Held(x)' <=> Held(x)
      BY <3>1, <1>1, <1>4, Zenon DEF Held, Kept
    <3>2. Held(s)' <=> Held(s)
      BY <1>1, <1>l, <1>4, Zenon DEF Held, Kept
    <3> QED
      BY <3>1, <3>2, Zenon
  <2> QED
    BY <2>1, <2>2, <1>1, <1>5, Zenon DEF IInv, RefInv
<1>8. DriverInv'
  <2>1. \A x \in accepted : cancelled'[x] = cancelled[x] /\ (x \in submissions' <=> x \in submissions)
    BY <1>1, <1>3, <1>5, Zenon
  <2> QED
    BY <2>1, <1>1, Zenon DEF IInv, DriverInv
<1>9. OrderInv'
  <2>1. \A x \in accepted : x \in submissions' <=> x \in submissions
    BY <1>1, <1>2, Zenon
  <2> QED
    BY <2>1, <1>1, Zenon DEF IInv, OrderInv
<1>10. ExecInv'
  <2>1. \A v \in Threads : ~(pc'[v] = "driver" /\ serial'[v] = s)
    <3>1. pc'[t] # "driver" /\ \A v \in Threads : pc[v] = "driver" => op[v] = "submit"
      BY <1>4, <1>l, Zenon DEF IInv, CallInv, SubmitPlaces
    <3> QED
      BY <3>1, <1>2, <1>4, Zenon DEF Kept
  <2>2. ~SubmitsWork'
    BY <2>1, <1>1, <1>2, <1>5, Zenon DEF SubmitsWork, Known
  <2> QED
    BY <2>2, Zenon DEF ExecInv
<1>11. ASSUME NEW v \in Threads PROVE CallInv(v)'
  <2>1. CallInv(v) /\ CallInv(t)
    BY Zenon DEF IInv
  <2> QED
    BY <2>1, <1>1, <1>l, <1>4, ZenonT(30) DEF CallInv, SubmitPlaces, Kept
<1>12. SubmitInv(t)'
  <2>1. s \in submissions => \A u \in Threads : s \notin work[u]
    BY Zenon DEF IInv, Types, DataTypes
  <2>2. SubmitInv(t)
    BY Zenon DEF IInv
  <2> QED
    BY <2>1, <2>2, <1>1, <1>l, <1>4, <1>5, Zenon DEF SubmitInv
<1>13. ASSUME NEW v \in Threads \ {t} PROVE SubmitInv(v)'
  <2>1. SubmitInv(v)
    BY Zenon DEF IInv
  <2> SUFFICES ASSUME op[v] = "submit"
               PROVE  SubmitInv(v)'
    BY <1>4, Zenon DEF SubmitInv, Kept
  <2>2. /\ serial[v] # s /\ (serial[v] \in submissions' <=> serial[v] \in submissions)
        /\ cancelled'[serial[v]] = cancelled[serial[v]]
    BY <1>1, <1>2, <1>3, SerialsDiffer, Zenon
  <2> QED
    BY <2>1, <2>2, <1>1, <1>4, <1>5, Zenon DEF SubmitInv, Kept
<1>14. ASSUME NEW v \in Threads PROVE ReportInv(v)'
  <2>1. \A x : Last(v, x)' <=> Last(v, x)
    BY <1>1, Zenon DEF Last
  <2>2. ReportInv(v) /\ (pc'[v] = pc[v] \/ pc'[v] \in {"detached", "release"})
    BY <1>l, <1>4, Zenon DEF IInv, Kept
  <2> QED
    BY <2>1, <2>2, <1>1, Zenon DEF ReportInv
<1>15. ASSUME NEW v \in Threads, NEW u \in Threads, v # u PROVE Apart(v, u)'
  <2>1. Apart(v, u)
    BY <1>15, Zenon DEF IInv
  <2> QED
    BY <2>1, <1>1, <1>l, <1>4, Zenon DEF Apart, Kept
<1> QED
  BY <1>6, <1>7, <1>8, <1>9, <1>10, <1>11, <1>12, <1>13, <1>14, <1>15, Zenon DEF IInv

-----------------------------------------------------------------------------
(* detach_completed() and invalidate_completed() *)

\* What the thread that holds completion_guard knows.
LEMMA Alone ==
  ASSUME IInv, NEW t \in Threads, pc[t] \in {"detach", "invalidate"}
  PROVE  /\ completing = t /\ op[t] \in {"wait", "reset", "queue_idle"}
         /\ \A v \in Threads \ {t} : work[v] = {} /\ pc[v] \notin {"detach", "invalidate"}
<1>1. \A v \in Threads : CallInv(v)
  BY Zenon DEF IInv
<1>2. op[t] \in {"none", "submit", "wait", "reset", "queue_idle"}
  BY Zenon DEF IInv, Types, CallTypes
<1>3. completing = t /\ op[t] # "none" /\ op[t] # "submit"
  BY <1>1, Zenon DEF CallInv, SubmitPlaces
<1> QED
  BY <1>1, <1>2, <1>3, Zenon DEF CallInv

\* The list a completing call takes its submissions from does not hold the one
\* the driver is about to be given, if that is ready.
LEMMA DriverNotReady ==
  ASSUME IInv, NEW t \in Threads, pc[t] = "detach", NEW v \in Threads, pc[v] = "driver"
  PROVE  serial[v] \notin Ready(fence[t], queue[t])
<1>1. /\ CallInv(v) /\ CallInv(t) /\ SubmitInv(v) /\ (v # t => Apart(v, t) /\ Apart(t, v))
  BY Zenon DEF IInv
<1>2. v # t /\ op[v] = "submit" /\ op[t] \in {"wait", "reset", "queue_idle"}
  BY <1>1, Alone, Zenon DEF CallInv, SubmitPlaces
<1>3. /\ queueOf[serial[v]] = queue[v] /\ fenceOf[serial[v]] = fence[v] /\ serial[v] \in Known
      /\ \A x \in Known : queueOf[x] = queue[v] => x <= serial[v]
  BY <1>1, <1>2, Zenon DEF SubmitInv
<1>4. CASE op[t] = "queue_idle"
  <2>1. fence[t] = None /\ ~Matches(queue[t], queue[v])
    BY <1>1, <1>2, <1>4, Zenon DEF CallInv, Apart
  <2> QED
    BY <2>1, <1>3, Zenon DEF Ready
<1>5. CASE op[t] # "queue_idle"
  <2>1. fence[t] # None /\ (fence[v] # None => fence[v] # fence[t])
    BY <1>1, <1>2, <1>5, NoneAssumption, Zenon DEF CallInv, Apart
  <2>2. ASSUME serial[v] \in Ready(fence[t], queue[t]) PROVE FALSE
    <3>1. PICK m \in submissions : fenceOf[m] = fence[t] /\ SameQueue(serial[v], m) /\ serial[v] <= m
      BY <2>1, <2>2, Zenon DEF Ready
    <3>2. m <= serial[v] /\ m \in Known
      BY <3>1, <1>3, Numbers, Zenon DEF SameQueue
    <3>3. m = serial[v]
      BY <3>1, <3>2, <1>3, Numbers
    <3> QED
      BY <3>1, <3>3, <2>1, <1>3, Zenon
  <2> QED
    BY <2>2, Zenon
<1> QED
  BY <1>4, <1>5

\* Ready submissions are closed under "earlier in the same queue".
LEMMA ReadyClosed ==
  ASSUME IInv, NEW f, NEW q, NEW y \in Ready(f, q), NEW x \in submissions,
         queueOf[x] = queueOf[y], x <= y
  PROVE  x \in Ready(f, q)
<1>1. CASE f = None
  BY <1>1, Zenon DEF Ready
<1>2. CASE f # None
  <2>1. PICK m \in submissions : y \in submissions /\ fenceOf[m] = f /\ SameQueue(y, m) /\ y <= m
    BY <1>2, Zenon DEF Ready
  <2>2. x <= m
    BY <2>1, Numbers
  <2> QED
    BY <2>1, <2>2, <1>2, Zenon DEF Ready, SameQueue
<1> QED
  BY <1>1, <1>2

\* As long as every submission works, a ready submission was executed.
LEMMA ReadyDone ==
  ASSUME IInv, NEW t \in Threads, pc[t] = "detach", SubmitsWork
  PROVE  Ready(fence[t], queue[t]) \subseteq done
<1> SUFFICES ASSUME NEW x \in Ready(fence[t], queue[t])
             PROVE  x \in done
  OBVIOUS
<1>1. /\ CallInv(t) /\ ExecInv /\ DriverInv /\ done \subseteq accepted
      /\ op[t] \in {"wait", "reset", "queue_idle"}
  BY Alone, Zenon DEF IInv, Types, DataTypes
<1>2. \A y \in Ready(fence[t], queue[t]) : y \in submissions /\ y \in Known /\ ~InDriver(y)
  BY DriverNotReady, Numbers, Zenon DEF Ready, InDriver
<1>3. \A y \in Ready(fence[t], queue[t]) : y \in accepted
  BY <1>2, Zenon DEF SubmitsWork, InDriver, Known
<1>4. CASE op[t] = "queue_idle"
  <2>1. Matches(queue[t], queueOf[x])
    BY <1>1, <1>4, Zenon DEF Ready, CallInv
  <2> QED
    BY <2>1, <1>1, <1>3, <1>4, Zenon DEF ExecInv
<1>5. CASE op[t] # "queue_idle"
  <2>1. fence[t] \in Fences /\ fence[t] # None /\ fence[t] \in signaled
    BY <1>1, <1>5, NoneAssumption, Zenon DEF CallInv
  <2>2. PICK m \in submissions : fenceOf[m] = fence[t] /\ queueOf[x] = queueOf[m] /\ x <= m
    BY <2>1, Zenon DEF Ready, SameQueue
  <2>3. m \in Known /\ m <= m /\ m \in Int /\ x \in Int
    BY <1>2, Numbers
  <2>4. m \in Ready(fence[t], queue[t])
    BY <2>1, <2>2, <2>3, Zenon DEF Ready, SameQueue
  <2>5. m \in done
    BY <2>1, <2>2, <2>3, <2>4, <1>1, <1>2, Numbers, Zenon DEF ExecInv
  <2>6. x = m \/ x < m
    BY <2>2, <2>3
  <2> QED
    BY <2>2, <2>5, <2>6, <1>1, <1>3, Zenon DEF DriverInv
<1> QED
  BY <1>4, <1>5

\* The holder of completion_guard takes the completed submissions off the list.
LEMMA DetachCompletedStep ==
  ASSUME IInv, NEW t \in Threads, DetachCompleted(t)
  PROVE  IInv'
<1> PICK R : R = Ready(fence[t], queue[t])
  OBVIOUS
<1>1. /\ pc[t] = "detach" /\ Goto(t, "invalidate") /\ submissions' = submissions \ R
      /\ UNCHANGED <<queueOf, fenceOf, refs, cancelled, nextSerial>>
      /\ UNCHANGED <<op, serial, fence, queue, result, must>>
      /\ UNCHANGED <<completing, visible, failed, accepted, done, signaled, pending>>
  BY Zenon DEF DetachCompleted, driverVars
<1>2. /\ R \subseteq submissions /\ R \subseteq Known
      /\ \A v \in Threads : pc[v] = "driver" => serial[v] \notin R
      /\ \A y \in R, x \in submissions : queueOf[x] = queueOf[y] /\ x <= y => x \in R
      /\ SubmitsWork => R \subseteq done
  <2>1. R \subseteq submissions
    BY Zenon DEF Ready
  <2> QED
    BY <2>1, <1>1, Numbers, DriverNotReady, ReadyClosed, ReadyDone, Zenon
<1>3. /\ completing = t /\ op[t] \in {"wait", "reset", "queue_idle"} /\ work[t] = {}
      /\ \A v \in Threads : work[v] = {}
  BY <1>1, Alone, Zenon DEF IInv, CallInv
<1>4. /\ pc'[t] = "invalidate" /\ \A v \in Threads \ {t} : Kept(v)
      /\ op'[t] = op[t] /\ serial'[t] = serial[t] /\ fence'[t] = fence[t]
      /\ queue'[t] = queue[t] /\ must'[t] = must[t] /\ result'[t] = result[t]
  BY <1>1, Typed, GotoEffect, Zenon
<1>5. /\ work' \in [Threads -> SUBSET Known] /\ work'[t] = R
      /\ \A v \in Threads \ {t} : work'[v] = {}
  <2>1. work \in [Threads -> SUBSET Known] /\ work' = [work EXCEPT ![t] = R]
    BY Zenon DEF IInv, Types, DataTypes, DetachCompleted
  <2> QED
    BY <2>1, <1>2, <1>3
<1>6. Known' = Known /\ Serials' = Serials
  BY <1>1, Zenon DEF Known, Serials
<1>7. Types'
  <2>1. completing' \in Threads \cup {None}
    BY <1>1, Zenon DEF IInv, Types, CallTypes
  <2>2. CallTypes'
    BY <2>1, <1>1, GotoTyped, Zenon DEF IInv, CompletePlaces
  <2>3. SubTypes'
    BY <1>1, <1>6, Zenon DEF IInv, Types, SubTypes
  <2>4. \A v \in Threads : work'[v] \cap submissions' = {}
    BY <1>1, <1>5, Zenon
  <2>5. DataTypes'
    BY <2>4, <1>1, <1>5, <1>6, Zenon DEF IInv, Types, DataTypes
  <2> QED
    BY <2>2, <2>3, <2>5, Zenon DEF Types
<1>8. RefInv'
  <2>1. \A x : Submitting(x)' <=> Submitting(x)
    BY <1>1, Zenon DEF Submitting
  <2>2. \A v \in Threads : pc'[v] = "detached" <=> pc[v] = "detached"
    BY <1>1, <1>4, Zenon DEF Kept
  <2>3. \A x : x \in submissions' \/ (\E v \in Threads : x \in work'[v])
               <=> x \in submissions \/ (\E v \in Threads : x \in work[v])
    BY <1>1, <1>2, <1>3, <1>5, Zenon
  <2>4. \A x : Held(x)' <=> Held(x)
    BY <2>2, <2>3, <1>1, Zenon DEF Held
  <2> QED
    BY <2>1, <2>4, <1>1, <1>6, Zenon DEF IInv, RefInv
<1>9. DriverInv'
  <2>1. \A x \in accepted : x \in submissions' \cup visible' \/ \E u \in Threads : x \in work'[u]
    BY <1>1, <1>3, <1>5, Zenon DEF IInv, DriverInv
  <2> QED
    BY <2>1, <1>1, Zenon DEF IInv, DriverInv
<1>10. OrderInv'
  <2> SUFFICES ASSUME ~failed, NEW x \in accepted, NEW y \in accepted, queueOf[x] = queueOf[y],
                      x < y, y \notin submissions \/ y \in R, x \in submissions
               PROVE  x \in R
    BY <1>1, Zenon DEF OrderInv
  <2>1. y \in submissions
    BY Zenon DEF IInv, OrderInv
  <2>2. x <= y
    BY Numbers
  <2> QED
    BY <2>1, <2>2, <1>2, Zenon
<1>11. ExecInv'
  <2> SUFFICES ASSUME SubmitsWork'
               PROVE  ExecInv'
    BY Zenon DEF ExecInv
  <2>1. \A v \in Threads : pc'[v] = "driver" <=> pc[v] = "driver"
    BY <1>1, <1>4, Zenon DEF Kept
  <2>2. SubmitsWork /\ \A m : InDriver(m)' <=> InDriver(m)
    BY <2>1, <1>1, Zenon DEF SubmitsWork, InDriver
  <2>3. \A v \in Threads : work'[v] \subseteq done
    BY <2>2, <1>2, <1>5, Zenon
  <2>4. \A v \in Threads : op'[v] = "queue_idle" /\ pc'[v] \in {"lock", "detach"} =>
          \A x \in accepted : Matches(queue[v], queueOf[x]) => x \in done
    BY <2>2, <1>4, Zenon DEF IInv, ExecInv, Kept
  <2> QED
    BY <2>2, <2>3, <2>4, <1>1, Zenon DEF IInv, ExecInv
<1>12. ASSUME NEW v \in Threads PROVE CallInv(v)'
  <2>1. CallInv(v) /\ CallInv(t)
    BY Zenon DEF IInv
  <2> QED
    BY <2>1, <1>1, <1>3, <1>4, <1>5, Zenon DEF CallInv, SubmitPlaces, Kept
<1>13. ASSUME NEW v \in Threads PROVE SubmitInv(v)'
  <2>1. SubmitInv(v)
    BY Zenon DEF IInv
  <2>2. (pc'[v] = "driver" <=> pc[v] = "driver") /\ (pc'[v] = pc[v] \/ pc'[v] = "invalidate")
    BY <1>1, <1>4, Zenon DEF Kept
  <2>3. pc[v] = "driver" => serial[v] \notin R
    BY <1>2, Zenon
  <2>4. \A s : s \notin submissions => s \notin submissions' /\ \A u \in Threads : s \notin work'[u]
    BY <1>1, <1>2, <1>5, Zenon
  <2> QED
    BY <2>1, <2>2, <2>3, <2>4, <1>1, <1>6, Zenon DEF SubmitInv
<1>14. ReportInv(t)'
  <2>1. \A s : Last(t, s)' <=> Last(t, s)
    BY <1>1, Zenon DEF Last
  <2>2. \A x \in must[t] : x \in accepted /\ x \in Int /\ x \in submissions \cup visible
    <3>1. must[t] \subseteq accepted
      BY Zenon DEF IInv, Types, DataTypes
    <3> QED
      BY <3>1, <1>3, Numbers, Zenon DEF IInv, DriverInv
  <2>3. CASE op[t] = "queue_idle"
    <3>1. \A x \in must[t] : x \in submissions => x \in R
      BY <2>3, <1>1, Zenon DEF IInv, ReportInv, CallInv, Ready
    <3> QED
      BY <2>2, <2>3, <3>1, <1>1, <1>4, <1>5, Zenon DEF ReportInv
  <2>4. CASE op[t] # "queue_idle"
    <3> PICK p : p = pending[fence[t]]
      OBVIOUS
    <3>1. op[t] \in {"wait", "reset"} /\ fence[t] \in Fences /\ fence[t] # None
      BY <2>4, <1>3, NoneAssumption, Zenon DEF IInv, CallInv
    <3>2. \A x \in must[t] : p \in must[t] /\ x <= p /\ queueOf[x] = queueOf[p]
      BY <3>1, <1>1, Zenon DEF IInv, ReportInv
    <3>3. \A x \in must[t] : p \in submissions /\ x \in submissions => x \in R
      <4>1. \A x \in must[t] : p # 0 /\ fenceOf[p] = fence[t]
        BY <3>1, <3>2, <2>2, Numbers, Zenon DEF IInv, DriverInv
      <4> QED
        BY <4>1, <3>1, <3>2, Zenon DEF Ready, SameQueue
    <3>4. \A s \in must[t] : Last(t, s) => s \in R \cup visible
      <4> SUFFICES ASSUME NEW s \in must[t], Last(t, s)
                   PROVE  s \in R \cup visible
        BY Zenon
      <4>1. p \in must[t] /\ p <= s /\ s <= p
        BY <3>2, Zenon DEF Last
      <4>2. s = p
        BY <4>1, <2>2
      <4> QED
        BY <4>2, <3>3, <2>2, Zenon
    <3>5. ~failed => must[t] \subseteq R \cup visible
      <4> SUFFICES ASSUME ~failed, NEW x \in must[t], x \in submissions
                   PROVE  x \in R
        BY <2>2, Zenon
      <4>1. p \in must[t] /\ x <= p /\ queueOf[x] = queueOf[p]
        BY <3>2, Zenon
      <4>2. x = p \/ x < p
        BY <4>1, <2>2
      <4>3. p \in submissions
        BY <4>1, <4>2, <2>2, Zenon DEF IInv, OrderInv
      <4> QED
        BY <4>3, <3>3, Zenon
    <3> QED
      BY <3>1, <3>4, <3>5, <2>1, <1>1, <1>4, <1>5, Zenon DEF ReportInv
  <2> QED
    BY <2>3, <2>4
<1>15. ASSUME NEW v \in Threads \ {t} PROVE ReportInv(v)'
  <2>1. \A s : Last(v, s)' <=> Last(v, s)
    BY <1>1, Zenon DEF Last
  <2>2. ReportInv(v) /\ pc'[v] = pc[v] /\ pc[v] # "invalidate"
    BY <1>1, <1>4, Alone, Zenon DEF IInv, Kept
  <2> QED
    BY <2>1, <2>2, <1>1, Zenon DEF ReportInv
<1>16. ASSUME NEW v \in Threads, NEW u \in Threads, v # u PROVE Apart(v, u)'
  <2>1. Apart(v, u)
    BY <1>16, Zenon DEF IInv
  <2> QED
    BY <2>1, <1>1, <1>4, Zenon DEF Apart, Kept
<1> QED
  BY <1>7, <1>8, <1>9, <1>10, <1>11, <1>12, <1>13, <1>14, <1>15, <1>16, Zenon DEF IInv

\* What the two outcomes of an invalidation share: the submission leaves the
\* thread's work, and nothing else refers to it.
LEMMA TakeWork ==
  ASSUME IInv, NEW t \in Threads, pc[t] = "invalidate", NEW s \in work[t],
         work' = [work EXCEPT ![t] = @ \ {s}]
  PROVE  /\ work' \in [Threads -> SUBSET Known] /\ work'[t] = work[t] \ {s}
         /\ \A v \in Threads \ {t} : work'[v] = {} /\ work[v] = {} /\ pc[v] # "invalidate"
         /\ s \in Known /\ s \in Serials /\ s \notin submissions /\ Held(s)
         /\ \A v \in Threads : ~(pc[v] = "detached" /\ serial[v] = s)
         /\ completing = t /\ op[t] \in {"wait", "reset", "queue_idle"}
<1>1. /\ work \in [Threads -> SUBSET Known] /\ work[t] \cap submissions = {}
      /\ \A v \in Threads : SubmitInv(v) /\ CallInv(v)
  BY Zenon DEF IInv, Types, DataTypes
<1>2. /\ completing = t /\ op[t] \in {"wait", "reset", "queue_idle"}
      /\ \A v \in Threads \ {t} : work[v] = {} /\ pc[v] # "invalidate"
  BY Alone, Zenon
<1>3. /\ work' \in [Threads -> SUBSET Known] /\ work'[t] = work[t] \ {s}
      /\ \A v \in Threads \ {t} : work'[v] = work[v]
  BY <1>1
<1>4. s \in Known /\ s \in Serials /\ s \notin submissions /\ Held(s)
  BY <1>1, Numbers, Zenon DEF Held
<1>5. \A v \in Threads : ~(pc[v] = "detached" /\ serial[v] = s)
  BY <1>1, ZenonT(30) DEF SubmitInv, CallInv, SubmitPlaces
<1> QED
  BY <1>2, <1>3, <1>4, <1>5, Zenon

\* One detached submission is made visible and its reference dropped.
LEMMA InvalidateStep ==
  ASSUME IInv, NEW t \in Threads, Invalidate(t)
  PROVE  IInv'
<1> PICK s \in work[t] : /\ visible' = visible \cup {s} /\ Release(s)
                         /\ work' = [work EXCEPT ![t] = @ \ {s}]
  BY Zenon DEF Invalidate
<1>1. /\ pc[t] = "invalidate" /\ UNCHANGED <<submissions, queueOf, fenceOf, cancelled, nextSerial>>
      /\ UNCHANGED <<completing, pc, op, serial, fence, queue, result, must>>
      /\ UNCHANGED <<failed, accepted, done, signaled, pending>>
  BY Zenon DEF Invalidate, driverVars
<1>2. /\ work' \in [Threads -> SUBSET Known] /\ work'[t] = work[t] \ {s}
      /\ \A v \in Threads \ {t} : work'[v] = {} /\ work[v] = {} /\ pc[v] # "invalidate"
      /\ s \in Known /\ s \in Serials /\ s \notin submissions /\ Held(s)
      /\ \A v \in Threads : ~(pc[v] = "detached" /\ serial[v] = s)
  BY <1>1, TakeWork, Zenon
<1>3. Known' = Known /\ Serials' = Serials /\ \A v \in Threads : work'[v] \subseteq work[v]
  BY <1>1, <1>2, Zenon DEF Known, Serials
<1>4. RefInv' /\ refs' \in [Serials -> Int]
  <2>1. ~Held(s)' /\ \A x : Submitting(x)' <=> Submitting(x)
    BY <1>1, <1>2, Zenon DEF Held, Submitting
  <2>2. \A x \in Serials \ {s} : Held(x)' <=> Held(x)
    BY <1>1, <1>2, Zenon DEF Held
  <2>3. refs \in [Serials -> Int]
    BY Zenon DEF IInv, Types, SubTypes
  <2> QED
    BY <2>1, <2>2, <2>3, <1>2, ReleaseRefs, Zenon DEF IInv
<1>5. Types'
  <2>1. CallTypes' /\ SubTypes'
    BY <1>1, <1>3, <1>4, Zenon DEF IInv, Types, SubTypes, CallTypes
  <2>2. \A v \in Threads : work'[v] \cap submissions' = {}
    BY <1>1, <1>3, Zenon DEF IInv, Types, DataTypes
  <2>3. DataTypes'
    BY <2>2, <1>1, <1>2, <1>3, Zenon DEF IInv, Types, DataTypes
  <2> QED
    BY <2>1, <2>3, Zenon DEF Types
<1>6. DriverInv' /\ OrderInv'
  <2>1. \A x \in accepted : x \in submissions' \cup visible' \/ \E u \in Threads : x \in work'[u]
    BY <1>1, <1>2, Zenon DEF IInv, DriverInv
  <2> QED
    BY <2>1, <1>1, Zenon DEF IInv, DriverInv, OrderInv
<1>7. ExecInv'
  <2>1. \A m : InDriver(m)' <=> InDriver(m)
    BY <1>1, Zenon DEF InDriver
  <2>2. SubmitsWork' <=> SubmitsWork
    BY <1>1, Zenon DEF SubmitsWork
  <2>3. SubmitsWork => visible' \subseteq done /\ \A v \in Threads : work'[v] \subseteq done
    BY <1>3, Zenon DEF IInv, ExecInv
  <2> QED
    BY <2>1, <2>2, <2>3, <1>1, Zenon DEF IInv, ExecInv
<1>8. ASSUME NEW v \in Threads PROVE CallInv(v)' /\ SubmitInv(v)' /\ ReportInv(v)'
  <2>1. CallInv(v) /\ SubmitInv(v) /\ ReportInv(v) /\ (pc[v] # "invalidate" => work'[v] = {})
    BY <1>1, <1>2, Zenon DEF IInv
  <2>2. CallInv(v)'
    BY <2>1, <1>1, Zenon DEF CallInv
  <2>3. SubmitInv(v)'
    BY <2>1, <1>1, <1>3, Zenon DEF SubmitInv
  <2>4. ReportInv(v)'
    <3>1. /\ \A x : Last(v, x)' <=> Last(v, x)
          /\ visible \subseteq visible' /\ (pc[v] = "invalidate" => v = t)
      BY <1>1, <1>2, Zenon DEF Last
    <3>2. work[t] \cup visible \subseteq work'[t] \cup visible'
      BY <1>2, Zenon
    <3> QED
      BY <3>1, <3>2, <2>1, <1>1, Zenon DEF ReportInv
  <2> QED
    BY <2>2, <2>3, <2>4
<1>9. \A v, u \in Threads : v # u => Apart(v, u)'
  BY <1>1, Zenon DEF IInv, Apart
<1> QED
  BY <1>4, <1>5, <1>6, <1>7, <1>8, <1>9, Zenon DEF IInv

\* A failed invalidation puts the submission back, unless it was cancelled.
LEMMA InvalidateFailsStep ==
  ASSUME IInv, NEW t \in Threads, InvalidateFails(t)
  PROVE  IInv'
<1> PICK s \in work[t] : /\ submissions' = submissions \cup Keeps(s)
                         /\ work' = [work EXCEPT ![t] = @ \ {s}]
                         /\ IF cancelled[s] THEN Release(s) ELSE UNCHANGED refs
  BY Zenon DEF InvalidateFails
<1>1. /\ pc[t] = "invalidate" /\ UNCHANGED <<queueOf, fenceOf, cancelled, nextSerial>>
      /\ UNCHANGED <<completing, pc, op, serial, fence, queue, must>>
      /\ UNCHANGED <<visible, accepted, done, signaled, pending>> /\ failed' = TRUE
      /\ result' = [result EXCEPT ![t] = "error"]
  BY Zenon DEF InvalidateFails, driverVars
<1>2. /\ work' \in [Threads -> SUBSET Known] /\ work'[t] = work[t] \ {s}
      /\ \A v \in Threads \ {t} : work'[v] = {} /\ work[v] = {} /\ pc[v] # "invalidate"
      /\ s \in Known /\ s \in Serials /\ s \notin submissions /\ Held(s)
      /\ \A v \in Threads : ~(pc[v] = "detached" /\ serial[v] = s)
  BY <1>1, TakeWork, Zenon
<1>3. Known' = Known /\ Serials' = Serials /\ \A v \in Threads : work'[v] \subseteq work[v]
  BY <1>1, <1>2, Zenon DEF Known, Serials
<1>4. /\ submissions \subseteq submissions' /\ submissions' \subseteq submissions \cup {s}
      /\ s \in submissions' <=> ~cancelled[s]
  BY <1>2, Zenon DEF Keeps
<1>5. /\ result' \in [Threads -> {"ok", "error"}] /\ result'[t] = "error"
      /\ \A v \in Threads \ {t} : result'[v] = result[v]
  BY <1>1 DEF IInv, Types, CallTypes
<1>6. RefInv' /\ refs' \in [Serials -> Int]
  <2>1. \A x : Submitting(x)' <=> Submitting(x)
    BY <1>1, Zenon DEF Submitting
  <2>2. \A x \in Serials \ {s} : Held(x)' <=> Held(x)
    BY <1>1, <1>2, <1>4, Zenon DEF Held
  <2>3. refs \in [Serials -> Int]
    BY Zenon DEF IInv, Types, SubTypes
  <2>4. CASE cancelled[s]
    <3>1. ~Held(s)'
      BY <2>4, <1>1, <1>2, <1>4, Zenon DEF Held
    <3> QED
      BY <2>1, <2>2, <2>3, <2>4, <3>1, <1>2, ReleaseRefs, Zenon DEF IInv
  <2>5. CASE ~cancelled[s]
    <3>1. Held(s)'
      BY <2>5, <1>4, Zenon DEF Held
    <3> QED
      BY <2>1, <2>2, <2>3, <2>5, <3>1, <1>2, <1>3, Zenon DEF IInv, RefInv
  <2> QED
    BY <2>4, <2>5
<1>7. Types'
  <2>1. CallTypes'
    BY <1>1, <1>5, Zenon DEF IInv, Types, CallTypes
  <2>2. SubTypes'
    BY <1>1, <1>2, <1>3, <1>4, <1>6, ZenonT(30) DEF IInv, Types, SubTypes
  <2>3. \A v \in Threads : work'[v] \cap submissions' = {}
    <3>1. \A v \in Threads : work'[v] \cap submissions = {} /\ s \notin work'[v]
      BY <1>2, <1>3, Zenon DEF IInv, Types, DataTypes
    <3> QED
      BY <3>1, <1>4, Zenon
  <2>4. DataTypes'
    BY <2>3, <1>1, <1>2, <1>3, Zenon DEF IInv, Types, DataTypes
  <2> QED
    BY <2>1, <2>2, <2>4, Zenon DEF Types
<1>8. DriverInv' /\ OrderInv'
  <2>1. \A x \in accepted : x \in submissions' \cup visible' \/ \E u \in Threads : x \in work'[u]
    <3> SUFFICES ASSUME NEW x \in accepted
                 PROVE  x \in submissions' \cup visible \/ \E u \in Threads : x \in work'[u]
      BY <1>1, Zenon
    <3>1. CASE x = s
      BY <3>1, <1>4, Zenon DEF IInv, DriverInv
    <3>2. CASE x # s
      BY <3>2, <1>2, <1>4, Zenon DEF IInv, DriverInv
    <3> QED
      BY <3>1, <3>2
  <2> QED
    BY <2>1, <1>1, Zenon DEF IInv, DriverInv, OrderInv
<1>9. ExecInv'
  <2>1. \A m : InDriver(m)' <=> InDriver(m)
    BY <1>1, Zenon DEF InDriver
  <2>2. SubmitsWork' <=> SubmitsWork
    BY <1>1, Zenon DEF SubmitsWork
  <2>3. SubmitsWork => s \in done /\ \A v \in Threads : work'[v] \subseteq done
    BY <1>3, Zenon DEF IInv, ExecInv
  <2> QED
    BY <2>1, <2>2, <2>3, <1>1, <1>4, Zenon DEF IInv, ExecInv
<1>10. ASSUME NEW v \in Threads PROVE CallInv(v)' /\ SubmitInv(v)' /\ ReportInv(v)'
  <2>1. CallInv(v) /\ SubmitInv(v) /\ ReportInv(v) /\ (pc[v] # "invalidate" => work'[v] = {})
    BY <1>1, <1>2, Zenon DEF IInv
  <2>2. pc[v] # "invalidate" => result'[v] = result[v]
    BY <1>1, <1>5, Zenon
  <2>3. CallInv(v)'
    BY <2>1, <2>2, <1>1, Zenon DEF CallInv
  <2>4. SubmitInv(v)'
    <3>1. pc[v] = "detached" => serial[v] # s
      BY <1>2, Zenon
    <3> QED
      BY <2>1, <3>1, <1>1, <1>3, <1>4, Zenon DEF SubmitInv
  <2>5. ReportInv(v)'
    <3>1. \A x : Last(v, x)' <=> Last(v, x)
      BY <1>1, Zenon DEF Last
    <3>2. pc[v] = "invalidate" => result'[v] = "error"
      BY <1>2, <1>5, Zenon
    <3> QED
      BY <3>1, <3>2, <2>1, <2>2, <1>1, Zenon DEF ReportInv
  <2> QED
    BY <2>3, <2>4, <2>5
<1>11. \A v, u \in Threads : v # u => Apart(v, u)'
  BY <1>1, Zenon DEF IInv, Apart
<1> QED
  BY <1>6, <1>7, <1>8, <1>9, <1>10, <1>11, Zenon DEF IInv

-----------------------------------------------------------------------------
(* Fences are reset, forgotten and destroyed; the GPU executes *)

\* The driver's reset clears one fence.
LEMMA UnsignalEffect ==
  ASSUME Types, NEW f \in Fences, Unsignal(f)
  PROVE  /\ pending' \in [Fences -> accepted' \cup {0}] /\ pending'[f] = 0
         /\ \A g \in Fences \ {f} : pending'[g] = pending[g]
         /\ signaled' = signaled \ {f} /\ signaled' \subseteq Fences
         /\ accepted' = accepted /\ done' = done
  BY DEF Types, DataTypes, Unsignal

\* Forgetting a fence unties the listed submissions from it, and no others.
LEMMA ForgetEffect ==
  ASSUME Types, NEW f \in Fences, ForgetFence(f)
  PROVE  /\ fenceOf' \in [Serials -> Fences \cup {None}]
         /\ \A s \in Serials : fenceOf'[s] = fenceOf[s] \/ (fenceOf[s] = f /\ fenceOf'[s] = None)
         /\ \A s \in Serials \cap submissions : fenceOf'[s] # f
  BY NoneAssumption DEF Types, SubTypes, ForgetFence

\* The driver resets the fence.
LEMMA ResetDriverStep ==
  ASSUME IInv, NEW t \in Threads, ResetDriver(t)
  PROVE  IInv'
<1>1. /\ pc[t] = "reset" /\ Goto(t, "forget") /\ Unsignal(fence[t]) /\ UNCHANGED subVars
      /\ UNCHANGED <<op, serial, fence, queue, result, must>>
      /\ UNCHANGED <<completing, work, visible, failed>>
  BY Zenon DEF ResetDriver
<1>2. /\ op[t] = "reset" /\ result[t] = "ok" /\ fence[t] \in Fences /\ work[t] = {}
      /\ completing # t /\ (fence[t] \in signaled \/ pending[fence[t]] = 0)
  BY <1>1, Zenon DEF IInv, CallInv
<1> PICK f \in Fences : f = fence[t]
  BY <1>2, Zenon
<1>3. /\ pending' \in [Fences -> accepted' \cup {0}] /\ pending'[f] = 0
      /\ \A g \in Fences \ {f} : pending'[g] = pending[g]
      /\ signaled' = signaled \ {f} /\ signaled' \subseteq Fences
      /\ accepted' = accepted /\ done' = done
  BY <1>1, Typed, UnsignalEffect, Zenon
<1>4. /\ pc'[t] = "forget" /\ \A v \in Threads \ {t} : Kept(v)
      /\ op'[t] = op[t] /\ serial'[t] = serial[t] /\ fence'[t] = fence[t]
      /\ queue'[t] = queue[t] /\ must'[t] = must[t] /\ result'[t] = result[t]
  BY <1>1, Typed, GotoEffect, Zenon
<1>5. \A v \in Threads \ {t} : op[v] \in {"submit", "wait", "reset"} => fence[v] # f
  <2>1. \A v \in Threads \ {t} : Apart(t, v)
    BY Zenon DEF IInv
  <2> QED
    BY <2>1, <1>2, Zenon DEF Apart
<1>6. Known' = Known
  BY <1>1, Zenon DEF Known, subVars
<1>7. Types'
  <2>1. completing' \in Threads \cup {None}
    BY <1>1, Zenon DEF IInv, Types, CallTypes
  <2>2. CallTypes'
    BY <2>1, <1>1, GotoTyped, Zenon DEF IInv, CompletePlaces
  <2> QED
    BY <2>2, <1>1, <1>3, <1>6, Zenon DEF IInv, Types, SubTypes, DataTypes, subVars
<1>8. RefInv'
  <2>1. \A v \in Threads :
          /\ op'[v] = "submit" <=> op[v] = "submit"
          /\ op[v] = "submit" => serial'[v] = serial[v]
          /\ pc'[v] = "detached" <=> pc[v] = "detached"
          /\ pc[v] = "detached" => serial'[v] = serial[v]
    BY <1>1, <1>4, Zenon DEF Kept
  <2>2. UNCHANGED <<refs, submissions, work>>
    BY <1>1, Zenon DEF subVars
  <2> QED
    BY <2>1, <2>2, FrameRefs, Zenon DEF IInv
<1>9. DriverInv' /\ OrderInv'
  <2>1. \A g \in Fences : pending'[g] # 0 => fenceOf'[pending'[g]] = g
    BY <1>1, <1>3, Zenon DEF IInv, DriverInv, subVars
  <2> QED
    BY <2>1, <1>1, <1>3, Zenon DEF IInv, DriverInv, OrderInv, subVars
<1>10. ExecInv'
  <2> SUFFICES ASSUME SubmitsWork'
               PROVE  ExecInv'
    BY Zenon DEF ExecInv
  <2>1. \A v \in Threads : pc'[v] = "driver" <=> pc[v] = "driver"
    BY <1>1, <1>4, Zenon DEF Kept
  <2>2. SubmitsWork /\ \A m : InDriver(m)' <=> InDriver(m)
    BY <2>1, <1>1, <1>3, ZenonT(30) DEF SubmitsWork, InDriver, subVars
  <2>3. /\ visible' \subseteq done' /\ \A v \in Threads : work'[v] \subseteq done'
        /\ \A g \in signaled' : pending'[g] # 0 => pending'[g] \in done'
    BY <2>2, <1>1, <1>3, Zenon DEF IInv, ExecInv
  <2>4. ASSUME NEW m \in submissions, fenceOf[m] # None
        PROVE  m \in done \/ pending'[fenceOf[m]] = m \/ InDriver(m)
    <3>1. m # 0 /\ fenceOf[m] \in Fences
      <4>1. m \in Serials /\ m # 0
        BY Numbers, Zenon
      <4> QED
        BY <4>1, <2>4, Zenon DEF IInv, Types, SubTypes
    <3>2. m \in done \/ pending[fenceOf[m]] = m \/ InDriver(m)
      BY <2>2, <2>4, Zenon DEF IInv, ExecInv
    <3>3. pending[f] = m => m \in done
      BY <3>1, <2>2, <1>2, Zenon DEF IInv, ExecInv
    <3> QED
      BY <3>1, <3>2, <3>3, <1>3, Zenon
  <2>5. \A v \in Threads : op'[v] = "queue_idle" /\ pc'[v] \in {"lock", "detach"} =>
          \A x \in accepted : Matches(queue[v], queueOf[x]) => x \in done
    BY <2>2, <1>1, <1>4, Zenon DEF IInv, ExecInv, Kept
  <2> QED
    BY <2>2, <2>3, <2>4, <2>5, <1>1, <1>3, Zenon DEF ExecInv, subVars
<1>11. CallInv(t)' /\ SubmitInv(t)' /\ ReportInv(t)'
  <2>1. CallInv(t)'
    BY <1>1, <1>2, <1>3, <1>4, Zenon DEF CallInv, SubmitPlaces
  <2>2. SubmitInv(t)'
    BY <1>2, <1>4, Zenon DEF SubmitInv
  <2>3. ReportInv(t)'
    <3>1. ReportInv(t) /\ \A s : Last(t, s)' <=> Last(t, s)
      BY <1>1, Zenon DEF IInv, Last
    <3> QED
      BY <3>1, <1>1, <1>4, Zenon DEF ReportInv
  <2> QED
    BY <2>1, <2>2, <2>3
<1>12. ASSUME NEW v \in Threads \ {t} PROVE CallInv(v)' /\ SubmitInv(v)' /\ ReportInv(v)'
  <2>1. CallInv(v) /\ SubmitInv(v) /\ ReportInv(v) /\ Kept(v)
    BY <1>4, Zenon DEF IInv
  <2>2. /\ op[v] \in {"submit", "wait", "reset"} /\ fence[v] # None => pending'[fence[v]] = pending[fence[v]]
        /\ op[v] \in {"submit", "wait", "reset"} => (fence[v] \in signaled' <=> fence[v] \in signaled)
    <3>1. fence[v] # None => fence[v] \in Fences
      BY Zenon DEF IInv, Types, CallTypes
    <3> QED
      BY <3>1, <1>3, <1>5, Zenon
  <2>3. CallInv(v)'
    <3>1. op[v] \in {"wait", "reset"} => fence[v] # None
      BY <2>1, NoneAssumption, Zenon DEF CallInv
    <3> QED
      BY <3>1, <2>1, <2>2, <1>1, Zenon DEF CallInv, Kept
  <2>4. SubmitInv(v)'
    BY <2>1, <2>2, <1>1, <1>3, <1>6, Zenon DEF SubmitInv, Kept, subVars
  <2>5. ReportInv(v)'
    <3>1. \A s : Last(v, s)' <=> Last(v, s)
      BY <1>1, Zenon DEF Last
    <3>2. op[v] \in {"wait", "reset"} => fence[v] # None
      BY <2>1, NoneAssumption, Zenon DEF CallInv
    <3> QED
      BY <3>1, <3>2, <2>1, <2>2, <1>1, Zenon DEF ReportInv, Kept, subVars
  <2> QED
    BY <2>3, <2>4, <2>5
<1>13. ASSUME NEW v \in Threads, NEW u \in Threads, v # u PROVE Apart(v, u)'
  <2>1. Apart(v, u)
    BY <1>13, Zenon DEF IInv
  <2> QED
    BY <2>1, <1>1, <1>4, Zenon DEF Apart, Kept
<1> QED
  BY <1>7, <1>8, <1>9, <1>10, <1>11, <1>12, <1>13, Zenon DEF IInv

\* reset_fences() forgets the fence it has reset.
LEMMA ResetForgetStep ==
  ASSUME IInv, NEW t \in Threads, ResetForget(t)
  PROVE  IInv'
<1>1. /\ pc[t] = "forget" /\ Goto(t, "return") /\ ForgetFence(fence[t])
      /\ UNCHANGED <<submissions, queueOf, refs, cancelled, nextSerial>>
      /\ UNCHANGED <<op, serial, fence, queue, result, must>>
      /\ UNCHANGED <<completing, work, visible, failed, accepted, done, signaled, pending>>
  BY Zenon DEF ResetForget, driverVars
<1>2. /\ op[t] = "reset" /\ result[t] = "ok" /\ fence[t] \in Fences /\ work[t] = {} /\ completing # t
      /\ pending[fence[t]] = 0
  BY <1>1, Zenon DEF IInv, CallInv
<1> PICK f \in Fences : f = fence[t]
  BY <1>2, Zenon
<1>3. /\ fenceOf' \in [Serials -> Fences \cup {None}]
      /\ \A s \in Serials : fenceOf'[s] = fenceOf[s] \/ (fenceOf[s] = f /\ fenceOf'[s] = None)
  BY <1>1, Typed, ForgetEffect, Zenon
<1>4. /\ pc'[t] = "return" /\ \A v \in Threads \ {t} : Kept(v)
      /\ op'[t] = op[t] /\ serial'[t] = serial[t] /\ fence'[t] = fence[t]
      /\ queue'[t] = queue[t] /\ must'[t] = must[t] /\ result'[t] = result[t]
  BY <1>1, Typed, GotoEffect, Zenon
<1>5. \A v \in Threads \ {t} : op[v] \in {"submit", "wait", "reset"} => fence[v] # f
  <2>1. \A v \in Threads \ {t} : Apart(t, v)
    BY Zenon DEF IInv
  <2> QED
    BY <2>1, <1>2, Zenon DEF Apart
<1>6. Known' = Known /\ Serials' = Serials
  BY <1>1, Zenon DEF Known, Serials
<1>7. Types'
  <2>1. completing' \in Threads \cup {None}
    BY <1>1, Zenon DEF IInv, Types, CallTypes
  <2>2. CallTypes'
    BY <2>1, <1>1, GotoTyped, Zenon DEF IInv, CompletePlaces
  <2> QED
    BY <2>2, <1>1, <1>3, <1>6, Zenon DEF IInv, Types, SubTypes, DataTypes
<1>8. RefInv'
  <2>1. \A v \in Threads :
          /\ op'[v] = "submit" <=> op[v] = "submit"
          /\ op[v] = "submit" => serial'[v] = serial[v]
          /\ pc'[v] = "detached" <=> pc[v] = "detached"
          /\ pc[v] = "detached" => serial'[v] = serial[v]
    BY <1>1, <1>4, Zenon DEF Kept
  <2>2. UNCHANGED <<refs, submissions, work>>
    BY <1>1, Zenon
  <2> QED
    BY <2>1, <2>2, FrameRefs, Zenon DEF IInv
<1>9. DriverInv' /\ OrderInv'
  <2>1. ASSUME NEW g \in Fences, pending[g] # 0 PROVE fenceOf'[pending[g]] = g
    <3>1. pending[g] \in Serials
      BY <2>1, Numbers, Zenon DEF IInv, Types, DataTypes
    <3> QED
      BY <3>1, <2>1, <1>2, <1>3, Zenon DEF IInv, DriverInv
  <2> QED
    BY <2>1, <1>1, Zenon DEF IInv, DriverInv, OrderInv
<1>10. ExecInv'
  <2> SUFFICES ASSUME SubmitsWork'
               PROVE  ExecInv'
    BY Zenon DEF ExecInv
  <2>1. \A v \in Threads : pc'[v] = "driver" <=> pc[v] = "driver"
    BY <1>1, <1>4, Zenon DEF Kept
  <2>2. SubmitsWork /\ \A m : InDriver(m)' <=> InDriver(m)
    BY <2>1, <1>1, Zenon DEF SubmitsWork, InDriver
  <2>3. ASSUME NEW m \in submissions, fenceOf'[m] # None
        PROVE  m \in done \/ pending[fenceOf'[m]] = m \/ InDriver(m)
    <3>1. fenceOf'[m] = fenceOf[m]
      BY <2>3, <1>3, Numbers, Zenon
    <3> QED
      BY <3>1, <2>2, <2>3, Zenon DEF IInv, ExecInv
  <2>4. \A v \in Threads : op'[v] = "queue_idle" /\ pc'[v] \in {"lock", "detach"} =>
          \A x \in accepted : Matches(queue[v], queueOf[x]) => x \in done
    BY <2>2, <1>1, <1>4, Zenon DEF IInv, ExecInv, Kept
  <2> QED
    BY <2>2, <2>3, <2>4, <1>1, Zenon DEF IInv, ExecInv
<1>11. ASSUME NEW v \in Threads PROVE CallInv(v)'
  <2>1. CallInv(v) /\ CallInv(t)
    BY Zenon DEF IInv
  <2> QED
    BY <2>1, <1>1, <1>2, <1>4, Zenon DEF CallInv, SubmitPlaces, Kept
<1>12. ASSUME NEW v \in Threads PROVE SubmitInv(v)'
  <2>1. SubmitInv(v) /\ (pc[v] = "driver" => op[v] = "submit")
    BY Zenon DEF IInv, CallInv, SubmitPlaces
  <2> SUFFICES ASSUME op[v] = "submit"
               PROVE  SubmitInv(v)'
    BY <1>1, Zenon DEF SubmitInv
  <2>2. v # t /\ pc'[v] = pc[v] /\ fence[v] # f
    BY <1>2, <1>4, <1>5, Zenon DEF Kept
  <2>3. pc[v] = "driver" => fenceOf'[serial[v]] = fence[v]
    <3>1. serial[v] \in Serials
      BY SerialsDiffer, Zenon
    <3> QED
      BY <3>1, <2>1, <2>2, <1>3, Zenon DEF SubmitInv
  <2> QED
    BY <2>1, <2>2, <2>3, <1>1, <1>6, Zenon DEF SubmitInv
<1>13. ASSUME NEW v \in Threads PROVE ReportInv(v)'
  <2>1. ReportInv(v) /\ \A s : Last(v, s)' <=> Last(v, s)
    BY <1>1, Zenon DEF IInv, Last
  <2>2. pc'[v] = pc[v] \/ (pc[v] = "forget" /\ pc'[v] = "return")
    BY <1>1, <1>4, Zenon DEF Kept
  <2> QED
    BY <2>1, <2>2, <1>1, Zenon DEF ReportInv
<1>14. ASSUME NEW v \in Threads, NEW u \in Threads, v # u PROVE Apart(v, u)'
  <2>1. Apart(v, u)
    BY <1>14, Zenon DEF IInv
  <2> QED
    BY <2>1, <1>1, <1>4, Zenon DEF Apart, Kept
<1> QED
  BY <1>7, <1>8, <1>9, <1>10, <1>11, <1>12, <1>13, <1>14, Zenon DEF IInv

\* A fence that no call uses is forgotten when it is destroyed.
LEMMA DestroyFenceStep ==
  ASSUME IInv, NEW f \in Fences, DestroyFence(f)
  PROVE  IInv'
<1>1. /\ pending[f] = 0 \/ f \in signaled
      /\ UNCHANGED <<submissions, queueOf, refs, cancelled, nextSerial, visible, failed>>
      /\ UNCHANGED callVars
  BY Zenon DEF DestroyFence
<1>2. /\ pending' \in [Fences -> accepted' \cup {0}] /\ pending'[f] = 0
      /\ \A g \in Fences \ {f} : pending'[g] = pending[g]
      /\ signaled' = signaled \ {f} /\ signaled' \subseteq Fences
      /\ accepted' = accepted /\ done' = done
  BY UnsignalEffect, Zenon DEF IInv, DestroyFence
<1>3. /\ fenceOf' \in [Serials -> Fences \cup {None}]
      /\ \A s \in Serials : fenceOf'[s] = fenceOf[s] \/ (fenceOf[s] = f /\ fenceOf'[s] = None)
      /\ \A s \in Serials \cap submissions : fenceOf'[s] # f
  BY ForgetEffect, Zenon DEF IInv, DestroyFence
<1>4. \A v \in Threads : op[v] \in {"submit", "wait", "reset"} => fence[v] # f
  BY Zenon DEF IInv, DestroyFence, UsesFence, CallInv
<1>5. Known' = Known /\ Serials' = Serials
  BY <1>1, Zenon DEF Known, Serials
<1>6. Types'
  BY <1>1, <1>2, <1>3, <1>5, Zenon DEF IInv, Types, SubTypes, CallTypes, DataTypes, callVars
<1>7. RefInv'
  <2>1. \A x : (Held(x)' <=> Held(x)) /\ (Submitting(x)' <=> Submitting(x))
    BY <1>1, Zenon DEF Held, Submitting, callVars
  <2> QED
    BY <2>1, <1>1, <1>5, Zenon DEF IInv, RefInv
<1>8. DriverInv' /\ OrderInv'
  <2>1. ASSUME NEW g \in Fences, pending'[g] # 0 PROVE fenceOf'[pending'[g]] = g
    <3>1. g # f /\ pending'[g] = pending[g] /\ fenceOf[pending[g]] = g
      BY <2>1, <1>2, Zenon DEF IInv, DriverInv
    <3>2. pending[g] \in Serials
      BY <2>1, <3>1, Numbers, Zenon DEF IInv, Types, DataTypes
    <3> QED
      BY <3>1, <3>2, <1>3, Zenon
  <2> QED
    BY <2>1, <1>1, <1>2, Zenon DEF IInv, DriverInv, OrderInv, callVars
<1>9. ExecInv'
  <2> SUFFICES ASSUME SubmitsWork'
               PROVE  ExecInv'
    BY Zenon DEF ExecInv
  <2>1. SubmitsWork /\ \A m : InDriver(m)' <=> InDriver(m)
    BY <1>1, <1>2, Zenon DEF SubmitsWork, InDriver, callVars
  <2>2. /\ visible' \subseteq done' /\ \A v \in Threads : work'[v] \subseteq done'
        /\ \A g \in signaled' : pending'[g] # 0 => pending'[g] \in done'
    BY <2>1, <1>1, <1>2, Zenon DEF IInv, ExecInv, callVars
  <2>3. ASSUME NEW m \in submissions, fenceOf'[m] # None
        PROVE  m \in done \/ pending'[fenceOf'[m]] = m \/ InDriver(m)
    <3>1. m \in Serials
      BY Numbers, Zenon
    <3>2. fenceOf'[m] = fenceOf[m] /\ fenceOf[m] # f
      BY <3>1, <2>3, <1>3, Zenon
    <3>3. fenceOf[m] \in Fences
      BY <3>1, <3>2, <2>3, Zenon DEF IInv, Types, SubTypes
    <3> QED
      BY <3>2, <3>3, <2>1, <2>3, <1>2, Zenon DEF IInv, ExecInv
  <2>4. \A v \in Threads : op[v] = "queue_idle" /\ pc[v] \in {"lock", "detach"} =>
          \A x \in accepted : Matches(queue[v], queueOf[x]) => x \in done
    BY <2>1, Zenon DEF IInv, ExecInv
  <2> QED
    BY <2>1, <2>2, <2>3, <2>4, <1>1, <1>2, Zenon DEF ExecInv, callVars
<1>10. ASSUME NEW v \in Threads PROVE CallInv(v)' /\ SubmitInv(v)' /\ ReportInv(v)'
  <2>1. CallInv(v) /\ SubmitInv(v) /\ ReportInv(v)
    BY Zenon DEF IInv
  <2>2. /\ op[v] \in {"submit", "wait", "reset"} /\ fence[v] # None => pending'[fence[v]] = pending[fence[v]]
        /\ op[v] \in {"submit", "wait", "reset"} => (fence[v] \in signaled' <=> fence[v] \in signaled)
        /\ op[v] \in {"wait", "reset"} => fence[v] # None
    <3>1. fence[v] # None => fence[v] \in Fences
      BY Zenon DEF IInv, Types, CallTypes
    <3> QED
      BY <2>1, <3>1, <1>2, <1>4, NoneAssumption, Zenon DEF CallInv
  <2>3. CallInv(v)'
    BY <2>1, <2>2, <1>1, Zenon DEF CallInv, callVars
  <2>4. SubmitInv(v)'
    <3> SUFFICES ASSUME op[v] = "submit"
                 PROVE  SubmitInv(v)'
      BY <1>1, Zenon DEF SubmitInv, callVars
    <3>1. pc[v] = "driver" => fenceOf'[serial[v]] = fence[v]
      <4>1. serial[v] \in Serials
        BY SerialsDiffer, Zenon
      <4> QED
        BY <4>1, <2>1, <1>3, <1>4, Zenon DEF SubmitInv
    <3> QED
      BY <3>1, <2>1, <2>2, <1>1, <1>2, <1>5, Zenon DEF SubmitInv, callVars
  <2>5. ReportInv(v)'
    <3>1. \A s : Last(v, s)' <=> Last(v, s)
      BY <1>1, Zenon DEF Last, callVars
    <3> QED
      BY <3>1, <2>1, <2>2, <1>1, Zenon DEF ReportInv, callVars
  <2> QED
    BY <2>3, <2>4, <2>5
<1>11. \A v, u \in Threads : v # u => Apart(v, u)'
  BY <1>1, Zenon DEF IInv, Apart, callVars
<1> QED
  BY <1>6, <1>7, <1>8, <1>9, <1>10, <1>11, Zenon DEF IInv

\* The driver executes a submission after the earlier ones of its queue.
LEMMA ExecuteStep ==
  ASSUME IInv, NEW s \in accepted, Execute(s)
  PROVE  IInv'
<1>1. /\ UNCHANGED subVars /\ UNCHANGED callVars /\ UNCHANGED <<accepted, pending, visible, failed>>
      /\ done' = done \cup {s} /\ Upto(queueOf[s], s - 1) \subseteq done
      /\ signaled' = signaled \cup {f \in Fences : pending[f] = s}
  BY Zenon DEF Execute
<1>2. Known' = Known /\ Serials' = Serials /\ s # 0
  BY <1>1, Numbers, Zenon DEF Known, Serials, subVars
<1>3. Types'
  BY <1>1, <1>2, Zenon DEF IInv, Types, SubTypes, CallTypes, DataTypes, subVars, callVars
<1>4. RefInv'
  <2>1. \A x : (Held(x)' <=> Held(x)) /\ (Submitting(x)' <=> Submitting(x))
    BY <1>1, Zenon DEF Held, Submitting, subVars, callVars
  <2> QED
    BY <2>1, <1>1, <1>2, Zenon DEF IInv, RefInv, subVars
<1>5. DriverInv' /\ OrderInv'
  <2>1. ASSUME NEW x \in accepted, queueOf[x] = queueOf[s], x < s PROVE x \in done
    <3>1. x <= s - 1
      BY <2>1, Numbers
    <3> QED
      BY <3>1, <2>1, <1>1, Zenon DEF Upto
  <2> QED
    BY <2>1, <1>1, Zenon DEF IInv, DriverInv, OrderInv, subVars, callVars
<1>6. ExecInv'
  <2> SUFFICES ASSUME SubmitsWork'
               PROVE  ExecInv'
    BY Zenon DEF ExecInv
  <2>1. SubmitsWork /\ \A m : InDriver(m)' <=> InDriver(m)
    BY <1>1, Zenon DEF SubmitsWork, InDriver, subVars, callVars
  <2>2. \A g \in signaled' : pending[g] # 0 => pending[g] \in done'
    BY <2>1, <1>1, Zenon DEF IInv, ExecInv
  <2> QED
    BY <2>1, <2>2, <1>1, Zenon DEF IInv, ExecInv, subVars, callVars
<1>7. ASSUME NEW v \in Threads PROVE CallInv(v)' /\ SubmitInv(v)' /\ ReportInv(v)'
  <2>1. CallInv(v) /\ SubmitInv(v) /\ ReportInv(v)
    BY Zenon DEF IInv
  <2>2. CallInv(v)'
    BY <2>1, <1>1, Zenon DEF CallInv, callVars
  <2>3. SubmitInv(v)'
    <3>1. pending[fence[v]] = 0 /\ fence[v] \notin signaled => fence[v] \notin signaled'
      BY <1>1, <1>2, Zenon
    <3> QED
      BY <3>1, <2>1, <1>1, <1>2, Zenon DEF SubmitInv, subVars, callVars
  <2>4. ReportInv(v)'
    <3>1. \A x : Last(v, x)' <=> Last(v, x)
      BY <1>1, Zenon DEF Last, callVars
    <3> QED
      BY <3>1, <2>1, <1>1, Zenon DEF ReportInv, subVars, callVars
  <2> QED
    BY <2>2, <2>3, <2>4
<1>8. \A v, u \in Threads : v # u => Apart(v, u)'
  BY <1>1, Zenon DEF IInv, Apart, callVars
<1> QED
  BY <1>3, <1>4, <1>5, <1>6, <1>7, <1>8, Zenon DEF IInv

\* A stuttering step keeps the invariant.
LEMMA StutterStep ==
  ASSUME IInv, UNCHANGED vars
  PROVE  IInv'
<1>1. UNCHANGED dataVars /\ refs' = refs /\ completing' = completing /\ \A v \in Threads : Kept(v)
  BY Zenon DEF vars, subVars, callVars, driverVars, dataVars, Kept
<1>2. Types'
  BY Zenon DEF IInv, vars, subVars, callVars, driverVars, Types, SubTypes, CallTypes, DataTypes, Known, Serials
<1>3. DriverInv' /\ OrderInv'
  BY <1>1, FrameData, Zenon DEF IInv
<1>4. ExecInv'
  BY <1>1, FrameExec, Zenon DEF IInv, Kept
<1>5. RefInv'
  BY <1>1, FrameRefs, Zenon DEF IInv, Kept, dataVars
<1>6. ASSUME NEW v \in Threads PROVE CallInv(v)' /\ SubmitInv(v)' /\ ReportInv(v)'
  BY <1>1, FrameThread, Zenon DEF IInv
<1>7. \A v, u \in Threads : v # u => Apart(v, u)'
  BY <1>1, FrameApart, Zenon DEF IInv
<1> QED
  BY <1>2, <1>3, <1>4, <1>5, <1>6, <1>7, Zenon DEF IInv

-----------------------------------------------------------------------------
(* The theorems *)

\* Nothing is submitted, tracked or signaled at the start.
LEMMA InitInv == Init => IInv
<1> SUFFICES ASSUME Init
             PROVE  IInv
  OBVIOUS
<1>1. Known = {}
  BY DEF Init, Known
<1>2. Types
  <2>1. SubTypes
    BY <1>1, SerialAssumption DEF Init, SubTypes
  <2>2. CallTypes
    BY SerialAssumption DEF Init, CallTypes
  <2>3. DataTypes
    BY <1>1, Zenon DEF Init, DataTypes
  <2> QED
    BY <2>1, <2>2, <2>3, Zenon DEF Types
<1>3. RefInv
  <2>1. \A s : ~Held(s) /\ ~Submitting(s)
    BY Zenon DEF Init, Held, Submitting
  <2> QED
    BY <2>1 DEF Init, RefInv
<1>4. DriverInv /\ OrderInv
  BY Zenon DEF Init, DriverInv, OrderInv
<1>5. ExecInv
  BY Zenon DEF Init, ExecInv
<1>6. \A t \in Threads : CallInv(t) /\ SubmitInv(t) /\ ReportInv(t)
  BY NoneAssumption, Zenon DEF Init, CallInv, SubmitInv, ReportInv, SubmitPlaces
<1>7. \A t, u \in Threads : Apart(t, u)
  BY Zenon DEF Init, Apart
<1> QED
  BY <1>2, <1>3, <1>4, <1>5, <1>6, <1>7, Zenon DEF IInv

\* Every step keeps the invariant.
LEMMA NextInv == IInv /\ [Next]_vars => IInv'
<1> SUFFICES ASSUME IInv, [Next]_vars
             PROVE  IInv'
  OBVIOUS
<1>1. ASSUME NEW t \in Threads, NEW q \in Queues, NEW f \in Fences \cup {None}, Submit(t, q, f)
      PROVE  IInv'
  BY <1>1, SubmitStep, Zenon
<1>2. ASSUME NEW t \in Threads, DeviceIdle(t) \/ \E q \in Queues : QueueIdle(t, q) PROVE IInv'
  BY <1>2, QueueIdleStep, DeviceIdleStep, Zenon
<1>3. ASSUME NEW t \in Threads, NEW f \in Fences, WaitFence(t, f) \/ ResetFence(t, f) PROVE IInv'
  BY <1>3, WaitFenceStep, ResetFenceStep, Zenon
<1>4. ASSUME NEW t \in Threads,
             SubmitDriver(t) \/ SubmitFailed(t) \/ SubmitDetached(t) \/ SubmitRelease(t)
      PROVE  IInv'
  BY <1>4, SubmitDriverStep, SubmitFailedStep, SubmitDetachedStep, SubmitReleaseStep, Zenon
<1>5. ASSUME NEW t \in Threads,
             \/ Lock(t) \/ NotReady(t) \/ StatusFails(t)
             \/ DetachCompleted(t) \/ Invalidate(t) \/ InvalidateFails(t)
      PROVE  IInv'
  BY <1>5, LockStep, NotReadyStep, StatusFailsStep, DetachCompletedStep, InvalidateStep,
     InvalidateFailsStep, Zenon
<1>6. ASSUME NEW t \in Threads, Unlock(t) \/ ResetDriver(t) \/ ResetForget(t) \/ Return(t)
      PROVE  IInv'
  BY <1>6, UnlockStep, ResetDriverStep, ResetForgetStep, ReturnStep, Zenon
<1>7. ASSUME NEW f \in Fences, DestroyFence(f) PROVE IInv'
  BY <1>7, DestroyFenceStep, Zenon
<1>8. ASSUME NEW s \in accepted, Execute(s) PROVE IInv'
  BY <1>8, ExecuteStep, Zenon
<1>9. CASE SubmitRefused \/ UNCHANGED vars
  BY <1>9, StutterStep, Zenon DEF SubmitRefused
<1> QED
  BY <1>1, <1>2, <1>3, <1>4, <1>5, <1>6, <1>7, <1>8, <1>9, Zenon DEF Next

-----------------------------------------------------------------------------
(* The theorems *)

\* What Cardinality counts in the two sets that RefsExact meets, from its
\* definition: nothing in the empty set,
LEMMA CountsNone == Cardinality({}) = 0
<1> DEFINE Body(g) == [T \in SUBSET {} |-> IF T = {} THEN 0 ELSE 1 + g[T \ {CHOOSE x : x \in T}]]
<1>1. PICK f : f = [T \in SUBSET {} |-> 0]
  BY Zenon
<1>2. f = Body(f)
  BY <1>1, SMT
<1> DEFINE c == CHOOSE g : g = Body(g)
<1>3. c = Body(c)
  BY <1>2, Zenon
<1>4. c[{}] = 0
  <2> HIDE DEF c
  <2> QED
    BY <1>3, SMT
<1>5. Cardinality({}) = c[{}]
  BY Zenon DEF Cardinality
<1> QED
  BY <1>4, <1>5

\* and one element in a singleton.
LEMMA CountsOne == ASSUME NEW e PROVE Cardinality({e}) = 1
<1> DEFINE Body(g) == [T \in SUBSET {e} |-> IF T = {} THEN 0 ELSE 1 + g[T \ {CHOOSE x : x \in T}]]
<1>1. \A T \in SUBSET {e} : T # {} => T \ {CHOOSE x : x \in T} = {}
  <2> SUFFICES ASSUME NEW T \in SUBSET {e}, T # {} PROVE T \ {CHOOSE x : x \in T} = {}
    OBVIOUS
  <2>1. (CHOOSE x : x \in T) \in T
    BY Zenon
  <2> QED
    BY <2>1, Zenon
<1>2. PICK f : f = [T \in SUBSET {e} |-> IF T = {} THEN 0 ELSE 1]
  BY Zenon
<1>3. f[{}] = 0
  BY <1>2, SMT
<1>4. f = Body(f)
  BY <1>1, <1>2, <1>3, SMT
<1> DEFINE c == CHOOSE g : g = Body(g)
<1>5. c = Body(c)
  BY <1>4, Zenon
<1>6. c[{e}] = 1
  <2> HIDE DEF c
  <2>1. c[{}] = 0
    BY <1>5, SMT
  <2>2. c[{e}] = 1 + c[{e} \ {CHOOSE x : x \in {e}}]
    BY <1>5, SMT
  <2>3. {e} \ {CHOOSE x : x \in {e}} = {}
    BY <1>1, Zenon
  <2> QED
    BY <2>1, <2>2, <2>3, SMT
<1>7. Cardinality({e}) = c[{e}]
  BY Zenon DEF Cardinality
<1> QED
  BY <1>6, <1>7

\* The references counted without sets are those of RefsExact: at most one
\* thread submits a submission.
LEMMA CountsExact ==
  ASSUME IInv
  PROVE  RefsExact
<1>1. RefInv /\ Types
  BY Zenon DEF IInv
<1>2. TypeOK
  <2>1. refs \in [Serials -> 0..2]
    <3>1. refs \in [Serials -> Int]
      BY <1>1, Zenon DEF Types, SubTypes
    <3>2. \A s \in Serials : refs[s] \in {0, 1, 2}
      BY <1>1 DEF RefInv
    <3> QED
      BY <3>1, <3>2
  <2>2. submissions \subseteq Serials
    BY Numbers, Zenon
  <2> QED
    BY <2>1, <2>2, <1>1, Zenon DEF TypeOK, Types, SubTypes, CallTypes, DataTypes
<1>3. ASSUME NEW s \in Serials
      PROVE  Cardinality({t \in Threads : Calling(t, "submit") /\ serial[t] = s})
               = IF Submitting(s) THEN 1 ELSE 0
  <2>1. \A t \in Threads : op[t] = "submit" => pc[t] # "idle"
    BY Zenon DEF IInv, CallInv, SubmitPlaces
  <2>2. CASE Submitting(s)
    <3>1. PICK t \in Threads : op[t] = "submit" /\ serial[t] = s
      BY <2>2, Zenon DEF Submitting
    <3>2. {v \in Threads : Calling(v, "submit") /\ serial[v] = s} = {t}
      BY <2>1, <3>1, SerialsDiffer, Zenon DEF Calling
    <3> QED
      BY <2>2, <3>2, CountsOne, Zenon
  <2>3. CASE ~Submitting(s)
    <3>1. {v \in Threads : Calling(v, "submit") /\ serial[v] = s} = {}
      BY <2>3, Zenon DEF Submitting, Calling
    <3> QED
      BY <2>3, <3>1, CountsNone, Zenon
  <2> QED
    BY <2>2, <2>3
<1>4. ASSUME NEW s \in Serials
      PROVE  refs[s] = (IF s \in submissions \/ \E t \in Threads : s \in work[t]
                           \/ (pc[t] = "detached" /\ serial[t] = s) THEN 1 ELSE 0)
                     + Cardinality({t \in Threads : Calling(t, "submit") /\ serial[t] = s})
  BY <1>1, <1>3, Zenon DEF RefInv, Held
<1> QED
  BY <1>2, <1>4, Zenon DEF RefsExact

\* A submission has exactly the references of the list or completing thread and
\* of its submitter, so release() frees it once and nobody uses it afterwards.
THEOREM RefsAlwaysExact == Spec => []RefsExact
<1>1. IInv => RefsExact
  BY CountsExact
<1> QED
  BY <1>1, InitInv, NextInv, PTL DEF Spec

\* A call that reports the completion of a fence returns with the writes of its
\* submission visible, whichever thread invalidated them.
THEOREM OwnWritesAlwaysVisible == Spec => []OwnWritesVisible
<1>1. IInv => OwnWritesVisible
  <2> SUFFICES ASSUME IInv, NEW t \in Threads, Succeeds(t), op[t] \in {"wait", "reset"},
                      NEW s \in must[t], \A x \in must[t] : x <= s
               PROVE  s \in visible
    BY Zenon DEF OwnWritesVisible
  <2>1. ReportInv(t)
    BY Zenon DEF IInv
  <2> QED
    BY <2>1, Zenon DEF ReportInv, Succeeds, Last
<1> QED
  BY <1>1, InitInv, NextInv, PTL DEF Spec

\* As long as no invalidation failed, so are the writes of every submission the
\* call reports: all earlier ones of the queue.
THEOREM EarlierWritesAlwaysVisible == Spec => []EarlierWritesVisible
<1>1. IInv => EarlierWritesVisible
  BY Zenon DEF IInv, ReportInv, EarlierWritesVisible, Succeeds
<1> QED
  BY <1>1, InitInv, NextInv, PTL DEF Spec

\* As long as every submission works, none is invalidated before the GPU has
\* executed it: a fence speaks only for the queue it was submitted to.
THEOREM AlwaysInvalidatedAfterExecution == Spec => []InvalidatedAfterExecution
<1>1. IInv => InvalidatedAfterExecution
  BY Zenon DEF IInv, ExecInv, InvalidatedAfterExecution
<1> QED
  BY <1>1, InitInv, NextInv, PTL DEF Spec
=============================================================================
