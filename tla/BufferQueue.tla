----------------------------- MODULE BufferQueue -----------------------------
(***************************************************************************)
(* What a native window of the Vulkan ICD promises to swapchain.c,         *)
(* whatever its window system: a buffer is with the application, in the    *)
(* submission queue, on display, or idle, never in two places; only an     *)
(* idle buffer is handed to the application; submissions reach the display *)
(* in the order in which they were queued.                                 *)
(***************************************************************************)
EXTENDS Sequences, FiniteSets

CONSTANT Buffers

VARIABLES
  app,      \* buffers the application may draw into
  fifo,     \* submissions accepted from the application, oldest first
  display   \* buffers the window system reads from

vars == <<app, fifo, display>>

Queued(b) == \E i \in DOMAIN fifo : fifo[i] = b

Init == app = {} /\ fifo = <<>> /\ display = {}

Dequeue(b) ==
  /\ b \notin app /\ ~Queued(b) /\ b \notin display
  /\ app' = app \cup {b}
  /\ UNCHANGED <<fifo, display>>

Queue(b) ==
  /\ b \in app
  /\ app' = app \ {b} /\ fifo' = Append(fifo, b)
  /\ UNCHANGED display

\* cancelled, or dropped together with the swapchain that held it
GiveBack(b) ==
  /\ b \in app
  /\ app' = app \ {b}
  /\ UNCHANGED <<fifo, display>>

Present ==
  /\ fifo # <<>>
  /\ fifo' = Tail(fifo) /\ display' = display \cup {Head(fifo)}
  /\ UNCHANGED app

\* a submission that fails is reported by an error, not shown later
Discard ==
  /\ fifo # <<>>
  /\ fifo' = Tail(fifo)
  /\ UNCHANGED <<app, display>>

\* a submission that fails within the call stays with the application
Reject ==
  /\ fifo # <<>>
  /\ fifo' = Tail(fifo) /\ app' = app \cup {Head(fifo)}
  /\ UNCHANGED display

Release(b) ==
  /\ b \in display
  /\ display' = display \ {b}
  /\ UNCHANGED <<app, fifo>>

Next ==
  \/ \E b \in Buffers : Dequeue(b) \/ Queue(b) \/ GiveBack(b) \/ Release(b)
  \/ Present \/ Discard \/ Reject

Spec == Init /\ [][Next]_vars
=============================================================================
