------------------------ MODULE WaylandWindowProofs ------------------------
(* The Wayland window keeps its promises for every set of buffers and every pool
   size: the inductive invariant, that every step keeps it, what it says, and that
   the window is a buffer queue. *)
EXTENDS WaylandWindow, FiniteSetTheorems, WellFoundedInduction, TLAPS

Rel(b) == Event("release", b)
Made(b) == Event("created", b)
Frame == Event("frame", NoBuffer)
Events == {Frame} \cup {Event(k, b) : k \in {"release", "created"}, b \in Buffers}
OnTheWay(b) == Rel(b) \in Range(queue) \/ Rel(b) \in Range(sock)
AtMostOnce(s, e) == \A i, j \in DOMAIN s : s[i] = e /\ s[j] = e => i = j

\* e is in s, and f does not come before it.
Leads(s, e, f) == \E k \in DOMAIN s : s[k] = e /\ \A i \in 1..(k - 1) : s[i] # f

\* Types, and what a call in progress relies on.
Shape ==
  /\ TypeOK /\ IsInjective(bufList) /\ IsFiniteSet(fronted)
  /\ imported \subseteq Buffers /\ broken \in BOOLEAN
  /\ queue \in Seq(Events) /\ sock \in Seq(Events)
  /\ call = "present" => \E b \in owned : arg = <<b>>

\* The count; a new pool starts with no buffer busy.
PoolInv ==
  /\ FreeCountExact
  /\ bufList = <<>> /\ ~Teardown => busy = {}

\* Where a buffer can be: what the compositor has is in fronted, and busy if it
\* is of the list.
PlaceInv ==
  /\ proxy \subseteq Listed \cup fronted /\ shown \subseteq fronted
  /\ owned \cap fronted = {} /\ Listed \cap (fronted \cup owned) \subseteq busy

\* A release under way is the only one of its buffer, which is fronted and no
\* longer shown.  A busy buffer of the list is with swapchain.c or shown, or its
\* release is under way, unless the connection is lost or the pool given up.
Unsure == broken \/ ~connected
WireInv ==
  /\ \A b \in Buffers : OnTheWay(b) => b \in fronted \ shown
  /\ \A b \in Buffers :
       /\ AtMostOnce(queue, Rel(b)) /\ AtMostOnce(sock, Rel(b))
       /\ ~(Rel(b) \in Range(queue) /\ Rel(b) \in Range(sock))
  /\ Unsure \/ \A b \in Listed \cap busy : b \in owned \cup shown \/ OnTheWay(b)

FrameInv == frameCb /\ ~broken => frameDue \/ Frame \in Range(queue) \/ Frame \in Range(sock)

Exact(b) ==
  refs[b] = (IF b \in Listed \cup fronted THEN 1 ELSE 0) + (IF b \in imported THEN 1 ELSE 0)
Whole == PlaceInv /\ WireInv /\ \A b \in Buffers : Exact(b)
Torn == imported = {} /\ bufList = <<>> /\ arg \in Seq(Buffers)

\* A buffer whose creation callback is outstanding is fronted, and the event that
\* ends its creation is under way, with no release of the buffer before it.
Settling(b) ==
  \/ Leads(queue, Made(b), Rel(b))
  \/ Rel(b) \notin Range(queue) /\ Leads(sock, Made(b), Rel(b))
CreateInv == ~Teardown => creating \subseteq fronted /\ \A b \in creating : Settling(b)

IInv ==
  Shape /\ PoolInv /\ FrameInv /\ (Teardown => Torn) /\ (~Teardown => Whole)

-----------------------------------------------------------------------------
(* Induction, and the events that are left *)

Less == {ss \in Nat \X Nat : ss[1] < ss[2]}

\* A set of numbers that is not empty has a least one: this is what the
\* inductions below rest on.
LEMMA Least ==
  ASSUME NEW S \in SUBSET Nat, S # {}
  PROVE  \E n \in S : \A m \in S : n <= m
<1>1. IsWellFoundedOn(Less, Nat)
  BY NatLessThanWellFounded, Zenon DEF OpToRel, Less
<1>2. PICK n \in S : \A m \in S : ~(<<m, n>> \in Less)
  BY <1>1, WFMin, Zenon
<1>3. \A m \in S : ~(m < n)
  BY <1>2, Zenon DEF Less
<1> QED BY <1>3

\* Induction over 0..n, for a set of the numbers that have the property.
LEMMA UpTo ==
  ASSUME NEW n \in Nat, NEW S, 0 \in S, \A i \in 0..n : i # 0 /\ i - 1 \in S => i \in S
  PROVE  \A i \in 0..n : i \in S
<1> DEFINE bad == {i \in 0..n : i \notin S}
<1> SUFFICES ASSUME bad # {} PROVE FALSE
  OBVIOUS
<1>1. PICK i \in bad : \A m \in bad : i <= m
  <2>1. bad \in SUBSET Nat
    OBVIOUS
  <2> HIDE DEF bad
  <2> QED BY <2>1, Least, Zenon
<1>2. i # 0 /\ i - 1 \in 0..n /\ i - 1 \notin bad
  BY <1>1, SMT
<1> QED BY <1>2

\* one step of Remaining()
Kept(g, s, D, i) ==
  IF i = 0 THEN <<>> ELSE IF s[i] \in D THEN g[i - 1] ELSE Append(g[i - 1], s[i])

\* The recursive function of Remaining() exists.
LEMMA KeptExists ==
  ASSUME NEW s, NEW D, NEW n \in Nat
  PROVE  \E g : g = [i \in 0..n |-> Kept(g, s, D, i)]
<1> DEFINE S == {m \in Nat : \E g : g = [i \in 0..m |-> Kept(g, s, D, i)]}
<1>1. 0 \in S
  <2> DEFINE g == [i \in 0..0 |-> <<>>]
  <2>1. g = [i \in 0..0 |-> Kept(g, s, D, i)]
    BY SMT DEF Kept
  <2> QED BY <2>1, Zenon
<1>2. ASSUME NEW m \in 0..n, m # 0, m - 1 \in S
      PROVE  m \in S
  <2>1. PICK g : g = [i \in 0..(m - 1) |-> Kept(g, s, D, i)]
    BY <1>2, Zenon
  <2> DEFINE h == [i \in 0..m |-> IF i = m THEN Kept(g, s, D, m) ELSE g[i]]
  <2>2. m \in Nat /\ m # 0 /\ \A i \in 0..m : i # m => i \in 0..(m - 1)
    BY <1>2, SMT
  <2>3. \A i \in 0..m : i # 0 => h[i - 1] = g[i - 1]
    BY <2>2, SMT
  <2>4. \A i \in 0..m : h[i] = Kept(h, s, D, i)
    <3> TAKE i \in 0..m
    <3>1. Kept(h, s, D, i) = Kept(g, s, D, i)
      <4> HIDE DEF h
      <4>1. i # 0 => h[i - 1] = g[i - 1]
        BY <2>3, Zenon
      <4> QED BY <4>1, SMT DEF Kept
    <3>2. h[i] = Kept(g, s, D, i)
      <4>1. CASE i = m
        BY <4>1, SMT
      <4>2. CASE i # m
        <5>1. h[i] = g[i] /\ i \in 0..(m - 1)
          BY <4>2, <2>2, SMT
        <5> QED BY <5>1, <2>1, Zenon
      <4> QED BY <4>1, <4>2
    <3> HIDE DEF h
    <3> QED BY <3>1, <3>2
  <2>5. h = [i \in 0..m |-> Kept(h, s, D, i)]
    <3>1. h = [i \in 0..m |-> h[i]]
      BY Zenon
    <3> HIDE DEF h
    <3> QED BY <3>1, <2>4, Zenon
  <2> QED BY <2>2, <2>5, Zenon
<1>3. \A m \in 0..n : m \in S
  <2> HIDE DEF S
  <2> QED BY <1>1, <1>2, UpTo, Zenon
<1>4. n \in 0..n
  BY SMT
<1> QED BY <1>3, <1>4, Zenon

\* Dropped events are gone, the others are there as often as before.
LEMMA RemainingEffect ==
  ASSUME NEW T, NEW s \in Seq(T), NEW D
  PROVE  /\ Remaining(s, D) \in Seq(T)
         /\ Range(Remaining(s, D)) = Range(s) \ D
         /\ \A e : AtMostOnce(s, e) => AtMostOnce(Remaining(s, D), e)
         /\ \A e, f : e \notin D /\ Leads(s, e, f) => Leads(Remaining(s, D), e, f)
<1> DEFINE n == Len(s)
           g == CHOOSE f : f = [i \in 0..n |-> Kept(f, s, D, i)]
<1>0. n \in Nat /\ n \in 0..n /\ DOMAIN s = 1..n
  BY SMT
<1>1. g = [i \in 0..n |-> Kept(g, s, D, i)]
  <2>1. \E f : f = [i \in 0..n |-> Kept(f, s, D, i)]
    <3> HIDE DEF n
    <3> QED BY <1>0, KeptExists, SMTT(30)
  <2> HIDE DEF n
  <2> QED BY <2>1, Zenon
<1>2. Remaining(s, D) = g[n]
  BY Zenon DEF Remaining, Kept
<1> HIDE DEF g
<1>3. g[0] = <<>> /\ \A i \in 0..n : i # 0 => g[i] = Kept(g, s, D, i)
  <2>1. \A i \in 0..n : g[i] = Kept(g, s, D, i)
    BY <1>1, Zenon
  <2>2. 0 \in 0..n
    BY <1>0, SMT
  <2> QED BY <2>1, <2>2, Zenon DEF Kept
<1> DEFINE Good(i) ==
       /\ g[i] \in Seq(T)
       /\ \A e : (\E k \in DOMAIN g[i] : g[i][k] = e) <=> e \notin D /\ \E k \in 1..i : s[k] = e
       /\ \A e : AtMostOnce(s, e) => AtMostOnce(g[i], e)
       /\ \A e, f, k : /\ e \notin D /\ k \in 1..i /\ s[k] = e
                       /\ \A m \in 1..(k - 1) : s[m] # f
                       => Leads(g[i], e, f)
     S == {i \in 0..n : Good(i)}
<1>4. 0 \in S
  <2>1. 0 \in 0..n /\ 1..0 = {} /\ g[0] \in Seq(T) /\ DOMAIN g[0] = {}
    BY <1>0, <1>3, SMT
  <2> QED BY <2>1, Zenon DEF AtMostOnce
<1>5. ASSUME NEW i \in 0..n, i # 0, i - 1 \in S
      PROVE  i \in S
  <2>1. g[i] = IF s[i] \in D THEN g[i - 1] ELSE Append(g[i - 1], s[i])
    BY <1>3, <1>5, Zenon DEF Kept
  <2>2. i \in 1..n /\ i \in Nat /\ i - 1 \in Nat /\ s[i] \in T
    BY <1>0, <1>5, SMT
  <2>3. Good(i - 1)
    BY <1>5, Zenon
  <2>4. \A e : (\E k \in 1..i : s[k] = e) <=> s[i] = e \/ \E k \in 1..(i - 1) : s[k] = e
    BY <2>2, SMT
  <2> DEFINE a == g[i - 1]
  <2>5. CASE s[i] \in D
    <3>1. g[i] = a
      BY <2>1, <2>5, Zenon
    <3>2. \A e : e \notin D => ((\E k \in 1..i : s[k] = e) <=> \E k \in 1..(i - 1) : s[k] = e)
      BY <2>4, <2>5, Zenon
    <3>3. ASSUME NEW e, NEW f, NEW k, e \notin D, k \in 1..i, s[k] = e,
                 \A m \in 1..(k - 1) : s[m] # f
          PROVE  Leads(g[i], e, f)
      <4>1. k # i
        BY <2>5, <3>3, Zenon
      <4>2. k \in 1..(i - 1)
        BY <2>2, <3>3, <4>1, SMT
      <4> QED BY <2>3, <3>1, <3>3, <4>2, Zenon
    <3> QED BY <3>1, <3>2, <3>3, <2>3, ZenonT(30)
  <2>6. CASE s[i] \notin D
    <3>1. g[i] = Append(a, s[i]) /\ a \in Seq(T)
      BY <2>1, <2>3, <2>6, Zenon
    <3> HIDE DEF a
    <3>2. /\ g[i] \in Seq(T) /\ DOMAIN a = 1..Len(a) /\ Len(a) \in Nat
          /\ DOMAIN g[i] = 1..(Len(a) + 1) /\ g[i][Len(a) + 1] = s[i]
          /\ \A k \in DOMAIN a : g[i][k] = a[k]
      BY <2>2, <3>1, SMT
    <3>3. \A e : (\E k \in DOMAIN g[i] : g[i][k] = e) <=> s[i] = e \/ \E k \in DOMAIN a : a[k] = e
      BY <3>2, SMTT(30)
    <3>4. \A e : (\E k \in DOMAIN g[i] : g[i][k] = e) <=> e \notin D /\ \E k \in 1..i : s[k] = e
      BY <2>3, <2>4, <2>6, <3>3, Zenon DEF a
    <3>5. ASSUME NEW e, AtMostOnce(s, e)
          PROVE  AtMostOnce(g[i], e)
      <4>1. AtMostOnce(a, e)
        BY <2>3, <3>5, Zenon DEF a
      <4>2. s[i] = e => \A k \in DOMAIN a : a[k] # e
        <5> SUFFICES ASSUME s[i] = e, NEW k \in DOMAIN a, a[k] = e
                     PROVE  FALSE
          BY Zenon
        <5>1. PICK m \in 1..(i - 1) : s[m] = e
          BY <2>3, Zenon DEF a
        <5>2. m \in 1..n /\ m # i
          BY <1>0, <2>2, SMT
        <5> QED BY <1>0, <2>2, <3>5, <5>1, <5>2, Zenon DEF AtMostOnce
      <4> QED BY <3>2, <4>1, <4>2, SMTT(30) DEF AtMostOnce
    <3>6. ASSUME NEW e, NEW f, NEW k, e \notin D, k \in 1..i, s[k] = e,
                 \A m \in 1..(k - 1) : s[m] # f
          PROVE  Leads(g[i], e, f)
      <4>1. CASE k = i
        <5>1. \A m \in DOMAIN a : a[m] # f
          BY <2>3, <3>6, <4>1, Zenon DEF a
        <5>2. /\ Len(a) + 1 \in DOMAIN g[i] /\ (Len(a) + 1) - 1 = Len(a)
          BY <3>2, SMT
        <5>3. \A m \in 1..((Len(a) + 1) - 1) : g[i][m] # f
          BY <3>2, <5>1, <5>2, Zenon
        <5> QED BY <3>2, <3>6, <4>1, <5>2, <5>3, Zenon DEF Leads
      <4>2. CASE k # i
        <5>1. k \in 1..(i - 1)
          BY <2>2, <3>6, <4>2, SMT
        <5>2. Leads(a, e, f)
          BY <2>3, <3>6, <5>1, Zenon DEF a
        <5>3. PICK l \in DOMAIN a : a[l] = e /\ \A m \in 1..(l - 1) : a[m] # f
          BY <5>2, Zenon DEF Leads
        <5>4. l \in DOMAIN g[i] /\ \A m \in 1..(l - 1) : m \in DOMAIN a
          BY <3>2, <5>3, SMT
        <5> QED BY <3>2, <5>3, <5>4, Zenon DEF Leads
      <4> QED BY <4>1, <4>2
    <3> QED BY <3>2, <3>4, <3>5, <3>6, Zenon
  <2> QED BY <2>5, <2>6
<1>6. Good(n)
  <2>1. \A i \in 0..n : i \in S
    <3> HIDE DEF S
    <3> QED BY <1>0, <1>4, <1>5, UpTo, Zenon
  <2> QED BY <2>1, <1>0, Zenon
<1>7. Range(g[n]) = Range(s) \ D
  BY <1>6, <1>0, Zenon DEF Range
<1>8. \A e, f : e \notin D /\ Leads(s, e, f) => Leads(g[n], e, f)
  <2> SUFFICES ASSUME NEW e, NEW f, e \notin D, Leads(s, e, f) PROVE Leads(g[n], e, f)
    BY Zenon
  <2>1. PICK k \in 1..n : s[k] = e /\ \A i \in 1..(k - 1) : s[i] # f
    BY <1>0, Zenon DEF Leads
  <2> QED BY <1>6, <2>1, Zenon
<1>9. g[n] \in Seq(T) /\ \A e : AtMostOnce(s, e) => AtMostOnce(g[n], e)
  BY <1>6, Zenon
<1> HIDE DEF n
<1> QED BY <1>2, <1>7, <1>8, <1>9, Zenon

-----------------------------------------------------------------------------
(* Queues of events *)

\* Taking the first event of a queue.
LEMMA TailEffect ==
  ASSUME NEW T, NEW s \in Seq(T), s # <<>>
  PROVE  /\ Tail(s) \in Seq(T) /\ Head(s) \in T
         /\ Range(s) = {Head(s)} \cup Range(Tail(s))
         /\ \A e : AtMostOnce(s, e) => AtMostOnce(Tail(s), e)
         /\ AtMostOnce(s, Head(s)) => Head(s) \notin Range(Tail(s))
<1> DEFINE r == Tail(s)
           next(i) == i + 1
           prev(i) == i - 1
<1>1. r \in Seq(T) /\ Head(s) \in T
  BY SMT
<1>2. /\ Head(s) = s[1] /\ 1 \in DOMAIN s
      /\ \A i \in DOMAIN r : r[i] = s[next(i)] /\ next(i) \in DOMAIN s /\ next(i) # 1
      /\ \A i \in DOMAIN s : i # 1 => prev(i) \in DOMAIN r /\ s[i] = r[prev(i)]
      /\ \A i, j \in DOMAIN r : next(i) = next(j) => i = j
  BY SMT
<1> HIDE DEF r, next, prev
<1>3. Range(s) = {Head(s)} \cup Range(r)
  BY <1>2, SMT DEF Range
<1>4. \A e : AtMostOnce(s, e) => AtMostOnce(r, e)
  BY <1>2, SMTT(30) DEF AtMostOnce
<1>5. AtMostOnce(s, Head(s)) => Head(s) \notin Range(r)
  BY <1>2, SMT DEF AtMostOnce, Range
<1> QED BY <1>1, <1>3, <1>4, <1>5 DEF r

\* Adding an event to a queue.
LEMMA AppendEffect ==
  ASSUME NEW T, NEW s \in Seq(T), NEW x \in T
  PROVE  /\ Append(s, x) \in Seq(T) /\ Range(Append(s, x)) = Range(s) \cup {x}
         /\ \A e : AtMostOnce(s, e) /\ ~(e = x /\ e \in Range(s)) => AtMostOnce(Append(s, x), e)
<1> DEFINE r == Append(s, x)
<1>1. /\ r \in Seq(T) /\ Len(s) \in Nat /\ DOMAIN s = 1..Len(s) /\ DOMAIN r = 1..(Len(s) + 1)
      /\ r[Len(s) + 1] = x /\ \A i \in DOMAIN s : r[i] = s[i]
  BY SMT
<1>2. /\ Len(s) + 1 \in DOMAIN r /\ \A i \in DOMAIN r : i = Len(s) + 1 \/ i \in DOMAIN s
      /\ \A i \in DOMAIN s : i \in DOMAIN r
  BY <1>1, SMT
<1> HIDE DEF r
<1>3. Range(r) = Range(s) \cup {x}
  BY <1>1, <1>2, Zenon DEF Range
<1>4. ASSUME NEW e, AtMostOnce(s, e), ~(e = x /\ e \in Range(s))
      PROVE  AtMostOnce(r, e)
  <2>1. \A i \in DOMAIN s : ~(s[i] = e /\ x = e)
    BY <1>4, Zenon DEF Range
  <2> QED BY <1>1, <1>2, <1>4, <2>1, Zenon DEF AtMostOnce
<1> QED BY <1>1, <1>3, <1>4, Zenon DEF r

\* Reading the events of one queue into another.
LEMMA ConcatEffect ==
  ASSUME NEW T, NEW s \in Seq(T), NEW t \in Seq(T)
  PROVE  /\ s \o t \in Seq(T) /\ Range(s \o t) = Range(s) \cup Range(t)
         /\ \A e : AtMostOnce(s, e) /\ AtMostOnce(t, e) /\ ~(e \in Range(s) /\ e \in Range(t))
                     => AtMostOnce(s \o t, e)
<1> DEFINE r == s \o t
           on(i) == Len(s) + i
           back(i) == i - Len(s)
<1>1. r \in Seq(T)
  BY SMT
<1>2. /\ \A i \in DOMAIN s : r[i] = s[i] /\ i \in DOMAIN r
      /\ \A i \in DOMAIN t : r[on(i)] = t[i] /\ on(i) \in DOMAIN r
      /\ \A i \in DOMAIN r : i \in DOMAIN s \/ (back(i) \in DOMAIN t /\ r[i] = t[back(i)])
      /\ \A i, j \in DOMAIN r : back(i) = back(j) => i = j
  BY SMT
<1> HIDE DEF r, on, back
<1>3. Range(r) = Range(s) \cup Range(t)
  BY <1>2, SMT DEF Range
<1>4. ASSUME NEW e, AtMostOnce(s, e), AtMostOnce(t, e), ~(e \in Range(s) /\ e \in Range(t))
      PROVE  AtMostOnce(r, e)
  <2>1. \A i \in DOMAIN s, j \in DOMAIN t : ~(s[i] = e /\ t[j] = e)
    BY <1>4, Zenon DEF Range
  <2> QED BY <1>2, <1>4, <2>1, SMT DEF AtMostOnce
<1> QED BY <1>1, <1>3, <1>4, Zenon DEF r

\* The empty queue.
LEMMA EmptyEffect ==
  Range(<<>>) = {} /\ (\A e : AtMostOnce(<<>>, e)) /\ \A T : <<>> \in Seq(T)
<1>1. DOMAIN <<>> = {} /\ \A T : <<>> \in Seq(T)
  BY SMT
<1> QED BY <1>1, Zenon DEF Range, AtMostOnce

\* Events are told apart by kind and buffer.
LEMMA EventKinds ==
  /\ \A b \in Buffers : Rel(b) \in Events /\ Made(b) \in Events
  /\ Frame \in Events
  /\ \A b, c : Rel(b) = Rel(c) => b = c
  /\ \A b, c : Rel(b) # Made(c)
  /\ \A b : Rel(b) # Frame /\ Made(b) # Frame
  /\ \A b : Rel(b).buffer = b /\ Rel(b).kind = "release" /\ Made(b).buffer = b
  /\ Frame.buffer = NoBuffer /\ Frame.kind = "frame"
  /\ \A e \in Events : e.kind = "release" => e.buffer \in Buffers /\ e = Rel(e.buffer)
  /\ \A e \in Events : e.kind # "release" => \A b : e # Rel(b)
  /\ \A e \in Events : e.kind # "frame" => e # Frame
<1>1. /\ \A b : Rel(b).buffer = b /\ Rel(b).kind = "release" /\ Made(b).buffer = b
      /\ Frame.buffer = NoBuffer /\ Frame.kind = "frame"
      /\ \A b : Made(b).kind = "created"
  BY SMT DEF Rel, Made, Frame, Event
<1>2. \A e \in Events : e = Frame \/ \E b \in Buffers : e = Rel(b) \/ e = Made(b)
  BY SMT DEF Rel, Made, Frame, Events
<1>3. /\ \A b \in Buffers : Rel(b) \in Events /\ Made(b) \in Events
      /\ Frame \in Events
  BY SMT DEF Rel, Made, Frame, Events
<1>4. "release" # "created" /\ "release" # "frame" /\ "created" # "frame"
  OBVIOUS
<1>5. /\ \A b, c : Rel(b) = Rel(c) => b = c
      /\ \A b, c : Rel(b) # Made(c)
      /\ \A b : Rel(b) # Frame /\ Made(b) # Frame
  BY SMT DEF Rel, Made, Frame, Event
<1>6. ASSUME NEW e \in Events
      PROVE  /\ e.kind = "release" => e.buffer \in Buffers /\ e = Rel(e.buffer)
             /\ e.kind # "release" => \A b : e # Rel(b)
             /\ e.kind # "frame" => e # Frame
  BY <1>1, <1>2, <1>4, ZenonT(30)
<1> QED BY <1>1, <1>3, <1>5, <1>6, Zenon

\* destroyBuffer() on the wire: releases of the destroyed buffers are gone, and
\* nothing else is.
LEMMA WithoutEffect ==
  ASSUME NEW s \in Seq(Events), NEW gone \in SUBSET Buffers
  PROVE  /\ Without(s, gone) \in Seq(Events)
         /\ \A b : Rel(b) \in Range(Without(s, gone)) <=> Rel(b) \in Range(s) /\ b \notin gone
         /\ Frame \in Range(Without(s, gone)) <=> Frame \in Range(s)
         /\ \A e : AtMostOnce(s, e) => AtMostOnce(Without(s, gone), e)
         /\ \A b, f : b \notin gone /\ Leads(s, Made(b), f) => Leads(Without(s, gone), Made(b), f)
<1> DEFINE D == {e \in Range(s) : e.buffer \in gone}
<1>1. /\ Remaining(s, D) \in Seq(Events) /\ Range(Remaining(s, D)) = Range(s) \ D
      /\ \A e : AtMostOnce(s, e) => AtMostOnce(Remaining(s, D), e)
      /\ \A e, f : e \notin D /\ Leads(s, e, f) => Leads(Remaining(s, D), e, f)
  <2> HIDE DEF D
  <2> QED BY RemainingEffect, Zenon
<1>2. NoBuffer \notin gone
  BY BufferAssumption, Zenon
<1>3. \A b : b \notin gone => Made(b) \notin D
  BY EventKinds, Zenon
<1> QED BY <1>1, <1>2, <1>3, EventKinds, ZenonT(30) DEF Without

\* apiDisconnect() on the wire: the frame event is gone, every release stays.
LEMMA NoFrameEffect ==
  ASSUME NEW s \in Seq(Events)
  PROVE  /\ NoFrame(s) \in Seq(Events)
         /\ \A b : Rel(b) \in Range(NoFrame(s)) <=> Rel(b) \in Range(s)
         /\ \A e : AtMostOnce(s, e) => AtMostOnce(NoFrame(s), e)
         /\ \A b, f : Leads(s, Made(b), f) => Leads(NoFrame(s), Made(b), f)
<1>1. /\ Remaining(s, {Frame}) \in Seq(Events) /\ Range(Remaining(s, {Frame})) = Range(s) \ {Frame}
      /\ \A e : AtMostOnce(s, e) => AtMostOnce(Remaining(s, {Frame}), e)
      /\ \A e, f : e \notin {Frame} /\ Leads(s, e, f) => Leads(Remaining(s, {Frame}), e, f)
  BY RemainingEffect, Zenon
<1>2. NoFrame(s) = Remaining(s, {Frame})
  BY Zenon DEF NoFrame, Frame
<1>3. \A b : Rel(b) \notin {Frame} /\ Made(b) \notin {Frame}
  BY EventKinds, Zenon
<1> QED BY <1>1, <1>2, <1>3, Zenon

-----------------------------------------------------------------------------
(* The list of buffers *)

Elements(s) == {s[i] : i \in 1..Len(s)}

\* An injective list has as many elements as entries.
LEMMA ListCount ==
  ASSUME NEW s \in Seq(Buffers)
  PROVE  /\ IsFiniteSet(Elements(s)) /\ Elements(s) \subseteq Buffers
         /\ IsInjective(s) => Cardinality(Elements(s)) = Len(s)
<1>1. /\ Len(s) \in Nat /\ DOMAIN s = 1..Len(s) /\ s \in [1..Len(s) -> Buffers]
  BY SMT
<1>2. IsFiniteSet(1..Len(s)) /\ Cardinality(1..Len(s)) = Len(s)
  <2>1. IsFiniteSet(1..Len(s)) /\ Cardinality(1..Len(s)) = IF 1 > Len(s) THEN 0 ELSE Len(s) - 1 + 1
    BY <1>1, FS_Interval, SMTT(30)
  <2> QED BY <1>1, <2>1
<1>3. Elements(s) \subseteq Buffers /\ s \in [1..Len(s) -> Elements(s)]
  BY <1>1, SMT DEF Elements
<1>4. s \in Surjection(1..Len(s), Elements(s))
  BY <1>3, Zenon DEF Surjection, Elements
<1>5. IsFiniteSet(Elements(s)) /\ (Cardinality(Elements(s)) = Len(s) <=> s \in Injection(1..Len(s), Elements(s)))
  BY <1>2, <1>4, FS_Surjection
<1>6. IsInjective(s) => s \in Injection(1..Len(s), Elements(s))
  BY <1>1, <1>3, Zenon DEF IsInjective, Injection
<1> QED BY <1>3, <1>5, <1>6

\* The list after a disconnect, and while the window is destroyed.
LEMMA EmptyList ==
  ASSUME bufList' = <<>>
  PROVE  Listed' = {} /\ Len(bufList') = 0 /\ bufList' \in Seq(Buffers) /\ IsInjective(bufList')
<1>1. <<>> \in Seq(Buffers) /\ Len(<<>>) = 0 /\ DOMAIN <<>> = {} /\ 1..0 = {}
  BY SMT
<1>2. Listed' = {}
  BY <1>1, Zenon DEF Listed
<1> QED BY <1>1, <1>2, Zenon DEF IsInjective

\* So nothing is free.
LEMMA EmptyPool ==
  ASSUME bufList' = <<>>, freeBufs' = 0, busy' = {} \/ Teardown'
  PROVE  PoolInv'
<1>1. Listed' = {} /\ Len(bufList') = 0
  BY EmptyList, Zenon
<1>2. Listed' \ busy' = {}
  BY <1>1, Zenon
<1>3. FreeCountExact'
  BY <1>2, FS_EmptySet, Zenon DEF FreeCountExact
<1> QED BY <1>3, Zenon DEF PoolInv

\* The search of dequeueBufferTimeout() ends at a buffer of the set it looks for.
LEMMA FirstEffect ==
  ASSUME bufList \in Seq(Buffers), NEW S \in SUBSET Listed, S # {}
  PROVE  First(S) \in 1..Len(bufList) /\ bufList[First(S)] \in S
<1> DEFINE At == {i \in Nat : i \in 1..Len(bufList) /\ bufList[i] \in S}
<1>1. Len(bufList) \in Nat
  BY SMT
<1>2. At # {} /\ At \subseteq Nat
  <2>1. PICK i \in 1..Len(bufList) : bufList[i] \in S
    BY Zenon DEF Listed
  <2>2. i \in At
    BY <1>1, <2>1, SMT
  <2> QED BY <2>2
<1>3. PICK i \in At : \A j \in At : i <= j
  BY <1>2, Least, Zenon
<1>4. i \in 1..Len(bufList) /\ bufList[i] \in S /\ \A j \in 1..(i - 1) : bufList[j] \notin S
  BY <1>1, <1>3, SMT
<1> HIDE DEF At
<1> QED BY <1>4, Zenon DEF First

-----------------------------------------------------------------------------
(* The steps *)

\* A step of a call that touches no buffer, and the loss of the connection.
LEMMA CallOnly ==
  ASSUME IInv,
         UNCHANGED <<poolVars, fronted, frameCb, creating, proxy, refs, wireVars, compVars, chainVars>>,
         call' \in {"none", "dequeue", "present", "disconnect", "destroy", "destroy_wait", "destroyed"},
         call' = "present" => \E b \in owned : arg' = <<b>>,
         Teardown' <=> Teardown, Teardown => arg' = arg, broken' \in BOOLEAN, broken => broken'
  PROVE  IInv'
<1>1. /\ bufList' = bufList /\ busy' = busy /\ youngest' = youngest /\ freeBufs' = freeBufs
      /\ fronted' = fronted /\ frameCb' = frameCb /\ creating' = creating
      /\ proxy' = proxy /\ refs' = refs /\ queue' = queue /\ sock' = sock /\ shown' = shown
      /\ frameDue' = frameDue /\ owned' = owned /\ imported' = imported /\ connected' = connected
  BY Zenon DEF poolVars, wireVars, compVars, chainVars
<1>2. Listed' = Listed
  BY <1>1, Zenon DEF Listed
<1>3. Shape'
  BY <1>1, Zenon DEF IInv, Shape, TypeOK
<1>4. PoolInv'
  BY <1>1, <1>2, Zenon DEF IInv, PoolInv, FreeCountExact
<1>5. FrameInv'
  BY <1>1, SMT DEF IInv, FrameInv
<1>6. Teardown => Torn'
  BY <1>1, Zenon DEF IInv, Torn
<1>7. ~Teardown => Whole'
  BY <1>1, <1>2, Zenon DEF IInv, Whole, PlaceInv, WireInv, Unsure, OnTheWay, Exact
<1> QED BY <1>3, <1>4, <1>5, <1>6, <1>7, Zenon DEF IInv

\* The constructor leaves a window for which the invariant holds.
LEMMA InitInv == Init => IInv
<1> SUFFICES ASSUME Init PROVE IInv
  OBVIOUS
<1>1. bufList \in Seq(Buffers) /\ Len(bufList) = InitialCount /\ InitialCount \in Nat
  BY CountAssumption, SMT DEF Init
<1>2. Listed = Elements(bufList) /\ Listed \subseteq Buffers
  BY <1>1, ListCount, Zenon DEF Listed, Elements
<1>3. Cardinality(Listed \ busy) = InitialCount
  <2>1. Listed \ busy = Listed
    BY Zenon DEF Init
  <2> QED BY <1>1, <1>2, <2>1, ListCount, Zenon DEF Init
<1>4. Shape
  <2>1. refs \in [Buffers -> Int]
    BY SMT DEF Init
  <2>2. queue \in Seq(Events) /\ sock \in Seq(Events)
    BY EmptyEffect, Zenon DEF Init
  <2>3. freeBufs \in Nat
    BY <1>1, SMT DEF Init
  <2>4. TypeOK
    BY <1>1, <2>1, <2>3, Zenon DEF Init, TypeOK
  <2>5. IsFiniteSet(fronted)
    BY FS_EmptySet, Zenon DEF Init
  <2> QED BY <2>2, <2>3, <2>4, <2>5, Zenon DEF Init, Shape
<1>5. PoolInv
  BY <1>3, Zenon DEF Init, PoolInv, FreeCountExact
<1>6. FrameInv
  BY SMT DEF Init, FrameInv
<1>7. ~Teardown
  BY SMT DEF Init, Teardown
<1>8. PlaceInv
  BY Zenon DEF Init, PlaceInv
<1>9. WireInv
  BY EmptyEffect, Zenon DEF Init, WireInv, Unsure, OnTheWay
<1>10. \A b \in Buffers : Exact(b)
  BY SMT DEF Init, Exact
<1> QED BY <1>4, <1>5, <1>6, <1>7, <1>8, <1>9, <1>10, ZenonT(30) DEF IInv, Whole

\* Events that are read move from the socket to the queue.
LEMMA ReadInv ==
  ASSUME IInv, Read \/ OtherQueueReads
  PROVE  IInv'
<1>0. queue \in Seq(Events) /\ sock \in Seq(Events)
  BY Zenon DEF IInv, Shape
<1>1. /\ bufList' = bufList /\ busy' = busy /\ youngest' = youngest /\ freeBufs' = freeBufs
      /\ fronted' = fronted /\ frameCb' = frameCb /\ creating' = creating
      /\ proxy' = proxy /\ refs' = refs /\ shown' = shown /\ frameDue' = frameDue
      /\ owned' = owned /\ imported' = imported /\ connected' = connected
      /\ call' = call /\ arg' = arg /\ broken' = broken
  BY Zenon DEF Read, OtherQueueReads, poolVars, compVars, chainVars, callVars
<1>2. queue' = queue \o sock /\ sock' = <<>>
  BY <1>0, SMTT(30) DEF Read, OtherQueueReads
<1>3. /\ queue' \in Seq(Events) /\ sock' \in Seq(Events)
      /\ Range(queue') = Range(queue) \cup Range(sock) /\ Range(sock') = {}
      /\ \A e : AtMostOnce(queue, e) /\ AtMostOnce(sock, e) /\ ~(e \in Range(queue) /\ e \in Range(sock))
                     => AtMostOnce(queue', e)
      /\ \A e : AtMostOnce(sock', e)
  BY <1>0, <1>2, ConcatEffect, EmptyEffect
<1>4. Listed' = Listed /\ (Teardown' <=> Teardown)
  BY <1>1, Zenon DEF Listed, Teardown
<1>5. Shape'
  BY <1>1, <1>3, Zenon DEF IInv, Shape, TypeOK
<1>6. PoolInv'
  BY <1>1, <1>4, Zenon DEF IInv, PoolInv, FreeCountExact
<1>7. FrameInv'
  BY <1>1, <1>3, Zenon DEF IInv, FrameInv
<1>8. Teardown => Torn'
  BY <1>1, Zenon DEF IInv, Torn
<1>9. ~Teardown => Whole'
  <2> SUFFICES ASSUME ~Teardown PROVE Whole'
    OBVIOUS
  <2>1. PlaceInv /\ WireInv /\ \A b \in Buffers : Exact(b)
    BY Zenon DEF IInv, Whole
  <2>2. \A b \in Buffers : OnTheWay(b)' <=> OnTheWay(b)
    BY <1>3, Zenon DEF OnTheWay
  <2>3. PlaceInv'
    BY <1>1, <1>4, <2>1, Zenon DEF PlaceInv
  <2>4. WireInv'
    <3>1. \A b \in Buffers : OnTheWay(b)' => b \in fronted' \ shown'
      BY <1>1, <2>1, <2>2, Zenon DEF WireInv
    <3>2. ASSUME NEW b \in Buffers
          PROVE  /\ AtMostOnce(queue', Rel(b)) /\ AtMostOnce(sock', Rel(b))
                 /\ ~(Rel(b) \in Range(queue') /\ Rel(b) \in Range(sock'))
      BY <1>3, <2>1, Zenon DEF WireInv
    <3>3. Unsure' \/ \A b \in Listed' \cap busy' : b \in owned' \cup shown' \/ OnTheWay(b)'
      BY <1>1, <1>3, <1>4, <2>1, Zenon DEF WireInv, Unsure, OnTheWay
    <3> QED BY <3>1, <3>2, <3>3, Zenon DEF WireInv
  <2>5. \A b \in Buffers : Exact(b)'
    BY <1>1, <1>4, <2>1, Zenon DEF Exact
  <2> QED BY <2>3, <2>4, <2>5, Zenon DEF Whole
<1> QED BY <1>4, <1>5, <1>6, <1>7, <1>8, <1>9, Zenon DEF IInv

\* What releaseBuffer() does to a buffer that is not of the list.
LEMMA ReleaseUnlisted ==
  ASSUME IInv, NEW b \in Buffers, queue # <<>>, Head(queue) = Rel(b), b \notin Listed,
         fronted' = fronted \ {b}, DestroyBuffers({b}, Tail(queue)),
         UNCHANGED <<bufList, busy, youngest, freeBufs, frameCb, frameDue, chainVars, callVars, broken>>
  PROVE  IInv'
<1>0. /\ queue \in Seq(Events) /\ sock \in Seq(Events) /\ {b} \in SUBSET Buffers
      /\ bufList' = bufList /\ busy' = busy /\ youngest' = youngest /\ freeBufs' = freeBufs
      /\ frameCb' = frameCb /\ frameDue' = frameDue
      /\ owned' = owned /\ imported' = imported /\ connected' = connected
      /\ call' = call /\ arg' = arg /\ broken' = broken
  BY Zenon DEF IInv, Shape, chainVars, callVars
<1>1. /\ proxy' = proxy \ {b} /\ creating' = creating \ {b} /\ shown' = shown \ {b}
      /\ refs' = [c \in Buffers |-> IF c \in {b} THEN refs[c] - 1 ELSE refs[c]]
      /\ queue' = Without(Tail(queue), {b}) /\ sock' = Without(sock, {b})
  BY Zenon DEF DestroyBuffers
<1>2. /\ Tail(queue) \in Seq(Events) /\ Range(queue) = {Rel(b)} \cup Range(Tail(queue))
      /\ \A e : AtMostOnce(queue, e) => AtMostOnce(Tail(queue), e)
      /\ AtMostOnce(queue, Rel(b)) => Rel(b) \notin Range(Tail(queue))
  BY <1>0, TailEffect, Zenon
<1>3. /\ queue' \in Seq(Events) /\ sock' \in Seq(Events)
      /\ \A c : Rel(c) \in Range(queue') <=> Rel(c) \in Range(Tail(queue)) /\ c \notin {b}
      /\ \A c : Rel(c) \in Range(sock') <=> Rel(c) \in Range(sock) /\ c \notin {b}
      /\ Frame \in Range(queue') <=> Frame \in Range(Tail(queue))
      /\ Frame \in Range(sock') <=> Frame \in Range(sock)
      /\ \A e : AtMostOnce(Tail(queue), e) => AtMostOnce(queue', e)
      /\ \A e : AtMostOnce(sock, e) => AtMostOnce(sock', e)
  BY <1>0, <1>1, <1>2, WithoutEffect, ZenonT(30)
<1>4. /\ \A c \in Buffers : c # b => (Rel(c) \in Range(queue') <=> Rel(c) \in Range(queue))
      /\ \A c \in Buffers : c # b => (Rel(c) \in Range(sock') <=> Rel(c) \in Range(sock))
      /\ Rel(b) \notin Range(queue') /\ Rel(b) \notin Range(sock')
      /\ \A e : AtMostOnce(queue, e) => AtMostOnce(queue', e)
      /\ Frame \in Range(queue') <=> Frame \in Range(queue)
  BY <1>2, <1>3, EventKinds, Zenon
<1>5. Listed' = Listed /\ (Teardown' <=> Teardown)
  BY <1>0, Zenon DEF Listed, Teardown
<1>6. /\ refs \in [Buffers -> Int] /\ refs' \in [Buffers -> Int] /\ refs'[b] = refs[b] - 1
      /\ \A c \in Buffers : c # b => refs'[c] = refs[c]
  BY <1>1, SMT DEF IInv, Shape, TypeOK
<1>7. /\ PoolInv' /\ FrameInv' /\ (Teardown => Torn')
  <2>1. PoolInv'
    BY <1>0, <1>1, <1>5, ZenonT(30) DEF IInv, PoolInv, FreeCountExact
  <2>2. FrameInv'
    <3>1. FrameInv
      BY Zenon DEF IInv
    <3> QED BY <1>0, <1>3, <1>4, <3>1, SMTT(30) DEF FrameInv
  <2> QED BY <1>0, <2>1, <2>2, Zenon DEF IInv, Torn
<1>8. ~Teardown => Whole'
  <2> SUFFICES ASSUME ~Teardown PROVE Whole'
    OBVIOUS
  <2>1. PlaceInv /\ WireInv /\ \A c \in Buffers : Exact(c)
    BY Zenon DEF IInv, Whole
  <2>2. b \in fronted \ shown
    BY <1>2, <2>1, Zenon DEF WireInv, OnTheWay
  <2>3. PlaceInv'
    BY <1>0, <1>1, <1>5, <2>1, ZenonT(30) DEF PlaceInv
  <2>4. \A c \in Buffers : OnTheWay(c)' <=> c # b /\ OnTheWay(c)
    BY <1>4, Zenon DEF OnTheWay
  <2>5. WireInv'
    <3>1. \A c \in Buffers : OnTheWay(c)' => c \in fronted' \ shown'
      BY <1>1, <2>1, <2>4, Zenon DEF WireInv
    <3>2. ASSUME NEW c \in Buffers
          PROVE  /\ AtMostOnce(queue', Rel(c)) /\ AtMostOnce(sock', Rel(c))
                 /\ ~(Rel(c) \in Range(queue') /\ Rel(c) \in Range(sock'))
      BY <1>3, <1>4, <2>1, ZenonT(30) DEF WireInv
    <3>3. Unsure' \/ \A c \in Listed' \cap busy' : c \in owned' \cup shown' \/ OnTheWay(c)'
      <4>1. \A c \in Listed \cap busy : c # b /\ c \in Buffers
        BY Zenon DEF IInv, Shape, TypeOK
      <4>2. ASSUME ~Unsure, NEW c \in Listed \cap busy
            PROVE  c \in owned \cup shown \/ OnTheWay(c)
        BY <2>1, <4>2, ZenonT(30) DEF WireInv
      <4>3. ASSUME NEW c \in Listed \cap busy, c \in owned \cup shown \/ OnTheWay(c)
            PROVE  c \in owned' \cup shown' \/ OnTheWay(c)'
        BY <1>0, <1>1, <2>4, <4>1, <4>3, Zenon
      <4>4. Unsure => Unsure'
        BY <1>0, SMT DEF Unsure
      <4> QED BY <1>0, <1>5, <4>2, <4>3, <4>4, Zenon
    <3> QED BY <3>1, <3>2, <3>3, Zenon DEF WireInv
  <2>6. \A c \in Buffers : Exact(c)'
    BY <1>0, <1>5, <1>6, <2>1, <2>2, SMTT(30) DEF Exact
  <2> QED BY <2>3, <2>5, <2>6, ZenonT(30) DEF Whole
<1>9. Shape'
  <2>1. \A c \in imported' \cup proxy' : refs'[c] > 0
    <3>1. CASE Teardown
      BY <1>0, <1>1, <1>6, <3>1, Zenon DEF IInv, Torn, Shape, TypeOK
    <3>2. CASE ~Teardown
      <4>1. imported' \subseteq Buffers /\ proxy' \subseteq Buffers /\ proxy' \subseteq Listed' \cup fronted'
        BY <1>0, <1>1, <1>8, <3>2, ZenonT(30) DEF IInv, Shape, TypeOK, Whole, PlaceInv
      <4>2. \A c \in Buffers : Exact(c)'
        BY <1>8, <3>2, Zenon DEF Whole
      <4> QED BY <4>1, <4>2, SMT DEF Exact
    <3> QED BY <3>1, <3>2, SMTT(30)
  <2>2. TypeOK'
    BY <1>0, <1>1, <1>6, <2>1, ZenonT(30) DEF IInv, Shape, TypeOK
  <2>3. IsFiniteSet(fronted')
    BY FS_Subset, Zenon DEF IInv, Shape
  <2> QED BY <1>0, <1>3, <2>2, <2>3, ZenonT(30) DEF IInv, Shape
<1> QED BY <1>5, <1>7, <1>8, <1>9, ZenonT(30) DEF IInv

\* What releaseBuffer() does to a buffer of the list: it was busy, so the count
\* stays right.
LEMMA ReleaseListed ==
  ASSUME IInv, NEW b \in Buffers, queue # <<>>, Head(queue) = Rel(b), b \in Listed,
         fronted' = fronted \ {b}, busy' = busy \ {b}, youngest' = {b},
         freeBufs' = freeBufs + 1, queue' = Tail(queue),
         UNCHANGED <<bufList, proxy, creating, refs, sock, shown, frameCb, frameDue,
                     chainVars, callVars, broken>>
  PROVE  IInv'
<1>0. /\ queue \in Seq(Events) /\ sock \in Seq(Events)
      /\ bufList' = bufList /\ proxy' = proxy /\ creating' = creating
      /\ refs' = refs /\ sock' = sock /\ shown' = shown /\ frameCb' = frameCb /\ frameDue' = frameDue
      /\ owned' = owned /\ imported' = imported /\ connected' = connected
      /\ call' = call /\ arg' = arg /\ broken' = broken
  BY Zenon DEF IInv, Shape, chainVars, callVars
<1>1. ~Teardown
  <2>1. Teardown => Listed = {}
    BY SMT DEF IInv, Torn, Listed
  <2> QED BY <2>1, Zenon
<1>2. PlaceInv /\ WireInv /\ \A c \in Buffers : Exact(c)
  BY <1>1, Zenon DEF IInv, Whole
<1>3. /\ queue' \in Seq(Events) /\ Range(queue) = {Rel(b)} \cup Range(queue')
      /\ \A e : AtMostOnce(queue, e) => AtMostOnce(queue', e)
      /\ AtMostOnce(queue, Rel(b)) => Rel(b) \notin Range(queue')
  BY <1>0, TailEffect, ZenonT(30)
<1>4. /\ \A c \in Buffers : c # b => (Rel(c) \in Range(queue') <=> Rel(c) \in Range(queue))
      /\ Rel(b) \notin Range(queue') /\ Rel(b) \notin Range(sock)
      /\ Frame \in Range(queue') <=> Frame \in Range(queue)
  BY <1>2, <1>3, EventKinds, Zenon DEF WireInv
<1>5. b \in fronted \ shown /\ b \in busy /\ b \notin owned
  BY <1>2, <1>3, Zenon DEF WireInv, OnTheWay, PlaceInv
<1>6. Listed' = Listed /\ (Teardown' <=> Teardown)
  BY <1>0, Zenon DEF Listed, Teardown
<1>7. IsFiniteSet(Listed) /\ bufList \in Seq(Buffers)
  <2>1. bufList \in Seq(Buffers)
    BY Zenon DEF IInv, Shape, TypeOK
  <2> QED BY <2>1, ListCount, Zenon DEF Listed, Elements
<1>8. freeBufs' = Cardinality(Listed' \ busy') /\ freeBufs' \in Nat
  <2>1. Listed' \ busy' = (Listed \ busy) \cup {b} /\ b \notin Listed \ busy
    BY <1>5, <1>6, ZenonT(30)
  <2>2. IsFiniteSet(Listed \ busy)
    BY <1>7, FS_Subset, SMTT(30)
  <2>3. Cardinality((Listed \ busy) \cup {b}) = Cardinality(Listed \ busy) + 1
    BY <2>1, <2>2, FS_AddElement, ZenonT(30)
  <2>4. freeBufs = Cardinality(Listed \ busy) /\ freeBufs \in Nat
    BY Zenon DEF IInv, PoolInv, FreeCountExact, Shape, TypeOK
  <2>5. Cardinality(Listed' \ busy') = freeBufs + 1
    BY <2>1, <2>3, <2>4, Zenon
  <2> QED BY <2>4, <2>5, SMT
<1>9. PoolInv' /\ FrameInv'
  <2>1. PoolInv'
    BY <1>0, <1>5, <1>6, <1>8, Zenon DEF IInv, PoolInv, FreeCountExact
  <2>2. FrameInv'
    <3>1. FrameInv
      BY Zenon DEF IInv
    <3> QED BY <1>0, <1>4, <3>1, SMT DEF FrameInv
  <2> QED BY <2>1, <2>2
<1>10. PlaceInv'
  BY <1>0, <1>5, <1>6, <1>2, ZenonT(30) DEF PlaceInv
<1>11. WireInv'
  <2>1. \A c \in Buffers : OnTheWay(c)' <=> c # b /\ OnTheWay(c)
    BY <1>0, <1>4, Zenon DEF OnTheWay
  <2>2. \A c \in Buffers : OnTheWay(c)' => c \in fronted' \ shown'
    BY <1>0, <1>2, <2>1, Zenon DEF WireInv
  <2>3. ASSUME NEW c \in Buffers
        PROVE  /\ AtMostOnce(queue', Rel(c)) /\ AtMostOnce(sock', Rel(c))
               /\ ~(Rel(c) \in Range(queue') /\ Rel(c) \in Range(sock'))
    BY <1>0, <1>2, <1>3, <1>4, ZenonT(30) DEF WireInv
  <2>4. Unsure' \/ \A c \in Listed' \cap busy' : c \in owned' \cup shown' \/ OnTheWay(c)'
    <3>1. \A c \in Listed \cap busy' : c # b /\ c \in Buffers /\ c \in busy
      BY Zenon DEF IInv, Shape, TypeOK
    <3>2. ASSUME ~Unsure, NEW c \in Listed \cap busy
          PROVE  c \in owned \cup shown \/ OnTheWay(c)
      BY <1>2, <3>2, ZenonT(30) DEF WireInv
    <3>3. ASSUME NEW c \in Listed \cap busy', c \in owned \cup shown \/ OnTheWay(c)
          PROVE  c \in owned' \cup shown' \/ OnTheWay(c)'
      BY <1>0, <2>1, <3>1, <3>3, Zenon
    <3>4. Unsure => Unsure'
      BY <1>0, SMT DEF Unsure
    <3> QED BY <1>6, <3>1, <3>2, <3>3, <3>4, Zenon
  <2> QED BY <2>2, <2>3, <2>4, Zenon DEF WireInv
<1>12. \A c \in Buffers : Exact(c)'
  BY <1>0, <1>2, <1>6, Zenon DEF Exact
<1>13. Shape'
  <2>1. IsFiniteSet(fronted')
    BY FS_Subset, Zenon DEF IInv, Shape
  <2> QED BY <1>0, <1>3, <1>8, <2>1, ZenonT(30) DEF IInv, Shape, TypeOK
<1> QED BY <1>1, <1>6, <1>9, <1>10, <1>11, <1>12, <1>13, ZenonT(30) DEF IInv, Whole

\* A frame or a creation callback is dispatched.
LEMMA CallbackInv ==
  ASSUME IInv, queue # <<>>, Head(queue).kind # "release", Callback(Head(queue)),
         UNCHANGED <<bufList, frameDue, chainVars, callVars, broken>>
  PROVE  IInv'
<1> DEFINE e == Head(queue)
<1>0. /\ queue \in Seq(Events) /\ sock \in Seq(Events)
      /\ bufList' = bufList /\ proxy' = proxy /\ busy' = busy
      /\ youngest' = youngest /\ freeBufs' = freeBufs /\ fronted' = fronted
      /\ refs' = refs /\ sock' = sock /\ shown' = shown /\ frameDue' = frameDue
      /\ owned' = owned /\ imported' = imported /\ connected' = connected
      /\ call' = call /\ arg' = arg /\ broken' = broken
  BY Zenon DEF IInv, Shape, chainVars, callVars, Callback
<1>1. /\ queue' \in Seq(Events) /\ e \in Events /\ Range(queue) = {e} \cup Range(queue')
      /\ \A x : AtMostOnce(queue, x) => AtMostOnce(queue', x)
  BY <1>0, TailEffect, Zenon DEF Callback
<1>2. /\ frameCb' = (frameCb /\ e.kind # "frame") /\ creating' \subseteq creating
  BY Zenon DEF Callback, CreatingAfter
<1>3. e.kind # "release"
  OBVIOUS
<1> HIDE DEF e
<1>4. \A b \in Buffers : Rel(b) \in Range(queue') <=> Rel(b) \in Range(queue)
  BY <1>1, <1>3, EventKinds, Zenon
<1>5. Listed' = Listed /\ (Teardown' <=> Teardown)
  BY <1>0, Zenon DEF Listed, Teardown
<1>6. Shape'
  <2>1. frameCb' \in BOOLEAN
    BY <1>2
  <2> QED BY <1>0, <1>1, <1>2, <2>1, ZenonT(30) DEF IInv, Shape, TypeOK
<1>7. PoolInv'
  BY <1>0, <1>5, ZenonT(30) DEF IInv, PoolInv, FreeCountExact
<1>8. FrameInv'
  <2>1. e.kind # "frame" => (Frame \in Range(queue') <=> Frame \in Range(queue))
    BY <1>1, EventKinds, Zenon
  <2>2. FrameInv
    BY Zenon DEF IInv
  <2>3. frameCb' => frameCb /\ e.kind # "frame"
    BY <1>2, Zenon
  <2> QED BY <1>0, <2>1, <2>2, <2>3, SMTT(30) DEF FrameInv
<1>9. Teardown => Torn'
  BY <1>0, Zenon DEF IInv, Torn
<1>10. ~Teardown => Whole'
  <2> SUFFICES ASSUME ~Teardown PROVE Whole'
    OBVIOUS
  <2>1. PlaceInv /\ WireInv /\ \A b \in Buffers : Exact(b)
    BY Zenon DEF IInv, Whole
  <2>2. \A b \in Buffers : OnTheWay(b)' <=> OnTheWay(b)
    BY <1>0, <1>4, Zenon DEF OnTheWay
  <2>3. PlaceInv'
    BY <1>0, <1>5, <2>1, Zenon DEF PlaceInv
  <2>4. WireInv'
    <3>1. \A b \in Listed \cap busy : b \in Buffers
      BY Zenon DEF IInv, Shape, TypeOK
    <3>2. \A b \in Buffers : OnTheWay(b)' => b \in fronted' \ shown'
      BY <1>0, <2>1, <2>2, Zenon DEF WireInv
    <3>3. ASSUME NEW b \in Buffers
          PROVE  /\ AtMostOnce(queue', Rel(b)) /\ AtMostOnce(sock', Rel(b))
                 /\ ~(Rel(b) \in Range(queue') /\ Rel(b) \in Range(sock'))
      BY <1>0, <1>1, <1>4, <2>1, Zenon DEF WireInv
    <3>4. ASSUME ~Unsure, NEW b \in Listed \cap busy
          PROVE  b \in owned \cup shown \/ OnTheWay(b)
      BY <2>1, <3>4, ZenonT(30) DEF WireInv
    <3>5. Unsure' \/ \A b \in Listed' \cap busy' : b \in owned' \cup shown' \/ OnTheWay(b)'
      <4>1. Unsure => Unsure'
        BY <1>0, SMT DEF Unsure
      <4> QED BY <1>0, <1>5, <2>2, <3>1, <3>4, <4>1, ZenonT(30)
    <3> QED BY <3>2, <3>3, <3>5, Zenon DEF WireInv
  <2>5. \A b \in Buffers : Exact(b)'
    BY <1>0, <1>5, <2>1, Zenon DEF Exact
  <2> QED BY <2>3, <2>4, <2>5, Zenon DEF Whole
<1> QED BY <1>5, <1>6, <1>7, <1>8, <1>9, <1>10, ZenonT(30) DEF IInv

\* wl_display_dispatch_queue_pending(), one event.
LEMMA DispatchInv ==
  ASSUME IInv, Dispatch
  PROVE  IInv'
<1>0. queue \in Seq(Events) /\ queue # <<>>
  BY Zenon DEF IInv, Shape, Dispatch
<1>1. Head(queue) \in Events
  BY <1>0, TailEffect, Zenon
<1>2. UNCHANGED <<bufList, frameDue, chainVars, callVars, broken>>
  BY Zenon DEF Dispatch
<1>3. CASE Head(queue).kind = "release"
  <2> DEFINE b == Head(queue).buffer
  <2>1. b \in Buffers /\ Head(queue) = Rel(b)
    BY <1>1, <1>3, EventKinds, Zenon
  <2>2. ReleaseBuffer(b)
    BY <1>3, Zenon DEF Dispatch
  <2> HIDE DEF b
  <2>3. CASE b \in Listed
    BY <1>0, <1>2, <2>1, <2>2, <2>3, ReleaseListed, ZenonT(30) DEF ReleaseBuffer, Counted, FreeAfter
  <2>4. CASE b \notin Listed
    BY <1>0, <1>2, <2>1, <2>2, <2>4, ReleaseUnlisted, ZenonT(30) DEF ReleaseBuffer, Counted
  <2> QED BY <2>3, <2>4
<1>4. CASE Head(queue).kind # "release"
  <2>1. Callback(Head(queue))
    BY <1>4, Zenon DEF Dispatch
  <2> QED BY <1>0, <1>2, <1>4, <2>1, CallbackInv, ZenonT(30)
<1> QED BY <1>3, <1>4

\* presentBuffer(): the buffer moves from swapchain.c to the compositor.
LEMMA CommitInv ==
  ASSUME IInv, Commit
  PROVE  IInv'
<1>1. PICK b \in owned : arg = <<b>>
  BY Zenon DEF IInv, Shape, Commit
<1>2. /\ refs' = RetiredRef(b) /\ fronted' = fronted \cup {b} /\ owned' = owned \ {b}
      /\ proxy' = proxy \cup {b} /\ creating' = creating \cup ({b} \ proxy)
      /\ sock' = (IF b \in proxy THEN sock ELSE Append(sock, Made(b)))
      /\ shown' = shown \cup {b} /\ frameCb' = TRUE /\ frameDue' = TRUE
      /\ call' = "none" /\ ~Teardown /\ ~Teardown'
  <2>1. arg[1] = b
    BY <1>1
  <2>2. call = "present" /\ call' = "none"
    BY Zenon DEF Commit, End
  <2>3. ~Teardown /\ ~Teardown'
    BY <2>2 DEF Teardown
  <2> QED BY <2>1, <2>2, <2>3, Zenon DEF Commit, Made
<1>3. /\ bufList' = bufList /\ busy' = busy /\ youngest' = youngest /\ freeBufs' = freeBufs
      /\ queue' = queue /\ imported' = imported /\ connected' = connected
      /\ broken' = broken
  BY Zenon DEF Commit, BusyAfter
<1>4. PlaceInv /\ WireInv /\ \A c \in Buffers : Exact(c)
  BY <1>2, Zenon DEF IInv, Whole
<1>5. b \in imported /\ b \in Buffers /\ b \notin fronted /\ ~OnTheWay(b)
  <2>1. b \in imported /\ b \in Buffers /\ b \notin fronted
    BY <1>4, Zenon DEF IInv, Shape, TypeOK, PlaceInv
  <2> QED BY <1>4, <2>1, Zenon DEF WireInv
<1>6. /\ sock' \in Seq(Events)
      /\ \A c : Rel(c) \in Range(sock') <=> Rel(c) \in Range(sock)
      /\ \A c : AtMostOnce(sock, Rel(c)) => AtMostOnce(sock', Rel(c))
  <2>1. sock \in Seq(Events) /\ Made(b) \in Events
    BY <1>5, EventKinds, Zenon DEF IInv, Shape
  <2>2. CASE b \in proxy
    BY <1>2, <2>1, <2>2, ZenonT(30)
  <2>3. CASE b \notin proxy
    <3>1. sock' = Append(sock, Made(b))
      BY <1>2, <2>3, Zenon
    <3> QED BY <2>1, <3>1, AppendEffect, EventKinds, SMTT(30)
  <2> QED BY <2>2, <2>3
<1>7. Listed' = Listed
  BY <1>3, Zenon DEF Listed
<1>8. PlaceInv'
  BY <1>2, <1>3, <1>4, <1>5, <1>7, ZenonT(30) DEF PlaceInv
<1>9. \A c \in Buffers : OnTheWay(c)' <=> OnTheWay(c)
  BY <1>3, <1>6, Zenon DEF OnTheWay
<1>10. WireInv'
  <2>1. \A c \in Buffers : OnTheWay(c)' => c \in fronted' \ shown'
    BY <1>2, <1>4, <1>5, <1>9, Zenon DEF WireInv
  <2>2. ASSUME NEW c \in Buffers
        PROVE  /\ AtMostOnce(queue', Rel(c)) /\ AtMostOnce(sock', Rel(c))
               /\ ~(Rel(c) \in Range(queue') /\ Rel(c) \in Range(sock'))
    BY <1>3, <1>4, <1>6, ZenonT(30) DEF WireInv
  <2>3. Unsure' \/ \A c \in Listed' \cap busy' : c \in owned' \cup shown' \/ OnTheWay(c)'
    <3>1. ASSUME ~Unsure, NEW c \in Listed \cap busy
          PROVE  c \in Buffers /\ (c \in owned \cup shown \/ OnTheWay(c))
      BY <1>4, <3>1, ZenonT(30) DEF WireInv, IInv, Shape, TypeOK
    <3> QED BY <1>2, <1>3, <1>7, <1>9, <3>1, ZenonT(30) DEF Unsure
  <2> QED BY <2>1, <2>2, <2>3, ZenonT(30) DEF WireInv
<1>11. refs' \in [Buffers -> Int] /\ \A c \in Buffers : Exact(c)'
  <2>1. refs \in [Buffers -> Int]
    BY Zenon DEF IInv, Shape, TypeOK
  <2> QED BY <1>2, <1>3, <1>4, <1>5, <1>7, <2>1, SMTT(30) DEF Exact, RetiredRef
<1>12. Shape'
  <2>1. imported' \subseteq Buffers /\ proxy' \subseteq Buffers /\ proxy' \subseteq Listed' \cup fronted'
    BY <1>2, <1>3, <1>5, <1>8, ZenonT(30) DEF IInv, Shape, TypeOK, PlaceInv
  <2>2. \A c \in imported' \cup proxy' : refs'[c] > 0
    BY <1>11, <2>1, SMT DEF Exact
  <2>3. TypeOK'
    BY <1>2, <1>3, <1>5, <1>11, <2>1, <2>2, ZenonT(30) DEF IInv, Shape, TypeOK
  <2>4. IsFiniteSet(fronted')
    BY <1>2, FS_AddElement, Zenon DEF IInv, Shape
  <2> QED BY <1>2, <1>3, <1>6, <2>3, <2>4, ZenonT(30) DEF IInv, Shape
<1>13. PoolInv'
  BY <1>2, <1>3, <1>7, ZenonT(30) DEF IInv, PoolInv, FreeCountExact
<1>14. FrameInv'
  BY <1>2, Zenon DEF FrameInv
<1> QED BY <1>2, <1>8, <1>10, <1>11, <1>12, <1>13, <1>14, ZenonT(30) DEF IInv, Whole

\* cancelBuffer(): a buffer of the list goes back to it.
LEMMA CancelInv ==
  ASSUME IInv, NEW b \in Buffers, Cancel(b)
  PROVE  IInv'
<1>1. /\ b \in owned /\ b \in Listed /\ busy' = busy \ {b} /\ youngest' = {b}
      /\ freeBufs' = freeBufs + 1 /\ owned' = owned \ {b} /\ call = "none"
  BY Zenon DEF Cancel
<1>2. /\ bufList' = bufList /\ fronted' = fronted /\ frameCb' = frameCb
      /\ creating' = creating /\ proxy' = proxy /\ refs' = refs /\ queue' = queue /\ sock' = sock
      /\ shown' = shown /\ frameDue' = frameDue /\ imported' = imported /\ connected' = connected
      /\ call' = call /\ arg' = arg /\ broken' = broken
  BY Zenon DEF Cancel, wireVars, compVars, callVars
<1>3. ~Teardown /\ ~Teardown'
  BY <1>1, <1>2 DEF Teardown
<1>4. PlaceInv /\ WireInv /\ \A c \in Buffers : Exact(c)
  BY <1>3, Zenon DEF IInv, Whole
<1>5. b \in busy /\ b \notin fronted /\ b \in imported
  BY <1>1, <1>4, Zenon DEF PlaceInv, IInv, Shape, TypeOK
<1>6. Listed' = Listed
  BY <1>2, Zenon DEF Listed
<1>7. freeBufs' = Cardinality(Listed' \ busy') /\ freeBufs' \in Nat
  <2>1. Listed' \ busy' = (Listed \ busy) \cup {b} /\ b \notin Listed \ busy
    BY <1>1, <1>5, <1>6, Zenon
  <2>2. bufList \in Seq(Buffers)
    BY Zenon DEF IInv, Shape, TypeOK
  <2>3. IsFiniteSet(Listed)
    BY <2>2, ListCount, Zenon DEF Listed, Elements
  <2>4. IsFiniteSet(Listed \ busy)
    BY <2>3, FS_Subset
  <2>5. Cardinality((Listed \ busy) \cup {b}) = Cardinality(Listed \ busy) + 1
    BY <2>1, <2>4, FS_AddElement, Zenon
  <2>6. freeBufs = Cardinality(Listed \ busy) /\ freeBufs \in Nat
    BY Zenon DEF IInv, PoolInv, FreeCountExact, Shape, TypeOK
  <2>7. Cardinality(Listed' \ busy') = freeBufs + 1
    BY <2>1, <2>5, <2>6, Zenon
  <2> QED BY <1>1, <2>6, <2>7, SMT
<1>8. PoolInv'
  BY <1>1, <1>2, <1>3, <1>6, <1>7, ZenonT(30) DEF IInv, PoolInv, FreeCountExact
<1>9. PlaceInv'
  BY <1>1, <1>2, <1>4, <1>5, <1>6, Zenon DEF PlaceInv
<1>10. WireInv'
  <2>1. \A c : OnTheWay(c)' <=> OnTheWay(c)
    BY <1>2, Zenon DEF OnTheWay
  <2>2. Unsure' \/ \A c \in Listed' \cap busy' : c \in owned' \cup shown' \/ OnTheWay(c)'
    <3>1. ASSUME ~Unsure, NEW c \in Listed \cap busy
          PROVE  c \in owned \cup shown \/ OnTheWay(c)
      BY <1>4, <3>1, Zenon DEF WireInv
    <3> QED BY <1>1, <1>2, <1>6, <2>1, <3>1, ZenonT(30) DEF Unsure
  <2>3. \A c \in Buffers : OnTheWay(c)' => c \in fronted' \ shown'
    BY <1>2, <1>4, <2>1, Zenon DEF WireInv
  <2>4. ASSUME NEW c \in Buffers
        PROVE  /\ AtMostOnce(queue', Rel(c)) /\ AtMostOnce(sock', Rel(c))
               /\ ~(Rel(c) \in Range(queue') /\ Rel(c) \in Range(sock'))
    BY <1>2, <1>4, Zenon DEF WireInv
  <2> QED BY <2>2, <2>3, <2>4, Zenon DEF WireInv
<1>11. \A c \in Buffers : Exact(c)'
  BY <1>2, <1>4, <1>6, Zenon DEF Exact
<1>12. Shape'
  BY <1>1, <1>2, <1>7, Zenon DEF IInv, Shape, TypeOK
<1>13. FrameInv'
  BY <1>2, Zenon DEF IInv, FrameInv
<1> QED BY <1>3, <1>8, <1>9, <1>10, <1>11, <1>12, <1>13, ZenonT(30) DEF IInv, Whole

\* destroy_images(): the image's reference goes, whatever the window still holds.
LEMMA DropImageInv ==
  ASSUME IInv, NEW b \in Buffers, DropImage(b)
  PROVE  IInv'
<1>1. /\ b \in imported /\ arg # <<b>> /\ connected' = (connected /\ b \notin Listed)
      /\ imported' = imported \ {b} /\ owned' = owned \ {b}
      /\ refs' = [refs EXCEPT ![b] = @ - 1]
  BY Zenon DEF DropImage
<1>2. /\ bufList' = bufList /\ fronted' = fronted /\ frameCb' = frameCb
      /\ creating' = creating /\ proxy' = proxy /\ queue' = queue /\ sock' = sock
      /\ shown' = shown /\ frameDue' = frameDue
      /\ busy' = busy /\ youngest' = youngest /\ freeBufs' = freeBufs
      /\ call' = call /\ arg' = arg /\ broken' = broken
  BY Zenon DEF DropImage, poolVars, wireVars, compVars, callVars
<1>3. ~Teardown /\ ~Teardown'
  BY <1>1, <1>2, Zenon DEF Teardown, IInv, Torn
<1>4. PlaceInv /\ WireInv /\ \A c \in Buffers : Exact(c)
  BY <1>3, Zenon DEF IInv, Whole
<1>5. Listed' = Listed
  BY <1>2, Zenon DEF Listed
<1>6. PoolInv'
  BY <1>1, <1>2, <1>3, <1>5, Zenon DEF IInv, PoolInv, FreeCountExact
<1>7. PlaceInv'
  BY <1>1, <1>2, <1>4, <1>5, ZenonT(30) DEF PlaceInv
<1>8. WireInv'
  <2>1. \A c : OnTheWay(c)' <=> OnTheWay(c)
    BY <1>2, Zenon DEF OnTheWay
  <2>2. ASSUME ~Unsure', NEW c \in Listed \cap busy
        PROVE  c \in owned' \cup shown' \/ OnTheWay(c)'
    <3>1. ~Unsure /\ b \notin Listed
      BY <1>1, <1>2, <2>2, Zenon DEF Unsure
    <3>2. c # b /\ (c \in owned \cup shown \/ OnTheWay(c))
      BY <1>4, <2>2, <3>1, Zenon DEF WireInv
    <3> QED BY <1>1, <1>2, <2>1, <3>2, Zenon
  <2>3. \A c \in Buffers : OnTheWay(c)' => c \in fronted' \ shown'
    BY <1>2, <1>4, <2>1, Zenon DEF WireInv
  <2>4. ASSUME NEW c \in Buffers
        PROVE  /\ AtMostOnce(queue', Rel(c)) /\ AtMostOnce(sock', Rel(c))
               /\ ~(Rel(c) \in Range(queue') /\ Rel(c) \in Range(sock'))
    BY <1>2, <1>4, ZenonT(30) DEF WireInv
  <2> QED BY <1>2, <1>5, <2>2, <2>3, <2>4, Zenon DEF WireInv
<1>9. refs' \in [Buffers -> Int] /\ \A c \in Buffers : Exact(c)'
  <2>1. refs \in [Buffers -> Int]
    BY Zenon DEF IInv, Shape, TypeOK
  <2> QED BY <1>1, <1>2, <1>4, <1>5, <2>1, SMTT(30) DEF Exact
<1>10. Shape'
  <2>1. imported' \subseteq Buffers /\ proxy' \subseteq Buffers /\ proxy' \subseteq Listed' \cup fronted'
    BY <1>1, <1>2, <1>7, ZenonT(30) DEF IInv, Shape, TypeOK, PlaceInv
  <2>2. \A c \in imported' \cup proxy' : refs'[c] > 0
    BY <1>9, <2>1, SMT DEF Exact
  <2>3. TypeOK'
    BY <1>1, <1>2, <1>9, <2>1, <2>2, ZenonT(30) DEF IInv, Shape, TypeOK
  <2>4. call' = "present" => \E c \in owned' : arg' = <<c>>
    BY <1>1, <1>2, Zenon DEF IInv, Shape
  <2> QED BY <1>1, <1>2, <2>1, <2>3, <2>4, ZenonT(30) DEF IInv, Shape
<1>11. FrameInv'
  BY <1>2, Zenon DEF IInv, FrameInv
<1> QED BY <1>3, <1>6, <1>7, <1>8, <1>9, <1>10, <1>11, ZenonT(30) DEF IInv, Whole

\* dequeueBufferTimeout() picks a buffer of the list that is not busy.
LEMMA FoundEffect ==
  ASSUME bufList \in Seq(Buffers), Listed \ busy # {}
  PROVE  Found \in 1..Len(bufList) /\ bufList[Found] \in Listed \ busy
<1>1. CASE Old # {}
  <2>1. Old \in SUBSET Listed /\ Old \subseteq Listed \ busy /\ Found = First(Old)
    BY <1>1, Zenon DEF Old, Found
  <2> QED BY <1>1, <2>1, FirstEffect, Zenon
<1>2. CASE Old = {}
  <2>1. Found = First(Listed \ busy) /\ Listed \ busy \in SUBSET Listed
    BY <1>2, Zenon DEF Found
  <2> QED BY <2>1, FirstEffect, Zenon
<1> QED BY <1>1, <1>2

\* dequeueBufferTimeout() takes a buffer.
LEMMA DequeueTakeInv ==
  ASSUME IInv, DequeueTake
  PROVE  IInv'
<1>0. bufList \in Seq(Buffers) /\ Listed \ busy # {} /\ call = "dequeue"
  BY Zenon DEF IInv, Shape, TypeOK, DequeueTake
<1> DEFINE b == bufList[Found]
<1>1. /\ b \in Listed \ busy
      /\ busy' = busy \cup {b} /\ freeBufs' = freeBufs - 1
      /\ owned' = owned \cup {b} /\ imported' = imported \cup {b}
      /\ refs' = [refs EXCEPT ![b] = @ + (IF b \in imported THEN 0 ELSE 1)]
      /\ call' = "none"
  BY <1>0, FoundEffect, Zenon DEF DequeueTake, End
<1>2. /\ bufList' = bufList /\ youngest' = youngest /\ fronted' = fronted /\ frameCb' = frameCb
      /\ creating' = creating /\ proxy' = proxy /\ queue' = queue /\ sock' = sock
      /\ shown' = shown /\ frameDue' = frameDue /\ connected' = connected /\ broken' = broken
  BY Zenon DEF DequeueTake, wireVars, compVars
<1> HIDE DEF b
<1>3. ~Teardown /\ ~Teardown'
  BY <1>0, <1>1 DEF Teardown
<1>4. PlaceInv /\ WireInv /\ \A c \in Buffers : Exact(c)
  BY <1>3, Zenon DEF IInv, Whole
<1>5. Listed' = Listed
  BY <1>2, Zenon DEF Listed
<1>6. IsFiniteSet(Listed) /\ b \in Buffers
  <2>1. IsFiniteSet(Listed) /\ Listed \subseteq Buffers
    BY <1>0, ListCount, Zenon DEF Listed, Elements
  <2> QED BY <1>1, <2>1, Zenon
<1>7. freeBufs' = Cardinality(Listed' \ busy') /\ freeBufs' \in Nat
  <2>1. Listed' \ busy' = (Listed \ busy) \ {b} /\ b \in Listed \ busy
    BY <1>1, <1>5, ZenonT(30)
  <2>2. IsFiniteSet(Listed \ busy)
    BY <1>6, FS_Subset, SMTT(30)
  <2>3. Cardinality((Listed \ busy) \ {b}) = Cardinality(Listed \ busy) - 1
    BY <2>1, <2>2, FS_RemoveElement, Zenon
  <2>4. IsFiniteSet((Listed \ busy) \ {b})
    BY <2>2, FS_Subset
  <2>5. Cardinality((Listed \ busy) \ {b}) \in Nat
    BY <2>4, FS_CardinalityType, Zenon
  <2>6. freeBufs = Cardinality(Listed \ busy)
    BY Zenon DEF IInv, PoolInv, FreeCountExact
  <2> QED BY <1>1, <2>1, <2>3, <2>5, <2>6, ZenonT(30)
<1>8. PoolInv'
  <2>1. bufList # <<>>
    BY <1>1, SMT DEF Listed
  <2> QED BY <1>2, <1>7, <2>1, ZenonT(30) DEF PoolInv, FreeCountExact
<1>9. PlaceInv'
  BY <1>1, <1>2, <1>4, <1>5, Zenon DEF PlaceInv
<1>10. WireInv'
  <2>1. \A c : OnTheWay(c)' <=> OnTheWay(c)
    BY <1>2, ZenonT(30) DEF OnTheWay
  <2>2. Unsure' \/ \A c \in Listed' \cap busy' : c \in owned' \cup shown' \/ OnTheWay(c)'
    <3>1. ASSUME ~Unsure, NEW c \in Listed \cap busy
          PROVE  c \in owned \cup shown \/ OnTheWay(c)
      BY <1>4, <3>1, Zenon DEF WireInv
    <3> QED BY <1>1, <1>2, <1>5, <2>1, <3>1, ZenonT(30) DEF Unsure
  <2>3. \A c \in Buffers : OnTheWay(c)' => c \in fronted' \ shown'
    BY <1>2, <1>4, <2>1, ZenonT(30) DEF WireInv
  <2>4. ASSUME NEW c \in Buffers
        PROVE  /\ AtMostOnce(queue', Rel(c)) /\ AtMostOnce(sock', Rel(c))
               /\ ~(Rel(c) \in Range(queue') /\ Rel(c) \in Range(sock'))
    BY <1>2, <1>4, ZenonT(30) DEF WireInv
  <2> QED BY <2>2, <2>3, <2>4, Zenon DEF WireInv
<1>11. refs' \in [Buffers -> Int] /\ \A c \in Buffers : Exact(c)'
  <2>1. refs \in [Buffers -> Int]
    BY Zenon DEF IInv, Shape, TypeOK
  <2> QED BY <1>1, <1>2, <1>4, <1>5, <1>6, <2>1, SMTT(30) DEF Exact
<1>12. Shape'
  <2>1. imported' \subseteq Buffers /\ proxy' \subseteq Buffers /\ proxy' \subseteq Listed' \cup fronted'
    BY <1>1, <1>2, <1>6, <1>9, ZenonT(30) DEF IInv, Shape, TypeOK, PlaceInv
  <2>2. \A c \in imported' \cup proxy' : refs'[c] > 0
    BY <1>11, <2>1, SMT DEF Exact
  <2>3. TypeOK'
    BY <1>1, <1>2, <1>6, <1>7, <1>11, <2>1, <2>2, ZenonT(30) DEF IInv, Shape, TypeOK
  <2> QED BY <1>1, <1>2, <2>1, <2>3, ZenonT(30) DEF IInv, Shape
<1>13. FrameInv'
  BY <1>2, SMT DEF IInv, FrameInv
<1> QED BY <1>3, <1>8, <1>9, <1>10, <1>11, <1>12, <1>13, ZenonT(30) DEF IInv, Whole

\* apiDisconnect(): the list is emptied, and what the compositor has stays in fronted.
LEMMA DisconnectFinishInv ==
  ASSUME IInv, DisconnectFinish
  PROVE  IInv'
<1> DEFINE gone == Listed \ fronted
<1>1. /\ proxy' = proxy \ gone /\ creating' = creating \ gone
      /\ refs' = [b \in Buffers |-> IF b \in gone THEN refs[b] - 1 ELSE refs[b]]
      /\ queue' = NoFrame(Without(queue, gone)) /\ sock' = NoFrame(Without(sock, gone))
      /\ fronted' = fronted /\ shown' = shown \ gone
      /\ bufList' = <<>> /\ freeBufs' = 0 /\ busy' = {} /\ youngest' = {}
      /\ frameCb' = FALSE /\ frameDue' = FALSE /\ connected' = FALSE
      /\ call = "disconnect" /\ call' = "none"
      /\ owned' = owned /\ imported' = imported /\ broken' = broken
  BY Zenon DEF DisconnectFinish, FrontedAfter, FrameCbAfter, End
<1>2. ~Teardown /\ ~Teardown'
  BY <1>1 DEF Teardown
<1>3. PlaceInv /\ WireInv /\ \A c \in Buffers : Exact(c)
  BY <1>2, Zenon DEF IInv, Whole
<1>4. /\ bufList \in Seq(Buffers) /\ refs \in [Buffers -> Int]
      /\ queue \in Seq(Events) /\ sock \in Seq(Events)
  BY Zenon DEF IInv, Shape, TypeOK
<1>5. Listed \subseteq Buffers /\ gone \in SUBSET Buffers
  BY <1>4, ListCount, ZenonT(30) DEF Listed, Elements
<1>6. Listed' = {} /\ Len(bufList') = 0 /\ bufList' \in Seq(Buffers) /\ IsInjective(bufList')
  BY <1>1, EmptyList, Zenon
<1> HIDE DEF gone
<1>7. /\ queue' \in Seq(Events) /\ sock' \in Seq(Events)
      /\ \A b : Rel(b) \in Range(queue') <=> Rel(b) \in Range(queue) /\ b \notin gone
      /\ \A b : Rel(b) \in Range(sock') <=> Rel(b) \in Range(sock) /\ b \notin gone
      /\ \A e : AtMostOnce(queue, e) => AtMostOnce(queue', e)
      /\ \A e : AtMostOnce(sock, e) => AtMostOnce(sock', e)
  <2>1. /\ Without(queue, gone) \in Seq(Events)
        /\ \A b : Rel(b) \in Range(Without(queue, gone)) <=> Rel(b) \in Range(queue) /\ b \notin gone
        /\ \A e : AtMostOnce(queue, e) => AtMostOnce(Without(queue, gone), e)
    BY <1>4, <1>5, WithoutEffect, Zenon
  <2>2. /\ Without(sock, gone) \in Seq(Events)
        /\ \A b : Rel(b) \in Range(Without(sock, gone)) <=> Rel(b) \in Range(sock) /\ b \notin gone
        /\ \A e : AtMostOnce(sock, e) => AtMostOnce(Without(sock, gone), e)
    BY <1>4, <1>5, WithoutEffect, ZenonT(30)
  <2> QED BY <1>1, <2>1, <2>2, NoFrameEffect, ZenonT(30)
<1>8. PoolInv'
  BY <1>1, EmptyPool, Zenon
<1>9. PlaceInv'
  BY <1>1, <1>3, <1>6, ZenonT(30) DEF PlaceInv, gone
<1>10. WireInv'
  <2>1. \A b \in Buffers : OnTheWay(b)' => OnTheWay(b)
    BY <1>7, Zenon DEF OnTheWay
  <2>2. \A b \in Buffers : OnTheWay(b)' => b \in fronted' \ shown'
    BY <1>1, <1>3, <2>1, ZenonT(30) DEF WireInv
  <2>3. ASSUME NEW b \in Buffers
        PROVE  /\ AtMostOnce(queue', Rel(b)) /\ AtMostOnce(sock', Rel(b))
               /\ ~(Rel(b) \in Range(queue') /\ Rel(b) \in Range(sock'))
    BY <1>3, <1>7, ZenonT(30) DEF WireInv
  <2> QED BY <1>6, <2>2, <2>3, ZenonT(30) DEF WireInv
<1>11. refs' \in [Buffers -> Int] /\ \A b \in Buffers : Exact(b)'
  <2>1. refs' \in [Buffers -> Int]
    BY <1>1, <1>4, SMT
  <2>2. ASSUME NEW b \in Buffers PROVE Exact(b)'
    BY <1>1, <1>3, <1>4, <1>6, <2>2, SMTT(30) DEF Exact, gone
  <2> QED BY <2>1, <2>2, Zenon
<1>12. Shape'
  <2>1. imported' \subseteq Buffers /\ proxy' \subseteq Buffers /\ proxy' \subseteq Listed' \cup fronted'
    BY <1>1, <1>9, ZenonT(30) DEF IInv, Shape, TypeOK, PlaceInv
  <2>2. \A c \in imported' \cup proxy' : refs'[c] > 0
    BY <1>11, <2>1, SMT DEF Exact
  <2>3. freeBufs' \in Nat /\ connected' \in BOOLEAN /\ frameCb' \in BOOLEAN /\ frameDue' \in BOOLEAN
    <3>1. 0 \in Nat /\ FALSE \in BOOLEAN
      OBVIOUS
    <3> QED BY <1>1, <3>1, Zenon
  <2>4. TypeOK'
    BY <1>1, <1>6, <1>11, <2>1, <2>2, <2>3, ZenonT(30) DEF IInv, Shape, TypeOK
  <2> QED BY <1>1, <1>6, <1>7, <2>1, <2>3, <2>4, ZenonT(30) DEF IInv, Shape
<1>13. FrameInv'
  BY <1>1, Zenon DEF FrameInv
<1> QED BY <1>2, <1>8, <1>9, <1>10, <1>11, <1>12, <1>13, ZenonT(30) DEF IInv, Whole

\* The destructor: from here on only types, the empty list and the frame remain.
LEMMA DestroyInv ==
  ASSUME IInv, Destroy
  PROVE  IInv'
<1>1. /\ imported = {} /\ call' = "destroy" /\ call = "none"
      /\ \E s \in Injection(1..Cardinality(fronted), fronted) : arg' = s
      /\ bufList' = <<>> /\ freeBufs' = 0
      /\ proxy' = proxy \ Listed /\ creating' = creating \ Listed
      /\ refs' = [b \in Buffers |-> IF b \in Listed THEN refs[b] - 1 ELSE refs[b]]
      /\ queue' = Without(queue, Listed) /\ sock' = Without(sock, Listed)
      /\ busy' = busy /\ youngest' = youngest /\ fronted' = fronted /\ frameCb' = frameCb
      /\ frameDue' = frameDue /\ owned' = owned /\ imported' = imported /\ connected' = FALSE
      /\ broken' = broken
  BY ZenonT(30) DEF Destroy, Begin, DestroyBuffers, chainVars
<1>2. Teardown'
  BY <1>1 DEF Teardown
<1>3. /\ bufList \in Seq(Buffers) /\ refs \in [Buffers -> Int] /\ IsFiniteSet(fronted)
      /\ queue \in Seq(Events) /\ sock \in Seq(Events) /\ fronted \subseteq Buffers
  BY Zenon DEF IInv, Shape, TypeOK
<1>4. Listed \in SUBSET Buffers
  BY <1>3, ListCount, ZenonT(30) DEF Listed, Elements
<1>5. Listed' = {} /\ Len(bufList') = 0 /\ bufList' \in Seq(Buffers) /\ IsInjective(bufList')
  BY <1>1, EmptyList, Zenon
<1>6. arg' \in Seq(Buffers)
  <2>1. Cardinality(fronted) \in Nat
    BY <1>3, FS_CardinalityType
  <2>2. arg' \in [1..Cardinality(fronted) -> fronted]
    BY <1>1, Zenon DEF Injection
  <2>3. arg' \in [1..Cardinality(fronted) -> Buffers]
    BY <1>3, <2>2, ZenonT(30)
  <2>4. \A n \in Nat : \A s \in [1..n -> Buffers] : s \in Seq(Buffers)
    BY SMT
  <2> QED BY <2>1, <2>3, <2>4, ZenonT(30)
<1>7. /\ queue' \in Seq(Events) /\ sock' \in Seq(Events)
      /\ Frame \in Range(queue') <=> Frame \in Range(queue)
      /\ Frame \in Range(sock') <=> Frame \in Range(sock)
  BY <1>1, <1>3, <1>4, WithoutEffect, ZenonT(30)
<1>8. PoolInv'
  BY <1>1, <1>2, EmptyPool, Zenon
<1>9. Shape'
  <2>1. \A c \in imported' \cup proxy' : refs'[c] > 0
    BY <1>1, <1>3, Zenon DEF IInv, Shape, TypeOK
  <2>2. freeBufs' \in Nat /\ connected' \in BOOLEAN /\ refs' \in [Buffers -> Int]
    <3>1. 0 \in Nat /\ \A b \in Buffers : refs[b] - 1 \in Int /\ refs[b] \in Int
      BY <1>3
    <3> QED BY <1>1, <3>1, Zenon
  <2>3. TypeOK'
    BY <1>1, <1>5, <2>1, <2>2, ZenonT(30) DEF IInv, Shape, TypeOK
  <2> QED BY <1>1, <1>5, <1>7, <2>3, ZenonT(30) DEF IInv, Shape
<1>10. FrameInv'
  <2>1. FrameInv
    BY Zenon DEF IInv
  <2> QED BY <1>1, <1>7, <2>1, Zenon DEF FrameInv
<1> QED BY <1>1, <1>2, <1>6, <1>8, <1>9, <1>10, ZenonT(30) DEF IInv, Torn

\* destroyBuffers(), one buffer of fronted: it may be one that a release has
\* already destroyed.
LEMMA DestroyFrontedInv ==
  ASSUME IInv, DestroyFronted
  PROVE  IInv'
<1>1. Teardown /\ Teardown' /\ call' = "destroy" /\ arg # <<>> /\ arg' = Tail(arg)
  BY Zenon DEF DestroyFronted, Teardown
<1>2. Torn /\ Shape
  BY <1>1, Zenon DEF IInv
<1> DEFINE b == Head(arg)
<1>3. b \in Buffers /\ Tail(arg) \in Seq(Buffers)
  BY <1>1, <1>2, SMT DEF Torn
<1>4. /\ proxy' = proxy \ {b} /\ creating' = creating \ {b}
      /\ refs' = [c \in Buffers |-> IF c \in {b} THEN refs[c] - 1 ELSE refs[c]]
      /\ queue' = Without(queue, {b}) /\ sock' = Without(sock, {b})
  BY Zenon DEF DestroyFronted, DestroyBuffers
<1>5. /\ bufList' = bufList /\ busy' = busy /\ youngest' = youngest /\ freeBufs' = freeBufs
      /\ fronted' = fronted /\ frameCb' = frameCb
      /\ frameDue' = frameDue /\ owned' = owned /\ imported' = imported /\ connected' = connected
      /\ broken' = broken
  BY Zenon DEF DestroyFronted, poolVars, chainVars
<1> HIDE DEF b
<1>6. /\ queue' \in Seq(Events) /\ sock' \in Seq(Events)
      /\ Frame \in Range(queue') <=> Frame \in Range(queue)
      /\ Frame \in Range(sock') <=> Frame \in Range(sock)
  <2>1. queue \in Seq(Events) /\ sock \in Seq(Events) /\ {b} \in SUBSET Buffers
    BY <1>2, <1>3, ZenonT(30) DEF Shape
  <2> QED BY <1>4, <2>1, WithoutEffect, Zenon
<1>7. Listed' = Listed /\ Listed = {}
  BY <1>2, <1>5, SMT DEF Listed, Torn
<1>8. PoolInv'
  <2>1. PoolInv
    BY Zenon DEF IInv
  <2> QED BY <1>1, <1>5, <1>7, <2>1, ZenonT(30) DEF PoolInv, FreeCountExact
<1>9. Shape'
  <2>1. refs' \in [Buffers -> Int] /\ \A c \in imported' \cup proxy' : refs'[c] > 0
    <3>1. /\ refs \in [Buffers -> Int] /\ proxy \subseteq Buffers /\ imported = {}
          /\ \A c \in proxy : refs[c] > 0
      BY <1>2, ZenonT(30) DEF Shape, TypeOK, Torn
    <3> QED BY <1>4, <1>5, <3>1, SMT
  <2>2. TypeOK'
    BY <1>1, <1>2, <1>4, <1>5, <2>1, ZenonT(30) DEF Shape, TypeOK
  <2> QED BY <1>1, <1>2, <1>5, <1>6, <2>2, ZenonT(30) DEF Shape
<1>10. FrameInv'
  <2>1. FrameInv
    BY Zenon DEF IInv
  <2> QED BY <1>5, <1>6, <2>1, SMTT(30) DEF FrameInv
<1> QED BY <1>1, <1>2, <1>3, <1>5, <1>8, <1>9, <1>10, ZenonT(30) DEF IInv, Torn

\* The end of the destructor.
LEMMA DestroyFinishInv ==
  ASSUME IInv, DestroyFinish
  PROVE  IInv'
<1>1. /\ call = "destroy" /\ call' = "destroyed" /\ arg' = <<>> /\ fronted' = {} /\ frameCb' = FALSE
      /\ queue' = <<>> /\ sock' = <<>> /\ frameDue' = FALSE
      /\ bufList' = bufList /\ busy' = busy /\ youngest' = youngest /\ freeBufs' = freeBufs
      /\ creating' = creating /\ proxy' = proxy /\ refs' = refs
      /\ owned' = owned /\ imported' = imported /\ connected' = connected /\ broken' = broken
  BY Zenon DEF DestroyFinish, poolVars, chainVars
<1>2. Teardown /\ Teardown'
  BY <1>1 DEF Teardown
<1>3. Torn'
  BY <1>1, <1>2, EmptyEffect, Zenon DEF IInv, Torn
<1>4. Listed' = Listed
  BY <1>1, Zenon DEF Listed
<1>5. PoolInv'
  BY <1>1, <1>2, <1>4, Zenon DEF IInv, PoolInv, FreeCountExact
<1>6. Shape'
  <2>1. IsFiniteSet(fronted')
    BY <1>1, FS_EmptySet, ZenonT(30)
  <2> QED BY <1>1, <2>1, EmptyEffect, ZenonT(30) DEF IInv, Shape, TypeOK
<1>7. FrameInv'
  BY <1>1, SMT DEF FrameInv
<1> QED BY <1>2, <1>3, <1>5, <1>6, <1>7, ZenonT(30) DEF IInv

\* The compositor answers the frame callback.
LEMMA CompositorFrameInv ==
  ASSUME IInv, CompositorFrame
  PROVE  IInv'
<1>0. sock \in Seq(Events)
  BY Zenon DEF IInv, Shape
<1>1. /\ bufList' = bufList /\ busy' = busy /\ youngest' = youngest /\ freeBufs' = freeBufs
      /\ fronted' = fronted /\ frameCb' = frameCb /\ creating' = creating
      /\ proxy' = proxy /\ refs' = refs /\ queue' = queue /\ shown' = shown /\ frameDue' = FALSE
      /\ owned' = owned /\ imported' = imported /\ connected' = connected
      /\ call' = call /\ arg' = arg /\ broken' = broken /\ sock' = Append(sock, Frame)
  BY ZenonT(30) DEF CompositorFrame, poolVars, chainVars, callVars, Frame
<1>2. /\ sock' \in Seq(Events) /\ Range(sock') = Range(sock) \cup {Frame}
      /\ \A b \in Buffers : AtMostOnce(sock, Rel(b)) => AtMostOnce(sock', Rel(b))
      /\ \A b \in Buffers : Rel(b) \in Range(sock') <=> Rel(b) \in Range(sock)
  BY <1>0, <1>1, AppendEffect, EventKinds, SMTT(30)
<1>3. Listed' = Listed /\ (Teardown' <=> Teardown)
  BY <1>1, Zenon DEF Listed, Teardown
<1>4. Shape'
  BY <1>1, <1>2, Zenon DEF IInv, Shape, TypeOK
<1>5. PoolInv'
  BY <1>1, <1>3, Zenon DEF IInv, PoolInv, FreeCountExact
<1>6. FrameInv'
  BY <1>2, Zenon DEF FrameInv
<1>7. Teardown => Torn'
  BY <1>1, Zenon DEF IInv, Torn
<1>8. ~Teardown => Whole'
  <2> SUFFICES ASSUME ~Teardown PROVE Whole'
    OBVIOUS
  <2>1. PlaceInv /\ WireInv /\ \A b \in Buffers : Exact(b)
    BY Zenon DEF IInv, Whole
  <2>2. \A b \in Buffers : OnTheWay(b)' <=> OnTheWay(b)
    BY <1>1, <1>2, Zenon DEF OnTheWay
  <2>3. PlaceInv'
    BY <1>1, <1>3, <2>1, Zenon DEF PlaceInv
  <2>4. WireInv'
    <3>1. \A b \in Listed \cap busy : b \in Buffers
      BY Zenon DEF IInv, Shape, TypeOK
    <3>2. \A b \in Buffers : OnTheWay(b)' => b \in fronted' \ shown'
      BY <1>1, <2>1, <2>2, Zenon DEF WireInv
    <3>3. ASSUME NEW b \in Buffers
          PROVE  /\ AtMostOnce(queue', Rel(b)) /\ AtMostOnce(sock', Rel(b))
                 /\ ~(Rel(b) \in Range(queue') /\ Rel(b) \in Range(sock'))
      BY <1>1, <1>2, <2>1, ZenonT(30) DEF WireInv
    <3>4. ASSUME ~Unsure, NEW b \in Listed \cap busy
          PROVE  b \in owned \cup shown \/ OnTheWay(b)
      BY <2>1, <3>4, ZenonT(30) DEF WireInv
    <3>5. Unsure' \/ \A b \in Listed' \cap busy' : b \in owned' \cup shown' \/ OnTheWay(b)'
      BY <1>1, <1>3, <2>2, <3>1, <3>4, Zenon DEF Unsure
    <3> QED BY <3>2, <3>3, <3>5, ZenonT(30) DEF WireInv
  <2>5. \A b \in Buffers : Exact(b)'
    BY <1>1, <1>3, <2>1, ZenonT(30) DEF Exact
  <2> QED BY <2>3, <2>4, <2>5, Zenon DEF Whole
<1> QED BY <1>3, <1>4, <1>5, <1>6, <1>7, <1>8, ZenonT(30) DEF IInv

\* The compositor releases a buffer: only now is a release of it under way.
LEMMA CompositorReleasesInv ==
  ASSUME IInv, NEW r \in Buffers, CompositorReleases(r)
  PROVE  IInv'
<1>0. sock \in Seq(Events) /\ r \in shown
  BY Zenon DEF IInv, Shape, CompositorReleases
<1>1. /\ bufList' = bufList /\ busy' = busy /\ youngest' = youngest /\ freeBufs' = freeBufs
      /\ fronted' = fronted /\ frameCb' = frameCb /\ creating' = creating
      /\ proxy' = proxy /\ refs' = refs /\ queue' = queue /\ shown' = shown \ {r}
      /\ frameDue' = frameDue /\ owned' = owned /\ imported' = imported /\ connected' = connected
      /\ call' = call /\ arg' = arg /\ broken' = broken /\ sock' = Append(sock, Rel(r))
  BY ZenonT(30) DEF CompositorReleases, poolVars, chainVars, callVars, Rel
<1>2. /\ sock' \in Seq(Events) /\ Range(sock') = Range(sock) \cup {Rel(r)}
      /\ \A e : AtMostOnce(sock, e) /\ ~(e = Rel(r) /\ e \in Range(sock)) => AtMostOnce(sock', e)
  <2>1. Rel(r) \in Events
    BY EventKinds, Zenon
  <2> QED BY <1>0, <1>1, <2>1, AppendEffect, SMTT(30)
<1>3. /\ \A b \in Buffers : Rel(b) \in Range(sock') <=> b = r \/ Rel(b) \in Range(sock)
      /\ Frame \in Range(sock') <=> Frame \in Range(sock)
  BY <1>2, EventKinds, Zenon
<1>4. Listed' = Listed /\ (Teardown' <=> Teardown)
  BY <1>1, Zenon DEF Listed, Teardown
<1>5. Shape'
  BY <1>1, <1>2, Zenon DEF IInv, Shape, TypeOK
<1>6. PoolInv'
  BY <1>1, <1>4, ZenonT(30) DEF IInv, PoolInv, FreeCountExact
<1>7. FrameInv'
  <2>1. FrameInv
    BY Zenon DEF IInv
  <2> QED BY <1>1, <1>3, <2>1, Zenon DEF FrameInv
<1>8. Teardown => Torn'
  BY <1>1, Zenon DEF IInv, Torn
<1>9. ~Teardown => Whole'
  <2> SUFFICES ASSUME ~Teardown PROVE Whole'
    OBVIOUS
  <2>1. PlaceInv /\ WireInv /\ \A b \in Buffers : Exact(b)
    BY Zenon DEF IInv, Whole
  <2>2. ~OnTheWay(r) /\ r \in fronted
    BY <1>0, <2>1, Zenon DEF WireInv, PlaceInv
  <2>3. \A b \in Buffers : OnTheWay(b)' <=> b = r \/ OnTheWay(b)
    BY <1>1, <1>3, Zenon DEF OnTheWay
  <2>4. PlaceInv'
    BY <1>1, <1>4, <2>1, Zenon DEF PlaceInv
  <2>5. WireInv'
    <3>1. \A b \in Listed \cap busy : b \in Buffers
      BY Zenon DEF IInv, Shape, TypeOK
    <3>2. \A b \in Buffers : OnTheWay(b)' => b \in fronted' \ shown'
      BY <1>1, <2>1, <2>2, <2>3, ZenonT(30) DEF WireInv
    <3>3. ASSUME NEW b \in Buffers
          PROVE  /\ AtMostOnce(queue', Rel(b)) /\ AtMostOnce(sock', Rel(b))
                 /\ ~(Rel(b) \in Range(queue') /\ Rel(b) \in Range(sock'))
      <4>1. ~(Rel(b) = Rel(r) /\ Rel(b) \in Range(sock)) /\ (b = r => Rel(b) \notin Range(queue))
        BY <2>2, Zenon DEF OnTheWay
      <4> QED BY <1>1, <1>2, <1>3, <2>1, <4>1, ZenonT(30) DEF WireInv
    <3>4. ASSUME ~Unsure, NEW b \in Listed \cap busy
          PROVE  b \in owned \cup shown \/ OnTheWay(b)
      BY <2>1, <3>4, ZenonT(30) DEF WireInv
    <3>5. Unsure' \/ \A b \in Listed' \cap busy' : b \in owned' \cup shown' \/ OnTheWay(b)'
      BY <1>1, <1>4, <2>3, <3>1, <3>4, ZenonT(30) DEF Unsure
    <3> QED BY <3>2, <3>3, <3>5, Zenon DEF WireInv
  <2>6. \A b \in Buffers : Exact(b)'
    BY <1>1, <1>4, <2>1, ZenonT(30) DEF Exact
  <2> QED BY <2>4, <2>5, <2>6, ZenonT(30) DEF Whole
<1> QED BY <1>4, <1>5, <1>6, <1>7, <1>8, <1>9, ZenonT(30) DEF IInv

\* setBufferCount(): the new buffers are nowhere else, and none is in use.
LEMMA ConfigureInv ==
  ASSUME IInv, NEW n \in PoolSizes, Configure(n)
  PROVE  IInv'
<1>1. /\ call = "none" /\ bufList = <<>> /\ freeBufs' = n /\ connected' = TRUE
      /\ busy' = busy /\ youngest' = youngest /\ fronted' = fronted /\ frameCb' = frameCb
      /\ creating' = creating /\ proxy' = proxy /\ queue' = queue /\ sock' = sock
      /\ shown' = shown /\ frameDue' = frameDue /\ owned' = owned /\ imported' = imported
      /\ call' = call /\ arg' = arg /\ broken' = broken
  BY Zenon DEF Configure, callVars, wireVars, compVars
<1>2. ~Teardown /\ ~Teardown'
  BY <1>1 DEF Teardown
<1>3. PlaceInv /\ WireInv /\ \A c \in Buffers : Exact(c)
  BY <1>2, Zenon DEF IInv, Whole
<1>4. busy = {} /\ Listed = {} /\ refs \in [Buffers -> Int] /\ n \in Nat
  <2>1. busy = {} /\ refs \in [Buffers -> Int]
    BY <1>1, <1>2, Zenon DEF IInv, PoolInv, Shape, TypeOK
  <2>2. n \in Nat
    BY CountAssumption, SMT
  <2>3. Listed = {}
    BY <1>1, SMT DEF Listed
  <2> QED BY <2>1, <2>2, <2>3
<1>5. PICK new \in [1..n -> {b \in Buffers : refs[b] = 0}] :
        /\ IsInjective(new) /\ bufList' = new
        /\ refs' = [b \in Buffers |-> IF \E i \in DOMAIN new : new[i] = b THEN 1 ELSE refs[b]]
  BY Zenon DEF Configure
<1> DEFINE fresh == {new[i] : i \in 1..n}
<1>6. /\ DOMAIN new = 1..n /\ new \in Seq(Buffers) /\ Len(new) = n
      /\ \A b \in fresh : b \in Buffers /\ refs[b] = 0
  <2>1. DOMAIN new = 1..n /\ \A i \in 1..n : new[i] \in Buffers /\ refs[new[i]] = 0
    BY Zenon
  <2>2. new \in [1..n -> Buffers]
    BY <2>1, Zenon
  <2>3. \A f \in [1..n -> Buffers] : f \in Seq(Buffers) /\ Len(f) = n
    BY <1>4, SMT
  <2> QED BY <2>1, <2>2, <2>3, Zenon
<1>7. /\ Listed' = fresh /\ Listed' = Elements(bufList')
      /\ refs' = [b \in Buffers |-> IF b \in fresh THEN 1 ELSE refs[b]]
  BY <1>5, <1>6, Zenon DEF Listed, Elements
<1> HIDE DEF fresh
<1>8. \A b \in fresh : b \in Buffers /\ b \notin fronted /\ b \notin imported
  <2>1. ASSUME NEW b \in fresh
        PROVE  b \in Buffers /\ b \notin fronted /\ b \notin imported
    <3>1. b \in Buffers /\ refs[b] = 0 /\ Exact(b)
      BY <1>3, <1>6, <2>1, Zenon
    <3> QED BY <3>1, SMT DEF Exact
  <2> QED BY <2>1, Zenon
<1>9. PlaceInv'
  <2>1. owned \subseteq imported
    BY Zenon DEF IInv, Shape, TypeOK
  <2> QED BY <1>1, <1>3, <1>4, <1>7, <1>8, <2>1, ZenonT(30) DEF PlaceInv
<1>10. WireInv'
  <2>1. \A b \in Buffers : OnTheWay(b)' => b \in fronted' \ shown'
    BY <1>1, <1>3, ZenonT(30) DEF WireInv, OnTheWay
  <2>2. ASSUME NEW b \in Buffers
        PROVE  /\ AtMostOnce(queue', Rel(b)) /\ AtMostOnce(sock', Rel(b))
               /\ ~(Rel(b) \in Range(queue') /\ Rel(b) \in Range(sock'))
    BY <1>1, <1>3, Zenon DEF WireInv
  <2>3. Listed' \cap busy' = {}
    BY <1>1, <1>4, Zenon
  <2> QED BY <2>1, <2>2, <2>3, ZenonT(30) DEF WireInv
<1>11. refs' \in [Buffers -> Int] /\ \A b \in Buffers : Exact(b)'
  <2>1. refs' \in [Buffers -> Int]
    BY <1>4, <1>7, SMT
  <2>2. ASSUME NEW b \in Buffers, b \in fresh PROVE Exact(b)'
    <3>1. b \in Listed' \cup fronted' /\ b \notin imported' /\ refs'[b] = 1
      BY <1>1, <1>7, <1>8, <2>2, Zenon
    <3> QED BY <3>1, SMT DEF Exact
  <2>3. ASSUME NEW b \in Buffers, b \notin fresh PROVE Exact(b)'
    <3>1. /\ b \in Listed' \cup fronted' <=> b \in Listed \cup fronted
          /\ imported' = imported /\ refs'[b] = refs[b] /\ Exact(b)
      BY <1>1, <1>3, <1>4, <1>7, <2>3, Zenon
    <3> QED BY <3>1, Zenon DEF Exact
  <2> QED BY <2>1, <2>2, <2>3, Zenon
<1>12. PoolInv'
  <2>1. Listed' \ busy' = Elements(new)
    BY <1>1, <1>4, <1>5, <1>7, Zenon
  <2>2. Cardinality(Elements(new)) = n
    BY <1>5, <1>6, ListCount, Zenon
  <2> QED BY <1>1, <1>4, <2>1, <2>2, Zenon DEF PoolInv, FreeCountExact
<1>13. Shape'
  <2>1. imported' \subseteq Buffers /\ proxy' \subseteq Buffers /\ proxy' \subseteq Listed' \cup fronted'
    BY <1>1, <1>9, ZenonT(30) DEF IInv, Shape, TypeOK, PlaceInv
  <2>2. \A c \in imported' \cup proxy' : refs'[c] > 0
    BY <1>11, <2>1, SMT DEF Exact
  <2>3. TypeOK'
    BY <1>1, <1>4, <1>5, <1>6, <1>11, <2>1, <2>2, ZenonT(30) DEF IInv, Shape, TypeOK
  <2> QED BY <1>1, <1>5, <2>1, <2>3, ZenonT(30) DEF IInv, Shape
<1>14. FrameInv'
  <2>1. FrameInv
    BY Zenon DEF IInv
  <2> QED BY <1>1, <2>1, Zenon DEF FrameInv
<1> QED BY <1>2, <1>9, <1>10, <1>11, <1>12, <1>13, <1>14, ZenonT(30) DEF IInv, Whole

\* The steps that only start, end or fail a call.
LEMMA CallStepsInv ==
  ASSUME IInv,
         \/ Dequeue \/ DequeueFails \/ Disconnect \/ PresentFails \/ DestroyWait
         \/ ConnectionBreaks \/ \E b \in Buffers : Queue(b)
         \/ UNCHANGED vars
  PROVE  IInv'
<1>0. Shape
  BY Zenon DEF IInv
<1>1. UNCHANGED <<poolVars, fronted, frameCb, creating, proxy, refs, wireVars, compVars, chainVars>>
  BY Zenon DEF Dequeue, DequeueFails, Disconnect, PresentFails, DestroyWait, ConnectionBreaks, Queue, vars
<1>2. CASE Dequeue \/ Disconnect \/ \E b \in Buffers : Queue(b)
  <2>1. /\ call = "none" /\ broken' = broken
        /\ \/ call' = "dequeue"
           \/ call' = "disconnect"
           \/ call' = "present" /\ \E b \in owned : arg' = <<b>>
    BY <1>2, Zenon DEF Dequeue, Disconnect, Queue, Begin
  <2>2. ~Teardown /\ ~Teardown' /\ broken' \in BOOLEAN
    BY <1>0, <2>1, Zenon DEF Teardown, Shape
  <2>3. call' \in {"none", "dequeue", "present", "disconnect", "destroy", "destroy_wait", "destroyed"}
    BY <2>1, Zenon
  <2> QED BY <1>1, <2>1, <2>2, <2>3, CallOnly, ZenonT(30)
<1>3. CASE DequeueFails \/ PresentFails
  <2>1. call \in {"dequeue", "present"} /\ call' = "none" /\ broken' = broken
    BY <1>3, Zenon DEF DequeueFails, PresentFails, End
  <2>2. ~Teardown /\ ~Teardown' /\ broken' \in BOOLEAN
    BY <1>0, <2>1, ZenonT(30) DEF Teardown, Shape
  <2> QED BY <1>1, <2>1, <2>2, CallOnly, ZenonT(30)
<1>4. CASE DestroyWait
  <2>1. call = "destroy" /\ call' = "destroy_wait" /\ arg' = arg /\ broken' = broken
    BY <1>4, Zenon DEF DestroyWait
  <2>2. Teardown /\ Teardown' /\ broken' \in BOOLEAN
    BY <1>0, <2>1, Zenon DEF Teardown, Shape
  <2> QED BY <1>1, <2>1, <2>2, CallOnly, ZenonT(30)
<1>5. CASE ConnectionBreaks \/ UNCHANGED vars
  <2>1. call' = call /\ arg' = arg /\ (broken' = TRUE \/ broken' = broken)
    BY <1>5, Zenon DEF ConnectionBreaks, vars, callVars
  <2>2. (Teardown' <=> Teardown) /\ broken' \in BOOLEAN /\ (broken => broken')
    BY <1>0, <2>1, Zenon DEF Teardown, Shape
  <2>3. /\ call' \in {"none", "dequeue", "present", "disconnect", "destroy", "destroy_wait", "destroyed"}
        /\ call' = "present" => \E b \in owned : arg' = <<b>>
    BY <1>0, <2>1, Zenon DEF Shape, TypeOK
  <2> QED BY <1>1, <2>1, <2>2, <2>3, CallOnly, ZenonT(30)
<1> QED BY <1>2, <1>3, <1>4, <1>5, ZenonT(30)

\* Every step keeps the invariant.
LEMMA NextInv == IInv /\ [Next]_vars => IInv'
<1> SUFFICES ASSUME IInv, [Next]_vars PROVE IInv'
  OBVIOUS
<1>1. ASSUME NEW n \in PoolSizes, Configure(n) PROVE IInv'
  BY <1>1, ConfigureInv
<1>2. CASE Dequeue \/ DequeueFails \/ Disconnect \/ PresentFails \/ DestroyWait \/ ConnectionBreaks
  BY <1>2, CallStepsInv, Zenon
<1>3. CASE Destroyed \/ UNCHANGED vars
  BY <1>3, CallStepsInv, Zenon DEF Destroyed
<1>4. ASSUME NEW b \in Buffers, Queue(b) \/ Cancel(b) \/ DropImage(b) \/ CompositorReleases(b)
      PROVE  IInv'
  BY <1>4, CallStepsInv, CancelInv, DropImageInv, CompositorReleasesInv, ZenonT(30)
<1>5. CASE Dispatch
  BY <1>5, DispatchInv
<1>6. CASE Read \/ OtherQueueReads
  BY <1>6, ReadInv, SMTT(30)
<1>7. CASE DequeueTake
  BY <1>7, DequeueTakeInv
<1>8. CASE Commit
  BY <1>8, CommitInv
<1>9. CASE DisconnectFinish
  BY <1>9, DisconnectFinishInv
<1>10. CASE Destroy
  BY <1>10, DestroyInv
<1>11. CASE DestroyFronted
  BY <1>11, DestroyFrontedInv
<1>12. CASE DestroyFinish
  BY <1>12, DestroyFinishInv
<1>13. CASE CompositorFrame
  BY <1>13, CompositorFrameInv
<1> QED
  BY <1>1, <1>2, <1>3, <1>4, <1>5, <1>6, <1>7, <1>8, <1>9, <1>10, <1>11, <1>12, <1>13, ZenonT(30)
     DEF Next, CallStep

-----------------------------------------------------------------------------
(* The creation callbacks *)

\* Taking the first event, and what the first event says about the order.
LEMMA TailLeads ==
  ASSUME NEW T, NEW s \in Seq(T), s # <<>>, NEW e, NEW f, Leads(s, e, f)
  PROVE  /\ Head(s) # e => Leads(Tail(s), e, f)
         /\ e # f => Head(s) # f
<1>1. PICK k \in DOMAIN s : s[k] = e /\ \A i \in 1..(k - 1) : s[i] # f
  BY Zenon DEF Leads
<1>2. /\ Head(s) = s[1] /\ DOMAIN s = 1..Len(s) /\ Len(s) \in Nat /\ DOMAIN Tail(s) = 1..(Len(s) - 1)
      /\ \A i \in 1..(Len(s) - 1) : Tail(s)[i] = s[i + 1]
  BY SMT
<1>3. ASSUME Head(s) # e PROVE Leads(Tail(s), e, f)
  <2>1. k # 1
    BY <1>1, <1>2, <1>3, Zenon
  <2>2. /\ k - 1 \in 1..(Len(s) - 1) /\ (k - 1) + 1 = k
        /\ \A i \in 1..((k - 1) - 1) : i \in 1..(Len(s) - 1) /\ i + 1 \in 1..(k - 1)
    BY <1>2, <2>1, SMT
  <2>3. Tail(s)[k - 1] = e /\ \A i \in 1..((k - 1) - 1) : Tail(s)[i] # f
    BY <1>1, <1>2, <2>2, Zenon
  <2> QED BY <1>2, <2>2, <2>3, Zenon DEF Leads
<1>4. ASSUME e # f PROVE Head(s) # f
  <2>1. CASE k = 1
    BY <1>1, <1>2, <1>4, <2>1, Zenon
  <2>2. CASE k # 1
    <3>1. 1 \in 1..(k - 1)
      BY <1>2, <2>2, SMT
    <3> QED BY <1>1, <1>2, <3>1, Zenon
  <2> QED BY <2>1, <2>2
<1> QED BY <1>3, <1>4

\* Adding an event, and reading one queue into another.
LEMMA ConcatLeads ==
  ASSUME NEW T, NEW s \in Seq(T), NEW t \in Seq(T), NEW e, NEW f,
         Leads(s, e, f) \/ (f \notin Range(s) /\ Leads(t, e, f))
  PROVE  Leads(s \o t, e, f)
<1> DEFINE r == s \o t
<1>1. /\ DOMAIN s = 1..Len(s) /\ Len(s) \in Nat /\ DOMAIN t = 1..Len(t) /\ Len(t) \in Nat
      /\ DOMAIN r = 1..(Len(s) + Len(t))
      /\ \A i \in 1..Len(s) : r[i] = s[i]
      /\ \A i \in 1..Len(t) : r[Len(s) + i] = t[i]
  BY SMT
<1> HIDE DEF r
<1>2. CASE Leads(s, e, f)
  <2>1. PICK k \in DOMAIN s : s[k] = e /\ \A i \in 1..(k - 1) : s[i] # f
    BY <1>2, Zenon DEF Leads
  <2>2. k \in DOMAIN r /\ k \in 1..Len(s) /\ \A i \in 1..(k - 1) : i \in 1..Len(s)
    BY <1>1, <2>1, SMT
  <2> QED BY <1>1, <2>1, <2>2, Zenon DEF Leads, r
<1>3. CASE f \notin Range(s) /\ Leads(t, e, f)
  <2>1. PICK k \in DOMAIN t : t[k] = e /\ \A i \in 1..(k - 1) : t[i] # f
    BY <1>3, Zenon DEF Leads
  <2> DEFINE l == Len(s) + k
  <2>2. l \in DOMAIN r /\ r[l] = e
    BY <1>1, <2>1, SMT
  <2>3. ASSUME NEW i \in 1..(l - 1) PROVE r[i] # f
    <3>1. CASE i \in 1..Len(s)
      BY <1>1, <1>3, <3>1, Zenon DEF Range
    <3>2. CASE i \notin 1..Len(s)
      <4>1. i - Len(s) \in 1..(k - 1) /\ i - Len(s) \in 1..Len(t) /\ Len(s) + (i - Len(s)) = i
        BY <1>1, <2>1, <3>2, SMT
      <4> QED BY <1>1, <2>1, <4>1, Zenon
    <3> QED BY <3>1, <3>2
  <2> HIDE DEF l
  <2> QED BY <2>2, <2>3, Zenon DEF Leads, r
<1> QED BY <1>2, <1>3

\* Adding an event.
LEMMA AppendLeads ==
  ASSUME NEW T, NEW s \in Seq(T), NEW x \in T, NEW e, NEW f,
         Leads(s, e, f) \/ (e = x /\ f \notin Range(s))
  PROVE  Leads(Append(s, x), e, f)
<1>1. <<x>> \in Seq(T) /\ Append(s, x) = s \o <<x>>
  BY SMT
<1>2. Leads(<<x>>, x, f)
  <2>1. 1 \in DOMAIN <<x>> /\ <<x>>[1] = x /\ 1..(1 - 1) = {}
    BY SMT
  <2> QED BY <2>1, Zenon DEF Leads
<1>3. Leads(s, e, f) \/ (f \notin Range(s) /\ Leads(<<x>>, e, f))
  BY <1>2, Zenon
<1>4. Leads(s \o <<x>>, e, f)
  BY <1>1, <1>3, ConcatLeads, Zenon
<1> QED BY <1>1, <1>4, Zenon

\* A step that leaves the callbacks, fronted and the events alone.
LEMMA CreateKept ==
  ASSUME CreateInv, UNCHANGED <<fronted, creating, queue, sock>>, Teardown => Teardown'
  PROVE  CreateInv'
BY Zenon DEF CreateInv, Settling

\* The first event of the queue is dispatched.
LEMMA CreateDispatch ==
  ASSUME IInv, CreateInv, Dispatch
  PROVE  CreateInv'
<1>1. /\ queue \in Seq(Events) /\ sock \in Seq(Events) /\ queue # <<>> /\ creating \subseteq Buffers
      /\ call' = call
  BY Zenon DEF IInv, Shape, TypeOK, Dispatch, callVars
<1>2. Head(queue) \in Events /\ Tail(queue) \in Seq(Events) /\ Range(Tail(queue)) \subseteq Range(queue)
  BY <1>1, TailEffect, Zenon
<1> SUFFICES ASSUME ~Teardown' PROVE creating' \subseteq fronted' /\ \A b \in creating' : Settling(b)'
  BY Zenon DEF CreateInv
<1>3. creating \subseteq fronted /\ \A b \in creating : Settling(b)
  BY <1>1, Zenon DEF CreateInv, Teardown
<1>4. ASSUME NEW b \in creating
      PROVE  /\ Head(queue) # Rel(b)
             /\ Head(queue) # Made(b) =>
                  \/ Leads(Tail(queue), Made(b), Rel(b))
                  \/ Rel(b) \notin Range(Tail(queue)) /\ Leads(sock, Made(b), Rel(b))
  <2>0. Made(b) # Rel(b)
    BY EventKinds, Zenon
  <2>1. CASE Leads(queue, Made(b), Rel(b))
    BY <1>1, <2>0, <2>1, TailLeads, Zenon
  <2>2. CASE Rel(b) \notin Range(queue) /\ Leads(sock, Made(b), Rel(b))
    <3>1. Head(queue) \in Range(queue)
      BY <1>1, TailEffect, Zenon
    <3> QED BY <1>2, <2>2, <3>1, Zenon
  <2> QED BY <1>3, <1>4, <2>1, <2>2, Zenon DEF Settling
<1>5. CASE Head(queue).kind = "release"
  <2> DEFINE b == Head(queue).buffer
  <2>1. b \in Buffers /\ Head(queue) = Rel(b) /\ \A c : Head(queue) # Made(c)
    BY <1>2, <1>5, EventKinds, SMT
  <2>2. ReleaseBuffer(b)
    BY <1>5, Zenon DEF Dispatch
  <2> HIDE DEF b
  <2>3. b \notin creating /\ fronted' = fronted \ {b}
    BY <1>4, <2>1, <2>2, Zenon DEF ReleaseBuffer
  <2>4. \/ creating' = creating /\ queue' = Tail(queue) /\ sock' = sock
        \/ creating' = creating \ {b} /\ queue' = Without(Tail(queue), {b}) /\ sock' = Without(sock, {b})
    BY <2>2, Zenon DEF ReleaseBuffer, DestroyBuffers
  <2>5. ASSUME NEW c \in creating'
        PROVE  Settling(c)'
    <3>1. c \in creating /\ c # b
      BY <2>3, <2>4, <2>5, SMT
    <3>2. \/ Leads(Tail(queue), Made(c), Rel(c))
          \/ Rel(c) \notin Range(Tail(queue)) /\ Leads(sock, Made(c), Rel(c))
      BY <1>4, <2>1, <3>1, Zenon
    <3>3. CASE queue' = Tail(queue) /\ sock' = sock
      BY <3>2, <3>3, Zenon DEF Settling
    <3>4. CASE queue' = Without(Tail(queue), {b}) /\ sock' = Without(sock, {b})
      <4>1. {b} \in SUBSET Buffers /\ c \notin {b}
        BY <2>1, <3>1, Zenon
      <4>2. /\ Leads(Tail(queue), Made(c), Rel(c)) => Leads(queue', Made(c), Rel(c))
            /\ Rel(c) \notin Range(Tail(queue)) => Rel(c) \notin Range(queue')
        BY <1>2, <3>4, <4>1, WithoutEffect, Zenon
      <4>3. Leads(sock, Made(c), Rel(c)) => Leads(sock', Made(c), Rel(c))
        BY <1>1, <3>4, <4>1, WithoutEffect, Zenon
      <4> QED BY <3>2, <4>2, <4>3, Zenon DEF Settling
    <3> QED BY <2>4, <3>3, <3>4, Zenon
  <2>6. creating' \subseteq fronted'
    BY <1>3, <2>3, <2>4, Zenon
  <2> QED BY <2>5, <2>6, Zenon
<1>6. CASE Head(queue).kind # "release"
  <2>1. /\ queue' = Tail(queue) /\ sock' = sock /\ fronted' = fronted
        /\ creating' = creating \ (IF Head(queue).kind = "created" THEN {Head(queue).buffer} ELSE {})
    BY <1>6, Zenon DEF Dispatch, Callback, CreatingAfter
  <2>2. ASSUME NEW b \in creating'
        PROVE  Settling(b)'
    <3>1. b \in creating /\ (Head(queue).kind = "created" => Head(queue).buffer # b)
      BY <2>1, <2>2, Zenon
    <3>2. Head(queue) # Made(b)
      <4>1. Made(b).kind = "created" /\ Made(b).buffer = b
        BY SMT DEF Made, Event
      <4> QED BY <3>1, <4>1, Zenon
    <3> QED BY <1>4, <2>1, <3>1, <3>2, Zenon DEF Settling
  <2> QED BY <1>3, <2>1, <2>2, Zenon
<1> QED BY <1>5, <1>6

\* presentBuffer(): the first commit of a buffer asks for its creation, and no
\* release of it is under way.
LEMMA CreateCommit ==
  ASSUME IInv, CreateInv, Commit
  PROVE  CreateInv'
<1>1. PICK b \in owned : arg = <<b>>
  BY Zenon DEF IInv, Shape, Commit
<1>2. arg[1] = b
  BY <1>1
<1>3. /\ fronted' = fronted \cup {b} /\ creating' = creating \cup ({b} \ proxy) /\ queue' = queue
      /\ sock' = (IF b \in proxy THEN sock ELSE Append(sock, Made(b))) /\ call = "present"
  BY <1>2, Zenon DEF Commit, Made
<1>4. ~Teardown
  BY <1>3, Zenon DEF Teardown
<1>5. b \in Buffers /\ ~OnTheWay(b) /\ sock \in Seq(Events) /\ Made(b) \in Events
  <2>1. b \in Buffers /\ sock \in Seq(Events)
    BY Zenon DEF IInv, Shape, TypeOK
  <2>2. ~OnTheWay(b)
    BY <1>4, <2>1, Zenon DEF IInv, Whole, PlaceInv, WireInv
  <2> QED BY <2>1, <2>2, EventKinds, Zenon
<1>6. creating \subseteq fronted /\ \A c \in creating : Settling(c)
  BY <1>4, Zenon DEF CreateInv
<1>7. CASE b \in proxy
  BY <1>3, <1>6, <1>7, Zenon DEF CreateInv, Settling
<1>8. CASE b \notin proxy
  <2>1. sock' = Append(sock, Made(b))
    BY <1>3, <1>8, Zenon
  <2>2. ASSUME NEW c \in creating PROVE Settling(c)'
    <3>1. Leads(sock, Made(c), Rel(c)) => Leads(sock', Made(c), Rel(c))
      BY <1>5, <2>1, AppendLeads, Zenon
    <3> QED BY <1>3, <1>6, <2>2, <3>1, Zenon DEF Settling
  <2>3. Settling(b)'
    <3>1. Leads(sock', Made(b), Rel(b))
      BY <1>5, <2>1, AppendLeads, Zenon DEF OnTheWay
    <3> QED BY <1>3, <1>5, <3>1, Zenon DEF Settling, OnTheWay
  <2> QED BY <1>3, <1>6, <2>2, <2>3, Zenon DEF CreateInv
<1> QED BY <1>7, <1>8

\* Events are read, or the compositor sends one.
LEMMA CreateWire ==
  ASSUME IInv, CreateInv,
         \/ Read \/ OtherQueueReads \/ CompositorFrame
         \/ \E r \in Buffers : CompositorReleases(r)
  PROVE  CreateInv'
<1>1. /\ fronted' = fronted /\ creating' = creating /\ call' = call
      /\ queue \in Seq(Events) /\ sock \in Seq(Events)
  BY Zenon DEF IInv, Shape, Read, OtherQueueReads, CompositorFrame, CompositorReleases, callVars
<1>2. Teardown' <=> Teardown
  BY <1>1, Zenon DEF Teardown
<1>3. CASE Read \/ OtherQueueReads
  <2>1. queue' = queue \o sock
    <3>1. CASE Read
      <4>1. queue = <<>> /\ queue' = sock
        BY <3>1, Zenon DEF Read
      <4>2. <<>> \o sock = sock
        BY <1>1, SMT
      <4> QED BY <4>1, <4>2
    <3>2. CASE OtherQueueReads
      BY <3>2, Zenon DEF OtherQueueReads
    <3> QED BY <1>3, <3>1, <3>2
  <2>2. \A b : Settling(b) => Leads(queue', Made(b), Rel(b))
    BY <1>1, <2>1, ConcatLeads, Zenon DEF Settling
  <2> QED BY <1>1, <1>2, <2>2, Zenon DEF CreateInv, Settling
<1>4. CASE CompositorFrame \/ \E r \in Buffers : CompositorReleases(r)
  <2>1. PICK x \in Events : sock' = Append(sock, x) /\ queue' = queue
    BY <1>4, EventKinds, Zenon DEF CompositorFrame, CompositorReleases, Frame, Rel
  <2>2. \A b : Settling(b) => Settling(b)'
    BY <1>1, <2>1, AppendLeads, Zenon DEF Settling
  <2> QED BY <1>1, <1>2, <2>2, Zenon DEF CreateInv
<1> QED BY <1>3, <1>4

\* apiDisconnect() destroys what is not fronted.
LEMMA CreateDisconnect ==
  ASSUME IInv, CreateInv, DisconnectFinish
  PROVE  CreateInv'
<1> DEFINE gone == Listed \ fronted
<1>1. /\ creating' = creating \ gone /\ fronted' = fronted /\ call = "disconnect"
      /\ queue' = NoFrame(Without(queue, gone)) /\ sock' = NoFrame(Without(sock, gone))
  BY Zenon DEF DisconnectFinish, FrontedAfter
<1>2. creating \subseteq fronted /\ \A b \in creating : Settling(b)
  BY <1>1, Zenon DEF CreateInv, Teardown
<1>3. queue \in Seq(Events) /\ sock \in Seq(Events) /\ gone \in SUBSET Buffers
  <2>1. queue \in Seq(Events) /\ sock \in Seq(Events) /\ bufList \in Seq(Buffers)
    BY Zenon DEF IInv, Shape, TypeOK
  <2>2. Listed \subseteq Buffers
    BY <2>1, ListCount, Zenon DEF Listed, Elements
  <2> QED BY <2>1, <2>2, Zenon
<1> HIDE DEF gone
<1>4. ASSUME NEW s \in Seq(Events), NEW b, b \notin gone
      PROVE  /\ Leads(s, Made(b), Rel(b)) => Leads(NoFrame(Without(s, gone)), Made(b), Rel(b))
             /\ Rel(b) \notin Range(s) => Rel(b) \notin Range(NoFrame(Without(s, gone)))
  <2>1. /\ Without(s, gone) \in Seq(Events)
        /\ Leads(s, Made(b), Rel(b)) => Leads(Without(s, gone), Made(b), Rel(b))
        /\ Rel(b) \notin Range(s) => Rel(b) \notin Range(Without(s, gone))
    BY <1>3, <1>4, WithoutEffect, Zenon
  <2> QED BY <2>1, NoFrameEffect, SMT
<1>5. ASSUME NEW b \in creating' PROVE Settling(b)'
  <2>1. b \notin gone /\ Settling(b)
    BY <1>1, <1>2, <1>5, Zenon
  <2> QED BY <1>1, <1>3, <1>4, <2>1, Zenon DEF Settling
<1> QED BY <1>1, <1>2, <1>5, Zenon DEF CreateInv

\* Every step keeps the creation callbacks in order.
LEMMA CreateNext == IInv /\ CreateInv /\ [Next]_vars => CreateInv'
<1> SUFFICES ASSUME IInv, CreateInv, [Next]_vars PROVE CreateInv'
  OBVIOUS
<1>1. CASE Destroy \/ DestroyFronted \/ DestroyFinish
  <2>1. call' \in {"destroy", "destroyed"}
    BY <1>1, Zenon DEF Destroy, DestroyFronted, DestroyFinish, Begin
  <2> QED BY <2>1, Zenon DEF CreateInv, Teardown
<1>2. ASSUME \/ Dequeue \/ DequeueFails \/ Disconnect \/ PresentFails \/ DequeueTake
             \/ (\E n \in PoolSizes : Configure(n)) \/ (\E b \in Buffers : Queue(b) \/ Cancel(b))
      PROVE  CreateInv'
  <2>1. UNCHANGED <<fronted, creating, queue, sock>>
    BY <1>2, Zenon DEF Dequeue, DequeueFails, Disconnect, PresentFails, DequeueTake, Configure,
                       Queue, Cancel, wireVars
  <2>2. call \in {"none", "dequeue", "present"}
    BY <1>2, Zenon DEF Dequeue, DequeueFails, Disconnect, PresentFails, DequeueTake, Configure,
                       Queue, Cancel, Begin
  <2>3. ~Teardown
    BY <2>2, Zenon DEF Teardown
  <2> QED BY <2>1, <2>3, CreateKept, Zenon
<1>3. ASSUME \/ DestroyWait \/ Destroyed \/ ConnectionBreaks \/ UNCHANGED vars
             \/ \E b \in Buffers : DropImage(b)
      PROVE  CreateInv'
  <2>1. UNCHANGED <<fronted, creating, queue, sock>> /\ (call' = call \/ call' = "destroy_wait")
    BY <1>3, Zenon DEF DestroyWait, Destroyed, ConnectionBreaks, DropImage, vars, wireVars, callVars
  <2>2. Teardown => Teardown'
    BY <2>1, Zenon DEF Teardown
  <2> QED BY <2>1, <2>2, CreateKept, Zenon
<1>4. CASE Dispatch
  BY <1>4, CreateDispatch
<1>5. CASE Commit
  BY <1>5, CreateCommit
<1>6. CASE DisconnectFinish
  BY <1>6, CreateDisconnect
<1>7. CASE Read \/ OtherQueueReads \/ CompositorFrame \/ \E r \in Buffers : CompositorReleases(r)
  BY <1>7, CreateWire, Zenon
<1> QED
  BY <1>1, <1>2, <1>3, <1>4, <1>5, <1>6, <1>7, ZenonT(30) DEF Next, CallStep

-----------------------------------------------------------------------------
(* What the invariant says *)

\* The events in the queue and on the socket, as the properties name them.
LEMMA Pending ==
  ASSUME Shape
  PROVE  Range(queue \o sock) = Range(queue) \cup Range(sock)
<1>1. queue \in Seq(Events) /\ sock \in Seq(Events)
  BY Zenon DEF Shape
<1> QED BY <1>1, ConcatEffect, ZenonT(30)

\* The inductive invariant holds in every reachable state.
THEOREM InvariantHolds == Spec => []IInv
<1>1. Init => IInv
  BY InitInv
<1>2. IInv /\ [Next]_vars => IInv'
  BY NextInv
<1> QED BY <1>1, <1>2, PTL DEF Spec

\* dequeueBufferTimeout() can trust m_freeBufs, whatever releases of earlier pools
\* arrive.
THEOREM FreeCountIsExact == Spec => []FreeCountExact
<1>1. IInv => FreeCountExact
  BY Zenon DEF IInv, PoolInv
<1> QED BY <1>1, InvariantHolds, PTL

\* A buffer that swapchain.c draws into is neither shown nor about to be released.
THEOREM OwnershipIsExclusive == Spec => []ExclusiveOwnership
<1>1. IInv => ExclusiveOwnership
  <2> SUFFICES ASSUME IInv, NEW b \in owned
               PROVE  b \notin shown /\ \A e \in Range(queue \o sock) : e # Event("release", b)
    BY Zenon DEF ExclusiveOwnership
  <2>1. Shape /\ b \in imported /\ b \in Buffers
    BY Zenon DEF IInv, Shape, TypeOK
  <2>2. ~Teardown
    BY <2>1, Zenon DEF IInv, Torn
  <2>3. b \notin shown /\ ~OnTheWay(b)
    BY <2>1, <2>2, ZenonT(30) DEF IInv, Whole, PlaceInv, WireInv
  <2> QED BY <2>1, <2>3, Pending, Zenon DEF OnTheWay, Rel
<1> QED BY <1>1, InvariantHolds, PTL

\* Every reference is the list's, the compositor's or an image's: no buffer is freed
\* early and none leaks, until the window is destroyed.
THEOREM RefsAreExact == Spec => []RefsExact
<1>1. IInv => RefsExact
  BY ZenonT(30) DEF IInv, Shape, Whole, Exact, RefsExact
<1> QED BY <1>1, InvariantHolds, PTL

\* The assertion of releaseBuffer() holds, and no buffer of the list is lost.
THEOREM ReleasesAreTracked == Spec => []ReleasesTracked
<1>1. IInv => ReleasesTracked
  <2> SUFFICES ASSUME IInv, ~Teardown
               PROVE  /\ Released \subseteq fronted
                      /\ connected /\ ~broken => Listed \cap busy \subseteq owned \cup Range(arg) \cup shown \cup Released
    BY Zenon DEF ReleasesTracked
  <2>1. /\ Shape /\ WireInv
        /\ queue \in Seq(Events) /\ sock \in Seq(Events)
    BY Zenon DEF IInv, Whole, Shape
  <2>2. \A e \in Range(queue \o sock) : e \in Events
    <3>1. Range(queue) \subseteq Events /\ Range(sock) \subseteq Events
      BY <2>1, SMT DEF Range
    <3> QED BY <2>1, <3>1, Pending, ZenonT(30)
  <2>3. \A b : b \in Released <=> b \in Buffers /\ OnTheWay(b)
    <3>1. Range(queue \o sock) = Range(queue) \cup Range(sock)
      BY <2>1, Pending, Zenon
    <3>2. ASSUME NEW b \in Released
          PROVE  b \in Buffers /\ OnTheWay(b)
      <4>1. PICK e \in Range(queue \o sock) : e.kind = "release" /\ e.buffer = b
        BY <3>2, Zenon DEF Released
      <4>2. b \in Buffers /\ e = Rel(b)
        BY <2>2, <4>1, EventKinds, Zenon
      <4> QED BY <3>1, <4>1, <4>2, ZenonT(30) DEF OnTheWay
    <3>3. ASSUME NEW b \in Buffers, OnTheWay(b)
          PROVE  b \in Released
      <4>1. Rel(b) \in Range(queue \o sock)
        BY <3>1, <3>3, Zenon DEF OnTheWay
      <4>2. Rel(b).kind = "release" /\ Rel(b).buffer = b
        BY EventKinds, Zenon
      <4> HIDE DEF Rel
      <4> QED BY <4>1, <4>2, Zenon DEF Released
    <3> QED BY <3>2, <3>3, Zenon
  <2>4. ASSUME ~Unsure, NEW b \in Listed \cap busy
        PROVE  b \in Buffers /\ (b \in owned \cup shown \/ OnTheWay(b))
    BY <2>1, <2>4, Zenon DEF WireInv, Shape, TypeOK
  <2>5. Released \subseteq fronted
    BY <2>1, <2>3, ZenonT(30) DEF WireInv
  <2> QED BY <2>3, <2>4, <2>5, ZenonT(30) DEF Unsure
<1> QED BY <1>1, InvariantHolds, PTL

\* destroyBuffer() has nothing to dispatch for when apiDisconnect() or releaseBuffer()
\* calls it, and the release of a buffer follows the end of its creation.
THEOREM CreationIsSettled == Spec => []CreationSettled
<1>1. Init => CreateInv
  BY Zenon DEF Init, CreateInv
<1>2. IInv /\ CreateInv /\ [Next]_vars => CreateInv'
  BY CreateNext
<1>3. IInv /\ CreateInv => CreationSettled
  <2> SUFFICES ASSUME IInv, CreateInv, ~Teardown
               PROVE  CreationSettled
    BY Zenon DEF CreationSettled
  <2>1. creating \subseteq fronted /\ \A b \in creating : Settling(b)
    BY Zenon DEF CreateInv
  <2>2. queue \in Seq(Events) /\ sock \in Seq(Events)
    BY Zenon DEF IInv, Shape
  <2>3. ASSUME NEW b \in creating, NEW i \in DOMAIN Arriving, Arriving[i] = Rel(b)
        PROVE  \E j \in 1..(i - 1) : Arriving[j] = Made(b)
    <3>1. Leads(Arriving, Made(b), Rel(b))
      BY <2>1, <2>2, ConcatLeads, Zenon DEF Settling, Arriving
    <3>2. PICK k \in DOMAIN Arriving : Arriving[k] = Made(b) /\ \A j \in 1..(k - 1) : Arriving[j] # Rel(b)
      BY <3>1, Zenon DEF Leads
    <3>3. i # k /\ i \notin 1..(k - 1)
      BY <2>3, <3>2, EventKinds, Zenon
    <3>4. \A q \in Seq(Events) : \A m, n \in DOMAIN q : m # n /\ m \notin 1..(n - 1) => n \in 1..(m - 1)
      BY SMT
    <3>5. Arriving \in Seq(Events)
      BY <2>2, ConcatEffect, Zenon DEF Arriving
    <3>6. k \in 1..(i - 1)
      BY <3>3, <3>4, <3>5, Zenon
    <3> QED BY <3>2, <3>6, Zenon
  <2> QED BY <2>1, <2>3, Zenon DEF CreationSettled, Rel, Made
<1> QED BY <1>1, <1>2, <1>3, InvariantHolds, PTL DEF Spec

\* As long as the frame callback is set its event is owed or under way, also when a
\* disconnect or a teardown came between.
THEOREM FrameIsPending == Spec => []FramePending
<1>1. IInv => FramePending
  <2> SUFFICES ASSUME IInv PROVE FramePending
    OBVIOUS
  <2>1. Shape /\ FrameInv
    BY Zenon DEF IInv
  <2> QED BY <2>1, Pending, SMT DEF FrameInv, FramePending, Frame
<1> QED BY <1>1, InvariantHolds, PTL


-----------------------------------------------------------------------------
(* The window implements BufferQueue. *)

Same == UNCHANGED <<owned \ Range(Submitted), Submitted, shown>>

\* What is submitted: the buffer of the present that is in progress.
LEMMA SubmittedIs ==
  /\ call # "present" => Submitted = <<>> /\ owned \ Range(Submitted) = owned
  /\ call' # "present" => Submitted' = <<>> /\ owned' \ Range(Submitted') = owned'
  /\ \A b : call = "present" /\ arg = <<b>> => Submitted = <<b>> /\ owned \ Range(Submitted) = owned \ {b}
  /\ \A b : call' = "present" /\ arg' = <<b>> => Submitted' = <<b>> /\ owned' \ Range(Submitted') = owned' \ {b}
<1>1. Range(<<>>) = {} /\ \A b : Range(<<b>>) = {b}
  BY EmptyEffect, SMTT(30) DEF Range
<1> QED BY <1>1, Zenon DEF Submitted

\* Every step hands a buffer on as BufferQueue allows, or moves none.
LEMMA RefinementStep ==
  ASSUME IInv, Next
  PROVE  [Promise!Next]_(Promise!vars)
<1> USE DEF Promise!vars, Promise!Next
<1>0. /\ Shape /\ PoolInv /\ owned \subseteq imported /\ imported \subseteq Buffers
      /\ bufList \in Seq(Buffers)
  BY Zenon DEF IInv, Shape, TypeOK
<1>1. ~Teardown => PlaceInv /\ WireInv /\ \A b \in Buffers : Exact(b)
  BY Zenon DEF IInv, Whole
<1>2. ASSUME UNCHANGED <<owned, shown, call, arg>> PROVE Same
  BY <1>2, Zenon DEF Same, Submitted
<1>3. ASSUME call # "present", call' # "present", UNCHANGED <<owned, shown>> PROVE Same
  BY <1>3, SubmittedIs, ZenonT(30) DEF Same
<1>4. ASSUME NEW b \in Buffers, shown' = shown \ {b}, UNCHANGED owned,
             UNCHANGED <<call, arg>> \/ (call # "present" /\ call' # "present")
      PROVE  Same \/ Promise!Release(b)
  <2>1. UNCHANGED <<owned \ Range(Submitted), Submitted>>
    BY <1>4, SubmittedIs, ZenonT(30) DEF Submitted
  <2>2. CASE b \in shown
    BY <1>4, <2>1, <2>2, ZenonT(30) DEF Promise!Release
  <2>3. CASE b \notin shown
    BY <1>4, <2>1, <2>3, ZenonT(30) DEF Same
  <2> QED BY <2>2, <2>3
<1>5. ~Teardown => shown \subseteq fronted
  BY <1>1, Zenon DEF PlaceInv
<1>6. ASSUME NEW n \in PoolSizes, Configure(n) PROVE Same
  BY <1>2, <1>6, Zenon DEF Configure, callVars, compVars
<1>7. ASSUME Dequeue \/ DequeueFails \/ Disconnect \/ DestroyWait \/ DestroyFinish PROVE Same
  <2>1. call # "present" /\ call' # "present" /\ UNCHANGED <<owned, shown>>
    BY <1>7, Zenon DEF Dequeue, DequeueFails, Disconnect, DestroyWait, DestroyFinish, Begin, End,
                       compVars, chainVars
  <2> QED BY <1>3, <2>1, ZenonT(30)
<1>8. ASSUME Destroyed \/ Read \/ OtherQueueReads \/ CompositorFrame \/ ConnectionBreaks PROVE Same
  <2>1. UNCHANGED <<owned, shown, call, arg>>
    BY <1>8, Zenon DEF Destroyed, Read, OtherQueueReads, CompositorFrame, ConnectionBreaks, vars,
                       compVars, chainVars, callVars
  <2> QED BY <1>2, <2>1, ZenonT(30)
<1>9. ASSUME Destroy PROVE Same
  <2>1. /\ Listed \cap fronted = {} /\ call = "none" /\ call' = "destroy"
        /\ shown' = shown \ Listed /\ owned' = owned
    BY <1>9, Zenon DEF Destroy, Begin, DestroyBuffers, chainVars
  <2>2. ~Teardown /\ call # "present" /\ call' # "present"
    BY <2>1, Zenon DEF Teardown
  <2>3. shown' = shown
    BY <1>5, <2>1, <2>2, ZenonT(30)
  <2> QED BY <1>3, <2>1, <2>2, <2>3, ZenonT(30)
<1>10. ASSUME DisconnectFinish PROVE Same
  <2>1. /\ call = "disconnect" /\ call' = "none" /\ shown' = shown \ (Listed \ fronted) /\ owned' = owned
    BY <1>10, Zenon DEF DisconnectFinish, End
  <2>2. ~Teardown /\ call # "present" /\ call' # "present"
    BY <2>1, Zenon DEF Teardown
  <2>3. shown' = shown
    BY <1>1, <2>1, <2>2, ZenonT(30) DEF PlaceInv
  <2> QED BY <1>3, <2>1, <2>2, <2>3, ZenonT(30)
<1>11. ASSUME NEW b \in Buffers, Queue(b) PROVE Promise!Queue(b)
  <2>1. /\ b \in owned /\ call = "none" /\ call' = "present" /\ arg' = <<b>> /\ UNCHANGED <<owned, shown>>
    BY <1>11, Zenon DEF Queue, Begin, compVars, chainVars
  <2>2. /\ Submitted = <<>> /\ Submitted' = <<b>>
        /\ owned \ Range(Submitted) = owned /\ owned' \ Range(Submitted') = owned' \ {b}
    BY <2>1, SubmittedIs, ZenonT(30)
  <2>3. Append(<<>>, b) = <<b>>
    BY SMT
  <2> QED BY <2>1, <2>2, <2>3, ZenonT(30) DEF Promise!Queue
<1>12. ASSUME NEW b, call = "present", arg = <<b>>, call' = "none"
       PROVE  /\ Submitted = <<b>> /\ Submitted' = <<>> /\ Submitted # <<>>
              /\ Head(Submitted) = b /\ Tail(Submitted) = Submitted'
              /\ owned \ Range(Submitted) = owned \ {b} /\ owned' \ Range(Submitted') = owned'
  <2>1. <<b>> # <<>> /\ Head(<<b>>) = b /\ Tail(<<b>>) = <<>>
    BY SMT
  <2>2. call' # "present"
    BY <1>12, Zenon
  <2> QED BY <1>12, <2>1, <2>2, SubmittedIs, ZenonT(30)
<1>13. ASSUME Commit PROVE Promise!Present
  <2>1. PICK b \in owned : arg = <<b>>
    BY <1>0, <1>13, ZenonT(30) DEF Shape, Commit
  <2>2. arg[1] = b
    BY <2>1
  <2>3. /\ call = "present" /\ call' = "none" /\ owned' = owned \ {b} /\ shown' = shown \cup {b}
    BY <1>13, <2>2, ZenonT(30) DEF Commit, End
  <2> QED BY <1>12, <2>1, <2>3, ZenonT(30) DEF Promise!Present
<1>14. ASSUME PresentFails PROVE Promise!Reject
  <2>1. PICK b \in owned : arg = <<b>>
    BY <1>0, <1>14, ZenonT(30) DEF Shape, PresentFails
  <2>2. /\ call = "present" /\ call' = "none" /\ UNCHANGED <<owned, shown>>
    BY <1>14, Zenon DEF PresentFails, End, compVars, chainVars
  <2>3. owned' = (owned \ {b}) \cup {b}
    BY <2>1, <2>2, ZenonT(30)
  <2> QED BY <1>12, <2>1, <2>2, <2>3, ZenonT(30) DEF Promise!Reject
<1>15. ASSUME DequeueTake PROVE \E b \in Buffers : Promise!Dequeue(b)
  <2>1. call = "dequeue" /\ call' = "none" /\ Listed \ busy # {} /\ UNCHANGED shown
    BY <1>15, Zenon DEF DequeueTake, End, compVars
  <2>2. PlaceInv /\ \A b \in Buffers : Exact(b)
    BY <1>1, <2>1, Zenon DEF Teardown
  <2>3. bufList[Found] \in Listed \ busy
    BY <1>0, <2>1, FoundEffect, Zenon
  <2>4. Listed \subseteq Buffers
    BY <1>0, ListCount, ZenonT(30) DEF Listed, Elements
  <2>5. PICK b \in Buffers : owned' = owned \cup {b} /\ b \notin owned /\ b \notin shown
    <3>1. owned' = owned \cup {bufList[Found]}
      BY <1>15, Zenon DEF DequeueTake
    <3> QED BY <2>2, <2>3, <2>4, <3>1, ZenonT(30) DEF PlaceInv
  <2>6. /\ Submitted = <<>> /\ Submitted' = <<>>
        /\ owned \ Range(Submitted) = owned /\ owned' \ Range(Submitted') = owned'
    <3>1. call # "present" /\ call' # "present"
      BY <2>1, Zenon
    <3> QED BY <3>1, SubmittedIs, Zenon
  <2>7. \A i \in DOMAIN Submitted : FALSE
    BY <2>6, SMT
  <2> QED BY <2>1, <2>5, <2>6, <2>7, ZenonT(30) DEF Promise!Dequeue, Promise!Queued
<1>16. ASSUME NEW b \in Buffers, Cancel(b) PROVE Promise!GiveBack(b)
  <2>1. call = "none" /\ call' = "none" /\ b \in owned /\ owned' = owned \ {b} /\ UNCHANGED shown
    BY <1>16, Zenon DEF Cancel, callVars, compVars
  <2>2. call # "present" /\ call' # "present"
    BY <2>1, Zenon
  <2> QED BY <2>1, <2>2, SubmittedIs, ZenonT(30) DEF Promise!GiveBack
<1>17. ASSUME NEW b \in Buffers, DropImage(b) PROVE Same \/ Promise!GiveBack(b)
  <2>1. /\ owned' = owned \ {b} /\ UNCHANGED <<shown, call, arg>> /\ arg # <<b>>
    BY <1>17, Zenon DEF DropImage, callVars, compVars
  <2>2. Submitted' = Submitted
    BY <2>1, Zenon DEF Submitted
  <2>3. CASE b \notin owned
    BY <1>2, <2>1, <2>3, ZenonT(30)
  <2>4. CASE b \in owned
    <3>1. CASE call = "present"
      <4>1. PICK c \in owned : arg = <<c>>
        BY <1>0, <3>1, Zenon DEF Shape
      <4>2. c # b /\ call' = "present" /\ arg' = <<c>>
        BY <2>1, <2>4, <3>1, <4>1, ZenonT(30)
      <4>3. owned \ Range(Submitted) = owned \ {c} /\ owned' \ Range(Submitted') = owned' \ {c}
        BY <3>1, <4>1, <4>2, SubmittedIs, ZenonT(30)
      <4>4. b \in owned \ {c} /\ owned' \ {c} = (owned \ {c}) \ {b}
        BY <2>1, <2>4, <4>2, Zenon
      <4> QED BY <2>1, <2>2, <4>3, <4>4, ZenonT(30) DEF Promise!GiveBack
    <3>2. CASE call # "present"
      BY <2>1, <2>2, <2>4, <3>2, SubmittedIs, ZenonT(30) DEF Promise!GiveBack
    <3> QED BY <3>1, <3>2
  <2> QED BY <2>3, <2>4
<1>18. ASSUME NEW b \in Buffers, CompositorReleases(b) PROVE Same \/ Promise!Release(b)
  BY <1>4, <1>18, Zenon DEF CompositorReleases, chainVars, callVars
<1>19. ASSUME Dispatch PROVE Same \/ \E b \in Buffers : Promise!Release(b)
  <2>1. UNCHANGED <<owned, call, arg>>
    BY <1>19, Zenon DEF Dispatch, chainVars, callVars
  <2>2. CASE Head(queue).kind = "release"
    <3>1. Head(queue).buffer \in Buffers
      <4>1. queue \in Seq(Events) /\ queue # <<>>
        BY <1>0, <1>19, ZenonT(30) DEF Shape, Dispatch
      <4>2. Head(queue) \in Events
        BY <4>1, TailEffect, Zenon
      <4> QED BY <2>2, <4>2, EventKinds, Zenon
    <3>2. shown' = shown \/ shown' = shown \ {Head(queue).buffer}
      BY <1>19, <2>2, Zenon DEF Dispatch, ReleaseBuffer, DestroyBuffers
    <3> QED BY <1>2, <1>4, <2>1, <3>1, <3>2, ZenonT(30)
  <2>3. CASE Head(queue).kind # "release"
    BY <1>2, <1>19, <2>1, <2>3, Zenon DEF Dispatch, Callback
  <2> QED BY <2>2, <2>3
<1>20. ASSUME DestroyFronted PROVE Same \/ \E b \in Buffers : Promise!Release(b)
  <2>1. /\ call \in {"destroy", "destroy_wait"} /\ call' = "destroy" /\ arg # <<>>
        /\ shown' = shown \ {Head(arg)} /\ owned' = owned
    BY <1>20, Zenon DEF DestroyFronted, DestroyBuffers, chainVars
  <2>2. Teardown /\ call # "present" /\ call' # "present"
    BY <2>1, Zenon DEF Teardown
  <2>3. arg \in Seq(Buffers)
    BY <2>2, Zenon DEF IInv, Torn
  <2>4. Head(arg) \in Buffers
    BY <2>1, <2>3, SMT
  <2> QED BY <1>4, <2>1, <2>2, <2>4, Zenon
<1>21. Same \/ Promise!Next
  BY <1>6, <1>7, <1>8, <1>9, <1>10, <1>11, <1>13, <1>14, <1>15, <1>16, <1>17, <1>18, <1>19, <1>20, ZenonT(30)
     DEF Next, CallStep
<1> QED BY <1>21, Zenon DEF Same

\* The Wayland window implements the abstract buffer queue too: a buffer is with
\* swapchain.c, in the present that is in progress, or read by the compositor, and
\* only a buffer that is in none of these places is handed out.
THEOREM Refinement == Spec => ImplementsBufferQueue
<1>1. Init => Promise!Init
  <2> SUFFICES ASSUME Init PROVE Promise!Init
    OBVIOUS
  <2>1. call # "present"
    BY Zenon DEF Init
  <2> QED BY <2>1, SubmittedIs, Zenon DEF Init, Promise!Init
<1>2. IInv /\ [Next]_vars => [Promise!Next]_(Promise!vars)
  <2> SUFFICES ASSUME IInv, [Next]_vars PROVE [Promise!Next]_(Promise!vars)
    OBVIOUS
  <2>1. CASE UNCHANGED vars
    BY <2>1, Zenon DEF vars, compVars, chainVars, callVars, Promise!vars, Submitted
  <2>2. CASE Next
    BY <2>2, RefinementStep, Zenon
  <2> QED BY <2>1, <2>2, Zenon
<1> QED BY <1>1, <1>2, InvariantHolds, PTL DEF Spec, ImplementsBufferQueue, Promise!Spec
=============================================================================
