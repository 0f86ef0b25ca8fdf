-------------------------- MODULE DecDisplayProofs --------------------------
(***************************************************************************)
(* Proofs about the buffers and the display of DecPictures, for any sizes   *)
(* and any stream that fits them: that every buffer is held for a reason    *)
(* and there are enough, and that the pictures are shown in order, with     *)
(* their samples untouched.                                                 *)
(***************************************************************************)
EXTENDS DecPicturesProofs

-----------------------------------------------------------------------------
(* The invariant. *)

\* The pictures of a complete stream of a configuration that fits.
Whole == ~ lost /\ Fits(conf.c)

\* The buffers to be shown, and those of references.
Out == {out} \ {NoBuf}
Live == Waiting \cup Queued \cup Out
Refd == {b \in conf.pics : "REF" \in pic[b]}
Restart(p) == p.idr \/ S!Resets(p.cmds)

\* The types, and what holds after losses too.
Shape ==
  /\ IsFiniteSet(waiting)
  /\ \A e \in waiting : e.buf \in conf.pics /\ e.poc \in Int /\ e = [buf |-> e.buf, poc |-> e.poc]
  /\ queue \in Seq(conf.pics) /\ out \in conf.pics \cup {NoBuf}
  /\ base \in Int /\ maxPoc \in Int /\ shown \in Int /\ left \in 0 .. conf.c.length
  /\ mv \in M!Managers /\ mvOf \in [conf.pics -> conf.mvs] /\ mapped \subseteq conf.pics
  /\ flush => cur = None
  /\ cur = None => out = NoBuf
  /\ stream.fresh => cur = None
  /\ Fits(conf.c) => Cardinality(waiting) <= conf.delay /\ (lost => conf.c.lossy)

\* The flags of the picture buffers, the one being decoded apart.
Flags ==
  /\ \A b \in conf.pics :
       /\ pic[b] \subseteq {"busy", "REF", "IO"}
       /\ b \in Live => "IO" \in pic[b]
       /\ "IO" \in pic[b] => b \in Live \cup mapped
       /\ cur # None /\ b = cur.buf => pic[b] = {"busy"} /\ b \notin mapped
       /\ ~ (cur # None /\ b = cur.buf) => pic[b] # {"busy"}
  /\ mapped \cap Live = {}
  /\ ~ conf.c.shared => mapped = {}
  /\ IF cur = None THEN Refd = IF stream.fresh THEN {} ELSE Bufs(lists)
     ELSE IF cur.p.idr THEN Refd \subseteq Bufs(lists) ELSE Refd = Bufs(lists)

\* The motion vector buffers: one for each reference, and for the picture.
InUseNow == Refd \cup (IF cur = None THEN {} ELSE {cur.buf})
MvFlags ==
  /\ \A v \in conf.mvs :
       /\ mv[v] \subseteq {"busy", "REF"}
       /\ "REF" \in mv[v] <=> \E b \in Refd : mvOf[b] = v
       /\ IF cur # None /\ v = mvOf[cur.buf] THEN mv[v] = {"busy"} ELSE mv[v] # {"busy"}
  /\ \A a, b \in InUseNow : mvOf[a] = mvOf[b] => a = b

\* A key has been passed when no picture may come before it any more.
KeyOf(k) == S!Key(stream.period, k)
Later(T, k) == {q \in T : q > k}
NotBefore(T, k) == {q \in T : q >= k}
PassedIn(x, s) ==
  /\ x < S!Key(s.period + 1, 0)
  /\ ~ s.fresh => \/ x < S!Key(s.period, 0)
                  \/ \E k \in s.sent : /\ x = S!Key(s.period, k)
                                       /\ Cardinality(NotBefore(s.sent, k)) > conf.c.reorder
Passed(x) == PassedIn(x, stream)

\* The order of what waits and of what is queued.
Arranged(w, h) ==
  \A e, f \in w : e # f => \/ e.poc < f.poc /\ h[e.buf] < h[f.buf]
                           \/ f.poc < e.poc /\ h[f.buf] < h[e.buf]
Rising(q, h) == \A i, j \in DOMAIN q : i < j => h[q[i]] < h[q[j]]
Above(x) == shown < x /\ \A b \in Out \cup Queued : holds[b] < x
Placed(e, T) == \E k \in T : holds[e.buf] = KeyOf(k) /\ e.poc = base + k
InOrder ==
  /\ Rising(queue, holds)
  /\ \A b \in Out : shown < holds[b]
  /\ \A b \in Queued : shown < holds[b] /\ (\A d \in Out : holds[d] < holds[b])
  /\ \A e \in waiting : Above(holds[e.buf])
  /\ Arranged(waiting, holds)
  /\ Passed(shown) /\ \A b \in Out \cup Queued : Passed(holds[b])
  /\ stream.fresh => waiting = {} /\ (~ flush => queue = <<>>)
  /\ flush => stream.fresh
  /\ cur = None => \A e \in waiting : Placed(e, stream.sent)
  /\ cur # None =>
       /\ Above(cur.p.key)
       /\ IF Restart(cur.p) THEN \A e \in waiting : holds[e.buf] < cur.p.key
          ELSE \A e \in waiting : Placed(e, stream.sent \ {cur.p.poc})
  /\ due = {holds[b] : b \in Live}

\* What has been sent, in display.
Sending ==
  /\ \A q \in stream.sent : q + left * Step(conf.c) < PocSpan
  /\ ~ stream.fresh =>
       /\ stream.last \in stream.sent
       /\ Cardinality(Later(stream.sent, stream.last)) <= Most(conf.c.reorder, conf.c.trail)
  /\ cur # None =>
       IF Restart(cur.p)
       THEN stream.sent = {0} /\ cur.p.key = KeyOf(0) /\ stream.last = 0
       ELSE /\ cur.p.poc \in stream.sent /\ cur.p.poc # 0 /\ cur.p.key = KeyOf(cur.p.poc)
            /\ Cardinality(Later(stream.sent, cur.p.poc)) <= conf.c.reorder
            /\ cur.p.ref => stream.last = cur.p.poc

\* The last reference is still a reference, and is to be shown or was shown
\* before all that wait.
LastRef ==
  ~ stream.fresh /\ (cur # None => ~ cur.p.ref) =>
    \E b \in Bufs(lists) : holds[b] = KeyOf(stream.last) /\ (b \in Live \/ holds[b] <= shown)

\* How many wait.
Counts ==
  /\ conf.c.frameOut => waiting = {} /\ queue = <<>> /\ out = NoBuf
  /\ ~ conf.c.frameOut /\ cur = None /\ ~ stream.fresh
       => Cardinality(waiting) + Len(queue) <= conf.delay + 1
  /\ ~ conf.c.frameOut /\ cur # None => Cardinality(waiting) + Len(queue) <= conf.delay

\* The inductive invariant.  Each part needs the others: a buffer is free for
\* the next picture because of how many wait, that many wait because of the
\* order, and the order is kept because no buffer is taken twice.
DispInv == StepInv /\ Shape
           /\ (Whole => Flags /\ MvFlags /\ InOrder /\ Sending /\ LastRef /\ Counts)

-----------------------------------------------------------------------------
(* Counting. *)

\* A set that f maps one to one into a finite set has no more elements.
LEMMA NoMore ==
  ASSUME NEW Y, NEW T, IsFiniteSet(T), NEW f, \A x \in Y : f[x] \in T,
         \A x, y \in Y : f[x] = f[y] => x = y
  PROVE  IsFiniteSet(Y) /\ Cardinality(Y) <= Cardinality(T)
<1> DEFINE g == [x \in Y |-> f[x]]
<1>1. g \in [Y -> T] /\ \A x, y \in Y : g[x] = g[y] => x = y
  OBVIOUS
<1>2. g \in Injection(Y, T)
  BY <1>1 DEF Injection, IsInjective
<1> QED BY <1>2, FS_Injection

\* What f makes of a finite set has no more elements than it.
LEMMA ImageNoMore ==
  ASSUME NEW Y, IsFiniteSet(Y), NEW f
  PROVE  IsFiniteSet({f[x] : x \in Y}) /\ Cardinality({f[x] : x \in Y}) <= Cardinality(Y)
<1> DEFINE g == [x \in Y |-> f[x]]
           T == {f[x] : x \in Y}
<1>1. g \in [Y -> T] /\ \A t \in T : \E x \in Y : g[x] = t
  OBVIOUS
<1>2. g \in Surjection(Y, T)
  BY <1>1 DEF Surjection
<1> QED BY <1>2, FS_Surjection

\* A part of a finite set.
LEMMA PartNoMore ==
  ASSUME NEW T, IsFiniteSet(T), NEW Y, Y \subseteq T
  PROVE  IsFiniteSet(Y) /\ Cardinality(Y) \in Nat /\ Cardinality(T) \in Nat
         /\ Cardinality(Y) <= Cardinality(T)
BY FS_Subset, FS_CardinalityType

\* Two finite sets together.
LEMMA TogetherNoMore ==
  ASSUME NEW X, IsFiniteSet(X), NEW Y, IsFiniteSet(Y)
  PROVE  /\ IsFiniteSet(X \cup Y) /\ Cardinality(X \cup Y) \in Nat
         /\ Cardinality(X) \in Nat /\ Cardinality(Y) \in Nat
         /\ Cardinality(X \cup Y) <= Cardinality(X) + Cardinality(Y)
         /\ X \cap Y # {} => Cardinality(X \cup Y) < Cardinality(X) + Cardinality(Y)
<1>1. /\ IsFiniteSet(X \cup Y) /\ IsFiniteSet(X \cap Y)
      /\ Cardinality(X \cup Y) = Cardinality(X) + Cardinality(Y) - Cardinality(X \cap Y)
  <2>1. IsFiniteSet(X \cup Y)
    BY FS_Union
  <2>2. Cardinality(X \cup Y) = Cardinality(X) + Cardinality(Y) - Cardinality(X \cap Y)
    BY FS_Union
  <2>3. X \cap Y \in SUBSET X
    OBVIOUS
  <2>4. IsFiniteSet(X \cap Y)
    BY <2>3, FS_Subset
  <2> QED BY <2>1, <2>2, <2>4
<1>2. /\ Cardinality(X) \in Nat /\ Cardinality(Y) \in Nat /\ Cardinality(X \cap Y) \in Nat
      /\ Cardinality(X \cup Y) \in Nat
  BY <1>1, FS_CardinalityType
<1>3. X \cap Y # {} => Cardinality(X \cap Y) # 0
  BY <1>1, FS_EmptySet
<1> QED BY <1>1, <1>2, <1>3

-----------------------------------------------------------------------------
(* The keys and the configuration. *)

\* Where a key is in its period, and where the next period begins.
LEMMA KeyFacts ==
  ASSUME NEW d \in Nat
  PROVE  /\ PocSpan \in Nat /\ PocSpan > 0
         /\ S!Key(d, 0) \in Int /\ S!Key(d + 1, 0) = S!Key(d, 0) + PocSpan
         /\ \A k \in Int : S!Key(d, k) = S!Key(d, 0) + k
<1>1. PocSpan \in Nat /\ PocSpan > 0
  BY DecPicturesAssumption
<1> DEFINE x == d * PocSpan
<1>2. x \in Int /\ (d + 1) * PocSpan = x + PocSpan
  BY <1>1
<1>3. S!Key(d + 1, 0) = (d + 1) * PocSpan + 0 /\ \A k : S!Key(d, k) = x + k
  BY DEF S!Key
<1> HIDE DEF x
<1> QED BY <1>1, <1>2, <1>3

\* The sizes a configuration that fits leads to.
LEMMA FitFacts ==
  ASSUME conf \in {Setup(c) : c \in Configs}, Fits(conf.c)
  PROVE  /\ conf.c \in Configs /\ conf.c.reorder \in Nat /\ conf.c.trail \in Nat
         /\ conf.c.numRef \in Nat /\ conf.c.numRef > 0 /\ conf.c.length \in Nat
         /\ conf.delay \in Nat /\ conf.c.quiet /\ conf.c.idrNext /\ Slots \in Nat /\ Slots > 0
         /\ IF conf.c.frameOut THEN conf.c.reorder = 0 /\ conf.delay = 0
            ELSE conf.c.reorder < conf.delay /\ conf.c.trail <= conf.delay /\ conf.delay <= Slots
         /\ conf.c.length * Step(conf.c) < PocSpan /\ Step(conf.c) \in Nat /\ Step(conf.c) > 0
         /\ \E n \in Nat : conf.pics = 0 .. n - 1 /\ n >= conf.delay + conf.c.numRef + 1
         /\ \E n \in Nat : conf.mvs = 0 .. n - 1 /\ n >= conf.c.numRef + 1
<1>1. PICK c \in Configs : conf = Setup(c)
  OBVIOUS
<1>2. /\ conf.c = c /\ conf.delay = Delay(c) /\ conf.pics = 0 .. NumPics(c) - 1
      /\ conf.mvs = 0 .. NumMvs(c) - 1
  BY <1>1 DEF Setup
<1>3. /\ c.numRef \in Nat /\ c.numRef > 0 /\ c.reorder \in Nat /\ c.trail \in Nat /\ c.dpbSize \in Nat
      /\ c.length \in Nat /\ c.vui \in BOOLEAN /\ c.frameOut \in BOOLEAN /\ c.shared \in BOOLEAN
      /\ MaxPics \in Nat /\ MinShared \in Nat /\ Slots \in Nat /\ Slots > 0
  BY ConfigsAssumption, DecPicturesAssumption
<1>4. Delay(c) \in Nat /\ (c.frameOut => Delay(c) = 0)
      /\ Delay(c) <= IF c.vui THEN c.reorder + 1 ELSE c.dpbSize
  BY <1>3 DEF Delay
<1>5. NumPics(c) \in Nat /\ NumPics(c) >= Delay(c) + c.numRef + 1
  <2>1. Delay(c) + c.numRef + 1 <= MaxPics
    BY <1>2 DEF Fits
  <2> DEFINE d == IF c.vui THEN c.reorder + 1 ELSE c.dpbSize
  <2>2. d \in Nat /\ Delay(c) <= d /\ Delay(c) \in Nat
    BY <1>3, <1>4
  <2>3. NumPics(c) = IF c.shared THEN Most(d + c.numRef + 1, MinShared)
                     ELSE Least(Most(Delay(c) + c.numRef + 1, 2), MaxPics)
    BY DEF NumPics
  <2> HIDE DEF d
  <2>4. PICK e : e = Delay(c)
    OBVIOUS
  <2> QED BY <1>3, <2>1, <2>2, <2>3, <2>4 DEF Most, Least
<1>6. NumMvs(c) \in Nat /\ NumMvs(c) >= c.numRef + 1
  BY <1>3, <1>4, <1>5 DEF NumMvs, Most, Least
<1>7. Step(c) \in Nat /\ Step(c) > 0
  BY <1>3 DEF Step
<1> QED BY <1>2, <1>3, <1>4, <1>5, <1>6, <1>7 DEF Fits

-----------------------------------------------------------------------------
(* The display list and the queue. *)

\* The first of what waits is one of them, and none has a lower order count.
LEMMA FirstIs ==
  ASSUME NEW w, IsFiniteSet(w), w # {}, \A e \in w : e.poc \in Int
  PROVE  First(w) \in w /\ \A f \in w : First(w).poc <= f.poc
<1> DEFINE Below(e) == {f \in w : f.poc < e.poc}
           Z == {Cardinality(Below(e)) : e \in w}
<1>1. ASSUME NEW e \in w PROVE IsFiniteSet(Below(e)) /\ Cardinality(Below(e)) \in Nat
  <2>1. Below(e) \in SUBSET w
    OBVIOUS
  <2> HIDE DEF Below
  <2> QED BY <2>1, FS_Subset, FS_CardinalityType
<1>2. Z \subseteq Nat /\ Z # {}
  <2> HIDE DEF Below
  <2> QED BY <1>1
<1>3. PICK i \in Z : \A j \in Z : i <= j
  <2> HIDE DEF Z
  <2> QED BY <1>2, LeastExists
<1>4. PICK e \in w : i = Cardinality(Below(e))
  OBVIOUS
<1>5. ASSUME NEW f \in w, f.poc < e.poc PROVE FALSE
  <2>1. Below(f) \in SUBSET Below(e) /\ f \in Below(e) /\ f \notin Below(f)
    BY <1>5
  <2>2. Cardinality(Below(e)) <= Cardinality(Below(f))
    BY <1>3, <1>4
  <2> HIDE DEF Below
  <2>3. Cardinality(Below(f)) <= Cardinality(Below(e))
        /\ (Cardinality(Below(e)) = Cardinality(Below(f)) => Below(e) = Below(f))
    BY <1>1, <2>1, FS_Subset
  <2>4. Cardinality(Below(e)) \in Nat /\ Cardinality(Below(f)) \in Nat
    BY <1>1
  <2> QED BY <2>1, <2>2, <2>3, <2>4
<1>6. \A f \in w : e.poc <= f.poc
  BY <1>5
<1>7. \E x \in w : \A f \in w : x.poc <= f.poc
  BY <1>6
<1> QED BY <1>7 DEF First

\* What waits and the queue after one more is queued.
QueuesOne(r) == [w |-> r.w \ {First(r.w)}, q |-> Enqueue(r.q, First(r.w).buf)]

\* The function that QueueAll defines, up to n.
QueuedAfter(a, w, q, n) ==
  a = [i \in 0..n |-> IF i = 0 THEN [w |-> w, q |-> q] ELSE QueuesOne(a[i - 1])]

\* What waits is queued one by one, through the states a.
QueuesEach(a, w, q) ==
  /\ a[0] = [w |-> w, q |-> q]
  /\ \A i \in 1..Cardinality(w) : a[i] = QueuesOne(a[i - 1])
  /\ QueueAll(w, q) = a[Cardinality(w)].q

\* ih264d_release_display_bufs does that.
LEMMA QueueSteps ==
  ASSUME NEW w, Cardinality(w) \in Nat, NEW q
  PROVE  \E a : QueuesEach(a, w, q)
<1> DEFINE N == Cardinality(w)
           A == {n \in 0..N : \E a : QueuedAfter(a, w, q, n)}
           X == CHOOSE a : QueuedAfter(a, w, q, N)
<1>1. N \in Nat
  OBVIOUS
<1> HIDE DEF N
<1>2. 0 \in A
  <2> DEFINE a == [i \in 0..0 |-> [w |-> w, q |-> q]]
  <2>1. a = [i \in 0..0 |-> IF i = 0 THEN [w |-> w, q |-> q] ELSE QueuesOne(a[i - 1])]
    OBVIOUS
  <2>2. QueuedAfter(a, w, q, 0)
    BY <2>1 DEF QueuedAfter
  <2> HIDE DEF a
  <2> QED BY <1>1, <2>2
<1>3. ASSUME NEW n \in 1..N, n - 1 \in A PROVE n \in A
  <2>1. PICK h : QueuedAfter(h, w, q, n - 1)
    BY <1>3
  <2> DEFINE hstep(i) == IF i = 0 THEN [w |-> w, q |-> q] ELSE QueuesOne(h[i - 1])
  <2>2. \A i \in 0..n-1 : h[i] = hstep(i)
    <3>1. h = [i \in 0..n-1 |-> hstep(i)]
      BY <2>1 DEF QueuedAfter
    <3> HIDE DEF hstep
    <3> QED BY <3>1
  <2> DEFINE a == [i \in 0..n |-> IF i = n THEN hstep(n) ELSE h[i]]
             astep(i) == IF i = 0 THEN [w |-> w, q |-> q] ELSE QueuesOne(a[i - 1])
  <2>3. a[n] = hstep(n) /\ \A i \in 0..n-1 : a[i] = h[i]
    <3> HIDE DEF hstep
    <3> QED BY <1>1, <1>3
  <2>4. a = [i \in 0..n |-> a[i]]
    OBVIOUS
  <2> HIDE DEF a
  <2>5. ASSUME NEW i \in 0..n PROVE a[i] = astep(i)
    <3>1. i # 0 => i - 1 \in 0..n-1
      BY <1>1, <1>3
    <3>2. a[i] = hstep(i)
      <4>1. i = n \/ i \in 0..n-1
        BY <1>1, <1>3
      <4> HIDE DEF hstep
      <4> QED BY <4>1, <2>2, <2>3
    <3>3. i # 0 => a[i - 1] = h[i - 1]
      BY <3>1, <2>3
    <3> QED BY <3>2, <3>3
  <2>6. a = [i \in 0..n |-> astep(i)]
    <3> HIDE DEF astep
    <3> QED BY <2>4, <2>5
  <2>7. QueuedAfter(a, w, q, n)
    BY <2>6 DEF QueuedAfter
  <2> QED BY <2>7, <1>1, <1>3
<1>4. N \in A
  <2> HIDE DEF A
  <2> QED BY <1>1, <1>2, <1>3, UpTo
<1>5. \E a : QueuedAfter(a, w, q, N)
  BY <1>4
<1>6. QueuedAfter(X, w, q, N)
  BY <1>5
<1>7. QueueAll(w, q) = X[N].q
  BY DEF QueueAll, QueuedAfter, QueuesOne, N
<1> HIDE DEF X
<1> DEFINE xstep(i) == IF i = 0 THEN [w |-> w, q |-> q] ELSE QueuesOne(X[i - 1])
<1>8. \A i \in 0..N : X[i] = xstep(i)
  <2>1. X = [i \in 0..N |-> xstep(i)]
    BY <1>6 DEF QueuedAfter
  <2> HIDE DEF xstep
  <2> QED BY <2>1
<1>9. 0 \in 0..N /\ \A i \in 1..N : i \in 0..N /\ i # 0
  BY <1>1
<1>10. X[0] = [w |-> w, q |-> q] /\ \A i \in 1..N : X[i] = QueuesOne(X[i - 1])
  BY <1>8, <1>9
<1>11. QueuesEach(X, w, q)
  BY <1>7, <1>10 DEF N, QueuesEach
<1> QED BY <1>11

\* The buffers of a queue and of a display list, one after the other.
InQueue(q) == {q[i] : i \in DOMAIN q}
InList(w) == {e.buf : e \in w}
Stacked(w, q, h) ==
  Arranged(w, h) /\ Rising(q, h) /\ \A b \in InQueue(q), e \in w : h[b] < h[e.buf]
Typed(w, q, B) ==
  IsFiniteSet(w) /\ (\A e \in w : e.buf \in B /\ e.poc \in Int) /\ q \in Seq(B)

\* ih264_disp_mgr_add puts a buffer at the end, unless it is queued.
Joins(r, q, b, B) ==
  /\ r \in Seq(B) /\ InQueue(r) = InQueue(q) \cup {b} /\ Len(q) \in Nat
  /\ b \notin InQueue(q) =>
       /\ Len(r) = Len(q) + 1 /\ r[Len(q) + 1] = b
       /\ \A i \in 1..Len(q) : r[i] = q[i]
LEMMA EnqueueFacts ==
  ASSUME NEW B, NEW q \in Seq(B), NEW b \in B
  PROVE  Joins(Enqueue(q, b), q, b, B)
<1>1. /\ DOMAIN q = 1..Len(q) /\ Len(q) \in Nat
  OBVIOUS
<1>2. CASE \E i \in DOMAIN q : q[i] = b
  <2>1. Enqueue(q, b) = q /\ b \in InQueue(q)
    BY <1>2 DEF Enqueue, InQueue
  <2> QED BY <1>1, <2>1 DEF Joins
<1>3. CASE ~ \E i \in DOMAIN q : q[i] = b
  <2>1. Enqueue(q, b) = Append(q, b)
    BY <1>3 DEF Enqueue
  <2> DEFINE r == Append(q, b)
  <2>2. /\ r \in Seq(B) /\ Len(r) = Len(q) + 1 /\ r[Len(q) + 1] = b /\ DOMAIN r = 1..Len(q) + 1
        /\ \A i \in 1..Len(q) : r[i] = q[i]
    OBVIOUS
  <2> HIDE DEF r
  <2>3. InQueue(r) = InQueue(q) \cup {b}
    <3>1. \A i \in 1..Len(q) + 1 : i \in 1..Len(q) \/ i = Len(q) + 1
      BY <1>1
    <3>2. 1..Len(q) \subseteq 1..Len(q) + 1 /\ Len(q) + 1 \in 1..Len(q) + 1
      BY <1>1
    <3> QED BY <1>1, <2>2, <3>1, <3>2 DEF InQueue
  <2>4. Joins(r, q, b, B)
    BY <1>1, <2>2, <2>3 DEF Joins
  <2> QED BY <2>1, <2>4 DEF r
<1> QED BY <1>2, <1>3

\* The first that waits leaves the list for the queue.
Moves(w, q, r, B) ==
  /\ Typed(r.w, r.q, B) /\ Cardinality(w) \in Nat /\ Cardinality(r.w) = Cardinality(w) - 1
  /\ First(w) \in w /\ InQueue(r.q) = InQueue(q) \cup {First(w).buf}
  /\ InQueue(r.q) \cup InList(r.w) = InQueue(q) \cup InList(w)
  /\ \A h \in [B -> Int] :
       Stacked(w, q, h) =>
         /\ Stacked(r.w, r.q, h) /\ Len(r.q) = Len(q) + 1
         /\ \A e \in r.w : First(w).poc < e.poc /\ h[First(w).buf] < h[e.buf]
LEMMA QueueOne ==
  ASSUME NEW B, NEW w, NEW q, Typed(w, q, B), w # {}, NEW r, r.w = w \ {First(w)},
         r.q = Enqueue(q, First(w).buf)
  PROVE  Moves(w, q, r, B)
<1> DEFINE f == First(w)
<1>1. f \in w /\ (\A e \in w : f.poc <= e.poc) /\ f.buf \in B
  BY FirstIs DEF Typed
<1> HIDE DEF f
<1>2. IsFiniteSet(r.w) /\ Cardinality(w) \in Nat /\ Cardinality(r.w) = Cardinality(w) - 1
  BY <1>1, FS_RemoveElement, FS_CardinalityType DEF Typed, f
<1>3. q \in Seq(B) /\ r.q = Enqueue(q, f.buf)
  BY DEF Typed, f
<1>4. /\ r.q \in Seq(B) /\ InQueue(r.q) = InQueue(q) \cup {f.buf} /\ Len(q) \in Nat
      /\ f.buf \notin InQueue(q) =>
           /\ Len(r.q) = Len(q) + 1 /\ r.q[Len(q) + 1] = f.buf
           /\ \A i \in 1..Len(q) : r.q[i] = q[i]
  <2>1. Joins(r.q, q, f.buf, B)
    BY <1>1, <1>3, EnqueueFacts
  <2> QED BY <2>1 DEF Joins
<1>5. Typed(r.w, r.q, B)
  BY <1>2, <1>4 DEF Typed
<1>6. InQueue(r.q) \cup InList(r.w) = InQueue(q) \cup InList(w)
  <2>1. InList(w) = InList(r.w) \cup {f.buf}
    BY <1>1 DEF InList, f
  <2> QED BY <1>4, <2>1
<1>7. ASSUME NEW h \in [B -> Int], Stacked(w, q, h)
      PROVE  /\ Stacked(r.w, r.q, h) /\ Len(r.q) = Len(q) + 1
             /\ \A e \in r.w : f.poc < e.poc /\ h[f.buf] < h[e.buf]
  <2>1. /\ \A e, g \in w : e # g => \/ e.poc < g.poc /\ h[e.buf] < h[g.buf]
                                    \/ g.poc < e.poc /\ h[g.buf] < h[e.buf]
        /\ \A i, j \in DOMAIN q : i < j => h[q[i]] < h[q[j]]
        /\ \A b \in InQueue(q), e \in w : h[b] < h[e.buf]
    BY <1>7 DEF Stacked, Arranged, Rising
  <2>2. h[f.buf] \in Int
    BY <1>1
  <2>3. f.buf \notin InQueue(q)
    BY <1>1, <2>1, <2>2
  <2>4. \A e \in r.w : f.poc < e.poc /\ h[f.buf] < h[e.buf]
    <3> SUFFICES ASSUME NEW e \in w, e # f PROVE f.poc < e.poc /\ h[f.buf] < h[e.buf]
      BY DEF f
    <3>1. f.poc <= e.poc /\ f.poc \in Int /\ e.poc \in Int
      BY <1>1 DEF Typed
    <3>2. (f.poc < e.poc /\ h[f.buf] < h[e.buf]) \/ e.poc < f.poc
      BY <1>1, <2>1
    <3> QED BY <3>1, <3>2
  <2>5. Arranged(r.w, h)
    BY <2>1 DEF Arranged
  <2>6. Rising(r.q, h)
    <3> SUFFICES ASSUME NEW i \in 1..Len(q) + 1, NEW j \in 1..Len(q) + 1, i < j
                 PROVE  h[r.q[i]] < h[r.q[j]]
      <4>1. DOMAIN r.q = 1..Len(q) + 1
        BY <1>4, <2>3
      <4> QED BY <4>1 DEF Rising
    <3>0. PICK n \in Nat : n = Len(q)
      BY <1>4
    <3>1. i \in 1..Len(q) /\ (j \in 1..Len(q) \/ j = Len(q) + 1) /\ DOMAIN q = 1..Len(q)
      <4>1. i \in 1..n + 1 /\ j \in 1..n + 1 /\ i < j
        BY <3>0
      <4>2. i \in 1..n /\ (j \in 1..n \/ j = n + 1)
        BY <4>1
      <4>3. DOMAIN q = 1..Len(q)
        BY <1>3
      <4> QED BY <3>0, <4>2, <4>3
    <3>2. r.q[i] = q[i] /\ q[i] \in InQueue(q)
      BY <1>4, <2>3, <3>1 DEF InQueue
    <3>3. CASE j = Len(q) + 1
      BY <1>1, <1>4, <2>1, <2>3, <3>2, <3>3
    <3>4. CASE j \in 1..Len(q)
      BY <1>4, <2>1, <2>3, <3>1, <3>2, <3>4
    <3> QED BY <3>1, <3>3, <3>4
  <2>7. \A b \in InQueue(r.q), e \in r.w : h[b] < h[e.buf]
    BY <1>4, <2>1, <2>4
  <2> QED BY <1>4, <2>3, <2>4, <2>5, <2>6, <2>7 DEF Stacked
<1> QED BY <1>1, <1>2, <1>4, <1>5, <1>6, <1>7 DEF f, Moves

\* ih264d_release_display_bufs: everything is queued, in order.
AllQueued(w, q, r, B) ==
  /\ r \in Seq(B) /\ InQueue(r) = InQueue(q) \cup InList(w)
  /\ Cardinality(w) \in Nat /\ Len(q) \in Nat
  /\ \A h \in [B -> Int] : Stacked(w, q, h) => Rising(r, h) /\ Len(r) = Len(q) + Cardinality(w)
LEMMA QueueAllFacts ==
  ASSUME NEW B, NEW w, NEW q, Typed(w, q, B)
  PROVE  AllQueued(w, q, QueueAll(w, q), B)
<1>0. Cardinality(w) \in Nat /\ Len(q) \in Nat
  BY FS_CardinalityType DEF Typed
<1>1. PICK a : QueuesEach(a, w, q)
  BY <1>0, QueueSteps
<1> DEFINE N == Cardinality(w)
           Good(r, i) ==
             /\ Typed(r.w, r.q, B) /\ Cardinality(r.w) = N - i
             /\ InQueue(r.q) \cup InList(r.w) = InQueue(q) \cup InList(w)
             /\ \A h \in [B -> Int] :
                  Stacked(w, q, h) => Stacked(r.w, r.q, h) /\ Len(r.q) = Len(q) + i
           A == {i \in 0..N : Good(a[i], i)}
<1>2. 0 \in A
  <2>1. a[0].w = w /\ a[0].q = q
    BY <1>1 DEF QueuesEach
  <2> QED BY <1>0, <2>1
<1>3. ASSUME NEW i \in 1..N, i - 1 \in A PROVE i \in A
  <2> DEFINE r == a[i - 1]
             t == a[i]
  <2>1. /\ Typed(r.w, r.q, B) /\ Cardinality(r.w) = N - (i - 1)
        /\ InQueue(r.q) \cup InList(r.w) = InQueue(q) \cup InList(w)
        /\ \A h \in [B -> Int] :
             Stacked(w, q, h) => Stacked(r.w, r.q, h) /\ Len(r.q) = Len(q) + (i - 1)
    BY <1>3
  <2>2. t.w = r.w \ {First(r.w)} /\ t.q = Enqueue(r.q, First(r.w).buf)
    <3>1. t = QueuesOne(r)
      BY <1>1 DEF QueuesEach
    <3> HIDE DEF r, t
    <3> QED BY <3>1 DEF QueuesOne
  <2> HIDE DEF r, t, Good
  <2>3. r.w # {}
    <3>1. N - (i - 1) # 0
      BY <1>0
    <3> QED BY <2>1, <3>1, FS_EmptySet
  <2>4. /\ Typed(t.w, t.q, B) /\ Cardinality(t.w) = Cardinality(r.w) - 1
        /\ InQueue(t.q) \cup InList(t.w) = InQueue(r.q) \cup InList(r.w)
        /\ \A h \in [B -> Int] :
             Stacked(r.w, r.q, h) => Stacked(t.w, t.q, h) /\ Len(t.q) = Len(r.q) + 1
    <3>1. Moves(r.w, r.q, t, B)
      BY <2>1, <2>2, <2>3, QueueOne
    <3> QED BY <3>1 DEF Moves
  <2>5. Cardinality(t.w) = N - i /\ Len(q) + (i - 1) + 1 = Len(q) + i
    BY <1>0, <2>1, <2>4
  <2>6. \A h \in [B -> Int] :
          Stacked(w, q, h) => Stacked(t.w, t.q, h) /\ Len(t.q) = Len(q) + i
    BY <2>1, <2>4, <2>5
  <2>7. Good(t, i)
    BY <2>1, <2>4, <2>5, <2>6 DEF Good
  <2>8. i \in 0..N
    BY <1>0
  <2> QED BY <2>7, <2>8 DEF t
<1>4. N \in A
  <2> HIDE DEF A
  <2> QED BY <1>0, <1>2, <1>3, UpTo
<1>5. Good(a[N], N)
  BY <1>4
<1>6. a[N].w = {}
  <2>1. Cardinality(a[N].w) = 0 /\ IsFiniteSet(a[N].w)
    BY <1>0, <1>5 DEF Typed
  <2> QED BY <2>1, FS_EmptySet
<1>7. QueueAll(w, q) = a[N].q
  BY <1>1 DEF QueuesEach
<1>8. InList(a[N].w) = {}
  BY <1>6 DEF InList
<1> QED BY <1>0, <1>5, <1>7, <1>8 DEF Typed, Stacked, AllQueued

-----------------------------------------------------------------------------
(* The order of the stream. *)

\* Where the next picture p comes in display, and the stream t after it.
BeginsAnew(s, p, t) ==
  /\ p.key = S!Key(s.period + 1, 0) /\ p.ref
  /\ t.period = s.period + 1 /\ t.sent = {0} /\ t.last = 0 /\ t.fresh = FALSE
GoesOn(s, p, t, c) ==
  /\ s.fresh = FALSE /\ p.poc \notin s.sent /\ p.poc >= 1
  /\ \E q \in s.sent : p.poc <= q + Step(c)
  /\ Cardinality(Later(s.sent, p.poc)) <= c.reorder
  /\ p.key = S!Key(s.period, p.poc)
  /\ t.period = s.period /\ t.sent = s.sent \cup {p.poc} /\ t.fresh = FALSE
  /\ t.last = IF p.ref THEN p.poc ELSE s.last
  /\ ~ p.ref => Cardinality(Later(s.sent \cup {p.poc}, s.last)) <= c.trail

\* The order counts of a period are finitely many naturals.
LEMMA SentFacts ==
  ASSUME NEW s, NEW c, StreamOK(s, c)
  PROVE  IsFiniteSet(s.sent) /\ s.sent \subseteq Nat
<1>1. PICK n \in Nat : s.sent \subseteq 0..n
  BY DEF StreamOK
<1>2. IsFiniteSet(0..n)
  BY FS_Interval
<1>3. s.sent \in SUBSET (0..n)
  BY <1>1
<1>4. IsFiniteSet(s.sent)
  BY <1>2, <1>3, FS_Subset
<1> QED BY <1>1, <1>4

\* The module CodedStream counts with the same operator.
LEMMA CountSame == \A X : S!Cardinality(X) = Cardinality(X)
BY DEF S!Cardinality, Cardinality

\* An order count the next picture may have is at most Step above one sent.
LEMMA NextPocFacts ==
  ASSUME NEW s, NEW c \in Configs, StreamOK(s, c), s.fresh = FALSE, NEW k \in S!NextPocs(s, c)
  PROVE  /\ k \notin s.sent /\ k \in Nat /\ k >= 1 /\ \E q \in s.sent : k <= q + Step(c)
         /\ Cardinality(Later(s.sent, k)) <= c.reorder
<1> DEFINE top == S!Max(s.sent)
<1>1. s.sent # {} /\ \E n \in Nat : s.sent \subseteq 0..n
  BY DEF StreamOK
<1>2. top \in s.sent /\ top \in Nat
  <2>1. D!Max(s.sent) \in s.sent
    BY <1>1, MaxFacts
  <2>2. top = D!Max(s.sent)
    BY DEF S!Max, D!Max
  <2> QED BY <1>1, <2>1, <2>2
<1> DEFINE C(poc) == S!Cardinality({q \in s.sent : q > poc})
<1>0. S!NextPocs(s, c) = {poc \in 1..top + 1 + c.reorder : poc \notin s.sent /\ C(poc) <= c.reorder}
  BY DEF S!NextPocs
<1>6. C(k) = Cardinality(Later(s.sent, k))
  BY CountSame DEF Later
<1> HIDE DEF top, C
<1>3. k \in 1..top + 1 + c.reorder /\ k \notin s.sent /\ Cardinality(Later(s.sent, k)) <= c.reorder
  BY <1>0, <1>6
<1>4. c.reorder \in Nat
  BY ConfigFacts
<1>5. k <= top + Step(c) /\ k \in Nat /\ k >= 1
  BY <1>2, <1>3, <1>4 DEF Step
<1> QED BY <1>2, <1>3, <1>5

\* One above the last is such an order count.
LEMMA TopFacts ==
  ASSUME NEW s, NEW c \in Configs, StreamOK(s, c), s.fresh = FALSE
  PROVE  S!Max(s.sent) + 1 \in Nat /\ S!Max(s.sent) + 1 # 0
<1>1. s.sent # {} /\ \E n \in Nat : s.sent \subseteq 0..n
  BY DEF StreamOK
<1>2. D!Max(s.sent) \in s.sent
  BY <1>1, MaxFacts
<1>3. S!Max(s.sent) = D!Max(s.sent)
  BY DEF S!Max, D!Max
<1>4. S!Max(s.sent) \in Nat
  BY <1>1, <1>2, <1>3
<1> QED BY <1>4

\* Every picture begins a period or goes on in one.
LEMMA NextPlace ==
  ASSUME NEW s, NEW c \in Configs, StreamOK(s, c), NEW p \in S!Pictures(s, c),
         NEW t, t = S!Advance(s, p, c)
  PROVE  /\ Restart(p) => BeginsAnew(s, p, t) /\ (p.poc = 0 => p.idr)
         /\ ~ Restart(p) => GoesOn(s, p, t, c)
         /\ p.poc \in Nat /\ (s.fresh => p.idr)
<1>1. /\ t.period = IF Restart(p) THEN s.period + 1 ELSE s.period
      /\ t.sent = IF Restart(p) THEN {0} ELSE s.sent \cup {p.poc}
      /\ t.last = IF Restart(p) THEN 0 ELSE IF p.ref THEN p.poc ELSE s.last
      /\ t.fresh = FALSE
  BY DEF S!Advance, Restart
<1>2. NextOf(s, p, c)
  BY PictureFacts
<1>3. p.poc \in Nat /\ (Restart(p) => p.ref)
  <2>1. ~ p.ref => p.cmds = <<>> /\ ~ p.idr
    BY <1>2 DEF NextOf
  <2>2. ~ p.ref => ~ Restart(p)
    BY <2>1, NoResets DEF Restart
  <2>3. Restart(p) \in BOOLEAN /\ p.ref \in BOOLEAN
    BY <1>2 DEF NextOf, S!AnyPicture, Restart, S!Resets
  <2> QED BY <1>2, <2>2, <2>3 DEF NextOf
<1>4. CASE p \in S!IdrPictures(s, c)
  <2>1. PICK isLong : p = S!Coded(s, TRUE, TRUE, isLong, FALSE, <<>>, 0)
    BY <1>4 DEF S!IdrPictures
  <2>2. p.idr = TRUE /\ p.key = S!Key(s.period + 1, 0)
    BY <2>1 DEF S!Coded
  <2>3. Restart(p)
    BY <2>2 DEF Restart
  <2> QED BY <1>1, <1>3, <2>2, <2>3 DEF BeginsAnew
<1>5. CASE s.fresh = FALSE /\ p \in S!RefPictures(s, c)
  <2> DEFINE q(cmds, poc) == S!Coded(s, FALSE, TRUE, FALSE, cmds # <<>>, cmds, poc)
             pocs(cmds) == IF S!Resets(cmds) THEN {S!Max(s.sent) + 1} ELSE S!NextPocs(s, c)
  <2>1. \E cmds : \E poc \in pocs(cmds) : p = q(cmds, poc)
    <3> DEFINE fn == q(<<>>, 0).fn
               lists0 == S!CommandLists(s.mk, fn, S!Key(s.period, PocSpan - 1), c.cmds)
               fits(cmds) == S!Size(S!Mark(s.mk, cmds # <<>>, cmds, fn, -1, c.numRef)) <= c.numRef
    <3>1. S!RefPictures(s, c) = IF fn \in {e.fn : e \in s.mk.short} THEN {}
                                ELSE UNION {{q(cmds, poc) : poc \in pocs(cmds)} :
                                              cmds \in {l \in lists0 : fits(l)}}
      BY DEF S!RefPictures
    <3> HIDE DEF q, fn, lists0, pocs, fits
    <3>2. fn \notin {e.fn : e \in s.mk.short}
      BY <1>5, <3>1
    <3> QED BY <1>5, <3>1, <3>2
  <2>2. PICK cmds : \E poc \in pocs(cmds) : p = q(cmds, poc)
    BY <2>1
  <2>3. PICK poc \in pocs(cmds) : p = q(cmds, poc)
    BY <2>2
  <2>4. /\ p.idr = FALSE /\ p.ref = TRUE /\ p.cmds = cmds /\ p.poc = poc
        /\ p.key = IF S!Resets(cmds) THEN S!Key(s.period + 1, 0) ELSE S!Key(s.period, poc)
    BY <2>3 DEF S!Coded
  <2>5. CASE S!Resets(cmds)
    <3>1. Restart(p) /\ p.poc # 0 /\ p.key = S!Key(s.period + 1, 0)
      BY <1>5, <2>4, <2>5, TopFacts DEF Restart
    <3> QED BY <1>1, <1>3, <1>5, <3>1 DEF BeginsAnew
  <2>6. CASE ~ S!Resets(cmds)
    <3>1. ~ Restart(p) /\ p.poc \in S!NextPocs(s, c) /\ p.key = S!Key(s.period, p.poc)
      BY <2>4, <2>6 DEF Restart
    <3>2. /\ p.poc \notin s.sent /\ p.poc >= 1 /\ \E x \in s.sent : p.poc <= x + Step(c)
          /\ Cardinality(Later(s.sent, p.poc)) <= c.reorder
      BY <1>5, <3>1, NextPocFacts
    <3> QED BY <1>1, <1>3, <1>5, <2>4, <3>1, <3>2 DEF GoesOn
  <2> QED BY <2>5, <2>6
<1>6. CASE s.fresh = FALSE /\ p \in S!OtherPictures(s, c)
  <2> DEFINE trail(poc) == S!Cardinality({q \in s.sent \cup {poc} : q > s.last})
             o(poc) == S!Coded(s, FALSE, FALSE, FALSE, FALSE, <<>>, poc)
  <2>0. S!OtherPictures(s, c) =
          IF c.quiet /\ s.reset THEN {}
          ELSE {o(poc) : poc \in {k \in S!NextPocs(s, c) : trail(k) <= c.trail}}
    BY DEF S!OtherPictures
  <2>7. \A poc : trail(poc) = Cardinality(Later(s.sent \cup {poc}, s.last))
    BY CountSame DEF Later
  <2>8. PICK poc \in S!NextPocs(s, c) : p = o(poc) /\ trail(poc) <= c.trail
    <3> HIDE DEF trail, o
    <3> QED BY <1>6, <2>0
  <2>1. /\ p = S!Coded(s, FALSE, FALSE, FALSE, FALSE, <<>>, poc)
        /\ Cardinality(Later(s.sent \cup {poc}, s.last)) <= c.trail
    BY <2>7, <2>8
  <2> HIDE DEF trail, o
  <2>2. /\ p.idr = FALSE /\ p.ref = FALSE /\ p.cmds = <<>> /\ p.poc = poc
        /\ p.key = S!Key(s.period, poc)
    BY <2>1, NoResets DEF S!Coded
  <2>3. ~ Restart(p)
    BY <2>2, NoResets DEF Restart
  <2>4. /\ p.poc \notin s.sent /\ p.poc >= 1 /\ \E x \in s.sent : p.poc <= x + Step(c)
        /\ Cardinality(Later(s.sent, p.poc)) <= c.reorder
    BY <1>6, <2>2, NextPocFacts
  <2> QED BY <1>1, <1>3, <1>6, <2>1, <2>2, <2>3, <2>4 DEF GoesOn
<1>7. s.fresh \in BOOLEAN
  BY DEF StreamOK
<1>8. p \in S!IdrPictures(s, c) \/ (s.fresh = FALSE /\ p \in S!RefPictures(s, c) \cup S!OtherPictures(s, c))
  BY <1>7 DEF S!Pictures
<1> QED BY <1>4, <1>5, <1>6, <1>8

\* What has been passed stays passed, and the next picture comes after it.
LEMMA PassedStays ==
  ASSUME NEW s, NEW c \in Configs, c = conf.c, StreamOK(s, c), NEW p \in S!Pictures(s, c),
         NEW x \in Int, PassedIn(x, s)
  PROVE  PassedIn(x, S!Advance(s, p, c)) /\ x < p.key
<1> DEFINE t == S!Advance(s, p, c)
<1>1. /\ Restart(p) => BeginsAnew(s, p, t)
      /\ ~ Restart(p) => GoesOn(s, p, t, c)
      /\ p.poc \in Nat
  BY NextPlace
<1> HIDE DEF t
<1>2. s.period \in Nat /\ IsFiniteSet(s.sent) /\ s.sent \subseteq Nat
  BY SentFacts DEF StreamOK
<1>3. /\ PocSpan \in Nat /\ PocSpan > 0
      /\ S!Key(s.period, 0) \in Int /\ S!Key(s.period + 1, 0) = S!Key(s.period, 0) + PocSpan
      /\ \A k \in Int : S!Key(s.period, k) = S!Key(s.period, 0) + k
      /\ S!Key(s.period + 1 + 1, 0) = S!Key(s.period + 1, 0) + PocSpan
  <2>1. s.period + 1 \in Nat
    BY <1>2
  <2>2. S!Key(s.period + 1 + 1, 0) = S!Key(s.period + 1, 0) + PocSpan
    BY <2>1, KeyFacts
  <2> QED BY <1>2, <2>2, KeyFacts
<1>4. CASE Restart(p)
  <2>1. BeginsAnew(s, p, t)
    BY <1>1, <1>4
  <2>2. x < S!Key(s.period + 1, 0) /\ p.key = S!Key(s.period + 1, 0) /\ t.period = s.period + 1
    BY <2>1 DEF PassedIn, BeginsAnew
  <2>3. S!Key(s.period + 1, 0) \in Int /\ S!Key(s.period + 1 + 1, 0) \in Int
    BY <1>3
  <2>4. x < S!Key(s.period + 1 + 1, 0)
    BY <1>3, <2>2, <2>3
  <2>5. PassedIn(x, t)
    BY <2>2, <2>4 DEF PassedIn
  <2> QED BY <2>2, <2>5 DEF t
<1>5. CASE ~ Restart(p)
  <2>1. /\ s.fresh = FALSE /\ p.poc \notin s.sent /\ p.poc >= 1
        /\ Cardinality(Later(s.sent, p.poc)) <= c.reorder
        /\ p.key = S!Key(s.period, p.poc)
        /\ t.period = s.period /\ t.sent = s.sent \cup {p.poc} /\ t.fresh = FALSE
    BY <1>1, <1>5 DEF GoesOn
  <2>2. p.key = S!Key(s.period, 0) + p.poc
    BY <1>1, <1>3, <2>1
  <2>3. x < S!Key(s.period + 1, 0)
    BY DEF PassedIn
  <2>4. CASE x < S!Key(s.period, 0)
    <3>1. PassedIn(x, t)
      BY <2>1, <2>3, <2>4 DEF PassedIn
    <3>2. x < p.key
      BY <1>1, <1>3, <2>2, <2>4
    <3> QED BY <3>1, <3>2 DEF t
  <2>5. CASE ~ (x < S!Key(s.period, 0))
    <3>1. PICK k \in s.sent : x = S!Key(s.period, k) /\ Cardinality(NotBefore(s.sent, k)) > c.reorder
      BY <2>1, <2>5 DEF PassedIn
    <3>2. k \in Nat /\ k # p.poc /\ x = S!Key(s.period, 0) + k /\ c.reorder \in Nat
      BY <1>2, <1>3, <2>1, <3>1, ConfigFacts
    <3>3. ~ (k > p.poc)
      <4> SUFFICES ASSUME k > p.poc PROVE FALSE
        OBVIOUS
      <4>1. NotBefore(s.sent, k) \subseteq Later(s.sent, p.poc)
        BY <1>1, <1>2, <3>2 DEF NotBefore, Later
      <4>2. IsFiniteSet(Later(s.sent, p.poc))
        <5>1. Later(s.sent, p.poc) \subseteq s.sent
          BY DEF Later
        <5> QED BY <1>2, <5>1, PartNoMore
      <4>3. /\ Cardinality(NotBefore(s.sent, k)) <= Cardinality(Later(s.sent, p.poc))
            /\ Cardinality(NotBefore(s.sent, k)) \in Nat /\ Cardinality(Later(s.sent, p.poc)) \in Nat
        BY <4>1, <4>2, PartNoMore
      <4> QED BY <2>1, <3>1, <3>2, <4>3
    <3>4. x < p.key
      BY <1>1, <1>3, <2>2, <3>2, <3>3
    <3>5. Cardinality(NotBefore(t.sent, k)) > c.reorder
      <4>1. NotBefore(s.sent, k) \subseteq NotBefore(t.sent, k) /\ NotBefore(t.sent, k) \subseteq t.sent
        BY <2>1 DEF NotBefore
      <4>2. IsFiniteSet(t.sent)
        BY <1>2, <2>1, FS_AddElement
      <4>3. IsFiniteSet(NotBefore(t.sent, k))
        BY <4>1, <4>2, PartNoMore
      <4>4. /\ Cardinality(NotBefore(s.sent, k)) <= Cardinality(NotBefore(t.sent, k))
            /\ Cardinality(NotBefore(s.sent, k)) \in Nat /\ Cardinality(NotBefore(t.sent, k)) \in Nat
        BY <4>1, <4>3, PartNoMore
      <4> QED BY <3>1, <3>2, <4>4
    <3>6. PassedIn(x, t)
      <4>1. k \in t.sent
        BY <2>1
      <4> QED BY <2>1, <2>3, <3>1, <3>5, <4>1 DEF PassedIn
    <3> QED BY <3>4, <3>6 DEF t
  <2> QED BY <2>4, <2>5
<1> QED BY <1>4, <1>5

-----------------------------------------------------------------------------
(* The flags of the buffers. *)

\* A buffer with flags v without one of them, and flags that display and
\* reference use.
Freed(v, flag) == IF v \ {flag} = {"busy"} THEN {} ELSE v \ {flag}
Known(v) == v \subseteq {"busy", "REF", "IO"}

\* A flag that is released.
LEMMA FreedFacts ==
  ASSUME NEW v, Known(v)
  PROVE  /\ Known(Freed(v, "REF")) /\ Freed(v, "REF") # {"busy"} /\ "REF" \notin Freed(v, "REF")
         /\ "IO" \in Freed(v, "REF") <=> "IO" \in v
         /\ Known(Freed(v, "IO")) /\ Freed(v, "IO") # {"busy"} /\ "IO" \notin Freed(v, "IO")
         /\ "REF" \in Freed(v, "IO") <=> "REF" \in v
BY DEF Freed, Known

\* What the operations do to each picture buffer.
LEMMA PicOps ==
  ASSUME NEW m \in P!Managers
  PROVE  /\ \A b, flag : \A d \in conf.pics :
              P!Release(m, b, flag)[d] = IF d = b THEN Freed(m[d], flag) ELSE m[d]
         /\ \A B : \A d \in conf.pics :
              Unref(m, B)[d] = IF d \in B THEN Freed(m[d], "REF") ELSE m[d]
         /\ \A b \in conf.pics : \A flag \in P!Flags : P!SetStatus(m, b, flag) \in P!Managers
         /\ \A b, flag : P!Release(m, b, flag) \in P!Managers
         /\ \A B : Unref(m, B) \in P!Managers
<1>1. m \in [conf.pics -> SUBSET P!Flags]
  BY DEF P!Managers
<1>2. ASSUME NEW b, NEW flag, NEW d \in conf.pics
      PROVE  P!Release(m, b, flag)[d] = IF d = b THEN Freed(m[d], flag) ELSE m[d]
  BY <1>1 DEF P!Release, Freed
<1>3. ASSUME NEW B, NEW d \in conf.pics
      PROVE  Unref(m, B)[d] = IF d \in B THEN Freed(m[d], "REF") ELSE m[d]
  <2>1. P!Release(m, d, "REF")[d] = Freed(m[d], "REF")
    BY <1>2
  <2> QED BY <2>1 DEF Unref
<1>5. \A b \in conf.pics : \A flag \in P!Flags : P!SetStatus(m, b, flag) \in P!Managers
  BY StatusKeeps DEF Keeps
<1>6. \A b, flag : P!Release(m, b, flag) \in P!Managers
  BY ReleaseKeeps DEF Keeps
<1>7. \A B : Unref(m, B) \in P!Managers
  BY UnrefKeeps DEF Keeps
<1> QED BY <1>2, <1>3, <1>5, <1>6, <1>7

\* And to each motion vector buffer.
LEMMA MvOps ==
  ASSUME NEW m \in M!Managers
  PROVE  /\ \A b, flag : \A v \in conf.mvs :
              M!Release(m, b, flag)[v] = IF v = b THEN Freed(m[v], flag) ELSE m[v]
         /\ \A B : \A v \in conf.mvs :
              UnrefMv(m, B)[v] = IF \E b \in B : mvOf[b] = v THEN Freed(m[v], "REF") ELSE m[v]
         /\ \A b \in conf.mvs : \A flag \in M!Flags : M!SetStatus(m, b, flag) \in M!Managers
         /\ \A b \in conf.mvs : \A flag : M!Release(m, b, flag) \in M!Managers
         /\ \A B : UnrefMv(m, B) \in M!Managers
<1>1. m \in [conf.mvs -> SUBSET M!Flags]
  BY DEF M!Managers
<1>2. ASSUME NEW b, NEW flag, NEW v \in conf.mvs
      PROVE  M!Release(m, b, flag)[v] = IF v = b THEN Freed(m[v], flag) ELSE m[v]
  BY <1>1 DEF M!Release, Freed
<1>3. ASSUME NEW B, NEW v \in conf.mvs
      PROVE  UnrefMv(m, B)[v] = IF \E b \in B : mvOf[b] = v THEN Freed(m[v], "REF") ELSE m[v]
  <2>1. M!Release(m, v, "REF")[v] = Freed(m[v], "REF")
    BY <1>2
  <2> QED BY <2>1 DEF UnrefMv
<1>0. \A v \in conf.mvs : \A flag : Freed(m[v], flag) \in SUBSET M!Flags
  BY <1>1 DEF Freed
<1>5. \A b \in conf.mvs : \A flag \in M!Flags : M!SetStatus(m, b, flag) \in M!Managers
  BY <1>1 DEF M!SetStatus, M!Managers
<1>6. ASSUME NEW b \in conf.mvs, NEW flag PROVE M!Release(m, b, flag) \in M!Managers
  <2>1. M!Release(m, b, flag) = [m EXCEPT ![b] = Freed(m[b], flag)]
    BY <1>1 DEF M!Release, Freed
  <2>2. Freed(m[b], flag) \in SUBSET M!Flags
    BY <1>0
  <2> QED BY <1>1, <2>1, <2>2 DEF M!Managers
<1>7. ASSUME NEW B PROVE UnrefMv(m, B) \in M!Managers
  <2>1. UnrefMv(m, B) = [v \in conf.mvs |-> UnrefMv(m, B)[v]]
    BY DEF UnrefMv
  <2>2. \A v \in conf.mvs : UnrefMv(m, B)[v] \in SUBSET M!Flags
    BY <1>0, <1>1, <1>3
  <2> QED BY <2>1, <2>2 DEF M!Managers
<1> QED BY <1>2, <1>3, <1>5, <1>6, <1>7

\* The flags of buffer d at the end of a picture.
EndFlags(n, d, p, first, then) ==
  /\ Known(n) /\ n # {"busy"}
  /\ "REF" \in n <=> (("REF" \in pic[d] /\ d \notin first) \/ (d = cur.buf /\ p.ref)) /\ d \notin then
  /\ "IO" \in n <=> ("IO" \in pic[d] \/ d = cur.buf)
                    /\ ~ (EndOut(p) # NoBuf /\ ~ conf.c.shared /\ d = EndOut(p))

\* The buffers at the end of a picture.
LEMMA EndPicIs ==
  ASSUME pic \in P!Managers, cur.buf \in conf.pics, NEW p, NEW first, NEW then, NEW d \in conf.pics,
         Known(pic[d]), d # cur.buf => pic[d] # {"busy"}
  PROVE  EndFlags(EndPic(p, first, then)[d], d, p, first, then)
<1> DEFINE b == cur.buf
           m1 == Unref(pic, first)
           m2 == IF p.ref THEN P!SetStatus(m1, b, "REF") ELSE m1
           m3 == P!SetStatus(m2, b, "IO")
           m4 == IF EndOut(p) = NoBuf \/ conf.c.shared THEN m3
                 ELSE P!Release(m3, EndOut(p), "IO")
           m5 == Unref(m4, then)
<1>1. EndPic(p, first, then) = m5
  BY DEF EndPic
<1>2. m1 \in P!Managers /\ m1[d] = IF d \in first THEN Freed(pic[d], "REF") ELSE pic[d]
  BY PicOps
<1> HIDE DEF m1
<1>0. "REF" \in P!Flags /\ "IO" \in P!Flags /\ b \in conf.pics
  BY DEF P!Flags
<1> HIDE DEF b
<1>3. m2 \in P!Managers /\ m2[d] = IF d = b /\ p.ref THEN m1[d] \cup {"REF"} ELSE m1[d]
  <2>1. P!SetStatus(m1, b, "REF") \in P!Managers
    BY <1>0, <1>2, PicOps
  <2>2. P!SetStatus(m1, b, "REF")[d] = IF d = b THEN m1[d] \cup {"REF"} ELSE m1[d]
    BY <1>0, <1>2 DEF P!SetStatus, P!Managers
  <2> QED BY <1>2, <2>1, <2>2
<1> HIDE DEF m2
<1>4. m3 \in P!Managers /\ m3[d] = IF d = b THEN m2[d] \cup {"IO"} ELSE m2[d]
  <2>1. P!SetStatus(m2, b, "IO") \in P!Managers
    BY <1>0, <1>3, PicOps
  <2>2. P!SetStatus(m2, b, "IO")[d] = IF d = b THEN m2[d] \cup {"IO"} ELSE m2[d]
    BY <1>0, <1>3 DEF P!SetStatus, P!Managers
  <2> QED BY <2>1, <2>2
<1> HIDE DEF m3
<1>5. m4 \in P!Managers
      /\ m4[d] = IF EndOut(p) # NoBuf /\ ~ conf.c.shared /\ d = EndOut(p) THEN Freed(m3[d], "IO") ELSE m3[d]
  BY <1>4, PicOps
<1> HIDE DEF m4
<1>6. m5[d] = IF d \in then THEN Freed(m4[d], "REF") ELSE m4[d]
  BY <1>5, PicOps
<1> HIDE DEF m5
<1>7. /\ Known(m1[d]) /\ (d # b => m1[d] # {"busy"})
      /\ "REF" \in m1[d] <=> "REF" \in pic[d] /\ d \notin first
      /\ "IO" \in m1[d] <=> "IO" \in pic[d]
  BY <1>2, FreedFacts DEF b
<1>8. /\ Known(m2[d]) /\ (d # b => m2[d] # {"busy"})
      /\ "REF" \in m2[d] <=> ("REF" \in pic[d] /\ d \notin first) \/ (d = b /\ p.ref)
      /\ "IO" \in m2[d] <=> "IO" \in pic[d]
  BY <1>3, <1>7 DEF Known
<1>9. /\ Known(m3[d]) /\ m3[d] # {"busy"}
      /\ "REF" \in m3[d] <=> ("REF" \in pic[d] /\ d \notin first) \/ (d = b /\ p.ref)
      /\ "IO" \in m3[d] <=> "IO" \in pic[d] \/ d = b
  BY <1>4, <1>8 DEF Known
<1>10. /\ Known(m4[d]) /\ m4[d] # {"busy"}
       /\ "REF" \in m4[d] <=> ("REF" \in pic[d] /\ d \notin first) \/ (d = b /\ p.ref)
       /\ "IO" \in m4[d] <=> ("IO" \in pic[d] \/ d = b)
                             /\ ~ (EndOut(p) # NoBuf /\ ~ conf.c.shared /\ d = EndOut(p))
  BY <1>5, <1>9, FreedFacts
<1>11. EndFlags(m5[d], d, p, first, then)
  BY <1>6, <1>10, FreedFacts DEF EndFlags, b
<1> QED BY <1>1, <1>11

\* The flags of motion vector buffer v at the end of a picture.
EndMvFlags(n, v, p, first, then) ==
  LET Held(B) == \E b \in B : mvOf[b] = v IN
  /\ n \subseteq {"busy", "REF"} /\ n # {"busy"}
  /\ "REF" \in n <=> (("REF" \in mv[v] /\ ~ Held(first) /\ (v = mvOf[cur.buf] => p.ref))
                       \/ (v = mvOf[cur.buf] /\ p.ref)) /\ ~ Held(then)

\* The motion vector buffers at the end of a picture.
LEMMA EndMvIs ==
  ASSUME mv \in M!Managers, mvOf[cur.buf] \in conf.mvs, NEW p, NEW first, NEW then, NEW v \in conf.mvs,
         mv[v] \subseteq {"busy", "REF"}, v # mvOf[cur.buf] => mv[v] # {"busy"}
  PROVE  EndMvFlags(EndMv(p, first, then)[v], v, p, first, then)
<1> DEFINE u == mvOf[cur.buf]
           Held(B) == \E b \in B : mvOf[b] = v
           m1 == UnrefMv(mv, first)
           m2 == IF p.ref THEN M!SetStatus(m1, u, "REF") ELSE M!Release(m1, u, "REF")
           m3 == UnrefMv(m2, then)
<1>1. EndMv(p, first, then) = m3
  BY DEF EndMv
<1>2. m1 \in M!Managers /\ m1[v] = IF Held(first) THEN Freed(mv[v], "REF") ELSE mv[v]
  BY MvOps
<1> HIDE DEF m1, u
<1>3. m2 \in M!Managers
      /\ m2[v] = IF v = u THEN IF p.ref THEN m1[v] \cup {"REF"} ELSE Freed(m1[v], "REF") ELSE m1[v]
  <2>0. "REF" \in M!Flags /\ u \in conf.mvs
    BY DEF M!Flags, u
  <2>1. M!SetStatus(m1, u, "REF") \in M!Managers /\ M!Release(m1, u, "REF") \in M!Managers
    BY <1>2, <2>0, MvOps
  <2>2. M!SetStatus(m1, u, "REF")[v] = IF v = u THEN m1[v] \cup {"REF"} ELSE m1[v]
    BY <1>2 DEF M!SetStatus, M!Managers
  <2>3. M!Release(m1, u, "REF")[v] = IF v = u THEN Freed(m1[v], "REF") ELSE m1[v]
    BY <1>2, MvOps
  <2> QED BY <2>1, <2>2, <2>3
<1> HIDE DEF m2
<1>4. m3[v] = IF Held(then) THEN Freed(m2[v], "REF") ELSE m2[v]
  BY <1>3, MvOps
<1> HIDE DEF m3
<1>5. \A x : x \subseteq {"busy", "REF"} =>
               /\ Freed(x, "REF") \subseteq {"busy", "REF"} /\ Freed(x, "REF") # {"busy"}
               /\ "REF" \notin Freed(x, "REF")
  BY DEF Freed
<1> DEFINE h1 == Held(first)
           h2 == Held(then)
<1>6. /\ m1[v] \subseteq {"busy", "REF"} /\ (v # u => m1[v] # {"busy"})
      /\ "REF" \in m1[v] <=> "REF" \in mv[v] /\ ~ h1
  <2> HIDE DEF Held
  <2> QED BY <1>2, <1>5 DEF u
<1>7. /\ m2[v] \subseteq {"busy", "REF"} /\ m2[v] # {"busy"}
      /\ "REF" \in m2[v] <=> ("REF" \in mv[v] /\ ~ h1 /\ (v = u => p.ref)) \/ (v = u /\ p.ref)
  <2> HIDE DEF h1
  <2> QED BY <1>3, <1>5, <1>6
<1>8. /\ m3[v] \subseteq {"busy", "REF"} /\ m3[v] # {"busy"}
      /\ "REF" \in m3[v] <=> (("REF" \in mv[v] /\ ~ h1 /\ (v = u => p.ref)) \/ (v = u /\ p.ref)) /\ ~ h2
  <2> HIDE DEF h1, Held
  <2> QED BY <1>4, <1>5, <1>7
<1>9. EndMvFlags(m3[v], v, p, first, then)
  BY <1>8 DEF EndMvFlags, u
<1> QED BY <1>1, <1>9

\* The check for a free buffer marks free buffers that the application has, and
\* the free one with the lowest number is not one of these.
LEMMA MarkedFacts ==
  ASSUME pic \in P!Managers, \E n \in Nat : conf.pics = 0..n-1, mapped \subseteq conf.pics
  PROVE  /\ \A d \in conf.pics : Marked[d] = pic[d] \/ (pic[d] = {} /\ d \in mapped /\ Marked[d] = {"busy", "IO"})
         /\ P!HasFree(Marked) => P!NextFree(Marked) \notin mapped
<1>1. \A d \in conf.pics : Marked[d] = pic[d] \/ (pic[d] = {} /\ d \in mapped /\ Marked[d] = {"busy", "IO"})
  BY DEF Marked
<1>2. ASSUME P!HasFree(Marked), P!NextFree(Marked) \in mapped PROVE FALSE
  <2> DEFINE F == P!FreeBufs(Marked)
             b == P!NextFree(Marked)
  <2>0. PICK n \in Nat : conf.pics = 0..n-1
    OBVIOUS
  <2>1. F # {} /\ F \subseteq conf.pics /\ F \subseteq Nat
    BY <1>2, <2>0 DEF P!HasFree, P!FreeBufs
  <2>2. b = D!Min(F)
    BY DEF P!NextFree, P!Min, D!Min
  <2>3. \A d \in F : d \in conf.pics /\ Marked[d] = {}
    BY DEF P!FreeBufs
  <2>4. \A d \in conf.pics : Marked[d] = {} => d \in F
    BY DEF P!FreeBufs
  <2> HIDE DEF F
  <2>5. b \in F /\ \A d \in F : b <= d
    <3> HIDE DEF b
    <3> QED BY <2>1, <2>2, MinFacts
  <2>6. Marked[b] = {} /\ b \in conf.pics /\ b \in mapped /\ b \in Nat
    BY <1>2, <2>1, <2>3, <2>5
  <2> HIDE DEF b
  <2>7. pic[b] = {}
    BY <1>1, <2>6
  <2>8. \E a \in 0 .. b - 1 : ~ (pic[a] = {} => a \in mapped)
    BY <2>6, <2>7 DEF Marked
  <2>9. PICK a \in 0 .. b - 1 : pic[a] = {} /\ a \notin mapped
    BY <2>8
  <2>10. a \in conf.pics /\ ~ (b <= a)
    BY <2>0, <2>6
  <2>11. a \in F
    BY <1>1, <2>4, <2>9, <2>10
  <2> QED BY <2>5, <2>10, <2>11
<1> QED BY <1>1, <1>2

-----------------------------------------------------------------------------
(* There are enough buffers. *)

\* The buffers of the lists are no more than the reference frames.
LEMMA ListCount ==
  ASSUME Between, StreamOK(stream, conf.c)
  PROVE  IsFiniteSet(Bufs(lists)) /\ Cardinality(Bufs(lists)) \in Nat
         /\ Cardinality(Bufs(lists)) <= S!Size(stream.mk) /\ S!Size(stream.mk) \in Nat
<1> DEFINE f == Recent(lists, frameNum, stream.prev)
<1>1. Agree(lists, stream.mk, holds, frameNum) /\ Linked(lists, f, TRUE)
  BY DEF Between
<1> HIDE DEF f
<1>2. PICK mk : mk = stream.mk
  OBVIOUS
<1>3. S!Size(mk) = lists.nst + lists.nlt /\ S!Size(mk) \in Nat
  <2>1. S!Size(mk) = lists.nst + lists.nlt /\ lists.nst \in Nat /\ lists.nlt \in Nat
    BY <1>1, <1>2, AgreeSizes
  <2> QED BY <2>1
<1>4. Cardinality(InUse(lists)) = lists.nst + lists.nlt
  BY <1>1, CountFacts
<1>5. IsFiniteSet(InUse(lists))
  <2>1. IsFiniteSet(D!Nodes)
    BY NodesFacts, FS_Interval
  <2>2. InUse(lists) \subseteq D!Nodes
    BY DEF InUse
  <2> QED BY <2>1, <2>2, PartNoMore
<1> DEFINE g == [x \in InUse(lists) |-> lists.node[x].buf]
<1>6. Bufs(lists) = {g[x] : x \in InUse(lists)}
  BY DEF Bufs
<1> HIDE DEF g
<1>7. /\ IsFiniteSet({g[x] : x \in InUse(lists)})
      /\ Cardinality({g[x] : x \in InUse(lists)}) <= Cardinality(InUse(lists))
  BY <1>5, ImageNoMore
<1>8. Cardinality(Bufs(lists)) \in Nat
  BY <1>6, <1>7, FS_CardinalityType
<1> QED BY <1>2, <1>3, <1>4, <1>6, <1>7, <1>8

\* A complete stream that fits is orderly.
LEMMA WholeFacts ==
  ASSUME StepInv, Whole
  PROVE  /\ Orderly /\ StreamOK(stream, conf.c) /\ Fits(conf.c) /\ conf.c \in Configs
         /\ conf \in {Setup(c) : c \in Configs} /\ conf.pics \subseteq Nat
         /\ pic \in P!Managers /\ holds \in [conf.pics -> Int]
         /\ \A b \in Bufs(lists) : b \in conf.pics
         /\ (cur = None => Between) /\ (cur # None => cur.buf \in conf.pics)
         /\ NoBuf \notin conf.pics /\ stream.fresh \in BOOLEAN
<1>1. WalkInv /\ pic \in P!Managers /\ holds \in [conf.pics -> Int]
  BY DEF StepInv
<1>2. /\ conf \in {Setup(c) : c \in Configs} /\ StreamOK(stream, conf.c)
      /\ (cur # None => cur.buf \in conf.pics)
      /\ \A x \in InUse(lists) : lists.node[x].buf \in conf.pics
  BY <1>1 DEF WalkInv
<1>3. conf.c \in Configs /\ conf.pics \subseteq Nat
  BY <1>2, SetupFacts
<1>4. ~ lost /\ Fits(conf.c) /\ conf.c.quiet /\ conf.c.idrNext
  BY DEF Whole, Fits
<1>5. Orderly
  BY <1>4 DEF Orderly
<1>6. cur = None => Between
  BY <1>5 DEF StepInv
<1>7. NoBuf \notin conf.pics
  BY <1>3, DecPicturesAssumption
<1>8. stream.fresh \in BOOLEAN
  BY <1>2 DEF StreamOK
<1> QED BY <1>1, <1>2, <1>3, <1>4, <1>5, <1>6, <1>7, <1>8 DEF Bufs

\* What is to be shown has keys above what was shown, each its own.
LEMMA LiveFacts ==
  ASSUME Shape, InOrder, holds \in [conf.pics -> Int], NoBuf \notin conf.pics
  PROVE  /\ Live \subseteq conf.pics /\ Waiting = InList(waiting) /\ Queued = InQueue(queue)
         /\ Typed(waiting, queue, conf.pics) /\ Stacked(waiting, queue, holds)
         /\ \A a, b \in Live : holds[a] = holds[b] => a = b
         /\ Waiting \cap Queued = {} /\ Out \cap (Waiting \cup Queued) = {}
         /\ \A b \in Live : holds[b] \in Int /\ shown < holds[b]
         /\ \A d \in Out : \A b \in Waiting \cup Queued : holds[d] < holds[b]
         /\ \A d \in Queued : \A b \in Waiting : holds[d] < holds[b]
<1>1. Waiting = InList(waiting) /\ Queued = InQueue(queue)
  BY DEF Waiting, Queued, InList, InQueue
<1>2. /\ \A e \in waiting : e.buf \in conf.pics /\ e.poc \in Int
      /\ queue \in Seq(conf.pics) /\ Out \subseteq conf.pics
      /\ Typed(waiting, queue, conf.pics) /\ shown \in Int
  BY DEF Shape, Typed, Out
<1>3. /\ Rising(queue, holds) /\ Arranged(waiting, holds)
      /\ \A b \in Out : shown < holds[b]
      /\ \A b \in Queued : shown < holds[b] /\ (\A d \in Out : holds[d] < holds[b])
      /\ \A e \in waiting : shown < holds[e.buf] /\ \A b \in Out \cup Queued : holds[b] < holds[e.buf]
  BY DEF InOrder, Above
<1>4. Queued \subseteq conf.pics /\ Waiting \subseteq conf.pics
  <2>1. \A i \in DOMAIN queue : queue[i] \in conf.pics
    BY <1>2
  <2> QED BY <1>2, <2>1 DEF Queued, Waiting
<1>5. \A b \in conf.pics : holds[b] \in Int
  OBVIOUS
<1>6. \A d \in Out : \A b \in Waiting \cup Queued : holds[d] < holds[b]
  BY <1>3 DEF Waiting
<1>7. \A d \in Queued : \A b \in Waiting : holds[d] < holds[b]
  BY <1>3 DEF Waiting
<1>8. Stacked(waiting, queue, holds)
  BY <1>1, <1>3, <1>7 DEF Stacked, InList
<1>9. Live \subseteq conf.pics /\ \A b \in Live : holds[b] \in Int /\ shown < holds[b]
  BY <1>2, <1>3, <1>4, <1>5 DEF Live, Waiting
<1>10. Waiting \cap Queued = {} /\ Out \cap (Waiting \cup Queued) = {}
  <2>1. \A x \in Int : ~ (x < x)
    OBVIOUS
  <2> QED BY <1>2, <1>4, <1>5, <1>6, <1>7, <2>1
<1>11. ASSUME NEW a \in Live, NEW b \in Live, holds[a] = holds[b] PROVE a = b
  <2>0. \A x \in Int : ~ (x < x)
    OBVIOUS
  <2>1. holds[a] \in Int
    BY <1>9
  <2>2. CASE a \in Waiting /\ b \in Waiting
    <3>1. PICK e, f \in waiting : a = e.buf /\ b = f.buf
      BY <2>2 DEF Waiting
    <3>2. e # f => holds[a] < holds[b] \/ holds[b] < holds[a]
      BY <1>3, <3>1 DEF Arranged
    <3> QED BY <1>11, <2>0, <2>1, <3>1, <3>2
  <2>3. CASE a \in Queued /\ b \in Queued
    <3>1. PICK i, j \in DOMAIN queue : a = queue[i] /\ b = queue[j]
      BY <2>3 DEF Queued
    <3>2. i \in Int /\ j \in Int
      BY <1>2
    <3>3. (i < j => holds[a] < holds[b]) /\ (j < i => holds[b] < holds[a])
      BY <1>3, <3>1 DEF Rising
    <3>4. i < j \/ j < i \/ i = j
      BY <3>2
    <3> QED BY <1>11, <2>0, <2>1, <3>1, <3>3, <3>4
  <2>4. CASE a \in Out /\ b \in Out
    BY <2>4 DEF Out
  <2>5. CASE (a \in Waiting /\ b \in Queued) \/ (b \in Waiting /\ a \in Queued)
    BY <1>7, <1>11, <2>0, <2>1, <2>5
  <2>6. CASE (a \in Out /\ b \in Waiting \cup Queued) \/ (b \in Out /\ a \in Waiting \cup Queued)
    BY <1>6, <1>11, <2>0, <2>1, <2>6
  <2>7. \A x \in Live : x \in Waiting \/ x \in Queued \/ x \in Out
    BY DEF Live
  <2>8. (a \in Waiting \/ a \in Queued \/ a \in Out) /\ (b \in Waiting \/ b \in Queued \/ b \in Out)
    BY <2>7
  <2> QED BY <2>2, <2>3, <2>4, <2>5, <2>6, <2>8
<1> QED BY <1>1, <1>2, <1>6, <1>7, <1>8, <1>9, <1>10, <1>11

\* A buffer that waits or is queued counts once.
LEMMA LiveCount ==
  ASSUME Shape, out = NoBuf
  PROVE  IsFiniteSet(Live) /\ Cardinality(Live) \in Nat /\ Cardinality(waiting) \in Nat /\ Len(queue) \in Nat
         /\ Cardinality(Live) <= Cardinality(waiting) + Len(queue)
<1>1. IsFiniteSet(waiting) /\ queue \in Seq(conf.pics) /\ Out = {} /\ Live = Waiting \cup Queued
  BY DEF Shape, Out, Live
<1>2. IsFiniteSet(Waiting) /\ Cardinality(Waiting) <= Cardinality(waiting)
  <2> DEFINE f == [e \in waiting |-> e.buf]
  <2>1. Waiting = {f[e] : e \in waiting}
    BY DEF Waiting
  <2> HIDE DEF f
  <2> QED BY <1>1, <2>1, ImageNoMore
<1>3. Len(queue) \in Nat /\ DOMAIN queue = 1..Len(queue)
  BY <1>1
<1>4. IsFiniteSet(1..Len(queue)) /\ Cardinality(1..Len(queue)) = Len(queue)
  <2>1. PICK n \in Nat : n = Len(queue)
    BY <1>3
  <2>2. 1 \in Int /\ n \in Int
    OBVIOUS
  <2>3. IsFiniteSet(1..n) /\ Cardinality(1..n) = IF 1 > n THEN 0 ELSE n - 1 + 1
    BY <2>2, FS_Interval
  <2>4. Cardinality(1..n) = n
    BY <2>3
  <2> QED BY <2>1, <2>3, <2>4
<1>5. IsFiniteSet(Queued) /\ Cardinality(Queued) <= Len(queue)
  <2>1. Queued = {queue[i] : i \in 1..Len(queue)}
    BY <1>3 DEF Queued
  <2> QED BY <1>4, <2>1, ImageNoMore
<1>6. /\ IsFiniteSet(Waiting \cup Queued) /\ Cardinality(Waiting \cup Queued) \in Nat
      /\ Cardinality(Waiting) \in Nat /\ Cardinality(Queued) \in Nat
      /\ Cardinality(Waiting \cup Queued) <= Cardinality(Waiting) + Cardinality(Queued)
  BY <1>2, <1>5, TogetherNoMore
<1>7. Cardinality(waiting) \in Nat
  BY <1>1, FS_CardinalityType
<1> QED BY <1>1, <1>2, <1>3, <1>5, <1>6, <1>7

\* Where the keys of what is to be shown are.
LEMMA CurrentKeys ==
  ASSUME Shape, InOrder, StreamOK(stream, conf.c), stream.fresh = FALSE, cur = None, out = NoBuf,
         NEW b \in Live, NEW k \in Nat, holds[b] > KeyOf(k), holds[b] \in Int
  PROVE  \E q \in stream.sent : holds[b] = KeyOf(q) /\ q > k
<1>1. stream.period \in Nat /\ stream.sent \subseteq Nat
  BY SentFacts DEF StreamOK
<1>2. \A j \in Int : KeyOf(j) = S!Key(stream.period, 0) + j /\ S!Key(stream.period, 0) \in Int
  BY <1>1, KeyFacts DEF KeyOf
<1>3. \A q \in stream.sent : holds[b] = KeyOf(q) => q > k
  BY <1>1, <1>2
<1>4. CASE b \in Waiting
  <2>1. PICK e \in waiting : b = e.buf
    BY <1>4 DEF Waiting
  <2>2. PICK q \in stream.sent : holds[b] = KeyOf(q)
    BY <2>1 DEF InOrder, Placed
  <2> QED BY <1>3, <2>2
<1>5. CASE b \in Queued
  <2>1. Passed(holds[b])
    BY <1>5 DEF InOrder
  <2>2. ~ (holds[b] < S!Key(stream.period, 0))
    BY <1>2
  <2>3. PICK q \in stream.sent : holds[b] = S!Key(stream.period, q)
    BY <2>1, <2>2 DEF Passed, PassedIn
  <2> QED BY <1>3, <2>3 DEF KeyOf
<1>6. Out = {}
  BY DEF Out
<1> QED BY <1>4, <1>5, <1>6 DEF Live

\* More numbers than a set has elements are not all in it.
LEMMA Beyond ==
  ASSUME NEW n \in Nat, NEW X, IsFiniteSet(X), Cardinality(X) < n
  PROVE  \E x \in 0..n-1 : x \notin X
<1> SUFFICES ASSUME 0..n-1 \subseteq X PROVE FALSE
  OBVIOUS
<1>1. Cardinality(0..n-1) <= Cardinality(X) /\ Cardinality(X) \in Nat
  BY PartNoMore
<1>2. 0 \in Int /\ n - 1 \in Int
  OBVIOUS
<1>3. Cardinality(0..n-1) = IF 0 > n - 1 THEN 0 ELSE n - 1 - 0 + 1
  BY <1>2, FS_Interval
<1> QED BY <1>1, <1>3

\* The references between calls.
LEMMA RefdCount ==
  ASSUME DispInv, Whole, cur = None
  PROVE  IsFiniteSet(Refd) /\ Cardinality(Refd) \in Nat /\ Cardinality(Refd) <= conf.c.numRef
         /\ (~ stream.fresh => Refd = Bufs(lists))
<1>1. Flags /\ StepInv
  BY DEF DispInv
<1>2. Between /\ StreamOK(stream, conf.c) /\ conf \in {Setup(c) : c \in Configs} /\ Fits(conf.c)
  BY <1>1, WholeFacts
<1>3. conf.c.numRef \in Nat
  BY <1>2, FitFacts
<1>4. Refd = IF stream.fresh THEN {} ELSE Bufs(lists)
  BY <1>1 DEF Flags
<1>5. CASE stream.fresh
  <2>1. Refd = {} /\ Cardinality({}) = 0 /\ IsFiniteSet({})
    BY <1>4, <1>5, FS_EmptySet
  <2> QED BY <1>3, <1>5, <2>1
<1>6. CASE ~ stream.fresh
  <2>1. IsFiniteSet(Bufs(lists)) /\ Cardinality(Bufs(lists)) \in Nat
        /\ Cardinality(Bufs(lists)) <= S!Size(stream.mk)
    BY <1>2, ListCount
  <2>2. S!Size(stream.mk) <= conf.c.numRef
    BY <1>2 DEF StreamOK
  <2>3. S!Size(stream.mk) \in Nat
    BY <1>2, ListCount
  <2> QED BY <1>3, <1>4, <1>6, <2>1, <2>2, <2>3
<1> QED BY <1>5, <1>6

\* What is to be shown after the last reference has not been passed by it.
LEMMA LiveLater ==
  ASSUME DispInv, Whole, cur = None, stream.fresh = FALSE,
         \A b \in Live : holds[b] > KeyOf(stream.last)
  PROVE  IsFiniteSet(Live) /\ Cardinality(Live) <= Cardinality(Later(stream.sent, stream.last))
         /\ Cardinality(Later(stream.sent, stream.last)) \in Nat
<1>1. StepInv /\ Shape /\ InOrder /\ Sending /\ out = NoBuf
  BY DEF DispInv, Shape
<1>2. /\ StreamOK(stream, conf.c) /\ holds \in [conf.pics -> Int] /\ NoBuf \notin conf.pics
  BY <1>1, WholeFacts
<1>3. IsFiniteSet(stream.sent) /\ stream.sent \subseteq Nat /\ stream.period \in Nat
  BY <1>2, SentFacts DEF StreamOK
<1>4. stream.last \in stream.sent /\ stream.last \in Nat
  BY <1>1, <1>3 DEF Sending
<1>5. /\ \A b \in Live : holds[b] \in Int
      /\ \A a, b \in Live : holds[a] = holds[b] => a = b
  BY <1>1, <1>2, LiveFacts
<1> DEFINE L == Later(stream.sent, stream.last)
           f == [b \in Live |-> holds[b] - KeyOf(0)]
<1>6. \A j \in Int : KeyOf(j) = KeyOf(0) + j /\ KeyOf(0) \in Int
  BY <1>3, KeyFacts DEF KeyOf
<1>7. IsFiniteSet(L) /\ Cardinality(L) \in Nat
  <2>1. L \subseteq stream.sent
    BY DEF Later
  <2> QED BY <1>3, <2>1, PartNoMore
<1>8. \A b \in Live : f[b] \in L
  <2> SUFFICES ASSUME NEW b \in Live PROVE f[b] \in L
    OBVIOUS
  <2>1. PICK q \in stream.sent : holds[b] = KeyOf(q) /\ q > stream.last
    BY <1>1, <1>2, <1>4, <1>5, CurrentKeys
  <2>2. q \in Int
    BY <1>3
  <2>3. holds[b] - KeyOf(0) = q
    BY <1>6, <2>1, <2>2
  <2> QED BY <2>1, <2>3 DEF Later
<1>9. \A a, b \in Live : f[a] = f[b] => a = b
  <2>1. \A a, b \in Live : holds[a] - KeyOf(0) = holds[b] - KeyOf(0) => holds[a] = holds[b]
    BY <1>5, <1>6
  <2> QED BY <1>5, <2>1
<1> HIDE DEF L, f
<1>10. IsFiniteSet(Live) /\ Cardinality(Live) <= Cardinality(L)
  BY <1>7, <1>8, <1>9, NoMore
<1> QED BY <1>7, <1>10 DEF L

\* References and what is to be shown together leave a buffer.
LEMMA UsedCount ==
  ASSUME DispInv, Whole, cur = None, ~ flush
  PROVE  IsFiniteSet(Refd \cup Live) /\ Cardinality(Refd \cup Live) \in Nat
         /\ Cardinality(Refd \cup Live) <= conf.delay + conf.c.numRef
<1>1. StepInv /\ Shape /\ InOrder /\ Sending /\ LastRef /\ Counts /\ out = NoBuf
  BY DEF DispInv, Shape
<1>2. conf \in {Setup(c) : c \in Configs} /\ Fits(conf.c) /\ stream.fresh \in BOOLEAN
      /\ holds \in [conf.pics -> Int] /\ NoBuf \notin conf.pics /\ StreamOK(stream, conf.c)
  BY <1>1, WholeFacts
<1>3. /\ conf.c.numRef \in Nat /\ conf.delay \in Nat /\ conf.c.reorder \in Nat /\ conf.c.trail \in Nat
      /\ IF conf.c.frameOut THEN conf.c.reorder = 0 /\ conf.delay = 0
         ELSE conf.c.reorder < conf.delay /\ conf.c.trail <= conf.delay
  BY <1>2, FitFacts
<1>4. IsFiniteSet(Refd) /\ Cardinality(Refd) \in Nat /\ Cardinality(Refd) <= conf.c.numRef
      /\ (~ stream.fresh => Refd = Bufs(lists))
  BY RefdCount
<1>5. IsFiniteSet(Live) /\ Cardinality(Live) \in Nat /\ Cardinality(waiting) \in Nat /\ Len(queue) \in Nat
      /\ Cardinality(Live) <= Cardinality(waiting) + Len(queue)
  BY <1>1, LiveCount
<1>6. /\ IsFiniteSet(Refd \cup Live) /\ Cardinality(Refd \cup Live) \in Nat
      /\ Cardinality(Refd \cup Live) <= Cardinality(Refd) + Cardinality(Live)
      /\ Refd \cap Live # {} => Cardinality(Refd \cup Live) < Cardinality(Refd) + Cardinality(Live)
  BY <1>4, <1>5, TogetherNoMore
<1>7. waiting = {} /\ queue = <<>> => Cardinality(Live) = 0
  <2>1. waiting = {} => Cardinality(waiting) = 0
    BY FS_EmptySet
  <2>2. queue = <<>> => Len(queue) = 0
    OBVIOUS
  <2> QED BY <1>5, <2>1, <2>2
<1>8. CASE Cardinality(Live) <= conf.delay
  BY <1>3, <1>4, <1>5, <1>6, <1>8
<1>9. CASE stream.fresh
  <2>1. waiting = {} /\ queue = <<>>
    BY <1>1, <1>9 DEF InOrder
  <2> QED BY <1>3, <1>7, <1>8, <2>1
<1>10. CASE conf.c.frameOut
  <2>1. waiting = {} /\ queue = <<>>
    BY <1>1, <1>10 DEF Counts
  <2> QED BY <1>3, <1>7, <1>8, <2>1
<1>11. CASE stream.fresh = FALSE /\ ~ conf.c.frameOut
  <2>1. Cardinality(Live) <= conf.delay + 1
    <3>1. Cardinality(waiting) + Len(queue) <= conf.delay + 1
      BY <1>1, <1>11 DEF Counts
    <3> QED BY <1>3, <1>5, <3>1
  <2>2. PICK b \in Bufs(lists) : holds[b] = KeyOf(stream.last) /\ (b \in Live \/ holds[b] <= shown)
    BY <1>1, <1>11 DEF LastRef
  <2>3. CASE b \in Live
    <3>1. Refd \cap Live # {}
      BY <1>4, <1>11, <2>2, <2>3
    <3> QED BY <1>3, <1>4, <1>5, <1>6, <2>1, <3>1
  <2>4. CASE holds[b] <= shown
    <3>1. \A d \in Live : holds[d] \in Int /\ shown < holds[d]
      BY <1>1, <1>2, LiveFacts
    <3>2. shown \in Int /\ holds[b] \in Int
      <4>1. b \in conf.pics
        BY <1>1, WholeFacts
      <4> QED BY <1>1, <1>2, <4>1 DEF Shape
    <3>3. \A d \in Live : holds[d] > KeyOf(stream.last)
      BY <2>2, <2>4, <3>1, <3>2
    <3>4. Cardinality(Live) <= Cardinality(Later(stream.sent, stream.last))
          /\ Cardinality(Later(stream.sent, stream.last)) \in Nat
      BY <1>11, <3>3, LiveLater
    <3>5. Cardinality(Later(stream.sent, stream.last)) <= Most(conf.c.reorder, conf.c.trail)
      BY <1>1, <1>11 DEF Sending
    <3>6. Most(conf.c.reorder, conf.c.trail) <= conf.delay /\ Most(conf.c.reorder, conf.c.trail) \in Nat
      BY <1>3, <1>11 DEF Most
    <3>7. Cardinality(Live) <= conf.delay
      BY <1>3, <1>5, <3>4, <3>5, <3>6
    <3> QED BY <1>8, <3>7
  <2> QED BY <2>2, <2>3, <2>4
<1> QED BY <1>2, <1>9, <1>10, <1>11

\* Between calls there is a free picture buffer, unless the application has it,
\* and free motion vectors.
LEMMA FreeFacts ==
  ASSUME DispInv, Whole, cur = None, ~ flush
  PROVE  /\ mapped = {} => \E b \in conf.pics : pic[b] = {}
         /\ \E b \in conf.pics : b \notin Refd \cup Live
         /\ \E v \in conf.mvs : mv[v] = {}
<1>1. Flags /\ MvFlags /\ StepInv
  BY DEF DispInv
<1>2. conf \in {Setup(c) : c \in Configs} /\ Fits(conf.c)
  BY <1>1, WholeFacts
<1>3. /\ conf.c.numRef \in Nat /\ conf.delay \in Nat
      /\ \E n \in Nat : conf.pics = 0..n-1 /\ n >= conf.delay + conf.c.numRef + 1
      /\ \E n \in Nat : conf.mvs = 0..n-1 /\ n >= conf.c.numRef + 1
  BY <1>2, FitFacts
<1>4. PICK b \in conf.pics : b \notin Refd \cup Live
  <2>1. PICK n \in Nat : conf.pics = 0..n-1 /\ n >= conf.delay + conf.c.numRef + 1
    BY <1>3
  <2>2. IsFiniteSet(Refd \cup Live) /\ Cardinality(Refd \cup Live) \in Nat
        /\ Cardinality(Refd \cup Live) <= conf.delay + conf.c.numRef
    BY UsedCount
  <2>3. Cardinality(Refd \cup Live) < n
    BY <1>3, <2>1, <2>2
  <2> QED BY <2>1, <2>2, <2>3, Beyond
<1>5. mapped = {} => pic[b] = {}
  <2>1. pic[b] \subseteq {"busy", "REF", "IO"} /\ pic[b] # {"busy"}
        /\ ("IO" \in pic[b] => b \in Live \cup mapped)
    BY <1>1 DEF Flags
  <2>2. "REF" \notin pic[b]
    BY <1>4 DEF Refd
  <2> QED BY <1>4, <2>1, <2>2
<1>6. \E v \in conf.mvs : mv[v] = {}
  <2>1. IsFiniteSet(Refd) /\ Cardinality(Refd) \in Nat /\ Cardinality(Refd) <= conf.c.numRef
    BY RefdCount
  <2> DEFINE V == {mvOf[d] : d \in Refd}
  <2>2. IsFiniteSet(V) /\ Cardinality(V) <= Cardinality(Refd)
    BY <2>1, ImageNoMore
  <2>3. PICK n \in Nat : conf.mvs = 0..n-1 /\ n >= conf.c.numRef + 1
    BY <1>3
  <2>4. Cardinality(V) < n
    <3>1. Cardinality(V) \in Nat
      BY <2>2, FS_CardinalityType
    <3> QED BY <1>3, <2>1, <2>2, <2>3, <3>1
  <2>5. PICK v \in conf.mvs : v \notin V
    <3> HIDE DEF V
    <3> QED BY <2>2, <2>3, <2>4, Beyond
  <2>6. mv[v] \subseteq {"busy", "REF"} /\ mv[v] # {"busy"} /\ "REF" \notin mv[v]
    BY <1>1, <2>5 DEF MvFlags
  <2>7. mv[v] = {}
    BY <2>6
  <2> QED BY <2>7
<1> QED BY <1>4, <1>5, <1>6

-----------------------------------------------------------------------------
(* A call that begins. *)

\* The front of a queue q, and the rest r.
TakenOff(q, f, r, B) ==
  /\ r \in Seq(B) /\ f \in B \cup {NoBuf} /\ Len(r) \in Nat /\ Len(q) \in Nat
  /\ InQueue(q) = ({f} \ {NoBuf}) \cup InQueue(r)
  /\ IF q = <<>> THEN f = NoBuf /\ r = <<>> ELSE f \in B /\ f # NoBuf /\ Len(r) = Len(q) - 1
  /\ \A h : Rising(q, h) => /\ Rising(r, h)
                            /\ f # NoBuf => \A b \in InQueue(r) : h[f] < h[b]
LEMMA HeadOff ==
  ASSUME NEW B, NEW q \in Seq(B), NoBuf \notin B
  PROVE  TakenOff(q, Front(q), Rest(q), B)
<1>1. CASE q = <<>>
  <2>1. Front(q) = NoBuf /\ Rest(q) = <<>> /\ Len(<<>>) = 0 /\ InQueue(q) = {} /\ <<>> \in Seq(B)
    BY <1>1 DEF Front, Rest, InQueue
  <2>2. \A h : Rising(<<>>, h)
    BY DEF Rising
  <2> QED BY <1>1, <2>1, <2>2 DEF TakenOff
<1>2. CASE q # <<>>
  <2> DEFINE r == Tail(q)
             f == q[1]
  <2>1. PICK n \in Nat : n = Len(q)
    OBVIOUS
  <2>2. n >= 1 /\ DOMAIN q = 1..n /\ \A i \in 1..n : q[i] \in B
    BY <1>2, <2>1
  <2>3. Front(q) = f /\ Rest(q) = r
    BY <1>2 DEF Front, Rest
  <2>4. r \in Seq(B) /\ Len(r) = n - 1 /\ DOMAIN r = 1..n-1 /\ \A i \in 1..n-1 : r[i] = q[i + 1]
    BY <1>2, <2>1
  <2>5. f \in B /\ f # NoBuf
    BY <2>2
  <2> HIDE DEF r
  <2>6. \A i \in 1..n-1 : i + 1 \in 1..n /\ 1 < i + 1
    BY <2>2
  <2>7. \A i \in 1..n : i = 1 \/ \E j \in 1..n-1 : i = j + 1
    <3> SUFFICES ASSUME NEW i \in 1..n, i # 1 PROVE \E j \in 1..n-1 : i = j + 1
      OBVIOUS
    <3>1. i - 1 \in 1..n-1 /\ i = (i - 1) + 1
      BY <2>2
    <3> QED BY <3>1
  <2>8. 1 \in 1..n
    BY <2>2
  <2>9. InQueue(q) = {f} \cup InQueue(r)
    <3>1. ASSUME NEW i \in 1..n PROVE q[i] = f \/ \E j \in 1..n-1 : q[i] = r[j]
      <4>1. CASE i = 1
        BY <4>1
      <4>2. CASE i # 1
        <5>1. PICK j \in 1..n-1 : i = j + 1
          BY <2>7, <4>2
        <5> QED BY <2>4, <5>1
      <4> QED BY <4>1, <4>2
    <3>2. ASSUME NEW j \in 1..n-1 PROVE \E i \in 1..n : r[j] = q[i]
      BY <2>4, <2>6
    <3>3. InQueue(q) = {q[i] : i \in 1..n} /\ InQueue(r) = {r[j] : j \in 1..n-1}
      BY <2>2, <2>4 DEF InQueue
    <3>4. f \in {q[i] : i \in 1..n}
      BY <2>8
    <3> HIDE DEF f
    <3> QED BY <3>1, <3>2, <3>3, <3>4
  <2>10. ASSUME NEW h, Rising(q, h)
         PROVE  Rising(r, h) /\ \A b \in InQueue(r) : h[f] < h[b]
    <3>1. \A i, j \in 1..n : i < j => h[q[i]] < h[q[j]]
      BY <2>2, <2>10 DEF Rising
    <3>2. \A i, j \in 1..n-1 : i < j => i + 1 < j + 1
      BY <2>2
    <3>3. Rising(r, h)
      <4> SUFFICES ASSUME NEW i \in 1..n-1, NEW j \in 1..n-1, i < j PROVE h[r[i]] < h[r[j]]
        BY <2>4 DEF Rising
      <4>1. i + 1 \in 1..n /\ j + 1 \in 1..n /\ i + 1 < j + 1
        BY <2>6, <3>2
      <4>2. h[q[i + 1]] < h[q[j + 1]]
        BY <3>1, <4>1
      <4> QED BY <2>4, <4>2
    <3>4. \A i \in 1..n-1 : h[f] < h[r[i]]
      BY <2>4, <2>6, <2>8, <3>1
    <3> QED BY <2>4, <3>3, <3>4 DEF InQueue
  <2>11. n - 1 \in Nat
    BY <2>2
  <2> QED BY <1>2, <2>1, <2>3, <2>4, <2>5, <2>9, <2>10, <2>11 DEF TakenOff
<1> QED BY <1>1, <1>2

\* ih264_buf_mgr_get_next_free gives free motion vectors when there are some.
LEMMA NextMvFacts ==
  ASSUME conf.mvs \subseteq Nat, NEW m, M!HasFree(m)
  PROVE  M!NextFree(m) \in conf.mvs /\ m[M!NextFree(m)] = {}
<1> DEFINE F == M!FreeBufs(m)
           b == M!NextFree(m)
<1>1. F # {} /\ F \subseteq conf.mvs
  BY DEF M!HasFree, M!FreeBufs
<1>2. F \subseteq Nat
  BY <1>1
<1>3. b = D!Min(F)
  BY DEF M!NextFree, M!Min, D!Min
<1> HIDE DEF F, b
<1>4. b \in F
  BY <1>1, <1>2, <1>3, MinFacts
<1> QED BY <1>4 DEF F, b, M!FreeBufs

\* The buffers that picture p gets: b for its samples, v for its motion vectors.
Got(p, b, v) ==
  /\ HasPic(p) /\ HasMv(p) /\ b = P!NextFree(PicsFor(p)) /\ v = M!NextFree(MvsFor(p))
  /\ b \in conf.pics /\ pic[b] = {} /\ b \notin mapped /\ b \notin Refd /\ b \notin Live
  /\ v \in conf.mvs /\ mv[v] = {} /\ MvsFor(p) = mv /\ PicsFor(p) \in P!Managers
  /\ \A d \in conf.pics : \/ PicsFor(p)[d] = pic[d]
                          \/ pic[d] = {} /\ d \in mapped /\ PicsFor(p)[d] = {"busy", "IO"}

\* Every picture of a complete stream gets buffers that nothing uses.
LEMMA GetsBuffers ==
  ASSUME DispInv, Whole, NEW p \in Coming, Available
  PROVE  Got(p, P!NextFree(PicsFor(p)), M!NextFree(MvsFor(p)))
<1>1. Flags /\ StepInv /\ Shape /\ cur = None /\ ~ flush
  BY DEF DispInv, Coming
<1>2. /\ conf \in {Setup(c) : c \in Configs} /\ Fits(conf.c) /\ pic \in P!Managers
      /\ conf.pics \subseteq Nat
  BY <1>1, WholeFacts
<1>3. (\E n \in Nat : conf.pics = 0..n-1) /\ \E n \in Nat : conf.mvs = 0..n-1
  BY <1>2, FitFacts
<1>4. conf.mvs \subseteq Nat /\ mapped \subseteq conf.pics
  BY <1>1, <1>3 DEF Shape
<1>5. FreePic
  <2>1. CASE conf.c.shared
    BY <2>1 DEF Available, FreePic, P!HasFree, P!FreeBufs
  <2>2. CASE ~ conf.c.shared
    <3>1. \E b \in conf.pics : pic[b] = {}
      BY <1>1, <2>2, FreeFacts DEF Flags
    <3> QED BY <3>1 DEF FreePic, P!HasFree, P!FreeBufs
  <2> QED BY <2>1, <2>2
<1>6. PicsFor(p) = (IF conf.c.shared THEN Marked ELSE pic) /\ MvsFor(p) = mv
  BY <1>5 DEF PicsFor, MvsFor
<1>7. /\ \A d \in conf.pics : Marked[d] = pic[d] \/ (pic[d] = {} /\ d \in mapped /\ Marked[d] = {"busy", "IO"})
      /\ P!HasFree(Marked) => P!NextFree(Marked) \notin mapped
  BY <1>2, <1>3, <1>4, MarkedFacts
<1>8. HasPic(p)
  <2>1. CASE conf.c.shared
    <3>1. PICK b \in conf.pics \ mapped : pic[b] = {}
      BY <2>1 DEF Available
    <3>2. b \in conf.pics /\ Marked[b] = {}
      BY <1>7, <3>1
    <3> QED BY <1>6, <2>1, <3>2 DEF HasPic, P!HasFree, P!FreeBufs
  <2>2. CASE ~ conf.c.shared
    BY <1>5, <1>6, <2>2 DEF HasPic, FreePic
  <2> QED BY <2>1, <2>2
<1>9. HasMv(p)
  <2>1. \E v \in conf.mvs : mv[v] = {}
    BY <1>1, FreeFacts
  <2> QED BY <1>6, <2>1 DEF HasMv, M!HasFree, M!FreeBufs
<1> DEFINE b == P!NextFree(PicsFor(p))
           v == M!NextFree(MvsFor(p))
<1>10. b \in conf.pics /\ PicsFor(p)[b] = {}
  BY <1>2, <1>8, NextFreeFacts DEF HasPic
<1>11. v \in conf.mvs /\ mv[v] = {}
  BY <1>4, <1>6, <1>9, NextMvFacts DEF HasMv
<1>12. b \notin mapped
  BY <1>1, <1>6, <1>7, <1>8 DEF HasPic, Flags
<1>13. PicsFor(p) \in P!Managers
  BY <1>2, PicsForKeeps
<1>14. \A d \in conf.pics : \/ PicsFor(p)[d] = pic[d]
                            \/ pic[d] = {} /\ d \in mapped /\ PicsFor(p)[d] = {"busy", "IO"}
  BY <1>6, <1>7
<1> HIDE DEF b, v
<1>15. pic[b] = {}
  BY <1>10, <1>14
<1>16. b \notin Refd /\ b \notin Live
  BY <1>1, <1>10, <1>15 DEF Refd, Flags
<1>17. Got(p, b, v)
  BY <1>6, <1>8, <1>9, <1>10, <1>11, <1>12, <1>13, <1>14, <1>15, <1>16 DEF Got, b, v
<1> QED BY <1>17 DEF b, v

\* The number of pictures a decoder may hold is one.
LEMMA SetupSizes ==
  ASSUME conf \in {Setup(c) : c \in Configs}
  PROVE  conf.maxDec \in Nat /\ conf.mvs \subseteq Nat /\ conf.c.length \in Nat
         /\ conf.pics \subseteq Nat /\ NoBuf \notin conf.pics
<1>1. PICK c \in Configs : conf = Setup(c)
  OBVIOUS
<1>2. conf.c = c /\ conf.mvs = 0..NumMvs(c) - 1 /\ conf.maxDec = Least(c.dpbSize, NumPics(c))
  BY <1>1 DEF Setup
<1>3. /\ c.numRef \in Nat /\ c.reorder \in Nat /\ c.dpbSize \in Nat
      /\ c.length \in Nat /\ c.vui \in BOOLEAN /\ c.frameOut \in BOOLEAN /\ c.shared \in BOOLEAN
      /\ MaxPics \in Nat /\ MinShared \in Nat
  BY ConfigsAssumption, DecPicturesAssumption
<1>4. Delay(c) \in Nat
  BY <1>3 DEF Delay
<1>5. NumPics(c) \in Nat
  BY <1>3, <1>4 DEF NumPics, Most, Least
<1>6. Least(c.dpbSize, NumPics(c)) \in Nat
  BY <1>3, <1>5 DEF Least
<1>7. conf.pics \subseteq Nat
  BY SetupFacts
<1>8. NoBuf \notin conf.pics
  BY <1>7, DecPicturesAssumption
<1> QED BY <1>2, <1>3, <1>6, <1>7, <1>8

\* The next picture.
LEMMA ComingFacts ==
  ASSUME StepInv, Shape, NEW p \in Coming
  PROVE  /\ cur = None /\ out = NoBuf /\ ~ flush /\ left \in 1..conf.c.length
         /\ p \in S!Pictures(stream, conf.c) /\ conf.c \in Configs /\ StreamOK(stream, conf.c)
         /\ conf \in {Setup(c) : c \in Configs}
         /\ p \in S!AnyPicture /\ p.poc \in Nat /\ p.key \in Int /\ p.fn \in FrameNums
         /\ Base(p) \in Int /\ NewMax(p) \in Int /\ (p.poc # 0 => Base(p) = base)
<1>1. cur = None /\ ~ flush /\ left # 0 /\ p \in S!Pictures(stream, conf.c)
  BY DEF Coming
<1>2. WalkInv
  BY DEF StepInv
<1>3. conf.c \in Configs /\ StreamOK(stream, conf.c) /\ conf \in {Setup(c) : c \in Configs}
  BY <1>2, SetupFacts DEF WalkInv
<1>4. p \in S!AnyPicture /\ p.poc \in Nat /\ p.fn \in FrameNums
  BY <1>1, <1>3, PictureFacts DEF NextOf
<1>5. p.key \in Int
  BY <1>4 DEF S!AnyPicture
<1>6. conf.maxDec \in Nat /\ conf.c.length \in Nat
  BY <1>3, SetupSizes
<1>7. left \in 1..conf.c.length /\ out = NoBuf /\ base \in Int /\ maxPoc \in Int
  BY <1>1, <1>6 DEF Shape
<1>8. NewMax(p) \in Int
  BY <1>4, <1>7 DEF NewMax, Most
<1>9. Base(p) \in Int /\ (p.poc # 0 => Base(p) = base)
  BY <1>6, <1>7, <1>8 DEF Base
<1> QED BY <1>1, <1>3, <1>4, <1>5, <1>7, <1>8, <1>9

\* The lists have the same buffers once they are renumbered.
LEMMA StartBufs ==
  ASSUME StepInv, Shape, NEW p \in Coming, StartPicture(p)
  PROVE  Bufs(lists') = Bufs(lists)
<1>1. WalkInv /\ WalkInv' /\ conf' = conf
  BY WalkStart DEF StepInv, StartPicture, config
<1>2. frameNum' \in [conf.pics -> FrameNums]
  BY <1>1 DEF WalkInv
<1>3. Chained(lists) /\ \A x \in InUse(lists) : lists.node[x].buf \in conf.pics
  BY <1>1 DEF WalkInv
<1>4. \A x \in D!Nodes : ShortUse(lists, x) => frameNum'[lists.node[x].buf] \in FrameNums
  BY <1>2, <1>3 DEF InUse, ShortUse
<1>5. Linked(lists, 0, FALSE)
  BY <1>3, ChainedLinked
<1>6. p.fn \in FrameNums
  BY ComingFacts
<1>7. lists' = D!AssignPicNum(lists, p.fn, frameNum', MaxFrameNum)
  BY DEF StartPicture
<1>8. \A x \in D!Nodes : lists'.node[x].use = lists.node[x].use /\ lists'.node[x].buf = lists.node[x].buf
  <2>1. Renumbered(lists, D!AssignPicNum(lists, p.fn, frameNum', MaxFrameNum), 0, FALSE, p.fn, frameNum')
    BY <1>4, <1>5, <1>6, AssignFacts
  <2> QED BY <1>7, <2>1 DEF Renumbered
<1> QED BY <1>8 DEF Bufs, InUse

\* The types after a call has begun.
LEMMA StartShape ==
  ASSUME StepInv, Shape, NEW p \in Coming, StartPicture(p)
  PROVE  Shape'
<1>1. /\ conf' = conf /\ stream' = S!Advance(stream, p, conf.c) /\ left' = left - 1
      /\ base' = Base(p) /\ maxPoc' = IF p.poc = 0 THEN 0 ELSE NewMax(p)
      /\ HasPic(p) /\ HasMv(p) /\ mv' = M!Take(MvsFor(p))
      /\ mvOf' = [mvOf EXCEPT ![P!NextFree(PicsFor(p))] = M!NextFree(MvsFor(p))]
      /\ cur' = [p |-> p, buf |-> P!NextFree(PicsFor(p))]
      /\ out' = Front(queue) /\ queue' = Rest(queue)
      /\ UNCHANGED <<lost, waiting, flush, mapped, due, shown>>
  BY DEF StartPicture, Parsed, config
<1>2. /\ ~ flush /\ left \in 1..conf.c.length /\ conf \in {Setup(c) : c \in Configs}
      /\ p \in S!AnyPicture /\ Base(p) \in Int /\ NewMax(p) \in Int
  BY ComingFacts
<1>3. conf.c.length \in Nat /\ conf.mvs \subseteq Nat /\ conf.pics \subseteq Nat /\ NoBuf \notin conf.pics
  BY <1>2, SetupSizes
<1>4. P!NextFree(PicsFor(p)) \in conf.pics
  BY <1>1, <1>3, NextFreeFacts DEF HasPic
<1>5. M!NextFree(MvsFor(p)) \in conf.mvs
  BY <1>1, <1>3, NextMvFacts DEF HasMv
<1>6. MvsFor(p) \in M!Managers
  BY MvOps DEF Shape, MvsFor
<1>7. mv' \in M!Managers'
  <2>1. M!Take(MvsFor(p)) = [MvsFor(p) EXCEPT ![M!NextFree(MvsFor(p))] = {"busy"}]
    BY DEF M!Take
  <2>2. {"busy"} \in SUBSET M!Flags
    BY DEF M!Flags
  <2>3. MvsFor(p) \in [conf.mvs -> SUBSET M!Flags]
    BY <1>6 DEF M!Managers
  <2>4. mv' \in [conf.mvs -> SUBSET M!Flags]
    BY <1>1, <2>1, <2>2, <2>3
  <2> QED BY <1>1, <2>4 DEF M!Managers
<1>8. mvOf' \in [conf'.pics -> conf'.mvs]
  BY <1>1, <1>4, <1>5 DEF Shape
<1>9. queue' \in Seq(conf'.pics) /\ out' \in conf'.pics \cup {NoBuf}
  <2>1. TakenOff(queue, Front(queue), Rest(queue), conf.pics)
    BY <1>3, HeadOff DEF Shape
  <2> QED BY <1>1, <2>1 DEF TakenOff
<1>10. cur' # None
  <2>1. cur' \in [p : S!AnyPicture, buf : Nat]
    BY <1>1, <1>2, <1>3, <1>4
  <2> QED BY <2>1, ConfigsAssumption
<1>11. left' \in 0..conf'.c.length /\ base' \in Int /\ maxPoc' \in Int
  BY <1>1, <1>2, <1>3
<1>12. stream'.fresh = FALSE /\ flush' = FALSE
  <2>1. stream'.fresh = FALSE
    BY <1>1 DEF S!Advance
  <2> QED BY <1>1, <1>2, <2>1
<1>13. /\ IsFiniteSet(waiting') /\ mapped' \subseteq conf'.pics /\ shown' \in Int
       /\ \A e \in waiting' : e.buf \in conf'.pics /\ e.poc \in Int /\ e = [buf |-> e.buf, poc |-> e.poc]
       /\ Fits(conf'.c) => Cardinality(waiting') <= conf'.delay /\ (lost' => conf'.c.lossy)
  BY <1>1 DEF Shape
<1> QED BY <1>7, <1>8, <1>9, <1>10, <1>11, <1>12, <1>13 DEF Shape

\* What a call that begins does to the buffers and the display.
Started(p, b, v) ==
  /\ b \in conf.pics /\ pic[b] = {} /\ b \notin mapped /\ b \notin Refd /\ b \notin Live
  /\ v \in conf.mvs /\ mv[v] = {} /\ cur = None /\ out = NoBuf /\ conf' = conf /\ lost' = lost
  /\ stream' = S!Advance(stream, p, conf.c) /\ left' = left - 1 /\ base' = Base(p)
  /\ \A d \in conf.pics : /\ pic'[d] = IF d = b THEN {"busy"} ELSE pic'[d]
                          /\ d # b => \/ pic'[d] = pic[d]
                                      \/ pic[d] = {} /\ d \in mapped /\ pic'[d] = {"busy", "IO"}
                          /\ mvOf'[d] = IF d = b THEN v ELSE mvOf[d]
                          /\ holds'[d] = IF d = b THEN p.key ELSE holds[d]
  /\ \A u \in conf.mvs : mv'[u] = IF u = v THEN {"busy"} ELSE mv[u]
  /\ Bufs(lists') = Bufs(lists) /\ cur'.p = p /\ cur'.buf = b /\ cur' # None
  /\ out' = Front(queue) /\ queue' = Rest(queue) /\ waiting' = waiting
  /\ mapped' = mapped /\ due' = due /\ shown' = shown /\ ~ flush /\ ~ flush'
  /\ Refd' = Refd /\ Live' = Live /\ Waiting' = Waiting /\ Out' \cup Queued' = Queued
  /\ Out = {} /\ Live = Waiting \cup Queued

LEMMA StartStarts ==
  ASSUME DispInv, Whole, NEW p \in Coming, StartPicture(p)
  PROVE  \E b, v : Started(p, b, v)
<1> DEFINE b == P!NextFree(PicsFor(p))
           v == M!NextFree(MvsFor(p))
           m == PicsFor(p)
<1>1. StepInv /\ Shape /\ MvFlags
  BY DEF DispInv
<1>2. Available
  BY DEF StartPicture, Parsed
<1>3. Got(p, b, v)
  BY <1>2, GetsBuffers
<1>4. /\ cur = None /\ out = NoBuf /\ ~ flush /\ p \in S!AnyPicture /\ conf \in {Setup(c) : c \in Configs}
  BY <1>1, ComingFacts
<1>5. /\ conf' = conf /\ lost' = lost /\ stream' = S!Advance(stream, p, conf.c) /\ left' = left - 1
      /\ base' = Base(p) /\ pic' = P!Take(m) /\ mv' = M!Take(MvsFor(p))
      /\ mvOf' = [mvOf EXCEPT ![b] = v] /\ cur' = [p |-> p, buf |-> b]
      /\ holds' = [holds EXCEPT ![b] = p.key] /\ out' = Front(queue) /\ queue' = Rest(queue)
      /\ UNCHANGED <<waiting, flush, mapped, due, shown>>
  BY DEF StartPicture, Parsed, config
<1>6. pic' = [m EXCEPT ![b] = {"busy"}] /\ mv' = [MvsFor(p) EXCEPT ![v] = {"busy"}]
  BY <1>5 DEF P!Take, M!Take
<1>7. Bufs(lists') = Bufs(lists)
  BY <1>1, StartBufs
<1>8. conf.pics \subseteq Nat /\ NoBuf \notin conf.pics /\ holds \in [conf.pics -> Int]
  BY <1>1, <1>4, SetupSizes DEF StepInv
<1> HIDE DEF b, v, m
<1>9. /\ b \in conf.pics /\ pic[b] = {} /\ b \notin mapped /\ b \notin Refd /\ b \notin Live
      /\ v \in conf.mvs /\ mv[v] = {} /\ MvsFor(p) = mv /\ m \in P!Managers
      /\ \A d \in conf.pics : m[d] = pic[d] \/ (pic[d] = {} /\ d \in mapped /\ m[d] = {"busy", "IO"})
  BY <1>3 DEF Got, m
<1>10. \A d \in conf.pics : pic'[d] = IF d = b THEN {"busy"} ELSE m[d]
  BY <1>6, <1>9 DEF P!Managers
<1>11. \A u \in conf.mvs : mv'[u] = IF u = v THEN {"busy"} ELSE mv[u]
  BY <1>1, <1>6, <1>9 DEF Shape, M!Managers
<1>12. \A d \in conf.pics : mvOf'[d] = IF d = b THEN v ELSE mvOf[d]
  BY <1>1, <1>5 DEF Shape
<1>13. \A d \in conf.pics : holds'[d] = IF d = b THEN p.key ELSE holds[d]
  BY <1>5, <1>8
<1>14. cur' # None /\ cur'.p = p /\ cur'.buf = b
  <2>1. cur' \in [p : S!AnyPicture, buf : Nat]
    BY <1>4, <1>5, <1>8, <1>9
  <2> QED BY <1>5, <2>1, ConfigsAssumption
<1>15. Refd' = Refd
  <2>1. \A d \in conf.pics : "REF" \in pic'[d] <=> "REF" \in pic[d]
    BY <1>9, <1>10
  <2> QED BY <1>5, <2>1 DEF Refd
<1>16. Waiting' = Waiting /\ Queued = InQueue(queue) /\ Queued' = InQueue(queue') /\ Out = {}
       /\ Out' = {Front(queue)} \ {NoBuf}
  BY <1>4, <1>5 DEF Waiting, Queued, InQueue, Out
<1>17. Out' \cup Queued' = Queued
  <2>1. TakenOff(queue, Front(queue), Rest(queue), conf.pics)
    BY <1>1, <1>8, HeadOff DEF Shape
  <2> QED BY <1>5, <1>16, <2>1 DEF TakenOff
<1>18. Live = Waiting \cup Queued /\ Live' = Live
  BY <1>16, <1>17 DEF Live
<1>19. ~ flush'
  BY <1>4, <1>5
<1>20. \A d \in conf.pics : /\ pic'[d] = IF d = b THEN {"busy"} ELSE pic'[d]
                            /\ d # b => \/ pic'[d] = pic[d]
                                        \/ pic[d] = {} /\ d \in mapped /\ pic'[d] = {"busy", "IO"}
  BY <1>9, <1>10
<1>21. Started(p, b, v)
  BY <1>4, <1>5, <1>7, <1>9, <1>11, <1>12, <1>13, <1>14, <1>15, <1>16, <1>17, <1>18, <1>19, <1>20
     DEF Started
<1> QED BY <1>21

\* The buffers of a call that has begun.
LEMMA StartFlags ==
  ASSUME DispInv, Whole, NEW p \in Coming, NEW b, NEW v, Started(p, b, v)
  PROVE  Flags' /\ MvFlags'
<1>1. Flags /\ MvFlags /\ StepInv /\ Shape
  BY DEF DispInv
<1>2. p \in S!Pictures(stream, conf.c) /\ conf.c \in Configs /\ StreamOK(stream, conf.c)
  BY <1>1, ComingFacts
<1>3. stream.fresh => p.idr
  BY <1>2, NextPlace
<1>4. /\ b \in conf.pics /\ pic[b] = {} /\ b \notin mapped /\ b \notin Refd /\ b \notin Live
      /\ v \in conf.mvs /\ mv[v] = {} /\ cur = None /\ conf' = conf
      /\ Bufs(lists') = Bufs(lists) /\ cur'.p = p /\ cur'.buf = b /\ cur' # None
      /\ mapped' = mapped /\ Refd' = Refd /\ Live' = Live
      /\ pic'[b] = {"busy"} /\ mvOf'[b] = v
  BY DEF Started
<1>5. \A d \in conf.pics : /\ d # b => \/ pic'[d] = pic[d]
                                       \/ pic[d] = {} /\ d \in mapped /\ pic'[d] = {"busy", "IO"}
                           /\ d # b => mvOf'[d] = mvOf[d]
  BY DEF Started
<1>6. \A u \in conf.mvs : mv'[u] = IF u = v THEN {"busy"} ELSE mv[u]
  BY DEF Started
<1>7. /\ \A d \in conf.pics : /\ pic[d] \subseteq {"busy", "REF", "IO"}
                              /\ d \in Live => "IO" \in pic[d]
                              /\ "IO" \in pic[d] => d \in Live \cup mapped
                              /\ pic[d] # {"busy"}
      /\ mapped \cap Live = {} /\ (~ conf.c.shared => mapped = {})
      /\ Refd = IF stream.fresh THEN {} ELSE Bufs(lists)
  BY <1>1, <1>4 DEF Flags
<1>8. ASSUME NEW d \in conf.pics
      PROVE  /\ pic'[d] \subseteq {"busy", "REF", "IO"}
             /\ d \in Live => "IO" \in pic'[d]
             /\ "IO" \in pic'[d] => d \in Live \cup mapped
             /\ d = b => pic'[d] = {"busy"} /\ d \notin mapped
             /\ d # b => pic'[d] # {"busy"}
  <2>1. CASE d = b
    BY <1>4, <2>1
  <2>2. CASE d # b /\ pic'[d] = pic[d]
    BY <1>7, <2>2
  <2>3. CASE d # b /\ pic[d] = {} /\ d \in mapped /\ pic'[d] = {"busy", "IO"}
    BY <2>3
  <2> QED BY <1>5, <2>1, <2>2, <2>3
<1>9. IF p.idr THEN Refd \subseteq Bufs(lists) ELSE Refd = Bufs(lists)
  BY <1>3, <1>7
<1>10. Flags'
  BY <1>4, <1>7, <1>8, <1>9 DEF Flags
<1>11. /\ \A u \in conf.mvs : /\ mv[u] \subseteq {"busy", "REF"} /\ mv[u] # {"busy"}
                              /\ "REF" \in mv[u] <=> \E d \in Refd : mvOf[d] = u
       /\ \A x, y \in Refd : mvOf[x] = mvOf[y] => x = y
  BY <1>1, <1>4 DEF MvFlags, InUseNow
<1>12. \A d \in Refd : d \in conf.pics /\ mvOf'[d] = mvOf[d] /\ mvOf[d] # v
  <2> SUFFICES ASSUME NEW d \in Refd PROVE d \in conf.pics /\ mvOf'[d] = mvOf[d] /\ mvOf[d] # v
    OBVIOUS
  <2>1. d \in conf.pics /\ d # b
    BY <1>4 DEF Refd
  <2>2. mvOf[d] # v
    BY <1>4, <1>11
  <2> QED BY <1>5, <2>1, <2>2
<1>13. ASSUME NEW u \in conf.mvs
       PROVE  /\ mv'[u] \subseteq {"busy", "REF"}
              /\ "REF" \in mv'[u] <=> \E d \in Refd : mvOf'[d] = u
              /\ IF u = v THEN mv'[u] = {"busy"} ELSE mv'[u] # {"busy"}
  <2>1. CASE u = v
    BY <1>6, <1>12, <2>1
  <2>2. CASE u # v
    BY <1>6, <1>11, <1>12, <2>2
  <2> QED BY <2>1, <2>2
<1>14. InUseNow' = Refd \cup {b}
  BY <1>4 DEF InUseNow
<1>15. \A x, y \in Refd \cup {b} : mvOf'[x] = mvOf'[y] => x = y
  BY <1>4, <1>11, <1>12
<1>16. MvFlags'
  BY <1>4, <1>13, <1>14, <1>15 DEF MvFlags
<1> QED BY <1>10, <1>16

\* The place of the next picture, and where keys are.
LEMMA StartPlace ==
  ASSUME DispInv, Whole, NEW p \in Coming, NEW b, NEW v, Started(p, b, v)
  PROVE  /\ Restart(p) => BeginsAnew(stream, p, stream')
         /\ ~ Restart(p) => GoesOn(stream, p, stream', conf.c) /\ base' = base
         /\ p.key \in Int /\ p.poc \in Nat /\ left \in 1..conf.c.length /\ stream'.fresh = FALSE
         /\ IsFiniteSet(stream.sent) /\ stream.sent \subseteq Nat /\ stream.period \in Nat
         /\ \A x \in Int : Passed(x) => PassedIn(x, stream') /\ x < p.key
<1>1. StepInv /\ Shape /\ stream' = S!Advance(stream, p, conf.c) /\ base' = Base(p)
  BY DEF DispInv, Started
<1>2. /\ p \in S!Pictures(stream, conf.c) /\ conf.c \in Configs /\ StreamOK(stream, conf.c)
      /\ p.poc \in Nat /\ p.key \in Int /\ left \in 1..conf.c.length
      /\ (p.poc # 0 => Base(p) = base)
  BY <1>1, ComingFacts
<1>3. /\ Restart(p) => BeginsAnew(stream, p, stream')
      /\ ~ Restart(p) => GoesOn(stream, p, stream', conf.c)
  BY <1>1, <1>2, NextPlace
<1>4. ~ Restart(p) => base' = base
  <2>1. ~ Restart(p) => p.poc >= 1
    BY <1>3 DEF GoesOn
  <2> QED BY <1>1, <1>2, <2>1
<1>5. stream'.fresh = FALSE
  BY <1>3 DEF GoesOn, BeginsAnew
<1>6. IsFiniteSet(stream.sent) /\ stream.sent \subseteq Nat /\ stream.period \in Nat
  BY <1>2, SentFacts DEF StreamOK
<1>7. ASSUME NEW x \in Int, Passed(x) PROVE PassedIn(x, stream') /\ x < p.key
  BY <1>1, <1>2, <1>7, PassedStays DEF Passed
<1> QED BY <1>2, <1>3, <1>4, <1>5, <1>6, <1>7

\* The order of what waits and is queued, once a call has begun.
LEMMA StartOrder ==
  ASSUME DispInv, Whole, NEW p \in Coming, NEW b, NEW v, Started(p, b, v)
  PROVE  InOrder'
<1>1. StepInv /\ Shape /\ InOrder /\ Sending
  BY DEF DispInv
<1>2. /\ b \in conf.pics /\ b \notin Live /\ cur = None /\ out = NoBuf /\ conf' = conf
      /\ cur'.p = p /\ cur' # None /\ out' = Front(queue) /\ queue' = Rest(queue)
      /\ waiting' = waiting /\ due' = due /\ shown' = shown /\ ~ flush /\ ~ flush'
      /\ Live' = Live /\ Out' \cup Queued' = Queued /\ Out = {} /\ Live = Waiting \cup Queued
  BY DEF Started
<1>3. \A d \in conf.pics : holds'[d] = IF d = b THEN p.key ELSE holds[d]
  BY DEF Started
<1>4. /\ Restart(p) => BeginsAnew(stream, p, stream')
      /\ ~ Restart(p) => GoesOn(stream, p, stream', conf.c) /\ base' = base
      /\ p.key \in Int /\ p.poc \in Nat /\ stream'.fresh = FALSE
      /\ stream.sent \subseteq Nat /\ stream.period \in Nat
      /\ \A x \in Int : Passed(x) => PassedIn(x, stream') /\ x < p.key
  BY StartPlace
<1>5. holds \in [conf.pics -> Int] /\ NoBuf \notin conf.pics /\ stream.fresh \in BOOLEAN
  BY <1>1, WholeFacts
<1>6. /\ Live \subseteq conf.pics /\ Queued = InQueue(queue)
      /\ \A d \in Live : holds[d] \in Int /\ shown < holds[d]
  BY <1>1, <1>5, LiveFacts
<1>7. \A d \in Live : holds'[d] = holds[d]
  BY <1>2, <1>3, <1>6
<1>8. \A e \in waiting : e.buf \in Live
  BY <1>2 DEF Waiting
<1>9. TakenOff(queue, out', queue', conf.pics)
  BY <1>1, <1>2, <1>5, HeadOff DEF Shape
<1>10. /\ Rising(queue, holds) /\ Arranged(waiting, holds)
       /\ \A d \in Queued : shown < holds[d]
       /\ \A e \in waiting : shown < holds[e.buf] /\ \A d \in Queued : holds[d] < holds[e.buf]
       /\ Passed(shown) /\ \A d \in Queued : Passed(holds[d])
       /\ stream.fresh => waiting = {}
       /\ \A e \in waiting : Placed(e, stream.sent)
       /\ due = {holds[d] : d \in Live}
  BY <1>1, <1>2 DEF InOrder, Above
<1>11. Out' \subseteq Queued /\ Queued' \subseteq Queued
  BY <1>2
<1>12. Queued' = InQueue(queue')
  BY DEF Queued, InQueue
<1>13. Rising(queue', holds')
  <2>1. Rising(queue', holds)
    BY <1>9, <1>10 DEF TakenOff
  <2>2. \A i \in DOMAIN queue' : holds'[queue'[i]] = holds[queue'[i]]
    <3>1. \A i \in DOMAIN queue' : queue'[i] \in Live
      BY <1>2, <1>11, <1>12 DEF InQueue
    <3> QED BY <1>7, <3>1
  <2> QED BY <2>1, <2>2 DEF Rising
<1>14. \A d \in Out' : shown' < holds'[d]
  BY <1>2, <1>7, <1>10, <1>11
<1>15. \A d \in Queued' : shown' < holds'[d] /\ (\A a \in Out' : holds'[a] < holds'[d])
  <2> SUFFICES ASSUME NEW d \in Queued' PROVE shown' < holds'[d] /\ (\A a \in Out' : holds'[a] < holds'[d])
    OBVIOUS
  <2>1. d \in Live /\ d \in Queued /\ d \in InQueue(queue')
    BY <1>2, <1>11, <1>12
  <2>2. ASSUME NEW a \in Out' PROVE holds'[a] < holds'[d]
    <3>1. a = out' /\ a # NoBuf /\ a \in Live
      BY <1>2, <1>11 DEF Out
    <3>2. holds[a] < holds[d]
      BY <1>9, <1>10, <2>1, <3>1 DEF TakenOff
    <3> QED BY <1>7, <2>1, <3>1, <3>2
  <2> QED BY <1>2, <1>7, <1>10, <2>1, <2>2
<1>16. \A e \in waiting' : shown' < holds'[e.buf] /\ \A d \in Out' \cup Queued' : holds'[d] < holds'[e.buf]
  <2> SUFFICES ASSUME NEW e \in waiting
               PROVE  shown < holds'[e.buf] /\ \A d \in Queued : holds'[d] < holds'[e.buf]
    BY <1>2
  <2>1. holds'[e.buf] = holds[e.buf] /\ \A d \in Queued : holds'[d] = holds[d]
    BY <1>2, <1>7, <1>8
  <2> QED BY <1>10, <2>1
<1>17. Arranged(waiting', holds')
  <2>1. \A e \in waiting : holds'[e.buf] = holds[e.buf]
    BY <1>7, <1>8
  <2> QED BY <1>2, <1>10, <2>1 DEF Arranged
<1>18. Passed(shown)' /\ \A d \in Out' \cup Queued' : PassedIn(holds'[d], stream') /\ holds'[d] < p.key
  <2>1. PassedIn(shown, stream')
    BY <1>1, <1>4, <1>10 DEF Shape
  <2>2. Passed(shown)'
    BY <1>2, <2>1 DEF Passed, PassedIn
  <2>3. ASSUME NEW d \in Queued PROVE PassedIn(holds'[d], stream') /\ holds'[d] < p.key
    <3>1. holds'[d] = holds[d] /\ holds[d] \in Int /\ Passed(holds[d])
      BY <1>2, <1>6, <1>7, <1>10
    <3> QED BY <1>4, <3>1
  <2> QED BY <1>2, <2>2, <2>3
<1>19. \A d \in Out' \cup Queued' : Passed(holds[d])'
  BY <1>2, <1>18 DEF Passed, PassedIn
<1>20. shown' < p.key
  BY <1>1, <1>2, <1>4, <1>10 DEF Shape
<1>21. ASSUME Restart(p), NEW e \in waiting PROVE holds'[e.buf] < p.key
  <2>1. PICK k \in stream.sent : holds[e.buf] = KeyOf(k)
    BY <1>10 DEF Placed
  <2>2. k \in Nat /\ k + left * Step(conf.c) < PocSpan /\ left \in Nat
    BY <1>1, <1>4, <2>1 DEF Sending, Shape
  <2>3. Step(conf.c) \in Nat
    BY <1>1, WholeFacts, FitFacts
  <2>4. left * Step(conf.c) >= 0 /\ left * Step(conf.c) \in Int
    BY <2>2, <2>3
  <2>5. KeyOf(k) = S!Key(stream.period, 0) + k /\ p.key = S!Key(stream.period, 0) + PocSpan
        /\ S!Key(stream.period, 0) \in Int /\ PocSpan \in Nat
    <3>1. PICK d \in Nat : d = stream.period
      BY <1>4
    <3>2. p.key = S!Key(d + 1, 0)
      BY <1>4, <1>21, <3>1 DEF BeginsAnew
    <3>3. /\ PocSpan \in Nat /\ S!Key(d, 0) \in Int /\ S!Key(d + 1, 0) = S!Key(d, 0) + PocSpan
          /\ \A i \in Int : S!Key(d, i) = S!Key(d, 0) + i
      BY KeyFacts
    <3>4. KeyOf(k) = S!Key(d, k) /\ k \in Int
      BY <2>2, <3>1 DEF KeyOf
    <3> QED BY <3>1, <3>2, <3>3, <3>4
  <2>6. KeyOf(k) < p.key
    BY <2>2, <2>4, <2>5
  <2> QED BY <1>7, <1>8, <2>1, <2>6
<1>22. ASSUME ~ Restart(p), NEW e \in waiting
       PROVE  \E k \in stream'.sent \ {p.poc} : holds'[e.buf] = S!Key(stream'.period, k) /\ e.poc = base' + k
  <2>1. PICK k \in stream.sent : holds[e.buf] = KeyOf(k) /\ e.poc = base + k
    BY <1>10 DEF Placed
  <2>2. /\ p.poc \notin stream.sent /\ stream'.period = stream.period
        /\ stream'.sent = stream.sent \cup {p.poc} /\ base' = base
    BY <1>4, <1>22 DEF GoesOn
  <2>3. holds'[e.buf] = holds[e.buf]
    BY <1>7, <1>8
  <2> QED BY <2>1, <2>2, <2>3 DEF KeyOf
<1>23. due' = {holds'[d] : d \in Live'}
  <2>1. {holds'[d] : d \in Live} = {holds[d] : d \in Live}
    BY <1>7
  <2> QED BY <1>2, <1>10, <2>1
<1>24. \A e \in waiting' : Above(holds[e.buf])'
  BY <1>16 DEF Above
<1>25. Above(cur.p.key)'
  BY <1>2, <1>18, <1>20 DEF Above
<1>26. IF Restart(p) THEN \A e \in waiting' : holds'[e.buf] < p.key
       ELSE \A e \in waiting' : \E k \in stream'.sent \ {p.poc} :
              holds'[e.buf] = S!Key(stream'.period, k) /\ e.poc = base' + k
  BY <1>2, <1>21, <1>22
<1>27. (IF Restart(cur.p) THEN \A e \in waiting : holds[e.buf] < cur.p.key
        ELSE \A e \in waiting : Placed(e, stream.sent \ {cur.p.poc}))'
  BY <1>2, <1>26 DEF Placed, KeyOf, Restart
<1> QED BY <1>2, <1>4, <1>13, <1>14, <1>15, <1>17, <1>18, <1>19, <1>23, <1>24, <1>25, <1>27 DEF InOrder

\* What has been sent.
LEMMA StartSending ==
  ASSUME DispInv, Whole, NEW p \in Coming, NEW b, NEW v, Started(p, b, v)
  PROVE  Sending'
<1>1. StepInv /\ Shape /\ Sending /\ Fits(conf.c) /\ conf \in {Setup(c) : c \in Configs}
  BY WholeFacts DEF DispInv
<1>2. conf' = conf /\ left' = left - 1 /\ cur'.p = p /\ cur' # None
  BY DEF Started
<1>3. /\ Restart(p) => BeginsAnew(stream, p, stream')
      /\ ~ Restart(p) => GoesOn(stream, p, stream', conf.c)
      /\ p.poc \in Nat /\ left \in 1..conf.c.length /\ stream'.fresh = FALSE
      /\ IsFiniteSet(stream.sent) /\ stream.sent \subseteq Nat
  BY StartPlace
<1>4. /\ conf.c.length \in Nat /\ Step(conf.c) \in Nat /\ conf.c.length * Step(conf.c) < PocSpan
      /\ conf.c.reorder \in Nat /\ conf.c.trail \in Nat /\ PocSpan \in Nat
  BY <1>1, FitFacts, DecPicturesAssumption
<1> DEFINE n == Step(conf.c)
           room == left * n
           most == Most(conf.c.reorder, conf.c.trail)
<1>5. left' * n = room - n /\ left' * n \in Nat /\ room \in Nat /\ left' * n <= conf.c.length * n
  <2>1. PICK i \in Nat, l \in Nat, z \in Nat : i = left /\ l = conf.c.length /\ z = n
    BY <1>3, <1>4
  <2>2. i >= 1 /\ i <= l
    BY <1>3, <2>1
  <2>3. (i - 1) * z = i * z - z /\ i * z \in Nat
    OBVIOUS
  <2>4. (i - 1) * z \in Nat
    <3>1. i - 1 \in Nat
      BY <2>2
    <3> QED BY <3>1
  <2>5. (i - 1) * z <= l * z
    <3>1. l - (i - 1) \in Nat
      BY <2>2
    <3>2. (l - (i - 1)) * z \in Nat
      BY <3>1
    <3>3. (l - (i - 1)) * z = l * z - (i - 1) * z
      OBVIOUS
    <3>4. l * z \in Nat
      OBVIOUS
    <3> QED BY <2>4, <3>2, <3>3, <3>4
  <2> QED BY <1>2, <2>1, <2>3, <2>4, <2>5
<1>6. most \in Nat /\ conf.c.reorder <= most /\ conf.c.trail <= most
  BY <1>4 DEF Most
<1> HIDE DEF most, room
<1>7. CASE Restart(p)
  <2>1. stream'.sent = {0} /\ stream'.last = 0 /\ p.key = S!Key(stream'.period, 0)
    BY <1>3, <1>7 DEF BeginsAnew
  <2>2. Later({0}, 0) = {} /\ Cardinality({}) = 0
    BY FS_EmptySet DEF Later
  <2>3. Cardinality(Later(stream'.sent, stream'.last)) <= most /\ stream'.last \in stream'.sent
    BY <1>6, <2>1, <2>2
  <2>4. \A q \in stream'.sent : q + left' * n < PocSpan
    <3>1. PICK x \in Nat, y \in Nat : x = left' * n /\ y = conf.c.length * n
      BY <1>4, <1>5
    <3>2. x <= y /\ y < PocSpan
      BY <1>4, <1>5, <3>1
    <3>3. 0 + x < PocSpan
      BY <1>4, <3>2
    <3> QED BY <2>1, <3>1, <3>3
  <2>5. p.key = KeyOf(0)' /\ Restart(cur.p)'
    BY <1>2, <1>7, <2>1 DEF KeyOf, Restart
  <2> QED BY <1>2, <1>3, <2>1, <2>3, <2>4, <2>5 DEF Sending, most
<1>8. CASE ~ Restart(p)
  <2>1. /\ stream.fresh = FALSE /\ p.poc \notin stream.sent /\ p.poc >= 1
        /\ \E q \in stream.sent : p.poc <= q + n
        /\ Cardinality(Later(stream.sent, p.poc)) <= conf.c.reorder
        /\ p.key = S!Key(stream.period, p.poc)
        /\ stream'.period = stream.period /\ stream'.sent = stream.sent \cup {p.poc}
        /\ stream'.last = IF p.ref THEN p.poc ELSE stream.last
        /\ ~ p.ref => Cardinality(Later(stream.sent \cup {p.poc}, stream.last)) <= conf.c.trail
    BY <1>3, <1>8 DEF GoesOn
  <2>2. \A q \in stream.sent : q + room < PocSpan
    BY <1>1 DEF Sending, room
  <2>3. \A q \in stream'.sent : q + left' * n < PocSpan
    <3>1. PICK z \in Nat : z = n
      BY <1>4
    <3>2. PICK x \in Nat : x = left' * n /\ room = x + z
      <4>1. left' * n = room - z /\ left' * n \in Nat /\ room \in Nat
        BY <1>5, <3>1
      <4> QED BY <4>1
    <3>3. \A q \in stream.sent : q + x < PocSpan
      <4> SUFFICES ASSUME NEW q \in stream.sent PROVE q + x < PocSpan
        OBVIOUS
      <4>1. q \in Nat /\ q + (x + z) < PocSpan
        BY <1>3, <2>2, <3>2
      <4> QED BY <1>4, <4>1
    <3>4. p.poc + x < PocSpan
      <4>1. PICK q \in stream.sent : p.poc <= q + z
        BY <2>1, <3>1
      <4>2. q \in Nat /\ q + (x + z) < PocSpan
        BY <1>3, <2>2, <3>2, <4>1
      <4> QED BY <1>3, <1>4, <4>1, <4>2
    <3> QED BY <2>1, <3>2, <3>3, <3>4
  <2>4. Later(stream'.sent, p.poc) = Later(stream.sent, p.poc)
    <3>1. ~ (p.poc > p.poc)
      BY <1>3
    <3> QED BY <2>1, <3>1 DEF Later
  <2>5. Cardinality(Later(stream.sent, p.poc)) \in Nat
        /\ Cardinality(Later(stream.sent \cup {p.poc}, stream.last)) \in Nat
    <3>1. IsFiniteSet(stream.sent \cup {p.poc})
      BY <1>3, FS_AddElement
    <3>2. /\ Later(stream.sent, p.poc) \subseteq stream.sent
          /\ Later(stream.sent \cup {p.poc}, stream.last) \subseteq stream.sent \cup {p.poc}
      BY DEF Later
    <3> QED BY <1>3, <3>1, <3>2, PartNoMore
  <2>6. stream'.last \in stream'.sent /\ Cardinality(Later(stream'.sent, stream'.last)) <= most
    <3>1. CASE p.ref
      <4>1. stream'.last = p.poc /\ Cardinality(Later(stream.sent, p.poc)) <= conf.c.reorder
        BY <2>1, <3>1
      <4> QED BY <1>4, <1>6, <2>1, <2>4, <2>5, <4>1
    <3>2. CASE ~ p.ref
      <4>1. stream'.last = stream.last /\ stream.last \in stream.sent
            /\ Cardinality(Later(stream'.sent, stream.last)) <= conf.c.trail
        BY <1>1, <2>1, <3>2 DEF Sending
      <4> QED BY <1>4, <1>6, <2>1, <2>5, <4>1
    <3> QED BY <3>1, <3>2
  <2>7. p.poc \in stream'.sent /\ p.poc # 0 /\ (p.ref => stream'.last = p.poc)
        /\ Cardinality(Later(stream'.sent, p.poc)) <= conf.c.reorder
    BY <1>3, <2>1, <2>4
  <2>8. p.key = KeyOf(p.poc)' /\ ~ Restart(cur.p)'
    BY <1>2, <1>8, <2>1 DEF KeyOf, Restart
  <2> QED BY <1>2, <1>3, <2>3, <2>6, <2>7, <2>8 DEF Sending, most, KeyOf
<1> QED BY <1>7, <1>8

\* The last reference, and how many wait.
LEMMA StartLast ==
  ASSUME DispInv, Whole, NEW p \in Coming, NEW b, NEW v, Started(p, b, v)
  PROVE  LastRef' /\ Counts'
<1>1. StepInv /\ Shape /\ Flags /\ InOrder /\ LastRef /\ Counts
  BY DEF DispInv
<1>2. /\ b \notin Refd /\ cur = None /\ conf' = conf /\ cur'.p = p /\ cur' # None
      /\ shown' = shown /\ Live' = Live /\ Bufs(lists') = Bufs(lists) /\ ~ flush
      /\ waiting' = waiting /\ out' = Front(queue) /\ queue' = Rest(queue)
  BY DEF Started
<1>3. \A d \in conf.pics : d # b => holds'[d] = holds[d]
  BY DEF Started
<1>4. /\ Restart(p) => BeginsAnew(stream, p, stream')
      /\ ~ Restart(p) => GoesOn(stream, p, stream', conf.c)
  BY StartPlace
<1>5. /\ conf \in {Setup(c) : c \in Configs} /\ Fits(conf.c) /\ NoBuf \notin conf.pics
      /\ \A d \in Bufs(lists) : d \in conf.pics
  BY <1>1, WholeFacts
<1>6. ASSUME ~ p.ref
      PROVE \E d \in Bufs(lists) : holds'[d] = S!Key(stream'.period, stream'.last)
                                   /\ (d \in Live \/ holds'[d] <= shown)
  <2>1. ~ Restart(p)
    BY <1>4, <1>6 DEF BeginsAnew
  <2>2. stream.fresh = FALSE /\ stream'.period = stream.period /\ stream'.last = stream.last
    BY <1>4, <1>6, <2>1 DEF GoesOn
  <2>3. PICK d \in Bufs(lists) : holds[d] = KeyOf(stream.last) /\ (d \in Live \/ holds[d] <= shown)
    BY <1>1, <1>2, <2>2 DEF LastRef
  <2>4. Refd = Bufs(lists)
    BY <1>1, <1>2, <2>2 DEF Flags
  <2>5. d # b /\ d \in conf.pics
    BY <1>2, <1>5, <2>4
  <2> QED BY <1>3, <2>2, <2>3, <2>5 DEF KeyOf
<1>7. LastRef'
  BY <1>2, <1>6 DEF LastRef, KeyOf
<1>8. TakenOff(queue, out', queue', conf.pics)
  BY <1>1, <1>2, <1>5, HeadOff DEF Shape
<1>9. conf.c.frameOut => waiting' = {} /\ queue' = <<>> /\ out' = NoBuf
  BY <1>1, <1>2, <1>8 DEF Counts, TakenOff
<1>10. ASSUME ~ conf.c.frameOut PROVE Cardinality(waiting) + Len(queue') <= conf.delay
  <2>1. /\ Cardinality(waiting) \in Nat /\ Len(queue) \in Nat /\ Len(queue') \in Nat
        /\ conf.delay \in Nat /\ Cardinality(waiting) <= conf.delay
    <3>1. Cardinality(waiting) \in Nat
      BY <1>1, FS_CardinalityType DEF Shape
    <3>2. Len(queue) \in Nat /\ Len(queue') \in Nat
      BY <1>8 DEF TakenOff
    <3>3. conf.delay \in Nat
      BY <1>5, FitFacts
    <3>4. Cardinality(waiting) <= conf.delay
      BY <1>1, <1>5 DEF Shape
    <3> QED BY <3>1, <3>2, <3>3, <3>4
  <2>2. CASE queue = <<>>
    <3>1. Len(queue') = 0
      <4>1. queue' = <<>>
        BY <1>8, <2>2 DEF TakenOff
      <4> QED BY <4>1
    <3> QED BY <2>1, <3>1
  <2>3. CASE queue # <<>>
    <3>1. ~ stream.fresh
      BY <1>1, <1>2, <2>3 DEF InOrder
    <3>2. Cardinality(waiting) + Len(queue) <= conf.delay + 1
      BY <1>1, <1>2, <1>10, <3>1 DEF Counts
    <3>3. Len(queue') = Len(queue) - 1
      BY <1>8, <2>3 DEF TakenOff
    <3> QED BY <2>1, <3>2, <3>3
  <2> QED BY <2>2, <2>3
<1>11. Counts'
  BY <1>2, <1>9, <1>10 DEF Counts
<1> QED BY <1>7, <1>11

\* A call that begins keeps the invariant.
LEMMA DispStart ==
  ASSUME DispInv, NEW p \in Coming, StartPicture(p)
  PROVE  DispInv'
<1>1. StepInv' /\ Shape'
  BY StepStart, StartShape DEF DispInv
<1>2. Whole' => Whole
  BY DEF Whole, StartPicture, config
<1>3. ASSUME Whole PROVE (Flags /\ MvFlags /\ InOrder /\ Sending /\ LastRef /\ Counts)'
  <2>1. PICK b, v : Started(p, b, v)
    BY <1>3, StartStarts
  <2> QED BY <1>3, <2>1, StartFlags, StartOrder, StartSending, StartLast
<1> QED BY <1>1, <1>2, <1>3 DEF DispInv

-----------------------------------------------------------------------------
(* Refusals and losses, and the steps of the application. *)

\* No picture of a complete stream is refused.
LEMMA DispRefuse ==
  ASSUME DispInv, NEW p \in Coming, Refuse(p)
  PROVE  Shape' /\ ~ Whole'
<1>1. /\ conf' = conf /\ left' = left - 1 /\ lost' = TRUE /\ base' = Base(p)
      /\ maxPoc' = (IF p.poc = 0 THEN 0 ELSE NewMax(p)) /\ mv' = MvsFor(p) /\ Available
      /\ stream' = S!Advance(stream, p, conf.c) /\ (~ HasPic(p) \/ ~ HasMv(p))
      /\ UNCHANGED <<mvOf, waiting, queue, cur, out, flush, mapped, due, shown>>
  BY DEF Refuse, Parsed, config, ghosts
<1>2. Shape /\ StepInv
  BY DEF DispInv
<1>3. /\ left \in 1..conf.c.length /\ Base(p) \in Int /\ NewMax(p) \in Int /\ cur = None
  BY <1>2, ComingFacts
<1>4. ~ Whole
  <2> SUFFICES ASSUME Whole PROVE FALSE
    OBVIOUS
  <2>1. HasPic(p) /\ HasMv(p)
    BY <1>1, GetsBuffers DEF Got
  <2> QED BY <1>1, <2>1
<1>5. Fits(conf.c) => conf.c.lossy
  BY <1>2, <1>4 DEF Whole, Shape
<1>6. mv' \in M!Managers'
  <2>1. MvsFor(p) \in M!Managers
    BY <1>2, MvOps DEF Shape, MvsFor
  <2> QED BY <1>1, <2>1 DEF M!Managers
<1>7. left' \in 0..conf'.c.length /\ base' \in Int /\ maxPoc' \in Int
  <2>1. conf.c.length \in Nat
    BY <1>2, ConfigFacts, SetupFacts DEF StepInv, WalkInv
  <2> QED BY <1>1, <1>3, <2>1
<1>8. stream'.fresh = FALSE
  BY <1>1 DEF S!Advance
<1>9. /\ IsFiniteSet(waiting') /\ queue' \in Seq(conf'.pics) /\ out' \in conf'.pics \cup {NoBuf}
      /\ \A e \in waiting' : e.buf \in conf'.pics /\ e.poc \in Int /\ e = [buf |-> e.buf, poc |-> e.poc]
      /\ mvOf' \in [conf'.pics -> conf'.mvs] /\ mapped' \subseteq conf'.pics /\ shown' \in Int
      /\ (flush' => cur' = None) /\ (cur' = None => out' = NoBuf)
      /\ Fits(conf'.c) => Cardinality(waiting') <= conf'.delay
  BY <1>1, <1>2 DEF Shape
<1> QED BY <1>1, <1>5, <1>6, <1>7, <1>8, <1>9 DEF Shape, Whole

\* A picture that does not reach the decoder.
LEMMA DispLose ==
  ASSUME DispInv, NEW p \in Coming, Lose(p)
  PROVE  Shape' /\ ~ Whole'
<1>1. /\ conf' = conf /\ left' = left - 1 /\ lost' = TRUE /\ conf.c.lossy
      /\ stream' = S!Advance(stream, p, conf.c)
      /\ UNCHANGED <<mv, mvOf, waiting, queue, base, maxPoc, cur, out, flush, mapped, due, shown>>
  BY DEF Lose, config, ghosts, order, bufs
<1>2. Shape /\ StepInv
  BY DEF DispInv
<1>3. left \in 1..conf.c.length
  BY <1>2, ComingFacts
<1>4. left' \in 0..conf'.c.length
  <2>1. conf.c.length \in Nat
    BY <1>2, ConfigFacts, SetupFacts DEF StepInv, WalkInv
  <2> QED BY <1>1, <1>3, <2>1
<1>5. stream'.fresh = FALSE
  BY <1>1 DEF S!Advance
<1> QED BY <1>1, <1>2, <1>4, <1>5 DEF Shape, Whole, M!Managers

\* A step that leaves the stream and the display alone.
LEMMA SameDisplay ==
  ASSUME Shape, mapped' \subseteq conf.pics,
         UNCHANGED <<conf, stream, left, lost, mv, mvOf, lists, waiting, queue, base, maxPoc, cur, out,
                     flush, holds, due, shown>>
  PROVE  /\ Shape' /\ (Whole' <=> Whole) /\ Live' = Live
         /\ InOrder /\ Sending /\ LastRef /\ Counts => (InOrder /\ Sending /\ LastRef /\ Counts)'
<1>1. Waiting' = Waiting /\ Queued' = Queued /\ Out' = Out
  BY DEF Waiting, Queued, Out
<1>2. Live' = Live
  BY <1>1 DEF Live
<1>3. Bufs(lists') = Bufs(lists)
  OBVIOUS
<1>4. Shape' /\ (Whole' <=> Whole)
  BY DEF Shape, Whole, M!Managers
<1>5. InOrder => InOrder'
  BY <1>1, <1>2 DEF InOrder, Above, Placed, Passed, PassedIn, KeyOf, Restart
<1>6. Sending => Sending'
  BY DEF Sending, KeyOf, Restart
<1>7. LastRef => LastRef'
  BY <1>2, <1>3 DEF LastRef, KeyOf
<1>8. Counts => Counts'
  BY DEF Counts
<1> QED BY <1>2, <1>4, <1>5, <1>6, <1>7, <1>8

\* The motion vectors of the same references.
LEMMA SameMv ==
  ASSUME MvFlags, Refd' = Refd, UNCHANGED <<conf, mv, mvOf, cur>>
  PROVE  MvFlags'
<1>1. InUseNow' = InUseNow
  BY DEF InUseNow
<1> QED BY <1>1 DEF MvFlags

\* The check for a free buffer that fails.
LEMMA DispFails ==
  ASSUME DispInv, CallFails
  PROVE  Shape' /\ (Whole' => (Flags /\ MvFlags /\ InOrder /\ Sending /\ LastRef /\ Counts)')
<1>1. /\ cur = None /\ pic' = Marked /\ mapped' = mapped
      /\ UNCHANGED <<conf, stream, left, lost, mv, mvOf, lists, waiting, queue, base, maxPoc, cur, out,
                     flush, holds, due, shown>>
  BY DEF CallFails, config, refs, order, ghosts
<1>2. Shape /\ StepInv /\ pic \in P!Managers
  BY DEF DispInv, StepInv
<1>3. /\ Shape' /\ (Whole' <=> Whole) /\ Live' = Live
      /\ InOrder /\ Sending /\ LastRef /\ Counts => (InOrder /\ Sending /\ LastRef /\ Counts)'
  BY <1>1, <1>2, SameDisplay DEF Shape
<1>4. ASSUME Whole PROVE Flags' /\ MvFlags'
  <2>1. Flags /\ MvFlags
    BY <1>4 DEF DispInv
  <2>2. \A d \in conf.pics : pic'[d] = pic[d] \/ (pic[d] = {} /\ d \in mapped /\ pic'[d] = {"busy", "IO"})
    BY <1>1 DEF Marked
  <2>3. Refd' = Refd
    <3>1. \A d \in conf.pics : "REF" \in pic'[d] <=> "REF" \in pic[d]
      BY <2>2
    <3> QED BY <1>1, <3>1 DEF Refd
  <2>4. MvFlags'
    BY <1>1, <2>1, <2>3, SameMv
  <2>5. /\ \A d \in conf.pics : /\ pic[d] \subseteq {"busy", "REF", "IO"}
                                /\ d \in Live => "IO" \in pic[d]
                                /\ "IO" \in pic[d] => d \in Live \cup mapped
                                /\ pic[d] # {"busy"}
        /\ mapped \cap Live = {} /\ (~ conf.c.shared => mapped = {})
        /\ Refd = IF stream.fresh THEN {} ELSE Bufs(lists)
    BY <1>1, <2>1 DEF Flags
  <2>6. \A d \in conf.pics : /\ pic'[d] \subseteq {"busy", "REF", "IO"}
                             /\ d \in Live => "IO" \in pic'[d]
                             /\ "IO" \in pic'[d] => d \in Live \cup mapped
                             /\ pic'[d] # {"busy"}
    BY <2>2, <2>5
  <2>7. Flags'
    BY <1>1, <1>3, <2>3, <2>5, <2>6 DEF Flags
  <2> QED BY <2>4, <2>7
<1> QED BY <1>3, <1>4 DEF DispInv

\* The application returns a buffer.
LEMMA DispRelease ==
  ASSUME DispInv, NEW b \in conf.pics, AppRelease(b)
  PROVE  Shape' /\ (Whole' => (Flags /\ MvFlags /\ InOrder /\ Sending /\ LastRef /\ Counts)')
<1>1. /\ cur = None /\ pic' = P!Release(pic, b, "IO") /\ mapped' = mapped \ {b} /\ b \in mapped
      /\ UNCHANGED <<conf, stream, left, lost, mv, mvOf, lists, waiting, queue, base, maxPoc, cur, out,
                     flush, holds, due, shown>>
  BY DEF AppRelease, config, refs, order, ghosts
<1>2. Shape /\ StepInv /\ pic \in P!Managers
  BY DEF DispInv, StepInv
<1>3. /\ Shape' /\ (Whole' <=> Whole) /\ Live' = Live
      /\ InOrder /\ Sending /\ LastRef /\ Counts => (InOrder /\ Sending /\ LastRef /\ Counts)'
  BY <1>1, <1>2, SameDisplay DEF Shape
<1>4. ASSUME Whole PROVE Flags' /\ MvFlags'
  <2>1. Flags /\ MvFlags
    BY <1>4 DEF DispInv
  <2>2. \A d \in conf.pics : pic'[d] = IF d = b THEN Freed(pic[d], "IO") ELSE pic[d]
    BY <1>1, <1>2, PicOps
  <2>3. /\ \A d \in conf.pics : /\ Known(pic[d])
                                /\ d \in Live => "IO" \in pic[d]
                                /\ "IO" \in pic[d] => d \in Live \cup mapped
                                /\ pic[d] # {"busy"}
        /\ mapped \cap Live = {} /\ (~ conf.c.shared => mapped = {})
        /\ Refd = IF stream.fresh THEN {} ELSE Bufs(lists)
    BY <1>1, <2>1 DEF Flags, Known
  <2>4. \A d \in conf.pics : /\ Known(pic'[d]) /\ pic'[d] # {"busy"}
                             /\ "REF" \in pic'[d] <=> "REF" \in pic[d]
                             /\ "IO" \in pic'[d] <=> "IO" \in pic[d] /\ d # b
    BY <2>2, <2>3, FreedFacts
  <2>5. Refd' = Refd
    BY <1>1, <2>4 DEF Refd
  <2>6. MvFlags'
    BY <1>1, <2>1, <2>5, SameMv
  <2>7. \A d \in conf.pics : /\ pic'[d] \subseteq {"busy", "REF", "IO"}
                             /\ d \in Live => "IO" \in pic'[d]
                             /\ "IO" \in pic'[d] => d \in Live \cup mapped'
                             /\ pic'[d] # {"busy"}
    BY <1>1, <2>3, <2>4 DEF Known
  <2>8. Flags'
    BY <1>1, <1>3, <2>3, <2>5, <2>7 DEF Flags
  <2> QED BY <2>6, <2>8
<1> QED BY <1>3, <1>4 DEF DispInv

-----------------------------------------------------------------------------
(* Flushes. *)

\* A queue without buffers is empty.
LEMMA NoneQueued ==
  ASSUME NEW B, NEW q \in Seq(B), InQueue(q) = {}
  PROVE  q = <<>>
<1>1. DOMAIN q = {}
  BY DEF InQueue
<1>2. Len(q) = 0
  BY <1>1
<1> QED BY <1>2

\* What a flush does when it begins.
Flushed ==
  /\ cur = None /\ flush' = TRUE /\ pic' = Unref(pic, conf.pics) /\ mv' = UnrefMv(mv, conf.pics)
  /\ waiting' = {} /\ queue' = QueueAll(waiting, queue)
  /\ stream' = (IF conf.c.idrNext THEN [stream EXCEPT !.fresh = TRUE] ELSE stream)
  /\ conf' = conf /\ left' = left /\ lost' = lost /\ mvOf' = mvOf /\ lists' = lists /\ cur' = cur
  /\ out' = out /\ mapped' = mapped /\ holds' = holds /\ due' = due /\ shown' = shown

\* The types once a flush has begun.
LEMMA FlushShape ==
  ASSUME DispInv, FlushStart
  PROVE  Shape' /\ Flushed
<1>1. /\ Flushed /\ base' = base + maxPoc + conf.maxDec + 1 /\ maxPoc' = 0
  BY DEF FlushStart, Flushed, refs, ghosts
<1>2. Shape /\ StepInv
  BY DEF DispInv
<1>3. conf \in {Setup(c) : c \in Configs}
  BY <1>2 DEF StepInv, WalkInv
<1>4. conf.maxDec \in Nat
  BY <1>3, SetupSizes
<1>5. base' \in Int /\ maxPoc' \in Int
  <2>1. base \in Int /\ maxPoc \in Int
    BY <1>2 DEF Shape
  <2> QED BY <1>1, <1>4, <2>1
<1>6. queue' \in Seq(conf'.pics)
  <2>1. Typed(waiting, queue, conf.pics)
    BY <1>2 DEF Shape, Typed
  <2>2. AllQueued(waiting, queue, QueueAll(waiting, queue), conf.pics)
    BY <2>1, QueueAllFacts
  <2> QED BY <1>1, <2>2 DEF AllQueued, Flushed
<1>7. mv' \in M!Managers'
  <2>1. UnrefMv(mv, conf.pics) \in M!Managers
    BY <1>2, MvOps DEF Shape
  <2> QED BY <1>1, <2>1 DEF M!Managers, Flushed
<1>8. IsFiniteSet(waiting') /\ Cardinality(waiting') = 0
  BY <1>1, FS_EmptySet DEF Flushed
<1>9. Fits(conf.c) => conf.delay >= 0
  <2>1. Fits(conf.c) => conf.delay \in Nat
    BY <1>3, FitFacts
  <2> QED BY <2>1
<1>10. Fits(conf'.c) => Cardinality(waiting') <= conf'.delay /\ (lost' => conf'.c.lossy)
  BY <1>1, <1>2, <1>8, <1>9 DEF Shape, Flushed
<1>11. /\ left' \in 0..conf'.c.length /\ mvOf' \in [conf'.pics -> conf'.mvs] /\ mapped' \subseteq conf'.pics
       /\ shown' \in Int /\ out' \in conf'.pics \cup {NoBuf} /\ cur' = None /\ out' = NoBuf
       /\ \A e \in waiting' : e.buf \in conf'.pics /\ e.poc \in Int /\ e = [buf |-> e.buf, poc |-> e.poc]
  BY <1>1, <1>2 DEF Shape, Flushed
<1> QED BY <1>1, <1>5, <1>6, <1>7, <1>8, <1>10, <1>11 DEF Shape

\* The references are released.
LEMMA FlushFlags ==
  ASSUME DispInv, Whole, Flushed, Live' = Live, stream'.fresh = TRUE
  PROVE  Flags' /\ MvFlags'
<1>1. Flags /\ MvFlags /\ Shape /\ pic \in P!Managers
  BY DEF DispInv, StepInv
<1>2. /\ cur = None /\ pic' = Unref(pic, conf.pics) /\ mv' = UnrefMv(mv, conf.pics)
      /\ conf' = conf /\ mvOf' = mvOf /\ cur' = cur /\ mapped' = mapped
  BY DEF Flushed
<1>3. \A d \in conf.pics : pic'[d] = Freed(pic[d], "REF")
  BY <1>1, <1>2, PicOps
<1>4. \A v \in conf.mvs : mv'[v] = IF \E b \in conf.pics : mvOf[b] = v THEN Freed(mv[v], "REF") ELSE mv[v]
  BY <1>1, <1>2, MvOps DEF Shape
<1>5. /\ \A d \in conf.pics : /\ Known(pic[d]) /\ pic[d] # {"busy"}
                              /\ d \in Live => "IO" \in pic[d]
                              /\ "IO" \in pic[d] => d \in Live \cup mapped
      /\ mapped \cap Live = {} /\ (~ conf.c.shared => mapped = {})
  BY <1>1, <1>2 DEF Flags, Known
<1>6. \A d \in conf.pics : /\ Known(pic'[d]) /\ pic'[d] # {"busy"} /\ "REF" \notin pic'[d]
                           /\ "IO" \in pic'[d] <=> "IO" \in pic[d]
  BY <1>3, <1>5, FreedFacts
<1>7. Refd' = {}
  BY <1>2, <1>6 DEF Refd
<1>8. \A d \in conf.pics : /\ pic'[d] \subseteq {"busy", "REF", "IO"} /\ pic'[d] # {"busy"}
                           /\ d \in Live' => "IO" \in pic'[d]
                           /\ "IO" \in pic'[d] => d \in Live' \cup mapped'
  BY <1>2, <1>5, <1>6 DEF Known
<1>9. Flags'
  BY <1>2, <1>5, <1>7, <1>8 DEF Flags
<1>10. ASSUME NEW v \in conf.mvs
       PROVE  mv'[v] \subseteq {"busy", "REF"} /\ mv'[v] # {"busy"} /\ "REF" \notin mv'[v]
  <2>1. /\ mv[v] \subseteq {"busy", "REF"} /\ mv[v] # {"busy"}
        /\ "REF" \in mv[v] => \E b \in Refd : mvOf[b] = v
    BY <1>1, <1>2 DEF MvFlags
  <2>2. Known(mv[v])
    BY <2>1 DEF Known
  <2>3. CASE \E b \in conf.pics : mvOf[b] = v
    <3>1. mv'[v] = Freed(mv[v], "REF")
      BY <1>4, <2>3
    <3>2. Freed(mv[v], "REF") # {"busy"} /\ "REF" \notin Freed(mv[v], "REF")
      BY <2>2, FreedFacts
    <3>3. Freed(mv[v], "REF") \subseteq mv[v]
      BY DEF Freed
    <3> QED BY <2>1, <3>1, <3>2, <3>3
  <2>4. CASE ~ \E b \in conf.pics : mvOf[b] = v
    <3>1. mv'[v] = mv[v]
      BY <1>4, <2>4
    <3>2. "REF" \notin mv[v]
      BY <2>1, <2>4 DEF Refd
    <3> QED BY <2>1, <3>1, <3>2
  <2> QED BY <2>3, <2>4
<1>11. InUseNow' = {}
  BY <1>2, <1>7 DEF InUseNow
<1>12. MvFlags'
  BY <1>2, <1>7, <1>10, <1>11 DEF MvFlags
<1> QED BY <1>9, <1>12

\* All that waits is queued, in order.
LEMMA DispFlush ==
  ASSUME DispInv, FlushStart
  PROVE  Shape' /\ (Whole' => (Flags /\ MvFlags /\ InOrder /\ Sending /\ LastRef /\ Counts)')
<1>1. Shape' /\ Flushed
  BY FlushShape
<1>2. /\ cur = None /\ flush' = TRUE /\ waiting' = {} /\ queue' = QueueAll(waiting, queue)
      /\ conf' = conf /\ left' = left /\ lost' = lost /\ cur' = cur
      /\ out' = out /\ holds' = holds /\ due' = due /\ shown' = shown
  BY <1>1 DEF Flushed
<1>3. ASSUME Whole PROVE (Flags /\ MvFlags /\ InOrder /\ Sending /\ LastRef /\ Counts)'
  <2>1. StepInv /\ Shape /\ InOrder /\ Sending /\ Counts /\ out = NoBuf
    BY <1>2, <1>3 DEF DispInv, Shape
  <2>2. /\ StreamOK(stream, conf.c) /\ Fits(conf.c) /\ holds \in [conf.pics -> Int] /\ NoBuf \notin conf.pics
        /\ conf \in {Setup(c) : c \in Configs} /\ stream.fresh \in BOOLEAN
    BY <1>3, <2>1, WholeFacts
  <2>3. /\ stream'.fresh = TRUE /\ stream'.sent = stream.sent /\ stream'.period = stream.period
    <3>1. stream = [mk |-> stream.mk, prev |-> stream.prev, period |-> stream.period,
                    sent |-> stream.sent, last |-> stream.last, reset |-> stream.reset,
                    fresh |-> stream.fresh]
      BY <2>2 DEF StreamOK
    <3>2. \A v : [stream EXCEPT !.fresh = v]
           = [mk |-> stream.mk, prev |-> stream.prev, period |-> stream.period,
              sent |-> stream.sent, last |-> stream.last, reset |-> stream.reset, fresh |-> v]
      BY <3>1, FreshRecord
    <3>3. stream' = [stream EXCEPT !.fresh = TRUE]
      BY <1>1, <2>2 DEF Flushed, Fits
    <3> QED BY <3>2, <3>3
  <2>4. /\ Live \subseteq conf.pics /\ Waiting = InList(waiting) /\ Queued = InQueue(queue)
        /\ Typed(waiting, queue, conf.pics) /\ Stacked(waiting, queue, holds)
        /\ \A b \in Live : holds[b] \in Int /\ shown < holds[b]
    BY <2>1, <2>2, LiveFacts
  <2>5. AllQueued(waiting, queue, queue', conf.pics)
    BY <1>2, <2>4, QueueAllFacts
  <2>6. /\ queue' \in Seq(conf.pics) /\ InQueue(queue') = Queued \cup Waiting /\ Rising(queue', holds)
    BY <2>2, <2>4, <2>5 DEF AllQueued
  <2>7. /\ Out = {} /\ Out' = {} /\ Waiting' = {} /\ Queued' = Queued \cup Waiting
        /\ Live = Waiting \cup Queued
    BY <1>2, <2>1, <2>6 DEF Out, Waiting, Queued, Live, InQueue
  <2>8. Live' = Live
    BY <2>7 DEF Live
  <2>9. Flags' /\ MvFlags'
    BY <1>1, <1>3, <2>3, <2>8, FlushFlags
  <2>10. \A b \in Waiting \cup Queued : holds[b] < S!Key(stream.period + 1, 0)
    <3>1. \A b \in Queued : holds[b] < S!Key(stream.period + 1, 0)
      BY <2>1 DEF InOrder, Passed, PassedIn
    <3>2. ASSUME NEW e \in waiting PROVE holds[e.buf] < S!Key(stream.period + 1, 0)
      <4>1. PICK k \in stream.sent : holds[e.buf] = KeyOf(k)
        BY <1>2, <2>1 DEF InOrder, Placed
      <4>2. k + left * Step(conf.c) < PocSpan
        BY <2>1, <4>1 DEF Sending
      <4>3. left \in Nat /\ Step(conf.c) \in Nat /\ k \in Nat
        <5>1. Step(conf.c) \in Nat
          BY <2>2, FitFacts
        <5>2. k \in Nat
          BY <2>2, <4>1, SentFacts
        <5>3. left \in Nat
          BY <2>1 DEF Shape
        <5> QED BY <5>1, <5>2, <5>3
      <4>4. left * Step(conf.c) \in Nat
        BY <4>3
      <4>5. PICK d \in Nat : d = stream.period
        BY <2>2 DEF StreamOK
      <4>6. /\ PocSpan \in Nat /\ S!Key(d, 0) \in Int /\ S!Key(d + 1, 0) = S!Key(d, 0) + PocSpan
            /\ S!Key(d, k) = S!Key(d, 0) + k
        BY <4>3, KeyFacts
      <4>7. k < PocSpan
        BY <4>2, <4>3, <4>4, <4>6
      <4>8. S!Key(d, k) < S!Key(d + 1, 0)
        BY <4>3, <4>6, <4>7
      <4> QED BY <4>1, <4>5, <4>8 DEF KeyOf
    <3> QED BY <3>1, <3>2 DEF Waiting
  <2>11. shown < S!Key(stream.period + 1, 0)
    BY <2>1 DEF InOrder, Passed, PassedIn
  <2>12. Passed(shown)' /\ \A b \in Out' \cup Queued' : Passed(holds[b])'
    BY <1>2, <2>3, <2>7, <2>10, <2>11 DEF Passed, PassedIn
  <2>13. \A b \in Queued' : shown' < holds'[b]
    BY <1>2, <2>4, <2>7
  <2>14. due' = {holds'[b] : b \in Live'}
    BY <1>2, <2>1, <2>8 DEF InOrder
  <2>15. Arranged(waiting', holds')
    BY <1>2 DEF Arranged
  <2>16. InOrder'
    BY <1>2, <2>3, <2>6, <2>7, <2>12, <2>13, <2>14, <2>15 DEF InOrder
  <2>17. Sending'
    BY <1>2, <2>1, <2>3 DEF Sending
  <2>18. LastRef'
    BY <2>3 DEF LastRef
  <2>19. conf.c.frameOut => queue' = <<>>
    <3> SUFFICES ASSUME conf.c.frameOut PROVE queue' = <<>>
      OBVIOUS
    <3>1. waiting = {} /\ queue = <<>>
      BY <2>1 DEF Counts
    <3>2. InQueue(queue') = {}
      BY <2>6, <3>1 DEF Waiting, Queued
    <3> QED BY <2>6, <3>2, NoneQueued
  <2>20. Counts'
    BY <1>2, <2>1, <2>3, <2>19 DEF Counts
  <2> QED BY <2>9, <2>16, <2>17, <2>18, <2>20
<1>4. Whole' => Whole
  BY <1>2 DEF Whole
<1> QED BY <1>1, <1>3, <1>4

\* A picture is shown in a flush, or the flush ends.
LEMMA DispFlushCall ==
  ASSUME DispInv, FlushCall
  PROVE  Shape' /\ (Whole' => (Flags /\ MvFlags /\ InOrder /\ Sending /\ LastRef /\ Counts)')
<1> DEFINE b == Front(queue)
           end == b = NoBuf
<1>1. /\ cur = None /\ flush /\ queue' = Rest(queue) /\ flush' = ~ end
      /\ IF end THEN due' = due /\ shown' = shown ELSE due' = due \ {holds[b]} /\ shown' = holds[b]
      /\ pic' = IF end THEN [x \in conf.pics |-> IF x \in mapped
                                                 THEN P!Release(pic, x, "IO")[x] ELSE pic[x]]
                ELSE IF conf.c.shared THEN pic ELSE P!Release(pic, b, "IO")
      /\ mapped' = IF ~ conf.c.shared THEN mapped
                   ELSE IF end THEN conf.pics ELSE mapped \cup {b}
      /\ UNCHANGED <<conf, stream, left, lost, mv, mvOf, lists, waiting, base, maxPoc, cur, out, holds>>
  BY DEF FlushCall, Show, config, refs
<1>2. Shape /\ StepInv /\ pic \in P!Managers /\ holds \in [conf.pics -> Int]
  BY DEF DispInv, StepInv
<1>3. NoBuf \notin conf.pics
  BY <1>2, SetupSizes DEF StepInv, WalkInv
<1>4. TakenOff(queue, b, queue', conf.pics)
  BY <1>1, <1>2, <1>3, HeadOff DEF Shape
<1> HIDE DEF b
<1>5. /\ queue' \in Seq(conf.pics) /\ InQueue(queue) = ({b} \ {NoBuf}) \cup InQueue(queue')
      /\ IF end THEN queue = <<>> /\ queue' = <<>> ELSE b \in conf.pics
      /\ \A h : Rising(queue, h) => /\ Rising(queue', h)
                                    /\ ~ end => \A d \in InQueue(queue') : h[b] < h[d]
  BY <1>4 DEF TakenOff
<1>6. Shape'
  <2>1. shown' \in Int /\ mapped' \subseteq conf.pics
    <3>1. CASE end
      BY <1>1, <1>2, <3>1 DEF Shape
    <3>2. CASE ~ end
      BY <1>1, <1>2, <1>5, <3>2 DEF Shape
    <3> QED BY <3>1, <3>2
  <2> QED BY <1>1, <1>2, <1>5, <2>1 DEF Shape, M!Managers
<1>7. ASSUME Whole PROVE (Flags /\ MvFlags /\ InOrder /\ Sending /\ LastRef /\ Counts)'
  <2>1. Flags /\ MvFlags /\ InOrder /\ Sending /\ Counts /\ out = NoBuf
    BY <1>1, <1>2, <1>7 DEF DispInv, Shape
  <2>2. stream.fresh /\ waiting = {}
    BY <1>1, <2>1 DEF InOrder
  <2>3. /\ Out = {} /\ Out' = {} /\ Waiting = {} /\ Waiting' = {} /\ Queued = InQueue(queue)
        /\ Queued' = InQueue(queue')
    BY <1>1, <2>1, <2>2 DEF Out, Waiting, Queued, InQueue
  <2>4. Live = InQueue(queue) /\ Live' = InQueue(queue')
    BY <2>3 DEF Live
  <2>5. \A x, y \in Live : holds[x] = holds[y] => x = y
    BY <1>2, <1>3, <2>1, LiveFacts
  <2>6. Rising(queue, holds) /\ \A d \in Queued : shown < holds[d] /\ Passed(holds[d])
    BY <2>1 DEF InOrder
  <2>7. Rising(queue', holds')
    BY <1>1, <1>5, <2>6
  <2>8. ~ end => b \in Live /\ b \notin Live' /\ \A d \in Live' : holds[b] < holds[d]
    <3> SUFFICES ASSUME ~ end
                 PROVE b \in Live /\ b \notin Live' /\ \A d \in Live' : holds[b] < holds[d]
      OBVIOUS
    <3>1. \A d \in Live' : holds[b] < holds[d]
      BY <1>5, <2>4, <2>6
    <3>2. holds[b] \in Int /\ b \in Live
      BY <1>2, <1>5, <2>4
    <3>3. ~ (holds[b] < holds[b])
      BY <3>2
    <3> QED BY <3>1, <3>2, <3>3
  <2>9. Live = Live' \cup ({b} \ {NoBuf})
    BY <1>5, <2>4
  <2>10. /\ \A d \in conf.pics : /\ Known(pic[d]) /\ pic[d] # {"busy"}
                                 /\ d \in Live => "IO" \in pic[d]
                                 /\ "IO" \in pic[d] => d \in Live \cup mapped
         /\ mapped \cap Live = {} /\ (~ conf.c.shared => mapped = {})
         /\ Refd = {}
    BY <1>1, <2>1, <2>2 DEF Flags, Known
  <2>11. ASSUME NEW d \in conf.pics
         PROVE  /\ Known(pic'[d]) /\ pic'[d] # {"busy"} /\ ("REF" \in pic'[d] <=> "REF" \in pic[d])
                /\ d \in Live' => "IO" \in pic'[d]
                /\ "IO" \in pic'[d] => d \in Live' \cup mapped'
    <3>1. CASE end
      <4>1. pic'[d] = IF d \in mapped THEN Freed(pic[d], "IO") ELSE pic[d]
        BY <1>1, <1>2, <3>1, PicOps
      <4>2. Live' = Live
        BY <2>9, <3>1
      <4>3. conf.c.shared => mapped' = conf.pics
        BY <1>1, <3>1
      <4>4. ~ conf.c.shared => mapped' = mapped
        BY <1>1
      <4>5. /\ Known(pic'[d]) /\ pic'[d] # {"busy"} /\ ("REF" \in pic'[d] <=> "REF" \in pic[d])
            /\ "IO" \in pic'[d] <=> "IO" \in pic[d] /\ d \notin mapped
        BY <2>10, <4>1, FreedFacts
      <4> QED BY <2>10, <4>2, <4>3, <4>4, <4>5
    <3>2. CASE ~ end /\ conf.c.shared
      <4>1. pic' = pic /\ mapped' = mapped \cup {b} /\ b # NoBuf
        BY <1>1, <3>2
      <4> QED BY <2>9, <2>10, <4>1
    <3>3. CASE ~ end /\ ~ conf.c.shared
      <4>1. pic'[d] = IF d = b THEN Freed(pic[d], "IO") ELSE pic[d]
        BY <1>1, <1>2, <3>3, PicOps
      <4>2. mapped' = mapped /\ b # NoBuf
        BY <1>1, <3>3
      <4>3. /\ Known(pic'[d]) /\ pic'[d] # {"busy"} /\ ("REF" \in pic'[d] <=> "REF" \in pic[d])
            /\ "IO" \in pic'[d] <=> "IO" \in pic[d] /\ d # b
        BY <2>10, <4>1, FreedFacts
      <4> QED BY <2>8, <2>9, <2>10, <3>3, <4>2, <4>3
    <3> QED BY <3>1, <3>2, <3>3
  <2>12. Refd' = Refd
    BY <1>1, <2>11 DEF Refd
  <2>13. mapped' \cap Live' = {} /\ (~ conf.c.shared => mapped' = {})
    <3>1. CASE end
      <4>1. Live' = {}
        BY <1>5, <2>4, <3>1 DEF InQueue
      <4> QED BY <1>1, <2>10, <4>1
    <3>2. CASE ~ end
      BY <1>1, <2>8, <2>9, <2>10, <3>2
    <3> QED BY <3>1, <3>2
  <2>14. Flags'
    <3>1. \A d \in conf.pics : /\ pic'[d] \subseteq {"busy", "REF", "IO"} /\ pic'[d] # {"busy"}
                               /\ d \in Live' => "IO" \in pic'[d]
                               /\ "IO" \in pic'[d] => d \in Live' \cup mapped'
      BY <2>11 DEF Known
    <3> QED BY <1>1, <2>2, <2>10, <2>12, <2>13, <3>1 DEF Flags
  <2>15. MvFlags'
    BY <1>1, <2>1, <2>12, SameMv
  <2>16. Passed(shown)' /\ \A d \in Queued' : shown' < holds'[d] /\ Passed(holds[d])'
    <3>1. \A d \in Queued' : d \in Queued /\ Passed(holds[d])
      BY <2>3, <2>4, <2>6, <2>9
    <3>2. \A d \in Queued' : Passed(holds[d])'
      BY <1>1, <3>1 DEF Passed, PassedIn
    <3>3. CASE end
      <4>1. Passed(shown)'
        BY <1>1, <2>1, <3>3 DEF InOrder, Passed, PassedIn
      <4> QED BY <1>1, <2>6, <3>1, <3>2, <3>3, <4>1
    <3>4. CASE ~ end
      <4>1. Passed(holds[b])
        BY <2>3, <2>4, <2>6, <2>8, <3>4
      <4>2. Passed(shown)'
        BY <1>1, <3>4, <4>1 DEF Passed, PassedIn
      <4>3. \A d \in Queued' : shown' < holds'[d]
        BY <1>1, <2>3, <2>4, <2>8, <3>4
      <4> QED BY <3>2, <4>2, <4>3
    <3> QED BY <3>3, <3>4
  <2>17. due' = {holds'[d] : d \in Live'}
    <3>1. due = {holds[d] : d \in Live}
      BY <2>1 DEF InOrder
    <3>2. CASE end
      BY <1>1, <2>9, <3>1, <3>2
    <3>3. CASE ~ end
      <4>1. due' = {holds[d] : d \in Live} \ {holds[b]} /\ Live = Live' \cup {b}
        BY <1>1, <2>9, <3>1, <3>3
      <4>2. \A d \in Live' : d \in Live /\ holds[d] # holds[b]
        BY <2>5, <2>8, <2>9, <3>3
      <4>3. {holds[d] : d \in Live} \ {holds[b]} = {holds[d] : d \in Live'}
        BY <4>1, <4>2
      <4> QED BY <1>1, <4>1, <4>3
    <3> QED BY <3>2, <3>3
  <2>18. Arranged(waiting', holds')
    BY <1>1, <2>2 DEF Arranged
  <2>19. flush' => stream'.fresh
    BY <1>1, <2>2
  <2>20. ~ flush' => queue' = <<>>
    BY <1>1, <1>5
  <2>21. InOrder'
    BY <1>1, <2>2, <2>3, <2>7, <2>16, <2>17, <2>18, <2>19, <2>20 DEF InOrder
  <2>22. Sending'
    BY <1>1, <2>1, <2>2 DEF Sending
  <2>23. LastRef'
    BY <1>1, <2>2 DEF LastRef
  <2>24. Counts'
    <3>1. conf.c.frameOut => queue' = <<>>
      <4>1. conf.c.frameOut => queue = <<>>
        BY <2>1 DEF Counts
      <4>2. queue = <<>> => queue' = <<>>
        BY <1>4 DEF TakenOff
      <4> QED BY <4>1, <4>2
    <3> QED BY <1>1, <2>1, <2>2, <3>1 DEF Counts
  <2> QED BY <2>14, <2>15, <2>21, <2>22, <2>23, <2>24
<1>8. Whole' => Whole
  BY <1>1 DEF Whole
<1> QED BY <1>6, <1>7, <1>8

-----------------------------------------------------------------------------
(* A call that ends. *)

\* The first that waits leaves for the queue if it is due.
Leaves(w, q, r, B) ==
  IF Due(w) THEN Moves(w, q, r, B) ELSE r.w = w /\ r.q = q /\ Typed(r.w, r.q, B)
LEMMA WhenDue ==
  ASSUME NEW B, NEW w, NEW q, Typed(w, q, B), NEW r, r.w = WithoutFirst(w), r.q = QueueFirst(w, q)
  PROVE  Leaves(w, q, r, B)
<1>1. CASE Due(w)
  <2>1. w # {} /\ r.w = w \ {First(w)} /\ r.q = Enqueue(q, First(w).buf)
    BY <1>1 DEF Due, WithoutFirst, QueueFirst
  <2>2. Moves(w, q, r, B)
    BY <2>1, QueueOne
  <2> QED BY <1>1, <2>2 DEF Leaves
<1>2. CASE ~ Due(w)
  BY <1>2 DEF Leaves, WithoutFirst, QueueFirst
<1> QED BY <1>1, <1>2

\* What the end of picture p in buffer b does to the display, the lists of what
\* waits and is queued apart.
Ending(p, b) ==
  /\ cur # None /\ p = cur.p /\ b = cur.buf /\ b \in conf.pics /\ p \in S!AnyPicture
  /\ waiting' = EndWaiting(p)
  /\ queue' = IF conf.c.frameOut THEN Rest(EndQueue(p)) ELSE EndQueue(p)
  /\ base' = EndBase(p) /\ maxPoc' = IF Restarts(p) THEN 0 ELSE maxPoc
  /\ mapped' = IF conf.c.shared THEN mapped \cup ({EndOut(p)} \ {NoBuf}) ELSE mapped
  /\ IF EndOut(p) = NoBuf THEN due' = due \cup {p.key} /\ shown' = shown
     ELSE due' = (due \cup {p.key}) \ {holds[EndOut(p)]} /\ shown' = holds[EndOut(p)]
  /\ cur' = None /\ out' = NoBuf /\ conf' = conf /\ stream' = stream /\ left' = left /\ lost' = lost
  /\ mvOf' = mvOf /\ flush' = flush /\ holds' = holds
LEMMA EndingIs ==
  ASSUME StepInv, EndPicture, NEW p, NEW b, NEW c, NEW m, Ends(p, b, c, m)
  PROVE  Ending(p, b) /\ mv' = EndMv(p, c.rel, m.rel)
<1>1. p = cur.p /\ b = cur.buf /\ b \in conf.pics /\ p \in S!AnyPicture /\ c = Cleared(p)
      /\ m = Marking(p, c.l)
  BY DEF Ends
<1>2. /\ cur # None /\ waiting' = EndWaiting(cur.p)
      /\ queue' = IF conf.c.frameOut THEN Rest(EndQueue(cur.p)) ELSE EndQueue(cur.p)
      /\ base' = EndBase(cur.p) /\ maxPoc' = IF Restarts(cur.p) THEN 0 ELSE maxPoc
      /\ mv' = EndMv(cur.p, Cleared(cur.p).rel, Marking(cur.p, Cleared(cur.p).l).rel)
      /\ mapped' = IF conf.c.shared THEN mapped \cup ({EndOut(cur.p)} \ {NoBuf}) ELSE mapped
      /\ IF EndOut(cur.p) = NoBuf THEN due' = due \cup {cur.p.key} /\ shown' = shown
         ELSE due' = (due \cup {cur.p.key}) \ {holds[EndOut(cur.p)]} /\ shown' = holds[EndOut(cur.p)]
      /\ cur' = None /\ out' = NoBuf
      /\ UNCHANGED <<conf, stream, left, lost, mvOf, flush, holds>>
  BY DEF EndPicture, config
<1>3. mv' = EndMv(p, c.rel, m.rel)
  BY <1>1, <1>2
<1>4. Ending(p, b)
  BY <1>1, <1>2 DEF Ending
<1> QED BY <1>3, <1>4

\* The pictures that were waiting, and the entry of the one that ends.
Turns(p, b) ==
  /\ Typed(OldWaiting(p), OldQueue(p), conf.pics) /\ EndBase(p) \in Int
  /\ Cardinality(OldWaiting(p)) <= Cardinality(waiting) /\ Cardinality(waiting) \in Nat
  /\ Entry(p).buf = b /\ Entry(p).poc \in Int /\ Entry(p) = [buf |-> Entry(p).buf, poc |-> Entry(p).poc]
  /\ NoBuf \notin conf.pics /\ Slots \in Nat /\ Slots > 0
  /\ OldWaiting(p) \subseteq waiting
LEMMA TurnFacts ==
  ASSUME StepInv, Shape, NEW p, NEW b, Ending(p, b)
  PROVE  Turns(p, b)
<1>1. conf \in {Setup(c) : c \in Configs}
  BY DEF StepInv, WalkInv
<1>2. conf.maxDec \in Nat /\ NoBuf \notin conf.pics
  BY <1>1, SetupSizes
<1>3. base \in Int /\ maxPoc \in Int /\ p.poc \in Int /\ b = cur.buf /\ b \in conf.pics
  BY DEF Shape, Ending, S!AnyPicture
<1>4. EndBase(p) \in Int
  BY <1>2, <1>3 DEF EndBase
<1>5. Typed(waiting, queue, conf.pics)
  BY DEF Shape, Typed
<1>6. Typed(OldWaiting(p), OldQueue(p), conf.pics) /\ OldWaiting(p) \subseteq waiting
  <2>1. CASE Restarts(p)
    <3>1. AllQueued(waiting, queue, QueueAll(waiting, queue), conf.pics)
      BY <1>5, QueueAllFacts
    <3>2. OldWaiting(p) = {} /\ OldQueue(p) = QueueAll(waiting, queue)
      BY <2>1 DEF OldWaiting, OldQueue
    <3> QED BY <3>1, <3>2, FS_EmptySet DEF AllQueued, Typed
  <2>2. CASE ~ Restarts(p)
    BY <1>5, <2>2 DEF OldWaiting, OldQueue
  <2> QED BY <2>1, <2>2
<1>7. Cardinality(OldWaiting(p)) <= Cardinality(waiting) /\ Cardinality(waiting) \in Nat
  BY <1>5, <1>6, PartNoMore DEF Typed
<1>8. /\ Entry(p).buf = b /\ Entry(p).poc \in Int
      /\ Entry(p) = [buf |-> Entry(p).buf, poc |-> Entry(p).poc]
  BY <1>3, <1>4 DEF Entry
<1>9. Slots \in Nat /\ Slots > 0
  BY DecPicturesAssumption
<1> QED BY <1>2, <1>4, <1>6, <1>7, <1>8, <1>9 DEF Turns

\* Room for the picture that ends: the one in the list that is due has left.
LEMMA RoomToWait ==
  ASSUME StepInv, Shape, NEW p, NEW b, Ending(p, b), Fits(conf.c)
  PROVE  /\ Cardinality(AfterFirst(p)) < Slots /\ Cardinality(AfterFirst(p)) \in Nat
         /\ Inserted(p) = AfterFirst(p) \cup {Entry(p)}
         /\ IF conf.c.frameOut THEN AfterFirst(p) = {} /\ Due(Inserted(p)) /\ EndWaiting(p) = {}
            ELSE Cardinality(AfterFirst(p)) < conf.delay
<1>1. Turns(p, b)
  BY TurnFacts
<1>2. conf \in {Setup(c) : c \in Configs}
  BY DEF StepInv, WalkInv
<1>3. /\ conf.delay \in Nat /\ Slots \in Nat /\ Slots > 0 /\ conf.c.reorder \in Nat
      /\ IF conf.c.frameOut THEN conf.c.reorder = 0 /\ conf.delay = 0
         ELSE conf.c.reorder < conf.delay /\ conf.c.trail <= conf.delay /\ conf.delay <= Slots
  BY <1>2, FitFacts
<1>4. Cardinality(waiting) <= conf.delay /\ Cardinality(waiting) \in Nat
  BY <1>1 DEF Shape, Turns
<1>5. IsFiniteSet(OldWaiting(p)) /\ Cardinality(OldWaiting(p)) <= conf.delay /\ Cardinality(OldWaiting(p)) \in Nat
  <2>1. IsFiniteSet(OldWaiting(p)) /\ Cardinality(OldWaiting(p)) <= Cardinality(waiting)
    BY <1>1 DEF Turns, Typed
  <2>2. Cardinality(OldWaiting(p)) \in Nat
    BY <2>1, FS_CardinalityType
  <2> QED BY <1>3, <1>4, <2>1, <2>2
<1>6. CASE conf.c.frameOut
  <2>1. OldWaiting(p) = {}
    BY <1>3, <1>5, <1>6, FS_EmptySet
  <2>2. AfterFirst(p) = {} /\ Cardinality(AfterFirst(p)) = 0
    BY <1>6, <2>1, FS_EmptySet DEF AfterFirst
  <2>3. Inserted(p) = {Entry(p)}
    BY <1>3, <2>2 DEF Inserted
  <2>4. Cardinality({Entry(p)}) = 1
    BY FS_Singleton
  <2>5. Due(Inserted(p))
    BY <1>3, <1>6, <2>3, <2>4 DEF Due
  <2>6. First(Inserted(p)) \in Inserted(p)
    <3>1. IsFiniteSet({Entry(p)}) /\ {Entry(p)} # {} /\ \A e \in {Entry(p)} : e.poc \in Int
      BY <1>1, FS_Singleton DEF Turns
    <3> QED BY <2>3, <3>1, FirstIs
  <2>7. EndWaiting(p) = {}
    BY <1>6, <2>3, <2>5, <2>6 DEF EndWaiting, WithoutFirst
  <2> QED BY <1>3, <1>6, <2>2, <2>3, <2>5, <2>7
<1>7. CASE ~ conf.c.frameOut
  <2>1. AfterFirst(p) = WithoutFirst(OldWaiting(p)) /\ conf.delay > 0
    BY <1>3, <1>7 DEF AfterFirst
  <2> DEFINE w == OldWaiting(p)
             r == [w |-> WithoutFirst(w), q |-> QueueFirst(w, OldQueue(p))]
  <2>2. Leaves(w, OldQueue(p), r, conf.pics)
    BY <1>1, WhenDue DEF Turns
  <2>3. Cardinality(AfterFirst(p)) < conf.delay /\ Cardinality(AfterFirst(p)) \in Nat
    <3>1. CASE Due(w)
      <4>1. Cardinality(r.w) = Cardinality(w) - 1
        BY <2>2, <3>1 DEF Leaves, Moves
      <4>2. IsFiniteSet(r.w)
        BY <2>2, <3>1 DEF Leaves, Moves, Typed
      <4>3. Cardinality(r.w) \in Nat /\ r.w = AfterFirst(p)
        BY <2>1, <4>2, FS_CardinalityType
      <4> QED BY <1>3, <1>5, <4>1, <4>3
    <3>2. CASE ~ Due(w)
      <4>1. AfterFirst(p) = w
        BY <2>1, <3>2 DEF WithoutFirst
      <4>2. Cardinality(w) < conf.delay
        <5>1. w = {} => Cardinality(w) = 0
          BY FS_EmptySet
        <5> QED BY <1>3, <1>5, <2>1, <3>2, <5>1 DEF Due
      <4> QED BY <1>5, <4>1, <4>2
    <3> QED BY <3>1, <3>2
  <2>4. Cardinality(AfterFirst(p)) < Slots
    BY <1>3, <1>7, <2>3
  <2>5. Inserted(p) = AfterFirst(p) \cup {Entry(p)}
    BY <1>3, <2>3, <2>4 DEF Inserted
  <2> QED BY <1>7, <2>3, <2>4, <2>5
<1> QED BY <1>6, <1>7

\* The display list and the queue after the picture, and the picture shown.
EndsTyped(p, b, o) ==
  /\ waiting' \subseteq waiting \cup {Entry(p)} /\ IsFiniteSet(waiting')
  /\ queue' \in Seq(conf.pics) /\ o = EndOut(p) /\ o \in conf.pics \cup {NoBuf}
LEMMA EndTypes ==
  ASSUME StepInv, Shape, NEW p, NEW b, Ending(p, b)
  PROVE  EndsTyped(p, b, EndOut(p))
<1>1. Turns(p, b)
  BY TurnFacts
<1>2. /\ Typed(OldWaiting(p), OldQueue(p), conf.pics) /\ OldWaiting(p) \subseteq waiting
      /\ Entry(p).buf = b /\ Entry(p).poc \in Int /\ NoBuf \notin conf.pics
  BY <1>1 DEF Turns
<1>3. /\ b \in conf.pics /\ waiting' = EndWaiting(p)
      /\ queue' = IF conf.c.frameOut THEN Rest(EndQueue(p)) ELSE EndQueue(p)
  BY DEF Ending
<1>4. \A w : WithoutFirst(w) \subseteq w
  BY DEF WithoutFirst
<1>5. AfterFirst(p) \subseteq OldWaiting(p) /\ Inserted(p) \subseteq AfterFirst(p) \cup {Entry(p)}
      /\ EndWaiting(p) \subseteq Inserted(p)
  BY <1>4 DEF AfterFirst, Inserted, EndWaiting
<1>6. Inserted(p) \subseteq OldWaiting(p) \cup {Entry(p)}
  BY <1>5
<1>7. IsFiniteSet(OldWaiting(p) \cup {Entry(p)})
  BY <1>2, FS_Union, FS_Singleton DEF Typed
<1>8. IsFiniteSet(Inserted(p))
  BY <1>6, <1>7, FS_Subset
<1>9. IsFiniteSet(EndWaiting(p)) /\ EndWaiting(p) \subseteq waiting \cup {Entry(p)}
  <2>1. IsFiniteSet(EndWaiting(p))
    BY <1>5, <1>8, FS_Subset
  <2> QED BY <1>2, <1>5, <1>6, <2>1
<1>10. Typed(Inserted(p), OldQueue(p), conf.pics)
  BY <1>2, <1>3, <1>6, <1>8 DEF Typed
<1>11. \A w, q : Typed(w, q, conf.pics) => QueueFirst(w, q) \in Seq(conf.pics)
  <2> SUFFICES ASSUME NEW w, NEW q, Typed(w, q, conf.pics) PROVE QueueFirst(w, q) \in Seq(conf.pics)
    OBVIOUS
  <2> DEFINE r == [w |-> WithoutFirst(w), q |-> QueueFirst(w, q)]
  <2>1. Leaves(w, q, r, conf.pics)
    BY WhenDue
  <2>2. r.q \in Seq(conf.pics)
    BY <2>1 DEF Leaves, Moves, Typed
  <2> QED BY <2>2
<1>12. EndQueue(p) \in Seq(conf.pics)
  BY <1>2, <1>10, <1>11 DEF EndQueue
<1>13. TakenOff(EndQueue(p), Front(EndQueue(p)), Rest(EndQueue(p)), conf.pics)
  BY <1>2, <1>12, HeadOff
<1>14. queue' \in Seq(conf.pics)
  BY <1>3, <1>12, <1>13 DEF TakenOff
<1>15. EndOut(p) \in conf.pics \cup {NoBuf}
  <2>1. out \in conf.pics \cup {NoBuf}
    BY DEF Shape
  <2>2. Front(EndQueue(p)) \in conf.pics \cup {NoBuf}
    BY <1>13 DEF TakenOff
  <2> QED BY <2>1, <2>2 DEF EndOut
<1> QED BY <1>3, <1>9, <1>14, <1>15 DEF EndsTyped

\* The motion vector buffers after it.
LEMMA EndMvTypes ==
  ASSUME Shape, cur.buf \in conf.pics, NEW p, NEW first, NEW then
  PROVE  EndMv(p, first, then) \in M!Managers
<1> DEFINE v == mvOf[cur.buf]
           m1 == UnrefMv(mv, first)
           m2 == IF p.ref THEN M!SetStatus(m1, v, "REF") ELSE M!Release(m1, v, "REF")
<1>1. v \in conf.mvs /\ mv \in M!Managers
  BY DEF Shape
<1>2. m1 \in M!Managers
  BY <1>1, MvOps
<1> HIDE DEF v, m1
<1>3. m2 \in M!Managers
  <2>1. M!SetStatus(m1, v, "REF") \in M!Managers
    <3>1. "REF" \in M!Flags
      BY DEF M!Flags
    <3> QED BY <1>1, <1>2, <3>1, MvOps
  <2>2. M!Release(m1, v, "REF") \in M!Managers
    BY <1>1, <1>2, MvOps
  <2> QED BY <2>1, <2>2
<1> HIDE DEF m2
<1>4. UnrefMv(m2, then) \in M!Managers
  BY <1>3, MvOps
<1>5. EndMv(p, first, then) = UnrefMv(m2, then)
  BY DEF EndMv, m2, m1, v
<1> QED BY <1>4, <1>5

\* The types after the end of a picture.
LEMMA EndShape ==
  ASSUME DispInv, EndPicture, NEW p, NEW b, NEW c, NEW m, Ends(p, b, c, m)
  PROVE  Shape'
<1>1. StepInv /\ Shape
  BY DEF DispInv
<1>2. Ending(p, b) /\ mv' = EndMv(p, c.rel, m.rel)
  BY <1>1, EndingIs
<1>3. EndsTyped(p, b, EndOut(p)) /\ Turns(p, b)
  BY <1>1, <1>2, EndTypes, TurnFacts
<1>4. /\ waiting' \subseteq waiting \cup {Entry(p)} /\ IsFiniteSet(waiting')
      /\ queue' \in Seq(conf.pics) /\ EndOut(p) \in conf.pics \cup {NoBuf}
  BY <1>3 DEF EndsTyped
<1>5. /\ b \in conf.pics /\ b = cur.buf /\ base' = EndBase(p) /\ maxPoc' = IF Restarts(p) THEN 0 ELSE maxPoc
      /\ mapped' = IF conf.c.shared THEN mapped \cup ({EndOut(p)} \ {NoBuf}) ELSE mapped
      /\ EndOut(p) = NoBuf => shown' = shown
      /\ EndOut(p) # NoBuf => shown' = holds[EndOut(p)]
      /\ cur' = None /\ out' = NoBuf /\ conf' = conf /\ stream' = stream /\ left' = left /\ lost' = lost
      /\ mvOf' = mvOf /\ flush' = flush /\ holds' = holds /\ waiting' = EndWaiting(p)
  BY <1>2 DEF Ending
<1>6. \A e \in waiting' : e.buf \in conf.pics /\ e.poc \in Int /\ e = [buf |-> e.buf, poc |-> e.poc]
  <2>1. \A e \in waiting : e.buf \in conf.pics /\ e.poc \in Int /\ e = [buf |-> e.buf, poc |-> e.poc]
    BY <1>1 DEF Shape
  <2>2. Entry(p).buf \in conf.pics /\ Entry(p).poc \in Int /\ Entry(p) = [buf |-> Entry(p).buf, poc |-> Entry(p).poc]
    BY <1>3, <1>5 DEF Turns
  <2> QED BY <1>4, <2>1, <2>2
<1>7. mv' \in M!Managers'
  <2>1. mv' \in M!Managers
    BY <1>1, <1>2, <1>5, EndMvTypes
  <2> QED BY <1>5, <2>1 DEF M!Managers
<1>8. base' \in Int /\ maxPoc' \in Int /\ shown' \in Int
  <2>1. EndBase(p) \in Int
    BY <1>3 DEF Turns
  <2>2. maxPoc \in Int /\ shown \in Int /\ holds \in [conf.pics -> Int]
    BY <1>1 DEF Shape, StepInv
  <2> QED BY <1>4, <1>5, <2>1, <2>2
<1>9. mapped' \subseteq conf.pics
  <2>1. mapped \subseteq conf.pics
    BY <1>1 DEF Shape
  <2> QED BY <1>4, <1>5, <2>1
<1>10. Fits(conf.c) => Cardinality(waiting') <= conf.delay
  <2> SUFFICES ASSUME Fits(conf.c) PROVE Cardinality(EndWaiting(p)) <= conf.delay
    BY <1>5
  <2>1. conf.delay \in Nat
    BY <1>1, FitFacts DEF StepInv, WalkInv
  <2>2. CASE conf.c.frameOut
    <3>1. EndWaiting(p) = {}
      BY <1>1, <1>2, <2>2, RoomToWait
    <3> QED BY <2>1, <3>1, FS_EmptySet
  <2>3. CASE ~ conf.c.frameOut
    <3>1. /\ Cardinality(AfterFirst(p)) < conf.delay /\ Cardinality(AfterFirst(p)) \in Nat
          /\ Inserted(p) = AfterFirst(p) \cup {Entry(p)}
      BY <1>1, <1>2, <2>3, RoomToWait
    <3>2. EndWaiting(p) = AfterFirst(p) \cup {Entry(p)}
      BY <2>3, <3>1 DEF EndWaiting
    <3>3. IsFiniteSet(AfterFirst(p))
      BY <1>4, <1>5, <3>2, FS_Subset
    <3>4. Cardinality(AfterFirst(p) \cup {Entry(p)}) <= Cardinality(AfterFirst(p)) + 1
          /\ Cardinality(AfterFirst(p) \cup {Entry(p)}) \in Nat
      BY <3>3, FS_Singleton, TogetherNoMore
    <3> QED BY <2>1, <3>1, <3>2, <3>4
  <2> QED BY <2>2, <2>3
<1>11. /\ left' \in 0 .. conf'.c.length /\ mvOf' \in [conf'.pics -> conf'.mvs]
       /\ lost' => conf'.c.lossy \/ ~ Fits(conf'.c)
       /\ out' \in conf'.pics \cup {NoBuf}
  BY <1>1, <1>5 DEF Shape
<1> QED BY <1>4, <1>5, <1>6, <1>7, <1>8, <1>9, <1>10, <1>11 DEF Shape

\* The picture that ends, of a complete stream, and its buffer.
Closing(p, b) ==
  /\ holds[b] = p.key /\ p.key \in Int /\ p.poc \in Int
  /\ b \in conf.pics /\ pic[b] = {"busy"} /\ b \notin mapped /\ b \notin Refd /\ b \notin Live
  /\ stream.fresh = FALSE /\ ~ flush /\ (Restarts(p) <=> Restart(p)) /\ (Restart(p) => p.ref)
  /\ Live \subseteq conf.pics /\ \A d \in Live : holds[d] \in Int /\ holds[d] # p.key
LEMMA ClosingFacts ==
  ASSUME DispInv, Whole, NEW p, NEW b, NEW c, NEW m, Ends(p, b, c, m), Ending(p, b)
  PROVE  Closing(p, b)
<1>1. StepInv /\ Shape /\ Flags /\ InOrder /\ Sending
  BY DEF DispInv
<1>2. /\ cur # None /\ p = cur.p /\ b = cur.buf /\ b \in conf.pics /\ p \in S!AnyPicture
  BY DEF Ending
<1>3. Orderly /\ conf.c.quiet /\ NoBuf \notin conf.pics /\ holds \in [conf.pics -> Int]
      /\ stream.fresh \in BOOLEAN
  BY <1>1, WholeFacts DEF Orderly
<1>4. PICK s : Within(s)
  BY <1>1, <1>2, <1>3 DEF StepInv
<1>5. holds[b] = p.key /\ NextOf(s, p, conf.c) /\ (Resets(p) <=> S!Resets(p.cmds))
  BY <1>3, <1>4, WithinFacts
<1>6. Restarts(p) <=> Restart(p)
  BY <1>5 DEF Restarts, Restart
<1>7. Restart(p) => p.ref
  BY <1>5, NoResets DEF NextOf, Restart
<1>8. p.key \in Int /\ p.poc \in Int
  BY <1>2 DEF S!AnyPicture
<1>9. pic[b] = {"busy"} /\ b \notin mapped /\ \A d \in Live : d \in conf.pics => "IO" \in pic[d]
  BY <1>1, <1>2 DEF Flags
<1>10. Live \subseteq conf.pics /\ \A d \in Live : holds[d] \in Int
  BY <1>1, <1>3, LiveFacts
<1>11. b \notin Refd /\ b \notin Live
  BY <1>9, <1>10 DEF Refd
<1>12. stream.fresh = FALSE /\ ~ flush
  <2>1. ~ stream.fresh
    BY <1>1, <1>2 DEF Shape
  <2>2. flush => stream.fresh
    BY <1>1 DEF InOrder
  <2> QED BY <1>3, <2>1, <2>2
<1>13. ASSUME NEW d \in Live PROVE holds[d] # p.key
  <2>1. CASE d \in Out \cup Queued
    <3>1. holds[d] < p.key
      BY <1>1, <1>2, <2>1 DEF InOrder, Above
    <3> QED BY <1>8, <1>10, <3>1
  <2>2. CASE d \in Waiting
    <3>1. PICK e \in waiting : e.buf = d
      BY <2>2 DEF Waiting
    <3>2. CASE Restart(p)
      <4>1. holds[d] < p.key
        BY <1>1, <1>2, <3>1, <3>2 DEF InOrder
      <4> QED BY <1>8, <1>10, <4>1
    <3>3. CASE ~ Restart(p)
      <4>1. PICK k \in stream.sent \ {p.poc} : holds[d] = KeyOf(k)
        BY <1>1, <1>2, <3>1, <3>3 DEF InOrder, Placed
      <4>2. p.key = KeyOf(p.poc)
        BY <1>1, <1>2, <3>3 DEF Sending
      <4>3. StreamOK(stream, conf.c)
        BY <1>1, WholeFacts
      <4>4. PICK n \in Nat : n = stream.period
        BY <4>3 DEF StreamOK
      <4>5. k \in Int
        BY <4>3, SentFacts
      <4>6. S!Key(n, 0) \in Int /\ S!Key(n, k) = S!Key(n, 0) + k /\ S!Key(n, p.poc) = S!Key(n, 0) + p.poc
        BY <1>8, <4>5, KeyFacts
      <4>7. S!Key(n, k) # S!Key(n, p.poc)
        BY <1>8, <4>1, <4>5, <4>6
      <4> QED BY <4>1, <4>2, <4>4, <4>7 DEF KeyOf
    <3> QED BY <3>2, <3>3
  <2> QED BY <2>1, <2>2 DEF Live
<1> QED BY <1>2, <1>5, <1>6, <1>7, <1>8, <1>9, <1>10, <1>11, <1>12, <1>13 DEF Closing

\* Where the picture that ends comes: its key, and those that wait.
KeyPlace(k) == k \in Int /\ k < PocSpan /\ KeyOf(k) \in Int /\ KeyOf(k) < S!Key(stream.period + 1, 0)
               /\ KeyOf(0) \in Int /\ KeyOf(k) = KeyOf(0) + k
LEMMA SentPlace ==
  ASSUME DispInv, Whole, NEW k \in stream.sent
  PROVE  KeyPlace(k)
<1>1. StepInv /\ Shape /\ Sending
  BY DEF DispInv
<1>2. StreamOK(stream, conf.c) /\ conf \in {Setup(c) : c \in Configs} /\ Fits(conf.c)
  BY <1>1, WholeFacts
<1>3. k \in Nat
  BY <1>2, SentFacts
<1>4. left \in Nat /\ Step(conf.c) \in Nat
  BY <1>1, <1>2, FitFacts DEF Shape
<1>5. left * Step(conf.c) \in Nat
  BY <1>4
<1>6. k + left * Step(conf.c) < PocSpan
  BY <1>1 DEF Sending
<1>7. PICK n \in Nat : n = stream.period
  BY <1>2 DEF StreamOK
<1>8. /\ PocSpan \in Nat /\ S!Key(n, 0) \in Int /\ S!Key(n + 1, 0) = S!Key(n, 0) + PocSpan
      /\ S!Key(n, k) = S!Key(n, 0) + k
  BY <1>3, KeyFacts
<1>9. k < PocSpan
  BY <1>3, <1>5, <1>6, <1>8
<1>10. S!Key(n, k) \in Int /\ S!Key(n, k) < S!Key(n + 1, 0)
  BY <1>3, <1>8, <1>9
<1> QED BY <1>3, <1>7, <1>8, <1>9, <1>10 DEF KeyPlace, KeyOf

\* The last picture shown once the one fetched for display is shown.
ShownTurns(p, o) ==
  /\ Passed(shown') /\ shown' < p.key /\ shown <= shown'
  /\ \A d \in Queued \cup Waiting : shown' < holds[d]
  /\ o = NoBuf \/ o \in Live
LEMMA ShownNext ==
  ASSUME DispInv, Whole, NEW p, NEW b, Ending(p, b), ~ conf.c.frameOut
  PROVE  ShownTurns(p, out)
<1>1. StepInv /\ Shape /\ InOrder
  BY DEF DispInv
<1>2. /\ cur # None /\ p = cur.p
      /\ IF EndOut(p) = NoBuf THEN shown' = shown ELSE shown' = holds[EndOut(p)]
  BY DEF Ending
<1>3. EndOut(p) = out
  BY DEF EndOut
<1>4. /\ Passed(shown) /\ Above(p.key) /\ \A d \in Out : shown < holds[d] /\ Passed(holds[d])
      /\ \A d \in Queued : shown < holds[d] /\ \A a \in Out : holds[a] < holds[d]
      /\ \A e \in waiting : Above(holds[e.buf])
  BY <1>1, <1>2 DEF InOrder
<1>5. \A d \in Waiting : shown < holds[d] /\ \A a \in Out : holds[a] < holds[d]
  BY <1>4 DEF Waiting, Above
<1>6. shown \in Int /\ holds \in [conf.pics -> Int] /\ out \in conf.pics \cup {NoBuf}
  BY <1>1 DEF Shape, StepInv
<1>7. CASE out = NoBuf
  BY <1>2, <1>3, <1>4, <1>5, <1>6, <1>7 DEF ShownTurns, Above
<1>8. CASE out # NoBuf
  <2>1. Out = {out} /\ shown' = holds[out] /\ out \in Live
    BY <1>2, <1>3, <1>8 DEF Out, Live
  <2>2. shown < holds[out] /\ Passed(holds[out]) /\ holds[out] < p.key
        /\ \A d \in Queued \cup Waiting : holds[out] < holds[d]
    BY <1>4, <1>5, <2>1 DEF Above
  <2>3. holds[out] \in Int
    BY <1>6, <1>8
  <2> QED BY <1>6, <2>1, <2>2, <2>3 DEF ShownTurns
<1> QED BY <1>7, <1>8

\* The display once picture p in buffer b has ended and o is shown.
DisplayTurns(b, o) ==
  /\ o \in Live \cup {b} \cup {NoBuf} /\ Waiting' \cup Queued' = (Live \cup {b}) \ {o}
  /\ Rising(queue', holds) /\ Arranged(waiting', holds)
  /\ \A d \in Queued' : shown' < holds[d] /\ Passed(holds[d])
  /\ \A e \in waiting' : shown' < holds[e.buf] /\ \A d \in Queued' : holds[d] < holds[e.buf]
  /\ \A e \in waiting' : \E k \in stream.sent : holds[e.buf] = KeyOf(k) /\ e.poc = base' + k
  /\ Passed(shown') /\ shown <= shown'
  /\ IF conf.c.frameOut THEN waiting' = {} /\ queue' = <<>>
     ELSE Cardinality(waiting') + Len(queue') <= conf.delay + 1

\* Each picture is shown at once.
LEMMA EndAtOnce ==
  ASSUME DispInv, Whole, NEW p, NEW b, Ending(p, b), Closing(p, b), conf.c.frameOut
  PROVE  DisplayTurns(b, EndOut(p))
<1>1. StepInv /\ Shape /\ InOrder /\ Sending /\ Counts
  BY DEF DispInv
<1>2. /\ cur # None /\ p = cur.p /\ waiting' = EndWaiting(p) /\ queue' = Rest(EndQueue(p))
      /\ IF EndOut(p) = NoBuf THEN shown' = shown ELSE shown' = holds[EndOut(p)]
  BY DEF Ending
<1>3. waiting = {} /\ queue = <<>> /\ out = NoBuf
  BY <1>1 DEF Counts
<1>4. Fits(conf.c) /\ conf \in {Setup(c) : c \in Configs} /\ StreamOK(stream, conf.c) /\ NoBuf \notin conf.pics
  BY <1>1, WholeFacts
<1>5. Turns(p, b) /\ AfterFirst(p) = {} /\ Due(Inserted(p)) /\ EndWaiting(p) = {}
      /\ Inserted(p) = {Entry(p)}
  BY <1>1, <1>4, TurnFacts, RoomToWait
<1>6. Entry(p).buf = b /\ Entry(p).poc \in Int /\ b \in conf.pics
  BY <1>5 DEF Turns, Closing
<1>7. OldQueue(p) = <<>>
  <2>1. CASE Restarts(p)
    <3>1. Typed(waiting, queue, conf.pics)
      BY <1>1 DEF Shape, Typed
    <3>2. AllQueued(waiting, queue, QueueAll(waiting, queue), conf.pics)
      BY <3>1, QueueAllFacts
    <3>3. InQueue(QueueAll(waiting, queue)) = {}
      BY <1>3, <3>2 DEF AllQueued, InQueue, InList
    <3>4. QueueAll(waiting, queue) = <<>>
      BY <3>2, <3>3, NoneQueued DEF AllQueued
    <3> QED BY <2>1, <3>4 DEF OldQueue
  <2>2. CASE ~ Restarts(p)
    BY <1>3, <2>2 DEF OldQueue
  <2> QED BY <2>1, <2>2
<1>8. First(Inserted(p)) = Entry(p)
  <2>1. IsFiniteSet({Entry(p)}) /\ {Entry(p)} # {} /\ \A e \in {Entry(p)} : e.poc \in Int
    BY <1>6, FS_Singleton
  <2> QED BY <1>5, <2>1, FirstIs
<1>9. EndQueue(p) = Enqueue(<<>>, b)
  BY <1>5, <1>6, <1>7, <1>8 DEF EndQueue, QueueFirst
<1>10. EndQueue(p) = <<b>>
  <2>1. DOMAIN <<>> = {}
    OBVIOUS
  <2>2. Enqueue(<<>>, b) = Append(<<>>, b)
    BY <2>1 DEF Enqueue
  <2> QED BY <1>9, <2>2
<1>11. EndOut(p) = b /\ queue' = <<>> /\ waiting' = {} /\ b # NoBuf
  <2>1. <<b>> # <<>> /\ Head(<<b>>) = b /\ Tail(<<b>>) = <<>>
    OBVIOUS
  <2> QED BY <1>2, <1>4, <1>5, <1>6, <1>10, <2>1 DEF EndOut, Front, Rest
<1>12. Live = {} /\ Waiting' = {} /\ Queued' = {}
  BY <1>3, <1>11 DEF Live, Waiting, Queued, Out
<1>13. shown' = p.key
  BY <1>2, <1>11 DEF Closing
<1>14. PICK k \in stream.sent : p.key = KeyOf(k)
  <2>1. CASE Restart(p)
    BY <1>1, <1>2, <2>1 DEF Sending
  <2>2. CASE ~ Restart(p)
    BY <1>1, <1>2, <2>2 DEF Sending
  <2> QED BY <2>1, <2>2
<1>15. KeyOf(k) < S!Key(stream.period + 1, 0)
  BY SentPlace DEF KeyPlace
<1>16. Cardinality(NotBefore(stream.sent, k)) > conf.c.reorder
  <2>1. IsFiniteSet(stream.sent) /\ stream.sent \subseteq Nat
    BY <1>4, SentFacts
  <2>2. NotBefore(stream.sent, k) \subseteq stream.sent /\ k \in NotBefore(stream.sent, k)
    BY <2>1 DEF NotBefore
  <2>3. IsFiniteSet(NotBefore(stream.sent, k)) /\ Cardinality(NotBefore(stream.sent, k)) \in Nat
    BY <2>1, <2>2, PartNoMore
  <2>4. Cardinality(NotBefore(stream.sent, k)) # 0
    BY <2>2, <2>3, FS_EmptySet
  <2>5. conf.c.reorder = 0
    BY <1>4, FitFacts
  <2> QED BY <2>3, <2>4, <2>5
<1>17. Passed(shown')
  BY <1>13, <1>14, <1>15, <1>16 DEF Passed, PassedIn, KeyOf
<1>18. shown <= shown'
  <2>1. shown < p.key /\ shown \in Int /\ p.key \in Int
    BY <1>1, <1>2 DEF InOrder, Above, Shape, Closing
  <2> QED BY <1>13, <2>1
<1>19. Rising(queue', holds) /\ Arranged(waiting', holds)
  BY <1>11 DEF Rising, Arranged
<1> QED BY <1>11, <1>12, <1>17, <1>18, <1>19 DEF DisplayTurns

\* All that waited is queued, and the picture waits alone.
LEMMA EndAnew ==
  ASSUME DispInv, Whole, NEW p, NEW b, Ending(p, b), Closing(p, b), ~ conf.c.frameOut, Restart(p)
  PROVE  DisplayTurns(b, EndOut(p))
<1>1. StepInv /\ Shape /\ InOrder /\ Sending /\ Counts
  BY DEF DispInv
<1>2. /\ cur # None /\ p = cur.p /\ waiting' = EndWaiting(p) /\ queue' = EndQueue(p)
      /\ base' = EndBase(p) /\ b = cur.buf
  BY DEF Ending
<1>3. /\ Fits(conf.c) /\ conf \in {Setup(c) : c \in Configs} /\ NoBuf \notin conf.pics
      /\ holds \in [conf.pics -> Int]
  BY <1>1, WholeFacts
<1>4. EndOut(p) = out /\ ShownTurns(p, out)
  BY ShownNext DEF EndOut
<1>5. Restarts(p) /\ b \in conf.pics /\ holds[b] = p.key /\ b \notin Live /\ p.key \in Int
  BY DEF Closing
<1>6. OldWaiting(p) = {} /\ OldQueue(p) = QueueAll(waiting, queue)
  BY <1>5 DEF OldWaiting, OldQueue
<1>7. Inserted(p) = AfterFirst(p) \cup {Entry(p)} /\ Turns(p, b)
  BY <1>1, <1>3, RoomToWait, TurnFacts
<1>8. AfterFirst(p) = {} /\ EndQueue(p) = QueueAll(waiting, queue)
  BY <1>6 DEF AfterFirst, WithoutFirst, EndQueue, QueueFirst, Due
<1>9. waiting' = {Entry(p)} /\ Entry(p).buf = b /\ Entry(p).poc = base' + 0
  BY <1>2, <1>5, <1>7, <1>8, SetupSizes DEF EndWaiting, Entry, Turns
<1>10. /\ Typed(waiting, queue, conf.pics) /\ Stacked(waiting, queue, holds)
       /\ Waiting = InList(waiting) /\ Queued = InQueue(queue)
       /\ Waiting \cap Queued = {} /\ Out \cap (Waiting \cup Queued) = {}
  BY <1>1, <1>3, LiveFacts
<1>11. AllQueued(waiting, queue, queue', conf.pics)
  BY <1>2, <1>8, <1>10, QueueAllFacts
<1>12. /\ Rising(queue', holds) /\ Len(queue') = Len(queue) + Cardinality(waiting)
       /\ InQueue(queue') = Queued \cup Waiting /\ Cardinality(waiting) \in Nat /\ Len(queue) \in Nat
  BY <1>3, <1>10, <1>11 DEF AllQueued
<1>13. Waiting' = {b} /\ Queued' = Queued \cup Waiting
  BY <1>9, <1>12 DEF Waiting, Queued, InQueue
<1>14. Waiting' \cup Queued' = (Live \cup {b}) \ {out}
  <2>1. b # out \/ out = NoBuf
    BY <1>5 DEF Live, Out
  <2>2. b # NoBuf /\ NoBuf \notin Live
    <3>1. Live \subseteq conf.pics
      BY DEF Closing
    <3> QED BY <1>3, <1>5, <3>1
  <2> QED BY <1>10, <1>13, <2>1, <2>2 DEF Live, Out
<1>15. Arranged(waiting', holds)
  BY <1>9 DEF Arranged
<1>16. \A d \in Queued' : holds[d] < p.key
  <2>1. \A d \in Queued : holds[d] < p.key
    BY <1>1, <1>2 DEF InOrder, Above
  <2>2. \A d \in Waiting : holds[d] < p.key
    BY <1>1, <1>2 DEF InOrder, Waiting
  <2> QED BY <1>13, <2>1, <2>2
<1>17. 0 \in stream.sent /\ p.key = KeyOf(0)
  BY <1>1, <1>2 DEF Sending
<1>18. KeyPlace(0)
  BY <1>17, SentPlace
<1>19. ASSUME NEW d \in Queued' PROVE shown' < holds[d] /\ Passed(holds[d])
  <2>1. shown' < holds[d]
    BY <1>4, <1>13 DEF ShownTurns
  <2>2. d \in conf.pics
    BY <1>13 DEF Closing, Live
  <2>3. holds[d] \in Int /\ holds[d] < p.key
    BY <1>3, <1>16, <2>2
  <2>4. holds[d] < KeyOf(0) /\ holds[d] < S!Key(stream.period + 1, 0)
    <3>1. PICK y \in Int : y = S!Key(stream.period + 1, 0)
      <4>1. StreamOK(stream, conf.c)
        BY <1>1, WholeFacts
      <4>2. PICK n \in Nat : n = stream.period + 1
        BY <4>1 DEF StreamOK
      <4>3. S!Key(n, 0) \in Int
        BY <4>2, KeyFacts
      <4> QED BY <4>2, <4>3
    <3>2. KeyOf(0) < y /\ KeyOf(0) \in Int
      BY <1>18, <3>1 DEF KeyPlace
    <3> QED BY <1>17, <2>3, <3>1, <3>2
  <2> QED BY <2>1, <2>4 DEF Passed, PassedIn, KeyOf
<1>20. ASSUME NEW e \in waiting'
       PROVE  /\ shown' < holds[e.buf] /\ \A d \in Queued' : holds[d] < holds[e.buf]
              /\ \E k \in stream.sent : holds[e.buf] = KeyOf(k) /\ e.poc = base' + k
  <2>1. e.buf = b /\ e.poc = base' + 0
    BY <1>9
  <2> QED BY <1>4, <1>5, <1>16, <1>17, <2>1 DEF ShownTurns
<1>21. Cardinality(waiting') + Len(queue') <= conf.delay + 1
  <2>1. Cardinality(waiting') = 1
    BY <1>9, FS_Singleton
  <2>2. Cardinality(waiting) + Len(queue) <= conf.delay
    BY <1>1, <1>2 DEF Counts
  <2>3. conf.delay \in Nat
    BY <1>3, FitFacts
  <2> QED BY <1>12, <2>1, <2>2, <2>3
<1>22. out \in Live \cup {b} \cup {NoBuf} /\ Passed(shown') /\ shown <= shown'
  BY <1>4 DEF ShownTurns
<1> QED BY <1>4, <1>12, <1>14, <1>15, <1>19, <1>20, <1>21, <1>22 DEF DisplayTurns

\* Where those that wait come in the period.
WaitPlace(e, p) ==
  LET k == e.poc - base IN
  /\ k \in stream.sent /\ k # p.poc /\ KeyPlace(k) /\ holds[e.buf] = KeyOf(k)
  /\ e.poc \in Int /\ e.poc = base + k /\ e.buf \in conf.pics
LEMMA WaitPlaces ==
  ASSUME DispInv, Whole, NEW p, NEW b, Ending(p, b), ~ Restart(p), NEW e \in waiting
  PROVE  WaitPlace(e, p)
<1>1. StepInv /\ Shape /\ InOrder
  BY DEF DispInv
<1>2. cur # None /\ p = cur.p
  BY DEF Ending
<1>3. PICK k \in stream.sent \ {p.poc} : holds[e.buf] = KeyOf(k) /\ e.poc = base + k
  BY <1>1, <1>2 DEF InOrder, Placed
<1>4. KeyPlace(k)
  BY <1>3, SentPlace
<1>5. base \in Int /\ e.poc \in Int /\ e.buf \in conf.pics
  BY <1>1 DEF Shape
<1>6. k = e.poc - base
  BY <1>3, <1>4, <1>5 DEF KeyPlace
<1> QED BY <1>3, <1>4, <1>5, <1>6 DEF WaitPlace

\* As many places as wait.
LEMMA WaitCount ==
  ASSUME Shape, InOrder, NEW X, IsFiniteSet(X), \A e \in waiting : e.poc - base \in X
  PROVE  /\ Cardinality(waiting) <= Cardinality(X) /\ Cardinality(X) \in Nat
         /\ Cardinality(waiting) \in Nat
<1> DEFINE f == [e \in waiting |-> e.poc - base]
<1>1. \A e \in waiting : f[e] = e.poc - base /\ e.poc \in Int /\ base \in Int
  BY DEF Shape
<1> HIDE DEF f
<1>2. \A d, e \in waiting : f[d] = f[e] => d = e
  <2> SUFFICES ASSUME NEW d \in waiting, NEW e \in waiting, f[d] = f[e], d # e PROVE FALSE
    OBVIOUS
  <2>1. d.poc = e.poc
    BY <1>1
  <2>2. d.poc < e.poc \/ e.poc < d.poc
    BY DEF InOrder, Arranged
  <2> QED BY <1>1, <2>1, <2>2
<1>3. Cardinality(waiting) <= Cardinality(X)
  BY <1>1, <1>2, NoMore
<1> QED BY <1>3, FS_CardinalityType DEF Shape

\* The first of those that wait, when one is due: nothing comes before it any
\* more, the picture that ends neither.
FirstPassed(f, p) == Passed(holds[f.buf]) /\ holds[f.buf] < p.key
LEMMA DuePassed ==
  ASSUME DispInv, Whole, NEW p, NEW b, Ending(p, b), Closing(p, b), ~ conf.c.frameOut, ~ Restart(p),
         Due(waiting)
  PROVE  FirstPassed(First(waiting), p)
<1>1. StepInv /\ Shape /\ InOrder /\ Sending
  BY DEF DispInv
<1>2. cur # None /\ p = cur.p
  BY DEF Ending
<1>3. /\ Fits(conf.c) /\ conf \in {Setup(c) : c \in Configs} /\ StreamOK(stream, conf.c)
  BY <1>1, WholeFacts
<1>4. conf.delay \in Nat /\ conf.c.reorder \in Nat /\ conf.c.reorder < conf.delay
  BY <1>3, FitFacts
<1>5. IsFiniteSet(stream.sent) /\ stream.sent \subseteq Nat
  BY <1>3, SentFacts
<1>6. /\ p.poc \in stream.sent /\ p.key = KeyOf(p.poc)
      /\ Cardinality(Later(stream.sent, p.poc)) <= conf.c.reorder
  BY <1>1, <1>2 DEF Sending
<1>7. KeyPlace(p.poc)
  BY <1>6, SentPlace
<1>8. PICK f \in waiting : f = First(waiting) /\ \A e \in waiting : f.poc <= e.poc
  <2>1. IsFiniteSet(waiting) /\ waiting # {} /\ \A e \in waiting : e.poc \in Int
    BY <1>1 DEF Shape, Due
  <2> QED BY <2>1, FirstIs
<1>9. Cardinality(waiting) >= conf.delay
  BY DEF Due
<1>10. PICK k : k = f.poc - base
  OBVIOUS
<1>11. k \in stream.sent /\ k # p.poc /\ KeyPlace(k) /\ holds[f.buf] = KeyOf(k)
  <2>1. WaitPlace(f, p)
    BY WaitPlaces
  <2> QED BY <1>10, <2>1 DEF WaitPlace
<1>12. \A e \in waiting : e.poc - base \in stream.sent /\ e.poc - base >= k
  <2> SUFFICES ASSUME NEW e \in waiting PROVE e.poc - base \in stream.sent /\ e.poc - base >= k
    OBVIOUS
  <2>1. WaitPlace(e, p) /\ WaitPlace(f, p)
    BY WaitPlaces
  <2>2. e.poc - base \in stream.sent /\ e.poc \in Int /\ f.poc \in Int /\ base \in Int /\ f.poc <= e.poc
    BY <1>1, <1>8, <2>1 DEF WaitPlace, Shape
  <2> QED BY <1>10, <2>2
<1>13. Cardinality(NotBefore(stream.sent, k)) > conf.c.reorder
  <2>1. NotBefore(stream.sent, k) \subseteq stream.sent
    BY DEF NotBefore
  <2>2. IsFiniteSet(NotBefore(stream.sent, k))
    BY <1>5, <2>1, FS_Subset
  <2>3. \A e \in waiting : e.poc - base \in NotBefore(stream.sent, k)
    BY <1>12 DEF NotBefore
  <2>4. /\ Cardinality(waiting) <= Cardinality(NotBefore(stream.sent, k))
        /\ Cardinality(NotBefore(stream.sent, k)) \in Nat /\ Cardinality(waiting) \in Nat
    BY <1>1, <2>2, <2>3, WaitCount
  <2> QED BY <1>4, <1>9, <2>4
<1>14. Passed(holds[f.buf])
  BY <1>11, <1>13 DEF Passed, PassedIn, KeyPlace, KeyOf
<1>15. k < p.poc
  <2> SUFFICES ASSUME ~ (k < p.poc) PROVE FALSE
    OBVIOUS
  <2>1. k > p.poc /\ k \in Nat /\ p.poc \in Nat
    BY <1>5, <1>6, <1>11
  <2>2. Later(stream.sent, p.poc) \subseteq stream.sent
    BY DEF Later
  <2>3. IsFiniteSet(Later(stream.sent, p.poc))
    BY <1>5, <2>2, FS_Subset
  <2>4. \A e \in waiting : e.poc - base \in Later(stream.sent, p.poc)
    <3> SUFFICES ASSUME NEW e \in waiting PROVE e.poc - base \in Later(stream.sent, p.poc)
      OBVIOUS
    <3>1. e.poc - base \in Nat /\ e.poc - base >= k /\ e.poc - base \in stream.sent
      BY <1>5, <1>12
    <3> QED BY <2>1, <3>1 DEF Later
  <2>5. /\ Cardinality(waiting) <= Cardinality(Later(stream.sent, p.poc))
        /\ Cardinality(Later(stream.sent, p.poc)) \in Nat /\ Cardinality(waiting) \in Nat
    BY <1>1, <2>3, <2>4, WaitCount
  <2> QED BY <1>4, <1>6, <1>9, <2>5
<1>16. holds[f.buf] < p.key
  BY <1>6, <1>7, <1>11, <1>15 DEF KeyPlace
<1> QED BY <1>8, <1>14, <1>16 DEF FirstPassed

\* What waits and is queued once the first has left, if it was due.
Leaving(r, p) ==
  /\ Stacked(r.w, r.q, holds) /\ InQueue(r.q) \cup InList(r.w) = Queued \cup Waiting
  /\ r.w \subseteq waiting /\ IsFiniteSet(r.w) /\ r.q \in Seq(conf.pics)
  /\ \A d \in InQueue(r.q) : d \in Queued \cup Waiting /\ holds[d] < p.key /\ Passed(holds[d])
  /\ Cardinality(r.w) + Len(r.q) = Cardinality(waiting) + Len(queue)
  /\ Cardinality(r.w) \in Nat /\ Len(r.q) \in Nat
LEMMA FirstLeaves ==
  ASSUME DispInv, Whole, NEW p, NEW b, Ending(p, b), Closing(p, b), ~ conf.c.frameOut, ~ Restart(p),
         NEW r, r.w = WithoutFirst(waiting), r.q = QueueFirst(waiting, queue)
  PROVE  Leaving(r, p)
<1>1. StepInv /\ Shape /\ InOrder
  BY DEF DispInv
<1>2. cur # None /\ p = cur.p
  BY DEF Ending
<1>3. holds \in [conf.pics -> Int] /\ NoBuf \notin conf.pics
  BY <1>1, WholeFacts
<1>4. /\ Typed(waiting, queue, conf.pics) /\ Stacked(waiting, queue, holds)
      /\ Waiting = InList(waiting) /\ Queued = InQueue(queue)
  BY <1>1, <1>3, LiveFacts
<1>5. Leaves(waiting, queue, r, conf.pics)
  BY <1>4, WhenDue
<1>6. \A d \in Queued : holds[d] < p.key /\ Passed(holds[d])
  BY <1>1, <1>2 DEF InOrder, Above
<1>7. Cardinality(waiting) \in Nat /\ Len(queue) \in Nat
  BY <1>4, FS_CardinalityType DEF Typed
<1>8. CASE Due(waiting)
  <2>1. Moves(waiting, queue, r, conf.pics)
    BY <1>5, <1>8 DEF Leaves
  <2>2. /\ Typed(r.w, r.q, conf.pics) /\ Cardinality(r.w) = Cardinality(waiting) - 1
        /\ First(waiting) \in waiting /\ InQueue(r.q) = InQueue(queue) \cup {First(waiting).buf}
        /\ InQueue(r.q) \cup InList(r.w) = InQueue(queue) \cup InList(waiting)
    BY <2>1 DEF Moves
  <2>3. Stacked(r.w, r.q, holds) /\ Len(r.q) = Len(queue) + 1
    BY <1>3, <1>4, <2>1 DEF Moves
  <2>4. FirstPassed(First(waiting), p)
    BY <1>8, DuePassed
  <2>5. r.w \subseteq waiting
    BY DEF WithoutFirst
  <2>6. IsFiniteSet(r.w) /\ r.q \in Seq(conf.pics)
    BY <2>2 DEF Typed
  <2>7. Cardinality(r.w) \in Nat
    BY <2>6, FS_CardinalityType
  <2>8. \A d \in InQueue(r.q) : d \in Queued \cup Waiting /\ holds[d] < p.key /\ Passed(holds[d])
    BY <1>4, <1>6, <2>2, <2>4 DEF FirstPassed, InList
  <2> QED BY <1>4, <1>7, <2>2, <2>3, <2>5, <2>6, <2>7, <2>8 DEF Leaving
<1>9. CASE ~ Due(waiting)
  <2>1. r.w = waiting /\ r.q = queue
    BY <1>5, <1>9 DEF Leaves
  <2>2. IsFiniteSet(waiting) /\ queue \in Seq(conf.pics)
    BY <1>4 DEF Typed
  <2> QED BY <1>4, <1>6, <1>7, <2>1, <2>2 DEF Leaving
<1> QED BY <1>8, <1>9

\* The picture waits among the others.
LEMMA EndInOrder ==
  ASSUME DispInv, Whole, NEW p, NEW b, Ending(p, b), Closing(p, b), ~ conf.c.frameOut, ~ Restart(p)
  PROVE  DisplayTurns(b, EndOut(p))
<1>1. StepInv /\ Shape /\ InOrder /\ Sending /\ Counts
  BY DEF DispInv
<1>2. /\ cur # None /\ p = cur.p /\ waiting' = EndWaiting(p) /\ queue' = EndQueue(p)
      /\ base' = EndBase(p) /\ b = cur.buf
  BY DEF Ending
<1>3. /\ Fits(conf.c) /\ conf \in {Setup(c) : c \in Configs} /\ NoBuf \notin conf.pics
      /\ holds \in [conf.pics -> Int]
  BY <1>1, WholeFacts
<1>4. EndOut(p) = out /\ ShownTurns(p, out)
  BY ShownNext DEF EndOut
<1>5. ~ Restarts(p) /\ b \in conf.pics /\ holds[b] = p.key /\ b \notin Live /\ p.key \in Int
  BY DEF Closing
<1>6. OldWaiting(p) = waiting /\ OldQueue(p) = queue /\ base' = base
  BY <1>2, <1>5 DEF OldWaiting, OldQueue, EndBase
<1>7. Inserted(p) = AfterFirst(p) \cup {Entry(p)}
  BY <1>1, <1>3, RoomToWait
<1>8. PICK r : r.w = WithoutFirst(waiting) /\ r.q = QueueFirst(waiting, queue)
  <2> DEFINE r == [w |-> WithoutFirst(waiting), q |-> QueueFirst(waiting, queue)]
  <2>1. r.w = WithoutFirst(waiting) /\ r.q = QueueFirst(waiting, queue)
    OBVIOUS
  <2> QED BY <2>1
<1>9. waiting' = r.w \cup {Entry(p)} /\ queue' = r.q /\ Entry(p).buf = b /\ Entry(p).poc = base + p.poc
  BY <1>2, <1>5, <1>6, <1>7, <1>8 DEF EndWaiting, EndQueue, AfterFirst, Entry, EndBase
<1>10. Leaving(r, p)
  BY <1>8, FirstLeaves
<1>11. Waiting' = InList(r.w) \cup {b} /\ Queued' = InQueue(r.q)
  BY <1>9 DEF Waiting, Queued, InList, InQueue
<1>12. Waiting \cap Queued = {} /\ Out \cap (Waiting \cup Queued) = {}
  BY <1>1, <1>3, LiveFacts
<1>13. Waiting' \cup Queued' = (Live \cup {b}) \ {out}
  <2>1. b # out \/ out = NoBuf
    BY <1>5 DEF Live, Out
  <2>2. b # NoBuf /\ NoBuf \notin Live
    <3>1. Live \subseteq conf.pics
      BY DEF Closing
    <3> QED BY <1>3, <1>5, <3>1
  <2>3. Waiting' \cup Queued' = Queued \cup Waiting \cup {b}
    BY <1>10, <1>11 DEF Leaving
  <2> QED BY <1>12, <2>1, <2>2, <2>3 DEF Live, Out
<1>14. p.poc \in stream.sent /\ p.key = KeyOf(p.poc) /\ KeyPlace(p.poc)
  <2>1. p.poc \in stream.sent /\ p.key = KeyOf(p.poc)
    BY <1>1, <1>2 DEF Sending
  <2> QED BY <2>1, SentPlace
<1>15. ASSUME NEW e \in r.w
       PROVE  /\ shown' < holds[e.buf] /\ \A d \in Queued' : holds[d] < holds[e.buf]
              /\ \E k \in stream.sent : holds[e.buf] = KeyOf(k) /\ e.poc = base' + k
              /\ \/ e.poc < Entry(p).poc /\ holds[e.buf] < p.key
                 \/ Entry(p).poc < e.poc /\ p.key < holds[e.buf]
  <2>1. e \in waiting /\ e.buf \in Waiting
    BY <1>10 DEF Leaving, Waiting
  <2>2. WaitPlace(e, p)
    BY <2>1, WaitPlaces
  <2>3. shown' < holds[e.buf]
    BY <1>4, <2>1 DEF ShownTurns
  <2>4. \A d \in Queued' : holds[d] < holds[e.buf]
    BY <1>10, <1>11 DEF Leaving, Stacked
  <2>5. PICK k : k = e.poc - base
    OBVIOUS
  <2>6. /\ k \in stream.sent /\ k # p.poc /\ KeyPlace(k) /\ holds[e.buf] = KeyOf(k) /\ e.poc = base + k
    BY <2>2, <2>5 DEF WaitPlace
  <2>7. base \in Int
    BY <1>1 DEF Shape
  <2>8. \/ e.poc < Entry(p).poc /\ holds[e.buf] < p.key
        \/ Entry(p).poc < e.poc /\ p.key < holds[e.buf]
    BY <1>9, <1>14, <2>6, <2>7 DEF KeyPlace
  <2> QED BY <1>6, <2>3, <2>4, <2>6, <2>8
<1>16. Arranged(waiting', holds)
  <2>1. Arranged(r.w, holds)
    BY <1>10 DEF Leaving, Stacked
  <2>2. holds[Entry(p).buf] = p.key
    BY <1>5, <1>9
  <2> QED BY <1>9, <1>15, <2>1, <2>2 DEF Arranged
<1>17. ASSUME NEW d \in Queued' PROVE shown' < holds[d] /\ Passed(holds[d]) /\ holds[d] < p.key
  <2>1. d \in Queued \cup Waiting /\ holds[d] < p.key /\ Passed(holds[d])
    BY <1>10, <1>11 DEF Leaving
  <2> QED BY <1>4, <2>1 DEF ShownTurns
<1>18. ASSUME NEW e \in waiting'
       PROVE  /\ shown' < holds[e.buf] /\ \A d \in Queued' : holds[d] < holds[e.buf]
              /\ \E k \in stream.sent : holds[e.buf] = KeyOf(k) /\ e.poc = base' + k
  <2>1. CASE e \in r.w
    BY <1>15, <2>1
  <2>2. CASE e = Entry(p)
    BY <1>4, <1>5, <1>6, <1>9, <1>14, <1>17, <2>2 DEF ShownTurns
  <2> QED BY <1>9, <2>1, <2>2
<1>19. Cardinality(waiting') + Len(queue') <= conf.delay + 1
  <2>1. Cardinality(waiting') <= Cardinality(r.w) + 1 /\ Cardinality(waiting') \in Nat
    <3>1. IsFiniteSet(r.w)
      BY <1>10 DEF Leaving
    <3> QED BY <1>9, <3>1, FS_Singleton, TogetherNoMore
  <2>2. Cardinality(waiting) + Len(queue) <= conf.delay
    BY <1>1, <1>2 DEF Counts
  <2>3. conf.delay \in Nat
    BY <1>3, FitFacts
  <2>4. Cardinality(r.w) + Len(queue') <= conf.delay /\ Cardinality(r.w) \in Nat /\ Len(queue') \in Nat
    BY <1>9, <1>10, <2>2 DEF Leaving
  <2> QED BY <2>1, <2>3, <2>4
<1>20. out \in Live \cup {b} \cup {NoBuf} /\ Passed(shown') /\ shown <= shown' /\ Rising(queue', holds)
  BY <1>4, <1>9, <1>10 DEF ShownTurns, Leaving, Stacked
<1> QED BY <1>4, <1>13, <1>16, <1>17, <1>18, <1>19, <1>20 DEF DisplayTurns

\* What the end of a picture does to the buffers to be shown.
LiveTurns(b, o) == Live' = (Live \cup {b}) \ {o} /\ o \in Live \cup {b} \cup {NoBuf}
LEMMA EndLive ==
  ASSUME NEW p, NEW b, Ending(p, b), DisplayTurns(b, EndOut(p))
  PROVE  LiveTurns(b, EndOut(p))
<1>1. Out' = {}
  BY DEF Out, Ending
<1>2. Live' = Waiting' \cup Queued'
  BY <1>1 DEF Live
<1> QED BY <1>2 DEF LiveTurns, DisplayTurns

\* The flags of the picture buffers after a picture.
LEMMA EndFlagged ==
  ASSUME DispInv, Whole, NEW p, NEW b, NEW c, NEW m, Ends(p, b, c, m), Ending(p, b), Closing(p, b),
         Turned(p, b, c, m), LiveTurns(b, EndOut(p))
  PROVE  /\ Flags'
         /\ Refd' = Bufs(lists')
         /\ Refd' = ((Refd \ c.rel) \cup (IF p.ref THEN {b} ELSE {})) \ m.rel
<1>1. Flags /\ StepInv /\ Shape
  BY DEF DispInv
<1>2. /\ cur # None /\ p = cur.p /\ b = cur.buf /\ cur' = None /\ conf' = conf /\ stream' = stream
      /\ mapped' = IF conf.c.shared THEN mapped \cup ({EndOut(p)} \ {NoBuf}) ELSE mapped
  BY DEF Ending
<1>3. /\ b \in conf.pics /\ pic[b] = {"busy"} /\ b \notin mapped /\ b \notin Refd
      /\ stream.fresh = FALSE /\ (Restart(p) => p.ref)
  BY DEF Closing
<1>4. PICK o : o = EndOut(p)
  OBVIOUS
<1>5. Live' = (Live \cup {b}) \ {o} /\ o \in Live \cup {b} \cup {NoBuf}
  BY <1>4 DEF LiveTurns
<1>6. pic' = EndPic(p, c.rel, m.rel) /\ pic \in P!Managers
  BY DEF Ends
<1>7. /\ \A d \in conf.pics : /\ Known(pic[d])
                              /\ d \in Live => "IO" \in pic[d]
                              /\ "IO" \in pic[d] => d \in Live \cup mapped
                              /\ d # b => pic[d] # {"busy"}
      /\ mapped \cap Live = {} /\ (~ conf.c.shared => mapped = {})
      /\ IF p.idr THEN Refd \subseteq Bufs(lists) ELSE Refd = Bufs(lists)
  BY <1>1, <1>2 DEF Flags, Known
<1>8. \A d \in conf.pics : EndFlags(pic'[d], d, p, c.rel, m.rel)
  BY <1>2, <1>3, <1>6, <1>7, EndPicIs
<1>9. ASSUME NEW d \in conf.pics
      PROVE  /\ pic'[d] \subseteq {"busy", "REF", "IO"} /\ pic'[d] # {"busy"}
             /\ "REF" \in pic'[d] <=> (("REF" \in pic[d] /\ d \notin c.rel) \/ (d = b /\ p.ref)) /\ d \notin m.rel
             /\ "IO" \in pic'[d] <=> ("IO" \in pic[d] \/ d = b) /\ ~ (o # NoBuf /\ ~ conf.c.shared /\ d = o)
  BY <1>2, <1>4, <1>8 DEF EndFlags, Known
<1>10. ASSUME NEW d \in conf.pics
       PROVE  /\ d \in Live' => "IO" \in pic'[d]
              /\ "IO" \in pic'[d] => d \in Live' \cup mapped'
  <2>1. NoBuf \notin conf.pics
    BY <1>1, WholeFacts
  <2>2. d \in Live' => "IO" \in pic'[d]
    BY <1>5, <1>7, <1>9
  <2>3. "IO" \in pic'[d] => d \in Live' \cup mapped'
    <3>1. CASE d = o
      BY <1>2, <1>4, <1>9, <2>1, <3>1
    <3>2. CASE d # o
      BY <1>2, <1>5, <1>7, <1>9, <3>2
    <3> QED BY <3>1, <3>2
  <2> QED BY <2>2, <2>3
<1>11. mapped' \cap Live' = {} /\ (~ conf.c.shared => mapped' = {})
  BY <1>2, <1>3, <1>4, <1>5, <1>7
<1>12. Refd' = ((Refd \ c.rel) \cup (IF p.ref THEN {b} ELSE {})) \ m.rel
  BY <1>2, <1>3, <1>9 DEF Refd
<1>13. Refd' = Bufs(lists')
  <2>1. CASE Restart(p)
    <3>1. c.rel = Bufs(lists) /\ m.rel = {} /\ Bufs(lists') = {b}
      BY <2>1 DEF Turned, Restart
    <3>2. Refd \ c.rel = {}
      BY <1>7, <3>1
    <3> QED BY <1>3, <1>12, <2>1, <3>1, <3>2
  <2>2. CASE ~ Restart(p) /\ p.ref
    <3>1. /\ c.rel = {} /\ m.rel \subseteq Bufs(lists)
          /\ b \notin Bufs(lists) /\ Bufs(lists') = (Bufs(lists) \ m.rel) \cup {b}
      BY <2>2 DEF Turned, Restart
    <3>2. Refd = Bufs(lists)
      BY <1>7, <2>2 DEF Restart
    <3> QED BY <1>12, <2>2, <3>1, <3>2
  <2>3. CASE ~ Restart(p) /\ ~ p.ref
    <3>1. c.rel = {} /\ m.rel = {} /\ lists' = lists
      BY <2>3 DEF Turned, Restart
    <3>2. Refd = Bufs(lists)
      BY <1>7, <2>3 DEF Restart
    <3> QED BY <1>12, <2>3, <3>1, <3>2
  <2> QED BY <2>1, <2>2, <2>3
<1>14. Flags'
  BY <1>2, <1>3, <1>9, <1>10, <1>11, <1>13 DEF Flags
<1> QED BY <1>12, <1>13, <1>14

\* The motion vector buffers after a picture.
LEMMA EndMvFlagged ==
  ASSUME DispInv, Whole, NEW p, NEW b, NEW c, NEW m, Ending(p, b), Closing(p, b),
         Turned(p, b, c, m), mv' = EndMv(p, c.rel, m.rel),
         Refd' = ((Refd \ c.rel) \cup (IF p.ref THEN {b} ELSE {})) \ m.rel
  PROVE  MvFlags'
<1>1. Flags /\ MvFlags /\ Shape
  BY DEF DispInv
<1>2. /\ cur # None /\ p = cur.p /\ b = cur.buf /\ cur' = None /\ conf' = conf /\ mvOf' = mvOf
  BY DEF Ending
<1>3. b \in conf.pics /\ b \notin Refd /\ (Restart(p) => p.ref)
  BY DEF Closing
<1>4. mv \in M!Managers /\ mvOf[b] \in conf.mvs /\ Refd \subseteq conf.pics
  BY <1>1, <1>3 DEF Shape, Refd
<1>5. /\ \A v \in conf.mvs : /\ mv[v] \subseteq {"busy", "REF"}
                             /\ "REF" \in mv[v] <=> \E d \in Refd : mvOf[d] = v
                             /\ v # mvOf[b] => mv[v] # {"busy"}
      /\ \A x, y \in Refd \cup {b} : mvOf[x] = mvOf[y] => x = y
      /\ IF p.idr THEN Refd \subseteq Bufs(lists) ELSE Refd = Bufs(lists)
  BY <1>1, <1>2 DEF Flags, MvFlags, InUseNow
<1>6. \A v \in conf.mvs : EndMvFlags(mv'[v], v, p, c.rel, m.rel)
  BY <1>2, <1>4, <1>5, EndMvIs
<1>7. ASSUME NEW v \in conf.mvs
      PROVE  /\ mv'[v] \subseteq {"busy", "REF"} /\ mv'[v] # {"busy"}
             /\ "REF" \in mv'[v] <=> \E d \in Refd' : mvOf[d] = v
  <2>1. /\ mv'[v] \subseteq {"busy", "REF"} /\ mv'[v] # {"busy"}
        /\ "REF" \in mv'[v] <=> (("REF" \in mv[v] /\ ~ (\E d \in c.rel : mvOf[d] = v) /\ (v = mvOf[b] => p.ref))
                                   \/ (v = mvOf[b] /\ p.ref)) /\ ~ \E d \in m.rel : mvOf[d] = v
    BY <1>2, <1>6 DEF EndMvFlags
  <2>2. "REF" \in mv[v] <=> \E d \in Refd : mvOf[d] = v
    BY <1>5
  <2>3. v = mvOf[b] => ~ \E d \in Refd : mvOf[d] = v
    BY <1>3, <1>5
  <2>4. CASE Restart(p)
    <3>1. c.rel = Bufs(lists) /\ m.rel = {}
      BY <2>4 DEF Turned, Restart
    <3>2. Refd \subseteq c.rel /\ Refd' = {b}
      BY <1>3, <1>5, <2>4, <3>1
    <3> QED BY <1>3, <2>1, <2>2, <2>4, <3>1, <3>2
  <2>5. CASE ~ Restart(p) /\ p.ref
    <3>1. c.rel = {} /\ m.rel \subseteq Bufs(lists) /\ b \notin Bufs(lists)
      BY <2>5 DEF Turned, Restart
    <3>2. Refd = Bufs(lists)
      BY <1>5, <2>5 DEF Restart
    <3>3. m.rel \subseteq Refd /\ Refd' = (Refd \ m.rel) \cup {b}
      BY <1>3, <2>5, <3>1, <3>2
    <3>4. "REF" \in mv'[v] <=> ((\E d \in Refd : mvOf[d] = v) \/ v = mvOf[b]) /\ ~ \E d \in m.rel : mvOf[d] = v
      BY <2>1, <2>2, <2>5, <3>1
    <3>5. (\E d \in Refd' : mvOf[d] = v) <=> (\E d \in Refd \ m.rel : mvOf[d] = v) \/ v = mvOf[b]
      BY <3>3
    <3>6. (\E d \in Refd \ m.rel : mvOf[d] = v)
            <=> (\E d \in Refd : mvOf[d] = v) /\ ~ \E d \in m.rel : mvOf[d] = v
      BY <1>5, <3>3
    <3>7. v = mvOf[b] => ~ \E d \in m.rel : mvOf[d] = v
      BY <2>3, <3>3
    <3> QED BY <2>1, <3>4, <3>5, <3>6, <3>7
  <2>6. CASE ~ Restart(p) /\ ~ p.ref
    <3>1. c.rel = {} /\ m.rel = {}
      BY <2>6 DEF Turned, Restart
    <3>2. Refd' = Refd
      BY <2>6, <3>1
    <3> QED BY <2>1, <2>2, <2>3, <2>6, <3>1, <3>2
  <2> QED BY <2>4, <2>5, <2>6
<1>8. InUseNow' = Refd' /\ Refd' \subseteq Refd \cup {b}
  BY <1>2 DEF InUseNow
<1>9. MvFlags'
  BY <1>2, <1>5, <1>7, <1>8 DEF MvFlags
<1> QED BY <1>9

\* What is to be shown after a picture.
LEMMA EndDue ==
  ASSUME DispInv, Whole, NEW p, NEW b, Ending(p, b), Closing(p, b), LiveTurns(b, EndOut(p))
  PROVE  due' = {holds'[d] : d \in Live'}
<1>1. InOrder /\ Shape /\ holds \in [conf.pics -> Int] /\ NoBuf \notin conf.pics
  BY WholeFacts DEF DispInv, StepInv
<1>2. PICK o : o = EndOut(p)
  OBVIOUS
<1>3. /\ Live' = (Live \cup {b}) \ {o} /\ o \in Live \cup {b} \cup {NoBuf}
      /\ due' = IF o = NoBuf THEN due \cup {p.key} ELSE (due \cup {p.key}) \ {holds[o]}
      /\ holds' = holds
  BY <1>2 DEF LiveTurns, Ending
<1>4. /\ holds[b] = p.key /\ b \in conf.pics /\ b \notin Live
      /\ Live \subseteq conf.pics /\ \A d \in Live : holds[d] # p.key
  BY DEF Closing
<1>5. due = {holds[d] : d \in Live} /\ \A x, y \in Live : holds[x] = holds[y] => x = y
  BY <1>1, LiveFacts DEF InOrder
<1>6. due \cup {p.key} = {holds[d] : d \in Live \cup {b}}
  BY <1>4, <1>5
<1>7. \A x, y \in Live \cup {b} : holds[x] = holds[y] => x = y
  BY <1>4, <1>5
<1>8. CASE o = NoBuf
  <2>1. Live' = Live \cup {b}
    BY <1>1, <1>3, <1>4, <1>8
  <2> QED BY <1>3, <1>6, <1>8, <2>1
<1>9. CASE o # NoBuf
  <2>1. o \in Live \cup {b}
    BY <1>3, <1>9
  <2> DEFINE T == Live \cup {b}
  <2>2. \A x, y \in T : holds[x] = holds[y] => x = y
    BY <1>7
  <2>3. o \in T /\ Live' = T \ {o} /\ due' = {holds[d] : d \in T} \ {holds[o]}
    BY <1>3, <1>6, <1>9, <2>1
  <2> HIDE DEF T
  <2>4. {holds[d] : d \in T} \ {holds[o]} = {holds[d] : d \in T \ {o}}
    BY <2>2, <2>3
  <2> QED BY <1>3, <2>3, <2>4
<1> QED BY <1>8, <1>9

\* The order after a picture.
LEMMA EndOrder ==
  ASSUME DispInv, Whole, NEW p, NEW b, Ending(p, b), Closing(p, b), DisplayTurns(b, EndOut(p))
  PROVE  InOrder'
<1>1. /\ cur' = None /\ out' = NoBuf /\ conf' = conf /\ stream' = stream
      /\ flush' = flush /\ holds' = holds
  BY DEF Ending
<1>2. stream.fresh = FALSE /\ ~ flush
  BY DEF Closing
<1>3. /\ Rising(queue', holds) /\ Arranged(waiting', holds)
      /\ \A d \in Queued' : shown' < holds[d] /\ Passed(holds[d])
      /\ \A e \in waiting' : shown' < holds[e.buf] /\ \A d \in Queued' : holds[d] < holds[e.buf]
      /\ \A e \in waiting' : \E k \in stream.sent : holds[e.buf] = KeyOf(k) /\ e.poc = base' + k
      /\ Passed(shown')
  BY DEF DisplayTurns
<1>4. due' = {holds'[d] : d \in Live'}
  BY EndLive, EndDue
<1>5. Out' = {}
  BY <1>1 DEF Out
<1>7. Passed(shown)' /\ \A d \in Out' \cup Queued' : Passed(holds[d])'
  BY <1>1, <1>3, <1>5 DEF Passed, PassedIn
<1>8. \A e \in waiting' : Placed(e, stream.sent)'
  BY <1>1, <1>3 DEF Placed, KeyOf
<1>9. \A e \in waiting' : Above(holds[e.buf])'
  BY <1>1, <1>3, <1>5 DEF Above
<1> QED BY <1>1, <1>2, <1>3, <1>4, <1>5, <1>7, <1>8, <1>9 DEF InOrder

\* What has been sent, the last reference and how many wait.
LEMMA EndSent ==
  ASSUME DispInv, Whole, NEW p, NEW b, NEW c, NEW m, Ending(p, b), Closing(p, b),
         Turned(p, b, c, m), DisplayTurns(b, EndOut(p))
  PROVE  Sending' /\ LastRef' /\ Counts'
<1>1. Sending /\ LastRef /\ Counts /\ Shape /\ StepInv
  BY DEF DispInv
<1>2. /\ cur # None /\ p = cur.p /\ cur' = None /\ out' = NoBuf /\ conf' = conf /\ stream' = stream
      /\ left' = left /\ holds' = holds
      /\ IF EndOut(p) = NoBuf THEN shown' = shown ELSE shown' = holds[EndOut(p)]
  BY DEF Ending
<1>3. holds[b] = p.key /\ p.key \in Int /\ stream.fresh = FALSE /\ (Restart(p) => p.ref) /\ b \in conf.pics
  BY DEF Closing
<1>4. PICK o : o = EndOut(p)
  OBVIOUS
<1>5. Live' = (Live \cup {b}) \ {o} /\ o \in Live \cup {b} \cup {NoBuf} /\ shown <= shown'
  BY <1>4, EndLive DEF LiveTurns, DisplayTurns
<1>6. /\ IF conf.c.frameOut THEN waiting' = {} /\ queue' = <<>>
         ELSE Cardinality(waiting') + Len(queue') <= conf.delay + 1
  BY DEF DisplayTurns
<1>7. Sending'
  BY <1>1, <1>2 DEF Sending
<1>8. Counts'
  BY <1>2, <1>6 DEF Counts
<1>9. NoBuf \notin conf.pics /\ holds \in [conf.pics -> Int] /\ \A d \in Bufs(lists) : d \in conf.pics
  BY <1>1, WholeFacts
<1>10. shown' \in Int /\ shown \in Int
  <2>1. shown \in Int
    BY <1>1 DEF Shape
  <2>2. o # NoBuf => o \in conf.pics
    BY <1>3, <1>5 DEF Closing
  <2> QED BY <1>2, <1>4, <1>9, <2>1, <2>2
<1>11. ASSUME p.ref PROVE LastRef'
  <2>1. p.key = KeyOf(stream.last)
    <3>1. CASE Restart(p)
      BY <1>1, <1>2, <3>1 DEF Sending
    <3>2. CASE ~ Restart(p)
      BY <1>1, <1>2, <1>11, <3>2 DEF Sending
    <3> QED BY <3>1, <3>2
  <2>2. b \in Bufs(lists')
    BY <1>11 DEF Turned
  <2>3. b \in Live' \/ holds[b] <= shown'
    <3>1. CASE b = o
      <4>1. shown' = holds[b]
        BY <1>2, <1>3, <1>4, <1>9, <3>1
      <4> QED BY <1>10, <4>1
    <3>2. CASE b # o
      BY <1>5, <3>2
    <3> QED BY <3>1, <3>2
  <2>4. holds'[b] = KeyOf(stream.last)' /\ (b \in Live' \/ holds'[b] <= shown')
    BY <1>2, <1>3, <2>1, <2>3 DEF KeyOf
  <2> QED BY <2>2, <2>4 DEF LastRef
<1>12. ASSUME ~ p.ref PROVE LastRef'
  <2>1. PICK d \in Bufs(lists) : holds[d] = KeyOf(stream.last) /\ (d \in Live \/ holds[d] <= shown)
    BY <1>1, <1>2, <1>3, <1>12 DEF LastRef
  <2>2. lists' = lists
    BY <1>3, <1>12 DEF Turned, Restart
  <2>3. d \in Live' \/ holds[d] <= shown'
    <3>1. d \in conf.pics /\ holds[d] \in Int
      BY <1>9
    <3>2. CASE d = o
      <4>1. shown' = holds[d]
        BY <1>2, <1>4, <1>9, <3>1, <3>2
      <4> QED BY <1>10, <4>1
    <3>3. CASE d # o /\ d \in Live
      BY <1>5, <3>3
    <3>4. CASE holds[d] <= shown
      BY <1>5, <1>10, <3>1, <3>4
    <3> QED BY <2>1, <3>2, <3>3, <3>4
  <2>4. d \in Bufs(lists') /\ holds'[d] = KeyOf(stream.last)' /\ (d \in Live' \/ holds'[d] <= shown')
    BY <1>2, <2>1, <2>2, <2>3 DEF KeyOf
  <2> QED BY <2>4 DEF LastRef
<1> QED BY <1>7, <1>8, <1>11, <1>12

\* The rest of the call.
LEMMA DispEnd ==
  ASSUME DispInv, EndPicture
  PROVE  Shape' /\ (Whole' => (Flags /\ MvFlags /\ InOrder /\ Sending /\ LastRef /\ Counts)')
<1>1. StepInv
  BY DEF DispInv
<1>2. PICK p, b, c, m : Ends(p, b, c, m)
  BY <1>1, EndEnds
<1>3. Shape'
  BY <1>2, EndShape
<1>4. Ending(p, b) /\ mv' = EndMv(p, c.rel, m.rel)
  BY <1>1, <1>2, EndingIs
<1>5. Whole' => Whole
  BY <1>4 DEF Ending, Whole
<1>6. ASSUME Whole PROVE (Flags /\ MvFlags /\ InOrder /\ Sending /\ LastRef /\ Counts)'
  <2>1. Orderly
    BY <1>1, <1>6, WholeFacts
  <2>2. Turned(p, b, c, m)
    BY <1>1, <1>2, <2>1, EndSettles DEF Settled
  <2>3. Closing(p, b)
    BY <1>2, <1>4, <1>6, ClosingFacts
  <2>4. DisplayTurns(b, EndOut(p))
    BY <1>4, <1>6, <2>3, EndAtOnce, EndAnew, EndInOrder
  <2>5. LiveTurns(b, EndOut(p))
    BY <1>4, <2>4, EndLive
  <2>6. Flags' /\ Refd' = ((Refd \ c.rel) \cup (IF p.ref THEN {b} ELSE {})) \ m.rel
    BY <1>2, <1>4, <1>6, <2>2, <2>3, <2>5, EndFlagged
  <2>7. MvFlags'
    BY <1>4, <1>6, <2>2, <2>3, <2>6, EndMvFlagged
  <2>8. InOrder' /\ Sending' /\ LastRef' /\ Counts'
    BY <1>4, <1>6, <2>2, <2>3, <2>4, EndOrder, EndSent
  <2> QED BY <2>6, <2>7, <2>8
<1> QED BY <1>3, <1>5, <1>6

-----------------------------------------------------------------------------
(* The invariant holds. *)

\* At the beginning nothing waits and nothing is held.
LEMMA DispInit == Init => DispInv
<1> SUFFICES ASSUME Init PROVE DispInv
  OBVIOUS
<1>1. StepInv
  BY StepInit
<1>2. /\ stream = S!Opening /\ left = conf.c.length /\ lost = FALSE
      /\ mapped = (IF conf.c.shared THEN conf.pics \ {0} ELSE {})
      /\ pic = [b \in conf.pics |-> IF b \in mapped THEN {"IO"} ELSE {}]
      /\ mv = M!AllFree /\ mvOf = [b \in conf.pics |-> 0]
      /\ waiting = {} /\ queue = <<>> /\ base = 0 /\ maxPoc = 0 /\ cur = None /\ out = NoBuf
      /\ flush = FALSE /\ holds = [b \in conf.pics |-> NoKey] /\ due = {} /\ shown = NoKey
      /\ conf \in {Setup(c) : c \in Configs}
  BY DEF Init
<1>3. stream.fresh = TRUE /\ stream.sent = {} /\ stream.period = 0
  BY <1>2 DEF S!Opening
<1>4. conf.c.length \in Nat
  BY <1>2, SetupSizes
<1>5. 0 \in conf.mvs
  <2>1. PICK c \in Configs : conf = Setup(c)
    BY <1>2
  <2>2. conf.mvs = 0..NumMvs(c) - 1
    BY <2>1 DEF Setup
  <2>3. /\ c.numRef \in Nat /\ c.reorder \in Nat /\ c.dpbSize \in Nat
        /\ c.vui \in BOOLEAN /\ c.frameOut \in BOOLEAN /\ c.shared \in BOOLEAN
        /\ MaxPics \in Nat /\ MinShared \in Nat
    BY ConfigsAssumption, DecPicturesAssumption
  <2>4. Delay(c) \in Nat
    BY <2>3 DEF Delay
  <2>5. NumPics(c) \in Nat
    BY <2>3, <2>4 DEF NumPics, Most, Least
  <2>6. NumMvs(c) \in Nat /\ NumMvs(c) >= 2
    BY <2>3, <2>5 DEF NumMvs, Most, Least
  <2> QED BY <2>2, <2>6
<1>6. mv = [v \in conf.mvs |-> {}]
  BY <1>2 DEF M!AllFree
<1>7. IsFiniteSet(waiting) /\ Cardinality(waiting) = 0
  BY <1>2, FS_EmptySet
<1>8. Fits(conf.c) => conf.delay \in Nat
  BY <1>2, FitFacts
<1>9. Shape
  <2>1. mv \in M!Managers
    BY <1>6 DEF M!Managers
  <2>2. mvOf \in [conf.pics -> conf.mvs]
    BY <1>2, <1>5
  <2>3. shown \in Int /\ base \in Int /\ maxPoc \in Int /\ left \in 0 .. conf.c.length
    BY <1>2, <1>4 DEF NoKey
  <2>4. queue \in Seq(conf.pics)
    BY <1>2
  <2> QED BY <1>2, <1>7, <1>8, <2>1, <2>2, <2>3, <2>4 DEF Shape
<1>10. Waiting = {} /\ Queued = {} /\ Out = {} /\ Live = {} /\ Refd = {}
  <2>1. Waiting = {} /\ Queued = {} /\ Out = {}
    BY <1>2 DEF Waiting, Queued, Out
  <2>2. Refd = {}
    BY <1>2 DEF Refd
  <2> QED BY <2>1, <2>2 DEF Live
<1>11. Flags
  <2>1. \A b \in conf.pics : pic[b] = IF b \in mapped THEN {"IO"} ELSE {}
    BY <1>2
  <2> QED BY <1>2, <1>3, <1>10, <2>1 DEF Flags
<1>12. MvFlags
  BY <1>2, <1>6, <1>10 DEF MvFlags, InUseNow
<1>13. InOrder
  <2>1. Passed(shown)
    <3>1. S!Key(0, 0) \in Int /\ S!Key(0 + 1, 0) = S!Key(0, 0) + PocSpan /\ PocSpan > 0 /\ PocSpan \in Nat
      BY KeyFacts
    <3>2. S!Key(0, 0) = 0
      BY <3>1 DEF S!Key
    <3> QED BY <1>2, <1>3, <3>1, <3>2 DEF Passed, PassedIn, NoKey
  <2>2. Rising(queue, holds) /\ Arranged(waiting, holds)
    BY <1>2 DEF Rising, Arranged
  <2> QED BY <1>2, <1>3, <1>10, <2>1, <2>2 DEF InOrder
<1>14. Sending /\ LastRef /\ Counts
  BY <1>2, <1>3 DEF Sending, LastRef, Counts
<1> QED BY <1>1, <1>9, <1>11, <1>12, <1>13, <1>14 DEF DispInv

\* A step that changes nothing.
LEMMA DispSame ==
  ASSUME DispInv, UNCHANGED vars
  PROVE  Shape' /\ (Whole' => (Flags /\ MvFlags /\ InOrder /\ Sending /\ LastRef /\ Counts)')
<1>1. UNCHANGED <<conf, stream, left, lost, pic, mv, mvOf, lists, waiting, queue, base, maxPoc, cur, out,
                  flush, mapped, holds, due, shown>>
  BY DEF vars
<1>2. Shape
  BY DEF DispInv
<1>3. /\ Shape' /\ (Whole' <=> Whole) /\ Live' = Live
      /\ InOrder /\ Sending /\ LastRef /\ Counts => (InOrder /\ Sending /\ LastRef /\ Counts)'
  BY <1>1, <1>2, SameDisplay DEF Shape
<1>4. Refd' = Refd
  BY <1>1 DEF Refd
<1>5. MvFlags => MvFlags'
  BY <1>1, <1>4, SameMv
<1>6. Flags => Flags'
  BY <1>1, <1>3, <1>4 DEF Flags
<1> QED BY <1>3, <1>5, <1>6 DEF DispInv

\* Every step keeps it.
LEMMA DispNext ==
  ASSUME DispInv, [Next]_vars
  PROVE  DispInv'
<1>1. StepInv'
  BY StepNext DEF DispInv
<1>2. ASSUME Shape' /\ (Whole' => (Flags /\ MvFlags /\ InOrder /\ Sending /\ LastRef /\ Counts)')
      PROVE  DispInv'
  BY <1>1, <1>2 DEF DispInv
<1>3. ASSUME NEW p \in Coming, StartPicture(p) \/ Refuse(p) \/ Lose(p) PROVE DispInv'
  <2>1. CASE StartPicture(p)
    BY <2>1, DispStart
  <2>2. CASE Refuse(p)
    BY <1>2, <2>2, DispRefuse
  <2>3. CASE Lose(p)
    BY <1>2, <2>3, DispLose
  <2> QED BY <1>3, <2>1, <2>2, <2>3
<1>4. CASE EndPicture
  BY <1>2, <1>4, DispEnd
<1>5. CASE CallFails
  BY <1>2, <1>5, DispFails
<1>6. CASE FlushStart
  BY <1>2, <1>6, DispFlush
<1>7. CASE FlushCall
  BY <1>2, <1>7, DispFlushCall
<1>8. ASSUME NEW b \in conf.pics, AppRelease(b) PROVE DispInv'
  BY <1>2, <1>8, DispRelease
<1>9. CASE UNCHANGED vars
  BY <1>2, <1>9, DispSame
<1> QED BY <1>3, <1>4, <1>5, <1>6, <1>7, <1>8, <1>9 DEF Next

-----------------------------------------------------------------------------
(* What it says. *)

\* The pictures that the lists have.
LEMMA ListedIs == WalkInv => Listed = Bufs(lists)
<1> SUFFICES ASSUME WalkInv PROVE Listed = Bufs(lists)
  OBVIOUS
<1>1. Walkable
  BY WalkImplies
<1>2. Shorts = ShortSet(lists) /\ Longs = LongSet(lists) /\ D!Nil \notin Shorts \cup Longs
  BY <1>1 DEF Walkable, ShortSet, LongSet, ShortUse, LongUse
<1>3. \A n \in D!Nodes : lists.node[n].use \in {"no", "short", "long"}
  <2>1. PICK s, t : Lists(lists, s, t)
    BY DEF WalkInv, Chained
  <2>2. lists.node \in [D!Nodes -> NodeStates]
    BY <2>1 DEF Lists, ListStates
  <2> QED BY <2>2 DEF NodeStates
<1>4. ShortSet(lists) \cup LongSet(lists) = InUse(lists)
  BY <1>3 DEF ShortSet, LongSet, ShortUse, LongUse, InUse
<1>5. (Shorts \cup Longs) \ {D!Nil} = InUse(lists)
  BY <1>2, <1>4
<1> QED BY <1>5 DEF Listed, Bufs

\* Between calls every buffer is held for a reason.
LEMMA DispHeld ==
  ASSUME DispInv, Fits(conf.c)
  PROVE  HeldForReason
<1> SUFFICES ASSUME cur = None, ~ lost PROVE HeldForReason
  BY DEF HeldForReason
<1>1. Whole
  BY DEF Whole
<1>2. Flags /\ MvFlags /\ Shape /\ InOrder /\ StepInv
  BY <1>1 DEF DispInv
<1>3. Listed = Bufs(lists) /\ out = NoBuf
  BY <1>2, ListedIs DEF Shape, StepInv
<1> DEFINE refd == IF stream.fresh THEN {} ELSE Listed
           io == Waiting \cup Queued \cup mapped
<1>4. Refd = refd /\ refd \subseteq conf.pics
  BY <1>2, <1>3 DEF Flags, Refd
<1>5. Live = Waiting \cup Queued
  BY <1>3 DEF Live, Out
<1>6. \A b \in conf.pics : /\ "REF" \in pic[b] <=> b \in refd
                           /\ b \in Waiting \cup Queued => "IO" \in pic[b]
                           /\ "IO" \in pic[b] => b \in io
                           /\ pic[b] # {"busy"}
  <2>1. \A b \in conf.pics : "REF" \in pic[b] <=> b \in refd
    <3>1. \A b \in conf.pics : "REF" \in pic[b] <=> b \in Refd
      BY DEF Refd
    <3> QED BY <1>4, <3>1
  <2>2. \A b \in conf.pics : /\ b \in Waiting \cup Queued => "IO" \in pic[b]
                             /\ "IO" \in pic[b] => b \in io
                             /\ pic[b] # {"busy"}
    BY <1>2, <1>5 DEF Flags
  <2> QED BY <2>1, <2>2
<1>7. mapped \cap (Waiting \cup Queued) = {}
  BY <1>2, <1>5 DEF Flags
<1>8. Waiting \cap Queued = {}
  <2>1. holds \in [conf.pics -> Int] /\ NoBuf \notin conf.pics
    BY <1>1, <1>2, WholeFacts
  <2> QED BY <1>2, <2>1, LiveFacts
<1>9. \A v \in conf.mvs : mv[v] # {} <=> \E b \in refd : mvOf[b] = v
  <2>1. \A v \in conf.mvs : /\ mv[v] \subseteq {"busy", "REF"} /\ mv[v] # {"busy"}
                            /\ "REF" \in mv[v] <=> \E b \in Refd : mvOf[b] = v
    BY <1>2 DEF MvFlags
  <2>2. \A v \in conf.mvs : mv[v] # {} <=> "REF" \in mv[v]
    BY <2>1
  <2>3. \A v \in conf.mvs : "REF" \in mv[v] <=> \E b \in refd : mvOf[b] = v
    BY <1>4, <2>1
  <2> QED BY <2>2, <2>3
<1>10. \A a, b \in refd : mvOf[a] = mvOf[b] => a = b
  <2>1. \A a, b \in Refd : mvOf[a] = mvOf[b] => a = b
    BY <1>2 DEF MvFlags, InUseNow
  <2> QED BY <1>4, <2>1
<1> HIDE DEF refd
<1>11. HeldForReason <=> 
         /\ \A b \in conf.pics : /\ "REF" \in pic[b] <=> b \in refd
                                 /\ b \in Waiting \cup Queued => "IO" \in pic[b]
                                 /\ "IO" \in pic[b] => b \in io
                                 /\ pic[b] # {"busy"}
         /\ Waiting \cap Queued = {} /\ mapped \cap (Waiting \cup Queued) = {}
         /\ \A v \in conf.mvs : mv[v] # {} <=> \E b \in refd : mvOf[b] = v
         /\ \A a, b \in refd : mvOf[a] = mvOf[b] => a = b
  BY DEF HeldForReason, refd
<1> QED BY <1>6, <1>7, <1>8, <1>9, <1>10, <1>11

\* There are buffers enough.
LEMMA DispSuffice ==
  ASSUME DispInv, Fits(conf.c), conf.c.shared => ~ conf.c.lossy
  PROVE  BuffersSuffice
<1>1. (lost => conf.c.lossy) /\ Cardinality(waiting) <= conf.delay
  BY DEF DispInv, Shape
<1>2. ASSUME cur = None, ~ flush PROVE ~ Hangs
  <2>1. CASE ~ conf.c.shared
    BY <2>1 DEF Hangs, Available
  <2>2. CASE conf.c.shared
    <3>1. Whole
      BY <1>1, <2>2 DEF Whole
    <3>2. mapped = {} => \E b \in conf.pics : pic[b] = {}
      BY <1>2, <3>1, FreeFacts
    <3> QED BY <3>2 DEF Hangs, Available
  <2> QED BY <2>1, <2>2
<1> QED BY <1>1, <1>2 DEF BuffersSuffice

\* The elements of two sequences, one after the other.
LEMMA JoinIs ==
  ASSUME NEW a \in Seq(Int), NEW b \in Seq(Int)
  PROVE  /\ a \o b \in Seq(Int)
         /\ \E m, n \in Nat :
              /\ m = Len(a) /\ n = Len(b)
              /\ DOMAIN a = 1..m /\ DOMAIN b = 1..n /\ DOMAIN (a \o b) = 1..m + n
              /\ \A i \in 1..m + n : (a \o b)[i] = IF i <= m THEN a[i] ELSE b[i - m]
<1>1. PICK m \in Nat, n \in Nat : m = Len(a) /\ n = Len(b)
  OBVIOUS
<1>2. DOMAIN a = 1..m /\ DOMAIN b = 1..n /\ DOMAIN (a \o b) = 1..m + n
  BY <1>1
<1>3. \A i \in 1..m + n : (a \o b)[i] = IF i <= m THEN a[i] ELSE b[i - m]
  BY <1>1
<1>4. a \o b \in Seq(Int)
  OBVIOUS
<1> QED BY <1>1, <1>2, <1>3, <1>4

\* Two rising sequences, one after the other.
Ascends(s) == \A i, j \in DOMAIN s : i < j => s[i] < s[j]
LEMMA AscendsBoth ==
  ASSUME NEW a \in Seq(Int), NEW b \in Seq(Int), Ascends(a), Ascends(b),
         \A i \in DOMAIN a, j \in DOMAIN b : a[i] < b[j]
  PROVE  Ascends(a \o b)
<1>1. PICK m, n \in Nat :
        /\ m = Len(a) /\ n = Len(b)
        /\ DOMAIN a = 1..m /\ DOMAIN b = 1..n /\ DOMAIN (a \o b) = 1..m + n
        /\ \A i \in 1..m + n : (a \o b)[i] = IF i <= m THEN a[i] ELSE b[i - m]
  BY JoinIs, Zenon
<1>2. DOMAIN a = 1..m /\ DOMAIN b = 1..n /\ DOMAIN (a \o b) = 1..m + n
  BY <1>1
<1>3. \A i \in 1..m + n : (a \o b)[i] = IF i <= m THEN a[i] ELSE b[i - m]
  BY <1>1
<1> SUFFICES ASSUME NEW i \in 1..m + n, NEW j \in 1..m + n, i < j PROVE (a \o b)[i] < (a \o b)[j]
  BY <1>2 DEF Ascends
<1>4. CASE j <= m
  <2>1. i \in 1..m /\ j \in 1..m
    BY <1>4
  <2> QED BY <1>2, <1>3, <2>1 DEF Ascends
<1>5. CASE i <= m /\ ~ (j <= m)
  <2>1. i \in 1..m /\ j - m \in 1..n
    BY <1>5
  <2> QED BY <1>2, <1>3, <1>5, <2>1
<1>6. CASE ~ (i <= m)
  <2>1. i - m \in 1..n /\ j - m \in 1..n /\ i - m < j - m /\ ~ (j <= m)
    BY <1>6
  <2> QED BY <1>2, <1>3, <1>6, <2>1 DEF Ascends
<1> QED BY <1>4, <1>5, <1>6

\* What is shown, what is being shown and what is queued are in order.
LEMMA DispOrder ==
  ASSUME DispInv, Fits(conf.c)
  PROVE  DisplayOrder
<1> DEFINE o == IF out = NoBuf THEN <<>> ELSE <<holds[out]>>
           t == [i \in DOMAIN queue |-> holds[queue[i]]]
<1> SUFFICES ASSUME ~ lost PROVE Ascends((<<shown>> \o o) \o t)
  BY DEF DisplayOrder, Ascends
<1>1. InOrder /\ Shape /\ StepInv
  BY DEF DispInv, Whole
<1>2. /\ Rising(queue, holds) /\ \A b \in Out : shown < holds[b]
      /\ \A b \in Queued : shown < holds[b] /\ (\A d \in Out : holds[d] < holds[b])
  BY <1>1 DEF InOrder
<1>3. /\ queue \in Seq(conf.pics) /\ shown \in Int /\ out \in conf.pics \cup {NoBuf}
      /\ holds \in [conf.pics -> Int]
  BY <1>1 DEF Shape, StepInv
<1>4. t \in Seq(Int) /\ DOMAIN t = DOMAIN queue /\ \A i \in DOMAIN t : t[i] = holds[queue[i]]
  <2>1. PICK n \in Nat : DOMAIN queue = 1..n
    BY <1>3
  <2>2. \A i \in 1..n : holds[queue[i]] \in Int
    BY <1>3, <2>1
  <2>3. t \in [1..n -> Int]
    BY <2>1, <2>2
  <2> QED BY <2>3
<1>5. Ascends(t)
  BY <1>2, <1>4 DEF Ascends, Rising
<1>6. \A i \in DOMAIN t : shown < t[i] /\ \A d \in Out : holds[d] < t[i]
  BY <1>2, <1>4 DEF Queued
<1> HIDE DEF t
<1>7. CASE out = NoBuf
  <2>1. <<shown>> \o o = <<shown>>
    BY <1>3, <1>7
  <2>2. <<shown>> \in Seq(Int) /\ DOMAIN <<shown>> = {1} /\ <<shown>>[1] = shown
    BY <1>3
  <2>3. Ascends(<<shown>>)
    BY <2>2 DEF Ascends
  <2>4. Ascends(<<shown>> \o t)
    BY <1>4, <1>5, <1>6, <2>2, <2>3, AscendsBoth
  <2> QED BY <2>1, <2>4
<1>8. CASE out # NoBuf
  <2>1. out \in Out /\ holds[out] \in Int /\ shown < holds[out]
    BY <1>2, <1>3, <1>8 DEF Out
  <2> DEFINE u == <<shown>> \o <<holds[out]>>
  <2>2. <<shown>> \o o = u
    BY <1>8
  <2>3. u \in Seq(Int) /\ DOMAIN u = {1, 2} /\ u[1] = shown /\ u[2] = holds[out]
    <3>1. /\ <<shown>> \in Seq(Int) /\ Len(<<shown>>) = 1 /\ <<shown>>[1] = shown
          /\ <<holds[out]>> \in Seq(Int) /\ Len(<<holds[out]>>) = 1 /\ <<holds[out]>>[1] = holds[out]
      BY <1>3, <2>1
    <3>2. PICK m \in Nat, n \in Nat :
            /\ m = 1 /\ n = 1 /\ DOMAIN u = 1..m + n
            /\ \A i \in 1..m + n : u[i] = IF i <= m THEN <<shown>>[i] ELSE <<holds[out]>>[i - m]
      BY <3>1, JoinIs
    <3>3. u \in Seq(Int)
      BY <3>1, JoinIs
    <3> HIDE DEF u
    <3>4. DOMAIN u = {1, 2}
      BY <3>2
    <3>5. u[1] = <<shown>>[1] /\ u[2] = <<holds[out]>>[1]
      BY <3>2
    <3> QED BY <3>1, <3>3, <3>4, <3>5
  <2> HIDE DEF u
  <2>4. Ascends(u)
    BY <2>1, <2>3 DEF Ascends
  <2>5. Ascends(u \o t)
    BY <1>4, <1>5, <1>6, <2>1, <2>3, <2>4, AscendsBoth
  <2> QED BY <2>2, <2>5
<1> QED BY <1>7, <1>8

\* What is to be shown is where it was decoded.
LEMMA DispKept ==
  ASSUME DispInv, Fits(conf.c)
  PROVE  SamplesKept
<1> SUFFICES ASSUME ~ lost PROVE SamplesKept
  BY DEF SamplesKept
<1>1. Whole
  BY DEF Whole
<1>2. InOrder /\ Flags /\ StepInv /\ (cur # None => cur.buf \in conf.pics)
  BY <1>1, WholeFacts DEF DispInv
<1>3. due = {holds[b] : b \in Waiting \cup Queued \cup ({out} \ {NoBuf})}
  BY <1>2 DEF InOrder, Live, Out
<1>4. Listed = Bufs(lists)
  BY <1>2, ListedIs DEF StepInv
<1>5. ASSUME cur # None PROVE cur.buf \notin mapped \cup (IF cur.p.idr THEN {} ELSE Listed)
  <2>1. cur.buf \notin mapped /\ pic[cur.buf] = {"busy"} /\ (~ cur.p.idr => Refd = Listed)
    BY <1>2, <1>4, <1>5 DEF Flags
  <2>2. cur.buf \notin Refd
    BY <2>1 DEF Refd
  <2> QED BY <2>1, <2>2
<1> QED BY <1>3, <1>5 DEF SamplesKept

-----------------------------------------------------------------------------
(* The theorems. *)

\* Between calls every buffer is held for a reason, and by nothing else, for
\* every configuration that fits and every stream of it that is complete
\* (ih264_buf_mgr_release, ih264d_free_ref_pic_mv_bufs).
THEOREM HoldsForReason == Spec => [](Fits(conf.c) => HeldForReason)
<1>1. Init => DispInv
  BY DispInit
<1>2. DispInv /\ [Next]_vars => DispInv'
  BY DispNext
<1>3. DispInv => (Fits(conf.c) => HeldForReason)
  BY DispHeld
<1> QED BY <1>1, <1>2, <1>3, PTL DEF Spec

\* The buffers that ih264d_init_pic and ih264d_create_mv_bank size suffice, and
\* so does the display list: no picture of a complete stream is refused and no
\* more wait than the delay.  With shared buffers this is said of streams that
\* lose no picture: after a loss a buffer may stay taken.
THEOREM Suffices ==
  Spec => [](Fits(conf.c) /\ (conf.c.shared => ~ conf.c.lossy) => BuffersSuffice)
<1>1. Init => DispInv
  BY DispInit
<1>2. DispInv /\ [Next]_vars => DispInv'
  BY DispNext
<1>3. DispInv => (Fits(conf.c) /\ (conf.c.shared => ~ conf.c.lossy) => BuffersSuffice)
  BY DispSuffice
<1> QED BY <1>1, <1>2, <1>3, PTL DEF Spec

\* The pictures are shown in the order of the stream, across IDR pictures,
\* resets and flushes, whatever the delay, the order of decoding and the number
\* of references (ih264d_assign_display_seq).
THEOREM ShowsInOrder == Spec => [](Fits(conf.c) => DisplayOrder)
<1>1. Init => DispInv
  BY DispInit
<1>2. DispInv /\ [Next]_vars => DispInv'
  BY DispNext
<1>3. DispInv => (Fits(conf.c) => DisplayOrder)
  BY DispOrder
<1> QED BY <1>1, <1>2, <1>3, PTL DEF Spec

\* No picture is decoded over samples that are still to be shown, that the
\* application has or that the picture refers to (ih264d_start_of_pic).
THEOREM KeepsSamples == Spec => [](Fits(conf.c) => SamplesKept)
<1>1. Init => DispInv
  BY DispInit
<1>2. DispInv /\ [Next]_vars => DispInv'
  BY DispNext
<1>3. DispInv => (Fits(conf.c) => SamplesKept)
  BY DispKept
<1> QED BY <1>1, <1>2, <1>3, PTL DEF Spec
=============================================================================
