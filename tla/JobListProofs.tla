--------------------------- MODULE JobListProofs ---------------------------
(***************************************************************************)
(* Proofs about JobList for every ring size and every set of threads.      *)
(***************************************************************************)
EXTENDS JobList, SequenceTheorems, TLAPS

\* Slots are positions of the ring.
LEMMA SlotRange ==
  ASSUME NEW i \in Nat
  PROVE  Slot(i) \in 0..MaxIdx-1
BY ListAssumption DEF Slot

\* Two indices less than a ring apart use different slots: what makes the
\* masked index of ih264_list_queue safe as long as the ring is not overrun.
LEMMA SlotInjective ==
  ASSUME NEW i \in Nat, NEW j \in Nat, i < j, j - i < MaxIdx
  PROVE  Slot(i) # Slot(j)
<1>1. SUFFICES ASSUME i % MaxIdx = j % MaxIdx PROVE FALSE
  BY DEF Slot
<1>2. MaxIdx \in Nat /\ MaxIdx > 0
  BY ListAssumption
<1> DEFINE qi == i \div MaxIdx
           qj == j \div MaxIdx
           r == i % MaxIdx
<1>3. qi \in Int /\ qj \in Int /\ r \in Int
  BY <1>2
<1>4. i = MaxIdx * qi + r /\ j = MaxIdx * qj + r
  BY <1>1, <1>2
<1>5. j - i = MaxIdx * (qj - qi)
  BY <1>2, <1>3, <1>4
<1>6. CASE qj - qi <= 0
  <2>1. MaxIdx * (qj - qi) <= 0
    BY <1>2, <1>3, <1>6
  <2> QED BY <2>1, <1>5
<1>7. CASE qj - qi >= 1
  <2>1. MaxIdx * (qj - qi) >= MaxIdx
    BY <1>2, <1>3, <1>7
  <2> QED BY <2>1, <1>5, <1>2
<1> QED BY <1>3, <1>6, <1>7

-----------------------------------------------------------------------------
(* The inductive invariant. *)

ListInv == TypeOK /\ NoOverrun /\ PendingFilled

LEMMA ListInvInit == Init => ListInv
<1> SUFFICES ASSUME Init PROVE ListInv
  OBVIOUS
<1>1. call \in [Threads -> Calls]
  <2>1. NoCall \in Calls
    BY DEF NoCall, Calls
  <2> QED BY <2>1 DEF Init
<1>2. TypeOK
  BY <1>1, ListAssumption DEF Init, TypeOK
<1>3. NoOverrun /\ PendingFilled
  BY ListAssumption DEF Init, NoOverrun, PendingFilled, Diff
<1> QED BY <1>2, <1>3 DEF ListInv

LEMMA ListInvStep == ListInv /\ [Next]_vars => ListInv'
<1> SUFFICES ASSUME ListInv, [Next]_vars PROVE ListInv'
  OBVIOUS
<1> USE ListAssumption
<1> USE DEF ListInv
<1>0. NoCall \in Calls
  BY DEF NoCall, Calls
<1>1. ASSUME NEW t \in Threads, NEW c \in Calls, StartCall(t, c)
      PROVE  ListInv'
  BY <1>1 DEF StartCall, TypeOK, NoOverrun, PendingFilled, Diff, Slot
<1>2. ASSUME NEW t \in Producers, QueueStore(t) PROVE ListInv'
  <2>1. call[t].job \in Jobs
    BY <1>2 DEF QueueStore, TypeOK, Calls, Threads
  <2>2. TypeOK'
    <3>1. buf' \in [0..MaxIdx-1 -> Jobs \cup {Unset}]
      BY <1>2, <2>1, SlotRange DEF QueueStore, TypeOK
    <3>2. call' \in [Threads -> Calls]
      BY <1>0, <1>2 DEF QueueStore, TypeOK
    <3>3. terminate' \in BOOLEAN
      BY <1>2, Zenon DEF QueueStore
    <3> QED BY <1>2, <3>1, <3>2, <3>3 DEF QueueStore, TypeOK
  <2>3. NoOverrun'
    BY <1>2 DEF QueueStore, TypeOK, NoOverrun, Diff
  <2>4. PendingFilled'
    <3> SUFFICES ASSUME NEW i \in rd'..wr'-1 PROVE buf'[Slot(i)] \in Jobs
      BY DEF PendingFilled, Slot
    <3>1. CASE i = wr
      BY <3>1, <1>2, <2>1, SlotRange DEF QueueStore, TypeOK
    <3>2. CASE i # wr
      <4>1. i \in rd..wr-1 /\ i \in Nat /\ wr - i < MaxIdx /\ i < wr
        BY <3>2, <1>2 DEF QueueStore, TypeOK, NoOverrun, Diff
      <4>2. Slot(i) # Slot(wr)
        BY <4>1, SlotInjective DEF TypeOK
      <4>3. buf'[Slot(i)] = buf[Slot(i)]
        BY <4>1, <4>2, <1>2, SlotRange DEF QueueStore, TypeOK
      <4> QED BY <4>1, <4>3 DEF PendingFilled
    <3> QED BY <3>1, <3>2
  <2> QED BY <2>2, <2>3, <2>4
<1>3. ASSUME NEW t \in Producers, QueueFull(t) PROVE ListInv'
  BY <1>0, <1>3 DEF QueueFull, TypeOK, NoOverrun, PendingFilled, Diff, Slot, Threads
<1>4. ASSUME NEW t \in Consumers, DequeueTake(t) PROVE ListInv'
  <2>1. buf[Slot(rd)] \in Jobs
    BY <1>4 DEF DequeueTake, TypeOK, NoOverrun, PendingFilled, Diff
  <2>2. TypeOK'
    <3>1. call' \in [Threads -> Calls]
      BY <1>0, <1>4 DEF DequeueTake, TypeOK
    <3>2. ret' \in [Threads -> Jobs \cup {None, Fail}]
      BY <1>4, <2>1 DEF DequeueTake, TypeOK
    <3> QED BY <1>4, <3>1, <3>2 DEF DequeueTake, TypeOK
  <2>3. NoOverrun' /\ PendingFilled'
    BY <1>4 DEF DequeueTake, TypeOK, NoOverrun, PendingFilled, Diff
  <2> QED BY <2>2, <2>3
<1>5. ASSUME NEW t \in Consumers, DequeueFail(t) PROVE ListInv'
  BY <1>0, <1>5 DEF DequeueFail, TypeOK, NoOverrun, PendingFilled, Diff, Slot, Threads
<1>6. CASE Terminate
  BY <1>6 DEF Terminate, TypeOK, NoOverrun, PendingFilled, Diff, Slot
<1>7. CASE Reset
  <2>0. terminate' \in BOOLEAN
    BY <1>7, Zenon DEF Reset
  <2>1. TypeOK' /\ NoOverrun'
    BY <2>0, <1>7 DEF Reset, TypeOK, NoOverrun, Diff
  <2>2. rd'..wr'-1 = {}
    BY <1>7 DEF Reset
  <2>3. PendingFilled'
    BY <2>2 DEF PendingFilled
  <2> QED BY <2>1, <2>3
<1>8. CASE UNCHANGED vars
  BY <1>8 DEF vars, TypeOK, NoOverrun, PendingFilled, Diff, Slot
<1>9. ASSUME NEW t \in Producers, CallQueue(t) PROVE ListInv'
  BY <1>1, <1>9 DEF CallQueue, Calls, Threads
<1>10. ASSUME NEW t \in Consumers, CallDequeue(t) PROVE ListInv'
  BY <1>1, <1>10 DEF CallDequeue, Calls, Threads
<1> QED
  BY <1>2, <1>3, <1>4, <1>5, <1>6, <1>7, <1>8, <1>9, <1>10 DEF Next

\* The counters of the list stay within one ring of each other and every
\* pending slot holds a queued job, for every ring size and set of threads.
THEOREM ListInvariant == Spec => [](TypeOK /\ RingSound)
<1>1. Spec => []ListInv
  BY ListInvInit, ListInvStep, PTL DEF Spec
<1> QED BY <1>1, PTL DEF ListInv, RingSound

-----------------------------------------------------------------------------
(* The ring implements the FIFO of JobFifo. *)

\* The i-th pending job lies between the counters.
LEMMA PendingIndex ==
  ASSUME NEW r \in Nat, NEW w \in Nat, NEW i \in 1..(w - r)
  PROVE  r + i - 1 \in r..w-1
OBVIOUS

\* The pending jobs are a sequence, as long as the distance of the counters.
LEMMA PendingSeq ==
  ASSUME ListInv
  PROVE  /\ Pending \in Seq(Jobs)
         /\ Len(Pending) = Diff
         /\ \A i \in 1..Diff : Pending[i] = buf[Slot(rd + i - 1)]
<1>1. Diff \in Nat
  BY DEF ListInv, TypeOK, NoOverrun, Diff
<1>2. ASSUME NEW i \in 1..Diff PROVE buf[Slot(rd + i - 1)] \in Jobs
  <2>1. rd + i - 1 \in rd..wr-1
    BY <1>1, <1>2 DEF ListInv, TypeOK, Diff
  <2> QED BY <2>1 DEF ListInv, PendingFilled
<1> QED BY <1>1, <1>2 DEF Pending

LEMMA RefineInit == Init => Abs!AFInit
<1> SUFFICES ASSUME Init PROVE Abs!AFInit
  OBVIOUS
<1>1. Pending = <<>>
  BY DEF Init, Pending, Diff
<1>2. ret = [t \in Threads |-> None] /\ terminate = FALSE
  BY DEF Init
<1> QED BY <1>1, <1>2 DEF Abs!AFInit, Abs!EmptyFifo

LEMMA RefineStore ==
  ASSUME ListInv, ListInv', NEW t \in Producers, QueueStore(t)
  PROVE  Abs!AFPut(t, call[t].job) /\ call[t].job \in Jobs
<1>1. call[t].job \in Jobs
  BY DEF ListInv, QueueStore, TypeOK, Calls, Threads
<1>2. Diff' = Diff + 1 /\ Diff \in Nat /\ Diff < MaxIdx /\ rd' = rd /\ rd \in Nat /\ wr \in Nat
  BY DEF ListInv, QueueStore, TypeOK, NoOverrun, Diff
<1>3. ASSUME NEW i \in 1..Diff PROVE Pending'[i] = Pending[i]
  <2>1. i \in 1..Diff'
    BY <1>2
  <2>2. Pending'[i] = buf'[Slot(rd + i - 1)]
    BY <2>1, <1>2 DEF Pending
  <2>3. rd + i - 1 \in Nat /\ rd + i - 1 < wr /\ wr - (rd + i - 1) < MaxIdx
    BY <1>2, ListAssumption DEF Diff
  <2>4. Slot(rd + i - 1) # Slot(wr)
    BY <2>3, <1>2, SlotInjective
  <2>5. buf'[Slot(rd + i - 1)] = buf[Slot(rd + i - 1)]
    BY <2>3, <2>4, <1>2, SlotRange DEF QueueStore, ListInv, TypeOK
  <2> QED BY <2>2, <2>5, PendingSeq
<1>4. Pending'[Diff + 1] = call[t].job
  <2>1. Pending'[Diff + 1] = buf'[Slot(rd' + (Diff + 1) - 1)]
    BY <1>2 DEF Pending
  <2>2. rd' + (Diff + 1) - 1 = wr
    BY <1>2 DEF Diff
  <2>3. buf'[Slot(wr)] = call[t].job
    BY <1>2, SlotRange DEF QueueStore, ListInv, TypeOK
  <2> QED BY <2>1, <2>2, <2>3
<1>5. Pending' = Append(Pending, call[t].job)
  <2>1. Pending' \in Seq(Jobs) /\ Len(Pending') = Diff + 1
    <3>1. ASSUME NEW i \in 1..Diff' PROVE buf'[Slot(rd' + i - 1)] \in Jobs
      <4>0. rd' \in Nat /\ wr' \in Nat
        BY DEF ListInv, TypeOK
      <4>1. i \in 1..(wr' - rd')
        BY <3>1 DEF Diff
      <4>2. rd' + i - 1 \in rd'..wr'-1
        BY <4>0, <4>1, PendingIndex
      <4> QED BY <4>2 DEF ListInv, PendingFilled
    <3> QED BY <1>2, <3>1 DEF Pending
  <2> QED BY <2>1, <1>1, <1>2, <1>3, <1>4, PendingSeq
<1>6. terminate' = FALSE /\ ret' = ret
  BY DEF QueueStore
<1> QED BY <1>1, <1>2, <1>5, <1>6, PendingSeq DEF Abs!AFPut, Abs!Put

LEMMA RefineTake ==
  ASSUME ListInv, ListInv', NEW t \in Consumers, DequeueTake(t)
  PROVE  Abs!AFTake(t)
<1>1. Diff' = Diff - 1 /\ Diff \in Nat /\ Diff > 0 /\ rd' = rd + 1 /\ rd \in Nat
  BY DEF ListInv, DequeueTake, TypeOK, NoOverrun, Diff
<1>2. Pending \in Seq(Jobs) /\ Len(Pending) = Diff /\ Pending # <<>>
  BY <1>1, PendingSeq
<1>3. Head(Pending) = buf[Slot(rd)]
  <2>1. Head(Pending) = buf[Slot(rd + 1 - 1)]
    BY <1>1, <1>2, PendingSeq
  <2>2. rd + 1 - 1 = rd
    BY <1>1
  <2> QED BY <2>1, <2>2
<1>4. Pending' = Tail(Pending)
  <2>1. Tail(Pending) = [i \in 1..Diff-1 |-> Pending[i + 1]]
    <3>1. /\ Tail(Pending) \in Seq(Jobs)
          /\ Len(Tail(Pending)) = Diff - 1
          /\ \A i \in 1..Diff-1 : Tail(Pending)[i] = Pending[i + 1]
      BY <1>1, <1>2, HeadTailProperties
    <3>2. Tail(Pending) \in [1..Diff-1 -> Jobs]
      BY <3>1, LenProperties
    <3> QED BY <3>1, <3>2
  <2>2. Pending' = [i \in 1..Diff-1 |-> buf[Slot(rd' + i - 1)]]
    BY <1>1 DEF Pending, DequeueTake
  <2>3. ASSUME NEW i \in 1..Diff-1 PROVE Pending[i + 1] = buf[Slot(rd' + i - 1)]
    <3>1. i + 1 \in 1..Diff /\ rd + (i + 1) - 1 = rd' + i - 1
      BY <1>1, <2>3
    <3> QED BY <3>1, PendingSeq
  <2> QED BY <2>1, <2>2, <2>3
<1>5. terminate' = terminate /\ ret' = [ret EXCEPT ![t] = buf[Slot(rd)]]
  BY DEF DequeueTake
<1> QED BY <1>2, <1>3, <1>4, <1>5 DEF Abs!AFTake, Abs!Take

LEMMA RefineStep ==
  ListInv /\ ListInv' /\ [Next]_vars => [Abs!AFNext]_(Abs!afVars)
<1> SUFFICES ASSUME ListInv, ListInv', [Next]_vars
             PROVE  [Abs!AFNext]_(Abs!afVars)
  OBVIOUS
<1> DEFINE fifo == [jobs |-> Pending, closed |-> terminate]
<1>0. Producers \subseteq Threads /\ Consumers \subseteq Threads
  BY DEF Threads
<1>1. UNCHANGED <<buf, rd, wr>> => Pending' = Pending
  BY DEF Pending, Diff
<1>2. ASSUME NEW t \in Threads, NEW c, StartCall(t, c) PROVE Abs!AFNext
  <2>1. fifo' = fifo /\ ret' = [ret EXCEPT ![t] = None]
    BY <1>1, <1>2 DEF StartCall
  <2> QED BY <2>1 DEF Abs!AFNext, Abs!AFCall
<1>3. ASSUME NEW t \in Producers, QueueFull(t) PROVE Abs!AFNext
  <2>1. Len(Pending) = MaxIdx
    BY <1>3, PendingSeq, ListAssumption DEF QueueFull, ListInv, NoOverrun, TypeOK, Diff
  <2>2. Pending' = Pending /\ terminate' = FALSE /\ ret' = [ret EXCEPT ![t] = Fail]
    BY <1>1, <1>3 DEF QueueFull
  <2> QED BY <1>0, <2>1, <2>2 DEF Abs!AFNext, Abs!AFRefuse, Abs!Reopen
<1>4. ASSUME NEW t \in Consumers, DequeueFail(t) PROVE Abs!AFNext
  <2>1. Pending = <<>>
    <3>1. Diff = 0
      BY <1>4 DEF DequeueFail, ListInv, NoOverrun, TypeOK, Diff
    <3> QED BY <3>1, PendingSeq
  <2>2. fifo' = fifo /\ ret' = [ret EXCEPT ![t] = Fail]
    BY <1>1, <1>4 DEF DequeueFail
  <2> QED BY <1>0, <2>1, <2>2 DEF Abs!AFNext, Abs!AFEmpty
<1>5. CASE Terminate
  <2>1. Pending' = Pending /\ terminate' = TRUE /\ ret' = ret
    BY <1>1, <1>5 DEF Terminate
  <2> QED BY <2>1 DEF Abs!AFNext, Abs!AFClose, Abs!Close
<1>6. CASE Reset
  <2>1. Pending' = <<>>
    BY <1>6 DEF Reset, Pending, Diff
  <2> QED BY <1>6, <2>1 DEF Reset, Abs!AFNext, Abs!AFReset, Abs!EmptyFifo
<1>7. CASE UNCHANGED vars
  BY <1>1, <1>7 DEF vars, Abs!afVars
<1>8. ASSUME NEW t \in Producers, QueueStore(t) PROVE Abs!AFNext
  BY <1>0, <1>8, RefineStore DEF Abs!AFNext
<1>9. ASSUME NEW t \in Consumers, DequeueTake(t) PROVE Abs!AFNext
  BY <1>0, <1>9, RefineTake DEF Abs!AFNext
<1>10. ASSUME NEW t \in Producers, CallQueue(t) PROVE Abs!AFNext
  BY <1>0, <1>2, <1>10 DEF CallQueue
<1>11. ASSUME NEW t \in Consumers, CallDequeue(t) PROVE Abs!AFNext
  BY <1>0, <1>2, <1>11 DEF CallDequeue
<1> QED
  BY <1>3, <1>4, <1>5, <1>6, <1>7, <1>8, <1>9, <1>10, <1>11 DEF Next

\* The ring buffer of ih264_list.c is a bounded FIFO for every ring size and any
\* number of threads: no job is lost, repeated or overtaken, also when the counters
\* go round the ring, which the headers of its functions call unsupported.
THEOREM ListImplementsFifo == Spec => ImplementsFifo
<1>1. Spec => []ListInv
  BY ListInvInit, ListInvStep, PTL DEF Spec
<1> QED BY <1>1, RefineInit, RefineStep, PTL DEF Spec, ImplementsFifo, Abs!AFSpec
=============================================================================
