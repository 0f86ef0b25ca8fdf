------------------------------ MODULE JobList ------------------------------
(***************************************************************************)
(* list_t of common/ih264_list.c, the job list the encoder's threads share: *)
(* a ring of MaxIdx slots addressed by two counters that only grow between *)
(* resets, a terminate flag, and one mutex.  Between two calls of          *)
(* ih264_list_yield a call holds the mutex, so one pass of its loop is one *)
(* step here; a blocking pass that finds nothing to do only releases and   *)
(* retakes the mutex, which changes no state and is left out.              *)
(*                                                                         *)
(* Producers queue jobs, Consumers dequeue them.  MaxPuts bounds the write *)
(* index between two resets so that TLC terminates; nothing else depends   *)
(* on it.                                                                  *)
(***************************************************************************)
EXTENDS Integers

CONSTANTS
  Producers, Consumers,  \* threads that queue, threads that dequeue
  Jobs,                  \* job_t values
  MaxIdx,                \* i4_buf_max_idx
  Unset,                 \* content of a slot nothing was copied to
  None, Fail,            \* no result yet, IH264_FAIL
  MaxPuts                \* model bound on i4_buf_wr_idx

Threads == Producers \cup Consumers

ASSUME ListAssumption ==
  /\ MaxIdx \in Nat \ {0}
  /\ Producers \cap Consumers = {}
  /\ {Unset, None, Fail} \cap Jobs = {}
  /\ None # Fail

\* ih264_list_init asserts that the number of entries is a power of two, which
\* makes "idx & (MaxIdx - 1)" the same as idx % MaxIdx.
ASSUME PowerOfTwo == \E k \in 0..30 : MaxIdx = 2^k

VARIABLES
  buf,        \* the slots at pv_buf_base
  rd, wr,     \* i4_buf_rd_idx, i4_buf_wr_idx
  terminate,  \* i4_terminate
  call,       \* the call each thread is in
  ret         \* what its last call returned

vars == <<buf, rd, wr, terminate, call, ret>>

NoCall == [op |-> "none", job |-> Unset, blocking |-> FALSE]

Calls ==
  [op : {"none"}, job : {Unset}, blocking : {FALSE}]
    \cup [op : {"queue"}, job : Jobs, blocking : BOOLEAN]
    \cup [op : {"dequeue"}, job : {Unset}, blocking : BOOLEAN]

Slot(i) == i % MaxIdx
Diff == wr - rd

Init ==
  /\ buf = [s \in 0..MaxIdx-1 |-> Unset]
  /\ rd = 0 /\ wr = 0
  /\ terminate = FALSE
  /\ call = [t \in Threads |-> NoCall]
  /\ ret = [t \in Threads |-> None]

-----------------------------------------------------------------------------
(* A thread enters a call. *)

StartCall(t, c) ==
  /\ call[t] = NoCall
  /\ call' = [call EXCEPT ![t] = c]
  /\ ret' = [ret EXCEPT ![t] = None]
  /\ UNCHANGED <<buf, rd, wr, terminate>>

CallQueue(t) ==
  /\ wr < MaxPuts
  /\ \E j \in Jobs, b \in BOOLEAN :
       StartCall(t, [op |-> "queue", job |-> j, blocking |-> b])

CallDequeue(t) ==
  \E b \in BOOLEAN :
    StartCall(t, [op |-> "dequeue", job |-> Unset, blocking |-> b])

-----------------------------------------------------------------------------
(* One pass of the loop of ih264_list_queue. *)

\* Faulty variant: the index is advanced before the job is copied.
QueueStoreLate(t) ==
  /\ call[t].op = "queue"
  /\ Diff < MaxIdx
  /\ buf' = [buf EXCEPT ![Slot(wr + 1)] = call[t].job]
  /\ wr' = wr + 1
  /\ terminate' = FALSE
  /\ call' = [call EXCEPT ![t] = NoCall]
  /\ UNCHANGED <<rd, ret>>

QueueStore(t) ==
  /\ call[t].op = "queue"
  /\ Diff < MaxIdx
  /\ buf' = [buf EXCEPT ![Slot(wr)] = call[t].job]
  /\ wr' = wr + 1
  /\ terminate' = FALSE
  /\ call' = [call EXCEPT ![t] = NoCall]
  /\ UNCHANGED <<rd, ret>>

QueueFull(t) ==
  /\ call[t].op = "queue"
  /\ Diff >= MaxIdx
  /\ ~call[t].blocking
  /\ terminate' = FALSE
  /\ call' = [call EXCEPT ![t] = NoCall]
  /\ ret' = [ret EXCEPT ![t] = Fail]
  /\ UNCHANGED <<buf, rd, wr>>

-----------------------------------------------------------------------------
(* One pass of the loop of ih264_list_dequeue. *)

DequeueTake(t) ==
  /\ call[t].op = "dequeue"
  /\ Diff > 0
  /\ ret' = [ret EXCEPT ![t] = buf[Slot(rd)]]
  /\ rd' = rd + 1
  /\ call' = [call EXCEPT ![t] = NoCall]
  /\ UNCHANGED <<buf, wr, terminate>>

\* Faulty variant: terminate is tested before the counters.
DequeueFailEager(t) ==
  /\ call[t].op = "dequeue"
  /\ terminate \/ (Diff <= 0 /\ ~call[t].blocking)
  /\ ret' = [ret EXCEPT ![t] = Fail]
  /\ call' = [call EXCEPT ![t] = NoCall]
  /\ UNCHANGED <<buf, rd, wr, terminate>>

\* Faulty variant: a blocking reader does not look at terminate.
DequeueFailDeaf(t) ==
  /\ call[t].op = "dequeue"
  /\ Diff <= 0
  /\ ~call[t].blocking
  /\ ret' = [ret EXCEPT ![t] = Fail]
  /\ call' = [call EXCEPT ![t] = NoCall]
  /\ UNCHANGED <<buf, rd, wr, terminate>>

DequeueFail(t) ==
  /\ call[t].op = "dequeue"
  /\ Diff <= 0
  /\ terminate \/ ~call[t].blocking
  /\ ret' = [ret EXCEPT ![t] = Fail]
  /\ call' = [call EXCEPT ![t] = NoCall]
  /\ UNCHANGED <<buf, rd, wr, terminate>>

-----------------------------------------------------------------------------
Terminate ==
  /\ terminate' = TRUE
  /\ UNCHANGED <<buf, rd, wr, call, ret>>

\* The owner resets the list between frames, when no thread uses it
\* (ih264e_encode, after the threads are joined or synchronised).
Reset ==
  /\ \A t \in Threads : call[t] = NoCall
  /\ terminate' = FALSE
  /\ rd' = 0 /\ wr' = 0
  /\ UNCHANGED <<buf, call, ret>>

Next ==
  \/ \E t \in Producers : CallQueue(t) \/ QueueStore(t) \/ QueueFull(t)
  \/ \E t \in Consumers : CallDequeue(t) \/ DequeueTake(t) \/ DequeueFail(t)
  \/ Terminate
  \/ Reset

\* A thread inside a call is scheduled again and again, and the mutex of the
\* list is handed out fairly between the yields.
Fairness == \A t \in Consumers : WF_vars(DequeueTake(t) \/ DequeueFail(t))

Spec == Init /\ [][Next]_vars
FairSpec == Spec /\ Fairness

-----------------------------------------------------------------------------
TypeOK ==
  /\ buf \in [0..MaxIdx-1 -> Jobs \cup {Unset}]
  /\ rd \in Nat /\ wr \in Nat
  /\ terminate \in BOOLEAN
  /\ call \in [Threads -> Calls]
  /\ ret \in [Threads -> Jobs \cup {None, Fail}]

NoOverrun == 0 <= Diff /\ Diff <= MaxIdx
PendingFilled == \A i \in rd..wr-1 : buf[Slot(i)] \in Jobs

\* The writer is never more than the ring ahead of the reader and the reader
\* never passes it (the comment in both loops: "wr idx does not go beyond rd idx
\* by more than number of entries"), and every slot between them was filled: no
\* dequeue returns the content of a slot nothing was copied to.
RingSound == NoOverrun /\ PendingFilled

\* The jobs queued and not dequeued, oldest first.
Pending == [i \in 1..Diff |-> buf[Slot(rd + i - 1)]]

Abs == INSTANCE JobFifo WITH
  fifo <- [jobs |-> Pending, closed |-> terminate], Capacity <- MaxIdx

\* The ring implements the FIFO of JobFifo: no job is lost, repeated or
\* overtaken, and a reader is told "no more jobs" only when every queued job was
\* handed out, whatever the interleaving of the threads.  That holds also when the
\* counters go round the ring, of which the headers of ih264_list_queue and
\* ih264_list_dequeue (ih264_list.c:417-418, 498-499) say "Wrap around is not
\* supported": both mask their index (446, 527) and keep the counters within a ring
\* of each other, so the code supports it.  The encoder does not rely on it: its
\* lists take a picture's jobs and are reset after every picture.
ImplementsFifo == Abs!AFSpec

\* A list that stays terminated lets every blocking reader out: no thread spins
\* in ih264_list_dequeue for ever after the last job (the wait "till a buf is
\* available or terminate is set").
ReadersReleased ==
  \A t \in Consumers : <>[]terminate => []<>(call[t] = NoCall)
=============================================================================
