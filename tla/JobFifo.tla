------------------------------ MODULE JobFifo ------------------------------
(***************************************************************************)
(* What a job list promises its callers: a bounded FIFO that never loses,  *)
(* repeats or reorders a job, and tells a reader it is finished only when  *)
(* it is empty.  ret[t] is what the last call of thread t returned.        *)
(***************************************************************************)
EXTENDS Fifo

CONSTANTS Threads, Jobs, Capacity, None, Fail

VARIABLES fifo, ret

afVars == <<fifo, ret>>

AFInit == fifo = EmptyFifo /\ ret = [t \in Threads |-> None]

\* A call starts: the result of the previous one is forgotten.
AFCall(t) == ret' = [ret EXCEPT ![t] = None] /\ UNCHANGED fifo

\* A job is accepted only while there is room.
AFPut(t, j) ==
  /\ Len(fifo.jobs) < Capacity
  /\ fifo' = Put(fifo, j)
  /\ UNCHANGED ret

\* A full list refuses the job.
AFRefuse(t) ==
  /\ Len(fifo.jobs) = Capacity
  /\ fifo' = Reopen(fifo)
  /\ ret' = [ret EXCEPT ![t] = Fail]

\* The reader gets the oldest job, which leaves the list.
AFTake(t) ==
  /\ fifo.jobs # <<>>
  /\ ret' = [ret EXCEPT ![t] = Head(fifo.jobs)]
  /\ fifo' = Take(fifo)

\* Only an empty list turns a reader away.
AFEmpty(t) ==
  /\ fifo.jobs = <<>>
  /\ ret' = [ret EXCEPT ![t] = Fail]
  /\ UNCHANGED fifo

AFClose == fifo' = Close(fifo) /\ UNCHANGED ret
AFReset == fifo' = EmptyFifo /\ UNCHANGED ret

AFNext ==
  \/ \E t \in Threads : \/ AFCall(t) \/ AFRefuse(t) \/ AFTake(t) \/ AFEmpty(t)
                        \/ \E j \in Jobs : AFPut(t, j)
  \/ AFClose
  \/ AFReset

AFSpec == AFInit /\ [][AFNext]_afVars
=============================================================================
