-------------------------------- MODULE Fifo --------------------------------
(***************************************************************************)
(* The value of a job list as its callers see it: the jobs queued and not  *)
(* yet dequeued, oldest first, and whether the list has been terminated.   *)
(* JobFifo states what a list promises in these terms; JobList shows that  *)
(* the ring buffer of common/ih264_list.c keeps the promise, and the       *)
(* modules of the encoder use the promise.                                 *)
(***************************************************************************)
EXTENDS Naturals, Sequences

Fifo(J) == [jobs : Seq(J), closed : BOOLEAN]

EmptyFifo == [jobs |-> <<>>, closed |-> FALSE]

\* ih264_list_queue: every return of it, also the failing one, clears the
\* terminate flag.
Put(q, j)   == [jobs |-> Append(q.jobs, j), closed |-> FALSE]
Reopen(q)   == [jobs |-> q.jobs, closed |-> FALSE]

\* ih264_list_dequeue on a list that holds a job
Take(q)     == [jobs |-> Tail(q.jobs), closed |-> q.closed]

\* ih264_list_terminate
Close(q)    == [jobs |-> q.jobs, closed |-> TRUE]

\* ih264_get_job_count_in_list
JobCount(q) == Len(q.jobs)
=============================================================================
